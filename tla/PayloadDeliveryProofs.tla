------------------------ MODULE PayloadDeliveryProofs ------------------------
(***************************************************************************)
(* For any blocks, calls, failures and restarts: a payload in Redis is     *)
(* served although one call fails, the goroutine of getPayload finds a bid *)
(* trace unless it expired or the payload came from the database,          *)
(* and StopServer only cuts off calls that came after its wait.            *)
(*                                                                         *)
(* None of these is inductive.  Traced follows the bid trace from the      *)
(* submission to the goroutine, Served counts the failures behind each     *)
(* step of a call whose payload is in Redis, and Stopping says which calls *)
(* can be in flight once the wait is over.  Records, which rests on them,  *)
(* follows an entry of the delivered_payload table to the count of its     *)
(* builder.                                                                *)
(***************************************************************************)
EXTENDS PayloadDelivery, FiniteSetTheorems, TLAPS

\* TypeOK, without known, in two parts: what is stored ...
TypeStore ==
    /\ load \in Loads
    /\ stage \in [Blocks -> {"none", "checked", "traced", "returning", "done"}]
    /\ traces \subseteq Blocks /\ payloads \subseteq Blocks /\ rows \subseteq Blocks
    /\ lastDelivered \in recorded \cup {0} /\ recorded \subseteq {Slot[b] : b \in Blocks}
    /\ delivered \subseteq Blocks \cup {NoBlock} /\ published \subseteq Blocks
    /\ sent \in [Builders -> Nat]
    /\ reopened \subseteq Blocks /\ expired \subseteq Blocks
    /\ faults \in 0..MaxFaults

\* ... and those of the process, its calls and goroutines.
TypeCalls ==
    /\ server \in {"up", "stopping", "waiting", "released", "drained", "down"}
    /\ pc \in [Calls -> {"idle", "started", "redis1", "db1", "redis2", "db2", "found",
                         "answered", "refused", "rejected", "cut"}]
    /\ job \in [Calls -> {"none", "stats", "trace", "saving", "counting", "done"}]
    /\ bidTrace \in [Calls -> Blocks \cup {NoBlock, NoTrace}]
    /\ publisher \in [Calls -> {"none", "publishing", "done"}]
    /\ kept \subseteq Calls /\ fallback \subseteq Calls /\ late \subseteq Calls
    /\ cut \subseteq Calls /\ lost \subseteq Calls
    /\ restarts \in 0..MaxRestarts

LEMMA TypeParts == TypeOK <=> TypeStore /\ TypeCalls /\ known \in BOOLEAN
  BY Zenon DEF TypeOK, TypeStore, TypeCalls

\* A payload is in Redis after its trace, and a call that found it there is
\* going to find the trace, unless it expires.
Traced ==
    /\ \A b \in Blocks : b \in payloads \/ stage[b] = "traced" => b \in traces \cup expired
    /\ \A c \in Calls :
           pc[c] = "found" \/ job[c] \in {"stats", "trace"}
               => blockOf[c] \in traces \cup expired \/ c \in fallback
    /\ NilTraceOnlyAfterExpiry

\* A call whose payload is in Redis only goes on to the database, to the second
\* attempt, and back empty-handed, through failures.
Served ==
    \A c \in kept :
        /\ blockOf[c] \in payloads
        /\ pc[c] \in {"db1", "redis2"} => faults >= 1
        /\ pc[c] \in {"db2", "refused"} => faults >= 2

\* Once the wait of StopServer is over, the calls in flight are later ones.
Stopping ==
    /\ server \in {"released", "drained"} => InFlight \subseteq late
    /\ StopWaitsForCalls

IndInv ==
    /\ TypeStore /\ TypeCalls /\ known \in BOOLEAN
    /\ Traced /\ Served /\ Stopping

-----------------------------------------------------------------------------
(* What is fixed *)

LEMMA LoadOK ==
    ASSUME load \in Loads
    PROVE  /\ blockOf \in [Calls -> Blocks]
           /\ MaxFaults \in Nat /\ MaxRestarts \in Nat
  BY LoadsAssumption DEF blockOf, MaxFaults, MaxRestarts

LEMMA LoadIsFixed ==
    ASSUME UNCHANGED load
    PROVE  UNCHANGED <<blockOf, MaxFaults, MaxRestarts>>
  BY DEF blockOf, MaxFaults, MaxRestarts

LEMMA InitIndInv == Init => IndInv
  <1> SUFFICES ASSUME Init PROVE IndInv
    OBVIOUS
  <1>1. MaxFaults \in Nat /\ MaxRestarts \in Nat
    BY LoadOK DEF Init
  <1>2. TypeStore
    BY <1>1 DEF Init, TypeStore
  <1>5. TypeCalls
    BY <1>1 DEF Init, TypeCalls
  <1>6. known \in BOOLEAN
    BY DEF Init
  <1>3. Traced /\ Served
    BY DEF Init, Traced, NilTraceOnlyAfterExpiry, Served
  <1>4. Stopping
    BY DEF Init, Stopping, StopWaitsForCalls
  <1> QED BY <1>2, <1>3, <1>4, <1>5, <1>6 DEF IndInv

LEMMA StutterKeeps == ASSUME IndInv, UNCHANGED vars PROVE IndInv'
  <1>1. UNCHANGED <<blockOf, MaxFaults, MaxRestarts>>
    BY LoadIsFixed DEF vars
  <1>2. TypeStore' /\ TypeCalls'
    BY <1>1 DEF IndInv, TypeStore, TypeCalls, vars, redis, database, process, handlers, jobs,
        slots
  <1>5. known' \in BOOLEAN
    BY DEF IndInv, vars, process
  <1>3. Traced' /\ Served'
    BY <1>1 DEF IndInv, Traced, NilTraceOnlyAfterExpiry, Served, vars, redis, handlers, jobs
  <1>4. Stopping'
    BY DEF IndInv, Stopping, StopWaitsForCalls, InFlight,
        vars, redis, process, handlers, slots
  <1> QED BY <1>2, <1>3, <1>4, <1>5 DEF IndInv

-----------------------------------------------------------------------------
(* Submissions, and expiry *)

\* The check of delivered slots touches no block in Redis.
LEMMA CheckDeliveredKeeps ==
    ASSUME IndInv, NEW b \in Blocks, CheckDelivered(b)
    PROVE  IndInv'
  <1>1. UNCHANGED <<load, blockOf, MaxFaults, MaxRestarts>>
    BY LoadIsFixed DEF CheckDelivered, PassCheck, RefuseDelivered, Fault, Submitting, process,
        jobs
  <1>2. blockOf \in [Calls -> Blocks] /\ MaxFaults \in Nat /\ MaxRestarts \in Nat
    BY LoadOK DEF IndInv, TypeStore
  <1>3. TypeStore'
    BY <1>1, <1>2 DEF IndInv, TypeStore, CheckDelivered, PassCheck, RefuseDelivered, Fault,
        Submitting, process, jobs
  <1>4. TypeCalls'
    BY <1>1, <1>2 DEF IndInv, TypeCalls, CheckDelivered, PassCheck, RefuseDelivered, Fault,
        Submitting, process, jobs
  <1>5. known' \in BOOLEAN
    BY DEF IndInv, CheckDelivered, PassCheck, RefuseDelivered, Fault, Submitting, process, jobs
  <1>6. Traced'
    BY <1>1, <1>2 DEF IndInv, Traced, NilTraceOnlyAfterExpiry, TypeStore, TypeCalls,
        CheckDelivered, PassCheck, RefuseDelivered, Fault, Submitting, process, jobs
  <1>7. Served'
    BY <1>1, <1>2 DEF IndInv, Served, TypeStore, TypeCalls, CheckDelivered, PassCheck,
        RefuseDelivered, Fault, Submitting, process, jobs
  <1>8. Stopping'
    BY DEF IndInv, Stopping, StopWaitsForCalls, InFlight, TypeCalls, CheckDelivered, PassCheck,
        RefuseDelivered, Fault, Submitting, process, jobs
  <1> QED BY <1>3, <1>4, <1>5, <1>6, <1>7, <1>8 DEF IndInv

\* Nothing is written to Redis.
LEMMA RejectBlockKeeps ==
    ASSUME IndInv, NEW b \in Blocks, RejectBlock(b)
    PROVE  IndInv'
  <1>1. UNCHANGED <<load, blockOf, MaxFaults, MaxRestarts>>
    BY LoadIsFixed DEF RejectBlock, Submitting, process, jobs
  <1>2. blockOf \in [Calls -> Blocks] /\ MaxFaults \in Nat /\ MaxRestarts \in Nat
    BY LoadOK DEF IndInv, TypeStore
  <1>3. TypeStore'
    BY <1>1, <1>2 DEF IndInv, TypeStore, RejectBlock, Submitting, process, jobs
  <1>4. TypeCalls'
    BY <1>1, <1>2 DEF IndInv, TypeCalls, RejectBlock, Submitting, process, jobs
  <1>5. known' \in BOOLEAN
    BY DEF IndInv, RejectBlock, Submitting, process, jobs
  <1>6. Traced'
    BY <1>1, <1>2 DEF IndInv, Traced, NilTraceOnlyAfterExpiry, TypeStore, TypeCalls,
        RejectBlock, Submitting, process, jobs
  <1>7. Served'
    BY <1>1, <1>2 DEF IndInv, Served, TypeStore, TypeCalls, RejectBlock, Submitting, process,
        jobs
  <1>8. Stopping'
    BY DEF IndInv, Stopping, StopWaitsForCalls, InFlight, TypeCalls, RejectBlock, Submitting,
        process, jobs
  <1> QED BY <1>3, <1>4, <1>5, <1>6, <1>7, <1>8 DEF IndInv

\* The submission only goes on with its trace in Redis.
LEMMA SaveBidTraceKeeps ==
    ASSUME IndInv, NEW b \in Blocks, SaveBidTrace(b)
    PROVE  IndInv'
  <1>1. UNCHANGED <<load, blockOf, MaxFaults, MaxRestarts>>
    BY LoadIsFixed DEF SaveBidTrace, Fault, Submitting, process, jobs
  <1>2. blockOf \in [Calls -> Blocks] /\ MaxFaults \in Nat /\ MaxRestarts \in Nat
    BY LoadOK DEF IndInv, TypeStore
  <1>3. TypeStore'
    BY <1>1, <1>2 DEF IndInv, TypeStore, SaveBidTrace, Fault, Submitting, process, jobs
  <1>4. TypeCalls'
    BY <1>1, <1>2 DEF IndInv, TypeCalls, SaveBidTrace, Fault, Submitting, process, jobs
  <1>5. known' \in BOOLEAN
    BY DEF IndInv, SaveBidTrace, Fault, Submitting, process, jobs
  <1>6. Traced'
    BY <1>1, <1>2 DEF IndInv, Traced, NilTraceOnlyAfterExpiry, TypeStore, TypeCalls,
        SaveBidTrace, Fault, Submitting, process, jobs
  <1>7. Served'
    BY <1>1, <1>2 DEF IndInv, Served, TypeStore, TypeCalls, SaveBidTrace, Fault, Submitting,
        process, jobs
  <1>8. Stopping'
    BY DEF IndInv, Stopping, StopWaitsForCalls, InFlight, TypeCalls, SaveBidTrace, Fault,
        Submitting, process, jobs
  <1> QED BY <1>3, <1>4, <1>5, <1>6, <1>7, <1>8 DEF IndInv

\* The payload follows its trace.
LEMMA SaveExecutionPayloadKeeps ==
    ASSUME IndInv, NEW b \in Blocks, SaveExecutionPayload(b)
    PROVE  IndInv'
  <1>1. UNCHANGED <<load, blockOf, MaxFaults, MaxRestarts>>
    BY LoadIsFixed DEF SaveExecutionPayload, Fault, Submitting, process, jobs
  <1>2. blockOf \in [Calls -> Blocks] /\ MaxFaults \in Nat /\ MaxRestarts \in Nat
    BY LoadOK DEF IndInv, TypeStore
  <1>3. TypeStore'
    BY <1>1, <1>2 DEF IndInv, TypeStore, SaveExecutionPayload, Fault, Submitting, process, jobs
  <1>4. TypeCalls'
    BY <1>1, <1>2 DEF IndInv, TypeCalls, SaveExecutionPayload, Fault, Submitting, process, jobs
  <1>5. known' \in BOOLEAN
    BY DEF IndInv, SaveExecutionPayload, Fault, Submitting, process, jobs
  <1>6. Traced'
    BY <1>1, <1>2 DEF IndInv, Traced, NilTraceOnlyAfterExpiry, TypeStore, TypeCalls,
        SaveExecutionPayload, Fault, Submitting, process, jobs
  <1>7. Served'
    BY <1>1, <1>2 DEF IndInv, Served, TypeStore, TypeCalls, SaveExecutionPayload, Fault,
        Submitting, process, jobs
  <1>8. Stopping'
    BY DEF IndInv, Stopping, StopWaitsForCalls, InFlight, TypeCalls, SaveExecutionPayload,
        Fault, Submitting, process, jobs
  <1> QED BY <1>3, <1>4, <1>5, <1>6, <1>7, <1>8 DEF IndInv

\* The row makes no promise of a trace.
LEMMA SaveSubmissionKeeps ==
    ASSUME IndInv, NEW b \in Blocks, SaveSubmission(b)
    PROVE  IndInv'
  <1>1. UNCHANGED <<load, blockOf, MaxFaults, MaxRestarts>>
    BY LoadIsFixed DEF SaveSubmission, Fault, Submitting, process, jobs
  <1>2. blockOf \in [Calls -> Blocks] /\ MaxFaults \in Nat /\ MaxRestarts \in Nat
    BY LoadOK DEF IndInv, TypeStore
  <1>3. TypeStore'
    BY <1>1, <1>2 DEF IndInv, TypeStore, SaveSubmission, Fault, Submitting, process, jobs
  <1>4. TypeCalls'
    BY <1>1, <1>2 DEF IndInv, TypeCalls, SaveSubmission, Fault, Submitting, process, jobs
  <1>5. known' \in BOOLEAN
    BY DEF IndInv, SaveSubmission, Fault, Submitting, process, jobs
  <1>6. Traced'
    BY <1>1, <1>2 DEF IndInv, Traced, NilTraceOnlyAfterExpiry, TypeStore, TypeCalls,
        SaveSubmission, Fault, Submitting, process, jobs
  <1>7. Served'
    BY <1>1, <1>2 DEF IndInv, Served, TypeStore, TypeCalls, SaveSubmission, Fault, Submitting,
        process, jobs
  <1>8. Stopping'
    BY DEF IndInv, Stopping, StopWaitsForCalls, InFlight, TypeCalls, SaveSubmission, Fault,
        Submitting, process, jobs
  <1> QED BY <1>3, <1>4, <1>5, <1>6, <1>7, <1>8 DEF IndInv

\* A trace leaves Redis by expiring.
LEMMA ExpireTraceKeeps ==
    ASSUME IndInv, NEW b \in Blocks, ExpireTrace(b)
    PROVE  IndInv'
  <1>1. UNCHANGED <<load, blockOf, MaxFaults, MaxRestarts>>
    BY LoadIsFixed DEF ExpireTrace, database, process, handlers, jobs, slots
  <1>2. blockOf \in [Calls -> Blocks] /\ MaxFaults \in Nat /\ MaxRestarts \in Nat
    BY LoadOK DEF IndInv, TypeStore
  <1>3. TypeStore'
    BY <1>1, <1>2 DEF IndInv, TypeStore, ExpireTrace, database, process, handlers, jobs, slots
  <1>4. TypeCalls'
    BY <1>1, <1>2 DEF IndInv, TypeCalls, ExpireTrace, database, process, handlers, jobs, slots
  <1>5. known' \in BOOLEAN
    BY DEF IndInv, ExpireTrace, database, process, handlers, jobs, slots
  <1>6. Traced'
    BY <1>1, <1>2 DEF IndInv, Traced, NilTraceOnlyAfterExpiry, TypeStore, TypeCalls,
        ExpireTrace, database, process, handlers, jobs, slots
  <1>7. Served'
    BY <1>1, <1>2 DEF IndInv, Served, TypeStore, TypeCalls, ExpireTrace, database, process,
        handlers, jobs, slots
  <1>8. Stopping'
    BY DEF IndInv, Stopping, StopWaitsForCalls, InFlight, TypeCalls, ExpireTrace, database,
        process, handlers, jobs, slots
  <1> QED BY <1>3, <1>4, <1>5, <1>6, <1>7, <1>8 DEF IndInv

\* A call does not count as served from Redis once its payload has expired.
LEMMA ExpirePayloadKeeps ==
    ASSUME IndInv, NEW b \in Blocks, ExpirePayload(b)
    PROVE  IndInv'
  <1>1. UNCHANGED <<load, blockOf, MaxFaults, MaxRestarts>>
    BY LoadIsFixed DEF ExpirePayload, database, process, jobs, slots
  <1>2. blockOf \in [Calls -> Blocks] /\ MaxFaults \in Nat /\ MaxRestarts \in Nat
    BY LoadOK DEF IndInv, TypeStore
  <1>3. TypeStore'
    BY <1>1, <1>2 DEF IndInv, TypeStore, ExpirePayload, database, process, jobs, slots
  <1>4. TypeCalls'
    BY <1>1, <1>2 DEF IndInv, TypeCalls, ExpirePayload, database, process, jobs, slots
  <1>5. known' \in BOOLEAN
    BY DEF IndInv, ExpirePayload, database, process, jobs, slots
  <1>6. Traced'
    BY <1>1, <1>2 DEF IndInv, Traced, NilTraceOnlyAfterExpiry, TypeStore, TypeCalls,
        ExpirePayload, database, process, jobs, slots
  <1>7. Served'
    BY <1>1, <1>2 DEF IndInv, Served, TypeStore, TypeCalls, ExpirePayload, database, process,
        jobs, slots
  <1>8. Stopping'
    BY DEF IndInv, Stopping, StopWaitsForCalls, InFlight, TypeCalls, ExpirePayload, database,
        process, jobs, slots
  <1> QED BY <1>3, <1>4, <1>5, <1>6, <1>7, <1>8 DEF IndInv

-----------------------------------------------------------------------------
(* Calls *)

\* A call that begins after the wait of StopServer is a late one.
LEMMA BeginCallKeeps ==
    ASSUME IndInv, NEW c \in Calls, BeginCall(c)
    PROVE  IndInv'
  <1>1. UNCHANGED <<load, blockOf, MaxFaults, MaxRestarts>>
    BY LoadIsFixed DEF BeginCall, redis, database, process, jobs, slots
  <1>2. blockOf \in [Calls -> Blocks] /\ MaxFaults \in Nat /\ MaxRestarts \in Nat
    BY LoadOK DEF IndInv, TypeStore
  <1>3. TypeStore'
    BY <1>1, <1>2 DEF IndInv, TypeStore, BeginCall, redis, database, process, jobs, slots
  <1>4. TypeCalls'
    BY <1>1, <1>2 DEF IndInv, TypeCalls, BeginCall, redis, database, process, jobs, slots
  <1>5. known' \in BOOLEAN
    BY DEF IndInv, BeginCall, redis, database, process, jobs, slots
  <1>6. Traced'
    BY <1>1, <1>2 DEF IndInv, Traced, NilTraceOnlyAfterExpiry, TypeStore, TypeCalls, BeginCall,
        redis, database, process, jobs, slots
  <1>7. Served'
    BY <1>1, <1>2 DEF IndInv, Served, TypeStore, TypeCalls, BeginCall, redis, database,
        process, jobs, slots
  <1>8. Stopping'
    BY DEF IndInv, Stopping, StopWaitsForCalls, InFlight, TypeCalls, BeginCall, redis,
        database, process, jobs, slots
  <1> QED BY <1>3, <1>4, <1>5, <1>6, <1>7, <1>8 DEF IndInv

\* A call that leaves the group last releases the wait with no call in flight.
LEMMA CheckProposerKeeps ==
    ASSUME IndInv, NEW c \in Calls, CheckProposer(c)
    PROVE  IndInv'
  <1>1. UNCHANGED <<load, blockOf, MaxFaults, MaxRestarts>>
    BY LoadIsFixed DEF CheckProposer, Step, LeaveGroup, InFlight, redis, database, jobs, slots
  <1>2. blockOf \in [Calls -> Blocks] /\ MaxFaults \in Nat /\ MaxRestarts \in Nat
    BY LoadOK DEF IndInv, TypeStore
  <1>3. TypeStore'
    BY <1>1, <1>2 DEF IndInv, TypeStore, CheckProposer, Step, LeaveGroup, InFlight, redis,
        database, jobs, slots
  <1>4. TypeCalls'
    BY <1>1, <1>2 DEF IndInv, TypeCalls, CheckProposer, Step, LeaveGroup, InFlight, redis,
        database, jobs, slots
  <1>5. known' \in BOOLEAN
    BY DEF IndInv, CheckProposer, Step, LeaveGroup, InFlight, redis, database, jobs, slots
  <1>6. Traced'
    BY <1>1, <1>2 DEF IndInv, Traced, NilTraceOnlyAfterExpiry, TypeStore, TypeCalls,
        CheckProposer, Step, LeaveGroup, InFlight, redis, database, jobs, slots
  <1>7. Served'
    BY <1>1, <1>2 DEF IndInv, Served, TypeStore, TypeCalls, CheckProposer, Step, LeaveGroup,
        InFlight, redis, database, jobs, slots
  <1>8. Stopping'
    BY DEF IndInv, Stopping, StopWaitsForCalls, InFlight, TypeCalls, CheckProposer, Step,
        LeaveGroup, redis, database, jobs, slots
  <1> QED BY <1>3, <1>4, <1>5, <1>6, <1>7, <1>8 DEF IndInv

\* A payload that is in Redis is missed only by a failure.
LEMMA GetFromRedisKeeps ==
    ASSUME IndInv, NEW c \in Calls, GetFromRedis(c)
    PROVE  IndInv'
  <1>1. UNCHANGED <<load, blockOf, MaxFaults, MaxRestarts>>
    BY LoadIsFixed DEF GetFromRedis, Attempts, Missed, Fault, Step, LeaveGroup, InFlight,
        redis, database, jobs, slots
  <1>2. blockOf \in [Calls -> Blocks] /\ MaxFaults \in Nat /\ MaxRestarts \in Nat
    BY LoadOK DEF IndInv, TypeStore
  <1>3. TypeStore'
    BY <1>1, <1>2 DEF IndInv, TypeStore, GetFromRedis, Attempts, Missed, Fault, Step,
        LeaveGroup, InFlight, redis, database, jobs, slots
  <1>4. TypeCalls'
    BY <1>1, <1>2 DEF IndInv, TypeCalls, GetFromRedis, Attempts, Missed, Fault, Step,
        LeaveGroup, InFlight, redis, database, jobs, slots
  <1>5. known' \in BOOLEAN
    BY DEF IndInv, GetFromRedis, Attempts, Missed, Fault, Step, LeaveGroup, InFlight, redis,
        database, jobs, slots
  <1>6. Traced'
    BY <1>1, <1>2 DEF IndInv, Traced, NilTraceOnlyAfterExpiry, TypeStore, TypeCalls,
        GetFromRedis, Attempts, Missed, Fault, Step, LeaveGroup, InFlight, redis, database,
        jobs, slots
  <1>7. Served'
    BY <1>1, <1>2 DEF IndInv, Served, TypeStore, TypeCalls, GetFromRedis, Attempts, Missed,
        Fault, Step, LeaveGroup, InFlight, redis, database, jobs, slots
  <1>8. Stopping'
    BY DEF IndInv, Stopping, StopWaitsForCalls, InFlight, TypeCalls, GetFromRedis, Attempts,
        Missed, Fault, Step, LeaveGroup, redis, database, jobs, slots
  <1> QED BY <1>3, <1>4, <1>5, <1>6, <1>7, <1>8 DEF IndInv

\* The second attempt is reached through one failure, its end through two.
LEMMA GetFromDatabaseKeeps ==
    ASSUME IndInv, NEW c \in Calls, GetFromDatabase(c)
    PROVE  IndInv'
  <1>1. UNCHANGED <<load, blockOf, MaxFaults, MaxRestarts>>
    BY LoadIsFixed DEF GetFromDatabase, Attempts, Missed, Fault, Step, LeaveGroup, InFlight,
        redis, database, jobs, slots
  <1>2. blockOf \in [Calls -> Blocks] /\ MaxFaults \in Nat /\ MaxRestarts \in Nat
    BY LoadOK DEF IndInv, TypeStore
  <1>3. TypeStore'
    BY <1>1, <1>2 DEF IndInv, TypeStore, GetFromDatabase, Attempts, Missed, Fault, Step,
        LeaveGroup, InFlight, redis, database, jobs, slots
  <1>4. TypeCalls'
    BY <1>1, <1>2 DEF IndInv, TypeCalls, GetFromDatabase, Attempts, Missed, Fault, Step,
        LeaveGroup, InFlight, redis, database, jobs, slots
  <1>5. known' \in BOOLEAN
    BY DEF IndInv, GetFromDatabase, Attempts, Missed, Fault, Step, LeaveGroup, InFlight, redis,
        database, jobs, slots
  <1>6. Traced'
    BY <1>1, <1>2 DEF IndInv, Traced, NilTraceOnlyAfterExpiry, TypeStore, TypeCalls,
        GetFromDatabase, Attempts, Missed, Fault, Step, LeaveGroup, InFlight, redis, database,
        jobs, slots
  <1>7. Served'
    BY <1>1, <1>2 DEF IndInv, Served, TypeStore, TypeCalls, GetFromDatabase, Attempts, Missed,
        Fault, Step, LeaveGroup, InFlight, redis, database, jobs, slots
  <1>8. Stopping'
    BY DEF IndInv, Stopping, StopWaitsForCalls, InFlight, TypeCalls, GetFromDatabase, Attempts,
        Missed, Fault, Step, LeaveGroup, redis, database, jobs, slots
  <1> QED BY <1>3, <1>4, <1>5, <1>6, <1>7, <1>8 DEF IndInv

\* The goroutines start.
LEMMA RespondKeeps ==
    ASSUME IndInv, NEW c \in Calls, Respond(c)
    PROVE  IndInv'
  <1>1. UNCHANGED <<load, blockOf, MaxFaults, MaxRestarts>>
    BY LoadIsFixed DEF Respond, Step, LeaveGroup, InFlight, redis, database, jobs, slots
  <1>2. blockOf \in [Calls -> Blocks] /\ MaxFaults \in Nat /\ MaxRestarts \in Nat
    BY LoadOK DEF IndInv, TypeStore
  <1>3. TypeStore'
    BY <1>1, <1>2 DEF IndInv, TypeStore, Respond, Step, LeaveGroup, InFlight, redis, database,
        jobs, slots
  <1>4. TypeCalls'
    BY <1>1, <1>2 DEF IndInv, TypeCalls, Respond, Step, LeaveGroup, InFlight, redis, database,
        jobs, slots
  <1>5. known' \in BOOLEAN
    BY DEF IndInv, Respond, Step, LeaveGroup, InFlight, redis, database, jobs, slots
  <1>6. Traced'
    BY <1>1, <1>2 DEF IndInv, Traced, NilTraceOnlyAfterExpiry, TypeStore, TypeCalls, Respond,
        Step, LeaveGroup, InFlight, redis, database, jobs, slots
  <1>7. Served'
    BY <1>1, <1>2 DEF IndInv, Served, TypeStore, TypeCalls, Respond, Step, LeaveGroup,
        InFlight, redis, database, jobs, slots
  <1>8. Stopping'
    BY DEF IndInv, Stopping, StopWaitsForCalls, InFlight, TypeCalls, Respond, Step, LeaveGroup,
        redis, database, jobs, slots
  <1> QED BY <1>3, <1>4, <1>5, <1>6, <1>7, <1>8 DEF IndInv

-----------------------------------------------------------------------------
(* The goroutines of a call *)

\* The slot that is written is recorded.
LEMMA SetStatsKeeps ==
    ASSUME IndInv, NEW c \in Calls, SetStats(c)
    PROVE  IndInv'
  <1>1. UNCHANGED <<load, blockOf, MaxFaults, MaxRestarts>>
    BY LoadIsFixed DEF SetStats, Fault, Working, process, handlers, jobs
  <1>2. blockOf \in [Calls -> Blocks] /\ MaxFaults \in Nat /\ MaxRestarts \in Nat
    BY LoadOK DEF IndInv, TypeStore
  <1>3. TypeStore'
    BY <1>1, <1>2 DEF IndInv, TypeStore, SetStats, Fault, Working, process, handlers, jobs
  <1>4. TypeCalls'
    BY <1>1, <1>2 DEF IndInv, TypeCalls, SetStats, Fault, Working, process, handlers, jobs
  <1>5. known' \in BOOLEAN
    BY DEF IndInv, SetStats, Fault, Working, process, handlers, jobs
  <1>6. Traced'
    BY <1>1, <1>2 DEF IndInv, Traced, NilTraceOnlyAfterExpiry, TypeStore, TypeCalls, SetStats,
        Fault, Working, process, handlers, jobs
  <1>7. Served'
    BY <1>1, <1>2 DEF IndInv, Served, TypeStore, TypeCalls, SetStats, Fault, Working, process,
        handlers, jobs
  <1>8. Stopping'
    BY DEF IndInv, Stopping, StopWaitsForCalls, InFlight, TypeCalls, SetStats, Fault, Working,
        process, handlers, jobs
  <1> QED BY <1>3, <1>4, <1>5, <1>6, <1>7, <1>8 DEF IndInv

\* The trace is still there, has expired, or was never needed.
LEMMA GetBidTraceKeeps ==
    ASSUME IndInv, NEW c \in Calls, GetBidTrace(c)
    PROVE  IndInv'
  <1>1. UNCHANGED <<load, blockOf, MaxFaults, MaxRestarts>>
    BY LoadIsFixed DEF GetBidTrace, Fault, Working, process, handlers, jobs
  <1>2. blockOf \in [Calls -> Blocks] /\ MaxFaults \in Nat /\ MaxRestarts \in Nat
    BY LoadOK DEF IndInv, TypeStore
  <1>3. TypeStore'
    BY <1>1, <1>2 DEF IndInv, TypeStore, GetBidTrace, Fault, Working, process, handlers, jobs
  <1>4. TypeCalls'
    BY <1>1, <1>2 DEF IndInv, TypeCalls, GetBidTrace, Fault, Working, process, handlers, jobs
  <1>5. known' \in BOOLEAN
    BY DEF IndInv, GetBidTrace, Fault, Working, process, handlers, jobs
  <1>6. Traced'
    BY <1>1, <1>2, BlocksAssumption DEF IndInv, Traced, NilTraceOnlyAfterExpiry, TypeStore,
        TypeCalls, GetBidTrace, Fault, Working, process, handlers, jobs
  <1>7. Served'
    BY <1>1, <1>2 DEF IndInv, Served, TypeStore, TypeCalls, GetBidTrace, Fault, Working,
        process, handlers, jobs
  <1>8. Stopping'
    BY DEF IndInv, Stopping, StopWaitsForCalls, InFlight, TypeCalls, GetBidTrace, Fault,
        Working, process, handlers, jobs
  <1> QED BY <1>3, <1>4, <1>5, <1>6, <1>7, <1>8 DEF IndInv

\* A row for the trace.
LEMMA SaveDeliveredPayloadKeeps ==
    ASSUME IndInv, NEW c \in Calls, SaveDeliveredPayload(c)
    PROVE  IndInv'
  <1>1. UNCHANGED <<load, blockOf, MaxFaults, MaxRestarts>>
    BY LoadIsFixed DEF SaveDeliveredPayload, Fault, Working, process, handlers, jobs
  <1>2. blockOf \in [Calls -> Blocks] /\ MaxFaults \in Nat /\ MaxRestarts \in Nat
    BY LoadOK DEF IndInv, TypeStore
  <1>3. TypeStore'
    BY <1>1, <1>2 DEF IndInv, TypeStore, TypeCalls, SaveDeliveredPayload, Fault, Working,
        process, handlers, jobs
  <1>4. TypeCalls'
    BY <1>1, <1>2 DEF IndInv, TypeCalls, SaveDeliveredPayload, Fault, Working, process,
        handlers, jobs
  <1>5. known' \in BOOLEAN
    BY DEF IndInv, SaveDeliveredPayload, Fault, Working, process, handlers, jobs
  <1>6. Traced'
    BY <1>1, <1>2 DEF IndInv, Traced, NilTraceOnlyAfterExpiry, TypeStore, TypeCalls,
        SaveDeliveredPayload, Fault, Working, process, handlers, jobs
  <1>7. Served'
    BY <1>1, <1>2 DEF IndInv, Served, TypeStore, TypeCalls, SaveDeliveredPayload, Fault,
        Working, process, handlers, jobs
  <1>8. Stopping'
    BY DEF IndInv, Stopping, StopWaitsForCalls, InFlight, TypeCalls, SaveDeliveredPayload,
        Fault, Working, process, handlers, jobs
  <1> QED BY <1>3, <1>4, <1>5, <1>6, <1>7, <1>8 DEF IndInv

\* The count of the builder.
LEMMA IncBlockBuilderStatsKeeps ==
    ASSUME IndInv, NEW c \in Calls, IncBlockBuilderStats(c)
    PROVE  IndInv'
  <1>1. UNCHANGED <<load, blockOf, MaxFaults, MaxRestarts>>
    BY LoadIsFixed DEF IncBlockBuilderStats, Fault, Working, process, handlers, jobs
  <1>2. blockOf \in [Calls -> Blocks] /\ MaxFaults \in Nat /\ MaxRestarts \in Nat
    BY LoadOK DEF IndInv, TypeStore
  <1>3. TypeStore'
    BY <1>1, <1>2 DEF IndInv, TypeStore, Builders, IncBlockBuilderStats, Fault, Working,
        process, handlers, jobs
  <1>4. TypeCalls'
    BY <1>1, <1>2 DEF IndInv, TypeCalls, IncBlockBuilderStats, Fault, Working, process,
        handlers, jobs
  <1>5. known' \in BOOLEAN
    BY DEF IndInv, IncBlockBuilderStats, Fault, Working, process, handlers, jobs
  <1>6. Traced'
    BY <1>1, <1>2 DEF IndInv, Traced, NilTraceOnlyAfterExpiry, TypeStore, TypeCalls,
        IncBlockBuilderStats, Fault, Working, process, handlers, jobs
  <1>7. Served'
    BY <1>1, <1>2 DEF IndInv, Served, TypeStore, TypeCalls, IncBlockBuilderStats, Fault,
        Working, process, handlers, jobs
  <1>8. Stopping'
    BY DEF IndInv, Stopping, StopWaitsForCalls, InFlight, TypeCalls, IncBlockBuilderStats,
        Fault, Working, process, handlers, jobs
  <1> QED BY <1>3, <1>4, <1>5, <1>6, <1>7, <1>8 DEF IndInv

\* The block is published, or not.
LEMMA PublishKeeps ==
    ASSUME IndInv, NEW c \in Calls, Publish(c)
    PROVE  IndInv'
  <1>1. UNCHANGED <<load, blockOf, MaxFaults, MaxRestarts>>
    BY LoadIsFixed DEF Publish, Fault, redis, database, process, handlers, slots
  <1>2. blockOf \in [Calls -> Blocks] /\ MaxFaults \in Nat /\ MaxRestarts \in Nat
    BY LoadOK DEF IndInv, TypeStore
  <1>3. TypeStore'
    BY <1>1, <1>2 DEF IndInv, TypeStore, Publish, Fault, redis, database, process, handlers,
        slots
  <1>4. TypeCalls'
    BY <1>1, <1>2 DEF IndInv, TypeCalls, Publish, Fault, redis, database, process, handlers,
        slots
  <1>5. known' \in BOOLEAN
    BY DEF IndInv, Publish, Fault, redis, database, process, handlers, slots
  <1>6. Traced'
    BY <1>1, <1>2 DEF IndInv, Traced, NilTraceOnlyAfterExpiry, TypeStore, TypeCalls, Publish,
        Fault, redis, database, process, handlers, slots
  <1>7. Served'
    BY <1>1, <1>2 DEF IndInv, Served, TypeStore, TypeCalls, Publish, Fault, redis, database,
        process, handlers, slots
  <1>8. Stopping'
    BY DEF IndInv, Stopping, StopWaitsForCalls, InFlight, TypeCalls, Publish, Fault, redis,
        database, process, handlers, slots
  <1> QED BY <1>3, <1>4, <1>5, <1>6, <1>7, <1>8 DEF IndInv

-----------------------------------------------------------------------------
(* The process *)

\* A nil trace ends the process, its calls and its goroutines.
LEMMA PanicKeeps ==
    ASSUME IndInv, NEW c \in Calls, PanicOnNilTrace(c)
    PROVE  IndInv'
  <1>1. UNCHANGED <<load, blockOf, MaxFaults, MaxRestarts>>
    BY LoadIsFixed DEF PanicOnNilTrace, Exit, InFlight, Running, redis, database, slots
  <1>2. blockOf \in [Calls -> Blocks] /\ MaxFaults \in Nat /\ MaxRestarts \in Nat
    BY LoadOK DEF IndInv, TypeStore
  <1>3. TypeStore'
    BY <1>1, <1>2 DEF IndInv, TypeStore, PanicOnNilTrace, Exit, InFlight, Running, redis,
        database, slots
  <1>4. TypeCalls'
    BY <1>1, <1>2 DEF IndInv, TypeCalls, PanicOnNilTrace, Exit, InFlight, Running, redis,
        database, slots
  <1>5. known' \in BOOLEAN
    BY DEF IndInv, PanicOnNilTrace, Exit, InFlight, Running, redis, database, slots
  <1>6. Traced'
    BY <1>1, <1>2 DEF IndInv, Traced, NilTraceOnlyAfterExpiry, TypeStore, TypeCalls,
        PanicOnNilTrace, Exit, InFlight, Running, redis, database, slots
  <1>7. Served'
    BY <1>1, <1>2 DEF IndInv, Served, TypeStore, TypeCalls, PanicOnNilTrace, Exit, InFlight,
        Running, redis, database, slots
  <1>8. Stopping'
    BY DEF IndInv, Stopping, StopWaitsForCalls, InFlight, TypeCalls, PanicOnNilTrace, Exit,
        Running, redis, database, slots
  <1> QED BY <1>3, <1>4, <1>5, <1>6, <1>7, <1>8 DEF IndInv

\* StopServer ends the process: the calls it cuts off are late ones.
LEMMA EndByStopKeeps ==
    ASSUME IndInv, server \in {"released", "drained"}, EndByStop
    PROVE  IndInv'
  <1>1. UNCHANGED <<load, blockOf, MaxFaults, MaxRestarts>>
    BY LoadIsFixed DEF EndByStop, Exit, InFlight, Running, redis, database, slots
  <1>2. blockOf \in [Calls -> Blocks] /\ MaxFaults \in Nat /\ MaxRestarts \in Nat
    BY LoadOK DEF IndInv, TypeStore
  <1>3. TypeStore'
    BY <1>1, <1>2 DEF IndInv, TypeStore, EndByStop, Exit, InFlight, Running, redis, database,
        slots
  <1>4. TypeCalls'
    BY <1>1, <1>2 DEF IndInv, TypeCalls, EndByStop, Exit, InFlight, Running, redis, database,
        slots
  <1>5. known' \in BOOLEAN
    BY DEF IndInv, EndByStop, Exit, InFlight, Running, redis, database, slots
  <1>6. Traced'
    BY <1>1, <1>2 DEF IndInv, Traced, NilTraceOnlyAfterExpiry, TypeStore, TypeCalls, EndByStop,
        Exit, InFlight, Running, redis, database, slots
  <1>7. Served'
    BY <1>1, <1>2 DEF IndInv, Served, TypeStore, TypeCalls, EndByStop, Exit, InFlight, Running,
        redis, database, slots
  <1>8. Stopping'
    BY DEF IndInv, Stopping, StopWaitsForCalls, InFlight, TypeCalls, EndByStop, Exit, Running,
        redis, database, slots
  <1> QED BY <1>3, <1>4, <1>5, <1>6, <1>7, <1>8 DEF IndInv

\* The steps of StopServer up to the end of its wait, and a start.
LEMMA LifecycleKeeps ==
    ASSUME IndInv, StopServer \/ WaitForCalls \/ WaitReturns \/ StartServer
    PROVE  IndInv'
  <1>1. UNCHANGED <<load, blockOf, MaxFaults, MaxRestarts>>
    BY LoadIsFixed DEF StopServer, WaitForCalls, WaitReturns, StartServer, Lifecycle, redis,
        database, handlers, jobs, slots, process
  <1>2. blockOf \in [Calls -> Blocks] /\ MaxFaults \in Nat /\ MaxRestarts \in Nat
    BY LoadOK DEF IndInv, TypeStore
  <1>3. TypeStore'
    BY <1>1, <1>2 DEF IndInv, TypeStore, StopServer, WaitForCalls, WaitReturns, StartServer,
        Lifecycle, redis, database, handlers, jobs, slots, process
  <1>4. TypeCalls'
    BY <1>1, <1>2 DEF IndInv, TypeCalls, StopServer, WaitForCalls, WaitReturns, StartServer,
        Lifecycle, redis, database, handlers, jobs, slots, process
  <1>5. known' \in BOOLEAN
    BY DEF IndInv, StopServer, WaitForCalls, WaitReturns, StartServer, Lifecycle, redis,
        database, handlers, jobs, slots, process
  <1>6. Traced'
    BY <1>1, <1>2 DEF IndInv, Traced, NilTraceOnlyAfterExpiry, TypeStore, TypeCalls,
        StopServer, WaitForCalls, WaitReturns, StartServer, Lifecycle, redis, database,
        handlers, jobs, slots, process
  <1>7. Served'
    BY <1>1, <1>2 DEF IndInv, Served, TypeStore, TypeCalls, StopServer, WaitForCalls,
        WaitReturns, StartServer, Lifecycle, redis, database, handlers, jobs, slots, process
  <1>8. Stopping'
    BY DEF IndInv, Stopping, StopWaitsForCalls, InFlight, TypeCalls, StopServer, WaitForCalls,
        WaitReturns, StartServer, Lifecycle, redis, database, handlers, jobs, slots, process
  <1> QED BY <1>3, <1>4, <1>5, <1>6, <1>7, <1>8 DEF IndInv

\* The known validators arrive.
LEMMA RefreshKeeps ==
    ASSUME IndInv, RefreshKnownValidators
    PROVE  IndInv'
  <1>1. UNCHANGED <<load, blockOf, MaxFaults, MaxRestarts>>
    BY LoadIsFixed DEF RefreshKnownValidators, redis, database, handlers, jobs, slots
  <1>2. blockOf \in [Calls -> Blocks] /\ MaxFaults \in Nat /\ MaxRestarts \in Nat
    BY LoadOK DEF IndInv, TypeStore
  <1>3. TypeStore'
    BY <1>1, <1>2 DEF IndInv, TypeStore, RefreshKnownValidators, redis, database, handlers,
        jobs, slots
  <1>4. TypeCalls'
    BY <1>1, <1>2 DEF IndInv, TypeCalls, RefreshKnownValidators, redis, database, handlers,
        jobs, slots
  <1>5. known' \in BOOLEAN
    BY DEF IndInv, RefreshKnownValidators, redis, database, handlers, jobs, slots
  <1>6. Traced'
    BY <1>1, <1>2 DEF IndInv, Traced, NilTraceOnlyAfterExpiry, TypeStore, TypeCalls,
        RefreshKnownValidators, redis, database, handlers, jobs, slots
  <1>7. Served'
    BY <1>1, <1>2 DEF IndInv, Served, TypeStore, TypeCalls, RefreshKnownValidators, redis,
        database, handlers, jobs, slots
  <1>8. Stopping'
    BY DEF IndInv, Stopping, StopWaitsForCalls, InFlight, TypeCalls, RefreshKnownValidators,
        redis, database, handlers, jobs, slots
  <1> QED BY <1>3, <1>4, <1>5, <1>6, <1>7, <1>8 DEF IndInv

LEMMA NextKeeps == IndInv /\ [Next]_vars => IndInv'
  <1> SUFFICES ASSUME IndInv, [Next]_vars PROVE IndInv'
    OBVIOUS
  <1>1. ASSUME NEW b \in Blocks, SubmitNewBlock(b) \/ ExpireTrace(b) \/ ExpirePayload(b)
        PROVE  IndInv'
    BY <1>1, CheckDeliveredKeeps, RejectBlockKeeps, SaveBidTraceKeeps, SaveExecutionPayloadKeeps,
       SaveSubmissionKeeps, ExpireTraceKeeps, ExpirePayloadKeeps DEF SubmitNewBlock
  <1>2. ASSUME NEW c \in Calls, BeginCall(c) \/ HandleGetPayload(c) PROVE IndInv'
    BY <1>2, BeginCallKeeps, CheckProposerKeeps, GetFromRedisKeeps, GetFromDatabaseKeeps,
       RespondKeeps DEF HandleGetPayload
  <1>3. ASSUME NEW c \in Calls, SaveDelivery(c) \/ Publish(c) PROVE IndInv'
    BY <1>3, SetStatsKeeps, GetBidTraceKeeps, SaveDeliveredPayloadKeeps, PanicKeeps,
       IncBlockBuilderStatsKeeps, PublishKeeps DEF SaveDelivery
  <1>4. CASE WaitPanics \/ Shutdown
    BY <1>4, EndByStopKeeps DEF WaitPanics, Shutdown
  <1>5. CASE StopServer \/ WaitForCalls \/ WaitReturns \/ StartServer
    BY <1>5, LifecycleKeeps
  <1>6. CASE RefreshKnownValidators
    BY <1>6, RefreshKeeps
  <1>7. CASE UNCHANGED vars
    BY <1>7, StutterKeeps
  <1> QED
    BY <1>1, <1>2, <1>3, <1>4, <1>5, <1>6, <1>7 DEF Next

\* The inductive invariant holds throughout.
THEOREM Invariance == Spec => []IndInv
  BY InitIndInv, NextKeeps, PTL DEF Spec

\* The state of getPayload, its goroutines and the process is type correct; the
\* last delivered slot is zero or one that was recorded.
THEOREM TypeCorrect == Spec => []TypeOK
  <1>1. IndInv => TypeOK
    BY TypeParts DEF IndInv
  <1> QED BY <1>1, Invariance, PTL

\* For any number of calls, blocks and restarts, a proposer is only refused a
\* payload that is in Redis while it asks after two failing calls.
THEOREM StoredAreServed == Spec => []StoredPayloadsAreServed
  <1>1. IndInv => StoredPayloadsAreServed
    BY LoadOK DEF IndInv, Served, StoredPayloadsAreServed, TypeStore
  <1> QED BY <1>1, Invariance, PTL

\* The goroutine of getPayload finds the bid trace of a payload from Redis,
\* unless the trace has expired.
THEOREM TraceIsFound == Spec => []NilTraceOnlyAfterExpiry
  <1>1. IndInv => NilTraceOnlyAfterExpiry
    BY DEF IndInv, Traced
  <1> QED BY <1>1, Invariance, PTL

\* StopServer cuts off no call that it could have waited for.
THEOREM StopWaits == Spec => []StopWaitsForCalls
  <1>1. IndInv => StopWaitsForCalls
    BY DEF IndInv, Stopping
  <1> QED BY <1>1, Invariance, PTL

-----------------------------------------------------------------------------
(* The records of deliveries *)

Entries(i) == {b \in delivered : Builder[b] = i}

\* the goroutines between the entry and the count of builder i
Counting(i) ==
    {c \in Calls : job[c] = "counting" /\ bidTrace[c] \in Blocks /\ Builder[bidTrace[c]] = i}

\* A goroutine runs for an answered call, with the trace of the call's block.
Goroutines ==
    \A c \in Calls :
        /\ job[c] # "none" => pc[c] = "answered"
        /\ bidTrace[c] \in {NoTrace, NoBlock, blockOf[c]}
        /\ faults = 0 => bidTrace[c] # NoBlock

Listed ==
    /\ IsFiniteSet(delivered)
    /\ delivered \ {NoBlock} \subseteq {blockOf[c] : c \in {d \in Calls : pc[d] = "answered"}}
    /\ faults = 0 => NoBlock \notin delivered

Counted ==
    faults = 0 /\ lost = {} =>
        \A i \in Builders : Cardinality(Entries(i)) <= sent[i] + Cardinality(Counting(i))

Records == Goroutines /\ Listed /\ Counted

LEMMA InitRecords == Init => Records
  <1> SUFFICES ASSUME Init PROVE Records
    OBVIOUS
  <1>1. Goroutines
    BY BlocksAssumption DEF Init, Goroutines
  <1>2. Listed
    BY FS_EmptySet DEF Init, Listed
  <1>3. ASSUME NEW i \in Builders
        PROVE  Cardinality(Entries(i)) <= sent[i] + Cardinality(Counting(i))
    <2>1. Entries(i) = {} /\ Counting(i) = {} /\ sent[i] = 0
      BY DEF Init, Entries, Counting
    <2> QED BY <2>1, FS_EmptySet
  <1> QED BY <1>1, <1>2, <1>3 DEF Records, Counted

\* Most steps leave the goroutines that record a delivery alone.
LEMMA FrameKeepsRecords ==
    ASSUME Records,
           UNCHANGED <<load, delivered, sent, job, bidTrace, lost>>,
           \A c \in Calls : pc[c] = "answered" => pc'[c] = "answered",
           faults' = 0 => faults = 0
    PROVE  Records'
  <1>1. UNCHANGED blockOf
    BY LoadIsFixed
  <1>2. Goroutines' /\ Listed'
    BY <1>1 DEF Records, Goroutines, Listed
  <1>3. \A i \in Builders : Entries(i)' = Entries(i) /\ Counting(i)' = Counting(i)
    BY DEF Entries, Counting
  <1> QED BY <1>2, <1>3 DEF Records, Counted

LEMMA RespondKeepsRecords ==
    ASSUME IndInv, Records, NEW c \in Calls, Respond(c)
    PROVE  Records'
  <1>1. UNCHANGED <<load, blockOf, delivered, sent, lost, bidTrace, faults>>
    BY LoadIsFixed DEF Respond, Step, database
  <1>2. job[c] = "none"
    BY DEF Records, Goroutines, Respond, Step
  <1>3. job' = [job EXCEPT ![c] = "stats"] /\ pc' = [pc EXCEPT ![c] = "answered"]
    BY DEF Respond, Step
  <1>4. Goroutines' /\ Listed'
    BY <1>1, <1>3 DEF Records, Goroutines, Listed, IndInv, TypeCalls
  <1>5. \A i \in Builders : Entries(i)' = Entries(i) /\ Counting(i)' = Counting(i)
    BY <1>1, <1>2, <1>3 DEF Entries, Counting, IndInv, TypeCalls
  <1> QED BY <1>1, <1>4, <1>5 DEF Records, Counted

LEMMA LookupKeepsRecords ==
    ASSUME IndInv, Records, NEW c \in Calls, SetStats(c) \/ GetBidTrace(c)
    PROVE  Records'
  <1>1. UNCHANGED <<load, blockOf, delivered, sent, lost, pc>> /\ (faults' = 0 => faults = 0)
    BY LoadIsFixed DEF SetStats, GetBidTrace, Working, Fault, process, handlers, IndInv,
        TypeStore
  <1>2. \E to \in {"trace", "saving"} : job' = [job EXCEPT ![c] = to]
    BY DEF SetStats, GetBidTrace, Working
  <1>3. job[c] \in {"stats", "trace"}
    BY DEF SetStats, GetBidTrace, Working
  <1>4. /\ bidTrace' \in [Calls -> Blocks \cup {NoBlock, NoTrace}]
        /\ \A d \in Calls : d # c => bidTrace'[d] = bidTrace[d]
        /\ bidTrace'[c] \in {bidTrace[c], NoTrace, NoBlock, blockOf[c]}
        /\ faults' = 0 => bidTrace'[c] \in {bidTrace[c], NoTrace, blockOf[c]}
    BY LoadOK DEF SetStats, GetBidTrace, Fault, IndInv, TypeCalls, TypeStore
  <1>5. Goroutines'
    <2>1. blockOf \in [Calls -> Blocks]
      BY LoadOK DEF IndInv, TypeStore
    <2> SUFFICES ASSUME NEW d \in Calls
                 PROVE  /\ job'[d] # "none" => pc'[d] = "answered"
                        /\ bidTrace'[d] \in {NoTrace, NoBlock, blockOf'[d]}
                        /\ faults' = 0 => bidTrace'[d] # NoBlock
      BY DEF Goroutines
    <2>2. job'[d] # "none" => pc'[d] = "answered"
      BY <1>1, <1>2, <1>3 DEF Records, Goroutines, IndInv, TypeCalls
    <2>3. bidTrace'[d] \in {NoTrace, NoBlock, blockOf'[d]}
      BY <1>1, <1>4 DEF Records, Goroutines
    <2>4. faults' = 0 => bidTrace'[d] # NoBlock
      BY <1>1, <1>4, <2>1, BlocksAssumption DEF Records, Goroutines
    <2> QED BY <2>2, <2>3, <2>4
  <1>6. Listed'
    BY <1>1 DEF Records, Listed
  <1>7. \A i \in Builders : Entries(i)' = Entries(i) /\ Counting(i)' = Counting(i)
    BY <1>1, <1>2, <1>3, <1>4 DEF Entries, Counting, IndInv, TypeCalls
  <1> QED BY <1>1, <1>5, <1>6, <1>7 DEF Records, Counted

\* One entry more, and one goroutine more that is going to count it.
LEMMA SaveKeepsRecords ==
    ASSUME IndInv, Records, NEW c \in Calls, SaveDeliveredPayload(c)
    PROVE  Records'
  <1>1. UNCHANGED <<load, blockOf, sent, lost, pc, bidTrace>> /\ (faults' = 0 => faults = 0)
    BY LoadIsFixed DEF SaveDeliveredPayload, Working, Fault, process, handlers, IndInv,
        TypeStore
  <1>2. job[c] = "saving" /\ job' = [job EXCEPT ![c] = "counting"] /\ bidTrace[c] # NoTrace
    BY DEF SaveDeliveredPayload, Working
  <1>3. delivered' \in {delivered, delivered \cup {bidTrace[c]}}
    BY DEF SaveDeliveredPayload
  <1>4. Goroutines'
    BY <1>1, <1>2 DEF Records, Goroutines, IndInv, TypeCalls
  <1>5. Listed'
    <2>1. IsFiniteSet(delivered')
      BY <1>3, FS_AddElement DEF Records, Listed
    <2> QED BY <2>1, <1>1, <1>2, <1>3 DEF Records, Listed, Goroutines
  <1>6. ASSUME faults' = 0, lost' = {}, NEW i \in Builders
        PROVE  Cardinality(Entries(i)') <= sent'[i] + Cardinality(Counting(i)')
    <2>1. bidTrace[c] \in Blocks /\ faults = 0
      BY <1>1, <1>2, <1>6 DEF Records, Goroutines, IndInv, TypeCalls
    <2>2. IsFiniteSet(Entries(i)) /\ IsFiniteSet(Counting(i))
      BY FS_Subset, BlocksAssumption DEF Records, Listed, Entries, Counting
    <2>3. Cardinality(Entries(i)) <= sent[i] + Cardinality(Counting(i)) /\ sent[i] \in Nat
      BY <1>1, <1>6, <2>1 DEF Records, Counted, IndInv, TypeStore
    <2>4. CASE Builder[bidTrace[c]] # i
      <3>1. Entries(i)' = Entries(i)
        BY <1>3, <2>4 DEF Entries
      <3>2. Counting(i)' = Counting(i)
        BY <1>1, <1>2, <2>4 DEF Counting, IndInv, TypeCalls
      <3> QED BY <1>1, <2>3, <3>1, <3>2
    <2>5. CASE Builder[bidTrace[c]] = i
      <3>1. Entries(i)' \in {Entries(i), Entries(i) \cup {bidTrace[c]}}
        BY <1>3, <2>5 DEF Entries
      <3>2. Counting(i)' = Counting(i) \cup {c} /\ c \notin Counting(i)
        BY <1>1, <1>2, <2>1, <2>5 DEF Counting, IndInv, TypeCalls
      <3>3. Cardinality(Counting(i)') = Cardinality(Counting(i)) + 1
        BY <2>2, <3>2, FS_AddElement
      <3>4. Cardinality(Entries(i)') <= Cardinality(Entries(i)) + 1
        BY <2>2, <3>1, FS_AddElement, FS_CardinalityType
      <3>5. Cardinality(Entries(i)) \in Nat /\ Cardinality(Counting(i)) \in Nat
            /\ Cardinality(Entries(i)') \in Nat
        BY <2>2, <3>1, FS_AddElement, FS_CardinalityType
      <3> QED BY <1>1, <2>3, <3>3, <3>4, <3>5
    <2> QED BY <2>4, <2>5
  <1> QED BY <1>4, <1>5, <1>6 DEF Records, Counted

\* One goroutine less, and one delivery more in the count.
LEMMA IncKeepsRecords ==
    ASSUME IndInv, Records, NEW c \in Calls, IncBlockBuilderStats(c)
    PROVE  Records'
  <1>1. UNCHANGED <<load, blockOf, delivered, lost, pc, bidTrace>> /\ (faults' = 0 => faults = 0)
    BY LoadIsFixed DEF IncBlockBuilderStats, Working, Fault, process, handlers, IndInv,
        TypeStore
  <1>2. job[c] = "counting" /\ job' = [job EXCEPT ![c] = "done"]
    BY DEF IncBlockBuilderStats, Working
  <1>3. faults' = 0 =>
            sent' = IF bidTrace[c] = NoBlock THEN sent
                    ELSE [sent EXCEPT ![Builder[bidTrace[c]]] = @ + 1]
    BY DEF IncBlockBuilderStats, Fault, IndInv, TypeStore
  <1>4. Goroutines' /\ Listed'
    BY <1>1, <1>2 DEF Records, Goroutines, Listed, IndInv, TypeCalls
  <1>5. ASSUME faults' = 0, lost' = {}, NEW i \in Builders
        PROVE  Cardinality(Entries(i)') <= sent'[i] + Cardinality(Counting(i)')
    <2>1. IsFiniteSet(Counting(i)) /\ IsFiniteSet(Entries(i))
      BY FS_Subset, BlocksAssumption DEF Records, Listed, Entries, Counting
    <2>2. Cardinality(Entries(i)) <= sent[i] + Cardinality(Counting(i)) /\ sent[i] \in Nat
      BY <1>1, <1>5 DEF Records, Counted, IndInv, TypeStore
    <2>3. Entries(i)' = Entries(i)
      BY <1>1 DEF Entries
    <2>4. CASE bidTrace[c] \in Blocks /\ Builder[bidTrace[c]] = i
      <3>1. Counting(i)' = Counting(i) \ {c} /\ c \in Counting(i)
        BY <1>1, <1>2, <2>4 DEF Counting, IndInv, TypeCalls
      <3>2. sent'[i] = sent[i] + 1
        BY <1>3, <1>5, <2>4, BlocksAssumption DEF IndInv, TypeStore
      <3>3. Cardinality(Counting(i)') = Cardinality(Counting(i)) - 1
        BY <2>1, <3>1, FS_RemoveElement
      <3> QED BY <2>1, <2>2, <2>3, <3>2, <3>3, FS_CardinalityType
    <2>5. CASE ~(bidTrace[c] \in Blocks /\ Builder[bidTrace[c]] = i)
      <3>1. Counting(i)' = Counting(i)
        BY <1>1, <1>2, <2>5 DEF Counting, IndInv, TypeCalls
      <3>2. sent'[i] \in {sent[i], sent[i] + 1}
        BY <1>3, <1>5 DEF IndInv, TypeStore
      <3> QED BY <2>1, <2>2, <2>3, <3>1, <3>2, FS_CardinalityType
    <2> QED BY <2>4, <2>5
  <1> QED BY <1>4, <1>5 DEF Records, Counted

\* The end of the process: if no goroutine is lost there was none.
LEMMA ExitKeepsRecords ==
    ASSUME IndInv, Records, Exit, UNCHANGED <<load, delivered, sent, faults>>
    PROVE  Records'
  <1>1. UNCHANGED blockOf
    BY LoadIsFixed
  <1>2. \A c \in Calls : pc[c] = "answered" => pc'[c] = "answered"
    BY DEF Exit, InFlight
  <1>3. Goroutines' /\ Listed'
    BY <1>1, <1>2, BlocksAssumption DEF Records, Goroutines, Listed, Exit
  <1>4. ASSUME lost' = {}, NEW i \in Builders
        PROVE  lost = {} /\ Entries(i)' = Entries(i) /\ Counting(i)' = Counting(i)
    BY <1>4 DEF Entries, Counting, Exit, Running
  <1> QED BY <1>3, <1>4 DEF Records, Counted

LEMMA NextKeepsRecords == IndInv /\ Records /\ [Next]_vars => Records'
  <1> SUFFICES ASSUME IndInv, Records, [Next]_vars PROVE Records'
    OBVIOUS
  <1>1. ASSUME NEW b \in Blocks, SubmitNewBlock(b) \/ ExpireTrace(b) \/ ExpirePayload(b)
        PROVE  Records'
    <2>1. /\ UNCHANGED <<load, delivered, sent, job, bidTrace, lost, pc>>
          /\ (faults' = 0 => faults = 0)
      BY <1>1 DEF SubmitNewBlock, CheckDelivered, PassCheck, RefuseDelivered, RejectBlock,
        SaveBidTrace, SaveExecutionPayload, SaveSubmission, Submitting, Fault, ExpireTrace,
        ExpirePayload, database, process, handlers, jobs, IndInv, TypeStore
    <2> QED BY <2>1, FrameKeepsRecords
  <1>2. ASSUME NEW c \in Calls,
               BeginCall(c) \/ CheckProposer(c) \/ GetFromRedis(c) \/ GetFromDatabase(c)
        PROVE  Records'
    <2>1. UNCHANGED <<load, delivered, sent, job, bidTrace, lost>> /\ (faults' = 0 => faults = 0)
      BY <1>2 DEF BeginCall, CheckProposer, GetFromRedis, GetFromDatabase, Step, Fault, database,
        process, jobs, IndInv, TypeStore
    <2>2. \E to : pc[c] # "answered" /\ pc' = [pc EXCEPT ![c] = to]
      BY <1>2 DEF BeginCall, CheckProposer, GetFromRedis, GetFromDatabase, Attempts, Step
    <2>3. \A d \in Calls : pc[d] = "answered" => pc'[d] = "answered"
      BY <2>2 DEF IndInv, TypeCalls
    <2> QED BY <2>1, <2>3, FrameKeepsRecords
  <1>3. ASSUME NEW c \in Calls, Publish(c) PROVE Records'
    <2>1. /\ UNCHANGED <<load, delivered, sent, job, bidTrace, lost, pc>>
          /\ (faults' = 0 => faults = 0)
      BY <1>3 DEF Publish, Fault, database, process, handlers, IndInv, TypeStore
    <2> QED BY <2>1, FrameKeepsRecords
  <1>4. ASSUME NEW c \in Calls, SaveDelivery(c) PROVE Records'
    <2>1. CASE PanicOnNilTrace(c)
      BY <2>1, ExitKeepsRecords DEF PanicOnNilTrace, database
    <2> QED
      BY <1>4, <2>1, LookupKeepsRecords, SaveKeepsRecords, IncKeepsRecords DEF SaveDelivery
  <1>5. CASE WaitPanics \/ Shutdown
    BY <1>5, ExitKeepsRecords DEF WaitPanics, Shutdown, EndByStop, database
  <1>6. CASE StopServer \/ WaitForCalls \/ WaitReturns \/ StartServer \/ RefreshKnownValidators
             \/ UNCHANGED vars
    <2>1. UNCHANGED <<load, delivered, sent, job, bidTrace, lost, pc, faults>>
      BY <1>6 DEF StopServer, WaitForCalls, WaitReturns, StartServer, Lifecycle,
        RefreshKnownValidators, vars, database, process, handlers, jobs
    <2> QED BY <2>1, FrameKeepsRecords
  <1> QED
    BY <1>1, <1>2, <1>3, <1>4, <1>5, <1>6, RespondKeepsRecords DEF Next, HandleGetPayload

\* For any calls and blocks, what is listed as delivered was given to a
\* proposer, and no builder's count is behind its entries unless a record was
\* lost.
THEOREM RecordsStayTrue == Spec => []RecordsAreTrue
  <1>1. IndInv /\ Records /\ [Next]_vars => Records'
    BY NextKeepsRecords
  <1>2. Records => RecordsAreTrue
    BY DEF Records, Listed, Counted, Entries, Counting, RecordsAreTrue
  <1> QED BY <1>1, <1>2, InitRecords, Invariance, PTL DEF Spec

-----------------------------------------------------------------------------
(* No delivery is forgotten: the safety half of DeliveriesAreRecorded *)

\* Unless a call failed or a restart cut them off, what an answered call leaves
\* to its two goroutines is done, or the goroutine that does it is running.
NoDeliveryForgotten ==
    \A c \in Calls :
        pc[c] = "answered" /\ faults = 0 /\ c \notin lost =>
            /\ blockOf[c] \in delivered \/ job[c] \in {"stats", "trace", "saving"}
            /\ blockOf[c] \in published \/ publisher[c] = "publishing"

\* Steps that answer no call and end no goroutine.
LEMMA FrameForgetsNothing ==
    ASSUME NoDeliveryForgotten,
           UNCHANGED <<load, delivered, published, job, publisher, lost>>,
           \A c \in Calls : pc'[c] = "answered" => pc[c] = "answered",
           faults' = 0 => faults = 0
    PROVE  NoDeliveryForgotten'
  <1>1. UNCHANGED blockOf
    BY LoadIsFixed
  <1> QED BY <1>1 DEF NoDeliveryForgotten

LEMMA RespondForgetsNothing ==
    ASSUME IndInv, NoDeliveryForgotten, NEW c \in Calls, Respond(c)
    PROVE  NoDeliveryForgotten'
  <1>1. UNCHANGED <<blockOf, delivered, published, lost, faults>>
    BY LoadIsFixed DEF Respond, Step, database
  <1>2. /\ pc' = [pc EXCEPT ![c] = "answered"] /\ job' = [job EXCEPT ![c] = "stats"]
        /\ publisher' = [publisher EXCEPT ![c] = "publishing"]
    BY DEF Respond, Step
  <1> QED BY <1>1, <1>2 DEF NoDeliveryForgotten, IndInv, TypeCalls

\* The goroutine goes on, and leaves "saving" with the entry of its block.
LEMMA SaveDeliveryForgetsNothing ==
    ASSUME IndInv, Records, NoDeliveryForgotten, NEW c \in Calls,
           SetStats(c) \/ GetBidTrace(c) \/ SaveDeliveredPayload(c) \/ IncBlockBuilderStats(c)
    PROVE  NoDeliveryForgotten'
  <1>1. /\ UNCHANGED <<blockOf, published, lost, pc, publisher>>
        /\ faults' = 0 => faults = 0
        /\ delivered \subseteq delivered'
    BY LoadIsFixed DEF SetStats, GetBidTrace, SaveDeliveredPayload, IncBlockBuilderStats, Working,
        Fault, process, handlers, IndInv, TypeStore
  <1>2. CASE SetStats(c) \/ GetBidTrace(c)
    <2>1. job[c] \in {"stats", "trace"} /\ \E to \in {"trace", "saving"} : job' = [job EXCEPT ![c] = to]
      BY <1>2 DEF SetStats, GetBidTrace, Working
    <2> QED BY <1>1, <2>1 DEF NoDeliveryForgotten, IndInv, TypeCalls
  <1>3. CASE SaveDeliveredPayload(c)
    <2>1. bidTrace[c] # NoTrace /\ job' = [job EXCEPT ![c] = "counting"]
      BY <1>3 DEF SaveDeliveredPayload, Working
    <2>2. faults' = 0 => delivered' = delivered \cup {bidTrace[c]}
      BY <1>3 DEF SaveDeliveredPayload, Fault, IndInv, TypeStore
    <2>3. faults' = 0 => blockOf[c] \in delivered'
      BY <1>1, <2>1, <2>2 DEF Records, Goroutines
    <2> QED BY <1>1, <2>1, <2>3 DEF NoDeliveryForgotten, IndInv, TypeCalls
  <1>4. CASE IncBlockBuilderStats(c)
    <2>1. job[c] = "counting" /\ job' = [job EXCEPT ![c] = "done"]
      BY <1>4 DEF IncBlockBuilderStats, Working
    <2> QED BY <1>1, <2>1 DEF NoDeliveryForgotten, IndInv, TypeCalls
  <1> QED BY <1>2, <1>3, <1>4

LEMMA PublishForgetsNothing ==
    ASSUME IndInv, NoDeliveryForgotten, NEW c \in Calls, Publish(c)
    PROVE  NoDeliveryForgotten'
  <1>1. UNCHANGED <<blockOf, delivered, lost, pc, job>> /\ (faults' = 0 => faults = 0)
    BY LoadIsFixed DEF Publish, Fault, database, process, handlers, IndInv, TypeStore
  <1>2. /\ publisher' = [publisher EXCEPT ![c] = "done"]
        /\ published \subseteq published'
        /\ faults' = 0 => blockOf[c] \in published'
    BY DEF Publish, Fault, IndInv, TypeStore
  <1> QED BY <1>1, <1>2 DEF NoDeliveryForgotten, IndInv, TypeCalls

\* A restart takes down goroutines, and their calls are lost.
LEMMA ExitForgetsNothing ==
    ASSUME NoDeliveryForgotten, Exit, UNCHANGED <<load, delivered, published, faults>>
    PROVE  NoDeliveryForgotten'
  <1>1. UNCHANGED blockOf
    BY LoadIsFixed
  <1>2. ASSUME NEW c \in Calls, pc'[c] = "answered", c \notin lost'
        PROVE  /\ pc[c] = "answered" /\ c \notin lost
               /\ job[c] \in {"none", "done"} /\ publisher[c] \in {"none", "done"}
    BY <1>2 DEF Exit, Running
  <1> QED BY <1>1, <1>2 DEF NoDeliveryForgotten

LEMMA NextForgetsNothing ==
    IndInv /\ Records /\ NoDeliveryForgotten /\ [Next]_vars => NoDeliveryForgotten'
  <1> SUFFICES ASSUME IndInv, Records, NoDeliveryForgotten, [Next]_vars
               PROVE  NoDeliveryForgotten'
    OBVIOUS
  <1>1. ASSUME NEW b \in Blocks, SubmitNewBlock(b) \/ ExpireTrace(b) \/ ExpirePayload(b)
        PROVE  NoDeliveryForgotten'
    <2>1. /\ UNCHANGED <<load, delivered, published, job, publisher, lost, pc>>
          /\ (faults' = 0 => faults = 0)
      BY <1>1 DEF SubmitNewBlock, CheckDelivered, PassCheck, RefuseDelivered, RejectBlock,
        SaveBidTrace, SaveExecutionPayload, SaveSubmission, Submitting, Fault, ExpireTrace,
        ExpirePayload, database, process, handlers, jobs, IndInv, TypeStore
    <2> QED BY <2>1, FrameForgetsNothing
  <1>2. ASSUME NEW c \in Calls,
               BeginCall(c) \/ CheckProposer(c) \/ GetFromRedis(c) \/ GetFromDatabase(c)
        PROVE  NoDeliveryForgotten'
    <2>1. /\ UNCHANGED <<load, delivered, published, job, publisher, lost>>
          /\ (faults' = 0 => faults = 0)
      BY <1>2 DEF BeginCall, CheckProposer, GetFromRedis, GetFromDatabase, Step, Fault, database,
        process, jobs, IndInv, TypeStore
    <2>2. \E to : to # "answered" /\ pc' = [pc EXCEPT ![c] = to]
      BY <1>2 DEF BeginCall, CheckProposer, GetFromRedis, GetFromDatabase, Attempts, Step
    <2>3. \A d \in Calls : pc'[d] = "answered" => pc[d] = "answered"
      BY <2>2 DEF IndInv, TypeCalls
    <2> QED BY <2>1, <2>3, FrameForgetsNothing
  <1>3. ASSUME NEW c \in Calls, SaveDelivery(c) PROVE NoDeliveryForgotten'
    <2>1. CASE PanicOnNilTrace(c)
      BY <2>1, ExitForgetsNothing DEF PanicOnNilTrace, database
    <2> QED BY <1>3, <2>1, SaveDeliveryForgetsNothing DEF SaveDelivery
  <1>4. CASE WaitPanics \/ Shutdown
    BY <1>4, ExitForgetsNothing DEF WaitPanics, Shutdown, EndByStop, database
  <1>5. CASE StopServer \/ WaitForCalls \/ WaitReturns \/ StartServer \/ RefreshKnownValidators
             \/ UNCHANGED vars
    <2>1. UNCHANGED <<load, delivered, published, job, publisher, lost, pc, faults>>
      BY <1>5 DEF StopServer, WaitForCalls, WaitReturns, StartServer, Lifecycle,
        RefreshKnownValidators, vars, database, process, handlers, jobs
    <2> QED BY <2>1, FrameForgetsNothing
  <1> QED
    BY <1>1, <1>2, <1>3, <1>4, <1>5, RespondForgetsNothing, PublishForgetsNothing
    DEF Next, HandleGetPayload

\* Whatever is submitted, asked for and restarted, a payload that was given to a
\* proposer is in the table of delivered payloads and published, or a goroutine
\* of handleGetPayload is about to do what is missing, unless a call failed or
\* the process ended: DeliveriesAreRecorded without the fairness.
THEOREM DeliveriesAreRemembered == Spec => []NoDeliveryForgotten
  <1>1. Init => NoDeliveryForgotten
    BY DEF Init, NoDeliveryForgotten
  <1>2. IndInv /\ Records /\ [Next]_vars => Records'
    BY NextKeepsRecords
  <1> QED BY <1>1, <1>2, InitRecords, NextForgetsNothing, Invariance, PTL DEF Spec
=============================================================================
