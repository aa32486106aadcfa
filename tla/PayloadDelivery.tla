--------------------------- MODULE PayloadDelivery ---------------------------
(***************************************************************************)
(* Delivery of payloads (handleGetPayload in services/api/service.go): the *)
(* lookup in Redis and the database with its retry, the goroutines that    *)
(* record and publish what was delivered, and the end of the process, by   *)
(* StopServer or by a panic.                                               *)
(*                                                                         *)
(* Blocks reach Redis and the database through handleSubmitNewBlock, of    *)
(* which only the check of delivered slots and the order of the writes are *)
(* here (module Auction has the rest).  Submissions are taken by an        *)
(* instance of its own, as the flags of cmd/api.go allow, that does not    *)
(* stop.  The refund that follows the record of a delivered block is in    *)
(* module Optimistic.                                                      *)
(***************************************************************************)
EXTENDS Naturals, FiniteSets

CONSTANTS
    Blocks,
    Slot,           \* block -> its slot
    Builder,        \* block -> its builder
    NoBlock,        \* the empty bid trace: slot 0, and no builder's key
    NoTrace,        \* nil
    Calls,          \* the getPayload calls
    Loads           \* what the relay is put to, and bounds: see load

ASSUME BlocksAssumption ==
    /\ Slot \in [Blocks -> Nat \ {0}]
    /\ NoBlock \notin Blocks /\ NoTrace \notin Blocks \cup {NoBlock}
    /\ IsFiniteSet(Calls)

ASSUME LoadsAssumption ==
    Loads \subseteq [submitted : SUBSET Blocks, expiring : SUBSET Blocks,
                    blockOf : [Calls -> Blocks], maxFaults : Nat, maxRestarts : Nat]

Builders == {Builder[b] : b \in Blocks}

VARIABLES
    load,               \* what is submitted and asked for: chosen at the beginning,
                        \* and fixed
    stage,              \* block -> how far handleSubmitNewBlock is with it
    traces, payloads,   \* Redis: the bid traces and the getPayload responses
    lastDelivered,      \* Redis: slot-last-payload-delivered, 0 if there is none
    rows,               \* the execution_payload table
    delivered,          \* the delivered_payload table, with a UNIQUE block
    sent,               \* builder -> num_sent_getpayload
    published,          \* the blocks a beacon node took
    server,             \* the process, and how far StopServer is
    known,              \* are the known validators in memory?
    pc,                 \* the handlers
    job, bidTrace,      \* the goroutine that records the delivery, its bidTrace
    publisher,          \* the goroutine that publishes the block
    \* history and bounds
    recorded,           \* the slots that were written to lastDelivered
    reopened,           \* blocks that passed the check although their slot is one of them
    expired,            \* blocks whose trace has expired
    kept,               \* calls whose payload is in Redis since they began
    fallback,           \* calls whose payload comes from the database
    late,               \* calls that began when StopServer's wait was over
    cut,                \* calls that StopServer cut off
    lost,               \* calls whose goroutines a restart cut off
    faults, restarts

blockOf == load.blockOf         \* call -> the block the proposer signed
MaxFaults == load.maxFaults     \* bound: failing calls of Redis, the database and
                                \* the beacon nodes
MaxRestarts == load.maxRestarts \* bound: signals to stop, and restarts

redis == <<traces, payloads, lastDelivered>>
database == <<rows, delivered, sent>>
handlers == <<pc, kept, fallback, late>>
jobs == <<job, bidTrace, publisher>>
process == <<server, known, cut, lost, restarts>>
slots == <<recorded, reopened>>
vars == <<load, stage, redis, database, published, process, handlers, jobs, slots, expired, faults>>

Fault == faults < MaxFaults /\ faults' = faults + 1

InFlight == {c \in Calls : pc[c] \in {"started", "redis1", "db1", "redis2", "db2", "found"}}

Init ==
    /\ load \in Loads
    /\ stage = [b \in Blocks |-> "none"]
    /\ traces = {} /\ payloads = {} /\ lastDelivered = 0
    /\ rows = {} /\ delivered = {} /\ sent = [i \in Builders |-> 0]
    /\ published = {}
    /\ server = "up" /\ known = FALSE /\ restarts = 0
    /\ pc = [c \in Calls |-> "idle"] /\ kept = {} /\ fallback = {} /\ late = {}
    /\ job = [c \in Calls |-> "none"] /\ bidTrace = [c \in Calls |-> NoTrace]
    /\ publisher = [c \in Calls |-> "none"]
    /\ recorded = {} /\ reopened = {} /\ expired = {}
    /\ cut = {} /\ lost = {}
    /\ faults = 0

-----------------------------------------------------------------------------
(* handleSubmitNewBlock *)

Submitting(b, from, to) ==
    /\ b \in load.submitted /\ stage[b] = from
    /\ stage' = [stage EXCEPT ![b] = to]
    /\ UNCHANGED <<load, lastDelivered, delivered, sent, published, process, pc, fallback, late,
                   jobs, recorded>>

PassCheck(b) ==
    /\ Submitting(b, "none", "checked")
    /\ reopened' = IF Slot[b] \in recorded THEN reopened \cup {b} ELSE reopened

RefuseDelivered(b) == Submitting(b, "none", "done") /\ UNCHANGED reopened

\* "Reject new submissions once the payload for this slot was delivered"; after
\* an error of Redis there is no check
CheckDelivered(b) ==
    /\ \/ Slot[b] > lastDelivered /\ PassCheck(b) /\ UNCHANGED faults
       \/ Slot[b] <= lastDelivered /\ RefuseDelivered(b) /\ UNCHANGED faults
       \/ Fault /\ PassCheck(b)
    /\ UNCHANGED <<traces, payloads, rows, kept, expired>>

\* The simulation fails, or the builder has sent a newer block: nothing is written
\* to Redis, but the submission is saved.
RejectBlock(b) ==
    /\ Submitting(b, "checked", "returning")
    /\ UNCHANGED <<traces, payloads, rows, reopened, kept, expired, faults>>

\* the error is logged and the handler goes on
SaveBidTraceIgnoringErrors(b) ==
    /\ Submitting(b, "checked", "traced")
    /\ \/ traces' = traces \cup {b} /\ UNCHANGED faults
       \/ Fault /\ UNCHANGED traces
    /\ UNCHANGED <<payloads, rows, reopened, kept, expired>>

\* "first the trace"; after an error, be it that only the reply was lost, the
\* handler returns, and saves the submission
SaveBidTrace(b) ==
    /\ \/ Submitting(b, "checked", "traced") /\ traces' = traces \cup {b} /\ UNCHANGED faults
       \/ Submitting(b, "checked", "returning") /\ Fault /\ traces' \in {traces, traces \cup {b}}
    /\ UNCHANGED <<payloads, rows, reopened, kept, expired>>

\* here, too, an error can mean that only the reply was lost
SaveExecutionPayload(b) ==
    /\ Submitting(b, "traced", "returning")
    /\ \/ payloads' = payloads \cup {b} /\ UNCHANGED faults
       \/ Fault /\ payloads' \in {payloads, payloads \cup {b}}
    /\ UNCHANGED <<traces, rows, reopened, kept, expired>>

\* the deferred function: SaveBuilderBlockSubmission, its error is logged
SaveSubmission(b) ==
    /\ Submitting(b, "returning", "done")
    /\ \/ rows' = rows \cup {b} /\ UNCHANGED faults
       \/ Fault /\ UNCHANGED rows
    /\ UNCHANGED <<traces, payloads, reopened, kept, expired>>

SubmitNewBlock(b) ==
    \/ CheckDelivered(b) \/ RejectBlock(b)
    \/ SaveBidTrace(b) \/ SaveExecutionPayload(b) \/ SaveSubmission(b)

\* expiryBidCache is over: the trace was written first and goes first
ExpireTrace(b) ==
    /\ b \in load.expiring /\ b \in traces /\ stage[b] \in {"returning", "done"}
    /\ traces' = traces \ {b}
    /\ expired' = expired \cup {b}
    /\ UNCHANGED <<load, stage, payloads, lastDelivered, database, published, process,
                   handlers, jobs, slots, faults>>

ExpirePayload(b) ==
    /\ b \in load.expiring /\ b \in payloads /\ b \notin traces
    /\ payloads' = payloads \ {b}
    /\ kept' = {c \in kept : blockOf[c] # b}
    /\ UNCHANGED <<load, stage, traces, lastDelivered, database, published, process,
                   pc, fallback, late, jobs, slots, expired, faults>>

-----------------------------------------------------------------------------
(* handleGetPayload *)

Running(f) == {c \in Calls : f[c] \notin {"none", "done"}}

\* the process is gone, with the calls and the goroutines it had
Exit ==
    /\ server' = "down" /\ known' = FALSE
    /\ pc' = [c \in Calls |-> IF c \in InFlight THEN "cut" ELSE pc[c]]
    /\ lost' = lost \cup Running(job) \cup Running(publisher)
    /\ job' = [c \in Calls |-> "none"] /\ publisher' = [c \in Calls |-> "none"]
    /\ bidTrace' = [c \in Calls |-> NoTrace]

Serving == server # "down"

\* A call begins.  mev-boost asks all relays that offered the block, so it can
\* be one this relay does not have, or is about to store.
BeginCall(c) ==
    /\ pc[c] = "idle" /\ Serving
    /\ pc' = [pc EXCEPT ![c] = "started"]
    /\ kept' = IF blockOf[c] \in payloads THEN kept \cup {c} ELSE kept
    /\ late' = IF server \in {"released", "drained"} THEN late \cup {c} ELSE late
    /\ UNCHANGED <<load, stage, redis, database, published, process, fallback, jobs, slots,
                   expired, faults>>

\* the handler goes on
Step(c, from, to) ==
    /\ pc[c] = from
    /\ pc' = [pc EXCEPT ![c] = to]
    /\ UNCHANGED <<load, stage, redis, database, published, known, cut, lost, restarts,
                   kept, late, slots, expired>>

\* it returns, and leaves getPayloadCallsInFlight
LeaveGroup(c) ==
    server' = IF server = "waiting" /\ InFlight = {c} THEN "released" ELSE server

\* GetKnownValidatorPubkeyByIndex and the signature: known validators go on, and
\* what cannot be decoded or has a wrong signature is rejected like the others
CheckProposer(c) ==
    /\ \/ known /\ Step(c, "started", "redis1") /\ UNCHANGED server
       \/ Step(c, "started", "rejected") /\ LeaveGroup(c)
    /\ UNCHANGED <<fallback, jobs, faults>>

\* the first failure is final
OneAttempt == {[redis |-> "redis1", db |-> "db1", missed |-> "refused"]}

\* GetGetPayloadResponse: what Redis answers is returned, be it nil, and only an
\* error leads to the database.  When nothing was found the handler sleeps and
\* tries again, once.
Attempts ==
    {[redis |-> "redis1", db |-> "db1", missed |-> "redis2"],
     [redis |-> "redis2", db |-> "db2", missed |-> "refused"]}

Missed(c, a) ==
    IF a.missed = "refused" THEN LeaveGroup(c) ELSE UNCHANGED server

GetFromRedis(c) ==
    /\ \E a \in Attempts :
           \/ blockOf[c] \in payloads /\ Step(c, a.redis, "found") /\ UNCHANGED <<server, faults>>
           \/ /\ blockOf[c] \notin payloads
              /\ Step(c, a.redis, a.missed) /\ Missed(c, a)
              /\ UNCHANGED faults
           \/ Fault /\ Step(c, a.redis, a.db) /\ UNCHANGED server
    /\ UNCHANGED <<fallback, jobs>>

GetFromDatabase(c) ==
    /\ \E a \in Attempts :
           \/ /\ blockOf[c] \in rows
              /\ Step(c, a.db, "found") /\ fallback' = fallback \cup {c}
              /\ UNCHANGED <<server, faults>>
           \/ /\ blockOf[c] \notin rows
              /\ Step(c, a.db, a.missed) /\ Missed(c, a)
              /\ UNCHANGED <<fallback, faults>>
           \/ Fault /\ Step(c, a.db, a.missed) /\ Missed(c, a) /\ UNCHANGED fallback
    /\ UNCHANGED jobs

\* answer, start the two goroutines and return
Respond(c) ==
    /\ Step(c, "found", "answered")
    /\ LeaveGroup(c)
    /\ job' = [job EXCEPT ![c] = "stats"]
    /\ publisher' = [publisher EXCEPT ![c] = "publishing"]
    /\ UNCHANGED <<fallback, bidTrace, faults>>

HandleGetPayload(c) ==
    CheckProposer(c) \/ GetFromRedis(c) \/ GetFromDatabase(c) \/ Respond(c)

-----------------------------------------------------------------------------
(* the goroutines of handleGetPayload *)

Working(c, from, to) ==
    /\ job[c] = from
    /\ job' = [job EXCEPT ![c] = to]
    /\ UNCHANGED <<load, stage, traces, payloads, rows, published, process, handlers,
                   publisher, reopened, expired>>

\* the test of the error is the wrong way round: the goroutine returns without one
SetStatsAndReturn(c) ==
    /\ Working(c, "stats", "done")
    /\ lastDelivered' = Slot[blockOf[c]]
    /\ recorded' = recorded \cup {Slot[blockOf[c]]}
    /\ UNCHANGED <<bidTrace, delivered, sent, faults>>

\* errors are logged, here and below
SetStats(c) ==
    /\ Working(c, "stats", "trace")
    /\ \/ /\ lastDelivered' = Slot[blockOf[c]]
          /\ recorded' = recorded \cup {Slot[blockOf[c]]}
          /\ UNCHANGED faults
       \/ Fault /\ UNCHANGED <<lastDelivered, recorded>>
    /\ UNCHANGED <<bidTrace, delivered, sent>>

\* redis.Nil gives an empty trace, like an error
GetBidTraceOrEmpty(c) ==
    /\ Working(c, "trace", "saving")
    /\ bidTrace' = [bidTrace EXCEPT ![c] = IF blockOf[c] \in traces THEN blockOf[c] ELSE NoBlock]
    /\ UNCHANGED <<lastDelivered, recorded, delivered, sent, faults>>

\* redis.Nil is no error, and gives nil; an error comes with an empty trace
GetBidTrace(c) ==
    /\ Working(c, "trace", "saving")
    /\ \/ /\ bidTrace' =
                [bidTrace EXCEPT ![c] = IF blockOf[c] \in traces THEN blockOf[c] ELSE NoTrace]
          /\ UNCHANGED faults
       \/ Fault /\ bidTrace' = [bidTrace EXCEPT ![c] = NoBlock]
    /\ UNCHANGED <<lastDelivered, recorded, delivered, sent>>

SaveDeliveredPayload(c) ==
    /\ bidTrace[c] # NoTrace
    /\ Working(c, "saving", "counting")
    /\ \/ delivered' = delivered \cup {bidTrace[c]} /\ UNCHANGED faults
       \/ Fault /\ UNCHANGED delivered
    /\ UNCHANGED <<lastDelivered, recorded, bidTrace, sent>>

\* SaveDeliveredPayload dereferences bidTrace: the panic ends the process
PanicOnNilTrace(c) ==
    /\ job[c] = "saving" /\ bidTrace[c] = NoTrace
    /\ Exit
    /\ UNCHANGED <<load, stage, redis, database, published, kept, fallback, late, slots, expired,
                   cut, restarts, faults>>

\* IncBlockBuilderStatsAfterGetPayload; no row has the key of the empty trace
IncBlockBuilderStats(c) ==
    /\ Working(c, "counting", "done")
    /\ \/ /\ sent' = IF bidTrace[c] = NoBlock THEN sent
                      ELSE [sent EXCEPT ![Builder[bidTrace[c]]] = @ + 1]
          /\ UNCHANGED faults
       \/ Fault /\ UNCHANGED sent
    /\ UNCHANGED <<lastDelivered, recorded, bidTrace, delivered>>

SaveDelivery(c) ==
    \/ SetStats(c) \/ GetBidTrace(c) \/ SaveDeliveredPayload(c)
    \/ PanicOnNilTrace(c) \/ IncBlockBuilderStats(c)

\* PublishBlock: one of the beacon nodes takes the block, or all refuse it
Publish(c) ==
    /\ publisher[c] = "publishing"
    /\ publisher' = [publisher EXCEPT ![c] = "done"]
    /\ \/ published' = published \cup {blockOf[c]} /\ UNCHANGED faults
       \/ Fault /\ UNCHANGED published
    /\ UNCHANGED <<load, stage, redis, database, process, handlers, job, bidTrace, slots, expired>>

-----------------------------------------------------------------------------
(* StartServer, StopServer, and the process around them (cmd/api.go) *)

Lifecycle(from, to) ==
    /\ server = from /\ server' = to
    /\ UNCHANGED <<load, stage, redis, database, published, known, handlers, jobs, slots,
                   expired, cut, lost, faults>>

\* a signal: the bids stop, and StopServer sleeps for a few seconds
StopServer == restarts < MaxRestarts /\ Lifecycle("up", "stopping") /\ UNCHANGED restarts

\* the calls in flight are not waited for
DoNotWait == Lifecycle("stopping", "drained") /\ UNCHANGED restarts

\* getPayloadCallsInFlight.Wait()
WaitForCalls ==
    /\ Lifecycle("stopping", IF InFlight = {} THEN "drained" ELSE "waiting")
    /\ UNCHANGED restarts

WaitReturns ==
    /\ InFlight = {}
    /\ Lifecycle("released", "drained")
    /\ UNCHANGED restarts

EndByStop ==
    /\ cut' = cut \cup InFlight
    /\ Exit
    /\ UNCHANGED <<load, stage, redis, database, published, kept, fallback, late, slots, expired,
                   restarts, faults>>

\* a call began when the Wait was released and had not returned: "WaitGroup is
\* reused before previous Wait has returned"
WaitPanics == server = "released" /\ InFlight # {} /\ EndByStop

\* Shutdown makes ListenAndServe return, with it StartServer, and the main
\* goroutine ends the process without waiting for Shutdown
Shutdown == server = "drained" /\ EndByStop

\* the process is started again
StartServer ==
    /\ restarts < MaxRestarts /\ restarts' = restarts + 1
    /\ Lifecycle("down", "up")

\* startKnownValidatorUpdates, concurrent with the first requests
RefreshKnownValidators ==
    /\ Serving /\ ~known
    /\ known' = TRUE
    /\ UNCHANGED <<load, stage, redis, database, published, server, cut, lost, restarts,
                   handlers, jobs, slots, expired, faults>>

-----------------------------------------------------------------------------
Next ==
    \/ \E b \in Blocks : SubmitNewBlock(b) \/ ExpireTrace(b) \/ ExpirePayload(b)
    \/ \E c \in Calls : BeginCall(c) \/ HandleGetPayload(c) \/ SaveDelivery(c) \/ Publish(c)
    \/ StopServer \/ WaitForCalls \/ WaitReturns \/ WaitPanics \/ Shutdown
    \/ StartServer \/ RefreshKnownValidators

\* Handlers and goroutines that began run to their end, Redis and the database
\* answer or time out, and StopServer goes on.  Nobody has to submit a block,
\* ask for one, or stop the relay.
Fairness ==
    /\ \A c \in Calls :
           WF_vars(HandleGetPayload(c)) /\ WF_vars(SaveDelivery(c)) /\ WF_vars(Publish(c))
    /\ WF_vars(RefreshKnownValidators)
    /\ WF_vars(WaitForCalls \/ WaitReturns \/ WaitPanics \/ Shutdown)

Spec == Init /\ [][Next]_vars
FairSpec == Spec /\ Fairness

-----------------------------------------------------------------------------
TypeOK ==
    /\ load \in Loads
    /\ stage \in [Blocks -> {"none", "checked", "traced", "returning", "done"}]
    /\ traces \subseteq Blocks /\ payloads \subseteq Blocks /\ rows \subseteq Blocks
    /\ lastDelivered \in recorded \cup {0} /\ recorded \subseteq {Slot[b] : b \in Blocks}
    /\ delivered \subseteq Blocks \cup {NoBlock} /\ published \subseteq Blocks
    /\ sent \in [Builders -> Nat]
    /\ server \in {"up", "stopping", "waiting", "released", "drained", "down"}
    /\ known \in BOOLEAN
    /\ pc \in [Calls -> {"idle", "started", "redis1", "db1", "redis2", "db2", "found",
                         "answered", "refused", "rejected", "cut"}]
    /\ job \in [Calls -> {"none", "stats", "trace", "saving", "counting", "done"}]
    /\ bidTrace \in [Calls -> Blocks \cup {NoBlock, NoTrace}]
    /\ publisher \in [Calls -> {"none", "publishing", "done"}]
    /\ reopened \subseteq Blocks /\ expired \subseteq Blocks
    /\ kept \subseteq Calls /\ fallback \subseteq Calls /\ late \subseteq Calls
    /\ cut \subseteq Calls /\ lost \subseteq Calls
    /\ faults \in 0..MaxFaults /\ restarts \in 0..MaxRestarts

\* "Try again": one failing call, of Redis or of the database, never keeps a
\* proposer from a payload that is in Redis while it asks, whether or not the
\* submission has reached the database.
StoredPayloadsAreServed ==
    \A c \in Calls : pc[c] = "refused" /\ c \in kept => faults > 1

\* The goroutine of getPayload ends the process when there is no bid trace for
\* the payload it delivered.  "first the trace": that only happens to payloads
\* that outlive their trace, or that came from the database because Redis did
\* not answer (where also blocks are that were rejected), and never to a block
\* in Redis whose submission is still under way or has failed halfway.
NilTraceOnlyAfterExpiry ==
    \A c \in Calls :
        job[c] = "saving" /\ bidTrace[c] = NoTrace
            => blockOf[c] \in expired \/ c \in fallback

\* What the data API lists as delivered was given to a proposer, an entry
\* without a block comes from a failed lookup of the trace, and unless a record
\* was lost the count of a builder is not behind its entries.
RecordsAreTrue ==
    /\ delivered \ {NoBlock} \subseteq {blockOf[c] : c \in {d \in Calls : pc[d] = "answered"}}
    /\ faults = 0 => NoBlock \notin delivered
    /\ faults = 0 /\ lost = {} =>
           \A i \in Builders :
               Cardinality({b \in delivered : Builder[b] = i})
                   <= sent[i] + Cardinality({c \in Calls : /\ job[c] = "counting"
                                                           /\ bidTrace[c] \in Blocks
                                                           /\ Builder[bidTrace[c]] = i})

\* "Reject new submissions once the payload for this slot was delivered": while
\* Redis answers, no submission for a slot passes the check of handleSubmitNewBlock
\* after the goroutine of a getPayload has recorded the slot.
DeliveredSlotsStayClosed == faults = 0 => reopened = {}

\* "wait for any active getPayload call to finish": the calls that StopServer
\* cuts off all began after the last one it waited for had ended.
StopWaitsForCalls == cut \subseteq late

\* A payload that was given to a proposer is recorded and published, if no call
\* fails and the process lives long enough.
DeliveriesAreRecorded ==
    \A c \in Calls :
        pc[c] = "answered" ~> \/ blockOf[c] \in delivered /\ blockOf[c] \in published
                              \/ faults > 0 \/ c \in lost
=============================================================================
