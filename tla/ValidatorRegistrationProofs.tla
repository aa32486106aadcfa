--------------------- MODULE ValidatorRegistrationProofs ---------------------
(***************************************************************************)
(* For any requests, any number of processors and any failures and         *)
(* restarts: ValidatorRegistration is type correct, saves only what known  *)
(* validators signed, and has a timestamp in Redis only for validators     *)
(* that are in the table.                                                  *)
(***************************************************************************)
EXTENDS ValidatorRegistration, TLAPS

\* What a registration on its way to the table is known to be.
OnTheWay ==
    /\ \A h \in Handlers :
           pc[h] = "verifying" => Current(h).validator \in Known /\ Current(h).kind # "refused"
    /\ \A k \in 1..Len(validatorRegC) :
           LET r == validatorRegC[k] IN Signed(r.validator, r.timestamp, r.prefs)
    /\ \A p \in Processors :
           at[p] = "inserting" =>
               Signed(saving[p].validator, saving[p].timestamp, saving[p].prefs)

\* A worker that goes on to Redis saves a validator that is in the table, and
\* so does one whose SELECT found a row.
InTable ==
    /\ \A w \in Workers :
           /\ at[w] \in {"inserting", "reading", "writing"} => saving[w] \in Task
           /\ at[w] \in {"reading", "writing"} => rows[saving[w].validator] # {}
           /\ at[w] = "inserting" /\ seen[w] # NoRow => rows[saving[w].validator] # {}
    /\ at[Housekeeper] # "inserting"
    /\ \A t \in todo : rows[t.validator] # {}

IndInv == TypeOK /\ OnTheWay /\ InTable /\ OnlySignedAreSaved /\ FilteredAreRegistered

\* Nothing is on its way in the initial state, and Redis has no timestamp.
LEMMA InitHolds == Init => IndInv
  <1> SUFFICES ASSUME Init PROVE IndInv
    OBVIOUS
  <1> USE RegistrationAssumption, BoundsAssumption
  <1>1. TypeOK
    BY DEF Init, TypeOK, Workers, NoTask, NoRow, Row
  <1>2. OnTheWay /\ InTable /\ OnlySignedAreSaved /\ FilteredAreRegistered
    BY DEF Init, OnTheWay, InTable, OnlySignedAreSaved, FilteredAreRegistered, Workers
  <1> QED BY <1>1, <1>2 DEF IndInv

-----------------------------------------------------------------------------
(* The handler *)

\* The next registration of a request exists.
LEMMA NextIsInRange ==
    ASSUME TypeOK, NEW h \in Handlers, NextRegistration(h) \/ StopByError(h)
    PROVE  /\ pc' \in [Handlers -> {"idle", "checking", "verifying"}]
           /\ index' \in [Handlers -> Nat]
           /\ \A g \in Handlers :
                  index'[g] \in IF pc'[g] = "idle" THEN {0} ELSE 1..Len(Request[g])
           /\ pc'[h] # "verifying"
           /\ \A g \in Handlers \ {h} : pc'[g] = pc[g] /\ index'[g] = index[g]
  <1>1. Len(Request[h]) \in Nat
    BY RegistrationAssumption
  <1>2. index[h] \in Nat
    BY <1>1 DEF TypeOK
  <1>3. CASE NextRegistration(h) /\ index[h] < Len(Request[h])
    <2>1. /\ pc' = [pc EXCEPT ![h] = "checking"]
          /\ index' = [index EXCEPT ![h] = index[h] + 1]
      BY <1>3 DEF NextRegistration
    <2>2. index'[h] \in 1..Len(Request[h])
      BY <1>1, <1>2, <1>3, <2>1 DEF TypeOK
    <2> QED BY <2>1, <2>2 DEF TypeOK
  <1>4. CASE StopByError(h) \/ (NextRegistration(h) /\ ~(index[h] < Len(Request[h])))
    <2>1. pc' = [pc EXCEPT ![h] = "idle"] /\ index' = [index EXCEPT ![h] = 0]
      BY <1>4 DEF NextRegistration, StopByError
    <2> QED BY <2>1 DEF TypeOK
  <1> QED BY <1>3, <1>4

\* What the handler does not touch: the workers, Redis and the table.
LEMMA HandlerKeepsTable ==
    ASSUME IndInv, UNCHANGED <<stamp, rows, workers>>
    PROVE  InTable' /\ OnlySignedAreSaved' /\ FilteredAreRegistered'
  BY DEF IndInv, InTable, OnlySignedAreSaved, FilteredAreRegistered, workers

\* A send that gives up when the channel is full keeps to its capacity.
LEMMA OfferedIsBounded ==
    ASSUME NEW S, NEW c \in Seq(S), Len(c) <= QueueSize, NEW x \in S
    PROVE  Offered(c, x) \in Seq(S) /\ Len(Offered(c, x)) <= QueueSize
  BY BoundsAssumption DEF Offered

\* The registration a handler is at.
LEMMA CurrentIsRegistration ==
    ASSUME TypeOK, NEW h \in Handlers, pc[h] # "idle"
    PROVE  Current(h) \in Registration /\ index[h] \in 1..Len(Request[h])
  <1>1. Request[h] \in Seq(Registration) /\ index[h] \in 1..Len(Request[h])
    BY RegistrationAssumption DEF TypeOK
  <1> QED BY <1>1 DEF Current

\* A request arrives.
LEMMA RegisterValidatorKeeps ==
    ASSUME IndInv, NEW h \in Handlers, RegisterValidator(h)
    PROVE  IndInv'
  <1>1. /\ TypeOK /\ NextRegistration(h)
        /\ UNCHANGED <<activeC, validatorRegC, active, stamp, rows, workers, faults>>
    BY DEF IndInv, RegisterValidator, channels
  <1>2. TypeOK'
    BY <1>1, NextIsInRange DEF TypeOK, workers
  <1>3. OnTheWay'
    BY <1>1, NextIsInRange DEF IndInv, OnTheWay, workers, Current
  <1> QED BY <1>1, <1>2, <1>3, HandlerKeepsTable DEF IndInv

\* Only known validators pass the checks of the handler.
LEMMA CheckRegistrationKeeps ==
    ASSUME IndInv, NEW h \in Handlers, CheckRegistration(h)
    PROVE  IndInv'
  <1>1. /\ TypeOK /\ pc[h] = "checking"
        /\ UNCHANGED <<validatorRegC, active, stamp, rows, workers>>
    BY DEF IndInv, CheckRegistration
  <1>2. Current(h) \in Registration
    BY <1>1, CurrentIsRegistration
  <1>3. Current(h).validator \in Validators
    BY <1>2 DEF Registration
  <1>4. activeC' \in Seq(Validators) /\ Len(activeC') <= QueueSize /\ faults' \in Nat
    <2>1. activeC' = activeC \/ activeC' = Offered(activeC, Current(h).validator)
      BY DEF CheckRegistration
    <2>2. faults' = faults \/ faults' = faults + 1
      BY DEF CheckRegistration, Fault
    <2> QED BY <1>1, <1>3, <2>1, <2>2, OfferedIsBounded DEF TypeOK
  <1>5. CASE NextRegistration(h) \/ StopByError(h)
    <2>1. TypeOK'
      BY <1>1, <1>4, <1>5, NextIsInRange DEF TypeOK, workers
    <2>2. OnTheWay'
      BY <1>1, <1>5, NextIsInRange DEF IndInv, OnTheWay, workers, Current
    <2> QED BY <1>1, <2>1, <2>2, HandlerKeepsTable DEF IndInv
  <1>6. CASE /\ Current(h).validator \in Known /\ Current(h).kind # "refused"
             /\ pc' = [pc EXCEPT ![h] = "verifying"] /\ UNCHANGED index
    <2>1. TypeOK'
      BY <1>1, <1>4, <1>6 DEF TypeOK, workers
    <2>2. OnTheWay'
      BY <1>1, <1>6 DEF IndInv, OnTheWay, workers, Current, TypeOK
    <2> QED BY <1>1, <2>1, <2>2, HandlerKeepsTable DEF IndInv
  <1> QED BY <1>5, <1>6 DEF CheckRegistration

\* Only what is signed gets into validatorRegC.
LEMMA EnqueueKeeps ==
    ASSUME IndInv, NEW h \in Handlers, Enqueue(h)
    PROVE  IndInv'
  <1>1. /\ TypeOK /\ pc[h] = "verifying"
        /\ UNCHANGED <<activeC, active, stamp, rows, workers, faults>>
    BY DEF IndInv, Enqueue
  <1>2. NextRegistration(h) \/ StopByError(h)
    BY DEF Enqueue
  <1>3. Current(h) \in Registration /\ index[h] \in 1..Len(Request[h])
    BY <1>1, CurrentIsRegistration
  <1>4. \/ UNCHANGED validatorRegC
        \/ /\ Current(h).kind = "good"
           /\ validatorRegC' = Offered(validatorRegC, Current(h))
    <2>1. Current(h).kind \in {"good", "undecodable", "unsigned"}
      BY <1>1, <1>3 DEF IndInv, OnTheWay, Registration, Kinds
    <2> QED BY <2>1 DEF Enqueue
  <1>5. \A k \in 1..Len(validatorRegC') :
           Signed(validatorRegC'[k].validator, validatorRegC'[k].timestamp, validatorRegC'[k].prefs)
    <2>1. CASE UNCHANGED validatorRegC
      BY <2>1 DEF IndInv, OnTheWay
    <2>2. CASE /\ Current(h).kind = "good"
               /\ validatorRegC' = Offered(validatorRegC, Current(h))
      <3>1. Signed(Current(h).validator, Current(h).timestamp, Current(h).prefs)
        BY <1>1, <1>3, <2>2 DEF IndInv, OnTheWay, Signed, Current, Registration
      <3>2. \A k \in 1..Len(validatorRegC') :
               \/ validatorRegC'[k] = Current(h)
               \/ k \in 1..Len(validatorRegC) /\ validatorRegC'[k] = validatorRegC[k]
        <4>1. validatorRegC \in Seq(Registration) /\ Len(validatorRegC) <= QueueSize
          BY <1>1 DEF TypeOK
        <4>2. \A k \in 1..Len(Offered(validatorRegC, Current(h))) :
                 \/ Offered(validatorRegC, Current(h))[k] = Current(h)
                 \/ /\ k \in 1..Len(validatorRegC)
                    /\ Offered(validatorRegC, Current(h))[k] = validatorRegC[k]
          BY <1>3, <4>1, BoundsAssumption DEF Offered
        <4> QED BY <2>2, <4>2
      <3>3. \A k \in 1..Len(validatorRegC) :
               Signed(validatorRegC[k].validator, validatorRegC[k].timestamp, validatorRegC[k].prefs)
        BY DEF IndInv, OnTheWay
      <3> QED BY <3>1, <3>2, <3>3
    <2> QED BY <1>4, <2>1, <2>2
  <1>6. validatorRegC' \in Seq(Registration) /\ Len(validatorRegC') <= QueueSize
    BY <1>1, <1>3, <1>4, OfferedIsBounded DEF TypeOK
  <1>7. TypeOK'
    BY <1>1, <1>2, <1>6, NextIsInRange DEF TypeOK, workers
  <1>8. OnTheWay'
    BY <1>1, <1>2, <1>5, NextIsInRange DEF IndInv, OnTheWay, workers, Current
  <1> QED BY <1>1, <1>7, <1>8, HandlerKeepsTable DEF IndInv

-----------------------------------------------------------------------------
(* The processors and the housekeeper *)

\* The active validators are apart from the registrations.
LEMMA ProcessActiveValidatorKeeps ==
    ASSUME IndInv, ProcessActiveValidator
    PROVE  IndInv'
  <1>1. /\ TypeOK /\ activeC # <<>> /\ activeC' = Tail(activeC)
        /\ UNCHANGED <<handlers, validatorRegC, stamp, rows, workers>>
    BY DEF IndInv, ProcessActiveValidator
  <1>2. activeC' \in Seq(Validators) /\ Len(activeC') <= QueueSize /\ Head(activeC) \in Validators
    BY <1>1, BoundsAssumption DEF TypeOK
  <1>3. active' \subseteq Validators /\ faults' \in Nat
    BY <1>1, <1>2 DEF TypeOK, ProcessActiveValidator, Fault
  <1>4. TypeOK'
    BY <1>1, <1>2, <1>3 DEF TypeOK, handlers, workers
  <1>5. OnTheWay'
    BY <1>1 DEF IndInv, OnTheWay, handlers, workers, Current
  <1> QED BY <1>1, <1>4, <1>5, HandlerKeepsTable DEF IndInv

\* Finished leaves nothing to be shown about the worker.
LEMMA FinishedIsIdle ==
    ASSUME TypeOK, NEW w \in Workers, Finished(w)
    PROVE  /\ at' \in [Workers -> {"starting", "idle", "inserting", "reading", "writing"}]
           /\ saving' \in [Workers -> Task \cup {NoTask}]
           /\ seen' \in [Workers -> Row \cup {NoRow}]
           /\ at'[w] = "idle"
           /\ \A u \in Workers \ {w} :
                  at'[u] = at[u] /\ saving'[u] = saving[u] /\ seen'[u] = seen[u]
  BY DEF TypeOK, Finished

\* What a processor takes from the channel is signed; its SELECT finds a row
\* only of a validator that is in the table.
LEMMA TakeRegistrationKeeps ==
    ASSUME IndInv, NEW p \in Processors, TakeRegistration(p)
    PROVE  IndInv'
  <1> DEFINE r == Head(validatorRegC)
  <1>1. /\ TypeOK /\ p \in Workers /\ p # Housekeeper
        /\ at[p] = "idle" /\ validatorRegC # <<>>
        /\ validatorRegC' = Tail(validatorRegC)
        /\ saving' = [saving EXCEPT ![p] = [validator |-> r.validator,
                          timestamp |-> r.timestamp, prefs |-> r.prefs]]
        /\ at' = [at EXCEPT ![p] = "inserting"]
        /\ UNCHANGED <<pc, index, activeC, active, stamp, rows, todo, faults>>
    BY RegistrationAssumption DEF IndInv, TakeRegistration, Goto, handlers, Workers
  <1>2. PICK row \in IF rows[r.validator] = {} THEN {NoRow} ELSE Latest(r.validator) :
               seen' = [seen EXCEPT ![p] = row]
    BY DEF TakeRegistration
  <1>3. r \in Registration /\ r = validatorRegC[1] /\ Len(validatorRegC) \in Nat \ {0}
    BY <1>1 DEF TypeOK
  <1>4. /\ validatorRegC' \in Seq(Registration) /\ Len(validatorRegC') = Len(validatorRegC) - 1
        /\ \A k \in 1..Len(validatorRegC') :
               k + 1 \in 1..Len(validatorRegC) /\ validatorRegC'[k] = validatorRegC[k + 1]
    BY <1>1, <1>3 DEF TypeOK
  <1>5. row \in Row \cup {NoRow} /\ (row # NoRow => rows[r.validator] # {})
    BY <1>1, <1>2, <1>3 DEF TypeOK, Latest, Registration
  <1>6. saving'[p] \in Task /\ saving'[p].validator = r.validator
        /\ saving'[p].timestamp = r.timestamp /\ saving'[p].prefs = r.prefs
    BY <1>1, <1>3 DEF TypeOK, Registration, Task
  <1>7. TypeOK'
    <2>1. saving' \in [Workers -> Task \cup {NoTask}]
      BY <1>1, <1>6 DEF TypeOK
    <2>2. seen' \in [Workers -> Row \cup {NoRow}]
      BY <1>1, <1>2, <1>5 DEF TypeOK
    <2>3. Len(validatorRegC') <= QueueSize
      BY <1>1, <1>3, <1>4, BoundsAssumption DEF TypeOK
    <2> QED BY <1>1, <1>4, <2>1, <2>2, <2>3 DEF TypeOK
  <1>8. OnTheWay'
    <2>1. Signed(r.validator, r.timestamp, r.prefs)
      BY <1>3 DEF IndInv, OnTheWay
    <2>2. \A k \in 1..Len(validatorRegC') :
             Signed(validatorRegC'[k].validator, validatorRegC'[k].timestamp, validatorRegC'[k].prefs)
      BY <1>4 DEF IndInv, OnTheWay
    <2>3. \A q \in Processors : at'[q] = "inserting" =>
               Signed(saving'[q].validator, saving'[q].timestamp, saving'[q].prefs)
      BY <1>1, <1>6, <2>1 DEF IndInv, OnTheWay, TypeOK, Workers
    <2>4. \A h \in Handlers :
             pc'[h] = "verifying" => Current(h)'.validator \in Known /\ Current(h)'.kind # "refused"
      BY <1>1 DEF IndInv, OnTheWay, Current
    <2> QED BY <2>2, <2>3, <2>4 DEF OnTheWay
  <1>9. InTable'
    <2>1. /\ at'[p] = "inserting" /\ saving'[p] \in Task
          /\ seen'[p] # NoRow => rows'[saving'[p].validator] # {}
      BY <1>1, <1>2, <1>5, <1>6 DEF TypeOK
    <2>2. \A w \in Workers \ {p} : at'[w] = at[w] /\ saving'[w] = saving[w] /\ seen'[w] = seen[w]
      BY <1>1, <1>2 DEF TypeOK
    <2>3. at'[Housekeeper] = at[Housekeeper]
      BY <1>1, <2>2 DEF Workers
    <2> QED BY <1>1, <2>1, <2>2, <2>3 DEF IndInv, InTable
  <1>10. OnlySignedAreSaved' /\ FilteredAreRegistered'
    BY <1>1 DEF IndInv, OnlySignedAreSaved, FilteredAreRegistered
  <1> QED BY <1>7, <1>8, <1>9, <1>10 DEF IndInv

\* The processor goes on to Redis only when the validator is in the table: it
\* inserted a row, or the statement found one that made it old news.
LEMMA InsertRegistrationKeeps ==
    ASSUME IndInv, NEW p \in Processors, InsertRegistration(p)
    PROVE  IndInv'
  <1> DEFINE v == saving[p].validator
             row == [timestamp |-> saving[p].timestamp, prefs |-> saving[p].prefs]
  <1>1. /\ TypeOK /\ p \in Workers /\ p # Housekeeper /\ at[p] = "inserting"
        /\ UNCHANGED <<pc, index, activeC, validatorRegC, active, stamp, todo>>
    BY RegistrationAssumption DEF IndInv, InsertRegistration, handlers, channels, Workers
  <1>2. /\ saving[p] \in Task /\ Signed(v, saving[p].timestamp, saving[p].prefs)
        /\ seen[p] # NoRow => rows[v] # {}
    BY <1>1 DEF IndInv, InTable, OnTheWay
  <1>3. v \in Validators /\ row \in Row
    <2>1. saving[p].prefs \in Nat \ {0}
      BY <1>2, RegistrationAssumption DEF Signed, Registration
    <2> QED BY <1>2, <2>1 DEF Task, Row
  <1>4. \/ UNCHANGED rows
        \/ IsNews(p) /\ rows' = [rows EXCEPT ![v] = @ \cup {row}]
    BY DEF InsertRegistration
  <1>5. \/ Finished(p)
        \/ /\ Goto(p, "reading") /\ UNCHANGED <<saving, seen>>
           /\ rows' = IF IsNews(p) THEN [rows EXCEPT ![v] = @ \cup {row}] ELSE rows
    BY DEF InsertRegistration
  <1>6. /\ rows' \in [Validators -> SUBSET Row]
        /\ \A u \in Validators : rows[u] \subseteq rows'[u]
        /\ \A u \in Validators : \A q \in rows'[u] : q \in rows[u] \/ (u = v /\ q = row)
    <2>1. CASE UNCHANGED rows
      BY <1>1, <2>1 DEF TypeOK
    <2>2. CASE rows' = [rows EXCEPT ![v] = @ \cup {row}]
      <3> HIDE DEF v, row
      <3> QED BY <1>1, <1>3, <2>2 DEF TypeOK
    <2> QED BY <1>4, <2>1, <2>2
  <1>7. faults' \in Nat
    BY <1>1 DEF InsertRegistration, Fault, TypeOK
  <1>8. /\ at' \in [Workers -> {"starting", "idle", "inserting", "reading", "writing"}]
        /\ saving' \in [Workers -> Task \cup {NoTask}]
        /\ seen' \in [Workers -> Row \cup {NoRow}]
        /\ at'[p] \in {"idle", "reading"}
        /\ \A u \in Workers \ {p} :
               at'[u] = at[u] /\ saving'[u] = saving[u] /\ seen'[u] = seen[u]
    <2>1. CASE Finished(p)
      BY <1>1, <2>1, FinishedIsIdle
    <2>2. CASE Goto(p, "reading") /\ UNCHANGED <<saving, seen>>
      BY <1>1, <2>2 DEF Goto, TypeOK
    <2> QED BY <1>5, <2>1, <2>2
  <1>9. at'[p] = "reading" => saving'[p] = saving[p] /\ rows'[v] # {}
    <2>1. CASE Finished(p)
      BY <1>1, <2>1, FinishedIsIdle
    <2>2. CASE /\ Goto(p, "reading") /\ UNCHANGED <<saving, seen>>
               /\ rows' = IF IsNews(p) THEN [rows EXCEPT ![v] = @ \cup {row}] ELSE rows
      <3>1. CASE IsNews(p)
        BY <1>1, <1>3, <2>2, <3>1 DEF TypeOK
      <3>2. CASE ~IsNews(p)
        <4>1. seen[p] # NoRow
          BY <1>2, <1>3, <3>2 DEF IsNews, NoRow, Row
        <4> QED BY <1>2, <2>2, <3>2, <4>1
      <3> QED BY <3>1, <3>2
    <2> QED BY <1>5, <2>1, <2>2
  <1>10. TypeOK'
    BY <1>1, <1>6, <1>7, <1>8 DEF TypeOK
  <1>11. OnTheWay'
    <2>1. \A q \in Processors : at'[q] = "inserting" => q # p /\ at[q] = "inserting"
                                                      /\ saving'[q] = saving[q]
      BY <1>8 DEF Workers
    <2> QED BY <1>1, <2>1 DEF IndInv, OnTheWay, Current
  <1>12. InTable'
    <2>1. \A w \in Workers \ {p} :
             at'[w] = at[w] /\ saving'[w] = saving[w] /\ seen'[w] = seen[w]
      BY <1>8
    <2>2. \A w \in Workers : saving[w] \in Task => saving[w].validator \in Validators
      BY DEF Task
    <2>3. \A t \in todo' : rows'[t.validator] # {}
      <3>1. \A t \in todo : t.validator \in Validators /\ rows[t.validator] # {}
        BY <1>1 DEF IndInv, InTable, TypeOK, Task
      <3> QED BY <1>1, <1>6, <3>1
    <2>4. at'[Housekeeper] # "inserting"
      BY <1>1, <2>1 DEF IndInv, InTable, Workers
    <2>5. \A w \in Workers \ {p} :
             /\ at'[w] \in {"inserting", "reading", "writing"} => saving'[w] \in Task
             /\ at'[w] \in {"reading", "writing"} => rows'[saving'[w].validator] # {}
             /\ at'[w] = "inserting" /\ seen'[w] # NoRow => rows'[saving'[w].validator] # {}
      BY <1>6, <2>1, <2>2 DEF IndInv, InTable
    <2>6. /\ at'[p] \in {"inserting", "reading", "writing"} => saving'[p] \in Task
          /\ at'[p] \in {"reading", "writing"} => rows'[saving'[p].validator] # {}
          /\ at'[p] # "inserting"
      BY <1>2, <1>8, <1>9
    <2> QED BY <2>3, <2>4, <2>5, <2>6 DEF InTable
  <1>13. OnlySignedAreSaved'
    BY <1>2, <1>6 DEF IndInv, OnlySignedAreSaved
  <1>14. FilteredAreRegistered'
    BY <1>1, <1>6 DEF IndInv, FilteredAreRegistered
  <1> QED BY <1>10, <1>11, <1>12, <1>13, <1>14 DEF IndInv

\* What the workers' steps in Redis leave alone: the table, the channels and
\* the handlers.
LEMMA RedisKeepsOnTheWay ==
    ASSUME IndInv, UNCHANGED <<pc, index, validatorRegC, rows>>,
           \A q \in Processors :
               at'[q] = "inserting" => at[q] = "inserting" /\ saving'[q] = saving[q]
    PROVE  OnTheWay' /\ OnlySignedAreSaved'
  BY DEF IndInv, OnTheWay, OnlySignedAreSaved, Current

\* Reading the timestamp changes only the worker.
LEMMA ReadTimestampKeeps ==
    ASSUME IndInv, NEW w \in Workers, ReadTimestamp(w)
    PROVE  IndInv'
  <1>1. /\ TypeOK /\ at[w] = "reading"
        /\ UNCHANGED <<pc, index, activeC, validatorRegC, active, stamp, rows, todo>>
    BY DEF IndInv, ReadTimestamp, handlers, channels
  <1>2. Finished(w) \/ (Goto(w, "writing") /\ UNCHANGED <<saving, seen>>)
    BY DEF ReadTimestamp
  <1>3. faults' \in Nat
    BY <1>1 DEF ReadTimestamp, Fault, TypeOK
  <1>4. /\ at' \in [Workers -> {"starting", "idle", "inserting", "reading", "writing"}]
        /\ saving' \in [Workers -> Task \cup {NoTask}]
        /\ seen' \in [Workers -> Row \cup {NoRow}]
        /\ at'[w] = "idle" \/ (at'[w] = "writing" /\ saving'[w] = saving[w])
        /\ \A u \in Workers \ {w} :
               at'[u] = at[u] /\ saving'[u] = saving[u] /\ seen'[u] = seen[u]
    <2>1. CASE Finished(w)
      BY <1>1, <2>1, FinishedIsIdle
    <2>2. CASE Goto(w, "writing") /\ UNCHANGED <<saving, seen>>
      BY <1>1, <2>2 DEF Goto, TypeOK
    <2> QED BY <1>2, <2>1, <2>2
  <1>5. TypeOK'
    BY <1>1, <1>3, <1>4 DEF TypeOK
  <1>6. OnTheWay' /\ OnlySignedAreSaved'
    BY <1>1, <1>4, RedisKeepsOnTheWay DEF Workers
  <1>7. InTable'
    BY <1>1, <1>4 DEF IndInv, InTable, Workers
  <1>8. FilteredAreRegistered'
    BY <1>1 DEF IndInv, FilteredAreRegistered
  <1> QED BY <1>5, <1>6, <1>7, <1>8 DEF IndInv

\* The step FilteredAreRegistered is about: the timestamp that is written
\* belongs to a validator that is in the table.
LEMMA SetTimestampKeeps ==
    ASSUME IndInv, NEW w \in Workers, SetTimestamp(w)
    PROVE  IndInv'
  <1>1. /\ TypeOK /\ at[w] = "writing" /\ Finished(w)
        /\ UNCHANGED <<pc, index, activeC, validatorRegC, active, rows, todo>>
    BY DEF IndInv, SetTimestamp, handlers, channels
  <1>2. saving[w] \in Task /\ rows[saving[w].validator] # {}
    BY <1>1 DEF IndInv, InTable
  <1>3. saving[w].validator \in Validators /\ saving[w].timestamp \in Nat
    BY <1>2 DEF Task
  <1>4. \/ UNCHANGED stamp
        \/ stamp' = [stamp EXCEPT ![saving[w].validator] = saving[w].timestamp]
    BY DEF SetTimestamp
  <1>5. stamp' \in [Validators -> Nat] /\ faults' \in Nat
    <2>1. stamp' \in [Validators -> Nat]
      BY <1>1, <1>3, <1>4 DEF TypeOK
    <2>2. faults' \in Nat
      BY <1>1 DEF SetTimestamp, Fault, TypeOK
    <2> QED BY <2>1, <2>2
  <1>6. TypeOK'
    BY <1>1, <1>5, FinishedIsIdle DEF TypeOK
  <1>7. OnTheWay' /\ OnlySignedAreSaved'
    BY <1>1, FinishedIsIdle, RedisKeepsOnTheWay DEF Workers
  <1>8. InTable'
    <2>1. at'[w] = "idle" /\ \A u \in Workers \ {w} :
               at'[u] = at[u] /\ saving'[u] = saving[u] /\ seen'[u] = seen[u]
      BY <1>1, FinishedIsIdle
    <2> QED BY <1>1, <2>1 DEF IndInv, InTable, Workers
  <1>9. FilteredAreRegistered'
    BY <1>1, <1>2, <1>3, <1>4 DEF IndInv, FilteredAreRegistered, TypeOK
  <1> QED BY <1>6, <1>7, <1>8, <1>9 DEF IndInv

\* The housekeeper copies timestamps of validators that are in the table.
LEMMA ReadLatestRegistrationsKeeps ==
    ASSUME IndInv, ReadLatestRegistrations
    PROVE  IndInv'
  <1>1. /\ TypeOK /\ Housekeeper \in Workers /\ Housekeeper \notin Processors
        /\ at' = [at EXCEPT ![Housekeeper] = "idle"]
        /\ UNCHANGED <<pc, index, activeC, validatorRegC, active, stamp, rows, saving, seen>>
    BY RegistrationAssumption DEF IndInv, ReadLatestRegistrations, Goto, handlers, channels, Workers
  <1>2. faults' \in Nat
    BY <1>1 DEF ReadLatestRegistrations, Fault, TypeOK
  <1>3. \A t \in todo' : t \in Task /\ rows[t.validator] # {}
    <2>1. CASE UNCHANGED todo
      BY <1>1, <2>1 DEF IndInv, InTable, TypeOK
    <2>2. CASE todo' = UNION {{[validator |-> v, timestamp |-> r.timestamp, prefs |-> 0] :
                                  r \in Latest(v)} : v \in Validators}
      <3>1. SUFFICES ASSUME NEW t \in todo' PROVE t \in Task /\ rows[t.validator] # {}
        OBVIOUS
      <3>2. PICK v \in Validators : \E r \in Latest(v) :
                    t = [validator |-> v, timestamp |-> r.timestamp, prefs |-> 0]
        BY <2>2
      <3>3. PICK r \in Latest(v) : t = [validator |-> v, timestamp |-> r.timestamp, prefs |-> 0]
        BY <3>2
      <3>4. r \in rows[v] /\ r \in Row
        BY <1>1 DEF Latest, TypeOK
      <3>5. r.timestamp \in Nat \ {0}
        BY <3>4 DEF Row
      <3> QED BY <3>3, <3>4, <3>5 DEF Task
    <2> QED BY <2>1, <2>2 DEF ReadLatestRegistrations
  <1>4. TypeOK'
    BY <1>1, <1>2, <1>3 DEF TypeOK
  <1>5. OnTheWay' /\ OnlySignedAreSaved'
    BY <1>1, RedisKeepsOnTheWay DEF TypeOK, Workers
  <1>6. InTable'
    BY <1>1, <1>3 DEF IndInv, InTable, TypeOK
  <1>7. FilteredAreRegistered'
    BY <1>1 DEF IndInv, FilteredAreRegistered
  <1> QED BY <1>4, <1>5, <1>6, <1>7 DEF IndInv

\* One turn of the housekeeper's loop.
LEMMA TakeLatestKeeps ==
    ASSUME IndInv, TakeLatest
    PROVE  IndInv'
  <1>1. /\ TypeOK /\ Housekeeper \in Workers /\ Housekeeper \notin Processors
        /\ at' = [at EXCEPT ![Housekeeper] = "reading"]
        /\ UNCHANGED <<pc, index, activeC, validatorRegC, active, stamp, rows, seen, faults>>
    BY RegistrationAssumption DEF IndInv, TakeLatest, Goto, handlers, channels, Workers
  <1>2. PICK t \in todo : saving' = [saving EXCEPT ![Housekeeper] = t] /\ todo' = todo \ {t}
    BY DEF TakeLatest
  <1>3. t \in Task /\ rows[t.validator] # {}
    BY <1>1, <1>2 DEF IndInv, InTable, TypeOK
  <1>4. /\ at'[Housekeeper] = "reading" /\ saving'[Housekeeper] = t
        /\ \A u \in Workers \ {Housekeeper} : at'[u] = at[u] /\ saving'[u] = saving[u]
    BY <1>1, <1>2 DEF TypeOK
  <1>5. TypeOK'
    BY <1>1, <1>2, <1>3 DEF TypeOK
  <1>6. OnTheWay' /\ OnlySignedAreSaved'
    BY <1>1, <1>4, RedisKeepsOnTheWay DEF Workers
  <1>7. InTable'
    BY <1>1, <1>2, <1>3, <1>4 DEF IndInv, InTable
  <1>8. FilteredAreRegistered'
    BY <1>1 DEF IndInv, FilteredAreRegistered
  <1> QED BY <1>5, <1>6, <1>7, <1>8 DEF IndInv

\* A restart loses what is on its way and nothing that was saved.
LEMMA RestartKeeps ==
    ASSUME IndInv, Restart
    PROVE  IndInv'
  <1>1. /\ TypeOK /\ Housekeeper \in Workers /\ Housekeeper \notin Processors
        /\ pc' = [h \in Handlers |-> "idle"] /\ index' = [h \in Handlers |-> 0]
        /\ activeC' = <<>> /\ validatorRegC' = <<>>
        /\ at' = [w \in Workers |-> IF w = Housekeeper THEN at[w] ELSE "idle"]
        /\ saving' = [w \in Workers |-> IF w = Housekeeper THEN saving[w] ELSE NoTask]
        /\ seen' = [w \in Workers |-> NoRow]
        /\ UNCHANGED <<active, stamp, rows, todo>>
    BY RegistrationAssumption DEF IndInv, Restart, Workers
  <1>2. faults' \in Nat
    BY <1>1 DEF Restart, Fault, TypeOK
  <1>3. TypeOK'
    BY <1>1, <1>2, BoundsAssumption DEF TypeOK
  <1>4. OnTheWay'
    BY <1>1 DEF OnTheWay, Workers
  <1>5. InTable'
    BY <1>1 DEF IndInv, InTable
  <1>6. OnlySignedAreSaved' /\ FilteredAreRegistered'
    BY <1>1 DEF IndInv, OnlySignedAreSaved, FilteredAreRegistered
  <1> QED BY <1>3, <1>4, <1>5, <1>6 DEF IndInv

\* A stuttering step.
LEMMA StutteringKeeps == ASSUME IndInv, UNCHANGED vars PROVE IndInv'
  <1>1. TypeOK' /\ OnTheWay'
    BY DEF IndInv, TypeOK, OnTheWay, Current, vars, handlers, channels, workers
  <1> QED BY <1>1, HandlerKeepsTable DEF IndInv, vars

-----------------------------------------------------------------------------
\* Every step of the relay and of the housekeeper keeps the invariant.
THEOREM Invariance == Spec => []IndInv
  <1>1. Init => IndInv
    BY InitHolds
  <1>2. IndInv /\ [Next]_vars => IndInv'
    <2> SUFFICES ASSUME IndInv, [Next]_vars PROVE IndInv'
      OBVIOUS
    <2>1. ASSUME NEW h \in Handlers, RegisterValidator(h) \/ HandleRegisterValidator(h)
          PROVE  IndInv'
      BY <2>1, RegisterValidatorKeeps, CheckRegistrationKeeps, EnqueueKeeps
         DEF HandleRegisterValidator
    <2>2. CASE ProcessActiveValidator
      BY <2>2, ProcessActiveValidatorKeeps
    <2>3. ASSUME NEW p \in Processors, DBProcessor(p)
          PROVE  IndInv'
      <3>1. p \in Workers
        BY DEF Workers
      <3> QED BY <2>3, <3>1, TakeRegistrationKeeps, InsertRegistrationKeeps,
                 ReadTimestampKeeps, SetTimestampKeeps DEF DBProcessor
    <2>4. CASE UpdateValidatorRegistrationsInRedis
      <3>1. Housekeeper \in Workers
        BY DEF Workers
      <3> QED BY <2>4, <3>1, ReadLatestRegistrationsKeeps, TakeLatestKeeps,
                 ReadTimestampKeeps, SetTimestampKeeps DEF UpdateValidatorRegistrationsInRedis
    <2>5. CASE Restart
      BY <2>5, RestartKeeps
    <2>6. CASE UNCHANGED vars
      BY <2>6, StutteringKeeps
    <2> QED BY <2>1, <2>2, <2>3, <2>4, <2>5, <2>6 DEF Next
  <1> QED BY <1>1, <1>2, PTL DEF Spec

\* The state of the handlers, channels and processors is type correct; the
\* channels never hold more than their capacity.
THEOREM TypeCorrect == Spec => []TypeOK
  <1>1. IndInv => TypeOK
    BY DEF IndInv
  <1> QED BY <1>1, Invariance, PTL

\* Only registrations that a known validator signed are saved.
THEOREM OnlySignedSaved == Spec => []OnlySignedAreSaved
  <1>1. IndInv => OnlySignedAreSaved
    BY DEF IndInv
  <1> QED BY <1>1, Invariance, PTL

\* Redis has a timestamp only for validators that are in the table, so that
\* the handler never filters the registration of a validator the database does
\* not know.
THEOREM FilteredRegistered == Spec => []FilteredAreRegistered
  <1>1. IndInv => FilteredAreRegistered
    BY DEF IndInv
  <1> QED BY <1>1, Invariance, PTL
=============================================================================
