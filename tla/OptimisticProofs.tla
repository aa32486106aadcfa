-------------------------- MODULE OptimisticProofs --------------------------
(***************************************************************************)
(* For any builders, submissions, heads, operator calls and failures: the  *)
(* counter of the WaitGroup is exact, a rejected block costs every builder *)
(* of its collateral ID the optimistic status, a Wait that has returned    *)
(* has covered the demotions of the blocks that were in the group when it  *)
(* was called, those demotions end the optimistic treatment once they are  *)
(* in the cache, and a refund is missed only by a Wait called before Add.  *)
(*                                                                         *)
(* The argument has a layer for each of these, and each layer uses those   *)
(* before it: TypesOK and Counted (a block is in the group exactly from    *)
(* Add to Done), Demoted and Recorded (where the demotion of a rejected    *)
(* block is), Covered (what a Wait that is pending, or over, says about    *)
(* the blocks), Known (how a demotion gets from the table into the cache   *)
(* and to the handlers) and Refunded.                                      *)
(***************************************************************************)
EXTENDS Optimistic, Integers, FiniteSetTheorems, TLAPS

Builder(s) == Request[s].builder

-----------------------------------------------------------------------------
(* The invariants *)

\* the counter of the WaitGroup
Counted == optimisticBlocks = Cardinality(InGroup)

\* A handler that did not decide yet has no goroutine, and its block is not
\* delivered.
Early == {"idle", "entered", "checked"}
Undecided == \A s \in Submissions : pc[s] \in Early => task[s] = "none" /\ job[s] = "none"

\* goroutines whose wait is over
Past == {"released", "returned", "reading", "filling", "done"}

\* A block that was in the group when the Wait for head h was called is in the
\* group still, or has left it; it has left it once the Wait is over.
Covered ==
    \A h \in Slots : \A s \in covered[h] :
        /\ updater[h] = "waiting" => task[s] \in Active \cup {"done"}
        /\ updater[h] \in Past => task[s] = "done"

\* So it is with a delivered block and the Wait of its getPayload, unless its
\* goroutine had not called Add.
Looked ==
    \A s \in Submissions : s \notin overlooked =>
        /\ job[s] = "waiting" => task[s] # "spawned"
        /\ job[s] \in Past => task[s] \in {"none", "done"}

\* The goroutine of a delivered block that was demoted records the refund.
Refunded ==
    faults = 0 =>
        \A s \in Submissions :
            job[s] = "done" /\ s \in demotions => s \in refunds \cup overlooked

\* The ID that demoteBuilder has read is still that of its builder.
IDKept ==
    \A s \in Submissions :
        task[s] = "updating" /\ Builder(s) \notin spared
            => newStatus[s].id \in {NoID, db[Builder(s)].id}

\* Where the demotion of a rejected block is: still with its goroutine, or in
\* the table.
RowDemoted ==
    faults = 0 =>
        \A s \in rejected :
            \/ task[s] \in {"demoting", "reading", "updating"}
            \/ Builder(s) \in spared
            \/ db[Builder(s)].demoted

Demoted == IDKept /\ RowDemoted

Recorded ==
    faults = 0 =>
        \A s \in rejected :
            \/ task[s] \in {"demoting", "reading", "updating", "inserting"}
            \/ s \in demotions

\* the builders that share the collateral of the builder of s
Sharers(s) == SameCollateral(Builder(s), db[Builder(s)].id)

SharersDemoted ==
    faults = 0 /\ ops = 0 =>
        \A s \in Submissions :
            /\ task[s] = "updating" => newStatus[s].id = db[Builder(s)].id
            /\ task[s] = "inserting" => \A b \in Sharers(s) : db[b].demoted
            /\ s \in rejected =>
                   \/ task[s] \in {"demoting", "reading", "updating", "inserting"}
                   \/ s \in demotions /\ \A b \in Sharers(s) : db[b].demoted

\* the operator's calls that are under way are among those that were counted
CallsCounted == ops = 0 => calls = {}

\* How the demotion of a block gets to the handlers, when updateOptimisticSlot
\* waited for it: into the snapshot, the cache, and the entry of every handler
\* that looks at the cache then.
InSnapshot ==
    \A h \in Slots : updater[h] = "filling" =>
        \A s \in covered[h] \cap rejected :
            Builder(s) \in spared \/ snapshot[h][Builder(s)].demoted

InCache == \A b \in failuresRead : b \in spared \/ cache[b].demoted

InEntry ==
    \A t \in warned :
        pc[t] \in {"entered", "checked"} => Builder(t) \in spared \/ entry[t].demoted

Known ==
    faults = 0 =>
        /\ InSnapshot /\ InCache /\ InEntry
        /\ \A t \in warned : mode[t] = "optimistic" => Builder(t) \in spared

-----------------------------------------------------------------------------
(* Types *)

\* What TypeOK is about, in four parts, and without the counter.
TypesShared ==
    /\ load \in Loads
    /\ headSlot \in 0..MaxSlot /\ optimisticSlot \in 1..(MaxSlot + 1)
    /\ cache \in [Builders -> Entry]
    /\ updater \in [Slots -> Waiting \cup {"reading", "filling"}]
    /\ snapshot \in [Slots -> [Builders -> Entry]]
    /\ job \in [Submissions -> Waiting]
    /\ panicked \in BOOLEAN

TypesHandlers ==
    /\ pc \in [Submissions -> {"idle", "entered", "checked", "accepted", "returned"}]
    /\ entry \in [Submissions -> Entry]
    /\ mode \in [Submissions -> {"none", "optimistic", "simulated"}]
    /\ task \in [Submissions -> {"none", "spawned", "done"} \cup Active]

TypesTables ==
    /\ newStatus \in [Submissions -> [blacklisted : BOOLEAN, id : IDs]]
    /\ db \in [Builders -> Row]
    /\ demotions \subseteq Submissions /\ refunds \subseteq demotions
    /\ rejected \subseteq Submissions /\ spared \subseteq Builders
    /\ calls \subseteq [builder : Builders, id : IDs, demoted : BOOLEAN, blacklisted : BOOLEAN]
    /\ ops \in Nat /\ faults \in Nat

TypesHistory ==
    /\ covered \in [Slots -> SUBSET Submissions]
    /\ failuresRead \subseteq Builders
    /\ warned \subseteq Submissions /\ overlooked \subseteq Submissions

TypesOK == TypesShared /\ TypesHandlers /\ TypesTables /\ TypesHistory

LEMMA TypesSplit == TypeOK <=> TypesOK /\ optimisticBlocks \in Nat
  BY DEF TypeOK, TypesOK, TypesShared, TypesHandlers, TypesTables, TypesHistory

LEMMA RequestType ==
    ASSUME load \in Loads, NEW s \in Submissions
    PROVE  /\ Request[s].builder \in Builders /\ Request[s].slot \in Nat
           /\ Request[s].value \in Nat
           /\ MaxFaults \in Nat /\ MaxOps \in Nat /\ Heads \subseteq Slots
  BY LoadsAssumption DEF Request, MaxFaults, MaxOps, Heads

LEMMA EntryTypes ==
    /\ NoEntry \in Entry /\ NoSnapshot \in [Builders -> Entry]
    /\ NoID \in IDs /\ NoUpdate \in [blacklisted : BOOLEAN, id : IDs]
    /\ \A r \in Row : Status(r) \in Entry
    /\ \A f \in [Builders -> Row] : [b \in Builders |-> Status(f[b])] \in [Builders -> Entry]
  BY DEF NoEntry, Entry, NoSnapshot, NoUpdate, IDs, Row, Status

LEMMA InitTypes == Init => TypesOK
  <1> SUFFICES ASSUME Init PROVE TypesOK
    OBVIOUS
  <1>1. TypesShared
    <2>1. 0 \in 0..MaxSlot /\ 1 \in 1..(MaxSlot + 1)
      BY BoundsAssumption
    <2>2. cache \in [Builders -> Entry]
      BY RowsAssumption, EntryTypes DEF Init
    <2>3. snapshot \in [Slots -> [Builders -> Entry]]
      BY EntryTypes DEF Init
    <2> QED BY <2>1, <2>2, <2>3 DEF Init, TypesShared, Waiting
  <1>2. TypesHandlers
    BY EntryTypes DEF Init, TypesHandlers
  <1>3. TypesTables
    BY RowsAssumption, EntryTypes DEF Init, TypesTables
  <1>4. TypesHistory
    BY DEF Init, TypesHistory
  <1> QED BY <1>1, <1>2, <1>3, <1>4 DEF TypesOK

\* Done releases those who wait.
LEMMA DoneTypes ==
    ASSUME TypesShared, Done
    PROVE  /\ updater' \in [Slots -> Waiting \cup {"reading", "filling"}]
           /\ job' \in [Submissions -> Waiting]
           /\ snapshot' = snapshot
  BY DEF TypesShared, Done, Released, Waiting

\* the goroutines of heads and of getPayload calls, and the shared variables
LEMMA SharedTypes == ASSUME TypesOK, Next PROVE TypesShared'
  <1> USE DEF TypesOK
  <1>1. ASSUME NEW h \in Slots, ProcessNewSlot(h) PROVE TypesShared'
    BY <1>1, BoundsAssumption DEF ProcessNewSlot, TypesShared, Waiting, Slots, shared
  <1>2. ASSUME NEW h \in Slots, UpdaterWaits(h) \/ UpdaterWakes(h) PROVE TypesShared'
    BY <1>2 DEF UpdaterWaits, UpdaterWakes, CallWait, TypesShared, Waiting, shared
  <1>3. ASSUME NEW h \in Slots, SetOptimisticSlot(h) PROVE TypesShared'
    BY <1>3, BoundsAssumption DEF SetOptimisticSlot, TypesShared, Slots
  <1>4. ASSUME NEW h \in Slots, ReadBuilders(h) PROVE TypesShared'
    <2>1. [b \in Builders |-> Status(db[b])] \in [Builders -> Entry]
      BY EntryTypes DEF TypesTables
    <2> QED BY <1>4, <2>1 DEF ReadBuilders, TypesShared, Waiting, shared
  <1>5. ASSUME NEW h \in Slots, FillCache(h) PROVE TypesShared'
    BY <1>5, EntryTypes DEF FillCache, TypesShared, Waiting
  <1>6. ASSUME NEW s \in Submissions, SubmitNewBlock(s) PROVE TypesShared'
    BY <1>6 DEF SubmitNewBlock, ReadEntry, CheckEntry, Decide, Respond, TypesShared, shared, waits
  <1>7. ASSUME NEW s \in Submissions,
               BeginTask(s) \/ CheckContext(s) \/ StartDemotion(s) \/ ReadCollateralID(s)
                     \/ UpdateStatus(s)
        PROVE  TypesShared'
    BY <1>7 DEF BeginTask, CheckContext, StartDemotion, ReadCollateralID, UpdateStatus, TypesShared, shared, waits
  <1>8. ASSUME NEW s \in Submissions, FinishSimulation(s) \/ InsertDemotion(s) PROVE TypesShared'
    <2>1. Done \/ UNCHANGED waits
      BY <1>8 DEF FinishSimulation, InsertDemotion
    <2>2. UNCHANGED <<load, headSlot, shared, panicked>>
      BY <1>8 DEF FinishSimulation, InsertDemotion
    <2> QED BY <2>1, <2>2, DoneTypes DEF TypesShared, shared, waits
  <1>9. ASSUME NEW s \in Submissions, DeliverPayload(s) \/ GetPayloadJob(s) PROVE TypesShared'
    BY <1>9 DEF DeliverPayload, GetPayloadJob, JobWaits, JobWakes, CheckDemotion, CallWait,
                TypesShared, Waiting, shared
  <1>10. ASSUME InternalAPI PROVE TypesShared'
    BY <1>10 DEF InternalAPI, SetStatus, SetCollateral, UpdateBuilderStatus, TypesShared, shared, waits
  <1> QED
    BY <1>1, <1>2, <1>3, <1>4, <1>5, <1>6, <1>7, <1>8, <1>9, <1>10
    DEF Next, UpdateOptimisticSlot, ProcessOptimisticBlock

\* the handlers, and the goroutines of their blocks
LEMMA HandlerTypes == ASSUME TypesOK, Next PROVE TypesHandlers'
  <1> USE DEF TypesOK
  <1>1. ASSUME NEW h \in Slots, ProcessNewSlot(h) \/ UpdateOptimisticSlot(h) PROVE TypesHandlers'
    BY <1>1 DEF ProcessNewSlot, UpdateOptimisticSlot, UpdaterWaits, UpdaterWakes,
                SetOptimisticSlot, ReadBuilders, FillCache, TypesHandlers, handlers
  <1>2. ASSUME NEW s \in Submissions, ReadEntry(s) PROVE TypesHandlers'
    <2>1. cache[Request[s].builder] \in Entry
      BY RequestType DEF TypesShared
    <2> QED BY <1>2, <2>1 DEF ReadEntry, TypesHandlers
  <1>3. ASSUME NEW s \in Submissions, CheckEntry(s) \/ Respond(s) PROVE TypesHandlers'
    BY <1>3 DEF CheckEntry, Respond, TypesHandlers
  <1>4. ASSUME NEW s \in Submissions, Decide(s) PROVE TypesHandlers'
    BY <1>4, EntryTypes DEF Decide, TypesHandlers
  <1>5. ASSUME NEW s \in Submissions, ProcessOptimisticBlock(s) PROVE TypesHandlers'
    <2>1. UNCHANGED handlers /\ \E x \in {"done"} \cup Active : task' = [task EXCEPT ![s] = x]
      BY <1>5 DEF ProcessOptimisticBlock, BeginTask, CheckContext, FinishSimulation,
                  StartDemotion, ReadCollateralID, UpdateStatus, InsertDemotion, Active
    <2> QED BY <2>1 DEF TypesHandlers, handlers
  <1>6. ASSUME NEW s \in Submissions, DeliverPayload(s) \/ GetPayloadJob(s) PROVE TypesHandlers'
    BY <1>6 DEF DeliverPayload, GetPayloadJob, JobWaits, JobWakes, CheckDemotion,
                TypesHandlers, handlers
  <1>7. ASSUME InternalAPI PROVE TypesHandlers'
    BY <1>7 DEF InternalAPI, SetStatus, SetCollateral, UpdateBuilderStatus, TypesHandlers, handlers
  <1> QED BY <1>1, <1>2, <1>3, <1>4, <1>5, <1>6, <1>7 DEF Next, SubmitNewBlock

\* an UPDATE of statuses keeps the IDs and the collaterals
LEMMA UpdatedTypes ==
    ASSUME db \in [Builders -> Row], NEW b, NEW id, NEW x \in BOOLEAN, NEW y \in BOOLEAN
    PROVE  Updated(b, id, x, y) \in [Builders -> Row]
  BY DEF Updated, Row

LEMMA UpdatedRows ==
    ASSUME db \in [Builders -> Row], NEW b, NEW id, NEW x, NEW y, NEW c \in Builders
    PROVE  /\ Updated(b, id, x, y)[c].id = db[c].id
           /\ Updated(b, id, x, y)[c].demoted =
                  IF c \in SameCollateral(b, id) THEN x ELSE db[c].demoted
  BY DEF Updated, Row

\* the database, and what is about to be written to it
LEMMA TableTypes == ASSUME TypesOK, Next PROVE TypesTables'
  <1> USE DEF TypesOK
  <1>1. ASSUME NEW h \in Slots, ProcessNewSlot(h) \/ UpdateOptimisticSlot(h) PROVE TypesTables'
    BY <1>1 DEF ProcessNewSlot, UpdateOptimisticSlot, UpdaterWaits, UpdaterWakes,
                SetOptimisticSlot, ReadBuilders, FillCache, Fault, TypesTables, tables, operator
  <1>2. ASSUME NEW s \in Submissions, SubmitNewBlock(s) PROVE TypesTables'
    BY <1>2 DEF SubmitNewBlock, ReadEntry, CheckEntry, Decide, Respond, TypesTables, tables,
                operator
  <1>3. ASSUME NEW s \in Submissions, BeginTask(s) \/ CheckContext(s) \/ FinishSimulation(s)
        PROVE  TypesTables'
    BY <1>3 DEF BeginTask, CheckContext, FinishSimulation, TypesTables, tables, operator
  <1>4. ASSUME NEW s \in Submissions, StartDemotion(s) \/ ReadCollateralID(s) PROVE TypesTables'
    <2>1. /\ cache[Request[s].builder].blacklisted \in BOOLEAN
          /\ db[Request[s].builder].id \in IDs
      BY RequestType DEF TypesShared, TypesTables, Entry, Row
    <2>2. newStatus' \in [Submissions -> [blacklisted : BOOLEAN, id : IDs]]
      BY <1>4, <2>1 DEF StartDemotion, ReadCollateralID, TypesTables
    <2>3. faults' = faults \/ faults' = faults + 1
      BY <1>4 DEF StartDemotion, ReadCollateralID, Fault
    <2>4. UNCHANGED <<tables, rejected, operator>>
      BY <1>4 DEF StartDemotion, ReadCollateralID
    <2> QED BY <2>2, <2>3, <2>4 DEF TypesTables, tables, operator
  <1>5. ASSUME NEW s \in Submissions, UpdateStatus(s) PROVE TypesTables'
    <2> DEFINE new == Updated(Request[s].builder, newStatus[s].id, TRUE, newStatus[s].blacklisted)
    <2>1. new \in [Builders -> Row]
      BY UpdatedTypes DEF TypesTables
    <2>2. db' \in {db, new}
      BY <1>5 DEF UpdateStatus
    <2>3. db' \in [Builders -> Row]
      BY <2>1, <2>2 DEF TypesTables
    <2>4. faults' = faults \/ faults' = faults + 1
      BY <1>5 DEF UpdateStatus, Fault
    <2>5. UNCHANGED <<newStatus, demotions, refunds, rejected, calls, spared, ops>>
      BY <1>5 DEF UpdateStatus, operator
    <2> QED BY <2>3, <2>4, <2>5 DEF TypesTables
  <1>6. ASSUME NEW s \in Submissions, InsertDemotion(s) PROVE TypesTables'
    BY <1>6, EntryTypes DEF InsertDemotion, Fault, TypesTables, operator
  <1>7. ASSUME NEW s \in Submissions, DeliverPayload(s) \/ GetPayloadJob(s) PROVE TypesTables'
    BY <1>7 DEF DeliverPayload, GetPayloadJob, JobWaits, JobWakes, CheckDemotion, Fault,
                TypesTables, tables, operator
  <1>8. ASSUME NEW b \in Builders, NEW x \in BOOLEAN, NEW y \in BOOLEAN, SetStatus(b, x, y)
        PROVE  TypesTables'
    <2>1. [builder |-> b, id |-> db[b].id, demoted |-> y, blacklisted |-> x]
              \in [builder : Builders, id : IDs, demoted : BOOLEAN, blacklisted : BOOLEAN]
      BY DEF TypesTables, Row
    <2>2. UNCHANGED <<newStatus, tables, rejected, spared>> /\ ops' = ops + 1
      BY <1>8 DEF SetStatus
    <2>3. calls' \subseteq [builder : Builders, id : IDs, demoted : BOOLEAN, blacklisted : BOOLEAN]
      BY <1>8, <2>1 DEF SetStatus, TypesTables
    <2>4. faults' = faults \/ faults' = faults + 1
      BY <1>8 DEF SetStatus, Fault
    <2> QED BY <2>2, <2>3, <2>4 DEF TypesTables, tables
  <1>9. ASSUME NEW c \in calls, UpdateBuilderStatus(c) PROVE TypesTables'
    <2>1. /\ c.builder \in Builders /\ c.demoted \in BOOLEAN /\ c.blacklisted \in BOOLEAN
      BY DEF TypesTables
    <2>2. db' \in [Builders -> Row]
      <3>1. Updated(c.builder, c.id, c.demoted, c.blacklisted) \in [Builders -> Row]
        BY <2>1, UpdatedTypes DEF TypesTables
      <3>2. db' \in {db, Updated(c.builder, c.id, c.demoted, c.blacklisted)}
        BY <1>9 DEF UpdateBuilderStatus
      <3> QED BY <3>1, <3>2 DEF TypesTables
    <2>3. spared' \subseteq Builders
      BY <1>9, <2>1 DEF UpdateBuilderStatus, SameCollateral, TypesTables
    <2>4. faults' = faults \/ faults' = faults + 1
      BY <1>9 DEF UpdateBuilderStatus, Fault
    <2>5. calls' \subseteq calls /\ UNCHANGED <<newStatus, demotions, refunds, rejected, ops>>
      BY <1>9 DEF UpdateBuilderStatus
    <2> QED BY <2>2, <2>3, <2>4, <2>5 DEF TypesTables
  <1>10. ASSUME NEW b \in Builders, NEW c \in Collaterals, SetCollateral(b, c)
         PROVE  TypesTables'
    <2>1. c.id \in IDs /\ c.collateral \in Nat
      BY RowsAssumption DEF IDs
    <2>2. db' \in [Builders -> Row]
      BY <1>10, <2>1 DEF SetCollateral, TypesTables, Row
    <2>3. spared' \subseteq Builders
      BY <1>10 DEF SetCollateral, TypesTables
    <2> QED BY <1>10, <2>2, <2>3 DEF SetCollateral, TypesTables
  <1> QED
    BY <1>1, <1>2, <1>3, <1>4, <1>5, <1>6, <1>7, <1>8, <1>9, <1>10
    DEF Next, ProcessOptimisticBlock, InternalAPI

\* what the properties remember
LEMMA HistoryTypes == ASSUME TypesOK, Next PROVE TypesHistory'
  <1> USE DEF TypesOK
  <1>1. CASE UNCHANGED history
    BY <1>1 DEF TypesHistory, history
  <1>2. ASSUME NEW h \in Slots, UpdaterWaits(h) PROVE TypesHistory'
    BY <1>2 DEF UpdaterWaits, TypesHistory, InGroup
  <1>3. ASSUME NEW h \in Slots, FillCache(h) PROVE TypesHistory'
    <2>1. FailuresCovered(h) \subseteq Builders
      BY RequestType DEF FailuresCovered, TypesHistory, TypesShared
    <2> QED BY <1>3, <2>1 DEF FillCache, TypesHistory
  <1>4. ASSUME NEW s \in Submissions, ReadEntry(s) PROVE TypesHistory'
    BY <1>4 DEF ReadEntry, TypesHistory
  <1>5. ASSUME NEW s \in Submissions, JobWaits(s) PROVE TypesHistory'
    BY <1>5 DEF JobWaits, TypesHistory
  <1>6. ASSUME NEW h \in Slots, \/ ProcessNewSlot(h) \/ UpdaterWakes(h) \/ SetOptimisticSlot(h)
                                \/ ReadBuilders(h)
        PROVE  UNCHANGED history
    BY <1>6 DEF ProcessNewSlot, UpdaterWakes, SetOptimisticSlot, ReadBuilders
  <1>7. ASSUME NEW s \in Submissions, \/ CheckEntry(s) \/ Decide(s) \/ Respond(s)
                                      \/ DeliverPayload(s) \/ JobWakes(s) \/ CheckDemotion(s)
        PROVE  UNCHANGED history
    BY <1>7 DEF CheckEntry, Decide, Respond, DeliverPayload, JobWakes, CheckDemotion
  <1>8. ASSUME NEW s \in Submissions, ProcessOptimisticBlock(s) PROVE UNCHANGED history
    BY <1>8 DEF ProcessOptimisticBlock, BeginTask, CheckContext, FinishSimulation, StartDemotion,
                ReadCollateralID, UpdateStatus, InsertDemotion
  <1>9. ASSUME InternalAPI PROVE UNCHANGED history
    BY <1>9 DEF InternalAPI, SetStatus, SetCollateral, UpdateBuilderStatus
  <1> QED
    BY <1>1, <1>2, <1>3, <1>4, <1>5, <1>6, <1>7, <1>8, <1>9
    DEF Next, UpdateOptimisticSlot, SubmitNewBlock, GetPayloadJob

-----------------------------------------------------------------------------
(* The counter *)

LEMMA OutsideGroup == {"none", "spawned", "done"} \cap Active = {}
  BY DEF Active

LEMMA GroupIsFinite ==
    /\ IsFiniteSet(InGroup) /\ Cardinality(InGroup) \in Nat
    /\ Cardinality(InGroup) = 0 <=> InGroup = {}
  <1>1. InGroup \in SUBSET Submissions
    BY DEF InGroup
  <1>2. IsFiniteSet(InGroup)
    BY <1>1, BoundsAssumption, FS_Subset
  <1> QED BY <1>2, FS_CardinalityType, FS_EmptySet

\* a goroutine moves on: into the group, out of it, or neither
LEMMA GroupMoves ==
    ASSUME TypesHandlers, NEW s \in Submissions, NEW x, task' = [task EXCEPT ![s] = x]
    PROVE  /\ x \in Active /\ s \notin InGroup
                  => /\ InGroup' = InGroup \cup {s}
                     /\ Cardinality(InGroup') = Cardinality(InGroup) + 1
           /\ x \notin Active /\ s \in InGroup
                  => /\ InGroup' = InGroup \ {s}
                     /\ Cardinality(InGroup') = Cardinality(InGroup) - 1
           /\ (x \in Active <=> s \in InGroup) => InGroup' = InGroup
  <1>1. \A t \in Submissions : task'[t] = IF t = s THEN x ELSE task[t]
    BY DEF TypesHandlers
  <1>2. x \in Active => InGroup' = InGroup \cup {s}
    BY <1>1 DEF InGroup
  <1>3. x \notin Active => InGroup' = InGroup \ {s}
    BY <1>1 DEF InGroup
  <1>4. Cardinality(InGroup \cup {s}) = IF s \in InGroup THEN Cardinality(InGroup)
                                        ELSE Cardinality(InGroup) + 1
    BY GroupIsFinite, FS_AddElement
  <1>5. Cardinality(InGroup \ {s}) = IF s \in InGroup THEN Cardinality(InGroup) - 1
                                     ELSE Cardinality(InGroup)
    BY GroupIsFinite, FS_RemoveElement
  <1>6. (x \in Active <=> s \in InGroup) => InGroup' = InGroup
    BY <1>2, <1>3
  <1> QED BY <1>2, <1>3, <1>4, <1>5, <1>6

\* Add and Done are called as the blocks enter the group and leave it.
LEMMA CountedStep == ASSUME TypesOK, Undecided, Counted, Next PROVE Counted'
  <1> USE DEF TypesOK
  <1>1. CASE UNCHANGED <<task, optimisticBlocks>>
    BY <1>1 DEF Counted, InGroup
  <1>2. ASSUME NEW s \in Submissions, ReadEntry(s) PROVE Counted'
    <2>1. s \notin InGroup
      BY <1>2 DEF ReadEntry, Undecided, Early, InGroup, Active
    <2> QED BY <1>2, <2>1, GroupMoves DEF ReadEntry, Counted, Active
  <1>3. ASSUME NEW s \in Submissions, Decide(s) PROVE Counted'
    <2>1. s \notin InGroup
      BY <1>3 DEF Decide, Undecided, Early, InGroup, Active
    <2>2. CASE task' = [task EXCEPT ![s] = "spawned"]
      <3>1. InGroup' = InGroup
        BY <2>1, <2>2, GroupMoves DEF Active
      <3> QED BY <1>3, <3>1 DEF Decide, Counted
    <2> QED BY <1>1, <1>3, <2>2 DEF Decide
  <1>4. ASSUME NEW s \in Submissions, BeginTask(s) PROVE Counted'
    <2>1. s \notin InGroup
      BY <1>4 DEF BeginTask, InGroup, Active
    <2> QED BY <1>4, <2>1, GroupMoves DEF BeginTask, Add, Counted, Active
  <1>5. ASSUME NEW s \in Submissions, CheckContext(s) \/ StartDemotion(s) \/ ReadCollateralID(s)
                     \/ UpdateStatus(s)
        PROVE  Counted'
    <2>1. s \in InGroup /\ UNCHANGED optimisticBlocks
      BY <1>5 DEF CheckContext, StartDemotion, ReadCollateralID, UpdateStatus, InGroup, Active
    <2>2. \E x \in Active : task' = [task EXCEPT ![s] = x]
      BY <1>5 DEF CheckContext, StartDemotion, ReadCollateralID, UpdateStatus, Active
    <2> QED BY <2>1, <2>2, GroupMoves DEF Counted
  <1>6. ASSUME NEW s \in Submissions, FinishSimulation(s) PROVE Counted'
    <2>1. s \in InGroup
      BY <1>6 DEF FinishSimulation, InGroup, Active
    <2>2. CASE task' = [task EXCEPT ![s] = "done"] /\ Done
      <3>1. Cardinality(InGroup') = Cardinality(InGroup) - 1
        BY <2>1, <2>2, OutsideGroup, GroupMoves
      <3> QED BY <2>2, <3>1 DEF Done, Counted
    <2>3. CASE task' = [task EXCEPT ![s] = "demoting"] /\ UNCHANGED optimisticBlocks
      BY <2>1, <2>3, GroupMoves DEF Counted, Active
    <2> QED BY <1>6, <2>2, <2>3 DEF FinishSimulation
  <1>7. ASSUME NEW s \in Submissions, InsertDemotion(s) PROVE Counted'
    <2>1. s \in InGroup
      BY <1>7 DEF InsertDemotion, InGroup, Active
    <2>2. Cardinality(InGroup') = Cardinality(InGroup) - 1
      BY <1>7, <2>1, OutsideGroup, GroupMoves DEF InsertDemotion
    <2> QED BY <1>7, <2>2 DEF InsertDemotion, Done, Counted
  <1>8. ASSUME NEW h \in Slots, ProcessNewSlot(h) \/ UpdateOptimisticSlot(h)
        PROVE  UNCHANGED <<task, optimisticBlocks>>
    BY <1>8 DEF ProcessNewSlot, UpdateOptimisticSlot, UpdaterWaits, UpdaterWakes,
                SetOptimisticSlot, ReadBuilders, FillCache
  <1>9. ASSUME NEW s \in Submissions,
               CheckEntry(s) \/ Respond(s) \/ DeliverPayload(s) \/ GetPayloadJob(s)
        PROVE  UNCHANGED <<task, optimisticBlocks>>
    BY <1>9 DEF CheckEntry, Respond, DeliverPayload, GetPayloadJob, JobWaits, JobWakes,
                CheckDemotion
  <1>10. ASSUME InternalAPI PROVE UNCHANGED <<task, optimisticBlocks>>
    BY <1>10 DEF InternalAPI, SetStatus, SetCollateral, UpdateBuilderStatus
  <1> QED
    BY <1>1, <1>2, <1>3, <1>4, <1>5, <1>6, <1>7, <1>8, <1>9, <1>10
    DEF Next, SubmitNewBlock, ProcessOptimisticBlock

LEMMA UndecidedStep == ASSUME TypesOK, Undecided, Next PROVE Undecided'
  <1> USE DEF TypesOK
  <1>1. ASSUME NEW h \in Slots, ProcessNewSlot(h) \/ UpdateOptimisticSlot(h) PROVE Undecided'
    BY <1>1 DEF ProcessNewSlot, UpdateOptimisticSlot, UpdaterWaits, UpdaterWakes,
                SetOptimisticSlot, ReadBuilders, FillCache, Undecided, handlers
  <1>2. ASSUME NEW s \in Submissions, ReadEntry(s) PROVE Undecided'
    BY <1>2 DEF ReadEntry, Undecided, Early, TypesHandlers, waits
  <1>3. ASSUME NEW s \in Submissions, CheckEntry(s) \/ Respond(s) PROVE Undecided'
    BY <1>3 DEF CheckEntry, Respond, Undecided, Early, TypesHandlers, waits
  <1>4. ASSUME NEW s \in Submissions, Decide(s) PROVE Undecided'
    BY <1>4 DEF Decide, Undecided, Early, TypesHandlers, waits
  <1>5. ASSUME NEW s \in Submissions, ProcessOptimisticBlock(s) PROVE Undecided'
    <2>1. /\ UNCHANGED pc /\ task[s] # "none"
          /\ \E x : task' = [task EXCEPT ![s] = x]
          /\ UNCHANGED job \/ job' = Released(job)
      BY <1>5 DEF ProcessOptimisticBlock, BeginTask, CheckContext, FinishSimulation,
                  StartDemotion, ReadCollateralID, UpdateStatus, InsertDemotion, Done, waits, handlers
    <2> QED BY <2>1 DEF Undecided, Released, TypesHandlers, TypesShared
  <1>6. ASSUME NEW s \in Submissions, DeliverPayload(s) \/ GetPayloadJob(s) PROVE Undecided'
    <2>1. UNCHANGED <<pc, task>> /\ \E x : job' = [job EXCEPT ![s] = x]
      BY <1>6 DEF DeliverPayload, GetPayloadJob, JobWaits, JobWakes, CheckDemotion, handlers,
                  TypesShared
    <2>2. pc[s] \notin Early
      BY <1>6 DEF DeliverPayload, GetPayloadJob, JobWaits, JobWakes, CheckDemotion, Undecided, Early
    <2> QED BY <2>1, <2>2 DEF Undecided, TypesShared
  <1>7. ASSUME InternalAPI PROVE Undecided'
    BY <1>7 DEF InternalAPI, SetStatus, SetCollateral, UpdateBuilderStatus, Undecided, handlers, waits
  <1> QED BY <1>1, <1>2, <1>3, <1>4, <1>5, <1>6, <1>7 DEF Next, SubmitNewBlock

LEMMA CallsStep == ASSUME TypesOK, CallsCounted, Next PROVE CallsCounted'
  <1> USE DEF TypesOK, TypesTables
  <1>1. CASE UNCHANGED <<calls, ops>>
    BY <1>1 DEF CallsCounted
  <1>2. ASSUME NEW b \in Builders, \/ \E x, y \in BOOLEAN : SetStatus(b, x, y)
                                   \/ \E c \in Collaterals : SetCollateral(b, c)
        PROVE  CallsCounted'
    <2>1. ops' = ops + 1
      BY <1>2, Zenon DEF SetStatus, SetCollateral
    <2> QED BY <2>1 DEF CallsCounted
  <1>3. ASSUME NEW c \in calls, UpdateBuilderStatus(c) PROVE CallsCounted'
    BY <1>3 DEF UpdateBuilderStatus, CallsCounted
  <1>4. ASSUME NEW h \in Slots, ProcessNewSlot(h) \/ UpdateOptimisticSlot(h)
        PROVE  UNCHANGED <<calls, ops>>
    BY <1>4 DEF ProcessNewSlot, UpdateOptimisticSlot, UpdaterWaits, UpdaterWakes,
                SetOptimisticSlot, ReadBuilders, FillCache, operator
  <1>5. ASSUME NEW s \in Submissions, \/ SubmitNewBlock(s) \/ ProcessOptimisticBlock(s)
                                      \/ DeliverPayload(s) \/ GetPayloadJob(s)
        PROVE  UNCHANGED <<calls, ops>>
    BY <1>5 DEF SubmitNewBlock, ReadEntry, CheckEntry, Decide, Respond, ProcessOptimisticBlock,
                BeginTask, CheckContext, FinishSimulation, StartDemotion, ReadCollateralID,
                UpdateStatus, InsertDemotion, DeliverPayload, GetPayloadJob, JobWaits, JobWakes,
                CheckDemotion, operator
  <1> QED BY <1>1, <1>2, <1>3, <1>4, <1>5 DEF Next, InternalAPI

Base == TypesOK /\ Undecided /\ Counted /\ CallsCounted

LEMMA BaseInvariance == Spec => []Base
  <1>1. Init => Base
    <2>1. Init => Undecided
      BY DEF Init, Undecided
    <2>2. Init => InGroup = {}
      BY DEF Init, InGroup, Active
    <2> QED BY <2>1, <2>2, InitTypes, GroupIsFinite DEF Base, Counted, CallsCounted, Init
  <1>2. Base /\ Next => Base'
    BY SharedTypes, HandlerTypes, TableTypes, HistoryTypes, CountedStep, UndecidedStep, CallsStep
    DEF Base, TypesOK
  <1>3. Base /\ UNCHANGED vars => Base'
    BY DEF Base, TypesOK, TypesShared, TypesHandlers, TypesTables, TypesHistory, Undecided, Counted,
           InGroup, CallsCounted, vars, shared, waits, handlers, tables, operator, history
  <1> QED BY <1>1, <1>2, <1>3, PTL DEF Spec

\* Every variable keeps its type; the counter of the WaitGroup, which Go makes
\* panic when it is negative, is a natural number.
THEOREM TypeCorrect == Spec => []TypeOK
  <1>1. Base => TypeOK
    BY TypesSplit, GroupIsFinite DEF Base, Counted
  <1> QED BY <1>1, BaseInvariance, PTL

-----------------------------------------------------------------------------

(* Steps *)

LEMMA LoadIsFixed ==
    ASSUME Next
    PROVE  /\ load' = load
           /\ \A s : Builder(s)' = Builder(s)
  <1>1. load' = load
    BY DEF Next, ProcessNewSlot, UpdateOptimisticSlot, UpdaterWaits, UpdaterWakes,
           SetOptimisticSlot, ReadBuilders, FillCache, SubmitNewBlock, ReadEntry, CheckEntry,
           Decide, Respond, ProcessOptimisticBlock, BeginTask, CheckContext, FinishSimulation,
           StartDemotion, ReadCollateralID, UpdateStatus, InsertDemotion, DeliverPayload, GetPayloadJob, JobWaits,
           JobWakes, CheckDemotion, InternalAPI, SetStatus, SetCollateral,
           UpdateBuilderStatus
  <1> QED BY <1>1 DEF Builder, Request

LEMMA FaultsAndOps ==
    ASSUME TypesOK, Next
    PROVE  /\ faults' = faults \/ Fault
           /\ ops' = ops \/ ops' = ops + 1
           /\ faults' = 0 => faults = 0 /\ ~Fault
           /\ ops' = 0 => ops = 0
  <1>1. faults' = faults \/ Fault
    BY DEF Next, ProcessNewSlot, UpdateOptimisticSlot, UpdaterWaits, UpdaterWakes,
           SetOptimisticSlot, ReadBuilders, FillCache, SubmitNewBlock, ReadEntry, CheckEntry,
           Decide, Respond, ProcessOptimisticBlock, BeginTask, CheckContext, FinishSimulation,
           StartDemotion, ReadCollateralID, UpdateStatus, InsertDemotion, DeliverPayload, GetPayloadJob, JobWaits,
           JobWakes, CheckDemotion, InternalAPI, SetStatus, SetCollateral,
           UpdateBuilderStatus
  <1>2. ops' = ops \/ ops' = ops + 1
    BY DEF Next, ProcessNewSlot, UpdateOptimisticSlot, UpdaterWaits, UpdaterWakes,
           SetOptimisticSlot, ReadBuilders, FillCache, SubmitNewBlock, ReadEntry, CheckEntry,
           Decide, Respond, ProcessOptimisticBlock, BeginTask, CheckContext, FinishSimulation,
           StartDemotion, ReadCollateralID, UpdateStatus, InsertDemotion, DeliverPayload, GetPayloadJob, JobWaits,
           JobWakes, CheckDemotion, InternalAPI, SetStatus, SetCollateral,
           UpdateBuilderStatus, operator
  <1>3. faults \in Nat /\ ops \in Nat
    BY DEF TypesOK, TypesTables
  <1> QED BY <1>1, <1>2, <1>3 DEF Fault

-----------------------------------------------------------------------------
(* Demotions *)

\* a step that no demotion depends on
Aside ==
    /\ UNCHANGED <<db, newStatus, rejected, spared, demotions>>
    /\ \A t \in Submissions :
           /\ task'[t] = "updating" <=> task[t] = "updating"
           /\ task'[t] = "inserting" <=> task[t] = "inserting"
           /\ task[t] \in {"demoting", "reading"} => task'[t] = task[t]

LEMMA AsideSteps ==
    ASSUME Base, Next
    PROVE  \/ Aside
           \/ \E s \in Submissions : \/ FinishSimulation(s) \/ StartDemotion(s)
                                     \/ ReadCollateralID(s) \/ UpdateStatus(s) \/ InsertDemotion(s)
           \/ \E c \in calls : UpdateBuilderStatus(c)
           \/ \E b \in Builders : \E c \in Collaterals : SetCollateral(b, c)
  <1> USE DEF Base, TypesOK
  <1>1. ASSUME NEW h \in Slots, ProcessNewSlot(h) \/ UpdateOptimisticSlot(h) PROVE Aside
    BY <1>1 DEF ProcessNewSlot, UpdateOptimisticSlot, UpdaterWaits, UpdaterWakes,
                SetOptimisticSlot, ReadBuilders, FillCache, Aside, tables, operator
  <1>2. ASSUME NEW s \in Submissions, SubmitNewBlock(s) PROVE Aside
    <2>1. UNCHANGED <<db, newStatus, rejected, spared, demotions>>
      BY <1>2 DEF SubmitNewBlock, ReadEntry, CheckEntry, Decide, Respond, tables, operator
    <2>2. \/ UNCHANGED task
          \/ /\ task[s] \in {"none", "done"}
             /\ task' = [task EXCEPT ![s] = "none"] \/ task' = [task EXCEPT ![s] = "spawned"]
      BY <1>2 DEF SubmitNewBlock, ReadEntry, CheckEntry, Decide, Respond, Undecided, Early
    <2> QED BY <2>1, <2>2 DEF Aside, TypesHandlers
  <1>3. ASSUME NEW s \in Submissions, BeginTask(s) \/ CheckContext(s) PROVE Aside
    BY <1>3 DEF BeginTask, CheckContext, Aside, TypesHandlers, tables, operator
  <1>4. ASSUME NEW s \in Submissions, DeliverPayload(s) \/ GetPayloadJob(s) PROVE Aside
    BY <1>4 DEF DeliverPayload, GetPayloadJob, JobWaits, JobWakes, CheckDemotion, Aside, tables,
                operator
  <1>5. ASSUME NEW b \in Builders, NEW x \in BOOLEAN, NEW y \in BOOLEAN, SetStatus(b, x, y)
        PROVE  Aside
    BY <1>5 DEF SetStatus, Aside, tables
  <1> QED BY <1>1, <1>2, <1>3, <1>4, <1>5 DEF Next, ProcessOptimisticBlock, InternalAPI

\* what a step of demoteBuilder does to the other blocks
LEMMA OneTask ==
    ASSUME Base, NEW s \in Submissions, ProcessOptimisticBlock(s)
    PROVE  \A t \in Submissions \ {s} : newStatus'[t] = newStatus[t] /\ task'[t] = task[t]
  BY DEF ProcessOptimisticBlock, BeginTask, CheckContext, FinishSimulation, StartDemotion,
         ReadCollateralID, UpdateStatus, InsertDemotion, Base, TypesOK, TypesTables, TypesHandlers

\* the UPDATE of a demotion, and that of the operator, when no call fails
LEMMA StatusUpdated ==
    ASSUME Base, ~Fault, NEW b \in Builders
    PROVE  /\ \A s \in Submissions : UpdateStatus(s) =>
                  /\ db'[b].id = db[b].id
                  /\ db'[b].demoted <=>
                         db[b].demoted \/ b \in SameCollateral(Builder(s), newStatus[s].id)
           /\ \A c \in calls : UpdateBuilderStatus(c) =>
                  db'[b].demoted <=>
                      IF b \in SameCollateral(c.builder, c.id) THEN c.demoted ELSE db[b].demoted
  <1> USE DEF Base, TypesOK, TypesTables
  <1>1. ASSUME NEW s \in Submissions, UpdateStatus(s)
        PROVE  /\ db'[b].id = db[b].id
               /\ db'[b].demoted <=>
                         db[b].demoted \/ b \in SameCollateral(Builder(s), newStatus[s].id)
    <2> DEFINE new == Updated(Request[s].builder, newStatus[s].id, TRUE, newStatus[s].blacklisted)
    <2>1. db' = new
      BY <1>1 DEF UpdateStatus
    <2>2. /\ new[b].id = db[b].id
          /\ new[b].demoted = IF b \in SameCollateral(Request[s].builder, newStatus[s].id)
                              THEN TRUE ELSE db[b].demoted
      BY DEF Updated, Row
    <2>3. db[b].demoted \in BOOLEAN
      BY DEF Row
    <2> QED BY <2>1, <2>2, <2>3 DEF Builder
  <1>2. ASSUME NEW c \in calls, UpdateBuilderStatus(c)
        PROVE  db'[b].demoted <=>
                   IF b \in SameCollateral(c.builder, c.id) THEN c.demoted ELSE db[b].demoted
    <2>1. db' = Updated(c.builder, c.id, c.demoted, c.blacklisted)
      BY <1>2 DEF UpdateBuilderStatus
    <2>2. c.demoted \in BOOLEAN /\ c.blacklisted \in BOOLEAN
      OBVIOUS
    <2> QED BY <2>1, <2>2, UpdatedRows
  <1> QED BY <1>1, <1>2

\* no UPDATE of statuses changes an ID
LEMMA IDsKept ==
    ASSUME Base, NEW b \in Builders,
           (\E s \in Submissions : UpdateStatus(s)) \/ (\E c \in calls : UpdateBuilderStatus(c))
    PROVE  db'[b].id = db[b].id
  <1> USE DEF Base, TypesOK, TypesTables
  <1>1. ASSUME NEW s \in Submissions, UpdateStatus(s) PROVE db'[b].id = db[b].id
    <2> DEFINE new == Updated(Request[s].builder, newStatus[s].id, TRUE, newStatus[s].blacklisted)
    <2>1. db' \in {db, new}
      BY <1>1 DEF UpdateStatus
    <2>2. new[b].id = db[b].id
      BY DEF Updated, Row
    <2> QED BY <2>1, <2>2
  <1>2. ASSUME NEW c \in calls, UpdateBuilderStatus(c) PROVE db'[b].id = db[b].id
    <2>1. db' \in {db, Updated(c.builder, c.id, c.demoted, c.blacklisted)}
      BY <1>2 DEF UpdateBuilderStatus
    <2>2. c.demoted \in BOOLEAN /\ c.blacklisted \in BOOLEAN
      OBVIOUS
    <2>3. Updated(c.builder, c.id, c.demoted, c.blacklisted)[b].id = db[b].id
      BY <2>2, UpdatedRows
    <2> QED BY <2>1, <2>3
  <1> QED BY <1>1, <1>2

LEMMA IDKeptStep == ASSUME Base, IDKept, Next PROVE IDKept'
  <1> USE DEF Base, TypesOK
  <1>0. \A s \in Submissions : Builder(s)' = Builder(s) /\ Builder(s) \in Builders
    BY LoadIsFixed, RequestType DEF TypesShared, Builder
  <1>1. ASSUME Aside PROVE IDKept'
    BY <1>0, <1>1 DEF Aside, IDKept
  <1>2. ASSUME NEW s \in Submissions, FinishSimulation(s) \/ StartDemotion(s) \/ InsertDemotion(s)
        PROVE  IDKept'
    <2>1. task'[s] # "updating" /\ UNCHANGED <<db, spared>>
      BY <1>2 DEF FinishSimulation, StartDemotion, InsertDemotion, TypesHandlers, tables, operator
    <2> QED BY <1>0, <1>2, <2>1, OneTask DEF IDKept, ProcessOptimisticBlock
  <1>3. ASSUME NEW s \in Submissions, ReadCollateralID(s) PROVE IDKept'
    <2>1. task'[s] = "updating" => newStatus'[s].id = db[Builder(s)].id
      BY <1>3 DEF ReadCollateralID, Builder, TypesTables, TypesHandlers
    <2>2. UNCHANGED <<db, spared>>
      BY <1>3 DEF ReadCollateralID, tables, operator
    <2> QED BY <1>0, <1>3, <2>1, <2>2, OneTask DEF IDKept, ProcessOptimisticBlock
  <1>4. ASSUME NEW s \in Submissions, UpdateStatus(s) PROVE IDKept'
    <2>1. \A b \in Builders : db'[b].id = db[b].id
      BY <1>4, IDsKept
    <2>2. UNCHANGED spared /\ task'[s] = "inserting"
      BY <1>4 DEF UpdateStatus, operator, TypesHandlers
    <2> QED BY <1>0, <1>4, <2>1, <2>2, OneTask DEF IDKept, ProcessOptimisticBlock
  <1>5. ASSUME NEW c \in calls, UpdateBuilderStatus(c) PROVE IDKept'
    <2>1. \A b \in Builders : db'[b].id = db[b].id
      BY <1>5, IDsKept
    <2>2. UNCHANGED <<newStatus, task>> /\ spared \subseteq spared'
      BY <1>5 DEF UpdateBuilderStatus
    <2> QED BY <1>0, <2>1, <2>2 DEF IDKept
  <1>6. ASSUME NEW b \in Builders, NEW c \in Collaterals, SetCollateral(b, c) PROVE IDKept'
    <2>1. \A a \in Builders \ {b} : db'[a] = db[a]
      BY <1>6 DEF SetCollateral, TypesTables
    <2>2. UNCHANGED <<newStatus, task>> /\ spared \subseteq spared'
      BY <1>6 DEF SetCollateral
    <2>3. \A s \in Submissions : task[s] = "updating" /\ Builder(s) = b => b \in spared'
      BY <1>6 DEF SetCollateral, Builder
    <2> QED BY <1>0, <2>1, <2>2, <2>3 DEF IDKept
  <1> QED BY <1>1, <1>2, <1>3, <1>4, <1>5, <1>6, AsideSteps

LEMMA RowDemotedStep == ASSUME Base, Demoted, Next PROVE RowDemoted'
  <1> USE DEF Base, TypesOK
  <1> DEFINE Unfinished == {"demoting", "reading", "updating"}
  <1>0. \A s \in Submissions : Builder(s)' = Builder(s) /\ Builder(s) \in Builders
    BY LoadIsFixed, RequestType DEF TypesShared, Builder
  <1> SUFFICES ASSUME faults' = 0, NEW r \in rejected', r \in Submissions,
                      Builder(r) \notin spared', task'[r] \notin Unfinished
               PROVE  db'[Builder(r)].demoted
    <2>1. rejected' \subseteq Submissions
      BY TableTypes DEF TypesTables
    <2> QED BY <1>0, <2>1 DEF RowDemoted
  <1>1. faults = 0 /\ ~Fault
    BY FaultsAndOps
  <1>2. ASSUME r \in rejected, task[r] \notin Unfinished, Builder(r) \notin spared
        PROVE  db[Builder(r)].demoted
    BY <1>1, <1>2 DEF Demoted, RowDemoted
  <1>3. CASE Aside
    BY <1>2, <1>3 DEF Aside
  <1>4. ASSUME NEW s \in Submissions, FinishSimulation(s) PROVE db'[Builder(r)].demoted
    BY <1>2, <1>4 DEF FinishSimulation, TypesHandlers, tables, operator
  <1>5. ASSUME NEW s \in Submissions, StartDemotion(s) \/ ReadCollateralID(s) \/ InsertDemotion(s)
        PROVE  db'[Builder(r)].demoted
    <2>1. UNCHANGED <<db, spared, rejected>>
      BY <1>5 DEF StartDemotion, ReadCollateralID, InsertDemotion, tables, operator
    <2>2. task[s] # "updating" /\ (task[s] \in Unfinished => task'[s] \in Unfinished)
      BY <1>1, <1>5 DEF StartDemotion, ReadCollateralID, InsertDemotion, TypesHandlers
    <2> QED BY <1>2, <1>5, <2>1, <2>2, OneTask DEF ProcessOptimisticBlock
  <1>6. ASSUME NEW s \in Submissions, UpdateStatus(s) PROVE db'[Builder(r)].demoted
    <2>1. UNCHANGED <<rejected, spared>>
      BY <1>6 DEF UpdateStatus, operator
    <2>2. CASE r = s
      <3>1. newStatus[s].id \in {NoID, db[Builder(s)].id}
        BY <1>6, <2>1, <2>2 DEF UpdateStatus, Demoted, IDKept
      <3>2. Builder(s) \in SameCollateral(Builder(s), newStatus[s].id)
        BY <1>0, <3>1 DEF SameCollateral
      <3> QED BY <1>0, <1>1, <1>6, <2>2, <3>2, StatusUpdated
    <2>3. CASE r # s
      <3>1. task'[r] = task[r]
        BY <1>6, <2>3, OneTask DEF ProcessOptimisticBlock
      <3> QED BY <1>0, <1>1, <1>2, <1>6, <2>1, <3>1, StatusUpdated
    <2> QED BY <2>2, <2>3
  <1>7. ASSUME NEW c \in calls, UpdateBuilderStatus(c) PROVE db'[Builder(r)].demoted
    <2>1. UNCHANGED <<rejected, task>> /\ spared \subseteq spared'
      BY <1>7 DEF UpdateBuilderStatus
    <2>2. db[Builder(r)].demoted
      BY <1>2, <2>1
    <2>3. Builder(r) \in SameCollateral(c.builder, c.id) => c.demoted
      BY <1>7 DEF UpdateBuilderStatus
    <2> QED BY <1>0, <1>1, <1>7, <2>2, <2>3, StatusUpdated
  <1>8. ASSUME NEW b \in Builders, NEW c \in Collaterals, SetCollateral(b, c)
        PROVE  db'[Builder(r)].demoted
    <2>1. UNCHANGED <<rejected, task>> /\ spared \subseteq spared'
      BY <1>8 DEF SetCollateral
    <2>2. \A a \in Builders : db'[a].demoted = db[a].demoted
      BY <1>8 DEF SetCollateral, TypesTables, Row
    <2> QED BY <1>0, <1>2, <2>1, <2>2
  <1> QED BY <1>3, <1>4, <1>5, <1>6, <1>7, <1>8, AsideSteps

LEMMA DemotedInvariance == Spec => []Demoted
  <1>1. Init => Demoted
    BY DEF Init, Demoted, IDKept, RowDemoted
  <1>2. Base /\ Demoted /\ Next => Demoted'
    BY IDKeptStep, RowDemotedStep DEF Demoted
  <1>3. Demoted /\ UNCHANGED vars => Demoted'
    BY DEF Demoted, IDKept, RowDemoted, Builder, Request, vars, tables, operator
  <1> QED BY <1>1, <1>2, <1>3, BaseInvariance, PTL DEF Spec

LEMMA RecordedStep == ASSUME Base, Recorded, Next PROVE Recorded'
  <1> USE DEF Base, TypesOK
  <1> DEFINE Unfinished == {"demoting", "reading", "updating", "inserting"}
  <1> SUFFICES ASSUME faults' = 0, NEW r \in rejected', r \in Submissions, task'[r] \notin Unfinished
               PROVE  r \in demotions'
    <2>1. rejected' \subseteq Submissions
      BY TableTypes DEF TypesTables
    <2> QED BY <2>1 DEF Recorded
  <1>1. faults = 0 /\ ~Fault
    BY FaultsAndOps
  <1>2. ASSUME r \in rejected, task[r] \notin Unfinished PROVE r \in demotions
    BY <1>1, <1>2 DEF Recorded
  <1>3. CASE Aside
    BY <1>2, <1>3 DEF Aside
  <1>4. ASSUME NEW s \in Submissions, FinishSimulation(s) PROVE r \in demotions'
    BY <1>2, <1>4 DEF FinishSimulation, TypesHandlers, tables
  <1>5. ASSUME NEW s \in Submissions, StartDemotion(s) \/ ReadCollateralID(s) \/ UpdateStatus(s)
        PROVE  r \in demotions'
    <2>1. task'[s] \in Unfinished /\ UNCHANGED <<demotions, rejected>>
      BY <1>5 DEF StartDemotion, ReadCollateralID, UpdateStatus, TypesHandlers, tables
    <2> QED BY <1>2, <1>5, <2>1, OneTask DEF ProcessOptimisticBlock
  <1>6. ASSUME NEW s \in Submissions, InsertDemotion(s) PROVE r \in demotions'
    <2>1. demotions' = demotions \cup {s} /\ UNCHANGED rejected
      BY <1>1, <1>6 DEF InsertDemotion
    <2> QED BY <1>2, <1>6, <2>1, OneTask DEF ProcessOptimisticBlock
  <1>7. ASSUME \/ \E c \in calls : UpdateBuilderStatus(c)
               \/ \E b \in Builders : \E c \in Collaterals : SetCollateral(b, c)
        PROVE  r \in demotions'
    BY <1>2, <1>7 DEF UpdateBuilderStatus, SetCollateral
  <1> QED BY <1>3, <1>4, <1>5, <1>6, <1>7, AsideSteps

LEMMA RecordedInvariance == Spec => []Recorded
  <1>1. Init => Recorded
    BY DEF Init, Recorded
  <1>2. Recorded /\ UNCHANGED vars => Recorded'
    BY DEF Recorded, vars, tables
  <1> QED BY <1>1, <1>2, RecordedStep, BaseInvariance, PTL DEF Spec

\* As long as the operator does not interfere, IDs stay and demotions stay, so
\* the update of a demotion reaches the builders that share the collateral.
LEMMA SharersStep == ASSUME Base, SharersDemoted, Next PROVE SharersDemoted'
  <1> USE DEF Base, TypesOK
  <1>0. \A s \in Submissions : Builder(s)' = Builder(s) /\ Builder(s) \in Builders
    BY LoadIsFixed, RequestType DEF TypesShared, Builder
  <1> SUFFICES ASSUME faults' = 0, ops' = 0 PROVE SharersDemoted'
    BY DEF SharersDemoted
  <1>1. faults = 0 /\ ~Fault /\ ops = 0
    BY FaultsAndOps
  <1>2. \A s \in Submissions :
            /\ task[s] = "updating" => newStatus[s].id = db[Builder(s)].id
            /\ task[s] = "inserting" => \A b \in Sharers(s) : db[b].demoted
            /\ s \in rejected =>
                   \/ task[s] \in {"demoting", "reading", "updating", "inserting"}
                   \/ s \in demotions /\ \A b \in Sharers(s) : db[b].demoted
    BY <1>1 DEF SharersDemoted
  <1>3. ASSUME UNCHANGED db PROVE \A s \in Submissions : Sharers(s)' = Sharers(s)
    BY <1>0, <1>3 DEF Sharers, SameCollateral
  <1>4. CASE Aside
    <2>1. \A s \in Submissions : Sharers(s)' = Sharers(s)
      BY <1>3, <1>4 DEF Aside
    <2> QED BY <1>0, <1>2, <1>4, <2>1 DEF Aside, SharersDemoted
  <1>5. ASSUME NEW s \in Submissions, FinishSimulation(s) PROVE SharersDemoted'
    <2>1. UNCHANGED <<db, newStatus, demotions>>
      BY <1>5 DEF FinishSimulation, tables
    <2>2. \A t \in Submissions : Sharers(t)' = Sharers(t)
      BY <1>3, <2>1
    <2>3. /\ task[s] = "sent"
          /\ task'[s] = "demoting" \/ (task'[s] = "done" /\ UNCHANGED rejected)
          /\ \A t \in Submissions \ {s} : task'[t] = task[t]
          /\ rejected' \subseteq rejected \cup {s}
      BY <1>5 DEF FinishSimulation, TypesHandlers
    <2> QED BY <1>0, <1>2, <2>1, <2>2, <2>3 DEF SharersDemoted
  <1>6. ASSUME NEW s \in Submissions, StartDemotion(s) \/ ReadCollateralID(s)
        PROVE  SharersDemoted'
    <2>1. UNCHANGED <<db, demotions, rejected>>
      BY <1>6 DEF StartDemotion, ReadCollateralID, tables
    <2>2. \A t \in Submissions : Sharers(t)' = Sharers(t)
      BY <1>3, <2>1
    <2>3. task'[s] = "reading" \/ (task'[s] = "updating" /\ newStatus'[s].id = db[Builder(s)].id)
      BY <1>1, <1>6 DEF StartDemotion, ReadCollateralID, Builder, TypesTables, TypesHandlers
    <2>4. \A t \in Submissions \ {s} : newStatus'[t] = newStatus[t] /\ task'[t] = task[t]
      BY <1>6, OneTask DEF ProcessOptimisticBlock
    <2> QED BY <1>0, <1>2, <2>1, <2>2, <2>3, <2>4 DEF SharersDemoted
  <1>7. ASSUME NEW s \in Submissions, UpdateStatus(s) PROVE SharersDemoted'
    <2>1. /\ task[s] = "updating" /\ task'[s] = "inserting"
          /\ UNCHANGED <<newStatus, demotions, rejected>>
      BY <1>7 DEF UpdateStatus, TypesHandlers
    <2>2. newStatus[s].id = db[Builder(s)].id
      BY <1>2, <2>1
    <2>3. \A b \in Builders : /\ db'[b].id = db[b].id
                              /\ db'[b].demoted <=> db[b].demoted \/ b \in Sharers(s)
      BY <1>1, <1>7, <2>2, StatusUpdated DEF Sharers
    <2>4. \A t \in Submissions : Sharers(t)' = Sharers(t) /\ Sharers(t) \subseteq Builders
      BY <1>0, <2>3 DEF Sharers, SameCollateral
    <2>5. \A t \in Submissions \ {s} : task'[t] = task[t]
      BY <1>7, OneTask DEF ProcessOptimisticBlock
    <2> QED BY <1>0, <1>2, <2>1, <2>3, <2>4, <2>5 DEF SharersDemoted
  <1>8. ASSUME NEW s \in Submissions, InsertDemotion(s) PROVE SharersDemoted'
    <2>1. /\ task[s] = "inserting" /\ task'[s] = "done"
          /\ demotions' = demotions \cup {s} /\ UNCHANGED <<db, rejected>>
      BY <1>1, <1>8 DEF InsertDemotion, TypesHandlers
    <2>2. \A t \in Submissions : Sharers(t)' = Sharers(t)
      BY <1>3, <2>1
    <2>3. \A t \in Submissions \ {s} : newStatus'[t] = newStatus[t] /\ task'[t] = task[t]
      BY <1>8 DEF InsertDemotion, TypesTables, TypesHandlers
    <2> QED BY <1>0, <1>2, <2>1, <2>2, <2>3 DEF SharersDemoted
  <1>9. ASSUME \/ \E c \in calls : UpdateBuilderStatus(c)
               \/ \E b \in Builders : \E c \in Collaterals : SetCollateral(b, c)
        PROVE  FALSE
    <2>1. calls = {}
      BY <1>1 DEF CallsCounted
    <2>2. ops' = ops + 1
      BY <1>9, <2>1, Zenon DEF SetCollateral
    <2> QED BY <1>1, <2>2
  <1> QED BY <1>4, <1>5, <1>6, <1>7, <1>8, <1>9, AsideSteps

\* A failed block is in the demotion table, and costs every builder that shares
\* its collateral the optimistic status.
THEOREM FailuresAreDemoted == Spec => []FailureDemotesSharers
  <1>1. Init => SharersDemoted
    BY DEF Init, SharersDemoted
  <1>2. SharersDemoted /\ UNCHANGED vars => SharersDemoted'
    BY DEF SharersDemoted, Sharers, SameCollateral, Builder, Request, vars, tables, operator
  <1>3. SharersDemoted => FailureDemotesSharers
    BY DEF SharersDemoted, Sharers, Builder, FailureDemotesSharers, Failed
  <1> QED BY <1>1, <1>2, <1>3, SharersStep, BaseInvariance, PTL DEF Spec

-----------------------------------------------------------------------------
(* What a Wait covers *)

LEMMA GroupCount ==
    ASSUME Base, Base'
    PROVE  /\ optimisticBlocks \in Nat /\ (optimisticBlocks = 0 <=> InGroup = {})
           /\ optimisticBlocks' \in Nat /\ (optimisticBlocks' = 0 <=> InGroup' = {})
  <1>1. \A n : n = Cardinality(InGroup) => n \in Nat /\ (n = 0 <=> InGroup = {})
    BY GroupIsFinite
  <1>2. IsFiniteSet(InGroup')
    BY FS_Subset, BoundsAssumption DEF InGroup
  <1>3. Cardinality(InGroup') \in Nat /\ (Cardinality(InGroup') = 0 <=> InGroup' = {})
    BY <1>2, FS_EmptySet, FS_CardinalityType
  <1> QED BY <1>1, <1>3 DEF Base, Counted

\* a step of a block's goroutine: the last one to leave the group releases those
\* who wait
LEMMA BlockStep ==
    ASSUME Base, Base', NEW s \in Submissions, ProcessOptimisticBlock(s)
    PROVE  /\ task[s] \in Active \cup {"spawned"} /\ task'[s] \in Active \cup {"done"}
           /\ \A t \in Submissions \ {s} : task'[t] = task[t]
           /\ UNCHANGED <<handlers, history, cache, snapshot>>
           /\ \/ UNCHANGED <<updater, job>>
              \/ /\ updater' = Released(updater) /\ job' = Released(job)
                 /\ InGroup' = {}
  <1>1. task[s] \in Active \cup {"spawned"} /\ task'[s] \in Active \cup {"done"}
    BY DEF ProcessOptimisticBlock, BeginTask, CheckContext, FinishSimulation, StartDemotion,
           ReadCollateralID, UpdateStatus, InsertDemotion, Active, Base, TypesOK, TypesHandlers
  <1>2. UNCHANGED <<handlers, history, cache, snapshot>>
    BY DEF ProcessOptimisticBlock, BeginTask, CheckContext, FinishSimulation, StartDemotion,
           ReadCollateralID, UpdateStatus, InsertDemotion, shared, waits, Done
  <1>3. UNCHANGED <<updater, job>> \/ Done
    BY DEF ProcessOptimisticBlock, BeginTask, CheckContext, FinishSimulation, StartDemotion,
           ReadCollateralID, UpdateStatus, InsertDemotion, waits
  <1>4. ASSUME Done
        PROVE  \/ UNCHANGED <<updater, job>>
               \/ updater' = Released(updater) /\ job' = Released(job) /\ InGroup' = {}
    <2>1. CASE optimisticBlocks = 1
      BY <1>4, <2>1, GroupCount DEF Done
    <2>2. CASE optimisticBlocks # 1
      BY <1>4, <2>2 DEF Done
    <2> QED BY <2>1, <2>2
  <1> QED BY <1>1, <1>2, <1>3, <1>4, OneTask

LEMMA ReleasedOne ==
    ASSUME NEW D, NEW f, DOMAIN f = D, NEW d \in D
    PROVE  Released(f)[d] = IF f[d] = "waiting" THEN "released" ELSE f[d]
  BY DEF Released

LEMMA CoveredStep == ASSUME Base, Base', Covered, Next PROVE Covered'
  <1> USE DEF Base, TypesOK
  <1>0. /\ updater \in [Slots -> Waiting \cup {"reading", "filling"}]
        /\ covered \in [Slots -> SUBSET Submissions]
        /\ DOMAIN updater = Slots
    BY DEF TypesShared, TypesHistory
  <1>1. CASE UNCHANGED <<updater, covered, task>>
    BY <1>1 DEF Covered
  <1>2. ASSUME NEW h \in Slots, ProcessNewSlot(h) \/ UpdaterWakes(h) \/ SetOptimisticSlot(h)
                                \/ ReadBuilders(h) \/ FillCache(h)
        PROVE  Covered'
    <2>1. UNCHANGED <<covered, task>>
      BY <1>2 DEF ProcessNewSlot, UpdaterWakes, SetOptimisticSlot, ReadBuilders, FillCache, history
    <2>2. /\ \A g \in Slots \ {h} : updater'[g] = updater[g]
          /\ updater'[h] = "spawned" \/ (updater[h] \in Past /\ updater'[h] \in Past)
      BY <1>0, <1>2 DEF ProcessNewSlot, UpdaterWakes, SetOptimisticSlot, ReadBuilders, FillCache, Past
    <2> QED BY <2>1, <2>2 DEF Covered, Past
  <1>3. ASSUME NEW h \in Slots, UpdaterWaits(h) PROVE Covered'
    <2>1. /\ UNCHANGED task /\ covered'[h] = InGroup /\ updater'[h] = CallWait
          /\ \A g \in Slots \ {h} : updater'[g] = updater[g] /\ covered'[g] = covered[g]
      BY <1>0, <1>3 DEF UpdaterWaits
    <2>2. updater'[h] = "waiting" \/ (updater'[h] = "returned" /\ covered'[h] = {})
      BY <2>1, GroupCount DEF CallWait
    <2> QED BY <2>1, <2>2 DEF Covered, InGroup, Past
  <1>4. ASSUME NEW s \in Submissions, ReadEntry(s) PROVE Covered'
    <2>1. /\ UNCHANGED updater
          /\ \A h \in Slots : covered'[h] = covered[h] \ {s}
          /\ \A t \in Submissions \ {s} : task'[t] = task[t]
      BY <1>4 DEF ReadEntry, waits, TypesHandlers
    <2> QED BY <1>0, <2>1 DEF Covered
  <1>5. ASSUME NEW s \in Submissions, Decide(s) PROVE Covered'
    <2>1. /\ UNCHANGED <<updater, covered>> /\ task[s] = "none"
          /\ \A t \in Submissions \ {s} : task'[t] = task[t]
      BY <1>5 DEF Decide, waits, history, TypesHandlers, Undecided, Early
    <2> QED BY <1>0, <2>1 DEF Covered, Active
  <1>6. ASSUME NEW s \in Submissions, ProcessOptimisticBlock(s) PROVE Covered'
    <2> SUFFICES ASSUME NEW h \in Slots, NEW t \in covered[h]
                 PROVE  /\ updater'[h] = "waiting" => task'[t] \in Active \cup {"done"}
                        /\ updater'[h] \in Past => task'[t] = "done"
      BY <1>6, BlockStep DEF Covered, history
    <2>1. t \in Submissions
      BY <1>0
    <2>2. /\ updater[h] = "waiting" => task'[t] \in Active \cup {"done"}
          /\ updater[h] \in Past => task'[t] = "done"
      BY <1>6, <2>1, BlockStep DEF Covered, Active
    <2>3. CASE UNCHANGED updater
      BY <2>2, <2>3
    <2>4. CASE updater' = Released(updater) /\ InGroup' = {}
      <3>1. updater'[h] = IF updater[h] = "waiting" THEN "released" ELSE updater[h]
        BY <1>0, <2>4, ReleasedOne
      <3>2. task'[t] \notin Active
        BY <2>1, <2>4 DEF InGroup
      <3> QED BY <2>2, <3>1, <3>2
    <2> QED BY <1>6, <2>3, <2>4, BlockStep
  <1>7. ASSUME NEW s \in Submissions,
               CheckEntry(s) \/ Respond(s) \/ DeliverPayload(s) \/ GetPayloadJob(s)
        PROVE  UNCHANGED <<updater, covered, task>>
    BY <1>7 DEF CheckEntry, Respond, DeliverPayload, GetPayloadJob, JobWaits, JobWakes,
                CheckDemotion, waits, history
  <1>8. ASSUME InternalAPI PROVE UNCHANGED <<updater, covered, task>>
    BY <1>8 DEF InternalAPI, SetStatus, SetCollateral, UpdateBuilderStatus, waits, history
  <1> QED
    BY <1>1, <1>2, <1>3, <1>4, <1>5, <1>6, <1>7, <1>8
    DEF Next, UpdateOptimisticSlot, SubmitNewBlock

LEMMA CoveredInvariance == Spec => []Covered
  <1>1. Init => Covered
    BY DEF Init, Covered
  <1>2. Covered /\ UNCHANGED vars => Covered'
    BY DEF Covered, vars, waits, history
  <1> QED BY <1>1, <1>2, CoveredStep, BaseInvariance, PTL DEF Spec

\* Once the Wait of updateOptimisticSlot has returned, every block that was in
\* the group when it was called has left it, and the demotion of one that failed
\* is in both tables.
THEOREM WaitsCoverDemotions == Spec => []WaitCoversDemotions
  <1>1. Base /\ Covered /\ Demoted /\ Recorded => WaitCoversDemotions
    <2> SUFFICES ASSUME Base, Covered, Demoted, Recorded,
                        NEW h \in Slots, updater[h] \notin {"none", "spawned", "waiting"},
                        NEW s \in covered[h]
                 PROVE  /\ task[s] = "done"
                        /\ faults = 0 /\ s \in rejected =>
                               /\ s \in demotions
                               /\ db[Builder(s)].demoted \/ Builder(s) \in spared
      BY DEF WaitCoversDemotions, Builder
    <2>1. updater[h] \in Past
      BY DEF Base, TypesOK, TypesShared, Waiting, Past
    <2>2. task[s] = "done"
      BY <2>1 DEF Covered
    <2> QED BY <2>2 DEF Demoted, RowDemoted, Recorded
  <1> QED BY <1>1, BaseInvariance, CoveredInvariance, DemotedInvariance, RecordedInvariance, PTL

-----------------------------------------------------------------------------
(* The cache *)

LEMMA SparedGrows == ASSUME Next PROVE spared \subseteq spared'
  <1>1. ASSUME InternalAPI PROVE spared \subseteq spared'
    BY <1>1 DEF InternalAPI, SetStatus, SetCollateral, UpdateBuilderStatus
  <1>2. ASSUME NEW h \in Slots, ProcessNewSlot(h) \/ UpdateOptimisticSlot(h)
        PROVE  UNCHANGED spared
    BY <1>2 DEF ProcessNewSlot, UpdateOptimisticSlot, UpdaterWaits, UpdaterWakes,
                SetOptimisticSlot, ReadBuilders, FillCache, operator
  <1>3. ASSUME NEW s \in Submissions, \/ SubmitNewBlock(s) \/ ProcessOptimisticBlock(s)
                                      \/ DeliverPayload(s) \/ GetPayloadJob(s)
        PROVE  UNCHANGED spared
    BY <1>3 DEF SubmitNewBlock, ReadEntry, CheckEntry, Decide, Respond, ProcessOptimisticBlock,
                BeginTask, CheckContext, FinishSimulation, StartDemotion, ReadCollateralID,
                UpdateStatus, InsertDemotion, DeliverPayload, GetPayloadJob, JobWaits, JobWakes,
                CheckDemotion, operator
  <1> QED BY <1>1, <1>2, <1>3 DEF Next

\* The builders are read after the Wait, so the snapshot has the demotions of the
\* blocks it covered; and none of these fails later.
LEMMA SnapshotStep ==
    ASSUME Base, Base', Demoted, Covered, InSnapshot, faults = 0, Next
    PROVE  InSnapshot'
  <1> USE DEF Base, TypesOK
  <1>0. /\ \A s \in Submissions : Builder(s)' = Builder(s) /\ Builder(s) \in Builders
        /\ covered \in [Slots -> SUBSET Submissions]
        /\ updater \in [Slots -> Waiting \cup {"reading", "filling"}]
        /\ DOMAIN updater = Slots
    BY LoadIsFixed, RequestType DEF TypesShared, TypesHistory, Builder
  <1> SUFFICES ASSUME NEW h \in Slots, updater'[h] = "filling",
                      NEW s \in covered'[h] \cap rejected', s \in Submissions
               PROVE  Builder(s) \in spared' \/ snapshot'[h][Builder(s)].demoted
    <2>1. rejected' \subseteq Submissions
      BY DEF TypesTables
    <2> QED BY <1>0, <2>1 DEF InSnapshot
  <1>1. CASE /\ updater[h] = "filling" /\ snapshot'[h] = snapshot[h]
             /\ s \in covered[h] /\ s \in rejected
    BY <1>1, SparedGrows DEF InSnapshot
  <1>2. CASE ReadBuilders(h)
    <2>1. updater[h] = "reading" /\ UNCHANGED <<covered, rejected, spared>>
      BY <1>2 DEF ReadBuilders, history, operator
    <2>2. task[s] = "done"
      BY <2>1 DEF Covered, Past
    <2>3. db[Builder(s)].demoted \/ Builder(s) \in spared
      BY <2>1, <2>2 DEF Demoted, RowDemoted
    <2>4. snapshot'[h] = [b \in Builders |-> Status(db[b])]
      BY <1>0, <1>2 DEF ReadBuilders, TypesShared
    <2> QED BY <1>0, <2>1, <2>3, <2>4 DEF Status
  <1>3. ASSUME NEW g \in Slots,
               \/ ProcessNewSlot(g) \/ UpdaterWaits(g) \/ UpdaterWakes(g) \/ SetOptimisticSlot(g)
               \/ (ReadBuilders(g) /\ g # h) \/ FillCache(g)
        PROVE  /\ updater[h] = "filling" /\ snapshot'[h] = snapshot[h]
               /\ s \in covered[h] /\ s \in rejected
    <2>1. g # h /\ updater'[h] = updater[h]
      BY <1>0, <1>3 DEF ProcessNewSlot, UpdaterWaits, UpdaterWakes, SetOptimisticSlot,
                        ReadBuilders, FillCache, CallWait
    <2>2. /\ UNCHANGED rejected /\ covered'[h] = covered[h] /\ snapshot'[h] = snapshot[h]
      BY <1>0, <1>3, <2>1 DEF ProcessNewSlot, UpdaterWaits, UpdaterWakes, SetOptimisticSlot,
                        ReadBuilders, FillCache, history, TypesShared
    <2> QED BY <2>1, <2>2
  <1>4. ASSUME NEW t \in Submissions, SubmitNewBlock(t)
        PROVE  /\ updater[h] = "filling" /\ snapshot'[h] = snapshot[h]
               /\ s \in covered[h] /\ s \in rejected
    BY <1>0, <1>4 DEF SubmitNewBlock, ReadEntry, CheckEntry, Decide, Respond, waits, history
  <1>5. ASSUME NEW t \in Submissions, ProcessOptimisticBlock(t)
        PROVE  /\ updater[h] = "filling" /\ snapshot'[h] = snapshot[h]
               /\ s \in covered[h] /\ s \in rejected
    <2>1. s \in covered[h] /\ snapshot'[h] = snapshot[h]
      BY <1>5, BlockStep DEF history
    <2>2. updater[h] = "filling"
      BY <1>0, <1>5, BlockStep, ReleasedOne
    <2>3. task[s] = "done"
      BY <2>1, <2>2 DEF Covered, Past
    <2>4. s # t
      BY <1>5, <2>3, BlockStep DEF Active
    <2>5. rejected' \subseteq rejected \cup {t}
      BY <1>5 DEF ProcessOptimisticBlock, BeginTask, CheckContext, FinishSimulation, StartDemotion,
                  ReadCollateralID, UpdateStatus, InsertDemotion
    <2> QED BY <2>1, <2>2, <2>4, <2>5
  <1>6. ASSUME (\E t \in Submissions : DeliverPayload(t) \/ GetPayloadJob(t)) \/ InternalAPI
        PROVE  /\ updater[h] = "filling" /\ snapshot'[h] = snapshot[h]
               /\ s \in covered[h] /\ s \in rejected
    <2>1. UNCHANGED <<updater, snapshot, covered, rejected>>
      BY <1>6 DEF DeliverPayload, GetPayloadJob, JobWaits, JobWakes, CheckDemotion, InternalAPI,
                  SetStatus, SetCollateral, UpdateBuilderStatus, waits, history
    <2> QED BY <2>1
  <1> QED BY <1>1, <1>2, <1>3, <1>4, <1>5, <1>6 DEF Next, UpdateOptimisticSlot

\* the rest of the way: from the snapshot into the cache, the entries and the
\* decisions
LEMMA KnownStep == ASSUME Base, Base', Demoted, Covered, Known, Next PROVE Known'
  <1> USE DEF Base, TypesOK
  <1> DEFINE NoneTaken == \A t \in warned : mode[t] = "optimistic" => Builder(t) \in spared
  <1>0. \A s \in Submissions : Builder(s)' = Builder(s) /\ Builder(s) \in Builders
    BY LoadIsFixed, RequestType DEF TypesShared, Builder
  <1> SUFFICES ASSUME faults' = 0 PROVE (InSnapshot /\ InCache /\ InEntry /\ NoneTaken)'
    BY DEF Known
  <1>1. faults = 0 /\ InSnapshot /\ InCache /\ InEntry /\ NoneTaken
    BY FaultsAndOps DEF Known
  <1>2. InSnapshot'
    BY <1>1, SnapshotStep
  <1>3. warned \subseteq Submissions /\ failuresRead \subseteq Builders
    BY DEF TypesHistory
  <1>4. CASE UNCHANGED <<cache, failuresRead, warned, handlers>>
    BY <1>0, <1>1, <1>2, <1>3, <1>4, SparedGrows DEF InCache, InEntry, handlers
  <1>5. ASSUME NEW h \in Slots, FillCache(h) PROVE (InCache /\ InEntry /\ NoneTaken)'
    <2>1. /\ UNCHANGED <<warned, handlers, spared>> /\ cache' = snapshot[h]
          /\ failuresRead' = FailuresCovered(h) /\ updater[h] = "filling"
      BY <1>5 DEF FillCache, operator
    <2>2. \A b \in FailuresCovered(h) : b \in spared \/ snapshot[h][b].demoted
      BY <1>1, <2>1 DEF InSnapshot, FailuresCovered, Builder
    <2>3. InCache'
      BY <2>1, <2>2 DEF InCache
    <2>4. (InEntry /\ NoneTaken)'
      BY <1>0, <1>1, <1>3, <2>1 DEF InEntry, handlers
    <2> QED BY <2>3, <2>4
  <1>6. ASSUME NEW s \in Submissions, ReadEntry(s) PROVE (InCache /\ InEntry /\ NoneTaken)'
    <2>1. /\ UNCHANGED <<cache, failuresRead, spared>>
          /\ warned' = IF Builder(s) \in failuresRead THEN warned \cup {s} ELSE warned \ {s}
      BY <1>6 DEF ReadEntry, shared, operator, Builder
    <2>2. /\ entry'[s] = cache[Builder(s)] /\ mode'[s] = "none"
          /\ \A t \in Submissions \ {s} : /\ pc'[t] = pc[t] /\ entry'[t] = entry[t]
                                          /\ mode'[t] = mode[t]
      BY <1>6 DEF ReadEntry, TypesHandlers, Builder
    <2>3. InCache'
      BY <1>1, <2>1 DEF InCache
    <2>4. InEntry'
      BY <1>0, <1>1, <1>3, <2>1, <2>2 DEF InEntry, InCache
    <2>5. NoneTaken'
      BY <1>0, <1>1, <1>3, <2>1, <2>2
    <2> QED BY <2>3, <2>4, <2>5
  <1>7. ASSUME NEW s \in Submissions, CheckEntry(s) \/ Decide(s) \/ Respond(s)
        PROVE  (InCache /\ InEntry /\ NoneTaken)'
    <2>1. UNCHANGED <<cache, failuresRead, warned, spared>>
      BY <1>7 DEF CheckEntry, Decide, Respond, shared, history, operator
    <2>2. /\ \A t \in Submissions \ {s} : /\ pc'[t] = pc[t] /\ entry'[t] = entry[t]
                                          /\ mode'[t] = mode[t]
          /\ pc'[s] \in {"entered", "checked"} => pc[s] = "entered" /\ entry'[s] = entry[s]
          /\ mode'[s] = "optimistic" =>
                 mode[s] = "optimistic" \/ (pc[s] = "checked" /\ ~entry[s].demoted)
      BY <1>7 DEF CheckEntry, Decide, Respond, TakeOptimistically, TypesHandlers
    <2>3. InCache'
      BY <1>1, <2>1 DEF InCache
    <2>4. InEntry'
      BY <1>0, <1>1, <1>3, <2>1, <2>2 DEF InEntry
    <2>5. NoneTaken'
      BY <1>0, <1>1, <1>3, <2>1, <2>2 DEF InEntry
    <2> QED BY <2>3, <2>4, <2>5
  <1>8. ASSUME NEW h \in Slots, \/ ProcessNewSlot(h) \/ UpdaterWaits(h) \/ UpdaterWakes(h)
                                \/ SetOptimisticSlot(h) \/ ReadBuilders(h)
        PROVE  UNCHANGED <<cache, failuresRead, warned, handlers>>
    BY <1>8 DEF ProcessNewSlot, UpdaterWaits, UpdaterWakes, SetOptimisticSlot, ReadBuilders,
                shared, history
  <1>9. ASSUME NEW s \in Submissions, DeliverPayload(s) \/ GetPayloadJob(s)
        PROVE  UNCHANGED <<cache, failuresRead, warned, handlers>>
    BY <1>9 DEF DeliverPayload, GetPayloadJob, JobWaits, JobWakes, CheckDemotion, shared, history
  <1>10. ASSUME NEW s \in Submissions, ProcessOptimisticBlock(s)
         PROVE  UNCHANGED <<cache, failuresRead, warned, handlers>>
    BY <1>10, BlockStep DEF history
  <1>11. ASSUME InternalAPI PROVE UNCHANGED <<cache, failuresRead, warned, handlers>>
    BY <1>11 DEF InternalAPI, SetStatus, SetCollateral, UpdateBuilderStatus, shared, history
  <1> QED
    BY <1>2, <1>4, <1>5, <1>6, <1>7, <1>8, <1>9, <1>10, <1>11
    DEF Next, UpdateOptimisticSlot, SubmitNewBlock

\* A failure that updateOptimisticSlot waited for ends the optimistic treatment
\* of its builder, as soon as the cache is filled again.
THEOREM CoveredFailuresEndOptimism == Spec => []CoveredFailureEndsOptimism
  <1>1. Init => Known
    BY DEF Init, Known, InSnapshot, InCache, InEntry
  <1>2. Known /\ UNCHANGED vars => Known'
    BY DEF Known, InSnapshot, InCache, InEntry, Builder, Request, vars, shared, waits, handlers,
           operator, history
  <1>3. Known => CoveredFailureEndsOptimism
    BY DEF Known, CoveredFailureEndsOptimism, Builder
  <1> QED
    BY <1>1, <1>2, <1>3, KnownStep, BaseInvariance, DemotedInvariance, CoveredInvariance, PTL
    DEF Spec

-----------------------------------------------------------------------------
(* Refunds *)

LEMMA LookedStep == ASSUME Base, Base', Looked, Next PROVE Looked'
  <1> USE DEF Base, TypesOK
  <1>0. job \in [Submissions -> Waiting] /\ DOMAIN job = Submissions
    BY DEF TypesShared
  <1>1. CASE UNCHANGED <<job, overlooked, task>>
    BY <1>1 DEF Looked
  <1>2. ASSUME NEW s \in Submissions, ReadEntry(s) \/ Decide(s) PROVE Looked'
    <2>1. /\ UNCHANGED <<job, overlooked>> /\ job[s] = "none"
          /\ \A t \in Submissions \ {s} : task'[t] = task[t]
      BY <1>2 DEF ReadEntry, Decide, waits, history, TypesHandlers, Undecided, Early
    <2> QED BY <2>1 DEF Looked, Past
  <1>3. ASSUME NEW s \in Submissions, ProcessOptimisticBlock(s) PROVE Looked'
    <2> SUFFICES ASSUME NEW t \in Submissions, t \notin overlooked
                 PROVE  /\ job'[t] = "waiting" => task'[t] # "spawned"
                        /\ job'[t] \in Past => task'[t] \in {"none", "done"}
      BY <1>3, BlockStep DEF Looked, history
    <2>1. /\ job[t] = "waiting" => task'[t] # "spawned"
          /\ job[t] \in Past => task'[t] \in {"none", "done"}
      BY <1>3, BlockStep DEF Looked, Active
    <2>2. CASE UNCHANGED job
      BY <2>1, <2>2
    <2>3. CASE job' = Released(job) /\ InGroup' = {}
      <3>1. job'[t] = IF job[t] = "waiting" THEN "released" ELSE job[t]
        BY <1>0, <2>3, ReleasedOne
      <3>2. task'[t] \notin Active /\ task'[t] \in {"none", "spawned", "done"} \cup Active
        BY <2>3 DEF InGroup, TypesHandlers
      <3> QED BY <2>1, <3>1, <3>2
    <2> QED BY <1>3, <2>2, <2>3, BlockStep
  <1>4. ASSUME NEW s \in Submissions, JobWaits(s) PROVE Looked'
    <2>1. /\ UNCHANGED task /\ job'[s] = CallWait
          /\ \A t \in Submissions \ {s} : job'[t] = job[t]
          /\ overlooked' = IF task[s] = "spawned" THEN overlooked \cup {s} ELSE overlooked \ {s}
      BY <1>0, <1>4 DEF JobWaits
    <2>2. job'[s] = "waiting" \/ (job'[s] = "returned" /\ s \notin InGroup)
      BY <2>1, GroupCount DEF CallWait
    <2>3. task[s] \in {"none", "spawned", "done"} \cup Active
      BY DEF TypesHandlers
    <2> QED BY <2>1, <2>2, <2>3 DEF Looked, InGroup, Past
  <1>5. ASSUME NEW s \in Submissions, DeliverPayload(s) \/ JobWakes(s) \/ CheckDemotion(s)
        PROVE  Looked'
    <2>1. /\ UNCHANGED <<task, overlooked>>
          /\ \A t \in Submissions \ {s} : job'[t] = job[t]
          /\ job'[s] = "spawned" \/ (job[s] \in Past /\ job'[s] \in Past)
      BY <1>0, <1>5 DEF DeliverPayload, JobWakes, CheckDemotion, history, Past
    <2> QED BY <2>1 DEF Looked, Past
  <1>6. ASSUME NEW h \in Slots, ProcessNewSlot(h) \/ UpdateOptimisticSlot(h)
        PROVE  UNCHANGED <<job, overlooked, task>>
    BY <1>6 DEF ProcessNewSlot, UpdateOptimisticSlot, UpdaterWaits, UpdaterWakes,
                SetOptimisticSlot, ReadBuilders, FillCache, history
  <1>7. ASSUME (\E s \in Submissions : CheckEntry(s) \/ Respond(s)) \/ InternalAPI
        PROVE  UNCHANGED <<job, overlooked, task>>
    BY <1>7 DEF CheckEntry, Respond, InternalAPI, SetStatus, SetCollateral, UpdateBuilderStatus,
                waits, history
  <1> QED
    BY <1>1, <1>2, <1>3, <1>4, <1>5, <1>6, <1>7 DEF Next, SubmitNewBlock, GetPayloadJob

LEMMA RefundedStep == ASSUME Base, Base', Looked, Refunded, Next PROVE Refunded'
  <1> USE DEF Base, TypesOK
  <1>0. job \in [Submissions -> Waiting] /\ DOMAIN job = Submissions
    BY DEF TypesShared
  <1> SUFFICES ASSUME faults' = 0, NEW r \in Submissions, job'[r] = "done", r \in demotions'
               PROVE  r \in refunds' \cup overlooked'
    BY DEF Refunded
  <1>1. faults = 0 /\ ~Fault
    BY FaultsAndOps
  <1>2. ASSUME job[r] = "done", r \in demotions PROVE r \in refunds \cup overlooked
    BY <1>1, <1>2 DEF Refunded
  <1>3. CASE UNCHANGED <<job, demotions, refunds, overlooked>>
    BY <1>2, <1>3
  <1>4. ASSUME NEW s \in Submissions, ProcessOptimisticBlock(s)
        PROVE  r \in refunds' \cup overlooked'
    <2>1. UNCHANGED overlooked /\ job[r] = "done"
      BY <1>0, <1>4, BlockStep, ReleasedOne DEF history
    <2>2. UNCHANGED refunds /\ (UNCHANGED demotions \/ InsertDemotion(s))
      BY <1>4 DEF ProcessOptimisticBlock, BeginTask, CheckContext, FinishSimulation, StartDemotion,
                  ReadCollateralID, UpdateStatus, InsertDemotion, tables
    <2>3. CASE UNCHANGED demotions
      BY <1>2, <2>1, <2>2, <2>3
    <2>4. CASE InsertDemotion(s)
      <3>1. demotions' = demotions \cup {s} /\ task[s] = "inserting"
        BY <1>1, <2>4 DEF InsertDemotion
      <3>2. r = s => r \in overlooked
        BY <2>1, <3>1 DEF Looked, Past
      <3> QED BY <1>2, <2>1, <2>2, <3>1, <3>2
    <2> QED BY <2>2, <2>3, <2>4
  <1>5. ASSUME NEW s \in Submissions, CheckDemotion(s) PROVE r \in refunds' \cup overlooked'
    <2>1. UNCHANGED <<demotions, overlooked>> /\ (s \in demotions => refunds' = refunds \cup {s})
      BY <1>1, <1>5 DEF CheckDemotion, history
    <2>2. refunds \subseteq refunds' /\ \A t \in Submissions \ {s} : job'[t] = job[t]
      BY <1>0, <1>1, <1>5 DEF CheckDemotion
    <2> QED BY <1>2, <2>1, <2>2
  <1>6. ASSUME NEW s \in Submissions, DeliverPayload(s) \/ JobWaits(s) \/ JobWakes(s)
        PROVE  r \in refunds' \cup overlooked'
    <2>1. /\ UNCHANGED <<demotions, refunds>> /\ overlooked \ {s} \subseteq overlooked'
          /\ \A t \in Submissions \ {s} : job'[t] = job[t]
          /\ UNCHANGED job \/ job'[s] # "done"
          /\ UNCHANGED job => UNCHANGED overlooked
      BY <1>0, <1>6 DEF DeliverPayload, JobWaits, JobWakes, CallWait, tables, history
    <2> QED BY <1>2, <2>1
  <1>7. ASSUME NEW h \in Slots, ProcessNewSlot(h) \/ UpdateOptimisticSlot(h)
        PROVE  UNCHANGED <<job, demotions, refunds, overlooked>>
    BY <1>7 DEF ProcessNewSlot, UpdateOptimisticSlot, UpdaterWaits, UpdaterWakes,
                SetOptimisticSlot, ReadBuilders, FillCache, tables, history
  <1>8. ASSUME (\E s \in Submissions : SubmitNewBlock(s)) \/ InternalAPI
        PROVE  UNCHANGED <<job, demotions, refunds, overlooked>>
    BY <1>8 DEF SubmitNewBlock, ReadEntry, CheckEntry, Decide, Respond, InternalAPI, SetStatus,
                SetCollateral, UpdateBuilderStatus, waits, tables, history
  <1> QED BY <1>3, <1>4, <1>5, <1>6, <1>7, <1>8 DEF Next, GetPayloadJob

\* A delivered block that was demoted misses its refund only if its goroutine had
\* not called Add when that of getPayload called Wait.
THEOREM RefundsMissedOnlyIfOverlooked == Spec => []RefundMissedOnlyIfOverlooked
  <1>1. Init => Looked /\ Refunded
    BY DEF Init, Looked, Refunded, Past
  <1>2. Base /\ Base' /\ Looked /\ Refunded /\ [Next]_vars => (Looked /\ Refunded)'
    <2>1. Looked /\ Refunded /\ UNCHANGED vars => (Looked /\ Refunded)'
      BY DEF Looked, Refunded, vars, waits, tables, history
    <2> QED BY <2>1, LookedStep, RefundedStep
  <1>3. Refunded => RefundMissedOnlyIfOverlooked
    BY DEF Refunded, RefundMissedOnlyIfOverlooked
  <1> QED BY <1>1, <1>2, <1>3, BaseInvariance, PTL DEF Spec

-----------------------------------------------------------------------------
(* Waits *)

\* A goroutine that sleeps in Wait sleeps because of a block in the group: no
\* Done that emptied the group has passed it by.
SleepersHaveReason ==
    (\E h \in Slots : updater[h] = "waiting") \/ (\E s \in Submissions : job[s] = "waiting")
        => InGroup # {}

LEMMA SleepersStep == ASSUME Base, Base', SleepersHaveReason, Next PROVE SleepersHaveReason'
  <1> DEFINE Sleepers == \/ \E h \in Slots : updater[h] = "waiting"
                         \/ \E s \in Submissions : job[s] = "waiting"
  <1>1. /\ optimisticBlocks \in Nat /\ (optimisticBlocks # 0 <=> InGroup # {})
        /\ optimisticBlocks' \in Nat /\ (optimisticBlocks' # 0 <=> InGroup' # {})
    BY GroupCount
  <1>2. updater \in [Slots -> Waiting \cup {"reading", "filling"}] /\ job \in [Submissions -> Waiting]
    BY DEF Base, TypesOK, TypesShared
  <1>3. CASE UNCHANGED optimisticBlocks /\ (Sleepers' => Sleepers)
    BY <1>1, <1>3 DEF SleepersHaveReason
  <1>4. CASE UNCHANGED optimisticBlocks /\ optimisticBlocks # 0
    BY <1>1, <1>4 DEF SleepersHaveReason
  <1>5. CASE Add
    BY <1>1, <1>5 DEF Add, SleepersHaveReason
  <1>6. CASE Done
    <2>1. CASE optimisticBlocks = 1
      <3>1. updater' = Released(updater) /\ job' = Released(job)
        BY <1>6, <2>1 DEF Done
      <3>2. ~Sleepers'
        BY <1>2, <3>1 DEF Released
      <3> QED BY <3>2 DEF SleepersHaveReason
    <2>2. CASE optimisticBlocks # 1
      BY <1>1, <1>6, <2>2 DEF Done, SleepersHaveReason
    <2> QED BY <2>1, <2>2
  <1>7. ASSUME NEW h \in Slots, ProcessNewSlot(h) \/ UpdateOptimisticSlot(h)
        PROVE  SleepersHaveReason'
    <2>1. UNCHANGED <<optimisticBlocks, job>>
      BY <1>7 DEF ProcessNewSlot, UpdateOptimisticSlot, UpdaterWaits, UpdaterWakes,
                  SetOptimisticSlot, ReadBuilders, FillCache
    <2>2. UNCHANGED updater \/ \E x : /\ updater' = [updater EXCEPT ![h] = x]
                                      /\ x = "waiting" => optimisticBlocks # 0
      BY <1>7 DEF ProcessNewSlot, UpdateOptimisticSlot, UpdaterWaits, UpdaterWakes,
                  SetOptimisticSlot, ReadBuilders, FillCache, CallWait
    <2>3. CASE optimisticBlocks = 0
      <3>1. Sleepers' => Sleepers
        BY <1>2, <2>1, <2>2, <2>3
      <3> QED BY <1>3, <2>1, <3>1
    <2> QED BY <1>4, <2>1, <2>3
  <1>8. ASSUME NEW s \in Submissions, DeliverPayload(s) \/ GetPayloadJob(s)
        PROVE  SleepersHaveReason'
    <2>1. UNCHANGED <<optimisticBlocks, updater>>
      BY <1>8 DEF DeliverPayload, GetPayloadJob, JobWaits, JobWakes, CheckDemotion
    <2>2. UNCHANGED job \/ \E x : /\ job' = [job EXCEPT ![s] = x]
                                  /\ x = "waiting" => optimisticBlocks # 0
      BY <1>8 DEF DeliverPayload, GetPayloadJob, JobWaits, JobWakes, CheckDemotion, CallWait
    <2>3. CASE optimisticBlocks = 0
      <3>1. Sleepers' => Sleepers
        BY <1>2, <2>1, <2>2, <2>3
      <3> QED BY <1>3, <2>1, <3>1
    <2> QED BY <1>4, <2>1, <2>3
  <1>9. ASSUME NEW s \in Submissions, ProcessOptimisticBlock(s) PROVE SleepersHaveReason'
    <2>1. CASE UNCHANGED <<optimisticBlocks, updater, job>>
      BY <1>3, <2>1
    <2> QED
      BY <1>5, <1>6, <1>9, <2>1 DEF ProcessOptimisticBlock, BeginTask, CheckContext,
         FinishSimulation, StartDemotion, ReadCollateralID, UpdateStatus, InsertDemotion, waits
  <1>10. CASE UNCHANGED <<optimisticBlocks, updater, job>>
    BY <1>3, <1>10
  <1> QED
    BY <1>7, <1>8, <1>9, <1>10 DEF Next, SubmitNewBlock, ReadEntry, CheckEntry, Decide, Respond,
       InternalAPI, SetStatus, SetCollateral, UpdateBuilderStatus, waits

\* The wait of updateOptimisticSlot and of getPayload's goroutine never goes on
\* without a block in processing, however submissions, heads and deliveries overlap:
\* the safety half of HeadsAreProcessed.
THEOREM NoWaitForgotten == Spec => []SleepersHaveReason
  <1>1. Init => SleepersHaveReason
    BY DEF Init, SleepersHaveReason
  <1>2. SleepersHaveReason /\ UNCHANGED vars => SleepersHaveReason'
    BY DEF SleepersHaveReason, InGroup, vars, waits
  <1> QED BY <1>1, <1>2, SleepersStep, BaseInvariance, PTL DEF Spec
=============================================================================
