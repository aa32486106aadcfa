----------------------------- MODULE Optimistic -----------------------------
(***************************************************************************)
(* Optimistic block processing (services/api/service.go): a block whose    *)
(* builder has more collateral than the block is worth is accepted before  *)
(* it was simulated; if its simulation fails later the builder is demoted, *)
(* and if the block was delivered meanwhile a refund is recorded.          *)
(*                                                                         *)
(* Actors: submitNewBlock handlers, one processOptimisticBlock goroutine   *)
(* for each optimistic block, one updateOptimisticSlot goroutine for each  *)
(* new head, one goroutine for each getPayload call, and the operator      *)
(* behind the internal API.  They share the WaitGroup optimisticBlocks,    *)
(* optimisticSlot and blockBuildersCache, none of them under a lock, and   *)
(* the builder and demotion tables of the database.                        *)
(*                                                                         *)
(* IsHighPrio is written wherever IsBlacklisted is, from the same source,  *)
(* and is left out: blacklisted stands for both where they are written.    *)
(***************************************************************************)
EXTENDS Naturals, FiniteSets

CONSTANTS
    Builders,
    Submissions,    \* the submitNewBlock requests
    InitialRow,     \* builder -> its row of the builder table at the start
    Collaterals,    \* what the operator may set: [id, collateral]
    NoID,           \* the empty collateral_id
    MaxSlot,        \* bound: the last head slot
    Loads           \* what the relay is put to, and more bounds: see load

Slots == 1..MaxSlot

IDs == {NoID} \cup {c.id : c \in Collaterals} \cup {InitialRow[b].id : b \in Builders}
Entry == [demoted : BOOLEAN, blacklisted : BOOLEAN, collateral : Nat]
Row == [demoted : BOOLEAN, blacklisted : BOOLEAN, collateral : Nat, id : IDs]

ASSUME BoundsAssumption == MaxSlot \in Nat /\ IsFiniteSet(Submissions)

ASSUME RowsAssumption ==
    /\ InitialRow \in [Builders -> Row]
    /\ \A c \in Collaterals : c.collateral \in Nat

ASSUME LoadsAssumption ==
    Loads \subseteq [request : [Submissions -> [builder : Builders, slot : Nat, value : Nat]],
                    heads : SUBSET Slots, winners : SUBSET Submissions,
                    maxOps : Nat, maxFaults : Nat, recycle : BOOLEAN]

VARIABLES
    load,               \* what is submitted, and in which circumstances: chosen at
                        \* the beginning, and fixed
    headSlot,
    optimisticSlot,
    optimisticBlocks,   \* the counter of the WaitGroup
    cache,              \* blockBuildersCache
    updater,            \* head slot -> where its updateOptimisticSlot is
    snapshot,           \* head slot -> the builders it read from the database
    pc, entry, mode,    \* the handlers: builderEntry, and how the block was taken
    task,               \* submission -> where its processOptimisticBlock is
    newStatus,          \* demoteBuilder: the rest of the status, and the collateral ID
    job,                \* submission -> where its getPayload goroutine is
    panicked,           \* did a Wait find the WaitGroup in use again?
    db,                 \* the builder table
    demotions, refunds, \* the demotion table, and its rows with a refund
    calls,              \* operator: requests that read the collateral ID, and will update
    \* history and bounds
    rejected,           \* blocks the simulation node answered with an error
    spared,             \* builders whose demotion the operator took back, or made
                        \* miss them: see UpdateBuilderStatus and SetCollateral
    covered,            \* head slot -> the blocks in the group when its Wait was called
    failuresRead,       \* builders whose failed blocks the Wait before the latest
                        \* refill of the cache was for
    warned,             \* submissions that read the cache after such a refill
    overlooked,         \* delivered blocks whose goroutine had not called Add when the
                        \* Wait of their getPayload was called
    ops, faults

Request == load.request     \* submission -> [builder, slot, value]
Heads == load.heads         \* the slots with a block on the chain
Winners == load.winners     \* the blocks proposers may ask for
MaxOps == load.maxOps       \* bound: calls of the internal API
MaxFaults == load.maxFaults \* bound: failing database and simulation calls
Recycle == load.recycle     \* may a request be submitted again after its answer?

handlers == <<pc, entry, mode>>
shared == <<optimisticSlot, cache>>
waits == <<updater, snapshot, job>>
tables == <<db, demotions, refunds>>
operator == <<calls, spared, ops>>
history == <<covered, failuresRead, warned, overlooked>>
vars == <<load, headSlot, shared, optimisticBlocks, panicked, waits, handlers, task,
          newStatus, tables, rejected, operator, history, faults>>

Status(r) == [demoted |-> r.demoted, blacklisted |-> r.blacklisted, collateral |-> r.collateral]

\* the rows SetBlockBuilderStatus updates for a builder with this collateral ID
SameCollateral(b, id) == IF id = NoID THEN {b} ELSE {c \in Builders : db[c].id = id}

\* what the local variables hold while they are not in use
NoEntry == [demoted |-> FALSE, blacklisted |-> FALSE, collateral |-> 0]
NoUpdate == [blacklisted |-> FALSE, id |-> NoID]
NoSnapshot == [b \in Builders |-> NoEntry]

Init ==
    /\ load \in Loads
    /\ headSlot = 0 /\ optimisticSlot = 1
    /\ optimisticBlocks = 0 /\ panicked = FALSE
    /\ db = InitialRow
    /\ cache = [b \in Builders |-> Status(InitialRow[b])]
    /\ updater = [h \in Slots |-> "none"]
    /\ snapshot = [h \in Slots |-> NoSnapshot]
    /\ pc = [s \in Submissions |-> "idle"]
    /\ entry = [s \in Submissions |-> NoEntry]
    /\ mode = [s \in Submissions |-> "none"]
    /\ task = [s \in Submissions |-> "none"]
    /\ newStatus = [s \in Submissions |-> NoUpdate]
    /\ job = [s \in Submissions |-> "none"]
    /\ demotions = {} /\ refunds = {}
    /\ rejected = {}
    /\ calls = {} /\ spared = {} /\ ops = 0 /\ faults = 0
    /\ covered = [h \in Slots |-> {}]
    /\ failuresRead = {} /\ warned = {} /\ overlooked = {}

Fault == faults < MaxFaults /\ faults' = faults + 1

-----------------------------------------------------------------------------
(* sync.WaitGroup (external).  Wait returns at once when the counter is    *)
(* zero, else its caller sleeps until a Done brings the counter to zero,   *)
(* which releases every caller that sleeps.  A released caller that finds  *)
(* the counter in use again when it wakes up panics ("WaitGroup is reused  *)
(* before previous Wait has returned") and takes the process down.         *)

Released(f) == [x \in DOMAIN f |-> IF f[x] = "waiting" THEN "released" ELSE f[x]]

CallWait == IF optimisticBlocks = 0 THEN "returned" ELSE "waiting"

Add == optimisticBlocks' = optimisticBlocks + 1

\* the blocks between Add and Done
Active == {"added", "sent", "demoting", "reading", "updating", "inserting"}
InGroup == {s \in Submissions : task[s] \in Active}

Done ==
    /\ optimisticBlocks' = optimisticBlocks - 1
    /\ IF optimisticBlocks = 1
       THEN updater' = Released(updater) /\ job' = Released(job)
       ELSE UNCHANGED <<updater, job>>
    /\ UNCHANGED snapshot

-----------------------------------------------------------------------------
(* processNewSlot and updateOptimisticSlot *)

\* a new head: store it, start updateOptimisticSlot
ProcessNewSlot(h) ==
    /\ h \in Heads /\ h > headSlot
    /\ headSlot' = h
    /\ updater' = [updater EXCEPT ![h] = "spawned"]
    /\ UNCHANGED <<load, shared, optimisticBlocks, panicked, snapshot, job, handlers, task,
                   newStatus, tables, rejected, operator, history, faults>>

\* the slot moves on without waiting
UpdaterDoesNotWait(h) ==
    /\ updater[h] = "spawned"
    /\ updater' = [updater EXCEPT ![h] = "returned"]
    /\ covered' = [covered EXCEPT ![h] = InGroup]
    /\ UNCHANGED <<load, headSlot, shared, optimisticBlocks, panicked, snapshot, job, handlers,
                   task, newStatus, tables, rejected, operator, failuresRead, warned,
                   overlooked, faults>>

UpdaterWaits(h) ==
    /\ updater[h] = "spawned"
    /\ updater' = [updater EXCEPT ![h] = CallWait]
    /\ covered' = [covered EXCEPT ![h] = InGroup]
    /\ UNCHANGED <<load, headSlot, shared, optimisticBlocks, panicked, snapshot, job, handlers,
                   task, newStatus, tables, rejected, operator, failuresRead, warned,
                   overlooked, faults>>

UpdaterWakes(h) ==
    /\ updater[h] = "released"
    /\ IF optimisticBlocks = 0
       THEN updater' = [updater EXCEPT ![h] = "returned"] /\ UNCHANGED panicked
       ELSE panicked' = TRUE /\ UNCHANGED updater
    /\ UNCHANGED <<load, headSlot, shared, optimisticBlocks, snapshot, job, handlers, task,
                   newStatus, tables, rejected, operator, history, faults>>

SetOptimisticSlot(h) ==
    /\ updater[h] = "returned"
    /\ optimisticSlot' = h + 1
    /\ updater' = [updater EXCEPT ![h] = "reading"]
    /\ UNCHANGED <<load, headSlot, cache, optimisticBlocks, panicked, snapshot, job, handlers,
                   task, newStatus, tables, rejected, operator, history, faults>>

\* GetBlockBuilders; after an error the cache stays as it is
ReadBuilders(h) ==
    /\ updater[h] = "reading"
    /\ \/ /\ snapshot' = [snapshot EXCEPT ![h] = [b \in Builders |-> Status(db[b])]]
          /\ updater' = [updater EXCEPT ![h] = "filling"]
          /\ UNCHANGED faults
       \/ /\ Fault
          /\ updater' = [updater EXCEPT ![h] = "done"]
          /\ UNCHANGED snapshot
    /\ UNCHANGED <<load, headSlot, shared, optimisticBlocks, panicked, job, handlers, task,
                   newStatus, tables, rejected, operator, history>>

\* the builders of the failed blocks that updateOptimisticSlot(h) waited for
FailuresCovered(h) == {Request[s].builder : s \in covered[h] \cap rejected}

\* IsDemoted is not copied
FillCacheWithoutDemotion(h) ==
    /\ updater[h] = "filling"
    /\ cache' = [b \in Builders |-> [snapshot[h][b] EXCEPT !.demoted = FALSE]]
    /\ updater' = [updater EXCEPT ![h] = "done"]
    /\ snapshot' = [snapshot EXCEPT ![h] = NoSnapshot]
    /\ failuresRead' = FailuresCovered(h)
    /\ UNCHANGED <<load, headSlot, optimisticSlot, optimisticBlocks, panicked, job, handlers,
                   task, newStatus, tables, rejected, operator, covered, warned, overlooked,
                   faults>>

\* the loop that replaces the entries of the cache
FillCache(h) ==
    /\ updater[h] = "filling"
    /\ cache' = snapshot[h]
    /\ updater' = [updater EXCEPT ![h] = "done"]
    /\ snapshot' = [snapshot EXCEPT ![h] = NoSnapshot]
    /\ failuresRead' = FailuresCovered(h)
    /\ UNCHANGED <<load, headSlot, optimisticSlot, optimisticBlocks, panicked, job, handlers,
                   task, newStatus, tables, rejected, operator, covered, warned, overlooked,
                   faults>>

-----------------------------------------------------------------------------
(* handleSubmitNewBlock, the parts that matter here *)

\* Read the builder's entry from the cache.  A request may be sent again, but not
\* for a block that was delivered: the slot is closed then.
ReadEntry(s) ==
    /\ \/ pc[s] = "idle"
       \/ Recycle /\ pc[s] = "returned" /\ task[s] \in {"none", "done"} /\ job[s] = "none"
    /\ pc' = [pc EXCEPT ![s] = "entered"]
    /\ entry' = [entry EXCEPT ![s] = cache[Request[s].builder]]
    /\ mode' = [mode EXCEPT ![s] = "none"]
    /\ task' = [task EXCEPT ![s] = "none"]
    /\ covered' = [h \in Slots |-> covered[h] \ {s}]
    /\ warned' = IF Request[s].builder \in failuresRead THEN warned \cup {s} ELSE warned \ {s}
    /\ UNCHANGED <<load, headSlot, shared, optimisticBlocks, panicked, waits, newStatus, tables,
                   rejected, operator, failuresRead, overlooked, faults>>

\* submissions for past slots pass
CheckEntryOnly(s) ==
    /\ pc[s] = "entered"
    /\ pc' = [pc EXCEPT ![s] = IF entry[s].blacklisted THEN "returned" ELSE "checked"]
    /\ UNCHANGED <<load, headSlot, shared, optimisticBlocks, panicked, waits, entry, mode, task,
                   newStatus, tables, rejected, operator, history, faults>>

\* a blacklisted builder is ignored, a submission for a past slot is refused
CheckEntry(s) ==
    /\ pc[s] = "entered"
    /\ pc' = [pc EXCEPT ![s] =
                 IF entry[s].blacklisted \/ Request[s].slot <= headSlot
                 THEN "returned" ELSE "checked"]
    /\ UNCHANGED <<load, headSlot, shared, optimisticBlocks, panicked, waits, entry, mode, task,
                   newStatus, tables, rejected, operator, history, faults>>

\* "With sufficient collateral, process the block optimistically"
TakeOptimistically(s) ==
    /\ entry[s].collateral > Request[s].value
    /\ ~entry[s].demoted
    /\ Request[s].slot = optimisticSlot

\* start the goroutine and go on, or simulate first; the writes to Redis that
\* follow (module Auction) make the block available to the proposer
Decide(s) ==
    /\ pc[s] = "checked"
    /\ \/ /\ TakeOptimistically(s)
          /\ mode' = [mode EXCEPT ![s] = "optimistic"]
          /\ task' = [task EXCEPT ![s] = "spawned"]
          /\ pc' = [pc EXCEPT ![s] = "accepted"]
       \/ /\ ~TakeOptimistically(s)
          /\ mode' = [mode EXCEPT ![s] = "simulated"]
          /\ pc' = [pc EXCEPT ![s] = "accepted"]
          /\ UNCHANGED task
       \/ /\ ~TakeOptimistically(s)
          /\ pc' = [pc EXCEPT ![s] = "returned"]
          /\ UNCHANGED <<mode, task>>
    /\ entry' = [entry EXCEPT ![s] = NoEntry]
    /\ UNCHANGED <<load, headSlot, shared, optimisticBlocks, panicked, waits, newStatus,
                   tables, rejected, operator, history, faults>>

\* the handler returns, and net/http cancels the context of its request
Respond(s) ==
    /\ pc[s] = "accepted"
    /\ pc' = [pc EXCEPT ![s] = "returned"]
    /\ UNCHANGED <<load, headSlot, shared, optimisticBlocks, panicked, waits, entry, mode, task,
                   newStatus, tables, rejected, operator, history, faults>>

-----------------------------------------------------------------------------
(* processOptimisticBlock and demoteBuilder *)

\* the goroutine starts to run
BeginTask(s) ==
    /\ task[s] = "spawned"
    /\ task' = [task EXCEPT ![s] = "added"]
    /\ Add
    /\ UNCHANGED <<load, headSlot, shared, panicked, waits, handlers, newStatus, tables, rejected,
                   operator, history, faults>>

\* send() looks at the context after its wait (module BlockSimRateLimiter): if
\* the handler is gone, the block is not sent and ErrRequestClosed is returned
CheckContext(s) ==
    /\ task[s] = "added"
    /\ task' = [task EXCEPT ![s] = IF pc[s] = "returned" THEN "demoting" ELSE "sent"]
    /\ UNCHANGED <<load, headSlot, shared, optimisticBlocks, panicked, waits, handlers, newStatus,
                   tables, rejected, operator, history, faults>>

\* the node's answer: success (or "already known"), or an error, for an invalid
\* block as for a call that failed
FinishSimulation(s) ==
    /\ task[s] = "sent"
    /\ \/ /\ task' = [task EXCEPT ![s] = "done"]
          /\ Done
          /\ UNCHANGED rejected
       \/ /\ task' = [task EXCEPT ![s] = "demoting"]
          /\ rejected' = rejected \cup {s}
          /\ UNCHANGED <<optimisticBlocks, waits>>
    /\ UNCHANGED <<load, headSlot, shared, panicked, handlers, newStatus, tables, operator,
                   history, faults>>

\* demoteBuilder takes the rest of the status from the cache
StartDemotion(s) ==
    /\ task[s] = "demoting"
    /\ newStatus' = [newStatus EXCEPT ![s].blacklisted = cache[Request[s].builder].blacklisted]
    /\ task' = [task EXCEPT ![s] = "reading"]
    /\ UNCHANGED <<load, headSlot, shared, optimisticBlocks, panicked, waits, handlers, tables,
                   rejected, operator, history, faults>>

\* SetBlockBuilderStatus reads the collateral ID; an error is returned, and logged
ReadCollateralID(s) ==
    /\ task[s] = "reading"
    /\ \/ /\ newStatus' = [newStatus EXCEPT ![s].id = db[Request[s].builder].id]
          /\ task' = [task EXCEPT ![s] = "updating"]
          /\ UNCHANGED faults
       \/ /\ Fault
          /\ task' = [task EXCEPT ![s] = "inserting"]
          /\ UNCHANGED newStatus
    /\ UNCHANGED <<load, headSlot, shared, optimisticBlocks, panicked, waits, handlers, tables,
                   rejected, operator, history>>

\* only the row of the builder itself is updated
UpdateOneStatus(s) ==
    /\ task[s] = "updating"
    /\ db' = [db EXCEPT ![Request[s].builder].demoted = TRUE]
    /\ task' = [task EXCEPT ![s] = "inserting"]
    /\ UNCHANGED <<load, headSlot, shared, optimisticBlocks, panicked, waits, handlers, newStatus,
                   demotions, refunds, rejected, operator, history, faults>>

\* the builder table after the UPDATE of SetBlockBuilderStatus(b, ...)
Updated(b, id, demoted, blacklisted) ==
    [c \in Builders |->
        IF c \in SameCollateral(b, id)
        THEN [db[c] EXCEPT !.demoted = demoted, !.blacklisted = blacklisted]
        ELSE db[c]]

\* ... and updates all builders with this collateral ID; an error, after which the
\* update may have been made, is logged
UpdateStatus(s) ==
    /\ task[s] = "updating"
    /\ LET new == Updated(Request[s].builder, newStatus[s].id, TRUE, newStatus[s].blacklisted)
       IN  \/ db' = new /\ UNCHANGED faults
           \/ Fault /\ db' \in {db, new}
    /\ task' = [task EXCEPT ![s] = "inserting"]
    /\ UNCHANGED <<load, headSlot, shared, optimisticBlocks, panicked, waits, handlers, newStatus,
                   demotions, refunds, rejected, operator, history>>

\* InsertBuilderDemotion, whose error is logged, and the end of the goroutine
InsertDemotion(s) ==
    /\ task[s] = "inserting"
    /\ \/ demotions' = demotions \cup {s} /\ UNCHANGED faults
       \/ Fault /\ demotions' \in {demotions, demotions \cup {s}}
    /\ task' = [task EXCEPT ![s] = "done"]
    /\ newStatus' = [newStatus EXCEPT ![s] = NoUpdate]
    /\ Done
    /\ UNCHANGED <<load, headSlot, shared, panicked, handlers, db, refunds, rejected, operator,
                   history>>

-----------------------------------------------------------------------------
(* handleGetPayload, the goroutine that saves information about the payload *)

\* The block of s won its slot and was delivered.  A proposer signs one block for
\* its slot, and may ask for it again (bound: once its goroutine has ended).
DeliverPayload(s) ==
    /\ s \in Winners
    /\ pc[s] \in {"accepted", "returned"} /\ mode[s] # "none"
    /\ job[s] \in {"none", "done"}
    /\ \A t \in Submissions \ {s} : Request[t].slot = Request[s].slot => job[t] = "none"
    /\ job' = [job EXCEPT ![s] = "spawned"]
    /\ UNCHANGED <<load, headSlot, shared, optimisticBlocks, panicked, updater, snapshot, handlers,
                   task, newStatus, tables, rejected, operator, history, faults>>

\* "Wait until optimistic blocks are complete" is left out
JobDoesNotWait(s) ==
    /\ job[s] = "spawned"
    /\ job' = [job EXCEPT ![s] = "returned"]
    /\ UNCHANGED <<load, headSlot, shared, optimisticBlocks, panicked, updater, snapshot, handlers,
                   task, newStatus, tables, rejected, operator, history, faults>>

JobWaits(s) ==
    /\ job[s] = "spawned"
    /\ job' = [job EXCEPT ![s] = CallWait]
    /\ overlooked' = IF task[s] = "spawned" THEN overlooked \cup {s} ELSE overlooked \ {s}
    /\ UNCHANGED <<load, headSlot, shared, optimisticBlocks, panicked, updater, snapshot, handlers,
                   task, newStatus, tables, rejected, operator, covered, failuresRead, warned,
                   faults>>

JobWakes(s) ==
    /\ job[s] = "released"
    /\ IF optimisticBlocks = 0
       THEN job' = [job EXCEPT ![s] = "returned"] /\ UNCHANGED panicked
       ELSE panicked' = TRUE /\ UNCHANGED job
    /\ UNCHANGED <<load, headSlot, shared, optimisticBlocks, updater, snapshot, handlers, task,
                   newStatus, tables, rejected, operator, history, faults>>

\* GetBuilderDemotion, and UpdateBuilderDemotion if there is a demotion; an
\* error ends the goroutine
CheckDemotion(s) ==
    /\ job[s] = "returned"
    /\ \/ s \in demotions /\ refunds' = refunds \cup {s} /\ UNCHANGED faults
       \/ s \notin demotions /\ UNCHANGED <<refunds, faults>>
       \/ Fault /\ refunds' \in {refunds, refunds \cup ({s} \cap demotions)}
    /\ job' = [job EXCEPT ![s] = "done"]
    /\ UNCHANGED <<load, headSlot, shared, optimisticBlocks, panicked, updater, snapshot, handlers,
                   task, newStatus, db, demotions, rejected, operator, history>>

-----------------------------------------------------------------------------
(* The internal API *)

\* handleInternalBuilderStatus: SetBlockBuilderStatus reads the collateral ID; an
\* error is returned to the operator
SetStatus(b, blacklisted, demoted) ==
    /\ ops < MaxOps /\ ops' = ops + 1
    /\ \/ /\ calls' = calls \cup {[builder |-> b, id |-> db[b].id,
                                   demoted |-> demoted, blacklisted |-> blacklisted]}
          /\ UNCHANGED faults
       \/ Fault /\ UNCHANGED calls
    /\ UNCHANGED <<load, headSlot, shared, optimisticBlocks, panicked, waits, handlers, task,
                   newStatus, tables, rejected, spared, history>>

\* ... and updates all builders with this collateral ID
UpdateBuilderStatus(c) ==
    /\ c \in calls
    /\ calls' = calls \ {c}
    /\ LET new == Updated(c.builder, c.id, c.demoted, c.blacklisted)
       IN  \/ db' = new /\ UNCHANGED faults
           \/ Fault /\ db' \in {db, new}
    /\ spared' = IF c.demoted THEN spared ELSE spared \cup SameCollateral(c.builder, c.id)
    /\ UNCHANGED <<load, headSlot, shared, optimisticBlocks, panicked, waits, handlers, task,
                   newStatus, demotions, refunds, rejected, ops, history>>

\* handleInternalBuilderCollateral.  If demoteBuilder has read the ID that the
\* builder had before, its UPDATE will not find the builder.
SetCollateral(b, c) ==
    /\ ops < MaxOps /\ ops' = ops + 1
    /\ db' = [db EXCEPT ![b].id = c.id, ![b].collateral = c.collateral]
    /\ spared' = IF \E s \in Submissions : task[s] = "updating" /\ Request[s].builder = b
                 THEN spared \cup {b} ELSE spared
    /\ UNCHANGED <<load, headSlot, shared, optimisticBlocks, panicked, waits, handlers, task,
                   newStatus, demotions, refunds, rejected, calls, history, faults>>

-----------------------------------------------------------------------------
UpdateOptimisticSlot(h) ==
    \/ UpdaterWaits(h) \/ UpdaterWakes(h) \/ SetOptimisticSlot(h)
    \/ ReadBuilders(h) \/ FillCache(h)

SubmitNewBlock(s) == ReadEntry(s) \/ CheckEntry(s) \/ Decide(s) \/ Respond(s)

ProcessOptimisticBlock(s) ==
    \/ BeginTask(s) \/ CheckContext(s) \/ FinishSimulation(s)
    \/ StartDemotion(s) \/ ReadCollateralID(s) \/ UpdateStatus(s) \/ InsertDemotion(s)

GetPayloadJob(s) == JobWaits(s) \/ JobWakes(s) \/ CheckDemotion(s)

InternalAPI ==
    \/ \E b \in Builders :
           \/ \E blacklisted, demoted \in BOOLEAN : SetStatus(b, blacklisted, demoted)
           \/ \E c \in Collaterals : SetCollateral(b, c)
    \/ \E c \in calls : UpdateBuilderStatus(c)

Next ==
    /\ ~panicked
    /\ \/ \E h \in Slots : ProcessNewSlot(h) \/ UpdateOptimisticSlot(h)
       \/ \E s \in Submissions :
              SubmitNewBlock(s) \/ ProcessOptimisticBlock(s) \/ DeliverPayload(s) \/ GetPayloadJob(s)
       \/ InternalAPI

\* Goroutines that can run do run; handlers that began end; the simulation, the
\* database and Redis answer or time out; and the chain makes progress.  Nobody
\* has to submit a block, ask for a payload or call the internal API.
Fairness ==
    /\ \A h \in Slots : WF_vars(~panicked /\ UpdateOptimisticSlot(h))
    /\ \A s \in Submissions :
           /\ WF_vars(~panicked /\ ProcessOptimisticBlock(s))
           /\ WF_vars(~panicked /\ GetPayloadJob(s))
           /\ WF_vars(~panicked /\ (CheckEntry(s) \/ Decide(s) \/ Respond(s)))
    /\ WF_vars(~panicked /\ \E h \in Slots : ProcessNewSlot(h))

Spec == Init /\ [][Next]_vars
FairSpec == Spec /\ Fairness

-----------------------------------------------------------------------------
Waiting == {"none", "spawned", "waiting", "released", "returned", "done"}

TypeOK ==
    /\ load \in Loads
    /\ headSlot \in 0..MaxSlot /\ optimisticSlot \in 1..(MaxSlot + 1)
    /\ optimisticBlocks \in Nat /\ panicked \in BOOLEAN
    /\ cache \in [Builders -> Entry]
    /\ updater \in [Slots -> Waiting \cup {"reading", "filling"}]
    /\ snapshot \in [Slots -> [Builders -> Entry]]
    /\ pc \in [Submissions -> {"idle", "entered", "checked", "accepted", "returned"}]
    /\ entry \in [Submissions -> Entry]
    /\ mode \in [Submissions -> {"none", "optimistic", "simulated"}]
    /\ task \in [Submissions -> {"none", "spawned", "done"} \cup Active]
    /\ newStatus \in [Submissions -> [blacklisted : BOOLEAN, id : IDs]]
    /\ job \in [Submissions -> Waiting]
    /\ db \in [Builders -> Row]
    /\ demotions \subseteq Submissions /\ refunds \subseteq demotions
    /\ rejected \subseteq Submissions /\ spared \subseteq Builders
    /\ calls \subseteq [builder : Builders, id : IDs, demoted : BOOLEAN, blacklisted : BOOLEAN]
    /\ covered \in [Slots -> SUBSET Submissions]
    /\ failuresRead \subseteq Builders
    /\ warned \subseteq Submissions /\ overlooked \subseteq Submissions
    /\ ops \in Nat /\ faults \in Nat

\* The simulation of the optimistic block of s failed, and that was dealt with.
Failed(s) == task[s] = "done" /\ s \in rejected

\* updateOptimisticSlot reads the builders after the blocks it waits for were
\* dealt with, although blocks join the group and others wait for it meanwhile:
\* once its Wait has returned, each block that was in the group when it was called
\* has left it, and if the simulation failed the demotion is in both tables, unless
\* a database call failed or the operator took the demotion back.
WaitCoversDemotions ==
    \A h \in Slots : updater[h] \notin {"none", "spawned", "waiting"} =>
        \A s \in covered[h] :
            /\ task[s] = "done"
            /\ faults = 0 /\ s \in rejected =>
                   /\ s \in demotions
                   /\ db[Request[s].builder].demoted \/ Request[s].builder \in spared

\* A failure that updateOptimisticSlot waited for ends the optimistic treatment
\* of its builder: no handler that looks at the cache after the refill, and before
\* another goroutine fills it again, takes a block of that builder optimistically,
\* whatever happened to the cache and the database between the failure and the
\* decision, unless a database call failed or the operator took the demotion back.
CoveredFailureEndsOptimism ==
    faults = 0 =>
        \A t \in warned : mode[t] = "optimistic" => Request[t].builder \in spared

\* "If there is a collateral ID, then update statuses of all pubkeys": as long
\* as the operator does not interfere, a failed block is in the demotion table
\* and costs every builder that shares its collateral its optimistic status.
FailureDemotesSharers ==
    faults = 0 /\ ops = 0 =>
        \A s \in Submissions :
            Failed(s) =>
                /\ s \in demotions
                /\ \A b \in SameCollateral(Request[s].builder, db[Request[s].builder].id) :
                       db[b].demoted

\* The only way for a delivered block that was demoted to miss its refund, apart
\* from a failing database call, is that its own goroutine had not called Add when
\* that of getPayload called Wait.
RefundMissedOnlyIfOverlooked ==
    faults = 0 =>
        \A s \in Submissions :
            job[s] = "done" /\ task[s] = "done" /\ s \in demotions => s \in refunds \cup overlooked

\* "Wait until optimistic blocks are complete.  Check if there is a demotion
\* for the winning block": once getPayload's goroutine and the block's own are
\* through, a delivered block that was demoted has its refund recorded.
RefundRecorded ==
    faults = 0 =>
        \A s \in Submissions :
            job[s] = "done" /\ task[s] = "done" /\ s \in demotions => s \in refunds

\* "Wait until there are no optimistic blocks being processed.  Then we can
\* safely update the slot": the blocks in processing belong to optimisticSlot,
\* "the slot we are currently optimistically simulating".
OptimisticSlotIsSafe ==
    \A s \in Submissions :
        task[s] \notin {"none", "done"} => Request[s].slot = optimisticSlot

\* A builder is demoted for a block the simulation node rejected, never for one
\* that was not sent to the node at all.
OnlyRejectedBlocksDemote == demotions \subseteq rejected

\* The wait of updateOptimisticSlot ends although builders may submit without
\* pause: once the head has moved on, submissions for the old optimistic slot
\* are refused, so the group drains.
HeadsAreProcessed ==
    \A h \in Slots : updater[h] = "spawned" ~> updater[h] = "done" \/ panicked
=============================================================================
