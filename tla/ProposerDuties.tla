--------------------------- MODULE ProposerDuties ---------------------------
(***************************************************************************)
(* Proposer duties: which registered validator proposes in which slot.     *)
(* The housekeeper asks the beacon node for the duties of the current and  *)
(* the next epoch and saves them in Redis (housekeeper.go); the API copies *)
(* them from Redis into proposerDutiesMap (service.go), and a submission   *)
(* for a slot without an entry there is refused.  Each of the two runs one *)
(* updateProposerDuties goroutine for each new head, behind a flag, and    *)
(* most of them return at once: the duties are renewed every half epoch in *)
(* Redis, and every 8 slots in the API.                                    *)
(*                                                                         *)
(* Duties are the set of the slots that have an entry.                     *)
(***************************************************************************)
EXTENDS Integers, FiniteSets

CONSTANTS
    SlotsPerEpoch,  \* common.SlotsPerEpoch, 32 in the code
    ApiInterval,    \* 8 in the code
    Registered,     \* the slots whose proposer is registered with the relay
    Modulus,        \* of the unsigned subtraction, 2^64 in the code
    FirstSlot,      \* the head when the model begins
    MaxSlot,        \* bound: the last head
    MaxDisturbances \* bound: see Disturbed

ASSUME SlotsAssumption ==
    /\ SlotsPerEpoch \in Nat \ {0} /\ ApiInterval \in Nat \ {0}
    /\ FirstSlot \in Nat \ {0} /\ MaxSlot \in Nat /\ FirstSlot <= MaxSlot
    /\ Modulus \in Nat /\ Modulus > MaxSlot
    /\ Registered \subseteq Nat /\ MaxDisturbances \in Nat

Slots == FirstSlot..MaxSlot
Services == {"housekeeper", "api"}

VARIABLES
    chain,              \* the head of the beacon node
    missed,             \* the slots without a block
    headSlot,           \* service -> its headSlot
    isUpdating,         \* service -> isUpdatingProposerDuties
    proposerDutiesSlot, \* service -> the head of its last update
    task,               \* service -> head -> where its updateProposerDuties is
    fetched,            \* what the housekeeper's update is about to save
    redisDuties,        \* the key proposer-duties
    proposerDuties,     \* proposerDutiesResponse and proposerDutiesMap of the API
    \* history and bounds
    partial,            \* were duties saved without those of the next epoch?
    disturbances

service == <<headSlot, isUpdating, proposerDutiesSlot, task>>
duties == <<fetched, redisDuties, proposerDuties>>
vars == <<chain, missed, service, duties, partial, disturbances>>

Epoch(s) == s \div SlotsPerEpoch

\* the duties of the epoch of head h and, if they are known, of the next one
Duties(h, whole) ==
    {s \in Registered : Epoch(s) = Epoch(h) \/ (whole /\ Epoch(s) = Epoch(h) + 1)}

\* Both services run, and the API started with duties in Redis.
Init ==
    /\ chain = FirstSlot /\ missed = {}
    /\ headSlot = [p \in Services |-> FirstSlot]
    /\ isUpdating = [p \in Services |-> FALSE]
    /\ proposerDutiesSlot = [p \in Services |-> FirstSlot]
    /\ task = [p \in Services |-> [h \in Slots |-> "none"]]
    /\ fetched = {}
    /\ redisDuties = Duties(FirstSlot, TRUE) /\ proposerDuties = redisDuties
    /\ partial = FALSE
    /\ disturbances = 0

\* What does not happen all the time: a call that fails, a missed slot, a head
\* that arrives while goroutines of the one before still run, a restart.
Disturbed == disturbances < MaxDisturbances /\ disturbances' = disturbances + 1

-----------------------------------------------------------------------------
(* Heads *)

\* Both services know the head and have finished what it started.
Settled ==
    \A p \in Services :
        headSlot[p] = chain /\ \A h \in Slots : task[p][h] = "none"

NewBlock(h) ==
    /\ h \in Slots /\ h > chain
    /\ IF h = chain + 1 /\ Settled THEN UNCHANGED disturbances ELSE Disturbed
    /\ chain' = h /\ missed' = missed \cup (chain + 1)..(h - 1)
    /\ UNCHANGED <<service, duties, partial>>

\* What may come from the channel of head events: every beacon node sends each
\* head on its own, so heads are repeated, late and out of order, and those that
\* fall between two subscriptions are lost.
HeadEvents == {h \in Slots : h <= chain /\ h \notin missed}

\* processNewSlot of the API and of the housekeeper, which drops what is not news
ProcessNewSlot(p, h) ==
    /\ h \in HeadEvents /\ headSlot[p] < h
    /\ headSlot' = [headSlot EXCEPT ![p] = h]
    /\ task' = [task EXCEPT ![p][h] = "spawned"]
    /\ UNCHANGED <<chain, missed, isUpdating, proposerDutiesSlot, duties, partial, disturbances>>

-----------------------------------------------------------------------------
(* updateProposerDuties *)

\* headSlot - proposerDutiesSlot of unsigned integers
Minus(a, b) == IF a >= b THEN a - b ELSE Modulus - (b - a)

Interval(p) == IF p = "api" THEN ApiInterval ELSE SlotsPerEpoch \div 2

\* "Update once every 8 slots (or more, if a slot was missed)"
IsDue(p, h) ==
    h % Interval(p) = 0 \/ Minus(h, proposerDutiesSlot[p]) >= Interval(p)

\* the flag is set without a look at it
BeginIgnoringFlag(p, h) ==
    /\ task[p][h] = "spawned"
    /\ task' = [task EXCEPT ![p][h] = IF IsDue(p, h) THEN "updating" ELSE "leaving"]
    /\ isUpdating' = [isUpdating EXCEPT ![p] = TRUE]
    /\ UNCHANGED <<chain, missed, headSlot, proposerDutiesSlot, duties, partial, disturbances>>

\* "Ensure only one updating is running at a time": the goroutine is dropped if
\* the flag is set, even by one that is about to find that nothing is due
BeginUpdate(p, h) ==
    /\ task[p][h] = "spawned"
    /\ \/ /\ isUpdating[p]
          /\ task' = [task EXCEPT ![p][h] = "none"]
          /\ UNCHANGED isUpdating
       \/ /\ ~isUpdating[p]
          /\ task' = [task EXCEPT ![p][h] = IF IsDue(p, h) THEN "updating" ELSE "leaving"]
          /\ isUpdating' = [isUpdating EXCEPT ![p] = TRUE]
    /\ UNCHANGED <<chain, missed, headSlot, proposerDutiesSlot, duties, partial, disturbances>>

\* the goroutine ends and resets the flag
EndUpdate(p, h) ==
    /\ task' = [task EXCEPT ![p][h] = "none"]
    /\ isUpdating' = [isUpdating EXCEPT ![p] = FALSE]

\* no update is due
LeaveUpdate(p, h) ==
    /\ task[p][h] = "leaving"
    /\ EndUpdate(p, h)
    /\ UNCHANGED <<chain, missed, headSlot, proposerDutiesSlot, duties, partial, disturbances>>

\* the duties of the next epoch are not appended
FetchCurrentEpoch(h) ==
    /\ task["housekeeper"][h] = "updating"
    /\ task' = [task EXCEPT !["housekeeper"][h] = "saving"]
    /\ fetched' = Duties(h, FALSE)
    /\ UNCHANGED <<chain, missed, headSlot, isUpdating, proposerDutiesSlot, redisDuties,
                   proposerDuties, partial, disturbances>>

\* The housekeeper asks for two epochs and selects the proposers that are in
\* the registration table.  An error for the current epoch, or of the database,
\* ends the goroutine, one for the next epoch does not.
FetchDuties(h) ==
    /\ task["housekeeper"][h] = "updating"
    /\ \/ /\ task' = [task EXCEPT !["housekeeper"][h] = "saving"]
          /\ fetched' = Duties(h, TRUE)
          /\ UNCHANGED <<isUpdating, partial, disturbances>>
       \/ /\ Disturbed
          /\ task' = [task EXCEPT !["housekeeper"][h] = "saving"]
          /\ fetched' = Duties(h, FALSE)
          /\ partial' = TRUE
          /\ UNCHANGED isUpdating
       \/ /\ Disturbed
          /\ EndUpdate("housekeeper", h)
          /\ UNCHANGED <<fetched, partial>>
    /\ UNCHANGED <<chain, missed, headSlot, proposerDutiesSlot, redisDuties, proposerDuties>>

\* "Save duties to Redis"
SaveDuties(h) ==
    /\ task["housekeeper"][h] = "saving"
    /\ \/ /\ redisDuties' = fetched
          /\ proposerDutiesSlot' = [proposerDutiesSlot EXCEPT !["housekeeper"] = h]
          /\ UNCHANGED disturbances
       \/ /\ Disturbed
          /\ UNCHANGED <<redisDuties, proposerDutiesSlot>>
    /\ fetched' = {}
    /\ EndUpdate("housekeeper", h)
    /\ UNCHANGED <<chain, missed, headSlot, proposerDuties, partial>>

\* GetProposerDuties and the critical section of the API
CopyDuties(h) ==
    /\ task["api"][h] = "updating"
    /\ \/ /\ proposerDuties' = redisDuties
          /\ proposerDutiesSlot' = [proposerDutiesSlot EXCEPT !["api"] = h]
          /\ UNCHANGED disturbances
       \/ /\ Disturbed
          /\ UNCHANGED <<proposerDuties, proposerDutiesSlot>>
    /\ EndUpdate("api", h)
    /\ UNCHANGED <<chain, missed, headSlot, fetched, redisDuties, partial>>

-----------------------------------------------------------------------------
(* Restarts *)

\* A service starts with the head of the best beacon node.  Its goroutines are
\* gone, and it starts one for this head.
Started(p) ==
    /\ headSlot' = [headSlot EXCEPT ![p] = chain]
    /\ isUpdating' = [isUpdating EXCEPT ![p] = FALSE]
    /\ task' = [task EXCEPT ![p] = [h \in Slots |-> IF h = chain THEN "spawned" ELSE "none"]]

\* Housekeeper.Start
RestartHousekeeper ==
    /\ Disturbed
    /\ Started("housekeeper")
    /\ proposerDutiesSlot' = [proposerDutiesSlot EXCEPT !["housekeeper"] = 0]
    /\ fetched' = {}
    /\ UNCHANGED <<chain, missed, redisDuties, proposerDuties, partial>>

\* StartServer: "Get current proposer duties blocking before starting, to have
\* them ready"; like every update, it does nothing if it is not due (the first
\* slots of a chain) or if Redis fails
RestartApi ==
    /\ Disturbed
    /\ Started("api")
    /\ \/ /\ chain % ApiInterval = 0 \/ chain >= ApiInterval
          /\ proposerDuties' = redisDuties
          /\ proposerDutiesSlot' = [proposerDutiesSlot EXCEPT !["api"] = chain]
       \/ /\ proposerDuties' = {}
          /\ proposerDutiesSlot' = [proposerDutiesSlot EXCEPT !["api"] = 0]
    /\ UNCHANGED <<chain, missed, fetched, redisDuties, partial>>

-----------------------------------------------------------------------------
UpdateProposerDuties(p, h) ==
    \/ BeginUpdate(p, h) \/ LeaveUpdate(p, h)
    \/ p = "housekeeper" /\ (FetchDuties(h) \/ SaveDuties(h))
    \/ p = "api" /\ CopyDuties(h)

Next ==
    \/ \E h \in (chain + 1)..(chain + 2) : NewBlock(h)
    \/ \E p \in Services, h \in Slots : ProcessNewSlot(p, h) \/ UpdateProposerDuties(p, h)
    \/ RestartHousekeeper \/ RestartApi

Spec == Init /\ [][Next]_vars

-----------------------------------------------------------------------------
\* Duties reach at most to the end of the next epoch: the beacon node does not
\* know more.
TypeOK ==
    /\ chain \in Slots /\ missed \subseteq Slots \ {chain} /\ headSlot \in [Services -> Slots]
    /\ isUpdating \in [Services -> BOOLEAN]
    /\ proposerDutiesSlot \in [Services -> Slots \cup {0}]
    /\ task \in [Services -> [Slots -> {"none", "spawned", "leaving", "updating", "saving"}]]
    /\ \A d \in {fetched, redisDuties, proposerDuties} :
           d \subseteq {s \in Registered : Epoch(s) <= Epoch(chain) + 1}
    /\ partial \in BOOLEAN /\ disturbances \in 0..MaxDisturbances

\* the goroutines of service p that are past the flag
Running(p) == {h \in Slots : task[p][h] \in {"leaving", "updating", "saving"}}

\* "Ensure only one updating is running at a time", and the flag is not left
\* behind: a goroutine that finds it set neither runs nor resets it, and a
\* restart takes the flag with the goroutine.
OneUpdateAtATime ==
    \A p \in Services :
        /\ \A g, h \in Running(p) : g = h
        /\ isUpdating[p] <=> Running(p) # {}

\* The API knows the proposer of the slot that builders submit for, the one
\* after the head: two epochs of duties outlast the delays of the two updates,
\* as long as there are few disturbances and the duties of the next epoch were
\* part of every update.
NextSlotIsCovered ==
    ~partial /\ proposerDuties # {} /\ chain + 1 \in Registered
        => chain + 1 \in proposerDuties
=============================================================================
