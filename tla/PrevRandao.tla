----------------------------- MODULE PrevRandao -----------------------------
(***************************************************************************)
(* The prev_randao that block submissions are checked against              *)
(* (services/api/service.go, updatedExpectedRandao).  Every new head and   *)
(* every submission for a slot beyond the known one starts a goroutine     *)
(* that asks the beacon node for the randao of the slot before.  The       *)
(* goroutines hold expectedPrevRandaoLock before and after the request,    *)
(* not during it.                                                          *)
(*                                                                         *)
(* The randao itself is stored and compared together with its slot, and is *)
(* left out.  Goroutines for the same slot at the same place are alike, so *)
(* they are counted.  The names are its own: the proofs have this module   *)
(* beside ProposerDuties, which processNewSlot starts as well.             *)
(***************************************************************************)
EXTENDS Integers

CONSTANTS
    LastSlot,       \* bound: the last slot of the chain
    FarSlot,        \* bound: the last slot before one that a submission names;
                    \* those after LastSlot are never reached
    MaxPending,     \* bound: goroutines that submissions start for one slot
    MaxFailures     \* bound: requests that fail for a slot the node knows

ASSUME RandaoAssumption ==
    /\ LastSlot \in Nat \ {0} /\ FarSlot \in Nat /\ FarSlot >= LastSlot
    /\ MaxPending \in Nat \ {0} /\ MaxFailures \in Nat

RandaoSlots == 0..FarSlot

VARIABLES
    nodeHead,       \* the head of the beacon node (external)
    apiHead,        \* api.headSlot
    expected,       \* api.expectedPrevRandao.slot
    updating,       \* api.expectedPrevRandaoUpdating
    started,        \* slot -> goroutines that wait for the lock
    querying,       \* slot -> goroutines that wait for the beacon node
    failures        \* requests that failed for a slot the node knows

randaoVars == <<nodeHead, apiHead, expected, updating, started, querying, failures>>

RandaoInit ==
    /\ nodeHead = 0 /\ apiHead = 0
    /\ expected = 0 /\ updating = 0
    /\ started = [s \in RandaoSlots |-> 0]
    /\ querying = [s \in RandaoSlots |-> 0]
    /\ failures = 0

\* the chain goes on, with or without missed slots (external)
NodeSeesBlock ==
    /\ nodeHead < LastSlot
    /\ \E h \in (nodeHead + 1)..LastSlot : nodeHead' = h
    /\ UNCHANGED <<apiHead, expected, updating, started, querying, failures>>

Start(s) == started' = [started EXCEPT ![s] = @ + 1]

\* processNewSlot: a head event; several nodes may report the same head, late
\* or out of order
ApiProcessNewSlot(h) ==
    /\ h <= nodeHead
    /\ h > apiHead
    /\ apiHead' = h
    /\ Start(h)
    /\ UNCHANGED <<nodeHead, expected, updating, querying, failures>>

\* "randao check 1" of a submission for slot s + 1: any slot, as its proposer
\* duty and its signature are checked afterwards
RandaoCheck1(s) ==
    /\ s + 1 > expected
    /\ started[s] + querying[s] < MaxPending
    /\ Start(s)
    /\ UNCHANGED <<nodeHead, apiHead, expected, updating, querying, failures>>

\* the first critical section: "do nothing slot is already known or currently
\* being updated"
BeginRandaoUpdate(s) ==
    /\ started[s] > 0
    /\ started' = [started EXCEPT ![s] = @ - 1]
    /\ IF s < expected \/ s <= updating
       THEN UNCHANGED <<updating, querying>>
       ELSE updating' = s /\ querying' = [querying EXCEPT ![s] = @ + 1]
    /\ UNCHANGED <<nodeHead, apiHead, expected, failures>>

\* the slot stays marked as being updated
FailSilently(s) ==
    /\ querying[s] > 0
    /\ querying' = [querying EXCEPT ![s] = @ - 1]
    /\ IF s > nodeHead
       THEN UNCHANGED failures
       ELSE failures < MaxFailures /\ failures' = failures + 1
    /\ UNCHANGED <<nodeHead, apiHead, expected, updating, started>>

\* the request fails, as it does for a slot the node has not seen yet
QueryFails(s) ==
    /\ querying[s] > 0
    /\ querying' = [querying EXCEPT ![s] = @ - 1]
    /\ updating' = 0
    /\ IF s > nodeHead
       THEN UNCHANGED failures
       ELSE failures < MaxFailures /\ failures' = failures + 1
    /\ UNCHANGED <<nodeHead, apiHead, expected, started>>

\* an answer is stored whatever arrived before it
StoreAnswer(s) ==
    /\ querying[s] > 0
    /\ s <= nodeHead
    /\ querying' = [querying EXCEPT ![s] = @ - 1]
    /\ expected' = s + 1
    /\ UNCHANGED <<nodeHead, apiHead, updating, started, failures>>

\* the second critical section: "update if still the latest"
QuerySucceeds(s) ==
    /\ querying[s] > 0
    /\ s <= nodeHead
    /\ querying' = [querying EXCEPT ![s] = @ - 1]
    /\ expected' = IF s + 1 >= expected THEN s + 1 ELSE expected
    /\ UNCHANGED <<nodeHead, apiHead, updating, started, failures>>

RandaoNext ==
    \/ NodeSeesBlock
    \/ \E s \in RandaoSlots :
           \/ ApiProcessNewSlot(s) \/ RandaoCheck1(s) \/ BeginRandaoUpdate(s)
           \/ QueryFails(s) \/ QuerySucceeds(s)

\* The chain grows, head events arrive, goroutines that can run do run, and the
\* node answers or fails within the timeout of the HTTP client.  Builders keep
\* submitting for the next slot: nothing else repeats a request that failed.
RandaoFairness ==
    /\ WF_randaoVars(NodeSeesBlock)
    /\ WF_randaoVars(\E h \in RandaoSlots : ApiProcessNewSlot(h))
    /\ \A s \in RandaoSlots :
           /\ WF_randaoVars(s = apiHead /\ RandaoCheck1(s))
           /\ WF_randaoVars(BeginRandaoUpdate(s))
           /\ WF_randaoVars(QueryFails(s) \/ QuerySucceeds(s))

RandaoSpec == RandaoInit /\ [][RandaoNext]_randaoVars
RandaoFairSpec == RandaoSpec /\ RandaoFairness

-----------------------------------------------------------------------------
RandaoTypeOK ==
    /\ nodeHead \in 0..LastSlot /\ apiHead \in 0..LastSlot
    /\ expected \in 0..(LastSlot + 1)
    /\ updating \in RandaoSlots
    /\ started \in [RandaoSlots -> Nat]
    /\ querying \in [RandaoSlots -> Nat]
    /\ failures \in Nat

\* The relay never expects the randao of a slot further than one beyond the
\* head of the beacon node, although submissions for any slot start requests.
ExpectedFollowsChain == expected <= nodeHead + 1 /\ apiHead <= nodeHead

\* "after request, check if still the latest, then update": answers that come
\* out of order never take the expected slot back.
ExpectedNeverGoesBack == [][expected' >= expected]_randaoVars

\* The randao for the slot after the head is learned, however failing requests
\* and requests for other slots of the chain interfere: one that fails gives way
\* to the next.  Only submissions for slots that the chain does not reach can
\* prevent it, which ask, and fail, again and again.
HeadRandaoLearned ==
    \A h \in 0..LastSlot :
        (apiHead = h ~> expected > h) \/ []<>(updating > LastSlot)
=============================================================================
