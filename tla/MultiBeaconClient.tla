-------------------------- MODULE MultiBeaconClient --------------------------
(***************************************************************************)
(* beaconclient/multi_beacon_client.go: several beacon nodes behind one    *)
(* client.  A call asks one node after the other until one answers,        *)
(* starting with the node that bestBeaconIndex points to; FetchValidators  *)
(* and GetProposerDuties also update that index.  Calls of several         *)
(* goroutines share the index, which is an atomic integer.                 *)
(* BestSyncStatus asks all nodes at once and collects under a mutex.       *)
(***************************************************************************)
EXTENDS Integers

CONSTANTS
    N,          \* number of beacon nodes
    Callers     \* the goroutines that use the client

ASSUME NAssumption == N \in Nat \ {0}

Nodes == 0..(N - 1)

VARIABLES
    bestBeaconIndex,
    \* the calls that try one node after the other
    pc,                 \* caller -> "idle", "asking", "answered" or "failed"
    updates,            \* caller -> does the call set bestBeaconIndex?
    clients,            \* caller -> the nodes in the order it tries them
    i,                  \* caller -> the loop index
    asked,              \* history: caller -> the nodes the call has asked
    \* BestSyncStatus
    allowSyncing,       \* ffAllowSyncingBeaconNode
    pending,            \* the nodes whose goroutine did not finish
    foundSyncedNode,
    bestSyncStatus,     \* "nil", "syncing" or "synced"
    result,             \* what the call returned; "running" before that
    answers             \* history: the statuses that were received

calls == <<pc, updates, clients, i, asked>>
syncCall == <<pending, foundSyncedNode, bestSyncStatus, result, answers>>
vars == <<bestBeaconIndex, calls, allowSyncing, syncCall>>

Init ==
    /\ bestBeaconIndex = 0
    /\ pc = [c \in Callers |-> "idle"]
    /\ updates = [c \in Callers |-> FALSE]
    /\ clients = [c \in Callers |-> [j \in Nodes |-> j]]
    /\ i = [c \in Callers |-> 0]
    /\ asked = [c \in Callers |-> {}]
    /\ allowSyncing \in BOOLEAN
    /\ pending = {} /\ foundSyncedNode = FALSE /\ bestSyncStatus = "nil"
    /\ result = "idle" /\ answers = {}

-----------------------------------------------------------------------------
\* the best node takes the place of the first, which is lost
OverwrittenByLastResponse(best) == [j \in Nodes |-> IF j = 0 THEN best ELSE j]

\* the best node and the first one change places
BeaconInstancesByLastResponse(best) ==
    [j \in Nodes |-> IF j = 0 THEN best ELSE IF j = best THEN 0 ELSE j]

\* a call starts: FetchValidators and GetProposerDuties update the index;
\* PublishBlock, GetGenesis, GetSpec, GetBlock and GetRandao do not
Call(c) ==
    /\ pc[c] # "asking"
    /\ pc' = [pc EXCEPT ![c] = "asking"]
    /\ \E u \in BOOLEAN : updates' = [updates EXCEPT ![c] = u]
    /\ clients' = [clients EXCEPT ![c] = BeaconInstancesByLastResponse(bestBeaconIndex)]
    /\ i' = [i EXCEPT ![c] = 0]
    /\ asked' = [asked EXCEPT ![c] = {}]
    /\ UNCHANGED <<bestBeaconIndex, allowSyncing, syncCall>>

\* the node answers, the loop index becomes the best index, and the call returns
Answer(c) ==
    /\ pc[c] = "asking"
    /\ pc' = [pc EXCEPT ![c] = "answered"]
    /\ \/ /\ updates[c]
          /\ bestBeaconIndex' = i[c]
       \/ ~updates[c] /\ UNCHANGED bestBeaconIndex
    /\ updates' = [updates EXCEPT ![c] = FALSE]
    /\ clients' = [clients EXCEPT ![c] = [j \in Nodes |-> j]]
    /\ i' = [i EXCEPT ![c] = 0]
    /\ asked' = [asked EXCEPT ![c] = {}]
    /\ UNCHANGED <<allowSyncing, syncCall>>

\* the node fails, and the next one is tried if there is one
Fail(c) ==
    /\ pc[c] = "asking"
    /\ asked' = [asked EXCEPT ![c] = @ \cup {clients[c][i[c]]}]
    /\ i' = [i EXCEPT ![c] = @ + 1]
    /\ pc' = IF i[c] + 1 = N THEN [pc EXCEPT ![c] = "failed"] ELSE pc
    /\ UNCHANGED <<bestBeaconIndex, updates, clients, allowSyncing, syncCall>>

-----------------------------------------------------------------------------
CallBestSyncStatus ==
    /\ result # "running"
    /\ result' = "running"
    /\ pending' = Nodes /\ foundSyncedNode' = FALSE /\ bestSyncStatus' = "nil"
    /\ answers' = {}
    /\ UNCHANGED <<bestBeaconIndex, calls, allowSyncing>>

\* the status that came last is kept
TakeLastStatus(n) ==
    /\ n \in pending
    /\ pending' = pending \ {n}
    /\ \E status \in {"syncing", "synced"} :
           /\ answers' = answers \cup {status}
           /\ bestSyncStatus' = status
           /\ foundSyncedNode' = (foundSyncedNode \/ status = "synced")
    /\ UNCHANGED <<bestBeaconIndex, calls, allowSyncing, result>>

\* the goroutine of one node: an error is logged; a status is ignored after a
\* synced node was found, else the first status and a synced one are kept
SyncStatus(n) ==
    /\ n \in pending
    /\ pending' = pending \ {n}
    /\ \/ UNCHANGED <<foundSyncedNode, bestSyncStatus, answers>>
       \/ \E status \in {"syncing", "synced"} :
              /\ answers' = answers \cup {status}
              /\ foundSyncedNode' = (foundSyncedNode \/ status = "synced")
              /\ bestSyncStatus' =
                     IF ~foundSyncedNode /\ (bestSyncStatus = "nil" \/ status = "synced")
                     THEN status ELSE bestSyncStatus
    /\ UNCHANGED <<bestBeaconIndex, calls, allowSyncing, result>>

\* wg.Wait returns, and the call with it
ReturnSyncStatus ==
    /\ result = "running" /\ pending = {}
    /\ result' = IF ~foundSyncedNode /\ ~allowSyncing THEN "ErrBeaconNodeSyncing"
                 ELSE IF bestSyncStatus = "nil" THEN "ErrBeaconNodesUnavailable"
                 ELSE bestSyncStatus
    /\ foundSyncedNode' = FALSE /\ bestSyncStatus' = "nil"
    /\ UNCHANGED <<bestBeaconIndex, calls, allowSyncing, pending, answers>>

-----------------------------------------------------------------------------
Next ==
    \/ \E c \in Callers : Call(c) \/ Answer(c) \/ Fail(c)
    \/ CallBestSyncStatus
    \/ \E n \in Nodes : SyncStatus(n)
    \/ ReturnSyncStatus

Spec == Init /\ [][Next]_vars

-----------------------------------------------------------------------------
TypeOK ==
    /\ bestBeaconIndex \in Nodes
    /\ pc \in [Callers -> {"idle", "asking", "answered", "failed"}]
    /\ updates \in [Callers -> BOOLEAN]
    /\ clients \in [Callers -> [Nodes -> Nodes]]
    /\ i \in [Callers -> 0..N]
    /\ \A c \in Callers : pc[c] = "asking" => i[c] \in Nodes
    /\ asked \in [Callers -> SUBSET Nodes]
    /\ allowSyncing \in BOOLEAN
    /\ pending \in SUBSET Nodes
    /\ foundSyncedNode \in BOOLEAN
    /\ bestSyncStatus \in {"nil", "syncing", "synced"}
    /\ result \in {"idle", "running", "syncing", "synced",
                   "ErrBeaconNodeSyncing", "ErrBeaconNodesUnavailable"}
    /\ answers \in SUBSET {"syncing", "synced"}

\* A call only fails after it asked every node, whatever other calls do to
\* bestBeaconIndex meanwhile: exchanging two nodes loses none of them.
FailsOnlyAfterAll == \A c \in Callers : pc[c] = "failed" => asked[c] = Nodes

\* The outcome of BestSyncStatus does not depend on the order in which the
\* nodes answer: a synced node wins if one answered, a syncing one is only good
\* enough where the feature flag allows it.
SyncStatusIsBest ==
    result \notin {"idle", "running"} =>
        result = IF "synced" \in answers THEN "synced"
                 ELSE IF ~allowSyncing THEN "ErrBeaconNodeSyncing"
                 ELSE IF answers = {} THEN "ErrBeaconNodesUnavailable"
                 ELSE "syncing"
=============================================================================
