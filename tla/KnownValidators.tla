--------------------------- MODULE KnownValidators ---------------------------
(***************************************************************************)
(* The known validators: the housekeeper asks the beacon nodes for them    *)
(* and writes them to Redis (services/housekeeper/housekeeper.go), the API *)
(* copies them into its memory (datastore/datastore.go), where every       *)
(* registration and every getPayload call looks its validator up.          *)
(*                                                                         *)
(* The housekeeper's beacon client is module MultiBeaconClient: one of its *)
(* callers fetches the validators, the others are the other goroutines of  *)
(* the housekeeper.  Here BestSyncStatus is what Start begins with, and a  *)
(* restart makes a new client.  The index of a validator never changes on  *)
(* the chain and is not distinguished from its key.                        *)
(***************************************************************************)
EXTENDS MultiBeaconClient, FiniteSets

CONSTANTS
    Fetcher,        \* the caller that fetches the validators
    Validators,
    Activation,     \* validator -> the slot it is in the beacon state from
    Modulus,        \* 2^64
    MaxSlot,        \* bound: the last slot of the chain
    MaxTroubles     \* bound: failing calls of Redis, and restarts of the
                    \* housekeeper and of the API

ASSUME ValidatorsAssumption ==
    /\ Fetcher \in Callers
    /\ IsFiniteSet(Validators) /\ Activation \in [Validators -> Nat]
    /\ MaxSlot \in Nat \ {0} /\ MaxTroubles \in Nat
    /\ Modulus \in Nat /\ Modulus > MaxSlot + 1

VARIABLES
    chainHead,          \* the head slot of the beacon nodes
    housekeeper,        \* the process: "down", "starting" or "running"
    headSlot,
    task,               \* periodicTaskUpdateKnownValidators
    querySlot,          \* the slot it asks for
    todo,               \* the validators it has yet to write
    proposersAlreadySaved,
    redisKnown,         \* Redis: the hash of known validators
    apiKnown,           \* knownValidatorsByPubkey and knownValidatorsByIndex
    faults, restarts

client == <<bestBeaconIndex, calls, allowSyncing, syncCall>>
update == <<querySlot, todo, proposersAlreadySaved>>
bounds == <<faults, restarts>>
allVars == <<client, chainHead, housekeeper, headSlot, task, update,
             redisKnown, apiKnown, bounds>>

ActiveAt(slot) == {v \in Validators : Activation[v] <= slot}

Fault == faults + restarts < MaxTroubles /\ faults' = faults + 1
RestartCounted == faults + restarts < MaxTroubles /\ restarts' = restarts + 1

KnownInit ==
    /\ Init
    /\ chainHead = 1
    /\ housekeeper = "down" /\ headSlot = 0
    /\ task = "none" /\ querySlot = 0 /\ todo = {} /\ proposersAlreadySaved = {}
    /\ redisKnown = {} /\ apiKnown = {}
    /\ faults = 0 /\ restarts = 0

NewBlock ==
    /\ chainHead < MaxSlot
    /\ chainHead' = chainHead + 1
    /\ UNCHANGED <<client, housekeeper, headSlot, task, update, redisKnown, apiKnown, bounds>>

-----------------------------------------------------------------------------
(* Housekeeper.Start *)

\* ask for the best sync status
Start ==
    /\ housekeeper = "down"
    /\ housekeeper' = "starting"
    /\ CallBestSyncStatus
    /\ UNCHANGED <<chainHead, headSlot, task, update, redisKnown, apiKnown, bounds>>

SyncStatusArrives(n) ==
    /\ SyncStatus(n)
    /\ UNCHANGED <<chainHead, housekeeper, headSlot, task, update, redisKnown, apiKnown, bounds>>

\* an error ends the process; else the task loop is started, before the head
\* slot is processed
Started ==
    /\ ReturnSyncStatus
    /\ \/ /\ result' \in {"synced", "syncing"}
          /\ housekeeper' = "running" /\ task' = "due"
       \/ /\ result' \notin {"synced", "syncing"}
          /\ housekeeper' = "down" /\ UNCHANGED task
    /\ UNCHANGED <<chainHead, headSlot, update, redisKnown, apiKnown, bounds>>

\* the head of the sync status, and head events later
ProcessNewSlot ==
    /\ housekeeper = "running"
    /\ \E s \in (headSlot + 1)..chainHead : headSlot' = s
    /\ UNCHANGED <<client, chainHead, housekeeper, task, update, redisKnown, apiKnown, bounds>>

\* the process stops at any point and loses its memory, the client included
StopHousekeeper ==
    /\ housekeeper # "down" /\ RestartCounted
    /\ housekeeper' = "down" /\ headSlot' = 0
    /\ task' = "none" /\ querySlot' = 0 /\ todo' = {} /\ proposersAlreadySaved' = {}
    /\ bestBeaconIndex' = 0
    /\ pc' = [c \in Callers |-> "idle"]
    /\ updates' = [c \in Callers |-> FALSE]
    /\ clients' = [c \in Callers |-> [j \in Nodes |-> j]]
    /\ i' = [c \in Callers |-> 0]
    /\ asked' = [c \in Callers |-> {}]
    /\ pending' = {} /\ foundSyncedNode' = FALSE /\ bestSyncStatus' = "nil"
    /\ result' = "idle" /\ answers' = {}
    /\ UNCHANGED <<allowSyncing, chainHead, redisKnown, apiKnown, faults>>

\* updateProposerDuties uses the client at the same time
OtherCalls(c) ==
    /\ housekeeper = "running" /\ c # Fetcher
    /\ Call(c) \/ Answer(c) \/ Fail(c)
    /\ UNCHANGED <<chainHead, housekeeper, headSlot, task, update, redisKnown, apiKnown, bounds>>

-----------------------------------------------------------------------------
(* updateKnownValidators, and the loop around it *)

\* FetchValidators for the slot before the head, in unsigned arithmetic
BeginFetch ==
    /\ task = "due"
    /\ task' = "fetching"
    /\ querySlot' = (headSlot - 1) % Modulus
    /\ Call(Fetcher) /\ updates'[Fetcher]
    /\ UNCHANGED <<chainHead, housekeeper, headSlot, todo, proposersAlreadySaved, redisKnown,
                   apiKnown, bounds>>

\* a beacon node answers for slots it has, or fails
NodeFails ==
    /\ task = "fetching"
    /\ Fail(Fetcher)
    /\ task' = IF pc'[Fetcher] = "failed" THEN "sleeping" ELSE task
    /\ UNCHANGED <<chainHead, housekeeper, headSlot, update, redisKnown, apiKnown, bounds>>

\* an answer; the number of validators is stored for the website, which is left out
NodeAnswers ==
    /\ task = "fetching" /\ querySlot <= chainHead
    /\ Answer(Fetcher)
    /\ task' = "writing"
    /\ todo' = ActiveAt(querySlot)
    /\ UNCHANGED <<chainHead, housekeeper, headSlot, querySlot, proposersAlreadySaved,
                   redisKnown, apiKnown, bounds>>

\* an error does not keep the validator from being marked
WriteAndMark(v) ==
    /\ task = "writing" /\ v \in todo
    /\ todo' = todo \ {v}
    /\ proposersAlreadySaved' = proposersAlreadySaved \cup {v}
    /\ \/ redisKnown' = redisKnown \cup {v} /\ UNCHANGED faults
       \/ Fault /\ UNCHANGED redisKnown
    /\ UNCHANGED <<client, chainHead, housekeeper, headSlot, task, querySlot,
                   apiKnown, restarts>>

\* one turn of the loop: SetKnownValidatorNX, unless the validator was saved
\* before; after an error, be it that only the reply was lost, it stays unmarked
WriteValidator(v) ==
    /\ task = "writing" /\ v \in todo
    /\ todo' = todo \ {v}
    /\ \/ v \in proposersAlreadySaved /\ UNCHANGED <<proposersAlreadySaved, redisKnown, faults>>
       \/ /\ v \notin proposersAlreadySaved
          /\ redisKnown' = redisKnown \cup {v}
          /\ proposersAlreadySaved' = proposersAlreadySaved \cup {v}
          /\ UNCHANGED faults
       \/ /\ v \notin proposersAlreadySaved
          /\ Fault
          /\ redisKnown' \in {redisKnown, redisKnown \cup {v}}
          /\ UNCHANGED proposersAlreadySaved
    /\ UNCHANGED <<client, chainHead, housekeeper, headSlot, task, querySlot,
                   apiKnown, restarts>>

\* the loop is left
EndUpdate ==
    /\ task = "writing" /\ todo = {}
    /\ task' = "sleeping"
    /\ UNCHANGED <<client, chainHead, housekeeper, headSlot, update, redisKnown, apiKnown, bounds>>

\* the loop ends with the first update that failed
PeriodicTaskOnce ==
    /\ task = "sleeping"
    /\ task' = IF pc[Fetcher] = "failed" THEN "none" ELSE "due"
    /\ UNCHANGED <<client, chainHead, housekeeper, headSlot, update, redisKnown,
                   apiKnown, bounds>>

\* half an epoch later
PeriodicTask ==
    /\ task = "sleeping"
    /\ task' = "due"
    /\ UNCHANGED <<client, chainHead, housekeeper, headSlot, update, redisKnown, apiKnown, bounds>>

UpdateKnownValidators ==
    \/ BeginFetch \/ NodeFails \/ NodeAnswers
    \/ \E v \in Validators : WriteValidator(v)
    \/ EndUpdate \/ PeriodicTask

-----------------------------------------------------------------------------
(* The API *)

\* what could be read is stored: after an error, nothing
RefreshOrEmpty ==
    /\ \/ apiKnown' = redisKnown /\ UNCHANGED faults
       \/ Fault /\ apiKnown' = {}
    /\ UNCHANGED <<client, chainHead, housekeeper, headSlot, task, update, redisKnown, restarts>>

\* RefreshKnownValidators: read all of them, replace both maps under the lock
RefreshKnownValidators ==
    /\ \/ apiKnown' = redisKnown /\ UNCHANGED faults
       \/ Fault /\ UNCHANGED apiKnown
    /\ UNCHANGED <<client, chainHead, housekeeper, headSlot, task, update, redisKnown, restarts>>

\* the API serves requests from the start, with empty maps
RestartApi ==
    /\ RestartCounted
    /\ apiKnown' = {}
    /\ UNCHANGED <<client, chainHead, housekeeper, headSlot, task, update, redisKnown, faults>>

-----------------------------------------------------------------------------
KnownNext ==
    \/ NewBlock
    \/ Start \/ (\E n \in Nodes : SyncStatusArrives(n)) \/ Started \/ StopHousekeeper
    \/ ProcessNewSlot \/ (\E c \in Callers : OtherCalls(c))
    \/ UpdateKnownValidators
    \/ RefreshKnownValidators \/ RestartApi

\* The loops go on, the process is started again, and the chain grows.  A beacon
\* node may fail for a while, but not every time it is asked for a state it has
\* or for its sync status.
Fairness ==
    /\ WF_allVars(NewBlock)
    /\ WF_allVars(Start) /\ WF_allVars(\E n \in Nodes : SyncStatusArrives(n))
    /\ SF_allVars((\E n \in Nodes : SyncStatusArrives(n)) /\ "synced" \in answers')
    /\ WF_allVars(Started)
    /\ WF_allVars(ProcessNewSlot)
    /\ WF_allVars(UpdateKnownValidators) /\ SF_allVars(NodeAnswers)
    /\ WF_allVars(RefreshKnownValidators)

KnownSpec == KnownInit /\ [][KnownNext]_allVars
FairSpec == KnownSpec /\ Fairness

-----------------------------------------------------------------------------
KnownTypeOK ==
    /\ chainHead \in 0..MaxSlot /\ headSlot \in 0..MaxSlot
    /\ housekeeper \in {"down", "starting", "running"}
    /\ task \in {"none", "due", "fetching", "writing", "sleeping"}
    /\ querySlot \in 0..(Modulus - 1)
    /\ todo \subseteq Validators /\ redisKnown \subseteq Validators
    /\ proposersAlreadySaved \subseteq Validators /\ apiKnown \subseteq redisKnown
    /\ faults \in Nat /\ restarts \in Nat /\ faults + restarts <= MaxTroubles

\* "avoid repeating redis writes": what the housekeeper will not write again is
\* in Redis, also after a write that failed or whose reply was lost.
SavedAreInRedis == proposersAlreadySaved \subseteq redisKnown

\* Every validator of the beacon state before the head becomes known to the API,
\* although the first query may be for slot 2^64 - 1 (updateKnownValidators is
\* started before the head slot is stored), a write may fail, and the housekeeper
\* skips what it has saved before.
ValidatorsBecomeKnown ==
    \A v \in Validators :
        v \in ActiveAt(chainHead - 1) ~> v \in apiKnown

\* The API never forgets a validator as long as it runs, whatever a refresh
\* reads: a proposer it has sent a header to can also get the payload.
ApiNeverForgets == [][apiKnown \subseteq apiKnown' \/ restarts' > restarts]_allVars
=============================================================================
