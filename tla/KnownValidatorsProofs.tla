------------------------ MODULE KnownValidatorsProofs ------------------------
(***************************************************************************)
(* For any validators, beacon nodes, callers, failing calls and restarts:  *)
(* no call of the beacon client skips a node, its sync status is the best  *)
(* one, what the housekeeper skips is in Redis, and the API never forgets  *)
(* a validator.                                                            *)
(*                                                                         *)
(* The inductive invariant has two parts.  ClientInv is about the beacon   *)
(* client: it is one of the client alone, and of the client as part of the *)
(* housekeeper, where each step is one of the client, leaves it alone, or  *)
(* makes a new one.  IndInv is KnownTypeOK, which holds that the copy in   *)
(* the API is part of what is in Redis, and SavedAreInRedis; the steps of  *)
(* the client do not touch it.                                             *)
(***************************************************************************)
EXTENDS KnownValidators, TLAPS

-----------------------------------------------------------------------------
(* The beacon client *)

\* Whatever the order in which a call tries the nodes, it contains them all;
\* and the nodes asked so far are those before the loop index.
CallOK(c) ==
    /\ \A n \in Nodes : \E j \in Nodes : clients[c][j] = n
    /\ pc[c] = "asking" => \A j \in Nodes : j < i[c] => clients[c][j] \in asked[c]
    /\ pc[c] = "failed" => asked[c] = Nodes

\* What the goroutines of BestSyncStatus have collected.
CollectedOK ==
    /\ result = "running" =>
           /\ foundSyncedNode <=> "synced" \in answers
           /\ foundSyncedNode => bestSyncStatus = "synced"
           /\ ~foundSyncedNode => bestSyncStatus # "synced"
           /\ bestSyncStatus = "nil" => answers = {}
           /\ answers = {} => bestSyncStatus = "nil"
    /\ pending # {} => result = "running"

ClientInv ==
    /\ TypeOK
    /\ \A c \in Callers : CallOK(c)
    /\ CollectedOK
    /\ SyncStatusIsBest

\* Exchanging two nodes loses none of them.
LEMMA OrderIsComplete ==
    ASSUME NEW best \in Nodes
    PROVE  /\ BeaconInstancesByLastResponse(best) \in [Nodes -> Nodes]
           /\ \A n \in Nodes :
                  \E j \in Nodes : BeaconInstancesByLastResponse(best)[j] = n
  <1>1. 0 \in Nodes
    BY NAssumption DEF Nodes
  <1>2. BeaconInstancesByLastResponse(best) \in [Nodes -> Nodes]
    BY <1>1 DEF BeaconInstancesByLastResponse
  <1>3. ASSUME NEW n \in Nodes
        PROVE  \E j \in Nodes : BeaconInstancesByLastResponse(best)[j] = n
    <2>1. CASE n = best
      BY <1>1, <2>1 DEF BeaconInstancesByLastResponse
    <2>2. CASE n = 0 /\ n # best
      BY <1>1, <2>2 DEF BeaconInstancesByLastResponse
    <2>3. CASE n # 0 /\ n # best
      BY <1>1, <2>3 DEF BeaconInstancesByLastResponse
    <2> QED BY <2>1, <2>2, <2>3
  <1> QED BY <1>2, <1>3

LEMMA ClientInitially == Init => ClientInv
  <1> SUFFICES ASSUME Init PROVE ClientInv
    OBVIOUS
  <1>1. 0 \in Nodes /\ 0 \in 0..N
    BY NAssumption DEF Nodes
  <1>2. TypeOK
    BY <1>1 DEF Init, TypeOK
  <1>3. \A c \in Callers : CallOK(c)
    BY DEF Init, CallOK
  <1>4. CollectedOK /\ SyncStatusIsBest
    BY DEF Init, CollectedOK, SyncStatusIsBest
  <1> QED BY <1>2, <1>3, <1>4 DEF ClientInv

LEMMA CallStep ==
    ASSUME ClientInv, NEW c \in Callers, Call(c)
    PROVE  ClientInv'
  <1>1. bestBeaconIndex \in Nodes /\ 0 \in Nodes /\ 0 \in 0..N
    BY NAssumption DEF ClientInv, TypeOK, Nodes
  <1>2. TypeOK'
    BY <1>1, OrderIsComplete DEF ClientInv, TypeOK, Call, syncCall
  <1>3. CallOK(c)'
    <2>1. /\ clients'[c] = BeaconInstancesByLastResponse(bestBeaconIndex)
          /\ pc'[c] = "asking" /\ i'[c] = 0
      BY DEF ClientInv, TypeOK, Call
    <2>2. \A n \in Nodes : \E j \in Nodes : clients'[c][j] = n
      BY <1>1, <2>1, OrderIsComplete
    <2>3. \A j \in Nodes : ~(j < 0)
      BY DEF Nodes
    <2> QED BY <2>1, <2>2, <2>3 DEF CallOK
  <1>4. ASSUME NEW d \in Callers, d # c PROVE CallOK(d)'
    BY <1>4 DEF ClientInv, TypeOK, Call, CallOK
  <1>5. CollectedOK' /\ SyncStatusIsBest'
    BY DEF ClientInv, Call, syncCall, CollectedOK, SyncStatusIsBest
  <1> QED BY <1>2, <1>3, <1>4, <1>5 DEF ClientInv

LEMMA AnswerStep ==
    ASSUME ClientInv, NEW c \in Callers, Answer(c)
    PROVE  ClientInv'
  <1>1. i[c] \in Nodes /\ 0 \in 0..N
    BY NAssumption DEF ClientInv, TypeOK, Answer
  <1>2. TypeOK'
    <2>1. /\ bestBeaconIndex' \in Nodes
          /\ pc' \in [Callers -> {"idle", "asking", "answered", "failed"}]
          /\ updates' \in [Callers -> BOOLEAN]
          /\ i' \in [Callers -> 0..N] /\ asked' \in [Callers -> SUBSET Nodes]
      BY <1>1 DEF ClientInv, TypeOK, Answer
    <2>2. clients' \in [Callers -> [Nodes -> Nodes]]
      BY DEF ClientInv, TypeOK, Answer
    <2>3. ASSUME NEW d \in Callers, pc'[d] = "asking" PROVE i'[d] \in Nodes
      BY <2>3 DEF ClientInv, TypeOK, Answer
    <2> QED BY <2>1, <2>2, <2>3 DEF ClientInv, TypeOK, Answer, syncCall
  <1>3. ASSUME NEW d \in Callers PROVE CallOK(d)'
    BY DEF ClientInv, TypeOK, Answer, CallOK
  <1>4. CollectedOK' /\ SyncStatusIsBest'
    BY DEF ClientInv, Answer, syncCall, CollectedOK, SyncStatusIsBest
  <1> QED BY <1>2, <1>3, <1>4 DEF ClientInv

LEMMA FailStep ==
    ASSUME ClientInv, NEW c \in Callers, Fail(c)
    PROVE  ClientInv'
  <1>1. i[c] \in Nodes /\ clients[c][i[c]] \in Nodes
    BY DEF ClientInv, TypeOK, Fail
  <1>2. i[c] + 1 \in 0..N /\ (i[c] + 1 # N => i[c] + 1 \in Nodes)
    BY <1>1, NAssumption DEF Nodes
  <1>3. TypeOK'
    <2>1. i' \in [Callers -> 0..N] /\ asked' \in [Callers -> SUBSET Nodes]
      BY <1>1, <1>2 DEF ClientInv, TypeOK, Fail
    <2>2. pc' \in [Callers -> {"idle", "asking", "answered", "failed"}]
      BY DEF ClientInv, TypeOK, Fail
    <2>3. ASSUME NEW d \in Callers, pc'[d] = "asking" PROVE i'[d] \in Nodes
      BY <1>2, <2>3 DEF ClientInv, TypeOK, Fail
    <2> QED BY <2>1, <2>2, <2>3 DEF ClientInv, TypeOK, Fail, syncCall
  <1>4. CallOK(c)'
    <2>1. \A j \in Nodes : j < i[c] + 1 => clients[c][j] \in asked'[c]
      <3>1. ASSUME NEW j \in Nodes, j < i[c] + 1 PROVE j < i[c] \/ j = i[c]
        BY <1>1, <3>1, NAssumption DEF Nodes
      <3> QED BY <3>1 DEF ClientInv, TypeOK, CallOK, Fail
    <2>2. CASE i[c] + 1 = N
      <3>1. \A j \in Nodes : j < i[c] + 1
        BY <2>2, NAssumption DEF Nodes
      <3>2. Nodes \subseteq asked'[c]
        BY <2>1, <3>1 DEF ClientInv, CallOK
      <3> QED BY <1>3, <2>2, <3>2 DEF ClientInv, TypeOK, CallOK, Fail
    <2>3. CASE i[c] + 1 # N
      BY <1>1, <2>1, <2>3 DEF ClientInv, TypeOK, CallOK, Fail
    <2> QED BY <2>2, <2>3
  <1>5. ASSUME NEW d \in Callers, d # c PROVE CallOK(d)'
    BY <1>5 DEF ClientInv, TypeOK, Fail, CallOK
  <1>6. CollectedOK' /\ SyncStatusIsBest'
    BY DEF ClientInv, Fail, syncCall, CollectedOK, SyncStatusIsBest
  <1> QED BY <1>3, <1>4, <1>5, <1>6 DEF ClientInv

\* The calls that try one node after the other, and BestSyncStatus, leave each
\* other's variables alone.
LEMMA SyncStepKeepsCalls ==
    ASSUME ClientInv, UNCHANGED <<bestBeaconIndex, calls, allowSyncing>>,
           (\/ CallBestSyncStatus \/ ReturnSyncStatus
            \/ \E n \in Nodes : SyncStatus(n))
    PROVE  TypeOK' /\ \A c \in Callers : CallOK(c)'
  <1>1. /\ pending' \in SUBSET Nodes
        /\ foundSyncedNode' \in BOOLEAN
        /\ bestSyncStatus' \in {"nil", "syncing", "synced"}
        /\ result' \in {"idle", "running", "syncing", "synced",
                        "ErrBeaconNodeSyncing", "ErrBeaconNodesUnavailable"}
        /\ answers' \in SUBSET {"syncing", "synced"}
    BY DEF ClientInv, TypeOK, CallBestSyncStatus, ReturnSyncStatus, SyncStatus
  <1>2. TypeOK'
    BY <1>1 DEF ClientInv, TypeOK, calls
  <1>3. \A c \in Callers : CallOK(c)'
    BY DEF ClientInv, CallOK, calls
  <1> QED BY <1>2, <1>3

LEMMA SyncStep ==
    ASSUME ClientInv,
           (\/ CallBestSyncStatus \/ ReturnSyncStatus
            \/ \E n \in Nodes : SyncStatus(n))
    PROVE  ClientInv'
  <1>1. UNCHANGED <<bestBeaconIndex, calls, allowSyncing>>
    BY DEF CallBestSyncStatus, ReturnSyncStatus, SyncStatus
  <1>2. TypeOK' /\ \A c \in Callers : CallOK(c)'
    BY <1>1, SyncStepKeepsCalls
  <1>3. CASE CallBestSyncStatus
    BY <1>2, <1>3 DEF ClientInv, CallBestSyncStatus, CollectedOK, SyncStatusIsBest
  <1>4. CASE ReturnSyncStatus
    <2>1. CollectedOK'
      <3>1. bestSyncStatus # "running"
        BY DEF ClientInv, TypeOK
      <3>2. result' # "running" /\ pending' = {}
        BY <1>4, <3>1 DEF ReturnSyncStatus
      <3> QED BY <3>2 DEF CollectedOK
    <2>2. SyncStatusIsBest'
      <3>1. bestSyncStatus \in {"nil", "syncing", "synced"}
        BY DEF ClientInv, TypeOK
      <3> QED BY <1>4, <3>1 DEF ClientInv, ReturnSyncStatus, CollectedOK, SyncStatusIsBest
    <2> QED BY <1>2, <2>1, <2>2 DEF ClientInv
  <1>5. ASSUME NEW n \in Nodes, SyncStatus(n) PROVE ClientInv'
    <2>1. result = "running" /\ result' = "running"
      BY <1>5 DEF ClientInv, CollectedOK, SyncStatus
    <2>2. SyncStatusIsBest'
      BY <2>1 DEF SyncStatusIsBest
    <2>3. CASE UNCHANGED <<foundSyncedNode, bestSyncStatus, answers>>
      BY <1>2, <2>1, <2>2, <2>3 DEF ClientInv, CollectedOK
    <2>4. ASSUME NEW status \in {"syncing", "synced"},
                 answers' = answers \cup {status},
                 foundSyncedNode' = (foundSyncedNode \/ status = "synced"),
                 bestSyncStatus' =
                     IF ~foundSyncedNode /\ (bestSyncStatus = "nil" \/ status = "synced")
                     THEN status ELSE bestSyncStatus
          PROVE  ClientInv'
      <3>1. CASE status = "synced"
        BY <1>2, <2>1, <2>2, <2>4, <3>1 DEF ClientInv, CollectedOK
      <3>2. CASE status = "syncing"
        <4>1. foundSyncedNode' <=> foundSyncedNode
          BY <2>4, <3>2
        <4>2. "synced" \in answers' <=> "synced" \in answers
          BY <2>4, <3>2
        <4> QED BY <1>2, <2>1, <2>2, <2>4, <3>2, <4>1, <4>2 DEF ClientInv, CollectedOK
      <3> QED BY <3>1, <3>2
    <2> QED BY <1>5, <2>3, <2>4 DEF SyncStatus
  <1> QED BY <1>3, <1>4, <1>5

LEMMA ClientStep == ClientInv /\ [Next]_vars => ClientInv'
  <1> SUFFICES ASSUME ClientInv, [Next]_vars PROVE ClientInv'
    OBVIOUS
  <1>1. CASE UNCHANGED vars
    BY <1>1 DEF vars, calls, syncCall, ClientInv, TypeOK, CallOK, CollectedOK, SyncStatusIsBest
  <1> QED BY <1>1, CallStep, AnswerStep, FailStep, SyncStep DEF Next

\* The client on its own: the index into beaconInstances and the loop index of a
\* call stay in bounds, no call fails that has not asked every node, and the sync
\* status does not depend on the order of the answers.
THEOREM ClientIsCorrect == Spec => [](TypeOK /\ FailsOnlyAfterAll /\ SyncStatusIsBest)
  <1>1. ClientInv => TypeOK /\ FailsOnlyAfterAll /\ SyncStatusIsBest
    BY DEF ClientInv, CallOK, FailsOnlyAfterAll
  <1> QED BY <1>1, ClientInitially, ClientStep, PTL DEF Spec

\* The client of the housekeeper: every step is one of the client alone, but
\* for the end of the process, after which there is a new client.
LEMMA HousekeeperStep == ClientInv /\ [KnownNext]_allVars => ClientInv'
  <1> SUFFICES ASSUME ClientInv, [KnownNext]_allVars PROVE ClientInv'
    OBVIOUS
  <1>1. CASE StopHousekeeper
    <2>1. Init' <=> allowSyncing' \in BOOLEAN
      BY <1>1 DEF StopHousekeeper, Init
    <2>2. allowSyncing' \in BOOLEAN
      BY <1>1 DEF StopHousekeeper, ClientInv, TypeOK
    <2>3. Init' => ClientInv'
      BY ClientInitially, PTL
    <2> QED BY <2>1, <2>2, <2>3
  <1>2. CASE UNCHANGED client
    BY <1>2, ClientStep DEF client, vars
  <1>3. CASE Start \/ (\E n \in Nodes : SyncStatusArrives(n)) \/ Started
    BY <1>3, ClientStep DEF Start, SyncStatusArrives, Started, Next
  <1>4. CASE \E c \in Callers : OtherCalls(c)
    BY <1>4, ClientStep DEF OtherCalls, Next
  <1>5. CASE BeginFetch \/ NodeFails \/ NodeAnswers
    BY <1>5, ClientStep, ValidatorsAssumption DEF BeginFetch, NodeFails, NodeAnswers, Next
  <1>6. CASE \/ NewBlock \/ ProcessNewSlot \/ (\E v \in Validators : WriteValidator(v))
             \/ EndUpdate \/ PeriodicTask \/ RefreshKnownValidators \/ RestartApi
    <2>1. UNCHANGED client
      BY <1>6 DEF NewBlock, ProcessNewSlot, WriteValidator, EndUpdate, PeriodicTask,
                  RefreshKnownValidators, RestartApi
    <2> QED BY <1>2, <2>1
  <1> QED
    BY <1>1, <1>2, <1>3, <1>4, <1>5, <1>6 DEF KnownNext, UpdateKnownValidators, allVars

LEMMA ClientInvHolds == KnownSpec => []ClientInv
  <1>1. KnownInit => ClientInv
    BY ClientInitially DEF KnownInit
  <1> QED BY <1>1, HousekeeperStep, PTL DEF KnownSpec

\* The index into beaconInstances and the loop index of a call stay in bounds.
THEOREM ClientTypeCorrect == KnownSpec => []TypeOK
  <1>1. ClientInv => TypeOK
    BY DEF ClientInv
  <1> QED BY <1>1, ClientInvHolds, PTL

\* However calls race for bestBeaconIndex, one of them only fails after every
\* beacon node failed it.
THEOREM NoNodeIsSkipped == KnownSpec => []FailsOnlyAfterAll
  <1>1. ClientInv => FailsOnlyAfterAll
    BY DEF ClientInv, CallOK, FailsOnlyAfterAll
  <1> QED BY <1>1, ClientInvHolds, PTL

\* BestSyncStatus returns the same for every order of the answers.
THEOREM SyncStatusIsOrderFree == KnownSpec => []SyncStatusIsBest
  <1>1. ClientInv => SyncStatusIsBest
    BY DEF ClientInv
  <1> QED BY <1>1, ClientInvHolds, PTL

-----------------------------------------------------------------------------
(* The known validators *)

IndInv == KnownTypeOK /\ SavedAreInRedis

\* The variables that IndInv is about.
known == <<chainHead, housekeeper, headSlot, task, update, redisKnown, apiKnown, bounds>>

LEMMA InitIndInv == KnownInit => IndInv
  BY ValidatorsAssumption DEF KnownInit, IndInv, KnownTypeOK, SavedAreInRedis

\* IndInv does not depend on the beacon client.
LEMMA UnchangedKeeps == ASSUME IndInv, UNCHANGED known PROVE IndInv'
  BY DEF IndInv, known, update, bounds, KnownTypeOK, SavedAreInRedis

\* headSlot - 1 is an unsigned integer, also for headSlot = 0.
LEMMA RemainderInRange == ASSUME NEW a \in Int, NEW m \in Nat \ {0} PROVE a % m \in 0..(m - 1)
  OBVIOUS

LEMMA ChainAndStartKeep ==
    ASSUME IndInv,
           NewBlock \/ Start \/ (\E n \in Nodes : SyncStatusArrives(n)) \/ Started
    PROVE  IndInv'
  <1>1. CASE NewBlock
    BY <1>1, ValidatorsAssumption
    DEF NewBlock, IndInv, KnownTypeOK, SavedAreInRedis, update, bounds
  <1>2. CASE Start
    BY <1>2 DEF Start, IndInv, KnownTypeOK, SavedAreInRedis, update, bounds
  <1>3. CASE \E n \in Nodes : SyncStatusArrives(n)
    BY <1>3, UnchangedKeeps DEF SyncStatusArrives, known
  <1>4. CASE Started
    BY <1>4 DEF Started, IndInv, KnownTypeOK, SavedAreInRedis, update, bounds
  <1> QED BY <1>1, <1>2, <1>3, <1>4

LEMMA HousekeeperKeeps ==
    ASSUME IndInv,
           StopHousekeeper \/ ProcessNewSlot \/ (\E c \in Callers : OtherCalls(c))
    PROVE  IndInv'
  <1>1. CASE StopHousekeeper
    BY <1>1, ValidatorsAssumption
    DEF StopHousekeeper, RestartCounted, IndInv, KnownTypeOK, SavedAreInRedis
  <1>2. CASE ProcessNewSlot
    BY <1>2, ValidatorsAssumption
    DEF ProcessNewSlot, IndInv, KnownTypeOK, SavedAreInRedis, update, bounds
  <1>3. CASE \E c \in Callers : OtherCalls(c)
    BY <1>3, UnchangedKeeps DEF OtherCalls, known
  <1> QED BY <1>1, <1>2, <1>3

LEMMA FetchKeeps ==
    ASSUME IndInv, BeginFetch \/ NodeFails \/ NodeAnswers \/ EndUpdate \/ PeriodicTask
    PROVE  IndInv'
  <1>1. CASE BeginFetch
    <2>1. (headSlot - 1) % Modulus \in 0..(Modulus - 1)
      BY RemainderInRange, ValidatorsAssumption DEF IndInv, KnownTypeOK
    <2> QED
      BY <1>1, <2>1 DEF BeginFetch, IndInv, KnownTypeOK, SavedAreInRedis, bounds
  <1>2. CASE NodeFails
    BY <1>2 DEF NodeFails, IndInv, KnownTypeOK, SavedAreInRedis, update, bounds
  <1>3. CASE NodeAnswers
    BY <1>3 DEF NodeAnswers, ActiveAt, IndInv, KnownTypeOK, SavedAreInRedis, bounds
  <1>4. CASE EndUpdate
    BY <1>4 DEF EndUpdate, IndInv, KnownTypeOK, SavedAreInRedis, update, bounds
  <1>5. CASE PeriodicTask
    BY <1>5 DEF PeriodicTask, IndInv, KnownTypeOK, SavedAreInRedis, update, bounds
  <1> QED BY <1>1, <1>2, <1>3, <1>4, <1>5

\* A validator is marked in the same step that Redis confirms it; a failed
\* write, or one whose reply was lost, leaves it unmarked.
LEMMA WriteKeeps ==
    ASSUME IndInv, NEW v \in Validators, WriteValidator(v)
    PROVE  IndInv'
  <1>1. redisKnown \subseteq redisKnown' /\ redisKnown' \subseteq redisKnown \cup {v}
    BY DEF WriteValidator
  <1>2. faults' \in Nat /\ faults' + restarts <= MaxTroubles
    BY ValidatorsAssumption DEF WriteValidator, Fault, IndInv, KnownTypeOK
  <1>3. \/ proposersAlreadySaved' = proposersAlreadySaved
        \/ proposersAlreadySaved' = proposersAlreadySaved \cup {v} /\ v \in redisKnown'
    BY DEF WriteValidator
  <1> QED
    BY <1>1, <1>2, <1>3 DEF WriteValidator, IndInv, KnownTypeOK, SavedAreInRedis

LEMMA ApiKeeps ==
    ASSUME IndInv, RefreshKnownValidators \/ RestartApi
    PROVE  IndInv'
  <1>1. CASE RefreshKnownValidators
    BY <1>1, ValidatorsAssumption
    DEF RefreshKnownValidators, Fault, IndInv, KnownTypeOK, SavedAreInRedis, update
  <1>2. CASE RestartApi
    BY <1>2, ValidatorsAssumption
    DEF RestartApi, RestartCounted, IndInv, KnownTypeOK, SavedAreInRedis, update
  <1> QED BY <1>1, <1>2

LEMMA NextKeeps == IndInv /\ [KnownNext]_allVars => IndInv'
  <1> SUFFICES ASSUME IndInv, [KnownNext]_allVars PROVE IndInv'
    OBVIOUS
  <1>1. CASE NewBlock \/ Start \/ (\E n \in Nodes : SyncStatusArrives(n)) \/ Started
    BY <1>1, ChainAndStartKeep
  <1>2. CASE StopHousekeeper \/ ProcessNewSlot \/ (\E c \in Callers : OtherCalls(c))
    BY <1>2, HousekeeperKeeps
  <1>3. CASE UpdateKnownValidators
    BY <1>3, FetchKeeps, WriteKeeps DEF UpdateKnownValidators
  <1>4. CASE RefreshKnownValidators \/ RestartApi
    BY <1>4, ApiKeeps
  <1>5. CASE UNCHANGED allVars
    BY <1>5, UnchangedKeeps DEF allVars, known
  <1> QED
    BY <1>1, <1>2, <1>3, <1>4, <1>5 DEF KnownNext

\* The inductive invariant holds throughout.
THEOREM Invariance == KnownSpec => []IndInv
  BY InitIndInv, NextKeeps, PTL DEF KnownSpec

\* The state of the housekeeper's update is type correct; in particular the
\* slot it asks for is an unsigned integer before the first head is processed,
\* and the API only knows validators that are in Redis.
THEOREM TypeCorrect == KnownSpec => []KnownTypeOK
  <1>1. IndInv => KnownTypeOK
    BY DEF IndInv
  <1> QED BY <1>1, Invariance, PTL

\* What the housekeeper will not write again (proposersAlreadySaved) is in
\* Redis, whichever of its writes fail, and whenever it restarts.
THEOREM SavedStayInRedis == KnownSpec => []SavedAreInRedis
  <1>1. IndInv => SavedAreInRedis
    BY DEF IndInv
  <1> QED BY <1>1, Invariance, PTL

\* RefreshKnownValidators replaces the maps of the API by larger ones, or leaves
\* them: only a restart makes it forget a validator.
THEOREM ApiRemembers == KnownSpec => ApiNeverForgets
  <1>1. ASSUME IndInv, [KnownNext]_allVars
        PROVE  [apiKnown \subseteq apiKnown' \/ restarts' > restarts]_allVars
    <2>1. CASE RefreshKnownValidators
      BY <1>1, <2>1 DEF RefreshKnownValidators, IndInv, KnownTypeOK
    <2>2. CASE RestartApi
      BY <1>1, <2>2 DEF RestartApi, RestartCounted, IndInv, KnownTypeOK
    <2>3. CASE NewBlock \/ Start \/ (\E n \in Nodes : SyncStatusArrives(n)) \/ Started
               \/ StopHousekeeper \/ ProcessNewSlot \/ (\E c \in Callers : OtherCalls(c))
      BY <2>3 DEF NewBlock, Start, SyncStatusArrives, Started, StopHousekeeper, ProcessNewSlot,
                  OtherCalls
    <2>4. CASE UpdateKnownValidators
      BY <2>4 DEF UpdateKnownValidators, BeginFetch, NodeFails, NodeAnswers, WriteValidator,
                  EndUpdate, PeriodicTask
    <2>5. CASE UNCHANGED allVars
      BY <2>5
    <2> QED
      BY <1>1, <2>1, <2>2, <2>3, <2>4, <2>5 DEF KnownNext
  <1> QED
    BY <1>1, Invariance, PTL DEF KnownSpec, ApiNeverForgets
=============================================================================
