-------------------------- MODULE HeadEventsProofs --------------------------
(***************************************************************************)
(* Proofs about what processNewSlot starts, besides the optimistic slot    *)
(* (OptimisticProofs): updatedExpectedRandao (PrevRandao) and              *)
(* updateProposerDuties (ProposerDuties).                                  *)
(***************************************************************************)
EXTENDS PrevRandao, ProposerDuties, TLAPS

-----------------------------------------------------------------------------
(* PrevRandao, for every bound *)

RandaoInv == RandaoTypeOK /\ ExpectedFollowsChain

LEMMA RandaoInitEstablishes == RandaoInit => RandaoInv
<1>1. 0 \in RandaoSlots /\ 0 \in 0..LastSlot /\ 0 \in 0..(LastSlot + 1)
  BY RandaoAssumption DEF RandaoSlots
<1> QED BY <1>1 DEF RandaoInit, RandaoInv, RandaoTypeOK, ExpectedFollowsChain

\* What each step of a goroutine does to the counts.
LEMMA CountsStayNatural ==
    ASSUME RandaoTypeOK, NEW s \in RandaoSlots,
           \/ ApiProcessNewSlot(s) \/ RandaoCheck1(s) \/ BeginRandaoUpdate(s)
           \/ QueryFails(s) \/ QuerySucceeds(s)
    PROVE  started' \in [RandaoSlots -> Nat] /\ querying' \in [RandaoSlots -> Nat]
<1>1. started[s] \in Nat /\ querying[s] \in Nat
  BY DEF RandaoTypeOK
<1>2. started' \in [RandaoSlots -> Nat]
  BY <1>1 DEF RandaoTypeOK, ApiProcessNewSlot, RandaoCheck1, BeginRandaoUpdate, QueryFails,
              QuerySucceeds, Start
<1>3. querying' \in [RandaoSlots -> Nat]
  BY <1>1 DEF RandaoTypeOK, ApiProcessNewSlot, RandaoCheck1, BeginRandaoUpdate, QueryFails,
              QuerySucceeds
<1> QED BY <1>2, <1>3

\* The answer for slot s is for slot s + 1, which the node has reached, and
\* replaces no later one.
LEMMA AnswerStep ==
    ASSUME RandaoInv, NEW s \in RandaoSlots, QuerySucceeds(s)
    PROVE  RandaoInv' /\ expected' >= expected
<1>1. /\ s \in Nat /\ nodeHead \in Nat /\ nodeHead <= LastSlot /\ LastSlot \in Nat
      /\ expected \in Nat /\ expected <= LastSlot + 1
  BY RandaoAssumption DEF RandaoInv, RandaoTypeOK, RandaoSlots
<1>2. expected' \in {s + 1, expected} /\ expected' >= expected
  BY <1>1 DEF QuerySucceeds
<1>3. expected' \in 0..(LastSlot + 1) /\ expected' <= nodeHead' + 1
  BY <1>1, <1>2 DEF QuerySucceeds, RandaoInv, ExpectedFollowsChain
<1>4. RandaoTypeOK'
  BY <1>3, CountsStayNatural DEF RandaoInv, RandaoTypeOK, QuerySucceeds
<1> QED BY <1>2, <1>3, <1>4 DEF RandaoInv, ExpectedFollowsChain, QuerySucceeds

\* No other step of a goroutine touches the expected slot.
LEMMA OtherStep ==
    ASSUME RandaoInv, NEW s \in RandaoSlots,
           \/ ApiProcessNewSlot(s) \/ RandaoCheck1(s) \/ BeginRandaoUpdate(s) \/ QueryFails(s)
    PROVE  RandaoInv' /\ expected' >= expected
<1>1. 0 \in RandaoSlots /\ failures \in Nat /\ expected \in Nat
  BY RandaoAssumption DEF RandaoInv, RandaoTypeOK, RandaoSlots
<1>2. UNCHANGED <<nodeHead, expected>> /\ apiHead' \in {apiHead, s}
  BY DEF ApiProcessNewSlot, RandaoCheck1, BeginRandaoUpdate, QueryFails
<1>3. updating' \in RandaoSlots /\ failures' \in Nat
  BY <1>1 DEF RandaoInv, RandaoTypeOK, ApiProcessNewSlot, RandaoCheck1, BeginRandaoUpdate, QueryFails
<1>4. apiHead' <= nodeHead'
  BY <1>2 DEF RandaoInv, ExpectedFollowsChain, ApiProcessNewSlot, RandaoCheck1, BeginRandaoUpdate,
              QueryFails
<1>5. apiHead' \in 0..LastSlot
  <2>1. /\ nodeHead \in Nat /\ nodeHead <= LastSlot /\ LastSlot \in Nat
        /\ apiHead \in Nat /\ s \in Nat
    BY RandaoAssumption DEF RandaoInv, RandaoTypeOK, RandaoSlots
  <2>2. apiHead' \in Nat /\ apiHead' <= nodeHead
    BY <1>2, <1>4, <2>1
  <2> QED BY <2>1, <2>2
<1>6. RandaoTypeOK'
  BY <1>2, <1>3, <1>5, CountsStayNatural DEF RandaoInv, RandaoTypeOK
<1>7. expected' >= expected
  BY <1>1, <1>2
<1> QED BY <1>2, <1>4, <1>6, <1>7 DEF RandaoInv, ExpectedFollowsChain

LEMMA NodeStep ==
    ASSUME RandaoInv, NodeSeesBlock
    PROVE  RandaoInv' /\ expected' >= expected
<1>1. /\ nodeHead \in Nat /\ expected \in Nat /\ apiHead \in Nat /\ LastSlot \in Nat
  BY RandaoAssumption DEF RandaoInv, RandaoTypeOK, RandaoSlots
<1>2. nodeHead' \in 0..LastSlot /\ nodeHead' > nodeHead
  BY <1>1 DEF NodeSeesBlock
<1>3. nodeHead' \in Nat
  BY <1>2
<1>4. RandaoTypeOK'
  BY <1>2 DEF RandaoInv, RandaoTypeOK, NodeSeesBlock
<1>5. ExpectedFollowsChain'
  BY <1>1, <1>2, <1>3 DEF RandaoInv, ExpectedFollowsChain, NodeSeesBlock
<1> QED BY <1>1, <1>4, <1>5 DEF RandaoInv, NodeSeesBlock

LEMMA RandaoNextPreserves ==
    RandaoInv /\ [RandaoNext]_randaoVars => RandaoInv' /\ (expected' >= expected)
<1> SUFFICES ASSUME RandaoInv, [RandaoNext]_randaoVars PROVE RandaoInv' /\ expected' >= expected
  OBVIOUS
<1>1. CASE UNCHANGED randaoVars
  <2>1. expected \in Nat
    BY RandaoAssumption DEF RandaoInv, RandaoTypeOK
  <2> QED BY <1>1, <2>1 DEF randaoVars, RandaoInv, RandaoTypeOK, ExpectedFollowsChain
<1> QED BY <1>1, NodeStep, AnswerStep, OtherStep DEF RandaoNext

\* The expected slot stays within reach of the chain, whatever the submissions.
THEOREM ExpectedWithinReach == RandaoSpec => []ExpectedFollowsChain
<1>1. RandaoInv => ExpectedFollowsChain
  BY DEF RandaoInv
<1> QED BY <1>1, RandaoInitEstablishes, RandaoNextPreserves, PTL DEF RandaoSpec

\* The variables of updatedExpectedRandao are type correct.
THEOREM RandaoTypeCorrect == RandaoSpec => []RandaoTypeOK
<1>1. RandaoInv => RandaoTypeOK
  BY DEF RandaoInv
<1> QED BY <1>1, RandaoInitEstablishes, RandaoNextPreserves, PTL DEF RandaoSpec

\* The expected slot never goes back, in whatever order the node's answers
\* arrive.
THEOREM AnswersKeepOrder == RandaoSpec => ExpectedNeverGoesBack
<1>1. RandaoInv /\ [RandaoNext]_randaoVars => [expected' >= expected]_randaoVars
  BY RandaoNextPreserves
<1> QED BY <1>1, RandaoInitEstablishes, RandaoNextPreserves, PTL DEF RandaoSpec, ExpectedNeverGoesBack

-----------------------------------------------------------------------------
(* ProposerDuties.  For any chain, any interval and any failures and       *)
(* restarts: at most one goroutine of each service is past the flag        *)
(* isUpdatingProposerDuties, and the flag is set exactly while there is    *)
(* one.  No duties in Redis or in a service are of a slot after the next   *)
(* epoch of the chain.                                                     *)


States == {"none", "spawned", "leaving", "updating", "saving"}

\* The part of the type invariant the argument needs.
FlagsOK ==
    /\ chain \in Slots
    /\ headSlot \in [Services -> Slots]
    /\ isUpdating \in [Services -> BOOLEAN]
    /\ task \in [Services -> [Slots -> States]]

\* There is no goroutine of a head that the service has not processed, so that
\* each head starts a goroutine of its own.
NoneAhead ==
    \A p \in Services : \A h \in Slots : task[p][h] # "none" => h <= headSlot[p]

IndInv == FlagsOK /\ NoneAhead /\ OneUpdateAtATime

\* Both services start without goroutines, and with their flags reset.
LEMMA InitHolds == Init => IndInv
  <1> SUFFICES ASSUME Init PROVE IndInv
    OBVIOUS
  <1>1. FirstSlot \in Slots
    BY SlotsAssumption DEF Slots
  <1>2. \A p \in Services : task[p] = [h \in Slots |-> "none"] /\ isUpdating[p] = FALSE
    BY DEF Init
  <1>3. FlagsOK
    BY <1>1 DEF Init, FlagsOK, States
  <1>4. NoneAhead
    BY <1>2 DEF NoneAhead
  <1>5. \A p \in Services : Running(p) = {} /\ ~isUpdating[p]
    BY <1>2 DEF Running
  <1> QED BY <1>3, <1>4, <1>5 DEF IndInv, OneUpdateAtATime

\* The goroutine of one head moves on, and sets the flag of its service.
Moves(p, h, x, flag) ==
    /\ task' = [task EXCEPT ![p][h] = x]
    /\ isUpdating' = [isUpdating EXCEPT ![p] = flag]
    /\ UNCHANGED <<chain, headSlot>>

\* What such a step leaves alone, and which goroutines are past the flag then.
LEMMA MovedTask ==
    ASSUME FlagsOK, NoneAhead, NEW p \in Services, NEW h \in Slots, task[p][h] # "none",
           NEW x \in States, NEW flag \in BOOLEAN, Moves(p, h, x, flag)
    PROVE  /\ FlagsOK' /\ NoneAhead'
           /\ isUpdating'[p] = flag
           /\ \A q \in Services \ {p} : Running(q)' = Running(q) /\ isUpdating'[q] = isUpdating[q]
           /\ x = "none" => Running(p)' = Running(p) \ {h}
           /\ x \in {"leaving", "updating", "saving"} => Running(p)' = Running(p) \cup {h}
  <1>1. task' \in [Services -> [Slots -> States]]
    BY DEF FlagsOK, Moves
  <1>2. /\ isUpdating' \in [Services -> BOOLEAN] /\ isUpdating'[p] = flag
        /\ \A q \in Services \ {p} : isUpdating'[q] = isUpdating[q]
    BY Zenon DEF FlagsOK, Moves
  <1>3. /\ \A q \in Services \ {p} : task'[q] = task[q]
        /\ task'[p] = [task[p] EXCEPT ![h] = x]
    BY DEF FlagsOK, Moves
  <1>4. \A q \in Services \ {p} : Running(q)' = Running(q)
    BY <1>3 DEF Running
  <1>5. task'[p][h] = x /\ \A g \in Slots \ {h} : task'[p][g] = task[p][g]
    BY <1>3 DEF FlagsOK
  <1>6. /\ x = "none" => Running(p)' = Running(p) \ {h}
        /\ x \in {"leaving", "updating", "saving"} => Running(p)' = Running(p) \cup {h}
    BY <1>5 DEF Running
  <1>7. NoneAhead'
    BY <1>3, <1>5 DEF NoneAhead, Moves
  <1>8. FlagsOK'
    BY <1>1, <1>2 DEF FlagsOK, Moves
  <1> QED BY <1>2, <1>4, <1>6, <1>7, <1>8

\* A goroutine that takes the flag is the only one past it.
LEMMA TakesFlag ==
    ASSUME IndInv, NEW p \in Services, NEW h \in Slots, task[p][h] # "none", ~isUpdating[p],
           NEW x \in {"leaving", "updating"}, Moves(p, h, x, TRUE)
    PROVE  IndInv'
  <1>1. Running(p) = {}
    BY DEF IndInv, OneUpdateAtATime
  <1>2. x \in States
    BY DEF States
  <1>3. Running(p)' = Running(p) \cup {h} /\ isUpdating'[p] = TRUE
    BY <1>2, MovedTask DEF IndInv
  <1>4. \A q \in Services \ {p} : Running(q)' = Running(q) /\ isUpdating'[q] = isUpdating[q]
    BY <1>2, MovedTask DEF IndInv
  <1>5. FlagsOK' /\ NoneAhead'
    BY <1>2, MovedTask DEF IndInv
  <1> QED BY <1>1, <1>3, <1>4, <1>5 DEF IndInv, OneUpdateAtATime

\* The goroutine past the flag ends and resets it.
LEMMA ReleasesFlag ==
    ASSUME IndInv, NEW p \in Services, NEW h \in Running(p), EndUpdate(p, h),
           UNCHANGED <<chain, headSlot>>
    PROVE  IndInv'
  <1>1. h \in Slots /\ task[p][h] # "none" /\ Moves(p, h, "none", FALSE)
    BY DEF Running, EndUpdate, Moves
  <1>2. "none" \in States
    BY DEF States
  <1>3. Running(p) = {h}
    BY DEF IndInv, OneUpdateAtATime
  <1>4. Running(p)' = Running(p) \ {h} /\ isUpdating'[p] = FALSE
    BY <1>1, <1>2, MovedTask DEF IndInv
  <1>5. \A q \in Services \ {p} : Running(q)' = Running(q) /\ isUpdating'[q] = isUpdating[q]
    BY <1>1, <1>2, MovedTask DEF IndInv
  <1>6. FlagsOK' /\ NoneAhead'
    BY <1>1, <1>2, MovedTask DEF IndInv
  <1> QED BY <1>3, <1>4, <1>5, <1>6 DEF IndInv, OneUpdateAtATime

\* Steps that leave the goroutines past the flag, and the flags, alone.
LEMMA FlagsUntouched ==
    ASSUME IndInv, FlagsOK', NoneAhead',
           \A p \in Services : Running(p)' = Running(p) /\ isUpdating'[p] = isUpdating[p]
    PROVE  IndInv'
  BY DEF IndInv, OneUpdateAtATime

-----------------------------------------------------------------------------
(* The steps *)

\* The beacon node has a new head.
LEMMA NewBlockKeeps == ASSUME IndInv, NEW h, NewBlock(h) PROVE IndInv'
  <1>1. chain' \in Slots /\ UNCHANGED <<headSlot, task, isUpdating>>
    BY DEF NewBlock, service
  <1>2. FlagsOK' /\ NoneAhead'
    BY <1>1 DEF IndInv, FlagsOK, NoneAhead
  <1>3. \A p \in Services : Running(p)' = Running(p) /\ isUpdating'[p] = isUpdating[p]
    BY <1>1 DEF Running
  <1> QED BY <1>2, <1>3, FlagsUntouched

\* A service starts the goroutine of a head, which it has none of yet.
LEMMA ProcessNewSlotKeeps ==
    ASSUME IndInv, NEW p \in Services, NEW h \in Slots, ProcessNewSlot(p, h)
    PROVE  IndInv'
  <1>1. /\ FlagsOK /\ headSlot[p] \in Slots /\ headSlot[p] < h
        /\ UNCHANGED <<chain, isUpdating>>
        /\ headSlot' = [headSlot EXCEPT ![p] = h]
        /\ task' = [task EXCEPT ![p][h] = "spawned"]
    BY DEF IndInv, FlagsOK, ProcessNewSlot
  <1>2. task[p][h] = "none"
    BY <1>1, SlotsAssumption DEF IndInv, NoneAhead, Slots
  <1>3. /\ \A q \in Services \ {p} : task'[q] = task[q] /\ headSlot'[q] = headSlot[q]
        /\ task'[p] = [task[p] EXCEPT ![h] = "spawned"] /\ headSlot'[p] = h
    BY <1>1 DEF FlagsOK
  <1>4. task'[p][h] = "spawned" /\ \A g \in Slots \ {h} : task'[p][g] = task[p][g]
    BY <1>1, <1>3 DEF FlagsOK
  <1>5. FlagsOK'
    BY <1>1 DEF FlagsOK, States
  <1>6. NoneAhead'
    BY <1>1, <1>3, <1>4, SlotsAssumption DEF IndInv, NoneAhead, Slots
  <1>7. Running(p)' = Running(p) /\ \A q \in Services \ {p} : Running(q)' = Running(q)
    BY <1>2, <1>3, <1>4 DEF Running
  <1> QED BY <1>1, <1>5, <1>6, <1>7, FlagsUntouched

\* The goroutine of a head finds the flag set and is dropped, or takes it.
LEMMA BeginUpdateKeeps ==
    ASSUME IndInv, NEW p \in Services, NEW h \in Slots, BeginUpdate(p, h)
    PROVE  IndInv'
  <1>1. FlagsOK /\ NoneAhead /\ task[p][h] = "spawned" /\ UNCHANGED <<chain, headSlot>>
    BY DEF IndInv, BeginUpdate
  <1>2. CASE isUpdating[p] /\ task' = [task EXCEPT ![p][h] = "none"] /\ UNCHANGED isUpdating
    <2>1. /\ \A q \in Services \ {p} : task'[q] = task[q]
          /\ task'[p] = [task[p] EXCEPT ![h] = "none"]
      BY <1>1, <1>2 DEF FlagsOK
    <2>2. task'[p][h] = "none" /\ \A g \in Slots \ {h} : task'[p][g] = task[p][g]
      BY <1>1, <2>1 DEF FlagsOK
    <2>3. FlagsOK'
      BY <1>1, <1>2 DEF FlagsOK, States
    <2>4. NoneAhead'
      BY <1>1, <2>1, <2>2 DEF NoneAhead
    <2>5. Running(p)' = Running(p) /\ \A q \in Services \ {p} : Running(q)' = Running(q)
      BY <1>1, <2>1, <2>2 DEF Running
    <2> QED BY <1>2, <2>3, <2>4, <2>5, FlagsUntouched
  <1>3. CASE /\ ~isUpdating[p]
             /\ task' = [task EXCEPT ![p][h] = IF IsDue(p, h) THEN "updating" ELSE "leaving"]
             /\ isUpdating' = [isUpdating EXCEPT ![p] = TRUE]
    <2>1. CASE IsDue(p, h)
      <3>1. Moves(p, h, "updating", TRUE)
        BY <1>1, <1>3, <2>1 DEF Moves
      <3> QED BY <1>1, <1>3, <3>1, TakesFlag
    <2>2. CASE ~IsDue(p, h)
      <3>1. Moves(p, h, "leaving", TRUE)
        BY <1>1, <1>3, <2>2 DEF Moves
      <3> QED BY <1>1, <1>3, <3>1, TakesFlag
    <2> QED BY <2>1, <2>2
  <1> QED BY <1>2, <1>3 DEF BeginUpdate

\* The housekeeper has its answers, or gives up.
LEMMA FetchDutiesKeeps == ASSUME IndInv, NEW h \in Slots, FetchDuties(h) PROVE IndInv'
  <1> DEFINE hk == "housekeeper"
  <1>1. /\ FlagsOK /\ NoneAhead /\ hk \in Services /\ h \in Running(hk)
        /\ task[hk][h] = "updating" /\ UNCHANGED <<chain, headSlot>>
    BY DEF IndInv, FetchDuties, Running, Services
  <1>2. CASE EndUpdate(hk, h)
    BY <1>1, <1>2, ReleasesFlag
  <1>3. CASE task' = [task EXCEPT ![hk][h] = "saving"] /\ UNCHANGED isUpdating
    <2>1. /\ \A q \in Services \ {hk} : task'[q] = task[q]
          /\ task'[hk] = [task[hk] EXCEPT ![h] = "saving"]
      BY <1>1, <1>3 DEF FlagsOK
    <2>2. task'[hk][h] = "saving" /\ \A g \in Slots \ {h} : task'[hk][g] = task[hk][g]
      BY <1>1, <2>1 DEF FlagsOK
    <2>3. FlagsOK'
      BY <1>1, <1>3 DEF FlagsOK, States
    <2>4. NoneAhead'
      BY <1>1, <2>1, <2>2 DEF NoneAhead
    <2>5. Running(hk)' = Running(hk) /\ \A q \in Services \ {hk} : Running(q)' = Running(q)
      BY <1>1, <2>1, <2>2 DEF Running
    <2> QED BY <1>3, <2>3, <2>4, <2>5, FlagsUntouched
  <1> QED BY <1>2, <1>3 DEF FetchDuties

\* Each way out of updateProposerDuties resets the flag.
LEMMA EndsKeep ==
    ASSUME IndInv, NEW p \in Services, NEW h \in Slots,
           \/ LeaveUpdate(p, h)
           \/ p = "housekeeper" /\ SaveDuties(h)
           \/ p = "api" /\ CopyDuties(h)
    PROVE  IndInv'
  <1>1. h \in Running(p) /\ EndUpdate(p, h) /\ UNCHANGED <<chain, headSlot>>
    BY DEF LeaveUpdate, SaveDuties, CopyDuties, Running
  <1> QED BY <1>1, ReleasesFlag

\* A restart takes the flag together with the goroutine that set it.
LEMMA RestartsKeep ==
    ASSUME IndInv, NEW p \in Services, Started(p), UNCHANGED chain
    PROVE  IndInv'
  <1>1. FlagsOK /\ chain \in Slots
    BY DEF IndInv, FlagsOK
  <1>2. /\ \A q \in Services \ {p} : task'[q] = task[q] /\ headSlot'[q] = headSlot[q]
        /\ headSlot'[p] = chain
        /\ \A h \in Slots : task'[p][h] = IF h = chain THEN "spawned" ELSE "none"
    BY <1>1 DEF FlagsOK, Started
  <1>3. isUpdating'[p] = FALSE /\ \A q \in Services \ {p} : isUpdating'[q] = isUpdating[q]
    BY <1>1, Zenon DEF FlagsOK, Started
  <1>4. isUpdating' \in [Services -> BOOLEAN]
    BY <1>1, Zenon DEF FlagsOK, Started
  <1>5. FlagsOK'
    BY <1>1, <1>4 DEF FlagsOK, Started, States
  <1>6. NoneAhead'
    BY <1>1, <1>2, SlotsAssumption DEF IndInv, NoneAhead, Slots
  <1>7. Running(p)' = {} /\ \A q \in Services \ {p} : Running(q)' = Running(q)
    BY <1>2 DEF Running
  <1> QED BY <1>3, <1>5, <1>6, <1>7 DEF IndInv, OneUpdateAtATime

-----------------------------------------------------------------------------
\* Every step of the two services and of the chain keeps the invariant.
THEOREM Invariance == Spec => []IndInv
  <1>1. Init => IndInv
    BY InitHolds
  <1>2. IndInv /\ [Next]_vars => IndInv'
    <2> SUFFICES ASSUME IndInv, [Next]_vars PROVE IndInv'
      OBVIOUS
    <2>1. CASE \E h \in (chain + 1)..(chain + 2) : NewBlock(h)
      BY <2>1, NewBlockKeeps
    <2>2. ASSUME NEW p \in Services, NEW h \in Slots, ProcessNewSlot(p, h) PROVE IndInv'
      BY <2>2, ProcessNewSlotKeeps
    <2>3. ASSUME NEW p \in Services, NEW h \in Slots, UpdateProposerDuties(p, h) PROVE IndInv'
      BY <2>3, BeginUpdateKeeps, FetchDutiesKeeps, EndsKeep DEF UpdateProposerDuties
    <2>4. CASE RestartHousekeeper \/ RestartApi
      <3>1. \E p \in Services : Started(p) /\ UNCHANGED chain
        BY <2>4 DEF RestartHousekeeper, RestartApi, Services
      <3> QED BY <3>1, RestartsKeep
    <2>5. CASE UNCHANGED vars
      <3>1. UNCHANGED <<chain, headSlot, task, isUpdating>>
        BY <2>5 DEF vars, service
      <3>2. FlagsOK' /\ NoneAhead'
        BY <3>1 DEF IndInv, FlagsOK, NoneAhead
      <3>3. \A p \in Services : Running(p)' = Running(p) /\ isUpdating'[p] = isUpdating[p]
        BY <3>1 DEF Running
      <3> QED BY <3>2, <3>3, FlagsUntouched
    <2> QED BY <2>1, <2>2, <2>3, <2>4, <2>5 DEF Next
  <1> QED BY <1>1, <1>2, PTL DEF Spec

\* Each service runs at most one update of the proposer duties at a time, and
\* its flag is never left behind.
THEOREM UpdatesExclude == Spec => []OneUpdateAtATime
  <1>1. IndInv => OneUpdateAtATime
    BY DEF IndInv
  <1> QED BY <1>1, Invariance, PTL

-----------------------------------------------------------------------------
(* Types *)

\* the slots that the beacon node can know the proposers of
Reach == {s \in Registered : Epoch(s) <= Epoch(chain) + 1}

\* What FlagsOK leaves of the type invariant.  A service is never ahead of the
\* beacon node, so that what it asks for is within reach, also when it is saved
\* or copied long after.
DutiesOK ==
    /\ \A p \in Services : headSlot[p] <= chain
    /\ missed \subseteq Slots /\ \A s \in missed : s < chain
    /\ proposerDutiesSlot \in [Services -> Slots \cup {0}]
    /\ fetched \subseteq Reach /\ redisDuties \subseteq Reach /\ proposerDuties \subseteq Reach
    /\ partial \in BOOLEAN /\ disturbances \in 0..MaxDisturbances

\* A later slot is not in an earlier epoch.
LEMMA EpochGrows == ASSUME NEW a \in Nat, NEW b \in Nat, a <= b
                    PROVE  Epoch(a) <= Epoch(b) /\ Epoch(a) \in Nat
  BY SlotsAssumption DEF Epoch

\* What the housekeeper asks for, for a head of the chain, is within reach.
LEMMA DutiesReach ==
    ASSUME FlagsOK, NEW h \in Slots, h <= chain, NEW whole \in BOOLEAN
    PROVE  Duties(h, whole) \subseteq Reach
  <1>1. h \in Nat /\ chain \in Nat
    BY SlotsAssumption DEF FlagsOK, Slots
  <1>2. Epoch(h) <= Epoch(chain) /\ Epoch(h) \in Nat
    BY <1>1, EpochGrows
  <1>3. Epoch(chain) \in Nat
    BY <1>1, EpochGrows
  <1> QED BY <1>2, <1>3 DEF Duties, Reach

\* What is within reach stays so while the chain grows.
LEMMA ReachGrows ==
    ASSUME FlagsOK, FlagsOK', chain <= chain'
    PROVE  Reach \subseteq Reach'
  <1>1. chain \in Nat /\ chain' \in Nat
    BY SlotsAssumption DEF FlagsOK, Slots
  <1>2. Epoch(chain) <= Epoch(chain') /\ Epoch(chain) \in Nat /\ Epoch(chain') \in Nat
    BY <1>1, EpochGrows
  <1>3. ASSUME NEW s \in Registered, Epoch(s) <= Epoch(chain) + 1
        PROVE  Epoch(s) <= Epoch(chain') + 1
    <2>1. s \in Nat
      BY SlotsAssumption
    <2>2. Epoch(s) \in Nat
      BY <2>1, EpochGrows
    <2> QED BY <1>2, <1>3, <2>2
  <1> QED BY <1>3 DEF Reach

\* The chain and the two services start with the duties of two epochs.
LEMMA InitTypes == ASSUME Init PROVE DutiesOK
  <1>1. FlagsOK /\ chain = FirstSlot /\ FirstSlot \in Slots
    BY InitHolds, SlotsAssumption DEF IndInv, Init, Slots
  <1>2. Duties(FirstSlot, TRUE) \subseteq Reach
    <2>1. FirstSlot <= chain
      BY <1>1, SlotsAssumption
    <2> QED BY <1>1, <2>1, DutiesReach
  <1>3. fetched \subseteq Reach /\ redisDuties \subseteq Reach /\ proposerDuties \subseteq Reach
    BY <1>2 DEF Init
  <1>4. \A p \in Services : headSlot[p] <= chain
    BY SlotsAssumption DEF Init
  <1>5. proposerDutiesSlot \in [Services -> Slots \cup {0}] /\ missed = {}
    BY <1>1 DEF Init
  <1>6. partial \in BOOLEAN
    BY DEF Init
  <1>7. disturbances \in 0..MaxDisturbances
    BY SlotsAssumption DEF Init
  <1> QED BY <1>3, <1>4, <1>5, <1>6, <1>7 DEF DutiesOK

\* A new block makes the slots between it and the last one missed ones.
LEMMA NewBlockTypes ==
    ASSUME FlagsOK, FlagsOK', DutiesOK, NEW h, NewBlock(h)
    PROVE  DutiesOK'
  <1>1. /\ h \in Slots /\ h > chain /\ chain' = h /\ missed' = missed \cup (chain + 1)..(h - 1)
        /\ UNCHANGED <<headSlot, proposerDutiesSlot, fetched, redisDuties, proposerDuties, partial>>
    BY DEF NewBlock, service, duties
  <1>2. chain \in Int /\ h \in Int /\ Slots \subseteq Int
    BY <1>1, SlotsAssumption DEF FlagsOK, Slots
  <1>3. Reach \subseteq Reach'
    BY <1>1, <1>2, ReachGrows
  <1>4. disturbances' \in 0..MaxDisturbances
    BY SlotsAssumption DEF NewBlock, Disturbed, DutiesOK
  <1>5. missed' \subseteq Slots /\ \A s \in missed' : s < chain'
    BY <1>1, <1>2, SlotsAssumption DEF FlagsOK, DutiesOK, Slots
  <1>6. \A p \in Services : headSlot'[p] <= chain'
    <2> TAKE p \in Services
    <2>1. headSlot[p] \in Int /\ headSlot[p] <= chain
      BY <1>2 DEF FlagsOK, DutiesOK
    <2> QED BY <1>1, <1>2, <2>1
  <1> QED BY <1>1, <1>3, <1>4, <1>5, <1>6 DEF DutiesOK

\* A goroutine moves on: it belongs to a head of the chain, and what it writes
\* was fetched for one.
LEMMA UpdateTypes ==
    ASSUME FlagsOK, NoneAhead, DutiesOK, NEW p \in Services, NEW h \in Slots,
           UpdateProposerDuties(p, h)
    PROVE  DutiesOK'
  <1>1. UNCHANGED <<chain, missed, headSlot>> /\ task[p][h] # "none"
    BY DEF UpdateProposerDuties, BeginUpdate, LeaveUpdate, FetchDuties, SaveDuties, CopyDuties
  <1>2. h <= chain
    <2>1. h <= headSlot[p] /\ headSlot[p] <= chain
      BY <1>1 DEF NoneAhead, DutiesOK
    <2>2. h \in Int /\ headSlot[p] \in Int /\ chain \in Int
      BY SlotsAssumption DEF FlagsOK, Slots
    <2> QED BY <2>1, <2>2
  <1>3. Duties(h, TRUE) \subseteq Reach /\ Duties(h, FALSE) \subseteq Reach
    BY <1>2, DutiesReach
  <1>4. Reach' = Reach
    BY <1>1 DEF Reach
  <1>5. disturbances' \in 0..MaxDisturbances
    <2>1. UNCHANGED disturbances \/ Disturbed
      BY DEF UpdateProposerDuties, BeginUpdate, LeaveUpdate, FetchDuties, SaveDuties, CopyDuties
    <2> QED BY <2>1, SlotsAssumption DEF Disturbed, DutiesOK
  <1>6. partial' \in BOOLEAN
    BY DEF UpdateProposerDuties, BeginUpdate, LeaveUpdate, FetchDuties, SaveDuties,
       CopyDuties, DutiesOK
  <1>7. proposerDutiesSlot' \in [Services -> Slots \cup {0}]
    BY DEF UpdateProposerDuties, BeginUpdate, LeaveUpdate, FetchDuties, SaveDuties,
       CopyDuties, DutiesOK
  <1>8. fetched' \subseteq Reach /\ redisDuties' \subseteq Reach /\ proposerDuties' \subseteq Reach
    BY <1>3 DEF UpdateProposerDuties, BeginUpdate, LeaveUpdate, FetchDuties, SaveDuties,
       CopyDuties, DutiesOK, duties
  <1> QED BY <1>1, <1>4, <1>5, <1>6, <1>7, <1>8 DEF DutiesOK

\* A service starts again with the head of the beacon node.
LEMMA RestartTypes ==
    ASSUME FlagsOK, DutiesOK, RestartHousekeeper \/ RestartApi
    PROVE  DutiesOK'
  <1>1. /\ UNCHANGED <<chain, missed, redisDuties, partial>> /\ Disturbed
        /\ \E p \in Services : headSlot' = [headSlot EXCEPT ![p] = chain]
    BY DEF RestartHousekeeper, RestartApi, Started, Services
  <1>2. Reach' = Reach
    BY <1>1 DEF Reach
  <1>3. disturbances' \in 0..MaxDisturbances
    BY <1>1, SlotsAssumption DEF Disturbed, DutiesOK
  <1>4. \A p \in Services : headSlot'[p] <= chain'
    BY <1>1, SlotsAssumption DEF FlagsOK, DutiesOK, Slots
  <1>5. proposerDutiesSlot' \in [Services -> Slots \cup {0}]
    BY DEF RestartHousekeeper, RestartApi, FlagsOK, DutiesOK
  <1>6. fetched' \subseteq Reach /\ proposerDuties' \subseteq Reach
    BY DEF RestartHousekeeper, RestartApi, DutiesOK
  <1> QED BY <1>1, <1>2, <1>3, <1>4, <1>5, <1>6 DEF DutiesOK

\* The steps of the two services and of the chain keep it.
LEMMA DutiesKept == IndInv /\ IndInv' /\ DutiesOK /\ [Next]_vars => DutiesOK'
  <1> SUFFICES ASSUME IndInv, IndInv', DutiesOK, [Next]_vars PROVE DutiesOK'
    OBVIOUS
  <1>1. FlagsOK /\ FlagsOK' /\ NoneAhead
    BY DEF IndInv
  <1>2. CASE \E h \in (chain + 1)..(chain + 2) : NewBlock(h)
    BY <1>1, <1>2, NewBlockTypes
  <1>3. ASSUME NEW p \in Services, NEW h \in Slots, ProcessNewSlot(p, h) PROVE DutiesOK'
    <2>1. /\ h <= chain /\ headSlot' = [headSlot EXCEPT ![p] = h]
          /\ UNCHANGED <<chain, missed, proposerDutiesSlot, duties, partial, disturbances>>
      BY <1>3 DEF ProcessNewSlot, HeadEvents
    <2>2. \A q \in Services : headSlot'[q] <= chain'
      BY <1>1, <2>1 DEF FlagsOK, DutiesOK
    <2> QED BY <2>1, <2>2 DEF DutiesOK, Reach, duties
  <1>4. ASSUME NEW p \in Services, NEW h \in Slots, UpdateProposerDuties(p, h) PROVE DutiesOK'
    BY <1>1, <1>4, UpdateTypes
  <1>5. CASE RestartHousekeeper \/ RestartApi
    BY <1>1, <1>5, RestartTypes
  <1>6. CASE UNCHANGED vars
    BY <1>6 DEF vars, service, duties, DutiesOK, Reach
  <1> QED BY <1>2, <1>3, <1>4, <1>5, <1>6 DEF Next

LEMMA DutiesInvariance == Spec => []DutiesOK
  <1>1. Init => DutiesOK
    BY InitTypes
  <1> QED BY <1>1, DutiesKept, Invariance, PTL DEF Spec

\* The state of the two services is type correct, and no duties they hold are
\* of a slot after the next epoch of the chain.
THEOREM TypeCorrect == Spec => []TypeOK
  <1>1. IndInv /\ DutiesOK => TypeOK
    <2> SUFFICES ASSUME IndInv, DutiesOK PROVE TypeOK
      OBVIOUS
    <2>1. missed \subseteq Slots \ {chain}
      BY SlotsAssumption DEF IndInv, FlagsOK, DutiesOK, Slots
    <2>2. \A d \in {fetched, redisDuties, proposerDuties} : d \subseteq Reach
      BY DEF DutiesOK
    <2>3. /\ chain \in Slots /\ headSlot \in [Services -> Slots]
          /\ isUpdating \in [Services -> BOOLEAN]
          /\ task \in [Services -> [Slots -> States]]
      BY DEF IndInv, FlagsOK
    <2>4. /\ proposerDutiesSlot \in [Services -> Slots \cup {0}]
          /\ partial \in BOOLEAN /\ disturbances \in 0..MaxDisturbances
      BY DEF DutiesOK
    <2> QED BY <2>1, <2>2, <2>3, <2>4, Zenon DEF TypeOK, Reach, States
  <1> QED BY <1>1, DutiesInvariance, Invariance, PTL

-----------------------------------------------------------------------------
(* How old the duties can be.  Without disturbances each update runs as    *)
(* soon as its interval is over.  A disturbance can cost an update, but a  *)
(* new one follows with the next head, and a slot that is missed or comes  *)
(* early adds at most two slots: each disturbance makes the duties in      *)
(* Redis, and those in the API, at most two slots older.                   *)

\* A service, and each of its goroutines, is behind the chain by no more than
\* the disturbances account for.
Lag ==
    \A p \in Services :
        /\ chain - headSlot[p] <= 1 + 2 * disturbances
        /\ \A h \in Slots : task[p][h] # "none" => chain - h <= 2 * disturbances

\* The interval of p, which began with chain b and e disturbances, is not over.
OnTime(p, b, e) == chain - b <= Interval(p) - 1 + 2 * (disturbances - e)

\* It is over, and an update is certain unless there is one more disturbance:
\* no goroutine can take the flag and leave without an update.
Pending(p, b, e) ==
    /\ chain - b <= Interval(p) + 2 * (disturbances - e)
    /\ b + Interval(p) - 1 <= headSlot[p]
    /\ headSlot[p] < chain \/ \E h \in Slots : task[p][h] # "none"
    /\ \A h \in Slots : task[p][h] # "none" =>
           task[p][h] \in {"spawned", "updating", "saving"} /\ h - b >= Interval(p)

\* The last update of p was done when the chain was at b, after e disturbances.
Renewed(p, b, e) ==
    /\ b <= chain /\ proposerDutiesSlot[p] <= b
    /\ OnTime(p, b, e) \/ Pending(p, b, e)

\* The numbers that the arithmetic below is about.
LEMMA Numbers ==
    ASSUME FlagsOK, DutiesOK
    PROVE  /\ Slots \subseteq Nat /\ chain \in Nat /\ disturbances \in Nat
           /\ \A p \in Services : headSlot[p] \in Nat /\ proposerDutiesSlot[p] \in Nat
  <1>1. Slots \subseteq Nat /\ 0 \in Nat
    BY SlotsAssumption DEF Slots
  <1>2. \A p \in Services : proposerDutiesSlot[p] \in Slots \cup {0}
    BY DEF DutiesOK
  <1>3. disturbances \in Nat
    BY SlotsAssumption DEF DutiesOK
  <1> QED BY <1>1, <1>2, <1>3 DEF FlagsOK

LEMMA Intervals ==
    ASSUME SlotsPerEpoch >= 2, NEW p \in Services
    PROVE  Interval(p) \in Nat \ {0}
  <1>1. SlotsPerEpoch \div 2 \in Nat \ {0}
    BY SlotsAssumption
  <1> QED BY <1>1, SlotsAssumption DEF Interval

\* A service that updates now, begins an interval.
LEMMA Renews ==
    ASSUME SlotsPerEpoch >= 2, FlagsOK', DutiesOK', NEW p \in Services,
           UNCHANGED chain, proposerDutiesSlot'[p] <= chain
    PROVE  Renewed(p, chain, disturbances)' /\ chain' \in Slots /\ disturbances' \in 0..disturbances'
  <1>1. chain' \in Nat /\ disturbances' \in Nat /\ Interval(p) \in Nat \ {0}
    BY Intervals, SlotsAssumption DEF FlagsOK, DutiesOK, Slots
  <1>2. OnTime(p, chain, disturbances)'
    BY <1>1 DEF OnTime, Interval
  <1> QED BY <1>1, <1>2 DEF Renewed, FlagsOK

\* A disturbance that is not a new block excuses an update that is over.
LEMMA Excused ==
    ASSUME SlotsPerEpoch >= 2, FlagsOK, DutiesOK, NEW p \in Services,
           NEW b \in Slots, NEW e \in 0..disturbances, Renewed(p, b, e),
           Disturbed, UNCHANGED chain, proposerDutiesSlot'[p] <= b
    PROVE  Renewed(p, b, e)'
  <1>1. /\ chain \in Nat /\ disturbances \in Nat /\ Interval(p) \in Nat \ {0} /\ b \in Nat /\ e \in Nat
        /\ disturbances' = disturbances + 1
    BY Numbers, Intervals DEF Disturbed
  <1>2. chain - b <= Interval(p) + 2 * (disturbances - e)
    BY <1>1 DEF Renewed, OnTime, Pending
  <1>3. OnTime(p, b, e)'
    BY <1>1, <1>2 DEF OnTime, Interval
  <1> QED BY <1>3 DEF Renewed

\* What the other service does is not seen by p.
LEMMA Unseen ==
    ASSUME SlotsPerEpoch >= 2, FlagsOK, DutiesOK, NEW p \in Services,
           NEW b \in Slots, NEW e \in 0..disturbances, Renewed(p, b, e),
           UNCHANGED chain, disturbances' \in {disturbances, disturbances + 1},
           task'[p] = task[p], headSlot'[p] = headSlot[p],
           proposerDutiesSlot'[p] = proposerDutiesSlot[p]
    PROVE  Renewed(p, b, e)'
  <1>1. /\ chain \in Nat /\ disturbances \in Nat /\ Interval(p) \in Nat \ {0} /\ b \in Nat /\ e \in Nat
    BY Numbers, Intervals
  <1>2. OnTime(p, b, e) => OnTime(p, b, e)'
    BY <1>1 DEF OnTime, Interval
  <1>3. Pending(p, b, e) => Pending(p, b, e)'
    BY <1>1 DEF Pending, Interval
  <1> QED BY <1>2, <1>3 DEF Renewed

\* A new block, undisturbed, finds no update pending.
LEMMA NewBlockRenewed ==
    ASSUME SlotsPerEpoch >= 2, FlagsOK, DutiesOK, NEW p \in Services,
           NEW b \in Slots, NEW e \in 0..disturbances, Renewed(p, b, e),
           NEW h \in (chain + 1)..(chain + 2), NewBlock(h)
    PROVE  Renewed(p, b, e)'
  <1>1. /\ chain \in Nat /\ disturbances \in Nat /\ Interval(p) \in Nat \ {0} /\ b \in Nat /\ e \in Nat
        /\ headSlot[p] \in Nat /\ headSlot[p] <= chain /\ proposerDutiesSlot[p] \in Nat
    BY Numbers, Intervals DEF DutiesOK
  <1>2. /\ h \in Nat /\ chain' = h /\ h > chain /\ h <= chain + 2
        /\ UNCHANGED <<headSlot, task, proposerDutiesSlot>>
    BY <1>1 DEF NewBlock, service
  <1>3. b <= chain' /\ proposerDutiesSlot'[p] <= b
    BY <1>1, <1>2 DEF Renewed
  <1>4. CASE h = chain + 1 /\ Settled
    <2>1. /\ disturbances' = disturbances /\ headSlot[p] = chain
          /\ \A g \in Slots : task[p][g] = "none"
      BY <1>4 DEF NewBlock, Settled
    <2>2. OnTime(p, b, e)
      BY <1>1, <2>1 DEF Renewed, Pending
    <2>3. CASE chain - b <= Interval(p) - 2
      BY <1>1, <1>2, <1>3, <1>4, <2>1, <2>3 DEF Renewed, OnTime, Interval
    <2>4. CASE chain - b > Interval(p) - 2
      <3>1. chain' - b <= Interval(p) + 2 * (disturbances' - e)
        BY <1>1, <1>2, <1>4, <2>1, <2>2 DEF OnTime
      <3>2. b + Interval(p) - 1 <= headSlot'[p] /\ headSlot'[p] < chain'
        BY <1>1, <1>2, <2>1, <2>4
      <3>3. Pending(p, b, e)'
        BY <1>2, <2>1, <3>1, <3>2 DEF Pending, Interval
      <3> QED BY <1>3, <3>3 DEF Renewed
    <2> QED BY <1>1, <2>3, <2>4
  <1>5. CASE ~(h = chain + 1 /\ Settled)
    <2>1. disturbances' = disturbances + 1
      BY <1>5 DEF NewBlock, Disturbed
    <2>2. OnTime(p, b, e) => OnTime(p, b, e)'
      BY <1>1, <1>2, <2>1 DEF OnTime, Interval
    <2>3. Pending(p, b, e) => Pending(p, b, e)'
      BY <1>1, <1>2, <2>1 DEF Pending, Interval
    <2> QED BY <1>3, <2>2, <2>3 DEF Renewed
  <1> QED BY <1>4, <1>5

\* The state of one goroutine changes.
LEMMA TaskSet ==
    ASSUME FlagsOK, NEW p \in Services, NEW h \in Slots, NEW x \in States,
           task' = [task EXCEPT ![p][h] = x]
    PROVE  /\ task'[p][h] = x
           /\ \A g \in Slots \ {h} : task'[p][g] = task[p][g]
           /\ \A q \in Services \ {p} : task'[q] = task[q]
  BY DEF FlagsOK

\* A head that p processes while an update is pending starts a goroutine that
\* finds it due.
LEMMA ProcessNewSlotRenewed ==
    ASSUME SlotsPerEpoch >= 2, FlagsOK, DutiesOK, NEW p \in Services,
           NEW b \in Slots, NEW e \in 0..disturbances, Renewed(p, b, e),
           NEW h \in Slots, ProcessNewSlot(p, h)
    PROVE  Renewed(p, b, e)'
  <1>1. /\ chain \in Nat /\ disturbances \in Nat /\ Interval(p) \in Nat \ {0} /\ b \in Nat /\ e \in Nat
        /\ headSlot[p] \in Nat /\ h \in Nat
    BY Numbers, Intervals
  <1>2. /\ UNCHANGED <<chain, disturbances, proposerDutiesSlot>> /\ headSlot[p] < h
        /\ headSlot'[p] = h
        /\ task' = [task EXCEPT ![p][h] = "spawned"]
    BY DEF ProcessNewSlot, FlagsOK
  <1>3. task'[p][h] = "spawned" /\ \A g \in Slots \ {h} : task'[p][g] = task[p][g]
    BY <1>2 DEF FlagsOK
  <1>4. OnTime(p, b, e) => OnTime(p, b, e)'
    BY <1>2 DEF OnTime, Interval
  <1>5. ASSUME Pending(p, b, e) PROVE Pending(p, b, e)'
    <2>1. h - b >= Interval(p) /\ b + Interval(p) - 1 <= h
      BY <1>1, <1>2, <1>5 DEF Pending
    <2>2. \A g \in Slots : task'[p][g] # "none" =>
              task'[p][g] \in {"spawned", "updating", "saving"} /\ g - b >= Interval(p)
      BY <1>3, <1>5, <2>1 DEF Pending
    <2>3. \E g \in Slots : task'[p][g] # "none"
      BY <1>3
    <2> QED BY <1>2, <1>5, <2>1, <2>2, <2>3 DEF Pending, Interval
  <1> QED BY <1>2, <1>4, <1>5 DEF Renewed

\* A goroutine that is dropped leaves the one that has the flag; one that takes
\* it while an update is pending does update.
LEMMA BeginUpdateRenewed ==
    ASSUME SlotsPerEpoch >= 2, IndInv, DutiesOK, NEW p \in Services,
           NEW b \in Slots, NEW e \in 0..disturbances, Renewed(p, b, e),
           NEW h \in Slots, BeginUpdate(p, h)
    PROVE  Renewed(p, b, e)'
  <1>1. /\ chain \in Nat /\ disturbances \in Nat /\ Interval(p) \in Nat \ {0} /\ b \in Nat /\ e \in Nat
        /\ headSlot[p] \in Nat /\ h \in Nat /\ proposerDutiesSlot[p] \in Nat
    BY Numbers, Intervals DEF IndInv
  <1>2. /\ UNCHANGED <<chain, disturbances, headSlot, proposerDutiesSlot>> /\ task[p][h] = "spawned"
    BY DEF BeginUpdate
  <1>3. OnTime(p, b, e) => OnTime(p, b, e)'
    BY <1>2 DEF OnTime, Interval
  <1>4. ASSUME Pending(p, b, e) PROVE Pending(p, b, e)'
    <2>1. h - b >= Interval(p)
      BY <1>2, <1>4 DEF Pending
    <2>2. IsDue(p, h)
      <3>1. proposerDutiesSlot[p] <= b
        BY DEF Renewed
      <3>2. Minus(h, proposerDutiesSlot[p]) = h - proposerDutiesSlot[p]
        BY <1>1, <2>1, <3>1 DEF Minus
      <3> QED BY <1>1, <2>1, <3>1, <3>2 DEF IsDue
    <2>3. PICK x \in {"none", "updating"} :
              /\ task' = [task EXCEPT ![p][h] = x]
              /\ x = "none" => isUpdating[p]
      BY <2>2 DEF BeginUpdate
    <2>4. task'[p][h] = x /\ \A g \in Slots \ {h} : task'[p][g] = task[p][g]
      BY <2>3, TaskSet DEF IndInv, States
    <2>5. \E g \in Slots : task'[p][g] # "none"
      <3>1. CASE x = "none"
        <4>1. PICK g \in Slots : task[p][g] \in {"leaving", "updating", "saving"}
          BY <2>3, <3>1 DEF IndInv, OneUpdateAtATime, Running
        <4> QED BY <1>2, <2>4, <4>1
      <3> QED BY <2>4, <3>1
    <2>6. \A g \in Slots : task'[p][g] # "none" =>
              task'[p][g] \in {"spawned", "updating", "saving"} /\ g - b >= Interval(p)
      BY <1>4, <2>1, <2>4 DEF Pending
    <2> QED BY <1>2, <1>4, <2>5, <2>6 DEF Pending, Interval
  <1> QED BY <1>2, <1>3, <1>4 DEF Renewed

\* While an update is pending, no goroutine leaves without one, and one that
\* fetched goes on to save.
LEMMA GoroutineRenewed ==
    ASSUME SlotsPerEpoch >= 2, FlagsOK, DutiesOK, NEW p \in Services,
           NEW b \in Slots, NEW e \in 0..disturbances, Renewed(p, b, e),
           NEW h \in Slots, UNCHANGED <<chain, disturbances, headSlot, proposerDutiesSlot>>,
           NEW x \in {"none", "saving"}, task' = [task EXCEPT ![p][h] = x],
           IF x = "none" THEN task[p][h] = "leaving" ELSE task[p][h] = "updating"
    PROVE  Renewed(p, b, e)'
  <1>1. task'[p][h] = x /\ \A g \in Slots \ {h} : task'[p][g] = task[p][g]
    BY TaskSet DEF States
  <1>2. OnTime(p, b, e) => OnTime(p, b, e)'
    BY DEF OnTime, Interval
  <1>3. ASSUME Pending(p, b, e) PROVE Pending(p, b, e)'
    <2>1. x = "saving" /\ task[p][h] = "updating"
      BY <1>3 DEF Pending
    <2>2. \A g \in Slots : task'[p][g] # "none" =>
              task'[p][g] \in {"spawned", "updating", "saving"} /\ g - b >= Interval(p)
      BY <1>1, <1>3, <2>1 DEF Pending
    <2>3. \E g \in Slots : task'[p][g] # "none"
      BY <1>1, <2>1
    <2> QED BY <1>3, <2>2, <2>3 DEF Pending, Interval
  <1> QED BY <1>2, <1>3 DEF Renewed

\* The steps that may end an interval of p: its goroutine saves or copies, or
\* the API starts.
MayRenew(p) ==
    \/ p = "housekeeper" /\ \E h \in Slots : SaveDuties(h)
    \/ p = "api" /\ (RestartApi \/ \E h \in Slots : CopyDuties(h))

\* A goroutine of the other service moves on.
LEMMA OtherGoroutine ==
    ASSUME FlagsOK, DutiesOK, NEW p \in Services, NEW q \in Services \ {p}, NEW h \in Slots,
           ProcessNewSlot(q, h) \/ UpdateProposerDuties(q, h)
    PROVE  /\ UNCHANGED chain /\ disturbances' \in {disturbances, disturbances + 1}
           /\ task'[p] = task[p] /\ headSlot'[p] = headSlot[p]
           /\ proposerDutiesSlot'[p] = proposerDutiesSlot[p]
  <1>1. UNCHANGED chain /\ disturbances' \in {disturbances, disturbances + 1}
    BY DEF ProcessNewSlot, UpdateProposerDuties, BeginUpdate, LeaveUpdate, FetchDuties, SaveDuties,
       CopyDuties, Disturbed
  <1>2. headSlot'[p] = headSlot[p]
    BY DEF ProcessNewSlot, UpdateProposerDuties, BeginUpdate, LeaveUpdate, FetchDuties, SaveDuties,
       CopyDuties, FlagsOK
  <1>3. PICK x \in States : task' = [task EXCEPT ![q][h] = x]
    BY DEF ProcessNewSlot, UpdateProposerDuties, BeginUpdate, LeaveUpdate, FetchDuties, SaveDuties,
       CopyDuties, EndUpdate, States
  <1>4. task'[p] = task[p]
    BY <1>3, TaskSet
  <1>5. proposerDutiesSlot'[p] = proposerDutiesSlot[p]
    BY DEF ProcessNewSlot, UpdateProposerDuties, BeginUpdate, LeaveUpdate, FetchDuties, SaveDuties,
       CopyDuties, DutiesOK
  <1> QED BY <1>1, <1>2, <1>4, <1>5

\* Every other step leaves p within its interval, or on the way to an update.
LEMMA StaysRenewed ==
    ASSUME SlotsPerEpoch >= 2, IndInv, DutiesOK, NEW p \in Services,
           NEW b \in Slots, NEW e \in 0..disturbances, Renewed(p, b, e),
           [Next]_vars, ~MayRenew(p)
    PROVE  Renewed(p, b, e)'
  <1>1. FlagsOK /\ b \in Nat /\ proposerDutiesSlot[p] <= b /\ proposerDutiesSlot[p] \in Nat
    BY Numbers DEF IndInv, Renewed
  <1>2. CASE \E h \in (chain + 1)..(chain + 2) : NewBlock(h)
    BY <1>1, <1>2, NewBlockRenewed
  <1>3. ASSUME NEW q \in Services \ {p}, NEW h \in Slots,
               ProcessNewSlot(q, h) \/ UpdateProposerDuties(q, h)
        PROVE  Renewed(p, b, e)'
    BY <1>1, <1>3, OtherGoroutine, Unseen
  <1>4. ASSUME NEW h \in Slots, ProcessNewSlot(p, h) PROVE Renewed(p, b, e)'
    BY <1>1, <1>4, ProcessNewSlotRenewed
  <1>5. ASSUME NEW h \in Slots, UpdateProposerDuties(p, h) PROVE Renewed(p, b, e)'
    <2>1. CASE BeginUpdate(p, h)
      BY <2>1, BeginUpdateRenewed
    <2>2. CASE LeaveUpdate(p, h)
      <3>1. /\ UNCHANGED <<chain, disturbances, headSlot, proposerDutiesSlot>>
            /\ task[p][h] = "leaving" /\ task' = [task EXCEPT ![p][h] = "none"]
        BY <2>2 DEF LeaveUpdate, EndUpdate
      <3> QED BY <1>1, <3>1, GoroutineRenewed
    <2>3. CASE p = "housekeeper" /\ FetchDuties(h)
      <3>1. UNCHANGED <<chain, headSlot, proposerDutiesSlot>> /\ task[p][h] = "updating"
        BY <2>3 DEF FetchDuties
      <3>2. CASE Disturbed
        BY <1>1, <3>1, <3>2, Excused
      <3>3. CASE UNCHANGED disturbances /\ task' = [task EXCEPT ![p][h] = "saving"]
        BY <1>1, <3>1, <3>3, GoroutineRenewed
      <3> QED BY <2>3, <3>2, <3>3 DEF FetchDuties
    <2> QED BY <1>5, <2>1, <2>2, <2>3 DEF UpdateProposerDuties, MayRenew
  <1>6. CASE RestartHousekeeper \/ (RestartApi /\ p = "housekeeper")
    <2>1. Disturbed /\ UNCHANGED chain
      BY <1>6 DEF RestartHousekeeper, RestartApi
    <2>2. proposerDutiesSlot'[p] \in {0, proposerDutiesSlot[p]}
      BY <1>6 DEF RestartHousekeeper, RestartApi, DutiesOK
    <2>3. proposerDutiesSlot'[p] <= b
      BY <1>1, <2>2
    <2> QED BY <1>1, <2>1, <2>3, Excused
  <1>7. CASE UNCHANGED vars
    <2>1. UNCHANGED <<chain, disturbances, task, headSlot, proposerDutiesSlot>>
      BY <1>7 DEF vars, service
    <2> QED BY <1>1, <2>1, Unseen
  <1>8. p \in {"housekeeper", "api"}
    BY DEF Services
  <1> QED BY <1>2, <1>3, <1>4, <1>5, <1>6, <1>7, <1>8 DEF Next, MayRenew

-----------------------------------------------------------------------------
(* The lag *)

\* A service processes a head that is news to it.
LEMMA ProcessNewSlotLag ==
    ASSUME FlagsOK, DutiesOK, Lag, NEW p \in Services, NEW h \in Slots, ProcessNewSlot(p, h)
    PROVE  Lag'
  <1>1. /\ chain \in Nat /\ disturbances \in Nat /\ Slots \subseteq Nat
        /\ \A q \in Services : headSlot[q] \in Nat
    BY Numbers
  <1>2. /\ UNCHANGED <<chain, disturbances>> /\ headSlot[p] < h
        /\ headSlot' = [headSlot EXCEPT ![p] = h]
        /\ task' = [task EXCEPT ![p][h] = "spawned"]
    BY DEF ProcessNewSlot
  <1>3. /\ headSlot'[p] = h /\ \A g \in Slots \ {h} : task'[p][g] = task[p][g]
        /\ \A q \in Services \ {p} : headSlot'[q] = headSlot[q] /\ task'[q] = task[q]
    BY <1>2 DEF FlagsOK
  <1>4. chain - h <= 2 * disturbances
    <2>1. chain - headSlot[p] <= 1 + 2 * disturbances
      BY DEF Lag
    <2> QED BY <1>1, <1>2, <2>1
  <1>5. \A q \in Services : chain' - headSlot'[q] <= 1 + 2 * disturbances'
    BY <1>1, <1>2, <1>3, <1>4 DEF Lag
  <1>6. \A q \in Services : \A g \in Slots : task'[q][g] # "none" => chain' - g <= 2 * disturbances'
    BY <1>1, <1>2, <1>3, <1>4 DEF Lag
  <1> QED BY <1>5, <1>6 DEF Lag

\* The chain runs ahead of the services only in a disturbed step.
LEMMA NewBlockLag ==
    ASSUME FlagsOK, DutiesOK, Lag, NEW h \in (chain + 1)..(chain + 2), NewBlock(h)
    PROVE  Lag'
  <1>1. /\ chain \in Nat /\ disturbances \in Nat /\ Slots \subseteq Nat
        /\ \A q \in Services : headSlot[q] \in Nat
    BY Numbers
  <1>2. /\ h \in Nat /\ chain' = h /\ h <= chain + 2 /\ UNCHANGED <<headSlot, task>>
    BY <1>1 DEF NewBlock, service
  <1>3. CASE h = chain + 1 /\ Settled
    <2>1. /\ disturbances' = disturbances
          /\ \A q \in Services : headSlot[q] = chain /\ \A g \in Slots : task[q][g] = "none"
      BY <1>3 DEF NewBlock, Settled
    <2> QED BY <1>1, <1>2, <1>3, <2>1 DEF Lag
  <1>4. CASE ~(h = chain + 1 /\ Settled)
    <2>1. disturbances' = disturbances + 1
      BY <1>4 DEF NewBlock, Disturbed
    <2>2. ASSUME NEW q \in Services PROVE chain' - headSlot'[q] <= 1 + 2 * disturbances'
      <3>1. chain - headSlot[q] <= 1 + 2 * disturbances
        BY DEF Lag
      <3> QED BY <1>1, <1>2, <2>1, <3>1
    <2>3. ASSUME NEW q \in Services, NEW g \in Slots, task'[q][g] # "none"
          PROVE  chain' - g <= 2 * disturbances'
      <3>1. chain - g <= 2 * disturbances /\ g \in Nat
        BY <1>1, <1>2, <2>3 DEF Lag
      <3> QED BY <1>1, <1>2, <2>1, <3>1
    <2> QED BY <2>2, <2>3 DEF Lag
  <1> QED BY <1>3, <1>4

\* A service jumps to no head but the last one, and starts no goroutine for
\* another.
OnlyLastHead ==
    \A q \in Services :
        /\ headSlot'[q] \in {headSlot[q], chain}
        /\ \A g \in Slots : task'[q][g] # "none" => task[q][g] # "none" \/ g = chain

\* Such a step leaves no goroutine further behind.
LEMMA OtherLag ==
    ASSUME FlagsOK, DutiesOK, Lag, UNCHANGED chain,
           disturbances' = disturbances \/ disturbances' = disturbances + 1, OnlyLastHead
    PROVE  Lag'
  <1>1. /\ chain \in Nat /\ disturbances \in Nat /\ Slots \subseteq Nat
        /\ \A q \in Services : headSlot[q] \in Nat
    BY Numbers
  <1>2. \A k \in Nat : /\ chain - k <= 2 * disturbances => chain' - k <= 2 * disturbances'
                       /\ chain - k <= 1 + 2 * disturbances => chain' - k <= 1 + 2 * disturbances'
    BY <1>1
  <1>3. ASSUME NEW q \in Services PROVE chain' - headSlot'[q] <= 1 + 2 * disturbances'
    <2>1. headSlot'[q] \in Nat /\ chain - headSlot'[q] <= 1 + 2 * disturbances
      BY <1>1 DEF Lag, OnlyLastHead
    <2> QED BY <1>2, <2>1
  <1>4. ASSUME NEW q \in Services, NEW g \in Slots, task'[q][g] # "none"
        PROVE  chain' - g <= 2 * disturbances'
    <2>1. chain - g <= 2 * disturbances /\ g \in Nat
      BY <1>1, <1>4 DEF Lag, OnlyLastHead
    <2> QED BY <1>2, <2>1
  <1> QED BY <1>3, <1>4 DEF Lag

LEMMA LagKept == ASSUME IndInv, DutiesOK, Lag, [Next]_vars PROVE Lag'
  <1>1. FlagsOK
    BY DEF IndInv
  <1>2. CASE \E h \in (chain + 1)..(chain + 2) : NewBlock(h)
    BY <1>1, <1>2, NewBlockLag
  <1>3. ASSUME NEW p \in Services, NEW h \in Slots, ProcessNewSlot(p, h) PROVE Lag'
    BY <1>1, <1>3, ProcessNewSlotLag
  <1>4. ASSUME NEW p \in Services, NEW h \in Slots, UpdateProposerDuties(p, h) PROVE Lag'
    <2>1. /\ UNCHANGED <<chain, headSlot>> /\ disturbances' \in {disturbances, disturbances + 1}
          /\ task[p][h] # "none"
      BY <1>4 DEF UpdateProposerDuties, BeginUpdate, LeaveUpdate, FetchDuties, SaveDuties,
         CopyDuties, Disturbed
    <2>2. PICK x \in States : task' = [task EXCEPT ![p][h] = x]
      BY <1>4 DEF UpdateProposerDuties, BeginUpdate, LeaveUpdate, FetchDuties, SaveDuties,
         CopyDuties, EndUpdate, States
    <2>3. \A q \in Services : \A g \in Slots : task'[q][g] # "none" => task[q][g] # "none"
      BY <1>1, <2>1, <2>2, TaskSet
    <2> QED BY <1>1, <2>1, <2>3, OtherLag DEF OnlyLastHead
  <1>5. CASE RestartHousekeeper \/ RestartApi
    <2>1. PICK p \in Services : Disturbed /\ Started(p) /\ UNCHANGED chain
      BY <1>5 DEF RestartHousekeeper, RestartApi, Services
    <2>2. \A q \in Services : headSlot'[q] \in {headSlot[q], chain}
      BY <1>1, <2>1 DEF Started, FlagsOK
    <2>3. \A q \in Services : \A g \in Slots :
              task'[q][g] # "none" => task[q][g] # "none" \/ g = chain
      BY <1>1, <2>1 DEF Started, FlagsOK
    <2> QED BY <1>1, <2>1, <2>2, <2>3, OtherLag DEF Disturbed, OnlyLastHead
  <1>6. CASE UNCHANGED vars
    <2>1. UNCHANGED <<chain, disturbances, task, headSlot>>
      BY <1>6 DEF vars, service
    <2> QED BY <1>1, <2>1, OtherLag DEF OnlyLastHead
  <1> QED BY <1>2, <1>3, <1>4, <1>5, <1>6 DEF Next

-----------------------------------------------------------------------------
(* The duties and their age *)

\* What is about to be saved are the duties of two epochs.
FetchedWhole ==
    \A h \in Slots : task["housekeeper"][h] = "saving" => fetched = Duties(h, TRUE)

\* Redis holds the duties of two epochs for a head r, saved when the chain was
\* at b.
RedisAge ==
    \E r, b \in Slots, e \in 0..disturbances :
        /\ redisDuties = Duties(r, TRUE) /\ r <= b /\ b - r <= 2 * e
        /\ Renewed("housekeeper", b, e)

\* So does the API, unless it has none: copied when the chain was at b, and then
\* at most half an epoch old, apart from the disturbances.
ApiAge ==
    \E r, b \in Slots, e \in 0..disturbances :
        /\ proposerDuties \in {{}, Duties(r, TRUE)} /\ r <= b
        /\ b - r <= SlotsPerEpoch \div 2 + 2 * e
        /\ Renewed("api", b, e)

AgeInv ==
    SlotsPerEpoch >= 2 => Lag /\ (~partial => FetchedWhole /\ RedisAge /\ ApiAge)

LEMMA InitAge == ASSUME Init PROVE AgeInv
  <1> SUFFICES ASSUME SlotsPerEpoch >= 2 PROVE Lag /\ FetchedWhole /\ RedisAge /\ ApiAge
    BY DEF AgeInv
  <1>1. /\ FirstSlot \in Slots /\ FirstSlot \in Nat /\ chain = FirstSlot /\ disturbances = 0
        /\ \A p \in Services : /\ headSlot[p] = FirstSlot /\ proposerDutiesSlot[p] = FirstSlot
                               /\ \A h \in Slots : task[p][h] = "none"
    BY SlotsAssumption DEF Init, Slots
  <1>2. Lag
    BY <1>1 DEF Lag
  <1>3. FetchedWhole
    BY <1>1 DEF FetchedWhole, Services
  <1>4. \A p \in Services : Renewed(p, FirstSlot, 0)
    <2> TAKE p \in Services
    <2>1. OnTime(p, FirstSlot, 0)
      BY <1>1, Intervals DEF OnTime
    <2> QED BY <1>1, <2>1 DEF Renewed
  <1>5. /\ redisDuties = Duties(FirstSlot, TRUE) /\ proposerDuties = Duties(FirstSlot, TRUE)
        /\ 0 \in 0..disturbances /\ FirstSlot - FirstSlot = 0 /\ FirstSlot <= FirstSlot
        /\ 0 <= 2 * 0 /\ 0 <= SlotsPerEpoch \div 2 + 2 * 0
    BY <1>1, SlotsAssumption DEF Init
  <1>6. RedisAge
    <2>1. Renewed("housekeeper", FirstSlot, 0)
      BY <1>4 DEF Services
    <2> QED BY <1>1, <1>5, <2>1 DEF RedisAge
  <1>7. ApiAge
    <2>1. Renewed("api", FirstSlot, 0)
      BY <1>4 DEF Services
    <2> QED BY <1>1, <1>5, <2>1 DEF ApiAge
  <1> QED BY <1>2, <1>3, <1>6, <1>7

\* Only one goroutine fetches and saves at a time, so that none saves what
\* another fetched.
LEMMA FetchedKept ==
    ASSUME IndInv, FetchedWhole, [Next]_vars, ~partial'
    PROVE  FetchedWhole'
  <1> DEFINE hk == "housekeeper"
  <1>1. FlagsOK /\ hk \in Services
    BY DEF IndInv, Services
  <1>2. CASE UNCHANGED <<task, fetched>>
    BY <1>2 DEF FetchedWhole
  <1>3. ASSUME NEW p \in Services, NEW h \in Slots, NEW x \in States, x # "saving",
               task' = [task EXCEPT ![p][h] = x], UNCHANGED fetched
        PROVE  FetchedWhole'
    <2>1. \A g \in Slots : task'[hk][g] = "saving" => task[hk][g] = "saving"
      BY <1>1, <1>3, TaskSet
    <2> QED BY <1>3, <2>1 DEF FetchedWhole
  <1>4. ASSUME NEW h \in Slots, FetchDuties(h) PROVE FetchedWhole'
    <2>1. CASE EndUpdate(hk, h) /\ UNCHANGED fetched
      BY <1>1, <1>3, <2>1 DEF EndUpdate, States
    <2>2. CASE task' = [task EXCEPT ![hk][h] = "saving"] /\ fetched' = Duties(h, TRUE)
      <3>1. \A g \in Slots : task[hk][g] = "saving" => g = h
        BY <1>1, <1>4 DEF IndInv, OneUpdateAtATime, Running, FetchDuties
      <3>2. \A g \in Slots : task'[hk][g] = "saving" => g = h
        BY <1>1, <2>2, <3>1 DEF FlagsOK
      <3> QED BY <2>2, <3>2 DEF FetchedWhole
    <2> QED BY <1>4, <2>1, <2>2 DEF FetchDuties
  <1>5. ASSUME NEW h \in Slots, SaveDuties(h) PROVE FetchedWhole'
    <2>1. \A g \in Slots : task[hk][g] = "saving" => g = h
      BY <1>1, <1>5 DEF IndInv, OneUpdateAtATime, Running, SaveDuties
    <2>2. \A g \in Slots : task'[hk][g] # "saving"
      BY <1>1, <1>5, <2>1 DEF SaveDuties, EndUpdate, FlagsOK
    <2> QED BY <2>2 DEF FetchedWhole
  <1>6. ASSUME NEW p \in Services, NEW h \in Slots, UpdateProposerDuties(p, h)
        PROVE  FetchedWhole'
    <2>1. ASSUME BeginUpdate(p, h) \/ LeaveUpdate(p, h) \/ (p = "api" /\ CopyDuties(h))
          PROVE  FetchedWhole'
      <3>1. /\ UNCHANGED fetched
            /\ \E x \in {"none", "updating", "leaving"} : task' = [task EXCEPT ![p][h] = x]
        BY <2>1 DEF BeginUpdate, LeaveUpdate, CopyDuties, EndUpdate, duties
      <3> QED BY <1>3, <3>1 DEF States
    <2> QED BY <1>4, <1>5, <1>6, <2>1 DEF UpdateProposerDuties
  <1>7. ASSUME NEW p \in Services, NEW h \in Slots, ProcessNewSlot(p, h) PROVE FetchedWhole'
    BY <1>3, <1>7 DEF ProcessNewSlot, States, duties
  <1>8. CASE RestartHousekeeper
    <2>1. \A g \in Slots : task'[hk][g] # "saving"
      BY <1>1, <1>8 DEF RestartHousekeeper, Started, FlagsOK
    <2> QED BY <2>1 DEF FetchedWhole
  <1>9. CASE RestartApi
    <2>1. task'[hk] = task[hk] /\ UNCHANGED fetched
      BY <1>1, <1>9 DEF RestartApi, Started, FlagsOK
    <2> QED BY <2>1 DEF FetchedWhole
  <1> QED BY <1>2, <1>6, <1>7, <1>8, <1>9 DEF Next, NewBlock, vars, service, duties

LEMMA DisturbancesGrow ==
    ASSUME DutiesOK, [Next]_vars
    PROVE  /\ disturbances' = disturbances \/ disturbances' = disturbances + 1
           /\ 0..disturbances \subseteq 0..disturbances'
  <1>1. disturbances' = disturbances \/ disturbances' = disturbances + 1
    BY DEF Next, NewBlock, ProcessNewSlot, UpdateProposerDuties, BeginUpdate, LeaveUpdate, FetchDuties,
       SaveDuties, CopyDuties, RestartHousekeeper, RestartApi, Disturbed, vars
  <1>2. disturbances \in Nat
    BY SlotsAssumption DEF DutiesOK
  <1> QED BY <1>1, <1>2

\* A goroutine belongs to a head of the chain, by no more than the lag behind it.
LEMMA HeadOfGoroutine ==
    ASSUME FlagsOK, NoneAhead, DutiesOK, Lag, NEW p \in Services, NEW h \in Slots,
           task[p][h] # "none"
    PROVE  h <= chain /\ chain - h <= 2 * disturbances
  <1>1. h \in Nat /\ headSlot[p] \in Nat /\ chain \in Nat
    BY Numbers
  <1>2. h <= headSlot[p] /\ headSlot[p] <= chain /\ chain - h <= 2 * disturbances
    BY DEF NoneAhead, DutiesOK, Lag
  <1> QED BY <1>1, <1>2

\* Only the housekeeper's goroutine writes the key, and what it saves is no
\* older than the lag.
LEMMA RedisKept ==
    ASSUME SlotsPerEpoch >= 2, IndInv, DutiesOK, IndInv', DutiesOK', Lag, FetchedWhole, RedisAge,
           [Next]_vars
    PROVE  RedisAge'
  <1> DEFINE hk == "housekeeper"
  <1>1. hk \in Services /\ FlagsOK /\ NoneAhead /\ FlagsOK'
    BY DEF IndInv, Services
  <1>2. PICK r \in Slots, b \in Slots, e \in 0..disturbances :
            redisDuties = Duties(r, TRUE) /\ r <= b /\ b - r <= 2 * e /\ Renewed(hk, b, e)
    BY DEF RedisAge
  <1>3. e \in 0..disturbances'
    BY DisturbancesGrow
  <1>4. CASE redisDuties' = redisDuties /\ Renewed(hk, b, e)'
    BY <1>2, <1>3, <1>4 DEF RedisAge
  <1>5. ASSUME NEW h \in Slots, SaveDuties(h) PROVE RedisAge'
    <2>1. task[hk][h] = "saving" /\ UNCHANGED chain
      BY <1>5 DEF SaveDuties
    <2>2. CASE /\ redisDuties' = fetched
               /\ proposerDutiesSlot' = [proposerDutiesSlot EXCEPT ![hk] = h]
               /\ UNCHANGED disturbances
      <3>1. h <= chain /\ chain - h <= 2 * disturbances
        BY <1>1, <2>1, HeadOfGoroutine
      <3>2. redisDuties' = Duties(h, TRUE)
        BY <2>1, <2>2 DEF FetchedWhole
      <3>3. proposerDutiesSlot'[hk] = h
        BY <1>1, <2>2 DEF DutiesOK
      <3>4. /\ Renewed(hk, chain, disturbances)' /\ chain' \in Slots
            /\ disturbances' \in 0..disturbances'
        BY <1>1, <2>1, <3>1, <3>3, Renews
      <3>5. h <= chain' /\ chain' - h <= 2 * disturbances'
        BY <2>1, <2>2, <3>1
      <3> QED BY <3>2, <3>4, <3>5 DEF RedisAge
    <2>3. CASE Disturbed /\ UNCHANGED <<redisDuties, proposerDutiesSlot>>
      <3>1. proposerDutiesSlot'[hk] <= b
        BY <1>2, <2>3 DEF Renewed
      <3>2. Renewed(hk, b, e)'
        BY <1>1, <1>2, <2>1, <2>3, <3>1, Excused
      <3> QED BY <1>4, <2>3, <3>2
    <2> QED BY <1>5, <2>2, <2>3 DEF SaveDuties
  <1>6. CASE ~MayRenew(hk)
    <2>1. Renewed(hk, b, e)'
      BY <1>1, <1>2, <1>6, StaysRenewed
    <2>2. redisDuties' = redisDuties
      BY <1>6 DEF Next, NewBlock, ProcessNewSlot, UpdateProposerDuties, BeginUpdate, LeaveUpdate,
         FetchDuties, CopyDuties, RestartHousekeeper, RestartApi, MayRenew, vars, duties
    <2> QED BY <1>4, <2>1, <2>2
  <1> QED BY <1>5, <1>6 DEF MayRenew

\* The duties in Redis are at most half an epoch old, apart from the
\* disturbances.
LEMMA AgeInRedis ==
    ASSUME SlotsPerEpoch >= 2, FlagsOK, DutiesOK, RedisAge
    PROVE  \E r \in Slots : /\ redisDuties = Duties(r, TRUE) /\ r <= chain
                            /\ chain - r <= SlotsPerEpoch \div 2 + 2 * disturbances
  <1> DEFINE hk == "housekeeper"
  <1>1. PICK r \in Slots, b \in Slots, e \in 0..disturbances :
            redisDuties = Duties(r, TRUE) /\ r <= b /\ b - r <= 2 * e /\ Renewed(hk, b, e)
    BY DEF RedisAge
  <1>2. /\ r \in Nat /\ b \in Nat /\ e \in Nat /\ chain \in Nat /\ disturbances \in Nat
        /\ SlotsPerEpoch \div 2 \in Nat
    BY Numbers, SlotsAssumption
  <1>3. b <= chain /\ chain - b <= SlotsPerEpoch \div 2 + 2 * (disturbances - e)
    BY <1>1, <1>2 DEF Renewed, OnTime, Pending, Interval
  <1>4. r <= chain /\ chain - r <= SlotsPerEpoch \div 2 + 2 * disturbances
    BY <1>1, <1>2, <1>3
  <1> QED BY <1>1, <1>4

\* The API has what Redis had when it copied or started.
LEMMA ApiKept ==
    ASSUME SlotsPerEpoch >= 2, IndInv, DutiesOK, IndInv', DutiesOK', Lag, RedisAge, ApiAge,
           [Next]_vars
    PROVE  ApiAge'
  <1> DEFINE api == "api"
  <1> DEFINE half == SlotsPerEpoch \div 2
  <1>1. /\ api \in Services /\ FlagsOK /\ NoneAhead /\ FlagsOK' /\ chain \in Nat
        /\ disturbances \in Nat /\ half \in Nat
    BY Numbers, SlotsAssumption DEF IndInv, Services
  <1>2. PICK r \in Slots, b \in Slots, e \in 0..disturbances :
            /\ proposerDuties \in {{}, Duties(r, TRUE)} /\ r <= b /\ b - r <= half + 2 * e
            /\ Renewed(api, b, e)
    BY DEF ApiAge
  <1>3. e \in 0..disturbances' /\ (disturbances' = disturbances \/ disturbances' = disturbances + 1)
    BY DisturbancesGrow
  <1>4. ASSUME proposerDuties' \in {{}, proposerDuties}, Renewed(api, b, e)' PROVE ApiAge'
    BY <1>2, <1>3, <1>4 DEF ApiAge
  <1>5. ASSUME proposerDuties' = redisDuties, UNCHANGED chain, proposerDutiesSlot'[api] <= chain
        PROVE  ApiAge'
    <2>1. PICK q \in Slots : /\ redisDuties = Duties(q, TRUE) /\ q <= chain
                             /\ chain - q <= half + 2 * disturbances
      BY <1>1, AgeInRedis
    <2>2. /\ Renewed(api, chain, disturbances)' /\ chain' \in Slots
          /\ disturbances' \in 0..disturbances'
      BY <1>1, <1>5, Renews
    <2>3. q \in Nat
      BY Numbers, <1>1
    <2>4. q <= chain' /\ chain' - q <= half + 2 * disturbances'
      BY <1>1, <1>3, <1>5, <2>1, <2>3
    <2> QED BY <1>5, <2>1, <2>2, <2>4 DEF ApiAge
  <1>6. ASSUME Disturbed, UNCHANGED chain, proposerDutiesSlot'[api] <= b,
               proposerDuties' \in {{}, proposerDuties}
        PROVE  ApiAge'
    BY <1>1, <1>2, <1>4, <1>6, Excused
  <1>7. ASSUME NEW h \in Slots, CopyDuties(h) PROVE ApiAge'
    <2>1. task[api][h] = "updating" /\ UNCHANGED chain
      BY <1>7 DEF CopyDuties
    <2>2. CASE /\ proposerDuties' = redisDuties
               /\ proposerDutiesSlot' = [proposerDutiesSlot EXCEPT ![api] = h]
      <3>1. proposerDutiesSlot'[api] = h /\ h <= chain
        BY <1>1, <2>1, <2>2, HeadOfGoroutine DEF DutiesOK
      <3> QED BY <1>5, <2>1, <2>2, <3>1
    <2>3. CASE Disturbed /\ UNCHANGED <<proposerDuties, proposerDutiesSlot>>
      BY <1>2, <1>6, <2>1, <2>3 DEF Renewed
    <2> QED BY <1>7, <2>2, <2>3 DEF CopyDuties
  <1>8. CASE RestartApi
    <2>1. Disturbed /\ UNCHANGED chain
      BY <1>8 DEF RestartApi
    <2>2. CASE /\ proposerDuties' = redisDuties
               /\ proposerDutiesSlot' = [proposerDutiesSlot EXCEPT ![api] = chain]
      <3>1. proposerDutiesSlot'[api] = chain /\ chain <= chain
        BY <1>1, <2>2 DEF DutiesOK
      <3> QED BY <1>5, <2>1, <2>2, <3>1
    <2>3. CASE /\ proposerDuties' = {}
               /\ proposerDutiesSlot' = [proposerDutiesSlot EXCEPT ![api] = 0]
      <3>1. proposerDutiesSlot'[api] = 0 /\ b \in Nat
        BY <1>1, <2>3, Numbers DEF DutiesOK
      <3>2. proposerDutiesSlot'[api] <= b
        BY <3>1
      <3> QED BY <1>6, <2>1, <2>3, <3>2
    <2> QED BY <1>8, <2>2, <2>3 DEF RestartApi
  <1>9. CASE ~MayRenew(api)
    <2>1. Renewed(api, b, e)'
      BY <1>1, <1>2, <1>9, StaysRenewed
    <2>2. proposerDuties' = proposerDuties
      BY <1>9 DEF Next, NewBlock, ProcessNewSlot, UpdateProposerDuties, BeginUpdate, LeaveUpdate,
         FetchDuties, SaveDuties, RestartHousekeeper, MayRenew, vars, duties
    <2> QED BY <1>4, <2>1, <2>2
  <1> QED BY <1>7, <1>8, <1>9 DEF MayRenew

\* What is renewed stays renewed, as long as all updates have both epochs.
LEMMA AgeKept ==
    IndInv /\ IndInv' /\ DutiesOK /\ DutiesOK' /\ AgeInv /\ [Next]_vars => AgeInv'
  <1> SUFFICES ASSUME IndInv, IndInv', DutiesOK, DutiesOK', AgeInv, [Next]_vars,
                      SlotsPerEpoch >= 2
               PROVE  Lag' /\ (~partial' => FetchedWhole' /\ RedisAge' /\ ApiAge')
    BY DEF AgeInv
  <1>1. Lag'
    BY LagKept DEF AgeInv
  <1>2. ASSUME ~partial' PROVE FetchedWhole' /\ RedisAge' /\ ApiAge'
    <2>1. ~partial
      BY <1>2 DEF Next, NewBlock, ProcessNewSlot, UpdateProposerDuties, BeginUpdate, LeaveUpdate,
         FetchDuties, SaveDuties, CopyDuties, RestartHousekeeper, RestartApi, vars
    <2>2. Lag /\ FetchedWhole /\ RedisAge /\ ApiAge
      BY <2>1 DEF AgeInv
    <2> QED BY <1>2, <2>2, FetchedKept, RedisKept, ApiKept
  <1> QED BY <1>1, <1>2

\* The age of the duties in Redis and in the API, in every reachable state.
LEMMA AgeInvariance == Spec => []AgeInv
  <1>1. Init => AgeInv
    BY InitAge
  <1> QED BY <1>1, AgeKept, Invariance, DutiesInvariance, PTL DEF Spec

\* A slot at most an epoch after r is in the epoch of r or in the next one.
LEMMA NextEpochReaches ==
    ASSUME NEW r \in Nat, NEW s \in Nat, r <= s, s - r <= SlotsPerEpoch
    PROVE  Epoch(s) = Epoch(r) \/ Epoch(s) = Epoch(r) + 1
  <1> DEFINE k == Epoch(r)
             m == Epoch(s)
             S == SlotsPerEpoch
  <1>1. S \in Nat \ {0}
    BY SlotsAssumption
  <1>2. k \in Nat /\ m \in Nat /\ k <= m
    BY EpochGrows
  <1>3. r < S * k + S
    BY <1>1 DEF Epoch
  <1>4. S * m <= s
    BY <1>1 DEF Epoch
  <1>5. m <= k + 1
    <2> SUFFICES ASSUME m >= k + 2 PROVE FALSE
      BY <1>2
    <2>1. S * m >= S * (k + 2) /\ S * (k + 2) = S * k + S + S
      BY <1>1, <1>2
    <2> HIDE DEF k, m, S
    <2>2. S * k \in Nat /\ S * m \in Nat
      BY <1>1, <1>2
    <2>3. s <= r + S
      BY <1>1 DEF S
    <2> QED BY <1>1, <1>3, <1>4, <2>1, <2>2, <2>3
  <1> QED BY <1>2, <1>5

\* So few disturbances that the two delays and what they add to them fit into
\* an epoch: up to three with 32 slots in an epoch and an interval of 8 in the
\* API, the values of the code.
FewDisturbances ==
    SlotsPerEpoch \div 2 + ApiInterval + 2 * disturbances < SlotsPerEpoch

\* The values of the code allow three disturbances.
LEMMA ThreeAreFew ==
    ASSUME SlotsPerEpoch = 32, ApiInterval = 8, disturbances \in Nat
    PROVE  FewDisturbances <=> disturbances <= 3
  BY DEF FewDisturbances

\* While there are few disturbances, and the duties of the next epoch were part
\* of every update, the API that has duties knows the proposer of the slot after
\* the head, however the heads, the goroutines of the two services, failures and
\* restarts interleave.
THEOREM NextIsCovered == Spec => [](FewDisturbances => NextSlotIsCovered)
  <1>1. IndInv /\ DutiesOK /\ AgeInv => (FewDisturbances => NextSlotIsCovered)
    <2> SUFFICES ASSUME IndInv, DutiesOK, AgeInv, FewDisturbances, ~partial,
                        proposerDuties # {}, chain + 1 \in Registered
                 PROVE  chain + 1 \in proposerDuties
      BY DEF NextSlotIsCovered
    <2> DEFINE half == SlotsPerEpoch \div 2
    <2>1. /\ FlagsOK /\ chain \in Nat /\ disturbances \in Nat /\ half \in Nat
          /\ ApiInterval \in Nat \ {0} /\ SlotsPerEpoch \in Nat
      BY Numbers, SlotsAssumption DEF IndInv
    <2>2. half + ApiInterval + 2 * disturbances < SlotsPerEpoch
      BY DEF FewDisturbances
    <2> HIDE DEF half
    <2>3. SlotsPerEpoch >= 2
      BY <2>1, <2>2
    <2>4. PICK r \in Slots, b \in Slots, e \in 0..disturbances :
              /\ proposerDuties \in {{}, Duties(r, TRUE)} /\ r <= b /\ b - r <= half + 2 * e
              /\ Renewed("api", b, e)
      BY <2>3 DEF AgeInv, ApiAge, half
    <2>5. r \in Nat /\ b \in Nat /\ e \in Nat
      BY <2>1, Numbers
    <2>6. b <= chain /\ chain - b <= ApiInterval + 2 * (disturbances - e)
      BY <2>1, <2>4, <2>5 DEF Renewed, OnTime, Pending, Interval
    <2>7. r <= chain + 1 /\ (chain + 1) - r <= SlotsPerEpoch
      BY <2>1, <2>2, <2>4, <2>5, <2>6
    <2>8. chain + 1 \in Nat
      BY <2>1
    <2>9. Epoch(chain + 1) = Epoch(r) \/ Epoch(chain + 1) = Epoch(r) + 1
      BY <2>5, <2>7, <2>8, NextEpochReaches
    <2> QED BY <2>4, <2>9 DEF Duties
  <1> QED BY <1>1, AgeInvariance, Invariance, DutiesInvariance, PTL

=============================================================================
