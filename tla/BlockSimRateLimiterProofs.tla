---------------------- MODULE BlockSimRateLimiterProofs ----------------------
(***************************************************************************)
(* The rate limiter keeps to its limit and loses no wakeup, for every set  *)
(* of requests and every value of maxConcurrentBlocks.                     *)
(***************************************************************************)
EXTENDS BlockSimRateLimiter, FiniteSetTheorems, SequenceTheorems, TLAPS

\* AtMostMaxActive alone is not inductive: that a newcomer may enter depends on
\* what the counter counts, and that a leaving call hands its place over
\* depends on who is in the notify list.
IndInv ==
    /\ TypeOK
    /\ WaitersAreParked
    /\ CounterCountsCalls
    /\ AtMostMaxActive
    /\ NoIdlePlaceWhileWaiting
    /\ waiters # <<>> => Limited

\* The sets that are counted are finite, and a call waits exactly if the notify
\* list of the condition variable is not empty.
LEMMA CountedSets ==
    ASSUME TypeOK, WaitersAreParked
    PROVE  /\ IsFiniteSet(Active) /\ Cardinality(Active) \in Nat
           /\ IsFiniteSet(Waiting) /\ Cardinality(Waiting) \in Nat
           /\ waiters = <<>> <=> Cardinality(Waiting) = 0
<1>1. Active \in SUBSET Requests /\ Waiting \in SUBSET Requests
  BY DEF Active, Waiting
<1>2. IsFiniteSet(Active) /\ IsFiniteSet(Waiting)
  BY <1>1, RequestsAssumption, FS_Subset
<1>3. waiters = <<>> <=> Waiting = {}
  <2>1. waiters = <<>> <=> Len(waiters) = 0
    BY EmptySeq, SMT DEF TypeOK
  <2>2. Len(waiters) \in Nat /\ \A i \in 1..Len(waiters) : waiters[i] \in Requests
    BY DEF TypeOK
  <2>3. CASE Len(waiters) = 0
    BY <2>1, <2>3 DEF WaitersAreParked, Waiting
  <2>4. CASE Len(waiters) # 0
    <3>1. 1 \in 1..Len(waiters)
      BY <2>2, <2>4
    <3>2. waiters[1] \in Waiting
      BY <3>1, <2>2 DEF WaitersAreParked, Waiting
    <3> QED BY <3>2, <2>1, <2>4
  <2> QED BY <2>3, <2>4
<1> QED BY <1>2, <1>3, FS_CardinalityType, FS_EmptySet

\* A newcomer takes a free place or parks behind the calls that wait.
LEMMA EnterPreserves ==
    ASSUME IndInv, NEW r \in Requests, Enter(r)
    PROVE  IndInv'
<1> USE DEF IndInv
<1>1. /\ IsFiniteSet(Active) /\ Cardinality(Active) \in Nat
      /\ IsFiniteSet(Waiting) /\ Cardinality(Waiting) \in Nat
      /\ waiters = <<>> <=> Cardinality(Waiting) = 0
  BY CountedSets
<1>2. r \notin Active /\ r \notin Waiting
  BY DEF Enter, Active, ActiveSteps, Waiting
<1>3. CASE Limited /\ counter + 1 > maxConcurrentBlocks
  <2>1. /\ counter' = counter + 1
        /\ pc' = [pc EXCEPT ![r] = "waiting"]
        /\ waiters' = Append(waiters, r)
        /\ closed' = closed /\ result' = [result EXCEPT ![r] = "none"]
    BY <1>3 DEF Enter
  <2>2. TypeOK'
    BY <2>1 DEF TypeOK, Steps, Results
  <2>3. Active' = Active /\ Waiting' = Waiting \cup {r}
    BY <2>1, <1>2 DEF Active, Waiting, ActiveSteps, TypeOK
  <2>4. /\ Cardinality(Active') = Cardinality(Active)
        /\ Cardinality(Waiting') = Cardinality(Waiting) + 1
    BY <2>3, <1>1, <1>2, FS_AddElement
  <2>5. CounterCountsCalls'
    BY <2>1, <2>4, <1>1 DEF CounterCountsCalls, TypeOK
  <2>6. Cardinality(Active) = maxConcurrentBlocks
    BY <1>1, <1>3, MaxAssumption
       DEF CounterCountsCalls, AtMostMaxActive, NoIdlePlaceWhileWaiting, TypeOK
  <2>7. AtMostMaxActive' /\ NoIdlePlaceWhileWaiting' /\ (waiters # <<>> => Limited)'
    BY <2>6, <2>4, <1>3, MaxAssumption
       DEF AtMostMaxActive, NoIdlePlaceWhileWaiting, Limited
  <2>8. WaitersAreParked'
    <3>1. /\ waiters \in Seq(Requests) /\ Len(waiters) \in Nat
          /\ Len(waiters') = Len(waiters) + 1
          /\ \A i \in 1..Len(waiters) : waiters'[i] = waiters[i]
          /\ waiters'[Len(waiters) + 1] = r
      BY <2>1, AppendProperties DEF TypeOK
    <3>2. \A i \in 1..Len(waiters) : waiters[i] # r
      BY <1>2 DEF WaitersAreParked, Waiting
    <3>3. \A s \in Requests : pc'[s] = "waiting" <=> s = r \/ pc[s] = "waiting"
      BY <2>1 DEF TypeOK
    <3>4. ASSUME NEW s \in Requests
          PROVE  pc'[s] = "waiting" <=> \E i \in 1..Len(waiters') : waiters'[i] = s
      <4>1. CASE s = r
        BY <4>1, <3>1, <3>3
      <4>2. CASE s # r
        BY <4>2, <3>1, <3>3 DEF WaitersAreParked
      <4> QED BY <4>1, <4>2
    <3>5. \A i, j \in 1..Len(waiters') : waiters'[i] = waiters'[j] => i = j
      BY <3>1, <3>2 DEF WaitersAreParked
    <3> QED BY <3>4, <3>5 DEF WaitersAreParked
  <2> QED BY <2>2, <2>5, <2>7, <2>8
<1>4. CASE ~(Limited /\ counter + 1 > maxConcurrentBlocks)
  <2>1. /\ counter' = counter + 1
        /\ pc' = [pc EXCEPT ![r] = "admitted"]
        /\ waiters' = waiters
        /\ closed' = closed /\ result' = [result EXCEPT ![r] = "none"]
    BY <1>4 DEF Enter
  <2>2. TypeOK'
    BY <2>1 DEF TypeOK, Steps, Results
  <2>3. Active' = Active \cup {r} /\ Waiting' = Waiting
    BY <2>1, <1>2 DEF Active, Waiting, ActiveSteps, TypeOK
  <2>4. /\ Cardinality(Active') = Cardinality(Active) + 1
        /\ Cardinality(Waiting') = Cardinality(Waiting)
    BY <2>3, <1>1, <1>2, FS_AddElement
  <2>5. CounterCountsCalls'
    BY <2>1, <2>4, <1>1 DEF CounterCountsCalls, TypeOK
  <2>6. waiters = <<>>
    BY <1>1, <1>4, MaxAssumption
       DEF CounterCountsCalls, NoIdlePlaceWhileWaiting, TypeOK, Limited
  <2>7. AtMostMaxActive' /\ NoIdlePlaceWhileWaiting' /\ (waiters # <<>> => Limited)'
    BY <2>1, <2>4, <2>6, <1>1, <1>4, MaxAssumption
       DEF AtMostMaxActive, NoIdlePlaceWhileWaiting, CounterCountsCalls, TypeOK, Limited
  <2>8. WaitersAreParked'
    BY <2>1, <1>2 DEF WaitersAreParked, Waiting, TypeOK
  <2> QED BY <2>2, <2>5, <2>7, <2>8
<1> QED BY <1>3, <1>4

\* A leaving call hands its place to the first of the calls that wait, if any.
LEMMA LeavePreserves ==
    ASSUME IndInv, NEW r \in Requests, Leave(r)
    PROVE  IndInv'
<1> USE DEF IndInv
<1>1. /\ IsFiniteSet(Active) /\ Cardinality(Active) \in Nat
      /\ IsFiniteSet(Waiting) /\ Cardinality(Waiting) \in Nat
      /\ waiters = <<>> <=> Cardinality(Waiting) = 0
  BY CountedSets
<1>2. r \in Active /\ r \notin Waiting
  BY DEF Leave, Active, ActiveSteps, Waiting
<1>3. /\ IsFiniteSet(Active \ {r})
      /\ Cardinality(Active \ {r}) = Cardinality(Active) - 1
      /\ Cardinality(Active \ {r}) \in Nat
  BY <1>1, <1>2, FS_RemoveElement, FS_CardinalityType
<1>4. counter' = counter - 1 /\ counter' \in Nat
  BY <1>1, <1>3 DEF Leave, CounterCountsCalls
<1>5. CASE waiters = <<>>
  <2>1. /\ pc' = [pc EXCEPT ![r] = "outside"]
        /\ waiters' = waiters
        /\ closed' = closed \ {r} /\ result' = result
    BY <1>5 DEF Leave
  <2>2. TypeOK'
    BY <2>1, <1>4 DEF TypeOK, Steps
  <2>3. Active' = Active \ {r} /\ Waiting' = Waiting
    BY <2>1, <1>2 DEF Active, Waiting, ActiveSteps, TypeOK
  <2>4. CounterCountsCalls'
    BY <2>3, <1>1, <1>3, <1>4 DEF CounterCountsCalls, TypeOK
  <2>5. AtMostMaxActive' /\ NoIdlePlaceWhileWaiting' /\ (waiters # <<>> => Limited)'
    BY <2>1, <2>3, <1>1, <1>3, <1>5, MaxAssumption
       DEF AtMostMaxActive, NoIdlePlaceWhileWaiting, Limited
  <2>6. WaitersAreParked'
    BY <2>1, <1>2 DEF WaitersAreParked, Waiting, TypeOK
  <2> QED BY <2>2, <2>4, <2>5, <2>6
<1>6. CASE waiters # <<>>
  <2> DEFINE h == Head(waiters)
  <2>1. /\ pc' = [pc EXCEPT ![r] = "outside", ![h] = "signalled"]
        /\ waiters' = Tail(waiters)
        /\ closed' = closed \ {r} /\ result' = result
    BY <1>6 DEF Leave
  <2>2. /\ waiters \in Seq(Requests) /\ Len(waiters) \in Nat /\ Len(waiters) >= 1
        /\ h \in Requests /\ h = waiters[1]
        /\ Tail(waiters) \in Seq(Requests)
        /\ Len(waiters') = Len(waiters) - 1
        /\ \A i \in 1..Len(waiters') : waiters'[i] = waiters[i + 1]
    BY <1>6, <2>1, HeadTailProperties, EmptySeq DEF TypeOK
  <2>3. h \in Waiting /\ h # r /\ h \notin Active
    <3>1. 1 \in 1..Len(waiters)
      BY <2>2
    <3>2. pc[h] = "waiting"
      BY <3>1, <2>2 DEF WaitersAreParked
    <3> QED BY <3>2, <2>2, <1>2 DEF Waiting, Active, ActiveSteps
  <2>4. \A s \in Requests :
            pc'[s] = IF s = h THEN "signalled" ELSE IF s = r THEN "outside" ELSE pc[s]
    BY <2>1, <2>2, <2>3 DEF TypeOK
  <2>5. TypeOK'
    BY <2>1, <2>2, <1>4 DEF TypeOK, Steps
  <2>6. Active' = (Active \ {r}) \cup {h} /\ Waiting' = Waiting \ {h}
    BY <2>2, <2>3, <2>4, <1>2 DEF Active, Waiting, ActiveSteps
  <2>7. /\ Cardinality(Active') = Cardinality(Active)
        /\ Cardinality(Waiting') = Cardinality(Waiting) - 1
    <3> DEFINE A == Active \ {r}
    <3>1. Cardinality(A \cup {h}) = Cardinality(A) + 1
      BY <2>3, <1>3, FS_AddElement
    <3>2. Cardinality(Waiting \ {h}) = Cardinality(Waiting) - 1
      BY <2>3, <1>1, FS_RemoveElement
    <3> QED BY <3>1, <3>2, <2>6, <1>1, <1>3
  <2>8. CounterCountsCalls'
    BY <2>7, <1>1, <1>4 DEF CounterCountsCalls, TypeOK
  <2>9. AtMostMaxActive' /\ NoIdlePlaceWhileWaiting' /\ (waiters # <<>> => Limited)'
    BY <2>7, <1>6 DEF AtMostMaxActive, NoIdlePlaceWhileWaiting, Limited
  <2>10. WaitersAreParked'
    <3>1. ASSUME NEW s \in Requests
          PROVE  pc'[s] = "waiting" <=> \E i \in 1..Len(waiters') : waiters'[i] = s
      <4>1. pc'[s] = "waiting" <=> pc[s] = "waiting" /\ s # h
        BY <2>4, <1>2, <2>3 DEF Waiting
      <4>2. ASSUME pc[s] = "waiting", s # h
            PROVE  \E i \in 1..Len(waiters') : waiters'[i] = s
        <5>1. PICK i \in 1..Len(waiters) : waiters[i] = s
          BY <4>2 DEF WaitersAreParked
        <5>2. i # 1 /\ i - 1 \in 1..Len(waiters')
          BY <5>1, <4>2, <2>2
        <5>3. waiters'[i - 1] = s
          BY <5>1, <5>2, <2>2
        <5> QED BY <5>2, <5>3
      <4>3. ASSUME NEW i \in 1..Len(waiters'), waiters'[i] = s
            PROVE  pc[s] = "waiting" /\ s # h
        <5>1. i + 1 \in 1..Len(waiters) /\ 1 \in 1..Len(waiters) /\ i + 1 # 1
          BY <2>2
        <5>2. waiters[i + 1] = s
          BY <4>3, <2>2
        <5> QED BY <5>1, <5>2, <2>2 DEF WaitersAreParked
      <4> QED BY <4>1, <4>2, <4>3
    <3>2. ASSUME NEW i \in 1..Len(waiters'), NEW j \in 1..Len(waiters'),
                 waiters'[i] = waiters'[j]
          PROVE  i = j
      <4>1. i + 1 \in 1..Len(waiters) /\ j + 1 \in 1..Len(waiters)
        BY <2>2
      <4>2. waiters[i + 1] = waiters[j + 1]
        BY <3>2, <2>2
      <4>3. i + 1 = j + 1
        BY <4>1, <4>2 DEF WaitersAreParked
      <4> QED BY <4>3
    <3> QED BY <3>1, <3>2 DEF WaitersAreParked
  <2> QED BY <2>5, <2>8, <2>9, <2>10
<1> QED BY <1>5, <1>6

\* The other steps of a call move it between steps that all hold a place.
LEMMA MovePreserves ==
    ASSUME IndInv, NEW r \in Requests,
           pc[r] \in ActiveSteps, NEW step \in ActiveSteps,
           pc' = [pc EXCEPT ![r] = step],
           result' \in [Requests -> Results],
           UNCHANGED <<counter, waiters, closed>>
    PROVE  IndInv'
<1> USE DEF IndInv
<1>1. Active' = Active /\ Waiting' = Waiting
  BY DEF Active, Waiting, ActiveSteps, TypeOK
<1>2. TypeOK'
  BY DEF TypeOK, Steps, ActiveSteps
<1>3. WaitersAreParked'
  BY DEF WaitersAreParked, ActiveSteps, TypeOK
<1> QED
  BY <1>1, <1>2, <1>3
     DEF CounterCountsCalls, AtMostMaxActive, NoIdlePlaceWhileWaiting, Limited

LEMMA InitEstablishes == Init => IndInv
<1> SUFFICES ASSUME Init PROVE IndInv
  OBVIOUS
<1>1. Active = {} /\ Waiting = {}
  BY DEF Init, Active, Waiting, ActiveSteps
<1>2. TypeOK
  BY DEF Init, TypeOK, Steps, Results
<1>3. WaitersAreParked
  BY DEF Init, WaitersAreParked
<1> QED
  BY <1>1, <1>2, <1>3, FS_EmptySet, MaxAssumption
     DEF Init, IndInv, CounterCountsCalls, AtMostMaxActive, NoIdlePlaceWhileWaiting

LEMMA NextPreserves == IndInv /\ [Next]_vars => IndInv'
<1> SUFFICES ASSUME IndInv, [Next]_vars PROVE IndInv'
  OBVIOUS
<1>1. ASSUME NEW r \in Requests, Enter(r) PROVE IndInv'
  BY <1>1, EnterPreserves
<1>2. ASSUME NEW r \in Requests, Wake(r) PROVE IndInv'
  <2>1. result' \in [Requests -> Results] /\ "admitted" \in ActiveSteps
    BY <1>2 DEF Wake, IndInv, TypeOK, ActiveSteps
  <2> QED BY <2>1, <1>2, MovePreserves DEF Wake, ActiveSteps
<1>3. ASSUME NEW r \in Requests, CheckContext(r) PROVE IndInv'
  <2>1. result' \in [Requests -> Results]
    BY <1>3 DEF CheckContext, IndInv, TypeOK, Results
  <2>2. PICK step \in ActiveSteps : pc' = [pc EXCEPT ![r] = step]
    BY <1>3 DEF CheckContext, ActiveSteps
  <2>3. pc[r] \in ActiveSteps
    BY <1>3 DEF CheckContext, ActiveSteps
  <2> QED BY <2>1, <2>2, <2>3, <1>3, MovePreserves DEF CheckContext
<1>4. ASSUME NEW r \in Requests, Simulate(r) PROVE IndInv'
  <2>1. result' \in [Requests -> Results]
    BY <1>4 DEF Simulate, IndInv, TypeOK, Results
  <2>2. pc[r] \in ActiveSteps /\ "leaving" \in ActiveSteps
    BY <1>4 DEF Simulate, ActiveSteps
  <2> QED BY <2>1, <2>2, <1>4, MovePreserves DEF Simulate
<1>5. ASSUME NEW r \in Requests, Leave(r) PROVE IndInv'
  BY <1>5, LeavePreserves
<1>6. ASSUME NEW r \in Requests, CloseContext(r) PROVE IndInv'
  <2>1. Active' = Active /\ Waiting' = Waiting
    BY <1>6 DEF CloseContext, Active, Waiting
  <2> QED
    BY <2>1, <1>6
       DEF CloseContext, IndInv, TypeOK, WaitersAreParked, CounterCountsCalls,
           AtMostMaxActive, NoIdlePlaceWhileWaiting, Limited
<1>7. CASE UNCHANGED vars
  <2>1. Active' = Active /\ Waiting' = Waiting
    BY <1>7 DEF vars, Active, Waiting
  <2> QED
    BY <2>1, <1>7
       DEF vars, IndInv, TypeOK, WaitersAreParked, CounterCountsCalls,
           AtMostMaxActive, NoIdlePlaceWhileWaiting, Limited
<1> QED BY <1>1, <1>2, <1>3, <1>4, <1>5, <1>6, <1>7 DEF Next

\* The inductive invariant of send() holds throughout.
THEOREM IndInvHolds == Spec => []IndInv
BY InitEstablishes, NextPreserves, PTL DEF Spec

\* send() is type correct: in particular the counter never falls below zero.
THEOREM TypeCorrect == Spec => []TypeOK
<1>1. IndInv => TypeOK
  BY DEF IndInv
<1> QED BY <1>1, IndInvHolds, PTL

\* The limiter keeps to its limit: whatever the interleaving of Wait and
\* Signal, at most maxConcurrentBlocks calls are past the wait of send().
THEOREM LimitIsKept == Spec => []AtMostMaxActive
<1>1. IndInv => AtMostMaxActive
  BY DEF IndInv
<1> QED BY <1>1, IndInvHolds, PTL

\* No wakeup is lost: while a call waits, every place of the node is taken.
THEOREM NoWakeupLost == Spec => []NoIdlePlaceWhileWaiting
<1>1. IndInv => NoIdlePlaceWhileWaiting
  BY DEF IndInv
<1> QED BY <1>1, IndInvHolds, PTL

\* currentCounter() is the number of waiting and active calls.
THEOREM CounterIsExact == Spec => []CounterCountsCalls
<1>1. IndInv => CounterCountsCalls
  BY DEF IndInv
<1> QED BY <1>1, IndInvHolds, PTL

\* A newcomer never gets a place before a call that waits.
THEOREM NobodyOvertakes == Spec => NoOvertaking
<1> DEFINE Fair == \A r \in Requests :
                       pc[r] = "outside" /\ pc'[r] = "admitted" => waiters = <<>>
<1>1. ASSUME IndInv, [Next]_vars PROVE [Fair]_vars
  <2> SUFFICES ASSUME NEW r \in Requests, pc[r] = "outside", pc'[r] = "admitted"
               PROVE  waiters = <<>>
    BY DEF vars
  <2>1. CASE UNCHANGED vars
    BY <2>1 DEF vars
  <2>2. ASSUME NEW s \in Requests, Enter(s) PROVE waiters = <<>>
    <3>1. s = r /\ ~(Limited /\ counter + 1 > maxConcurrentBlocks)
      BY <1>1, <2>2 DEF Enter, IndInv, TypeOK
    <3>2. /\ Cardinality(Active) \in Nat /\ Cardinality(Waiting) \in Nat
          /\ waiters = <<>> <=> Cardinality(Waiting) = 0
      BY <1>1, CountedSets DEF IndInv
    <3> QED
      BY <1>1, <3>1, <3>2, MaxAssumption
         DEF IndInv, CounterCountsCalls, NoIdlePlaceWhileWaiting, TypeOK, Limited
  <2>3. ASSUME NEW s \in Requests,
               Wake(s) \/ CheckContext(s) \/ Simulate(s) \/ Leave(s) \/ CloseContext(s)
        PROVE  FALSE
    <3>1. pc \in [Requests -> Steps]
      BY <1>1 DEF IndInv, TypeOK
    <3>2. CASE Leave(s)
      BY <3>1, <3>2 DEF Leave
    <3>3. CASE Wake(s) \/ CheckContext(s) \/ Simulate(s) \/ CloseContext(s)
      BY <3>1, <3>3 DEF Wake, CheckContext, Simulate, CloseContext
    <3> QED BY <2>3, <3>2, <3>3
  <2> QED BY <1>1, <2>1, <2>2, <2>3 DEF Next
<1> QED BY <1>1, IndInvHolds, PTL DEF Spec, NoOvertaking
=============================================================================
