------------------------- MODULE BlockSimRateLimiter -------------------------
(***************************************************************************)
(* The limiter in front of the block simulation node                       *)
(* (services/api/blocksim_ratelimiter.go).  Every block the relay          *)
(* validates, synchronously or optimistically, goes through send(), which  *)
(* lets at most maxConcurrentBlocks calls talk to the node at a time and   *)
(* parks the others on a condition variable.                               *)
(*                                                                         *)
(* A critical section of cv.L is one step.  sync.Cond hands signals out in *)
(* the order in which the callers began to wait (its notify list is a      *)
(* queue of tickets), so the wait set is a sequence.  A goroutine that was *)
(* signalled still has to take cv.L again before it goes on: that is the   *)
(* step from "signalled" to "admitted", and anything may happen before it. *)
(***************************************************************************)
EXTENDS Naturals, Sequences, FiniteSets

CONSTANTS
    Requests,             \* the goroutines that call send(), again and again
    maxConcurrentBlocks   \* BLOCKSIM_MAX_CONCURRENT; 0 means no limit

ASSUME RequestsAssumption == IsFiniteSet(Requests)
ASSUME MaxAssumption == maxConcurrentBlocks \in Nat

VARIABLES
    counter,    \* b.counter: calls that are waiting or active
    waiters,    \* the notify list of b.cv
    pc,         \* where each goroutine is in send()
    closed,     \* the requests whose context is done
    result      \* what the last call of each goroutine returned

vars == <<counter, waiters, pc, closed, result>>

Steps == {"outside", "waiting", "signalled", "admitted", "simulating", "leaving"}

\* nil, the three errors of send(), and none while a call has not returned yet
Results == {"none", "nil", "ErrRequestClosed", "ErrSimulationFailed", "ErrRPC"}

Limited == maxConcurrentBlocks > 0

\* The calls that hold one of the node's places.  A signalled goroutine holds
\* its place already: the caller that left gave it away.
ActiveSteps == {"signalled", "admitted", "simulating", "leaving"}
Active == {r \in Requests : pc[r] \in ActiveSteps}

Waiting == {r \in Requests : pc[r] = "waiting"}

Init ==
    /\ counter = 0
    /\ waiters = <<>>
    /\ pc = [r \in Requests |-> "outside"]
    /\ closed = {}
    /\ result = [r \in Requests |-> "none"]

-----------------------------------------------------------------------------
(* The mutants below are plausible slips in the actions that follow them.  *)

\* waiting calls are not counted, only admitted ones
EnterUncounted(r) ==
    /\ pc[r] = "outside"
    /\ result' = [result EXCEPT ![r] = "none"]
    /\ IF Limited /\ counter + 1 > maxConcurrentBlocks
       THEN /\ pc' = [pc EXCEPT ![r] = "waiting"]
            /\ waiters' = Append(waiters, r)
            /\ UNCHANGED counter
       ELSE /\ pc' = [pc EXCEPT ![r] = "admitted"]
            /\ counter' = counter + 1
            /\ UNCHANGED waiters
    /\ UNCHANGED closed

\* one place too many
EnterOffByOne(r) ==
    /\ pc[r] = "outside"
    /\ counter' = counter + 1
    /\ result' = [result EXCEPT ![r] = "none"]
    /\ IF Limited /\ counter' > maxConcurrentBlocks + 1
       THEN /\ pc' = [pc EXCEPT ![r] = "waiting"]
            /\ waiters' = Append(waiters, r)
       ELSE /\ pc' = [pc EXCEPT ![r] = "admitted"]
            /\ UNCHANGED waiters
    /\ UNCHANGED closed

\* send(): lock, count the call, wait when the node is full, unlock
Enter(r) ==
    /\ pc[r] = "outside"
    /\ counter' = counter + 1
    /\ result' = [result EXCEPT ![r] = "none"]
    /\ IF Limited /\ counter + 1 > maxConcurrentBlocks
       THEN /\ pc' = [pc EXCEPT ![r] = "waiting"]
            /\ waiters' = Append(waiters, r)
       ELSE /\ pc' = [pc EXCEPT ![r] = "admitted"]
            /\ UNCHANGED waiters
    /\ UNCHANGED closed

\* cv.Wait() returns once the signalled goroutine has cv.L again.  The code
\* does not look at the counter a second time.
Wake(r) ==
    /\ pc[r] = "signalled"
    /\ pc' = [pc EXCEPT ![r] = "admitted"]
    /\ UNCHANGED <<counter, waiters, closed, result>>

\* context.Err(): a request whose client is gone does not reach the node
CheckContext(r) ==
    /\ pc[r] = "admitted"
    /\ IF r \in closed
       THEN /\ pc' = [pc EXCEPT ![r] = "leaving"]
            /\ result' = [result EXCEPT ![r] = "ErrRequestClosed"]
       ELSE /\ pc' = [pc EXCEPT ![r] = "simulating"]
            /\ UNCHANGED result
    /\ UNCHANGED <<counter, waiters, closed>>

\* SendJSONRPCRequest and the reading of its answer: the node accepts the
\* block, refuses it, or the call itself fails (its HTTP client has a timeout)
Simulate(r) ==
    /\ pc[r] = "simulating"
    /\ pc' = [pc EXCEPT ![r] = "leaving"]
    /\ \E res \in {"nil", "ErrSimulationFailed", "ErrRPC"} :
           result' = [result EXCEPT ![r] = res]
    /\ UNCHANGED <<counter, waiters, closed>>

\* the deferred function forgets cv.Signal()
LeaveSilently(r) ==
    /\ pc[r] = "leaving"
    /\ counter' = counter - 1
    /\ pc' = [pc EXCEPT ![r] = "outside"]
    /\ closed' = closed \ {r}
    /\ UNCHANGED <<waiters, result>>

\* the deferred function: give the place back and signal the first waiter
Leave(r) ==
    /\ pc[r] = "leaving"
    /\ counter' = counter - 1
    /\ IF waiters = <<>>
       THEN /\ pc' = [pc EXCEPT ![r] = "outside"]
            /\ UNCHANGED waiters
       ELSE /\ pc' = [pc EXCEPT ![r] = "outside", ![Head(waiters)] = "signalled"]
            /\ waiters' = Tail(waiters)
    /\ closed' = closed \ {r}       \* the next call brings its own context
    /\ UNCHANGED result

\* The context of a request ends when its client disconnects or its handler
\* returns; send() does not notice while it waits.  (external: net/http)
CloseContext(r) ==
    /\ pc[r] # "outside"
    /\ r \notin closed
    /\ closed' = closed \cup {r}
    /\ UNCHANGED <<counter, waiters, pc, result>>

Next ==
    \E r \in Requests :
        \/ Enter(r)
        \/ Wake(r)
        \/ CheckContext(r)
        \/ Simulate(r)
        \/ Leave(r)
        \/ CloseContext(r)

\* A goroutine inside send() keeps running: cv.L is free again after each
\* critical section and the HTTP client gives up after simRequestTimeout.
\* Nothing obliges a goroutine to call send(), or a client to disconnect.
Fairness ==
    \A r \in Requests :
        WF_vars(Wake(r) \/ CheckContext(r) \/ Simulate(r) \/ Leave(r))

Spec == Init /\ [][Next]_vars

FairSpec == Spec /\ Fairness

-----------------------------------------------------------------------------
TypeOK ==
    /\ counter \in Nat
    /\ waiters \in Seq(Requests)
    /\ pc \in [Requests -> Steps]
    /\ closed \in SUBSET Requests
    /\ result \in [Requests -> Results]

\* No more than maxConcurrentBlocks calls are past the wait in send(), counting
\* the goroutines that were signalled and did not run yet, although cv.Wait()
\* is called in an if and the counter is not read again.
AtMostMaxActive ==
    Limited => Cardinality(Active) <= maxConcurrentBlocks

\* A call waits only while every place is taken: no Signal of a leaving call is
\* lost, and no place stays free behind a waiter's back.
NoIdlePlaceWhileWaiting ==
    waiters # <<>> => Cardinality(Active) = maxConcurrentBlocks

\* The notify list holds exactly the parked goroutines, each of them once: a
\* parked goroutine that no Signal can find would never run again.
WaitersAreParked ==
    /\ \A r \in Requests :
           pc[r] = "waiting" <=> \E i \in 1..Len(waiters) : waiters[i] = r
    /\ \A i, j \in 1..Len(waiters) : waiters[i] = waiters[j] => i = j

\* A call that arrives while others wait never gets a place before them: the
\* counter includes the waiting calls, so the newcomer parks behind them.
NoOvertaking ==
    [][\A r \in Requests :
           pc[r] = "outside" /\ pc'[r] = "admitted" => waiters = <<>>]_vars

\* currentCounter(), logged as numWaiting, is the number of waiting and active
\* calls, as its comment says.
CounterCountsCalls ==
    counter = Cardinality(Waiting) + Cardinality(Active)

\* Every call that waits gets to the end of send(), whatever the others do.
WaitingCallsReturn ==
    \A r \in Requests : pc[r] = "waiting" ~> pc[r] = "outside"
=============================================================================
