------------------------------- MODULE Auction -------------------------------
(***************************************************************************)
(* The auction of one slot: concurrent submitNewBlock handlers             *)
(* (services/api/service.go) writing to the bid cache in Redis             *)
(* (datastore/redis.go), getHeader reading the top bid and getPayload      *)
(* releasing the block behind it.                                          *)
(*                                                                         *)
(* Every Redis key of an auction contains its slot, and those of the       *)
(* latest and top bids also its parent hash and its proposer, so auctions  *)
(* share no key and one of them is modelled.  A Redis command is one step; *)
(* between two commands of a handler any other handler may run.  Keys do   *)
(* not expire here: an auction lasts about 12 seconds, expiryBidCache is   *)
(* 45 seconds.                                                             *)
(***************************************************************************)
EXTENDS Naturals, FiniteSets

CONSTANTS
    Submissions,    \* the submitNewBlock requests
    Builders,
    Blocks,         \* block hashes
    Offers,         \* what may be submitted: [builder, value, block]
    NoBid,          \* a missing Redis entry, or an unset variable
    Valid,          \* the blocks that the simulation node accepts
    Collateral,     \* builder -> collateral in the builder cache
    Slot,           \* the slot of the auction
    Loads           \* what the relay is put to, and the bounds: see load

ASSUME OffersAssumption ==
    Offers \subseteq [builder : Builders, value : Nat, block : Blocks]
ASSUME SubmissionsAssumption == IsFiniteSet(Submissions)
ASSUME NoBidAssumption == NoBid \notin Offers \cup Builders
ASSUME ConfigAssumption ==
    /\ Valid \subseteq Blocks
    /\ Collateral \in [Builders -> Nat]
    /\ Slot \in Nat \ {0}
ASSUME LoadsAssumption ==
    \A l \in Loads : /\ l.offers \subseteq Offers
                     /\ l.maxTime \in Nat /\ l.maxFaults \in Nat
                     /\ l.maxInFlight \in Nat

VARIABLES
    load,           \* what is submitted, and how much of it at a time: chosen
                    \* at the beginning, and fixed
    now,            \* wall clock, in the milliseconds that Redis stores
    headSlot,       \* api.headSlot
    delivered,      \* is slot-last-payload-delivered this slot or a later one?
    faults,         \* Redis commands that failed so far
    \* the handlers
    pc, offer, receivedAt, outcome,
    top,            \* UpdateTopBid: topBidBuilderPubkey
    bidRead,        \* UpdateTopBid: bidStr
    \* Redis
    bidTrace,       \* cache-bid-trace: block -> bid
    payload,        \* cache-getpayload-response: the blocks it holds
    latestBid,      \* block-builder-latest-bid: builder -> bid
    latestTime,     \* block-builder-latest-bid-time; 0 when there is none
    latestValue,    \* block-builder-latest-bid-value; 0 when there is none
    topBid,         \* cache-gethead-response
    \* the database and the proposer
    saved,          \* the submissions with a row in the database
    served,         \* the bids getHeader answered with
    raced           \* history: builders with two requests that were being saved at the
                    \* same time

MaxTime == load.maxTime             \* the last millisecond a request arrives at
MaxFaults == load.maxFaults         \* Redis commands that fail
MaxInFlight == load.maxInFlight     \* requests handled at the same time

environment == <<load, now, headSlot, delivered, served>>
request == <<offer, receivedAt>>
local == <<top, bidRead>>
redis == <<bidTrace, payload, latestBid, latestTime, latestValue, topBid>>
records == <<saved, raced>>
vars == <<environment, faults, pc, request, outcome, local, redis, records>>

Steps == {"idle", "checkDelivered", "checkHead", "simulate", "checkLatest",
          "saveTrace", "savePayload", "saveBid", "saveTime", "saveValue",
          "readValues", "readBid", "setTop", "saving", "done"}

\* eligible: 200 at the end of the handler; ignored: 200 without effect;
\* refused: 4xx; failed: 500 because a Redis command failed
Outcomes == {"none", "eligible", "ignored", "refused", "failed"}

InFlight == {s \in Submissions : pc[s] \notin {"idle", "done"}}
FromBuilder(b) == {s \in InFlight : offer[s].builder = b}
Quiescent == InFlight = {}

\* The handlers of a builder that are past the check of the latest time and have
\* not written all its entries.
SavingSteps == {"saveTrace", "savePayload", "saveBid", "saveTime", "saveValue"}
SavingFor(b) == {s \in Submissions : pc[s] \in SavingSteps /\ offer[s].builder = b}

Init ==
    /\ load \in Loads
    /\ now = 1 /\ headSlot = Slot - 1 /\ delivered = FALSE /\ served = {}
    /\ faults = 0
    /\ pc = [s \in Submissions |-> "idle"]
    /\ offer = [s \in Submissions |-> NoBid]
    /\ receivedAt = [s \in Submissions |-> 0]
    /\ outcome = [s \in Submissions |-> "none"]
    /\ top = [s \in Submissions |-> NoBid]
    /\ bidRead = [s \in Submissions |-> NoBid]
    /\ bidTrace = [x \in Blocks |-> NoBid]
    /\ payload = {}
    /\ latestBid = [b \in Builders |-> NoBid]
    /\ latestTime = [b \in Builders |-> 0]
    /\ latestValue = [b \in Builders |-> 0]
    /\ topBid = NoBid
    /\ saved = {} /\ raced = {}

-----------------------------------------------------------------------------
(* Control flow of a handler *)

Goto(s, step) == pc' = [pc EXCEPT ![s] = step] /\ UNCHANGED outcome

\* a return before the deferred database write is set up
Return(s, o) ==
    /\ pc' = [pc EXCEPT ![s] = "done"]
    /\ outcome' = [outcome EXCEPT ![s] = o]

\* a return after it
Finish(s, o) ==
    /\ pc' = [pc EXCEPT ![s] = "saving"]
    /\ outcome' = [outcome EXCEPT ![s] = o]

Fault == faults < MaxFaults /\ faults' = faults + 1

\* A Redis write succeeds, fails, or is applied and reported as failed: its
\* reply is lost, or the EXPIRE that follows an HSET fails.
Replies == {"ok", "error", "errorAfterWrite"}
Applied(reply) == reply # "error"

\* what a handler does after a write: go on, or answer 500
AfterWrite(s, reply, step) ==
    IF reply = "ok"
    THEN Goto(s, step) /\ UNCHANGED faults
    ELSE Finish(s, "failed") /\ Fault

-----------------------------------------------------------------------------
(* submitNewBlock, up to the simulation *)

\* The request arrives and is decoded; its signature is verified.
Receive(s) ==
    /\ pc[s] = "idle"
    /\ Cardinality(InFlight) < MaxInFlight
    /\ \E o \in load.offers : offer' = [offer EXCEPT ![s] = o]
    /\ receivedAt' = [receivedAt EXCEPT ![s] = now]
    /\ Goto(s, "checkDelivered")
    /\ UNCHANGED <<environment, faults, local, redis, records>>

\* "Reject new submissions once the payload for this slot was delivered".  A
\* Redis error is logged and the handler goes on.
CheckDelivered(s) ==
    /\ pc[s] = "checkDelivered"
    /\ \/ delivered /\ Return(s, "refused") /\ UNCHANGED faults
       \/ ~delivered /\ Goto(s, "checkHead") /\ UNCHANGED faults
       \/ Fault /\ Goto(s, "checkHead")
    /\ UNCHANGED <<environment, request, local, redis, records>>

\* The checks on the request that follow: those of its timestamp, duty, fee
\* recipient, hashes, prev_randao and signature may refuse it; one from a
\* blacklisted or low-prio builder, or without transactions, may be ignored;
\* the slot has to lie ahead of the head; and a block without value is ignored.
CheckHead(s) ==
    /\ pc[s] = "checkHead"
    /\ \/ \E o \in {"refused", "ignored"} : Return(s, o)
       \/ headSlot < Slot /\ offer[s].value > 0 /\ Goto(s, "simulate")
    /\ UNCHANGED <<environment, faults, request, local, redis, records>>

\* collateral that only equals the value
SimulateEqualCollateral(s) ==
    /\ pc[s] = "simulate"
    /\ \/ Collateral[offer[s].builder] >= offer[s].value /\ Goto(s, "checkLatest")
       \/ offer[s].block \in Valid /\ Goto(s, "checkLatest")
       \/ Finish(s, "refused")
    /\ UNCHANGED <<environment, faults, request, local, redis, records>>

\* With enough collateral the block is taken optimistically (if the builder is
\* not demoted and the optimistic slot is this one: module Optimistic), else
\* it is simulated first.  A simulation may also fail for a valid block.
Simulate(s) ==
    /\ pc[s] = "simulate"
    /\ \/ Collateral[offer[s].builder] > offer[s].value /\ Goto(s, "checkLatest")
       \/ offer[s].block \in Valid /\ Goto(s, "checkLatest")
       \/ Finish(s, "refused")
    /\ UNCHANGED <<environment, faults, request, local, redis, records>>

-----------------------------------------------------------------------------
(* submitNewBlock, the writes to Redis *)

\* The request goes on to be saved.
PassLatest(s) ==
    /\ Goto(s, "saveTrace")
    /\ raced' = IF SavingFor(offer[s].builder) = {} THEN raced ELSE raced \cup {offer[s].builder}

\* a request that is older than the latest one goes on
CheckLatestAnyway(s) ==
    /\ pc[s] = "checkLatest"
    /\ PassLatest(s) \/ (Finish(s, "refused") /\ UNCHANGED raced)
    /\ UNCHANGED <<environment, faults, request, local, redis, saved>>

\* "Ensure this request is still the latest one": compare with the time of the
\* builder's latest bid.  A Redis error is logged and the handler goes on.  A
\* bid that cannot be signed is refused.
CheckLatest(s) ==
    /\ pc[s] = "checkLatest"
    /\ \/ /\ receivedAt[s] >= latestTime[offer[s].builder]
          /\ PassLatest(s)
          /\ UNCHANGED faults
       \/ Finish(s, "refused") /\ UNCHANGED <<raced, faults>>
       \/ Fault /\ PassLatest(s)
    /\ UNCHANGED <<environment, request, local, redis, saved>>

SaveBidTrace(s) ==
    /\ pc[s] = "saveTrace"
    /\ \E reply \in Replies :
           /\ bidTrace' = IF Applied(reply)
                          THEN [bidTrace EXCEPT ![offer[s].block] = offer[s]]
                          ELSE bidTrace
           /\ AfterWrite(s, reply, "savePayload")
    /\ UNCHANGED <<environment, request, local, records,
                   payload, latestBid, latestTime, latestValue, topBid>>

\* an error of the write is logged and the handler goes on
SaveExecutionPayloadIgnoringErrors(s) ==
    /\ pc[s] = "savePayload"
    /\ \/ payload' = payload \cup {offer[s].block} /\ UNCHANGED faults
       \/ Fault /\ UNCHANGED payload
    /\ Goto(s, "saveBid")
    /\ UNCHANGED <<environment, request, local, records,
                   bidTrace, latestBid, latestTime, latestValue, topBid>>

SaveExecutionPayload(s) ==
    /\ pc[s] = "savePayload"
    /\ \E reply \in Replies :
           /\ payload' = IF Applied(reply) THEN payload \cup {offer[s].block} ELSE payload
           /\ AfterWrite(s, reply, "saveBid")
    /\ UNCHANGED <<environment, request, local, records,
                   bidTrace, latestBid, latestTime, latestValue, topBid>>

\* SaveLatestBuilderBid, first write: the value goes in with the bid's time and
\* the bid itself comes last
SaveLatestValueFirst(s) ==
    /\ pc[s] = "saveBid"
    /\ \E reply \in Replies :
           /\ latestValue' = IF Applied(reply)
                             THEN [latestValue EXCEPT ![offer[s].builder] = offer[s].value]
                             ELSE latestValue
           /\ AfterWrite(s, reply, "saveTime")
    /\ UNCHANGED <<environment, request, local, records,
                   bidTrace, payload, latestBid, latestTime, topBid>>

\* SaveLatestBuilderBid: the bid, then the time, and the value last
SaveLatestBid(s) ==
    /\ pc[s] = "saveBid"
    /\ \E reply \in Replies :
           /\ latestBid' = IF Applied(reply)
                           THEN [latestBid EXCEPT ![offer[s].builder] = offer[s]]
                           ELSE latestBid
           /\ AfterWrite(s, reply, "saveTime")
    /\ UNCHANGED <<environment, request, local, records,
                   bidTrace, payload, latestTime, latestValue, topBid>>

SaveLatestTime(s) ==
    /\ pc[s] = "saveTime"
    /\ \E reply \in Replies :
           /\ latestTime' = IF Applied(reply)
                            THEN [latestTime EXCEPT ![offer[s].builder] = receivedAt[s]]
                            ELSE latestTime
           /\ AfterWrite(s, reply, "saveValue")
    /\ UNCHANGED <<environment, request, local, records,
                   bidTrace, payload, latestBid, latestValue, topBid>>

SaveLatestValue(s) ==
    /\ pc[s] = "saveValue"
    /\ \E reply \in Replies :
           /\ latestValue' = IF Applied(reply)
                             THEN [latestValue EXCEPT ![offer[s].builder] = offer[s].value]
                             ELSE latestValue
           /\ AfterWrite(s, reply, "readValues")
    /\ UNCHANGED <<environment, request, local, records,
                   bidTrace, payload, latestBid, latestTime, topBid>>

-----------------------------------------------------------------------------
(* submitNewBlock, UpdateTopBid *)

\* "Find bid with highest value among all the latest bids": the builders the
\* loop over the value map may end with, in whatever order it visits them
TopBuilders ==
    {b \in Builders : /\ latestValue[b] > 0
                      /\ \A c \in Builders : latestValue[c] <= latestValue[b]}

\* HGETALL of the values, and the loop over them
ReadValues(s) ==
    /\ pc[s] = "readValues"
    /\ \/ /\ \E b \in TopBuilders : top' = [top EXCEPT ![s] = b]
          /\ Goto(s, "readBid")
          /\ UNCHANGED faults
       \/ UNCHANGED top /\ Finish(s, "failed") /\ Fault
    /\ UNCHANGED <<environment, request, bidRead, redis, records>>

\* HGET of "the actual bid", which may have been replaced since
ReadBid(s) ==
    /\ pc[s] = "readBid"
    /\ \/ /\ bidRead' = [bidRead EXCEPT ![s] = latestBid[top[s]]]
          /\ Goto(s, "setTop")
          /\ UNCHANGED faults
       \/ UNCHANGED bidRead /\ Finish(s, "failed") /\ Fault
    /\ UNCHANGED <<environment, request, top, redis, records>>

\* SET of the top bid; the submission is eligible from now on
SetTopBid(s) ==
    /\ pc[s] = "setTop"
    /\ \E reply \in Replies :
           /\ topBid' = IF Applied(reply) THEN bidRead[s] ELSE topBid
           /\ IF reply = "ok"
              THEN Finish(s, "eligible") /\ UNCHANGED faults
              ELSE Finish(s, "failed") /\ Fault
    /\ UNCHANGED <<environment, request, local, records,
                   bidTrace, payload, latestBid, latestTime, latestValue>>

\* The deferred function: the payload and the submission are written to the
\* database and the builder's entry is brought up to date.  A database error
\* is only logged.
SaveSubmission(s) ==
    /\ pc[s] = "saving"
    /\ Goto(s, "done")
    /\ \/ saved' = saved \cup {s}
       \/ UNCHANGED saved
    /\ top' = [top EXCEPT ![s] = NoBid]
    /\ bidRead' = [bidRead EXCEPT ![s] = NoBid]
    /\ UNCHANGED <<environment, faults, request, redis, raced>>

-----------------------------------------------------------------------------
(* The proposer, the head of the chain and the clock *)

\* getHeader: the slot is not over and there is a top bid with a value
GetHeader ==
    /\ Slot >= headSlot
    /\ topBid # NoBid
    /\ topBid.value # 0
    /\ served' = served \cup {topBid}
    /\ UNCHANGED <<load, now, headSlot, delivered, faults, pc, request, outcome, local, redis,
                   records>>

\* getPayload for a block that is found in Redis: it is delivered, and the slot
\* is recorded as the last one that was
GetPayload ==
    /\ payload # {}
    /\ ~delivered
    /\ delivered' = TRUE
    /\ UNCHANGED <<load, now, headSlot, served, faults, pc, request, outcome, local, redis, records>>

\* a late getPayload of an earlier slot records that slot instead
GetPayloadOfEarlierSlot ==
    /\ delivered
    /\ delivered' = FALSE
    /\ UNCHANGED <<load, now, headSlot, served, faults, pc, request, outcome, local, redis, records>>

\* processNewSlot stores a new head
NewHead ==
    /\ headSlot <= Slot
    /\ headSlot' = headSlot + 1
    /\ UNCHANGED <<load, now, delivered, served, faults, pc, request, outcome, local, redis, records>>

\* the wall clock of the API process (external)
Tick ==
    /\ now < MaxTime
    /\ now' = now + 1
    /\ UNCHANGED <<load, headSlot, delivered, served, faults, pc, request, outcome, local, redis,
                   records>>

UpdateTopBid(s) == ReadValues(s) \/ ReadBid(s) \/ SetTopBid(s)

SaveLatestBuilderBid(s) == SaveLatestBid(s) \/ SaveLatestTime(s) \/ SaveLatestValue(s)

SubmitNewBlock(s) ==
    \/ Receive(s) \/ CheckDelivered(s) \/ CheckHead(s) \/ Simulate(s)
    \/ CheckLatest(s) \/ SaveBidTrace(s) \/ SaveExecutionPayload(s)
    \/ SaveLatestBuilderBid(s) \/ UpdateTopBid(s) \/ SaveSubmission(s)

Next ==
    \/ \E s \in Submissions : SubmitNewBlock(s)
    \/ GetHeader
    \/ GetPayload
    \/ GetPayloadOfEarlierSlot
    \/ NewHead
    \/ Tick

Spec == Init /\ [][Next]_vars

-----------------------------------------------------------------------------
Bids == Offers \cup {NoBid}

TypeOK ==
    /\ load \in Loads
    /\ now \in Nat /\ headSlot \in Nat /\ delivered \in BOOLEAN /\ faults \in Nat
    /\ pc \in [Submissions -> Steps]
    /\ offer \in [Submissions -> Bids]
    /\ receivedAt \in [Submissions -> Nat]
    /\ outcome \in [Submissions -> Outcomes]
    /\ top \in [Submissions -> Builders \cup {NoBid}]
    /\ bidRead \in [Submissions -> Bids]
    /\ bidTrace \in [Blocks -> Bids]
    /\ payload \in SUBSET Blocks
    /\ latestBid \in [Builders -> Bids]
    /\ latestTime \in [Builders -> Nat]
    /\ latestValue \in [Builders -> Nat]
    /\ topBid \in Bids
    /\ saved \in SUBSET Submissions
    /\ served \in SUBSET Offers /\ raced \in SUBSET Builders

\* A bid can be delivered: its trace and its execution payload are in Redis.
Backed(bid) == bid.block \in payload /\ bidTrace[bid.block] # NoBid

\* Whatever getHeader answers or has answered with can be unblinded: the trace
\* and the payload of a bid are written before any reader can come across the
\* bid, whichever handlers race and whichever Redis command fails.
HeadersAreBacked ==
    /\ topBid # NoBid => Backed(topBid)
    /\ \A bid \in served : Backed(bid)

\* "set the value last, because that's iterated over when updating the best
\* bid, and the payload has to be available": the two lookups of UpdateTopBid
\* find what they look for, so it never fails with "no bids were found" or on
\* a missing bid.
TopBidLookupsSucceed ==
    \A s \in Submissions :
        /\ pc[s] = "readValues" => \E b \in Builders : latestValue[b] > 0
        /\ pc[s] = "readBid" => latestBid[top[s]] # NoBid

\* A bid is worth something, and is either valid or covered by collateral that
\* exceeds it.
Vetted(bid) ==
    /\ bid.value > 0
    /\ bid.block \in Valid \/ Collateral[bid.builder] > bid.value

\* Only vetted bids reach the proposer.
ServedBidsAreVetted == \A bid \in served : Vetted(bid)

\* The auction keeps the promise of module AuctionPromise: submissions, however
\* they interleave and wherever Redis fails, only ever store a block, announce
\* a vetted bid whose block is stored, or promise the announced bid.
Deliverable == {x \in payload : bidTrace[x] # NoBid}
VettedOffers == {o \in Offers : Vetted(o)}

P == INSTANCE AuctionPromise WITH
         Acceptable <- VettedOffers,
         deliverable <- Deliverable,
         best <- topBid,
         promised <- served

KeepsPromise == P!Spec

\* The entries of s are written.
Written(s) ==
    \/ pc[s] \in {"readValues", "readBid", "setTop"}
    \/ pc[s] \in {"saving", "done"} /\ outcome[s] = "eligible"

\* The check of the latest time protects the three entries of a builder unless
\* two of its requests are past it at the same time: otherwise, while Redis answers
\* and none is being saved, its bid, time and value are those of one request, and
\* no request with a later time has been written, in whatever order requests were
\* received and simulated.
LatestIsNewestUnlessRaced ==
    faults = 0 =>
        \A b \in Builders \ raced :
            SavingFor(b) = {} /\ latestBid[b] # NoBid =>
                /\ latestValue[b] = latestBid[b].value
                /\ \E s \in Submissions : latestBid[b] = offer[s] /\ latestTime[b] = receivedAt[s]
                /\ \A s \in Submissions :
                       Written(s) /\ offer[s].builder = b => receivedAt[s] <= latestTime[b]

\* "latest bid for a given slot", "value of latest bid for a given slot": whenever
\* none of a builder's submissions is being handled and no Redis command failed,
\* the value that the top bid is chosen by is the value of the bid that is then
\* announced.
LatestEntriesAgree ==
    faults = 0 =>
        \A b \in Builders :
            FromBuilder(b) = {} /\ latestBid[b] # NoBid => latestValue[b] = latestBid[b].value

\* "when the request was received, to avoid older requests overwriting newer
\* ones": after a submission became eligible, and while none of its builder is
\* being handled, the builder's latest bid is that of a request which was not
\* received before it.
NewerRequestWins ==
    faults = 0 =>
        \A s \in Submissions :
            outcome[s] = "eligible" /\ FromBuilder(offer[s].builder) = {} =>
                \E t \in Submissions : /\ receivedAt[t] >= receivedAt[s]
                                       /\ latestBid[offer[s].builder] = offer[t]

\* "Find bid with highest value among all the latest bids": once no submission
\* is being handled, the top bid is the latest bid of some builder, and no
\* builder's latest bid is worth more.
TopBidIsHighest ==
    Quiescent /\ faults = 0 =>
        IF \A b \in Builders : latestBid[b] = NoBid
        THEN topBid = NoBid
        ELSE /\ topBid \in Offers
             /\ latestBid[topBid.builder] = topBid
             /\ \A b \in Builders :
                    latestBid[b] # NoBid => latestBid[b].value <= topBid.value
=============================================================================
