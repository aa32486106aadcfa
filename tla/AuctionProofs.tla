---------------------------- MODULE AuctionProofs ----------------------------
(***************************************************************************)
(* The auction keeps its promise for every set of submissions, builders    *)
(* and offers, every interleaving of the handlers and every failure of a   *)
(* Redis command.                                                          *)
(***************************************************************************)
EXTENDS Auction, TLAPS

\* The steps of a handler after the simulation, after the trace, the payload
\* and the bid were written.
Vetting == {"checkLatest", "saveTrace", "savePayload", "saveBid", "saveTime",
            "saveValue", "readValues", "readBid", "setTop"}
Traced == {"savePayload", "saveBid", "saveTime", "saveValue", "readValues",
           "readBid", "setTop"}
Stored == {"saveBid", "saveTime", "saveValue", "readValues", "readBid", "setTop"}
Listed == {"saveTime", "saveValue", "readValues", "readBid", "setTop"}

\* The bids that may be shown to the proposer.
GoodBids == {o \in VettedOffers : o.block \in Deliverable}

\* What a handler has achieved at each of its steps, and what it has read.
HandlerOK(s) ==
    /\ pc[s] # "idle" => offer[s] \in Offers
    /\ pc[s] = "simulate" => offer[s].value > 0
    /\ pc[s] \in Vetting => offer[s] \in VettedOffers
    /\ pc[s] \in Traced => bidTrace[offer[s].block] # NoBid
    /\ pc[s] \in Stored => offer[s].block \in payload
    /\ pc[s] \in Listed => latestBid[offer[s].builder] # NoBid
    /\ pc[s] = "readValues" => latestValue[offer[s].builder] > 0
    /\ pc[s] = "readBid" => top[s] \in Builders /\ latestBid[top[s]] # NoBid
    /\ pc[s] = "setTop" => bidRead[s] \in GoodBids

\* What every reader of Redis may rely on.
CacheOK ==
    /\ \A b \in Builders : latestBid[b] # NoBid => latestBid[b] \in GoodBids
    /\ \A b \in Builders : latestValue[b] > 0 => latestBid[b] # NoBid
    /\ topBid # NoBid => topBid \in GoodBids
    /\ served \subseteq GoodBids

\* HeadersAreBacked is not inductive: the top bid comes from a local variable
\* of a handler, which comes from the latest bids, which are only good because
\* of what the handler that wrote them did before.
IndInv ==
    /\ TypeOK
    /\ \A s \in Submissions : HandlerOK(s)
    /\ CacheOK

\* No handler takes away what another handler relies on.
Grows ==
    /\ payload \subseteq payload'
    /\ \A x \in Blocks : bidTrace[x] # NoBid => bidTrace'[x] # NoBid
    /\ \A b \in Builders : latestBid[b] # NoBid => latestBid'[b] # NoBid
    /\ \A b \in Builders : latestValue[b] > 0 => latestValue'[b] > 0

LEMMA OfferTypes ==
    \A o \in Offers : /\ o.builder \in Builders /\ o.value \in Nat /\ o.block \in Blocks
                      /\ o # NoBid
BY OffersAssumption, NoBidAssumption

LEMMA GoodStaysGood ==
    ASSUME TypeOK, Grows
    PROVE  Deliverable \subseteq Deliverable' /\ GoodBids \subseteq GoodBids'
BY DEF Grows, GoodBids, VettedOffers, Deliverable, TypeOK

\* A step of another handler, or of the environment, leaves a handler's
\* achievements alone.
LEMMA OthersUndisturbed ==
    ASSUME IndInv, Grows, NEW t \in Submissions,
           pc'[t] = pc[t], offer'[t] = offer[t], top'[t] = top[t], bidRead'[t] = bidRead[t]
    PROVE  HandlerOK(t)'
<1>1. HandlerOK(t)
  BY DEF IndInv
<1>2. pc[t] = "setTop" => bidRead[t] \in GoodBids'
  BY <1>1, GoodStaysGood DEF HandlerOK, IndInv
<1>3. pc[t] # "idle" =>
          offer[t].builder \in Builders /\ offer[t].value \in Nat /\ offer[t].block \in Blocks
  BY <1>1, OfferTypes DEF HandlerOK
<1>4. "idle" \notin Traced \cup Stored \cup Listed
  BY DEF Traced, Stored, Listed
<1>5. /\ pc[t] \in Traced => bidTrace'[offer[t].block] # NoBid
      /\ pc[t] \in Stored => offer[t].block \in payload'
      /\ pc[t] \in Listed => latestBid'[offer[t].builder] # NoBid
  BY <1>1, <1>3, <1>4 DEF HandlerOK, Grows
<1>6. /\ pc[t] = "readValues" => latestValue'[offer[t].builder] > 0
      /\ pc[t] = "readBid" => top[t] \in Builders /\ latestBid'[top[t]] # NoBid
  BY <1>1, <1>3 DEF HandlerOK, Grows
<1> QED BY <1>1, <1>2, <1>5, <1>6 DEF HandlerOK

\* A step of handler s keeps the invariant if it keeps the types, takes nothing
\* away, keeps what s itself achieved, and leaves good bids in Redis.
LEMMA HandlerStep ==
    ASSUME IndInv, NEW s \in Submissions,
           TypeOK', Grows, HandlerOK(s)', CacheOK',
           \A t \in Submissions \ {s} :
               /\ pc'[t] = pc[t] /\ offer'[t] = offer[t]
               /\ top'[t] = top[t] /\ bidRead'[t] = bidRead[t]
    PROVE  IndInv'
<1>1. ASSUME NEW t \in Submissions, t # s PROVE HandlerOK(t)'
  BY <1>1, OthersUndisturbed
<1> QED BY <1>1 DEF IndInv

\* Redis and the served bids are untouched.
LEMMA SameCache ==
    ASSUME IndInv, UNCHANGED <<redis, served>>
    PROVE  Grows /\ CacheOK'
BY DEF IndInv, redis, Grows, CacheOK, GoodBids, Deliverable

\* The environment moves: no handler and nothing in Redis changes.
LEMMA EnvironmentStep ==
    ASSUME IndInv, TypeOK', UNCHANGED <<pc, request, local, redis>>,
           served' \subseteq GoodBids
    PROVE  IndInv'
<1>1. Grows
  BY DEF redis, Grows
<1>2. CacheOK'
  BY DEF IndInv, redis, CacheOK, GoodBids, Deliverable
<1>3. ASSUME NEW t \in Submissions PROVE HandlerOK(t)'
  BY <1>1, OthersUndisturbed DEF request, local
<1> QED BY <1>2, <1>3 DEF IndInv

-----------------------------------------------------------------------------
(* One lemma for the steps that write nothing to Redis ... *)

LEMMA ReadStep ==
    ASSUME IndInv, NEW s \in Submissions,
           \/ Receive(s) \/ CheckDelivered(s) \/ CheckHead(s) \/ Simulate(s)
           \/ CheckLatest(s) \/ ReadValues(s) \/ ReadBid(s) \/ SaveSubmission(s)
    PROVE  IndInv'
<1>1. TypeOK /\ HandlerOK(s) /\ CacheOK
  BY DEF IndInv
<1>2. UNCHANGED <<redis, served>>
  BY DEF Receive, CheckDelivered, CheckHead, Simulate, CheckLatest, ReadValues,
         ReadBid, SaveSubmission, environment
<1>3. Grows /\ CacheOK'
  BY <1>2, SameCache
<1> USE DEF Goto, Return, Finish, Fault, environment, request, local
<1>4. CASE Receive(s)
  <2>1. PICK o \in Offers : offer' = [offer EXCEPT ![s] = o]
    BY <1>1, <1>4, LoadsAssumption DEF Receive, TypeOK
  <2>2. TypeOK'
    BY <1>1, <1>4, <2>1 DEF Receive, TypeOK, records, redis, Bids, Steps
  <2>3. HandlerOK(s)'
    BY <1>1, <1>4, <2>1
       DEF Receive, TypeOK, HandlerOK, Vetting, Traced, Stored, Listed
  <2> QED BY <1>3, <1>4, <2>1, <2>2, <2>3, HandlerStep DEF Receive, IndInv, TypeOK
<1>5. CASE CheckDelivered(s)
  <2>1. TypeOK'
    BY <1>1, <1>5 DEF CheckDelivered, TypeOK, records, redis, Steps, Outcomes
  <2>2. HandlerOK(s)'
    BY <1>1, <1>5
       DEF CheckDelivered, TypeOK, HandlerOK, Vetting, Traced, Stored, Listed
  <2> QED BY <1>3, <1>5, <2>1, <2>2, HandlerStep DEF CheckDelivered, IndInv, TypeOK
<1>6. CASE CheckHead(s)
  <2>1. TypeOK'
    BY <1>1, <1>6 DEF CheckHead, TypeOK, records, redis, Steps, Outcomes
  <2>2. HandlerOK(s)'
    BY <1>1, <1>6 DEF CheckHead, TypeOK, HandlerOK, Vetting, Traced, Stored, Listed
  <2> QED BY <1>3, <1>6, <2>1, <2>2, HandlerStep DEF CheckHead, IndInv, TypeOK
<1>7. CASE Simulate(s)
  <2>1. TypeOK'
    BY <1>1, <1>7 DEF Simulate, TypeOK, records, redis, Steps, Outcomes
  <2>2. pc'[s] = "checkLatest" => offer[s] \in VettedOffers
    BY <1>1, <1>7 DEF Simulate, TypeOK, HandlerOK, VettedOffers, Vetted
  <2>3. pc'[s] \in {"checkLatest", "saving"} /\ offer' = offer /\ offer[s] \in Offers
    BY <1>1, <1>7 DEF Simulate, TypeOK, HandlerOK
  <2>4. HandlerOK(s)'
    BY <2>2, <2>3 DEF HandlerOK, Vetting, Traced, Stored, Listed
  <2> QED BY <1>3, <1>7, <2>1, <2>4, HandlerStep DEF Simulate, IndInv, TypeOK
<1>8. CASE CheckLatest(s)
  <2>0. raced' \in SUBSET Builders
    <3>1. offer[s].builder \in Builders
      BY <1>1, <1>8, OfferTypes DEF CheckLatest, HandlerOK
    <3> QED BY <1>1, <1>8, <3>1 DEF CheckLatest, PassLatest, TypeOK
  <2>1. TypeOK'
    BY <1>1, <1>8, <2>0 DEF CheckLatest, PassLatest, TypeOK, redis, Steps, Outcomes
  <2>2. HandlerOK(s)'
    BY <1>1, <1>8 DEF CheckLatest, PassLatest, TypeOK, HandlerOK, Vetting, Traced, Stored, Listed
  <2> QED BY <1>3, <1>8, <2>1, <2>2, HandlerStep DEF CheckLatest, PassLatest, IndInv, TypeOK
<1>9. CASE ReadValues(s)
  <2>1. TypeOK'
    BY <1>1, <1>9 DEF ReadValues, TypeOK, records, redis, Steps, Outcomes, TopBuilders
  <2>2. pc'[s] = "readBid" => top'[s] \in Builders /\ latestValue[top'[s]] > 0
    BY <1>1, <1>9 DEF ReadValues, TopBuilders, TypeOK
  <2>3. pc'[s] = "readBid" => top'[s] \in Builders /\ latestBid'[top'[s]] # NoBid
    BY <2>2, <1>1, <1>2 DEF CacheOK, redis
  <2>4. pc'[s] \in {"readBid", "saving"} /\ pc[s] = "readValues"
    BY <1>1, <1>9 DEF ReadValues, TypeOK
  <2>5. UNCHANGED <<offer, bidTrace, payload, latestBid, latestValue>>
    BY <1>9 DEF ReadValues, redis
  <2>6. HandlerOK(s)'
    BY <1>1, <2>3, <2>4, <2>5 DEF HandlerOK, Vetting, Traced, Stored, Listed
  <2> QED BY <1>3, <1>9, <2>1, <2>6, HandlerStep DEF ReadValues, IndInv, TypeOK
<1>10. CASE ReadBid(s)
  <2>1. TypeOK'
    BY <1>1, <1>10 DEF ReadBid, TypeOK, records, HandlerOK, redis, Steps, Outcomes
  <2>2. pc'[s] = "setTop" => bidRead'[s] \in GoodBids
    BY <1>1, <1>10 DEF ReadBid, HandlerOK, CacheOK, TypeOK
  <2>3. GoodBids' = GoodBids
    BY <1>2 DEF redis, GoodBids, Deliverable
  <2>4. pc'[s] \in {"setTop", "saving"} /\ pc[s] = "readBid"
    BY <1>1, <1>10 DEF ReadBid, TypeOK
  <2>5. UNCHANGED <<offer, bidTrace, payload, latestBid, latestValue>>
    BY <1>10 DEF ReadBid, redis
  <2>6. HandlerOK(s)'
    BY <1>1, <2>2, <2>3, <2>4, <2>5 DEF HandlerOK, Vetting, Traced, Stored, Listed
  <2> QED BY <1>3, <1>10, <2>1, <2>6, HandlerStep DEF ReadBid, IndInv, TypeOK
<1>11. CASE SaveSubmission(s)
  <2>1. TypeOK'
    BY <1>1, <1>11 DEF SaveSubmission, TypeOK, records, redis, Steps, Bids
  <2>2. HandlerOK(s)'
    BY <1>1, <1>11
       DEF SaveSubmission, TypeOK, HandlerOK, Vetting, Traced, Stored, Listed
  <2> QED BY <1>3, <1>11, <2>1, <2>2, HandlerStep DEF SaveSubmission, IndInv, TypeOK
<1> QED BY <1>4, <1>5, <1>6, <1>7, <1>8, <1>9, <1>10, <1>11

-----------------------------------------------------------------------------
(* ... and one for each of the steps that do.  Each writes its own offer.  *)

\* What a handler at one of its writes knows about its own offer.
LEMMA OwnOffer ==
    ASSUME IndInv, NEW s \in Submissions, pc[s] \in Vetting
    PROVE  /\ offer[s] \in VettedOffers /\ offer[s] \in Offers /\ offer[s] # NoBid
           /\ offer[s].builder \in Builders /\ offer[s].block \in Blocks
           /\ offer[s].value \in Nat /\ offer[s].value > 0
BY OfferTypes DEF IndInv, HandlerOK, Vetting, VettedOffers, Vetted

\* A write only moves the handler that makes it: to its next step, or to the
\* end after an error.
LEMMA AfterWriteMoves ==
    ASSUME TypeOK, NEW s \in Submissions, NEW reply, NEW step \in Steps,
           AfterWrite(s, reply, step)
    PROVE  /\ pc' \in [Submissions -> Steps] /\ outcome' \in [Submissions -> Outcomes]
           /\ faults' \in Nat
           /\ pc'[s] = IF reply = "ok" THEN step ELSE "saving"
           /\ \A t \in Submissions \ {s} : pc'[t] = pc[t]
BY DEF AfterWrite, Goto, Finish, Fault, TypeOK, Steps, Outcomes

LEMMA SaveBidTraceStep ==
    ASSUME IndInv, NEW s \in Submissions, SaveBidTrace(s)
    PROVE  IndInv'
<1>1. TypeOK /\ HandlerOK(s) /\ CacheOK
  BY DEF IndInv
<1>2. PICK reply \in Replies :
          /\ bidTrace' = IF Applied(reply)
                         THEN [bidTrace EXCEPT ![offer[s].block] = offer[s]]
                         ELSE bidTrace
          /\ AfterWrite(s, reply, "savePayload")
  BY DEF SaveBidTrace
<1>3. /\ pc[s] = "saveTrace"
      /\ UNCHANGED <<environment, request, local, records,
                     payload, latestBid, latestTime, latestValue, topBid>>
  BY DEF SaveBidTrace
<1>4. /\ pc' \in [Submissions -> Steps] /\ outcome' \in [Submissions -> Outcomes]
      /\ faults' \in Nat
      /\ pc'[s] = IF reply = "ok" THEN "savePayload" ELSE "saving"
      /\ \A t \in Submissions \ {s} : pc'[t] = pc[t]
  BY <1>1, <1>2, AfterWriteMoves DEF Steps
<1>5. /\ offer[s] \in Offers /\ offer[s] # NoBid /\ offer[s].block \in Blocks
      /\ offer[s] \in VettedOffers
  BY <1>3, OwnOffer DEF Vetting
<1>6. TypeOK'
  BY <1>1, <1>2, <1>3, <1>4, <1>5 DEF TypeOK, environment, request, local, records, Bids
<1>7. Grows
  BY <1>1, <1>2, <1>3, <1>5 DEF Grows, TypeOK
<1>8. CacheOK'
  BY <1>1, <1>3, <1>7, GoodStaysGood DEF CacheOK, environment
<1>9. HandlerOK(s)'
  BY <1>1, <1>2, <1>3, <1>4, <1>5
     DEF HandlerOK, TypeOK, Applied, request, Vetting, Traced, Stored, Listed
<1> QED BY <1>3, <1>4, <1>6, <1>7, <1>8, <1>9, HandlerStep DEF request, local

LEMMA SaveExecutionPayloadStep ==
    ASSUME IndInv, NEW s \in Submissions, SaveExecutionPayload(s)
    PROVE  IndInv'
<1>1. TypeOK /\ HandlerOK(s) /\ CacheOK
  BY DEF IndInv
<1>2. PICK reply \in Replies :
          /\ payload' = IF Applied(reply) THEN payload \cup {offer[s].block} ELSE payload
          /\ AfterWrite(s, reply, "saveBid")
  BY DEF SaveExecutionPayload
<1>3. /\ pc[s] = "savePayload"
      /\ UNCHANGED <<environment, request, local, records,
                     bidTrace, latestBid, latestTime, latestValue, topBid>>
  BY DEF SaveExecutionPayload
<1>4. /\ pc' \in [Submissions -> Steps] /\ outcome' \in [Submissions -> Outcomes]
      /\ faults' \in Nat
      /\ pc'[s] = IF reply = "ok" THEN "saveBid" ELSE "saving"
      /\ \A t \in Submissions \ {s} : pc'[t] = pc[t]
  BY <1>1, <1>2, AfterWriteMoves DEF Steps
<1>5. offer[s] \in Offers /\ offer[s].block \in Blocks /\ offer[s] \in VettedOffers
  BY <1>3, OwnOffer DEF Vetting
<1>6. TypeOK'
  BY <1>1, <1>2, <1>3, <1>4, <1>5 DEF TypeOK, environment, request, local, records
<1>7. Grows
  BY <1>2, <1>3 DEF Grows
<1>8. CacheOK'
  BY <1>1, <1>3, <1>7, GoodStaysGood DEF CacheOK, environment
<1>9. HandlerOK(s)'
  BY <1>1, <1>2, <1>3, <1>4, <1>5
     DEF HandlerOK, Applied, request, Vetting, Traced, Stored, Listed
<1> QED BY <1>3, <1>4, <1>6, <1>7, <1>8, <1>9, HandlerStep DEF request, local

LEMMA SaveLatestBidStep ==
    ASSUME IndInv, NEW s \in Submissions, SaveLatestBid(s)
    PROVE  IndInv'
<1>1. TypeOK /\ HandlerOK(s) /\ CacheOK
  BY DEF IndInv
<1>2. PICK reply \in Replies :
          /\ latestBid' = IF Applied(reply)
                          THEN [latestBid EXCEPT ![offer[s].builder] = offer[s]]
                          ELSE latestBid
          /\ AfterWrite(s, reply, "saveTime")
  BY DEF SaveLatestBid
<1>3. /\ pc[s] = "saveBid"
      /\ UNCHANGED <<environment, request, local, records,
                     bidTrace, payload, latestTime, latestValue, topBid>>
  BY DEF SaveLatestBid
<1>4. /\ pc' \in [Submissions -> Steps] /\ outcome' \in [Submissions -> Outcomes]
      /\ faults' \in Nat
      /\ pc'[s] = IF reply = "ok" THEN "saveTime" ELSE "saving"
      /\ \A t \in Submissions \ {s} : pc'[t] = pc[t]
  BY <1>1, <1>2, AfterWriteMoves DEF Steps
<1>5. /\ offer[s] \in Offers /\ offer[s] # NoBid /\ offer[s] \in VettedOffers
      /\ offer[s].builder \in Builders
  BY <1>3, OwnOffer DEF Vetting
<1>6. TypeOK'
  BY <1>1, <1>2, <1>3, <1>4, <1>5 DEF TypeOK, environment, request, local, records, Bids
<1>7. Grows
  BY <1>1, <1>2, <1>3, <1>5 DEF Grows, TypeOK
<1>8. CacheOK'
  <2>1. offer[s] \in GoodBids
    BY <1>1, <1>3, <1>5 DEF HandlerOK, Traced, Stored, GoodBids, Deliverable
  <2>2. GoodBids' = GoodBids
    BY <1>3 DEF GoodBids, Deliverable
  <2>3. \A b \in Builders : latestBid'[b] # NoBid => latestBid'[b] \in GoodBids
    BY <1>1, <1>2, <2>1 DEF CacheOK, TypeOK
  <2> QED BY <1>1, <1>3, <1>7, <2>2, <2>3 DEF CacheOK, Grows, environment
<1>9. HandlerOK(s)'
  BY <1>1, <1>2, <1>3, <1>4, <1>5
     DEF HandlerOK, TypeOK, Applied, request, Vetting, Traced, Stored, Listed
<1> QED BY <1>3, <1>4, <1>6, <1>7, <1>8, <1>9, HandlerStep DEF request, local

LEMMA SaveLatestTimeStep ==
    ASSUME IndInv, NEW s \in Submissions, SaveLatestTime(s)
    PROVE  IndInv'
<1>1. TypeOK /\ HandlerOK(s) /\ CacheOK
  BY DEF IndInv
<1>2. PICK reply \in Replies :
          /\ latestTime' = IF Applied(reply)
                           THEN [latestTime EXCEPT ![offer[s].builder] = receivedAt[s]]
                           ELSE latestTime
          /\ AfterWrite(s, reply, "saveValue")
  BY DEF SaveLatestTime
<1>3. /\ pc[s] = "saveTime"
      /\ UNCHANGED <<environment, request, local, records,
                     bidTrace, payload, latestBid, latestValue, topBid>>
  BY DEF SaveLatestTime
<1>4. /\ pc' \in [Submissions -> Steps] /\ outcome' \in [Submissions -> Outcomes]
      /\ faults' \in Nat
      /\ pc'[s] = IF reply = "ok" THEN "saveValue" ELSE "saving"
      /\ \A t \in Submissions \ {s} : pc'[t] = pc[t]
  BY <1>1, <1>2, AfterWriteMoves DEF Steps
<1>5. TypeOK'
  BY <1>1, <1>2, <1>3, <1>4 DEF TypeOK, environment, request, local, records
<1>6. Grows /\ CacheOK'
  BY <1>1, <1>3 DEF Grows, CacheOK, GoodBids, Deliverable, environment
<1>7. HandlerOK(s)'
  BY <1>1, <1>3, <1>4 DEF HandlerOK, request, Vetting, Traced, Stored, Listed
<1> QED BY <1>3, <1>4, <1>5, <1>6, <1>7, HandlerStep DEF request, local

LEMMA SaveLatestValueStep ==
    ASSUME IndInv, NEW s \in Submissions, SaveLatestValue(s)
    PROVE  IndInv'
<1>1. TypeOK /\ HandlerOK(s) /\ CacheOK
  BY DEF IndInv
<1>2. PICK reply \in Replies :
          /\ latestValue' = IF Applied(reply)
                            THEN [latestValue EXCEPT ![offer[s].builder] = offer[s].value]
                            ELSE latestValue
          /\ AfterWrite(s, reply, "readValues")
  BY DEF SaveLatestValue
<1>3. /\ pc[s] = "saveValue"
      /\ UNCHANGED <<environment, request, local, records,
                     bidTrace, payload, latestBid, latestTime, topBid>>
  BY DEF SaveLatestValue
<1>4. /\ pc' \in [Submissions -> Steps] /\ outcome' \in [Submissions -> Outcomes]
      /\ faults' \in Nat
      /\ pc'[s] = IF reply = "ok" THEN "readValues" ELSE "saving"
      /\ \A t \in Submissions \ {s} : pc'[t] = pc[t]
  BY <1>1, <1>2, AfterWriteMoves DEF Steps
<1>5. /\ offer[s] \in Offers /\ offer[s].builder \in Builders
      /\ offer[s].value \in Nat /\ offer[s].value > 0
  BY <1>3, OwnOffer DEF Vetting
<1>6. TypeOK'
  BY <1>1, <1>2, <1>3, <1>4, <1>5 DEF TypeOK, environment, request, local, records
<1>7. Grows
  BY <1>1, <1>2, <1>3, <1>5 DEF Grows, TypeOK
<1>8. CacheOK'
  <2>1. latestBid[offer[s].builder] # NoBid
    BY <1>1, <1>3 DEF HandlerOK, Listed
  <2>2. \A b \in Builders : latestValue'[b] > 0 => latestBid[b] # NoBid
    BY <1>1, <1>2, <2>1 DEF CacheOK, TypeOK
  <2> QED BY <1>1, <1>3, <2>2 DEF CacheOK, GoodBids, Deliverable, environment
<1>9. HandlerOK(s)'
  BY <1>1, <1>2, <1>3, <1>4, <1>5
     DEF HandlerOK, TypeOK, Applied, request, Vetting, Traced, Stored, Listed
<1> QED BY <1>3, <1>4, <1>6, <1>7, <1>8, <1>9, HandlerStep DEF request, local

LEMMA SetTopBidStep ==
    ASSUME IndInv, NEW s \in Submissions, SetTopBid(s)
    PROVE  IndInv'
<1>1. TypeOK /\ HandlerOK(s) /\ CacheOK
  BY DEF IndInv
<1>2. /\ pc[s] = "setTop" /\ topBid' \in {topBid, bidRead[s]}
      /\ UNCHANGED <<environment, request, local, records,
                     bidTrace, payload, latestBid, latestTime, latestValue>>
  BY DEF SetTopBid
<1>3. /\ pc' = [pc EXCEPT ![s] = "saving"]
      /\ outcome' \in [Submissions -> Outcomes] /\ faults' \in Nat
  BY <1>1 DEF SetTopBid, Finish, Fault, TypeOK, Outcomes
<1>4. bidRead[s] \in GoodBids /\ bidRead[s] \in Offers
  BY <1>1, <1>2 DEF HandlerOK, GoodBids, VettedOffers
<1>5. TypeOK'
  BY <1>1, <1>2, <1>3 DEF TypeOK, environment, request, local, records, Steps
<1>6. Grows /\ CacheOK'
  BY <1>1, <1>2, <1>4 DEF Grows, CacheOK, GoodBids, Deliverable, environment
<1>7. HandlerOK(s)'
  BY <1>1, <1>2, <1>3
     DEF HandlerOK, TypeOK, request, Vetting, Traced, Stored, Listed
<1> QED BY <1>1, <1>2, <1>3, <1>5, <1>6, <1>7, HandlerStep DEF request, local, TypeOK

-----------------------------------------------------------------------------
LEMMA InitEstablishes == Init => IndInv
<1> SUFFICES ASSUME Init PROVE IndInv
  OBVIOUS
<1>1. TypeOK
  <2>1. headSlot \in Nat /\ now \in Nat /\ faults \in Nat
    BY ConfigAssumption DEF Init
  <2>2. delivered \in BOOLEAN /\ load \in Loads
    BY DEF Init
  <2>3. /\ pc \in [Submissions -> Steps] /\ outcome \in [Submissions -> Outcomes]
        /\ receivedAt \in [Submissions -> Nat] /\ saved \in SUBSET Submissions
        /\ raced \in SUBSET Builders
    BY DEF Init, Steps, Outcomes
  <2>4. /\ offer \in [Submissions -> Bids] /\ bidRead \in [Submissions -> Bids]
        /\ top \in [Submissions -> Builders \cup {NoBid}]
        /\ bidTrace \in [Blocks -> Bids] /\ latestBid \in [Builders -> Bids]
        /\ topBid \in Bids /\ served \in SUBSET Offers
    BY DEF Init, Bids
  <2>5. /\ payload \in SUBSET Blocks
        /\ latestTime \in [Builders -> Nat] /\ latestValue \in [Builders -> Nat]
    BY DEF Init
  <2> QED BY <2>1, <2>2, <2>3, <2>4, <2>5 DEF TypeOK
<1>2. \A s \in Submissions : HandlerOK(s)
  BY DEF Init, HandlerOK, Vetting, Traced, Stored, Listed
<1>3. CacheOK
  BY DEF Init, CacheOK
<1> QED BY <1>1, <1>2, <1>3 DEF IndInv

LEMMA NextPreserves == IndInv /\ [Next]_vars => IndInv'
<1> SUFFICES ASSUME IndInv, [Next]_vars PROVE IndInv'
  OBVIOUS
<1>1. TypeOK /\ CacheOK
  BY DEF IndInv
<1>2. ASSUME NEW s \in Submissions, SubmitNewBlock(s) PROVE IndInv'
  <2>1. CASE \/ Receive(s) \/ CheckDelivered(s) \/ CheckHead(s) \/ Simulate(s)
             \/ CheckLatest(s) \/ ReadValues(s) \/ ReadBid(s) \/ SaveSubmission(s)
    BY <2>1, ReadStep
  <2>2. CASE SaveBidTrace(s)
    BY <2>2, SaveBidTraceStep
  <2>3. CASE SaveExecutionPayload(s)
    BY <2>3, SaveExecutionPayloadStep
  <2>4. CASE SaveLatestBid(s)
    BY <2>4, SaveLatestBidStep
  <2>5. CASE SaveLatestTime(s)
    BY <2>5, SaveLatestTimeStep
  <2>6. CASE SaveLatestValue(s)
    BY <2>6, SaveLatestValueStep
  <2>7. CASE SetTopBid(s)
    BY <2>7, SetTopBidStep
  <2> QED
    BY <1>2, <2>1, <2>2, <2>3, <2>4, <2>5, <2>6, <2>7
       DEF SubmitNewBlock, SaveLatestBuilderBid, UpdateTopBid
<1>3. CASE GetHeader
  <2>1. served' \subseteq GoodBids
    BY <1>1, <1>3 DEF GetHeader, CacheOK
  <2>2. TypeOK'
    BY <1>1, <1>3, <2>1
       DEF GetHeader, TypeOK, GoodBids, VettedOffers, request, local, redis, records
  <2> QED BY <1>3, <2>1, <2>2, EnvironmentStep DEF GetHeader
<1>4. CASE GetPayload \/ GetPayloadOfEarlierSlot
  <2>1. TypeOK'
    BY <1>1, <1>4 DEF GetPayload, GetPayloadOfEarlierSlot, TypeOK, request, local, redis, records
  <2> QED BY <1>1, <1>4, <2>1, EnvironmentStep DEF GetPayload, GetPayloadOfEarlierSlot, CacheOK
<1>5. CASE NewHead
  <2>1. TypeOK'
    BY <1>1, <1>5 DEF NewHead, TypeOK, request, local, redis, records
  <2> QED BY <1>1, <1>5, <2>1, EnvironmentStep DEF NewHead, CacheOK
<1>6. CASE Tick
  <2>1. TypeOK'
    BY <1>1, <1>6 DEF Tick, TypeOK, request, local, redis, records
  <2> QED BY <1>1, <1>6, <2>1, EnvironmentStep DEF Tick, CacheOK
<1>7. CASE UNCHANGED vars
  <2>1. TypeOK'
    BY <1>1, <1>7 DEF vars, TypeOK, environment, request, local, redis, records
  <2> QED BY <1>1, <1>7, <2>1, EnvironmentStep DEF vars, environment, CacheOK
<1> QED BY <1>2, <1>3, <1>4, <1>5, <1>6, <1>7 DEF Next

\* The inductive invariant of the handlers and the bid cache holds throughout.
THEOREM IndInvHolds == Spec => []IndInv
BY InitEstablishes, NextPreserves, PTL DEF Spec

\* The handlers and the bid cache are type correct.
THEOREM TypeCorrect == Spec => []TypeOK
<1>1. IndInv => TypeOK
  BY DEF IndInv
<1> QED BY <1>1, IndInvHolds, PTL

\* Every header that getHeader answers with can be unblinded by getPayload.
THEOREM HeadersStayBacked == Spec => []HeadersAreBacked
<1>1. IndInv => HeadersAreBacked
  BY DEF IndInv, CacheOK, GoodBids, Deliverable, HeadersAreBacked, Backed
<1> QED BY <1>1, IndInvHolds, PTL

\* UpdateTopBid finds a value and the bid that belongs to its builder, because
\* SaveLatestBuilderBid writes the bid first and the value last.
THEOREM LookupsSucceed == Spec => []TopBidLookupsSucceed
<1>1. IndInv => TopBidLookupsSucceed
  <2> SUFFICES ASSUME IndInv, NEW s \in Submissions
               PROVE  /\ pc[s] = "readValues" => \E b \in Builders : latestValue[b] > 0
                      /\ pc[s] = "readBid" => latestBid[top[s]] # NoBid
    BY DEF TopBidLookupsSucceed
  <2>1. HandlerOK(s)
    BY DEF IndInv
  <2> QED BY <2>1, OfferTypes DEF HandlerOK
<1> QED BY <1>1, IndInvHolds, PTL

\* No bid reaches the proposer that is neither valid nor covered by collateral.
THEOREM ServedStayVetted == Spec => []ServedBidsAreVetted
<1>1. IndInv => ServedBidsAreVetted
  BY DEF IndInv, CacheOK, GoodBids, VettedOffers, ServedBidsAreVetted
<1> QED BY <1>1, IndInvHolds, PTL

-----------------------------------------------------------------------------
(* The latest entries of a builder whose requests are saved in turn *)

Early == {"saveTrace", "savePayload", "saveBid"}

\* At most one request of builder b is being saved.  Until it writes the time it is
\* not older than the latest one; from the bid on, the entries become its own.
\* Otherwise they are those of one request, and no written request is newer.
Turn(b) ==
    /\ \A s, t \in SavingFor(b) : s = t
    /\ \A s \in SavingFor(b) :
           /\ pc[s] # "saveValue" => receivedAt[s] >= latestTime[b]
           /\ pc[s] \notin Early => latestBid[b] = offer[s]
           /\ pc[s] = "saveValue" => receivedAt[s] = latestTime[b]
    /\ (\A s \in SavingFor(b) : pc[s] \in Early) /\ latestBid[b] # NoBid =>
           /\ latestValue[b] = latestBid[b].value
           /\ \E t \in Submissions :
                  /\ pc[t] # "idle"
                  /\ latestBid[b] = offer[t] /\ latestTime[b] = receivedAt[t]
    /\ \A s \in Submissions :
           Written(s) /\ offer[s].builder = b => receivedAt[s] <= latestTime[b]

\* LatestIsNewestUnlessRaced is not inductive: it says nothing of a builder while one
\* of its requests is being saved.
InTurn == faults = 0 => \A b \in Builders \ raced : Turn(b)

LEMMA InitInTurn == Init => InTurn
BY DEF Init, InTurn, Turn, SavingFor, SavingSteps, Written

\* A step that leaves the entries of b alone and starts or ends no save for b keeps
\* its requests in turn.
LEMMA Aside ==
    ASSUME NEW b \in Builders, Turn(b),
           latestBid'[b] = latestBid[b], latestTime'[b] = latestTime[b],
           latestValue'[b] = latestValue[b],
           \A t \in Submissions :
               /\ pc[t] # "idle" => /\ pc'[t] # "idle"
                                    /\ offer'[t] = offer[t] /\ receivedAt'[t] = receivedAt[t]
               /\ t \in SavingFor(b)' => t \in SavingFor(b)
               /\ t \in SavingFor(b) =>
                      \/ pc'[t] = pc[t]
                      \/ pc[t] \in Early /\ pc'[t] \in Early
               /\ Written(t)' => pc[t] # "idle" /\ (Written(t) \/ offer[t].builder # b)
    PROVE  Turn(b)'
<1>1. \A t \in SavingFor(b) : t \in SavingFor(b)'
  BY DEF SavingFor, SavingSteps, Early
<1>2. SavingFor(b)' = SavingFor(b) /\ SavingFor(b) \subseteq Submissions
  BY <1>1 DEF SavingFor
<1>3. \A t \in SavingFor(b) : /\ pc[t] # "idle"
                              /\ offer'[t] = offer[t] /\ receivedAt'[t] = receivedAt[t]
                              /\ pc'[t] \in Early <=> pc[t] \in Early
                              /\ pc'[t] = "saveValue" <=> pc[t] = "saveValue"
  BY <1>2 DEF SavingFor, SavingSteps, Early
<1>4. \A s, t \in SavingFor(b)' : s = t
  BY <1>2 DEF Turn
<1>5. \A s \in SavingFor(b)' :
          /\ pc'[s] # "saveValue" => receivedAt'[s] >= latestTime'[b]
          /\ pc'[s] \notin Early => latestBid'[b] = offer'[s]
          /\ pc'[s] = "saveValue" => receivedAt'[s] = latestTime'[b]
  BY <1>2, <1>3 DEF Turn
<1>6. (\A s \in SavingFor(b)' : pc'[s] \in Early) /\ latestBid'[b] # NoBid =>
          /\ latestValue'[b] = latestBid'[b].value
          /\ \E t \in Submissions :
                 /\ pc'[t] # "idle"
                 /\ latestBid'[b] = offer'[t] /\ latestTime'[b] = receivedAt'[t]
  BY <1>2, <1>3 DEF Turn
<1>7. \A s \in Submissions :
          Written(s)' /\ offer'[s].builder = b => receivedAt'[s] <= latestTime'[b]
  BY DEF Turn
<1> QED BY <1>4, <1>5, <1>6, <1>7 DEF Turn, Early

LEMMA TurnKept ==
    ASSUME IndInv, InTurn, [Next]_vars, faults' = 0, NEW b \in Builders \ raced'
    PROVE  Turn(b)'
<1>1. TypeOK
  BY DEF IndInv
<1>2. faults = 0 /\ b \notin raced
  <2>1. CASE UNCHANGED vars
    BY <2>1 DEF vars, records
  <2>2. CASE GetHeader \/ GetPayload \/ GetPayloadOfEarlierSlot \/ NewHead \/ Tick
    BY <2>2 DEF GetHeader, GetPayload, GetPayloadOfEarlierSlot, NewHead, Tick, records
  <2>3. ASSUME NEW s \in Submissions,
               \/ Receive(s) \/ CheckDelivered(s) \/ CheckHead(s) \/ Simulate(s)
               \/ CheckLatest(s) \/ ReadValues(s) \/ ReadBid(s) \/ SaveSubmission(s)
        PROVE  faults = 0 /\ b \notin raced
    BY <1>1, <2>3 DEF Receive, CheckDelivered, CheckHead, Simulate, CheckLatest, PassLatest,
           ReadValues, ReadBid, SaveSubmission, Fault, records, TypeOK
  <2>4. ASSUME NEW s \in Submissions,
               \/ SaveBidTrace(s) \/ SaveExecutionPayload(s) \/ SaveLatestBid(s)
               \/ SaveLatestTime(s) \/ SaveLatestValue(s) \/ SetTopBid(s)
        PROVE  faults = 0 /\ b \notin raced
    BY <1>1, <2>4 DEF SaveBidTrace, SaveExecutionPayload, SaveLatestBid, SaveLatestTime,
           SaveLatestValue, SetTopBid, AfterWrite, Fault, records, TypeOK
  <2> QED BY <2>1, <2>2, <2>3, <2>4
          DEF Next, SubmitNewBlock, SaveLatestBuilderBid, UpdateTopBid
<1>3. Turn(b) /\ b \in Builders
  BY <1>2 DEF InTurn
<1>4. CASE \/ GetHeader \/ GetPayload \/ GetPayloadOfEarlierSlot \/ NewHead \/ Tick
           \/ UNCHANGED vars
  <2>1. UNCHANGED <<pc, offer, receivedAt, outcome, latestBid, latestTime, latestValue>>
    BY <1>4 DEF GetHeader, GetPayload, GetPayloadOfEarlierSlot, NewHead, Tick, vars, request, redis
  <2> QED BY <1>3, <2>1 DEF Turn, SavingFor, Written
<1>5. ASSUME NEW s \in Submissions, SubmitNewBlock(s) PROVE Turn(b)'
  <2> USE DEF Goto, Return, Finish
  <2>1. CASE Receive(s)
    <3>1. UNCHANGED <<latestBid, latestTime, latestValue>>
      BY <2>1 DEF Receive, redis
    <3>2. pc[s] = "idle" /\ pc'[s] = "checkDelivered" /\ UNCHANGED outcome
      BY <1>1, <2>1 DEF Receive, TypeOK
    <3>3. \A t \in Submissions \ {s} :
              pc'[t] = pc[t] /\ offer'[t] = offer[t] /\ receivedAt'[t] = receivedAt[t]
      BY <1>1, <2>1 DEF Receive, TypeOK
    <3>4. s \notin SavingFor(b) /\ s \notin SavingFor(b)' /\ ~Written(s)'
      BY <3>2 DEF SavingFor, SavingSteps, Written
    <3>5. ASSUME NEW t \in Submissions \ {s}
          PROVE  /\ t \in SavingFor(b)' => t \in SavingFor(b)
                 /\ Written(t)' => pc[t] # "idle" /\ Written(t)
      BY <3>2, <3>3, <3>5 DEF SavingFor, SavingSteps, Written
    <3> QED BY <1>3, <3>1, <3>2, <3>3, <3>4, <3>5, Aside
  \* a handler that is neither before nor after the step at a save
  <2>2. ASSUME pc[s] \notin SavingSteps \cup {"idle"}, pc'[s] \notin SavingSteps \cup {"idle"},
               \A t \in Submissions \ {s} : pc'[t] = pc[t] /\ outcome'[t] = outcome[t],
               UNCHANGED <<request, latestBid, latestTime, latestValue>>,
               Written(s)' => Written(s)
        PROVE  Turn(b)'
    <3>1. ASSUME NEW t \in Submissions \ {s}
          PROVE  /\ t \in SavingFor(b)' => t \in SavingFor(b)
                 /\ Written(t)' => pc[t] # "idle" /\ Written(t)
      BY <2>2, <3>1 DEF SavingFor, SavingSteps, Written, request
    <3>2. s \notin SavingFor(b) /\ s \notin SavingFor(b)'
      BY <2>2 DEF SavingFor
    <3> QED BY <1>3, <2>2, <3>1, <3>2, Aside DEF request
  <2>3. CASE CheckDelivered(s) \/ CheckHead(s) \/ Simulate(s)
    <3>1. /\ pc[s] \in {"checkDelivered", "checkHead", "simulate"}
          /\ pc'[s] \in {"checkHead", "simulate", "checkLatest", "saving", "done"}
          /\ pc'[s] \in {"saving", "done"} => outcome'[s] \in {"refused", "ignored"}
          /\ \A t \in Submissions \ {s} : pc'[t] = pc[t] /\ outcome'[t] = outcome[t]
      BY <1>1, <2>3 DEF CheckDelivered, CheckHead, Simulate, TypeOK
    <3>2. UNCHANGED <<request, latestBid, latestTime, latestValue>>
      BY <2>3 DEF CheckDelivered, CheckHead, Simulate, redis
    <3> QED BY <2>2, <3>1, <3>2 DEF SavingSteps, Written
  <2>4. CASE ReadValues(s) \/ ReadBid(s)
    <3>1. /\ pc[s] \in {"readValues", "readBid"}
          /\ pc'[s] \in {"readBid", "setTop"}
          /\ \A t \in Submissions \ {s} : pc'[t] = pc[t] /\ outcome'[t] = outcome[t]
      BY <1>1, <1>2, <2>4 DEF ReadValues, ReadBid, Fault, TypeOK
    <3>2. UNCHANGED <<request, latestBid, latestTime, latestValue>>
      BY <2>4 DEF ReadValues, ReadBid, redis
    <3> QED BY <2>2, <3>1, <3>2 DEF SavingSteps, Written
  <2>5. CASE SetTopBid(s)
    <3>1. /\ pc[s] = "setTop" /\ pc'[s] = "saving"
          /\ \A t \in Submissions \ {s} : pc'[t] = pc[t] /\ outcome'[t] = outcome[t]
      BY <1>1, <2>5 DEF SetTopBid, TypeOK
    <3>2. UNCHANGED <<request, latestBid, latestTime, latestValue>>
      BY <2>5 DEF SetTopBid
    <3> QED BY <2>2, <3>1, <3>2 DEF SavingSteps, Written
  <2>6. CASE SaveSubmission(s)
    <3>1. /\ pc[s] = "saving" /\ pc'[s] = "done" /\ UNCHANGED outcome
          /\ \A t \in Submissions \ {s} : pc'[t] = pc[t] /\ outcome'[t] = outcome[t]
      BY <1>1, <2>6 DEF SaveSubmission, TypeOK
    <3>2. UNCHANGED <<request, latestBid, latestTime, latestValue>>
      BY <2>6 DEF SaveSubmission, redis
    <3> QED BY <2>2, <3>1, <3>2 DEF SavingSteps, Written
  <2>7. CASE CheckLatest(s)
    <3>1. /\ pc[s] = "checkLatest"
          /\ UNCHANGED <<request, latestBid, latestTime, latestValue>>
          /\ \A t \in Submissions \ {s} : pc'[t] = pc[t] /\ outcome'[t] = outcome[t]
      BY <1>1, <2>7 DEF CheckLatest, PassLatest, redis, TypeOK
    <3>2. CASE pc'[s] # "saveTrace"
      <4>1. pc'[s] = "saving" /\ outcome'[s] = "refused"
        BY <1>1, <2>7, <3>2 DEF CheckLatest, PassLatest, TypeOK
      <4> QED BY <2>2, <3>1, <4>1 DEF SavingSteps, Written
    <3>3. CASE pc'[s] = "saveTrace"
      <4>1. /\ receivedAt[s] >= latestTime[offer[s].builder]
            /\ SavingFor(offer[s].builder) = {} \/ offer[s].builder \in raced'
        BY <1>1, <1>2, <2>7, <3>3 DEF CheckLatest, PassLatest, Fault, TypeOK
      <4>2. ASSUME NEW t \in Submissions \ {s}
            PROVE  /\ t \in SavingFor(b)' <=> t \in SavingFor(b)
                   /\ Written(t)' <=> Written(t)
        BY <3>1, <4>2 DEF SavingFor, Written, request
      <4>3. s \notin SavingFor(b) /\ ~Written(s)'
        BY <3>1, <3>3 DEF SavingFor, SavingSteps, Written
      <4>4. CASE offer[s].builder # b
        <5>1. s \notin SavingFor(b)'
          BY <3>1, <4>4 DEF SavingFor, request
        <5>2. \A t \in Submissions : Written(t) => pc[t] # "idle"
          BY DEF Written
        <5> QED BY <1>3, <3>1, <3>3, <4>2, <4>3, <5>1, <5>2, Aside DEF request
      <4>5. CASE offer[s].builder = b
        <5>1. SavingFor(b) = {} /\ SavingFor(b)' = {s}
          BY <3>1, <3>3, <4>1, <4>2, <4>5 DEF SavingFor, SavingSteps, request
        <5>2. pc'[s] \in Early
          BY <3>3 DEF Early
        <5>3. \A t \in Submissions : pc[t] # "idle" => pc'[t] # "idle"
          BY <3>1, <3>3
        <5>4. \A t \in Submissions :
                  Written(t)' /\ offer'[t].builder = b => receivedAt'[t] <= latestTime'[b]
          BY <1>3, <3>1, <4>2, <4>3 DEF Turn, request
        <5>5. latestBid'[b] # NoBid =>
                  /\ latestValue'[b] = latestBid'[b].value
                  /\ \E t \in Submissions :
                         /\ pc'[t] # "idle"
                         /\ latestBid'[b] = offer'[t] /\ latestTime'[b] = receivedAt'[t]
          BY <1>3, <3>1, <5>1, <5>3 DEF Turn, request
        <5>6. /\ pc'[s] # "saveValue" => receivedAt'[s] >= latestTime'[b]
              /\ pc'[s] \notin Early => latestBid'[b] = offer'[s]
              /\ pc'[s] = "saveValue" => receivedAt'[s] = latestTime'[b]
          BY <3>1, <3>3, <4>1, <4>5, <5>2 DEF request
        <5> QED BY <5>1, <5>4, <5>5, <5>6 DEF Turn, Early
      <4> QED BY <4>4, <4>5
    <3> QED BY <3>2, <3>3
  \* a write that succeeds moves only its handler, which is that of the builder's turn
  <2>8. ASSUME NEW step \in Steps, NEW reply, AfterWrite(s, reply, step)
        PROVE  /\ reply = "ok" /\ pc'[s] = step /\ UNCHANGED outcome
               /\ \A t \in Submissions \ {s} : pc'[t] = pc[t]
    BY <1>1, <1>2, <2>8 DEF AfterWrite, Fault, TypeOK
  <2>9. ASSUME NEW step \in {"savePayload", "saveBid", "saveTime", "saveValue", "readValues"},
               pc[s] \in SavingSteps, pc'[s] = step, UNCHANGED <<request, outcome>>,
               \A t \in Submissions \ {s} : pc'[t] = pc[t]
        PROVE  /\ \A t \in Submissions \ {s} : /\ t \in SavingFor(b)' <=> t \in SavingFor(b)
                                               /\ Written(t)' <=> Written(t)
               /\ \A t \in Submissions : pc'[t] # "idle" <=> pc[t] # "idle"
               /\ \A t \in Submissions : Written(t) => pc[t] # "idle"
               /\ offer[s].builder = b => SavingFor(b) = {s}
               /\ offer[s].builder = b /\ step # "readValues" => SavingFor(b)' = {s}
               /\ offer[s].builder = b /\ step = "readValues" => SavingFor(b)' = {}
               /\ offer[s].builder # b => s \notin SavingFor(b) /\ s \notin SavingFor(b)'
               /\ step # "readValues" => ~Written(s)'
    <3>1. \A t \in Submissions \ {s} : /\ t \in SavingFor(b)' <=> t \in SavingFor(b)
                                       /\ Written(t)' <=> Written(t)
      BY <2>9 DEF SavingFor, Written, request
    <3>2. /\ \A t \in Submissions : pc'[t] # "idle" <=> pc[t] # "idle"
          /\ \A t \in Submissions : Written(t) => pc[t] # "idle"
          /\ step # "readValues" => ~Written(s)'
      BY <2>9 DEF SavingSteps, Written
    <3>3. /\ s \in SavingFor(b) <=> offer[s].builder = b
          /\ s \in SavingFor(b)' <=> offer[s].builder = b /\ step # "readValues"
      BY <2>9 DEF SavingFor, SavingSteps, request
    <3>4. offer[s].builder = b => SavingFor(b) = {s}
      BY <1>3, <3>3 DEF Turn
    <3>5. SavingFor(b)' \subseteq Submissions /\ SavingFor(b) \subseteq Submissions
      BY DEF SavingFor
    <3> QED BY <3>1, <3>2, <3>3, <3>4, <3>5
  \* nothing happens to the entries of another builder
  <2>10. ASSUME NEW step \in {"savePayload", "saveBid", "saveTime", "saveValue", "readValues"},
                pc[s] \in SavingSteps, pc'[s] = step, UNCHANGED <<request, outcome>>,
                \A t \in Submissions \ {s} : pc'[t] = pc[t],
                latestBid'[b] = latestBid[b], latestTime'[b] = latestTime[b],
                latestValue'[b] = latestValue[b],
                offer[s].builder # b \/ (pc[s] \in Early /\ step \in Early)
         PROVE  Turn(b)'
    <3>1. ASSUME NEW t \in Submissions
          PROVE  /\ pc[t] # "idle" => /\ pc'[t] # "idle"
                                      /\ offer'[t] = offer[t] /\ receivedAt'[t] = receivedAt[t]
                 /\ t \in SavingFor(b)' => t \in SavingFor(b)
                 /\ t \in SavingFor(b) =>
                        \/ pc'[t] = pc[t]
                        \/ pc[t] \in Early /\ pc'[t] \in Early
                 /\ Written(t)' => pc[t] # "idle" /\ (Written(t) \/ offer[t].builder # b)
      BY <2>9, <2>10, <3>1 DEF request, Early, SavingSteps
    <3> QED BY <1>3, <2>10, <3>1, Aside
  <2>11. CASE SaveBidTrace(s) \/ SaveExecutionPayload(s)
    <3>1. /\ pc[s] \in Early \cap SavingSteps
          /\ UNCHANGED <<request, latestBid, latestTime, latestValue>>
          /\ \E reply \in Replies, step \in {"savePayload", "saveBid"} : AfterWrite(s, reply, step)
      BY <2>11 DEF SaveBidTrace, SaveExecutionPayload, Early, SavingSteps
    <3>2. PICK step \in {"savePayload", "saveBid"} :
              pc'[s] = step /\ UNCHANGED outcome /\ \A t \in Submissions \ {s} : pc'[t] = pc[t]
      BY <2>8, <3>1 DEF Steps
    <3> QED BY <2>10, <3>1, <3>2 DEF Early
  <2>12. CASE SaveLatestBid(s)
    <3>1. /\ pc[s] = "saveBid" /\ UNCHANGED <<request, latestTime, latestValue>>
          /\ \E reply \in Replies :
                 /\ latestBid' = IF Applied(reply)
                                 THEN [latestBid EXCEPT ![offer[s].builder] = offer[s]]
                                 ELSE latestBid
                 /\ AfterWrite(s, reply, "saveTime")
      BY <2>12 DEF SaveLatestBid
    <3>2. /\ pc'[s] = "saveTime" /\ UNCHANGED outcome
          /\ \A t \in Submissions \ {s} : pc'[t] = pc[t]
          /\ latestBid' = [latestBid EXCEPT ![offer[s].builder] = offer[s]]
      BY <2>8, <3>1 DEF Steps, Applied
    <3>3. CASE offer[s].builder # b
      BY <1>1, <2>10, <3>1, <3>2, <3>3 DEF SavingSteps, TypeOK
    <3>4. CASE offer[s].builder = b
      <4>1. latestBid'[b] = offer[s]
        BY <1>1, <3>2, <3>4 DEF TypeOK
      <4>2. /\ SavingFor(b) = {s} /\ SavingFor(b)' = {s}
            /\ \A t \in Submissions : Written(t)' => Written(t)
        BY <2>9, <3>1, <3>2, <3>4 DEF SavingSteps
      <4>3. receivedAt[s] >= latestTime[b]
        BY <1>3, <3>1, <4>2 DEF Turn
      <4>4. \A t \in Submissions :
                Written(t)' /\ offer'[t].builder = b => receivedAt'[t] <= latestTime'[b]
        BY <1>3, <3>1, <4>2 DEF Turn, request
      <4> QED BY <3>1, <3>2, <4>1, <4>2, <4>3, <4>4 DEF Turn, Early, request
    <3> QED BY <3>3, <3>4
  <2>13. CASE SaveLatestTime(s)
    <3>1. /\ pc[s] = "saveTime" /\ UNCHANGED <<request, latestBid, latestValue>>
          /\ \E reply \in Replies :
                 /\ latestTime' = IF Applied(reply)
                                  THEN [latestTime EXCEPT ![offer[s].builder] = receivedAt[s]]
                                  ELSE latestTime
                 /\ AfterWrite(s, reply, "saveValue")
      BY <2>13 DEF SaveLatestTime
    <3>2. /\ pc'[s] = "saveValue" /\ UNCHANGED outcome
          /\ \A t \in Submissions \ {s} : pc'[t] = pc[t]
          /\ latestTime' = [latestTime EXCEPT ![offer[s].builder] = receivedAt[s]]
      BY <2>8, <3>1 DEF Steps, Applied
    <3>3. CASE offer[s].builder # b
      BY <1>1, <2>10, <3>1, <3>2, <3>3 DEF SavingSteps, TypeOK
    <3>4. CASE offer[s].builder = b
      <4>1. latestTime'[b] = receivedAt[s]
        BY <1>1, <3>2, <3>4 DEF TypeOK
      <4>2. /\ SavingFor(b) = {s} /\ SavingFor(b)' = {s}
            /\ \A t \in Submissions : Written(t)' => Written(t)
        BY <2>9, <3>1, <3>2, <3>4 DEF SavingSteps
      <4>3. receivedAt[s] >= latestTime[b] /\ latestBid[b] = offer[s]
        BY <1>3, <3>1, <4>2 DEF Turn, Early
      <4>4. ASSUME NEW t \in Submissions, Written(t)', offer'[t].builder = b
            PROVE  receivedAt'[t] <= latestTime'[b]
        <5>1. receivedAt[t] <= latestTime[b]
          BY <1>3, <3>1, <4>2, <4>4 DEF Turn, request
        <5> QED BY <1>1, <1>3, <3>1, <4>1, <4>3, <5>1 DEF TypeOK, request
      <4> QED BY <3>1, <3>2, <4>1, <4>2, <4>3, <4>4 DEF Turn, Early, request
    <3> QED BY <3>3, <3>4
  <2>14. CASE SaveLatestValue(s)
    <3>1. /\ pc[s] = "saveValue" /\ UNCHANGED <<request, latestBid, latestTime>>
          /\ \E reply \in Replies :
                 /\ latestValue' = IF Applied(reply)
                                   THEN [latestValue EXCEPT ![offer[s].builder] = offer[s].value]
                                   ELSE latestValue
                 /\ AfterWrite(s, reply, "readValues")
      BY <2>14 DEF SaveLatestValue
    <3>2. /\ pc'[s] = "readValues" /\ UNCHANGED outcome
          /\ \A t \in Submissions \ {s} : pc'[t] = pc[t]
          /\ latestValue' = [latestValue EXCEPT ![offer[s].builder] = offer[s].value]
      BY <2>8, <3>1 DEF Steps, Applied
    <3>3. CASE offer[s].builder # b
      BY <1>1, <2>10, <3>1, <3>2, <3>3 DEF SavingSteps, TypeOK
    <3>4. CASE offer[s].builder = b
      <4>1. latestValue'[b] = offer[s].value
        BY <1>1, <3>2, <3>4 DEF TypeOK
      <4>2. /\ SavingFor(b) = {s} /\ SavingFor(b)' = {}
            /\ \A t \in Submissions \ {s} : Written(t)' => Written(t)
        BY <2>9, <3>1, <3>2, <3>4 DEF SavingSteps
      <4>3. receivedAt[s] = latestTime[b] /\ latestBid[b] = offer[s]
        BY <1>3, <3>1, <4>2 DEF Turn, Early
      <4>4. ASSUME NEW t \in Submissions, Written(t)', offer'[t].builder = b
            PROVE  receivedAt'[t] <= latestTime'[b]
        <5>1. CASE t = s
          BY <1>1, <3>1, <4>3, <5>1 DEF TypeOK, request
        <5>2. CASE t # s
          BY <1>3, <3>1, <4>2, <4>4, <5>2 DEF Turn, request
        <5> QED BY <5>1, <5>2
      <4>5. pc'[s] # "idle" /\ latestBid'[b] = offer'[s] /\ latestTime'[b] = receivedAt'[s]
        BY <3>1, <3>2, <4>3 DEF request
      <4>6. latestValue'[b] = latestBid'[b].value
        BY <3>1, <4>1, <4>3
      <4> QED BY <4>2, <4>4, <4>5, <4>6 DEF Turn
    <3> QED BY <3>3, <3>4
  <2> QED
    BY <1>5, <2>1, <2>3, <2>4, <2>5, <2>6, <2>7, <2>11, <2>12, <2>13, <2>14
       DEF SubmitNewBlock, SaveLatestBuilderBid, UpdateTopBid
<1> QED BY <1>4, <1>5 DEF Next

\* The check of the latest time at service.go:1399 keeps the three entries of a
\* builder together and the newest in force, unless two of its requests are past it at
\* the same time.
THEOREM LatestStaysNewest == Spec => []LatestIsNewestUnlessRaced
<1>1. IndInv /\ InTurn /\ [Next]_vars => InTurn'
  BY TurnKept DEF InTurn
<1>2. InTurn => LatestIsNewestUnlessRaced
  BY DEF InTurn, Turn, LatestIsNewestUnlessRaced
<1> QED BY <1>1, <1>2, InitInTurn, IndInvHolds, PTL DEF Spec

-----------------------------------------------------------------------------
LEMMA PromiseInit == Init => P!Init
BY DEF Init, P!Init, Deliverable

\* What a write that only grows the cache means to the proposer: at most one
\* more block can be delivered.
LEMMA StoreOrStutter ==
    ASSUME TypeOK, NEW x \in Blocks,
           Deliverable' \in {Deliverable, Deliverable \cup {x}},
           UNCHANGED <<topBid, served>>
    PROVE  [P!Next]_(P!vars)
BY DEF P!Next, P!Store, P!vars

LEMMA PromiseStep == IndInv /\ [Next]_vars => [P!Next]_(P!vars)
<1> SUFFICES ASSUME IndInv, [Next]_vars PROVE [P!Next]_(P!vars)
  OBVIOUS
<1>1. TypeOK /\ CacheOK
  BY DEF IndInv
<1>2. ASSUME UNCHANGED <<redis, served>> PROVE [P!Next]_(P!vars)
  BY <1>2 DEF redis, P!vars, Deliverable
<1>3. ASSUME NEW s \in Submissions, SaveBidTrace(s) PROVE [P!Next]_(P!vars)
  <2>1. offer[s].block \in Blocks /\ offer[s] # NoBid
    BY <1>3, OwnOffer DEF SaveBidTrace, Vetting
  <2>2. Deliverable' \in {Deliverable, Deliverable \cup {offer[s].block}}
    BY <1>1, <1>3, <2>1 DEF SaveBidTrace, Deliverable, TypeOK
  <2> QED BY <1>1, <1>3, <2>1, <2>2, StoreOrStutter DEF SaveBidTrace, environment
<1>4. ASSUME NEW s \in Submissions, SaveExecutionPayload(s) PROVE [P!Next]_(P!vars)
  <2>1. offer[s].block \in Blocks
    BY <1>4, OwnOffer DEF SaveExecutionPayload, Vetting
  <2>2. Deliverable' \in {Deliverable, Deliverable \cup {offer[s].block}}
    BY <1>4, <2>1 DEF SaveExecutionPayload, Deliverable
  <2> QED BY <1>1, <1>4, <2>1, <2>2, StoreOrStutter DEF SaveExecutionPayload, environment
<1>5. ASSUME NEW s \in Submissions,
             SaveLatestBid(s) \/ SaveLatestTime(s) \/ SaveLatestValue(s)
      PROVE  [P!Next]_(P!vars)
  BY <1>5 DEF SaveLatestBid, SaveLatestTime, SaveLatestValue, P!vars, Deliverable, environment
<1>6. ASSUME NEW s \in Submissions, SetTopBid(s) PROVE [P!Next]_(P!vars)
  <2>1. bidRead[s] \in GoodBids
    BY <1>6 DEF IndInv, HandlerOK, SetTopBid
  <2>2. /\ topBid' \in {topBid, bidRead[s]}
        /\ UNCHANGED <<bidTrace, payload, served>>
    BY <1>6 DEF SetTopBid, environment
  <2> QED BY <2>1, <2>2 DEF GoodBids, P!Next, P!Announce, P!vars, Deliverable
<1>7. CASE GetHeader
  BY <1>7 DEF GetHeader, redis, P!Next, P!Promise, Deliverable
<1>8. ASSUME NEW s \in Submissions,
             \/ Receive(s) \/ CheckDelivered(s) \/ CheckHead(s) \/ Simulate(s)
             \/ CheckLatest(s) \/ ReadValues(s) \/ ReadBid(s) \/ SaveSubmission(s)
      PROVE  UNCHANGED <<redis, served>>
  BY <1>8 DEF Receive, CheckDelivered, CheckHead, Simulate, CheckLatest, ReadValues,
              ReadBid, SaveSubmission, environment
<1>9. CASE GetPayload \/ GetPayloadOfEarlierSlot \/ NewHead \/ Tick \/ UNCHANGED vars
  BY <1>2, <1>9 DEF GetPayload, GetPayloadOfEarlierSlot, NewHead, Tick, vars, environment
<1>10. ASSUME NEW s \in Submissions, SubmitNewBlock(s) PROVE [P!Next]_(P!vars)
  BY <1>10, <1>2, <1>3, <1>4, <1>5, <1>6, <1>8
     DEF SubmitNewBlock, SaveLatestBuilderBid, UpdateTopBid
<1> QED BY <1>7, <1>9, <1>10 DEF Next

\* The handlers implement the promise made to the proposer.
THEOREM PromiseKept == Spec => KeepsPromise
<1>1. Spec => []IndInv
  BY IndInvHolds
<1> QED BY <1>1, PromiseInit, PromiseStep, PTL DEF Spec, KeepsPromise, P!Spec

=============================================================================
