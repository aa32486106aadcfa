# turbo-relay: TLA+ models, model checks and proofs

This directory holds a verification development of the relay in `src/`: TLA+
modules for its core components, TLC configurations that check them on small
instances, and TLAPS proofs of the most important invariants for every value of
the constants. `PROJECT.json` maps every definition to the lines it models and
lists runs, mutants, hazards, findings and theorems.

## 1. The system

turbo-relay is an MEV-Boost relay with *optimistic* block processing. Builders
submit blocks for the next slot; the relay keeps the best bid of the slot in
Redis; the proposer asks for the header of the best bid (`getHeader`), signs it
and gets the block behind it (`getPayload`). An optimistic relay accepts a block
of a builder with enough collateral before it was simulated, simulates it in the
background, and demotes the builder if the simulation fails.

| Component | State | Operations | Hard behaviour |
|---|---|---|---|
| Block submission and auction (`services/api/service.go`, `datastore/redis.go`) | per slot, in Redis: payloads, bid traces, latest bid / time / value of each builder, top bid | `handleSubmitNewBlock`, `SaveLatestBuilderBid`, `UpdateTopBid`, `handleGetHeader` | handlers interleave at every Redis command; commands fail half-way |
| Optimistic processing (`service.go`, `database.go`) | `optimisticBlocks` (WaitGroup), `optimisticSlot`, `blockBuildersCache`, the builder and demotion tables | `processOptimisticBlock`, `demoteBuilder`, `updateOptimisticSlot`, goroutine of `handleGetPayload`, internal builder API | no locks; a WaitGroup whose Add races with Wait; contexts cancelled early; stale cache |
| Simulation rate limiter (`blocksim_ratelimiter.go`) | counter, condition variable | `send` | lost wakeups, overtaking, limit |
| Expected prev_randao (`service.go`) | `expectedPrevRandao`, `expectedPrevRandaoUpdating` | `updatedExpectedRandao` | answers out of order, failed queries |
| Head tracking and proposer duties (`service.go`, `housekeeper.go`, `redis.go`) | `headSlot`, `isUpdatingProposerDuties`, `proposerDutiesSlot`, the duties in Redis and in the API | `processNewSlot`, both `updateProposerDuties`, `StartServer`, `Housekeeper.Start` | a goroutine per head behind a flag, unsigned subtraction, restarts, failing calls |
| Validator registration (`service.go`, `datastore.go`, `database.go`, `redis.go`, `housekeeper.go`) | `activeValidatorC`, `validatorRegC`, the registration table, timestamps and active validators in Redis | `handleRegisterValidator`, the channel processors, `SaveValidatorRegistration`, `SetValidatorRegistrationTimestampIfNewer`, `updateValidatorRegistrationsInRedis` | bounded channels, two stores written one after the other, several processors, restarts |
| Multi beacon client (`multi_beacon_client.go`) | `bestBeaconIndex` | the calls over several nodes, `BestSyncStatus` | concurrent callers permute the node list |
| Payload delivery (`service.go`, `datastore.go`, `redis.go`, `database.go`) | payloads and traces in Redis, the payload table, the delivered statistic, the delivered-payload table, the count of each builder | `handleGetPayload` and its two goroutines, `GetGetPayloadResponse` | fallbacks, retry, expiry, late calls, a nil trace that ends the process |
| Server lifecycle (`service.go`, `cmd/api.go`) | `getPayloadCallsInFlight` (WaitGroup), the process | `StartServer`, `StopServer` | the end of the process under its goroutines |
| Known validators (`housekeeper.go`, `datastore.go`, `redis.go`) | `proposersAlreadySaved`, known validators in Redis and in the memory of the API | `Housekeeper.Start`, `updateKnownValidators`, `RefreshKnownValidators` | unsigned subtraction before the first head, failing writes, periodic copies, restarts |
| Data API (`service.go`, `database.go`) | none of its own | `handleDataProposerPayloadDelivered`, `handleDataBuilderBidsReceived` | pages that are read while rows are added, responses cut short |
| Website (`website.go`) | the rendered pages | `updateHTML`, every ten seconds | five queries at different times |
| Archive tool (`cmd/tool/archive-execution-payloads.go`) | a file | read, write, delete | rows that appear between read and delete, unchecked `Flush` |
| Other tools, migrations, types | none | exports, schema, conversions | none |

Interactions: head events drive `processNewSlot` of the API, which starts
`updatedExpectedRandao`, `updateProposerDuties` and `updateOptimisticSlot`, and
of the housekeeper, which starts its own `updateProposerDuties`. A submission
reads duties, randao and the builder cache, goes through the rate limiter
(synchronously or in the optimistic goroutine) and then writes to Redis.
`getPayload` reads what submissions wrote, and its goroutine waits on the
WaitGroup of the optimistic blocks. The housekeeper, the API, the website and
the tools share only Redis and the database.

What makes each component correct is stated by the properties in section 3.

## 2. Modules

| Module | Models | How state and steps correspond |
|---|---|---|
| `BlockSimRateLimiter` | `send()` | A critical section of `cv.L` is one step. The wait set is a sequence because `sync.Cond` serves tickets in order; between a signal and the moment its goroutine runs again (`Wake`) anything may happen. The JSON-RPC call is one step with every outcome. |
| `AuctionPromise` | abstract specification of an auction | Blocks become deliverable, are announced, then promised. |
| `Auction` | one auction | `pc` of each handler; one step per Redis command; `Replies` and `Applied` say that a failing command either had no effect or lost its reply. The checks before the simulation are three steps that pass or refuse. Refines `AuctionPromise` (`KeepsPromise`). |
| `Optimistic` | optimistic processing | One step between two accesses of shared state: the read of the cache, of a collateral ID and the UPDATE are steps of their own. `sync.WaitGroup` is external: `Released`, `CallWait`, `Add`, `Done` and the panic on reuse. The operator's calls are actions; a status call that has read the collateral ID is in `calls` until it updates. |
| `PrevRandao` | `updatedExpectedRandao` | Goroutines of the same slot at the same place are counted, as they are alike. Its names (`RandaoSpec`, `apiHead`) are its own, so that it can stand beside `ProposerDuties` in one proof module. |
| `ProposerDuties` | both `updateProposerDuties` | `task[service][head]` is the goroutine that was started for a head. Duties are sets of slots. Taking the flag, the fetch, the save and the copy are steps; a restart of either service is an action. |
| `ValidatorRegistration` | registration | The loop of the handler is one step up to the Redis timestamp and one from the decoding to the channel; a processor's save is SELECT, INSERT, read of the timestamp and write of it. `kind` says where a registration fails. |
| `MultiBeaconClient` | the multi client | One step per node that is asked; `BestSyncStatus` collects answers in any order. |
| `KnownValidators` | known validators, composed with `MultiBeaconClient` | EXTENDS the client: one caller is `FetchValidators` of `updateKnownValidators`, the others are the other goroutines, and `BestSyncStatus` is what `Start` begins with. A write to Redis is a step; the refresh of the API is one step (one HGETALL, and both maps replaced under the lock). |
| `PayloadDelivery` | payload delivery and the lifecycle of the server | `stage` of each submission (the writes in their order), `pc` of each call, `job` and `publisher` of its goroutines, `server` for `StopServer` and the process. One step per call of Redis, the database or a beacon node. `load` is chosen in `Init`: what is submitted, what expires, which blocks are asked for, and the bounds. |
| `RelayData` | data API, website, archive tool | A query returns a set of rows; `Top` is ORDER BY with LIMIT, with ties in any order. `reader` is chosen in `Init`: the readers do not influence each other, so one at a time is enough. |
| `MC*` | instances for TLC | Constant values only. |
| `*Proofs` | theorems | Section 5. |

Abstractions that matter:

* **Data.** Blocks, builders, validators and bids are members of small sets;
  values and collateral are small numbers; times are a counter. The fee
  recipient and gas limit of a registration are one value. Wei arithmetic is on
  big integers in the code and does not overflow.
* **Keys per auction.** All keys of an auction contain the slot, so auctions of
  different slots are independent and `Auction` has one. Keys do not expire within
  an auction (45 s against 12 s); `PayloadDelivery`, which has several slots and
  late calls, has expiry: the trace goes first, as it was written first.
* **`load`.** `Auction`, `Optimistic` and `PayloadDelivery` choose in `Init` what
  the environment may do (requests, bounds on time, failures and restarts). A run
  checks all its loads; the proofs are for every load.
* **Arguments of the data API** are the slot, the cursor, the builder and the
  limit; `block_hash`, `block_number` and `proposer_pubkey` are conditions of the
  same form as the builder. The website's numbers of validators are left out.
* **Archive tool.** `--id-from` is 0 and there is one output file.
* **Data race on `blockBuildersCache`.** It is a plain map, written by
  `updateOptimisticSlot` and read without a lock. The Go runtime may stop the
  process on such an access. The model reads and replaces entries atomically.
* **A failing call** of Redis in the auction, a failing write of the payload or the
  trace, and a failing UPDATE or INSERT of optimistic processing may or may not have
  been applied. Elsewhere a failing statement had no effect (autocommit of one
  statement): a lost reply there is the same as success followed by a log entry, or
  by a failure of the next call.
* **Bounds of `Optimistic`.** `winners` are the blocks proposers may ask for. A
  proposer may ask again, once the goroutine of its first call has ended; a block
  that was delivered is not submitted again (the slot is closed). Nothing
  restricts when heads, submissions, deliveries and operator calls arrive.
* **`IsHighPrio`** is written wherever `IsBlacklisted` is, from the same source;
  it is read for a header of the simulation request and, behind a feature flag,
  to turn a builder away as `IsBlacklisted` does. It is left out.

## 3. What the runs check

### Passing runs

**`rate_limiter`** (`RateLimiter.cfg`): four callers, two places.
`AtMostMaxActive`: the limit is kept although a woken caller does not look at the
counter again. `NoIdlePlaceWhileWaiting`: no wakeup is lost. `NoOvertaking`: a
newcomer is admitted at once only if nobody waits. `WaitingCallsReturn`
(liveness). Two places and four callers are the least with which signals overlap
(two leave while two wait).

**`auction`** (`Auction.cfg`): two loads. In the first, three handlers of two
builders, one failing Redis command, any interleaving, one block offered twice;
in the second, two requests of one builder that overlap, at two times.
`HeadersAreBacked`: a header that is served has its payload in Redis.
`TopBidLookupsSucceed`: `UpdateTopBid` finds the bid of the value it chose.
`ServedBidsAreVetted`: only valid bids, or bids covered by *more* collateral than
they are worth. `LatestIsNewestUnlessRaced`: while Redis answers and no request of a
builder is being saved, the bid, the time and the value of the builder are those of
one request, and no request with a later time was written, unless two of its requests
were past the check of the latest time (`service.go:1399`) at the same time; the
history variable `raced` remembers for which builders that happened. Requests may
overtake each other anywhere before the check, so the check has work to do (its mutant
drops it); what happens to a builder in `raced` is under "Further counterexamples".
`KeepsPromise`: refinement of `AuctionPromise`. Handlers are
symmetric. One fault is enough to cut any of the writes of one handler, and three
handlers give two that interleave while a third has left partial state.

**`optimistic`** (`Optimistic.cfg`): four loads. In three, one builder has blocks in
two slots and another shares its collateral: with one head, one operator call (a
status, or a collateral without an ID) and one failing database call; with two heads;
and with one head, deliveries of the first block and one failing call. In the fourth,
two builders submit again and again while a head arrives. Nothing else is assumed
about the order of events. `WaitCoversDemotions`: when a `Wait` of
`updateOptimisticSlot` has returned, the blocks that were in the group when it was
called are dealt with, and those that failed have their demotion in both tables,
although others join the group meanwhile. `CoveredFailureEndsOptimism`: such a
failure reaches the cache, and no handler that reads it afterwards, and before
another goroutine fills it, takes a block of the builder optimistically. Both except
failing database calls and builders in `spared` (see the end of this section): what was not
written, or was taken back, cannot be seen. `FailureDemotesSharers`: a rejected
block costs every builder of its collateral ID the status, while the operator does
not interfere. `RefundMissedOnlyIfOverlooked`: a delivered block that was demoted
lacks its refund only if its goroutine had not called `Add` when that of
`getPayload` called `Wait`. The history variables `covered`, `failuresRead`,
`warned` and `overlooked` remember which blocks a wait was called for, which
failures the latest refill knew, which handlers read the cache after it, and which
blocks a delivery missed. Two slots are needed for a demotion to matter, two
builders for sharing, two heads for a second refill. `HeadsAreProcessed` (liveness): every
head is processed, however builders keep submitting, or the WaitGroup is reused and
panics.

**`prev_randao`** (`PrevRandao.cfg`): queries for the slots of a chain of three
heads and for slot 3 (`FarSlot`), which the chain does not reach; two at a time for a
slot, two failures. A submission starts a query for whatever slot it names, as that
check comes before those of duty and signature (`service.go:1245`).
`ExpectedNeverGoesBack` (action property): answers that arrive out of order do not
take the expected slot back. `HeadRandaoLearned` (liveness): the randao of the slot
after the head is learned, unless requests for slots far ahead come again and
again. The exception is needed: they keep the marker of the slot being updated ahead
of the head, and without it TLC finds a behaviour in which no query for the head is
ever made. One slot beyond the chain stands for all of them, as the code only
compares slots.

**`known_validators`** (`KnownValidators.cfg`): two beacon nodes, the fetch of the
validators and another caller of the client, two validators that enter the beacon
state one after the other, one failing write or restart, integers modulo 16 for
2^64. `FailsOnlyAfterAll`: a call of the client gives up only after it asked every
node, however the index moves meanwhile. `SyncStatusIsBest`: the result does not
depend on the order of the answers. `SavedAreInRedis`: what is skipped as saved is
in Redis. `ApiNeverForgets` (action property): only a restart
takes a validator from the memory of the API. `ValidatorsBecomeKnown` (liveness):
every validator of the state before the head becomes known to the API, although
the loop may begin before the head was processed and then asks for slot
2^64 - 1. Two nodes
are the least that permute; two validators are needed for a loop that is cut
between two writes.

**`registration`** (`Registration.cfg`): two requests that are sent again and
again, with an unsigned, an undecodable and an unknown registration among them;
one processor and the housekeeper's start-up task; channels of capacity one; one
failing call or restart. `OnlySignedAreSaved`, `FilteredAreRegistered`,
`SendersAreRegistered` (liveness). Capacity one makes the channel overflow.

**`proposer_duties`** (`ProposerDuties.cfg`): epochs of 8 slots, intervals of 4
(Redis) and 2 (API), the proportions of the code; more than two epochs; every
proposer registered. `OneUpdateAtATime`: the flag excludes and is never left
behind. `NextSlotIsCovered`: the API knows the proposer of the slot after the
head through any **two** disturbances (a failed call, a missed slot, a head that
overtakes running goroutines, a restart). The bound is tight: with three
disturbances TLC finds a slot that is not covered. The proof (section 5) covers
every size and uses nothing about how heads and intervals are aligned, and there the
condition is that half an epoch, the interval of the API and two slots per disturbance are less
than an epoch: three disturbances for the 32 and 8 slots of the code. The run
goes beyond it, with 8 and 2 slots and two disturbances, because there both
intervals begin at multiples of the interval unless something delays them. Updates whose query for the
*next* epoch failed are excluded (`partial`): such an update counts as done for
half an epoch (`housekeeper.go:252`).

**`payload_delivery`** (`PayloadDelivery.cfg`): four loads. One has three blocks of
two slots and two builders, two calls for blocks of different slots, and no
failures. The others have one block that expires: with two calls for different
blocks, one failing call and one stop or crash with a restart; and with two calls
for this block and either of them.
`StoredPayloadsAreServed`: a payload that is in Redis while the proposer asks is
only refused after two failures, because the handler tries twice and an error of
Redis leads to the database. `NilTraceOnlyAfterExpiry`: the goroutine dereferences
a nil trace (and ends the process) only for a trace that has expired or a payload
that came from the database, never because a submission is half done.
`RecordsAreTrue`: the delivered-payload table lists only what was given to a
proposer, has no empty row unless a lookup failed, and is not ahead of the counts
of the builders.
`StopWaitsForCalls`: the calls that `StopServer` cuts off all began after its wait
was released. `DeliveriesAreRecorded` (liveness): a delivered payload is recorded
and published unless a call fails or the process ends first. Two calls are the
least with which one call can be waited for while another begins.

**`relay_data`** (`RelayData.cfg`): four blocks in three slots, two of them in the
same one, whose order by value is not that by slot; responses of three rows, pages
of two; one failing call; three IDs for the archive tool. `WalkIsComplete`: a
client that goes on from the last slot of each response gets everything that was
there when it began, as long as no slot fills a response (with 200 payloads in a
slot the cursor, `slot <= :cursor`, would not move on). `DeliveredAreListed`: a delivered
block is among the received bids of its slot, also when it was taken
optimistically. `CountCoversTables`: the count on a page is not smaller than
what its three tables list together, although it is read after them and payloads
are delivered meanwhile.

Type invariants, and a few facts that the proofs rest on (`CounterCountsCalls`,
`ExpectedFollowsChain`), are proved (section 5); only the run of
`RelayData` checks `TypeOK` as well. Every property has a mutant in `PROJECT.json`, a plausible bug in the code, under which TLC finds it
violated; the mutants stand before the definitions they change.

`CHECK_DEADLOCK FALSE` is used where the environment may stop (no more heads,
submissions or requests within the bounds, or the process is down).
`rate_limiter` is checked for deadlock.

### Runs that find a violation

* **`auction_top_bid_race`**, `TopBidIsHighest`: `UpdateTopBid` reads the values,
  chooses and writes in separate commands; two handlers write in the opposite
  order and the lower bid stays on top after both have returned.
* **`optimistic_context`**, `OnlyRejectedBlocksDemote`: the optimistic goroutine
  uses the context of the request. When the handler answers before `send()` has
  looked at it, the builder is demoted for a block that was never simulated.
* **`registration_order`**, `LatestRegistrationWins`: two processors save two
  registrations of a validator in the opposite order; the newer one, which
  restores the preferences of the row in the table, is dropped as nothing new,
  its timestamp goes to Redis, and the older one is inserted and stays in force.

### Further counterexamples

Each of these configurations checks one statement that a comment or a test of the
repository makes without a condition, and TLC refutes it. They are run by hand, with
the `MC` module of their component (`tlc -config AuctionEntries.cfg MCAuction`; the last
with `MCValidatorRegistration`), and are not among the runs of `PROJECT.json`. The
passing runs state what is left of the first four
(`LatestIsNewestUnlessRaced`, `WaitCoversDemotions`, `RefundMissedOnlyIfOverlooked`).

* **`AuctionEntries.cfg`**, `LatestEntriesAgree`: bid, time and value of a builder are
  three keys. Two requests of one builder pass the check of the latest time, their
  writes interleave, and when both have returned the value that ranks the builder is
  not that of its bid (`redis.go:64`, `:65`).
* **`AuctionOverwrite.cfg`**, `NewerRequestWins`: both requests pass the check
  (`service.go:1399`) before either has written its time, and the older one is written
  last: an older request overwrites a newer one, which the key of the time is there
  to avoid (`redis.go:66`).
* **`OptimisticSlot.cfg`**, `OptimisticSlotIsSafe`: `optimisticBlocks.Add(1)` runs in the
  goroutine itself (`service.go:467`). A head that arrives between the `go` statement
  and `Add` finds the counter at zero, and the slot moves on while the block is in
  processing, against "Then we can safely update the slot" (`service.go:562`).
* **`OptimisticRefund.cfg`**, `RefundRecorded`: for the same reason the `Wait` of
  `getPayload` ("Wait until optimistic blocks are complete", `service.go:974`) can miss
  the very block that was delivered; no demotion is found, the simulation fails
  later, and the demotion stays without a refund.
* **`PayloadDeliveryReopened.cfg`**, `DeliveredSlotsStayClosed`: the goroutines of two
  `getPayload` calls write `slot-last-payload-delivered` (`service.go:950`) in the
  opposite order of their slots, and a submission for the later slot passes the check
  "Reject new submissions once the payload for this slot was delivered"
  (`service.go:1203`).
* **`RelayDataArchive.cfg`**, `DeletedAreArchived`: two IDs are drawn, the row of the second
  is visible first, the tool reads it, the first row becomes visible, and the range
  delete ("deleting archived payloads from DB",
  `archive-execution-payloads.go:116`) removes both. The property asks for a range
  that ends with a row of the table, and for no failing call.
* **`RegistrationTimestamp.cfg`**, `TimestampNeverGoesBack`: the read and the write of
  `SetValidatorRegistrationTimestampIfNewer` (`redis.go:199`) are two commands; a processor
  and the housekeeper's start-up task both read before either writes, and the older
  timestamp replaces the newer one ("should not work", `redis_test.go:61`).

### Behaviours that no document forbids

The models contain them, and the properties are stated around them:

* a failed randao query resets the marker of whichever slot is being updated, so
  that a slot is queried twice (`service.go:1061`);
* `demoteBuilder` writes flags from the cache over a change the operator made in
  the same slot (`service.go:437`);
* an `Add` between the end of a wait and the moment its goroutine wakes up makes
  `sync.WaitGroup` panic ("WaitGroup is reused before previous Wait has returned"),
  which takes the relay down (`service.go:564`). It takes a goroutine that was started
  before the group was empty and calls `Add` after it; `HeadsAreProcessed` has this
  outcome as its alternative;
* a handler decides with a cache entry it read a slot earlier (`service.go:1219`), and
  `optimisticSlot` is advanced (line 565) before the cache is refilled, so that a
  builder that was just demoted is trusted once more; and of two
  `updateOptimisticSlot` goroutines the one that read the builders first may fill the
  cache last. `CoveredFailureEndsOptimism` says what is left;
* `SetBlockBuilderStatus` reads the collateral ID of a builder and then updates the
  rows with this ID (`database.go:489`): when the operator changes the ID of the
  builder that failed in between, its row is not among them and it stays
  optimistic. The history variable `spared` holds such builders, with those the
  operator reinstated;
* `bestBeaconIndex` is a position in the permuted list, so that the node that
  answered last need not be asked first (`multi_beacon_client.go:149`);
* a payload that has expired in Redis is refused although the database has it:
  only an *error* of Redis leads to the database (`datastore.go:119`);
* the database also has blocks whose simulation failed; after an error of Redis
  they can be served, and as they have no bid trace the goroutine that records
  the delivery dereferences nil and ends the process (`service.go:969`);
* an error of Redis in `GetBidTrace` comes with an empty trace, which is saved as
  a delivered payload of slot 0 (`redis.go:313`);
* `StopServer` waits for the handlers, not for their goroutines: a delivery can
  stay unrecorded and unpublished by this relay; and a call that begins when the
  wait was released and has not returned makes its WaitGroup panic
  (`service.go:388`). The main goroutine ends as soon as `Shutdown` has closed the
  listener (`cmd/api.go:171`), so `Shutdown` does not wait for calls either;
* the rows of a query are read without a look at `rows.Err`, so a response that
  was cut short is answered with 200 (`database.go:355`);
* the latest slot on a page of the website is raised to that of the default table
  only; the tables by value are read later and may list a slot after it
  (`website.go:178`, `:198`);
* the error of the last flush of a CSV file of the archive tool is not seen, and the
  rows are deleted (`archive-execution-payloads.go:91`).

## 4. Fairness

| Specification | Weak fairness of | Why the code justifies it |
|---|---|---|
| `BlockSimRateLimiter!FairSpec` | each caller inside `send()` | goroutines are scheduled, the HTTP client of the simulation has a timeout |
| `Optimistic!FairSpec` | goroutines and handlers that began; the chain | as above; database and Redis answer or fail. Nobody has to submit, ask for a payload or call the internal API |
| `PrevRandao!RandaoFairSpec` | queries that began; the chain; submissions | builders submit in every slot, and each submission for an unknown slot starts a query again |
| `PayloadDelivery!FairSpec` | handlers and goroutines that began; the refresh of known validators; `StopServer` once it began | goroutines are scheduled, and Redis, the database and the beacon nodes answer or time out. Nobody has to submit, ask, or stop the relay |
| `KnownValidators!FairSpec` | the loops of the housekeeper and the API; the chain; the restart of the housekeeper. *Strong* fairness of a beacon node's answer | loops with a sleep; an orchestrator restarts the process. A node may fail each time for a while, but not every time it is asked for a state it has or for its sync status: weak fairness would not say so, because the fetch is not enabled all the time |
| `ValidatorRegistration!FairSpec` | handlers, processors, the housekeeper; each validator client | validator clients send their registrations every epoch |

Failures are bounded by `MaxFaults` (or its like) in the guards, so liveness says:
once failures stop.

## 5. Proofs

TLAPS proves the following for every value of the constants, from the named
assumptions in the modules (`ASSUME ...Assumption`), which TLC evaluates in each
run.

* **`BlockSimRateLimiterProofs`**: `LimitIsKept`, `NoWakeupLost`,
  `CounterIsExact`, `NobodyOvertakes`, `TypeCorrect`. The limit alone is not
  inductive: a woken call does not look at the counter again. The invariant
  says that the counter is the number of waiting and active calls, that the
  wait queue holds exactly the parked calls, each once, and that while a call
  is parked all places are taken.
* **`AuctionProofs`**: `TypeCorrect`, `HeadersStayBacked`, `LookupsSucceed`,
  `ServedStayVetted`, `LatestStaysNewest`, `PromiseKept`. The invariant
  `IndInv` says of the cache that what is announced is backed and every value has a
  bid (`CacheOK`), and of each handler what it has written when it is at a given
  place (`HandlerOK`). `LatestStaysNewest` needs `Turn` beside it: at most one request
  of a builder outside `raced` is past the check, it is not older than the latest one
  until it writes its time, and from its first write on the entries become its own.
  `PromiseKept` is the refinement: every step maps to a step of
  `AuctionPromise` or a stutter.
* **`OptimisticProofs`**: `TypeCorrect`, `WaitsCoverDemotions`,
  `CoveredFailuresEndOptimism`, `FailuresAreDemoted`, `RefundsMissedOnlyIfOverlooked`,
  `NoWaitForgotten`, all for any load, with no restriction on the order of events. The invariant
  has layers, each proved with the ones before. `Counted`: the counter of the
  WaitGroup is the number of goroutines between Add and Done (without it not even
  the type of the counter is inductive); hence a wait whose group is empty
  covers only blocks that are dealt with. `CallsCounted`: an operator call in flight
  was counted. `Demoted` follows a rejected block through
  `demoteBuilder`: the collateral ID it read is still that of the builder (`IDKept`)
  and after the UPDATE the row is demoted (`RowDemoted`), or the builder is in
  `spared`; `Recorded` says that its demotion is in the table or about to be written,
  and `SharersDemoted` extends it to the rows of the collateral ID. `Covered` is about the wait:
  once it has returned, the covered blocks have left the group and cannot come back.
  `Known` follows the demotion of a covered block from the database into the snapshot
  of `updateOptimisticSlot` (`InSnapshot`), the cache (`InCache`) and the entries that
  handlers have read since (`InEntry`). `Looked` and `Refunded`: no demotion of a
  delivered block is written after the goroutine of `getPayload` looked for one,
  unless the block was overlooked. `NoWaitForgotten` is the safety half of
  `HeadsAreProcessed`: a goroutine that sleeps in `Wait` has a block between Add and
  Done (`SleepersHaveReason`), so that some `Done` will wake it.
* **`HeadEventsProofs`**, about two of the goroutines `processNewSlot` starts. For
  `PrevRandao`: `ExpectedWithinReach`, `AnswersKeepOrder` (an action property),
  `RandaoTypeCorrect`. For `ProposerDuties`: `UpdatesExclude`, `TypeCorrect`,
  `NextIsCovered`. The extra conjunct `NoneAhead` (no goroutine of a head the service has not processed)
  shows that a head never takes the place of a running goroutine. `TypeCorrect`
  also says that no duties are of a slot after the next epoch; it rests on
  `DutiesOK`, that no service is ahead of the beacon node. `NextIsCovered` proves
  `NextSlotIsCovered` under `FewDisturbances` (half an epoch + the API's interval + 2
  slots per disturbance < an epoch), for all sizes; `ThreeAreFew` is the condition
  at the code's values. Its invariant `AgeInv` accounts for time in disturbances,
  each of which costs at most two slots. `Lag`: how far a service and its
  goroutines are behind the chain. `Renewed`: the interval since the last update is
  not over (`OnTime`), or it is over and an update is under way that no goroutine
  can take the flag from (`Pending`). `RedisAge` and `ApiAge` combine them: the
  duties in Redis are those of two epochs for a head of which the age is known, and
  the API's copy is older by at most one interval of the housekeeper.
* **`ValidatorRegistrationProofs`**: `TypeCorrect`, `OnlySignedSaved`,
  `FilteredRegistered`. `OnTheWay` follows a registration through handler,
  channel and processor; `InTable` says that a worker that goes on to Redis saves
  a validator that has a row, and that a SELECT that found a row still has one.
  The second part is what makes the drop of an unchanged registration harmless.
* **`PayloadDeliveryProofs`**: `TypeCorrect`, `StoredAreServed`, `TraceIsFound`,
  `StopWaits`, `RecordsStayTrue`, `DeliveriesAreRemembered`. `Traced` follows the bid
  trace from the submission (a payload in Redis has its trace, unless that
  expired) to the goroutine; `Served` counts the failures behind each step of a
  call whose payload stays in Redis; `Stopping` says that once the wait is over
  only late calls are in flight. `Records` rests on them: it follows each entry of the table to
  the count of its builder, by the cardinalities of the entries and of the
  goroutines between the two writes. `DeliveriesAreRemembered` is the safety half
  of `DeliveriesAreRecorded`: what is missing of an answered call is what a running
  goroutine is about to do, unless a call failed or the process ended
  (`NoDeliveryForgotten`).
* **`KnownValidatorsProofs`**: `TypeCorrect`, `SavedStayInRedis`, `ApiRemembers`
  (an action property). That the API never forgets rests on two facts of the
  invariant: nothing is removed from Redis, and what the API knows is in Redis.
  For the beacon client, alone (`ClientIsCorrect`) and beside the housekeeper:
  `NoNodeIsSkipped`, `SyncStatusIsOrderFree`. `CallOK` says that the nodes asked so
  far are the first ones of the permuted list; `CollectedOK` relates the best
  status to the answers collected so far.
* **`RelayDataProofs`**: `TypeCorrect`, `WalksAreComplete`, `DeliveredStayListed`,
  `CountsCoverTables`. The invariant has one part for each
  reader, and every step but the reader's own only adds rows and faults
  (`OnlyAdds`). `WalkOK` is the argument for paging: the client has every row after
  its cursor that was there when it began, and none from before the cursor; so a
  page with nothing new is of one slot only, and as no slot fills a page it was
  the last one. `WebOK` says that the tables are among what the later count counts,
  `ToolOK` that IDs are drawn once, one after the other. That rows have an oldest and a newest slot (`MinOfSlots`, `MaxOfSlots`)
  follows from the well-foundedness of the subset order.

Only model-checked: the liveness properties, as fairness and ENABLED are out of the
prover's reach. For five of the six a theorem states the safety fact that their
argument rests on: `NoWakeupLost` and `NobodyOvertakes` for `WaitingCallsReturn`,
`NoWaitForgotten` for `HeadsAreProcessed`, `DeliveriesAreRemembered` for
`DeliveriesAreRecorded`, `FilteredRegistered` for `SendersAreRegistered`, and
`SavedStayInRedis` with `ApiRemembers` for `ValidatorsBecomeKnown`. All other
properties of the passing runs are theorems, `NextSlotIsCovered` under the condition
above. No module declares a RECURSIVE operator.

## 6. Not modelled

* Signature checks, SSZ roots, JSON, SQL syntax, HTTP: a request is good or not,
  a call answers or fails.
* `handleDataValidatorRegistration` reads the latest row of a validator, which is
  `ValidatorRegistration!Latest`; the builder's `handleBuilderGetValidators` reads
  the duties as submissions do.
* The statistics of submissions per builder (`UpsertBlockBuilderEntryAfterSubmission`)
  and the relay configuration in Redis: plain counters and settings that nothing
  decides on.
* Templates of the website, migrations, field-by-field conversions, the other
  tools (exports that only read) and key generation: sequential code without
  shared state.
* The data race on `blockBuildersCache` as a crash of the Go runtime (section 2).
* `Known` is a constant of `ValidatorRegistration`: `KnownValidators` shows that
  the set only grows while the API runs, and a validator that is not known yet is
  turned away like one that never will be.

## 7. Plan

The order was: the auction, optimistic processing and the rate limiter; randao,
duties and registration; then payload delivery with the end of the process, known
validators with the beacon client, and the readers of the database; last the
proofs, of which the coverage of the next slot and optimistic processing without
restrictions on its environment came at the end. What could follow:

1. A sharper condition for `NextSlotIsCovered` that uses the alignment of heads and
   intervals, as the run does: it needs reasoning modulo the intervals.
2. The status flags that `demoteBuilder` writes from an old cache entry
   (`service.go:437`): the model has the behaviour, and a property can be stated
   once the repository says which of the two writers is to win.
3. One specification of a slot that composes `Auction`, `Optimistic` and
   `PayloadDelivery`, beyond what TLC can enumerate but within reach of proofs.
