------------------------------ MODULE RelayData ------------------------------
(***************************************************************************)
(* What the relay shows of its database: the data API                      *)
(* (services/api/service.go), the website (services/website/website.go)    *)
(* and the tool that archives execution payloads (cmd/tool).  They read    *)
(* with several queries while submissions and deliveries add rows, and     *)
(* nothing but the tool removes any.                                       *)
(*                                                                         *)
(* A query returns a set of rows: their order only decides which ones a    *)
(* LIMIT keeps, and rows that are equal in it come in any order.           *)
(***************************************************************************)
EXTENDS Integers, FiniteSets, FiniteSetsExt

CONSTANTS
    Blocks,
    Slot, Value, Builder,   \* block -> its slot, its value, its builder
    NoArg,                  \* an argument that is not given
    MaxLimit,               \* the rows of a response of the data API (200, 500 for bids)
    WebLimit,               \* the rows of a page of the website (30)
    MaxID,                  \* bound: rows of the execution payload table
    MaxFaults,              \* bound: failing calls
    Readers,                \* who reads: some of "website", "client", "bids" and "archive"
    InRedis                 \* reader -> the blocks that are in Redis at the beginning

ASSUME BlocksAssumption ==
    /\ IsFiniteSet(Blocks)
    /\ Slot \in [Blocks -> Nat \ {0}] /\ Value \in [Blocks -> Nat]
    /\ NoArg \notin Nat
    /\ MaxLimit \in Nat \ {0} /\ WebLimit \in Nat \ {0} /\ MaxID \in Nat /\ MaxFaults \in Nat

VARIABLES
    reader,             \* the reader at work: chosen at the beginning, and fixed
    \* the relay
    stage,              \* block -> how far handleSubmitNewBlock is with it
    submissions,        \* builder_block_submission: [block, simSuccess]
    delivered,          \* delivered_payload
    headSlot,           \* the housekeeper's
    statWriters,        \* the slots its goroutines have yet to write
    latestSlot,         \* Redis: latest-slot
    \* the website
    web,                \* updateHTML: the next query, or "idle"
    data,               \* what it has read
    page,               \* the pages that are served
    \* a client that walks through the delivered payloads
    walk,               \* "idle", "walking" or "done"
    cursor,             \* the cursor of its next request
    present,            \* history: the rows when it began
    collected,          \* what it has got
    \* archive-execution-payloads
    tool,
    ids,                \* execution_payload: the IDs in the table
    inserting,          \* IDs that were drawn for rows not in the table yet
    idLast,             \* --id-to, or the last ID before --date-end
    csv,                \* is the output a CSV file?
    entries,            \* the IDs it has read
    archived,           \* those that are in the file
    deleted,            \* history: the IDs it has deleted
    faults

relay == <<stage, submissions, delivered>>
stats == <<headSlot, statWriters, latestSlot>>
website == <<web, data, page>>
client == <<walk, cursor, present, collected>>
archive == <<tool, ids, inserting, idLast, csv, entries, archived, deleted>>
vars == <<reader, relay, stats, website, client, archive, faults>>

NoData == [payloads |-> {}, byValueDesc |-> {}, byValueAsc |-> {}, count |-> 0, head |-> 0]

Init ==
    /\ reader \in Readers
    /\ stage = [b \in Blocks |-> IF b \in InRedis[reader] THEN "stored" ELSE "none"]
    /\ submissions = {} /\ delivered = {}
    /\ headSlot = 0 /\ statWriters = {} /\ latestSlot = 0
    /\ web = "idle" /\ data = NoData /\ page = NoData
    /\ walk = "idle" /\ cursor = NoArg /\ present = {} /\ collected = {}
    /\ tool = "idle" /\ ids = {} /\ inserting = {} /\ idLast = 0 /\ csv = FALSE
    /\ entries = {} /\ archived = {} /\ deleted = {}
    /\ faults = 0

Fault == faults < MaxFaults /\ faults' = faults + 1

-----------------------------------------------------------------------------
(* The relay *)

\* The reader at work decides which part of the relay moves: submissions for a
\* client that asks for bids, heads for the website, execution payloads for the
\* tool.  The others find the blocks in Redis, and only see deliveries.

\* A submission passes its simulation, or is taken optimistically (simErr is nil
\* for both), and is stored in Redis; or the simulation fails.
Submit(b) ==
    /\ reader = "bids" /\ stage[b] = "none"
    /\ \E s \in {"stored", "rejected"} : stage' = [stage EXCEPT ![b] = s]
    /\ UNCHANGED <<reader, submissions, delivered, stats, website, client, archive, faults>>

\* a block that was taken optimistically does not count as simulated
SaveAsUnsimulated(b) ==
    /\ reader = "bids" /\ stage[b] \in {"stored", "rejected"}
    /\ stage' = [stage EXCEPT ![b] = IF stage[b] = "stored" THEN "saved" ELSE "discarded"]
    /\ \E success \in {FALSE, stage[b] = "stored"} :
           submissions' = submissions \cup {[block |-> b, simSuccess |-> success]}
    /\ UNCHANGED <<reader, delivered, stats, website, client, archive, faults>>

\* the deferred SaveBuilderBlockSubmission
SaveBuilderBlockSubmission(b) ==
    /\ reader = "bids" /\ stage[b] \in {"stored", "rejected"}
    /\ stage' = [stage EXCEPT ![b] = IF stage[b] = "stored" THEN "saved" ELSE "discarded"]
    /\ \/ /\ submissions' =
                submissions \cup {[block |-> b, simSuccess |-> stage[b] = "stored"]}
          /\ UNCHANGED faults
       \/ Fault /\ UNCHANGED submissions
    /\ UNCHANGED <<reader, delivered, stats, website, client, archive>>

\* getPayload and its goroutine (module PayloadDelivery), for a stored block
SaveDeliveredPayload(b) ==
    /\ reader # "archive" /\ stage[b] \in {"stored", "saved"} /\ b \notin delivered
    /\ delivered' = delivered \cup {b}
    /\ UNCHANGED <<reader, stage, submissions, stats, website, client, archive, faults>>

\* the head is not moved
ProcessNewSlotAgain(s) ==
    /\ reader = "website" /\ s > headSlot
    /\ statWriters' = statWriters \cup {s}
    /\ UNCHANGED <<reader, relay, headSlot, latestSlot, website, client, archive, faults>>

\* processNewSlot of the housekeeper: a goroutine for each head writes the slot
ProcessNewSlot(s) ==
    /\ reader = "website" /\ s > headSlot
    /\ headSlot' = s
    /\ statWriters' = statWriters \cup {s}
    /\ UNCHANGED <<reader, relay, latestSlot, website, client, archive, faults>>

SetLatestSlot(s) ==
    /\ s \in statWriters
    /\ statWriters' = statWriters \ {s}
    /\ \/ latestSlot' = s /\ UNCHANGED faults
       \/ Fault /\ UNCHANGED latestSlot
    /\ UNCHANGED <<reader, relay, headSlot, website, client, archive>>

-----------------------------------------------------------------------------
(* The queries *)

\* ORDER BY key DESC LIMIT limit
Top(rows, key, limit) ==
    {S \in kSubset(IF Cardinality(rows) < limit THEN Cardinality(rows) ELSE limit, rows) :
        \A r \in S, q \in rows \ S : key[r] >= key[q]}

\* The loop over the rows ends with the first error of the connection, or when
\* the context is over, and does not ask which: the response is cut short.
CutShort(S, key) ==
    {T \in SUBSET S : T # S /\ \A r \in T, q \in S \ T : key[r] >= key[q]}

\* only slots before the cursor
MatchingBeforeCursor(f) ==
    {b \in delivered :
        /\ IF f.slot > 0 THEN Slot[b] = f.slot
           ELSE f.cursor > 0 => Slot[b] < f.cursor
        /\ f.builder # NoArg => Builder[b] = f.builder}

\* the WHERE clause of GetRecentDeliveredPayloads: a zero is no condition
Matching(f) ==
    {b \in delivered :
        /\ IF f.slot > 0 THEN Slot[b] = f.slot
           ELSE f.cursor > 0 => Slot[b] <= f.cursor
        /\ f.builder # NoArg => Builder[b] = f.builder}

Parsed(arg) == IF arg = NoArg THEN 0 ELSE arg

\* handleDataProposerPayloadDelivered, for the order by slot
Filters(args) ==
    [slot |-> Parsed(args.slot), cursor |-> Parsed(args.cursor), builder |-> args.builder]

IsBadRequest(args) ==
    \/ args.slot # NoArg /\ args.cursor # NoArg
    \/ args.limit > MaxLimit

PayloadDelivered(args) ==
    IF IsBadRequest(args) THEN {}
    ELSE Top(Matching(Filters(args)), Slot, args.limit)

\* handleDataBuilderBidsReceived and GetBuilderSubmissions: no limit for a slot;
\* without any condition the request is refused
BuilderBidsReceived(args) ==
    LET rows == {s \in submissions :
                    /\ s.simSuccess
                    /\ Parsed(args.slot) > 0 => Slot[s.block] = args.slot
                    /\ args.builder # NoArg => Builder[s.block] = args.builder}
        refused == args.limit > MaxLimit \/ (Parsed(args.slot) = 0 /\ args.builder = NoArg)
    IN  IF refused THEN {}
        ELSE IF Parsed(args.slot) > 0 THEN {rows}
        ELSE Top(rows, [s \in rows |-> Slot[s.block]], args.limit)

-----------------------------------------------------------------------------
(* A client of the data API that reads page after page *)

BeginWalk ==
    /\ reader = "client" /\ walk = "idle"
    /\ walk' = "walking" /\ cursor' = NoArg
    /\ present' = delivered /\ collected' = {}
    /\ UNCHANGED <<reader, relay, stats, website, archive, faults>>

\* the next page, from the last slot of the page before, until a page has
\* nothing new; a response that was cut short looks like any other
NextPage ==
    /\ walk = "walking"
    /\ \E S \in PayloadDelivered([slot |-> NoArg, cursor |-> cursor, builder |-> NoArg,
                                  limit |-> MaxLimit]) :
       \E T \in {S} \cup CutShort(S, Slot) :
           /\ IF T = S THEN UNCHANGED faults ELSE Fault
           /\ collected' = collected \cup T
           /\ \/ T \subseteq collected /\ walk' = "done" /\ UNCHANGED cursor
              \/ /\ ~(T \subseteq collected)
                 /\ cursor' = Min({Slot[b] : b \in T})
                 /\ UNCHANGED walk
    /\ UNCHANGED <<reader, relay, stats, website, present, archive>>

-----------------------------------------------------------------------------
(* The website: updateHTML, every ten seconds *)

BeginUpdate ==
    /\ reader = "website" /\ web = "idle"
    /\ web' = "payloads" /\ data' = NoData
    /\ UNCHANGED <<reader, relay, stats, page, client, archive, faults>>

\* One of three queries for a table of payloads.  An error is logged and leaves
\* the table empty, which is a response cut short as well.
ReadTable(field, next, key) ==
    /\ web = field /\ web' = next
    /\ \E S \in Top(delivered, key, WebLimit) :
           \/ data' = [data EXCEPT ![field] = S] /\ UNCHANGED faults
           \/ Fault /\ \E T \in CutShort(S, key) : data' = [data EXCEPT ![field] = T]
    /\ UNCHANGED <<reader, relay, stats, page, client, archive>>

ReadPayloads == ReadTable("payloads", "byValueDesc", Slot)
ReadByValueDesc == ReadTable("byValueDesc", "byValueAsc", Value)
ReadByValueAsc == ReadTable("byValueAsc", "count", [b \in Blocks |-> -Value[b]])

\* the payloads of the first table are counted
CountPayloads ==
    /\ web = "count" /\ web' = "head"
    /\ data' = [data EXCEPT !.count = Cardinality(data.payloads)]
    /\ UNCHANGED <<reader, relay, stats, page, client, archive, faults>>

\* GetNumDeliveredPayloads; zero after an error
ReadCount ==
    /\ web = "count" /\ web' = "head"
    /\ \/ data' = [data EXCEPT !.count = Cardinality(delivered)] /\ UNCHANGED faults
       \/ Fault /\ UNCHANGED data
    /\ UNCHANGED <<reader, relay, stats, page, client, archive>>

\* GetStats, zero after an error; a payload of a later slot shows that the slot
\* is older; then the pages are rendered, and swapped under the lock
SwapPages ==
    /\ web = "head" /\ web' = "idle"
    /\ \E latest \in {latestSlot, 0} :
           /\ IF latest = latestSlot THEN UNCHANGED faults ELSE Fault
           /\ page' = [data EXCEPT !.head = Max({latest} \cup {Slot[b] : b \in data.payloads})]
    /\ data' = NoData
    /\ UNCHANGED <<reader, relay, stats, client, archive>>

UpdateHTML ==
    \/ BeginUpdate \/ ReadPayloads \/ ReadByValueDesc \/ ReadByValueAsc
    \/ ReadCount \/ SwapPages

-----------------------------------------------------------------------------
(* archive-execution-payloads *)

\* An INSERT draws the next ID when it begins, and its row is in the table when
\* it ends.
DrawID ==
    LET drawn == ids \cup inserting \cup deleted
    IN  /\ reader = "archive" /\ Cardinality(drawn) < MaxID
        /\ inserting' = inserting \cup {Cardinality(drawn) + 1}
        /\ UNCHANGED <<reader, relay, stats, website, client, tool, ids, idLast, csv, entries,
                       archived, deleted, faults>>

InsertPayload(id) ==
    /\ id \in inserting
    /\ inserting' = inserting \ {id} /\ ids' = ids \cup {id}
    /\ UNCHANGED <<reader, relay, stats, website, client, tool, idLast, csv, entries,
                   archived, deleted, faults>>

\* the flags; --date-end gives the last ID of the day before
BeginArchive ==
    /\ reader = "archive" /\ tool = "idle"
    /\ tool' = "reading"
    /\ idLast' \in 1..MaxID /\ csv' \in BOOLEAN
    /\ UNCHANGED <<reader, relay, stats, website, client, ids, inserting, entries, archived,
                   deleted, faults>>

\* GetExecutionPayloads
ReadEntries ==
    /\ tool = "reading"
    /\ \/ /\ entries' = {id \in ids : id <= idLast}
          /\ tool' = IF entries' = {} THEN "done" ELSE "writing"
          /\ UNCHANGED faults
       \/ Fault /\ tool' = "done" /\ UNCHANGED entries
    /\ UNCHANGED <<reader, relay, stats, website, client, ids, inserting, idLast, csv, archived,
                   deleted>>

\* An error ends the tool.  The csv.Writer has a buffer: what is left in it at
\* the end is written by a deferred Flush, whose error nobody asks for.
WriteFile ==
    /\ tool = "writing"
    /\ \/ tool' = "deleting" /\ archived' = entries /\ UNCHANGED faults
       \/ tool' = "done" /\ Fault /\ UNCHANGED archived
       \/ csv /\ tool' = "deleting" /\ Fault /\ UNCHANGED archived
    /\ UNCHANGED <<reader, relay, stats, website, client, ids, inserting, idLast, csv, entries,
                   deleted>>

\* DeleteExecutionPayloads, if --delete was given, for the same range of IDs
DeleteEntries ==
    /\ tool = "deleting" /\ tool' = "done"
    /\ \/ /\ deleted' = deleted \cup {id \in ids : id <= idLast}
          /\ ids' = {id \in ids : id > idLast}
          /\ UNCHANGED faults
       \/ UNCHANGED <<deleted, ids, faults>>
       \/ Fault /\ UNCHANGED <<deleted, ids>>
    /\ UNCHANGED <<reader, relay, stats, website, client, inserting, idLast, csv, entries,
                   archived>>

Archive == BeginArchive \/ ReadEntries \/ WriteFile \/ DeleteEntries

-----------------------------------------------------------------------------
Slots == {Slot[b] : b \in Blocks}

Next ==
    \/ \E b \in Blocks : Submit(b) \/ SaveBuilderBlockSubmission(b) \/ SaveDeliveredPayload(b)
    \/ \E s \in Slots : ProcessNewSlot(s) \/ SetLatestSlot(s)
    \/ UpdateHTML
    \/ BeginWalk \/ NextPage
    \/ DrawID \/ (\E id \in 1..MaxID : InsertPayload(id)) \/ Archive

Spec == Init /\ [][Next]_vars

-----------------------------------------------------------------------------
TypeOK ==
    /\ reader \in Readers
    /\ stage \in [Blocks -> {"none", "stored", "rejected", "saved", "discarded"}]
    /\ submissions \subseteq [block : Blocks, simSuccess : BOOLEAN]
    /\ delivered \subseteq Blocks
    /\ statWriters \subseteq Slots /\ headSlot \in Slots \cup {0} /\ latestSlot \in 0..headSlot
    /\ web \in {"idle", "payloads", "byValueDesc", "byValueAsc", "count", "head"}
    /\ \A d \in {data, page} :
           /\ d.payloads \cup d.byValueDesc \cup d.byValueAsc \subseteq delivered
           /\ d.count \in 0..Cardinality(delivered) /\ d.head \in Slots \cup {0}
    /\ walk \in {"idle", "walking", "done"} /\ cursor \in Slots \cup {NoArg}
    /\ present \subseteq Blocks /\ collected \subseteq delivered
    /\ tool \in {"idle", "reading", "writing", "deleting", "done"}
    /\ ids \cup inserting \cup entries \cup archived \cup deleted \subseteq 1..MaxID
    /\ ids \cap inserting = {} /\ ids \cap deleted = {}
    /\ idLast \in 0..MaxID /\ csv \in BOOLEAN
    /\ faults \in 0..MaxFaults

\* A client that goes on from the last slot of each page gets everything that
\* was delivered before it began, although rows are added meanwhile, in any
\* order of slots, as long as no slot fills a page.
WalkIsComplete ==
    /\ walk = "done" /\ faults = 0
    /\ \A s \in Slots : Cardinality({b \in delivered : Slot[b] = s}) < MaxLimit
    => present \subseteq collected

\* What was delivered can be found among the bids the relay received for its
\* slot, once its submission has been dealt with: also a block that was taken
\* optimistically counts as one whose simulation succeeded.
DeliveredAreListed ==
    faults = 0 =>
        \A b \in delivered : stage[b] = "saved" =>
            \A i \in {NoArg, Builder[b]} :
                \A S \in BuilderBidsReceived([slot |-> Slot[b], builder |-> i,
                                              limit |-> MaxLimit]) :
                    \E s \in S : s.block = b

\* The parts of a page of the website come from separate queries, between which
\* payloads are delivered, and yet the number of delivered payloads that the
\* page shows is not smaller than the number of different payloads that the three
\* orders of its table list.
CountCoversTables ==
    faults = 0 =>
        Cardinality(page.payloads \cup page.byValueDesc \cup page.byValueAsc) <= page.count

\* "deleting archived payloads from DB": what archive-execution-payloads
\* deletes is in the file that it has written before, if the range it is given
\* ends with a row that is in the table.
DeletedAreArchived == faults = 0 /\ idLast \in entries => deleted \subseteq archived
=============================================================================
