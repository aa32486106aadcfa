-------------------------- MODULE RelayDataProofs --------------------------
(***************************************************************************)
(* Proofs about RelayData for any blocks, limits, faults and IDs.          *)
(***************************************************************************)
EXTENDS RelayData, FiniteSetTheorems, WellFoundedInduction, TLAPS

-----------------------------------------------------------------------------
(* The newest and the oldest slot of some rows *)

\* Rows have one with the highest key: among the sets of rows above a row, one
\* has no other of them as a part, and it is empty.
LEMMA HighestExists ==
    ASSUME NEW T \in SUBSET Blocks, T # {}, NEW key \in [Blocks -> Int]
    PROVE  \E b \in T : \A c \in T : key[b] >= key[c]
<1> DEFINE Above(b) == {c \in T : key[c] > key[b]}
           All == {Above(b) : b \in T}
           Order == StrictSubsetOrdering(Blocks)
<1>1. IsWellFoundedOn(Order, FiniteSubsetsOf(Blocks))
  BY FS_StrictSubsetOrderingWellFounded
<1>2. All \subseteq FiniteSubsetsOf(Blocks) /\ All # {}
  <2>1. FiniteSubsetsOf(Blocks) = SUBSET Blocks
    BY BlocksAssumption, FS_FiniteSubsetsOfFinite
  <2>2. All \subseteq SUBSET Blocks
    OBVIOUS
  <2>3. PICK b : b \in T
    OBVIOUS
  <2>4. Above(b) \in All
    BY <2>3
  <2> QED BY <2>1, <2>2, <2>4
<1>3. PICK S \in All : \A R \in All : <<R, S>> \notin Order
  <2> HIDE DEF All, Order
  <2> QED BY <1>1, <1>2, WFMin
<1>4. PICK b \in T : S = Above(b)
  BY <1>3
<1>5. ASSUME NEW c \in T, key[c] > key[b]
      PROVE  FALSE
  <2>1. key[c] \in Int /\ key[b] \in Int /\ \A d \in T : key[d] \in Int
    OBVIOUS
  <2>2. Above(c) \subseteq S /\ c \in S /\ c \notin Above(c)
    BY <1>4, <1>5, <2>1
  <2>3. <<Above(c), S>> \in Order
    BY <1>4, <2>2 DEF StrictSubsetOrdering
  <2> QED BY <1>3, <2>3
<1>6. \A c \in T : key[b] \in Int /\ key[c] \in Int
  OBVIOUS
<1> QED BY <1>5, <1>6

LEMMA SlotsAreNatural ==
    /\ Slots \subseteq Nat \ {0} /\ Slots \cup {0} \subseteq Nat
    /\ \A b \in Blocks : Slot[b] \in Slots /\ Slot[b] \in Nat \ {0}
BY BlocksAssumption DEF Slots

LEMMA MinOfSlots ==
    ASSUME NEW T \in SUBSET Blocks, T # {}
    PROVE  /\ Min({Slot[b] : b \in T}) \in Slots
           /\ \E b \in T : Min({Slot[c] : c \in T}) = Slot[b]
           /\ \A b \in T : Min({Slot[c] : c \in T}) <= Slot[b]
<1> DEFINE key == [b \in Blocks |-> -Slot[b]]
           All == {Slot[b] : b \in T}
<1>1. key \in [Blocks -> Int]
  BY SlotsAreNatural
<1>2. PICK b \in T : \A c \in T : key[b] >= key[c]
  <2> HIDE DEF key
  <2> QED BY <1>1, HighestExists
<1>3. Slot[b] \in All /\ \A x \in All : Slot[b] <= x
  <2>1. \A c \in T : -Slot[b] >= -Slot[c] /\ Slot[b] \in Nat /\ Slot[c] \in Nat
    BY <1>2, SlotsAreNatural
  <2>2. \A c \in T : Slot[b] <= Slot[c]
    BY <2>1
  <2> QED BY <2>2
<1>4. Min(All) \in All /\ \A x \in All : Min(All) <= x
  <2> HIDE DEF All
  <2> QED BY <1>3 DEF Min
<1> QED BY <1>4, SlotsAreNatural

LEMMA MaxOfSlots ==
    ASSUME NEW T \in SUBSET Blocks, NEW n \in Slots \cup {0}
    PROVE  /\ Max({n} \cup {Slot[b] : b \in T}) \in Slots \cup {0}
           /\ \A b \in T : Slot[b] <= Max({n} \cup {Slot[c] : c \in T})
<1> DEFINE All == {n} \cup {Slot[b] : b \in T}
<1>0. All \subseteq Nat /\ All \subseteq Slots \cup {0} /\ n \in Nat
  BY SlotsAreNatural
<1>1. \E m \in All : \A x \in All : m >= x
  <2>1. CASE T = {}
    BY <2>1, <1>0
  <2>2. CASE T # {}
    <3>1. Slot \in [Blocks -> Int]
      BY BlocksAssumption
    <3>2. PICK b \in T : \A c \in T : Slot[b] >= Slot[c]
      BY <2>2, <3>1, HighestExists
    <3>3. CASE n >= Slot[b]
      BY <1>0, <3>2, <3>3, SlotsAreNatural
    <3>4. CASE ~(n >= Slot[b])
      BY <1>0, <3>2, <3>4, SlotsAreNatural
    <3> QED BY <3>3, <3>4
  <2> QED BY <2>1, <2>2
<1>2. Max(All) \in All /\ \A x \in All : Max(All) >= x
  <2> HIDE DEF All
  <2> QED BY <1>1 DEF Max
<1> QED BY <1>0, <1>2, SlotsAreNatural

-----------------------------------------------------------------------------
(* Queries *)

\* A query with a limit returns all rows, or as many as the limit allows, and
\* those it leaves out are not before those it returns.
LEMMA TopRows ==
    ASSUME NEW rows \in SUBSET Blocks, NEW key, NEW limit \in Nat,
           NEW S \in Top(rows, key, limit)
    PROVE  /\ S \subseteq rows /\ IsFiniteSet(S)
           /\ S = rows \/ Cardinality(S) = limit
           /\ \A r \in S, q \in rows \ S : key[r] >= key[q]
<1>1. IsFiniteSet(rows) /\ Cardinality(rows) \in Nat
  BY BlocksAssumption, FS_Subset, FS_CardinalityType
<1>2. /\ S \subseteq rows
      /\ Cardinality(S) = IF Cardinality(rows) < limit THEN Cardinality(rows) ELSE limit
      /\ \A r \in S, q \in rows \ S : key[r] >= key[q]
  BY DEF Top, kSubset
<1>3. IsFiniteSet(S) /\ (Cardinality(rows) = Cardinality(S) => rows = S)
  BY <1>1, <1>2, FS_Subset
<1> QED BY <1>2, <1>3

\* The rows of the next page of a client.
PageRows == {b \in delivered : cursor # NoArg => Slot[b] <= cursor}

LEMMA NextPageRows ==
    ASSUME delivered \subseteq Blocks, cursor \in Slots \cup {NoArg}
    PROVE  PayloadDelivered([slot |-> NoArg, cursor |-> cursor, builder |-> NoArg,
                             limit |-> MaxLimit])
             = Top(PageRows, Slot, MaxLimit)
<1> DEFINE args == [slot |-> NoArg, cursor |-> cursor, builder |-> NoArg, limit |-> MaxLimit]
<1>1. ~IsBadRequest(args)
  BY BlocksAssumption DEF IsBadRequest
<1>2. /\ Filters(args).slot = 0 /\ Filters(args).builder = NoArg
      /\ Filters(args).cursor = IF cursor = NoArg THEN 0 ELSE cursor
  BY DEF Filters, Parsed
<1>3. cursor # NoArg => cursor \in Nat /\ cursor > 0
  BY SlotsAreNatural
<1>4. Matching(Filters(args)) = PageRows
  <2> HIDE DEF args
  <2>1. CASE cursor = NoArg
    BY <1>2, <2>1 DEF Matching, PageRows
  <2>2. CASE cursor # NoArg
    BY <1>2, <1>3, <2>2 DEF Matching, PageRows
  <2> QED BY <2>1, <2>2
<1>5. args.limit = MaxLimit
  OBVIOUS
<1> HIDE DEF args
<1>6. PayloadDelivered(args) = Top(PageRows, Slot, MaxLimit)
  BY <1>1, <1>4, <1>5 DEF PayloadDelivered
<1> QED BY <1>6 DEF args

-----------------------------------------------------------------------------
(* The invariant, part by part *)

\* what a page of the website may hold: payloads that were delivered
Shown ==
    [payloads : SUBSET delivered, byValueDesc : SUBSET delivered,
     byValueAsc : SUBSET delivered, count : 0..Cardinality(delivered), head : Slots \cup {0}]

Listed(d) == d.payloads \cup d.byValueDesc \cup d.byValueAsc

\* as long as nothing failed, what is saved has its row
RelayOK ==
    /\ reader \in Readers
    /\ stage \in [Blocks -> {"none", "stored", "rejected", "saved", "discarded"}]
    /\ submissions \subseteq [block : Blocks, simSuccess : BOOLEAN]
    /\ delivered \subseteq Blocks
    /\ faults \in 0..MaxFaults
    /\ faults = 0 => \A b \in Blocks : stage[b] = "saved" =>
                         [block |-> b, simSuccess |-> TRUE] \in submissions

\* the goroutines write slots the housekeeper has seen
StatsOK ==
    /\ headSlot \in Slots \cup {0} /\ latestSlot \in Slots \cup {0}
    /\ statWriters \subseteq Slots
    /\ latestSlot <= headSlot /\ \A s \in statWriters : s <= headSlot

\* the count is read after the tables, and deliveries only add to it
WebOK ==
    /\ web \in {"idle", "payloads", "byValueDesc", "byValueAsc", "count", "head"}
    /\ data \in Shown /\ page \in Shown
    /\ faults = 0 => Cardinality(Listed(page)) <= page.count
    /\ faults = 0 /\ web = "head" => Cardinality(Listed(data)) <= data.count

NoSlotFillsPage ==
    \A s \in Slots : Cardinality({b \in delivered : Slot[b] = s}) < MaxLimit

\* the client has nothing from before its cursor, and everything after it
WalkOK ==
    /\ walk \in {"idle", "walking", "done"} /\ cursor \in Slots \cup {NoArg}
    /\ present \subseteq delivered /\ collected \subseteq delivered
    /\ walk = "walking" =>
           /\ cursor = NoArg => collected = {}
           /\ cursor # NoArg => \A b \in collected : Slot[b] >= cursor
           /\ faults = 0 /\ cursor # NoArg =>
                  \A b \in present : Slot[b] > cursor => b \in collected
    /\ walk = "done" /\ faults = 0 /\ NoSlotFillsPage => present \subseteq collected

\* IDs are drawn one after the other
IdsOK ==
    /\ \E n \in 0..MaxID : ids \cup inserting \cup deleted = 1..n
    /\ ids \cap inserting = {} /\ ids \cap deleted = {} /\ inserting \cap deleted = {}

ToolOK ==
    /\ tool \in {"idle", "reading", "writing", "deleting", "done"}
    /\ IdsOK
    /\ entries \cup archived \subseteq 1..MaxID
    /\ idLast \in 0..MaxID /\ csv \in BOOLEAN

IndInv == RelayOK /\ StatsOK /\ WebOK /\ WalkOK /\ ToolOK

LEMMA InitEstablishes == Init => IndInv
<1> SUFFICES ASSUME Init PROVE IndInv
  OBVIOUS
<1>1. RelayOK
  BY BlocksAssumption DEF Init, RelayOK
<1>2. StatsOK
  BY DEF Init, StatsOK
<1>3. WebOK
  <2>1. Cardinality({}) = 0 /\ Cardinality(delivered) = 0 /\ delivered = {}
    BY FS_EmptySet DEF Init
  <2>2. data = NoData /\ page = NoData /\ web = "idle"
    BY DEF Init
  <2>3. NoData \in Shown
    BY <2>1 DEF NoData, Shown
  <2>4. Listed(NoData) = {} /\ NoData.payloads = {} /\ NoData.count = 0
    BY DEF Listed, NoData
  <2> QED BY <2>1, <2>2, <2>3, <2>4 DEF WebOK
<1>4. WalkOK
  BY DEF Init, WalkOK
<1>5. ToolOK
  <2>1. ids \cup inserting \cup deleted = 1..0
    BY DEF Init
  <2>2. IdsOK
    BY <2>1, BlocksAssumption DEF Init, IdsOK
  <2>3. /\ entries \cup archived \subseteq 1..MaxID
        /\ idLast \in 0..MaxID /\ tool = "idle"
    BY BlocksAssumption DEF Init
  <2>4. csv \in BOOLEAN
    BY DEF Init
  <2> QED BY <2>2, <2>3, <2>4 DEF ToolOK
<1> QED BY <1>1, <1>2, <1>3, <1>4, <1>5 DEF IndInv

-----------------------------------------------------------------------------
(* What a step of another part leaves alone *)

\* A step adds a fault or leaves their number alone, and rows are only added.
OnlyAdds ==
    /\ faults' \in 0..MaxFaults /\ (faults' = 0 => faults = 0)
    /\ delivered \subseteq delivered' /\ delivered' \subseteq Blocks

LEMMA FaultAdds ==
    ASSUME IndInv, Fault \/ UNCHANGED faults
    PROVE  /\ faults' \in 0..MaxFaults /\ (faults' = 0 => faults = 0)
           /\ Fault => faults' # 0
BY BlocksAssumption DEF IndInv, RelayOK, Fault

LEMMA RelayFrame ==
    ASSUME IndInv, UNCHANGED <<reader, relay>>, OnlyAdds
    PROVE  RelayOK'
BY DEF IndInv, RelayOK, relay, OnlyAdds

LEMMA StatsFrame ==
    ASSUME IndInv, UNCHANGED stats
    PROVE  StatsOK'
BY DEF IndInv, StatsOK, stats

\* More deliveries leave what was shown among them.
LEMMA ShownGrows ==
    ASSUME IndInv, OnlyAdds
    PROVE  Shown \subseteq Shown'
<1>1. Cardinality(delivered) \in Nat /\ Cardinality(delivered') \in Nat
      /\ Cardinality(delivered) <= Cardinality(delivered')
  <2>1. IsFiniteSet(delivered')
    BY BlocksAssumption, FS_Subset DEF OnlyAdds
  <2>2. IsFiniteSet(delivered) /\ Cardinality(delivered) <= Cardinality(delivered')
    BY <2>1, FS_Subset DEF OnlyAdds
  <2> QED BY <2>1, <2>2, FS_CardinalityType
<1>2. 0..Cardinality(delivered) \subseteq 0..Cardinality(delivered')
  BY <1>1
<1>3. SUBSET delivered \subseteq SUBSET delivered'
  BY DEF OnlyAdds
<1>4. ASSUME NEW d \in Shown
      PROVE  d \in Shown'
  BY <1>2, <1>3 DEF Shown
<1> QED BY <1>4

LEMMA WebFrame ==
    ASSUME IndInv, UNCHANGED website, OnlyAdds
    PROVE  WebOK'
<1>1. data' \in Shown' /\ page' \in Shown'
  BY ShownGrows DEF IndInv, WebOK, website
<1> QED BY <1>1 DEF IndInv, WebOK, website, OnlyAdds, Listed

\* A slot that fills no page later has not filled one before.
LEMMA FillsLater ==
    ASSUME IndInv, OnlyAdds, NoSlotFillsPage'
    PROVE  NoSlotFillsPage
<1> DEFINE Of(s) == {b \in delivered : Slot[b] = s}
<1>1. ASSUME NEW s \in Slots
      PROVE  Cardinality(Of(s)) < MaxLimit
  <2>1. Of(s) \subseteq Of(s)' /\ IsFiniteSet(Of(s)')
    BY BlocksAssumption, FS_Subset DEF OnlyAdds
  <2>2. /\ Cardinality(Of(s)) <= Cardinality(Of(s)')
        /\ Cardinality(Of(s)) \in Nat /\ Cardinality(Of(s)') \in Nat
    BY <2>1, FS_Subset, FS_CardinalityType
  <2>3. Cardinality(Of(s)') < MaxLimit
    BY DEF NoSlotFillsPage
  <2> QED BY <2>2, <2>3, BlocksAssumption
<1> QED BY <1>1 DEF NoSlotFillsPage

LEMMA WalkFrame ==
    ASSUME IndInv, UNCHANGED client, OnlyAdds
    PROVE  WalkOK'
BY FillsLater DEF IndInv, WalkOK, client, OnlyAdds

LEMMA ToolFrame ==
    ASSUME IndInv, UNCHANGED archive, OnlyAdds
    PROVE  ToolOK'
BY DEF IndInv, ToolOK, IdsOK, archive, OnlyAdds

-----------------------------------------------------------------------------
(* The relay and the housekeeper *)

LEMMA RelayStep ==
    ASSUME IndInv, NEW b \in Blocks,
           Submit(b) \/ SaveBuilderBlockSubmission(b) \/ SaveDeliveredPayload(b)
    PROVE  IndInv'
<1>1. UNCHANGED <<reader, stats, website, client, archive>>
  BY DEF Submit, SaveBuilderBlockSubmission, SaveDeliveredPayload
<1>2. OnlyAdds
  BY FaultAdds DEF IndInv, RelayOK, OnlyAdds, Submit, SaveBuilderBlockSubmission,
                   SaveDeliveredPayload
<1>3. RelayOK'
  <2>1. CASE Submit(b)
    BY <2>1, <1>2 DEF IndInv, RelayOK, Submit, OnlyAdds
  <2>2. CASE SaveBuilderBlockSubmission(b)
    <3>1. /\ stage \in [Blocks -> {"none", "stored", "rejected", "saved", "discarded"}]
          /\ stage' = [stage EXCEPT ![b] = IF stage[b] = "stored" THEN "saved" ELSE "discarded"]
          /\ UNCHANGED <<reader, delivered>>
      BY <2>2 DEF IndInv, RelayOK, SaveBuilderBlockSubmission
    <3>2. stage' \in [Blocks -> {"none", "stored", "rejected", "saved", "discarded"}]
      BY <3>1
    <3>3. \/ submissions' = submissions \cup {[block |-> b, simSuccess |-> stage[b] = "stored"]}
             /\ UNCHANGED faults
          \/ faults' # 0 /\ UNCHANGED submissions
      BY <2>2, FaultAdds DEF SaveBuilderBlockSubmission
    <3>4. [block |-> b, simSuccess |-> stage[b] = "stored"]
              \in {[block |-> b, simSuccess |-> TRUE], [block |-> b, simSuccess |-> FALSE]}
      <4>1. CASE stage[b] = "stored"
        BY <4>1, Zenon
      <4>2. CASE ~(stage[b] = "stored")
        BY <4>2, Zenon
      <4> QED BY <4>1, <4>2
    <3>5. submissions' \subseteq [block : Blocks, simSuccess : BOOLEAN]
      <4>1. \A x \in BOOLEAN :
                [block |-> b, simSuccess |-> x] \in [block : Blocks, simSuccess : BOOLEAN]
        OBVIOUS
      <4>2. [block |-> b, simSuccess |-> stage[b] = "stored"]
                \in [block : Blocks, simSuccess : BOOLEAN]
        BY <3>4, <4>1
      <4> QED BY <3>3, <4>2 DEF IndInv, RelayOK
    <3>6. ASSUME faults' = 0, NEW c \in Blocks, stage'[c] = "saved"
          PROVE  [block |-> c, simSuccess |-> TRUE] \in submissions'
      <4>1. CASE c = b
        <5>1. stage[b] = "stored"
          BY <3>1, <3>6, <4>1
        <5> QED BY <3>3, <3>6, <4>1, <5>1
      <4>2. CASE c # b
        <5>1. stage[c] = "saved"
          BY <3>1, <3>6, <4>2
        <5> QED BY <1>2, <3>3, <3>6, <5>1 DEF IndInv, RelayOK, OnlyAdds
      <4> QED BY <4>1, <4>2
    <3> QED BY <1>2, <3>1, <3>2, <3>5, <3>6 DEF IndInv, RelayOK, OnlyAdds
  <2>3. CASE SaveDeliveredPayload(b)
    BY <2>3, <1>2 DEF IndInv, RelayOK, SaveDeliveredPayload, OnlyAdds
  <2> QED BY <2>1, <2>2, <2>3
<1>4. StatsOK'
  BY <1>1, StatsFrame
<1>5. WebOK'
  BY <1>1, <1>2, WebFrame
<1>6. WalkOK'
  BY <1>1, <1>2, WalkFrame
<1>7. ToolOK'
  BY <1>1, <1>2, ToolFrame
<1> QED BY <1>3, <1>4, <1>5, <1>6, <1>7 DEF IndInv

LEMMA StatsStep ==
    ASSUME IndInv, NEW s \in Slots, ProcessNewSlot(s) \/ SetLatestSlot(s)
    PROVE  IndInv'
<1>1. UNCHANGED <<reader, relay, website, client, archive>>
  BY DEF ProcessNewSlot, SetLatestSlot
<1>2. OnlyAdds
  BY <1>1, FaultAdds DEF IndInv, RelayOK, OnlyAdds, relay, ProcessNewSlot, SetLatestSlot
<1>3. StatsOK'
  <2>1. s \in Nat /\ headSlot \in Nat /\ latestSlot \in Nat /\ statWriters \subseteq Nat
    BY SlotsAreNatural DEF IndInv, StatsOK
  <2>2. CASE ProcessNewSlot(s)
    BY <2>1, <2>2 DEF IndInv, StatsOK, ProcessNewSlot
  <2>3. CASE SetLatestSlot(s)
    BY <2>1, <2>3 DEF IndInv, StatsOK, SetLatestSlot
  <2> QED BY <2>2, <2>3
<1>4. RelayOK'
  BY <1>1, <1>2, RelayFrame
<1>5. WebOK'
  BY <1>1, <1>2, WebFrame
<1>6. WalkOK'
  BY <1>1, <1>2, WalkFrame
<1>7. ToolOK'
  BY <1>1, <1>2, ToolFrame
<1> QED BY <1>3, <1>4, <1>5, <1>6, <1>7 DEF IndInv

-----------------------------------------------------------------------------
(* The client *)

\* the page it gets, and the case that the page has nothing new
LEMMA LastPage ==
    ASSUME IndInv, walk = "walking", faults = 0, NoSlotFillsPage,
           NEW S \in Top(PageRows, Slot, MaxLimit), S \subseteq collected
    PROVE  present \subseteq collected
<1>1. /\ PageRows \subseteq Blocks /\ PageRows \subseteq delivered
      /\ delivered \subseteq Blocks /\ present \subseteq delivered
      /\ cursor \in Slots \cup {NoArg}
  BY DEF IndInv, RelayOK, WalkOK, PageRows
<1>2. S \subseteq PageRows /\ IsFiniteSet(S) /\ (S = PageRows \/ Cardinality(S) = MaxLimit)
  BY <1>1, TopRows, BlocksAssumption
<1>3. CASE cursor = NoArg
  <2>1. collected = {}
    BY <1>3 DEF IndInv, WalkOK
  <2>2. Cardinality(S) = 0
    BY <2>1, FS_EmptySet
  <2>3. S = PageRows
    BY <1>2, <2>2, BlocksAssumption
  <2> QED BY <1>1, <1>3, <2>3 DEF PageRows
<1>4. CASE cursor # NoArg
  <2> DEFINE Same == {b \in delivered : Slot[b] = cursor}
  <2>1. cursor \in Slots /\ cursor \in Nat /\ \A b \in delivered : Slot[b] \in Nat
    BY <1>1, <1>4, SlotsAreNatural
  <2>2. S \subseteq Same
    <3>1. \A b \in S : Slot[b] >= cursor /\ Slot[b] <= cursor /\ b \in delivered
      BY <1>2, <1>4 DEF IndInv, WalkOK, PageRows
    <3> QED BY <2>1, <3>1
  <2>3. Cardinality(S) <= Cardinality(Same) /\ Cardinality(S) \in Nat /\ Cardinality(Same) \in Nat
    <3>1. IsFiniteSet(Same)
      BY <1>1, BlocksAssumption, FS_Subset
    <3> QED BY <2>2, <3>1, FS_Subset, FS_CardinalityType
  <2>4. Cardinality(Same) < MaxLimit
    BY <2>1 DEF NoSlotFillsPage
  <2>5. S = PageRows
    BY <1>2, <2>3, <2>4, BlocksAssumption
  <2>6. ASSUME NEW b \in present
        PROVE  b \in collected
    <3>1. CASE Slot[b] > cursor
      BY <1>4, <3>1 DEF IndInv, WalkOK
    <3>2. CASE Slot[b] <= cursor
      BY <1>1, <2>5, <3>2 DEF PageRows
    <3> QED BY <1>1, <2>1, <3>1, <3>2
  <2> QED BY <2>6
<1> QED BY <1>3, <1>4

LEMMA WalkStep ==
    ASSUME IndInv, BeginWalk \/ NextPage
    PROVE  IndInv'
<1>1. UNCHANGED <<reader, relay, stats, website, archive>>
  BY DEF BeginWalk, NextPage
<1>2. OnlyAdds
  BY <1>1, FaultAdds DEF IndInv, RelayOK, OnlyAdds, relay, BeginWalk, NextPage
<1>3. WalkOK'
  <2>1. CASE BeginWalk
    BY <1>1, <2>1 DEF IndInv, RelayOK, WalkOK, BeginWalk, relay
  <2>2. CASE NextPage
    <3>1. /\ delivered \subseteq Blocks /\ cursor \in Slots \cup {NoArg}
          /\ PageRows \subseteq Blocks /\ PageRows \subseteq delivered
          /\ UNCHANGED <<delivered, present>> /\ walk = "walking"
      BY <1>1, <2>2 DEF IndInv, RelayOK, WalkOK, PageRows, NextPage, relay
    <3>2. PICK S \in Top(PageRows, Slot, MaxLimit) :
          \E T \in {S} \cup CutShort(S, Slot) :
              /\ IF T = S THEN UNCHANGED faults ELSE Fault
              /\ collected' = collected \cup T
              /\ \/ T \subseteq collected /\ walk' = "done" /\ UNCHANGED cursor
                 \/ /\ ~(T \subseteq collected)
                    /\ cursor' = Min({Slot[b] : b \in T})
                    /\ UNCHANGED walk
      BY <2>2, <3>1, NextPageRows DEF NextPage
    <3>3. PICK T \in {S} \cup CutShort(S, Slot) :
              /\ IF T = S THEN UNCHANGED faults ELSE Fault
              /\ collected' = collected \cup T
              /\ \/ T \subseteq collected /\ walk' = "done" /\ UNCHANGED cursor
                 \/ /\ ~(T \subseteq collected)
                    /\ cursor' = Min({Slot[b] : b \in T})
                    /\ UNCHANGED walk
      BY <3>2
    <3>4. T \subseteq S /\ S \subseteq PageRows /\ T \subseteq Blocks /\ T \subseteq delivered
      <4>1. S \subseteq PageRows
        BY <3>1, TopRows, BlocksAssumption
      <4> QED BY <3>1, <3>3, <4>1 DEF CutShort
    <3>5. faults' = 0 => T = S /\ faults = 0
      BY <3>3, FaultAdds
    <3>6. collected' \subseteq delivered'
      BY <3>1, <3>3, <3>4 DEF IndInv, WalkOK
    <3>7. CASE T \subseteq collected
      <4>1. walk' = "done" /\ cursor' = cursor /\ collected' = collected
        BY <3>3, <3>7
      <4>2. ASSUME faults' = 0, NoSlotFillsPage'
            PROVE  present \subseteq collected
        BY <1>2, <3>1, <3>5, <3>7, <4>2, FillsLater, LastPage
      <4> QED BY <3>1, <3>6, <4>1, <4>2 DEF IndInv, WalkOK
    <3>8. CASE ~(T \subseteq collected)
      <4>1. walk' = "walking" /\ cursor' = Min({Slot[b] : b \in T}) /\ T # {}
        BY <3>1, <3>3, <3>8
      <4>2. /\ cursor' \in Slots /\ cursor' # NoArg /\ cursor' \in Nat
            /\ \A b \in T : cursor' <= Slot[b]
            /\ \E b \in T : cursor' = Slot[b]
        <5>1. /\ cursor' \in Slots /\ \A b \in T : cursor' <= Slot[b]
              /\ \E b \in T : cursor' = Slot[b]
          BY <3>4, <4>1, MinOfSlots
        <5> QED BY <5>1, SlotsAreNatural, BlocksAssumption
      <4>3. \A b \in Blocks : Slot[b] \in Nat
        BY SlotsAreNatural
      <4>4. cursor # NoArg => cursor \in Nat /\ cursor' <= cursor
        <5>1. ASSUME cursor # NoArg
              PROVE  cursor \in Nat /\ cursor' <= cursor
          <6>1. cursor \in Nat
            BY <3>1, <5>1, SlotsAreNatural
          <6>2. PICK b \in T : cursor' = Slot[b]
            BY <4>2
          <6>3. Slot[b] <= cursor
            BY <3>4, <5>1 DEF PageRows
          <6> QED BY <6>1, <6>2, <6>3
        <5> QED BY <5>1
      <4>5. \A b \in collected' : Slot[b] >= cursor'
        <5>1. ASSUME NEW b \in collected, b \notin T
              PROVE  Slot[b] >= cursor'
          <6>1. cursor # NoArg /\ Slot[b] >= cursor /\ b \in Blocks
            BY <3>1, <5>1 DEF IndInv, WalkOK
          <6> QED BY <4>2, <4>3, <4>4, <6>1
        <5>2. ASSUME NEW b \in T
              PROVE  Slot[b] >= cursor'
          BY <3>4, <4>2, <4>3
        <5> QED BY <3>3, <5>1, <5>2
      <4>6. ASSUME faults' = 0, NEW b \in present, Slot[b] > cursor'
            PROVE  b \in collected'
        <5>1. b \in delivered /\ b \in Blocks /\ Slot[b] \in Nat
          BY <3>1, <4>3 DEF IndInv, WalkOK
        <5>2. CASE b \in PageRows
          <6>1. PICK c \in T : cursor' = Slot[c]
            BY <4>2
          <6>2. \A r \in S, q \in PageRows \ S : Slot[r] >= Slot[q]
            BY <3>1, TopRows, BlocksAssumption
          <6>3. b \in S
            BY <3>4, <4>2, <4>6, <5>1, <5>2, <6>1, <6>2
          <6> QED BY <3>3, <3>5, <4>6, <6>3
        <5>3. CASE b \notin PageRows
          <6>1. cursor # NoArg /\ ~(Slot[b] <= cursor)
            BY <5>1, <5>3 DEF PageRows
          <6>2. Slot[b] > cursor
            BY <4>4, <5>1, <6>1
          <6>3. b \in collected
            BY <3>1, <3>5, <4>6, <6>1, <6>2 DEF IndInv, WalkOK
          <6> QED BY <3>3, <6>3
        <5> QED BY <5>2, <5>3
      <4> QED BY <3>1, <3>6, <4>1, <4>2, <4>5, <4>6 DEF IndInv, WalkOK
    <3> QED BY <3>7, <3>8
  <2> QED BY <2>1, <2>2
<1>4. RelayOK'
  BY <1>1, <1>2, RelayFrame
<1>5. StatsOK'
  BY <1>1, StatsFrame
<1>6. WebOK'
  BY <1>1, <1>2, WebFrame
<1>7. ToolOK'
  BY <1>1, <1>2, ToolFrame
<1> QED BY <1>3, <1>4, <1>5, <1>6, <1>7 DEF IndInv

-----------------------------------------------------------------------------
(* The website *)

LEMMA DeliveredIsFinite ==
    ASSUME IndInv
    PROVE  IsFiniteSet(delivered) /\ Cardinality(delivered) \in Nat
BY BlocksAssumption, FS_Subset, FS_CardinalityType DEF IndInv, RelayOK

\* A query for one of the tables.
LEMMA ReadTableKeeps ==
    ASSUME IndInv, NEW key, NEW field \in {"payloads", "byValueDesc", "byValueAsc"},
           NEW next \in {"byValueDesc", "byValueAsc", "count"}, ReadTable(field, next, key)
    PROVE  WebOK'
<1>1. PICK T : T \subseteq delivered /\ data' = [data EXCEPT ![field] = T]
  <2>1. \A S \in Top(delivered, key, WebLimit) : S \subseteq delivered
    BY TopRows, BlocksAssumption DEF IndInv, RelayOK
  <2> QED BY <2>1 DEF ReadTable, CutShort
<1>2. UNCHANGED <<delivered, page>> /\ web' = next
  BY DEF ReadTable, relay
<1>3. data' \in Shown'
  <2>1. CASE field = "payloads"
    BY <1>1, <1>2, <2>1 DEF IndInv, WebOK, Shown
  <2>2. CASE field = "byValueDesc"
    BY <1>1, <1>2, <2>2 DEF IndInv, WebOK, Shown
  <2>3. CASE field = "byValueAsc"
    BY <1>1, <1>2, <2>3 DEF IndInv, WebOK, Shown
  <2> QED BY <2>1, <2>2, <2>3
<1>4. page' \in Shown'
  BY <1>2 DEF IndInv, WebOK, Shown
<1>5. faults' = 0 => faults = 0
  BY FaultAdds DEF ReadTable
<1> QED BY <1>2, <1>3, <1>4, <1>5 DEF IndInv, WebOK, Listed

LEMMA ReadCountKeeps ==
    ASSUME IndInv, ReadCount
    PROVE  WebOK'
<1>1. IsFiniteSet(delivered) /\ Cardinality(delivered) \in Nat
  BY DeliveredIsFinite
<1>2. UNCHANGED <<delivered, page>> /\ web' = "head" /\ data \in Shown /\ page \in Shown
  BY DEF ReadCount, relay, IndInv, WebOK
<1>3. \/ data' = [data EXCEPT !.count = Cardinality(delivered)] /\ faults' = faults
      \/ data' = data /\ faults' # 0
  BY FaultAdds DEF ReadCount
<1>4. data' \in Shown' /\ page' \in Shown'
  BY <1>1, <1>2, <1>3 DEF Shown
<1>5. ASSUME faults' = 0
      PROVE  Cardinality(Listed(data')) <= data'.count
  <2>1. data'.count = Cardinality(delivered) /\ Listed(data') \subseteq delivered
    BY <1>2, <1>3, <1>5 DEF Shown, Listed
  <2>2. Cardinality(Listed(data')) <= Cardinality(delivered)
    BY <1>1, <2>1, FS_Subset
  <2> QED BY <2>1, <2>2
<1>6. faults' = 0 => faults = 0
  BY <1>3
<1> QED BY <1>2, <1>4, <1>5, <1>6 DEF IndInv, WebOK, Listed

LEMMA SwapPagesKeeps ==
    ASSUME IndInv, SwapPages
    PROVE  WebOK'
<1>1. UNCHANGED delivered /\ web = "head" /\ web' = "idle" /\ data' = NoData /\ data \in Shown
  BY DEF SwapPages, relay, IndInv, WebOK
<1>2. PICK latest \in {latestSlot, 0} :
          page' = [data EXCEPT !.head = Max({latest} \cup {Slot[b] : b \in data.payloads})]
  BY DEF SwapPages
<1>3. data.payloads \subseteq Blocks /\ latest \in Slots \cup {0}
  BY <1>1, <1>2 DEF IndInv, RelayOK, StatsOK, Shown
<1> DEFINE head == Max({latest} \cup {Slot[b] : b \in data.payloads})
<1>4. head \in Slots \cup {0}
  BY <1>3, MaxOfSlots
<1> HIDE DEF head
<1>5. page' = [data EXCEPT !.head = head]
  BY <1>2 DEF head
<1>6. page' \in Shown' /\ Listed(page') = Listed(data) /\ page'.count = data.count
  BY <1>1, <1>4, <1>5 DEF Shown, Listed
<1>7. data' \in Shown'
  BY <1>1, DeliveredIsFinite DEF NoData, Shown
<1>8. faults' = 0 => faults = 0
  BY FaultAdds DEF SwapPages
<1>9. faults' = 0 => Cardinality(Listed(page')) <= page'.count
  BY <1>1, <1>6, <1>8 DEF IndInv, WebOK
<1> QED BY <1>1, <1>6, <1>7, <1>9 DEF WebOK, Listed

LEMMA WebStep ==
    ASSUME IndInv, UpdateHTML
    PROVE  IndInv'
<1> USE DEF UpdateHTML, ReadPayloads, ReadByValueDesc, ReadByValueAsc
<1>1. UNCHANGED <<reader, relay, stats, client, archive>>
  BY DEF BeginUpdate, ReadTable, ReadCount, SwapPages
<1>2. OnlyAdds
  <2>1. Fault \/ UNCHANGED faults
    BY DEF BeginUpdate, ReadTable, ReadCount, SwapPages
  <2> QED BY <1>1, <2>1, FaultAdds DEF IndInv, RelayOK, OnlyAdds, relay
<1>3. WebOK'
  <2>1. CASE BeginUpdate
    <3>1. /\ UNCHANGED <<delivered, page, faults>> /\ web' = "payloads" /\ data' = NoData
          /\ page \in Shown
      BY <2>1 DEF BeginUpdate, relay, IndInv, WebOK
    <3>2. data' \in Shown' /\ page' \in Shown'
      BY <3>1, DeliveredIsFinite DEF NoData, Shown
    <3> QED BY <3>1, <3>2 DEF IndInv, WebOK, Listed
  <2>2. CASE ReadPayloads
    BY <2>2, ReadTableKeeps
  <2>3. CASE ReadByValueDesc
    BY <2>3, ReadTableKeeps
  <2>4. CASE ReadByValueAsc
    BY <2>4, ReadTableKeeps
  <2>5. CASE ReadCount
    BY <2>5, ReadCountKeeps
  <2>6. CASE SwapPages
    BY <2>6, SwapPagesKeeps
  <2> QED BY <2>1, <2>2, <2>3, <2>4, <2>5, <2>6
<1>4. RelayOK'
  BY <1>1, <1>2, RelayFrame
<1>5. StatsOK'
  BY <1>1, StatsFrame
<1>6. WalkOK'
  BY <1>1, <1>2, WalkFrame
<1>7. ToolOK'
  BY <1>1, <1>2, ToolFrame
<1> QED BY <1>3, <1>4, <1>5, <1>6, <1>7 DEF IndInv

-----------------------------------------------------------------------------
(* The archive tool *)

LEMMA ToolKeeps ==
    ASSUME IndInv,
           \/ DrawID \/ (\E id \in 1..MaxID : InsertPayload(id)) \/ Archive
    PROVE  ToolOK'
<1>1. PICK n \in 0..MaxID : ids \cup inserting \cup deleted = 1..n
  BY DEF IndInv, ToolOK, IdsOK
<1>2. n \in Nat /\ MaxID \in Nat /\ n <= MaxID /\ ids \subseteq 1..MaxID
  BY <1>1, BlocksAssumption
<1>3. CASE DrawID
  <2>1. Cardinality(1..n) = n
    BY <1>2, FS_Interval
  <2>2. n < MaxID /\ inserting' = inserting \cup {n + 1}
    BY <1>1, <1>3, <2>1 DEF DrawID
  <2>3. UNCHANGED <<tool, ids, idLast, csv, entries, archived, deleted>>
    BY <1>3 DEF DrawID
  <2>4. ids' \cup inserting' \cup deleted' = 1..(n + 1) /\ n + 1 \in 0..MaxID
    BY <1>1, <1>2, <2>2, <2>3
  <2>5. n + 1 \notin ids /\ n + 1 \notin deleted
    BY <1>1, <1>2
  <2>6. IdsOK'
    BY <2>2, <2>3, <2>4, <2>5 DEF IndInv, ToolOK, IdsOK
  <2> QED BY <2>3, <2>6 DEF IndInv, ToolOK
<1>4. CASE \E id \in 1..MaxID : InsertPayload(id)
  <2>1. PICK id : InsertPayload(id)
    BY <1>4
  <2>2. /\ id \in inserting /\ inserting' = inserting \ {id} /\ ids' = ids \cup {id}
        /\ UNCHANGED <<tool, idLast, csv, entries, archived, deleted>>
    BY <2>1 DEF InsertPayload
  <2>3. IdsOK'
    <3>1. ids' \cup inserting' \cup deleted' = 1..n
      BY <1>1, <2>2
    <3>2. ids' \cap inserting' = {} /\ ids' \cap deleted' = {} /\ inserting' \cap deleted' = {}
      BY <2>2 DEF IndInv, ToolOK, IdsOK
    <3> QED BY <1>1, <3>1, <3>2 DEF IdsOK
  <2> QED BY <2>2, <2>3 DEF IndInv, ToolOK
<1>5. CASE BeginArchive
  <2>1. UNCHANGED <<ids, inserting, deleted, entries, archived>> /\ tool' = "reading"
    BY <1>5 DEF BeginArchive
  <2>2. idLast' \in 0..MaxID /\ csv' \in BOOLEAN
    <3>1. idLast' \in 1..MaxID /\ csv' \in BOOLEAN
      BY <1>5 DEF BeginArchive
    <3> QED BY <1>2, <3>1
  <2> QED BY <2>1, <2>2 DEF IndInv, ToolOK, IdsOK
<1>6. CASE ReadEntries
  <2>1. /\ UNCHANGED <<ids, inserting, deleted, idLast, csv, archived>>
        /\ entries' \in {{id \in ids : id <= idLast}, entries} /\ tool' \in {"done", "writing"}
    BY <1>6 DEF ReadEntries
  <2>2. entries' \subseteq ids \/ entries' = entries
    BY <2>1
  <2> QED BY <1>2, <2>1, <2>2 DEF IndInv, ToolOK, IdsOK
<1>7. CASE WriteFile
  <2>1. /\ UNCHANGED <<ids, inserting, idLast, csv, entries, deleted>>
        /\ tool' \in {"deleting", "done"} /\ archived' \in {entries, archived}
    BY <1>7 DEF WriteFile
  <2> QED BY <2>1 DEF IndInv, ToolOK, IdsOK
<1>8. CASE DeleteEntries
  <2>1. /\ UNCHANGED <<inserting, idLast, csv, entries, archived>> /\ tool' = "done"
        /\ idLast \in Nat
    BY <1>2, <1>8 DEF DeleteEntries, IndInv, ToolOK
  <2>2. CASE UNCHANGED <<deleted, ids>>
    BY <2>1, <2>2 DEF IndInv, ToolOK, IdsOK
  <2>3. CASE /\ deleted' = deleted \cup {id \in ids : id <= idLast}
             /\ ids' = {id \in ids : id > idLast}
    <3>1. \A id \in ids : id \in 1..MaxID /\ (id > idLast <=> ~(id <= idLast))
      BY <1>2, <2>1
    <3>2. ids' \cup inserting' \cup deleted' = 1..n
      BY <1>1, <2>1, <2>3, <3>1
    <3>3. IdsOK'
      BY <1>1, <2>1, <2>3, <3>1, <3>2 DEF IndInv, ToolOK, IdsOK
    <3> QED BY <2>1, <3>3 DEF IndInv, ToolOK
  <2> QED BY <1>8, <2>2, <2>3 DEF DeleteEntries
<1> QED BY <1>3, <1>4, <1>5, <1>6, <1>7, <1>8 DEF Archive

LEMMA ToolStep ==
    ASSUME IndInv,
           \/ DrawID \/ (\E id \in 1..MaxID : InsertPayload(id)) \/ Archive
    PROVE  IndInv'
<1>1. UNCHANGED <<reader, relay, stats, website, client>>
  BY DEF DrawID, InsertPayload, Archive, BeginArchive, ReadEntries, WriteFile, DeleteEntries
<1>2. OnlyAdds
  <2>1. Fault \/ UNCHANGED faults
    BY DEF DrawID, InsertPayload, Archive, BeginArchive, ReadEntries, WriteFile, DeleteEntries
  <2> QED BY <1>1, <2>1, FaultAdds DEF IndInv, RelayOK, OnlyAdds, relay
<1>3. RelayOK'
  BY <1>1, <1>2, RelayFrame
<1>4. StatsOK'
  BY <1>1, StatsFrame
<1>5. WebOK'
  BY <1>1, <1>2, WebFrame
<1>6. WalkOK'
  BY <1>1, <1>2, WalkFrame
<1> QED BY <1>3, <1>4, <1>5, <1>6, ToolKeeps DEF IndInv

-----------------------------------------------------------------------------
(* The theorems *)

LEMMA Invariance == Spec => []IndInv
<1>1. Init => IndInv
  BY InitEstablishes
<1>2. IndInv /\ [Next]_vars => IndInv'
  <2> SUFFICES ASSUME IndInv, [Next]_vars PROVE IndInv'
    OBVIOUS
  <2>1. CASE \E b \in Blocks :
                 Submit(b) \/ SaveBuilderBlockSubmission(b) \/ SaveDeliveredPayload(b)
    BY <2>1, RelayStep
  <2>2. CASE \E s \in Slots : ProcessNewSlot(s) \/ SetLatestSlot(s)
    BY <2>2, StatsStep
  <2>3. CASE UpdateHTML
    BY <2>3, WebStep
  <2>4. CASE BeginWalk \/ NextPage
    BY <2>4, WalkStep
  <2>5. CASE DrawID \/ (\E id \in 1..MaxID : InsertPayload(id)) \/ Archive
    BY <2>5, ToolStep
  <2>6. CASE UNCHANGED vars
    <3>1. UNCHANGED <<reader, relay, stats, website, client, archive, faults>>
      BY <2>6 DEF vars
    <3>2. OnlyAdds
      BY <3>1 DEF IndInv, RelayOK, OnlyAdds, relay
    <3> QED BY <3>1, <3>2, RelayFrame, StatsFrame, WebFrame, WalkFrame, ToolFrame DEF IndInv
  <2> QED BY <2>1, <2>2, <2>3, <2>4, <2>5, <2>6 DEF Next
<1> QED BY <1>1, <1>2, PTL DEF Spec

\* The state of the readers is type correct: what the website and the client
\* hold was delivered, and the IDs of the payload table are in their range and
\* drawn once.
THEOREM TypeCorrect == Spec => []TypeOK
<1>1. IndInv => TypeOK
  <2> SUFFICES ASSUME IndInv PROVE TypeOK
    OBVIOUS
  <2>1. latestSlot \in 0..headSlot
    BY SlotsAreNatural DEF IndInv, StatsOK
  <2>2. ASSUME NEW d \in Shown
        PROVE  /\ d.payloads \cup d.byValueDesc \cup d.byValueAsc \subseteq delivered
               /\ d.count \in 0..Cardinality(delivered) /\ d.head \in Slots \cup {0}
    BY DEF Shown
  <2>3. ids \cup inserting \cup entries \cup archived \cup deleted \subseteq 1..MaxID
    <3>1. PICK n \in 0..MaxID : ids \cup inserting \cup deleted = 1..n
      BY DEF IndInv, ToolOK, IdsOK
    <3>2. 1..n \subseteq 1..MaxID
      BY BlocksAssumption
    <3> QED BY <3>1, <3>2 DEF IndInv, ToolOK
  <2>4. /\ reader \in Readers
        /\ stage \in [Blocks -> {"none", "stored", "rejected", "saved", "discarded"}]
        /\ submissions \subseteq [block : Blocks, simSuccess : BOOLEAN]
        /\ delivered \subseteq Blocks /\ faults \in 0..MaxFaults
    BY DEF IndInv, RelayOK
  <2>5. statWriters \subseteq Slots /\ headSlot \in Slots \cup {0}
    BY DEF IndInv, StatsOK
  <2>6. /\ web \in {"idle", "payloads", "byValueDesc", "byValueAsc", "count", "head"}
        /\ data \in Shown /\ page \in Shown
    BY DEF IndInv, WebOK
  <2>7. /\ walk \in {"idle", "walking", "done"} /\ cursor \in Slots \cup {NoArg}
        /\ present \subseteq Blocks /\ collected \subseteq delivered
    BY <2>4 DEF IndInv, WalkOK
  <2>8. /\ tool \in {"idle", "reading", "writing", "deleting", "done"}
        /\ ids \cap inserting = {} /\ ids \cap deleted = {}
        /\ idLast \in 0..MaxID /\ csv \in BOOLEAN
    BY DEF IndInv, ToolOK, IdsOK
  <2> QED BY <2>1, <2>2, <2>3, <2>4, <2>5, <2>6, <2>7, <2>8, Zenon DEF TypeOK
<1> QED BY <1>1, Invariance, PTL

\* However many payloads are delivered meanwhile, and in whichever order of
\* slots: a client that goes on from the last slot of each page of
\* GetRecentDeliveredPayloads gets all that were there when it began.
THEOREM WalksAreComplete == Spec => []WalkIsComplete
<1>1. IndInv => WalkIsComplete
  BY DEF IndInv, WalkOK, WalkIsComplete, NoSlotFillsPage
<1> QED BY <1>1, Invariance, PTL

\* handleDataBuilderBidsReceived lists every delivered block whose submission
\* was saved, also one that was taken before its simulation.
THEOREM DeliveredStayListed == Spec => []DeliveredAreListed
<1>1. IndInv => DeliveredAreListed
  <2> SUFFICES ASSUME IndInv, faults = 0, NEW b \in delivered, stage[b] = "saved",
                      NEW i \in {NoArg, Builder[b]},
                      NEW S \in BuilderBidsReceived([slot |-> Slot[b], builder |-> i,
                                                     limit |-> MaxLimit])
               PROVE  \E s \in S : s.block = b
    BY DEF DeliveredAreListed
  <2> DEFINE args == [slot |-> Slot[b], builder |-> i, limit |-> MaxLimit]
             row == [block |-> b, simSuccess |-> TRUE]
             rows == {s \in submissions :
                         /\ s.simSuccess
                         /\ Parsed(args.slot) > 0 => Slot[s.block] = args.slot
                         /\ args.builder # NoArg => Builder[s.block] = args.builder}
  <2>1. b \in Blocks /\ row \in submissions
    BY DEF IndInv, RelayOK
  <2>2. Slot[b] \in Nat \ {0} /\ Slot[b] # NoArg
    BY <2>1, SlotsAreNatural, BlocksAssumption
  <2>3. Parsed(args.slot) = Slot[b] /\ Slot[b] > 0
    BY <2>2 DEF Parsed
  <2>4. args.slot = Slot[b] /\ args.builder = i /\ args.limit = MaxLimit
    OBVIOUS
  <2>5. row.block = b /\ row.simSuccess
    OBVIOUS
  <2> HIDE DEF args, row
  <2>6. row \in rows
    BY <2>1, <2>3, <2>4, <2>5
  <2>7. S \in BuilderBidsReceived(args)
    BY DEF args
  <2>8. S = rows
    BY <2>3, <2>4, <2>7, BlocksAssumption DEF BuilderBidsReceived
  <2> QED BY <2>5, <2>6, <2>8
<1> QED BY <1>1, Invariance, PTL

\* The parts of a page of the website come from separate queries: for any
\* number of payloads, delivered in between or not, none that its tables list is
\* missing in the count it shows.
THEOREM CountsCoverTables == Spec => []CountCoversTables
<1>1. IndInv => CountCoversTables
  BY DEF IndInv, WebOK, CountCoversTables, Listed
<1> QED BY <1>1, Invariance, PTL
=============================================================================
