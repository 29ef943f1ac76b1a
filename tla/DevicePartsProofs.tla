-------------------------- MODULE DevicePartsProofs --------------------------
(***************************************************************************)
(* The parts of a device that a theorem is proved of here, for any bounds: *)
(* intake, session, updates, the budget's store, joining and the chain of  *)
(* epochs.  They share no state in these models; MCDevice runs them side   *)
(* by side.                                                                *)
(***************************************************************************)
EXTENDS SyncIntake, SequenceTheorems

CONSTANTS
  Leader,                                        \* the devices of persons
  Tab, Item, Foreign, MaxRevision, MaxFamilies,  \* BudgetStore
  MaxEpoch, MaxKey,                              \* EpochChain
  MaxPairs,                                      \* Session
  MaxInvites, MaxJoinEpoch                       \* Joining

VARIABLES
  doc, family, tab, call, pull, told,            \* BudgetStore
  made, keys, oldKeys, holder, offer,            \* EpochChain
  row, record, tabs, causes,                     \* Session
  group, inviter, invited, codes,                \* Joining
  policy, prompt, page                           \* Updates

Budget == INSTANCE BudgetStore WITH past <- told

Chain == INSTANCE EpochChain WITH
  Sender <- Leader, Taker <- Tab, server <- keys, copy <- oldKeys, device <- holder, call <- offer

Signed == INSTANCE Session WITH server <- row, disk <- record, tab <- tabs, past <- causes

Joins == INSTANCE Joining WITH
  Joiner <- Leader, MaxEpoch <- MaxJoinEpoch,
  server <- group, owner <- inviter, joiner <- invited, past <- codes

Update == INSTANCE Updates

ASSUME BoundsAssumption == {MaxEpoch, MaxKey, MaxPairs, MaxInvites, MaxJoinEpoch} \subseteq Nat \ {0}

-----------------------------------------------------------------------------
(* Intake: what its records are.                                           *)

Digests == [seed : SUBSET Device, set : SUBSET Op]

LinkType == [index : Nat, digest : Digests]

(* A row holds an operation or a checkpoint, never both.                   *)
RowType ==
  {entry \in [kind : {"operation", "checkpoint"}, dev : Device, flaw : Flaws \cup {"none"},
            seq : Nat, op : SUBSET Op, index : Nat, count : Nat, prev : Digests,
            digest : Digests] :
     IF entry.kind = "operation" THEN \E o \in Op : entry.op = {o} ELSE entry.op = {}}

StopType == [reason : Flaws \cup {"none", "journal_incomplete"}, seq : Nat, attempts : Nat]

VerdictType == {"agree", "chain_broken", "journal_diverged"}

AnchorType == [ids : Seq(Op), chain : [Device -> LinkType], alarm : VerdictType,
               own : LinkType, since : 0 .. Every]

DiskType == [journal : SUBSET Op, outbox : Seq(RowType), cursor : Nat, stop : StopType,
             anchor : AnchorType]

RoundType == [at : {"idle", "fold", "fetch", "anchored"}, cursor : Nat, stop : StopType,
             anchor : AnchorType, page : Seq(RowType), pages : 0 .. Pages]

PastType == [rows : Seq(RowType), alarmed : BOOLEAN, overlap : BOOLEAN]

IntakeTyped(list, dk, rd, f, pt) ==
  /\ list \in Seq(RowType) /\ dk \in [Device -> DiskType]
  /\ rd \in [Device -> [Round -> RoundType]] /\ f \in 0 .. MaxFaults /\ pt \in [Device -> PastType]
  /\ \A d \in Device, r \in Round : rd[d][r].at = "fetch" => rd[d][r].pages < Pages

-----------------------------------------------------------------------------
(* Intake: the operators.                                                  *)

LEMMA IntakeLimits ==
  /\ Limit \in Nat \ {0} /\ Pages \in Nat \ {0} /\ Every \in Nat \ {0} /\ Retries \in Nat \ {0}
  /\ MaxFaults \in Nat /\ 0 \in 0 .. Every /\ 0 \in 0 .. Retries /\ 0 \in 0 .. Pages
  /\ 1 \in 0 .. Retries /\ 1 \in 0 .. Pages
BY IntakeAssumption

LEMMA LeastOf ==
  ASSUME NEW S \in SUBSET Nat, S # {}
  PROVE  Min(S) \in S /\ \A n \in S : Min(S) <= n
<1>1. PICK m \in S : \A n \in S : <<n, m>> \notin OpToRel(<, Nat)
  BY WFMin, NatLessThanWellFounded
<1>2. \A n \in S : m <= n
  <2> TAKE n \in S
  <2>1. ~(n < m)
    BY <1>1 DEF OpToRel
  <2> QED BY <2>1
<1>3. m \in S /\ \A n \in S : m =< n
  BY <1>2
<1> QED BY <1>3 DEF Min

(* The greatest of finitely many numbers.                                  *)
LEMMA GreatestOf ==
  ASSUME NEW n \in Nat, NEW S \in SUBSET (1 .. n), S # {}
  PROVE  Max(S) \in S /\ \A i \in S : i <= Max(S)
<1> DEFINE T == {n - i : i \in S}
<1>1. T \in SUBSET Nat /\ T # {}
  <2>1. \A i \in S : n - i \in Nat
    OBVIOUS
  <2> QED BY <2>1
<1>2. PICK i \in S : Min(T) = n - i
  BY <1>1, LeastOf
<1>3. \A j \in S : n - i <= n - j
  BY <1>1, <1>2, LeastOf
<1>4. i \in Int /\ \A j \in S : j \in Int
  OBVIOUS
<1>5. i \in S /\ \A j \in S : i >= j
  BY <1>3, <1>4
<1>6. Max(S) \in S /\ \A j \in S : Max(S) >= j
  BY <1>5 DEF Max
<1>7. Max(S) \in Int
  BY <1>4, <1>6
<1> QED BY <1>4, <1>6, <1>7

(* A part of a sequence.                                                   *)
LEMMA PartOf ==
  ASSUME NEW S, NEW s \in Seq(S), NEW m \in Nat, NEW n \in Nat, 1 <= m, n <= Len(s)
  PROVE  /\ SubSeq(s, m, n) \in Seq(S)
         /\ Len(SubSeq(s, m, n)) = IF m <= n THEN n - m + 1 ELSE 0
         /\ \A i \in 1 .. Len(SubSeq(s, m, n)) : SubSeq(s, m, n)[i] = s[m + i - 1]
<1>1. \A i \in m .. n : s[i] \in S
  BY LenProperties
<1> QED BY <1>1, SubSeqProperties

LEMMA ToSetTyped ==
  ASSUME NEW S, NEW s \in Seq(S)
  PROVE  ToSet(s) \in SUBSET S
BY LenProperties DEF ToSet

(* The operations of a list: as many as it has rows of that kind, each in  *)
(* its place.                                                              *)
LEMMA OperationsTyped ==
  ASSUME NEW list \in Seq(RowType)
  PROVE  /\ OperationsOf(list) \in Seq(Op)
         /\ Len(OperationsOf(list)) =
              Cardinality({i \in DOMAIN list : list[i].kind = "operation"})
         /\ ToSet(OperationsOf(list)) = UNION {list[i].op : i \in DOMAIN list}
<1> DEFINE P == {i \in DOMAIN list : list[i].kind = "operation"}
           own == Picked(list, P)
<1>1. P \in SUBSET DOMAIN list /\ DOMAIN list = 1 .. Len(list)
  BY LenProperties
<1>2. /\ own \in Seq(RowType) /\ Len(own) = Cardinality(P) /\ Cardinality(P) \in Nat
      /\ \A k \in 1 .. Len(own) : Place(P, k) \in P /\ own[k] = list[Place(P, k)]
      /\ \A i \in P : \E k \in 1 .. Len(own) : own[k] = list[i]
      /\ DOMAIN own = 1 .. Len(own)
  <2> HIDE DEF P
  <2>1. own \in Seq(RowType)
    BY <1>1, PickedElements
  <2>2. /\ Len(own) = Cardinality(P) /\ Cardinality(P) \in Nat
        /\ \A k \in 1 .. Len(own) : Place(P, k) \in P /\ own[k] = list[Place(P, k)]
    BY <1>1, PickedOrder
  <2>3. \A i \in P : \E k \in 1 .. Len(own) : own[k] = list[i]
    BY <1>1, PickedEach
  <2> QED BY <2>1, <2>2, <2>3, LenProperties
<1>3. \A k \in DOMAIN own : own[k].kind = "operation" /\ own[k] \in RowType
  <2>1. \A i \in P : list[i].kind = "operation" /\ list[i] \in RowType
    BY <1>1
  <2> QED BY <1>2, <2>1
<1> DEFINE ops == [k \in DOMAIN own |-> CHOOSE o \in own[k].op : TRUE]
<1>4. OperationsOf(list) = ops
  BY DEF OperationsOf
<1> HIDE DEF own
<1>5. \A k \in DOMAIN own : ops[k] \in Op /\ own[k].op = {ops[k]}
  BY <1>3 DEF RowType
<1>6. ops \in [1 .. Len(own) -> Op] /\ Len(own) \in Nat
  BY <1>1, <1>2, <1>5
<1> HIDE DEF ops
<1>7. ops \in Seq(Op) /\ Len(ops) = Len(own) /\ DOMAIN ops = DOMAIN own
  BY <1>2, <1>6, FunctionIsSeq
<1>8. ToSet(ops) = UNION {own[k].op : k \in DOMAIN own}
  BY <1>5, <1>7 DEF ToSet
<1>9. UNION {own[k].op : k \in DOMAIN own} = UNION {list[i].op : i \in DOMAIN list}
  <2>1. \A i \in DOMAIN list : i \notin P => list[i].op = {}
    BY <1>1 DEF RowType
  <2> QED BY <1>1, <1>2, <2>1
<1> QED BY <1>2, <1>4, <1>7, <1>8, <1>9

LEMMA PageTyped ==
  ASSUME NEW list \in Seq(RowType), NEW after \in Nat
  PROVE  /\ Page(list, after) \in Seq(RowType)
         /\ Len(Page(list, after)) <= Limit
<1> DEFINE P == {i \in DOMAIN list : list[i].seq > after}
           rest == Picked(list, P)
           n == AtMost(Len(rest), Limit)
<1>1. rest \in Seq(RowType) /\ Len(rest) \in Nat
  BY PickedElements, LenProperties
<1>2. Page(list, after) = SubSeq(rest, 1, n)
  BY DEF Page
<1> HIDE DEF rest
<1>3. n \in Nat /\ n <= Len(rest) /\ n <= Limit
  BY <1>1, IntakeLimits DEF AtMost
<1> HIDE DEF n
<1> QED BY <1>1, <1>2, <1>3, PartOf

(* How far a page is taken: all of it, or to the row before the first that *)
(* is refused.                                                             *)
LEMMA TakenFacts ==
  ASSUME NEW turn \in RoundType
  PROVE  /\ Taken(turn) \in 0 .. Len(turn.page) /\ Len(turn.page) \in Nat
         /\ \A k \in 1 .. Taken(turn) : k \notin Refused(turn)
         /\ Refused(turn) # {} => Taken(turn) + 1 \in Refused(turn)
         /\ Refused(turn) = {} => Taken(turn) = Len(turn.page)
<1>1. DOMAIN turn.page = 1 .. Len(turn.page) /\ Len(turn.page) \in Nat
  BY LenProperties DEF RoundType
<1>2. Refused(turn) \in SUBSET (1 .. Len(turn.page))
  BY <1>1 DEF Refused
<1>3. CASE Refused(turn) = {}
  BY <1>1, <1>3 DEF Taken
<1>4. CASE Refused(turn) # {}
  <2>1. Min(Refused(turn)) \in Refused(turn) /\ \A k \in Refused(turn) : Min(Refused(turn)) <= k
    BY <1>2, <1>4, LeastOf
  <2>2. Taken(turn) = Min(Refused(turn)) - 1
    BY <1>4 DEF Taken
  <2> DEFINE m == Min(Refused(turn))
  <2>3. m \in 1 .. Len(turn.page)
    BY <1>2, <2>1
  <2> HIDE DEF m
  <2>4. Taken(turn) = m - 1 /\ m \in Refused(turn) /\ \A k \in Refused(turn) : m <= k
    BY <2>1, <2>2 DEF m
  <2>5. Refused(turn) \subseteq Int
    BY <1>2
  <2> QED BY <1>1, <1>4, <2>3, <2>4, <2>5
<1> QED BY <1>3, <1>4

LEMMA ReachedTyped ==
  ASSUME NEW turn \in RoundType, NEW k \in 0 .. Len(turn.page)
  PROVE  Reached(turn, k) \in Nat
<1>1. k # 0 => turn.page[k] \in RowType
  BY LenProperties DEF RoundType
<1> QED BY <1>1 DEF Reached, RoundType, RowType

LEMMA StopTyped ==
  ASSUME NEW turn \in RoundType
  PROVE  Stop(turn) \in StopType /\ NoStop \in StopType
<1>1. NoStop \in StopType
  BY IntakeLimits DEF NoStop, StopType
<1>2. ASSUME Refused(turn) # {} PROVE Stop(turn) \in StopType
  <2> DEFINE k == Taken(turn) + 1
  <2>1. k \in Refused(turn)
    BY <1>2, TakenFacts
  <2>2. turn.page[k] \in RowType
    BY <2>1, LenProperties DEF Refused, RoundType
  <2>3. turn.page[k].flaw \in Flaws \cup {"none"} /\ turn.page[k].seq \in Nat
    BY <2>2 DEF RowType
  <2>4. Refusal(turn, k) \in Flaws \cup {"none", "journal_incomplete"}
    BY <2>3 DEF Refusal
  <2>5. turn.stop.attempts \in Nat
    BY DEF RoundType, StopType
  <2>6. turn.stop.attempts + 1 \in Nat
    BY <2>5
  <2>7. Stop(turn) = Halted(turn.page[k], Refusal(turn, k), turn.stop)
    BY <1>2 DEF Stop
  <2> HIDE DEF k
  <2> QED BY <2>3, <2>4, <2>6, <2>7, IntakeLimits DEF Halted, StopType
<1> QED BY <1>1, <1>2 DEF Stop

LEMMA FoldedTyped ==
  ASSUME NEW turn \in RoundType
  PROVE  Folded(turn) \in SUBSET Op
<1>1. \A k \in 1 .. Taken(turn) : turn.page[k] \in RowType
  BY TakenFacts, LenProperties DEF RoundType
<1> QED BY <1>1 DEF Folded, RowType

LEMMA IdsTyped ==
  ASSUME NEW turn \in RoundType, NEW k \in 0 .. Len(turn.page)
  PROVE  Ids(turn, k) \in Seq(Op)
<1> DEFINE P == {i \in 1 .. k : Adds(turn, i)}
           piece == Picked(turn.page, P)
<1>1. turn.page \in Seq(RowType) /\ P \in SUBSET DOMAIN turn.page /\ turn.anchor.ids \in Seq(Op)
  BY LenProperties DEF RoundType, AnchorType
<1>2. piece \in Seq(RowType)
  BY <1>1, PickedElements
<1>3. Ids(turn, k) = turn.anchor.ids \o OperationsOf(piece)
  BY DEF Ids
<1> HIDE DEF piece
<1>4. OperationsOf(piece) \in Seq(Op)
  BY <1>2, OperationsTyped
<1> QED BY <1>1, <1>3, <1>4, ConcatProperties

LEMMA LinkTyped ==
  ASSUME NEW turn \in RoundType, NEW k \in 0 .. Len(turn.page), NEW e \in Device
  PROVE  Link(turn, e, k) \in LinkType
<1> DEFINE own == {i \in 1 .. k : turn.page[i].kind = "checkpoint" /\ turn.page[i].dev = e}
<1>1. CASE own = {}
  BY <1>1 DEF Link, RoundType, AnchorType
<1>2. CASE own # {}
  <2>1. Max(own) \in own /\ k \in Nat
    <3>1. own \in SUBSET (1 .. k) /\ k \in Nat
      BY LenProperties DEF RoundType
    <3> HIDE DEF own
    <3> QED BY <1>2, <3>1, GreatestOf
  <2>2. turn.page[Max(own)] \in RowType
    BY <2>1, LenProperties DEF RoundType
  <2> DEFINE entry == turn.page[Max(own)]
  <2>3. Link(turn, e, k) = [index |-> entry.index, digest |-> entry.digest]
    BY <1>2 DEF Link
  <2> HIDE DEF entry
  <2> QED BY <2>2, <2>3 DEF entry, RowType, LinkType
<1> QED BY <1>1, <1>2

LEMMA AnchorTyped ==
  ASSUME NEW d \in Device, NEW turn \in RoundType
  PROVE  FoldedAnchor(d, turn) \in AnchorType
<1> DEFINE n == Taken(turn)
           applied == Cardinality({k \in 1 .. n : turn.page[k].kind = "operation"})
           alarm == IF Alarms(d, turn) # {} THEN Verdict(d, turn, Max(Alarms(d, turn)))
                    ELSE IF \E k \in 1 .. n : Compared(d, turn, k) THEN NoAlarm
                    ELSE turn.anchor.alarm
           since == AtMost(turn.anchor.since + applied, Every)
           chain == [e \in Device |-> Link(turn, e, n)]
<1>1. n \in 0 .. Len(turn.page) /\ n \in Nat
  BY TakenFacts
<1>2. applied \in Nat
  <2>1. IsFiniteSet(1 .. n)
    BY <1>1, FS_Interval
  <2> QED BY <2>1, FS_Subset, FS_CardinalityType
<1>3. turn.anchor.since \in Nat /\ turn.anchor.alarm \in VerdictType /\ turn.anchor.own \in LinkType
  BY IntakeLimits DEF RoundType, AnchorType
<1> HIDE DEF applied
<1>4. since \in 0 .. Every
  BY <1>2, <1>3, IntakeLimits DEF AtMost
<1>5. alarm \in VerdictType
  BY <1>3 DEF Verdict, VerdictType, NoAlarm
<1>6. Ids(turn, n) \in Seq(Op) /\ chain \in [Device -> LinkType]
  BY <1>1, IdsTyped, LinkTyped
<1>7. FoldedAnchor(d, turn) =
        [ids |-> Ids(turn, n), chain |-> chain, own |-> turn.anchor.own, alarm |-> alarm,
         since |-> since]
  BY DEF FoldedAnchor, applied
<1> HIDE DEF n, chain, alarm, since
<1> QED BY <1>3, <1>4, <1>5, <1>6, <1>7 DEF AnchorType

(* The queue once the server has numbered it.                              *)
LEMMA NumberedFacts ==
  ASSUME rows \in Seq(RowType), NEW queue \in Seq(RowType)
  PROVE  /\ LastSeq \in Nat
         /\ Numbered(queue) \in Seq(RowType) /\ Len(Numbered(queue)) = Len(queue)
         /\ \A i \in 1 .. Len(queue) :
              Numbered(queue)[i] = [queue[i] EXCEPT !.seq = LastSeq + i]
         /\ \A i \in 1 .. Len(queue) :
              Numbered(queue)[i].seq = LastSeq + i /\ Numbered(queue)[i].op = queue[i].op
<1>1. LastSeq \in Nat
  <2>1. CASE rows = <<>>
    BY <2>1 DEF LastSeq
  <2>2. CASE rows # <<>>
    <3>1. rows[Len(rows)] \in RowType
      BY <2>2, EmptySeq, ElementOfSeq
    <3> QED BY <2>2, <3>1 DEF LastSeq, Last, RowType
  <2> QED BY <2>1, <2>2
<1> DEFINE f == [i \in DOMAIN queue |-> [queue[i] EXCEPT !.seq = LastSeq + i]]
<1>2. DOMAIN queue = 1 .. Len(queue) /\ Len(queue) \in Nat
  BY LenProperties
<1>3. ASSUME NEW i \in 1 .. Len(queue)
      PROVE  /\ f[i] = [queue[i] EXCEPT !.seq = LastSeq + i]
             /\ f[i] \in RowType /\ f[i].seq = LastSeq + i /\ f[i].op = queue[i].op
  <2>1. queue[i] \in RowType /\ LastSeq + i \in Nat
    BY <1>1, <1>2
  <2>2. f[i] = [queue[i] EXCEPT !.seq = LastSeq + i]
    BY <1>2
  <2> HIDE DEF f
  <2> QED BY <2>1, <2>2 DEF RowType
<1>4. f \in [1 .. Len(queue) -> RowType]
  BY <1>2, <1>3
<1> HIDE DEF f
<1>5. f \in Seq(RowType) /\ Len(f) = Len(queue)
  BY <1>2, <1>4, FunctionIsSeq
<1> QED BY <1>1, <1>3, <1>5 DEF Numbered, f

LEMMA FreshTyped ==
  /\ FreshAnchor \in AnchorType /\ NoStop \in StopType /\ IdleRound \in RoundType
  /\ NoLink \in LinkType
<1>1. NoLink \in LinkType
  BY DEF NoLink, LinkType, Digests, Digest
<1>2. <<>> \in Seq(Op) /\ <<>> \in Seq(RowType)
  BY EmptySeq
<1>3. FreshAnchor \in AnchorType
  BY <1>1, <1>2, IntakeLimits DEF FreshAnchor, AnchorType, VerdictType, NoAlarm
<1>4. NoStop \in StopType
  BY IntakeLimits DEF NoStop, StopType
<1> QED BY <1>1, <1>2, <1>3, <1>4, IntakeLimits DEF IdleRound, RoundType

(* What comes after a pull.                                                *)
LEMMA AfterPullTyped ==
  ASSUME NEW d \in Device, NEW anchor \in AnchorType, NEW turn \in AfterPull(d, anchor)
  PROVE  /\ turn \in RoundType /\ turn.at \in {"idle", "anchored"}
         /\ turn.at = "anchored" => turn.anchor = anchor
BY FreshTyped DEF AfterPull, RoundType, IdleRound

(* What comes of asking for a page.                                        *)
LEMMA AskedTyped ==
  ASSUME NEW d \in Device, NEW turn \in RoundType, NEW list \in Seq(RowType),
         disk[d] \in DiskType, turn.pages < Pages,
         NEW next \in Asked(d, turn, list)
  PROVE  /\ next \in RoundType /\ next.at \in {"idle", "anchored", "fold"}
         /\ next.at = "anchored" => next.anchor = disk[d].anchor
         /\ next.at = "fold" =>
              /\ next.page = Page(list, turn.cursor) /\ next.cursor = turn.cursor
              /\ next.stop = turn.stop /\ next.anchor = turn.anchor
<1> DEFINE sheet == Page(list, turn.cursor)
<1>1. sheet \in Seq(RowType)
  BY PageTyped DEF RoundType
<1>2. CASE sheet = <<>>
  BY <1>2, AfterPullTyped DEF Asked, DiskType
<1>3. CASE sheet # <<>>
  <2>1. next = [turn EXCEPT !.at = "fold", !.page = sheet, !.pages = @ + 1]
    BY <1>3 DEF Asked
  <2>2. turn.pages + 1 \in 0 .. Pages
    BY IntakeLimits DEF RoundType
  <2> HIDE DEF sheet
  <2>3. /\ next \in RoundType /\ next.at = "fold" /\ next.page = sheet /\ next.cursor = turn.cursor
        /\ next.stop = turn.stop /\ next.anchor = turn.anchor
    BY <1>1, <2>1, <2>2 DEF RoundType
  <2> QED BY <2>3 DEF sheet
<1> QED BY <1>2, <1>3

(* What comes after a page.                                                *)
LEMMA AfterPageTyped ==
  ASSUME NEW d \in Device, NEW turn \in RoundType, NEW next \in AfterPage(d, turn)
  PROVE  /\ next \in RoundType /\ next.at \in {"idle", "anchored", "fetch"}
         /\ next.at = "anchored" => next.anchor = FoldedAnchor(d, turn)
         /\ next.at = "fetch" =>
              /\ next.pages < Pages /\ next.cursor = Reached(turn, Taken(turn))
              /\ next.anchor = FoldedAnchor(d, turn)
<1> DEFINE last == Refused(turn) # {} \/ Len(turn.page) < Limit \/ turn.pages >= Pages
           cursor == Reached(turn, Taken(turn))
           anchor == FoldedAnchor(d, turn)
<1>1. anchor \in AnchorType
  BY AnchorTyped
<1>2. cursor \in Nat
  BY TakenFacts, ReachedTyped
<1>3. CASE last
  BY <1>1, <1>3, AfterPullTyped DEF AfterPage
<1>4. CASE ~last
  <2>1. next = [turn EXCEPT !.at = "fetch", !.cursor = cursor, !.stop = NoStop,
                            !.anchor = anchor, !.page = <<>>]
    BY <1>4 DEF AfterPage
  <2>2. turn.pages < Pages
    BY <1>4, IntakeLimits DEF RoundType
  <2>3. <<>> \in Seq(RowType)
    BY EmptySeq
  <2> HIDE DEF cursor, anchor
  <2>4. /\ next \in RoundType /\ next.at = "fetch" /\ next.cursor = cursor /\ next.anchor = anchor
        /\ next.pages = turn.pages
    BY <1>1, <1>2, <2>1, <2>3, FreshTyped DEF RoundType
  <2> QED BY <2>2, <2>4 DEF cursor, anchor
<1> QED BY <1>3, <1>4

(* A round goes on as this.                                                *)
LEMMA GoesTyped ==
  ASSUME round \in [Device -> [Round -> RoundType]], NEW d \in Device, NEW r \in Round,
         NEW turn \in RoundType, Goes(d, r, turn)
  PROVE  /\ round' \in [Device -> [Round -> RoundType]]
         /\ \A e \in Device, s \in Round :
              round'[e][s] = IF e = d /\ s = r THEN turn ELSE round[e][s]
BY DEF Goes

-----------------------------------------------------------------------------
(* What is at the start of a list is in the journal.                       *)

Has(list, n, ops) ==
  n <= Len(list) /\ \A i \in 1 .. n : list[i].op \subseteq ops

(* A call knows how far it has come, and holds the rows that come next.    *)
CallGood(list, journal, turn) ==
  /\ turn.at \in {"fold", "fetch"} => Has(list, turn.cursor, journal)
  /\ turn.at = "fold" => \A k \in 1 .. Len(turn.page) :
       turn.cursor + k <= Len(list) /\ turn.page[k] = list[turn.cursor + k]

Whole(list, dk, rd) ==
  /\ \A i \in 1 .. Len(list) : list[i].seq = i
  /\ \A d \in Device :
       /\ Has(list, dk[d].cursor, dk[d].journal)
       /\ \A r \in Round : CallGood(list, dk[d].journal, rd[d][r])

IntakeInvariant ==
  /\ IntakeTyped(rows, disk, round, faults, past)
  /\ faults = 0 => Whole(rows, disk, round)

(* A list that has grown, a journal that has grown.                        *)
LEMMA HasMore ==
  ASSUME NEW list \in Seq(RowType), NEW more \in Seq(RowType), NEW n \in Nat, NEW ops, NEW ops2,
         Has(list, n, ops), ops \subseteq ops2
  PROVE  Has(list \o more, n, ops2)
<1>1. /\ Len(list \o more) = Len(list) + Len(more) /\ Len(list) \in Nat /\ Len(more) \in Nat
      /\ \A i \in 1 .. Len(list) : (list \o more)[i] = list[i]
  BY ConcatProperties, LenProperties
<1> QED BY <1>1 DEF Has

LEMMA CallStaysGood ==
  ASSUME NEW list \in Seq(RowType), NEW more \in Seq(RowType), NEW turn \in RoundType,
         NEW ops, NEW ops2, CallGood(list, ops, turn), ops \subseteq ops2
  PROVE  CallGood(list \o more, ops2, turn)
<1>1. /\ Len(list \o more) = Len(list) + Len(more) /\ Len(list) \in Nat /\ Len(more) \in Nat
      /\ \A i \in 1 .. Len(list) : (list \o more)[i] = list[i]
  BY ConcatProperties, LenProperties
<1>2. turn.cursor \in Nat /\ Len(turn.page) \in Nat
  BY LenProperties DEF RoundType
<1>3. turn.at \in {"fold", "fetch"} => Has(list \o more, turn.cursor, ops2)
  BY <1>2, HasMore DEF CallGood
<1>4. ASSUME turn.at = "fold", NEW k \in 1 .. Len(turn.page)
      PROVE  turn.cursor + k <= Len(list \o more) /\ turn.page[k] = (list \o more)[turn.cursor + k]
  <2>1. turn.cursor + k <= Len(list) /\ turn.page[k] = list[turn.cursor + k]
    BY <1>4 DEF CallGood
  <2>2. turn.cursor + k \in 1 .. Len(list)
    BY <1>1, <1>2, <2>1
  <2> QED BY <1>1, <2>1, <2>2
<1> QED BY <1>3, <1>4 DEF CallGood

LEMMA TailPicked ==
  ASSUME NEW list \in Seq(RowType), NEW after \in Nat, after <= Len(list)
  PROVE  /\ Len(Picked(list, (after + 1) .. Len(list))) = Len(list) - after
         /\ \A k \in 1 .. Len(list) - after :
              Picked(list, (after + 1) .. Len(list))[k] = list[after + k]
<1> DEFINE n == Len(list)
<1>1. n \in Nat /\ n = Len(list) /\ n <= Len(list)
  BY LenProperties
<1> HIDE DEF n
<1>2. /\ Len(Picked(list, (after + 1) .. n)) = n - after
      /\ \A k \in 1 .. n - after : Picked(list, (after + 1) .. n)[k] = list[after + k]
  BY <1>1, PickedInterval
<1> QED BY <1>1, <1>2

(* The page that is asked for is the rows that come next.                  *)
LEMMA PageExact ==
  ASSUME NEW list \in Seq(RowType), NEW after \in Nat, after <= Len(list),
         \A i \in 1 .. Len(list) : list[i].seq = i
  PROVE  \A k \in 1 .. Len(Page(list, after)) :
           after + k <= Len(list) /\ Page(list, after)[k] = list[after + k]
<1> DEFINE P == {i \in DOMAIN list : list[i].seq > after}
           rest == Picked(list, P)
           n == AtMost(Len(rest), Limit)
<1>1. Len(list) \in Nat /\ DOMAIN list = 1 .. Len(list)
  BY LenProperties
<1>2. P = (after + 1) .. Len(list)
  BY <1>1
<1>3. /\ Len(rest) = Len(list) - after
      /\ \A k \in 1 .. Len(list) - after : rest[k] = list[after + k]
  <2> HIDE DEF P
  <2> QED BY <1>2, TailPicked
<1>4. rest \in Seq(RowType) /\ Len(rest) \in Nat
  <2>1. P \in SUBSET DOMAIN list
    OBVIOUS
  <2> HIDE DEF P
  <2> QED BY <2>1, PickedElements, LenProperties
<1>5. Page(list, after) = SubSeq(rest, 1, n)
  BY DEF Page
<1>6. n \in Nat /\ n <= Len(rest)
  <2> HIDE DEF rest
  <2> QED BY <1>4, IntakeLimits DEF AtMost
<1> HIDE DEF rest, n
<1>7. Len(SubSeq(rest, 1, n)) = n /\ \A k \in 1 .. n : SubSeq(rest, 1, n)[k] = rest[k]
  <2>1. /\ Len(SubSeq(rest, 1, n)) = IF 1 <= n THEN n - 1 + 1 ELSE 0
        /\ \A k \in 1 .. Len(SubSeq(rest, 1, n)) : SubSeq(rest, 1, n)[k] = rest[1 + k - 1]
    BY <1>4, <1>6, PartOf
  <2>2. Len(SubSeq(rest, 1, n)) = n
    BY <1>6, <2>1
  <2>3. \A k \in 1 .. n : 1 + k - 1 = k
    BY <1>6
  <2> QED BY <2>1, <2>2, <2>3
<1> QED BY <1>1, <1>3, <1>5, <1>6, <1>7

-----------------------------------------------------------------------------
(* The actions.                                                            *)

LEMMA IntakeStarts == Init => IntakeInvariant
<1> SUFFICES ASSUME Init PROVE IntakeInvariant
  OBVIOUS
<1>1. <<>> \in Seq(RowType) /\ Len(<<>>) = 0
  BY EmptySeq
<1>2. [journal |-> {}, outbox |-> <<>>, cursor |-> 0, stop |-> NoStop, anchor |-> FreshAnchor]
        \in DiskType
  BY <1>1, FreshTyped DEF DiskType
<1>3. NothingPassed \in PastType
  BY <1>1 DEF NothingPassed, PastType
<1>4. IntakeTyped(rows, disk, round, faults, past)
  BY <1>1, <1>2, <1>3, FreshTyped, IntakeLimits DEF Init, IntakeTyped, IdleRound
<1>5. Whole(rows, disk, round)
  BY <1>1 DEF Init, Whole, Has, CallGood, IdleRound
<1> QED BY <1>4, <1>5 DEF IntakeInvariant

(* The disk of a device is another one now.                                *)
LEMMA DiskTyped ==
  ASSUME disk \in [Device -> DiskType], NEW d \in Device, NEW device \in DiskType,
         disk' = [disk EXCEPT ![d] = device]
  PROVE  /\ disk' \in [Device -> DiskType]
         /\ \A e \in Device : disk'[e] = IF e = d THEN device ELSE disk[e]
OBVIOUS

LEMMA WriteKeeps ==
  ASSUME IntakeInvariant, NEW d \in Device, NEW o \in Op, Write(d, o)
  PROVE  IntakeInvariant'
<1>1. /\ IntakeTyped(rows, disk, round, faults, past) /\ (faults = 0 => Whole(rows, disk, round))
      /\ disk[d] \in DiskType /\ disk \in [Device -> DiskType]
      /\ rows' = rows /\ round' = round /\ faults' = faults /\ past' = past
  BY DEF IntakeInvariant, IntakeTyped, Write
<1> DEFINE entry == OperationRow(d, o)
           queue == Append(disk[d].outbox, entry)
           journal == disk[d].journal \cup {o}
           device == [disk[d] EXCEPT !.journal = journal, !.outbox = queue]
<1>2. entry \in RowType
  BY DEF OperationRow, RowType, Digests, Digest
<1>3. queue \in Seq(RowType) /\ journal \in SUBSET Op
  BY <1>1, <1>2 DEF DiskType
<1>4. disk' = [disk EXCEPT ![d] = device]
  BY <1>1 DEF Write, DiskType
<1> HIDE DEF entry, queue
<1>5. device \in DiskType /\ device.cursor = disk[d].cursor /\ device.journal = journal
  BY <1>1, <1>3 DEF DiskType
<1> HIDE DEF device
<1>6. disk' \in [Device -> DiskType] /\ \A e \in Device : disk'[e] = IF e = d THEN device ELSE disk[e]
  BY <1>1, <1>4, <1>5, DiskTyped
<1>7. IntakeTyped(rows', disk', round', faults', past')
  BY <1>1, <1>6 DEF IntakeTyped
<1>8. ASSUME faults = 0 PROVE Whole(rows', disk', round')
  <2>1. ASSUME NEW e \in Device
        PROVE  /\ Has(rows, disk'[e].cursor, disk'[e].journal)
               /\ \A r \in Round : CallGood(rows, disk'[e].journal, round[e][r])
    <3>1. /\ Has(rows, disk[e].cursor, disk[e].journal)
          /\ \A r \in Round : CallGood(rows, disk[e].journal, round[e][r])
      BY <1>1, <1>8 DEF Whole
    <3>2. disk'[e].cursor = disk[e].cursor /\ disk[e].journal \subseteq disk'[e].journal
      BY <1>5, <1>6
    <3> HIDE DEF journal
    <3> QED BY <3>1, <3>2 DEF Has, CallGood
  <2> QED BY <1>1, <1>8, <2>1 DEF Whole
<1> QED BY <1>1, <1>7, <1>8 DEF IntakeInvariant

(* The queue is numbered behind everything there is, and a page asked for. *)
LEMMA BeginKeeps ==
  ASSUME IntakeInvariant, NEW d \in Device, NEW r \in Round, Begin(d, r)
  PROVE  IntakeInvariant'
<1>1. /\ IntakeTyped(rows, disk, round, faults, past) /\ (faults = 0 => Whole(rows, disk, round))
      /\ disk[d] \in DiskType /\ disk \in [Device -> DiskType] /\ rows \in Seq(RowType)
      /\ past \in [Device -> PastType] /\ round \in [Device -> [Round -> RoundType]]
      /\ faults' = faults
  BY DEF IntakeInvariant, IntakeTyped, Begin
<1> DEFINE more == Numbered(disk[d].outbox)
           device == [disk[d] EXCEPT !.outbox = <<>>]
           first == [IdleRound EXCEPT !.cursor = disk[d].cursor, !.stop = disk[d].stop,
                                      !.anchor = disk[d].anchor]
<1>2. more \in Seq(RowType) /\ Len(more) = Len(disk[d].outbox)
      /\ \A i \in 1 .. Len(more) : more[i].seq = LastSeq + i
  BY <1>1, NumberedFacts DEF DiskType
<1>3. /\ rows' = rows \o more /\ rows' \in Seq(RowType)
      /\ Len(rows') = Len(rows) + Len(more) /\ Len(rows) \in Nat /\ Len(more) \in Nat
      /\ \A i \in 1 .. Len(rows') : rows'[i] = IF i <= Len(rows) THEN rows[i] ELSE more[i - Len(rows)]
  <2>1. rows' = rows \o more
    BY DEF Begin
  <2> HIDE DEF more
  <2>2. rows \in Seq(RowType) /\ more \in Seq(RowType)
    BY <1>1, <1>2
  <2>3. /\ rows \o more \in Seq(RowType) /\ Len(rows \o more) = Len(rows) + Len(more)
        /\ \A i \in 1 .. Len(rows) + Len(more) :
             (rows \o more)[i] = IF i <= Len(rows) THEN rows[i] ELSE more[i - Len(rows)]
    BY <2>2, ConcatProperties
  <2>4. Len(rows) \in Nat /\ Len(more) \in Nat
    BY <2>2, LenProperties
  <2> QED BY <2>1, <2>3, <2>4
<1> HIDE DEF more
<1>4. <<>> \in Seq(RowType)
  BY EmptySeq
<1>5. /\ device \in DiskType /\ device.cursor = disk[d].cursor /\ device.journal = disk[d].journal
  BY <1>1, <1>4 DEF DiskType
<1>6. disk' = [disk EXCEPT ![d] = device]
  BY <1>1 DEF Begin
<1> HIDE DEF device
<1>7. /\ disk' \in [Device -> DiskType]
      /\ \A e \in Device : disk'[e].cursor = disk[e].cursor /\ disk'[e].journal = disk[e].journal
  BY <1>1, <1>5, <1>6, DiskTyped
<1>8. /\ first \in RoundType /\ first.cursor = disk[d].cursor /\ first.pages = 0
      /\ first.stop = disk[d].stop /\ first.anchor = disk[d].anchor
  BY <1>1, FreshTyped DEF DiskType, RoundType, IdleRound
<1>9. PICK turn \in Asked(d, first, rows') : Goes(d, r, turn)
  BY DEF Begin
<1> HIDE DEF first
<1>10. /\ turn \in RoundType /\ turn.at \in {"idle", "anchored", "fold"}
       /\ turn.at = "fold" => turn.page = Page(rows', disk[d].cursor) /\ turn.cursor = disk[d].cursor
  <2>1. first.pages < Pages
    BY <1>8, IntakeLimits
  <2>2. rows' \in Seq(RowType) /\ first \in RoundType /\ disk[d] \in DiskType
    BY <1>1, <1>3, <1>8
  <2>3. /\ turn \in RoundType /\ turn.at \in {"idle", "anchored", "fold"}
        /\ turn.at = "fold" => turn.page = Page(rows', first.cursor) /\ turn.cursor = first.cursor
    BY <1>9, <2>1, <2>2, AskedTyped
  <2> QED BY <1>8, <2>3
<1>11. /\ round' \in [Device -> [Round -> RoundType]]
       /\ \A e \in Device, s \in Round :
            round'[e][s] = IF e = d /\ s = r THEN turn ELSE round[e][s]
  BY <1>1, <1>9, <1>10, GoesTyped
<1>12. past' \in [Device -> PastType]
  <2>1. [NothingPassed EXCEPT !.overlap = TRUE] \in PastType
    BY <1>4 DEF NothingPassed, PastType
  <2> QED BY <1>1, <2>1 DEF Begin
<1>13. IntakeTyped(rows', disk', round', faults', past')
  BY <1>1, <1>3, <1>7, <1>10, <1>11, <1>12 DEF IntakeTyped
<1>14. ASSUME faults = 0 PROVE Whole(rows', disk', round')
  <2>1. Whole(rows, disk, round)
    BY <1>1, <1>14
  <2>2. LastSeq = Len(rows)
    <3>1. CASE rows = <<>>
      BY <3>1, EmptySeq DEF LastSeq
    <3>2. CASE rows # <<>>
      <4>1. Len(rows) \in 1 .. Len(rows)
        BY <1>1, <3>2, EmptySeq
      <4> QED BY <2>1, <3>2, <4>1 DEF LastSeq, Last, Whole
    <3> QED BY <3>1, <3>2
  <2>3. \A i \in 1 .. Len(rows') : rows'[i].seq = i
    <3> TAKE i \in 1 .. Len(rows')
    <3>1. CASE i <= Len(rows)
      BY <1>3, <2>1, <3>1 DEF Whole
    <3>2. CASE ~(i <= Len(rows))
      <4>1. i - Len(rows) \in 1 .. Len(more)
        BY <1>3, <3>2
      <4> QED BY <1>2, <1>3, <2>2, <3>2, <4>1
    <3> QED BY <3>1, <3>2
  <2>4. ASSUME NEW e \in Device
        PROVE  Has(rows', disk'[e].cursor, disk'[e].journal)
    <3>1. disk[e].cursor \in Nat
      BY <1>1 DEF DiskType
    <3> QED BY <1>1, <1>2, <1>3, <1>7, <2>1, <3>1, HasMore DEF Whole
  <2>5. CallGood(rows', disk'[d].journal, turn)
    <3>1. Has(rows', disk[d].cursor, disk'[d].journal)
      BY <1>7, <2>4
    <3>2. disk[d].cursor \in Nat
      BY <1>1 DEF DiskType
    <3>3. disk[d].cursor <= Len(rows')
      BY <3>1 DEF Has
    <3>4. \A k \in 1 .. Len(Page(rows', disk[d].cursor)) :
            /\ disk[d].cursor + k <= Len(rows')
            /\ Page(rows', disk[d].cursor)[k] = rows'[disk[d].cursor + k]
      BY <1>3, <2>3, <3>2, <3>3, PageExact
    <3>5. CASE turn.at = "fold"
      BY <1>10, <3>1, <3>4, <3>5 DEF CallGood
    <3>6. CASE turn.at # "fold"
      BY <1>10, <3>6 DEF CallGood
    <3> QED BY <3>5, <3>6
  <2>6. ASSUME NEW e \in Device, NEW s \in Round, ~(e = d /\ s = r)
        PROVE  CallGood(rows', disk'[e].journal, round'[e][s])
    <3>1. round[e][s] \in RoundType /\ CallGood(rows, disk[e].journal, round[e][s])
      BY <1>1, <2>1 DEF Whole
    <3> QED BY <1>1, <1>2, <1>3, <1>7, <1>11, <2>6, <3>1, CallStaysGood
  <2>7. \A e \in Device, s \in Round : CallGood(rows', disk'[e].journal, round'[e][s])
    BY <1>11, <2>5, <2>6
  <2> QED BY <2>3, <2>4, <2>7 DEF Whole
<1> QED BY <1>1, <1>13, <1>14 DEF IntakeInvariant

(* Only one round of a device has gone on, and well.                       *)
LEMMA RoundKeeps ==
  ASSUME IntakeInvariant, NEW d \in Device, NEW r \in Round, NEW turn \in RoundType, Goes(d, r, turn),
         turn.at = "fetch" => turn.pages < Pages,
         faults = 0 => CallGood(rows, disk[d].journal, turn),
         rows' = rows, disk' = disk, faults' = faults, past' = past
  PROVE  IntakeInvariant'
<1>1. IntakeTyped(rows, disk, round, faults, past) /\ (faults = 0 => Whole(rows, disk, round))
  BY DEF IntakeInvariant
<1>2. /\ round' \in [Device -> [Round -> RoundType]]
      /\ \A e \in Device, s \in Round :
           round'[e][s] = IF e = d /\ s = r THEN turn ELSE round[e][s]
  BY <1>1, GoesTyped DEF IntakeTyped
<1>3. IntakeTyped(rows', disk', round', faults', past')
  BY <1>1, <1>2 DEF IntakeTyped
<1>4. faults = 0 => Whole(rows', disk', round')
  BY <1>1, <1>2 DEF Whole
<1> QED BY <1>3, <1>4 DEF IntakeInvariant

LEMMA NextPageKeeps ==
  ASSUME IntakeInvariant, NEW d \in Device, NEW r \in Round, NextPage(d, r)
  PROVE  IntakeInvariant'
<1>1. /\ round[d][r] \in RoundType /\ disk[d] \in DiskType /\ rows \in Seq(RowType)
      /\ round[d][r].at = "fetch" /\ round[d][r].pages < Pages
  BY DEF IntakeInvariant, IntakeTyped, NextPage
<1>2. PICK turn \in Asked(d, round[d][r], rows) : Goes(d, r, turn)
  BY DEF NextPage
<1>3. /\ turn \in RoundType /\ turn.at \in {"idle", "anchored", "fold"}
      /\ turn.at = "fold" => /\ turn.page = Page(rows, round[d][r].cursor)
                             /\ turn.cursor = round[d][r].cursor
  BY <1>1, <1>2, AskedTyped
<1>4. ASSUME faults = 0 PROVE CallGood(rows, disk[d].journal, turn)
  <2>1. CallGood(rows, disk[d].journal, round[d][r]) /\ \A i \in 1 .. Len(rows) : rows[i].seq = i
    BY <1>4 DEF IntakeInvariant, Whole
  <2>2. Has(rows, round[d][r].cursor, disk[d].journal) /\ round[d][r].cursor \in Nat
    BY <1>1, <2>1 DEF CallGood, RoundType
  <2>3. round[d][r].cursor <= Len(rows)
    BY <2>2 DEF Has
  <2> QED BY <1>1, <1>3, <2>1, <2>2, <2>3, PageExact DEF CallGood
<1> QED BY <1>2, <1>3, <1>4, RoundKeeps DEF NextPage

LEMMA AbandonKeeps ==
  ASSUME IntakeInvariant, NEW d \in Device, NEW r \in Round, Abandon(d, r)
  PROVE  IntakeInvariant'
<1>1. CallGood(rows, disk[d].journal, IdleRound) /\ IdleRound.at = "idle"
  BY DEF CallGood, IdleRound
<1> QED BY <1>1, FreshTyped, RoundKeeps DEF Abandon

(* What the page brought is in the journal when the cursor passes it, even *)
(* where another round had taken the cursor further.                       *)
LEMMA FoldPageKeeps ==
  ASSUME IntakeInvariant, NEW d \in Device, NEW r \in Round, FoldPage(d, r)
  PROVE  IntakeInvariant'
<1> DEFINE turn == round[d][r]
           n == Taken(turn)
           cursor == Reached(turn, n)
           journal == disk[d].journal \cup Folded(turn)
           device == [disk[d] EXCEPT !.cursor = cursor, !.stop = Stop(turn),
                                     !.journal = journal, !.anchor = FoldedAnchor(d, turn)]
<1>1. /\ IntakeTyped(rows, disk, round, faults, past) /\ (faults = 0 => Whole(rows, disk, round))
      /\ disk[d] \in DiskType /\ disk \in [Device -> DiskType] /\ rows \in Seq(RowType)
      /\ past \in [Device -> PastType] /\ round \in [Device -> [Round -> RoundType]]
      /\ turn \in RoundType /\ turn.at = "fold"
      /\ rows' = rows /\ faults' = faults
  BY DEF IntakeInvariant, IntakeTyped, FoldPage
<1>2. n \in 0 .. Len(turn.page) /\ n \in Nat /\ Len(turn.page) \in Nat /\ cursor \in Nat
  BY <1>1, TakenFacts, ReachedTyped
<1>3. journal \in SUBSET Op /\ Stop(turn) \in StopType /\ FoldedAnchor(d, turn) \in AnchorType
  BY <1>1, FoldedTyped, StopTyped, AnchorTyped DEF DiskType
<1>4. disk' = [disk EXCEPT ![d] = device]
  BY <1>1 DEF FoldPage, KeptRecords
<1>5. PICK next \in AfterPage(d, turn) : Goes(d, r, next)
  BY DEF FoldPage
<1>6. PassedBy(d, turn)
  BY DEF FoldPage
<1> HIDE DEF turn
<1>7. device \in DiskType /\ device.cursor = cursor /\ device.journal = journal
  <2> HIDE DEF journal, cursor
  <2> QED BY <1>1, <1>2, <1>3 DEF DiskType
<1> HIDE DEF device, journal
<1>8. disk' \in [Device -> DiskType] /\ \A e \in Device : disk'[e] = IF e = d THEN device ELSE disk[e]
  BY <1>1, <1>4, <1>7, DiskTyped
<1>9. /\ next \in RoundType /\ next.at \in {"idle", "anchored", "fetch"}
      /\ next.at = "fetch" => next.pages < Pages /\ next.cursor = cursor
  BY <1>1, <1>5, AfterPageTyped
<1>10. /\ round' \in [Device -> [Round -> RoundType]]
       /\ \A e \in Device, s \in Round :
            round'[e][s] = IF e = d /\ s = r THEN next ELSE round[e][s]
  BY <1>1, <1>5, <1>9, GoesTyped
<1>11. past' \in [Device -> PastType]
  <2> DEFINE list == past[d].rows \o SubSeq(turn.page, 1, n)
             alarmed == past[d].alarmed \/ Alarms(d, turn) # {}
  <2>1. SubSeq(turn.page, 1, n) \in Seq(RowType)
    BY <1>1, <1>2, PartOf DEF RoundType
  <2>2. past[d] \in PastType
    BY <1>1
  <2>3. list \in Seq(RowType) /\ alarmed \in BOOLEAN
    BY <2>1, <2>2, ConcatProperties DEF PastType
  <2>4. past' = past \/ past' = [past EXCEPT ![d] = [past[d] EXCEPT !.rows = list, !.alarmed = alarmed]]
    BY <1>1, <1>6, <2>2 DEF PassedBy, PastType
  <2> HIDE DEF list, alarmed
  <2>5. [past[d] EXCEPT !.rows = list, !.alarmed = alarmed] \in PastType
    BY <2>2, <2>3 DEF PastType
  <2> QED BY <1>1, <2>4, <2>5
<1>12. IntakeTyped(rows', disk', round', faults', past')
  BY <1>1, <1>8, <1>7, <1>9, <1>10, <1>11 DEF IntakeTyped
<1>13. ASSUME faults = 0 PROVE Whole(rows', disk', round')
  <2>1. Whole(rows, disk, round)
    BY <1>1, <1>13
  <2>2. CallGood(rows, disk[d].journal, turn)
    BY <2>1 DEF Whole, turn
  <2>3. Has(rows, cursor, journal)
    <3>1. turn.cursor \in Nat /\ Len(rows) \in Nat
      BY <1>1, LenProperties DEF RoundType
    <3>2. cursor = turn.cursor + n /\ cursor <= Len(rows)
      <4>1. CASE n = 0
        BY <1>1, <2>2, <3>1, <4>1 DEF Reached, CallGood, Has
      <4>2. CASE n # 0
        <5>1. n \in 1 .. Len(turn.page) /\ turn.cursor + n \in 1 .. Len(rows)
          BY <1>1, <1>2, <2>2, <3>1, <4>2 DEF CallGood
        <5>2. cursor = turn.page[n].seq /\ turn.page[n] = rows[turn.cursor + n]
          BY <1>1, <2>2, <4>2, <5>1 DEF Reached, CallGood
        <5> QED BY <2>1, <5>1, <5>2 DEF Whole
      <4> QED BY <4>1, <4>2
    <3>3. ASSUME NEW i \in 1 .. cursor PROVE rows[i].op \subseteq journal
      <4>1. CASE i <= turn.cursor
        BY <1>1, <2>2, <3>1, <4>1 DEF CallGood, Has, journal
      <4>2. CASE ~(i <= turn.cursor)
        <5> DEFINE k == i - turn.cursor
        <5>1. k \in 1 .. n /\ k \in 1 .. Len(turn.page) /\ turn.cursor + k = i
          BY <1>2, <3>1, <3>2, <4>2
        <5>2. turn.page[k] = rows[i]
          BY <1>1, <2>2, <5>1 DEF CallGood
        <5>3. turn.page[k].op \subseteq Folded(turn)
          BY <5>1 DEF Folded
        <5> QED BY <5>2, <5>3 DEF journal
      <4> QED BY <4>1, <4>2
    <3> QED BY <3>2, <3>3 DEF Has
  <2>4. ASSUME NEW e \in Device PROVE Has(rows, disk'[e].cursor, disk'[e].journal)
    BY <1>7, <1>8, <2>1, <2>3 DEF Whole
  <2>5. ASSUME NEW e \in Device, NEW s \in Round
        PROVE  CallGood(rows, disk'[e].journal, round'[e][s])
    <3>1. CASE e = d /\ s = r
      BY <1>7, <1>8, <1>9, <1>10, <2>3, <3>1 DEF CallGood
    <3>2. CASE ~(e = d /\ s = r)
      <4>1. CallGood(rows, disk[e].journal, round[e][s])
        BY <2>1 DEF Whole
      <4>2. disk[e].journal \subseteq disk'[e].journal
        BY <1>7, <1>8 DEF journal
      <4> QED BY <1>10, <3>2, <4>1, <4>2 DEF CallGood, Has
    <3> QED BY <3>1, <3>2
  <2> QED BY <1>1, <2>1, <2>4, <2>5 DEF Whole
<1> QED BY <1>1, <1>12, <1>13 DEF IntakeInvariant

LEMMA WriteCheckpointKeeps ==
  ASSUME IntakeInvariant, NEW d \in Device, NEW r \in Round, WriteCheckpoint(d, r)
  PROVE  IntakeInvariant'
<1> DEFINE turn == round[d][r]
           entry == NextLink(d, turn.anchor)
           queue == Append(disk[d].outbox, entry)
           own == [index |-> entry.index, digest |-> entry.digest]
           anchor == [turn.anchor EXCEPT !.own = own, !.since = 0]
           device == [disk[d] EXCEPT !.outbox = queue, !.anchor = anchor]
<1>1. /\ IntakeTyped(rows, disk, round, faults, past) /\ (faults = 0 => Whole(rows, disk, round))
      /\ disk[d] \in DiskType /\ disk \in [Device -> DiskType]
      /\ round \in [Device -> [Round -> RoundType]] /\ turn \in RoundType
      /\ rows' = rows /\ faults' = faults /\ past' = past /\ Goes(d, r, IdleRound)
  BY DEF IntakeInvariant, IntakeTyped, WriteCheckpoint
<1>2. disk' = [disk EXCEPT ![d] = device]
  BY <1>1 DEF WriteCheckpoint, DiskType
<1>3. turn.anchor \in AnchorType
  BY <1>1 DEF RoundType
<1> HIDE DEF turn
<1>4. entry \in RowType
  <2>1. /\ turn.anchor.own.index + 1 \in Nat /\ turn.anchor.own.digest \in Digests
        /\ Len(turn.anchor.ids) \in Nat /\ ToSet(turn.anchor.ids) \in SUBSET Op
    BY <1>3, LenProperties, ToSetTyped DEF AnchorType, LinkType
  <2>2. Seed(d) \in Digests /\ Digest(ToSet(turn.anchor.ids)) \in Digests
    BY <2>1 DEF Seed, Digest, Digests
  <2> DEFINE prev == IF turn.anchor.own = NoLink THEN Seed(d) ELSE turn.anchor.own.digest
             index == turn.anchor.own.index + 1
             count == Len(turn.anchor.ids)
             digest == Digest(ToSet(turn.anchor.ids))
  <2>3. prev \in Digests /\ index \in Nat /\ count \in Nat /\ digest \in Digests
    BY <2>1, <2>2
  <2>4. entry = [kind |-> "checkpoint", dev |-> d, flaw |-> "none", seq |-> 0, op |-> {},
               index |-> index, count |-> count, prev |-> prev, digest |-> digest]
    BY DEF NextLink, CheckpointRow
  <2> HIDE DEF prev, index, count, digest, entry
  <2> QED BY <2>3, <2>4 DEF RowType
<1> HIDE DEF entry
<1>5. queue \in Seq(RowType) /\ own \in LinkType
  BY <1>1, <1>4 DEF DiskType, RowType, LinkType
<1> HIDE DEF queue, own
<1>6. anchor \in AnchorType
  BY <1>3, <1>5, IntakeLimits DEF AnchorType
<1> HIDE DEF anchor
<1>7. device \in DiskType /\ device.cursor = disk[d].cursor /\ device.journal = disk[d].journal
  BY <1>1, <1>5, <1>6 DEF DiskType
<1> HIDE DEF device
<1>8. /\ disk' \in [Device -> DiskType]
      /\ \A e \in Device : disk'[e].cursor = disk[e].cursor /\ disk'[e].journal = disk[e].journal
  BY <1>1, <1>2, <1>7, DiskTyped
<1>9. /\ round' \in [Device -> [Round -> RoundType]]
      /\ \A e \in Device, s \in Round :
           round'[e][s] = IF e = d /\ s = r THEN IdleRound ELSE round[e][s]
  BY <1>1, FreshTyped, GoesTyped
<1>10. IntakeTyped(rows', disk', round', faults', past')
  <2>1. \A e \in Device, s \in Round : round'[e][s].at = "fetch" => round'[e][s].pages < Pages
    <3>1. \A e \in Device, s \in Round : round[e][s].at = "fetch" => round[e][s].pages < Pages
      BY <1>1 DEF IntakeTyped
    <3>2. IdleRound.at # "fetch"
      BY DEF IdleRound
    <3> QED BY <1>9, <3>1, <3>2
  <2> QED BY <1>1, <1>8, <1>9, <2>1 DEF IntakeTyped
<1>11. faults = 0 => Whole(rows', disk', round')
  BY <1>1, <1>8, <1>9 DEF Whole, CallGood, IdleRound
<1> QED BY <1>1, <1>10, <1>11 DEF IntakeInvariant

(* The list is harmed: it is still a list.                                 *)
LEMMA HarmKeeps ==
  ASSUME IntakeInvariant, Harmed, rows' \in Seq(RowType)
  PROVE  IntakeInvariant'
<1>1. faults' \in 0 .. MaxFaults /\ faults' # 0
  BY IntakeLimits DEF Harmed, IntakeInvariant, IntakeTyped
<1> QED BY <1>1 DEF Harmed, IntakeInvariant, IntakeTyped

LEMMA LoseTailKeeps ==
  ASSUME IntakeInvariant, NEW n \in 0 .. Len(rows), LoseTail(n)
  PROVE  IntakeInvariant'
<1>1. rows \in Seq(RowType) /\ Len(rows) \in Nat
  BY LenProperties DEF IntakeInvariant, IntakeTyped
<1>2. SubSeq(rows, 1, n) \in Seq(RowType)
  BY <1>1, PartOf
<1> QED BY <1>2, HarmKeeps DEF LoseTail

LEMMA LoseRowKeeps ==
  ASSUME IntakeInvariant, NEW n \in DOMAIN rows, LoseRow(n)
  PROVE  IntakeInvariant'
<1>1. rows \in Seq(RowType) /\ Len(rows) \in Nat /\ n \in 1 .. Len(rows)
  BY LenProperties DEF IntakeInvariant, IntakeTyped
<1>2. SubSeq(rows, 1, n - 1) \in Seq(RowType) /\ SubSeq(rows, n + 1, Len(rows)) \in Seq(RowType)
  <2>1. n - 1 \in Nat /\ n - 1 <= Len(rows) /\ n + 1 \in Nat /\ 1 <= n + 1
    BY <1>1
  <2> QED BY <1>1, <2>1, PartOf
<1>3. RemoveAt(rows, n) \in Seq(RowType)
  BY <1>2, ConcatProperties DEF RemoveAt
<1> QED BY <1>3, HarmKeeps DEF LoseRow

LEMMA SpoilKeeps ==
  ASSUME IntakeInvariant, NEW n \in DOMAIN rows, NEW flaw \in Flaws, Spoil(n, flaw)
  PROVE  IntakeInvariant'
<1>1. rows \in Seq(RowType) /\ n \in 1 .. Len(rows) /\ rows[n] \in RowType
  BY LenProperties DEF IntakeInvariant, IntakeTyped
<1> DEFINE entry == [rows[n] EXCEPT !.flaw = flaw]
<1>2. entry \in RowType
  BY <1>1 DEF RowType
<1>3. rows' = [rows EXCEPT ![n] = entry]
  BY DEF Spoil
<1> HIDE DEF entry
<1>4. rows' \in Seq(RowType)
  BY <1>1, <1>2, <1>3, ExceptSeq
<1> QED BY <1>4, HarmKeeps DEF Spoil

(* Every step keeps to the types, and to the whole list while it is whole. *)
THEOREM IntakeInvariantHolds == Spec => []IntakeInvariant
<1>1. IntakeInvariant /\ [Next]_vars => IntakeInvariant'
  <2> SUFFICES ASSUME IntakeInvariant, [Next]_vars PROVE IntakeInvariant'
    OBVIOUS
  <2>1. CASE \E d \in Device, o \in Op : Write(d, o)
    BY <2>1, WriteKeeps
  <2>2. CASE \E d \in Device, r \in Round :
               \/ Begin(d, r) \/ NextPage(d, r) \/ FoldPage(d, r)
               \/ WriteCheckpoint(d, r) \/ Abandon(d, r)
    BY <2>2, BeginKeeps, NextPageKeeps, FoldPageKeeps, WriteCheckpointKeeps, AbandonKeeps
  <2>3. CASE \E n \in 0 .. Len(rows) : LoseTail(n)
    BY <2>3, LoseTailKeeps
  <2>4. CASE \E n \in DOMAIN rows : LoseRow(n) \/ \E flaw \in Flaws : Spoil(n, flaw)
    BY <2>4, LoseRowKeeps, SpoilKeeps
  <2>5. CASE UNCHANGED vars
    BY <2>5 DEF vars, IntakeInvariant
  <2> QED BY <2>1, <2>2, <2>3, <2>4, <2>5 DEF Next
<1> QED BY <1>1, IntakeStarts, PTL DEF Spec

(* Cursors, counters of failures and pages stay within their bounds.       *)
THEOREM IntakeTypeOK == Spec => []TypeOK
<1>1. IntakeInvariant => TypeOK
  <2> SUFFICES ASSUME IntakeInvariant PROVE TypeOK
    OBVIOUS
  <2>1. \A d \in Device : disk[d] \in DiskType /\ \A r \in Round : round[d][r] \in RoundType
    BY DEF IntakeInvariant, IntakeTyped
  <2>2. \A d \in Device : disk[d].anchor \in AnchorType /\ disk[d].stop \in StopType
    BY <2>1 DEF DiskType
  <2>3. \A d \in Device : /\ disk[d].journal \subseteq Op /\ disk[d].cursor \in Nat
                          /\ disk[d].anchor.since \in 0 .. Every
                          /\ disk[d].stop.attempts \in Nat
    BY <2>1, <2>2 DEF DiskType, AnchorType, StopType
  <2>4. \A d \in Device, r \in Round : round[d][r].pages <= Pages
    BY <2>1 DEF RoundType
  <2> QED BY <2>3, <2>4 DEF TypeOK, IntakeInvariant, IntakeTyped
<1> QED BY <1>1, IntakeInvariantHolds, PTL

(* Whatever the cursor has passed is in the journal, for any pages and any *)
(* number of rounds side by side, wherever they are abandoned and even     *)
(* where one of them takes the cursor back (pull, engine.ts 1067).         *)
THEOREM IntakeNothingSkipped == Spec => []NothingSkipped
<1>1. IntakeInvariant => NothingSkipped
  <2> SUFFICES ASSUME IntakeInvariant, faults = 0, NEW d \in Device, NEW i \in DOMAIN rows,
                      rows[i].seq <= disk[d].cursor
               PROVE  rows[i].op \subseteq disk[d].journal
    BY DEF NothingSkipped
  <2>1. i \in 1 .. Len(rows) /\ Len(rows) \in Nat /\ disk[d].cursor \in Nat
    BY LenProperties DEF IntakeInvariant, IntakeTyped, DiskType
  <2>2. rows[i].seq = i /\ Has(rows, disk[d].cursor, disk[d].journal)
    BY <2>1 DEF IntakeInvariant, Whole
  <2> QED BY <2>1, <2>2 DEF Has
<1> QED BY <1>1, IntakeInvariantHolds, PTL

-----------------------------------------------------------------------------
(* Session.                                                                *)

CallType == [at : {"idle", "ask", "wait", "again", "write", "forget"},
             does : {"round", "join", "leave"}, session : 0 .. MaxPairs]

TabType == [shown : 0 .. MaxPairs, next : 0 .. MaxPairs, ref : 0 .. MaxPairs,
            refresh : [at : {"none", "asked", "answered"}, pair : 0 .. MaxPairs],
            call : [Signed!Call -> CallType]]

(* A tab holds nothing newer than the disk but an answer it is about to    *)
(* store, which is the last pair there is.                                 *)
Behind(one, kept, last) ==
  /\ one.shown <= kept /\ one.next <= kept
  /\ one.refresh.at = "asked" => one.refresh.pair <= kept
  /\ IF one.refresh.at = "answered"
     THEN one.refresh.pair = last /\ kept < last /\ (one.ref <= kept \/ one.ref = last)
     ELSE one.ref <= kept

(* One tab at most has such an answer, and without one the disk is the     *)
(* last.                                                                   *)
Going ==
  /\ record <= row.last
  /\ \A t \in Tab : Behind(tabs[t], record, row.last)
  /\ record < row.last => \E t \in Tab : tabs[t].refresh.at = "answered"
  /\ \A t, u \in Tab :
       tabs[t].refresh.at = "answered" /\ tabs[u].refresh.at = "answered" => t = u

Excused == row.ended \/ causes.left \/ causes.lost \/ causes.replaced

SessionInvariant == Signed!TypeOK /\ (Excused \/ Going)

LEMMA TabsTyped ==
  Signed!TypeOK <=>
    /\ row \in [last : 1 .. MaxPairs, expired : 0 .. MaxPairs, ended : BOOLEAN]
    /\ record \in 0 .. MaxPairs /\ tabs \in [Tab -> TabType]
    /\ causes \in [left : BOOLEAN, lost : BOOLEAN, replaced : BOOLEAN]
  BY DEF Signed!TypeOK, Signed!Pair, TabType, CallType

LEMMA AfterTyped ==
  ASSUME NEW mine \in CallType, NEW accepted \in BOOLEAN
  PROVE  Signed!After(mine, accepted) \in CallType
<1>1. 0 \in 0 .. MaxPairs
  BY BoundsAssumption
<1>2. Signed!NoCall \in CallType
  BY <1>1 DEF Signed!NoCall, CallType
<1>3. [mine EXCEPT !.at = "forget"] \in CallType /\ [mine EXCEPT !.at = "write"] \in CallType
  BY DEF CallType
<1> QED BY <1>2, <1>3 DEF Signed!After

LEMMA WokenTyped ==
  ASSUME NEW one \in TabType, NEW refreshed \in BOOLEAN
  PROVE  /\ Signed!Woken(one, refreshed) \in TabType
         /\ Signed!Woken(one, refreshed).shown = one.shown
         /\ Signed!Woken(one, refreshed).ref = one.ref
         /\ Signed!Woken(one, refreshed).next = one.next
         /\ Signed!Woken(one, refreshed).refresh.at = "none"
<1> DEFINE calls == [c \in Signed!Call |->
                       IF one.call[c].at # "wait" THEN one.call[c]
                       ELSE IF refreshed THEN [one.call[c] EXCEPT !.at = "again"]
                       ELSE Signed!After(one.call[c], FALSE)]
<1>1. ASSUME NEW c \in Signed!Call PROVE calls[c] \in CallType
  <2>1. one.call[c] \in CallType
    BY DEF TabType
  <2>2. [one.call[c] EXCEPT !.at = "again"] \in CallType
    BY <2>1 DEF CallType
  <2>3. Signed!After(one.call[c], FALSE) \in CallType
    BY <2>1, AfterTyped
  <2> QED BY <2>1, <2>2, <2>3
<1>2. calls \in [Signed!Call -> CallType]
  BY <1>1
<1>3. Signed!Woken(one, refreshed) = [one EXCEPT !.refresh = Signed!NoRefresh, !.call = calls]
  BY DEF Signed!Woken
<1> HIDE DEF calls
<1>4. /\ Signed!NoRefresh \in [at : {"none", "asked", "answered"}, pair : 0 .. MaxPairs]
      /\ Signed!NoRefresh.at = "none"
  BY BoundsAssumption DEF Signed!NoRefresh
<1> QED BY <1>2, <1>3, <1>4 DEF TabType

(* A step of one tab that leaves the disk and the pairs alone.             *)
LEMMA SessionStep ==
  ASSUME SessionInvariant, Signed!TypeOK', NEW t \in Tab, Excused => Excused',
         \A u \in Tab \ {t} : tabs'[u] = tabs[u],
         Excused' \/
           (/\ row'.last = row.last /\ record' = record
            /\ Going => Behind(tabs'[t], record, row.last)
            /\ tabs'[t].refresh.at = "answered" <=> tabs[t].refresh.at = "answered")
  PROVE  SessionInvariant'
<1>1. CASE Excused'
  BY <1>1 DEF SessionInvariant
<1>2. CASE ~Excused'
  <2>1. Going
    BY <1>2 DEF SessionInvariant
  <2>2. /\ row'.last = row.last /\ record' = record /\ Behind(tabs'[t], record, row.last)
        /\ \A u \in Tab : tabs'[u].refresh.at = "answered" <=> tabs[u].refresh.at = "answered"
    BY <1>2, <2>1
  <2>3. \A u \in Tab : Behind(tabs'[u], record, row.last)
    BY <2>1, <2>2 DEF Going
  <2>4. Going'
    BY <2>1, <2>2, <2>3 DEF Going
  <2> QED BY <2>4 DEF SessionInvariant
<1> QED BY <1>1, <1>2

LEMMA OpenStep ==
  ASSUME SessionInvariant, NEW t \in Tab, Signed!Open(t)
  PROVE  SessionInvariant'
<1> DEFINE x == Signed!NewTab(record)
<1>1. Signed!TypeOK /\ tabs \in [Tab -> TabType] /\ record \in 0 .. MaxPairs
  BY TabsTyped DEF SessionInvariant
<1>2. x \in TabType /\ x.shown = record /\ x.next = record /\ x.ref = record /\ x.refresh.at = "none"
  <2>1. 0 \in 0 .. MaxPairs
    BY BoundsAssumption
  <2> QED BY <1>1, <2>1 DEF Signed!NewTab, Signed!NoRefresh, Signed!NoCall, TabType, CallType
<1>3. /\ tabs' = [tabs EXCEPT ![t] = x] /\ tabs[t].refresh.at \in {"none", "asked"}
      /\ UNCHANGED <<row, record, causes>>
  BY DEF Signed!Open
<1> HIDE DEF x
<1>4. tabs' \in [Tab -> TabType] /\ tabs'[t] = x /\ \A u \in Tab \ {t} : tabs'[u] = tabs[u]
  BY <1>1, <1>2, <1>3
<1>5. Signed!TypeOK'
  BY <1>1, <1>3, <1>4 DEF Signed!TypeOK, Signed!Pair, TabType, CallType
<1>6. Behind(tabs'[t], record, row.last)
  BY <1>1, <1>2, <1>4 DEF Behind
<1> QED BY <1>2, <1>3, <1>4, <1>5, <1>6, SessionStep DEF Excused

LEMMA RenderStep ==
  ASSUME SessionInvariant, NEW t \in Tab, Signed!Render(t)
  PROVE  SessionInvariant'
<1>1. Signed!TypeOK /\ tabs \in [Tab -> TabType] /\ UNCHANGED <<row, record, causes>>
  BY TabsTyped DEF SessionInvariant, Signed!Render
<1>2. /\ tabs' \in [Tab -> TabType] /\ \A u \in Tab \ {t} : tabs'[u] = tabs[u]
      /\ tabs'[t].shown = tabs[t].next /\ tabs'[t].ref = tabs[t].next
      /\ tabs'[t].next = tabs[t].next /\ tabs'[t].refresh = tabs[t].refresh
  BY <1>1 DEF Signed!Render, TabType
<1>3. Signed!TypeOK'
  BY <1>1, <1>2 DEF Signed!TypeOK, Signed!Pair, TabType, CallType
<1>4. Behind(tabs[t], record, row.last) => Behind(tabs'[t], record, row.last)
  BY <1>2 DEF Behind
<1> QED BY <1>1, <1>2, <1>3, <1>4, SessionStep DEF Excused, Going

(* A step after which a tab differs in its calls, or has asked for a       *)
(* refresh, or has none any more.                                          *)
LEMMA CallStep ==
  ASSUME SessionInvariant, NEW t \in Tab, tabs' \in [Tab -> TabType],
         \A u \in Tab \ {t} : tabs'[u] = tabs[u],
         tabs'[t].shown = tabs[t].shown, tabs'[t].ref = tabs[t].ref,
         UNCHANGED record,
         row' \in [last : 1 .. MaxPairs, expired : 0 .. MaxPairs, ended : BOOLEAN],
         causes' \in [left : BOOLEAN, lost : BOOLEAN, replaced : BOOLEAN],
         Excused => Excused',
         Excused' \/
           (/\ row'.last = row.last /\ tabs'[t].next \in {tabs[t].next, record}
            /\ \/ tabs'[t].refresh = tabs[t].refresh
               \/ tabs[t].refresh.at # "answered" /\ tabs'[t].refresh.at = "none"
               \/ /\ tabs[t].refresh.at # "answered"
                  /\ tabs'[t].refresh.at = "asked" /\ tabs'[t].refresh.pair = tabs[t].ref)
  PROVE  SessionInvariant'
<1>1. Signed!TypeOK /\ record \in 0 .. MaxPairs
  BY TabsTyped DEF SessionInvariant
<1>2. Signed!TypeOK'
  BY <1>1 DEF Signed!TypeOK, Signed!Pair, TabType, CallType
<1>3. ~Excused' /\ Behind(tabs[t], record, row.last) => Behind(tabs'[t], record, row.last)
  BY <1>1 DEF Behind
<1> QED BY <1>2, <1>3, SessionStep DEF Going

(* One call of a tab is another one now.                                   *)
LEMMA CallTyped ==
  ASSUME tabs \in [Tab -> TabType], NEW t \in Tab, NEW c \in Signed!Call, NEW x \in CallType
  PROVE  [tabs[t].call EXCEPT ![c] = x] \in [Signed!Call -> CallType]
<1>1. tabs[t].call \in [Signed!Call -> CallType]
  BY DEF TabType
<1> QED BY <1>1

LEMMA PressStep ==
  ASSUME SessionInvariant, NEW t \in Tab, NEW does \in {"round", "join", "leave"},
         Signed!Press(t, does)
  PROVE  SessionInvariant'
<1> DEFINE x == [at |-> "ask", does |-> does, session |-> tabs[t].shown]
           calls == [tabs[t].call EXCEPT !["action"] = x]
<1>1. Signed!TypeOK /\ tabs \in [Tab -> TabType] /\ UNCHANGED <<row, record, causes>>
  BY TabsTyped DEF SessionInvariant, Signed!Press
<1>2. x \in CallType
  BY <1>1 DEF TabType, CallType
<1>3. tabs' = [tabs EXCEPT ![t].call["action"] = x]
  BY DEF Signed!Press
<1> HIDE DEF x
<1>4. calls \in [Signed!Call -> CallType]
  BY <1>1, <1>2, CallTyped DEF Signed!Call
<1>5. tabs' = [tabs EXCEPT ![t].call = calls]
  BY <1>3
<1> HIDE DEF calls
<1>6. /\ tabs' \in [Tab -> TabType] /\ \A u \in Tab \ {t} : tabs'[u] = tabs[u]
      /\ tabs'[t].shown = tabs[t].shown /\ tabs'[t].ref = tabs[t].ref
      /\ tabs'[t].next = tabs[t].next /\ tabs'[t].refresh = tabs[t].refresh
  BY <1>1, <1>4, <1>5 DEF TabType
<1> QED BY <1>1, <1>6, CallStep DEF Signed!TypeOK, Signed!Pair, Excused

LEMMA PollStep ==
  ASSUME SessionInvariant, NEW t \in Tab, Signed!Poll(t)
  PROVE  SessionInvariant'
<1> DEFINE x == [Signed!NoCall EXCEPT !.at = "ask"]
           calls == [tabs[t].call EXCEPT !["poll"] = x]
<1>1. Signed!TypeOK /\ tabs \in [Tab -> TabType] /\ UNCHANGED <<row, record, causes>>
  BY TabsTyped DEF SessionInvariant, Signed!Poll
<1>2. x \in CallType
  <2>1. 0 \in 0 .. MaxPairs
    BY BoundsAssumption
  <2> QED BY <2>1 DEF Signed!NoCall, CallType
<1>3. tabs' = [tabs EXCEPT ![t].call["poll"] = x]
  BY DEF Signed!Poll
<1> HIDE DEF x
<1>4. calls \in [Signed!Call -> CallType]
  BY <1>1, <1>2, CallTyped DEF Signed!Call
<1>5. tabs' = [tabs EXCEPT ![t].call = calls]
  BY <1>3
<1> HIDE DEF calls
<1>6. /\ tabs' \in [Tab -> TabType] /\ \A u \in Tab \ {t} : tabs'[u] = tabs[u]
      /\ tabs'[t].shown = tabs[t].shown /\ tabs'[t].ref = tabs[t].ref
      /\ tabs'[t].next = tabs[t].next /\ tabs'[t].refresh = tabs[t].refresh
  BY <1>1, <1>4, <1>5 DEF TabType
<1> QED BY <1>1, <1>6, CallStep DEF Signed!TypeOK, Signed!Pair, Excused

LEMMA AskStep ==
  ASSUME SessionInvariant, NEW t \in Tab, NEW c \in Signed!Call, Signed!Ask(t, c)
  PROVE  SessionInvariant'
<1> DEFINE mine == tabs[t].call[c]
           accepted == tabs[t].ref # 0 /\ Signed!Admits(tabs[t].ref)
           refreshes == ~accepted /\ mine.at = "ask" /\ tabs[t].ref # 0
           x == IF refreshes THEN [mine EXCEPT !.at = "wait"] ELSE Signed!After(mine, accepted)
           refresh == IF refreshes /\ tabs[t].refresh.at = "none"
                      THEN [at |-> "asked", pair |-> tabs[t].ref] ELSE tabs[t].refresh
           calls == [tabs[t].call EXCEPT ![c] = x]
<1>1. Signed!TypeOK /\ tabs \in [Tab -> TabType] /\ UNCHANGED <<record, causes>>
  BY TabsTyped DEF SessionInvariant, Signed!Ask
<1>2. mine \in CallType /\ tabs[t] \in TabType
  BY <1>1 DEF TabType
<1>3. x \in CallType
  <2>1. Signed!After(mine, accepted) \in CallType
    BY <1>2, AfterTyped
  <2>2. [mine EXCEPT !.at = "wait"] \in CallType
    BY <1>2 DEF CallType
  <2> QED BY <2>1, <2>2
<1>4. row' = [row EXCEPT !.ended = @ \/ (accepted /\ mine.does = "leave")]
  BY DEF Signed!Ask
<1>5. /\ row' \in [last : 1 .. MaxPairs, expired : 0 .. MaxPairs, ended : BOOLEAN]
      /\ row'.last = row.last /\ (row.ended => row'.ended)
  BY <1>1, <1>4 DEF Signed!TypeOK, Signed!Pair
<1>6. tabs' = [tabs EXCEPT ![t].call[c] = x, ![t].refresh = refresh]
  BY <1>1 DEF Signed!Ask
<1>7. /\ refresh \in [at : {"none", "asked", "answered"}, pair : 0 .. MaxPairs]
      /\ \/ refresh = tabs[t].refresh
         \/ /\ tabs[t].refresh.at # "answered"
            /\ refresh.at = "asked" /\ refresh.pair = tabs[t].ref
  BY <1>2 DEF TabType
<1> HIDE DEF x, refresh
<1>8. calls \in [Signed!Call -> CallType]
  BY <1>1, <1>3, CallTyped
<1>9. tabs' = [tabs EXCEPT ![t].call = calls, ![t].refresh = refresh]
  BY <1>6
<1> HIDE DEF calls
<1>10. /\ tabs' \in [Tab -> TabType] /\ \A u \in Tab \ {t} : tabs'[u] = tabs[u]
       /\ tabs'[t].shown = tabs[t].shown /\ tabs'[t].ref = tabs[t].ref
       /\ tabs'[t].next = tabs[t].next /\ tabs'[t].refresh = refresh
  BY <1>1, <1>7, <1>8, <1>9 DEF TabType
<1> QED BY <1>1, <1>5, <1>7, <1>10, CallStep DEF Signed!TypeOK, Excused

(* The attempt of a tab is over, for nothing.                              *)
LEMMA RefusedStep ==
  ASSUME SessionInvariant, NEW t \in Tab,
         Signed!RefreshRefused(t) \/ Signed!RefreshUnanswered(t) \/ Signed!StoreFails(t)
  PROVE  SessionInvariant'
<1>1. Signed!TypeOK /\ tabs \in [Tab -> TabType] /\ UNCHANGED record
  BY TabsTyped DEF SessionInvariant, Signed!RefreshRefused, Signed!RefreshUnanswered,
     Signed!StoreFails
<1>2. tabs' = [tabs EXCEPT ![t] = Signed!Woken(tabs[t], FALSE)]
  BY DEF Signed!RefreshRefused, Signed!RefreshUnanswered, Signed!StoreFails, Signed!Failed
<1>3. /\ tabs' \in [Tab -> TabType] /\ \A u \in Tab \ {t} : tabs'[u] = tabs[u]
      /\ tabs'[t].shown = tabs[t].shown /\ tabs'[t].ref = tabs[t].ref
      /\ tabs'[t].next = tabs[t].next /\ tabs'[t].refresh.at = "none"
  BY <1>1, <1>2, WokenTyped
<1>4. /\ row' \in [last : 1 .. MaxPairs, expired : 0 .. MaxPairs, ended : BOOLEAN]
      /\ row'.ended = row.ended
  <2>1. row' = row \/ (row' = [row EXCEPT !.last = @ + 1] /\ row.last < MaxPairs)
    BY DEF Signed!RefreshRefused, Signed!RefreshUnanswered, Signed!StoreFails, Signed!Turned
  <2>2. /\ row \in [last : 1 .. MaxPairs, expired : 0 .. MaxPairs, ended : BOOLEAN]
        /\ row.last \in 1 .. MaxPairs /\ MaxPairs \in Nat
    BY <1>1, BoundsAssumption DEF Signed!TypeOK, Signed!Pair
  <2>3. row.last < MaxPairs => row.last + 1 \in 1 .. MaxPairs
    BY <2>2
  <2> QED BY <2>1, <2>2, <2>3
<1>5. /\ causes' \in [left : BOOLEAN, lost : BOOLEAN, replaced : BOOLEAN]
      /\ causes.left => causes'.left
      /\ causes.replaced => causes'.replaced
      /\ causes.lost => causes'.lost
  <2>1. causes' = causes \/ causes' = [causes EXCEPT !.lost = TRUE]
    BY DEF Signed!RefreshRefused, Signed!RefreshUnanswered, Signed!StoreFails
  <2>2. causes \in [left : BOOLEAN, lost : BOOLEAN, replaced : BOOLEAN]
    BY <1>1 DEF Signed!TypeOK
  <2> QED BY <2>1, <2>2
<1>6. Excused => Excused'
  BY <1>4, <1>5 DEF Excused
<1>7. causes'.lost \/ (row'.last = row.last /\ tabs[t].refresh.at # "answered")
  BY <1>1 DEF Signed!TypeOK, Signed!RefreshRefused, Signed!RefreshUnanswered, Signed!StoreFails
<1>8. \/ Excused'
      \/ /\ row'.last = row.last /\ tabs'[t].next \in {tabs[t].next, record}
         /\ tabs[t].refresh.at # "answered" /\ tabs'[t].refresh.at = "none"
  BY <1>3, <1>7 DEF Excused
<1> QED BY <1>1, <1>3, <1>4, <1>5, <1>6, <1>8, CallStep

LEMMA WriteBackStep ==
  ASSUME SessionInvariant, NEW t \in Tab, Signed!WriteBack(t)
  PROVE  SessionInvariant'
<1> DEFINE mine == tabs[t].call["action"]
           x == Signed!NoCall
           calls == [tabs[t].call EXCEPT !["action"] = x]
<1>1. Signed!TypeOK /\ tabs \in [Tab -> TabType] /\ UNCHANGED row
  BY TabsTyped DEF SessionInvariant, Signed!WriteBack
<1>2. mine \in CallType /\ mine.session \in 0 .. MaxPairs
  BY <1>1 DEF TabType, CallType, Signed!Call
<1>3. x \in CallType
  BY BoundsAssumption DEF Signed!NoCall, CallType
<1>4. /\ tabs' = [tabs EXCEPT ![t].next = mine.session, ![t].call["action"] = x]
      /\ record' = mine.session
      /\ causes' = [causes EXCEPT !.replaced = @ \/ mine.session # record]
  BY DEF Signed!WriteBack
<1> HIDE DEF x
<1>5. calls \in [Signed!Call -> CallType]
  BY <1>1, <1>3, CallTyped DEF Signed!Call
<1>6. tabs' = [tabs EXCEPT ![t].next = mine.session, ![t].call = calls]
  BY <1>4
<1> HIDE DEF calls
<1>7. /\ tabs' \in [Tab -> TabType] /\ \A u \in Tab \ {t} : tabs'[u] = tabs[u]
      /\ tabs'[t].shown = tabs[t].shown /\ tabs'[t].ref = tabs[t].ref
      /\ tabs'[t].next = mine.session /\ tabs'[t].refresh = tabs[t].refresh
  BY <1>1, <1>2, <1>5, <1>6 DEF TabType
<1>8. /\ causes' \in [left : BOOLEAN, lost : BOOLEAN, replaced : BOOLEAN]
      /\ causes.left => causes'.left
      /\ causes.replaced => causes'.replaced
      /\ causes.lost => causes'.lost
      /\ mine.session # record => causes'.replaced
  BY <1>1, <1>4 DEF Signed!TypeOK
<1>9. CASE mine.session = record
  BY <1>1, <1>4, <1>7, <1>8, <1>9, CallStep DEF Signed!TypeOK, Signed!Pair, Excused
<1>10. CASE mine.session # record
  <2>1. Signed!TypeOK'
    BY <1>1, <1>2, <1>4, <1>7, <1>8 DEF Signed!TypeOK, Signed!Pair, TabType, CallType
  <2> QED BY <1>8, <1>10, <2>1 DEF SessionInvariant, Excused
<1> QED BY <1>9, <1>10

LEMMA ForgetStep ==
  ASSUME SessionInvariant, NEW t \in Tab, Signed!Forget(t)
  PROVE  SessionInvariant'
<1> DEFINE x == Signed!NoCall
           calls == [tabs[t].call EXCEPT !["action"] = x]
<1>1. Signed!TypeOK /\ tabs \in [Tab -> TabType] /\ UNCHANGED row
  BY TabsTyped DEF SessionInvariant, Signed!Forget
<1>2. x \in CallType /\ 0 \in 0 .. MaxPairs
  BY BoundsAssumption DEF Signed!NoCall, CallType
<1>3. /\ tabs' = [tabs EXCEPT ![t].next = 0, ![t].call["action"] = x]
      /\ record' = 0 /\ causes' = [causes EXCEPT !.left = TRUE]
  BY DEF Signed!Forget
<1> HIDE DEF x
<1>4. calls \in [Signed!Call -> CallType]
  BY <1>1, <1>2, CallTyped DEF Signed!Call
<1>5. tabs' = [tabs EXCEPT ![t].next = 0, ![t].call = calls]
  BY <1>3
<1> HIDE DEF calls
<1>6. tabs' \in [Tab -> TabType]
  BY <1>1, <1>2, <1>4, <1>5 DEF TabType
<1>7. causes' \in [left : BOOLEAN, lost : BOOLEAN, replaced : BOOLEAN] /\ causes'.left
  BY <1>1, <1>3 DEF Signed!TypeOK
<1>8. Signed!TypeOK'
  BY <1>1, <1>2, <1>3, <1>6, <1>7 DEF Signed!TypeOK, Signed!Pair, TabType, CallType
<1> QED BY <1>7, <1>8 DEF SessionInvariant, Excused

LEMMA RowStep ==
  ASSUME SessionInvariant, Signed!Expire \/ Signed!Revoke
  PROVE  SessionInvariant'
<1>1. Signed!TypeOK /\ UNCHANGED <<record, tabs, causes>>
  BY DEF SessionInvariant, Signed!Expire, Signed!Revoke
<1>2. /\ row \in [last : 1 .. MaxPairs, expired : 0 .. MaxPairs, ended : BOOLEAN]
      /\ row.last \in 1 .. MaxPairs /\ row.expired \in 0 .. MaxPairs /\ MaxPairs \in Nat
  BY <1>1, BoundsAssumption DEF Signed!TypeOK, Signed!Pair
<1>3. /\ row' \in [last : 1 .. MaxPairs, expired : 0 .. MaxPairs, ended : BOOLEAN]
      /\ row'.last = row.last /\ (row.ended => row'.ended)
  <2>1. CASE Signed!Revoke
    BY <1>2, <2>1 DEF Signed!Revoke
  <2>2. CASE Signed!Expire
    <3>1. PICK pair \in row.expired + 1 .. row.last : row' = [row EXCEPT !.expired = pair]
      BY <2>2 DEF Signed!Expire
    <3>2. pair \in 0 .. MaxPairs
      BY <1>2
    <3> QED BY <1>2, <3>1, <3>2
  <2> QED BY <2>1, <2>2
<1>4. Signed!TypeOK'
  BY <1>1, <1>3 DEF Signed!TypeOK, Signed!Pair
<1>5. Going => Going'
  BY <1>1, <1>3 DEF Going
<1> QED BY <1>1, <1>3, <1>4, <1>5 DEF SessionInvariant, Excused

(* The server turns the token: until now the disk had the last one.        *)
LEMMA RefreshedStep ==
  ASSUME SessionInvariant, NEW t \in Tab, Signed!Refreshed(t)
  PROVE  SessionInvariant'
<1> DEFINE last == row.last + 1
           refresh == [at |-> "answered", pair |-> last]
<1>1. Signed!TypeOK /\ tabs \in [Tab -> TabType] /\ UNCHANGED <<record, causes>>
  BY TabsTyped DEF SessionInvariant, Signed!Refreshed
<1>2. /\ row \in [last : 1 .. MaxPairs, expired : 0 .. MaxPairs, ended : BOOLEAN]
      /\ row.last \in 1 .. MaxPairs /\ MaxPairs \in Nat /\ record \in 0 .. MaxPairs
      /\ row.last < MaxPairs
  BY <1>1, BoundsAssumption DEF Signed!TypeOK, Signed!Pair, Signed!Refreshed
<1>3. last \in 1 .. MaxPairs /\ last \in 0 .. MaxPairs
  BY <1>2
<1>4. row' = [row EXCEPT !.last = last]
  BY DEF Signed!Refreshed, Signed!Turned
<1>5. Signed!Turned.last = last
  BY <1>2 DEF Signed!Turned
<1>6. tabs' = [tabs EXCEPT ![t].refresh = refresh, ![t].ref = last]
  BY <1>5 DEF Signed!Refreshed
<1>7. tabs[t].refresh.at = "asked" /\ tabs[t].refresh.pair = row.last
  BY DEF Signed!Refreshed, Signed!Resolves
<1> HIDE DEF last
<1>8. refresh \in [at : {"none", "asked", "answered"}, pair : 0 .. MaxPairs]
      /\ refresh.at = "answered" /\ refresh.pair = last
  BY <1>3
<1> HIDE DEF refresh
<1>9. /\ tabs' \in [Tab -> TabType] /\ \A u \in Tab \ {t} : tabs'[u] = tabs[u]
      /\ tabs'[t].shown = tabs[t].shown /\ tabs'[t].next = tabs[t].next
      /\ tabs'[t].refresh = refresh /\ tabs'[t].ref = last
  BY <1>1, <1>3, <1>6, <1>8 DEF TabType
<1>10. /\ row' \in [last : 1 .. MaxPairs, expired : 0 .. MaxPairs, ended : BOOLEAN]
       /\ row'.last = last /\ row'.ended = row.ended
  BY <1>2, <1>3, <1>4
<1>11. Signed!TypeOK'
  BY <1>1, <1>9, <1>10 DEF Signed!TypeOK, Signed!Pair, TabType, CallType
<1>12. ASSUME Going PROVE Going'
  <2>1. Behind(tabs[t], record, row.last) /\ record <= row.last
    BY <1>12 DEF Going
  <2>2. record = row.last
    BY <1>2, <1>7, <2>1 DEF Behind
  <2>3. last = row.last + 1
    BY DEF last
  <2>4. \A u \in Tab : tabs[u].refresh.at # "answered"
    BY <1>2, <1>12, <2>2 DEF Going, Behind
  <2>5. Behind(tabs'[t], record, last)
    BY <1>2, <1>3, <1>8, <1>9, <2>1, <2>2, <2>3 DEF Behind
  <2>6. \A u \in Tab \ {t} : Behind(tabs'[u], record, last)
    BY <1>9, <1>12, <2>4 DEF Going, Behind
  <2>7. \A u \in Tab : tabs'[u].refresh.at = "answered" <=> u = t
    BY <1>8, <1>9, <2>4
  <2>8. record' = record /\ record <= last
    BY <1>1, <1>2, <2>2, <2>3
  <2> QED BY <1>10, <2>5, <2>6, <2>7, <2>8 DEF Going
<1> QED BY <1>1, <1>10, <1>11, <1>12 DEF SessionInvariant, Excused

LEMMA StoreStep ==
  ASSUME SessionInvariant, NEW t \in Tab, Signed!Store(t)
  PROVE  SessionInvariant'
<1> DEFINE w == Signed!Woken(tabs[t], TRUE)
           pair == tabs[t].refresh.pair
           x == [w EXCEPT !.next = pair]
<1>1. /\ Signed!TypeOK /\ tabs \in [Tab -> TabType] /\ UNCHANGED <<row, causes>>
      /\ record \in 0 .. MaxPairs /\ row.last \in 1 .. MaxPairs /\ MaxPairs \in Nat
      /\ tabs[t] \in TabType
  BY TabsTyped, BoundsAssumption DEF SessionInvariant, Signed!Store
<1>2. /\ w \in TabType /\ w.shown = tabs[t].shown /\ w.ref = tabs[t].ref
      /\ w.refresh.at = "none"
  BY <1>1, WokenTyped
<1>3. pair \in 0 .. MaxPairs
  BY <1>1 DEF TabType
<1>4. tabs' = [tabs EXCEPT ![t] = x] /\ record' = pair /\ tabs[t].refresh.at = "answered"
  BY DEF Signed!Store
<1> HIDE DEF w
<1>5. /\ x \in TabType /\ x.shown = tabs[t].shown /\ x.ref = tabs[t].ref
      /\ x.refresh.at = "none" /\ x.next = pair
  BY <1>2, <1>3 DEF TabType
<1> HIDE DEF x
<1>6. tabs' \in [Tab -> TabType] /\ tabs'[t] = x /\ \A u \in Tab \ {t} : tabs'[u] = tabs[u]
  BY <1>1, <1>4, <1>5
<1>7. Signed!TypeOK'
  BY <1>1, <1>3, <1>4, <1>6 DEF Signed!TypeOK, Signed!Pair, TabType, CallType
<1>8. ASSUME Going PROVE Going'
  <2>1. /\ Behind(tabs[t], record, row.last)
        /\ \A u \in Tab \ {t} : Behind(tabs[u], record, row.last) /\ tabs[u].refresh.at # "answered"
    BY <1>4, <1>8 DEF Going
  <2>2. pair = row.last /\ record < row.last
    BY <1>4, <2>1 DEF Behind
  <2>3. \A u \in Tab : tabs[u] \in TabType
    BY <1>1
  <2>4. Behind(tabs'[t], row.last, row.last)
    BY <1>1, <1>4, <1>5, <1>6, <2>1, <2>2 DEF Behind, TabType
  <2>5. ASSUME NEW u \in Tab \ {t} PROVE Behind(tabs'[u], row.last, row.last)
    <3>1. tabs'[u] = tabs[u] /\ tabs[u] \in TabType /\ Behind(tabs[u], record, row.last)
          /\ tabs[u].refresh.at # "answered"
      BY <1>6, <2>1, <2>3
    <3> QED BY <1>1, <2>2, <3>1 DEF Behind, TabType
  <2>6. \A u \in Tab : tabs'[u].refresh.at # "answered"
    BY <1>5, <1>6, <2>1
  <2>7. record' = row.last /\ row' = row
    BY <1>1, <1>4, <2>2
  <2> QED BY <1>1, <2>4, <2>5, <2>6, <2>7 DEF Going
<1> QED BY <1>1, <1>7, <1>8 DEF SessionInvariant, Excused

(* The inductive invariant of Session: until something excuses it, a tab   *)
(* has nothing newer than the disk but the one answer it is about to       *)
(* store, so that answers of several tabs are never stored out of order.   *)
THEOREM SessionInvariantHolds == Signed!Spec => []SessionInvariant
<1>1. ASSUME Signed!Init PROVE SessionInvariant
  <2>1. 0 \in 0 .. MaxPairs /\ 1 \in 0 .. MaxPairs /\ 1 \in 1 .. MaxPairs
    BY BoundsAssumption
  <2>2. Signed!NewTab(1) \in TabType
    BY <2>1 DEF Signed!NewTab, Signed!NoRefresh, Signed!NoCall, TabType, CallType
  <2>3. tabs \in [Tab -> TabType] /\ row.last = 1 /\ record = 1
        /\ \A t \in Tab : tabs[t] = Signed!NewTab(1)
    BY <1>1, <2>2 DEF Signed!Init
  <2>4. Signed!TypeOK
    BY <1>1, <2>1, <2>3, TabsTyped DEF Signed!Init
  <2>5. \A t \in Tab : /\ Behind(tabs[t], record, row.last)
                       /\ tabs[t].refresh.at = "none"
    BY <2>3 DEF Behind, Signed!NewTab, Signed!NoRefresh
  <2>6. Going
    BY <2>3, <2>5 DEF Going
  <2> QED BY <2>4, <2>6 DEF SessionInvariant
<1>2. ASSUME SessionInvariant, [Signed!Next]_(Signed!vars) PROVE SessionInvariant'
  <2>1. CASE Signed!Expire \/ Signed!Revoke
    BY <1>2, <2>1, RowStep
  <2>2. ASSUME NEW t \in Tab, Signed!Open(t) PROVE SessionInvariant'
    BY <1>2, <2>2, OpenStep
  <2>3. ASSUME NEW t \in Tab, Signed!Render(t) PROVE SessionInvariant'
    BY <1>2, <2>3, RenderStep
  <2>4. ASSUME NEW t \in Tab, Signed!Poll(t) PROVE SessionInvariant'
    BY <1>2, <2>4, PollStep
  <2>5. ASSUME NEW t \in Tab, NEW does \in {"round", "join", "leave"}, Signed!Press(t, does)
        PROVE  SessionInvariant'
    BY <1>2, <2>5, PressStep
  <2>6. ASSUME NEW t \in Tab, NEW c \in Signed!Call, Signed!Ask(t, c) PROVE SessionInvariant'
    BY <1>2, <2>6, AskStep
  <2>7. ASSUME NEW t \in Tab, Signed!Refreshed(t) PROVE SessionInvariant'
    BY <1>2, <2>7, RefreshedStep
  <2>8. ASSUME NEW t \in Tab,
               Signed!RefreshRefused(t) \/ Signed!RefreshUnanswered(t) \/ Signed!StoreFails(t)
        PROVE  SessionInvariant'
    BY <1>2, <2>8, RefusedStep
  <2>9. ASSUME NEW t \in Tab, Signed!Store(t) PROVE SessionInvariant'
    BY <1>2, <2>9, StoreStep
  <2>10. ASSUME NEW t \in Tab, Signed!WriteBack(t) PROVE SessionInvariant'
    BY <1>2, <2>10, WriteBackStep
  <2>11. ASSUME NEW t \in Tab, Signed!Forget(t) PROVE SessionInvariant'
    BY <1>2, <2>11, ForgetStep
  <2>12. CASE UNCHANGED Signed!vars
    BY <1>2, <2>12 DEF SessionInvariant, Going, Excused, Signed!vars, Signed!TypeOK
  <2> QED BY <1>2, <2>1, <2>2, <2>3, <2>4, <2>5, <2>6, <2>7, <2>8, <2>9, <2>10, <2>11, <2>12
          DEF Signed!Next
<1> QED BY <1>1, <1>2, PTL DEF Signed!Spec

(* Tabs may refresh side by side, be closed, render and be refused: the    *)
(* device keeps the token the server knows until somebody ends that, or an *)
(* answer or a write is lost, or an action writes back the session it was  *)
(* pressed with (controller.ts 842 to 912).                                *)
THEOREM SignedInGoesOn == Signed!Spec => []Signed!SessionGoesOn
<1>1. SessionInvariant => Signed!SessionGoesOn
  <2> SUFFICES ASSUME SessionInvariant, ~Excused PROVE Signed!Holds /\
                 \A t \in Tab : tabs[t].shown <= record /\ tabs[t].next <= record
    BY DEF Signed!SessionGoesOn, Excused
  <2>1. Going /\ tabs \in [Tab -> TabType] /\ record \in 0 .. MaxPairs /\ row.last \in 1 .. MaxPairs
    BY TabsTyped DEF SessionInvariant
  <2>2. \A t \in Tab : tabs[t].shown <= record /\ tabs[t].next <= record
    BY <2>1 DEF Going, Behind
  <2>3. CASE record = row.last
    BY <2>2, <2>3 DEF Signed!Holds
  <2>4. CASE record # row.last
    <3>1. record < row.last
      BY <2>1, <2>4, BoundsAssumption DEF Going
    <3>2. PICK t \in Tab : tabs[t].refresh.at = "answered"
      BY <2>1, <3>1 DEF Going
    <3>3. tabs[t].refresh.pair = row.last
      BY <2>1, <3>2 DEF Going, Behind
    <3>4. tabs[t].refresh \in [at : {"none", "asked", "answered"}, pair : 0 .. MaxPairs]
      BY <2>1 DEF TabType
    <3>5. tabs[t].refresh = [at |-> "answered", pair |-> row.last]
      BY <3>2, <3>3, <3>4
    <3> QED BY <2>2, <3>5 DEF Signed!Holds
  <2> QED BY <2>3, <2>4
<1> QED BY <1>1, SessionInvariantHolds, PTL

-----------------------------------------------------------------------------
(* Updates.                                                                *)

UpdateSpec == Update!Init /\ [][Update!Next]_(Update!vars)

PolicyType == [tracked : BOOLEAN, recent : BOOLEAN, quiet : BOOLEAN, waiting : BOOLEAN,
               applying : BOOLEAN]

PromptType == [mounted : BOOLEAN, pending : BOOLEAN, need : BOOLEAN, silent : BOOLEAN,
               blocked : BOOLEAN, phase : {"idle", "updating", "reloading", "failed"},
               flight : SUBSET {"silent", "person"}]

PageType == [visible : BOOLEAN, asked : BOOLEAN, draft : BOOLEAN, late : BOOLEAN]

(* An attempt is awaited only by a mounted prompt and shows as one, and a  *)
(* silent one that was put off waits for the mounting.                     *)
Sound(po, pr, pa) ==
  /\ po \in PolicyType /\ pr \in PromptType /\ pa \in PageType
  /\ (pr.pending \/ pr.flight # {} \/ pr.phase = "reloading") /\ pa.draft => pa.late
  /\ po.applying => pr.silent \/ pr.pending
  /\ pr.silent => po.applying /\ ("silent" \in pr.flight \/ pr.phase = "reloading")
  /\ pr.mounted => ~pr.pending
  /\ pr.pending => po.applying
  /\ pr.flight # {} => pr.mounted /\ pr.phase = "updating"

UpdateInvariant == Sound(policy, prompt, page)

LEMMA AppliedTyped ==
  ASSUME NEW pr \in PromptType
  PROVE  LET x == Update!AppliedTo(pr) IN
         /\ x \in PromptType /\ x.mounted = pr.mounted /\ x.need = pr.need
         /\ IF pr.mounted
            THEN /\ x.silent /\ x.pending = pr.pending /\ x.flight = pr.flight \cup {"silent"}
                 /\ x.phase = IF pr.flight = {} THEN "updating" ELSE pr.phase
            ELSE /\ x.silent = pr.silent /\ x.pending /\ x.flight = pr.flight
                 /\ x.phase = pr.phase
<1> DEFINE s == [pr EXCEPT !.silent = TRUE]
           y == [s EXCEPT !.flight = @ \cup {"silent"},
                          !.phase = IF s.flight = {} THEN "updating" ELSE @]
<1>1. CASE pr.mounted
  <2>1. /\ s \in PromptType /\ s.mounted = pr.mounted /\ s.need = pr.need /\ s.silent
        /\ s.pending = pr.pending /\ s.flight = pr.flight /\ s.phase = pr.phase
    BY DEF PromptType
  <2>2. Update!AppliedTo(pr) = y
    BY <1>1 DEF Update!AppliedTo, Update!Requested
  <2> HIDE DEF s
  <2>3. /\ y \in PromptType /\ y.mounted = s.mounted /\ y.need = s.need /\ y.silent = s.silent
        /\ y.pending = s.pending /\ y.flight = s.flight \cup {"silent"}
        /\ y.phase = IF s.flight = {} THEN "updating" ELSE s.phase
    BY <2>1 DEF PromptType
  <2> HIDE DEF y
  <2> QED BY <1>1, <2>1, <2>2, <2>3
<1>2. CASE ~pr.mounted
  BY <1>2 DEF Update!AppliedTo, PromptType
<1> QED BY <1>1, <1>2

(* applyIfSafe, in whatever policy and prompt a handler has made.          *)
LEMMA ApplyStep ==
  ASSUME NEW po \in PolicyType, NEW pr \in PromptType, Update!ApplyIfSafe(po, pr),
         UpdateInvariant, po.applying = policy.applying, pr.mounted = prompt.mounted,
         pr.pending = prompt.pending, pr.phase = prompt.phase, pr.silent = prompt.silent,
         pr.flight = prompt.flight,
         page' \in PageType, page'.draft = page.draft, page'.late = page.late
  PROVE  UpdateInvariant'
<1>1. Sound(policy, prompt, page)
  BY DEF UpdateInvariant
<1>2. CASE ~Update!Safe(po)
  <2>1. policy' = po /\ prompt' = pr
    BY <1>2 DEF Update!ApplyIfSafe
  <2> QED BY <1>1, <2>1 DEF UpdateInvariant, Sound
<1>3. CASE Update!Safe(po)
  <2>1. policy' = [po EXCEPT !.applying = TRUE] /\ prompt' = Update!AppliedTo(pr)
    BY <1>3 DEF Update!ApplyIfSafe
  <2>2. policy' \in PolicyType /\ policy'.applying
    BY <2>1 DEF Sound, PolicyType
  <2>3. ~po.applying /\ ~page.draft
    BY <1>3 DEF Update!Safe
  <2>4. /\ prompt' \in PromptType /\ prompt'.mounted = pr.mounted
        /\ IF pr.mounted
           THEN /\ prompt'.silent /\ prompt'.pending = pr.pending
                /\ prompt'.flight = pr.flight \cup {"silent"}
                /\ prompt'.phase = IF pr.flight = {} THEN "updating" ELSE pr.phase
           ELSE /\ prompt'.silent = pr.silent /\ prompt'.pending /\ prompt'.flight = pr.flight
                /\ prompt'.phase = pr.phase
    BY <2>1, AppliedTyped
  <2> QED BY <1>1, <2>2, <2>3, <2>4 DEF UpdateInvariant, Sound
<1> QED BY <1>2, <1>3

LEMMA UpdateStarts == Update!Init => UpdateInvariant
  BY DEF Update!Init, Update!NewPolicy, Update!NewPrompt, Update!NewPage, UpdateInvariant, Sound,
     PolicyType, PromptType, PageType

LEMMA UpdateStep ==
  ASSUME UpdateInvariant, [Update!Next]_(Update!vars)
  PROVE  UpdateInvariant'
<1>1. Sound(policy, prompt, page)
  BY DEF UpdateInvariant
<1>2. CASE Update!Mount
  <2> DEFINE mounted == [prompt EXCEPT !.mounted = TRUE, !.pending = FALSE]
  <2>1. /\ mounted \in PromptType /\ mounted.mounted /\ ~mounted.pending
        /\ mounted.silent = prompt.silent /\ mounted.phase = prompt.phase
        /\ mounted.flight = prompt.flight
    BY <1>1 DEF Sound, PromptType
  <2>2. /\ ~prompt.mounted /\ UNCHANGED <<policy, page>>
        /\ prompt' = IF prompt.pending THEN Update!AppliedTo(mounted) ELSE mounted
    BY <1>2 DEF Update!Mount
  <2> HIDE DEF mounted
  <2>3. CASE prompt.pending
    <3>1. /\ prompt' \in PromptType /\ prompt'.mounted /\ prompt'.silent /\ ~prompt'.pending
          /\ prompt'.flight = mounted.flight \cup {"silent"}
          /\ prompt'.phase = IF mounted.flight = {} THEN "updating" ELSE mounted.phase
      BY <2>1, <2>2, <2>3, AppliedTyped
    <3> QED BY <1>1, <2>1, <2>2, <2>3, <3>1 DEF UpdateInvariant, Sound
  <2>4. CASE ~prompt.pending
    BY <1>1, <2>1, <2>2, <2>4 DEF UpdateInvariant, Sound
  <2> QED BY <2>3, <2>4
<1>3. CASE Update!Track
  BY <1>1, <1>3 DEF UpdateInvariant, Sound, Update!Track, Update!Checked, Update!Checks,
     PolicyType, PageType
<1>4. CASE Update!HalfMinute
  BY <1>1, <1>4 DEF UpdateInvariant, Sound, Update!HalfMinute, PolicyType
<1>5. CASE Update!UpdateWaiting
  <2> DEFINE po == [policy EXCEPT !.waiting = TRUE]
             pr == [prompt EXCEPT !.need = TRUE]
  <2>1. po \in PolicyType /\ po.applying = policy.applying
    BY <1>1 DEF Sound, PolicyType
  <2>2. /\ pr \in PromptType /\ pr.mounted = prompt.mounted /\ pr.pending = prompt.pending
        /\ pr.phase = prompt.phase /\ pr.silent = prompt.silent /\ pr.flight = prompt.flight
    BY <1>1 DEF Sound, PromptType
  <2>3. page' \in PageType /\ page'.draft = page.draft /\ page'.late = page.late
    BY <1>1, <1>5 DEF Update!UpdateWaiting, Sound, PageType
  <2>4. Update!ApplyIfSafe(po, pr)
    BY <1>5 DEF Update!UpdateWaiting
  <2> HIDE DEF po, pr
  <2> QED BY <2>1, <2>2, <2>3, <2>4, ApplyStep
<1>6. CASE Update!Hide
  BY <1>1, <1>6 DEF UpdateInvariant, Sound, Update!Hide, PageType
<1>7. CASE Update!Resume
  <2> DEFINE quiet == [policy EXCEPT !.quiet = TRUE]
             po == Update!Checked(quiet)
  <2>1. po \in PolicyType /\ po.applying = policy.applying
    BY <1>1 DEF Sound, PolicyType, Update!Checked, Update!Checks
  <2>2. page' \in PageType /\ page'.draft = page.draft /\ page'.late = page.late
    BY <1>1, <1>7 DEF Update!Resume, Sound, PageType, PolicyType, Update!Checks
  <2>3. Update!ApplyIfSafe(po, prompt)
    BY <1>7 DEF Update!Resume
  <2> HIDE DEF po
  <2> QED BY <1>1, <2>1, <2>2, <2>3, ApplyStep DEF Sound
<1>8. ASSUME NEW types \in BOOLEAN, Update!Touch(types) PROVE UpdateInvariant'
  BY <1>1, <1>8 DEF UpdateInvariant, Sound, Update!Touch, PolicyType, PageType
<1>9. CASE Update!Finish
  BY <1>1, <1>9 DEF UpdateInvariant, Sound, Update!Finish, PolicyType, PageType, PromptType
<1>10. CASE Update!Update
  BY <1>1, <1>10 DEF UpdateInvariant, Sound, Update!Update, Update!Offered, Update!Requested,
     PolicyType, PromptType
<1>11. CASE Update!Later
  BY <1>1, <1>11 DEF UpdateInvariant, Sound, Update!Later, PolicyType, PromptType
<1>12. CASE Update!Taken
  BY <1>1, <1>12 DEF UpdateInvariant, Sound, Update!Taken, PromptType
<1>13. CASE Update!Failed
  <2>1. page' = page /\ prompt.flight # {} /\ prompt.phase = "updating"
    BY <1>1, <1>13 DEF Update!Failed, Sound
  <2>2. CASE "silent" \in prompt.flight
    <3>1. /\ prompt' = [[prompt EXCEPT !.flight = {}, !.phase = "failed"]
                          EXCEPT !.silent = FALSE, !.phase = "idle"]
          /\ policy' = [policy EXCEPT !.applying = FALSE]
      BY <1>13, <2>2 DEF Update!Failed
    <3>2. /\ prompt' \in PromptType /\ prompt'.flight = {} /\ prompt'.phase = "idle"
          /\ ~prompt'.silent /\ prompt'.pending = prompt.pending
          /\ prompt'.mounted = prompt.mounted
      BY <1>1, <3>1 DEF Sound, PromptType
    <3>3. policy' \in PolicyType /\ ~policy'.applying
      BY <1>1, <3>1 DEF Sound, PolicyType
    <3> QED BY <1>1, <2>1, <3>2, <3>3 DEF UpdateInvariant, Sound
  <2>3. CASE "silent" \notin prompt.flight
    <3>1. prompt' = [prompt EXCEPT !.flight = {}, !.phase = "failed"] /\ policy' = policy
      BY <1>13, <2>3 DEF Update!Failed
    <3>2. /\ prompt' \in PromptType /\ prompt'.flight = {} /\ prompt'.phase = "failed"
          /\ prompt'.silent = prompt.silent /\ prompt'.pending = prompt.pending
          /\ prompt'.mounted = prompt.mounted
      BY <1>1, <3>1 DEF Sound, PromptType
    <3> QED BY <1>1, <2>1, <2>3, <3>1, <3>2 DEF UpdateInvariant, Sound
  <2> QED BY <2>2, <2>3
<1>14. CASE Update!Reload
  BY <1>14 DEF Update!Reload, Update!NewPolicy, Update!NewPrompt, Update!NewPage, UpdateInvariant, Sound,
     PolicyType, PromptType, PageType
<1>15. CASE UNCHANGED Update!vars
  BY <1>15 DEF Update!vars, UpdateInvariant
<1> QED BY <1>2, <1>3, <1>4, <1>5, <1>6, <1>7, <1>8, <1>9, <1>10, <1>11, <1>12, <1>13,
           <1>14, <1>15 DEF Update!Next

(* The inductive invariant of Updates, whatever the person does meanwhile. *)
THEOREM UpdateInvariantHolds == UpdateSpec => []UpdateInvariant
  BY UpdateStarts, UpdateStep, PTL DEF UpdateSpec

LEMMA InputOutlasts == UpdateInvariant => Update!InputOutlastsUpdates
  BY DEF UpdateInvariant, Sound, Update!InputOutlastsUpdates, Update!DraftsOutlast,
     Update!NeverStuck

(* An update takes over no draft that was there when it was asked for, and *)
(* the prompt is hidden only while an attempt is under way or answered, on *)
(* any path of silent and asked-for attempts, of failures and of returns   *)
(* to the page (applyIfSafe, requestUpdate, applySilently).                *)
THEOREM InputOutlastsEveryUpdate == UpdateSpec => []Update!InputOutlastsUpdates
  BY InputOutlasts, UpdateInvariantHolds, PTL

-----------------------------------------------------------------------------
(* BudgetStore.                                                            *)

StoreEntity == Item \cup Foreign

DocumentType == [rev : Nat, value : SUBSET StoreEntity]

JournalType == [kept : BOOLEAN, live : SUBSET StoreEntity, gone : SUBSET StoreEntity, ready : BOOLEAN]

FamilyType == [key : Nat, origin : {"none", "local", "family"}, journal : JournalType]

ScreenType == [view : {"loading", "empty", "ready"}, shown : SUBSET StoreEntity, rev : Nat,
            asked : BOOLEAN, member : BOOLEAN]

WriteType == [at : {"idle", "check", "cas", "open", "enqueue", "reread"},
             add : SUBSET StoreEntity, drop : SUBSET StoreEntity, previous : SUBSET StoreEntity,
             expected : Nat, seed : BOOLEAN, key : Nat]

DeliveryType == [at : {"idle", "fold", "publish"}, add : SUBSET StoreEntity, ready : BOOLEAN, key : Nat]

ToldType == [writes : Nat, saved : SUBSET StoreEntity, aside : BOOLEAN, wrote : BOOLEAN,
             families : Nat, drawn : SUBSET Item]

(* The document, the records of the family and what was reported saved: a  *)
(* journal that can be shown holds it as well, and one without a key is    *)
(* written only by what outlived its family.                               *)
StoreGood(d, f, p) ==
  /\ d \in DocumentType /\ f \in FamilyType /\ p \in ToldType
  /\ d.rev <= p.writes /\ (d.rev = 0 => d = Budget!NoDocument) /\ f.key <= p.families
  /\ f.journal.live \cap f.journal.gone = {}
  /\ ~f.journal.kept => f.journal = Budget!NoJournal
  /\ f.journal.ready => d # Budget!NoDocument
  /\ ~p.aside =>
       /\ f.key = 0 => f.journal = Budget!NoJournal
       /\ p.saved \subseteq d.value
       /\ f.journal.ready => p.saved \subseteq f.journal.live

(* A screen: no revision is ahead of the writes.                           *)
ScreenGood(s, d, p) ==
  /\ s \in ScreenType /\ s.rev <= p.writes
  /\ s.view = "ready" /\ s.rev # 0 /\ s.rev = d.rev => s.shown = d.value

(* A write on its way: while the document has the revision it expects, the *)
(* budget it started from is the document's, and the journal it seeds is   *)
(* not there yet.                                                          *)
WriteGood(c, d, f, p) ==
  /\ c \in WriteType /\ c.expected <= p.writes /\ c.key <= p.families
  /\ c.at \in {"open", "enqueue"} => c.key # 0
  /\ c.at \in {"cas", "open", "enqueue"} =>
       /\ c.expected # 0
       /\ c.expected = d.rev => c.previous = d.value
  /\ c.at = "enqueue" /\ c.seed /\ c.key = f.key /\ c.expected = d.rev => ~f.journal.kept

(* A delivery on its way belongs to a family.                              *)
DeliveryGood(q, p) ==
  /\ q \in DeliveryType /\ q.key <= p.families
  /\ q.at = "fold" => q.key # 0

StoreInvariant ==
  /\ StoreGood(doc, family, told)
  /\ tab \in [Tab -> ScreenType] /\ call \in [Tab -> WriteType] /\ pull \in [Tab -> DeliveryType]
  /\ \A t \in Tab : /\ ScreenGood(tab[t], doc, told)
                    /\ WriteGood(call[t], doc, family, told)
                    /\ DeliveryGood(pull[t], told)

LEMMA NothingTyped ==
  /\ Budget!NoDocument \in DocumentType /\ Budget!NoJournal \in JournalType
  /\ Budget!NoFamily \in FamilyType
  /\ Budget!NewTab \in ScreenType /\ Budget!NoCall \in WriteType /\ Budget!NoPull \in DeliveryType
BY DEF Budget!NoDocument, Budget!NoJournal, Budget!NoFamily, Budget!NewTab, Budget!NoCall,
   Budget!NoPull, DocumentType, JournalType,
       FamilyType, ScreenType, WriteType, DeliveryType

(* Nothing on its way is good whatever the store.                          *)
LEMMA NothingGood ==
  ASSUME NEW d, NEW f, NEW p \in ToldType
  PROVE  ScreenGood(Budget!NewTab, d, p) /\ WriteGood(Budget!NoCall, d, f, p) /\ DeliveryGood(Budget!NoPull, p)
<1>1. /\ Budget!NewTab.view = "loading" /\ Budget!NewTab.rev = 0 /\ Budget!NoCall.at = "idle"
      /\ Budget!NoCall.expected = 0
      /\ Budget!NoCall.key = 0 /\ Budget!NoPull.at = "idle" /\ Budget!NoPull.key = 0
  BY DEF Budget!NewTab, Budget!NoCall, Budget!NoPull
<1>2. 0 <= p.writes /\ 0 <= p.families
  BY DEF ToldType
<1> QED BY <1>1, <1>2, NothingTyped DEF ScreenGood, WriteGood, DeliveryGood

(* The store from d, f, p to e, g, q: every document that is written is a  *)
(* new one, every family's key is a new one, and a journal comes with a    *)
(* document.                                                               *)
Onward(d, f, p, e, g, q) ==
  /\ d \in DocumentType /\ e \in DocumentType /\ f \in FamilyType /\ g \in FamilyType
  /\ p \in ToldType /\ q \in ToldType
  /\ p.writes <= q.writes /\ p.families <= q.families
  /\ e = d \/ e = Budget!NoDocument \/ e.rev > p.writes
  /\ g.key = f.key \/ g.key = 0 \/ g.key > p.families
  /\ g.journal.kept => f.journal.kept \/ e.rev > p.writes

(* What does not move meanwhile stays good.                                *)
LEMMA OnwardKeeps ==
  ASSUME NEW d, NEW f, NEW p, NEW e, NEW g, NEW q, Onward(d, f, p, e, g, q)
  PROVE  /\ \A s : ScreenGood(s, d, p) => ScreenGood(s, e, q)
         /\ \A c : WriteGood(c, d, f, p) => WriteGood(c, e, g, q)
         /\ \A r : DeliveryGood(r, p) => DeliveryGood(r, q)
<1>1. /\ p.writes \in Nat /\ q.writes \in Nat /\ p.families \in Nat /\ q.families \in Nat
      /\ d.rev \in Nat /\ e.rev \in Nat /\ f.key \in Nat /\ g.key \in Nat
      /\ p.writes <= q.writes /\ p.families <= q.families
  BY DEF Onward, ToldType, DocumentType, FamilyType
<1>2. e = d \/ e.rev = 0 \/ e.rev > p.writes
  BY DEF Onward, Budget!NoDocument
<1>3. ASSUME NEW s, ScreenGood(s, d, p) PROVE ScreenGood(s, e, q)
  <2>1. s.rev \in Nat /\ s.rev <= p.writes
    BY <1>3 DEF ScreenGood, ScreenType
  <2> QED BY <1>1, <1>2, <1>3, <2>1 DEF ScreenGood
<1>4. ASSUME NEW c, WriteGood(c, d, f, p) PROVE WriteGood(c, e, g, q)
  <2>1. c.expected \in Nat /\ c.expected <= p.writes /\ c.key \in Nat /\ c.key <= p.families
    BY <1>4 DEF WriteGood, WriteType
  <2>2. c.expected <= q.writes /\ c.key <= q.families
    BY <1>1, <2>1
  <2>3. c.expected # 0 /\ c.expected = e.rev => e = d
    BY <1>1, <1>2, <2>1
  <2>4. c.key # 0 /\ c.key = g.key => f.key = g.key
    BY <1>1, <2>1 DEF Onward
  <2>5. c.expected = e.rev /\ g.journal.kept => f.journal.kept
    BY <1>1, <2>1 DEF Onward
  <2> QED BY <1>4, <2>2, <2>3, <2>4, <2>5 DEF WriteGood
<1>5. ASSUME NEW r, DeliveryGood(r, p) PROVE DeliveryGood(r, q)
  <2>1. r.key \in Nat /\ r.key <= p.families
    BY <1>5 DEF DeliveryGood, DeliveryType
  <2> QED BY <1>1, <1>5, <2>1 DEF DeliveryGood
<1> QED BY <1>3, <1>4, <1>5

(* One tab moves, to what is good over the store as it is then.            *)
TabMoves(t) ==
  \/ tab' = tab
  \/ \E s : tab' = [tab EXCEPT ![t] = s] /\ ScreenGood(s, doc', told')

CallMoves(t) ==
  \/ call' = call
  \/ \E c : call' = [call EXCEPT ![t] = c] /\ WriteGood(c, doc', family', told')

PullMoves(t) ==
  \/ pull' = pull
  \/ \E q : pull' = [pull EXCEPT ![t] = q] /\ DeliveryGood(q, told')

LEMMA StepGood ==
  ASSUME StoreInvariant, NEW t \in Tab, StoreGood(doc', family', told'),
         Onward(doc, family, told, doc', family', told'),
         TabMoves(t), CallMoves(t), PullMoves(t)
  PROVE  StoreInvariant'
<1>1. /\ \A u \in Tab : ScreenGood(tab[u], doc', told') /\ WriteGood(call[u], doc', family', told')
                        /\ DeliveryGood(pull[u], told')
      /\ tab \in [Tab -> ScreenType] /\ call \in [Tab -> WriteType] /\ pull \in [Tab -> DeliveryType]
  BY OnwardKeeps DEF StoreInvariant
<1>2. tab' \in [Tab -> ScreenType] /\ \A u \in Tab : ScreenGood(tab'[u], doc', told')
  <2>1. ASSUME NEW s, tab' = [tab EXCEPT ![t] = s], ScreenGood(s, doc', told')
        PROVE  tab' \in [Tab -> ScreenType] /\ \A u \in Tab : tab'[u] = s \/ tab'[u] = tab[u]
    <3>1. s \in ScreenType
      BY <2>1 DEF ScreenGood
    <3> QED BY <1>1, <2>1, <3>1
  <2> QED BY <1>1, <2>1 DEF TabMoves
<1>3. call' \in [Tab -> WriteType] /\ \A u \in Tab : WriteGood(call'[u], doc', family', told')
  <2>1. ASSUME NEW c, call' = [call EXCEPT ![t] = c], WriteGood(c, doc', family', told')
        PROVE  call' \in [Tab -> WriteType] /\ \A u \in Tab : call'[u] = c \/ call'[u] = call[u]
    <3>1. c \in WriteType
      BY <2>1 DEF WriteGood
    <3> QED BY <1>1, <2>1, <3>1
  <2> QED BY <1>1, <2>1 DEF CallMoves
<1>4. pull' \in [Tab -> DeliveryType] /\ \A u \in Tab : DeliveryGood(pull'[u], told')
  <2>1. ASSUME NEW q, pull' = [pull EXCEPT ![t] = q], DeliveryGood(q, told')
        PROVE  pull' \in [Tab -> DeliveryType] /\ \A u \in Tab : pull'[u] = q \/ pull'[u] = pull[u]
    <3>1. q \in DeliveryType
      BY <2>1 DEF DeliveryGood
    <3> QED BY <1>1, <2>1, <3>1
  <2> QED BY <1>1, <2>1 DEF PullMoves
<1> QED BY <1>2, <1>3, <1>4 DEF StoreInvariant

(* What a tab has in hand, and what is known of it.                        *)
LEMMA InHand ==
  ASSUME StoreInvariant, NEW t \in Tab
  PROVE  /\ StoreGood(doc, family, told) /\ ScreenGood(tab[t], doc, told)
         /\ WriteGood(call[t], doc, family, told) /\ DeliveryGood(pull[t], told)
         /\ doc \in DocumentType /\ family \in FamilyType /\ told \in ToldType
         /\ tab[t] \in ScreenType /\ call[t] \in WriteType /\ pull[t] \in DeliveryType
  BY DEF StoreInvariant, StoreGood

(* Nothing on the disk moves.                                              *)
LEMMA Still ==
  ASSUME StoreInvariant, UNCHANGED <<doc, family, told>>
  PROVE  StoreGood(doc', family', told') /\ Onward(doc, family, told, doc', family', told')
  BY DEF StoreInvariant, StoreGood, Onward, ToldType

(* A call of a tab that is over, and a screen that shows the document.     *)
LEMMA Over == ASSUME NEW t, Budget!Ends(t), StoreGood(doc', family', told') PROVE CallMoves(t)
  BY NothingGood DEF Budget!Ends, CallMoves, StoreGood

LEMMA Shown ==
  ASSUME StoreInvariant, NEW t \in Tab, NEW d, d = doc', Budget!Shows(t, d),
         StoreGood(doc', family', told')
  PROVE  TabMoves(t)
<1> DEFINE s == [tab[t] EXCEPT !.shown = doc'.value, !.rev = doc'.rev]
<1>1. tab[t] \in ScreenType /\ doc' \in DocumentType /\ doc'.rev <= told'.writes
  BY InHand DEF StoreGood
<1>2. ScreenGood(s, doc', told')
  BY <1>1 DEF ScreenGood, ScreenType, DocumentType
<1>3. tab' = [tab EXCEPT ![t] = s]
  BY DEF Budget!Shows
<1> QED BY <1>2, <1>3 DEF TabMoves

-----------------------------------------------------------------------------
(* Opening a tab.                                                          *)

LEMMA LoadKeeps == ASSUME StoreInvariant, NEW t \in Tab, Budget!Load(t) PROVE StoreInvariant'
<1> DEFINE s == [tab[t] EXCEPT !.view = IF doc = Budget!NoDocument THEN "empty" ELSE "ready",
                               !.shown = doc.value, !.rev = doc.rev]
<1>1. tab' = [tab EXCEPT ![t] = s] /\ UNCHANGED <<doc, family, call, pull, told>>
  BY DEF Budget!Load
<1>2. ScreenGood(s, doc, told)
  BY InHand DEF ScreenGood, ScreenType, DocumentType, StoreGood
<1> QED BY <1>1, <1>2, Still, StepGood DEF TabMoves, CallMoves, PullMoves

LEMMA ReadSessionKeeps == ASSUME StoreInvariant, NEW t \in Tab,
   Budget!ReadSession(t) PROVE StoreInvariant'
<1> DEFINE s == [tab[t] EXCEPT !.asked = TRUE, !.member = family.key # 0]
<1>1. tab' = [tab EXCEPT ![t] = s] /\ UNCHANGED <<doc, family, call, pull, told>>
  BY DEF Budget!ReadSession
<1>2. ScreenGood(s, doc, told)
  BY InHand DEF ScreenGood, ScreenType
<1> QED BY <1>1, <1>2, Still, StepGood DEF TabMoves, CallMoves, PullMoves

LEMMA ReopenKeeps == ASSUME StoreInvariant, NEW t \in Tab, Budget!Reopen(t) PROVE StoreInvariant'
<1>1. /\ tab' = [tab EXCEPT ![t] = Budget!NewTab] /\ Budget!Ends(t)
      /\ pull' = [pull EXCEPT ![t] = Budget!NoPull]
      /\ UNCHANGED <<doc, family, told>>
  BY DEF Budget!Reopen
<1>2. ScreenGood(Budget!NewTab, doc, told) /\ DeliveryGood(Budget!NoPull, told)
  BY InHand, NothingGood
<1> QED BY <1>1, <1>2, Still, Over, StepGood DEF TabMoves, PullMoves

(* A document that is written beside a family's records as they are.       *)
LEMMA Written ==
  ASSUME StoreInvariant, NEW V \in SUBSET StoreEntity, doc' = Budget!Document(V), family' = family,
         told' \in ToldType, told'.writes = told.writes + 1, told'.families = told.families,
         ~told'.aside => /\ ~told.aside /\ told'.saved \subseteq V
                         /\ family.journal.ready => told'.saved \subseteq family.journal.live
  PROVE  StoreGood(doc', family', told') /\ Onward(doc, family, told, doc', family', told')
<1>1. /\ told.writes \in Nat /\ told.families \in Nat /\ family.key \in Nat
      /\ told \in ToldType /\ doc \in DocumentType /\ family \in FamilyType
  BY DEF StoreInvariant, StoreGood, ToldType, FamilyType
<1>2. doc' \in DocumentType /\ doc'.rev = told.writes + 1 /\ doc'.value = V /\ doc' # Budget!NoDocument
  BY <1>1 DEF Budget!Document, DocumentType, Budget!NoDocument
<1>3. StoreGood(doc', family', told')
  BY <1>1, <1>2 DEF StoreGood, StoreInvariant
<1> QED BY <1>1, <1>2, <1>3 DEF Onward

LEMMA OnboardKeeps ==
  ASSUME StoreInvariant, NEW t \in Tab, NEW item \in Item, Budget!Onboard(t, item)
  PROVE  StoreInvariant'
<1> DEFINE s == [tab[t] EXCEPT !.view = "ready", !.shown = doc'.value, !.rev = 0]
<1>1. tab' = [tab EXCEPT ![t] = s] /\ UNCHANGED <<family, call, pull>> /\ doc' = Budget!Created({item})
  BY DEF Budget!Onboard
<1>2. StoreGood(doc', family', told') /\ Onward(doc, family, told, doc', family', told')
  <2>1. CASE doc' = doc
    BY <2>1, Still DEF Budget!Onboard
  <2>2. CASE doc' # doc
    <3>1. /\ doc = Budget!NoDocument /\ doc' = Budget!Document({item})
          /\ told' = [told EXCEPT !.writes = @ + 1, !.saved = @ \cup {item},
                                  !.drawn = @ \cup {item}]
      BY <2>2, <1>1 DEF Budget!Onboard, Budget!Created
    <3>2. told \in ToldType /\ StoreGood(doc, family, told)
      BY InHand
    <3> DEFINE w == told.writes + 1
               saved == told.saved \cup {item}
               drawn == told.drawn \cup {item}
    <3>a. {item} \in SUBSET StoreEntity /\ w \in Nat /\ saved \in SUBSET StoreEntity /\ drawn \in SUBSET Item
      BY <3>2 DEF ToldType, StoreEntity
    <3>b. told' = [told EXCEPT !.writes = w, !.saved = saved, !.drawn = drawn]
      BY <3>1
    <3> HIDE DEF w, saved, drawn
    <3>c. told' \in ToldType /\ told'.saved = saved /\ told'.writes = w
          /\ told'.families = told.families
      BY <3>2, <3>a, <3>b DEF ToldType
    <3>d. told'.aside = told.aside
      BY <3>2, <3>b, Zenon DEF ToldType
    <3>3. told' \in ToldType /\ told'.saved = told.saved \cup {item}
          /\ told'.writes = told.writes + 1 /\ told'.families = told.families
      BY <3>c DEF w, saved
    <3>4. ~family.journal.ready /\ doc.value = {}
      BY <3>1, <3>2 DEF StoreGood, Budget!NoDocument
    <3>5. ~told.aside => told'.saved \subseteq {item}
      BY <3>2, <3>3, <3>4 DEF StoreGood
    <3> QED BY <1>1, <3>1, <3>a, <3>d, <3>3, <3>4, <3>5, Written
  <2> QED BY <2>1, <2>2
<1>3. ScreenGood(s, doc', told')
  <2>1. doc'.value \in SUBSET StoreEntity /\ told'.writes \in Nat
    BY <1>2 DEF StoreGood, DocumentType, ToldType
  <2>2. tab[t] \in ScreenType
    BY InHand
  <2>3. s \in ScreenType /\ s.rev = 0
    BY <2>1, <2>2 DEF ScreenType
  <2> HIDE DEF s
  <2> QED BY <2>1, <2>3 DEF ScreenGood
<1> QED BY <1>1, <1>2, <1>3, StepGood DEF TabMoves, CallMoves, PullMoves
-----------------------------------------------------------------------------
(* The writer queue.                                                       *)

(* History that says nothing new of the document.                          *)
LEMMA Noted ==
  ASSUME StoreInvariant, doc' = doc, family' = family, told' \in ToldType,
         told'.writes = told.writes, told'.families = told.families,
         told'.saved = told.saved, ~told'.aside => ~told.aside
  PROVE  StoreGood(doc', family', told') /\ Onward(doc, family, told, doc', family', told')
  BY DEF StoreInvariant, StoreGood, Onward, ToldType

LEMMA PreparedGood ==
  ASSUME StoreInvariant, NEW t \in Tab, NEW c \in WriteType, tab[t].view = "ready", tab[t].rev # 0
  PROVE  WriteGood(Budget!Prepared(t, c), doc, family, told)
<1> DEFINE p == Budget!Prepared(t, c)
<1>1. /\ tab[t].shown \in SUBSET StoreEntity /\ tab[t].rev \in Nat /\ family.key \in Nat
      /\ tab[t].rev <= told.writes /\ family.key <= told.families
      /\ tab[t].rev = doc.rev => tab[t].shown = doc.value
  BY InHand DEF ScreenGood, ScreenType, FamilyType, StoreGood
<1>2. /\ p \in WriteType /\ p.at \in {"open", "cas"} /\ p.expected = tab[t].rev
      /\ p.previous = tab[t].shown /\ p.key = family.key
      /\ p.at = "open" => family.key # 0
  BY <1>1 DEF Budget!Prepared, WriteType, Budget!Engine
<1> HIDE DEF p
<1>3. WriteGood(p, doc, family, told)
  BY <1>1, <1>2 DEF WriteGood
<1> QED BY <1>3 DEF p

LEMMA WaitingGood ==
  ASSUME NEW c \in WriteType, c.at \in {"idle", "check", "reread"}, c.expected = 0, c.key = 0,
         NEW d, NEW f, NEW p \in ToldType
  PROVE  WriteGood(c, d, f, p)
  BY DEF WriteGood, ToldType

(* The call a change begins with.                                          *)
LEMMA BegunGood ==
  ASSUME StoreInvariant, NEW t \in Tab, NEW c \in WriteType, c.expected = 0, c.key = 0,
         tab[t].view = "ready"
  PROVE  WriteGood(IF tab[t].rev = 0 THEN [c EXCEPT !.at = "check"] ELSE Budget!Prepared(t, c),
                  doc, family, told)
<1>1. CASE tab[t].rev = 0
  <2>1. /\ [c EXCEPT !.at = "check"] \in WriteType /\ [c EXCEPT !.at = "check"].at = "check"
        /\ [c EXCEPT !.at = "check"].expected = 0 /\ [c EXCEPT !.at = "check"].key = 0
    BY DEF WriteType
  <2>2. told \in ToldType
    BY InHand
  <2> QED BY <1>1, <2>1, <2>2, WaitingGood
<1>2. CASE tab[t].rev # 0
  BY <1>2, PreparedGood
<1> QED BY <1>1, <1>2

LEMMA ApplyKeeps ==
  ASSUME StoreInvariant, NEW t \in Tab, NEW add \in SUBSET Item, NEW drop \in SUBSET StoreEntity,
         Budget!Apply(t, add, drop)
  PROVE  StoreInvariant'
<1> DEFINE c == [Budget!NoCall EXCEPT !.add = add, !.drop = drop]
           begun == IF tab[t].rev = 0 THEN [c EXCEPT !.at = "check"] ELSE Budget!Prepared(t, c)
           drawn == told.drawn \cup add
<1>1. /\ tab[t].view = "ready" /\ call' = [call EXCEPT ![t] = begun]
      /\ told' = [told EXCEPT !.drawn = drawn] /\ UNCHANGED <<doc, family, tab, pull>>
  BY DEF Budget!Apply
<1>2. c \in WriteType /\ c.expected = 0 /\ c.key = 0
  BY NothingTyped DEF WriteType, Budget!NoCall, StoreEntity
<1>3. WriteGood(begun, doc, family, told)
  <2> HIDE DEF c
  <2> QED BY <1>1, <1>2, BegunGood
<1>4. told \in ToldType /\ drawn \in SUBSET Item
  <2>1. told \in ToldType
    BY InHand
  <2> QED BY <2>1 DEF ToldType
<1> HIDE DEF begun, drawn
<1>5. /\ told' \in ToldType /\ told'.writes = told.writes /\ told'.families = told.families
      /\ told'.saved = told.saved
  BY <1>1, <1>4 DEF ToldType
<1>6. told'.aside = told.aside
  BY <1>1, <1>4, Zenon DEF ToldType
<1>7. StoreGood(doc', family', told') /\ Onward(doc, family, told, doc', family', told')
  BY <1>1, <1>5, <1>6, Noted
<1>8. WriteGood(begun, doc', family', told')
  BY <1>3, <1>7, OnwardKeeps
<1> QED BY <1>1, <1>7, <1>8, StepGood DEF TabMoves, CallMoves, PullMoves

LEMMA CheckKeeps == ASSUME StoreInvariant, NEW t \in Tab, Budget!Check(t) PROVE StoreInvariant'
<1>1. /\ UNCHANGED <<doc, family, pull, told>>
      /\ StoreGood(doc', family', told') /\ Onward(doc, family, told, doc', family', told')
  BY Still DEF Budget!Check
<1>2. CASE Budget!SameBudget(t)
  <2> DEFINE s == [tab[t] EXCEPT !.rev = doc.rev]
             p == Budget!Prepared(t, call[t])
             c == [p EXCEPT !.expected = doc.rev]
  <2>1. tab' = [tab EXCEPT ![t] = s] /\ call' = [call EXCEPT ![t] = c]
    BY <1>2 DEF Budget!Check
  <2>2. /\ doc.rev \in Nat /\ doc.rev # 0 /\ doc.rev <= told.writes /\ doc.value = tab[t].shown
        /\ family.key \in Nat /\ family.key <= told.families /\ tab[t] \in ScreenType
        /\ call[t] \in WriteType
    BY <1>2, InHand DEF Budget!SameBudget, StoreGood, DocumentType, FamilyType
  <2>3. ScreenGood(s, doc, told)
    BY <2>2 DEF ScreenGood, ScreenType
  <2>4. /\ p \in WriteType /\ p.at \in {"open", "cas"} /\ p.previous = tab[t].shown
        /\ p.key = family.key
        /\ p.at = "open" => family.key # 0
    BY <2>2 DEF Budget!Prepared, WriteType, ScreenType, Budget!Engine
  <2> HIDE DEF p
  <2>5. /\ c \in WriteType /\ c.at = p.at /\ c.previous = p.previous /\ c.key = p.key
        /\ c.expected = doc.rev
    BY <2>2, <2>4 DEF WriteType
  <2> HIDE DEF c, s
  <2>6. WriteGood(c, doc, family, told)
    BY <2>2, <2>4, <2>5 DEF WriteGood
  <2> QED BY <1>1, <2>1, <2>3, <2>6, StepGood DEF TabMoves, CallMoves, PullMoves
<1>3. CASE ~Budget!SameBudget(t)
  <2>1. Budget!Ends(t) /\ (Budget!Shows(t, doc) \/ UNCHANGED tab)
    BY <1>3 DEF Budget!Check
  <2>2. CallMoves(t) /\ TabMoves(t)
    BY <1>1, <2>1, Over, Shown DEF TabMoves
  <2> QED BY <1>1, <2>2, StepGood DEF PullMoves
<1> QED BY <1>2, <1>3

(* A document that is written beside the family's records is of a budget   *)
(* that had no journal.                                                    *)
LEMMA SaveKeeps == ASSUME StoreInvariant, NEW t \in Tab, Budget!Save(t) PROVE StoreInvariant'
<1> DEFINE c == call[t]
           V == Budget!Candidate(c)
           w == told.writes + 1
           saved == (told.saved \ c.drop) \cup c.add
           aside == told.aside \/ family.key # 0
<1>1. c.at = "cas" /\ Budget!Ends(t) /\ UNCHANGED <<family, pull>>
  BY DEF Budget!Save
<1>2. c \in WriteType /\ told \in ToldType /\ StoreGood(doc, family, told)
      /\ WriteGood(c, doc, family, told)
  BY InHand
<1>3. CASE doc # Budget!NoDocument /\ doc.rev = c.expected
  <2>1. /\ doc' = Budget!Document(V) /\ Budget!Shows(t, doc')
        /\ told' = [told EXCEPT !.writes = w, !.saved = saved, !.aside = aside]
    BY <1>3 DEF Budget!Save
  <2>2. V \in SUBSET StoreEntity /\ w \in Nat /\ saved \in SUBSET StoreEntity /\ aside \in BOOLEAN
    BY <1>2 DEF Budget!Candidate, WriteType, ToldType
  <2>3. ~aside => /\ ~told.aside /\ saved \subseteq V
                  /\ ~family.journal.ready
    <3>1. c.previous = doc.value
      BY <1>1, <1>2, <1>3 DEF WriteGood
    <3>2. ~aside => ~told.aside /\ family.key = 0
      OBVIOUS
    <3>3. ~aside => family.journal = Budget!NoJournal /\ told.saved \subseteq doc.value
      BY <1>2, <3>2 DEF StoreGood
    <3>4. ~Budget!NoJournal.ready
      BY DEF Budget!NoJournal
    <3> HIDE DEF aside
    <3> QED BY <3>1, <3>2, <3>3, <3>4 DEF Budget!Candidate
  <2> HIDE DEF V, w, saved, aside
  <2>4. told' \in ToldType /\ told'.writes = w /\ told'.families = told.families
        /\ told'.saved = saved
    BY <1>2, <2>1, <2>2 DEF ToldType
  <2>5. told'.aside = aside
    BY <1>2, <2>1, Zenon DEF ToldType
  <2>6. StoreGood(doc', family', told') /\ Onward(doc, family, told, doc', family', told')
    BY <1>1, <2>1, <2>2, <2>3, <2>4, <2>5, Written DEF w
  <2>7. CallMoves(t) /\ TabMoves(t)
    BY <1>1, <2>1, <2>6, Over, Shown
  <2> QED BY <1>1, <2>6, <2>7, StepGood DEF PullMoves
<1>4. CASE ~(doc # Budget!NoDocument /\ doc.rev = c.expected)
  <2>1. (Budget!Shows(t, doc) \/ UNCHANGED tab) /\ UNCHANGED <<doc, told>>
    BY <1>4 DEF Budget!Save
  <2>2. StoreGood(doc', family', told') /\ Onward(doc, family, told, doc', family', told')
    BY <1>1, <2>1, Still
  <2>3. CallMoves(t) /\ TabMoves(t)
    BY <1>1, <2>1, <2>2, Over, Shown DEF TabMoves
  <2> QED BY <1>1, <2>2, <2>3, StepGood DEF PullMoves
<1> QED BY <1>3, <1>4

LEMMA OpenKeeps == ASSUME StoreInvariant, NEW t \in Tab, Budget!Open(t) PROVE StoreInvariant'
<1> DEFINE c == call[t]
           quiet == ~Budget!Seeds(c) /\ Budget!Candidate(c) = c.previous
           at == IF quiet THEN "cas" ELSE "enqueue"
           o == [c EXCEPT !.at = at, !.seed = Budget!Seeds(c)]
<1>1. /\ c.at = "open" /\ call' = [call EXCEPT ![t] = o]
      /\ UNCHANGED <<doc, family, tab, pull, told>>
  BY DEF Budget!Open
<1>2. c \in WriteType /\ WriteGood(c, doc, family, told)
  BY InHand
<1>3. at \in {"cas", "enqueue"} /\ Budget!Seeds(c) \in BOOLEAN /\ (Budget!Seeds(c) => ~family.journal.kept)
  BY DEF Budget!Seeds
<1> HIDE DEF at
<1>4. /\ o \in WriteType /\ o.at = at /\ o.expected = c.expected /\ o.key = c.key
      /\ o.previous = c.previous
  BY <1>2, <1>3 DEF WriteType
<1>5. o.seed = Budget!Seeds(c)
  BY <1>2, Zenon DEF WriteType
<1> HIDE DEF o
<1>6. WriteGood(o, doc, family, told)
  BY <1>1, <1>2, <1>3, <1>4, <1>5 DEF WriteGood
<1> QED BY <1>1, <1>6, Still, StepGood DEF TabMoves, CallMoves, PullMoves

(* What a fold makes of a journal.                                         *)
LEMMA FoldedFacts ==
  ASSUME NEW j \in JournalType, NEW add \in SUBSET StoreEntity, NEW drop \in SUBSET StoreEntity,
         NEW activated \in BOOLEAN, j.live \cap j.gone = {}
  PROVE  /\ Budget!Folded(j, add, drop, activated) \in JournalType
         /\ Budget!Folded(j, add, drop, activated).kept
         /\ Budget!Folded(j, add, drop, activated).live \cap Budget!Folded(j, add, drop, activated).gone = {}
         /\ j.live \ drop \subseteq Budget!Folded(j, add, drop, activated).live
         /\ j.gone = {} => add \ drop \subseteq Budget!Folded(j, add, drop, activated).live
         /\ Budget!Folded(j, add, drop, activated).ready <=> j.ready \/ activated
<1> DEFINE live == (j.live \cup add) \ (j.gone \cup drop)
           gone == j.gone \cup drop
           ready == j.ready \/ activated
<1>1. Budget!Folded(j, add, drop, activated) = [kept |-> TRUE, live |-> live, gone |-> gone,
   ready |-> ready]
  BY DEF Budget!Folded
<1>2. /\ live \in SUBSET StoreEntity /\ gone \in SUBSET StoreEntity /\ ready \in BOOLEAN
      /\ live \cap gone = {} /\ j.live \ drop \subseteq live
      /\ j.gone = {} => add \ drop \subseteq live
  BY DEF JournalType
<1>3. ready <=> j.ready \/ activated
  OBVIOUS
<1> HIDE DEF live, gone, ready
<1>4. [kept |-> TRUE, live |-> live, gone |-> gone, ready |-> ready].ready = ready
  BY Zenon
<1> QED BY <1>1, <1>2, <1>3, <1>4 DEF JournalType
(* The budget of the device follows a fold.                                *)
LEMMA FoldedStore ==
  ASSUME StoreInvariant, NEW add \in SUBSET StoreEntity, NEW drop \in SUBSET StoreEntity,
         NEW activated \in BOOLEAN,
         NEW journal, journal = Budget!Folded(family.journal, add, drop, activated),
         family' = [family EXCEPT !.journal = journal],
         doc' = Budget!Materialised(journal),
         told' \in ToldType, told'.writes = told.writes + 1, told'.families = told.families,
         ~told'.aside => /\ ~told.aside /\ family.key # 0 /\ told'.saved \subseteq doc'.value
                         /\ journal.ready => told'.saved \subseteq journal.live
  PROVE  StoreGood(doc', family', told') /\ Onward(doc, family, told, doc', family', told')
<1>1. /\ told.writes \in Nat /\ told.families \in Nat /\ family.key \in Nat
      /\ told \in ToldType /\ doc \in DocumentType /\ family \in FamilyType
      /\ family.journal \in JournalType /\ family.journal.live \cap family.journal.gone = {}
      /\ family.key <= told.families
  BY DEF StoreInvariant, StoreGood, ToldType, FamilyType
<1>2. /\ journal \in JournalType /\ journal.kept /\ journal.live \cap journal.gone = {}
  BY <1>1, FoldedFacts
<1>3. doc' \in DocumentType /\ doc'.rev = told.writes + 1 /\ doc' # Budget!NoDocument
  BY <1>1, <1>2 DEF Budget!Materialised, Budget!Document, DocumentType, Budget!NoDocument, JournalType
<1>4. family' \in FamilyType /\ family'.key = family.key /\ family'.journal = journal
  BY <1>1, <1>2 DEF FamilyType
<1>5. doc'.rev > told.writes /\ told.writes <= told'.writes /\ told.families <= told'.families
      /\ doc'.rev <= told'.writes /\ doc'.rev # 0
  BY <1>1, <1>3
<1>6. StoreGood(doc', family', told')
  BY <1>1, <1>2, <1>3, <1>4, <1>5 DEF StoreGood
<1> QED BY <1>1, <1>3, <1>4, <1>5, <1>6 DEF Onward

LEMMA EnqueueKeeps == ASSUME StoreInvariant, NEW t \in Tab, Budget!Enqueue(t) PROVE StoreInvariant'
<1> DEFINE c == call[t]
           j == family.journal
           add == Budget!Recorded(c)
           drop == Budget!Deleted(c)
           journal == Budget!Folded(j, add, drop, c.seed)
           w == told.writes + 1
           wrote == told.wrote \/ family.origin = "local"
           aside == told.aside \/ c.key # family.key \/ (c.seed /\ c.expected # doc.rev)
           saved == (told.saved \ (IF c.seed THEN c.drop ELSE drop)) \cup (c.add \cap doc'.value)
           again == [c EXCEPT !.at = "reread"]
<1>1. /\ c.at = "enqueue" /\ family' = [family EXCEPT !.journal = journal]
      /\ doc' = Budget!Materialised(journal)
      /\ told' = [told EXCEPT !.writes = w, !.wrote = wrote, !.aside = aside, !.saved = saved]
      /\ call' = [call EXCEPT ![t] = again] /\ UNCHANGED <<tab, pull>>
  BY DEF Budget!Enqueue, Budget!Goes
<1>2. /\ c \in WriteType /\ told \in ToldType /\ doc \in DocumentType /\ family \in FamilyType
      /\ j \in JournalType /\ j.live \cap j.gone = {}
      /\ StoreGood(doc, family, told) /\ WriteGood(c, doc, family, told)
  BY InHand DEF StoreGood, FamilyType
<1>3. add \in SUBSET StoreEntity /\ drop \in SUBSET StoreEntity /\ c.seed \in BOOLEAN /\ c.key # 0
  BY <1>1, <1>2 DEF Budget!Recorded, Budget!Deleted, Budget!Candidate, WriteType, WriteGood
<1>4. /\ journal \in JournalType /\ j.live \ drop \subseteq journal.live
      /\ j.gone = {} => add \ drop \subseteq journal.live
      /\ journal.ready <=> j.ready \/ c.seed
  BY <1>2, <1>3, FoldedFacts
<1>5. doc'.value = IF journal.ready \/ doc = Budget!NoDocument THEN journal.live ELSE doc.value
  BY <1>1 DEF Budget!Materialised, Budget!Document
<1>6. ~aside => /\ ~told.aside /\ family.key # 0
                /\ told.saved \subseteq doc.value
                /\ j.ready => told.saved \subseteq j.live
  BY <1>2, <1>3 DEF StoreGood
<1>7. ~aside => /\ saved \subseteq doc'.value
                /\ journal.ready => saved \subseteq journal.live
  <2> SUFFICES ASSUME ~aside
               PROVE  told.saved \ (IF c.seed THEN c.drop ELSE drop) \subseteq doc'.value
    BY <1>5
  <2>1. CASE c.seed
    <3>1. c.expected = doc.rev /\ c.key = family.key
      BY <2>1
    <3>2. c.previous = doc.value /\ ~j.kept
      BY <1>1, <1>2, <2>1, <3>1 DEF WriteGood
    <3>3. j.gone = {} /\ drop = {} /\ add = Budget!Candidate(c)
      BY <1>2, <2>1, <3>2 DEF StoreGood, Budget!NoJournal, Budget!Deleted, Budget!Recorded
    <3>4. told.saved \ c.drop \subseteq journal.live
      BY <1>4, <1>6, <3>2, <3>3 DEF Budget!Candidate
    <3> QED BY <1>4, <1>5, <2>1, <3>4
  <2>2. CASE ~c.seed
    <3>1. CASE j.ready
      BY <1>4, <1>5, <1>6, <2>2, <3>1
    <3>2. CASE ~j.ready
      <4>1. doc = Budget!NoDocument => told.saved = {}
        BY <1>6 DEF Budget!NoDocument
      <4> QED BY <1>4, <1>5, <1>6, <2>2, <3>2, <4>1
    <3> QED BY <3>1, <3>2
  <2> QED BY <2>1, <2>2
<1>8. w \in Nat /\ wrote \in BOOLEAN /\ aside \in BOOLEAN /\ saved \in SUBSET StoreEntity
  <2>1. doc'.value \in SUBSET StoreEntity
    BY <1>2, <1>4, <1>5 DEF DocumentType, JournalType
  <2>2. c.add \in SUBSET StoreEntity /\ told.saved \in SUBSET StoreEntity /\ told.wrote \in BOOLEAN
        /\ told.aside \in BOOLEAN /\ told.writes \in Nat
    BY <1>2 DEF WriteType, ToldType
  <2> HIDE DEF c, drop
  <2> QED BY <2>1, <2>2
<1>9. again \in WriteType /\ again.at = "reread" /\ again.expected = c.expected /\ again.key = c.key
  BY <1>2 DEF WriteType
<1> HIDE DEF w, wrote, aside, saved, again
<1>10. told' \in ToldType /\ told'.writes = w /\ told'.families = told.families
       /\ told'.saved = saved
  BY <1>1, <1>2, <1>8 DEF ToldType
<1>11. told'.aside = aside
  BY <1>1, <1>2, Zenon DEF ToldType
<1>12. StoreGood(doc', family', told') /\ Onward(doc, family, told, doc', family', told')
  <2>1. told'.writes = told.writes + 1
    BY <1>10 DEF w
  <2>2. ~told'.aside => /\ ~told.aside /\ family.key # 0 /\ told'.saved \subseteq doc'.value
                        /\ journal.ready => told'.saved \subseteq journal.live
    BY <1>6, <1>7, <1>10, <1>11
  <2> HIDE DEF journal, add, drop
  <2>3. journal = Budget!Folded(j, add, drop, c.seed)
    BY DEF journal
  <2> QED BY <1>1, <1>3, <1>10, <2>1, <2>2, <2>3, FoldedStore
<1>13. WriteGood(again, doc', family', told')
  <2>1. WriteGood(c, doc', family', told')
    BY <1>2, <1>12, OnwardKeeps
  <2> HIDE DEF c
  <2> QED BY <1>9, <2>1 DEF WriteGood
<1> QED BY <1>1, <1>12, <1>13, StepGood DEF TabMoves, CallMoves, PullMoves

LEMMA RereadKeeps == ASSUME StoreInvariant, NEW t \in Tab, Budget!Reread(t) PROVE StoreInvariant'
<1>1. Budget!Shows(t, doc) /\ Budget!Ends(t) /\ UNCHANGED <<doc, family, pull, told>>
  BY DEF Budget!Reread, Budget!Reported
<1>2. StoreGood(doc', family', told') /\ Onward(doc, family, told, doc', family', told')
  BY <1>1, Still
<1>3. CallMoves(t) /\ TabMoves(t)
  BY <1>1, <1>2, Over, Shown
<1> QED BY <1>1, <1>2, <1>3, StepGood DEF PullMoves

LEMMA RefuseKeeps == ASSUME StoreInvariant, NEW t \in Tab, Budget!Refuse(t) PROVE StoreInvariant'
<1>1. Budget!Ends(t) /\ UNCHANGED <<doc, family, tab, pull, told>>
  BY DEF Budget!Refuse
<1>2. StoreGood(doc', family', told') /\ Onward(doc, family, told, doc', family', told')
  BY <1>1, Still
<1> QED BY <1>1, <1>2, Over, StepGood DEF TabMoves, PullMoves

-----------------------------------------------------------------------------
(* Receiving.                                                              *)

LEMMA FetchKeeps ==
  ASSUME StoreInvariant, NEW t \in Tab, NEW add \in SUBSET StoreEntity, NEW ready \in BOOLEAN,
         Budget!Fetch(t, add, ready)
  PROVE  StoreInvariant'
<1> DEFINE q == [at |-> "fold", add |-> add, ready |-> ready, key |-> family.key]
<1>1. /\ pull' = [pull EXCEPT ![t] = q] /\ family.key # 0
      /\ UNCHANGED <<doc, family, tab, call, told>>
  BY DEF Budget!Fetch, Budget!Engine
<1>2. family.key \in Nat /\ family.key <= told.families
  BY InHand DEF StoreGood, FamilyType
<1>3. DeliveryGood(q, told)
  BY <1>1, <1>2 DEF DeliveryGood, DeliveryType
<1> QED BY <1>1, <1>3, Still, StepGood DEF TabMoves, CallMoves, PullMoves

LEMMA FoldDeliveryKeeps == ASSUME StoreInvariant, NEW t \in Tab, Budget!FoldPage(t) PROVE StoreInvariant'
<1> DEFINE q == pull[t]
           j == family.journal
           journal == Budget!Folded(j, q.add, {}, q.ready)
           w == told.writes + 1
           aside == told.aside \/ q.key # family.key
           saved == IF journal.ready /\ ~j.ready THEN told.saved \cap journal.live ELSE told.saved
           next == [q EXCEPT !.at = "publish"]
<1>1. /\ q.at = "fold" /\ family' = [family EXCEPT !.journal = journal]
      /\ doc' = Budget!Materialised(journal)
      /\ told' = [told EXCEPT !.writes = w, !.aside = aside, !.saved = saved]
      /\ pull' = [pull EXCEPT ![t] = next] /\ UNCHANGED <<tab, call>>
  BY DEF Budget!FoldPage
<1>2. /\ q \in DeliveryType /\ told \in ToldType /\ doc \in DocumentType /\ family \in FamilyType
      /\ j \in JournalType /\ j.live \cap j.gone = {}
      /\ StoreGood(doc, family, told) /\ DeliveryGood(q, told)
  BY InHand DEF StoreGood, FamilyType
<1>3. q.add \in SUBSET StoreEntity /\ q.ready \in BOOLEAN /\ q.key # 0 /\ {} \in SUBSET StoreEntity
  BY <1>1, <1>2 DEF DeliveryType, DeliveryGood
<1>4. /\ journal \in JournalType /\ j.live \subseteq journal.live
      /\ j.ready => journal.ready
  <2>1. /\ journal \in JournalType /\ j.live \ {} \subseteq journal.live
        /\ journal.ready <=> j.ready \/ q.ready
    BY <1>2, <1>3, FoldedFacts
  <2> QED BY <2>1
<1>5. doc'.value = IF journal.ready \/ doc = Budget!NoDocument THEN journal.live ELSE doc.value
  BY <1>1 DEF Budget!Materialised, Budget!Document
<1>6. ~aside => /\ ~told.aside /\ family.key # 0
                /\ told.saved \subseteq doc.value
                /\ j.ready => told.saved \subseteq j.live
  BY <1>2, <1>3 DEF StoreGood
<1>7. ~aside => /\ saved \subseteq doc'.value
                /\ journal.ready => saved \subseteq journal.live
  <2>1. doc = Budget!NoDocument /\ ~aside => told.saved = {}
    BY <1>6 DEF Budget!NoDocument
  <2> HIDE DEF journal, aside
  <2> QED BY <1>4, <1>5, <1>6, <2>1
<1>8. w \in Nat /\ aside \in BOOLEAN /\ saved \in SUBSET StoreEntity
  <2> HIDE DEF journal
  <2> QED BY <1>2 DEF ToldType
<1>9. DeliveryGood(next, told) /\ next \in DeliveryType
  BY <1>2 DEF DeliveryGood, DeliveryType
<1> HIDE DEF w, aside, saved, next
<1>10. told' \in ToldType /\ told'.writes = w /\ told'.families = told.families
       /\ told'.saved = saved
  BY <1>1, <1>2, <1>8 DEF ToldType
<1>11. told'.aside = aside
  BY <1>1, <1>2, Zenon DEF ToldType
<1>12. StoreGood(doc', family', told') /\ Onward(doc, family, told, doc', family', told')
  <2>1. told'.writes = told.writes + 1
    BY <1>10 DEF w
  <2>2. ~told'.aside => /\ ~told.aside /\ family.key # 0 /\ told'.saved \subseteq doc'.value
                        /\ journal.ready => told'.saved \subseteq journal.live
    BY <1>6, <1>7, <1>10, <1>11
  <2> HIDE DEF journal
  <2>3. journal = Budget!Folded(j, q.add, {}, q.ready)
    BY DEF journal
  <2> QED BY <1>1, <1>3, <1>10, <2>1, <2>2, <2>3, FoldedStore
<1>13. DeliveryGood(next, told')
  BY <1>9, <1>12, OnwardKeeps
<1> QED BY <1>1, <1>12, <1>13, StepGood DEF TabMoves, CallMoves, PullMoves

LEMMA PublishKeeps == ASSUME StoreInvariant, NEW t \in Tab, Budget!Publish(t) PROVE StoreInvariant'
<1>1. /\ Budget!Shows(t, doc) \/ UNCHANGED tab
      /\ pull' = [pull EXCEPT ![t] = Budget!NoPull] /\ UNCHANGED <<doc, family, call, told>>
  BY DEF Budget!Publish
<1>2. StoreGood(doc', family', told') /\ Onward(doc, family, told, doc', family', told')
  BY <1>1, Still
<1>3. TabMoves(t)
  BY <1>1, <1>2, Shown DEF TabMoves
<1>4. DeliveryGood(Budget!NoPull, told')
  BY <1>1, InHand, NothingGood
<1> QED BY <1>1, <1>2, <1>3, <1>4, StepGood DEF CallMoves, PullMoves
-----------------------------------------------------------------------------
(* Families come and go.                                                   *)

(* A family gets its key: one that no call or delivery was made under.     *)
LEMMA NewFamily ==
  ASSUME StoreInvariant, NEW origin \in {"local", "family"}, doc' = doc,
         family' = [family EXCEPT !.key = told.families + 1, !.origin = origin],
         told' \in ToldType, told'.writes = told.writes,
         told'.families = told.families + 1, told'.saved = told.saved,
         told'.aside = told.aside
  PROVE  StoreGood(doc', family', told') /\ Onward(doc, family, told, doc', family', told')
<1>1. /\ told.writes \in Nat /\ told.families \in Nat /\ told \in ToldType
      /\ doc \in DocumentType /\ family \in FamilyType
  BY DEF StoreInvariant, StoreGood, ToldType
<1>2. /\ family' \in FamilyType /\ family'.key = told.families + 1
      /\ family'.journal = family.journal
  <2> DEFINE key == told.families + 1
  <2>1. key \in Nat /\ family' = [family EXCEPT !.key = key, !.origin = origin]
    BY <1>1
  <2>2. origin \in {"none", "local", "family"}
    OBVIOUS
  <2> HIDE DEF key
  <2>3. family' \in FamilyType /\ family'.key = key /\ family'.journal = family.journal
    BY <1>1, <2>1, <2>2 DEF FamilyType
  <2> QED BY <2>3 DEF key
<1>3. told.families + 1 # 0 /\ told.families + 1 > told.families
  BY <1>1
<1>4. StoreGood(doc', family', told')
  BY <1>1, <1>2, <1>3 DEF StoreGood, StoreInvariant
<1> QED BY <1>1, <1>2, <1>3, <1>4 DEF Onward

LEMMA FoundKeeps ==
  ASSUME StoreInvariant, NEW t \in Tab, NEW member \in Item, Budget!Found(t, member)
  PROVE  StoreInvariant'
<1> DEFINE c == [Budget!NoCall EXCEPT !.add = {member}]
           begun == IF tab[t].rev = 0 THEN [c EXCEPT !.at = "check"] ELSE Budget!Prepared(t, c)
           s == [tab[t] EXCEPT !.asked = FALSE]
           families == told.families + 1
           drawn == told.drawn \cup {member}
<1>1. /\ tab[t].view = "ready" /\ call' = [call EXCEPT ![t] = begun]
      /\ tab' = [tab EXCEPT ![t] = s]
      /\ family' = [family EXCEPT !.key = families, !.origin = "local"]
      /\ told' = [told EXCEPT !.families = families, !.wrote = FALSE, !.drawn = drawn]
      /\ UNCHANGED <<doc, pull>>
  BY DEF Budget!Found
<1>2. c \in WriteType /\ c.expected = 0 /\ c.key = 0
  BY NothingTyped DEF WriteType, Budget!NoCall, StoreEntity
<1>3. WriteGood(begun, doc, family, told)
  <2> HIDE DEF c
  <2> QED BY <1>1, <1>2, BegunGood
<1>4. ScreenGood(s, doc, told)
  BY InHand DEF ScreenGood, ScreenType
<1>5. told \in ToldType /\ drawn \in SUBSET Item /\ families \in Nat
  <2>1. told \in ToldType
    BY InHand
  <2> QED BY <2>1 DEF ToldType
<1> HIDE DEF begun, s, drawn, families
<1>6. /\ told' \in ToldType /\ told'.writes = told.writes /\ told'.families = families
      /\ told'.saved = told.saved
  BY <1>1, <1>5 DEF ToldType
<1>7. told'.aside = told.aside
  BY <1>1, <1>5, Zenon DEF ToldType
<1>8. StoreGood(doc', family', told') /\ Onward(doc, family, told, doc', family', told')
  BY <1>1, <1>6, <1>7, NewFamily DEF families
<1>9. WriteGood(begun, doc', family', told') /\ ScreenGood(s, doc', told')
  BY <1>3, <1>4, <1>8, OnwardKeeps
<1> QED BY <1>1, <1>8, <1>9, StepGood DEF TabMoves, CallMoves, PullMoves

LEMMA JoinKeeps == ASSUME StoreInvariant, NEW t \in Tab, Budget!Join(t) PROVE StoreInvariant'
<1> DEFINE s == [tab[t] EXCEPT !.asked = FALSE]
           families == told.families + 1
<1>1. /\ tab' = [tab EXCEPT ![t] = s]
      /\ family' = [family EXCEPT !.key = families, !.origin = "family"]
      /\ told' = [told EXCEPT !.families = families]
      /\ UNCHANGED <<doc, call, pull>>
  BY DEF Budget!Join
<1>2. ScreenGood(s, doc, told)
  BY InHand DEF ScreenGood, ScreenType
<1>3. told \in ToldType /\ families \in Nat
  <2>1. told \in ToldType
    BY InHand
  <2> QED BY <2>1 DEF ToldType
<1> HIDE DEF s, families
<1>4. /\ told' \in ToldType /\ told'.writes = told.writes /\ told'.families = families
      /\ told'.saved = told.saved
  BY <1>1, <1>3 DEF ToldType
<1>5. told'.aside = told.aside
  BY <1>1, <1>3, Zenon DEF ToldType
<1>6. StoreGood(doc', family', told') /\ Onward(doc, family, told, doc', family', told')
  BY <1>1, <1>4, <1>5, NewFamily DEF families
<1>7. ScreenGood(s, doc', told')
  BY <1>2, <1>6, OnwardKeeps
<1> QED BY <1>1, <1>6, <1>7, StepGood DEF TabMoves, CallMoves, PullMoves

LEMMA LeaveKeeps == ASSUME StoreInvariant, NEW t \in Tab, Budget!Leave(t) PROVE StoreInvariant'
<1> DEFINE s == [tab[t] EXCEPT !.member = FALSE]
<1>1. /\ tab' = [tab EXCEPT ![t] = s] /\ family' = Budget!NoFamily
      /\ UNCHANGED <<doc, call, pull, told>>
  BY DEF Budget!Leave
<1>2. ScreenGood(s, doc, told)
  BY InHand DEF ScreenGood, ScreenType
<1>3. StoreGood(doc', family', told') /\ Onward(doc, family, told, doc', family', told')
  <2>1. /\ Budget!NoFamily.key = 0 /\ Budget!NoFamily.journal = Budget!NoJournal
        /\ ~Budget!NoJournal.kept /\ ~Budget!NoJournal.ready
        /\ Budget!NoJournal.live = {} /\ Budget!NoFamily \in FamilyType
    BY NothingTyped DEF Budget!NoFamily, Budget!NoJournal
  <2>2. told.families \in Nat /\ told.writes \in Nat
    BY InHand DEF ToldType
  <2> QED BY <1>1, <2>1, <2>2, InHand DEF StoreGood, Onward
<1> HIDE DEF s
<1>4. ScreenGood(s, doc', told')
  BY <1>2, <1>3, OnwardKeeps
<1> QED BY <1>1, <1>3, <1>4, StepGood DEF TabMoves, CallMoves, PullMoves

LEMMA ClearKeeps == ASSUME StoreInvariant, NEW t \in Tab, Budget!Clear(t) PROVE StoreInvariant'
<1> DEFINE s == [tab[t] EXCEPT !.view = "empty", !.shown = {}, !.rev = 0]
<1>1. /\ tab' = [tab EXCEPT ![t] = s] /\ family' = Budget!NoFamily /\ doc' = Budget!NoDocument
      /\ told' = [told EXCEPT !.saved = {}] /\ UNCHANGED <<call, pull>>
  BY DEF Budget!Clear
<1>2. told \in ToldType /\ told.writes \in Nat /\ told.families \in Nat
  BY InHand DEF ToldType
<1>3. /\ told' \in ToldType /\ told'.writes = told.writes /\ told'.families = told.families
      /\ told'.saved = {}
  BY <1>1, <1>2 DEF ToldType
<1>4. StoreGood(doc', family', told') /\ Onward(doc, family, told, doc', family', told')
  <2>1. /\ Budget!NoFamily.key = 0 /\ Budget!NoFamily.journal = Budget!NoJournal
        /\ ~Budget!NoJournal.kept /\ ~Budget!NoJournal.ready
        /\ Budget!NoJournal.live = {} /\ Budget!NoFamily \in FamilyType
        /\ Budget!NoDocument \in DocumentType /\ Budget!NoDocument.rev = 0
    BY NothingTyped DEF Budget!NoFamily, Budget!NoJournal, Budget!NoDocument
  <2> QED BY <1>1, <1>2, <1>3, <2>1, InHand DEF StoreGood, Onward
<1>5. ScreenGood(s, doc', told')
  <2>1. s \in ScreenType /\ s.rev = 0
    BY InHand DEF ScreenType
  <2> HIDE DEF s
  <2> QED BY <1>2, <1>3, <2>1 DEF ScreenGood
<1> QED BY <1>1, <1>4, <1>5, StepGood DEF TabMoves, CallMoves, PullMoves

-----------------------------------------------------------------------------
(* The theorems.                                                           *)

LEMMA StoreStarts == Budget!Init => StoreInvariant
<1> SUFFICES ASSUME Budget!Init PROVE StoreInvariant
  OBVIOUS
<1>1. told \in ToldType /\ told.writes = 0 /\ told.families = 0 /\ told.saved = {}
  BY DEF Budget!Init, ToldType
<1>2. StoreGood(doc, family, told)
  <2>1. doc = Budget!NoDocument /\ doc.rev = 0 /\ doc.value = {}
    BY DEF Budget!Init, Budget!NoDocument
  <2>2. family = Budget!NoFamily /\ family.key = 0 /\ family.journal = Budget!NoJournal
    BY DEF Budget!Init, Budget!NoFamily
  <2>3. ~Budget!NoJournal.kept /\ ~Budget!NoJournal.ready /\ Budget!NoJournal.live = {}
    BY DEF Budget!NoJournal
  <2> QED BY <1>1, <2>1, <2>2, <2>3, NothingTyped DEF StoreGood
<1>3. /\ tab \in [Tab -> ScreenType] /\ call \in [Tab -> WriteType] /\ pull \in [Tab -> DeliveryType]
      /\ \A t \in Tab : tab[t] = Budget!NewTab /\ call[t] = Budget!NoCall /\ pull[t] = Budget!NoPull
  BY NothingTyped DEF Budget!Init
<1> QED BY <1>1, <1>2, <1>3, NothingGood DEF StoreInvariant

LEMMA BudgetStep == StoreInvariant /\ [Budget!Next]_(Budget!vars) => StoreInvariant'
<1> SUFFICES ASSUME StoreInvariant, [Budget!Next]_(Budget!vars) PROVE StoreInvariant'
  OBVIOUS
<1>1. CASE UNCHANGED Budget!vars
  BY <1>1 DEF Budget!vars, StoreInvariant, StoreGood, ScreenGood, WriteGood, DeliveryGood
<1>2. ASSUME NEW t \in Tab, NEW i \in Budget!Fresh, Budget!Onboard(t, i) \/ Budget!Found(t, i) \/ Budget!Apply(t, {i}, {})
      PROVE  StoreInvariant'
  <2>1. i \in Item /\ {i} \in SUBSET Item /\ {} \in SUBSET StoreEntity
    BY DEF Budget!Fresh
  <2> QED BY <1>2, <2>1, OnboardKeeps, FoundKeeps, ApplyKeeps
<1>3. ASSUME NEW t \in Tab, NEW i \in tab[t].shown, Budget!Apply(t, {}, {i}) PROVE StoreInvariant'
  <2>1. {i} \in SUBSET StoreEntity /\ {} \in SUBSET Item
    BY InHand DEF ScreenType
  <2> QED BY <1>3, <2>1, ApplyKeeps
<1>4. ASSUME NEW t \in Tab, NEW i \in told.drawn, Budget!Apply(t, {i}, Item \ {i}) PROVE StoreInvariant'
  <2>1. {i} \in SUBSET Item /\ Item \ {i} \in SUBSET StoreEntity
    BY InHand DEF ToldType, StoreEntity
  <2> QED BY <1>4, <2>1, ApplyKeeps
<1>5. ASSUME NEW t \in Tab, NEW i \in Foreign, NEW ready \in BOOLEAN, Budget!Fetch(t, {i}, ready)
      PROVE  StoreInvariant'
  <2>1. {i} \in SUBSET StoreEntity
    BY DEF StoreEntity
  <2> QED BY <1>5, <2>1, FetchKeeps
<1>6. ASSUME NEW t \in Tab,
             \/ Budget!Load(t) \/ Budget!ReadSession(t) \/ Budget!Reopen(t) \/ Budget!Check(t)
             \/ Budget!Save(t) \/ Budget!Open(t)
             \/ Budget!Enqueue(t) \/ Budget!Reread(t) \/ Budget!Refuse(t) \/ Budget!FoldPage(t)
             \/ Budget!Publish(t)
             \/ Budget!Join(t) \/ Budget!Leave(t) \/ Budget!Clear(t)
      PROVE  StoreInvariant'
  BY <1>6, LoadKeeps, ReadSessionKeeps, ReopenKeeps, CheckKeeps, SaveKeeps, OpenKeeps,
     EnqueueKeeps, RereadKeeps, RefuseKeeps, FoldDeliveryKeeps, PublishKeeps, JoinKeeps,
     LeaveKeeps, ClearKeeps
<1> QED BY <1>1, <1>2, <1>3, <1>4, <1>5, <1>6 DEF Budget!Next

(* The inductive invariant of the store: a write on its way started from   *)
(* the budget whose revision it expects, and a journal that can be shown   *)
(* holds what was saved.                                                   *)
THEOREM StoreInvariantHolds == Budget!Spec => []StoreInvariant
  BY StoreStarts, BudgetStep, PTL DEF Budget!Spec

(* However tabs, deliveries, founding, joining, leaving and clearing come  *)
(* between the steps of a write, what was reported saved is in the         *)
(* document, but where a write went past the family's journal.             *)
THEOREM StoreKeepsSaved == Budget!Spec => []Budget!SavedIsKept
<1>1. StoreInvariant => Budget!SavedIsKept
  BY DEF StoreInvariant, StoreGood, Budget!SavedIsKept
<1> QED BY <1>1, StoreInvariantHolds, PTL

(* A screen that would win a compare-and-set shows what it would replace.  *)
THEOREM StoreShowsStored == Budget!Spec => []Budget!ShownIsStored
<1>1. StoreInvariant => Budget!ShownIsStored
  BY DEF StoreInvariant, ScreenGood, Budget!ShownIsStored
<1> QED BY <1>1, StoreInvariantHolds, PTL

-----------------------------------------------------------------------------
(* Joining.                                                                *)

BoxType == [epoch : 0 .. MaxJoinEpoch, key : 0 .. MaxJoinEpoch]

RowsType == [Leader -> [key : {"own", "other"}, proof : 0 .. MaxInvites]]

GroupType == [epoch : 1 .. MaxJoinEpoch, owned : BOOLEAN, live : 0 .. MaxInvites,
              boxes : [1 .. MaxInvites -> BoxType], members : SUBSET Leader,
              rows : RowsType, expired : SUBSET (1 .. MaxInvites)]

InviterType ==
  [key : 1 .. MaxJoinEpoch, shown : 0 .. MaxJoinEpoch,
   call : [at : {"idle", "sealed", "created"}, invite : 0 .. MaxInvites, box : BoxType],
   stored : 0 .. MaxInvites, code : 0 .. MaxInvites,
   verdicts : [Leader -> {"none", "bound", "failed"}], pins : [Leader -> {"none", "own"}],
   check : [at : {"idle", "listed", "proved"}, rows : RowsType, invite : 0 .. MaxInvites]]

JoinerType ==
  [at : {"out", "heard", "claimed", "joined", "half", "in", "gone"}, invite : 0 .. MaxInvites,
   box : BoxType, entered : 0 .. MaxJoinEpoch, key : BoxType, pinned : BOOLEAN]

CodesType == [made : 0 .. MaxInvites, stored : SUBSET (1 .. MaxInvites),
              replaced : SUBSET (1 .. MaxInvites), stale : SUBSET (1 .. MaxInvites)]

JoinTyped(g, o, js, c) ==
  /\ g \in GroupType /\ o \in InviterType /\ js \in [Leader -> JoinerType] /\ c \in CodesType

(* A box is sealed under its own epoch, or by a device known to be behind. *)
Fits(box, i, c) == box.key = box.epoch \/ i \in c.stale

(* Invites: the live one is of the epoch in force and unused, the one on   *)
(* its way to the server is known to nobody yet.                           *)
InvitesGood(g, o, c) ==
  /\ o.key <= g.epoch /\ o.shown <= g.epoch
  /\ g.live <= c.made /\ c.stored \subseteq 1 .. c.made
  /\ \A j \in Leader : g.rows[j].proof <= c.made
  /\ \A j, k \in Leader : g.rows[j].proof # 0 /\ g.rows[j].proof = g.rows[k].proof => j = k
  /\ \A i \in 1 .. MaxInvites : Fits(g.boxes[i], i, c)
  /\ g.live # 0 => g.boxes[g.live].epoch = g.epoch /\ \A j \in Leader : g.rows[j].proof # g.live
  /\ o.call.at # "idle" => o.call.invite \in 1 .. c.made
  /\ o.call.at = "sealed" =>
       /\ o.call.invite \notin c.stored /\ o.call.invite # g.live
       /\ Fits(o.call.box, o.call.invite, c)
       /\ \A j \in Leader : g.rows[j].proof # o.call.invite

(* A joiner knows a code the owner has stored, and while that is live the  *)
(* box it claimed is the one on the server.                                *)
JoinerGood(j, one, g, c) ==
  /\ one.at # "out" => one.invite \in c.stored
  /\ one.at = "claimed" /\ one.invite = g.live => one.box = g.boxes[one.invite]
  /\ one.at \notin {"out", "heard"} => Fits(one.box, one.invite, c)
  /\ one.key # Joins!NoBox => one.key = one.box /\ one.pinned /\ one.at \in {"in", "gone"}
  /\ IF one.at \in {"out", "heard", "claimed"}
     THEN g.rows[j].proof = 0 /\ one.entered = 0
     ELSE g.rows[j].proof = one.invite /\ one.entered = one.box.epoch

(* The owner's check works on rows that were the server's, and an invite   *)
(* leaves the owner's disk only for a reason.                              *)
ChecksGood(g, o, c) ==
  /\ o.stored \in c.stored \cup {0} /\ o.code \in {0, o.stored}
  /\ \A j \in Leader :
       /\ o.verdicts[j] = "failed" => g.rows[j].key = "other"
       /\ o.check.rows[j].key = "other" => g.rows[j].key = "other"
       /\ o.check.rows[j].proof \in {0, g.rows[j].proof}
  /\ o.check.at = "proved" =>
       o.check.invite # 0 /\ \E j \in Leader : o.check.rows[j].proof = o.check.invite
  /\ \A i \in c.stored \ (c.replaced \cup g.expired) :
       \/ o.stored = i
       \/ \E j \in Leader : g.rows[j].proof = i /\ o.verdicts[j] # "none"

JoinGood(g, o, js, c) ==
  /\ JoinTyped(g, o, js, c) /\ InvitesGood(g, o, c) /\ ChecksGood(g, o, c)
  /\ \A j \in Leader : JoinerGood(j, js[j], g, c)

JoinInvariant == JoinGood(group, inviter, invited, codes)

(* A bound of the joining is a number at least one.                        *)
LEMMA JoinBoundsNat ==
  /\ MaxInvites \in Nat \ {0} /\ MaxJoinEpoch \in Nat \ {0}
  /\ 0 \in 0 .. MaxInvites /\ 0 \in 0 .. MaxJoinEpoch
BY BoundsAssumption

USE DEF Joins!Invite

(* At the start nobody knows a code and nobody has joined.                 *)
LEMMA JoinStarts == Joins!Init => JoinInvariant
<1> SUFFICES ASSUME Joins!Init PROVE JoinInvariant
  OBVIOUS
<1> USE DEF Joins!Init, Joins!NoBox, Joins!NoRow, Joins!NoCall, Joins!NoCheck, Joins!Out
<1>1. JoinTyped(group, inviter, invited, codes)
  BY JoinBoundsNat DEF JoinTyped, GroupType, InviterType, JoinerType, CodesType, BoxType, RowsType
<1>2. InvitesGood(group, inviter, codes)
  BY JoinBoundsNat DEF InvitesGood, Fits
<1>3. ChecksGood(group, inviter, codes)
  BY JoinBoundsNat DEF ChecksGood
<1>4. \A j \in Leader : JoinerGood(j, invited[j], group, codes)
  BY JoinBoundsNat DEF JoinerGood, Fits
<1> QED BY <1>1, <1>2, <1>3, <1>4 DEF JoinInvariant, JoinGood

(* The key is changed elsewhere: no invite is live.                        *)
LEMMA RotateKeeps == ASSUME JoinInvariant, Joins!Rotate PROVE JoinInvariant'
<1>0. /\ JoinTyped(group, inviter, invited, codes) /\ InvitesGood(group, inviter, codes)
      /\ ChecksGood(group, inviter, codes)
      /\ \A each \in Leader : JoinerGood(each, invited[each], group, codes)
  BY DEF JoinInvariant, JoinGood
<1>1. /\ group \in GroupType /\ group.epoch < MaxJoinEpoch
      /\ group' = [group EXCEPT !.epoch = @ + 1, !.live = 0]
      /\ inviter' = inviter /\ invited' = invited /\ codes' = codes
  BY <1>0 DEF Joins!Rotate, JoinTyped
<1>2. /\ group' \in GroupType /\ group'.epoch = group.epoch + 1 /\ group'.live = 0
      /\ group'.boxes = group.boxes /\ group'.rows = group.rows /\ group'.expired = group.expired
  <2>1. group.epoch + 1 \in 1 .. MaxJoinEpoch
    BY <1>1, JoinBoundsNat DEF GroupType
  <2> QED BY <1>1, <2>1, JoinBoundsNat DEF GroupType
<1>3. group.epoch \in Int /\ inviter.key \in Int /\ inviter.shown \in Int
  BY <1>0, JoinBoundsNat DEF JoinTyped, GroupType, InviterType
<1>4. InvitesGood(group', inviter', codes')
  BY <1>0, <1>1, <1>2, <1>3, JoinBoundsNat DEF InvitesGood, JoinTyped, CodesType
<1>5. JoinTyped(group', inviter', invited', codes') /\ ChecksGood(group', inviter', codes')
  BY <1>0, <1>1, <1>2 DEF JoinTyped, ChecksGood
<1>6. \A j \in Leader : JoinerGood(j, invited'[j], group', codes')
  BY <1>0, <1>1, <1>2 DEF JoinerGood, Fits, JoinTyped, CodesType
<1> QED BY <1>4, <1>5, <1>6 DEF JoinInvariant, JoinGood

(* The owner's device takes the family's key.                              *)
LEMMA FollowKeeps == ASSUME JoinInvariant, Joins!Follow PROVE JoinInvariant'
<1>0. /\ JoinTyped(group, inviter, invited, codes) /\ InvitesGood(group, inviter, codes)
      /\ ChecksGood(group, inviter, codes)
      /\ \A each \in Leader : JoinerGood(each, invited[each], group, codes)
  BY DEF JoinInvariant, JoinGood
<1>1. /\ inviter \in InviterType /\ group \in GroupType
      /\ inviter' = [inviter EXCEPT !.key = group.epoch]
      /\ group' = group /\ invited' = invited /\ codes' = codes
  BY <1>0 DEF Joins!Follow, JoinTyped
<1>2. /\ inviter' \in InviterType /\ inviter'.key = group.epoch
      /\ inviter'.shown = inviter.shown /\ inviter'.call = inviter.call
      /\ inviter'.stored = inviter.stored /\ inviter'.code = inviter.code
      /\ inviter'.verdicts = inviter.verdicts /\ inviter'.check = inviter.check
  BY <1>0, <1>1 DEF InviterType, GroupType
<1>3. group.epoch \in Int
  BY <1>1, JoinBoundsNat DEF GroupType
<1>4. InvitesGood(group', inviter', codes')
  BY <1>0, <1>1, <1>2, <1>3 DEF InvitesGood
<1>5. JoinTyped(group', inviter', invited', codes') /\ ChecksGood(group', inviter', codes')
  BY <1>0, <1>1, <1>2 DEF JoinTyped, ChecksGood
<1> QED BY <1>1, <1>4, <1>5 DEF JoinInvariant, JoinGood

(* A code runs out.                                                        *)
LEMMA ExpireKeeps ==
  ASSUME JoinInvariant, NEW i \in 1 .. MaxInvites, Joins!Expire(i)
  PROVE  JoinInvariant'
<1>0. /\ JoinTyped(group, inviter, invited, codes) /\ InvitesGood(group, inviter, codes)
      /\ ChecksGood(group, inviter, codes)
      /\ \A each \in Leader : JoinerGood(each, invited[each], group, codes)
  BY DEF JoinInvariant, JoinGood
<1>1. /\ group \in GroupType /\ inviter' = inviter /\ invited' = invited /\ codes' = codes
      /\ group' = [group EXCEPT !.expired = @ \cup {i}, !.live = IF @ = i THEN 0 ELSE @]
  BY <1>0 DEF Joins!Expire, JoinTyped
<1>2. /\ group' \in GroupType /\ group'.epoch = group.epoch /\ group'.live \in {0, group.live}
      /\ group'.boxes = group.boxes /\ group'.rows = group.rows
      /\ group'.expired = group.expired \cup {i}
  <2> DEFINE live == IF group.live = i THEN 0 ELSE group.live
             expired == group.expired \cup {i}
  <2>1. /\ live \in 0 .. MaxInvites /\ live \in {0, group.live}
        /\ expired \in SUBSET (1 .. MaxInvites)
    BY <1>1, JoinBoundsNat DEF GroupType
  <2>2. group' = [group EXCEPT !.expired = expired, !.live = live]
    BY <1>1 DEF GroupType
  <2> HIDE DEF live, expired
  <2>3. /\ group' \in GroupType /\ group'.epoch = group.epoch /\ group'.live = live
        /\ group'.boxes = group.boxes /\ group'.rows = group.rows /\ group'.expired = expired
    BY <1>1, <2>1, <2>2 DEF GroupType
  <2> QED BY <2>1, <2>3 DEF expired
<1>3. InvitesGood(group', inviter', codes')
  <2>1. 0 <= codes.made /\ (group'.live = 0 \/ group'.live = group.live)
    BY <1>0, <1>2, JoinBoundsNat DEF JoinTyped, CodesType
  <2>2. inviter.call.at = "sealed" => inviter.call.invite # 0
    BY <1>0, JoinBoundsNat DEF InvitesGood, JoinTyped, CodesType
  <2> QED BY <1>0, <1>1, <1>2, <2>1, <2>2 DEF InvitesGood
<1>4. JoinTyped(group', inviter', invited', codes') /\ ChecksGood(group', inviter', codes')
  BY <1>0, <1>1, <1>2 DEF JoinTyped, ChecksGood
<1>5. ASSUME NEW j \in Leader PROVE JoinerGood(j, invited'[j], group', codes')
  <2>1. JoinerGood(j, invited[j], group, codes)
    BY <1>0
  <2>2. invited[j].at = "claimed" => invited[j].invite # 0
    BY <1>0, <2>1, JoinBoundsNat DEF JoinerGood, JoinTyped, CodesType
  <2> QED BY <1>0, <1>1, <1>2, <2>1, <2>2 DEF JoinerGood
<1> QED BY <1>3, <1>4, <1>5 DEF JoinInvariant, JoinGood

(* The family loses its owner.                                             *)
LEMMA DeleteOwnerKeeps == ASSUME JoinInvariant, Joins!DeleteOwner PROVE JoinInvariant'
<1>0. /\ JoinTyped(group, inviter, invited, codes) /\ InvitesGood(group, inviter, codes)
      /\ ChecksGood(group, inviter, codes)
      /\ \A each \in Leader : JoinerGood(each, invited[each], group, codes)
  BY DEF JoinInvariant, JoinGood
<1>1. /\ group \in GroupType /\ group' = [group EXCEPT !.owned = FALSE, !.live = 0]
      /\ inviter' = inviter /\ invited' = invited /\ codes' = codes
  BY <1>0 DEF Joins!DeleteOwner, JoinTyped
<1>2. /\ group' \in GroupType /\ group'.epoch = group.epoch /\ group'.live = 0
      /\ group'.boxes = group.boxes /\ group'.rows = group.rows /\ group'.expired = group.expired
  BY <1>1, JoinBoundsNat DEF GroupType
<1>3. InvitesGood(group', inviter', codes')
  BY <1>0, <1>1, <1>2, JoinBoundsNat DEF InvitesGood, JoinTyped, CodesType
<1>4. JoinTyped(group', inviter', invited', codes') /\ ChecksGood(group', inviter', codes')
  BY <1>0, <1>1, <1>2 DEF JoinTyped, ChecksGood
<1>5. \A j \in Leader : JoinerGood(j, invited'[j], group', codes')
  BY <1>0, <1>1, <1>2, JoinBoundsNat DEF JoinerGood, JoinTyped, CodesType
<1> QED BY <1>3, <1>4, <1>5 DEF JoinInvariant, JoinGood

(* The server's row of a device holds a key of somebody else.              *)
LEMMA SwapKeeps ==
  ASSUME JoinInvariant, NEW j \in Leader, Joins!Swap(j)
  PROVE  JoinInvariant'
<1>0. /\ JoinTyped(group, inviter, invited, codes) /\ InvitesGood(group, inviter, codes)
      /\ ChecksGood(group, inviter, codes)
      /\ \A each \in Leader : JoinerGood(each, invited[each], group, codes)
  BY DEF JoinInvariant, JoinGood
<1>1. /\ group \in GroupType /\ group' = [group EXCEPT !.rows[j].key = "other"]
      /\ inviter' = inviter /\ invited' = invited /\ codes' = codes
  BY <1>0 DEF Joins!Swap, JoinTyped
<1>2. /\ group' \in GroupType /\ group'.epoch = group.epoch /\ group'.live = group.live
      /\ group'.boxes = group.boxes /\ group'.expired = group.expired
      /\ \A k \in Leader : group'.rows[k].proof = group.rows[k].proof
      /\ \A k \in Leader : group.rows[k].key = "other" => group'.rows[k].key = "other"
  BY <1>0, <1>1 DEF GroupType, RowsType
<1>3. InvitesGood(group', inviter', codes')
  BY <1>0, <1>1, <1>2 DEF InvitesGood
<1>4. JoinTyped(group', inviter', invited', codes') /\ ChecksGood(group', inviter', codes')
  BY <1>0, <1>1, <1>2 DEF JoinTyped, ChecksGood
<1>5. \A k \in Leader : JoinerGood(k, invited'[k], group', codes')
  BY <1>0, <1>1, <1>2 DEF JoinerGood
<1> QED BY <1>3, <1>4, <1>5 DEF JoinInvariant, JoinGood

(* The key on the disk is sealed under the epoch on the screen.            *)
LEMMA PressKeeps == ASSUME JoinInvariant, Joins!Press PROVE JoinInvariant'
<1>0. /\ JoinTyped(group, inviter, invited, codes) /\ InvitesGood(group, inviter, codes)
      /\ ChecksGood(group, inviter, codes)
      /\ \A each \in Leader : JoinerGood(each, invited[each], group, codes)
  BY DEF JoinInvariant, JoinGood
<1> DEFINE n == codes.made + 1
           sealed == [at |-> "sealed", invite |-> n,
                      box |-> [epoch |-> inviter.shown, key |-> inviter.key]]
           behind == codes.stale \cup IF inviter.key # inviter.shown THEN {n} ELSE {}
<1>1. /\ inviter \in InviterType /\ codes \in CodesType
      /\ inviter' = [inviter EXCEPT !.call = sealed]
      /\ codes' = [codes EXCEPT !.made = n, !.stale = behind]
      /\ group' = group /\ invited' = invited
  BY <1>0 DEF Joins!Press, JoinTyped, CodesType
<1>2. /\ n \in 1 .. MaxInvites /\ n \in 0 .. MaxInvites /\ codes.made \in Nat
      /\ behind \in SUBSET (1 .. MaxInvites)
  BY <1>0, JoinBoundsNat DEF Joins!Press, JoinTyped, CodesType
<1>3. inviter.shown \in 0 .. MaxJoinEpoch /\ inviter.key \in 0 .. MaxJoinEpoch
  BY <1>1, JoinBoundsNat DEF InviterType
<1>4. codes.made < n /\ n \notin codes.stored /\ n # group.live
      /\ \A j \in Leader : group.rows[j].proof # n
  BY <1>0, <1>2, JoinBoundsNat DEF InvitesGood, JoinTyped, CodesType
<1>5. sealed \in [at : {"idle", "sealed", "created"}, invite : 0 .. MaxInvites, box : BoxType]
  BY <1>2, <1>3 DEF BoxType
<1>6. /\ sealed.at = "sealed" /\ sealed.invite = n
      /\ Fits(sealed.box, n, [stale |-> behind])
      /\ codes.stale \subseteq behind
  BY <1>3 DEF Fits
<1> HIDE DEF sealed, behind
<1>7. /\ codes' \in CodesType /\ codes'.made = n /\ codes'.stale = behind
      /\ codes'.stored = codes.stored /\ codes'.replaced = codes.replaced
  BY <1>1, <1>2 DEF CodesType
<1>8. /\ inviter' \in InviterType /\ inviter'.call = sealed /\ inviter'.key = inviter.key
      /\ inviter'.shown = inviter.shown /\ inviter'.stored = inviter.stored
      /\ inviter'.code = inviter.code /\ inviter'.verdicts = inviter.verdicts
      /\ inviter'.check = inviter.check
  BY <1>1, <1>5 DEF InviterType
<1> HIDE DEF n
<1>9. InvitesGood(group', inviter', codes')
  <2>1. /\ inviter'.key <= group'.epoch /\ inviter'.shown <= group'.epoch
        /\ \A j, k \in Leader :
             group'.rows[j].proof # 0 /\ group'.rows[j].proof = group'.rows[k].proof => j = k
        /\ group'.live # 0 =>
             group'.boxes[group'.live].epoch = group'.epoch
             /\ \A j \in Leader : group'.rows[j].proof # group'.live
    BY <1>0, <1>1, <1>8 DEF InvitesGood
  <2>2. /\ group'.live <= codes'.made /\ codes'.stored \subseteq 1 .. codes'.made
        /\ \A j \in Leader : group'.rows[j].proof <= codes'.made
    <3>1. group.live \in Nat /\ \A j \in Leader : group.rows[j].proof \in Nat
      BY <1>0, JoinBoundsNat DEF JoinTyped, GroupType, RowsType
    <3>2. n \in Nat
      BY <1>2
    <3> QED BY <1>0, <1>1, <1>2, <1>4, <1>7, <3>1, <3>2 DEF InvitesGood
  <2>3. \A i \in 1 .. MaxInvites : Fits(group'.boxes[i], i, codes')
    BY <1>0, <1>1, <1>6, <1>7 DEF InvitesGood, Fits
  <2>4. /\ inviter'.call.invite \in 1 .. codes'.made
        /\ inviter'.call.invite \notin codes'.stored /\ inviter'.call.invite # group'.live
        /\ Fits(inviter'.call.box, inviter'.call.invite, codes')
        /\ \A j \in Leader : group'.rows[j].proof # inviter'.call.invite
    BY <1>1, <1>2, <1>4, <1>6, <1>7, <1>8 DEF Fits
  <2> QED BY <2>1, <2>2, <2>3, <2>4 DEF InvitesGood
<1>10. JoinTyped(group', inviter', invited', codes') /\ ChecksGood(group', inviter', codes')
  BY <1>0, <1>1, <1>7, <1>8 DEF JoinTyped, ChecksGood
<1>11. \A j \in Leader : JoinerGood(j, invited'[j], group', codes')
  BY <1>0, <1>1, <1>6, <1>7 DEF JoinerGood, Fits
<1> QED BY <1>9, <1>10, <1>11 DEF JoinInvariant, JoinGood

(* The inviter once its call is over or has come further.                  *)
LEMMA Called ==
  ASSUME inviter \in InviterType, NEW x, x \in {"over", "created"},
         inviter' = IF x = "over" THEN [inviter EXCEPT !.call = Joins!NoCall]
                    ELSE [inviter EXCEPT !.call.at = "created"]
  PROVE  /\ inviter' \in InviterType /\ inviter'.key = inviter.key
         /\ inviter'.shown = inviter.shown /\ inviter'.stored = inviter.stored
         /\ inviter'.code = inviter.code /\ inviter'.verdicts = inviter.verdicts
         /\ inviter'.check = inviter.check
         /\ inviter'.call.at \in {"idle", "created"}
         /\ inviter'.call.at = "created" => inviter'.call.invite = inviter.call.invite
<1>1. CASE x = "over"
  BY <1>1, JoinBoundsNat DEF InviterType, BoxType, Joins!NoCall, Joins!NoBox
<1>2. CASE x = "created"
  <2> DEFINE made2 == [inviter.call EXCEPT !.at = "created"]
  <2>1. /\ made2 \in [at : {"idle", "sealed", "created"}, invite : 0 .. MaxInvites, box : BoxType]
        /\ made2.at = "created" /\ made2.invite = inviter.call.invite
    BY DEF InviterType
  <2>2. inviter' = [inviter EXCEPT !.call = made2]
    BY <1>2 DEF InviterType
  <2> HIDE DEF made2
  <2> QED BY <2>1, <2>2 DEF InviterType
<1> QED BY <1>1, <1>2

(* The server takes the code, or does not; the answer may be lost.         *)
LEMMA CreateKeeps == ASSUME JoinInvariant, Joins!Create PROVE JoinInvariant'
<1>0. /\ JoinTyped(group, inviter, invited, codes) /\ InvitesGood(group, inviter, codes)
      /\ ChecksGood(group, inviter, codes)
      /\ \A each \in Leader : JoinerGood(each, invited[each], group, codes)
  BY DEF JoinInvariant, JoinGood
<1> DEFINE i == inviter.call.invite
           box == inviter.call.box
<1>1. /\ inviter.call.at = "sealed" /\ inviter \in InviterType /\ group \in GroupType
      /\ invited' = invited /\ codes' = codes
  BY <1>0 DEF Joins!Create, JoinTyped
<1>2. PICK x \in {"over", "created"} :
         inviter' = IF x = "over" THEN [inviter EXCEPT !.call = Joins!NoCall]
                    ELSE [inviter EXCEPT !.call.at = "created"]
  BY DEF Joins!Create
<1>3. /\ inviter' \in InviterType /\ inviter'.key = inviter.key
      /\ inviter'.shown = inviter.shown /\ inviter'.stored = inviter.stored
      /\ inviter'.code = inviter.code /\ inviter'.verdicts = inviter.verdicts
      /\ inviter'.check = inviter.check
      /\ inviter'.call.at \in {"idle", "created"}
      /\ inviter'.call.at = "created" => inviter'.call.invite = inviter.call.invite
  BY <1>1, <1>2, Called
<1>4. /\ i \in 1 .. codes.made /\ i \notin codes.stored /\ Fits(box, i, codes)
      /\ \A j \in Leader : group.rows[j].proof # i
  BY <1>0, <1>1 DEF InvitesGood
<1>5. i \in 1 .. MaxInvites /\ i \in 0 .. MaxInvites /\ i # 0 /\ i <= codes.made /\ box \in BoxType
  BY <1>0, <1>4, JoinBoundsNat DEF JoinTyped, CodesType, InviterType
<1> HIDE DEF i, box
<1>6. CASE group' = group
  <2>1. JoinTyped(group', inviter', invited', codes') /\ ChecksGood(group', inviter', codes')
    BY <1>0, <1>1, <1>3, <1>6 DEF JoinTyped, ChecksGood
  <2>2. InvitesGood(group', inviter', codes')
    BY <1>0, <1>1, <1>3, <1>6 DEF InvitesGood
  <2> QED BY <1>0, <1>1, <1>6, <2>1, <2>2 DEF JoinInvariant, JoinGood
<1>7. CASE /\ box.epoch = group.epoch
           /\ group' = [group EXCEPT !.live = i, !.boxes[i] = box]
  <2> DEFINE boxes == [group.boxes EXCEPT ![i] = box]
  <2>1. /\ boxes \in [1 .. MaxInvites -> BoxType] /\ boxes[i] = box
        /\ \A k \in 1 .. MaxInvites : k # i => boxes[k] = group.boxes[k]
    BY <1>1, <1>5 DEF GroupType
  <2>2. group' = [group EXCEPT !.live = i, !.boxes = boxes]
    BY <1>7, <1>1 DEF GroupType
  <2> HIDE DEF boxes
  <2>3. /\ group' \in GroupType /\ group'.live = i /\ group'.boxes = boxes
        /\ group'.epoch = group.epoch /\ group'.rows = group.rows
        /\ group'.expired = group.expired
    BY <1>1, <1>5, <2>1, <2>2 DEF GroupType
  <2>4. JoinTyped(group', inviter', invited', codes') /\ ChecksGood(group', inviter', codes')
    BY <1>0, <1>1, <1>3, <2>3 DEF JoinTyped, ChecksGood
  <2>5. \A k \in 1 .. MaxInvites : Fits(boxes[k], k, codes)
    BY <1>0, <1>4, <2>1 DEF InvitesGood
  <2>6. InvitesGood(group', inviter', codes')
    <3>1. /\ inviter'.key <= group'.epoch /\ inviter'.shown <= group'.epoch
          /\ codes'.stored \subseteq 1 .. codes'.made
          /\ \A j \in Leader : group'.rows[j].proof <= codes'.made
          /\ \A j, k \in Leader :
               group'.rows[j].proof # 0 /\ group'.rows[j].proof = group'.rows[k].proof => j = k
      BY <1>0, <1>1, <1>3, <2>3 DEF InvitesGood
    <3>2. /\ group'.live <= codes'.made
          /\ group'.boxes[group'.live].epoch = group'.epoch
          /\ \A j \in Leader : group'.rows[j].proof # group'.live
      BY <1>1, <1>4, <1>5, <1>7, <2>1, <2>3
    <3>3. inviter'.call.at # "idle" => inviter'.call.invite \in 1 .. codes'.made
      BY <1>1, <1>3, <1>4 DEF i
    <3>4. inviter'.call.at # "sealed"
      BY <1>3
    <3>5. \A k \in 1 .. MaxInvites : Fits(group'.boxes[k], k, codes')
      BY <1>1, <2>3, <2>5
    <3> QED BY <3>1, <3>2, <3>3, <3>4, <3>5 DEF InvitesGood
  <2>7. \A j \in Leader : JoinerGood(j, invited'[j], group', codes')
    BY <1>0, <1>1, <1>4, <2>3 DEF JoinerGood
  <2> QED BY <2>4, <2>6, <2>7 DEF JoinInvariant, JoinGood
<1> QED BY <1>6, <1>7 DEF Joins!Create, i, box

(* The invite is written to the owner's disk, over the one before it.      *)
LEMMA StoreKeeps == ASSUME JoinInvariant, Joins!Store PROVE JoinInvariant'
<1>0. /\ JoinTyped(group, inviter, invited, codes) /\ InvitesGood(group, inviter, codes)
      /\ ChecksGood(group, inviter, codes)
      /\ \A each \in Leader : JoinerGood(each, invited[each], group, codes)
  BY DEF JoinInvariant, JoinGood
<1> DEFINE i == inviter.call.invite
           stored == codes.stored \cup {i}
           replaced == codes.replaced \cup ({inviter.stored} \ {0, i})
<1>1. /\ inviter.call.at = "created" /\ inviter \in InviterType /\ codes \in CodesType
      /\ group' = group /\ invited' = invited
      /\ inviter' = [inviter EXCEPT !.call = Joins!NoCall, !.stored = i, !.code = i]
      /\ codes' = [codes EXCEPT !.stored = stored, !.replaced = replaced]
  BY <1>0 DEF Joins!Store, Joins!Replaced, JoinTyped, CodesType
<1>2. i \in 1 .. codes.made /\ i \in 1 .. MaxInvites /\ i \in 0 .. MaxInvites /\ i # 0
  BY <1>0, <1>1, JoinBoundsNat DEF InvitesGood, JoinTyped, CodesType
<1>3. stored \in SUBSET (1 .. MaxInvites) /\ replaced \in SUBSET (1 .. MaxInvites)
  BY <1>0, <1>1, <1>2, JoinBoundsNat DEF InviterType, CodesType
<1>4. /\ Joins!NoCall \in [at : {"idle", "sealed", "created"}, invite : 0 .. MaxInvites, box : BoxType]
      /\ Joins!NoCall.at = "idle"
  BY JoinBoundsNat DEF Joins!NoCall, Joins!NoBox, BoxType
<1> HIDE DEF i
<1>5. /\ inviter' \in InviterType /\ inviter'.key = inviter.key
      /\ inviter'.shown = inviter.shown /\ inviter'.stored = i
      /\ inviter'.code = i /\ inviter'.verdicts = inviter.verdicts
      /\ inviter'.check = inviter.check /\ inviter'.call = Joins!NoCall
  BY <1>1, <1>2, <1>4 DEF InviterType
<1>6. /\ codes' \in CodesType /\ codes'.made = codes.made /\ codes'.stale = codes.stale
      /\ codes'.stored = stored /\ codes'.replaced = replaced
  <2> HIDE DEF stored, replaced
  <2> QED BY <1>1, <1>3 DEF CodesType
<1>7. InvitesGood(group', inviter', codes')
  BY <1>0, <1>1, <1>2, <1>4, <1>5, <1>6 DEF InvitesGood, Fits
<1>8. ChecksGood(group', inviter', codes')
  <2>1. ASSUME NEW k \in codes'.stored \ (codes'.replaced \cup group'.expired)
        PROVE  \/ inviter'.stored = k
               \/ \E j \in Leader : group'.rows[j].proof = k /\ inviter'.verdicts[j] # "none"
    <3>1. k # i => k \in codes.stored \ (codes.replaced \cup group.expired) /\ k # inviter.stored
      BY <1>0, <1>1, <1>3, <1>6, <2>1, JoinBoundsNat DEF CodesType
    <3> QED BY <1>0, <1>1, <1>5, <3>1 DEF ChecksGood
  <2> QED BY <1>0, <1>1, <1>5, <1>6, <2>1 DEF ChecksGood
<1>9. \A j \in Leader : JoinerGood(j, invited'[j], group', codes')
  BY <1>0, <1>1, <1>6 DEF JoinerGood, Fits
<1>10. JoinTyped(group', inviter', invited', codes')
  BY <1>0, <1>1, <1>5, <1>6 DEF JoinTyped
<1> QED BY <1>7, <1>8, <1>9, <1>10 DEF JoinInvariant, JoinGood

(* A check that has not begun.                                             *)
LEMMA Unchecked ==
  /\ Joins!NoCheck \in [at : {"idle", "listed", "proved"}, rows : RowsType, invite : 0 .. MaxInvites]
  /\ Joins!NoCheck.at = "idle"
  /\ \A j \in Leader : Joins!NoCheck.rows[j].proof = 0 /\ Joins!NoCheck.rows[j].key = "own"
BY JoinBoundsNat DEF Joins!NoCheck, Joins!NoRow, RowsType

(* The page of the owner starts anew.                                      *)
LEMMA RestartKeeps == ASSUME JoinInvariant, Joins!Restart PROVE JoinInvariant'
<1>0. /\ JoinTyped(group, inviter, invited, codes) /\ InvitesGood(group, inviter, codes)
      /\ ChecksGood(group, inviter, codes)
      /\ \A each \in Leader : JoinerGood(each, invited[each], group, codes)
  BY DEF JoinInvariant, JoinGood
<1>1. /\ inviter \in InviterType /\ group' = group /\ invited' = invited /\ codes' = codes
      /\ inviter' = [inviter EXCEPT !.shown = 0, !.call = Joins!NoCall, !.code = 0,
                                    !.check = Joins!NoCheck]
  BY <1>0 DEF Joins!Restart, JoinTyped
<1>2. /\ Joins!NoCall \in [at : {"idle", "sealed", "created"}, invite : 0 .. MaxInvites, box : BoxType]
      /\ Joins!NoCall.at = "idle"
  BY JoinBoundsNat DEF Joins!NoCall, Joins!NoBox, BoxType
<1>3. /\ inviter' \in InviterType /\ inviter'.key = inviter.key
      /\ inviter'.shown = 0 /\ inviter'.stored = inviter.stored
      /\ inviter'.code = 0 /\ inviter'.verdicts = inviter.verdicts
      /\ inviter'.check = Joins!NoCheck /\ inviter'.call = Joins!NoCall
  BY <1>1, <1>2, Unchecked, JoinBoundsNat DEF InviterType
<1>4. 0 <= group.epoch
  BY <1>0, JoinBoundsNat DEF JoinTyped, GroupType
<1>5. InvitesGood(group', inviter', codes')
  BY <1>0, <1>1, <1>2, <1>3, <1>4 DEF InvitesGood
<1>6. ChecksGood(group', inviter', codes')
  BY <1>0, <1>1, <1>3, Unchecked DEF ChecksGood
<1>7. JoinTyped(group', inviter', invited', codes')
  BY <1>0, <1>1, <1>3 DEF JoinTyped
<1> QED BY <1>0, <1>1, <1>5, <1>6, <1>7 DEF JoinInvariant, JoinGood

(* The members' effect reads what the server lists.                        *)
LEMMA LookKeeps == ASSUME JoinInvariant, Joins!Look PROVE JoinInvariant'
<1>0. /\ JoinTyped(group, inviter, invited, codes) /\ InvitesGood(group, inviter, codes)
      /\ ChecksGood(group, inviter, codes)
      /\ \A each \in Leader : JoinerGood(each, invited[each], group, codes)
  BY DEF JoinInvariant, JoinGood
<1> DEFINE check == [Joins!NoCheck EXCEPT !.at = "listed", !.rows = group.rows]
<1>1. /\ inviter \in InviterType /\ group \in GroupType
      /\ group' = group /\ invited' = invited /\ codes' = codes
      /\ inviter' = [inviter EXCEPT !.shown = group.epoch, !.check = check]
  BY <1>0 DEF Joins!Look, JoinTyped
<1>2. /\ check \in [at : {"idle", "listed", "proved"}, rows : RowsType, invite : 0 .. MaxInvites]
      /\ check.at = "listed" /\ check.rows = group.rows
  BY <1>1, Unchecked DEF GroupType
<1> HIDE DEF check
<1>3. group.epoch \in 0 .. MaxJoinEpoch /\ group.epoch <= group.epoch
  BY <1>1, JoinBoundsNat DEF GroupType
<1>4. /\ inviter' \in InviterType /\ inviter'.key = inviter.key
      /\ inviter'.shown = group.epoch /\ inviter'.stored = inviter.stored
      /\ inviter'.code = inviter.code /\ inviter'.verdicts = inviter.verdicts
      /\ inviter'.check = check /\ inviter'.call = inviter.call
  BY <1>1, <1>2, <1>3 DEF InviterType
<1>5. InvitesGood(group', inviter', codes')
  BY <1>0, <1>1, <1>3, <1>4 DEF InvitesGood
<1>6. ChecksGood(group', inviter', codes')
  BY <1>0, <1>1, <1>2, <1>4 DEF ChecksGood
<1>7. JoinTyped(group', inviter', invited', codes')
  BY <1>0, <1>1, <1>4 DEF JoinTyped
<1> QED BY <1>0, <1>1, <1>5, <1>6, <1>7 DEF JoinInvariant, JoinGood

(* The invite on the disk has expired, or somebody has joined with it, or  *)
(* nobody has yet.                                                         *)
LEMMA ReadInviteKeeps == ASSUME JoinInvariant, Joins!ReadInvite PROVE JoinInvariant'
<1>0. /\ JoinTyped(group, inviter, invited, codes) /\ InvitesGood(group, inviter, codes)
      /\ ChecksGood(group, inviter, codes)
      /\ \A each \in Leader : JoinerGood(each, invited[each], group, codes)
  BY DEF JoinInvariant, JoinGood
<1> DEFINE i == inviter.stored
           over == i = 0 \/ i \in group.expired
           code == IF over THEN 0 ELSE IF inviter.code = i THEN i ELSE 0
           check == IF over \/ Joins!JoinedBy(i) = {} THEN Joins!NoCheck
                    ELSE [inviter.check EXCEPT !.at = "proved", !.invite = i]
           stored == IF over THEN 0 ELSE i
<1>1. /\ inviter \in InviterType /\ group \in GroupType
      /\ group' = group /\ invited' = invited /\ codes' = codes
      /\ inviter' = [inviter EXCEPT !.stored = stored, !.code = code, !.check = check]
  BY <1>0 DEF Joins!ReadInvite, JoinTyped, InviterType
<1>2. /\ check \in [at : {"idle", "listed", "proved"}, rows : RowsType, invite : 0 .. MaxInvites]
      /\ check.rows \in {Joins!NoCheck.rows, inviter.check.rows}
      /\ check.at = "proved" =>
           check.invite = i /\ ~over /\ \E j \in Leader : check.rows[j].proof = i
  <2> HIDE DEF over
  <2>1. CASE over \/ Joins!JoinedBy(i) = {}
    BY <2>1, Unchecked
  <2>2. CASE ~(over \/ Joins!JoinedBy(i) = {})
    <3>1. /\ i \in 0 .. MaxInvites
          /\ inviter.check \in [at : {"idle", "listed", "proved"}, rows : RowsType,
                                invite : 0 .. MaxInvites]
      BY <1>1 DEF InviterType
    <3>2. check = [inviter.check EXCEPT !.at = "proved", !.invite = i]
      BY <2>2
    <3> HIDE DEF i, check
    <3>3. /\ check \in [at : {"idle", "listed", "proved"}, rows : RowsType, invite : 0 .. MaxInvites]
          /\ check.rows = inviter.check.rows /\ check.invite = i
      BY <3>1, <3>2
    <3> QED BY <2>2, <3>3 DEF Joins!JoinedBy
  <2> QED BY <2>1, <2>2
<1>3. code \in 0 .. MaxInvites /\ stored \in 0 .. MaxInvites
  BY <1>1, JoinBoundsNat DEF InviterType
<1>4. /\ code \in {0, stored} /\ stored \in {0, inviter.stored}
      /\ stored # inviter.stored => inviter.stored \in group.expired
      /\ ~over => i # 0
  OBVIOUS
<1> HIDE DEF check, code, stored, over
<1>5. /\ inviter' \in InviterType /\ inviter'.key = inviter.key
      /\ inviter'.shown = inviter.shown /\ inviter'.stored = stored
      /\ inviter'.code = code /\ inviter'.verdicts = inviter.verdicts
      /\ inviter'.check = check /\ inviter'.call = inviter.call
  BY <1>1, <1>2, <1>3 DEF InviterType
<1>6. InvitesGood(group', inviter', codes')
  BY <1>0, <1>1, <1>5 DEF InvitesGood
<1>7. ChecksGood(group', inviter', codes')
  <2>1. inviter'.stored \in codes'.stored \cup {0} /\ inviter'.code \in {0, inviter'.stored}
    BY <1>0, <1>1, <1>4, <1>5 DEF ChecksGood
  <2>2. ASSUME NEW j \in Leader
        PROVE  /\ inviter'.verdicts[j] = "failed" => group'.rows[j].key = "other"
               /\ inviter'.check.rows[j].key = "other" => group'.rows[j].key = "other"
               /\ inviter'.check.rows[j].proof \in {0, group'.rows[j].proof}
    BY <1>0, <1>1, <1>2, <1>5, Unchecked DEF ChecksGood
  <2>3. inviter'.check.at = "proved" =>
          /\ inviter'.check.invite # 0
          /\ \E j \in Leader : inviter'.check.rows[j].proof = inviter'.check.invite
    BY <1>2, <1>4, <1>5
  <2>4. ASSUME NEW k \in codes'.stored \ (codes'.replaced \cup group'.expired)
        PROVE  \/ inviter'.stored = k
               \/ \E j \in Leader : group'.rows[j].proof = k /\ inviter'.verdicts[j] # "none"
    BY <1>0, <1>1, <1>4, <1>5, <2>4 DEF ChecksGood
  <2> QED BY <2>1, <2>2, <2>3, <2>4 DEF ChecksGood
<1>8. JoinTyped(group', inviter', invited', codes')
  BY <1>0, <1>1, <1>5 DEF JoinTyped
<1> QED BY <1>0, <1>1, <1>6, <1>7, <1>8 DEF JoinInvariant, JoinGood

(* The check ends with a verdict on one of those who left a proof of the   *)
(* invite: the row it judged was the server's.                             *)
LEMMA ConcludeKeeps == ASSUME JoinInvariant, Joins!Conclude PROVE JoinInvariant'
<1>0. /\ JoinTyped(group, inviter, invited, codes) /\ InvitesGood(group, inviter, codes)
      /\ ChecksGood(group, inviter, codes)
      /\ \A each \in Leader : JoinerGood(each, invited[each], group, codes)
  BY DEF JoinInvariant, JoinGood
<1> DEFINE i == inviter.check.invite
           j == CHOOSE one \in Joins!JoinedBy(i) : TRUE
           judged == inviter.check.rows[j]
           verdict == Joins!Verdict(judged, i)
           pin == IF verdict = "bound" /\ inviter.pins[j] = "none" THEN judged.key
                  ELSE inviter.pins[j]
           verdicts == [inviter.verdicts EXCEPT ![j] = verdict]
           pins == [inviter.pins EXCEPT ![j] = pin]
           replaced == codes.replaced \cup ({inviter.stored} \ {0, i})
<1>1. /\ inviter.check.at = "proved" /\ inviter \in InviterType /\ codes \in CodesType
      /\ group' = group /\ invited' = invited
      /\ codes' = [codes EXCEPT !.replaced = replaced]
  BY <1>0 DEF Joins!Conclude, Joins!Replaced, JoinTyped
<1>2. inviter' = [inviter EXCEPT !.verdicts = verdicts, !.stored = 0, !.code = 0,
                                 !.check = Joins!NoCheck, !.pins = pins]
  <2>1. inviter' = [inviter EXCEPT !.verdicts[j] = verdict, !.stored = 0, !.code = 0,
                      !.check = Joins!NoCheck,
                      !.pins[j] = IF verdict = "bound" /\ @ = "none" THEN judged.key ELSE @]
    BY DEF Joins!Conclude
  <2> HIDE DEF i, j, judged, verdict
  <2> QED BY <1>1, <2>1 DEF InviterType
<1>3. /\ i # 0 /\ j \in Leader /\ judged.proof = i
      /\ group.rows[j].proof = i /\ (judged.key = "other" => group.rows[j].key = "other")
  <2>1. Joins!JoinedBy(i) # {}
    BY <1>0, <1>1 DEF ChecksGood, Joins!JoinedBy
  <2>2. j \in Joins!JoinedBy(i)
    BY <2>1
  <2>3. j \in Leader /\ judged.proof = i
    BY <2>2 DEF Joins!JoinedBy
  <2> HIDE DEF j
  <2> QED BY <1>0, <1>1, <2>3 DEF ChecksGood
<1> HIDE DEF j
<1>4. judged.key \in {"own", "other"}
  BY <1>1, <1>3 DEF InviterType, RowsType
<1>5. /\ verdict \in {"bound", "failed"}
      /\ verdict = "bound" => judged.key = "own"
      /\ verdict = "failed" => group.rows[j].key = "other"
  BY <1>3, <1>4 DEF Joins!Verdict
<1> HIDE DEF i, judged, verdict
<1>6. /\ verdicts \in [Leader -> {"none", "bound", "failed"}] /\ verdicts[j] = verdict
      /\ (\A k \in Leader : k # j => verdicts[k] = inviter.verdicts[k])
      /\ pins \in [Leader -> {"none", "own"}]
  BY <1>1, <1>3, <1>5 DEF InviterType
<1>7. replaced \in SUBSET (1 .. MaxInvites)
  BY <1>1, JoinBoundsNat DEF InviterType, CodesType
<1> HIDE DEF verdicts, pins
<1>8. /\ inviter' \in InviterType /\ inviter'.key = inviter.key
      /\ inviter'.shown = inviter.shown /\ inviter'.stored = 0
      /\ inviter'.code = 0 /\ inviter'.verdicts = verdicts
      /\ inviter'.check = Joins!NoCheck /\ inviter'.call = inviter.call
  BY <1>1, <1>2, <1>6, Unchecked, JoinBoundsNat DEF InviterType
<1>9. /\ codes' \in CodesType /\ codes'.made = codes.made /\ codes'.stale = codes.stale
      /\ codes'.stored = codes.stored /\ codes'.replaced = replaced
  <2> HIDE DEF replaced
  <2> QED BY <1>1, <1>7 DEF CodesType
<1>10. InvitesGood(group', inviter', codes')
  BY <1>0, <1>1, <1>8, <1>9 DEF InvitesGood, Fits
<1>11. ChecksGood(group', inviter', codes')
  <2>1. ASSUME NEW k \in codes'.stored \ (codes'.replaced \cup group'.expired)
        PROVE  \E one \in Leader : group'.rows[one].proof = k /\ inviter'.verdicts[one] # "none"
    <3>1. k \in codes.stored \ (codes.replaced \cup group.expired) /\ k # 0
      BY <1>1, <1>9, <2>1, JoinBoundsNat DEF CodesType
    <3>2. inviter.stored = k => k = i
      BY <1>9, <2>1, <3>1
    <3>3. CASE k = i
      BY <1>1, <1>3, <1>5, <1>6, <1>8, <3>3
    <3>4. CASE inviter.stored # k
      BY <1>0, <1>1, <1>5, <1>6, <1>8, <3>1, <3>4 DEF ChecksGood
    <3> QED BY <3>2, <3>3, <3>4
  <2>2. ASSUME NEW k \in Leader
        PROVE  /\ inviter'.verdicts[k] = "failed" => group'.rows[k].key = "other"
               /\ inviter'.check.rows[k].key = "other" => group'.rows[k].key = "other"
               /\ inviter'.check.rows[k].proof \in {0, group'.rows[k].proof}
    BY <1>0, <1>1, <1>5, <1>6, <1>8, Unchecked DEF ChecksGood
  <2> QED BY <1>8, <2>1, <2>2, Unchecked DEF ChecksGood
<1>12. \A k \in Leader : JoinerGood(k, invited'[k], group', codes')
  BY <1>0, <1>1, <1>9 DEF JoinerGood, Fits
<1>13. JoinTyped(group', inviter', invited', codes')
  BY <1>0, <1>1, <1>8, <1>9 DEF JoinTyped
<1> QED BY <1>10, <1>11, <1>12, <1>13 DEF JoinInvariant, JoinGood

(* Two people compare fingerprints.                                        *)
LEMMA ConfirmKeeps ==
  ASSUME JoinInvariant, NEW j \in Leader, Joins!ConfirmFingerprint(j)
  PROVE  JoinInvariant'
<1>0. /\ JoinTyped(group, inviter, invited, codes) /\ InvitesGood(group, inviter, codes)
      /\ ChecksGood(group, inviter, codes)
      /\ \A each \in Leader : JoinerGood(each, invited[each], group, codes)
  BY DEF JoinInvariant, JoinGood
<1> DEFINE pins == [inviter.pins EXCEPT ![j] = "own"]
<1>1. /\ inviter \in InviterType /\ group' = group /\ invited' = invited /\ codes' = codes
      /\ inviter' = [inviter EXCEPT !.pins = pins]
  BY <1>0 DEF Joins!ConfirmFingerprint, JoinTyped, InviterType
<1>2. pins \in [Leader -> {"none", "own"}]
  BY <1>1 DEF InviterType
<1> HIDE DEF pins
<1>3. /\ inviter' \in InviterType /\ inviter'.key = inviter.key
      /\ inviter'.shown = inviter.shown /\ inviter'.stored = inviter.stored
      /\ inviter'.code = inviter.code /\ inviter'.verdicts = inviter.verdicts
      /\ inviter'.check = inviter.check /\ inviter'.call = inviter.call
  BY <1>1, <1>2 DEF InviterType
<1>4. InvitesGood(group', inviter', codes')
  BY <1>0, <1>1, <1>3 DEF InvitesGood
<1>5. ChecksGood(group', inviter', codes') /\ JoinTyped(group', inviter', invited', codes')
  BY <1>0, <1>1, <1>3 DEF ChecksGood, JoinTyped
<1> QED BY <1>0, <1>1, <1>4, <1>5 DEF JoinInvariant, JoinGood

(* Only a joiner has changed, and it is still good.                        *)
LEMMA JoinerChanged ==
  ASSUME JoinInvariant, NEW j \in Leader, NEW one \in JoinerType,
         JoinerGood(j, one, group, codes),
         group' = group, inviter' = inviter, codes' = codes,
         invited' = [invited EXCEPT ![j] = one]
  PROVE  JoinInvariant'
<1>0. /\ JoinTyped(group, inviter, invited, codes) /\ InvitesGood(group, inviter, codes)
      /\ ChecksGood(group, inviter, codes)
      /\ \A each \in Leader : JoinerGood(each, invited[each], group, codes)
  BY DEF JoinInvariant, JoinGood
<1>1. /\ invited' \in [Leader -> JoinerType]
      /\ \A k \in Leader : invited'[k] = IF k = j THEN one ELSE invited[k]
  BY <1>0 DEF JoinTyped
<1> QED BY <1>0, <1>1 DEF JoinTyped, JoinInvariant, JoinGood

(* A joiner that is not there yet, or no more.                             *)
LEMMA OutIsGood ==
  ASSUME JoinInvariant, NEW j \in Leader, invited[j].at \in {"out", "heard", "claimed"}
  PROVE  Joins!Out \in JoinerType /\ JoinerGood(j, Joins!Out, group, codes)
<1>0. /\ JoinTyped(group, inviter, invited, codes) /\ InvitesGood(group, inviter, codes)
      /\ ChecksGood(group, inviter, codes)
      /\ \A each \in Leader : JoinerGood(each, invited[each], group, codes)
  BY DEF JoinInvariant, JoinGood
<1>1. Joins!Out \in JoinerType
  BY JoinBoundsNat DEF JoinerType, BoxType, Joins!Out, Joins!NoBox
<1>2. group.rows[j].proof = 0
  BY <1>0 DEF JoinerGood
<1> QED BY <1>1, <1>2 DEF JoinerGood, Joins!Out

(* A code is heard; it is the one on the owner's screen.                   *)
LEMMA HearKeeps ==
  ASSUME JoinInvariant, NEW j \in Leader, Joins!Hear(j)
  PROVE  JoinInvariant'
<1>0. /\ JoinTyped(group, inviter, invited, codes) /\ InvitesGood(group, inviter, codes)
      /\ ChecksGood(group, inviter, codes)
      /\ \A each \in Leader : JoinerGood(each, invited[each], group, codes)
  BY DEF JoinInvariant, JoinGood
<1> DEFINE one == [Joins!Out EXCEPT !.at = "heard", !.invite = inviter.code]
<1>1. /\ invited[j].at = "out" /\ inviter.code # 0
      /\ invited' = [invited EXCEPT ![j] = one]
      /\ group' = group /\ inviter' = inviter /\ codes' = codes
  BY DEF Joins!Hear, Joins!Becomes
<1>2. inviter.code \in codes.stored /\ inviter.code \in 0 .. MaxInvites
  BY <1>0, <1>1 DEF ChecksGood, JoinTyped, InviterType
<1>3. group.rows[j].proof = 0
  BY <1>0, <1>1 DEF JoinerGood
<1>4. one \in JoinerType
  BY <1>2, JoinBoundsNat DEF JoinerType, BoxType, Joins!Out, Joins!NoBox
<1>5. JoinerGood(j, one, group, codes)
  BY <1>2, <1>3 DEF JoinerGood, Joins!Out
<1> HIDE DEF one
<1> QED BY <1>1, <1>4, <1>5, JoinerChanged

(* The box of a live code is handed out.                                   *)
LEMMA ClaimKeeps ==
  ASSUME JoinInvariant, NEW j \in Leader, Joins!Claim(j)
  PROVE  JoinInvariant'
<1>0. /\ JoinTyped(group, inviter, invited, codes) /\ InvitesGood(group, inviter, codes)
      /\ ChecksGood(group, inviter, codes)
      /\ \A each \in Leader : JoinerGood(each, invited[each], group, codes)
  BY DEF JoinInvariant, JoinGood
<1> DEFINE i == invited[j].invite
           one == [invited[j] EXCEPT !.at = "claimed", !.box = group.boxes[i]]
<1>1. /\ invited[j].at = "heard" /\ invited[j] \in JoinerType
      /\ group' = group /\ inviter' = inviter /\ codes' = codes
  BY <1>0 DEF Joins!Claim, Joins!Becomes, JoinTyped
<1>2. CASE group.live = i
  <2>1. i \in codes.stored /\ i \in 1 .. MaxInvites
    BY <1>0, <1>1 DEF JoinerGood, JoinTyped, CodesType
  <2>2. group.boxes[i] \in BoxType /\ Fits(group.boxes[i], i, codes)
    BY <1>0, <2>1 DEF InvitesGood, JoinTyped, GroupType
  <2>3. /\ one \in JoinerType /\ one.at = "claimed" /\ one.box = group.boxes[i] /\ one.invite = i
        /\ one.key = invited[j].key /\ one.entered = invited[j].entered
    BY <1>1, <2>2 DEF JoinerType
  <2>4. /\ invited[j].key = Joins!NoBox
        /\ group.rows[j].proof = 0 /\ invited[j].entered = 0
    BY <1>0, <1>1 DEF JoinerGood
  <2>5. invited' = [invited EXCEPT ![j] = one]
    BY <1>2 DEF Joins!Claim, Joins!Becomes
  <2> HIDE DEF one
  <2>6. JoinerGood(j, one, group, codes)
    BY <2>1, <2>2, <2>3, <2>4 DEF JoinerGood
  <2> QED BY <1>1, <2>3, <2>5, <2>6, JoinerChanged
<1>3. CASE group.live # i
  <2>1. invited' = [invited EXCEPT ![j] = Joins!Out]
    BY <1>3 DEF Joins!Claim, Joins!Becomes
  <2> QED BY <1>1, <2>1, OutIsGood, JoinerChanged
<1> QED BY <1>2, <1>3

(* The code is spent by the first who joins with it.                       *)
LEMMA AskJoinKeeps ==
  ASSUME JoinInvariant, NEW j \in Leader, Joins!AskJoin(j)
  PROVE  JoinInvariant'
<1>0. /\ JoinTyped(group, inviter, invited, codes) /\ InvitesGood(group, inviter, codes)
      /\ ChecksGood(group, inviter, codes)
      /\ \A each \in Leader : JoinerGood(each, invited[each], group, codes)
  BY DEF JoinInvariant, JoinGood
<1> DEFINE i == invited[j].invite
<1>1. /\ invited[j].at = "claimed" /\ invited[j] \in JoinerType
      /\ inviter' = inviter /\ codes' = codes
  BY <1>0 DEF Joins!AskJoin, Joins!Becomes, JoinTyped
<1>2. CASE group.live = i
  <2>1. /\ i \in codes.stored /\ i \in 1 .. MaxInvites /\ i # 0 /\ i \in 1 .. codes.made
        /\ group \in GroupType
    BY <1>0, <1>1, JoinBoundsNat DEF JoinerGood, JoinTyped, CodesType, InvitesGood
  <2>2. /\ invited[j].key = Joins!NoBox /\ invited[j].box = group.boxes[i]
        /\ group.boxes[i].epoch = group.epoch /\ Fits(invited[j].box, i, codes)
        /\ group.rows[j].proof = 0
        /\ \A k \in Leader : group.rows[k].proof # i
    BY <1>0, <1>1, <1>2, <2>1 DEF JoinerGood, InvitesGood
  <2>3. PICK at \in {"joined", "half"} :
          invited' = [invited EXCEPT ![j] = [invited[j] EXCEPT !.at = at, !.entered = group.epoch]]
    BY <1>2 DEF Joins!AskJoin, Joins!Becomes
  <2> DEFINE one == [invited[j] EXCEPT !.at = at, !.entered = group.epoch]
  <2>4. group.epoch \in 0 .. MaxJoinEpoch
    BY <2>1, JoinBoundsNat DEF GroupType
  <2>5. /\ one \in JoinerType /\ one.at \in {"joined", "half"} /\ one.invite = i
        /\ one.box = invited[j].box /\ one.key = invited[j].key /\ one.entered = group.epoch
    BY <1>1, <2>4 DEF JoinerType
  <2> HIDE DEF one
  <2>6. /\ invited' \in [Leader -> JoinerType]
        /\ \A k \in Leader : invited'[k] = IF k = j THEN one ELSE invited[k]
    BY <1>0, <2>3, <2>5 DEF JoinTyped, one
  <2> DEFINE boxes == [group.boxes EXCEPT ![i] = Joins!NoBox]
             members == group.members \cup {j}
             listed == [group.rows EXCEPT ![j].proof = i]
  <2>7. group' = [group EXCEPT !.live = 0, !.boxes = boxes, !.members = members, !.rows = listed]
    BY <1>2, <2>1 DEF Joins!AskJoin, GroupType
  <2>8. /\ boxes \in [1 .. MaxInvites -> BoxType]
        /\ \A k \in 1 .. MaxInvites : boxes[k] = IF k = i THEN Joins!NoBox ELSE group.boxes[k]
    BY <2>1, JoinBoundsNat DEF GroupType, BoxType, Joins!NoBox
  <2>9. members \in SUBSET Leader
    BY <2>1 DEF GroupType
  <2>10. /\ listed \in RowsType
         /\ \A k \in Leader : listed[k].key = group.rows[k].key
                              /\ listed[k].proof = IF k = j THEN i ELSE group.rows[k].proof
    BY <2>1 DEF GroupType, RowsType
  <2> HIDE DEF boxes, members, listed
  <2>11. /\ group' \in GroupType /\ group'.live = 0 /\ group'.boxes = boxes
         /\ group'.rows = listed /\ group'.epoch = group.epoch /\ group'.expired = group.expired
    BY <2>1, <2>7, <2>8, <2>9, <2>10, JoinBoundsNat DEF GroupType
  <2>12. JoinTyped(group', inviter', invited', codes')
    BY <1>0, <1>1, <2>6, <2>11 DEF JoinTyped
  <2>13. InvitesGood(group', inviter', codes')
    <3>1. /\ inviter'.key <= group'.epoch /\ inviter'.shown <= group'.epoch
          /\ codes'.stored \subseteq 1 .. codes'.made
      BY <1>0, <1>1, <2>11 DEF InvitesGood
    <3>2. /\ group'.live = 0 /\ group'.live <= codes'.made
          /\ \A k \in Leader : group'.rows[k].proof <= codes'.made
      BY <1>0, <1>1, <2>1, <2>10, <2>11, JoinBoundsNat DEF InvitesGood, JoinTyped, CodesType
    <3>3. \A k, l \in Leader :
             group'.rows[k].proof # 0 /\ group'.rows[k].proof = group'.rows[l].proof => k = l
      BY <1>0, <2>2, <2>10, <2>11 DEF InvitesGood
    <3>4. \A k \in 1 .. MaxInvites : Fits(group'.boxes[k], k, codes')
      BY <1>0, <1>1, <2>8, <2>11 DEF InvitesGood, Fits, Joins!NoBox
    <3>5. inviter'.call.at # "idle" => inviter'.call.invite \in 1 .. codes'.made
      BY <1>0, <1>1 DEF InvitesGood
    <3>6. inviter'.call.at = "sealed" =>
            /\ inviter'.call.invite \notin codes'.stored /\ inviter'.call.invite # group'.live
            /\ Fits(inviter'.call.box, inviter'.call.invite, codes')
            /\ \A k \in Leader : group'.rows[k].proof # inviter'.call.invite
      BY <1>0, <1>1, <1>2, <2>10, <2>11, <3>5, JoinBoundsNat DEF InvitesGood, JoinTyped, CodesType
    <3> QED BY <3>1, <3>2, <3>3, <3>4, <3>5, <3>6 DEF InvitesGood
  <2>14. ChecksGood(group', inviter', codes')
    <3>1. \A k \in Leader :
            /\ inviter'.verdicts[k] = "failed" => group'.rows[k].key = "other"
            /\ inviter'.check.rows[k].key = "other" => group'.rows[k].key = "other"
            /\ inviter'.check.rows[k].proof \in {0, group'.rows[k].proof}
      BY <1>0, <1>1, <2>2, <2>10, <2>11 DEF ChecksGood
    <3>2. ASSUME NEW k \in codes'.stored \ (codes'.replaced \cup group'.expired)
          PROVE  \/ inviter'.stored = k
                 \/ \E l \in Leader : group'.rows[l].proof = k /\ inviter'.verdicts[l] # "none"
      <4>1. k # 0 /\ k \in codes.stored \ (codes.replaced \cup group.expired)
        BY <1>0, <1>1, <2>11, <3>2, JoinBoundsNat DEF JoinTyped, CodesType
      <4>2. \A l \in Leader : group.rows[l].proof = k => group'.rows[l].proof = k
        BY <2>2, <2>10, <2>11, <4>1
      <4> QED BY <1>0, <1>1, <4>1, <4>2 DEF ChecksGood
    <3> QED BY <1>0, <1>1, <3>1, <3>2 DEF ChecksGood
  <2>15. ASSUME NEW k \in Leader PROVE JoinerGood(k, invited'[k], group', codes')
    <3>1. CASE k = j
      BY <1>1, <2>1, <2>2, <2>5, <2>6, <2>10, <2>11, <3>1 DEF JoinerGood
    <3>2. CASE k # j
      <4>1. JoinerGood(k, invited[k], group, codes)
        BY <1>0
      <4>2. invited[k].at = "claimed" => invited[k].invite # 0
        BY <1>0, <4>1, JoinBoundsNat DEF JoinerGood, JoinTyped, CodesType
      <4> QED BY <1>1, <2>6, <2>10, <2>11, <3>2, <4>1, <4>2 DEF JoinerGood
    <3> QED BY <3>1, <3>2
  <2> QED BY <2>12, <2>13, <2>14, <2>15 DEF JoinInvariant, JoinGood
<1>3. CASE group.live # i
  <2>1. invited' = [invited EXCEPT ![j] = Joins!Out] /\ group' = group
    BY <1>3 DEF Joins!AskJoin, Joins!Becomes
  <2> QED BY <1>1, <2>1, OutIsGood, JoinerChanged
<1> QED BY <1>2, <1>3

(* The server forgets a member; what it knows of the devices stays.        *)
LEMMA GoneIsGood ==
  ASSUME JoinInvariant, NEW j \in Leader, NEW one \in JoinerType,
         JoinerGood(j, one, group, codes),
         group' \in {group, Joins!Gone(j)}, inviter' = inviter, codes' = codes,
         invited' = [invited EXCEPT ![j] = one]
  PROVE  JoinInvariant'
<1>0. /\ JoinTyped(group, inviter, invited, codes) /\ InvitesGood(group, inviter, codes)
      /\ ChecksGood(group, inviter, codes)
      /\ \A each \in Leader : JoinerGood(each, invited[each], group, codes)
  BY DEF JoinInvariant, JoinGood
<1>1. /\ invited' \in [Leader -> JoinerType]
      /\ \A k \in Leader : invited'[k] = IF k = j THEN one ELSE invited[k]
  BY <1>0 DEF JoinTyped
<1>2. /\ group' \in GroupType /\ group'.live = group.live /\ group'.boxes = group.boxes
      /\ group'.rows = group.rows /\ group'.epoch = group.epoch /\ group'.expired = group.expired
  BY <1>0 DEF JoinTyped, GroupType, Joins!Gone
<1>3. JoinTyped(group', inviter', invited', codes') /\ ChecksGood(group', inviter', codes')
  BY <1>0, <1>1, <1>2 DEF JoinTyped, ChecksGood
<1>4. InvitesGood(group', inviter', codes')
  BY <1>0, <1>2 DEF InvitesGood
<1>5. \A k \in Leader : JoinerGood(k, invited'[k], group', codes')
  BY <1>0, <1>1, <1>2 DEF JoinerGood
<1> QED BY <1>3, <1>4, <1>5 DEF JoinInvariant, JoinGood

(* The joiner asks who is in the family.                                   *)
LEMMA RosterKeeps ==
  ASSUME JoinInvariant, NEW j \in Leader, Joins!Roster(j)
  PROVE  JoinInvariant'
<1>0. /\ JoinTyped(group, inviter, invited, codes) /\ InvitesGood(group, inviter, codes)
      /\ ChecksGood(group, inviter, codes)
      /\ \A each \in Leader : JoinerGood(each, invited[each], group, codes)
  BY DEF JoinInvariant, JoinGood
<1> DEFINE mine == invited[j]
           holds == [mine EXCEPT !.at = "in", !.key = mine.box, !.pinned = TRUE]
<1>1. PICK one \in {holds, [mine EXCEPT !.at = "gone"], [mine EXCEPT !.at = "half"]} :
         /\ invited' = [invited EXCEPT ![j] = one]
         /\ group' \in {group, Joins!Gone(j)}
         /\ inviter' = inviter /\ codes' = codes
  BY DEF Joins!Roster, Joins!Becomes
<1>2. mine.at = "joined" /\ mine \in JoinerType /\ JoinerGood(j, mine, group, codes)
  BY <1>0 DEF Joins!Roster, JoinTyped
<1> HIDE DEF mine
<1>3. one \in JoinerType /\ JoinerGood(j, one, group, codes)
  BY <1>1, <1>2 DEF JoinerType, JoinerGood
<1> QED BY <1>1, <1>3, GoneIsGood

(* Whoever leaves is forgotten by the server.                              *)
LEMMA LeaveFamilyKeeps ==
  ASSUME JoinInvariant, NEW j \in Leader, Joins!LeaveFamily(j)
  PROVE  JoinInvariant'
<1>0. /\ JoinTyped(group, inviter, invited, codes) /\ InvitesGood(group, inviter, codes)
      /\ ChecksGood(group, inviter, codes)
      /\ \A each \in Leader : JoinerGood(each, invited[each], group, codes)
  BY DEF JoinInvariant, JoinGood
<1> DEFINE one == [invited[j] EXCEPT !.at = "gone"]
<1>1. /\ invited' = [invited EXCEPT ![j] = one] /\ group' = Joins!Gone(j)
      /\ inviter' = inviter /\ codes' = codes
      /\ invited[j].at \in {"half", "in"}
  BY DEF Joins!LeaveFamily, Joins!Becomes
<1>2. invited[j] \in JoinerType /\ JoinerGood(j, invited[j], group, codes)
  BY <1>0 DEF JoinTyped
<1>3. one \in JoinerType /\ JoinerGood(j, one, group, codes)
  BY <1>1, <1>2 DEF JoinerType, JoinerGood
<1> HIDE DEF one
<1> QED BY <1>1, <1>3, GoneIsGood

(* What invites and those who join with them go through keeps to the       *)
(* invariant: the live code is of the epoch in force and unused, a proof   *)
(* on the server is of the one code its joiner heard, and an invite leaves *)
(* the owner's disk only expired, stored over or judged.                   *)
THEOREM JoinInvariantHolds == Joins!Spec => []JoinInvariant
<1>1. JoinInvariant /\ [Joins!Next]_Joins!vars => JoinInvariant'
  <2> SUFFICES ASSUME JoinInvariant, [Joins!Next]_Joins!vars PROVE JoinInvariant'
    OBVIOUS
  <2>1. CASE \/ Joins!Rotate \/ Joins!Follow \/ Joins!DeleteOwner \/ Joins!Press \/ Joins!Create
             \/ Joins!Store \/ Joins!Restart \/ Joins!Look \/ Joins!ReadInvite \/ Joins!Conclude
    BY <2>1, RotateKeeps, FollowKeeps, DeleteOwnerKeeps, PressKeeps, CreateKeeps, StoreKeeps,
       RestartKeeps, LookKeeps, ReadInviteKeeps, ConcludeKeeps
  <2>2. CASE \E i \in Joins!Invite : Joins!Expire(i)
    BY <2>2, ExpireKeeps
  <2>3. ASSUME NEW j \in Leader,
               \/ Joins!Swap(j) \/ Joins!ConfirmFingerprint(j)
               \/ Joins!Hear(j) \/ Joins!Claim(j) \/ Joins!AskJoin(j) \/ Joins!Roster(j)
               \/ Joins!LeaveFamily(j)
        PROVE  JoinInvariant'
    BY <2>3, SwapKeeps, ConfirmKeeps, HearKeeps, ClaimKeeps, AskJoinKeeps, RosterKeeps,
       LeaveFamilyKeeps
  <2>4. CASE UNCHANGED Joins!vars
    BY <2>4 DEF Joins!vars, JoinInvariant
  <2> QED BY <2>1, <2>2, <2>3, <2>4 DEF Joins!Next
<1> QED BY <1>1, JoinStarts, PTL DEF Joins!Spec

(* A code lets one device in, in the epoch it was sealed for, whoever holds*)
(* the key has the owner's pin, and no verdict is wrong or forgotten.      *)
LEMMA JoinedWell == JoinInvariant => Joins!JoinersAreVouchedFor
<1> SUFFICES ASSUME JoinInvariant PROVE Joins!JoinersAreVouchedFor
  OBVIOUS
<1>0. /\ JoinTyped(group, inviter, invited, codes) /\ InvitesGood(group, inviter, codes)
      /\ ChecksGood(group, inviter, codes)
      /\ \A each \in Leader : JoinerGood(each, invited[each], group, codes)
  BY DEF JoinInvariant, JoinGood
<1>1. Joins!OneForEachCode
  <2>1. ASSUME NEW j \in Leader
        PROVE  /\ invited[j].entered # 0 => invited[j].entered = invited[j].box.epoch
               /\ Joins!Held(j) =>
                    /\ invited[j].pinned /\ invited[j].invite = group.rows[j].proof
                    /\ invited[j].key.key = invited[j].key.epoch
                       \/ invited[j].invite \in codes.stale
    BY <1>0 DEF JoinerGood, Joins!Held, Fits
  <2> QED BY <1>0, <2>1 DEF InvitesGood, Joins!OneForEachCode
<1>2. Joins!ProofsAreJudged
  <2>1. \A j \in Leader : inviter.pins[j] # "other"
    BY <1>0 DEF JoinTyped, InviterType
  <2>2. ASSUME NEW j \in Leader, NEW i \in codes.stored \ (codes.replaced \cup group.expired),
               group.rows[j].proof = i
        PROVE  inviter.stored = i \/ inviter.verdicts[j] # "none"
    <3>1. i # 0
      BY <1>0, JoinBoundsNat DEF JoinTyped, CodesType
    <3>2. \A k \in Leader : group.rows[k].proof = i => k = j
      BY <1>0, <2>2, <3>1 DEF InvitesGood
    <3> QED BY <1>0, <2>2, <3>2 DEF ChecksGood
  <2> QED BY <1>0, <2>1, <2>2 DEF ChecksGood, Joins!ProofsAreJudged
<1> QED BY <1>1, <1>2 DEF Joins!JoinersAreVouchedFor

-----------------------------------------------------------------------------
(* The chain of epochs: what a recursive definition over numbers gives.    *)

LEMMA EveryNumber ==
  ASSUME NEW n \in Nat, NEW S,
         \A k \in 0 .. n : (\A j \in 0 .. (k - 1) : j \in S) => k \in S
  PROVE  \A k \in 0 .. n : k \in S
<1> DEFINE Out == {k \in 0 .. n : k \notin S}
<1>1. SUFFICES ASSUME Out # {} PROVE FALSE
  OBVIOUS
<1>2. Out \in SUBSET Nat
  OBVIOUS
<1> DEFINE m == Min(Out)
<1>3. m \in Out /\ \A k \in Out : m <= k
  <2> HIDE DEF Out
  <2> QED BY <1>1, <1>2, LeastOf
<1> HIDE DEF m
<1>4. \A j \in 0 .. (m - 1) : j \in S
  BY <1>3
<1> QED BY <1>3, <1>4

(* The walk is defined at every epoch by the epoch before.                 *)
WalkStart(c) == [epoch |-> c.epoch, key |-> c.key, advanced |-> 0, refusal |-> "none"]

WalkIs(f, c, n) ==
  f = [e \in 0 .. n |-> IF e = 0 THEN WalkStart(c) ELSE Chain!Onward(c, f[e - 1], e)]

LEMMA WalkExists ==
  ASSUME NEW c, NEW n \in Nat
  PROVE  \E f : WalkIs(f, c, n)
<1> DEFINE S == {m \in 0 .. n : \E f : WalkIs(f, c, m)}
<1>1. ASSUME NEW m \in 0 .. n, \A j \in 0 .. (m - 1) : j \in S PROVE m \in S
  <2>1. CASE m = 0
    <3> DEFINE f == [e \in 0 .. 0 |-> WalkStart(c)]
    <3>1. WalkIs(f, c, 0)
      BY DEF WalkIs
    <3> QED BY <2>1, <3>1
  <2>2. CASE m # 0
    <3>1. m - 1 \in 0 .. (m - 1) /\ m - 1 \in 0 .. n /\ m \in Nat
      BY <2>2
    <3>2. PICK f : WalkIs(f, c, m - 1)
      BY <1>1, <3>1
    <3> DEFINE g == [e \in 0 .. m |->
                       IF e = m THEN Chain!Onward(c, f[m - 1], m) ELSE f[e]]
    <3>3. ASSUME NEW e \in 0 .. m
          PROVE  g[e] = IF e = 0 THEN WalkStart(c) ELSE Chain!Onward(c, g[e - 1], e)
      <4>1. CASE e = m
        <5>1. m - 1 \in 0 .. m /\ m - 1 # m
          BY <3>1
        <5> QED BY <2>2, <4>1, <5>1
      <4>2. CASE e # m
        <5>1. e \in 0 .. (m - 1) /\ e \in 0 .. m
          BY <3>1, <4>2
        <5>2. e # 0 => e - 1 \in 0 .. m /\ e - 1 # m
          BY <3>1, <5>1
        <5>3. f[e] = IF e = 0 THEN WalkStart(c) ELSE Chain!Onward(c, f[e - 1], e)
          BY <3>2, <5>1 DEF WalkIs
        <5>4. g[e] = f[e] /\ (e # 0 => g[e - 1] = f[e - 1])
          BY <4>2, <5>1, <5>2
        <5> QED BY <5>3, <5>4
      <4> QED BY <4>1, <4>2
    <3>4. g = [e \in 0 .. m |-> IF e = 0 THEN WalkStart(c) ELSE Chain!Onward(c, g[e - 1], e)]
      <4>1. DOMAIN g = 0 .. m /\ g = [e \in 0 .. m |-> g[e]]
        OBVIOUS
      <4> HIDE DEF g
      <4> QED BY <3>3, <4>1
    <3>5. WalkIs(g, c, m)
      <4> HIDE DEF g
      <4> QED BY <3>4 DEF WalkIs
    <3> QED BY <3>5
  <2> QED BY <2>1, <2>2
<1> HIDE DEF S
<1>2. n \in S
  <2>1. \A k \in 0 .. n : k \in S
    BY <1>1, EveryNumber
  <2> QED BY <2>1
<1> QED BY <1>2 DEF S

LEMMA WalkUnfolds ==
  ASSUME NEW c
  PROVE  \E f : /\ f[0] = WalkStart(c) /\ Chain!Walk(c) = f[MaxEpoch]
                /\ \A e \in 1 .. MaxEpoch : f[e] = Chain!Onward(c, f[e - 1], e)
<1> DEFINE F == CHOOSE f : f = [e \in 0 .. MaxEpoch |->
                  IF e = 0 THEN WalkStart(c) ELSE Chain!Onward(c, f[e - 1], e)]
<1>1. MaxEpoch \in Nat \ {0}
  BY BoundsAssumption
<1>2. F = [e \in 0 .. MaxEpoch |-> IF e = 0 THEN WalkStart(c) ELSE Chain!Onward(c, F[e - 1], e)]
  BY <1>1, WalkExists DEF WalkIs
<1>3. Chain!Walk(c) = F[MaxEpoch]
  BY DEF Chain!Walk, WalkStart
<1> HIDE DEF F
<1>4. F[0] = WalkStart(c)
  <2>1. 0 \in 0 .. MaxEpoch
    BY <1>1
  <2> QED BY <1>2, <2>1
<1>5. \A e \in 1 .. MaxEpoch : F[e] = Chain!Onward(c, F[e - 1], e)
  <2> TAKE e \in 1 .. MaxEpoch
  <2>1. e \in 0 .. MaxEpoch /\ e # 0
    BY <1>1
  <2> QED BY <1>2, <2>1
<1> QED BY <1>3, <1>4, <1>5

(* And the line of a key by the key it was confirmed on, which is earlier. *)
EarlierMade(m) == /\ m \in [1 .. MaxKey -> [epoch : 0 .. MaxEpoch, on : 0 .. MaxKey]]
                  /\ \A k \in 1 .. MaxKey : m[k].on < k

LineIs(f, n) == f = [k \in 0 .. n |-> IF k = 0 THEN {} ELSE {k} \cup f[made[k].on]]

LEMMA LineExists ==
  ASSUME EarlierMade(made), NEW n \in 0 .. MaxKey
  PROVE  \E f : LineIs(f, n)
<1>0. n \in Nat /\ MaxKey \in Nat
  BY BoundsAssumption
<1> DEFINE S == {m \in 0 .. n : \E f : LineIs(f, m)}
<1>1. ASSUME NEW m \in 0 .. n, \A j \in 0 .. (m - 1) : j \in S PROVE m \in S
  <2>1. CASE m = 0
    <3> DEFINE f == [e \in 0 .. 0 |-> {}]
    <3>1. LineIs(f, 0)
      BY DEF LineIs
    <3> QED BY <2>1, <3>1
  <2>2. CASE m # 0
    <3>1. m - 1 \in 0 .. (m - 1) /\ m - 1 \in 0 .. n /\ m \in Nat /\ m \in 1 .. MaxKey
      BY <1>0, <2>2
    <3>2. PICK f : LineIs(f, m - 1)
      BY <1>1, <3>1
    <3> DEFINE g == [e \in 0 .. m |-> IF e = m THEN {m} \cup f[made[m].on] ELSE f[e]]
    <3>3. ASSUME NEW e \in 0 .. m
          PROVE  g[e] = IF e = 0 THEN {} ELSE {e} \cup g[made[e].on]
      <4>0. e # 0 => /\ e \in 1 .. MaxKey /\ made[e].on \in 0 .. MaxKey /\ made[e].on < e
                     /\ made[e].on \in 0 .. m /\ made[e].on # m
        <5>1. e # 0 => e \in 1 .. MaxKey
          BY <1>0, <3>1
        <5>2. e # 0 => made[e].on \in 0 .. MaxKey /\ made[e].on < e
          BY <5>1 DEF EarlierMade
        <5> QED BY <1>0, <3>1, <5>1, <5>2
      <4>1. CASE e = m
        BY <2>2, <4>0, <4>1
      <4>2. CASE e # m
        <5>1. e \in 0 .. (m - 1) /\ e \in 0 .. m
          BY <3>1, <4>2
        <5>3. f[e] = IF e = 0 THEN {} ELSE {e} \cup f[made[e].on]
          BY <3>2, <5>1 DEF LineIs
        <5>4. g[e] = f[e] /\ (e # 0 => g[made[e].on] = f[made[e].on])
          BY <4>0, <4>2, <5>1
        <5> QED BY <5>3, <5>4
      <4> QED BY <4>1, <4>2
    <3>4. g = [e \in 0 .. m |-> IF e = 0 THEN {} ELSE {e} \cup g[made[e].on]]
      <4>1. DOMAIN g = 0 .. m /\ g = [e \in 0 .. m |-> g[e]]
        OBVIOUS
      <4> HIDE DEF g
      <4> QED BY <3>3, <4>1
    <3>5. LineIs(g, m)
      <4> HIDE DEF g
      <4> QED BY <3>4 DEF LineIs
    <3> QED BY <3>5
  <2> QED BY <2>1, <2>2
<1> HIDE DEF S
<1>2. n \in S
  <2>1. \A k \in 0 .. n : k \in S
    BY <1>0, <1>1, EveryNumber
  <2> QED BY <1>0, <2>1
<1> QED BY <1>2 DEF S

LEMMA AncestorsUnfold ==
  ASSUME EarlierMade(made)
  PROVE  /\ Chain!Ancestors(0) = {}
         /\ \A k \in 1 .. MaxKey : Chain!Ancestors(k) = {k} \cup Chain!Ancestors(made[k].on)
<1> DEFINE F == CHOOSE f : f = [k \in 1 .. MaxKey \cup {0} |->
                  IF k = 0 THEN {} ELSE {k} \cup f[made[k].on]]
<1>1. MaxKey \in Nat \ {0} /\ 1 .. MaxKey \cup {0} = 0 .. MaxKey /\ MaxKey \in 0 .. MaxKey
  BY BoundsAssumption
<1>2. F = [k \in 0 .. MaxKey |-> IF k = 0 THEN {} ELSE {k} \cup F[made[k].on]]
  BY <1>1, LineExists DEF LineIs
<1>3. \A k : Chain!Ancestors(k) = F[k]
  BY DEF Chain!Ancestors, Chain!Key
<1> HIDE DEF F
<1>4. F[0] = {}
  <2>1. 0 \in 0 .. MaxKey
    BY <1>1
  <2> QED BY <1>2, <2>1
<1>5. \A k \in 1 .. MaxKey : F[k] = {k} \cup F[made[k].on]
  <2> TAKE k \in 1 .. MaxKey
  <2>1. k \in 0 .. MaxKey /\ k # 0
    BY <1>1
  <2> QED BY <1>2, <2>1
<1> QED BY <1>3, <1>4, <1>5

(* Made keys stand on earlier keys of lower epochs.                        *)
LineGood(m) == EarlierMade(m)
               /\ \A k \in 1 .. MaxKey : m[k].on # 0 => m[m[k].on].epoch < m[k].epoch

Line(k) == Chain!Ancestors(k)

(* What a line of keys is like, by the line of the key before.             *)
LEMMA LineFacts ==
  ASSUME LineGood(made), NEW k \in 1 .. MaxKey
  PROVE  /\ k \in Line(k)
         /\ \A j \in Line(k) : /\ j \in 1 .. k /\ made[j].epoch <= made[k].epoch
                               /\ Line(j) \subseteq Line(k)
                               /\ (made[j].epoch = made[k].epoch => j = k)
         /\ \A i, j \in Line(k) : i \in Line(j) \/ j \in Line(i)
<1>0. MaxKey \in Nat \ {0} /\ MaxEpoch \in Nat \ {0} /\ EarlierMade(made)
  BY BoundsAssumption DEF LineGood
<1>1. Line(0) = {} /\ \A n \in 1 .. MaxKey : Line(n) = {n} \cup Line(made[n].on)
  BY <1>0, AncestorsUnfold DEF Line
<1>2. \A n \in 1 .. MaxKey : /\ made[n].on \in 0 .. MaxKey /\ made[n].on < n
                             /\ made[n].epoch \in 0 .. MaxEpoch
                             /\ (made[n].on # 0 => made[made[n].on].epoch < made[n].epoch)
  BY DEF LineGood, EarlierMade
<1> DEFINE Fine(n) ==
             n # 0 =>
             /\ n \in Line(n)
             /\ \A j \in Line(n) : /\ j \in 1 .. n /\ made[j].epoch <= made[n].epoch
                                   /\ Line(j) \subseteq Line(n)
                                   /\ (made[j].epoch = made[n].epoch => j = n)
             /\ \A i, j \in Line(n) : i \in Line(j) \/ j \in Line(i)
           S == {n \in 0 .. MaxKey : Fine(n)}
<1>3. ASSUME NEW n \in 0 .. MaxKey, \A j \in 0 .. (n - 1) : j \in S PROVE n \in S
  <2>1. CASE n = 0
    BY <2>1
  <2>2. CASE n # 0
    <3> DEFINE m == made[n].on
    <3>1. n \in 1 .. MaxKey /\ m \in 0 .. (n - 1) /\ Line(n) = {n} \cup Line(m)
      <4>1. n \in 1 .. MaxKey
        BY <1>0, <2>2
      <4> QED BY <1>0, <1>1, <1>2, <4>1
    <3>2. Fine(m) /\ m \in 0 .. MaxKey
      BY <1>3, <3>1
    <3>3. m = 0 => Line(n) = {n}
      BY <1>1, <3>1
    <3>4. m # 0 => m \in 1 .. MaxKey /\ made[m].epoch < made[n].epoch /\ made[m].epoch \in Int
      BY <1>0, <1>2, <3>1, <3>2
    <3>5. made[n].epoch \in Int /\ n \in Int /\ m \in Int
      BY <1>2, <3>1
    <3> HIDE DEF m
    <3>6. ASSUME NEW j \in Line(n)
          PROVE  /\ j \in 1 .. n /\ made[j].epoch <= made[n].epoch
                 /\ Line(j) \subseteq Line(n)
                 /\ (made[j].epoch = made[n].epoch => j = n)
      <4>1. CASE j = n
        BY <3>1, <3>5, <4>1
      <4>2. CASE j # n
        <5>1. m # 0 /\ j \in Line(m)
          BY <3>1, <3>3, <4>2
        <5>2. j \in 1 .. m /\ made[j].epoch <= made[m].epoch /\ Line(j) \subseteq Line(m)
          BY <3>2, <5>1
        <5>3. j \in 1 .. n /\ made[j].epoch \in Int
          <6>1. j \in 1 .. n /\ j \in 1 .. MaxKey
            BY <1>0, <3>1, <3>5, <5>2
          <6> QED BY <1>2, <6>1
        <5> QED BY <3>1, <3>4, <3>5, <5>1, <5>2, <5>3
      <4> QED BY <4>1, <4>2
    <3>7. ASSUME NEW i \in Line(n), NEW j \in Line(n) PROVE i \in Line(j) \/ j \in Line(i)
      <4>1. CASE i = n \/ j = n
        BY <4>1
      <4>2. CASE i # n /\ j # n
        <5>1. m # 0 /\ i \in Line(m) /\ j \in Line(m)
          BY <3>1, <3>3, <4>2
        <5> QED BY <3>2, <5>1
      <4> QED BY <4>1, <4>2
    <3> QED BY <3>1, <3>6, <3>7
  <2> QED BY <2>1, <2>2
<1> HIDE DEF S
<1>4. \A n \in 0 .. MaxKey : n \in S
  BY <1>0, <1>3, EveryNumber
<1>5. k \in S /\ k # 0
  BY <1>0, <1>4
<1> QED BY <1>5 DEF S

(* Two keys of one line with each other in theirs are one key.             *)
LEMMA LineOrdered ==
  ASSUME LineGood(made), NEW i \in 1 .. MaxKey, NEW j \in Line(i), i \in Line(j)
  PROVE  i = j
<1>1. MaxKey \in Nat /\ j \in 1 .. i
  BY BoundsAssumption, LineFacts
<1>2. j \in 1 .. MaxKey
  BY <1>1
<1>3. i \in 1 .. j
  BY <1>2, LineFacts
<1> QED BY <1>1, <1>3

-----------------------------------------------------------------------------
(* The chain of epochs: the walk.                                          *)

WrapsType == [1 .. MaxEpoch -> [rot : 0 .. MaxKey, sender : Leader \cup {"none"}, opens : BOOLEAN]]

(* What was read: a wrap is of a key made for its epoch.                   *)
ReadGood(m, s) ==
  /\ s.key \in 1 .. MaxKey /\ s.epoch \in 1 .. MaxEpoch /\ m[s.key].epoch = s.epoch
  /\ s.rows \in WrapsType /\ s.confirms \in [1 .. MaxEpoch -> 0 .. MaxKey]
  /\ \A e \in 1 .. MaxEpoch : s.rows[e].rot # 0 => m[s.rows[e].rot].epoch = e

AskGood(m, c) == ReadGood(m, c) /\ c.inForce \in 1 .. MaxKey

(* The walk up to an epoch, along the line to the key in force when that   *)
(* is whole.                                                               *)
Followed(c, w, n) ==
  /\ w.refusal = "none" /\ w.key \in Line(c.inForce)
  /\ \A k \in Line(c.inForce) : made[k].epoch <= n => k \in Line(w.key)

Refusals == {"none", "sender_not_pinned", "sender_key_changed", "unwrap_failed", "key_substituted",
             "missing_confirmation", "confirmation_failed"}

WalkType == [epoch : 1 .. MaxEpoch, key : 1 .. MaxKey, advanced : Nat, refusal : Refusals]

WalkGood(c, w, n) ==
  /\ w \in WalkType /\ made[w.key].epoch = w.epoch /\ c.key \in Line(w.key)
  /\ IF w.advanced = 0 THEN w.epoch = c.epoch /\ w.key = c.key
     ELSE w.epoch > c.epoch /\ w.epoch <= n
  /\ w.refusal = "none" => \A e \in 1 .. n :
       c.rows[e] # Chain!NoRow /\ e > c.epoch => c.rows[e].rot \in Line(w.key)
  /\ Chain!Complete(c) => Followed(c, w, n)

(* On a whole line, what is not behind the key held is ahead of it, with a *)
(* wrap and a confirmation.                                                *)
LEMMA BehindOrAhead ==
  ASSUME LineGood(made), NEW c, AskGood(made, c), Chain!Complete(c), NEW k \in Line(c.inForce)
  PROVE  /\ k \in 1 .. MaxKey /\ made[k].epoch \in 0 .. MaxEpoch
         /\ \/ k \in Line(c.key)
            \/ /\ made[k].epoch > c.epoch /\ c.rows[made[k].epoch] # Chain!NoRow
               /\ c.rows[made[k].epoch].rot = k /\ c.confirms[made[k].epoch] = k
<1>1. c.inForce \in 1 .. MaxKey /\ c.key \in 1 .. MaxKey /\ c.epoch \in 1 .. MaxEpoch
      /\ made[c.key].epoch = c.epoch /\ MaxKey \in Nat /\ MaxEpoch \in Nat
  BY BoundsAssumption DEF AskGood, ReadGood
<1>2. k \in 1 .. MaxKey
  <2>1. k \in 1 .. c.inForce
    BY <1>1, LineFacts
  <2> QED BY <1>1, <2>1
<1>3. made[k].epoch \in 0 .. MaxEpoch
  BY <1>2 DEF LineGood, EarlierMade
<1>4. CASE k \notin Line(c.key)
  <2>1. c.key \in Line(c.inForce) /\ c.rows[made[k].epoch].rot = k /\ c.confirms[made[k].epoch] = k
    BY <1>4 DEF Chain!Complete, Line
  <2>2. c.key \in Line(k) /\ k # c.key
    BY <1>1, <1>4, <2>1, LineFacts
  <2>3. made[c.key].epoch <= made[k].epoch /\ made[c.key].epoch # made[k].epoch
    BY <1>2, <2>2, LineFacts
  <2>4. made[k].epoch > c.epoch
    BY <1>1, <1>3, <2>3
  <2>5. c.rows[made[k].epoch] # Chain!NoRow
    BY <1>2, <2>1 DEF Chain!NoRow
  <2> QED BY <1>2, <1>3, <2>1, <2>4, <2>5
<1> QED BY <1>2, <1>3, <1>4

(* On a whole line no wrap is refused.                                     *)
LEMMA NothingRefused ==
  ASSUME LineGood(made), NEW c, AskGood(made, c), Chain!Complete(c), NEW n \in 1 .. MaxEpoch,
         NEW w, WalkGood(c, w, n - 1), c.rows[n] # Chain!NoRow, ~(n < w.epoch)
  PROVE  Chain!Refusal(c, w, n) = "none"
<1>1. /\ c.inForce \in 1 .. MaxKey /\ c.key \in 1 .. MaxKey /\ c.epoch \in 1 .. MaxEpoch
      /\ made[c.key].epoch = c.epoch /\ MaxKey \in Nat /\ MaxEpoch \in Nat
      /\ \A e \in 1 .. MaxEpoch : c.rows[e].rot # 0 => made[c.rows[e].rot].epoch = e
  BY BoundsAssumption DEF AskGood, ReadGood
<1>2. /\ w.epoch \in 1 .. MaxEpoch /\ w.key \in 1 .. MaxKey /\ made[w.key].epoch = w.epoch
      /\ w.epoch >= c.epoch /\ w.key \in Line(c.inForce)
      /\ \A k \in Line(c.inForce) : made[k].epoch <= n - 1 => k \in Line(w.key)
  BY <1>1 DEF WalkGood, WalkType, Followed
<1> DEFINE rot == c.rows[n].rot
<1>3. rot \in Line(c.inForce) /\ c.rows[n].opens /\ c.rows[n].sender \in c.pinned
      /\ c.rows[n].sender \notin c.changed
  <2>1. n \in {e \in 1 .. MaxEpoch : c.rows[e] # Chain!NoRow /\ e >= c.epoch}
    BY <1>1, <1>2
  <2> QED BY <2>1 DEF Chain!Complete, Line, Chain!Epoch
<1>4. rot \in 1 .. MaxKey
  BY <1>3, BehindOrAhead
<1>5. made[rot].epoch = n
  BY <1>1, <1>4
<1> HIDE DEF rot
<1>6. CASE n = w.epoch
  <2>1. rot \in Line(w.key) \/ w.key \in Line(rot)
    BY <1>1, <1>2, <1>3, LineFacts
  <2>2. rot = w.key
    BY <1>2, <1>4, <1>5, <1>6, <2>1, LineFacts
  <2> QED BY <1>3, <1>6, <2>2 DEF Chain!Refusal, rot
<1>7. CASE n # w.epoch
  <2> DEFINE p == made[rot].on
  <2>1. n > w.epoch /\ n \in Int
    BY <1>2, <1>7
  <2>2. rot \notin Line(w.key)
    <3>1. rot \in Line(w.key) => made[rot].epoch <= made[w.key].epoch
      BY <1>2, LineFacts
    <3> QED BY <1>2, <1>5, <2>1, <3>1
  <2>3. w.key \in Line(rot) /\ w.key # rot
    <3>1. w.key \in Line(rot)
      BY <1>1, <1>2, <1>3, <2>2, LineFacts
    <3> QED BY <1>2, <1>5, <1>7, <3>1
  <2>4. /\ Line(rot) = {rot} \cup Line(p) /\ Line(0) = {} /\ p \in 0 .. MaxKey
        /\ (p # 0 => made[p].epoch < n)
    BY <1>4, <1>5, AncestorsUnfold DEF LineGood, EarlierMade, Line
  <2>5. w.key \in Line(p) /\ p # 0
    BY <2>3, <2>4
  <2> HIDE DEF p
  <2>6. p \in 1 .. MaxKey /\ made[p].epoch \in 0 .. MaxEpoch /\ made[p].epoch <= n - 1
    <3>1. p \in 1 .. MaxKey
      BY <1>1, <2>4, <2>5
    <3>2. made[p].epoch \in 0 .. MaxEpoch
      BY <3>1 DEF LineGood, EarlierMade
    <3> QED BY <1>1, <2>1, <2>4, <2>5, <3>1, <3>2
  <2>7. p \in Line(rot) /\ Line(rot) \subseteq Line(c.inForce)
    <3>1. p \in Line(p)
      BY <2>6, LineFacts
    <3> QED BY <1>1, <1>3, <2>4, <3>1, LineFacts
  <2>8. p \in Line(w.key)
    BY <1>2, <2>6, <2>7
  <2>9. p = w.key
    BY <2>5, <2>6, <2>8, <1>2, LineOrdered
  <2>10. c.confirms[n] = rot
    <3>1. rot \in Line(c.key) => made[rot].epoch <= made[c.key].epoch
      BY <1>1, LineFacts
    <3>2. rot \notin Line(c.key)
      BY <1>1, <1>2, <1>5, <2>1, <3>1
    <3> QED BY <1>3, <1>5, <3>2, BehindOrAhead
  <2>11. Chain!Verified(c.confirms[n], w.key, n, rot)
    BY <1>5, <2>9, <2>10 DEF Chain!Verified, p
  <2>12. c.confirms[n] # 0
    BY <1>4, <2>10
  <2> QED BY <1>3, <1>7, <2>11, <2>12 DEF Chain!Refusal, rot
<1> QED BY <1>6, <1>7

LEMMA WalkOn ==
  ASSUME LineGood(made), NEW c, AskGood(made, c), NEW n \in 1 .. MaxEpoch,
         NEW w, WalkGood(c, w, n - 1)
  PROVE  WalkGood(c, Chain!Onward(c, w, n), n)
<1>1. /\ c.inForce \in 1 .. MaxKey /\ c.key \in 1 .. MaxKey /\ c.epoch \in 1 .. MaxEpoch
      /\ made[c.key].epoch = c.epoch /\ MaxKey \in Nat /\ MaxEpoch \in Nat /\ n \in Nat
      /\ \A e \in 1 .. MaxEpoch : c.rows[e].rot # 0 => made[c.rows[e].rot].epoch = e
      /\ c.confirms[n] \in 0 .. MaxKey
  BY BoundsAssumption DEF AskGood, ReadGood
<1>2. /\ w.epoch \in 1 .. MaxEpoch /\ w.key \in 1 .. MaxKey /\ made[w.key].epoch = w.epoch
      /\ w.advanced \in Nat /\ w.refusal \in Refusals /\ c.key \in Line(w.key)
      /\ (w.advanced = 0 => w.epoch = c.epoch /\ w.key = c.key)
      /\ (w.advanced # 0 => w.epoch > c.epoch /\ w.epoch <= n - 1)
      /\ (w.refusal = "none" => \A e \in 1 .. (n - 1) :
            c.rows[e] # Chain!NoRow /\ e > c.epoch => c.rows[e].rot \in Line(w.key))
  BY DEF WalkGood, WalkType
<1>3. Chain!Complete(c) =>
        /\ w.refusal = "none" /\ w.key \in Line(c.inForce)
        /\ \A k \in Line(c.inForce) : made[k].epoch <= n - 1 => k \in Line(w.key)
  BY DEF WalkGood, Followed
<1>4. \A e \in 1 .. n : e \in 1 .. (n - 1) \/ e = n
  BY <1>1
<1>5. Line(c.key) \subseteq Line(w.key)
  BY <1>2, LineFacts
<1>6. \A k \in Line(c.inForce) : Chain!Complete(c) =>
        /\ made[k].epoch \in 0 .. MaxEpoch
        /\ \/ k \in Line(c.key)
           \/ /\ made[k].epoch > c.epoch /\ c.rows[made[k].epoch] # Chain!NoRow
              /\ c.rows[made[k].epoch].rot = k
  BY BehindOrAhead
<1> DEFINE refusal == Chain!Refusal(c, w, n)
           v == Chain!Onward(c, w, n)
<1>7. CASE w.refusal # "none" \/ c.rows[n] = Chain!NoRow \/ n < w.epoch
           \/ (n = w.epoch /\ refusal = "none")
  <2>1. v = w
    <3>1. c.rows[n] # Chain!NoRow /\ w.refusal = "none" /\ ~(n < w.epoch) => refusal = "none" /\ n = w.epoch
      BY <1>1, <1>2, <1>7
    <3> QED BY <1>7, <3>1 DEF Chain!Onward
  <2>2. w.refusal = "none" /\ c.rows[n] # Chain!NoRow => ~(n > c.epoch)
    <3>1. w.refusal = "none" /\ c.rows[n] # Chain!NoRow => n <= w.epoch
      BY <1>1, <1>2, <1>7
    <3> QED BY <1>1, <1>2, <3>1
  <2>3. w.refusal = "none" => \A e \in 1 .. n :
          c.rows[e] # Chain!NoRow /\ e > c.epoch => c.rows[e].rot \in Line(w.key)
    BY <1>2, <1>4, <2>2
  <2>4. ASSUME Chain!Complete(c), NEW k \in Line(c.inForce), made[k].epoch <= n
        PROVE  k \in Line(w.key)
    <3>1. made[k].epoch \in Int /\ (made[k].epoch <= n - 1 \/ made[k].epoch = n)
      BY <1>1, <1>6, <2>4
    <3>2. k \in Line(c.key) \/ made[k].epoch # n
      BY <1>3, <1>6, <2>2, <2>4
    <3> QED BY <1>3, <1>5, <2>4, <3>1, <3>2
  <2> HIDE DEF v
  <2>5. IF w.advanced = 0 THEN w.epoch = c.epoch /\ w.key = c.key
        ELSE w.epoch > c.epoch /\ w.epoch <= n
    BY <1>1, <1>2
  <2>6. Chain!Complete(c) => Followed(c, w, n)
    BY <1>3, <2>4 DEF Followed
  <2>7. w \in WalkType /\ made[w.key].epoch = w.epoch /\ c.key \in Line(w.key)
    BY DEF WalkGood
  <2> QED BY <2>1, <2>3, <2>5, <2>6, <2>7 DEF WalkGood, v
<1>8. CASE /\ w.refusal = "none" /\ c.rows[n] # Chain!NoRow /\ ~(n < w.epoch) /\ refusal # "none"
  <2>1. v = [w EXCEPT !.refusal = refusal]
    BY <1>8 DEF Chain!Onward
  <2>2. ~Chain!Complete(c)
    BY <1>8, NothingRefused
  <2>3. refusal \in Refusals
    BY DEF Chain!Refusal, Refusals
  <2> HIDE DEF refusal, v
  <2>4. /\ v \in WalkType /\ v.epoch = w.epoch /\ v.key = w.key /\ v.advanced = w.advanced
        /\ v.refusal = refusal
    <3>1. \A u \in WalkType, x \in Refusals : LET z == [u EXCEPT !.refusal = x]
                                 IN z \in WalkType /\ z.epoch = u.epoch /\ z.key = u.key
                                    /\ z.advanced = u.advanced /\ z.refusal = x
      BY DEF WalkType
    <3>2. w \in WalkType
      BY DEF WalkGood
    <3> QED BY <2>1, <2>3, <3>1, <3>2
  <2>5. WalkGood(c, v, n)
    BY <1>1, <1>2, <1>8, <2>2, <2>4 DEF WalkGood
  <2> QED BY <2>5 DEF v
<1>9. CASE /\ w.refusal = "none" /\ c.rows[n] # Chain!NoRow /\ n > w.epoch /\ refusal = "none"
  <2> DEFINE rot == c.rows[n].rot
  <2>1. v = [w EXCEPT !.epoch = n, !.key = rot, !.advanced = @ + 1]
    <3>1. ~(n < w.epoch) /\ n # w.epoch
      BY <1>1, <1>2, <1>9
    <3> QED BY <1>9, <3>1 DEF Chain!Onward
  <2>2. c.confirms[n] # 0 /\ Chain!Verified(c.confirms[n], w.key, n, rot)
    <3>1. n # w.epoch
      BY <1>2, <1>9
    <3> QED BY <1>9, <3>1 DEF Chain!Refusal
  <2>3. rot \in 1 .. MaxKey /\ made[rot].epoch = n /\ made[rot].on = w.key
    BY <1>1, <2>2 DEF Chain!Verified
  <2> HIDE DEF v
  <2>4. Chain!Complete(c) => rot \in Line(c.inForce)
    <3>1. n \in {e \in 1 .. MaxEpoch : c.rows[e] # Chain!NoRow /\ e >= c.epoch}
      BY <1>1, <1>2, <1>9
    <3> QED BY <3>1 DEF Chain!Complete, Line, Chain!Epoch
  <2>5. ASSUME Chain!Complete(c), NEW k \in Line(c.inForce), made[k].epoch = n
        PROVE  k \in Line(c.key) \/ k = rot
    BY <1>6, <2>5
  <2> HIDE DEF rot
  <2>6. Line(rot) = {rot} \cup Line(w.key)
    BY <2>3, AncestorsUnfold DEF LineGood, Line
  <2>7. v \in WalkType /\ v.epoch = n /\ v.key = rot /\ v.advanced = w.advanced + 1
        /\ v.refusal = "none"
    <3>2. w \in WalkType
      BY DEF WalkGood
    <3> DEFINE steps == w.advanced + 1
    <3>3. steps \in Nat
      BY <1>2
    <3>4. v = [w EXCEPT !.epoch = n, !.key = rot, !.advanced = steps]
      BY <2>1
    <3>5. n \in 1 .. MaxEpoch /\ rot \in 1 .. MaxKey /\ w.refusal = "none"
      BY <1>9, <2>3
    <3> HIDE DEF steps
    <3>6. v \in WalkType /\ v.epoch = n /\ v.key = rot /\ v.advanced = steps /\ v.refusal = "none"
      BY <3>2, <3>3, <3>4, <3>5 DEF WalkType
    <3> QED BY <3>6 DEF steps
  <2>8. v.advanced # 0 /\ n > c.epoch
    BY <1>1, <1>2, <1>9, <2>7
  <2>9. c.rows[n].rot = rot
    BY DEF rot
  <2>10. \A e \in 1 .. n : c.rows[e] # Chain!NoRow /\ e > c.epoch => c.rows[e].rot \in Line(rot)
    BY <1>2, <1>4, <1>9, <2>6, <2>9
  <2>11. ASSUME Chain!Complete(c), NEW k \in Line(c.inForce), made[k].epoch <= n
         PROVE  k \in Line(rot)
    <3>1. made[k].epoch <= n - 1 \/ made[k].epoch = n
      BY <1>1, <1>6, <2>11
    <3> QED BY <1>3, <1>5, <2>5, <2>6, <2>11, <3>1
  <2>12. Chain!Complete(c) => Followed(c, v, n)
    BY <2>4, <2>7, <2>11 DEF Followed
  <2>13. made[v.key].epoch = v.epoch /\ c.key \in Line(v.key)
    BY <1>2, <2>3, <2>6, <2>7
  <2>14. WalkGood(c, v, n)
    BY <1>1, <2>7, <2>8, <2>10, <2>12, <2>13 DEF WalkGood
  <2> QED BY <2>14 DEF v
<1>10. n < w.epoch \/ (n = w.epoch /\ ~(n < w.epoch)) \/ (n > w.epoch /\ ~(n < w.epoch))
  BY <1>1, <1>2
<1> HIDE DEF refusal
<1> QED BY <1>7, <1>8, <1>9, <1>10

LEMMA WalkEnds ==
  ASSUME LineGood(made), NEW c, AskGood(made, c)
  PROVE  WalkGood(c, Chain!Walk(c), MaxEpoch)
<1>1. /\ c.inForce \in 1 .. MaxKey /\ c.key \in 1 .. MaxKey /\ c.epoch \in 1 .. MaxEpoch
      /\ made[c.key].epoch = c.epoch /\ MaxKey \in Nat /\ MaxEpoch \in Nat \ {0}
  BY BoundsAssumption DEF AskGood, ReadGood
<1>2. PICK f : /\ f[0] = WalkStart(c) /\ Chain!Walk(c) = f[MaxEpoch]
               /\ \A e \in 1 .. MaxEpoch : f[e] = Chain!Onward(c, f[e - 1], e)
  BY WalkUnfolds
<1>3. WalkGood(c, f[0], 0)
  <2>1. f[0] \in WalkType /\ f[0].epoch = c.epoch /\ f[0].key = c.key /\ f[0].advanced = 0
        /\ f[0].refusal = "none"
    BY <1>1, <1>2 DEF WalkStart, WalkType, Refusals
  <2>2. c.key \in Line(c.key)
    BY <1>1, LineFacts
  <2>3. ASSUME Chain!Complete(c), NEW k \in Line(c.inForce), made[k].epoch <= 0
        PROVE  k \in Line(c.key)
    BY <1>1, <2>3, BehindOrAhead
  <2>4. Chain!Complete(c) => c.key \in Line(c.inForce)
    BY DEF Chain!Complete, Line
  <2> QED BY <1>1, <2>1, <2>2, <2>3, <2>4 DEF WalkGood, Followed
<1> DEFINE S == {n \in 0 .. MaxEpoch : WalkGood(c, f[n], n)}
<1>4. ASSUME NEW n \in 0 .. MaxEpoch, \A j \in 0 .. (n - 1) : j \in S PROVE n \in S
  <2>1. CASE n = 0
    BY <1>3, <2>1
  <2>2. CASE n # 0
    <3>1. n \in 1 .. MaxEpoch /\ n - 1 \in 0 .. (n - 1)
      BY <1>1, <2>2
    <3>2. WalkGood(c, f[n - 1], n - 1)
      BY <1>4, <3>1
    <3>3. WalkGood(c, f[n], n)
      BY <1>2, <3>1, <3>2, WalkOn
    <3> QED BY <3>3
  <2> QED BY <2>1, <2>2
<1> HIDE DEF S
<1>5. \A n \in 0 .. MaxEpoch : n \in S
  BY <1>1, <1>4, EveryNumber
<1>6. MaxEpoch \in S
  BY <1>1, <1>5
<1> QED BY <1>2, <1>6 DEF S

(* What is read is what the three properties say of it.                    *)
LEMMA WalkIsRight ==
  ASSUME LineGood(made), NEW c, AskGood(made, c)
  PROVE  /\ Chain!ComesByConfirmedLinks(c) /\ Chain!CatchesUp(c) /\ Chain!StraysAloud(c)
         /\ LET w == Chain!Walk(c)
            IN w \in WalkType /\ made[w.key].epoch = w.epoch
               /\ (w.advanced > 0 => w.epoch > c.epoch)
<1> DEFINE w == Chain!Walk(c)
<1>1. WalkGood(c, w, MaxEpoch)
  BY WalkEnds
<1>2. /\ c.inForce \in 1 .. MaxKey /\ c.key \in 1 .. MaxKey /\ c.epoch \in 1 .. MaxEpoch
      /\ MaxKey \in Nat /\ MaxEpoch \in Nat \ {0}
  BY BoundsAssumption DEF AskGood, ReadGood
<1>3. Chain!ComesByConfirmedLinks(c)
  BY <1>1 DEF WalkGood, Chain!ComesByConfirmedLinks, Line
<1>4. Chain!StraysAloud(c)
  BY <1>1 DEF WalkGood, Chain!StraysAloud, Line, Chain!Epoch
<1>5. ASSUME Chain!Complete(c) PROVE w.key = c.inForce /\ w.refusal = "none"
  <2>1. w.refusal = "none" /\ w.key \in Line(c.inForce)
        /\ \A k \in Line(c.inForce) : made[k].epoch <= MaxEpoch => k \in Line(w.key)
    BY <1>1, <1>5 DEF WalkGood, Followed
  <2>2. c.inForce \in Line(c.inForce) /\ made[c.inForce].epoch <= MaxEpoch
    <3>1. made[c.inForce].epoch \in 0 .. MaxEpoch
      BY <1>2 DEF LineGood, EarlierMade
    <3> QED BY <1>2, <3>1, LineFacts
  <2>3. c.inForce \in Line(w.key)
    BY <2>1, <2>2
  <2> QED BY <1>2, <2>1, <2>3, LineOrdered
<1>6. Chain!CatchesUp(c)
  BY <1>5 DEF Chain!CatchesUp
<1> HIDE DEF w
<1>7. w \in WalkType /\ made[w.key].epoch = w.epoch /\ (w.advanced > 0 => w.epoch > c.epoch)
  BY <1>1 DEF WalkGood, WalkType
<1> QED BY <1>3, <1>4, <1>6, <1>7 DEF w

-----------------------------------------------------------------------------
(* The chain of epochs: its invariant.                                     *)

HolderType == [epoch : 1 .. MaxEpoch, key : 1 .. MaxKey, retired : 0 .. MaxKey, pins : SUBSET Leader,
               highest : 1 .. MaxEpoch, overlap : BOOLEAN, faults : 0 .. 1]

HolderGood(m, d) == d \in HolderType /\ m[d.key].epoch = d.epoch

ServerType == [epoch : 1 .. MaxEpoch, key : 1 .. MaxKey, rows : WrapsType,
               confirms : [1 .. MaxEpoch -> 0 .. MaxKey], changed : SUBSET Leader]

OfferType == [at : {"idle", "asked"}, epoch : 0 .. MaxEpoch, key : 0 .. MaxKey, inForce : 0 .. MaxKey,
              rows : WrapsType, confirms : [1 .. MaxEpoch -> 0 .. MaxKey],
              pinned : SUBSET Leader, changed : SUBSET Leader, alarm : Refusals]

(* While one tab asks at a time, what it read of the device is so still.   *)
OneAsks(d, calls) ==
  ~d.overlap =>
  /\ d.highest = d.epoch
  /\ \A t \in Tab : calls[t].at = "asked" =>
       /\ calls[t].epoch = d.epoch
       /\ \A u \in Tab : calls[u].at = "asked" => u = t

ChainInvariant ==
  /\ LineGood(made) /\ \A k \in 1 .. MaxKey : made[k].on # 0 => made[made[k].on].epoch # 0
  /\ \A j, k \in 1 .. MaxKey : j < k /\ made[k].epoch # 0 => made[j].epoch # 0
  /\ ReadGood(made, keys) /\ ReadGood(made, oldKeys) /\ HolderGood(made, holder)
  /\ keys \in ServerType /\ oldKeys \in ServerType /\ offer \in [Tab -> OfferType]
  /\ \A t \in Tab : offer[t].at = "asked" => AskGood(made, offer[t])
  /\ OneAsks(holder, offer)

LEMMA ChainRight == ChainInvariant => Chain!EpochsAreConfirmed
<1> SUFFICES ASSUME ChainInvariant PROVE Chain!EpochsAreConfirmed
  OBVIOUS
<1>1. \A t \in Tab : offer[t].at = "asked" =>
        Chain!ComesByConfirmedLinks(offer[t]) /\ Chain!CatchesUp(offer[t]) /\ Chain!StraysAloud(offer[t])
  BY WalkIsRight DEF ChainInvariant
<1> QED BY <1>1 DEF ChainInvariant, OneAsks, Chain!EpochsAreConfirmed

LEMMA ChainStarts == Chain!Init => ChainInvariant
<1> SUFFICES ASSUME Chain!Init PROVE ChainInvariant
  OBVIOUS
<1>1. MaxKey \in Nat \ {0} /\ MaxEpoch \in Nat \ {0} /\ 1 \in 1 .. MaxKey /\ 1 \in 1 .. MaxEpoch
      /\ 0 \in 0 .. MaxKey /\ 0 \in 0 .. MaxEpoch /\ 1 \in 0 .. MaxEpoch
  BY BoundsAssumption
<1>2. made = [k \in 1 .. MaxKey |-> [epoch |-> IF k = 1 THEN 1 ELSE 0, on |-> 0]]
  BY DEF Chain!Init, Chain!Key
<1>3. LineGood(made) /\ made[1].epoch = 1
      /\ (\A k \in 1 .. MaxKey : made[k].on = 0)
      /\ \A j, k \in 1 .. MaxKey : j < k /\ made[k].epoch # 0 => made[j].epoch # 0
  <2>1. \A k \in 1 .. MaxKey : made[k].on = 0 /\ (made[k].epoch # 0 <=> k = 1)
    BY <1>2
  <2>2. made[1].epoch = 1
    BY <1>1, <1>2
  <2>3. made \in [1 .. MaxKey -> [epoch : 0 .. MaxEpoch, on : 0 .. MaxKey]]
    BY <1>1, <1>2
  <2> QED BY <1>1, <2>1, <2>2, <2>3 DEF LineGood, EarlierMade
<1>4. /\ keys.epoch = 1 /\ keys.key = 1 /\ oldKeys = keys
      /\ keys.rows = [e \in 1 .. MaxEpoch |-> Chain!NoRow]
      /\ keys.confirms = [e \in 1 .. MaxEpoch |-> 0]
  BY DEF Chain!Init, Chain!NoCall, Chain!Epoch
<1>5. keys.rows \in WrapsType /\ keys.confirms \in [1 .. MaxEpoch -> 0 .. MaxKey]
      /\ \A e \in 1 .. MaxEpoch : keys.rows[e].rot = 0
  BY <1>1, <1>4 DEF WrapsType, Chain!NoRow
<1>6. ReadGood(made, keys) /\ ReadGood(made, oldKeys)
  BY <1>1, <1>3, <1>4, <1>5 DEF ReadGood
<1>7. holder = [epoch |-> 1, key |-> 1, retired |-> 0, pins |-> {}, highest |-> 1,
                overlap |-> FALSE, faults |-> 0]
  BY DEF Chain!Init
<1>8. HolderGood(made, holder) /\ holder.highest = holder.epoch
  BY <1>1, <1>3, <1>7 DEF HolderGood, HolderType
<1>9. /\ offer = [t \in Tab |-> Chain!NoCall] /\ \A t \in Tab : offer[t].at = "idle"
  BY DEF Chain!Init, Chain!NoCall
<1>10. Chain!NoCall \in OfferType
  <2>1. Chain!NoRow \in [rot : 0 .. MaxKey, sender : Leader \cup {"none"}, opens : BOOLEAN]
    BY <1>1 DEF Chain!NoRow
  <2> QED BY <1>1, <2>1 DEF Chain!NoCall, Chain!Epoch, OfferType, WrapsType, Refusals
<1>11. keys \in ServerType
  <2>1. keys = [epoch |-> 1, key |-> 1, rows |-> [e \in 1 .. MaxEpoch |-> Chain!NoRow],
                confirms |-> [e \in 1 .. MaxEpoch |-> 0], changed |-> {}]
    BY DEF Chain!Init, Chain!NoCall, Chain!Epoch
  <2> QED BY <1>1, <1>4, <1>5, <2>1 DEF ServerType
<1> QED BY <1>3, <1>4, <1>6, <1>8, <1>9, <1>10, <1>11 DEF ChainInvariant, OneAsks

(* What another key is made leaves what was read of the others.            *)
LEMMA KeyMade ==
  ASSUME NEW m, NEW k \in 1 .. MaxKey, NEW g, NEW n, n = [m EXCEPT ![k] = g],
         m \in [1 .. MaxKey -> [epoch : 0 .. MaxEpoch, on : 0 .. MaxKey]], m[k].epoch = 0, NEW s
  PROVE  /\ ReadGood(m, s) => ReadGood(n, s)
         /\ AskGood(m, s) => AskGood(n, s)
         /\ HolderGood(m, s) => HolderGood(n, s)
<1>0. MaxEpoch \in Nat /\ MaxKey \in Nat
  BY BoundsAssumption
<1>1. \A j \in 1 .. MaxKey : m[j].epoch # 0 => n[j] = m[j]
  OBVIOUS
<1>2. ReadGood(m, s) => ReadGood(n, s)
  <2> SUFFICES ASSUME ReadGood(m, s) PROVE ReadGood(n, s)
    OBVIOUS
  <2>1. \A e \in 1 .. MaxEpoch : s.rows[e].rot \in 0 .. MaxKey
    BY DEF ReadGood, WrapsType
  <2>2. \A e \in 1 .. MaxEpoch : s.rows[e].rot # 0 => n[s.rows[e].rot].epoch = e
    BY <1>0, <1>1, <2>1 DEF ReadGood
  <2>3. n[s.key].epoch = s.epoch
    BY <1>0, <1>1 DEF ReadGood
  <2> QED BY <2>2, <2>3 DEF ReadGood
<1>3. HolderGood(m, s) => HolderGood(n, s)
  <2> SUFFICES ASSUME HolderGood(m, s) PROVE HolderGood(n, s)
    OBVIOUS
  <2>1. s.key \in 1 .. MaxKey /\ s.epoch \in 1 .. MaxEpoch /\ m[s.key].epoch = s.epoch
    BY DEF HolderGood, HolderType
  <2>2. n[s.key].epoch = s.epoch
    BY <1>0, <1>1, <2>1
  <2> QED BY <2>2 DEF HolderGood
<1> QED BY <1>2, <1>3 DEF AskGood

(* The next key is the first that is not made.                             *)
LEMMA FreshIsFirst ==
  ASSUME Chain!FreshKey # 0
  PROVE  /\ Chain!FreshKey \in 1 .. MaxKey /\ made[Chain!FreshKey].epoch = 0
         /\ \A j \in 1 .. MaxKey : j < Chain!FreshKey => made[j].epoch # 0
<1>0. MaxKey \in Nat \ {0}
  BY BoundsAssumption
<1> DEFINE Out == {k \in 1 .. MaxKey : made[k].epoch = 0}
           P(k) == IF \A j \in 1 .. MaxKey : made[j].epoch # 0 THEN k = 0
                   ELSE k # 0 /\ made[k].epoch = 0
                        /\ \A j \in 1 .. MaxKey : j < k => made[j].epoch # 0
<1>1. Chain!FreshKey = CHOOSE k \in 1 .. MaxKey \cup {0} : P(k)
  BY DEF Chain!FreshKey, Chain!Key
<1>2. \E k \in 1 .. MaxKey \cup {0} : P(k)
  <2>1. CASE Out = {}
    <3>1. P(0)
      BY <2>1
    <3> QED BY <3>1
  <2>2. CASE Out # {}
    <3>1. Out \in SUBSET Nat
      OBVIOUS
    <3> DEFINE m == Min(Out)
    <3>2. m \in Out /\ \A k \in Out : m <= k
      <4> HIDE DEF Out
      <4> QED BY <2>2, <3>1, LeastOf
    <3> HIDE DEF m
    <3>3. m \in 1 .. MaxKey /\ made[m].epoch = 0 /\ m # 0
      BY <3>2
    <3>4. \A j \in 1 .. MaxKey : j < m => made[j].epoch # 0
      <4> TAKE j \in 1 .. MaxKey
      <4>1. made[j].epoch = 0 => m <= j
        BY <3>2
      <4> QED BY <3>3, <4>1
    <3>5. P(m)
      BY <3>3, <3>4
    <3> HIDE DEF P
    <3> QED BY <3>3, <3>5
  <2> QED BY <2>1, <2>2
<1>3. P(Chain!FreshKey) /\ Chain!FreshKey \in 1 .. MaxKey \cup {0}
  <2> HIDE DEF P
  <2> QED BY <1>1, <1>2
<1>4. ~(\A j \in 1 .. MaxKey : made[j].epoch # 0)
  BY <1>3
<1> QED BY <1>3, <1>4

(* Every step keeps it.                                                    *)
LEMMA KeyChangeKeeps ==
  ASSUME ChainInvariant, NEW s \in Leader, NEW e \in Chain!Epoch, NEW reached \in BOOLEAN,
         Chain!Rotate(s, e, reached)
  PROVE  ChainInvariant'
<1> DEFINE k == Chain!FreshKey
           g == [epoch |-> e, on |-> keys.key]
<1>0. MaxKey \in Nat \ {0} /\ MaxEpoch \in Nat \ {0} /\ e \in 1 .. MaxEpoch
  BY BoundsAssumption DEF Chain!Epoch
<1>1. /\ k # 0 /\ e > keys.epoch /\ made' = [made EXCEPT ![k] = g]
      /\ oldKeys' = keys
      /\ keys' = [keys EXCEPT !.epoch = e, !.key = k, !.confirms[e] = k,
                   !.rows[e] = IF reached THEN [rot |-> k, sender |-> s, opens |-> TRUE]
                               ELSE Chain!NoRow]
      /\ holder' = holder /\ offer' = offer
  BY DEF Chain!Rotate
<1>2. k \in 1 .. MaxKey /\ made[k].epoch = 0 /\ \A j \in 1 .. MaxKey : j < k => made[j].epoch # 0
  BY <1>1, FreshIsFirst
<1> HIDE DEF k
<1>3. /\ made \in [1 .. MaxKey -> [epoch : 0 .. MaxEpoch, on : 0 .. MaxKey]]
      /\ \A j \in 1 .. MaxKey : made[j].on < j
      /\ \A j \in 1 .. MaxKey : made[j].on # 0 =>
           made[made[j].on].epoch < made[j].epoch /\ made[made[j].on].epoch # 0
      /\ \A j, i \in 1 .. MaxKey : j < i /\ made[i].epoch # 0 => made[j].epoch # 0
  BY DEF ChainInvariant, LineGood, EarlierMade
<1>4. /\ keys.key \in 1 .. MaxKey /\ keys.epoch \in 1 .. MaxEpoch /\ made[keys.key].epoch = keys.epoch
      /\ keys.rows \in WrapsType /\ keys.confirms \in [1 .. MaxEpoch -> 0 .. MaxKey]
      /\ \A i \in 1 .. MaxEpoch : keys.rows[i].rot # 0 => made[keys.rows[i].rot].epoch = i
  BY DEF ChainInvariant, ReadGood
<1>5. keys.key < k
  <2>1. keys.key # k /\ made[keys.key].epoch # 0
    BY <1>0, <1>2, <1>4
  <2>2. ~(k < keys.key)
    BY <1>2, <1>3, <1>4, <2>1
  <2> QED BY <1>2, <1>4, <2>1, <2>2
<1>6. g \in [epoch : 0 .. MaxEpoch, on : 0 .. MaxKey] /\ g.epoch = e /\ g.on = keys.key
  BY <1>0, <1>4
<1> HIDE DEF g
<1>7. /\ made' \in [1 .. MaxKey -> [epoch : 0 .. MaxEpoch, on : 0 .. MaxKey]]
      /\ made'[k] = g /\ \A j \in 1 .. MaxKey : j # k => made'[j] = made[j]
  BY <1>1, <1>2, <1>3, <1>6
<1>8. /\ \A j \in 1 .. MaxKey : made'[j].on < j
      /\ \A j \in 1 .. MaxKey : made'[j].on # 0 =>
           made'[made'[j].on].epoch < made'[j].epoch /\ made'[made'[j].on].epoch # 0
  <2> SUFFICES ASSUME NEW j \in 1 .. MaxKey
               PROVE  /\ made'[j].on < j
                      /\ made'[j].on # 0 => made'[made'[j].on].epoch < made'[j].epoch
                                            /\ made'[made'[j].on].epoch # 0
    OBVIOUS
  <2>1. CASE j = k
    <3>1. made'[keys.key] = made[keys.key] /\ made'[j].on = keys.key /\ made'[j].epoch = e
      BY <1>2, <1>4, <1>5, <1>6, <1>7, <2>1
    <3> QED BY <1>0, <1>1, <1>4, <1>5, <2>1, <3>1
  <2>2. CASE j # k
    <3>1. made'[j] = made[j] /\ made[j].on \in 0 .. MaxKey
      BY <1>3, <1>7, <2>2
    <3>2. made[j].on # 0 => made[j].on # k /\ made[j].on \in 1 .. MaxKey
      BY <1>0, <1>2, <1>3, <3>1
    <3>3. made[j].on # 0 => made'[made[j].on] = made[made[j].on]
      BY <1>7, <3>2
    <3> QED BY <1>3, <3>1, <3>3
  <2> QED BY <2>1, <2>2
<1>9. \A j, i \in 1 .. MaxKey : j < i /\ made'[i].epoch # 0 => made'[j].epoch # 0
  <2> SUFFICES ASSUME NEW j \in 1 .. MaxKey, NEW i \in 1 .. MaxKey, j < i, made'[i].epoch # 0
               PROVE  made'[j].epoch # 0
    OBVIOUS
  <2>1. CASE j = k
    BY <1>0, <1>6, <1>7, <2>1
  <2>2. CASE j # k
    BY <1>2, <1>3, <1>7, <2>2
  <2> QED BY <2>1, <2>2
<1>10. /\ ReadGood(made', keys) /\ HolderGood(made', holder)
       /\ \A t \in Tab : AskGood(made, offer[t]) => AskGood(made', offer[t])
  <2>1. ReadGood(made, keys) /\ HolderGood(made, holder)
    BY DEF ChainInvariant
  <2> QED BY <1>1, <1>2, <1>3, <2>1, KeyMade
<1>11. ReadGood(made', keys') /\ keys' \in ServerType
  <2> DEFINE wrap == IF reached THEN [rot |-> k, sender |-> s, opens |-> TRUE] ELSE Chain!NoRow
             kept == [keys EXCEPT !.epoch = e, !.key = k, !.confirms[e] = k, !.rows[e] = wrap]
  <2>1. wrap \in [rot : 0 .. MaxKey, sender : Leader \cup {"none"}, opens : BOOLEAN]
        /\ (wrap.rot = k \/ wrap.rot = 0)
    BY <1>0, <1>2 DEF Chain!NoRow
  <2>2. keys' = kept
    BY <1>1
  <2> HIDE DEF wrap
  <2>3. kept.epoch = e /\ kept.key = k /\ kept.confirms = [keys.confirms EXCEPT ![e] = k]
        /\ kept.rows = [keys.rows EXCEPT ![e] = wrap]
    <3>1. keys \in ServerType
      BY DEF ChainInvariant
    <3> QED BY <3>1 DEF ServerType
  <2> HIDE DEF kept
  <2>4. kept.rows \in WrapsType /\ kept.confirms \in [1 .. MaxEpoch -> 0 .. MaxKey]
    <3>1. keys.confirms \in [1 .. MaxEpoch -> 0 .. MaxKey] /\ k \in 0 .. MaxKey
      BY <1>0, <1>2, <1>4
    <3>2. keys.rows \in WrapsType
      BY <1>4
    <3>3. kept.confirms \in [1 .. MaxEpoch -> 0 .. MaxKey]
      BY <2>3, <3>1
    <3>4. kept.rows \in WrapsType
      <4> DEFINE R == [rot : 0 .. MaxKey, sender : Leader \cup {"none"}, opens : BOOLEAN]
      <4>1. wrap \in R /\ keys.rows \in [1 .. MaxEpoch -> R] /\ WrapsType = [1 .. MaxEpoch -> R]
        BY <2>1, <3>2 DEF WrapsType
      <4> HIDE DEF R
      <4>2. [keys.rows EXCEPT ![e] = wrap] \in [1 .. MaxEpoch -> R]
        BY <4>1
      <4> QED BY <2>3, <4>1, <4>2
    <3> QED BY <3>3, <3>4
  <2>5. \A i \in 1 .. MaxEpoch : kept.rows[i].rot # 0 => made'[kept.rows[i].rot].epoch = i
    <3> TAKE i \in 1 .. MaxEpoch
    <3>1. CASE i = e
      BY <1>4, <1>6, <1>7, <2>1, <2>3, <3>1 DEF WrapsType
    <3>2. CASE i # e
      <4>1. kept.rows[i] = keys.rows[i]
        BY <1>4, <2>3, <3>2 DEF WrapsType
      <4>2. ReadGood(made', keys)
        BY <1>10
      <4> QED BY <4>1, <4>2 DEF ReadGood
    <3> QED BY <3>1, <3>2
  <2>6. kept \in ServerType
    <3>1. keys \in ServerType
      BY DEF ChainInvariant
    <3>2. kept.rows = kept.rows /\ kept = [keys EXCEPT !.epoch = e, !.key = k,
                     !.confirms = kept.confirms, !.rows = kept.rows]
      BY <2>3, <3>1 DEF kept, ServerType
    <3> QED BY <1>0, <1>2, <2>4, <3>1, <3>2 DEF ServerType
  <2> QED BY <1>0, <1>2, <1>6, <1>7, <2>2, <2>3, <2>4, <2>5, <2>6 DEF ReadGood
<1>12. LineGood(made)'
  BY <1>7, <1>8 DEF LineGood, EarlierMade
<1> QED BY <1>1, <1>8, <1>9, <1>10, <1>11, <1>12 DEF ChainInvariant, OneAsks

(* What is harmed is harmed once, and a wrap keeps its key.                *)
LEMMA RowsHarmKeeps ==
  ASSUME ChainInvariant,
         \/ Chain!Restore \/ \E e \in Chain!Epoch : Chain!HarmConfirm(e) \/ Chain!HarmRow(e)
         \/ \E s \in Leader : Chain!HarmKey(s)
  PROVE  ChainInvariant'
<1>0. MaxKey \in Nat \ {0} /\ MaxEpoch \in Nat \ {0}
  BY BoundsAssumption
<1>1. /\ keys \in ServerType /\ oldKeys \in ServerType /\ ReadGood(made, keys)
      /\ ReadGood(made, oldKeys) /\ holder \in HolderType
  BY DEF ChainInvariant, HolderGood
<1>2. /\ made' = made /\ oldKeys' = oldKeys /\ offer' = offer
      /\ holder' = [holder EXCEPT !.faults = 1]
      /\ \/ keys' = oldKeys
         \/ \E e \in 1 .. MaxEpoch : keys' = [keys EXCEPT !.confirms[e] = 0]
         \/ \E e \in 1 .. MaxEpoch : keys' = [keys EXCEPT !.rows[e].opens = FALSE]
         \/ \E s \in Leader : keys' = [keys EXCEPT !.changed = {s}]
  BY DEF Chain!Restore, Chain!HarmConfirm, Chain!HarmRow, Chain!HarmKey, Chain!Harms, Chain!Epoch
<1>3. keys' \in ServerType /\ ReadGood(made, keys')
  <2>1. ASSUME NEW e \in 1 .. MaxEpoch, keys' = [keys EXCEPT !.confirms[e] = 0]
        PROVE  keys' \in ServerType /\ ReadGood(made, keys')
    <3> DEFINE kept == [keys.confirms EXCEPT ![e] = 0]
    <3>1. keys' = [keys EXCEPT !.confirms = kept]
      BY <2>1
    <3>2. kept \in [1 .. MaxEpoch -> 0 .. MaxKey]
      BY <1>0, <1>1 DEF ServerType
    <3> HIDE DEF kept
    <3>3. /\ keys' \in ServerType /\ keys'.confirms = kept /\ keys'.key = keys.key
          /\ keys'.epoch = keys.epoch /\ keys'.rows = keys.rows
      BY <1>1, <3>1, <3>2 DEF ServerType
    <3> QED BY <1>1, <3>2, <3>3 DEF ReadGood
  <2>2. ASSUME NEW e \in 1 .. MaxEpoch, keys' = [keys EXCEPT !.rows[e].opens = FALSE]
        PROVE  keys' \in ServerType /\ ReadGood(made, keys')
    <3>1. /\ keys.rows[e] \in [rot : 0 .. MaxKey, sender : Leader \cup {"none"}, opens : BOOLEAN]
          /\ keys.rows \in WrapsType
      BY <1>1 DEF ServerType, WrapsType
    <3> DEFINE wrap == [keys.rows[e] EXCEPT !.opens = FALSE]
               wraps == [keys.rows EXCEPT ![e] = wrap]
    <3>2. wrap \in [rot : 0 .. MaxKey, sender : Leader \cup {"none"}, opens : BOOLEAN]
          /\ wrap.rot = keys.rows[e].rot
      BY <3>1
    <3>3. keys' = [keys EXCEPT !.rows = wraps]
      BY <2>2
    <3> HIDE DEF wrap
    <3>4. wraps \in WrapsType /\ \A i \in 1 .. MaxEpoch : wraps[i].rot = keys.rows[i].rot
      BY <3>1, <3>2 DEF WrapsType
    <3> HIDE DEF wraps
    <3>5. /\ keys' \in ServerType /\ keys'.rows = wraps /\ keys'.key = keys.key
          /\ keys'.epoch = keys.epoch /\ keys'.confirms = keys.confirms
      BY <1>1, <3>3, <3>4 DEF ServerType
    <3> QED BY <1>1, <3>4, <3>5 DEF ReadGood
  <2>3. ASSUME NEW s \in Leader, keys' = [keys EXCEPT !.changed = {s}]
        PROVE  keys' \in ServerType /\ ReadGood(made, keys')
    BY <1>1, <2>3 DEF ServerType, ReadGood
  <2> QED BY <1>1, <1>2, <2>1, <2>2, <2>3
<1>4. /\ holder' \in HolderType /\ holder'.key = holder.key /\ holder'.epoch = holder.epoch
      /\ holder'.highest = holder.highest /\ holder'.overlap = holder.overlap
  BY <1>1, <1>2 DEF HolderType
<1>5. HolderGood(made, holder') /\ OneAsks(holder', offer)
  <2>1. HolderGood(made, holder) /\ OneAsks(holder, offer)
    BY DEF ChainInvariant
  <2> QED BY <1>4, <2>1 DEF HolderGood, OneAsks
<1> QED BY <1>2, <1>3, <1>5 DEF ChainInvariant, LineGood, EarlierMade

LEMMA PinnedKeeps ==
  ASSUME ChainInvariant, NEW s \in Leader, Chain!Pin(s)
  PROVE  ChainInvariant'
<1>1. holder \in HolderType
  BY DEF ChainInvariant, HolderGood
<1>2. /\ holder' = [holder EXCEPT !.pins = @ \cup {s}] /\ made' = made /\ keys' = keys
      /\ oldKeys' = oldKeys /\ offer' = offer
  BY DEF Chain!Pin
<1>3. /\ holder' \in HolderType /\ holder'.key = holder.key /\ holder'.epoch = holder.epoch
      /\ holder'.highest = holder.highest /\ holder'.overlap = holder.overlap
  BY <1>1, <1>2 DEF HolderType
<1>4. HolderGood(made, holder') /\ OneAsks(holder', offer)
  <2>1. HolderGood(made, holder) /\ OneAsks(holder, offer)
    BY DEF ChainInvariant
  <2> QED BY <1>3, <2>1 DEF HolderGood, OneAsks
<1> QED BY <1>2, <1>4 DEF ChainInvariant, LineGood, EarlierMade

LEMMA AskKeeps ==
  ASSUME ChainInvariant, NEW t \in Tab, NEW lists \in SUBSET Leader, Chain!Ask(t, lists)
  PROVE  ChainInvariant'
<1>0. MaxKey \in Nat \ {0} /\ MaxEpoch \in Nat \ {0}
  BY BoundsAssumption
<1> DEFINE c == [at |-> "asked", epoch |-> holder.epoch, key |-> holder.key, inForce |-> keys.key,
                 rows |-> keys.rows, confirms |-> keys.confirms,
                 pinned |-> holder.pins \cap lists, changed |-> keys.changed,
                 alarm |-> offer[t].alarm]
           over == holder.overlap \/ \E u \in Tab : offer[u].at = "asked"
<1>1. /\ offer[t].at = "idle" /\ offer' = [offer EXCEPT ![t] = c]
      /\ holder' = [holder EXCEPT !.overlap = over]
      /\ made' = made /\ keys' = keys /\ oldKeys' = oldKeys
  BY DEF Chain!Ask
<1>2. /\ holder \in HolderType /\ made[holder.key].epoch = holder.epoch /\ keys \in ServerType
      /\ ReadGood(made, keys) /\ offer \in [Tab -> OfferType]
      /\ \A u \in Tab : offer[u].at = "asked" => AskGood(made, offer[u])
      /\ OneAsks(holder, offer)
  BY DEF ChainInvariant, HolderGood
<1>3. c \in OfferType /\ AskGood(made, c) /\ c.epoch = holder.epoch /\ c.at = "asked"
  <2>1. /\ holder.epoch \in 1 .. MaxEpoch /\ holder.key \in 1 .. MaxKey /\ holder.pins \in SUBSET Leader
        /\ keys.key \in 1 .. MaxKey /\ keys.rows \in WrapsType /\ keys.changed \in SUBSET Leader
        /\ keys.confirms \in [1 .. MaxEpoch -> 0 .. MaxKey] /\ offer[t].alarm \in Refusals
    BY <1>2 DEF HolderType, ServerType, OfferType
  <2>2. c \in OfferType
    BY <1>0, <2>1 DEF OfferType
  <2>3. AskGood(made, c)
    BY <1>2, <2>1 DEF AskGood, ReadGood
  <2> QED BY <2>2, <2>3
<1> HIDE DEF c
<1>4. over \in BOOLEAN
  BY <1>2 DEF HolderType
<1> HIDE DEF over
<1>5. /\ holder' \in HolderType /\ holder'.key = holder.key /\ holder'.epoch = holder.epoch
      /\ holder'.highest = holder.highest /\ holder'.overlap = over
  BY <1>1, <1>2, <1>4 DEF HolderType
<1>6. /\ offer' \in [Tab -> OfferType]
      /\ \A u \in Tab : offer'[u] = IF u = t THEN c ELSE offer[u]
  BY <1>1, <1>2, <1>3
<1>7. \A u \in Tab : offer'[u].at = "asked" => AskGood(made, offer'[u])
  BY <1>2, <1>3, <1>6
<1>8. OneAsks(holder', offer')
  <2> SUFFICES ASSUME ~holder'.overlap PROVE OneAsks(holder', offer')
    BY DEF OneAsks
  <2>1. ~holder.overlap /\ \A u \in Tab : offer[u].at # "asked"
    BY <1>5 DEF over
  <2>2. holder.highest = holder.epoch
    BY <1>2, <2>1 DEF OneAsks
  <2> QED BY <1>3, <1>5, <1>6, <2>1, <2>2 DEF OneAsks
<1>9. HolderGood(made, holder')
  BY <1>2, <1>5 DEF HolderGood
<1> QED BY <1>1, <1>6, <1>7, <1>8, <1>9 DEF ChainInvariant, LineGood, EarlierMade

LEMMA AcceptKeeps ==
  ASSUME ChainInvariant, NEW t \in Tab, Chain!Accept(t)
  PROVE  ChainInvariant'
<1>0. MaxKey \in Nat \ {0} /\ MaxEpoch \in Nat \ {0}
  BY BoundsAssumption
<1> DEFINE c == offer[t]
           w == Chain!Walk(c)
           alarm == IF w.advanced > 0 THEN "none" ELSE IF w.refusal # "none" THEN w.refusal ELSE c.alarm
           rest == [Chain!NoCall EXCEPT !.alarm = alarm]
           top == IF w.epoch > holder.highest THEN w.epoch ELSE holder.highest
<1>1. /\ c.at = "asked" /\ offer' = [offer EXCEPT ![t] = rest]
      /\ holder' = IF w.advanced = 0 THEN holder
                   ELSE [holder EXCEPT !.epoch = w.epoch, !.key = w.key, !.retired = c.key,
                          !.highest = top]
      /\ made' = made /\ keys' = keys /\ oldKeys' = oldKeys
  BY DEF Chain!Accept
<1>2. /\ holder \in HolderType /\ made[holder.key].epoch = holder.epoch
      /\ offer \in [Tab -> OfferType] /\ OneAsks(holder, offer)
      /\ \A u \in Tab : offer[u].at = "asked" => AskGood(made, offer[u])
      /\ LineGood(made)
  BY DEF ChainInvariant, HolderGood
<1>3. AskGood(made, c) /\ c \in OfferType
  BY <1>1, <1>2
<1>4. w \in WalkType /\ made[w.key].epoch = w.epoch /\ (w.advanced > 0 => w.epoch > c.epoch)
  BY <1>2, <1>3, WalkIsRight
<1> HIDE DEF w
<1>5. c.key \in 0 .. MaxKey /\ c.alarm \in Refusals /\ w.refusal \in Refusals /\ w.advanced \in Nat
      /\ w.epoch \in 1 .. MaxEpoch /\ w.key \in 1 .. MaxKey /\ holder.highest \in 1 .. MaxEpoch
      /\ "none" \in Refusals
  BY <1>2, <1>3, <1>4 DEF OfferType, WalkType, HolderType, Refusals
<1>6. alarm \in Refusals /\ top \in 1 .. MaxEpoch
  BY <1>5
<1> HIDE DEF c, alarm
<1>7. rest \in OfferType /\ rest.at = "idle"
  <2>1. Chain!NoRow \in [rot : 0 .. MaxKey, sender : Leader \cup {"none"}, opens : BOOLEAN]
    BY <1>0 DEF Chain!NoRow
  <2>2. Chain!NoCall \in OfferType /\ Chain!NoCall.at = "idle"
    BY <1>0, <2>1 DEF Chain!NoCall, Chain!Epoch, OfferType, WrapsType, Refusals
  <2> QED BY <1>6, <2>2 DEF OfferType
<1> HIDE DEF rest, top
<1>8. /\ offer' \in [Tab -> OfferType] /\ \A u \in Tab : offer'[u] = IF u = t THEN rest ELSE offer[u]
  BY <1>1, <1>2, <1>7
<1>9. \A u \in Tab : offer'[u].at = "asked" => AskGood(made, offer'[u])
  BY <1>2, <1>7, <1>8
<1>10. HolderGood(made, holder') /\ holder'.overlap = holder.overlap
       /\ (w.advanced # 0 => holder'.epoch = w.epoch /\ holder'.highest = top)
  <2>1. CASE w.advanced = 0
    BY <1>1, <1>2, <2>1 DEF HolderGood
  <2>2. CASE w.advanced # 0
    <3>1. holder' = [holder EXCEPT !.epoch = w.epoch, !.key = w.key, !.retired = c.key, !.highest = top]
      BY <1>1, <2>2
    <3>2. /\ holder' \in HolderType /\ holder'.epoch = w.epoch /\ holder'.key = w.key
          /\ holder'.highest = top /\ holder'.overlap = holder.overlap
      BY <1>2, <1>5, <1>6, <3>1 DEF HolderType
    <3> QED BY <1>4, <3>2 DEF HolderGood
  <2> QED BY <2>1, <2>2
<1>11. OneAsks(holder', offer')
  <2> SUFFICES ASSUME ~holder'.overlap PROVE OneAsks(holder', offer')
    BY DEF OneAsks
  <2>1. /\ holder.highest = holder.epoch /\ c.epoch = holder.epoch
        /\ \A u \in Tab : offer[u].at = "asked" => u = t
    BY <1>1, <1>2, <1>10 DEF OneAsks, c
  <2>2. \A u \in Tab : offer'[u].at # "asked"
    BY <1>7, <1>8, <2>1
  <2>3. holder'.highest = holder'.epoch
    <3>1. CASE w.advanced = 0
      BY <1>1, <2>1, <3>1
    <3>2. CASE w.advanced # 0
      BY <1>4, <1>5, <1>10, <2>1, <3>2 DEF top
    <3> QED BY <3>1, <3>2
  <2> QED BY <2>2, <2>3 DEF OneAsks
<1> QED BY <1>1, <1>8, <1>9, <1>10, <1>11 DEF ChainInvariant, LineGood, EarlierMade

(* Server, devices and tabs agree on the keys made, each confirmed on an   *)
(* earlier one (epoch-chain.ts, epoch-intake.ts, acceptIncomingEpoch).     *)
THEOREM ChainInvariantHolds == Chain!Spec => []ChainInvariant
<1>1. ASSUME ChainInvariant, [Chain!Next]_(Chain!vars) PROVE ChainInvariant'
  <2>1. CASE UNCHANGED Chain!vars
    BY <1>1, <2>1 DEF Chain!vars, ChainInvariant, LineGood, EarlierMade
  <2>2. CASE Chain!Next
    <3>1. ASSUME NEW s \in Leader, NEW e \in Chain!Epoch, NEW reached \in BOOLEAN,
                 Chain!Rotate(s, e, reached)
          PROVE  ChainInvariant'
      BY <1>1, <3>1, KeyChangeKeeps
    <3>2. ASSUME NEW s \in Leader, Chain!Pin(s) PROVE ChainInvariant'
      BY <1>1, <3>2, PinnedKeeps
    <3>3. ASSUME NEW t \in Tab, NEW lists \in SUBSET Leader, Chain!Ask(t, lists) PROVE ChainInvariant'
      BY <1>1, <3>3, AskKeeps
    <3>4. ASSUME NEW t \in Tab, Chain!Accept(t) PROVE ChainInvariant'
      BY <1>1, <3>4, AcceptKeeps
    <3>5. ASSUME \/ Chain!Restore
                 \/ \E e \in Chain!Epoch : Chain!HarmConfirm(e) \/ Chain!HarmRow(e)
                 \/ \E s \in Leader : Chain!HarmKey(s)
          PROVE  ChainInvariant'
      BY <1>1, <3>5, RowsHarmKeeps
    <3> QED BY <2>2, <3>1, <3>2, <3>3, <3>4, <3>5 DEF Chain!Next
  <2> QED BY <1>1, <2>1, <2>2
<1> QED BY <1>1, ChainStarts, PTL DEF Chain!Spec

(* A device comes to a new key along confirmed links only, to the one in   *)
(* force where the line is whole, and aloud where it strays; the epoch it  *)
(* holds only rises while one tab asks at a time.                          *)
THEOREM EpochsConfirmed == Chain!Spec => []Chain!EpochsAreConfirmed
  BY ChainInvariantHolds, ChainRight, PTL

(* The device holds the key of its epoch, and its records keep their shape.*)
THEOREM ChainTypeOK == Chain!Spec => []Chain!TypeOK
<1>1. ChainInvariant => Chain!TypeOK
  <2>1. MaxKey \in Nat
    BY BoundsAssumption
  <2> QED BY <2>1 DEF ChainInvariant, HolderGood, HolderType, Chain!TypeOK, Chain!Epoch, Chain!Key
<1> QED BY <1>1, ChainInvariantHolds, PTL

-----------------------------------------------------------------------------
(* Intake: every operation is one row.                                     *)

In(list, o, n) == \E i \in 1 .. Len(list) : list[i].op = {o} /\ list[i].seq = n

(* On the server, on its way to a device, or behind a device's cursor.     *)
Placed(list, rd, pt, o, n) ==
  \/ In(list, o, n)
  \/ \E d \in Device : In(pt[d].rows, o, n) \/ \E r \in Round : In(rd[d][r].page, o, n)

Queued(dk, o, d, i) == i \in 1 .. Len(dk[d].outbox) /\ dk[d].outbox[i].op = {o}

Known(dk, o) == \E d \in Device : o \in dk[d].journal

(* It stands in one queue or under one number, and is in a journal.        *)
Once(list, dk, rd, pt) ==
  \A o \in Op :
    /\ \A n, m \in Nat : Placed(list, rd, pt, o, n) /\ Placed(list, rd, pt, o, m) => n = m
    /\ \A n \in Nat : Placed(list, rd, pt, o, n) => Known(dk, o)
    /\ \A d \in Device, i \in Nat : Queued(dk, o, d, i) =>
         /\ Known(dk, o) /\ \A n \in Nat : ~Placed(list, rd, pt, o, n)
         /\ \A e \in Device, j \in Nat : Queued(dk, o, e, j) => d = e /\ i = j

-----------------------------------------------------------------------------
(* Intake: a device that runs one round at a time.                         *)

Start(list, n) == SubSeq(list, 1, n)

IsMark(entry, e) == entry.kind = "checkpoint" /\ entry.dev = e

(* The link of a device after k rows, from the one before them.            *)
EndLink(list, k, e, link) ==
  LET own == {i \in 1 .. k : list[i].kind = "checkpoint" /\ list[i].dev = e}
  IN IF own = {} THEN link
     ELSE [index |-> list[Max(own)].index, digest |-> list[Max(own)].digest]

(* A checkpoint that the rows before it bear out.                          *)
BorneOut(list, i) ==
  /\ list[i].count <= Len(OperationsOf(Start(list, i - 1)))
  /\ list[i].digest.set = ToSet(SubSeq(OperationsOf(Start(list, i - 1)), 1, list[i].count))
  /\ list[i].index > 1 => \E j \in 1 .. (i - 1) :
       list[j].dev = list[i].dev /\ list[j].index = list[i].index - 1

Reported(d, list, alarmed) ==
  \A i \in 1 .. Len(list) :
    list[i].kind = "checkpoint" /\ list[i].dev # d => alarmed \/ BorneOut(list, i)

(* The anchor is what the rows passed make of it.                          *)
Anchored(anchor, list) ==
  /\ anchor.ids = OperationsOf(list)
  /\ \A e \in Device : anchor.chain[e] = EndLink(list, Len(list), e, NoLink)

OneRound(dk, rd) ==
  /\ \A r, s \in Round : rd[r].at # "idle" /\ rd[s].at # "idle" => r = s
  /\ \A r \in Round :
       /\ rd[r].at \in {"fold", "fetch"} => rd[r].cursor = dk.cursor
       /\ rd[r].at # "idle" => rd[r].anchor = dk.anchor

Alone(d, dk, rd, pt) ==
  /\ OneRound(dk, rd)
  /\ Len(pt.rows) = dk.cursor /\ \A i \in 1 .. Len(pt.rows) : pt.rows[i].seq = i
  /\ Anchored(dk.anchor, pt.rows)
  /\ Reported(d, pt.rows, pt.alarmed)

-----------------------------------------------------------------------------
(* Intake: nobody is harmed and every device runs one round at a time.     *)

(* A checkpoint counts the operations of these rows.                       *)
Counts(entry, list) ==
  /\ entry.count = Len(OperationsOf(list))
  /\ entry.digest = Digest(ToSet(OperationsOf(list)))

Linear(list, e, link) ==
  \A i \in 1 .. Len(list) : IsMark(list[i], e) => Follows(list[i], EndLink(list, i - 1, e, link))

HonestRows(list) ==
  /\ \A i \in 1 .. Len(list) : list[i].kind = "checkpoint" =>
       \E m \in 0 .. (i - 1) : Counts(list[i], Start(list, m))
  /\ \A e \in Device : Linear(list, e, NoLink)

HonestQueue(list, e, dk) ==
  /\ \A i \in 1 .. Len(dk.outbox) :
       /\ dk.outbox[i].dev = e
       /\ dk.outbox[i].kind = "checkpoint" =>
            \E m \in 0 .. Len(list) : Counts(dk.outbox[i], Start(list, m))
  /\ Linear(dk.outbox, e, EndLink(list, Len(list), e, NoLink))
  /\ dk.anchor.own = EndLink(dk.outbox, Len(dk.outbox), e, EndLink(list, Len(list), e, NoLink))

Honest(list, dk, pt) ==
  /\ HonestRows(list)
  /\ \A e \in Device :
       /\ HonestQueue(list, e, dk[e])
       /\ pt[e].rows = Start(list, dk[e].cursor) /\ ~pt[e].alarmed

AlarmInvariant ==
  /\ Once(rows, disk, round, past)
  /\ \A d \in Device : ~past[d].overlap => Alone(d, disk[d], round[d], past[d])
  /\ faults = 0 /\ Serial => Honest(rows, disk, past)
-----------------------------------------------------------------------------
(* What is picked of a list.                                               *)

(* Numbers that are moved along are as many as before.                     *)
LEMMA ShiftedCount ==
  ASSUME NEW n \in Nat, NEW T \in SUBSET (1 .. n), NEW c \in Nat
  PROVE  IsFiniteSet(T) /\ IsFiniteSet({c + j : j \in T})
         /\ Cardinality({c + j : j \in T}) = Cardinality(T)
<1> DEFINE D == {c + j : j \in T}
           f == [j \in T |-> c + j]
<1>1. IsFiniteSet(T)
  BY RankFacts
<1>2. \A j \in T : j \in Int
  OBVIOUS
<1>3. f \in Bijection(T, D)
  <2>1. f \in [T -> D]
    OBVIOUS
  <2>2. \A i, j \in T : f[i] = f[j] => i = j
    BY <1>2
  <2>3. \A x \in D : \E j \in T : f[j] = x
    OBVIOUS
  <2> HIDE DEF f, D
  <2> QED BY <2>1, <2>2, <2>3 DEF Bijection, Injection, IsInjective, Surjection
<1> HIDE DEF f, D
<1>4. IsFiniteSet(D) /\ Cardinality(D) = Cardinality(T)
  BY <1>1, <1>3, FS_Bijection, FS_SameCardinalityBij DEF ExistsBijection
<1> QED BY <1>1, <1>4 DEF D

(* Places of two lists one behind the other.                               *)
PlacesOf(s, t, P, A, B) ==
  /\ P \in SUBSET DOMAIN (s \o t)
  /\ A = {i \in 1 .. Len(s) : i \in P}
  /\ B = {j \in 1 .. Len(t) : Len(s) + j \in P}

(* What is picked there.                                                   *)
LEMMA PickedConcat ==
  ASSUME NEW S, NEW s \in Seq(S), NEW t \in Seq(S), NEW P, NEW A, NEW B, PlacesOf(s, t, P, A, B)
  PROVE  Picked(s \o t, P) = Picked(s, A) \o Picked(t, B)
<1> DEFINE m == Len(s)
           n == Len(t)
           st == s \o t
           C == {m + j : j \in B}
<1>0. P \in SUBSET DOMAIN st /\ A = {i \in 1 .. m : i \in P} /\ B = {j \in 1 .. n : m + j \in P}
  BY DEF PlacesOf
<1>1. m \in Nat /\ n \in Nat /\ DOMAIN s = 1 .. m /\ DOMAIN t = 1 .. n
      /\ st \in Seq(S) /\ Len(st) = m + n /\ DOMAIN st = 1 .. (m + n)
      /\ \A i \in 1 .. (m + n) : st[i] = IF i <= m THEN s[i] ELSE t[i - m]
  BY ConcatProperties, LenProperties
<1>2. A \in SUBSET (1 .. m) /\ B \in SUBSET (1 .. n) /\ P \in SUBSET (1 .. (m + n))
  BY <1>0, <1>1
<1> HIDE DEF m, n, st
<1>3. A \cup C = P /\ A \cap C = {} /\ \A i \in A : i <= m
  <2>1. ASSUME NEW i \in P PROVE i \in A \/ i \in C
    <3>1. CASE i <= m
      BY <1>0, <1>1, <1>2, <3>1
    <3>2. CASE ~(i <= m)
      <4>1. i - m \in 1 .. n /\ m + (i - m) = i
        BY <1>1, <1>2, <3>2
      <4>2. i - m \in B
        BY <1>0, <4>1
      <4> QED BY <4>1, <4>2
    <3> QED BY <3>1, <3>2
  <2>2. \A j \in B : m + j \in P /\ m + j > m
    BY <1>0, <1>1, <1>2
  <2>3. \A i \in A : i \in P /\ i <= m
    BY <1>0, <1>1, <1>2
  <2>4. \A i \in A : i \in Int
    BY <1>2
  <2> QED BY <1>1, <2>1, <2>2, <2>3, <2>4
<1>4. /\ IsFiniteSet(A) /\ IsFiniteSet(B) /\ IsFiniteSet(C) /\ Cardinality(C) = Cardinality(B)
      /\ Cardinality(A) \in Nat /\ Cardinality(B) \in Nat
  BY <1>1, <1>2, ShiftedCount, RankFacts
<1>5. Cardinality(P) = Cardinality(A) + Cardinality(B)
  <2>1. Cardinality(A \cap C) = 0
    BY <1>3, FS_EmptySet
  <2> HIDE DEF C
  <2>2. Cardinality(A \cup C) = Cardinality(A) + Cardinality(C) - Cardinality(A \cap C)
    BY <1>4, FS_Union
  <2>3. Cardinality(P) = Cardinality(A \cup C)
    BY <1>3
  <2> QED BY <1>4, <2>1, <2>2, <2>3
<1>6. ASSUME NEW i \in A PROVE Rank(P, i) = Rank(A, i) /\ i \in P
  <2>1. \A x \in C : x > m
    BY <1>1, <1>2
  <2>2. i <= m /\ i \in Int /\ \A x \in A : x \in Int
    BY <1>1, <1>2
  <2>3. {x \in P : x <= i} = {x \in A : x <= i}
    <3>1. \A x \in C : x \in Int
      BY <1>1, <1>2
    <3> HIDE DEF C
    <3> QED BY <1>1, <1>3, <2>1, <2>2, <3>1
  <2> QED BY <1>3, <2>3 DEF Rank
<1>7. ASSUME NEW j \in B PROVE Rank(P, m + j) = Cardinality(A) + Rank(B, j) /\ m + j \in P
  <2> DEFINE T == {x \in B : x <= j}
             D == {m + x : x \in T}
  <2>1. T \in SUBSET (1 .. n) /\ j \in Int /\ \A x \in B : x \in Int
    <3>1. \A x \in B : x \in 1 .. n /\ x \in Int
      BY <1>1, <1>2
    <3> QED BY <3>1
  <2>2. IsFiniteSet(D) /\ Cardinality(D) = Cardinality(T) /\ Cardinality(T) \in Nat
    <3> HIDE DEF T
    <3> QED BY <1>1, <2>1, ShiftedCount, FS_CardinalityType
  <2>3. {x \in P : x <= m + j} = A \cup D
    <3>1. ASSUME NEW x \in A PROVE x \in P /\ x <= m + j
      BY <1>1, <1>2, <1>3, <3>1
    <3>2. ASSUME NEW x \in B PROVE m + x <= m + j <=> x <= j
      BY <1>1, <2>1
    <3>3. \A x \in P : x \in A \/ \E k \in B : x = m + k
      BY <1>3
    <3>4. \A k \in B : m + k \in P
      BY <1>3
    <3>5. ASSUME NEW x \in P, x <= m + j PROVE x \in A \/ x \in D
      <4>1. CASE x \in A
        BY <4>1
      <4>2. CASE \E k \in B : x = m + k
        BY <3>2, <3>5, <4>2
      <4> QED BY <3>3, <4>1, <4>2
    <3>6. ASSUME NEW x \in D PROVE x \in P /\ x <= m + j
      BY <3>2, <3>4
    <3> QED BY <3>1, <3>5, <3>6
  <2>4. A \cap D = {}
    <3>1. D \subseteq C
      OBVIOUS
    <3> QED BY <1>3, <3>1
  <2>5. Cardinality(A \cup D) = Cardinality(A) + Cardinality(D)
    <3>1. Cardinality(A \cap D) = 0
      BY <2>4, FS_EmptySet
    <3>2. Cardinality(A \cup D) = Cardinality(A) + Cardinality(D) - Cardinality(A \cap D)
      <4> HIDE DEF D
      <4> QED BY <1>4, <2>2, FS_Union
    <3> QED BY <1>4, <2>2, <3>1, <3>2
  <2>6. Rank(P, m + j) = Cardinality(A \cup D) /\ Rank(B, j) = Cardinality(T)
    BY <2>3 DEF Rank
  <2> QED BY <1>3, <2>2, <2>5, <2>6
<1> HIDE DEF C
<1> DEFINE u == Picked(s, A)
           v == Picked(t, B)
           w == Picked(st, P)
<1>8. /\ u \in Seq(S) /\ v \in Seq(S) /\ w \in Seq(S)
      /\ Len(u) = Cardinality(A) /\ Len(v) = Cardinality(B) /\ Len(w) = Cardinality(P)
      /\ \A k \in 1 .. Len(u) : Place(A, k) \in A /\ u[k] = s[Place(A, k)]
      /\ \A k \in 1 .. Len(v) : Place(B, k) \in B /\ v[k] = t[Place(B, k)]
      /\ \A k \in 1 .. Len(w) : Place(P, k) \in P /\ w[k] = st[Place(P, k)]
  <2>1. A \in SUBSET DOMAIN s /\ B \in SUBSET DOMAIN t /\ P \in SUBSET DOMAIN st
    BY <1>1, <1>2
  <2>2. u \in Seq(S) /\ v \in Seq(S) /\ w \in Seq(S)
    BY <1>1, <2>1, PickedElements
  <2>3. /\ Len(u) = Cardinality(A)
        /\ \A k \in 1 .. Len(u) : Place(A, k) \in A /\ u[k] = s[Place(A, k)]
    BY <2>1, PickedOrder
  <2>4. /\ Len(v) = Cardinality(B)
        /\ \A k \in 1 .. Len(v) : Place(B, k) \in B /\ v[k] = t[Place(B, k)]
    BY <2>1, PickedOrder
  <2>5. /\ Len(w) = Cardinality(P)
        /\ \A k \in 1 .. Len(w) : Place(P, k) \in P /\ w[k] = st[Place(P, k)]
    BY <1>1, <2>1, PickedOrder
  <2> QED BY <2>2, <2>3, <2>4, <2>5
<1>9. /\ u \o v \in Seq(S) /\ Len(u \o v) = Len(u) + Len(v)
      /\ \A k \in 1 .. Len(u) + Len(v) :
           (u \o v)[k] = IF k <= Len(u) THEN u[k] ELSE v[k - Len(u)]
  <2>1. u \in Seq(S) /\ v \in Seq(S)
    BY <1>8
  <2> HIDE DEF u, v
  <2> QED BY <2>1, ConcatProperties
<1>10. /\ \A k \in 1 .. Cardinality(A) : Rank(A, Place(A, k)) = k
       /\ \A k \in 1 .. Cardinality(B) : Rank(B, Place(B, k)) = k
       /\ \A i \in P : Place(P, Rank(P, i)) = i
  <2>1. m + n \in Nat
    BY <1>1
  <2> QED BY <1>1, <1>2, <2>1, PlaceFacts
<1> HIDE DEF u, v, w
<1>11. ASSUME NEW k \in 1 .. Len(w) PROVE w[k] = (u \o v)[k]
  <2>1. CASE k <= Len(u)
    <3> DEFINE i == Place(A, k)
    <3>1. k \in 1 .. Len(u) /\ k \in 1 .. Len(u) + Len(v)
      BY <1>4, <1>8, <2>1
    <3>2. i \in A /\ u[k] = s[i] /\ Rank(A, i) = k
      BY <1>8, <1>10, <3>1
    <3> HIDE DEF i
    <3>3. Rank(P, i) = k /\ i \in P
      BY <1>6, <3>2
    <3>4. Place(P, k) = i
      BY <1>10, <3>3
    <3>5. st[i] = s[i]
      BY <1>1, <1>2, <1>3, <3>2
    <3> QED BY <1>8, <1>9, <2>1, <3>1, <3>2, <3>4, <3>5
  <2>2. CASE ~(k <= Len(u))
    <3> DEFINE l == k - Len(u)
               j == Place(B, l)
    <3>1. l \in 1 .. Len(v) /\ k \in 1 .. Len(u) + Len(v) /\ Cardinality(A) + l = k
      BY <1>4, <1>5, <1>8, <2>2
    <3>2. j \in B /\ v[l] = t[j] /\ Rank(B, j) = l
      BY <1>8, <1>10, <3>1
    <3> HIDE DEF j
    <3>3. Rank(P, m + j) = k /\ m + j \in P
      BY <1>7, <3>1, <3>2
    <3>4. Place(P, k) = m + j
      BY <1>10, <3>3
    <3>5. st[m + j] = t[j]
      BY <1>1, <1>2, <3>2
    <3> QED BY <1>8, <1>9, <2>2, <3>1, <3>2, <3>4, <3>5
  <2> QED BY <2>1, <2>2
<1>12. Len(w) = Len(u \o v)
  BY <1>5, <1>8, <1>9
<1>13. w = u \o v
  BY <1>8, <1>9, <1>11, <1>12, SeqEqual
<1> QED BY <1>13 DEF u, v, w, st

-----------------------------------------------------------------------------
(* Intake: the start of a list, and its operations.                        *)

LEMMA StartFacts ==
  ASSUME NEW S, NEW list \in Seq(S), NEW n \in 0 .. Len(list)
  PROVE  /\ Start(list, n) \in Seq(S) /\ Len(Start(list, n)) = n
         /\ \A i \in 1 .. n : Start(list, n)[i] = list[i]
<1>1. n \in Nat /\ n <= Len(list) /\ 1 \in Nat /\ 1 <= 1 /\ Len(list) \in Nat
  BY LenProperties
<1>2. /\ Start(list, n) \in Seq(S)
      /\ Len(Start(list, n)) = IF 1 <= n THEN n - 1 + 1 ELSE 0
      /\ \A i \in 1 .. Len(Start(list, n)) : Start(list, n)[i] = list[1 + i - 1]
  BY <1>1, PartOf DEF Start
<1>3. Len(Start(list, n)) = n
  BY <1>1, <1>2
<1>4. \A i \in 1 .. n : 1 + i - 1 = i
  BY <1>1
<1> QED BY <1>2, <1>3, <1>4

(* What a list starts with when it is made of two.                         *)
LEMMA StartOfJoined ==
  ASSUME NEW S, NEW list \in Seq(S), NEW more \in Seq(S), NEW n \in 0 .. Len(list)
  PROVE  Start(list \o more, n) = Start(list, n)
<1>1. /\ list \o more \in Seq(S) /\ Len(list \o more) = Len(list) + Len(more)
      /\ \A i \in 1 .. Len(list) + Len(more) :
           (list \o more)[i] = IF i <= Len(list) THEN list[i] ELSE more[i - Len(list)]
      /\ Len(list) \in Nat /\ Len(more) \in Nat
  BY ConcatProperties, LenProperties
<1> DEFINE u == list \o more
<1>2. n \in 0 .. Len(u) /\ \A i \in 1 .. n : u[i] = list[i]
  BY <1>1
<1> HIDE DEF u
<1>3. u \in Seq(S)
  BY <1>1 DEF u
<1>4. /\ Start(u, n) \in Seq(S) /\ Len(Start(u, n)) = n
      /\ \A i \in 1 .. n : Start(u, n)[i] = u[i]
  BY <1>2, <1>3, StartFacts
<1>5. /\ Start(list, n) \in Seq(S) /\ Len(Start(list, n)) = n
      /\ \A i \in 1 .. n : Start(list, n)[i] = list[i]
  BY StartFacts
<1>6. Start(u, n) = Start(list, n)
  BY <1>2, <1>4, <1>5, SeqEqual
<1> QED BY <1>6 DEF u

LEMMA StartJoined ==
  ASSUME NEW S, NEW list \in Seq(S), NEW n \in 0 .. Len(list), NEW m \in 0 .. n
  PROVE  /\ SubSeq(list, m + 1, n) \in Seq(S)
         /\ Start(list, n) = Start(list, m) \o SubSeq(list, m + 1, n)
<1>1. m \in 0 .. Len(list) /\ m \in Nat /\ n \in Nat /\ n <= Len(list) /\ Len(list) \in Nat
      /\ m + 1 \in Nat /\ 1 <= m + 1
  BY LenProperties
<1> DEFINE s == Start(list, m)
           t == SubSeq(list, m + 1, n)
           u == Start(list, n)
<1>2. s \in Seq(S) /\ Len(s) = m /\ \A i \in 1 .. m : s[i] = list[i]
  BY <1>1, StartFacts
<1>3. u \in Seq(S) /\ Len(u) = n /\ \A i \in 1 .. n : u[i] = list[i]
  BY StartFacts
<1>4. /\ t \in Seq(S) /\ Len(t) = IF m + 1 <= n THEN n - (m + 1) + 1 ELSE 0
      /\ \A i \in 1 .. Len(t) : t[i] = list[m + 1 + i - 1]
  BY <1>1, PartOf
<1> HIDE DEF s, t, u
<1>5. Len(t) = n - m /\ \A i \in 1 .. (n - m) : t[i] = list[m + i]
  <2>1. Len(t) = n - m
    BY <1>1, <1>4
  <2>2. \A i \in 1 .. (n - m) : m + 1 + i - 1 = m + i
    BY <1>1
  <2> QED BY <1>4, <2>1, <2>2
<1>6. /\ s \o t \in Seq(S) /\ Len(s \o t) = Len(s) + Len(t)
      /\ \A i \in 1 .. Len(s) + Len(t) : (s \o t)[i] = IF i <= Len(s) THEN s[i] ELSE t[i - Len(s)]
  BY <1>2, <1>4, ConcatProperties
<1>7. Len(s \o t) = n
  BY <1>1, <1>2, <1>5, <1>6
<1>8. \A i \in 1 .. n : (s \o t)[i] = list[i]
  <2> TAKE i \in 1 .. n
  <2>1. i \in 1 .. Len(s) + Len(t)
    BY <1>1, <1>2, <1>5
  <2>2. CASE i <= m
    BY <1>1, <1>2, <1>6, <2>1, <2>2
  <2>3. CASE ~(i <= m)
    <3>1. i - m \in 1 .. (n - m) /\ m + (i - m) = i
      BY <1>1, <2>3
    <3> QED BY <1>2, <1>5, <1>6, <2>1, <2>3, <3>1
  <2> QED BY <2>2, <2>3
<1>9. u = s \o t
  BY <1>3, <1>6, <1>7, <1>8, SeqEqual
<1> QED BY <1>4, <1>9 DEF s, t, u

(* The beginning of two lists joined is the first.                         *)
LEMMA StartIsFirst ==
  ASSUME NEW S, NEW s \in Seq(S), NEW t \in Seq(S)
  PROVE  Len(s) <= Len(s \o t) /\ SubSeq(s \o t, 1, Len(s)) = s
<1>1. Len(s) \in Nat /\ Len(t) \in Nat /\ Len(s) \in 0 .. Len(s) /\ Len(s \o t) = Len(s) + Len(t)
  BY LenProperties, ConcatProperties
<1>2. Start(s \o t, Len(s)) = Start(s, Len(s))
  BY <1>1, StartOfJoined
<1>3. /\ Start(s, Len(s)) \in Seq(S) /\ Len(Start(s, Len(s))) = Len(s)
      /\ \A i \in 1 .. Len(s) : Start(s, Len(s))[i] = s[i]
  BY <1>1, StartFacts
<1>4. Start(s, Len(s)) = s
  BY <1>3, SeqEqual
<1> QED BY <1>1, <1>2, <1>4 DEF Start

(* Operations of lists one behind the other.                               *)
LEMMA OperationsJoined ==
  ASSUME NEW s \in Seq(RowType), NEW t \in Seq(RowType)
  PROVE  OperationsOf(s \o t) = OperationsOf(s) \o OperationsOf(t)
<1> DEFINE st == s \o t
           P == {i \in DOMAIN st : st[i].kind = "operation"}
           A == {i \in DOMAIN s : s[i].kind = "operation"}
           B == {i \in DOMAIN t : t[i].kind = "operation"}
           u == Picked(s, A)
           v == Picked(t, B)
           w == Picked(st, P)
           Only(entry) == CHOOSE o \in entry.op : TRUE
<1>1. /\ st \in Seq(RowType) /\ Len(st) = Len(s) + Len(t) /\ DOMAIN st = 1 .. Len(st)
      /\ \A i \in 1 .. Len(s) + Len(t) : st[i] = IF i <= Len(s) THEN s[i] ELSE t[i - Len(s)]
      /\ Len(s) \in Nat /\ Len(t) \in Nat /\ DOMAIN s = 1 .. Len(s) /\ DOMAIN t = 1 .. Len(t)
  BY ConcatProperties, LenProperties
<1>2. A = {i \in 1 .. Len(s) : i \in P}
  <2>1. \A i \in 1 .. Len(s) : i \in DOMAIN st /\ st[i] = s[i]
    BY <1>1
  <2> QED BY <1>1, <2>1
<1>3. B = {j \in 1 .. Len(t) : Len(s) + j \in P}
  <2>1. ASSUME NEW j \in 1 .. Len(t) PROVE Len(s) + j \in DOMAIN st /\ st[Len(s) + j] = t[j]
    <3>1. Len(s) + j \in 1 .. Len(s) + Len(t) /\ ~(Len(s) + j <= Len(s)) /\ Len(s) + j - Len(s) = j
      BY <1>1
    <3> QED BY <1>1, <3>1
  <2> HIDE DEF st
  <2> QED BY <1>1, <2>1
<1>4. P \in SUBSET DOMAIN st /\ A \in SUBSET DOMAIN s /\ B \in SUBSET DOMAIN t
  OBVIOUS
<1>5. w = u \o v
  <2> HIDE DEF P, A, B, u, v, w
  <2>1. PlacesOf(s, t, P, A, B)
    BY <1>2, <1>3, <1>4 DEF PlacesOf
  <2>2. Picked(s \o t, P) = Picked(s, A) \o Picked(t, B)
    BY <2>1, PickedConcat
  <2> QED BY <2>2 DEF u, v, w
<1>6. /\ OperationsOf(s) = [k \in DOMAIN u |-> Only(u[k])]
      /\ OperationsOf(t) = [k \in DOMAIN v |-> Only(v[k])]
      /\ OperationsOf(st) = [k \in DOMAIN w |-> Only(w[k])]
  BY DEF OperationsOf
<1>7. u \in Seq(RowType) /\ v \in Seq(RowType)
  <2> HIDE DEF P, A, B
  <2> QED BY <1>4, PickedElements
<1> HIDE DEF P, A, B, u, v, w
<1>8. /\ u \o v \in Seq(RowType) /\ Len(u \o v) = Len(u) + Len(v)
      /\ \A i \in 1 .. Len(u) + Len(v) : (u \o v)[i] = IF i <= Len(u) THEN u[i] ELSE v[i - Len(u)]
  BY <1>7, ConcatProperties
<1>9. /\ Len(u) \in Nat /\ Len(v) \in Nat /\ DOMAIN u = 1 .. Len(u) /\ DOMAIN v = 1 .. Len(v)
      /\ DOMAIN w = 1 .. Len(u) + Len(v)
  BY <1>5, <1>7, <1>8, LenProperties
<1> DEFINE x == OperationsOf(s)
           y == OperationsOf(t)
           z == OperationsOf(st)
<1> HIDE DEF Only
<1>10. /\ x \in Seq(Op) /\ y \in Seq(Op) /\ z \in Seq(Op)
  <2> HIDE DEF st
  <2> QED BY <1>1, OperationsTyped
<1> HIDE DEF x, y, z, st
<1>11. /\ Len(x) = Len(u) /\ Len(y) = Len(v) /\ Len(z) = Len(u) + Len(v)
       /\ \A k \in 1 .. Len(u) : x[k] = Only(u[k])
       /\ \A k \in 1 .. Len(v) : y[k] = Only(v[k])
       /\ \A k \in 1 .. Len(u) + Len(v) : z[k] = Only((u \o v)[k])
  <2>1. x = [k \in 1 .. Len(u) |-> Only(u[k])]
    BY <1>6, <1>9 DEF x
  <2>2. y = [k \in 1 .. Len(v) |-> Only(v[k])]
    BY <1>6, <1>9 DEF y
  <2>3. z = [k \in 1 .. Len(u) + Len(v) |-> Only((u \o v)[k])]
    BY <1>5, <1>6, <1>9 DEF z
  <2>4. DOMAIN x = 1 .. Len(x) /\ DOMAIN y = 1 .. Len(y) /\ DOMAIN z = 1 .. Len(z)
        /\ Len(x) \in Nat /\ Len(y) \in Nat /\ Len(z) \in Nat
    BY <1>10, LenProperties
  <2>5. Len(u) + Len(v) \in Nat
    BY <1>9
  <2>6. Len(x) = Len(u)
    BY <1>9, <2>1, <2>4
  <2>7. Len(y) = Len(v)
    BY <1>9, <2>2, <2>4
  <2>8. Len(z) = Len(u) + Len(v)
    BY <1>9, <2>3, <2>4, <2>5
  <2> QED BY <2>1, <2>2, <2>3, <2>6, <2>7, <2>8
<1>12. /\ x \o y \in Seq(Op) /\ Len(x \o y) = Len(x) + Len(y)
       /\ \A i \in 1 .. Len(x) + Len(y) : (x \o y)[i] = IF i <= Len(x) THEN x[i] ELSE y[i - Len(x)]
  BY <1>10, ConcatProperties
<1>13. ASSUME NEW k \in 1 .. Len(z) PROVE z[k] = (x \o y)[k]
  <2>1. CASE k <= Len(u)
    BY <1>8, <1>9, <1>11, <1>12, <2>1
  <2>2. CASE ~(k <= Len(u))
    <3>1. k - Len(u) \in 1 .. Len(v)
      BY <1>9, <1>11, <2>2
    <3> QED BY <1>8, <1>9, <1>11, <1>12, <2>2, <3>1
  <2> QED BY <2>1, <2>2
<1>14. z = x \o y
  BY <1>10, <1>11, <1>12, <1>13, SeqEqual
<1> QED BY <1>14 DEF x, y, z, st

(* Operations of the beginning are the beginning of the operations.        *)
LEMMA OperationsPrefix ==
  ASSUME NEW list \in Seq(RowType), NEW n \in 0 .. Len(list), NEW m \in 0 .. n,
         NEW all, all = OperationsOf(Start(list, n)), NEW some, some = OperationsOf(Start(list, m))
  PROVE  Len(some) <= Len(all) /\ SubSeq(all, 1, Len(some)) = some
<1> DEFINE t == SubSeq(list, m + 1, n)
<1>1. m \in 0 .. Len(list)
  BY LenProperties
<1>2. t \in Seq(RowType) /\ Start(list, n) = Start(list, m) \o t
  BY StartJoined
<1>3. Start(list, m) \in Seq(RowType)
  BY <1>1, StartFacts
<1> HIDE DEF t
<1>4. all = some \o OperationsOf(t)
  BY <1>2, <1>3, OperationsJoined
<1>5. some \in Seq(Op) /\ OperationsOf(t) \in Seq(Op)
  BY <1>2, <1>3, OperationsTyped
<1> QED BY <1>4, <1>5, StartIsFirst

(* What is picked of a list for its kind has the operations it starts with.*)
LEMMA OperationsOfPicked ==
  ASSUME NEW list \in Seq(RowType), NEW k \in 0 .. Len(list),
         NEW P, P = {i \in 1 .. k : list[i].kind = "operation"}
  PROVE  OperationsOf(Picked(list, P)) = OperationsOf(Start(list, k))
<1> DEFINE s == Start(list, k)
           own == Picked(list, P)
           Only(entry) == CHOOSE o \in entry.op : TRUE
<1>1. k \in Nat /\ DOMAIN list = 1 .. Len(list) /\ P \in SUBSET (1 .. k) /\ P \in SUBSET DOMAIN list
  BY LenProperties
<1>2. /\ s \in Seq(RowType) /\ Len(s) = k /\ DOMAIN s = 1 .. k
      /\ \A i \in 1 .. k : s[i] = list[i]
  <2>1. s \in Seq(RowType) /\ Len(s) = k /\ \A i \in 1 .. k : s[i] = list[i]
    BY StartFacts
  <2> HIDE DEF s
  <2>2. DOMAIN s = 1 .. Len(s)
    BY <2>1, LenProperties
  <2> QED BY <2>1, <2>2
<1> HIDE DEF s
<1>3. {i \in DOMAIN s : s[i].kind = "operation"} = P
  BY <1>2
<1>4. Picked(s, P) = own
  <2>1. \A j \in 1 .. Cardinality(P) : Place(P, j) \in P
    BY <1>1, PlaceFacts
  <2>2. \A j \in 1 .. Cardinality(P) : s[Place(P, j)] = list[Place(P, j)]
    BY <1>1, <1>2, <2>1
  <2> QED BY <2>2 DEF Picked
<1>5. own \in Seq(RowType) /\ \A j \in DOMAIN own : \E i \in P : own[j] = list[i]
  <2>1. own \in Seq(RowType)
    BY <1>1, PickedElements
  <2>2. \A j \in 1 .. Len(own) : Place(P, j) \in P /\ own[j] = list[Place(P, j)]
    BY <1>1, PickedOrder
  <2> HIDE DEF own
  <2>3. DOMAIN own = 1 .. Len(own)
    BY <2>1, LenProperties
  <2> QED BY <2>1, <2>2, <2>3
<1> HIDE DEF own
<1>6. DOMAIN own = 1 .. Len(own) /\ Len(own) \in Nat
  BY <1>5, LenProperties
<1>7. \A j \in DOMAIN own : own[j].kind = "operation"
  BY <1>5
<1>8. {j \in DOMAIN own : own[j].kind = "operation"} = 1 .. Len(own)
  BY <1>6, <1>7
<1>9. Picked(own, 1 .. Len(own)) = own
  <2> DEFINE n == Len(own)
             w == Picked(own, 1 .. n)
  <2>1. n \in Nat /\ 0 \in Nat /\ 0 <= n /\ n <= Len(own) /\ 0 + 1 = 1 /\ n - 0 = n
    BY <1>6
  <2>2. /\ Len(Picked(own, (0 + 1) .. n)) = n - 0
        /\ \A j \in 1 .. n - 0 : Picked(own, (0 + 1) .. n)[j] = own[0 + j]
    <3> HIDE DEF n
    <3> QED BY <1>5, <2>1, PickedInterval
  <2>3. Len(w) = n /\ \A j \in 1 .. n : w[j] = own[j]
    <3> HIDE DEF n
    <3>1. \A j \in 1 .. n : 0 + j = j
      BY <2>1
    <3> QED BY <2>1, <2>2, <3>1
  <2>4. w \in Seq(RowType)
    <3>1. 1 .. n \in SUBSET DOMAIN own
      BY <1>6
    <3> HIDE DEF n
    <3> QED BY <1>5, <3>1, PickedElements
  <2> HIDE DEF w
  <2>5. w = own
    BY <1>5, <2>3, <2>4, SeqEqual
  <2> QED BY <2>5 DEF w
<1>10. OperationsOf(own) = [j \in DOMAIN own |-> Only(own[j])]
  <2> DEFINE Q == {j \in DOMAIN own : own[j].kind = "operation"}
  <2>1. OperationsOf(own) = [j \in DOMAIN Picked(own, Q) |-> Only(Picked(own, Q)[j])]
    BY DEF OperationsOf
  <2> HIDE DEF Q, Only
  <2>2. Picked(own, Q) = own
    BY <1>8, <1>9 DEF Q
  <2> QED BY <2>1, <2>2
<1>11. OperationsOf(s) = [j \in DOMAIN own |-> Only(own[j])]
  <2> DEFINE Q == {j \in DOMAIN s : s[j].kind = "operation"}
  <2>1. OperationsOf(s) = [j \in DOMAIN Picked(s, Q) |-> Only(Picked(s, Q)[j])]
    BY DEF OperationsOf
  <2> HIDE DEF Q, Only
  <2>2. Picked(s, Q) = own
    BY <1>3, <1>4 DEF Q
  <2> QED BY <2>1, <2>2
<1> QED BY <1>10, <1>11 DEF s, own

-----------------------------------------------------------------------------
(* Intake: links.                                                          *)

LinkOf(entry) == [index |-> entry.index, digest |-> entry.digest]

(* Rows that say the same of the chain.                                    *)
Alike(one, other) ==
  /\ one.kind = other.kind /\ one.dev = other.dev /\ one.index = other.index
  /\ one.prev = other.prev /\ one.digest = other.digest

AlikeFrom(list, m, more, n) == \A j \in 1 .. n : Alike(list[m + j], more[j])

(* Row by row.                                                             *)
LEMMA EndLinkNext ==
  ASSUME NEW list, NEW e, NEW link
  PROVE  /\ EndLink(list, 0, e, link) = link
         /\ \A k \in Nat \ {0} : EndLink(list, k, e, link) =
              IF IsMark(list[k], e) THEN LinkOf(list[k]) ELSE EndLink(list, k - 1, e, link)
<1> DEFINE Own(k) == {i \in 1 .. k : list[i].kind = "checkpoint" /\ list[i].dev = e}
           Of(own) == IF own = {} THEN link
                      ELSE [index |-> list[Max(own)].index, digest |-> list[Max(own)].digest]
<1>1. \A k : EndLink(list, k, e, link) = Of(Own(k))
  BY DEF EndLink
<1>2. EndLink(list, 0, e, link) = link
  <2>1. Own(0) = {}
    OBVIOUS
  <2> QED BY <1>1, <2>1
<1>3. ASSUME NEW k \in Nat \ {0}
      PROVE  EndLink(list, k, e, link) =
               IF IsMark(list[k], e) THEN LinkOf(list[k]) ELSE EndLink(list, k - 1, e, link)
  <2>1. CASE IsMark(list[k], e)
    <3> DEFINE own == Own(k)
    <3>1. k \in own /\ own \in SUBSET (1 .. k) /\ k \in Nat
      BY <2>1 DEF IsMark
    <3>2. EndLink(list, k, e, link) = Of(own)
      BY <1>1
    <3> HIDE DEF own
    <3>3. Max(own) \in own /\ k <= Max(own)
      <4>1. own # {} /\ k \in Nat /\ own \in SUBSET (1 .. k)
        BY <3>1
      <4>2. Max(own) \in own /\ \A i \in own : i <= Max(own)
        BY <4>1, GreatestOf
      <4> QED BY <3>1, <4>2
    <3>4. Max(own) = k
      <4>1. Max(own) \in 1 .. k
        BY <3>1, <3>3
      <4>2. \A i \in 1 .. k : k <= i => i = k
        BY <3>1
      <4> QED BY <3>3, <4>1, <4>2
    <3>5. Of(own) = LinkOf(list[k])
      BY <3>1, <3>4 DEF LinkOf
    <3> QED BY <2>1, <3>2, <3>5
  <2>2. CASE ~IsMark(list[k], e)
    <3>1. \A i \in Own(k) : i # k
      BY <2>2 DEF IsMark
    <3>2. \A i : i \in 1 .. (k - 1) <=> i \in 1 .. k /\ i # k
      OBVIOUS
    <3>3. Own(k) = Own(k - 1)
      BY <3>1, <3>2
    <3> HIDE DEF Own, Of
    <3> QED BY <1>1, <2>2, <3>3
  <2> QED BY <2>1, <2>2
<1> QED BY <1>2, <1>3

LEMMA NoMarks ==
  ASSUME NEW list, NEW e, NEW link, NEW k, \A i \in 1 .. k : ~IsMark(list[i], e)
  PROVE  EndLink(list, k, e, link) = link
<1>1. {i \in 1 .. k : list[i].kind = "checkpoint" /\ list[i].dev = e} = {}
  BY DEF IsMark
<1> QED BY <1>1 DEF EndLink

(* A list that goes on like another, from its link.                        *)
LEMMA EndLinkJoined ==
  ASSUME NEW list, NEW more, NEW m \in Nat, NEW n \in Nat, AlikeFrom(list, m, more, n),
         NEW e, NEW link, NEW from, from = EndLink(list, m, e, link)
  PROVE  \A k \in 0 .. n : EndLink(list, m + k, e, link) = EndLink(more, k, e, from)
<1> DEFINE S == {k \in 0 .. n : EndLink(list, m + k, e, link) = EndLink(more, k, e, from)}
<1>1. ASSUME NEW k \in 0 .. n, \A j \in 0 .. (k - 1) : j \in S PROVE k \in S
  <2>1. CASE k = 0
    <3>1. m + k = m
      BY <2>1
    <3>2. EndLink(more, k, e, from) = from
      BY <2>1, EndLinkNext
    <3> QED BY <3>1, <3>2
  <2>2. CASE k # 0
    <3>1. k \in Nat \ {0} /\ m + k \in Nat \ {0} /\ m + k - 1 = m + (k - 1) /\ k \in 1 .. n
          /\ k - 1 \in 0 .. (k - 1)
      BY <2>2
    <3>2. EndLink(list, m + k, e, link) =
            IF IsMark(list[m + k], e) THEN LinkOf(list[m + k]) ELSE EndLink(list, m + k - 1, e, link)
      BY <3>1, EndLinkNext
    <3>3. EndLink(more, k, e, from) =
            IF IsMark(more[k], e) THEN LinkOf(more[k]) ELSE EndLink(more, k - 1, e, from)
      BY <3>1, EndLinkNext
    <3>4. EndLink(list, m + (k - 1), e, link) = EndLink(more, k - 1, e, from)
      BY <1>1, <3>1
    <3>5. /\ IsMark(list[m + k], e) <=> IsMark(more[k], e)
          /\ LinkOf(list[m + k]) = LinkOf(more[k])
      BY <3>1 DEF AlikeFrom, Alike, IsMark, LinkOf
    <3>6. EndLink(list, m + k, e, link) = EndLink(more, k, e, from)
      BY <3>1, <3>2, <3>3, <3>4, <3>5
    <3> QED BY <3>6
  <2> QED BY <2>1, <2>2
<1> HIDE DEF S
<1>2. \A k \in 0 .. n : k \in S
  BY <1>1, EveryNumber
<1> QED BY <1>2 DEF S

LEMMA EndLinkSame ==
  ASSUME NEW list, NEW more, NEW n \in Nat, AlikeFrom(list, 0, more, n), NEW e, NEW link
  PROVE  \A k \in 0 .. n : EndLink(list, k, e, link) = EndLink(more, k, e, link)
<1>1. link = EndLink(list, 0, e, link) /\ 0 \in Nat
  BY EndLinkNext
<1>2. \A k \in 0 .. n : EndLink(list, 0 + k, e, link) = EndLink(more, k, e, link)
  BY <1>1, EndLinkJoined
<1>3. \A k \in 0 .. n : 0 + k = k
  OBVIOUS
<1> QED BY <1>2, <1>3

LinearTo(list, m, e, link) ==
  \A i \in 1 .. m : IsMark(list[i], e) => Follows(list[i], EndLink(list, i - 1, e, link))

LEMMA LinearJoined ==
  ASSUME NEW list, NEW more, NEW m \in Nat, NEW n \in Nat, AlikeFrom(list, m, more, n),
         NEW e, NEW link, NEW from, from = EndLink(list, m, e, link),
         LinearTo(list, m, e, link), LinearTo(more, n, e, from)
  PROVE  LinearTo(list, m + n, e, link)
<1> SUFFICES ASSUME NEW i \in 1 .. (m + n), IsMark(list[i], e)
             PROVE  Follows(list[i], EndLink(list, i - 1, e, link))
  BY DEF LinearTo
<1>1. CASE i <= m
  <2>1. i \in 1 .. m
    BY <1>1
  <2> QED BY <2>1 DEF LinearTo
<1>2. CASE ~(i <= m)
  <2> DEFINE j == i - m
  <2>1. j \in 1 .. n /\ m + j = i /\ j - 1 \in 0 .. n /\ m + (j - 1) = i - 1
    BY <1>2
  <2> HIDE DEF j
  <2>2. Alike(list[i], more[j])
    BY <2>1 DEF AlikeFrom
  <2>3. EndLink(list, i - 1, e, link) = EndLink(more, j - 1, e, from)
    BY <2>1, EndLinkJoined
  <2>4. Follows(more[j], EndLink(more, j - 1, e, from))
    BY <2>1, <2>2 DEF LinearTo, Alike, IsMark
  <2> QED BY <2>2, <2>3, <2>4 DEF Follows, Alike
<1> QED BY <1>1, <1>2

-----------------------------------------------------------------------------
(* Intake: every operation stays one row.                                  *)

Among(part, list) ==
  \A i \in 1 .. Len(part) : \E j \in 1 .. Len(list) :
    part[i].op = list[j].op /\ part[i].seq = list[j].seq

LEMMA AmongIn ==
  ASSUME NEW part, NEW list, Among(part, list), NEW o, NEW n, In(part, o, n)
  PROVE  In(list, o, n)
BY DEF Among, In

LEMMA EmptyIn ==
  ASSUME NEW o, NEW n
  PROVE  ~In(<<>>, o, n)
<1>1. Len(<<>>) = 0
  BY EmptySeq
<1> QED BY <1>1 DEF In

LEMMA JoinedIn ==
  ASSUME NEW list \in Seq(RowType), NEW more \in Seq(RowType), NEW o, NEW n, In(list \o more, o, n)
  PROVE  In(list, o, n) \/ In(more, o, n)
<1>1. /\ Len(list \o more) = Len(list) + Len(more) /\ Len(list) \in Nat /\ Len(more) \in Nat
      /\ \A i \in 1 .. Len(list) + Len(more) :
           (list \o more)[i] = IF i <= Len(list) THEN list[i] ELSE more[i - Len(list)]
  BY ConcatProperties, LenProperties
<1>2. PICK i \in 1 .. Len(list \o more) : (list \o more)[i].op = {o} /\ (list \o more)[i].seq = n
  BY DEF In
<1>3. CASE i <= Len(list)
  <2>1. i \in 1 .. Len(list) /\ (list \o more)[i] = list[i]
    BY <1>1, <1>2, <1>3
  <2> QED BY <1>2, <2>1 DEF In
<1>4. CASE ~(i <= Len(list))
  <2>1. i - Len(list) \in 1 .. Len(more) /\ (list \o more)[i] = more[i - Len(list)]
    BY <1>1, <1>2, <1>4
  <2> QED BY <1>2, <2>1 DEF In
<1> QED BY <1>3, <1>4

(* A part of a list holds rows of the list.                                *)
LEMMA PartIn ==
  ASSUME NEW list \in Seq(RowType), NEW m \in Nat, NEW n \in Nat, 1 <= m, n <= Len(list),
         NEW o, NEW k, In(SubSeq(list, m, n), o, k)
  PROVE  In(list, o, k)
<1>1. /\ Len(SubSeq(list, m, n)) = IF m <= n THEN n - m + 1 ELSE 0
      /\ \A i \in 1 .. Len(SubSeq(list, m, n)) : SubSeq(list, m, n)[i] = list[m + i - 1]
      /\ Len(list) \in Nat
  BY PartOf, LenProperties
<1>2. \A i \in 1 .. Len(SubSeq(list, m, n)) : m + i - 1 \in 1 .. Len(list)
  BY <1>1
<1> QED BY <1>1, <1>2 DEF In

LEMMA PageIn ==
  ASSUME NEW list \in Seq(RowType), NEW after \in Nat, NEW o, NEW n, In(Page(list, after), o, n)
  PROVE  In(list, o, n)
<1> DEFINE P == {i \in DOMAIN list : list[i].seq > after}
           rest == Picked(list, P)
           m == AtMost(Len(rest), Limit)
<1>1. P \in SUBSET DOMAIN list /\ DOMAIN list = 1 .. Len(list)
  BY LenProperties
<1>2. Page(list, after) = SubSeq(rest, 1, m)
  BY DEF Page
<1> HIDE DEF P
<1>3. rest \in Seq(RowType) /\ Len(rest) \in Nat
  BY <1>1, PickedElements, LenProperties
<1>4. \A k \in 1 .. Len(rest) : Place(P, k) \in P /\ rest[k] = list[Place(P, k)]
  BY <1>1, PickedOrder
<1> HIDE DEF rest
<1>5. m \in Nat /\ m <= Len(rest) /\ 1 \in Nat /\ 1 <= 1
  BY <1>3, IntakeLimits DEF AtMost
<1> HIDE DEF m
<1>6. In(rest, o, n)
  BY <1>2, <1>3, <1>5, PartIn
<1>7. Among(rest, list)
  BY <1>1, <1>4 DEF Among
<1> QED BY <1>6, <1>7, AmongIn

(* What a round holds when it goes on.                                     *)
LEMMA AfterPullPage ==
  ASSUME NEW d \in Device, NEW anchor, NEW next \in AfterPull(d, anchor)
  PROVE  next.page = <<>>
<1>1. next = IdleRound \/ next = [IdleRound EXCEPT !.at = "anchored", !.anchor = anchor]
  BY DEF AfterPull
<1>2. IdleRound.page = <<>>
  BY DEF IdleRound
<1>3. [IdleRound EXCEPT !.at = "anchored", !.anchor = anchor].page = <<>>
  BY DEF IdleRound
<1> QED BY <1>1, <1>2, <1>3

LEMMA AskedPage ==
  ASSUME NEW d \in Device, NEW turn \in RoundType, NEW list, NEW next \in Asked(d, turn, list)
  PROVE  next.page = <<>> \/ next.page = Page(list, turn.cursor)
<1>1. CASE Page(list, turn.cursor) = <<>>
  BY <1>1, AfterPullPage DEF Asked
<1>2. CASE Page(list, turn.cursor) # <<>>
  BY <1>2 DEF Asked, RoundType
<1> QED BY <1>1, <1>2

LEMMA AfterPagePage ==
  ASSUME NEW d \in Device, NEW turn \in RoundType, NEW next \in AfterPage(d, turn)
  PROVE  next.page = <<>>
<1>1. CASE Refused(turn) # {} \/ Len(turn.page) < Limit \/ turn.pages >= Pages
  BY <1>1, AfterPullPage DEF AfterPage
<1>2. CASE ~(Refused(turn) # {} \/ Len(turn.page) < Limit \/ turn.pages >= Pages)
  BY <1>2 DEF AfterPage, RoundType
<1> QED BY <1>1, <1>2

(* A step after which there is nothing that was not there.                 *)
Fewer(list, dk, rd, pt, list2, dk2, rd2, pt2) ==
  \A o \in Op :
    /\ Known(dk, o) => Known(dk2, o)
    /\ \A n \in Nat : Placed(list2, rd2, pt2, o, n) => Placed(list, rd, pt, o, n)
    /\ \A d \in Device, i \in Nat : Queued(dk2, o, d, i) => Queued(dk, o, d, i)

LEMMA FewerOnce ==
  ASSUME NEW list, NEW dk, NEW rd, NEW pt, NEW list2, NEW dk2, NEW rd2, NEW pt2,
         Once(list, dk, rd, pt), Fewer(list, dk, rd, pt, list2, dk2, rd2, pt2)
  PROVE  Once(list2, dk2, rd2, pt2)
BY DEF Once, Fewer

(* One round goes on, with a page of the list or none.                     *)
LEMMA RoundOnce ==
  ASSUME IntakeInvariant, Once(rows, disk, round, past), NEW d \in Device, NEW r \in Round,
         NEW turn \in RoundType, Goes(d, r, turn),
         \A o \in Op, n \in Nat : In(turn.page, o, n) => In(rows, o, n),
         rows' = rows, disk' = disk, past' = past
  PROVE  Once(rows', disk', round', past')
<1>1. \A e \in Device, s \in Round : round'[e][s] = IF e = d /\ s = r THEN turn ELSE round[e][s]
  BY GoesTyped DEF IntakeInvariant, IntakeTyped
<1>2. \A o \in Op, n \in Nat : Placed(rows, round', past, o, n) => Placed(rows, round, past, o, n)
  BY <1>1 DEF Placed
<1>3. Fewer(rows, disk, round, past, rows', disk', round', past')
  BY <1>2 DEF Fewer
<1> QED BY <1>3, FewerOnce

LEMMA NextPageOnce ==
  ASSUME IntakeInvariant, Once(rows, disk, round, past), NEW d \in Device, NEW r \in Round,
         NextPage(d, r)
  PROVE  Once(rows', disk', round', past')
<1>1. /\ round[d][r] \in RoundType /\ disk[d] \in DiskType /\ rows \in Seq(RowType)
      /\ round[d][r].at = "fetch" /\ round[d][r].pages < Pages
      /\ rows' = rows /\ disk' = disk /\ past' = past
  BY DEF IntakeInvariant, IntakeTyped, NextPage
<1>2. PICK turn \in Asked(d, round[d][r], rows) : Goes(d, r, turn)
  BY DEF NextPage
<1>3. turn \in RoundType
  BY <1>1, <1>2, AskedTyped
<1>4. \A o \in Op, n \in Nat : In(turn.page, o, n) => In(rows, o, n)
  <2>1. round[d][r].cursor \in Nat
    BY <1>1 DEF RoundType
  <2>2. turn.page = <<>> \/ turn.page = Page(rows, round[d][r].cursor)
    BY <1>1, <1>2, AskedPage
  <2> QED BY <1>1, <2>1, <2>2, EmptyIn, PageIn
<1> QED BY <1>1, <1>2, <1>3, <1>4, RoundOnce

LEMMA AbandonOnce ==
  ASSUME IntakeInvariant, Once(rows, disk, round, past), NEW d \in Device, NEW r \in Round,
         Abandon(d, r)
  PROVE  Once(rows', disk', round', past')
<1>1. IdleRound.page = <<>> /\ IdleRound \in RoundType
  BY FreshTyped DEF IdleRound
<1>2. \A o \in Op, n \in Nat : ~In(IdleRound.page, o, n)
  BY <1>1, EmptyIn
<1> QED BY <1>1, <1>2, RoundOnce DEF Abandon

(* An operation is written that no journal knows.                          *)
LEMMA WriteOnce ==
  ASSUME IntakeInvariant, Once(rows, disk, round, past), NEW d \in Device, NEW o \in Op, Write(d, o)
  PROVE  Once(rows', disk', round', past')
<1> DEFINE entry == OperationRow(d, o)
           queue == Append(disk[d].outbox, entry)
           device == [disk[d] EXCEPT !.journal = disk[d].journal \cup {o}, !.outbox = queue]
<1>1. /\ disk[d] \in DiskType /\ disk \in [Device -> DiskType]
      /\ rows' = rows /\ round' = round /\ past' = past
  BY DEF IntakeInvariant, IntakeTyped, Write
<1>2. ~Known(disk, o)
  BY DEF Known, Write
<1>3. disk[d].outbox \in Seq(RowType) /\ entry.op = {o} /\ Len(disk[d].outbox) \in Nat
  BY <1>1, LenProperties DEF DiskType, OperationRow
<1> HIDE DEF entry
<1>4. /\ Len(queue) = Len(disk[d].outbox) + 1
      /\ \A i \in 1 .. Len(disk[d].outbox) + 1 :
           queue[i] = IF i <= Len(disk[d].outbox) THEN disk[d].outbox[i] ELSE entry
  BY <1>3
<1>5. disk' = [disk EXCEPT ![d] = device]
  BY <1>1 DEF Write, DiskType, entry
<1> HIDE DEF queue
<1>6. device.journal = disk[d].journal \cup {o} /\ device.outbox = queue
  BY <1>1 DEF DiskType
<1> HIDE DEF device
<1>7. \A e \in Device : disk'[e] = IF e = d THEN device ELSE disk[e]
  BY <1>1, <1>5
<1>8. \A x \in Op : Known(disk, x) => Known(disk', x)
  BY <1>6, <1>7 DEF Known
<1>9. Known(disk', o)
  BY <1>6, <1>7 DEF Known
<1>10. ASSUME NEW x \in Op, NEW e \in Device, NEW i \in Nat, Queued(disk', x, e, i)
       PROVE  Queued(disk, x, e, i) \/ (x = o /\ e = d /\ i = Len(disk[d].outbox) + 1)
  <2>1. CASE e = d
    <3>1. i \in 1 .. Len(disk[d].outbox) + 1 /\ queue[i].op = {x}
      BY <1>4, <1>6, <1>7, <1>10, <2>1 DEF Queued
    <3>2. CASE i <= Len(disk[d].outbox)
      BY <1>3, <1>4, <2>1, <3>1, <3>2 DEF Queued
    <3>3. CASE ~(i <= Len(disk[d].outbox))
      <4>1. i = Len(disk[d].outbox) + 1 /\ queue[i] = entry
        BY <1>3, <1>4, <3>1, <3>3
      <4>2. {x} = {o}
        BY <1>3, <3>1, <4>1
      <4>3. x = o
        BY <4>2
      <4> QED BY <2>1, <4>1, <4>3
    <3> QED BY <3>2, <3>3
  <2>2. CASE e # d
    BY <1>7, <1>10, <2>2 DEF Queued
  <2> QED BY <2>1, <2>2
<1>11. \A n \in Nat : ~Placed(rows, round, past, o, n)
  BY <1>2 DEF Once
<1>12. \A e \in Device, i \in Nat : ~Queued(disk, o, e, i)
  BY <1>2 DEF Once
<1>13. ASSUME NEW x \in Op, NEW e \in Device, NEW i \in Nat, Queued(disk', x, e, i)
       PROVE  /\ Known(disk', x) /\ \A n \in Nat : ~Placed(rows, round, past, x, n)
              /\ \A f \in Device, j \in Nat : Queued(disk', x, f, j) => e = f /\ i = j
  <2>1. CASE x = o
    BY <1>9, <1>10, <1>11, <1>12, <1>13, <2>1
  <2>2. CASE x # o
    <3>1. Queued(disk, x, e, i) /\ \A f \in Device, j \in Nat :
            Queued(disk', x, f, j) => Queued(disk, x, f, j)
      BY <1>10, <1>13, <2>2
    <3>2. /\ Known(disk, x) /\ \A n \in Nat : ~Placed(rows, round, past, x, n)
          /\ \A f \in Device, j \in Nat : Queued(disk, x, f, j) => e = f /\ i = j
      BY <3>1 DEF Once
    <3> QED BY <1>8, <3>1, <3>2
  <2> QED BY <2>1, <2>2
<1>14. \A x \in Op : /\ \A n, m \in Nat : Placed(rows, round, past, x, n)
                           /\ Placed(rows, round, past, x, m) => n = m
                     /\ \A n \in Nat : Placed(rows, round, past, x, n) => Known(disk', x)
  BY <1>8 DEF Once
<1> QED BY <1>1, <1>13, <1>14 DEF Once

(* The queue becomes rows.                                                 *)
LEMMA BeginOnce ==
  ASSUME IntakeInvariant, Once(rows, disk, round, past), NEW d \in Device, NEW r \in Round, Begin(d, r)
  PROVE  Once(rows', disk', round', past')
<1> DEFINE more == Numbered(disk[d].outbox)
           device == [disk[d] EXCEPT !.outbox = <<>>]
           first == [IdleRound EXCEPT !.cursor = disk[d].cursor, !.stop = disk[d].stop,
                                      !.anchor = disk[d].anchor]
<1>1. /\ disk[d] \in DiskType /\ disk \in [Device -> DiskType] /\ rows \in Seq(RowType)
      /\ past \in [Device -> PastType] /\ round \in [Device -> [Round -> RoundType]]
      /\ rows' = rows \o more
  BY DEF IntakeInvariant, IntakeTyped, Begin
<1>2. disk[d].outbox \in Seq(RowType) /\ disk[d].cursor \in Nat /\ Len(disk[d].outbox) \in Nat
  BY <1>1, LenProperties DEF DiskType
<1>3. /\ more \in Seq(RowType) /\ Len(more) = Len(disk[d].outbox) /\ LastSeq \in Nat
      /\ \A i \in 1 .. Len(disk[d].outbox) :
           more[i].seq = LastSeq + i /\ more[i].op = disk[d].outbox[i].op
  BY <1>1, <1>2, NumberedFacts
<1> HIDE DEF more
<1>4. rows' \in Seq(RowType)
  BY <1>1, <1>3, ConcatProperties
<1>5. \A o \in Op, n \in Nat : In(rows', o, n) =>
        In(rows, o, n) \/ \E i \in Nat : Queued(disk, o, d, i) /\ n = LastSeq + i
  <2>1. \A o \in Op, n \in Nat : In(more, o, n) =>
          \E i \in Nat : Queued(disk, o, d, i) /\ n = LastSeq + i
    <3> SUFFICES ASSUME NEW o \in Op, NEW n \in Nat, In(more, o, n)
                 PROVE  \E i \in Nat : Queued(disk, o, d, i) /\ n = LastSeq + i
      OBVIOUS
    <3>1. PICK i \in 1 .. Len(disk[d].outbox) : more[i].op = {o} /\ more[i].seq = n
      BY <1>3 DEF In
    <3>2. i \in Nat /\ Queued(disk, o, d, i) /\ n = LastSeq + i
      BY <1>2, <1>3, <3>1 DEF Queued
    <3> QED BY <3>2
  <2>2. \A o \in Op, n \in Nat : In(rows', o, n) => In(rows, o, n) \/ In(more, o, n)
    BY <1>1, <1>3, JoinedIn
  <2> QED BY <2>1, <2>2
<1>6. disk' = [disk EXCEPT ![d] = device]
  BY <1>1 DEF Begin
<1>7. Len(device.outbox) = 0 /\ device.journal = disk[d].journal
  BY <1>1, EmptySeq DEF DiskType
<1> HIDE DEF device
<1>8. \A e \in Device : disk'[e] = IF e = d THEN device ELSE disk[e]
  BY <1>1, <1>6
<1>9. \A o \in Op : Known(disk', o) <=> Known(disk, o)
  BY <1>7, <1>8 DEF Known
<1>10. \A o \in Op, e \in Device, i \in Nat : Queued(disk', o, e, i) =>
         e # d /\ Queued(disk, o, e, i)
  BY <1>7, <1>8 DEF Queued
<1>11. PICK turn \in Asked(d, first, rows') : Goes(d, r, turn)
  BY DEF Begin
<1>12. first \in RoundType /\ first.cursor = disk[d].cursor /\ first.pages = 0
  BY <1>1, FreshTyped DEF DiskType, RoundType, IdleRound
<1> HIDE DEF first
<1>13. turn \in RoundType /\ (turn.page = <<>> \/ turn.page = Page(rows', disk[d].cursor))
  <2>1. first.pages < Pages
    BY <1>12, IntakeLimits
  <2>2. turn \in RoundType
    BY <1>1, <1>4, <1>11, <1>12, <2>1, AskedTyped
  <2>3. turn.page = <<>> \/ turn.page = Page(rows', first.cursor)
    BY <1>11, <1>12, AskedPage
  <2> QED BY <1>12, <2>2, <2>3
<1>14. \A o \in Op, n \in Nat : In(turn.page, o, n) => In(rows', o, n)
  BY <1>2, <1>4, <1>13, EmptyIn, PageIn
<1>15. \A e \in Device, s \in Round : round'[e][s] = IF e = d /\ s = r THEN turn ELSE round[e][s]
  BY <1>1, <1>11, <1>13, GoesTyped
<1>16. \A e \in Device, o \in Op, n \in Nat : In(past'[e].rows, o, n) => In(past[e].rows, o, n)
  <2>1. [NothingPassed EXCEPT !.overlap = TRUE].rows = <<>>
    BY DEF NothingPassed
  <2>2. \A e \in Device : past'[e] = past[e] \/ past'[e] = [NothingPassed EXCEPT !.overlap = TRUE]
    BY <1>1 DEF Begin
  <2> TAKE e \in Device, o \in Op, n \in Nat
  <2>3. CASE past'[e] = past[e]
    BY <2>3
  <2>4. CASE past'[e] = [NothingPassed EXCEPT !.overlap = TRUE]
    <3>1. past'[e].rows = <<>>
      BY <2>1, <2>4
    <3> QED BY <3>1, EmptyIn
  <2> QED BY <2>2, <2>3, <2>4
<1> DEFINE Old(o, n) == Placed(rows, round, past, o, n)
           New(o, n) == Placed(rows', round', past', o, n)
<1>17. \A o \in Op, n \in Nat : New(o, n) =>
         Old(o, n) \/ \E i \in Nat : Queued(disk, o, d, i) /\ n = LastSeq + i
  <2>1. \A o \in Op, n \in Nat, e \in Device, s \in Round :
          In(round'[e][s].page, o, n) => In(round[e][s].page, o, n) \/ In(rows', o, n)
    BY <1>14, <1>15
  <2> QED BY <1>5, <1>16, <2>1 DEF Placed
<1> HIDE DEF Old, New
<1>18. ASSUME NEW o \in Op
       PROVE  /\ \A n, m \in Nat : Old(o, n) /\ Old(o, m) => n = m
              /\ \A n \in Nat : Old(o, n) => Known(disk, o)
              /\ \A e \in Device, i \in Nat : Queued(disk, o, e, i) =>
                   /\ Known(disk, o) /\ \A n \in Nat : ~Old(o, n)
                   /\ \A f \in Device, j \in Nat : Queued(disk, o, f, j) => e = f /\ i = j
  BY DEF Once, Old
<1>19. ASSUME NEW o \in Op
       PROVE  /\ \A n, m \in Nat : New(o, n) /\ New(o, m) => n = m
              /\ \A n \in Nat : New(o, n) => Known(disk', o)
              /\ \A e \in Device, i \in Nat : Queued(disk', o, e, i) =>
                   /\ Known(disk', o) /\ \A n \in Nat : ~New(o, n)
                   /\ \A f \in Device, j \in Nat : Queued(disk', o, f, j) => e = f /\ i = j
  <2>1. ASSUME NEW n \in Nat, NEW m \in Nat, New(o, n), New(o, m) PROVE n = m
    <3>1. CASE \E i \in Nat : Queued(disk, o, d, i)
      <4>1. \A k \in Nat : ~Old(o, k)
        BY <1>18, <3>1
      <4>2. PICK i \in Nat : Queued(disk, o, d, i) /\ n = LastSeq + i
        BY <1>17, <2>1, <4>1
      <4>3. PICK j \in Nat : Queued(disk, o, d, j) /\ m = LastSeq + j
        BY <1>17, <2>1, <4>1
      <4>4. i = j
        BY <1>18, <4>2, <4>3
      <4> QED BY <4>2, <4>3, <4>4
    <3>2. CASE ~\E i \in Nat : Queued(disk, o, d, i)
      BY <1>17, <1>18, <2>1, <3>2
    <3> QED BY <3>1, <3>2
  <2>2. \A n \in Nat : New(o, n) => Known(disk', o)
    BY <1>9, <1>17, <1>18
  <2>3. ASSUME NEW e \in Device, NEW i \in Nat, Queued(disk', o, e, i)
        PROVE  /\ Known(disk', o) /\ \A n \in Nat : ~New(o, n)
               /\ \A f \in Device, j \in Nat : Queued(disk', o, f, j) => e = f /\ i = j
    <3>1. e # d /\ Queued(disk, o, e, i)
      BY <1>10, <2>3
    <3>2. \A j \in Nat : ~Queued(disk, o, d, j)
      BY <1>18, <3>1
    <3> QED BY <1>9, <1>10, <1>17, <1>18, <3>1, <3>2
  <2> QED BY <2>1, <2>2, <2>3
<1> QED BY <1>19 DEF Once, New

(* What a page brought passes behind the cursor.                           *)
LEMMA FoldPageOnce ==
  ASSUME IntakeInvariant, Once(rows, disk, round, past), NEW d \in Device, NEW r \in Round,
         FoldPage(d, r)
  PROVE  Once(rows', disk', round', past')
<1> DEFINE turn == round[d][r]
           kept == KeptRecords(d, turn)
<1>1. /\ disk[d] \in DiskType /\ disk \in [Device -> DiskType] /\ turn \in RoundType
      /\ past \in [Device -> PastType] /\ round \in [Device -> [Round -> RoundType]]
      /\ rows' = rows /\ disk' = [disk EXCEPT ![d] = kept] /\ PassedBy(d, turn)
  BY DEF IntakeInvariant, IntakeTyped, FoldPage
<1>2. PICK next \in AfterPage(d, turn) : Goes(d, r, next)
  BY DEF FoldPage
<1>3. kept.outbox = disk[d].outbox /\ disk[d].journal \subseteq kept.journal
  BY <1>1 DEF KeptRecords, DiskType
<1> HIDE DEF turn, kept
<1>4. \A e \in Device : disk'[e] = IF e = d THEN kept ELSE disk[e]
  BY <1>1
<1>5. next.page = <<>> /\ next \in RoundType
  BY <1>1, <1>2, AfterPagePage, AfterPageTyped
<1>6. \A e \in Device, s \in Round : round'[e][s] = IF e = d /\ s = r THEN next ELSE round[e][s]
  BY <1>1, <1>2, <1>5, GoesTyped
<1>7. ASSUME NEW o \in Op, NEW n \in Nat, NEW e \in Device, In(past'[e].rows, o, n)
      PROVE  In(past[e].rows, o, n) \/ In(round[d][r].page, o, n)
  <2> DEFINE part == SubSeq(turn.page, 1, Taken(turn))
             list == past[d].rows \o part
  <2>1. /\ Taken(turn) \in Nat /\ Taken(turn) <= Len(turn.page) /\ turn.page \in Seq(RowType)
        /\ 1 \in Nat /\ 1 <= 1 /\ past[d].rows \in Seq(RowType)
    BY <1>1, TakenFacts DEF RoundType, PastType
  <2>2. part \in Seq(RowType)
    BY <2>1, PartOf
  <2>3. past'[e].rows = past[e].rows \/ (e = d /\ past'[e].rows = list)
    <3>1. CASE past' = past
      BY <3>1
    <3>2. CASE past' # past
      <4>1. past'[e] = IF e = d THEN [past[d] EXCEPT !.rows = list,
                              !.alarmed = past[d].alarmed \/ Alarms(d, turn) # {}] ELSE past[e]
        BY <1>1, <3>2 DEF PassedBy
      <4>2. [past[d] EXCEPT !.rows = list, !.alarmed = past[d].alarmed \/ Alarms(d, turn) # {}].rows
              = list
        BY <1>1 DEF PastType
      <4> QED BY <4>1, <4>2
    <3> QED BY <3>1, <3>2
  <2>4. CASE e = d /\ past'[e].rows = list
    <3>1. In(past[d].rows, o, n) \/ In(part, o, n)
      <4> HIDE DEF part
      <4> QED BY <1>7, <2>1, <2>2, <2>4, JoinedIn
    <3>2. In(part, o, n) => In(turn.page, o, n)
      BY <2>1, PartIn
    <3> QED BY <2>4, <3>1, <3>2 DEF turn
  <2> QED BY <1>7, <2>3, <2>4
<1>8. \A o \in Op, n \in Nat : Placed(rows, round', past', o, n) => Placed(rows, round, past, o, n)
  <2>1. \A o \in Op, n \in Nat, e \in Device, s \in Round :
          In(round'[e][s].page, o, n) => In(round[e][s].page, o, n)
    BY <1>5, <1>6, EmptyIn
  <2> QED BY <1>7, <2>1 DEF Placed
<1>9. Fewer(rows, disk, round, past, rows', disk', round', past')
  BY <1>1, <1>3, <1>4, <1>8 DEF Fewer, Known, Queued
<1> QED BY <1>9, FewerOnce

(* A checkpoint in the queue is no operation.                              *)
LEMMA WriteCheckpointOnce ==
  ASSUME IntakeInvariant, Once(rows, disk, round, past), NEW d \in Device, NEW r \in Round,
         WriteCheckpoint(d, r)
  PROVE  Once(rows', disk', round', past')
<1> DEFINE turn == round[d][r]
           entry == NextLink(d, turn.anchor)
           queue == Append(disk[d].outbox, entry)
           anchor == [turn.anchor EXCEPT !.own = [index |-> entry.index, digest |-> entry.digest],
                                         !.since = 0]
           device == [disk[d] EXCEPT !.outbox = queue, !.anchor = anchor]
<1>1. /\ disk[d] \in DiskType /\ disk \in [Device -> DiskType]
      /\ round \in [Device -> [Round -> RoundType]]
      /\ rows' = rows /\ past' = past /\ Goes(d, r, IdleRound)
      /\ disk' = [disk EXCEPT ![d] = device]
  BY DEF IntakeInvariant, IntakeTyped, WriteCheckpoint, DiskType
<1>2. entry.op = {}
  BY DEF NextLink, CheckpointRow
<1> HIDE DEF entry, anchor
<1>3. disk[d].outbox \in Seq(RowType) /\ Len(disk[d].outbox) \in Nat
  BY <1>1, LenProperties DEF DiskType
<1>4. /\ Len(queue) = Len(disk[d].outbox) + 1
      /\ \A i \in 1 .. Len(disk[d].outbox) + 1 :
           queue[i] = IF i <= Len(disk[d].outbox) THEN disk[d].outbox[i] ELSE entry
  BY <1>3
<1> HIDE DEF queue
<1>5. device.journal = disk[d].journal /\ device.outbox = queue
  BY <1>1 DEF DiskType
<1> HIDE DEF device
<1>6. \A e \in Device : disk'[e] = IF e = d THEN device ELSE disk[e]
  BY <1>1
<1>7. \A o \in Op, e \in Device, i \in Nat : Queued(disk', o, e, i) => Queued(disk, o, e, i)
  <2> TAKE o \in Op, e \in Device, i \in Nat
  <2> SUFFICES ASSUME Queued(disk', o, e, i) PROVE Queued(disk, o, e, i)
    OBVIOUS
  <2>1. CASE e = d
    <3>1. i \in 1 .. Len(disk[d].outbox) + 1 /\ queue[i].op = {o}
      BY <1>4, <1>5, <1>6, <2>1 DEF Queued
    <3>2. queue[i].op # {}
      BY <3>1
    <3>3. i <= Len(disk[d].outbox)
      BY <1>2, <1>4, <3>1, <3>2
    <3> QED BY <1>3, <1>4, <2>1, <3>1, <3>3 DEF Queued
  <2>2. CASE e # d
    BY <1>6, <2>2 DEF Queued
  <2> QED BY <2>1, <2>2
<1>8. \A e \in Device, s \in Round :
        round'[e][s] = IF e = d /\ s = r THEN IdleRound ELSE round[e][s]
  BY <1>1, FreshTyped, GoesTyped
<1>9. IdleRound.page = <<>>
  BY DEF IdleRound
<1>10. \A o \in Op, n \in Nat : Placed(rows, round', past, o, n) => Placed(rows, round, past, o, n)
  BY <1>8, <1>9, EmptyIn DEF Placed
<1>11. \A o \in Op : Known(disk, o) => Known(disk', o)
  BY <1>5, <1>6 DEF Known
<1>12. Fewer(rows, disk, round, past, rows', disk', round', past')
  BY <1>1, <1>7, <1>10, <1>11 DEF Fewer
<1> QED BY <1>12, FewerOnce

(* The server loses or damages what it has, and makes up nothing.          *)
LEMMA HarmOnce ==
  ASSUME IntakeInvariant, Once(rows, disk, round, past), Harmed,
         \A o \in Op, n \in Nat : In(rows', o, n) => In(rows, o, n)
  PROVE  Once(rows', disk', round', past')
<1>1. \A o \in Op, n \in Nat : Placed(rows', round', past', o, n) => Placed(rows, round, past, o, n)
  BY DEF Placed, Harmed
<1>2. Fewer(rows, disk, round, past, rows', disk', round', past')
  BY <1>1 DEF Fewer, Harmed
<1> QED BY <1>2, FewerOnce

LEMMA ListHarmOnce ==
  ASSUME IntakeInvariant, Once(rows, disk, round, past),
         \/ \E n \in 0 .. Len(rows) : LoseTail(n)
         \/ \E n \in DOMAIN rows : LoseRow(n) \/ \E flaw \in Flaws : Spoil(n, flaw)
  PROVE  Once(rows', disk', round', past')
<1>1. rows \in Seq(RowType) /\ Len(rows) \in Nat /\ DOMAIN rows = 1 .. Len(rows)
  BY LenProperties DEF IntakeInvariant, IntakeTyped
<1>2. ASSUME NEW n \in 0 .. Len(rows), LoseTail(n) PROVE Once(rows', disk', round', past')
  <2>1. n \in Nat /\ n <= Len(rows) /\ 1 \in Nat /\ 1 <= 1
    BY <1>1
  <2>2. \A o \in Op, k \in Nat : In(SubSeq(rows, 1, n), o, k) => In(rows, o, k)
    BY <1>1, <2>1, PartIn
  <2> QED BY <1>2, <2>2, HarmOnce DEF LoseTail
<1>3. ASSUME NEW n \in DOMAIN rows, LoseRow(n) PROVE Once(rows', disk', round', past')
  <2> DEFINE s == SubSeq(rows, 1, n - 1)
             t == SubSeq(rows, n + 1, Len(rows))
  <2>1. /\ n - 1 \in Nat /\ n - 1 <= Len(rows) /\ n + 1 \in Nat /\ 1 <= n + 1 /\ 1 \in Nat /\ 1 <= 1
        /\ Len(rows) <= Len(rows)
    BY <1>1
  <2>2. s \in Seq(RowType) /\ t \in Seq(RowType)
    BY <1>1, <2>1, PartOf
  <2>3. \A o \in Op, k \in Nat : In(s, o, k) => In(rows, o, k)
    BY <1>1, <2>1, PartIn
  <2>4. \A o \in Op, k \in Nat : In(t, o, k) => In(rows, o, k)
    BY <1>1, <2>1, PartIn
  <2>5. rows' = s \o t
    BY <1>3 DEF LoseRow, RemoveAt
  <2> HIDE DEF s, t
  <2>6. \A o \in Op, k \in Nat : In(rows', o, k) => In(rows, o, k)
    BY <2>2, <2>3, <2>4, <2>5, JoinedIn
  <2> QED BY <1>3, <2>6, HarmOnce DEF LoseRow
<1>4. ASSUME NEW n \in DOMAIN rows, NEW flaw \in Flaws, Spoil(n, flaw)
      PROVE  Once(rows', disk', round', past')
  <2> DEFINE entry == [rows[n] EXCEPT !.flaw = flaw]
  <2>1. n \in 1 .. Len(rows) /\ rows[n] \in RowType
    BY <1>1
  <2>2. entry \in RowType /\ entry.op = rows[n].op /\ entry.seq = rows[n].seq
    BY <2>1 DEF RowType
  <2>3. rows' = [rows EXCEPT ![n] = entry]
    BY <1>4 DEF Spoil
  <2> HIDE DEF entry
  <2>4. Len(rows') = Len(rows) /\ \A i \in 1 .. Len(rows) : rows'[i] = IF i = n THEN entry ELSE rows[i]
    BY <1>1, <2>1, <2>2, <2>3, ExceptSeq
  <2>5. Among(rows', rows)
    BY <2>2, <2>4 DEF Among
  <2>6. \A o \in Op, k \in Nat : In(rows', o, k) => In(rows, o, k)
    BY <2>5, AmongIn
  <2> QED BY <1>4, <2>6, HarmOnce DEF Spoil
<1> QED BY <1>2, <1>3, <1>4

LEMMA OnceStarts == Init => Once(rows, disk, round, past)
<1> SUFFICES ASSUME Init PROVE Once(rows, disk, round, past)
  OBVIOUS
<1>1. IdleRound.page = <<>> /\ NothingPassed.rows = <<>> /\ Len(<<>>) = 0
  BY EmptySeq DEF IdleRound, NothingPassed
<1>2. /\ rows = <<>> /\ \A d \in Device : disk[d].outbox = <<>>
      /\ \A d \in Device, r \in Round : round[d][r] = IdleRound
      /\ \A d \in Device : past[d] = NothingPassed
  BY DEF Init
<1>3. \A o \in Op, n \in Nat : ~Placed(rows, round, past, o, n)
  BY <1>1, <1>2, EmptyIn DEF Placed
<1>4. \A o \in Op, d \in Device, i \in Nat : ~Queued(disk, o, d, i)
  BY <1>1, <1>2 DEF Queued
<1> QED BY <1>3, <1>4 DEF Once


-----------------------------------------------------------------------------
(* Intake: the rows a delivery takes come right after the cursor.          *)

LEMMA TakenNumbers ==
  ASSUME NEW turn \in RoundType
  PROVE  /\ \A k \in 0 .. Taken(turn) : Reached(turn, k) = turn.cursor + k
         /\ \A k \in 1 .. Taken(turn) : turn.page[k].seq = turn.cursor + k
<1> DEFINE n == Taken(turn)
           S == {k \in 0 .. n : Reached(turn, k) = turn.cursor + k}
<1>1. /\ n \in 0 .. Len(turn.page) /\ Len(turn.page) \in Nat /\ n \in Nat
      /\ \A k \in 1 .. n : k \notin Refused(turn)
      /\ turn.cursor \in Nat /\ turn.page \in Seq(RowType)
  BY TakenFacts DEF RoundType
<1>2. \A k \in 1 .. n : k \in DOMAIN turn.page
  BY <1>1
<1> HIDE DEF n
<1>3. ASSUME NEW k \in 1 .. n PROVE turn.page[k].seq = Reached(turn, k - 1) + 1
  <2>1. Refusal(turn, k) = "none"
    BY <1>1, <1>2 DEF Refused
  <2> QED BY <2>1 DEF Refusal, Continuous
<1>4. ASSUME NEW k \in 0 .. n, \A j \in 0 .. (k - 1) : j \in S PROVE k \in S
  <2>1. CASE k = 0
    BY <1>1, <2>1 DEF Reached
  <2>2. CASE k # 0
    <3>1. k \in 1 .. n /\ k - 1 \in 0 .. (k - 1)
      BY <1>1, <2>2
    <3>2. Reached(turn, k - 1) = turn.cursor + (k - 1)
      BY <1>4, <3>1
    <3>3. turn.page[k].seq = turn.cursor + k
      BY <1>1, <1>3, <3>1, <3>2
    <3> QED BY <2>2, <3>3 DEF Reached
  <2> QED BY <2>1, <2>2
<1> HIDE DEF S
<1>5. \A k \in 0 .. n : k \in S
  BY <1>1, <1>4, EveryNumber
<1>6. \A k \in 0 .. n : Reached(turn, k) = turn.cursor + k
  BY <1>5 DEF S
<1>7. ASSUME NEW k \in 1 .. n PROVE turn.page[k].seq = turn.cursor + k
  BY <1>1, <1>6 DEF Reached
<1> QED BY <1>6, <1>7 DEF n

(* A call that goes on where these rows end.                               *)
GoesOn(turn, list) ==
  /\ list \in Seq(RowType) /\ Len(list) = turn.cursor
  /\ \A i \in 1 .. Len(list) : list[i].seq = i
  /\ Anchored(turn.anchor, list)
  /\ \A o \in Op : \A n, m \in Nat :
       (In(list, o, n) \/ In(turn.page, o, n)) /\ (In(list, o, m) \/ In(turn.page, o, m)) => n = m

(* Every operation it takes is new to the anchor.                          *)
LEMMA AllAdd ==
  ASSUME NEW turn \in RoundType, NEW list, GoesOn(turn, list), NEW k \in 1 .. Taken(turn)
  PROVE  Adds(turn, k) <=> turn.page[k].kind = "operation"
<1>1. /\ Taken(turn) \in 0 .. Len(turn.page) /\ Len(turn.page) \in Nat /\ Taken(turn) \in Nat
      /\ turn.cursor \in Nat /\ turn.page \in Seq(RowType)
      /\ \A j \in 1 .. Taken(turn) : turn.page[j].seq = turn.cursor + j
  BY TakenFacts, TakenNumbers DEF RoundType
<1>2. /\ list \in Seq(RowType) /\ DOMAIN list = 1 .. Len(list) /\ Len(list) = turn.cursor
      /\ \A i \in 1 .. Len(list) : list[i].seq = i
  BY LenProperties DEF GoesOn
<1>3. \A i \in 1 .. Len(list) : list[i] \in RowType
  BY <1>2
<1>4. \A j \in 1 .. Len(turn.page) : turn.page[j] \in RowType
  BY <1>1
<1>5. ToSet(turn.anchor.ids) = UNION {list[i].op : i \in DOMAIN list}
  BY <1>2, OperationsTyped DEF GoesOn, Anchored
<1>6. ASSUME turn.page[k].kind = "operation", NEW o \in turn.page[k].op,
             NEW other, other \in RowType, other.seq # turn.cursor + k, o \in other.op,
             \/ \E i \in 1 .. Len(list) : other = list[i]
             \/ \E j \in 1 .. Len(turn.page) : other = turn.page[j]
      PROVE  FALSE
  <2>1. k \in 1 .. Len(turn.page) /\ turn.cursor + k \in Nat
    BY <1>1
  <2>2. o \in Op /\ turn.page[k].op = {o}
    BY <1>4, <1>6, <2>1 DEF RowType
  <2>3. other.op = {o} /\ other.seq \in Nat
    BY <1>6 DEF RowType
  <2>4. In(turn.page, o, turn.cursor + k)
    BY <1>1, <2>1, <2>2 DEF In
  <2>5. In(list, o, other.seq) \/ In(turn.page, o, other.seq)
    BY <1>6, <2>3 DEF In
  <2> QED BY <1>6, <2>1, <2>2, <2>3, <2>4, <2>5 DEF GoesOn
<1>7. ASSUME turn.page[k].kind = "operation", NEW o \in turn.page[k].op PROVE o \notin ToSet(turn.anchor.ids)
  <2>1. SUFFICES ASSUME NEW i \in 1 .. Len(list), o \in list[i].op PROVE FALSE
    BY <1>2, <1>5
  <2>2. list[i].seq # turn.cursor + k
    BY <1>1, <1>2
  <2> QED BY <1>3, <1>6, <1>7, <2>1, <2>2
<1>8. ASSUME turn.page[k].kind = "operation", NEW o \in turn.page[k].op, NEW i \in 1 .. (k - 1)
      PROVE  o \notin turn.page[i].op
  <2>1. i \in 1 .. Len(turn.page) /\ turn.page[i].seq # turn.cursor + k
    BY <1>1
  <2> QED BY <1>4, <1>6, <1>8, <2>1
<1> QED BY <1>7, <1>8 DEF Adds

(* The anchor's set is the operations of all the rows so far.              *)
LEMMA IdsAre ==
  ASSUME NEW turn \in RoundType, NEW list, GoesOn(turn, list), NEW k \in 0 .. Taken(turn)
  PROVE  Ids(turn, k) = OperationsOf(list \o Start(turn.page, k))
<1> DEFINE P == {i \in 1 .. k : turn.page[i].kind = "operation"}
<1>1. /\ Taken(turn) \in 0 .. Len(turn.page) /\ Len(turn.page) \in Nat /\ Taken(turn) \in Nat
      /\ turn.page \in Seq(RowType) /\ k \in 0 .. Len(turn.page) /\ list \in Seq(RowType)
  BY TakenFacts DEF RoundType, GoesOn
<1>2. \A i \in 1 .. k : i \in 1 .. Taken(turn)
  BY <1>1
<1>3. {i \in 1 .. k : Adds(turn, i)} = P
  BY <1>2, AllAdd
<1> HIDE DEF P
<1>4. Ids(turn, k) = turn.anchor.ids \o OperationsOf(Picked(turn.page, P))
  BY <1>3 DEF Ids
<1>5. OperationsOf(Picked(turn.page, P)) = OperationsOf(Start(turn.page, k))
  BY <1>1, OperationsOfPicked DEF P
<1>6. Start(turn.page, k) \in Seq(RowType)
  BY <1>1, StartFacts
<1>7. OperationsOf(list \o Start(turn.page, k)) = OperationsOf(list) \o OperationsOf(Start(turn.page, k))
  BY <1>1, <1>6, OperationsJoined
<1> QED BY <1>4, <1>5, <1>7 DEF GoesOn, Anchored

(* The chain it has come to is the one of all the rows so far.             *)
LEMMA LinkIs ==
  ASSUME NEW turn \in RoundType, NEW list, GoesOn(turn, list), NEW k \in 0 .. Len(turn.page),
         NEW all, AlikeFrom(all, 0, list, Len(list)), AlikeFrom(all, Len(list), turn.page, k),
         NEW e \in Device
  PROVE  Link(turn, e, k) = EndLink(all, Len(list) + k, e, NoLink)
<1>1. list \in Seq(RowType) /\ Len(list) \in Nat /\ Len(turn.page) \in Nat /\ k \in Nat
  BY LenProperties DEF GoesOn, RoundType
<1>2. Link(turn, e, k) = EndLink(turn.page, k, e, turn.anchor.chain[e])
  BY DEF Link, EndLink
<1>3. turn.anchor.chain[e] = EndLink(list, Len(list), e, NoLink)
  BY DEF GoesOn, Anchored
<1>4. EndLink(all, Len(list), e, NoLink) = EndLink(list, Len(list), e, NoLink)
  BY <1>1, EndLinkSame
<1>5. turn.anchor.chain[e] = EndLink(all, Len(list), e, NoLink)
  BY <1>3, <1>4
<1>6. \A j \in 0 .. k : EndLink(all, Len(list) + j, e, NoLink) = EndLink(turn.page, j, e, turn.anchor.chain[e])
  BY <1>1, <1>5, EndLinkJoined
<1> QED BY <1>1, <1>2, <1>6

-----------------------------------------------------------------------------
(* Intake: a device that runs one round at a time stays in step.           *)

AllAlone(dk, rd, pt) ==
  \A d \in Device : ~pt[d].overlap => Alone(d, dk[d], rd[d], pt[d])

(* One round goes on, and the records with it.                             *)
LEMMA OneRoundGoes ==
  ASSUME NEW dk, NEW rd, OneRound(dk, rd), NEW r \in Round, NEW turn, NEW dk2, NEW rd2,
         \A s \in Round : rd2[s] = IF s = r THEN turn ELSE rd[s],
         \/ dk2.cursor = dk.cursor /\ dk2.anchor = dk.anchor
         \/ \A s \in Round : s # r => rd[s].at = "idle",
         turn.at # "idle" =>
           /\ \A s \in Round : s # r => rd[s].at = "idle"
           /\ turn.anchor = dk2.anchor
           /\ turn.at \in {"fold", "fetch"} => turn.cursor = dk2.cursor
  PROVE  OneRound(dk2, rd2)
<1>1. ASSUME NEW s \in Round, NEW t \in Round, rd2[s].at # "idle", rd2[t].at # "idle"
      PROVE  s = t
  <2>1. CASE s = r \/ t = r
    BY <1>1, <2>1
  <2>2. CASE s # r /\ t # r
    BY <1>1, <2>2 DEF OneRound
  <2> QED BY <2>1, <2>2
<1>2. ASSUME NEW s \in Round
      PROVE  /\ rd2[s].at \in {"fold", "fetch"} => rd2[s].cursor = dk2.cursor
             /\ rd2[s].at # "idle" => rd2[s].anchor = dk2.anchor
  <2>1. CASE s = r
    <3>1. rd2[s] = turn
      BY <2>1
    <3> QED BY <3>1
  <2>2. CASE s # r
    <3>1. rd2[s] = rd[s]
      BY <2>2
    <3>2. CASE rd[s].at = "idle"
      BY <3>1, <3>2
    <3>3. CASE rd[s].at # "idle"
      BY <2>2, <3>1, <3>3 DEF OneRound
    <3> QED BY <3>2, <3>3
  <2> QED BY <2>1, <2>2
<1> QED BY <1>1, <1>2 DEF OneRound

LEMMA WriteAlone ==
  ASSUME IntakeInvariant, AllAlone(disk, round, past), NEW d \in Device, NEW o \in Op, Write(d, o)
  PROVE  AllAlone(disk', round', past')
<1> DEFINE journal == disk[d].journal \cup {o}
           queue == Append(disk[d].outbox, OperationRow(d, o))
           device == [disk[d] EXCEPT !.journal = journal, !.outbox = queue]
<1>1. /\ disk[d] \in DiskType /\ disk \in [Device -> DiskType]
      /\ round' = round /\ past' = past
  BY DEF IntakeInvariant, IntakeTyped, Write
<1>2. disk' = [disk EXCEPT ![d] = device]
  BY <1>1 DEF Write, DiskType
<1> HIDE DEF journal, queue
<1>3. device.cursor = disk[d].cursor /\ device.anchor = disk[d].anchor
  BY <1>1 DEF DiskType
<1> HIDE DEF device
<1>4. \A e \in Device : disk'[e].cursor = disk[e].cursor /\ disk'[e].anchor = disk[e].anchor
  BY <1>1, <1>2, <1>3
<1> QED BY <1>1, <1>4 DEF AllAlone, Alone, OneRound

LEMMA NextPageAlone ==
  ASSUME IntakeInvariant, AllAlone(disk, round, past), NEW d \in Device, NEW r \in Round,
         NextPage(d, r)
  PROVE  AllAlone(disk', round', past')
<1>1. /\ round[d][r] \in RoundType /\ disk[d] \in DiskType /\ rows \in Seq(RowType)
      /\ round \in [Device -> [Round -> RoundType]]
      /\ round[d][r].at = "fetch" /\ round[d][r].pages < Pages /\ disk' = disk /\ past' = past
  BY DEF IntakeInvariant, IntakeTyped, NextPage
<1>2. PICK turn \in Asked(d, round[d][r], rows) : Goes(d, r, turn)
  BY DEF NextPage
<1>3. /\ turn \in RoundType /\ turn.at \in {"idle", "anchored", "fold"}
      /\ turn.at = "anchored" => turn.anchor = disk[d].anchor
      /\ turn.at = "fold" => turn.cursor = round[d][r].cursor /\ turn.anchor = round[d][r].anchor
  BY <1>1, <1>2, AskedTyped
<1>4. \A e \in Device, s \in Round : round'[e][s] = IF e = d /\ s = r THEN turn ELSE round[e][s]
  BY <1>1, <1>2, <1>3, GoesTyped
<1>5. ASSUME NEW e \in Device, ~past[e].overlap PROVE OneRound(disk[e], round'[e])
  <2>1. OneRound(disk[e], round[e])
    BY <1>5 DEF AllAlone, Alone
  <2>2. CASE e = d
    <3>1. \A s \in Round : round'[d][s] = IF s = r THEN turn ELSE round[d][s]
      BY <1>4
    <3>2. /\ \A s \in Round : s # r => round[d][s].at = "idle"
          /\ round[d][r].cursor = disk[d].cursor /\ round[d][r].anchor = disk[d].anchor
      BY <1>1, <2>1, <2>2 DEF OneRound
    <3>3. turn.at # "idle" => /\ turn.anchor = disk[d].anchor
                              /\ turn.at \in {"fold", "fetch"} => turn.cursor = disk[d].cursor
      BY <1>3, <3>2
    <3>4. OneRound(disk[d], round'[d])
      BY <2>1, <2>2, <3>1, <3>2, <3>3, OneRoundGoes
    <3> QED BY <2>2, <3>4
  <2>3. CASE e # d
    BY <1>4, <2>1, <2>3 DEF OneRound
  <2> QED BY <2>2, <2>3
<1> QED BY <1>1, <1>5 DEF AllAlone, Alone

LEMMA AbandonAlone ==
  ASSUME IntakeInvariant, AllAlone(disk, round, past), NEW d \in Device, NEW r \in Round,
         Abandon(d, r)
  PROVE  AllAlone(disk', round', past')
<1>1. /\ round \in [Device -> [Round -> RoundType]]
      /\ Goes(d, r, IdleRound) /\ disk' = disk /\ past' = past
  BY DEF IntakeInvariant, IntakeTyped, Abandon
<1>2. \A e \in Device, s \in Round :
        round'[e][s] = IF e = d /\ s = r THEN IdleRound ELSE round[e][s]
  BY <1>1, FreshTyped, GoesTyped
<1>3. IdleRound.at = "idle"
  BY DEF IdleRound
<1>4. \A e \in Device, s \in Round : round'[e][s].at = "idle" \/ round'[e][s] = round[e][s]
  BY <1>2, <1>3
<1>5. ASSUME NEW e \in Device, OneRound(disk[e], round[e]) PROVE OneRound(disk[e], round'[e])
  BY <1>4, <1>5 DEF OneRound
<1> QED BY <1>1, <1>5 DEF AllAlone, Alone

(* A second round on the device ends the history of it.                    *)
LEMMA BeginAlone ==
  ASSUME IntakeInvariant, AllAlone(disk, round, past), NEW d \in Device, NEW r \in Round, Begin(d, r)
  PROVE  AllAlone(disk', round', past')
<1> DEFINE device == [disk[d] EXCEPT !.outbox = <<>>]
           first == [IdleRound EXCEPT !.cursor = disk[d].cursor, !.stop = disk[d].stop,
                                      !.anchor = disk[d].anchor]
<1>1. /\ disk[d] \in DiskType /\ disk \in [Device -> DiskType] /\ rows \in Seq(RowType)
      /\ past \in [Device -> PastType] /\ round \in [Device -> [Round -> RoundType]]
      /\ disk' = [disk EXCEPT ![d] = device]
  BY DEF IntakeInvariant, IntakeTyped, Begin
<1>2. device.cursor = disk[d].cursor /\ device.anchor = disk[d].anchor
  BY <1>1 DEF DiskType
<1> HIDE DEF device
<1>3. \A e \in Device : disk'[e].cursor = disk[e].cursor /\ disk'[e].anchor = disk[e].anchor
  BY <1>1, <1>2
<1>4. rows' \in Seq(RowType)
  BY BeginKeeps DEF IntakeInvariant, IntakeTyped
<1>5. PICK turn \in Asked(d, first, rows') : Goes(d, r, turn)
  BY DEF Begin
<1>6. /\ first \in RoundType /\ first.cursor = disk[d].cursor /\ first.pages = 0
      /\ first.anchor = disk[d].anchor
  BY <1>1, FreshTyped DEF DiskType, RoundType, IdleRound
<1> HIDE DEF first
<1>7. /\ turn \in RoundType /\ turn.at \in {"idle", "anchored", "fold"}
      /\ turn.at = "anchored" => turn.anchor = disk[d].anchor
      /\ turn.at = "fold" => turn.cursor = disk[d].cursor /\ turn.anchor = disk[d].anchor
  <2>1. first.pages < Pages
    BY <1>6, IntakeLimits
  <2>2. /\ turn \in RoundType /\ turn.at \in {"idle", "anchored", "fold"}
        /\ turn.at = "anchored" => turn.anchor = disk[d].anchor
        /\ turn.at = "fold" => turn.cursor = first.cursor /\ turn.anchor = first.anchor
    BY <1>1, <1>4, <1>5, <1>6, <2>1, AskedTyped
  <2> QED BY <1>6, <2>2
<1>8. \A e \in Device, s \in Round : round'[e][s] = IF e = d /\ s = r THEN turn ELSE round[e][s]
  BY <1>1, <1>5, <1>7, GoesTyped
<1>9. ASSUME NEW e \in Device, ~past'[e].overlap
      PROVE  past'[e] = past[e] /\ (e = d => \A s \in Round : round[d][s].at = "idle")
  <2>1. CASE Busy(d) = {}
    BY <2>1 DEF Begin, Busy
  <2>2. CASE Busy(d) # {}
    <3> DEFINE ended == [NothingPassed EXCEPT !.overlap = TRUE]
    <3>1. past' = [past EXCEPT ![d] = ended]
      BY <2>2 DEF Begin
    <3>2. ended.overlap = TRUE
      BY DEF NothingPassed
    <3> HIDE DEF ended
    <3>3. e # d
      BY <1>1, <1>9, <3>1, <3>2
    <3> QED BY <1>1, <3>1, <3>3
  <2> QED BY <2>1, <2>2
<1>10. ASSUME NEW e \in Device, ~past'[e].overlap PROVE Alone(e, disk'[e], round'[e], past'[e])
  <2>1. past'[e] = past[e] /\ Alone(e, disk[e], round[e], past[e])
    BY <1>9, <1>10 DEF AllAlone
  <2>2. OneRound(disk[e], round[e])
    BY <2>1 DEF Alone
  <2>3. OneRound(disk'[e], round'[e])
    <3>1. CASE e = d
      <4>1. \A s \in Round : round'[d][s] = IF s = r THEN turn ELSE round[d][s]
        BY <1>8
      <4>2. \A s \in Round : round[d][s].at = "idle"
        BY <1>9, <1>10, <3>1
      <4>3. turn.at # "idle" => /\ turn.anchor = disk'[d].anchor
                                /\ turn.at \in {"fold", "fetch"} => turn.cursor = disk'[d].cursor
        BY <1>3, <1>7
      <4>4. OneRound(disk[d], round[d])
        BY <2>2, <3>1
      <4>5. OneRound(disk'[d], round'[d])
        BY <4>1, <4>2, <4>3, <4>4, OneRoundGoes
      <4> QED BY <3>1, <4>5
    <3>2. CASE e # d
      BY <1>3, <1>8, <2>2, <3>2 DEF OneRound
    <3> QED BY <3>1, <3>2
  <2> QED BY <1>3, <2>1, <2>3 DEF Alone
<1> QED BY <1>10 DEF AllAlone

LEMMA WriteCheckpointAlone ==
  ASSUME IntakeInvariant, AllAlone(disk, round, past), NEW d \in Device, NEW r \in Round,
         WriteCheckpoint(d, r)
  PROVE  AllAlone(disk', round', past')
<1> DEFINE turn == round[d][r]
           entry == NextLink(d, turn.anchor)
           queue == Append(disk[d].outbox, entry)
           own == [index |-> entry.index, digest |-> entry.digest]
           anchor == [turn.anchor EXCEPT !.own = own, !.since = 0]
           device == [disk[d] EXCEPT !.outbox = queue, !.anchor = anchor]
<1>1. /\ disk[d] \in DiskType /\ disk \in [Device -> DiskType] /\ turn \in RoundType
      /\ round \in [Device -> [Round -> RoundType]] /\ turn.at = "anchored"
      /\ past' = past /\ Goes(d, r, IdleRound) /\ disk' = [disk EXCEPT ![d] = device]
  BY DEF IntakeInvariant, IntakeTyped, WriteCheckpoint, DiskType
<1>2. turn.anchor \in AnchorType
  BY <1>1 DEF RoundType
<1> HIDE DEF queue, own, entry
<1>3. anchor.ids = turn.anchor.ids /\ anchor.chain = turn.anchor.chain
  BY <1>2 DEF AnchorType
<1> HIDE DEF anchor
<1>4. device.cursor = disk[d].cursor /\ device.anchor = anchor
  BY <1>1 DEF DiskType
<1> HIDE DEF device
<1>5. \A e \in Device : disk'[e] = IF e = d THEN device ELSE disk[e]
  BY <1>1
<1>6. \A e \in Device, s \in Round :
        round'[e][s] = IF e = d /\ s = r THEN IdleRound ELSE round[e][s]
  BY <1>1, FreshTyped, GoesTyped
<1>7. IdleRound.at = "idle"
  BY DEF IdleRound
<1>8. ASSUME NEW e \in Device, ~past[e].overlap PROVE Alone(e, disk'[e], round'[e], past[e])
  <2>1. Alone(e, disk[e], round[e], past[e])
    BY <1>8 DEF AllAlone
  <2>2. CASE e = d
    <3>1. OneRound(disk[d], round[d])
      BY <2>1, <2>2 DEF Alone
    <3>2. turn.anchor = disk[d].anchor /\ \A s \in Round : s # r => round[d][s].at = "idle"
      BY <1>1, <3>1 DEF OneRound
    <3>3. \A s \in Round : round'[d][s].at = "idle"
      BY <1>6, <1>7, <3>2
    <3>4. OneRound(disk'[d], round'[d])
      BY <3>3 DEF OneRound
    <3>5. Anchored(disk'[d].anchor, past[d].rows)
      BY <1>3, <1>4, <1>5, <2>1, <2>2, <3>2 DEF Alone, Anchored
    <3>6. disk'[d].cursor = disk[d].cursor
      BY <1>4, <1>5
    <3> QED BY <2>1, <2>2, <3>4, <3>5, <3>6 DEF Alone
  <2>3. CASE e # d
    BY <1>5, <1>6, <2>1, <2>3 DEF Alone, OneRound
  <2> QED BY <2>2, <2>3
<1> QED BY <1>1, <1>8 DEF AllAlone

(* The start of a list that goes on.                                       *)
LEMMA StartBeyond ==
  ASSUME NEW S, NEW list \in Seq(S), NEW more \in Seq(S), NEW k \in 0 .. Len(more)
  PROVE  Start(list \o more, Len(list) + k) = list \o Start(more, k)
<1> DEFINE u == list \o more
           m == Len(list)
           s == Start(more, k)
           t == Start(u, m + k)
           v == list \o s
<1>1. m \in Nat /\ Len(more) \in Nat /\ k \in Nat
  BY LenProperties
<1>2. /\ u \in Seq(S) /\ Len(u) = m + Len(more)
      /\ \A i \in 1 .. m + Len(more) : u[i] = IF i <= m THEN list[i] ELSE more[i - m]
  BY ConcatProperties
<1>3. s \in Seq(S) /\ Len(s) = k /\ \A i \in 1 .. k : s[i] = more[i]
  BY StartFacts
<1> HIDE DEF u, s
<1>4. t \in Seq(S) /\ Len(t) = m + k /\ \A i \in 1 .. m + k : t[i] = u[i]
  <2>1. m + k \in 0 .. Len(u)
    BY <1>1, <1>2
  <2> HIDE DEF m
  <2> QED BY <1>2, <2>1, StartFacts
<1>5. /\ v \in Seq(S) /\ Len(v) = m + k
      /\ \A i \in 1 .. m + k : v[i] = IF i <= m THEN list[i] ELSE s[i - m]
  BY <1>3, ConcatProperties
<1> HIDE DEF m, t, v
<1>6. \A i \in 1 .. m + k : t[i] = v[i]
  <2> TAKE i \in 1 .. m + k
  <2>1. i \in 1 .. m + Len(more)
    BY <1>1
  <2>2. CASE i <= m
    BY <1>2, <1>4, <1>5, <2>1, <2>2
  <2>3. CASE ~(i <= m)
    <3>1. i - m \in 1 .. k
      BY <1>1, <2>3
    <3> QED BY <1>2, <1>3, <1>4, <1>5, <2>1, <2>3, <3>1
  <2> QED BY <2>2, <2>3
<1>7. t = v
  BY <1>4, <1>5, <1>6, SeqEqual
<1> QED BY <1>7 DEF t, v, u, s, m

LEMMA StartOfStart ==
  ASSUME NEW S, NEW list \in Seq(S), NEW n \in 0 .. Len(list), NEW k \in 0 .. n
  PROVE  Start(Start(list, n), k) = Start(list, k)
<1> DEFINE s == Start(list, n)
           t == Start(s, k)
           u == Start(list, k)
<1>1. k \in 0 .. Len(list) /\ Len(list) \in Nat
  BY LenProperties
<1>2. s \in Seq(S) /\ Len(s) = n /\ \A i \in 1 .. n : s[i] = list[i]
  BY StartFacts
<1>3. u \in Seq(S) /\ Len(u) = k /\ \A i \in 1 .. k : u[i] = list[i]
  BY <1>1, StartFacts
<1> HIDE DEF s
<1>4. t \in Seq(S) /\ Len(t) = k /\ \A i \in 1 .. k : t[i] = s[i]
  BY <1>2, StartFacts
<1> HIDE DEF t, u
<1>5. \A i \in 1 .. k : i \in 1 .. n
  BY <1>1
<1>6. t = u
  BY <1>2, <1>3, <1>4, <1>5, SeqEqual
<1> QED BY <1>6 DEF t, u, s

(* What passed the cursor when a delivery is over.                         *)
Passed(turn, list) == list \o Start(turn.page, Taken(turn))

LEMMA PassedFacts ==
  ASSUME NEW turn \in RoundType, NEW list, GoesOn(turn, list)
  PROVE  /\ Passed(turn, list) \in Seq(RowType)
         /\ Len(Passed(turn, list)) = Len(list) + Taken(turn)
         /\ \A i \in 1 .. Len(list) : Passed(turn, list)[i] = list[i]
         /\ \A k \in 1 .. Taken(turn) : Passed(turn, list)[Len(list) + k] = turn.page[k]
         /\ \A i \in 0 .. Len(list) : Start(Passed(turn, list), i) = Start(list, i)
         /\ \A k \in 0 .. Taken(turn) :
              Start(Passed(turn, list), Len(list) + k) = list \o Start(turn.page, k)
<1> DEFINE n == Taken(turn)
           s == Start(turn.page, n)
           all == list \o s
<1>1. n \in 0 .. Len(turn.page) /\ n \in Nat /\ turn.page \in Seq(RowType)
      /\ list \in Seq(RowType) /\ Len(list) \in Nat
  BY TakenFacts, LenProperties DEF RoundType, GoesOn
<1> HIDE DEF n
<1>2. s \in Seq(RowType) /\ Len(s) = n /\ \A i \in 1 .. n : s[i] = turn.page[i]
  BY <1>1, StartFacts
<1>3. \A k \in 0 .. n : Start(s, k) = Start(turn.page, k)
  BY <1>1, StartOfStart
<1> HIDE DEF s
<1>4. /\ all \in Seq(RowType) /\ Len(all) = Len(list) + n
      /\ \A i \in 1 .. Len(list) + n : all[i] = IF i <= Len(list) THEN list[i] ELSE s[i - Len(list)]
  BY <1>1, <1>2, ConcatProperties
<1>5. \A i \in 0 .. Len(list) : Start(all, i) = Start(list, i)
  BY <1>1, <1>2, StartOfJoined
<1>6. \A k \in 0 .. n : Start(all, Len(list) + k) = list \o Start(turn.page, k)
  <2>1. \A k \in 0 .. n : Start(all, Len(list) + k) = list \o Start(s, k)
    BY <1>1, <1>2, StartBeyond
  <2> QED BY <1>3, <2>1
<1> HIDE DEF all
<1>7. ASSUME NEW i \in 1 .. Len(list) PROVE all[i] = list[i]
  BY <1>1, <1>4
<1>8. ASSUME NEW k \in 1 .. n PROVE all[Len(list) + k] = turn.page[k]
  <2>1. Len(list) + k \in 1 .. Len(list) + n /\ ~(Len(list) + k <= Len(list))
        /\ Len(list) + k - Len(list) = k
    BY <1>1
  <2> QED BY <1>2, <1>4, <2>1
<1>9. Passed(turn, list) = all
  BY DEF Passed, all, s, n
<1> QED BY <1>4, <1>5, <1>6, <1>7, <1>8, <1>9 DEF n

(* The records that are kept are what the rows passed make of them.        *)
LEMMA FoldedInStep ==
  ASSUME NEW d \in Device, NEW turn \in RoundType, NEW list, GoesOn(turn, list)
  PROVE  /\ Len(Passed(turn, list)) = Reached(turn, Taken(turn))
         /\ \A i \in 1 .. Len(Passed(turn, list)) : Passed(turn, list)[i].seq = i
         /\ Anchored(FoldedAnchor(d, turn), Passed(turn, list))
<1> DEFINE n == Taken(turn)
           all == Passed(turn, list)
<1>1. /\ n \in 0 .. Len(turn.page) /\ n \in Nat /\ n \in 0 .. n /\ Len(turn.page) \in Nat
      /\ Len(list) = turn.cursor /\ turn.cursor \in Nat
      /\ \A i \in 1 .. Len(list) : list[i].seq = i
  BY TakenFacts DEF RoundType, GoesOn
<1>2. Reached(turn, n) = turn.cursor + n /\ \A k \in 1 .. n : turn.page[k].seq = turn.cursor + k
  BY <1>1, TakenNumbers
<1>3. /\ all \in Seq(RowType) /\ Len(all) = Len(list) + n
      /\ \A i \in 1 .. Len(list) : all[i] = list[i]
      /\ \A k \in 1 .. n : all[Len(list) + k] = turn.page[k]
  BY PassedFacts
<1>4. Ids(turn, n) = OperationsOf(all)
  BY <1>1, IdsAre DEF Passed
<1> HIDE DEF all
<1>5. ASSUME NEW e \in Device PROVE Link(turn, e, n) = EndLink(all, Len(all), e, NoLink)
  <2>1. AlikeFrom(all, 0, list, Len(list))
    <3>1. \A j \in 1 .. Len(list) : 0 + j = j
      BY <1>1
    <3> QED BY <1>3, <3>1 DEF AlikeFrom, Alike
  <2>2. AlikeFrom(all, Len(list), turn.page, n)
    BY <1>3 DEF AlikeFrom, Alike
  <2> HIDE DEF n
  <2> QED BY <1>1, <1>3, <2>1, <2>2, LinkIs
<1>6. \A i \in 1 .. Len(all) : all[i].seq = i
  <2> TAKE i \in 1 .. Len(all)
  <2>1. CASE i <= Len(list)
    <3>1. i \in 1 .. Len(list)
      BY <1>1, <1>3, <2>1
    <3> QED BY <1>1, <1>3, <3>1
  <2>2. CASE ~(i <= Len(list))
    <3>1. i - Len(list) \in 1 .. n /\ Len(list) + (i - Len(list)) = i
      BY <1>1, <1>3, <2>2
    <3> HIDE DEF n
    <3> QED BY <1>1, <1>2, <1>3, <3>1
  <2> QED BY <2>1, <2>2
<1>7. FoldedAnchor(d, turn).ids = Ids(turn, n)
      /\ \A e \in Device : FoldedAnchor(d, turn).chain[e] = Link(turn, e, n)
  BY DEF FoldedAnchor
<1>8. Anchored(FoldedAnchor(d, turn), all)
  BY <1>4, <1>5, <1>7 DEF Anchored, all
<1> QED BY <1>1, <1>2, <1>3, <1>6, <1>8 DEF all

(* A checkpoint that raised no alarm is borne out.                         *)
LEMMA QuietIsBorneOut ==
  ASSUME NEW d \in Device, NEW turn \in RoundType, NEW list, GoesOn(turn, list),
         NEW k \in 1 .. Taken(turn), turn.page[k].kind = "checkpoint", turn.page[k].dev # d,
         Verdict(d, turn, k) = NoAlarm
  PROVE  BorneOut(Passed(turn, list), Len(list) + k)
<1> DEFINE all == Passed(turn, list)
           entry == turn.page[k]
           e == entry.dev
           m == Len(list) + (k - 1)
           ids == Ids(turn, k - 1)
<1>1. /\ Taken(turn) \in 0 .. Len(turn.page) /\ Len(turn.page) \in Nat /\ Taken(turn) \in Nat
      /\ turn.page \in Seq(RowType) /\ k - 1 \in 0 .. Taken(turn) /\ k - 1 \in 0 .. Len(turn.page)
      /\ list \in Seq(RowType) /\ Len(list) \in Nat /\ k \in 1 .. Len(turn.page)
      /\ m \in Nat /\ Len(list) + k - 1 = m /\ Len(list) + k \in Nat
  BY TakenFacts, LenProperties DEF RoundType, GoesOn
<1>2. /\ all \in Seq(RowType) /\ Len(all) = Len(list) + Taken(turn)
      /\ \A i \in 1 .. Len(list) : all[i] = list[i]
      /\ \A j \in 1 .. Taken(turn) : all[Len(list) + j] = turn.page[j]
      /\ Start(all, m) = list \o Start(turn.page, k - 1)
  BY <1>1, PassedFacts
<1>3. ids = OperationsOf(Start(all, m))
  <2>1. Ids(turn, k - 1) = OperationsOf(list \o Start(turn.page, k - 1))
    BY <1>1, IdsAre
  <2> QED BY <1>2, <2>1
<1>4. Linked(turn, k) /\ Agrees(entry, ids)
  BY DEF Verdict, Compared, NoAlarm
<1>5. entry \in RowType
  BY <1>1
<1>6. e \in Device /\ entry.index \in Nat
  BY <1>5 DEF RowType
<1>7. all[Len(list) + k] = entry
  BY <1>2
<1> HIDE DEF all, ids
<1>8. Link(turn, e, k - 1) = EndLink(all, m, e, NoLink)
  <2>1. AlikeFrom(all, 0, list, Len(list))
    <3>1. \A j \in 1 .. Len(list) : 0 + j = j
      BY <1>1
    <3> QED BY <1>2, <3>1 DEF AlikeFrom, Alike
  <2>2. AlikeFrom(all, Len(list), turn.page, k - 1)
    <3>1. \A j \in 1 .. (k - 1) : j \in 1 .. Taken(turn)
      BY <1>1
    <3> QED BY <1>2, <3>1 DEF AlikeFrom, Alike
  <2> HIDE DEF e
  <2> QED BY <1>1, <1>6, <2>1, <2>2, LinkIs
<1>9. entry.index = Link(turn, e, k - 1).index + 1
  BY <1>4 DEF Linked, Follows
<1>10. ASSUME entry.index > 1
       PROVE  \E j \in 1 .. m : all[j].dev = e /\ all[j].index = entry.index - 1
  <2> DEFINE own == {i \in 1 .. m : all[i].kind = "checkpoint" /\ all[i].dev = e}
  <2>1. CASE own = {}
    <3>1. EndLink(all, m, e, NoLink) = NoLink /\ NoLink.index = 0
      BY <2>1 DEF EndLink, NoLink
    <3>2. entry.index = 1
      BY <1>8, <1>9, <3>1
    <3> QED BY <1>10, <3>2
  <2>2. CASE own # {}
    <3>1. EndLink(all, m, e, NoLink) = [index |-> all[Max(own)].index, digest |-> all[Max(own)].digest]
      BY <2>2 DEF EndLink
    <3>2. Max(own) \in own
      <4>1. own \in SUBSET (1 .. m)
        OBVIOUS
      <4> HIDE DEF own, m
      <4> QED BY <1>1, <2>2, <4>1, GreatestOf
    <3>3. Max(own) \in 1 .. m /\ all[Max(own)].dev = e
      BY <3>2
    <3> HIDE DEF own
    <3>4. all[Max(own)] \in RowType
      BY <1>1, <1>2, <3>3
    <3>5. all[Max(own)].index \in Nat
      BY <3>4 DEF RowType
    <3>6. all[Max(own)].index = entry.index - 1
      <4> HIDE DEF m, e, entry
      <4> QED BY <1>6, <1>8, <1>9, <3>1, <3>5
    <3> QED BY <3>3, <3>6
  <2> QED BY <2>1, <2>2
<1>11. /\ entry.count <= Len(ids)
       /\ entry.digest.set = ToSet(SubSeq(ids, 1, entry.count))
  BY <1>4 DEF Agrees, Digest
<1> DEFINE i == Len(list) + k
<1>12. i - 1 = m /\ all[i] = entry /\ e = entry.dev
  BY <1>1, <1>7
<1> HIDE DEF m, entry, e, i
<1>13. all[i].index > 1 => \E j \in 1 .. (i - 1) :
         all[j].dev = all[i].dev /\ all[j].index = all[i].index - 1
  BY <1>10, <1>12
<1>14. ids = OperationsOf(Start(all, i - 1))
  BY <1>3, <1>12
<1>15. BorneOut(all, i)
  BY <1>11, <1>12, <1>13, <1>14 DEF BorneOut
<1> QED BY <1>15 DEF all, i

LEMMA FoldPageAlone ==
  ASSUME IntakeInvariant, Once(rows, disk, round, past), AllAlone(disk, round, past),
         NEW d \in Device, NEW r \in Round, FoldPage(d, r)
  PROVE  AllAlone(disk', round', past')
<1> DEFINE turn == round[d][r]
           n == Taken(turn)
           list == past[d].rows
           journal == disk[d].journal \cup Folded(turn)
           cursor == Reached(turn, n)
           anchor == FoldedAnchor(d, turn)
           device == [disk[d] EXCEPT !.cursor = cursor, !.stop = Stop(turn),
                                     !.journal = journal, !.anchor = anchor]
<1>1. /\ disk[d] \in DiskType /\ disk \in [Device -> DiskType] /\ turn \in RoundType
      /\ past \in [Device -> PastType] /\ round \in [Device -> [Round -> RoundType]]
      /\ turn.at = "fold" /\ PassedBy(d, turn)
  BY DEF IntakeInvariant, IntakeTyped, FoldPage
<1>2. disk' = [disk EXCEPT ![d] = device]
  BY <1>1 DEF FoldPage, KeptRecords
<1>3. PICK next \in AfterPage(d, turn) : Goes(d, r, next)
  BY DEF FoldPage
<1>4. (GoesOn(turn, list) /\ OneRound(disk[d], round[d])) \/ past[d].overlap
  <2> SUFFICES ASSUME ~past[d].overlap PROVE GoesOn(turn, list) /\ OneRound(disk[d], round[d])
    OBVIOUS
  <2>1. Alone(d, disk[d], round[d], past[d])
    BY DEF AllAlone
  <2>2. turn.cursor = disk[d].cursor /\ turn.anchor = disk[d].anchor
    BY <1>1, <2>1 DEF Alone, OneRound
  <2>3. list \in Seq(RowType)
    BY <1>1 DEF PastType
  <2>4. \A o \in Op : \A k, m \in Nat :
          (In(list, o, k) \/ In(turn.page, o, k)) /\ (In(list, o, m) \/ In(turn.page, o, m)) => k = m
    <3>1. \A o \in Op : \A k \in Nat :
            In(list, o, k) \/ In(turn.page, o, k) => Placed(rows, round, past, o, k)
      BY DEF Placed
    <3> QED BY <3>1 DEF Once
  <2> QED BY <2>1, <2>2, <2>3, <2>4 DEF Alone, GoesOn
<1>5. ASSUME NEW e \in Device, e # d
      PROVE  disk'[e] = disk[e] /\ past'[e] = past[e]
  <2>1. disk'[e] = disk[e]
    BY <1>1, <1>2, <1>5
  <2>2. past'[e] = past[e]
    BY <1>1, <1>5 DEF PassedBy
  <2> QED BY <2>1, <2>2
<1>6. past[d].overlap => past'[d].overlap
  BY <1>1 DEF PassedBy
<1>7. ~past[d].overlap => /\ past'[d].rows = Passed(turn, list)
                          /\ past'[d].alarmed <=> past[d].alarmed \/ Alarms(d, turn) # {}
  <2> SUFFICES ASSUME ~past[d].overlap
               PROVE  /\ past'[d].rows = Passed(turn, list)
                      /\ past'[d].alarmed <=> past[d].alarmed \/ Alarms(d, turn) # {}
    OBVIOUS
  <2> DEFINE all == Passed(turn, list)
             alarmed == past[d].alarmed \/ Alarms(d, turn) # {}
             after == [past[d] EXCEPT !.rows = all, !.alarmed = alarmed]
  <2>1. past[d] \in PastType
    BY <1>1
  <2>2. past' = [past EXCEPT ![d] = after]
    BY <1>1, <2>1 DEF PassedBy, PastType, Passed, Start
  <2> HIDE DEF all, alarmed
  <2>3. after.rows = all /\ after.alarmed = alarmed
    BY <2>1 DEF PastType
  <2> HIDE DEF after
  <2>4. past'[d] = after
    BY <1>1, <2>2
  <2> QED BY <2>3, <2>4 DEF all, alarmed
<1> HIDE DEF journal, cursor, anchor
<1>8. device.cursor = cursor /\ device.anchor = anchor
  <2> HIDE DEF turn
  <2> QED BY <1>1 DEF DiskType
<1> HIDE DEF device
<1>9. disk'[d] = device
  BY <1>1, <1>2
<1>10. /\ next \in RoundType /\ next.at \in {"idle", "anchored", "fetch"}
       /\ next.at = "anchored" => next.anchor = anchor
       /\ next.at = "fetch" => next.cursor = cursor /\ next.anchor = anchor
  <2> HIDE DEF turn
  <2> QED BY <1>1, <1>3, AfterPageTyped DEF cursor, anchor
<1>11. \A e \in Device, s \in Round : round'[e][s] = IF e = d /\ s = r THEN next ELSE round[e][s]
  BY <1>1, <1>3, <1>10, GoesTyped
<1>12. ASSUME ~past[d].overlap PROVE Alone(d, disk'[d], round'[d], past'[d])
  <2>1. GoesOn(turn, list) /\ OneRound(disk[d], round[d]) /\ Reported(d, list, past[d].alarmed)
    BY <1>4, <1>12 DEF AllAlone, Alone
  <2>2. OneRound(disk'[d], round'[d])
    <3>1. \A s \in Round : round'[d][s] = IF s = r THEN next ELSE round[d][s]
      BY <1>11
    <3>2. \A s \in Round : s # r => round[d][s].at = "idle"
      BY <1>1, <2>1 DEF OneRound
    <3>3. next.at # "idle" => /\ next.anchor = disk'[d].anchor
                              /\ next.at \in {"fold", "fetch"} => next.cursor = disk'[d].cursor
      BY <1>8, <1>9, <1>10
    <3>4. OneRound(disk[d], round[d])
      BY <2>1
    <3> HIDE DEF turn, list, n
    <3> QED BY <3>1, <3>2, <3>3, <3>4, OneRoundGoes
  <2> DEFINE all == Passed(turn, list)
  <2>3. /\ Len(all) = cursor /\ \A i \in 1 .. Len(all) : all[i].seq = i
        /\ Anchored(anchor, all)
    <3> HIDE DEF turn, list
    <3> QED BY <1>1, <2>1, FoldedInStep DEF cursor, anchor, n
  <2>4. Reported(d, all, past'[d].alarmed)
    <3> SUFFICES ASSUME NEW i \in 1 .. Len(all), all[i].kind = "checkpoint", all[i].dev # d,
                        ~past'[d].alarmed
                 PROVE  BorneOut(all, i)
      BY DEF Reported
    <3>1. ~past[d].alarmed /\ Alarms(d, turn) = {}
      BY <1>7, <1>12
    <3>2. /\ all \in Seq(RowType) /\ Len(all) = Len(list) + n
          /\ \A j \in 1 .. Len(list) : all[j] = list[j]
          /\ \A k \in 1 .. n : all[Len(list) + k] = turn.page[k]
          /\ \A j \in 0 .. Len(list) : Start(all, j) = Start(list, j)
          /\ list \in Seq(RowType) /\ Len(list) \in Nat /\ n \in Nat
      <4> HIDE DEF turn, list
      <4>1. list \in Seq(RowType) /\ Len(list) \in Nat /\ n \in Nat
        BY <1>1, <2>1, TakenFacts, LenProperties DEF GoesOn, n
      <4> QED BY <1>1, <2>1, <4>1, PassedFacts DEF n
    <3> HIDE DEF all
    <3>3. CASE i <= Len(list)
      <4>1. i \in 1 .. Len(list) /\ i - 1 \in 0 .. Len(list) /\ \A j \in 1 .. (i - 1) : j \in 1 .. Len(list)
        BY <3>2, <3>3
      <4>2. all[i] = list[i] /\ Start(all, i - 1) = Start(list, i - 1)
            /\ \A j \in 1 .. (i - 1) : all[j] = list[j]
        BY <3>2, <4>1
      <4>3. BorneOut(list, i)
        BY <2>1, <3>1, <4>1, <4>2 DEF Reported
      <4> QED BY <4>2, <4>3 DEF BorneOut
    <3>4. CASE ~(i <= Len(list))
      <4> DEFINE k == i - Len(list)
      <4>1. k \in 1 .. n /\ Len(list) + k = i
        BY <3>2, <3>4
      <4> HIDE DEF k
      <4>2. all[i] = turn.page[k]
        BY <3>2, <4>1
      <4>3. Verdict(d, turn, k) = NoAlarm
        BY <3>1, <4>1 DEF Alarms
      <4>4. BorneOut(Passed(turn, list), Len(list) + k)
        <5> HIDE DEF turn, list
        <5>1. k \in 1 .. Taken(turn)
          BY <4>1 DEF n
        <5> QED BY <1>1, <2>1, <4>2, <4>3, <5>1, QuietIsBorneOut
      <4> QED BY <4>1, <4>4 DEF all
    <3> QED BY <3>3, <3>4
  <2> HIDE DEF all
  <2> QED BY <1>7, <1>8, <1>9, <1>12, <2>2, <2>3, <2>4 DEF Alone, all
<1>13. ASSUME NEW e \in Device, ~past'[e].overlap PROVE Alone(e, disk'[e], round'[e], past'[e])
  <2>1. CASE e = d
    BY <1>6, <1>12, <1>13, <2>1
  <2>2. CASE e # d
    <3>1. Alone(e, disk[e], round[e], past[e])
      BY <1>5, <1>13, <2>2 DEF AllAlone
    <3>2. OneRound(disk[e], round'[e])
      BY <1>11, <2>2, <3>1 DEF Alone, OneRound
    <3> QED BY <1>5, <2>2, <3>1, <3>2 DEF Alone
  <2> QED BY <2>1, <2>2
<1> QED BY <1>13 DEF AllAlone

-----------------------------------------------------------------------------
(* Intake: nobody is harmed.                                               *)

LEMMA EndLinkAt ==
  ASSUME NEW list, NEW e, NEW link, NEW k \in Nat \ {0}
  PROVE  EndLink(list, k, e, link) =
           IF IsMark(list[k], e) THEN LinkOf(list[k]) ELSE EndLink(list, k - 1, e, link)
BY EndLinkNext

(* A row more in the queue.                                                *)
LEMMA QueueGrows ==
  ASSUME NEW list, NEW e, NEW dk, HonestQueue(list, e, dk), dk.outbox \in Seq(RowType),
         NEW entry, entry.dev = e,
         entry.kind = "checkpoint" =>
           /\ \E m \in 0 .. Len(list) : Counts(entry, Start(list, m))
           /\ Follows(entry, dk.anchor.own),
         NEW dk2, dk2.outbox = Append(dk.outbox, entry),
         dk2.anchor.own = IF IsMark(entry, e) THEN LinkOf(entry) ELSE dk.anchor.own
  PROVE  HonestQueue(list, e, dk2)
<1> DEFINE old == dk.outbox
           queue == Append(old, entry)
           n == Len(old)
           from == EndLink(list, Len(list), e, NoLink)
<1>1. /\ n \in Nat /\ Len(queue) = n + 1
      /\ \A i \in 1 .. n + 1 : queue[i] = IF i <= n THEN old[i] ELSE entry
  BY LenProperties
<1>2. (\A i \in 1 .. n : queue[i] = old[i]) /\ queue[n + 1] = entry
  BY <1>1
<1>3. /\ \A i \in 1 .. n :
           /\ old[i].dev = e
           /\ old[i].kind = "checkpoint" => \E m \in 0 .. Len(list) : Counts(old[i], Start(list, m))
      /\ Linear(old, e, from) /\ dk.anchor.own = EndLink(old, n, e, from)
  BY DEF HonestQueue
<1> HIDE DEF queue, from, old
<1>4. AlikeFrom(queue, 0, old, n)
  <2>1. \A j \in 1 .. n : 0 + j = j
    BY <1>1
  <2> QED BY <1>2, <2>1 DEF AlikeFrom, Alike
<1> HIDE DEF n
<1>5. \A k \in 0 .. n : EndLink(queue, k, e, from) = EndLink(old, k, e, from)
  BY <1>1, <1>4, EndLinkSame
<1>6. EndLink(queue, n, e, from) = dk.anchor.own
  BY <1>1, <1>3, <1>5
<1>7. EndLink(queue, n + 1, e, from) = IF IsMark(entry, e) THEN LinkOf(entry) ELSE dk.anchor.own
  <2> DEFINE k == n + 1
  <2>1. k \in Nat \ {0} /\ k - 1 = n
    BY <1>1
  <2>2. queue[k] = entry
    BY <1>2
  <2> HIDE DEF k
  <2>3. EndLink(queue, k, e, from) =
          IF IsMark(queue[k], e) THEN LinkOf(queue[k]) ELSE EndLink(queue, k - 1, e, from)
    BY <2>1, EndLinkAt
  <2>4. EndLink(queue, k, e, from) = IF IsMark(entry, e) THEN LinkOf(entry) ELSE dk.anchor.own
    BY <1>6, <2>1, <2>2, <2>3
  <2> QED BY <2>4 DEF k
<1>8. Linear(queue, e, from)
  <2> SUFFICES ASSUME NEW i \in 1 .. Len(queue), IsMark(queue[i], e)
               PROVE  Follows(queue[i], EndLink(queue, i - 1, e, from))
    BY DEF Linear
  <2>1. CASE i <= n
    <3>1. i \in 1 .. n /\ i - 1 \in 0 .. n
      BY <1>1, <2>1
    <3>2. Follows(old[i], EndLink(old, i - 1, e, from))
      BY <1>2, <1>3, <3>1 DEF Linear, n
    <3> QED BY <1>2, <1>5, <3>1, <3>2
  <2>2. CASE ~(i <= n)
    <3>1. i = n + 1 /\ i - 1 = n
      BY <1>1, <2>2
    <3>2. entry.kind = "checkpoint"
      BY <1>2, <3>1 DEF IsMark
    <3> QED BY <1>2, <1>6, <3>1, <3>2
  <2> QED BY <2>1, <2>2
<1>9. ASSUME NEW i \in 1 .. Len(queue)
      PROVE  /\ queue[i].dev = e
             /\ queue[i].kind = "checkpoint" => \E m \in 0 .. Len(list) : Counts(queue[i], Start(list, m))
  <2>1. CASE i <= n
    <3>1. i \in 1 .. n
      BY <1>1, <2>1
    <3> QED BY <1>2, <1>3, <3>1
  <2>2. CASE ~(i <= n)
    <3>1. i = n + 1
      BY <1>1, <2>2
    <3> QED BY <1>2, <3>1
  <2> QED BY <2>1, <2>2
<1>10. dk2.outbox = queue /\ dk2.anchor.own = EndLink(queue, Len(queue), e, from)
  BY <1>1, <1>7 DEF queue, old
<1> HIDE DEF Linear
<1> QED BY <1>8, <1>9, <1>10 DEF HonestQueue, from

LEMMA WriteHonest ==
  ASSUME IntakeInvariant, Honest(rows, disk, past), NEW d \in Device, NEW o \in Op, Write(d, o)
  PROVE  Honest(rows', disk', past')
<1> DEFINE entry == OperationRow(d, o)
           journal == disk[d].journal \cup {o}
           queue == Append(disk[d].outbox, entry)
           device == [disk[d] EXCEPT !.journal = journal, !.outbox = queue]
<1>1. /\ disk[d] \in DiskType /\ disk \in [Device -> DiskType]
      /\ rows' = rows /\ past' = past
  BY DEF IntakeInvariant, IntakeTyped, Write
<1>2. disk' = [disk EXCEPT ![d] = device]
  BY <1>1 DEF Write, DiskType
<1>3. entry.dev = d /\ entry.kind = "operation"
  BY DEF OperationRow
<1> HIDE DEF journal, entry
<1>4. /\ device.cursor = disk[d].cursor /\ device.anchor = disk[d].anchor
      /\ device.outbox = Append(disk[d].outbox, entry)
  BY <1>1 DEF DiskType
<1> HIDE DEF device
<1>5. \A e \in Device : disk'[e] = IF e = d THEN device ELSE disk[e]
  BY <1>1, <1>2
<1>6. HonestQueue(rows, d, device)
  <2>1. HonestQueue(rows, d, disk[d]) /\ disk[d].outbox \in Seq(RowType)
    BY <1>1 DEF Honest, DiskType
  <2>2. device.anchor.own = IF IsMark(entry, d) THEN LinkOf(entry) ELSE disk[d].anchor.own
    BY <1>3, <1>4 DEF IsMark
  <2>3. entry.kind # "checkpoint"
    BY <1>3
  <2> QED BY <1>3, <1>4, <2>1, <2>2, <2>3, QueueGrows
<1>7. \A e \in Device : HonestQueue(rows, e, disk'[e]) /\ disk'[e].cursor = disk[e].cursor
  BY <1>4, <1>5, <1>6 DEF Honest
<1> QED BY <1>1, <1>7 DEF Honest

(* What is counted is what this device has passed.                         *)
LEMMA WriteCheckpointHonest ==
  ASSUME IntakeInvariant, AllAlone(disk, round, past), Serial, faults = 0, Honest(rows, disk, past),
         NEW d \in Device, NEW r \in Round, WriteCheckpoint(d, r)
  PROVE  Honest(rows', disk', past')
<1> DEFINE turn == round[d][r]
           entry == NextLink(d, turn.anchor)
           queue == Append(disk[d].outbox, entry)
           own == [index |-> entry.index, digest |-> entry.digest]
           anchor == [turn.anchor EXCEPT !.own = own, !.since = 0]
           device == [disk[d] EXCEPT !.outbox = queue, !.anchor = anchor]
<1>1. /\ disk[d] \in DiskType /\ disk \in [Device -> DiskType] /\ turn \in RoundType
      /\ rows' = rows /\ past' = past /\ turn.at = "anchored" /\ rows \in Seq(RowType)
      /\ disk' = [disk EXCEPT ![d] = device] /\ Has(rows, disk[d].cursor, disk[d].journal)
  BY DEF IntakeInvariant, IntakeTyped, WriteCheckpoint, DiskType, Whole
<1>2. turn.anchor \in AnchorType /\ disk[d].cursor \in Nat
  BY <1>1 DEF RoundType, DiskType
<1>3. Alone(d, disk[d], round[d], past[d])
  BY DEF AllAlone, Serial
<1>4. turn.anchor = disk[d].anchor
  BY <1>1, <1>3 DEF Alone, OneRound
<1>5. turn.anchor.ids = OperationsOf(Start(rows, disk[d].cursor))
  BY <1>3, <1>4 DEF Alone, Anchored, Honest
<1>6. /\ entry.dev = d /\ entry.kind = "checkpoint"
      /\ entry.index = disk[d].anchor.own.index + 1
      /\ entry.prev = (IF disk[d].anchor.own = NoLink THEN Seed(d) ELSE disk[d].anchor.own.digest)
      /\ entry.count = Len(turn.anchor.ids) /\ entry.digest = Digest(ToSet(turn.anchor.ids))
  BY <1>4 DEF NextLink, CheckpointRow
<1> HIDE DEF turn, entry
<1>7. Follows(entry, disk[d].anchor.own)
  BY <1>6 DEF Follows
<1>8. \E m \in 0 .. Len(rows) : Counts(entry, Start(rows, m))
  <2>1. disk[d].cursor \in 0 .. Len(rows)
    <3>1. Len(rows) \in Nat /\ disk[d].cursor <= Len(rows)
      BY <1>1, LenProperties DEF Has
    <3> QED BY <1>2, <3>1
  <2>2. Counts(entry, Start(rows, disk[d].cursor))
    BY <1>5, <1>6 DEF Counts
  <2> QED BY <2>1, <2>2
<1>9. own = LinkOf(entry) /\ IsMark(entry, d)
  BY <1>6 DEF LinkOf, IsMark
<1> HIDE DEF own
<1>10. anchor.own = LinkOf(entry)
  BY <1>2, <1>9 DEF AnchorType
<1> HIDE DEF anchor
<1>11. /\ device.cursor = disk[d].cursor /\ device.anchor = anchor
       /\ device.outbox = Append(disk[d].outbox, entry)
  BY <1>1 DEF DiskType
<1> HIDE DEF device
<1>12. \A e \in Device : disk'[e] = IF e = d THEN device ELSE disk[e]
  BY <1>1
<1>13. HonestQueue(rows, d, device)
  <2>1. HonestQueue(rows, d, disk[d]) /\ disk[d].outbox \in Seq(RowType)
    BY <1>1 DEF Honest, DiskType
  <2>2. device.anchor.own = IF IsMark(entry, d) THEN LinkOf(entry) ELSE disk[d].anchor.own
    BY <1>9, <1>10, <1>11
  <2>3. entry.dev = d
    BY <1>6
  <2> QED BY <1>7, <1>8, <1>11, <2>1, <2>2, <2>3, QueueGrows
<1>14. \A e \in Device : HonestQueue(rows, e, disk'[e]) /\ disk'[e].cursor = disk[e].cursor
  BY <1>11, <1>12, <1>13 DEF Honest
<1> QED BY <1>1, <1>14 DEF Honest

(* The queue of one device becomes rows.                                   *)
LEMMA BeginHonest ==
  ASSUME IntakeInvariant, faults = 0, Honest(rows, disk, past), Serial',
         NEW d \in Device, NEW r \in Round, Begin(d, r)
  PROVE  Honest(rows', disk', past')
<1> DEFINE queue == disk[d].outbox
           more == Numbered(queue)
           device == [disk[d] EXCEPT !.outbox = <<>>]
           m == Len(rows)
           n == Len(queue)
           From(e) == EndLink(rows, m, e, NoLink)
<1>1. /\ disk[d] \in DiskType /\ disk \in [Device -> DiskType] /\ rows \in Seq(RowType)
      /\ past \in [Device -> PastType] /\ rows' = rows \o more /\ queue \in Seq(RowType)
      /\ disk' = [disk EXCEPT ![d] = device]
  BY DEF IntakeInvariant, IntakeTyped, Begin, DiskType
<1>2. past' = past
  <2>1. CASE Busy(d) = {}
    BY <2>1 DEF Begin
  <2>2. CASE Busy(d) # {}
    <3> DEFINE ended == [NothingPassed EXCEPT !.overlap = TRUE]
    <3>1. past' = [past EXCEPT ![d] = ended]
      BY <2>2 DEF Begin
    <3>2. ended.overlap = TRUE
      BY DEF NothingPassed
    <3> HIDE DEF ended
    <3>3. past'[d].overlap
      BY <1>1, <3>1, <3>2
    <3> QED BY <3>3 DEF Serial
  <2> QED BY <2>1, <2>2
<1>3. /\ more \in Seq(RowType) /\ Len(more) = n
      /\ \A i \in 1 .. n : more[i] = [queue[i] EXCEPT !.seq = LastSeq + i]
  BY <1>1, NumberedFacts
<1>4. \A i \in 1 .. n : queue[i] \in RowType
  BY <1>1
<1>5. ASSUME NEW i \in 1 .. n
      PROVE  /\ Alike(more[i], queue[i])
             /\ more[i].count = queue[i].count
  <2>1. more[i] = [queue[i] EXCEPT !.seq = LastSeq + i] /\ queue[i] \in RowType
    BY <1>3, <1>4
  <2> DEFINE old == queue[i]
             number == LastSeq + i
  <2> HIDE DEF old, number, more
  <2>2. more[i] = [old EXCEPT !.seq = number] /\ old \in RowType
    BY <2>1 DEF old, number
  <2>3. Alike(more[i], old) /\ more[i].count = old.count
    BY <2>2 DEF RowType, Alike
  <2> QED BY <2>3 DEF old
<1> HIDE DEF more
<1>6. /\ rows' \in Seq(RowType) /\ Len(rows') = m + n /\ m \in Nat /\ n \in Nat
      /\ \A i \in 1 .. m + n : rows'[i] = IF i <= m THEN rows[i] ELSE more[i - m]
  <2>1. Len(rows) \in Nat /\ Len(queue) \in Nat
    BY <1>1, LenProperties
  <2>2. /\ rows \o more \in Seq(RowType) /\ Len(rows \o more) = Len(rows) + Len(more)
        /\ \A i \in 1 .. Len(rows) + Len(more) :
             (rows \o more)[i] = IF i <= Len(rows) THEN rows[i] ELSE more[i - Len(rows)]
    <3>1. rows \in Seq(RowType) /\ more \in Seq(RowType)
      BY <1>1, <1>3
    <3> QED BY <3>1, ConcatProperties
  <2> QED BY <1>1, <1>3, <2>1, <2>2
<1>7. /\ \A i \in 1 .. m : rows'[i] = rows[i]
      /\ \A j \in 1 .. n : rows'[m + j] = more[j]
  <2>1. \A i \in 1 .. m : rows'[i] = rows[i]
    BY <1>6
  <2>2. ASSUME NEW j \in 1 .. n PROVE rows'[m + j] = more[j]
    <3>1. m + j \in 1 .. m + n /\ ~(m + j <= m) /\ m + j - m = j
      BY <1>6
    <3> QED BY <1>6, <3>1
  <2> QED BY <2>1, <2>2
<1>8. \A k \in 0 .. m : Start(rows', k) = Start(rows, k)
  BY <1>1, <1>3, StartOfJoined
<1>9. AlikeFrom(rows', 0, rows, m) /\ AlikeFrom(rows', m, queue, n)
  <2>1. \A j \in 1 .. m : 0 + j = j
    BY <1>6
  <2>2. AlikeFrom(rows', 0, rows, m)
    BY <1>7, <2>1 DEF AlikeFrom, Alike
  <2>3. AlikeFrom(rows', m, queue, n)
    BY <1>5, <1>7 DEF AlikeFrom
  <2> QED BY <2>2, <2>3
<1>10. /\ HonestQueue(rows, d, disk[d]) /\ HonestRows(rows)
       /\ \A i \in 1 .. n : queue[i].dev = d
       /\ Linear(queue, d, From(d)) /\ disk[d].anchor.own = EndLink(queue, n, d, From(d))
       /\ \A i \in 1 .. n : queue[i].kind = "checkpoint" =>
            \E k \in 0 .. m : Counts(queue[i], Start(rows, k))
  BY DEF Honest, HonestQueue
<1>11. /\ device.cursor = disk[d].cursor /\ device.anchor = disk[d].anchor /\ device.outbox = <<>>
       /\ Len(<<>>) = 0
  BY <1>1, EmptySeq DEF DiskType
<1> HIDE DEF device
<1>12. \A e \in Device : disk'[e] = IF e = d THEN device ELSE disk[e]
  BY <1>1
<1> HIDE DEF queue, m, n, From
<1>13. ASSUME NEW e \in Device
       PROVE  /\ \A k \in 0 .. m : EndLink(rows', k, e, NoLink) = EndLink(rows, k, e, NoLink)
              /\ From(e) = EndLink(rows', m, e, NoLink)
              /\ EndLink(rows', m + n, e, NoLink) = EndLink(queue, n, e, From(e))
  <2>1. \A k \in 0 .. m : EndLink(rows', k, e, NoLink) = EndLink(rows, k, e, NoLink)
    BY <1>6, <1>9, EndLinkSame
  <2>2. From(e) = EndLink(rows', m, e, NoLink)
    <3>1. m \in 0 .. m
      BY <1>6
    <3> QED BY <2>1, <3>1 DEF From
  <2>3. \A k \in 0 .. n : EndLink(rows', m + k, e, NoLink) = EndLink(queue, k, e, From(e))
    BY <1>6, <1>9, <2>2, EndLinkJoined
  <2>4. n \in 0 .. n
    BY <1>6
  <2> QED BY <2>1, <2>2, <2>3, <2>4
<1>14. ASSUME NEW e \in Device, e # d PROVE EndLink(queue, n, e, From(e)) = From(e)
  <2>1. \A i \in 1 .. n : ~IsMark(queue[i], e)
    BY <1>10, <1>14 DEF IsMark
  <2> QED BY <2>1, NoMarks
<1>15. ASSUME NEW e \in Device PROVE Linear(rows', e, NoLink)
  <2>1. LinearTo(rows', m, e, NoLink)
    <3> SUFFICES ASSUME NEW i \in 1 .. m, IsMark(rows'[i], e)
                 PROVE  Follows(rows'[i], EndLink(rows', i - 1, e, NoLink))
      BY DEF LinearTo
    <3>1. i - 1 \in 0 .. m /\ rows'[i] = rows[i]
      BY <1>6, <1>7
    <3>2. Follows(rows[i], EndLink(rows, i - 1, e, NoLink))
      BY <1>10, <3>1 DEF HonestRows, Linear, m
    <3> QED BY <1>13, <3>1, <3>2
  <2>2. LinearTo(queue, n, e, From(e))
    <3>1. CASE e = d
      BY <1>10, <3>1 DEF Linear, LinearTo, n
    <3>2. CASE e # d
      <4>1. \A i \in 1 .. n : ~IsMark(queue[i], e)
        BY <1>10, <3>2 DEF IsMark
      <4> QED BY <4>1 DEF LinearTo
    <3> QED BY <3>1, <3>2
  <2>3. LinearTo(rows', m + n, e, NoLink)
    BY <1>6, <1>9, <1>13, <2>1, <2>2, LinearJoined
  <2> QED BY <1>6, <2>3 DEF LinearTo, Linear
<1>16. ASSUME NEW i \in 1 .. Len(rows'), rows'[i].kind = "checkpoint"
       PROVE  \E k \in 0 .. (i - 1) : Counts(rows'[i], Start(rows', k))
  <2>1. CASE i <= m
    <3>1. i \in 1 .. m /\ rows'[i] = rows[i]
      BY <1>6, <1>7, <2>1
    <3>2. PICK k \in 0 .. (i - 1) : Counts(rows[i], Start(rows, k))
      BY <1>10, <1>16, <3>1 DEF HonestRows, m
    <3>3. k \in 0 .. m
      BY <1>6, <3>1, <3>2
    <3> QED BY <1>8, <3>1, <3>2, <3>3
  <2>2. CASE ~(i <= m)
    <3> DEFINE j == i - m
    <3>1. j \in 1 .. n /\ m + j = i /\ \A k \in 0 .. m : k \in 0 .. (i - 1)
      BY <1>6, <2>2
    <3> HIDE DEF j
    <3>2. /\ rows'[i] = more[j] /\ more[j].kind = queue[j].kind
          /\ more[j].count = queue[j].count /\ more[j].digest = queue[j].digest
      BY <1>5, <1>7, <3>1 DEF Alike
    <3>3. PICK k \in 0 .. m : Counts(queue[j], Start(rows, k))
      BY <1>10, <1>16, <3>1, <3>2
    <3>4. Counts(rows'[i], Start(rows', k))
      BY <1>8, <3>2, <3>3 DEF Counts
    <3> QED BY <3>1, <3>4
  <2> QED BY <2>1, <2>2
<1>17. HonestRows(rows')
  BY <1>15, <1>16 DEF HonestRows
<1>18. HonestQueue(rows', d, disk'[d])
  <2> DEFINE from == EndLink(rows', Len(rows'), d, NoLink)
  <2>1. disk'[d].outbox = <<>> /\ disk'[d].anchor.own = disk[d].anchor.own
    BY <1>11, <1>12
  <2>2. from = disk[d].anchor.own
    BY <1>6, <1>10, <1>13
  <2>3. EndLink(<<>>, 0, d, from) = from
    BY EndLinkNext
  <2> HIDE DEF from
  <2>4. Linear(<<>>, d, from)
    BY <1>11 DEF Linear
  <2> QED BY <1>11, <2>1, <2>2, <2>3, <2>4 DEF HonestQueue, from
<1>19. ASSUME NEW e \in Device, e # d PROVE HonestQueue(rows', e, disk'[e])
  <2>1. HonestQueue(rows, e, disk[e]) /\ disk'[e] = disk[e]
    BY <1>12, <1>19 DEF Honest
  <2>2. EndLink(rows', Len(rows'), e, NoLink) = EndLink(rows, Len(rows), e, NoLink)
    BY <1>6, <1>13, <1>14, <1>19 DEF From, m
  <2>3. ASSUME NEW i \in 1 .. Len(disk[e].outbox), disk[e].outbox[i].kind = "checkpoint"
        PROVE  \E k \in 0 .. Len(rows') : Counts(disk[e].outbox[i], Start(rows', k))
    <3>1. PICK k \in 0 .. Len(rows) : Counts(disk[e].outbox[i], Start(rows, k))
      BY <2>1, <2>3 DEF HonestQueue
    <3>2. k \in 0 .. m /\ k \in 0 .. Len(rows')
      BY <1>6, <3>1 DEF m
    <3> QED BY <1>8, <3>1, <3>2
  <2> QED BY <2>1, <2>2, <2>3 DEF HonestQueue
<1>20. ASSUME NEW e \in Device
       PROVE  past'[e].rows = Start(rows', disk'[e].cursor) /\ ~past'[e].alarmed
  <2>1. disk'[e].cursor = disk[e].cursor
    BY <1>11, <1>12
  <2>2. disk[e].cursor \in 0 .. m
    <3>1. disk[e].cursor \in Nat /\ Has(rows, disk[e].cursor, disk[e].journal)
      BY DEF IntakeInvariant, IntakeTyped, DiskType, Whole
    <3> QED BY <1>6, <3>1 DEF Has, m
  <2>3. past[e].rows = Start(rows, disk[e].cursor) /\ ~past[e].alarmed
    BY DEF Honest
  <2> QED BY <1>2, <1>8, <2>1, <2>2, <2>3
<1> QED BY <1>17, <1>18, <1>19, <1>20 DEF Honest

(* A delivery of the rows that come next raises no alarm.                  *)
NextOf(turn, list, all) ==
  /\ all \in Seq(RowType) /\ HonestRows(all) /\ turn.cursor <= Len(all)
  /\ list = Start(all, turn.cursor)
  /\ \A k \in 1 .. Len(turn.page) :
       turn.cursor + k <= Len(all) /\ turn.page[k] = all[turn.cursor + k]

LEMMA HonestRaisesNone ==
  ASSUME NEW d \in Device, NEW turn \in RoundType, NEW list, GoesOn(turn, list),
         NEW all, NextOf(turn, list, all)
  PROVE  /\ Passed(turn, list) = Start(all, Reached(turn, Taken(turn)))
         /\ Alarms(d, turn) = {}
<1> DEFINE c == turn.cursor
           n == Taken(turn)
           s == Passed(turn, list)
<1>0. /\ all \in Seq(RowType) /\ HonestRows(all) /\ c <= Len(all) /\ list = Start(all, c)
      /\ \A k \in 1 .. Len(turn.page) : c + k <= Len(all) /\ turn.page[k] = all[c + k]
  BY DEF NextOf
<1>1. /\ n \in 0 .. Len(turn.page) /\ n \in Nat /\ Len(turn.page) \in Nat /\ c \in Nat
      /\ turn.page \in Seq(RowType) /\ Len(list) = c /\ Len(all) \in Nat
      /\ c \in 0 .. Len(all)
  <2>1. n \in 0 .. Len(turn.page) /\ n \in Nat /\ Len(turn.page) \in Nat
    BY TakenFacts
  <2> QED BY <1>0, <2>1, LenProperties DEF RoundType, GoesOn
<1>2. \A k \in 1 .. n : k \in 1 .. Len(turn.page)
  BY <1>1
<1>3. Reached(turn, n) = c + n
  BY <1>1, TakenNumbers
<1>4. c + n \in 0 .. Len(all)
  <2>1. CASE n = 0
    BY <1>1, <2>1
  <2>2. CASE n # 0
    BY <1>0, <1>1, <2>2
  <2> QED BY <2>1, <2>2
<1>5. /\ s \in Seq(RowType) /\ Len(s) = c + n
      /\ \A i \in 1 .. c : s[i] = list[i]
      /\ \A k \in 1 .. n : s[c + k] = turn.page[k]
      /\ \A k \in 0 .. n : Start(s, c + k) = list \o Start(turn.page, k)
  <2>1. /\ s \in Seq(RowType) /\ Len(s) = Len(list) + n
        /\ \A i \in 1 .. Len(list) : s[i] = list[i]
        /\ \A k \in 1 .. n : s[Len(list) + k] = turn.page[k]
        /\ \A k \in 0 .. n : Start(s, Len(list) + k) = list \o Start(turn.page, k)
    BY PassedFacts
  <2> QED BY <1>1, <2>1
<1>6. \A i \in 1 .. c : list[i] = all[i]
  BY <1>0, <1>1, StartFacts
<1> HIDE DEF s
<1>7. \A i \in 1 .. c + n : s[i] = all[i]
  <2> TAKE i \in 1 .. c + n
  <2>1. CASE i <= c
    <3>1. i \in 1 .. c
      BY <1>1, <2>1
    <3> QED BY <1>5, <1>6, <3>1
  <2>2. CASE ~(i <= c)
    <3>1. i - c \in 1 .. n /\ c + (i - c) = i
      BY <1>1, <2>2
    <3>2. s[i] = turn.page[i - c]
      BY <1>5, <3>1
    <3>3. turn.page[i - c] = all[c + (i - c)]
      BY <1>0, <1>2, <3>1
    <3> QED BY <3>1, <3>2, <3>3
  <2> QED BY <2>1, <2>2
<1>8. s = Start(all, c + n)
  <2> DEFINE t == Start(all, c + n)
  <2>1. t \in Seq(RowType) /\ Len(t) = c + n /\ \A i \in 1 .. c + n : t[i] = all[i]
    <3> HIDE DEF c, n
    <3> QED BY <1>0, <1>4, StartFacts
  <2> HIDE DEF t
  <2>2. s = t
    BY <1>5, <1>7, <2>1, SeqEqual
  <2> QED BY <2>2 DEF t
<1>9. ASSUME NEW k \in 0 .. n PROVE list \o Start(turn.page, k) = Start(all, c + k)
  <2>1. c + k \in 0 .. (c + n)
    BY <1>1
  <2>2. Start(Start(all, c + n), c + k) = Start(all, c + k)
    <3> HIDE DEF c, n
    <3> QED BY <1>0, <1>4, <2>1, StartOfStart
  <2> QED BY <1>5, <1>8, <2>2
<1>10. ASSUME NEW k \in 1 .. n PROVE Verdict(d, turn, k) = NoAlarm
  <2> DEFINE entry == turn.page[k]
             e == entry.dev
             m == c + (k - 1)
             ids == Ids(turn, k - 1)
  <2>1. /\ k \in 1 .. Len(turn.page) /\ k - 1 \in 0 .. n /\ k - 1 \in 0 .. Len(turn.page)
        /\ m \in Nat /\ c + k \in Nat /\ c + k - 1 = m
    BY <1>1
  <2>2. entry = all[c + k] /\ c + k \in 1 .. Len(all) /\ entry \in RowType
    <3>1. entry = all[c + k] /\ c + k <= Len(all)
      BY <1>0, <2>1
    <3>2. c + k \in 1 .. Len(all)
      BY <1>1, <2>1, <3>1
    <3>3. entry \in RowType
      BY <1>1, <2>1
    <3> QED BY <3>1, <3>2, <3>3
  <2>3. e \in Device
    BY <2>2 DEF RowType
  <2>4. ids = OperationsOf(Start(all, m))
    <3>1. Ids(turn, k - 1) = OperationsOf(list \o Start(turn.page, k - 1))
      BY <2>1, IdsAre
    <3> QED BY <1>9, <2>1, <3>1
  <2>5. Link(turn, e, k - 1) = EndLink(all, m, e, NoLink)
    <3>1. AlikeFrom(all, 0, list, Len(list))
      <4>1. \A j \in 1 .. c : 0 + j = j
        BY <1>1
      <4> QED BY <1>1, <1>6, <4>1 DEF AlikeFrom, Alike
    <3>2. AlikeFrom(all, Len(list), turn.page, k - 1)
      <4>1. \A j \in 1 .. (k - 1) : j \in 1 .. Len(turn.page)
        BY <1>1, <2>1
      <4>2. \A j \in 1 .. (k - 1) : turn.page[j] = all[c + j]
        BY <1>0, <4>1
      <4> QED BY <1>1, <4>2 DEF AlikeFrom, Alike
    <3>3. Link(turn, e, k - 1) = EndLink(all, Len(list) + (k - 1), e, NoLink)
      <4> HIDE DEF e
      <4> QED BY <2>1, <2>3, <3>1, <3>2, LinkIs
    <3> QED BY <1>1, <3>3
  <2>6. CASE entry.kind # "checkpoint"
    BY <2>6 DEF Verdict, Compared
  <2>7. CASE entry.kind = "checkpoint"
    <3> DEFINE i == c + k
    <3>0. i \in 1 .. Len(all) /\ entry = all[i] /\ i - 1 = m
      BY <1>1, <2>1, <2>2
    <3> HIDE DEF i, m
    <3>1. Follows(entry, EndLink(all, m, e, NoLink))
      <4>1. Linear(all, e, NoLink)
        BY <1>0, <2>3 DEF HonestRows
      <4>2. IsMark(all[i], e)
        BY <2>7, <3>0 DEF IsMark
      <4> HIDE DEF e, entry
      <4> QED BY <3>0, <4>1, <4>2 DEF Linear
    <3>2. Linked(turn, k)
      BY <2>1, <2>5, <3>1 DEF Linked
    <3>3. PICK j \in 0 .. m : Counts(entry, Start(all, j))
      BY <1>0, <2>7, <3>0 DEF HonestRows
    <3>4. Agrees(entry, ids)
      <4> DEFINE some == OperationsOf(Start(all, j))
      <4>1. m \in 0 .. Len(all) /\ j \in 0 .. m
        BY <1>1, <2>1, <3>0, <3>3
      <4>2. Len(some) <= Len(ids) /\ SubSeq(ids, 1, Len(some)) = some
        <5> HIDE DEF ids, some
        <5>1. some = OperationsOf(Start(all, j))
          BY DEF some
        <5> QED BY <1>0, <2>4, <4>1, <5>1, OperationsPrefix
      <4>3. entry.count = Len(some) /\ entry.digest = Digest(ToSet(some))
        BY <3>3 DEF Counts
      <4> HIDE DEF some, ids, entry
      <4> QED BY <4>2, <4>3 DEF Agrees
    <3> QED BY <3>2, <3>4 DEF Verdict
  <2> QED BY <2>6, <2>7
<1>11. Alarms(d, turn) = {}
  BY <1>10 DEF Alarms
<1> QED BY <1>3, <1>8, <1>11 DEF s

LEMMA FoldPageHonest ==
  ASSUME IntakeInvariant, Once(rows, disk, round, past), AllAlone(disk, round, past), Serial,
         faults = 0, Honest(rows, disk, past), NEW d \in Device, NEW r \in Round, FoldPage(d, r)
  PROVE  Honest(rows', disk', past')
<1> DEFINE turn == round[d][r]
           list == past[d].rows
           journal == disk[d].journal \cup Folded(turn)
           cursor == Reached(turn, Taken(turn))
           anchor == FoldedAnchor(d, turn)
           device == [disk[d] EXCEPT !.cursor = cursor, !.stop = Stop(turn),
                                     !.journal = journal, !.anchor = anchor]
           all == Passed(turn, list)
           alarmed == past[d].alarmed \/ Alarms(d, turn) # {}
           after == [past[d] EXCEPT !.rows = all, !.alarmed = alarmed]
<1>1. /\ disk[d] \in DiskType /\ disk \in [Device -> DiskType] /\ turn \in RoundType
      /\ past \in [Device -> PastType] /\ past[d] \in PastType /\ rows \in Seq(RowType)
      /\ turn.at = "fold" /\ PassedBy(d, turn) /\ rows' = rows
      /\ CallGood(rows, disk[d].journal, turn)
  BY DEF IntakeInvariant, IntakeTyped, FoldPage, Whole
<1>2. disk' = [disk EXCEPT ![d] = device]
  BY <1>1 DEF FoldPage, KeptRecords
<1>3. Alone(d, disk[d], round[d], past[d]) /\ ~past[d].overlap
  BY DEF AllAlone, Serial
<1>4. turn.cursor = disk[d].cursor /\ turn.anchor = disk[d].anchor
  BY <1>1, <1>3 DEF Alone, OneRound
<1>5. GoesOn(turn, list)
  <2>1. list \in Seq(RowType)
    BY <1>1 DEF PastType
  <2>2. \A o \in Op : \A k, m \in Nat :
          (In(list, o, k) \/ In(turn.page, o, k)) /\ (In(list, o, m) \/ In(turn.page, o, m)) => k = m
    <3>1. \A o \in Op : \A k \in Nat :
            In(list, o, k) \/ In(turn.page, o, k) => Placed(rows, round, past, o, k)
      BY DEF Placed
    <3> QED BY <3>1 DEF Once
  <2> QED BY <1>3, <1>4, <2>1, <2>2 DEF Alone, GoesOn
<1>6. past' = [past EXCEPT ![d] = after]
  BY <1>1, <1>3 DEF PassedBy, PastType, Passed, Start
<1>7. anchor.own = disk[d].anchor.own
  BY <1>4 DEF FoldedAnchor
<1> HIDE DEF turn, list
<1>8. all = Start(rows, cursor) /\ Alarms(d, turn) = {}
  <2>1. list = Start(rows, turn.cursor) /\ HonestRows(rows)
    BY <1>4 DEF Honest, list
  <2>2. /\ turn.cursor <= Len(rows)
        /\ \A k \in 1 .. Len(turn.page) :
             turn.cursor + k <= Len(rows) /\ turn.page[k] = rows[turn.cursor + k]
    BY <1>1 DEF CallGood, Has
  <2>3. NextOf(turn, list, rows)
    BY <1>1, <2>1, <2>2 DEF NextOf
  <2>4. /\ Passed(turn, list) = Start(rows, Reached(turn, Taken(turn)))
        /\ Alarms(d, turn) = {}
    BY <1>1, <1>5, <2>3, HonestRaisesNone
  <2> QED BY <2>4
<1>9. alarmed = FALSE
  BY <1>8 DEF Honest
<1> HIDE DEF journal, cursor, anchor, all, alarmed
<1>10. after.rows = all /\ after.alarmed = alarmed
  BY <1>1 DEF PastType
<1>11. /\ device.cursor = cursor /\ device.anchor = anchor /\ device.outbox = disk[d].outbox
  BY <1>1 DEF DiskType
<1> HIDE DEF after, device
<1>12. \A e \in Device : /\ past'[e] = IF e = d THEN after ELSE past[e]
                         /\ disk'[e] = IF e = d THEN device ELSE disk[e]
  BY <1>1, <1>2, <1>6
<1>13. ASSUME NEW e \in Device PROVE HonestQueue(rows, e, disk'[e])
  <2>1. HonestQueue(rows, e, disk[e])
    BY DEF Honest
  <2>2. disk'[e].outbox = disk[e].outbox /\ disk'[e].anchor.own = disk[e].anchor.own
    BY <1>7, <1>11, <1>12
  <2> QED BY <2>1, <2>2 DEF HonestQueue
<1>14. ASSUME NEW e \in Device
       PROVE  past'[e].rows = Start(rows, disk'[e].cursor) /\ ~past'[e].alarmed
  <2>1. CASE e = d
    BY <1>8, <1>9, <1>10, <1>11, <1>12, <2>1
  <2>2. CASE e # d
    BY <1>12, <2>2 DEF Honest
  <2> QED BY <2>1, <2>2
<1> QED BY <1>1, <1>13, <1>14 DEF Honest

-----------------------------------------------------------------------------
(* Intake: the alarms.                                                     *)

LEMMA AlarmStarts == Init => AlarmInvariant
<1> SUFFICES ASSUME Init PROVE AlarmInvariant
  OBVIOUS
<1>1. /\ Len(<<>>) = 0 /\ IdleRound.at = "idle" /\ NothingPassed.rows = <<>>
      /\ ~NothingPassed.alarmed
      /\ FreshAnchor.ids = <<>> /\ FreshAnchor.own = NoLink
      /\ \A e \in Device : FreshAnchor.chain[e] = NoLink
  BY EmptySeq DEF IdleRound, NothingPassed, FreshAnchor
<1>2. /\ rows = <<>>
      /\ \A d \in Device : disk[d].outbox = <<>> /\ disk[d].cursor = 0 /\ disk[d].anchor = FreshAnchor
      /\ \A d \in Device, r \in Round : round[d][r] = IdleRound
      /\ \A d \in Device : past[d] = NothingPassed
  BY DEF Init
<1>3. OperationsOf(<<>>) = <<>>
  <2>1. <<>> \in Seq(RowType) /\ DOMAIN <<>> = {}
    BY EmptySeq
  <2>2. OperationsOf(<<>>) \in Seq(Op) /\ Len(OperationsOf(<<>>)) = Cardinality({})
    BY <2>1, OperationsTyped
  <2>3. Len(OperationsOf(<<>>)) = 0
    BY <2>2, FS_EmptySet
  <2> QED BY <2>2, <2>3, EmptySeq
<1>4. \A e : EndLink(<<>>, 0, e, NoLink) = NoLink
  BY EndLinkNext
<1>5. ASSUME NEW d \in Device PROVE Alone(d, disk[d], round[d], past[d])
  <2>1. OneRound(disk[d], round[d])
    BY <1>1, <1>2 DEF OneRound
  <2>2. Anchored(disk[d].anchor, past[d].rows)
    BY <1>1, <1>2, <1>3, <1>4 DEF Anchored
  <2> QED BY <1>1, <1>2, <2>1, <2>2 DEF Alone, Reported
<1>6. Honest(rows, disk, past)
  <2>1. HonestRows(rows)
    BY <1>1, <1>2 DEF HonestRows, Linear
  <2>2. \A e \in Device : HonestQueue(rows, e, disk[e])
    BY <1>1, <1>2, <1>4 DEF HonestQueue, Linear
  <2>3. Start(<<>>, 0) = <<>>
    <3>1. <<>> \in Seq(RowType) /\ 0 \in 0 .. Len(<<>>)
      BY <1>1, EmptySeq
    <3>2. Start(<<>>, 0) \in Seq(RowType) /\ Len(Start(<<>>, 0)) = 0
      BY <3>1, StartFacts
    <3> QED BY <3>2, EmptySeq
  <2> QED BY <1>1, <1>2, <2>1, <2>2, <2>3 DEF Honest
<1> QED BY <1>5, <1>6, OnceStarts DEF AlarmInvariant

(* A round never comes to be alone again.                                  *)
LEMMA SerialBefore ==
  ASSUME IntakeInvariant, [Next]_vars, faults' = 0 /\ Serial'
  PROVE  faults = 0 /\ Serial
<1>1. faults \in Nat /\ past \in [Device -> PastType]
  BY IntakeLimits DEF IntakeInvariant, IntakeTyped
<1>2. ASSUME NEW d \in Device, NEW r \in Round, Begin(d, r)
      PROVE  faults' = faults /\ \A e \in Device : past[e].overlap => past'[e].overlap
  <2> DEFINE ended == [NothingPassed EXCEPT !.overlap = TRUE]
  <2>1. ended.overlap = TRUE
    BY DEF NothingPassed
  <2>2. faults' = faults /\ (past' = past \/ past' = [past EXCEPT ![d] = ended])
    BY <1>2 DEF Begin
  <2> HIDE DEF ended
  <2> QED BY <1>1, <2>1, <2>2
<1>3. ASSUME NEW d \in Device, NEW r \in Round, FoldPage(d, r)
      PROVE  faults' = faults /\ \A e \in Device : past[e].overlap => past'[e].overlap
  <2>1. faults' = faults /\ PassedBy(d, round[d][r])
    BY <1>3 DEF FoldPage
  <2>2. \A e \in Device : past[e].overlap => past'[e].overlap
    BY <1>1, <2>1 DEF PassedBy, PastType
  <2> QED BY <2>1, <2>2
<1>4. CASE \E d \in Device, o \in Op : Write(d, o)
  BY <1>4 DEF Write, Serial
<1>5. CASE \E d \in Device, r \in Round : NextPage(d, r) \/ WriteCheckpoint(d, r) \/ Abandon(d, r)
  BY <1>5 DEF NextPage, WriteCheckpoint, Abandon, Serial
<1>6. CASE \E d \in Device, r \in Round : Begin(d, r) \/ FoldPage(d, r)
  BY <1>2, <1>3, <1>6 DEF Serial
<1>7. CASE Harmed
  BY <1>1, <1>7 DEF Harmed
<1>8. CASE UNCHANGED vars
  BY <1>8 DEF vars, Serial
<1> QED BY <1>4, <1>5, <1>6, <1>7, <1>8 DEF Next, LoseTail, LoseRow, Spoil

LEMMA AlarmStep ==
  ASSUME IntakeInvariant, AlarmInvariant, [Next]_vars
  PROVE  AlarmInvariant'
<1>1. /\ Once(rows, disk, round, past) /\ AllAlone(disk, round, past)
      /\ faults = 0 /\ Serial => Honest(rows, disk, past)
  BY DEF AlarmInvariant, AllAlone
<1>2. faults' = 0 /\ Serial' => faults = 0 /\ Serial
  BY SerialBefore
<1> DEFINE Kept == /\ Once(rows', disk', round', past') /\ AllAlone(disk', round', past')
                   /\ faults' = 0 /\ Serial' => Honest(rows', disk', past')
<1> SUFFICES Kept
  BY DEF AlarmInvariant, AllAlone
<1>3. CASE \E d \in Device, o \in Op : Write(d, o)
  <2>1. PICK d \in Device, o \in Op : Write(d, o)
    BY <1>3
  <2>2. Once(rows', disk', round', past')
    BY <1>1, <2>1, WriteOnce
  <2>3. AllAlone(disk', round', past')
    BY <1>1, <2>1, WriteAlone
  <2>4. faults' = 0 /\ Serial' => Honest(rows', disk', past')
    BY <1>1, <1>2, <2>1, WriteHonest
  <2> QED BY <2>2, <2>3, <2>4
<1>4. CASE \E d \in Device, r \in Round : Begin(d, r)
  <2>1. PICK d \in Device, r \in Round : Begin(d, r)
    BY <1>4
  <2>2. Once(rows', disk', round', past')
    BY <1>1, <2>1, BeginOnce
  <2>3. AllAlone(disk', round', past')
    BY <1>1, <2>1, BeginAlone
  <2>4. faults' = 0 /\ Serial' => Honest(rows', disk', past')
    BY <1>1, <1>2, <2>1, BeginHonest
  <2> QED BY <2>2, <2>3, <2>4
<1>5. CASE \E d \in Device, r \in Round : NextPage(d, r)
  <2>1. PICK d \in Device, r \in Round : NextPage(d, r)
    BY <1>5
  <2>2. Once(rows', disk', round', past')
    BY <1>1, <2>1, NextPageOnce
  <2>3. AllAlone(disk', round', past')
    BY <1>1, <2>1, NextPageAlone
  <2>4. rows' = rows /\ disk' = disk /\ past' = past
    BY <2>1 DEF NextPage
  <2> QED BY <1>1, <1>2, <2>2, <2>3, <2>4
<1>6. CASE \E d \in Device, r \in Round : FoldPage(d, r)
  <2>1. PICK d \in Device, r \in Round : FoldPage(d, r)
    BY <1>6
  <2>2. Once(rows', disk', round', past')
    BY <1>1, <2>1, FoldPageOnce
  <2>3. AllAlone(disk', round', past')
    BY <1>1, <2>1, FoldPageAlone
  <2>4. faults' = 0 /\ Serial' => Honest(rows', disk', past')
    BY <1>1, <1>2, <2>1, FoldPageHonest
  <2> QED BY <2>2, <2>3, <2>4
<1>7. CASE \E d \in Device, r \in Round : WriteCheckpoint(d, r)
  <2>1. PICK d \in Device, r \in Round : WriteCheckpoint(d, r)
    BY <1>7
  <2>2. Once(rows', disk', round', past')
    BY <1>1, <2>1, WriteCheckpointOnce
  <2>3. AllAlone(disk', round', past')
    BY <1>1, <2>1, WriteCheckpointAlone
  <2>4. faults' = 0 /\ Serial' => Honest(rows', disk', past')
    BY <1>1, <1>2, <2>1, WriteCheckpointHonest
  <2> QED BY <2>2, <2>3, <2>4
<1>8. CASE \E d \in Device, r \in Round : Abandon(d, r)
  <2>1. PICK d \in Device, r \in Round : Abandon(d, r)
    BY <1>8
  <2>2. Once(rows', disk', round', past')
    BY <1>1, <2>1, AbandonOnce
  <2>3. AllAlone(disk', round', past')
    BY <1>1, <2>1, AbandonAlone
  <2>4. rows' = rows /\ disk' = disk /\ past' = past
    BY <2>1 DEF Abandon
  <2> QED BY <1>1, <1>2, <2>2, <2>3, <2>4
<1>9. CASE \/ \E n \in 0 .. Len(rows) : LoseTail(n)
           \/ \E n \in DOMAIN rows : LoseRow(n) \/ \E flaw \in Flaws : Spoil(n, flaw)
  <2>1. Harmed
    BY <1>9 DEF LoseTail, LoseRow, Spoil
  <2>2. Once(rows', disk', round', past')
    BY <1>1, <1>9, ListHarmOnce
  <2>3. disk' = disk /\ round' = round /\ past' = past /\ faults' = faults + 1
    BY <2>1 DEF Harmed
  <2>4. faults' # 0
    <3>1. faults \in Nat
      BY IntakeLimits DEF IntakeInvariant, IntakeTyped
    <3> QED BY <2>3, <3>1
  <2> QED BY <1>1, <2>2, <2>3, <2>4
<1>10. CASE UNCHANGED vars
  <2>1. rows' = rows /\ disk' = disk /\ round' = round /\ past' = past
    BY <1>10 DEF vars
  <2> QED BY <1>1, <1>2, <2>1
<1> HIDE DEF Kept
<1> QED BY <1>3, <1>4, <1>5, <1>6, <1>7, <1>8, <1>9, <1>10 DEF Next

(* Every operation is one row, the anchor of a device that runs one round  *)
(* at a time is what the rows behind its cursor make of it, and while      *)
(* nothing is lost every checkpoint is borne out by the rows before it.    *)
THEOREM AlarmInvariantHolds == Spec => []AlarmInvariant
<1>1. IntakeInvariant /\ AlarmInvariant /\ [Next]_vars => AlarmInvariant'
  BY AlarmStep
<1> QED BY <1>1, AlarmStarts, IntakeInvariantHolds, PTL DEF Spec

(* Rows up to a number are the start of a list numbered from one.          *)
LEMMA UpToIsStart ==
  ASSUME NEW list \in Seq(RowType), \A i \in 1 .. Len(list) : list[i].seq = i,
         NEW n \in 0 .. Len(list)
  PROVE  UpTo(list, n) = Start(list, n)
<1> DEFINE P == {i \in DOMAIN list : list[i].seq <= n}
           s == Picked(list, P)
           t == Start(list, n)
<1>1. Len(list) \in Nat /\ DOMAIN list = 1 .. Len(list) /\ n \in Nat /\ n <= Len(list)
  BY LenProperties
<1>2. P = (0 + 1) .. n
  <2>1. \A i \in 1 .. Len(list) : list[i].seq <= n <=> i <= n
    OBVIOUS
  <2> QED BY <1>1, <2>1
<1>3. P \in SUBSET DOMAIN list
  OBVIOUS
<1> HIDE DEF P
<1>4. Len(s) = n /\ \A k \in 1 .. n : s[k] = list[k]
  <2>1. 0 \in Nat /\ 0 <= n /\ n - 0 = n /\ \A k \in 1 .. n : 0 + k = k
    BY <1>1
  <2>2. /\ Len(Picked(list, (0 + 1) .. n)) = n - 0
        /\ \A k \in 1 .. n - 0 : Picked(list, (0 + 1) .. n)[k] = list[0 + k]
    BY <1>1, <2>1, PickedInterval
  <2> QED BY <1>2, <2>1, <2>2
<1>5. s \in Seq(RowType)
  BY <1>3, PickedElements
<1>6. t \in Seq(RowType) /\ Len(t) = n /\ \A k \in 1 .. n : t[k] = list[k]
  BY StartFacts
<1> HIDE DEF s, t
<1>7. s = t
  BY <1>4, <1>5, <1>6, SeqEqual
<1> QED BY <1>7 DEF UpTo, s, t, P

LEMMA AlarmsFollow == IntakeInvariant /\ AlarmInvariant => NoFalseAlarm /\ LossReported
<1> SUFFICES ASSUME IntakeInvariant, AlarmInvariant PROVE NoFalseAlarm /\ LossReported
  OBVIOUS
<1>1. NoFalseAlarm
  <2> SUFFICES ASSUME faults = 0, Serial, NEW d \in Device
               PROVE  /\ disk[d].anchor.ids = OperationsOf(UpTo(rows, disk[d].cursor))
                      /\ ~past[d].alarmed
    BY DEF NoFalseAlarm
  <2>1. Honest(rows, disk, past) /\ Alone(d, disk[d], round[d], past[d])
    BY DEF AlarmInvariant, Serial
  <2>2. /\ rows \in Seq(RowType) /\ \A i \in 1 .. Len(rows) : rows[i].seq = i
        /\ disk[d].cursor \in 0 .. Len(rows)
    <3>1. /\ rows \in Seq(RowType) /\ Whole(rows, disk, round) /\ disk[d].cursor \in Nat
      BY DEF IntakeInvariant, IntakeTyped, DiskType
    <3>2. disk[d].cursor <= Len(rows) /\ Len(rows) \in Nat
      BY <3>1, LenProperties DEF Whole, Has
    <3> QED BY <3>1, <3>2 DEF Whole
  <2>3. UpTo(rows, disk[d].cursor) = Start(rows, disk[d].cursor)
    BY <2>2, UpToIsStart
  <2>4. disk[d].anchor.ids = OperationsOf(past[d].rows)
    BY <2>1 DEF Alone, Anchored
  <2> QED BY <2>1, <2>3, <2>4 DEF Honest
<1>2. LossReported
  <2> SUFFICES ASSUME Serial, NEW d \in Device, NEW i \in DOMAIN past[d].rows,
                      past[d].rows[i].kind = "checkpoint", past[d].rows[i].dev # d,
                      ~past[d].alarmed
               PROVE  LET list == past[d].rows
                          before == SubSeq(list, 1, i - 1)
                          ids == OperationsOf(before)
                      IN /\ list[i].count <= Len(ids)
                         /\ list[i].digest.set = ToSet(SubSeq(ids, 1, list[i].count))
                         /\ list[i].index > 1 => \E j \in DOMAIN before :
                              before[j].dev = list[i].dev /\ before[j].index = list[i].index - 1
    BY DEF LossReported
  <2> DEFINE list == past[d].rows
             before == Start(list, i - 1)
  <2>1. list \in Seq(RowType)
    BY DEF IntakeInvariant, IntakeTyped, PastType
  <2>2. i \in 1 .. Len(list) /\ i - 1 \in 0 .. Len(list) /\ Len(list) \in Nat
    BY <2>1, LenProperties
  <2>3. BorneOut(list, i)
    BY <2>2 DEF AlarmInvariant, Serial, Alone, Reported
  <2> HIDE DEF list
  <2>4. before \in Seq(RowType) /\ Len(before) = i - 1 /\ \A j \in 1 .. (i - 1) : before[j] = list[j]
    BY <2>1, <2>2, StartFacts
  <2> HIDE DEF before
  <2>5. DOMAIN before = 1 .. (i - 1)
    BY <2>4, LenProperties
  <2>6. list[i].index > 1 => \E j \in DOMAIN before :
          before[j].dev = list[i].dev /\ before[j].index = list[i].index - 1
    BY <2>3, <2>4, <2>5 DEF BorneOut
  <2> QED BY <2>3, <2>6 DEF BorneOut, list, before, Start
<1> QED BY <1>1, <1>2

(* While the list is whole the anchor holds exactly what the cursor passed *)
(* and nobody is told that journals diverge; what another device's         *)
(* checkpoint counts and this one did not read, or a checkpoint whose      *)
(* predecessor it did not read, raises an alarm (checkpoint.ts).           *)
THEOREM IntakeAlarmsRight == Spec => [](NoFalseAlarm /\ LossReported)
BY AlarmsFollow, IntakeInvariantHolds, AlarmInvariantHolds, PTL
=============================================================================
