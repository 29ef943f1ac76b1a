------------------------- MODULE KeyRotationProofs -------------------------
(***************************************************************************)
(* Theorems about KeyRotation for any devices, operations, batch size and  *)
(* number of faults: what an attempt holds in memory is still good when it *)
(* is used, as long as this very attempt is the staged one.                *)
(***************************************************************************)
EXTENDS KeyRotation, SequenceTheorems, WellFoundedInduction

(* The bounds are numbers, a batch is not empty.                           *)
Bounds == MaxEpoch \in Nat \ {0} /\ Batch \in Nat \ {0} /\ MaxFaults \in Nat

RowType == [op : Op, state : {"whole", "missing", "sealed"}]

FamilyType == [epoch : 1 .. MaxEpoch, past : SUBSET (1 .. MaxEpoch), top : 1 .. MaxEpoch,
               rows : Seq(RowType), members : SUBSET Everybody,
               wraps : SUBSET ((1 .. MaxEpoch) \X Everybody)]

StagedType == [by : SUBSET Leader, epoch : 0 .. MaxEpoch, freeze : Nat, rows : Seq(RowType),
               confirm : BOOLEAN, wraps : SUBSET Everybody]

DeviceType == [key : 1 .. MaxEpoch, floor : Nat, outbox : Seq(Op)]

AttemptType ==
  [at : {"idle", "declare", "read", "upload", "complete", "look", "settle", "switch", "cancel"},
   key : 0 .. MaxEpoch, floor : Nat, queue : Seq(Op), devices : SUBSET Everybody,
   consent : BOOLEAN, next : 0 .. MaxEpoch, freeze : Nat, load : Seq(Op), sent : Nat]

Typed ==
  /\ family \in FamilyType /\ staged \in StagedType
  /\ device \in [Leader -> DeviceType] /\ lead \in [Leader -> AttemptType]
  /\ harmed \in 0 .. MaxFaults

Distinct(rows) == \A i, j \in DOMAIN rows : rows[i].op = rows[j].op => i = j

(* No operation has two rows, what is staged opens, and the staged epoch   *)
(* is above the one in force.                                              *)
Ordered ==
  /\ Distinct(family.rows) /\ Distinct(staged.rows)
  /\ \A i \in DOMAIN staged.rows : staged.rows[i].state = "whole"
  /\ family.epoch <= family.top /\ staged.epoch <= family.top
  /\ staged.by # {} => family.epoch < staged.epoch

(* What an attempt knows whoever is staged by now: the border is not below *)
(* the floor, and without consent the load is not either.                  *)
Numbered(attempt) ==
  /\ attempt.sent <= Len(attempt.load)
  /\ attempt.at \in {"read", "upload", "complete", "look", "settle", "switch"} =>
       attempt.next >= 1
  /\ attempt.at \in {"declare", "read"} => attempt.sent = 0 /\ attempt.load = <<>>
  /\ attempt.at = "read" => attempt.freeze >= attempt.floor
  /\ attempt.at \in {"upload", "complete"} /\ ~attempt.consent =>
       Cardinality(ToSet(attempt.load)) >= attempt.floor
  /\ attempt.at = "complete" => Sent(attempt)

(* What it knows while it is the staged one: its load holds all that opens *)
(* in the epoch in force, and what it sent is staged.                      *)
Holds(attempt, rows, s) ==
  /\ OpsOf(rows) \subseteq ToSet(attempt.load)
  /\ \A i \in 1 .. attempt.sent : attempt.load[i] \in OpsOf(s.rows)

Good(l, attempt, f, s) ==
  /\ Numbered(attempt)
  /\ attempt.at \in {"upload", "complete"} /\ s.by = {l} /\ s.epoch = attempt.next =>
       Holds(attempt, f.rows, s)

Loaded == \A l \in Leader : Good(l, lead[l], family, staged)

Invariant == Typed /\ Ordered /\ Loaded

(* What a step may do to the family, seen from AtomicRotation; and to a    *)
(* rotation nobody has agreed to shorten.                                  *)
Promised ==
  /\ OpsOf(family'.rows) \subseteq Op
  /\ \/ /\ family'.epoch = family.epoch
        /\ \/ OpsOf(family.rows) \subseteq OpsOf(family'.rows)
           \/ OpsOf(family'.rows) \subseteq OpsOf(family.rows)
     \/ /\ family'.epoch \in Nat /\ family'.epoch > family.epoch
        /\ OpsOf(family.rows) \subseteq OpsOf(family'.rows)

Consented ==
  family'.epoch # family.epoch =>
    \A l \in Leader : staged.by = {l} /\ ~lead[l].consent =>
      Cardinality(OpsOf(family'.rows)) >= lead[l].floor

Step == Invariant' /\ Promised /\ Consented

-----------------------------------------------------------------------------
(* Lists of rows.                                                          *)

LEMMA FirstPlace ==
  ASSUME NEW S, NEW ops \in Seq(S), NEW i \in DOMAIN ops
  PROVE  \E j \in DOMAIN ops : ops[j] = ops[i] /\ \A k \in 1 .. j - 1 : ops[k] # ops[j]
<1> DEFINE T == {j \in DOMAIN ops : ops[j] = ops[i]}
<1>1. T \subseteq Nat /\ T # {}
  OBVIOUS
<1>2. PICK j \in T : \A k \in T : ~(<<k, j>> \in OpToRel(<, Nat))
  BY <1>1, NatLessThanWellFounded, WFMin
<1>3. \A k \in T : ~(k < j)
  BY <1>1, <1>2 DEF OpToRel
<1>4. \A k \in 1 .. j - 1 : k \in DOMAIN ops /\ k < j
  OBVIOUS
<1> QED BY <1>3, <1>4

LEMMA RowsOfOps == ASSUME NEW rows \in Seq(RowType) PROVE OpsOf(rows) \subseteq Op
<1>1. \A i \in DOMAIN rows : rows[i] \in RowType
  OBVIOUS
<1> QED BY <1>1 DEF OpsOf, Whole, RowType

LEMMA OpsFinite ==
  ASSUME NEW rows \in Seq(RowType)
  PROVE  IsFiniteSet(OpsOf(rows))
<1> DEFINE P == Whole(rows)
           f == [i \in P |-> rows[i].op]
<1>1. IsFiniteSet(P)
  <2>1. IsFiniteSet(1 .. Len(rows))
    BY FS_Interval
  <2> QED BY <2>1, FS_Subset DEF Whole
<1>2. f \in Surjection(P, OpsOf(rows))
  BY DEF Surjection, OpsOf
<1> QED BY <1>1, <1>2, FS_Surjection

LEMMA RowsFacts ==
  ASSUME NEW ops \in Seq(Op)
  PROVE  /\ Rows(ops) \in Seq(RowType) /\ Len(Rows(ops)) = Len(ops)
         /\ \A i \in 1 .. Len(ops) : Rows(ops)[i] = Row(ops[i])
<1>1. Len(ops) \in Nat /\ DOMAIN ops = 1 .. Len(ops)
  OBVIOUS
<1>2. \A i \in 1 .. Len(ops) : Row(ops[i]) \in RowType
  BY DEF Row, RowType
<1>3. Rows(ops) \in [1 .. Len(ops) -> RowType]
  BY <1>1, <1>2 DEF Rows
<1> QED BY <1>1, <1>3, FunctionIsSeq DEF Rows

(* What the server makes of a batch: old rows stay, an operation gets one  *)
(* row.                                                                    *)
LEMMA AppendedFacts ==
  ASSUME NEW rows \in Seq(RowType), NEW ops \in Seq(Op), Distinct(rows)
  PROVE  /\ Appended(rows, ops) \in Seq(RowType) /\ Distinct(Appended(rows, ops))
         /\ OpsOf(rows) \subseteq OpsOf(Appended(rows, ops))
         /\ (\A i \in DOMAIN rows : rows[i].state = "whole") =>
              /\ \A i \in DOMAIN Appended(rows, ops) : Appended(rows, ops)[i].state = "whole"
              /\ \A i \in DOMAIN ops : ops[i] \in OpsOf(Appended(rows, ops))
<1> DEFINE P == Fresh(rows, ops)
           q == Picked(ops, P)
           r == Rows(q)
           n == Len(rows)
           new == rows \o r
<1>1. P \in SUBSET DOMAIN ops
  BY DEF Fresh
<1>2. /\ \A i \in P : \A j \in DOMAIN rows : rows[j].op # ops[i]
      /\ \A i \in P : \A j \in 1 .. i - 1 : ops[j] # ops[i]
      /\ P \subseteq Nat \ {0}
  BY <1>1 DEF Fresh
<1>3. \A i \in DOMAIN ops : i \in P \/ (\E j \in DOMAIN rows : rows[j].op = ops[i])
                            \/ (\E j \in 1 .. i - 1 : ops[j] = ops[i])
  BY DEF Fresh
<1> HIDE DEF P
<1>4. /\ q \in Seq(Op)
      /\ \A i \in P : \E k \in 1 .. Len(q) : q[k] = ops[i]
  BY <1>1, PickedElements, PickedEach
<1>5. /\ \A k \in 1 .. Len(q) : Place(P, k) \in P /\ q[k] = ops[Place(P, k)]
      /\ \A k, l \in 1 .. Len(q) : k < l => Place(P, k) < Place(P, l)
  BY <1>1, PickedOrder
<1> HIDE DEF q
<1>6. /\ r \in Seq(RowType) /\ Len(r) = Len(q)
      /\ \A k \in 1 .. Len(q) : r[k].op = q[k] /\ r[k].state = "whole"
  <2>1. /\ r \in Seq(RowType) /\ Len(r) = Len(q)
        /\ \A k \in 1 .. Len(q) : r[k] = Row(q[k])
    BY <1>4, RowsFacts
  <2> HIDE DEF r
  <2>2. \A o : Row(o).op = o /\ Row(o).state = "whole"
    BY DEF Row
  <2> QED BY <2>1, <2>2
<1>7. n \in Nat /\ Len(q) \in Nat /\ DOMAIN rows = 1 .. n /\ DOMAIN q = 1 .. Len(q)
  BY <1>4
<1> HIDE DEF r
<1>8. /\ new \in Seq(RowType) /\ DOMAIN new = 1 .. n + Len(q)
      /\ \A i \in 1 .. n : new[i] = rows[i]
      /\ \A k \in 1 .. Len(q) : new[n + k] = r[k]
  BY <1>6, <1>7
<1> HIDE DEF new, n
<1>9. \A i \in DOMAIN new : i \in 1 .. n \/ (i - n \in 1 .. Len(q) /\ new[i] = r[i - n])
  <2>1. ASSUME NEW i \in DOMAIN new, i \notin 1 .. n
        PROVE  i - n \in 1 .. Len(q) /\ n + (i - n) = i
    BY <1>7, <1>8, <2>1
  <2> QED BY <1>8, <2>1
<1>10. Distinct(new)
  <2>1. ASSUME NEW k \in 1 .. Len(q), NEW l \in 1 .. Len(q), q[k] = q[l] PROVE k = l
    <3>1. ASSUME NEW a \in 1 .. Len(q), NEW b \in 1 .. Len(q), a < b PROVE q[a] # q[b]
      <4> DEFINE x == Place(P, a)
                 y == Place(P, b)
      <4>1. x \in P /\ y \in P /\ x < y /\ q[a] = ops[x] /\ q[b] = ops[y]
        BY <1>5, <3>1
      <4> HIDE DEF x, y
      <4>2. x \in 1 .. y - 1
        BY <1>2, <4>1
      <4> QED BY <1>2, <4>1, <4>2
    <3>2. k < l \/ l < k \/ k = l
      BY <1>7
    <3> QED BY <2>1, <3>1, <3>2
  <2>2. \A i \in 1 .. n, k \in 1 .. Len(q) : rows[i].op # q[k]
    BY <1>5, <1>2, <1>7
  <2>3. ASSUME NEW i \in DOMAIN new, NEW j \in DOMAIN new, new[i].op = new[j].op
        PROVE  i = j
    <3>1. CASE i \in 1 .. n /\ j \in 1 .. n
      BY <1>7, <1>8, <2>3, <3>1 DEF Distinct
    <3>2. CASE i \notin 1 .. n /\ j \notin 1 .. n
      <4>1. i - n \in 1 .. Len(q) /\ j - n \in 1 .. Len(q) /\ q[i - n] = q[j - n]
        BY <1>6, <1>9, <2>3, <3>2
      <4>2. i - n = j - n
        BY <2>1, <4>1
      <4> QED BY <1>7, <1>8, <4>2
    <3>3. CASE i \in 1 .. n /\ j \notin 1 .. n
      BY <1>6, <1>8, <1>9, <2>2, <2>3, <3>3
    <3>4. CASE i \notin 1 .. n /\ j \in 1 .. n
      BY <1>6, <1>8, <1>9, <2>2, <2>3, <3>4
    <3> QED BY <3>1, <3>2, <3>3, <3>4
  <2> QED BY <2>3 DEF Distinct
<1>11. OpsOf(rows) \subseteq OpsOf(new)
  <2>1. \A i \in 1 .. n : i \in DOMAIN new
    BY <1>7, <1>8
  <2> QED BY <1>7, <1>8, <2>1 DEF OpsOf, Whole
<1>12. ASSUME \A i \in DOMAIN rows : rows[i].state = "whole"
       PROVE  /\ \A i \in DOMAIN new : new[i].state = "whole"
              /\ \A i \in DOMAIN ops : ops[i] \in OpsOf(new)
  <2>1. \A i \in DOMAIN new : new[i].state = "whole"
    <3>1. ASSUME NEW i \in DOMAIN new, i \in 1 .. n PROVE new[i].state = "whole"
      BY <1>7, <1>8, <1>12, <3>1
    <3>2. ASSUME NEW i \in DOMAIN new, i \notin 1 .. n PROVE new[i].state = "whole"
      BY <1>9, <1>6, <3>2
    <3> QED BY <3>1, <3>2
  <2>2. \A i \in P : ops[i] \in OpsOf(new)
    <3>1. ASSUME NEW i \in P PROVE \E k \in 1 .. Len(q) : q[k] = ops[i]
      BY <1>4, <1>7
    <3>2. ASSUME NEW k \in 1 .. Len(q) PROVE q[k] \in OpsOf(new)
      <4>1. n + k \in DOMAIN new /\ new[n + k].op = q[k]
        <5>1. n + k \in 1 .. n + Len(q)
          BY <1>7
        <5> QED BY <1>6, <1>8, <5>1
      <4> QED BY <2>1, <4>1 DEF OpsOf, Whole
    <3> QED BY <3>1, <3>2
  <2>3. \A j \in DOMAIN rows : rows[j].op \in OpsOf(new)
    BY <1>11, <1>12 DEF OpsOf, Whole
  <2>4. ASSUME NEW i \in DOMAIN ops PROVE ops[i] \in OpsOf(new)
    <3>1. PICK j \in DOMAIN ops : ops[j] = ops[i] /\ \A k \in 1 .. j - 1 : ops[k] # ops[j]
      BY FirstPlace
    <3>2. j \in P \/ (\E k \in DOMAIN rows : rows[k].op = ops[j])
      BY <1>3, <3>1
    <3> QED BY <2>2, <2>3, <3>1, <3>2
  <2> QED BY <2>1, <2>4
<1>13. new = Appended(rows, ops)
  BY DEF new, r, q, P, Appended
<1> QED BY <1>8, <1>10, <1>11, <1>12, <1>13

(* All that opens travels, when the border is not below the last row.      *)
LEMMA CarriedFacts ==
  ASSUME NEW attempt \in AttemptType, family \in FamilyType,
         Len(family.rows) <= attempt.freeze
  PROVE  /\ Carried(attempt) \in Seq(Op)
         /\ OpsOf(family.rows) \subseteq ToSet(Carried(attempt))
<1> DEFINE rows == family.rows
           P == Whole(rows)
           open == Picked(rows, P)
           ops == [i \in DOMAIN open |-> open[i].op]
<1>1. rows \in Seq(RowType) /\ Len(rows) \in Nat /\ attempt.freeze \in Nat
      /\ attempt.queue \in Seq(Op)
  BY DEF FamilyType, AttemptType
<1>2. SubSeq(rows, 1, Least(attempt.freeze, Len(rows))) = rows
  <2>1. Least(attempt.freeze, Len(rows)) = Len(rows)
    BY <1>1 DEF Least
  <2> QED BY <1>1, <2>1, SubSeqFull
<1>3. Carried(attempt) = ops \o attempt.queue
  BY <1>2 DEF Carried, Opened
<1> HIDE DEF rows
<1>4. P \in SUBSET DOMAIN rows
  BY DEF Whole
<1>5. OpsOf(rows) = {rows[i].op : i \in P}
  BY DEF OpsOf
<1> HIDE DEF P
<1>6. /\ open \in Seq(RowType)
      /\ \A i \in P : \E k \in 1 .. Len(open) : open[k] = rows[i]
  BY <1>1, <1>4, PickedElements, PickedEach
<1> HIDE DEF open
<1>7. Len(open) \in Nat /\ DOMAIN open = 1 .. Len(open)
  BY <1>6
<1>8. \A k \in 1 .. Len(open) : open[k] \in RowType
  BY <1>6
<1>9. ops \in [1 .. Len(open) -> Op]
  BY <1>7, <1>8 DEF RowType
<1>10. ops \in Seq(Op) /\ Len(ops) = Len(open)
  BY <1>7, <1>9, FunctionIsSeq
<1>11. \A k \in 1 .. Len(open) : ops[k] = open[k].op
  BY <1>7
<1> HIDE DEF ops
<1>12. /\ ops \o attempt.queue \in Seq(Op)
       /\ \A k \in 1 .. Len(ops) : /\ k \in DOMAIN (ops \o attempt.queue)
                                   /\ (ops \o attempt.queue)[k] = ops[k]
  BY <1>1, <1>10
<1>13. ASSUME NEW i \in P PROVE rows[i].op \in ToSet(ops \o attempt.queue)
  <2>1. PICK k \in 1 .. Len(open) : open[k] = rows[i]
    BY <1>6
  <2>2. (ops \o attempt.queue)[k] = rows[i].op /\ k \in DOMAIN (ops \o attempt.queue)
    BY <1>10, <1>11, <1>12, <2>1
  <2> QED BY <2>2 DEF ToSet
<1> QED BY <1>3, <1>5, <1>12, <1>13 DEF rows

(* A whole list of different operations up to the border is as long as it. *)
LEMMA WholeList ==
  ASSUME NEW attempt \in AttemptType, family \in FamilyType, Distinct(family.rows),
         Len(family.rows) <= attempt.freeze, Gaps(attempt) = {}
  PROVE  Cardinality(OpsOf(family.rows)) = attempt.freeze
<1> DEFINE rows == family.rows
           n == attempt.freeze
           f == [i \in 1 .. n |-> rows[i].op]
<1>1. rows \in Seq(RowType) /\ n \in Nat /\ Len(rows) \in Nat
  BY DEF FamilyType, AttemptType
<1>2. \A i \in 1 .. n : i <= Len(rows) /\ rows[i].state = "whole"
  BY DEF Gaps
<1>3. Len(rows) = n /\ DOMAIN rows = 1 .. n
  <2>1. n > 0 => n <= Len(rows)
    BY <1>1, <1>2
  <2> QED BY <1>1, <2>1
<1>4. OpsOf(rows) = {rows[i].op : i \in 1 .. n}
  BY <1>2, <1>3 DEF OpsOf, Whole
<1>5. \A i, j \in 1 .. n : rows[i].op = rows[j].op => i = j
  BY <1>3 DEF Distinct
<1> HIDE DEF rows, n
<1>6. f \in Bijection(1 .. n, OpsOf(rows))
  BY <1>4, <1>5 DEF Bijection, Injection, Surjection, IsInjective
<1>7. ExistsBijection(1 .. n, OpsOf(rows))
  BY <1>6 DEF ExistsBijection
<1>8. IsFiniteSet(1 .. n) /\ Cardinality(1 .. n) = n
  <2>1. 1 \in Int /\ n \in Int /\ (IF 1 > n THEN 0 ELSE n - 1 + 1) = n
    BY <1>1
  <2> QED BY <2>1, FS_Interval
<1>9. Cardinality(OpsOf(rows)) = n
  BY <1>7, <1>8, FS_Bijection
<1> QED BY <1>9 DEF rows, n

LEMMA ToSetFinite ==
  ASSUME NEW S, NEW seq \in Seq(S)
  PROVE  IsFiniteSet(ToSet(seq))
<1> DEFINE P == DOMAIN seq
           f == [i \in P |-> seq[i]]
<1>1. IsFiniteSet(P)
  <2>1. P = 1 .. Len(seq) /\ Len(seq) \in Int
    OBVIOUS
  <2> QED BY <2>1, FS_Interval
<1>2. f \in Surjection(P, ToSet(seq))
  BY DEF Surjection, ToSet
<1> QED BY <1>1, <1>2, FS_Surjection

LEMMA MoreOfThem ==
  ASSUME NEW T, IsFiniteSet(T), NEW S \in SUBSET T
  PROVE  Cardinality(S) <= Cardinality(T) /\ Cardinality(S) \in Nat /\ Cardinality(T) \in Nat
<1>1. IsFiniteSet(S) /\ Cardinality(S) <= Cardinality(T)
  BY FS_Subset
<1> QED BY <1>1, FS_CardinalityType

-----------------------------------------------------------------------------
(* Attempts.                                                               *)

(* Nothing an attempt relies on changes as long as it is the staged one.   *)
LEMMA GoodKept ==
  ASSUME NEW l, NEW mine, NEW f, NEW f2, NEW s, NEW s2, Good(l, mine, f, s),
         s2.by = {l} => s2 = s /\ OpsOf(f2.rows) \subseteq OpsOf(f.rows)
  PROVE  Good(l, mine, f2, s2)
  BY DEF Good, Holds

(* An attempt that has no use for the staging.                             *)
LEMMA GoodApart ==
  ASSUME NEW l, NEW mine, NEW f, NEW s, Numbered(mine), mine.at \notin {"upload", "complete"}
  PROVE  Good(l, mine, f, s)
  BY DEF Good

LEMMA NoAttemptTyped ==
  ASSUME Bounds
  PROVE  NoAttempt \in AttemptType /\ Numbered(NoAttempt) /\ NoAttempt.at = "idle"
<1>1. <<>> \in Seq(Op) /\ Len(<<>>) = 0
  BY EmptySeq
<1>2. 0 \in 0 .. MaxEpoch
  BY DEF Bounds
<1>3. NoAttempt \in AttemptType
  BY <1>1, <1>2 DEF NoAttempt, AttemptType
<1> QED BY <1>1, <1>3 DEF NoAttempt, Numbered

LEMMA FailedTyped ==
  ASSUME Bounds
  PROVE  /\ [NoAttempt EXCEPT !.at = "cancel"] \in AttemptType
         /\ Numbered([NoAttempt EXCEPT !.at = "cancel"])
         /\ [NoAttempt EXCEPT !.at = "cancel"].at = "cancel"
<1> DEFINE mine == [NoAttempt EXCEPT !.at = "cancel"]
<1>1. mine \in AttemptType /\ mine.at = "cancel" /\ mine.sent = NoAttempt.sent /\ mine.load = NoAttempt.load
  BY NoAttemptTyped DEF AttemptType
<1> HIDE DEF mine
<1>2. Numbered(mine)
  BY <1>1, NoAttemptTyped DEF Numbered
<1> QED BY <1>1, <1>2 DEF mine

LEMMA LeadUpdated ==
  ASSUME lead \in [Leader -> AttemptType], NEW l \in Leader, NEW attempt \in AttemptType,
         Goes(l, attempt)
  PROVE  /\ lead' \in [Leader -> AttemptType] /\ lead'[l] = attempt
         /\ \A m \in Leader : m # l => lead'[m] = lead[m]
  BY DEF Goes

(* A step that leaves the server alone.                                    *)
LEMMA StillFamily ==
  ASSUME Invariant, UNCHANGED <<family, staged, harmed>>,
         device' \in [Leader -> DeviceType], lead' \in [Leader -> AttemptType],
         \A m \in Leader : Good(m, lead'[m], family, staged)
  PROVE  Step
<1>1. family' = family /\ staged' = staged /\ harmed' = harmed
  OBVIOUS
<1>2. Typed'
  BY <1>1 DEF Invariant, Typed
<1>3. Ordered'
  BY <1>1 DEF Invariant, Ordered
<1>4. Loaded'
  BY <1>1 DEF Loaded
<1>5. OpsOf(family.rows) \subseteq Op
  <2>1. family.rows \in Seq(RowType)
    BY DEF Invariant, Typed, FamilyType
  <2> QED BY <2>1, RowsOfOps
<1>6. Promised /\ Consented
  BY <1>1, <1>5 DEF Promised, Consented
<1> QED BY <1>2, <1>3, <1>4, <1>6 DEF Step, Invariant

LEMMA AttemptStep ==
  ASSUME Invariant, UNCHANGED <<family, staged, harmed>>,
         device' \in [Leader -> DeviceType], NEW l \in Leader,
         NEW attempt \in AttemptType, Goes(l, attempt), Good(l, attempt, family, staged)
  PROVE  Step
<1>1. /\ lead' \in [Leader -> AttemptType] /\ lead'[l] = attempt
      /\ \A m \in Leader : m # l => lead'[m] = lead[m]
  BY LeadUpdated DEF Invariant, Typed
<1>2. \A m \in Leader : Good(m, lead'[m], family, staged)
  BY <1>1 DEF Invariant, Loaded
<1> QED BY <1>1, <1>2, StillFamily

LEMMA FailedStep ==
  ASSUME Invariant, Bounds, UNCHANGED <<family, staged, device, harmed>>,
         NEW l \in Leader, Failed(l)
  PROVE  Step
<1> DEFINE mine == [NoAttempt EXCEPT !.at = "cancel"]
<1>1. mine \in AttemptType /\ Numbered(mine) /\ mine.at = "cancel"
  BY FailedTyped
<1>2. Goes(l, mine)
  BY DEF Failed
<1> HIDE DEF mine
<1>3. Good(l, mine, family, staged)
  BY <1>1, GoodApart
<1>4. device' \in [Leader -> DeviceType]
  BY DEF Invariant, Typed
<1> QED BY <1>1, <1>2, <1>3, <1>4, AttemptStep

-----------------------------------------------------------------------------
(* What goes on beside rotations.                                          *)

LEMMA WriteStep ==
  ASSUME Invariant, NEW l \in Leader, NEW o \in Op, Write(l, o)
  PROVE  Step
<1> DEFINE queue == Append(device[l].outbox, o)
<1>1. device \in [Leader -> DeviceType] /\ lead' \in [Leader -> AttemptType]
      /\ device[l] \in DeviceType
  BY DEF Invariant, Typed, Write
<1>2. queue \in Seq(Op)
  BY <1>1 DEF DeviceType
<1>3. device' = [device EXCEPT ![l].outbox = queue]
  BY DEF Write
<1> HIDE DEF queue
<1>4. device' \in [Leader -> DeviceType]
  BY <1>1, <1>2, <1>3 DEF DeviceType
<1>5. \A m \in Leader : Good(m, lead'[m], family, staged)
  BY DEF Write, Invariant, Loaded
<1>6. UNCHANGED <<family, staged, harmed>>
  BY DEF Write
<1> QED BY <1>1, <1>4, <1>5, <1>6, StillFamily

LEMMA AcceptStep ==
  ASSUME Invariant, NEW l \in Leader, Accept(l)
  PROVE  Step
<1>1. device \in [Leader -> DeviceType] /\ lead' \in [Leader -> AttemptType]
      /\ device[l] \in DeviceType /\ family.past \subseteq 1 .. MaxEpoch
  BY DEF Invariant, Typed, Accept, FamilyType
<1>2. PICK e \in 1 .. MaxEpoch : device' = [device EXCEPT ![l].key = e, ![l].floor = 0]
  BY <1>1 DEF Accept, Linked
<1>3. device' \in [Leader -> DeviceType]
  BY <1>1, <1>2 DEF DeviceType
<1>4. \A m \in Leader : Good(m, lead'[m], family, staged)
  BY DEF Accept, Invariant, Loaded
<1>5. UNCHANGED <<family, staged, harmed>>
  BY DEF Accept
<1> QED BY <1>1, <1>3, <1>4, <1>5, StillFamily

(* While nothing is staged nobody relies on the rows.                      *)
LEMMA SyncRoundStep ==
  ASSUME Invariant, NEW l \in Leader, SyncRound(l)
  PROVE  Step
<1> DEFINE open == staged = NoStaging
           rows == IF open THEN Appended(family.rows, device[l].outbox) ELSE family.rows
           floor == Most(device[l].floor, Len(rows))
           queue == IF open THEN <<>> ELSE device[l].outbox
<1>1. /\ family \in FamilyType /\ device \in [Leader -> DeviceType]
      /\ device[l] \in DeviceType /\ Distinct(family.rows)
  BY DEF Invariant, Typed, Ordered
<1>2. family.rows \in Seq(RowType) /\ device[l].outbox \in Seq(Op) /\ device[l].floor \in Nat
  BY <1>1 DEF FamilyType, DeviceType
<1>3. /\ rows \in Seq(RowType) /\ Distinct(rows)
      /\ OpsOf(family.rows) \subseteq OpsOf(rows) /\ (~open => rows = family.rows)
  BY <1>1, <1>2, AppendedFacts
<1>4. /\ family' = [family EXCEPT !.rows = rows]
      /\ device' = [device EXCEPT ![l].floor = floor, ![l].outbox = queue]
      /\ UNCHANGED <<staged, lead, harmed>>
  BY DEF SyncRound
<1>5. queue \in Seq(Op)
  BY <1>2
<1> HIDE DEF rows, queue
<1>6. floor \in Nat
  <2>1. Len(rows) \in Nat
    BY <1>3
  <2> QED BY <1>2, <2>1 DEF Most
<1> HIDE DEF floor
<1>7. device' \in [Leader -> DeviceType]
  BY <1>1, <1>4, <1>5, <1>6 DEF DeviceType
<1>8. /\ family' \in FamilyType /\ family'.rows = rows
      /\ family'.epoch = family.epoch /\ family'.top = family.top
  BY <1>1, <1>3, <1>4 DEF FamilyType
<1>9. Typed' /\ Ordered'
  BY <1>3, <1>4, <1>7, <1>8 DEF Invariant, Typed, Ordered
<1>10. ASSUME NEW m \in Leader PROVE Good(m, lead[m], family', staged)
  <2>1. Good(m, lead[m], family, staged)
    BY DEF Invariant, Loaded
  <2>2. staged.by = {m} => rows = family.rows
    BY <1>3 DEF NoStaging
  <2>3. staged.by = {m} => OpsOf(family'.rows) \subseteq OpsOf(family.rows)
    BY <1>8, <2>2
  <2> QED BY <2>1, <2>3, GoodKept
<1>11. Loaded'
  BY <1>4, <1>10 DEF Loaded
<1>12. Promised /\ Consented
  BY <1>3, <1>8, RowsOfOps DEF Promised, Consented
<1> QED BY <1>9, <1>11, <1>12 DEF Step, Invariant

LEMMA NoStagingTyped == ASSUME Bounds PROVE NoStaging \in StagedType
<1>1. <<>> \in Seq(RowType)
  BY EmptySeq
<1>2. 0 \in 0 .. MaxEpoch
  BY DEF Bounds
<1> QED BY <1>1, <1>2 DEF NoStaging, StagedType

(* The members change, or what is staged is dropped.                       *)
LEMMA RevokeStep ==
  ASSUME Invariant, NEW m \in Member, Revoke(m)
  PROVE  Step
<1>1. family \in FamilyType
  BY DEF Invariant, Typed
<1>2. /\ family' = [family EXCEPT !.members = family.members \ {m}]
      /\ UNCHANGED <<staged, device, lead, harmed>>
  BY DEF Revoke
<1>3. /\ family' \in FamilyType /\ family'.rows = family.rows
      /\ family'.epoch = family.epoch /\ family'.top = family.top
  BY <1>1, <1>2 DEF FamilyType
<1>4. Typed' /\ Ordered'
  BY <1>2, <1>3 DEF Invariant, Typed, Ordered
<1>5. ASSUME NEW l \in Leader PROVE Good(l, lead[l], family', staged)
  BY <1>3, GoodKept DEF Invariant, Loaded
<1>6. Loaded'
  BY <1>2, <1>5 DEF Loaded
<1>7. family.rows \in Seq(RowType)
  BY <1>1 DEF FamilyType
<1>8. Promised /\ Consented
  BY <1>3, <1>7, RowsOfOps DEF Promised, Consented
<1> QED BY <1>4, <1>6, <1>8 DEF Step, Invariant

LEMMA DroppedStep ==
  ASSUME Invariant, Bounds, UNCHANGED <<family, device, harmed>>, staged' = NoStaging,
         lead' \in [Leader -> AttemptType], \A l \in Leader : Numbered(lead'[l])
  PROVE  Step
<1>1. family \in FamilyType /\ family' = family
  BY DEF Invariant, Typed
<1>2. NoStaging \in StagedType /\ NoStaging.rows = <<>> /\ NoStaging.epoch = 0 /\ NoStaging.by = {}
  BY NoStagingTyped DEF NoStaging
<1>3. Typed'
  BY <1>1, <1>2 DEF Invariant, Typed
<1>4. Ordered'
  BY <1>1, <1>2 DEF Invariant, Ordered, Distinct, FamilyType
<1>5. \A l \in Leader : Good(l, lead'[l], family, NoStaging)
  BY <1>2 DEF Good
<1>6. Loaded'
  BY <1>1, <1>5 DEF Loaded
<1>7. family.rows \in Seq(RowType)
  BY <1>1 DEF FamilyType
<1>8. Promised /\ Consented
  BY <1>1, <1>7, RowsOfOps DEF Promised, Consented
<1> QED BY <1>3, <1>4, <1>6, <1>8 DEF Step, Invariant

LEMMA SweepStep ==
  ASSUME Invariant, Bounds, Sweep
  PROVE  Step
<1>1. lead' \in [Leader -> AttemptType] /\ \A l \in Leader : Numbered(lead'[l])
  BY DEF Sweep, Invariant, Typed, Loaded, Good
<1> QED BY <1>1, DroppedStep DEF Sweep

LEMMA CancelStep ==
  ASSUME Invariant, Bounds, NEW l \in Leader, Cancel(l)
  PROVE  Step
<1>1. Goes(l, NoAttempt) /\ NoAttempt \in AttemptType /\ Numbered(NoAttempt)
  BY NoAttemptTyped DEF Cancel
<1>2. /\ lead' \in [Leader -> AttemptType] /\ lead'[l] = NoAttempt
      /\ \A m \in Leader : m # l => lead'[m] = lead[m]
  BY <1>1, LeadUpdated DEF Invariant, Typed
<1>3. \A m \in Leader : Numbered(lead'[m])
  BY <1>1, <1>2 DEF Invariant, Loaded, Good
<1> QED BY <1>2, <1>3, DroppedStep DEF Cancel

(* Harm takes operations away and gives none.                              *)
LEMMA HarmStep ==
  ASSUME Invariant, Bounds, NEW rows \in Seq(RowType), Harm(rows), Distinct(rows),
         OpsOf(rows) \subseteq OpsOf(family.rows)
  PROVE  Step
<1>1. family \in FamilyType /\ harmed \in 0 .. MaxFaults
  BY DEF Invariant, Typed
<1>2. /\ family' = [family EXCEPT !.rows = rows] /\ harmed' = harmed + 1
      /\ harmed < MaxFaults /\ UNCHANGED <<staged, device, lead>>
  BY DEF Harm
<1>3. /\ family' \in FamilyType /\ family'.rows = rows
      /\ family'.epoch = family.epoch /\ family'.top = family.top
  BY <1>1, <1>2 DEF FamilyType
<1>4. harmed' \in 0 .. MaxFaults
  BY <1>1, <1>2 DEF Bounds
<1>5. Typed' /\ Ordered'
  BY <1>2, <1>3, <1>4 DEF Invariant, Typed, Ordered
<1>6. ASSUME NEW l \in Leader PROVE Good(l, lead[l], family', staged)
  BY <1>3, GoodKept DEF Invariant, Loaded
<1>7. Loaded'
  BY <1>2, <1>6 DEF Loaded
<1>8. Promised /\ Consented
  BY <1>3, RowsOfOps DEF Promised, Consented
<1> QED BY <1>5, <1>7, <1>8 DEF Step, Invariant

LEMMA CutTailStep ==
  ASSUME Invariant, Bounds, NEW n \in DOMAIN family.rows, CutTail(n)
  PROVE  Step
<1> DEFINE old == family.rows
           rows == SubSeq(old, 1, n - 1)
<1>1. old \in Seq(RowType) /\ Distinct(old)
  BY DEF Invariant, Typed, Ordered, FamilyType
<1>2. n \in 1 .. Len(old) /\ DOMAIN old = 1 .. Len(old) /\ Len(old) \in Nat
  BY <1>1
<1>3. Harm(rows)
  BY DEF CutTail
<1> HIDE DEF old
<1>4. \A i \in 1 .. n - 1 : i \in DOMAIN old /\ old[i] \in RowType
  BY <1>1, <1>2
<1>5. /\ rows \in Seq(RowType) /\ Len(rows) = n - 1
      /\ \A i \in 1 .. n - 1 : rows[i] = old[i]
  BY <1>2, <1>4, SubSeqProperties
<1>6. DOMAIN rows = 1 .. n - 1
  BY <1>5
<1> HIDE DEF rows
<1>7. Distinct(rows)
  BY <1>1, <1>4, <1>5, <1>6 DEF Distinct
<1>8. OpsOf(rows) \subseteq OpsOf(old)
  BY <1>4, <1>5, <1>6 DEF OpsOf, Whole
<1> QED BY <1>3, <1>5, <1>7, <1>8, HarmStep DEF old

LEMMA SpoilRowStep ==
  ASSUME Invariant, Bounds, NEW n \in DOMAIN family.rows, NEW state \in {"missing", "sealed"},
         SpoilRow(n, state)
  PROVE  Step
<1> DEFINE old == family.rows
           rows == [old EXCEPT ![n].state = state]
<1>1. old \in Seq(RowType) /\ Distinct(old) /\ n \in DOMAIN old
  BY DEF Invariant, Typed, Ordered, FamilyType
<1>2. Harm(rows)
  BY DEF SpoilRow
<1> HIDE DEF old
<1>3. \A i \in DOMAIN old : old[i] \in RowType
  BY <1>1
<1>4. /\ rows \in [1 .. Len(old) -> RowType] /\ DOMAIN rows = DOMAIN old
      /\ \A i \in DOMAIN old : /\ rows[i].op = old[i].op
                               /\ rows[i].state = "whole" => old[i].state = "whole"
  BY <1>1, <1>3 DEF RowType
<1>5. rows \in Seq(RowType)
  BY <1>1, <1>4, FunctionIsSeq
<1> HIDE DEF rows
<1>6. Distinct(rows)
  BY <1>1, <1>4 DEF Distinct
<1>7. OpsOf(rows) \subseteq OpsOf(old)
  BY <1>4 DEF OpsOf, Whole
<1> QED BY <1>2, <1>5, <1>6, <1>7, HarmStep DEF old

-----------------------------------------------------------------------------
(* An attempt.                                                             *)

LEMMA PrepareStep ==
  ASSUME Invariant, Bounds, NEW l \in Leader, NEW consent \in BOOLEAN, Prepare(l, consent)
  PROVE  Step
<1>1. /\ family \in FamilyType /\ device \in [Leader -> DeviceType] /\ device[l] \in DeviceType
      /\ lead[l] \in AttemptType
  BY DEF Invariant, Typed
<1>2. PICK devices \in {Everybody, family.members} :
        Goes(l, [NoAttempt EXCEPT !.at = "declare", !.key = device[l].key,
                   !.floor = device[l].floor, !.queue = device[l].outbox,
                   !.devices = devices, !.consent = consent])
  BY DEF Prepare
<1> DEFINE mine == [NoAttempt EXCEPT !.at = "declare", !.key = device[l].key,
                   !.floor = device[l].floor, !.queue = device[l].outbox,
                   !.devices = devices, !.consent = consent]
<1>3. devices \subseteq Everybody
  BY <1>1 DEF FamilyType
<1>4. <<>> \in Seq(Op) /\ Len(<<>>) = 0
  BY EmptySeq
<1>5. mine.at = "declare" /\ mine.sent = 0 /\ mine.load = <<>> /\ mine.next = 0 /\ mine.freeze = 0
      /\ mine.key = device[l].key /\ mine.floor = device[l].floor /\ mine.queue = device[l].outbox
      /\ mine.devices = devices /\ mine.consent = consent
  BY DEF NoAttempt
<1>6. device[l].key \in 0 .. MaxEpoch /\ 0 \in 0 .. MaxEpoch
  BY <1>1 DEF DeviceType, Bounds
<1>7. mine \in AttemptType
  BY <1>1, <1>3, <1>4, <1>6 DEF AttemptType, DeviceType, NoAttempt
<1> HIDE DEF mine
<1>8. Numbered(mine)
  BY <1>4, <1>5 DEF Numbered
<1>9. Good(l, mine, family, staged)
  BY <1>5, <1>8, GoodApart
<1>10. Goes(l, mine) /\ UNCHANGED <<family, staged, harmed>> /\ device' \in [Leader -> DeviceType]
  BY <1>1, <1>2 DEF Prepare, mine
<1> QED BY <1>7, <1>9, <1>10, AttemptStep

(* The new number is nobody's, and one attempt at most is staged.          *)
LEMMA DeclareStep ==
  ASSUME Invariant, Bounds, NEW l \in Leader, Declare(l)
  PROVE  Step
<1>1. /\ family \in FamilyType /\ lead \in [Leader -> AttemptType] /\ lead[l] \in AttemptType
      /\ device \in [Leader -> DeviceType] /\ lead[l].at = "declare"
      /\ Numbered(lead[l]) /\ UNCHANGED <<device, harmed>>
  BY DEF Invariant, Typed, Loaded, Good, Declare
<1>2. CASE staged # NoStaging
  BY <1>1, <1>2, FailedStep DEF Declare
<1>3. CASE staged = NoStaging
  <2> DEFINE n == family.top + 1
             freeze == Len(family.rows)
             s == [NoStaging EXCEPT !.by = {l}, !.epoch = n, !.freeze = freeze]
             mine == [lead[l] EXCEPT !.at = "read", !.next = n, !.freeze = freeze]
             c == [NoAttempt EXCEPT !.at = "cancel"]
             attempt == IF Acceptable(lead[l]) THEN mine ELSE c
  <2>1. n \in 1 .. MaxEpoch /\ n \in 0 .. MaxEpoch /\ freeze \in Nat /\ family.rows \in Seq(RowType)
        /\ family.epoch \in Int /\ family.top \in Int
    BY <1>1, <1>3 DEF Declare, FamilyType, Bounds
  <2>2. /\ family' = [family EXCEPT !.top = n] /\ staged' = s /\ Goes(l, attempt)
    BY <1>3 DEF Declare, Failed
  <2>3. n = family.top + 1
    OBVIOUS
  <2>4. Acceptable(lead[l]) => freeze >= lead[l].floor
    BY DEF Acceptable
  <2> HIDE DEF n, freeze
  <2>5. /\ family' \in FamilyType /\ family'.rows = family.rows
        /\ family'.epoch = family.epoch /\ family'.top = n
    BY <1>1, <2>1, <2>2 DEF FamilyType
  <2>6. s \in StagedType /\ s.by = {l} /\ s.rows = <<>> /\ s.epoch = n
    BY <2>1, NoStagingTyped DEF StagedType, NoStaging
  <2> HIDE DEF s
  <2>7. Acceptable(lead[l]) => Numbered(mine) /\ mine \in AttemptType /\ mine.at = "read"
    <3>1. /\ mine \in AttemptType /\ mine.at = "read" /\ mine.sent = lead[l].sent /\ mine.load = lead[l].load
          /\ mine.next = n /\ mine.freeze = freeze /\ mine.floor = lead[l].floor
      BY <1>1, <2>1 DEF AttemptType
    <3> HIDE DEF mine
    <3> QED BY <1>1, <2>1, <2>4, <3>1 DEF Numbered
  <2>8. Numbered(c) /\ c \in AttemptType /\ c.at = "cancel"
    BY FailedTyped
  <2> HIDE DEF mine, c
  <2>9. attempt \in AttemptType /\ Numbered(attempt) /\ attempt.at \in {"read", "cancel"}
    BY <2>7, <2>8
  <2> HIDE DEF attempt
  <2>10. /\ lead' \in [Leader -> AttemptType] /\ lead'[l] = attempt
         /\ \A m \in Leader : m # l => lead'[m] = lead[m]
    BY <1>1, <2>2, <2>9, LeadUpdated
  <2>11. ASSUME NEW m \in Leader PROVE Good(m, lead'[m], family', s)
    <3>1. CASE m = l
      BY <2>9, <2>10, <3>1, GoodApart
    <3>2. CASE m # l
      <4>1. Good(m, lead[m], family, staged) /\ s.by # {m}
        BY <2>6, <3>2 DEF Invariant, Loaded
      <4> QED BY <2>10, <3>2, <4>1, GoodKept
    <3> QED BY <3>1, <3>2
  <2>12. Typed'
    BY <1>1, <2>2, <2>5, <2>6, <2>10 DEF Invariant, Typed
  <2>13. Ordered'
    <3>1. family.epoch <= n /\ family.epoch < n /\ n <= n
      BY <2>1, <2>3 DEF Invariant, Ordered
    <3>2. DOMAIN s.rows = {}
      BY <2>6
    <3> QED BY <2>2, <2>5, <2>6, <3>1, <3>2 DEF Invariant, Ordered, Distinct
  <2>14. Loaded'
    BY <2>2, <2>11 DEF Loaded
  <2>15. Promised /\ Consented
    BY <2>1, <2>5, RowsOfOps DEF Promised, Consented
  <2> QED BY <2>12, <2>13, <2>14, <2>15 DEF Step, Invariant
<1> QED BY <1>2, <1>3

(* What was read is all there is, or a person agreed to less.              *)
LEMMA ReadStep ==
  ASSUME Invariant, Bounds, NEW l \in Leader, Read(l)
  PROVE  Step
<1> DEFINE old == lead[l]
           load == Carried(old)
           mine == [old EXCEPT !.at = "upload", !.load = load]
<1>1. /\ family \in FamilyType /\ old \in AttemptType /\ Numbered(old) /\ old.at = "read"
      /\ UNCHANGED <<family, staged, harmed>> /\ device' \in [Leader -> DeviceType]
      /\ Distinct(family.rows) /\ UNCHANGED device
  BY DEF Invariant, Typed, Ordered, Loaded, Good, Read
<1>2. CASE Failed(l)
  BY <1>1, <1>2, FailedStep
<1>3. CASE Len(family.rows) <= old.freeze /\ ~Halts(old) /\ Goes(l, mine)
  <2>1. load \in Seq(Op) /\ OpsOf(family.rows) \subseteq ToSet(load)
    BY <1>1, <1>3, CarriedFacts
  <2>2. ~old.consent => Cardinality(ToSet(load)) >= old.floor
    <3>1. SUFFICES ASSUME ~old.consent PROVE Cardinality(ToSet(load)) >= old.floor
      OBVIOUS
    <3>2. Gaps(old) = {}
      BY <1>3, <3>1 DEF Halts
    <3>3. Cardinality(OpsOf(family.rows)) = old.freeze
      BY <1>1, <1>3, <3>2, WholeList
    <3>4. IsFiniteSet(ToSet(load))
      BY <2>1, ToSetFinite
    <3>5. Cardinality(OpsOf(family.rows)) <= Cardinality(ToSet(load))
          /\ Cardinality(ToSet(load)) \in Nat
      BY <2>1, <3>4, MoreOfThem
    <3>6. old.freeze >= old.floor /\ old.freeze \in Nat /\ old.floor \in Nat
      BY <1>1 DEF Numbered, AttemptType
    <3> QED BY <3>3, <3>5, <3>6
  <2> HIDE DEF load
  <2>3. /\ mine \in AttemptType /\ mine.at = "upload" /\ mine.load = load /\ mine.sent = 0
        /\ mine.next = old.next /\ mine.consent = old.consent /\ mine.floor = old.floor
    BY <1>1, <2>1 DEF AttemptType, Numbered
  <2>4. Goes(l, mine)
    BY <1>3
  <2> HIDE DEF mine
  <2>5. Numbered(mine)
    <3>1. Len(load) \in Nat
      BY <2>1
    <3> QED BY <1>1, <2>2, <2>3, <3>1 DEF Numbered
  <2>6. Holds(mine, family.rows, staged)
    BY <2>1, <2>3 DEF Holds
  <2>7. Good(l, mine, family, staged)
    BY <2>5, <2>6 DEF Good
  <2> QED BY <1>1, <2>3, <2>4, <2>7, AttemptStep
<1>4. Failed(l) \/ (Len(family.rows) <= old.freeze /\ ~Halts(old) /\ Goes(l, mine))
  <2>1. Len(family.rows) \in Nat /\ old.freeze \in Nat
    BY <1>1 DEF FamilyType, AttemptType
  <2> QED BY <2>1 DEF Read
<1> QED BY <1>2, <1>3, <1>4

(* Steps of the leading attempt on what it has staged: nobody else has     *)
(* anything staged.                                                        *)
LEMMA LeadingStep ==
  ASSUME Invariant, NEW l \in Leader, Leads(l), NEW s \in StagedType, staged' = s,
         s.by = staged.by, s.epoch = staged.epoch, Distinct(s.rows),
         \A i \in DOMAIN s.rows : s.rows[i].state = "whole",
         NEW attempt \in AttemptType, Goes(l, attempt), Numbered(attempt),
         Holds(attempt, family.rows, s), UNCHANGED <<family, device, harmed>>
  PROVE  Step
<1>1. /\ family \in FamilyType /\ family' = family /\ lead \in [Leader -> AttemptType]
  BY DEF Invariant, Typed
<1>2. /\ lead' \in [Leader -> AttemptType] /\ lead'[l] = attempt
      /\ \A m \in Leader : m # l => lead'[m] = lead[m]
  BY <1>1, LeadUpdated
<1>3. Typed'
  BY <1>1, <1>2 DEF Invariant, Typed
<1>4. Ordered'
  BY <1>1 DEF Invariant, Ordered
<1>5. ASSUME NEW m \in Leader PROVE Good(m, lead'[m], family, s)
  <2>1. CASE m = l
    BY <1>2, <2>1 DEF Good
  <2>2. CASE m # l
    <3>1. s.by # {m} /\ Good(m, lead[m], family, staged)
      BY <2>2 DEF Leads, Invariant, Loaded
    <3> QED BY <1>2, <2>2, <3>1, GoodKept
  <2> QED BY <2>1, <2>2
<1>6. Loaded'
  BY <1>1, <1>5 DEF Loaded
<1>7. family.rows \in Seq(RowType)
  BY <1>1 DEF FamilyType
<1>8. Promised /\ Consented
  BY <1>1, <1>7, RowsOfOps DEF Promised, Consented
<1> QED BY <1>3, <1>4, <1>6, <1>8 DEF Step, Invariant

LEMMA PartOf ==
  ASSUME NEW S, NEW s \in Seq(S), NEW m \in Nat, NEW n \in Nat, m < n, n <= Len(s)
  PROVE  /\ SubSeq(s, m + 1, n) \in Seq(S) /\ Len(SubSeq(s, m + 1, n)) = n - m
         /\ \A i \in 1 .. n - m : SubSeq(s, m + 1, n)[i] = s[m + i]
<1>1. m + 1 \in Int /\ n \in Int /\ \A i \in m + 1 .. n : s[i] \in S
  OBVIOUS
<1>2. SubSeq(s, m + 1, n) \in Seq(S)
  OBVIOUS
<1>3. Len(SubSeq(s, m + 1, n)) = n - m
  OBVIOUS
<1>4. ASSUME NEW i \in 1 .. n - m PROVE SubSeq(s, m + 1, n)[i] = s[m + i]
  OBVIOUS
<1> QED BY <1>2, <1>3, <1>4

LEMMA UploadStep ==
  ASSUME Invariant, Bounds, NEW l \in Leader, Upload(l)
  PROVE  Step
<1> DEFINE old == lead[l]
           sent == old.sent
           upto == Least(sent + Batch, Len(old.load))
           batch == SubSeq(old.load, sent + 1, upto)
           rows == Appended(staged.rows, batch)
           s == [staged EXCEPT !.rows = rows]
           mine == [old EXCEPT !.sent = upto]
<1>1. /\ staged \in StagedType /\ old \in AttemptType /\ Numbered(old) /\ old.at = "upload"
      /\ Distinct(staged.rows) /\ \A i \in DOMAIN staged.rows : staged.rows[i].state = "whole"
      /\ UNCHANGED <<family, device, harmed>> /\ sent < Len(old.load)
      /\ Leads(l) => Holds(old, family.rows, staged)
  BY DEF Invariant, Typed, Ordered, Loaded, Good, Leads, Upload
<1>2. CASE ~Leads(l)
  BY <1>1, <1>2, FailedStep DEF Upload
<1>3. CASE Leads(l)
  <2>1. /\ staged.rows \in Seq(RowType) /\ old.load \in Seq(Op) /\ sent \in Nat
        /\ Len(old.load) \in Nat /\ DOMAIN old.load = 1 .. Len(old.load)
    BY <1>1 DEF StagedType, AttemptType
  <2>2. upto \in Nat /\ sent < upto /\ upto <= Len(old.load)
    BY <1>1, <2>1 DEF Bounds, Least
  <2>3. staged' = s /\ Goes(l, mine)
    BY <1>3 DEF Upload
  <2> HIDE DEF upto
  <2>4. /\ batch \in Seq(Op) /\ Len(batch) = upto - sent
        /\ \A i \in 1 .. upto - sent : batch[i] = old.load[sent + i]
    BY <2>1, <2>2, PartOf
  <2> HIDE DEF batch
  <2>5. /\ rows \in Seq(RowType) /\ Distinct(rows)
        /\ OpsOf(staged.rows) \subseteq OpsOf(rows)
        /\ \A i \in DOMAIN rows : rows[i].state = "whole"
        /\ \A i \in DOMAIN batch : batch[i] \in OpsOf(rows)
    BY <1>1, <2>1, <2>4, AppendedFacts
  <2> HIDE DEF rows
  <2>6. s \in StagedType /\ s.by = staged.by /\ s.epoch = staged.epoch /\ s.rows = rows
    BY <1>1, <2>5 DEF StagedType
  <2> HIDE DEF s
  <2>7. /\ mine \in AttemptType /\ mine.at = "upload" /\ mine.load = old.load /\ mine.sent = upto
        /\ mine.next = old.next /\ mine.consent = old.consent /\ mine.floor = old.floor
    BY <1>1, <2>2 DEF AttemptType
  <2> HIDE DEF mine
  <2>8. Numbered(mine)
    BY <1>1, <2>2, <2>7 DEF Numbered
  <2>9. ASSUME NEW i \in 1 .. upto PROVE old.load[i] \in OpsOf(rows)
    <3>1. CASE i <= sent
      <4>1. i \in 1 .. sent
        BY <2>1, <3>1
      <4> QED BY <1>1, <1>3, <2>5, <4>1 DEF Holds
    <3>2. CASE ~(i <= sent)
      <4>1. i - sent \in 1 .. upto - sent /\ sent + (i - sent) = i
        BY <2>1, <2>2, <3>2
      <4>2. i - sent \in DOMAIN batch
        BY <2>1, <2>2, <2>4, <4>1
      <4>3. batch[i - sent] = old.load[i]
        BY <2>4, <4>1
      <4> QED BY <2>5, <4>2, <4>3
    <3> QED BY <3>1, <3>2
  <2>10. Holds(mine, family.rows, s)
    BY <1>1, <1>3, <2>6, <2>7, <2>9 DEF Holds
  <2> QED BY <1>1, <1>3, <2>3, <2>5, <2>6, <2>7, <2>8, <2>10, LeadingStep
<1> QED BY <1>2, <1>3

LEMMA UploadKeysStep ==
  ASSUME Invariant, Bounds, NEW l \in Leader, UploadKeys(l)
  PROVE  Step
<1> DEFINE old == lead[l]
           s == [staged EXCEPT !.confirm = TRUE, !.wraps = Recipients(l)]
           mine == [old EXCEPT !.at = "complete"]
<1>1. /\ staged \in StagedType /\ old \in AttemptType /\ Numbered(old) /\ old.at = "upload"
      /\ Distinct(staged.rows) /\ \A i \in DOMAIN staged.rows : staged.rows[i].state = "whole"
      /\ UNCHANGED <<family, device, harmed>> /\ Sent(old)
      /\ Leads(l) => Holds(old, family.rows, staged)
  BY DEF Invariant, Typed, Ordered, Loaded, Good, Leads, UploadKeys
<1>2. CASE ~(Leads(l) /\ Recipients(l) \subseteq family.members)
  BY <1>1, <1>2, FailedStep DEF UploadKeys
<1>3. CASE Leads(l) /\ Recipients(l) \subseteq family.members
  <2>1. Recipients(l) \subseteq Everybody
    BY <1>1 DEF Recipients, AttemptType
  <2>2. staged' = s /\ Goes(l, mine)
    BY <1>3 DEF UploadKeys
  <2>3. s \in StagedType /\ s.by = staged.by /\ s.epoch = staged.epoch /\ s.rows = staged.rows
    BY <1>1, <2>1 DEF StagedType
  <2> HIDE DEF s
  <2>4. /\ mine \in AttemptType /\ mine.at = "complete" /\ mine.load = old.load /\ mine.sent = old.sent
        /\ mine.next = old.next /\ mine.consent = old.consent /\ mine.floor = old.floor
    BY <1>1 DEF AttemptType
  <2> HIDE DEF mine
  <2>5. Numbered(mine)
    BY <1>1, <2>4 DEF Numbered, Sent
  <2>6. Holds(mine, family.rows, s)
    BY <1>1, <1>3, <2>3, <2>4 DEF Holds
  <2> QED BY <1>1, <1>3, <2>2, <2>3, <2>4, <2>5, <2>6, LeadingStep
<1> QED BY <1>2, <1>3

(* The switch: all of the load is staged, and the load holds what opens.   *)
LEMMA CompleteStep ==
  ASSUME Invariant, Bounds, NEW l \in Leader, Complete(l)
  PROVE  Step
<1> DEFINE old == lead[l]
           mine == [old EXCEPT !.at = "look"]
           c == [NoAttempt EXCEPT !.at = "cancel"]
<1>1. /\ staged \in StagedType /\ old \in AttemptType /\ Numbered(old) /\ old.at = "complete"
      /\ family \in FamilyType /\ lead \in [Leader -> AttemptType]
      /\ UNCHANGED <<device, harmed>> /\ Sent(old)
      /\ Leads(l) => Holds(old, family.rows, staged)
  BY DEF Invariant, Typed, Loaded, Good, Leads, Complete, Numbered
<1>2. CASE ~(Leads(l) /\ staged.confirm)
  BY <1>1, <1>2, FailedStep DEF Complete
<1>3. CASE Leads(l) /\ staged.confirm
  <2>1. /\ family' = Switched /\ staged' = NoStaging /\ (Goes(l, mine) \/ Goes(l, c))
    BY <1>3 DEF Complete, Failed
  <2>2. /\ staged.epoch \in 1 .. MaxEpoch /\ family.epoch < staged.epoch
        /\ staged.epoch <= family.top /\ staged.epoch \in Nat
        /\ staged.rows \in Seq(RowType) /\ staged.wraps \subseteq Everybody
    BY <1>1, <1>3 DEF Leads, Invariant, Ordered, StagedType, FamilyType, Bounds
  <2>3. /\ family' \in FamilyType /\ family'.rows = staged.rows
        /\ family'.epoch = staged.epoch /\ family'.top = family.top
    BY <1>1, <2>1, <2>2 DEF Switched, FamilyType
  <2>4. mine \in AttemptType /\ Numbered(mine) /\ mine.at = "look"
    <3>1. /\ mine \in AttemptType /\ mine.at = "look" /\ mine.sent = old.sent /\ mine.load = old.load
          /\ mine.next = old.next
      BY <1>1 DEF AttemptType
    <3> HIDE DEF mine
    <3> QED BY <1>1, <3>1 DEF Numbered
  <2>5. c \in AttemptType /\ Numbered(c) /\ c.at = "cancel"
    BY FailedTyped
  <2> HIDE DEF mine, c
  <2>6. PICK attempt \in AttemptType : Goes(l, attempt) /\ Numbered(attempt)
    BY <2>1, <2>4, <2>5
  <2>7. /\ lead' \in [Leader -> AttemptType] /\ lead'[l] = attempt
        /\ \A m \in Leader : m # l => lead'[m] = lead[m]
    BY <1>1, <2>6, LeadUpdated
  <2>8. NoStaging \in StagedType /\ NoStaging.rows = <<>> /\ NoStaging.epoch = 0 /\ NoStaging.by = {}
    BY NoStagingTyped DEF NoStaging
  <2>9. Typed'
    BY <1>1, <2>1, <2>3, <2>7, <2>8 DEF Invariant, Typed
  <2>10. Ordered'
    <3>1. 0 <= family.top
      BY <1>1 DEF FamilyType
    <3> QED BY <2>1, <2>2, <2>3, <2>8, <3>1 DEF Invariant, Ordered, Distinct
  <2>11. Loaded'
    <3>1. \A m \in Leader : Numbered(lead'[m])
      BY <2>6, <2>7 DEF Invariant, Loaded, Good
    <3>2. \A m \in Leader : Good(m, lead'[m], family', NoStaging)
      BY <2>8, <3>1 DEF Good
    <3> QED BY <2>1, <3>2 DEF Loaded
  <2>12. ToSet(old.load) \subseteq OpsOf(staged.rows)
    <3>1. \A i \in DOMAIN old.load : i \in 1 .. old.sent
      BY <1>1 DEF Sent, AttemptType
    <3> QED BY <1>1, <1>3, <3>1 DEF Holds, ToSet
  <2>13. OpsOf(family.rows) \subseteq OpsOf(staged.rows)
    BY <1>1, <1>3, <2>12 DEF Holds
  <2>14. Promised
    BY <2>2, <2>3, <2>13, RowsOfOps DEF Promised
  <2>15. Consented
    <3>1. SUFFICES ASSUME NEW m \in Leader, staged.by = {m}, ~lead[m].consent
                   PROVE Cardinality(OpsOf(staged.rows)) >= lead[m].floor
      BY <2>3 DEF Consented
    <3>2. m = l
      BY <1>3, <3>1 DEF Leads
    <3>3. Cardinality(ToSet(old.load)) >= old.floor
      BY <1>1, <3>1, <3>2 DEF Numbered
    <3>4. IsFiniteSet(OpsOf(staged.rows))
      BY <2>2, OpsFinite
    <3>5. /\ Cardinality(ToSet(old.load)) <= Cardinality(OpsOf(staged.rows))
          /\ Cardinality(ToSet(old.load)) \in Nat /\ Cardinality(OpsOf(staged.rows)) \in Nat
      BY <2>12, <3>4, MoreOfThem
    <3>6. old.floor \in Nat
      BY <1>1 DEF AttemptType
    <3> QED BY <3>2, <3>3, <3>5, <3>6
  <2> QED BY <2>9, <2>10, <2>11, <2>14, <2>15 DEF Step, Invariant
<1> QED BY <1>2, <1>3

LEMMA LookStep ==
  ASSUME Invariant, Bounds, NEW l \in Leader, Look(l)
  PROVE  Step
<1> DEFINE old == lead[l]
           mine == [old EXCEPT !.at = "settle"]
<1>1. /\ old \in AttemptType /\ Numbered(old) /\ old.at = "look"
      /\ UNCHANGED <<family, staged, device, harmed>> /\ device' \in [Leader -> DeviceType]
  BY DEF Invariant, Typed, Loaded, Good, Look
<1>2. CASE Failed(l)
  BY <1>1, <1>2, FailedStep
<1>3. CASE Goes(l, mine)
  <2>1. /\ mine \in AttemptType /\ mine.at = "settle" /\ mine.sent = old.sent /\ mine.load = old.load
        /\ mine.next = old.next
    BY <1>1 DEF AttemptType
  <2> HIDE DEF mine
  <2>2. Numbered(mine)
    BY <1>1, <2>1 DEF Numbered
  <2>3. Good(l, mine, family, staged)
    BY <2>1, <2>2, GoodApart
  <2> QED BY <1>1, <1>3, <2>1, <2>3, AttemptStep
<1> QED BY <1>2, <1>3 DEF Look

LEMMA SettleStep ==
  ASSUME Invariant, Bounds, NEW l \in Leader, Settle(l)
  PROVE  Step
<1> DEFINE old == lead[l]
           mine == [old EXCEPT !.at = "switch"]
           queue == device[l].outbox
           P == {i \in DOMAIN queue : queue[i] \notin ToSet(old.queue)}
           left == Picked(queue, P)
<1>1. /\ old \in AttemptType /\ Numbered(old) /\ old.at = "settle"
      /\ UNCHANGED <<family, staged, harmed>> /\ device \in [Leader -> DeviceType]
      /\ device' = [device EXCEPT ![l].outbox = left] /\ Goes(l, mine)
  BY DEF Invariant, Typed, Loaded, Good, Settle
<1>2. left \in Seq(Op)
  <2>1. queue \in Seq(Op)
    BY <1>1 DEF DeviceType
  <2>2. P \subseteq DOMAIN queue
    OBVIOUS
  <2> HIDE DEF P
  <2> QED BY <2>1, <2>2, PickedElements
<1> HIDE DEF left
<1>3. device' \in [Leader -> DeviceType]
  BY <1>1, <1>2 DEF DeviceType
<1>4. /\ mine \in AttemptType /\ mine.at = "switch" /\ mine.sent = old.sent /\ mine.load = old.load
      /\ mine.next = old.next
  BY <1>1 DEF AttemptType
<1> HIDE DEF mine
<1>5. Numbered(mine)
  BY <1>1, <1>4 DEF Numbered
<1>6. Good(l, mine, family, staged)
  BY <1>4, <1>5, GoodApart
<1> QED BY <1>1, <1>3, <1>4, <1>6, AttemptStep

LEMMA SwitchKeyStep ==
  ASSUME Invariant, Bounds, NEW l \in Leader, SwitchKey(l)
  PROVE  Step
<1>1. /\ lead[l] \in AttemptType /\ Numbered(lead[l]) /\ lead[l].at = "switch"
      /\ UNCHANGED <<family, staged, harmed>> /\ device \in [Leader -> DeviceType]
      /\ device' = [device EXCEPT ![l].key = lead[l].next, ![l].floor = 0]
      /\ Goes(l, NoAttempt)
  BY DEF Invariant, Typed, Loaded, Good, SwitchKey
<1>2. lead[l].next \in 1 .. MaxEpoch /\ 0 \in Nat
  BY <1>1 DEF Numbered, AttemptType, Bounds
<1>3. device' \in [Leader -> DeviceType]
  BY <1>1, <1>2 DEF DeviceType
<1>4. NoAttempt \in AttemptType /\ Good(l, NoAttempt, family, staged)
  BY NoAttemptTyped, GoodApart
<1> QED BY <1>1, <1>3, <1>4, AttemptStep

LEMMA CrashStep ==
  ASSUME Invariant, Bounds, NEW l \in Leader, Crash(l)
  PROVE  Step
<1>1. UNCHANGED <<family, staged, harmed>> /\ device' \in [Leader -> DeviceType]
      /\ Goes(l, NoAttempt)
  BY DEF Invariant, Typed, Crash
<1>2. NoAttempt \in AttemptType /\ Good(l, NoAttempt, family, staged)
  BY NoAttemptTyped, GoodApart
<1> QED BY <1>1, <1>2, AttemptStep

LEMMA UnreachableStep ==
  ASSUME Invariant, Bounds, NEW l \in Leader, Unreachable(l)
  PROVE  Step
BY FailedStep DEF Unreachable

LEMMA StutterStep == ASSUME Invariant, UNCHANGED vars PROVE Step
<1>1. UNCHANGED <<family, staged, harmed>> /\ device' = device /\ lead' = lead
  BY DEF vars
<1>2. /\ device' \in [Leader -> DeviceType] /\ lead' \in [Leader -> AttemptType]
      /\ \A m \in Leader : Good(m, lead'[m], family, staged)
  BY <1>1 DEF Invariant, Typed, Loaded
<1> QED BY <1>1, <1>2, StillFamily

-----------------------------------------------------------------------------
(* The whole of it.                                                        *)

LEMMA InitInvariant == ASSUME Bounds, Init PROVE Invariant
<1>1. <<>> \in Seq(RowType) /\ <<>> \in Seq(Op) /\ Len(<<>>) = 0 /\ DOMAIN <<>> = {}
  BY EmptySeq
<1>2. 1 \in 1 .. MaxEpoch /\ 0 \in 0 .. MaxFaults /\ 0 \in Nat
  BY DEF Bounds
<1>3. family \in FamilyType
  BY <1>1, <1>2 DEF Init, FamilyType
<1>4. staged \in StagedType /\ staged = NoStaging
  BY NoStagingTyped DEF Init
<1>5. device \in [Leader -> DeviceType]
  BY <1>1, <1>2 DEF Init, DeviceType
<1>6. lead \in [Leader -> AttemptType] /\ \A l \in Leader : lead[l] = NoAttempt
  BY NoAttemptTyped DEF Init
<1>7. Typed
  BY <1>2, <1>3, <1>4, <1>5, <1>6 DEF Typed, Init
<1>8. Ordered
  BY <1>1, <1>4 DEF Init, Ordered, NoStaging, Distinct
<1>9. Loaded
  BY <1>6, NoAttemptTyped, GoodApart DEF Loaded
<1> QED BY <1>7, <1>8, <1>9 DEF Invariant

LEMMA NextStep == ASSUME Invariant, Bounds, Next PROVE Step
<1>1. ASSUME NEW l \in Leader, NEW o \in Op, Write(l, o) PROVE Step
  BY <1>1, WriteStep
<1>2. ASSUME NEW l \in Leader, NEW consent \in BOOLEAN, Prepare(l, consent) PROVE Step
  BY <1>2, PrepareStep
<1>3. ASSUME NEW l \in Leader, SyncRound(l) PROVE Step
  BY <1>3, SyncRoundStep
<1>4. ASSUME NEW l \in Leader, Accept(l) PROVE Step
  BY <1>4, AcceptStep
<1>5. ASSUME NEW l \in Leader, Declare(l) PROVE Step
  BY <1>5, DeclareStep
<1>6. ASSUME NEW l \in Leader, Read(l) PROVE Step
  BY <1>6, ReadStep
<1>7. ASSUME NEW l \in Leader, Upload(l) PROVE Step
  BY <1>7, UploadStep
<1>8. ASSUME NEW l \in Leader, UploadKeys(l) PROVE Step
  BY <1>8, UploadKeysStep
<1>9. ASSUME NEW l \in Leader, Complete(l) PROVE Step
  BY <1>9, CompleteStep
<1>10. ASSUME NEW l \in Leader, Look(l) PROVE Step
  BY <1>10, LookStep
<1>11. ASSUME NEW l \in Leader, Settle(l) PROVE Step
  BY <1>11, SettleStep
<1>12. ASSUME NEW l \in Leader, SwitchKey(l) PROVE Step
  BY <1>12, SwitchKeyStep
<1>13. ASSUME NEW l \in Leader, Cancel(l) PROVE Step
  BY <1>13, CancelStep
<1>14. ASSUME NEW l \in Leader, Unreachable(l) PROVE Step
  BY <1>14, UnreachableStep
<1>15. ASSUME NEW l \in Leader, Crash(l) PROVE Step
  BY <1>15, CrashStep
<1>16. ASSUME NEW m \in Member, Revoke(m) PROVE Step
  BY <1>16, RevokeStep
<1>17. CASE Sweep
  BY <1>17, SweepStep
<1>18. ASSUME NEW n \in DOMAIN family.rows, CutTail(n) PROVE Step
  BY <1>18, CutTailStep
<1>19. ASSUME NEW n \in DOMAIN family.rows, NEW state \in {"missing", "sealed"},
              SpoilRow(n, state)
       PROVE  Step
  BY <1>19, SpoilRowStep
<1> QED
  BY <1>1, <1>2, <1>3, <1>4, <1>5, <1>6, <1>7, <1>8, <1>9, <1>10, <1>11, <1>12, <1>13,
     <1>14, <1>15, <1>16, <1>17, <1>18, <1>19 DEF Next

LEMMA EveryStep == ASSUME Bounds, Invariant, [Next]_vars PROVE Step
  BY NextStep, StutterStep

(* The inductive invariant: types, unrepeated rows and numbers that rise,  *)
(* and what every attempt in memory knows about the rotation it leads,     *)
(* with other devices, sweeps and harm between any two of its requests.    *)
THEOREM RotationInvariant == ASSUME Bounds PROVE Spec => []Invariant
<1>1. Init => Invariant
  BY InitInvariant
<1>2. Invariant /\ [Next]_vars => Invariant'
  BY EveryStep DEF Step
<1> QED BY <1>1, <1>2, PTL DEF Spec

(* What the variables of a rotation range over: the epoch in force never   *)
(* exceeds the highest number given out (rotations.ts of the server), and  *)
(* a device has sent no more than it loaded.                               *)
THEOREM RotationTypeOK == ASSUME Bounds PROVE Spec => []TypeOK
<1>1. Invariant => TypeOK
  <2> SUFFICES ASSUME Invariant PROVE TypeOK
    OBVIOUS
  <2>1. /\ family \in FamilyType /\ staged \in StagedType /\ harmed \in 0 .. MaxFaults
        /\ device \in [Leader -> DeviceType] /\ lead \in [Leader -> AttemptType]
        /\ family.epoch <= family.top
    BY DEF Invariant, Typed, Ordered
  <2>2. /\ family.epoch \in 1 .. MaxEpoch /\ family.top \in family.epoch .. MaxEpoch
        /\ family.past \subseteq 1 .. MaxEpoch /\ family.members \subseteq Everybody
        /\ family.wraps \subseteq (1 .. MaxEpoch) \X Everybody
    BY <2>1 DEF FamilyType, Bounds
  <2>3. staged.by \subseteq Leader /\ OpsOf(staged.rows) \subseteq Op
    BY <2>1, RowsOfOps DEF StagedType
  <2>4. ASSUME NEW l \in Leader
        PROVE  /\ device[l].key \in 1 .. MaxEpoch /\ device[l].floor \in Nat
               /\ ToSet(device[l].outbox) \subseteq Op
               /\ lead[l].sent \in 0 .. Len(lead[l].load)
    <3>1. device[l] \in DeviceType /\ lead[l] \in AttemptType
      BY <2>1
    <3>2. /\ device[l].key \in 1 .. MaxEpoch /\ device[l].floor \in Nat
          /\ device[l].outbox \in Seq(Op)
      BY <3>1 DEF DeviceType
    <3>3. lead[l].sent \in Nat /\ lead[l].load \in Seq(Op) /\ lead[l].sent <= Len(lead[l].load)
      BY <3>1 DEF AttemptType, Invariant, Loaded, Good, Numbered
    <3>4. ToSet(device[l].outbox) \subseteq Op
      BY <3>2 DEF ToSet
    <3>5. lead[l].sent \in 0 .. Len(lead[l].load)
      BY <3>3
    <3> QED BY <3>2, <3>4, <3>5
  <2> QED BY <2>1, <2>2, <2>3, <2>4 DEF TypeOK
<1> QED BY <1>1, RotationInvariant, PTL

(* The procedure implements AtomicRotation: whatever stands between the    *)
(* declaration and the switch - another device's attempt, a sweep, a       *)
(* cancellation, a lost answer, rows lost on the server - seen from the    *)
(* journal the key changes in one step, to a higher number, and all that   *)
(* could be read with the old key is there under the new one               *)
(* (performRotation, 5.5 of docs/SYNC_ARCHITECTURE.md).                    *)
THEOREM RotationAtomic == ASSUME Bounds PROVE Spec => RotationIsAtomic
<1>1. Init => Atomic!Init
  <2> SUFFICES ASSUME Init PROVE Atomic!Init
    OBVIOUS
  <2>1. family.epoch = 1 /\ DOMAIN family.rows = {}
    BY EmptySeq DEF Init
  <2> QED BY <2>1 DEF Atomic!Init, OpsOf, Whole
<1>2. ASSUME Invariant, [Next]_vars PROVE [Atomic!Next]_(Atomic!vars)
  <2>1. Promised
    BY <1>2, EveryStep DEF Step
  <2>2. CASE /\ family'.epoch = family.epoch
             /\ OpsOf(family.rows) \subseteq OpsOf(family'.rows)
    <3>1. OpsOf(family'.rows) \in SUBSET Op
      BY <2>1 DEF Promised
    <3>2. OpsOf(family.rows) \cup OpsOf(family'.rows) = OpsOf(family'.rows)
      BY <2>2
    <3>3. Atomic!Write
      BY <2>2, <3>1, <3>2 DEF Atomic!Write
    <3> QED BY <3>3 DEF Atomic!Next
  <2>3. CASE /\ family'.epoch = family.epoch
             /\ OpsOf(family'.rows) \subseteq OpsOf(family.rows)
    BY <2>3 DEF Atomic!Next, Atomic!Harm
  <2>4. CASE /\ family'.epoch \in Nat /\ family'.epoch > family.epoch
             /\ OpsOf(family.rows) \subseteq OpsOf(family'.rows)
    BY <2>1, <2>4 DEF Atomic!Next, Atomic!Rotate, Promised
  <2> QED BY <2>1, <2>2, <2>3, <2>4 DEF Promised
<1> QED BY <1>1, <1>2, RotationInvariant, PTL DEF Spec, RotationIsAtomic, Atomic!Spec

(* A rotation nobody agreed to shorten comes into force with at least as   *)
(* many operations as its device had seen numbers: neither a cut tail nor  *)
(* a hole, at any moment of the reading, becomes lawful when the old epoch *)
(* is deleted (the checks of family/rotation.ts 365-416).      *)
THEOREM RotationConsented == ASSUME Bounds PROVE Spec => CutsAreConsented
<1>1. ASSUME Invariant, [Next]_vars
      PROVE  [family'.epoch # family.epoch =>
                \A l \in Leader : staged.by = {l} /\ ~lead[l].consent =>
                  Cardinality(OpsOf(family'.rows)) >= lead[l].floor]_vars
  BY <1>1, EveryStep DEF Step, Consented
<1> QED BY <1>1, RotationInvariant, PTL DEF Spec, CutsAreConsented
=============================================================================
