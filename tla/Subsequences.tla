---------------------------- MODULE Subsequences ----------------------------
(***************************************************************************)
(* What Array.prototype.filter does to a list, by the places it keeps.     *)
(* Stated with cardinalities and not by recursion, so that what it returns *)
(* can be proved.                                                          *)
(***************************************************************************)
EXTENDS Integers, Sequences, FiniteSets, FiniteSetTheorems, TLAPS

(* How many of these places come no later than place i.                    *)
Rank(places, i) == Cardinality({j \in places : j <= i})

(* The k-th of these places.                                               *)
Place(places, k) == CHOOSE i \in places : Rank(places, i) = k

(* The elements of seq at these places, in their order.                    *)
Picked(seq, places) ==
  [k \in 1 .. Cardinality(places) |-> seq[Place(places, k)]]

-----------------------------------------------------------------------------
(* What Picked returns: a sequence of exactly the chosen elements, in the  *)
(* order they had.                                                         *)

LEMMA FunctionIsSeq ==
  ASSUME NEW S, NEW n \in Nat, NEW f \in [1 .. n -> S]
  PROVE  f \in Seq(S) /\ Len(f) = n /\ DOMAIN f = 1 .. n
  OBVIOUS

(* A later place has a higher rank, and ranks count up to the number of    *)
(* places.                                                                 *)
LEMMA RankFacts ==
  ASSUME NEW n \in Nat, NEW P \in SUBSET (1 .. n)
  PROVE  /\ IsFiniteSet(P) /\ Cardinality(P) \in Nat
         /\ \A i \in P : Rank(P, i) \in 1 .. Cardinality(P)
         /\ \A i, j \in P : i < j => Rank(P, i) < Rank(P, j)
<1>1. IsFiniteSet(P) /\ Cardinality(P) \in Nat
  <2>1. IsFiniteSet(1 .. n)
    BY FS_Interval
  <2> QED BY <2>1, FS_Subset, FS_CardinalityType
<1>2. ASSUME NEW i \in P
      PROVE  /\ IsFiniteSet({j \in P : j <= i})
             /\ Rank(P, i) \in 1 .. Cardinality(P)
  <2> DEFINE B == {j \in P : j <= i}
  <2>1. IsFiniteSet(B) /\ Cardinality(B) \in Nat /\ Cardinality(B) <= Cardinality(P)
    BY <1>1, FS_Subset, FS_CardinalityType
  <2>2. i \in B
    OBVIOUS
  <2>3. Cardinality(B) # 0
    BY <2>1, <2>2, FS_EmptySet
  <2> QED BY <1>1, <2>1, <2>3 DEF Rank
<1>3. ASSUME NEW i \in P, NEW j \in P, i < j
      PROVE  Rank(P, i) < Rank(P, j)
  <2> DEFINE B == {k \in P : k <= i}
             C == {k \in P : k <= j}
  <2>1. IsFiniteSet(C) /\ Cardinality(B) \in Nat /\ Cardinality(C) \in Nat
    BY <1>1, <1>2, FS_CardinalityType
  <2>2. B \subseteq C /\ j \in C /\ j \notin B
    <3>1. \A k \in P : k \in Int
      OBVIOUS
    <3>2. i \in Int /\ j \in Int
      BY <3>1
    <3>3. ASSUME NEW k \in P, k <= i PROVE k <= j
      BY <1>3, <3>1, <3>2, <3>3
    <3>4. j \in C /\ j \notin B
      BY <1>3, <3>2
    <3> QED BY <3>3, <3>4
  <2>3. Cardinality(B) <= Cardinality(C) /\ Cardinality(B) # Cardinality(C)
    <3>1. B # C /\ B \in SUBSET C
      BY <2>2
    <3>2. ASSUME NEW D, IsFiniteSet(D), NEW E \in SUBSET D, E # D
          PROVE  Cardinality(E) <= Cardinality(D) /\ Cardinality(E) # Cardinality(D)
      BY <3>2, FS_Subset
    <3> HIDE DEF B, C
    <3> QED BY <2>1, <3>1, <3>2
  <2> QED BY <2>1, <2>3 DEF Rank
<1> QED BY <1>1, <1>2, <1>3

(* Every rank is some place's: as many ranks as places.                    *)
LEMMA PlaceFacts ==
  ASSUME NEW n \in Nat, NEW P \in SUBSET (1 .. n)
  PROVE  /\ Cardinality(P) \in Nat
         /\ \A k \in 1 .. Cardinality(P) : Place(P, k) \in P /\ Rank(P, Place(P, k)) = k
         /\ \A i \in P : Rank(P, i) \in 1 .. Cardinality(P) /\ Place(P, Rank(P, i)) = i
<1> DEFINE K == 1 .. Cardinality(P)
           f == [i \in P |-> Rank(P, i)]
<1>1. /\ IsFiniteSet(P) /\ Cardinality(P) \in Nat
      /\ \A i \in P : Rank(P, i) \in K
      /\ \A i, j \in P : i < j => Rank(P, i) < Rank(P, j)
  BY RankFacts
<1>2. \A i, j \in P : Rank(P, i) = Rank(P, j) => i = j
  <2>1. SUFFICES ASSUME NEW i \in P, NEW j \in P, i # j PROVE Rank(P, i) # Rank(P, j)
    OBVIOUS
  <2>2. i < j \/ j < i
    BY <2>1
  <2> QED BY <1>1, <2>2
<1>3. IsFiniteSet(K) /\ Cardinality(K) = Cardinality(P)
  BY <1>1, FS_Interval
<1>4. f \in Injection(P, K)
  BY <1>1, <1>2 DEF Injection, IsInjective
<1>5. f \in Surjection(P, K)
  BY <1>3, <1>4, FS_Injection
<1>6. ASSUME NEW k \in K PROVE Place(P, k) \in P /\ Rank(P, Place(P, k)) = k
  <2>1. \E i \in P : Rank(P, i) = k
    BY <1>5 DEF Surjection
  <2> QED BY <2>1 DEF Place
<1>7. \A i \in P : Place(P, Rank(P, i)) = i
  BY <1>1, <1>2, <1>6
<1> QED BY <1>1, <1>6, <1>7

(* The elements of Picked are those at the places, none more, none less.   *)
LEMMA PickedElements ==
  ASSUME NEW S, NEW seq \in Seq(S), NEW P \in SUBSET DOMAIN seq
  PROVE  /\ Picked(seq, P) \in Seq(S)
         /\ {Picked(seq, P)[k] : k \in DOMAIN Picked(seq, P)} = {seq[i] : i \in P}
         /\ Picked(seq, P) = <<>> <=> P = {}
<1> DEFINE q == Picked(seq, P)
           c == Cardinality(P)
<1>1. DOMAIN seq = 1 .. Len(seq) /\ Len(seq) \in Nat
  OBVIOUS
<1>2. /\ c \in Nat
      /\ \A k \in 1 .. c : Place(P, k) \in P
      /\ \A i \in P : Rank(P, i) \in 1 .. c /\ Place(P, Rank(P, i)) = i
  BY <1>1, PlaceFacts
<1>3. q = [k \in 1 .. c |-> seq[Place(P, k)]]
  BY DEF Picked
<1> HIDE DEF q, c
<1>4. \A i \in P : seq[i] \in S
  BY <1>1
<1>5. q \in [1 .. c -> S]
  BY <1>2, <1>3, <1>4
<1>6. q \in Seq(S) /\ Len(q) = c /\ DOMAIN q = 1 .. c
  BY <1>2, <1>5
<1>7. {q[k] : k \in 1 .. c} = {seq[i] : i \in P}
  BY <1>2, <1>3
<1>8. q = <<>> <=> P = {}
  <2>1. q = <<>> <=> c = 0
    BY <1>2, <1>6
  <2>2. c = 0 <=> P = {}
    BY <1>1, RankFacts, FS_EmptySet DEF c
  <2> QED BY <2>1, <2>2
<1> QED BY <1>6, <1>7, <1>8 DEF q

(* And they stand in their old order: element k of Picked is element       *)
(* Place(P, k) of the sequence, and the places increase.                   *)
LEMMA PickedOrder ==
  ASSUME NEW S, NEW seq \in Seq(S), NEW P \in SUBSET DOMAIN seq
  PROVE  /\ Len(Picked(seq, P)) = Cardinality(P) /\ Cardinality(P) \in Nat
         /\ \A k \in 1 .. Len(Picked(seq, P)) :
              Place(P, k) \in P /\ Picked(seq, P)[k] = seq[Place(P, k)]
         /\ \A k, l \in 1 .. Len(Picked(seq, P)) : k < l => Place(P, k) < Place(P, l)
<1> DEFINE c == Cardinality(P)
<1>1. DOMAIN seq = 1 .. Len(seq) /\ Len(seq) \in Nat
  OBVIOUS
<1>2. /\ c \in Nat
      /\ \A k \in 1 .. c : Place(P, k) \in P /\ Rank(P, Place(P, k)) = k
      /\ \A i, j \in P : i < j => Rank(P, i) < Rank(P, j)
  BY <1>1, PlaceFacts, RankFacts
<1>3. Picked(seq, P) = [k \in 1 .. c |-> seq[Place(P, k)]]
  BY DEF Picked
<1>4. Len(Picked(seq, P)) = c
  BY <1>2, <1>3
<1>5. ASSUME NEW k \in 1 .. c, NEW l \in 1 .. c, k < l
      PROVE  Place(P, k) < Place(P, l)
  <2> DEFINE i == Place(P, k)
             j == Place(P, l)
  <2>1. i \in P /\ j \in P /\ Rank(P, i) = k /\ Rank(P, j) = l
    BY <1>2
  <2> HIDE DEF i, j
  <2>2. i \in Nat /\ j \in Nat
    BY <1>1, <2>1
  <2>3. ~(j < i) /\ i # j
    BY <1>2, <1>5, <2>1
  <2>4. i < j
    BY <2>2, <2>3
  <2> QED BY <2>4 DEF i, j
<1> QED BY <1>2, <1>3, <1>4, <1>5

(* Nothing that was kept is missing from Picked.                           *)
LEMMA PickedEach ==
  ASSUME NEW S, NEW seq \in Seq(S), NEW P \in SUBSET DOMAIN seq
  PROVE  \A i \in P : \E k \in 1 .. Len(Picked(seq, P)) : Picked(seq, P)[k] = seq[i]
<1>1. DOMAIN seq = 1 .. Len(seq) /\ Len(seq) \in Nat
  OBVIOUS
<1>2. \A i \in P : Rank(P, i) \in 1 .. Cardinality(P) /\ Place(P, Rank(P, i)) = i
  BY <1>1, PlaceFacts
<1>3. /\ Len(Picked(seq, P)) = Cardinality(P)
      /\ \A k \in 1 .. Len(Picked(seq, P)) : Picked(seq, P)[k] = seq[Place(P, k)]
  BY PickedOrder
<1> QED BY <1>2, <1>3

(* The elements from one place to another, if all of them are picked.      *)
LEMMA PickedInterval ==
  ASSUME NEW S, NEW seq \in Seq(S), NEW m \in Nat, NEW n \in Nat, m <= n, n <= Len(seq)
  PROVE  /\ Len(Picked(seq, (m + 1) .. n)) = n - m
         /\ \A k \in 1 .. n - m : Picked(seq, (m + 1) .. n)[k] = seq[m + k]
<1> DEFINE P == (m + 1) .. n
<1>1. P \in SUBSET DOMAIN seq /\ DOMAIN seq = 1 .. Len(seq) /\ Len(seq) \in Nat
  OBVIOUS
<1>2. ASSUME NEW i \in P PROVE Rank(P, i) = i - m
  <2>1. {j \in P : j <= i} = (m + 1) .. i
    OBVIOUS
  <2>2. Cardinality((m + 1) .. i) = i - (m + 1) + 1
    <3>1. m + 1 \in Int /\ i \in Int /\ m + 1 <= i
      OBVIOUS
    <3> QED BY <3>1, FS_Interval
  <2>3. i - (m + 1) + 1 = i - m
    OBVIOUS
  <2> HIDE DEF P
  <2> QED BY <2>1, <2>2, <2>3 DEF Rank
<1>3. Cardinality(P) = n - m
  <2>1. m + 1 \in Int /\ n \in Int
    OBVIOUS
  <2>2. Cardinality(P) = IF m + 1 > n THEN 0 ELSE n - (m + 1) + 1
    BY <2>1, FS_Interval
  <2> QED BY <2>2
<1>4. \A i \in P : Place(P, Rank(P, i)) = i
  <2> HIDE DEF P
  <2> QED BY <1>1, PlaceFacts
<1>5. \A k \in 1 .. n - m : Place(P, k) = m + k
  <2> TAKE k \in 1 .. n - m
  <2>1. m + k \in P /\ (m + k) - m = k
    OBVIOUS
  <2> HIDE DEF P
  <2> QED BY <1>2, <1>4, <2>1
<1>6. /\ Len(Picked(seq, P)) = Cardinality(P)
      /\ \A k \in 1 .. Len(Picked(seq, P)) : Picked(seq, P)[k] = seq[Place(P, k)]
  <2> HIDE DEF P
  <2> QED BY <1>1, PickedOrder
<1> QED BY <1>3, <1>5, <1>6
=============================================================================
