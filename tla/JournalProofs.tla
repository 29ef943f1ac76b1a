--------------------------- MODULE JournalProofs ----------------------------
(* Proofs about module Journal, for every family, key set and ceiling.     *)
EXTENDS Journal, TLAPS, WellFoundedInduction, FiniteSetTheorems

-----------------------------------------------------------------------------
(* Facts about the clock.                                                  *)

(* A bounded, inhabited set of naturals has a greatest element.            *)
LEMMA GreatestExists ==
  ASSUME NEW S \in SUBSET Nat, S # {}, NEW b \in Nat, \A n \in S : n <= b
  PROVE  \E m \in S : \A n \in S : n <= m
<1> DEFINE Bounds == {c \in Nat : \A n \in S : n <= c}
<1>1. Bounds # {} /\ Bounds \subseteq Nat
  OBVIOUS
<1>2. PICK c \in Bounds : \A e \in Bounds : <<e, c>> \notin OpToRel(<, Nat)
  BY <1>1, NatLessThanWellFounded, WFMin
<1>3. \A e \in Bounds : ~(e < c)
  BY <1>1, <1>2 DEF OpToRel
<1>4. CASE c \in S
  BY <1>4
<1>5. CASE c \notin S
  <2>1. \A n \in S : n < c
    BY <1>5
  <2>2. PICK n \in S : n \in Nat /\ n < c
    BY <2>1
  <2>3. c - 1 \in Nat /\ \A m \in S : m <= c - 1
    BY <2>1, <2>2
  <2> QED
    BY <1>3, <2>3
<1> QED
  BY <1>4, <1>5

LEMMA HorizonBounded ==
  ASSUME NEW l \in 0 .. MaxHonest
  PROVE  Horizon(l) \in Nat /\ Horizon(l) <= MaxHonest /\ l <= Horizon(l)
BY CeilingAssumption DEF Horizon, MaxHonest

(* The clock after a fold is a stamp that was folded or the one it had, it *)
(* stays below the honest ceiling and never goes back.                     *)
LEMMA AdoptedClockFact ==
  ASSUME NEW l \in 0 .. MaxHonest, NEW S \in SUBSET Operation
  PROVE  /\ AdoptedClock(l, S) \in 0 .. MaxHonest
         /\ l <= AdoptedClock(l, S)
         /\ \A o \in S : o.lamport <= Horizon(l) => o.lamport <= AdoptedClock(l, S)
<1> DEFINE within == {o.lamport : o \in {p \in S : p.lamport <= Horizon(l)}}
           stamps == within \cup {l}
<1>1. stamps \in SUBSET Nat /\ stamps # {}
  BY CeilingAssumption DEF Operation, MaxHonest
<1>2. Horizon(l) \in Nat /\ \A n \in stamps : n <= Horizon(l)
  BY HorizonBounded
<1>3. \E m \in stamps : \A n \in stamps : n <= m
  <2> HIDE DEF stamps
  <2> QED BY <1>1, <1>2, GreatestExists
<1>4. AdoptedClock(l, S) = CHOOSE m \in stamps : \A n \in stamps : n <= m
  BY DEF AdoptedClock
<1>5. AdoptedClock(l, S) \in stamps /\ \A n \in stamps : n <= AdoptedClock(l, S)
  <2> HIDE DEF stamps
  <2> QED BY <1>3, <1>4
<1>6. l \in stamps /\ \A o \in S : o.lamport <= Horizon(l) => o.lamport \in stamps
  OBVIOUS
<1>7. AdoptedClock(l, S) \in Nat /\ AdoptedClock(l, S) <= Horizon(l)
  <2> HIDE DEF stamps
  <2> QED BY <1>1, <1>2, <1>5
<1>8. AdoptedClock(l, S) <= MaxHonest /\ MaxHonest \in Nat
  BY <1>2, <1>7, HorizonBounded, CeilingAssumption DEF MaxHonest
<1>9. AdoptedClock(l, S) \in 0 .. MaxHonest
  BY <1>7, <1>8
<1>10. l <= AdoptedClock(l, S)
  <2> HIDE DEF stamps
  <2> QED BY <1>5, <1>6
<1>11. \A o \in S : o.lamport <= Horizon(l) => o.lamport <= AdoptedClock(l, S)
  <2> HIDE DEF stamps
  <2> QED BY <1>5, <1>6
<1> QED
  BY <1>9, <1>10, <1>11

LEMMA TickFact ==
  ASSUME NEW l \in 0 .. MaxHonest
  PROVE  /\ TickClock(l) \in 1 .. MaxLamport
         /\ TickClock(l) \in 0 .. MaxHonest
         /\ TickClock(l) <= Horizon(l)
         /\ TickClock(l) >= l
         /\ TickClock(l) = l => l = MaxHonest
BY CeilingAssumption DEF TickClock, Horizon, MaxHonest

-----------------------------------------------------------------------------
(* The order of operations.  Contents are told apart by their identity.    *)

LEMMA RankType ==
  ASSUME NEW o \in Operation
  PROVE  RankedLamport(o.lamport) \in Nat /\ Digest[o.uid] \in Nat
BY CeilingAssumption, DigestAssumption DEF RankedLamport, Operation

LEMMA PrecedesStrict ==
  ASSUME NEW o \in Operation, NEW p \in Operation, NEW q \in Operation
  PROVE  /\ ~ Precedes(o, o)
         /\ Precedes(o, p) => ~ Precedes(p, o)
         /\ Precedes(o, p) /\ Precedes(p, q) => Precedes(o, q)
         /\ o.uid # p.uid => Precedes(o, p) \/ Precedes(p, o)
<1>1. o.uid \in Uid /\ p.uid \in Uid
  BY DEF Operation
<1>2. o.uid # p.uid => Digest[o.uid] # Digest[p.uid]
  BY <1>1, DigestAssumption
<1> QED
  BY <1>2, RankType DEF Precedes

(* The rule of the entries is a strict total order as well.                *)
LEMMA OutranksStrict ==
  ASSUME NEW o \in Operation, NEW p \in Operation, NEW q \in Operation
  PROVE  /\ Outranks(o, p) => ~ Outranks(p, o)
         /\ Outranks(o, p) /\ Outranks(p, q) => Outranks(o, q)
         /\ o.uid # p.uid => Outranks(o, p) \/ Outranks(p, o)
<1>1. o # NoOp /\ p # NoOp /\ q # NoOp
  BY NoOpAssumption
<1> QED
  BY <1>1, PrecedesStrict DEF Outranks

LEMMA OutranksActivationStrict ==
  ASSUME NEW o \in Operation, NEW p \in Operation, NEW q \in Operation
  PROVE  /\ OutranksActivation(o, p) => ~ OutranksActivation(p, o)
         /\ OutranksActivation(o, p) /\ OutranksActivation(p, q)
              => OutranksActivation(o, q)
         /\ o.uid # p.uid => OutranksActivation(o, p) \/ OutranksActivation(p, o)
<1>1. o # NoOp /\ p # NoOp /\ q # NoOp
  BY NoOpAssumption
<1> QED
  BY <1>1, PrecedesStrict DEF OutranksActivation

-----------------------------------------------------------------------------
(* Folding one more operation keeps the best of a register.                *)

Distinct(S) == \A o, p \in S : o.uid = p.uid => o = p

LEMMA FoldKeepsBest ==
  ASSUME NEW S \in SUBSET Operation, NEW o \in Operation, NEW cur \in Owner,
         Distinct(S \cup {o}), IsBest(cur, S, Outranks)
  PROVE  IsBest(IF Outranks(cur, o) THEN o ELSE cur, S \cup {o}, Outranks)
<1>1. CASE S = {}
  <2>1. cur = NoOp
    BY <1>1 DEF IsBest
  <2>2. Outranks(cur, o)
    BY <2>1 DEF Outranks
  <2> QED
    BY <1>1, <2>2 DEF IsBest
<1>2. CASE S # {}
  <2>1. cur \in S /\ cur \in Operation /\ \A p \in S : p = cur \/ Outranks(p, cur)
    BY <1>2 DEF IsBest
  <2>2. CASE Outranks(cur, o)
    <3>1. ASSUME NEW p \in S PROVE Outranks(p, o)
      BY <2>1, <2>2, OutranksStrict
    <3> QED
      BY <2>2, <3>1 DEF IsBest
  <2>3. CASE ~ Outranks(cur, o)
    <3>1. o = cur \/ Outranks(o, cur)
      BY <2>1, <2>3, OutranksStrict DEF Distinct
    <3> QED
      BY <2>1, <2>3, <3>1 DEF IsBest
  <2> QED
    BY <2>2, <2>3
<1> QED
  BY <1>1, <1>2

LEMMA FoldKeepsBestActivation ==
  ASSUME NEW S \in SUBSET Operation, NEW o \in Operation, NEW cur \in Owner,
         Distinct(S \cup {o}), IsBest(cur, S, OutranksActivation)
  PROVE  IsBest(IF OutranksActivation(cur, o) THEN o ELSE cur, S \cup {o},
                OutranksActivation)
<1>1. CASE S = {}
  <2>1. cur = NoOp
    BY <1>1 DEF IsBest
  <2>2. OutranksActivation(cur, o)
    BY <2>1 DEF OutranksActivation
  <2> QED
    BY <1>1, <2>2 DEF IsBest
<1>2. CASE S # {}
  <2>1. /\ cur \in S /\ cur \in Operation
        /\ \A p \in S : p = cur \/ OutranksActivation(p, cur)
    BY <1>2 DEF IsBest
  <2>2. CASE OutranksActivation(cur, o)
    <3>1. ASSUME NEW p \in S PROVE OutranksActivation(p, o)
      BY <2>1, <2>2, OutranksActivationStrict
    <3> QED
      BY <2>2, <3>1 DEF IsBest
  <2>3. CASE ~ OutranksActivation(cur, o)
    <3>1. o = cur \/ OutranksActivation(o, cur)
      BY <2>1, <2>3, OutranksActivationStrict DEF Distinct
    <3> QED
      BY <2>1, <2>3, <3>1 DEF IsBest
  <2> QED
    BY <2>2, <2>3
<1> QED
  BY <1>1, <1>2

(* What a set of operations leaves in the registers, in any order, is one. *)
LEMMA BestUnique ==
  ASSUME NEW S \in SUBSET Operation, NEW o, NEW p
  PROVE  /\ IsBest(o, S, Outranks) /\ IsBest(p, S, Outranks) => o = p
         /\ IsBest(o, S, OutranksActivation) /\ IsBest(p, S, OutranksActivation)
              => o = p
BY OutranksStrict, OutranksActivationStrict DEF IsBest

(* A snapshot whose registers hold the best of S.                          *)
Holds(j, S) ==
  /\ \A k \in Key : /\ IsBest(j.entries[k], Writes(S, k), Outranks)
                    /\ IsBest(j.activations[k], Activations(S, k), OutranksActivation)
  /\ j.applied = {OpIdOf[o.uid] : o \in S}

LEMMA FoldFact ==
  ASSUME NEW j \in Snapshot, NEW o \in Operation
  PROVE  /\ Fold(j, o) \in Snapshot
         /\ Fold(j, o).lamport = AdoptedClock(j.lamport, {o})
         /\ Fold(j, o).lamport >= j.lamport
<1>1. /\ AdoptedClock(j.lamport, {o}) \in 0 .. MaxHonest
      /\ AdoptedClock(j.lamport, {o}) >= j.lamport
  <2>1. j.lamport \in 0 .. MaxHonest /\ {o} \in SUBSET Operation
    BY DEF Snapshot
  <2>2. /\ AdoptedClock(j.lamport, {o}) \in 0 .. MaxHonest
        /\ j.lamport <= AdoptedClock(j.lamport, {o})
    BY <2>1, AdoptedClockFact
  <2> QED
    BY <2>1, <2>2, CeilingAssumption DEF MaxHonest
<1>2. OpIdOf[o.uid] \in OpIds /\ o.key \in Key /\ o \in Owner
  BY DEF OpIds, Operation, Owner
<1> QED
  BY <1>1, <1>2 DEF Fold, Snapshot

LEMMA FoldHolds ==
  ASSUME NEW j \in Snapshot, NEW o \in Operation, NEW S \in SUBSET Operation,
         Distinct(S \cup {o}), Holds(j, S)
  PROVE  Holds(Fold(j, o), S \cup {o})
<1>1. o.key \in Key /\ o.action \in Actions
  BY DEF Operation
<1>2. ASSUME NEW k \in Key
      PROVE  IsBest(Fold(j, o).entries[k], Writes(S \cup {o}, k), Outranks)
  <2>1. /\ IsBest(j.entries[k], Writes(S, k), Outranks)
        /\ j.entries[k] \in Owner
        /\ Writes(S, k) \in SUBSET Operation
    BY DEF Holds, Snapshot, Writes
  <2>2. CASE o.action # "activate" /\ o.key = k
    <3>1. Writes(S \cup {o}, k) = Writes(S, k) \cup {o}
      BY <2>2 DEF Writes
    <3>2. Distinct(Writes(S, k) \cup {o})
      BY DEF Distinct, Writes
    <3>3. Fold(j, o).entries[k] =
            IF Outranks(j.entries[k], o) THEN o ELSE j.entries[k]
      BY <2>2 DEF Fold, Snapshot
    <3> QED
      BY <2>1, <3>1, <3>2, <3>3, FoldKeepsBest
  <2>3. CASE ~ (o.action # "activate" /\ o.key = k)
    <3>1. Writes(S \cup {o}, k) = Writes(S, k)
      BY <2>3 DEF Writes
    <3>2. Fold(j, o).entries[k] = j.entries[k]
      BY <2>3 DEF Fold, Snapshot
    <3> QED
      BY <2>1, <3>1, <3>2
  <2> QED
    BY <2>2, <2>3
<1>3. ASSUME NEW k \in Key
      PROVE  IsBest(Fold(j, o).activations[k], Activations(S \cup {o}, k),
                    OutranksActivation)
  <2>1. /\ IsBest(j.activations[k], Activations(S, k), OutranksActivation)
        /\ j.activations[k] \in Owner
        /\ Activations(S, k) \in SUBSET Operation
    BY DEF Holds, Snapshot, Activations
  <2>2. CASE o.action = "activate" /\ o.key = k
    <3>1. Activations(S \cup {o}, k) = Activations(S, k) \cup {o}
      BY <2>2 DEF Activations
    <3>2. Distinct(Activations(S, k) \cup {o})
      BY DEF Distinct, Activations
    <3>3. Fold(j, o).activations[k] =
            IF OutranksActivation(j.activations[k], o) THEN o ELSE j.activations[k]
      BY <2>2 DEF Fold, Snapshot
    <3> QED
      BY <2>1, <3>1, <3>2, <3>3, FoldKeepsBestActivation
  <2>3. CASE ~ (o.action = "activate" /\ o.key = k)
    <3>1. Activations(S \cup {o}, k) = Activations(S, k)
      BY <2>3 DEF Activations
    <3>2. Fold(j, o).activations[k] = j.activations[k]
      BY <2>3 DEF Fold, Snapshot
    <3> QED
      BY <2>1, <3>1, <3>2
  <2> QED
    BY <2>2, <2>3
<1>4. Fold(j, o).applied = {OpIdOf[p.uid] : p \in S \cup {o}}
  BY DEF Fold, Holds
<1> QED
  BY <1>2, <1>3, <1>4 DEF Holds

(* A restart loses nothing: the registers and the identifiers come back as *)
(* they were stored, and the clock is not behind.                          *)
LEMMA RestoreFact ==
  ASSUME NEW j \in Snapshot, NEW S \in SUBSET Operation, Holds(j, S)
  PROVE  /\ Restore(j) \in Snapshot
         /\ Restore(j).entries = j.entries
         /\ Restore(j).activations = j.activations
         /\ Restore(j).applied = j.applied
         /\ Restore(j).lamport >= j.lamport
<1> DEFINE operations == Held(j.entries) \cup Held(j.activations)
<1>1. operations \in SUBSET Operation
  BY DEF Held, Snapshot, Owner
<1>2. /\ Restore(j).entries = j.entries
      /\ Restore(j).activations = j.activations
  BY DEF Restore, Snapshot, Outranks, OutranksActivation
<1>3. operations \subseteq S
  <2>1. \A k \in Key : j.entries[k] # NoOp => j.entries[k] \in S
    BY DEF Holds, IsBest, Writes
  <2>2. \A k \in Key : j.activations[k] # NoOp => j.activations[k] \in S
    BY DEF Holds, IsBest, Activations
  <2> QED
    BY <2>1, <2>2 DEF Held
<1>4. Restore(j).applied = j.applied
  <2>1. {OpIdOf[o.uid] : o \in operations} \subseteq j.applied
    BY <1>3 DEF Holds
  <2> QED
    BY <2>1 DEF Restore
<1>5. Restore(j).lamport \in 0 .. MaxHonest /\ Restore(j).lamport >= j.lamport
  <2>1. j.lamport \in 0 .. MaxHonest /\ MaxHonest \in Nat
    BY CeilingAssumption DEF Snapshot, MaxHonest
  <2>2. Restore(j).lamport = AdoptedClock(j.lamport, operations)
    <3>1. (IF j.lamport < MaxHonest THEN j.lamport ELSE MaxHonest) = j.lamport
      BY <2>1
    <3> QED
      BY <3>1 DEF Restore
  <2>3. /\ AdoptedClock(j.lamport, operations) \in 0 .. MaxHonest
        /\ j.lamport <= AdoptedClock(j.lamport, operations)
    <3> HIDE DEF operations
    <3> QED BY <1>1, <2>1, AdoptedClockFact
  <2> QED
    BY <2>1, <2>2, <2>3
<1>6. Restore(j) \in Snapshot
  <2>1. Restore(j) = [entries |-> Restore(j).entries,
                      activations |-> Restore(j).activations,
                      applied |-> Restore(j).applied,
                      lamport |-> Restore(j).lamport]
    BY DEF Restore
  <2> QED
    BY <1>2, <1>4, <1>5, <2>1 DEF Snapshot
<1> QED
  BY <1>2, <1>4, <1>5, <1>6

-----------------------------------------------------------------------------
(* The inductive invariant.                                                *)

(* One content, one operation.                                             *)
UidsUnique == Distinct(written)

AllHold == \A d \in Device : Holds(journal[d], seen[d])

JournalInv ==
  TypeOK /\ UidsUnique /\ AllHold /\ ClockCoversOwnWrites /\ StampsNotReused

LEMMA InitInv == Init => JournalInv
<1> SUFFICES ASSUME Init PROVE JournalInv
  OBVIOUS
<1>1. MaxHonest \in Nat
  BY CeilingAssumption DEF MaxHonest
<1>2. EmptyJournal \in Snapshot
  BY <1>1 DEF EmptyJournal, Snapshot, Owner
<1>3. Holds(EmptyJournal, {})
  BY DEF Holds, EmptyJournal, IsBest, Writes, Activations
<1> QED
  BY <1>2, <1>3 DEF Init, JournalInv, TypeOK, UidsUnique, Distinct, AllHold,
     ClockCoversOwnWrites, StampsNotReused

(* The part every absorbed operation shares.                               *)
LEMMA AbsorbInv ==
  ASSUME JournalInv, NEW d \in Device, NEW o \in Operation, Absorb(d, o),
         Distinct(written \cup {o})
  PROVE  /\ journal' \in [Device -> Snapshot]
         /\ seen' \in [Device -> SUBSET (written \cup {o})]
         /\ AllHold'
         /\ \A e \in Device : journal'[e].lamport >= journal[e].lamport
         /\ \A e \in Device : seen[e] \subseteq seen'[e]
         /\ o \in seen'[d]
         /\ journal'[d].lamport = AdoptedClock(journal[d].lamport, {o})
<1>1. journal[d] \in Snapshot /\ seen[d] \in SUBSET written
  BY DEF JournalInv, TypeOK
<1>2. seen[d] \in SUBSET Operation /\ Distinct(seen[d] \cup {o})
  BY <1>1 DEF JournalInv, TypeOK, Distinct
<1>3. /\ Fold(journal[d], o) \in Snapshot
      /\ Fold(journal[d], o).lamport = AdoptedClock(journal[d].lamport, {o})
      /\ Fold(journal[d], o).lamport >= journal[d].lamport
  BY <1>1, FoldFact
<1>4. Holds(Fold(journal[d], o), seen[d] \cup {o})
  BY <1>1, <1>2, FoldHolds DEF JournalInv, AllHold
<1>5. /\ journal' = [journal EXCEPT ![d] = Fold(journal[d], o)]
      /\ seen' = [seen EXCEPT ![d] = seen[d] \cup {o}]
  BY DEF Absorb
<1>6. /\ journal'[d] = Fold(journal[d], o) /\ seen'[d] = seen[d] \cup {o}
      /\ \A e \in Device \ {d} : journal'[e] = journal[e] /\ seen'[e] = seen[e]
  BY <1>5 DEF JournalInv, TypeOK
<1>7. \A e \in Device : journal[e].lamport >= journal[e].lamport
  BY CeilingAssumption DEF JournalInv, TypeOK, Snapshot, MaxHonest
<1>8. journal' \in [Device -> Snapshot]
  BY <1>3, <1>5 DEF JournalInv, TypeOK
<1>9. seen' \in [Device -> SUBSET (written \cup {o})]
  BY <1>5 DEF JournalInv, TypeOK
<1>10. AllHold'
  BY <1>4, <1>6 DEF JournalInv, AllHold
<1> QED
  BY <1>3, <1>6, <1>7, <1>8, <1>9, <1>10

LEMMA NextInv == JournalInv /\ [Next]_vars => JournalInv'
<1> SUFFICES ASSUME JournalInv, [Next]_vars PROVE JournalInv'
  OBVIOUS
<1> USE DEF JournalInv
<1>1. \A d \in Device : journal[d].lamport \in 0 .. MaxHonest /\ MaxHonest \in Nat
  BY CeilingAssumption DEF TypeOK, Snapshot, MaxHonest
<1>2. ASSUME NEW d \in Device, NEW u \in Uid, NEW a \in Actions, NEW k \in Key,
             Write(d, u, a, k)
      PROVE  JournalInv'
  <2> DEFINE o == [uid |-> u, author |-> d, action |-> a, key |-> k,
                   lamport |-> TickClock(journal[d].lamport)]
  <2>1. OpIdOf[u] \notin UsedOpIds /\ written' = written \cup {o} /\ Absorb(d, o)
    BY <1>2 DEF Write
  <2>2. o \in Operation
    BY <1>1, TickFact, DeviceAssumption DEF Operation
  <2>3. Distinct(written \cup {o})
    BY <2>1 DEF Distinct, UidsUnique, UsedOpIds
  <2>4. /\ journal' \in [Device -> Snapshot]
        /\ seen' \in [Device -> SUBSET (written \cup {o})]
        /\ AllHold'
        /\ \A e \in Device : journal'[e].lamport >= journal[e].lamport
        /\ \A e \in Device : seen[e] \subseteq seen'[e]
        /\ o \in seen'[d]
        /\ journal'[d].lamport = AdoptedClock(journal[d].lamport, {o})
    <3> HIDE DEF o, JournalInv
    <3> QED BY <2>1, <2>2, <2>3, AbsorbInv
  <2>5. TypeOK'
    BY <2>1, <2>2, <2>4 DEF TypeOK
  <2>6. \A e \in Device : journal'[e].lamport \in Int
    BY <2>5 DEF TypeOK, Snapshot
  <2>7. o.lamport <= journal'[d].lamport
    <3>1. o.lamport <= Horizon(journal[d].lamport)
      BY <1>1, TickFact
    <3>2. {o} \in SUBSET Operation
      BY <2>2
    <3> HIDE DEF o
    <3> QED BY <1>1, <2>4, <3>1, <3>2, AdoptedClockFact
  <2>8. ClockCoversOwnWrites'
    <3>1. \A p \in written : p.author \in Device =>
            p.lamport <= journal'[p.author].lamport
      BY <1>1, <2>4, <2>6 DEF ClockCoversOwnWrites, TypeOK, Operation
    <3> QED
      BY <2>1, <2>4, <2>7, <3>1 DEF ClockCoversOwnWrites
  <2>9. StampsNotReused'
    <3>1. \A p \in written : p.author = d /\ p.lamport = o.lamport =>
            o.lamport = MaxHonest
      BY <1>1, TickFact DEF ClockCoversOwnWrites, TypeOK, Operation
    <3> QED
      BY <2>1, <3>1 DEF StampsNotReused
  <2> QED
    BY <2>1, <2>3, <2>4, <2>5, <2>8, <2>9 DEF UidsUnique
<1>3. ASSUME NEW p \in Author \ Device, NEW u \in Uid, NEW a \in Actions,
             NEW k \in Key, NEW l \in ForeignStamps, ForeignWrite(p, u, a, k, l)
      PROVE  JournalInv'
  <2> DEFINE o == [uid |-> u, author |-> p, action |-> a, key |-> k, lamport |-> l]
  <2>1. /\ u \notin UsedUids /\ written' = written \cup {o}
        /\ journal' = journal /\ seen' = seen
    BY <1>3 DEF ForeignWrite
  <2>2. o \in Operation
    BY ForeignAssumption DEF Operation
  <2>3. UidsUnique'
    BY <2>1 DEF UidsUnique, Distinct, UsedUids
  <2>4. TypeOK'
    BY <2>1, <2>2 DEF TypeOK
  <2>5. AllHold'
    BY <2>1 DEF AllHold
  <2>6. ClockCoversOwnWrites'
    BY <2>1 DEF ClockCoversOwnWrites
  <2>7. StampsNotReused'
    BY <2>1 DEF StampsNotReused
  <2> QED
    BY <2>3, <2>4, <2>5, <2>6, <2>7
<1>4. ASSUME NEW d \in Device, NEW o \in written, Receive(d, o)
      PROVE  JournalInv'
  <2>1. written' = written /\ Absorb(d, o) /\ o \in Operation
    BY <1>4 DEF Receive, TypeOK
  <2>2. Distinct(written \cup {o})
    BY DEF UidsUnique, Distinct
  <2>3. /\ journal' \in [Device -> Snapshot]
        /\ seen' \in [Device -> SUBSET (written \cup {o})]
        /\ AllHold'
        /\ \A e \in Device : journal'[e].lamport >= journal[e].lamport
        /\ \A e \in Device : seen[e] \subseteq seen'[e]
    <3> HIDE DEF JournalInv
    <3> QED BY <2>1, <2>2, AbsorbInv
  <2>4. TypeOK'
    BY <2>1, <2>3 DEF TypeOK
  <2>5. \A e \in Device : journal'[e].lamport \in Int
    BY <2>4 DEF TypeOK, Snapshot
  <2>6. ClockCoversOwnWrites'
    BY <1>1, <2>1, <2>3, <2>5 DEF ClockCoversOwnWrites, TypeOK, Operation
  <2> QED
    BY <2>1, <2>3, <2>4, <2>6 DEF UidsUnique, Distinct, StampsNotReused
<1>5. ASSUME NEW d \in Device, Restart(d)
      PROVE  JournalInv'
  <2>1. /\ written' = written /\ seen' = seen
        /\ journal' = [journal EXCEPT ![d] = Restore(journal[d])]
    BY <1>5 DEF Restart
  <2>2. journal[d] \in Snapshot /\ seen[d] \in SUBSET Operation
    BY DEF TypeOK
  <2>3. /\ Restore(journal[d]) \in Snapshot
        /\ Restore(journal[d]).entries = journal[d].entries
        /\ Restore(journal[d]).activations = journal[d].activations
        /\ Restore(journal[d]).applied = journal[d].applied
        /\ Restore(journal[d]).lamport >= journal[d].lamport
    BY <2>2, RestoreFact DEF AllHold
  <2>4. TypeOK'
    BY <2>1, <2>3 DEF TypeOK
  <2>5. /\ journal'[d] = Restore(journal[d])
        /\ \A e \in Device \ {d} : journal'[e] = journal[e]
    BY <2>1 DEF TypeOK
  <2>6. AllHold'
    BY <2>1, <2>3, <2>5 DEF AllHold, Holds
  <2>7. \A e \in Device : /\ journal'[e].lamport \in Int
                          /\ journal'[e].lamport >= journal[e].lamport
    BY <1>1, <2>3, <2>4, <2>5 DEF TypeOK, Snapshot
  <2>8. ClockCoversOwnWrites'
    BY <1>1, <2>1, <2>7 DEF ClockCoversOwnWrites, TypeOK, Operation
  <2> QED
    BY <2>1, <2>4, <2>6, <2>8 DEF UidsUnique, Distinct, StampsNotReused
<1>6. CASE UNCHANGED vars
  BY <1>6 DEF vars, TypeOK, UidsUnique, Distinct, AllHold, ClockCoversOwnWrites,
     StampsNotReused
<1> QED
  BY <1>2, <1>3, <1>4, <1>5, <1>6 DEF Next

LEMMA SpecInv == Spec => []JournalInv
BY InitInv, NextInv, PTL DEF Spec

-----------------------------------------------------------------------------
(* The theorems.                                                           *)

(* Every variable keeps its type: no fold, foreign stamp or restart moves  *)
(* a clock onto the honest ceiling or records what nobody wrote.           *)
THEOREM JournalTypeOK == Spec => []TypeOK
<1>1. JournalInv => TypeOK
  BY DEF JournalInv
<1> QED
  BY <1>1, SpecInv, PTL

LEMMA InvRegistersHoldBest == JournalInv => RegistersHoldBest
BY DEF JournalInv, AllHold, Holds, RegistersHoldBest

(* However operations are delayed, reordered and repeated and whenever     *)
(* devices restart, each register holds the best operation folded into it. *)
THEOREM RegistersAreBest == Spec => []RegistersHoldBest
BY InvRegistersHoldBest, SpecInv, PTL

(* Devices that folded the same operations hold the same journal.          *)
THEOREM JournalConvergence == Spec => []Convergence
<1>1. JournalInv => Convergence
  <2> SUFFICES ASSUME JournalInv, NEW d \in Device, NEW e \in Device,
                      seen[d] = seen[e]
               PROVE  /\ journal[d].entries = journal[e].entries
                      /\ journal[d].activations = journal[e].activations
                      /\ journal[d].applied = journal[e].applied
    BY DEF Convergence
  <2>1. RegistersHoldBest /\ TypeOK
    BY InvRegistersHoldBest DEF JournalInv
  <2>2. /\ journal[d] \in Snapshot /\ journal[e] \in Snapshot
        /\ seen[d] \in SUBSET Operation
    BY <2>1 DEF TypeOK
  <2>3. ASSUME NEW k \in Key
        PROVE  /\ journal[d].entries[k] = journal[e].entries[k]
               /\ journal[d].activations[k] = journal[e].activations[k]
    <3>1. /\ IsBest(journal[d].entries[k], Writes(seen[d], k), Outranks)
          /\ IsBest(journal[e].entries[k], Writes(seen[d], k), Outranks)
          /\ IsBest(journal[d].activations[k], Activations(seen[d], k),
                    OutranksActivation)
          /\ IsBest(journal[e].activations[k], Activations(seen[d], k),
                    OutranksActivation)
      BY <2>1 DEF RegistersHoldBest
    <3>2. /\ Writes(seen[d], k) \in SUBSET Operation
          /\ Activations(seen[d], k) \in SUBSET Operation
      BY <2>2 DEF Writes, Activations
    <3> QED
      BY <3>1, <3>2, BestUnique
  <2>4. journal[d].applied = journal[e].applied
    BY <2>1 DEF RegistersHoldBest
  <2> QED
    BY <2>2, <2>3, <2>4 DEF Snapshot
<1> QED
  BY <1>1, SpecInv, PTL

(* A stamp beyond what any clock can read never displaces an honest write. *)
THEOREM ImplausibleStampsTakeNothing == Spec => []ImplausibleTakesNothing
<1>1. JournalInv => ImplausibleTakesNothing
  <2> SUFFICES ASSUME JournalInv, NEW d \in Device, NEW k \in Key
               PROVE  LET entry == journal[d].entries[k]
                          pointer == journal[d].activations[k]
                      IN /\ entry # NoOp /\ entry.lamport >= HonestCeiling =>
                              \A o \in Writes(seen[d], k) :
                                o.lamport < HonestCeiling =>
                                  entry.action = "delete" /\ o.action # "delete"
                         /\ pointer # NoOp /\ pointer.lamport >= HonestCeiling =>
                              \A o \in Activations(seen[d], k) :
                                o.lamport >= HonestCeiling
    BY DEF ImplausibleTakesNothing
  <2> DEFINE entry == journal[d].entries[k]
             pointer == journal[d].activations[k]
  <2>1. RegistersHoldBest /\ TypeOK
    BY InvRegistersHoldBest DEF JournalInv
  <2>2. /\ entry \in Owner /\ pointer \in Owner
        /\ Writes(seen[d], k) \in SUBSET Operation
        /\ Activations(seen[d], k) \in SUBSET Operation
    BY <2>1 DEF TypeOK, Snapshot, Writes, Activations
  <2>3. /\ IsBest(entry, Writes(seen[d], k), Outranks)
        /\ IsBest(pointer, Activations(seen[d], k), OutranksActivation)
    BY <2>1 DEF RegistersHoldBest
  <2>4. ASSUME entry # NoOp, entry.lamport >= HonestCeiling,
               NEW o \in Writes(seen[d], k), o.lamport < HonestCeiling
        PROVE  entry.action = "delete" /\ o.action # "delete"
    <3>1. entry \in Operation /\ o \in Operation /\ o # NoOp
      BY <2>2, <2>4, NoOpAssumption DEF Owner
    <3>2. o = entry \/ Outranks(o, entry)
      BY <2>3, <2>4 DEF IsBest
    <3>3. o.lamport \in Nat /\ entry.lamport \in Nat
      BY <3>1, CeilingAssumption DEF Operation
    <3>4. o # entry
      BY <2>4, <3>3, CeilingAssumption
    <3>5. ~ Precedes(o, entry)
      <4>1. RankedLamport(entry.lamport) = 0 /\ RankedLamport(o.lamport) = o.lamport
        BY <2>4, <3>3, CeilingAssumption DEF RankedLamport
      <4>2. o.lamport > 0
        BY <3>1, CeilingAssumption DEF Operation
      <4> QED
        BY <4>1, <4>2, <3>3 DEF Precedes
    <3> QED
      BY <3>1, <3>2, <3>4, <3>5 DEF Outranks
  <2>5. ASSUME pointer # NoOp, pointer.lamport >= HonestCeiling,
               NEW o \in Activations(seen[d], k)
        PROVE  o.lamport >= HonestCeiling
    <3>1. pointer \in Operation /\ o \in Operation /\ o # NoOp
      BY <2>2, <2>5, NoOpAssumption DEF Owner
    <3>2. o = pointer \/ Precedes(o, pointer)
      BY <2>3, <2>5, <3>1 DEF IsBest, OutranksActivation
    <3>3. o.lamport \in Nat /\ o.lamport > 0 /\ pointer.lamport \in Nat
      BY <3>1, CeilingAssumption DEF Operation
    <3> QED
      BY <2>5, <3>2, <3>3, CeilingAssumption DEF Precedes, RankedLamport
  <2> QED
    BY <2>4, <2>5
<1> QED
  BY <1>1, SpecInv, PTL

(* No device writes two operations under one stamp below saturation.       *)
THEOREM JournalStampsNotReused == Spec => []StampsNotReused
<1>1. JournalInv => StampsNotReused
  BY DEF JournalInv
<1> QED
  BY <1>1, SpecInv, PTL

-----------------------------------------------------------------------------
(* What one step may do to one device's registers and clock.               *)

TombstoneKept ==
  \A d \in Device, k \in Key :
    (journal[d].entries[k] # NoOp /\ journal[d].entries[k].action = "delete")
      => (/\ journal'[d].entries[k] # NoOp
          /\ journal'[d].entries[k].action = "delete")

ClockKept == \A d \in Device : journal'[d].lamport >= journal[d].lamport

LEMMA AbsorbKeeps ==
  ASSUME JournalInv, NEW d \in Device, NEW o \in Operation, Absorb(d, o)
  PROVE  TombstoneKept /\ ClockKept
<1>1. /\ journal \in [Device -> Snapshot] /\ journal[d] \in Snapshot
      /\ journal' = [journal EXCEPT ![d] = Fold(journal[d], o)]
  BY DEF JournalInv, TypeOK, Absorb
<1>2. \A e \in Device : journal[e].lamport \in Int
  BY <1>1 DEF Snapshot
<1>3. /\ journal'[d] = Fold(journal[d], o)
      /\ \A e \in Device \ {d} : journal'[e] = journal[e]
  BY <1>1
<1>4. ClockKept
  <2>1. Fold(journal[d], o).lamport >= journal[d].lamport
    BY <1>1, FoldFact
  <2>2. \A e \in Device : journal[e].lamport >= journal[e].lamport
    BY <1>2
  <2> QED
    BY <1>3, <2>1, <2>2 DEF ClockKept
<1>5. ASSUME NEW k \in Key, journal[d].entries[k] # NoOp,
             journal[d].entries[k].action = "delete"
      PROVE  /\ Fold(journal[d], o).entries[k] # NoOp
             /\ Fold(journal[d], o).entries[k].action = "delete"
  <2> DEFINE cur == journal[d].entries[k]
  <2>1. Fold(journal[d], o).entries[k] \in {cur, o}
    BY <1>1 DEF Fold, Snapshot
  <2>2. Fold(journal[d], o).entries[k] = o => o = cur \/ Outranks(cur, o)
    BY <1>1 DEF Fold, Snapshot
  <2>3. Outranks(cur, o) => o.action = "delete"
    BY <1>5 DEF Outranks
  <2>4. o # NoOp
    BY NoOpAssumption
  <2> QED
    BY <1>5, <2>1, <2>2, <2>3, <2>4
<1> QED
  BY <1>3, <1>4, <1>5 DEF TombstoneKept

LEMMA StepKeeps == JournalInv /\ [Next]_vars => TombstoneKept /\ ClockKept
<1> SUFFICES ASSUME JournalInv, [Next]_vars PROVE TombstoneKept /\ ClockKept
  OBVIOUS
<1>1. TypeOK /\ \A d \in Device : /\ journal[d] \in Snapshot
                                  /\ journal[d].lamport \in 0 .. MaxHonest
  BY DEF JournalInv, TypeOK, Snapshot
<1>2. ASSUME NEW d \in Device, NEW u \in Uid, NEW a \in Actions, NEW k \in Key,
             Write(d, u, a, k)
      PROVE  TombstoneKept /\ ClockKept
  <2> DEFINE o == [uid |-> u, author |-> d, action |-> a, key |-> k,
                   lamport |-> TickClock(journal[d].lamport)]
  <2>1. o \in Operation
    BY <1>1, TickFact, DeviceAssumption DEF Operation
  <2>2. Absorb(d, o)
    BY <1>2 DEF Write
  <2> HIDE DEF o
  <2> QED BY <2>1, <2>2, AbsorbKeeps
<1>3. ASSUME NEW d \in Device, NEW o \in written, Receive(d, o)
      PROVE  TombstoneKept /\ ClockKept
  <2>1. o \in Operation /\ Absorb(d, o)
    BY <1>1, <1>3 DEF Receive, TypeOK
  <2> QED BY <2>1, AbsorbKeeps
<1>4. ASSUME NEW d \in Device, Restart(d)
      PROVE  TombstoneKept /\ ClockKept
  <2>1. seen[d] \in SUBSET Operation /\ Holds(journal[d], seen[d])
    BY DEF JournalInv, TypeOK, AllHold
  <2>2. /\ Restore(journal[d]).entries = journal[d].entries
        /\ Restore(journal[d]).lamport >= journal[d].lamport
    BY <1>1, <2>1, RestoreFact
  <2>3. /\ journal'[d] = Restore(journal[d])
        /\ \A e \in Device \ {d} : journal'[e] = journal[e]
    BY <1>1, <1>4 DEF Restart, TypeOK
  <2> QED
    BY <1>1, <2>2, <2>3 DEF TombstoneKept, ClockKept
<1>5. ASSUME journal' = journal
      PROVE  TombstoneKept /\ ClockKept
  BY <1>1, <1>5 DEF TombstoneKept, ClockKept
<1> QED
  BY <1>2, <1>3, <1>4, <1>5 DEF Next, ForeignWrite, vars

(* A deleted entity never comes back, whatever arrives afterwards.         *)
THEOREM JournalTombstoneFinal == Spec => TombstoneFinal
<1>1. JournalInv /\ [Next]_vars => [TombstoneKept]_vars
  BY StepKeeps
<1>2. TombstoneFinal <=> [][TombstoneKept]_vars
  BY DEF TombstoneFinal, TombstoneKept
<1> QED
  BY <1>1, <1>2, SpecInv, PTL DEF Spec

(* No fold and no restart moves a clock back.                              *)
THEOREM JournalClockNeverGoesBack == Spec => ClockNeverGoesBack
<1>1. JournalInv /\ [Next]_vars => [ClockKept]_vars
  BY StepKeeps
<1>2. ClockNeverGoesBack <=> [][ClockKept]_vars
  BY DEF ClockNeverGoesBack, ClockKept
<1> QED
  BY <1>1, <1>2, SpecInv, PTL DEF Spec

-----------------------------------------------------------------------------
(* A family that has written fewer operations than the skew.               *)

(* A clock reads no more than it had or the highest stamp it was shown.    *)
LEMMA AdoptedBounded ==
  ASSUME NEW l \in 0 .. MaxHonest, NEW S \in SUBSET Operation, NEW b \in Nat,
         l <= b, \A o \in S : o.lamport <= b
  PROVE  AdoptedClock(l, S) <= b
<1> DEFINE stamps == {o.lamport : o \in {p \in S : p.lamport <= Horizon(l)}} \cup {l}
<1>1. stamps \in SUBSET Nat /\ stamps # {} /\ \A n \in stamps : n <= b
  BY CeilingAssumption DEF Operation, MaxHonest
<1>2. AdoptedClock(l, S) = CHOOSE m \in stamps : \A n \in stamps : n <= m
  BY DEF AdoptedClock
<1> HIDE DEF stamps
<1>3. \E m \in stamps : \A n \in stamps : n <= m
  BY <1>1, GreatestExists
<1> QED
  BY <1>1, <1>2, <1>3

(* Among honest devices every stamp and every clock is at most the number  *)
(* of operations ever written: each edit adds one of each.                 *)
StampsCounted ==
  /\ IsFiniteSet(written)
  /\ Honest => /\ \A o \in written : o.lamport <= Cardinality(written)
               /\ \A d \in Device : journal[d].lamport <= Cardinality(written)

LEMMA StampsCountedStep ==
  JournalInv /\ StampsCounted /\ [Next]_vars => StampsCounted'
<1> SUFFICES ASSUME JournalInv, StampsCounted, [Next]_vars PROVE StampsCounted'
  OBVIOUS
<1> DEFINE n == Cardinality(written)
<1>1. /\ TypeOK /\ IsFiniteSet(written) /\ n \in Nat
      /\ journal \in [Device -> Snapshot] /\ written \in SUBSET Operation
      /\ \A d \in Device : journal[d].lamport \in 0 .. MaxHonest
      /\ \A o \in written : o.lamport \in Nat
      /\ Honest => /\ \A o \in written : o.lamport <= n
                   /\ \A d \in Device : journal[d].lamport <= n
  BY FS_CardinalityType, CeilingAssumption
     DEF JournalInv, StampsCounted, TypeOK, Snapshot, Operation
<1>2. ASSUME NEW d \in Device, NEW u \in Uid, NEW a \in Actions, NEW k \in Key,
             Write(d, u, a, k)
      PROVE  StampsCounted'
  <2> DEFINE l == journal[d].lamport
             o == [uid |-> u, author |-> d, action |-> a, key |-> k,
                   lamport |-> TickClock(l)]
  <2>1. /\ OpIdOf[u] \notin UsedOpIds /\ written' = written \cup {o}
        /\ journal' = [journal EXCEPT ![d] = Fold(journal[d], o)]
    BY <1>2 DEF Write, Absorb
  <2>2. o \in Operation /\ o.lamport = TickClock(l) /\ o.uid = u
    BY <1>1, TickFact, DeviceAssumption DEF Operation
  <2>3. o \notin written
    BY <2>1, <2>2 DEF UsedOpIds
  <2> HIDE DEF o
  <2>4. IsFiniteSet(written') /\ Cardinality(written') = n + 1
    BY <1>1, <2>1, <2>3, FS_AddElement
  <2>5. ASSUME Honest'
        PROVE  /\ \A p \in written' : p.lamport <= n + 1
               /\ \A e \in Device : journal'[e].lamport <= n + 1
    <3>1. Honest
      BY <2>1, <2>5 DEF Honest
    <3>2. TickClock(l) <= n + 1 /\ l <= n + 1 /\ l \in 0 .. MaxHonest
      BY <1>1, <3>1, CeilingAssumption DEF TickClock, MaxHonest
    <3>3. AdoptedClock(l, {o}) <= n + 1
      <4>1. {o} \in SUBSET Operation /\ n + 1 \in Nat /\ \A p \in {o} : p.lamport <= n + 1
        BY <1>1, <2>2, <3>2
      <4> QED BY <3>2, <4>1, AdoptedBounded
    <3>4. journal'[d].lamport <= n + 1
      BY <1>1, <2>1, <2>2, <3>3, FoldFact
    <3>5. \A e \in Device \ {d} : journal'[e].lamport <= n + 1
      BY <1>1, <2>1, <3>1
    <3>6. \A p \in written : p.lamport <= n + 1
      BY <1>1, <3>1
    <3> QED BY <2>1, <2>2, <3>2, <3>4, <3>5, <3>6
  <2> QED BY <2>4, <2>5 DEF StampsCounted
<1>3. ASSUME NEW p \in Author \ Device, NEW u \in Uid, NEW a \in Actions,
             NEW k \in Key, NEW l \in ForeignStamps, ForeignWrite(p, u, a, k, l)
      PROVE  StampsCounted'
  <2> DEFINE o == [uid |-> u, author |-> p, action |-> a, key |-> k, lamport |-> l]
  <2>1. written' = written \cup {o} /\ o.author \notin Device
    BY <1>3 DEF ForeignWrite
  <2> HIDE DEF o
  <2>2. IsFiniteSet(written')
    BY <1>1, <2>1, FS_AddElement
  <2>3. ~Honest'
    BY <2>1 DEF Honest
  <2> QED BY <2>2, <2>3 DEF StampsCounted
<1>4. ASSUME NEW d \in Device, NEW o \in written, Receive(d, o)
      PROVE  StampsCounted'
  <2>1. /\ written' = written /\ o \in Operation
        /\ journal' = [journal EXCEPT ![d] = Fold(journal[d], o)]
    BY <1>1, <1>4 DEF Receive, Absorb
  <2>2. ASSUME Honest PROVE \A e \in Device : journal'[e].lamport <= n
    <3>1. AdoptedClock(journal[d].lamport, {o}) <= n
      <4>1. {o} \in SUBSET Operation /\ (\A p \in {o} : p.lamport <= n)
            /\ journal[d].lamport \in 0 .. MaxHonest /\ journal[d].lamport <= n
        BY <1>1, <2>1, <2>2
      <4> HIDE DEF n
      <4> QED BY <1>1, <4>1, AdoptedBounded
    <3>2. journal'[d].lamport <= n
      BY <1>1, <2>1, <3>1, FoldFact
    <3> QED BY <1>1, <2>1, <2>2, <3>2
  <2> QED BY <1>1, <2>1, <2>2 DEF StampsCounted, Honest
<1>5. ASSUME NEW d \in Device, Restart(d)
      PROVE  StampsCounted'
  <2> DEFINE j == journal[d]
             operations == Held(j.entries) \cup Held(j.activations)
  <2>1. written' = written /\ journal' = [journal EXCEPT ![d] = Restore(j)]
    BY <1>5 DEF Restart
  <2>2. /\ j \in Snapshot /\ j.lamport \in 0 .. MaxHonest /\ MaxHonest \in Nat
        /\ Holds(j, seen[d]) /\ seen[d] \subseteq written
    BY <1>1, CeilingAssumption DEF JournalInv, AllHold, TypeOK, MaxHonest
  <2> HIDE DEF j
  <2>3. operations \in SUBSET written
    <3>1. \A k \in Key : j.entries[k] # NoOp => j.entries[k] \in seen[d]
      BY <2>2 DEF Holds, IsBest, Writes
    <3>2. \A k \in Key : j.activations[k] # NoOp => j.activations[k] \in seen[d]
      BY <2>2 DEF Holds, IsBest, Activations
    <3> QED BY <2>2, <3>1, <3>2 DEF Held
  <2>4. Restore(j).lamport = AdoptedClock(j.lamport, operations)
    <3>1. (IF j.lamport < MaxHonest THEN j.lamport ELSE MaxHonest) = j.lamport
      BY <2>2
    <3> QED BY <3>1 DEF Restore
  <2> HIDE DEF operations
  <2>5. ASSUME Honest PROVE \A e \in Device : journal'[e].lamport <= n
    <3>1. operations \in SUBSET Operation /\ \A p \in operations : p.lamport <= n
      BY <1>1, <2>3, <2>5
    <3>2. j.lamport <= n
      BY <1>1, <2>5 DEF j
    <3>3. Restore(j).lamport <= n
      <4> HIDE DEF n
      <4> QED BY <1>1, <2>2, <2>4, <3>1, <3>2, AdoptedBounded
    <3> QED BY <1>1, <2>1, <2>5, <3>3
  <2> QED BY <1>1, <2>1, <2>5 DEF StampsCounted, Honest
<1>6. CASE UNCHANGED vars
  BY <1>6 DEF vars, StampsCounted, Honest
<1> QED
  BY <1>2, <1>3, <1>4, <1>5, <1>6 DEF Next

LEMMA SpecStampsCounted == Spec => []StampsCounted
<1>1. Init => StampsCounted
  <2>1. Cardinality({}) = 0 /\ IsFiniteSet({})
    BY FS_EmptySet
  <2> QED BY <2>1 DEF Init, StampsCounted, EmptyJournal
<1> QED
  BY <1>1, SpecInv, StampsCountedStep, PTL DEF Spec

(* No more operations than one fold may move a clock, and none at the      *)
(* ceiling: a million of them, in the code.                                *)
FewWritten == Cardinality(written) <= Skew /\ Cardinality(written) <= MaxHonest

LEMMA DominationStep ==
  JournalInv /\ StampsCounted /\ FewWritten /\ ClockDominatesSeen /\ [Next]_vars
    => ClockDominatesSeen'
<1> SUFFICES ASSUME JournalInv, StampsCounted, FewWritten, ClockDominatesSeen,
                    [Next]_vars, Honest'
             PROVE  \A d \in Device : \A o \in seen'[d] : o.lamport <= journal'[d].lamport
  BY DEF ClockDominatesSeen
<1>1. JournalInv' /\ ClockKept
  BY NextInv, StepKeeps
<1>2. written \subseteq written'
  BY DEF Next, Write, ForeignWrite, Receive, Restart, vars
<1>3. Honest
  BY <1>2 DEF Honest
<1>4. /\ written \in SUBSET Operation /\ seen \in [Device -> SUBSET written]
      /\ written' \in SUBSET Operation /\ seen' \in [Device -> SUBSET written']
      /\ \A d \in Device : /\ journal[d].lamport \in 0 .. MaxHonest
                           /\ journal'[d].lamport \in 0 .. MaxHonest
                           /\ journal[d].lamport <= journal'[d].lamport
      /\ MaxHonest \in Nat
  BY <1>1, CeilingAssumption DEF JournalInv, TypeOK, Snapshot, ClockKept, MaxHonest
<1>5. ASSUME NEW d \in Device, NEW o \in seen[d] PROVE o.lamport <= journal'[d].lamport
  <2>1. o.lamport <= journal[d].lamport /\ o \in Operation
    BY <1>3, <1>4 DEF ClockDominatesSeen
  <2>2. o.lamport \in Nat
    BY <2>1, CeilingAssumption DEF Operation
  <2> QED BY <1>4, <2>1, <2>2
<1>6. ASSUME NEW d \in Device, NEW u \in Uid, NEW a \in Actions, NEW k \in Key,
             Write(d, u, a, k), NEW e \in Device, NEW o \in seen'[e]
      PROVE  o.lamport <= journal'[e].lamport
  <2>1. PICK w \in written' : w.author = d /\ seen' = [seen EXCEPT ![d] = @ \cup {w}]
    BY <1>6 DEF Write, Absorb
  <2>2. w.lamport <= journal'[d].lamport
    BY <1>1, <2>1 DEF JournalInv, ClockCoversOwnWrites
  <2>3. o \in seen[e] \/ (e = d /\ o = w)
    BY <1>4, <2>1
  <2> QED BY <1>5, <2>2, <2>3
<1>7. ASSUME NEW d \in Device, NEW w \in written, Receive(d, w),
             NEW e \in Device, NEW o \in seen'[e]
      PROVE  o.lamport <= journal'[e].lamport
  <2>1. /\ seen' = [seen EXCEPT ![d] = @ \cup {w}] /\ w \in Operation
        /\ journal' = [journal EXCEPT ![d] = Fold(journal[d], w)]
    BY <1>4, <1>7 DEF Receive, Absorb
  <2>2. /\ journal[d] \in Snapshot /\ journal'[d].lamport = AdoptedClock(journal[d].lamport, {w})
    BY <2>1, FoldFact DEF JournalInv, TypeOK
  <2>3. w.lamport <= Horizon(journal[d].lamport)
    <3>1. w.author \in Device /\ w.lamport <= journal[w.author].lamport
      BY <1>3 DEF Honest, JournalInv, ClockCoversOwnWrites
    <3>2. w.lamport <= MaxHonest /\ w.lamport \in Nat
      BY <1>4, <2>1, <3>1, CeilingAssumption DEF Operation
    <3>3. w.lamport <= Skew
      <4>1. w.lamport <= Cardinality(written) /\ Cardinality(written) <= Skew
            /\ Cardinality(written) \in Nat
        BY <1>3, FS_CardinalityType DEF StampsCounted, FewWritten
      <4> QED BY <3>2, <4>1, CeilingAssumption
    <3> QED BY <1>4, <3>2, <3>3, CeilingAssumption DEF Horizon
  <2>4. w.lamport <= journal'[d].lamport
    <3>1. {w} \in SUBSET Operation /\ journal[d].lamport \in 0 .. MaxHonest
      BY <1>4, <2>1
    <3> QED BY <2>2, <2>3, <3>1, AdoptedClockFact
  <2>5. o \in seen[e] \/ (e = d /\ o = w)
    BY <1>4, <2>1
  <2> QED BY <1>5, <2>4, <2>5
<1>8. CASE seen' = seen
  BY <1>5, <1>8
<1> QED
  BY <1>6, <1>7, <1>8 DEF Next, ForeignWrite, Restart, vars

(* While nobody else writes and the family wrote no more than the skew, no *)
(* device's clock is behind a stamp it folded, across restarts too.        *)
THEOREM JournalClockDominates == Spec /\ []FewWritten => []ClockDominatesSeen
<1>1. Init => ClockDominatesSeen
  BY DEF Init, ClockDominatesSeen
<1> QED
  BY <1>1, SpecInv, SpecStampsCounted, DominationStep, PTL DEF Spec

EditsTakeEffect ==
  \A o \in written' \ written :
    (Honest /\ o.author \in Device /\ o.action # "activate") =>
      LET before == journal[o.author].entries[o.key]
      IN \/ journal'[o.author].entries[o.key] = o
         \/ before # NoOp /\ before.action = "delete"

LEMMA EditStep ==
  JournalInv /\ StampsCounted /\ FewWritten' /\ ClockDominatesSeen /\ [Next]_vars
    => EditsTakeEffect
<1> SUFFICES ASSUME JournalInv, StampsCounted, FewWritten', ClockDominatesSeen, [Next]_vars,
                    NEW o \in written' \ written,
                    Honest, o.author \in Device, o.action # "activate",
                    journal[o.author].entries[o.key] = NoOp
                      \/ journal[o.author].entries[o.key].action # "delete"
             PROVE  journal'[o.author].entries[o.key] = o
  BY DEF EditsTakeEffect
<1> DEFINE d == o.author
           j == journal[d]
           before == j.entries[o.key]
<1>1. PICK a \in Actions, u \in Uid, k \in Key :
        /\ o = [uid |-> u, author |-> d, action |-> a, key |-> k,
                lamport |-> TickClock(j.lamport)]
        /\ written' = written \cup {o} /\ Absorb(d, o) /\ OpIdOf[u] \notin UsedOpIds
  <2>1. ~(\E p \in Author \ Device, u \in Uid, a \in Actions, k \in Key,
            l \in ForeignStamps : ForeignWrite(p, u, a, k, l))
    BY DEF ForeignWrite
  <2>2. \E e \in Device, u \in Uid, a \in Actions, k \in Key : Write(e, u, a, k)
    BY <2>1 DEF Next, Receive, Restart, vars
  <2>3. PICK e \in Device, u \in Uid, a \in Actions, k \in Key : Write(e, u, a, k)
    BY <2>2
  <2>4. o = [uid |-> u, author |-> e, action |-> a, key |-> k,
             lamport |-> TickClock(journal[e].lamport)] /\ Absorb(e, o)
        /\ written' = written \cup {o} /\ OpIdOf[u] \notin UsedOpIds
    BY <2>3 DEF Write
  <2>5. e = d
    BY <2>4
  <2> QED BY <2>4, <2>5
<1>2. /\ j \in Snapshot /\ j.lamport \in 0 .. MaxHonest /\ journal \in [Device -> Snapshot]
      /\ seen[d] \subseteq written /\ written \in SUBSET Operation /\ Holds(j, seen[d])
  BY DEF JournalInv, TypeOK, Snapshot, AllHold
<1>3. o \in Operation /\ o.key \in Key /\ o.lamport = TickClock(j.lamport) /\ o # NoOp
  BY <1>1, <1>2, TickFact, DeviceAssumption, NoOpAssumption DEF Operation
<1>4. j.lamport < MaxHonest
  <2>1. /\ IsFiniteSet(written) /\ Cardinality(written) \in Nat
        /\ j.lamport <= Cardinality(written)
    BY FS_CardinalityType DEF StampsCounted
  <2>2. Cardinality(written') = Cardinality(written) + 1
    BY <1>1, <2>1, FS_AddElement
  <2>3. Cardinality(written') <= MaxHonest /\ MaxHonest \in Nat
    BY CeilingAssumption DEF FewWritten, MaxHonest
  <2> QED BY <1>2, <2>1, <2>2, <2>3
<1>5. o.lamport = j.lamport + 1 /\ o.lamport < HonestCeiling
  BY <1>2, <1>3, <1>4, CeilingAssumption DEF TickClock, MaxHonest
<1>6. Outranks(before, o)
  <2>1. CASE before = NoOp
    BY <2>1 DEF Outranks
  <2>2. CASE before # NoOp
    <3>1. before \in seen[d]
      BY <1>2, <1>3, <2>2 DEF Holds, IsBest, Writes
    <3>2. before \in Operation /\ before.lamport <= j.lamport
      BY <1>2, <3>1 DEF ClockDominatesSeen
    <3>3. Precedes(before, o)
      <4>1. before.lamport \in Nat /\ j.lamport \in Nat
        BY <1>2, <3>2, CeilingAssumption DEF Operation
      <4>2. before.lamport < o.lamport /\ before.lamport < HonestCeiling
        BY <1>5, <3>2, <4>1, CeilingAssumption
      <4> QED BY <1>5, <4>1, <4>2, CeilingAssumption DEF Precedes, RankedLamport
    <3> QED BY <2>2, <3>3 DEF Outranks
  <2> QED BY <2>1, <2>2
<1>7. journal' = [journal EXCEPT ![d] = Fold(j, o)]
  BY <1>1 DEF Absorb
<1>8. Fold(j, o).entries[o.key] = o
  BY <1>2, <1>3, <1>6 DEF Fold, Snapshot
<1> QED
  BY <1>2, <1>7, <1>8

(* Within the same bounds an edit is never lost to what the device holds:  *)
(* it owns its entity at once, unless the entity was deleted.              *)
THEOREM JournalEditTakesEffect == Spec /\ []FewWritten => LocalEditTakesEffect
<1>1. JournalInv /\ StampsCounted /\ FewWritten' /\ ClockDominatesSeen /\ [Next]_vars
        => [EditsTakeEffect]_vars
  BY EditStep
<1>2. LocalEditTakesEffect <=> [][EditsTakeEffect]_vars
  BY DEF LocalEditTakesEffect, EditsTakeEffect
<1> QED
  BY <1>1, <1>2, SpecInv, SpecStampsCounted, JournalClockDominates, PTL DEF Spec
=============================================================================
