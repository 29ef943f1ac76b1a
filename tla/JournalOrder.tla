---------------------------- MODULE JournalOrder ----------------------------
(***************************************************************************)
(* The order the journal merge of packages/sync-protocol is built on: the  *)
(* rank of a Lamport stamp, the total order of operations, and the rule    *)
(* that says which of two operations owns an entity.  Everything here is a *)
(* pure function of the operations, as it is in journal.ts and clock.ts.   *)
(***************************************************************************)
EXTENDS Integers

CONSTANTS
  Key,            \* identifiers of entities (kind and target together)
  Uid,            \* contents of operations: one value per distinct operation
  Author,         \* writing devices, honest or not
  Digest,         \* SHA-256 of the canonical operation text, per content
  HonestCeiling,  \* HONEST_LAMPORT_CEILING, 2^32 in the code
  MaxLamport,     \* MAX_LAMPORT, 2^40 in the code: what the codec accepts
  Skew,           \* MAX_LAMPORT_SKEW, 1 000 000 in the code
  NoOp            \* "no operation": the undefined of a map lookup

\* The code asserts that the ceilings nest.
ASSUME CeilingAssumption ==
  /\ HonestCeiling \in Nat /\ HonestCeiling > 1
  /\ MaxLamport \in Nat /\ MaxLamport >= HonestCeiling
  /\ Skew \in Nat /\ Skew > 0

\* Equal digests mean equal operations (SHA-256 taken as collision free).
ASSUME DigestAssumption ==
  /\ Digest \in [Uid -> Nat]
  /\ \A u, v \in Uid : Digest[u] = Digest[v] => u = v

Actions == {"write", "delete", "activate"}   \* create and update merge alike

Operation == [uid : Uid, author : Author, action : Actions,
              key : Key, lamport : 1 .. MaxLamport]

ASSUME NoOpAssumption == NoOp \notin Operation

MaxHonest == HonestCeiling - 1               \* MAX_HONEST_LAMPORT

-----------------------------------------------------------------------------
(* Plausible faults of this code, used as mutated forms of what follows.   *)

RankedLamport_Clamped(l) == IF l > HonestCeiling THEN HonestCeiling ELSE l

-----------------------------------------------------------------------------
(* A stamp on the honest ceiling or above it has no rank at all.           *)
RankedLamport(l) == IF l >= HonestCeiling THEN 0 ELSE l

Precedes_StampOnly(left, right) ==
  RankedLamport(left.lamport) < RankedLamport(right.lamport)

(* compareOperations(left, right) < 0: ranked stamp, then digest.          *)
Precedes(left, right) ==
  \/ RankedLamport(left.lamport) < RankedLamport(right.lamport)
  \/ /\ RankedLamport(left.lamport) = RankedLamport(right.lamport)
     /\ Digest[left.uid] < Digest[right.uid]

(* A delete that loses to any later write, and a tombstone that stays the  *)
(* first one seen.                                                         *)
Outranks_StampDecides(current, incoming) ==
  current = NoOp \/ Precedes(current, incoming)

Outranks_FirstDelete(current, incoming) ==
  \/ current = NoOp
  \/ current.action # "delete" /\ (incoming.action = "delete" \/ Precedes(current, incoming))

(* Which of two operations owns an entity: a tombstone outranks every      *)
(* write whatever the stamps, equals are settled by the total order.       *)
Outranks(current, incoming) ==
  \/ current = NoOp
  \/ /\ current.action # "delete" /\ incoming.action = "delete"
  \/ /\ (current.action = "delete") = (incoming.action = "delete")
     /\ Precedes(current, incoming)

(* The activation register keeps the best activation of every budget.      *)
OutranksActivation(current, incoming) ==
  current = NoOp \/ Precedes(current, incoming)

-----------------------------------------------------------------------------
(* The clock.                                                              *)

(* tickClock: one step forward, never onto the honest ceiling.             *)
TickClock(lamport) == IF lamport >= MaxHonest THEN MaxHonest ELSE lamport + 1

Horizon_ToCeiling(lamport) == lamport + Skew

(* How far one fold may move the clock, fixed before the first operation.  *)
Horizon(lamport) ==
  IF lamport + Skew < MaxHonest THEN lamport + Skew ELSE MaxHonest

(* The clock after a fold of the operations S from the stamp lamport: the  *)
(* highest stamp within the horizon.                                       *)
AdoptedClock(lamport, S) ==
  LET within == {o.lamport : o \in {p \in S : p.lamport <= Horizon(lamport)}}
  IN CHOOSE m \in within \cup {lamport} : \A n \in within \cup {lamport} : n <= m
=============================================================================
