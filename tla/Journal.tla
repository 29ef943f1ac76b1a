------------------------------ MODULE Journal -------------------------------
(***************************************************************************)
(* The devices of one family, each merging the operations of all of them   *)
(* into its own journal (packages/sync-protocol/src/journal.ts, clock.ts). *)
(* The server and the network may delay, reorder and duplicate every       *)
(* delivery: whatever has been written may reach a device at any time and  *)
(* any number of times.  A device restarts from the snapshot it stored.    *)
(***************************************************************************)
EXTENDS JournalOrder, FiniteSets

CONSTANTS
  Device,         \* the family's devices; they stamp by the rules of clock.ts
  OpIdOf,         \* the identifier an operation carries: two contents may share one
  ForeignStamps   \* stamps written by anything else the codec accepts

ASSUME DeviceAssumption == Device \subseteq Author

ASSUME ForeignAssumption == ForeignStamps \subseteq 1 .. MaxLamport

VARIABLES
  written,        \* every operation any author ever wrote
  journal,        \* per device: the snapshot it holds and has stored
  seen            \* per device: the operations folded so far (history)

vars == <<written, journal, seen>>

OpIds == {OpIdOf[u] : u \in Uid}

Owner == Operation \cup {NoOp}

Snapshot == [entries : [Key -> Owner], activations : [Key -> Owner],
             applied : SUBSET OpIds, lamport : 0 .. MaxHonest]

EmptyJournal == [entries |-> [k \in Key |-> NoOp],
                 activations |-> [k \in Key |-> NoOp],
                 applied |-> {}, lamport |-> 0]

Init ==
  /\ written = {}
  /\ journal = [d \in Device |-> EmptyJournal]
  /\ seen = [d \in Device |-> {}]

-----------------------------------------------------------------------------
(* A fold that skips an identifier it has applied before.                  *)
Fold_SkipsApplied(j, o) ==
  IF OpIdOf[o.uid] \in j.applied THEN j
  ELSE [entries |-> [j.entries EXCEPT ![o.key] =
                       IF o.action # "activate" /\ Outranks(@, o) THEN o ELSE @],
        activations |-> [j.activations EXCEPT ![o.key] =
                       IF o.action = "activate" /\ OutranksActivation(@, o)
                       THEN o ELSE @],
        applied |-> j.applied \cup {OpIdOf[o.uid]},
        lamport |-> AdoptedClock(j.lamport, {o})]

(* A fold that leaves the clock to the next local edit.                    *)
Fold_KeepsClock(j, o) ==
  [entries |-> [j.entries EXCEPT ![o.key] =
                  IF o.action # "activate" /\ Outranks(@, o) THEN o ELSE @],
   activations |-> [j.activations EXCEPT ![o.key] =
                  IF o.action = "activate" /\ OutranksActivation(@, o)
                  THEN o ELSE @],
   applied |-> j.applied \cup {OpIdOf[o.uid]},
   lamport |-> j.lamport]

(* foldInto on one operation.  The identifier is recorded and never a      *)
(* reason to skip; the stamp may be refused, the operation never is.       *)
Fold(j, o) ==
  [entries |-> [j.entries EXCEPT ![o.key] =
                  IF o.action # "activate" /\ Outranks(@, o) THEN o ELSE @],
   activations |-> [j.activations EXCEPT ![o.key] =
                  IF o.action = "activate" /\ OutranksActivation(@, o)
                  THEN o ELSE @],
   applied |-> j.applied \cup {OpIdOf[o.uid]},
   lamport |-> AdoptedClock(j.lamport, {o})]

Held(register) == {register[k] : k \in Key} \ {NoOp}

(* restoreJournal with the clock recomputed from the entries alone.        *)
Restore_ClockFromEntries(j) ==
  LET operations == Held(j.entries) \cup Held(j.activations)
  IN [j EXCEPT !.lamport = AdoptedClock(0, operations)]

(* restoreJournal: entries and activations are folded again onto an empty  *)
(* journal, the applied identifiers and the clock are read as stored.      *)
Restore(j) ==
  LET operations == Held(j.entries) \cup Held(j.activations)
      stored == IF j.lamport < MaxHonest THEN j.lamport ELSE MaxHonest
  IN [entries |-> [k \in Key |-> IF Outranks(NoOp, j.entries[k])
                                 THEN j.entries[k] ELSE NoOp],
      activations |-> [k \in Key |-> IF OutranksActivation(NoOp, j.activations[k])
                                     THEN j.activations[k] ELSE NoOp],
      applied |-> j.applied \cup {OpIdOf[o.uid] : o \in operations},
      lamport |-> AdoptedClock(stored, operations)]

Absorb(d, o) ==
  /\ journal' = [journal EXCEPT ![d] = Fold(@, o)]
  /\ seen' = [seen EXCEPT ![d] = @ \cup {o}]

-----------------------------------------------------------------------------
UsedOpIds == {OpIdOf[o.uid] : o \in written}

UsedUids == {o.uid : o \in written}

(* A person edits the budget: createLocalOperation stamps the draft with   *)
(* the next tick and a fresh identifier, applyOperations folds it.         *)
Write(d, u, a, k) ==
  /\ OpIdOf[u] \notin UsedOpIds
  /\ LET o == [uid |-> u, author |-> d, action |-> a, key |-> k,
               lamport |-> TickClock(journal[d].lamport)]
     IN /\ written' = written \cup {o}
        /\ Absorb(d, o)

(* Something else the codec accepts reaches the family's queue: any stamp, *)
(* any identifier, whatever device it says it is from.                     *)
ForeignWrite(p, u, a, k, l) ==
  /\ u \notin UsedUids
  /\ written' = written \cup {[uid |-> u, author |-> p, action |-> a,
                               key |-> k, lamport |-> l]}
  /\ UNCHANGED <<journal, seen>>

Receive(d, o) == Absorb(d, o) /\ UNCHANGED written

Restart(d) ==
  /\ journal' = [journal EXCEPT ![d] = Restore(@)]
  /\ UNCHANGED <<written, seen>>

Next ==
  \/ \E d \in Device, u \in Uid, a \in Actions, k \in Key : Write(d, u, a, k)
  \/ \E p \in Author \ Device, u \in Uid, a \in Actions, k \in Key,
        l \in ForeignStamps : ForeignWrite(p, u, a, k, l)
  \/ \E d \in Device : \E o \in written : Receive(d, o)
  \/ \E d \in Device : Restart(d)

Spec == Init /\ [][Next]_vars

(* A device keeps polling and the server keeps every envelope, so whatever *)
(* was written is delivered to every device in the end.                    *)
FairSpec ==
  Spec /\ \A d \in Device : WF_vars(\E o \in written \ seen[d] : Receive(d, o))

-----------------------------------------------------------------------------
(* Every variable has its type; what a device folded was written.          *)
TypeOK ==
  /\ written \subseteq Operation
  /\ journal \in [Device -> Snapshot]
  /\ seen \in [Device -> SUBSET written]

Writes(S, k) == {o \in S : o.action # "activate" /\ o.key = k}

Activations(S, k) == {o \in S : o.action = "activate" /\ o.key = k}

(* o is the best of S by the order wins: what a register folded from S in  *)
(* any order must hold.                                                    *)
IsBest(o, S, wins(_, _)) ==
  \/ S = {} /\ o = NoOp
  \/ o \in S /\ \A p \in S : p = o \/ wins(p, o)

(* Each register of a device holds the best of the operations the device   *)
(* has folded, in whatever order and however often they came, and the      *)
(* identifiers it acknowledges are exactly theirs.                         *)
RegistersHoldBest ==
  \A d \in Device :
    /\ \A k \in Key :
         /\ IsBest(journal[d].entries[k], Writes(seen[d], k), Outranks)
         /\ IsBest(journal[d].activations[k], Activations(seen[d], k),
                   OutranksActivation)
    /\ journal[d].applied = {OpIdOf[o.uid] : o \in seen[d]}

(* Strong convergence: two devices that folded the same operations, in     *)
(* different orders, with repetitions and across restarts, show the same   *)
(* family budget.                                                          *)
Convergence ==
  \A d, e \in Device :
    seen[d] = seen[e] => /\ journal[d].entries = journal[e].entries
                         /\ journal[d].activations = journal[e].activations
                         /\ journal[d].applied = journal[e].applied

(* A stamp on or above the honest ceiling owns only what nobody below it   *)
(* wrote: it takes no entity and no pointer from an honest operation.      *)
ImplausibleTakesNothing ==
  \A d \in Device, k \in Key :
    LET entry == journal[d].entries[k]
        pointer == journal[d].activations[k]
    IN /\ entry # NoOp /\ entry.lamport >= HonestCeiling =>
            \A o \in Writes(seen[d], k) :
              o.lamport < HonestCeiling =>
                entry.action = "delete" /\ o.action # "delete"
       /\ pointer # NoOp /\ pointer.lamport >= HonestCeiling =>
            \A o \in Activations(seen[d], k) : o.lamport >= HonestCeiling

(* A device never writes two operations under one stamp, across restarts   *)
(* too, until its clock has saturated below the ceiling.                   *)
StampsNotReused ==
  \A o, p \in written :
    (o.author = p.author /\ o.author \in Device /\ o.lamport = p.lamport)
      => o = p \/ o.lamport = MaxHonest

(* What a device wrote is never above its own clock.                       *)
ClockCoversOwnWrites ==
  \A o \in written :
    o.author \in Device => /\ o.lamport <= journal[o.author].lamport
                           /\ o \in seen[o.author]

(* Nothing else has written to the family's queue.                         *)
Honest == \A o \in written : o.author \in Device

(* While every author is honest and the family wrote no more operations    *)
(* than the skew, a device's clock is never behind a stamp it has folded.  *)
ClockDominatesSeen == Honest =>
  \A d \in Device : \A o \in seen[d] : o.lamport <= journal[d].lamport

(* A tombstone is final: no operation, restart or order brings the entity  *)
(* back.                                                                   *)
TombstoneFinal ==
  [][\A d \in Device, k \in Key :
       (journal[d].entries[k] # NoOp /\ journal[d].entries[k].action = "delete")
         => (/\ journal'[d].entries[k] # NoOp
             /\ journal'[d].entries[k].action = "delete")]_vars

(* The clock of a device never goes back.                                  *)
ClockNeverGoesBack ==
  [][\A d \in Device : journal'[d].lamport >= journal[d].lamport]_vars

(* In an honest family a person's edit is not lost to what the device      *)
(* already holds: the entry is theirs at once, unless it was deleted.      *)
LocalEditTakesEffect ==
  [][\A o \in written' \ written :
       (Honest /\ o.author \in Device /\ o.action # "activate") =>
         LET before == journal[o.author].entries[o.key]
         IN \/ journal'[o.author].entries[o.key] = o
            \/ before # NoOp /\ before.action = "delete"]_vars

(* Once people stop writing every device comes to hold the same budget.    *)
EventuallyConverged ==
  <>[](\A d, e \in Device :
         /\ journal[d].entries = journal[e].entries
         /\ journal[d].activations = journal[e].activations)
=============================================================================
