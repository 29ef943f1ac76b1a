---------------------------- MODULE JournalMemo ----------------------------
(***************************************************************************)
(* The working state that the snapshots of one journal share               *)
(* (packages/sync-protocol/src/journal.ts 1215 to 1562): one snapshot at a *)
(* time owns the memo and is folded in place, every other is rewound along *)
(* the undo log, which is trimmed at its front.  What a snapshot answers   *)
(* is computed when it is first asked and kept.  Which operation wins an   *)
(* entity is the order of Journal, here the order of numbers.              *)
(***************************************************************************)
EXTENDS Integers, Sequences, SequencesExt

CONSTANTS
  Entry,         \* operations on the one entity, numbers in the order of their rank
  Activation,    \* activations of the one budget, likewise
  MaxSnapshots,  \* bound: snapshots made
  MaxUndo,       \* MAX_UNDO_STEPS
  UndoTrim,      \* UNDO_TRIM_STEP
  MaxApplied,    \* MAX_APPLIED_OP_IDS
  AppliedTrim    \* APPLIED_OP_ID_EPOCH

(* Ranks count from one: zero stands for no operation.                     *)
Bounds ==
  /\ Entry \subseteq Nat \ {0} /\ Activation \subseteq Nat \ {0} /\ Entry \cap Activation = {}
  /\ {MaxSnapshots, MaxUndo, UndoTrim, MaxApplied, AppliedTrim} \subseteq Nat
  /\ MaxSnapshots > 0

VARIABLES memo, snapshot

vars == <<memo, snapshot>>

-----------------------------------------------------------------------------
Operation == Entry \cup Activation

Id == 1 .. MaxSnapshots          \* as many memos as snapshots, at most

Index == {"entries", "activations"}

IndexOf(op) == IF op \in Entry THEN "entries" ELSE "activations"

Nothing == [i \in Index |-> 0]

EmptyMemo == [held |-> Nothing, undo |-> <<>>, undoBase |-> 0, order |-> <<>>,
              dropped |-> 0, owner |-> 0]

(* A place in the history of a memo.                                       *)
Handle(m, memoId) == [memo |-> memoId, undoCount |-> m.undoBase + Len(m.undo),
                      appliedCount |-> m.dropped + Len(m.order)]

Unread == <<0>>

(* own: the handle the answers are computed from; home: the one a fold     *)
(* starts from.  What was read is kept: the indexes, which may be the      *)
(* memo's own, and the answers.  truth: what was folded into it; pieces:   *)
(* read once while it was current and again after the memo moved on.       *)
NoSnapshot == [own |-> Handle(EmptyMemo, 0), home |-> Handle(EmptyMemo, 0),
               kept |-> "none", indexes |-> Nothing,
               view |-> -1, activated |-> -1, applied |-> Unread,
               truth |-> {}, pieces |-> FALSE]

(* materialize: the snapshot owns the memo from now on.                    *)
Snapshot(m, memoId, truth) ==
  [NoSnapshot EXCEPT !.own = Handle(m, memoId), !.home = Handle(m, memoId), !.truth = truth]

Owned(m, i) == [m EXCEPT !.owner = i]

Init ==
  /\ memo = [m \in Id |-> IF m = 1 THEN Owned(EmptyMemo, 1) ELSE EmptyMemo]
  /\ snapshot = [i \in Id |-> IF i = 1 THEN Snapshot(EmptyMemo, 1, {}) ELSE NoSnapshot]

Made == {i \in Id : snapshot[i].own.memo # 0}

(* Numbers are taken in order; the k-th memo made is memo k.               *)
Unmade == {i \in Id \ Made : \A j \in Id : j < i => j \in Made}

Unused == {m \in Id : memo[m] = EmptyMemo /\ \A k \in Id : k < m => memo[k] # EmptyMemo}

-----------------------------------------------------------------------------
Current(h) == memo[h.memo].undoBase + Len(memo[h.memo].undo) = h.undoCount

Forgotten(h) == h.undoCount < memo[h.memo].undoBase

(* indexesOf: whatever was recorded after the handle is taken back, latest *)
(* first.                                                                  *)
Rewound(h) ==
  LET m == memo[h.memo]
      back[n \in 0 .. Len(m.undo)] ==
        IF n = 0 THEN m.held
        ELSE LET step == m.undo[Len(m.undo) + 1 - n]
             IN [back[n - 1] EXCEPT ![step.index] = step.previous]
  IN back[m.undoBase + Len(m.undo) - h.undoCount]

(* held(): the indexes first asked for are kept, and a live memo moves on. *)
Indexes(s) ==
  CASE s.kept = "live" -> memo[s.own.memo].held
    [] s.kept = "copy" -> s.indexes
    [] OTHER -> Rewound(s.own)

(* Identifiers in the order of their numbers.                              *)
Sorted(ids) ==
  [n \in 1 .. Cardinality(ids) |->
     CHOOSE id \in ids : Cardinality({other \in ids : other <= id}) = n]

(* What the window has not dropped of the identifiers, sorted.             *)
Remembered(s) ==
  LET m == memo[s.own.memo]
      kept == IF s.own.appliedCount > m.dropped THEN s.own.appliedCount - m.dropped ELSE 0
  IN IF s.applied # Unread THEN s.applied
     ELSE Sorted({m.order[n] : n \in 1 .. kept})

-----------------------------------------------------------------------------
Trimmed_WithReserve(m) ==
  LET applied == IF Len(m.order) <= MaxApplied + AppliedTrim THEN m
                 ELSE [m EXCEPT !.order = SubSeq(@, AppliedTrim + 1, Len(@)),
                                !.dropped = @ + AppliedTrim]
  IN IF Len(m.undo) <= MaxUndo + UndoTrim THEN applied
     ELSE [applied EXCEPT !.undo = SubSeq(@, UndoTrim + 1, Len(@)), !.undoBase = @ + UndoTrim]

(* foldInto: an operation is applied whatever was applied before.          *)
Trimmed(m) ==
  LET excess == Len(m.order) - MaxApplied + AppliedTrim
      applied == IF Len(m.order) <= MaxApplied THEN m
                 ELSE LET n == IF excess < Len(m.order) THEN excess ELSE Len(m.order)
                      IN [m EXCEPT !.order = SubSeq(m.order, n + 1, Len(m.order)),
                                   !.dropped = m.dropped + n]
  IN IF Len(m.undo) <= MaxUndo + UndoTrim THEN applied
     ELSE [applied EXCEPT !.undo = SubSeq(m.undo, UndoTrim + 1, Len(m.undo)),
                          !.undoBase = m.undoBase + UndoTrim]

Applied(m, op) ==
  LET known == op \in ToSet(m.order)
      index == IndexOf(op)
      noted == IF known THEN m ELSE [m EXCEPT !.order = Append(m.order, op)]
  IN IF m.held[index] >= op THEN noted
     ELSE [noted EXCEPT !.held[index] = op,
             !.undo = Append(m.undo, [index |-> index, previous |-> m.held[index]])]

Folded(m, ops) == Trimmed(FoldLeft(Applied, m, ops))

Copied_Live(s) ==
  [EmptyMemo EXCEPT !.held = memo[s.home.memo].held, !.order = Remembered(s)]

(* copyMemo: the view of the handle, and the identifiers it remembers.     *)
Copied(s) == [EmptyMemo EXCEPT !.held = Rewound(s.home), !.order = Remembered(s)]

(* Onto the snapshot that owns its memo, in place.                         *)
FoldOwned(i, ops) ==
  LET id == snapshot[i].home.memo
      m == Folded(memo[id], ops)
  IN /\ memo[id].owner = i
     /\ m # memo[id]
     /\ \E j \in Unmade :
          /\ memo' = [memo EXCEPT ![id] = Owned(m, j)]
          /\ snapshot' = [snapshot EXCEPT
               ![j] = Snapshot(m, id, snapshot[i].truth \cup ToSet(ops))]

(* Onto another, through a copy; after a fold that changed nothing the     *)
(* copy is the snapshot's home, and a snapshot that is past the undo log   *)
(* is refused.                                                             *)
FoldCopied(i, ops) ==
  LET s == snapshot[i]
      read == [s EXCEPT !.applied = Remembered(s)]
      m == Folded(Copied(s), ops)
  IN /\ memo[s.home.memo].owner # i
     /\ ~Forgotten(s.home)
     /\ \E id \in Unused :
          IF m = Copied(s)
          THEN /\ memo' = [memo EXCEPT ![id] = Owned(m, i)]
               /\ snapshot' = [snapshot EXCEPT ![i] = [read EXCEPT !.home = Handle(m, id)]]
          ELSE \E j \in Unmade :
               /\ memo' = [memo EXCEPT ![id] = Owned(m, j)]
               /\ snapshot' = [snapshot EXCEPT ![i] = read,
                    ![j] = Snapshot(m, id, s.truth \cup ToSet(ops))]

(* restoreJournal: what was read of a snapshot is stored and folded again. *)
Restore(i) ==
  LET s == snapshot[i]
      Winner(op) == IF op = 0 THEN <<>> ELSE <<op>>
      entries == Winner(s.view) \o Winner(s.activated)
      m == Folded([EmptyMemo EXCEPT !.order = s.applied], entries)
  IN /\ s.view # -1 /\ s.activated # -1 /\ s.applied # Unread
     /\ \E id \in Unused, j \in Unmade :
          /\ memo' = [memo EXCEPT ![id] = Owned(m, j)]
          /\ snapshot' = [snapshot EXCEPT
               ![j] = Snapshot(m, id, ToSet(entries) \cup ToSet(s.applied))]

-----------------------------------------------------------------------------
(* Reading.                                                                *)

MayRead(s) == s.kept # "none" \/ ~Forgotten(s.own)

Asked(s) ==
  [s EXCEPT !.kept = IF s.kept # "none" THEN s.kept
                     ELSE IF Current(s.own) THEN "live" ELSE "copy",
            !.indexes = IF s.kept # "none" \/ Current(s.own) THEN s.indexes ELSE Rewound(s.own),
            !.pieces = s.pieces \/ (s.kept = "live" /\ ~Current(s.own))]

ReadView(i) ==
  LET s == snapshot[i]
  IN /\ s.view = -1 /\ MayRead(s)
     /\ snapshot' = [snapshot EXCEPT ![i] = [Asked(s) EXCEPT !.view = Indexes(s)["entries"]]]
     /\ UNCHANGED memo

ReadActivations(i) ==
  LET s == snapshot[i]
  IN /\ s.activated = -1 /\ MayRead(s)
     /\ snapshot' = [snapshot EXCEPT
          ![i] = [Asked(s) EXCEPT !.activated = Indexes(s)["activations"]]]
     /\ UNCHANGED memo

ReadApplied(i) ==
  /\ snapshot[i].applied = Unread
  /\ snapshot' = [snapshot EXCEPT ![i].applied = Remembered(snapshot[i])]
  /\ UNCHANGED memo

Batches == {<<op>> : op \in Operation} \cup {<<op, other>> : op \in Entry, other \in Activation}

Next ==
  \E i \in Made :
    \/ \E ops \in Batches : FoldOwned(i, ops) \/ FoldCopied(i, ops)
    \/ Restore(i)
    \/ ReadView(i) \/ ReadActivations(i) \/ ReadApplied(i)

Spec == Init /\ [][Next]_vars
-----------------------------------------------------------------------------
TypeOK ==
  /\ \A m \in Id : Len(memo[m].order) <= MaxApplied /\ memo[m].owner \in Made \cup {0}
  /\ \A i \in Made : snapshot[i].home.memo \in Id /\ snapshot[i].truth \subseteq Operation

(* The operation of the highest rank, or none.                             *)
Best(ops) == CHOOSE op \in ops \cup {0} : \A other \in ops : other <= op

Answer(s) == [i \in Index |-> Best({op \in s.truth : IndexOf(op) = i})]

(* "Still answers with the state a superseded snapshot had"                *)
(* (journal.test.ts 2234): what was read, and what a fold would start      *)
(* from, is what was folded into this snapshot and nothing else.  Left     *)
(* out: a snapshot first asked while it was current and asked for the rest *)
(* after its memo had moved on.                                            *)
AnswersAsItWas(s) == ~s.pieces =>
  /\ s.view \in {-1, Answer(s)["entries"]}
  /\ s.activated \in {-1, Answer(s)["activations"]}
  /\ (s.kept = "none" /\ ~Forgotten(s.own)) => Rewound(s.own) = Answer(s)
  /\ ~Forgotten(s.home) => Rewound(s.home) = Answer(s)

(* A snapshot never says that it applied what it did not.                  *)
RemembersOnlyItsOwn(s) == \A op \in ToSet(Remembered(s)) : op \in s.truth

(* "A snapshot still in use is always inside" the undo window.             *)
WithinTheWindow(s) ==
  memo[s.own.memo].undoBase + Len(memo[s.own.memo].undo) - s.own.undoCount <= MaxUndo
    => ~Forgotten(s.own)

SnapshotsKeep == \A i \in Made :
  /\ AnswersAsItWas(snapshot[i])
  /\ RemembersOnlyItsOwn(snapshot[i])
  /\ WithinTheWindow(snapshot[i])
=============================================================================
