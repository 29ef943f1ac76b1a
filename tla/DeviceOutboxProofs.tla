------------------------- MODULE DeviceOutboxProofs -------------------------
(***************************************************************************)
(* Theorems about DeviceOutbox for any operations, writers, epochs, batch  *)
(* size and number of attempts.  A call may act long after it looked: the  *)
(* invariant says what is still true of the server and the disk when it    *)
(* does (Backed), and the same of a rotation (Leading).                    *)
(***************************************************************************)
EXTENDS DeviceOutbox, SequenceTheorems

(* A call that goes on to confirm, mark or forget has seen its epoch       *)
(* proven; what it will confirm is numbered.                               *)
CallBacked(call, s) ==
  /\ call.at \in {"confirm", "mark", "forget"} => call.key \in s.proven
  /\ call.at = "confirm" => ToSet(call.batch) \subseteq s.journal

Backed == \A t \in Task : CallBacked(task[t], server)

(* A rotation that is uploading continues the epoch in force while it is   *)
(* the staged one; one that was switched has brought its epoch into force  *)
(* and its queue into the journal.                                         *)
Leading ==
  /\ rotation.at # "idle" => rotation.key < MaxEpoch
  /\ rotation.at = "upload" /\ server.staged => server.epoch = rotation.key
  /\ rotation.at \in {"settle", "switch"} =>
       /\ rotation.moved \subseteq server.journal
       /\ rotation.key + 1 \in server.proven /\ rotation.key + 1 <= server.epoch

Invariant ==
  TypeOK /\ LiveIsProven /\ disk.key <= server.epoch /\ Backed /\ Leading

(* What a step may do to the queue, and to the retired key.                *)
KeepsQueue ==
  \A o \in OpsIn(disk.outbox) \ OpsIn(disk'.outbox) :
    \/ o \in server'.journal
    \/ \E t \in Task : task'[t].at = "reload" /\ o \in ToSet(task'[t].moved)

SparesKey ==
  (disk.retired \in Epoch /\ disk'.retired = Erased) =>
    \E e \in server.proven : e > disk.retired

Step == Invariant' /\ KeepsQueue /\ SparesKey

-----------------------------------------------------------------------------
(* The queue.                                                              *)

LEMMA WithoutFacts ==
  ASSUME NEW queue \in Seq(Queued), NEW ops
  PROVE  /\ Without(queue, ops) \in Seq(Queued)
         /\ OpsIn(Without(queue, ops)) = OpsIn(queue) \ ops
<1> DEFINE P == {i \in DOMAIN queue : queue[i].op \notin ops}
           q == Picked(queue, P)
<1>1. /\ q \in Seq(Queued)
      /\ {q[k] : k \in DOMAIN q} = {queue[i] : i \in P}
  BY PickedElements
<1> HIDE DEF q
<1>2. OpsIn(q) = {v.op : v \in {q[k] : k \in DOMAIN q}}
  BY DEF OpsIn
<1>3. OpsIn(q) = {v.op : v \in {queue[i] : i \in P}}
  BY <1>1, <1>2
<1>4. OpsIn(q) = OpsIn(queue) \ ops
  BY <1>3 DEF OpsIn
<1> QED BY <1>1, <1>4 DEF Without, q

LEMMA WithFacts ==
  ASSUME NEW queue \in Seq(Queued), NEW ops \in Seq(Op), NEW epoch \in Epoch
  PROVE  /\ With(queue, ops, epoch) \in Seq(Queued)
         /\ OpsIn(queue) \subseteq OpsIn(With(queue, ops, epoch))
<1> DEFINE absent == Picked(ops, {i \in DOMAIN ops : ops[i] \notin OpsIn(queue)})
           new == [i \in DOMAIN absent |-> [op |-> absent[i], epoch |-> epoch]]
<1>1. absent \in Seq(Op)
  BY PickedElements
<1> HIDE DEF absent
<1>2. new \in Seq(Queued)
  <2>1. Len(absent) \in Nat /\ DOMAIN absent = 1 .. Len(absent)
    BY <1>1
  <2>2. new \in [1 .. Len(absent) -> Queued]
    BY <1>1, <2>1 DEF Queued
  <2> QED BY <2>1, <2>2, FunctionIsSeq
<1> HIDE DEF new
<1>3. /\ queue \o new \in Seq(Queued)
      /\ \A i \in DOMAIN queue : i \in DOMAIN (queue \o new) /\ (queue \o new)[i] = queue[i]
  BY <1>2
<1>4. OpsIn(queue) \subseteq OpsIn(queue \o new)
  BY <1>3 DEF OpsIn
<1> QED BY <1>3, <1>4 DEF With, new, absent

LEMMA OpsOfSeq ==
  ASSUME NEW queue \in Seq(Queued)
  PROVE  OpsOf(queue) \in Seq(Op)
<1>1. Len(queue) \in Nat /\ DOMAIN queue = 1 .. Len(queue)
  OBVIOUS
<1>2. ASSUME NEW i \in 1 .. Len(queue) PROVE queue[i].op \in Op
  <2>1. queue[i] \in Queued
    BY <1>2, ElementOfSeq
  <2> QED BY <2>1 DEF Queued
<1>3. OpsOf(queue) \in [1 .. Len(queue) -> Op]
  BY <1>1, <1>2 DEF OpsOf
<1> QED BY <1>1, <1>3, FunctionIsSeq

-----------------------------------------------------------------------------
(* The calls.                                                              *)

LEMMA NoTries == 0 \in 0 .. MaxAttempts - 1
  BY OutboxAssumption

LEMMA IdleCallTyped == IdleCall \in Call /\ NoRotation.at = "idle"
  BY OutboxAssumption DEF IdleCall, Call, Epoch, Places, NoRotation

LEMMA EngineTyped ==
  ASSUME NEW key \in Epoch, NEW retired
  PROVE  EngineOf(key, retired) \in Call /\ EngineOf(key, retired).key = key
<1>1. (IF retired \in 1 .. key - 1 THEN retired ELSE None) \in Epoch \cup {None}
  BY OutboxAssumption DEF Epoch
<1> QED BY <1>1, IdleCallTyped DEF EngineOf, Call

LEMMA EndedTyped ==
  ASSUME TypeOK, NEW t \in Task, NEW refused \in BOOLEAN
  PROVE  Ended(t, refused) \in Call /\ Ended(t, refused).at \in {"accept", "report"}
<1>1. task[t] \in Call
  BY DEF TypeOK
<1> QED BY <1>1, IdleCallTyped DEF Ended, Call, Places

LEMMA ListedTyped ==
  ASSUME TypeOK, NEW call \in Call, NEW limit \in Nat, 
         NEW next \in {"submit", "barrier", "pull"}
  PROVE  /\ Listed(call, limit, next) \in Call
         /\ Listed(call, limit, next).key = call.key
         /\ Listed(call, limit, next).at \in {"remove", next}
<1> DEFINE m == IF limit < Len(disk.outbox) THEN limit ELSE Len(disk.outbox)
           seen == SubSeq(disk.outbox, 1, m)
           readable == Picked(seen, {i \in DOMAIN seen : seen[i].epoch \in {call.key, call.old}})
           behind == Picked(readable, {i \in DOMAIN readable : readable[i].epoch # call.key})
<1>1. disk.outbox \in Seq(Queued)
  BY DEF TypeOK, Disk
<1>2. m \in Nat /\ m <= Len(disk.outbox)
  BY <1>1
<1> HIDE DEF m
<1>3. \A i \in 1 .. m : disk.outbox[i] \in Queued
  BY <1>1, <1>2
<1>4. seen \in Seq(Queued)
  BY <1>2, <1>3, SubSeqProperties
<1> HIDE DEF seen
<1>5. readable \in Seq(Queued)
  BY <1>4, PickedElements
<1> HIDE DEF readable
<1>6. behind \in Seq(Queued)
  BY <1>5, PickedElements
<1> HIDE DEF behind
<1>7. OpsOf(readable) \in Seq(Op) /\ OpsOf(behind) \in Seq(Op)
  BY <1>5, <1>6, OpsOfSeq
<1>8. Listed(call, limit, next) =
        [call EXCEPT !.after = next, !.batch = OpsOf(readable), !.moved = OpsOf(behind),
                     !.at = IF behind # <<>> THEN "remove" ELSE next]
  BY DEF Listed, behind, readable, seen, m
<1> QED BY <1>7, <1>8 DEF Call, Places

LEMMA TaskUpdated ==
  ASSUME task \in [Task -> Call], NEW t \in Task, NEW call \in Call, Goes(t, call)
  PROVE  /\ task' \in [Task -> Call] /\ task'[t] = call
         /\ \A u \in Task : u # t => task'[u] = task[u]
  BY DEF Goes

LEMMA TaskCommitted ==
  ASSUME task \in [Task -> Call], NEW t \in Task, NEW call \in Call, Commits(t, call)
  PROVE  /\ task' \in [Task -> Call] /\ task'[t] = call
         /\ \A u \in Task : u # t => task'[u] = [task[u] EXCEPT !.fresh = FALSE]
<1>1. \A u \in Task : [task[u] EXCEPT !.fresh = FALSE] \in Call
  BY DEF Call
<1> QED BY <1>1 DEF Commits

(* What a step keeps that leaves the disk's queue and retired key alone.   *)
LEMMA SameDisk ==
  ASSUME disk'.outbox = disk.outbox, disk'.retired = disk.retired \/ disk'.retired \in Epoch
  PROVE  KeepsQueue /\ SparesKey
  BY DEF KeepsQueue, SparesKey, Epoch, Erased

(* A step of one call that touches nothing else.                           *)
LEMMA CallStep ==
  ASSUME Invariant, NEW t \in Task, NEW call \in Call, Goes(t, call),
         CallBacked(call, server), UNCHANGED <<disk, rotation, server, written>>
  PROVE  Step
<1>1. task \in [Task -> Call]
  BY DEF Invariant, TypeOK
<1>2. /\ task' \in [Task -> Call] /\ task'[t] = call
      /\ \A u \in Task : u # t => task'[u] = task[u]
  BY <1>1, TaskUpdated
<1>3. TypeOK'
  BY <1>2 DEF Invariant, TypeOK
<1>4. Backed'
  BY <1>2 DEF Invariant, Backed
<1>5. (LiveIsProven /\ disk.key <= server.epoch /\ Leading)'
  BY DEF Invariant, LiveIsProven, Leading
<1>6. KeepsQueue /\ SparesKey
  BY SameDisk
<1> QED BY <1>3, <1>4, <1>5, <1>6 DEF Step, Invariant

(* A call that left the server alone: what backs it still does.            *)
LEMMA CallMoved ==
  ASSUME NEW old, NEW new, NEW s, CallBacked(old, s),
         new.key = old.key,
         new.at \in {"confirm", "mark", "forget"} =>
           old.at \in {"confirm", "mark", "forget"},
         new.at = "confirm" => old.at = "confirm" /\ new.batch = old.batch
  PROVE  CallBacked(new, s)
  BY DEF CallBacked

-----------------------------------------------------------------------------
(* A local write.                                                          *)

LEMMA StartWriteStep ==
  ASSUME Invariant, NEW w \in Writer, StartWrite(w)
  PROVE  Step
<1> DEFINE call == [EngineOf(disk.key, disk.retired) EXCEPT !.at = "load"]
<1>1. disk.key \in Epoch
  BY DEF Invariant, TypeOK, Disk
<1>2. call \in Call /\ call.at = "load"
  BY <1>1, EngineTyped DEF Call, Places
<1>3. CallBacked(call, server)
  BY <1>2 DEF CallBacked
<1> QED BY <1>2, <1>3, CallStep DEF StartWrite, Task

LEMMA LoadForWriteStep ==
  ASSUME Invariant, NEW w \in Writer, LoadForWrite(w)
  PROVE  Step
<1> DEFINE call == [task[w] EXCEPT !.at = "commit", !.fresh = TRUE]
<1>1. w \in Task /\ task[w] \in Call
  BY DEF Invariant, TypeOK, Task
<1>2. call \in Call /\ call.at = "commit"
  BY <1>1 DEF Call, Places
<1>3. CallBacked(call, server)
  BY <1>2 DEF CallBacked
<1> QED BY <1>1, <1>2, <1>3, CallStep DEF LoadForWrite

(* A commit: one transaction on the queue and the other calls' revision.   *)
LEMMA CommitStep ==
  ASSUME Invariant, NEW t \in Task, NEW call \in Call, Commits(t, call),
         CallBacked(call, server), UNCHANGED <<rotation, server>>,
         written' \subseteq Op, disk' \in Disk,
         disk'.key = disk.key, disk'.retired = disk.retired, disk'.mark = disk.mark,
         OpsIn(disk.outbox) \subseteq OpsIn(disk'.outbox)
  PROVE  Step
<1>1. task \in [Task -> Call]
  BY DEF Invariant, TypeOK
<1>2. /\ task' \in [Task -> Call] /\ task'[t] = call
      /\ \A u \in Task : u # t => task'[u] = [task[u] EXCEPT !.fresh = FALSE]
  BY <1>1, TaskCommitted
<1>3. TypeOK'
  BY <1>2 DEF Invariant, TypeOK
<1>4. \A u \in Task : [task[u] EXCEPT !.fresh = FALSE].at = task[u].at
                      /\ [task[u] EXCEPT !.fresh = FALSE].key = task[u].key
                      /\ [task[u] EXCEPT !.fresh = FALSE].batch = task[u].batch
  BY <1>1 DEF Call
<1>5. Backed'
  <2>1. SUFFICES ASSUME NEW u \in Task PROVE CallBacked(task'[u], server)
    BY DEF Backed
  <2>2. CASE u # t
    <3>1. CallBacked(task[u], server)
      BY DEF Invariant, Backed
    <3> DEFINE new == [task[u] EXCEPT !.fresh = FALSE]
    <3>2. new.at = task[u].at /\ new.key = task[u].key /\ new.batch = task[u].batch
      BY <1>4
    <3>3. task'[u] = new
      BY <1>2, <2>2
    <3> HIDE DEF new
    <3>4. CallBacked(new, server)
      BY <3>1, <3>2, CallMoved
    <3> QED BY <3>3, <3>4
  <2> QED BY <1>2, <2>2
<1>6. (LiveIsProven /\ disk.key <= server.epoch /\ Leading)'
  BY DEF Invariant, LiveIsProven, Leading
<1>7. KeepsQueue
  BY DEF KeepsQueue
<1>8. SparesKey
  BY DEF SparesKey, Epoch, Erased
<1> QED BY <1>3, <1>5, <1>6, <1>7, <1>8 DEF Step, Invariant

LEMMA RetriedTyped ==
  ASSUME NEW call \in Call, ~LastAttempt(call), NEW place \in Places
  PROVE  /\ Retried(call, place) \in Call /\ Retried(call, place).at = place
         /\ Retried(call, place).key = call.key
<1>1. call.tries \in 0 .. MaxAttempts - 1 /\ call.tries + 1 \in 0 .. MaxAttempts - 1
  BY OutboxAssumption DEF Call, LastAttempt
<1> QED BY <1>1 DEF Retried, Call

LEMMA CommitWriteStep ==
  ASSUME Invariant, NEW w \in Writer, NEW o \in Op, CommitWrite(w, o)
  PROVE  Step
<1>1. w \in Task /\ task[w] \in Call /\ disk \in Disk
  BY DEF Invariant, TypeOK, Task
<1>2. CASE task[w].fresh
  <2> DEFINE call == [task[w] EXCEPT !.at = "push", !.fresh = FALSE, !.tries = 0]
             queue == With(disk.outbox, <<o>>, task[w].key)
  <2>1. call \in Call /\ call.at = "push"
    BY <1>1, NoTries DEF Call, Places
  <2>2. CallBacked(call, server)
    BY <2>1 DEF CallBacked
  <2>3. disk.outbox \in Seq(Queued) /\ <<o>> \in Seq(Op) /\ task[w].key \in Epoch
    BY <1>1 DEF Disk, Call
  <2>4. queue \in Seq(Queued) /\ OpsIn(disk.outbox) \subseteq OpsIn(queue)
    BY <2>3, WithFacts
  <2>5. disk' = [disk EXCEPT !.outbox = queue]
    BY <1>2 DEF CommitWrite
  <2> HIDE DEF queue
  <2>6. /\ disk' \in Disk /\ disk'.key = disk.key /\ disk'.retired = disk.retired
        /\ disk'.mark = disk.mark /\ disk'.outbox = queue
    BY <1>1, <2>4, <2>5 DEF Disk
  <2>7. Commits(w, call) /\ written' \subseteq Op /\ UNCHANGED <<rotation, server>>
    BY <1>2 DEF CommitWrite, Invariant, TypeOK
  <2> HIDE DEF call
  <2> QED BY <1>1, <2>1, <2>2, <2>4, <2>6, <2>7, CommitStep
<1>3. CASE ~task[w].fresh
  <2> DEFINE call == IF LastAttempt(task[w]) THEN IdleCall ELSE Retried(task[w], "load")
  <2>1. call \in Call /\ call.at \in {"idle", "load"}
    BY <1>1, IdleCallTyped, RetriedTyped DEF IdleCall, Places
  <2>2. CallBacked(call, server)
    BY <2>1 DEF CallBacked
  <2>3. Goes(w, call) /\ UNCHANGED <<disk, rotation, server, written>>
    BY <1>3 DEF CommitWrite
  <2> HIDE DEF call
  <2> QED BY <1>1, <2>1, <2>2, <2>3, CallStep
<1> QED BY <1>2, <1>3

-----------------------------------------------------------------------------
(* A sync round.                                                           *)

LEMMA StartRoundStep ==
  ASSUME Invariant, StartRound
  PROVE  Step
<1> DEFINE call == [EngineOf(disk.key, disk.retired) EXCEPT !.at = "push"]
<1>1. disk.key \in Epoch /\ Poll \in Task
  BY DEF Invariant, TypeOK, Disk, Task
<1>2. call \in Call /\ call.at = "push"
  BY <1>1, EngineTyped DEF Call, Places
<1>3. CallBacked(call, server)
  BY <1>2 DEF CallBacked
<1> HIDE DEF call
<1>4. Goes(Poll, call) /\ UNCHANGED <<disk, rotation, server, written>>
  BY DEF StartRound, call
<1> QED BY <1>1, <1>2, <1>3, <1>4, CallStep

(* A round that ends, or stops at a place where it needs no backing.       *)
LEMMA PlainStep ==
  ASSUME Invariant, NEW t \in Task, NEW call \in Call, Goes(t, call),
         call.at \notin {"confirm", "mark", "forget"},
         UNCHANGED <<disk, rotation, server, written>>
  PROVE  Step
<1>1. CallBacked(call, server)
  BY DEF CallBacked
<1> QED BY <1>1, CallStep

LEMMA EndedStep ==
  ASSUME Invariant, NEW t \in Task, NEW refused \in BOOLEAN, Goes(t, Ended(t, refused)),
         UNCHANGED <<disk, rotation, server, written>>
  PROVE  Step
<1> DEFINE call == Ended(t, refused)
<1>1. call \in Call /\ call.at \in {"accept", "report"}
  BY EndedTyped DEF Invariant
<1> HIDE DEF call
<1>2. Goes(t, call)
  BY DEF call
<1> QED BY <1>1, <1>2, PlainStep

LEMMA ListStep ==
  ASSUME Invariant, NEW t \in Task, List(t)
  PROVE  Step
<1> DEFINE call == Listed(task[t], BatchSize, "submit")
           next == IF call.batch = <<>> THEN [call EXCEPT !.at = "open"] ELSE call
<1>1. task[t] \in Call /\ BatchSize \in Nat
  BY OutboxAssumption DEF Invariant, TypeOK
<1>2. call \in Call /\ call.at \in {"remove", "submit"}
  BY <1>1, ListedTyped DEF Invariant, Places
<1>3. Goes(t, next) /\ UNCHANGED <<disk, rotation, server, written>>
  BY DEF List
<1> HIDE DEF call
<1>4. next \in Call /\ next.at \in {"remove", "submit", "open"}
  BY <1>2 DEF Call, Places
<1> HIDE DEF next
<1> QED BY <1>3, <1>4, PlainStep

(* Changes of the disk by a call that is backed where it goes.             *)
LEMMA DiskStep ==
  ASSUME Invariant, NEW t \in Task, NEW call \in Call, Goes(t, call),
         CallBacked(call, server), UNCHANGED <<rotation, server, written>>,
         disk' \in Disk, disk'.key <= server.epoch,
         disk'.mark.live => disk'.mark.epoch \in server.proven
  PROVE  Invariant'
<1>1. task \in [Task -> Call]
  BY DEF Invariant, TypeOK
<1>2. /\ task' \in [Task -> Call] /\ task'[t] = call
      /\ \A u \in Task : u # t => task'[u] = task[u]
  BY <1>1, TaskUpdated
<1>3. TypeOK'
  BY <1>2 DEF Invariant, TypeOK
<1>4. Backed'
  BY <1>2 DEF Invariant, Backed
<1>5. (LiveIsProven /\ disk.key <= server.epoch /\ Leading)'
  BY DEF Invariant, LiveIsProven, Leading
<1> QED BY <1>3, <1>4, <1>5 DEF Invariant

(* Removing operations of the queue from the disk.                         *)
LEMMA Removed ==
  ASSUME disk \in Disk, NEW ops,
         disk' = [disk EXCEPT !.outbox = Without(disk.outbox, ops)]
  PROVE  /\ disk' \in Disk /\ disk'.key = disk.key /\ disk'.retired = disk.retired
         /\ disk'.mark = disk.mark
         /\ OpsIn(disk'.outbox) = OpsIn(disk.outbox) \ ops
<1> DEFINE queue == Without(disk.outbox, ops)
<1>1. disk.outbox \in Seq(Queued)
  BY DEF Disk
<1>2. queue \in Seq(Queued) /\ OpsIn(queue) = OpsIn(disk.outbox) \ ops
  BY <1>1, WithoutFacts
<1> HIDE DEF queue
<1>3. disk' = [disk EXCEPT !.outbox = queue]
  BY DEF queue
<1> QED BY <1>2, <1>3 DEF Disk

LEMMA RewriteRemoveStep ==
  ASSUME Invariant, NEW t \in Task, RewriteRemove(t)
  PROVE  Step
<1> DEFINE call == [task[t] EXCEPT !.at = "reload", !.tries = 0]
           ops == ToSet(task[t].moved)
<1>1. disk \in Disk /\ task \in [Task -> Call]
  BY DEF Invariant, TypeOK
<1>2. call \in Call /\ call.at = "reload" /\ call.moved = task[t].moved
  BY <1>1, NoTries DEF Call, Places
<1>3. Goes(t, call) /\ UNCHANGED <<rotation, server, written>>
  BY DEF RewriteRemove
<1>4. disk' = [disk EXCEPT !.outbox = Without(disk.outbox, ops)]
  BY DEF RewriteRemove
<1> HIDE DEF call, ops
<1>5. /\ disk' \in Disk /\ disk'.key = disk.key /\ disk'.retired = disk.retired
      /\ disk'.mark = disk.mark /\ OpsIn(disk'.outbox) = OpsIn(disk.outbox) \ ops
  BY <1>1, <1>4, Removed
<1>6. Invariant'
  <2>1. CallBacked(call, server)
    BY <1>2 DEF CallBacked
  <2>2. /\ disk'.key <= server.epoch
        /\ disk'.mark.live => disk'.mark.epoch \in server.proven
    BY <1>5 DEF Invariant, LiveIsProven
  <2> QED BY <1>2, <1>3, <1>5, <2>1, <2>2, DiskStep
<1>7. task'[t] = call
  BY <1>1, <1>2, <1>3, TaskUpdated
<1>8. KeepsQueue
  BY <1>2, <1>5, <1>7 DEF KeepsQueue, ops
<1>9. SparesKey
  BY <1>5 DEF SparesKey, Epoch, Erased
<1> QED BY <1>6, <1>8, <1>9 DEF Step

LEMMA LoadForRewriteStep ==
  ASSUME Invariant, NEW t \in Task, LoadForRewrite(t)
  PROVE  Step
<1> DEFINE call == [task[t] EXCEPT !.at = "add", !.fresh = TRUE]
<1>1. task[t] \in Call
  BY DEF Invariant, TypeOK
<1>2. call \in Call /\ call.at = "add"
  BY <1>1 DEF Call, Places
<1>3. Goes(t, call) /\ UNCHANGED <<disk, rotation, server, written>>
  BY DEF LoadForRewrite
<1> HIDE DEF call
<1> QED BY <1>2, <1>3, PlainStep

LEMMA FetchStep ==
  ASSUME Invariant, NEW t \in Task, Fetch(t)
  PROVE  Step
<1> DEFINE call == [task[t] EXCEPT !.at = "fold"]
<1>1. task[t] \in Call /\ UNCHANGED <<disk, rotation, server, written>>
  BY DEF Invariant, TypeOK, Fetch
<1>2. call \in Call /\ call.at = "fold"
  BY <1>1 DEF Call, Places
<1>3. Goes(t, call) \/ Goes(t, Ended(t, FALSE)) \/ Goes(t, Ended(t, TRUE))
  BY DEF Fetch
<1> HIDE DEF call
<1> QED BY <1>1, <1>2, <1>3, PlainStep, EndedStep

LEMMA UnreachableStep ==
  ASSUME Invariant, NEW t \in Task, Unreachable(t)
  PROVE  Step
  BY EndedStep DEF Unreachable

LEMMA SubmitRefusedStep ==
  ASSUME Invariant, NEW t \in Task, SubmitRefused(t)
  PROVE  Step
  BY EndedStep DEF SubmitRefused

LEMMA RewriteAddStep ==
  ASSUME Invariant, NEW t \in Task, RewriteAdd(t)
  PROVE  Step
<1>1. task[t] \in Call /\ disk \in Disk
  BY DEF Invariant, TypeOK
<1>2. CASE task[t].fresh
  <2> DEFINE call == [task[t] EXCEPT !.at = task[t].after, !.moved = <<>>,
                                     !.fresh = FALSE, !.tries = 0]
             queue == With(disk.outbox, task[t].moved, task[t].key)
  <2>1. call \in Call /\ call.at \in {"idle", "submit", "barrier", "pull"}
    <3>1. task[t].after \in Places /\ <<>> \in Seq(Op)
      BY <1>1 DEF Call, Places
    <3> QED BY <1>1, <3>1, NoTries DEF Call
  <2>2. CallBacked(call, server)
    BY <2>1 DEF CallBacked
  <2>3. disk.outbox \in Seq(Queued) /\ task[t].moved \in Seq(Op) /\ task[t].key \in Epoch
    BY <1>1 DEF Disk, Call
  <2>4. queue \in Seq(Queued) /\ OpsIn(disk.outbox) \subseteq OpsIn(queue)
    BY <2>3, WithFacts
  <2>5. disk' = [disk EXCEPT !.outbox = queue]
    BY <1>2 DEF RewriteAdd
  <2> HIDE DEF queue
  <2>6. /\ disk' \in Disk /\ disk'.key = disk.key /\ disk'.retired = disk.retired
        /\ disk'.mark = disk.mark /\ disk'.outbox = queue
    BY <1>1, <2>4, <2>5 DEF Disk
  <2>7. Commits(t, call) /\ written' \subseteq Op /\ UNCHANGED <<rotation, server>>
    BY <1>2 DEF RewriteAdd, Invariant, TypeOK
  <2> HIDE DEF call
  <2> QED BY <2>1, <2>2, <2>4, <2>6, <2>7, CommitStep
<1>3. CASE ~task[t].fresh
  <2>1. CASE LastAttempt(task[t])
    BY <1>3, <2>1, EndedStep DEF RewriteAdd
  <2>2. CASE ~LastAttempt(task[t])
    <3> DEFINE call == Retried(task[t], "reload")
    <3>1. call \in Call /\ call.at = "reload"
      BY <1>1, <2>2, RetriedTyped DEF Places
    <3>2. Goes(t, call) /\ UNCHANGED <<disk, rotation, server, written>>
      BY <1>3, <2>2 DEF RewriteAdd
    <3> HIDE DEF call
    <3> QED BY <3>1, <3>2, PlainStep
  <2> QED BY <2>1, <2>2
<1> QED BY <1>2, <1>3

(* The server numbered a batch: the journal and the proven epochs grow.    *)
LEMMA SubmittedStep ==
  ASSUME Invariant, NEW t \in Task, task[t].at = "submit", Accepts(task[t]),
         server' = [server EXCEPT !.journal = server.journal \cup ToSet(task[t].batch),
                                  !.proven = server.proven \cup {server.epoch}],
         NEW call \in Call, Goes(t, call), CallBacked(call, server'),
         UNCHANGED <<disk, rotation, written>>
  PROVE  Step
<1>1. /\ task \in [Task -> Call] /\ task[t] \in Call
      /\ server \in [epoch : Epoch, journal : SUBSET Op, staged : BOOLEAN,
                     wrapped : SUBSET Epoch, proven : SUBSET Epoch]
  BY DEF Invariant, TypeOK
<1>2. ToSet(task[t].batch) \subseteq Op
  <2>1. task[t].batch \in Seq(Op)
    BY <1>1 DEF Call
  <2> QED BY <2>1 DEF ToSet
<1>3. /\ server' \in [epoch : Epoch, journal : SUBSET Op, staged : BOOLEAN,
                      wrapped : SUBSET Epoch, proven : SUBSET Epoch]
      /\ server'.epoch = server.epoch /\ server'.staged = server.staged
      /\ server.journal \subseteq server'.journal
      /\ server.proven \subseteq server'.proven
  BY <1>1, <1>2
<1>4. /\ task' \in [Task -> Call] /\ task'[t] = call
      /\ \A u \in Task : u # t => task'[u] = task[u]
  BY <1>1, TaskUpdated
<1>5. TypeOK'
  BY <1>3, <1>4 DEF Invariant, TypeOK
<1>6. Backed'
  BY <1>3, <1>4 DEF Invariant, Backed, CallBacked
<1>7. (LiveIsProven /\ disk.key <= server.epoch /\ Leading)'
  BY <1>3 DEF Invariant, LiveIsProven, Leading
<1>8. KeepsQueue /\ SparesKey
  BY SameDisk
<1> QED BY <1>5, <1>6, <1>7, <1>8 DEF Step, Invariant

LEMMA SubmitAcceptedStep ==
  ASSUME Invariant, NEW t \in Task, SubmitAccepted(t)
  PROVE  Step
<1> DEFINE call == [task[t] EXCEPT !.at = "confirm"]
<1>1. task[t] \in Call
  BY DEF Invariant, TypeOK
<1>2. call \in Call /\ call.key = task[t].key /\ call.batch = task[t].batch
  BY <1>1 DEF Call, Places
<1>3. task[t].key = server.epoch /\ Accepts(task[t]) /\ task[t].at = "submit"
  BY DEF SubmitAccepted, Accepts
<1>4. /\ server' = [server EXCEPT !.journal = server.journal \cup ToSet(task[t].batch),
                                  !.proven = server.proven \cup {server.epoch}]
      /\ Goes(t, call) /\ UNCHANGED <<disk, rotation, written>>
  BY DEF SubmitAccepted
<1> HIDE DEF call
<1>5. server'.journal = server.journal \cup ToSet(task[t].batch)
      /\ server'.proven = server.proven \cup {server.epoch}
  BY <1>4 DEF Invariant, TypeOK
<1>6. CallBacked(call, server')
  BY <1>2, <1>3, <1>5 DEF CallBacked
<1> QED BY <1>2, <1>3, <1>4, <1>6, SubmittedStep

LEMMA SubmitUnansweredStep ==
  ASSUME Invariant, NEW t \in Task, SubmitUnanswered(t)
  PROVE  Step
<1> DEFINE call == Ended(t, FALSE)
<1>1. call \in Call /\ call.at \in {"accept", "report"}
  BY EndedTyped DEF Invariant
<1>2. /\ server' = [server EXCEPT !.journal = server.journal \cup ToSet(task[t].batch),
                                  !.proven = server.proven \cup {server.epoch}]
      /\ Goes(t, call) /\ UNCHANGED <<disk, rotation, written>>
      /\ task[t].at = "submit" /\ Accepts(task[t])
  BY DEF SubmitUnanswered
<1> HIDE DEF call
<1>3. CallBacked(call, server')
  BY <1>1 DEF CallBacked
<1> QED BY <1>1, <1>2, <1>3, SubmittedStep

(* Only what the server numbered leaves the queue, however long ago the    *)
(* answer came.                                                            *)
LEMMA ConfirmStep ==
  ASSUME Invariant, NEW t \in Task, Confirm(t)
  PROVE  Step
<1> DEFINE gone == Confirmed(task[t]) \cap OpsIn(disk.outbox)
           place == IF gone = {} THEN "open" ELSE "mark"
           call == [task[t] EXCEPT !.at = place, !.batch = <<>>]
<1>1. disk \in Disk /\ task[t] \in Call
  BY DEF Invariant, TypeOK
<1>2. call \in Call /\ call.at \in {"open", "mark"} /\ call.key = task[t].key
  <2>1. <<>> \in Seq(Op) /\ place \in Places
    BY DEF Places
  <2> HIDE DEF place
  <2>2. call \in Call /\ call.at = place /\ call.key = task[t].key
    BY <1>1, <2>1 DEF Call
  <2> QED BY <2>2 DEF place
<1>3. Goes(t, call) /\ UNCHANGED <<rotation, server, written>>
  BY DEF Confirm
<1>4. disk' = [disk EXCEPT !.outbox = Without(disk.outbox, gone)]
  BY DEF Confirm
<1>5. task[t].key \in server.proven /\ gone \subseteq server.journal
  BY DEF Confirm, Confirmed, Invariant, Backed, CallBacked
<1> HIDE DEF call, gone
<1>6. /\ disk' \in Disk /\ disk'.key = disk.key /\ disk'.retired = disk.retired
      /\ disk'.mark = disk.mark /\ OpsIn(disk'.outbox) = OpsIn(disk.outbox) \ gone
  BY <1>1, <1>4, Removed
<1>7. Invariant'
  <2>1. CallBacked(call, server)
    BY <1>2, <1>5 DEF CallBacked
  <2>2. /\ disk'.key <= server.epoch
        /\ disk'.mark.live => disk'.mark.epoch \in server.proven
    BY <1>6 DEF Invariant, LiveIsProven
  <2> QED BY <1>2, <1>3, <1>6, <2>1, <2>2, DiskStep
<1>8. KeepsQueue
  BY <1>3, <1>5, <1>6 DEF KeepsQueue
<1>9. SparesKey
  BY <1>6 DEF SparesKey, Epoch, Erased
<1> QED BY <1>7, <1>8, <1>9 DEF Step

(* The mark is put on an epoch this call saw proven.                       *)
LEMMA MarkStep ==
  ASSUME Invariant, NEW t \in Task, Mark(t)
  PROVE  Step
<1>1. disk \in Disk /\ task[t] \in Call
  BY DEF Invariant, TypeOK
<1>2. CASE RecordAhead(task[t])
  BY <1>2, EndedStep DEF Mark
<1>3. CASE ~RecordAhead(task[t])
  <2> DEFINE call == [task[t] EXCEPT !.at = "open"]
             mark == [epoch |-> task[t].key, live |-> TRUE]
  <2>1. call \in Call /\ call.at = "open"
    BY <1>1 DEF Call, Places
  <2>2. mark \in [epoch : Epoch, live : BOOLEAN] /\ mark.epoch \in server.proven
    BY <1>1 DEF Call, Mark, Invariant, Backed, CallBacked
  <2>3. Goes(t, call) /\ UNCHANGED <<rotation, server, written>>
        /\ disk' = [disk EXCEPT !.mark = mark]
    BY <1>3 DEF Mark, LiveMark
  <2> HIDE DEF mark, call
  <2>4. /\ disk' \in Disk /\ disk'.key = disk.key /\ disk'.retired = disk.retired
        /\ disk'.mark = mark /\ disk'.outbox = disk.outbox
    BY <1>1, <2>2, <2>3 DEF Disk
  <2>5. CallBacked(call, server)
    BY <2>1 DEF CallBacked
  <2>6. Invariant'
    BY <2>1, <2>2, <2>3, <2>4, <2>5, DiskStep DEF Invariant
  <2> QED BY <2>4, <2>6, SameDisk DEF Step
<1> QED BY <1>2, <1>3

LEMMA OpenStep ==
  ASSUME Invariant, NEW t \in Task, Open(t)
  PROVE  Step
<1> DEFINE next == IF disk.cursor = task[t].key THEN "pull" ELSE "barrier"
           moved == Listed(task[t], Len(disk.outbox), next)
           on == [task[t] EXCEPT !.at = next]
<1>1. disk \in Disk /\ task[t] \in Call /\ Len(disk.outbox) \in Nat
  BY DEF Invariant, TypeOK, Disk
<1>2. next \in {"barrier", "pull"}
  OBVIOUS
<1> HIDE DEF next
<1>3. moved \in Call /\ moved.at \in {"remove", "barrier", "pull"}
  <2>1. next \in {"submit", "barrier", "pull"} /\ TypeOK
    BY <1>2 DEF Invariant
  <2>2. moved \in Call /\ moved.at \in {"remove", next}
    BY <1>1, <2>1, ListedTyped
  <2> HIDE DEF moved
  <2> QED BY <1>2, <2>2
<1>4. on \in Call /\ on.at \in {"barrier", "pull"}
  BY <1>1, <1>2 DEF Call, Places
<1>5. /\ Goes(t, moved) \/ Goes(t, on) \/ Goes(t, Ended(t, TRUE))
      /\ UNCHANGED <<disk, rotation, server, written>>
  BY DEF Open, next
<1> HIDE DEF moved, on
<1> QED BY <1>3, <1>4, <1>5, PlainStep, EndedStep

LEMMA BarrierStep ==
  ASSUME Invariant, NEW t \in Task, Barrier(t)
  PROVE  Step
<1>1. disk \in Disk /\ task[t] \in Call
  BY DEF Invariant, TypeOK
<1>2. CASE RecordAhead(task[t])
  BY <1>2, EndedStep DEF Barrier
<1>3. CASE ~RecordAhead(task[t])
  <2> DEFINE call == [task[t] EXCEPT !.at = "pull"]
             mark == HeldMark(task[t])
  <2>1. call \in Call /\ call.at = "pull"
    BY <1>1 DEF Call, Places
  <2>2. mark \in [epoch : Epoch, live : BOOLEAN]
        /\ (mark.live => mark.epoch \in server.proven)
    BY <1>1 DEF Call, Disk, HeldMark, Invariant, LiveIsProven
  <2>3. Goes(t, call) /\ UNCHANGED <<rotation, server, written>>
        /\ disk' = [disk EXCEPT !.cursor = task[t].key, !.mark = mark]
    BY <1>3 DEF Barrier
  <2> HIDE DEF mark, call
  <2>4. /\ disk' \in Disk /\ disk'.key = disk.key /\ disk'.retired = disk.retired
        /\ disk'.mark = mark /\ disk'.outbox = disk.outbox
    <3>1. task[t].key \in Epoch
      BY <1>1 DEF Call
    <3> QED BY <1>1, <2>2, <2>3, <3>1 DEF Disk
  <2>5. CallBacked(call, server)
    BY <2>1 DEF CallBacked
  <2>6. Invariant'
    BY <2>1, <2>2, <2>3, <2>4, <2>5, DiskStep DEF Invariant
  <2> QED BY <2>4, <2>6, SameDisk DEF Step
<1> QED BY <1>2, <1>3

LEMMA FoldStep ==
  ASSUME Invariant, NEW t \in Task, Fold(t)
  PROVE  Step
<1> DEFINE call == Ended(t, FALSE)
<1>1. call \in Call /\ call.at \in {"accept", "report"}
  BY EndedTyped DEF Invariant
<1>2. disk \in Disk /\ task[t].key \in Epoch
  BY DEF Invariant, TypeOK, Call
<1>3. /\ disk' = [disk EXCEPT !.cursor = task[t].key] /\ Commits(t, call)
      /\ UNCHANGED <<rotation, server, written>>
  BY DEF Fold
<1> HIDE DEF call
<1>4. /\ disk' \in Disk /\ disk'.key = disk.key /\ disk'.retired = disk.retired
      /\ disk'.mark = disk.mark /\ disk'.outbox = disk.outbox
  BY <1>2, <1>3 DEF Disk
<1>5. CallBacked(call, server)
  BY <1>1 DEF CallBacked
<1>6. written' \subseteq Op
  BY <1>3 DEF Invariant, TypeOK
<1> QED BY <1>1, <1>3, <1>4, <1>5, <1>6, CommitStep

(* A new engine, for the newest epoch a wrap of this device leads to.      *)
LEMMA AcceptStep ==
  ASSUME Invariant, NEW t \in Task, Accept(t)
  PROVE  Step
<1>1. disk \in Disk /\ task[t] \in Call
  BY DEF Invariant, TypeOK
<1>2. ASSUME NEW e \in Epoch, e <= server.epoch,
             disk' = [disk EXCEPT !.key = e, !.retired = disk.key],
             Goes(t, [EngineOf(e, disk.key) EXCEPT !.at = "push", !.second = TRUE]),
             UNCHANGED <<rotation, server, written>>
      PROVE  Step
  <2> DEFINE call == [EngineOf(e, disk.key) EXCEPT !.at = "push", !.second = TRUE]
  <2>1. call \in Call /\ call.at = "push"
    <3> DEFINE engine == EngineOf(e, disk.key)
    <3>1. engine \in Call
      BY EngineTyped
    <3> HIDE DEF engine
    <3>2. [engine EXCEPT !.at = "push", !.second = TRUE] \in Call
          /\ [engine EXCEPT !.at = "push", !.second = TRUE].at = "push"
      BY <3>1 DEF Call, Places
    <3> QED BY <3>2 DEF engine
  <2>2. CallBacked(call, server)
    BY <2>1 DEF CallBacked
  <2>3. /\ disk' \in Disk /\ disk'.key = e /\ disk'.retired = disk.key
        /\ disk'.mark = disk.mark /\ disk'.outbox = disk.outbox /\ disk.key \in Epoch
    BY <1>1, <1>2 DEF Disk
  <2> HIDE DEF call
  <2>4. Goes(t, call)
    BY <1>2 DEF call
  <2>5. Invariant'
    BY <1>2, <2>1, <2>2, <2>3, <2>4, DiskStep DEF Invariant, LiveIsProven
  <2> QED BY <2>3, <2>5, SameDisk DEF Step
<1>3. CASE /\ Goes(t, [task[t] EXCEPT !.at = "report"])
           /\ UNCHANGED <<disk, rotation, server, written>>
  <2> DEFINE call == [task[t] EXCEPT !.at = "report"]
  <2>1. call \in Call /\ call.at = "report"
    BY <1>1 DEF Call, Places
  <2>2. Goes(t, call)
    BY <1>3
  <2> HIDE DEF call
  <2> QED BY <1>3, <2>1, <2>2, PlainStep
<1> QED BY <1>2, <1>3 DEF Accept, Reachable

(* A report that lets the key go has read that its epoch is live.          *)
LEMMA ReportStep ==
  ASSUME Invariant, NEW t \in Task, Report(t)
  PROVE  Step
<1>1. task[t] \in Call /\ UNCHANGED <<disk, rotation, server, written>>
  BY DEF Invariant, TypeOK, Report
<1>2. CASE MayForget(task[t])
  <2> DEFINE call == [task[t] EXCEPT !.at = "forget"]
  <2>1. call \in Call /\ call.at = "forget" /\ call.key = task[t].key
    BY <1>1 DEF Call, Places
  <2>2. task[t].key \in server.proven
    BY <1>2 DEF MayForget, HeldMark, Invariant, LiveIsProven
  <2>3. CallBacked(call, server)
    BY <2>1, <2>2 DEF CallBacked
  <2>4. Goes(t, call)
    BY <1>2 DEF Report
  <2> HIDE DEF call
  <2> QED BY <1>1, <2>1, <2>3, <2>4, CallStep
<1>3. CASE ~MayForget(task[t])
  <2>1. Goes(t, IdleCall) /\ IdleCall.at = "idle"
    BY <1>3 DEF Report, IdleCall
  <2> QED BY <1>1, <2>1, IdleCallTyped, PlainStep
<1> QED BY <1>2, <1>3

(* What is forgotten is older than the engine's epoch, and that is proven. *)
LEMMA ForgetStep ==
  ASSUME Invariant, NEW t \in Task, Forget(t)
  PROVE  Step
<1> DEFINE left == IF disk.retired \in 1 .. task[t].key - 1 THEN Erased ELSE disk.retired
<1>1. disk \in Disk /\ task[t] \in Call /\ task[t].key \in server.proven
  BY DEF Invariant, TypeOK, Backed, CallBacked, Forget
<1>2. left \in Epoch \cup {None, Erased}
  BY <1>1 DEF Disk
<1>3. /\ disk' = [disk EXCEPT !.retired = left] /\ Goes(t, IdleCall)
      /\ UNCHANGED <<rotation, server, written>>
  BY DEF Forget
<1>4. disk.retired \in Epoch /\ left = Erased =>
        task[t].key > disk.retired
  BY <1>1 DEF Call, Epoch, Erased
<1> HIDE DEF left
<1>5. /\ disk' \in Disk /\ disk'.key = disk.key /\ disk'.retired = left
      /\ disk'.mark = disk.mark /\ disk'.outbox = disk.outbox
  BY <1>1, <1>2, <1>3 DEF Disk
<1>6. CallBacked(IdleCall, server)
  BY DEF CallBacked, IdleCall
<1>7. Invariant'
  BY <1>3, <1>5, <1>6, IdleCallTyped, DiskStep DEF Invariant, LiveIsProven
<1>8. KeepsQueue
  BY <1>5 DEF KeepsQueue
<1>9. SparesKey
  BY <1>1, <1>4, <1>5 DEF SparesKey
<1> QED BY <1>7, <1>8, <1>9 DEF Step

-----------------------------------------------------------------------------
(* Rotations, the sweep and a crash.                                       *)

RotationType ==
  [at : {"idle", "declare", "upload", "settle", "switch"}, key : Epoch, moved : SUBSET Op]

ServerType ==
  [epoch : Epoch, journal : SUBSET Op, staged : BOOLEAN,
   wrapped : SUBSET Epoch, proven : SUBSET Epoch]

LEMMA NoRotationTyped == NoRotation \in RotationType /\ NoRotation.at = "idle"
  BY OutboxAssumption DEF NoRotation, RotationType, Epoch

(* Steps of the server and of the rotation, the disk and the calls apart.  *)
LEMMA RotationStep ==
  ASSUME Invariant, UNCHANGED <<disk, task, written>>,
         rotation' \in RotationType, server' \in ServerType,
         server.epoch <= server'.epoch, server.journal \subseteq server'.journal,
         server.proven \subseteq server'.proven, Leading'
  PROVE  Step
<1>1. TypeOK'
  BY DEF Invariant, TypeOK, RotationType, ServerType
<1>2. Backed'
  BY DEF Invariant, Backed, CallBacked
<1>3. (LiveIsProven /\ disk.key <= server.epoch)'
  BY DEF Invariant, TypeOK, LiveIsProven, Disk, ServerType, Epoch
<1>4. KeepsQueue /\ SparesKey
  BY SameDisk
<1> QED BY <1>1, <1>2, <1>3, <1>4 DEF Step, Invariant

LEMMA ForeignRotationStep ==
  ASSUME Invariant, ForeignRotation
  PROVE  Step
<1>1. server \in ServerType /\ rotation \in RotationType
  BY DEF Invariant, TypeOK, ServerType, RotationType
<1>2. server.epoch + 1 \in Epoch /\ server.epoch \in Nat
  BY <1>1, OutboxAssumption DEF ForeignRotation, ServerType, Epoch
<1>3. /\ server' \in ServerType /\ server'.epoch = server.epoch + 1
      /\ server'.journal = server.journal /\ server'.proven = server.proven
      /\ server'.staged = FALSE /\ rotation' = rotation
  BY <1>1, <1>2 DEF ForeignRotation, ServerType
<1>4. Leading'
  BY <1>1, <1>2, <1>3, OutboxAssumption DEF Invariant, Leading, RotationType, Epoch
<1>5. UNCHANGED <<disk, task, written>> /\ server.epoch <= server'.epoch
  BY <1>2, <1>3 DEF ForeignRotation
<1> QED BY <1>1, <1>3, <1>4, <1>5, RotationStep

LEMMA RotationSnapshotStep ==
  ASSUME Invariant, RotationSnapshot
  PROVE  Step
<1> DEFINE own == {v.op : v \in {w \in ToSet(disk.outbox) : w.epoch = disk.key}}
<1>1. server \in ServerType /\ disk \in Disk
  BY DEF Invariant, TypeOK, ServerType
<1>2. own \subseteq Op
  <2>1. \A i \in DOMAIN disk.outbox : disk.outbox[i] \in Queued
    BY <1>1 DEF Disk
  <2> QED BY <2>1 DEF ToSet, Queued
<1>3. rotation' = [at |-> "declare", key |-> disk.key, moved |-> own]
      /\ server' = server /\ UNCHANGED <<disk, task, written>>
  BY DEF RotationSnapshot
<1> HIDE DEF own
<1>4. rotation' \in RotationType
  BY <1>1, <1>2, <1>3 DEF RotationType, Disk
<1>5. disk.key < MaxEpoch
  BY <1>1, OutboxAssumption DEF RotationSnapshot, Invariant, Disk, ServerType, Epoch
<1>6. Leading'
  BY <1>3, <1>5 DEF Leading
<1>7. server.epoch <= server'.epoch
  BY <1>1, <1>3 DEF ServerType, Epoch
<1> QED BY <1>1, <1>3, <1>4, <1>6, <1>7, RotationStep

(* Clearing or setting the staged flag, with or without the end of the     *)
(* attempt.                                                                *)
LEMMA StagingStep ==
  ASSUME Invariant, UNCHANGED <<disk, task, written>>, NEW staged \in BOOLEAN,
         server' = [server EXCEPT !.staged = staged], rotation' \in RotationType,
         Leading'
  PROVE  Step
<1>1. server \in ServerType
  BY DEF Invariant, TypeOK, ServerType
<1>2. /\ server' \in ServerType /\ server'.epoch = server.epoch
      /\ server'.journal = server.journal /\ server'.proven = server.proven
  BY <1>1 DEF ServerType
<1>3. server.epoch <= server'.epoch
  BY <1>1, <1>2 DEF ServerType, Epoch
<1> QED BY <1>2, <1>3, RotationStep

LEMMA RotationDeclareStep ==
  ASSUME Invariant, RotationDeclare
  PROVE  Step
<1>1. server \in ServerType /\ rotation \in RotationType /\ UNCHANGED <<disk, task, written>>
  BY DEF Invariant, TypeOK, ServerType, RotationType, RotationDeclare
<1>2. CASE ~server.staged /\ rotation.key = server.epoch
  <2>1. /\ server' = [server EXCEPT !.staged = TRUE]
        /\ rotation' = [rotation EXCEPT !.at = "upload"] /\ rotation.at = "declare"
    BY <1>2 DEF RotationDeclare
  <2>2. /\ rotation' \in RotationType /\ rotation'.at = "upload"
        /\ rotation'.key = rotation.key /\ server'.epoch = server.epoch
    BY <1>1, <2>1 DEF RotationType, ServerType
  <2>3. Leading'
    BY <1>2, <2>1, <2>2 DEF Invariant, Leading
  <2> QED BY <1>1, <2>1, <2>2, <2>3, StagingStep
<1>3. CASE ~(~server.staged /\ rotation.key = server.epoch)
  <2>1. server' = [server EXCEPT !.staged = FALSE] /\ rotation' = NoRotation
    BY <1>3 DEF RotationDeclare
  <2>2. Leading'
    BY <2>1, NoRotationTyped DEF Leading
  <2> QED BY <1>1, <2>1, <2>2, NoRotationTyped, StagingStep
<1> QED BY <1>2, <1>3

(* The switch, answered or not.                                            *)
LEMMA SwitchedStep ==
  ASSUME Invariant, rotation.at = "upload", server.staged, server' = Switched,
         rotation' = [rotation EXCEPT !.at = "settle"] \/ rotation' = NoRotation,
         UNCHANGED <<disk, task, written>>
  PROVE  Step
<1>1. server \in ServerType /\ rotation \in RotationType
  BY DEF Invariant, TypeOK, ServerType, RotationType
<1>2. /\ server.epoch = rotation.key /\ server.epoch + 1 \in Epoch
      /\ server.epoch \in Nat
  BY <1>1, OutboxAssumption DEF Invariant, Leading, ServerType, RotationType, Epoch
<1>3. /\ server' \in ServerType /\ server'.epoch = server.epoch + 1
      /\ server'.journal = server.journal \cup rotation.moved
      /\ server'.proven = server.proven \cup {server.epoch + 1}
      /\ server'.staged = FALSE
  BY <1>1, <1>2 DEF Switched, ServerType, RotationType
<1>4. CASE rotation' = [rotation EXCEPT !.at = "settle"]
  <2>1. /\ rotation' \in RotationType /\ rotation'.at = "settle"
        /\ rotation'.key = rotation.key /\ rotation'.moved = rotation.moved
    BY <1>1, <1>4 DEF RotationType
  <2>2. Leading'
    BY <1>2, <1>3, <2>1 DEF Invariant, Leading
  <2> QED BY <1>2, <1>3, <2>1, <2>2, RotationStep
<1>5. CASE rotation' = NoRotation
  <2>1. Leading'
    BY <1>5, NoRotationTyped DEF Leading
  <2> QED BY <1>2, <1>3, <1>5, <2>1, NoRotationTyped, RotationStep
<1> QED BY <1>4, <1>5

LEMMA RotationFailedStep ==
  ASSUME Invariant, RotationFailed
  PROVE  Step
<1>1. Leading'
  BY NoRotationTyped DEF RotationFailed, Leading
<1> QED BY <1>1, NoRotationTyped, StagingStep DEF RotationFailed

LEMMA SweepStep ==
  ASSUME Invariant, Sweep
  PROVE  Step
<1>1. rotation' \in RotationType /\ server \in ServerType
  BY DEF Sweep, Invariant, TypeOK, RotationType, ServerType
<1>2. Leading'
  BY <1>1 DEF Sweep, Invariant, Leading, ServerType
<1> QED BY <1>1, <1>2, StagingStep DEF Sweep

(* A rotation's own changes of the disk.                                   *)
LEMMA RotationDiskStep ==
  ASSUME Invariant, UNCHANGED <<task, server, written>>, disk' \in Disk,
         disk'.key <= server.epoch, disk'.mark.live => disk'.mark.epoch \in server.proven,
         rotation' \in RotationType, Leading'
  PROVE  Invariant'
<1>1. TypeOK'
  BY DEF Invariant, TypeOK, RotationType
<1>2. Backed'
  BY DEF Invariant, Backed
<1> QED BY <1>1, <1>2 DEF Invariant, LiveIsProven

(* What leaves the queue was carried: the journal has it.                  *)
LEMMA RotationSettleStep ==
  ASSUME Invariant, RotationSettle
  PROVE  Step
<1>1. /\ disk \in Disk /\ rotation \in RotationType
      /\ rotation.at = "settle" /\ UNCHANGED <<task, server, written>>
      /\ disk' = [disk EXCEPT !.outbox = Without(disk.outbox, rotation.moved)]
      /\ rotation' = [rotation EXCEPT !.at = "switch"]
  BY DEF Invariant, TypeOK, RotationType, RotationSettle
<1>2. /\ disk' \in Disk /\ disk'.key = disk.key /\ disk'.retired = disk.retired
      /\ disk'.mark = disk.mark
      /\ OpsIn(disk'.outbox) = OpsIn(disk.outbox) \ rotation.moved
  BY <1>1, Removed
<1>3. /\ rotation' \in RotationType /\ rotation'.at = "switch"
      /\ rotation'.key = rotation.key /\ rotation'.moved = rotation.moved
  BY <1>1 DEF RotationType
<1>4. Leading'
  BY <1>1, <1>3 DEF Invariant, Leading
<1>5. Invariant'
  BY <1>1, <1>2, <1>3, <1>4, RotationDiskStep DEF Invariant, LiveIsProven
<1>6. KeepsQueue
  BY <1>1, <1>2 DEF KeepsQueue, Invariant, Leading
<1>7. SparesKey
  BY <1>2 DEF SparesKey, Epoch, Erased
<1> QED BY <1>5, <1>6, <1>7 DEF Step

(* The new epoch's records: it is in force and proven by the carried       *)
(* journal.                                                                *)
LEMMA RotationSwitchStep ==
  ASSUME Invariant, RotationSwitch
  PROVE  Step
<1> DEFINE e == rotation.key + 1
           mark == [epoch |-> e, live |-> TRUE]
<1>1. disk \in Disk /\ rotation \in RotationType
  BY DEF Invariant, TypeOK, RotationType
<1>2. e \in Epoch /\ e \in server.proven /\ e <= server.epoch
  BY <1>1, OutboxAssumption DEF RotationSwitch, Invariant, Leading, RotationType, Epoch
<1>3. mark \in [epoch : Epoch, live : BOOLEAN] /\ mark.epoch = e
  BY <1>2
<1>4. /\ disk' = [disk EXCEPT !.key = e, !.cursor = e, !.mark = mark]
      /\ rotation' = NoRotation /\ UNCHANGED <<task, server, written>>
  BY DEF RotationSwitch
<1> HIDE DEF e, mark
<1>5. /\ disk' \in Disk /\ disk'.key = e /\ disk'.retired = disk.retired
      /\ disk'.mark = mark /\ disk'.outbox = disk.outbox
  BY <1>1, <1>2, <1>3, <1>4 DEF Disk
<1>6. Leading'
  BY <1>4, NoRotationTyped DEF Leading
<1>7. Invariant'
  BY <1>2, <1>3, <1>4, <1>5, <1>6, NoRotationTyped, RotationDiskStep
<1> QED BY <1>5, <1>7, SameDisk DEF Step

LEMMA CrashStep ==
  ASSUME Invariant, Crash
  PROVE  Step
<1>1. /\ task' = [t \in Task |-> IdleCall] /\ rotation' = NoRotation
      /\ UNCHANGED <<disk, server, written>>
  BY DEF Crash
<1>2. TypeOK'
  BY <1>1, IdleCallTyped, NoRotationTyped DEF Invariant, TypeOK, RotationType
<1>3. Backed'
  BY <1>1 DEF Backed, CallBacked, IdleCall
<1>4. Leading'
  BY <1>1, NoRotationTyped DEF Leading
<1>5. Invariant'
  BY <1>1, <1>2, <1>3, <1>4 DEF Invariant, LiveIsProven
<1> QED BY <1>1, <1>5, SameDisk DEF Step

-----------------------------------------------------------------------------
(* The induction.                                                          *)

LEMMA InitInvariant == Init => Invariant
<1> SUFFICES ASSUME Init PROVE Invariant
  OBVIOUS
<1>1. 1 \in Epoch /\ 1 \in Nat
  BY OutboxAssumption DEF Epoch
<1>2. disk \in Disk
  BY <1>1 DEF Init, Disk
<1>3. /\ task \in [Task -> Call] /\ \A t \in Task : task[t].at = "idle"
      /\ rotation \in RotationType /\ rotation.at = "idle" /\ server \in ServerType
  BY <1>1, IdleCallTyped, NoRotationTyped DEF Init, IdleCall, ServerType
<1>4. TypeOK
  BY <1>2, <1>3 DEF Init, TypeOK, RotationType, ServerType
<1>5. LiveIsProven /\ disk.key <= server.epoch
  BY DEF Init, LiveIsProven
<1> QED BY <1>3, <1>4, <1>5 DEF Invariant, Backed, CallBacked, Leading

(* A round's steps, one case per await of syncOnce and of what follows it. *)
LEMMA RoundStep ==
  ASSUME Invariant, NEW t \in Task,
         Round(t) \/ SubmitUnanswered(t) \/ Unreachable(t)
  PROVE  Step
<1>1. CASE List(t) BY <1>1, ListStep
<1>2. CASE RewriteRemove(t) BY <1>2, RewriteRemoveStep
<1>3. CASE LoadForRewrite(t) BY <1>3, LoadForRewriteStep
<1>4. CASE RewriteAdd(t) BY <1>4, RewriteAddStep
<1>5. CASE SubmitAccepted(t) BY <1>5, SubmitAcceptedStep
<1>6. CASE SubmitRefused(t) BY <1>6, SubmitRefusedStep
<1>7. CASE Confirm(t) BY <1>7, ConfirmStep
<1>8. CASE Mark(t) BY <1>8, MarkStep
<1>9. CASE Open(t) BY <1>9, OpenStep
<1>10. CASE Barrier(t) BY <1>10, BarrierStep
<1>11. CASE Fetch(t) BY <1>11, FetchStep
<1>12. CASE Fold(t) BY <1>12, FoldStep
<1>13. CASE Accept(t) BY <1>13, AcceptStep
<1>14. CASE Report(t) BY <1>14, ReportStep
<1>15. CASE Forget(t) BY <1>15, ForgetStep
<1>16. CASE SubmitUnanswered(t) BY <1>16, SubmitUnansweredStep
<1>17. CASE Unreachable(t) BY <1>17, UnreachableStep
<1> QED BY <1>1, <1>2, <1>3, <1>4, <1>5, <1>6, <1>7, <1>8, <1>9, <1>10, <1>11, <1>12,
           <1>13, <1>14, <1>15, <1>16, <1>17 DEF Round

LEMMA RotatingStep ==
  ASSUME Invariant, Rotating
  PROVE  Step
<1>1. CASE RotationSnapshot BY <1>1, RotationSnapshotStep
<1>2. CASE RotationDeclare BY <1>2, RotationDeclareStep
<1>3. CASE RotationComplete BY <1>3, SwitchedStep DEF RotationComplete
<1>4. CASE RotationUnanswered BY <1>4, SwitchedStep DEF RotationUnanswered
<1>5. CASE RotationFailed BY <1>5, RotationFailedStep
<1>6. CASE RotationSettle BY <1>6, RotationSettleStep
<1>7. CASE RotationSwitch BY <1>7, RotationSwitchStep
<1> QED BY <1>1, <1>2, <1>3, <1>4, <1>5, <1>6, <1>7 DEF Rotating

LEMMA NextStep ==
  ASSUME Invariant, Next
  PROVE  Step
<1>1. CASE StartRound BY <1>1, StartRoundStep
<1>2. ASSUME NEW w \in Writer, StartWrite(w) \/ LoadForWrite(w) PROVE Step
  BY <1>2, StartWriteStep, LoadForWriteStep
<1>3. ASSUME NEW w \in Writer, NEW o \in Op, CommitWrite(w, o) PROVE Step
  BY <1>3, CommitWriteStep
<1>4. ASSUME NEW t \in Task, Round(t) \/ SubmitUnanswered(t) \/ Unreachable(t) PROVE Step
  BY <1>4, RoundStep
<1>5. CASE ForeignRotation BY <1>5, ForeignRotationStep
<1>6. CASE Rotating BY <1>6, RotatingStep
<1>7. CASE Sweep BY <1>7, SweepStep
<1>8. CASE Crash BY <1>8, CrashStep
<1> QED BY <1>1, <1>2, <1>3, <1>4, <1>5, <1>6, <1>7, <1>8 DEF Next

LEMMA StutterStep ==
  ASSUME Invariant, UNCHANGED vars
  PROVE  Invariant'
  BY DEF vars, Invariant, TypeOK, LiveIsProven, Backed, Leading

-----------------------------------------------------------------------------
(* A call that read the disk or was answered by the server, and acts on it *)
(* any number of other calls', rotations' and crashes' steps later, acts   *)
(* on something that is still true.                                        *)
THEOREM OutboxInvariant == Spec => []Invariant
<1>1. Invariant /\ [Next]_vars => Invariant'
  BY NextStep, StutterStep DEF Step
<1> QED BY <1>1, InitInvariant, PTL DEF Spec

(* The types of the local database, the calls and the rotation.            *)
THEOREM OutboxTypeOK == Spec => []TypeOK
<1>1. Invariant => TypeOK
  BY DEF Invariant
<1> QED BY <1>1, OutboxInvariant, PTL

(* The disk says live only of an epoch the server proved to this device,   *)
(* however old the engine that writes the mark.                            *)
THEOREM OutboxLiveIsProven == Spec => []LiveIsProven
<1>1. Invariant => LiveIsProven
  BY DEF Invariant
<1> QED BY <1>1, OutboxInvariant, PTL

(* confirm, rewriteOutbox and the settling of a rotation are the only      *)
(* hands on the queue, and none lets an operation go that nobody holds.    *)
THEOREM OutboxKeptUntilNumbered == Spec => KeptUntilNumbered
<1>1. Invariant /\ [Next]_vars =>
        [\A o \in OpsIn(disk.outbox) \ OpsIn(disk'.outbox) :
           \/ o \in server'.journal
           \/ \E t \in Task : task'[t].at = "reload" /\ o \in ToSet(task'[t].moved)]_vars
  BY NextStep DEF Step, KeepsQueue
<1> QED BY <1>1, OutboxInvariant, PTL DEF Spec, KeptUntilNumbered

(* forgetRetiredKey reads the key it erases after the report that allowed  *)
(* it was made; what it erases is still older than a proven epoch.         *)
THEOREM OutboxErasedOnceProven == Spec => ErasedOnceProven
<1>1. Invariant /\ [Next]_vars =>
        [(disk.retired \in Epoch /\ disk'.retired = Erased) =>
           \E e \in server.proven : e > disk.retired]_vars
  BY NextStep DEF Step, SparesKey
<1> QED BY <1>1, OutboxInvariant, PTL DEF Spec, ErasedOnceProven
=============================================================================
