---------------------------- MODULE DeviceOutbox ----------------------------
(***************************************************************************)
(* One device and its outgoing queue (packages/sync-client/src/engine.ts,  *)
(* packages/storage/src/indexed-db.ts, apps/web-pwa/src/features/family/   *)
(* controller.ts): local writes, sync rounds that run side by side, the    *)
(* crossing of a key epoch, the forgetting of a retired key and a key      *)
(* rotation led by this very device.  Every await on the local database or *)
(* on the network ends a step.  The server is reduced to the epoch in      *)
(* force and the operations its journal holds; another device's rotation   *)
(* carries that journal over whole (SyncServer has the protocol itself).   *)
(* Envelopes are opened and sealed by epoch number: a key opens what was   *)
(* sealed under its epoch and nothing else.  Checkpoints are left out.     *)
(***************************************************************************)
EXTENDS Integers, Sequences, SequencesExt, Subsequences

CONSTANTS
  Op,            \* operations a person may write on this device
  Poll,          \* the periodic round
  Writer,        \* local writes, each followed by a round of its own
  MaxEpoch,      \* bound: key epochs of the family
  BatchSize,     \* SUBMIT_BATCH_SIZE
  MaxAttempts,   \* MAX_WRITE_ATTEMPTS
  Happens        \* what the run lets happen: "crash", "own", "foreign"

ASSUME OutboxAssumption ==
  /\ Poll \notin Writer
  /\ MaxEpoch \in Nat \ {0} /\ BatchSize \in Nat \ {0} /\ MaxAttempts \in Nat \ {0}
  /\ Happens \subseteq {"crash", "own", "foreign"}

VARIABLES
  disk,          \* the local database: queue and sync records
  task,          \* per concurrent call: the engine it holds and where it stands
  rotation,      \* performRotation on this device
  server,        \* epoch in force, journal, staging, wraps for this device
  written        \* every operation a local write was answered "saved" for

vars == <<disk, task, rotation, server, written>>

Epoch == 1 .. MaxEpoch

Task == Writer \cup {Poll}

Queued == [op : Op, epoch : Epoch]

None == 0       \* a record that was never written

Erased == -1    \* a record that holds null

Disk == [outbox : Seq(Queued), key : Epoch, retired : Epoch \cup {None, Erased},
         cursor : Epoch, mark : [epoch : Epoch, live : BOOLEAN]]

Places == {"idle", "load", "commit", "push", "remove", "reload", "add", "submit",
           "confirm", "mark", "open", "barrier", "pull", "fold", "accept", "report",
           "forget"}

(* key and old: the engine's familyKey and retiredKeys.  after: where the  *)
(* call goes on when the queue is rewritten.  fresh: nobody has committed  *)
(* since this call read the document, which is what its revision tells.    *)
Call == [at : Places, key : Epoch, old : Epoch \cup {None},
         after : {"idle", "submit", "barrier", "pull"},
         batch : Seq(Op), moved : Seq(Op), fresh : BOOLEAN, tries : 0 .. MaxAttempts - 1,
         second : BOOLEAN]

IdleCall == [at |-> "idle", key |-> 1, old |-> None, after |-> "idle", batch |-> <<>>,
             moved |-> <<>>, fresh |-> FALSE, tries |-> 0, second |-> FALSE]

NoRotation == [at |-> "idle", key |-> 1, moved |-> {}]

Init ==
  /\ disk = [outbox |-> <<>>, key |-> 1, retired |-> None, cursor |-> 1,
             mark |-> [epoch |-> 1, live |-> FALSE]]
  /\ task = [t \in Task |-> IdleCall]
  /\ rotation = NoRotation
  /\ server = [epoch |-> 1, journal |-> {}, staged |-> FALSE, wrapped |-> {1},
               proven |-> {}]
  /\ written = {}

-----------------------------------------------------------------------------
(* What a call reads and writes.                                           *)

OpsIn(queue) == {queue[i].op : i \in DOMAIN queue}

Without(queue, ops) == Picked(queue, {i \in DOMAIN queue : queue[i].op \notin ops})

(* commitWithSync adds what the queue does not hold already.               *)
With(queue, ops, epoch) ==
  LET absent == Picked(ops, {i \in DOMAIN ops : ops[i] \notin OpsIn(queue)})
  IN queue \o [i \in DOMAIN absent |-> [op |-> absent[i], epoch |-> epoch]]

OpsOf(queue) == [i \in DOMAIN queue |-> queue[i].op]

(* engineFor reads retired.keyEpoch of whatever the record holds: null,    *)
(* which is how the key is erased, makes it throw.                         *)
EngineBuilds == disk.retired # Erased

EngineOf(key, retired) ==
  [IdleCall EXCEPT !.key = key,
                   !.old = IF retired \in 1 .. key - 1 THEN retired ELSE None]

Goes(t, call) == task' = [task EXCEPT ![t] = call]

(* A saved commit changes the revision: every other call that read the     *)
(* document before it will lose its compare-and-set.                       *)
Commits(t, call) ==
  task' = [u \in Task |-> IF u = t THEN call ELSE [task[u] EXCEPT !.fresh = FALSE]]

(* A commit that lost its compare-and-set starts again from the read.      *)
Retried(call, place) == [call EXCEPT !.at = place, !.tries = @ + 1, !.fresh = FALSE]

(* One attempt too many.                                                   *)
LastAttempt_OffByOne(call) == call.tries >= MaxAttempts

LastAttempt(call) == call.tries + 1 >= MaxAttempts

(* The round is over, whatever it held in memory is gone.  The poll asks   *)
(* for a new epoch after a refusal, once; every round ends in              *)
(* refreshSyncState.                                                       *)
Ended(t, refused) ==
  [IdleCall EXCEPT !.key = task[t].key, !.old = task[t].old,
                   !.second = task[t].second,
                   !.at = IF refused /\ t = Poll /\ ~task[t].second
                          THEN "accept" ELSE "report"]

-----------------------------------------------------------------------------
(* A local write.                                                          *)

(* createBudgetJournalWriter: an engine for this write.                    *)
StartWrite(w) ==
  /\ task[w].at = "idle" /\ EngineBuilds
  /\ Goes(w, [EngineOf(disk.key, disk.retired) EXCEPT !.at = "load"])
  /\ UNCHANGED <<disk, rotation, server, written>>

LoadForWrite(w) ==
  /\ task[w].at = "load"
  /\ Goes(w, [task[w] EXCEPT !.at = "commit", !.fresh = TRUE])
  /\ UNCHANGED <<disk, rotation, server, written>>

(* enqueue: the operation, sealed under the engine's key, the document and *)
(* the journal in one transaction; afterWrite sends with the same engine.  *)
(* A write that loses every attempt is an error the person sees.           *)
CommitWrite(w, o) ==
  /\ task[w].at = "commit" /\ o \notin written
  /\ IF task[w].fresh
     THEN /\ disk' = [disk EXCEPT !.outbox = With(@, <<o>>, task[w].key)]
          /\ written' = written \cup {o}
          /\ Commits(w, [task[w] EXCEPT !.at = "push", !.fresh = FALSE, !.tries = 0])
     ELSE /\ Goes(w, IF LastAttempt(task[w]) THEN IdleCall
                     ELSE Retried(task[w], "load"))
          /\ UNCHANGED <<disk, written>>
  /\ UNCHANGED <<rotation, server>>

-----------------------------------------------------------------------------
(* A sync round: push, then pull.                                          *)

StartRound ==
  /\ task[Poll].at = "idle" /\ EngineBuilds
  /\ Goes(Poll, [EngineOf(disk.key, disk.retired) EXCEPT !.at = "push"])
  /\ UNCHANGED <<disk, rotation, server, written>>

(* rekeyOutbox on the first limit records: what is under the engine's key  *)
(* or under the retired one can be sent, the latter after a rewrite;       *)
(* anything else is stranded and stays.                                    *)
Listed(call, limit, next) ==
  LET seen == SubSeq(disk.outbox, 1, IF limit < Len(disk.outbox) THEN limit
                                     ELSE Len(disk.outbox))
      readable == Picked(seen, {i \in DOMAIN seen : seen[i].epoch \in {call.key, call.old}})
      behind == Picked(readable, {i \in DOMAIN readable : readable[i].epoch # call.key})
  IN [call EXCEPT !.after = next, !.batch = OpsOf(readable), !.moved = OpsOf(behind),
                  !.at = IF behind # <<>> THEN "remove" ELSE next]

List(t) ==
  /\ task[t].at = "push"
  /\ LET call == Listed(task[t], BatchSize, "submit")
     IN Goes(t, IF call.batch = <<>> THEN [call EXCEPT !.at = "open"] ELSE call)
  /\ UNCHANGED <<disk, rotation, server, written>>

(* rewriteOutbox: the old records are removed by a transaction of their    *)
(* own,                                                                    *)
RewriteRemove(t) ==
  /\ task[t].at = "remove"
  /\ disk' = [disk EXCEPT !.outbox = Without(@, ToSet(task[t].moved))]
  /\ Goes(t, [task[t] EXCEPT !.at = "reload", !.tries = 0])
  /\ UNCHANGED <<rotation, server, written>>

LoadForRewrite(t) ==
  /\ task[t].at = "reload"
  /\ Goes(t, [task[t] EXCEPT !.at = "add", !.fresh = TRUE])
  /\ UNCHANGED <<disk, rotation, server, written>>

(* and the re-encrypted ones are added by the next.  Nothing on disk holds *)
(* them in between: the rekey record is only ever written as null.         *)
RewriteAdd(t) ==
  /\ task[t].at = "add"
  /\ IF task[t].fresh
     THEN /\ disk' = [disk EXCEPT !.outbox = With(@, task[t].moved, task[t].key)]
          /\ Commits(t, [task[t] EXCEPT !.at = task[t].after, !.moved = <<>>,
                                        !.fresh = FALSE, !.tries = 0])
     ELSE /\ Goes(t, IF LastAttempt(task[t]) THEN Ended(t, TRUE)
                     ELSE Retried(task[t], "reload"))
          /\ UNCHANGED disk
  /\ UNCHANGED <<rotation, server, written>>

(* What the server does with a batch: it numbers what it has not, refuses  *)
(* any epoch but the one in force, and everybody while a rotation is       *)
(* staged.                                                                 *)
Accepts(call) == ~server.staged /\ call.key = server.epoch

SubmitAccepted(t) ==
  /\ task[t].at = "submit" /\ Accepts(task[t])
  /\ server' = [server EXCEPT !.journal = @ \cup ToSet(task[t].batch),
                              !.proven = @ \cup {server.epoch}]
  /\ Goes(t, [task[t] EXCEPT !.at = "confirm"])
  /\ UNCHANGED <<disk, rotation, written>>

(* The server numbered the batch and the answer is lost.                   *)
SubmitUnanswered(t) ==
  /\ task[t].at = "submit" /\ Accepts(task[t])
  /\ server' = [server EXCEPT !.journal = @ \cup ToSet(task[t].batch),
                              !.proven = @ \cup {server.epoch}]
  /\ Goes(t, Ended(t, FALSE))
  /\ UNCHANGED <<disk, rotation, written>>

SubmitRefused(t) ==
  /\ task[t].at = "submit" /\ ~Accepts(task[t])
  /\ Goes(t, Ended(t, TRUE))
  /\ UNCHANGED <<disk, rotation, server, written>>

(* The request never reached the server.                                   *)
Unreachable(t) ==
  /\ task[t].at \in {"submit", "pull"}
  /\ Goes(t, Ended(t, FALSE))
  /\ UNCHANGED <<disk, rotation, server, written>>

(* Confirming everything the queue holds, sent in this batch or not.       *)
Confirmed_WholeQueue(call) == OpsIn(disk.outbox)

(* Confirming what was rewritten on the way instead of what was sent.      *)
Confirmed_Rewritten(call) == ToSet(call.moved)

(* Only what was sent in this very batch and numbered leaves the queue.    *)
Confirmed(call) == ToSet(call.batch)

Confirm(t) ==
  /\ task[t].at = "confirm"
  /\ LET gone == Confirmed(task[t]) \cap OpsIn(disk.outbox)
     IN /\ disk' = [disk EXCEPT !.outbox = Without(@, gone)]
        /\ Goes(t, [task[t] EXCEPT !.at = IF gone = {} THEN "open" ELSE "mark",
                                   !.batch = <<>>])
  /\ UNCHANGED <<rotation, server, written>>

(* readEpoch, and what every conflict it finds does to the round.          *)
RecordAhead(call) == disk.mark.epoch > call.key

HeldMark(call) ==
  IF disk.mark.epoch = call.key THEN disk.mark
  ELSE [epoch |-> call.key, live |-> FALSE]

(* The mark put on whatever epoch the record names by now.                 *)
LiveMark_OfRecord(call) == [disk.mark EXCEPT !.live = TRUE]

LiveMark(call) == [epoch |-> call.key, live |-> TRUE]

(* The first number of an epoch proves it live.                            *)
Mark(t) ==
  /\ task[t].at = "mark"
  /\ IF RecordAhead(task[t])
     THEN Goes(t, Ended(t, TRUE)) /\ UNCHANGED disk
     ELSE /\ disk' = [disk EXCEPT !.mark = LiveMark(task[t])]
          /\ Goes(t, [task[t] EXCEPT !.at = "open"])
  /\ UNCHANGED <<rotation, server, written>>

(* openEpoch: a cursor ahead of the key stops the round; a queue whose     *)
(* head is of another epoch is moved whole; then the barrier, if the       *)
(* cursor is behind.                                                       *)
Open(t) ==
  /\ task[t].at = "open"
  /\ LET call == task[t]
         next == IF disk.cursor = call.key THEN "pull" ELSE "barrier"
     IN Goes(t, IF disk.cursor > call.key THEN Ended(t, TRUE)
                ELSE IF disk.outbox # <<>> /\ Head(disk.outbox).epoch # call.key
                     THEN Listed(call, Len(disk.outbox), next)
                     ELSE [call EXCEPT !.at = next])
  /\ UNCHANGED <<disk, rotation, server, written>>

Barrier(t) ==
  /\ task[t].at = "barrier"
  /\ IF RecordAhead(task[t])
     THEN Goes(t, Ended(t, TRUE)) /\ UNCHANGED disk
     ELSE /\ disk' = [disk EXCEPT !.cursor = task[t].key, !.mark = HeldMark(task[t])]
          /\ Goes(t, [task[t] EXCEPT !.at = "pull"])
  /\ UNCHANGED <<rotation, server, written>>

(* A fetch names the key's epoch; reading is open during a rotation.       *)
Fetch(t) ==
  /\ task[t].at = "pull"
  /\ \/ task[t].key = server.epoch /\ Goes(t, Ended(t, FALSE))
     \/ task[t].key = server.epoch /\ Goes(t, [task[t] EXCEPT !.at = "fold"])
     \/ task[t].key # server.epoch /\ Goes(t, Ended(t, TRUE))
  /\ UNCHANGED <<disk, rotation, server, written>>

(* What came is folded: the document, the journal and the cursor.          *)
Fold(t) ==
  /\ task[t].at = "fold"
  /\ disk' = [disk EXCEPT !.cursor = task[t].key]
  /\ Commits(t, Ended(t, FALSE))
  /\ UNCHANGED <<rotation, server, written>>

(* The epochs a chain of wraps for this device leads to from key.          *)
Reachable(key) == {e \in Epoch : e >= key /\ key + 1 .. e \subseteq server.wrapped}

(* acceptIncomingEpoch as far as the chain leads, then a second round with *)
(* a new engine.  The key left behind takes the place of an older one.     *)
Accept(t) ==
  /\ task[t].at = "accept"
  /\ \/ \E e \in Reachable(disk.key) :
          /\ e > disk.key /\ e <= server.epoch
          /\ e + 1 \notin Reachable(disk.key)
          /\ disk' = [disk EXCEPT !.key = e, !.retired = disk.key]
          /\ Goes(t, [EngineOf(e, disk.key) EXCEPT !.at = "push", !.second = TRUE])
     \/ /\ Reachable(disk.key) = {disk.key}
        /\ Goes(t, [task[t] EXCEPT !.at = "report"])
        /\ UNCHANGED disk
  /\ UNCHANGED <<rotation, server, written>>

(* Forgetting without the proof that the new epoch is live.                *)
MayForget_Unproven(call) == disk.outbox = <<>>

(* refreshSyncState: status throws on a record ahead of the key, and the   *)
(* retired key goes once the epoch is live and the queue empty.            *)
MayForget(call) ==
  /\ disk.cursor <= call.key /\ ~RecordAhead(call)
  /\ HeldMark(call).live /\ disk.outbox = <<>>

Report(t) ==
  /\ task[t].at = "report"
  /\ Goes(t, IF MayForget(task[t]) THEN [task[t] EXCEPT !.at = "forget"] ELSE IdleCall)
  /\ UNCHANGED <<disk, rotation, server, written>>

(* The key is read and erased after the report was made.                   *)
Forget(t) ==
  /\ task[t].at = "forget"
  /\ disk' = [disk EXCEPT !.retired = IF @ \in 1 .. task[t].key - 1 THEN Erased ELSE @]
  /\ Goes(t, IdleCall)
  /\ UNCHANGED <<rotation, server, written>>

-----------------------------------------------------------------------------
(* Key rotations.                                                          *)

(* Another device of the owner rotates: it carries the whole journal and   *)
(* wraps the new key for this device.                                      *)
ForeignRotation ==
  /\ "foreign" \in Happens /\ ~server.staged /\ server.epoch < MaxEpoch
  /\ server' = [server EXCEPT !.epoch = @ + 1, !.wrapped = @ \cup {server.epoch + 1}]
  /\ UNCHANGED <<disk, task, rotation, written>>

(* performRotation here: after its round (one that fails stops nothing)    *)
(* the key and the queue are read.                                         *)
RotationSnapshot ==
  /\ "own" \in Happens /\ rotation.at = "idle" /\ EngineBuilds
  /\ server.epoch < MaxEpoch
  /\ rotation' = [at |-> "declare", key |-> disk.key,
                  moved |-> {v.op : v \in {w \in ToSet(disk.outbox) : w.epoch = disk.key}}]
  /\ UNCHANGED <<disk, task, server, written>>

(* A refused declaration, too, ends in cancelRotation, whoever staged what *)
(* is staged.                                                              *)
RotationDeclare ==
  /\ rotation.at = "declare"
  /\ IF ~server.staged /\ rotation.key = server.epoch
     THEN /\ server' = [server EXCEPT !.staged = TRUE]
          /\ rotation' = [rotation EXCEPT !.at = "upload"]
     ELSE /\ server' = [server EXCEPT !.staged = FALSE]
          /\ rotation' = NoRotation
  /\ UNCHANGED <<disk, task, written>>

(* The carried journal, this device's queue with it, is uploaded and the   *)
(* epoch switched; no wrap is made for the device that leads.              *)
Switched ==
  [server EXCEPT !.epoch = @ + 1, !.staged = FALSE,
                 !.journal = @ \cup rotation.moved, !.proven = @ \cup {server.epoch + 1}]

RotationComplete ==
  /\ rotation.at = "upload" /\ server.staged
  /\ server' = Switched
  /\ rotation' = [rotation EXCEPT !.at = "settle"]
  /\ UNCHANGED <<disk, task, written>>

(* The server switched; this device never hears of it, and its             *)
(* cancellation finds nothing staged.                                      *)
RotationUnanswered ==
  /\ rotation.at = "upload" /\ server.staged
  /\ server' = Switched
  /\ rotation' = NoRotation
  /\ UNCHANGED <<disk, task, written>>

(* Anything before the switch fails, and the attempt is cancelled.         *)
RotationFailed ==
  /\ rotation.at = "upload"
  /\ server' = [server EXCEPT !.staged = FALSE]
  /\ rotation' = NoRotation
  /\ UNCHANGED <<disk, task, written>>

RotationSettle ==
  /\ rotation.at = "settle"
  /\ disk' = [disk EXCEPT !.outbox = Without(@, rotation.moved)]
  /\ rotation' = [rotation EXCEPT !.at = "switch"]
  /\ UNCHANGED <<task, server, written>>

(* The new key, which only this call's memory held so far, and the records *)
(* of the new epoch; the retired key's record is not touched.              *)
RotationSwitch ==
  /\ rotation.at = "switch"
  /\ LET e == rotation.key + 1
     IN disk' = [disk EXCEPT !.key = e, !.cursor = e,
                             !.mark = [epoch |-> e, live |-> TRUE]]
  /\ rotation' = NoRotation
  /\ UNCHANGED <<task, server, written>>

(* The server sweeps a rotation that makes no progress.                    *)
Sweep ==
  /\ server.staged
  /\ server' = [server EXCEPT !.staged = FALSE]
  /\ UNCHANGED <<disk, task, rotation, written>>

-----------------------------------------------------------------------------
(* The application is closed or killed: the disk is all that remains.      *)
Crash ==
  /\ "crash" \in Happens
  /\ task' = [t \in Task |-> IdleCall]
  /\ rotation' = NoRotation
  /\ UNCHANGED <<disk, server, written>>

Round(t) ==
  \/ List(t) \/ RewriteRemove(t) \/ LoadForRewrite(t) \/ RewriteAdd(t)
  \/ SubmitAccepted(t) \/ SubmitRefused(t) \/ Confirm(t) \/ Mark(t)
  \/ Open(t) \/ Barrier(t) \/ Fetch(t) \/ Fold(t)
  \/ Accept(t) \/ Report(t) \/ Forget(t)

Rotating ==
  \/ RotationSnapshot \/ RotationDeclare \/ RotationComplete \/ RotationUnanswered
  \/ RotationFailed \/ RotationSettle \/ RotationSwitch

Next ==
  \/ StartRound
  \/ \E w \in Writer : StartWrite(w) \/ LoadForWrite(w)
  \/ \E w \in Writer, o \in Op : CommitWrite(w, o)
  \/ \E t \in Task : Round(t) \/ SubmitUnanswered(t) \/ Unreachable(t)
  \/ ForeignRotation \/ Rotating \/ Sweep \/ Crash

Spec == Init /\ [][Next]_vars

(* The poll comes round every fifteen seconds, a call that started goes    *)
(* on, and a network that keeps being tried answers now and then.          *)
FairSpec ==
  /\ Spec /\ WF_vars(StartRound) /\ SF_vars(SubmitAccepted(Poll))
  /\ \A t \in Task : WF_vars(Round(t))

-----------------------------------------------------------------------------
(* Every variable has its type.                                            *)
TypeOK ==
  /\ disk \in Disk /\ task \in [Task -> Call]
  /\ rotation \in [at : {"idle", "declare", "upload", "settle", "switch"},
                   key : Epoch, moved : SUBSET Op]
  /\ server \in [epoch : Epoch, journal : SUBSET Op, staged : BOOLEAN,
                 wrapped : SUBSET Epoch, proven : SUBSET Epoch]
  /\ written \subseteq Op

InHand == UNION {ToSet(task[t].moved) : t \in {u \in Task : task[u].at \in {"reload", "add"}}}

(* An operation a person was told is saved is in the family's journal, in  *)
(* the queue, or in the hands of a rewrite that is putting it back.        *)
NothingLost == written \subseteq server.journal \cup OpsIn(disk.outbox) \cup InHand

(* An operation leaves the queue only once the server has numbered it (or  *)
(* the rotation has carried it), or into a rewrite that holds it: whatever *)
(* rounds, lost answers, crashes and rotations cross each other.           *)
KeptUntilNumbered ==
  [][\A o \in OpsIn(disk.outbox) \ OpsIn(disk'.outbox) :
       \/ o \in server'.journal
       \/ \E t \in Task : task'[t].at = "reload" /\ o \in ToSet(task'[t].moved)]_vars

(* The disk says live only of an epoch in which the server numbered an     *)
(* envelope of this device, or which this device brought into force.       *)
LiveIsProven == disk.mark.live => disk.mark.epoch \in server.proven

(* A retired key is erased only after a later epoch was proven live (5.4.1 *)
(* of docs/SYNC_ARCHITECTURE.md).                                          *)
ErasedOnceProven ==
  [][(disk.retired \in Epoch /\ disk'.retired = Erased) =>
       \E e \in server.proven : e > disk.retired]_vars

(* Whatever waits in the queue can still be brought to the epoch in force: *)
(* the device has the key it was sealed under, or its own rotation has     *)
(* carried it already.                                                     *)
NotStranded ==
  \A v \in ToSet(disk.outbox) :
    v.epoch \in {disk.key, disk.retired} \/ v.op \in server.journal

(* The device that rotated the key is never left without the key in force: *)
(* it is on the disk, comes with a wrap, or is about to be written.        *)
KeyInForceHeld ==
  \/ disk.key = server.epoch \/ server.epoch \in server.wrapped
  \/ rotation.at \in {"settle", "switch"}

(* The poll never stops for good.                                          *)
RoundsGoOn == []<>(task[Poll].at # "idle")

(* What a person wrote reaches the family while the network works now and  *)
(* then, whatever rounds run beside each other.                            *)
EveryWriteNumbered == \A o \in Op : (o \in written) ~> (o \in server.journal)
=============================================================================
