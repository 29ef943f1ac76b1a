----------------------------- MODULE SyncIntake -----------------------------
(***************************************************************************)
(* Receiving: what a pull does with the server's pages and with the        *)
(* integrity anchor (packages/sync-client/src/intake.ts, checkpoint.ts and *)
(* the pull and writeCheckpoint of engine.ts), for several devices of one  *)
(* family in one key epoch, each with rounds that may run side by side.    *)
(* The server is a list of numbered rows.  It can lose the end of the list *)
(* (a restored copy numbers the next rows again), and a row can become one *)
(* this build cannot take.  Encryption is ideal: a row opens or does not.  *)
(* The digest of a set of operations is the set itself.  The queue drains  *)
(* at the start of a round in one step: DeviceOutbox has that part whole.  *)
(***************************************************************************)
EXTENDS Integers, Sequences, SequencesExt, Subsequences

CONSTANTS
  Device,
  Round,         \* rounds that can run on one device at once
  Op,            \* operations the family may write
  Limit,         \* FETCH_LIMIT: rows in a page
  Pages,         \* MAX_PAGES_PER_PULL
  Every,         \* CHECKPOINT_EVERY_OPERATIONS
  Flaws,         \* what can be wrong with a row
  Retries,       \* bound: attempts at one envelope
  MaxIndex,      \* bound, per device: checkpoints it writes
  MaxFaults      \* bound: what befalls the server's list

ASSUME IntakeAssumption ==
  /\ {Limit, Pages, Every, Retries} \subseteq Nat \ {0} /\ MaxIndex \in [Device -> Nat] /\ MaxFaults \in Nat
  /\ Flaws \subseteq {"key_mismatch", "update_required", "quarantined"}

VARIABLES
  rows,          \* the epoch's journal on the server
  disk,          \* per device: document, queue and sync records
  round,         \* per device and round: the call in progress
  faults,        \* how often the server's list was harmed
  past           \* history, per device: what its cursor passed, its alarms

vars == <<rows, disk, round, faults, past>>

-----------------------------------------------------------------------------
(* Records.                                                                *)

AtMost(n, bound) == IF n > bound THEN bound ELSE n

Digest(S) == [seed |-> {}, set |-> S]            \* checkpointDigest

Seed(d) == [seed |-> {d}, set |-> {}]            \* checkpointSeedDigest

NoLink == [index |-> 0, digest |-> Digest({})]

NoAlarm == "agree"

FreshAnchor == [ids |-> <<>>, chain |-> [d \in Device |-> NoLink], alarm |-> NoAlarm,
                own |-> NoLink, since |-> 0]

NoStop == [reason |-> "none", seq |-> 0, attempts |-> 0]

IdleRound == [at |-> "idle", cursor |-> 0, stop |-> NoStop, anchor |-> FreshAnchor,
              page |-> <<>>, pages |-> 0]

NothingPassed == [rows |-> <<>>, alarmed |-> FALSE, overlap |-> FALSE]

(* flaw: what is wrong with the row for this build.  seq: 0 in a queue.    *)
(* op, index, count, prev, digest: the plaintext of an operation or of a   *)
(* checkpoint.                                                             *)
OperationRow(d, o) == [kind |-> "operation", dev |-> d, flaw |-> "none", seq |-> 0, op |-> {o},
                       index |-> 0, count |-> 0, prev |-> Digest({}), digest |-> Digest({})]

CheckpointRow(d, link, ids, prev) ==
  [kind |-> "checkpoint", dev |-> d, flaw |-> "none", seq |-> 0, op |-> {}, index |-> link,
   count |-> Len(ids), prev |-> prev, digest |-> Digest(ToSet(ids))]

(* The operations of a list, in its order.                                 *)
OperationsOf(list) ==
  LET own == Picked(list, {i \in DOMAIN list : list[i].kind = "operation"})
  IN [i \in DOMAIN own |-> CHOOSE o \in own[i].op : TRUE]

Init ==
  /\ rows = <<>>
  /\ disk = [d \in Device |-> [journal |-> {}, outbox |-> <<>>, cursor |-> 0,
                               stop |-> NoStop, anchor |-> FreshAnchor]]
  /\ round = [d \in Device |-> [r \in Round |-> IdleRound]]
  /\ faults = 0
  /\ past = [d \in Device |-> NothingPassed]

-----------------------------------------------------------------------------
(* The anchor.                                                             *)

Agrees_OnCount(row, ids) == Len(ids) >= row.count

Agrees_WholeSet(row, ids) == row.digest = Digest(ToSet(ids))

(* compareCheckpoint: the author's set is rebuilt as a prefix of what this *)
(* device read, and its digest decides.                                    *)
Agrees(row, ids) ==
  /\ row.count <= Len(ids)
  /\ Digest(ToSet(SubSeq(ids, 1, row.count))) = row.digest

(* The chain (deviceId, index) and the digest of the one before.           *)
Follows(row, link) ==
  /\ row.index = link.index + 1
  /\ row.prev = (IF link = NoLink THEN Seed(row.dev) ELSE link.digest)

-----------------------------------------------------------------------------
(* applyDelivery: the page in order, up to the first row that is refused.  *)
(* What the loop carries from row to row is what the first k rows made.    *)

(* The cursor after k rows.                                                *)
Reached(call, k) == IF k = 0 THEN call.cursor ELSE call.page[k].seq

Continuous(call, k) == call.page[k].seq = Reached(call, k - 1) + 1

(* Why a row stops the delivery.  Continuity is looked at before the row   *)
(* is opened; what is wrong with the row itself is the row's flaw.         *)
Refusal(call, k) == IF Continuous(call, k) THEN call.page[k].flaw ELSE "journal_incomplete"

Refused(call) == {k \in DOMAIN call.page : Refusal(call, k) # "none"}

(* How many rows are taken.                                                *)
Taken(call) == IF Refused(call) = {} THEN Len(call.page) ELSE Min(Refused(call)) - 1

(* halt: the counter goes on only for the same envelope.                   *)
Halted(row, reason, prior) ==
  [reason |-> reason, seq |-> row.seq,
   attempts |-> IF prior.seq = row.seq THEN prior.attempts + 1 ELSE 1]

Stop(call) ==
  LET k == Taken(call) + 1
  IN IF Refused(call) = {} THEN NoStop ELSE Halted(call.page[k], Refusal(call, k), call.stop)

Folded(call) == UNION {call.page[k].op : k \in 1 .. Taken(call)}

(* An operation joins the set once.                                        *)
Adds(call, k) ==
  LET row == call.page[k]
      before == ToSet(call.anchor.ids) \cup UNION {call.page[i].op : i \in 1 .. (k - 1)}
  IN row.kind = "operation" /\ row.op \cap before = {}

Ids(call, k) ==
  call.anchor.ids \o OperationsOf(Picked(call.page, {i \in 1 .. k : Adds(call, i)}))

(* The chain is adopted whatever the verdict.                              *)
Link(call, e, k) ==
  LET own == {i \in 1 .. k : call.page[i].kind = "checkpoint" /\ call.page[i].dev = e}
  IN IF own = {} THEN call.anchor.chain[e]
     ELSE [index |-> call.page[Max(own)].index, digest |-> call.page[Max(own)].digest]

Linked(call, k) == Follows(call.page[k], Link(call, call.page[k].dev, k - 1))

(* Another device's checkpoint whose chain holds is compared.              *)
Compared(d, call, k) ==
  call.page[k].kind = "checkpoint" /\ call.page[k].dev # d /\ Linked(call, k)

(* A checkpoint: the chain first, then the set.                            *)
Verdict(d, call, k) ==
  IF call.page[k].kind = "checkpoint" /\ ~Linked(call, k) THEN "chain_broken"
  ELSE IF Compared(d, call, k) /\ ~Agrees(call.page[k], Ids(call, k - 1)) THEN "journal_diverged"
  ELSE NoAlarm

Alarms(d, call) == {k \in 1 .. Taken(call) : Verdict(d, call, k) # NoAlarm}

(* What a delivery makes of the anchor; the last verdict is the one kept.  *)
FoldedAnchor(d, call) ==
  LET n == Taken(call)
      applied == Cardinality({k \in 1 .. n : call.page[k].kind = "operation"})
  IN [ids |-> Ids(call, n), chain |-> [e \in Device |-> Link(call, e, n)],
      own |-> call.anchor.own,
      alarm |-> IF Alarms(d, call) # {} THEN Verdict(d, call, Max(Alarms(d, call)))
                ELSE IF \E k \in 1 .. n : Compared(d, call, k) THEN NoAlarm
                ELSE call.anchor.alarm,
      since |-> AtMost(call.anchor.since + applied, Every)]

-----------------------------------------------------------------------------
(* A device.                                                               *)

Busy(d) == {r \in Round : round[d][r].at # "idle"}

Goes(d, r, call) == round' = [round EXCEPT ![d][r] = call]

LastSeq == IF rows = <<>> THEN 0 ELSE Last(rows).seq

Numbered(queue) == [i \in DOMAIN queue |-> [queue[i] EXCEPT !.seq = LastSeq + i]]

(* enqueue: document, journal and queue in one transaction.                *)
Write(d, o) ==
  /\ \A e \in Device : o \notin disk[e].journal
  /\ disk' = [disk EXCEPT ![d].journal = @ \cup {o},
                          ![d].outbox = Append(@, OperationRow(d, o))]
  /\ UNCHANGED <<rows, round, faults, past>>

Page(list, after) ==
  LET rest == Picked(list, {i \in DOMAIN list : list[i].seq > after})
  IN SubSeq(rest, 1, AtMost(Len(rest), Limit))

(* The pull is over and writeCheckpoint reads the anchor: enough has been  *)
(* folded and the ten minutes since the last checkpoint have passed, or    *)
(* there is nothing to do.                                                 *)
AfterPull(d, anchor) ==
  {call \in {IdleRound, [IdleRound EXCEPT !.at = "anchored", !.anchor = anchor]} :
     IF call.at = "anchored" THEN anchor.since >= Every /\ anchor.own.index < MaxIndex[d]
     ELSE anchor.since < Every \/ anchor.own # NoLink \/ MaxIndex[d] = 0}

(* An empty page ends the walk.                                            *)
Asked(d, call, list) ==
  LET page == Page(list, call.cursor)
  IN IF page = <<>> THEN AfterPull(d, disk[d].anchor)
     ELSE {[call EXCEPT !.at = "fold", !.page = page, !.pages = @ + 1]}

(* push: the server numbers what was queued.  Then the pull opens: cursor, *)
(* stop and anchor are read once, for all its pages, and the first page is *)
(* asked for.                                                              *)
Begin(d, r) ==
  /\ round[d][r].at = "idle"
  /\ rows' = rows \o Numbered(disk[d].outbox)
  /\ disk' = [disk EXCEPT ![d].outbox = <<>>]
  /\ \E call \in Asked(d, [IdleRound EXCEPT !.cursor = disk[d].cursor,
                             !.stop = disk[d].stop, !.anchor = disk[d].anchor], rows') :
       Goes(d, r, call)
  /\ past' = IF Busy(d) = {} THEN past
             ELSE [past EXCEPT ![d] = [NothingPassed EXCEPT !.overlap = TRUE]]
  /\ UNCHANGED faults

(* The next page of the same pull.                                         *)
NextPage(d, r) ==
  /\ round[d][r].at = "fetch"
  /\ \E call \in Asked(d, round[d][r], rows) : Goes(d, r, call)
  /\ UNCHANGED <<rows, disk, faults, past>>

KeptRecords_CursorAlone(d, call) ==
  [disk[d] EXCEPT !.cursor = Reached(call, Taken(call)), !.stop = Stop(call)]

(* Cursor, stop and anchor are written together with what was folded.      *)
KeptRecords(d, call) ==
  [disk[d] EXCEPT !.cursor = Reached(call, Taken(call)), !.stop = Stop(call),
                  !.journal = @ \cup Folded(call), !.anchor = FoldedAnchor(d, call)]

(* A stop, a short page or the last page of the call's budget ends it.     *)
AfterPage(d, call) ==
  IF Refused(call) # {} \/ Len(call.page) < Limit \/ call.pages >= Pages
  THEN AfterPull(d, FoldedAnchor(d, call))
  ELSE {[call EXCEPT !.at = "fetch", !.cursor = Reached(call, Taken(call)), !.stop = NoStop,
                     !.anchor = FoldedAnchor(d, call), !.page = <<>>]}

(* History, of a device that runs one round at a time.                     *)
PassedBy(d, call) ==
  past' = IF past[d].overlap THEN past
          ELSE [past EXCEPT ![d].rows = @ \o SubSeq(call.page, 1, Taken(call)),
                            ![d].alarmed = @ \/ Alarms(d, call) # {}]

(* Document, journal, cursor, stop and anchor in one transaction.  A       *)
(* compare-and-set that is lost changes nothing and is tried again on the  *)
(* document and the journal as they are then, with the same page, cursor   *)
(* and anchor, so only the attempt that wins is a step; a round that never *)
(* wins is abandoned.  When nothing was folded the records are written     *)
(* without asking for the revision, which is the same step.                *)
FoldPage(d, r) ==
  LET call == round[d][r]
  IN /\ call.at = "fold" /\ Stop(call).attempts <= Retries   \* a bound
     /\ disk' = [disk EXCEPT ![d] = KeptRecords(d, call)]
     /\ \E next \in AfterPage(d, call) : Goes(d, r, next)
     /\ PassedBy(d, call)
     /\ UNCHANGED <<rows, faults>>

NextLink(d, anchor) ==
  CheckpointRow(d, anchor.own.index + 1, anchor.ids,
                IF anchor.own = NoLink THEN Seed(d) ELSE anchor.own.digest)

(* The queue entry and the place in the chain are written together.        *)
WriteCheckpoint(d, r) ==
  LET call == round[d][r]
      row == NextLink(d, call.anchor)
  IN /\ call.at = "anchored"
     /\ disk' = [disk EXCEPT
          ![d].outbox = Append(@, row),
          ![d].anchor = [call.anchor EXCEPT
             !.own = [index |-> row.index, digest |-> row.digest], !.since = 0]]
     /\ Goes(d, r, IdleRound)
     /\ UNCHANGED <<rows, faults, past>>

(* A request that fails, a tab that is closed: what was in memory is gone. *)
Abandon(d, r) ==
  /\ round[d][r].at # "idle"
  /\ Goes(d, r, IdleRound)
  /\ UNCHANGED <<rows, disk, faults, past>>

-----------------------------------------------------------------------------
(* The server's list is harmed.                                            *)

Harmed == faults < MaxFaults /\ faults' = faults + 1 /\ UNCHANGED <<disk, round, past>>

(* A copy from a backup: later rows are gone and their numbers come again. *)
LoseTail(n) == Harmed /\ n < Len(rows) /\ rows' = SubSeq(rows, 1, n)

LoseRow(n) == Harmed /\ n < Len(rows) /\ rows' = RemoveAt(rows, n)

Spoil(n, flaw) ==
  Harmed /\ rows[n].flaw = "none" /\ rows' = [rows EXCEPT ![n].flaw = flaw]

Next ==
  \/ \E d \in Device :
       \/ \E o \in Op : Write(d, o)
       \/ \E r \in Round : \/ Begin(d, r) \/ NextPage(d, r) \/ FoldPage(d, r)
                           \/ WriteCheckpoint(d, r) \/ Abandon(d, r)
  \/ \E n \in 0 .. Len(rows) : LoseTail(n)
  \/ \E n \in DOMAIN rows :
       \/ LoseRow(n)
       \/ \E flaw \in Flaws : Spoil(n, flaw)

Spec == Init /\ [][Next]_vars

-----------------------------------------------------------------------------
(* Properties.                                                             *)

Serial == \A d \in Device : ~past[d].overlap

UpTo(list, n) == Picked(list, {i \in DOMAIN list : list[i].seq <= n})

TypeOK ==
  /\ \A d \in Device :
       /\ disk[d].journal \subseteq Op /\ disk[d].cursor \in Nat
       /\ disk[d].anchor.since \in 0 .. Every /\ disk[d].stop.attempts \in Nat
       /\ \A r \in Round : round[d][r].pages <= Pages
  /\ faults \in 0 .. MaxFaults

(* What the cursor has passed is in the journal, whatever rounds run side  *)
(* by side and wherever they are abandoned, and even when one of them      *)
(* takes the cursor back (the transaction of pull, engine.ts 1067).        *)
NothingSkipped ==
  faults = 0 => \A d \in Device : \A i \in DOMAIN rows :
    rows[i].seq <= disk[d].cursor => rows[i].op \subseteq disk[d].journal

(* While the list is whole and a device runs one round at a time, its      *)
(* anchor holds exactly what its cursor passed, and nobody is told that    *)
(* journals diverge: not a lagging device, not one with a queue.           *)
NoFalseAlarm ==
  faults = 0 /\ Serial => \A d \in Device :
    /\ disk[d].anchor.ids = OperationsOf(UpTo(rows, disk[d].cursor))
    /\ ~past[d].alarmed

(* Another device's checkpoint over a set this device did not read, or one *)
(* whose predecessor it did not read, has raised an alarm here (3.6).      *)
LossReported ==
  Serial => \A d \in Device : \A i \in DOMAIN past[d].rows :
    LET row == past[d].rows[i]
        before == SubSeq(past[d].rows, 1, i - 1)
        ids == OperationsOf(before)
    IN (row.kind = "checkpoint" /\ row.dev # d)
       => \/ past[d].alarmed
          \/ /\ row.count <= Len(ids)
             /\ row.digest.set = ToSet(SubSeq(ids, 1, row.count))
             /\ row.index > 1 => \E j \in DOMAIN before :
                  before[j].dev = row.dev /\ before[j].index = row.index - 1
=============================================================================
