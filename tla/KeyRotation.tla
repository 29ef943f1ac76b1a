---------------------------- MODULE KeyRotation ----------------------------
(***************************************************************************)
(* The procedure that changes the family key, step by step, as the devices *)
(* of an owner carry it out (performRotation of family/controller.ts,      *)
(* rotateFamilyKey of family/rotation.ts, reencryptJournal of              *)
(* sync-crypto/rotation.ts): several of them may be at it at once, each    *)
(* request can fail or lose its answer, the server sweeps a slow attempt,  *)
(* a row of the journal can be lost or spoilt, the application can die.    *)
(* A rotationId is drawn for every attempt and so is an epoch number, so   *)
(* the number stands for both.  Checkpoints do not travel and are left     *)
(* out; the number of a row is its place.  Every device is pinned on the   *)
(* one that leads and has a key of its own; the owner's devices are not    *)
(* revoked.                                                                *)
(***************************************************************************)
EXTENDS Integers, Sequences, SequencesExt, FiniteSets, Subsequences

CONSTANTS
  Leader,        \* devices of the owner
  Member,        \* devices of the others
  Op,
  Batch,         \* ROTATION_SUBMIT_BATCH
  MaxEpoch,      \* bound: epoch numbers
  MaxFaults      \* bound: rows harmed

VARIABLES
  family,        \* the server: epoch in force, those before it, highest number,
                 \* rows, devices not revoked, their wraps
  staged,        \* the staged rotation
  device,        \* the disk of each of the owner's devices
  lead,          \* an attempt in memory
  harmed         \* how many rows were harmed

vars == <<family, staged, device, lead, harmed>>

-----------------------------------------------------------------------------
NoStaging == [by |-> {}, epoch |-> 0, freeze |-> 0, rows |-> <<>>, confirm |-> FALSE,
              wraps |-> {}]

NoAttempt == [at |-> "idle", key |-> 0, floor |-> 0, queue |-> <<>>, devices |-> {},
              consent |-> FALSE, next |-> 0, freeze |-> 0, load |-> <<>>, sent |-> 0]

Everybody == Leader \cup Member

Init ==
  /\ family = [epoch |-> 1, past |-> {1}, top |-> 1, rows |-> <<>>,
               members |-> Everybody, wraps |-> {}]
  /\ staged = NoStaging
  /\ device = [l \in Leader |-> [key |-> 1, floor |-> 0, outbox |-> <<>>]]
  /\ lead = [l \in Leader |-> NoAttempt]
  /\ harmed = 0

(* A row opens with its epoch's key, is not there, or does not open.       *)
Row(o) == [op |-> o, state |-> "whole"]

Rows(ops) == [i \in DOMAIN ops |-> Row(ops[i])]

Whole(rows) == {i \in DOMAIN rows : rows[i].state = "whole"}

OpsOf(rows) == {rows[i].op : i \in Whole(rows)}

Least(a, b) == IF a < b THEN a ELSE b

Most(a, b) == IF a < b THEN b ELSE a

(* The server numbers what it does not know, the first time it meets it.   *)
Fresh(rows, ops) ==
  {i \in DOMAIN ops : /\ \A j \in DOMAIN rows : rows[j].op # ops[i]
                      /\ \A j \in 1 .. i - 1 : ops[j] # ops[i]}

Appended(rows, ops) == rows \o Rows(Picked(ops, Fresh(rows, ops)))

Goes(l, attempt) == lead' = [lead EXCEPT ![l] = attempt]

(* Whatever throws before the records are written ends in cancelRotation.  *)
Failed(l) == Goes(l, [NoAttempt EXCEPT !.at = "cancel"])

-----------------------------------------------------------------------------
(* What goes on beside rotations.                                          *)

Known(o) ==
  \/ \E i \in DOMAIN family.rows : o = family.rows[i].op
  \/ \E l \in Leader : \/ o \in ToSet(device[l].outbox) \/ o \in ToSet(lead[l].queue)

Write(l, o) ==
  /\ ~Known(o)
  /\ device' = [device EXCEPT ![l].outbox = Append(@, o)]
  /\ UNCHANGED <<family, staged, lead, harmed>>

(* A sync round: the queue is numbered, unless writing is frozen, and the  *)
(* cursor and the high water rise to the last number.                      *)
SyncRound(l) ==
  /\ device[l].key = family.epoch
  /\ LET open == staged = NoStaging
         rows == IF open THEN Appended(family.rows, device[l].outbox) ELSE family.rows
     IN /\ family' = [family EXCEPT !.rows = rows]
        /\ device' = [device EXCEPT ![l].floor = Most(@, Len(rows)),
                                    ![l].outbox = IF open THEN <<>> ELSE @]
  /\ UNCHANGED <<staged, lead, harmed>>

(* Each epoch is confirmed on the key of the one before it, so the wraps   *)
(* lead a device as far as none of them is missing.                        *)
Linked(l) ==
  {e \in family.past : /\ device[l].key < e
                       /\ \A f \in family.past :
                            device[l].key < f /\ f <= e => <<f, l>> \in family.wraps}

(* A round was refused with epoch_mismatch, an attempt in memory or not.   *)
Accept(l) ==
  \E e \in Linked(l) :
    /\ \A f \in Linked(l) : f <= e
    /\ device' = [device EXCEPT ![l].key = e, ![l].floor = 0]
    /\ UNCHANGED <<family, staged, lead, harmed>>

Revoke(m) ==
  /\ m \in family.members
  /\ family' = [family EXCEPT !.members = @ \ {m}]
  /\ UNCHANGED <<staged, device, lead, harmed>>

(* The server drops a rotation that makes no progress.                     *)
Sweep ==
  /\ staged # NoStaging
  /\ staged' = NoStaging
  /\ UNCHANGED <<family, device, lead, harmed>>

Harm(rows) ==
  /\ harmed < MaxFaults
  /\ harmed' = harmed + 1
  /\ family' = [family EXCEPT !.rows = rows]
  /\ UNCHANGED <<staged, device, lead>>

(* The end of the list is gone.                                            *)
CutTail(n) == Harm(SubSeq(family.rows, 1, n - 1))

(* One row is gone, or does not open.                                      *)
SpoilRow(n, state) ==
  family.rows[n].state = "whole" /\ Harm([family.rows EXCEPT ![n].state = state])

-----------------------------------------------------------------------------
(* An attempt.                                                             *)

(* performRotation: the key, the queue, the two numbers freezeSeq is held  *)
(* against, and the list of devices, which may be an old one.              *)
Prepare(l, consent) ==
  /\ lead[l].at = "idle" /\ family.top < MaxEpoch   \* a bound
  /\ \E devices \in {Everybody, family.members} :
       Goes(l, [NoAttempt EXCEPT !.at = "declare", !.key = device[l].key,
                  !.floor = device[l].floor, !.queue = device[l].outbox,
                  !.devices = devices, !.consent = consent])
  /\ UNCHANGED <<family, staged, device, harmed>>

Acceptable_AnyFreeze(attempt) == family.epoch = attempt.key

(* The checks of the declaration: it continues the epoch this device knows *)
(* and its border is not below what this device has seen.                  *)
Acceptable(attempt) ==
  family.epoch = attempt.key /\ Len(family.rows) >= attempt.floor

Declare(l) ==
  /\ lead[l].at = "declare"
  /\ IF staged # NoStaging
     THEN Failed(l) /\ UNCHANGED <<family, staged>>
     ELSE /\ family.top < MaxEpoch                     \* a bound
          /\ family' = [family EXCEPT !.top = @ + 1]
          /\ staged' = [NoStaging EXCEPT !.by = {l}, !.epoch = family.top + 1,
                                         !.freeze = Len(family.rows)]
          /\ IF Acceptable(lead[l])
             THEN Goes(l, [lead[l] EXCEPT !.at = "read", !.next = family.top + 1,
                                          !.freeze = Len(family.rows)])
             ELSE Failed(l)
  /\ UNCHANGED <<device, harmed>>

(* The rows up to a border that open.                                      *)
Opened(border) ==
  LET seen == SubSeq(family.rows, 1, Least(border, Len(family.rows)))
      rows == Picked(seen, Whole(seen))
  IN [i \in DOMAIN rows |-> rows[i].op]

Carried_FirstPage(attempt) == Opened(Least(1, attempt.freeze)) \o attempt.queue

(* What travels: those rows, and this device's queue.                      *)
Carried(attempt) == Opened(attempt.freeze) \o attempt.queue

(* Numbers without a row and rows that do not open.                        *)
Gaps(attempt) ==
  {n \in 1 .. attempt.freeze : n > Len(family.rows) \/ family.rows[n].state # "whole"}

(* A gap stops an attempt a person has not agreed to continue without it.  *)
Halts(attempt) == Gaps(attempt) # {} /\ ~attempt.consent

(* All pages up to the border and the one question behind it.  Reading is  *)
(* open during a rotation but not in a retired epoch.  Then the new key is *)
(* made and the set re-encrypted, in memory.                               *)
Read(l) ==
  /\ lead[l].at = "read"
  /\ IF \/ family.epoch # lead[l].key
        \/ Len(family.rows) > lead[l].freeze
        \/ Halts(lead[l])
     THEN Failed(l)
     ELSE Goes(l, [lead[l] EXCEPT !.at = "upload", !.load = Carried(lead[l])])
  /\ UNCHANGED <<family, staged, device, harmed>>

(* requireLeadingRotation: this very attempt is staged, by this device.    *)
Leads(l) == staged.by = {l} /\ staged.epoch = lead[l].next

(* The next batch; only the leading device may write while the epoch is    *)
(* staged.                                                                 *)
Upload(l) ==
  /\ lead[l].at = "upload" /\ lead[l].sent < Len(lead[l].load)
  /\ IF Leads(l)
     THEN LET upto == Least(lead[l].sent + Batch, Len(lead[l].load))
          IN /\ staged' = [staged EXCEPT !.rows =
                   Appended(@, SubSeq(lead[l].load, lead[l].sent + 1, upto))]
             /\ Goes(l, [lead[l] EXCEPT !.sent = upto])
     ELSE Failed(l) /\ UNCHANGED staged
  /\ UNCHANGED <<family, device, harmed>>

(* classifyRecipients: everybody on the list but the leader itself.        *)
Recipients(l) == lead[l].devices \ {l}

Sent(attempt) == attempt.sent >= Len(attempt.load)

(* The confirmation and the wraps; a wrap for a revoked device refuses the *)
(* whole request.                                                          *)
UploadKeys(l) ==
  /\ lead[l].at = "upload" /\ Sent(lead[l])
  /\ IF Leads(l) /\ Recipients(l) \subseteq family.members
     THEN /\ staged' = [staged EXCEPT !.confirm = TRUE, !.wraps = Recipients(l)]
          /\ Goes(l, [lead[l] EXCEPT !.at = "complete"])
     ELSE Failed(l) /\ UNCHANGED staged
  /\ UNCHANGED <<family, device, harmed>>

(* The switch: the rows of the old epoch are deleted.                      *)
Switched ==
  [family EXCEPT !.epoch = staged.epoch, !.past = @ \cup {staged.epoch},
                 !.rows = staged.rows, !.wraps = @ \cup ({staged.epoch} \X staged.wraps)]

(* With the answer, or with the answer lost.                               *)
Complete(l) ==
  /\ lead[l].at = "complete"
  /\ IF Leads(l) /\ staged.confirm
     THEN /\ family' = Switched
          /\ staged' = NoStaging
          /\ \/ Goes(l, [lead[l] EXCEPT !.at = "look"])
             \/ Failed(l)
     ELSE Failed(l) /\ UNCHANGED <<family, staged>>
  /\ UNCHANGED <<device, harmed>>

(* The second, independent reading: the epoch in force is the new one and  *)
(* nothing is staged.                                                      *)
Look(l) ==
  /\ lead[l].at = "look"
  /\ IF family.epoch = lead[l].next /\ staged = NoStaging
     THEN Goes(l, [lead[l] EXCEPT !.at = "settle"])
     ELSE Failed(l)
  /\ UNCHANGED <<family, staged, device, harmed>>

(* What travelled leaves the queue; the key and the records of the new     *)
(* epoch are the next transaction.                                         *)
Settle(l) ==
  /\ lead[l].at = "settle"
  /\ LET queue == device[l].outbox
     IN device' = [device EXCEPT ![l].outbox =
                     Picked(queue, {i \in DOMAIN queue : queue[i] \notin ToSet(lead[l].queue)})]
  /\ Goes(l, [lead[l] EXCEPT !.at = "switch"])
  /\ UNCHANGED <<family, staged, harmed>>

SwitchKey(l) ==
  /\ lead[l].at = "switch"
  /\ device' = [device EXCEPT ![l].key = lead[l].next, ![l].floor = 0]
  /\ Goes(l, NoAttempt)
  /\ UNCHANGED <<family, staged, harmed>>

(* cancelRotation names the family, not the attempt: whatever is staged    *)
(* goes, another device's too.                                             *)
Cancel(l) ==
  /\ lead[l].at = "cancel"
  /\ staged' = NoStaging
  /\ Goes(l, NoAttempt)
  /\ UNCHANGED <<family, device, harmed>>

(* A request that gets no answer: nothing happened on the server.          *)
Unreachable(l) ==
  /\ lead[l].at \in {"declare", "read", "upload", "complete", "look"}
  /\ Failed(l)
  /\ UNCHANGED <<family, staged, device, harmed>>

Crash(l) ==
  /\ lead[l].at # "idle"
  /\ Goes(l, NoAttempt)
  /\ UNCHANGED <<family, staged, device, harmed>>

Next ==
  \/ \E l \in Leader :
       \/ \E o \in Op : Write(l, o)
       \/ \E consent \in BOOLEAN : Prepare(l, consent)
       \/ SyncRound(l) \/ Accept(l) \/ Declare(l) \/ Read(l) \/ Upload(l) \/ UploadKeys(l)
       \/ Complete(l) \/ Look(l) \/ Settle(l) \/ SwitchKey(l)
       \/ Cancel(l) \/ Unreachable(l) \/ Crash(l)
  \/ \E m \in Member : Revoke(m)
  \/ Sweep
  \/ \E n \in DOMAIN family.rows :
       CutTail(n) \/ \E state \in {"missing", "sealed"} : SpoilRow(n, state)

Spec == Init /\ [][Next]_vars

-----------------------------------------------------------------------------
TypeOK ==
  /\ family.epoch \in 1 .. MaxEpoch /\ family.top \in family.epoch .. MaxEpoch
  /\ family.past \subseteq 1 .. MaxEpoch /\ family.members \subseteq Everybody
  /\ family.wraps \subseteq (1 .. MaxEpoch) \X Everybody
  /\ staged.by \subseteq Leader /\ OpsOf(staged.rows) \subseteq Op
  /\ \A l \in Leader : /\ device[l].key \in 1 .. MaxEpoch /\ device[l].floor \in Nat
                       /\ ToSet(device[l].outbox) \subseteq Op
                       /\ lead[l].sent \in 0 .. Len(lead[l].load)
  /\ harmed \in 0 .. MaxFaults

(* A rotation is atomic: the epoch in force always holds everything its    *)
(* predecessor held that could be read, and the number only rises, with    *)
(* attempts of two devices, sweeps, cancellations and lost answers in      *)
(* between (5.5 of docs/SYNC_ARCHITECTURE.md).                             *)
Atomic == INSTANCE AtomicRotation WITH epoch <- family.epoch, journal <- OpsOf(family.rows)

RotationIsAtomic == Atomic!Spec

(* Without a person's consent no rotation comes into force with fewer      *)
(* operations than the leading device had seen numbers: neither a cut tail *)
(* nor a hole is made lawful by deleting the old epoch.                    *)
CutsAreConsented ==
  [][family'.epoch # family.epoch =>
       \A l \in Leader : staged.by = {l} /\ ~lead[l].consent =>
         Cardinality(OpsOf(family'.rows)) >= lead[l].floor]_vars
=============================================================================
