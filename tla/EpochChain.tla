----------------------------- MODULE EpochChain -----------------------------
(***************************************************************************)
(* A device that slept through changes of the family key accepts the new   *)
(* one (packages/sync-client/src/epoch-chain.ts, family/epoch-intake.ts,   *)
(* acceptIncomingEpoch of family/controller.ts).  The server returns every *)
(* wrap it has for the device and the confirmation of each epoch; numbers  *)
(* may be missing, for a cancelled rotation burns its own.  The server may *)
(* be restored from an older copy, and a row of it may be harmed.          *)
(* Cryptography is ideal: a wrap opens when nothing of it was changed, and *)
(* a confirmation holds for the attempt it was made in and on one key.     *)
(***************************************************************************)
EXTENDS Naturals

CONSTANTS
  Sender,        \* devices of the owner, each able to change the key
  Taker,         \* tabs of the receiving device
  MaxEpoch,      \* bound: epoch numbers
  MaxKey         \* bound: keys ever made

VARIABLES
  made,          \* per key: the epoch it is for and the key it was confirmed on
  server,        \* epoch and key in force, this device's wraps, confirmations
  copy,          \* an older state of the server
  device,        \* the key held, the one before it, pins, history
  call           \* per tab: what was read and answered, and the alarm

vars == <<made, server, copy, device, call>>

-----------------------------------------------------------------------------
Epoch == 1 .. MaxEpoch

Key == 1 .. MaxKey

(* A wrap names the attempt, and an attempt draws its key: rot is both.    *)
NoRow == [rot |-> 0, sender |-> "none", opens |-> TRUE]

NoCall == [at |-> "idle", epoch |-> 0, key |-> 0, inForce |-> 0,
           rows |-> [e \in Epoch |-> NoRow], confirms |-> [e \in Epoch |-> 0],
           pinned |-> {}, changed |-> {}, alarm |-> "none"]

Init ==
  /\ made = [k \in Key |-> [epoch |-> IF k = 1 THEN 1 ELSE 0, on |-> 0]]
  /\ server = [epoch |-> 1, key |-> 1, rows |-> NoCall.rows, confirms |-> NoCall.confirms,
               changed |-> {}]
  /\ copy = server
  /\ device = [epoch |-> 1, key |-> 1, retired |-> 0, pins |-> {},
               highest |-> 1, overlap |-> FALSE, faults |-> 0]
  /\ call = [t \in Taker |-> NoCall]

FreshKey == CHOOSE k \in Key \cup {0} :
  IF \A j \in Key : made[j].epoch # 0 THEN k = 0
  ELSE k # 0 /\ made[k].epoch = 0 /\ \A j \in Key : j < k => made[j].epoch # 0

-----------------------------------------------------------------------------
(* The server, as far as a receiving device sees it.                       *)

(* A rotation under a number never used; a device that was not pinned      *)
(* there has no wrap.                                                      *)
Rotate(s, e, reached) ==
  LET k == FreshKey
  IN /\ k # 0 /\ e > server.epoch
     /\ made' = [made EXCEPT ![k] = [epoch |-> e, on |-> server.key]]
     /\ copy' = server
     /\ server' = [server EXCEPT !.epoch = e, !.key = k, !.confirms[e] = k,
                     !.rows[e] = IF reached THEN [rot |-> k, sender |-> s, opens |-> TRUE]
                                 ELSE NoRow]
     /\ UNCHANGED <<device, call>>

Harms == device.faults = 0 /\ device' = [device EXCEPT !.faults = 1]

Restore ==
  /\ Harms /\ server' = copy
  /\ UNCHANGED <<made, copy, call>>

HarmConfirm(e) ==
  /\ Harms /\ server.confirms[e] # 0
  /\ server' = [server EXCEPT !.confirms[e] = 0]
  /\ UNCHANGED <<made, copy, call>>

HarmRow(e) ==
  /\ Harms /\ server.rows[e] # NoRow
  /\ server' = [server EXCEPT !.rows[e].opens = FALSE]
  /\ UNCHANGED <<made, copy, call>>

HarmKey(s) ==
  /\ Harms
  /\ server' = [server EXCEPT !.changed = {s}]
  /\ UNCHANGED <<made, copy, call>>

-----------------------------------------------------------------------------
(* The walk.                                                               *)

(* verifyEpochConfirm: made on the key held, for this number, this attempt *)
(* and this key.                                                           *)
Verified(confirm, held, e, rot) ==
  confirm = rot /\ made[rot].epoch = e /\ made[rot].on = held

(* A number missing is taken for a break in the chain.                     *)
Refusal_Gap(c, w, e) ==
  LET row == c.rows[e]
  IN IF row.sender \notin c.pinned THEN "sender_not_pinned"
     ELSE IF row.sender \in c.changed THEN "sender_key_changed"
     ELSE IF ~row.opens THEN "unwrap_failed"
     ELSE IF e = w.epoch THEN IF row.rot = w.key THEN "none" ELSE "key_substituted"
     ELSE IF c.confirms[e] = 0 \/ e > w.epoch + 1 THEN "missing_confirmation"
     ELSE IF Verified(c.confirms[e], w.key, e, row.rot) THEN "none" ELSE "confirmation_failed"

(* What stops the walk at a wrap that is not below the epoch held.         *)
Refusal(c, w, e) ==
  LET row == c.rows[e]
  IN IF row.sender \notin c.pinned THEN "sender_not_pinned"
     ELSE IF row.sender \in c.changed THEN "sender_key_changed"
     ELSE IF ~row.opens THEN "unwrap_failed"
     ELSE IF e = w.epoch THEN IF row.rot = w.key THEN "none" ELSE "key_substituted"
     ELSE IF c.confirms[e] = 0 THEN "missing_confirmation"
     ELSE IF Verified(c.confirms[e], w.key, e, row.rot) THEN "none" ELSE "confirmation_failed"

(* What the wrap of an epoch makes of the walk; what is below the epoch   *)
(* held is passed over unopened.                                           *)
Onward(c, w, e) ==
  LET refusal == Refusal(c, w, e)
  IN IF w.refusal # "none" \/ c.rows[e] = NoRow \/ e < w.epoch THEN w
     ELSE IF refusal # "none" THEN [w EXCEPT !.refusal = refusal]
     ELSE IF e = w.epoch THEN w
     ELSE [w EXCEPT !.epoch = e, !.key = c.rows[e].rot, !.advanced = @ + 1]

(* resolveEpochChain: ascending.                                           *)
Walk(c) ==
  LET walked[e \in 0 .. MaxEpoch] ==
        IF e = 0 THEN [epoch |-> c.epoch, key |-> c.key, advanced |-> 0, refusal |-> "none"]
        ELSE Onward(c, walked[e - 1], e)
  IN walked[MaxEpoch]

-----------------------------------------------------------------------------
(* A round that was refused with epoch_mismatch, in one of the tabs.       *)

(* The person compares fingerprints; a pin is never rewritten.             *)
Pin(s) ==
  /\ s \notin device.pins
  /\ device' = [device EXCEPT !.pins = @ \cup {s}]
  /\ UNCHANGED <<made, server, copy, call>>

(* The key is read, then the server asked.  The list of devices is of an   *)
(* earlier round and may lack the sender.                                  *)
Ask(t, known) ==
  /\ call[t].at = "idle"
  /\ call' = [call EXCEPT ![t] =
       [at |-> "asked", epoch |-> device.epoch, key |-> device.key, inForce |-> server.key,
        rows |-> server.rows, confirms |-> server.confirms,
        pinned |-> device.pins \cap known, changed |-> server.changed,
        alarm |-> call[t].alarm]]
  /\ device' = [device EXCEPT !.overlap = @ \/ \E u \in Taker : call[u].at = "asked"]
  /\ UNCHANGED <<made, server, copy>>

(* takeIncomingEpoch and acceptIncomingEpoch: links that were passed count *)
(* even if a later one was refused; the key read before the question is    *)
(* put aside.                                                              *)
Accept(t) ==
  LET c == call[t]
      w == Walk(c)
      alarm == IF w.advanced > 0 THEN "none" ELSE IF w.refusal # "none" THEN w.refusal ELSE c.alarm
  IN /\ c.at = "asked"
     /\ call' = [call EXCEPT ![t] = [NoCall EXCEPT !.alarm = alarm]]
     /\ device' = IF w.advanced = 0 THEN device
                  ELSE [device EXCEPT !.epoch = w.epoch, !.key = w.key, !.retired = c.key,
                          !.highest = IF w.epoch > @ THEN w.epoch ELSE @]
     /\ UNCHANGED <<made, server, copy>>

Next ==
  \/ \E s \in Sender, e \in Epoch, reached \in BOOLEAN : Rotate(s, e, reached)
  \/ Restore
  \/ \E e \in Epoch : HarmConfirm(e) \/ HarmRow(e)
  \/ \E s \in Sender : HarmKey(s) \/ Pin(s)
  \/ \E t \in Taker : Accept(t) \/ \E known \in SUBSET Sender : Ask(t, known)

Spec == Init /\ [][Next]_vars

-----------------------------------------------------------------------------
TypeOK ==
  /\ device.epoch \in Epoch /\ device.key \in Key /\ device.retired \in Key \cup {0}
  /\ device.highest \in Epoch /\ made[device.key].epoch = device.epoch

(* The keys a key was confirmed on, one after the other, and itself.       *)
Ancestors(key) ==
  LET line[k \in Key \cup {0}] == IF k = 0 THEN {} ELSE {k} \cup line[made[k].on]
  IN line[key]

(* Every wrap at or above the epoch held is of the line from the key held  *)
(* to the one in force, and whole.                                         *)
Complete(c) ==
  LET ahead == Ancestors(c.inForce) \ Ancestors(c.key)
      rows == {e \in Epoch : c.rows[e] # NoRow /\ e >= c.epoch}
  IN /\ c.key \in Ancestors(c.inForce)
     /\ \A k \in ahead : c.rows[made[k].epoch].rot = k /\ c.confirms[made[k].epoch] = k
     /\ \A e \in rows :
          /\ c.rows[e].rot \in ahead \cup {c.key} /\ c.rows[e].opens
          /\ c.rows[e].sender \in c.pinned \ c.changed

(* "A change of key epoch is never accepted on the server's word"          *)
(* (epoch-chain.ts 5): a device comes only to a key confirmed, link by     *)
(* link, on the one it held.                                               *)
ComesByConfirmedLinks(c) == c.key \in Ancestors(Walk(c).key)

(* "A gap in epoch numbers is not a break": when the chain is whole it     *)
(* comes to the key in force without an alarm.                             *)
CatchesUp(c) == Complete(c) => Walk(c).key = c.inForce /\ Walk(c).refusal = "none"

(* A line that leads elsewhere is refused aloud.                           *)
StraysAloud(c) == Walk(c).refusal = "none" =>
  \A e \in Epoch : c.rows[e] # NoRow /\ e > c.epoch => c.rows[e].rot \in Ancestors(Walk(c).key)

(* The three together; and the epoch held only rises (epoch-chain.ts 186)  *)
(* as long as one tab asks at a time, for a late answer takes it back.     *)
EpochsAreConfirmed ==
  /\ \A t \in Taker : call[t].at = "asked" =>
       ComesByConfirmedLinks(call[t]) /\ CatchesUp(call[t]) /\ StraysAloud(call[t])
  /\ ~device.overlap => device.epoch = device.highest
=============================================================================
