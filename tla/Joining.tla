------------------------------ MODULE Joining ------------------------------
(***************************************************************************)
(* An invite from the owner's screen to the member who holds the family's  *)
(* key and is bound to it: issueInvite, joinFamilyByCode and the check of  *)
(* the bind proof (features/family/controller.ts), the box and the proof   *)
(* (sync-crypto/invite.ts), the server's half (routes/invites.ts).  A code,*)
(* and whatever is derived from it, is its invite; a family key is the     *)
(* epoch it opens; a device's key is its own or another.                   *)
(***************************************************************************)
EXTENDS Integers, FiniteSets

CONSTANTS
  Joiner,                \* devices of accounts without a family
  MaxInvites, MaxEpoch   \* bounds: codes made, epochs

VARIABLES
  server,   \* the family, its invites, the device rows of those who join
  owner,    \* a device of the owner
  joiner,   \* the devices that join
  past      \* invites made, stored, written over, and sealed by a device behind

vars == <<server, owner, joiner, past>>

Invite == 1 .. MaxInvites

NoBox == [epoch |-> 0, key |-> 0]

NoCall == [at |-> "idle", invite |-> 0, box |-> NoBox]

NoRow == [key |-> "own", proof |-> 0]

NoCheck == [at |-> "idle", rows |-> [j \in Joiner |-> NoRow], invite |-> 0]

Out == [at |-> "out", invite |-> 0, box |-> NoBox, entered |-> 0, key |-> NoBox, pinned |-> FALSE]

Init ==
  /\ server = [epoch |-> 1, owned |-> TRUE, live |-> 0, boxes |-> [i \in Invite |-> NoBox],
               members |-> {}, rows |-> [j \in Joiner |-> NoRow], expired |-> {}]
  /\ owner = [key |-> 1, shown |-> 0, call |-> NoCall, stored |-> 0, code |-> 0,
              verdicts |-> [j \in Joiner |-> "none"], pins |-> [j \in Joiner |-> "none"],
              check |-> NoCheck]
  /\ joiner = [j \in Joiner |-> Out]
  /\ past = [made |-> 0, stored |-> {}, replaced |-> {}, stale |-> {}]

-----------------------------------------------------------------------------
(* The key is changed on another device of the owner; the unused invites   *)
(* of the family go.                                                       *)
Rotate ==
  /\ server.owned /\ server.epoch < MaxEpoch
  /\ server' = [server EXCEPT !.epoch = @ + 1, !.live = 0]
  /\ UNCHANGED <<owner, joiner, past>>

(* acceptIncomingEpoch; it may come long after membership told the epoch.  *)
Follow ==
  /\ server.owned /\ owner.key < server.epoch
  /\ owner' = [owner EXCEPT !.key = server.epoch]
  /\ UNCHANGED <<server, joiner, past>>

Expire(i) ==
  /\ i <= past.made /\ i \notin server.expired
  /\ server' = [server EXCEPT !.expired = @ \cup {i}, !.live = IF @ = i THEN 0 ELSE @]
  /\ UNCHANGED <<owner, joiner, past>>

(* The owner's account is deleted: the family stays without an owner.      *)
DeleteOwner ==
  /\ server.owned /\ server.members # {}
  /\ server' = [server EXCEPT !.owned = FALSE, !.live = 0]
  /\ UNCHANGED <<owner, joiner, past>>

Swap(j) ==
  /\ server.rows[j].key = "own"
  /\ server' = [server EXCEPT !.rows[j].key = "other"]
  /\ UNCHANGED <<owner, joiner, past>>

-----------------------------------------------------------------------------
(* issueInvite: the key on the disk is sealed under the epoch on the screen.*)
Press ==
  /\ server.owned /\ owner.call = NoCall /\ owner.shown # 0 /\ past.made < MaxInvites
  /\ owner' = [owner EXCEPT !.call = [at |-> "sealed", invite |-> past.made + 1,
                                      box |-> [epoch |-> owner.shown, key |-> owner.key]]]
  /\ past' = [past EXCEPT !.made = @ + 1,
                !.stale = @ \cup IF owner.key # owner.shown THEN {past.made + 1} ELSE {}]
  /\ UNCHANGED <<server, joiner>>

(* POST invites: one live code for a family; the answer may be lost.       *)
Create ==
  LET call == owner.call
  IN /\ call.at = "sealed"
     /\ \/ /\ server.owned /\ call.box.epoch = server.epoch /\ call.invite \notin server.expired
           /\ server' = [server EXCEPT !.live = call.invite, !.boxes[call.invite] = call.box]
           /\ owner' \in {[owner EXCEPT !.call.at = "created"], [owner EXCEPT !.call = NoCall]}
        \/ /\ owner' = [owner EXCEPT !.call = NoCall]
           /\ UNCHANGED server
     /\ UNCHANGED <<joiner, past>>

Replaced(i) == past.replaced \cup ({owner.stored} \ {0, i})

Store ==
  LET i == owner.call.invite
  IN /\ owner.call.at = "created"
     /\ owner' = [owner EXCEPT !.call = NoCall, !.stored = i, !.code = i]
     /\ past' = [past EXCEPT !.stored = @ \cup {i}, !.replaced = Replaced(i)]
     /\ UNCHANGED <<server, joiner>>

Restart ==
  /\ owner' = [owner EXCEPT !.shown = 0, !.call = NoCall, !.code = 0, !.check = NoCheck]
  /\ UNCHANGED <<server, joiner, past>>

-----------------------------------------------------------------------------
(* The members' effect: what the server lists, the invite on the disk, and *)
(* the verdict on whoever joined with it.                                  *)
Look ==
  /\ server.owned /\ owner.check.at # "proved"
  /\ owner' = [owner EXCEPT !.shown = server.epoch,
                 !.check = [NoCheck EXCEPT !.at = "listed", !.rows = server.rows]]
  /\ UNCHANGED <<server, joiner, past>>

(* Whoever has left a proof.                                               *)
JoinedBy_Any(i) == {j \in Joiner : owner.check.rows[j].proof # 0}

(* checkInviteBinding looks for a proof of the owner's own invite.         *)
JoinedBy(i) == {j \in Joiner : owner.check.rows[j].proof = i}

ReadInvite ==
  LET i == owner.stored
  IN /\ owner.check.at = "listed"
     /\ owner' =
          IF i = 0 \/ i \in server.expired
          THEN [owner EXCEPT !.stored = 0, !.code = 0, !.check = NoCheck]
          ELSE [owner EXCEPT !.code = IF @ = i THEN i ELSE 0,
                  !.check = IF JoinedBy(i) = {} THEN NoCheck
                            ELSE [owner.check EXCEPT !.at = "proved", !.invite = i]]
     /\ UNCHANGED <<server, joiner, past>>

(* The proof is over the key of the device that joined.                    *)
Verdict(row, i) == IF row.proof = i /\ row.key = "own" THEN "bound" ELSE "failed"

Conclude ==
  LET i == owner.check.invite
      j == CHOOSE j \in JoinedBy(i) : TRUE
      row == owner.check.rows[j]
      verdict == Verdict(row, i)
  IN /\ owner.check.at = "proved"
     /\ owner' = [owner EXCEPT !.verdicts[j] = verdict, !.stored = 0, !.code = 0, !.check = NoCheck,
                    !.pins[j] = IF verdict = "bound" /\ @ = "none" THEN row.key ELSE @]
     /\ past' = [past EXCEPT !.replaced = Replaced(i)]
     /\ UNCHANGED <<server, joiner>>

(* Fingerprints read aloud by two people agree.                            *)
ConfirmFingerprint(j) ==
  /\ server.owned /\ owner.shown # 0 /\ owner.pins[j] = "none"
  /\ j \in server.members /\ server.rows[j].key = "own"
  /\ owner' = [owner EXCEPT !.pins[j] = "own"]
  /\ UNCHANGED <<server, joiner, past>>

-----------------------------------------------------------------------------
(* joinFamilyByCode *)

Becomes(j, state) == joiner' = [joiner EXCEPT ![j] = state] /\ UNCHANGED <<owner, past>>

Hear(j) ==
  /\ joiner[j].at = "out" /\ owner.code # 0
  /\ Becomes(j, [Out EXCEPT !.at = "heard", !.invite = owner.code])
  /\ UNCHANGED server

Claim(j) ==
  LET i == joiner[j].invite
  IN /\ joiner[j].at = "heard"
     /\ Becomes(j, IF server.live = i
                   THEN [joiner[j] EXCEPT !.at = "claimed", !.box = server.boxes[i]] ELSE Out)
     /\ UNCHANGED server

(* POST invites/join: the code is spent and its box goes.                  *)
AskJoin(j) ==
  LET i == joiner[j].invite
  IN /\ joiner[j].at = "claimed"
     /\ IF server.live = i
        THEN /\ server' = [server EXCEPT !.live = 0, !.boxes[i] = NoBox,
                             !.members = @ \cup {j}, !.rows[j].proof = i]
             /\ \E at \in {"joined", "half"} :
                  Becomes(j, [joiner[j] EXCEPT !.at = at, !.entered = server.epoch])
        ELSE Becomes(j, Out) /\ UNCHANGED server

Gone(j) == [server EXCEPT !.members = @ \ {j}]

(* The list must name the sender of the box as the owner: the key and the  *)
(* owner's pin are written together, or the joining is taken back.         *)
Roster(j) ==
  /\ joiner[j].at = "joined"
  /\ \/ /\ server.owned /\ UNCHANGED server
        /\ Becomes(j, [joiner[j] EXCEPT !.at = "in", !.key = joiner[j].box, !.pinned = TRUE])
     \/ /\ ~server.owned /\ server' = Gone(j)
        /\ Becomes(j, [joiner[j] EXCEPT !.at = "gone"])
     \/ UNCHANGED server /\ Becomes(j, [joiner[j] EXCEPT !.at = "half"])

LeaveFamily(j) ==
  /\ joiner[j].at \in {"half", "in"}
  /\ server' = Gone(j)
  /\ Becomes(j, [joiner[j] EXCEPT !.at = "gone"])

Next ==
  \/ Rotate \/ Follow \/ DeleteOwner \/ Press \/ Create \/ Store \/ Restart
  \/ Look \/ ReadInvite \/ Conclude
  \/ \E i \in Invite : Expire(i)
  \/ \E j \in Joiner :
       \/ Swap(j) \/ ConfirmFingerprint(j)
       \/ Hear(j) \/ Claim(j) \/ AskJoin(j) \/ Roster(j) \/ LeaveFamily(j)

Spec == Init /\ [][Next]_vars

-----------------------------------------------------------------------------
TypeOK ==
  /\ server.epoch \in 1 .. MaxEpoch /\ owner.key \in 1 .. server.epoch
  /\ owner.shown \in 0 .. server.epoch
  /\ server.live \in 0 .. past.made /\ server.members \subseteq Joiner
  /\ owner.stored \in past.stored \cup {0} /\ owner.code \in {0, owner.stored}
  /\ owner.call.at \in {"idle", "sealed", "created"}
  /\ owner.check.at \in {"idle", "listed", "proved"}
  /\ \A j \in Joiner :
       /\ joiner[j].at \in {"out", "heard", "claimed", "joined", "half", "in", "gone"}
       /\ owner.verdicts[j] \in {"none", "bound", "failed"}
       /\ owner.pins[j] \in {"none", "own", "other"}

Held(j) == joiner[j].key # NoBox

(* A code lets one device in, in the epoch it was made for, and whoever    *)
(* holds the family's key got it with the owner's pin.  The key is that of *)
(* the epoch it is kept under, unless the device that sealed it was behind.*)
OneForEachCode ==
  /\ \A j, k \in Joiner :
       server.rows[j].proof # 0 /\ server.rows[j].proof = server.rows[k].proof => j = k
  /\ \A j \in Joiner :
       /\ joiner[j].entered # 0 => joiner[j].entered = joiner[j].box.epoch
       /\ Held(j) => /\ joiner[j].pinned /\ joiner[j].invite = server.rows[j].proof
                     /\ joiner[j].key.key = joiner[j].key.epoch \/ joiner[j].invite \in past.stale

(* What is pinned without a person is the joiner's own key; a proof fails  *)
(* only where the server's row is wrong; and the bind key of a code is not *)
(* erased before its joiner was judged, unless another invite was stored   *)
(* over it or it expired.                                                  *)
ProofsAreJudged ==
  /\ \A j \in Joiner :
       /\ owner.pins[j] # "other"
       /\ owner.verdicts[j] = "failed" => server.rows[j].key = "other"
  /\ \A j \in Joiner, i \in past.stored \ (past.replaced \cup server.expired) :
       server.rows[j].proof = i => owner.stored = i \/ owner.verdicts[j] # "none"

(* Whoever joins is vouched for in both directions (controller.ts 315 to   *)
(* 825 and 1247 to 1309, invites.ts 175 to 387).                           *)
JoinersAreVouchedFor == OneForEachCode /\ ProofsAreJudged
=============================================================================
