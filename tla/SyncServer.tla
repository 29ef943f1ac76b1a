----------------------------- MODULE SyncServer -----------------------------
(***************************************************************************)
(* The sync server of one family (apps/sync-server/src): membership,       *)
(* devices, key epochs, the numbered queue of envelopes, key rotation, key *)
(* wraps and invites.  The database driver is synchronous, so a handler is *)
(* one step from the authentication to its last statement; what            *)
(* interleaves is requests of different devices and the passing of time.   *)
(* Rate limits and the byte budget only refuse requests and are left out.  *)
(***************************************************************************)
EXTENDS Integers, FiniteSets

CONSTANTS
  Account,      \* accounts that may have to do with this family
  Device,       \* device identifiers
  AccountOf,    \* the account a device signs in to; fixed by device_key_conflict
  OpId,         \* operation identifiers of envelopes
  Invite,       \* invite identifiers
  NoDevice,     \* the NULL of a column that names a device
  MaxEpoch,     \* bound: how far the family's epoch number may grow
  Quota,        \* FAMILY_ENVELOPE_QUOTA
  MaxBatch,     \* MAX_ENVELOPES_PER_BATCH
  IdleTimeout,  \* ROTATION_IDLE_TIMEOUT_MS, in ticks
  HardTimeout,  \* ROTATION_HARD_TIMEOUT_MS, in ticks
  InviteTtl     \* INVITE_TTL_MS, in ticks

ASSUME ServerAssumption ==
  /\ AccountOf \in [Device -> Account]
  /\ NoDevice \notin Device
  /\ MaxEpoch \in Nat /\ Quota \in Nat /\ MaxBatch \in Nat
  /\ IdleTimeout \in Nat \ {0} /\ HardTimeout \in Nat \ {0}
  /\ InviteTtl \in Nat \ {0}

VARIABLES
  db,           \* the database, as far as this family is concerned
  numbered      \* every number ever given to an operation (history)

vars == <<db, numbered>>

Epoch == 1 .. MaxEpoch

EpochRow == [state : {"none", "active", "staging", "retired"},
             counter : 0 .. Quota, leader : Device \cup {NoDevice},
             idle : 0 .. IdleTimeout, age : 0 .. HardTimeout, freeze : 0 .. Quota]

NoRow == [state |-> "none", counter |-> 0, leader |-> NoDevice,
          idle |-> 0, age |-> 0, freeze |-> 0]

Envelope == [epoch : Epoch, seq : 1 .. Quota, opId : OpId]

Wrap == [epoch : Epoch, device : Device, sender : Device]

InviteRow == [id : Invite, epoch : Epoch, ttl : 1 .. InviteTtl, used : BOOLEAN]

Database ==
  [family : {"none", "live", "deleted"},
   member : [Account -> {"none", "owner", "member", "removed", "deleted"}],
   device : [Device -> {"absent", "live", "revoked"}],
   keyEpoch : 0 .. MaxEpoch, maxKeyEpoch : 0 .. MaxEpoch,
   epochs : [Epoch -> EpochRow], envelopes : SUBSET Envelope,
   wraps : SUBSET Wrap, confirmed : SUBSET Epoch, invites : SUBSET InviteRow]

EmptyDatabase ==
  [family |-> "none", member |-> [a \in Account |-> "none"],
   device |-> [d \in Device |-> "absent"], keyEpoch |-> 0, maxKeyEpoch |-> 0,
   epochs |-> [e \in Epoch |-> NoRow], envelopes |-> {}, wraps |-> {},
   confirmed |-> {}, invites |-> {}]

Init == db = EmptyDatabase /\ numbered = {}

-----------------------------------------------------------------------------
(* What a request reads.                                                   *)

Live(s, a) == s.member[a] \in {"owner", "member"}

(* authenticate, then requireMembership finds the account in the family.   *)
Admitted(s, d) == s.device[d] = "live" /\ Live(s, AccountOf[d])

IsOwner(s, d) == s.member[AccountOf[d]] = "owner"

StagingEpochs(s) == {e \in Epoch : s.epochs[e].state = "staging"}

(* cancelRotation leaving the key wraps behind.                            *)
CancelRotation_KeepsWraps(s, doomed) ==
  [s EXCEPT !.epochs = [e \in Epoch |-> IF e \in doomed THEN NoRow ELSE @[e]],
            !.envelopes = {v \in @ : v.epoch \notin doomed},
            !.confirmed = @ \ doomed]

(* cancelRotation: the staging rows go with their envelopes, wraps and     *)
(* confirmation; their numbers stay burnt in maxKeyEpoch.                  *)
CancelRotation(s, doomed) ==
  [s EXCEPT !.epochs = [e \in Epoch |-> IF e \in doomed THEN NoRow ELSE @[e]],
            !.envelopes = {v \in @ : v.epoch \notin doomed},
            !.wraps = {w \in @ : w.epoch \notin doomed},
            !.confirmed = @ \ doomed]

Overdue_IdleOnly(row) == row.state = "staging" /\ row.idle >= IdleTimeout

Overdue(row) ==
  row.state = "staging" /\ (row.idle >= IdleTimeout \/ row.age >= HardTimeout)

(* sweepRotations, on every request scoped to the family.                  *)
Swept(s) == CancelRotation(s, {e \in Epoch : Overdue(s.epochs[e])})

DevicesOf(a) == {d \in Device : AccountOf[d] = a}

Revoked(s, devices) ==
  [s EXCEPT !.device = [d \in Device |-> IF d \in devices /\ @[d] = "live"
                                         THEN "revoked" ELSE @[d]]]

Unused(s) == {i \in s.invites : ~i.used}

-----------------------------------------------------------------------------
(* Accounts, devices and members.                                          *)

(* auth/verify with a new device identifier.                               *)
SignIn(d) ==
  /\ db.device[d] = "absent" /\ db.member[AccountOf[d]] # "deleted"
  /\ db' = [db EXCEPT !.device[d] = "live"]
  /\ UNCHANGED numbered

(* POST /families: epoch 1 is active from the start.                       *)
CreateFamily(d) ==
  /\ db.family = "none" /\ MaxEpoch > 0
  /\ db.device[d] = "live" /\ ~Live(db, AccountOf[d])
  /\ db' = [db EXCEPT !.family = "live", !.member[AccountOf[d]] = "owner",
                      !.keyEpoch = 1, !.maxKeyEpoch = 1,
                      !.epochs[1] = [NoRow EXCEPT !.state = "active"]]
  /\ UNCHANGED numbered

(* Any request of a member that changes nothing itself, refused ones       *)
(* included: it has swept the rotations.                                   *)
Poll(d) ==
  /\ Admitted(db, d)
  /\ db' = Swept(db)
  /\ UNCHANGED numbered

(* POST /devices/:id/revoke, of one's own device or by the owner.          *)
RevokeDevice(d, t) ==
  /\ db.device[d] = "live" /\ db.device[t] # "absent"
  /\ \/ /\ AccountOf[t] = AccountOf[d]
        /\ db' = Revoked(db, {t})
     \/ /\ AccountOf[t] # AccountOf[d] /\ Admitted(db, d)
        /\ LET s == Swept(db)
           IN /\ IsOwner(s, d) /\ Live(s, AccountOf[t])
              /\ db' = Revoked(s, {t})
  /\ UNCHANGED numbered

RemoveMember(d, a) ==
  /\ Admitted(db, d)
  /\ LET s == Swept(db)
     IN /\ IsOwner(s, d) /\ a # AccountOf[d] /\ Live(s, a)
        /\ db' = [Revoked(s, DevicesOf(a)) EXCEPT !.member[a] = "removed"]
  /\ UNCHANGED numbered

Leave(d) ==
  /\ Admitted(db, d) /\ ~IsOwner(db, d)
  /\ LET a == AccountOf[d]
     IN db' = [Revoked(Swept(db), DevicesOf(a)) EXCEPT !.member[a] = "removed"]
  /\ UNCHANGED numbered

(* Deletion that leaves a rotation led by the account standing.            *)
WithoutAccount_KeepsRotation(s, a) ==
  [s EXCEPT
     !.wraps = {w \in @ : w.device \notin DevicesOf(a)},
     !.invites = IF s.member[a] = "owner" THEN {i \in @ : i.used} ELSE @,
     !.device = [d \in Device |-> IF d \in DevicesOf(a) THEN "absent" ELSE @[d]],
     !.member[a] = "deleted"]

(* deleteAccount when somebody else remains: what the account led,         *)
(* received or issued goes with it.                                        *)
WithoutAccount(s, a) ==
  LET led == {e \in StagingEpochs(s) : s.epochs[e].leader \in DevicesOf(a)}
  IN [CancelRotation(s, led) EXCEPT
        !.wraps = {w \in @ : w.device \notin DevicesOf(a)},
        !.invites = IF s.member[a] = "owner" THEN {i \in @ : i.used} ELSE @,
        !.device = [d \in Device |-> IF d \in DevicesOf(a) THEN "absent" ELSE @[d]],
        !.member[a] = "deleted"]

(* deleteAccount when nobody remains: the family goes too.                 *)
WithoutFamily(s, a) ==
  [EmptyDatabase EXCEPT
     !.family = "deleted",
     !.device = [d \in Device |-> IF d \in DevicesOf(a) THEN "absent"
                                  ELSE s.device[d]],
     !.member = [b \in Account |-> IF b = a \/ s.member[b] = "deleted"
                                   THEN "deleted" ELSE "none"]]

(* The family goes with its owner, whoever remains.                        *)
EndsFamily_WithOwner(s, a) == s.member[a] = "owner"

(* The family goes with the last account that has a live membership in it. *)
EndsFamily(s, a) ==
  /\ s.member[a] \in {"owner", "member", "removed"}
  /\ \A b \in Account \ {a} : ~Live(s, b)

DeleteAccount(d) ==
  LET a == AccountOf[d]
  IN /\ db.device[d] = "live"
     /\ db' = IF EndsFamily(db, a) THEN WithoutFamily(db, a)
                                   ELSE WithoutAccount(db, a)
     /\ UNCHANGED numbered

-----------------------------------------------------------------------------
(* The queue.                                                              *)

Known(s, e) == {v.opId : v \in {w \in s.envelopes : w.epoch = e}}

Injective(f) == \A i, j \in DOMAIN f : f[i] = f[j] => i = j

Appended(s, e, n, fresh) ==
  {[epoch |-> e, seq |-> s.epochs[e].counter + i, opId |-> fresh[i]] : i \in 1 .. n}

(* Writing that a staged rotation does not close.                          *)
WritableEpoch_NoFreeze(s, d, e) ==
  \/ e \in StagingEpochs(s) /\ s.epochs[e].leader = d
  \/ e = s.keyEpoch

(* The epoch a batch of d may name: the staged one, from the device that   *)
(* leads the rotation, while there is one, or else the one in force.       *)
WritableEpoch(s, d, e) ==
  IF StagingEpochs(s) # {}
  THEN e \in StagingEpochs(s) /\ s.epochs[e].leader = d
  ELSE e = s.keyEpoch

(* The quota looked at once, before the batch.                             *)
Fits_BeforeBatch(s, e, n) == s.epochs[e].counter < Quota

Fits(s, e, n) == s.epochs[e].counter + n <= Quota

(* POST /envelopes.  What the epoch already holds keeps its number, the n  *)
(* fresh envelopes are numbered on; a batch that does not fit is refused   *)
(* whole.  Repeats change nothing: only the fresh part is a parameter.     *)
Submit(d, e, n, fresh) ==
  /\ Admitted(db, d) /\ Injective(fresh)
  /\ LET s == Swept(db)
     IN /\ WritableEpoch(s, d, e) /\ Fits(s, e, n)
        /\ \A i \in 1 .. n : fresh[i] \notin Known(s, e)
        /\ db' = [s EXCEPT
             !.envelopes = @ \cup Appended(s, e, n, fresh),
             !.epochs[e].counter = @ + n,
             !.epochs[e].idle = IF n > 0 THEN 0 ELSE @]
        /\ numbered' = numbered \cup Appended(s, e, n, fresh)

-----------------------------------------------------------------------------
(* Key rotation.  An attempt is known by its rotationId; each attempt has  *)
(* an epoch number of its own, which stands for it here.                   *)

StagedBy(s, d) ==
  [NoRow EXCEPT !.state = "staging", !.leader = d,
                !.freeze = s.epochs[s.keyEpoch].counter]

(* An epoch number handed out again after a cancelled attempt.             *)
NextEpoch_OfCurrent(s) == s.keyEpoch + 1

NextEpoch(s) == s.maxKeyEpoch + 1

(* A second attempt beside the one that is staged.                         *)
MayDeclare_WhileStaged(s, d) == IsOwner(s, d)

MayDeclare(s, d) == IsOwner(s, d) /\ StagingEpochs(s) = {}

(* POST /rotation.                                                         *)
Declare(d) ==
  /\ Admitted(db, d)
  /\ LET s == Swept(db)
         next == NextEpoch(s)
     IN /\ next <= MaxEpoch /\ MayDeclare(s, d)
        /\ db' = [s EXCEPT !.maxKeyEpoch = next, !.epochs[next] = StagedBy(s, d)]
  /\ UNCHANGED numbered

(* requireLeadingRotation.                                                 *)
Leads(s, d, e) ==
  IsOwner(s, d) /\ s.epochs[e].state = "staging" /\ s.epochs[e].leader = d

(* POST /rotation/keys: wraps for some devices of the family, replacing    *)
(* those of an earlier try, and perhaps the confirmation.                  *)
UploadKeys(d, e, targets, confirm) ==
  /\ Admitted(db, d)
  /\ LET s == Swept(db)
     IN /\ Leads(s, d, e)
        /\ \A t \in targets : Admitted(s, t)
        /\ db' = [s EXCEPT
             !.wraps = {w \in @ : w.epoch # e \/ w.device \notin targets}
                       \cup {[epoch |-> e, device |-> t, sender |-> d] : t \in targets},
             !.confirmed = IF confirm THEN @ \cup {e} ELSE @,
             !.epochs[e].idle = IF targets # {} \/ confirm THEN 0 ELSE @]
  /\ UNCHANGED numbered

(* The switch without the confirmation.                                    *)
MayComplete_Unconfirmed(s, d, e) == Leads(s, d, e)

MayComplete(s, d, e) == Leads(s, d, e) /\ e \in s.confirmed

(* The new epoch starting to count from zero.                              *)
Activated_Recounting(row) ==
  [row EXCEPT !.state = "active", !.leader = NoDevice, !.idle = 0, !.age = 0,
              !.counter = 0]

(* The staged row in force; its counter stays where the upload left it.    *)
Activated(row) ==
  [row EXCEPT !.state = "active", !.leader = NoDevice, !.idle = 0, !.age = 0]

(* The switch with the invites of the old epoch left in place.             *)
Switched_KeepsInvites(s, e) ==
  [s EXCEPT !.epochs[s.keyEpoch].state = "retired",
            !.epochs[e] = Activated(@), !.keyEpoch = e,
            !.envelopes = {v \in @ : v.epoch # s.keyEpoch}]

(* The staged epoch takes over, the old one loses its envelopes and the    *)
(* family its invites.                                                     *)
Switched(s, e) ==
  [s EXCEPT !.epochs[s.keyEpoch].state = "retired",
            !.epochs[e] = Activated(@), !.keyEpoch = e,
            !.envelopes = {v \in @ : v.epoch # s.keyEpoch}, !.invites = {}]

(* POST /rotation/complete, one transaction.                               *)
Complete(d, e) ==
  /\ Admitted(db, d)
  /\ MayComplete(Swept(db), d, e)
  /\ db' = Switched(Swept(db), e)
  /\ UNCHANGED numbered

(* DELETE /rotation: the owner, from any device, whoever leads.            *)
Cancel(d) ==
  /\ Admitted(db, d)
  /\ LET s == Swept(db)
     IN /\ IsOwner(s, d) /\ StagingEpochs(s) # {}
        /\ db' = CancelRotation(s, StagingEpochs(s))
  /\ UNCHANGED numbered

-----------------------------------------------------------------------------
(* Out-of-band wraps and invites.                                          *)

(* Any wrap gives way to the owner.                                        *)
Replaceable_ByOwner(s, d, slot) == IsOwner(s, d)

(* What no owner placed gives way to the owner.                            *)
Replaceable(s, d, slot) ==
  IsOwner(s, d) /\ \A w \in slot : ~IsOwner(s, w.sender)

(* POST /keys: the key of the epoch in force for another device of the     *)
(* family.  A slot is written once, with the exception above.              *)
HandOver(d, t) ==
  /\ Admitted(db, d)
  /\ LET s == Swept(db)
         slot == {w \in s.wraps : w.epoch = s.keyEpoch /\ w.device = t}
     IN /\ StagingEpochs(s) = {} /\ Admitted(s, t) /\ t # d
        /\ slot = {} \/ Replaceable(s, d, slot)
        /\ db' = [s EXCEPT !.wraps =
             (@ \ slot) \cup {[epoch |-> s.keyEpoch, device |-> t, sender |-> d]}]
  /\ UNCHANGED numbered

(* POST /invites: one live invite at a time, the older is superseded.      *)
CreateInvite(d, i) ==
  /\ Admitted(db, d)
  /\ LET s == Swept(db)
     IN /\ IsOwner(s, d) /\ \A r \in s.invites : r.id # i
        /\ db' = [s EXCEPT !.invites = (@ \ Unused(s)) \cup
             {[id |-> i, epoch |-> s.keyEpoch, ttl |-> InviteTtl, used |-> FALSE]}]
  /\ UNCHANGED numbered

(* POST /invites/join.  The route asks for no membership, so it sweeps     *)
(* nothing, and it does not look at a rotation in progress.                *)
Join(d, i) ==
  /\ db.device[d] = "live" /\ ~Live(db, AccountOf[d])
  /\ i \in Unused(db)
  /\ db' = [db EXCEPT !.member[AccountOf[d]] = "member",
                      !.invites = (@ \ {i}) \cup {[i EXCEPT !.used = TRUE]}]
  /\ UNCHANGED numbered

-----------------------------------------------------------------------------
Capped(n, bound) == IF n < bound THEN n + 1 ELSE bound

Aged(row) ==
  IF row.state # "staging" THEN row
  ELSE [row EXCEPT !.idle = Capped(row.idle, IdleTimeout),
                   !.age = Capped(row.age, HardTimeout)]

(* Time passes.  sweepExpiredInvites runs before every query that could    *)
(* see an expired invite, so here an invite goes when its time is out.     *)
Tick ==
  /\ db' = [db EXCEPT
       !.epochs = [e \in Epoch |-> Aged(@[e])],
       !.invites = {[i EXCEPT !.ttl = @ - 1] : i \in {j \in @ : j.ttl > 1}}]
  /\ UNCHANGED numbered

Next ==
  \/ \E d \in Device :
       \/ SignIn(d) \/ CreateFamily(d) \/ Poll(d) \/ Leave(d) \/ DeleteAccount(d)
       \/ Declare(d) \/ Cancel(d)
       \/ \E t \in Device : RevokeDevice(d, t) \/ HandOver(d, t)
       \/ \E a \in Account : RemoveMember(d, a)
       \/ \E e \in Epoch, n \in 0 .. MaxBatch : \E fresh \in [1 .. n -> OpId] :
            Submit(d, e, n, fresh)
       \/ \E e \in Epoch, targets \in SUBSET Device, confirm \in BOOLEAN :
            UploadKeys(d, e, targets, confirm)
       \/ \E e \in Epoch : Complete(d, e)
       \/ \E i \in Invite : CreateInvite(d, i)
       \/ \E i \in db.invites : Join(d, i)
  \/ Tick

Spec == Init /\ [][Next]_vars

(* Time does not stop, and a device that may poll does (every 15 seconds   *)
(* while the application is open).                                         *)
FairSpec == Spec /\ WF_vars(Tick) /\ WF_vars(\E d \in Device : Poll(d))

-----------------------------------------------------------------------------
TypeOK == db \in Database /\ numbered \subseteq Envelope

(* One epoch is in force and is active, at most one is staged above it,    *)
(* every retired one is below it, and no row is above the high-water mark. *)
EpochTable ==
  /\ db.family = "live" <=> db.keyEpoch > 0
  /\ db.family # "live" => \A e \in Epoch : db.epochs[e] = NoRow
  /\ \A e \in Epoch :
       /\ db.epochs[e].state = "active" <=> e = db.keyEpoch
       /\ db.epochs[e].state = "retired" => e < db.keyEpoch
       /\ db.epochs[e].state = "staging" => e > db.keyEpoch
       /\ db.epochs[e].state # "none" => e <= db.maxKeyEpoch
  /\ \A e, f \in StagingEpochs(db) : e = f

(* The queue of an epoch that can be written has the numbers 1 to its      *)
(* counter, once each and for different operations; no other epoch has     *)
(* envelopes.                                                              *)
QueueContiguous ==
  /\ \A v \in db.envelopes : /\ db.epochs[v.epoch].state \in {"active", "staging"}
                             /\ v.seq <= db.epochs[v.epoch].counter
  /\ \A v, w \in db.envelopes :
       v.epoch = w.epoch => (v.seq = w.seq <=> v.opId = w.opId)
  /\ \A e \in Epoch : db.epochs[e].state \in {"active", "staging"} =>
       \A n \in 1 .. db.epochs[e].counter :
         \E v \in db.envelopes : v.epoch = e /\ v.seq = n

(* A number the server ever answered with stays the number of that         *)
(* operation in that epoch, through cancelled and repeated rotations: no   *)
(* two devices are told different things under one epoch number.           *)
NumbersNeverReassigned ==
  \A v, w \in numbered :
    v.epoch = w.epoch => (v.seq = w.seq <=> v.opId = w.opId)

(* While a rotation is staged nobody extends the journal it is copying:    *)
(* the epoch in force stays where freezeSeq says it was.                   *)
FreezeHolds ==
  \A e \in StagingEpochs(db) :
    db.epochs[e].freeze = db.epochs[db.keyEpoch].counter

(* A wrap or a confirmation belongs to an epoch that exists: a cancelled   *)
(* attempt leaves none for a device to pick up later.                      *)
NoOrphanKeys ==
  /\ \A w \in db.wraps : db.epochs[w.epoch].state # "none"
  /\ \A e \in db.confirmed : db.epochs[e].state # "none"

(* Every epoch a rotation put in force was confirmed, so a device that was *)
(* away for several rotations finds the chain whole.                       *)
ChainConfirmed ==
  \A e \in Epoch :
    db.epochs[e].state \in {"active", "retired"} => e = 1 \/ e \in db.confirmed

(* A rotation is only ever staged by a device of the present owner.        *)
StagedByOwner ==
  \A e \in StagingEpochs(db) :
    /\ db.epochs[e].leader \in Device
    /\ IsOwner(db, db.epochs[e].leader)

(* A code somebody can still redeem leads into the epoch in force, there   *)
(* is one at most, and an owner exists who can supersede it.               *)
InvitesRedeemable ==
  \A i, j \in Unused(db) :
    /\ i = j
    /\ i.epoch = db.keyEpoch
    /\ \E a \in Account : db.member[a] = "owner"

(* The key the owner placed for a device in an epoch in force is not       *)
(* changed under it while the device, the family and the owner are there.  *)
OwnerWrapNotReplaced ==
  [][\A w \in db.wraps :
       (w.epoch = db.keyEpoch /\ IsOwner(db, w.sender))
         => \/ w \in db'.wraps
            \/ db'.device[w.device] = "absent" \/ db'.family = "deleted"]_vars

(* An envelope of the epoch in force is lost only to a completed rotation, *)
(* or with the family when its last member deletes the account.            *)
AcknowledgedKept ==
  [][\A v \in db.envelopes :
       (v.epoch = db.keyEpoch /\ v \notin db'.envelopes)
         => \/ db'.keyEpoch > db.keyEpoch
            \/ \A a, b \in Account : Live(db, a) /\ Live(db, b) => a = b]_vars

(* Writing is not closed for ever: a staged rotation ends, unless nobody   *)
(* of the family is there to notice.                                       *)
RotationEnds ==
  \A e \in Epoch :
    (db.epochs[e].state = "staging")
      ~> (db.epochs[e].state # "staging" \/ ~\E d \in Device : Admitted(db, d))
=============================================================================
