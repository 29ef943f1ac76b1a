-------------------------- MODULE SyncServerProofs --------------------------
(***************************************************************************)
(* Theorems about SyncServer for any accounts, devices, operations, quotas *)
(* and timeouts.  Every request is a change of a database that has been    *)
(* swept first, so the invariants are stated of a database s and the       *)
(* numbers N given so far, and proved of the sweep and of each request.    *)
(***************************************************************************)
EXTENDS SyncServer, TLAPS

Typed(s, N) == s \in Database /\ N \subseteq Envelope

(* EpochTable of s, and: only a family that exists has members, invites    *)
(* and rows; its epoch in force is not above the high-water mark.          *)
Table(s) ==
  /\ s.family = "live" <=> s.keyEpoch > 0
  /\ s.family # "live" => \A e \in Epoch : s.epochs[e] = NoRow
  /\ \A e \in Epoch :
       /\ s.epochs[e].state = "active" <=> e = s.keyEpoch
       /\ s.epochs[e].state = "retired" => e < s.keyEpoch
       /\ s.epochs[e].state = "staging" => e > s.keyEpoch
       /\ s.epochs[e].state # "none" => e <= s.maxKeyEpoch
  /\ \A e, f \in StagingEpochs(s) : e = f
  /\ s.keyEpoch <= s.maxKeyEpoch
  /\ \A a \in Account : s.member[a] \in {"owner", "member", "removed"} => s.family = "live"
  /\ s.invites # {} => s.family = "live"

Writable(s, e) == s.epochs[e].state \in {"active", "staging"}

(* QueueContiguous of s.                                                   *)
Queue(s) ==
  /\ \A v \in s.envelopes : Writable(s, v.epoch) /\ v.seq <= s.epochs[v.epoch].counter
  /\ \A v, w \in s.envelopes :
       v.epoch = w.epoch => (v.seq = w.seq <=> v.opId = w.opId)
  /\ \A e \in Epoch : Writable(s, e) =>
       \A n \in 1 .. s.epochs[e].counter :
         \E v \in s.envelopes : v.epoch = e /\ v.seq = n

(* The numbers given out: what a writable epoch gave it still holds, and   *)
(* no number was ever given in an epoch above the high-water mark.         *)
Recorded(s, N) ==
  /\ s.envelopes \subseteq N
  /\ \A v \in N : s.family # "none" /\ (s.family = "live" => v.epoch <= s.maxKeyEpoch)
  /\ \A v \in N : Writable(s, v.epoch) => v \in s.envelopes
  /\ \A v, w \in N : v.epoch = w.epoch => (v.seq = w.seq <=> v.opId = w.opId)

Frozen(s) ==
  \A e \in StagingEpochs(s) : s.epochs[e].freeze = s.epochs[s.keyEpoch].counter

Good(s, N) == Typed(s, N) /\ Table(s) /\ Queue(s) /\ Recorded(s, N) /\ Frozen(s)

-----------------------------------------------------------------------------
(* Cancelling staged attempts.                                             *)

LEMMA NoRowTyped == NoRow \in EpochRow
  BY ServerAssumption DEF NoRow, EpochRow

LEMMA CancelFields ==
  ASSUME NEW s \in Database, NEW D \in SUBSET Epoch
  PROVE  LET t == CancelRotation(s, D)
         IN /\ t \in Database
            /\ t.family = s.family /\ t.member = s.member /\ t.device = s.device
            /\ t.keyEpoch = s.keyEpoch /\ t.maxKeyEpoch = s.maxKeyEpoch
            /\ t.invites = s.invites
            /\ \A e \in Epoch : t.epochs[e] = IF e \in D THEN NoRow ELSE s.epochs[e]
            /\ t.envelopes = {v \in s.envelopes : v.epoch \notin D}
  BY NoRowTyped DEF CancelRotation, Database

LEMMA CancelGood ==
  ASSUME NEW s, NEW N, Good(s, N), NEW D \in SUBSET StagingEpochs(s)
  PROVE  Good(CancelRotation(s, D), N)
<1> DEFINE t == CancelRotation(s, D)
<1> HIDE DEF t
<1>1. D \in SUBSET Epoch /\ s \in Database
  BY DEF StagingEpochs, Good, Typed
<1>2. /\ t \in Database
      /\ t.family = s.family /\ t.member = s.member /\ t.device = s.device
      /\ t.keyEpoch = s.keyEpoch /\ t.maxKeyEpoch = s.maxKeyEpoch
      /\ t.invites = s.invites
      /\ \A e \in Epoch : t.epochs[e] = IF e \in D THEN NoRow ELSE s.epochs[e]
      /\ t.envelopes = {v \in s.envelopes : v.epoch \notin D}
  BY <1>1, CancelFields DEF t
<1>3. \A e \in D : s.epochs[e].state = "staging" /\ e # s.keyEpoch
  BY <1>1 DEF StagingEpochs, Good, Table
<1>4. Typed(t, N)
  BY <1>2 DEF Good, Typed
<1>5. \A e \in Epoch : e \in D => t.epochs[e].state = "none"
  BY <1>2 DEF NoRow
<1>6. StagingEpochs(t) = StagingEpochs(s) \ D
  BY <1>2, <1>5 DEF StagingEpochs
<1>7. Table(t)
  BY <1>1, <1>2, <1>3, <1>5, <1>6 DEF Good, Table
<1>8. \A v \in N : v.epoch \in Epoch
  BY DEF Good, Typed, Envelope
<1>9. s.envelopes \subseteq N
  BY DEF Good, Recorded
<1>10. \A e \in Epoch : Writable(t, e) <=> Writable(s, e) /\ e \notin D
  BY <1>2, <1>5 DEF Writable
<1>11. Queue(t)
  BY <1>2, <1>8, <1>9, <1>10 DEF Good, Queue
<1>12. Recorded(t, N)
  BY <1>2, <1>8, <1>9, <1>10 DEF Good, Recorded
<1>13. Frozen(t)
  <2>1. SUFFICES ASSUME NEW e \in StagingEpochs(t)
                 PROVE  t.epochs[e].freeze = t.epochs[t.keyEpoch].counter
    BY DEF Frozen
  <2>2. e \in StagingEpochs(s) /\ e \notin D /\ e \in Epoch
    BY <1>6, <2>1 DEF StagingEpochs
  <2>3. s.epochs[e].freeze = s.epochs[s.keyEpoch].counter
    BY <2>2 DEF Good, Frozen
  <2>4. s.keyEpoch \in Epoch
    <3>1. s.family = "live"
      BY <2>2 DEF Good, Table, StagingEpochs, NoRow
    <3>2. s.keyEpoch \in 0 .. MaxEpoch
      BY <1>1 DEF Database
    <3> QED BY <3>1, <3>2 DEF Good, Table, Epoch
  <2> QED BY <1>2, <1>3, <2>2, <2>3, <2>4
<1> QED BY <1>4, <1>7, <1>11, <1>12, <1>13 DEF Good, t

LEMMA SweptGood ==
  ASSUME NEW s, NEW N, Good(s, N)
  PROVE  Good(Swept(s), N)
<1>1. {e \in Epoch : Overdue(s.epochs[e])} \subseteq StagingEpochs(s)
  BY DEF Overdue, StagingEpochs
<1> QED BY <1>1, CancelGood DEF Swept
(* Members, devices, wraps, invites and timers may change freely: the      *)
(* queue does not depend on them.                                          *)
SameQueue(s, t) ==
  /\ t \in Database
  /\ t.family = s.family /\ t.keyEpoch = s.keyEpoch /\ t.maxKeyEpoch = s.maxKeyEpoch
  /\ t.envelopes = s.envelopes
  /\ \A e \in Epoch :
       /\ t.epochs[e].state = s.epochs[e].state
       /\ t.epochs[e].counter = s.epochs[e].counter
       /\ t.epochs[e].freeze = s.epochs[e].freeze
       /\ s.epochs[e] = NoRow => t.epochs[e] = NoRow

LEMMA SameQueueGood ==
  ASSUME NEW s, NEW N, Good(s, N), NEW t, SameQueue(s, t),
         \A a \in Account :
           t.member[a] \in {"owner", "member", "removed"} => t.family = "live",
         t.invites # {} => t.family = "live"
  PROVE  Good(t, N)
<1>1. s \in Database /\ StagingEpochs(t) = StagingEpochs(s)
  BY DEF Good, Typed, SameQueue, StagingEpochs
<1>2. Typed(t, N)
  BY DEF Good, Typed, SameQueue
<1>3. Table(t)
  BY <1>1 DEF Good, Table, SameQueue
<1>4. \A e \in Epoch : Writable(t, e) <=> Writable(s, e)
  BY DEF SameQueue, Writable
<1>5. \A v \in N : v.epoch \in Epoch
  BY DEF Good, Typed, Envelope
<1>6. Queue(t)
  BY <1>4, <1>5 DEF Good, Queue, Recorded, SameQueue
<1>7. Recorded(t, N)
  BY <1>4, <1>5 DEF Good, Recorded, SameQueue
<1>8. Frozen(t)
  <2>1. SUFFICES ASSUME NEW e \in StagingEpochs(t)
                 PROVE  t.epochs[e].freeze = t.epochs[t.keyEpoch].counter
    BY DEF Frozen
  <2>2. e \in StagingEpochs(s) /\ e \in Epoch
    BY <1>1, <2>1 DEF StagingEpochs
  <2>3. s.keyEpoch \in Epoch
    BY <1>1, <2>2 DEF Good, Table, StagingEpochs, NoRow, Database, Epoch
  <2> QED BY <2>2, <2>3 DEF Good, Frozen, SameQueue
<1> QED BY <1>2, <1>3, <1>6, <1>7, <1>8 DEF Good

(* A live member is a member of a live family, whose epoch has a row.      *)
LEMMA LiveFamily ==
  ASSUME NEW s, NEW N, Good(s, N), NEW a \in Account, Live(s, a)
  PROVE  /\ s.family = "live" /\ s.keyEpoch \in Epoch
         /\ s.epochs[s.keyEpoch].state = "active"
<1>1. s.family = "live"
  BY DEF Good, Table, Live
<1>2. s.keyEpoch \in Epoch
  BY <1>1 DEF Good, Typed, Table, Database, Epoch
<1> QED BY <1>1, <1>2 DEF Good, Table

(* The sweep changes nothing a request's guard reads about members.        *)
LEMMA SweptFields ==
  ASSUME NEW s, NEW N, Good(s, N)
  PROVE  /\ Swept(s) \in Database
         /\ Swept(s).family = s.family /\ Swept(s).member = s.member
         /\ Swept(s).device = s.device /\ Swept(s).keyEpoch = s.keyEpoch
         /\ Swept(s).maxKeyEpoch = s.maxKeyEpoch /\ Swept(s).invites = s.invites
  BY CancelFields DEF Swept, Good, Typed

-----------------------------------------------------------------------------
(* The requests, one lemma each.                                           *)

LEMMA SignInGood ==
  ASSUME Good(db, numbered), NEW d \in Device, SignIn(d)
  PROVE  Good(db', numbered')
<1>1. SameQueue(db, db')
  BY DEF SignIn, SameQueue, Good, Typed, Database
<1>2. db'.member = db.member /\ db'.invites = db.invites /\ numbered' = numbered
  BY DEF SignIn, Good, Typed, Database
<1>3. Table(db) /\ db'.family = db.family
  BY <1>1 DEF Good, SameQueue
<1>4. \A a \in Account :
        db'.member[a] \in {"owner", "member", "removed"} => db'.family = "live"
  BY <1>2, <1>3 DEF Table
<1>5. db'.invites # {} => db'.family = "live"
  BY <1>2, <1>3 DEF Table
<1> QED BY <1>1, <1>2, <1>4, <1>5, SameQueueGood

LEMMA CreateFamilyGood ==
  ASSUME Good(db, numbered), NEW d \in Device, CreateFamily(d)
  PROVE  Good(db', numbered')
<1> DEFINE row == [NoRow EXCEPT !.state = "active"]
<1>1. db \in Database /\ AccountOf[d] \in Account /\ 1 \in Epoch
  BY ServerAssumption DEF CreateFamily, Good, Typed, Epoch
<1>2. row \in EpochRow /\ row.state = "active" /\ row.counter = 0
  BY NoRowTyped DEF NoRow, EpochRow
<1>5. \A e \in Epoch : db.epochs[e] = NoRow
  BY DEF CreateFamily, Good, Table
<1> HIDE DEF row
<1>1a. [db.member EXCEPT ![AccountOf[d]] = "owner"]
         \in [Account -> {"none", "owner", "member", "removed", "deleted"}]
  BY <1>1 DEF Database
<1>1b. /\ [db.epochs EXCEPT ![1] = row] \in [Epoch -> EpochRow]
       /\ \A e \in Epoch : [db.epochs EXCEPT ![1] = row][e]
                             = IF e = 1 THEN row ELSE db.epochs[e]
  BY <1>1, <1>2 DEF Database
<1>1c. db' = [db EXCEPT !.family = "live",
                       !.member = [db.member EXCEPT ![AccountOf[d]] = "owner"],
                       !.keyEpoch = 1, !.maxKeyEpoch = 1,
                       !.epochs = [db.epochs EXCEPT ![1] = row]]
  BY <1>1, <1>5 DEF CreateFamily, Database, row
<1>1d. 1 \in 0 .. MaxEpoch /\ numbered' = numbered
  BY ServerAssumption DEF CreateFamily
<1>3a. /\ db'.family = "live" /\ db'.keyEpoch = 1 /\ db'.maxKeyEpoch = 1
       /\ db'.envelopes = db.envelopes
       /\ db'.epochs = [db.epochs EXCEPT ![1] = row]
  BY <1>1, <1>1c DEF Database
<1>3b. db' \in Database
  BY <1>1, <1>1a, <1>1b, <1>1c, <1>1d DEF Database
<1>3. /\ db' \in Database /\ db'.family = "live"
      /\ db'.keyEpoch = 1 /\ db'.maxKeyEpoch = 1
      /\ db'.envelopes = db.envelopes
      /\ \A e \in Epoch : db'.epochs[e] = IF e = 1 THEN row ELSE db.epochs[e]
      /\ numbered' = numbered
  BY <1>1b, <1>1d, <1>3a, <1>3b
<1>4. numbered = {} /\ db.envelopes = {}
  BY DEF CreateFamily, Good, Recorded
<1>6. StagingEpochs(db') = {}
  BY <1>2, <1>3, <1>5 DEF StagingEpochs, NoRow
<1>7. Table(db')
  BY <1>2, <1>3, <1>5, <1>6 DEF Table, NoRow, Epoch
<1>8. Queue(db')
  <2>1. \A e \in Epoch : db'.epochs[e].counter = 0
    BY <1>2, <1>3, <1>5 DEF NoRow
  <2> QED BY <1>3, <1>4, <2>1 DEF Queue
<1> QED BY <1>3, <1>4, <1>6, <1>7, <1>8 DEF Good, Typed, Recorded, Frozen

LEMMA PollGood ==
  ASSUME Good(db, numbered), NEW d \in Device, Poll(d)
  PROVE  Good(db', numbered')
  BY SweptGood DEF Poll

LEMMA RevokedFields ==
  ASSUME NEW s \in Database, NEW D
  PROVE  /\ SameQueue(s, Revoked(s, D))
         /\ Revoked(s, D).member = s.member /\ Revoked(s, D).invites = s.invites
<1>1. [d \in Device |-> IF d \in D /\ s.device[d] = "live" THEN "revoked" ELSE s.device[d]]
        \in [Device -> {"absent", "live", "revoked"}]
  BY DEF Database
<1> QED BY <1>1 DEF Revoked, SameQueue, Database

LEMMA RevokeDeviceGood ==
  ASSUME Good(db, numbered), NEW d \in Device, NEW t \in Device, RevokeDevice(d, t)
  PROVE  Good(db', numbered')
<1>1. PICK s : Good(s, numbered) /\ db' = Revoked(s, {t}) /\ numbered' = numbered
  BY SweptGood DEF RevokeDevice
<1>2. SameQueue(s, db') /\ db'.member = s.member /\ db'.invites = s.invites
  BY <1>1, RevokedFields DEF Good, Typed
<1>3. Table(s) /\ db'.family = s.family
  BY <1>1, <1>2 DEF Good, SameQueue
<1>4. /\ \A a \in Account :
          db'.member[a] \in {"owner", "member", "removed"} => db'.family = "live"
      /\ db'.invites # {} => db'.family = "live"
  BY <1>2, <1>3 DEF Table
<1> QED BY <1>1, <1>2, <1>4, SameQueueGood

LEMMA RemovedGood ==
  ASSUME NEW s, NEW N, Good(s, N), NEW a \in Account, Live(s, a)
  PROVE  Good([Revoked(s, DevicesOf(a)) EXCEPT !.member[a] = "removed"], N)
<1> DEFINE r == Revoked(s, DevicesOf(a))
           t == [r EXCEPT !.member[a] = "removed"]
<1> HIDE DEF r
<1>1. SameQueue(s, r) /\ r.member = s.member /\ r.invites = s.invites
  BY RevokedFields DEF Good, Typed, r
<1>2. SameQueue(s, t) /\ t.invites = s.invites
      /\ \A b \in Account : t.member[b] = IF b = a THEN "removed" ELSE s.member[b]
  BY <1>1 DEF SameQueue, Database
<1>3. s.family = "live" /\ t.family = "live"
  BY <1>2, LiveFamily DEF SameQueue
<1>4. Good(t, N)
  BY <1>2, <1>3, SameQueueGood
<1> QED BY <1>4 DEF r

LEMMA RemoveMemberGood ==
  ASSUME Good(db, numbered), NEW d \in Device, NEW a \in Account, RemoveMember(d, a)
  PROVE  Good(db', numbered')
  BY SweptGood, RemovedGood DEF RemoveMember

LEMMA LeaveGood ==
  ASSUME Good(db, numbered), NEW d \in Device, Leave(d)
  PROVE  Good(db', numbered')
<1>1. AccountOf[d] \in Account /\ Live(Swept(db), AccountOf[d])
  BY ServerAssumption, SweptFields DEF Leave, Admitted, Live
<1> QED BY <1>1, SweptGood, RemovedGood DEF Leave

LEMMA WithoutAccountGood ==
  ASSUME NEW s, NEW N, Good(s, N), NEW a \in Account
  PROVE  Good(WithoutAccount(s, a), N)
<1> DEFINE led == {e \in StagingEpochs(s) : s.epochs[e].leader \in DevicesOf(a)}
           r == CancelRotation(s, led)
           t == WithoutAccount(s, a)
<1>1. Good(r, N)
  BY CancelGood
<1>2. /\ r \in Database /\ r.member = s.member /\ r.invites = s.invites
      /\ s \in Database /\ Table(r)
  BY <1>1, CancelFields DEF Good, Typed, StagingEpochs
<1> HIDE DEF r
<1> DEFINE W == {w \in r.wraps : w.device \notin DevicesOf(a)}
           I == IF s.member[a] = "owner" THEN {i \in r.invites : i.used} ELSE r.invites
           V == [d \in Device |-> IF d \in DevicesOf(a) THEN "absent" ELSE r.device[d]]
           M == [r.member EXCEPT ![a] = "deleted"]
<1>3. t = [r EXCEPT !.wraps = W, !.invites = I, !.device = V, !.member = M]
  BY <1>2 DEF WithoutAccount, r, Database
<1>4. /\ V \in [Device -> {"absent", "live", "revoked"}]
      /\ M \in [Account -> {"none", "owner", "member", "removed", "deleted"}]
      /\ W \subseteq r.wraps /\ I \subseteq r.invites
  BY <1>2 DEF Database
<1> HIDE DEF t, W, I, V, M
<1>5. t \in Database
  BY <1>2, <1>3, <1>4 DEF Database
<1>6a. /\ t.family = r.family /\ t.keyEpoch = r.keyEpoch
       /\ t.maxKeyEpoch = r.maxKeyEpoch
       /\ t.envelopes = r.envelopes /\ t.epochs = r.epochs
       /\ t.invites = I /\ t.member = M
  BY <1>2, <1>3 DEF Database
<1>6. /\ t.family = r.family /\ t.keyEpoch = r.keyEpoch
      /\ t.maxKeyEpoch = r.maxKeyEpoch
      /\ t.envelopes = r.envelopes /\ t.epochs = r.epochs
      /\ t.invites \subseteq r.invites
      /\ t.member = [r.member EXCEPT ![a] = "deleted"]
  BY <1>4, <1>6a DEF M
<1>7. SameQueue(r, t)
  BY <1>5, <1>6 DEF SameQueue
<1>8. /\ \A b \in Account :
          t.member[b] \in {"owner", "member", "removed"} => t.family = "live"
      /\ t.invites # {} => t.family = "live"
  BY <1>2, <1>6 DEF Table, Database
<1> QED BY <1>1, <1>7, <1>8, SameQueueGood DEF t

LEMMA WithoutFamilyGood ==
  ASSUME NEW s, NEW N, Good(s, N), NEW a \in Account, s.family # "none"
  PROVE  Good(WithoutFamily(s, a), N)
<1> DEFINE t == WithoutFamily(s, a)
<1>1. s \in Database
  BY DEF Good, Typed
<1>2. /\ [d \in Device |-> IF d \in DevicesOf(a) THEN "absent" ELSE s.device[d]]
           \in [Device -> {"absent", "live", "revoked"}]
      /\ [b \in Account |-> IF b = a \/ s.member[b] = "deleted" THEN "deleted" ELSE "none"]
           \in [Account -> {"none", "owner", "member", "removed", "deleted"}]
      /\ [e \in Epoch |-> NoRow] \in [Epoch -> EpochRow]
      /\ 0 \in 0 .. MaxEpoch
  BY <1>1, NoRowTyped, ServerAssumption DEF Database
<1>3. t \in Database
  BY <1>2 DEF WithoutFamily, EmptyDatabase, Database
<1>4. /\ t.family = "deleted" /\ t.keyEpoch = 0 /\ t.maxKeyEpoch = 0
      /\ t.envelopes = {} /\ t.invites = {}
      /\ \A e \in Epoch : t.epochs[e] = NoRow
      /\ \A b \in Account : t.member[b] \in {"none", "deleted"}
  BY DEF WithoutFamily, EmptyDatabase
<1>5. \A e \in Epoch : t.epochs[e].state = "none" /\ ~Writable(t, e) /\ e # 0
  BY <1>4 DEF NoRow, Writable, Epoch
<1>6. StagingEpochs(t) = {}
  BY <1>5 DEF StagingEpochs
<1> HIDE DEF t
<1>7. Table(t)
  BY <1>4, <1>5, <1>6 DEF Table
<1>8. Queue(t) /\ Frozen(t)
  BY <1>4, <1>5, <1>6 DEF Queue, Frozen
<1>9. \A v \in N : v.epoch \in Epoch
  BY DEF Good, Typed, Envelope
<1>10. Recorded(t, N)
  BY <1>4, <1>5, <1>9 DEF Good, Recorded
<1> QED BY <1>3, <1>7, <1>8, <1>10 DEF Good, Typed, t

LEMMA DeleteAccountGood ==
  ASSUME Good(db, numbered), NEW d \in Device, DeleteAccount(d)
  PROVE  Good(db', numbered')
<1> DEFINE a == AccountOf[d]
<1>1. a \in Account /\ numbered' = numbered /\ db \in Database
  BY ServerAssumption DEF DeleteAccount, Good, Typed
<1>2. CASE EndsFamily(db, a)
  <2>1. db' = WithoutFamily(db, a)
    BY <1>2 DEF DeleteAccount
  <2>2. db.family # "none"
    BY <1>1, <1>2 DEF EndsFamily, Good, Table
  <2> QED BY <1>1, <2>1, <2>2, WithoutFamilyGood
<1>3. CASE ~EndsFamily(db, a)
  BY <1>1, <1>3, WithoutAccountGood DEF DeleteAccount
<1> QED BY <1>2, <1>3

(* A sequence of fresh operations numbered on from a writable epoch's      *)
(* counter collides with nothing.                                          *)
LEMMA AppendedFresh ==
  ASSUME NEW s, NEW N, Good(s, N), NEW e \in Epoch, Writable(s, e),
         NEW n \in Nat, NEW fresh \in [1 .. n -> OpId], Injective(fresh),
         s.epochs[e].counter + n <= Quota,
         \A i \in 1 .. n : fresh[i] \notin Known(s, e)
  PROVE  LET A == Appended(s, e, n, fresh)
         IN /\ A \subseteq Envelope
            /\ \A v \in A : /\ v.epoch = e /\ v.seq > s.epochs[e].counter
                            /\ v.seq <= s.epochs[e].counter + n
            /\ \A k \in 1 .. s.epochs[e].counter + n :
                 k > s.epochs[e].counter => \E v \in A : v.epoch = e /\ v.seq = k
            /\ \A v, w \in A : v.seq = w.seq <=> v.opId = w.opId
            /\ \A v \in A, w \in N :
                 w.epoch = e => v.seq # w.seq /\ v.opId # w.opId
<1> DEFINE A == Appended(s, e, n, fresh)
           c == s.epochs[e].counter
<1>1. c \in 0 .. Quota /\ Quota \in Nat
  BY ServerAssumption DEF Good, Typed, Database, EpochRow
<1> HIDE DEF c
<1>2. A = {[epoch |-> e, seq |-> c + i, opId |-> fresh[i]] : i \in 1 .. n}
  BY DEF Appended, c
<1>3. c + n <= Quota
  BY DEF c
<1> HIDE DEF A
<1>4. A \subseteq Envelope
  BY <1>1, <1>2, <1>3 DEF Envelope
<1>5. \A v \in A : v.epoch = e /\ v.seq > c /\ v.seq <= c + n
  BY <1>1, <1>2
<1>6. \A k \in 1 .. c + n : k > c => \E v \in A : v.epoch = e /\ v.seq = k
  <2>1. SUFFICES ASSUME NEW k \in 1 .. c + n, k > c
                 PROVE  \E v \in A : v.epoch = e /\ v.seq = k
    OBVIOUS
  <2>2. k - c \in 1 .. n /\ c + (k - c) = k
    BY <1>1, <2>1
  <2>3. [epoch |-> e, seq |-> c + (k - c), opId |-> fresh[k - c]] \in A
    BY <1>2, <2>2
  <2> QED BY <2>2, <2>3
<1>7. \A v, w \in A : v.seq = w.seq <=> v.opId = w.opId
  <2>1. SUFFICES ASSUME NEW i \in 1 .. n, NEW j \in 1 .. n
                 PROVE  c + i = c + j <=> fresh[i] = fresh[j]
    BY <1>2
  <2> QED BY <1>1 DEF Injective
<1>8. \A v \in A, w \in N : w.epoch = e => v.seq # w.seq /\ v.opId # w.opId
  <2>1. SUFFICES ASSUME NEW v \in A, NEW w \in N, w.epoch = e
                 PROVE  v.seq # w.seq /\ v.opId # w.opId
    OBVIOUS
  <2>2. w \in s.envelopes /\ w.seq <= c /\ w.seq \in Nat
    BY <2>1 DEF Good, Recorded, Queue, Typed, Envelope, c
  <2>3. w.opId \in Known(s, e)
    BY <2>1, <2>2 DEF Known
  <2>4. \E i \in 1 .. n : v.opId = fresh[i]
    BY <1>2
  <2>5. v.seq > c /\ v.seq \in Nat
    BY <1>4, <1>5 DEF Envelope
  <2> QED BY <1>1, <2>2, <2>3, <2>4, <2>5
<1> QED BY <1>4, <1>5, <1>6, <1>7, <1>8 DEF A, c

LEMMA SubmitGood ==
  ASSUME Good(db, numbered), NEW d \in Device, NEW e \in Epoch,
         NEW n \in 0 .. MaxBatch, NEW fresh \in [1 .. n -> OpId], Submit(d, e, n, fresh)
  PROVE  Good(db', numbered')
<1> DEFINE s == Swept(db)
           A == Appended(s, e, n, fresh)
           row == [s.epochs[e] EXCEPT !.counter = s.epochs[e].counter + n,
                     !.idle = IF n > 0 THEN 0 ELSE s.epochs[e].idle]
           V == s.envelopes \cup A
           R == [s.epochs EXCEPT ![e] = row]
<1>1. Good(s, numbered) /\ s \in Database /\ n \in Nat
  BY SweptGood, ServerAssumption DEF Good, Typed
<1>2. Live(s, AccountOf[d]) /\ AccountOf[d] \in Account
  BY SweptFields, ServerAssumption DEF Submit, Admitted, Live
<1>3. s.family = "live" /\ s.keyEpoch \in Epoch /\ s.epochs[s.keyEpoch].state = "active"
  BY <1>1, <1>2, LiveFamily
<1>4. /\ WritableEpoch(s, d, e) /\ Fits(s, e, n) /\ Injective(fresh)
      /\ \A i \in 1 .. n : fresh[i] \notin Known(s, e)
      /\ numbered' = numbered \cup A
  BY DEF Submit
<1>5. Writable(s, e)
  BY <1>3, <1>4 DEF WritableEpoch, Writable, StagingEpochs
<1>6. /\ A \subseteq Envelope
      /\ \A v \in A : /\ v.epoch = e /\ v.seq > s.epochs[e].counter
                      /\ v.seq <= s.epochs[e].counter + n
      /\ \A k \in 1 .. s.epochs[e].counter + n :
           k > s.epochs[e].counter => \E v \in A : v.epoch = e /\ v.seq = k
      /\ \A v, w \in A : v.seq = w.seq <=> v.opId = w.opId
      /\ \A v \in A, w \in numbered :
           w.epoch = e => v.seq # w.seq /\ v.opId # w.opId
  BY <1>1, <1>4, <1>5, AppendedFresh DEF Fits
<1>7. s.epochs[e] \in EpochRow /\ s.epochs[e].counter \in Nat
  BY <1>1, ServerAssumption DEF Database, EpochRow
<1>8. /\ row \in EpochRow /\ row.state = s.epochs[e].state
      /\ row.counter = s.epochs[e].counter + n /\ row.freeze = s.epochs[e].freeze
  <2>1. s.epochs[e].counter + n \in 0 .. Quota
    BY <1>1, <1>4, <1>7, ServerAssumption DEF Fits
  <2>2. (IF n > 0 THEN 0 ELSE s.epochs[e].idle) \in 0 .. IdleTimeout
    BY <1>7, ServerAssumption DEF EpochRow
  <2> QED BY <1>7, <2>1, <2>2 DEF EpochRow
<1>9. db' = [s EXCEPT !.envelopes = V, !.epochs = R]
  BY <1>1, <1>7 DEF Submit, Database
<1> HIDE DEF s, A, row
<1>10. /\ R \in [Epoch -> EpochRow] /\ R[e] = row
       /\ \A f \in Epoch : f # e => R[f] = s.epochs[f]
  BY <1>1, <1>8 DEF Database
<1>11. V \subseteq Envelope
  BY <1>1, <1>6 DEF Database
<1> HIDE DEF V, R
<1> DEFINE t == db'
<1>12. /\ t \in Database /\ t.envelopes = V /\ t.epochs = R
       /\ t.family = s.family /\ t.member = s.member /\ t.keyEpoch = s.keyEpoch
       /\ t.maxKeyEpoch = s.maxKeyEpoch /\ t.invites = s.invites
  BY <1>1, <1>9, <1>10, <1>11 DEF Database
<1> HIDE DEF t
<1>13. \A f \in Epoch : /\ t.epochs[f].state = s.epochs[f].state
                        /\ t.epochs[f].freeze = s.epochs[f].freeze
  BY <1>8, <1>10, <1>12
<1>14. StagingEpochs(t) = StagingEpochs(s)
  BY <1>13 DEF StagingEpochs
<1>15. Typed(t, numbered')
  BY <1>1, <1>4, <1>6, <1>12 DEF Good, Typed
<1>16. Table(t)
  BY <1>1, <1>3, <1>12, <1>13, <1>14 DEF Good, Table
<1>17. \A f \in Epoch : Writable(t, f) <=> Writable(s, f)
  BY <1>13 DEF Writable
<1>18. \A v \in numbered : v.epoch \in Epoch /\ v.seq \in Nat
  BY <1>1 DEF Good, Typed, Envelope
<1>19. t.envelopes = s.envelopes \cup A /\ s.envelopes \subseteq numbered
  BY <1>1, <1>12 DEF V, Good, Recorded
<1>20. Recorded(t, numbered')
  <2>1. \A v \in numbered' : /\ t.family # "none"
                             /\ t.family = "live" => v.epoch <= t.maxKeyEpoch
    BY <1>1, <1>3, <1>4, <1>5, <1>6, <1>12 DEF Good, Recorded, Table, Writable
  <2>2. \A v \in numbered' : Writable(t, v.epoch) => v \in t.envelopes
    BY <1>1, <1>4, <1>17, <1>18, <1>19 DEF Good, Recorded
  <2>3. \A v, w \in numbered' : v.epoch = w.epoch => (v.seq = w.seq <=> v.opId = w.opId)
    BY <1>1, <1>4, <1>6 DEF Good, Recorded
  <2> QED BY <1>4, <1>19, <2>1, <2>2, <2>3 DEF Recorded
<1>21. Queue(t)
  <2>1. \A v \in t.envelopes : Writable(t, v.epoch) /\ v.seq <= t.epochs[v.epoch].counter
    <3>1. SUFFICES ASSUME NEW v \in t.envelopes
                   PROVE  Writable(t, v.epoch) /\ v.seq <= t.epochs[v.epoch].counter
      OBVIOUS
    <3>2. CASE v \in A
      BY <1>5, <1>6, <1>8, <1>10, <1>12, <1>17, <3>2
    <3>3. CASE v \in s.envelopes
      <4>1. /\ v.epoch \in Epoch /\ v.seq \in Nat /\ Writable(t, v.epoch)
            /\ v.seq <= s.epochs[v.epoch].counter
        BY <1>1, <1>17, <1>18, <1>19, <3>3 DEF Good, Queue
      <4>2. CASE v.epoch = e
        BY <1>1, <1>7, <1>8, <1>10, <1>12, <4>1, <4>2
      <4>3. CASE v.epoch # e
        BY <1>10, <1>12, <4>1, <4>3
      <4> QED BY <4>2, <4>3
    <3> QED BY <1>19, <3>2, <3>3
  <2>2. \A v, w \in t.envelopes : v.epoch = w.epoch => (v.seq = w.seq <=> v.opId = w.opId)
    BY <1>20 DEF Recorded
  <2>3. ASSUME NEW f \in Epoch, Writable(t, f), NEW k \in 1 .. t.epochs[f].counter
        PROVE  \E v \in t.envelopes : v.epoch = f /\ v.seq = k
    <3>1. CASE f = e /\ k > s.epochs[e].counter
      BY <1>6, <1>8, <1>10, <1>12, <1>19, <2>3, <3>1
    <3>2. CASE ~(f = e /\ k > s.epochs[e].counter)
      <4>1. k \in 1 .. s.epochs[f].counter
        BY <1>7, <1>8, <1>10, <1>12, <2>3, <3>2
      <4> QED BY <1>1, <1>17, <1>19, <2>3, <4>1 DEF Good, Queue
    <3> QED BY <3>1, <3>2
  <2> QED BY <2>1, <2>2, <2>3 DEF Queue
<1>22. Frozen(t)
  <2>1. SUFFICES ASSUME NEW f \in StagingEpochs(s)
                 PROVE  t.epochs[f].freeze = t.epochs[t.keyEpoch].counter
    BY <1>14 DEF Frozen
  <2>2. f \in Epoch /\ s.epochs[f].freeze = s.epochs[s.keyEpoch].counter
    BY <1>1 DEF Good, Frozen, StagingEpochs
  <2>3. e \in StagingEpochs(s) /\ e # s.keyEpoch
    BY <1>3, <1>4, <2>1 DEF WritableEpoch, StagingEpochs
  <2> QED BY <1>3, <1>10, <1>12, <1>13, <2>2, <2>3
<1> QED BY <1>15, <1>16, <1>20, <1>21, <1>22 DEF Good, t

LEMMA DeclareGood ==
  ASSUME Good(db, numbered), NEW d \in Device, Declare(d)
  PROVE  Good(db', numbered')
<1> DEFINE s == Swept(db)
           next == NextEpoch(s)
           row == StagedBy(s, d)
           R == [s.epochs EXCEPT ![next] = row]
<1>1. Good(s, numbered) /\ s \in Database
  BY SweptGood DEF Good, Typed
<1>2. Live(s, AccountOf[d]) /\ AccountOf[d] \in Account
  BY SweptFields, ServerAssumption DEF Declare, Admitted, Live
<1>3. s.family = "live" /\ s.keyEpoch \in Epoch /\ s.epochs[s.keyEpoch].state = "active"
  BY <1>1, <1>2, LiveFamily
<1>4. /\ next = s.maxKeyEpoch + 1 /\ next <= MaxEpoch
      /\ StagingEpochs(s) = {} /\ numbered' = numbered
  BY DEF Declare, NextEpoch, MayDeclare
<1>5. s.maxKeyEpoch \in Nat /\ next \in Epoch /\ next > s.keyEpoch
  BY <1>1, <1>3, <1>4, ServerAssumption DEF Database, Epoch, Good, Table
<1>6. s.epochs[s.keyEpoch].counter \in 0 .. Quota
  BY <1>1, <1>3 DEF Database, EpochRow
<1>7. /\ row \in EpochRow /\ row.state = "staging" /\ row.counter = 0
      /\ row.freeze = s.epochs[s.keyEpoch].counter
  BY <1>6, NoRowTyped DEF StagedBy, NoRow, EpochRow
<1>8. db' = [s EXCEPT !.maxKeyEpoch = next, !.epochs = R]
  BY <1>1 DEF Declare, Database
<1> HIDE DEF s, next, row
<1>9. /\ R \in [Epoch -> EpochRow] /\ R[next] = row
      /\ \A f \in Epoch : f # next => R[f] = s.epochs[f]
  BY <1>1, <1>5, <1>7 DEF Database
<1> HIDE DEF R
<1> DEFINE t == db'
<1>10. /\ t \in Database /\ t.maxKeyEpoch = next /\ t.epochs = R
       /\ t.family = s.family /\ t.member = s.member /\ t.keyEpoch = s.keyEpoch
       /\ t.envelopes = s.envelopes /\ t.invites = s.invites
  <2>1. next \in 0 .. MaxEpoch
    BY <1>5 DEF Epoch
  <2>2. t \in Database
    BY <1>1, <1>8, <1>9, <2>1 DEF Database
  <2> QED BY <1>1, <1>8, <2>2 DEF Database
<1> HIDE DEF t
<1>11. StagingEpochs(t) = {next}
  BY <1>4, <1>5, <1>7, <1>9, <1>10 DEF StagingEpochs
<1>12. Typed(t, numbered')
  BY <1>1, <1>4, <1>10 DEF Good, Typed
<1>13. \A f \in Epoch : s.epochs[f].state # "none" => f <= s.maxKeyEpoch /\ f # next
  BY <1>1, <1>4, <1>5 DEF Good, Table
<1>14. Table(t)
  BY <1>1, <1>3, <1>4, <1>5, <1>7, <1>9, <1>10, <1>11, <1>13 DEF Good, Table, Epoch
<1>15. \A v \in numbered : v.epoch \in Epoch /\ v.epoch # next /\ v.epoch <= next /\ v.seq \in Nat
  BY <1>1, <1>3, <1>4, <1>5 DEF Good, Recorded, Typed, Envelope, Epoch
<1>16. \A f \in Epoch : f # next => (Writable(t, f) <=> Writable(s, f))
  BY <1>9, <1>10 DEF Writable
<1>17. Recorded(t, numbered')
  BY <1>1, <1>3, <1>4, <1>10, <1>15, <1>16 DEF Good, Recorded
<1>18. Queue(t)
  BY <1>1, <1>7, <1>9, <1>10, <1>15, <1>16 DEF Good, Queue, Recorded
<1>19. Frozen(t)
  <2>1. t.keyEpoch # next /\ t.epochs[t.keyEpoch] = s.epochs[s.keyEpoch]
    BY <1>3, <1>5, <1>9, <1>10 DEF Epoch
  <2> QED BY <1>7, <1>9, <1>10, <1>11, <2>1 DEF Frozen
<1> QED BY <1>12, <1>14, <1>17, <1>18, <1>19 DEF Good, t

LEMMA CompleteGood ==
  ASSUME Good(db, numbered), NEW d \in Device, NEW e \in Epoch, Complete(d, e)
  PROVE  Good(db', numbered')
<1> DEFINE s == Swept(db)
           k == s.keyEpoch
           old == [s.epochs[k] EXCEPT !.state = "retired"]
           row == Activated(s.epochs[e])
           R == [f \in Epoch |-> IF f = e THEN row
                                 ELSE IF f = k THEN old ELSE s.epochs[f]]
           V == {v \in s.envelopes : v.epoch # k}
<1>1. Good(s, numbered) /\ s \in Database
  BY SweptGood DEF Good, Typed
<1>2. Live(s, AccountOf[d]) /\ AccountOf[d] \in Account
  BY SweptFields, ServerAssumption DEF Complete, Admitted, Live
<1>3. s.family = "live" /\ k \in Epoch /\ s.epochs[k].state = "active"
  BY <1>1, <1>2, LiveFamily
<1>4. s.epochs[e].state = "staging" /\ numbered' = numbered /\ e # k
  BY <1>3 DEF Complete, MayComplete, Leads
<1>5. /\ row \in EpochRow /\ row.state = "active" /\ row.counter = s.epochs[e].counter
      /\ old \in EpochRow /\ old.state = "retired"
  <2>1. s.epochs[e] \in EpochRow /\ s.epochs[k] \in EpochRow
    BY <1>1, <1>3 DEF Database
  <2>2. NoDevice \in Device \cup {NoDevice} /\ 0 \in 0 .. IdleTimeout /\ 0 \in 0 .. HardTimeout
    BY ServerAssumption
  <2>3. row \in EpochRow /\ row.state = "active" /\ row.counter = s.epochs[e].counter
    BY <2>1, <2>2 DEF Activated, EpochRow
  <2>4. old \in EpochRow /\ old.state = "retired"
    BY <2>1 DEF EpochRow
  <2> QED BY <2>3, <2>4
<1>6. db' = [s EXCEPT !.epochs = R, !.keyEpoch = e, !.envelopes = V, !.invites = {}]
  BY <1>1, <1>3, <1>4 DEF Complete, Switched, Database
<1> HIDE DEF s, k, row, old
<1>7. /\ R \in [Epoch -> EpochRow] /\ R[e] = row /\ R[k] = old
      /\ \A f \in Epoch : f # e /\ f # k => R[f] = s.epochs[f]
  BY <1>1, <1>3, <1>4, <1>5 DEF Database
<1>8. V \subseteq s.envelopes /\ s.envelopes \subseteq Envelope /\ \A v \in V : v.epoch # k
  BY <1>1 DEF Database
<1> HIDE DEF R
<1> DEFINE t == db'
<1>9. /\ t \in Database /\ t.keyEpoch = e /\ t.maxKeyEpoch = s.maxKeyEpoch /\ t.epochs = R
      /\ t.family = s.family /\ t.member = s.member
      /\ t.envelopes = V /\ t.invites = {}
  <2>1. e \in 0 .. MaxEpoch /\ V \in SUBSET Envelope
    BY <1>8 DEF Epoch
  <2> HIDE DEF V
  <2> QED BY <1>1, <1>6, <1>7, <2>1 DEF Database
<1> HIDE DEF t
<1>10. k = s.keyEpoch /\ e > k /\ k \in Nat /\ e <= s.maxKeyEpoch /\ \A f \in Epoch : f \in Nat
  BY <1>1, <1>3, <1>4 DEF Good, Table, Epoch, k
<1>11. \A f \in Epoch : s.epochs[f].state = "staging" => f = e
  BY <1>1, <1>4 DEF Good, Table, StagingEpochs
<1>12. StagingEpochs(t) = {}
  BY <1>5, <1>7, <1>9, <1>11 DEF StagingEpochs
<1>13. Typed(t, numbered')
  BY <1>1, <1>4, <1>9 DEF Good, Typed
<1>14. Table(t)
  <2>1. \A f \in Epoch :
          /\ t.epochs[f].state = "active" <=> f = e
          /\ t.epochs[f].state = "retired" => f < e
          /\ t.epochs[f].state # "staging"
          /\ t.epochs[f].state # "none" => f <= t.maxKeyEpoch
    <3>1. SUFFICES ASSUME NEW f \in Epoch
          PROVE  /\ t.epochs[f].state = "active" <=> f = e
                 /\ t.epochs[f].state = "retired" => f < e
                 /\ t.epochs[f].state # "staging"
                 /\ t.epochs[f].state # "none" => f <= t.maxKeyEpoch
      OBVIOUS
    <3>2. /\ s.epochs[f].state = "active" <=> f = k
          /\ s.epochs[f].state = "retired" => f < k
          /\ s.epochs[f].state # "none" => f <= s.maxKeyEpoch
      BY <1>1, <1>10 DEF Good, Table
    <3>3. f \in Nat /\ e \in Nat /\ k \in Nat /\ k < e /\ e <= s.maxKeyEpoch
          /\ s.maxKeyEpoch \in Nat
      BY <1>1, <1>10, ServerAssumption DEF Database
    <3>4. CASE f = e
      BY <1>5, <1>7, <1>9, <3>3, <3>4
    <3>5. CASE f = k
      BY <1>4, <1>5, <1>7, <1>9, <3>2, <3>3, <3>5
    <3>6. CASE f # e /\ f # k
      BY <1>7, <1>9, <1>11, <3>2, <3>3, <3>6
    <3> QED BY <3>4, <3>5, <3>6
  <2>2. e > 0 /\ s.family = "live" /\ e <= t.maxKeyEpoch
    BY <1>3, <1>9, <1>10
  <2>3. \A f \in Epoch : t.epochs[f].state = "staging" => f > t.keyEpoch
    BY <2>1
  <2> QED BY <1>9, <1>12, <2>1, <2>2, <2>3 DEF Table
<1>15. \A f \in Epoch : Writable(t, f) <=> f = e
  <2>1. \A f \in Epoch : s.epochs[f].state = "active" => f = k
    BY <1>1, <1>10 DEF Good, Table
  <2> QED BY <1>5, <1>7, <1>9, <1>11, <2>1 DEF Writable
<1>16. Writable(s, e) /\ t.epochs[e].counter = s.epochs[e].counter
  BY <1>4, <1>5, <1>7, <1>9 DEF Writable
<1>17. \A v \in numbered : v.epoch \in Epoch
  BY <1>1 DEF Good, Typed, Envelope
<1>18. s.envelopes \subseteq numbered
  BY <1>1 DEF Good, Recorded
<1>19. \A v \in s.envelopes : v \in V <=> v.epoch = e
  BY <1>1, <1>4, <1>8, <1>10, <1>11, <1>17, <1>18 DEF Good, Queue, Writable, Table
<1> HIDE DEF V
<1>20. Recorded(t, numbered')
  BY <1>1, <1>3, <1>4, <1>8, <1>9, <1>15, <1>16, <1>17, <1>19 DEF Good, Recorded
<1>21. Queue(t)
  BY <1>1, <1>8, <1>9, <1>15, <1>16, <1>19 DEF Good, Queue
<1>22. Frozen(t)
  BY <1>12 DEF Frozen
<1> QED BY <1>13, <1>14, <1>20, <1>21, <1>22 DEF Good, t

LEMMA CancelRequestGood ==
  ASSUME Good(db, numbered), NEW d \in Device, Cancel(d)
  PROVE  Good(db', numbered')
  BY SweptGood, CancelGood DEF Cancel

(* A step that leaves the queue alone needs no more than its typing and    *)
(* that members and invites appear only in a family that exists.           *)
LEMMA FamilyHolds ==
  ASSUME NEW s, NEW N, Good(s, N), NEW t, SameQueue(s, t), s.family = "live"
  PROVE  Good(t, N)
<1>1. t.family = "live"
  BY DEF SameQueue
<1> QED BY <1>1, SameQueueGood

LEMMA UploadKeysGood ==
  ASSUME Good(db, numbered), NEW d \in Device, NEW e \in Epoch,
         NEW targets \in SUBSET Device, NEW confirm \in BOOLEAN,
         UploadKeys(d, e, targets, confirm)
  PROVE  Good(db', numbered')
<1> DEFINE s == Swept(db)
           W == {w \in s.wraps : w.epoch # e \/ w.device \notin targets}
                  \cup {[epoch |-> e, device |-> t, sender |-> d] : t \in targets}
           C == IF confirm THEN s.confirmed \cup {e} ELSE s.confirmed
           row == [s.epochs[e] EXCEPT
                     !.idle = IF targets # {} \/ confirm THEN 0 ELSE s.epochs[e].idle]
           R == [s.epochs EXCEPT ![e] = row]
<1>1. Good(s, numbered) /\ s \in Database
  BY SweptGood DEF Good, Typed
<1>2. Live(s, AccountOf[d]) /\ AccountOf[d] \in Account
  BY SweptFields, ServerAssumption DEF UploadKeys, Admitted, Live
<1>3. s.family = "live"
  BY <1>1, <1>2, LiveFamily
<1>4. s.epochs[e].state = "staging" /\ numbered' = numbered
  BY DEF UploadKeys, Leads
<1>5. s.epochs[e] \in EpochRow
  BY <1>1 DEF Database
<1>6. /\ row \in EpochRow /\ row.state = s.epochs[e].state
      /\ row.counter = s.epochs[e].counter /\ row.freeze = s.epochs[e].freeze
  <2>1. (IF targets # {} \/ confirm THEN 0 ELSE s.epochs[e].idle) \in 0 .. IdleTimeout
    BY <1>5, ServerAssumption DEF EpochRow
  <2> QED BY <1>5, <2>1 DEF EpochRow
<1>7. /\ W \in SUBSET Wrap /\ C \in SUBSET Epoch
  BY <1>1 DEF Database, Wrap
<1>8. db' = [s EXCEPT !.wraps = W, !.confirmed = C, !.epochs = R]
  BY <1>1, <1>5 DEF UploadKeys, Database
<1> HIDE DEF s, row, W, C
<1>9. /\ R \in [Epoch -> EpochRow] /\ R[e] = row
      /\ \A f \in Epoch : f # e => R[f] = s.epochs[f]
  BY <1>1, <1>6 DEF Database
<1> HIDE DEF R
<1>10. db' \in Database
  BY <1>1, <1>7, <1>8, <1>9 DEF Database
<1>11. /\ db'.family = s.family /\ db'.keyEpoch = s.keyEpoch
       /\ db'.maxKeyEpoch = s.maxKeyEpoch
       /\ db'.envelopes = s.envelopes /\ db'.epochs = R
  BY <1>1, <1>8 DEF Database
<1>12. SameQueue(s, db')
  BY <1>4, <1>6, <1>9, <1>10, <1>11 DEF SameQueue, NoRow
<1> QED BY <1>1, <1>3, <1>4, <1>12, FamilyHolds

LEMMA HandOverGood ==
  ASSUME Good(db, numbered), NEW d \in Device, NEW u \in Device, HandOver(d, u)
  PROVE  Good(db', numbered')
<1> DEFINE s == Swept(db)
           slot == {w \in s.wraps : w.epoch = s.keyEpoch /\ w.device = u}
           W == (s.wraps \ slot)
                  \cup {[epoch |-> s.keyEpoch, device |-> u, sender |-> d]}
<1>1. Good(s, numbered) /\ s \in Database
  BY SweptGood DEF Good, Typed
<1>2. Live(s, AccountOf[d]) /\ AccountOf[d] \in Account
  BY SweptFields, ServerAssumption DEF HandOver, Admitted, Live
<1>3. s.family = "live" /\ s.keyEpoch \in Epoch
  BY <1>1, <1>2, LiveFamily
<1>4. W \in SUBSET Wrap
  BY <1>1, <1>3 DEF Database, Wrap
<1>5. db' = [s EXCEPT !.wraps = W] /\ numbered' = numbered
  BY <1>1 DEF HandOver, Database
<1> HIDE DEF s, W
<1>6. SameQueue(s, db')
  BY <1>1, <1>4, <1>5 DEF Database, SameQueue
<1> QED BY <1>1, <1>3, <1>5, <1>6, FamilyHolds

LEMMA CreateInviteGood ==
  ASSUME Good(db, numbered), NEW d \in Device, NEW i \in Invite, CreateInvite(d, i)
  PROVE  Good(db', numbered')
<1> DEFINE s == Swept(db)
           I == (s.invites \ Unused(s)) \cup
             {[id |-> i, epoch |-> s.keyEpoch, ttl |-> InviteTtl, used |-> FALSE]}
<1>1. Good(s, numbered) /\ s \in Database
  BY SweptGood DEF Good, Typed
<1>2. Live(s, AccountOf[d]) /\ AccountOf[d] \in Account
  BY SweptFields, ServerAssumption DEF CreateInvite, Admitted, Live
<1>3. s.family = "live" /\ s.keyEpoch \in Epoch
  BY <1>1, <1>2, LiveFamily
<1>4. I \in SUBSET InviteRow
  <2>1. [id |-> i, epoch |-> s.keyEpoch, ttl |-> InviteTtl, used |-> FALSE] \in InviteRow
    BY <1>3, ServerAssumption DEF InviteRow
  <2>2. s.invites \subseteq InviteRow
    BY <1>1 DEF Database
  <2> QED BY <2>1, <2>2
<1>5. db' = [s EXCEPT !.invites = I] /\ numbered' = numbered
  BY <1>1 DEF CreateInvite, Database
<1> HIDE DEF s, I
<1>6. SameQueue(s, db')
  BY <1>1, <1>4, <1>5 DEF Database, SameQueue
<1> QED BY <1>1, <1>3, <1>5, <1>6, FamilyHolds

LEMMA JoinGood ==
  ASSUME Good(db, numbered), NEW d \in Device, NEW i \in db.invites, Join(d, i)
  PROVE  Good(db', numbered')
<1> DEFINE I == (db.invites \ {i}) \cup {[i EXCEPT !.used = TRUE]}
           M == [db.member EXCEPT ![AccountOf[d]] = "member"]
<1>1. db \in Database /\ AccountOf[d] \in Account
  BY ServerAssumption DEF Good, Typed
<1>2. db.family = "live"
  BY DEF Good, Table
<1>3. i \in InviteRow
  BY <1>1 DEF Database
<1>4. I \in SUBSET InviteRow
  BY <1>1, <1>3 DEF Database, InviteRow
<1>5. M \in [Account -> {"none", "owner", "member", "removed", "deleted"}]
  BY <1>1 DEF Database
<1>6. db' = [db EXCEPT !.member = M, !.invites = I] /\ numbered' = numbered
  BY <1>1 DEF Join, Database
<1> HIDE DEF I, M
<1>7. db' \in Database
  BY <1>1, <1>4, <1>5, <1>6 DEF Database
<1>8. SameQueue(db, db')
  BY <1>1, <1>6, <1>7 DEF Database, SameQueue
<1> QED BY <1>2, <1>6, <1>8, FamilyHolds

LEMMA TickGood ==
  ASSUME Good(db, numbered), Tick
  PROVE  Good(db', numbered')
<1> DEFINE row(e) == Aged(db.epochs[e])
           R == [e \in Epoch |-> row(e)]
           I == {[i EXCEPT !.ttl = i.ttl - 1] : i \in {j \in db.invites : j.ttl > 1}}
<1>1. db \in Database
  BY DEF Good, Typed
<1>2. ASSUME NEW e \in Epoch
      PROVE  /\ row(e) \in EpochRow /\ row(e).state = db.epochs[e].state
             /\ row(e).counter = db.epochs[e].counter
             /\ row(e).freeze = db.epochs[e].freeze
             /\ db.epochs[e] = NoRow => row(e) = NoRow
  <2>1. db.epochs[e] \in EpochRow
    BY <1>1 DEF Database
  <2>2. /\ Capped(db.epochs[e].idle, IdleTimeout) \in 0 .. IdleTimeout
        /\ Capped(db.epochs[e].age, HardTimeout) \in 0 .. HardTimeout
    BY <2>1, ServerAssumption DEF EpochRow, Capped
  <2>3. CASE db.epochs[e].state = "staging"
    <3>1. db.epochs[e] # NoRow
      BY <2>3 DEF NoRow
    <3>2. row(e) = [db.epochs[e] EXCEPT
                      !.idle = Capped(db.epochs[e].idle, IdleTimeout),
                      !.age = Capped(db.epochs[e].age, HardTimeout)]
      BY <2>3 DEF Aged
    <3> HIDE DEF row
    <3> QED BY <2>1, <2>2, <3>1, <3>2 DEF EpochRow
  <2>4. CASE db.epochs[e].state # "staging"
    BY <2>1, <2>4 DEF Aged
  <2> QED BY <2>3, <2>4
<1> HIDE DEF row
<1>3. R \in [Epoch -> EpochRow] /\ \A e \in Epoch : R[e] = row(e)
  BY <1>2
<1>4. I \in SUBSET InviteRow
  <2>1. SUFFICES ASSUME NEW i \in db.invites, i.ttl > 1
                 PROVE  [i EXCEPT !.ttl = i.ttl - 1] \in InviteRow
    OBVIOUS
  <2>2. i \in InviteRow
    BY <1>1 DEF Database
  <2>3. i.ttl - 1 \in 1 .. InviteTtl
    BY <2>1, <2>2, ServerAssumption DEF InviteRow
  <2> QED BY <2>2, <2>3 DEF InviteRow
<1>5. db' = [db EXCEPT !.epochs = R, !.invites = I] /\ numbered' = numbered
  <2>1. numbered' = numbered
    BY DEF Tick
  <2>2. db' = [db EXCEPT !.epochs = [e \in Epoch |-> row(e)], !.invites = I]
    BY DEF Tick, row
  <2> QED BY <2>1, <2>2
<1>6. I # {} => db.family = "live"
  BY DEF Good, Table
<1> HIDE DEF R, I
<1>7. db' \in Database
  BY <1>1, <1>3, <1>4, <1>5 DEF Database
<1>8. /\ db'.family = db.family /\ db'.keyEpoch = db.keyEpoch
      /\ db'.maxKeyEpoch = db.maxKeyEpoch /\ db'.envelopes = db.envelopes
      /\ db'.epochs = R /\ db'.invites = I /\ db'.member = db.member
  BY <1>1, <1>5 DEF Database
<1>9. SameQueue(db, db')
  BY <1>2, <1>3, <1>7, <1>8 DEF SameQueue
<1>10. /\ \A a \in Account :
            db'.member[a] \in {"owner", "member", "removed"} => db'.family = "live"
       /\ db'.invites # {} => db'.family = "live"
  BY <1>6, <1>8 DEF Good, Table
<1> QED BY <1>5, <1>9, <1>10, SameQueueGood

-----------------------------------------------------------------------------
LEMMA InitGood == Init => Good(db, numbered)
<1> SUFFICES ASSUME Init PROVE Good(db, numbered)
  OBVIOUS
<1>1. \A e \in Epoch : db.epochs[e] = NoRow /\ db.epochs[e].state = "none" /\ e # 0
  BY DEF Init, EmptyDatabase, NoRow, Epoch
<1>2. StagingEpochs(db) = {}
  BY <1>1 DEF StagingEpochs
<1>3. db \in Database
  BY NoRowTyped, ServerAssumption DEF Init, EmptyDatabase, Database
<1>4. /\ db.family = "none" /\ db.keyEpoch = 0 /\ db.maxKeyEpoch = 0
      /\ db.envelopes = {} /\ db.invites = {} /\ numbered = {}
      /\ \A a \in Account : db.member[a] = "none"
  BY DEF Init, EmptyDatabase
<1>5. Table(db)
  BY <1>1, <1>2, <1>4 DEF Table
<1>6. Queue(db)
  BY <1>1, <1>4 DEF Queue, Writable
<1> QED BY <1>2, <1>3, <1>4, <1>5, <1>6 DEF Good, Typed, Recorded, Frozen

Invariant == Good(db, numbered)

LEMMA NextGood == Invariant /\ [Next]_vars => Invariant'
<1> SUFFICES ASSUME Good(db, numbered), [Next]_vars PROVE Good(db', numbered')
  BY DEF Invariant
<1>1. CASE \E d \in Device : SignIn(d) \/ CreateFamily(d) \/ Poll(d) \/ Leave(d)
                             \/ DeleteAccount(d) \/ Declare(d) \/ Cancel(d)
  BY <1>1, SignInGood, CreateFamilyGood, PollGood, LeaveGood, DeleteAccountGood,
     DeclareGood, CancelRequestGood
<1>2. CASE \E d, t \in Device : RevokeDevice(d, t) \/ HandOver(d, t)
  BY <1>2, RevokeDeviceGood, HandOverGood
<1>3. CASE \E d \in Device, a \in Account : RemoveMember(d, a)
  BY <1>3, RemoveMemberGood
<1>4. CASE \E d \in Device, e \in Epoch, n \in 0 .. MaxBatch :
             \E fresh \in [1 .. n -> OpId] : Submit(d, e, n, fresh)
  BY <1>4, SubmitGood
<1>5. CASE \E d \in Device, e \in Epoch, targets \in SUBSET Device, confirm \in BOOLEAN :
             UploadKeys(d, e, targets, confirm)
  BY <1>5, UploadKeysGood
<1>6. CASE \E d \in Device, e \in Epoch : Complete(d, e)
  BY <1>6, CompleteGood
<1>7. CASE \E d \in Device, i \in Invite : CreateInvite(d, i)
  BY <1>7, CreateInviteGood
<1>8. CASE \E d \in Device : \E i \in db.invites : Join(d, i)
  BY <1>8, JoinGood
<1>9. CASE Tick
  BY <1>9, TickGood
<1>10. CASE UNCHANGED vars
  BY <1>10 DEF vars, Good, Typed, Table, Queue, Recorded, Frozen, Writable, StagingEpochs
<1> QED BY <1>1, <1>2, <1>3, <1>4, <1>5, <1>6, <1>7, <1>8, <1>9, <1>10 DEF Next

(* What the tables of the database and the numbers given out look like, in *)
(* every state the server of one family reaches.                           *)
THEOREM ServerInvariant == Spec => []Invariant
<1>1. Init => Invariant
  BY InitGood DEF Invariant
<1> QED BY <1>1, NextGood, PTL DEF Spec

(* The database holds the rows db.ts declares.                             *)
THEOREM ServerTypeOK == Spec => []TypeOK
<1>1. Invariant => TypeOK
  BY DEF Invariant, Good, Typed, TypeOK
<1> QED BY <1>1, ServerInvariant, PTL

(* One epoch in force, one staged at most, the table ordered around them.  *)
THEOREM ServerEpochTable == Spec => []EpochTable
<1>1. Invariant => EpochTable
  BY DEF Invariant, Good, Table, EpochTable
<1> QED BY <1>1, ServerInvariant, PTL

(* A device that asks for the numbers after its cursor is never shown a    *)
(* gap the server made, however batches, rotations and their sweeps mix.   *)
THEOREM ServerQueueContiguous == Spec => []QueueContiguous
<1>1. Invariant => QueueContiguous
  BY DEF Invariant, Good, Queue, QueueContiguous, Writable
<1> QED BY <1>1, ServerInvariant, PTL

(* No number of an epoch is ever given to a second operation: cancelled    *)
(* attempts burn their epoch number, so their numbering cannot come back.  *)
THEOREM ServerNumbersNeverReassigned == Spec => []NumbersNeverReassigned
<1>1. Invariant => NumbersNeverReassigned
  BY DEF Invariant, Good, Recorded, NumbersNeverReassigned
<1> QED BY <1>1, ServerInvariant, PTL

(* The journal a rotation is copying does not grow behind it.              *)
THEOREM ServerFreezeHolds == Spec => []FreezeHolds
<1>1. Invariant => FreezeHolds
  BY DEF Invariant, Good, Frozen, FreezeHolds
<1> QED BY <1>1, ServerInvariant, PTL

-----------------------------------------------------------------------------
(* The keys the server stores: wraps, confirmations, the leader of a       *)
(* staged rotation and the invites, and what a request may take away from  *)
(* the epoch in force.                                                     *)

(* The family has one owner: nobody is made owner but by founding it.      *)
OneOwner(s) ==
  \A a, b \in Account : s.member[a] = "owner" /\ s.member[b] = "owner" => a = b

(* NoOrphanKeys of s.                                                      *)
Housed(s) ==
  /\ \A w \in s.wraps : s.epochs[w.epoch].state # "none"
  /\ \A e \in s.confirmed : s.epochs[e].state # "none"

(* ChainConfirmed of s.                                                    *)
Chained(s) ==
  \A e \in Epoch : s.epochs[e].state \in {"active", "retired"} => e = 1 \/ e \in s.confirmed

(* StagedByOwner of s.                                                     *)
Led(s) ==
  \A e \in StagingEpochs(s) :
    s.epochs[e].leader \in Device /\ IsOwner(s, s.epochs[e].leader)

(* InvitesRedeemable of s.                                                 *)
Redeemable(s) ==
  \A i, j \in Unused(s) :
    /\ i = j
    /\ i.epoch = s.keyEpoch
    /\ \E a \in Account : s.member[a] = "owner"

Keys(s) == OneOwner(s) /\ Housed(s) /\ Chained(s) /\ Led(s) /\ Redeemable(s)

(* What a step from s to t may not take from the epoch in force.           *)
Keeps(s, t) ==
  /\ \A v \in s.envelopes : v.epoch = s.keyEpoch /\ v \notin t.envelopes
       => \/ t.keyEpoch > s.keyEpoch
          \/ \A a, b \in Account : Live(s, a) /\ Live(s, b) => a = b
  /\ \A w \in s.wraps : w.epoch = s.keyEpoch /\ IsOwner(s, w.sender)
       => w \in t.wraps \/ t.device[w.device] = "absent" \/ t.family = "deleted"

Step(s, t) == Keys(t) /\ Keeps(s, t)

-----------------------------------------------------------------------------
(* Cancelling staged attempts, and the sweep before every request.         *)

LEMMA CancelKeyFields ==
  ASSUME NEW s \in Database, NEW D \in SUBSET Epoch
  PROVE  /\ CancelRotation(s, D).wraps = {w \in s.wraps : w.epoch \notin D}
         /\ CancelRotation(s, D).confirmed = s.confirmed \ D
  BY DEF CancelRotation, Database

(* A cancelled attempt takes its keys along, and no attempt is in force.   *)
LEMMA CancelKeys ==
  ASSUME NEW s, NEW N, Good(s, N), Keys(s), NEW D \in SUBSET StagingEpochs(s)
  PROVE  Step(s, CancelRotation(s, D))
<1> DEFINE t == CancelRotation(s, D)
<1> HIDE DEF t
<1>1. D \in SUBSET Epoch /\ s \in Database
  BY DEF StagingEpochs, Good, Typed
<1>2. /\ t.family = s.family /\ t.member = s.member /\ t.device = s.device
      /\ t.keyEpoch = s.keyEpoch /\ t.invites = s.invites
      /\ \A e \in Epoch : t.epochs[e] = IF e \in D THEN NoRow ELSE s.epochs[e]
      /\ t.envelopes = {v \in s.envelopes : v.epoch \notin D}
      /\ t.wraps = {w \in s.wraps : w.epoch \notin D}
      /\ t.confirmed = s.confirmed \ D
  BY <1>1, CancelFields, CancelKeyFields DEF t
<1>3. \A e \in D : s.epochs[e].state = "staging" /\ e # s.keyEpoch
  BY <1>1 DEF StagingEpochs, Good, Table
<1>4. \A e \in Epoch : e \in D => t.epochs[e].state = "none"
  BY <1>2 DEF NoRow
<1>5. s.confirmed \subseteq Epoch /\ \A w \in s.wraps : w.epoch \in Epoch
  BY <1>1 DEF Database, Wrap
<1>6. OneOwner(t)
  BY <1>2 DEF Keys, OneOwner
<1>7. Housed(t)
  BY <1>2, <1>5 DEF Keys, Housed
<1>8. Chained(t)
  BY <1>2, <1>4 DEF Keys, Chained
<1>9. Led(t)
  BY <1>2, <1>4 DEF Keys, Led, StagingEpochs, IsOwner
<1>10. Redeemable(t)
  BY <1>2 DEF Keys, Redeemable, Unused
<1>11. Keeps(s, t)
  BY <1>2, <1>3 DEF Keeps
<1> QED BY <1>6, <1>7, <1>8, <1>9, <1>10, <1>11 DEF Step, Keys, t

LEMMA SweptKeys ==
  ASSUME NEW s, NEW N, Good(s, N), Keys(s)
  PROVE  Step(s, Swept(s))
<1>1. {e \in Epoch : Overdue(s.epochs[e])} \subseteq StagingEpochs(s)
  BY DEF Overdue, StagingEpochs
<1> QED BY <1>1, CancelKeys DEF Swept

(* A request may be looked at from the swept database on.                  *)
LEMMA FromSwept ==
  ASSUME NEW s, NEW N, Good(s, N), NEW t, Step(Swept(s), t)
  PROVE  Step(s, t)
<1> DEFINE D == {e \in Epoch : Overdue(s.epochs[e])}
           r == Swept(s)
<1> HIDE DEF r
<1>1. D \in SUBSET Epoch /\ s \in Database
  BY DEF Good, Typed
<1>2. \A e \in D : e # s.keyEpoch
  BY DEF Overdue, Good, Table
<1>3. /\ r.envelopes = {v \in s.envelopes : v.epoch \notin D}
      /\ r.wraps = {w \in s.wraps : w.epoch \notin D}
      /\ r.member = s.member /\ r.keyEpoch = s.keyEpoch
  BY <1>1, CancelFields, CancelKeyFields DEF r, Swept
<1> HIDE DEF D
<1>4. Keys(t) /\ Keeps(r, t)
  BY DEF Step, r
<1>5. /\ \A a \in Account : Live(r, a) <=> Live(s, a)
      /\ \A d : IsOwner(r, d) <=> IsOwner(s, d)
  BY <1>3 DEF Live, IsOwner
<1>6. \A v \in s.envelopes : v.epoch = s.keyEpoch => v \in r.envelopes
  BY <1>2, <1>3
<1>7. \A w \in s.wraps : w.epoch = s.keyEpoch => w \in r.wraps
  BY <1>2, <1>3
<1>8. Keeps(s, t)
  BY <1>3, <1>4, <1>5, <1>6, <1>7 DEF Keeps
<1> QED BY <1>4, <1>8 DEF Step

(* A step that leaves members, epochs and keys alone.                      *)
LEMMA SameKeys ==
  ASSUME NEW s, Keys(s), NEW t,
         t.member = s.member, t.keyEpoch = s.keyEpoch,
         \A e \in Epoch : /\ t.epochs[e].state = s.epochs[e].state
                          /\ t.epochs[e].leader = s.epochs[e].leader,
         t.wraps = s.wraps, t.confirmed = s.confirmed, t.invites = s.invites,
         s.wraps \subseteq Wrap, s.confirmed \subseteq Epoch,
         s.envelopes \subseteq t.envelopes
  PROVE  Step(s, t)
<1>1. OneOwner(t)
  BY DEF Keys, OneOwner
<1>2. Housed(t) /\ Chained(t)
  BY DEF Keys, Housed, Chained, Wrap
<1>3. Led(t)
  BY DEF Keys, Led, StagingEpochs, IsOwner
<1>4. Redeemable(t)
  BY DEF Keys, Redeemable, Unused
<1>5. Keeps(s, t)
  BY DEF Keeps
<1> QED BY <1>1, <1>2, <1>3, <1>4, <1>5 DEF Step, Keys

-----------------------------------------------------------------------------
(* Accounts, devices and members.                                          *)

LEMMA SignInKeys ==
  ASSUME Good(db, numbered), Keys(db), NEW d \in Device, SignIn(d)
  PROVE  Step(db, db')
<1>1. db \in Database
  BY DEF Good, Typed
<1>2. /\ db'.member = db.member /\ db'.keyEpoch = db.keyEpoch /\ db'.epochs = db.epochs
      /\ db'.wraps = db.wraps /\ db'.confirmed = db.confirmed
      /\ db'.invites = db.invites /\ db'.envelopes = db.envelopes
  BY <1>1 DEF SignIn, Database
<1>3. db.wraps \subseteq Wrap /\ db.confirmed \subseteq Epoch
  BY <1>1 DEF Database
<1> QED BY <1>2, <1>3, SameKeys

LEMMA CreateFamilyKeys ==
  ASSUME Good(db, numbered), Keys(db), NEW d \in Device, CreateFamily(d)
  PROVE  Step(db, db')
<1> DEFINE a == AccountOf[d]
           row == [NoRow EXCEPT !.state = "active"]
<1>1. db \in Database /\ a \in Account /\ 1 \in Epoch
  BY ServerAssumption DEF CreateFamily, Good, Typed, Epoch
<1>2. /\ db.keyEpoch \notin Epoch
      /\ \A e \in Epoch : db.epochs[e] = NoRow
      /\ \A b \in Account : db.member[b] # "owner"
      /\ db.invites = {}
  BY <1>1 DEF CreateFamily, Good, Table, Database, Epoch
<1>3. db.wraps = {} /\ db.confirmed = {}
  BY <1>1, <1>2 DEF Keys, Housed, NoRow, Database, Wrap
<1>4. row.state = "active"
  BY DEF NoRow
<1>5. /\ db'.member = [db.member EXCEPT ![a] = "owner"]
      /\ db'.epochs = [db.epochs EXCEPT ![1] = row]
      /\ db'.wraps = {} /\ db'.confirmed = {} /\ db'.invites = {}
  BY <1>1, <1>2, <1>3 DEF CreateFamily, Database
<1> HIDE DEF row
<1>6. \A b \in Account : db'.member[b] = IF b = a THEN "owner" ELSE db.member[b]
  BY <1>1, <1>5 DEF Database
<1>7. \A e \in Epoch : db'.epochs[e] = IF e = 1 THEN row ELSE NoRow
  BY <1>1, <1>2, <1>5 DEF Database
<1>8. OneOwner(db')
  BY <1>2, <1>6 DEF OneOwner
<1>9. Housed(db') /\ Redeemable(db')
  BY <1>5 DEF Housed, Redeemable, Unused
<1>10. Chained(db') /\ Led(db')
  BY <1>4, <1>7 DEF Chained, Led, StagingEpochs, NoRow
<1>11. Keeps(db, db')
  BY <1>1, <1>2, <1>3 DEF Keeps, Database, Envelope
<1> QED BY <1>8, <1>9, <1>10, <1>11 DEF Step, Keys

LEMMA RevokedKeys ==
  ASSUME NEW s, NEW N, Good(s, N), Keys(s), NEW D
  PROVE  Step(s, Revoked(s, D))
<1> DEFINE t == Revoked(s, D)
<1>1. s \in Database
  BY DEF Good, Typed
<1>2. /\ t.member = s.member /\ t.keyEpoch = s.keyEpoch /\ t.epochs = s.epochs
      /\ t.wraps = s.wraps /\ t.confirmed = s.confirmed
      /\ t.invites = s.invites /\ t.envelopes = s.envelopes
  BY <1>1 DEF Revoked, Database
<1>3. s.wraps \subseteq Wrap /\ s.confirmed \subseteq Epoch
  BY <1>1 DEF Database
<1> HIDE DEF t
<1>4. Step(s, t)
  BY <1>2, <1>3, SameKeys
<1> QED BY <1>4 DEF t

LEMMA RevokeDeviceKeys ==
  ASSUME Good(db, numbered), Keys(db), NEW d \in Device, NEW t \in Device,
         RevokeDevice(d, t)
  PROVE  Step(db, db')
<1>1. Good(Swept(db), numbered) /\ Keys(Swept(db))
  BY SweptGood, SweptKeys DEF Step
<1>2. CASE db' = Revoked(db, {t})
  BY <1>2, RevokedKeys
<1>3. CASE db' = Revoked(Swept(db), {t})
  BY <1>1, <1>3, RevokedKeys, FromSwept
<1> QED BY <1>2, <1>3 DEF RevokeDevice

(* Somebody who is not the owner goes: what the owner holds stays.         *)
LEMMA RemovedKeys ==
  ASSUME NEW s, NEW N, Good(s, N), Keys(s), NEW a \in Account,
         s.member[a] # "owner"
  PROVE  Step(s, [Revoked(s, DevicesOf(a)) EXCEPT !.member[a] = "removed"])
<1> DEFINE r == Revoked(s, DevicesOf(a))
           t == [r EXCEPT !.member[a] = "removed"]
<1>1. s \in Database /\ r \in Database /\ Step(s, r)
  BY RevokedFields, RevokedKeys DEF Good, Typed, SameQueue
<1>2. /\ r.member = s.member /\ r.keyEpoch = s.keyEpoch
  BY <1>1 DEF Revoked, Database
<1> HIDE DEF r
<1>3. /\ t.member = [r.member EXCEPT ![a] = "removed"] /\ t.keyEpoch = r.keyEpoch
      /\ t.epochs = r.epochs /\ t.family = r.family /\ t.device = r.device
      /\ t.wraps = r.wraps /\ t.confirmed = r.confirmed
      /\ t.invites = r.invites /\ t.envelopes = r.envelopes
  BY <1>1 DEF Database
<1>4. \A b \in Account : t.member[b] = "owner" <=> s.member[b] = "owner"
  BY <1>1, <1>2, <1>3 DEF Database
<1>5. Keys(r) /\ Keeps(s, r)
  BY <1>1 DEF Step
<1> HIDE DEF t
<1>6. OneOwner(t) /\ Housed(t) /\ Chained(t)
  BY <1>2, <1>3, <1>4, <1>5 DEF Keys, OneOwner, Housed, Chained
<1>7. Led(t)
  BY <1>2, <1>3, <1>4, <1>5, ServerAssumption DEF Keys, Led, StagingEpochs, IsOwner
<1>8. Redeemable(t)
  BY <1>2, <1>3, <1>4, <1>5 DEF Keys, Redeemable, Unused
<1>9. Keeps(s, t)
  BY <1>3, <1>5 DEF Keeps
<1>10. Step(s, t)
  BY <1>6, <1>7, <1>8, <1>9 DEF Step, Keys
<1> QED BY <1>10 DEF t, r

LEMMA RemoveMemberKeys ==
  ASSUME Good(db, numbered), Keys(db), NEW d \in Device, NEW a \in Account,
         RemoveMember(d, a)
  PROVE  Step(db, db')
<1> DEFINE s == Swept(db)
<1>1. Good(s, numbered) /\ Keys(s)
  BY SweptGood, SweptKeys DEF Step
<1>2. AccountOf[d] \in Account
  BY ServerAssumption
<1>3. s.member[a] # "owner"
  BY <1>1, <1>2 DEF RemoveMember, IsOwner, Keys, OneOwner
<1>4. Step(s, db')
  BY <1>1, <1>3, RemovedKeys DEF RemoveMember
<1> QED BY <1>4, FromSwept

LEMMA LeaveKeys ==
  ASSUME Good(db, numbered), Keys(db), NEW d \in Device, Leave(d)
  PROVE  Step(db, db')
<1> DEFINE s == Swept(db)
<1>1. Good(s, numbered) /\ Keys(s)
  BY SweptGood, SweptKeys DEF Step
<1>2. AccountOf[d] \in Account /\ s.member[AccountOf[d]] # "owner"
  BY SweptFields, ServerAssumption DEF Leave, IsOwner
<1>3. Step(s, db')
  BY <1>1, <1>2, RemovedKeys DEF Leave
<1> QED BY <1>3, FromSwept

(* What an owner leads and has offered goes with the account.              *)
LEMMA WithoutAccountKeys ==
  ASSUME NEW s, NEW N, Good(s, N), Keys(s), NEW a \in Account
  PROVE  Step(s, WithoutAccount(s, a))
<1> DEFINE led == {e \in StagingEpochs(s) : s.epochs[e].leader \in DevicesOf(a)}
           r == CancelRotation(s, led)
           t == WithoutAccount(s, a)
           W == {w \in r.wraps : w.device \notin DevicesOf(a)}
           I == IF s.member[a] = "owner" THEN {i \in r.invites : i.used} ELSE r.invites
           V == [d \in Device |-> IF d \in DevicesOf(a) THEN "absent" ELSE r.device[d]]
           M == [r.member EXCEPT ![a] = "deleted"]
<1>1. Step(s, r)
  BY CancelKeys
<1>2. s \in Database /\ r \in Database
  BY CancelFields DEF Good, Typed, StagingEpochs
<1>3. /\ r.member = s.member /\ r.keyEpoch = s.keyEpoch /\ r.invites = s.invites
      /\ StagingEpochs(r) = StagingEpochs(s) \ led
      /\ \A e \in StagingEpochs(r) : r.epochs[e] = s.epochs[e]
  <2>1. led \in SUBSET Epoch
    BY DEF StagingEpochs
  <2> HIDE DEF led
  <2> QED BY <1>2, <2>1, CancelFields DEF StagingEpochs, NoRow
<1>4. t = [r EXCEPT !.wraps = W, !.invites = I, !.device = V, !.member = M]
  BY <1>2, <1>3 DEF WithoutAccount, Database
<1> HIDE DEF r, t
<1>5. /\ t.family = r.family /\ t.keyEpoch = r.keyEpoch /\ t.epochs = r.epochs
      /\ t.envelopes = r.envelopes /\ t.confirmed = r.confirmed
      /\ t.wraps = W /\ t.invites = I /\ t.device = V /\ t.member = M
  BY <1>2, <1>4 DEF Database
<1>6. Keys(r) /\ Keeps(s, r)
  BY <1>1 DEF Step
<1>7. /\ \A b \in Account : M[b] = "owner" <=> s.member[b] = "owner" /\ b # a
      /\ W \subseteq r.wraps
  BY <1>2, <1>3 DEF Database
<1>8. OneOwner(t) /\ Housed(t) /\ Chained(t)
  <2> HIDE DEF M, W
  <2> QED BY <1>3, <1>5, <1>6, <1>7 DEF Keys, OneOwner, Housed, Chained
<1>9. Led(t)
  <2>1. SUFFICES ASSUME NEW e \in StagingEpochs(r)
                 PROVE  r.epochs[e].leader \in Device /\ IsOwner(t, r.epochs[e].leader)
    BY <1>5 DEF Led, StagingEpochs
  <2>2. /\ r.epochs[e].leader \in Device /\ s.member[AccountOf[r.epochs[e].leader]] = "owner"
        /\ e \in StagingEpochs(s) /\ e \notin led /\ r.epochs[e] = s.epochs[e]
    BY <1>3, <1>6 DEF Keys, Led, IsOwner
  <2>3. AccountOf[r.epochs[e].leader] \in Account \ {a}
    BY <2>2, ServerAssumption DEF DevicesOf
  <2> QED BY <1>5, <1>7, <2>2, <2>3 DEF IsOwner
<1>10. Redeemable(t)
  <2>1. \A i \in I : i \in s.invites /\ (~i.used => s.member[a] # "owner")
    BY <1>3
  <2>2. \A i \in Unused(t) : i \in Unused(s) /\ s.member[a] # "owner"
    BY <1>5, <2>1 DEF Unused
  <2> HIDE DEF I
  <2> QED BY <1>3, <1>5, <1>7, <2>2 DEF Keys, Redeemable
<1>11. Keeps(s, t)
  <2>1. \A w \in r.wraps : w \in W \/ V[w.device] = "absent"
    BY <1>2 DEF Database, Wrap
  <2>2. \A d \in Device : r.device[d] = "absent" => V[d] = "absent"
    OBVIOUS
  <2>3. \A w \in s.wraps : w.device \in Device
    BY <1>2 DEF Database, Wrap
  <2> HIDE DEF V, W
  <2> QED BY <1>5, <1>6, <2>1, <2>2, <2>3 DEF Keeps
<1>12. Step(s, t)
  BY <1>8, <1>9, <1>10, <1>11 DEF Step, Keys
<1> QED BY <1>12 DEF t

LEMMA WithoutFamilyKeys ==
  ASSUME NEW s, NEW N, Good(s, N), NEW a \in Account, EndsFamily(s, a)
  PROVE  Step(s, WithoutFamily(s, a))
<1> DEFINE t == WithoutFamily(s, a)
<1>1. /\ t.family = "deleted" /\ t.wraps = {} /\ t.confirmed = {} /\ t.invites = {}
      /\ \A e \in Epoch : t.epochs[e] = NoRow
      /\ \A b \in Account : t.member[b] \in {"none", "deleted"}
  BY DEF WithoutFamily, EmptyDatabase
<1> HIDE DEF t
<1>2. Keys(t)
  BY <1>1 DEF Keys, OneOwner, Housed, Chained, Led, Redeemable, Unused, StagingEpochs, NoRow
<1>3. Keeps(s, t)
  BY <1>1 DEF Keeps, EndsFamily
<1> QED BY <1>2, <1>3 DEF Step, t

LEMMA DeleteAccountKeys ==
  ASSUME Good(db, numbered), Keys(db), NEW d \in Device, DeleteAccount(d)
  PROVE  Step(db, db')
<1>1. AccountOf[d] \in Account
  BY ServerAssumption
<1> QED BY <1>1, WithoutAccountKeys, WithoutFamilyKeys DEF DeleteAccount

-----------------------------------------------------------------------------
(* The queue and the rotation.                                             *)

LEMMA SubmitKeys ==
  ASSUME Good(db, numbered), Keys(db), NEW d \in Device, NEW e \in Epoch,
         NEW n \in 0 .. MaxBatch, NEW fresh \in [1 .. n -> OpId], Submit(d, e, n, fresh)
  PROVE  Step(db, db')
<1> DEFINE s == Swept(db)
           A == Appended(s, e, n, fresh)
           row == [s.epochs[e] EXCEPT !.counter = s.epochs[e].counter + n,
                     !.idle = IF n > 0 THEN 0 ELSE s.epochs[e].idle]
           V == s.envelopes \cup A
           R == [s.epochs EXCEPT ![e] = row]
<1>1. Good(s, numbered) /\ Keys(s) /\ s \in Database
  BY SweptGood, SweptKeys DEF Good, Typed, Step
<1>2. row.state = s.epochs[e].state /\ row.leader = s.epochs[e].leader
  BY <1>1 DEF Database, EpochRow
<1>3. db' = [s EXCEPT !.envelopes = V, !.epochs = R]
  BY <1>1 DEF Submit, Database, EpochRow
<1> HIDE DEF s, A, row
<1>4. \A f \in Epoch : R[f].state = s.epochs[f].state /\ R[f].leader = s.epochs[f].leader
  BY <1>1, <1>2 DEF Database
<1> HIDE DEF R
<1>5. /\ db'.member = s.member /\ db'.keyEpoch = s.keyEpoch /\ db'.epochs = R
      /\ db'.wraps = s.wraps /\ db'.confirmed = s.confirmed
      /\ db'.invites = s.invites /\ db'.envelopes = V
  BY <1>1, <1>3 DEF Database
<1>6. s.wraps \subseteq Wrap /\ s.confirmed \subseteq Epoch
  BY <1>1 DEF Database
<1>7. Step(s, db')
  BY <1>1, <1>4, <1>5, <1>6, SameKeys
<1> QED BY <1>7, FromSwept DEF s

LEMMA DeclareKeys ==
  ASSUME Good(db, numbered), Keys(db), NEW d \in Device, Declare(d)
  PROVE  Step(db, db')
<1> DEFINE s == Swept(db)
           next == NextEpoch(s)
           row == StagedBy(s, d)
           R == [s.epochs EXCEPT ![next] = row]
<1>1. Good(s, numbered) /\ Keys(s) /\ s \in Database
  BY SweptGood, SweptKeys DEF Good, Typed, Step
<1>2. Live(s, AccountOf[d]) /\ AccountOf[d] \in Account
  BY SweptFields, ServerAssumption DEF Declare, Admitted, Live
<1>3. s.family = "live" /\ s.keyEpoch \in Epoch
  BY <1>1, <1>2, LiveFamily
<1>4. /\ next = s.maxKeyEpoch + 1 /\ next <= MaxEpoch
      /\ StagingEpochs(s) = {} /\ IsOwner(s, d)
  BY DEF Declare, NextEpoch, MayDeclare
<1>5. next \in Epoch /\ s.epochs[next].state = "none"
  <2>1. s.maxKeyEpoch \in Nat /\ next \in Epoch
    BY <1>1, <1>4, ServerAssumption DEF Database, Epoch
  <2> QED BY <1>1, <1>4, <2>1 DEF Good, Table
<1>6. row.state = "staging" /\ row.leader = d
  BY DEF StagedBy, NoRow
<1>7. db' = [s EXCEPT !.maxKeyEpoch = next, !.epochs = R]
  BY <1>1 DEF Declare, Database
<1> HIDE DEF s, next, row
<1>8. R[next] = row /\ \A f \in Epoch : f # next => R[f] = s.epochs[f]
  BY <1>1, <1>5 DEF Database
<1> HIDE DEF R
<1>9. /\ db'.member = s.member /\ db'.keyEpoch = s.keyEpoch /\ db'.epochs = R
      /\ db'.wraps = s.wraps /\ db'.confirmed = s.confirmed
      /\ db'.invites = s.invites /\ db'.envelopes = s.envelopes
  BY <1>1, <1>7 DEF Database
<1>10. OneOwner(db') /\ Redeemable(db')
  BY <1>1, <1>9 DEF Keys, OneOwner, Redeemable, Unused
<1>11. Housed(db') /\ Chained(db')
  BY <1>1, <1>5, <1>6, <1>8, <1>9 DEF Keys, Housed, Chained, Database, Wrap
<1>12. Led(db')
  BY <1>4, <1>6, <1>8, <1>9 DEF Led, StagingEpochs, IsOwner
<1>13. Keeps(s, db')
  BY <1>9 DEF Keeps
<1>14. Step(s, db')
  BY <1>10, <1>11, <1>12, <1>13 DEF Step, Keys
<1> QED BY <1>14, FromSwept DEF s

LEMMA UploadKeysKeys ==
  ASSUME Good(db, numbered), Keys(db), NEW d \in Device, NEW e \in Epoch,
         NEW targets \in SUBSET Device, NEW confirm \in BOOLEAN,
         UploadKeys(d, e, targets, confirm)
  PROVE  Step(db, db')
<1> DEFINE s == Swept(db)
           W == {w \in s.wraps : w.epoch # e \/ w.device \notin targets}
                  \cup {[epoch |-> e, device |-> t, sender |-> d] : t \in targets}
           C == IF confirm THEN s.confirmed \cup {e} ELSE s.confirmed
           row == [s.epochs[e] EXCEPT
                     !.idle = IF targets # {} \/ confirm THEN 0 ELSE s.epochs[e].idle]
           R == [s.epochs EXCEPT ![e] = row]
<1>1. Good(s, numbered) /\ Keys(s) /\ s \in Database
  BY SweptGood, SweptKeys DEF Good, Typed, Step
<1>2. s.epochs[e].state = "staging" /\ e # s.keyEpoch
  BY <1>1 DEF UploadKeys, Leads, Good, Table
<1>3. row.state = s.epochs[e].state /\ row.leader = s.epochs[e].leader
  BY <1>1 DEF Database, EpochRow
<1>4. db' = [s EXCEPT !.wraps = W, !.confirmed = C, !.epochs = R]
  BY <1>1 DEF UploadKeys, Database, EpochRow
<1> HIDE DEF s, row
<1>5. \A f \in Epoch : R[f].state = s.epochs[f].state /\ R[f].leader = s.epochs[f].leader
  BY <1>1, <1>3 DEF Database
<1>6. /\ \A w \in W : w \in s.wraps \/ w.epoch = e
      /\ \A w \in s.wraps : w.epoch = s.keyEpoch => w \in W
      /\ s.confirmed \subseteq C /\ C \subseteq s.confirmed \cup {e}
  BY <1>2
<1> HIDE DEF R, W, C
<1>7. /\ db'.member = s.member /\ db'.keyEpoch = s.keyEpoch /\ db'.epochs = R
      /\ db'.wraps = W /\ db'.confirmed = C
      /\ db'.invites = s.invites /\ db'.envelopes = s.envelopes
  BY <1>1, <1>4 DEF Database
<1>8. OneOwner(db') /\ Redeemable(db')
  BY <1>1, <1>7 DEF Keys, OneOwner, Redeemable, Unused
<1>9. Housed(db') /\ Chained(db')
  BY <1>1, <1>2, <1>5, <1>6, <1>7 DEF Keys, Housed, Chained, Database, Wrap
<1>10. Led(db')
  BY <1>1, <1>5, <1>7 DEF Keys, Led, StagingEpochs, IsOwner
<1>11. Keeps(s, db')
  BY <1>6, <1>7 DEF Keeps
<1>12. Step(s, db')
  BY <1>8, <1>9, <1>10, <1>11 DEF Step, Keys
<1> QED BY <1>12, FromSwept DEF s

(* The switch: the confirmed epoch is in force, the old one retired, and   *)
(* no invite leads into the old one.                                       *)
LEMMA CompleteKeys ==
  ASSUME Good(db, numbered), Keys(db), NEW d \in Device, NEW e \in Epoch, Complete(d, e)
  PROVE  Step(db, db')
<1> DEFINE s == Swept(db)
           k == s.keyEpoch
           old == [s.epochs[k] EXCEPT !.state = "retired"]
           row == Activated(s.epochs[e])
           R == [f \in Epoch |-> IF f = e THEN row
                                 ELSE IF f = k THEN old ELSE s.epochs[f]]
           V == {v \in s.envelopes : v.epoch # k}
<1>1. Good(s, numbered) /\ Keys(s) /\ s \in Database
  BY SweptGood, SweptKeys DEF Good, Typed, Step
<1>2. Live(s, AccountOf[d]) /\ AccountOf[d] \in Account
  BY SweptFields, ServerAssumption DEF Complete, Admitted, Live
<1>3. s.family = "live" /\ k \in Epoch /\ s.epochs[k].state = "active"
  BY <1>1, <1>2, LiveFamily
<1>4. s.epochs[e].state = "staging" /\ e # k /\ e > k /\ e \in s.confirmed
  BY <1>1, <1>3 DEF Complete, MayComplete, Leads, Good, Table
<1>5. row.state = "active" /\ old.state = "retired"
  BY <1>1, <1>3 DEF Activated, Database, EpochRow
<1>6. db' = [s EXCEPT !.epochs = R, !.keyEpoch = e, !.envelopes = V, !.invites = {}]
  BY <1>1, <1>3, <1>4 DEF Complete, Switched, Database
<1> HIDE DEF s, k, row, old
<1>7. /\ db'.member = s.member /\ db'.keyEpoch = e /\ db'.epochs = R
      /\ db'.wraps = s.wraps /\ db'.confirmed = s.confirmed /\ db'.invites = {}
  BY <1>1, <1>6 DEF Database
<1>8. /\ R[e].state = "active" /\ R[k].state = "retired"
      /\ \A f \in Epoch : f # e /\ f # k => R[f] = s.epochs[f]
  BY <1>3, <1>4, <1>5
<1>9. \A f \in Epoch : s.epochs[f].state = "staging" => f = e
  BY <1>1, <1>4 DEF Good, Table, StagingEpochs
<1> HIDE DEF R
<1>10. OneOwner(db') /\ Redeemable(db')
  BY <1>1, <1>7 DEF Keys, OneOwner, Redeemable, Unused
<1>11. Housed(db')
  BY <1>1, <1>3, <1>7, <1>8 DEF Keys, Housed, Database, Wrap
<1>12. Chained(db')
  BY <1>1, <1>3, <1>4, <1>7, <1>8 DEF Keys, Chained
<1>13. Led(db')
  BY <1>3, <1>7, <1>8, <1>9 DEF Led, StagingEpochs
<1>14. Keeps(s, db')
  BY <1>4, <1>7 DEF Keeps, k
<1>15. Step(s, db')
  BY <1>10, <1>11, <1>12, <1>13, <1>14 DEF Step, Keys
<1> QED BY <1>15, FromSwept DEF s

LEMMA CancelRequestKeys ==
  ASSUME Good(db, numbered), Keys(db), NEW d \in Device, Cancel(d)
  PROVE  Step(db, db')
<1>1. Good(Swept(db), numbered) /\ Keys(Swept(db))
  BY SweptGood, SweptKeys DEF Step
<1>2. db' = CancelRotation(Swept(db), StagingEpochs(Swept(db)))
  BY DEF Cancel
<1>3. Step(Swept(db), db')
  BY <1>1, <1>2, CancelKeys
<1> QED BY <1>3, FromSwept

-----------------------------------------------------------------------------
(* Out-of-band wraps, invites and time.                                    *)

(* A wrap gives way only if no owner placed it.                            *)
LEMMA HandOverKeys ==
  ASSUME Good(db, numbered), Keys(db), NEW d \in Device, NEW u \in Device, HandOver(d, u)
  PROVE  Step(db, db')
<1> DEFINE s == Swept(db)
           slot == {w \in s.wraps : w.epoch = s.keyEpoch /\ w.device = u}
           W == (s.wraps \ slot)
                  \cup {[epoch |-> s.keyEpoch, device |-> u, sender |-> d]}
<1>1. Good(s, numbered) /\ Keys(s) /\ s \in Database
  BY SweptGood, SweptKeys DEF Good, Typed, Step
<1>2. Live(s, AccountOf[d]) /\ AccountOf[d] \in Account
  BY SweptFields, ServerAssumption DEF HandOver, Admitted, Live
<1>3. s.keyEpoch \in Epoch /\ s.epochs[s.keyEpoch].state = "active"
  BY <1>1, <1>2, LiveFamily
<1>4. db' = [s EXCEPT !.wraps = W]
  BY <1>1 DEF HandOver, Database
<1>5. \A w \in s.wraps : w \in W \/ ~IsOwner(s, w.sender)
  BY DEF HandOver, Replaceable
<1>6. \A w \in W : w \in s.wraps \/ w.epoch = s.keyEpoch
  OBVIOUS
<1> HIDE DEF s, W
<1>7. /\ db'.member = s.member /\ db'.keyEpoch = s.keyEpoch /\ db'.epochs = s.epochs
      /\ db'.wraps = W /\ db'.confirmed = s.confirmed
      /\ db'.invites = s.invites /\ db'.envelopes = s.envelopes
  BY <1>1, <1>4 DEF Database
<1>8. OneOwner(db') /\ Chained(db') /\ Redeemable(db')
  BY <1>1, <1>7 DEF Keys, OneOwner, Chained, Redeemable, Unused
<1>9. Housed(db')
  BY <1>1, <1>3, <1>6, <1>7 DEF Keys, Housed
<1>10. Led(db')
  BY <1>1, <1>7 DEF Keys, Led, StagingEpochs, IsOwner
<1>11. Keeps(s, db')
  BY <1>5, <1>7 DEF Keeps
<1>12. Step(s, db')
  BY <1>8, <1>9, <1>10, <1>11 DEF Step, Keys
<1> QED BY <1>12, FromSwept DEF s

LEMMA CreateInviteKeys ==
  ASSUME Good(db, numbered), Keys(db), NEW d \in Device, NEW i \in Invite, CreateInvite(d, i)
  PROVE  Step(db, db')
<1> DEFINE s == Swept(db)
           new == [id |-> i, epoch |-> s.keyEpoch, ttl |-> InviteTtl, used |-> FALSE]
           I == (s.invites \ Unused(s)) \cup {new}
<1>1. Good(s, numbered) /\ Keys(s) /\ s \in Database
  BY SweptGood, SweptKeys DEF Good, Typed, Step
<1>2. AccountOf[d] \in Account /\ s.member[AccountOf[d]] = "owner"
  BY ServerAssumption DEF CreateInvite, IsOwner
<1>3. db' = [s EXCEPT !.invites = I]
  BY <1>1 DEF CreateInvite, Database
<1>4. new.epoch = s.keyEpoch /\ \A j \in I : ~j.used => j = new
  BY DEF Unused
<1> HIDE DEF s, I, new
<1>5. /\ db'.member = s.member /\ db'.keyEpoch = s.keyEpoch /\ db'.epochs = s.epochs
      /\ db'.wraps = s.wraps /\ db'.confirmed = s.confirmed
      /\ db'.invites = I /\ db'.envelopes = s.envelopes
  BY <1>1, <1>3 DEF Database
<1>6. OneOwner(db') /\ Housed(db') /\ Chained(db')
  BY <1>1, <1>5 DEF Keys, OneOwner, Housed, Chained
<1>7. Led(db')
  BY <1>1, <1>5 DEF Keys, Led, StagingEpochs, IsOwner
<1>8. Redeemable(db')
  BY <1>2, <1>4, <1>5 DEF Redeemable, Unused
<1>9. Keeps(s, db')
  BY <1>5 DEF Keeps
<1>10. Step(s, db')
  BY <1>6, <1>7, <1>8, <1>9 DEF Step, Keys
<1> QED BY <1>10, FromSwept DEF s

LEMMA JoinKeys ==
  ASSUME Good(db, numbered), Keys(db), NEW d \in Device, NEW i \in db.invites, Join(d, i)
  PROVE  Step(db, db')
<1> DEFINE a == AccountOf[d]
           I == (db.invites \ {i}) \cup {[i EXCEPT !.used = TRUE]}
           M == [db.member EXCEPT ![a] = "member"]
<1>1. db \in Database /\ a \in Account /\ db.member[a] # "owner"
  BY ServerAssumption DEF Join, Live, Good, Typed
<1>2. i \in InviteRow
  BY <1>1 DEF Database
<1>3. \A b \in Account : M[b] = "owner" <=> db.member[b] = "owner"
  BY <1>1 DEF Database
<1>4. \A j \in I : ~j.used => j \in db.invites
  BY <1>2 DEF InviteRow
<1>5. db' = [db EXCEPT !.member = M, !.invites = I]
  BY <1>1 DEF Join, Database
<1> HIDE DEF I, M
<1>6. /\ db'.member = M /\ db'.keyEpoch = db.keyEpoch /\ db'.epochs = db.epochs
      /\ db'.wraps = db.wraps /\ db'.confirmed = db.confirmed
      /\ db'.invites = I /\ db'.envelopes = db.envelopes
  BY <1>1, <1>5 DEF Database
<1>7. OneOwner(db') /\ Housed(db') /\ Chained(db')
  BY <1>3, <1>6 DEF Keys, OneOwner, Housed, Chained
<1>8. Led(db')
  BY <1>3, <1>6, ServerAssumption DEF Keys, Led, StagingEpochs, IsOwner
<1>9. Redeemable(db')
  BY <1>3, <1>4, <1>6 DEF Keys, Redeemable, Unused
<1>10. Keeps(db, db')
  BY <1>6 DEF Keeps
<1> QED BY <1>7, <1>8, <1>9, <1>10 DEF Step, Keys

LEMMA TickKeys ==
  ASSUME Good(db, numbered), Keys(db), Tick
  PROVE  Step(db, db')
<1> DEFINE R == [e \in Epoch |-> Aged(db.epochs[e])]
           I == {[i EXCEPT !.ttl = i.ttl - 1] : i \in {j \in db.invites : j.ttl > 1}}
<1>1. db \in Database
  BY DEF Good, Typed
<1>2. \A e \in Epoch : R[e].state = db.epochs[e].state /\ R[e].leader = db.epochs[e].leader
  BY <1>1 DEF Aged, Database, EpochRow
<1>3. \A i \in I : \E j \in db.invites :
        /\ i = [j EXCEPT !.ttl = j.ttl - 1]
        /\ i.used = j.used /\ i.epoch = j.epoch
  BY <1>1 DEF Database, InviteRow
<1>4. db' = [db EXCEPT !.epochs = R, !.invites = I]
  BY <1>1 DEF Tick, Database
<1> HIDE DEF R, I
<1>5. /\ db'.member = db.member /\ db'.keyEpoch = db.keyEpoch /\ db'.epochs = R
      /\ db'.wraps = db.wraps /\ db'.confirmed = db.confirmed
      /\ db'.invites = I /\ db'.envelopes = db.envelopes
  BY <1>1, <1>4 DEF Database
<1>6. OneOwner(db')
  BY <1>5 DEF Keys, OneOwner
<1>7. Housed(db') /\ Chained(db')
  BY <1>1, <1>2, <1>5 DEF Keys, Housed, Chained, Database, Wrap
<1>8. Led(db')
  BY <1>2, <1>5 DEF Keys, Led, StagingEpochs, IsOwner
<1>9. Redeemable(db')
  BY <1>3, <1>5 DEF Keys, Redeemable, Unused
<1>10. Keeps(db, db')
  BY <1>5 DEF Keeps
<1> QED BY <1>6, <1>7, <1>8, <1>9, <1>10 DEF Step, Keys

-----------------------------------------------------------------------------
LEMMA InitKeys == Init => Keys(db)
  BY DEF Init, EmptyDatabase, Keys, OneOwner, Housed, Chained, Led, Redeemable,
     Unused, StagingEpochs, NoRow

LEMMA NextKeys == Invariant /\ Keys(db) /\ [Next]_vars => Step(db, db')
<1> SUFFICES ASSUME Good(db, numbered), Keys(db), [Next]_vars PROVE Step(db, db')
  BY DEF Invariant
<1>1. CASE \E d \in Device : SignIn(d) \/ CreateFamily(d) \/ Poll(d) \/ Leave(d)
                             \/ DeleteAccount(d) \/ Declare(d) \/ Cancel(d)
  BY <1>1, SignInKeys, CreateFamilyKeys, SweptKeys, LeaveKeys, DeleteAccountKeys,
     DeclareKeys, CancelRequestKeys DEF Poll
<1>2. CASE \E d, t \in Device : RevokeDevice(d, t) \/ HandOver(d, t)
  BY <1>2, RevokeDeviceKeys, HandOverKeys
<1>3. CASE \E d \in Device, a \in Account : RemoveMember(d, a)
  BY <1>3, RemoveMemberKeys
<1>4. CASE \E d \in Device, e \in Epoch, n \in 0 .. MaxBatch :
             \E fresh \in [1 .. n -> OpId] : Submit(d, e, n, fresh)
  BY <1>4, SubmitKeys
<1>5. CASE \E d \in Device, e \in Epoch, targets \in SUBSET Device, confirm \in BOOLEAN :
             UploadKeys(d, e, targets, confirm)
  BY <1>5, UploadKeysKeys
<1>6. CASE \E d \in Device, e \in Epoch : Complete(d, e)
  BY <1>6, CompleteKeys
<1>7. CASE \E d \in Device, i \in Invite : CreateInvite(d, i)
  BY <1>7, CreateInviteKeys
<1>8. CASE \E d \in Device : \E i \in db.invites : Join(d, i)
  BY <1>8, JoinKeys
<1>9. CASE Tick
  BY <1>9, TickKeys
<1>10. CASE UNCHANGED vars
  BY <1>10 DEF vars, Step, Keeps
<1> QED BY <1>1, <1>2, <1>3, <1>4, <1>5, <1>6, <1>7, <1>8, <1>9, <1>10 DEF Next

KeyInvariant == Invariant /\ Keys(db)

(* What the stored keys, the leader and the invites look like beside the   *)
(* tables, in every state the server of one family reaches.                *)
THEOREM ServerKeyInvariant == Spec => []KeyInvariant
<1>1. Init => Keys(db)
  BY InitKeys
<1>2. Invariant /\ Keys(db) /\ [Next]_vars => Keys(db)'
  <2>1. Invariant /\ Keys(db) /\ [Next]_vars => Keys(db')
    BY NextKeys DEF Step
  <2> QED BY <2>1
<1> QED BY <1>1, <1>2, ServerInvariant, PTL DEF Spec, KeyInvariant

(* No wrap and no confirmation outlives its attempt: a device that reads   *)
(* its wraps later never finds one for an epoch that never came.           *)
THEOREM ServerNoOrphanKeys == Spec => []NoOrphanKeys
<1>1. KeyInvariant => NoOrphanKeys
  BY DEF KeyInvariant, Keys, Housed, NoOrphanKeys
<1> QED BY <1>1, ServerKeyInvariant, PTL

(* However many rotations a device slept through, every one it has to      *)
(* follow was confirmed by the device that led it.                         *)
THEOREM ServerChainConfirmed == Spec => []ChainConfirmed
<1>1. KeyInvariant => ChainConfirmed
  BY DEF KeyInvariant, Keys, Chained, ChainConfirmed
<1> QED BY <1>1, ServerKeyInvariant, PTL

(* A member who goes, or an owner who deletes the account, leaves no       *)
(* rotation behind that nobody can finish.                                 *)
THEOREM ServerStagedByOwner == Spec => []StagedByOwner
<1>1. KeyInvariant => StagedByOwner
  BY DEF KeyInvariant, Keys, Led, StagedByOwner
<1> QED BY <1>1, ServerKeyInvariant, PTL

(* A code that can still be redeemed is the only one, leads into the epoch *)
(* in force, and has an owner behind it.                                   *)
THEOREM ServerInvitesRedeemable == Spec => []InvitesRedeemable
<1>1. KeyInvariant => InvitesRedeemable
  BY DEF KeyInvariant, Keys, Redeemable, InvitesRedeemable
<1> QED BY <1>1, ServerKeyInvariant, PTL

(* No request, sweep or deletion takes an acknowledged envelope from the   *)
(* epoch in force but the switch to the next one and the family's end.     *)
THEOREM ServerAcknowledgedKept == Spec => AcknowledgedKept
<1>1. KeyInvariant /\ [Next]_vars =>
        [\A v \in db.envelopes :
           (v.epoch = db.keyEpoch /\ v \notin db'.envelopes)
             => \/ db'.keyEpoch > db.keyEpoch
                \/ \A a, b \in Account : Live(db, a) /\ Live(db, b) => a = b]_vars
  BY NextKeys DEF KeyInvariant, Step, Keeps
<1> QED BY <1>1, ServerKeyInvariant, PTL DEF Spec, AcknowledgedKept

(* The key an owner placed for a device in the epoch in force stays the    *)
(* one that device will open, whoever sends another.                       *)
THEOREM ServerOwnerWrapNotReplaced == Spec => OwnerWrapNotReplaced
<1>1. KeyInvariant /\ [Next]_vars =>
        [\A w \in db.wraps :
           (w.epoch = db.keyEpoch /\ IsOwner(db, w.sender))
             => \/ w \in db'.wraps
                \/ db'.device[w.device] = "absent" \/ db'.family = "deleted"]_vars
  BY NextKeys DEF KeyInvariant, Step, Keeps
<1> QED BY <1>1, ServerKeyInvariant, PTL DEF Spec, OwnerWrapNotReplaced
=============================================================================
