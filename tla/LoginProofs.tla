---------------------------- MODULE LoginProofs -----------------------------
(***************************************************************************)
(* Theorems about Login for any addresses, devices, limits and terms: what *)
(* a sign-in opens it opens on its own proof and while it lasts, and codes *)
(* stay rationed.                                                          *)
(***************************************************************************)
EXTENDS Login, SequenceTheorems

(* Limits and terms are numbers, a code is counted for a while, and what   *)
(* stands for a forgotten address is none.                                 *)
Limits ==
  /\ {MaxAttempts, MaxRequests, MaxPerSource, CodeTtl, AccessTtl, RefreshTtl, MaxCodes} \subseteq Nat
  /\ Reauth \in Nat /\ Window \in Nat \ {0} /\ MaxTime \in Nat \ {0}
  /\ "nobody" \notin Address

CodeType == [code : 0 .. MaxCodes, expires : Nat, attempts : 0 .. MaxAttempts]

AskedType == [to : [Address -> Seq(Nat)], source : Seq(Nat)]

DeviceType == [account : Nat, revoked : BOOLEAN, serial : Nat, verified : Nat,
               refresh : Nat, holds : BOOLEAN, signIn : Nat]

TokenType == [device : Device, account : Nat, serial : Nat, shown : Nat, expires : Nat,
              signIn : Nat]

SentType == [code : Nat, to : Address \cup {"nobody"}, at : Nat]

PastType == [made : 0 .. MaxCodes, accounts : Nat, used : SUBSET Nat, sent : SUBSET SentType,
             shown : Seq(Nat), over : SUBSET Nat]

(* A code is of one address, and one that was used is on no row.           *)
CodesGood(rows, made, used) ==
  /\ rows \in [Address -> CodeType]
  /\ used \subseteq 1 .. made
  /\ \A x \in Address : rows[x] = NoCode \/ rows[x].code \in 1 .. made \ used
  /\ \A x, y \in Address : rows[x].code = rows[y].code /\ rows[x].code # 0 => x = y

(* Every code that was sent has a place of its own among the requests.     *)
Covered(sent, list) ==
  \E f \in [Nat -> Nat] : \A s \in sent :
    /\ f[s.code] \in 1 .. Len(list) /\ list[f[s.code]] = s.at
    /\ \A u \in sent : f[s.code] = f[u.code] => s.code = u.code

To(sent, x) == {s \in sent : s.to = x}

SentGood(sent, made, now) ==
  /\ sent \subseteq SentType
  /\ \A s \in sent : s.code <= made /\ s.at > now - Window
  /\ \A s, u \in sent : s.code = u.code => s = u

ListsGood(lists, sent) ==
  /\ lists \in AskedType
  /\ Len(lists.source) <= MaxPerSource /\ Covered(sent, lists.source)
  /\ \A x \in Address : Len(lists.to[x]) <= MaxRequests /\ Covered(To(sent, x), lists.to[x])

(* A token tells the sign-in it is of; where its device has its account no *)
(* more that account is gone for good; and one of a sign-in that is over   *)
(* has an old serial, or its device is revoked.                            *)
TokenGood(t, rows, owned, count, shown, over) ==
  /\ t \in TokenType /\ t.account \in 1 .. count
  /\ t.signIn \in 1 .. Len(shown) /\ shown[t.signIn] = t.shown
  /\ IF rows[t.device].account = t.account
     THEN /\ t.serial <= rows[t.device].serial
          /\ t.signIn \in over => rows[t.device].revoked \/ t.serial < rows[t.device].serial
     ELSE \A x \in Address : owned[x] # t.account
  /\ \A d \in Device : rows[d].signIn = t.signIn => d = t.device

(* A device with an account tells its sign-in, and may go on only with one *)
(* that is not over.                                                       *)
RowGood(row, owned, count, shown, over) ==
  /\ row \in DeviceType /\ row.account <= count /\ row.signIn <= Len(shown)
  /\ row.account # 0 =>
       /\ \E x \in Address : owned[x] = row.account
       /\ row.signIn # 0 /\ shown[row.signIn] = row.verified
       /\ row.holds /\ ~row.revoked => row.signIn \notin over

AccessGood(rows, tokens, owned, count, shown, over) ==
  /\ rows \in [Device -> DeviceType] /\ owned \in [Address -> 0 .. count] /\ count \in Nat
  /\ shown \in Seq(Nat) /\ over \subseteq 0 .. Len(shown)
  /\ \A d \in Device : RowGood(rows[d], owned, count, shown, over)
  /\ \A d, e \in Device : rows[d].signIn = rows[e].signIn /\ rows[d].signIn # 0 => d = e
  /\ \A t \in tokens : TokenGood(t, rows, owned, count, shown, over)
  /\ \A t, u \in tokens : t.signIn = u.signIn => t.device = u.device

Invariant ==
  /\ clock \in 1 .. MaxTime /\ past \in PastType
  /\ CodesGood(codes, past.made, past.used)
  /\ SentGood(past.sent, past.made, clock) /\ ListsGood(asked, past.sent)
  /\ AccessGood(devices, issued, accounts, past.accounts, past.shown, past.over)

-----------------------------------------------------------------------------
(* The ration.                                                             *)

LEMMA UpTo == ASSUME NEW n \in Nat PROVE IsFiniteSet(1 .. n) /\ Cardinality(1 .. n) = n
<1>1. 1 \in Int /\ n \in Int
  OBVIOUS
<1>2. IsFiniteSet(1 .. n) /\ Cardinality(1 .. n) = IF 1 > n THEN 0 ELSE n - 1 + 1
  BY <1>1, FS_Interval
<1>3. (IF 1 > n THEN 0 ELSE n - 1 + 1) = n
  OBVIOUS
<1> QED BY <1>2, <1>3

LEMMA CoveredNone == ASSUME NEW list PROVE Covered({}, list)
<1>1. [n \in Nat |-> 0] \in [Nat -> Nat]
  OBVIOUS
<1> QED BY <1>1 DEF Covered

(* The same codes of the same times.                                       *)
LEMMA CoveredCarried ==
  ASSUME NEW sent, NEW rest, NEW list, Covered(sent, list),
         \A s \in rest : \E u \in sent : s.code = u.code /\ s.at = u.at
  PROVE  Covered(rest, list)
<1>1. PICK f \in [Nat -> Nat] : \A s \in sent :
        /\ f[s.code] \in 1 .. Len(list) /\ list[f[s.code]] = s.at
        /\ \A u \in sent : f[s.code] = f[u.code] => s.code = u.code
  BY DEF Covered
<1>2. ASSUME NEW s \in rest
      PROVE  /\ f[s.code] \in 1 .. Len(list) /\ list[f[s.code]] = s.at
             /\ \A u \in rest : f[s.code] = f[u.code] => s.code = u.code
  <2>1. PICK v \in sent : s.code = v.code /\ s.at = v.at
    OBVIOUS
  <2>2. f[s.code] \in 1 .. Len(list) /\ list[f[s.code]] = s.at
    BY <1>1, <2>1
  <2>3. ASSUME NEW u \in rest, f[s.code] = f[u.code] PROVE s.code = u.code
    <3>1. PICK w \in sent : u.code = w.code
      OBVIOUS
    <3> QED BY <1>1, <2>1, <2>3, <3>1
  <2> QED BY <2>2, <2>3
<1> QED BY <1>2 DEF Covered

(* What is counted no more was sent too long ago.                          *)
LEMMA RecentKeeps ==
  ASSUME NEW list \in Seq(Nat), NEW sent, sent \subseteq SentType, clock \in Nat, Window \in Nat,
         \A s \in sent : s.at > clock - Window, Covered(sent, list)
  PROVE  Recent(list) \in Seq(Nat) /\ Len(Recent(list)) <= Len(list) /\ Covered(sent, Recent(list))
<1> DEFINE P == {i \in DOMAIN list : list[i] > clock - Window}
           short == Picked(list, P)
<1>1. /\ Recent(list) = short /\ P \in SUBSET DOMAIN list
      /\ DOMAIN list = 1 .. Len(list) /\ Len(list) \in Nat
  BY DEF Recent
<1>2. PICK f \in [Nat -> Nat] : \A s \in sent :
        /\ f[s.code] \in 1 .. Len(list) /\ list[f[s.code]] = s.at
        /\ \A u \in sent : f[s.code] = f[u.code] => s.code = u.code
  BY DEF Covered
<1>3. \A s \in sent : f[s.code] \in P
  BY <1>1, <1>2
<1> HIDE DEF P
<1>4. short \in Seq(Nat)
  BY <1>1, PickedElements
<1>5. /\ Len(short) = Cardinality(P)
      /\ \A k \in 1 .. Len(short) : short[k] = list[Place(P, k)]
  BY <1>1, PickedOrder
<1>6. \A i \in P : Rank(P, i) \in 1 .. Cardinality(P) /\ Place(P, Rank(P, i)) = i
  BY <1>1, PlaceFacts
<1>7. Len(short) <= Len(list)
  <2>1. IsFiniteSet(1 .. Len(list)) /\ Cardinality(1 .. Len(list)) = Len(list)
    BY <1>1, UpTo
  <2>2. Cardinality(P) <= Cardinality(1 .. Len(list))
    BY <1>1, <2>1, FS_Subset
  <2> QED BY <1>5, <2>1, <2>2
<1> HIDE DEF short
<1> DEFINE g == [n \in Nat |-> IF f[n] \in P THEN Rank(P, f[n]) ELSE 0]
<1>8. g \in [Nat -> Nat]
  BY <1>1, <1>5, <1>6, <1>7
<1>9. \A s \in sent : g[s.code] = Rank(P, f[s.code])
  BY <1>3 DEF SentType
<1> HIDE DEF g
<1>10. ASSUME NEW s \in sent
       PROVE  /\ g[s.code] \in 1 .. Len(short) /\ short[g[s.code]] = s.at
              /\ \A u \in sent : g[s.code] = g[u.code] => s.code = u.code
  <2>1. g[s.code] \in 1 .. Len(short) /\ Place(P, g[s.code]) = f[s.code]
    BY <1>3, <1>5, <1>6, <1>9
  <2>2. \A u \in sent : Place(P, g[u.code]) = f[u.code]
    BY <1>3, <1>6, <1>9
  <2> QED BY <1>2, <1>5, <2>1, <2>2
<1>11. Covered(sent, short)
  BY <1>8, <1>10 DEF Covered
<1> QED BY <1>1, <1>4, <1>7, <1>11

(* One more code, and one more place.                                      *)
LEMMA CoveredGrown ==
  ASSUME NEW list \in Seq(Nat), NEW sent, sent \subseteq SentType, Covered(sent, list),
         NEW new \in SentType, \A s \in sent : s.code # new.code
  PROVE  Covered(sent \cup {new}, Append(list, new.at))
<1>1. PICK f \in [Nat -> Nat] : \A s \in sent :
        /\ f[s.code] \in 1 .. Len(list) /\ list[f[s.code]] = s.at
        /\ \A u \in sent : f[s.code] = f[u.code] => s.code = u.code
  BY DEF Covered
<1> DEFINE long == Append(list, new.at)
           last == Len(list) + 1
           g == [n \in Nat |-> IF n = new.code THEN last ELSE f[n]]
<1>2. /\ Len(list) \in Nat /\ Len(long) = Len(list) + 1 /\ long[Len(list) + 1] = new.at
      /\ \A i \in 1 .. Len(list) : long[i] = list[i]
  <2>1. Len(list) \in Nat /\ new.at \in Nat
    BY DEF SentType
  <2> HIDE DEF long
  <2>2. Len(long) = Len(list) + 1 /\ long[Len(list) + 1] = new.at
    BY <2>1, AppendProperties DEF long
  <2>3. \A i \in 1 .. Len(list) : long[i] = list[i]
    BY <2>1, AppendProperties DEF long
  <2> QED BY <2>1, <2>2, <2>3
<1>3. last \in Nat /\ last \notin 1 .. Len(list) /\ last \in 1 .. Len(long)
  BY <1>2
<1>4. 1 .. Len(list) \subseteq 1 .. Len(long)
  BY <1>2
<1> HIDE DEF long, last
<1>5. new.code \in Nat /\ \A s \in sent : s.code \in Nat
  <2>1. new.code \in Nat
    BY DEF SentType
  <2>2. \A s \in SentType : s.code \in Nat
    BY DEF SentType
  <2> QED BY <2>1, <2>2
<1>6. g \in [Nat -> Nat] /\ g[new.code] = last
  BY <1>3, <1>5
<1>7. ASSUME NEW s \in sent
      PROVE  /\ g[s.code] = f[s.code] /\ g[s.code] \in 1 .. Len(list)
             /\ g[s.code] # last /\ long[g[s.code]] = s.at
  <2>1. g[s.code] = f[s.code]
    BY <1>5
  <2>2. f[s.code] \in 1 .. Len(list) /\ list[f[s.code]] = s.at
    BY <1>1
  <2> QED BY <1>2, <1>3, <2>1, <2>2
<1> HIDE DEF g
<1>8. ASSUME NEW s \in sent \cup {new}
      PROVE  /\ g[s.code] \in 1 .. Len(long) /\ long[g[s.code]] = s.at
             /\ \A u \in sent \cup {new} : g[s.code] = g[u.code] => s.code = u.code
  <2>1. CASE s = new
    <3>1. \A u \in sent \cup {new} : g[new.code] = g[u.code] => u = new
      BY <1>6, <1>7
    <3>2. long[last] = new.at
      BY <1>2 DEF last
    <3> QED BY <1>3, <1>6, <2>1, <3>1, <3>2
  <2>2. CASE s \in sent
    <3>1. \A u \in sent : g[s.code] = g[u.code] => s.code = u.code
      BY <1>1, <1>7, <2>2
    <3>2. g[s.code] # g[new.code]
      BY <1>6, <1>7, <2>2
    <3>3. g[s.code] \in 1 .. Len(list) /\ long[g[s.code]] = s.at
      BY <1>7, <2>2
    <3>4. g[s.code] \in 1 .. Len(long)
      BY <1>4, <3>3
    <3> QED BY <2>2, <3>1, <3>2, <3>3, <3>4
  <2> QED BY <2>1, <2>2
<1>9. Covered(sent \cup {new}, long)
  BY <1>6, <1>8 DEF Covered
<1> QED BY <1>9 DEF long

LEMMA CoveredBound ==
  ASSUME NEW list \in Seq(Nat), NEW sent, sent \subseteq SentType, Covered(sent, list),
         \A s, u \in sent : s.code = u.code => s = u, NEW most \in Nat, Len(list) <= most
  PROVE  Cardinality(sent) <= most
<1>1. PICK f \in [Nat -> Nat] : \A s \in sent :
        /\ f[s.code] \in 1 .. Len(list) /\ list[f[s.code]] = s.at
        /\ \A u \in sent : f[s.code] = f[u.code] => s.code = u.code
  BY DEF Covered
<1> DEFINE places == 1 .. Len(list)
           g == [s \in sent |-> f[s.code]]
<1>2. Len(list) \in Nat /\ IsFiniteSet(places) /\ Cardinality(places) = Len(list)
  <2>1. Len(list) \in Nat
    OBVIOUS
  <2> QED BY <2>1, UpTo
<1>3. g \in Injection(sent, places)
  BY <1>1 DEF Injection, IsInjective
<1> HIDE DEF places, g
<1>4. IsFiniteSet(sent) /\ Cardinality(sent) <= Cardinality(places)
  BY <1>2, <1>3, FS_Injection
<1>5. Cardinality(sent) \in Nat
  BY <1>4, FS_CardinalityType
<1> QED BY <1>2, <1>4, <1>5

-----------------------------------------------------------------------------
(* Devices, tokens and accounts.  A row that keeps its account, its        *)
(* sign-in and its serial keeps the tokens.                                *)

(* Tokens that are forgotten.                                              *)
LEMMA AccessForgotten ==
  ASSUME NEW D, NEW I, NEW A, NEW n, NEW S, NEW V, AccessGood(D, I, A, n, S, V),
         NEW J, J \subseteq I
  PROVE  AccessGood(D, J, A, n, S, V)
BY DEF AccessGood

(* The code of an address is spent, and its account made where it had none.*)
Gives(x, A, n, B, m) ==
  /\ m = IF A[x] = 0 THEN n + 1 ELSE n
  /\ B = [A EXCEPT ![x] = IF A[x] = 0 THEN m ELSE A[x]]

LEMMA AccessSpent ==
  ASSUME NEW D, NEW I, NEW A, NEW n, NEW S, NEW V, AccessGood(D, I, A, n, S, V),
         NEW x \in Address, NEW B, NEW m, Gives(x, A, n, B, m)
  PROVE  AccessGood(D, I, B, m, S, V) /\ B[x] \in 1 .. m
<1>0. /\ m = IF A[x] = 0 THEN n + 1 ELSE n
      /\ B = [A EXCEPT ![x] = IF A[x] = 0 THEN m ELSE A[x]]
  BY DEF Gives
<1>1. /\ A \in [Address -> 0 .. n] /\ n \in Nat
      /\ \A d \in Device : RowGood(D[d], A, n, S, V)
      /\ \A t \in I : TokenGood(t, D, A, n, S, V)
  BY DEF AccessGood
<1>2. m \in Nat /\ n <= m /\ (A[x] = 0 => m \notin 0 .. n /\ m \in 1 .. m)
  BY <1>0, <1>1
<1>3. A[x] \in 0 .. n /\ A[x] \in 0 .. m /\ m \in 0 .. m
  BY <1>1, <1>2
<1>4. B \in [Address -> 0 .. m]
  BY <1>0, <1>1, <1>2, <1>3
<1>5. B[x] \in 1 .. m
  BY <1>0, <1>1, <1>2, <1>3
<1>6. \A y \in Address : B[y] = A[y] \/ (A[y] = 0 /\ B[y] \notin 0 .. n)
  BY <1>0, <1>1, <1>2
<1>7. ASSUME NEW d \in Device PROVE RowGood(D[d], B, m, S, V)
  <2>1. RowGood(D[d], A, n, S, V)
    BY <1>1
  <2>2. D[d].account \in Nat /\ D[d].account <= m
    BY <1>1, <1>2, <2>1 DEF RowGood, DeviceType
  <2>3. D[d].account # 0 => \E y \in Address : B[y] = D[d].account
    BY <1>6, <2>1 DEF RowGood
  <2> QED BY <2>1, <2>2, <2>3 DEF RowGood
<1>8. ASSUME NEW t \in I PROVE TokenGood(t, D, B, m, S, V)
  <2>1. TokenGood(t, D, A, n, S, V)
    BY <1>1
  <2>2. t.account \in 1 .. n /\ t.account \in 1 .. m /\ t.account \in 0 .. n /\ t.account # 0
    BY <1>1, <1>2, <2>1 DEF TokenGood
  <2>3. \A y \in Address : A[y] # t.account => B[y] # t.account
    BY <1>6, <2>2
  <2> QED BY <2>1, <2>2, <2>3 DEF TokenGood
<1> QED BY <1>2, <1>4, <1>5, <1>7, <1>8 DEF AccessGood

(* A device signs in: no token is of that sign-in yet.                     *)
LEMMA AccessSigned ==
  ASSUME NEW D, NEW I, NEW A, NEW n, NEW S, NEW V, AccessGood(D, I, A, n, S, V),
         NEW d \in Device, NEW x \in Address, A[x] # 0, D[d].account \in {0, A[x]},
         ~D[d].revoked, NEW now \in Nat, NEW E \in [Device -> DeviceType],
         \A e \in Device \ {d} : E[e] = D[e],
         E[d].account = A[x], E[d].verified = now, E[d].signIn = Len(S) + 1,
         ~E[d].revoked, E[d].serial = D[d].serial
  PROVE  AccessGood(E, I, A, n, Append(S, now), V)
<1> DEFINE T == Append(S, now)
<1>1. /\ D \in [Device -> DeviceType] /\ A \in [Address -> 0 .. n] /\ n \in Nat
      /\ S \in Seq(Nat) /\ V \subseteq 0 .. Len(S)
      /\ \A e \in Device : RowGood(D[e], A, n, S, V)
      /\ \A e, f \in Device : D[e].signIn = D[f].signIn /\ D[e].signIn # 0 => e = f
      /\ \A t \in I : TokenGood(t, D, A, n, S, V)
      /\ \A t, u \in I : t.signIn = u.signIn => t.device = u.device
  BY DEF AccessGood
<1>2. /\ Len(S) \in Nat /\ T \in Seq(Nat) /\ Len(T) = Len(S) + 1 /\ T[Len(S) + 1] = now
      /\ \A i \in 1 .. Len(S) : T[i] = S[i]
  <2>1. Len(S) \in Nat
    BY <1>1
  <2> QED BY <1>1, <2>1, AppendProperties
<1> HIDE DEF T
<1>3. V \subseteq 0 .. Len(T) /\ Len(S) + 1 \notin V /\ Len(S) + 1 \notin 0 .. Len(S)
  BY <1>1, <1>2
<1>4. \A e \in Device : D[e].signIn \in 0 .. Len(S)
  BY <1>1, <1>2 DEF RowGood, DeviceType
<1>5. ASSUME NEW e \in Device PROVE RowGood(E[e], A, n, T, V)
  <2>1. CASE e = d
    <3>1. E[d].account <= n /\ E[d].signIn # 0 /\ E[d].signIn <= Len(T)
      BY <1>1, <1>2
    <3> QED BY <1>2, <1>3, <2>1, <3>1 DEF RowGood
  <2>2. CASE e # d
    <3>1. E[e] = D[e] /\ RowGood(D[e], A, n, S, V) /\ D[e].signIn <= Len(T)
      BY <1>1, <1>2, <1>4, <2>2
    <3>2. D[e].signIn # 0 => T[D[e].signIn] = S[D[e].signIn]
      BY <1>2, <1>4
    <3> QED BY <3>1, <3>2 DEF RowGood
  <2> QED BY <2>1, <2>2
<1>6. \A e, f \in Device : E[e].signIn = E[f].signIn /\ E[e].signIn # 0 => e = f
  BY <1>1, <1>3, <1>4
<1>7. ASSUME NEW t \in I PROVE TokenGood(t, E, A, n, T, V)
  <2>1. TokenGood(t, D, A, n, S, V)
    BY <1>1
  <2>2. /\ t \in TokenType /\ t.account \in 1 .. n /\ t.account # 0 /\ t.device \in Device
        /\ t.signIn \in 1 .. Len(S) /\ S[t.signIn] = t.shown
    BY <1>1, <2>1 DEF TokenGood, TokenType
  <2>3. t.signIn \in 1 .. Len(T) /\ T[t.signIn] = t.shown /\ t.signIn # Len(S) + 1
    BY <1>2, <2>2
  <2>4. \A e \in Device : E[e].signIn = t.signIn => e = t.device
    BY <2>1, <2>3 DEF TokenGood
  <2>5. CASE t.device # d
    BY <2>1, <2>2, <2>3, <2>4, <2>5 DEF TokenGood
  <2>6. CASE t.device = d
    BY <2>1, <2>2, <2>3, <2>4, <2>6 DEF TokenGood
  <2> QED BY <2>5, <2>6
<1> QED BY <1>1, <1>2, <1>3, <1>5, <1>6, <1>7 DEF AccessGood, T

(* A device is given a token of its sign-in, and what it may go on with.   *)
LEMMA AccessIssued ==
  ASSUME NEW D, NEW I, NEW A, NEW n, NEW S, NEW V, AccessGood(D, I, A, n, S, V),
         NEW d \in Device, D[d].account # 0, ~D[d].revoked, D[d].signIn \notin V,
         NEW E \in [Device -> DeviceType], \A e \in Device \ {d} : E[e] = D[e],
         E[d].account = D[d].account, E[d].verified = D[d].verified,
         E[d].signIn = D[d].signIn, ~E[d].revoked, E[d].serial = D[d].serial,
         NEW new \in TokenType, new.device = d, new.account = D[d].account,
         new.serial = D[d].serial, new.shown = D[d].verified, new.signIn = D[d].signIn,
         NEW J, J \in {I, I \cup {new}}
  PROVE  AccessGood(E, J, A, n, S, V)
<1>1. /\ D \in [Device -> DeviceType] /\ A \in [Address -> 0 .. n] /\ n \in Nat
      /\ S \in Seq(Nat) /\ V \subseteq 0 .. Len(S)
      /\ \A e \in Device : RowGood(D[e], A, n, S, V)
      /\ \A e, f \in Device : D[e].signIn = D[f].signIn /\ D[e].signIn # 0 => e = f
      /\ \A t \in I : TokenGood(t, D, A, n, S, V)
      /\ \A t, u \in I : t.signIn = u.signIn => t.device = u.device
  BY DEF AccessGood
<1>2. \A e \in Device : /\ E[e].signIn = D[e].signIn /\ E[e].account = D[e].account
                        /\ E[e].serial = D[e].serial /\ E[e].revoked = D[e].revoked
  <2>1. \A e \in Device : /\ E[e].signIn = D[e].signIn /\ E[e].account = D[e].account
                          /\ E[e].serial = D[e].serial
    OBVIOUS
  <2>2. \A e \in Device : E[e].revoked = D[e].revoked
    <3>1. E[d].revoked = FALSE /\ D[d].revoked = FALSE
      BY <1>1 DEF DeviceType
    <3> QED BY <3>1
  <2> QED BY <2>1, <2>2
<1>3. ASSUME NEW e \in Device PROVE RowGood(E[e], A, n, S, V)
  <2>1. RowGood(D[e], A, n, S, V) /\ E[e] \in DeviceType
    BY <1>1
  <2>2. CASE e = d
    BY <2>1, <2>2 DEF RowGood
  <2>3. CASE e # d
    BY <2>1, <2>3
  <2> QED BY <2>2, <2>3
<1>4. TokenGood(new, E, A, n, S, V)
  <2>1. RowGood(D[d], A, n, S, V) /\ D[d] \in DeviceType
    BY <1>1
  <2>2. new.account \in 1 .. n /\ new.signIn \in 1 .. Len(S) /\ S[new.signIn] = new.shown
    BY <1>1, <2>1 DEF RowGood, DeviceType
  <2>3. new.serial <= E[d].serial
    BY <2>1 DEF DeviceType
  <2>4. \A e \in Device : E[e].signIn = new.signIn => e = d
    BY <1>1, <1>2, <2>1 DEF RowGood
  <2> QED BY <2>2, <2>3, <2>4 DEF TokenGood
<1>5. ASSUME NEW t \in I PROVE TokenGood(t, E, A, n, S, V)
  <2>1. TokenGood(t, D, A, n, S, V) /\ t.device \in Device
    BY <1>1 DEF TokenGood, TokenType
  <2> QED BY <1>2, <2>1 DEF TokenGood
<1>6. \A t \in I : t.signIn = new.signIn => t.device = d
  BY <1>1 DEF TokenGood
<1>7. \A t, u \in J : t.signIn = u.signIn => t.device = u.device
  BY <1>1, <1>6
<1> QED BY <1>1, <1>2, <1>3, <1>4, <1>5, <1>7 DEF AccessGood

(* The sign-in of a device is over, by leaving or by revocation.           *)
LEMMA AccessEnded ==
  ASSUME NEW D, NEW I, NEW A, NEW n, NEW S, NEW V, AccessGood(D, I, A, n, S, V),
         NEW d \in Device, D[d].account # 0,
         NEW E \in [Device -> DeviceType], \A e \in Device \ {d} : E[e] = D[e],
         E[d].account = D[d].account, E[d].verified = D[d].verified,
         E[d].signIn = D[d].signIn, E[d].serial >= D[d].serial,
         E[d].revoked \/ ~E[d].holds, E[d].revoked \/ E[d].serial > D[d].serial,
         NEW W, W = V \cup {t.signIn : t \in {t \in I : t.device \in {d}}}
                      \cup {D[e].signIn : e \in {d}}
  PROVE  AccessGood(E, I, A, n, S, W)
<1>1. /\ D \in [Device -> DeviceType] /\ A \in [Address -> 0 .. n] /\ n \in Nat
      /\ S \in Seq(Nat) /\ V \subseteq 0 .. Len(S)
      /\ \A e \in Device : RowGood(D[e], A, n, S, V)
      /\ \A e, f \in Device : D[e].signIn = D[f].signIn /\ D[e].signIn # 0 => e = f
      /\ \A t \in I : TokenGood(t, D, A, n, S, V)
      /\ \A t, u \in I : t.signIn = u.signIn => t.device = u.device
  BY DEF AccessGood
<1>2. \A e \in Device : E[e].signIn = D[e].signIn /\ E[e].account = D[e].account
  OBVIOUS
<1>3. W \subseteq 0 .. Len(S)
  <2>1. \A t \in I : t.signIn \in 0 .. Len(S)
    BY <1>1 DEF TokenGood
  <2>2. D[d].signIn \in 0 .. Len(S)
    BY <1>1 DEF RowGood, DeviceType
  <2> QED BY <1>1, <2>1, <2>2
<1>4. ASSUME NEW e \in Device PROVE RowGood(E[e], A, n, S, W)
  <2>1. RowGood(D[e], A, n, S, V) /\ E[e] \in DeviceType
    BY <1>1
  <2>2. CASE e = d
    BY <2>1, <2>2 DEF RowGood
  <2>3. CASE e # d
    <3>1. D[e].account # 0 => D[e].signIn \in V \/ D[e].signIn \notin W
      <4> SUFFICES ASSUME D[e].account # 0, D[e].signIn \in W PROVE D[e].signIn \in V
        OBVIOUS
      <4>1. D[e].signIn # 0 /\ D[e].signIn # D[d].signIn
        BY <1>1, <2>1, <2>3 DEF RowGood
      <4>2. \A t \in I : t.device = d => t.signIn # D[e].signIn
        BY <1>1, <2>3 DEF TokenGood
      <4> QED BY <4>1, <4>2
    <3> QED BY <2>1, <2>3, <3>1 DEF RowGood
  <2> QED BY <2>2, <2>3
<1>5. ASSUME NEW t \in I PROVE TokenGood(t, E, A, n, S, W)
  <2>1. TokenGood(t, D, A, n, S, V) /\ t.device \in Device /\ t.serial \in Nat
    BY <1>1 DEF TokenGood, TokenType
  <2>2. CASE t.device = d
    <3>1. D[d].serial \in Nat /\ E[d].serial \in Nat
      BY <1>1 DEF DeviceType
    <3>2. t.serial <= D[d].serial =>
            t.serial <= E[d].serial /\ (E[d].revoked \/ t.serial < E[d].serial)
      BY <2>1, <3>1
    <3> QED BY <1>2, <2>1, <2>2, <3>2 DEF TokenGood
  <2>3. CASE t.device # d
    <3>1. t.signIn \in W => t.signIn \in V
      <4>1. \A u \in I : u.device = d => u.signIn # t.signIn
        BY <1>1, <2>3
      <4>2. t.signIn # D[d].signIn
        BY <2>1, <2>3 DEF TokenGood
      <4> QED BY <4>1, <4>2
    <3> QED BY <1>2, <2>1, <2>3, <3>1 DEF TokenGood
  <2> QED BY <2>2, <2>3
<1> QED BY <1>1, <1>2, <1>3, <1>4, <1>5 DEF AccessGood

(* Deleting account makes the rows E, the addresses B and the ended sign-ins W: what the     *)
(* lemma below starts from.                                                                  *)
Deletes(account, D, I, A, V, ds, E, B, W) ==
  /\ ds = {d \in Device : D[d].account = account}
  /\ E = [d \in Device |-> IF d \in ds THEN NoDevice ELSE D[d]]
  /\ B = [x \in Address |-> IF A[x] = account THEN 0 ELSE A[x]]
  /\ W = V \cup {t.signIn : t \in {t \in I : t.device \in ds}} \cup {D[d].signIn : d \in ds}

(* An account is deleted with its devices.                                 *)
LEMMA AccessDeleted ==
  ASSUME NEW D, NEW I, NEW A, NEW n, NEW S, NEW V, AccessGood(D, I, A, n, S, V),
         NEW account \in 1 .. n, NEW ds, NEW E, NEW B, NEW W,
         Deletes(account, D, I, A, V, ds, E, B, W)
  PROVE  AccessGood(E, I, B, n, S, W)
<1> /\ ds = {d \in Device : D[d].account = account}
    /\ E = [d \in Device |-> IF d \in ds THEN NoDevice ELSE D[d]]
    /\ B = [x \in Address |-> IF A[x] = account THEN 0 ELSE A[x]]
    /\ W = V \cup {t.signIn : t \in {t \in I : t.device \in ds}} \cup {D[d].signIn : d \in ds}
  BY DEF Deletes
<1>1. /\ D \in [Device -> DeviceType] /\ A \in [Address -> 0 .. n] /\ n \in Nat
      /\ S \in Seq(Nat) /\ V \subseteq 0 .. Len(S)
      /\ \A e \in Device : RowGood(D[e], A, n, S, V)
      /\ \A e, f \in Device : D[e].signIn = D[f].signIn /\ D[e].signIn # 0 => e = f
      /\ \A t \in I : TokenGood(t, D, A, n, S, V)
      /\ \A t, u \in I : t.signIn = u.signIn => t.device = u.device
  BY DEF AccessGood
<1>2. NoDevice \in DeviceType /\ NoDevice.account = 0 /\ NoDevice.signIn = 0
  BY DEF NoDevice, DeviceType
<1>3. E \in [Device -> DeviceType]
  BY <1>1, <1>2
<1>4. B \in [Address -> 0 .. n] /\ account # 0
  BY <1>1
<1>5. W \subseteq 0 .. Len(S)
  <2>1. \A t \in I : t.signIn \in 0 .. Len(S)
    BY <1>1 DEF TokenGood
  <2>2. \A d \in ds : D[d].signIn \in 0 .. Len(S)
    BY <1>1 DEF RowGood, DeviceType
  <2> QED BY <1>1, <2>1, <2>2
<1>6. ASSUME NEW e \in Device PROVE RowGood(E[e], B, n, S, W)
  <2>1. RowGood(D[e], A, n, S, V) /\ E[e] \in DeviceType /\ Len(S) \in Nat
    BY <1>1, <1>3
  <2>2. CASE e \in ds
    <3>1. E[e] = NoDevice
      BY <2>2
    <3> QED BY <1>1, <1>2, <2>1, <3>1 DEF RowGood
  <2>3. CASE e \notin ds
    <3>1. E[e] = D[e] /\ D[e].account # account
      BY <2>3
    <3>2. D[e].account # 0 => \E x \in Address : B[x] = D[e].account
      BY <2>1, <3>1 DEF RowGood
    <3>3. D[e].account # 0 => D[e].signIn \in V \/ D[e].signIn \notin W
      <4> SUFFICES ASSUME D[e].account # 0, D[e].signIn \in W PROVE D[e].signIn \in V
        OBVIOUS
      <4>1. D[e].signIn # 0
        BY <2>1 DEF RowGood
      <4>2. \A d \in ds : D[e].signIn # D[d].signIn
        BY <1>1, <2>3, <4>1
      <4>3. \A t \in I : t.device \in ds => t.signIn # D[e].signIn
        BY <1>1, <2>3 DEF TokenGood
      <4> QED BY <4>2, <4>3
    <3> QED BY <2>1, <3>1, <3>2, <3>3 DEF RowGood
  <2> QED BY <2>2, <2>3
<1>7. \A e, f \in Device : E[e].signIn = E[f].signIn /\ E[e].signIn # 0 => e = f
  BY <1>1, <1>2
<1>8. ASSUME NEW t \in I PROVE TokenGood(t, E, B, n, S, W)
  <2>1. /\ TokenGood(t, D, A, n, S, V) /\ t.device \in Device
        /\ t.account # 0 /\ t.signIn # 0
    BY <1>1 DEF TokenGood, TokenType
  <2>2. \A e \in Device : E[e].signIn = t.signIn => e = t.device
    BY <1>2, <2>1 DEF TokenGood
  <2>3. (\A x \in Address : A[x] # t.account) => \A x \in Address : B[x] # t.account
    BY <2>1
  <2>4. CASE t.device \in ds
    <3>1. E[t.device] = NoDevice /\ D[t.device].account = account
      BY <2>1, <2>4
    <3>2. \A x \in Address : B[x] # t.account
      BY <1>4, <2>1, <2>3, <3>1 DEF TokenGood
    <3> QED BY <1>2, <2>1, <2>2, <3>1, <3>2 DEF TokenGood
  <2>5. CASE t.device \notin ds
    <3>1. E[t.device] = D[t.device]
      BY <2>1, <2>5
    <3>2. t.signIn \in W => t.signIn \in V
      <4>1. \A u \in I : u.device \in ds => u.signIn # t.signIn
        BY <1>1, <2>5
      <4>2. \A d \in ds : t.signIn # D[d].signIn
        BY <2>1, <2>5 DEF TokenGood
      <4> QED BY <4>1, <4>2
    <3> QED BY <2>1, <2>2, <2>3, <3>1, <3>2 DEF TokenGood
  <2> QED BY <2>4, <2>5
<1> QED BY <1>1, <1>3, <1>4, <1>5, <1>6, <1>7, <1>8 DEF AccessGood

-----------------------------------------------------------------------------
(* The steps.                                                              *)

LEMMA NatFacts ==
  ASSUME Limits, Invariant
  PROVE  /\ clock \in Nat /\ Window \in Nat /\ Window # 0 /\ clock > clock - Window
         /\ {MaxCodes, MaxAttempts, MaxTime, MaxRequests, MaxPerSource} \subseteq Nat
         /\ {CodeTtl, AccessTtl, RefreshTtl} \subseteq Nat
         /\ past.made \in 0 .. MaxCodes /\ past.made \in Nat /\ past.accounts \in Nat
         /\ past.sent \subseteq SentType /\ past.shown \in Seq(Nat)
BY DEF Limits, Invariant, PastType

LEMMA NoCodeTyped == ASSUME Limits PROVE NoCode \in CodeType /\ NoCode.code = 0
BY DEF Limits, NoCode, CodeType

(* Rows that were emptied or counted up.                                   *)
LEMMA CodesKept ==
  ASSUME NEW rows, NEW made, NEW used, CodesGood(rows, made, used), NEW left \in [Address -> CodeType],
         \A x \in Address : left[x] = NoCode \/ (left[x].code = rows[x].code /\ rows[x] # NoCode),
         NoCode.code = 0
  PROVE  CodesGood(left, made, used)
<1>1. \A x \in Address : left[x] = NoCode \/ left[x].code \in 1 .. made \ used
  BY DEF CodesGood
<1>2. \A x \in Address : left[x].code # 0 => left[x].code = rows[x].code
  OBVIOUS
<1>3. \A x, y \in Address : left[x].code = left[y].code /\ left[x].code # 0 => x = y
  BY <1>2 DEF CodesGood
<1> QED BY <1>1, <1>3 DEF CodesGood

LEMMA StartGood == Limits /\ Init => Invariant
<1> SUFFICES ASSUME Limits, Init PROVE Invariant
  OBVIOUS
<1>1. /\ clock = 1 /\ clock \in 1 .. MaxTime
      /\ codes = [x \in Address |-> NoCode] /\ accounts = [x \in Address |-> 0]
      /\ asked = [to |-> [x \in Address |-> <<>>], source |-> <<>>]
      /\ devices = [d \in Device |-> NoDevice] /\ issued = {}
  BY DEF Init, Limits
<1>2. /\ past.made = 0 /\ past.accounts = 0 /\ past.used = {} /\ past.sent = {}
      /\ past.shown = <<>> /\ past.over = {} /\ past \in PastType
  BY DEF Init, Limits, PastType
<1>3. CodesGood(codes, past.made, past.used)
  BY <1>1, <1>2, NoCodeTyped DEF CodesGood
<1>4. SentGood(past.sent, past.made, clock)
  BY <1>2 DEF SentGood
<1>5. ListsGood(asked, past.sent)
  <2>1. /\ asked \in AskedType /\ asked.source = <<>> /\ \A x \in Address : asked.to[x] = <<>>
    BY <1>1 DEF AskedType
  <2>2. To({}, "nobody") = {} /\ \A x \in Address : To({}, x) = {}
    BY DEF To
  <2>3. Len(<<>>) = 0 /\ 0 <= MaxPerSource /\ 0 <= MaxRequests
    BY DEF Limits
  <2> QED BY <1>2, <2>1, <2>2, <2>3, CoveredNone DEF ListsGood
<1>6. AccessGood(devices, issued, accounts, past.accounts, past.shown, past.over)
  <2>1. NoDevice \in DeviceType /\ NoDevice.account = 0 /\ NoDevice.signIn = 0
    BY DEF NoDevice, DeviceType
  <2>2. past.shown \in Seq(Nat) /\ Len(past.shown) = 0
    BY <1>2
  <2> QED BY <1>1, <1>2, <2>1, <2>2 DEF AccessGood, RowGood
<1> QED BY <1>1, <1>2, <1>3, <1>4, <1>5, <1>6 DEF Invariant

(* A request for a code, granted or not.                                   *)
LEMMA RequestKeeps == ASSUME Limits, Invariant, NEW x \in Address, Request(x) PROVE Invariant'
<1> DEFINE to == [y \in Address |-> Recent(asked.to[y])]
           source == Recent(asked.source)
           granted == Len(to[x]) < MaxRequests /\ Len(source) < MaxPerSource
           code == past.made + 1
           expires == clock + CodeTtl
           row == [code |-> code, expires |-> expires, attempts |-> 0]
           new == [code |-> code, to |-> x, at |-> clock]
<1>0. /\ CodesGood(codes, past.made, past.used) /\ past \in PastType /\ clock \in 1 .. MaxTime
      /\ SentGood(past.sent, past.made, clock) /\ ListsGood(asked, past.sent)
      /\ AccessGood(devices, issued, accounts, past.accounts, past.shown, past.over)
  BY DEF Invariant
<1>1. source \in Seq(Nat) /\ Len(source) <= MaxPerSource /\ Covered(past.sent, source)
  <2>1. /\ asked.source \in Seq(Nat) /\ Len(asked.source) <= MaxPerSource
        /\ Covered(past.sent, asked.source)
    BY <1>0 DEF ListsGood, AskedType
  <2>2. /\ Recent(asked.source) \in Seq(Nat) /\ Len(Recent(asked.source)) <= Len(asked.source)
        /\ Covered(past.sent, Recent(asked.source))
    BY <1>0, <2>1, NatFacts, RecentKeeps DEF SentGood
  <2>3. Len(asked.source) \in Nat /\ Len(source) \in Nat /\ MaxPerSource \in Nat
    BY <2>1, <2>2 DEF Limits
  <2> QED BY <2>1, <2>2, <2>3
<1>2. ASSUME NEW y \in Address
      PROVE  to[y] \in Seq(Nat) /\ Len(to[y]) <= MaxRequests /\ Covered(To(past.sent, y), to[y])
  <2>1. /\ asked.to[y] \in Seq(Nat) /\ Len(asked.to[y]) <= MaxRequests
        /\ Covered(To(past.sent, y), asked.to[y])
    BY <1>0 DEF ListsGood, AskedType
  <2>2. To(past.sent, y) \subseteq SentType /\ \A s \in To(past.sent, y) : s.at > clock - Window
    BY <1>0 DEF SentGood, To
  <2>3. /\ Recent(asked.to[y]) \in Seq(Nat) /\ Len(Recent(asked.to[y])) <= Len(asked.to[y])
        /\ Covered(To(past.sent, y), Recent(asked.to[y]))
    BY <2>1, <2>2, NatFacts, RecentKeeps
  <2>4. Len(asked.to[y]) \in Nat /\ Len(Recent(asked.to[y])) \in Nat /\ MaxRequests \in Nat
    BY <2>1, <2>3 DEF Limits
  <2> QED BY <2>1, <2>3, <2>4
<1>3. CodesGood(Swept, past.made, past.used)
  <2>1. Swept \in [Address -> CodeType]
    BY <1>0, NoCodeTyped DEF Swept, CodesGood
  <2>2. \A y \in Address : Swept[y] = NoCode \/ (Swept[y].code = codes[y].code /\ codes[y] # NoCode)
    BY DEF Swept
  <2> QED BY <1>0, <2>1, <2>2, NoCodeTyped, CodesKept
<1>4. /\ UNCHANGED <<clock, accounts, devices, issued>>
      /\ granted => /\ past.made < MaxCodes
                    /\ asked' = [to |-> [to EXCEPT ![x] = Append(@, clock)], source |-> Append(source, clock)]
                    /\ codes' = [Swept EXCEPT ![x] = row]
                    /\ past' = [past EXCEPT !.made = code, !.sent = @ \cup {new}]
      /\ ~granted => asked' = [to |-> to, source |-> source] /\ codes' = Swept /\ past' = past
  BY DEF Request
<1> HIDE DEF to, source, code, expires
<1>5. to \in [Address -> Seq(Nat)]
  BY <1>2 DEF to
<1>6. CASE ~granted
  <2>1. ListsGood(asked', past.sent)
    BY <1>1, <1>2, <1>4, <1>5, <1>6 DEF ListsGood, AskedType
  <2> QED BY <1>0, <1>3, <1>4, <1>6, <2>1 DEF Invariant
<1>7. CASE granted
  <2>1. /\ code \in Nat /\ code \in 1 .. MaxCodes /\ code \in 0 .. MaxCodes /\ code = past.made + 1
        /\ expires \in Nat /\ code \in 1 .. code /\ code # 0
        /\ code \notin 1 .. past.made /\ 1 .. past.made \subseteq 1 .. code
    <3>1. past.made < MaxCodes
      BY <1>4, <1>7
    <3>2. MaxCodes \in Nat /\ past.made \in Nat /\ clock \in Nat /\ CodeTtl \in Nat
      BY NatFacts
    <3> QED BY <3>1, <3>2 DEF code, expires
  <2>2. /\ past'.made = code /\ past'.accounts = past.accounts /\ past'.used = past.used
        /\ past'.sent = past.sent \cup {new} /\ past'.shown = past.shown /\ past'.over = past.over
    BY <1>0, <1>4, <1>7 DEF PastType
  <2>3. new \in SentType /\ new.code = code /\ new.to = x /\ new.at = clock
    BY <2>1, NatFacts DEF SentType
  <2>4. past' \in PastType
    <3> DEFINE more == past.sent \cup {new}
    <3>1. past' = [past EXCEPT !.made = code, !.sent = more]
      BY <1>4, <1>7
    <3>2. more \in SUBSET SentType
      BY <2>3, NatFacts
    <3> HIDE DEF new, more
    <3> QED BY <1>0, <2>1, <3>1, <3>2 DEF PastType
  <2>5. row \in CodeType /\ row.code = code
    BY <2>1, NatFacts DEF CodeType
  <2> HIDE DEF row, new
  <2>6. CodesGood(codes', code, past.used)
    <3>1. codes' \in [Address -> CodeType]
      BY <1>3, <1>4, <1>7, <2>5 DEF CodesGood
    <3>2. \A y \in Address : codes'[y] = IF y = x THEN row ELSE Swept[y]
      BY <1>3, <1>4, <1>7 DEF CodesGood
    <3>3. past.used \subseteq 1 .. code /\ code \notin past.used
      BY <1>0, <2>1 DEF CodesGood
    <3>4. \A y \in Address : Swept[y] = NoCode \/ (Swept[y].code \in 1 .. code \ past.used /\ Swept[y].code # code)
      BY <1>3, <2>1 DEF CodesGood
    <3>5. \A y \in Address : Swept[y].code # code
      BY <2>1, <3>4, NoCodeTyped
    <3>6. \A y \in Address : codes'[y] = NoCode \/ codes'[y].code \in 1 .. code \ past.used
      BY <2>1, <2>5, <3>2, <3>3, <3>4
    <3>7. \A y, z \in Address : codes'[y].code = codes'[z].code /\ codes'[y].code # 0 => y = z
      BY <1>3, <2>5, <3>2, <3>5 DEF CodesGood
    <3> QED BY <3>1, <3>3, <3>6, <3>7 DEF CodesGood
  <2>7. \A s \in past.sent : s.code # code
    BY <1>0, <2>1, NatFacts DEF SentGood, SentType
  <2>8. SentGood(past'.sent, code, clock)
    <3>1. \A s \in past.sent : s.code <= code
      BY <1>0, <2>1, NatFacts DEF SentGood, SentType
    <3>2. code <= code /\ clock > clock - Window
      BY <2>1, NatFacts
    <3> QED BY <1>0, <2>2, <2>3, <2>7, <3>1, <3>2 DEF SentGood
  <2>9. ListsGood(asked', past'.sent)
    <3>1. asked'.source = Append(source, clock) /\ asked'.to = [to EXCEPT ![x] = Append(to[x], clock)]
      BY <1>4, <1>7
    <3>2. Append(source, clock) \in Seq(Nat) /\ Len(Append(source, clock)) = Len(source) + 1
      BY <1>1, NatFacts, AppendProperties
    <3>3. Append(to[x], clock) \in Seq(Nat) /\ Len(Append(to[x], clock)) = Len(to[x]) + 1
      BY <1>2, NatFacts, AppendProperties
    <3>4. asked' \in AskedType
      <4> DEFINE longer == Append(to[x], clock)
                 longest == Append(source, clock)
      <4>1. asked' = [to |-> [to EXCEPT ![x] = longer], source |-> longest]
        BY <1>4, <1>7
      <4>2. longer \in Seq(Nat) /\ longest \in Seq(Nat)
        BY <3>2, <3>3
      <4> HIDE DEF longer, longest
      <4>3. [to EXCEPT ![x] = longer] \in [Address -> Seq(Nat)]
        BY <1>5, <4>2
      <4> QED BY <4>1, <4>2, <4>3 DEF AskedType
    <3>5. Len(asked'.source) <= MaxPerSource
      BY <1>1, <1>7, <3>1, <3>2 DEF Limits
    <3>6. Covered(past'.sent, asked'.source)
      <4>1. past.sent \subseteq SentType /\ \A s \in past.sent : s.code # new.code
        BY <2>3, <2>7, NatFacts
      <4>2. Covered(past.sent \cup {new}, Append(source, new.at))
        BY <1>1, <2>3, <4>1, CoveredGrown
      <4> QED BY <2>2, <2>3, <3>1, <4>2
    <3>7. ASSUME NEW y \in Address
          PROVE  Len(asked'.to[y]) <= MaxRequests /\ Covered(To(past'.sent, y), asked'.to[y])
      <4>1. CASE y = x
        <5>1. asked'.to[y] = Append(to[x], clock)
          BY <1>5, <3>1, <4>1
        <5>2. To(past'.sent, y) = To(past.sent, x) \cup {new}
          BY <2>2, <2>3, <4>1 DEF To
        <5>3. To(past.sent, x) \subseteq SentType /\ \A s \in To(past.sent, x) : s.code # new.code
          BY <2>3, <2>7, NatFacts DEF To
        <5>4. Covered(To(past.sent, x) \cup {new}, Append(to[x], new.at))
          BY <1>2, <2>3, <5>3, CoveredGrown
        <5>5. Len(to[x]) \in Nat /\ MaxRequests \in Nat
          BY <1>2 DEF Limits
        <5> QED BY <1>7, <2>3, <3>3, <5>1, <5>2, <5>4, <5>5
      <4>2. CASE y # x
        <5>1. asked'.to[y] = to[y] /\ To(past'.sent, y) = To(past.sent, y)
          BY <1>5, <2>2, <2>3, <3>1, <4>2 DEF To
        <5> QED BY <1>2, <5>1
      <4> QED BY <4>1, <4>2
    <3> QED BY <3>4, <3>5, <3>6, <3>7 DEF ListsGood
  <2> QED BY <1>0, <1>4, <2>2, <2>4, <2>6, <2>8, <2>9 DEF Invariant
<1> QED BY <1>6, <1>7

(* Addresses are forgotten: their lists are empty, and what was sent to    *)
(* them counts for the source alone.                                       *)
Nameless(s, X) == IF s.to \in X THEN [s EXCEPT !.to = "nobody"] ELSE s

Forgets(X, lists, left, sent, rest) ==
  /\ X \subseteq Address /\ \A s \in rest : \E u \in sent : s = Nameless(u, X)
  /\ left \in AskedType /\ left.source = lists.source
  /\ \A y \in Address : left.to[y] = IF y \in X THEN <<>> ELSE lists.to[y]

LEMMA ListsForgotten ==
  ASSUME Limits, NEW lists, NEW sent, NEW made, NEW now,
         SentGood(sent, made, now), ListsGood(lists, sent),
         NEW X, NEW left, NEW rest, Forgets(X, lists, left, sent, rest)
  PROVE  SentGood(rest, made, now) /\ ListsGood(left, rest)
<1>0. /\ X \subseteq Address /\ \A s \in rest : \E u \in sent : s = Nameless(u, X)
      /\ left \in AskedType /\ left.source = lists.source
      /\ \A y \in Address : left.to[y] = IF y \in X THEN <<>> ELSE lists.to[y]
  BY DEF Forgets
<1>1. ASSUME NEW u \in sent
      PROVE  LET s == Nameless(u, X) IN
             /\ s \in SentType /\ s.code = u.code /\ s.at = u.at
             /\ s.to \in Address => s.to = u.to /\ s.to \notin X
  <2>1. u \in SentType
    BY DEF SentGood
  <2> QED BY <2>1 DEF Nameless, SentType, Limits
<1>2. ASSUME NEW s \in rest
      PROVE  /\ s \in SentType
             /\ \E u \in sent : s = Nameless(u, X) /\ s.code = u.code /\ s.at = u.at
                                /\ (s.to \in Address => s.to = u.to /\ s.to \notin X)
  BY <1>0, <1>1
<1>3. SentGood(rest, made, now)
  <2>1. \A s \in rest : s.code <= made /\ s.at > now - Window
    BY <1>2 DEF SentGood
  <2>2. \A s, v \in rest : s.code = v.code => s = v
    BY <1>2 DEF SentGood
  <2> QED BY <1>2, <2>1, <2>2 DEF SentGood
<1>4. Covered(rest, left.source)
  BY <1>0, <1>2, CoveredCarried DEF ListsGood
<1>5. ASSUME NEW y \in Address
      PROVE  Len(left.to[y]) <= MaxRequests /\ Covered(To(rest, y), left.to[y])
  <2>1. CASE y \in X
    <3>1. To(rest, y) = {}
      BY <1>2, <2>1 DEF To
    <3>2. Len(<<>>) = 0 /\ 0 <= MaxRequests
      BY DEF Limits
    <3> QED BY <1>0, <2>1, <3>1, <3>2, CoveredNone
  <2>2. CASE y \notin X
    <3>1. \A s \in To(rest, y) : \E u \in To(sent, y) : s.code = u.code /\ s.at = u.at
      BY <1>2 DEF To
    <3>2. Covered(To(sent, y), lists.to[y]) /\ Len(lists.to[y]) <= MaxRequests
      BY DEF ListsGood
    <3> QED BY <1>0, <2>2, <3>1, <3>2, CoveredCarried
  <2> QED BY <2>1, <2>2
<1> QED BY <1>0, <1>3, <1>4, <1>5 DEF ListsGood

(* A code is counted against, or its row goes.                             *)
LEMMA RefusedKeeps == ASSUME Limits, Invariant, NEW x \in Address, Refused(x) PROVE Invariant'
<1> DEFINE counted == codes[x].attempts + 1
           row == IF Dead(x) THEN NoCode ELSE [codes[x] EXCEPT !.attempts = counted]
<1>1. /\ CodesGood(codes, past.made, past.used) /\ codes[x] # NoCode
      /\ codes' = [codes EXCEPT ![x] = row]
      /\ UNCHANGED <<clock, asked, accounts, devices, issued, past>>
  BY DEF Invariant, Refused
<1>2. codes \in [Address -> CodeType]
  BY <1>1 DEF CodesGood
<1>3. row \in CodeType /\ (row = NoCode \/ row.code = codes[x].code)
  <2>1. CASE Dead(x)
    BY <2>1, NoCodeTyped
  <2>2. CASE ~Dead(x)
    <3>1. counted \in 0 .. MaxAttempts
      BY <1>2, <2>2, NatFacts DEF Dead, CodeType
    <3> HIDE DEF counted
    <3> QED BY <1>2, <2>2, <3>1 DEF CodeType
  <2> QED BY <2>1, <2>2
<1> HIDE DEF row
<1>4. /\ codes' \in [Address -> CodeType]
      /\ \A y \in Address : codes'[y] = IF y = x THEN row ELSE codes[y]
  BY <1>1, <1>2, <1>3
<1>5. \A y \in Address : codes'[y] = NoCode \/ (codes'[y].code = codes[y].code /\ codes[y] # NoCode)
  BY <1>1, <1>3, <1>4
<1>6. CodesGood(codes', past.made, past.used)
  BY <1>1, <1>4, <1>5, NoCodeTyped, CodesKept
<1> QED BY <1>1, <1>6 DEF Invariant

(* The right code: its row goes, the number of its requests as well, and   *)
(* there is an account.                                                    *)
LEMMA SpendGood ==
  ASSUME Limits, Invariant, NEW x \in Address, codes[x] # NoCode, Spend(x)
  PROVE  LET spent == Spent(x) IN
         /\ spent \in PastType /\ spent.made = past.made
         /\ spent.shown = past.shown /\ spent.over = past.over
         /\ CodesGood(codes', past.made, spent.used)
         /\ SentGood(spent.sent, past.made, clock) /\ ListsGood(asked', spent.sent)
         /\ AccessGood(devices, issued, accounts', spent.accounts, past.shown, past.over)
         /\ accounts'[x] \in 1 .. spent.accounts
<1> DEFINE code == codes[x].code
           used == past.used \cup {code}
           count == IF accounts[x] = 0 THEN past.accounts + 1 ELSE past.accounts
           rest == {s \in past.sent : s.to # x}
                     \cup {[s EXCEPT !.to = "nobody"] : s \in {s \in past.sent : s.to = x}}
           spent == Spent(x)
<1>0. /\ CodesGood(codes, past.made, past.used) /\ past \in PastType /\ clock \in 1 .. MaxTime
      /\ SentGood(past.sent, past.made, clock) /\ ListsGood(asked, past.sent)
      /\ AccessGood(devices, issued, accounts, past.accounts, past.shown, past.over)
  BY DEF Invariant
<1>1. code \in 1 .. past.made /\ code \in Nat /\ code # 0 /\ code \notin past.used
  BY <1>0, NatFacts DEF CodesGood
<1>2. count \in Nat
  BY NatFacts
<1>3. spent = [past EXCEPT !.used = used, !.accounts = count, !.sent = rest]
  BY <1>0 DEF Spent, PastType
<1>4. \A s \in rest : \E u \in past.sent : s = Nameless(u, {x})
  BY DEF Nameless
<1>5. /\ codes' = [codes EXCEPT ![x] = NoCode] /\ asked' = [asked EXCEPT !.to[x] = <<>>]
      /\ accounts' = [accounts EXCEPT ![x] = IF accounts[x] = 0 THEN past.accounts + 1 ELSE accounts[x]]
  BY DEF Spend
<1> HIDE DEF rest, spent
<1>6. asked' \in AskedType /\ asked'.source = asked.source
      /\ \A y \in Address : asked'.to[y] = IF y \in {x} THEN <<>> ELSE asked.to[y]
  <2>1. asked \in AskedType
    BY <1>0 DEF ListsGood
  <2> DEFINE empty == <<>>
             emptied == [asked.to EXCEPT ![x] = empty]
  <2>2. empty \in Seq(Nat) /\ empty = <<>>
    OBVIOUS
  <2>3. asked' = [asked EXCEPT !.to = emptied]
    BY <1>5
  <2> HIDE DEF empty
  <2>4. /\ emptied \in [Address -> Seq(Nat)]
        /\ \A y \in Address : emptied[y] = IF y \in {x} THEN empty ELSE asked.to[y]
    BY <2>1, <2>2 DEF AskedType
  <2> HIDE DEF emptied
  <2> QED BY <2>1, <2>2, <2>3, <2>4 DEF AskedType
<1>7. SentGood(rest, past.made, clock) /\ ListsGood(asked', rest)
  <2>1. Forgets({x}, asked, asked', past.sent, rest)
    BY <1>4, <1>6 DEF Forgets
  <2> QED BY <1>0, <2>1, ListsForgotten
<1>8. CodesGood(codes', past.made, used)
  <2>1. codes \in [Address -> CodeType] /\ NoCode \in CodeType /\ NoCode.code = 0
    BY <1>0, NoCodeTyped DEF CodesGood
  <2>2. codes' \in [Address -> CodeType] /\ \A y \in Address : codes'[y] = IF y = x THEN NoCode ELSE codes[y]
    BY <1>5, <2>1
  <2>3. used \subseteq 1 .. past.made
    BY <1>0, <1>1 DEF CodesGood
  <2>4. \A y \in Address : y = x \/ codes[y].code # code
    BY <1>0, <1>1 DEF CodesGood
  <2>5. \A y \in Address : codes'[y] = NoCode \/ codes'[y].code \in 1 .. past.made \ used
    BY <1>0, <2>2, <2>4 DEF CodesGood
  <2>6. \A y, z \in Address : codes'[y].code = codes'[z].code /\ codes'[y].code # 0 => y = z
    BY <1>0, <2>1, <2>2 DEF CodesGood
  <2> QED BY <2>2, <2>3, <2>5, <2>6 DEF CodesGood
<1>9. /\ AccessGood(devices, issued, accounts', count, past.shown, past.over)
      /\ accounts'[x] \in 1 .. count
  <2>1. accounts' = [accounts EXCEPT ![x] = IF accounts[x] = 0 THEN count ELSE accounts[x]]
    BY <1>5
  <2>2. Gives(x, accounts, past.accounts, accounts', count)
    BY <2>1 DEF Gives
  <2> HIDE DEF count
  <2> QED BY <1>0, <2>2, AccessSpent
<1> HIDE DEF used, count
<1>10. used \in SUBSET Nat /\ rest \in SUBSET SentType
  BY <1>7, <1>8, NatFacts DEF CodesGood, SentGood
<1>11. /\ spent \in PastType /\ spent.made = past.made /\ spent.shown = past.shown
       /\ spent.over = past.over /\ spent.used = used /\ spent.sent = rest
       /\ spent.accounts = count
  BY <1>0, <1>2, <1>3, <1>10 DEF PastType
<1> QED BY <1>7, <1>8, <1>9, <1>11 DEF spent

LEMMA SignInRefusedKeeps ==
  ASSUME Limits, Invariant, NEW d \in Device, NEW x \in Address, SignInRefused(d, x)
  PROVE  Invariant'
<1>1. /\ codes[x] # NoCode /\ Spend(x) /\ past' = Spent(x)
      /\ UNCHANGED <<clock, devices, issued>> /\ clock \in 1 .. MaxTime
  BY DEF SignInRefused, Invariant
<1> QED BY <1>1, SpendGood DEF Invariant

(* What a device is given: a time to go on until, and a token.             *)
LEMMA IssueGood ==
  ASSUME Limits, clock \in Nat, NEW d \in Device, NEW rows, NEW A, NEW n, NEW S, NEW V,
         AccessGood(rows, issued, A, n, S, V), NEW heard \in BOOLEAN,
         rows[d].account # 0, ~rows[d].revoked, rows[d].signIn \notin V, Issue(d, rows, heard)
  PROVE  AccessGood(devices', issued', A, n, S, V)
<1> DEFINE until == clock + RefreshTtl
           expires == clock + AccessTtl
           new == Access(d, rows)
           row == [rows[d] EXCEPT !.refresh = until, !.holds = heard]
<1>1. rows \in [Device -> DeviceType]
  BY DEF AccessGood
<1>2. until \in Nat /\ expires \in Nat
  BY DEF Limits
<1>3. devices' = [rows EXCEPT ![d] = row] /\ issued' \in {issued, issued \cup {new}}
  BY <1>1 DEF Issue
<1>4. new = [device |-> d, account |-> rows[d].account, serial |-> rows[d].serial,
             shown |-> rows[d].verified, expires |-> expires, signIn |-> rows[d].signIn]
  BY DEF Access
<1> HIDE DEF until, expires, new
<1>5. /\ new \in TokenType /\ new.device = d /\ new.account = rows[d].account
      /\ new.serial = rows[d].serial /\ new.shown = rows[d].verified
      /\ new.signIn = rows[d].signIn
  BY <1>1, <1>2, <1>4 DEF TokenType, DeviceType
<1>6. /\ row \in DeviceType /\ row.account = rows[d].account /\ row.verified = rows[d].verified
      /\ row.signIn = rows[d].signIn /\ row.serial = rows[d].serial
  BY <1>1, <1>2 DEF DeviceType
<1>7. ~row.revoked
  BY <1>1 DEF DeviceType
<1> HIDE DEF row
<1>8. /\ devices' \in [Device -> DeviceType] /\ devices'[d] = row
      /\ \A e \in Device \ {d} : devices'[e] = rows[e]
  BY <1>1, <1>3, <1>6
<1> DEFINE E == devices'
           J == issued'
<1>9. /\ E \in [Device -> DeviceType] /\ \A e \in Device \ {d} : E[e] = rows[e]
      /\ E[d].account = rows[d].account /\ E[d].verified = rows[d].verified
      /\ E[d].signIn = rows[d].signIn /\ E[d].serial = rows[d].serial
  BY <1>6, <1>8
<1>10. ~E[d].revoked
  BY <1>7, <1>8
<1>11. J \in {issued, issued \cup {new}}
  BY <1>3
<1> HIDE DEF E, J
<1>12. AccessGood(E, J, A, n, S, V)
  BY <1>5, <1>9, <1>10, <1>11, AccessIssued
<1> QED BY <1>12 DEF E, J

LEMMA SignInKeeps ==
  ASSUME Limits, Invariant, NEW d \in Device, NEW x \in Address, NEW heard \in BOOLEAN,
         SignIn(d, x, heard)
  PROVE  Invariant'
<1> DEFINE signIn == Len(past.shown) + 1
           account == accounts'[x]
           row == [devices[d] EXCEPT !.account = account, !.verified = clock, !.signIn = signIn]
           rows == [devices EXCEPT ![d] = row]
           spent == Spent(x)
           longer == Append(past.shown, clock)
<1>1. /\ codes[x] # NoCode /\ Spend(x) /\ ~devices[d].revoked
      /\ devices[d].account \in {0, account} /\ UNCHANGED clock
      /\ past' = [spent EXCEPT !.shown = Append(@, clock)]
      /\ Issue(d, [devices EXCEPT ![d].account = account, ![d].verified = clock, ![d].signIn = signIn], heard)
  BY DEF SignIn
<1>2. /\ spent \in PastType /\ spent.made = past.made
      /\ spent.shown = past.shown /\ spent.over = past.over
      /\ CodesGood(codes', past.made, spent.used)
      /\ SentGood(spent.sent, past.made, clock) /\ ListsGood(asked', spent.sent)
      /\ AccessGood(devices, issued, accounts', spent.accounts, past.shown, past.over)
      /\ accounts'[x] \in 1 .. spent.accounts
  BY <1>1, SpendGood
<1>3. /\ devices \in [Device -> DeviceType] /\ past.shown \in Seq(Nat) /\ clock \in Nat
      /\ signIn \in Nat /\ account \in Nat /\ account # 0 /\ clock \in 1 .. MaxTime
  BY <1>2, NatFacts DEF AccessGood, PastType, Invariant
<1>4. Issue(d, rows, heard)
  <2>1. [devices EXCEPT ![d].account = account, ![d].verified = clock, ![d].signIn = signIn] = rows
    BY <1>3
  <2> QED BY <1>1, <2>1
<1>5. signIn \notin past.over
  BY <1>2, <1>3 DEF AccessGood
<1> HIDE DEF signIn, account, spent
<1>6. /\ row \in DeviceType /\ row.account = account /\ row.verified = clock
      /\ row.signIn = signIn /\ row.serial = devices[d].serial
  BY <1>3 DEF DeviceType
<1>7. ~row.revoked
  BY <1>1, <1>3 DEF DeviceType
<1> HIDE DEF row
<1>8. /\ rows \in [Device -> DeviceType] /\ rows[d] = row
      /\ \A e \in Device \ {d} : rows[e] = devices[e]
  BY <1>3, <1>6
<1> HIDE DEF rows
<1>9. AccessGood(rows, issued, accounts', spent.accounts, longer, past.over)
  BY <1>1, <1>2, <1>3, <1>6, <1>7, <1>8, AccessSigned DEF account, signIn
<1>10. AccessGood(devices', issued', accounts', spent.accounts, longer, past.over)
  BY <1>3, <1>4, <1>5, <1>6, <1>7, <1>8, <1>9, IssueGood
<1>11. longer \in Seq(Nat)
  BY <1>3, AppendProperties
<1>12. past' = [spent EXCEPT !.shown = longer]
  BY <1>1, <1>2
<1> HIDE DEF longer
<1>13. /\ past' \in PastType /\ past'.made = past.made /\ past'.shown = longer
       /\ past'.over = past.over /\ past'.used = spent.used /\ past'.sent = spent.sent
       /\ past'.accounts = spent.accounts
  BY <1>2, <1>11, <1>12 DEF PastType
<1> QED BY <1>1, <1>2, <1>3, <1>10, <1>13 DEF Invariant

LEMMA RefreshKeeps ==
  ASSUME Limits, Invariant, NEW d \in Device, NEW heard \in BOOLEAN, Refresh(d, heard)
  PROVE  Invariant'
<1>1. /\ devices[d].holds /\ devices[d].account # 0 /\ ~devices[d].revoked
      /\ Issue(d, devices, heard) /\ UNCHANGED <<clock, codes, asked, accounts, past>>
  BY DEF Refresh
<1>2. AccessGood(devices, issued, accounts, past.accounts, past.shown, past.over)
  BY DEF Invariant
<1>3. devices[d].signIn \notin past.over
  BY <1>1, <1>2 DEF AccessGood, RowGood
<1>4. AccessGood(devices', issued', accounts, past.accounts, past.shown, past.over)
  BY <1>1, <1>2, <1>3, NatFacts, IssueGood
<1> QED BY <1>1, <1>4 DEF Invariant

(* What is over is over: a device leaves, or is revoked.                   *)
LEMMA EndGood ==
  ASSUME Limits, Invariant, NEW d \in Device, devices[d].account # 0, past' = Over({d}),
         UNCHANGED <<clock, codes, asked, accounts, issued>>,
         NEW row \in DeviceType, devices' = [devices EXCEPT ![d] = row],
         row.account = devices[d].account, row.verified = devices[d].verified,
         row.signIn = devices[d].signIn, row.serial >= devices[d].serial,
         row.revoked \/ ~row.holds, row.revoked \/ row.serial > devices[d].serial
  PROVE  Invariant'
<1> DEFINE W == past.over \cup {t.signIn : t \in {t \in issued : t.device \in {d}}}
                  \cup {devices[e].signIn : e \in {d}}
           E == devices'
<1>1. /\ AccessGood(devices, issued, accounts, past.accounts, past.shown, past.over)
      /\ past \in PastType
  BY DEF Invariant
<1>2. devices \in [Device -> DeviceType]
  BY <1>1 DEF AccessGood
<1>3. past' = [past EXCEPT !.over = W]
  BY DEF Over
<1>4. E \in [Device -> DeviceType] /\ E[d] = row /\ \A e \in Device \ {d} : E[e] = devices[e]
  BY <1>2
<1> HIDE DEF E
<1>5. /\ E[d].account = devices[d].account /\ E[d].verified = devices[d].verified
      /\ E[d].signIn = devices[d].signIn /\ E[d].serial >= devices[d].serial
  BY <1>4
<1>6. (E[d].revoked \/ ~E[d].holds) /\ (E[d].revoked \/ E[d].serial > devices[d].serial)
  BY <1>4
<1>7. AccessGood(E, issued, accounts, past.accounts, past.shown, W)
  BY <1>1, <1>4, <1>5, <1>6, AccessEnded
<1>8. W \in SUBSET Nat
  <2>1. Len(past.shown) \in Nat
    BY <1>1 DEF PastType
  <2> QED BY <1>7, <2>1 DEF AccessGood
<1> HIDE DEF W
<1>9. /\ past' \in PastType /\ past'.over = W /\ past'.made = past.made
      /\ past'.used = past.used /\ past'.sent = past.sent /\ past'.shown = past.shown
      /\ past'.accounts = past.accounts
  BY <1>1, <1>3, <1>8 DEF PastType
<1> QED BY <1>7, <1>9 DEF Invariant, E

(* Who is admitted has an account.                                         *)
LEMMA AdmittedHas ==
  ASSUME Invariant, NEW t \in issued, Admits(t)
  PROVE  /\ t.device \in Device /\ t.account \in 1 .. past.accounts /\ t.account # 0
         /\ devices[t.device].account = t.account
<1>1. TokenGood(t, devices, accounts, past.accounts, past.shown, past.over)
  BY DEF Invariant, AccessGood
<1>2. past.accounts \in Nat
  BY DEF Invariant, PastType
<1> QED BY <1>1, <1>2 DEF TokenGood, TokenType, Admits

LEMMA SignOutKeeps == ASSUME Limits, Invariant, NEW t \in issued, SignOut(t) PROVE Invariant'
<1> DEFINE d == t.device
           serial == devices[d].serial + 1
           row == [devices[d] EXCEPT !.refresh = 0, !.holds = FALSE, !.serial = serial]
<1>1. d \in Device /\ devices[d].account # 0
  BY AdmittedHas DEF SignOut
<1>2. devices \in [Device -> DeviceType]
  BY DEF Invariant, AccessGood
<1>3. serial \in Nat /\ serial > devices[d].serial /\ serial >= devices[d].serial
  BY <1>1, <1>2 DEF DeviceType
<1>4. /\ past' = Over({d}) /\ UNCHANGED <<clock, codes, asked, accounts, issued>>
      /\ devices' = [devices EXCEPT ![d] = row]
  BY <1>1, <1>2 DEF SignOut
<1> HIDE DEF serial
<1>5. /\ row \in DeviceType /\ row.account = devices[d].account
      /\ row.verified = devices[d].verified /\ row.signIn = devices[d].signIn
      /\ row.serial = serial
  BY <1>1, <1>2, <1>3 DEF DeviceType
<1>6. ~row.holds
  BY <1>1, <1>2 DEF DeviceType
<1> HIDE DEF row, d
<1> QED BY <1>1, <1>3, <1>4, <1>5, <1>6, EndGood

LEMMA RevokeKeeps ==
  ASSUME Limits, Invariant, NEW t \in issued, NEW d \in Device, Revoke(t, d)
  PROVE  Invariant'
<1> DEFINE row == [devices[d] EXCEPT !.revoked = TRUE, !.refresh = 0]
<1>1. devices[d].account # 0
  BY AdmittedHas DEF Revoke
<1>2. devices \in [Device -> DeviceType]
  BY DEF Invariant, AccessGood
<1>3. /\ past' = Over({d}) /\ UNCHANGED <<clock, codes, asked, accounts, issued>>
      /\ devices' = [devices EXCEPT ![d] = row]
  BY <1>2 DEF Revoke
<1>4. /\ row \in DeviceType /\ row.account = devices[d].account
      /\ row.verified = devices[d].verified /\ row.signIn = devices[d].signIn
      /\ row.serial >= devices[d].serial
  <2>1. devices[d] \in DeviceType
    BY <1>2
  <2>2. devices[d].serial >= devices[d].serial
    BY <2>1 DEF DeviceType
  <2>3. \A r \in DeviceType :
          LET cut == [r EXCEPT !.revoked = TRUE, !.refresh = 0]
          IN  /\ cut \in DeviceType /\ cut.account = r.account /\ cut.revoked
              /\ cut.verified = r.verified /\ cut.signIn = r.signIn
              /\ cut.serial = r.serial
    BY DEF DeviceType
  <2> QED BY <2>1, <2>2, <2>3
<1>5. row.revoked
  BY <1>2 DEF DeviceType
<1> HIDE DEF row
<1> QED BY <1>1, <1>3, <1>4, <1>5, EndGood

LEMMA DeleteKeeps == ASSUME Limits, Invariant, NEW t \in issued, Delete(t) PROVE Invariant'
<1> DEFINE ds == {d \in Device : devices[d].account = t.account}
           gone == {x \in Address : accounts[x] = t.account}
           E == devices'
           B == accounts'
           W == past.over \cup {u.signIn : u \in {u \in issued : u.device \in ds}}
                  \cup {devices[d].signIn : d \in ds}
           rest == {IF s.to \in gone THEN [s EXCEPT !.to = "nobody"] ELSE s : s \in past.sent}
           emptied == [x \in Address |-> IF x \in gone THEN <<>> ELSE asked.to[x]]
<1>0. /\ CodesGood(codes, past.made, past.used) /\ past \in PastType /\ clock \in 1 .. MaxTime
      /\ SentGood(past.sent, past.made, clock) /\ ListsGood(asked, past.sent)
      /\ AccessGood(devices, issued, accounts, past.accounts, past.shown, past.over)
  BY DEF Invariant
<1>1. t.account \in 1 .. past.accounts
  BY AdmittedHas DEF Delete
<1>2. /\ E = [d \in Device |-> IF d \in ds THEN NoDevice ELSE devices[d]]
      /\ codes' = [x \in Address |-> IF x \in gone THEN NoCode ELSE codes[x]]
      /\ asked' = [asked EXCEPT !.to = emptied]
      /\ B = [x \in Address |-> IF accounts[x] = t.account THEN 0 ELSE accounts[x]]
      /\ past' = [Over(ds) EXCEPT !.sent = rest]
      /\ UNCHANGED <<clock, issued>>
  <2>1. Over(ds) = [past EXCEPT !.over = W]
    BY DEF Over
  <2>2. Over(ds).sent = past.sent
    BY <1>0, <2>1 DEF PastType
  <2>3. past' = [Over(ds) EXCEPT
          !.sent = {IF s.to \in gone THEN [s EXCEPT !.to = "nobody"] ELSE s : s \in Over(ds).sent}]
    BY DEF Delete
  <2>4. B = [x \in Address |-> IF x \in gone THEN 0 ELSE accounts[x]]
    BY DEF Delete
  <2> QED BY <2>2, <2>3, <2>4 DEF Delete
<1>3. past' = [past EXCEPT !.over = W, !.sent = rest]
  BY <1>0, <1>2 DEF Over, PastType
<1>4. \A s \in rest : \E u \in past.sent : s = Nameless(u, gone)
  BY DEF Nameless
<1> HIDE DEF rest
<1>5. asked' \in AskedType /\ asked'.source = asked.source /\ asked'.to = emptied
  <2> DEFINE empty == <<>>
  <2>1. asked \in AskedType /\ empty \in Seq(Nat)
    BY <1>0 DEF ListsGood
  <2>2. emptied = [x \in Address |-> IF x \in gone THEN empty ELSE asked.to[x]]
    OBVIOUS
  <2> HIDE DEF empty, gone, emptied
  <2>3. emptied \in [Address -> Seq(Nat)]
    BY <2>1, <2>2 DEF AskedType
  <2> QED BY <1>2, <2>1, <2>3 DEF AskedType
<1>6. Forgets(gone, asked, asked', past.sent, rest)
  BY <1>4, <1>5 DEF Forgets
<1>7. SentGood(rest, past.made, clock) /\ ListsGood(asked', rest)
  BY <1>0, <1>6, ListsForgotten
<1>8. CodesGood(codes', past.made, past.used)
  <2>1. codes' \in [Address -> CodeType]
    BY <1>0, <1>2, NoCodeTyped DEF CodesGood
  <2>2. \A x \in Address : codes'[x] = NoCode \/ (codes'[x].code = codes[x].code /\ codes[x] # NoCode)
    BY <1>2
  <2> QED BY <1>0, <2>1, <2>2, NoCodeTyped, CodesKept
<1>9. AccessGood(E, issued, B, past.accounts, past.shown, W)
  <2>1. Deletes(t.account, devices, issued, accounts, past.over, ds, E, B, W)
    BY <1>2 DEF Deletes
  <2> HIDE DEF E, B, ds, W
  <2> QED BY <1>0, <1>1, <2>1, AccessDeleted
<1>10. W \in SUBSET Nat /\ rest \in SUBSET SentType
  <2>1. Len(past.shown) \in Nat
    BY <1>0 DEF PastType
  <2> QED BY <1>7, <1>9, <2>1 DEF AccessGood, SentGood
<1> HIDE DEF W
<1>11. /\ past' \in PastType /\ past'.over = W /\ past'.made = past.made
       /\ past'.used = past.used /\ past'.sent = rest /\ past'.shown = past.shown
       /\ past'.accounts = past.accounts
  BY <1>0, <1>3, <1>10 DEF PastType
<1> QED BY <1>0, <1>2, <1>7, <1>8, <1>9, <1>11 DEF Invariant, E, B

(* Time passes: of what was asked for less counts.                         *)
LEMMA TickKeeps == ASSUME Limits, Invariant, Tick PROVE Invariant'
<1> DEFINE rest == {s \in past.sent : s.at > clock' - Window}
<1>0. /\ CodesGood(codes, past.made, past.used) /\ past \in PastType
      /\ SentGood(past.sent, past.made, clock) /\ ListsGood(asked, past.sent)
      /\ AccessGood(devices, issued, accounts, past.accounts, past.shown, past.over)
  BY DEF Invariant
<1>1. /\ clock' \in 1 .. MaxTime /\ issued' \subseteq issued
      /\ past' = [past EXCEPT !.sent = rest]
      /\ UNCHANGED <<codes, asked, accounts, devices>>
  BY NatFacts DEF Tick
<1>2. SentGood(rest, past.made, clock')
  BY <1>0 DEF SentGood
<1>3. ListsGood(asked, rest)
  <2>1. \A s \in rest : \E u \in past.sent : s.code = u.code /\ s.at = u.at
    OBVIOUS
  <2>2. Covered(rest, asked.source)
    BY <1>0, <2>1, CoveredCarried DEF ListsGood
  <2>3. ASSUME NEW x \in Address PROVE Covered(To(rest, x), asked.to[x])
    <3>1. \A s \in To(rest, x) : \E u \in To(past.sent, x) : s.code = u.code /\ s.at = u.at
      BY DEF To
    <3> QED BY <1>0, <3>1, CoveredCarried DEF ListsGood
  <2> QED BY <1>0, <2>2, <2>3 DEF ListsGood
<1>4. rest \in SUBSET SentType
  BY <1>2 DEF SentGood
<1> HIDE DEF rest
<1>5. /\ past' \in PastType /\ past'.made = past.made /\ past'.used = past.used
      /\ past'.sent = rest /\ past'.shown = past.shown /\ past'.over = past.over
      /\ past'.accounts = past.accounts
  BY <1>0, <1>1, <1>4 DEF PastType
<1>6. AccessGood(devices, issued', accounts, past.accounts, past.shown, past.over)
  BY <1>0, <1>1, AccessForgotten
<1> QED BY <1>0, <1>1, <1>2, <1>3, <1>5, <1>6 DEF Invariant

LEMMA EveryStep == ASSUME Limits, Invariant, [Next]_vars PROVE Invariant'
<1>1. ASSUME NEW x \in Address, Request(x) \/ Refused(x) PROVE Invariant'
  BY <1>1, RequestKeeps, RefusedKeeps
<1>2. ASSUME NEW x \in Address, NEW d \in Device, SignInRefused(d, x) PROVE Invariant'
  BY <1>2, SignInRefusedKeeps
<1>3. ASSUME NEW x \in Address, NEW d \in Device, NEW heard \in BOOLEAN, SignIn(d, x, heard)
      PROVE  Invariant'
  BY <1>3, SignInKeeps
<1>4. ASSUME NEW d \in Device, NEW heard \in BOOLEAN, Refresh(d, heard) PROVE Invariant'
  BY <1>4, RefreshKeeps
<1>5. ASSUME NEW t \in issued, SignOut(t) \/ Delete(t) PROVE Invariant'
  BY <1>5, SignOutKeeps, DeleteKeeps
<1>6. ASSUME NEW t \in issued, NEW d \in Device, Revoke(t, d) PROVE Invariant'
  BY <1>6, RevokeKeeps
<1>7. CASE Tick
  BY <1>7, TickKeeps
<1>8. CASE UNCHANGED vars
  BY <1>8 DEF vars, Invariant
<1> QED BY <1>1, <1>2, <1>3, <1>4, <1>5, <1>6, <1>7, <1>8 DEF Next

(* The inductive invariant: a token tells the sign-in it is of, sign-ins   *)
(* of a device are its own, a deleted account never comes back, and every  *)
(* code that was sent has a place of its own among the counted requests.   *)
THEOREM SignInInvariant == ASSUME Limits PROVE Spec => []Invariant
<1>1. Init => Invariant
  BY StartGood
<1>2. Invariant /\ [Next]_vars => Invariant'
  BY EveryStep
<1> QED BY <1>1, <1>2, PTL DEF Spec

(* An account is deleted only by a sign-in that proved itself lately, what *)
(* is over stays over, codes open once and stay rationed, and an account's *)
(* devices go with it, wherever answers are lost, codes are replaced and   *)
(* devices are registered anew (routes/auth.ts, account.ts, context.ts).   *)
THEOREM SignInIsProven == ASSUME Limits PROVE Spec => []AccessIsProven
<1>1. Invariant => AccessIsProven
  <2> SUFFICES ASSUME Invariant PROVE AccessIsProven
    OBVIOUS
  <2>0. /\ CodesGood(codes, past.made, past.used) /\ past \in PastType /\ clock \in 1 .. MaxTime
        /\ SentGood(past.sent, past.made, clock) /\ ListsGood(asked, past.sent)
        /\ \A d \in Device : RowGood(devices[d], accounts, past.accounts, past.shown, past.over)
        /\ \A t \in issued : TokenGood(t, devices, accounts, past.accounts, past.shown, past.over)
    BY DEF Invariant, AccessGood
  <2>1. DeletionIsProven
    <3>1. ASSUME NEW t \in issued, Fresh(t) PROVE clock - past.shown[t.signIn] <= Reauth
      <4>1. past.shown[t.signIn] = t.shown
        BY <2>0 DEF TokenGood
      <4> QED BY <3>1, <4>1 DEF Fresh
    <3> QED BY <3>1 DEF DeletionIsProven
  <2>2. OverIsOver
    <3>1. ASSUME NEW t \in issued, t.signIn \in past.over, Admits(t) PROVE FALSE
      <4>1. /\ devices[t.device].account = t.account /\ ~devices[t.device].revoked
            /\ devices[t.device].serial = t.serial /\ t.serial \in Nat
        BY <2>0, <3>1 DEF Admits, TokenGood, TokenType
      <4>2. t.serial < devices[t.device].serial
        BY <2>0, <3>1, <4>1 DEF TokenGood
      <4> QED BY <4>1, <4>2
    <3> QED BY <3>1 DEF OverIsOver
  <2>3. CodesAreRationed
    <3>1. \A x \in Address : codes[x].code \notin past.used
      BY <2>0, NoCodeTyped DEF CodesGood
    <3>2. Cardinality(past.sent) <= MaxPerSource
      <4>1. asked.source \in Seq(Nat) /\ MaxPerSource \in Nat
        BY <2>0 DEF ListsGood, AskedType, Limits
      <4> QED BY <2>0, <4>1, CoveredBound DEF ListsGood, SentGood
    <3>3. ASSUME NEW x \in Address PROVE Cardinality({s \in past.sent : s.to = x}) <= MaxRequests
      <4>1. asked.to[x] \in Seq(Nat) /\ MaxRequests \in Nat
        BY <2>0 DEF ListsGood, AskedType, Limits
      <4>2. /\ Len(asked.to[x]) <= MaxRequests /\ Covered(To(past.sent, x), asked.to[x])
        BY <2>0 DEF ListsGood
      <4>3. /\ To(past.sent, x) \subseteq SentType
            /\ \A s, u \in To(past.sent, x) : s.code = u.code => s = u
        BY <2>0 DEF To, SentGood
      <4>4. Cardinality(To(past.sent, x)) <= MaxRequests
        BY <4>1, <4>2, <4>3, CoveredBound
      <4> QED BY <4>4 DEF To
    <3> QED BY <3>1, <3>2, <3>3 DEF CodesAreRationed
  <2>4. NothingIsLeft
    BY <2>0 DEF RowGood, NothingIsLeft
  <2> QED BY <2>1, <2>2, <2>3, <2>4 DEF AccessIsProven
<1> QED BY <1>1, SignInInvariant, PTL

(* The records keep their shape and the lists their limits.                *)
THEOREM SignInTypeOK == ASSUME Limits PROVE Spec => []TypeOK
<1>1. Invariant => TypeOK
  <2> SUFFICES ASSUME Invariant PROVE TypeOK
    OBVIOUS
  <2>1. /\ CodesGood(codes, past.made, past.used) /\ clock \in 1 .. MaxTime
        /\ ListsGood(asked, past.sent) /\ past.accounts \in Nat
        /\ accounts \in [Address -> 0 .. past.accounts]
        /\ \A d \in Device : RowGood(devices[d], accounts, past.accounts, past.shown, past.over)
        /\ \A t \in issued : TokenGood(t, devices, accounts, past.accounts, past.shown, past.over)
    BY DEF Invariant, AccessGood
  <2>2. \A x \in Address :
          /\ codes[x].code \in 0 .. MaxCodes /\ codes[x].attempts \in 0 .. MaxAttempts
          /\ accounts[x] \in 0 .. past.accounts /\ Len(asked.to[x]) <= MaxRequests
    BY <2>1 DEF CodesGood, CodeType, ListsGood
  <2>3. \A d \in Device : devices[d].account \in 0 .. past.accounts
    BY <2>1 DEF RowGood, DeviceType
  <2>4. \A t \in issued : t.device \in Device
    BY <2>1 DEF TokenGood, TokenType
  <2> QED BY <2>1, <2>2, <2>3, <2>4 DEF TypeOK, ListsGood
<1> QED BY <1>1, SignInInvariant, PTL
=============================================================================
