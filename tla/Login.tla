-------------------------------- MODULE Login --------------------------------
(***************************************************************************)
(* Signing in by a code from the mail, and what it opens (routes/auth.ts,  *)
(* context.ts, tokens.ts and account.ts of the server).  A code and an     *)
(* account are numbered as they are made; an access token is what is       *)
(* signed in it.  Everybody writes from one source.  A public key belongs  *)
(* to its device, so an identifier registered by somebody else stands for  *)
(* another key as well.  Which of a device's refresh tokens is the last is *)
(* in Session: here a device has it or has not.                            *)
(***************************************************************************)
EXTENDS Subsequences

CONSTANTS
  Address, Device,
  MaxAttempts, MaxRequests, MaxPerSource,      \* limits.ts
  CodeTtl, Window, Reauth, AccessTtl, RefreshTtl,
  MaxTime, MaxCodes                            \* bounds

VARIABLES
  clock,
  codes,      \* login_code, by address
  asked,      \* throttle: when codes were asked for, by address and from the source
  accounts,   \* account, by address
  devices,    \* device
  issued,     \* access tokens that are on devices or on their way
  past        \* codes made and used, when a code was shown, sign-ins that are over

vars == <<clock, codes, asked, accounts, devices, issued, past>>

NoCode == [code |-> 0, expires |-> 0, attempts |-> 0]

NoDevice == [account |-> 0, revoked |-> FALSE, serial |-> 0, verified |-> 0,
             refresh |-> 0, holds |-> FALSE, signIn |-> 0]

Init ==
  /\ clock = 1
  /\ codes = [a \in Address |-> NoCode]
  /\ asked = [to |-> [a \in Address |-> <<>>], source |-> <<>>]
  /\ accounts = [a \in Address |-> 0]
  /\ devices = [d \in Device |-> NoDevice]
  /\ issued = {}
  /\ past = [made |-> 0, accounts |-> 0, used |-> {}, sent |-> {}, shown |-> <<>>, over |-> {}]

-----------------------------------------------------------------------------
(* throttleSweep, throttleCount *)
Recent(times) == Picked(times, {i \in DOMAIN times : times[i] > clock - Window})

(* sweepLoginCodes *)
Swept == [a \in Address |-> IF codes[a].expires <= clock THEN NoCode ELSE codes[a]]

(* POST /auth/code: the newer code takes the place of the older.  A        *)
(* request that is refused has swept.                                      *)
Request(a) ==
  LET to == [b \in Address |-> Recent(asked.to[b])]
      source == Recent(asked.source)
      granted == Len(to[a]) < MaxRequests /\ Len(source) < MaxPerSource
      code == past.made + 1
  IN /\ granted => past.made < MaxCodes
     /\ asked' = IF granted THEN [to |-> [to EXCEPT ![a] = Append(@, clock)],
                                  source |-> Append(source, clock)]
                 ELSE [to |-> to, source |-> source]
     /\ codes' = IF granted
                 THEN [Swept EXCEPT ![a] = [code |-> code, expires |-> clock + CodeTtl, attempts |-> 0]]
                 ELSE Swept
     /\ past' = IF granted
                THEN [past EXCEPT !.made = code, !.sent = @ \cup {[code |-> code, to |-> a, at |-> clock]}]
                ELSE past
     /\ UNCHANGED <<clock, accounts, devices, issued>>

Dead(a) == codes[a].expires <= clock \/ codes[a].attempts >= MaxAttempts

(* POST /auth/verify of a code that is dead, or not the one.               *)
Refused(a) ==
  /\ codes[a] # NoCode
  /\ codes' = IF Dead(a) THEN [codes EXCEPT ![a] = NoCode]
              ELSE [codes EXCEPT ![a].attempts = @ + 1]
  /\ UNCHANGED <<clock, asked, accounts, devices, issued, past>>

(* issueTokenPair: a sign-in is as old as the row says.                    *)
Access(d, rows) ==
  [device |-> d, account |-> rows[d].account, serial |-> rows[d].serial,
   shown |-> rows[d].verified, expires |-> clock + AccessTtl, signIn |-> rows[d].signIn]

(* What the device gets of it, if the answer arrives.                      *)
Issue(d, rows, heard) ==
  /\ devices' = [rows EXCEPT ![d].refresh = clock + RefreshTtl, ![d].holds = heard]
  /\ issued' = IF heard THEN issued \cup {Access(d, rows)} ELSE issued

(* POST /auth/verify of the code that was mailed: it is spent and the      *)
(* account made before the device is looked at.                            *)
Spend(a) ==
  /\ codes' = [codes EXCEPT ![a] = NoCode]
  /\ asked' = [asked EXCEPT !.to[a] = <<>>]
  /\ accounts' = [accounts EXCEPT ![a] = IF @ = 0 THEN past.accounts + 1 ELSE @]

Spent(a) == [past EXCEPT !.used = @ \cup {codes[a].code},
                         !.accounts = IF accounts[a] = 0 THEN @ + 1 ELSE @,
                         !.sent = {s \in @ : s.to # a} \cup {[s EXCEPT !.to = "nobody"] : s \in {s \in @ : s.to = a}}]

SignIn(d, a, heard) ==
  LET account == accounts'[a]
      signIn == Len(past.shown) + 1
  IN /\ codes[a] # NoCode /\ ~Dead(a)
     /\ Spend(a)
     /\ ~devices[d].revoked /\ devices[d].account \in {0, account}
     /\ past' = [Spent(a) EXCEPT !.shown = Append(@, clock)]
     /\ Issue(d, [devices EXCEPT ![d].account = account, ![d].verified = clock,
                                 ![d].signIn = signIn], heard)
     /\ UNCHANGED clock

SignInRefused(d, a) ==
  /\ codes[a] # NoCode /\ ~Dead(a)
  /\ Spend(a)
  /\ devices[d].revoked \/ devices[d].account \notin {0, accounts'[a]}
  /\ past' = Spent(a)
  /\ UNCHANGED <<clock, devices, issued>>

(* POST /auth/refresh *)
Refresh(d, heard) ==
  /\ devices[d].holds /\ devices[d].account # 0 /\ ~devices[d].revoked
  /\ devices[d].refresh > clock
  /\ Issue(d, devices, heard)
  /\ UNCHANGED <<clock, codes, asked, accounts, past>>

-----------------------------------------------------------------------------
(* authenticate *)
Admits(t) ==
  /\ t.expires > clock
  /\ devices[t.device].account = t.account /\ ~devices[t.device].revoked
  /\ devices[t.device].serial = t.serial

(* requireFreshAuth: of the sign-in that is current, and lately.           *)
Fresh_Row(t) == clock - devices[t.device].verified <= Reauth

Fresh(t) == t.shown = devices[t.device].verified /\ clock - devices[t.device].verified <= Reauth

(* The sign-ins of some devices are over.                                  *)
Over(ds) == [past EXCEPT !.over = @ \cup {t.signIn : t \in {t \in issued : t.device \in ds}}
                                     \cup {devices[d].signIn : d \in ds}]

(* POST /auth/logout *)
SignOut(t) ==
  /\ Admits(t)
  /\ devices' = [devices EXCEPT ![t.device].refresh = 0, ![t.device].holds = FALSE,
                                ![t.device].serial = @ + 1]
  /\ past' = Over({t.device})
  /\ UNCHANGED <<clock, codes, asked, accounts, issued>>

(* POST /devices/:id/revoke, within one account.                           *)
Revoke(t, d) ==
  /\ Admits(t) /\ devices[d].account = t.account /\ ~devices[d].revoked
  /\ devices' = [devices EXCEPT ![d].revoked = TRUE, ![d].refresh = 0]
  /\ past' = Over({d})
  /\ UNCHANGED <<clock, codes, asked, accounts, issued>>

(* DELETE /accounts/:id: the account, its devices, and the address where   *)
(* it is written outside them; what the source asked for stays counted.    *)
Delete(t) ==
  LET ds == {d \in Device : devices[d].account = t.account}
      of == {a \in Address : accounts[a] = t.account}
  IN /\ Admits(t) /\ Fresh(t)
     /\ devices' = [d \in Device |-> IF d \in ds THEN NoDevice ELSE devices[d]]
     /\ codes' = [a \in Address |-> IF a \in of THEN NoCode ELSE codes[a]]
     /\ asked' = [asked EXCEPT !.to = [a \in Address |-> IF a \in of THEN <<>> ELSE @[a]]]
     /\ accounts' = [a \in Address |-> IF a \in of THEN 0 ELSE accounts[a]]
     /\ past' = [Over(ds) EXCEPT
          !.sent = {IF s.to \in of THEN [s EXCEPT !.to = "nobody"] ELSE s : s \in @}]
     /\ UNCHANGED <<clock, issued>>

(* What has expired is of no use to anybody and is forgotten here.         *)
Tick ==
  /\ clock < MaxTime
  /\ clock' = clock + 1
  /\ issued' = {t \in issued : t.expires > clock'}
  /\ past' = [past EXCEPT !.sent = {s \in @ : s.at > clock' - Window}]
  /\ UNCHANGED <<codes, asked, accounts, devices>>

Next ==
  \/ \E a \in Address :
       \/ Request(a) \/ Refused(a)
       \/ \E d \in Device :
            SignInRefused(d, a) \/ \E heard \in BOOLEAN : SignIn(d, a, heard)
  \/ \E d \in Device, heard \in BOOLEAN : Refresh(d, heard)
  \/ \E t \in issued : SignOut(t) \/ Delete(t) \/ \E d \in Device : Revoke(t, d)
  \/ Tick

Spec == Init /\ [][Next]_vars

-----------------------------------------------------------------------------
TypeOK ==
  /\ clock \in 1 .. MaxTime
  /\ \A a \in Address :
       /\ codes[a].code \in 0 .. MaxCodes /\ codes[a].attempts \in 0 .. MaxAttempts
       /\ accounts[a] \in 0 .. past.accounts /\ Len(asked.to[a]) <= MaxRequests
  /\ Len(asked.source) <= MaxPerSource
  /\ \A d \in Device : devices[d].account \in 0 .. past.accounts
  /\ \A t \in issued : t.device \in Device

(* An account is deleted only where a code from the mail was shown within  *)
(* the window, by the very sign-in that asks: neither a refresh nor a      *)
(* later sign-in makes an older one fresh (context.ts 137 to 159).         *)
DeletionIsProven ==
  \A t \in issued : Admits(t) /\ Fresh(t) => clock - past.shown[t.signIn] <= Reauth

(* Of a sign-in that was ended, by leaving, by revocation or with its      *)
(* account, no token is admitted, whatever was registered since.           *)
OverIsOver == \A t \in issued : t.signIn \in past.over => ~Admits(t)

(* A code opens once, and what one source asks for stays rationed, however *)
(* many addresses it names and whoever signs in or is deleted meanwhile.   *)
CodesAreRationed ==
  /\ \A a \in Address : codes[a].code \notin past.used
  /\ Cardinality(past.sent) <= MaxPerSource
  /\ \A a \in Address : Cardinality({s \in past.sent : s.to = a}) <= MaxRequests

(* Nothing is left of an account that was deleted.                         *)
NothingIsLeft ==
  \A d \in Device : devices[d].account # 0 => \E a \in Address : accounts[a] = devices[d].account

(* The four together (routes/auth.ts, account.ts, context.ts, tokens.ts).  *)
AccessIsProven == DeletionIsProven /\ OverIsOver /\ CodesAreRationed /\ NothingIsLeft
=============================================================================
