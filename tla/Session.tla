------------------------------ MODULE Session ------------------------------
(***************************************************************************)
(* The session of one device: tabs that share its record on the disk, and  *)
(* the server's row (controller.ts, session.ts, api.ts of features/family; *)
(* tokens.ts, context.ts and routes/auth.ts of the server).  Pairs of      *)
(* tokens are numbered as they are issued: the access half of a pair lives *)
(* a quarter of an hour, the refresh half until it is used, and the server *)
(* knows the last one.  0 is no session.                                   *)
(***************************************************************************)
EXTENDS Integers, FiniteSets

CONSTANTS
  Tab,        \* tabs of the device
  MaxPairs    \* bound: pairs issued

VARIABLES
  server,     \* the last pair, those expired, whether the session was ended
  disk,       \* the stored session
  tab,        \* what a tab shows and holds, its refresh and its calls
  past        \* a sign-out was made; what was lost, or written back late

vars == <<server, disk, tab, past>>

Pair == 1 .. MaxPairs

(* A request of the poll, and one a person's action makes.                 *)
Call == {"poll", "action"}

NoCall == [at |-> "idle", does |-> "round", session |-> 0]

NoRefresh == [at |-> "none", pair |-> 0]

(* shown: session of the last render; next: what the next render will show.*)
NewTab(pair) ==
  [shown |-> pair, next |-> pair, ref |-> pair, refresh |-> NoRefresh,
   call |-> [c \in Call |-> NoCall]]

Init ==
  /\ server = [last |-> 1, expired |-> 0, ended |-> FALSE]
  /\ disk = 1
  /\ tab = [t \in Tab |-> NewTab(1)]
  /\ past = [left |-> FALSE, lost |-> FALSE, replaced |-> FALSE]

-----------------------------------------------------------------------------
(* The server.                                                             *)

(* authenticate: not expired, and of the serial in force.                  *)
Admits(pair) == pair > server.expired /\ ~server.ended

(* resolveRefreshToken *)
Resolves(pair) == pair = server.last /\ ~server.ended

Expire ==
  /\ server.expired < server.last
  /\ \E pair \in server.expired + 1 .. server.last : server' = [server EXCEPT !.expired = pair]
  /\ UNCHANGED <<disk, tab, past>>

(* The owner revokes the device.                                           *)
Revoke ==
  /\ ~server.ended
  /\ server' = [server EXCEPT !.ended = TRUE]
  /\ UNCHANGED <<disk, tab, past>>

-----------------------------------------------------------------------------
(* A tab.                                                                  *)

(* Started, or started again: what was in flight is lost with it.          *)
Open(t) ==
  /\ tab[t].refresh.at \in {"none", "asked"}
  /\ tab' = [tab EXCEPT ![t] = NewTab(disk)]
  /\ UNCHANGED <<server, disk, past>>

(* sessionRef.current = session, whatever the render is for.               *)
Render(t) ==
  /\ tab[t].next \notin {tab[t].ref} \cap {tab[t].shown}
  /\ tab' = [tab EXCEPT ![t].shown = tab[t].next, ![t].ref = tab[t].next]
  /\ UNCHANGED <<server, disk, past>>

(* An action keeps the session it was pressed with.                        *)
Press(t, does) ==
  /\ tab[t].call["action"].at = "idle" /\ tab[t].shown # 0
  /\ tab' = [tab EXCEPT ![t].call["action"] =
       [at |-> "ask", does |-> does, session |-> tab[t].shown]]
  /\ UNCHANGED <<server, disk, past>>

Poll(t) ==
  /\ tab[t].call["poll"].at = "idle" /\ tab[t].ref # 0
  /\ tab' = [tab EXCEPT ![t].call["poll"] = [NoCall EXCEPT !.at = "ask"]]
  /\ UNCHANGED <<server, disk, past>>

(* What comes after a request: of a round or a refused one nothing, of a   *)
(* sign-out the clearing of the disk either way.                           *)
After(call, accepted) ==
  IF call.does = "leave" THEN [call EXCEPT !.at = "forget"]
  ELSE IF call.does = "join" /\ accepted THEN [call EXCEPT !.at = "write"] ELSE NoCall

(* request, once: it is repeated after a refresh, one for all that wait.   *)
Ask(t, c) ==
  LET call == tab[t].call[c]
      accepted == tab[t].ref # 0 /\ Admits(tab[t].ref)
      refreshes == ~accepted /\ call.at = "ask" /\ tab[t].ref # 0
  IN /\ call.at \in {"ask", "again"}
     /\ tab' = [tab EXCEPT
          ![t].call[c] = IF refreshes THEN [call EXCEPT !.at = "wait"] ELSE After(call, accepted),
          ![t].refresh = IF refreshes /\ @.at = "none" THEN [at |-> "asked", pair |-> tab[t].ref]
                         ELSE @]
     /\ server' = [server EXCEPT !.ended = @ \/ (accepted /\ call.does = "leave")]
     /\ UNCHANGED <<disk, past>>

(* The attempt is over: those that waited ask again or fail.               *)
Woken(one, refreshed) ==
  [one EXCEPT !.refresh = NoRefresh, !.call = [c \in Call |->
     IF @[c].at # "wait" THEN @[c]
     ELSE IF refreshed THEN [@[c] EXCEPT !.at = "again"] ELSE After(@[c], FALSE)]]

Failed(t) == tab' = [tab EXCEPT ![t] = Woken(@, FALSE)]

(* /v1/auth/refresh turns the token on every use.                          *)
Turned == [server EXCEPT !.last = @ + 1]

Refreshed(t) ==
  /\ tab[t].refresh.at = "asked" /\ Resolves(tab[t].refresh.pair) /\ server.last < MaxPairs
  /\ server' = Turned
  /\ tab' = [tab EXCEPT ![t].refresh = [at |-> "answered", pair |-> Turned.last],
                        ![t].ref = Turned.last]
  /\ UNCHANGED <<disk, past>>

RefreshRefused(t) ==
  /\ tab[t].refresh.at = "asked" /\ ~Resolves(tab[t].refresh.pair)
  /\ Failed(t) /\ UNCHANGED <<server, disk, past>>

RefreshUnanswered(t) ==
  /\ tab[t].refresh.at = "asked" /\ Failed(t)
  /\ \/ UNCHANGED <<server, past>>
     \/ /\ Resolves(tab[t].refresh.pair) /\ server.last < MaxPairs
        /\ server' = Turned /\ past' = [past EXCEPT !.lost = TRUE]
  /\ UNCHANGED disk

(* persistSession, then setSession.                                        *)
Store_Memory(t) ==
  /\ tab[t].refresh.at = "answered"
  /\ tab' = [tab EXCEPT ![t] = [Woken(@, TRUE) EXCEPT !.next = tab[t].refresh.pair]]
  /\ UNCHANGED <<server, disk, past>>

Store(t) ==
  /\ tab[t].refresh.at = "answered"
  /\ disk' = tab[t].refresh.pair
  /\ tab' = [tab EXCEPT ![t] = [Woken(@, TRUE) EXCEPT !.next = tab[t].refresh.pair]]
  /\ UNCHANGED <<server, past>>

StoreFails(t) ==
  /\ tab[t].refresh.at = "answered"
  /\ Failed(t) /\ past' = [past EXCEPT !.lost = TRUE]
  /\ UNCHANGED <<server, disk>>

(* createFamily, joinByCode: the session of the press and the family.      *)
WriteBack(t) ==
  LET call == tab[t].call["action"]
  IN /\ call.at = "write"
     /\ disk' = call.session
     /\ tab' = [tab EXCEPT ![t].next = call.session, ![t].call["action"] = NoCall]
     /\ past' = [past EXCEPT !.replaced = @ \/ call.session # disk]
     /\ UNCHANGED server

(* forgetSession, setSession(null) *)
Forget(t) ==
  /\ tab[t].call["action"].at = "forget"
  /\ disk' = 0
  /\ tab' = [tab EXCEPT ![t].next = 0, ![t].call["action"] = NoCall]
  /\ past' = [past EXCEPT !.left = TRUE]
  /\ UNCHANGED server

Next ==
  \/ Expire \/ Revoke
  \/ \E t \in Tab :
       \/ Open(t) \/ Render(t) \/ Poll(t)
       \/ \E does \in {"round", "join", "leave"} : Press(t, does)
       \/ \E c \in Call : Ask(t, c)
       \/ Refreshed(t) \/ RefreshRefused(t) \/ RefreshUnanswered(t)
       \/ Store(t) \/ StoreFails(t) \/ WriteBack(t) \/ Forget(t)

Spec == Init /\ [][Next]_vars

-----------------------------------------------------------------------------
TypeOK ==
  /\ server \in [last : Pair, expired : 0 .. MaxPairs, ended : BOOLEAN]
  /\ disk \in 0 .. MaxPairs
  /\ tab \in [Tab -> [shown : 0 .. MaxPairs, next : 0 .. MaxPairs, ref : 0 .. MaxPairs,
                      refresh : [at : {"none", "asked", "answered"}, pair : 0 .. MaxPairs],
                      call : [Call -> [at : {"idle", "ask", "wait", "again", "write", "forget"},
                                       does : {"round", "join", "leave"}, session : 0 .. MaxPairs]]]]
  /\ past \in [left : BOOLEAN, lost : BOOLEAN, replaced : BOOLEAN]

(* The device has the token the server knows, or is about to store it: who *)
(* opens the application goes on without signing in.                       *)
Holds == disk = server.last \/ \E t \in Tab : tab[t].refresh = [at |-> "answered", pair |-> server.last]

(* Tabs may refresh side by side, be closed, render and be refused: the    *)
(* device is signed in until somebody ends that, unless an answer or a     *)
(* write is lost, or an action writes back the session it was pressed      *)
(* with; and no tab has a token newer than the device's while it goes on.  *)
SessionGoesOn ==
  \/ server.ended \/ past.left \/ past.lost \/ past.replaced
  \/ /\ Holds
     /\ \A t \in Tab : tab[t].shown <= disk /\ tab[t].next <= disk

(* "Signed out for no reason at all" does not happen while every answer    *)
(* arrives and is stored (controller.ts 873 to 880).                       *)
SignedOutForAReason == server.ended \/ past.left \/ past.lost \/ Holds
=============================================================================
