----------------------------- MODULE Onboarding -----------------------------
(***************************************************************************)
(* The budget a new household begins with                                  *)
(* (apps/web-pwa/src/onboarding/model.ts, domain/categories.ts).  Names are*)
(* compared by their normal form and stand for it; hidden characters, the  *)
(* steps of the form and the plan's labels are left out.                   *)
(***************************************************************************)
EXTENDS Calculation, Sequences

CONSTANT Catalogue                  \* DEFAULT_CATEGORIES, a sequence of names and sides

(* validateCompleteOnboarding: from three to five everyday categories,     *)
(* told apart from each other and from the payment.                        *)
MayFound(a) ==
  /\ a.everyday # <<>> /\ Len(a.everyday) \in 3 .. 5
  /\ a.income > 0 /\ a.payment.amount > 0
  /\ \A i \in DOMAIN a.everyday :
       /\ a.everyday[i].amount > 0
       /\ a.everyday[i].name # a.payment.name
       /\ \A j \in DOMAIN a.everyday : a.everyday[i].name = a.everyday[j].name => i = j

New(kind, id) == [Blank EXCEPT !.kind = kind, !.id = id]

(* makeDefaultCategories *)
Starting(ids) ==
  {[New("category", ids[k]) EXCEPT !.name = Catalogue[k].name, !.side = Catalogue[k].side] :
     k \in DOMAIN Catalogue}

(* buildOnboardingBudgetState: a name that the catalogue has is the        *)
(* catalogue's category, another one makes a category of its own.          *)
Founded(a, month, ids) ==
  LET asked == <<a.payment>> \o a.everyday
      first == Len(Catalogue)
      last == first + 2 * Len(asked)
      Namesake(k) == {c \in Starting(ids) : c.side = "expense" /\ c.name = asked[k].name}
      Category(k) == IF Namesake(k) # {} THEN CHOOSE c \in Namesake(k) : TRUE
                     ELSE [New("category", ids[first + k]) EXCEPT !.name = asked[k].name]
      account == New("account", ids[last + 1])
      budget == [New("budget", ids[last + 2]) EXCEPT !.month = month, !.amount = a.income]
      Line(k) == [New("line", ids[first + Len(asked) + k]) EXCEPT !.budget = budget.id,
                    !.category = Category(k).id, !.amount = asked[k].amount]
      payment == [New("scheduled", ids[last + 3]) EXCEPT !.account = account.id,
                    !.category = Category(1).id, !.amount = a.payment.amount]
  IN [active |-> budget.id,
      entities |-> Starting(ids) \cup {Category(k) : k \in DOMAIN asked}
                   \cup {Line(k) : k \in 2 .. Len(asked)} \cup {account, budget, payment}]
=============================================================================
