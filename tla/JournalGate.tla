---------------------------- MODULE JournalGate ----------------------------
(***************************************************************************)
(* From a merged journal to a budget that can be shown (buildView of       *)
(* packages/sync-protocol/src/journal.ts): operations arrive in any order, *)
(* and whatever part of them is here, the state handed to the domain is    *)
(* one it accepts.  An operation is its entity, with the rank of Journal's *)
(* order; an activation has kind "activation" and names a budget.  What    *)
(* withholds nothing and is only reported is left out, but for the sums    *)
(* beyond their bound.                                                     *)
(***************************************************************************)
EXTENDS Calculation

CONSTANTS
  Operation,
  MaxSum      \* MAX_AGGREGATE_MINOR

(* COMBINED_AGGREGATES: so many sums within the bound are added safely.    *)
Combined == 4

VARIABLE arrived

Init == arrived = {}

Arrive(op) == op \notin arrived /\ arrived' = arrived \cup {op}

Next == \E op \in Operation : Arrive(op)

-----------------------------------------------------------------------------
SameEntity(e, f) == e.kind = f.kind /\ e.id = f.id

(* outranks: a deletion is final.                                          *)
Owns(e) == \A f \in arrived : SameEntity(e, f) /\ f # e =>
  (e.gone /\ ~f.gone) \/ (e.gone = f.gone /\ f.rank < e.rank)

Entries == {e \in arrived : e.kind # "activation" /\ Owns(e)}

(* collectLiveEntities *)
Live == {e \in Entries : ~e.gone}

(* resolveSharedIdentifiers: across the kinds the highest rank keeps it.   *)
Claimed(live, e) == \E f \in live : f.id = e.id /\ e.rank < f.rank

(* rejectDuplicateBudgetLines *)
Duplicate(live, e) == e.kind = "line" /\ \E k \in live :
  k.kind = "line" /\ k.budget = e.budget /\ k.category = e.category /\ e.rank < k.rank

ExpenseCategoryProblem(s, id) ==
  IF ~Known(s, "category", id) THEN "unknown_reference"
  ELSE IF The(s, "category", id).side # "expense" THEN "wrong_category_type"
  ELSE "none"

RefundProblem(s, t) ==
  IF ExpenseCategoryProblem(s, t.category) # "none" THEN ExpenseCategoryProblem(s, t.category)
  ELSE IF ~Known(s, "transaction", t.original) THEN "unknown_reference"
  ELSE LET original == The(s, "transaction", t.original)
       IN IF \/ original.sort # "expense" \/ ~original.posted
             \/ original.category # t.category \/ Before(t, original)
          THEN "invalid_refund" ELSE "none"

ContributionProblem(s, t) ==
  IF ~Known(s, "account", t.to) \/ ~Known(s, "goal", t.goal) THEN "unknown_reference"
  ELSE IF The(s, "goal", t.goal).account # t.to THEN "goal_account_mismatch" ELSE "none"

TransactionProblem(s, t) ==
  IF ~Known(s, "account", t.account) THEN "unknown_reference"
  ELSE CASE t.sort = "expense" -> ExpenseCategoryProblem(s, t.category)
    [] t.sort = "refund" -> RefundProblem(s, t)
    [] t.sort = "transfer" -> IF Known(s, "account", t.to) THEN "none" ELSE "unknown_reference"
    [] t.sort = "contribution" -> ContributionProblem(s, t)
    [] OTHER -> "none"

(* Why an entity cannot be shown beside the others.                        *)
Problem(s, e) ==
  CASE e.kind = "goal" -> IF Known(s, "account", e.account) THEN "none" ELSE "unknown_reference"
    [] e.kind = "line" -> IF Known(s, "budget", e.budget)
                          THEN ExpenseCategoryProblem(s, e.category) ELSE "unknown_reference"
    [] e.kind \in {"commitment", "scheduled"} ->
         IF Known(s, "account", e.account)
         THEN ExpenseCategoryProblem(s, e.category) ELSE "unknown_reference"
    [] e.kind = "transaction" -> TransactionProblem(s, e)
    [] OTHER -> "none"

Among(entities) == [active |-> 0, entities |-> entities]

Dangling(entities) == {e \in entities : Problem(Among(entities), e) # "none"}

(* dropDanglingEntities: until nothing changes, which three sweeps see: a  *)
(* refund names an expense, which names what names nothing.  A reason is   *)
(* that of the sweep that found it.                                        *)
Swept(entities) == entities \ Dangling(entities)

Sweeps_Once(first) == LET once == Swept(first) IN <<first, once, once, once>>

Sweeps(first) ==
  LET once == Swept(first)
      twice == Swept(once)
  IN <<first, once, twice, Swept(twice)>>

(* clearUnresolvedLabels: the money stays, the label goes.                 *)
Cleared(s, t) ==
  LET named == IF ValidLabel(s, t) THEN t ELSE [t EXCEPT !.member = 0]
  IN IF /\ t.sort = "income" /\ t.category # 0
        /\ ~(Known(s, "category", t.category) /\ The(s, "category", t.category).side = "income")
     THEN [named EXCEPT !.category = 0] ELSE named

Highest(activations) ==
  {a \in activations : \A b \in activations : b.rank <= a.rank}

(* selectActiveBudget: among those whose budget is here, if there are any. *)
Activations == {a \in arrived : a.kind = "activation" /\ Owns(a)}

Pointer(activations, kept) ==
  LET living == {a \in activations : Known(kept, "budget", a.id)}
  IN Highest(IF living # {} THEN living ELSE activations)

Because(e, reason) == [kind |-> e.kind, id |-> e.id, reason |-> reason]

Reasons(sweeps) == UNION {
  {Because(e, Problem(Among(sweeps[n]), e)) : e \in sweeps[n] \ sweeps[n + 1]} : n \in 1 .. 3}

(* buildView; first is what the sweeps begin with, and the rest of it is   *)
(* what is shown and what is said of the rest.                             *)
View ==
  LET live == Live
      claimed == {e \in live : Claimed(live, e)}
      first == {e \in live \ claimed : ~Duplicate(live \ claimed, e)}
      sweeps == Sweeps(first)
      kept == Among(sweeps[4])
      activations == Activations
      pointer == Pointer(activations, kept)
      nowhere == {a \in activations \ pointer : ~Known(kept, "budget", a.id)}
  IN [live |-> live, first |-> first, kept |-> kept,
      shown |-> [active |-> IF pointer = {} THEN 0 ELSE (CHOOSE a \in pointer : TRUE).id,
                 entities |-> {IF e.kind = "transaction" THEN Cleared(kept, e) ELSE e :
                                 e \in kept.entities}],
      withheld |-> {Because(e, "identifier_claimed_twice") : e \in claimed}
                   \cup {Because(e, "duplicate_budget_line") : e \in (live \ claimed) \ first}
                   \cup Reasons(sweeps)
                   \cup {Because(a, "unknown_active_budget") : a \in nowhere}]

(* integrity.ready: neither no_active_budget nor unknown_active_budget.    *)
Ready(view) == Known(view.shown, "budget", view.shown.active)

(* reportAggregateBounds: the sums of the whole journal, what is only      *)
(* planned and every month with them.                                      *)
Measured(s) ==
  LET Sum(entities) == MapThenSumSet(Amount, entities)
      OfSort(sort) == {t \in Of(s, "transaction") : t.sort = sort}
      Moved(a) == LET Changed(t) == Change(t, a.id)
                  IN a.amount + MapThenSumSet(Changed, Of(s, "transaction"))
  IN {Sum(OfSort(sort)) : sort \in {"income", "expense", "refund", "contribution"}}
     \cup {Moved(a) : a \in Of(s, "account")} \cup {MapThenSumSet(Moved, Of(s, "account"))}
     \cup {MapThenSumSet(Planned, Lines(s, b.id)) : b \in Of(s, "budget")}
     \cup {Sum({e \in Of(s, kind) : e.active}) : kind \in {"goal", "scheduled", "commitment"}}

Beyond(sum, bound) == sum > bound \/ -sum > bound

OutOfRange(s) == \E sum \in Measured(s) : Beyond(sum, MaxSum)

-----------------------------------------------------------------------------
TypeOK == arrived \subseteq Operation

(* "The state handed to the domain never contains a reference the domain   *)
(* would reject" (buildView).                                              *)
ShowsWhatIsAccepted(view) == Ready(view) => Accepted(view.shown)

(* Nothing more could have been shown: whatever was dropped for a          *)
(* reference would still be rejected beside what is left.                  *)
DropsNoMoreThanItMust(view) ==
  \A e \in view.first \ view.kept.entities :
    Problem(Among(view.kept.entities \cup {e}), e) # "none"

(* Nothing disappears silently.                                            *)
SaysWhatIsMissing(view) == \A e \in view.live \ view.kept.entities :
  \E w \in view.withheld : w.kind = e.kind /\ w.id = e.id

(* "The transaction stays, to the kopeck, and only the label goes": no     *)
(* deletion of a participant or of an income's category moves a figure.    *)
KeepsTheMoney(view) ==
  \A b \in Of(view.shown, "budget") :
    /\ FiguresAgree(view.shown, b)
    /\ Capital(view.shown, b) = Capital(view.kept, b)
    /\ Expenses(view.shown, b) = Expenses(view.kept, b)

(* The chosen budget is shown as long as the budget of any choice is here. *)
ShowsAChosenBudget(view) ==
  Ready(view) <=> \E a \in Activations : Known(view.kept, "budget", a.id)

(* "Every sum the domain can then build stays inside it as well": what is  *)
(* not said to be beyond the bound adds up safely, month by month, though  *)
(* neither a month nor an opening balance is measured.  An account's       *)
(* balance is left out where money is moved between accounts: what is      *)
(* moved back later hides it.                                              *)
SumsAreSafe(view) ==
  LET s == view.shown
      moved == UNION {{t.account, t.to} :
                        t \in {t \in Of(s, "transaction") : t.sort \in {"transfer", "contribution"}}}
  IN ~OutOfRange(s) => \A b \in Of(s, "budget") :
       \A sum \in {Capital(s, b), Expenses(s, b), Total(s, b, "income"), Total(s, b, "contribution")}
                   \cup {Balance(s, b, a) : a \in {a \in Of(s, "account") : a.id \notin moved}} :
         ~Beyond(sum, Combined * MaxSum)

(* All of it, of every part of the journal a device may hold.              *)
GateShowsWholeBudgets ==
  LET view == View
  IN /\ ShowsWhatIsAccepted(view) /\ DropsNoMoreThanItMust(view) /\ SaysWhatIsMissing(view)
     /\ KeepsTheMoney(view) /\ ShowsAChosenBudget(view) /\ SumsAreSafe(view)
=============================================================================
