----------------------------- MODULE Calculation -----------------------------
(***************************************************************************)
(* What the domain accepts and computes (packages/domain/src/calculate.ts):*)
(* a state is the identifier of the active budget and a set of entities,   *)
(* all of one record type; fields an entity lacks are Blank's.  Money is   *)
(* an integer number of minor units; a date is a day in a month of the     *)
(* calendar's count.  Formats, names and the ceilings of numbers are left  *)
(* out.                                                                    *)
(***************************************************************************)
EXTENDS Integers, FiniteSets, FiniteSetsExt

Blank == [kind |-> "none", id |-> 0, name |-> 0, rank |-> 0, gone |-> FALSE, active |-> TRUE,
          account |-> 0, to |-> 0, category |-> 0, side |-> "expense", budget |-> 0,
          goal |-> 0, original |-> 0, member |-> 0, sort |-> "none", posted |-> TRUE,
          month |-> 0, day |-> 1, amount |-> 0, carried |-> 0, adjusted |-> 0,
          reserved |-> 0, yearly |-> FALSE, months |-> {}]

Of(s, kind) == {e \in s.entities : e.kind = kind}

Known(s, kind, id) == \E e \in Of(s, kind) : e.id = id

The(s, kind, id) == CHOOSE e \in Of(s, kind) : e.id = id

Lines(s, budget) == {l \in Of(s, "line") : l.budget = budget}

Before(e, f) == e.month < f.month \/ (e.month = f.month /\ e.day < f.day)

-----------------------------------------------------------------------------
(* What is accepted.                                                       *)

ExpenseCategory(s, id) == Known(s, "category", id) /\ The(s, "category", id).side = "expense"

(* validateGoal *)
ValidGoal(s, g) == Known(s, "account", g.account)

Planned(l) == l.amount + l.carried + l.adjusted

(* validateBudget: one line for each category, and nothing less than none. *)
ValidBudget(s, b) ==
  /\ \A l \in Lines(s, b.id) : ExpenseCategory(s, l.category) /\ Planned(l) >= 0
  /\ \A l, k \in Lines(s, b.id) : l.category = k.category => l = k

ValidRefund(s, t) ==
  /\ ExpenseCategory(s, t.category)
  /\ Known(s, "transaction", t.original)
  /\ LET original == The(s, "transaction", t.original)
     IN /\ original.posted /\ original.sort = "expense"
        /\ original.category = t.category
        /\ ~Before(t, original)

ValidMove(s, t) == Known(s, "account", t.to) /\ t.to # t.account

(* validateTransactionReferences *)
ValidTransaction(s, t) ==
  /\ Known(s, "account", t.account)
  /\ (t.sort = "income" /\ t.category # 0) =>
       Known(s, "category", t.category) /\ The(s, "category", t.category).side = "income"
  /\ t.sort = "expense" => ExpenseCategory(s, t.category)
  /\ t.sort = "refund" => ValidRefund(s, t)
  /\ t.sort = "transfer" => ValidMove(s, t)
  /\ t.sort = "contribution" =>
       /\ ValidMove(s, t)
       /\ Known(s, "goal", t.goal) /\ The(s, "goal", t.goal).account = t.to

(* calculateMemberExpenses: the label is a reference like any other.       *)
ValidLabel(s, t) == t.member = 0 \/ Known(s, "member", t.member)

(* validateAnnualCommitment, validateScheduledExpense *)
ValidPlanned(s, i) == Known(s, "account", i.account) /\ ExpenseCategory(s, i.category)

UniqueIds(s) == Cardinality({<<e.kind, e.id>> : e \in s.entities}) = Cardinality(s.entities)

(* calculateBudget does not throw.                                         *)
Calculates(s, budget) ==
  /\ UniqueIds(s)
  /\ Known(s, "budget", budget) /\ ValidBudget(s, The(s, "budget", budget))
  /\ \A g \in Of(s, "goal") : ValidGoal(s, g)
  /\ \A t \in Of(s, "transaction") : ValidTransaction(s, t)

(* calculateAnnualPlan does not.                                           *)
Plans(s) ==
  /\ Calculates(s, s.active)
  /\ \A i \in Of(s, "commitment") \cup Of(s, "scheduled") : ValidPlanned(s, i)

(* Nothing the domain computes of this state throws.                       *)
Accepted(s) ==
  /\ Plans(s)
  /\ \A b \in Of(s, "budget") : ValidBudget(s, b)
  /\ \A t \in Of(s, "transaction") : ValidLabel(s, t)

-----------------------------------------------------------------------------
(* calculateBudget *)

Amount(e) == e.amount

Counted(s, b) == {t \in Of(s, "transaction") : t.posted /\ t.month = b.month}

Total(s, b, sort) == MapThenSumSet(Amount, {t \in Counted(s, b) : t.sort = sort})

Expenses(s, b) == Total(s, b, "expense") - Total(s, b, "refund")

(* changeAccount: what one transaction adds to an account.                 *)
Change(t, account) ==
  CASE t.sort \in {"income", "refund"} -> IF t.account = account THEN t.amount ELSE 0
    [] t.sort = "expense" -> IF t.account = account THEN -t.amount ELSE 0
    [] OTHER -> IF t.to = account THEN t.amount ELSE IF t.account = account THEN -t.amount ELSE 0

(* The goal keeps what it was given, and nothing reaches its account.      *)
Change_OneSided(t, account) ==
  CASE t.sort \in {"income", "refund"} -> IF t.account = account THEN t.amount ELSE 0
    [] t.sort = "expense" -> IF t.account = account THEN -t.amount ELSE 0
    [] OTHER -> IF t.account = account THEN -t.amount ELSE 0

Balance(s, b, a) ==
  LET Changed(t) == Change(t, a.id)
  IN a.amount + MapThenSumSet(Changed, Counted(s, b))

Capital(s, b) ==
  LET Held(a) == Balance(s, b, a)
  IN MapThenSumSet(Held, Of(s, "account"))

(* What a category may spend: an archived one, or an archived line, nothing.*)
Available(s, b, c) ==
  LET lines == {l \in Lines(s, b.id) : l.category = c.id /\ l.active /\ c.active}
  IN MapThenSumSet(Planned, lines)

Actual(s, b, c) ==
  LET Spent(sort) == MapThenSumSet(Amount,
        {t \in Counted(s, b) : t.sort = sort /\ t.category = c.id})
  IN Spent("expense") - Spent("refund")

Remaining(s, b, c) == Available(s, b, c) - Actual(s, b, c)

(* calculateMemberExpenses; 0 is whoever is not named.                    *)
MemberActual(s, b, member) ==
  LET Spent(sort) == MapThenSumSet(Amount,
        {t \in Counted(s, b) : t.sort = sort /\ t.member = member})
  IN Spent("expense") - Spent("refund")

(* The figures of one budget tell one story: money enters by income and    *)
(* leaves by expenses only, whatever is moved between accounts and goals;  *)
(* the categories together, and the participants together with what names  *)
(* nobody, are the expenses ("so attributedMinor plus                      *)
(* unattributed.actualMinor is exactly BudgetMetrics.expensesMinor").      *)
FiguresAgree(s, b) ==
  LET OfCategory(c) == Actual(s, b, c)
      OfMember(m) == MemberActual(s, b, m.id)
  IN /\ Capital(s, b) = MapThenSumSet(Amount, Of(s, "account"))
          + Total(s, b, "income") - Expenses(s, b)
     /\ MapThenSumSet(OfCategory, {c \in Of(s, "category") : c.side = "expense"})
          = Expenses(s, b)
     /\ MapThenSumSet(OfMember, Of(s, "member")) + MemberActual(s, b, 0) = Expenses(s, b)

-----------------------------------------------------------------------------
(* calculateAnnualPlan *)

(* Rounded up to whole roubles.                                            *)
ReservePerMonth(amount, months) == ((amount + months * 100 - 1) \div (months * 100)) * 100

(* effectiveCommitmentDueIndex *)
Due(i, start) ==
  IF ~i.yearly \/ i.month >= start THEN i.month
  ELSE i.month + ((start - i.month + 11) \div 12) * 12

ToReserve(i) == IF i.amount > i.reserved THEN i.amount - i.reserved ELSE 0

(* The month of the payment itself is not counted.                         *)
MonthsUntilDue_Exclusive(i, start) == Due(i, start) - start

MonthsUntilDue(i, start) == Due(i, start) - start + 1

MonthlyReserve(i, start) ==
  IF i.active /\ MonthsUntilDue(i, start) > 0 /\ ToReserve(i) > 0
  THEN ReservePerMonth(ToReserve(i), MonthsUntilDue(i, start)) ELSE 0

Status(i, start) ==
  IF ToReserve(i) = 0 THEN "funded"
  ELSE IF MonthsUntilDue(i, start) <= 0 THEN "overdue"
  ELSE IF MonthsUntilDue(i, start) <= 2 THEN "due_soon" ELSE "on_track"

(* What the plan of one month puts aside for a commitment, and what of it  *)
(* falls due.                                                              *)
Reserve(i, start, month) ==
  IF ~i.active THEN 0
  ELSE IF month <= Due(i, start) THEN MonthlyReserve(i, start)
  ELSE IF i.yearly THEN ReservePerMonth(i.amount, 12) ELSE 0

FallsDue(i, month) ==
  /\ i.active
  /\ month = i.month \/ (i.yearly /\ month > i.month /\ (month - i.month) % 12 = 0)

(* Calendar months are counted from 1, and the count of months from 0.     *)
Scheduled(i, month) == i.active /\ (i.months = {} \/ (month % 12) + 1 \in i.months)

(* What is left of the planned income after everything the month is for.   *)
Spendable(s, b, start, month) ==
  LET OfCategory(c) == Available(s, b, c)
      OfCommitment(i) == Reserve(i, start, month)
  IN b.amount
       - MapThenSumSet(OfCategory, {c \in Of(s, "category") : c.side = "expense"})
       - MapThenSumSet(OfCommitment, Of(s, "commitment"))
       - MapThenSumSet(Amount, {i \in Of(s, "scheduled") : Scheduled(i, month)})
       - MapThenSumSet(Amount, {g \in Of(s, "goal") : g.active})

(* "While their reserve is subtracted monthly": by each payment that falls *)
(* due in the plan as much was put aside as it takes, and less than a      *)
(* month's rounding more; after it the next one is saved for.              *)
ReservesSuffice(i, start, count) ==
  \A month \in start .. start + count - 1 : FallsDue(i, month) =>
    LET OfMonth(m) == Reserve(i, start, m)
        first == Due(i, start)
        saved == MapThenSumSet(OfMonth, start .. month)
        payments == i.amount * (1 + (month - first) \div 12)
    IN /\ saved + i.reserved >= payments
       /\ i.reserved <= i.amount =>
            saved + i.reserved < payments + 100 * (month - start + 1)
=============================================================================
