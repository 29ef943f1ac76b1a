------------------------------ MODULE Dashboard ------------------------------
(***************************************************************************)
(* What the screens say of the budget: the year (features/dashboard/       *)
(* model.ts), today's money and how far it reaches (reach.ts, App.tsx).    *)
(* Fractions are compared as fractions; a date is a month of the count and *)
(* a day.  Search, wording and drawing are left out.                       *)
(***************************************************************************)
EXTENDS Calculation, SequencesExt

Plan(s) == The(s, "budget", s.active)

(* The categories with a limit in force: the year goes by the lines,       *)
(* today by the categories.                                                *)
Enveloped(s) == {l.category : l \in {l \in Lines(s, s.active) : l.active}}

FlexibleRows(s) ==
  {c \in Of(s, "category") : c.active /\ c.side = "expense" /\ c.id \in Enveloped(s)}

Flexible(s) ==
  LET OfCategory(c) == Available(s, Plan(s), c)
  IN MapThenSumSet(OfCategory, {c \in Of(s, "category") : c.side = "expense"})

(* monthFacts, createMonth *)
MonthFacts(s, month) ==
  LET posted == {t \in Of(s, "transaction") : t.posted /\ t.month = month}
      Sum(sort, set) == MapThenSumSet(Amount, {t \in set : t.sort = sort})
      flexible == {t \in posted : t.category \in Enveloped(s)}
      spent == Sum("expense", flexible) - Sum("refund", flexible)
  IN [month |-> month, free |-> Spendable(s, Plan(s), Plan(s).month, month),
      envelopes |-> Flexible(s), spent |-> spent, left |-> Flexible(s) - spent,
      earned |-> Sum("income", posted), paid |-> Sum("expense", posted) - Sum("refund", posted)]

(* createDashboardModel: the months of the horizon, a set of these.        *)
Year(s, horizon) == {MonthFacts(s, Plan(s).month + k) : k \in 0 .. horizon - 1}

(* tightestMonth: the first of the lowest, and how many share it.          *)
Tightest(months) ==
  LET low == Min({m.free : m \in months})
      lowest == {m.month : m \in {m \in months : m.free = low}}
  IN [month |-> Min(lowest), free |-> low, count |-> Cardinality(lowest)]

(* horizonVerdict: the months it complains of.                             *)
Shortfalls(months) == {m \in months : m.free < 0}

(* nextScheduledDate, within the months of a year.                         *)
NextScheduled(i, start) ==
  {month \in start .. start + 11 :
     Scheduled(i, month) /\ \A earlier \in start .. month - 1 : ~Scheduled(i, earlier)}

-----------------------------------------------------------------------------
(* The ladder of months, in steps of 5 percent.                            *)

Rounded(n, d) == (2 * n + d) \div (2 * d)

Clamped(n, low, high) == Max({low, Min({n, high})})

(* ladderStep, percentStep: of the fraction n / d.                         *)
Step(n, d) == 5 * Rounded(20 * Clamped(n, 0, d), d)

(* ladderModel *)
Mark(months) ==
  LET envelopes == Max({m.envelopes : m \in months})
      scale == Max({m.free + m.envelopes : m \in months} \cup {envelopes, 1})
  IN [at |-> Clamped(Rounded(100 * envelopes, scale), 0, 99), scale |-> scale]

Fill(row, mark) ==
  LET total == row.free + row.envelopes
      above == 5 * ((mark.at + 4) \div 5)
      below == 5 * (mark.at \div 5) - 5
      raw == Step(total, mark.scale)
  IN IF total <= 0 THEN 0
     ELSE IF row.free < 0 THEN Max({0, Min({below, raw})})
     ELSE Min({100, Max({above, raw})})

-----------------------------------------------------------------------------
(* The calendar.                                                           *)

Lengths == <<31, 28, 31, 30, 31, 30, 31, 31, 30, 31, 30, 31>>

Leap(year) == year % 4 = 0 /\ (year % 100 # 0 \/ year % 400 = 0)

DaysIn(month) ==
  Lengths[(month % 12) + 1] + IF month % 12 = 1 /\ Leap(month \div 12) THEN 1 ELSE 0

(* daysBetween, of two dates in order.                                     *)
DaysTo(from, to) == MapThenSumSet(DaysIn, from.month .. to.month - 1) + to.day - from.day

Date(month, day) == [month |-> month, day |-> Min({day, DaysIn(month)})]

-----------------------------------------------------------------------------
(* How far the money reaches.                                              *)

(* paydayDays: the last eight days on which income came, gathered within   *)
(* two days of each other; a gathering of two months is a payday.          *)
IncomeDates(s, today) ==
  {d \in {Date(t.month, t.day) : t \in {t \in Of(s, "transaction") : t.posted /\ t.sort = "income"}} :
     d = today \/ Before(d, today)}

Gather(gathered, date) ==
  LET near == {k \in DOMAIN gathered :
                 \E j \in DOMAIN gathered[k].days : gathered[k].days[j] - date.day \in -2 .. 2}
  IN IF near = {} THEN Append(gathered, [days |-> <<date.day>>, months |-> {date.month}])
     ELSE [gathered EXCEPT ![Min(near)] = [days |-> Append(@.days, date.day),
                                           months |-> @.months \cup {date.month}]]

PaydayDays(s, today) ==
  LET dates == SetToSortSeq(IncomeDates(s, today), Before)
      recent == SubSeq(dates, Max({1, Len(dates) - 7}), Len(dates))
      gathered == FoldLeft(Gather, <<>>, recent)
      Median(days) == SortSeq(days, LAMBDA i, j : i < j)[(Len(days) \div 2) + 1]
  IN {Median(gathered[k].days) : k \in {k \in DOMAIN gathered : Cardinality(gathered[k].months) >= 2}}

(* nextOccurrence *)
NextOccurrence(day, today) ==
  LET next == {m \in today.month .. today.month + 2 : Before(today, Date(m, day))}
  IN Date(Min(next), day)

(* nextPayday: of paydays the nearest, else the end of the plan's month,   *)
(* else of the month today is in.                                          *)
NextPayday(s, today) ==
  LET ahead == {DaysTo(today, NextOccurrence(day, today)) : day \in PaydayDays(s, today)} \cap 1 .. 45
      EndOf(month) == Date(month, 31)
      month == IF Before(today, EndOf(Plan(s).month)) THEN Plan(s).month
               ELSE Min({m \in today.month .. today.month + 1 : Before(today, EndOf(m))})
  IN IF ahead # {} THEN [source |-> "income", days |-> Min(ahead)]
     ELSE [source |-> "month", days |-> DaysTo(today, EndOf(month))]

(* daysElapsed *)
Elapsed(s, today) ==
  LET end == Date(Plan(s).month, 31)
      until == IF Before(today, end) THEN today ELSE end
  IN IF Before(until, Date(Plan(s).month, 1)) THEN 1
     ELSE Max({1, DaysTo(Date(Plan(s).month, 1), until) + 1})

(* reach: money left covers left * elapsed / spent days.                   *)
Reach(left, spent, elapsed, days) ==
  CASE left <= 0 -> [state |-> "out", covered |-> 0, fill |-> 0]
    [] left > 0 /\ spent <= 0 -> [state |-> "reaches", covered |-> days, fill |-> 100]
    [] left > 0 /\ spent > 0 ->
         LET raw == Step(3 * left * elapsed, 4 * spent * days)
             covered == (left * elapsed) \div spent
         IN IF left * elapsed >= days * spent
            THEN [state |-> "reaches", covered |-> covered, fill |-> Max({75, raw})]
            ELSE [state |-> "short", covered |-> covered, fill |-> Min({70, raw})]

-----------------------------------------------------------------------------
(* What the screens say of the same money agrees: the year's month with    *)
(* the figures of the budget and with what today says is left, a verdict   *)
(* with the tightest month, a month's bar with its mark.                   *)
ScreensAgree(s, horizon) ==
  LET months == Year(s, horizon)
      now == CHOOSE m \in months : m.month = Plan(s).month
      mark == Mark(months)
      Left(c) == Remaining(s, Plan(s), c)
      Spent(c) == Actual(s, Plan(s), c)
  IN /\ now.earned = Total(s, Plan(s), "income") /\ now.paid = Expenses(s, Plan(s))
     /\ now.left = MapThenSumSet(Left, FlexibleRows(s))
     /\ now.left = now.envelopes - MapThenSumSet(Spent, FlexibleRows(s))
     /\ Tightest(months).free < 0 <=> Shortfalls(months) # {}
     /\ \A m \in months :
          IF m.free < 0 THEN Fill(m, mark) < mark.at \/ mark.at = 0 ELSE Fill(m, mark) >= mark.at
     /\ \A i \in Of(s, "scheduled") :
          i.active <=> Cardinality(NextScheduled(i, Plan(s).month)) = 1

(* The next payday is ahead, within 45 days, and money said to reach it    *)
(* lasts until it, and money said to fall short does not.                  *)
ReachIsAhead(s, today) ==
  LET payday == NextPayday(s, today)
      left == MonthFacts(s, Plan(s).month).left
      spent == MonthFacts(s, Plan(s).month).spent
      told == Reach(left, spent, Elapsed(s, today), payday.days)
  IN /\ payday.days \in 1 .. 45
     /\ told.state = "reaches" <=> left > 0 /\ told.covered >= payday.days
     /\ told.state = "reaches" <=> told.fill >= 75
=============================================================================
