--------------------------- MODULE OperationCodec ---------------------------
(***************************************************************************)
(* What one device writes of its budget for the others to read             *)
(* (features/family/journal.ts) and what the codec of the journal lets     *)
(* through (packages/sync-protocol/src/codec.ts).  An operation says what  *)
(* is done to an entity and carries a row: its fields by name, without the *)
(* optional ones it lacks.  Identifiers, texts, the header's stamps and the*)
(* envelope's size are left out.                                           *)
(***************************************************************************)
EXTENDS Calculation

CONSTANT MaxMoney                   \* MAX_MONEY_MINOR: bounds every sum of a row

Sides(sort) ==
  CASE sort = "income" -> {"account"}
    [] sort = "expense" -> {"account", "category"}
    [] sort = "refund" -> {"account", "category", "original"}
    [] sort = "transfer" -> {"account", "to"}
    [] OTHER -> {"account", "to", "goal"}

-----------------------------------------------------------------------------
(* What is written: the writer's list of every kind's fields.              *)

Fields(e) ==
  CASE e.kind = "member" -> {"name", "active"}
    [] e.kind = "account" -> {"name", "amount", "active"}
    [] e.kind = "category" -> {"name", "side", "active"}
    [] e.kind = "budget" -> {"month", "active", "amount"}
    [] e.kind = "line" -> {"budget", "category", "amount", "active", "carried", "adjusted"}
    [] e.kind = "goal" -> {"name", "account", "amount", "active"}
    [] e.kind = "commitment" ->
         {"name", "category", "account", "month", "day", "amount", "reserved", "yearly", "active"}
    [] e.kind = "scheduled" ->
         {"name", "category", "account", "amount", "day", "months", "active"}
    [] OTHER -> {"sort", "month", "day", "posted", "amount", "member", "category"} \cup Sides(e.sort)

(* A field that may be missing is missing rather than empty.               *)
Lacks(e, f) ==
  /\ e[f] = Blank[f]
  /\ \/ e.kind = "line" /\ f \in {"active", "carried", "adjusted"}
     \/ e.kind = "scheduled" /\ f = "months"
     \/ e.kind = "transaction" /\ f \in {"member", "category"}

Row(e) == [f \in {f \in Fields(e) : ~Lacks(e, f)} |-> e[f]]

SameKey(e, f) == e.kind = f.kind /\ e.id = f.id

(* budgetJournalDrafts: the first of all writes is compared with nothing.  *)
Drafts(before, next) ==
  LET Draft(e, action, row) == [kind |-> e.kind, id |-> e.id, action |-> action, row |-> row]
      old(e) == {o \in before.entities : SameKey(o, e)}
      gone == {e \in before.entities : \A n \in next.entities : ~SameKey(n, e)}
  IN {Draft(e, IF old(e) = {} THEN "create" ELSE "update", Row(e)) :
        e \in {e \in next.entities : \A o \in old(e) : Row(o) # Row(e)}}
     \cup {Draft(e, "delete", <<>>) : e \in gone}
     \cup IF before.active = next.active THEN {}
          ELSE {[kind |-> "budget", id |-> next.active, action |-> "activate", row |-> <<>>]}

-----------------------------------------------------------------------------
(* What is read: the codec's own lists, and its bounds.                    *)

Required(kind, sort) ==
  CASE kind = "member" -> {"name", "active"}
    [] kind = "account" -> {"name", "amount", "active"}
    [] kind = "category" -> {"name", "side", "active"}
    [] kind = "budget" -> {"month", "active", "amount"}
    [] kind = "line" -> {"budget", "category", "amount"}
    [] kind = "goal" -> {"name", "account", "amount", "active"}
    [] kind = "commitment" ->
         {"name", "category", "account", "month", "day", "amount", "reserved", "yearly", "active"}
    [] kind = "scheduled" -> {"name", "category", "account", "amount", "day", "active"}
    [] OTHER -> {"sort", "month", "day", "posted", "amount"} \cup Sides(sort)

(* What is carried on came after the codec.                                *)
Optional_Uncarried(kind, sort) ==
  CASE kind = "line" -> {"active", "adjusted"}
    [] kind = "scheduled" -> {"months"}
    [] kind = "transaction" -> {"member"} \cup IF sort = "income" THEN {"category"} ELSE {}
    [] OTHER -> {}

Optional(kind, sort) ==
  CASE kind = "line" -> {"active", "carried", "adjusted"}
    [] kind = "scheduled" -> {"months"}
    [] kind = "transaction" -> {"member"} \cup IF sort = "income" THEN {"category"} ELSE {}
    [] OTHER -> {}

(* readMinor: the least a sum may be.                                      *)
Least(kind, f) ==
  CASE kind = "account" \/ f = "adjusted" -> -MaxMoney
    [] kind \in {"commitment", "scheduled", "transaction"} /\ f = "amount" -> 1
    [] OTHER -> 0

Sums(row) == DOMAIN row \cap {"amount", "carried", "adjusted", "reserved"}

(* parseOperation *)
Parses(op) ==
  LET row == op.row
      given == DOMAIN row
      sort == IF op.kind = "transaction" THEN row.sort ELSE "none"
      Sum(f) == row[f]
  IN CASE op.action = "delete" -> given = {}
       [] op.action = "activate" -> op.kind = "budget" /\ given = {}
       [] OTHER ->
            /\ Required(op.kind, sort) \subseteq given
            /\ given \subseteq Required(op.kind, sort) \cup Optional(op.kind, sort)
            /\ \A f \in Sums(row) : row[f] \in Least(op.kind, f) .. MaxMoney
            /\ op.kind = "line" => MapThenSumSet(Sum, Sums(row)) >= 0
            /\ "months" \in given => row.months # {} /\ row.months \subseteq 1 .. 12
            /\ "to" \in given => row.to # row.account

(* What a device that reads the row holds.                                 *)
Entity(op) ==
  [f \in DOMAIN Blank |-> CASE f = "kind" -> op.kind [] f = "id" -> op.id
                            [] f \in DOMAIN op.row -> op.row[f] [] OTHER -> Blank[f]]

Applied(s, ops) ==
  LET written == {op \in ops : op.action \in {"create", "update"}}
      activated == {op \in ops : op.action = "activate"}
  IN [active |-> IF activated = {} THEN s.active ELSE (CHOOSE op \in activated : TRUE).id,
      entities |-> {e \in s.entities : \A op \in ops :
                      ~(op.kind = e.kind /\ op.id = e.id /\ op.action # "activate")}
                   \cup {Entity(op) : op \in written}]

Empty == [active |-> 0, entities |-> {}]

-----------------------------------------------------------------------------
(* Beyond the sums a row may carry; a form takes larger ones.              *)
Large(s) == \E e \in s.entities : \E f \in Sums(Row(e)) : e[f] > MaxMoney \/ -e[f] > MaxMoney

(* The operations a change is written as are accepted by every device and  *)
(* carry that change, from what was known before or from nothing.          *)
Travels(before, next) ==
  LET ops == Drafts(before, next)
  IN (\A op \in ops : Parses(op)) /\ Applied(before, ops) = next
=============================================================================
