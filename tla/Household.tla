----------------------------- MODULE Household -----------------------------
(***************************************************************************)
(* What a person does to the budget of one device: operations              *)
(* (features/operations/model.ts), the plan (features/planning/model.ts),  *)
(* a new month (domain/rollover.ts, App.tsx), a bank's file                *)
(* (features/import) and copies of it all (data-management).  Each change  *)
(* is computed from the state that is saved, refused whole or saved whole; *)
(* what the domain computes is in Calculation, where a budget begins in    *)
(* Onboarding, what becomes of it in files, on screens and on other devices*)
(* in Backup, Dashboard and OperationCodec.  Names are compared by their   *)
(* normal form and stand for it.                                           *)
(***************************************************************************)
EXTENDS Calculation, Sequences

CONSTANTS
  Opened,                           \* a state that has been used
  Catalogue, Answer,                \* the starting categories, what onboarding is told
  Fresh,                            \* identifiers that will be drawn
  Name, Money,                      \* what a person types: names, sums,
  Draft,                            \* transactions without an identifier,
  PlannedDraft,                     \* large and regular payments, likewise
  Statement,                        \* a bank's files, sets of rows
  OldCopy,                          \* files kept from before
  OperationsLimit, PlanningLimit,   \* OPERATIONS_LIMITS, PLANNING_LIMITS
  BackupLimit, MaxMoney,            \* and BACKUP_LIMITS, by kind; MAX_MONEY_MINOR
  Horizon, ShownDay,                \* the months of the year's screen, days of looking
  LastMonth, MaxWrites              \* bounds: the calendar, changes saved

VARIABLES
  state,      \* the budget
  today,      \* the month the calendar shows
  import,     \* the screen of the import, and the merchants remembered
  history     \* identifiers drawn and deleted, changes saved, categories changed late,
              \* rows imported, the copy that was made, whether one was restored

vars == <<state, today, import, history>>

Wire == INSTANCE OperationCodec

Copy == INSTANCE Backup

Start == INSTANCE Onboarding

Screen == INSTANCE Dashboard

NoImport == [at |-> "pick", rows |-> {}, ids |-> {}]

NoFile == [format |-> 0, payload |-> Wire!Empty, sum |-> Wire!Empty]

Init ==
  /\ state \in {Opened} \cup {Start!Founded(a, The(Opened, "budget", Opened.active).month, [k \in 1 .. 99 |-> k]) :
                              a \in {a \in Answer : Start!MayFound(a)}}
  /\ today = The(state, "budget", state.active).month
  /\ import = [screen |-> NoImport, memory |-> {}]
  /\ history = [drawn |-> {}, buried |-> {}, writes |-> 0, late |-> {}, imported |-> {},
                copy |-> [file |-> NoFile, late |-> {}], restored |-> FALSE]

-----------------------------------------------------------------------------
(* Identifiers are random and never drawn twice: the k-th to come.         *)
Undrawn == Fresh \ history.drawn

IdOf(k) == CHOOSE i \in Undrawn : Cardinality({j \in Undrawn : j < i}) = k - 1

Active(s) == The(s, "budget", s.active)

Add(s, new) == [s EXCEPT !.entities = s.entities \cup new]

Put(s, old, new) == [s EXCEPT !.entities = (s.entities \ {old}) \cup {new}]

MonthOf(s, e) == IF e.kind = "line" THEN The(s, "budget", e.budget).month ELSE e.month

(* What a month that was carried on already held, and holds no more.       *)
Late(s, next) ==
  {e \in (s.entities \ next.entities) \cup (next.entities \ s.entities) :
     /\ e.kind \in {"transaction", "line"}
     /\ \E b \in Of(s, "budget") : b.month > MonthOf(IF e \in s.entities THEN s ELSE next, e)}

Deleted(s, next) ==
  {<<e.kind, e.id>> : e \in {e \in s.entities : \A n \in next.entities : ~Wire!SameKey(n, e)}}

WriteImported(next, drawn, imported) ==
  /\ state' = next
  /\ history' = [history EXCEPT
       !.drawn = @ \cup drawn, !.buried = @ \cup Deleted(state, next), !.writes = @ + 1,
       !.late = @ \cup {e.category : e \in Late(state, next)}, !.imported = @ \cup imported]

Write(next, drawn) == WriteImported(next, drawn, {})

(* validateLimits *)
WithinLimits(s, limit) ==
  /\ \A kind \in DOMAIN limit \ {"inBudget"} : Cardinality(Of(s, kind)) <= limit[kind]
  /\ \A b \in Of(s, "budget") : Cardinality(Lines(s, b.id)) <= limit.inBudget

(* allDocumentIds: one name space for all kinds but participants.          *)
DistinctIds(s) ==
  LET named == s.entities \ Of(s, "member")
  IN Cardinality({e.id : e \in named}) = Cardinality(named)

(* validateRefundRelations *)
RefundsRelate(s) == \A t \in Of(s, "transaction") : t.sort = "refund" =>
  \E e \in Of(s, "transaction") :
    e.id = t.original /\ e.sort = "expense" /\ e.posted /\ e.category = t.category

(* validateState of the operations, validateResult of the plan.            *)
OperationsHold(s) ==
  WithinLimits(s, OperationsLimit) /\ DistinctIds(s) /\ RefundsRelate(s) /\ Calculates(s, s.active)

PlanHolds(s) == WithinLimits(s, PlanningLimit) /\ DistinctIds(s) /\ Plans(s)

SaveOperation(next, drawn) ==
  OperationsHold(state) /\ OperationsHold(next) /\ Write(next, drawn) /\ UNCHANGED <<today, import>>

SavePlan(next, drawn) ==
  /\ WithinLimits(state, PlanningLimit) /\ PlanHolds(next)
  /\ Write(next, drawn) /\ UNCHANGED <<today, import>>

-----------------------------------------------------------------------------
(* Transactions.  What is archived may stay where it already is.           *)

Usable(s, kind, id, old) == Known(s, kind, id) /\ (The(s, kind, id).active \/ id = old)

UsableCategory(s, id, side, old) ==
  Usable(s, "category", id, old) /\ The(s, "category", id).side = side

(* makeTransaction; current is Blank for a new one.                        *)
MayMake(s, draft, current) ==
  LET old == IF current.sort = draft.sort THEN current ELSE Blank
  IN /\ Usable(s, "account", draft.account, old.account)
     /\ draft.sort = "income" /\ draft.category # 0 =>
          UsableCategory(s, draft.category, "income", old.category)
     /\ draft.sort = "expense" => UsableCategory(s, draft.category, "expense", old.category)
     /\ draft.sort = "refund" => \E e \in Of(s, "transaction") :
          e.id = draft.original /\ e.sort = "expense" /\ e.posted /\ ~Before(draft, e)
     /\ draft.sort \in {"transfer", "contribution"} =>
          Usable(s, "account", draft.to, old.to) /\ draft.to # draft.account
     /\ draft.sort = "contribution" =>
          Usable(s, "goal", draft.goal, old.goal) /\ The(s, "goal", draft.goal).account = draft.to

(* A refund goes back where its expense came from.                         *)
Made(s, id, draft) ==
  [draft EXCEPT !.id = id,
     !.category = IF draft.sort = "refund" THEN The(s, "transaction", draft.original).category
                  ELSE draft.category]

RefundsOf(s, id) == {t \in Of(s, "transaction") : t.sort = "refund" /\ t.original = id}

CreateTransaction(draft) ==
  /\ Undrawn # {}
  /\ Cardinality(Of(state, "transaction")) < OperationsLimit.transaction
  /\ MayMake(state, draft, Blank)
  /\ SaveOperation(Add(state, {Made(state, IdOf(1), draft)}), {IdOf(1)})

(* An expense with refunds keeps its kind, category, status and date.      *)
EditTransaction(t, draft) ==
  /\ t.sort = "expense" /\ RefundsOf(state, t.id) # {} =>
       /\ draft.sort = "expense" /\ draft.category = t.category /\ draft.posted = t.posted
       /\ draft.month = t.month /\ draft.day = t.day
  /\ MayMake(state, draft, t)
  /\ SaveOperation(Put(state, t, Made(state, t.id, draft)), {})

DeleteTransaction(t) ==
  /\ RefundsOf(state, t.id) = {}
  /\ SaveOperation([state EXCEPT !.entities = state.entities \ {t}], {})

-----------------------------------------------------------------------------
(* Categories.                                                             *)

Namesakes(s, name, sides) ==
  {c \in Of(s, "category") : c.active /\ c.name = name /\ c.side \in sides}

(* Lines of every month count.                                             *)
ArchiveCategory(c) ==
  /\ \A e \in Of(state, "line") \cup Of(state, "scheduled") \cup Of(state, "commitment") :
       e.category = c.id => ~e.active
  /\ SaveOperation(Put(state, c, [c EXCEPT !.active = FALSE]), {})

NewCategory(id, name, side) ==
  [Blank EXCEPT !.kind = "category", !.id = id, !.name = name, !.side = side]

NewLine(id, category, amount) ==
  [Blank EXCEPT !.kind = "line", !.id = id, !.budget = state.active, !.category = category,
     !.amount = amount]

(* createOperationCategory; a limit of 0 is none.                          *)
CreateOperationCategory(name, side, limit) ==
  LET drawn == IF limit = 0 THEN {IdOf(1)} ELSE {IdOf(1), IdOf(2)}
      lines == IF limit = 0 THEN {} ELSE {NewLine(IdOf(2), IdOf(1), limit)}
  IN /\ Cardinality(Undrawn) >= 2
     /\ Cardinality(Of(state, "category")) < OperationsLimit.category
     /\ Namesakes(state, name, {side}) = {}
     /\ limit # 0 => side = "expense" /\ Cardinality(Lines(state, state.active)) < OperationsLimit.inBudget
     /\ SaveOperation(Add(state, {NewCategory(IdOf(1), name, side)} \cup lines), drawn)

RestoreCategory(c) ==
  /\ ~c.active /\ Namesakes(state, c.name, {c.side}) = {}
  /\ SaveOperation(Put(state, c, [c EXCEPT !.active = TRUE]), {})

-----------------------------------------------------------------------------
(* The plan.                                                               *)

ActiveRefs(i) ==
  Usable(state, "account", i.account, 0) /\ UsableCategory(state, i.category, "expense", 0)

MayPlan(draft) == ActiveRefs(draft) /\ draft.reserved <= draft.amount

(* createCommitment, createSchedule *)
CreatePlanned(draft) ==
  /\ Undrawn # {}
  /\ Cardinality(Of(state, draft.kind)) < PlanningLimit[draft.kind]
  /\ MayPlan(draft)
  /\ SavePlan(Add(state, {[draft EXCEPT !.id = IdOf(1)]}), {IdOf(1)})

(* editCommitment, editSchedule: what is archived stays so.                *)
EditPlanned(i, draft) ==
  /\ draft.kind = i.kind /\ MayPlan(draft)
  /\ SavePlan(Put(state, i, [draft EXCEPT !.id = i.id, !.active = i.active]), {})

SwitchPlanned_Unchecked(i) == SavePlan(Put(state, i, [i EXCEPT !.active = ~i.active]), {})

(* setCommitmentActive, setScheduleActive *)
SwitchPlanned(i) ==
  /\ ~i.active => ActiveRefs(i)
  /\ SavePlan(Put(state, i, [i EXCEPT !.active = ~i.active]), {})

UniqueActiveName(name, except) ==
  \A c \in Namesakes(state, name, {"income", "expense"}) : c.id = except

Resized(l, amount) == [l EXCEPT !.amount = amount, !.active = TRUE]

(* createFlexibleLine: the archived limit of a namesake comes back, else   *)
(* the namesake gets a limit, else there is a new category.                *)
CreateLine(name, amount) ==
  LET namesakes == Namesakes(state, name, {"expense"})
      lines == {l \in Lines(state, state.active) : \E c \in namesakes : l.category = c.id}
  IN \/ \E l \in lines :
          /\ ~l.active /\ UniqueActiveName(name, l.category)
          /\ SavePlan(Put(state, l, Resized(l, amount)), {})
     \/ /\ lines = {} /\ Cardinality(Undrawn) >= 2
        /\ Cardinality(Lines(state, state.active)) < PlanningLimit.line
        /\ IF namesakes # {}
           THEN \E c \in namesakes :
                  SavePlan(Add(state, {NewLine(IdOf(1), c.id, amount)}), {IdOf(1)})
           ELSE /\ Cardinality(Of(state, "category")) < PlanningLimit.category
                /\ SavePlan(Add(state, {NewCategory(IdOf(1), name, "expense"),
                                        NewLine(IdOf(2), IdOf(1), amount)}), {IdOf(1), IdOf(2)})

(* editFlexibleLine: the limit of this month and the category's name.      *)
EditLine(l, name, amount) ==
  LET c == The(state, "category", l.category)
  IN /\ c.side = "expense" /\ UniqueActiveName(name, c.id)
     /\ SavePlan(Put(Put(state, c, [c EXCEPT !.name = name]), l, [l EXCEPT !.amount = amount]), {})

ArchiveLine(l) == l.active /\ SavePlan(Put(state, l, [l EXCEPT !.active = FALSE]), {})

ReactivateLine(l) ==
  LET c == The(state, "category", l.category)
  IN /\ ~l.active /\ c.side = "expense" /\ c.active /\ UniqueActiveName(c.name, c.id)
     /\ SavePlan(Put(state, l, [l EXCEPT !.active = TRUE]), {})

-----------------------------------------------------------------------------
(* A new month.                                                            *)

(* carriedId: derived from what is carried and the month, and no two alike.*)
CarriedId(id, month) == id + 1000 * month

(* sourceBudgetFor *)
SourceFor(s, month) == CHOOSE b \in Of(s, "budget") :
  b.month < month /\ \A c \in Of(s, "budget") : c.month < month => c.month <= b.month

(* A debt is carried on as well.                                           *)
LeftOver_Debt(s, b, l) ==
  IF l.active THEN Remaining(s, b, The(s, "category", l.category)) ELSE 0

LeftOver(s, b, l) ==
  LET left == Remaining(s, b, The(s, "category", l.category))
  IN IF l.active /\ left > 0 THEN left ELSE 0

CarriedLine(s, source, l, month) ==
  [l EXCEPT !.id = CarriedId(l.id, month), !.budget = CarriedId(source.id, month),
            !.adjusted = 0, !.carried = LeftOver(s, source, l)]

(* carryBudgetForward where no budget plans the month.                     *)
Carried(s, month) ==
  LET source == SourceFor(s, month)
      lines == {l \in Lines(s, source.id) : The(s, "category", l.category).active}
      new == [source EXCEPT !.id = CarriedId(source.id, month), !.month = month, !.active = TRUE]
  IN [active |-> new.id,
      entities |-> (s.entities \ {source}) \cup {new, [source EXCEPT !.active = FALSE]}
                   \cup {CarriedLine(s, source, l, month) : l \in lines}]

Planning(s, month) == {b \in Of(s, "budget") : b.month = month}

(* openMonth: offered when the plan's month is over.                       *)
OpenMonth ==
  /\ today > Active(state).month
  /\ IF Planning(state, today) # {}
     THEN \E b \in Planning(state, today) : Write([state EXCEPT !.active = b.id], {})
     ELSE /\ Calculates(state, SourceFor(state, today).id)
          /\ DistinctIds(Carried(state, today))
          /\ Write(Carried(state, today), {})
  /\ UNCHANGED <<today, import>>

(* Another device opened the month and its pointer is still on the way.    *)
HearOfMonth ==
  /\ today > Active(state).month /\ Planning(state, today) = {}
  /\ Write([Carried(state, today) EXCEPT !.active = state.active], {})
  /\ UNCHANGED <<today, import>>

TurnMonth ==
  /\ today < LastMonth
  /\ today' = today + 1
  /\ UNCHANGED <<state, import, history>>
-----------------------------------------------------------------------------
(* A bank's file (features/import).  A row is an operation of a merchant in*)
(* a direction, perhaps between one's own accounts, with the names of      *)
(* categories the bank and the dictionary suggest, best first.             *)

Side(row) == IF row.out THEN "expense" ELSE "income"

(* byMemory; an entry without a name is an income without a category.      *)
Remembered(s, memory, row) ==
  {e \in memory : /\ e.merchant = row.merchant /\ e.side = Side(row)
                  /\ IF e.name = 0 THEN ~row.out ELSE Namesakes(s, e.name, {e.side}) # {}}

(* resolveCandidates *)
Suggested(s, row) ==
  {k \in DOMAIN row.guesses : Namesakes(s, row.guesses[k], {Side(row)}) # {}}

Named(s, name, side) == (CHOOSE c \in Namesakes(s, name, {side}) : TRUE).id

(* classifyStatement: what was assigned before, then what is suggested.    *)
Placement(s, memory, row) ==
  IF row.self THEN [at |-> "self", category |-> 0]
  ELSE IF Remembered(s, memory, row) # {}
  THEN LET e == CHOOSE e \in Remembered(s, memory, row) : TRUE
       IN [at |-> "placed", category |-> IF e.name = 0 THEN 0 ELSE Named(s, e.name, e.side)]
  ELSE IF Suggested(s, row) # {}
  THEN [at |-> "placed",
        category |-> Named(s, row.guesses[CHOOSE k \in Suggested(s, row) :
                             \A j \in Suggested(s, row) : k <= j], Side(row))]
  ELSE [at |-> "unknown", category |-> 0]

(* Rows are classified when the file is read, and planned when confirmed.  *)
PickFile(rows) ==
  /\ import.screen.at = "pick"
  /\ import' = [import EXCEPT !.screen =
       [at |-> "review", ids |-> {},
        rows |-> {[row |-> r, placed |-> Placement(state, import.memory, r)] : r \in rows}]]
  /\ UNCHANGED <<state, today, history>>

(* What is assigned to a row of an unknown merchant: a category of its     *)
(* side, for an income none (-1), or nothing yet (0).                      *)
Assigned(s, row, choices) ==
  LET category == choices.assign[row.merchant]
  IN IF category > 0 /\ (~Known(s, "category", category)
                          \/ The(s, "category", category).side # Side(row)) THEN 0
     ELSE IF category = -1 /\ row.out THEN 0 ELSE category

Planless(s, r, choices) ==
  CASE r.placed.at = "self" -> choices.transfer \in {0, choices.account}
    [] r.placed.at = "unknown" -> Assigned(s, r.row, choices) = 0
    [] OTHER -> FALSE

(* draftFor: a row of one's own is a transfer in the row's direction.      *)
DraftFor(s, r, choices) ==
  LET draft == [Blank EXCEPT !.kind = "transaction", !.amount = r.row.amount,
                  !.month = r.row.month, !.day = r.row.day, !.account = choices.account,
                  !.sort = Side(r.row)]
      given == IF r.placed.at = "unknown" THEN Assigned(s, r.row, choices) ELSE r.placed.category
  IN IF r.placed.at # "self" THEN [draft EXCEPT !.category = IF given = -1 THEN 0 ELSE given]
     ELSE [draft EXCEPT !.sort = "transfer",
             !.account = IF r.row.out THEN choices.account ELSE choices.transfer,
             !.to = IF r.row.out THEN choices.transfer ELSE choices.account]

Key(t) == <<t.sort, t.month, t.day, t.amount, t.account>>

(* Transfers are taken for new each time.                                  *)
Existing_Untransferred(s) ==
  {Key(t) : t \in {e \in Of(s, "transaction") : e.posted /\ e.sort \in {"expense", "income"}}}

(* existingTransactionKeys *)
Existing(s) ==
  {Key(t) : t \in {e \in Of(s, "transaction") :
                     e.posted /\ e.sort \in {"expense", "income", "transfer"}}}

(* buildImportPlan *)
Included(s, rows, choices) ==
  {r \in rows : /\ ~Planless(s, r, choices)
                /\ choices.duplicates \/ Key(DraftFor(s, r, choices)) \notin Existing(s)}

(* What is remembered of an assignment is the category's name.             *)
MemoryUpdates(s, rows, choices) ==
  {[merchant |-> r.row.merchant, side |-> Side(r.row),
    name |-> LET category == Assigned(s, r.row, choices)
             IN IF category = -1 THEN 0 ELSE The(s, "category", category).name] :
     r \in {q \in rows : q.placed.at = "unknown" /\ ~Planless(s, q, choices)}}

Recalled(memory, updates) ==
  {e \in memory : \A u \in updates : u.merchant # e.merchant} \cup updates

(* confirm, through createTransactions; remembering may fail.              *)
Confirm(choices) ==
  LET rows == Included(state, import.screen.rows, choices)
      Row(r) == r.row.n
      IdFor(r) == IdOf(Cardinality({q \in rows : Row(q) <= Row(r)}))
      MadeOf(r) == Made(state, IdFor(r), DraftFor(state, r, choices))
      ids == {IdFor(r) : r \in rows}
      next == Add(state, {MadeOf(r) : r \in rows})
  IN /\ import.screen.at = "review" /\ rows # {}
     /\ Cardinality(Undrawn) >= Cardinality(rows)
     /\ \A r \in rows : MayMake(state, DraftFor(state, r, choices), Blank)
     /\ OperationsHold(state) /\ OperationsHold(next)
     /\ WriteImported(next, ids,
          {[n |-> Row(r), made |-> MadeOf(r), asked |-> choices.duplicates] : r \in rows})
     /\ import' \in
          {[screen |-> [at |-> "done", ids |-> ids, rows |-> rows], memory |-> memory] :
             memory \in {import.memory,
                         Recalled(import.memory, MemoryUpdates(state, import.screen.rows, choices))}}
     /\ UNCHANGED today

(* deleteTransactions: all of them are here and no refund is left behind.  *)
UndoImport ==
  LET removing == {t \in Of(state, "transaction") : t.id \in import.screen.ids}
      next == [state EXCEPT !.entities = state.entities \ removing]
  IN /\ import.screen.at = "done"
     /\ {t.id : t \in removing} = import.screen.ids
     /\ \A t \in removing : RefundsOf(state, t.id) \subseteq removing
     /\ OperationsHold(state) /\ OperationsHold(next)
     /\ Write(next, {})
     /\ import' = [import EXCEPT !.screen = NoImport]
     /\ UNCHANGED today

LeaveImport ==
  /\ import.screen.at # "pick"
  /\ import' = [import EXCEPT !.screen = NoImport]
  /\ UNCHANGED <<state, today, history>>

-----------------------------------------------------------------------------
(* Copies.                                                                 *)

(* createBackup: what a file says does not change, so one is looked after. *)
MakeCopy ==
  /\ Copy!MayCopy(state)
  /\ history' = [history EXCEPT !.copy = [file |-> Copy!CopyOf(state), late |-> history.late]]
  /\ UNCHANGED <<state, today, import>>

(* onRestoreBackup: the budget becomes the copy, whatever it was.          *)
Restore(file, late) ==
  /\ Copy!Reads(file)
  /\ state' = Copy!Restored(file)
  /\ history' = [history EXCEPT !.writes = @ + 1, !.late = late, !.restored = TRUE,
                               !.buried = @ \cup Deleted(state, state')]
  /\ UNCHANGED <<today, import>>

-----------------------------------------------------------------------------
(* The review asks for what the rows leave open, and offers what is active.*)
MadeChoices ==
  LET asked(at) == {r.row.merchant : r \in {r \in import.screen.rows : r.placed.at = at}}
      offered(kind) == {e.id : e \in {e \in Of(state, kind) : e.active}}
  IN {c \in [account : offered("account"), duplicates : BOOLEAN,
             transfer : {0} \cup IF asked("self") = {} THEN {} ELSE offered("account"),
             assign : [asked("unknown") -> {-1, 0} \cup offered("category")]] :
        c.transfer # c.account}

Operations ==
  \/ \E draft \in Draft : CreateTransaction(draft)
  \/ \E t \in Of(state, "transaction"), draft \in Draft : EditTransaction(t, draft)
  \/ \E t \in Of(state, "transaction") : DeleteTransaction(t)
  \/ \E c \in Of(state, "category") : ArchiveCategory(c) \/ RestoreCategory(c)
  \/ \E name \in Name, side \in {"expense", "income"}, limit \in {0} \cup Money :
       CreateOperationCategory(name, side, limit)

Plan ==
  \/ \E draft \in PlannedDraft : CreatePlanned(draft)
  \/ \E i \in Of(state, "scheduled") \cup Of(state, "commitment") :
       SwitchPlanned(i) \/ \E draft \in PlannedDraft : EditPlanned(i, draft)
  \/ \E name \in Name, amount \in Money : CreateLine(name, amount)
  \/ \E l \in Lines(state, state.active) :
       \/ ArchiveLine(l) \/ ReactivateLine(l)
       \/ \E name \in Name, amount \in Money : EditLine(l, name, amount)

Import ==
  (\E choices \in MadeChoices : Confirm(choices)) \/ UndoImport

RestoreCopy ==
  \/ Restore(history.copy.file, history.copy.late)
  \/ \E file \in OldCopy : Restore(file, {})

Next ==
  \/ /\ history.writes < MaxWrites
     /\ Operations \/ Plan \/ Import \/ OpenMonth \/ HearOfMonth \/ RestoreCopy
  \/ \E rows \in Statement : PickFile(rows)
  \/ LeaveImport \/ TurnMonth \/ MakeCopy

Spec == Init /\ [][Next]_vars

-----------------------------------------------------------------------------
TypeOK ==
  /\ \A e \in state.entities : DOMAIN e = DOMAIN Blank
  /\ today \in 0 .. LastMonth
  /\ import.screen.at \in {"pick", "review", "done"}
  /\ import.screen.ids \subseteq history.drawn
  /\ history.drawn \subseteq Fresh
  /\ {i.made.id : i \in history.imported} \subseteq history.drawn
  /\ history.writes \in 0 .. MaxWrites

(* What is shown agrees with itself: an archived category has no limit and *)
(* nothing planned in the active month, names tell the active categories   *)
(* apart, and a month has one plan.                                        *)
InOrder(s) ==
  /\ \A c \in Of(s, "category") : ~c.active =>
       /\ \A l \in Lines(s, s.active) : l.category = c.id => ~l.active
       /\ \A i \in Of(s, "scheduled") \cup Of(s, "commitment") : i.category = c.id => ~i.active
  /\ \A c, d \in Of(s, "category") :
       c.active /\ d.active /\ c.name = d.name /\ c.side = d.side => c = d
  /\ \A b, c \in Of(s, "budget") : b.month = c.month => b = c

(* Whatever a person does and in whatever order, what is saved is a budget *)
(* the domain accepts in every month, in order, with distinct identifiers, *)
(* a copy of it comes back as it is, and what is put aside covers what     *)
(* falls due within two years (model.ts of operations and planning,        *)
(* rollover.ts, plan.ts, backup.ts, onboarding/model.ts).                  *)
BudgetStaysWhole ==
  /\ Accepted(state) /\ DistinctIds(state) /\ InOrder(state) /\ Copy!ComesBack(state)
  /\ \A i \in Of(state, "commitment") : ReservesSuffice(i, Active(state).month, 24)

Preceding(b) == {c \in Of(state, "budget") : c.month < b.month
                  /\ \A d \in Of(state, "budget") : d.month < b.month => d.month <= c.month}

Spent(b, category) ==
  LET Signed(t) == IF t.sort = "refund" THEN -t.amount ELSE t.amount
  IN MapThenSumSet(Signed, {t \in Of(state, "transaction") : /\ t.posted /\ t.month = b.month
                              /\ t.sort \in {"expense", "refund"} /\ t.category = category})

(* An envelope begins a month with what was left in it, once, and never    *)
(* with a debt; a category changed in a month that was closed is aside.    *)
EnvelopesCarry ==
  \A b \in Of(state, "budget") : \A p \in Preceding(b) :
    \A l \in Lines(state, b.id) : l.category \notin history.late =>
      l.carried = LET left == {k.amount + k.carried + k.adjusted - Spent(p, k.category) :
                                 k \in {k \in Lines(state, p.id) :
                                          k.category = l.category /\ k.active}}
                  IN IF \E x \in left : x > 0 THEN CHOOSE x \in left : TRUE ELSE 0

(* A row that is read again, of the same account, adds nothing while what  *)
(* it added is there as it was, unless a person asks for it.               *)
ImportsOnce ==
  \A i, j \in history.imported :
    /\ ~i.asked /\ ~j.asked /\ i.n = j.n /\ i.made.account = j.made.account
    /\ {i.made, j.made} \subseteq state.entities
    => i = j

(* The money of every month is accounted for: the figures of its budget    *)
(* agree, its envelopes carry on what the month before left, a bank's row  *)
(* is in it once, and the screens say the same of it (calculate.ts,        *)
(* rollover.ts 183 to 273, plan.ts 88, dashboard/model.ts, reach.ts).      *)
MoneyIsAccounted ==
  /\ \A b \in Of(state, "budget") : FiguresAgree(state, b)
  /\ EnvelopesCarry /\ ImportsOnce
  /\ Screen!ScreensAgree(state, Horizon)
  /\ \A day \in ShownDay : Screen!ReachIsAhead(state, [month |-> today, day |-> day])

(* What is saved reaches the other devices of a family: the operations a   *)
(* change is written as are ones every codec accepts and carry the change, *)
(* and so do those of the whole budget, which begin a family, unless a sum *)
(* is too large for them; and while no copy was restored nothing is        *)
(* created under an identifier that was deleted, for a deletion is final   *)
(* (features/family/journal.ts 230 to 283, codec.ts 332 to 690).           *)
WritesTravel ==
  [][state' # state =>
     /\ Wire!Travels(Wire!Empty, state') <=> ~Wire!Large(state')
     /\ ~Wire!Large(state') => Wire!Travels(state, state')
     /\ history'.restored \/ \A n \in state'.entities :
          <<n.kind, n.id>> \in history.buried => \E e \in state.entities : Wire!SameKey(n, e)]_vars
=============================================================================
