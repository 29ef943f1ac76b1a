------------------------------ MODULE MCDevice ------------------------------
(***************************************************************************)
(* The parts of a device that share no state in these models, checked side *)
(* by side: the initial state picks one of them and only that one moves.   *)
(* Each has its bounds: what is rare happens once, and not together with   *)
(* everything else that is rare.                                           *)
(***************************************************************************)
EXTENDS DevicePartsProofs, TLC

CONSTANTS
  Parts,                                         \* the parts that are run
  Member, Batch,                                 \* KeyRotation
  Entry, Activation, MaxSnapshots, MaxUndo, UndoTrim, MaxApplied, AppliedTrim,   \* JournalMemo
  MaxAttempts, MaxRequests, MaxPerSource, CodeTtl, Window, Reauth, AccessTtl, RefreshTtl,
  MaxTime, MaxCodes,                             \* Login
  a, b, t1, t2

VARIABLES
  part,
  server, staged, owners, lead, harmed,          \* KeyRotation
  memo, snapshot,                                \* JournalMemo
  arrived,                                       \* JournalGate
  home, today, importing, writes,                \* Household
  clock, letters, asked, owned, known, issued, signed   \* Login

intakeVars == vars

rotationVars == <<server, staged, owners, lead, harmed>>

budgetVars == <<doc, family, tab, call, pull, told>>

chainVars == <<made, keys, oldKeys, holder, offer>>

memoVars == <<memo, snapshot>>

houseVars == <<home, today, importing, writes>>

sessionVars == <<row, record, tabs, causes>>

joinVars == <<group, inviter, invited, codes>>

updateVars == <<policy, prompt, page>>

loginVars == <<clock, letters, asked, owned, known, issued, signed>>

allVars ==
  <<part, intakeVars, rotationVars, budgetVars, chainVars, memoVars, arrived, houseVars, sessionVars, joinVars,
    updateVars, loginVars>>

Rotation == INSTANCE KeyRotationProofs WITH family <- server, device <- owners

Memo == INSTANCE JournalMemo

(* A household of one account, one category and one budget, which a device *)
(* opened (1 to 4), and what meets it: namesakes, duplicates, the second   *)
(* version of an entity, its deletion, and what names what is not here.    *)
E == INSTANCE Calculation

Entity(kind, id, rank) == [E!Blank EXCEPT !.kind = kind, !.id = id, !.rank = rank]

Opened == {
  [Entity("account", 11, 1) EXCEPT !.amount = 100],
  Entity("category", 21, 2),
  [Entity("budget", 31, 3) EXCEPT !.month = 1],
  Entity("activation", 31, 4)}

Meal == [Entity("transaction", 51, 9) EXCEPT !.sort = "expense", !.account = 11, !.category = 21,
           !.member = 71, !.month = 1, !.amount = 30]

Met == {
  Entity("account", 12, 5), [Entity("account", 12, 1) EXCEPT !.gone = TRUE],
  [Entity("category", 21, 6) EXCEPT !.side = "income"],
  [Entity("line", 41, 7) EXCEPT !.budget = 31, !.category = 21, !.amount = 50],
  [Entity("line", 42, 8) EXCEPT !.budget = 31, !.category = 21, !.amount = 70],
  Meal, [Meal EXCEPT !.rank = 10, !.posted = FALSE, !.member = 0],
  [Entity("transaction", 52, 11) EXCEPT !.sort = "refund", !.account = 12, !.category = 21,
     !.original = 51, !.month = 1, !.amount = 10],
  [Entity("goal", 61, 12) EXCEPT !.account = 12],
  [Entity("transaction", 53, 13) EXCEPT !.sort = "contribution", !.account = 11, !.to = 12,
     !.goal = 61, !.month = 1, !.amount = 20],
  Entity("member", 71, 14), Entity("member", 61, 17),
  [Entity("transaction", 54, 15) EXCEPT !.sort = "income", !.account = 11, !.category = 21,
     !.month = 1, !.amount = 60],
  Entity("activation", 32, 16)}

Gate == INSTANCE JournalGate WITH Operation <- Opened \cup Met, MaxSum <- 80

(* A household in July (month 6): a category with a limit and a purchase,  *)
(* one with a yearly payment off, an archived namesake of the first, a goal;   *)
(* what may be entered, and two overlapping files of the bank.             *)
Thing(kind, id) == [E!Blank EXCEPT !.kind = kind, !.id = id]

Purchase == [Thing("transaction", 0) EXCEPT !.sort = "expense", !.month = 6, !.day = 6,
               !.account = 1, !.category = 11, !.amount = 60]

Home == [active |-> 21, entities |-> {
  [Thing("account", 1) EXCEPT !.amount = 100], Thing("account", 2),
  [Thing("category", 11) EXCEPT !.name = 1], [Thing("category", 12) EXCEPT !.name = 2],
  [Thing("category", 13) EXCEPT !.name = 1, !.active = FALSE],
  [Thing("category", 14) EXCEPT !.name = 3, !.side = "income"],
  [Thing("budget", 21) EXCEPT !.month = 6, !.amount = 100],
  [Thing("line", 31) EXCEPT !.budget = 21, !.category = 11, !.amount = 50],
  [Thing("line", 32) EXCEPT !.budget = 21, !.category = 13, !.amount = 20, !.active = FALSE],
  [Purchase EXCEPT !.id = 41, !.day = 5, !.amount = 20],
  [Thing("commitment", 51) EXCEPT !.month = 7, !.account = 1, !.category = 12,
     !.amount = 1000, !.reserved = 500, !.yearly = TRUE, !.active = FALSE],
  [Thing("goal", 61) EXCEPT !.account = 2],
  [Purchase EXCEPT !.id = 42, !.sort = "income", !.category = 0, !.month = 5, !.amount = 90]}]

Entered == {Purchase, [Purchase EXCEPT !.month = 7],
  [Purchase EXCEPT !.sort = "refund", !.category = 0, !.original = 41, !.amount = 10],
  [Purchase EXCEPT !.sort = "contribution", !.category = 0, !.to = 2, !.goal = 61],
  [Purchase EXCEPT !.sort = "income", !.category = 14, !.month = 7, !.amount = 6000]}

Foreseen == {
  [Thing("commitment", 0) EXCEPT !.month = 9, !.account = 1, !.category = 11, !.amount = 700],
  [Thing("scheduled", 0) EXCEPT !.account = 1, !.category = 11, !.amount = 5, !.months = {8}]}

BankRow(n, month, amount) ==
  [n |-> n, merchant |-> n, out |-> TRUE, self |-> FALSE, guesses |-> <<>>,
   month |-> month, day |-> 5, amount |-> amount]

Files == {{[BankRow(1, 6, 20) EXCEPT !.guesses = <<5, 1>>], BankRow(2, 7, 20)},
          {BankRow(2, 7, 20), [BankRow(3, 6, 40) EXCEPT !.self = TRUE]}}

(* What onboarding is told: of three the last names a category twice.      *)
Told(name, third) == [income |-> 300, payment |-> [name |-> name, amount |-> 90], everyday |->
  <<[name |-> 1, amount |-> 30], [name |-> 4, amount |-> 40], [name |-> third, amount |-> 50]>>]

(* Copies of builds before this one: with a label that names nobody, of    *)
(* the first format; spoilt; with an identifier of two entities.           *)
Older == [active |-> 21, entities |->
  (Home.entities \ {e \in Home.entities : e.kind \in {"commitment", "transaction"}})
  \cup {Thing("member", 71), [Purchase EXCEPT !.id = 41, !.member = 72],
        [Purchase EXCEPT !.id = 43, !.member = 71, !.sort = "income", !.category = 14]}]

Kept(format, s, sum) == [format |-> format, payload |-> s, sum |-> sum]

Limits == [account |-> 3, category |-> 5, budget |-> 4, line |-> 9, transaction |-> 4,
           goal |-> 1, commitment |-> 2, scheduled |-> 1, member |-> 1, inBudget |-> 3]

House == INSTANCE Household WITH
  Opened <- Home, Fresh <- {901, 902, 903, 904}, Name <- {1, 4}, Money <- {70},
  Draft <- Entered, PlannedDraft <- Foreseen, Statement <- Files,
  OperationsLimit <- Limits, PlanningLimit <- [Limits EXCEPT !.line = 6], BackupLimit <- Limits,
  Catalogue <- <<[name |-> 1, side |-> "expense"], [name |-> 3, side |-> "income"]>>,
  Answer <- {Told(2, 5), Told(1, 5), Told(2, 4)}, MaxMoney <- 5000,
  OldCopy <- {Kept(1, Older, Older), Kept(2, Older, Home),
              Kept(1, [Older EXCEPT !.entities = @ \cup {Thing("member", 61)}], Older)},
  Horizon <- 4, ShownDay <- {6, 31},
  LastMonth <- 8, MaxWrites <- 3,
  state <- home, import <- importing, history <- writes

Signing == INSTANCE LoginProofs WITH
  Address <- Op, Device <- Leader,
  codes <- letters, accounts <- owned, devices <- known, past <- signed

ASSUME PartsAssumption ==
  Rotation!Bounds /\ Memo!Bounds /\ Signing!Limits

Symmetry == Permutations(Op) \cup Permutations(Leader)

Checkpoints == (a :> 2 @@ b :> 0)

(* The household and the page are not there where another part is run.     *)
NoHouse == home = {} /\ today = 0 /\ importing = {} /\ writes = {}

NoPage == policy = {} /\ prompt = {} /\ page = {}

MCInit ==
  /\ part \in Parts /\ Init /\ Rotation!Init /\ Budget!Init /\ Chain!Init /\ Memo!Init
  /\ Gate!Init /\ Signed!Init /\ Joins!Init /\ Signing!Init
  /\ IF part = "household" THEN House!Init ELSE NoHouse
  /\ IF part = "update" THEN Update!Init ELSE NoPage

-----------------------------------------------------------------------------
(* SyncIntake.  The list is harmed while no round runs and not in a        *)
(* behaviour with rounds side by side; only one device runs those, before  *)
(* its first checkpoint, and finishes them.                                *)
IntakeBounds ==
  /\ faults' > faults => Serial /\ \A d \in Device : Busy(d) = {}
  /\ faults' > 0 => Serial'
  /\ ~past'[b].overlap
  /\ past'[a].overlap =>
       /\ disk'[a].anchor.own = NoLink
       /\ \A r \in Round : round[a][r].at = "fold" /\ round'[a][r].at = "idle" => disk' # disk

IntakeMoves ==
  /\ part = "intake"
  /\ Next /\ IntakeBounds
  /\ UNCHANGED <<part, rotationVars, budgetVars, chainVars, memoVars, arrived, houseVars, sessionVars, joinVars, updateVars, loginVars>>

(* KeyRotation.  A row is harmed (before the pages are read or before the  *)
(* switch) and a device revoked during a rotation, not both, and with one  *)
(* attempt at a time; an attempt that has begun declares, and a person     *)
(* consents to gaps that are there.  After the first change an attempt     *)
(* begins when no other is before its switch.                              *)
RotationBounds ==
  /\ harmed' # harmed =>
       staged # Rotation!NoStaging /\ \A l \in Leader : lead[l].at \in {"idle", "read", "complete"}
  /\ harmed' > 0 => server'.members = Rotation!Everybody
  /\ server'.members # server.members => staged # Rotation!NoStaging
  /\ harmed' > 0 \/ server'.members # Rotation!Everybody =>
       \A l, m \in Leader : lead'[l].at # "idle" /\ lead'[m].at # "idle" => l = m
  /\ \A l \in Leader : lead[l].at = "declare" =>
       /\ lead'[l].at # "idle"
       /\ lead'[l].at = "cancel" /\ staged = Rotation!NoStaging => server' # server
  /\ \A l \in Leader : lead'[l].consent => harmed > 0
  /\ \A l, m \in Leader :
       server.epoch > 1 /\ lead[l].at = "idle" /\ lead'[l].at = "declare" =>
         lead[m].at \notin {"declare", "read", "upload", "complete"}

RotationMoves ==
  /\ part = "rotation"
  /\ Rotation!Next /\ RotationBounds
  /\ UNCHANGED <<part, intakeVars, budgetVars, chainVars, memoVars, arrived, houseVars, sessionVars, joinVars, updateVars, loginVars>>

(* BudgetStore.  Identifiers are drawn in one order, for they differ in    *)
(* nothing; leaving, deleting everything and deletions of an entity come   *)
(* late and on one tab, and only that tab receives; the other is reopened  *)
(* and reads its session first.  A family is founded or joined before the  *)
(* third write, and nothing is looked at after a write past the journal.   *)
BudgetBounds ==
  /\ ~told.aside
  /\ \A i, j \in Item : i < j /\ j \in told'.drawn => i \in told'.drawn
  /\ family'.key < family.key \/ doc'.rev < doc.rev =>
       told.writes = 2 /\ call[t2] = Budget!NoCall /\ tab[t2].view = "ready"
  /\ told'.families # told.families => call'[t2] = call[t2] /\ tab'[t2] = tab[t2]
  /\ doc'.rev >= 3 => told'.families > 0
  /\ \A t \in Tab : call[t] = Budget!NoCall /\ call'[t].drop # {} =>
       t = t1 /\ told.writes = 2 /\ Budget!Fresh = {}
  /\ pull'[t2] = Budget!NoPull
  /\ tab[t2].view = "loading" /\ tab'[t2].view # "loading" => tab[t2].asked
  /\ told'.families > told.families => told.writes < 2
  /\ \A t \in Tab : tab[t] # Budget!NewTab /\ tab'[t] = Budget!NewTab =>
       t = t2 /\ told.writes = 2 /\ told.families = 0

BudgetMoves ==
  /\ part = "budget"
  /\ Budget!Next /\ BudgetBounds
  /\ UNCHANGED <<part, intakeVars, rotationVars, chainVars, memoVars, arrived, houseVars, sessionVars, joinVars, updateVars, loginVars>>

(* EpochChain.  Tabs ask side by side where nothing is harmed and every    *)
(* sender pinned; a device is pinned before that and a list lacks one.     *)
ChainBounds ==
  /\ (\A t \in Tab : offer'[t].at = "asked") => holder'.faults = 0 /\ holder'.pins = Leader
  /\ holder'.pins # holder.pins => holder'.faults = 0
  /\ \A t \in Tab : offer[t].at = "idle" /\ offer'[t].at = "asked" =>
       \E l \in Leader : holder.pins \subseteq offer'[t].pinned \cup {l}

ChainMoves ==
  /\ part = "chain"
  /\ Chain!Next /\ ChainBounds
  /\ UNCHANGED <<part, intakeVars, rotationVars, budgetVars, memoVars, arrived, houseVars, sessionVars, joinVars, updateVars, loginVars>>

(* JournalMemo.  The answers of one snapshot are looked at, its identifiers*)
(* last, and three memos are made.                                         *)
MemoBounds ==
  /\ \A i, j \in Memo!Made : snapshot'[i].kept # "none" /\ snapshot'[j].kept # "none" => i = j
  /\ memo'[4] = Memo!EmptyMemo
  /\ \A i \in Memo!Made :
       snapshot'[i].applied # snapshot[i].applied /\ memo' = memo => snapshot[i].kept # "none"

MemoMoves ==
  /\ part = "memo"
  /\ Memo!Next /\ MemoBounds
  /\ UNCHANGED <<part, intakeVars, rotationVars, budgetVars, chainVars, arrived, houseVars, sessionVars, joinVars, updateVars, loginVars>>

(* JournalGate.  One operation of the opened household at most is missing  *)
(* while up to six others arrive; of the orders in which a set arrives one *)
(* is taken, for the view is of the set.                                   *)
GateBounds ==
  /\ Cardinality(Opened \ arrived') <= 1 \/ arrived' \subseteq Opened
  /\ Cardinality(arrived' \cap Met) <= 6
  /\ \A op \in arrived' \ arrived :
       IF op \in Opened THEN arrived \subseteq Opened /\ \A e \in arrived : e.rank < op.rank
       ELSE \A e \in arrived \cap Met : e.rank < op.rank

GateMoves ==
  /\ part = "gate"
  /\ Gate!Next /\ GateBounds
  /\ UNCHANGED <<part, intakeVars, rotationVars, budgetVars, chainVars, memoVars, houseVars, sessionVars, joinVars, updateVars, loginVars>>

(* Household.  A file is read in the second month, first or after another; *)
(* two changes are made, three where a month is opened or the third is an  *)
(* import again or its undoing; nothing is looked at after the last.  The  *)
(* income of May stays; a copy is made before anything else.  Beside an    *)
(* import the plan stays and the month, and nothing is entered after one.  *)
Foreplanned(s) ==
  {e \in s.entities : e.kind \in {"commitment", "scheduled"} \/ (e.kind = "line" /\ e.budget = 21)}

HouseBounds ==
  /\ writes'.writes <= 3 /\ (writes' = writes => writes.writes < 3)
  /\ importing.screen.at = "pick" /\ importing'.screen.at = "review" =>
       today = 7 /\ writes.writes = Cardinality({i.asked : i \in writes.imported})
  /\ \A i \in writes'.imported : 1 \in {i.made.account, i.made.to} /\ i.made.category # 12
  /\ home' # home => \A t \in {t \in home.entities : t.id = 42} : t \in home'.entities \/ writes'.restored
  /\ writes'.copy # writes.copy => writes.writes = 0
  /\ today' # today => importing.screen.at = "pick" /\ writes.imported = {}
  /\ writes.imported # {} /\ writes'.drawn # writes.drawn => writes'.imported # writes.imported
  /\ importing.screen.at # "pick" \/ writes.imported # {} => Foreplanned(home) = Foreplanned(home')
  /\ ~writes.restored /\ writes'.restored =>
       writes.writes = IF writes.copy.file = House!NoFile THEN 0 ELSE 1
  /\ writes' # writes /\ writes.copy.file # House!NoFile => writes'.restored \/ writes.writes = 0

(* A budget that was founded or restored is changed once.                  *)
Settled ==
  /\ 42 \notin {e.id : e \in home.entities}
  /\ writes.writes > IF writes.restored THEN 1 ELSE 0

HouseSteps ==
  IF writes.writes < 2 /\ ~Settled THEN House!Next
  ELSE IF writes.imported # {} THEN House!LeaveImport \/ (writes.writes = 2 /\ House!Import)
  ELSE /\ importing.screen.at = "pick"
       /\ IF \E e \in home.entities : e.kind = "budget" /\ e.month > 6 THEN House!Next
          ELSE House!TurnMonth \/ House!OpenMonth \/ House!HearOfMonth

HouseMoves ==
  /\ part = "household"
  /\ HouseSteps /\ HouseBounds
  /\ UNCHANGED <<part, intakeVars, rotationVars, budgetVars, chainVars, memoVars, arrived, sessionVars, joinVars, updateVars, loginVars>>

(* Session.  A person acts on one tab and the other polls.  After the      *)
(* session was ended, an answer lost or a session written back only what   *)
(* had begun on the first tab is finished.                                 *)
SessionOver == row.ended \/ TRUE \in {causes.left, causes.lost, causes.replaced}

Begins(t) == \E c \in Signed!Call : tabs[t].call[c] = Signed!NoCall /\ tabs'[t].call[c] # Signed!NoCall

SessionBounds ==
  /\ row'.expired # row.expired => row'.expired = row.last /\ ~SessionOver
  /\ tabs'[t2].call["action"] = Signed!NoCall
  /\ SessionOver => tabs'[t2] = tabs[t2] /\ ~Begins(t1) /\ row' = row

SessionMoves ==
  /\ part = "session"
  /\ Signed!Next /\ SessionBounds
  /\ UNCHANGED <<part, intakeVars, rotationVars, budgetVars, chainVars, memoVars, arrived, houseVars, joinVars, updateVars, loginVars>>

(* Joining.  One thing at most goes wrong, and then the key is not changed *)
(* as well; the list is looked at when it has news, and an application is  *)
(* closed with an answer in hand.                                          *)
Wrong(g) == Cardinality(g.expired) + Cardinality({l \in Leader : g.rows[l].key = "other"})
              + (IF g.owned THEN 0 ELSE 1)

Unjudged == {l \in Leader : group.rows[l].proof # 0 /\ inviter.verdicts[l] = "none"}

JoinBounds ==
  /\ Wrong(group') + group'.epoch <= 2
  /\ Wrong(group') > Wrong(group) => \E l \in Leader : invited[l].at \notin {"out", "heard"}
  /\ inviter'.check.at = "listed" /\ inviter'.check # inviter.check =>
       inviter.check.at = "idle" /\ (inviter.shown # group.epoch \/ Unjudged # {})
  /\ inviter'.shown < inviter.shown => inviter.call.at = "created"
  /\ \A l \in Leader :
       /\ invited[l].at = "in" => invited'[l].at = "in"
       /\ invited'[l].at = "half" /\ invited[l].at # "half" => Wrong(group) = 0
       /\ inviter'.pins[l] # inviter.pins[l] /\ inviter'.verdicts = inviter.verdicts =>
            group.rows[l].proof = 1 /\ Wrong(group) = 0

JoinMoves ==
  /\ part = "joining"
  /\ Joins!Next /\ JoinBounds
  /\ UNCHANGED <<part, intakeVars, rotationVars, budgetVars, chainVars, memoVars, arrived, houseVars, sessionVars, updateVars, loginVars>>

(* Updates.  Nothing of it needs a bound.                                  *)
UpdateMoves ==
  /\ part = "update"
  /\ Update!Next
  /\ UNCHANGED <<part, intakeVars, rotationVars, budgetVars, chainVars, memoVars, arrived, houseVars, sessionVars, joinVars, loginVars>>

(* Login.  Its limits are its bounds: five minutes are one step of the     *)
(* clock, an hour is two.                                                  *)
LoginMoves ==
  /\ part = "login"
  /\ Signing!Next
  /\ UNCHANGED <<part, intakeVars, rotationVars, budgetVars, chainVars, memoVars, arrived, houseVars, sessionVars, joinVars, updateVars>>

MCNext ==
  \/ IntakeMoves \/ RotationMoves \/ BudgetMoves \/ ChainMoves
  \/ MemoMoves \/ GateMoves \/ HouseMoves \/ SessionMoves \/ JoinMoves \/ UpdateMoves \/ LoginMoves

MCSpec == MCInit /\ [][MCNext]_allVars

-----------------------------------------------------------------------------
(* The properties of the parts, under one name each; they are stated with  *)
(* their meaning where the parts are, and looked at where the part moves.  *)

(* Every part keeps its types, bounds included.                            *)
PartsTypeOK ==
  CASE part = "intake" -> TypeOK
    [] part = "rotation" -> Rotation!TypeOK
    [] part = "budget" -> Budget!TypeOK
    [] part = "chain" -> Chain!TypeOK
    [] part = "memo" -> Memo!TypeOK
    [] part = "gate" -> Gate!TypeOK
    [] part = "household" -> House!TypeOK
    [] part = "session" -> Signed!TypeOK
    [] part = "joining" -> Joins!TypeOK
    [] part = "update" -> Update!TypeOK
    [] part = "login" -> Signing!TypeOK

(* Whatever is carried over from one epoch to the next happens in one      *)
(* step of AtomicRotation (rotation.ts 374 to 540, controller.ts 1454).    *)
RotationIsAtomic == Rotation!RotationIsAtomic

(* A cut or a hole becomes lawful only with a person's consent             *)
(* (rotation.ts 322 to 400).                                               *)
CutsAreConsented == Rotation!CutsAreConsented

(* What the person was told is saved stays in the document, a screen with  *)
(* the document's revision shows the document (App.tsx, indexed-db.ts,     *)
(* createBudgetJournalWriter), and what was being typed when an update was *)
(* asked for is not under it (update-policy.ts, UpdatePrompt.tsx).         *)
EnteredIsKept ==
  CASE part = "budget" -> Budget!SavedIsKept /\ Budget!ShownIsStored
    [] part = "update" -> Update!InputOutlastsUpdates
    [] OTHER -> TRUE

(* Checkpoints raise no alarm over a list that is whole, and what the      *)
(* server loses of what was read is reported (checkpoint.ts, intake.ts).   *)
AlarmsAreRight == part = "intake" => NoFalseAlarm /\ LossReported

(* A new epoch is accepted along confirmed links, over gaps, and aloud     *)
(* where that fails (epoch-chain.ts, epoch-intake.ts).                     *)
EpochsAreConfirmed == part = "chain" => Chain!EpochsAreConfirmed

(* A snapshot of the journal answers as it was (journal.ts 1215 to 1562).  *)
SnapshotsKeep == part = "memo" => Memo!SnapshotsKeep

(* Whatever part of the journal is here, what is shown of it is a budget   *)
(* the domain accepts, and the rest is named (journal.ts 489 to 1212).     *)
GateShowsWholeBudgets == part = "gate" => Gate!GateShowsWholeBudgets

(* What a person saves is a budget the domain accepts, in order            *)
(* (operations/model.ts, planning/model.ts, rollover.ts, import/plan.ts).  *)
BudgetStaysWhole == part = "household" => House!BudgetStaysWhole

(* Figures agree, envelopes carry on, a bank's row counts once             *)
(* (calculate.ts, rollover.ts, import/plan.ts).                            *)
MoneyIsAccounted == part = "household" => House!MoneyIsAccounted

(* The device stays signed in while nobody ends that (controller.ts 842 to *)
(* 912), and what a sign-in opens it opens on its own proof and while it   *)
(* lasts (routes/auth.ts, account.ts, context.ts).                         *)
SessionsAreSound ==
  CASE part = "session" -> Signed!SessionGoesOn
    [] part = "login" -> Signing!AccessIsProven
    [] OTHER -> TRUE

(* Whoever joins is vouched for in both directions (controller.ts 315 to   *)
(* 825 and 1247 to 1309, invites.ts 175 to 387).                           *)
JoinersAreVouchedFor == part = "joining" => Joins!JoinersAreVouchedFor

(* What is saved can be sent to the family as it is (features/family/      *)
(* journal.ts, codec.ts).                                                  *)
WritesTravel == House!WritesTravel

(* "Signed out for no reason at all" (controller.ts 873 to 880).           *)
SignedOutForAReason == part = "session" => Signed!SignedOutForAReason

(* "The first write sends the whole state" (controller.ts, createFamily).  *)
FirstWriteSeeds == part = "budget" => Budget!FirstWriteSeeds
=============================================================================
