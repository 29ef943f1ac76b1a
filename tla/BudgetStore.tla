---------------------------- MODULE BudgetStore ----------------------------
(***************************************************************************)
(* The budget of one device, open in several tabs over one database: the   *)
(* compare-and-set document (packages/storage/src/indexed-db.ts), the      *)
(* writer queue of the screen (App.tsx), the journal that takes its place  *)
(* once there is a family (createBudgetJournalWriter of                    *)
(* family/controller.ts, enqueue and pull of sync-client/src/engine.ts,    *)
(* budgetJournalDrafts of family/journal.ts), onboarding, restore, leaving *)
(* and deleting everything.                                                *)
(* A budget is the set of its entities; an edit of one is another entity   *)
(* here, for Journal has the registers.  One IndexedDB transaction and     *)
(* what its answer runs at once are one step; a compare-and-set that is    *)
(* lost in the journal's loops is tried again, so only the attempt that    *)
(* wins is a step.  A journal is ready, can be shown, once it holds a      *)
(* budget and its activation.                                              *)
(***************************************************************************)
EXTENDS Naturals

CONSTANTS
  Tab,
  Item,          \* entities the person may record
  Foreign,       \* entities the others of the family may send
  MaxRevision,   \* bound: writes of the document
  MaxFamilies    \* bound: families founded or joined

VARIABLES
  doc,           \* the active document: revision and value
  family,        \* the family's records: key, origin of the journal, journal
  tab,           \* per tab: what is on the screen
  call,          \* per tab: the write in progress
  pull,          \* per tab: the delivery in progress
  past           \* history

vars == <<doc, family, tab, call, pull, past>>

-----------------------------------------------------------------------------
NoDocument == [rev |-> 0, value |-> {}]          \* revision 0 is null

NoJournal == [kept |-> FALSE, live |-> {}, gone |-> {}, ready |-> FALSE]

NoFamily == [key |-> 0, origin |-> "none", journal |-> NoJournal]

NewTab == [view |-> "loading", shown |-> {}, rev |-> 0, asked |-> FALSE, member |-> FALSE]

NoCall == [at |-> "idle", add |-> {}, drop |-> {}, previous |-> {}, expected |-> 0,
           seed |-> FALSE, key |-> 0]

NoPull == [at |-> "idle", add |-> {}, ready |-> FALSE, key |-> 0]

(* saved: reported saved and not taken back.  aside: a document was saved  *)
(* past a family's journal, by an engine that outlived its family, or by a *)
(* seed that speaks for an older document.  wrote: the founder's journal   *)
(* was written.                                                            *)
Init ==
  /\ doc = NoDocument
  /\ family = NoFamily
  /\ tab = [t \in Tab |-> NewTab]
  /\ call = [t \in Tab |-> NoCall]
  /\ pull = [t \in Tab |-> NoPull]
  /\ past = [writes |-> 0, saved |-> {}, aside |-> FALSE, wrote |-> FALSE,
             families |-> 0, drawn |-> {}]

May == past.writes < MaxRevision                  \* a bound

(* makeDocument: every write draws a revision of its own.                  *)
Document(value) == [rev |-> past.writes + 1, value |-> value]

(* Identifiers are random: no two tabs ever draw the same.                 *)
Fresh == Item \ past.drawn

Shows(t, d) == tab' = [tab EXCEPT ![t].shown = d.value, ![t].rev = d.rev]

Ends(t) == call' = [call EXCEPT ![t] = NoCall]

Goes(t, at) == call' = [call EXCEPT ![t].at = at]

Candidate(c) == (c.previous \ c.drop) \cup c.add

(* An engine is built from the session in memory and the key on the disk.  *)
Engine(t) == tab[t].member /\ family.key # 0

-----------------------------------------------------------------------------
(* Opening a tab.                                                          *)

(* The document decides between the budget and onboarding.                 *)
Load(t) ==
  /\ tab[t].view = "loading"
  /\ tab' = [tab EXCEPT ![t].view = IF doc = NoDocument THEN "empty" ELSE "ready",
                        ![t].shown = doc.value, ![t].rev = doc.rev]
  /\ UNCHANGED <<doc, family, call, pull, past>>

(* The session is read once at the start, and by the tab that founds or    *)
(* joins a family when it renders again.                                   *)
ReadSession(t) ==
  /\ ~tab[t].asked
  /\ tab' = [tab EXCEPT ![t].asked = TRUE, ![t].member = family.key # 0]
  /\ UNCHANGED <<doc, family, call, pull, past>>

(* What was in memory is gone.                                             *)
Reopen(t) ==
  /\ tab[t] # NewTab
  /\ tab' = [tab EXCEPT ![t] = NewTab]
  /\ Ends(t)
  /\ pull' = [pull EXCEPT ![t] = NoPull]
  /\ UNCHANGED <<doc, family, past>>

(* createIfAbsent: whoever is first; the other is shown what is there.     *)
Created(value) == IF doc = NoDocument THEN Document(value) ELSE doc

(* persistCompletedOnboarding: published with the revision null.           *)
Onboard(t, item) ==
  /\ tab[t].view = "empty" /\ May
  /\ doc' = Created({item})
  /\ tab' = [tab EXCEPT ![t].view = "ready", ![t].shown = doc'.value, ![t].rev = 0]
  /\ past' = IF doc' = doc THEN past
             ELSE [past EXCEPT !.writes = @ + 1, !.saved = @ \cup {item},
                               !.drawn = @ \cup {item}]
  /\ UNCHANGED <<family, call, pull>>

-----------------------------------------------------------------------------
(* The writer queue of the screen: one write at a time.                    *)

(* The change is computed from what is shown, and what is shown does not   *)
(* move meanwhile.                                                         *)
Prepared(t, c) ==
  [c EXCEPT !.at = IF Engine(t) THEN "open" ELSE "cas",
            !.previous = tab[t].shown, !.expected = tab[t].rev, !.key = family.key]

(* apply.  Without a revision the document is looked at first.             *)
Apply(t, add, drop) ==
  /\ tab[t].view = "ready" /\ call[t] = NoCall /\ May
  /\ LET c == [NoCall EXCEPT !.add = add, !.drop = drop]
     IN call' = [call EXCEPT ![t] = IF tab[t].rev = 0 THEN [c EXCEPT !.at = "check"]
                                    ELSE Prepared(t, c)]
  /\ past' = [past EXCEPT !.drawn = @ \cup add]
  /\ UNCHANGED <<doc, family, tab, pull>>

SameBudget_Unasked(t) == doc # NoDocument

SameBudget(t) == doc # NoDocument /\ doc.value = tab[t].shown

(* What another tab has saved meanwhile is shown and the change refused.   *)
Check(t) ==
  /\ call[t].at = "check"
  /\ IF SameBudget(t)
     THEN /\ tab' = [tab EXCEPT ![t].rev = doc.rev]
          /\ call' = [call EXCEPT ![t] = [Prepared(t, call[t]) EXCEPT !.expected = doc.rev]]
     ELSE /\ Ends(t)
          /\ IF doc = NoDocument THEN UNCHANGED tab ELSE Shows(t, doc)
  /\ UNCHANGED <<doc, family, pull, past>>

(* saveIfRevision; a conflict shows the winner, if there is one.           *)
Save(t) ==
  LET c == call[t]
  IN /\ c.at = "cas"
     /\ Ends(t)
     /\ IF doc # NoDocument /\ doc.rev = c.expected
        THEN /\ May
             /\ doc' = Document(Candidate(c))
             /\ Shows(t, doc')
             /\ past' = [past EXCEPT !.writes = @ + 1, !.saved = (@ \ c.drop) \cup c.add,
                                     !.aside = @ \/ family.key # 0]
        ELSE /\ IF doc = NoDocument THEN UNCHANGED tab ELSE Shows(t, doc)
             /\ UNCHANGED <<doc, past>>
     /\ UNCHANGED <<family, pull>>

(* The founder's budget is the family's, as long as there is no journal.   *)
Seeds(c) == family.origin = "local" /\ ~family.journal.kept

(* createBudgetJournalWriter: whether this write is the seed is read from  *)
(* the disk; a change that changes nothing takes the old way.              *)
Open(t) ==
  LET c == call[t]
      quiet == ~Seeds(c) /\ Candidate(c) = c.previous
  IN /\ c.at = "open"
     /\ call' = [call EXCEPT ![t].at = IF quiet THEN "cas" ELSE "enqueue",
                             ![t].seed = Seeds(c)]
     /\ UNCHANGED <<doc, family, tab, pull, past>>

Deleted(c) == IF c.seed THEN {} ELSE c.previous \ Candidate(c)

Recorded(c) == IF c.seed THEN Candidate(c) ELSE Candidate(c) \ c.previous

(* applyOperations: a deletion is final.                                   *)
Folded(journal, add, drop, activated) ==
  [kept |-> TRUE, live |-> (journal.live \cup add) \ (journal.gone \cup drop),
   gone |-> journal.gone \cup drop, ready |-> journal.ready \/ activated]

(* commit: the document follows the journal when that can be shown.        *)
Materialised(journal) ==
  Document(IF journal.ready \/ doc = NoDocument THEN journal.live ELSE doc.value)

(* enqueue: the operations are applied to the journal as it is, and        *)
(* document, journal and queue are one transaction.                        *)
Enqueue(t) ==
  LET c == call[t]
      journal == Folded(family.journal, Recorded(c), Deleted(c), c.seed)
  IN /\ c.at = "enqueue" /\ May
     /\ family' = [family EXCEPT !.journal = journal]
     /\ doc' = Materialised(journal)
     /\ past' = [past EXCEPT !.writes = @ + 1, !.wrote = @ \/ family.origin = "local",
                             !.aside = \/ @ \/ c.key # family.key
                                       \/ c.seed /\ c.expected # doc.rev,
                   !.saved = (@ \ (IF c.seed THEN c.drop ELSE Deleted(c)))
                                \cup (c.add \cap doc'.value)]
     /\ Goes(t, "reread")
     /\ UNCHANGED <<tab, pull>>

Reported_Intended(t) == [rev |-> doc.rev, value |-> Candidate(call[t])]

(* What is shown is what is on the disk, not what was meant.               *)
Reported(t) == doc

Reread(t) ==
  /\ call[t].at = "reread"
  /\ Shows(t, Reported(t))
  /\ Ends(t)
  /\ UNCHANGED <<doc, family, pull, past>>

(* Four lost compare-and-sets, a storage error: the write is refused.      *)
Refuse(t) ==
  /\ call[t].at \in {"check", "cas", "open", "enqueue"}
  /\ Ends(t)
  /\ UNCHANGED <<doc, family, tab, pull, past>>

-----------------------------------------------------------------------------
(* Receiving.                                                              *)

(* A page of the others' operations is on its way to an engine.            *)
Fetch(t, add, ready) ==
  /\ pull[t] = NoPull /\ Engine(t)
  /\ ready => family.origin = "family"
  /\ pull' = [pull EXCEPT ![t] = [at |-> "fold", add |-> add, ready |-> ready,
                                     key |-> family.key]]
  /\ UNCHANGED <<doc, family, tab, call, past>>

(* pull: the page, the journal and the document in one transaction.  The   *)
(* budget of a family that was joined takes the place of the person's own, *)
(* which is saved no longer.                                               *)
FoldPage(t) ==
  LET journal == Folded(family.journal, pull[t].add, {}, pull[t].ready)
  IN /\ pull[t].at = "fold" /\ May
     /\ family' = [family EXCEPT !.journal = journal]
     /\ doc' = Materialised(journal)
     /\ past' = [past EXCEPT !.writes = @ + 1, !.aside = @ \/ pull[t].key # family.key,
                   !.saved = IF journal.ready /\ ~family.journal.ready
                             THEN @ \cap journal.live ELSE @]
     /\ pull' = [pull EXCEPT ![t].at = "publish"]
     /\ UNCHANGED <<tab, call>>

(* Neither an application without a budget nor one that is writing is      *)
(* given another state under its hands.                                    *)
Unlocked(t) == tab[t].view = "ready" /\ call[t] = NoCall

(* refreshSyncState and publishRemoteBudget.                               *)
Publish(t) ==
  /\ pull[t].at = "publish"
  /\ IF Unlocked(t) /\ doc # NoDocument THEN Shows(t, doc) ELSE UNCHANGED tab
  /\ pull' = [pull EXCEPT ![t] = NoPull]
  /\ UNCHANGED <<doc, family, call, past>>

-----------------------------------------------------------------------------
(* Families come and go; everything is deleted.                            *)

MayHave == family.key = 0 /\ past.families < MaxFamilies

(* createFamily: key and origin are written, and the participant is put    *)
(* into the budget by an ordinary write, before or after the tab has       *)
(* rendered with its new session.                                          *)
Found(t, member) ==
  /\ MayHave /\ tab[t].view = "ready" /\ call[t] = NoCall /\ May
  /\ family' = [family EXCEPT !.key = past.families + 1, !.origin = "local"]
  /\ LET c == [NoCall EXCEPT !.add = {member}]
     IN call' = [call EXCEPT ![t] = IF tab[t].rev = 0 THEN [c EXCEPT !.at = "check"]
                                    ELSE Prepared(t, c)]
  /\ tab' = [tab EXCEPT ![t].asked = FALSE]
  /\ past' = [past EXCEPT !.families = @ + 1, !.wrote = FALSE, !.drawn = @ \cup {member}]
  /\ UNCHANGED <<doc, pull>>

(* joinFamilyByCode: the budget will come with the journal.                *)
Join(t) ==
  /\ MayHave /\ tab[t].view = "ready" /\ call[t] = NoCall
  /\ family' = [family EXCEPT !.key = past.families + 1, !.origin = "family"]
  /\ tab' = [tab EXCEPT ![t].asked = FALSE]
  /\ past' = [past EXCEPT !.families = @ + 1]
  /\ UNCHANGED <<doc, call, pull>>

(* forgetSession: the records go, the budget stays.                        *)
Leave(t) ==
  /\ Engine(t)
  /\ family' = NoFamily
  /\ tab' = [tab EXCEPT ![t].member = FALSE]
  /\ UNCHANGED <<doc, call, pull, past>>

(* clear and persistThenPublishEmpty: the database, then the screen.       *)
Clear(t) ==
  /\ tab[t].view = "ready"
  /\ doc' = NoDocument
  /\ family' = NoFamily
  /\ tab' = [tab EXCEPT ![t].view = "empty", ![t].shown = {}, ![t].rev = 0]
  /\ past' = [past EXCEPT !.saved = {}]
  /\ UNCHANGED <<call, pull>>

Next ==
  \E t \in Tab :
    \/ Load(t) \/ ReadSession(t) \/ Reopen(t)
    \/ \E i \in Fresh : Onboard(t, i) \/ Found(t, i) \/ Apply(t, {i}, {})
    \/ \E i \in tab[t].shown : Apply(t, {}, {i})
    \/ \E i \in past.drawn : Apply(t, {i}, Item \ {i})         \* a backup is restored
    \/ Check(t) \/ Save(t) \/ Open(t) \/ Enqueue(t) \/ Reread(t) \/ Refuse(t)
    \/ \E i \in Foreign, ready \in BOOLEAN : Fetch(t, {i}, ready)
    \/ FoldPage(t) \/ Publish(t)
    \/ Join(t) \/ Leave(t) \/ Clear(t)

Spec == Init /\ [][Next]_vars

-----------------------------------------------------------------------------
TypeOK ==
  /\ doc.rev \in 0 .. MaxRevision /\ doc.value \subseteq Item \cup Foreign
  /\ family.journal.live \subseteq Item \cup Foreign
  /\ family.journal.live \cap family.journal.gone = {}
  /\ \A t \in Tab : tab[t].shown \subseteq Item \cup Foreign /\ tab[t].rev \in 0 .. MaxRevision

(* What the person was told is saved is in the document, whatever the      *)
(* other tabs and the rounds do, until it is removed, replaced by a        *)
(* family's budget or deleted with everything.  Left out: a tab that does  *)
(* not know of the family yet saves past its journal, and the journal's    *)
(* next fold loses that (controller.ts 437 and 946).                       *)
SavedIsKept == ~past.aside => past.saved \subseteq doc.value

(* A screen that holds the document's revision shows the document.         *)
ShownIsStored == \A t \in Tab :
  tab[t].view = "ready" /\ tab[t].rev # 0 /\ tab[t].rev = doc.rev
    => tab[t].shown = doc.value

(* "The first write sends the whole state into the journal" (createFamily, *)
(* controller.ts 1562): once the founder has written, the journal has a    *)
(* budget to show.                                                         *)
FirstWriteSeeds == past.wrote /\ family.origin = "local" => family.journal.ready
=============================================================================
