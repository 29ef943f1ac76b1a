------------------------------ MODULE Updates ------------------------------
(***************************************************************************)
(* A new version of the application on one open page (update-policy.ts,    *)
(* UpdatePrompt.tsx).  The worker of the new version waits until it is     *)
(* told to take over, and then the page is loaded again.  It is told so    *)
(* silently while nobody is busy and nothing is typed, at the start or on  *)
(* return to the page, and otherwise when a person asks.                   *)
(***************************************************************************)
EXTENDS FiniteSets

VARIABLES
  policy,   \* createAutomaticUpdates
  prompt,   \* UpdatePrompt and its request gate; flight: who awaits the attempt
  page      \* what is seen of the page and of the worker, and the input

vars == <<policy, prompt, page>>

NewPolicy == [tracked |-> FALSE, recent |-> FALSE, quiet |-> TRUE, waiting |-> FALSE, applying |-> FALSE]

NewPrompt == [mounted |-> FALSE, pending |-> FALSE, phase |-> "idle", need |-> FALSE,
              silent |-> FALSE, blocked |-> FALSE, flight |-> {}]

NewPage == [visible |-> TRUE, asked |-> FALSE, draft |-> FALSE, late |-> FALSE]

Init == policy = NewPolicy /\ prompt = NewPrompt /\ page = NewPage

-----------------------------------------------------------------------------
(* requestUpdate: one attempt at a time, and everybody awaits that one.    *)
Requested(pr, who) ==
  [pr EXCEPT !.flight = @ \cup {who}, !.phase = IF pr.flight = {} THEN "updating" ELSE @]

(* apply: before the first effect it is put off until then.                *)
AppliedTo(pr) ==
  IF pr.mounted THEN Requested([pr EXCEPT !.silent = TRUE], "silent") ELSE [pr EXCEPT !.pending = TRUE]

Safe(po) == po.waiting /\ ~po.applying /\ po.quiet /\ ~page.draft

ApplyIfSafe(po, pr) ==
  IF Safe(po)
  THEN policy' = [po EXCEPT !.applying = TRUE] /\ prompt' = AppliedTo(pr)
  ELSE policy' = po /\ prompt' = pr

(* check: asks for a new version, twice in half a minute at most once.     *)
Checks(po) == po.tracked /\ ~po.recent

Checked(po) == [po EXCEPT !.recent = @ \/ Checks(po)]

Mount ==
  /\ ~prompt.mounted
  /\ LET mounted == [prompt EXCEPT !.mounted = TRUE, !.pending = FALSE]
     IN prompt' = IF prompt.pending THEN AppliedTo(mounted) ELSE mounted
  /\ UNCHANGED <<policy, page>>

Track ==
  /\ ~policy.tracked
  /\ policy' = Checked([policy EXCEPT !.tracked = TRUE])
  /\ page' = [page EXCEPT !.asked = TRUE]
  /\ UNCHANGED prompt

HalfMinute == policy.recent /\ policy' = [policy EXCEPT !.recent = FALSE] /\ UNCHANGED <<prompt, page>>

(* The worker of a new version, which was asked about, waits.              *)
UpdateWaiting ==
  /\ page.asked
  /\ ApplyIfSafe([policy EXCEPT !.waiting = TRUE], [prompt EXCEPT !.need = TRUE])
  /\ page' = [page EXCEPT !.asked = FALSE]

Hide == page.visible /\ page' = [page EXCEPT !.visible = FALSE] /\ UNCHANGED <<policy, prompt>>

(* visibilitychange and pageshow.                                          *)
Resume ==
  /\ prompt.mounted
  /\ LET quiet == [policy EXCEPT !.quiet = TRUE]
     IN /\ ApplyIfSafe(Checked(quiet), prompt)
        /\ page' = [page EXCEPT !.visible = TRUE, !.asked = @ \/ Checks(quiet)]

(* The first touch ends the silence; it may begin a draft.                 *)
Touch(types) ==
  /\ prompt.mounted /\ page.visible
  /\ policy' = [policy EXCEPT !.quiet = FALSE]
  /\ page' = IF types /\ ~page.draft
             THEN [page EXCEPT !.draft = TRUE, !.late = prompt.flight # {} \/ prompt.phase = "reloading"]
             ELSE page
  /\ UNCHANGED prompt

(* A draft is saved or emptied.                                            *)
Finish ==
  /\ page.visible /\ page.draft
  /\ policy' = [policy EXCEPT !.quiet = FALSE]
  /\ page' = [page EXCEPT !.draft = FALSE, !.late = FALSE]
  /\ prompt' = [prompt EXCEPT !.blocked = FALSE]

-----------------------------------------------------------------------------
(* The prompt, while no silent attempt hides it.                           *)
Offered ==
  /\ prompt.mounted /\ prompt.need /\ ~prompt.silent /\ page.visible
  /\ prompt.phase \notin {"updating", "reloading"}

Update ==
  /\ Offered
  /\ prompt' = IF page.draft THEN [prompt EXCEPT !.blocked = TRUE]
               ELSE Requested([prompt EXCEPT !.blocked = FALSE], "person")
  /\ policy' = [policy EXCEPT !.quiet = FALSE]
  /\ UNCHANGED page

Later ==
  /\ Offered
  /\ prompt' = [prompt EXCEPT !.need = FALSE]
  /\ policy' = [policy EXCEPT !.quiet = FALSE]
  /\ UNCHANGED page

(* The answer of updateServiceWorker: the worker takes over, or it failed. *)
Taken ==
  /\ prompt.flight # {}
  /\ prompt' = [prompt EXCEPT !.flight = {}, !.phase = "reloading"]
  /\ UNCHANGED <<policy, page>>

(* After a silent attempt the person is asked as if nothing had been tried.*)
Failed ==
  /\ prompt.flight # {}
  /\ LET told == [prompt EXCEPT !.flight = {}, !.phase = "failed"]
     IN IF "silent" \in prompt.flight
        THEN /\ prompt' = [told EXCEPT !.silent = FALSE, !.phase = "idle"]
             /\ policy' = [policy EXCEPT !.applying = FALSE]
        ELSE prompt' = told /\ UNCHANGED policy
  /\ UNCHANGED page

(* The page is loaded again, by the worker or by the person; a draft is    *)
(* given up only if the person says so (beforeunload).                     *)
Reload ==
  /\ prompt.mounted
  /\ policy' = NewPolicy /\ prompt' = NewPrompt /\ page' = NewPage

Next ==
  \/ Mount \/ Track \/ HalfMinute \/ UpdateWaiting \/ Hide \/ Resume
  \/ \E types \in BOOLEAN : Touch(types)
  \/ Finish \/ Update \/ Later \/ Taken \/ Failed \/ Reload

-----------------------------------------------------------------------------
(* Phases, flags and who may await an attempt.                             *)
TypeOK ==
  /\ policy \in [tracked : BOOLEAN, recent : BOOLEAN, quiet : BOOLEAN, waiting : BOOLEAN, applying : BOOLEAN]
  /\ prompt \in [mounted : BOOLEAN, pending : BOOLEAN, phase : {"idle", "updating", "reloading", "failed"},
                 need : BOOLEAN, silent : BOOLEAN, blocked : BOOLEAN, flight : SUBSET {"silent", "person"}]
  /\ page \in [visible : BOOLEAN, asked : BOOLEAN, draft : BOOLEAN, late : BOOLEAN]

(* A page that is about to be loaded again holds no draft but one begun    *)
(* after the new version was told to take over (applyIfSafe, update).      *)
DraftsOutlast ==
  (prompt.pending \/ prompt.flight # {} \/ prompt.phase = "reloading") /\ page.draft => page.late

(* The prompt is hidden, and the next silent attempt held back, only while *)
(* an attempt is under way or has been answered (applySilently).           *)
NeverStuck ==
  /\ policy.applying => prompt.silent \/ prompt.pending
  /\ prompt.silent => policy.applying /\ ("silent" \in prompt.flight \/ prompt.phase = "reloading")

InputOutlastsUpdates == DraftsOutlast /\ NeverStuck
=============================================================================
