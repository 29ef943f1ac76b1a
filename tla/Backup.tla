------------------------------- MODULE Backup -------------------------------
(***************************************************************************)
(* A copy of the budget as a file (packages/storage/src/backup.ts,         *)
(* apps/web-pwa/src/backup.ts).  A file holds a payload and its checksum,  *)
(* which stands for the payload it was taken of; files of the first format *)
(* had none.  Both making and reading a copy end in one preparation of the *)
(* state.  Formats, texts, sizes in bytes and the envelope are left out.   *)
(***************************************************************************)
EXTENDS Calculation

CONSTANT BackupLimit                \* BACKUP_LIMITS, by kind

Shaped(s) ==
  /\ \A kind \in DOMAIN BackupLimit \ {"inBudget"} : Cardinality(Of(s, kind)) <= BackupLimit[kind]
  /\ \A b \in Of(s, "budget") : Cardinality(Lines(s, b.id)) <= BackupLimit.inBudget

(* clearUnknownMemberAttribution: the operation stays, its label goes.     *)
Cleared(s) ==
  LET Clear(e) == IF e.kind = "transaction" /\ ~ValidLabel(s, e) THEN [e EXCEPT !.member = 0] ELSE e
  IN [s EXCEPT !.entities = {Clear(e) : e \in s.entities}]

(* prepareBudgetState returns Cleared(s) and does not throw.               *)
Prepares(s) ==
  /\ Shaped(s)
  /\ LET state == Cleared(s)
     IN /\ Known(state, "budget", state.active)
        /\ \A b \in Of(state, "budget") : ValidBudget(state, b)
        /\ \A t \in Of(state, "transaction") : t.sort = "income" /\ t.category # 0 =>
             Known(state, "category", t.category) /\ The(state, "category", t.category).side = "income"
        /\ Plans(state)
        /\ \A t \in Of(state, "transaction") : ValidLabel(state, t)

(* genericPayloadGuard: participants share the name space here.            *)
NoIdTwice(s) == Cardinality({e.id : e \in s.entities}) = Cardinality(s.entities)

(* createBudgetBackup *)
MayCopy(s) == Prepares(s) /\ NoIdTwice(Cleared(s))

CopyOf(s) == [format |-> 2, payload |-> Cleared(s), sum |-> Cleared(s)]

(* parseBackup *)
Reads(file) ==
  /\ file.format \in {1, 2}
  /\ NoIdTwice(file.payload)
  /\ file.format = 2 => file.sum = file.payload
  /\ Prepares(file.payload)

Restored(file) == Cleared(file.payload)

(* A copy of what is saved can be made, is read again, and is what was     *)
(* saved, whatever builds and participants came before.                    *)
ComesBack(s) == MayCopy(s) /\ Reads(CopyOf(s)) /\ Restored(CopyOf(s)) = s
=============================================================================
