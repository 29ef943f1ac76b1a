--------------------------- MODULE AtomicRotation ---------------------------
(***************************************************************************)
(* What a change of the family key promises (docs/SYNC_ARCHITECTURE.md     *)
(* 5.5), whatever devices, pages, batches and failures stand behind it:    *)
(* the family goes to a higher epoch in one step, and what could be read   *)
(* in the old one can be read in the new one.                              *)
(***************************************************************************)
EXTENDS Naturals

CONSTANT Op

VARIABLES
  epoch,         \* the epoch in force
  journal        \* the operations that open with its key

vars == <<epoch, journal>>

Init == epoch = 1 /\ journal = {}

Write ==
  epoch' = epoch /\ \E more \in SUBSET Op : journal' = journal \cup more

(* Numbered rows get lost or spoilt on the server, between rotations or    *)
(* during one.                                                             *)
Harm == epoch' = epoch /\ journal' \subseteq journal

Rotate ==
  /\ epoch' \in Nat /\ epoch' > epoch
  /\ journal' \subseteq Op /\ journal \subseteq journal'

Next == Write \/ Harm \/ Rotate

Spec == Init /\ [][Next]_vars
=============================================================================
