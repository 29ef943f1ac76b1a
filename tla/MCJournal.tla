----------------------------- MODULE MCJournal ------------------------------
(***************************************************************************)
(* A small family for TLC: digests in an order of their own, two contents  *)
(* that share one operation identifier.  As many operations are written as *)
(* the skew allows; the fourth identifier lets the devices write them all. *)
(***************************************************************************)
EXTENDS Journal

CONSTANTS d1, d2, x, k1, u1, u2, u3, u4, shared

MCDigest == [u \in Uid |-> CASE u = u1 -> 3 [] u = u2 -> 1 [] u = u3 -> 4
                             [] OTHER -> 2]

MCOpIdOf == [u \in Uid |-> IF u \in {u1, u2} THEN shared ELSE u]

Bounds ==
  /\ Cardinality(written') <= Skew
  /\ (\E o \in written' : o.uid = u4) => Honest'

MCNext == Next /\ Bounds

MCSpec ==
  /\ Init /\ [][MCNext]_vars
  /\ \A d \in Device : WF_vars(\E o \in written \ seen[d] : Receive(d, o))
=============================================================================
