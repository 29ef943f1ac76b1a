---------------------------- MODULE MCSyncServer ----------------------------
(* A small family: the owner's devices o1 and o2, another person's m1.     *)
EXTENDS SyncServer, TLC

CONSTANTS owner, other, o1, o2, m1, x, y, i1, i2

MCAccountOf == [d \in Device |-> IF d = m1 THEN other ELSE owner]

(* The owner's devices are alike, and so are the operations.               *)
MCSymmetry == Permutations({o1, o2}) \cup Permutations({x, y})
=============================================================================
