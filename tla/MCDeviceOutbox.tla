--------------------------- MODULE MCDeviceOutbox ---------------------------
(* A device with up to two concurrent writes; writes and operations are    *)
(* interchangeable.                                                        *)
EXTENDS DeviceOutbox, TLC

Symmetry == Permutations(Writer) \cup Permutations(Op)
=============================================================================
