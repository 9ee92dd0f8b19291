---------------------------- MODULE MCDaqRuntime ----------------------------
(* DaqRuntime for TLC: the devices are interchangeable in every safety check. *)
EXTENDS DaqRuntime, TLC

Symmetry == Permutations(Devices)
=============================================================================
