---------------------------- MODULE MCKeyRotation ----------------------------
(* KeyRotation on small instances.                                         *)
EXTENDS KeyRotation, TLC

(* Processes are interchangeable.                                          *)
ServerSymmetry == Permutations(Server)
=============================================================================
