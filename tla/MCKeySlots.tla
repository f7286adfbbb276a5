----------------------------- MODULE MCKeySlots -----------------------------
(* KeySlots on small instances.                                            *)
EXTENDS KeySlots, TLC

(* Verifiers are interchangeable, and so are publishers.                   *)
SlotsSymmetry == Permutations(Verifier) \cup Permutations(Publisher)
=============================================================================
