-------------------------- MODULE MCRefreshRotation --------------------------
(* RefreshRotation on small instances.                                     *)
EXTENDS RefreshRotation, TLC

CONSTANT c1

(* A client whose AllowedAudiences has neither of the two.                 *)
MCRestricted == {c1} \X Audience

(* Handlers are interchangeable.                                           *)
HandlerSymmetry == Permutations(Handler)
=============================================================================
