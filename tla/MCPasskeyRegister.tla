-------------------------- MODULE MCPasskeyRegister --------------------------
(* PasskeyRegister on small instances.                                     *)
EXTENDS PasskeyRegister, TLC

(* Handlers are interchangeable.                                           *)
HandlerSymmetry == Permutations(Handler)
=============================================================================
