--------------------------- MODULE MCPasskeyLogin ---------------------------
(* PasskeyLogin on small instances.                                        *)
EXTENDS PasskeyLogin, TLC

(* Handlers are interchangeable.                                           *)
HandlerSymmetry == Permutations(Handler)
=============================================================================
