------------------------------ MODULE MCOtpLogin ------------------------------
(* OtpLogin on small instances.                                            *)
EXTENDS OtpLogin, TLC

(* Handlers are interchangeable.                                           *)
HandlerSymmetry == Permutations(Handler)
=============================================================================
