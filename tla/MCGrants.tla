------------------------------ MODULE MCGrants ------------------------------
(* Grants on small instances.                                              *)
EXTENDS Grants, TLC

CONSTANTS c1, c2

(* Two versions: c1, which may have every scope, gets another secret and   *)
(* other audiences and loses its scopes; c2, which has none, loses its     *)
(* record.                                                                 *)
MCRegistry ==
    << (c1 :> [secret |-> 1, scopes |-> {"*"}, audiences |-> {"user"}, redirect |-> "yes"])
       @@ (c2 :> [secret |-> 1, scopes |-> {}, audiences |-> {}, redirect |-> "no"]),
       (c1 :> [secret |-> 2, scopes |-> {}, audiences |-> {"service", "user"},
               redirect |-> "yes"]) >>

(* Handlers are interchangeable.                                           *)
HandlerSymmetry == Permutations(Handler)
=============================================================================
