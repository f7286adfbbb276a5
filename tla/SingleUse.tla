------------------------------ MODULE SingleUse ------------------------------
(***************************************************************************)
(* What a single-use credential promises, however its check is built: a    *)
(* request claims an item before it does anything with it, nobody else has *)
(* it meanwhile, and an item that was used is never claimed again, unless  *)
(* clearing it away failed.                                                *)
(*                                                                         *)
(* OtpLogin implements this for one-time passwords and PasskeyLogin for    *)
(* login challenges.                                                       *)
(***************************************************************************)
CONSTANTS
    Item,    \* what can be used once
    Holder,  \* who can claim an item
    None     \* what a Holder without a claim has

VARIABLES
    claimed,  \* the item each Holder has claimed
    used,     \* the items that were used
    leaked    \* the items that were not cleared away

vars == <<claimed, used, leaked>>

Init ==
    /\ claimed = [h \in Holder |-> None]
    /\ used = {}
    /\ leaked = {}

Claim(h, i) ==
    /\ claimed[h] = None
    /\ \A g \in Holder : claimed[g] # i
    /\ i \notin used \ leaked
    /\ claimed' = [claimed EXCEPT ![h] = i]
    /\ UNCHANGED <<used, leaked>>

(* The request ends in an error or a crash.                                *)
GiveUp(h) ==
    /\ claimed[h] # None
    /\ claimed' = [claimed EXCEPT ![h] = None]
    /\ UNCHANGED <<used, leaked>>

Leak(h) ==
    /\ claimed[h] # None
    /\ leaked' = leaked \cup {claimed[h]}
    /\ UNCHANGED <<claimed, used>>

Use(h) ==
    /\ claimed[h] # None
    /\ used' = used \cup {claimed[h]}
    /\ claimed' = [claimed EXCEPT ![h] = None]
    /\ UNCHANGED leaked

Next ==
    \E h \in Holder :
        \/ \E i \in Item : Claim(h, i)
        \/ GiveUp(h)
        \/ Leak(h)
        \/ Use(h)

Spec == Init /\ [][Next]_vars
=============================================================================
