------------------------------- MODULE KeyRing -------------------------------
(***************************************************************************)
(* What a process promises about its signing keys: one active key, and the *)
(* key that was active before it, until the next change or a restart.  The *)
(* pair changes as a whole.                                                *)
(*                                                                         *)
(* KeySlots implements this with two pointers that are stored one after    *)
(* the other, and every process of KeyRotation does.                       *)
(***************************************************************************)
CONSTANTS
    Key,  \* the keys
    Nil   \* the previous key of a process that has had only one

VARIABLES
    active,   \* the key that signs
    previous  \* the key that signed before

vars == <<active, previous>>

Init == active \in Key /\ previous = Nil

Replace(k) ==
    /\ k # active
    /\ previous' = active
    /\ active' = k

Restart(k) ==
    /\ previous' = Nil
    /\ active' = k

Next == \E k \in Key : Replace(k) \/ Restart(k)

Spec == Init /\ [][Next]_vars
=============================================================================
