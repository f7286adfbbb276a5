----------------------------- MODULE KeyRotation -----------------------------
(***************************************************************************)
(* Rotation of the RS256 signing key across the processes of the service   *)
(* (cmd/public, cmd/private and their replicas).  Each process holds an    *)
(* active and a previous key (internal/jwt) and learns of a rotation when  *)
(* its own secretsmanager.Watch polls.  Module KeySlots has the steps of a *)
(* reload inside one process; here a reload is one step.                   *)
(*                                                                         *)
(* Keys are numbered in the order an operator uploads them.  Time is       *)
(* counted in ticks, with countdowns rather than a clock: nothing bounds   *)
(* how long the system runs.                                               *)
(***************************************************************************)
EXTENDS Integers

CONSTANTS
    Server,        \* processes that load the signing key
    TokenTTL,      \* life of the longest-lived token, the refresh token
    PollInterval,  \* keyRotationPollInterval
    Spacing,       \* ticks the operator leaves between two rotations
    MaxKey,        \* bound: the last key
    MaxFailed,     \* bound: polls that fail
    MaxRestarts    \* bound: processes that restart

ASSUME ServerAssumption == Server # {}

ASSUME TimeAssumption ==
    /\ TokenTTL \in Nat \ {0}
    /\ PollInterval \in Nat \ {0}
    /\ Spacing \in Nat \ {0}

ASSUME BoundsAssumption ==
    /\ MaxKey \in Nat \ {0}
    /\ MaxFailed \in Nat
    /\ MaxRestarts \in Nat

VARIABLES
    secret,    \* the key in Secrets Manager
    since,     \* ticks since the last rotation, Spacing at most
    active,    \* the active slot of each process
    previous,  \* the previous slot of each process, 0 when empty
    poll,      \* ticks to each process's next poll
    life,      \* ticks the longest-lived token of each key has left
    failed,    \* how many polls have failed
    restarts   \* how many processes have restarted

vars == <<secret, since, active, previous, poll, life, failed, restarts>>

-----------------------------------------------------------------------------
Key == 1..MaxKey

(* New: the active slot is filled, the previous one empty.                 *)
Init ==
    /\ secret = 1
    /\ since = Spacing
    /\ active = [s \in Server |-> 1]
    /\ previous = [s \in Server |-> 0]
    /\ poll \in [Server -> 1..PollInterval]
    /\ life = [k \in Key |-> 0]
    /\ failed = 0
    /\ restarts = 0

Tick ==
    /\ \A s \in Server : poll[s] > 0
    /\ poll' = [s \in Server |-> poll[s] - 1]
    /\ life' = [k \in Key |-> IF life[k] > 0 THEN life[k] - 1 ELSE 0]
    /\ since' = IF since < Spacing THEN since + 1 ELSE since
    /\ UNCHANGED <<secret, active, previous, failed, restarts>>

(* An operator uploads the next key.                                       *)
Rotate ==
    /\ since = Spacing
    /\ secret < MaxKey
    /\ secret' = secret + 1
    /\ since' = 0
    /\ UNCHANGED <<active, previous, poll, life, failed, restarts>>

(* Mutant: a poll that finds the same kid fills the previous slot, too.    *)
ReloadAlways(s) ==
    /\ previous' = [previous EXCEPT ![s] = active[s]]
    /\ active' = [active EXCEPT ![s] = secret]

(* Reload: the active key moves to the previous slot, unless the secret    *)
(* has the kid that is active already.                                     *)
Reload(s) ==
    /\ previous' = [previous EXCEPT ![s] = IF active[s] # secret THEN active[s] ELSE @]
    /\ active' = [active EXCEPT ![s] = secret]

(* Mutant: Watch polls once.                                               *)
PollOnce(s) ==
    /\ poll[s] = 0
    /\ poll' = [poll EXCEPT ![s] = PollInterval]
    /\ UNCHANGED <<secret, since, active, previous, life, failed, restarts>>

(* The poll of Watch and its callback.  When the secret cannot be fetched  *)
(* or parsed, the keys stay until the next poll.                           *)
Poll(s) ==
    /\ poll[s] = 0
    /\ poll' = [poll EXCEPT ![s] = PollInterval]
    /\ \/ Reload(s) /\ UNCHANGED failed
       \/ /\ failed < MaxFailed
          /\ failed' = failed + 1
          /\ UNCHANGED <<active, previous>>
    /\ UNCHANGED <<secret, since, life, restarts>>

(* SignRefreshToken: the active key signs.                                 *)
Sign(s) ==
    /\ life' = [life EXCEPT ![active[s]] = TokenTTL]
    /\ UNCHANGED <<secret, since, active, previous, poll, failed, restarts>>

(* Mutant: New leaves the active slot empty.                               *)
RestartEmpty(s) ==
    /\ restarts < MaxRestarts
    /\ restarts' = restarts + 1
    /\ active' = [active EXCEPT ![s] = 0]
    /\ UNCHANGED <<secret, since, previous, poll, life, failed>>

(* A deploy, a crash or a new replica: New loads the secret into the       *)
(* active slot of a process whose previous slot is empty.                  *)
Restart(s) ==
    /\ restarts < MaxRestarts
    /\ restarts' = restarts + 1
    /\ active' = [active EXCEPT ![s] = secret]
    /\ previous' = [previous EXCEPT ![s] = 0]
    /\ poll' = [poll EXCEPT ![s] = PollInterval]
    /\ UNCHANGED <<secret, since, life, failed>>

Next ==
    \/ Tick
    \/ Rotate
    \/ \E s \in Server : Poll(s) \/ Sign(s) \/ Restart(s)

Spec == Init /\ [][Next]_vars

-----------------------------------------------------------------------------
(* The type of every variable.  Slots hold keys that were uploaded, and    *)
(* only those have signed anything.                                        *)
TypeOK ==
    /\ secret \in Key
    /\ since \in 0..Spacing
    /\ active \in [Server -> 1..secret]
    /\ previous \in [Server -> 0..secret]
    /\ poll \in [Server -> 0..PollInterval]
    /\ life \in [Key -> 0..TokenTTL]
    /\ \A k \in Key : k > secret => life[k] = 0
    /\ failed \in 0..MaxFailed
    /\ restarts \in 0..MaxRestarts

(* keyForToken finds the key of a token with this kid.                     *)
Verifies(s, k) == k \in {active[s], previous[s]}

(* Rotation does not invalidate live tokens: no process has displaced a    *)
(* key, out of both slots, that some process's live token is signed with.  *)
(* (A process that has not loaded a new key yet has not displaced it.)     *)
NoLiveTokenLosesItsKey ==
    \A s \in Server, k \in Key :
        (life[k] > 0 /\ k <= active[s]) => Verifies(s, k)

(* The longest a process can stay behind a rotation.                       *)
Lag(n) == PollInterval * (n + 1)

(* What the two slots guarantee: no live token loses its key as long as    *)
(* the operator's spacing covers the life of a token signed by the last    *)
(* process to learn of a rotation, and no process restarts.                *)
NoLiveTokenLosesItsKeyWhenSpaced ==
    (Spacing >= TokenTTL + Lag(MaxFailed) /\ restarts = 0) => NoLiveTokenLosesItsKey

(* A rotation reaches every process within one poll interval, and one more *)
(* for each poll that fails.                                               *)
RotationReachesEveryone ==
    since > Lag(failed) => \A s \in Server : active[s] = secret
=============================================================================
