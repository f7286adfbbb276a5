-------------------------- MODULE KeyRotationProofs --------------------------
(***************************************************************************)
(* What two key slots guarantee, for any number of processes, keys, failed *)
(* polls and restarts.                                                     *)
(***************************************************************************)
EXTENDS KeyRotation, TLAPS

-----------------------------------------------------------------------------
(* Arithmetic of Lag, the only product in the module.                      *)

LEMMA LagType ==
    ASSUME NEW n \in Nat
    PROVE  Lag(n) \in Nat /\ Lag(n) >= PollInterval
<1>1. PollInterval \in Nat
    BY TimeAssumption
<1>2. PollInterval * (n + 1) = PollInterval * n + PollInterval
    BY <1>1
<1>3. PollInterval * n \in Nat
    BY <1>1
<1> QED
    BY <1>1, <1>2, <1>3 DEF Lag

LEMMA LagStep ==
    ASSUME NEW n \in Nat
    PROVE  Lag(n + 1) = Lag(n) + PollInterval
<1>1. PollInterval \in Nat
    BY TimeAssumption
<1>2. PollInterval * ((n + 1) + 1) = PollInterval * (n + 1) + PollInterval
    BY <1>1
<1> QED
    BY <1>2 DEF Lag

LEMMA LagMonotone ==
    ASSUME NEW m \in Nat, NEW n \in Nat, m <= n
    PROVE  Lag(m) <= Lag(n)
<1>1. PollInterval \in Nat
    BY TimeAssumption
<1>2. PICK d \in Nat : n = m + d
    BY n - m \in Nat, n = m + (n - m)
<1>3. PollInterval * (n + 1) = PollInterval * (m + 1) + PollInterval * d
    BY <1>1, <1>2
<1>4. PollInterval * d \in Nat /\ PollInterval * (m + 1) \in Nat
    BY <1>1
<1> QED
    BY <1>3, <1>4 DEF Lag

-----------------------------------------------------------------------------
(* A process behind the secret polls before the lag is used up.            *)
BehindPollsSoon ==
    \A s \in Server : active[s] # secret => since + poll[s] <= Lag(failed)

(* The hypothesis of NoLiveTokenLosesItsKeyWhenSpaced.                     *)
Spaced == Spacing >= TokenTTL + Lag(MaxFailed) /\ restarts = 0

(* No process is more than one key behind, and none has lost its           *)
(* predecessor.                                                            *)
SlotsAdjacent ==
    \A s \in Server :
        /\ active[s] \in {secret - 1, secret}
        /\ previous[s] = active[s] - 1

(* Of the keys before the secret only the last has live tokens, and they   *)
(* were signed within the lag.                                             *)
OldTokensDieOut ==
    \A k \in Key :
        (k < secret /\ life[k] > 0) =>
            /\ k = secret - 1
            /\ life[k] + since <= TokenTTL + Lag(failed)

IInv ==
    /\ TypeOK
    /\ BehindPollsSoon
    /\ Spaced => SlotsAdjacent /\ OldTokensDieOut

-----------------------------------------------------------------------------
(* Type correctness of rotation: New and Reload only ever put uploaded     *)
(* keys in the slots, in every step.                                       *)
LEMMA TypeStep ==
    ASSUME TypeOK, [Next]_vars
    PROVE  TypeOK'
<1> USE TimeAssumption, BoundsAssumption DEF TypeOK, Key
<1>1. CASE Tick
    BY <1>1 DEF Tick
<1>2. CASE Rotate
    BY <1>2 DEF Rotate
<1>3. ASSUME NEW s \in Server, Poll(s)
      PROVE  TypeOK'
  <2>1. /\ secret' = secret /\ since' = since /\ life' = life /\ restarts' = restarts
        /\ poll' = [poll EXCEPT ![s] = PollInterval]
      BY <1>3 DEF Poll
  <2>2. failed' \in 0..MaxFailed
      BY <1>3 DEF Poll
  <2>3. active' \in [Server -> 1..secret] /\ previous' \in [Server -> 0..secret]
    <3>1. CASE Reload(s)
        BY <3>1 DEF Reload
    <3>2. CASE UNCHANGED <<active, previous>>
        BY <3>2
    <3> QED
        BY <1>3, <3>1, <3>2 DEF Poll
  <2>4. poll' \in [Server -> 0..PollInterval]
      BY <2>1
  <2> QED
      BY <2>1, <2>2, <2>3, <2>4 DEF TypeOK
<1>4. ASSUME NEW s \in Server, Sign(s)
      PROVE  TypeOK'
    BY <1>4 DEF Sign
<1>5. ASSUME NEW s \in Server, Restart(s)
      PROVE  TypeOK'
    BY <1>5 DEF Restart
<1>6. CASE UNCHANGED vars
    BY <1>6 DEF vars
<1> QED
    BY <1>1, <1>2, <1>3, <1>4, <1>5, <1>6 DEF Next

(* A process that is behind the secret never outstays the lag: each failed *)
(* poll of Watch adds one interval to it.                                  *)
LEMMA BehindStep ==
    ASSUME TypeOK, BehindPollsSoon, [Next]_vars
    PROVE  BehindPollsSoon'
<1> DEFINE L == Lag(failed)
<1>1. /\ failed \in Nat
      /\ since \in Nat
      /\ PollInterval \in Nat
      /\ poll \in [Server -> 0..PollInterval]
      /\ active \in [Server -> Nat]
      /\ secret \in Nat
    BY TimeAssumption, BoundsAssumption DEF TypeOK, Key
<1>2. L \in Nat /\ L >= PollInterval
    BY <1>1, LagType
<1>3. Lag(failed + 1) = L + PollInterval
    BY <1>1, LagStep
<1>4. \A s \in Server : active[s] # secret => since + poll[s] <= L
    BY DEF BehindPollsSoon
<1> HIDE DEF L
<1>5. CASE Tick
  <2>1. failed' = failed /\ secret' = secret /\ active' = active
      BY <1>5 DEF Tick
  <2>2. Lag(failed)' = L
      BY <2>1 DEF L, Lag
  <2>3. since' <= since + 1 /\ since' \in Nat
      BY <1>1, <1>5, TimeAssumption DEF Tick
  <2>4. \A s \in Server : poll'[s] = poll[s] - 1
      BY <1>5 DEF Tick
  <2> QED
      BY <1>1, <1>2, <1>4, <2>1, <2>2, <2>3, <2>4 DEF BehindPollsSoon
<1>6. CASE Rotate
  <2>1. failed' = failed /\ poll' = poll /\ since' = 0
      BY <1>6 DEF Rotate
  <2>2. Lag(failed)' = L
      BY <2>1 DEF L, Lag
  <2> QED
      BY <1>1, <1>2, <2>1, <2>2 DEF BehindPollsSoon
<1>7. ASSUME NEW p \in Server, Poll(p)
      PROVE  BehindPollsSoon'
  <2>1. since' = since /\ secret' = secret /\ poll' = [poll EXCEPT ![p] = PollInterval]
      BY <1>7 DEF Poll
  <2>2. poll[p] = 0
      BY <1>7 DEF Poll
  <2>3. CASE Reload(p) /\ UNCHANGED failed
    <3>1. active' = [active EXCEPT ![p] = secret]
        BY <2>3 DEF Reload
    <3>2. Lag(failed)' = L
        BY <2>3 DEF L, Lag
    <3> QED
        BY <1>1, <1>4, <2>1, <3>1, <3>2 DEF BehindPollsSoon
  <2>4. CASE failed' = failed + 1 /\ active' = active
    <3>1. Lag(failed)' = L + PollInterval
        BY <1>3, <2>4 DEF Lag
    <3> QED
        BY <1>1, <1>2, <1>4, <2>1, <2>2, <2>4, <3>1 DEF BehindPollsSoon
  <2> QED
      BY <1>7, <2>3, <2>4 DEF Poll
<1>8. ASSUME NEW p \in Server, Sign(p)
      PROVE  BehindPollsSoon'
    BY <1>8 DEF Sign, BehindPollsSoon, Lag
<1>9. ASSUME NEW p \in Server, Restart(p)
      PROVE  BehindPollsSoon'
  <2>1. /\ failed' = failed /\ since' = since /\ secret' = secret
        /\ active' = [active EXCEPT ![p] = secret]
        /\ poll' = [poll EXCEPT ![p] = PollInterval]
      BY <1>9 DEF Restart
  <2>2. Lag(failed)' = L
      BY <2>1 DEF L, Lag
  <2> QED
      BY <1>1, <1>4, <2>1, <2>2 DEF BehindPollsSoon
<1>10. CASE UNCHANGED vars
    BY <1>10 DEF vars, BehindPollsSoon, Lag
<1> QED
    BY <1>5, <1>6, <1>7, <1>8, <1>9, <1>10 DEF Next

(* restarts only grows, so a spaced state comes from a spaced state.       *)
LEMMA SpacedStep ==
    ASSUME TypeOK, [Next]_vars, Spaced'
    PROVE  Spaced /\ \A p \in Server : ~Restart(p)
<1>1. restarts \in Nat
    BY BoundsAssumption DEF TypeOK
<1>2. Spacing >= TokenTTL + Lag(MaxFailed) /\ restarts' = 0
    BY DEF Spaced, Lag
<1>3. \A p \in Server : ~Restart(p)
    BY <1>1, <1>2 DEF Restart
<1>4. restarts' = restarts
    BY <1>3 DEF Next, vars, Tick, Rotate, Poll, Sign
<1> QED
    BY <1>2, <1>3, <1>4 DEF Spaced

(* With the rotations spaced, every process has learned of the last one,   *)
(* and every token of the key before it is dead, when the next one comes.  *)
LEMMA RotateFindsAllCurrent ==
    ASSUME IInv, Spaced, Rotate
    PROVE  /\ \A s \in Server : active[s] = secret
           /\ \A k \in Key : k < secret => life[k] = 0
<1>1. /\ since = Spacing /\ since \in Nat /\ TokenTTL \in Nat \ {0}
      /\ failed \in Nat /\ MaxFailed \in Nat /\ failed <= MaxFailed
      /\ poll \in [Server -> 0..PollInterval] /\ PollInterval \in Nat
      /\ life \in [Key -> 0..TokenTTL]
    BY TimeAssumption, BoundsAssumption DEF IInv, TypeOK, Rotate
<1>2. PICK l \in Nat : l = Lag(failed)
    BY <1>1, LagType
<1>3. PICK m \in Nat : m = Lag(MaxFailed)
    BY <1>1, LagType
<1>4. l <= m
    BY <1>1, <1>2, <1>3, LagMonotone
<1>5. since >= TokenTTL + m
    BY <1>1, <1>3 DEF Spaced
<1>6. \A s \in Server : active[s] # secret => since + poll[s] <= l
    BY <1>2 DEF IInv, BehindPollsSoon
<1>7. \A k \in Key : (k < secret /\ life[k] > 0) => life[k] + since <= TokenTTL + l
    BY <1>2 DEF IInv, OldTokensDieOut
<1>8. ASSUME NEW s \in Server
      PROVE  active[s] = secret
    BY <1>1, <1>4, <1>5, <1>6
<1>9. ASSUME NEW k \in Key, k < secret
      PROVE  life[k] = 0
    BY <1>1, <1>4, <1>5, <1>7, <1>9
<1> QED
    BY <1>8, <1>9

(* Each process keeps the key before its own in the previous slot: Reload  *)
(* never skips a key when rotations are spaced.                            *)
LEMMA AdjacentStep ==
    ASSUME IInv, Spaced, [Next]_vars, \A p \in Server : ~Restart(p)
    PROVE  SlotsAdjacent'
<1>1. /\ SlotsAdjacent
      /\ secret \in Nat /\ active \in [Server -> Nat] /\ previous \in [Server -> Nat]
    BY BoundsAssumption DEF IInv, TypeOK, Key
<1>2. CASE Rotate
  <2>1. \A s \in Server : active[s] = secret
      BY <1>2, RotateFindsAllCurrent
  <2>2. secret' = secret + 1 /\ active' = active /\ previous' = previous
      BY <1>2 DEF Rotate
  <2> QED
      BY <1>1, <2>1, <2>2 DEF SlotsAdjacent
<1>3. ASSUME NEW p \in Server, Poll(p)
      PROVE  SlotsAdjacent'
  <2>1. secret' = secret
      BY <1>3 DEF Poll
  <2>2. CASE Reload(p)
    <3>1. /\ previous' = [previous EXCEPT ![p] = IF active[p] # secret THEN active[p] ELSE @]
          /\ active' = [active EXCEPT ![p] = secret]
        BY <2>2 DEF Reload
    <3> QED
        BY <1>1, <2>1, <3>1 DEF SlotsAdjacent
  <2>3. CASE UNCHANGED <<active, previous>>
      BY <1>1, <2>1, <2>3 DEF SlotsAdjacent
  <2> QED
      BY <1>3, <2>2, <2>3 DEF Poll
<1>4. CASE UNCHANGED <<secret, active, previous>>
    BY <1>1, <1>4 DEF SlotsAdjacent
<1> QED
    BY <1>2, <1>3, <1>4 DEF Next, Tick, Sign, vars

(* The tokens of a rotated key are gone before the key is displaced.       *)
LEMMA DieOutStep ==
    ASSUME IInv, Spaced, [Next]_vars, \A p \in Server : ~Restart(p)
    PROVE  OldTokensDieOut'
<1>1. /\ OldTokensDieOut /\ SlotsAdjacent /\ BehindPollsSoon
      /\ secret \in Nat /\ since \in Nat /\ failed \in Nat
      /\ active \in [Server -> Key] /\ Key \subseteq Nat
      /\ poll \in [Server -> 0..PollInterval]
      /\ TokenTTL \in Nat \ {0} /\ PollInterval \in Nat
      /\ life \in [Key -> 0..TokenTTL]
      /\ \A k \in Key : k > secret => life[k] = 0
    BY TimeAssumption, BoundsAssumption DEF IInv, TypeOK, Key
<1>2. PICK l \in Nat : l = Lag(failed)
    BY <1>1, LagType
<1>3. ASSUME NEW k \in Key, k < secret, life[k] > 0
      PROVE  k = secret - 1 /\ life[k] + since <= TokenTTL + l
    BY <1>1, <1>2, <1>3 DEF OldTokensDieOut
<1>4. CASE Tick
  <2>1. failed' = failed /\ secret' = secret
      BY <1>4 DEF Tick
  <2>2. Lag(failed)' = l
      BY <1>2, <2>1 DEF Lag
  <2>3. since' \in Nat /\ since' <= since + 1
      BY <1>1, <1>4, TimeAssumption DEF Tick
  <2>4. \A k \in Key : life'[k] = IF life[k] > 0 THEN life[k] - 1 ELSE 0
      BY <1>4 DEF Tick
  <2>5. ASSUME NEW k \in Key, k < secret, life'[k] > 0
        PROVE  k = secret - 1 /\ life'[k] + since' <= TokenTTL + l
    <3>1. life[k] \in Nat /\ life[k] > 0 /\ life'[k] = life[k] - 1
        BY <1>1, <2>4, <2>5
    <3>2. k = secret - 1 /\ life[k] + since <= TokenTTL + l
        BY <1>3, <2>5, <3>1
    <3> QED
        BY <1>1, <1>2, <2>3, <3>1, <3>2
  <2> QED
      BY <2>1, <2>2, <2>5 DEF OldTokensDieOut
<1>5. CASE Rotate
  <2>1. failed' = failed /\ secret' = secret + 1 /\ since' = 0 /\ life' = life
      BY <1>5 DEF Rotate
  <2>2. Lag(failed)' = l
      BY <1>2, <2>1 DEF Lag
  <2>3. \A k \in Key : k < secret => life[k] = 0
      BY <1>5, RotateFindsAllCurrent
  <2>4. ASSUME NEW k \in Key, k < secret + 1, life[k] > 0
        PROVE  k = (secret + 1) - 1 /\ life[k] + 0 <= TokenTTL + l
      BY <1>1, <1>2, <2>3, <2>4
  <2> QED
      BY <2>1, <2>2, <2>4 DEF OldTokensDieOut
<1>6. ASSUME NEW p \in Server, Poll(p)
      PROVE  OldTokensDieOut'
  <2>1. since' = since /\ secret' = secret /\ life' = life
      BY <1>6 DEF Poll
  <2>2. failed' = failed \/ failed' = failed + 1
      BY <1>6 DEF Poll
  <2>3. PICK m \in Nat : m = Lag(failed')
      BY <1>1, <2>2, LagType
  <2>4. l <= m
      BY <1>1, <1>2, <2>2, <2>3, LagMonotone
  <2>5. ASSUME NEW k \in Key, k < secret, life[k] > 0
        PROVE  k = secret - 1 /\ life[k] + since <= TokenTTL + m
    <3>1. k = secret - 1 /\ life[k] + since <= TokenTTL + l
        BY <1>3, <2>5
    <3>2. life[k] \in Nat
        BY <1>1
    <3> QED
        BY <1>1, <1>2, <2>3, <2>4, <3>1, <3>2
  <2>6. m = Lag(failed)'
      BY <2>3 DEF Lag
  <2> QED
      BY <2>1, <2>5, <2>6 DEF OldTokensDieOut
<1>7. ASSUME NEW p \in Server, Sign(p)
      PROVE  OldTokensDieOut'
  <2>1. /\ failed' = failed /\ secret' = secret /\ since' = since
        /\ life' = [life EXCEPT ![active[p]] = TokenTTL]
      BY <1>7 DEF Sign
  <2>2. Lag(failed)' = l
      BY <1>2, <2>1 DEF Lag
  <2>3. active[p] # secret => active[p] = secret - 1 /\ since + poll[p] <= l
      BY <1>1, <1>2 DEF SlotsAdjacent, BehindPollsSoon
  <2>4. poll[p] \in Nat /\ active[p] \in Key
      BY <1>1
  <2>5. ASSUME NEW k \in Key, k < secret, life'[k] > 0
        PROVE  k = secret - 1 /\ life'[k] + since <= TokenTTL + l
    <3>1. CASE k = active[p]
      <4>1. life'[k] = TokenTTL
          BY <1>1, <2>1, <3>1
      <4>2. active[p] # secret
          BY <1>1, <2>5, <3>1
      <4> QED
          BY <1>1, <1>2, <2>3, <2>4, <3>1, <4>1, <4>2
    <3>2. CASE k # active[p]
      <4>1. life'[k] = life[k]
          BY <1>1, <2>1, <3>2
      <4> QED
          BY <1>3, <2>5, <4>1
    <3> QED
        BY <3>1, <3>2
  <2> QED
      BY <2>1, <2>2, <2>5 DEF OldTokensDieOut
<1>8. CASE UNCHANGED vars
    BY <1>1, <1>8 DEF vars, OldTokensDieOut, Lag
<1> QED
    BY <1>4, <1>5, <1>6, <1>7, <1>8 DEF Next

-----------------------------------------------------------------------------
LEMMA InitIInv == Init => IInv
<1> SUFFICES ASSUME Init
             PROVE  IInv
    OBVIOUS
<1>1. TypeOK
  <2>1. secret = 1 /\ secret \in Key
      BY BoundsAssumption DEF Init, Key
  <2>2. active \in [Server -> 1..secret] /\ previous \in [Server -> 0..secret]
      BY <2>1 DEF Init
  <2>3. poll \in [Server -> 0..PollInterval] /\ since \in 0..Spacing
      BY TimeAssumption DEF Init
  <2>4. life \in [Key -> 0..TokenTTL] /\ \A k \in Key : life[k] = 0
      BY TimeAssumption DEF Init
  <2>5. failed \in 0..MaxFailed /\ restarts \in 0..MaxRestarts
      BY BoundsAssumption DEF Init
  <2> QED
      BY <2>1, <2>2, <2>3, <2>4, <2>5 DEF TypeOK
<1>2. BehindPollsSoon
    BY DEF Init, BehindPollsSoon
<1>3. SlotsAdjacent
  <2>1. secret = 1 /\ \A s \in Server : active[s] = 1 /\ previous[s] = 0
      BY DEF Init
  <2>2. 1 - 1 = 0
      OBVIOUS
  <2> QED
      BY <2>1, <2>2 DEF SlotsAdjacent
<1>4. OldTokensDieOut
    BY DEF Init, OldTokensDieOut
<1> QED
    BY <1>1, <1>2, <1>3, <1>4 DEF IInv

LEMMA IInvStep == IInv /\ [Next]_vars => IInv'
<1> SUFFICES ASSUME IInv, [Next]_vars
             PROVE  IInv'
    OBVIOUS
<1>1. TypeOK' /\ BehindPollsSoon'
    BY TypeStep, BehindStep DEF IInv
<1>2. ASSUME Spaced'
      PROVE  SlotsAdjacent' /\ OldTokensDieOut'
  <2>1. TypeOK
      BY DEF IInv
  <2>2. Spaced /\ \A p \in Server : ~Restart(p)
      BY <1>2, <2>1, SpacedStep
  <2> QED
      BY <2>2, AdjacentStep, DieOutStep
<1> QED
    BY <1>1, <1>2 DEF IInv

LEMMA Inductive == Spec => []IInv
    BY InitIInv, IInvStep, PTL DEF Spec

(* Type correctness: the slots of every process hold uploaded keys, and    *)
(* only uploaded keys sign.                                                *)
THEOREM TypeCorrect == Spec => []TypeOK
<1>1. IInv => TypeOK
    BY DEF IInv
<1> QED
    BY <1>1, Inductive, PTL

(* A rotation reaches every process within one poll interval and one more  *)
(* per failed poll of Watch, however many processes there are.             *)
THEOREM RotationReaches == Spec => []RotationReachesEveryone
<1>1. IInv => RotationReachesEveryone
  <2> SUFFICES ASSUME IInv, since > Lag(failed), NEW s \in Server
               PROVE  active[s] = secret
      BY DEF RotationReachesEveryone
  <2>1. since \in Nat /\ failed \in Nat /\ poll[s] \in Nat
      BY TimeAssumption, BoundsAssumption DEF IInv, TypeOK
  <2>2. PICK l \in Nat : l = Lag(failed)
      BY <2>1, LagType
  <2>3. active[s] # secret => since + poll[s] <= l
      BY <2>2 DEF IInv, BehindPollsSoon
  <2> QED
      BY <2>1, <2>2, <2>3
<1> QED
    BY <1>1, Inductive, PTL

(* Rotations spaced by a token's life and the longest lag never invalidate *)
(* a live token: Reload displaces a key only after its last token expired. *)
THEOREM SpacedRotationIsSafe == Spec => []NoLiveTokenLosesItsKeyWhenSpaced
<1>1. IInv => NoLiveTokenLosesItsKeyWhenSpaced
  <2> SUFFICES ASSUME IInv, Spaced, NEW s \in Server, NEW k \in Key,
                      life[k] > 0, k <= active[s]
               PROVE  k \in {active[s], previous[s]}
      BY DEF NoLiveTokenLosesItsKeyWhenSpaced, NoLiveTokenLosesItsKey, Verifies, Spaced
  <2>1. secret \in Nat /\ active[s] \in Nat /\ k \in Nat
      BY BoundsAssumption DEF IInv, TypeOK, Key
  <2>2. active[s] \in {secret - 1, secret} /\ previous[s] = active[s] - 1
      BY DEF IInv, SlotsAdjacent
  <2>3. k < secret => k = secret - 1
      BY DEF IInv, OldTokensDieOut
  <2> QED
      BY <2>1, <2>2, <2>3
<1> QED
    BY <1>1, Inductive, PTL

-----------------------------------------------------------------------------
(* The two slots of process s as a key ring.                               *)
Ring(s) == INSTANCE KeyRing WITH
    Key <- Key, Nil <- 0, active <- active[s], previous <- previous[s]

(* Every process is a key ring: only Reload, when the kid differs, and New *)
(* change its pair of slots, and both change it as a whole.  KeySlots      *)
(* implements the same ring with its separate stores, so that the one-step *)
(* Reload of KeyRotation is what a process really offers.                  *)
THEOREM ProcessIsRing ==
    ASSUME NEW s \in Server
    PROVE  Spec => Ring(s)!Spec
<1>1. Init => Ring(s)!Init
  <2>1. 1 \in Key
    BY BoundsAssumption DEF Key
  <2> QED
    BY <2>1 DEF Init, Ring!Init
<1>2. TypeOK /\ [Next]_vars => [Ring(s)!Next]_(Ring(s)!vars)
  <2> SUFFICES ASSUME TypeOK, [Next]_vars
               PROVE  \/ \E k \in Key : Ring(s)!Replace(k) \/ Ring(s)!Restart(k)
                      \/ active'[s] = active[s] /\ previous'[s] = previous[s]
    BY DEF Ring!Next, Ring!vars
  <2>0. secret \in Key /\ DOMAIN active = Server /\ DOMAIN previous = Server
    BY DEF TypeOK
  <2>1. CASE UNCHANGED <<active, previous>>
    BY <2>1
  <2>2. ASSUME NEW p \in Server, Reload(p)
        PROVE  \/ Ring(s)!Replace(secret)
               \/ active'[s] = active[s] /\ previous'[s] = previous[s]
    BY <2>0, <2>2 DEF Reload, Ring!Replace
  <2>3. ASSUME NEW p \in Server, Restart(p)
        PROVE  \/ Ring(s)!Restart(secret)
               \/ active'[s] = active[s] /\ previous'[s] = previous[s]
    BY <2>0, <2>3 DEF Restart, Ring!Restart
  <2> QED
    BY <2>0, <2>1, <2>2, <2>3 DEF Next, vars, Tick, Rotate, Poll, Sign
<1> QED
  BY <1>1, <1>2, TypeCorrect, PTL DEF Spec, Ring!Spec
=============================================================================
