----------------------- MODULE PasskeyRegisterProofs -----------------------
(***************************************************************************)
(* Proofs about PasskeyRegister, for any number of handlers, ceremonies    *)
(* and faults: however ceremonies overlap, a user ends with at most one    *)
(* passkey above the limit.  They rest on LatencyAssumption: a claim lasts *)
(* long enough that, of the ceremonies begun below the limit, all but one  *)
(* are over before the second of them can claim.                           *)
(***************************************************************************)
EXTENDS PasskeyRegister, TLAPS

Creating == \E h \in Handler : req[h].pc = "create"

(* The claim of the completion that creates a passkey is still there, so   *)
(* there is only one.                                                      *)
ClaimInv ==
    /\ \A h \in Handler : req[h].pc = "create" => ClaimTTL <= claim + req[h].age
    /\ \A g, h \in Handler : req[g].pc = "create" /\ req[h].pc = "create" => g = h

(* How long after the claim is gone a completion may still claim: for      *)
(* another claim, when one more passkey may be created, and not at all     *)
(* after that.                                                             *)
Slack == IF creds = MaxPasskeys /\ ~Creating THEN ClaimTTL ELSE 0

Due == claim + Slack

(* No ceremony begins at the limit, and those that began before it cannot  *)
(* claim once Due ticks have passed: a completion claims at most Latency   *)
(* after it fetched the session, which lives SessionTTL from a store at    *)
(* most Latency after the begin.                                           *)
WaitInv ==
    creds >= MaxPasskeys =>
        /\ session.ttl > 0 => session.ttl + Latency <= Due
        /\ \A h \in Handler :
              /\ req[h].pc = "store" => 2 * Latency + SessionTTL <= Due + req[h].age
              /\ req[h].pc = "claim" => Latency + 1 <= Due + req[h].age

LimitInv ==
    /\ creds <= MaxPasskeys + 1
    /\ creds = MaxPasskeys + 1 => ~Creating

IInv == TypeOK /\ ClaimInv /\ WaitInv /\ LimitInv

-----------------------------------------------------------------------------
LEMMA SumsAreMonotonic ==
    ASSUME NEW c \in Nat, NEW k \in Nat, NEW q \in Nat, NEW x \in Nat, c <= k, q <= x
    PROVE  c + q <= k + x
  OBVIOUS

LEMMA NumberFacts ==
    ASSUME TypeOK
    PROVE  /\ SessionTTL \in Nat /\ SessionTTL >= 1 /\ ClaimTTL \in Nat /\ ClaimTTL >= 1
           /\ MaxPasskeys \in Nat /\ Latency \in Nat /\ MaxSessions \in Nat /\ MaxFaults \in Nat
           /\ 3 * Latency + SessionTTL <= 2 * ClaimTTL /\ Latency < ClaimTTL
           /\ claim \in Nat /\ claim <= ClaimTTL /\ creds \in Nat /\ begun \in Nat
           /\ begun <= MaxSessions /\ faults \in Nat /\ faults <= MaxFaults
  BY TTLAssumption, BoundsAssumption, LatencyAssumption DEF TypeOK

LEMMA RequestFacts ==
    ASSUME TypeOK, NEW h \in Handler
    PROVE  /\ req[h] \in Request /\ req[h].pc \in Pc /\ req[h].age \in Nat
           /\ req[h].age <= Latency
  BY NumberFacts DEF TypeOK, Request

LEMMA NoSessionFacts ==
    NoSession.ttl = 0
  BY DEF NoSession

LEMMA SessionFacts ==
    ASSUME TypeOK
    PROVE  /\ session.ttl \in Nat /\ session.ttl <= SessionTTL
           /\ session.id \in Nat /\ (session.id > 0 => session.ttl > 0 /\ session.id \in 1..begun)
<1>1. CASE session = NoSession
  BY <1>1, NumberFacts DEF NoSession
<1>2. CASE session \in [id : 1..begun, ttl : 1..SessionTTL]
  BY <1>2, NumberFacts
<1> QED
  BY <1>1, <1>2 DEF TypeOK

LEMMA SlackFacts ==
    ASSUME TypeOK
    PROVE  Slack \in Nat /\ Due \in Nat /\ Due = claim + Slack
  BY NumberFacts DEF Slack, Due

(* The same after a step.                                                  *)
LEMMA NextFacts ==
    ASSUME TypeOK'
    PROVE  /\ claim' \in Nat /\ claim' <= ClaimTTL /\ creds' \in Nat
           /\ \E x, e \in Nat : x = Slack' /\ e = Due' /\ e = claim' + x
           /\ session'.ttl \in Nat
           /\ \A h \in Handler : req'[h].age \in Nat
<1>1. claim' \in Nat /\ claim' <= ClaimTTL /\ creds' \in Nat /\ ClaimTTL \in Nat
  BY TTLAssumption DEF TypeOK
<1>2. PICK x \in Nat : x = Slack'
  BY <1>1 DEF Slack
<1>3. PICK e \in Nat : e = claim' + x
  <2>1. PICK c \in Nat : c = claim'
    BY <1>1
  <2>2. PICK e \in Nat : e = c + x
    OBVIOUS
  <2> QED
    BY <2>1, <2>2, Zenon
<1>4. e = Due'
  BY <1>2, <1>3, Zenon DEF Due
<1>5. session'.ttl \in Nat
  <2>1. CASE session' = NoSession
    BY <2>1, NoSessionFacts
  <2>2. CASE session' \in [id : 1..begun', ttl : 1..SessionTTL]
    BY <2>2, TTLAssumption
  <2> QED
    BY <2>1, <2>2 DEF TypeOK
<1>6. \A h \in Handler : req'[h].age \in Nat
  BY BoundsAssumption DEF TypeOK, Request
<1> QED
  BY <1>1, <1>2, <1>3, <1>4, <1>5, <1>6

LEMMA NoRequestFacts ==
    NoRequest \in Request /\ NoRequest.pc = "idle"
  BY BoundsAssumption DEF NoRequest, Request, Pc

LEMMA FaultFacts ==
    ASSUME TypeOK, Fault \/ NoFault
    PROVE  faults' \in 0..MaxFaults
  BY NumberFacts DEF Fault, NoFault, TypeOK

LEMMA InitIInv == Init => IInv
<1> SUFFICES ASSUME Init PROVE IInv
  OBVIOUS
<1>1. /\ session = NoSession /\ claim = 0 /\ begun = 0 /\ faults = 0
      /\ creds \in Nat /\ creds <= MaxPasskeys /\ MaxPasskeys \in Nat
      /\ req \in [Handler -> Request] /\ \A h \in Handler : req[h].pc = "idle"
  BY NoRequestFacts, TTLAssumption DEF Init
<1>2. TypeOK
  BY <1>1, TTLAssumption, BoundsAssumption DEF TypeOK
<1>3. ClaimInv /\ ~Creating
  BY <1>1 DEF ClaimInv, Creating
<1>4. WaitInv
  BY <1>1, NoSessionFacts DEF WaitInv
<1>5. LimitInv
  BY <1>1, <1>3 DEF LimitInv
<1> QED
  BY <1>2, <1>3, <1>4, <1>5 DEF IInv

-----------------------------------------------------------------------------
(* One request is given the record r.                                      *)
LEMMA TypeStep ==
    ASSUME TypeOK, NEW h \in Handler, NEW r \in Request, req' = [req EXCEPT ![h] = r],
           r.pc # "idle" => r.id \in 1..begun',
           claim' \in 0..ClaimTTL, creds' \in Nat, faults' \in 0..MaxFaults,
           begun <= begun', begun' \in 0..MaxSessions,
           session' \in {NoSession} \cup [id : 1..begun', ttl : 1..SessionTTL]
    PROVE  /\ TypeOK' /\ req'[h] = r
           /\ \A g \in Handler : g # h => req'[g] = req[g]
<1>1. /\ req' \in [Handler -> Request] /\ req'[h] = r
      /\ \A g \in Handler : g # h => req'[g] = req[g]
  BY DEF TypeOK
<1>2. 1..begun \subseteq 1..begun'
  BY NumberFacts
<1>3. \A g \in Handler : req'[g].pc # "idle" => req'[g].id \in 1..begun'
  BY <1>1, <1>2 DEF TypeOK
<1> QED
  BY <1>1, <1>3 DEF TypeOK

(* A step that creates no passkey and starts no creation: what is left of  *)
(* the time in which a completion may claim does not shrink.               *)
LEMMA QuietStep ==
    ASSUME IInv, NEW h \in Handler, NEW r \in Request, req' = [req EXCEPT ![h] = r],
           r.pc # "idle" => r.id \in 1..begun', r.pc # "create",
           creds' = creds, claim' \in 0..ClaimTTL, claim <= claim', faults' \in 0..MaxFaults,
           begun <= begun', begun' \in 0..MaxSessions,
           session' \in {NoSession} \cup [id : 1..begun', ttl : 1..SessionTTL],
           creds >= MaxPasskeys =>
              /\ session'.ttl > 0 => session'.ttl + Latency <= Due
              /\ r.pc = "store" => 2 * Latency + SessionTTL <= Due + r.age
              /\ r.pc = "claim" => Latency + 1 <= Due + r.age
    PROVE  IInv'
<1>0. TypeOK /\ ClaimInv /\ WaitInv /\ LimitInv
  BY DEF IInv
<1>1. TypeOK' /\ req'[h] = r /\ \A g \in Handler : g # h => req'[g] = req[g]
  BY <1>0, NumberFacts, TypeStep
<1>2. \A g \in Handler : req'[g].pc = "create" => req[g].pc = "create" /\ req'[g] = req[g]
  BY <1>1
<1>3. ClaimInv'
  <2>1. ASSUME NEW g \in Handler, req'[g].pc = "create" PROVE ClaimTTL <= claim' + req'[g].age
    <3>1. ClaimTTL <= claim + req[g].age /\ req'[g].age = req[g].age /\ req[g].age \in Nat
      BY <1>0, <1>2, <2>1, RequestFacts DEF ClaimInv
    <3> QED
      BY <1>0, <3>1, NumberFacts
  <2>2. \A f, g \in Handler : req'[f].pc = "create" /\ req'[g].pc = "create" => f = g
    BY <1>0, <1>2 DEF ClaimInv
  <2> QED
    BY <2>1, <2>2 DEF ClaimInv
<1>4. Creating' => Creating
  BY <1>2 DEF Creating
<1>5. LimitInv'
  BY <1>0, <1>4 DEF LimitInv
<1>6. PICK d \in Nat : d = Due
  BY <1>0, SlackFacts
<1>7. PICK x, e \in Nat : x = Slack' /\ e = Due' /\ e = claim' + x
  BY <1>1, NextFacts
<1>8. d <= e
  <2>1. PICK q \in Nat : q = Slack /\ d = claim + q
    BY <1>0, <1>6, SlackFacts
  <2>2. x = IF creds = MaxPasskeys /\ ~Creating' THEN ClaimTTL ELSE 0
    BY <1>7 DEF Slack
  <2>3. q = IF creds = MaxPasskeys /\ ~Creating THEN ClaimTTL ELSE 0
    BY <2>1 DEF Slack
  <2>4. q <= x
    BY <1>0, <1>4, <2>2, <2>3, NumberFacts
  <2>5. PICK c, k \in Nat : c = claim /\ k = claim' /\ c <= k
    BY <1>0, <1>1, NumberFacts, NextFacts
  <2>6. d = c + q /\ e = k + x
    BY <1>7, <2>1, <2>5
  <2>7. c <= k /\ q <= x
    BY <2>4, <2>5
  <2>8. c + q <= k + x
    BY <2>7, SumsAreMonotonic
  <2> QED
    BY <2>6, <2>8, Zenon
<1>9. WaitInv'
  <2> SUFFICES ASSUME creds >= MaxPasskeys
               PROVE  /\ session'.ttl > 0 => session'.ttl + Latency <= e
                      /\ \A g \in Handler :
                            /\ req'[g].pc = "store" => 2 * Latency + SessionTTL <= e + req'[g].age
                            /\ req'[g].pc = "claim" => Latency + 1 <= e + req'[g].age
    BY <1>7 DEF WaitInv
  <2>1. session'.ttl > 0 => session'.ttl + Latency <= e
    <3>1. session'.ttl \in Nat /\ Latency \in Nat
      BY <1>0, <1>1, NumberFacts, NextFacts
    <3> QED
      BY <1>6, <1>8, <3>1
  <2>2. ASSUME NEW g \in Handler
        PROVE  /\ req'[g].pc = "store" => 2 * Latency + SessionTTL <= e + req'[g].age
               /\ req'[g].pc = "claim" => Latency + 1 <= e + req'[g].age
    <3>1. /\ req'[g].pc = "store" => 2 * Latency + SessionTTL <= d + req'[g].age
          /\ req'[g].pc = "claim" => Latency + 1 <= d + req'[g].age
      BY <1>0, <1>1, <1>6 DEF WaitInv
    <3>2. req'[g].age \in Nat /\ Latency \in Nat /\ SessionTTL \in Nat
      BY <1>0, <1>1, NumberFacts, NextFacts
    <3> QED
      BY <1>8, <3>1, <3>2
  <2> QED
    BY <2>1, <2>2
<1> QED
  BY <1>1, <1>3, <1>5, <1>9 DEF IInv

(* A request that ends, whatever became of the session meanwhile.          *)
LEMMA RespondIInv ==
    ASSUME IInv, NEW h \in Handler, Respond(h), Fault \/ NoFault,
           UNCHANGED <<creds, begun>>, claim' = claim \/ (claim = 0 /\ claim' = ClaimTTL),
           session' = session \/ session' = NoSession
    PROVE  IInv'
<1>0. TypeOK /\ WaitInv
  BY DEF IInv
<1>1. req' = [req EXCEPT ![h] = NoRequest]
  BY DEF Respond
<1>2. claim' \in 0..ClaimTTL /\ claim <= claim' /\ faults' \in 0..MaxFaults
  BY <1>0, NumberFacts, FaultFacts
<1>3. /\ begun <= begun' /\ begun' \in 0..MaxSessions
      /\ session' \in {NoSession} \cup [id : 1..begun', ttl : 1..SessionTTL]
  BY <1>0, NumberFacts DEF TypeOK
<1>4. creds >= MaxPasskeys => (session'.ttl > 0 => session'.ttl + Latency <= Due)
  BY <1>0, NoSessionFacts DEF WaitInv
<1> QED
  BY <1>1, <1>2, <1>3, <1>4, NoRequestFacts, QuietStep

LEMMA RegisterBeginIInv == ASSUME IInv, NEW h \in Handler, RegisterBegin(h) PROVE IInv'
<1>0. TypeOK
  BY DEF IInv
<1>1. PICK r : r = [pc |-> "store", id |-> begun + 1, age |-> 0]
  OBVIOUS
<1>2. /\ req' = [req EXCEPT ![h] = r] /\ begun < MaxSessions /\ creds < MaxPasskeys
      /\ begun' = begun + 1 /\ UNCHANGED <<session, claim, creds, faults>>
  BY <1>1 DEF RegisterBegin, Begin
<1>3. /\ begun <= begun' /\ begun' \in 0..MaxSessions /\ ~(creds >= MaxPasskeys)
      /\ begun + 1 \in 0..MaxSessions /\ begun + 1 \in 1..begun' /\ 0 \in 0..Latency
      /\ 1..begun \subseteq 1..begun'
  BY <1>0, <1>2, NumberFacts
<1>4. r \in Request /\ r.pc = "store" /\ r.id \in 1..begun'
  BY <1>1, <1>3 DEF Request, Pc
<1>5. session' \in {NoSession} \cup [id : 1..begun', ttl : 1..SessionTTL]
  BY <1>0, <1>2, <1>3 DEF TypeOK
<1>6. claim' \in 0..ClaimTTL /\ claim <= claim' /\ faults' \in 0..MaxFaults
  BY <1>0, <1>2, NumberFacts DEF TypeOK
<1> QED
  BY <1>2, <1>3, <1>4, <1>5, <1>6, QuietStep

LEMMA StoreSessionIInv == ASSUME IInv, NEW h \in Handler, StoreSession(h) PROVE IInv'
<1>0. TypeOK /\ WaitInv
  BY DEF IInv
<1>1. req[h].pc = "store" /\ Respond(h) /\ UNCHANGED <<claim, creds, begun>> /\ (Fault \/ NoFault)
  BY DEF StoreSession, MayFault
<1>2. CASE session' = session
  BY <1>1, <1>2, RespondIInv
<1>3. CASE session' = [id |-> req[h].id, ttl |-> SessionTTL]
  <2>1. session'.ttl = SessionTTL /\ req[h].id \in 1..begun
    BY <1>0, <1>1, <1>3 DEF TypeOK
  <2>2. session' \in {NoSession} \cup [id : 1..begun', ttl : 1..SessionTTL]
    BY <1>0, <1>1, <1>3, <2>1, NumberFacts
  <2>3. creds >= MaxPasskeys => session'.ttl + Latency <= Due
    <3>1. creds >= MaxPasskeys => 2 * Latency + SessionTTL <= Due + req[h].age
      BY <1>0, <1>1 DEF WaitInv
    <3>2. Due \in Nat /\ req[h].age \in Nat /\ req[h].age <= Latency
      BY <1>0, SlackFacts, RequestFacts
    <3> QED
      BY <1>0, <2>1, <3>1, <3>2, NumberFacts
  <2>4. claim' \in 0..ClaimTTL /\ claim <= claim' /\ faults' \in 0..MaxFaults
    BY <1>0, <1>1, NumberFacts, FaultFacts
  <2>5. begun <= begun' /\ begun' \in 0..MaxSessions /\ req' = [req EXCEPT ![h] = NoRequest]
    BY <1>0, <1>1, NumberFacts DEF Respond
  <2> QED
    BY <1>1, <2>2, <2>3, <2>4, <2>5, NoRequestFacts, QuietStep
<1> QED
  BY <1>2, <1>3 DEF StoreSession

LEMMA RegisterCompleteIInv ==
    ASSUME IInv, NEW h \in Handler, NEW id \in 1..MaxSessions, RegisterComplete(h, id)
    PROVE  IInv'
<1>0. TypeOK /\ WaitInv
  BY DEF IInv
<1>1. PICK r : r = [pc |-> "claim", id |-> id, age |-> 0]
  OBVIOUS
<1>2. /\ req' = [req EXCEPT ![h] = r] /\ session.id = id
      /\ UNCHANGED <<session, claim, creds, begun, faults>>
  BY <1>1 DEF RegisterComplete, Begin
<1>3. session.ttl > 0 /\ id \in 1..begun /\ session.ttl \in Nat
  <2>1. session.id > 0
    BY <1>0, <1>2, NumberFacts
  <2> QED
    BY <1>0, <1>2, <2>1, SessionFacts
<1>4. r \in Request /\ r.pc = "claim" /\ r.id \in 1..begun' /\ r.age = 0
  <2>1. id \in 0..MaxSessions /\ 0 \in 0..Latency
    BY <1>0, NumberFacts
  <2> QED
    BY <1>1, <1>2, <1>3, <2>1 DEF Request, Pc
<1>5. creds >= MaxPasskeys => session.ttl + Latency <= Due /\ Latency + 1 <= Due + r.age
  <2>1. creds >= MaxPasskeys => session.ttl + Latency <= Due
    BY <1>0, <1>3 DEF WaitInv
  <2>2. Due \in Nat
    BY <1>0, SlackFacts
  <2> QED
    BY <1>0, <1>3, <1>4, <2>1, <2>2, NumberFacts
<1>6. /\ session' \in {NoSession} \cup [id : 1..begun', ttl : 1..SessionTTL]
      /\ claim' \in 0..ClaimTTL /\ claim <= claim' /\ faults' \in 0..MaxFaults
      /\ begun <= begun' /\ begun' \in 0..MaxSessions
  BY <1>0, <1>2, NumberFacts DEF TypeOK
<1> QED
  BY <1>2, <1>4, <1>5, <1>6, QuietStep

(* The claim is free only when nobody creates a passkey, and above the     *)
(* limit it is too late for one.                                           *)
LEMMA ClaimSessionIInv == ASSUME IInv, NEW h \in Handler, ClaimSession(h) PROVE IInv'
<1>0. TypeOK /\ ClaimInv /\ WaitInv /\ LimitInv
  BY DEF IInv
<1>1. req[h].pc = "claim" /\ UNCHANGED <<session, creds, begun>> /\ (Fault \/ NoFault)
  BY DEF ClaimSession
<1>2. CASE Respond(h) /\ (claim' = claim \/ (claim = 0 /\ claim' = ClaimTTL))
  BY <1>1, <1>2, RespondIInv
<1>3. CASE claim = 0 /\ claim' = ClaimTTL /\ Goto(h, "create")
  <2>1. PICK r : r = [req[h] EXCEPT !.pc = "create"]
    OBVIOUS
  <2>2. req[h] \in Request /\ req[h].age \in Nat /\ req[h].age <= Latency
    BY <1>0, RequestFacts
  <2>3. r \in Request /\ r.pc = "create" /\ r.id = req[h].id /\ r.age = req[h].age
    BY <2>1, <2>2 DEF Request, Pc
  <2>4. req' = [req EXCEPT ![h] = r] /\ r.id \in 1..begun'
    BY <1>0, <1>1, <1>3, <2>1, <2>3 DEF Goto, TypeOK
  <2>5. faults' \in 0..MaxFaults
    BY <1>0, <1>1, FaultFacts
  <2>6. /\ claim' \in 0..ClaimTTL /\ creds' \in Nat /\ begun <= begun' /\ begun' \in 0..MaxSessions
        /\ session' \in {NoSession} \cup [id : 1..begun', ttl : 1..SessionTTL]
    BY <1>0, <1>1, <1>3, NumberFacts DEF TypeOK
  <2>7. TypeOK' /\ req'[h] = r /\ \A g \in Handler : g # h => req'[g] = req[g]
    BY <1>0, <2>3, <2>4, <2>5, <2>6, TypeStep
  <2>8. ASSUME NEW g \in Handler PROVE req[g].pc # "create"
    <3>1. req[g].age \in Nat /\ req[g].age <= Latency
      BY <1>0, RequestFacts
    <3>2. req[g].pc = "create" => ClaimTTL <= claim + req[g].age
      BY <1>0 DEF ClaimInv
    <3> QED
      BY <1>0, <1>3, <3>1, <3>2, NumberFacts
  <2>9. ~Creating
    BY <2>8 DEF Creating
  <2>10. ClaimInv'
    <3>1. \A g \in Handler : req'[g].pc = "create" => g = h
      BY <2>7, <2>8
    <3>2. ClaimTTL <= claim' + req'[h].age
      BY <1>0, <1>3, <2>2, <2>3, <2>7, NumberFacts
    <3> QED
      BY <3>1, <3>2 DEF ClaimInv
  <2>11. creds # MaxPasskeys => Slack = 0
    BY DEF Slack
  <2>12. creds <= MaxPasskeys
    <3>1. creds >= MaxPasskeys => Latency + 1 <= Due + req[h].age
      BY <1>0, <1>1 DEF WaitInv
    <3>2. Due = Slack
      BY <1>0, <1>3, SlackFacts
    <3>3. creds <= MaxPasskeys + 1
      BY <1>0 DEF LimitInv
    <3> QED
      BY <1>0, <2>2, <2>11, <3>1, <3>2, <3>3, NumberFacts
  <2>13. LimitInv'
    <3>1. creds' <= MaxPasskeys + 1 /\ creds' # MaxPasskeys + 1
      BY <1>0, <1>1, <2>12, NumberFacts
    <3> QED
      BY <3>1 DEF LimitInv
  <2>14. PICK x, e \in Nat : x = Slack' /\ e = Due' /\ e = claim' + x
    BY <2>7, NextFacts
  <2>15. creds >= MaxPasskeys => Due <= e
    <3>1. Slack <= ClaimTTL
      BY <1>0, NumberFacts DEF Slack
    <3>2. Slack \in Nat /\ Due = Slack
      BY <1>0, <1>3, SlackFacts
    <3>3. e = ClaimTTL + x
      BY <1>3, <2>14
    <3> QED
      BY <1>0, <3>1, <3>2, <3>3, NumberFacts
  <2>16. WaitInv'
    <3> SUFFICES ASSUME creds >= MaxPasskeys
                 PROVE  /\ session.ttl > 0 => session.ttl + Latency <= e
                        /\ \A g \in Handler :
                              /\ req'[g].pc = "store" => 2 * Latency + SessionTTL <= e + req'[g].age
                              /\ req'[g].pc = "claim" => Latency + 1 <= e + req'[g].age
      BY <1>1, <2>14 DEF WaitInv
    <3>1. PICK d \in Nat : d = Due /\ d <= e
      BY <1>0, <2>15, SlackFacts
    <3>2. session.ttl > 0 => session.ttl + Latency <= e
      <4>1. session.ttl > 0 => session.ttl + Latency <= d
        BY <1>0, <3>1 DEF WaitInv
      <4> QED
        BY <1>0, <3>1, <4>1, NumberFacts, SessionFacts
    <3>3. ASSUME NEW g \in Handler
          PROVE  /\ req'[g].pc = "store" => 2 * Latency + SessionTTL <= e + req'[g].age
                 /\ req'[g].pc = "claim" => Latency + 1 <= e + req'[g].age
      <4>1. /\ req'[g].pc = "store" => 2 * Latency + SessionTTL <= d + req'[g].age
            /\ req'[g].pc = "claim" => Latency + 1 <= d + req'[g].age
        BY <1>0, <2>3, <2>7, <3>1 DEF WaitInv
      <4>2. req'[g].age \in Nat
        BY <2>7, NextFacts
      <4> QED
        BY <1>0, <3>1, <4>1, <4>2, NumberFacts
    <3> QED
      BY <3>2, <3>3
  <2> QED
    BY <2>7, <2>10, <2>13, <2>16 DEF IInv
<1> QED
  BY <1>2, <1>3 DEF ClaimSession

(* A passkey is created.  At the limit, the claim that is still held and   *)
(* one more outlast every ceremony that was begun before.                  *)
LEMMA CreatedIInv ==
    ASSUME IInv, NEW h \in Handler, NEW r \in Request, req[h].pc = "create",
           r.pc \in {"idle", "delete"}, r.pc # "idle" => r.id = req[h].id,
           req' = [req EXCEPT ![h] = r], creds' = creds + 1, faults' \in 0..MaxFaults,
           UNCHANGED <<session, claim, begun>>
    PROVE  IInv'
<1>0. TypeOK /\ ClaimInv /\ WaitInv /\ LimitInv
  BY DEF IInv
<1>1. r.pc # "idle" => r.id \in 1..begun'
  BY <1>0 DEF TypeOK
<1>2. /\ claim' \in 0..ClaimTTL /\ creds' \in Nat /\ begun <= begun' /\ begun' \in 0..MaxSessions
      /\ session' \in {NoSession} \cup [id : 1..begun', ttl : 1..SessionTTL]
  BY <1>0, NumberFacts DEF TypeOK
<1>3. TypeOK' /\ req'[h] = r /\ \A g \in Handler : g # h => req'[g] = req[g]
  BY <1>0, <1>1, <1>2, TypeStep
<1>4. Creating
  BY DEF Creating
<1>5. \A g \in Handler : req'[g].pc # "create"
  BY <1>0, <1>3 DEF ClaimInv
<1>6. ClaimInv' /\ ~Creating'
  BY <1>5 DEF ClaimInv, Creating
<1>7. creds <= MaxPasskeys
  <2>1. creds <= MaxPasskeys + 1 /\ creds # MaxPasskeys + 1
    BY <1>0, <1>4 DEF LimitInv
  <2> QED
    BY <1>0, <2>1, NumberFacts
<1>8. LimitInv'
  <2>1. creds' <= MaxPasskeys + 1
    BY <1>0, <1>7, NumberFacts
  <2> QED
    BY <1>6, <2>1 DEF LimitInv
<1>9. PICK x, e \in Nat : x = Slack' /\ e = Due' /\ e = claim' + x
  BY <1>3, NextFacts
<1>10. PICK a \in Nat : a = req[h].age /\ a <= Latency /\ ClaimTTL <= claim + a
  BY <1>0, RequestFacts DEF ClaimInv
<1>11. WaitInv'
  <2> SUFFICES ASSUME creds' >= MaxPasskeys
               PROVE  /\ session.ttl > 0 => session.ttl + Latency <= e
                      /\ \A g \in Handler :
                            /\ req'[g].pc = "store" => 2 * Latency + SessionTTL <= e + req'[g].age
                            /\ req'[g].pc = "claim" => Latency + 1 <= e + req'[g].age
    BY <1>9 DEF WaitInv
  <2>1. \A g \in Handler : req'[g].age \in Nat
    BY <1>3, NextFacts
  <2>2. CASE creds' = MaxPasskeys
    <3>1. x = ClaimTTL
      BY <1>6, <1>9, <2>2 DEF Slack
    <3>2. e = claim + ClaimTTL
      BY <1>9, <3>1
    <3>3. 2 * Latency + SessionTTL <= e /\ Latency + 1 <= e /\ SessionTTL + Latency <= e
      BY <1>0, <1>10, <3>2, NumberFacts
    <3> QED
      BY <1>0, <2>1, <3>3, NumberFacts, SessionFacts
  <2>3. CASE creds' # MaxPasskeys
    <3>1. creds = MaxPasskeys
      BY <1>0, <1>7, <2>3, NumberFacts
    <3>2. Slack = 0 /\ x = 0
      BY <1>4, <1>9, <2>3 DEF Slack
    <3>3. Due = e
      BY <1>9, <3>2 DEF Due
    <3>4. creds >= MaxPasskeys
      BY <1>0, <3>1, NumberFacts
    <3> QED
      BY <1>0, <1>3, <3>3, <3>4 DEF WaitInv
  <2> QED
    BY <2>2, <2>3
<1> QED
  BY <1>3, <1>6, <1>8, <1>11 DEF IInv

LEMMA CreateCredentialIInv == ASSUME IInv, NEW h \in Handler, CreateCredential(h) PROVE IInv'
<1>0. TypeOK /\ req[h] \in Request
  BY RequestFacts DEF IInv
<1>1. req[h].pc = "create" /\ UNCHANGED <<session, claim, begun>> /\ (Fault \/ NoFault)
  BY DEF CreateCredential
<1>2. faults' \in 0..MaxFaults
  BY <1>0, <1>1, FaultFacts
<1>3. CASE creds' = creds + 1 /\ Goto(h, "delete")
  <2>1. PICK r : r = [req[h] EXCEPT !.pc = "delete"]
    OBVIOUS
  <2>2. r \in Request /\ r.pc = "delete" /\ r.id = req[h].id
    BY <1>0, <2>1 DEF Request, Pc
  <2>3. req' = [req EXCEPT ![h] = r]
    BY <1>0, <1>3, <2>1 DEF Goto, TypeOK
  <2> QED
    BY <1>1, <1>2, <1>3, <2>2, <2>3, CreatedIInv
<1>4. CASE creds' = creds + 1 /\ Respond(h)
  BY <1>1, <1>2, <1>4, NoRequestFacts, CreatedIInv DEF Respond
<1>5. CASE creds' = creds /\ Respond(h)
  BY <1>1, <1>5, RespondIInv
<1> QED
  BY <1>3, <1>4, <1>5 DEF CreateCredential, CreatePasskeyCredential

(* Time runs for the claim, the session and the requests alike.            *)
LEMMA TickIInv == ASSUME IInv, Tick PROVE IInv'
<1>0. TypeOK /\ ClaimInv /\ WaitInv /\ LimitInv
  BY DEF IInv
<1>1. /\ UNCHANGED <<creds, begun, faults>>
      /\ claim' = (IF claim > 0 THEN claim - 1 ELSE 0)
      /\ session' = IF session.ttl > 1 THEN [session EXCEPT !.ttl = session.ttl - 1] ELSE NoSession
  BY DEF Tick
<1>2. req' = [h \in Handler |-> IF req[h].pc = "idle" THEN req[h]
                                ELSE [req[h] EXCEPT !.age = req[h].age + 1]]
  BY DEF Tick
<1>3. ASSUME NEW h \in Handler
      PROVE  /\ req'[h] \in Request /\ req'[h].pc = req[h].pc /\ req'[h].id = req[h].id
             /\ req[h].pc # "idle" => req'[h].age = req[h].age + 1 /\ req[h].age < Latency
  <2>1. req[h] \in Request /\ req[h].age \in Nat /\ Latency \in Nat
    BY <1>0, RequestFacts, NumberFacts
  <2>2. CASE req[h].pc = "idle"
    BY <1>2, <2>1, <2>2
  <2>3. CASE req[h].pc # "idle"
    <3>1. req[h].age < Latency
      BY <2>3 DEF Tick
    <3>2. req[h].age + 1 \in 0..Latency
      BY <2>1, <3>1
    <3>3. req'[h] = [req[h] EXCEPT !.age = req[h].age + 1]
      BY <1>2, <2>3
    <3> QED
      BY <2>1, <2>3, <3>1, <3>2, <3>3 DEF Request
  <2> QED
    BY <2>2, <2>3
<1>4. /\ claim' \in 0..ClaimTTL /\ claim' \in Nat /\ claim <= claim' + 1
  BY <1>0, <1>1, NumberFacts
<1>5. /\ session' \in {NoSession} \cup [id : 1..begun', ttl : 1..SessionTTL]
      /\ session'.ttl > 0 => session.ttl > 0 /\ session'.ttl + 1 = session.ttl
  <2>1. CASE session.ttl > 1
    <3>1. session \in [id : 1..begun, ttl : 1..SessionTTL]
      BY <1>0, <2>1, NoSessionFacts DEF TypeOK
    <3>2. session' = [session EXCEPT !.ttl = session.ttl - 1]
      BY <1>1, <2>1
    <3>3. session.ttl - 1 \in 1..SessionTTL /\ session.ttl \in Nat
      BY <1>0, <2>1, SessionFacts, NumberFacts
    <3>4. session' \in [id : 1..begun, ttl : 1..SessionTTL] /\ session'.ttl = session.ttl - 1
      BY <3>1, <3>2, <3>3
    <3> QED
      BY <1>1, <2>1, <3>3, <3>4
  <2>2. CASE ~(session.ttl > 1)
    BY <1>1, <2>2, NoSessionFacts
  <2> QED
    BY <2>1, <2>2
<1>6. TypeOK'
  <2>1. req' \in [Handler -> Request]
    BY <1>2, <1>3
  <2>2. \A h \in Handler : req'[h].pc # "idle" => req'[h].id \in 1..begun'
    BY <1>0, <1>1, <1>3 DEF TypeOK
  <2> QED
    BY <1>0, <1>1, <1>4, <1>5, <2>1, <2>2 DEF TypeOK
<1>7. ClaimInv'
  <2>1. ASSUME NEW h \in Handler, req'[h].pc = "create" PROVE ClaimTTL <= claim' + req'[h].age
    <3>1. /\ req'[h].age = req[h].age + 1 /\ req[h].age \in Nat
          /\ ClaimTTL <= claim + req[h].age
      BY <1>0, <1>3, <2>1, RequestFacts DEF ClaimInv
    <3> QED
      BY <1>0, <1>4, <3>1, NumberFacts
  <2>2. \A g, h \in Handler : req'[g].pc = "create" /\ req'[h].pc = "create" => g = h
    BY <1>0, <1>3 DEF ClaimInv
  <2> QED
    BY <2>1, <2>2 DEF ClaimInv
<1>8. Creating' <=> Creating
  BY <1>3 DEF Creating
<1>9. LimitInv'
  BY <1>0, <1>1, <1>8 DEF LimitInv
<1>10. PICK d \in Nat : d = Due
  BY <1>0, SlackFacts
<1>11. PICK x, e \in Nat : x = Slack' /\ e = Due' /\ e = claim' + x
  BY <1>6, NextFacts
<1>12. d <= e + 1
  <2>1. x = Slack
    BY <1>1, <1>8, <1>11 DEF Slack
  <2>2. d = claim + x
    BY <1>0, <1>10, <2>1, SlackFacts
  <2>3. e = claim' + x
    BY <1>11
  <2> QED
    BY <1>0, <1>4, <2>2, <2>3, NumberFacts
<1>13. WaitInv'
  <2> SUFFICES ASSUME creds >= MaxPasskeys
               PROVE  /\ session'.ttl > 0 => session'.ttl + Latency <= e
                      /\ \A h \in Handler :
                            /\ req'[h].pc = "store" => 2 * Latency + SessionTTL <= e + req'[h].age
                            /\ req'[h].pc = "claim" => Latency + 1 <= e + req'[h].age
    BY <1>1, <1>11 DEF WaitInv
  <2>1. session'.ttl > 0 => session'.ttl + Latency <= e
    <3>1. session'.ttl > 0 => session.ttl + Latency <= d /\ session'.ttl + 1 = session.ttl
      BY <1>0, <1>5, <1>10 DEF WaitInv
    <3>2. session'.ttl \in Nat /\ session.ttl \in Nat /\ Latency \in Nat
      BY <1>0, <1>6, NumberFacts, SessionFacts, NextFacts
    <3> QED
      BY <1>12, <3>1, <3>2
  <2>2. ASSUME NEW h \in Handler
        PROVE  /\ req'[h].pc = "store" => 2 * Latency + SessionTTL <= e + req'[h].age
               /\ req'[h].pc = "claim" => Latency + 1 <= e + req'[h].age
    <3>1. /\ req'[h].pc = "store" => 2 * Latency + SessionTTL <= d + req[h].age
          /\ req'[h].pc = "claim" => Latency + 1 <= d + req[h].age
          /\ req'[h].pc \in {"store", "claim"} => req'[h].age = req[h].age + 1
      BY <1>0, <1>3, <1>10 DEF WaitInv
    <3>2. req[h].age \in Nat /\ Latency \in Nat /\ SessionTTL \in Nat
      BY <1>0, NumberFacts, RequestFacts
    <3> QED
      BY <1>12, <3>1, <3>2
  <2> QED
    BY <2>1, <2>2
<1> QED
  BY <1>6, <1>7, <1>9, <1>13 DEF IInv

-----------------------------------------------------------------------------
LEMMA NextIInv == ASSUME IInv, [Next]_vars PROVE IInv'
<1>1. CASE UNCHANGED vars
  BY <1>1 DEF vars, IInv, TypeOK, ClaimInv, WaitInv, LimitInv, Due, Slack, Creating
<1>2. CASE Tick
  BY <1>2, TickIInv
<1>3. ASSUME NEW h \in Handler,
             \/ RegisterBegin(h) \/ RegisterRefused(h) \/ StoreSession(h)
             \/ \E id \in 1..MaxSessions : RegisterComplete(h, id)
             \/ ClaimSession(h) \/ CreateCredential(h) \/ DeleteSession(h) \/ Crash(h)
      PROVE  IInv'
  <2>1. CASE RegisterBegin(h)
    BY <2>1, RegisterBeginIInv
  <2>2. CASE RegisterRefused(h)
    BY <1>1, <2>2 DEF RegisterRefused
  <2>3. CASE StoreSession(h)
    BY <2>3, StoreSessionIInv
  <2>4. CASE \E id \in 1..MaxSessions : RegisterComplete(h, id)
    BY <2>4, RegisterCompleteIInv
  <2>5. CASE ClaimSession(h)
    BY <2>5, ClaimSessionIInv
  <2>6. CASE CreateCredential(h)
    BY <2>6, CreateCredentialIInv
  <2>7. CASE DeleteSession(h)
    BY <2>7, RespondIInv DEF DeleteSession, MayFault
  <2>8. CASE Crash(h)
    BY <2>8, RespondIInv DEF Crash
  <2> QED
    BY <1>3, <2>1, <2>2, <2>3, <2>4, <2>5, <2>6, <2>7, <2>8
<1> QED
  BY <1>1, <1>2, <1>3 DEF Next

LEMMA Invariance == Spec => []IInv
  BY InitIInv, NextIInv, PTL DEF Spec

-----------------------------------------------------------------------------
(* Every variable keeps its type: the session and every request belong to  *)
(* a ceremony that was begun.                                              *)
THEOREM TypeCorrect == Spec => []TypeOK
<1>1. IInv => TypeOK
  BY DEF IInv
<1> QED
  BY <1>1, Invariance, PTL

(* The limit of PasskeyRegisterBeginHandler, which no completion checks    *)
(* again: overlapping ceremonies exceed it by one passkey at most, because *)
(* ClaimSession is keyed by the user.                                      *)
THEOREM LimitIsExceededByAtMostOne == Spec => []LimitExceededByAtMostOne
<1>1. IInv => LimitExceededByAtMostOne
  BY DEF IInv, LimitInv, LimitExceededByAtMostOne
<1> QED
  BY <1>1, Invariance, PTL
=============================================================================
