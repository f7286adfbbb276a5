------------------------- MODULE PasskeyLoginProofs -------------------------
(***************************************************************************)
(* Proofs about PasskeyLogin, for any number of handlers, ceremonies and   *)
(* faults and any TTLs: a challenge logs in at most once unless deleting   *)
(* its session failed, a login that does repeat is flagged, and a ban is   *)
(* only missed when the lookup failed.                                     *)
(***************************************************************************)
EXTENDS PasskeyLogin, TLAPS

(* The requests that have claimed their challenge.                         *)
Holding == {"update", "delete", "ban", "sign"}

Used == {logins[i].ch : i \in DOMAIN logins}

(* A login with c has written its count, or is past writing it.            *)
Updated(c) ==
    \/ c \in Used
    \/ \E g \in Handler : req[g].pc \in {"delete", "ban", "sign"} /\ req[g].ch = c

(* A login with c has deleted the session.                                 *)
Cleared(c) ==
    /\ c \notin kept
    /\ \/ c \in Used
       \/ \E g \in Handler : req[g].pc \in {"ban", "sign"} /\ req[g].ch = c

(* The claim on c outlasts request h, although h may have begun before the *)
(* request that claimed c did its work.                                    *)
Outlasts(c, h) == claim[c] + req[h].age + Latency >= ClaimTTL

(* A claim lives at least as long as the request that made it can still    *)
(* take, so nobody else has the challenge meanwhile.                       *)
HoldInv ==
    /\ \A h \in Handler :
          req[h].pc \in Holding => claim[req[h].ch] + req[h].age >= ClaimTTL
    /\ \A g, h \in Handler :
          (g # h /\ req[g].pc \in Holding /\ req[h].pc \in Holding) => req[g].ch # req[h].ch

(* Once its session is deleted nobody begins to complete a challenge, and  *)
(* those that began before meet the claim.                                 *)
ClearInv ==
    \A c \in Challenge : Cleared(c) =>
        /\ session[c] = 0
        /\ \A h \in Handler :
              (req[h].pc \in {"list", "claim"} /\ req[h].ch = c) => Outlasts(c, h)

(* Where counts tell, the stored count is at least that of every login,    *)
(* and a request without a warning read it before, and meets the claim.    *)
(* The count of a synced passkey stays 0, and nobody is warned.            *)
CountInv ==
    /\ \A c \in Challenge : (CountTells(c) /\ Updated(c)) =>
          /\ c <= count
          /\ \A h \in Handler :
                (req[h].pc = "claim" /\ req[h].ch = c /\ req[h].clone = "no")
                   => Outlasts(c, h)
    /\ \A h \in Handler :
          (req[h].pc \in Holding /\ req[h].clone = "no" /\ CountTells(req[h].ch))
             => req[h].ch \notin Used
    /\ passkey = "synced" => count = 0 /\ \A h \in Handler : req[h].clone = "no"

(* What a request remembers of a ban is still so.                          *)
BanInv ==
    /\ \A h \in Handler : req[h].was = "banned" => banned = "banned"
    /\ BanStopsLogin

IInv == TypeOK /\ HoldInv /\ ClearInv /\ CountInv /\ ReplayIsFlagged /\ BanInv

-----------------------------------------------------------------------------
(* The initial state.                                                      *)
LEMMA InitIInv == Init => IInv
<1> SUFFICES ASSUME Init PROVE IInv
  OBVIOUS
<1> USE TTLAssumption, BoundsAssumption
<1>1. TypeOK
  BY DEF Init, TypeOK, Request, NoRequest, Pc, Challenge
<1>2. Used = {}
  BY DEF Init, Used
<1>3. HoldInv /\ ClearInv /\ CountInv
  BY <1>2 DEF Init, HoldInv, ClearInv, CountInv, Cleared, Updated, Holding, NoRequest
<1>4. ReplayIsFlagged /\ BanInv
  BY DEF Init, ReplayIsFlagged, BanInv, BanStopsLogin, NoRequest
<1> QED
  BY <1>1, <1>3, <1>4 DEF IInv

(* What the type invariant says of one request and of one challenge.       *)
LEMMA RequestFacts ==
    ASSUME TypeOK, NEW h \in Handler
    PROVE  /\ req[h] \in Request
           /\ req[h].pc \in Pc
           /\ req[h].age \in Nat /\ req[h].age <= Latency
           /\ req[h].pc # "idle" => req[h].ch \in Challenge /\ req[h].ch \in 1..begun
<1>1. req[h] \in Request /\ (req[h].pc # "idle" => req[h].ch \in 1..begun)
  BY DEF TypeOK
<1>2. 1..begun \subseteq Challenge
  BY BoundsAssumption DEF TypeOK, Challenge
<1> QED
  BY <1>1, <1>2, BoundsAssumption DEF Request

LEMMA ChallengeFacts ==
    ASSUME TypeOK
    PROVE  /\ \A c \in Challenge : claim[c] \in Nat /\ claim[c] <= ClaimTTL
           /\ \A c \in Challenge : session[c] \in Nat /\ c \in Nat /\ c # 0
           /\ ClaimTTL \in Nat /\ Latency \in Nat /\ 2 * Latency < ClaimTTL
           /\ begun \in Nat /\ count \in Nat /\ begun <= MaxChallenges /\ MaxChallenges \in Nat
  BY TTLAssumption, BoundsAssumption, LatencyAssumption DEF TypeOK, Challenge

(* The elements of a sequence over a set are in the set.                   *)
LEMMA SeqElement ==
    ASSUME NEW S, NEW s \in Seq(S), NEW i \in DOMAIN s
    PROVE  s[i] \in S
  OBVIOUS

LEMMA SeqMonotonic ==
    ASSUME NEW S, NEW T, S \subseteq T, NEW s \in Seq(S)
    PROVE  s \in Seq(T)
  OBVIOUS

(* A challenge that was used is one that was begun.                        *)
LEMMA UsedFacts ==
    ASSUME TypeOK
    PROVE  Used \subseteq 1..begun /\ kept \subseteq 1..begun
<1>1. ASSUME NEW i \in DOMAIN logins PROVE logins[i].ch \in 1..begun
  <2>1. logins[i] \in [ch : 1..begun, clone : {"no", "warned"}]
    BY <1>1, SeqElement DEF TypeOK
  <2> QED
    BY <2>1
<1> QED
  BY <1>1 DEF Used, TypeOK

(* A claim that is held outlasts every request that is being served.       *)
LEMMA ClaimOutlasts ==
    ASSUME TypeOK, HoldInv, NEW h \in Handler, req[h].pc \in Holding, NEW g \in Handler
    PROVE  Outlasts(req[h].ch, g)
<1>1. PICK c \in Challenge : c = req[h].ch
  BY RequestFacts DEF Holding
<1>2. claim[c] + req[h].age >= ClaimTTL
  BY <1>1 DEF HoldInv
<1>3. /\ req[h].age \in Nat /\ req[h].age <= Latency /\ req[g].age \in Nat
      /\ claim[c] \in Nat /\ ClaimTTL \in Nat /\ Latency \in Nat
  BY RequestFacts, ChallengeFacts
<1> QED
  BY <1>1, <1>2, <1>3 DEF Outlasts

(* The assumptions under which a step that changes one request, and not    *)
(* the login history, keeps ReplayIsFlagged.                               *)
LEMMA ReplayFrame ==
    ASSUME ReplayIsFlagged, logins' = logins, passkey' = passkey, undercut \subseteq undercut'
    PROVE  ReplayIsFlagged' /\ Used' = Used
  BY DEF ReplayIsFlagged, CountTells, Used

(* Writing a count: where it still tells, it has not become smaller than   *)
(* that of the challenge.                                                  *)
LEMMA UpdateFacts ==
    ASSUME TypeOK, NEW c \in 1..begun, UpdatePasskeyCredential(c)
    PROVE  /\ count' \in 0..begun /\ undercut' \in SUBSET Challenge
           /\ undercut \subseteq undercut'
           /\ passkey = "counting" => count' = c
           /\ passkey = "synced" => count' = 0
           /\ \A d \in Challenge : (d <= count /\ d \notin undercut') => d <= count'
<1>1. /\ count' = Reported(c)
      /\ undercut' = undercut \cup {d \in Challenge : Reported(c) < d /\ d <= count}
  BY DEF UpdatePasskeyCredential
<1>2. Reported(c) \in 0..begun /\ begun \in Nat
  BY ChallengeFacts DEF Reported
<1>3. ASSUME NEW d \in Challenge, d <= count, d \notin undercut' PROVE d <= count'
  BY <1>1, <1>2, <1>3, ChallengeFacts
<1> QED
  BY <1>1, <1>2, <1>3 DEF Reported, TypeOK

(* An answer ends a request.  A call whose answer was lost may have set a  *)
(* claim or the count before.                                              *)
LEMMA RespondIInv ==
    ASSUME IInv, NEW h \in Handler, Respond(h), req[h].pc # "idle",
           UNCHANGED <<session, begun, banned, passkey, logins, kept>>,
           faults' \in 0..MaxFaults,
           claim' = claim \/ claim' = [claim EXCEPT ![req[h].ch] = ClaimTTL],
           UNCHANGED <<count, undercut>> \/ UpdatePasskeyCredential(req[h].ch)
    PROVE  IInv'
<1>0. TypeOK /\ HoldInv /\ ClearInv /\ CountInv /\ ReplayIsFlagged /\ BanInv
  BY DEF IInv
<1>1. /\ \A g \in Handler : req'[g] = IF g = h THEN NoRequest ELSE req[g]
      /\ NoRequest.pc = "idle" /\ NoRequest.was = "clear" /\ NoRequest.clone = "no"
      /\ req' = [req EXCEPT ![h] = NoRequest] /\ NoRequest \in Request
  <2>1. req' = [req EXCEPT ![h] = NoRequest]
    BY DEF Respond
  <2>2. \A g \in Handler : req'[g] = IF g = h THEN NoRequest ELSE req[g]
    BY <1>0, <2>1 DEF TypeOK
  <2>3. /\ NoRequest.pc = "idle" /\ NoRequest.was = "clear" /\ NoRequest.clone = "no"
        /\ NoRequest \in Request
    BY BoundsAssumption DEF NoRequest, Request, Pc
  <2> QED
    BY <2>1, <2>2, <2>3
<1>2. PICK c \in Challenge : c = req[h].ch /\ c \in 1..begun
  BY <1>0, RequestFacts
<1>3. /\ \A d \in Challenge : claim'[d] \in Nat /\ claim'[d] >= claim[d] /\ claim'[d] <= ClaimTTL
      /\ claim' \in [Challenge -> 0..ClaimTTL]
      /\ \A d \in Challenge : d # c => claim'[d] = claim[d]
  <2>1. claim \in [Challenge -> 0..ClaimTTL] /\ ClaimTTL \in Nat
    BY <1>0, ChallengeFacts DEF TypeOK
  <2>2. CASE claim' = claim
    BY <2>1, <2>2
  <2>3. CASE claim' = [claim EXCEPT ![c] = ClaimTTL]
    BY <2>1, <2>3
  <2> QED
    BY <1>2, <2>2, <2>3
<1>4. /\ count' \in 0..begun /\ undercut' \in SUBSET Challenge /\ undercut \subseteq undercut'
      /\ passkey = "synced" => count' = 0 \/ count' = count
      /\ \A d \in Challenge : (d <= count /\ d \notin undercut') => d <= count'
  <2>1. CASE UNCHANGED <<count, undercut>>
    BY <1>0, <2>1 DEF TypeOK
  <2>2. CASE UpdatePasskeyCredential(c)
    BY <1>0, <1>2, <2>2, UpdateFacts
  <2> QED
    BY <1>2, <2>1, <2>2
<1>5. TypeOK'
  <2>1. \A d \in Challenge : d > begun => session'[d] = 0 /\ claim'[d] = 0
    <3>1. begun \in Nat /\ c \in Nat /\ c <= begun
      BY <1>0, <1>2, ChallengeFacts
    <3>2. \A d \in Challenge : d \in Nat /\ (d > begun => session[d] = 0 /\ claim[d] = 0)
      BY <1>0, ChallengeFacts DEF TypeOK
    <3> QED
      BY <1>3, <3>1, <3>2
  <2>2. /\ req' \in [Handler -> Request]
        /\ \A g \in Handler : req'[g].pc # "idle" => req'[g].ch \in 1..begun
    BY <1>0, <1>1 DEF TypeOK
  <2> QED
    BY <1>0, <1>3, <1>4, <2>1, <2>2 DEF TypeOK
<1>6. ReplayIsFlagged' /\ Used' = Used
  BY <1>0, <1>4, ReplayFrame
<1>7. HoldInv'
  BY <1>0, <1>1, <1>3, RequestFacts, ChallengeFacts DEF HoldInv, Holding
<1>8. ASSUME NEW d \in Challenge PROVE (Cleared(d)' => Cleared(d)) /\ (Updated(d)' => Updated(d))
  BY <1>1, <1>6 DEF Cleared, Updated
<1>9. ASSUME NEW d \in Challenge, NEW g \in Handler, g # h PROVE Outlasts(d, g) => Outlasts(d, g)'
  BY <1>0, <1>1, <1>3, <1>9, RequestFacts, ChallengeFacts DEF Outlasts
<1>10. ClearInv'
  BY <1>0, <1>1, <1>8, <1>9 DEF ClearInv
<1>11. CountInv'
  BY <1>0, <1>1, <1>4, <1>6, <1>8, <1>9 DEF CountInv, CountTells, Holding
<1>12. BanInv'
  BY <1>0, <1>1 DEF BanInv, BanStopsLogin
<1> QED
  BY <1>5, <1>6, <1>7, <1>10, <1>11, <1>12 DEF IInv

(* A request that goes on to its next call keeps all it knows.             *)
LEMMA GotoFacts ==
    ASSUME TypeOK, NEW h \in Handler, NEW x \in Pc, Goto(h, x), req[h].pc # "idle"
    PROVE  /\ req' \in [Handler -> Request]
           /\ \A g \in Handler :
                 /\ req'[g].pc = IF g = h THEN x ELSE req[g].pc
                 /\ req'[g].ch = req[g].ch
                 /\ req'[g].age = req[g].age
                 /\ req'[g].was = req[g].was
                 /\ req'[g].gate = req[g].gate
                 /\ req'[g].clone = req[g].clone
           /\ \A g \in Handler : req'[g].pc # "idle" => req'[g].ch \in 1..begun
<1>1. req \in [Handler -> Request] /\ \A g \in Handler : req[g].pc # "idle" => req[g].ch \in 1..begun
  BY DEF TypeOK
<1>2. req' = [req EXCEPT ![h] = [req[h] EXCEPT !.pc = x]]
  BY DEF Goto
<1> QED
  BY <1>1, <1>2 DEF Request

(* The clock: a claim loses one tick, a request gains one.                 *)
LEMMA TickIInv == ASSUME IInv, Tick PROVE IInv'
<1>0. TypeOK /\ HoldInv /\ ClearInv /\ CountInv /\ ReplayIsFlagged /\ BanInv
  BY DEF IInv
<1>1. UNCHANGED <<count, begun, banned, passkey, faults, logins, kept, undercut>>
  BY DEF Tick, history
<1>2. \A c \in Challenge : /\ session'[c] = Older(session[c])
                           /\ claim'[c] = Older(claim[c])
  BY DEF Tick
<1>3. ASSUME NEW g \in Handler
      PROVE  /\ req'[g] \in Request
             /\ req'[g].pc = req[g].pc /\ req'[g].ch = req[g].ch
             /\ req'[g].was = req[g].was /\ req'[g].gate = req[g].gate
             /\ req'[g].clone = req[g].clone
             /\ req[g].pc # "idle" => req'[g].age = req[g].age + 1
  <2>1. req[g] \in Request /\ req[g].age \in Nat
    BY <1>0, RequestFacts
  <2>2. CASE req[g].pc = "idle"
    <3>1. req'[g] = req[g]
      BY <2>2 DEF Tick
    <3> QED
      BY <2>1, <2>2, <3>1
  <2>3. CASE req[g].pc # "idle"
    <3>1. req[g].age + 1 \in 0..Latency
      BY <2>1, <2>3, BoundsAssumption DEF Tick, Request
    <3>2. PICK a \in 0..Latency : a = req[g].age + 1
      BY <3>1
    <3>3. req'[g] = [req[g] EXCEPT !.age = a]
      BY <2>3, <3>2 DEF Tick
    <3> QED
      BY <2>1, <3>2, <3>3 DEF Request
  <2> QED
    BY <2>2, <2>3
<1>4. ASSUME NEW c \in Challenge
      PROVE  /\ session'[c] \in 0..SessionTTL /\ (session[c] = 0 => session'[c] = 0)
             /\ claim'[c] \in 0..ClaimTTL /\ claim'[c] + 1 >= claim[c]
             /\ claim[c] = 0 => claim'[c] = 0
  <2>1. session[c] \in 0..SessionTTL /\ claim[c] \in 0..ClaimTTL
    BY <1>0 DEF TypeOK
  <2> QED
    BY <1>2, <2>1, TTLAssumption DEF Older
<1>5. TypeOK'
  <2>1. session' \in [Challenge -> 0..SessionTTL] /\ claim' \in [Challenge -> 0..ClaimTTL]
    BY <1>4 DEF Tick
  <2>2. req' \in [Handler -> Request]
    BY <1>3 DEF Tick
  <2> QED
    BY <1>0, <1>1, <1>3, <1>4, <2>1, <2>2 DEF TypeOK
<1>6. ReplayIsFlagged' /\ Used' = Used
  BY <1>0, <1>1, ReplayFrame
<1>7. HoldInv'
  <2>1. ASSUME NEW g \in Handler, req[g].pc \in Holding
        PROVE  claim'[req[g].ch] + req'[g].age >= ClaimTTL
    <3>1. PICK c \in Challenge : c = req[g].ch
      BY <1>0, <2>1, RequestFacts DEF Holding
    <3>2. claim[c] \in Nat /\ claim'[c] \in Nat /\ claim'[c] + 1 >= claim[c] /\ ClaimTTL \in Nat
      BY <1>0, <1>4, ChallengeFacts
    <3>3. req[g].age \in Nat /\ req'[g].age = req[g].age + 1
      BY <1>0, <1>3, <2>1, RequestFacts DEF Holding
    <3>4. claim[c] + req[g].age >= ClaimTTL
      BY <1>0, <2>1, <3>1 DEF HoldInv
    <3> QED
      BY <3>1, <3>2, <3>3, <3>4
  <2> QED
    BY <1>0, <1>3, <2>1 DEF HoldInv
<1>8. ASSUME NEW c \in Challenge PROVE (Cleared(c)' => Cleared(c)) /\ (Updated(c)' => Updated(c))
  BY <1>1, <1>3, <1>6 DEF Cleared, Updated
<1>9. ASSUME NEW c \in Challenge, NEW g \in Handler, req[g].pc # "idle", Outlasts(c, g)
      PROVE  Outlasts(c, g)'
  <2>1. claim[c] \in Nat /\ claim'[c] \in Nat /\ claim'[c] + 1 >= claim[c]
        /\ ClaimTTL \in Nat /\ Latency \in Nat
    BY <1>0, <1>4, ChallengeFacts
  <2>2. req[g].age \in Nat /\ req'[g].age = req[g].age + 1
    BY <1>0, <1>3, <1>9, RequestFacts
  <2> QED
    BY <1>9, <2>1, <2>2 DEF Outlasts
<1>10. ClearInv'
  BY <1>0, <1>3, <1>4, <1>8, <1>9 DEF ClearInv
<1>11. CountInv'
  BY <1>0, <1>1, <1>3, <1>6, <1>8, <1>9 DEF CountInv, CountTells, Holding
<1>12. BanInv'
  BY <1>0, <1>1, <1>3 DEF BanInv, BanStopsLogin
<1> QED
  BY <1>5, <1>6, <1>7, <1>10, <1>11, <1>12 DEF IInv

(* A ban is recorded, or lapses.                                           *)
LEMMA BanIInv == ASSUME IInv, Ban \/ BanLapses PROVE IInv'
<1>0. TypeOK /\ HoldInv /\ ClearInv /\ CountInv /\ ReplayIsFlagged /\ BanInv
  BY DEF IInv
<1>1. UNCHANGED <<session, claim, count, begun, passkey, faults, logins, kept, undercut>>
  BY DEF Ban, BanLapses, history
<1>2. ASSUME NEW g \in Handler
      PROVE  /\ req'[g] \in Request
             /\ req'[g].pc = req[g].pc /\ req'[g].ch = req[g].ch /\ req'[g].age = req[g].age
             /\ req'[g].gate = req[g].gate /\ req'[g].clone = req[g].clone
             /\ req'[g].was = "banned" => req[g].was = "banned" /\ banned' = "banned"
  <2>1. req[g] \in Request
    BY <1>0, RequestFacts
  <2>2. CASE Ban
    BY <2>1, <2>2 DEF Ban
  <2>3. CASE BanLapses
    <3>1. req'[g] = [req[g] EXCEPT !.was = "clear"]
      BY <2>3 DEF BanLapses
    <3> QED
      BY <2>1, <3>1 DEF Request
  <2> QED
    BY <2>2, <2>3
<1>3. banned' \in {"banned", "clear"} /\ req' \in [Handler -> Request]
  <2>1. req' = [h \in Handler |-> req'[h]]
    BY <1>0 DEF Ban, BanLapses, TypeOK
  <2> QED
    BY <1>2, <2>1 DEF Ban, BanLapses
<1>5. TypeOK'
  BY <1>0, <1>1, <1>2, <1>3 DEF TypeOK
<1>6. ReplayIsFlagged' /\ Used' = Used
  BY <1>0, <1>1, ReplayFrame
<1>7. HoldInv'
  BY <1>0, <1>1, <1>2 DEF HoldInv
<1>8. ASSUME NEW c \in Challenge PROVE (Cleared(c)' => Cleared(c)) /\ (Updated(c)' => Updated(c))
  BY <1>1, <1>2, <1>6 DEF Cleared, Updated
<1>9. ClearInv' /\ CountInv'
  BY <1>0, <1>1, <1>2, <1>6, <1>8 DEF ClearInv, CountInv, CountTells, Outlasts
<1>10. BanInv'
  BY <1>0, <1>2 DEF BanInv, BanStopsLogin
<1> QED
  BY <1>5, <1>6, <1>7, <1>9, <1>10 DEF IInv

(* Begin stores a session under a challenge that nobody has used.          *)
LEMMA LoginBeginIInv ==
    ASSUME IInv, NEW h \in Handler, LoginBegin(h)
    PROVE  IInv'
<1>0. TypeOK /\ HoldInv /\ ClearInv /\ CountInv /\ ReplayIsFlagged /\ BanInv
  BY DEF IInv
<1>1. /\ UNCHANGED <<claim, count, banned, passkey, req, faults, logins, kept, undercut>>
      /\ begun' = begun + 1 /\ begun < MaxChallenges
      /\ session' = [session EXCEPT ![begun + 1] = SessionTTL]
  BY DEF LoginBegin, history
<1>2. /\ begun \in Nat /\ MaxChallenges \in Nat /\ begun' \in 0..MaxChallenges
      /\ 1..begun \subseteq 1..begun' /\ 0..begun \subseteq 0..begun'
  BY <1>0, <1>1, ChallengeFacts
<1>3. /\ session' \in [Challenge -> 0..SessionTTL]
      /\ \A c \in Challenge : c # begun + 1 => session'[c] = session[c]
  <2>1. session \in [Challenge -> 0..SessionTTL] /\ SessionTTL \in 0..SessionTTL
    BY <1>0, TTLAssumption DEF TypeOK
  <2> QED
    BY <1>1, <2>1
<1>4. logins' \in Seq([ch : 1..begun', clone : {"no", "warned"}])
  <2>1. [ch : 1..begun, clone : {"no", "warned"}] \subseteq [ch : 1..begun', clone : {"no", "warned"}]
    BY <1>2
  <2>2. logins \in Seq([ch : 1..begun, clone : {"no", "warned"}]) /\ logins' = logins
    BY <1>0, <1>1 DEF TypeOK
  <2>3. logins \in Seq([ch : 1..begun', clone : {"no", "warned"}])
    BY <2>1, <2>2, SeqMonotonic
  <2> QED
    BY <2>2, <2>3
<1>5. TypeOK'
  <2>1. \A c \in Challenge : c > begun' => session'[c] = 0 /\ claim'[c] = 0
    BY <1>0, <1>1, <1>2, <1>3, ChallengeFacts DEF TypeOK
  <2>2. \A g \in Handler : req'[g].pc # "idle" => req'[g].ch \in 1..begun'
    BY <1>0, <1>1, <1>2 DEF TypeOK
  <2>3. kept' \in SUBSET (1..begun') /\ count' \in 0..begun'
    BY <1>0, <1>1, <1>2 DEF TypeOK
  <2> QED
    BY <1>0, <1>1, <1>2, <1>3, <1>4, <2>1, <2>2, <2>3 DEF TypeOK
<1>6. ReplayIsFlagged' /\ Used' = Used
  BY <1>0, <1>1, ReplayFrame
<1>7. HoldInv' /\ BanInv' /\ CountInv'
  BY <1>0, <1>1, <1>6 DEF HoldInv, BanInv, BanStopsLogin, CountInv, CountTells, Updated, Outlasts
<1>8. ASSUME NEW c \in Challenge, Cleared(c) PROVE c # begun + 1
  <2>1. c \in 1..begun
    BY <1>0, <1>8, UsedFacts, RequestFacts DEF Cleared
  <2> QED
    BY <1>2, <2>1
<1>9. ClearInv'
  <2>1. ASSUME NEW c \in Challenge PROVE Cleared(c)' = Cleared(c)
    BY <1>1, <1>6 DEF Cleared
  <2> QED
    BY <1>0, <1>1, <1>3, <1>8, <2>1 DEF ClearInv, Outlasts
<1> QED
  BY <1>5, <1>6, <1>7, <1>9 DEF IInv

(* Complete begins with a session that is there, so it is not cleared.     *)
LEMMA LoginCompleteIInv ==
    ASSUME IInv, NEW h \in Handler, NEW c \in Challenge, LoginComplete(h, c)
    PROVE  IInv'
<1>0. TypeOK /\ HoldInv /\ ClearInv /\ CountInv /\ ReplayIsFlagged /\ BanInv
  BY DEF IInv
<1>1. UNCHANGED <<session, claim, count, begun, banned, passkey, faults, logins, kept, undercut>>
  BY DEF LoginComplete, history, store
<1>2. session[c] > 0 /\ c \in 1..begun /\ c \in 0..MaxChallenges
  <2>1. session[c] > 0 /\ session[c] \in Nat
    BY <1>0, ChallengeFacts DEF LoginComplete
  <2>2. c \in Nat /\ c # 0 /\ begun \in Nat /\ (c > begun => session[c] = 0)
    BY <1>0, ChallengeFacts DEF TypeOK
  <2> QED
    BY <2>1, <2>2 DEF Challenge
<1>3. PICK r \in Request : /\ r.pc = "list" /\ r.ch = c /\ r.was = banned /\ r.age = 0
                           /\ r.clone = "no" /\ req' = [req EXCEPT ![h] = r]
  <2>1. NoRequest \in Request
    BY BoundsAssumption DEF NoRequest, Request, Pc
  <2>2. PICK n \in Request : n = NoRequest /\ n.age = 0 /\ n.clone = "no"
    BY <2>1 DEF NoRequest
  <2>3. req' = [req EXCEPT ![h] = [n EXCEPT !.pc = "list", !.ch = c, !.was = banned]]
    BY <2>2 DEF LoginComplete
  <2>4. banned \in {"banned", "clear"}
    BY <1>0 DEF TypeOK
  <2> DEFINE r == [n EXCEPT !.pc = "list", !.ch = c, !.was = banned]
  <2>5. r \in Request /\ r.pc = "list" /\ r.ch = c /\ r.was = banned /\ r.age = 0 /\ r.clone = "no"
    BY <1>2, <2>2, <2>4 DEF Request, Pc
  <2> QED
    BY <2>3, <2>5
<1>4. /\ \A g \in Handler : req'[g] = IF g = h THEN r ELSE req[g]
      /\ req' \in [Handler -> Request]
  BY <1>0, <1>3 DEF TypeOK
<1>5. TypeOK'
  BY <1>0, <1>1, <1>2, <1>3, <1>4 DEF TypeOK
<1>6. ReplayIsFlagged' /\ Used' = Used
  BY <1>0, <1>1, ReplayFrame
<1>7. HoldInv'
  BY <1>0, <1>1, <1>3, <1>4 DEF HoldInv, Holding
<1>8. ASSUME NEW d \in Challenge PROVE (Cleared(d)' => Cleared(d)) /\ (Updated(d)' => Updated(d))
  BY <1>1, <1>3, <1>4, <1>6 DEF Cleared, Updated
<1>9. ~Cleared(c)
  BY <1>0, <1>2 DEF ClearInv
<1>10. ClearInv'
  BY <1>0, <1>1, <1>3, <1>4, <1>8, <1>9 DEF ClearInv, Outlasts
<1>11. CountInv'
  BY <1>0, <1>1, <1>3, <1>4, <1>6, <1>8 DEF CountInv, CountTells, Outlasts, Holding
<1>12. BanInv'
  BY <1>0, <1>1, <1>3, <1>4 DEF BanInv, BanStopsLogin
<1> QED
  BY <1>5, <1>6, <1>7, <1>10, <1>11, <1>12 DEF IInv

(* FinishLogin notes a clone warning unless the assertion is newer than    *)
(* every login so far.                                                     *)
LEMMA FinishLoginIInv ==
    ASSUME IInv, NEW h \in Handler, FinishLogin(h)
    PROVE  IInv'
<1>0. TypeOK /\ HoldInv /\ ClearInv /\ CountInv /\ ReplayIsFlagged /\ BanInv
  BY DEF IInv
<1>1. /\ UNCHANGED <<session, claim, count, begun, banned, passkey, faults, logins, kept, undercut>>
      /\ req[h].pc = "list"
  BY DEF FinishLogin, history, store
<1>a. CASE Respond(h)
  BY <1>0, <1>1, <1>a, RespondIInv DEF TypeOK
<1>b. CASE req' = [req EXCEPT ![h].pc = "claim", ![h].clone = UpdateCounter(req[h].ch)]
  <2>1. PICK c \in Challenge : c = req[h].ch
    BY <1>0, <1>1, RequestFacts
  <2>2. PICK r \in Request :
           /\ r.pc = "claim" /\ r.ch = c /\ r.age = req[h].age /\ r.was = req[h].was
           /\ (passkey = "counting" /\ r.clone = "no") => ~(c <= count)
           /\ passkey = "synced" => r.clone = "no"
           /\ req' = [req EXCEPT ![h] = r]
    <3>1. PICK w \in {"no", "warned"} : w = UpdateCounter(c)
      BY DEF UpdateCounter
    <3>5. (passkey = "counting" /\ w = "no") => ~(c <= count)
      BY <1>0, <3>1, ChallengeFacts DEF UpdateCounter, Reported
    <3>6. passkey = "synced" => w = "no"
      BY <1>0, <3>1 DEF UpdateCounter, Reported, CountInv
    <3> DEFINE r == [req[h] EXCEPT !.pc = "claim", !.clone = w]
    <3>2. req' = [req EXCEPT ![h] = r]
      BY <1>b, <2>1, <3>1
    <3>3. req[h] \in Request
      BY <1>0, RequestFacts
    <3>4. r \in Request /\ r.pc = "claim" /\ r.ch = c /\ r.age = req[h].age
          /\ r.was = req[h].was /\ r.clone = w
      BY <2>1, <3>3 DEF Request, Pc
    <3> QED
      BY <3>2, <3>4, <3>5, <3>6
  <2>3. /\ \A g \in Handler : req'[g] = IF g = h THEN r ELSE req[g]
        /\ req' \in [Handler -> Request]
    BY <1>0, <2>2 DEF TypeOK
  <2>5. TypeOK'
    BY <1>0, <1>1, <2>1, <2>2, <2>3 DEF TypeOK
  <2>6. ReplayIsFlagged' /\ Used' = Used
    BY <1>0, <1>1, ReplayFrame
  <2>7. HoldInv'
    BY <1>0, <1>1, <2>2, <2>3 DEF HoldInv, Holding
  <2>8. ASSUME NEW d \in Challenge PROVE (Cleared(d)' => Cleared(d)) /\ (Updated(d)' => Updated(d))
    BY <1>1, <2>2, <2>3, <2>6 DEF Cleared, Updated
  <2>9. ASSUME NEW d \in Challenge, NEW g \in Handler PROVE Outlasts(d, g)' = Outlasts(d, g)
    BY <1>1, <2>2, <2>3 DEF Outlasts
  <2>10. ClearInv'
    BY <1>0, <1>1, <2>1, <2>2, <2>3, <2>8, <2>9 DEF ClearInv
  <2>11. CountInv'
    <3>1. CountTells(c) /\ Updated(c) => r.clone # "no"
      BY <1>0, <2>2 DEF CountInv, CountTells
    <3> QED
      BY <1>0, <1>1, <2>1, <2>2, <2>3, <2>6, <2>8, <2>9, <3>1 DEF CountInv, CountTells, Holding
  <2>12. BanInv'
    BY <1>0, <1>1, <2>2, <2>3 DEF BanInv, BanStopsLogin
  <2> QED
    BY <2>5, <2>6, <2>7, <2>10, <2>11, <2>12 DEF IInv
<1> QED
  BY <1>a, <1>b DEF FinishLogin

(* ClaimSession: a request takes a challenge only when no claim is there,  *)
(* so nobody holds it, no login has cleared it and, if the request carries *)
(* no warning, none has updated the count.                                 *)
LEMMA ClaimSessionIInv ==
    ASSUME IInv, NEW h \in Handler, ClaimSession(h)
    PROVE  IInv'
<1>0. TypeOK /\ HoldInv /\ ClearInv /\ CountInv /\ ReplayIsFlagged /\ BanInv
  BY DEF IInv
<1>1. /\ UNCHANGED <<session, count, begun, banned, passkey, logins, kept, undercut>>
      /\ req[h].pc = "claim"
  BY DEF ClaimSession, history
<1>2. PICK c \in Challenge : c = req[h].ch
  BY <1>0, <1>1, RequestFacts
<1>3. faults' \in 0..MaxFaults
  BY <1>0, BoundsAssumption DEF ClaimSession, Fault, NoFault, TypeOK
<1>a. CASE Respond(h)
  <2>1. claim' = claim \/ claim' = [claim EXCEPT ![req[h].ch] = ClaimTTL]
    BY DEF ClaimSession
  <2> QED
    BY <1>1, <1>3, <1>a, <2>1, RespondIInv
<1>b. CASE /\ claim[c] = 0
           /\ claim' = [claim EXCEPT ![c] = ClaimTTL]
           /\ Goto(h, "update")
  <2>1. /\ req' \in [Handler -> Request]
        /\ \A g \in Handler :
                 /\ req'[g].pc = IF g = h THEN "update" ELSE req[g].pc
                 /\ req'[g].ch = req[g].ch
                 /\ req'[g].age = req[g].age
                 /\ req'[g].was = req[g].was
                 /\ req'[g].gate = req[g].gate
                 /\ req'[g].clone = req[g].clone
        /\ \A g \in Handler : req'[g].pc # "idle" => req'[g].ch \in 1..begun
    BY <1>0, <1>1, <1>b, GotoFacts DEF Pc
  <2>2. /\ \A d \in Challenge : claim'[d] \in Nat /\ claim'[d] >= claim[d]
        /\ claim' \in [Challenge -> 0..ClaimTTL]
        /\ \A d \in Challenge : d # c => claim'[d] = claim[d]
        /\ claim'[c] = ClaimTTL
    <3>1. claim \in [Challenge -> 0..ClaimTTL] /\ ClaimTTL \in Nat
      BY <1>0, ChallengeFacts DEF TypeOK
    <3> QED
      BY <1>b, <3>1
  <2>3. TypeOK'
    <3>1. c \in 1..begun
      BY <1>0, <1>1, <1>2, RequestFacts
    <3>2. \A d \in Challenge : d > begun => session'[d] = 0 /\ claim'[d] = 0
      BY <1>0, <1>1, <2>2, <3>1, ChallengeFacts DEF TypeOK
    <3> QED
      BY <1>0, <1>1, <1>3, <2>1, <2>2, <3>2 DEF TypeOK
  <2>4. ReplayIsFlagged' /\ Used' = Used
    BY <1>0, <1>1, ReplayFrame
  <2>5. \A g \in Handler : req[g].pc \in Holding => req[g].ch # c
    <3>1. ASSUME NEW g \in Handler, req[g].pc \in Holding, req[g].ch = c PROVE FALSE
      <4>1. claim[c] + req[g].age >= ClaimTTL
        BY <1>0, <3>1 DEF HoldInv
      <4>2. req[g].age \in Nat /\ req[g].age <= Latency
        BY <1>0, RequestFacts
      <4> QED
        BY <1>0, <1>b, <4>1, <4>2, ChallengeFacts
    <3> QED
      BY <3>1
  <2>6. HoldInv'
    <3>1. ASSUME NEW g \in Handler, req'[g].pc \in Holding
          PROVE  claim'[req'[g].ch] + req'[g].age >= ClaimTTL
      <4>1. CASE g = h
        BY <1>0, <1>2, <2>1, <2>2, <4>1, RequestFacts, ChallengeFacts
      <4>2. CASE g # h
        <5>1. req[g].pc \in Holding /\ req[g].ch \in Challenge
          BY <1>0, <2>1, <3>1, <4>2, RequestFacts DEF Holding
        <5> QED
          BY <1>0, <2>1, <2>2, <2>5, <5>1 DEF HoldInv
      <4> QED
        BY <4>1, <4>2
    <3>2. ASSUME NEW f \in Handler, NEW g \in Handler, f # g,
                 req'[f].pc \in Holding, req'[g].pc \in Holding
          PROVE  req'[f].ch # req'[g].ch
      BY <1>0, <1>2, <2>1, <2>5, <3>2 DEF HoldInv
    <3> QED
      BY <3>1, <3>2 DEF HoldInv
  <2>7. ASSUME NEW d \in Challenge PROVE (Cleared(d)' => Cleared(d)) /\ (Updated(d)' => Updated(d))
    BY <1>1, <2>1, <2>4 DEF Cleared, Updated
  <2>8. ASSUME NEW d \in Challenge, NEW g \in Handler, Outlasts(d, g) PROVE Outlasts(d, g)'
    <3>1. req[g].age \in Nat
      BY <1>0, RequestFacts
    <3> QED
      BY <1>0, <2>1, <2>2, <2>8, <3>1, ChallengeFacts DEF Outlasts
  <2>9. ClearInv'
    BY <1>0, <1>1, <2>1, <2>7, <2>8 DEF ClearInv
  <2>10. ~Outlasts(c, h)
    <3>1. req[h].age \in Nat /\ req[h].age <= Latency
      BY <1>0, RequestFacts
    <3> QED
      BY <1>0, <1>b, <3>1, ChallengeFacts DEF Outlasts
  <2>11. CountInv'
    <3>1. (req[h].clone = "no" /\ CountTells(c)) => c \notin Used
      BY <1>0, <1>1, <1>2, <2>10 DEF CountInv, Updated
    <3> QED
      BY <1>0, <1>1, <1>2, <2>1, <2>4, <2>7, <2>8, <3>1 DEF CountInv, CountTells
  <2>12. BanInv'
    BY <1>0, <1>1, <2>1 DEF BanInv, BanStopsLogin
  <2> QED
    BY <2>3, <2>4, <2>6, <2>9, <2>11, <2>12 DEF IInv
<1> QED
  BY <1>2, <1>a, <1>b DEF ClaimSession

(* UpdateCredential writes the count: every other request for this         *)
(* challenge that read it before meets the claim.                          *)
LEMMA UpdateCredentialIInv ==
    ASSUME IInv, NEW h \in Handler, UpdateCredential(h)
    PROVE  IInv'
<1>0. TypeOK /\ HoldInv /\ ClearInv /\ CountInv /\ ReplayIsFlagged /\ BanInv
  BY DEF IInv
<1>1. /\ UNCHANGED <<session, claim, begun, banned, passkey, logins, kept>>
      /\ req[h].pc = "update"
  BY DEF UpdateCredential
<1>2. PICK c \in Challenge : c = req[h].ch /\ c \in 1..begun
  BY <1>0, <1>1, RequestFacts
<1>3. faults' \in 0..MaxFaults
  BY <1>0, BoundsAssumption DEF UpdateCredential, Fault, NoFault, TypeOK
<1>a. CASE Respond(h)
  <2>1. UNCHANGED <<count, undercut>> \/ UpdatePasskeyCredential(req[h].ch)
    BY DEF UpdateCredential
  <2> QED
    BY <1>1, <1>3, <1>a, <2>1, RespondIInv
<1>b. CASE UpdatePasskeyCredential(c) /\ Goto(h, "delete")
  <2>1. /\ req' \in [Handler -> Request]
        /\ \A g \in Handler :
                 /\ req'[g].pc = IF g = h THEN "delete" ELSE req[g].pc
                 /\ req'[g].ch = req[g].ch
                 /\ req'[g].age = req[g].age
                 /\ req'[g].was = req[g].was
                 /\ req'[g].gate = req[g].gate
                 /\ req'[g].clone = req[g].clone
        /\ \A g \in Handler : req'[g].pc # "idle" => req'[g].ch \in 1..begun
    BY <1>0, <1>1, <1>b, GotoFacts DEF Pc
  <2>2. /\ count' \in 0..begun /\ undercut' \in SUBSET Challenge /\ undercut \subseteq undercut'
        /\ passkey = "counting" => count' = c
        /\ passkey = "synced" => count' = 0
        /\ \A d \in Challenge : (d <= count /\ d \notin undercut') => d <= count'
    BY <1>0, <1>2, <1>b, UpdateFacts
  <2>3. TypeOK'
    BY <1>0, <1>1, <1>3, <2>1, <2>2 DEF TypeOK
  <2>4. ReplayIsFlagged' /\ Used' = Used
    BY <1>0, <1>1, <2>2, ReplayFrame
  <2>5. HoldInv'
    BY <1>0, <1>1, <2>1 DEF HoldInv, Holding
  <2>6. ASSUME NEW d \in Challenge PROVE (Cleared(d)' => Cleared(d)) /\ (Updated(d)' => Updated(d) \/ d = c)
    BY <1>1, <1>2, <2>1, <2>4 DEF Cleared, Updated
  <2>7. ASSUME NEW d \in Challenge, NEW g \in Handler PROVE Outlasts(d, g)' = Outlasts(d, g)
    BY <1>1, <2>1 DEF Outlasts
  <2>8. ClearInv'
    BY <1>0, <1>1, <2>1, <2>6, <2>7 DEF ClearInv
  <2>9. ASSUME NEW g \in Handler PROVE Outlasts(c, g)
    BY <1>0, <1>1, <1>2, ClaimOutlasts DEF Holding
  <2>10. CountInv'
    <3>1. ASSUME NEW d \in Challenge, CountTells(d)' PROVE CountTells(d)
      BY <1>1, <2>2, <3>1 DEF CountTells
    <3>2. ASSUME NEW d \in Challenge, CountTells(d)', Updated(d)' PROVE d <= count'
      <4>1. CASE d = c
        BY <1>0, <1>1, <2>2, <3>2, <4>1, ChallengeFacts DEF CountTells
      <4>2. CASE d # c
        BY <1>0, <2>2, <2>6, <3>1, <3>2, <4>2 DEF CountInv, CountTells
      <4> QED
        BY <4>1, <4>2
    <3>3. ASSUME NEW d \in Challenge, CountTells(d)', Updated(d)', NEW g \in Handler,
                 req'[g].pc = "claim", req'[g].ch = d, req'[g].clone = "no"
          PROVE  Outlasts(d, g)'
      BY <1>0, <2>1, <2>6, <2>7, <2>9, <3>1, <3>3 DEF CountInv
    <3>4. ASSUME NEW g \in Handler, req'[g].pc \in Holding, req'[g].clone = "no", CountTells(req[g].ch)'
          PROVE  req'[g].ch \notin Used'
      <4>1. req[g].pc \in Holding /\ req[g].ch \in Challenge
        BY <1>0, <1>1, <2>1, <3>4, RequestFacts DEF Holding
      <4> QED
        BY <1>0, <2>1, <2>4, <3>1, <3>4, <4>1 DEF CountInv
    <3>5. passkey' = "synced" => count' = 0 /\ \A g \in Handler : req'[g].clone = "no"
      BY <1>0, <1>1, <2>1, <2>2 DEF CountInv
    <3> QED
      BY <3>2, <3>3, <3>4, <3>5 DEF CountInv
  <2>11. BanInv'
    BY <1>0, <1>1, <2>1 DEF BanInv, BanStopsLogin
  <2> QED
    BY <2>3, <2>4, <2>5, <2>8, <2>10, <2>11 DEF IInv
<1> QED
  BY <1>2, <1>a, <1>b DEF UpdateCredential

(* DeleteSession clears the challenge, or leaves it in kept.               *)
LEMMA DeleteSessionIInv ==
    ASSUME IInv, NEW h \in Handler, DeleteSession(h)
    PROVE  IInv'
<1>0. TypeOK /\ HoldInv /\ ClearInv /\ CountInv /\ ReplayIsFlagged /\ BanInv
  BY DEF IInv
<1>1. /\ UNCHANGED <<claim, count, begun, banned, passkey, logins, undercut>>
      /\ req[h].pc = "delete"
  BY DEF DeleteSession
<1>2. PICK c \in Challenge : c = req[h].ch /\ c \in 1..begun
  BY <1>0, <1>1, RequestFacts
<1>3. faults' \in 0..MaxFaults
  BY <1>0, BoundsAssumption DEF DeleteSession, Fault, NoFault, TypeOK
<1>4. /\ req' \in [Handler -> Request]
      /\ \A g \in Handler :
               /\ req'[g].pc = IF g = h THEN "ban" ELSE req[g].pc
               /\ req'[g].ch = req[g].ch
               /\ req'[g].age = req[g].age
               /\ req'[g].was = req[g].was
               /\ req'[g].gate = req[g].gate
               /\ req'[g].clone = req[g].clone
      /\ \A g \in Handler : req'[g].pc # "idle" => req'[g].ch \in 1..begun
  BY <1>0, <1>1, GotoFacts DEF Pc, DeleteSession
<1>5. /\ session' \in [Challenge -> 0..SessionTTL] /\ kept' \in SUBSET (1..begun)
      /\ kept \subseteq kept'
      /\ \A d \in Challenge : session'[d] = session[d] \/ session'[d] = 0
      /\ c \in kept' \/ session'[c] = 0
  <2>1. /\ session \in [Challenge -> 0..SessionTTL] /\ kept \in SUBSET (1..begun)
        /\ 0 \in 0..SessionTTL
    BY <1>0, TTLAssumption DEF TypeOK
  <2>2. CASE session' = [session EXCEPT ![c] = 0] /\ UNCHANGED kept
    BY <2>1, <2>2
  <2>3. CASE UNCHANGED session /\ kept' = kept \cup {c}
    BY <1>2, <2>1, <2>3
  <2> QED
    BY <1>2, <2>2, <2>3 DEF DeleteSession
<1>6. TypeOK'
  BY <1>0, <1>1, <1>3, <1>4, <1>5 DEF TypeOK
<1>7. ReplayIsFlagged' /\ Used' = Used
  BY <1>0, <1>1, ReplayFrame
<1>8. HoldInv'
  BY <1>0, <1>1, <1>4 DEF HoldInv, Holding
<1>9. ASSUME NEW d \in Challenge
      PROVE  /\ Cleared(d)' => Cleared(d) \/ (d = c /\ session'[c] = 0)
             /\ Updated(d)' => Updated(d)
  BY <1>1, <1>2, <1>4, <1>5, <1>7 DEF Cleared, Updated
<1>10. ASSUME NEW d \in Challenge, NEW g \in Handler PROVE Outlasts(d, g)' = Outlasts(d, g)
  BY <1>1, <1>4 DEF Outlasts
<1>11. ASSUME NEW g \in Handler PROVE Outlasts(c, g)
  BY <1>0, <1>1, <1>2, ClaimOutlasts DEF Holding
<1>12. ClearInv'
  BY <1>0, <1>4, <1>5, <1>9, <1>10, <1>11 DEF ClearInv
<1>13. CountInv'
  BY <1>0, <1>1, <1>4, <1>7, <1>9, <1>10 DEF CountInv, CountTells, Holding
<1>14. BanInv'
  BY <1>0, <1>1, <1>4 DEF BanInv, BanStopsLogin
<1> QED
  BY <1>6, <1>7, <1>8, <1>12, <1>13, <1>14 DEF IInv

(* CheckBan: a user whose record is there goes on only if the lookup       *)
(* failed.                                                                 *)
LEMMA CheckBanIInv ==
    ASSUME IInv, NEW h \in Handler, CheckBan(h)
    PROVE  IInv'
<1>0. TypeOK /\ HoldInv /\ ClearInv /\ CountInv /\ ReplayIsFlagged /\ BanInv
  BY DEF IInv
<1>1. /\ UNCHANGED <<session, claim, count, begun, banned, passkey, logins, kept, undercut>>
      /\ req[h].pc = "ban"
  BY DEF CheckBan, store, history
<1>2. faults' \in 0..MaxFaults
  BY <1>0, BoundsAssumption DEF CheckBan, Fault, NoFault, TypeOK
<1>a. CASE Respond(h)
  BY <1>1, <1>2, <1>a, RespondIInv
<1>b. CASE \/ ~IsBanned /\ Goto(h, "sign")
           \/ req' = [req EXCEPT ![h].pc = "sign", ![h].gate = "failed"]
  <2>1. /\ req' \in [Handler -> Request]
        /\ \A g \in Handler :
                 /\ req'[g].pc = IF g = h THEN "sign" ELSE req[g].pc
                 /\ req'[g].ch = req[g].ch
                 /\ req'[g].age = req[g].age
                 /\ req'[g].was = req[g].was
                 /\ g # h => req'[g].gate = req[g].gate
                 /\ req'[g].clone = req[g].clone
        /\ ~IsBanned \/ req'[h].gate = "failed"
    <3>1. CASE ~IsBanned /\ Goto(h, "sign")
      BY <1>0, <1>1, <3>1, GotoFacts DEF Pc
    <3>2. CASE req' = [req EXCEPT ![h].pc = "sign", ![h].gate = "failed"]
      <4>1. req \in [Handler -> Request]
        BY <1>0 DEF TypeOK
      <4> QED
        BY <3>2, <4>1 DEF Request, Pc
    <3> QED
      BY <1>b, <3>1, <3>2
  <2>2. \A g \in Handler : req'[g].pc # "idle" => req'[g].ch \in 1..begun
    BY <1>0, <1>1, <2>1 DEF TypeOK
  <2>3. TypeOK'
    BY <1>0, <1>1, <1>2, <2>1, <2>2 DEF TypeOK
  <2>4. ReplayIsFlagged' /\ Used' = Used
    BY <1>0, <1>1, ReplayFrame
  <2>5. HoldInv'
    BY <1>0, <1>1, <2>1 DEF HoldInv, Holding
  <2>6. ASSUME NEW d \in Challenge PROVE (Cleared(d)' => Cleared(d)) /\ (Updated(d)' => Updated(d))
    BY <1>1, <2>1, <2>4 DEF Cleared, Updated
  <2>7. ASSUME NEW d \in Challenge, NEW g \in Handler PROVE Outlasts(d, g)' = Outlasts(d, g)
    BY <1>1, <2>1 DEF Outlasts
  <2>8. ClearInv'
    BY <1>0, <1>1, <2>1, <2>6, <2>7 DEF ClearInv
  <2>9. CountInv'
    BY <1>0, <1>1, <2>1, <2>4, <2>6, <2>7 DEF CountInv, CountTells, Holding
  <2>10. BanInv'
    BY <1>0, <1>1, <2>1 DEF BanInv, BanStopsLogin, IsBanned
  <2> QED
    BY <2>3, <2>4, <2>5, <2>8, <2>9, <2>10 DEF IInv
<1> QED
  BY <1>a, <1>b DEF CheckBan

(* What a login adds to the history.                                       *)
LEMMA UsedAppend ==
    ASSUME NEW S, logins \in Seq(S), NEW e \in S, logins' = Append(logins, e)
    PROVE  /\ logins' \in Seq(S)
           /\ Len(logins) \in Nat
           /\ DOMAIN logins = 1..Len(logins)
           /\ DOMAIN logins' = 1..(Len(logins) + 1)
           /\ \A i \in DOMAIN logins : logins'[i] = logins[i]
           /\ logins'[Len(logins) + 1] = e
           /\ Used' = Used \cup {e.ch}
<1>1. /\ logins' \in Seq(S)
      /\ Len(logins) \in Nat
      /\ DOMAIN logins = 1..Len(logins)
      /\ DOMAIN logins' = 1..(Len(logins) + 1)
      /\ \A i \in DOMAIN logins : logins'[i] = logins[i]
      /\ logins'[Len(logins) + 1] = e
  OBVIOUS
<1>2. DOMAIN logins' = (DOMAIN logins) \cup {Len(logins) + 1}
  BY <1>1
<1>3. Used' = Used \cup {e.ch}
  BY <1>1, <1>2 DEF Used
<1> QED
  BY <1>1, <1>3

(* SignTokens: the challenge becomes used; the request that held it had it *)
(* to itself.                                                              *)
LEMMA SignTokensIInv ==
    ASSUME IInv, NEW h \in Handler, SignTokens(h)
    PROVE  IInv'
<1>0. TypeOK /\ HoldInv /\ ClearInv /\ CountInv /\ ReplayIsFlagged /\ BanInv
  BY DEF IInv
<1>1. /\ UNCHANGED <<session, claim, count, begun, banned, passkey, kept, undercut>>
      /\ req[h].pc = "sign" /\ Respond(h)
  BY DEF SignTokens, store
<1>2. PICK c \in Challenge : c = req[h].ch /\ c \in 1..begun
  BY <1>0, <1>1, RequestFacts
<1>3. faults' \in 0..MaxFaults
  BY <1>0, BoundsAssumption DEF SignTokens, Fault, NoFault, TypeOK
<1>a. CASE UNCHANGED logins
  BY <1>1, <1>3, <1>a, RespondIInv
<1>b. CASE logins' = Append(logins, [ch |-> req[h].ch, clone |-> req[h].clone])
  <2> DEFINE e == [ch |-> c, clone |-> req[h].clone]
  <2> DEFINE S == [ch : 1..begun, clone : {"no", "warned"}]
  <2>1. e \in S /\ e.ch = c /\ e.clone = req[h].clone
    <3>1. req[h].clone \in {"no", "warned"}
      BY <1>0, RequestFacts DEF Request
    <3> QED
      BY <1>2, <3>1
  <2>2. /\ logins' \in Seq(S)
        /\ Len(logins) \in Nat
        /\ DOMAIN logins = 1..Len(logins)
        /\ DOMAIN logins' = 1..(Len(logins) + 1)
        /\ \A i \in DOMAIN logins : logins'[i] = logins[i]
        /\ logins'[Len(logins) + 1] = e
        /\ Used' = Used \cup {c}
    <3>1. logins \in Seq(S) /\ logins' = Append(logins, e)
      BY <1>0, <1>2, <1>b DEF TypeOK
    <3> HIDE DEF e, S
    <3> QED
      BY <2>1, <3>1, UsedAppend
  <2>3. /\ \A g \in Handler : req'[g] = IF g = h THEN NoRequest ELSE req[g]
        /\ NoRequest.pc = "idle" /\ NoRequest.was = "clear" /\ NoRequest.clone = "no"
        /\ req' \in [Handler -> Request]
    <3>1. req' = [req EXCEPT ![h] = NoRequest] /\ req \in [Handler -> Request]
      BY <1>0, <1>1 DEF Respond, TypeOK
    <3>2. /\ NoRequest.pc = "idle" /\ NoRequest.was = "clear" /\ NoRequest.clone = "no"
          /\ NoRequest \in Request
      BY BoundsAssumption DEF NoRequest, Request, Pc
    <3> QED
      BY <3>1, <3>2
  <2>4. TypeOK'
    BY <1>0, <1>1, <1>3, <2>2, <2>3 DEF TypeOK
  <2>5. HoldInv'
    BY <1>0, <1>1, <2>3 DEF HoldInv, Holding
  <2>6. ASSUME NEW d \in Challenge PROVE (Cleared(d)' => Cleared(d)) /\ (Updated(d)' => Updated(d))
    BY <1>1, <1>2, <2>2, <2>3 DEF Cleared, Updated
  <2>7. ASSUME NEW d \in Challenge, NEW g \in Handler, g # h PROVE Outlasts(d, g)' = Outlasts(d, g)
    BY <1>1, <2>3, <2>7 DEF Outlasts
  <2>8. ClearInv'
    BY <1>0, <1>1, <2>3, <2>6, <2>7 DEF ClearInv
  <2>9. \A g \in Handler : g # h /\ req[g].pc \in Holding => req[g].ch # c
    BY <1>0, <1>1, <1>2 DEF HoldInv, Holding
  <2>10. CountInv'
    BY <1>0, <1>1, <2>2, <2>3, <2>6, <2>7, <2>9 DEF CountInv, CountTells, Holding
  <2>11. ReplayIsFlagged'
    <3>1. ASSUME NEW i \in DOMAIN logins', NEW j \in DOMAIN logins', i < j,
                 logins'[i].ch = logins'[j].ch, CountTells(logins[j].ch)'
          PROVE  logins'[j].clone = "warned"
      <4>1. i \in DOMAIN logins /\ (j \in DOMAIN logins \/ j = Len(logins) + 1)
        BY <2>2, <3>1
      <4>2. CountTells(logins'[j].ch)
        BY <1>1, <3>1 DEF CountTells
      <4>3. CASE j \in DOMAIN logins
        BY <1>0, <2>2, <3>1, <4>1, <4>2, <4>3 DEF ReplayIsFlagged
      <4>4. CASE j = Len(logins) + 1
        <5>1. c \in Used /\ CountTells(c)
          BY <2>1, <2>2, <3>1, <4>1, <4>2, <4>4 DEF Used
        <5>2. req[h].clone # "no" /\ req[h].clone \in {"no", "warned"}
          BY <1>0, <1>1, <1>2, <5>1, RequestFacts DEF CountInv, Holding, Request
        <5> QED
          BY <2>1, <2>2, <4>4, <5>2
      <4> QED
        BY <4>1, <4>3, <4>4
    <3>2. ASSUME passkey' = "synced", NEW i \in DOMAIN logins' PROVE logins'[i].clone = "no"
      <4>1. CASE i \in DOMAIN logins
        BY <1>0, <1>1, <2>2, <3>2, <4>1 DEF ReplayIsFlagged
      <4>2. CASE i = Len(logins) + 1
        BY <1>0, <1>1, <2>1, <2>2, <3>2, <4>2 DEF CountInv
      <4> QED
        BY <2>2, <4>1, <4>2
    <3> QED
      BY <3>1, <3>2 DEF ReplayIsFlagged
  <2>12. BanInv'
    BY <1>0, <1>1, <2>3 DEF BanInv, BanStopsLogin
  <2> QED
    BY <2>4, <2>5, <2>8, <2>10, <2>11, <2>12 DEF IInv
<1> QED
  BY <1>a, <1>b DEF SignTokens

(* A crash ends a request and nothing else.                                *)
LEMMA CrashIInv ==
    ASSUME IInv, NEW h \in Handler, Crash(h)
    PROVE  IInv'
<1>1. TypeOK
  BY DEF IInv
<1>2. faults' \in 0..MaxFaults
  BY <1>1, BoundsAssumption DEF Crash, Fault, TypeOK
<1> QED
  BY <1>2, RespondIInv DEF Crash, store, history

-----------------------------------------------------------------------------
(* Every step keeps the inductive invariant.                               *)
LEMMA NextIInv == IInv /\ [Next]_vars => IInv'
<1> SUFFICES ASSUME IInv, [Next]_vars PROVE IInv'
  OBVIOUS
<1>1. CASE UNCHANGED vars
  <2>1. UNCHANGED <<session, claim, count, begun, banned, passkey, req, faults, logins, kept, undercut>>
    BY <1>1 DEF vars, store, history
  <2> QED
    BY <2>1 DEF IInv, TypeOK, HoldInv, ClearInv, CountInv, ReplayIsFlagged, CountTells,
                BanInv, BanStopsLogin, Cleared, Updated, Used, Outlasts
<1>2. ASSUME NEW h \in Handler, LoginRefused(h) PROVE UNCHANGED vars
  BY <1>2 DEF LoginRefused
<1>3. ASSUME NEW h \in Handler,
             \/ LoginBegin(h) \/ (\E c \in Challenge : LoginComplete(h, c)) \/ FinishLogin(h)
             \/ ClaimSession(h) \/ UpdateCredential(h) \/ DeleteSession(h) \/ CheckBan(h)
             \/ SignTokens(h) \/ Crash(h)
      PROVE  IInv'
  BY <1>3, LoginBeginIInv, LoginCompleteIInv, FinishLoginIInv, ClaimSessionIInv,
     UpdateCredentialIInv, DeleteSessionIInv, CheckBanIInv, SignTokensIInv, CrashIInv
<1> QED
  BY <1>1, <1>2, <1>3, TickIInv, BanIInv DEF Next

LEMMA Inductive == Spec => []IInv
<1> QED
  BY InitIInv, NextIInv, PTL DEF Spec

(* Every variable keeps its type; only ceremonies that were begun have     *)
(* sessions, claims, requests and logins.                                  *)
THEOREM TypeCorrect == Spec => []TypeOK
<1>1. IInv => TypeOK
  BY DEF IInv
<1> QED
  BY <1>1, Inductive, PTL

(* A challenge that logs in again, after a failed Delete, does so with a   *)
(* CloneWarning if the passkey counts, unless the sign count in            *)
(* customer-api has gone back below that of this challenge; a synced       *)
(* passkey never causes one.                                               *)
THEOREM ReplaysAreFlagged == Spec => []ReplayIsFlagged
<1>1. IInv => ReplayIsFlagged
  BY DEF IInv
<1> QED
  BY <1>1, Inductive, PTL

(* PasskeyLoginCompleteHandler signs no token for a user who is banned     *)
(* since the request arrived, unless the lookup failed in that request.    *)
THEOREM BansStopLogins == Spec => []BanStopsLogin
<1>1. IInv => BanStopsLogin
  BY DEF IInv, BanInv
<1> QED
  BY <1>1, Inductive, PTL

-----------------------------------------------------------------------------
(* The challenge each handler has, as SingleUse sees it.                   *)
Claims == [h \in Handler |-> ClaimedBy(h)]

(* A step in which nobody's challenge, nor the history, changes.           *)
LEMMA SameClaims ==
    ASSUME \A g \in Handler : ClaimedBy(g)' = ClaimedBy(g), UNCHANGED <<logins, kept>>
    PROVE  UNCHANGED Challenges!vars
<1>1. Claims' = Claims
  BY DEF Claims
<1>2. Used' = Used
  BY DEF Used
<1> QED
  BY <1>1, <1>2 DEF Challenges!vars, Claims, Used

(* A request that goes on from a call to the next keeps its challenge.     *)
LEMMA GotoKeepsClaim ==
    ASSUME TypeOK, NEW h \in Handler, NEW x \in Pc, Goto(h, x), req[h].pc # "idle",
           (req[h].pc \in Holding) <=> (x \in Holding)
    PROVE  \A g \in Handler : ClaimedBy(g)' = ClaimedBy(g)
<1>1. \A g \in Handler : req'[g].pc = (IF g = h THEN x ELSE req[g].pc) /\ req'[g].ch = req[g].ch
  BY GotoFacts
<1> QED
  BY <1>1 DEF ClaimedBy, Holding

(* An answer gives a claimed challenge up.                                 *)
LEMMA RespondGivesUp ==
    ASSUME TypeOK, NEW h \in Handler, Respond(h), UNCHANGED <<logins, kept>>
    PROVE  Challenges!GiveUp(h) \/ UNCHANGED Challenges!vars
<1>1. \A g \in Handler : req'[g] = IF g = h THEN NoRequest ELSE req[g]
  BY DEF Respond, TypeOK
<1>2. \A g \in Handler : ClaimedBy(g)' = IF g = h THEN 0 ELSE ClaimedBy(g)
  BY <1>1 DEF ClaimedBy, NoRequest
<1>3. CASE ClaimedBy(h) = 0
  BY <1>2, <1>3, SameClaims
<1>4. CASE ClaimedBy(h) # 0
  <2>1. Claims[h] # 0 /\ Claims' = [Claims EXCEPT ![h] = 0]
    BY <1>2, <1>4 DEF Claims
  <2>2. Used' = Used
    BY DEF Used
  <2> QED
    BY <2>1, <2>2 DEF Challenges!GiveUp, Claims, Used
<1> QED
  BY <1>3, <1>4

(* A request that claims c takes the step of SingleUse that requires that  *)
(* nobody has c and that c was not used and cleared away.                  *)
LEMMA ClaimIsClaim ==
    ASSUME IInv, NEW h \in Handler, ClaimSession(h)
    PROVE  [Challenges!Next]_(Challenges!vars)
<1>0. TypeOK /\ HoldInv /\ ClearInv
  BY DEF IInv
<1>1. UNCHANGED <<logins, kept>> /\ req[h].pc = "claim"
  BY DEF ClaimSession, history
<1>2. PICK c \in Challenge : c = req[h].ch
  BY <1>0, <1>1, RequestFacts
<1>a. CASE Respond(h)
  BY <1>0, <1>1, <1>a, RespondGivesUp DEF Challenges!Next
<1>b. CASE claim[c] = 0 /\ Goto(h, "update")
  <2>1. \A g \in Handler : req'[g].pc = (IF g = h THEN "update" ELSE req[g].pc)
                           /\ req'[g].ch = req[g].ch
    BY <1>0, <1>1, <1>b, GotoFacts DEF Pc
  <2>2. \A g \in Handler : ClaimedBy(g)' = IF g = h THEN c ELSE ClaimedBy(g)
    BY <1>2, <2>1 DEF ClaimedBy
  <2>3. Claims[h] = 0 /\ Claims' = [Claims EXCEPT ![h] = c]
    BY <1>1, <2>2 DEF Claims, ClaimedBy
  <2>4. ASSUME NEW g \in Handler, req[g].pc # "idle" PROVE ~(claim[c] + req[g].age + Latency >= ClaimTTL)
    <3>1. req[g].age \in Nat /\ req[g].age <= Latency
      BY <1>0, RequestFacts
    <3> QED
      BY <1>0, <1>b, <3>1, ChallengeFacts
  <2>5. \A g \in Handler : Claims[g] # c
    <3> SUFFICES ASSUME NEW g \in Handler, Claims[g] = c PROVE FALSE
      OBVIOUS
    <3>1. req[g].pc \in Holding /\ req[g].ch = c
      BY <1>0, ChallengeFacts DEF Claims, ClaimedBy, Holding
    <3>2. Outlasts(c, g)
      BY <1>0, <3>1, ClaimOutlasts
    <3> QED
      BY <2>4, <3>1, <3>2 DEF Outlasts, Holding
  <2>6. c \notin Used \ kept
    <3> SUFFICES ASSUME c \in Used, c \notin kept PROVE FALSE
      OBVIOUS
    <3>1. Outlasts(c, h)
      BY <1>0, <1>1, <1>2 DEF ClearInv, Cleared
    <3> QED
      BY <1>1, <2>4, <3>1 DEF Outlasts
  <2>7. Used' = Used
    BY <1>1 DEF Used
  <2>8. Challenges!Claim(h, c)
    BY <1>1, <2>3, <2>5, <2>6, <2>7 DEF Challenges!Claim, Claims, Used
  <2> QED
    BY <2>8 DEF Challenges!Next
<1> QED
  BY <1>2, <1>a, <1>b DEF ClaimSession

(* A Delete that fails leaks the challenge.                                *)
LEMMA DeleteMayLeak ==
    ASSUME IInv, NEW h \in Handler, DeleteSession(h)
    PROVE  [Challenges!Next]_(Challenges!vars)
<1>0. TypeOK
  BY DEF IInv
<1>1. logins' = logins /\ req[h].pc = "delete" /\ Goto(h, "ban")
  BY DEF DeleteSession
<1>2. \A g \in Handler : ClaimedBy(g)' = ClaimedBy(g)
  BY <1>0, <1>1, GotoKeepsClaim DEF Holding, Pc
<1>3. PICK c \in Challenge : c = req[h].ch
  BY <1>0, <1>1, RequestFacts
<1>4. Claims' = Claims /\ Claims[h] = c /\ c # 0 /\ Used' = Used
  BY <1>0, <1>1, <1>2, <1>3, ChallengeFacts DEF Claims, ClaimedBy, Used
<1>5. CASE kept' = kept
  BY <1>1, <1>2, <1>5, SameClaims
<1>6. CASE kept' = kept \cup {c}
  <2>1. Challenges!Leak(h)
    BY <1>4, <1>6 DEF Challenges!Leak, Claims, Used
  <2> QED
    BY <2>1 DEF Challenges!Next
<1> QED
  BY <1>3, <1>5, <1>6 DEF DeleteSession

(* Signing uses the challenge.                                             *)
LEMMA SignIsUse ==
    ASSUME IInv, NEW h \in Handler, SignTokens(h)
    PROVE  [Challenges!Next]_(Challenges!vars)
<1>0. TypeOK
  BY DEF IInv
<1>1. kept' = kept /\ req[h].pc = "sign" /\ Respond(h)
  BY DEF SignTokens
<1>2. PICK c \in Challenge : c = req[h].ch /\ c \in 1..begun
  BY <1>0, <1>1, RequestFacts
<1>a. CASE UNCHANGED logins
  BY <1>0, <1>1, <1>a, RespondGivesUp DEF Challenges!Next
<1>b. CASE logins' = Append(logins, [ch |-> req[h].ch, clone |-> req[h].clone])
  <2> DEFINE e == [ch |-> c, clone |-> req[h].clone]
  <2> DEFINE S == [ch : 1..begun, clone : {"no", "warned"}]
  <2>1. e \in S /\ e.ch = c
    <3>1. req[h].clone \in {"no", "warned"}
      BY <1>0, RequestFacts DEF Request
    <3> QED
      BY <1>2, <3>1
  <2>2. logins \in Seq(S) /\ logins' = Append(logins, e)
    BY <1>0, <1>2, <1>b DEF TypeOK
  <2> HIDE DEF e, S
  <2>3. Used' = Used \cup {c}
    BY <2>1, <2>2, UsedAppend
  <2>4. \A g \in Handler : req'[g] = IF g = h THEN NoRequest ELSE req[g]
    BY <1>0, <1>1 DEF Respond, TypeOK
  <2>5. \A g \in Handler : ClaimedBy(g)' = IF g = h THEN 0 ELSE ClaimedBy(g)
    BY <2>4 DEF ClaimedBy, NoRequest
  <2>6. Claims[h] = c /\ c # 0 /\ Claims' = [Claims EXCEPT ![h] = 0]
    BY <1>0, <1>1, <1>2, <2>5, ChallengeFacts DEF Claims, ClaimedBy
  <2>7. Challenges!Use(h)
    BY <1>1, <2>3, <2>6 DEF Challenges!Use, Claims, Used
  <2> QED
    BY <2>7 DEF Challenges!Next
<1> QED
  BY <1>a, <1>b DEF SignTokens

(* ClaimSession, the sign-count update, the Delete and the answer of       *)
(* PasskeyLoginCompleteHandler implement SingleUse: however requests with  *)
(* the same assertion overlap and whatever fails, a challenge that logged  *)
(* in is claimed again only if its session was not deleted.  The argument  *)
(* needs the claim to live longer than two requests.                       *)
THEOREM ChallengesAreSingleUse == Spec => LogsInOnce
<1>1. Init => Challenges!Init
  <2> SUFFICES ASSUME Init PROVE Challenges!Init
    OBVIOUS
  <2>1. Claims = [h \in Handler |-> 0]
    BY DEF Init, Claims, ClaimedBy, NoRequest
  <2>2. Used = {} /\ kept = {}
    BY DEF Init, Used
  <2> QED
    BY <2>1, <2>2 DEF Challenges!Init, Claims, Used
<1>2. IInv /\ [Next]_vars => [Challenges!Next]_(Challenges!vars)
  <2> SUFFICES ASSUME IInv, [Next]_vars PROVE [Challenges!Next]_(Challenges!vars)
    OBVIOUS
  <2>0. TypeOK
    BY DEF IInv
  <2>1. CASE UNCHANGED <<req, logins, kept>>
    BY <2>1, SameClaims DEF ClaimedBy
  <2>2. CASE Tick
    <3>1. ASSUME NEW g \in Handler PROVE req'[g].pc = req[g].pc /\ req'[g].ch = req[g].ch
      BY <2>0, <2>2, RequestFacts DEF Tick, Request
    <3> QED
      BY <2>2, <3>1, SameClaims DEF Tick, history, ClaimedBy
  <2>3. CASE BanLapses
    <3>1. ASSUME NEW g \in Handler PROVE req'[g].pc = req[g].pc /\ req'[g].ch = req[g].ch
      BY <2>0, <2>3, RequestFacts DEF BanLapses, Request
    <3> QED
      BY <2>3, <3>1, SameClaims DEF BanLapses, history, ClaimedBy
  <2>4. ASSUME NEW h \in Handler, NEW c \in Challenge, LoginComplete(h, c)
        PROVE  UNCHANGED Challenges!vars
    <3>1. PICK r : req' = [req EXCEPT ![h] = r] /\ r.pc = "list"
      <4> DEFINE r == [NoRequest EXCEPT !.pc = "list", !.ch = c, !.was = banned]
      <4>1. r.pc = "list"
        BY DEF NoRequest
      <4>2. req' = [req EXCEPT ![h] = r]
        BY <2>4 DEF LoginComplete
      <4> HIDE DEF r
      <4> QED
        BY <4>1, <4>2
    <3>2. \A g \in Handler : req'[g] = IF g = h THEN r ELSE req[g]
      BY <2>0, <3>1 DEF TypeOK
    <3>3. \A g \in Handler : ClaimedBy(g)' = ClaimedBy(g)
      BY <2>4, <3>1, <3>2 DEF ClaimedBy, LoginComplete
    <3> QED
      BY <2>4, <3>3, SameClaims DEF LoginComplete, history
  <2>5. ASSUME NEW h \in Handler, FinishLogin(h) PROVE [Challenges!Next]_(Challenges!vars)
    <3>1. CASE Respond(h)
      BY <2>0, <2>5, <3>1, RespondGivesUp DEF FinishLogin, history, Challenges!Next
    <3>2. CASE req' = [req EXCEPT ![h].pc = "claim", ![h].clone = UpdateCounter(req[h].ch)]
      <4>1. \A g \in Handler : req'[g].pc = (IF g = h THEN "claim" ELSE req[g].pc)
                               /\ req'[g].ch = req[g].ch
        BY <2>0, <3>2 DEF TypeOK, Request
      <4> QED
        BY <2>5, <4>1, SameClaims DEF FinishLogin, history, ClaimedBy
    <3> QED
      BY <2>5, <3>1, <3>2 DEF FinishLogin
  <2>6. ASSUME NEW h \in Handler, UpdateCredential(h) PROVE [Challenges!Next]_(Challenges!vars)
    <3>1. CASE Respond(h)
      BY <2>0, <2>6, <3>1, RespondGivesUp DEF UpdateCredential, Challenges!Next
    <3>2. CASE Goto(h, "delete")
      BY <2>0, <2>6, <3>2, GotoKeepsClaim, SameClaims DEF UpdateCredential, Holding, Pc
    <3> QED
      BY <2>6, <3>1, <3>2 DEF UpdateCredential
  <2>7. ASSUME NEW h \in Handler, CheckBan(h) PROVE [Challenges!Next]_(Challenges!vars)
    <3>1. CASE Respond(h)
      BY <2>0, <2>7, <3>1, RespondGivesUp DEF CheckBan, history, Challenges!Next
    <3>2. CASE Goto(h, "sign")
      BY <2>0, <2>7, <3>2, GotoKeepsClaim, SameClaims DEF CheckBan, history, Holding, Pc
    <3>3. CASE req' = [req EXCEPT ![h].pc = "sign", ![h].gate = "failed"]
      <4>1. \A g \in Handler : req'[g].pc = (IF g = h THEN "sign" ELSE req[g].pc)
                               /\ req'[g].ch = req[g].ch
        BY <2>0, <3>3 DEF TypeOK, Request
      <4> QED
        BY <2>7, <4>1, SameClaims DEF CheckBan, history, ClaimedBy
    <3> QED
      BY <2>7, <3>1, <3>2, <3>3 DEF CheckBan
  <2>8. ASSUME NEW h \in Handler, Crash(h) PROVE [Challenges!Next]_(Challenges!vars)
    BY <2>0, <2>8, RespondGivesUp DEF Crash, history, Challenges!Next
  <2>9. ASSUME NEW h \in Handler, LoginBegin(h) \/ LoginRefused(h)
        PROVE  UNCHANGED <<req, logins, kept>>
    BY <2>9 DEF LoginBegin, LoginRefused, history, vars
  <2>10. Ban => UNCHANGED <<req, logins, kept>>
    BY DEF Ban, history
  <2>11. UNCHANGED vars => UNCHANGED <<req, logins, kept>>
    BY DEF vars, history
  <2> QED
    BY <2>1, <2>2, <2>3, <2>4, <2>5, <2>6, <2>7, <2>8, <2>9, <2>10, <2>11,
       ClaimIsClaim, DeleteMayLeak, SignIsUse DEF Next
<1> QED
  BY <1>1, <1>2, Inductive, PTL DEF Spec, LogsInOnce, Challenges!Spec
=============================================================================
