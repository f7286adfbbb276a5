--------------------------- MODULE OutboundProofs ---------------------------
(***************************************************************************)
(* Proofs about Outbound, for any number of callers, senders and slots and *)
(* any times: the mutex and the semaphore are never off by one, a cached   *)
(* token lasts for the margin, and no e-mail keeps its slot.               *)
(***************************************************************************)
EXTENDS Outbound, FiniteSetTheorems, TLAPS

(* A signed or calling request has not been at it for longer than the      *)
(* bounds, and its token has lost no more than the second that exp drops   *)
(* and the time signing took.                                              *)
CallerOK(r) ==
    /\ r.pc = "signed" => r.age <= SignTime /\ r.left + r.age + Second > Life
    /\ r.pc = "calling" =>
          /\ r.age <= CallTime
          /\ r.left + r.age + Second + SignTime > Margin * Second

(* The cached token dies at most that much before svcJWTExpiry.            *)
TokenInv ==
    /\ svcJWT + Second + SignTime > expiry
    /\ \A g \in Caller : CallerOK(caller[g])

Sending == {s \in Sender : mail[s].pc = "sending"}

(* An e-mail that is being sent was accepted no later than the last one.   *)
MailInv == \A s \in Sender : mail[s].pc = "sending" => quiet <= mail[s].age

IInv == TypeOK /\ TokenInv /\ MailInv

-----------------------------------------------------------------------------
(* The life of a token is at least a second, and at least the margin.      *)
LEMMA TimeFacts ==
    /\ Life \in Nat /\ Margin * Second \in Nat
    /\ Second \in Nat /\ Second >= 1 /\ SignTime \in Nat /\ CallTime \in Nat
    /\ EmailTimeout \in Nat /\ MaxEmails \in Nat
    /\ Second <= Life
    /\ Margin * Second <= Life
<1>1. /\ Second \in Nat /\ Second >= 1 /\ TokenTTL \in Nat /\ TokenTTL >= 1
      /\ Margin \in Nat /\ Margin <= TokenTTL
  BY TimeAssumption
<1>2. Life \in Nat /\ Margin * Second \in Nat
  BY <1>1 DEF Life
<1>3. Margin * Second <= TokenTTL * Second
  BY <1>1, SMTT(60)
<1>4. 1 * Second <= TokenTTL * Second
  BY <1>1, SMTT(60)
<1>5. 1 * Second = Second
  BY <1>1
<1> QED
  BY <1>1, <1>2, <1>3, <1>4, <1>5, TimeAssumption DEF Life

(* The goroutines that are sending are finitely many.                      *)
LEMMA SendingFacts ==
    /\ IsFiniteSet(Sending)
    /\ Cardinality(Sending) \in Nat
<1>1. Sending \subseteq Sender
  BY DEF Sending
<1> QED
  BY <1>1, CallersAssumption, FS_Subset, FS_CardinalityType

(* Nothing is cached and nobody calls.                                     *)
LEMMA InitIInv == Init => IInv
<1> SUFFICES ASSUME Init PROVE IInv
  OBVIOUS
<1>1. Sending = {}
  BY DEF Init, Sending, NoMail
<1>2. sem = Cardinality(Sending)
  BY <1>1, FS_EmptySet DEF Init
<1>3. mutex = Nobody /\ caller = [g \in Caller |-> NoCaller] /\ mail = [s \in Sender |-> NoMail]
  BY DEF Init
<1>4. /\ caller \in [Caller ->
           [pc : {"idle", "lock", "check", "sign", "signed", "calling"},
            left : 0..Life, age : 0..(SignTime + CallTime)]]
      /\ mail \in [Sender -> [pc : {"idle", "sending"}, age : 0..EmailTimeout]]
  BY <1>3, TimeFacts DEF NoCaller, NoMail
<1>5. TypeOK
  BY <1>2, <1>3, <1>4, TimeFacts, CallersAssumption DEF Init, TypeOK, NoCaller, Sending
<1>6. TokenInv /\ MailInv
  BY <1>3, TimeFacts DEF Init, TokenInv, CallerOK, MailInv, NoCaller, NoMail
<1> QED
  BY <1>5, <1>6 DEF IInv

(* The records a caller's state is made of.                                *)
CallerRecord ==
    [pc : {"idle", "lock", "check", "sign", "signed", "calling"},
     left : 0..Life, age : 0..(SignTime + CallTime)]

LEMMA CallerFacts ==
    ASSUME TypeOK, TokenInv, NEW g \in Caller
    PROVE  /\ caller[g] \in CallerRecord
           /\ caller[g].left \in Nat /\ caller[g].left <= Life
           /\ caller[g].age \in Nat
           /\ caller[g].pc \in {"check", "sign", "signed"} <=> mutex = g
           /\ CallerOK(caller[g])
  BY TimeFacts DEF TypeOK, TokenInv, CallerRecord

(* A step of one caller preserves the invariant if its new record, the     *)
(* mutex and the cache are right.                                          *)
LEMMA CallerStepIInv ==
    ASSUME IInv, NEW g \in Caller, NEW r \in CallerRecord,
           caller' = [caller EXCEPT ![g] = r],
           CallerOK(r),
           UNCHANGED <<phase, sem, mail, quiet>>,
           svcJWT' \in 0..Life, expiry' \in 0..Life,
           svcJWT' + Second + SignTime > expiry',
           \/ r.pc \in {"check", "sign", "signed"} /\ mutex' = g /\ mutex \in {g, Nobody}
           \/ r.pc \notin {"check", "sign", "signed"} /\ mutex' = Nobody /\ mutex = g
           \/ /\ r.pc \notin {"check", "sign", "signed"} /\ mutex' = mutex
              /\ mutex # g
    PROVE  IInv'
<1>0. TypeOK /\ TokenInv /\ MailInv
  BY DEF IInv
<1>1. \A f \in Caller : caller'[f] = IF f = g THEN r ELSE caller[f]
  BY <1>0 DEF TypeOK
<1>2. caller' \in [Caller -> CallerRecord]
  BY <1>0 DEF TypeOK, CallerRecord
<1>3. mutex' \in Caller \cup {Nobody}
  BY <1>0 DEF TypeOK
<1>4. \A f \in Caller : caller'[f].pc \in {"check", "sign", "signed"} <=> mutex' = f
  BY <1>0, <1>1, CallersAssumption DEF TypeOK
<1>5. TypeOK'
  BY <1>0, <1>2, <1>3, <1>4 DEF TypeOK, CallerRecord
<1>6. TokenInv'
  BY <1>0, <1>1 DEF TokenInv, CallerOK
<1>7. MailInv'
  BY <1>0 DEF MailInv
<1> QED
  BY <1>5, <1>6, <1>7 DEF IInv

(* The steps of a caller.                                                  *)
LEMMA CallersIInv ==
    ASSUME IInv, NEW g \in Caller,
           \/ NeedToken(g) \/ Lock(g) \/ CheckCached(g) \/ SignToken(g)
           \/ SignFails(g) \/ StoreToken(g) \/ CallDone(g)
    PROVE  IInv'
<1>0. TypeOK /\ TokenInv /\ MailInv
  BY DEF IInv
<1>1. /\ caller[g] \in CallerRecord
      /\ caller[g].left \in Nat /\ caller[g].left <= Life
      /\ caller[g].age \in Nat
      /\ caller[g].pc \in {"check", "sign", "signed"} <=> mutex = g
      /\ CallerOK(caller[g])
  BY <1>0, CallerFacts
<1>2. /\ svcJWT \in 0..Life /\ expiry \in 0..Life /\ phase \in 0..(Second - 1)
      /\ svcJWT + Second + SignTime > expiry
  BY <1>0 DEF TypeOK, TokenInv
<1>3. UNCHANGED <<phase, sem, mail, quiet>>
  BY DEF NeedToken, Lock, CheckCached, SignToken, SignFails, StoreToken, CallDone, mailVars
<1>4. NoCaller \in CallerRecord /\ CallerOK(NoCaller) /\ NoCaller.pc = "idle"
  BY TimeFacts DEF NoCaller, CallerRecord, CallerOK
<1>5. CASE NeedToken(g)
  <2> DEFINE r == [caller[g] EXCEPT !.pc = "lock"]
  <2>1. r \in CallerRecord /\ r.pc = "lock" /\ caller[g].pc = "idle"
    BY <1>1, <1>5 DEF NeedToken, CallerRecord
  <2>2. caller' = [caller EXCEPT ![g] = r] /\ UNCHANGED <<mutex, svcJWT, expiry>>
    BY <1>5 DEF NeedToken
  <2> HIDE DEF r
  <2>3. CallerOK(r)
    BY <2>1 DEF CallerOK
  <2> QED
    BY <1>1, <1>2, <1>3, <2>1, <2>2, <2>3, CallerStepIInv
<1>6. CASE Lock(g)
  <2> DEFINE r == [caller[g] EXCEPT !.pc = "check"]
  <2>1. r \in CallerRecord /\ r.pc = "check"
    BY <1>1 DEF CallerRecord
  <2>2. caller' = [caller EXCEPT ![g] = r] /\ mutex' = g /\ mutex = Nobody /\ UNCHANGED <<svcJWT, expiry>>
    BY <1>6 DEF Lock
  <2> HIDE DEF r
  <2>3. CallerOK(r)
    BY <2>1 DEF CallerOK
  <2> QED
    BY <1>1, <1>2, <1>3, <2>1, <2>2, <2>3, CallerStepIInv
<1>7. CASE CheckCached(g)
  <2>1. UNCHANGED <<svcJWT, expiry>> /\ mutex = g
    BY <1>1, <1>7 DEF CheckCached
  <2>2. CASE /\ Reusable
             /\ caller' = [caller EXCEPT ![g] = [pc |-> "calling", left |-> svcJWT, age |-> 0]]
             /\ mutex' = Nobody
    <3> DEFINE r == [pc |-> "calling", left |-> svcJWT, age |-> 0]
    <3>1. r \in CallerRecord /\ r.pc = "calling" /\ r.left = svcJWT /\ r.age = 0
      BY <1>2, TimeFacts DEF CallerRecord
    <3>2. caller' = [caller EXCEPT ![g] = r]
      BY <2>2
    <3> HIDE DEF r
    <3>3. expiry > Margin * Second
      BY <2>2 DEF Reusable
    <3>4. svcJWT \in Nat /\ expiry \in Nat
      BY <1>2, TimeFacts
    <3>5. r.left + r.age + Second + SignTime > Margin * Second
      BY <1>2, <3>1, <3>3, <3>4, TimeFacts
    <3>6. CallerOK(r)
      BY <3>1, <3>5, TimeFacts DEF CallerOK
    <3> QED
      BY <1>2, <1>3, <2>1, <2>2, <3>1, <3>2, <3>6, CallerStepIInv
  <2>3. CASE caller' = [caller EXCEPT ![g].pc = "sign"] /\ UNCHANGED mutex
    <3> DEFINE r == [caller[g] EXCEPT !.pc = "sign"]
    <3>1. r \in CallerRecord /\ r.pc = "sign"
      BY <1>1 DEF CallerRecord
    <3>2. caller' = [caller EXCEPT ![g] = r]
      BY <2>3
    <3> HIDE DEF r
    <3>3. CallerOK(r)
      BY <3>1 DEF CallerOK
    <3> QED
      BY <1>2, <1>3, <2>1, <2>3, <3>1, <3>2, <3>3, CallerStepIInv
  <2> QED
    BY <1>7, <2>2, <2>3 DEF CheckCached
<1>8. CASE SignToken(g)
  <2> DEFINE r == [pc |-> "signed", left |-> Life - phase, age |-> 0]
  <2>1. Life - phase \in 0..Life /\ Life - phase + Second > Life
    BY <1>2, TimeFacts
  <2>2. r \in CallerRecord /\ r.pc = "signed" /\ r.left = Life - phase /\ r.age = 0
    BY <2>1, TimeFacts DEF CallerRecord
  <2>3. caller' = [caller EXCEPT ![g] = r] /\ UNCHANGED <<mutex, svcJWT, expiry>> /\ mutex = g
    BY <1>1, <1>8 DEF SignToken
  <2> HIDE DEF r
  <2>4. r.left + r.age + Second > Life
    BY <1>2, <2>1, <2>2, TimeFacts
  <2>5. CallerOK(r)
    BY <2>2, <2>4, TimeFacts DEF CallerOK
  <2> QED
    BY <1>2, <1>3, <2>2, <2>3, <2>5, CallerStepIInv
<1>9. CASE SignFails(g)
  <2>1. /\ caller' = [caller EXCEPT ![g] = NoCaller]
        /\ UNCHANGED <<svcJWT, expiry>>
        /\ mutex' = Nobody /\ mutex = g
    BY <1>1, <1>9 DEF SignFails
  <2> QED
    BY <1>2, <1>3, <1>4, <2>1, CallerStepIInv
<1>10. CASE StoreToken(g)
  <2> DEFINE r == [caller[g] EXCEPT !.pc = "calling", !.age = 0]
  <2>1. r \in CallerRecord /\ r.pc = "calling" /\ r.left = caller[g].left /\ r.age = 0
    <3>1. caller[g] \in CallerRecord
      BY <1>1
    <3>2. 0 \in 0..(SignTime + CallTime)
      BY TimeFacts
    <3> QED
      BY <3>1, <3>2 DEF CallerRecord
  <2>2. /\ caller' = [caller EXCEPT ![g] = r] /\ svcJWT' = caller[g].left /\ expiry' = Life
        /\ mutex' = Nobody /\ mutex = g /\ caller[g].pc = "signed"
    BY <1>1, <1>10 DEF StoreToken
  <2> HIDE DEF r
  <2>3. caller[g].age <= SignTime /\ caller[g].left + caller[g].age + Second > Life
    BY <1>1, <2>2 DEF CallerOK
  <2>4. caller[g].left + Second + SignTime > Life
    BY <1>1, <2>3, TimeFacts
  <2>5. r.left + r.age + Second + SignTime > Margin * Second
    BY <1>1, <2>1, <2>4, TimeFacts
  <2>6. CallerOK(r)
    BY <2>1, <2>5, TimeFacts DEF CallerOK
  <2>7. svcJWT' \in 0..Life /\ expiry' \in 0..Life /\ svcJWT' + Second + SignTime > expiry'
    BY <1>1, <2>2, <2>4, TimeFacts
  <2> QED
    BY <1>3, <2>1, <2>2, <2>6, <2>7, CallerStepIInv
<1>11. CASE CallDone(g)
  <2>1. caller' = [caller EXCEPT ![g] = NoCaller] /\ UNCHANGED <<mutex, svcJWT, expiry>> /\ mutex # g
    BY <1>1, <1>11 DEF CallDone
  <2> QED
    BY <1>2, <1>3, <1>4, <2>1, CallerStepIInv
<1> QED
  BY <1>5, <1>6, <1>7, <1>8, <1>9, <1>10, <1>11

(* SendEmail takes a slot, the end of a send gives it back.                *)
LEMMA SendersIInv ==
    ASSUME IInv, NEW s \in Sender, SendEmail(s) \/ EmailEnds(s)
    PROVE  IInv'
<1>0. TypeOK /\ TokenInv /\ MailInv
  BY DEF IInv
<1>1. UNCHANGED <<phase, mutex, svcJWT, expiry, caller>>
  BY DEF SendEmail, EmailEnds, tokenVars
<1>2. /\ mail \in [Sender -> [pc : {"idle", "sending"}, age : 0..EmailTimeout]]
      /\ sem \in 0..MaxEmails /\ sem = Cardinality(Sending)
      /\ quiet \in 0..(EmailTimeout + 1)
  BY <1>0 DEF TypeOK, Sending
<1>3. TokenInv'
  BY <1>0, <1>1 DEF TokenInv
<1>4. CASE SendEmail(s)
  <2>1. \A f \in Sender : mail'[f] = IF f = s THEN [pc |-> "sending", age |-> 0] ELSE mail[f]
    BY <1>2, <1>4 DEF SendEmail
  <2>2. mail' \in [Sender -> [pc : {"idle", "sending"}, age : 0..EmailTimeout]]
    BY <1>2, <1>4, TimeFacts DEF SendEmail
  <2>3. s \notin Sending /\ Sending' = Sending \cup {s}
    BY <1>4, <2>1 DEF Sending, SendEmail
  <2>4. Cardinality(Sending') = Cardinality(Sending) + 1
    BY <2>3, SendingFacts, FS_AddElement
  <2>5. sem' \in 0..MaxEmails /\ sem' = Cardinality(Sending')
    BY <1>2, <1>4, <2>4, TimeFacts DEF SendEmail
  <2>6. quiet' = 0 /\ quiet' \in 0..(EmailTimeout + 1)
    BY <1>4, TimeFacts DEF SendEmail
  <2>7. TypeOK'
    BY <1>0, <1>1, <2>2, <2>5, <2>6 DEF TypeOK, Sending
  <2>8. MailInv'
    BY <1>2, <2>1, <2>2, <2>6, TimeFacts DEF MailInv
  <2> QED
    BY <1>3, <2>7, <2>8 DEF IInv
<1>5. CASE EmailEnds(s)
  <2>1. \A f \in Sender : mail'[f] = IF f = s THEN NoMail ELSE mail[f]
    BY <1>2, <1>5 DEF EmailEnds
  <2>2. mail' \in [Sender -> [pc : {"idle", "sending"}, age : 0..EmailTimeout]]
    BY <1>2, <1>5, TimeFacts DEF EmailEnds, NoMail
  <2>3. s \in Sending /\ Sending' = Sending \ {s}
    BY <1>5, <2>1 DEF Sending, EmailEnds, NoMail
  <2>4. /\ Cardinality(Sending') = Cardinality(Sending) - 1
        /\ Cardinality(Sending) # 0
    BY <2>3, SendingFacts, FS_RemoveElement, FS_EmptySet
  <2>5. sem' \in 0..MaxEmails /\ sem' = Cardinality(Sending')
    BY <1>2, <1>5, <2>4, TimeFacts DEF EmailEnds
  <2>6. quiet' = quiet
    BY <1>5 DEF EmailEnds
  <2>7. TypeOK'
    BY <1>0, <1>1, <2>2, <2>5, <2>6 DEF TypeOK, Sending
  <2>8. MailInv'
    BY <1>0, <2>1, <2>6 DEF MailInv, NoMail
  <2> QED
    BY <1>3, <2>7, <2>8 DEF IInv
<1> QED
  BY <1>4, <1>5

(* The clock.  What a token has left and what a request or an e-mail has   *)
(* used up change together.                                                *)
LEMMA TickIInv == ASSUME IInv, Tick PROVE IInv'
<1>0. TypeOK /\ TokenInv /\ MailInv
  BY DEF IInv
<1>1. UNCHANGED <<mutex, sem>> /\ phase' = (phase + 1) % Second
      /\ svcJWT' = Older(svcJWT) /\ expiry' = Older(expiry)
      /\ quiet' = IF quiet > EmailTimeout THEN quiet ELSE quiet + 1
  BY DEF Tick
<1>2. /\ mail \in [Sender -> [pc : {"idle", "sending"}, age : 0..EmailTimeout]]
      /\ sem = Cardinality(Sending)
      /\ quiet \in 0..(EmailTimeout + 1)
      /\ svcJWT \in 0..Life /\ expiry \in 0..Life /\ phase \in 0..(Second - 1)
      /\ svcJWT + Second + SignTime > expiry
  BY <1>0 DEF TypeOK, TokenInv, Sending
<1>3. phase' \in 0..(Second - 1)
  BY <1>1, <1>2, TimeFacts
<1>4. svcJWT' \in 0..Life /\ expiry' \in 0..Life /\ svcJWT' + Second + SignTime > expiry'
  BY <1>1, <1>2, TimeFacts DEF Older
<1>5. quiet' \in 0..(EmailTimeout + 1)
  BY <1>1, <1>2, TimeFacts
<1>6. ASSUME NEW g \in Caller
      PROVE  caller'[g] \in CallerRecord /\ caller'[g].pc = caller[g].pc /\ CallerOK(caller'[g])
  <2>1. /\ caller[g] \in CallerRecord
        /\ caller[g].left \in Nat /\ caller[g].left <= Life
        /\ caller[g].age \in Nat
        /\ CallerOK(caller[g])
    BY <1>0, CallerFacts
  <2>2. CASE caller[g].pc \notin {"signed", "calling"}
    <3>1. caller'[g] = caller[g]
      BY <2>2 DEF Tick
    <3> QED
      BY <2>1, <3>1
  <2>3. CASE caller[g].pc \in {"signed", "calling"}
    <3>1. PICK l \in 0..Life : l = Older(caller[g].left) /\ l + 1 >= caller[g].left
      <4>1. Older(caller[g].left) \in 0..Life /\ Older(caller[g].left) + 1 >= caller[g].left
        BY <2>1, TimeFacts DEF Older
      <4> QED
        BY <4>1
    <3>2. /\ caller[g].pc = "signed" => caller[g].age < SignTime
          /\ caller[g].pc = "calling" => caller[g].age < CallTime
      BY DEF Tick
    <3>3. PICK a \in 0..(SignTime + CallTime) : a = caller[g].age + 1
      <4>1. caller[g].age + 1 \in 0..(SignTime + CallTime)
        BY <2>1, <2>3, <3>2, TimeFacts
      <4> QED
        BY <4>1
    <3>4. caller'[g] = [caller[g] EXCEPT !.left = l, !.age = a]
      BY <2>3, <3>1, <3>3 DEF Tick
    <3>5. caller'[g] \in CallerRecord /\ caller'[g].pc = caller[g].pc
          /\ caller'[g].left = l /\ caller'[g].age = a
      BY <2>1, <3>4 DEF CallerRecord
    <3>6. l + a >= caller[g].left + caller[g].age /\ l \in Nat /\ a \in Nat
      BY <2>1, <3>1, <3>3, TimeFacts
    <3>7. CASE caller[g].pc = "signed"
      <4>1. caller[g].left + caller[g].age + Second > Life
        BY <2>1, <3>7 DEF CallerOK
      <4>2. l + a + Second > Life /\ a <= SignTime
        BY <2>1, <3>2, <3>3, <3>6, <3>7, <4>1, TimeFacts
      <4> QED
        BY <3>5, <3>7, <4>2 DEF CallerOK
    <3>8. CASE caller[g].pc = "calling"
      <4>1. caller[g].left + caller[g].age + Second + SignTime > Margin * Second
        BY <2>1, <3>8 DEF CallerOK
      <4>2. l + a + Second + SignTime > Margin * Second /\ a <= CallTime
        BY <2>1, <3>2, <3>3, <3>6, <3>8, <4>1, TimeFacts
      <4> QED
        BY <3>5, <3>8, <4>2 DEF CallerOK
    <3> QED
      BY <2>3, <3>5, <3>7, <3>8
  <2> QED
    BY <2>2, <2>3
<1>7. ASSUME NEW s \in Sender
      PROVE  /\ mail'[s] \in [pc : {"idle", "sending"}, age : 0..EmailTimeout]
             /\ mail'[s].pc = mail[s].pc
             /\ mail[s].pc = "sending" => quiet' <= mail'[s].age
  <2>1. mail[s] \in [pc : {"idle", "sending"}, age : 0..EmailTimeout] /\ mail[s].age \in Nat
        /\ mail[s].age <= EmailTimeout
    BY <1>2, TimeFacts
  <2>2. CASE mail[s].pc = "idle"
    <3>1. mail'[s] = mail[s]
      BY <2>2 DEF Tick
    <3> QED
      BY <2>1, <2>2, <3>1
  <2>3. CASE mail[s].pc = "sending"
    <3>1. mail[s].age < EmailTimeout
      BY <2>3 DEF Tick
    <3>2. PICK a \in 0..EmailTimeout : a = mail[s].age + 1
      <4>1. mail[s].age + 1 \in 0..EmailTimeout
        BY <2>1, <3>1, TimeFacts
      <4> QED
        BY <4>1
    <3>3. mail'[s] = [mail[s] EXCEPT !.age = a]
      BY <2>3, <3>2 DEF Tick
    <3>4. quiet <= mail[s].age /\ quiet \in Nat
      BY <1>0, <1>2, <2>3, TimeFacts DEF MailInv
    <3>5. quiet' <= a
      BY <1>1, <2>1, <3>1, <3>2, <3>4, TimeFacts
    <3> QED
      BY <2>1, <3>3, <3>5
  <2> QED
    BY <2>1, <2>2, <2>3
<1>8. TypeOK'
  <2>1. caller' \in [Caller -> CallerRecord]
    BY <1>6 DEF Tick
  <2>2. mail' \in [Sender -> [pc : {"idle", "sending"}, age : 0..EmailTimeout]]
    BY <1>7 DEF Tick
  <2>3. Sending' = Sending
    BY <1>7 DEF Sending
  <2>4. \A g \in Caller : caller'[g].pc \in {"check", "sign", "signed"} <=> mutex' = g
    BY <1>0, <1>1, <1>6 DEF TypeOK
  <2> QED
    BY <1>0, <1>1, <1>3, <1>4, <1>5, <2>1, <2>2, <2>3, <2>4 DEF TypeOK, CallerRecord, Sending
<1>9. TokenInv'
  BY <1>4, <1>6 DEF TokenInv, CallerOK
<1>10. MailInv'
  BY <1>7 DEF MailInv
<1> QED
  BY <1>8, <1>9, <1>10 DEF IInv

-----------------------------------------------------------------------------
(* Every step keeps the inductive invariant.                               *)
LEMMA NextIInv == IInv /\ [Next]_vars => IInv'
<1> SUFFICES ASSUME IInv, [Next]_vars PROVE IInv'
  OBVIOUS
<1>1. CASE UNCHANGED vars
  <2>1. UNCHANGED <<phase, mutex, svcJWT, expiry, caller, sem, mail, quiet>>
    BY <1>1 DEF vars, tokenVars, mailVars
  <2> QED
    BY <2>1 DEF IInv, TypeOK, TokenInv, CallerOK, MailInv
<1>2. SendEmailDropped => UNCHANGED vars
  BY DEF SendEmailDropped
<1> QED
  BY <1>1, <1>2, TickIInv, CallersIInv, SendersIInv DEF Next

LEMMA Inductive == Spec => []IInv
<1> QED
  BY InitIInv, NextIInv, PTL DEF Spec

(* Every variable keeps its type; svcJWTMu is held exactly by the caller   *)
(* between Lock and Unlock, and emailSem has exactly the e-mails that are  *)
(* being sent.                                                             *)
THEOREM TypeCorrect == Spec => []TypeOK
<1>1. IInv => TypeOK
  BY DEF IInv
<1> QED
  BY <1>1, Inductive, PTL

(* The token that getOrRefreshSvcJWT hands out, cached or new, lives for   *)
(* the margin, less the second that exp drops and the time signing took.   *)
THEOREM TokensLastForTheMargin == Spec => []TokenLastsForTheMargin
<1>1. IInv => TokenLastsForTheMargin
  <2> SUFFICES ASSUME IInv, NEW g \in Caller, caller[g].pc = "calling",
                      caller[g].age + Second + SignTime <= Margin * Second
               PROVE  caller[g].left > 0
    BY DEF TokenLastsForTheMargin
  <2>1. /\ caller[g].left \in Nat /\ caller[g].age \in Nat
        /\ caller[g].left + caller[g].age + Second + SignTime > Margin * Second
    BY CallerFacts DEF IInv, CallerOK
  <2> QED
    BY <2>1, TimeFacts
<1> QED
  BY <1>1, Inductive, PTL

(* SendEmail's goroutines give every slot of emailSem back: when none was  *)
(* accepted for the length of sendEmailTimeout, all are free.              *)
THEOREM SlotsAreGivenBack == Spec => []QuietFreesTheSlots
<1>1. IInv => QuietFreesTheSlots
  <2> SUFFICES ASSUME IInv, quiet > EmailTimeout PROVE sem = 0
    BY DEF QuietFreesTheSlots
  <2>1. Sending = {}
    <3> SUFFICES ASSUME NEW s \in Sender, mail[s].pc = "sending" PROVE FALSE
      BY DEF Sending
    <3>1. /\ mail[s].age \in Nat /\ mail[s].age <= EmailTimeout
          /\ quiet \in Nat /\ quiet <= mail[s].age
      BY TimeFacts DEF IInv, TypeOK, MailInv
    <3> QED
      BY <3>1, TimeFacts
  <2>2. sem = Cardinality(Sending)
    BY DEF IInv, TypeOK, Sending
  <2> QED
    BY <2>1, <2>2, FS_EmptySet
<1> QED
  BY <1>1, Inductive, PTL
=============================================================================
