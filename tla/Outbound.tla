------------------------------ MODULE Outbound ------------------------------
(***************************************************************************)
(* The calls a process makes to other services: the cached service token   *)
(* of its calls to customer-api (getOrRefreshSvcJWT in internal/api/otp.go,*)
(* internal/clients/user.go) and the e-mails it sends in the background    *)
(* (internal/clients/comms.go).                                            *)
(*                                                                         *)
(* Time is counted in ticks, Second ticks to the second, by countdowns:    *)
(* the expiry of a JWT is a whole second, time.Now is not, so the model    *)
(* keeps the phase of the clock within its second.                         *)
(***************************************************************************)
EXTENDS Naturals, FiniteSets

CONSTANTS
    Caller,        \* requests that need the service token
    Nobody,        \* who holds a free mutex
    Sender,        \* goroutines that can be sending an e-mail
    Second,        \* ticks in a second
    TokenTTL,      \* svcJWTTTLSec, in seconds
    Margin,        \* a token is not reused in its last Margin seconds
    SignTime,      \* bound: ticks that signing may take
    CallTime,      \* bound: ticks a caller may go on using its token
    MaxEmails,     \* maxConcurrentEmails
    EmailTimeout   \* sendEmailTimeout, in ticks

ASSUME CallersAssumption ==
    /\ Nobody \notin Caller
    /\ IsFiniteSet(Sender)

ASSUME TimeAssumption ==
    /\ Second \in Nat \ {0}
    /\ TokenTTL \in Nat \ {0}
    /\ Margin \in 0..TokenTTL
    /\ SignTime \in Nat
    /\ CallTime \in Nat
    /\ MaxEmails \in Nat \ {0}
    /\ EmailTimeout \in Nat \ {0}

VARIABLES
    phase,   \* ticks since the clock's last whole second
    mutex,   \* svcJWTMu
    svcJWT,  \* svcJWT: ticks to the exp of the cached token
    expiry,  \* svcJWTExpiry: ticks to it, 0 when there is no token, too
    caller,  \* what each Caller is doing
    sem,     \* how many slots of emailSem are taken
    mail,    \* what each Sender is doing
    quiet    \* history: ticks since an e-mail was last accepted

tokenVars == <<mutex, svcJWT, expiry, caller>>
mailVars  == <<sem, mail, quiet>>
vars      == <<phase, tokenVars, mailVars>>

-----------------------------------------------------------------------------
Life == TokenTTL * Second

(* left is what the caller's token has left; age counts the ticks since it *)
(* signed or, once it has the token, since it got it.                      *)
NoCaller == [pc |-> "idle", left |-> 0, age |-> 0]
NoMail   == [pc |-> "idle", age |-> 0]

Older(t) == IF t > 0 THEN t - 1 ELSE 0

Init ==
    /\ phase \in 0..(Second - 1)
    /\ mutex = Nobody
    /\ svcJWT = 0
    /\ expiry = 0
    /\ caller = [g \in Caller |-> NoCaller]
    /\ sem = 0
    /\ mail = [s \in Sender |-> NoMail]
    /\ quiet = EmailTimeout + 1

(* Signing, calls and e-mails end in time; waiting for the mutex may take  *)
(* any time.                                                               *)
Tick ==
    /\ \A g \in Caller :
          /\ caller[g].pc = "signed" => caller[g].age < SignTime
          /\ caller[g].pc = "calling" => caller[g].age < CallTime
    /\ \A s \in Sender : mail[s].pc # "idle" => mail[s].age < EmailTimeout
    /\ phase' = (phase + 1) % Second
    /\ svcJWT' = Older(svcJWT)
    /\ expiry' = Older(expiry)
    /\ caller' = [g \in Caller |->
          IF caller[g].pc \in {"signed", "calling"}
            THEN [caller[g] EXCEPT !.left = Older(@), !.age = @ + 1] ELSE caller[g]]
    /\ mail' = [s \in Sender |->
          IF mail[s].pc # "idle" THEN [mail[s] EXCEPT !.age = @ + 1] ELSE mail[s]]
    /\ quiet' = IF quiet > EmailTimeout THEN quiet ELSE quiet + 1
    /\ UNCHANGED <<mutex, sem>>

-----------------------------------------------------------------------------
(* A handler is about to look something up in customer-api.                *)
NeedToken(g) ==
    /\ caller[g].pc = "idle"
    /\ caller' = [caller EXCEPT ![g].pc = "lock"]
    /\ UNCHANGED <<phase, mutex, svcJWT, expiry, mailVars>>

(* Mutant: the cached token is used to the end.                            *)
ReusableToTheEnd == expiry > 0

(* time.Now() is before svcJWTExpiry less the margin.                      *)
Reusable == expiry > Margin * Second

(* Mutant: the mutex is not taken.                                         *)
LockIgnored(g) ==
    /\ caller[g].pc = "lock"
    /\ mutex' = g
    /\ caller' = [caller EXCEPT ![g].pc = "check"]
    /\ UNCHANGED <<phase, svcJWT, expiry, mailVars>>

Lock(g) ==
    /\ caller[g].pc = "lock"
    /\ mutex = Nobody
    /\ mutex' = g
    /\ caller' = [caller EXCEPT ![g].pc = "check"]
    /\ UNCHANGED <<phase, svcJWT, expiry, mailVars>>

(* The cached token is returned and the mutex released, or a new token has *)
(* to be signed.                                                           *)
CheckCached(g) ==
    /\ caller[g].pc = "check"
    /\ \/ /\ Reusable
          /\ caller' = [caller EXCEPT ![g] = [pc |-> "calling", left |-> svcJWT, age |-> 0]]
          /\ mutex' = Nobody
       \/ /\ ~Reusable
          /\ caller' = [caller EXCEPT ![g].pc = "sign"]
          /\ UNCHANGED mutex
    /\ UNCHANGED <<phase, svcJWT, expiry, mailVars>>

(* SignToken: exp is TokenTTL seconds from now, its fraction dropped.      *)
SignToken(g) ==
    /\ caller[g].pc = "sign"
    /\ caller' = [caller EXCEPT ![g] = [pc |-> "signed", left |-> Life - phase, age |-> 0]]
    /\ UNCHANGED <<phase, mutex, svcJWT, expiry, mailVars>>

(* Mutant: an error returns without releasing the mutex.                   *)
SignFailsKeepsLock(g) ==
    /\ caller[g].pc = "sign"
    /\ caller' = [caller EXCEPT ![g] = NoCaller]
    /\ UNCHANGED <<phase, mutex, svcJWT, expiry, mailVars>>

(* An error keeps the old token and releases the mutex.                    *)
SignFails(g) ==
    /\ caller[g].pc = "sign"
    /\ caller' = [caller EXCEPT ![g] = NoCaller]
    /\ mutex' = Nobody
    /\ UNCHANGED <<phase, svcJWT, expiry, mailVars>>

(* The token is stored with an expiry of its own, TokenTTL seconds from the*)
(* end of the signing.                                                     *)
StoreToken(g) ==
    /\ caller[g].pc = "signed"
    /\ svcJWT' = caller[g].left
    /\ expiry' = Life
    /\ mutex' = Nobody
    /\ caller' = [caller EXCEPT ![g].pc = "calling", ![g].age = 0]
    /\ UNCHANGED <<phase, mailVars>>

(* The last call made with the token has been answered, or given up.       *)
CallDone(g) ==
    /\ caller[g].pc = "calling"
    /\ caller' = [caller EXCEPT ![g] = NoCaller]
    /\ UNCHANGED <<phase, mutex, svcJWT, expiry, mailVars>>

-----------------------------------------------------------------------------
(* SendEmail takes a slot and leaves the rest to a goroutine of its own.   *)
SendEmail(s) ==
    /\ mail[s].pc = "idle"
    /\ sem < MaxEmails
    /\ sem' = sem + 1
    /\ mail' = [mail EXCEPT ![s] = [pc |-> "sending", age |-> 0]]
    /\ quiet' = 0
    /\ UNCHANGED <<phase, tokenVars>>

(* At the limit the e-mail is dropped, and the caller told nothing.        *)
SendEmailDropped ==
    /\ sem = MaxEmails
    /\ UNCHANGED vars

(* Mutant: only a send that was answered gives its slot back.              *)
EmailEndsKeepsSlot(s) ==
    /\ mail[s].pc = "sending"
    /\ mail' = [mail EXCEPT ![s] = NoMail]
    /\ sem' \in {sem, sem - 1}
    /\ UNCHANGED <<phase, quiet, tokenVars>>

(* The answer, an error, the timeout or a panic: the deferred functions    *)
(* recover and give the slot back in every case.                           *)
EmailEnds(s) ==
    /\ mail[s].pc = "sending"
    /\ mail' = [mail EXCEPT ![s] = NoMail]
    /\ sem' = sem - 1
    /\ UNCHANGED <<phase, quiet, tokenVars>>

Next ==
    \/ Tick
    \/ \E g \in Caller :
          \/ NeedToken(g)
          \/ Lock(g)
          \/ CheckCached(g)
          \/ SignToken(g)
          \/ SignFails(g)
          \/ StoreToken(g)
          \/ CallDone(g)
    \/ \E s \in Sender : SendEmail(s) \/ EmailEnds(s)
    \/ SendEmailDropped

Spec == Init /\ [][Next]_vars

CallerStep(g) == CheckCached(g) \/ SignToken(g) \/ SignFails(g) \/ StoreToken(g)

(* Goroutines that can go on do.  sync.Mutex hands the lock to a goroutine *)
(* that has waited for a millisecond, so nobody waits for ever.            *)
FairSpec == Spec /\ \A g \in Caller : WF_vars(CallerStep(g)) /\ SF_vars(Lock(g))

-----------------------------------------------------------------------------
(* The type of every variable.  The mutex is held exactly while a caller   *)
(* is between Lock and Unlock, and a slot of the semaphore exactly while an*)
(* e-mail is being sent.                                                   *)
TypeOK ==
    /\ phase \in 0..(Second - 1)
    /\ mutex \in Caller \cup {Nobody}
    /\ \A g \in Caller : caller[g].pc \in {"check", "sign", "signed"} <=> mutex = g
    /\ svcJWT \in 0..Life
    /\ expiry \in 0..Life
    /\ caller \in [Caller ->
          [pc : {"idle", "lock", "check", "sign", "signed", "calling"},
           left : 0..Life, age : 0..(SignTime + CallTime)]]
    /\ sem \in 0..MaxEmails
    /\ sem = Cardinality({s \in Sender : mail[s].pc = "sending"})
    /\ mail \in [Sender -> [pc : {"idle", "sending"}, age : 0..EmailTimeout]]
    /\ quiet \in 0..(EmailTimeout + 1)

(* What the margin of getOrRefreshSvcJWT is worth: a token is alive for at *)
(* least the margin, less the second that exp drops and the time signing   *)
(* took, after a caller got it, cached or new, and no longer: a caller that*)
(* goes on to a second call after a slow first one may present a dead one. *)
TokenLastsForTheMargin ==
    \A g \in Caller :
        (caller[g].pc = "calling" /\ caller[g].age + Second + SignTime <= Margin * Second)
            => caller[g].left > 0

(* No slot leaks, so e-mails are dropped only under load: when none was    *)
(* accepted for the length of the timeout, every slot is free.             *)
QuietFreesTheSlots == quiet > EmailTimeout => sem = 0

(* Every caller gets a token or an error, however many others want one.    *)
CallersAreServed ==
    \A g \in Caller : caller[g].pc = "lock" ~> caller[g].pc \in {"calling", "idle"}
=============================================================================
