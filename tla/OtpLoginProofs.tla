--------------------------- MODULE OtpLoginProofs ---------------------------
(***************************************************************************)
(* Proofs about OtpLogin, for any number of handlers, codes and faults and *)
(* any TTLs: a redemption is claimed and used once however verifications   *)
(* overlap, and while they do not overlap a code logs in once, sees a      *)
(* bounded number of guesses, can be redeemed and is only deleted by its   *)
(* own verification.                                                       *)
(***************************************************************************)
EXTENDS OtpLogin, FiniteSets, FiniteSetTheorems, TLAPS

(* A verification that has claimed its redemption.                         *)
Holding == {"delete", "reset"}

(* A code request that has not stored its code yet.                        *)
Sending == {"clear", "store"}

LoginCodes == {logins[i].code : i \in DOMAIN logins}

(* The codes whose own verification has deleted them from the store, and   *)
(* those redeemed since the last time otp:redeemed was cleared.            *)
Deleted ==
    {c \in Code : \/ c \in LoginCodes
                  \/ \E g \in Handler : req[g].pc = "reset" /\ req[g].code = c}

Redeemed ==
    {c \in Code :
        \/ \E i \in DOMAIN logins : logins[i].code = c /\ logins[i].epoch = epoch
        \/ \E g \in Handler : req[g].pc = "reset" /\ req[g].code = c /\ req[g].epoch = epoch}

(* Every login and every request but a guess is about a code that was      *)
(* asked for.  A code belongs to the one request that sends it until it is *)
(* stored, and a code that was deleted by its own verification is not      *)
(* stored again.                                                           *)
CodeInv ==
    /\ \A h \in Handler : req[h].pc \in Sending \cup Holding \cup {"claim"} => req[h].code # 0
    /\ \A h \in Handler : req[h].pc \in Sending =>
          /\ otp.code # req[h].code
          /\ req[h].code \notin Deleted
          /\ \A g \in Handler :
                (g # h /\ req[g].pc \in Sending \cup Holding \cup {"claim"})
                   => req[g].code # req[h].code
    /\ otp.code \notin Deleted
    /\ LoginCodes \subseteq 1..asked

(* The codes whose request is about to clear otp:redeemed: the epoch can   *)
(* still grow by their number.                                             *)
Clearing == {c \in 1..asked : \E h \in Handler : req[h].pc = "clear" /\ req[h].code = c}

EpochInv == epoch + Cardinality(Clearing) <= asked

(* A claim of this epoch lives as long as the request that made it can     *)
(* take, so nobody else makes one.                                         *)
HoldInv ==
    /\ \A h \in Handler : req[h].pc \in Holding =>
          /\ req[h].epoch <= epoch
          /\ req[h].epoch = epoch => redeemed + req[h].age >= RedeemedTTL
    /\ \A g, h \in Handler :
          (g # h /\ req[g].pc \in Holding /\ req[h].pc \in Holding) => req[g].epoch # req[h].epoch

(* A code that was redeemed in this epoch is gone from the store, and a    *)
(* verification that read it before meets the claim.                       *)
ClaimInv ==
    \A h \in Handler : (req[h].pc = "claim" /\ req[h].code \in Redeemed)
       => redeemed + req[h].age + Latency >= RedeemedTTL

(* While requests do not overlap, one request is served at a time, nobody  *)
(* changes the code under it, and it has not been used before.             *)
AloneInv ==
    alone = "yes" =>
        /\ \A g, h \in Handler : (req[g].pc # "idle" /\ req[h].pc # "idle") => g = h
        /\ \A h \in Handler : req[h].pc \in {"claim", "delete"} => otp.code \in {0, req[h].code}
        /\ \A h \in Handler : req[h].pc = "reset" => otp.code = 0
        /\ \A h \in Handler : req[h].pc \in {"claim", "delete", "reset"} => req[h].code \notin LoginCodes
        /\ OneLoginPerCode

(* ... and, while nothing fails, the claim is only there while its code is *)
(* being deleted.                                                          *)
RedeemableInv ==
    (alone = "yes" /\ faults = 0) =>
        /\ \A h \in Handler : req[h].pc = "store" => redeemed = 0
        /\ (otp.code # 0 /\ redeemed # 0) => \E h \in Handler : req[h].pc = "delete"

(* The counter was started, or its TTL set, after the code was stored, so  *)
(* it outlives the code.                                                   *)
Fresh == attempts.ttl = NoTTL \/ attempts.ttl >= otp.ttl

Counted == IF attempts.n < MaxAttempts THEN attempts.n ELSE MaxAttempts

(* How many guesses the code in store has seen at most.                    *)
Allowance ==
    IF attempts.n = 0 THEN MaxAttempts - 1
    ELSE IF Fresh THEN MaxAttempts - 1 + Counted
    ELSE Counted - 1

TryInv ==
    /\ \A c \in Code :
          (c > asked \/ \E h \in Handler : req[h].pc \in Sending /\ req[h].code = c) => tries[c] = 0
    /\ TriesBounded
    /\ (alone = "yes" /\ otp.code # 0) => tries[otp.code] <= Allowance + faults
    /\ (alone = "yes" /\ otp.code # 0 /\ \E h \in Handler : req[h].pc \in {"expire", "get"})
          => tries[otp.code] + 1 <= Allowance + faults

IInv ==
    TypeOK /\ CodeInv /\ EpochInv /\ HoldInv /\ ClaimInv /\ AloneInv /\ RedeemableInv
      /\ TryInv /\ LockoutExpires

-----------------------------------------------------------------------------
(* What the type invariant says of one request and of the keys.            *)
LEMMA RequestFacts ==
    ASSUME TypeOK, NEW h \in Handler
    PROVE  /\ req[h] \in Request
           /\ req[h].pc \in Pc
           /\ req[h].code \in Nat /\ req[h].code <= asked
           /\ req[h].age \in Nat /\ req[h].age <= Latency
           /\ req[h].epoch \in Nat
<1>1. req[h] \in Request /\ req[h].code \in 0..asked /\ asked \in Nat
  BY BoundsAssumption DEF TypeOK
<1> QED
  BY <1>1, BoundsAssumption DEF Request

LEMMA NumberFacts ==
    ASSUME TypeOK
    PROVE  /\ asked \in Nat /\ asked <= MaxCodes /\ MaxCodes \in Nat
           /\ epoch \in Nat /\ epoch <= asked
           /\ faults \in Nat /\ faults <= MaxFaults /\ MaxFaults \in Nat
           /\ redeemed \in Nat /\ redeemed <= RedeemedTTL
           /\ cooldown \in Nat /\ cooldown <= CooldownTTL
           /\ Latency \in Nat /\ 2 * Latency < RedeemedTTL
           /\ OtpTTL \in Nat /\ OtpTTL > 0 /\ MaxAttempts \in Nat /\ MaxAttempts > 0
           /\ RedeemedTTL \in Nat /\ CooldownTTL \in Nat
  BY TTLAssumption, BoundsAssumption, LatencyAssumption DEF TypeOK

LEMMA KeyFacts ==
    ASSUME TypeOK
    PROVE  /\ otp.code \in Nat /\ otp.ttl \in Nat
           /\ otp.code <= asked /\ otp.ttl <= OtpTTL
           /\ (otp.code = 0) <=> (otp.ttl = 0)
           /\ otp.code = 0 => otp = NoOtp
           /\ otp.code # 0 => otp.code \in Code
           /\ attempts.n \in Nat /\ attempts.n <= MaxAttempts + 1
           /\ attempts.ttl \in Int
           /\ attempts.n = 0 => attempts = NoCounter /\ attempts.ttl = 0
           /\ attempts.n # 0 => attempts.ttl = NoTTL \/ attempts.ttl >= 1
           /\ NoOtp.code = 0 /\ NoOtp.ttl = 0 /\ NoCounter.n = 0 /\ NoCounter.ttl = 0
           /\ NoTTL = 0 - 1
<1>1. /\ otp \in {NoOtp} \cup [code : 1..asked, ttl : 1..OtpTTL]
      /\ attempts \in {NoCounter} \cup [n : 1..(MaxAttempts + 1), ttl : {NoTTL} \cup 1..OtpTTL]
  BY DEF TypeOK
<1>2. /\ NoOtp.code = 0 /\ NoOtp.ttl = 0 /\ NoCounter.n = 0 /\ NoCounter.ttl = 0
      /\ NoTTL = 0 - 1 /\ NoTTL \in Int
  BY DEF NoOtp, NoCounter, NoTTL
<1>3. /\ otp.code \in Nat /\ otp.ttl \in Nat
      /\ otp.code <= asked /\ otp.ttl <= OtpTTL
      /\ (otp.code = 0) <=> (otp.ttl = 0)
      /\ otp.code = 0 => otp = NoOtp
  <2>1. CASE otp = NoOtp
    BY <1>2, <2>1, NumberFacts
  <2>2. CASE otp \in [code : 1..asked, ttl : 1..OtpTTL]
    BY <2>2, NumberFacts
  <2> QED
    BY <1>1, <2>1, <2>2
<1>4. /\ attempts.n \in Nat /\ attempts.n <= MaxAttempts + 1
      /\ attempts.ttl \in Int
      /\ attempts.n = 0 => attempts = NoCounter /\ attempts.ttl = 0
      /\ attempts.n # 0 => attempts.ttl = NoTTL \/ attempts.ttl >= 1
  <2>1. CASE attempts = NoCounter
    BY <1>2, <2>1, NumberFacts
  <2>2. CASE attempts \in [n : 1..(MaxAttempts + 1), ttl : {NoTTL} \cup 1..OtpTTL]
    <3>1. attempts.n \in 1..(MaxAttempts + 1) /\ attempts.ttl \in {NoTTL} \cup 1..OtpTTL
      BY <2>2
    <3> QED
      BY <1>2, <3>1, NumberFacts
  <2> QED
    BY <1>1, <2>1, <2>2
<1>5. otp.code # 0 => otp.code \in Code
  BY <1>3, NumberFacts DEF Code
<1> QED
  BY <1>2, <1>3, <1>4, <1>5

(* The elements of a sequence over a set are in the set.                   *)
LEMMA SeqElement ==
    ASSUME NEW S, NEW s \in Seq(S), NEW i \in DOMAIN s
    PROVE  s[i] \in S
  OBVIOUS

LEMMA SeqMonotonic ==
    ASSUME NEW S, NEW T, S \subseteq T, NEW s \in Seq(S)
    PROVE  s \in Seq(T)
  OBVIOUS

LEMMA LoginFacts ==
    ASSUME TypeOK, NEW i \in DOMAIN logins
    PROVE  logins[i].code \in Code /\ logins[i].epoch \in Nat /\ logins[i].epoch <= epoch
<1>1. logins[i] \in [code : Code, epoch : 0..epoch]
  BY SeqElement DEF TypeOK
<1> QED
  BY <1>1, NumberFacts

(* How a request goes on, ends and begins.                                 *)
LEMMA GotoFacts ==
    ASSUME TypeOK, NEW h \in Handler, NEW x \in Pc, Goto(h, x)
    PROVE  /\ req' \in [Handler -> Request]
           /\ req'[h].pc = x /\ req'[h].code = req[h].code
           /\ req'[h].age = req[h].age /\ req'[h].epoch = req[h].epoch
           /\ \A g \in Handler : g # h => req'[g] = req[g]
<1>1. req \in [Handler -> Request]
  BY DEF TypeOK
<1>2. req' = [req EXCEPT ![h] = [req[h] EXCEPT !.pc = x]]
  BY DEF Goto
<1> QED
  BY <1>1, <1>2 DEF Request

LEMMA NoRequestFacts ==
    /\ NoRequest \in Request /\ NoRequest.pc = "idle" /\ NoRequest.code = 0
    /\ NoRequest.age = 0 /\ NoRequest.epoch = 0
  BY BoundsAssumption DEF NoRequest, Request, Pc

LEMMA RespondFacts ==
    ASSUME TypeOK, NEW h \in Handler, Respond(h)
    PROVE  /\ req' \in [Handler -> Request]
           /\ req'[h].pc = "idle" /\ req'[h].code = 0
           /\ req'[h].age = 0 /\ req'[h].epoch = 0
           /\ \A g \in Handler : g # h => req'[g] = req[g]
  BY NoRequestFacts DEF TypeOK, Respond

LEMMA BeginFacts ==
    ASSUME TypeOK, NEW h \in Handler, NEW x \in Pc, NEW c \in 0..MaxCodes, Begin(h, x, c)
    PROVE  /\ req' \in [Handler -> Request]
           /\ req'[h].pc = x /\ req'[h].code = c
           /\ req'[h].age = 0 /\ req'[h].epoch = 0
           /\ \A g \in Handler : g # h => req'[g] = req[g]
           /\ alone' \in {"yes", "no"}
           /\ alone' = "yes" => alone = "yes" /\ AllIdle
<1>1. req \in [Handler -> Request] /\ alone \in {"yes", "no"}
  BY DEF TypeOK
<1>2. PICK r : r = [NoRequest EXCEPT !.pc = x, !.code = c]
  OBVIOUS
<1>3. r \in Request /\ r.pc = x /\ r.code = c /\ r.age = 0 /\ r.epoch = 0
  BY <1>2, NoRequestFacts DEF Request
<1>4. req' = [req EXCEPT ![h] = r]
  BY <1>2 DEF Begin
<1>5. alone' = IF \A g \in Handler : req[g].pc = "idle" THEN alone ELSE "no"
  BY DEF Begin
<1> QED
  BY <1>1, <1>3, <1>4, <1>5 DEF AllIdle

(* A call leaves the number of faults alone or counts one.                 *)
LEMMA FaultFacts ==
    ASSUME TypeOK, Fault \/ NoFault
    PROVE  faults' \in 0..MaxFaults /\ faults' \in Nat /\ faults' >= faults
           /\ (Fault => faults' > 0 /\ faults' = faults + 1)
  BY NumberFacts DEF Fault, NoFault

-----------------------------------------------------------------------------
(* When a step keeps each part of the invariant.                           *)

(* No request gets to one of the calls P at this step, or leaves it.       *)
NoneEnters(P) ==
    \A g \in Handler : req'[g].pc \in P =>
        /\ req'[g].pc = req[g].pc
        /\ req'[g].code = req[g].code
        /\ req'[g].epoch = req[g].epoch

NoneLeaves(P) == \A g \in Handler : req[g].pc \in P => req'[g].pc = req[g].pc

(* A request that is past reading its code has no other code, and its      *)
(* claim lasts as long as before.                                          *)
CodesKept ==
    \A g \in Handler : req'[g].pc \in Sending \cup Holding \cup {"claim"} =>
        /\ req[g].pc \in Sending \cup Holding \cup {"claim"}
        /\ req'[g].pc \in Sending => req[g].pc \in Sending
        /\ req'[g].code = req[g].code

ClaimLasts ==
    \A g \in Handler : req'[g].pc \in Holding \cup {"claim"} =>
        redeemed' + req'[g].age >= redeemed + req[g].age

LEMMA DeletedFrame ==
    ASSUME logins' = logins, NoneEnters({"reset"})
    PROVE  /\ LoginCodes' = LoginCodes
           /\ Deleted' \subseteq Deleted
           /\ epoch' = epoch => Redeemed' \subseteq Redeemed
<1>1. LoginCodes' = LoginCodes
  BY DEF LoginCodes
<1>2. Deleted' \subseteq Deleted
  BY <1>1 DEF Deleted, NoneEnters
<1>3. epoch' = epoch => Redeemed' \subseteq Redeemed
  BY DEF Redeemed, NoneEnters
<1> QED
  BY <1>1, <1>2, <1>3

LEMMA CodeFrame ==
    ASSUME CodeInv, UNCHANGED <<logins, asked>>, NoneEnters({"reset"}), CodesKept,
           otp'.code = otp.code \/ otp'.code = 0
    PROVE  CodeInv'
<1>1. Deleted' \subseteq Deleted /\ LoginCodes' \subseteq 1..asked'
  BY DeletedFrame DEF CodeInv
<1>2. \A h \in Handler : req'[h].pc \in Sending \cup Holding \cup {"claim"} => req'[h].code # 0
  BY DEF CodeInv, CodesKept
<1>3. ASSUME NEW h \in Handler, req'[h].pc \in Sending
      PROVE  /\ otp'.code # req'[h].code
             /\ req'[h].code \notin Deleted'
             /\ \A g \in Handler :
                   (g # h /\ req'[g].pc \in Sending \cup Holding \cup {"claim"})
                      => req'[g].code # req'[h].code
  <2>1. req[h].pc \in Sending /\ req'[h].code = req[h].code /\ req[h].code # 0
    BY <1>3 DEF CodesKept, CodeInv
  <2> QED
    BY <1>1, <1>3, <2>1 DEF CodeInv, CodesKept
<1>4. otp'.code \notin Deleted'
  <2>1. 0 \notin Deleted
    BY DEF Deleted, Code
  <2> QED
    BY <1>1, <2>1 DEF CodeInv
<1> QED
  BY <1>1, <1>2, <1>3, <1>4 DEF CodeInv

LEMMA EpochFrame ==
    ASSUME TypeOK, EpochInv, NoneEnters({"clear"}), UNCHANGED <<epoch, asked>>
    PROVE  EpochInv'
<1>1. Clearing' \subseteq Clearing
  BY DEF Clearing, NoneEnters
<1>2. Clearing \subseteq 1..asked /\ IsFiniteSet(1..asked)
  BY FS_Interval, NumberFacts DEF Clearing
<1>3. IsFiniteSet(Clearing)
  BY <1>2, FS_Subset
<1>4. Cardinality(Clearing') <= Cardinality(Clearing) /\ Cardinality(Clearing') \in Nat
      /\ Cardinality(Clearing) \in Nat
  BY <1>1, <1>3, FS_Subset, FS_CardinalityType
<1> QED
  BY <1>4, NumberFacts DEF EpochInv

LEMMA HoldFrame ==
    ASSUME TypeOK, TypeOK', HoldInv, NoneEnters(Holding), ClaimLasts, epoch' = epoch
    PROVE  HoldInv'
<1>1. ASSUME NEW h \in Handler, req'[h].pc \in Holding
      PROVE  /\ req'[h].epoch <= epoch'
             /\ req'[h].epoch = epoch' => redeemed' + req'[h].age >= RedeemedTTL
  <2>1. req[h].pc \in Holding /\ req'[h].epoch = req[h].epoch
    BY <1>1 DEF NoneEnters
  <2>2. redeemed' + req'[h].age >= redeemed + req[h].age
    BY <1>1 DEF ClaimLasts
  <2>3. redeemed' \in Nat /\ req'[h].age \in Nat
    <3>1. req'[h] \in Request /\ redeemed' \in 0..RedeemedTTL
      BY DEF TypeOK
    <3> QED
      BY <3>1, BoundsAssumption DEF Request
  <2>4. req[h].epoch <= epoch /\ (req[h].epoch = epoch => redeemed + req[h].age >= RedeemedTTL)
    BY <2>1 DEF HoldInv
  <2>5. req[h].age \in Nat /\ redeemed \in Nat /\ RedeemedTTL \in Nat
    BY RequestFacts, NumberFacts
  <2> QED
    BY <2>1, <2>2, <2>3, <2>4, <2>5
<1>2. \A g, h \in Handler :
         (g # h /\ req'[g].pc \in Holding /\ req'[h].pc \in Holding) => req'[g].epoch # req'[h].epoch
  BY DEF HoldInv, NoneEnters
<1> QED
  BY <1>1, <1>2 DEF HoldInv

LEMMA ClaimFrame ==
    ASSUME TypeOK, TypeOK', ClaimInv, NoneEnters({"claim", "reset"}), ClaimLasts,
           UNCHANGED <<epoch, logins>>
    PROVE  ClaimInv'
<1>1. ASSUME NEW h \in Handler, req'[h].pc = "claim", req'[h].code \in Redeemed'
      PROVE  redeemed' + req'[h].age + Latency >= RedeemedTTL
  <2>1. req[h].pc = "claim" /\ req'[h].code = req[h].code
    BY <1>1 DEF NoneEnters
  <2>2. req[h].code \in Redeemed
    <3>1. NoneEnters({"reset"})
      BY DEF NoneEnters
    <3> QED
      BY <1>1, <2>1, <3>1, DeletedFrame
  <2>3. redeemed' + req'[h].age >= redeemed + req[h].age
    BY <1>1 DEF ClaimLasts
  <2>4. redeemed' \in Nat /\ req'[h].age \in Nat
    <3>1. req'[h] \in Request /\ redeemed' \in 0..RedeemedTTL
      BY DEF TypeOK
    <3> QED
      BY <3>1, BoundsAssumption DEF Request
  <2>5. redeemed + req[h].age + Latency >= RedeemedTTL
    BY <2>1, <2>2 DEF ClaimInv
  <2> QED
    BY <2>3, <2>4, <2>5, RequestFacts, NumberFacts
<1> QED
  BY <1>1 DEF ClaimInv

LEMMA AloneFrame ==
    ASSUME AloneInv, alone' = "yes" => alone = "yes",
           \A g \in Handler : req'[g].pc # "idle" => req[g].pc # "idle",
           NoneEnters({"claim", "delete", "reset"}),
           otp'.code = otp.code \/ otp'.code = 0,
           logins' = logins
    PROVE  AloneInv'
<1> SUFFICES ASSUME alone' = "yes"
             PROVE  AloneInv!2'
  BY DEF AloneInv
<1>1. AloneInv!2
  BY DEF AloneInv
<1>2. LoginCodes' = LoginCodes
  BY DEF LoginCodes
<1>3. OneLoginPerCode'
  BY <1>1 DEF OneLoginPerCode
<1>4. \A g, h \in Handler : (req'[g].pc # "idle" /\ req'[h].pc # "idle") => g = h
  BY <1>1
<1>5. /\ \A h \in Handler : req'[h].pc \in {"claim", "delete"} => otp'.code \in {0, req'[h].code}
      /\ \A h \in Handler : req'[h].pc = "reset" => otp'.code = 0
      /\ \A h \in Handler : req'[h].pc \in {"claim", "delete", "reset"} => req'[h].code \notin LoginCodes'
  BY <1>1, <1>2 DEF NoneEnters
<1> QED
  BY <1>3, <1>4, <1>5

LEMMA RedeemableFrame ==
    ASSUME RedeemableInv, alone' = "yes" => alone = "yes",
           faults' = 0 => /\ faults = 0
                          /\ NoneEnters({"store"})
                          /\ NoneLeaves({"delete"})
                          /\ redeemed' = redeemed \/ redeemed' = 0
                          /\ otp'.code = otp.code \/ otp'.code = 0
    PROVE  RedeemableInv'
  BY DEF RedeemableInv, NoneEnters, NoneLeaves

LEMMA TryFrame ==
    ASSUME TypeOK, TypeOK', TryInv, alone' = "yes" => alone = "yes", faults' >= faults,
           UNCHANGED <<asked, tries, attempts>>,
           otp' = otp \/ otp'.code = 0,
           CodesKept,
           alone' = "yes" => NoneEnters({"expire", "get"})
    PROVE  TryInv'
<1>1. faults \in Nat /\ faults' \in Nat
  BY NumberFacts DEF TypeOK
<1>2. \A c \in Code :
          (c > asked' \/ \E h \in Handler : req'[h].pc \in Sending /\ req'[h].code = c) => tries'[c] = 0
  BY DEF TryInv, CodesKept
<1>3. TriesBounded'
  <2>1. \A c \in Code : tries[c] \in Nat
    BY DEF TypeOK
  <2> QED
    BY <1>1, <2>1, NumberFacts DEF TryInv, TriesBounded
<1>4. ASSUME alone' = "yes", otp'.code # 0
      PROVE  /\ tries'[otp'.code] <= Allowance' + faults'
             /\ (\E h \in Handler : req'[h].pc \in {"expire", "get"})
                   => tries'[otp'.code] + 1 <= Allowance' + faults'
  <2>1. otp' = otp /\ otp.code \in Code /\ tries[otp.code] \in Nat
    BY <1>4, KeyFacts DEF TypeOK
  <2>2. Allowance' = Allowance
    BY <2>1 DEF Allowance, Fresh, Counted
  <2>3. Allowance \in Int
    BY KeyFacts, NumberFacts DEF Allowance, Counted
  <2>4. tries[otp.code] <= Allowance + faults
    BY <1>4, <2>1 DEF TryInv
  <2>5. (\E h \in Handler : req'[h].pc \in {"expire", "get"})
           => \E h \in Handler : req[h].pc \in {"expire", "get"}
    BY <1>4 DEF NoneEnters
  <2>6. (\E h \in Handler : req'[h].pc \in {"expire", "get"})
           => tries[otp.code] + 1 <= Allowance + faults
    BY <1>4, <2>1, <2>5 DEF TryInv
  <2> QED
    BY <1>1, <2>1, <2>2, <2>3, <2>4, <2>6
<1> QED
  BY <1>2, <1>3, <1>4 DEF TryInv

LEMMA LockoutFrame ==
    ASSUME LockoutExpires,
           (attempts'.ttl = NoTTL /\ faults' = 0)
               => attempts.ttl = NoTTL /\ faults = 0 /\ NoneLeaves({"expire"})
    PROVE  LockoutExpires'
  BY DEF LockoutExpires, NoneLeaves

-----------------------------------------------------------------------------
(* The steps, one after the other.                                         *)

LEMMA InitIInv == Init => IInv
<1> SUFFICES ASSUME Init PROVE IInv
  OBVIOUS
<1>1. /\ otp = NoOtp /\ redeemed = 0 /\ attempts = NoCounter /\ asked = 0 /\ faults = 0
      /\ epoch = 0 /\ cooldown = 0 /\ logins = <<>> /\ tries = [c \in Code |-> 0] /\ alone = "yes"
      /\ req \in [Handler -> Request]
      /\ \A h \in Handler : req[h].pc = "idle" /\ req[h].code = 0
  BY NoRequestFacts DEF Init
<1>2. TypeOK
  <2>1. otp \in {NoOtp} \cup [code : 1..asked, ttl : 1..OtpTTL]
        /\ attempts \in {NoCounter} \cup [n : 1..(MaxAttempts + 1), ttl : {NoTTL} \cup 1..OtpTTL]
    BY <1>1
  <2> QED
    BY <1>1, <2>1, TTLAssumption, BoundsAssumption DEF TypeOK
<1>3. LoginCodes = {}
  BY <1>1 DEF LoginCodes
<1>4. CodeInv /\ HoldInv /\ ClaimInv
  BY <1>1, <1>3 DEF CodeInv, HoldInv, ClaimInv, Sending, Holding, Deleted, NoOtp
<1>5. EpochInv
  <2>1. Clearing = {}
    BY <1>1 DEF Clearing
  <2> QED
    BY <1>1, <2>1, FS_EmptySet DEF EpochInv
<1>6. AloneInv /\ RedeemableInv /\ LockoutExpires
  BY <1>1, <1>3 DEF AloneInv, RedeemableInv, LockoutExpires, OneLoginPerCode, NoCounter, NoTTL
<1>7. TryInv
  BY <1>1, TTLAssumption DEF TryInv, TriesBounded, NoOtp, Code
<1> QED
  BY <1>2, <1>4, <1>5, <1>6, <1>7 DEF IInv

(* What a tick does to a code and to a counter.                            *)
LEMMA TickFacts ==
    ASSUME TypeOK, Tick
    PROVE  /\ otp' \in {NoOtp} \cup [code : 1..asked, ttl : 1..OtpTTL]
           /\ attempts' \in {NoCounter} \cup [n : 1..(MaxAttempts + 1), ttl : {NoTTL} \cup 1..OtpTTL]
           /\ otp'.code = otp.code \/ otp'.code = 0
           /\ otp'.code # 0 => otp.ttl >= 2 /\ otp'.ttl = otp.ttl - 1
           /\ attempts.ttl = 1 => attempts'.n = 0
           /\ attempts.ttl # 1 => attempts'.n = attempts.n
           /\ attempts.ttl >= 2 => attempts'.ttl = attempts.ttl - 1
           /\ attempts.ttl = NoTTL => attempts'.ttl = NoTTL
           /\ attempts'.ttl = NoTTL => attempts.ttl = NoTTL
<1>1. otp' = IF otp.ttl = 1 THEN NoOtp ELSE [otp EXCEPT !.ttl = Older(otp.ttl)]
  BY DEF Tick
<1>2. attempts' = IF attempts.ttl = 1 THEN NoCounter
                                      ELSE [attempts EXCEPT !.ttl = Older(attempts.ttl)]
  BY DEF Tick
<1>3. /\ otp \in {NoOtp} \cup [code : 1..asked, ttl : 1..OtpTTL]
      /\ attempts \in {NoCounter} \cup [n : 1..(MaxAttempts + 1), ttl : {NoTTL} \cup 1..OtpTTL]
  BY DEF TypeOK
<1>4. /\ otp' \in {NoOtp} \cup [code : 1..asked, ttl : 1..OtpTTL]
      /\ otp'.code = otp.code \/ otp'.code = 0
      /\ otp'.code # 0 => otp.ttl >= 2 /\ otp'.ttl = otp.ttl - 1
  <2>1. CASE otp.ttl = 1
    BY <1>1, <2>1, KeyFacts
  <2>2. CASE otp.ttl = 0
    <3>1. otp = NoOtp /\ Older(0) = 0
      BY <2>2, KeyFacts DEF Older
    <3>2. otp' = NoOtp
      BY <1>1, <2>2, <3>1 DEF NoOtp
    <3> QED
      BY <3>2, KeyFacts
  <2>3. CASE otp.ttl >= 2
    <3>1. otp \in [code : 1..asked, ttl : 1..OtpTTL]
      BY <1>3, <2>3, KeyFacts
    <3>2. otp.ttl - 1 \in 1..OtpTTL /\ otp.ttl # 1 /\ Older(otp.ttl) = otp.ttl - 1
      BY <2>3, KeyFacts, NumberFacts DEF Older
    <3>3. otp' = [otp EXCEPT !.ttl = otp.ttl - 1]
      BY <1>1, <3>2
    <3>4. otp' \in [code : 1..asked, ttl : 1..OtpTTL] /\ otp'.code = otp.code /\ otp'.ttl = otp.ttl - 1
      BY <3>1, <3>2, <3>3
    <3> QED
      BY <2>3, <3>4
  <2> QED
    BY <2>1, <2>2, <2>3, KeyFacts
<1>5. /\ attempts' \in {NoCounter} \cup [n : 1..(MaxAttempts + 1), ttl : {NoTTL} \cup 1..OtpTTL]
      /\ attempts.ttl = 1 => attempts'.n = 0
      /\ attempts.ttl # 1 => attempts'.n = attempts.n
      /\ attempts.ttl >= 2 => attempts'.ttl = attempts.ttl - 1
      /\ attempts.ttl = NoTTL => attempts'.ttl = NoTTL
      /\ attempts'.ttl = NoTTL => attempts.ttl = NoTTL
  <2>1. CASE attempts.ttl = 1
    BY <1>2, <2>1, KeyFacts
  <2>2. CASE attempts.n = 0
    <3>1. attempts = NoCounter /\ attempts.ttl = 0 /\ Older(0) = 0
      BY <2>2, KeyFacts DEF Older
    <3>2. attempts' = NoCounter
      BY <1>2, <3>1 DEF NoCounter
    <3> QED
      BY <3>1, <3>2, KeyFacts
  <2>3. CASE attempts.n # 0 /\ attempts.ttl # 1
    <3>1. attempts \in [n : 1..(MaxAttempts + 1), ttl : {NoTTL} \cup 1..OtpTTL]
      BY <1>3, <2>3, KeyFacts
    <3>2. PICK t : t = Older(attempts.ttl)
      OBVIOUS
    <3>3. attempts.ttl \in {NoTTL} \cup 1..OtpTTL
      BY <3>1
    <3>4. /\ t \in {NoTTL} \cup 1..OtpTTL
          /\ attempts.ttl >= 2 => t = attempts.ttl - 1
          /\ attempts.ttl = NoTTL <=> t = NoTTL
      BY <2>3, <3>2, <3>3, NumberFacts DEF Older, NoTTL
    <3>5. attempts' = [attempts EXCEPT !.ttl = t]
      BY <1>2, <2>3, <3>2
    <3>6. /\ attempts' \in [n : 1..(MaxAttempts + 1), ttl : {NoTTL} \cup 1..OtpTTL]
          /\ attempts'.n = attempts.n /\ attempts'.ttl = t
      BY <3>1, <3>4, <3>5
    <3> QED
      BY <2>3, <3>4, <3>6
  <2> QED
    BY <2>1, <2>2, <2>3
<1> QED
  BY <1>4, <1>5

LEMMA TickIInv == ASSUME IInv, Tick PROVE IInv'
<1>0. /\ TypeOK /\ CodeInv /\ EpochInv /\ HoldInv /\ ClaimInv /\ AloneInv /\ RedeemableInv
      /\ TryInv /\ LockoutExpires
  BY DEF IInv
<1>1. UNCHANGED <<asked, faults, epoch, logins, tries, alone>>
  BY DEF Tick
<1>2. ASSUME NEW g \in Handler
      PROVE  /\ req'[g] \in Request
             /\ req'[g].pc = req[g].pc /\ req'[g].code = req[g].code
             /\ req'[g].epoch = req[g].epoch
             /\ req'[g].age \in Nat /\ req'[g].age >= req[g].age
             /\ req[g].pc # "idle" => req'[g].age = req[g].age + 1
  <2>1. req[g] \in Request /\ req[g].age \in Nat
    BY <1>0, RequestFacts
  <2>2. CASE req[g].pc = "idle"
    <3>1. req'[g] = req[g]
      BY <2>2 DEF Tick
    <3> QED
      BY <2>1, <2>2, <3>1
  <2>3. CASE req[g].pc # "idle"
    <3>1. req'[g] = [req[g] EXCEPT !.age = req[g].age + 1]
      BY <2>3 DEF Tick
    <3>2. req[g].age + 1 \in 0..Latency
      BY <2>1, <2>3, BoundsAssumption DEF Tick
    <3>3. req'[g] \in Request /\ req'[g].pc = req[g].pc /\ req'[g].code = req[g].code
          /\ req'[g].epoch = req[g].epoch /\ req'[g].age = req[g].age + 1
      BY <2>1, <3>1, <3>2 DEF Request
    <3> QED
      BY <2>1, <3>3
  <2> QED
    BY <2>2, <2>3
<1>3. req' \in [Handler -> Request]
  <2>1. req' = [h \in Handler |-> req'[h]]
    BY DEF Tick
  <2> QED
    BY <1>2, <2>1
<1>4. /\ redeemed' \in 0..RedeemedTTL /\ cooldown' \in 0..CooldownTTL /\ redeemed' \in Nat
      /\ redeemed' + 1 >= redeemed /\ (redeemed = 0 => redeemed' = 0)
  BY <1>0, NumberFacts DEF Tick, Older
<1>5. TypeOK'
  <2>1. \A h \in Handler : req'[h].code \in 0..asked
    BY <1>0, <1>2 DEF TypeOK
  <2> QED
    BY <1>0, <1>1, <1>3, <1>4, <2>1, TickFacts DEF TypeOK
<1>6. NoneEnters(Pc) /\ NoneLeaves(Pc) /\ CodesKept
  BY <1>2 DEF NoneEnters, NoneLeaves, CodesKept
<1>7. ClaimLasts
  BY <1>0, <1>2, <1>4, RequestFacts, NumberFacts DEF ClaimLasts, Holding
<1>8. /\ NoneEnters({"reset"}) /\ NoneEnters({"clear"}) /\ NoneEnters(Holding)
      /\ NoneEnters({"claim", "reset"}) /\ NoneEnters({"claim", "delete", "reset"})
      /\ NoneLeaves({"expire"})
  BY <1>2 DEF NoneEnters, NoneLeaves
<1>9. CodeInv' /\ EpochInv' /\ HoldInv' /\ ClaimInv'
  BY <1>0, <1>1, <1>5, <1>6, <1>7, <1>8, TickFacts, CodeFrame, EpochFrame, HoldFrame, ClaimFrame
<1>10. AloneInv'
  BY <1>0, <1>1, <1>2, <1>8, TickFacts, AloneFrame
<1>11. RedeemableInv'
  BY <1>0, <1>1, <1>2, <1>4, TickFacts DEF RedeemableInv
<1>12. LockoutExpires'
  BY <1>0, <1>1, <1>8, TickFacts, LockoutFrame
<1>13. TryInv'
  <2>1. TriesBounded'
    BY <1>0, <1>1 DEF TryInv, TriesBounded
  <2>2. \A c \in Code :
           (c > asked' \/ \E h \in Handler : req'[h].pc \in Sending /\ req'[h].code = c) => tries'[c] = 0
    BY <1>0, <1>1, <1>2 DEF TryInv
  <2>3. ASSUME alone = "yes", otp'.code # 0
        PROVE  /\ tries[otp'.code] <= Allowance' + faults
               /\ (\E h \in Handler : req'[h].pc \in {"expire", "get"})
                     => tries[otp'.code] + 1 <= Allowance' + faults
    <3>1. otp'.code = otp.code /\ otp.ttl >= 2 /\ otp'.ttl = otp.ttl - 1
      BY <1>0, <2>3, TickFacts
    <3>2. /\ attempts.ttl = 1 => attempts'.n = 0
          /\ attempts.ttl # 1 => attempts'.n = attempts.n
          /\ attempts.ttl >= 2 => attempts'.ttl = attempts.ttl - 1
          /\ attempts.ttl = NoTTL => attempts'.ttl = NoTTL
      BY <1>0, TickFacts
    <3>3. Allowance' >= Allowance /\ Allowance \in Int /\ Allowance' \in Int
      BY <1>0, <3>1, <3>2, KeyFacts, NumberFacts DEF Allowance, Counted, Fresh
    <3>4. tries[otp.code] \in Nat
      BY <1>0, <2>3, <3>1, KeyFacts DEF TypeOK
    <3>5. tries[otp.code] <= Allowance + faults
      BY <1>0, <2>3, <3>1 DEF TryInv
    <3>6. (\E h \in Handler : req'[h].pc \in {"expire", "get"})
             => tries[otp.code] + 1 <= Allowance + faults
      BY <1>0, <1>2, <2>3, <3>1 DEF TryInv
    <3> QED
      BY <1>0, <3>1, <3>3, <3>4, <3>5, <3>6, NumberFacts
  <2> QED
    BY <1>1, <2>1, <2>2, <2>3 DEF TryInv
<1> QED
  BY <1>5, <1>9, <1>10, <1>11, <1>12, <1>13 DEF IInv

(* A request that ends: in an answer or in a crash, possibly of a call     *)
(* that did take effect.                                                   *)
LEMMA RespondIInv ==
    ASSUME IInv, NEW h \in Handler, Respond(h),
           Fault \/ (NoFault /\ req[h].pc \notin {"expire", "delete"}),
           otp' = otp \/ otp' = NoOtp,
           redeemed' = redeemed \/ (Fault /\ redeemed' = RedeemedTTL),
           UNCHANGED <<cooldown, attempts, asked, epoch, logins, tries, alone>>
    PROVE  IInv'
<1>0. /\ TypeOK /\ CodeInv /\ EpochInv /\ HoldInv /\ ClaimInv /\ AloneInv /\ RedeemableInv
      /\ TryInv /\ LockoutExpires
  BY DEF IInv
<1>1. /\ req' \in [Handler -> Request]
      /\ req'[h].pc = "idle" /\ req'[h].code = 0
      /\ \A g \in Handler : g # h => req'[g] = req[g]
  BY <1>0, RespondFacts
<1>2. /\ faults' \in 0..MaxFaults /\ faults' >= faults
      /\ faults' = 0 => faults = 0 /\ NoFault
  BY <1>0, FaultFacts, NumberFacts DEF NoFault
<1>3. redeemed' >= redeemed /\ redeemed' \in 0..RedeemedTTL
  BY <1>0, NumberFacts
<1>4. TypeOK'
  <2>1. \A g \in Handler : req'[g].code \in 0..asked
    BY <1>0, <1>1, NumberFacts DEF TypeOK
  <2>2. otp' \in {NoOtp} \cup [code : 1..asked, ttl : 1..OtpTTL]
    BY <1>0 DEF TypeOK
  <2> QED
    BY <1>0, <1>1, <1>2, <1>3, <2>1, <2>2 DEF TypeOK
<1>5. /\ NoneEnters({"reset"}) /\ NoneEnters({"clear"}) /\ NoneEnters(Holding)
      /\ NoneEnters({"claim", "reset"}) /\ NoneEnters({"claim", "delete", "reset"})
      /\ NoneEnters({"store"}) /\ NoneEnters({"expire", "get"})
  BY <1>1 DEF NoneEnters, Holding
<1>6. CodesKept
  BY <1>1 DEF CodesKept, Sending, Holding
<1>7. ClaimLasts
  BY <1>0, <1>1, <1>3, RequestFacts, NumberFacts DEF ClaimLasts, Holding
<1>8. \A g \in Handler : req'[g].pc # "idle" => req[g].pc # "idle"
  BY <1>1
<1>9. faults' = 0 => NoneLeaves({"delete"}) /\ NoneLeaves({"expire"})
  BY <1>0, <1>1, <1>2, FaultFacts DEF NoneLeaves, NoFault
<1>10. otp'.code = otp.code \/ otp'.code = 0
  BY DEF NoOtp
<1>11. CodeInv' /\ EpochInv' /\ HoldInv' /\ ClaimInv'
  BY <1>0, <1>4, <1>5, <1>6, <1>7, <1>10, CodeFrame, EpochFrame, HoldFrame, ClaimFrame
<1>12. AloneInv'
  BY <1>0, <1>5, <1>8, <1>10, AloneFrame
<1>13. RedeemableInv'
  <2>1. faults' = 0 => redeemed' = redeemed
    BY <1>0, <1>2, FaultFacts
  <2> QED
    BY <1>0, <1>2, <1>5, <1>9, <1>10, <2>1, RedeemableFrame
<1>14. LockoutExpires'
  BY <1>0, <1>2, <1>9, LockoutFrame
<1>15. TryInv'
  <2>1. otp' = otp \/ otp'.code = 0
    BY DEF NoOtp
  <2> QED
    BY <1>0, <1>2, <1>4, <1>5, <1>6, <2>1, TryFrame
<1> QED
  BY <1>4, <1>11, <1>12, <1>13, <1>14, <1>15 DEF IInv

(* A request for a code: the next code is its own.                         *)
LEMMA OTPRequestIInv == ASSUME IInv, NEW h \in Handler, OTPRequest(h) PROVE IInv'
<1>0. /\ TypeOK /\ CodeInv /\ EpochInv /\ HoldInv /\ ClaimInv /\ AloneInv /\ RedeemableInv
      /\ TryInv /\ LockoutExpires
  BY DEF IInv
<1>1. /\ req[h].pc = "idle" /\ asked < MaxCodes /\ cooldown' = CooldownTTL
      /\ asked' = asked + 1 /\ Begin(h, "clear", asked + 1)
      /\ UNCHANGED <<otp, redeemed, attempts, faults, epoch, logins, tries>>
  BY DEF OTPRequest
<1>2. asked + 1 \in 1..MaxCodes /\ asked + 1 \in 0..MaxCodes /\ asked + 1 \in Nat
  BY <1>0, <1>1, NumberFacts
<1>3. /\ req' \in [Handler -> Request]
      /\ req'[h].pc = "clear" /\ req'[h].code = asked + 1 /\ req'[h].age = 0
      /\ \A g \in Handler : g # h => req'[g] = req[g]
      /\ alone' \in {"yes", "no"}
      /\ alone' = "yes" => alone = "yes" /\ AllIdle
  BY <1>0, <1>1, <1>2, BeginFacts DEF Pc
<1>4. TypeOK'
  <2>1. \A g \in Handler : req'[g].code \in 0..asked'
    <3>1. ASSUME NEW g \in Handler, g # h PROVE req'[g].code \in 0..asked'
      BY <1>0, <1>1, <1>3, <3>1, RequestFacts, NumberFacts
    <3> QED
      BY <1>1, <1>2, <1>3, <3>1
  <2>2. otp \in {NoOtp} \cup [code : 1..asked', ttl : 1..OtpTTL]
    <3>1. 1..asked \subseteq 1..asked'
      BY <1>0, <1>1, NumberFacts
    <3>2. otp \in {NoOtp} \cup [code : 1..asked, ttl : 1..OtpTTL]
      BY <1>0 DEF TypeOK
    <3> QED
      BY <3>1, <3>2
  <2>3. epoch \in 0..asked' /\ cooldown' \in 0..CooldownTTL /\ asked' \in 0..MaxCodes
    BY <1>0, <1>1, <1>2, NumberFacts
  <2> QED
    BY <1>0, <1>1, <1>3, <2>1, <2>2, <2>3 DEF TypeOK
<1>5. ASSUME NEW g \in Handler PROVE req[g].code # asked + 1
  BY <1>0, RequestFacts, NumberFacts
<1>6. /\ NoneEnters({"reset"}) /\ NoneEnters(Holding)
      /\ NoneEnters({"claim", "reset"}) /\ NoneEnters({"claim", "delete", "reset"})
      /\ NoneEnters({"store"}) /\ NoneEnters({"expire", "get"})
      /\ NoneLeaves({"delete"}) /\ NoneLeaves({"expire"})
  BY <1>1, <1>3 DEF NoneEnters, NoneLeaves, Holding
<1>7. ClaimLasts
  BY <1>0, <1>1, <1>3, RequestFacts, NumberFacts DEF ClaimLasts, Holding
<1>8. CodeInv'
  <2>1. Deleted' \subseteq Deleted
    BY <1>1, <1>6, DeletedFrame
  <2>2. asked + 1 \notin Deleted
    <3>1. asked + 1 \notin LoginCodes
      BY <1>0, NumberFacts DEF CodeInv
    <3> QED
      BY <1>5, <3>1 DEF Deleted
  <2>3. otp'.code # asked + 1 /\ asked + 1 # 0
    BY <1>0, <1>1, KeyFacts, NumberFacts
  <2>4. otp'.code \notin Deleted'
    BY <1>0, <1>1, <2>1 DEF CodeInv
  <2>5. LoginCodes' \subseteq 1..asked'
    <3>1. LoginCodes' = LoginCodes
      BY <1>1 DEF LoginCodes
    <3> QED
      BY <1>0, <1>1, <3>1, NumberFacts DEF CodeInv
  <2>6. \A g \in Handler : g # h => req'[g].pc = req[g].pc /\ req'[g].code = req[g].code
    BY <1>3
  <2>7. \A g \in Handler : req'[g].pc \in Sending \cup Holding \cup {"claim"} => req'[g].code # 0
    BY <1>0, <1>3, <2>3, <2>6 DEF CodeInv
  <2>8. ASSUME NEW f \in Handler, req'[f].pc \in Sending
        PROVE  /\ otp'.code # req'[f].code
               /\ req'[f].code \notin Deleted'
               /\ \A g \in Handler :
                     (g # f /\ req'[g].pc \in Sending \cup Holding \cup {"claim"})
                        => req'[g].code # req'[f].code
    <3>1. CASE f = h
      BY <1>3, <1>5, <2>1, <2>2, <2>3, <2>6, <3>1
    <3>2. CASE f # h
      <4>1. req[f].pc \in Sending /\ req'[f].code = req[f].code /\ req[f].code # asked + 1
        BY <1>5, <2>6, <2>8, <3>2
      <4>2. /\ otp'.code # req[f].code
            /\ req[f].code \notin Deleted'
        BY <1>0, <1>1, <2>1, <4>1 DEF CodeInv
      <4>3. ASSUME NEW g \in Handler, g # f, req'[g].pc \in Sending \cup Holding \cup {"claim"}
            PROVE  req'[g].code # req[f].code
        <5>1. CASE g = h
          BY <1>3, <4>1, <5>1
        <5>2. CASE g # h
          BY <1>0, <2>6, <4>1, <4>3, <5>2 DEF CodeInv
        <5> QED
          BY <5>1, <5>2
      <4> QED
        BY <4>1, <4>2, <4>3
    <3> QED
      BY <3>1, <3>2
  <2> QED
    BY <2>4, <2>5, <2>7, <2>8 DEF CodeInv
<1>9. EpochInv'
  <2>1. Clearing' \subseteq Clearing \cup {asked + 1}
    <3> SUFFICES ASSUME NEW c \in Clearing', c # asked + 1 PROVE c \in Clearing
      OBVIOUS
    <3>1. PICK g \in Handler : req'[g].pc = "clear" /\ req'[g].code = c
      BY DEF Clearing
    <3>2. g # h /\ req[g].pc = "clear" /\ req[g].code = c
      BY <1>3, <3>1
    <3>3. c \in 1..asked
      BY <1>0, <1>1, NumberFacts DEF Clearing
    <3> QED
      BY <3>2, <3>3 DEF Clearing
  <2>2. IsFiniteSet(Clearing)
    <3>1. Clearing \subseteq 1..asked /\ IsFiniteSet(1..asked)
      BY <1>0, FS_Interval, NumberFacts DEF Clearing
    <3> QED
      BY <3>1, FS_Subset
  <2>3. /\ IsFiniteSet(Clearing \cup {asked + 1})
        /\ Cardinality(Clearing \cup {asked + 1}) <= Cardinality(Clearing) + 1
        /\ Cardinality(Clearing) \in Nat
    BY <2>2, FS_AddElement, FS_CardinalityType
  <2>4. /\ Cardinality(Clearing') <= Cardinality(Clearing \cup {asked + 1})
        /\ Cardinality(Clearing') \in Nat /\ Cardinality(Clearing \cup {asked + 1}) \in Nat
    BY <2>1, <2>3, FS_Subset, FS_CardinalityType
  <2> QED
    BY <1>0, <1>1, <2>3, <2>4, NumberFacts DEF EpochInv
<1>10. HoldInv' /\ ClaimInv'
  BY <1>0, <1>1, <1>4, <1>6, <1>7, HoldFrame, ClaimFrame
<1>11. AloneInv'
  <2> SUFFICES ASSUME alone' = "yes" PROVE AloneInv!2'
    BY DEF AloneInv
  <2>1. alone = "yes" /\ \A g \in Handler : g # h => req'[g].pc = "idle"
    BY <1>3 DEF AllIdle
  <2>2. OneLoginPerCode'
    BY <1>0, <1>1, <2>1 DEF AloneInv, OneLoginPerCode
  <2> QED
    BY <1>3, <2>1, <2>2
<1>12. RedeemableInv'
  BY <1>0, <1>1, <1>3, <1>6, RedeemableFrame
<1>13. LockoutExpires'
  BY <1>0, <1>1, <1>6, LockoutFrame
<1>14. TryInv'
  <2>1. ASSUME NEW c \in Code,
               c > asked' \/ \E g \in Handler : req'[g].pc \in Sending /\ req'[g].code = c
        PROVE  tries'[c] = 0
    <3>1. CASE c > asked
      BY <1>0, <1>1, <3>1 DEF TryInv
    <3>2. CASE ~(c > asked)
      <4>1. ~(c > asked') /\ c # asked + 1
        BY <1>0, <1>1, <3>2, NumberFacts DEF Code
      <4>2. PICK g \in Handler : req'[g].pc \in Sending /\ req'[g].code = c
        BY <2>1, <4>1
      <4>3. req[g].pc \in Sending /\ req[g].code = c
        BY <1>3, <4>1, <4>2
      <4> QED
        BY <1>0, <1>1, <4>3 DEF TryInv
    <3> QED
      BY <3>1, <3>2
  <2>2. TriesBounded'
    BY <1>0, <1>1, <1>3 DEF TryInv, TriesBounded
  <2>3. (alone' = "yes" /\ otp'.code # 0) => tries'[otp'.code] <= Allowance' + faults'
    <3>1. Allowance' = Allowance
      BY <1>1 DEF Allowance, Fresh, Counted
    <3> QED
      BY <1>0, <1>1, <1>3, <3>1 DEF TryInv
  <2>4. alone' = "yes" => \A g \in Handler : req'[g].pc \notin {"expire", "get"}
    BY <1>3 DEF AllIdle
  <2> QED
    BY <2>1, <2>2, <2>3, <2>4 DEF TryInv
<1> QED
  BY <1>4, <1>8, <1>9, <1>10, <1>11, <1>12, <1>13, <1>14 DEF IInv

(* A refused request leaves nothing but, after a lost reply, the cooldown. *)
LEMMA RefusedIInv == ASSUME IInv, NEW h \in Handler, OTPRequestRefused(h) PROVE IInv'
<1>0. /\ TypeOK /\ CodeInv /\ EpochInv /\ HoldInv /\ ClaimInv /\ AloneInv /\ RedeemableInv
      /\ TryInv /\ LockoutExpires
  BY DEF IInv
<1>1. /\ UNCHANGED <<otp, redeemed, attempts, req, asked, epoch, logins, tries, alone>>
      /\ cooldown' = cooldown \/ cooldown' = CooldownTTL
      /\ Fault \/ NoFault
  BY DEF OTPRequestRefused, NoFault
<1>2. /\ faults' \in 0..MaxFaults /\ faults' >= faults
      /\ faults' = 0 => faults = 0
  BY <1>0, <1>1, FaultFacts, NumberFacts
<1>3. TypeOK'
  BY <1>0, <1>1, <1>2, NumberFacts DEF TypeOK
<1>4. \A P : NoneEnters(P) /\ NoneLeaves(P)
  BY <1>1 DEF NoneEnters, NoneLeaves
<1>5. CodesKept /\ ClaimLasts
  BY <1>0, <1>1, RequestFacts, NumberFacts DEF CodesKept, ClaimLasts
<1>6. CodeInv' /\ EpochInv' /\ HoldInv' /\ ClaimInv'
  BY <1>0, <1>1, <1>3, <1>4, <1>5, CodeFrame, EpochFrame, HoldFrame, ClaimFrame
<1>7. AloneInv'
  BY <1>0, <1>1, <1>4, AloneFrame
<1>8. RedeemableInv' /\ LockoutExpires'
  BY <1>0, <1>1, <1>2, <1>4, RedeemableFrame, LockoutFrame
<1>9. TryInv'
  BY <1>0, <1>1, <1>2, <1>3, <1>4, <1>5, TryFrame
<1> QED
  BY <1>3, <1>6, <1>7, <1>8, <1>9 DEF IInv

(* Clearing the claim begins a new epoch: no claim and no redemption is of *)
(* that epoch yet.                                                         *)
LEMMA ClearIInv == ASSUME IInv, NEW h \in Handler, ClearRedeemed(h) PROVE IInv'
<1>0. /\ TypeOK /\ CodeInv /\ EpochInv /\ HoldInv /\ ClaimInv /\ AloneInv /\ RedeemableInv
      /\ TryInv /\ LockoutExpires
  BY DEF IInv
<1>1. /\ req[h].pc = "clear" /\ Goto(h, "store")
      /\ UNCHANGED <<otp, cooldown, attempts, asked, logins, tries, alone>>
      /\ \/ (Fault \/ NoFault) /\ redeemed' = 0 /\ epoch' = epoch + 1
         \/ Fault /\ UNCHANGED <<redeemed, epoch>>
  BY DEF ClearRedeemed, MayFault
<1>2. /\ req' \in [Handler -> Request]
      /\ req'[h].pc = "store" /\ req'[h].code = req[h].code /\ req'[h].age = req[h].age
      /\ \A g \in Handler : g # h => req'[g] = req[g]
  BY <1>0, <1>1, GotoFacts DEF Pc
<1>3. /\ faults' \in 0..MaxFaults /\ faults' >= faults
      /\ faults' = 0 => faults = 0 /\ redeemed' = 0
  BY <1>0, <1>1, FaultFacts, NumberFacts
<1>4. /\ NoneEnters({"reset"}) /\ NoneEnters({"clear"}) /\ NoneEnters(Holding)
      /\ NoneEnters({"claim", "reset"}) /\ NoneEnters({"claim", "delete", "reset"})
      /\ NoneEnters({"expire", "get"}) /\ NoneLeaves({"delete"}) /\ NoneLeaves({"expire"})
  BY <1>1, <1>2 DEF NoneEnters, NoneLeaves, Holding
<1>5. CodesKept
  BY <1>1, <1>2 DEF CodesKept, Sending, Holding
<1>6. epoch' + Cardinality(Clearing') <= asked /\ epoch' <= asked /\ EpochInv'
  <2>1. Clearing' \subseteq Clearing
    BY <1>1, <1>4 DEF Clearing, NoneEnters
  <2>2. req[h].code \in Clearing /\ req[h].code \notin Clearing'
    <3>1. req[h].code \in 1..asked
      BY <1>0, <1>1, RequestFacts, NumberFacts DEF CodeInv, Sending
    <3>2. \A g \in Handler : req'[g].pc = "clear" => req'[g].code # req[h].code
      BY <1>0, <1>1, <1>2 DEF CodeInv, Sending
    <3> QED
      BY <1>1, <3>1, <3>2 DEF Clearing
  <2>3. IsFiniteSet(Clearing)
    <3>1. Clearing \subseteq 1..asked /\ IsFiniteSet(1..asked)
      BY <1>0, FS_Interval, NumberFacts DEF Clearing
    <3> QED
      BY <3>1, FS_Subset
  <2>4. /\ Cardinality(Clearing \ {req[h].code}) = Cardinality(Clearing) - 1
        /\ IsFiniteSet(Clearing \ {req[h].code}) /\ Cardinality(Clearing) \in Nat
    BY <2>2, <2>3, FS_RemoveElement, FS_CardinalityType
  <2>5. /\ Cardinality(Clearing') <= Cardinality(Clearing \ {req[h].code})
        /\ Cardinality(Clearing') \in Nat
    <3>1. Clearing' \subseteq Clearing \ {req[h].code}
      BY <2>1, <2>2
    <3> QED
      BY <2>4, <3>1, FS_Subset, FS_CardinalityType
  <2>6. epoch' \in Nat /\ epoch' <= epoch + 1
    BY <1>0, <1>1, NumberFacts
  <2> QED
    BY <1>0, <1>1, <2>4, <2>5, <2>6, NumberFacts DEF EpochInv
<1>7. TypeOK'
  <2>1. \A g \in Handler : req'[g].code \in 0..asked
    BY <1>0, <1>2 DEF TypeOK
  <2>2. epoch' \in 0..asked /\ redeemed' \in 0..RedeemedTTL /\ 0..epoch \subseteq 0..epoch'
    BY <1>0, <1>1, <1>6, NumberFacts
  <2>3. logins' \in Seq([code : Code, epoch : 0..epoch'])
    <3>1. [code : Code, epoch : 0..epoch] \subseteq [code : Code, epoch : 0..epoch']
      BY <2>2
    <3>2. logins \in Seq([code : Code, epoch : 0..epoch])
      BY <1>0 DEF TypeOK
    <3> QED
      BY <1>1, <3>1, <3>2, SeqMonotonic
  <2> QED
    BY <1>0, <1>1, <1>2, <1>3, <2>1, <2>2, <2>3 DEF TypeOK
<1>8. CodeInv'
  BY <1>0, <1>1, <1>4, <1>5, CodeFrame
<1>9. HoldInv' /\ ClaimInv'
  <2>1. CASE UNCHANGED <<redeemed, epoch>>
    <3>1. ClaimLasts
      BY <1>0, <1>2, <2>1, RequestFacts, NumberFacts DEF ClaimLasts
    <3> QED
      BY <1>0, <1>1, <1>4, <1>7, <2>1, <3>1, HoldFrame, ClaimFrame
  <2>2. CASE epoch' = epoch + 1
    <3>1. ASSUME NEW g \in Handler, req'[g].pc \in Holding
          PROVE  /\ req[g].pc \in Holding /\ req'[g].epoch = req[g].epoch
                 /\ req'[g].epoch <= epoch /\ req'[g].epoch # epoch' /\ req'[g].epoch <= epoch'
      <4>1. req[g].pc \in Holding /\ req'[g].epoch = req[g].epoch /\ req[g].epoch <= epoch
        BY <1>0, <1>4, <3>1 DEF NoneEnters, HoldInv
      <4> QED
        BY <1>0, <2>2, <4>1, RequestFacts, NumberFacts
    <3>2. HoldInv'
      BY <1>0, <3>1 DEF HoldInv
    <3>3. Redeemed' = {}
      <4>1. \A i \in DOMAIN logins' : logins'[i].epoch # epoch'
        BY <1>0, <1>1, <2>2, LoginFacts, NumberFacts
      <4>2. \A g \in Handler : req'[g].pc = "reset" => req'[g].epoch # epoch'
        BY <3>1 DEF Holding
      <4> QED
        BY <4>1, <4>2 DEF Redeemed
    <3> QED
      BY <3>2, <3>3 DEF ClaimInv
  <2> QED
    BY <1>1, <2>1, <2>2
<1>10. AloneInv'
  <2>1. \A g \in Handler : req'[g].pc # "idle" => req[g].pc # "idle"
    BY <1>1, <1>2
  <2> QED
    BY <1>0, <1>1, <1>4, <2>1, AloneFrame
<1>11. RedeemableInv'
  BY <1>3 DEF RedeemableInv
<1>12. LockoutExpires'
  BY <1>0, <1>1, <1>3, <1>4, LockoutFrame
<1>13. TryInv'
  BY <1>0, <1>1, <1>3, <1>4, <1>5, <1>7, TryFrame
<1> QED
  BY <1>6, <1>7, <1>8, <1>9, <1>10, <1>11, <1>12, <1>13 DEF IInv

LEMMA AllowanceFacts ==
    ASSUME TypeOK
    PROVE  Allowance \in Nat /\ Allowance <= 2 * MaxAttempts - 1
  BY KeyFacts, NumberFacts DEF Allowance, Counted

(* A code that is stored was never stored before, and nobody has guessed   *)
(* at it.                                                                  *)
LEMMA StoreIInv == ASSUME IInv, NEW h \in Handler, StoreOTP(h) PROVE IInv'
<1>0. /\ TypeOK /\ CodeInv /\ EpochInv /\ HoldInv /\ ClaimInv /\ AloneInv /\ RedeemableInv
      /\ TryInv /\ LockoutExpires
  BY DEF IInv
<1>1. /\ req[h].pc = "store" /\ Respond(h) /\ (Fault \/ NoFault)
      /\ UNCHANGED <<cooldown, redeemed, attempts, asked, epoch, logins, tries, alone>>
  BY DEF StoreOTP, MayFault
<1>2. CASE Fault /\ UNCHANGED otp
  BY <1>1, <1>2, RespondIInv
<1>3. CASE otp' = [code |-> req[h].code, ttl |-> OtpTTL]
  <2>1. /\ req' \in [Handler -> Request] /\ req'[h].pc = "idle" /\ req'[h].code = 0
        /\ \A g \in Handler : g # h => req'[g] = req[g]
    BY <1>0, <1>1, RespondFacts
  <2>2. /\ faults' \in 0..MaxFaults /\ faults' >= faults /\ faults' \in Nat
        /\ faults' = 0 => faults = 0
    BY <1>0, <1>1, FaultFacts, NumberFacts
  <2>3. PICK c \in Code : c = req[h].code /\ c \in 1..asked /\ c # 0
    BY <1>0, <1>1, RequestFacts, NumberFacts DEF CodeInv, Sending, Code
  <2>4. otp'.code = c /\ otp'.ttl = OtpTTL
        /\ otp' \in {NoOtp} \cup [code : 1..asked, ttl : 1..OtpTTL]
    BY <1>0, <1>3, <2>3, NumberFacts
  <2>5. TypeOK'
    <3>1. \A g \in Handler : req'[g].code \in 0..asked
      BY <1>0, <2>1, NumberFacts DEF TypeOK
    <3> QED
      BY <1>0, <1>1, <2>1, <2>2, <2>4, <3>1 DEF TypeOK
  <2>6. /\ NoneEnters({"reset"}) /\ NoneEnters({"clear"}) /\ NoneEnters(Holding)
        /\ NoneEnters({"claim", "reset"}) /\ NoneEnters({"claim", "delete", "reset"})
        /\ NoneLeaves({"expire"})
    BY <1>1, <2>1 DEF NoneEnters, NoneLeaves, Holding
  <2>7. ClaimLasts
    BY <1>0, <1>1, <2>1, RequestFacts, NumberFacts DEF ClaimLasts, Holding
  <2>8. EpochInv' /\ HoldInv' /\ ClaimInv'
    BY <1>0, <1>1, <2>5, <2>6, <2>7, EpochFrame, HoldFrame, ClaimFrame
  <2>9. CodeInv'
    <3>1. /\ Deleted' \subseteq Deleted /\ LoginCodes' = LoginCodes
      BY <1>1, <2>6, DeletedFrame
    <3>2. c \notin Deleted
      BY <1>0, <1>1, <2>3 DEF CodeInv, Sending
    <3>3. \A g \in Handler :
             req'[g].pc \in Sending \cup Holding \cup {"claim"} => g # h /\ req'[g] = req[g]
      BY <2>1 DEF Sending, Holding
    <3>4. ASSUME NEW g \in Handler, g # h, req[g].pc \in Sending PROVE req[g].code # c
      BY <1>0, <1>1, <2>3, <3>4 DEF CodeInv, Sending
    <3> QED
      BY <1>0, <1>1, <2>4, <3>1, <3>2, <3>3, <3>4 DEF CodeInv
  <2>10. alone' = "yes" => \A g \in Handler : req'[g].pc = "idle"
    BY <1>0, <1>1, <2>1 DEF AloneInv
  <2>11. AloneInv'
    <3>1. alone' = "yes" => OneLoginPerCode'
      BY <1>0, <1>1 DEF AloneInv, OneLoginPerCode
    <3> QED
      BY <2>10, <3>1 DEF AloneInv
  <2>12. RedeemableInv'
    BY <1>0, <1>1, <2>2, <2>10 DEF RedeemableInv
  <2>13. LockoutExpires'
    BY <1>0, <1>1, <2>2, <2>6, LockoutFrame
  <2>14. TryInv'
    <3>1. \A d \in Code :
             (d > asked' \/ \E g \in Handler : req'[g].pc \in Sending /\ req'[g].code = d) => tries'[d] = 0
      BY <1>0, <1>1, <2>1 DEF TryInv, Sending
    <3>2. TriesBounded'
      <4>1. \A d \in Code : tries[d] \in Nat
        BY <1>0 DEF TypeOK
      <4> QED
        BY <1>0, <1>1, <2>2, <4>1, NumberFacts DEF TryInv, TriesBounded
    <3>3. tries'[otp'.code] = 0
      BY <1>0, <1>1, <2>3, <2>4 DEF TryInv, Sending
    <3>4. Allowance' \in Nat
      <4>1. attempts'.n = attempts.n
        BY <1>1
      <4>2. attempts.n \in Nat /\ MaxAttempts \in Nat /\ MaxAttempts > 0
        BY <1>0, KeyFacts, NumberFacts
      <4> QED
        BY <4>1, <4>2 DEF Allowance, Counted
    <3>5. tries'[otp'.code] <= Allowance' + faults'
      <4>1. PICK a \in Nat : a = Allowance'
        BY <3>4
      <4>2. PICK f \in Nat : f = faults'
        BY <2>2
      <4>3. 0 <= a + f
        OBVIOUS
      <4> QED
        BY <3>3, <4>1, <4>2, <4>3
    <3> QED
      BY <2>10, <3>1, <3>2, <3>5 DEF TryInv
  <2> QED
    BY <2>5, <2>8, <2>9, <2>11, <2>12, <2>13, <2>14 DEF IInv
<1> QED
  BY <1>2, <1>3 DEF StoreOTP

(* A guess that is not counted is one at a missing code, or a fault.       *)
LEMMA VerifyIInv ==
    ASSUME IInv, NEW h \in Handler, NEW guess \in 0..asked, OTPVerify(h, guess)
    PROVE  IInv'
<1>0. /\ TypeOK /\ CodeInv /\ EpochInv /\ HoldInv /\ ClaimInv /\ AloneInv /\ RedeemableInv
      /\ TryInv /\ LockoutExpires
  BY DEF IInv
<1>1. PICK x \in {"incr", "get"} :
         /\ req[h].pc = "idle" /\ Begin(h, x, guess) /\ (Fault \/ NoFault)
         /\ x = "get" => Fault \/ otp.code = 0
         /\ UNCHANGED <<otp, cooldown, redeemed, attempts, asked, epoch, logins, tries>>
  BY DEF OTPVerify, keys
<1>2. guess \in 0..MaxCodes
  BY <1>0, NumberFacts
<1>3. /\ req' \in [Handler -> Request]
      /\ req'[h].pc = x /\ req'[h].code = guess
      /\ \A g \in Handler : g # h => req'[g] = req[g]
      /\ alone' \in {"yes", "no"}
      /\ alone' = "yes" => alone = "yes" /\ AllIdle
  BY <1>0, <1>1, <1>2, BeginFacts DEF Pc
<1>4. /\ faults' \in 0..MaxFaults /\ faults' >= faults /\ faults' \in Nat
      /\ faults' = 0 => faults = 0
  BY <1>0, <1>1, FaultFacts, NumberFacts
<1>5. TypeOK'
  <2>1. \A g \in Handler : req'[g].code \in 0..asked
    BY <1>0, <1>3 DEF TypeOK
  <2> QED
    BY <1>0, <1>1, <1>3, <1>4, <2>1 DEF TypeOK
<1>6. /\ NoneEnters({"reset"}) /\ NoneEnters({"clear"}) /\ NoneEnters(Holding)
      /\ NoneEnters({"claim", "reset"}) /\ NoneEnters({"claim", "delete", "reset"})
      /\ NoneEnters({"store"}) /\ NoneLeaves({"delete"}) /\ NoneLeaves({"expire"})
  BY <1>1, <1>3 DEF NoneEnters, NoneLeaves, Holding
<1>7. CodesKept
  BY <1>1, <1>3 DEF CodesKept, Sending, Holding
<1>8. ClaimLasts
  BY <1>0, <1>1, <1>3, RequestFacts, NumberFacts DEF ClaimLasts, Holding
<1>9. CodeInv' /\ EpochInv' /\ HoldInv' /\ ClaimInv'
  BY <1>0, <1>1, <1>5, <1>6, <1>7, <1>8, CodeFrame, EpochFrame, HoldFrame, ClaimFrame
<1>10. AloneInv'
  <2> SUFFICES ASSUME alone' = "yes" PROVE AloneInv!2'
    BY DEF AloneInv
  <2>1. alone = "yes" /\ \A g \in Handler : g # h => req'[g].pc = "idle"
    BY <1>3 DEF AllIdle
  <2>2. OneLoginPerCode'
    BY <1>0, <1>1, <2>1 DEF AloneInv, OneLoginPerCode
  <2> QED
    BY <1>1, <1>3, <2>1, <2>2
<1>11. RedeemableInv' /\ LockoutExpires'
  BY <1>0, <1>1, <1>3, <1>4, <1>6, RedeemableFrame, LockoutFrame
<1>12. TryInv'
  <2>1. \A c \in Code :
           (c > asked' \/ \E g \in Handler : req'[g].pc \in Sending /\ req'[g].code = c) => tries'[c] = 0
    BY <1>0, <1>1, <1>7 DEF TryInv, CodesKept
  <2>2. TriesBounded'
    <3>1. \A c \in Code : tries[c] \in Nat
      BY <1>0 DEF TypeOK
    <3> QED
      BY <1>0, <1>1, <1>3, <1>4, <3>1, NumberFacts DEF TryInv, TriesBounded
  <2>3. ASSUME alone' = "yes", otp'.code # 0
        PROVE  /\ tries'[otp'.code] <= Allowance' + faults'
               /\ (\E g \in Handler : req'[g].pc \in {"expire", "get"})
                     => tries'[otp'.code] + 1 <= Allowance' + faults'
    <3>1. Allowance' = Allowance /\ Allowance \in Nat
      BY <1>0, <1>1, AllowanceFacts DEF Allowance, Fresh, Counted
    <3>2. tries[otp.code] <= Allowance + faults /\ tries[otp.code] \in Nat
      BY <1>0, <1>1, <1>3, <2>3, KeyFacts DEF TryInv, TypeOK
    <3>3. (\E g \in Handler : req'[g].pc \in {"expire", "get"}) => Fault
      BY <1>1, <1>3, <2>3 DEF AllIdle
    <3>4. Fault => faults' = faults + 1
      BY DEF Fault
    <3>5. tries'[otp'.code] = tries[otp.code]
      BY <1>1
    <3> QED
      BY <1>0, <1>4, <3>1, <3>2, <3>3, <3>4, <3>5, NumberFacts
  <2> QED
    BY <2>1, <2>2, <2>3 DEF TryInv
<1> QED
  BY <1>5, <1>9, <1>10, <1>11, <1>12 DEF IInv

(* What Incr does to the counter, and with it to the guesses the code in   *)
(* store may see.                                                          *)
LEMMA IncrFacts ==
    ASSUME TypeOK, attempts' = Incremented
    PROVE  /\ attempts' \in [n : 1..(MaxAttempts + 1), ttl : {NoTTL} \cup 1..OtpTTL]
           /\ attempts'.n # 0
           /\ attempts'.ttl = IF attempts.n = 0 THEN NoTTL ELSE attempts.ttl
           /\ attempts.n < MaxAttempts => attempts'.n = attempts.n + 1
           /\ attempts.n >= MaxAttempts => attempts'.n >= MaxAttempts
           /\ attempts'.n \in Nat
<1>1. CASE attempts.n = 0
  <2>1. attempts' = [n |-> 1, ttl |-> NoTTL]
    BY <1>1 DEF Incremented
  <2>2. 1 \in 1..(MaxAttempts + 1)
    BY NumberFacts
  <2>3. /\ attempts' \in [n : 1..(MaxAttempts + 1), ttl : {NoTTL} \cup 1..OtpTTL]
        /\ attempts'.n = 1 /\ attempts'.ttl = NoTTL
    BY <2>1, <2>2
  <2> QED
    BY <1>1, <2>3, NumberFacts
<1>2. CASE attempts.n # 0
  <2>1. PICK m : m = IF attempts.n > MaxAttempts THEN attempts.n ELSE attempts.n + 1
    OBVIOUS
  <2>2. attempts' = [attempts EXCEPT !.n = m]
    BY <1>2, <2>1 DEF Incremented
  <2>3. /\ m \in 1..(MaxAttempts + 1) /\ m # 0 /\ m \in Nat
        /\ attempts.n < MaxAttempts => m = attempts.n + 1
        /\ attempts.n >= MaxAttempts => m >= MaxAttempts
    BY <1>2, <2>1, KeyFacts, NumberFacts
  <2>4. attempts \in [n : 1..(MaxAttempts + 1), ttl : {NoTTL} \cup 1..OtpTTL]
    BY <1>2, KeyFacts DEF TypeOK
  <2>5. /\ attempts' \in [n : 1..(MaxAttempts + 1), ttl : {NoTTL} \cup 1..OtpTTL]
        /\ attempts'.n = m /\ attempts'.ttl = attempts.ttl
    BY <2>2, <2>3, <2>4
  <2> QED
    BY <1>2, <2>3, <2>5
<1> QED
  BY <1>1, <1>2

LEMMA IncrAllowance ==
    ASSUME TypeOK, attempts' = Incremented, otp' = otp
    PROVE  /\ Allowance' \in Nat /\ Allowance' >= Allowance
           /\ attempts.n < MaxAttempts => Allowance' >= Allowance + 1
<1>1. /\ attempts'.n # 0 /\ attempts'.n \in Nat
      /\ attempts'.ttl = IF attempts.n = 0 THEN NoTTL ELSE attempts.ttl
      /\ attempts.n < MaxAttempts => attempts'.n = attempts.n + 1
      /\ attempts.n >= MaxAttempts => attempts'.n >= MaxAttempts
  BY IncrFacts
<1>2. attempts.n \in Nat /\ MaxAttempts \in Nat /\ MaxAttempts > 0
  BY KeyFacts, NumberFacts
<1>3. CASE attempts.n = 0
  <2>1. Fresh' /\ Counted' = 1
    BY <1>1, <1>2, <1>3 DEF Fresh, Counted
  <2>2. Allowance = MaxAttempts - 1 /\ Allowance' = MaxAttempts - 1 + 1
    BY <1>1, <1>3, <2>1 DEF Allowance
  <2> QED
    BY <1>2, <2>2
<1>4. CASE attempts.n # 0
  <2>1. Fresh' = Fresh
    BY <1>1, <1>4 DEF Fresh
  <2>2. PICK c \in Nat : c = Counted /\ c >= 1
    BY <1>2, <1>4 DEF Counted
  <2>3. PICK d \in Nat : d = Counted' /\ d >= c /\ (attempts.n < MaxAttempts => d >= c + 1)
    BY <1>1, <1>2, <1>4, <2>2 DEF Counted
  <2>4. c >= 1 /\ d >= c
    BY <2>2, <2>3
  <2>5. CASE Fresh
    <3>1. Allowance = MaxAttempts - 1 + c /\ Allowance' = MaxAttempts - 1 + d
      BY <1>1, <1>4, <2>1, <2>2, <2>3, <2>5 DEF Allowance
    <3>2. /\ MaxAttempts - 1 + d \in Nat /\ MaxAttempts - 1 + d >= MaxAttempts - 1 + c
          /\ d >= c + 1 => MaxAttempts - 1 + d >= MaxAttempts - 1 + c + 1
      BY <1>2, <2>4
    <3> QED
      BY <2>3, <3>1, <3>2
  <2>6. CASE ~Fresh
    <3>1. Allowance = c - 1 /\ Allowance' = d - 1
      BY <1>1, <1>4, <2>1, <2>2, <2>3, <2>6 DEF Allowance
    <3>2. /\ d - 1 \in Nat /\ d - 1 >= c - 1
          /\ d >= c + 1 => d - 1 >= c - 1 + 1
      BY <2>4
    <3> QED
      BY <2>3, <3>1, <3>2
  <2> QED
    BY <2>5, <2>6
<1> QED
  BY <1>3, <1>4

(* A step that lets the code in store see as many guesses as before, or    *)
(* one more for a guess it adds.                                           *)
LEMMA TryGrows ==
    ASSUME TypeOK, TryInv, UNCHANGED <<asked, tries, otp, alone>>, CodesKept,
           faults' \in Nat, faults' >= faults,
           Allowance' \in Nat, Allowance' >= Allowance,
           \/ NoneEnters({"expire", "get"})
           \/ \A g \in Handler : req'[g].pc \in {"expire", "get"}
                                    => \E f \in Handler : req[f].pc \in {"expire", "get"}
           \/ Allowance' >= Allowance + 1
           \/ faults' = faults + 1
    PROVE  TryInv'
<1>1. \A c \in Code :
          (c > asked' \/ \E h \in Handler : req'[h].pc \in Sending /\ req'[h].code = c) => tries'[c] = 0
  BY DEF TryInv, CodesKept
<1>2. TriesBounded'
  <2>1. \A c \in Code : tries[c] \in Nat
    BY DEF TypeOK
  <2> QED
    BY <2>1, NumberFacts DEF TryInv, TriesBounded
<1>3. ASSUME alone' = "yes", otp'.code # 0
      PROVE  /\ tries'[otp'.code] <= Allowance' + faults'
             /\ (\E h \in Handler : req'[h].pc \in {"expire", "get"})
                   => tries'[otp'.code] + 1 <= Allowance' + faults'
  <2>1. /\ tries[otp.code] \in Nat /\ Allowance \in Nat /\ faults \in Nat
        /\ tries'[otp'.code] = tries[otp.code]
    BY <1>3, KeyFacts, AllowanceFacts, NumberFacts DEF TypeOK
  <2>2. tries[otp.code] <= Allowance + faults
    BY <1>3 DEF TryInv
  <2>3. ASSUME \E h \in Handler : req'[h].pc \in {"expire", "get"}
        PROVE  tries[otp.code] + 1 <= Allowance' + faults'
    <3>1. CASE \E h \in Handler : req[h].pc \in {"expire", "get"}
      <4>1. tries[otp.code] + 1 <= Allowance + faults
        BY <1>3, <3>1 DEF TryInv
      <4> QED
        BY <2>1, <4>1
    <3>2. CASE Allowance' >= Allowance + 1
      BY <2>1, <2>2, <3>2
    <3>3. CASE faults' = faults + 1
      BY <2>1, <2>2, <3>3
    <3> QED
      BY <2>3, <3>1, <3>2, <3>3 DEF NoneEnters
  <2> QED
    BY <2>1, <2>2, <2>3
<1> QED
  BY <1>1, <1>2, <1>3 DEF TryInv

(* The counter: an attempt that is counted and goes on adds one guess.     *)
LEMMA IncrIInv == ASSUME IInv, NEW h \in Handler, IncrAttempts(h) PROVE IInv'
<1>0. /\ TypeOK /\ CodeInv /\ EpochInv /\ HoldInv /\ ClaimInv /\ AloneInv /\ RedeemableInv
      /\ TryInv /\ LockoutExpires
  BY DEF IInv
<1>1. PICK x \in {"idle", "expire", "get"} :
         /\ req[h].pc = "incr" /\ (Fault \/ NoFault)
         /\ \/ x = "idle" /\ Respond(h)
            \/ x # "idle" /\ Goto(h, x)
         /\ \/ attempts' = Incremented
            \/ Fault /\ attempts' = attempts
         /\ ~Fault => /\ x = "expire" <=> attempts.n = 0
                      /\ x = "get" => attempts.n < MaxAttempts
                      /\ x = "expire" => attempts.n < MaxAttempts
         /\ UNCHANGED <<otp, cooldown, redeemed, asked, epoch, logins, tries, alone>>
  <2>1. MaxAttempts \in Nat /\ MaxAttempts > 0 /\ attempts.n \in Nat
    BY <1>0, KeyFacts, NumberFacts
  <2> QED
    BY <2>1 DEF IncrAttempts
<1>2. /\ req' \in [Handler -> Request] /\ req'[h].pc = x
      /\ x # "idle" => req'[h].code = req[h].code /\ req'[h].age = req[h].age
      /\ x = "idle" => req'[h].code = 0
      /\ \A g \in Handler : g # h => req'[g] = req[g]
  BY <1>0, <1>1, GotoFacts, RespondFacts DEF Pc
<1>3. /\ faults' \in 0..MaxFaults /\ faults' >= faults /\ faults' \in Nat
      /\ faults' = 0 => faults = 0 /\ ~Fault
  BY <1>0, <1>1, FaultFacts, NumberFacts
<1>4. TypeOK'
  <2>1. ASSUME NEW g \in Handler PROVE req'[g].code \in 0..asked
    <3>1. req'[g].code = req[g].code \/ req'[g].code = 0
      BY <1>1, <1>2
    <3>2. req[g].code \in 0..asked /\ 0 \in 0..asked
      BY <1>0, NumberFacts DEF TypeOK
    <3> QED
      BY <3>1, <3>2
  <2>2. attempts' \in {NoCounter} \cup [n : 1..(MaxAttempts + 1), ttl : {NoTTL} \cup 1..OtpTTL]
    BY <1>0, <1>1, IncrFacts DEF TypeOK
  <2> QED
    BY <1>0, <1>1, <1>2, <1>3, <2>1, <2>2 DEF TypeOK
<1>5. /\ NoneEnters({"reset"}) /\ NoneEnters({"clear"}) /\ NoneEnters(Holding)
      /\ NoneEnters({"claim", "reset"}) /\ NoneEnters({"claim", "delete", "reset"})
      /\ NoneEnters({"store"}) /\ NoneLeaves({"delete"}) /\ NoneLeaves({"expire"})
  BY <1>1, <1>2 DEF NoneEnters, NoneLeaves, Holding
<1>6. CodesKept
  BY <1>1, <1>2 DEF CodesKept, Sending, Holding
<1>7. ClaimLasts
  BY <1>0, <1>1, <1>2, RequestFacts, NumberFacts DEF ClaimLasts, Holding
<1>8. CodeInv' /\ EpochInv' /\ HoldInv' /\ ClaimInv'
  BY <1>0, <1>1, <1>4, <1>5, <1>6, <1>7, CodeFrame, EpochFrame, HoldFrame, ClaimFrame
<1>9. AloneInv'
  <2>1. \A g \in Handler : req'[g].pc # "idle" => req[g].pc # "idle"
    BY <1>1, <1>2
  <2> QED
    BY <1>0, <1>1, <1>5, <2>1, AloneFrame
<1>10. RedeemableInv'
  BY <1>0, <1>1, <1>3, <1>5, RedeemableFrame
<1>11. LockoutExpires'
  <2> SUFFICES ASSUME attempts'.ttl = NoTTL, faults' = 0
               PROVE  \E g \in Handler : req'[g].pc = "expire"
    BY DEF LockoutExpires
  <2>1. ~Fault /\ faults = 0 /\ attempts' = Incremented
    BY <1>1, <1>3
  <2>2. CASE attempts.n = 0
    BY <1>1, <1>2, <2>1, <2>2
  <2>3. CASE attempts.n # 0
    <3>1. attempts.ttl = NoTTL
      BY <1>0, <2>1, <2>3, IncrFacts
    <3> QED
      BY <1>0, <1>5, <2>1, <3>1 DEF LockoutExpires, NoneLeaves
  <2> QED
    BY <2>2, <2>3
<1>12. TryInv'
  <2>1. CASE attempts' = Incremented
    <3>1. /\ Allowance' \in Nat /\ Allowance' >= Allowance
          /\ attempts.n < MaxAttempts => Allowance' >= Allowance + 1
      BY <1>0, <1>1, <2>1, IncrAllowance
    <3>2. CASE x = "idle"
      <4>1. NoneEnters({"expire", "get"})
        BY <1>2, <3>2 DEF NoneEnters
      <4> QED
        BY <1>0, <1>1, <1>3, <1>6, <3>1, <4>1, TryGrows
    <3>3. CASE Fault
      BY <1>0, <1>1, <1>3, <1>6, <3>1, <3>3, FaultFacts, TryGrows
    <3>4. CASE x # "idle" /\ ~Fault
      BY <1>0, <1>1, <1>3, <1>6, <3>1, <3>4, TryGrows
    <3> QED
      BY <3>2, <3>3, <3>4
  <2>2. CASE Fault /\ attempts' = attempts
    <3>1. Allowance' = Allowance /\ Allowance \in Nat
      BY <1>0, <1>1, <2>2, AllowanceFacts DEF Allowance, Fresh, Counted
    <3> QED
      BY <1>0, <1>1, <1>3, <1>6, <2>2, <3>1, FaultFacts, TryGrows
  <2> QED
    BY <1>1, <2>1, <2>2
<1> QED
  BY <1>4, <1>8, <1>9, <1>10, <1>11, <1>12 DEF IInv

(* Setting the TTL makes the counter outlive the code.                     *)
LEMMA ExpireIInv == ASSUME IInv, NEW h \in Handler, ExpireAttempts(h) PROVE IInv'
<1>0. /\ TypeOK /\ CodeInv /\ EpochInv /\ HoldInv /\ ClaimInv /\ AloneInv /\ RedeemableInv
      /\ TryInv /\ LockoutExpires
  BY DEF IInv
<1>1. /\ req[h].pc = "expire" /\ Goto(h, "get") /\ (Fault \/ NoFault)
      /\ \/ attempts.n # 0 /\ attempts' = [attempts EXCEPT !.ttl = OtpTTL]
         \/ attempts' = attempts /\ (attempts.n = 0 \/ Fault)
      /\ UNCHANGED <<otp, cooldown, redeemed, asked, epoch, logins, tries, alone>>
  BY DEF ExpireAttempts, MayFault
<1>2. /\ req' \in [Handler -> Request] /\ req'[h].pc = "get"
      /\ req'[h].code = req[h].code /\ req'[h].age = req[h].age
      /\ \A g \in Handler : g # h => req'[g] = req[g]
  BY <1>0, <1>1, GotoFacts DEF Pc
<1>3. /\ faults' \in 0..MaxFaults /\ faults' >= faults /\ faults' \in Nat
      /\ faults' = 0 => faults = 0 /\ ~Fault
  BY <1>0, <1>1, FaultFacts, NumberFacts
<1>4. /\ attempts' \in {NoCounter} \cup [n : 1..(MaxAttempts + 1), ttl : {NoTTL} \cup 1..OtpTTL]
      /\ attempts'.n = attempts.n
      /\ attempts' = attempts \/ (attempts.n # 0 /\ attempts'.ttl = OtpTTL)
  <2>1. CASE attempts' = attempts
    BY <1>0, <2>1 DEF TypeOK
  <2>2. CASE attempts.n # 0 /\ attempts' = [attempts EXCEPT !.ttl = OtpTTL]
    <3>1. attempts \in [n : 1..(MaxAttempts + 1), ttl : {NoTTL} \cup 1..OtpTTL]
      BY <1>0, <2>2, KeyFacts DEF TypeOK
    <3>2. OtpTTL \in {NoTTL} \cup 1..OtpTTL
      BY <1>0, NumberFacts
    <3> QED
      BY <2>2, <3>1, <3>2
  <2> QED
    BY <1>1, <2>1, <2>2
<1>5. TypeOK'
  <2>1. \A g \in Handler : req'[g].code \in 0..asked
    BY <1>0, <1>2 DEF TypeOK
  <2> QED
    BY <1>0, <1>1, <1>2, <1>3, <1>4, <2>1 DEF TypeOK
<1>6. /\ NoneEnters({"reset"}) /\ NoneEnters({"clear"}) /\ NoneEnters(Holding)
      /\ NoneEnters({"claim", "reset"}) /\ NoneEnters({"claim", "delete", "reset"})
      /\ NoneEnters({"store"}) /\ NoneLeaves({"delete"})
  BY <1>1, <1>2 DEF NoneEnters, NoneLeaves, Holding
<1>7. CodesKept
  BY <1>1, <1>2 DEF CodesKept, Sending, Holding
<1>8. ClaimLasts
  BY <1>0, <1>1, <1>2, RequestFacts, NumberFacts DEF ClaimLasts, Holding
<1>9. CodeInv' /\ EpochInv' /\ HoldInv' /\ ClaimInv'
  BY <1>0, <1>1, <1>5, <1>6, <1>7, <1>8, CodeFrame, EpochFrame, HoldFrame, ClaimFrame
<1>10. AloneInv'
  <2>1. \A g \in Handler : req'[g].pc # "idle" => req[g].pc # "idle"
    BY <1>1, <1>2
  <2> QED
    BY <1>0, <1>1, <1>6, <2>1, AloneFrame
<1>11. RedeemableInv'
  BY <1>0, <1>1, <1>3, <1>6, RedeemableFrame
<1>12. LockoutExpires'
  <2>1. faults' = 0 => attempts'.ttl # NoTTL
    BY <1>0, <1>1, <1>3, <1>4, KeyFacts, NumberFacts
  <2> QED
    BY <2>1 DEF LockoutExpires
<1>13. TryInv'
  <2>1. Allowance' \in Nat /\ Allowance' >= Allowance
    <3>1. CASE attempts' = attempts
      <4>1. Allowance' = Allowance
        BY <1>1, <3>1 DEF Allowance, Fresh, Counted
      <4> QED
        BY <1>0, <4>1, AllowanceFacts
    <3>2. CASE attempts.n # 0 /\ attempts'.ttl = OtpTTL
      <4>1. Fresh'
        BY <1>0, <1>1, <3>2, KeyFacts, NumberFacts DEF Fresh
      <4>2. PICK c \in Nat : c = Counted /\ c >= 1 /\ c = Counted'
        BY <1>0, <1>4, <3>2, KeyFacts, NumberFacts DEF Counted
      <4>3. Allowance' = MaxAttempts - 1 + c
        BY <1>4, <3>2, <4>1, <4>2 DEF Allowance
      <4>4. Allowance = MaxAttempts - 1 + c \/ Allowance = c - 1
        BY <3>2, <4>2 DEF Allowance
      <4> QED
        BY <1>0, <4>2, <4>3, <4>4, NumberFacts
    <3> QED
      BY <1>4, <3>1, <3>2
  <2> QED
    BY <1>0, <1>1, <1>3, <1>7, <2>1, TryGrows
<1> QED
  BY <1>5, <1>9, <1>10, <1>11, <1>12, <1>13 DEF IInv

(* A guess is compared: the one guess that was counted, or more than one   *)
(* fault has paid for it.                                                  *)
LEMMA CompareIInv ==
    ASSUME IInv, NEW h \in Handler, req[h].pc = "get", otp.code # 0, NoFault,
           tries' = [tries EXCEPT ![otp.code] = IF alone = "yes" THEN @ + 1 ELSE @],
           \/ otp.code = req[h].code /\ Goto(h, "claim")
           \/ Respond(h),
           UNCHANGED <<keys, asked, epoch, logins, alone>>
    PROVE  IInv'
<1>0. /\ TypeOK /\ CodeInv /\ EpochInv /\ HoldInv /\ ClaimInv /\ AloneInv /\ RedeemableInv
      /\ TryInv /\ LockoutExpires
  BY DEF IInv
<1>1. UNCHANGED <<otp, cooldown, redeemed, attempts, asked, epoch, logins, alone, faults>>
  BY DEF keys, NoFault
<1>2. PICK x \in {"idle", "claim"} :
         /\ req' \in [Handler -> Request] /\ req'[h].pc = x
         /\ x = "claim" => /\ req'[h].code = req[h].code /\ req'[h].age = req[h].age
                           /\ otp.code = req[h].code
         /\ x = "idle" => req'[h].code = 0
         /\ \A g \in Handler : g # h => req'[g] = req[g]
  <2>1. CASE Respond(h)
    BY <1>0, <2>1, RespondFacts
  <2>2. CASE otp.code = req[h].code /\ Goto(h, "claim")
    BY <1>0, <2>2, GotoFacts DEF Pc
  <2> QED
    BY <2>1, <2>2
<1>3. /\ otp.code \in Code /\ tries \in [Code -> Nat]
  BY <1>0, KeyFacts DEF TypeOK
<1>4. /\ tries' \in [Code -> Nat]
      /\ \A c \in Code : c # otp.code => tries'[c] = tries[c]
      /\ tries'[otp.code] = IF alone = "yes" THEN tries[otp.code] + 1 ELSE tries[otp.code]
  BY <1>3
<1>5. TypeOK'
  <2>1. ASSUME NEW g \in Handler PROVE req'[g].code \in 0..asked
    <3>1. req'[g].code = req[g].code \/ req'[g].code = 0
      BY <1>2
    <3>2. req[g].code \in 0..asked /\ 0 \in 0..asked
      BY <1>0, NumberFacts DEF TypeOK
    <3> QED
      BY <3>1, <3>2
  <2> QED
    BY <1>0, <1>1, <1>2, <1>4, <2>1 DEF TypeOK
<1>6. /\ NoneEnters({"reset"}) /\ NoneEnters({"clear"}) /\ NoneEnters(Holding)
      /\ NoneEnters({"store"}) /\ NoneEnters({"expire", "get"})
      /\ NoneLeaves({"delete"}) /\ NoneLeaves({"expire"})
  BY <1>2 DEF NoneEnters, NoneLeaves, Holding
<1>7. ClaimLasts
  BY <1>0, <1>1, <1>2, RequestFacts, NumberFacts DEF ClaimLasts, Holding
<1>8. EpochInv' /\ HoldInv'
  BY <1>0, <1>1, <1>5, <1>6, <1>7, EpochFrame, HoldFrame
<1>9. /\ Deleted' \subseteq Deleted /\ LoginCodes' = LoginCodes /\ Redeemed' \subseteq Redeemed
  BY <1>1, <1>6, DeletedFrame
<1>10. CodeInv'
  <2>1. \A g \in Handler : req'[g].pc \in Sending => g # h /\ req'[g] = req[g]
    BY <1>2 DEF Sending
  <2>2. \A g \in Handler : req'[g].pc \in Sending \cup Holding \cup {"claim"} =>
           \/ req'[g] = req[g]
           \/ req'[g].code = otp.code
    BY <1>2 DEF Sending, Holding
  <2>3. \A g \in Handler : req'[g].pc \in Sending \cup Holding \cup {"claim"} => req'[g].code # 0
    BY <1>0, <2>2 DEF CodeInv
  <2>4. ASSUME NEW f \in Handler, req'[f].pc \in Sending
        PROVE  /\ otp.code # req'[f].code
               /\ req'[f].code \notin Deleted'
               /\ \A g \in Handler :
                     (g # f /\ req'[g].pc \in Sending \cup Holding \cup {"claim"})
                        => req'[g].code # req'[f].code
    BY <1>0, <1>9, <2>1, <2>2, <2>4 DEF CodeInv
  <2> QED
    BY <1>0, <1>1, <1>9, <2>3, <2>4 DEF CodeInv
<1>11. req[h].code = otp.code => req[h].code \notin Redeemed /\ req[h].code \notin LoginCodes
  <2>1. otp.code \notin Deleted
    BY <1>0 DEF CodeInv
  <2>2. otp.code \notin LoginCodes
    BY <1>3, <2>1 DEF Deleted
  <2>3. Redeemed \subseteq Deleted
    BY DEF Redeemed, Deleted, LoginCodes
  <2> QED
    BY <2>1, <2>2, <2>3
<1>12. ClaimInv'
  <2> SUFFICES ASSUME NEW g \in Handler, req'[g].pc = "claim", req'[g].code \in Redeemed'
               PROVE  redeemed' + req'[g].age + Latency >= RedeemedTTL
    BY DEF ClaimInv
  <2>1. g # h
    BY <1>2, <1>9, <1>11
  <2>2. req'[g] = req[g]
    BY <1>2, <2>1
  <2> QED
    BY <1>0, <1>1, <1>9, <2>2 DEF ClaimInv
<1>13. AloneInv'
  <2> SUFFICES ASSUME alone = "yes" PROVE AloneInv!2'
    BY <1>1 DEF AloneInv
  <2>1. \A g \in Handler : g # h => req'[g].pc = "idle"
    BY <1>0, <1>2 DEF AloneInv
  <2>2. OneLoginPerCode'
    BY <1>0, <1>1 DEF AloneInv, OneLoginPerCode
  <2> QED
    BY <1>1, <1>2, <1>9, <1>11, <2>1, <2>2
<1>14. RedeemableInv' /\ LockoutExpires'
  BY <1>0, <1>1, <1>6, RedeemableFrame, LockoutFrame
<1>15. TryInv'
  <2>1. \A c \in Code :
           (c > asked' \/ \E g \in Handler : req'[g].pc \in Sending /\ req'[g].code = c) => tries'[c] = 0
    <3>1. ASSUME NEW c \in Code,
                 c > asked' \/ \E g \in Handler : req'[g].pc \in Sending /\ req'[g].code = c
          PROVE  tries'[c] = 0
      <4>1. c > asked \/ \E g \in Handler : req[g].pc \in Sending /\ req[g].code = c
        BY <1>1, <1>2, <3>1 DEF Sending
      <4>2. c # otp.code
        <5>1. c > asked => c # otp.code
          BY <1>0, KeyFacts, NumberFacts
        <5> QED
          BY <1>0, <4>1, <5>1 DEF CodeInv
      <4> QED
        BY <1>0, <1>4, <4>1, <4>2 DEF TryInv
    <3> QED
      BY <3>1
  <2>2. ASSUME alone = "yes" PROVE tries[otp.code] + 1 <= Allowance + faults
    BY <1>0, <2>2 DEF TryInv
  <2>3. /\ Allowance' = Allowance /\ Allowance \in Nat /\ Allowance <= 2 * MaxAttempts - 1
        /\ tries[otp.code] \in Nat /\ faults \in Nat /\ MaxAttempts \in Nat
    BY <1>0, <1>1, <1>3, AllowanceFacts, NumberFacts DEF Allowance, Fresh, Counted
  <2>4. TriesBounded'
    <3> SUFFICES ASSUME alone = "yes", NEW c \in Code
                 PROVE  tries'[c] <= 2 * MaxAttempts - 1 + faults
      BY <1>1 DEF TriesBounded
    <3>1. CASE c = otp.code
      BY <1>4, <2>2, <2>3, <3>1
    <3>2. CASE c # otp.code
      BY <1>0, <1>4, <3>2 DEF TryInv, TriesBounded
    <3> QED
      BY <3>1, <3>2
  <2>5. ASSUME alone = "yes"
        PROVE  /\ tries'[otp.code] <= Allowance' + faults
               /\ \A g \in Handler : req'[g].pc \notin {"expire", "get"}
    <3>1. tries'[otp.code] <= Allowance' + faults
      BY <1>4, <2>2, <2>3, <2>5
    <3>2. \A g \in Handler : g # h => req'[g].pc = "idle"
      BY <1>0, <1>2, <2>5 DEF AloneInv
    <3> QED
      BY <1>2, <3>1, <3>2
  <2> QED
    BY <1>1, <2>1, <2>4, <2>5 DEF TryInv
<1> QED
  BY <1>5, <1>8, <1>10, <1>12, <1>13, <1>14, <1>15 DEF IInv

LEMMA GetIInv == ASSUME IInv, NEW h \in Handler, GetOTP(h) PROVE IInv'
<1>1. CASE otp.code # 0 /\ NoFault /\ req[h].pc = "get"
           /\ tries' = [tries EXCEPT ![otp.code] = IF alone = "yes" THEN @ + 1 ELSE @]
           /\ (\/ otp.code = req[h].code /\ Goto(h, "claim")
               \/ Respond(h))
           /\ UNCHANGED <<keys, asked, epoch, logins, alone>>
  BY <1>1, CompareIInv
<1>2. CASE req[h].pc = "get" /\ (Fault \/ NoFault) /\ Respond(h) /\ UNCHANGED tries
           /\ UNCHANGED <<keys, asked, epoch, logins, alone>>
  BY <1>2, RespondIInv DEF keys
<1> QED
  BY <1>1, <1>2 DEF GetOTP

(* The claim is made: nobody else has one of this epoch.                   *)
LEMMA ClaimedIInv ==
    ASSUME IInv, NEW h \in Handler, req[h].pc = "claim", redeemed = 0, NoFault,
           redeemed' = RedeemedTTL,
           req' = [req EXCEPT ![h].pc = "delete", ![h].epoch = epoch],
           UNCHANGED <<otp, cooldown, attempts, asked, epoch, logins, tries, alone>>
    PROVE  IInv'
<1>0. /\ TypeOK /\ CodeInv /\ EpochInv /\ HoldInv /\ ClaimInv /\ AloneInv /\ RedeemableInv
      /\ TryInv /\ LockoutExpires
  BY DEF IInv
<1>1. /\ req' \in [Handler -> Request] /\ req'[h].pc = "delete"
      /\ req'[h].code = req[h].code /\ req'[h].age = req[h].age /\ req'[h].epoch = epoch
      /\ \A g \in Handler : g # h => req'[g] = req[g]
  <2>1. req \in [Handler -> Request] /\ epoch \in Nat
    BY <1>0, NumberFacts DEF TypeOK
  <2>2. req' = [req EXCEPT ![h] = [req[h] EXCEPT !.pc = "delete", !.epoch = epoch]]
    OBVIOUS
  <2> QED
    BY <2>1, <2>2 DEF Request, Pc
<1>2. faults' = faults
  BY DEF NoFault
<1>3. TypeOK'
  <2>1. \A g \in Handler : req'[g].code \in 0..asked
    BY <1>0, <1>1 DEF TypeOK
  <2>2. redeemed' \in 0..RedeemedTTL
    BY <1>0, NumberFacts
  <2> QED
    BY <1>0, <1>1, <1>2, <2>1, <2>2 DEF TypeOK
<1>4. /\ NoneEnters({"reset"}) /\ NoneEnters({"clear"})
      /\ NoneEnters({"claim", "reset"}) /\ NoneEnters({"expire", "get"})
      /\ NoneLeaves({"expire"})
  BY <1>1 DEF NoneEnters, NoneLeaves
<1>5. CodesKept
  BY <1>1 DEF CodesKept, Sending, Holding
<1>6. ClaimLasts
  BY <1>0, <1>1, RequestFacts, NumberFacts DEF ClaimLasts
<1>7. CodeInv' /\ EpochInv' /\ ClaimInv'
  BY <1>0, <1>3, <1>4, <1>5, <1>6, CodeFrame, EpochFrame, ClaimFrame
<1>8. ASSUME NEW g \in Handler, req[g].pc \in Holding PROVE req[g].epoch # epoch
  BY <1>0, <1>8, RequestFacts, NumberFacts DEF HoldInv
<1>9. HoldInv'
  <2>1. ASSUME NEW g \in Handler, req'[g].pc \in Holding
        PROVE  /\ req'[g].epoch <= epoch'
               /\ req'[g].epoch = epoch' => redeemed' + req'[g].age >= RedeemedTTL
    <3>1. CASE g = h
      <4>1. req'[g].age \in Nat /\ RedeemedTTL \in Nat /\ epoch \in Nat
        BY <1>0, <1>1, <3>1, RequestFacts, NumberFacts
      <4> QED
        BY <1>1, <3>1, <4>1
    <3>2. CASE g # h
      BY <1>0, <1>1, <1>8, <2>1, <3>2 DEF HoldInv
    <3> QED
      BY <3>1, <3>2
  <2>2. ASSUME NEW f \in Handler, NEW g \in Handler, f # g,
               req'[f].pc \in Holding, req'[g].pc \in Holding
        PROVE  req'[f].epoch # req'[g].epoch
    BY <1>0, <1>1, <1>8, <2>2 DEF HoldInv
  <2> QED
    BY <2>1, <2>2 DEF HoldInv
<1>10. ASSUME alone = "yes" PROVE \A g \in Handler : g # h => req'[g].pc = "idle"
  BY <1>0, <1>1, <1>10 DEF AloneInv
<1>11. AloneInv'
  <2> SUFFICES ASSUME alone = "yes" PROVE AloneInv!2'
    BY DEF AloneInv
  <2>1. OneLoginPerCode'
    BY <1>0 DEF AloneInv, OneLoginPerCode
  <2>2. otp'.code \in {0, req[h].code} /\ req[h].code \notin LoginCodes'
    BY <1>0 DEF AloneInv, LoginCodes
  <2> QED
    BY <1>1, <1>10, <2>1, <2>2
<1>12. RedeemableInv'
  BY <1>1, <1>10 DEF RedeemableInv
<1>13. LockoutExpires'
  BY <1>0, <1>2, <1>4, LockoutFrame
<1>14. TryInv'
  <2>1. faults' >= faults
    BY <1>0, <1>2, NumberFacts
  <2> QED
    BY <1>0, <1>3, <1>4, <1>5, <2>1, TryFrame
<1> QED
  BY <1>3, <1>7, <1>9, <1>11, <1>12, <1>13, <1>14 DEF IInv

LEMMA ClaimIInv == ASSUME IInv, NEW h \in Handler, ClaimRedemption(h) PROVE IInv'
<1>1. CASE /\ req[h].pc = "claim" /\ redeemed = 0 /\ NoFault /\ redeemed' = RedeemedTTL
           /\ req' = [req EXCEPT ![h].pc = "delete", ![h].epoch = epoch]
           /\ UNCHANGED <<otp, cooldown, attempts, asked, epoch, logins, tries, alone>>
  BY <1>1, ClaimedIInv
<1>2. CASE /\ req[h].pc = "claim" /\ Respond(h)
           /\ \/ (Fault \/ NoFault) /\ UNCHANGED redeemed
              \/ Fault /\ redeemed' = RedeemedTTL
           /\ UNCHANGED <<otp, cooldown, attempts, asked, epoch, logins, tries, alone>>
  BY <1>2, RespondIInv
<1> QED
  BY <1>1, <1>2 DEF ClaimRedemption

(* The code is deleted: whoever read it before is younger than the claim.  *)
LEMMA DeletedIInv ==
    ASSUME IInv, NEW h \in Handler, req[h].pc = "delete", NoFault, otp' = NoOtp,
           Goto(h, "reset"),
           UNCHANGED <<cooldown, redeemed, attempts, asked, epoch, logins, tries, alone>>
    PROVE  IInv'
<1>0. /\ TypeOK /\ CodeInv /\ EpochInv /\ HoldInv /\ ClaimInv /\ AloneInv /\ RedeemableInv
      /\ TryInv /\ LockoutExpires
  BY DEF IInv
<1>1. /\ req' \in [Handler -> Request] /\ req'[h].pc = "reset"
      /\ req'[h].code = req[h].code /\ req'[h].age = req[h].age /\ req'[h].epoch = req[h].epoch
      /\ \A g \in Handler : g # h => req'[g] = req[g]
  BY <1>0, GotoFacts DEF Pc
<1>2. faults' = faults /\ otp'.code = 0
  BY DEF NoFault, NoOtp
<1>3. TypeOK'
  <2>1. \A g \in Handler : req'[g].code \in 0..asked
    BY <1>0, <1>1 DEF TypeOK
  <2>2. otp' \in {NoOtp} \cup [code : 1..asked, ttl : 1..OtpTTL]
    OBVIOUS
  <2> QED
    BY <1>0, <1>1, <1>2, <2>1, <2>2 DEF TypeOK
<1>4. NoneEnters({"clear"}) /\ NoneEnters({"expire", "get"}) /\ NoneLeaves({"expire"})
  BY <1>1 DEF NoneEnters, NoneLeaves
<1>5. CodesKept
  BY <1>1 DEF CodesKept, Sending, Holding
<1>6. EpochInv'
  BY <1>0, <1>4, EpochFrame
<1>7. LoginCodes' = LoginCodes /\ Deleted' \subseteq Deleted \cup {req[h].code} /\ 0 \notin Deleted'
  <2>1. LoginCodes' = LoginCodes
    BY DEF LoginCodes
  <2> QED
    BY <1>1, <2>1 DEF Deleted, Code
<1>8. CodeInv'
  <2>1. \A g \in Handler : req'[g].pc \in Sending \cup Holding \cup {"claim"} => req'[g].code # 0
    BY <1>0, <1>5 DEF CodeInv, CodesKept
  <2>2. ASSUME NEW f \in Handler, req'[f].pc \in Sending
        PROVE  /\ otp'.code # req'[f].code
               /\ req'[f].code \notin Deleted'
               /\ \A g \in Handler :
                     (g # f /\ req'[g].pc \in Sending \cup Holding \cup {"claim"})
                        => req'[g].code # req'[f].code
    <3>1. f # h /\ req[f].pc \in Sending /\ req'[f].code = req[f].code
      BY <1>1, <2>2 DEF Sending
    <3>2. req[f].code # 0 /\ req[f].code # req[h].code /\ req[f].code \notin Deleted
      BY <1>0, <3>1 DEF CodeInv, Holding
    <3>3. \A g \in Handler :
             (g # f /\ req'[g].pc \in Sending \cup Holding \cup {"claim"})
                => req'[g].code # req[f].code
      BY <1>0, <1>5, <3>1 DEF CodeInv, CodesKept
    <3> QED
      BY <1>2, <1>7, <3>1, <3>2, <3>3
  <2> QED
    BY <1>0, <1>2, <1>7, <2>1, <2>2 DEF CodeInv
<1>9. HoldInv'
  <2>1. \A g \in Handler : req'[g].pc \in Holding =>
           req[g].pc \in Holding /\ req'[g].epoch = req[g].epoch /\ req'[g].age = req[g].age
    BY <1>1 DEF Holding
  <2> QED
    BY <1>0, <2>1 DEF HoldInv
<1>10. ClaimInv'
  <2> SUFFICES ASSUME NEW g \in Handler, req'[g].pc = "claim", req'[g].code \in Redeemed'
               PROVE  redeemed' + req'[g].age + Latency >= RedeemedTTL
    BY DEF ClaimInv
  <2>1. g # h /\ req'[g] = req[g]
    BY <1>1
  <2>2. req[g].code \in Redeemed \/ req[h].epoch = epoch
    BY <1>1, <2>1 DEF Redeemed
  <2>3. CASE req[g].code \in Redeemed
    BY <1>0, <2>1, <2>3 DEF ClaimInv
  <2>4. CASE req[h].epoch = epoch
    <3>1. redeemed + req[h].age >= RedeemedTTL
      BY <1>0, <2>4 DEF HoldInv, Holding
    <3>2. req[h].age <= Latency /\ req[h].age \in Nat /\ req[g].age \in Nat
      BY <1>0, RequestFacts
    <3> QED
      BY <1>0, <2>1, <3>1, <3>2, NumberFacts
  <2> QED
    BY <2>2, <2>3, <2>4
<1>11. AloneInv'
  <2> SUFFICES ASSUME alone = "yes" PROVE AloneInv!2'
    BY DEF AloneInv
  <2>1. \A g \in Handler : g # h => req'[g].pc = "idle"
    BY <1>0, <1>1 DEF AloneInv
  <2>2. OneLoginPerCode'
    BY <1>0 DEF AloneInv, OneLoginPerCode
  <2>3. req[h].code \notin LoginCodes'
    BY <1>0, <1>7 DEF AloneInv
  <2> QED
    BY <1>1, <1>2, <2>1, <2>2, <2>3
<1>12. RedeemableInv'
  <2>1. \A g \in Handler : req'[g].pc = "store" => req[g].pc = "store"
    BY <1>1
  <2> QED
    BY <1>0, <1>2, <2>1 DEF RedeemableInv
<1>13. LockoutExpires'
  BY <1>0, <1>2, <1>4, LockoutFrame
<1>14. TryInv'
  <2>1. faults' >= faults
    BY <1>0, <1>2, NumberFacts
  <2> QED
    BY <1>0, <1>2, <1>3, <1>4, <1>5, <2>1, TryFrame
<1> QED
  BY <1>3, <1>6, <1>8, <1>9, <1>10, <1>11, <1>12, <1>13, <1>14 DEF IInv

LEMMA DeleteIInv == ASSUME IInv, NEW h \in Handler, DeleteOTP(h) PROVE IInv'
<1>1. CASE /\ req[h].pc = "delete" /\ NoFault /\ otp' = NoOtp /\ Goto(h, "reset")
           /\ UNCHANGED <<cooldown, redeemed, attempts, asked, epoch, logins, tries, alone>>
  BY <1>1, DeletedIInv
<1>2. CASE /\ req[h].pc = "delete" /\ Fault /\ otp' \in {otp, NoOtp} /\ Respond(h)
           /\ UNCHANGED <<cooldown, redeemed, attempts, asked, epoch, logins, tries, alone>>
  BY <1>2, RespondIInv
<1> QED
  BY <1>1, <1>2 DEF DeleteOTP

(* A sequence that is added to.                                            *)
LEMMA AppendFacts ==
    ASSUME NEW S, NEW s \in Seq(S), NEW e \in S
    PROVE  /\ Append(s, e) \in Seq(S)
           /\ DOMAIN Append(s, e) = DOMAIN s \cup {Len(s) + 1}
           /\ Len(s) + 1 \notin DOMAIN s
           /\ \A i \in DOMAIN s : Append(s, e)[i] = s[i]
           /\ Append(s, e)[Len(s) + 1] = e
  OBVIOUS

(* The end of a verification, with or without a token.                     *)
LEMMA ResetIInv == ASSUME IInv, NEW h \in Handler, ResetAttempts(h) PROVE IInv'
<1>0. /\ TypeOK /\ CodeInv /\ EpochInv /\ HoldInv /\ ClaimInv /\ AloneInv /\ RedeemableInv
      /\ TryInv /\ LockoutExpires
  BY DEF IInv
<1>1. /\ req[h].pc = "reset" /\ Respond(h) /\ (Fault \/ NoFault)
      /\ attempts' = attempts \/ attempts' = NoCounter
      /\ UNCHANGED <<otp, cooldown, redeemed, asked, epoch, tries, alone>>
  BY DEF ResetAttempts, MayFault
<1>2. PICK e : e = [code |-> req[h].code, epoch |-> req[h].epoch]
  OBVIOUS
<1>3. logins' = Append(logins, e) \/ logins' = logins
  BY <1>2 DEF ResetAttempts
<1>4. /\ e \in [code : Code, epoch : 0..epoch] /\ e.code = req[h].code /\ e.epoch = req[h].epoch
      /\ req[h].code \in 1..asked /\ req[h].code \in Code
  <2>1. req[h].code \in 1..asked /\ req[h].code \in Code
    BY <1>0, <1>1, RequestFacts, NumberFacts DEF CodeInv, Holding, Code
  <2>2. req[h].epoch \in 0..epoch
    BY <1>0, <1>1, RequestFacts, NumberFacts DEF HoldInv, Holding
  <2> QED
    BY <1>2, <2>1, <2>2
<1>5. /\ logins' \in Seq([code : Code, epoch : 0..epoch])
      /\ \A i \in DOMAIN logins' : \/ i \in DOMAIN logins /\ logins'[i] = logins[i]
                                   \/ i \notin DOMAIN logins /\ i = Len(logins) + 1 /\ logins'[i] = e
  <2>1. logins \in Seq([code : Code, epoch : 0..epoch])
    BY <1>0 DEF TypeOK
  <2>2. CASE logins' = logins
    BY <2>1, <2>2
  <2>3. CASE logins' = Append(logins, e)
    BY <1>4, <2>1, <2>3, AppendFacts
  <2> QED
    BY <1>3, <2>2, <2>3
<1>6. /\ req' \in [Handler -> Request]
      /\ req'[h].pc = "idle" /\ req'[h].code = 0
      /\ \A g \in Handler : g # h => req'[g] = req[g]
  BY <1>0, <1>1, RespondFacts
<1>7. /\ faults' \in 0..MaxFaults /\ faults' >= faults /\ faults' \in Nat
      /\ faults' = 0 => faults = 0
  BY <1>0, <1>1, FaultFacts, NumberFacts
<1>8. TypeOK'
  <2>1. ASSUME NEW g \in Handler PROVE req'[g].code \in 0..asked
    <3>1. req'[g].code = req[g].code \/ req'[g].code = 0
      BY <1>6
    <3>2. req[g].code \in 0..asked /\ 0 \in 0..asked
      BY <1>0, NumberFacts DEF TypeOK
    <3> QED
      BY <3>1, <3>2
  <2>2. attempts' \in {NoCounter} \cup [n : 1..(MaxAttempts + 1), ttl : {NoTTL} \cup 1..OtpTTL]
    BY <1>0, <1>1 DEF TypeOK
  <2> QED
    BY <1>0, <1>1, <1>5, <1>6, <1>7, <2>1, <2>2 DEF TypeOK
<1>9. /\ NoneEnters({"clear"}) /\ NoneEnters(Holding)
      /\ NoneEnters({"store"}) /\ NoneEnters({"expire", "get"})
      /\ NoneLeaves({"delete"}) /\ NoneLeaves({"expire"})
  BY <1>1, <1>6 DEF NoneEnters, NoneLeaves, Holding
<1>10. CodesKept
  BY <1>6 DEF CodesKept, Sending, Holding
<1>11. ClaimLasts
  BY <1>0, <1>1, <1>6, RequestFacts, NumberFacts DEF ClaimLasts, Holding
<1>12. EpochInv' /\ HoldInv'
  BY <1>0, <1>1, <1>8, <1>9, <1>11, EpochFrame, HoldFrame
<1>13. LoginCodes' \subseteq LoginCodes \cup {req[h].code}
  BY <1>4, <1>5 DEF LoginCodes
<1>14. Deleted' \subseteq Deleted
  BY <1>1, <1>6, <1>13 DEF Deleted
<1>15. Redeemed' \subseteq Redeemed
  <2> SUFFICES ASSUME NEW c \in Redeemed' PROVE c \in Redeemed
    OBVIOUS
  <2>1. CASE \E i \in DOMAIN logins' : logins'[i].code = c /\ logins'[i].epoch = epoch
    <3>1. PICK i \in DOMAIN logins' : logins'[i].code = c /\ logins'[i].epoch = epoch
      BY <2>1
    <3>2. CASE i \in DOMAIN logins /\ logins'[i] = logins[i]
      BY <3>1, <3>2 DEF Redeemed
    <3>3. CASE logins'[i] = e
      BY <1>1, <1>4, <3>1, <3>3 DEF Redeemed
    <3> QED
      BY <1>5, <3>2, <3>3
  <2>2. CASE \E g \in Handler : req'[g].pc = "reset" /\ req'[g].code = c /\ req'[g].epoch = epoch
    BY <1>6, <2>2 DEF Redeemed
  <2> QED
    BY <1>1, <2>1, <2>2 DEF Redeemed
<1>16. CodeInv'
  <2>1. \A g \in Handler : req'[g].pc \in Sending \cup Holding \cup {"claim"} => req'[g] = req[g]
    BY <1>6 DEF Sending, Holding
  <2>2. LoginCodes' \subseteq 1..asked
    BY <1>0, <1>4, <1>13 DEF CodeInv
  <2> QED
    BY <1>0, <1>1, <1>14, <2>1, <2>2 DEF CodeInv
<1>17. ClaimInv'
  <2>1. \A g \in Handler : req'[g].pc = "claim" => req'[g] = req[g]
    BY <1>6
  <2> QED
    BY <1>0, <1>1, <1>15, <2>1 DEF ClaimInv
<1>18. ASSUME alone = "yes"
       PROVE  /\ \A g \in Handler : req'[g].pc = "idle"
              /\ otp.code = 0 /\ req[h].code \notin LoginCodes
  BY <1>0, <1>1, <1>6, <1>18 DEF AloneInv
<1>19. AloneInv'
  <2> SUFFICES ASSUME alone = "yes" PROVE AloneInv!2'
    BY <1>1 DEF AloneInv
  <2>1. OneLoginPerCode'
    <3> SUFFICES ASSUME NEW i \in DOMAIN logins', NEW j \in DOMAIN logins',
                        logins'[i].code = logins'[j].code
                 PROVE  i = j
      BY DEF OneLoginPerCode
    <3>1. \A k \in DOMAIN logins : logins[k].code # e.code
      BY <1>4, <1>18 DEF LoginCodes
    <3>2. \A k, l \in DOMAIN logins : logins[k].code = logins[l].code => k = l
      BY <1>0 DEF AloneInv, OneLoginPerCode
    <3> QED
      BY <1>5, <3>1, <3>2
  <2> QED
    BY <1>18, <2>1
<1>20. RedeemableInv'
  BY <1>0, <1>1, <1>7, <1>9, RedeemableFrame
<1>21. LockoutExpires'
  BY <1>0, <1>1, <1>7, <1>9, KeyFacts, LockoutFrame
<1>22. TryInv'
  <2>1. \A c \in Code :
           (c > asked' \/ \E g \in Handler : req'[g].pc \in Sending /\ req'[g].code = c) => tries'[c] = 0
    BY <1>0, <1>1, <1>10 DEF TryInv, CodesKept
  <2>2. TriesBounded'
    <3>1. \A c \in Code : tries[c] \in Nat
      BY <1>0 DEF TypeOK
    <3> QED
      BY <1>0, <1>1, <1>7, <3>1, NumberFacts DEF TryInv, TriesBounded
  <2> QED
    BY <1>1, <1>18, <2>1, <2>2 DEF TryInv
<1> QED
  BY <1>8, <1>12, <1>16, <1>17, <1>19, <1>20, <1>21, <1>22 DEF IInv

LEMMA NextIInv == IInv /\ [Next]_vars => IInv'
<1> SUFFICES ASSUME IInv, [Next]_vars PROVE IInv'
  OBVIOUS
<1>1. CASE Tick
  BY <1>1, TickIInv
<1>2. ASSUME NEW h \in Handler, OTPRequest(h) \/ OTPRequestRefused(h) PROVE IInv'
  BY <1>2, OTPRequestIInv, RefusedIInv
<1>3. ASSUME NEW h \in Handler, ClearRedeemed(h) \/ StoreOTP(h) PROVE IInv'
  BY <1>3, ClearIInv, StoreIInv
<1>4. ASSUME NEW h \in Handler, NEW guess \in 0..asked, OTPVerify(h, guess) PROVE IInv'
  BY <1>4, VerifyIInv
<1>5. ASSUME NEW h \in Handler, IncrAttempts(h) \/ ExpireAttempts(h) \/ GetOTP(h) PROVE IInv'
  BY <1>5, IncrIInv, ExpireIInv, GetIInv
<1>6. ASSUME NEW h \in Handler, ClaimRedemption(h) \/ DeleteOTP(h) \/ ResetAttempts(h) PROVE IInv'
  BY <1>6, ClaimIInv, DeleteIInv, ResetIInv
<1>7. ASSUME NEW h \in Handler, Crash(h) PROVE IInv'
  BY <1>7, RespondIInv DEF Crash, keys
<1>8. CASE UNCHANGED vars
  <2>1. UNCHANGED <<otp, cooldown, redeemed, attempts, req, asked, faults, epoch, logins, tries, alone>>
    BY <1>8 DEF vars
  <2> QED
    BY <2>1 DEF IInv, TypeOK, CodeInv, Deleted, Redeemed, LoginCodes, EpochInv, Clearing, HoldInv,
                ClaimInv, AloneInv, OneLoginPerCode, RedeemableInv, TryInv, TriesBounded, Allowance,
                Fresh, Counted, LockoutExpires
<1> QED
  BY <1>1, <1>2, <1>3, <1>4, <1>5, <1>6, <1>7, <1>8 DEF Next

LEMMA Invariance == Spec => []IInv
  BY InitIInv, NextIInv, PTL DEF Spec

-----------------------------------------------------------------------------
(* Every variable keeps its type, whatever the TTLs and the bounds: the    *)
(* epoch never passes the number of codes asked for.                       *)
THEOREM TypeCorrect == Spec => []TypeOK
<1>1. IInv => TypeOK
  BY DEF IInv
<1> QED
  BY <1>1, Invariance, PTL

(* While requests do not overlap, VerifyOTP never lets one code log in     *)
(* twice, whichever of its Redis calls fail.                               *)
THEOREM CodesLogInOnce == Spec => []OneLoginPerCode
<1>1. IInv => OneLoginPerCode
  BY DEF IInv, AloneInv, OneLoginPerCode
<1> QED
  BY <1>1, Invariance, PTL

(* What MaxOTPAttempts is worth while requests do not overlap: a code sees *)
(* the last attempts of the counter it inherits, a full set of its own and *)
(* one guess more for each fault.                                          *)
THEOREM GuessesAreBounded == Spec => []TriesBounded
<1>1. IInv => TriesBounded
  BY DEF IInv, TryInv
<1> QED
  BY <1>1, Invariance, PTL

(* A code that was stored can be redeemed: the claim of the code before it *)
(* is gone by then.                                                        *)
THEOREM CodesCanBeRedeemed == Spec => []StoredCodeIsRedeemable
<1>1. IInv => StoredCodeIsRedeemable
  BY DEF IInv, RedeemableInv, StoredCodeIsRedeemable, AllIdle
<1> QED
  BY <1>1, Invariance, PTL

(* The attempt counter only stays without a TTL after a fault, however     *)
(* verifications overlap.                                                  *)
THEOREM LockoutsExpire == Spec => []LockoutExpires
<1>1. IInv => LockoutExpires
  BY DEF IInv
<1> QED
  BY <1>1, Invariance, PTL

(* While requests do not overlap, no step deletes a code but the           *)
(* verification that was given it.                                         *)
LEMMA StepDeletesItsOwn ==
    ASSUME IInv, [Next]_vars, alone = "yes", otp.code # 0, otp'.code = 0
    PROVE  \/ otp.ttl = 1
           \/ \E h \in Handler : req[h].pc = "delete" /\ req[h].code = otp.code
<1>0. TypeOK /\ CodeInv /\ AloneInv
  BY DEF IInv
<1>1. CASE Tick
  <2>1. CASE otp.ttl # 1
    <3>1. otp' = [otp EXCEPT !.ttl = Older(otp.ttl)]
      BY <1>1, <2>1 DEF Tick
    <3>2. otp \in [code : 1..asked, ttl : 1..OtpTTL]
      BY <1>0, KeyFacts DEF TypeOK
    <3>3. otp'.code = otp.code
      BY <3>1, <3>2
    <3> QED
      BY <3>3
  <2> QED
    BY <2>1
<1>2. ASSUME NEW h \in Handler, StoreOTP(h) PROVE FALSE
  <2>1. req[h].code # 0
    BY <1>0, <1>2 DEF CodeInv, StoreOTP, Sending
  <2>2. otp' = otp \/ otp'.code = req[h].code
    BY <1>2 DEF StoreOTP
  <2> QED
    BY <2>1, <2>2
<1>3. ASSUME NEW h \in Handler, DeleteOTP(h)
      PROVE  req[h].pc = "delete" /\ req[h].code = otp.code
  BY <1>0, <1>3 DEF DeleteOTP, AloneInv
<1>4. CASE \E h \in Handler : \/ OTPRequest(h) \/ OTPRequestRefused(h) \/ ClearRedeemed(h)
                              \/ \E guess \in 0..asked : OTPVerify(h, guess)
                              \/ IncrAttempts(h) \/ ExpireAttempts(h) \/ GetOTP(h)
                              \/ ClaimRedemption(h) \/ ResetAttempts(h) \/ Crash(h)
  BY <1>4 DEF OTPRequest, OTPRequestRefused, ClearRedeemed, OTPVerify, IncrAttempts, ExpireAttempts,
              GetOTP, ClaimRedemption, ResetAttempts, Crash, keys
<1>5. CASE UNCHANGED vars
  BY <1>5 DEF vars
<1> QED
  BY <1>1, <1>2, <1>3, <1>4, <1>5 DEF Next

(* Delete of otp:<email> takes whichever code the key holds by then; only  *)
(* requests that overlap can make that another code than the one that was  *)
(* verified.                                                               *)
THEOREM CodesGoWhenUsed == Spec => CodeGoesOnlyWhenUsed
<1>1. IInv /\ [Next]_vars =>
         [ (alone = "yes" /\ otp.code # 0 /\ otp'.code = 0)
              => \/ otp.ttl = 1
                 \/ \E h \in Handler : req[h].pc = "delete" /\ req[h].code = otp.code ]_vars
  BY StepDeletesItsOwn
<1> QED
  BY <1>1, Invariance, PTL DEF Spec, CodeGoesOnlyWhenUsed

-----------------------------------------------------------------------------
(* The refinement: the claims and the redemptions of the abstract          *)
(* specification.                                                          *)
Claims == [h \in Handler |-> ClaimedBy(h)]

Redeemings == {logins[i] : i \in DOMAIN logins}

LEMMA SameClaims ==
    ASSUME \A g \in Handler : ClaimedBy(g)' = ClaimedBy(g), logins' = logins
    PROVE  UNCHANGED Redemptions!vars
  BY DEF Redemptions!vars

(* Nothing is claimed by a request that stays on one side of the claim.    *)
LEMMA QuietClaims ==
    ASSUME NEW h \in Handler, \A g \in Handler : g # h => req'[g] = req[g],
           req[h].pc \notin Holding, req'[h].pc \notin Holding, logins' = logins
    PROVE  UNCHANGED Redemptions!vars
<1>1. ASSUME NEW g \in Handler PROVE ClaimedBy(g)' = ClaimedBy(g)
  <2>1. CASE g = h
    BY <2>1 DEF ClaimedBy, Holding
  <2>2. CASE g # h
    BY <2>2 DEF ClaimedBy
  <2> QED
    BY <2>1, <2>2
<1> QED
  BY <1>1, SameClaims

(* A request that has claimed a redemption has a code.                     *)
LEMMA HeldFacts ==
    ASSUME IInv, NEW h \in Handler, req[h].pc \in Holding
    PROVE  /\ ClaimedBy(h) = [code |-> req[h].code, epoch |-> req[h].epoch]
           /\ ClaimedBy(h) # NoRedemption
<1>1. ClaimedBy(h) = [code |-> req[h].code, epoch |-> req[h].epoch]
  BY DEF ClaimedBy, Holding
<1>2. req[h].code # 0
  BY DEF IInv, CodeInv
<1>3. ClaimedBy(h).code # NoRedemption.code
  BY <1>1, <1>2 DEF NoRedemption
<1> QED
  BY <1>1, <1>3

LEMMA RespondClaims ==
    ASSUME TypeOK, NEW h \in Handler, Respond(h)
    PROVE  Claims' = [Claims EXCEPT ![h] = NoRedemption]
<1>1. \A g \in Handler : ClaimedBy(g)' = IF g = h THEN NoRedemption ELSE ClaimedBy(g)
  <2>1. req'[h].pc = "idle" /\ \A g \in Handler : g # h => req'[g] = req[g]
    BY RespondFacts
  <2>2. ClaimedBy(h)' = NoRedemption
    BY <2>1 DEF ClaimedBy
  <2>3. \A g \in Handler : g # h => ClaimedBy(g)' = ClaimedBy(g)
    BY <2>1 DEF ClaimedBy
  <2> QED
    BY <2>2, <2>3
<1> QED
  BY <1>1 DEF Claims

(* A request that ends without a token gives its claim up, if it has one.  *)
LEMMA RespondGivesUp ==
    ASSUME IInv, NEW h \in Handler, Respond(h), logins' = logins
    PROVE  [Redemptions!GiveUp(h)]_(Redemptions!vars)
<1>0. TypeOK
  BY DEF IInv
<1>1. CASE req[h].pc \in Holding
  <2>1. Claims[h] # NoRedemption
    BY <1>1, HeldFacts DEF Claims
  <2>2. Claims' = [Claims EXCEPT ![h] = NoRedemption]
    BY <1>0, RespondClaims
  <2>3. Redeemings' = Redeemings
    BY DEF Redeemings
  <2> QED
    BY <2>1, <2>2, <2>3 DEF Redemptions!GiveUp, Claims, Redeemings
<1>2. CASE req[h].pc \notin Holding
  <2>1. req'[h].pc \notin Holding /\ \A g \in Handler : g # h => req'[g] = req[g]
    BY <1>0, RespondFacts DEF Holding
  <2> QED
    BY <1>2, <2>1, QuietClaims
<1> QED
  BY <1>1, <1>2

(* The SetNX that succeeds is a claim nobody else has, of a redemption     *)
(* that has not happened.                                                  *)
LEMMA ClaimClaims ==
    ASSUME IInv, NEW h \in Handler, req[h].pc = "claim", redeemed = 0,
           req' = [req EXCEPT ![h].pc = "delete", ![h].epoch = epoch],
           logins' = logins
    PROVE  \E i \in Redemption : Redemptions!Claim(h, i)
<1>0. TypeOK /\ CodeInv /\ HoldInv /\ ClaimInv
  BY DEF IInv
<1>1. PICK i : i = [code |-> req[h].code, epoch |-> epoch]
  OBVIOUS
<1>2. req[h].code \in Code /\ epoch \in 0..MaxCodes
  BY <1>0, RequestFacts, NumberFacts DEF CodeInv, Code
<1>3. i \in Redemption /\ i.code = req[h].code /\ i.epoch = epoch
  BY <1>1, <1>2 DEF Redemption
<1>4. /\ req'[h].pc = "delete" /\ req'[h].code = req[h].code /\ req'[h].epoch = epoch
      /\ \A g \in Handler : g # h => req'[g] = req[g]
  <2>1. req \in [Handler -> Request]
    BY <1>0 DEF TypeOK
  <2> QED
    BY <2>1 DEF Request
<1>5. Claims' = [Claims EXCEPT ![h] = i]
  <2>1. \A g \in Handler : ClaimedBy(g)' = IF g = h THEN i ELSE ClaimedBy(g)
    <3>1. ClaimedBy(h)' = i
      BY <1>1, <1>4 DEF ClaimedBy
    <3>2. \A g \in Handler : g # h => ClaimedBy(g)' = ClaimedBy(g)
      BY <1>4 DEF ClaimedBy
    <3> QED
      BY <3>1, <3>2
  <2> QED
    BY <2>1 DEF Claims
<1>6. Claims[h] = NoRedemption
  BY DEF Claims, ClaimedBy
<1>7. ASSUME NEW g \in Handler PROVE Claims[g] # i
  <2>1. CASE req[g].pc \in Holding
    <3>1. req[g].epoch # epoch
      BY <1>0, <2>1, RequestFacts, NumberFacts DEF HoldInv
    <3>2. Claims[g].epoch = req[g].epoch
      BY <2>1, HeldFacts DEF Claims
    <3> QED
      BY <1>3, <3>1, <3>2
  <2>2. CASE req[g].pc \notin Holding
    <3>1. Claims[g] = NoRedemption
      BY <2>2 DEF Claims, ClaimedBy, Holding
    <3>2. Claims[g].code = 0 /\ i.code # 0
      BY <1>2, <1>3, <3>1 DEF NoRedemption, Code
    <3> QED
      BY <3>2
  <2> QED
    BY <2>1, <2>2
<1>8. i \notin Redeemings
  <2> SUFFICES ASSUME NEW k \in DOMAIN logins, logins[k] = i PROVE FALSE
    BY DEF Redeemings
  <2>1. req[h].code \in Redeemed
    BY <1>2, <1>3 DEF Redeemed
  <2>2. redeemed + req[h].age + Latency >= RedeemedTTL
    BY <1>0, <2>1 DEF ClaimInv
  <2> QED
    BY <1>0, <2>2, RequestFacts, NumberFacts
<1>9. Redeemings' = Redeemings
  BY DEF Redeemings
<1>10. Redemptions!Claim(h, i)
  BY <1>5, <1>6, <1>7, <1>8, <1>9 DEF Redemptions!Claim, Claims, Redeemings
<1> QED
  BY <1>3, <1>10

(* A redemption that is claimed is one of this or an earlier epoch.        *)
LEMMA HeldType ==
    ASSUME TypeOK, CodeInv, HoldInv, NEW h \in Handler, req[h].pc \in Holding
    PROVE  req[h].code \in Code /\ req[h].epoch \in 0..epoch
<1>1. req[h].code # 0
  BY DEF CodeInv, Holding
<1>2. req[h].code \in Nat /\ req[h].code <= asked /\ req[h].epoch \in Nat
  BY RequestFacts
<1>3. asked <= MaxCodes /\ asked \in Nat /\ MaxCodes \in Nat /\ epoch \in Nat
  BY NumberFacts
<1>4. req[h].epoch <= epoch
  BY DEF HoldInv
<1>5. req[h].code \in 1..MaxCodes /\ req[h].epoch \in 0..epoch
  BY <1>1, <1>2, <1>3, <1>4
<1> QED
  BY <1>5 DEF Code

(* The token is the use of the claim.                                      *)
LEMMA LoginUses ==
    ASSUME IInv, NEW h \in Handler, req[h].pc = "reset", Respond(h),
           logins' = Append(logins, [code |-> req[h].code, epoch |-> req[h].epoch])
    PROVE  Redemptions!Use(h)
<1>0. TypeOK /\ HoldInv /\ CodeInv
  BY DEF IInv
<1>1. Claims[h] = [code |-> req[h].code, epoch |-> req[h].epoch] /\ Claims[h] # NoRedemption
  BY HeldFacts DEF Claims, Holding
<1>2. Claims' = [Claims EXCEPT ![h] = NoRedemption]
  BY <1>0, RespondClaims
<1>3. Redeemings' = Redeemings \cup {Claims[h]}
  <2>1. [code |-> req[h].code, epoch |-> req[h].epoch] \in [code : Code, epoch : 0..epoch]
    <3>1. req[h].code \in Code /\ req[h].epoch \in 0..epoch
      BY <1>0, HeldType DEF Holding
    <3> QED
      BY <3>1
  <2>2. logins \in Seq([code : Code, epoch : 0..epoch])
    BY <1>0 DEF TypeOK
  <2>3. PICK e \in [code : Code, epoch : 0..epoch] : e = Claims[h] /\ logins' = Append(logins, e)
    BY <1>1, <2>1
  <2>4. /\ DOMAIN logins' = DOMAIN logins \cup {Len(logins) + 1}
        /\ \A i \in DOMAIN logins : logins'[i] = logins[i]
        /\ Len(logins) + 1 \notin DOMAIN logins
        /\ logins'[Len(logins) + 1] = e
    BY <2>2, <2>3, AppendFacts
  <2> QED
    BY <2>3, <2>4 DEF Redeemings
<1> QED
  BY <1>1, <1>2, <1>3 DEF Redemptions!Use, Claims, Redeemings

(* VerifyOTP's claim on otp:redeemed implements single use, between two    *)
(* re-requests of a code, however many verifications overlap and whichever *)
(* calls fail: the theorem rests on LatencyAssumption, that no request is  *)
(* served for half the life of a claim.                                    *)
THEOREM RedemptionsAreSingleUse == Spec => RedeemsOnce
<1>1. Init => Redemptions!Init
  <2> SUFFICES ASSUME Init PROVE Redemptions!Init
    OBVIOUS
  <2>1. Claims = [h \in Handler |-> NoRedemption]
    BY DEF Init, Claims, ClaimedBy, NoRequest
  <2>2. Redeemings = {}
    BY DEF Init, Redeemings
  <2> QED
    BY <2>1, <2>2 DEF Redemptions!Init, Claims, Redeemings
<1>2. IInv /\ [Next]_vars => [Redemptions!Next]_(Redemptions!vars)
  <2> SUFFICES ASSUME IInv, [Next]_vars PROVE [Redemptions!Next]_(Redemptions!vars)
    OBVIOUS
  <2>0. TypeOK
    BY DEF IInv
  <2>1. CASE UNCHANGED <<req, logins>>
    BY <2>1, SameClaims DEF ClaimedBy
  <2>2. CASE Tick
    <3>1. ASSUME NEW g \in Handler
          PROVE  /\ req'[g].pc = req[g].pc /\ req'[g].code = req[g].code
                 /\ req'[g].epoch = req[g].epoch
      BY <2>0, <2>2, RequestFacts DEF Tick, Request
    <3> QED
      BY <2>2, <3>1, SameClaims DEF Tick, ClaimedBy
  <2>3. ASSUME NEW h \in Handler, OTPRequest(h) PROVE UNCHANGED Redemptions!vars
    <3>1. asked + 1 \in 0..MaxCodes
      BY <2>0, <2>3, NumberFacts DEF OTPRequest
    <3>2. req'[h].pc = "clear" /\ \A g \in Handler : g # h => req'[g] = req[g]
      BY <2>0, <2>3, <3>1, BeginFacts DEF OTPRequest, Pc
    <3> QED
      BY <2>3, <3>2, QuietClaims DEF OTPRequest, Holding
  <2>4. ASSUME NEW h \in Handler, NEW guess \in 0..asked, OTPVerify(h, guess)
        PROVE  UNCHANGED Redemptions!vars
    <3>1. guess \in 0..MaxCodes
      BY <2>0, NumberFacts
    <3>2. req'[h].pc \in {"incr", "get"} /\ \A g \in Handler : g # h => req'[g] = req[g]
      BY <2>0, <2>4, <3>1, BeginFacts DEF OTPVerify, Pc
    <3> QED
      BY <2>4, <3>2, QuietClaims DEF OTPVerify, Holding
  <2>5. ASSUME NEW h \in Handler, ClearRedeemed(h) \/ IncrAttempts(h) \/ ExpireAttempts(h) \/ GetOTP(h)
        PROVE  [Redemptions!GiveUp(h)]_(Redemptions!vars)
    <3>1. logins' = logins /\ req[h].pc \notin Holding
      BY <2>5 DEF ClearRedeemed, IncrAttempts, ExpireAttempts, GetOTP, Holding
    <3>2. Respond(h) \/ \E x \in {"store", "expire", "get", "claim"} : Goto(h, x)
      BY <2>5 DEF ClearRedeemed, IncrAttempts, ExpireAttempts, GetOTP
    <3>3. CASE Respond(h)
      BY <3>1, <3>3, RespondGivesUp
    <3>4. ASSUME NEW x \in {"store", "expire", "get", "claim"}, Goto(h, x)
          PROVE  UNCHANGED Redemptions!vars
      <4>1. req'[h].pc = x /\ \A g \in Handler : g # h => req'[g] = req[g]
        BY <2>0, <3>4, GotoFacts DEF Pc
      <4> QED
        BY <3>1, <3>4, <4>1, QuietClaims DEF Holding
    <3> QED
      BY <3>2, <3>3, <3>4
  <2>6. ASSUME NEW h \in Handler, StoreOTP(h) \/ Crash(h)
        PROVE  [Redemptions!GiveUp(h)]_(Redemptions!vars)
    BY <2>6, RespondGivesUp DEF StoreOTP, Crash
  <2>7. ASSUME NEW h \in Handler, ClaimRedemption(h) PROVE [Redemptions!Next]_(Redemptions!vars)
    <3>1. CASE Respond(h)
      BY <2>7, <3>1, RespondGivesUp DEF ClaimRedemption, Redemptions!Next
    <3>2. CASE redeemed = 0 /\ req' = [req EXCEPT ![h].pc = "delete", ![h].epoch = epoch]
      BY <2>7, <3>2, ClaimClaims DEF ClaimRedemption, Redemptions!Next
    <3> QED
      BY <2>7, <3>1, <3>2 DEF ClaimRedemption
  <2>8. ASSUME NEW h \in Handler, DeleteOTP(h) PROVE [Redemptions!GiveUp(h)]_(Redemptions!vars)
    <3>1. CASE Respond(h)
      BY <2>8, <3>1, RespondGivesUp DEF DeleteOTP
    <3>2. CASE Goto(h, "reset")
      <4>1. /\ req'[h].pc = "reset" /\ req'[h].code = req[h].code /\ req'[h].epoch = req[h].epoch
            /\ \A g \in Handler : g # h => req'[g] = req[g]
        BY <2>0, <3>2, GotoFacts DEF Pc
      <4>2. req[h].pc = "delete" /\ logins' = logins
        BY <2>8 DEF DeleteOTP
      <4>3. ASSUME NEW g \in Handler PROVE ClaimedBy(g)' = ClaimedBy(g)
        <5>1. CASE g = h
          BY <4>1, <4>2, <5>1 DEF ClaimedBy
        <5>2. CASE g # h
          BY <4>1, <5>2 DEF ClaimedBy
        <5> QED
          BY <5>1, <5>2
      <4> QED
        BY <4>2, <4>3, SameClaims
    <3> QED
      BY <2>8, <3>1, <3>2 DEF DeleteOTP
  <2>9. ASSUME NEW h \in Handler, ResetAttempts(h) PROVE [Redemptions!Next]_(Redemptions!vars)
    <3>1. CASE logins' = logins
      BY <2>9, <3>1, RespondGivesUp DEF ResetAttempts, Redemptions!Next
    <3>2. CASE logins' = Append(logins, [code |-> req[h].code, epoch |-> req[h].epoch])
      BY <2>9, <3>2, LoginUses DEF ResetAttempts, Redemptions!Next
    <3> QED
      BY <2>9, <3>1, <3>2 DEF ResetAttempts
  <2>10. CASE \E h \in Handler : OTPRequestRefused(h)
    BY <2>1, <2>10 DEF OTPRequestRefused
  <2>11. CASE UNCHANGED vars
    BY <2>1, <2>11 DEF vars
  <2> QED
    BY <2>2, <2>3, <2>4, <2>5, <2>6, <2>7, <2>8, <2>9, <2>10, <2>11 DEF Next, Redemptions!Next
<1> QED
  BY <1>1, <1>2, Invariance, PTL DEF Spec, RedeemsOnce, Redemptions!Spec
=============================================================================
