------------------------------ MODULE OtpLogin ------------------------------
(***************************************************************************)
(* One-time-password login for one email address: POST /otp/request and    *)
(* POST /otp/verify (internal/api/otp.go) over four Redis keys             *)
(* (internal/db/otp.go): otp:<email>, otp:cooldown:<email>,                *)
(* otp:redeemed:<email> and otp:attempts:<email>.  Keys of two addresses   *)
(* never meet, so one address is enough.                                   *)
(*                                                                         *)
(* Handlers interleave at their Redis calls; every call is one step.  A    *)
(* key is modelled by its remaining TTL in ticks, 0 when it is missing and *)
(* NoTTL when it never expires, as the TTL command of Redis answers.       *)
(***************************************************************************)
EXTENDS Integers, Sequences

CONSTANTS
    Handler,      \* goroutines that can be serving a request at the same time
    OtpTTL,       \* otpTTLSec: life of a code and of the attempt counter
    RedeemedTTL,  \* otpRedeemedTTL: life of the redemption claim
    CooldownTTL,  \* otpCooldownTTL: pause between two codes
    MaxAttempts,  \* MaxOTPAttempts
    Latency,      \* bound: ticks that may pass while a request is served
    MaxCodes,     \* bound: OTP requests that pass the cooldown
    MaxFaults     \* bound: Redis errors and crashes

ASSUME TTLAssumption ==
    /\ OtpTTL \in Nat \ {0}
    /\ RedeemedTTL \in Nat \ {0}
    /\ CooldownTTL \in Nat \ {0}
    /\ MaxAttempts \in Nat \ {0}

ASSUME BoundsAssumption ==
    /\ Latency \in Nat
    /\ MaxCodes \in Nat
    /\ MaxFaults \in Nat

(* No request is served for half the life of a redemption claim: 150       *)
(* seconds in the code.                                                    *)
ASSUME LatencyAssumption == 2 * Latency < RedeemedTTL

VARIABLES
    otp,       \* otp:<email>: the code and its TTL
    cooldown,  \* otp:cooldown:<email>, its TTL
    redeemed,  \* otp:redeemed:<email>, its TTL
    attempts,  \* otp:attempts:<email>: the count and its TTL
    req,       \* the request each handler is serving
    asked,     \* how many OTP requests passed the cooldown
    faults,    \* how many faults have happened
    epoch,     \* history: how often a request cleared otp:redeemed
    logins,    \* history: the redemptions that ended in a token, in order
    alone,     \* history: "no" once two requests have overlapped
    tries      \* history: guesses compared with each code while alone

keys == <<otp, cooldown, redeemed, attempts>>
vars == <<otp, cooldown, redeemed, attempts, req, asked, faults, epoch, logins, tries, alone>>

-----------------------------------------------------------------------------
(* Codes are numbered in the order of their requests (six random digits in *)
(* the code); the guess 0 is a code that was never sent.                   *)
Code  == 1..MaxCodes
NoTTL == -1

NoOtp     == [code |-> 0, ttl |-> 0]
NoCounter == [n |-> 0, ttl |-> 0]

(* The pc of a request names the call the handler is about to make.        *)
Pc == {"idle", "clear", "store", "incr", "expire", "get", "claim", "delete", "reset"}

(* code is the code being sent or the guess; age the ticks since arrival;  *)
(* epoch the epoch in which the request claimed the redemption.            *)
Request   == [pc : Pc, code : 0..MaxCodes, age : 0..Latency, epoch : Nat]
NoRequest == [pc |-> "idle", code |-> 0, age |-> 0, epoch |-> 0]

Begin(h, pc, code) ==
    /\ req' = [req EXCEPT ![h] = [NoRequest EXCEPT !.pc = pc, !.code = code]]
    /\ alone' = IF \A g \in Handler : req[g].pc = "idle" THEN alone ELSE "no"

Goto(h, pc) == req' = [req EXCEPT ![h].pc = pc]

Respond(h) == req' = [req EXCEPT ![h] = NoRequest]

(* A Redis call that fails, one that does not, and one that takes effect   *)
(* whether or not its reply is lost.                                       *)
Fault    == faults < MaxFaults /\ faults' = faults + 1
NoFault  == UNCHANGED faults
MayFault == Fault \/ NoFault

Init ==
    /\ otp = NoOtp
    /\ cooldown = 0
    /\ redeemed = 0
    /\ attempts = NoCounter
    /\ req = [h \in Handler |-> NoRequest]
    /\ asked = 0
    /\ faults = 0
    /\ epoch = 0
    /\ logins = <<>>
    /\ tries = [c \in Code |-> 0]
    /\ alone = "yes"

-----------------------------------------------------------------------------
(* A tick: every key with a TTL gets older, and so does every request.     *)
Older(ttl) == IF ttl > 0 THEN ttl - 1 ELSE ttl

Tick ==
    /\ \A h \in Handler : req[h].pc # "idle" => req[h].age < Latency
    /\ otp' = IF otp.ttl = 1 THEN NoOtp ELSE [otp EXCEPT !.ttl = Older(@)]
    /\ cooldown' = Older(cooldown)
    /\ redeemed' = Older(redeemed)
    /\ attempts' = IF attempts.ttl = 1 THEN NoCounter
                                       ELSE [attempts EXCEPT !.ttl = Older(@)]
    /\ req' = [h \in Handler |->
                  IF req[h].pc = "idle" THEN req[h]
                                        ELSE [req[h] EXCEPT !.age = @ + 1]]
    /\ UNCHANGED <<asked, faults, epoch, logins, tries, alone>>

-----------------------------------------------------------------------------
(* OTPRequestHandler, up to the SetNX of the cooldown key in               *)
(* GenerateAndStoreOTP.                                                    *)
OTPRequest(h) ==
    /\ req[h].pc = "idle"
    /\ asked < MaxCodes
    /\ cooldown = 0
    /\ cooldown' = CooldownTTL
    /\ asked' = asked + 1
    /\ Begin(h, "clear", asked + 1)
    /\ UNCHANGED <<otp, redeemed, attempts, faults, epoch, logins, tries>>

(* 403 for a banned address, 429 inside the cooldown, 500 when SetNX       *)
(* fails or its reply is lost.                                             *)
OTPRequestRefused(h) ==
    /\ req[h].pc = "idle"
    /\ \/ UNCHANGED <<cooldown, faults>>
       \/ Fault /\ cooldown = 0 /\ cooldown' = CooldownTTL
    /\ UNCHANGED <<otp, redeemed, attempts, req, asked, epoch, logins, tries, alone>>

(* Mutant: the redemption claim of the last code is left in place.         *)
ClearRedeemedForgotten(h) ==
    /\ req[h].pc = "clear"
    /\ Goto(h, "store")
    /\ UNCHANGED <<keys, asked, faults, epoch, logins, tries, alone>>

(* Delete of otp:redeemed; its error is dropped.                           *)
ClearRedeemed(h) ==
    /\ req[h].pc = "clear"
    /\ \/ MayFault /\ redeemed' = 0 /\ epoch' = epoch + 1
       \/ Fault /\ UNCHANGED <<redeemed, epoch>>
    /\ Goto(h, "store")
    /\ UNCHANGED <<otp, cooldown, attempts, asked, logins, tries, alone>>

(* Mutant: the code is stored without a TTL.                               *)
StoreOTPForever(h) ==
    /\ req[h].pc = "store"
    /\ otp' = [code |-> req[h].code, ttl |-> NoTTL]
    /\ Respond(h)
    /\ UNCHANGED <<cooldown, redeemed, attempts, asked, faults, epoch, logins, tries, alone>>

(* Set of otp:<email>, replacing a code that is still alive.  A failure is *)
(* a 500; a failed e-mail is only logged.                                  *)
StoreOTP(h) ==
    /\ req[h].pc = "store"
    /\ \/ MayFault /\ otp' = [code |-> req[h].code, ttl |-> OtpTTL]
       \/ Fault /\ UNCHANGED otp
    /\ Respond(h)
    /\ UNCHANGED <<cooldown, redeemed, attempts, asked, epoch, logins, tries, alone>>

-----------------------------------------------------------------------------
(* OTPVerifyHandler, up to the Exists of IncrOTPAttempts: without a code   *)
(* the attempt is not counted, and a Redis error does not stop it.         *)
OTPVerify(h, guess) ==
    /\ req[h].pc = "idle"
    /\ \/ NoFault /\ Begin(h, IF otp.code # 0 THEN "incr" ELSE "get", guess)
       \/ Fault /\ Begin(h, "get", guess)
    /\ UNCHANGED <<keys, asked, epoch, logins, tries>>

(* The counter after Incr.  Counts above the limit all refuse; the model   *)
(* stops counting one above it.                                            *)
Incremented ==
    IF attempts.n = 0 THEN [n |-> 1, ttl |-> NoTTL]
    ELSE [attempts EXCEPT !.n = IF @ > MaxAttempts THEN @ ELSE @ + 1]

(* Mutant: the first attempt does not go on to set the TTL.                *)
IncrAttemptsForever(h) ==
    /\ req[h].pc = "incr"
    /\ attempts' = Incremented
    /\ IF attempts.n < MaxAttempts THEN Goto(h, "get") ELSE Respond(h)
    /\ UNCHANGED <<otp, cooldown, redeemed, asked, faults, epoch, logins, tries, alone>>

(* Mutant: the limit is compared with the count before this attempt.       *)
IncrAttemptsOneMore(h) ==
    /\ req[h].pc = "incr"
    /\ attempts' = Incremented
    /\ \/ attempts.n = 0 /\ Goto(h, "expire")
       \/ attempts.n \in 1..MaxAttempts /\ Goto(h, "get")
       \/ attempts.n > MaxAttempts /\ Respond(h)
    /\ UNCHANGED <<otp, cooldown, redeemed, asked, faults, epoch, logins, tries, alone>>

(* Incr makes a missing key 1, without a TTL, for the first attempt to     *)
(* set; an error is logged and the attempt goes on.                        *)
IncrAttempts(h) ==
    /\ req[h].pc = "incr"
    /\ \/ /\ attempts' = Incremented
          /\ \/ attempts.n = 0 /\ NoFault /\ Goto(h, "expire")
             \/ attempts.n \in 1..(MaxAttempts - 1) /\ NoFault /\ Goto(h, "get")
             \/ attempts.n >= MaxAttempts /\ NoFault /\ Respond(h)
             \/ Fault /\ Goto(h, "get")
       \/ Fault /\ Goto(h, "get") /\ UNCHANGED attempts
    /\ UNCHANGED <<otp, cooldown, redeemed, asked, epoch, logins, tries, alone>>

(* Expire of the counter; an error is logged and the attempt goes on.      *)
ExpireAttempts(h) ==
    /\ req[h].pc = "expire"
    /\ \/ /\ MayFault
          /\ attempts' = IF attempts.n = 0 THEN attempts
                                           ELSE [attempts EXCEPT !.ttl = OtpTTL]
       \/ Fault /\ UNCHANGED attempts
    /\ Goto(h, "get")
    /\ UNCHANGED <<otp, cooldown, redeemed, asked, epoch, logins, tries, alone>>

(* Mutant: the guess is not compared with the code.                        *)
GetOTPAnyGuess(h) ==
    /\ req[h].pc = "get"
    /\ IF otp.code # 0 THEN Goto(h, "claim") ELSE Respond(h)
    /\ UNCHANGED <<keys, asked, faults, epoch, logins, tries, alone>>

(* VerifyOTP, Get and compare.                                             *)
GetOTP(h) ==
    /\ req[h].pc = "get"
    /\ \/ /\ otp.code # 0
          /\ NoFault
          /\ tries' = [tries EXCEPT ![otp.code] = IF alone = "yes" THEN @ + 1 ELSE @]
          /\ IF otp.code = req[h].code THEN Goto(h, "claim") ELSE Respond(h)
       \/ /\ Fault \/ (otp.code = 0 /\ NoFault)
          /\ Respond(h)
          /\ UNCHANGED tries
    /\ UNCHANGED <<keys, asked, epoch, logins, alone>>

(* Mutant: the claim is not exclusive.                                     *)
ClaimRedemptionShared(h) ==
    /\ req[h].pc = "claim"
    /\ redeemed' = RedeemedTTL
    /\ req' = [req EXCEPT ![h].pc = "delete", ![h].epoch = epoch]
    /\ UNCHANGED <<otp, cooldown, attempts, asked, faults, epoch, logins, tries, alone>>

(* SetNX of otp:redeemed: 409 when somebody else has it, 500 on an error.  *)
ClaimRedemption(h) ==
    /\ req[h].pc = "claim"
    /\ \/ /\ redeemed = 0
          /\ NoFault
          /\ redeemed' = RedeemedTTL
          /\ req' = [req EXCEPT ![h].pc = "delete", ![h].epoch = epoch]
       \/ /\ Fault \/ (redeemed # 0 /\ NoFault)
          /\ Respond(h)
          /\ UNCHANGED redeemed
       \/ /\ redeemed = 0
          /\ Fault
          /\ redeemed' = RedeemedTTL
          /\ Respond(h)
    /\ UNCHANGED <<otp, cooldown, attempts, asked, epoch, logins, tries, alone>>

(* Mutant: a failed Delete is only logged.                                 *)
DeleteOTPIgnoresError(h) ==
    /\ req[h].pc = "delete"
    /\ \/ NoFault /\ otp' = NoOtp
       \/ Fault /\ UNCHANGED otp
    /\ Goto(h, "reset")
    /\ UNCHANGED <<cooldown, redeemed, attempts, asked, epoch, logins, tries, alone>>

(* Delete of otp:<email>, whichever code it holds by now; a failure is a   *)
(* 500.                                                                    *)
DeleteOTP(h) ==
    /\ req[h].pc = "delete"
    /\ \/ NoFault /\ otp' = NoOtp /\ Goto(h, "reset")
       \/ Fault /\ otp' \in {otp, NoOtp} /\ Respond(h)
    /\ UNCHANGED <<cooldown, redeemed, attempts, asked, epoch, logins, tries, alone>>

(* DeleteOTPAttempts, its error dropped, then the credential lookup that   *)
(* ran beside VerifyOTP: 503, 401 or a token.                              *)
ResetAttempts(h) ==
    /\ req[h].pc = "reset"
    /\ \/ MayFault /\ attempts' = NoCounter
       \/ Fault /\ UNCHANGED attempts
    /\ \/ logins' = Append(logins, [code |-> req[h].code, epoch |-> req[h].epoch])
       \/ UNCHANGED logins
    /\ Respond(h)
    /\ UNCHANGED <<otp, cooldown, redeemed, asked, epoch, tries, alone>>

-----------------------------------------------------------------------------
Crash(h) ==
    /\ req[h].pc # "idle"
    /\ Fault
    /\ Respond(h)
    /\ UNCHANGED <<keys, asked, epoch, logins, tries, alone>>

Next ==
    \/ Tick
    \/ \E h \in Handler :
          \/ OTPRequest(h)
          \/ OTPRequestRefused(h)
          \/ ClearRedeemed(h)
          \/ StoreOTP(h)
          \/ \E guess \in 0..asked : OTPVerify(h, guess)
          \/ IncrAttempts(h)
          \/ ExpireAttempts(h)
          \/ GetOTP(h)
          \/ ClaimRedemption(h)
          \/ DeleteOTP(h)
          \/ ResetAttempts(h)
          \/ Crash(h)

Spec == Init /\ [][Next]_vars

-----------------------------------------------------------------------------
(* The type of every variable.  A missing counter has no TTL, and a code   *)
(* always has one.                                                         *)
TypeOK ==
    /\ otp \in {NoOtp} \cup [code : 1..asked, ttl : 1..OtpTTL]
    /\ cooldown \in 0..CooldownTTL
    /\ redeemed \in 0..RedeemedTTL
    /\ attempts \in {NoCounter} \cup [n : 1..(MaxAttempts + 1), ttl : {NoTTL} \cup 1..OtpTTL]
    /\ req \in [Handler -> Request]
    /\ \A h \in Handler : req[h].code \in 0..asked
    /\ asked \in 0..MaxCodes
    /\ faults \in 0..MaxFaults
    /\ epoch \in 0..asked
    /\ logins \in Seq([code : Code, epoch : 0..epoch])
    /\ tries \in [Code -> Nat]
    /\ alone \in {"yes", "no"}

(* A redemption is a code in an epoch; a handler has claimed one between   *)
(* the SetNX and its answer.                                               *)
Redemption   == [code : Code, epoch : 0..MaxCodes]
NoRedemption == [code |-> 0, epoch |-> 0]

ClaimedBy(h) ==
    IF req[h].pc \in {"delete", "reset"}
      THEN [code |-> req[h].code, epoch |-> req[h].epoch] ELSE NoRedemption

Redemptions == INSTANCE SingleUse WITH
    Item    <- Redemption,
    Holder  <- Handler,
    None    <- NoRedemption,
    claimed <- [h \in Handler |-> ClaimedBy(h)],
    used    <- {logins[i] : i \in DOMAIN logins},
    leaked  <- {}

(* What the SetNX claim of VerifyOTP is worth, however verifications       *)
(* overlap and whichever calls fail: it implements single use between two  *)
(* re-requests of a code (which delete the claim).  Whoever is between the *)
(* claim and the token has the code to itself, and a code that was         *)
(* redeemed for a token is not claimed again, even when the claim is gone. *)
RedeemsOnce == Redemptions!Spec

(* An OTP is single-use: no code is ever redeemed for two tokens, as long  *)
(* as requests do not overlap.                                             *)
OneLoginPerCode ==
    alone = "yes" =>
        \A i, j \in DOMAIN logins : logins[i].code = logins[j].code => i = j

(* No guess beyond the fifth is compared with a code.                      *)
TriesWithinLimit == \A c \in Code : tries[c] <= MaxAttempts

(* What the counter is worth when verifications do not overlap: a code     *)
(* that inherits the counter of the code before it sees that counter's     *)
(* last attempts, then a full set of its own, and one guess more for each  *)
(* Redis error that left an attempt uncounted.                             *)
TriesBounded ==
    alone = "yes" => \A c \in Code : tries[c] <= 2 * MaxAttempts - 1 + faults

AllIdle == \A h \in Handler : req[h].pc = "idle"

(* A code in store can be redeemed: as long as requests do not overlap and *)
(* Redis does not fail, no redemption claim of an earlier code is left to  *)
(* answer 409 to its owner.                                                *)
StoredCodeIsRedeemable ==
    (alone = "yes" /\ AllIdle /\ faults = 0 /\ otp.code # 0) => redeemed = 0

(* Nobody is locked out for good unless something failed: a counter        *)
(* without a TTL belongs to an attempt that is about to set it, however    *)
(* attempts, resets and new codes interleave.                              *)
LockoutExpires ==
    (attempts.ttl = NoTTL /\ faults = 0) => \E h \in Handler : req[h].pc = "expire"

(* A code leaves the store when it expires, when a newer one replaces it,  *)
(* or when the verification that was given this very code deletes it: only *)
(* requests that overlap can delete somebody else's code.                  *)
CodeGoesOnlyWhenUsed ==
    [][ (alone = "yes" /\ otp.code # 0 /\ otp'.code = 0)
            => \/ otp.ttl = 1
               \/ \E h \in Handler : req[h].pc = "delete" /\ req[h].code = otp.code ]_vars
=============================================================================
