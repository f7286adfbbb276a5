---------------------------- MODULE PasskeyLogin ----------------------------
(***************************************************************************)
(* Passkey login for one user (internal/api/passkeys_auth.go): begin       *)
(* stores a session under a fresh challenge; complete fetches it, verifies *)
(* the assertion, claims the challenge, updates the credential, deletes    *)
(* the session, asks whether the user is banned and signs tokens.          *)
(*                                                                         *)
(* Handlers interleave at their Redis, customer-api and DynamoDB calls.  A *)
(* Redis key is modelled by its remaining TTL in ticks, 0 when missing.    *)
(*                                                                         *)
(* The user has one passkey.  Either its authenticator counts assertions,  *)
(* and the one for ceremony c reports c, or it is synced between devices   *)
(* and every assertion reports 0.  Completions come in any order and       *)
(* repeat.                                                                 *)
(***************************************************************************)
EXTENDS Naturals, Sequences

CONSTANTS
    Handler,        \* goroutines that can be serving a request at the same time
    SessionTTL,     \* webauthnLoginSessionTTLSec
    ClaimTTL,       \* sessionClaimTTL
    Latency,        \* bound: ticks that may pass while a request is served
    MaxChallenges,  \* bound: ceremonies begun
    MaxFaults       \* bound: failed calls and crashes

ASSUME TTLAssumption ==
    /\ SessionTTL \in Nat \ {0}
    /\ ClaimTTL \in Nat \ {0}

ASSUME BoundsAssumption ==
    /\ Latency \in Nat
    /\ MaxChallenges \in Nat
    /\ MaxFaults \in Nat

(* No request is served for half the life of a claim: 150 seconds in the   *)
(* code.                                                                   *)
ASSUME LatencyAssumption == 2 * Latency < ClaimTTL

VARIABLES
    session,  \* webauthn:login:<challenge>, by challenge
    claim,    \* session:claimed:login:<challenge>, by challenge
    count,    \* the sign count of the credential in customer-api
    begun,    \* how many ceremonies have been begun
    banned,   \* the user's record in the banned-customers table
    passkey,  \* whether the passkey's authenticator counts; never changes
    req,      \* the request each handler is serving
    faults,   \* how many faults have happened
    logins,   \* history: the challenges that ended in tokens, in order
    kept,     \* history: challenges whose session was not deleted
    undercut  \* history: challenges below whose count the sign count went back

store   == <<session, claim, count, begun, banned, passkey>>
history == <<logins, kept, undercut>>
vars    == <<store, req, faults, history>>

-----------------------------------------------------------------------------
Challenge == 1..MaxChallenges

(* The pc of a request names the call the handler is about to make.        *)
Pc == {"idle", "list", "claim", "update", "delete", "ban", "sign"}

(* was is history: the user's record when the request arrived; gate tells  *)
(* whether this request got an answer from the banned-customers table;     *)
(* clone whether CloneWarning was set.                                     *)
Request   == [pc : Pc, ch : 0..MaxChallenges, age : 0..Latency,
              was : {"banned", "clear"}, gate : {"asked", "failed"},
              clone : {"no", "warned"}]
NoRequest == [pc |-> "idle", ch |-> 0, age |-> 0, was |-> "clear", gate |-> "asked",
              clone |-> "no"]

Goto(h, pc) == req' = [req EXCEPT ![h].pc = pc]
Respond(h)  == req' = [req EXCEPT ![h] = NoRequest]

Fault   == faults < MaxFaults /\ faults' = faults + 1
NoFault == UNCHANGED faults

Init ==
    /\ session = [c \in Challenge |-> 0]
    /\ claim = [c \in Challenge |-> 0]
    /\ count = 0
    /\ begun = 0
    /\ banned = "clear"
    /\ passkey \in {"counting", "synced"}
    /\ req = [h \in Handler |-> NoRequest]
    /\ faults = 0
    /\ logins = <<>>
    /\ kept = {}
    /\ undercut = {}

Older(ttl) == IF ttl > 0 THEN ttl - 1 ELSE 0

Tick ==
    /\ \A h \in Handler : req[h].pc # "idle" => req[h].age < Latency
    /\ session' = [c \in Challenge |-> Older(session[c])]
    /\ claim' = [c \in Challenge |-> Older(claim[c])]
    /\ req' = [h \in Handler |->
                  IF req[h].pc = "idle" THEN req[h]
                                        ELSE [req[h] EXCEPT !.age = @ + 1]]
    /\ UNCHANGED <<count, begun, banned, passkey, faults, history>>

(* BannedCustomersClient.IsBanned, when the table answers.                 *)
IsBanned == banned = "banned"

(* An operator adds the user to the banned-customers table.                *)
Ban ==
    /\ banned = "clear"
    /\ banned' = "banned"
    /\ UNCHANGED <<session, claim, count, begun, passkey, req, faults, history>>

(* The record expires or is deleted; what requests recorded of it is void. *)
BanLapses ==
    /\ IsBanned
    /\ banned' = "clear"
    /\ req' = [h \in Handler |-> [req[h] EXCEPT !.was = "clear"]]
    /\ UNCHANGED <<session, claim, count, begun, passkey, faults, history>>

-----------------------------------------------------------------------------
(* Mutant: the session outlives its ceremony.                              *)
LoginBeginTwiceAsLong(h) ==
    /\ req[h].pc = "idle"
    /\ begun < MaxChallenges
    /\ begun' = begun + 1
    /\ session' = [session EXCEPT ![begun + 1] = 2 * SessionTTL]
    /\ UNCHANGED <<claim, count, banned, passkey, req, faults, history>>

(* PasskeyLoginBeginHandler: after its lookups, which change nothing, the  *)
(* session is stored under a challenge nobody has used.                    *)
LoginBegin(h) ==
    /\ req[h].pc = "idle"
    /\ begun < MaxChallenges
    /\ begun' = begun + 1
    /\ session' = [session EXCEPT ![begun + 1] = SessionTTL]
    /\ UNCHANGED <<claim, count, banned, passkey, req, faults, history>>

(* Begin answers 4xx or 5xx; complete has a malformed assertion, a session *)
(* that is gone, or an error on the way to it.                             *)
LoginRefused(h) ==
    /\ req[h].pc = "idle"
    /\ UNCHANGED vars

(* PasskeyLoginCompleteHandler, GetWebAuthnLoginSession.                   *)
LoginComplete(h, c) ==
    /\ req[h].pc = "idle"
    /\ session[c] > 0
    /\ req' = [req EXCEPT ![h] = [NoRequest EXCEPT !.pc = "list", !.ch = c, !.was = banned]]
    /\ UNCHANGED <<store, faults, history>>

(* The count in the authenticator data of the assertion for ceremony c.    *)
Reported(c) == IF passkey = "counting" THEN c ELSE 0

(* Authenticator.UpdateCounter of go-webauthn: a clone is suspected when   *)
(* the reported count does not exceed the stored one, unless both are 0.   *)
UpdateCounter(c) ==
    IF Reported(c) <= count /\ (Reported(c) # 0 \/ count # 0) THEN "warned" ELSE "no"

(* The service token, ListPasskeyCredentials and FinishLogin: the          *)
(* assertion verifies, with or without a CloneWarning, or an error ends    *)
(* the request.                                                            *)
FinishLogin(h) ==
    /\ req[h].pc = "list"
    /\ \/ req' = [req EXCEPT ![h].pc = "claim", ![h].clone = UpdateCounter(req[h].ch)]
       \/ Respond(h)
    /\ UNCHANGED <<store, faults, history>>

(* Mutant: a challenge can be claimed again and again.                     *)
ClaimSessionAgain(h) ==
    /\ req[h].pc = "claim"
    /\ claim' = [claim EXCEPT ![req[h].ch] = ClaimTTL]
    /\ Goto(h, "update")
    /\ UNCHANGED <<session, count, begun, banned, passkey, faults, history>>

(* ClaimSession: 409 when the key is there, 500 on an error.               *)
ClaimSession(h) ==
    LET c == req[h].ch
    IN  /\ req[h].pc = "claim"
        /\ \/ /\ claim[c] = 0
              /\ claim' = [claim EXCEPT ![c] = ClaimTTL]
              /\ \/ NoFault /\ Goto(h, "update")
                 \/ Fault /\ Respond(h)
           \/ /\ Fault \/ (claim[c] # 0 /\ NoFault)
              /\ Respond(h)
              /\ UNCHANGED claim
        /\ UNCHANGED <<session, count, begun, banned, passkey, history>>

(* Mutant: the sign count is not written back.                             *)
UpdateCredentialSkipped(h) ==
    /\ req[h].pc = "update"
    /\ Goto(h, "delete")
    /\ UNCHANGED <<store, faults, history>>

(* The PATCH writes the reported count, whatever customer-api has by now.  *)
UpdatePasskeyCredential(c) ==
    /\ count' = Reported(c)
    /\ undercut' = undercut \cup {d \in Challenge : Reported(c) < d /\ d <= count}

(* A failure, or a reply that is lost, is a 503; the claim and the session *)
(* stay.                                                                   *)
UpdateCredential(h) ==
    LET c == req[h].ch
    IN  /\ req[h].pc = "update"
        /\ \/ /\ UpdatePasskeyCredential(c)
              /\ \/ NoFault /\ Goto(h, "delete")
                 \/ Fault /\ Respond(h)
           \/ /\ Fault
              /\ Respond(h)
              /\ UNCHANGED <<count, undercut>>
        /\ UNCHANGED <<session, claim, begun, banned, passkey, logins, kept>>

(* DeleteWebAuthnLoginSession: a failure is only logged.                   *)
DeleteSession(h) ==
    LET c == req[h].ch
    IN  /\ req[h].pc = "delete"
        /\ \/ NoFault /\ session' = [session EXCEPT ![c] = 0] /\ UNCHANGED kept
           \/ Fault /\ UNCHANGED session /\ kept' = kept \cup {c}
        /\ Goto(h, "ban")
        /\ UNCHANGED <<claim, count, begun, banned, passkey, logins, undercut>>

(* Mutant: the answer of the table is not used.                            *)
CheckBanIgnored(h) ==
    /\ req[h].pc = "ban"
    /\ Goto(h, "sign")
    /\ UNCHANGED <<store, faults, history>>

(* IsBanned: a failure is logged and the login goes on.                    *)
CheckBan(h) ==
    /\ req[h].pc = "ban"
    /\ \/ NoFault /\ IsBanned /\ Respond(h)
       \/ NoFault /\ ~IsBanned /\ Goto(h, "sign")
       \/ Fault /\ req' = [req EXCEPT ![h].pc = "sign", ![h].gate = "failed"]
    /\ UNCHANGED <<store, history>>

(* SignToken and SignRefreshToken; an error is a 500.                      *)
SignTokens(h) ==
    /\ req[h].pc = "sign"
    /\ \/ /\ NoFault
          /\ logins' = Append(logins, [ch |-> req[h].ch, clone |-> req[h].clone])
       \/ Fault /\ UNCHANGED logins
    /\ Respond(h)
    /\ UNCHANGED <<store, kept, undercut>>

Crash(h) ==
    /\ req[h].pc # "idle"
    /\ Fault
    /\ Respond(h)
    /\ UNCHANGED <<store, history>>

Next ==
    \/ Tick
    \/ Ban
    \/ BanLapses
    \/ \E h \in Handler :
          \/ LoginBegin(h)
          \/ LoginRefused(h)
          \/ \E c \in Challenge : LoginComplete(h, c)
          \/ FinishLogin(h)
          \/ ClaimSession(h)
          \/ UpdateCredential(h)
          \/ DeleteSession(h)
          \/ CheckBan(h)
          \/ SignTokens(h)
          \/ Crash(h)

Spec == Init /\ [][Next]_vars

-----------------------------------------------------------------------------
(* The type of every variable.  Only ceremonies that were begun have       *)
(* sessions, requests and logins.                                          *)
TypeOK ==
    /\ session \in [Challenge -> 0..SessionTTL]
    /\ claim \in [Challenge -> 0..ClaimTTL]
    /\ count \in 0..begun
    /\ begun \in 0..MaxChallenges
    /\ \A c \in Challenge : c > begun => session[c] = 0 /\ claim[c] = 0
    /\ banned \in {"banned", "clear"}
    /\ passkey \in {"counting", "synced"}
    /\ req \in [Handler -> Request]
    /\ \A h \in Handler : req[h].pc # "idle" => req[h].ch \in 1..begun
    /\ faults \in 0..MaxFaults
    /\ logins \in Seq([ch : 1..begun, clone : {"no", "warned"}])
    /\ kept \in SUBSET (1..begun)
    /\ undercut \in SUBSET Challenge

(* A handler has a challenge to itself from the claim to its answer.       *)
ClaimedBy(h) == IF req[h].pc \in {"update", "delete", "ban", "sign"} THEN req[h].ch ELSE 0

Challenges == INSTANCE SingleUse WITH
    Item    <- Challenge,
    Holder  <- Handler,
    None    <- 0,
    claimed <- [h \in Handler |-> ClaimedBy(h)],
    used    <- {logins[i].ch : i \in DOMAIN logins},
    leaked  <- kept

(* ClaimSession and DeleteWebAuthnLoginSession implement single use of a   *)
(* challenge, however completions with the same assertion overlap,         *)
(* whichever of them is slow and whatever fails: only a session whose      *)
(* Delete failed lets a challenge log in again, once the claim has expired.*)
LogsInOnce == Challenges!Spec

(* The count of the assertion for ceremony c tells it from an older one:   *)
(* the passkey counts, and no completion of an older ceremony has written  *)
(* its smaller count over that of c.                                       *)
CountTells(c) == passkey = "counting" /\ c \notin undercut

(* What the CloneWarning that the handler only logs is worth where a       *)
(* challenge does log in again: the second login carries it if the passkey *)
(* counts and the count of this challenge was not put back, whichever      *)
(* requests read the count before the first login wrote it.  A synced      *)
(* passkey never causes one: its replayed assertion is like any other.     *)
ReplayIsFlagged ==
    /\ \A i, j \in DOMAIN logins :
          (i < j /\ logins[i].ch = logins[j].ch /\ CountTells(logins[j].ch))
             => logins[j].clone = "warned"
    /\ passkey = "synced" => \A i \in DOMAIN logins : logins[i].clone = "no"

(* A user who is banned since the completion arrived is not logged in      *)
(* unless the lookup failed in that very request: the gate fails open, and *)
(* nothing else gets around it, a ban between begin and complete included. *)
BanStopsLogin ==
    \A h \in Handler :
        (req[h].pc = "sign" /\ req[h].was = "banned") => req[h].gate = "failed"
=============================================================================
