--------------------------- MODULE PasskeyRegister ---------------------------
(***************************************************************************)
(* Passkey registration for one user (internal/api/passkeys_register.go):  *)
(* begin checks the limit and stores the ceremony's session in Redis,      *)
(* complete verifies the authenticator's answer against it, claims the     *)
(* session (internal/db/cache.go ClaimSession), creates the credential in  *)
(* customer-api and deletes the session.  The session and the claim are    *)
(* both keyed by the user, not by the ceremony.                            *)
(*                                                                         *)
(* Handlers interleave at their Redis and customer-api calls.  A Redis key *)
(* is modelled by its remaining TTL in ticks, 0 when it is missing.        *)
(***************************************************************************)
EXTENDS Naturals

CONSTANTS
    Handler,      \* goroutines that can be serving a request at the same time
    SessionTTL,   \* webauthnRegSessionTTLSec
    ClaimTTL,     \* sessionClaimTTL
    MaxPasskeys,  \* maxPasskeysPerUser
    Latency,      \* bound: ticks that may pass while a request is served
    MaxSessions,  \* bound: ceremonies begun
    MaxFaults     \* bound: failed calls and crashes

ASSUME TTLAssumption ==
    /\ SessionTTL \in Nat \ {0}
    /\ ClaimTTL \in Nat \ {0}
    /\ MaxPasskeys \in Nat \ {0}

ASSUME BoundsAssumption ==
    /\ Latency \in Nat
    /\ MaxSessions \in Nat
    /\ MaxFaults \in Nat

(* No request is served for long: with a session and a claim of 300        *)
(* seconds each, as in the code, for more than 100 seconds.                *)
ASSUME LatencyAssumption == 3 * Latency + SessionTTL <= 2 * ClaimTTL

VARIABLES
    session,  \* webauthn:reg:<user>: the ceremony and its TTL
    claim,    \* session:claimed:reg:<user>, its TTL
    creds,    \* how many passkeys customer-api has for the user
    begun,    \* how many ceremonies have been begun
    req,      \* the request each handler is serving
    faults    \* how many faults have happened

vars == <<session, claim, creds, begun, req, faults>>

-----------------------------------------------------------------------------
NoSession == [id |-> 0, ttl |-> 0]

(* The pc of a request names the call the handler is about to make.        *)
Pc == {"idle", "store", "claim", "create", "delete"}

Request   == [pc : Pc, id : 0..MaxSessions, age : 0..Latency]
NoRequest == [pc |-> "idle", id |-> 0, age |-> 0]

Begin(h, pc, id) == req' = [req EXCEPT ![h] = [pc |-> pc, id |-> id, age |-> 0]]
Goto(h, pc)      == req' = [req EXCEPT ![h].pc = pc]
Respond(h)       == req' = [req EXCEPT ![h] = NoRequest]

(* A call that fails, one that does not, and one that takes effect whether *)
(* or not its reply is lost.                                               *)
Fault    == faults < MaxFaults /\ faults' = faults + 1
NoFault  == UNCHANGED faults
MayFault == Fault \/ NoFault

Init ==
    /\ session = NoSession
    /\ claim = 0
    /\ creds \in 0..MaxPasskeys
    /\ begun = 0
    /\ req = [h \in Handler |-> NoRequest]
    /\ faults = 0

Tick ==
    /\ \A h \in Handler : req[h].pc # "idle" => req[h].age < Latency
    /\ session' = IF session.ttl > 1 THEN [session EXCEPT !.ttl = @ - 1] ELSE NoSession
    /\ claim' = IF claim > 0 THEN claim - 1 ELSE 0
    /\ req' = [h \in Handler |->
                  IF req[h].pc = "idle" THEN req[h]
                                        ELSE [req[h] EXCEPT !.age = @ + 1]]
    /\ UNCHANGED <<creds, begun, faults>>

-----------------------------------------------------------------------------
(* PasskeyRegisterBeginHandler, ListPasskeyCredentials and the limit.      *)
RegisterBegin(h) ==
    /\ req[h].pc = "idle"
    /\ begun < MaxSessions
    /\ creds < MaxPasskeys
    /\ begun' = begun + 1
    /\ Begin(h, "store", begun + 1)
    /\ UNCHANGED <<session, claim, creds, faults>>

(* 409 at the limit, 503 when customer-api fails; 400 for a completion     *)
(* without a session or with the answer of another ceremony.               *)
RegisterRefused(h) ==
    /\ req[h].pc = "idle"
    /\ UNCHANGED vars

(* Mutant: the session outlives its ceremony.                              *)
StoreSessionTwiceAsLong(h) ==
    /\ req[h].pc = "store"
    /\ session' = [id |-> req[h].id, ttl |-> 2 * SessionTTL]
    /\ Respond(h)
    /\ UNCHANGED <<claim, creds, begun, faults>>

(* StoreWebAuthnRegistrationSession replaces the session of another        *)
(* ceremony.                                                               *)
StoreSession(h) ==
    /\ req[h].pc = "store"
    /\ \/ MayFault /\ session' = [id |-> req[h].id, ttl |-> SessionTTL]
       \/ Fault /\ UNCHANGED session
    /\ Respond(h)
    /\ UNCHANGED <<claim, creds, begun>>

-----------------------------------------------------------------------------
(* PasskeyRegisterCompleteHandler: the session is fetched, and the answer  *)
(* of the ceremony the user went through verifies against it.              *)
RegisterComplete(h, id) ==
    /\ req[h].pc = "idle"
    /\ session.id = id
    /\ Begin(h, "claim", id)
    /\ UNCHANGED <<session, claim, creds, begun, faults>>

(* Mutant: the claim is read, not set.                                     *)
ClaimSessionUnset(h) ==
    /\ req[h].pc = "claim"
    /\ IF claim = 0 THEN Goto(h, "create") ELSE Respond(h)
    /\ UNCHANGED <<session, claim, creds, begun, faults>>

(* ClaimSession: 409 when the key is there, 500 on an error.               *)
ClaimSession(h) ==
    /\ req[h].pc = "claim"
    /\ \/ claim = 0 /\ NoFault /\ claim' = ClaimTTL /\ Goto(h, "create")
       \/ claim = 0 /\ Fault /\ claim' = ClaimTTL /\ Respond(h)
       \/ Fault /\ UNCHANGED claim /\ Respond(h)
       \/ claim # 0 /\ NoFault /\ UNCHANGED claim /\ Respond(h)
    /\ UNCHANGED <<session, creds, begun>>

(* The POST adds a passkey; customer-api is not told of a limit.           *)
CreatePasskeyCredential == creds' = creds + 1

(* A failure, or a reply that is lost, is a 503 and the claim stays.       *)
CreateCredential(h) ==
    /\ req[h].pc = "create"
    /\ \/ NoFault /\ CreatePasskeyCredential /\ Goto(h, "delete")
       \/ Fault /\ CreatePasskeyCredential /\ Respond(h)
       \/ Fault /\ UNCHANGED creds /\ Respond(h)
    /\ UNCHANGED <<session, claim, begun>>

(* DeleteWebAuthnRegistrationSession, whichever ceremony it belongs to by  *)
(* now; a failure is only logged.                                          *)
DeleteSession(h) ==
    /\ req[h].pc = "delete"
    /\ \/ MayFault /\ session' = NoSession
       \/ Fault /\ UNCHANGED session
    /\ Respond(h)
    /\ UNCHANGED <<claim, creds, begun>>

Crash(h) ==
    /\ req[h].pc # "idle"
    /\ Fault
    /\ Respond(h)
    /\ UNCHANGED <<session, claim, creds, begun>>

Next ==
    \/ Tick
    \/ \E h \in Handler :
          \/ RegisterBegin(h)
          \/ RegisterRefused(h)
          \/ StoreSession(h)
          \/ \E id \in 1..MaxSessions : RegisterComplete(h, id)
          \/ ClaimSession(h)
          \/ CreateCredential(h)
          \/ DeleteSession(h)
          \/ Crash(h)

Spec == Init /\ [][Next]_vars

-----------------------------------------------------------------------------
(* The type of every variable.  The session, and every request, is that of *)
(* a ceremony that was begun.                                              *)
TypeOK ==
    /\ session \in {NoSession} \cup [id : 1..begun, ttl : 1..SessionTTL]
    /\ claim \in 0..ClaimTTL
    /\ creds \in Nat
    /\ begun \in 0..MaxSessions
    /\ req \in [Handler -> Request]
    /\ \A h \in Handler : req[h].pc # "idle" => req[h].id \in 1..begun
    /\ faults \in 0..MaxFaults

(* docs/adr/002-passkeys.md:37 sets "Passkeys per user" to "Max 10".  The  *)
(* code compares once, at begin (passkeys_register.go:83), with a list of  *)
(* what customer-api has, never again at complete: a ceremony begun while  *)
(* another one completes, whose session is stored after the other's Delete *)
(* and which claims when the other's claim has expired, adds one passkey   *)
(* too many without any fault.                                             *)
AtMostMaxPasskeys == creds <= MaxPasskeys

(* How far the limit can be exceeded.  The claim keyed by the user keeps   *)
(* completions a claim apart, so however many ceremonies overlap and       *)
(* whatever fails, at most one that was begun in time is left to complete  *)
(* late.  Requests that take longer than LatencyAssumption allows can      *)
(* exceed it by more.                                                      *)
LimitExceededByAtMostOne == creds <= MaxPasskeys + 1
=============================================================================
