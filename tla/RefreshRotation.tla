--------------------------- MODULE RefreshRotation ---------------------------
(***************************************************************************)
(* The life of a JWT in komodo-auth-api after it is signed: the            *)
(* refresh_token grant (internal/api/oauth_token.go), /oauth/revoke,       *)
(* /oauth/introspect, the private /validate, and the two Redis denylists   *)
(* behind them (internal/db/tokens.go): revoked:jti:<jti> and              *)
(* revoked_family:<family_id>.                                             *)
(*                                                                         *)
(* A handler is a net/http goroutine.  Handlers interleave at their Redis  *)
(* calls, so every call is a step of its own; what a handler does between  *)
(* two calls is local to it and belongs to the step before.                *)
(*                                                                         *)
(* Time is counted in ticks, Second ticks to the second: JWT expiries and  *)
(* Redis TTLs are whole seconds, time.Until is not.  A Redis entry is      *)
(* represented by the instant it expires (0 when never stored), so it is   *)
(* present as long as now is before that instant.                          *)
(***************************************************************************)
EXTENDS Integers

CONSTANTS
    Handler,      \* goroutines that can be serving a request at the same time
    Client,       \* registered OAuth clients
    User,         \* subjects that are not registered clients
    Nobody,       \* the empty string of a sub or azp claim
    Restricted,   \* the clients and audiences that AllowedAudiences lacks
    PinnedAud,    \* JWT_AUDIENCE, the one audience /validate accepts
    RefreshTTL,   \* refreshTokenTTL, in seconds
    AccessTTL,    \* accessTokenTTL, in seconds
    Second,       \* ticks in a second
    SlowRequests, \* whether time may pass while a request is served
    MaxTokens,    \* bound: tokens ever signed
    MaxIssued,    \* bound: of these, the last one that is not from a refresh
    MaxTime,      \* bound: the last instant
    MaxFaults     \* bound: Redis errors, signing errors and crashes

Audience == {"user", "service"}  \* komodo-apis:user, komodo-apis:service

ASSUME SetsAssumption ==
    /\ Restricted \subseteq Client \X Audience
    /\ Client \cap User = {}
    /\ Nobody \notin Client \cup User
    /\ PinnedAud \in Audience

ASSUME TimeAssumption ==
    /\ RefreshTTL \in Nat \ {0}
    /\ AccessTTL \in Nat \ {0}
    /\ Second \in Nat \ {0}
    /\ SlowRequests \in BOOLEAN

ASSUME BoundsAssumption ==
    /\ MaxTokens \in Nat
    /\ MaxIssued \in 0..MaxTokens
    /\ MaxTime \in Nat
    /\ MaxFaults \in Nat

VARIABLES
    now,            \* the clock, shared by the service and Redis
    minted,         \* how many tokens have been signed
    tok,            \* the claims of each token, by jti
    held,           \* the tokens that reached a client
    revoked,        \* revoked:jti:<jti>, as expiry instants
    revokedFamily,  \* revoked_family:<family_id>, as expiry instants
    req,            \* the request each handler is serving
    faults,         \* how many faults have happened
    mayFork         \* history: the families in which a refresh was let through
                    \* beside or after another one of the same token, or the
                    \* used token could not be denied

vars == <<now, minted, tok, held, revoked, revokedFamily, req, faults, mayFork>>

-----------------------------------------------------------------------------
(* A jti is a fresh UUID; the model numbers tokens in signing order.  A    *)
(* family_id is a fresh UUID too; the model uses the jti of the family's   *)
(* first token, and 0 for the empty claim of an access token.              *)
Jti    == 1..MaxTokens
Family == 0..MaxTokens

Token == [family  : Family,
          sub     : Client \cup User \cup {Nobody},
          azp     : Client \cup {Nobody},
          aud     : Audience,
          exp     : Nat,
          kind    : {"access", "refresh"}]  \* refresh: scopes have offline_access

BlankToken ==
    [family |-> 0, sub |-> Nobody, azp |-> Nobody, aud |-> "user", exp |-> 0,
     kind |-> "access"]

(* The pc of a request names the call the handler is about to make.        *)
Pc == {"idle", "isRevoked", "storeFamily", "isFamilyRevoked", "gate", "sign",
       "rotate", "storeRevoked", "inspect"}

(* deniedBy is history: the denylists that had the token, or its family,   *)
(* at the instant the request arrived.                                     *)
Request == [pc : Pc, jti : Family, new : Family,
            deniedBy : SUBSET {"jti", "family"}, res : {"no", "yes"}]

NoRequest == [pc |-> "idle", jti |-> 0, new |-> 0, deniedBy |-> {}, res |-> "no"]

-----------------------------------------------------------------------------
(* jwt.NumericDate drops the fraction of the second.                       *)
ExpiryOf(ttl) == ((now \div Second) + ttl) * Second

(* Mutant: half of the remaining life is stored.                           *)
StoreTTLHalved(remaining) == (remaining \div (2 * Second)) * Second

(* max(int64(remaining.Seconds()), 1), as the ticks Redis keeps the key.   *)
StoreTTL(remaining) ==
    IF remaining \div Second >= 1 THEN (remaining \div Second) * Second
                                  ELSE Second

Remaining(j) == tok[j].exp - now

(* ParseClaims: the signature verifies and now is before exp.              *)
Parses(j) == now < tok[j].exp

IsRevoked(j)       == now < revoked[j]
IsFamilyRevoked(f) == f # 0 /\ now < revokedFamily[f]

DeniedBy(j) ==
    {d \in {"jti", "family"} :
        IF d = "jti" THEN IsRevoked(j) ELSE IsFamilyRevoked(tok[j].family)}

(* A Redis or signing call that fails, one that does not, and one that     *)
(* takes effect whether or not its reply is lost.                          *)
Fault    == faults < MaxFaults /\ faults' = faults + 1
NoFault  == UNCHANGED faults
MayFault == Fault \/ NoFault

Init ==
    /\ now = 0
    /\ minted = 0
    /\ tok = [j \in Jti |-> BlankToken]
    /\ held = {}
    /\ revoked = [j \in Jti |-> 0]
    /\ revokedFamily = [j \in Jti |-> 0]
    /\ req = [h \in Handler |-> NoRequest]
    /\ faults = 0
    /\ mayFork = {}

Tick ==
    /\ now < MaxTime
    /\ SlowRequests \/ \A h \in Handler : req[h].pc = "idle"
    /\ now' = now + 1
    /\ UNCHANGED <<minted, tok, held, revoked, revokedFamily, req, faults, mayFork>>

-----------------------------------------------------------------------------
(* Issuance: client_credentials (sub is the client), OTP and passkey login *)
(* (sub is a user) and authorization_code (sub is whatever user_id the     *)
(* authorization named, a client id perhaps).  Only a client's own token   *)
(* can have another audience than komodo-apis:user.  A refresh token opens *)
(* a family and is bound to the client by azp; an access token has neither.*)
IssueToken(c, s, aud, kind) ==
    /\ minted < MaxIssued
    /\ aud = "user" \/ s = c
    /\ minted' = minted + 1
    /\ held' = held \cup {minted + 1}
    /\ tok' = [tok EXCEPT ![minted + 1] =
                  [family |-> IF kind = "refresh" THEN minted + 1 ELSE 0,
                   sub    |-> s,
                   azp    |-> IF kind = "refresh" THEN c ELSE Nobody,
                   aud    |-> aud,
                   exp    |-> ExpiryOf(IF kind = "refresh" THEN RefreshTTL
                                                           ELSE AccessTTL),
                   kind   |-> kind]]
    /\ UNCHANGED <<now, revoked, revokedFamily, req, faults, mayFork>>

-----------------------------------------------------------------------------
(* A request arrives.  The handler authenticates the client and parses the *)
(* token before its first Redis call.                                      *)
Begin(h, j, pc) ==
    /\ req[h].pc = "idle"
    /\ j \in held
    /\ req' = [req EXCEPT ![h] =
                  [pc |-> pc, jti |-> j, new |-> 0,
                   deniedBy |-> DeniedBy(j), res |-> "no"]]
    /\ UNCHANGED <<now, minted, tok, held, revoked, revokedFamily, faults, mayFork>>

Goto(h, pc) == req' = [req EXCEPT ![h].pc = pc]

(* The request is over.  All that is left of it is the answer: "yes" for   *)
(* granted, revoked or active, "no" for every refusal and error.           *)
Respond(h, res) == req' = [req EXCEPT ![h] = [NoRequest EXCEPT !.res = res]]

MayRefresh(c, j) == Parses(j) /\ tok[j].kind = "refresh" /\ tok[j].azp = c

RefreshToken(h, c, j) == MayRefresh(c, j) /\ Begin(h, j, "isRevoked")

(* The early returns of the refresh grant: expired token, a token without  *)
(* offline_access, another client's token.                                 *)
RefreshRefused(h, c, j) ==
    /\ req[h].pc = "idle"
    /\ j \in held
    /\ ~MayRefresh(c, j)
    /\ UNCHANGED vars

(* The steps of the refresh grant after refreshRevocationDenied let a      *)
(* request through.                                                        *)
PastJtiCheck    == {"isFamilyRevoked", "gate", "sign", "rotate"}
PastFamilyCheck == {"gate", "sign", "rotate"}

(* History: letting h through the lookup of its jti is not the only use of *)
(* the token.  Another handler was let through with it and is not done, or *)
(* its denylist entry has lapsed, or it has run out since it was parsed.   *)
AnotherUse(h) ==
    LET j == req[h].jti
    IN  \/ \E g \in Handler \ {h} : req[g].pc \in PastJtiCheck /\ req[g].jti = j
        \/ revoked[j] # 0
        \/ ~Parses(j)

(* Mutant: a Redis error lets the token by.                                *)
RefreshCheckRevokedFailsOpen(h) ==
    /\ req[h].pc = "isRevoked"
    /\ \/ Fault /\ Goto(h, "isFamilyRevoked")
       \/ NoFault /\ Goto(h, IF IsRevoked(req[h].jti) THEN "storeFamily"
                                                      ELSE "isFamilyRevoked")
    /\ UNCHANGED <<now, minted, tok, held, revoked, revokedFamily, mayFork>>

(* Mutant: a Redis error counts as reuse.                                  *)
RefreshCheckRevokedErrorIsReuse(h) ==
    /\ req[h].pc = "isRevoked"
    /\ \/ Fault /\ Goto(h, "storeFamily")
       \/ NoFault /\ Goto(h, IF IsRevoked(req[h].jti) THEN "storeFamily"
                                                      ELSE "isFamilyRevoked")
    /\ UNCHANGED <<now, minted, tok, held, revoked, revokedFamily, mayFork>>

(* refreshRevocationDenied, first Redis call: an error denies, a denied    *)
(* jti is reuse.                                                           *)
RefreshCheckRevoked(h) ==
    /\ req[h].pc = "isRevoked"
    /\ \/ Fault /\ Respond(h, "no") /\ UNCHANGED mayFork
       \/ NoFault /\ IsRevoked(req[h].jti) /\ Goto(h, "storeFamily") /\ UNCHANGED mayFork
       \/ /\ NoFault
          /\ ~IsRevoked(req[h].jti)
          /\ Goto(h, "isFamilyRevoked")
          /\ mayFork' = IF AnotherUse(h) THEN mayFork \cup {tok[req[h].jti].family}
                                         ELSE mayFork
    /\ UNCHANGED <<now, minted, tok, held, revoked, revokedFamily>>

(* Reuse: the family is denied for what is left of the REUSED token, and   *)
(* the request is denied whether or not the store succeeded.               *)
RefreshStoreFamily(h) ==
    LET j == req[h].jti
        f == tok[j].family
    IN  /\ req[h].pc = "storeFamily"
        /\ Respond(h, "no")
        /\ \/ /\ f # 0 /\ Remaining(j) > 0
              /\ MayFault
              /\ revokedFamily' =
                   [revokedFamily EXCEPT ![f] = now + StoreTTL(Remaining(j))]
           \/ /\ f # 0 /\ Remaining(j) > 0
              /\ Fault
              /\ UNCHANGED revokedFamily
           \/ /\ f = 0 \/ Remaining(j) <= 0
              /\ NoFault
              /\ UNCHANGED revokedFamily
        /\ UNCHANGED <<now, minted, tok, held, revoked, mayFork>>

(* Mutant: a Redis error lets the token by.                                *)
RefreshCheckFamilyFailsOpen(h) ==
    /\ req[h].pc = "isFamilyRevoked"
    /\ \/ Fault /\ Goto(h, "gate")
       \/ /\ NoFault
          /\ IF IsFamilyRevoked(tok[req[h].jti].family)
               THEN Respond(h, "no")
               ELSE Goto(h, "gate")
    /\ UNCHANGED <<now, minted, tok, held, revoked, revokedFamily, mayFork>>

(* The second Redis call, for a token with a family: an error denies.      *)
RefreshCheckFamily(h) ==
    /\ req[h].pc = "isFamilyRevoked"
    /\ \/ Fault /\ Respond(h, "no")
       \/ /\ NoFault
          /\ IF IsFamilyRevoked(tok[req[h].jti].family)
               THEN Respond(h, "no")
               ELSE Goto(h, "gate")
    /\ UNCHANGED <<now, minted, tok, held, revoked, revokedFamily, mayFork>>

(* The ban lookup (customer-api, then DynamoDB) answers anything for a     *)
(* user and lets the request through when it fails; a session whose        *)
(* subject is the client itself is gated on the token's audience.          *)
RefreshGate(h) ==
    LET t     == tok[req[h].jti]
        gated == t.azp = t.sub /\ <<t.azp, t.aud>> \in Restricted
    IN  /\ req[h].pc = "gate"
        /\ \/ t.sub \in User /\ Respond(h, "no")
           \/ gated /\ Respond(h, "no")
           \/ ~gated /\ Goto(h, "sign")
        /\ UNCHANGED <<now, minted, tok, held, revoked, revokedFamily, faults, mayFork>>

(* Mutant: the new token's jti is not taken from the fresh ones.           *)
RefreshSignReusesJti(h) ==
    LET old == tok[req[h].jti]
    IN  /\ req[h].pc = "sign"
        /\ minted < MaxTokens
        /\ tok' = [tok EXCEPT ![minted + 1] = [old EXCEPT !.exp = ExpiryOf(RefreshTTL)]]
        /\ req' = [req EXCEPT ![h].pc = "rotate", ![h].new = minted + 1]
        /\ UNCHANGED <<now, minted, held, revoked, revokedFamily, faults, mayFork>>

(* SignRefreshToken: same family, subject, client and audience, new jti    *)
(* and expiry.                                                             *)
(* The token exists but no client has it yet.  Signing can fail, and at    *)
(* the bound on tokens that is all the model lets it do.  The access token *)
(* that goes with it depends on nothing here: it is an IssueToken.         *)
RefreshSign(h) ==
    LET old == tok[req[h].jti]
    IN  /\ req[h].pc = "sign"
        /\ \/ /\ Fault \/ (minted = MaxTokens /\ NoFault)
              /\ Respond(h, "no")
              /\ UNCHANGED <<minted, tok>>
           \/ /\ minted < MaxTokens
              /\ NoFault
              /\ minted' = minted + 1
              /\ tok' = [tok EXCEPT ![minted + 1] =
                    [old EXCEPT !.exp = ExpiryOf(RefreshTTL),
                                !.family = IF @ = 0 THEN minted + 1 ELSE @]]
              /\ req' = [req EXCEPT ![h].pc = "rotate", ![h].new = minted + 1]
        /\ UNCHANGED <<now, held, revoked, revokedFamily, mayFork>>

(* Mutant: the used token is not denied.                                   *)
RefreshRotateForgets(h) ==
    /\ req[h].pc = "rotate"
    /\ held' = held \cup {req[h].new}
    /\ Respond(h, "yes")
    /\ UNCHANGED <<now, minted, tok, revoked, revokedFamily, faults, mayFork>>

(* StoreRevoked of the token just used, when it still has time to live; a  *)
(* Redis error is only logged.  Then the client gets the new token.        *)
RefreshRotate(h) ==
    LET j == req[h].jti
    IN  /\ req[h].pc = "rotate"
        /\ \/ /\ Remaining(j) > 0
              /\ MayFault
              /\ revoked' = [revoked EXCEPT ![j] = now + StoreTTL(Remaining(j))]
              /\ UNCHANGED mayFork
           \/ /\ Remaining(j) > 0
              /\ Fault
              /\ mayFork' = mayFork \cup {tok[j].family}
              /\ UNCHANGED revoked
           \/ Remaining(j) <= 0 /\ NoFault /\ UNCHANGED <<revoked, mayFork>>
        /\ held' = held \cup {req[h].new}
        /\ Respond(h, "yes")
        /\ UNCHANGED <<now, minted, tok, revokedFamily>>

-----------------------------------------------------------------------------
(* OAuthRevokeHandler: a client revokes its own service tokens, or the     *)
(* user tokens that are bound to it or to nobody.                          *)
MayRevoke(c, j) ==
    /\ Parses(j)
    /\ IF tok[j].sub \in Client THEN tok[j].sub = c
                                ELSE tok[j].azp \in {Nobody, c}

Revoke(h, c, j) == MayRevoke(c, j) /\ Begin(h, j, "storeRevoked")

(* 200 for a token that does not parse, 403 for another client's token.    *)
RevokeRefused(h, c, j) ==
    /\ req[h].pc = "idle"
    /\ j \in held
    /\ ~MayRevoke(c, j)
    /\ UNCHANGED vars

(* Mutant: a Redis error is only logged.                                   *)
RevokeStoreIgnoresError(h) ==
    LET j == req[h].jti
    IN  /\ req[h].pc = "storeRevoked"
        /\ Respond(h, "yes")
        /\ \/ /\ Remaining(j) > 0
              /\ NoFault
              /\ revoked' = [revoked EXCEPT ![j] = now + StoreTTL(Remaining(j))]
           \/ Fault /\ UNCHANGED revoked
        /\ UNCHANGED <<now, minted, tok, held, revokedFamily, mayFork>>

(* The denylist write: a failure is a 500, an expired token a 200.         *)
RevokeStore(h) ==
    LET j == req[h].jti
    IN  /\ req[h].pc = "storeRevoked"
        /\ \/ /\ Remaining(j) > 0
              /\ NoFault
              /\ revoked' = [revoked EXCEPT ![j] = now + StoreTTL(Remaining(j))]
              /\ Respond(h, "yes")
           \/ /\ Remaining(j) > 0
              /\ Fault
              /\ revoked' \in {revoked, [revoked EXCEPT ![j] = now + StoreTTL(Remaining(j))]}
              /\ Respond(h, "no")
           \/ /\ Remaining(j) <= 0
              /\ NoFault
              /\ Respond(h, "yes")
              /\ UNCHANGED revoked
        /\ UNCHANGED <<now, minted, tok, held, revokedFamily, mayFork>>

-----------------------------------------------------------------------------
(* OAuthIntrospectHandler and ValidateTokenHandler: parse, then one jti    *)
(* lookup, answering active when Redis fails.  /validate also pins the     *)
(* audience.                                                               *)
Introspect(h, j) == Parses(j) /\ Begin(h, j, "inspect")

Validate(h, j) == Parses(j) /\ tok[j].aud = PinnedAud /\ Begin(h, j, "inspect")

(* Mutant: the answer of the denylist is not used.                         *)
InspectCheckRevokedIgnored(h) ==
    /\ req[h].pc = "inspect"
    /\ NoFault
    /\ Respond(h, "yes")
    /\ UNCHANGED <<now, minted, tok, held, revoked, revokedFamily, mayFork>>

InspectCheckRevoked(h) ==
    /\ req[h].pc = "inspect"
    /\ \/ Fault /\ Respond(h, "yes")
       \/ NoFault /\ Respond(h, IF IsRevoked(req[h].jti) THEN "no" ELSE "yes")
    /\ UNCHANGED <<now, minted, tok, held, revoked, revokedFamily, mayFork>>

-----------------------------------------------------------------------------
(* The process dies, or the client's connection does and its context is    *)
(* cancelled: nothing more of the request happens.                         *)
Crash(h) ==
    /\ req[h].pc # "idle"
    /\ Fault
    /\ Respond(h, "no")
    /\ UNCHANGED <<now, minted, tok, held, revoked, revokedFamily, mayFork>>

HandlerStep(h) ==
    \/ RefreshCheckRevoked(h)
    \/ RefreshStoreFamily(h)
    \/ RefreshCheckFamily(h)
    \/ RefreshGate(h)
    \/ RefreshSign(h)
    \/ RefreshRotate(h)
    \/ RevokeStore(h)
    \/ InspectCheckRevoked(h)

Next ==
    \/ Tick
    \/ \E c \in Client, s \in Client \cup User, aud \in Audience,
          kind \in {"access", "refresh"} : IssueToken(c, s, aud, kind)
    \/ \E h \in Handler, c \in Client, j \in Jti :
          \/ RefreshToken(h, c, j)
          \/ RefreshRefused(h, c, j)
          \/ Revoke(h, c, j)
          \/ RevokeRefused(h, c, j)
    \/ \E h \in Handler, j \in Jti :
          \/ Introspect(h, j)
          \/ Validate(h, j)
    \/ \E h \in Handler : HandlerStep(h) \/ Crash(h)

Spec == Init /\ [][Next]_vars

-----------------------------------------------------------------------------
(* The type of every variable.  A client holds, and a request in progress  *)
(* is about, only tokens that were signed.                                 *)
TypeOK ==
    /\ now \in 0..MaxTime
    /\ minted \in 0..MaxTokens
    /\ tok \in [Jti -> Token]
    /\ held \in SUBSET (1..minted)
    /\ revoked \in [Jti -> Nat]
    /\ revokedFamily \in [Jti -> Nat]
    /\ req \in [Handler -> Request]
    /\ faults \in 0..MaxFaults
    /\ mayFork \subseteq Family
    /\ \A h \in Handler :
          /\ req[h].jti \in 0..minted
          /\ req[h].new \in 0..minted
          /\ req[h].pc # "idle" => req[h].jti # 0
          /\ req[h].pc = "rotate" => req[h].new # 0

(* The denylist entry of a token outlives the token, to within the second  *)
(* StoreRevoked truncates away: however often and whenever rotation and    *)
(* /oauth/revoke store it, its TTL is never more than a second short.      *)
DenylistCoversToken ==
    \A j \in Jti : revoked[j] # 0 => revoked[j] + Second > tok[j].exp

(* A refresh token that was in the jti denylist when the request arrived   *)
(* never gets past refreshRevocationDenied, whatever other handlers, Redis *)
(* errors and crashes do meanwhile, except in the token's last second.     *)
DeniedTokenNeverRefreshes ==
    \A h \in Handler :
        ("jti" \in req[h].deniedBy /\ req[h].pc \in PastJtiCheck)
            => now + Second > tok[req[h].jti].exp

(* What a family revocation is worth: a member that was in a revoked       *)
(* family when the request arrived gets past the family check only when    *)
(* some denylisted (reused) member has itself run out.  The revocation may *)
(* therefore end long before the presented member does.                    *)
FamilyBlockLastsAsLongAsReused ==
    \A h \in Handler :
        ("family" \in req[h].deniedBy /\ req[h].pc \in PastFamilyCheck)
            => \E k \in 1..minted :
                  /\ tok[k].family = tok[req[h].jti].family
                  /\ revoked[k] # 0
                  /\ now + Second > tok[k].exp

(* A family is revoked only over a member that was denied before, by       *)
(* rotation or /oauth/revoke, and at least until the last second of that   *)
(* member: Redis errors and requests that overlap never revoke the family  *)
(* of tokens none of which was denied.                                     *)
FamilyEntryIsBacked ==
    \A f \in Jti : revokedFamily[f] # 0 =>
        \E k \in 1..minted : /\ tok[k].family = f
                             /\ revoked[k] # 0
                             /\ revokedFamily[f] + Second > tok[k].exp

(* A 200 of /oauth/revoke for a token that is still alive means the        *)
(* denylist has it: the Redis error path is a 500, and a crash no answer.  *)
RevokeAnswerIsTrue ==
    [][\A h \in Handler :
          (req[h].pc = "storeRevoked" /\ req'[h].res = "yes")
              => revoked'[req[h].jti] # 0 \/ now >= tok[req[h].jti].exp]_vars

(* A token the refresh grant would accept from its client right now.       *)
Refreshable(j) ==
    /\ j \in held
    /\ Parses(j) /\ tok[j].kind = "refresh"
    /\ ~IsRevoked(j) /\ ~IsFamilyRevoked(tok[j].family)

(* Rotation on every use: a family has two refresh tokens that can both be *)
(* used only if refreshes of one of its tokens overlapped, came in the     *)
(* last second of its life or outlasted it, or a StoreRevoked failed.      *)
(* Otherwise all but the youngest were denied, and stay refused until      *)
(* their last second.                                                      *)
NoForkWithoutCause ==
    \A j, k \in held :
        (/\ j < k
         /\ Refreshable(j) /\ Refreshable(k)
         /\ tok[j].family = tok[k].family
         /\ tok[j].family \notin mayFork)
            => revoked[j] # 0 /\ now + Second > tok[j].exp

(* A token revoked before an introspect or validate request arrived is     *)
(* reported active only when Redis failed during that very request (both   *)
(* fail open) or in the token's last second.                               *)
InspectHonoursDenylist ==
    [][\A h \in Handler :
          (req[h].pc = "inspect" /\ "jti" \in req[h].deniedBy /\ req'[h].res = "yes")
              => faults' = faults + 1 \/ now + Second > tok[req[h].jti].exp]_vars

(* Reuse revokes the family for good: once a revocation of the family was  *)
(* stored, no member gets past the family check any more.                  *)
RevokedFamilyStaysRevoked ==
    [][\A h \in Handler :
          (req[h].pc = "isFamilyRevoked" /\ req'[h].pc = "gate")
              => revokedFamily[tok[req[h].jti].family] = 0]_vars
=============================================================================
