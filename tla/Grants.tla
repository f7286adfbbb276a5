------------------------------- MODULE Grants -------------------------------
(***************************************************************************)
(* What a token says and who gets it: the three grants of POST /oauth/token*)
(* (internal/api/oauth_token.go), GET /oauth/authorize, and the client     *)
(* registry behind them (internal/oauth/clients.go), which Watch replaces  *)
(* while requests are served.                                              *)
(*                                                                         *)
(* Handlers interleave at their Redis and lookup calls.  The denylists and *)
(* token lifetimes are in RefreshRotation: here a refresh may be refused   *)
(* for them at any point, and tokens do not expire.  An authorization code *)
(* has a remaining TTL in ticks, 0 when it is missing; unlike OTP codes and*)
(* passkey challenges it is not claimed before it is used.                 *)
(***************************************************************************)
EXTENDS Naturals, Sequences

CONSTANTS
    Handler,    \* goroutines that can be serving a request at the same time
    Client,     \* client ids
    User,       \* user ids
    UserId,     \* bound: what /oauth/authorize is given as user_id
    Nobody,     \* an absent azp or svc: claim
    Secret,     \* client secrets
    Scope,      \* the scopes IsValidScope knows
    Registry,   \* the versions of REGISTERED_CLIENTS, in upload order
    CodeTTL,    \* authCodeTTLSec
    MaxCodes,   \* bound: codes issued
    MaxGrants,  \* bound: grants other than refreshes
    MaxFaults   \* bound: failed calls and crashes

Offline  == "offline_access"
Svc      == "svc:"   \* some svc: scope, as /oauth/authorize may be asked for one
Verified == "passkey:verified"
Audience == {"service", "user"}

(* ClientRecord: "*" in scopes allows them all, redirect tells whether the *)
(* client has a registered redirect URI.                                   *)
Record == [secret : Secret, scopes : SUBSET (Scope \cup {"*"}),
           audiences : SUBSET Audience, redirect : {"yes", "no"}]

(* Client ids and user ids are strings alike: nothing keeps them apart, and*)
(* user_id may be either.  One that is neither is a user nobody bans.      *)
ASSUME NamesAssumption ==
    /\ UserId \subseteq Client \cup User
    /\ Nobody \notin Client \cup User
    /\ Scope \cap {Offline, Verified, Svc, "*"} = {}

ASSUME RegistryAssumption ==
    Registry \in Seq(UNION {[D -> Record] : D \in SUBSET Client}) \ {<<>>}

ASSUME BoundsAssumption ==
    /\ CodeTTL \in Nat \ {0}
    /\ MaxCodes \in Nat
    /\ MaxGrants \in Nat
    /\ MaxFaults \in Nat

VARIABLES
    loaded,  \* the version Registry.ptr points to
    entry,   \* authcode:<code>, by code
    issued,  \* how many codes have been issued
    banned,  \* the users in the banned-customers table
    tokens,  \* the tokens that reached a client
    req,     \* the request each handler is serving
    faults,  \* how many faults have happened
    grants,  \* history: the grants that ended in tokens; a client's with the
             \* registry version that allowed its scopes, a user's with 0
    kept     \* history: codes whose Delete failed

codes    == <<entry, issued, kept>>
vars     == <<loaded, codes, banned, tokens, req, faults, grants>>

-----------------------------------------------------------------------------
Code == 1..MaxCodes

(* The claims that matter here.  svc is the client whose svc: scope        *)
(* serviceScopes adds, and grant, which is history, the grant a token goes *)
(* back to.                                                                *)
Token == [kind : {"access", "refresh"}, sub : Client \cup User, aud : Audience,
          azp : Client \cup {Nobody}, scopes : SUBSET (Scope \cup {Offline, Verified, Svc}),
          svc : Client \cup {Nobody}, grant : 1..MaxGrants]

(* SignToken and SignRefreshToken.                                         *)
Access(sub, aud, scopes, svc, g) ==
    [kind |-> "access", sub |-> sub, aud |-> aud, azp |-> Nobody,
     scopes |-> scopes, svc |-> svc, grant |-> g]

Refresh(sub, aud, azp, scopes, g) ==
    [kind |-> "refresh", sub |-> sub, aud |-> aud, azp |-> azp,
     scopes |-> scopes, svc |-> Nobody, grant |-> g]

(* AuthCodeEntry and what is left of its TTL.                              *)
NoEntry == [ttl |-> 0, client |-> Nobody, user |-> Nobody, scopes |-> {}]

(* The pc of a request names the call the handler is about to make.  ver   *)
(* is the registry version a refresh copied the client's record from.  was *)
(* and spent are history: whether the user was banned, and the code        *)
(* exchanged, when the request arrived; a lookup that fails clears was.    *)
NoRequest ==
    [pc |-> "idle", client |-> Nobody, secret |-> Nobody, ver |-> 0, token |-> {},
     code |-> 0, entry |-> NoEntry, was |-> "clear", spent |-> "no"]

Goto(h, pc) == req' = [req EXCEPT ![h].pc = pc]
Respond(h)  == req' = [req EXCEPT ![h] = NoRequest]

Fault   == faults < MaxFaults /\ faults' = faults + 1
NoFault == UNCHANGED faults

Init ==
    /\ loaded = 1
    /\ entry = [c \in Code |-> NoEntry]
    /\ issued = 0
    /\ banned = {}
    /\ tokens = {}
    /\ req = [h \in Handler |-> NoRequest]
    /\ faults = 0
    /\ grants = <<>>
    /\ kept = {}

Tick ==
    /\ entry' = [c \in Code |->
          IF entry[c].ttl > 1 THEN [entry[c] EXCEPT !.ttl = @ - 1] ELSE NoEntry]
    /\ UNCHANGED <<loaded, issued, kept, banned, tokens, req, faults, grants>>

(* An operator adds the user to the banned-customers table.                *)
Ban(u) ==
    /\ u \notin banned
    /\ banned' = banned \cup {u}
    /\ UNCHANGED <<loaded, codes, tokens, req, faults, grants>>

(* The record expires or is deleted.  What a request promised about it     *)
(* (was) is void then.                                                     *)
BanLapses(u) ==
    /\ u \in banned
    /\ banned' = banned \ {u}
    /\ req' = [h \in Handler |->
          IF u \in {t.sub : t \in req[h].token} \cup {req[h].entry.user}
            THEN [req[h] EXCEPT !.was = "clear"] ELSE req[h]]
    /\ UNCHANGED <<loaded, codes, tokens, faults, grants>>

(* BannedCustomersClient.IsBanned, when the table answers.                 *)
IsBanned(s) == s \in banned

BanRecord(s) == IF IsBanned(s) THEN "banned" ELSE "clear"

-----------------------------------------------------------------------------
(* The client registry.                                                    *)

(* Registry.Reload by the callback of Watch: the whole map is replaced by  *)
(* one store of the pointer with what an operator has uploaded by then,    *)
(* which may skip versions.  A poll that fails changes nothing.            *)
Reload ==
    /\ loaded' \in (loaded + 1)..Len(Registry)
    /\ UNCHANGED <<codes, banned, tokens, req, faults, grants>>

(* Get.                                                                    *)
Registered(v, c) == c \in DOMAIN Registry[v]

ValidateAndGet(c, s) == Registered(loaded, c) /\ Registry[loaded][c].secret = s

HasScope(rec, scopes) ==
    /\ rec.scopes # {}
    /\ "*" \in rec.scopes \/ scopes \subseteq rec.scopes

-----------------------------------------------------------------------------
(* client_credentials: no call leaves the process, so the whole handler is *)
(* one step.  A client with one audience gets that; the refresh token is   *)
(* for komodo-apis:service whatever the record says.                       *)
ClientAudience(rec) ==
    IF \E a \in Audience : rec.audiences = {a}
      THEN CHOOSE a \in Audience : rec.audiences = {a} ELSE "service"

MayHave(c, scopes) == scopes # {} => HasScope(Registry[loaded][c], scopes)

ClientCredentials(c, s, want) ==
    LET scopes == want \ {Offline}
        g      == Len(grants) + 1
    IN  /\ g <= MaxGrants
        /\ ValidateAndGet(c, s)
        /\ MayHave(c, scopes)
        /\ grants' = Append(grants, [client |-> c, sub |-> c, scopes |-> scopes,
                                     ver |-> loaded, code |-> 0, spent |-> "no"])
        /\ tokens' = tokens
              \cup {Access(c, ClientAudience(Registry[loaded][c]), scopes,
                           IF scopes = {} THEN Nobody ELSE c, g)}
              \cup (IF Offline \in want THEN {Refresh(c, "service", c, want, g)} ELSE {})
        /\ UNCHANGED <<loaded, codes, banned, req, faults>>

(* Passkey login, in PasskeyLogin: the client was looked up when the       *)
(* ceremony began.                                                         *)
PasskeyTokens(c, u) ==
    LET g == Len(grants) + 1
    IN  /\ g <= MaxGrants
        /\ \E v \in 1..loaded : Registered(v, c)
        /\ grants' = Append(grants, [client |-> c, sub |-> u, scopes |-> {},
                                     ver |-> 0, code |-> 0, spent |-> "no"])
        /\ tokens' = tokens \cup {Access(u, "user", {Verified}, Nobody, g),
                                  Refresh(u, "user", c, {Offline}, g)}
        /\ UNCHANGED <<loaded, codes, banned, req, faults>>

-----------------------------------------------------------------------------
(* Mutant: the client a token was issued to is not compared.               *)
MayRefreshAnyClient(c, t) == Offline \in t.scopes

(* The claims of a token the refresh grant accepts from client c.          *)
MayRefresh(c, t) == Offline \in t.scopes /\ t.azp = c

(* handleRefreshToken, up to the revocation lookups: the client's record is*)
(* copied out of the registry.                                             *)
RefreshToken(h, c, s, t) ==
    /\ req[h].pc = "idle"
    /\ ValidateAndGet(c, s)
    /\ MayRefresh(c, t)
    /\ req' = [req EXCEPT ![h] =
          [NoRequest EXCEPT !.pc = "refreshBan", !.client = c, !.secret = s,
                            !.ver = loaded, !.token = {t}, !.was = BanRecord(t.sub)]]
    /\ UNCHANGED <<loaded, codes, banned, tokens, faults, grants>>

(* Mutant: the answer of the table is not used.                            *)
BanLookupIgnored(h, s, pc) == NoFault /\ Goto(h, pc)

(* isRefreshTokenUserBanned and the lookup of the exchange: the service    *)
(* token, GetUserByID, IsBanned.  Whichever fails, or does not know the    *)
(* subject, as a client that is no user, the request goes on.              *)
BanLookup(h, s, pc) ==
    \/ NoFault /\ IsBanned(s) /\ Respond(h)
    \/ NoFault /\ ~IsBanned(s) /\ Goto(h, pc)
    \/ Fault /\ req' = [req EXCEPT ![h].pc = pc, ![h].was = "clear"]

(* The scopes of a token with a svc: scope count as a service's, and the   *)
(* lookup is skipped.                                                      *)
RefreshCheckBan(h) ==
    /\ req[h].pc = "refreshBan"
    /\ \E t \in req[h].token :
          \/ Svc \notin t.scopes /\ BanLookup(h, t.sub, "refreshSign")
          \/ Svc \in t.scopes /\ NoFault /\ Goto(h, "refreshSign")
    /\ UNCHANGED <<loaded, codes, banned, tokens, grants>>

IsUserSession(t) == t.azp # Nobody /\ t.azp # t.sub

(* A service session is gated on the audiences of the client's record; an  *)
(* empty list stands for komodo-apis:service.                              *)
AudienceAllowed(rec, aud) ==
    aud \in (IF rec.audiences = {} THEN {"service"} ELSE rec.audiences)

(* Mutant: the gate looks the client up again.                             *)
RefreshRecordNow(h) ==
    IF Registered(loaded, req[h].client) THEN Registry[loaded][req[h].client]
    ELSE [secret |-> Nobody, scopes |-> {}, audiences |-> {}, redirect |-> "no"]

(* The record the request copied when it arrived.                          *)
RefreshRecord(h) == Registry[req[h].ver][req[h].client]

(* Mutant: the access token gets all the scopes of the client's record.    *)
RefreshScopesOfRecord(h, t) == RefreshRecord(h).scopes \ {"*"}

(* The scopes of the new access token.                                     *)
RefreshScopes(h, t) == IF IsUserSession(t) THEN {Verified} ELSE t.scopes \ {Offline}

(* The gate, then both tokens are signed; same subject, audience, client,  *)
(* scopes and family as the old refresh token.                             *)
RefreshSign(h) ==
    LET c == req[h].client
    IN  /\ req[h].pc = "refreshSign"
        /\ \E t \in req[h].token :
              /\ IsUserSession(t) \/ AudienceAllowed(RefreshRecord(h), t.aud)
              /\ tokens' = tokens \cup
                    {Access(t.sub, t.aud, RefreshScopes(h, t),
                            IF IsUserSession(t) THEN Nobody ELSE c, t.grant),
                     Refresh(t.sub, t.aud, c, t.scopes, t.grant)}
        /\ Respond(h)
        /\ UNCHANGED <<loaded, codes, banned, faults, grants>>

(* A denylist has the token, the audience is not allowed, signing fails.   *)
RefreshDenied(h) ==
    /\ req[h].pc \in {"refreshBan", "refreshSign"}
    /\ Respond(h)
    /\ UNCHANGED <<loaded, codes, banned, tokens, faults, grants>>

-----------------------------------------------------------------------------
(* Mutant: the entry lasts two lives.                                      *)
EntryTTLTwice == 2 * CodeTTL

EntryTTL == CodeTTL

(* OAuthAuthorizeHandler: the SetNX of a random code always claims it.  The*)
(* requested scope and user_id are stored as they are, and user_id may be  *)
(* the id of a client.                                                     *)
Authorize(c, u, want) ==
    /\ issued < MaxCodes
    /\ Registered(loaded, c)
    /\ Registry[loaded][c].redirect = "yes"
    /\ issued' = issued + 1
    /\ entry' = [entry EXCEPT ![issued + 1] =
          [ttl |-> EntryTTL, client |-> c, user |-> u, scopes |-> want]]
    /\ UNCHANGED <<loaded, kept, banned, tokens, req, faults, grants>>

Exchanged(c) == \E i \in DOMAIN grants : grants[i].code = c

(* handleAuthorizationCode up to the comparisons: the client is registered *)
(* and client_id, redirect_uri and the PKCE verifier agree with the entry. *)
Exchange(h, c, code) ==
    /\ req[h].pc = "idle"
    /\ Registered(loaded, c)
    /\ entry[code].ttl > 0
    /\ entry[code].client = c
    /\ req' = [req EXCEPT ![h] =
          [NoRequest EXCEPT !.pc = "delete", !.client = c, !.code = code,
                            !.entry = entry[code],
                            !.was = BanRecord(entry[code].user),
                            !.spent = IF Exchanged(code) THEN "yes" ELSE "no"]]
    /\ UNCHANGED <<loaded, codes, banned, tokens, faults, grants>>

(* Mutant: the code is not deleted.                                        *)
DeleteCodeForgotten(h) ==
    /\ req[h].pc = "delete"
    /\ Goto(h, "exchangeBan")
    /\ UNCHANGED <<loaded, codes, banned, tokens, faults, grants>>

(* DeleteAuthCode: a failure is only logged.                               *)
DeleteCode(h) ==
    LET c == req[h].code
    IN  /\ req[h].pc = "delete"
        /\ \/ NoFault /\ entry' = [entry EXCEPT ![c] = NoEntry] /\ UNCHANGED kept
           \/ Fault /\ UNCHANGED entry /\ kept' = kept \cup {c}
        /\ Goto(h, "exchangeBan")
        /\ UNCHANGED <<loaded, issued, banned, tokens, grants>>

ExchangeCheckBan(h) ==
    /\ req[h].pc = "exchangeBan"
    /\ BanLookup(h, req[h].entry.user, "exchangeSign")
    /\ UNCHANGED <<loaded, codes, banned, tokens, grants>>

ExchangeSign(h) ==
    LET e == req[h].entry
        g == Len(grants) + 1
    IN  /\ req[h].pc = "exchangeSign"
        /\ g <= MaxGrants
        /\ grants' = Append(grants, [client |-> e.client, sub |-> e.user,
                                     scopes |-> e.scopes, ver |-> 0,
                                     code |-> req[h].code, spent |-> req[h].spent])
        /\ tokens' = tokens \cup
              {Access(e.user, "user", e.scopes, Nobody, g),
               Refresh(e.user, "user", req[h].client, {Offline} \cup e.scopes, g)}
        /\ Respond(h)
        /\ UNCHANGED <<loaded, codes, banned, faults>>

(* A signing error is a 500; at the bound on grants the model has no other.*)
ExchangeSignFails(h) ==
    /\ req[h].pc = "exchangeSign"
    /\ Respond(h)
    /\ UNCHANGED <<loaded, codes, banned, tokens, faults, grants>>

-----------------------------------------------------------------------------
(* Every early return: bad credentials, an unknown client, a scope that is *)
(* not allowed, a token or code that is not this client's.                 *)
Refused ==
    /\ \E h \in Handler : req[h].pc = "idle"
    /\ UNCHANGED vars

Crash(h) ==
    /\ req[h].pc # "idle"
    /\ Fault
    /\ Respond(h)
    /\ UNCHANGED <<loaded, codes, banned, tokens, grants>>

Next ==
    \/ Tick
    \/ \E u \in User : Ban(u) \/ BanLapses(u)
    \/ Reload
    \/ \E c \in Client, s \in Secret, want \in SUBSET (Scope \cup {Offline}) :
          ClientCredentials(c, s, want)
    \/ \E c \in Client, u \in User : PasskeyTokens(c, u)
    \/ \E c \in Client, u \in UserId, want \in SUBSET (Scope \cup {Offline, Svc}) :
          Authorize(c, u, want)
    \/ Refused
    \/ \E h \in Handler :
          \/ \E c \in Client, s \in Secret, t \in tokens : RefreshToken(h, c, s, t)
          \/ RefreshCheckBan(h)
          \/ RefreshSign(h)
          \/ RefreshDenied(h)
          \/ \E c \in Client, code \in Code : Exchange(h, c, code)
          \/ DeleteCode(h)
          \/ ExchangeCheckBan(h)
          \/ ExchangeSign(h)
          \/ ExchangeSignFails(h)
          \/ Crash(h)

Spec == Init /\ [][Next]_vars

-----------------------------------------------------------------------------
(* The type of every variable.  Only codes that were issued have entries,  *)
(* and every token goes back to a grant.                                   *)
TypeOK ==
    /\ loaded \in DOMAIN Registry
    /\ \A c \in Code :
          /\ entry[c].ttl \in 0..CodeTTL
          /\ entry[c].ttl > 0 => /\ c <= issued
                                 /\ entry[c].client \in Client
                                 /\ entry[c].user \in Client \cup User
    /\ issued \in 0..MaxCodes
    /\ kept \in SUBSET (1..issued)
    /\ banned \in SUBSET User
    /\ tokens \in SUBSET Token
    /\ \A t \in tokens : t.grant \in DOMAIN grants
    /\ \A h \in Handler :
          /\ req[h].token \subseteq tokens
          /\ req[h].pc \in {"refreshBan", "refreshSign"} => req[h].ver \in 1..loaded
          /\ req[h].pc \in {"delete", "exchangeBan", "exchangeSign"}
                => req[h].entry.user \in Client \cup User /\ req[h].code \in 1..issued
    /\ faults \in 0..MaxFaults

(* What the Delete after the Get is worth: an exchange that arrives after  *)
(* the code was exchanged gets tokens only if the Delete of that code      *)
(* failed.  Exchanges that overlap are not covered.                        *)
LateExchangeRefused ==
    \A i \in DOMAIN grants : grants[i].spent = "yes" => grants[i].code \in kept

(* A user who is banned since the exchange or the refresh arrived gets no  *)
(* tokens from it unless the lookup failed in that very request: a ban     *)
(* ends a session at its next refresh, whichever grant opened it.  A       *)
(* session that was granted a svc: scope is not looked up.                 *)
BanStopsTokens ==
    \A h \in Handler :
        (req[h].pc \in {"refreshSign", "exchangeSign"} /\ req[h].was = "banned")
            => \E t \in req[h].token : Svc \in grants[t.grant].scopes

(* However often a session is refreshed, and whichever clients present its *)
(* tokens, its subject stays, its refresh tokens stay with the client that *)
(* opened it, and a login or a code never leads to another audience than   *)
(* user.  The svc: scope of a client is added for that client and in       *)
(* sessions whose subject is its own id: those of client_credentials and   *)
(* those of a code authorised with the client's id as user_id, which a     *)
(* refresh takes for a service's.  Only refresh tokens are refreshed: the  *)
(* scope offline_access alone does not tell them, the access token of an   *)
(* authorization code carries it when the client asked for it.             *)
SessionStaysWithItsClient ==
    /\ \A h \in Handler : \A t \in req[h].token : t.kind = "refresh"
    /\ \A t \in tokens :
          LET g == grants[t.grant]
          IN  /\ t.sub = g.sub
              /\ t.kind = "refresh" => t.azp = g.client
              /\ g.ver = 0 => t.aud = "user"
              /\ t.svc # Nobody => t.svc = g.client /\ g.sub = g.client

(* No refresh widens a session: offline_access apart, every token has the  *)
(* scopes of its grant or, in a session that a login or a code opened, is  *)
(* an access token with passkey:verified alone.  What client_credentials   *)
(* granted, the registry allowed then.  What a code granted nobody did: a  *)
(* refresh drops it from the access token, except where the subject is the *)
(* client itself, whose refreshes sign it again.                           *)
ScopesComeFromTheGrant ==
    \A t \in tokens :
        LET g == grants[t.grant]
        IN  /\ \/ t.scopes \ {Offline} = g.scopes \ {Offline}
               \/ g.ver = 0 /\ t.kind = "access" /\ t.scopes = {Verified}
            /\ g.ver # 0 /\ g.scopes # {} => HasScope(Registry[g.ver][g.client], g.scopes)

(* A service refresh that ends in tokens was allowed by one version of the *)
(* registry as a whole, one that was loaded while it was served: a reload  *)
(* in between never pairs the secret of one version with the audiences of  *)
(* another.                                                                *)
RefreshFollowsOneVersion ==
    [][\A h \in Handler :
          (req[h].pc = "refreshSign" /\ tokens' # tokens /\ req'[h].pc = "idle")
              => \A t \in req[h].token :
                    IsUserSession(t) \/ \E v \in req[h].ver..loaded :
                        /\ Registered(v, req[h].client)
                        /\ Registry[v][req[h].client].secret = req[h].secret
                        /\ AudienceAllowed(Registry[v][req[h].client], t.aud)]_vars
=============================================================================
