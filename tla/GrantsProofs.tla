---------------------------- MODULE GrantsProofs ----------------------------
(***************************************************************************)
(* Proofs about Grants, for any clients, users, scopes and versions of the *)
(* registry and any number of handlers, codes, grants and faults: what a   *)
(* token says never leaves what its grant said, a ban is only missed when  *)
(* the lookup failed, and a code that was exchanged is refused later       *)
(* unless its Delete failed.                                               *)
(***************************************************************************)
EXTENDS Grants, TLAPS

(* A code in the store, a request and a grant.                             *)
Entry == [ttl : 0..CodeTTL, client : Client \cup {Nobody}, user : Client \cup User \cup {Nobody},
          scopes : SUBSET (Scope \cup {Offline, Svc})]

Refreshing == {"refreshBan", "refreshSign"}
Exchanging == {"delete", "exchangeBan", "exchangeSign"}

Request == [pc : {"idle"} \cup Refreshing \cup Exchanging,
            client : Client \cup {Nobody}, secret : Secret \cup {Nobody}, ver : Nat,
            token : SUBSET Token, code : Nat, entry : Entry,
            was : {"clear", "banned"}, spent : {"yes", "no"}]

Grant == [client : Client, sub : Client \cup User,
          scopes : SUBSET (Scope \cup {Offline, Svc}),
          ver : Nat, code : Nat, spent : {"yes", "no"}]

(* TypeOK says nothing of the requests that refresh, nor of the grants.    *)
ShapeInv ==
    /\ entry \in [Code -> Entry]
    /\ req \in [Handler -> Request]
    /\ grants \in Seq(Grant)
    /\ Len(grants) <= MaxGrants

(* A grant with a version is a client's to itself, with scopes that this   *)
(* version of the registry allowed; a code was issued.                     *)
GrantInv ==
    \A i \in DOMAIN grants :
        /\ grants[i].ver # 0 =>
              /\ grants[i].sub = grants[i].client
              /\ grants[i].scopes # {} =>
                    HasScope(Registry[grants[i].ver][grants[i].client], grants[i].scopes)
        /\ grants[i].code <= issued

(* What a token says is what the grant it goes back to says.               *)
TokenOK(t, g) ==
    /\ t.sub = g.sub
    /\ t.kind = "refresh" => t.azp = g.client
    /\ t.kind = "access" => t.azp = Nobody
    /\ g.ver = 0 => t.aud = "user"
    /\ t.svc # Nobody => t.svc = g.client /\ g.sub = g.client
    /\ \/ t.scopes \ {Offline} = g.scopes \ {Offline}
       \/ g.ver = 0 /\ t.kind = "access" /\ t.scopes = {Verified}

TokenInv == \A t \in tokens : TokenOK(t, grants[t.grant])

(* A refresh has one token, a refresh token of the client that was let in  *)
(* by the version of the registry it remembers.                            *)
RefreshOK(r) ==
    /\ r.client \in Client
    /\ r.ver \in 1..loaded
    /\ Registered(r.ver, r.client)
    /\ Registry[r.ver][r.client].secret = r.secret
    /\ \A t \in r.token : t.kind = "refresh" /\ t.azp = r.client
    /\ \A t, u \in r.token : t = u

(* An exchange has the client and the user of its code, and can only be    *)
(* one of a spent code if that was kept.                                   *)
ExchangeOK(r) ==
    /\ r.client \in Client /\ r.entry.client = r.client
    /\ r.entry.user \in Client \cup User
    /\ r.token = {}
    /\ r.code \in 1..issued
    /\ r.spent = "yes" => r.code \in kept

(* The subject of a request that remembers a ban is still banned.          *)
WasOK(r) ==
    r.was = "banned" =>
        /\ \A t \in r.token : t.sub \in banned
        /\ r.pc \in Exchanging => r.entry.user \in banned

RequestOK(h) ==
    /\ req[h].pc = "idle" => req[h].token = {}
    /\ req[h].pc \in Refreshing => RefreshOK(req[h])
    /\ req[h].pc \in Exchanging => ExchangeOK(req[h])
    /\ WasOK(req[h])

RequestInv == \A h \in Handler : RequestOK(h)

(* The codes whose entry some exchange has tried to delete.                *)
Deleted ==
    {c \in Code : \/ Exchanged(c)
                  \/ \E h \in Handler : req[h].pc \in {"exchangeBan", "exchangeSign"} /\ req[h].code = c}

CodeInv == \A c \in Deleted : c \notin kept => entry[c].ttl = 0

IInv ==
    ShapeInv /\ TypeOK /\ GrantInv /\ TokenInv /\ RequestInv /\ CodeInv
      /\ LateExchangeRefused /\ BanStopsTokens

-----------------------------------------------------------------------------
(* Facts about sequences.                                                  *)
LEMMA SeqElement ==
    ASSUME NEW S, NEW s \in Seq(S), NEW i \in DOMAIN s
    PROVE  s[i] \in S
  OBVIOUS

LEMMA AppendFacts ==
    ASSUME NEW S, NEW s \in Seq(S), NEW e \in S
    PROVE  /\ Append(s, e) \in Seq(S)
           /\ Len(Append(s, e)) = Len(s) + 1
           /\ DOMAIN Append(s, e) = DOMAIN s \cup {Len(s) + 1}
           /\ Len(s) + 1 \notin DOMAIN s
           /\ \A i \in DOMAIN s : Append(s, e)[i] = s[i]
           /\ Append(s, e)[Len(s) + 1] = e
  OBVIOUS

LEMMA RegistryDomain ==
    /\ Len(Registry) \in Nat /\ DOMAIN Registry = 1..Len(Registry) /\ 1 \in DOMAIN Registry
<1>1. Registry \in Seq(UNION {[D -> Record] : D \in SUBSET Client}) /\ Registry # <<>>
  BY RegistryAssumption
<1> QED
  BY <1>1

(* What the invariant says of one grant, one token and one request.        *)
LEMMA GrantFacts ==
    ASSUME ShapeInv, NEW i \in DOMAIN grants
    PROVE  /\ grants[i] \in Grant
           /\ grants[i].client \in Client /\ grants[i].sub \in Client \cup User
           /\ grants[i].code \in Nat /\ grants[i].spent \in {"yes", "no"}
<1>1. grants[i] \in Grant
  BY SeqElement DEF ShapeInv
<1> QED
  BY <1>1 DEF Grant

LEMMA NumberFacts ==
    ASSUME TypeOK
    PROVE  /\ issued \in Nat /\ issued <= MaxCodes /\ MaxCodes \in Nat /\ CodeTTL \in Nat
           /\ CodeTTL > 0 /\ faults \in Nat /\ faults <= MaxFaults /\ MaxFaults \in Nat
           /\ loaded \in Nat /\ loaded >= 1 /\ loaded <= Len(Registry) /\ Len(Registry) \in Nat
           /\ MaxGrants \in Nat
  BY BoundsAssumption, RegistryDomain DEF TypeOK

LEMMA NoRequestFacts ==
    /\ NoEntry \in Entry /\ NoEntry.ttl = 0 /\ NoEntry.user = Nobody /\ NoEntry.client = Nobody
    /\ NoRequest \in Request /\ NoRequest.pc = "idle" /\ NoRequest.token = {}
    /\ NoRequest.was = "clear" /\ NoRequest.code = 0
<1>1. NoEntry \in Entry /\ NoEntry.ttl = 0 /\ NoEntry.user = Nobody /\ NoEntry.client = Nobody
  BY BoundsAssumption DEF NoEntry, Entry
<1>2. NoRequest \in Request
  BY <1>1 DEF NoRequest, Request
<1> QED
  BY <1>1, <1>2 DEF NoRequest

LEMMA FaultFacts ==
    ASSUME TypeOK, Fault \/ NoFault
    PROVE  faults' \in 0..MaxFaults
  BY NumberFacts DEF Fault, NoFault, TypeOK

-----------------------------------------------------------------------------
(* A request that is not touched stays as it should be, whatever codes are *)
(* issued or kept, users banned and registries loaded meanwhile.           *)
LEMMA RequestKept ==
    ASSUME NEW h \in Handler, RequestOK(h), req'[h] = req[h],
           loaded \in Nat, loaded' \in Nat, loaded <= loaded',
           issued \in Nat, issued' \in Nat, issued <= issued',
           kept \subseteq kept', banned \subseteq banned'
    PROVE  RequestOK(h)'
<1>1. req[h].pc \in Refreshing => RefreshOK(req[h])'
  <2>1. \A v : v \in 1..loaded => v \in 1..loaded'
    OBVIOUS
  <2> QED
    BY <2>1 DEF RequestOK, RefreshOK
<1>2. req[h].pc \in Exchanging => ExchangeOK(req[h])'
  <2>1. \A c : c \in 1..issued => c \in 1..issued'
    OBVIOUS
  <2> QED
    BY <2>1 DEF RequestOK, ExchangeOK
<1>3. WasOK(req[h])'
  BY DEF RequestOK, WasOK
<1> QED
  BY <1>1, <1>2, <1>3 DEF RequestOK

(* A step of one request, which is given the record r: a code it deletes   *)
(* is gone or kept.                                                        *)
LEMMA RequestStep ==
    ASSUME IInv, NEW h \in Handler, NEW r \in Request, req' = [req EXCEPT ![h] = r],
           UNCHANGED <<loaded, issued, banned, tokens, grants>>,
           faults' \in 0..MaxFaults,
           entry' \in [Code -> Entry],
           \A c \in Code : entry'[c] = entry[c] \/ entry'[c] = NoEntry,
           kept \subseteq kept', kept' \subseteq 1..issued,
           r.token \subseteq tokens,
           r.pc = "idle" => r.token = {},
           r.pc \in Refreshing => RefreshOK(r),
           r.pc \in Exchanging => ExchangeOK(r),
           WasOK(r),
           (r.pc \in {"refreshSign", "exchangeSign"} /\ r.was = "banned")
              => \E t \in r.token : Svc \in grants[t.grant].scopes,
           r.pc \in {"exchangeBan", "exchangeSign"}
              => r.code \in Deleted \/ entry'[r.code].ttl = 0 \/ r.code \in kept'
    PROVE  IInv'
<1>0. /\ ShapeInv /\ TypeOK /\ GrantInv /\ TokenInv /\ RequestInv /\ CodeInv
      /\ LateExchangeRefused /\ BanStopsTokens
  BY DEF IInv
<1>1. req' \in [Handler -> Request] /\ req'[h] = r /\ \A g \in Handler : g # h => req'[g] = req[g]
  BY <1>0 DEF ShapeInv
<1>2. ShapeInv'
  BY <1>0, <1>1 DEF ShapeInv
<1>3. RequestInv'
  <2>1. ASSUME NEW g \in Handler, g # h PROVE RequestOK(g)'
    BY <1>0, <1>1, <2>1, NumberFacts, RequestKept DEF RequestInv
  <2>2. RequestOK(h)'
    <3>1. r.pc \in Refreshing => RefreshOK(r)'
      BY DEF RefreshOK
    <3>2. r.pc \in Exchanging => ExchangeOK(r)'
      BY DEF ExchangeOK
    <3>3. WasOK(r)'
      BY DEF WasOK
    <3> QED
      BY <1>1, <3>1, <3>2, <3>3 DEF RequestOK
  <2> QED
    BY <2>1, <2>2 DEF RequestInv
<1>4. TypeOK'
  <2>1. ASSUME NEW g \in Handler
        PROVE  /\ req'[g].token \subseteq tokens
               /\ req'[g].pc \in Refreshing => req'[g].ver \in 1..loaded'
               /\ req'[g].pc \in Exchanging => req'[g].entry.user \in Client \cup User /\ req'[g].code \in 1..issued'
    <3>1. req'[g].token \subseteq tokens
      BY <1>0, <1>1 DEF TypeOK
    <3> QED
      BY <1>3, <3>1 DEF RequestInv, RequestOK, RefreshOK, ExchangeOK
  <2>2. ASSUME NEW c \in Code
        PROVE  /\ entry'[c].ttl \in 0..CodeTTL
               /\ entry'[c].ttl > 0 => /\ c <= issued
                                       /\ entry'[c].client \in Client
                                       /\ entry'[c].user \in Client \cup User
    <3>1. CASE entry'[c] = entry[c]
      BY <1>0, <3>1 DEF TypeOK
    <3>2. CASE entry'[c] = NoEntry
      BY <3>2, NoRequestFacts, BoundsAssumption
    <3> QED
      BY <3>1, <3>2
  <2> QED
    BY <1>0, <2>1, <2>2 DEF TypeOK, Refreshing, Exchanging
<1>5. GrantInv' /\ TokenInv' /\ LateExchangeRefused'
  BY <1>0 DEF GrantInv, TokenInv, LateExchangeRefused
<1>6. CodeInv'
  <2> SUFFICES ASSUME NEW c \in Deleted', c \notin kept' PROVE entry'[c].ttl = 0
    BY DEF CodeInv
  <2>1. c \in Code
    BY DEF Deleted
  <2>2. CASE c \in Deleted
    BY <1>0, <2>1, <2>2, NoRequestFacts DEF CodeInv
  <2>3. CASE c \notin Deleted
    <3>1. r.pc \in {"exchangeBan", "exchangeSign"} /\ r.code = c
      BY <1>1, <2>3 DEF Deleted, Exchanged
    <3> QED
      BY <2>3, <3>1
  <2> QED
    BY <2>2, <2>3
<1>7. BanStopsTokens'
  BY <1>0, <1>1 DEF BanStopsTokens
<1> QED
  BY <1>2, <1>3, <1>4, <1>5, <1>6, <1>7 DEF IInv

(* A request that ends.                                                    *)
LEMMA RespondIInv ==
    ASSUME IInv, NEW h \in Handler, Respond(h), Fault \/ NoFault,
           UNCHANGED <<loaded, codes, banned, tokens, grants>>
    PROVE  IInv'
<1>1. TypeOK /\ ShapeInv
  BY DEF IInv
<1>2. req' = [req EXCEPT ![h] = NoRequest] /\ UNCHANGED <<entry, issued, kept>>
  BY DEF Respond, codes
<1>3. faults' \in 0..MaxFaults
  BY <1>1, FaultFacts
<1>4. /\ NoRequest.pc \notin Refreshing /\ NoRequest.pc \notin Exchanging
      /\ NoRequest.pc \notin {"refreshSign", "exchangeSign", "exchangeBan"} /\ WasOK(NoRequest)
  BY NoRequestFacts DEF Refreshing, Exchanging, WasOK
<1>5. /\ entry' \in [Code -> Entry] /\ \A c \in Code : entry'[c] = entry[c]
      /\ kept \subseteq kept' /\ kept' \subseteq 1..issued
  BY <1>1, <1>2 DEF ShapeInv, TypeOK
<1> QED
  BY <1>2, <1>3, <1>4, <1>5, NoRequestFacts, RequestStep

(* A step that issues tokens, for an old grant or for a new one, to an     *)
(* idle client or at the end of request h.                                 *)
NewGrantOK(g) ==
    /\ g \in Grant
    /\ g.ver # 0 =>
          /\ g.sub = g.client
          /\ g.scopes # {} => HasScope(Registry[g.ver][g.client], g.scopes)
    /\ g.code <= issued
    /\ g.code \in Code => g.code \in Deleted
    /\ g.spent = "yes" => g.code \in kept

LEMMA IssueStep ==
    ASSUME IInv, UNCHANGED <<loaded, entry, issued, kept, banned, faults>>,
           \/ grants' = grants
           \/ \E g : NewGrantOK(g) /\ grants' = Append(grants, g) /\ Len(grants) + 1 <= MaxGrants,
           tokens \subseteq tokens',
           \A t \in tokens' : t \in tokens \/ ( /\ t \in Token
                                                /\ t.grant \in DOMAIN grants'
                                                /\ TokenOK(t, grants'[t.grant]) ),
           req' = req \/ \E h \in Handler : Respond(h)
    PROVE  IInv'
<1>0. /\ ShapeInv /\ TypeOK /\ GrantInv /\ TokenInv /\ RequestInv /\ CodeInv
      /\ LateExchangeRefused /\ BanStopsTokens
  BY DEF IInv
<1>1. /\ req' \in [Handler -> Request]
      /\ \A h \in Handler : req'[h] = req[h] \/ req'[h] = NoRequest
  BY <1>0, NoRequestFacts DEF ShapeInv, Respond
<1>2. /\ grants' \in Seq(Grant) /\ Len(grants') <= MaxGrants
      /\ DOMAIN grants \subseteq DOMAIN grants'
      /\ \A i \in DOMAIN grants : grants'[i] = grants[i]
      /\ \A i \in DOMAIN grants' : i \in DOMAIN grants \/ NewGrantOK(grants'[i])
  <2>1. grants \in Seq(Grant) /\ Len(grants) <= MaxGrants
    BY <1>0 DEF ShapeInv
  <2>2. CASE grants' = grants
    BY <2>1, <2>2
  <2>3. ASSUME NEW g, NewGrantOK(g), grants' = Append(grants, g), Len(grants) + 1 <= MaxGrants
        PROVE  <1>2!1
    <3>1. g \in Grant
      BY <2>3 DEF NewGrantOK
    <3> QED
      BY <2>1, <2>3, <3>1, AppendFacts
  <2> QED
    BY <2>2, <2>3
<1>3. ShapeInv'
  BY <1>0, <1>1, <1>2 DEF ShapeInv
<1>4. ASSUME NEW h \in Handler PROVE RequestOK(h)' /\ req'[h].token \subseteq tokens'
  <2>1. CASE req'[h] = req[h]
    <3>1. RequestOK(h)'
      BY <1>0, <2>1, NumberFacts, RequestKept DEF RequestInv
    <3> QED
      BY <1>0, <2>1, <3>1 DEF TypeOK
  <2>2. CASE req'[h] = NoRequest
    BY <2>2, NoRequestFacts DEF RequestOK, Refreshing, Exchanging, WasOK
  <2> QED
    BY <1>1, <2>1, <2>2
<1>5. TypeOK'
  <2>1. tokens' \in SUBSET Token /\ \A t \in tokens' : t.grant \in DOMAIN grants'
    BY <1>0, <1>2 DEF TypeOK
  <2>2. ASSUME NEW h \in Handler
        PROVE  /\ req'[h].token \subseteq tokens'
               /\ req'[h].pc \in {"refreshBan", "refreshSign"} => req'[h].ver \in 1..loaded'
               /\ req'[h].pc \in {"delete", "exchangeBan", "exchangeSign"}
                     => req'[h].entry.user \in Client \cup User /\ req'[h].code \in 1..issued'
    BY <1>4 DEF RequestOK, RefreshOK, ExchangeOK, Refreshing, Exchanging
  <2> QED
    BY <1>0, <2>1, <2>2 DEF TypeOK
<1>6. GrantInv'
  <2>1. ASSUME NEW i \in DOMAIN grants'
        PROVE  /\ grants'[i].ver # 0 =>
                     /\ grants'[i].sub = grants'[i].client
                     /\ grants'[i].scopes # {} =>
                           HasScope(Registry[grants'[i].ver][grants'[i].client], grants'[i].scopes)
               /\ grants'[i].code <= issued'
    <3>1. CASE i \in DOMAIN grants
      BY <1>0, <1>2, <3>1 DEF GrantInv
    <3>2. CASE NewGrantOK(grants'[i])
      BY <3>2 DEF NewGrantOK
    <3> QED
      BY <1>2, <3>1, <3>2
  <2> QED
    BY <2>1 DEF GrantInv
<1>7. TokenInv'
  <2>1. ASSUME NEW t \in tokens' PROVE TokenOK(t, grants'[t.grant])
    <3>1. CASE t \in tokens
      BY <1>0, <1>2, <3>1 DEF TokenInv, TypeOK
    <3> QED
      BY <3>1
  <2> QED
    BY <2>1 DEF TokenInv
<1>8. CodeInv'
  <2>1. Deleted' \subseteq Deleted
    <3> SUFFICES ASSUME NEW c \in Deleted' PROVE c \in Deleted
      OBVIOUS
    <3>1. c \in Code
      BY DEF Deleted
    <3>2. CASE \E i \in DOMAIN grants' : grants'[i].code = c
      <4>1. PICK i \in DOMAIN grants' : grants'[i].code = c
        BY <3>2
      <4>2. CASE i \in DOMAIN grants
        BY <1>2, <3>1, <4>1, <4>2 DEF Deleted, Exchanged
      <4>3. CASE NewGrantOK(grants'[i])
        BY <3>1, <4>1, <4>3 DEF NewGrantOK
      <4> QED
        BY <1>2, <4>2, <4>3
    <3>3. CASE \E h \in Handler : req'[h].pc \in {"exchangeBan", "exchangeSign"} /\ req'[h].code = c
      BY <1>1, <3>1, <3>3, NoRequestFacts DEF Deleted
    <3> QED
      BY <3>2, <3>3 DEF Deleted, Exchanged
  <2> QED
    BY <1>0, <2>1 DEF CodeInv
<1>9. LateExchangeRefused'
  <2>1. ASSUME NEW i \in DOMAIN grants', grants'[i].spent = "yes" PROVE grants'[i].code \in kept
    BY <1>0, <1>2, <2>1 DEF LateExchangeRefused, NewGrantOK
  <2> QED
    BY <2>1 DEF LateExchangeRefused
<1>10. BanStopsTokens'
  <2>1. ASSUME NEW h \in Handler, req'[h].pc \in {"refreshSign", "exchangeSign"}, req'[h].was = "banned"
        PROVE  \E t \in req'[h].token : Svc \in grants'[t.grant].scopes
    <3>1. req'[h] = req[h]
      BY <1>1, <2>1, NoRequestFacts
    <3>2. PICK t \in req[h].token : Svc \in grants[t.grant].scopes
      BY <1>0, <2>1, <3>1 DEF BanStopsTokens
    <3>3. t.grant \in DOMAIN grants
      BY <1>0, <3>2 DEF TypeOK
    <3> QED
      BY <1>2, <3>1, <3>2, <3>3
  <2> QED
    BY <2>1 DEF BanStopsTokens
<1> QED
  BY <1>3, <1>4, <1>5, <1>6, <1>7, <1>8, <1>9, <1>10 DEF IInv, RequestInv

-----------------------------------------------------------------------------
LEMMA InitIInv == Init => IInv
<1> SUFFICES ASSUME Init PROVE IInv
  OBVIOUS
<1>1. /\ entry \in [Code -> Entry] /\ \A c \in Code : entry[c].ttl = 0
      /\ req \in [Handler -> Request]
      /\ \A h \in Handler : req[h].pc = "idle" /\ req[h].token = {} /\ req[h].was = "clear"
      /\ loaded = 1 /\ issued = 0 /\ banned = {} /\ tokens = {} /\ faults = 0 /\ kept = {}
      /\ grants = <<>>
  BY NoRequestFacts DEF Init
<1>2. grants \in Seq(Grant) /\ Len(grants) = 0 /\ DOMAIN grants = {}
  BY <1>1
<1>3. ShapeInv
  BY <1>1, <1>2, BoundsAssumption DEF ShapeInv
<1>4. TypeOK
  BY <1>1, RegistryDomain, BoundsAssumption DEF TypeOK
<1>5. GrantInv /\ TokenInv /\ LateExchangeRefused /\ BanStopsTokens
  BY <1>1, <1>2 DEF GrantInv, TokenInv, LateExchangeRefused, BanStopsTokens
<1>6. RequestInv
  BY <1>1 DEF RequestInv, RequestOK, Refreshing, Exchanging, WasOK
<1>7. CodeInv
  BY <1>1, <1>2 DEF CodeInv, Deleted, Exchanged
<1> QED
  BY <1>3, <1>4, <1>5, <1>6, <1>7 DEF IInv

(* A step that leaves requests, tokens and grants alone: a tick, a ban, a  *)
(* reload, a new code.                                                     *)
LEMMA QuietStep ==
    ASSUME IInv, UNCHANGED <<kept, tokens, req, faults, grants>>,
           loaded' \in DOMAIN Registry, loaded <= loaded',
           issued' \in 0..MaxCodes, issued <= issued',
           banned \subseteq banned', banned' \subseteq User,
           entry' \in [Code -> Entry],
           \A c \in Code : \/ entry'[c] = entry[c]
                           \/ entry[c].ttl > 0 /\ entry'[c].client = entry[c].client
                              /\ entry'[c].user = entry[c].user
                           \/ entry'[c] = NoEntry
                           \/ /\ c > issued /\ c <= issued'
                              /\ entry'[c].client \in Client /\ entry'[c].user \in Client \cup User
    PROVE  IInv'
<1>0. /\ ShapeInv /\ TypeOK /\ GrantInv /\ TokenInv /\ RequestInv /\ CodeInv
      /\ LateExchangeRefused /\ BanStopsTokens
  BY DEF IInv
<1>1. issued \in Nat /\ issued' \in Nat /\ loaded \in Nat /\ loaded' \in Nat
  BY <1>0, NumberFacts, RegistryDomain
<1>2. ShapeInv'
  BY <1>0 DEF ShapeInv
<1>3. RequestInv'
  BY <1>0, <1>1, RequestKept DEF RequestInv
<1>4. TypeOK'
  <2>1. ASSUME NEW h \in Handler
        PROVE  /\ req'[h].token \subseteq tokens'
               /\ req'[h].pc \in {"refreshBan", "refreshSign"} => req'[h].ver \in 1..loaded'
               /\ req'[h].pc \in {"delete", "exchangeBan", "exchangeSign"}
                     => req'[h].entry.user \in Client \cup User /\ req'[h].code \in 1..issued'
    <3>1. req'[h].token \subseteq tokens'
      BY <1>0 DEF TypeOK
    <3> QED
      BY <1>3, <3>1 DEF RequestInv, RequestOK, RefreshOK, ExchangeOK, Refreshing, Exchanging
  <2>2. ASSUME NEW c \in Code
        PROVE  /\ entry'[c].ttl \in 0..CodeTTL
               /\ entry'[c].ttl > 0 => /\ c <= issued'
                                       /\ entry'[c].client \in Client
                                       /\ entry'[c].user \in Client \cup User
    <3>1. entry'[c].ttl \in 0..CodeTTL /\ c \in Nat
      BY DEF Entry, Code
    <3>2. CASE entry'[c] = NoEntry
      BY <3>1, <3>2, NoRequestFacts
    <3>3. CASE entry[c].ttl > 0 /\ entry'[c].client = entry[c].client /\ entry'[c].user = entry[c].user
      <4>1. c <= issued /\ entry[c].client \in Client /\ entry[c].user \in Client \cup User
        BY <1>0, <3>3 DEF TypeOK
      <4> QED
        BY <1>1, <3>1, <3>3, <4>1
    <3>4. CASE entry'[c] = entry[c]
      <4>1. entry[c].ttl > 0 => c <= issued /\ entry[c].client \in Client /\ entry[c].user \in Client \cup User
        BY <1>0 DEF TypeOK
      <4> QED
        BY <1>1, <3>1, <3>4, <4>1
    <3> QED
      BY <3>1, <3>2, <3>3, <3>4
  <2>3. kept' \in SUBSET (1..issued')
    <3>1. 1..issued \subseteq 1..issued'
      BY <1>1
    <3> QED
      BY <1>0, <3>1 DEF TypeOK
  <2> QED
    BY <1>0, <2>1, <2>2, <2>3 DEF TypeOK
<1>5. GrantInv'
  <2>1. ASSUME NEW i \in DOMAIN grants PROVE grants[i].code <= issued'
    <3>1. grants[i].code \in Nat /\ grants[i].code <= issued
      BY <1>0, GrantFacts DEF GrantInv
    <3> QED
      BY <1>1, <3>1
  <2> QED
    BY <1>0, <2>1 DEF GrantInv
<1>6. TokenInv' /\ LateExchangeRefused' /\ BanStopsTokens'
  BY <1>0 DEF TokenInv, LateExchangeRefused, BanStopsTokens
<1>7. CodeInv'
  <2> SUFFICES ASSUME NEW c \in Deleted', c \notin kept' PROVE entry'[c].ttl = 0
    BY DEF CodeInv
  <2>1. c \in Code /\ c \in Deleted /\ entry[c].ttl = 0
    BY <1>0 DEF Deleted, Exchanged, CodeInv
  <2>2. c <= issued
    <3>1. CASE \E i \in DOMAIN grants : grants[i].code = c
      BY <1>0, <3>1 DEF GrantInv
    <3>2. CASE \E h \in Handler : req[h].pc \in {"exchangeBan", "exchangeSign"} /\ req[h].code = c
      <4>1. c \in 1..issued
        BY <1>0, <3>2 DEF RequestInv, RequestOK, ExchangeOK, Exchanging
      <4> QED
        BY <1>1, <4>1
    <3> QED
      BY <2>1, <3>1, <3>2 DEF Deleted, Exchanged
  <2>3. c \in Nat /\ ~(c > issued)
    BY <1>1, <2>1, <2>2 DEF Code
  <2>4. ~(entry[c].ttl > 0)
    BY <2>1
  <2> QED
    BY <2>1, <2>3, <2>4, NoRequestFacts
<1> QED
  BY <1>2, <1>3, <1>4, <1>5, <1>6, <1>7 DEF IInv

LEMMA TickIInv == ASSUME IInv, Tick PROVE IInv'
<1>0. ShapeInv /\ TypeOK
  BY DEF IInv
<1>1. UNCHANGED <<loaded, issued, kept, banned, tokens, req, faults, grants>>
  BY DEF Tick
<1>2. entry' = [c \in Code |-> IF entry[c].ttl > 1 THEN [entry[c] EXCEPT !.ttl = entry[c].ttl - 1]
                               ELSE NoEntry]
  BY DEF Tick
<1>3. ASSUME NEW c \in Code
      PROVE  /\ entry'[c] \in Entry
             /\ \/ entry[c].ttl > 0 /\ entry'[c].client = entry[c].client
                   /\ entry'[c].user = entry[c].user
                \/ entry'[c] = NoEntry
  <2>1. entry[c] \in Entry
    BY <1>0 DEF ShapeInv
  <2>2. entry[c].ttl \in 0..CodeTTL
    BY <2>1 DEF Entry
  <2>3. CASE entry[c].ttl > 1
    <3>1. entry[c].ttl - 1 \in 0..CodeTTL /\ entry[c].ttl > 0
      BY <2>2, <2>3, BoundsAssumption
    <3>2. entry'[c] = [entry[c] EXCEPT !.ttl = entry[c].ttl - 1]
      BY <1>2, <2>3
    <3> QED
      BY <2>1, <3>1, <3>2 DEF Entry
  <2>4. CASE ~(entry[c].ttl > 1)
    BY <1>2, <2>4, NoRequestFacts
  <2> QED
    BY <2>3, <2>4
<1>4. entry' \in [Code -> Entry]
  BY <1>2, <1>3
<1>5. /\ loaded' \in DOMAIN Registry /\ loaded <= loaded' /\ issued' \in 0..MaxCodes
      /\ issued <= issued' /\ banned \subseteq banned' /\ banned' \subseteq User
  BY <1>0, <1>1, NumberFacts DEF TypeOK
<1> QED
  BY <1>1, <1>3, <1>4, <1>5, QuietStep

LEMMA BanReloadIInv ==
    ASSUME IInv, (\E u \in User : Ban(u)) \/ Reload PROVE IInv'
<1>0. ShapeInv /\ TypeOK
  BY DEF IInv
<1>1. UNCHANGED <<entry, issued, kept, tokens, req, faults, grants>>
  BY DEF Ban, Reload, codes
<1>2. banned \subseteq banned' /\ banned' \subseteq User
  BY <1>0 DEF Ban, Reload, TypeOK
<1>3. loaded' \in DOMAIN Registry /\ loaded <= loaded'
  <2>1. CASE loaded' = loaded
    BY <1>0, <2>1, NumberFacts DEF TypeOK
  <2>2. CASE loaded' \in (loaded + 1)..Len(Registry)
    BY <1>0, <2>2, NumberFacts, RegistryDomain
  <2> QED
    BY <2>1, <2>2 DEF Ban, Reload
<1>4. issued' \in 0..MaxCodes /\ issued <= issued'
  BY <1>0, <1>1, NumberFacts
<1>5. entry' \in [Code -> Entry]
  BY <1>0, <1>1 DEF ShapeInv
<1> QED
  BY <1>1, <1>2, <1>3, <1>4, <1>5, QuietStep

LEMMA AuthorizeIInv ==
    ASSUME IInv, NEW c \in Client, NEW u \in UserId,
           NEW want \in SUBSET (Scope \cup {Offline, Svc}),
           Authorize(c, u, want)
    PROVE  IInv'
<1>0. ShapeInv /\ TypeOK
  BY DEF IInv
<1>1. /\ UNCHANGED <<loaded, kept, banned, tokens, req, faults, grants>>
      /\ issued < MaxCodes /\ issued' = issued + 1
  BY DEF Authorize
<1>2. PICK e : e = [ttl |-> CodeTTL, client |-> c, user |-> u, scopes |-> want]
  OBVIOUS
<1>3. e \in Entry /\ e.client = c /\ e.user \in Client \cup User
  BY <1>2, BoundsAssumption, NamesAssumption DEF Entry
<1>4. entry' = [entry EXCEPT ![issued + 1] = e]
  BY <1>2 DEF Authorize, EntryTTL
<1>5. /\ issued' \in 0..MaxCodes /\ issued <= issued' /\ issued + 1 \in Code
      /\ issued + 1 > issued /\ issued + 1 <= issued'
  BY <1>0, <1>1, NumberFacts DEF Code
<1>6. /\ entry' \in [Code -> Entry]
      /\ \A d \in Code : entry'[d] = entry[d] \/ (d = issued + 1 /\ entry'[d] = e)
  BY <1>0, <1>3, <1>4, <1>5 DEF ShapeInv
<1>7. \A d \in Code : \/ entry'[d] = entry[d]
                      \/ /\ d > issued /\ d <= issued'
                         /\ entry'[d].client \in Client /\ entry'[d].user \in Client \cup User
  BY <1>3, <1>5, <1>6
<1>8. loaded' \in DOMAIN Registry /\ loaded <= loaded' /\ banned \subseteq banned' /\ banned' \subseteq User
  BY <1>0, <1>1, NumberFacts DEF TypeOK
<1> QED
  BY <1>1, <1>5, <1>6, <1>7, <1>8, QuietStep

(* The end of a ban voids what requests remember of it.                    *)
LEMMA BanLapsesIInv == ASSUME IInv, NEW u \in User, BanLapses(u) PROVE IInv'
<1>0. /\ ShapeInv /\ TypeOK /\ GrantInv /\ TokenInv /\ RequestInv /\ CodeInv
      /\ LateExchangeRefused /\ BanStopsTokens
  BY DEF IInv
<1>1. /\ UNCHANGED <<loaded, entry, issued, kept, tokens, faults, grants>>
      /\ banned' = banned \ {u}
      /\ req' = [h \in Handler |->
                    IF u \in {t.sub : t \in req[h].token} \cup {req[h].entry.user}
                      THEN [req[h] EXCEPT !.was = "clear"] ELSE req[h]]
  BY DEF BanLapses, codes
<1>2. ASSUME NEW h \in Handler
      PROVE  /\ req'[h] \in Request
             /\ req'[h].pc = req[h].pc /\ req'[h].client = req[h].client
             /\ req'[h].secret = req[h].secret /\ req'[h].ver = req[h].ver
             /\ req'[h].token = req[h].token /\ req'[h].code = req[h].code
             /\ req'[h].entry = req[h].entry /\ req'[h].spent = req[h].spent
             /\ req'[h].was = "banned" => /\ req[h].was = "banned"
                                          /\ \A t \in req[h].token : t.sub # u
                                          /\ req[h].entry.user # u
  <2>1. req[h] \in Request
    BY <1>0 DEF ShapeInv
  <2>2. CASE u \in {t.sub : t \in req[h].token} \cup {req[h].entry.user}
    <3>1. req'[h] = [req[h] EXCEPT !.was = "clear"]
      BY <1>1, <2>2
    <3> QED
      BY <2>1, <3>1 DEF Request
  <2>3. CASE u \notin {t.sub : t \in req[h].token} \cup {req[h].entry.user}
    <3>1. req'[h] = req[h]
      BY <1>1, <2>3
    <3> QED
      BY <2>1, <2>3, <3>1
  <2> QED
    BY <2>2, <2>3
<1>3. ShapeInv'
  <2>1. req' \in [Handler -> Request]
    BY <1>1, <1>2
  <2> QED
    BY <1>0, <1>1, <2>1 DEF ShapeInv
<1>4. TypeOK'
  <2>1. banned' \in SUBSET User
    BY <1>0, <1>1 DEF TypeOK
  <2>2. ASSUME NEW h \in Handler
        PROVE  /\ req'[h].token \subseteq tokens'
               /\ req'[h].pc \in {"refreshBan", "refreshSign"} => req'[h].ver \in 1..loaded'
               /\ req'[h].pc \in {"delete", "exchangeBan", "exchangeSign"}
                     => req'[h].entry.user \in Client \cup User /\ req'[h].code \in 1..issued'
    BY <1>0, <1>1, <1>2 DEF TypeOK
  <2> QED
    BY <1>0, <1>1, <2>1, <2>2 DEF TypeOK
<1>5. GrantInv' /\ TokenInv' /\ LateExchangeRefused'
  BY <1>0, <1>1 DEF GrantInv, TokenInv, LateExchangeRefused
<1>6. RequestInv'
  <2> SUFFICES ASSUME NEW h \in Handler PROVE RequestOK(h)'
    BY DEF RequestInv
  <2>1. RequestOK(h)
    BY <1>0 DEF RequestInv
  <2>2. req'[h].pc = "idle" => req'[h].token = {}
    BY <1>2, <2>1 DEF RequestOK
  <2>3. req'[h].pc \in Refreshing => RefreshOK(req[h])'
    BY <1>1, <1>2, <2>1 DEF RequestOK, RefreshOK
  <2>4. req'[h].pc \in Exchanging => ExchangeOK(req[h])'
    BY <1>1, <1>2, <2>1 DEF RequestOK, ExchangeOK
  <2>5. WasOK(req[h])'
    BY <1>1, <1>2, <2>1 DEF RequestOK, WasOK
  <2> QED
    BY <2>2, <2>3, <2>4, <2>5 DEF RequestOK
<1>7. CodeInv'
  <2>1. Deleted' \subseteq Deleted
    BY <1>1, <1>2 DEF Deleted, Exchanged
  <2> QED
    BY <1>0, <1>1, <2>1 DEF CodeInv
<1>8. BanStopsTokens'
  BY <1>0, <1>1, <1>2 DEF BanStopsTokens
<1> QED
  BY <1>3, <1>4, <1>5, <1>6, <1>7, <1>8 DEF IInv

(* A refresh that arrives.                                                 *)
LEMMA RefreshTokenIInv ==
    ASSUME IInv, NEW h \in Handler, NEW c \in Client, NEW s \in Secret, NEW t \in tokens,
           RefreshToken(h, c, s, t)
    PROVE  IInv'
<1>0. ShapeInv /\ TypeOK /\ TokenInv
  BY DEF IInv
<1>1. PICK r : r = [NoRequest EXCEPT !.pc = "refreshBan", !.client = c, !.secret = s,
                                     !.ver = loaded, !.token = {t}, !.was = BanRecord(t.sub)]
  OBVIOUS
<1>2. /\ req' = [req EXCEPT ![h] = r] /\ ValidateAndGet(c, s) /\ MayRefresh(c, t)
      /\ UNCHANGED <<loaded, entry, issued, kept, banned, tokens, faults, grants>>
  BY <1>1 DEF RefreshToken, codes
<1>3. /\ BanRecord(t.sub) \in {"clear", "banned"} /\ (BanRecord(t.sub) = "banned" => t.sub \in banned)
      /\ loaded \in Nat /\ {t} \in SUBSET Token
  BY <1>0, NumberFacts DEF BanRecord, IsBanned, TypeOK
<1>4. /\ r \in Request /\ r.pc = "refreshBan" /\ r.client = c /\ r.secret = s /\ r.ver = loaded
      /\ r.token = {t} /\ r.was = BanRecord(t.sub)
  BY <1>1, <1>3, NoRequestFacts DEF Request, Refreshing
<1>5. t.kind = "refresh" /\ t.azp = c
  <2>1. TokenOK(t, grants[t.grant]) /\ t \in Token
    BY <1>0 DEF TokenInv, TypeOK
  <2> QED
    BY <1>2, <2>1, NamesAssumption DEF MayRefresh, TokenOK, Token
<1>6. RefreshOK(r)
  BY <1>0, <1>2, <1>4, <1>5, NumberFacts DEF RefreshOK, ValidateAndGet
<1>7. WasOK(r) /\ r.pc \notin Exchanging
  BY <1>3, <1>4 DEF WasOK, Exchanging
<1>8. /\ faults' \in 0..MaxFaults /\ entry' \in [Code -> Entry]
      /\ \A d \in Code : entry'[d] = entry[d]
      /\ kept \subseteq kept' /\ kept' \subseteq 1..issued /\ r.token \subseteq tokens
  BY <1>0, <1>2, <1>4 DEF TypeOK, ShapeInv
<1> QED
  BY <1>2, <1>4, <1>6, <1>7, <1>8, RequestStep

(* An exchange that arrives: if the code was exchanged before, its entry   *)
(* is only there because it was kept.                                      *)
LEMMA ExchangeIInv ==
    ASSUME IInv, NEW h \in Handler, NEW c \in Client, NEW code \in Code, Exchange(h, c, code)
    PROVE  IInv'
<1>0. ShapeInv /\ TypeOK /\ CodeInv
  BY DEF IInv
<1>1. PICK r : r = [NoRequest EXCEPT !.pc = "delete", !.client = c, !.code = code,
                            !.entry = entry[code],
                            !.was = BanRecord(entry[code].user),
                            !.spent = IF Exchanged(code) THEN "yes" ELSE "no"]
  OBVIOUS
<1>2. /\ req' = [req EXCEPT ![h] = r] /\ entry[code].ttl > 0 /\ entry[code].client = c
      /\ UNCHANGED <<loaded, entry, issued, kept, banned, tokens, faults, grants>>
  BY <1>1 DEF Exchange, codes
<1>3. PICK e \in Entry : e = entry[code]
  BY <1>0 DEF ShapeInv
<1>4. PICK w \in {"clear", "banned"} : w = BanRecord(e.user) /\ (w = "banned" => e.user \in banned)
  BY DEF BanRecord, IsBanned
<1>5. PICK x \in {"yes", "no"} :
         x = (IF Exchanged(code) THEN "yes" ELSE "no") /\ (x = "yes" => Exchanged(code))
  OBVIOUS
<1>6. r = [NoRequest EXCEPT !.pc = "delete", !.client = c, !.code = code, !.entry = e,
                            !.was = w, !.spent = x]
  BY <1>1, <1>3, <1>4, <1>5
<1>7. /\ r \in Request /\ r.pc = "delete" /\ r.client = c /\ r.code = code /\ r.entry = e
      /\ r.was = w /\ r.spent = x /\ r.token = {}
  <2>1. code \in Nat
    BY BoundsAssumption DEF Code
  <2> QED
    BY <1>6, <2>1, NoRequestFacts DEF Request, Exchanging
<1>8. e.client = c /\ e.user \in Client \cup User /\ code \in 1..issued
  <2>1. code <= issued /\ code \in Nat /\ code >= 1 /\ issued \in Nat
    BY <1>0, <1>2, NumberFacts DEF TypeOK, Code
  <2> QED
    BY <1>0, <1>2, <1>3, <2>1 DEF TypeOK
<1>9. x = "yes" => code \in kept
  <2>1. x = "yes" => code \in Deleted
    BY <1>5 DEF Deleted
  <2>2. entry[code].ttl # 0
    BY <1>2
  <2> QED
    BY <1>0, <2>1, <2>2 DEF CodeInv
<1>10. ExchangeOK(r) /\ WasOK(r) /\ r.pc \notin Refreshing
  BY <1>4, <1>7, <1>8, <1>9 DEF ExchangeOK, WasOK, Refreshing
<1>11. /\ faults' \in 0..MaxFaults /\ entry' \in [Code -> Entry]
       /\ \A d \in Code : entry'[d] = entry[d]
       /\ kept \subseteq kept' /\ kept' \subseteq 1..issued /\ r.token \subseteq tokens
  BY <1>0, <1>2, <1>7 DEF TypeOK, ShapeInv
<1> QED
  BY <1>2, <1>7, <1>10, <1>11, RequestStep

(* A request that goes on after the lookup of the ban: what it remembers   *)
(* of one is true, or void, or the session has a svc: scope.               *)
LEMMA GoOnIInv ==
    ASSUME IInv, NEW h \in Handler, NEW pc, NEW w \in {"clear", "banned"}, Fault \/ NoFault,
           UNCHANGED <<loaded, codes, banned, tokens, grants>>,
           req' = [req EXCEPT ![h].pc = pc, ![h].was = w],
           \/ req[h].pc = "refreshBan" /\ pc = "refreshSign"
           \/ req[h].pc = "exchangeBan" /\ pc = "exchangeSign",
           w = "banned" => /\ req[h].was = "banned"
                           /\ \E t \in req[h].token : Svc \in grants[t.grant].scopes
    PROVE  IInv'
<1>0. ShapeInv /\ TypeOK /\ RequestInv
  BY DEF IInv
<1>1. PICK r : r = [req[h] EXCEPT !.pc = pc, !.was = w]
  OBVIOUS
<1>2. req[h] \in Request /\ UNCHANGED <<entry, issued, kept>> /\ RequestOK(h)
  BY <1>0 DEF ShapeInv, codes, RequestInv
<1>3. /\ r \in Request /\ r.pc = pc /\ r.was = w /\ r.client = req[h].client
      /\ r.secret = req[h].secret /\ r.ver = req[h].ver /\ r.token = req[h].token
      /\ r.code = req[h].code /\ r.entry = req[h].entry /\ r.spent = req[h].spent
  BY <1>1, <1>2 DEF Request, Refreshing, Exchanging
<1>4. req' = [req EXCEPT ![h] = r]
  BY <1>0, <1>1 DEF ShapeInv
<1>5. r.pc \in Refreshing => RefreshOK(r)
  BY <1>2, <1>3 DEF RequestOK, RefreshOK, Refreshing
<1>6. r.pc \in Exchanging => ExchangeOK(r)
  BY <1>2, <1>3 DEF RequestOK, ExchangeOK, Exchanging
<1>7. WasOK(r)
  BY <1>2, <1>3 DEF RequestOK, WasOK, Exchanging
<1>8. r.pc \in {"exchangeBan", "exchangeSign"} => r.code \in Deleted
  <2>1. req[h].pc = "exchangeBan" => req[h].code \in Code
    <3>1. req[h].pc = "exchangeBan" => req[h].code \in 1..issued
      BY <1>2 DEF RequestOK, ExchangeOK, Exchanging
    <3> QED
      BY <1>0, <3>1, NumberFacts DEF Code
  <2> QED
    BY <1>3, <2>1 DEF Deleted
<1>9. /\ faults' \in 0..MaxFaults /\ entry' \in [Code -> Entry]
      /\ \A d \in Code : entry'[d] = entry[d]
      /\ kept \subseteq kept' /\ kept' \subseteq 1..issued /\ r.token \subseteq tokens
  BY <1>0, <1>2, <1>3, FaultFacts DEF TypeOK, ShapeInv
<1>10. r.pc # "idle"
  BY <1>3
<1> QED
  BY <1>2, <1>3, <1>4, <1>5, <1>6, <1>7, <1>8, <1>9, <1>10, RequestStep

(* What the handler does with the answer of the lookup.                    *)
LEMMA BanLookupIInv ==
    ASSUME IInv, NEW h \in Handler, NEW s, NEW pc, BanLookup(h, s, pc),
           UNCHANGED <<loaded, codes, banned, tokens, grants>>,
           \/ req[h].pc = "refreshBan" /\ pc = "refreshSign"
           \/ req[h].pc = "exchangeBan" /\ pc = "exchangeSign",
           req[h].was = "banned" => s \in banned
    PROVE  IInv'
<1>0. req[h] \in Request /\ req \in [Handler -> Request]
  BY DEF IInv, ShapeInv
<1>1. CASE NoFault /\ Respond(h)
  BY <1>1, RespondIInv
<1>2. CASE NoFault /\ ~IsBanned(s) /\ Goto(h, pc)
  <2>1. req[h].was = "clear"
    BY <1>0, <1>2 DEF IsBanned, Request
  <2>2. req' = [req EXCEPT ![h].pc = pc, ![h].was = "clear"]
    <3>1. [req[h] EXCEPT !.pc = pc] = [req[h] EXCEPT !.pc = pc, !.was = "clear"]
      BY <1>0, <2>1 DEF Request
    <3> QED
      BY <1>0, <1>2, <3>1 DEF Goto
  <2> QED
    BY <1>2, <2>2, GoOnIInv
<1>3. CASE Fault /\ req' = [req EXCEPT ![h].pc = pc, ![h].was = "clear"]
  BY <1>3, GoOnIInv
<1> QED
  BY <1>1, <1>2, <1>3 DEF BanLookup

LEMMA RefreshCheckBanIInv == ASSUME IInv, NEW h \in Handler, RefreshCheckBan(h) PROVE IInv'
<1>0. ShapeInv /\ TypeOK /\ TokenInv /\ RequestInv
  BY DEF IInv
<1>1. req[h].pc = "refreshBan" /\ UNCHANGED <<loaded, codes, banned, tokens, grants>>
  BY DEF RefreshCheckBan
<1>2. PICK t \in req[h].token :
         \/ Svc \notin t.scopes /\ BanLookup(h, t.sub, "refreshSign")
         \/ Svc \in t.scopes /\ NoFault /\ Goto(h, "refreshSign")
  BY DEF RefreshCheckBan
<1>3. req[h] \in Request /\ req \in [Handler -> Request] /\ RequestOK(h)
  BY <1>0 DEF ShapeInv, RequestInv
<1>4. CASE BanLookup(h, t.sub, "refreshSign")
  <2>1. req[h].was = "banned" => t.sub \in banned
    BY <1>3 DEF RequestOK, WasOK
  <2> QED
    BY <1>1, <1>4, <2>1, BanLookupIInv
<1>5. CASE Svc \in t.scopes /\ NoFault /\ Goto(h, "refreshSign")
  <2>1. Svc \in grants[t.grant].scopes
    <3>1. t \in tokens /\ TokenOK(t, grants[t.grant])
      BY <1>0 DEF TypeOK, TokenInv
    <3>2. Svc # Offline /\ Svc # Verified
      BY DEF Svc, Offline, Verified
    <3> QED
      BY <1>5, <3>1, <3>2 DEF TokenOK
  <2>2. PICK w \in {"clear", "banned"} : w = req[h].was
    BY <1>3 DEF Request
  <2>3. req' = [req EXCEPT ![h].pc = "refreshSign", ![h].was = w]
    <3>1. [req[h] EXCEPT !.pc = "refreshSign"] = [req[h] EXCEPT !.pc = "refreshSign", !.was = w]
      BY <1>3, <2>2 DEF Request
    <3> QED
      BY <1>3, <1>5, <3>1 DEF Goto
  <2> QED
    BY <1>1, <1>5, <2>1, <2>2, <2>3, GoOnIInv
<1> QED
  BY <1>2, <1>4, <1>5

LEMMA ExchangeCheckBanIInv == ASSUME IInv, NEW h \in Handler, ExchangeCheckBan(h) PROVE IInv'
<1>1. /\ req[h].pc = "exchangeBan" /\ UNCHANGED <<loaded, codes, banned, tokens, grants>>
      /\ BanLookup(h, req[h].entry.user, "exchangeSign")
  BY DEF ExchangeCheckBan
<1>2. req[h].was = "banned" => req[h].entry.user \in banned
  BY <1>1 DEF IInv, RequestInv, RequestOK, WasOK, Exchanging
<1> QED
  BY <1>1, <1>2, BanLookupIInv

(* The code is gone, or it is kept and its Delete failed.                  *)
LEMMA DeleteCodeIInv == ASSUME IInv, NEW h \in Handler, DeleteCode(h) PROVE IInv'
<1>0. ShapeInv /\ TypeOK /\ RequestInv
  BY DEF IInv
<1>1. PICK r : r = [req[h] EXCEPT !.pc = "exchangeBan"]
  OBVIOUS
<1>2. req[h] \in Request /\ RequestOK(h) /\ req[h].pc = "delete"
  BY <1>0 DEF ShapeInv, RequestInv, DeleteCode
<1>3. /\ r \in Request /\ r.pc = "exchangeBan" /\ r.was = req[h].was /\ r.client = req[h].client
      /\ r.token = req[h].token /\ r.code = req[h].code /\ r.entry = req[h].entry
      /\ r.spent = req[h].spent
  BY <1>1, <1>2 DEF Request, Exchanging
<1>4. /\ req' = [req EXCEPT ![h] = r] /\ UNCHANGED <<loaded, issued, banned, tokens, grants>>
      /\ \/ NoFault /\ entry' = [entry EXCEPT ![r.code] = NoEntry] /\ kept' = kept
         \/ Fault /\ entry' = entry /\ kept' = kept \cup {r.code}
  BY <1>0, <1>1, <1>3 DEF ShapeInv, DeleteCode, Goto
<1>5. ExchangeOK(req[h]) /\ req[h].code \in 1..issued
  BY <1>2 DEF RequestOK, ExchangeOK, Exchanging
<1>6. r.code \in Code
  BY <1>0, <1>3, <1>5, NumberFacts DEF Code
<1>7. ExchangeOK(r)
  BY <1>3, <1>5 DEF ExchangeOK
<1>8. ExchangeOK(r) /\ WasOK(r) /\ r.pc \notin Refreshing
  BY <1>2, <1>3, <1>7 DEF RequestOK, WasOK, Exchanging, Refreshing
<1>9. faults' \in 0..MaxFaults
  BY <1>0, <1>4, FaultFacts
<1>10. /\ entry' \in [Code -> Entry]
       /\ \A d \in Code : entry'[d] = entry[d] \/ entry'[d] = NoEntry
       /\ kept \subseteq kept' /\ kept' \subseteq 1..issued
       /\ entry'[r.code].ttl = 0 \/ r.code \in kept'
  <2>1. entry \in [Code -> Entry] /\ kept \subseteq 1..issued /\ r.code \in 1..issued
    BY <1>0, <1>3, <1>5 DEF ShapeInv, TypeOK
  <2> QED
    BY <1>4, <1>6, <2>1, NoRequestFacts
<1>11. r.token \subseteq tokens
  BY <1>0, <1>3 DEF TypeOK
<1> QED
  BY <1>3, <1>4, <1>8, <1>9, <1>10, <1>11, RequestStep

(* A request that is refused, fails or dies.                               *)
LEMMA EndsIInv ==
    ASSUME IInv, NEW h \in Handler, RefreshDenied(h) \/ ExchangeSignFails(h) \/ Crash(h)
    PROVE  IInv'
<1>1. /\ Respond(h) /\ (Fault \/ NoFault) /\ UNCHANGED <<loaded, codes, banned, tokens, grants>>
  BY DEF RefreshDenied, ExchangeSignFails, Crash, NoFault
<1> QED
  BY <1>1, RespondIInv

-----------------------------------------------------------------------------
(* What the tokens that are signed say.                                    *)
LEMMA AccessFacts ==
    ASSUME NEW sub \in Client \cup User, NEW aud \in Audience,
           NEW scopes \in SUBSET (Scope \cup {Offline, Verified, Svc}),
           NEW svc \in Client \cup {Nobody}, NEW g \in 1..MaxGrants,
           NEW t, t = Access(sub, aud, scopes, svc, g)
    PROVE  /\ t \in Token /\ t.kind = "access" /\ t.sub = sub /\ t.aud = aud /\ t.azp = Nobody
           /\ t.scopes = scopes /\ t.svc = svc /\ t.grant = g
  BY DEF Access, Token

LEMMA RefreshFacts ==
    ASSUME NEW sub \in Client \cup User, NEW aud \in Audience,
           NEW azp \in Client, NEW scopes \in SUBSET (Scope \cup {Offline, Verified, Svc}),
           NEW g \in 1..MaxGrants,
           NEW t, t = Refresh(sub, aud, azp, scopes, g)
    PROVE  /\ t \in Token /\ t.kind = "refresh" /\ t.sub = sub /\ t.aud = aud /\ t.azp = azp
           /\ t.scopes = scopes /\ t.svc = Nobody /\ t.grant = g
  BY DEF Refresh, Token

LEMMA AudienceFacts ==
    /\ "service" \in Audience /\ "user" \in Audience
    /\ \A rec : ClientAudience(rec) \in Audience
  BY DEF ClientAudience, Audience

(* A new grant comes last and leaves the others alone.                     *)
LEMMA NewGrant ==
    ASSUME ShapeInv, TypeOK, NEW g \in Grant, grants' = Append(grants, g), Len(grants) + 1 <= MaxGrants
    PROVE  /\ Len(grants) + 1 \in 1..MaxGrants /\ Len(grants) + 1 \in DOMAIN grants'
           /\ grants'[Len(grants) + 1] = g
<1>1. grants \in Seq(Grant) /\ Len(grants) \in Nat
  BY DEF ShapeInv
<1> QED
  BY <1>1, AppendFacts, NumberFacts

LEMMA ClientCredentialsIInv ==
    ASSUME IInv, NEW c \in Client, NEW s \in Secret, NEW want \in SUBSET (Scope \cup {Offline}),
           ClientCredentials(c, s, want)
    PROVE  IInv'
<1>0. ShapeInv /\ TypeOK
  BY DEF IInv
<1>1. PICK scopes : scopes = want \ {Offline}
  OBVIOUS
<1>2. PICK g : g = [client |-> c, sub |-> c, scopes |-> scopes,
                    ver |-> loaded, code |-> 0, spent |-> "no"]
  OBVIOUS
<1>3. PICK n : n = Len(grants) + 1
  OBVIOUS
<1>4. PICK aud \in Audience : aud = ClientAudience(Registry[loaded][c])
  BY AudienceFacts
<1>5. PICK svc \in {Nobody, c} : svc = IF scopes = {} THEN Nobody ELSE c
  OBVIOUS
<1>6. /\ n <= MaxGrants /\ MayHave(c, scopes) /\ grants' = Append(grants, g)
      /\ tokens' = tokens \cup {Access(c, aud, scopes, svc, n)}
                     \cup (IF Offline \in want THEN {Refresh(c, "service", c, want, n)} ELSE {})
      /\ UNCHANGED <<loaded, entry, issued, kept, banned, req, faults>>
  BY <1>1, <1>2, <1>3, <1>4, <1>5 DEF ClientCredentials, codes
<1>7. /\ g \in Grant /\ g.client = c /\ g.sub = c /\ g.scopes = scopes /\ g.ver = loaded
      /\ g.code = 0 /\ g.spent = "no"
  <2>1. loaded \in Nat
    BY <1>0, NumberFacts
  <2> QED
    BY <1>1, <1>2, <2>1 DEF Grant
<1>8. NewGrantOK(g)
  <2>1. g.code <= issued /\ g.code \notin Code
    BY <1>0, <1>7, NumberFacts DEF Code
  <2> QED
    BY <1>6, <1>7, <2>1 DEF NewGrantOK, MayHave
<1>9. n \in 1..MaxGrants /\ n \in DOMAIN grants' /\ grants'[n] = g
  BY <1>0, <1>3, <1>6, <1>7, NewGrant
<1>10. g.ver # 0
  BY <1>0, <1>7, NumberFacts
<1>11. ASSUME NEW t \in tokens', t \notin tokens
       PROVE  t \in Token /\ t.grant \in DOMAIN grants' /\ TokenOK(t, grants'[t.grant])
  <2>1. CASE t = Access(c, aud, scopes, svc, n)
    <3>1. /\ t \in Token /\ t.kind = "access" /\ t.sub = c /\ t.azp = Nobody
          /\ t.scopes = scopes /\ t.svc = svc /\ t.grant = n
      BY <1>1, <1>9, <2>1, AccessFacts
    <3> QED
      BY <1>1, <1>5, <1>7, <1>9, <1>10, <3>1 DEF TokenOK
  <2>2. CASE t = Refresh(c, "service", c, want, n)
    <3>1. /\ t \in Token /\ t.kind = "refresh" /\ t.sub = c /\ t.azp = c
          /\ t.scopes = want /\ t.svc = Nobody /\ t.grant = n
      BY <1>9, <2>2, RefreshFacts, AudienceFacts
    <3> QED
      BY <1>1, <1>7, <1>9, <1>10, <3>1 DEF TokenOK
  <2> QED
    BY <1>6, <1>11, <2>1, <2>2
<1> QED
  BY <1>3, <1>6, <1>8, <1>11, IssueStep

LEMMA PasskeyTokensIInv ==
    ASSUME IInv, NEW c \in Client, NEW u \in User, PasskeyTokens(c, u)
    PROVE  IInv'
<1>0. ShapeInv /\ TypeOK
  BY DEF IInv
<1>1. PICK g : g = [client |-> c, sub |-> u, scopes |-> {}, ver |-> 0, code |-> 0, spent |-> "no"]
  OBVIOUS
<1>2. PICK n : n = Len(grants) + 1
  OBVIOUS
<1>3. /\ n <= MaxGrants /\ grants' = Append(grants, g)
      /\ tokens' = tokens \cup {Access(u, "user", {Verified}, Nobody, n),
                                Refresh(u, "user", c, {Offline}, n)}
      /\ UNCHANGED <<loaded, entry, issued, kept, banned, req, faults>>
  BY <1>1, <1>2 DEF PasskeyTokens, codes
<1>5. /\ g \in Grant /\ g.client = c /\ g.sub = u /\ g.scopes = {} /\ g.ver = 0
      /\ g.code = 0 /\ g.spent = "no"
  BY <1>1 DEF Grant
<1>6. NewGrantOK(g)
  <2>1. g.code <= issued /\ g.code \notin Code
    BY <1>0, <1>5, NumberFacts DEF Code
  <2> QED
    BY <1>5, <2>1 DEF NewGrantOK
<1>7. n \in 1..MaxGrants /\ n \in DOMAIN grants' /\ grants'[n] = g
  BY <1>0, <1>2, <1>3, <1>5, NewGrant
<1>8. ASSUME NEW t \in tokens', t \notin tokens
      PROVE  t \in Token /\ t.grant \in DOMAIN grants' /\ TokenOK(t, grants'[t.grant])
  <2>1. CASE t = Access(u, "user", {Verified}, Nobody, n)
    <3>1. /\ t \in Token /\ t.kind = "access" /\ t.sub = u /\ t.aud = "user" /\ t.azp = Nobody
          /\ t.scopes = {Verified} /\ t.svc = Nobody /\ t.grant = n
      BY <1>7, <2>1, AccessFacts, AudienceFacts
    <3> QED
      BY <1>5, <1>7, <3>1 DEF TokenOK
  <2>2. CASE t = Refresh(u, "user", c, {Offline}, n)
    <3>1. /\ t \in Token /\ t.kind = "refresh" /\ t.sub = u /\ t.aud = "user" /\ t.azp = c
          /\ t.scopes = {Offline} /\ t.svc = Nobody /\ t.grant = n
      BY <1>7, <2>2, RefreshFacts, AudienceFacts
    <3> QED
      BY <1>5, <1>7, <3>1 DEF TokenOK
  <2> QED
    BY <1>3, <1>8, <2>1, <2>2
<1> QED
  BY <1>2, <1>3, <1>6, <1>8, IssueStep

(* The tokens of an exchange: its code was deleted, or is kept.            *)
LEMMA ExchangeSignIInv == ASSUME IInv, NEW h \in Handler, ExchangeSign(h) PROVE IInv'
<1>0. ShapeInv /\ TypeOK /\ RequestInv
  BY DEF IInv
<1>1. PICK e : e = req[h].entry
  OBVIOUS
<1>2. PICK n : n = Len(grants) + 1
  OBVIOUS
<1>3. PICK g : g = [client |-> e.client, sub |-> e.user, scopes |-> e.scopes, ver |-> 0,
                    code |-> req[h].code, spent |-> req[h].spent]
  OBVIOUS
<1>4. /\ req[h].pc = "exchangeSign" /\ n <= MaxGrants /\ grants' = Append(grants, g)
      /\ tokens' = tokens \cup {Access(e.user, "user", e.scopes, Nobody, n),
                                Refresh(e.user, "user", req[h].client, {Offline} \cup e.scopes, n)}
      /\ Respond(h)
      /\ UNCHANGED <<loaded, entry, issued, kept, banned, faults>>
  BY <1>1, <1>2, <1>3 DEF ExchangeSign, codes
<1>5. req[h] \in Request /\ ExchangeOK(req[h])
  BY <1>0, <1>4 DEF ShapeInv, RequestInv, RequestOK, Exchanging
<1>6. /\ e.client \in Client /\ req[h].client = e.client /\ e.user \in Client \cup User
      /\ req[h].code \in 1..issued /\ (req[h].spent = "yes" => req[h].code \in kept)
  BY <1>1, <1>5 DEF ExchangeOK
<1>7. e.scopes \in SUBSET (Scope \cup {Offline, Svc}) /\ req[h].spent \in {"yes", "no"}
  BY <1>1, <1>5 DEF Request, Entry
<1>8. req[h].code \in Nat /\ req[h].code \in Code /\ req[h].code <= issued
  BY <1>0, <1>6, NumberFacts DEF Code
<1>9. /\ g \in Grant /\ g.client = e.client /\ g.sub = e.user /\ g.scopes = e.scopes
      /\ g.ver = 0 /\ g.code = req[h].code /\ g.spent = req[h].spent
  BY <1>3, <1>6, <1>7, <1>8 DEF Grant
<1>11. NewGrantOK(g)
  <2>1. req[h].code \in Deleted
    BY <1>4, <1>8 DEF Deleted
  <2> QED
    BY <1>6, <1>8, <1>9, <2>1 DEF NewGrantOK
<1>12. n \in 1..MaxGrants /\ n \in DOMAIN grants' /\ grants'[n] = g
  BY <1>0, <1>2, <1>4, <1>9, NewGrant
<1>13. ASSUME NEW t \in tokens', t \notin tokens
       PROVE  t \in Token /\ t.grant \in DOMAIN grants' /\ TokenOK(t, grants'[t.grant])
  <2>1. CASE t = Access(e.user, "user", e.scopes, Nobody, n)
    <3>1. /\ t \in Token /\ t.kind = "access" /\ t.sub = e.user /\ t.aud = "user" /\ t.azp = Nobody
          /\ t.scopes = e.scopes /\ t.svc = Nobody /\ t.grant = n
      BY <1>6, <1>7, <1>12, <2>1, AccessFacts, AudienceFacts
    <3> QED
      BY <1>9, <1>12, <3>1 DEF TokenOK
  <2>2. CASE t = Refresh(e.user, "user", req[h].client, {Offline} \cup e.scopes, n)
    <3>1. /\ t \in Token /\ t.kind = "refresh" /\ t.sub = e.user /\ t.aud = "user"
          /\ t.azp = e.client /\ t.scopes = {Offline} \cup e.scopes /\ t.svc = Nobody /\ t.grant = n
      BY <1>6, <1>7, <1>12, <2>2, RefreshFacts, AudienceFacts
    <3> QED
      BY <1>9, <1>12, <3>1 DEF TokenOK
  <2> QED
    BY <1>4, <1>13, <2>1, <2>2
<1> QED
  BY <1>2, <1>4, <1>11, <1>13, IssueStep

(* A refresh signs for the grant of the old token.                         *)
LEMMA RefreshSignIInv == ASSUME IInv, NEW h \in Handler, RefreshSign(h) PROVE IInv'
<1>0. ShapeInv /\ TypeOK /\ TokenInv /\ RequestInv
  BY DEF IInv
<1>1. PICK t \in req[h].token :
         tokens' = tokens \cup
            {Access(t.sub, t.aud, RefreshScopes(h, t),
                    IF IsUserSession(t) THEN Nobody ELSE req[h].client, t.grant),
             Refresh(t.sub, t.aud, req[h].client, t.scopes, t.grant)}
  BY DEF RefreshSign
<1>2. /\ req[h].pc = "refreshSign" /\ Respond(h) /\ grants' = grants
      /\ UNCHANGED <<loaded, entry, issued, kept, banned, faults>>
  BY DEF RefreshSign, codes
<1>3. PICK c : c = req[h].client
  OBVIOUS
<1>4. c \in Client /\ t.kind = "refresh" /\ t.azp = c
  BY <1>0, <1>2, <1>3 DEF RequestInv, RequestOK, RefreshOK, Refreshing
<1>5. t \in tokens /\ t \in Token /\ t.grant \in DOMAIN grants /\ TokenOK(t, grants[t.grant])
  BY <1>0, <1>1 DEF TypeOK, TokenInv
<1>6. /\ t.sub \in Client \cup User /\ t.aud \in Audience /\ t.grant \in 1..MaxGrants
      /\ t.scopes \in SUBSET (Scope \cup {Offline, Verified, Svc})
  BY <1>5 DEF Token
<1>7. c # Nobody
  BY <1>4, NamesAssumption
<1>8. PICK g : g = grants[t.grant]
  OBVIOUS
<1>9. /\ t.sub = g.sub /\ g.client = c /\ (g.ver = 0 => t.aud = "user")
      /\ t.scopes \ {Offline} = g.scopes \ {Offline}
  BY <1>4, <1>5, <1>8 DEF TokenOK
<1>10. IsUserSession(t) <=> t.sub # c
  BY <1>4, <1>7 DEF IsUserSession
<1>11. g.ver # 0 => g.sub = g.client
  BY <1>0, <1>5, <1>8 DEF IInv, GrantInv
<1>12. PICK scopes : scopes = RefreshScopes(h, t)
  OBVIOUS
<1>13. /\ (t.sub = c => scopes = t.scopes \ {Offline})
       /\ (t.sub # c => scopes = {Verified} /\ g.ver = 0)
  BY <1>9, <1>10, <1>11, <1>12 DEF RefreshScopes
<1>14. PICK svc : svc = IF IsUserSession(t) THEN Nobody ELSE c
  OBVIOUS
<1>15. svc \in Client \cup {Nobody} /\ (svc # Nobody => svc = c /\ t.sub = c)
  BY <1>4, <1>10, <1>14
<1>16. scopes \in SUBSET (Scope \cup {Offline, Verified, Svc})
  BY <1>6, <1>13
<1>17. tokens' = tokens \cup {Access(t.sub, t.aud, scopes, svc, t.grant),
                              Refresh(t.sub, t.aud, c, t.scopes, t.grant)}
  BY <1>1, <1>3, <1>12, <1>14
<1>18. ASSUME NEW x \in tokens', x \notin tokens
       PROVE  x \in Token /\ x.grant \in DOMAIN grants' /\ TokenOK(x, grants'[x.grant])
  <2>1. CASE x = Access(t.sub, t.aud, scopes, svc, t.grant)
    <3>1. /\ x \in Token /\ x.kind = "access" /\ x.sub = t.sub /\ x.aud = t.aud /\ x.azp = Nobody
          /\ x.scopes = scopes /\ x.svc = svc /\ x.grant = t.grant
      BY <1>6, <1>15, <1>16, <2>1, AccessFacts
    <3>2. TokenOK(x, g)
      <4>1. \/ x.scopes \ {Offline} = g.scopes \ {Offline}
            \/ g.ver = 0 /\ x.kind = "access" /\ x.scopes = {Verified}
        BY <1>9, <1>13, <3>1
      <4> QED
        BY <1>9, <1>15, <3>1, <4>1 DEF TokenOK
    <3> QED
      BY <1>2, <1>5, <1>8, <3>1, <3>2
  <2>2. CASE x = Refresh(t.sub, t.aud, c, t.scopes, t.grant)
    <3>1. /\ x \in Token /\ x.kind = "refresh" /\ x.sub = t.sub /\ x.aud = t.aud /\ x.azp = c
          /\ x.scopes = t.scopes /\ x.svc = Nobody /\ x.grant = t.grant
      BY <1>4, <1>6, <2>2, RefreshFacts
    <3>2. TokenOK(x, g)
      BY <1>9, <3>1 DEF TokenOK
    <3> QED
      BY <1>2, <1>5, <1>8, <3>1, <3>2
  <2> QED
    BY <1>17, <1>18, <2>1, <2>2
<1> QED
  BY <1>2, <1>17, <1>18, IssueStep

-----------------------------------------------------------------------------
LEMMA NextIInv == ASSUME IInv, [Next]_vars PROVE IInv'
<1>1. CASE UNCHANGED vars
  <2>1. UNCHANGED <<loaded, entry, issued, kept, banned, tokens, req, faults, grants>>
    BY <1>1 DEF vars, codes
  <2> QED
    BY <2>1, IssueStep
<1>2. CASE Tick
  BY <1>2, TickIInv
<1>3. CASE (\E u \in User : Ban(u)) \/ Reload
  BY <1>3, BanReloadIInv
<1>4. CASE \E u \in User : BanLapses(u)
  BY <1>4, BanLapsesIInv
<1>5. CASE \E c \in Client, s \in Secret, want \in SUBSET (Scope \cup {Offline}) :
               ClientCredentials(c, s, want)
  BY <1>5, ClientCredentialsIInv
<1>6. CASE \E c \in Client, u \in User : PasskeyTokens(c, u)
  BY <1>6, PasskeyTokensIInv
<1>7. CASE \E c \in Client, u \in UserId, want \in SUBSET (Scope \cup {Offline, Svc}) :
               Authorize(c, u, want)
  BY <1>7, AuthorizeIInv
<1>8. CASE Refused
  BY <1>1, <1>8 DEF Refused
<1>9. ASSUME NEW h \in Handler,
             \/ \E c \in Client, s \in Secret, t \in tokens : RefreshToken(h, c, s, t)
             \/ \E c \in Client, code \in Code : Exchange(h, c, code)
             \/ RefreshCheckBan(h) \/ RefreshSign(h) \/ RefreshDenied(h) \/ DeleteCode(h)
             \/ ExchangeCheckBan(h) \/ ExchangeSign(h) \/ ExchangeSignFails(h) \/ Crash(h)
      PROVE  IInv'
  <2>1. CASE \E c \in Client, s \in Secret, t \in tokens : RefreshToken(h, c, s, t)
    BY <2>1, RefreshTokenIInv
  <2>2. CASE \E c \in Client, code \in Code : Exchange(h, c, code)
    BY <2>2, ExchangeIInv
  <2>3. CASE RefreshCheckBan(h)
    BY <2>3, RefreshCheckBanIInv
  <2>4. CASE RefreshSign(h)
    BY <2>4, RefreshSignIInv
  <2>5. CASE DeleteCode(h)
    BY <2>5, DeleteCodeIInv
  <2>6. CASE ExchangeCheckBan(h)
    BY <2>6, ExchangeCheckBanIInv
  <2>7. CASE ExchangeSign(h)
    BY <2>7, ExchangeSignIInv
  <2>8. CASE RefreshDenied(h) \/ ExchangeSignFails(h) \/ Crash(h)
    BY <2>8, EndsIInv
  <2> QED
    BY <1>9, <2>1, <2>2, <2>3, <2>4, <2>5, <2>6, <2>7, <2>8
<1> QED
  BY <1>1, <1>2, <1>3, <1>4, <1>5, <1>6, <1>7, <1>8, <1>9 DEF Next

LEMMA Invariance == Spec => []IInv
  BY InitIInv, NextIInv, PTL DEF Spec

-----------------------------------------------------------------------------
(* Every variable keeps its type: no code has an entry before it was       *)
(* issued, and every token goes back to a grant.                           *)
THEOREM TypeCorrect == Spec => []TypeOK
<1>1. IInv => TypeOK
  BY DEF IInv
<1> QED
  BY <1>1, Invariance, PTL

(* The Delete of handleAuthorizationCode: an exchange that arrives after   *)
(* the code was exchanged gets tokens only if that Delete failed.          *)
THEOREM LateExchangesAreRefused == Spec => []LateExchangeRefused
<1>1. IInv => LateExchangeRefused
  BY DEF IInv
<1> QED
  BY <1>1, Invariance, PTL

(* The lookups before a refresh and an exchange sign: a user banned since  *)
(* the request arrived gets no tokens unless the lookup failed, or the     *)
(* session was granted a svc: scope.                                       *)
THEOREM BansStopTokens == Spec => []BanStopsTokens
<1>1. IInv => BanStopsTokens
  BY DEF IInv
<1> QED
  BY <1>1, Invariance, PTL

(* The azp check of the refresh grant and the claims it copies: a session  *)
(* keeps its subject and its client over all its refreshes, one that a     *)
(* login or a code opened has the audience user, and a svc: scope is only  *)
(* added where the subject is the client.  Users and clients may share     *)
(* names.                                                                  *)
THEOREM SessionsStayWithTheirClient == Spec => []SessionStaysWithItsClient
<1>1. IInv => SessionStaysWithItsClient
  <2> SUFFICES ASSUME IInv PROVE SessionStaysWithItsClient
    OBVIOUS
  <2>1. ASSUME NEW h \in Handler, NEW t \in req[h].token PROVE t.kind = "refresh"
    <3>1. req[h].pc \in {"idle"} \cup Refreshing \cup Exchanging /\ RequestOK(h)
      BY DEF IInv, ShapeInv, Request, RequestInv
    <3> QED
      BY <3>1 DEF RequestOK, RefreshOK, ExchangeOK
  <2>2. \A t \in tokens : TokenOK(t, grants[t.grant])
    BY DEF IInv, TokenInv
  <2> QED
    BY <2>1, <2>2 DEF SessionStaysWithItsClient, TokenOK
<1> QED
  BY <1>1, Invariance, PTL

(* The scopes that the grants sign: no refresh widens a session, and what  *)
(* client_credentials granted was allowed by the registry version of that  *)
(* moment.  Users and clients may share names.                             *)
THEOREM ScopesStayInTheGrant == Spec => []ScopesComeFromTheGrant
<1>1. IInv => ScopesComeFromTheGrant
  <2> SUFFICES ASSUME IInv PROVE ScopesComeFromTheGrant
    OBVIOUS
  <2>1. ASSUME NEW t \in tokens
        PROVE  /\ t.grant \in DOMAIN grants /\ TokenOK(t, grants[t.grant])
               /\ grants[t.grant].ver # 0 =>
                     (grants[t.grant].scopes # {} =>
                        HasScope(Registry[grants[t.grant].ver][grants[t.grant].client],
                                 grants[t.grant].scopes))
    BY DEF IInv, TokenInv, TypeOK, GrantInv
  <2> QED
    BY <2>1 DEF ScopesComeFromTheGrant, TokenOK
<1> QED
  BY <1>1, Invariance, PTL

(* The record that handleRefreshToken copies: whatever Watch reloads while *)
(* a service refresh is served, one version of the registry allowed both   *)
(* its secret and its audience.                                            *)
THEOREM RefreshesFollowOneVersion == Spec => RefreshFollowsOneVersion
<1> DEFINE OneVersion(h) ==
      (req[h].pc = "refreshSign" /\ tokens' # tokens /\ req'[h].pc = "idle")
          => \A t \in req[h].token :
                IsUserSession(t) \/ \E v \in req[h].ver..loaded :
                    /\ Registered(v, req[h].client)
                    /\ Registry[v][req[h].client].secret = req[h].secret
                    /\ AudienceAllowed(Registry[v][req[h].client], t.aud)
<1>1. ASSUME IInv, [Next]_vars PROVE [\A h \in Handler : OneVersion(h)]_vars
  <2> SUFFICES ASSUME NEW h \in Handler, req[h].pc = "refreshSign", tokens' # tokens,
                      req'[h].pc = "idle", NEW t \in req[h].token, ~IsUserSession(t)
               PROVE  \E v \in req[h].ver..loaded :
                        /\ Registered(v, req[h].client)
                        /\ Registry[v][req[h].client].secret = req[h].secret
                        /\ AudienceAllowed(Registry[v][req[h].client], t.aud)
    OBVIOUS
  <2>1. TypeOK /\ req \in [Handler -> Request] /\ RefreshOK(req[h])
    BY <1>1 DEF IInv, ShapeInv, RequestInv, RequestOK, Refreshing
  <2>2. RefreshSign(h)
    <3>1. req' # req
      BY <2>1
    <3>2. \E g \in Handler : RefreshSign(g) \/ ExchangeSign(g)
      BY <1>1, <3>1
         DEF Next, vars, Tick, Ban, BanLapses, Reload, ClientCredentials, PasskeyTokens, Authorize,
             Refused, RefreshToken, RefreshCheckBan, RefreshDenied, Exchange, DeleteCode,
             ExchangeCheckBan, ExchangeSignFails, Crash
    <3>3. PICK g \in Handler : RefreshSign(g) \/ ExchangeSign(g)
      BY <3>2
    <3>4. Respond(g) /\ req[g].pc \in {"refreshSign", "exchangeSign"}
      BY <3>3 DEF RefreshSign, ExchangeSign
    <3>5. g = h
      BY <2>1, <3>4 DEF Respond
    <3> QED
      BY <3>3, <3>5 DEF ExchangeSign
  <2>3. PICK u \in req[h].token : IsUserSession(u) \/ AudienceAllowed(RefreshRecord(h), u.aud)
    BY <2>2 DEF RefreshSign
  <2>4. u = t
    BY <2>1 DEF RefreshOK
  <2>5. AudienceAllowed(Registry[req[h].ver][req[h].client], t.aud)
    BY <2>3, <2>4 DEF RefreshRecord
  <2>6. req[h].ver \in req[h].ver..loaded
    <3>1. req[h].ver \in 1..loaded /\ loaded \in Nat
      BY <2>1, NumberFacts DEF RefreshOK
    <3> QED
      BY <3>1
  <2>7. Registered(req[h].ver, req[h].client) /\ Registry[req[h].ver][req[h].client].secret = req[h].secret
    BY <2>1 DEF RefreshOK
  <2> QED
    BY <2>5, <2>6, <2>7
<1> QED
  BY <1>1, Invariance, PTL DEF Spec, RefreshFollowsOneVersion
=============================================================================
