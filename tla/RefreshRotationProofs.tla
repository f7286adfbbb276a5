------------------------ MODULE RefreshRotationProofs ------------------------
(***************************************************************************)
(* Proofs about RefreshRotation, for any sets of handlers, clients and     *)
(* users, any token lifetimes and any bounds.                              *)
(***************************************************************************)
EXTENDS RefreshRotation, TLAPS

(* A jti that has not been signed has no denylist entry.                   *)
UnsignedIsNotDenied == \A j \in Jti : j > minted => revoked[j] = 0

(* The clock, the tokens and the denylists.                                *)
StoreInv ==
    /\ now \in 0..MaxTime
    /\ minted \in 0..MaxTokens
    /\ tok \in [Jti -> Token]
    /\ held \in SUBSET (1..minted)
    /\ revoked \in [Jti -> Nat]
    /\ revokedFamily \in [Jti -> Nat]
    /\ faults \in 0..MaxFaults
    /\ UnsignedIsNotDenied
    /\ DenylistCoversToken
    /\ FamilyEntryIsBacked

(* A request in progress: its types; the denylist entries it has seen were *)
(* stored and, as entries lapse but are never deleted, still count as      *)
(* stored; and the two properties of the requests the checks let through.  *)
GoodRequest(r) ==
    /\ r \in Request
    /\ r.jti \in 0..minted
    /\ r.new \in 0..minted
    /\ r.pc # "idle" => r.jti # 0 /\ r.res = "no"
    /\ r.pc = "rotate" => r.new # 0
    /\ r.pc = "storeFamily" => revoked[r.jti] # 0
    /\ "jti" \in r.deniedBy => r.jti # 0 /\ revoked[r.jti] # 0
    /\ "family" \in r.deniedBy => /\ r.jti # 0
                                 /\ tok[r.jti].family # 0
                                 /\ revokedFamily[tok[r.jti].family] # 0
    /\ ("jti" \in r.deniedBy /\ r.pc \in PastJtiCheck)
           => now + Second > tok[r.jti].exp
    /\ ("family" \in r.deniedBy /\ r.pc \in PastFamilyCheck)
           => \E k \in 1..minted : /\ tok[k].family = tok[r.jti].family
                                   /\ revoked[k] # 0
                                   /\ now + Second > tok[k].exp

IInv ==
    /\ StoreInv
    /\ req \in [Handler -> Request]
    /\ \A h \in Handler : GoodRequest(req[h])

(* How the stores may change: time passes, tokens are added and keep their *)
(* claims, and a denylist entry that was stored was stored.                *)
Evolves ==
    /\ now <= now'
    /\ minted <= minted'
    /\ \A j \in 1..minted : tok'[j] = tok[j]
    /\ \A j \in Jti : /\ revoked[j] # 0 => revoked'[j] # 0
                      /\ revokedFamily[j] # 0 => revokedFamily'[j] # 0

-----------------------------------------------------------------------------
(* Truncating a duration to whole seconds loses less than a second.        *)
LEMMA Truncation ==
    ASSUME NEW r \in Nat, NEW s \in Nat \ {0}
    PROVE  /\ r \div s \in Nat
           /\ (r \div s) * s \in Nat
           /\ (r \div s) * s + s > r
  OBVIOUS

(* StoreRevoked and StoreRevokedFamily keep an entry for a positive time   *)
(* that falls short of the token's remaining life by less than a second.   *)
LEMMA StoreTTLBounds ==
    ASSUME NEW r \in Nat \ {0}
    PROVE  /\ StoreTTL(r) \in Nat \ {0}
           /\ StoreTTL(r) + Second > r
  <1>1. /\ r \div Second \in Nat
        /\ (r \div Second) * Second \in Nat
        /\ (r \div Second) * Second + Second > r
    BY Truncation, TimeAssumption
  <1>2. CASE r \div Second >= 1
    <2>1. (r \div Second) * Second # 0
      BY <1>1, <1>2, TimeAssumption, SMTT(30)
    <2>2. QED
      BY <1>1, <1>2, <2>1, TimeAssumption DEF StoreTTL
  <1>3. CASE ~(r \div Second >= 1)
    <2>1. r \div Second = 0
      BY <1>1, <1>3
    <2>2. (r \div Second) * Second = 0
      BY <2>1, TimeAssumption
    <2>3. QED
      BY <1>1, <1>3, <2>2, TimeAssumption DEF StoreTTL
  <1>4. QED
    BY <1>2, <1>3

(* The expiry of a token signed now is an instant.                         *)
LEMMA ExpiryIsInstant ==
    ASSUME StoreInv, NEW ttl \in Nat
    PROVE  ExpiryOf(ttl) \in Nat
  <1>1. now \in Nat
    BY BoundsAssumption DEF StoreInv
  <1>2. now \div Second \in Nat
    BY <1>1, Truncation, TimeAssumption
  <1>3. QED
    BY <1>2, TimeAssumption, SMTT(30) DEF ExpiryOf

-----------------------------------------------------------------------------
(* What a request remembers survives whatever the other handlers do.       *)
LEMMA GoodRequestIsStable ==
    ASSUME StoreInv, StoreInv', Evolves, NEW r, GoodRequest(r)
    PROVE  GoodRequest(r)'
  <1>a. /\ minted \in Nat /\ minted' \in Nat /\ minted <= minted' /\ minted' <= MaxTokens
        /\ now \in Nat /\ now' \in Nat /\ now <= now'
        /\ tok \in [Jti -> Token] /\ tok' \in [Jti -> Token]
    BY BoundsAssumption DEF StoreInv, Evolves
  <1>b. r \in Request /\ r.jti \in 0..minted /\ r.new \in 0..minted
    BY DEF GoodRequest
  <1>1. /\ r \in Request
        /\ r.jti \in 0..minted'
        /\ r.new \in 0..minted'
        /\ r.pc # "idle" => r.jti # 0 /\ r.res = "no"
        /\ r.pc = "rotate" => r.new # 0
    <2>1. r.jti \in 0..minted' /\ r.new \in 0..minted'
      BY <1>a, <1>b
    <2>2. QED
      BY <1>b, <2>1 DEF GoodRequest
  <1>2. r.jti # 0 => /\ r.jti \in Jti
                     /\ tok'[r.jti] = tok[r.jti]
                     /\ tok[r.jti] \in Token
    <2>1. r.jti # 0 => r.jti \in Jti /\ r.jti \in 1..minted
      BY <1>a, <1>b, BoundsAssumption DEF Jti
    <2>2. QED
      BY <1>a, <2>1 DEF Evolves
  <1>3. r.pc = "storeFamily" => revoked'[r.jti] # 0
    BY <1>2 DEF GoodRequest, Evolves
  <1>4. "jti" \in r.deniedBy => r.jti # 0 /\ revoked'[r.jti] # 0
    BY <1>2 DEF GoodRequest, Evolves
  <1>5. "family" \in r.deniedBy => /\ r.jti # 0
                                  /\ tok'[r.jti].family # 0
                                  /\ revokedFamily'[tok'[r.jti].family] # 0
    <2>1. ASSUME "family" \in r.deniedBy
          PROVE  /\ r.jti # 0 /\ tok[r.jti].family # 0
                 /\ revokedFamily[tok[r.jti].family] # 0
      BY <2>1 DEF GoodRequest
    <2>2. r.jti # 0 /\ tok[r.jti].family # 0 => tok[r.jti].family \in Jti
      BY <1>2, BoundsAssumption DEF Token, Family, Jti
    <2>3. QED
      BY <1>2, <2>1, <2>2 DEF Evolves
  <1>6. ("jti" \in r.deniedBy /\ r.pc \in PastJtiCheck)
           => now' + Second > tok'[r.jti].exp
    <2>1. ASSUME "jti" \in r.deniedBy, r.pc \in PastJtiCheck
          PROVE  r.jti # 0 /\ now + Second > tok[r.jti].exp
      BY <2>1 DEF GoodRequest
    <2>2. QED
      BY <1>a, <1>2, <2>1, TimeAssumption DEF Token
  <1>7. ASSUME "family" \in r.deniedBy, r.pc \in PastFamilyCheck
        PROVE  \E k \in 1..minted' : /\ tok'[k].family = tok'[r.jti].family
                                     /\ revoked'[k] # 0
                                     /\ now' + Second > tok'[k].exp
    <2>1. PICK k \in 1..minted : /\ tok[k].family = tok[r.jti].family
                                 /\ revoked[k] # 0
                                 /\ now + Second > tok[k].exp
      BY <1>7 DEF GoodRequest
    <2>2. k \in 1..minted' /\ k \in Jti /\ tok[k] \in Token
      BY <1>a, BoundsAssumption DEF Jti
    <2>3. tok'[k] = tok[k] /\ revoked'[k] # 0
      BY <2>1, <2>2 DEF Evolves
    <2>4. now' + Second > tok'[k].exp
      BY <1>a, <2>1, <2>2, <2>3, TimeAssumption DEF Token
    <2>5. QED
      BY <1>2, <1>5, <1>7, <2>1, <2>2, <2>3, <2>4
  <1>8. QED
    BY <1>1, <1>3, <1>4, <1>5, <1>6, <1>7 DEF GoodRequest

(* A step that changes one request, to a good one, and lets the stores     *)
(* evolve keeps the invariant.                                             *)
LEMMA RequestUpdate ==
    ASSUME IInv, StoreInv', Evolves, NEW h \in Handler, NEW r, GoodRequest(r)',
           req' = [req EXCEPT ![h] = r]
    PROVE  IInv'
  <1>1. req' \in [Handler -> Request]
    <2>1. r \in Request
      BY DEF GoodRequest
    <2>2. QED
      BY <2>1 DEF IInv
  <1>2. ASSUME NEW g \in Handler PROVE GoodRequest(req[g])'
    <2>1. CASE g = h
      <3>1. req'[g] = r
        BY <2>1 DEF IInv
      <3>2. QED
        BY <3>1 DEF GoodRequest
    <2>2. CASE g # h
      <3>1. req'[g] = req[g]
        BY <2>2 DEF IInv
      <3>2. StoreInv /\ GoodRequest(req[g])
        BY DEF IInv
      <3>3. PICK q : q = req[g]
        OBVIOUS
      <3>4. GoodRequest(q)
        BY <3>2, <3>3
      <3>5. GoodRequest(q)'
        BY <3>2, <3>4, GoodRequestIsStable
      <3>6. QED
        BY <3>1, <3>3, <3>5 DEF GoodRequest
    <2>3. QED
      BY <2>1, <2>2
  <1>3. QED
    BY <1>1, <1>2 DEF IInv

(* The claims of a signed token.                                           *)
LEMMA SignedToken ==
    ASSUME StoreInv, NEW j \in 1..minted
    PROVE  /\ minted \in Nat /\ now \in Nat /\ minted <= MaxTokens
           /\ j \in Jti
           /\ tok[j] \in Token
           /\ tok[j].exp \in Nat
           /\ tok[j].family # 0 => tok[j].family \in Jti
           /\ Remaining(j) \in Int
           /\ Remaining(j) > 0 => Remaining(j) \in Nat \ {0}
  <1>1. minted \in Nat /\ now \in Nat /\ minted <= MaxTokens
    BY BoundsAssumption DEF StoreInv
  <1>2. j \in Jti
    BY <1>1, BoundsAssumption DEF Jti
  <1>3. tok[j] \in Token
    BY <1>2 DEF StoreInv
  <1>4. tok[j].exp \in Nat /\ tok[j].family \in 0..MaxTokens
    BY <1>3 DEF Token, Family
  <1>5. tok[j].family # 0 => tok[j].family \in Jti
    BY <1>4, BoundsAssumption DEF Jti
  <1>6. Remaining(j) \in Int /\ (Remaining(j) > 0 => Remaining(j) \in Nat \ {0})
    BY <1>1, <1>4 DEF Remaining
  <1>7. QED
    BY <1>1, <1>2, <1>3, <1>4, <1>5, <1>6

-----------------------------------------------------------------------------
(* The five ways a step can treat the stores.                              *)

(* It leaves them alone.                                                   *)
LEMMA StoresUntouched ==
    ASSUME StoreInv, faults' \in 0..MaxFaults,
           UNCHANGED <<now, minted, tok, held, revoked, revokedFamily>>
    PROVE  StoreInv' /\ Evolves
  <1>1. StoreInv'
    BY DEF StoreInv, UnsignedIsNotDenied, DenylistCoversToken, FamilyEntryIsBacked
  <1>2. now \in Nat /\ minted \in Nat
    BY BoundsAssumption DEF StoreInv
  <1>3. QED
    BY <1>1, <1>2 DEF Evolves

(* It hands a signed token to a client.                                    *)
LEMMA HeldGrows ==
    ASSUME StoreInv, faults' \in 0..MaxFaults,
           held' \in SUBSET (1..minted),
           UNCHANGED <<now, minted, tok, revoked, revokedFamily>>
    PROVE  StoreInv' /\ Evolves
  <1>1. StoreInv'
    BY DEF StoreInv, UnsignedIsNotDenied, DenylistCoversToken, FamilyEntryIsBacked
  <1>2. now \in Nat /\ minted \in Nat
    BY BoundsAssumption DEF StoreInv
  <1>3. QED
    BY <1>1, <1>2 DEF Evolves

(* It signs a token.                                                       *)
LEMMA TokenSigned ==
    ASSUME StoreInv, faults' \in 0..MaxFaults,
           minted < MaxTokens, minted' = minted + 1,
           NEW t \in Token, tok' = [tok EXCEPT ![minted + 1] = t],
           held' \in SUBSET (1..minted'),
           UNCHANGED <<now, revoked, revokedFamily>>
    PROVE  StoreInv' /\ Evolves
  <1>1. /\ minted \in Nat /\ now \in Nat
        /\ minted + 1 \in Jti
        /\ tok \in [Jti -> Token]
        /\ 1..minted \subseteq 1..(minted + 1)
        /\ 1..minted \subseteq Jti
    BY BoundsAssumption DEF StoreInv, Jti
  <1>2. /\ tok' \in [Jti -> Token]
        /\ tok'[minted + 1] = t
        /\ \A j \in Jti : j # minted + 1 => tok'[j] = tok[j]
        /\ \A j \in 1..minted : tok'[j] = tok[j]
    BY <1>1
  <1>3. UnsignedIsNotDenied'
    BY <1>1 DEF StoreInv, UnsignedIsNotDenied, Jti
  <1>4. DenylistCoversToken'
    <2>1. revoked[minted + 1] = 0
      BY <1>1 DEF StoreInv, UnsignedIsNotDenied
    <2>2. QED
      BY <1>2, <2>1 DEF StoreInv, DenylistCoversToken
  <1>5. FamilyEntryIsBacked'
    BY <1>1, <1>2 DEF StoreInv, FamilyEntryIsBacked
  <1>6. StoreInv'
    <2>1. minted' \in 0..MaxTokens
      BY <1>1, BoundsAssumption
    <2>2. QED
      BY <1>2, <1>3, <1>4, <1>5, <2>1 DEF StoreInv
  <1>7. QED
    BY <1>1, <1>2, <1>6 DEF Evolves

(* StoreRevoked.                                                           *)
LEMMA TokenDenied ==
    ASSUME StoreInv, faults' \in 0..MaxFaults,
           NEW j \in 1..minted, Remaining(j) > 0,
           revoked' = [revoked EXCEPT ![j] = now + StoreTTL(Remaining(j))],
           held' \in SUBSET (1..minted),
           UNCHANGED <<now, minted, tok, revokedFamily>>
    PROVE  StoreInv' /\ Evolves /\ revoked'[j] # 0
  <1>1. /\ minted \in Nat /\ now \in Nat /\ minted <= MaxTokens
        /\ j \in Jti /\ tok[j] \in Token /\ tok[j].exp \in Nat
        /\ revoked \in [Jti -> Nat]
        /\ Remaining(j) \in Nat \ {0}
    BY SignedToken DEF StoreInv
  <1>2. PICK ttl \in Nat \ {0} : /\ ttl = StoreTTL(Remaining(j))
                                 /\ ttl + Second > Remaining(j)
    BY <1>1, StoreTTLBounds
  <1>3. /\ revoked' \in [Jti -> Nat]
        /\ revoked'[j] = now + ttl
        /\ revoked'[j] # 0
        /\ revoked'[j] + Second > tok[j].exp
        /\ \A i \in Jti : i # j => revoked'[i] = revoked[i]
        /\ \A i \in Jti : revoked[i] # 0 => revoked'[i] # 0
    BY <1>1, <1>2, TimeAssumption DEF Remaining
  <1>4. UnsignedIsNotDenied'
    BY <1>1, <1>3 DEF StoreInv, UnsignedIsNotDenied
  <1>5. DenylistCoversToken'
    BY <1>3 DEF StoreInv, DenylistCoversToken
  <1>6. FamilyEntryIsBacked'
    <2>1. 1..minted \subseteq Jti
      BY <1>1, BoundsAssumption DEF Jti
    <2>2. QED
      BY <1>3, <2>1 DEF StoreInv, FamilyEntryIsBacked
  <1>7. StoreInv'
    BY <1>3, <1>4, <1>5, <1>6 DEF StoreInv
  <1>8. QED
    BY <1>1, <1>3, <1>7 DEF Evolves

(* StoreRevokedFamily, on behalf of a denylisted member.                   *)
LEMMA FamilyDenied ==
    ASSUME StoreInv, faults' \in 0..MaxFaults,
           NEW j \in 1..minted, Remaining(j) > 0, revoked[j] # 0,
           tok[j].family # 0,
           revokedFamily' =
             [revokedFamily EXCEPT ![tok[j].family] = now + StoreTTL(Remaining(j))],
           UNCHANGED <<now, minted, tok, held, revoked>>
    PROVE  StoreInv' /\ Evolves
  <1>1. /\ minted \in Nat /\ now \in Nat /\ minted <= MaxTokens
        /\ j \in Jti /\ tok[j] \in Token /\ tok[j].exp \in Nat
        /\ tok[j].family \in Jti
        /\ revokedFamily \in [Jti -> Nat]
        /\ Remaining(j) \in Nat \ {0}
    BY SignedToken DEF StoreInv
  <1>2. PICK ttl \in Nat \ {0} : /\ ttl = StoreTTL(Remaining(j))
                                 /\ ttl + Second > Remaining(j)
    BY <1>1, StoreTTLBounds
  <1>3. PICK f \in Jti : f = tok[j].family
    BY <1>1
  <1>4. /\ revokedFamily' \in [Jti -> Nat]
        /\ revokedFamily'[f] = now + ttl
        /\ revokedFamily'[f] + Second > tok[j].exp
        /\ \A i \in Jti : i # f => revokedFamily'[i] = revokedFamily[i]
        /\ \A i \in Jti : revokedFamily[i] # 0 => revokedFamily'[i] # 0
    BY <1>1, <1>2, <1>3, TimeAssumption DEF Remaining
  <1>5. FamilyEntryIsBacked'
    BY <1>3, <1>4 DEF StoreInv, FamilyEntryIsBacked
  <1>6. StoreInv'
    BY <1>4, <1>5 DEF StoreInv, UnsignedIsNotDenied, DenylistCoversToken
  <1>7. QED
    BY <1>1, <1>4, <1>6 DEF Evolves

-----------------------------------------------------------------------------
(* A request that has been answered is a good one.                         *)
LEMMA Answered ==
    ASSUME IInv, StoreInv', Evolves, NEW h \in Handler,
           NEW res \in {"no", "yes"}, Respond(h, res)
    PROVE  IInv'
  <1>1. PICK q : q = [NoRequest EXCEPT !.res = res]
    OBVIOUS
  <1>2. minted' \in Nat
    BY BoundsAssumption DEF StoreInv
  <1>3. q \in Request /\ q.jti = 0 /\ q.new = 0 /\ q.pc = "idle" /\ q.deniedBy = {}
    BY <1>1, BoundsAssumption DEF NoRequest, Request, Pc, Family
  <1>4. GoodRequest(q)'
    BY <1>2, <1>3 DEF GoodRequest
  <1>5. req' = [req EXCEPT ![h] = q]
    BY <1>1 DEF Respond
  <1>6. QED
    BY <1>4, <1>5, RequestUpdate

(* Nor does moving on to the next call spoil a request, if the new pc      *)
(* keeps the promises of a good request.                                   *)
LEMMA MovedOn ==
    ASSUME IInv, NEW h \in Handler, NEW pc \in Pc \ {"idle", "rotate"}, Goto(h, pc),
           req[h].pc # "idle", faults' \in 0..MaxFaults,
           UNCHANGED <<now, minted, tok, held, revoked, revokedFamily>>,
           pc = "storeFamily" => revoked[req[h].jti] # 0,
           ("jti" \in req[h].deniedBy /\ pc \in PastJtiCheck)
               => now + Second > tok[req[h].jti].exp,
           ("family" \in req[h].deniedBy /\ pc \in PastFamilyCheck)
               => \E k \in 1..minted : /\ tok[k].family = tok[req[h].jti].family
                                       /\ revoked[k] # 0
                                       /\ now + Second > tok[k].exp
    PROVE  IInv'
  <1>1. StoreInv' /\ Evolves
    BY StoresUntouched DEF IInv
  <1>2. GoodRequest(req[h]) /\ req[h] \in Request
    BY DEF IInv
  <1>3. PICK q : q = [req[h] EXCEPT !.pc = pc]
    OBVIOUS
  <1>4. /\ q \in Request /\ q.pc = pc /\ q.jti = req[h].jti /\ q.new = req[h].new
        /\ q.deniedBy = req[h].deniedBy /\ q.res = req[h].res
    BY <1>2, <1>3 DEF Request
  <1>5. GoodRequest(q)
    BY <1>2, <1>4 DEF GoodRequest
  <1>6. GoodRequest(q)'
    BY <1>1, <1>5, GoodRequestIsStable DEF IInv
  <1>7. req' = [req EXCEPT ![h] = q]
    BY <1>3 DEF Goto
  <1>8. QED
    BY <1>1, <1>6, <1>7, RequestUpdate

(* An arriving request starts out good.                                    *)
LEMMA Arrived ==
    ASSUME IInv, NEW h \in Handler, NEW j, Begin(h, j, "isRevoked")
                 \/ Begin(h, j, "storeRevoked") \/ Begin(h, j, "inspect")
    PROVE  IInv'
  <1>1. PICK pc \in {"isRevoked", "storeRevoked", "inspect"} : Begin(h, j, pc)
    OBVIOUS
  <1>2. StoreInv
    BY DEF IInv
  <1>3. StoreInv' /\ Evolves
    <2>1. faults' \in 0..MaxFaults
      BY <1>1, <1>2 DEF Begin, StoreInv
    <2>2. QED
      BY <1>1, <1>2, <2>1, StoresUntouched DEF Begin
  <1>4. j \in 1..minted
    BY <1>1, <1>2 DEF Begin, StoreInv
  <1>5. PICK q : q = [pc |-> pc, jti |-> j, new |-> 0,
                      deniedBy |-> DeniedBy(j), res |-> "no"]
    OBVIOUS
  <1>6. /\ minted \in Nat /\ now \in Nat /\ minted <= MaxTokens
        /\ j \in Jti /\ tok[j] \in Token
        /\ tok[j].family # 0 => tok[j].family \in Jti
    BY <1>2, <1>4, SignedToken
  <1>7. PICK d \in SUBSET {"jti", "family"} : d = DeniedBy(j)
    BY DEF DeniedBy
  <1>8. /\ q \in Request
        /\ q.pc = pc /\ q.jti = j /\ q.new = 0 /\ q.deniedBy = DeniedBy(j)
        /\ q.res = "no"
    <2>1. q = [pc |-> pc, jti |-> j, new |-> 0, deniedBy |-> d, res |-> "no"]
      BY <1>5, <1>7
    <2>2. j \in Family /\ 0 \in Family /\ pc \in Pc
      BY <1>6, BoundsAssumption DEF Family, Jti, Pc
    <2>3. q \in Request
      BY <2>1, <2>2 DEF Request
    <2>4. QED
      BY <1>7, <2>1, <2>3
  <1>9. "jti" \in DeniedBy(j) => revoked[j] # 0
    <2>1. revoked[j] \in Nat
      BY <1>2, <1>6 DEF StoreInv
    <2>2. QED
      BY <1>6, <2>1 DEF DeniedBy, IsRevoked
  <1>10. "family" \in DeniedBy(j) => /\ tok[j].family # 0
                                     /\ revokedFamily[tok[j].family] # 0
    <2>1. tok[j].family # 0 => revokedFamily[tok[j].family] \in Nat
      BY <1>2, <1>6 DEF StoreInv
    <2>2. QED
      BY <1>6, <2>1 DEF DeniedBy, IsFamilyRevoked
  <1>11. GoodRequest(q)
    <2>1. q.jti \in 0..minted /\ q.new \in 0..minted /\ q.jti # 0
      BY <1>4, <1>6, <1>8
    <2>2. q.pc \notin {"idle", "rotate", "storeFamily"} \cup PastJtiCheck \cup PastFamilyCheck
      BY <1>1, <1>8 DEF PastJtiCheck, PastFamilyCheck
    <2>3. QED
      BY <1>8, <1>9, <1>10, <2>1, <2>2 DEF GoodRequest
  <1>12. GoodRequest(q)'
    BY <1>2, <1>3, <1>11, GoodRequestIsStable
  <1>13. req' = [req EXCEPT ![h] = q]
    BY <1>1, <1>5 DEF Begin
  <1>14. QED
    BY <1>3, <1>12, <1>13, RequestUpdate

-----------------------------------------------------------------------------
(* The invariant holds at the start.                                       *)
LEMMA InitIInv == Init => IInv
  <1> SUFFICES ASSUME Init PROVE IInv
    OBVIOUS
  <1>1. StoreInv
    BY BoundsAssumption, TimeAssumption
       DEF Init, StoreInv, UnsignedIsNotDenied, DenylistCoversToken,
           FamilyEntryIsBacked, Jti, Family, Token, BlankToken, Audience
  <1>2. NoRequest \in Request
    BY BoundsAssumption DEF NoRequest, Request, Pc, Family
  <1>3. GoodRequest(NoRequest)
    BY <1>2, BoundsAssumption DEF Init, GoodRequest, NoRequest
  <1>4. QED
    BY <1>1, <1>2, <1>3 DEF Init, IInv

(* A counted fault stays within its bound.                                 *)
LEMMA FaultBound ==
    ASSUME StoreInv, Fault \/ NoFault
    PROVE  faults' \in 0..MaxFaults
  BY BoundsAssumption DEF StoreInv, Fault, NoFault

(* Every step of the service keeps the invariant.                          *)
LEMMA StepIInv == IInv /\ [Next]_vars => IInv'
  <1> SUFFICES ASSUME IInv, [Next]_vars PROVE IInv'
    OBVIOUS
  <1>0. StoreInv /\ req \in [Handler -> Request] /\ \A h \in Handler : GoodRequest(req[h])
    BY DEF IInv
  <1>a. ASSUME NEW h \in Handler, req[h].pc # "idle" PROVE req[h].jti \in 1..minted
    <2>1. req[h].jti \in 0..minted /\ req[h].jti # 0
      BY <1>0, <1>a DEF GoodRequest
    <2>2. QED
      BY <2>1
  <1>1. CASE Tick
    <2>1. StoreInv' /\ Evolves
      BY <1>0, <1>1, BoundsAssumption
         DEF Tick, StoreInv, Evolves, UnsignedIsNotDenied, DenylistCoversToken,
             FamilyEntryIsBacked
    <2>2. ASSUME NEW h \in Handler PROVE GoodRequest(req[h])'
      <3>1. PICK q : q = req[h]
        OBVIOUS
      <3>2. GoodRequest(q)'
        BY <1>0, <2>1, <3>1, GoodRequestIsStable
      <3>3. QED
        BY <1>1, <3>1, <3>2 DEF Tick, GoodRequest
    <2>3. QED
      BY <1>0, <1>1, <2>1, <2>2 DEF IInv, Tick
  <1>2. ASSUME NEW c \in Client, NEW s \in Client \cup User, NEW aud \in Audience,
               NEW kind \in {"access", "refresh"}, IssueToken(c, s, aud, kind)
        PROVE  IInv'
    <2>1. PICK t : t = [family |-> IF kind = "refresh" THEN minted + 1 ELSE 0,
                        sub    |-> s,
                        azp    |-> IF kind = "refresh" THEN c ELSE Nobody,
                        aud    |-> aud,
                        exp    |-> ExpiryOf(IF kind = "refresh" THEN RefreshTTL
                                                                ELSE AccessTTL),
                        kind   |-> kind]
      OBVIOUS
    <2>2. ExpiryOf(IF kind = "refresh" THEN RefreshTTL ELSE AccessTTL) \in Nat
      BY <1>0, ExpiryIsInstant, TimeAssumption
    <2>3. minted \in Nat /\ minted < MaxTokens /\ minted + 1 \in Family /\ 0 \in Family
      BY <1>0, <1>2, BoundsAssumption DEF StoreInv, IssueToken, Family
    <2>4. t \in Token
      BY <2>1, <2>2, <2>3 DEF Token
    <2>5. /\ minted' = minted + 1
          /\ tok' = [tok EXCEPT ![minted + 1] = t]
          /\ UNCHANGED <<now, revoked, revokedFamily, req, faults>>
      BY <1>2, <2>1 DEF IssueToken
    <2>6. held' \in SUBSET (1..minted')
      BY <1>0, <1>2, <2>3 DEF IssueToken, StoreInv
    <2>7. faults' \in 0..MaxFaults
      BY <1>0, <2>5 DEF StoreInv
    <2>8. StoreInv' /\ Evolves
      BY <1>0, <2>3, <2>4, <2>5, <2>6, <2>7, TokenSigned
    <2>9. ASSUME NEW h \in Handler PROVE GoodRequest(req[h])'
      <3>1. PICK q : q = req[h]
        OBVIOUS
      <3>2. GoodRequest(q)'
        BY <1>0, <2>8, <3>1, GoodRequestIsStable
      <3>3. QED
        BY <2>5, <3>1, <3>2 DEF GoodRequest
    <2>10. QED
      BY <1>0, <2>5, <2>8, <2>9 DEF IInv
  <1>3. ASSUME NEW h \in Handler, NEW c \in Client, NEW j \in Jti,
               RefreshToken(h, c, j) \/ Revoke(h, c, j)
        PROVE  IInv'
    BY <1>3, Arrived DEF RefreshToken, Revoke
  <1>4. ASSUME NEW h \in Handler, NEW j \in Jti,
               Introspect(h, j) \/ Validate(h, j)
        PROVE  IInv'
    BY <1>4, Arrived DEF Introspect, Validate
  <1>5. ASSUME NEW h \in Handler, RefreshCheckRevoked(h) PROVE IInv'
    <2>1. faults' \in 0..MaxFaults
      BY <1>0, <1>5, FaultBound DEF RefreshCheckRevoked
    <2>2. StoreInv' /\ Evolves
      BY <1>0, <1>5, <2>1, StoresUntouched DEF RefreshCheckRevoked
    <2>3. CASE Respond(h, "no")
      BY <2>2, <2>3, Answered
    <2>4. CASE IsRevoked(req[h].jti) /\ Goto(h, "storeFamily")
      <3>1. revoked[req[h].jti] # 0
        <4>1. req[h].jti \in Jti /\ now \in Nat /\ revoked[req[h].jti] \in Nat
          BY <1>0, <1>5, <1>a, SignedToken DEF RefreshCheckRevoked, StoreInv
        <4>2. QED
          BY <2>4, <4>1 DEF IsRevoked
      <3>2. "storeFamily" \in Pc \ {"idle", "rotate"}
            /\ "storeFamily" \notin PastJtiCheck \cup PastFamilyCheck
        BY DEF Pc, PastJtiCheck, PastFamilyCheck
      <3>3. QED
        BY <1>5, <2>1, <2>4, <3>1, <3>2, MovedOn DEF RefreshCheckRevoked
    <2>5. CASE ~IsRevoked(req[h].jti) /\ Goto(h, "isFamilyRevoked")
      <3>1. "jti" \in req[h].deniedBy => now + Second > tok[req[h].jti].exp
        <4>1. /\ req[h].jti \in Jti /\ now \in Nat /\ tok[req[h].jti].exp \in Nat
              /\ revoked[req[h].jti] \in Nat
          BY <1>0, <1>5, <1>a, SignedToken DEF RefreshCheckRevoked, StoreInv
        <4>2. "jti" \in req[h].deniedBy => revoked[req[h].jti] # 0
          BY <1>0 DEF GoodRequest
        <4>3. revoked[req[h].jti] # 0
                => revoked[req[h].jti] + Second > tok[req[h].jti].exp
          BY <1>0, <4>1 DEF StoreInv, DenylistCoversToken
        <4>4. QED
          BY <2>5, <4>1, <4>2, <4>3, TimeAssumption DEF IsRevoked
      <3>2. "isFamilyRevoked" \in Pc \ {"idle", "rotate"}
            /\ "isFamilyRevoked" \notin PastFamilyCheck
        BY DEF Pc, PastFamilyCheck
      <3>3. QED
        BY <1>5, <2>1, <2>5, <3>1, <3>2, MovedOn DEF RefreshCheckRevoked
    <2>6. QED
      BY <1>5, <2>3, <2>4, <2>5 DEF RefreshCheckRevoked
  <1>6. ASSUME NEW h \in Handler, RefreshStoreFamily(h) PROVE IInv'
    <2>1. faults' \in 0..MaxFaults
      BY <1>0, <1>6, FaultBound DEF RefreshStoreFamily, MayFault
    <2>2. req[h].jti \in 1..minted /\ revoked[req[h].jti] # 0
      BY <1>0, <1>6, <1>a DEF RefreshStoreFamily, GoodRequest
    <2>3. StoreInv' /\ Evolves
      <3>1. CASE UNCHANGED revokedFamily
        BY <1>0, <1>6, <2>1, <3>1, StoresUntouched DEF RefreshStoreFamily
      <3>2. CASE ~UNCHANGED revokedFamily
        BY <1>0, <1>6, <2>1, <2>2, <3>2, FamilyDenied DEF RefreshStoreFamily
      <3>3. QED
        BY <3>1, <3>2
    <2>4. QED
      BY <1>6, <2>3, Answered DEF RefreshStoreFamily
  <1>7. ASSUME NEW h \in Handler, RefreshCheckFamily(h) PROVE IInv'
    <2>1. faults' \in 0..MaxFaults
      BY <1>0, <1>7, FaultBound DEF RefreshCheckFamily
    <2>2. StoreInv' /\ Evolves
      BY <1>0, <1>7, <2>1, StoresUntouched DEF RefreshCheckFamily
    <2>3. CASE Respond(h, "no")
      BY <2>2, <2>3, Answered
    <2>4. CASE ~IsFamilyRevoked(tok[req[h].jti].family) /\ Goto(h, "gate")
      <3>1. "jti" \in req[h].deniedBy => now + Second > tok[req[h].jti].exp
        BY <1>0, <1>7 DEF RefreshCheckFamily, GoodRequest, PastJtiCheck
      <3>2. ASSUME "family" \in req[h].deniedBy
            PROVE  \E k \in 1..minted : /\ tok[k].family = tok[req[h].jti].family
                                        /\ revoked[k] # 0
                                        /\ now + Second > tok[k].exp
        <4>1. PICK f : f = tok[req[h].jti].family
          OBVIOUS
        <4>2. f # 0 /\ revokedFamily[f] # 0
          BY <1>0, <3>2, <4>1 DEF GoodRequest
        <4>3. f \in Jti /\ now \in Nat
          BY <1>0, <1>7, <1>a, <4>1, <4>2, SignedToken DEF RefreshCheckFamily
        <4>4. PICK k \in 1..minted : /\ tok[k].family = f
                                     /\ revoked[k] # 0
                                     /\ revokedFamily[f] + Second > tok[k].exp
          BY <1>0, <4>2, <4>3 DEF StoreInv, FamilyEntryIsBacked
        <4>5. now >= revokedFamily[f] /\ revokedFamily[f] \in Nat
          BY <1>0, <2>4, <4>1, <4>2, <4>3 DEF IsFamilyRevoked, StoreInv
        <4>6. tok[k].exp \in Nat
          BY <1>0, SignedToken
        <4>7. now + Second > tok[k].exp
          BY <4>3, <4>4, <4>5, <4>6, TimeAssumption
        <4>8. QED
          BY <4>1, <4>4, <4>7
      <3>3. "gate" \in Pc \ {"idle", "rotate", "storeFamily"}
        BY DEF Pc
      <3>4. QED
        BY <1>7, <2>1, <2>4, <3>1, <3>2, <3>3, MovedOn DEF RefreshCheckFamily
    <2>5. QED
      BY <1>7, <2>3, <2>4 DEF RefreshCheckFamily
  <1>8. ASSUME NEW h \in Handler, RefreshGate(h) PROVE IInv'
    <2>1. faults' \in 0..MaxFaults
      BY <1>0, <1>8 DEF RefreshGate, StoreInv
    <2>2. StoreInv' /\ Evolves
      BY <1>0, <1>8, <2>1, StoresUntouched DEF RefreshGate
    <2>3. CASE Respond(h, "no")
      BY <2>2, <2>3, Answered
    <2>4. CASE Goto(h, "sign")
      <3>1. /\ "jti" \in req[h].deniedBy => now + Second > tok[req[h].jti].exp
            /\ "family" \in req[h].deniedBy
                 => \E k \in 1..minted : /\ tok[k].family = tok[req[h].jti].family
                                         /\ revoked[k] # 0
                                         /\ now + Second > tok[k].exp
        BY <1>0, <1>8 DEF RefreshGate, GoodRequest, PastJtiCheck, PastFamilyCheck
      <3>2. "sign" \in Pc \ {"idle", "rotate", "storeFamily"}
        BY DEF Pc
      <3>3. QED
        BY <1>8, <2>1, <2>4, <3>1, <3>2, MovedOn DEF RefreshGate
    <2>5. QED
      BY <1>8, <2>3, <2>4 DEF RefreshGate
  <1>9. ASSUME NEW h \in Handler, RefreshSign(h) PROVE IInv'
    <2>1. faults' \in 0..MaxFaults
      BY <1>0, <1>9, FaultBound DEF RefreshSign
    <2>2. CASE Respond(h, "no") /\ UNCHANGED <<minted, tok>>
      <3>1. StoreInv' /\ Evolves
        BY <1>0, <1>9, <2>1, <2>2, StoresUntouched DEF RefreshSign
      <3>2. QED
        BY <2>2, <3>1, Answered
    <2>3. CASE minted' = minted + 1
      <3>1. PICK t : t = [tok[req[h].jti] EXCEPT !.exp = ExpiryOf(RefreshTTL),
                                                 !.family = IF @ = 0 THEN minted + 1 ELSE @]
        OBVIOUS
      <3>2. minted \in Nat
        BY <1>0, BoundsAssumption DEF StoreInv
      <3>3. /\ minted < MaxTokens
            /\ tok' = [tok EXCEPT ![minted + 1] = t]
            /\ req' = [req EXCEPT ![h].pc = "rotate", ![h].new = minted + 1]
            /\ UNCHANGED <<now, held, revoked, revokedFamily>>
        BY <1>9, <2>3, <3>1, <3>2 DEF RefreshSign
      <3>4. t \in Token
        <4>1. tok[req[h].jti] \in Token
          BY <1>0, <1>9, <1>a, SignedToken DEF RefreshSign
        <4>2. ExpiryOf(RefreshTTL) \in Nat
          BY <1>0, ExpiryIsInstant, TimeAssumption
        <4>3. minted + 1 \in Family
          BY <3>2, <3>3, BoundsAssumption DEF Family
        <4>4. QED
          BY <3>1, <4>1, <4>2, <4>3 DEF Token
      <3>5. held' \in SUBSET (1..minted')
        BY <1>0, <2>3, <3>2, <3>3 DEF StoreInv
      <3>6. StoreInv' /\ Evolves
        BY <1>0, <2>1, <2>3, <3>3, <3>4, <3>5, TokenSigned
      <3>7. PICK p : p = [req[h] EXCEPT !.pc = "rotate"]
        OBVIOUS
      <3>8. /\ p \in Request /\ p.pc = "rotate" /\ p.jti = req[h].jti
            /\ p.deniedBy = req[h].deniedBy /\ p.new = req[h].new
            /\ p.res = req[h].res
        BY <1>0, <3>7 DEF Request, Pc
      <3>9. PICK q : q = [p EXCEPT !.new = minted + 1]
        OBVIOUS
      <3>10. minted + 1 \in Family /\ minted + 1 \in 0..minted' /\ minted + 1 # 0
        BY <2>3, <3>2, <3>3, BoundsAssumption DEF Family
      <3>11. /\ q \in Request /\ q.pc = "rotate" /\ q.jti = req[h].jti
             /\ q.deniedBy = req[h].deniedBy /\ q.new = minted + 1
             /\ q.res = req[h].res
        BY <3>8, <3>9, <3>10 DEF Request
      <3>12. PICK o : o = req[h]
        OBVIOUS
      <3>13. GoodRequest(o)'
        BY <1>0, <3>6, <3>12, GoodRequestIsStable
      <3>14. o.pc = "sign" /\ o.pc \in PastJtiCheck /\ o.pc \in PastFamilyCheck
        BY <1>9, <3>12 DEF RefreshSign, PastJtiCheck, PastFamilyCheck
      <3>15. GoodRequest(q)'
        BY <3>10, <3>11, <3>12, <3>13, <3>14 DEF GoodRequest
      <3>16. req' = [req EXCEPT ![h] = q]
        BY <1>0, <3>3, <3>7, <3>9
      <3>17. QED
        BY <3>6, <3>15, <3>16, RequestUpdate
    <2>4. QED
      BY <1>9, <2>2, <2>3 DEF RefreshSign
  <1>10. ASSUME NEW h \in Handler, RefreshRotate(h) PROVE IInv'
    <2>1. faults' \in 0..MaxFaults
      BY <1>0, <1>10, FaultBound DEF RefreshRotate, MayFault
    <2>2. req[h].jti \in 1..minted
      BY <1>10, <1>a DEF RefreshRotate
    <2>3. held' \in SUBSET (1..minted)
      <3>1. req[h].new \in 0..minted /\ req[h].new # 0 /\ minted \in Nat
        BY <1>0, <1>10, BoundsAssumption DEF RefreshRotate, GoodRequest, StoreInv
      <3>2. req[h].new \in 1..minted
        BY <3>1
      <3>3. QED
        BY <1>0, <1>10, <3>2 DEF RefreshRotate, StoreInv
    <2>4. StoreInv' /\ Evolves
      <3>1. CASE UNCHANGED revoked
        BY <1>0, <1>10, <2>1, <2>3, <3>1, HeldGrows DEF RefreshRotate
      <3>2. CASE ~UNCHANGED revoked
        BY <1>0, <1>10, <2>1, <2>2, <2>3, <3>2, TokenDenied DEF RefreshRotate
      <3>3. QED
        BY <3>1, <3>2
    <2>5. QED
      BY <1>10, <2>4, Answered DEF RefreshRotate
  <1>11. ASSUME NEW h \in Handler, RevokeStore(h) PROVE IInv'
    <2>1. faults' \in 0..MaxFaults
      BY <1>0, <1>11, FaultBound DEF RevokeStore
    <2>2. req[h].jti \in 1..minted
      BY <1>11, <1>a DEF RevokeStore
    <2>3. StoreInv' /\ Evolves
      <3>1. CASE UNCHANGED revoked
        BY <1>0, <1>11, <2>1, <3>1, StoresUntouched DEF RevokeStore
      <3>2. CASE ~UNCHANGED revoked
        <4>1. held' \in SUBSET (1..minted)
          BY <1>0, <1>11 DEF RevokeStore, StoreInv
        <4>2. QED
          BY <1>0, <1>11, <2>1, <2>2, <3>2, <4>1, TokenDenied DEF RevokeStore
      <3>3. QED
        BY <3>1, <3>2
    <2>4. QED
      BY <1>11, <2>3, Answered DEF RevokeStore
  <1>12. ASSUME NEW h \in Handler, InspectCheckRevoked(h) \/ Crash(h) PROVE IInv'
    <2>1. faults' \in 0..MaxFaults
      BY <1>0, <1>12, FaultBound DEF InspectCheckRevoked, Crash
    <2>2. StoreInv' /\ Evolves
      BY <1>0, <1>12, <2>1, StoresUntouched DEF InspectCheckRevoked, Crash
    <2>3. Respond(h, "no") \/ Respond(h, "yes")
      BY <1>12 DEF InspectCheckRevoked, Crash
    <2>4. QED
      BY <2>2, <2>3, Answered
  <1>13. CASE UNCHANGED vars
    BY <1>13
       DEF vars, IInv, StoreInv, UnsignedIsNotDenied, DenylistCoversToken,
           FamilyEntryIsBacked, GoodRequest
  <1>14. QED
    BY <1>1, <1>2, <1>3, <1>4, <1>5, <1>6, <1>7, <1>8, <1>9, <1>10, <1>11,
       <1>12, <1>13
       DEF Next, HandlerStep, RefreshRefused, RevokeRefused

LEMMA IInvAlways == Spec => []IInv
  BY InitIInv, StepIInv, PTL DEF Spec

-----------------------------------------------------------------------------
(* A denylist entry written by StoreRevoked (rotation or /oauth/revoke) is *)
(* less than a second short of its token's life, for every token lifetime, *)
(* tick size and interleaving.                                             *)
THEOREM DenylistCovers == Spec => []DenylistCoversToken
  <1>1. IInv => DenylistCoversToken
    BY DEF IInv, StoreInv
  <1>2. QED
    BY <1>1, IInvAlways, PTL

(* refreshRevocationDenied stops a refresh token that was denylisted when  *)
(* the request arrived, except in the token's last second.                 *)
THEOREM DeniedTokenIsRefused == Spec => []DeniedTokenNeverRefreshes
  <1>1. IInv => DeniedTokenNeverRefreshes
    BY DEF IInv, GoodRequest, DeniedTokenNeverRefreshes
  <1>2. QED
    BY <1>1, IInvAlways, PTL

(* A family revocation stops every member of the family at least until a   *)
(* reused member is within a second of its own expiry.                     *)
THEOREM RevokedFamilyIsRefused == Spec => []FamilyBlockLastsAsLongAsReused
  <1>1. IInv => FamilyBlockLastsAsLongAsReused
    BY DEF IInv, GoodRequest, FamilyBlockLastsAsLongAsReused
  <1>2. QED
    BY <1>1, IInvAlways, PTL

(* A family is revoked only over a member that was denied, for as long as  *)
(* that member has left: a Redis error is never taken for reuse.           *)
THEOREM FamilyRevocationIsBacked == Spec => []FamilyEntryIsBacked
  <1>1. IInv => FamilyEntryIsBacked
    BY DEF IInv, StoreInv
  <1>2. QED
    BY <1>1, IInvAlways, PTL

(* The step by which a request of handler h gets a positive answer is h's  *)
(* own.                                                                    *)
LEMMA AnsweredByItself ==
    ASSUME IInv, Next, NEW h \in Handler, req[h].pc # "idle", req'[h].res = "yes"
    PROVE  HandlerStep(h)
  <1>1. req[h].res = "no" /\ req \in [Handler -> Request]
    BY DEF IInv, GoodRequest
  <1>2. ASSUME NEW g \in Handler, HandlerStep(g), g # h PROVE FALSE
    <2>1. req'[h] = req[h]
      BY <1>1, <1>2
         DEF HandlerStep, RefreshCheckRevoked, RefreshStoreFamily, RefreshCheckFamily,
             RefreshGate, RefreshSign, RefreshRotate, RevokeStore,
             InspectCheckRevoked, Goto, Respond
    <2>2. QED
      BY <1>1, <2>1
  <1>3. ASSUME NEW g \in Handler, Crash(g) PROVE FALSE
    BY <1>1, <1>3 DEF Crash, Respond, NoRequest
  <1>4. ASSUME NEW g \in Handler, NEW j, NEW pc, Begin(g, j, pc) PROVE FALSE
    BY <1>1, <1>4 DEF Begin
  <1>5. UNCHANGED req => FALSE
    BY <1>1
  <1>6. QED
    BY <1>2, <1>3, <1>4, <1>5
       DEF Next, Tick, IssueToken, RefreshToken, Revoke, RefreshRefused,
           RevokeRefused, Introspect, Validate, vars

(* OAuthRevokeHandler never reports a live token revoked that it has not   *)
(* put in the denylist.                                                    *)
THEOREM RevokeIsTruthful == Spec => RevokeAnswerIsTrue
  <1>1. ASSUME IInv, [Next]_vars, NEW h \in Handler,
               req[h].pc = "storeRevoked", req'[h].res = "yes"
        PROVE  revoked'[req[h].jti] # 0 \/ now >= tok[req[h].jti].exp
    <2>1. Next
      BY <1>1 DEF vars, IInv, GoodRequest
    <2>2. RevokeStore(h)
      BY <1>1, <2>1, AnsweredByItself
         DEF HandlerStep, RefreshCheckRevoked, RefreshStoreFamily, RefreshCheckFamily,
             RefreshGate, RefreshSign, RefreshRotate, InspectCheckRevoked
    <2>3. StoreInv /\ req[h].jti \in 0..minted /\ req[h].jti # 0 /\ minted \in Nat
      BY <1>1, BoundsAssumption DEF IInv, StoreInv, GoodRequest
    <2>4. PICK j \in 1..minted : j = req[h].jti
      BY <2>3
    <2>5. /\ Remaining(j) \in Int /\ j \in Jti /\ now \in Nat /\ tok[j].exp \in Nat
          /\ Remaining(j) > 0 => Remaining(j) \in Nat \ {0}
          /\ revoked \in [Jti -> Nat]
      BY <2>3, SignedToken DEF StoreInv
    <2>6. CASE Remaining(j) <= 0
      BY <2>4, <2>5, <2>6 DEF Remaining
    <2>7. CASE Remaining(j) > 0
      <3>1. revoked' = [revoked EXCEPT ![j] = now + StoreTTL(Remaining(j))]
        <4>1. req[h].pc # "idle" /\ req \in [Handler -> Request]
          BY <1>1 DEF IInv
        <4>2. ~Respond(h, "no")
          BY <1>1, <4>1 DEF Respond, NoRequest
        <4>3. QED
          BY <2>2, <2>4, <2>5, <2>7, <4>2 DEF RevokeStore
      <3>2. StoreTTL(Remaining(j)) \in Nat \ {0}
        BY <2>5, <2>7, StoreTTLBounds
      <3>3. QED
        BY <2>4, <2>5, <3>1, <3>2
    <2>8. QED
      BY <2>5, <2>6, <2>7
  <1>2. IInv /\ [Next]_vars
          => [\A h \in Handler :
                (req[h].pc = "storeRevoked" /\ req'[h].res = "yes")
                    => revoked'[req[h].jti] # 0 \/ now >= tok[req[h].jti].exp]_vars
    BY <1>1
  <1>3. QED
    BY <1>2, IInvAlways, PTL DEF Spec, RevokeAnswerIsTrue

(* Introspect and validate report a token that was denylisted when the     *)
(* request arrived as active only because Redis failed, or in its last     *)
(* second.                                                                 *)
THEOREM InspectIsTruthful == Spec => InspectHonoursDenylist
  <1>1. ASSUME IInv, [Next]_vars, NEW h \in Handler, req[h].pc = "inspect",
               "jti" \in req[h].deniedBy, req'[h].res = "yes"
        PROVE  faults' = faults + 1 \/ now + Second > tok[req[h].jti].exp
    <2>1. Next
      BY <1>1 DEF vars, IInv, GoodRequest
    <2>2. InspectCheckRevoked(h)
      BY <1>1, <2>1, AnsweredByItself
         DEF HandlerStep, RefreshCheckRevoked, RefreshStoreFamily, RefreshCheckFamily,
             RefreshGate, RefreshSign, RefreshRotate, RevokeStore
    <2>3. /\ StoreInv /\ req[h].jti \in 0..minted /\ req[h].jti # 0 /\ minted \in Nat
          /\ revoked[req[h].jti] # 0
      BY <1>1, BoundsAssumption DEF IInv, StoreInv, GoodRequest
    <2>4. PICK j \in 1..minted : j = req[h].jti
      BY <2>3
    <2>5. /\ j \in Jti /\ now \in Nat /\ tok[j].exp \in Nat
          /\ revoked[j] \in Nat /\ revoked[j] + Second > tok[j].exp
      BY <2>3, <2>4, SignedToken DEF StoreInv, DenylistCoversToken
    <2>6. CASE Fault
      BY <2>6 DEF Fault
    <2>7. CASE ~IsRevoked(j)
      BY <2>4, <2>5, <2>7, TimeAssumption DEF IsRevoked
    <2>8. CASE Respond(h, "no")
      BY <1>1, <2>8 DEF Respond, NoRequest, IInv
    <2>9. QED
      BY <2>2, <2>4, <2>6, <2>7, <2>8 DEF InspectCheckRevoked
  <1>2. IInv /\ [Next]_vars
          => [\A h \in Handler :
                (req[h].pc = "inspect" /\ "jti" \in req[h].deniedBy
                    /\ req'[h].res = "yes")
                  => faults' = faults + 1 \/ now + Second > tok[req[h].jti].exp]_vars
    BY <1>1
  <1>3. QED
    BY <1>2, IInvAlways, PTL DEF Spec, InspectHonoursDenylist

-----------------------------------------------------------------------------
(* Why a family does not fork.  Below, a refresh in progress, and a token  *)
(* that was denied or has run out.                                         *)
Refreshing == {"isRevoked", "storeFamily"} \cup PastJtiCheck
Spent(j)   == revoked[j] # 0 \/ now >= tok[j].exp

(* A family is the jti of a token signed before, and every refresh token   *)
(* has one.                                                                *)
TokensInv ==
    \A j \in 1..minted : /\ tok[j].family <= minted
                         /\ tok[j].kind = "refresh" => tok[j].family # 0

(* A client has presented a refresh token, and the one signed for it is    *)
(* younger and of its family.                                              *)
RefreshInv ==
    \A h \in Handler :
        /\ req[h].pc \in Refreshing => /\ req[h].jti \in held
                                       /\ tok[req[h].jti].family # 0
        /\ req[h].pc = "rotate" => /\ req[h].jti < req[h].new
                                   /\ tok[req[h].new].family = tok[req[h].jti].family

(* In a family without a cause to fork: all the tokens that clients have,  *)
(* but the youngest, are spent,                                            *)
OlderInv ==
    \A j, k \in held :
        (j < k /\ tok[j].family = tok[k].family /\ tok[j].family \notin mayFork \cup {0})
            => Spent(j)

(* a refresh that was let through has the youngest,                        *)
YoungestInv ==
    \A h \in Handler, k \in held :
        (/\ req[h].pc \in PastJtiCheck
         /\ tok[k].family = tok[req[h].jti].family
         /\ tok[k].family \notin mayFork)
            => k <= req[h].jti

(* and no other refresh was let through with it.                           *)
AloneInv ==
    \A g, h \in Handler :
        (/\ g # h /\ req[g].jti = req[h].jti
         /\ req[g].pc \in PastJtiCheck /\ req[h].pc \in PastJtiCheck)
            => tok[req[h].jti].family \in mayFork

ForkInv ==
    /\ IInv
    /\ mayFork \subseteq Family
    /\ TokensInv
    /\ RefreshInv
    /\ OlderInv
    /\ YoungestInv
    /\ AloneInv

(* How the stores change as far as forks are concerned.                    *)
LEMMA SpentIsFinal ==
    ASSUME IInv, IInv', now <= now', NEW j \in 1..minted, tok'[j] = tok[j],
           revoked[j] # 0 => revoked'[j] # 0, Spent(j)
    PROVE  Spent(j)'
  <1>1. now \in Nat /\ now' \in Nat /\ tok[j].exp \in Nat
    BY SignedToken, BoundsAssumption DEF IInv, StoreInv
  <1>2. CASE revoked[j] # 0
    BY <1>2 DEF Spent
  <1>3. CASE now >= tok[j].exp
    <2>1. now' >= tok[j].exp
      BY <1>1, <1>3
    <2>2. QED
      BY <2>1 DEF Spent
  <1>4. QED
    BY <1>2, <1>3 DEF Spent

(* Only RevokeStore and RefreshRotate write the denylist of jtis, and they *)
(* never take an entry out.                                                *)
LEMMA DenialsStay ==
    ASSUME IInv, NEW h \in Handler, RevokeStore(h) \/ RefreshRotate(h),
           NEW i \in 1..minted, revoked[i] # 0
    PROVE  revoked'[i] # 0
  <1>1. PICK j : j = req[h].jti
    OBVIOUS
  <1>2. StoreInv /\ j \in 0..minted /\ j # 0
    BY <1>1 DEF IInv, GoodRequest, RevokeStore, RefreshRotate
  <1>3. PICK k \in 1..minted : k = j
    BY <1>2
  <1>4. /\ now \in Nat /\ k \in Jti /\ revoked \in [Jti -> Nat]
        /\ Remaining(k) > 0 => Remaining(k) \in Nat \ {0}
    BY <1>2, SignedToken DEF StoreInv
  <1>5. i \in Jti
    BY <1>2, SignedToken
  <1>6. CASE UNCHANGED revoked
    BY <1>6
  <1>7. CASE ~UNCHANGED revoked
    <2>1. Remaining(k) > 0 /\ revoked' = [revoked EXCEPT ![k] = now + StoreTTL(Remaining(k))]
      BY <1>1, <1>3, <1>7 DEF RevokeStore, RefreshRotate
    <2>2. PICK ttl \in Nat \ {0} : ttl = StoreTTL(Remaining(k))
      BY <1>4, <2>1, StoreTTLBounds
    <2>3. QED
      BY <1>4, <1>5, <2>1, <2>2
  <1>8. QED
    BY <1>6, <1>7

LEMMA ForkInit == Init => ForkInv
  <1> SUFFICES ASSUME Init PROVE ForkInv
    OBVIOUS
  <1>1. /\ minted = 0 /\ held = {} /\ mayFork = {}
        /\ \A h \in Handler : req[h].pc = "idle"
    BY DEF Init, NoRequest
  <1>2. TokensInv
    BY <1>1 DEF TokensInv
  <1>3. RefreshInv /\ YoungestInv /\ AloneInv /\ OlderInv
    BY <1>1 DEF RefreshInv, YoungestInv, AloneInv, OlderInv, Refreshing, PastJtiCheck
  <1>4. QED
    BY <1>1, <1>2, <1>3, InitIInv DEF ForkInv

(* A step that gives no client a token and lets no refresh through the     *)
(* lookup of its jti.                                                      *)
LEMMA NothingGiven ==
    ASSUME ForkInv, IInv', NEW h \in Handler, NEW r, req' = [req EXCEPT ![h] = r],
           UNCHANGED <<now, minted, tok, held, mayFork>>,
           \A i \in 1..minted : revoked[i] # 0 => revoked'[i] # 0,
           r.pc # "rotate",
           r.pc \in Refreshing => r.jti \in held /\ tok[r.jti].family # 0,
           r.pc \in PastJtiCheck => req[h].pc \in PastJtiCheck /\ r.jti = req[h].jti
    PROVE  ForkInv'
  <1>1. req'[h] = r /\ \A g \in Handler : g # h => req'[g] = req[g]
    BY DEF ForkInv, IInv
  <1>2. RefreshInv'
    BY <1>1 DEF ForkInv, RefreshInv
  <1>3. OlderInv'
    <2>1. ASSUME NEW j \in held, Spent(j) PROVE Spent(j)'
      <3>1. j \in 1..minted /\ now <= now'
        BY BoundsAssumption DEF ForkInv, IInv, StoreInv
      <3>2. QED
        BY <2>1, <3>1, SpentIsFinal DEF ForkInv
    <2>2. QED
      BY <2>1 DEF ForkInv, OlderInv
  <1>4. YoungestInv'
    BY <1>1 DEF ForkInv, YoungestInv
  <1>5. AloneInv'
    BY <1>1 DEF ForkInv, AloneInv
  <1>6. QED
    BY <1>2, <1>3, <1>4, <1>5 DEF ForkInv, TokensInv

LEMMA ForkTick == ASSUME ForkInv, IInv', Tick PROVE ForkInv'
  <1>1. /\ now' = now + 1
        /\ UNCHANGED <<minted, tok, held, revoked, revokedFamily, req, faults, mayFork>>
    BY DEF Tick
  <1>2. OlderInv'
    <2>1. ASSUME NEW j \in held, Spent(j) PROVE Spent(j)'
      <3>1. j \in 1..minted /\ now <= now'
        BY <1>1, BoundsAssumption DEF ForkInv, IInv, StoreInv
      <3>2. QED
        BY <1>1, <2>1, <3>1, SpentIsFinal DEF ForkInv
    <2>2. QED
      BY <1>1, <2>1 DEF ForkInv, OlderInv
  <1>3. QED
    BY <1>1, <1>2 DEF ForkInv, TokensInv, RefreshInv, YoungestInv, AloneInv

LEMMA ForkAnswered ==
    ASSUME ForkInv, IInv', NEW h \in Handler, NEW res, Respond(h, res),
           UNCHANGED <<now, minted, tok, held, mayFork>>,
           \A i \in 1..minted : revoked[i] # 0 => revoked'[i] # 0
    PROVE  ForkInv'
  <1>1. PICK q : q = [NoRequest EXCEPT !.res = res]
    OBVIOUS
  <1>2. q.pc = "idle" /\ req' = [req EXCEPT ![h] = q]
    BY <1>1 DEF NoRequest, Respond
  <1>3. q.pc \notin Refreshing /\ q.pc \notin PastJtiCheck
    BY <1>2 DEF Refreshing, PastJtiCheck
  <1>4. QED
    BY <1>2, <1>3, NothingGiven

(* A refresh token that a client presents has a family.                    *)
LEMMA ForkArrived ==
    ASSUME ForkInv, IInv', NEW h \in Handler, NEW j,
           NEW pc \in {"isRevoked", "storeRevoked", "inspect"}, Begin(h, j, pc),
           pc = "isRevoked" => tok[j].kind = "refresh"
    PROVE  ForkInv'
  <1>1. PICK r : r = [pc |-> pc, jti |-> j, new |-> 0, deniedBy |-> DeniedBy(j), res |-> "no"]
    OBVIOUS
  <1>2. /\ req' = [req EXCEPT ![h] = r] /\ r.pc = pc /\ r.jti = j /\ j \in held
        /\ UNCHANGED <<now, minted, tok, held, revoked, mayFork>>
    BY <1>1 DEF Begin
  <1>3. j \in 1..minted
    BY <1>2 DEF ForkInv, IInv, StoreInv
  <1>4. pc \in Refreshing => tok[j].family # 0
    BY <1>3 DEF ForkInv, TokensInv, Refreshing, PastJtiCheck
  <1>5. pc \notin PastJtiCheck
    BY DEF PastJtiCheck
  <1>6. QED
    BY <1>2, <1>4, <1>5, NothingGiven

LEMMA ForkMovedOn ==
    ASSUME ForkInv, IInv', NEW h \in Handler, NEW pc \in {"storeFamily", "gate", "sign"},
           Goto(h, pc), req[h].pc \in Refreshing,
           pc # "storeFamily" => req[h].pc \in PastJtiCheck,
           UNCHANGED <<now, minted, tok, held, revoked, mayFork>>
    PROVE  ForkInv'
  <1>1. req[h] \in Request
    BY DEF ForkInv, IInv
  <1>2. PICK r : r = [req[h] EXCEPT !.pc = pc]
    OBVIOUS
  <1>3. r.pc = pc /\ r.jti = req[h].jti /\ req' = [req EXCEPT ![h] = r]
    BY <1>1, <1>2 DEF Request, Goto
  <1>4. r.jti \in held /\ tok[r.jti].family # 0
    BY <1>3 DEF ForkInv, RefreshInv
  <1>5. r.pc \in PastJtiCheck => req[h].pc \in PastJtiCheck
    BY <1>3 DEF PastJtiCheck
  <1>6. QED
    BY <1>3, <1>4, <1>5, NothingGiven

(* A token that is let through as its only use is not spent, and therefore *)
(* the youngest of its family.                                             *)
LEMMA ForkLetThrough ==
    ASSUME ForkInv, IInv', NEW h \in Handler, req[h].pc = "isRevoked",
           ~IsRevoked(req[h].jti), Goto(h, "isFamilyRevoked"),
           mayFork' = IF AnotherUse(h) THEN mayFork \cup {tok[req[h].jti].family}
                                       ELSE mayFork,
           UNCHANGED <<now, minted, tok, held, revoked, revokedFamily>>
    PROVE  ForkInv'
  <1>1. PICK j : j = req[h].jti
    OBVIOUS
  <1>2. StoreInv /\ j \in held /\ tok[j].family # 0 /\ j \in 1..minted /\ now \in Nat
        /\ minted \in Nat /\ tok[j].exp \in Nat /\ tok[j].family \in Family
    <2>1. StoreInv /\ j \in held /\ tok[j].family # 0
      BY <1>1 DEF ForkInv, IInv, RefreshInv, Refreshing
    <2>2. j \in 1..minted
      BY <2>1 DEF StoreInv
    <2>3. QED
      BY <2>1, <2>2, SignedToken DEF Token
  <1>3. /\ req'[h].pc = "isFamilyRevoked" /\ req'[h].jti = j
        /\ \A g \in Handler : g # h => req'[g] = req[g]
    BY <1>1 DEF Goto, ForkInv, IInv, Request
  <1>4. mayFork \subseteq mayFork' /\ mayFork' \subseteq Family
    BY <1>1, <1>2 DEF ForkInv
  <1>5. AnotherUse(h) => tok[j].family \in mayFork'
    BY <1>1
  <1>6. RefreshInv'
    BY <1>2, <1>3 DEF ForkInv, RefreshInv
  <1>7. OlderInv'
    BY <1>4 DEF ForkInv, OlderInv, Spent
  <1>8. YoungestInv'
    <2>1. ASSUME NEW k \in held, tok[k].family = tok[j].family, ~AnotherUse(h),
                 tok[j].family \notin mayFork
          PROVE  k <= j
      <3>1. ~Spent(j)
        <4>1. revoked[j] = 0 /\ now < tok[j].exp
          BY <1>1, <2>1 DEF AnotherUse, Parses
        <4>2. QED
          BY <1>2, <4>1 DEF Spent
      <3>2. ~(j < k)
        BY <1>2, <2>1, <3>1 DEF ForkInv, OlderInv
      <3>3. QED
        BY <1>2, <3>2 DEF StoreInv
    <2>2. ASSUME NEW g \in Handler, NEW k \in held, req'[g].pc \in PastJtiCheck,
                 tok[k].family = tok[req'[g].jti].family, tok[k].family \notin mayFork'
          PROVE  k <= req'[g].jti
      <3>1. CASE g = h
        BY <1>3, <1>4, <1>5, <2>1, <2>2, <3>1
      <3>2. CASE g # h
        BY <1>3, <1>4, <2>2, <3>2 DEF ForkInv, YoungestInv
      <3>3. QED
        BY <3>1, <3>2
    <2>3. QED
      BY <2>2 DEF YoungestInv
  <1>9. AloneInv'
    <2>1. ASSUME NEW g \in Handler, g # h, req[g].jti = j, req[g].pc \in PastJtiCheck
          PROVE  tok[j].family \in mayFork'
      BY <1>1, <1>5, <2>1 DEF AnotherUse
    <2>2. QED
      BY <1>3, <1>4, <2>1 DEF ForkInv, AloneInv
  <1>10. QED
    BY <1>4, <1>6, <1>7, <1>8, <1>9 DEF ForkInv, TokensInv

(* What a request is about, and the family of a signed token.              *)
LEMMA ForkRequest ==
    ASSUME ForkInv, NEW h \in Handler, req[h].pc \in Refreshing
    PROVE  /\ req[h].jti \in held /\ req[h].jti \in 1..minted
           /\ tok[req[h].jti].family # 0
           /\ req[h].pc = "rotate" => req[h].new \in 1..minted /\ req[h].jti < req[h].new
  <1>1. req[h].jti \in held /\ tok[req[h].jti].family # 0
    BY DEF ForkInv, RefreshInv
  <1>2. req[h].jti \in 1..minted
    BY <1>1 DEF ForkInv, IInv, StoreInv
  <1>3. ASSUME req[h].pc = "rotate" PROVE req[h].new \in 1..minted /\ req[h].jti < req[h].new
    <2>1. req[h].new \in 0..minted /\ req[h].new # 0
      BY <1>3 DEF ForkInv, IInv, GoodRequest
    <2>2. req[h].new \in 1..minted
      BY <2>1
    <2>3. QED
      BY <1>3, <2>2 DEF ForkInv, RefreshInv
  <1>4. QED
    BY <1>1, <1>2, <1>3

LEMMA FamilyIsSigned ==
    ASSUME ForkInv, NEW j \in 1..minted
    PROVE  tok[j].family \in Nat /\ tok[j].family # minted + 1 /\ tok[j].family <= minted
  <1>1. StoreInv /\ tok[j].family <= minted
    BY DEF ForkInv, IInv, TokensInv
  <1>2. minted \in Nat /\ tok[j].family \in 0..MaxTokens
    BY <1>1, SignedToken DEF Token, Family
  <1>3. tok[j].family \in Nat
    BY <1>2, BoundsAssumption
  <1>4. QED
    BY <1>1, <1>2, <1>3

(* A token that is signed changes none of those before.                    *)
LEMMA ForkSigned ==
    ASSUME ForkInv, IInv', minted < MaxTokens, minted' = minted + 1, NEW t,
           tok' = [tok EXCEPT ![minted + 1] = t], t.family \in 1..(minted + 1) \/ t.family = 0,
           t.kind = "refresh" => t.family # 0
    PROVE  /\ tok'[minted + 1] = t /\ \A j \in 1..minted : tok'[j] = tok[j]
           /\ minted + 1 \notin 1..minted /\ held \subseteq 1..minted
           /\ minted \in Nat
           /\ TokensInv'
  <1>1. /\ minted \in Nat /\ minted + 1 \in Jti /\ 1..minted \subseteq Jti
        /\ 1..(minted + 1) = 1..minted \cup {minted + 1} /\ minted + 1 \notin 1..minted
        /\ tok \in [Jti -> Token] /\ held \subseteq 1..minted
    <2>1. /\ minted \in 0..MaxTokens /\ tok \in [Jti -> Token]
          /\ held \subseteq 1..minted
      BY DEF ForkInv, IInv, StoreInv
    <2>2. minted \in Nat
      BY <2>1, BoundsAssumption
    <2>3. /\ minted + 1 \in Jti /\ 1..minted \subseteq Jti
          /\ 1..(minted + 1) = 1..minted \cup {minted + 1} /\ minted + 1 \notin 1..minted
      BY <2>1, <2>2, BoundsAssumption DEF Jti
    <2>4. QED
      BY <2>1, <2>2, <2>3
  <1>2. tok'[minted + 1] = t /\ \A j \in 1..minted : tok'[j] = tok[j]
    BY <1>1
  <1>3. ASSUME NEW j \in 1..minted
        PROVE  /\ tok'[j].family <= minted + 1
               /\ tok'[j].kind = "refresh" => tok'[j].family # 0
    <2>1. tok[j].family \in Nat /\ tok[j].family <= minted
      BY FamilyIsSigned
    <2>2. tok[j].family <= minted + 1
      BY <1>1, <2>1
    <2>3. QED
      BY <1>2, <2>2 DEF ForkInv, TokensInv
  <1>4. t.family <= minted + 1
    BY <1>1
  <1>5. TokensInv'
    BY <1>1, <1>2, <1>3, <1>4 DEF TokensInv
  <1>6. QED
    BY <1>1, <1>2, <1>5

(* An issuance opens a family of its own.                                  *)
LEMMA ForkIssue ==
    ASSUME ForkInv, IInv', NEW c \in Client, NEW s \in Client \cup User,
           NEW aud \in Audience, NEW kind \in {"access", "refresh"},
           IssueToken(c, s, aud, kind)
    PROVE  ForkInv'
  <1>1. PICK t : t = [family |-> IF kind = "refresh" THEN minted + 1 ELSE 0,
                      sub    |-> s,
                      azp    |-> IF kind = "refresh" THEN c ELSE Nobody,
                      aud    |-> aud,
                      exp    |-> ExpiryOf(IF kind = "refresh" THEN RefreshTTL ELSE AccessTTL),
                      kind   |-> kind]
    OBVIOUS
  <1>2. /\ minted < MaxIssued /\ minted' = minted + 1
        /\ tok' = [tok EXCEPT ![minted + 1] = t] /\ held' = held \cup {minted + 1}
        /\ UNCHANGED <<now, revoked, revokedFamily, req, faults, mayFork>>
    BY <1>1 DEF IssueToken
  <1>3. t.kind = kind /\ t.family = IF kind = "refresh" THEN minted + 1 ELSE 0
    BY <1>1
  <1>4. minted \in Nat /\ minted < MaxTokens
    BY <1>2, BoundsAssumption DEF ForkInv, IInv, StoreInv
  <1>5. /\ t.family \in 1..(minted + 1) \/ t.family = 0
        /\ t.kind = "refresh" => t.family # 0
    BY <1>3, <1>4
  <1>6. /\ tok'[minted + 1] = t /\ \A j \in 1..minted : tok'[j] = tok[j]
        /\ minted + 1 \notin 1..minted /\ held \subseteq 1..minted /\ TokensInv'
    BY <1>2, <1>4, <1>5, ForkSigned
  <1>7. t.family = 0 \/ \A j \in 1..minted : tok[j].family # t.family
    BY <1>3, FamilyIsSigned
  <1>8. RefreshInv'
    <2>1. ASSUME NEW h \in Handler, req[h].pc \in Refreshing
          PROVE  req[h].jti \in held' /\ tok'[req[h].jti].family # 0
      BY <1>2, <1>6, <2>1, ForkRequest
    <2>2. ASSUME NEW h \in Handler, req[h].pc = "rotate"
          PROVE  /\ req[h].jti < req[h].new
                 /\ tok'[req[h].new].family = tok'[req[h].jti].family
      <3>1. req[h].pc \in Refreshing
        BY <2>2 DEF Refreshing, PastJtiCheck
      <3>2. req[h].new \in 1..minted /\ req[h].jti \in 1..minted /\ req[h].jti < req[h].new
        BY <2>2, <3>1, ForkRequest
      <3>3. tok[req[h].new].family = tok[req[h].jti].family
        BY <2>2 DEF ForkInv, RefreshInv
      <3>4. QED
        BY <1>6, <3>2, <3>3
    <2>3. QED
      BY <1>2, <2>1, <2>2 DEF RefreshInv
  <1>9. OlderInv'
    <2>1. ASSUME NEW j \in held', NEW k \in held', j < k, tok'[j].family = tok'[k].family,
                 tok'[j].family \notin mayFork \cup {0}
          PROVE  Spent(j)'
      <3>1. j \in 1..minted
        BY <1>2, <1>4, <1>6, <2>1
      <3>2. k \in held
        BY <1>2, <1>3, <1>6, <1>7, <2>1, <3>1
      <3>3. j \in held
        BY <1>2, <1>6, <3>1
      <3>4. Spent(j)
        BY <1>6, <2>1, <3>2, <3>3 DEF ForkInv, OlderInv
      <3>5. QED
        BY <1>2, <1>6, <3>1, <3>4 DEF Spent
    <2>2. QED
      BY <1>2, <2>1 DEF OlderInv
  <1>10. ASSUME NEW h \in Handler, req[h].pc \in PastJtiCheck
         PROVE  req[h].jti \in 1..minted /\ tok[req[h].jti].family # 0
    BY <1>10, ForkRequest DEF Refreshing
  <1>11. YoungestInv'
    <2>1. ASSUME NEW h \in Handler, NEW k \in held', req[h].pc \in PastJtiCheck,
                 tok'[k].family = tok'[req[h].jti].family, tok'[k].family \notin mayFork
          PROVE  k <= req[h].jti
      <3>1. req[h].jti \in 1..minted /\ tok[req[h].jti].family # 0
        BY <1>10, <2>1
      <3>2. k \in held
        BY <1>2, <1>6, <1>7, <2>1, <3>1
      <3>3. QED
        BY <1>6, <2>1, <3>1, <3>2 DEF ForkInv, YoungestInv
    <2>2. QED
      BY <1>2, <2>1 DEF YoungestInv
  <1>12. AloneInv'
    BY <1>2, <1>6, <1>10 DEF ForkInv, AloneInv
  <1>13. QED
    BY <1>2, <1>6, <1>8, <1>9, <1>11, <1>12 DEF ForkInv

(* The refreshed token is of the same family, but no client has it yet.    *)
LEMMA ForkSign ==
    ASSUME ForkInv, IInv', NEW h \in Handler, RefreshSign(h)
    PROVE  ForkInv'
  <1>1. req[h].pc = "sign" /\ UNCHANGED <<now, held, revoked, revokedFamily, mayFork>>
    BY DEF RefreshSign
  <1>2. CASE Respond(h, "no") /\ UNCHANGED <<minted, tok>>
    BY <1>1, <1>2, ForkAnswered
  <1>3. CASE minted' = minted + 1
    <2>1. PICK j : j = req[h].jti
      OBVIOUS
    <2>2. PICK old : old = tok[j]
      OBVIOUS
    <2>3. PICK t : t = [old EXCEPT !.exp = ExpiryOf(RefreshTTL),
                                   !.family = IF old.family = 0 THEN minted + 1 ELSE old.family]
      OBVIOUS
    <2>4. minted \in Nat
      BY BoundsAssumption DEF ForkInv, IInv, StoreInv
    <2>5. /\ minted < MaxTokens /\ tok' = [tok EXCEPT ![minted + 1] = t]
          /\ req' = [req EXCEPT ![h].pc = "rotate", ![h].new = minted + 1]
      BY <1>3, <2>1, <2>2, <2>3, <2>4 DEF RefreshSign
    <2>6. j \in held /\ j \in 1..minted /\ old.family # 0
      BY <1>1, <2>1, <2>2, ForkRequest DEF Refreshing, PastJtiCheck
    <2>7. old \in Token /\ old.family \in Nat /\ old.family <= minted
      BY <2>2, <2>6, SignedToken, FamilyIsSigned DEF ForkInv, IInv
    <2>8. t.family = old.family
      BY <2>3, <2>6, <2>7 DEF Token
    <2>9. t.family \in 1..(minted + 1)
      BY <2>4, <2>6, <2>7, <2>8
    <2>10. /\ tok'[minted + 1] = t /\ \A i \in 1..minted : tok'[i] = tok[i]
           /\ minted + 1 \notin 1..minted /\ held \subseteq 1..minted /\ TokensInv'
      BY <1>3, <2>4, <2>5, <2>6, <2>8, <2>9, ForkSigned
    <2>11. /\ req'[h].pc = "rotate" /\ req'[h].jti = j /\ req'[h].new = minted + 1
           /\ \A g \in Handler : g # h => req'[g] = req[g]
      BY <2>1, <2>5 DEF ForkInv, IInv, Request
    <2>12. RefreshInv'
      <3>1. ASSUME NEW g \in Handler, req'[g].pc \in Refreshing
            PROVE  req'[g].jti \in held /\ tok'[req'[g].jti].family # 0
        <4>1. CASE g = h
          BY <2>2, <2>6, <2>10, <2>11, <4>1
        <4>2. CASE g # h
          BY <2>10, <2>11, <3>1, <4>2, ForkRequest
        <4>3. QED
          BY <4>1, <4>2
      <3>2. ASSUME NEW g \in Handler, req'[g].pc = "rotate"
            PROVE  /\ req'[g].jti < req'[g].new
                   /\ tok'[req'[g].new].family = tok'[req'[g].jti].family
        <4>1. CASE g = h
          <5>1. j < minted + 1
            BY <2>4, <2>6
          <5>2. QED
            BY <2>2, <2>6, <2>8, <2>10, <2>11, <4>1, <5>1
        <4>2. CASE g # h
          <5>1. req[g].pc = "rotate" /\ req[g].pc \in Refreshing /\ req'[g] = req[g]
            BY <2>11, <3>2, <4>2 DEF Refreshing, PastJtiCheck
          <5>2. req[g].new \in 1..minted /\ req[g].jti \in 1..minted /\ req[g].jti < req[g].new
            BY <5>1, ForkRequest
          <5>3. tok[req[g].new].family = tok[req[g].jti].family
            BY <5>1 DEF ForkInv, RefreshInv
          <5>4. QED
            BY <2>10, <5>1, <5>2, <5>3
        <4>3. QED
          BY <4>1, <4>2
      <3>3. QED
        BY <1>1, <3>1, <3>2 DEF RefreshInv
    <2>13. OlderInv'
      BY <1>1, <2>10 DEF ForkInv, OlderInv, Spent
    <2>14. /\ \A g \in Handler : req'[g].pc \in PastJtiCheck
                 => req[g].pc \in PastJtiCheck /\ req'[g].jti = req[g].jti
           /\ \A g \in Handler : req[g].pc \in PastJtiCheck => req[g].jti \in 1..minted
      <3>1. ASSUME NEW g \in Handler, req[g].pc \in PastJtiCheck PROVE req[g].jti \in 1..minted
        BY <3>1, ForkRequest DEF Refreshing
      <3>2. "sign" \in PastJtiCheck
        BY DEF PastJtiCheck
      <3>3. QED
        BY <1>1, <2>1, <2>11, <3>1, <3>2
    <2>15. YoungestInv'
      BY <1>1, <2>10, <2>14 DEF ForkInv, YoungestInv
    <2>16. AloneInv'
      BY <1>1, <2>10, <2>14 DEF ForkInv, AloneInv
    <2>17. QED
      BY <1>1, <2>10, <2>12, <2>13, <2>15, <2>16 DEF ForkInv
  <1>4. QED
    BY <1>2, <1>3 DEF RefreshSign

(* The client gets the new token.  Unless the family may fork, the old one *)
(* is denied or has run out by then, and nobody else has it in use.        *)
LEMMA ForkRotate ==
    ASSUME ForkInv, IInv', NEW h \in Handler, RefreshRotate(h)
    PROVE  ForkInv'
  <1>1. PICK j : j = req[h].jti
    OBVIOUS
  <1>2. PICK n : n = req[h].new
    OBVIOUS
  <1>3. PICK f : f = tok[j].family
    OBVIOUS
  <1>4. /\ req[h].pc = "rotate" /\ Respond(h, "yes") /\ held' = held \cup {n}
        /\ UNCHANGED <<now, minted, tok, revokedFamily>>
    BY <1>2 DEF RefreshRotate
  <1>5. /\ j \in held /\ j \in 1..minted /\ f # 0 /\ n \in 1..minted /\ j < n
        /\ tok[n].family = f
    <2>1. req[h].pc \in Refreshing
      BY <1>4 DEF Refreshing, PastJtiCheck
    <2>2. QED
      BY <1>1, <1>2, <1>3, <1>4, <2>1, ForkRequest DEF ForkInv, RefreshInv
  <1>6. /\ now \in Nat /\ minted \in Nat /\ tok[j].exp \in Nat /\ Remaining(j) \in Int
        /\ f \in Family /\ j \in Jti /\ revoked \in [Jti -> Nat]
        /\ Remaining(j) > 0 => Remaining(j) \in Nat \ {0}
        /\ held \subseteq 1..minted
    BY <1>3, <1>5, SignedToken DEF ForkInv, IInv, StoreInv, Token
  <1>7. mayFork' \in {mayFork, mayFork \cup {f}}
    BY <1>1, <1>3 DEF RefreshRotate
  <1>8. f \in mayFork' \/ Spent(j)'
    <2>1. CASE Remaining(j) > 0 /\ revoked' = [revoked EXCEPT ![j] = now + StoreTTL(Remaining(j))]
      <3>1. PICK ttl \in Nat \ {0} : ttl = StoreTTL(Remaining(j))
        BY <1>6, <2>1, StoreTTLBounds
      <3>2. revoked'[j] # 0
        BY <1>6, <2>1, <3>1
      <3>3. QED
        BY <3>2 DEF Spent
    <2>2. CASE mayFork' = mayFork \cup {f}
      BY <2>2
    <2>3. CASE Remaining(j) <= 0
      <3>1. now >= tok[j].exp
        BY <1>6, <2>3 DEF Remaining
      <3>2. QED
        BY <1>4, <3>1 DEF Spent
    <2>4. QED
      BY <1>1, <1>3, <2>1, <2>2, <2>3 DEF RefreshRotate
  <1>9. ASSUME NEW i \in held, Spent(i) PROVE Spent(i)'
    <2>1. i \in 1..minted /\ now <= now'
      BY <1>4, <1>6, <1>9
    <2>2. revoked[i] # 0 => revoked'[i] # 0
      BY <2>1, DenialsStay DEF ForkInv
    <2>3. QED
      BY <1>4, <1>9, <2>1, <2>2, SpentIsFinal DEF ForkInv
  <1>10. /\ req'[h].pc = "idle" /\ \A g \in Handler : g # h => req'[g] = req[g]
    <2>1. req' = [req EXCEPT ![h] = [NoRequest EXCEPT !.res = "yes"]] /\ req \in [Handler -> Request]
      BY <1>4 DEF Respond, ForkInv, IInv
    <2>2. QED
      BY <2>1 DEF NoRequest
  <1>11. ASSUME NEW k \in held, tok[k].family = f, f \notin mayFork PROVE k <= j
    BY <1>1, <1>3, <1>4, <1>11 DEF ForkInv, YoungestInv, PastJtiCheck
  <1>12. RefreshInv'
    BY <1>4, <1>10 DEF ForkInv, RefreshInv, Refreshing, PastJtiCheck
  <1>13. OlderInv'
    <2>1. ASSUME NEW i \in held', NEW k \in held', i < k, tok[i].family = tok[k].family,
                 tok[i].family \notin mayFork' \cup {0}
          PROVE  Spent(i)'
      <3>1. CASE tok[i].family # f
        <4>1. i \in held /\ k \in held
          BY <1>4, <1>5, <2>1, <3>1
        <4>2. tok[i].family \notin mayFork \cup {0}
          BY <1>7, <2>1
        <4>3. Spent(i)
          BY <2>1, <4>1, <4>2 DEF ForkInv, OlderInv
        <4>4. QED
          BY <1>9, <4>1, <4>3
      <3>2. CASE tok[i].family = f
        <4>1. f \notin mayFork /\ f \notin mayFork'
          BY <1>7, <2>1, <3>2
        <4>2. i # n
          <5>1. ASSUME i = n PROVE FALSE
            <6>1. k \in held
              BY <1>4, <1>6, <2>1, <5>1, <1>5
            <6>2. k <= j /\ k \in 1..minted
              BY <1>6, <1>11, <2>1, <3>2, <4>1, <6>1
            <6>3. QED
              BY <1>5, <1>6, <2>1, <5>1, <6>2
          <5>2. QED
            BY <5>1
        <4>3. i \in held /\ i <= j /\ i \in 1..minted
          BY <1>4, <1>6, <1>11, <3>2, <4>1, <4>2
        <4>4. CASE i = j
          BY <1>8, <4>1, <4>4
        <4>5. CASE i # j
          <5>1. i < j
            BY <1>5, <1>6, <4>3, <4>5
          <5>2. Spent(i)
            BY <1>3, <1>5, <2>1, <3>2, <4>1, <4>3, <5>1 DEF ForkInv, OlderInv
          <5>3. QED
            BY <1>9, <4>3, <5>2
        <4>6. QED
          BY <4>4, <4>5
      <3>3. QED
        BY <3>1, <3>2
    <2>2. QED
      BY <1>4, <2>1 DEF OlderInv
  <1>14. YoungestInv'
    <2>1. ASSUME NEW g \in Handler, NEW k \in held', req'[g].pc \in PastJtiCheck,
                 tok[k].family = tok[req'[g].jti].family, tok[k].family \notin mayFork'
          PROVE  k <= req'[g].jti
      <3>1. g # h /\ req'[g] = req[g]
        BY <1>10, <2>1 DEF PastJtiCheck
      <3>2. tok[k].family \notin mayFork
        BY <1>7, <2>1
      <3>3. CASE k \in held
        BY <2>1, <3>1, <3>2, <3>3 DEF ForkInv, YoungestInv
      <3>4. CASE k = n
        <4>1. tok[req[g].jti].family = f /\ f \notin mayFork
          BY <1>5, <2>1, <3>1, <3>2, <3>4
        <4>2. req[g].pc \in PastJtiCheck /\ req[g].jti \in held /\ req[g].jti \in 1..minted
          BY <2>1, <3>1, ForkRequest DEF Refreshing
        <4>3. req[g].jti <= j
          BY <1>11, <4>1, <4>2
        <4>4. j <= req[g].jti
          BY <1>3, <1>5, <4>1, <4>2 DEF ForkInv, YoungestInv
        <4>5. req[g].jti = j
          BY <1>5, <1>6, <4>2, <4>3, <4>4
        <4>6. f \in mayFork
          BY <1>1, <1>3, <1>4, <3>1, <4>2, <4>5 DEF ForkInv, AloneInv, PastJtiCheck
        <4>7. QED
          BY <4>1, <4>6
      <3>5. QED
        BY <1>4, <2>1, <3>3, <3>4
    <2>2. QED
      BY <1>4, <2>1 DEF YoungestInv
  <1>15. AloneInv'
    BY <1>4, <1>7, <1>10 DEF ForkInv, AloneInv, PastJtiCheck
  <1>16. mayFork' \subseteq Family /\ TokensInv'
    BY <1>4, <1>6, <1>7 DEF ForkInv, TokensInv
  <1>17. QED
    BY <1>12, <1>13, <1>14, <1>15, <1>16 DEF ForkInv

(* The other calls of a handler.                                           *)
LEMMA ForkHandler ==
    ASSUME ForkInv, IInv', NEW h \in Handler, HandlerStep(h) \/ Crash(h)
    PROVE  ForkInv'
  <1>1. CASE RefreshCheckRevoked(h)
    <2>1. req[h].pc = "isRevoked" /\ UNCHANGED <<now, minted, tok, held, revoked, revokedFamily>>
      BY <1>1 DEF RefreshCheckRevoked
    <2>2. CASE Respond(h, "no") /\ UNCHANGED mayFork
      BY <2>1, <2>2, ForkAnswered
    <2>3. CASE Goto(h, "storeFamily") /\ UNCHANGED mayFork
      BY <2>1, <2>3, ForkMovedOn DEF Refreshing
    <2>4. CASE /\ ~IsRevoked(req[h].jti) /\ Goto(h, "isFamilyRevoked")
               /\ mayFork' = IF AnotherUse(h) THEN mayFork \cup {tok[req[h].jti].family}
                                              ELSE mayFork
      BY <2>1, <2>4, ForkLetThrough
    <2>5. QED
      BY <1>1, <2>2, <2>3, <2>4 DEF RefreshCheckRevoked
  <1>2. CASE RefreshStoreFamily(h)
    BY <1>2, ForkAnswered DEF RefreshStoreFamily
  <1>3. CASE RefreshCheckFamily(h)
    <2>1. /\ req[h].pc = "isFamilyRevoked"
          /\ UNCHANGED <<now, minted, tok, held, revoked, mayFork>>
          /\ Respond(h, "no") \/ Goto(h, "gate")
      BY <1>3 DEF RefreshCheckFamily
    <2>2. CASE Respond(h, "no")
      BY <2>1, <2>2, ForkAnswered
    <2>3. CASE Goto(h, "gate")
      BY <2>1, <2>3, ForkMovedOn DEF Refreshing, PastJtiCheck
    <2>4. QED
      BY <2>1, <2>2, <2>3
  <1>4. CASE RefreshGate(h)
    <2>1. /\ req[h].pc = "gate" /\ UNCHANGED <<now, minted, tok, held, revoked, mayFork>>
          /\ Respond(h, "no") \/ Goto(h, "sign")
      BY <1>4 DEF RefreshGate
    <2>2. CASE Respond(h, "no")
      BY <2>1, <2>2, ForkAnswered
    <2>3. CASE Goto(h, "sign")
      BY <2>1, <2>3, ForkMovedOn DEF Refreshing, PastJtiCheck
    <2>4. QED
      BY <2>1, <2>2, <2>3
  <1>5. CASE RefreshSign(h)
    BY <1>5, ForkSign
  <1>6. CASE RefreshRotate(h)
    BY <1>6, ForkRotate
  <1>7. CASE RevokeStore(h)
    <2>1. \A i \in 1..minted : revoked[i] # 0 => revoked'[i] # 0
      BY <1>7, DenialsStay DEF ForkInv
    <2>2. /\ UNCHANGED <<now, minted, tok, held, mayFork>>
          /\ Respond(h, "yes") \/ Respond(h, "no")
      BY <1>7 DEF RevokeStore
    <2>3. QED
      BY <2>1, <2>2, ForkAnswered
  <1>8. CASE InspectCheckRevoked(h) \/ Crash(h)
    BY <1>8, ForkAnswered DEF InspectCheckRevoked, Crash
  <1>9. QED
    BY <1>1, <1>2, <1>3, <1>4, <1>5, <1>6, <1>7, <1>8 DEF HandlerStep

LEMMA ForkStep == ForkInv /\ [Next]_vars => ForkInv'
  <1> SUFFICES ASSUME ForkInv, [Next]_vars PROVE ForkInv'
    OBVIOUS
  <1>1. IInv'
    BY StepIInv DEF ForkInv
  <1>2. CASE UNCHANGED vars
    BY <1>1, <1>2
       DEF vars, ForkInv, TokensInv, RefreshInv, OlderInv, YoungestInv, AloneInv, Spent
  <1>3. CASE Tick
    BY <1>1, <1>3, ForkTick
  <1>4. CASE \E c \in Client, s \in Client \cup User, aud \in Audience,
                kind \in {"access", "refresh"} : IssueToken(c, s, aud, kind)
    BY <1>1, <1>4, ForkIssue
  <1>5. CASE \E h \in Handler, c \in Client, j \in Jti :
                RefreshToken(h, c, j) \/ Revoke(h, c, j)
    BY <1>1, <1>5, ForkArrived DEF RefreshToken, MayRefresh, Revoke
  <1>6. CASE \E h \in Handler, j \in Jti : Introspect(h, j) \/ Validate(h, j)
    BY <1>1, <1>6, ForkArrived DEF Introspect, Validate
  <1>7. CASE \E h \in Handler : HandlerStep(h) \/ Crash(h)
    BY <1>1, <1>7, ForkHandler
  <1>8. CASE \E h \in Handler, c \in Client, j \in Jti :
                RefreshRefused(h, c, j) \/ RevokeRefused(h, c, j)
    BY <1>2, <1>8 DEF RefreshRefused, RevokeRefused
  <1>9. QED
    BY <1>2, <1>3, <1>4, <1>5, <1>6, <1>7, <1>8 DEF Next

LEMMA ForkInvAlways == Spec => []ForkInv
  BY ForkInit, ForkStep, PTL DEF Spec

(* Type correctness of the token lifecycle.                                *)
THEOREM TypeCorrect == Spec => []TypeOK
  <1>1. ForkInv => TypeOK
    BY DEF ForkInv, IInv, StoreInv, GoodRequest, TypeOK
  <1>2. QED
    BY <1>1, ForkInvAlways, PTL

(* Rotation on every use (StoreRevoked after RefreshSign): however many    *)
(* requests overlap, are slow or fail, a family gets a second refresh      *)
(* token that can be used only by refreshes of one token that overlap,     *)
(* that come in its last second or outlast it, or by a StoreRevoked that   *)
(* fails.                                                                  *)
THEOREM ForksHaveACause == Spec => []NoForkWithoutCause
  <1>1. ForkInv => NoForkWithoutCause
    <2> SUFFICES ASSUME ForkInv, NEW j \in held, NEW k \in held, j < k,
                        Refreshable(j), Refreshable(k), tok[j].family = tok[k].family,
                        tok[j].family \notin mayFork
                 PROVE  revoked[j] # 0 /\ now + Second > tok[j].exp
      BY DEF NoForkWithoutCause
    <2>1. j \in 1..minted /\ StoreInv
      BY DEF ForkInv, IInv, StoreInv
    <2>2. /\ j \in Jti /\ now \in Nat /\ tok[j].exp \in Nat /\ revoked[j] \in Nat
          /\ revoked[j] # 0 => revoked[j] + Second > tok[j].exp
      BY <2>1, SignedToken DEF StoreInv, DenylistCoversToken
    <2>3. tok[j].family # 0
      BY <2>1 DEF Refreshable, ForkInv, TokensInv
    <2>4. Spent(j)
      BY <2>3 DEF ForkInv, OlderInv
    <2>5. now < tok[j].exp /\ ~(now < revoked[j])
      BY DEF Refreshable, Parses, IsRevoked
    <2>6. revoked[j] # 0
      BY <2>2, <2>4, <2>5 DEF Spent
    <2>7. QED
      BY <2>2, <2>5, <2>6, TimeAssumption
  <1>2. QED
    BY <1>1, ForkInvAlways, PTL
=============================================================================
