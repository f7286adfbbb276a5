--------------------------- MODULE KeySlotsProofs ---------------------------
(***************************************************************************)
(* Proofs about KeySlots, for every number of goroutines, keys and         *)
(* reloads: the pair of slots implements KeyRing although it is stored in  *)
(* two steps, no verification falls between the slots, and JWKS answers    *)
(* have the signing key.                                                   *)
(***************************************************************************)
EXTENDS KeySlots, TLAPS

(* A reload holds what it read: cur is still active, and once the first    *)
(* store is done the active key is in both slots.                          *)
ReloadInv ==
    /\ reload.pc = "idle" => reload = NoReload
    /\ reload.pc # "idle" => reload.cur = active /\ reload.key # 0
    /\ reload.pc = "first" => reload.key # active /\ reload.old = previous
    /\ reload.pc = "second" =>
          \/ reload.key = active /\ reload.old = previous /\ active # previous
          \/ reload.key # active /\ previous = active

(* A verification that is past the active slot did not find its kid there, *)
(* and if no reload has run since, its kid is still not there.             *)
VerifyInv ==
    \A v \in Verifier :
        /\ verify[v].pc = "idle" => verify[v] = NoVerify
        /\ (verify[v].pc # "idle" /\ verify[v].overlap = 0) => reload.pc = "idle"
        /\ verify[v].pc \in {"previous", "rejected"} =>
              /\ verify[v].kid \notin verify[v].first
              /\ verify[v].overlap = 0 => verify[v].kid # active
        /\ (verify[v].pc = "rejected" /\ verify[v].overlap = 0) =>
              verify[v].kid # previous

(* The key that was active when a request began is active, or it is the    *)
(* previous key and the only reload that may overlap the request is over.  *)
(* So once the body is read it is in the body.                             *)
RequestOK(r) ==
    /\ r.pc = "idle" => r = NoPublish
    /\ (r.pc # "idle" /\ r.overlap = 0) => reload.pc = "idle"
    /\ r.pc # "idle" =>
          /\ r.first # 0
          /\ r.kids[1] = r.first
          /\ \/ r.first = active
             \/ r.first = previous /\ r.overlap = 1 /\ reload.pc = "idle"
    /\ r.pc = "body2" =>
          \/ r.body[1] = r.first
          \/ r.first = previous /\ r.overlap = 1 /\ reload.pc = "idle"
    /\ r.pc \in {"store", "served"} => r.first \in KeysOf(r.body)

PublishInv == \A p \in Publisher : RequestOK(publish[p])

(* A cached body has the active key of the pair of kids it was built for.  *)
CacheInv == cache.kids[1] # 0 => cache.kids[1] \in KeysOf(cache.body)

(* What a process that never took an earlier key back publishes for its    *)
(* newest key: that key and the one before it.                             *)
Newest == {fresh, fresh - 1} \ {0}

NewestOK(r) ==
    r.first = fresh =>
        /\ r.pc = "body2" => r.body[1] = fresh
        /\ r.pc \in {"store", "served"} => KeysOf(r.body) = Newest

(* As long as no key was rolled back the slots hold the newest key and the *)
(* one before, up to the two stores of the reload in progress, and every   *)
(* body for the newest key is Newest.                                      *)
ForwardInv ==
    /\ fresh <= reloads + 1
    /\ NeverRolledBack =>
        /\ reload.pc = "idle" => active = fresh /\ previous = fresh - 1
        /\ reload.pc = "first" =>
              reload.key = fresh /\ active = fresh - 1 /\ previous + 1 = active
        /\ reload.pc = "second" =>
              /\ reload.key = fresh
              /\ \/ active = fresh /\ previous = fresh - 1
                 \/ active = fresh - 1 /\ previous = active
        /\ cache.kids[1] = fresh => KeysOf(cache.body) = Newest
        /\ \A p \in Publisher : NewestOK(publish[p])

IInv == TypeOK /\ ReloadInv /\ VerifyInv /\ PublishInv /\ CacheInv /\ ForwardInv

-----------------------------------------------------------------------------
(* The initial state, where the process has loaded one key.                *)
LEMMA InitIInv == Init => IInv
<1> SUFFICES ASSUME Init PROVE IInv
  OBVIOUS
<1> USE SlotsAssumption
<1>1. TypeOK
  BY DEF Init, TypeOK, Key, NoReload, NoVerify, NoPublish, NoPair
<1>2. ReloadInv /\ VerifyInv /\ PublishInv
  BY DEF Init, ReloadInv, VerifyInv, PublishInv, RequestOK, NoReload, NoVerify, NoPublish
<1>3. CacheInv /\ ForwardInv
  BY DEF Init, CacheInv, ForwardInv, NewestOK, NeverRolledBack, NoReload, NoPublish, NoPair
<1> QED
  BY <1>1, <1>2, <1>3 DEF IInv

(* Reload begins: it reads both slots and changes neither.                 *)
LEMMA ReloadIInv ==
    ASSUME IInv, NEW k \in Key, Reload(k)
    PROVE  IInv'
<1> USE SlotsAssumption
<1>0. TypeOK /\ ReloadInv /\ VerifyInv /\ PublishInv /\ CacheInv /\ ForwardInv
  BY DEF IInv
<1>1. /\ reload.pc = "idle"
      /\ k \in Nat /\ k # 0 /\ k <= fresh'
      /\ fresh \in Nat /\ fresh' \in Key /\ fresh <= fresh'
      /\ k # active /\ fresh' = fresh => k = previous
      /\ fresh' = fresh \/ (k = fresh + 1 /\ fresh' = k)
  BY <1>0 DEF Reload, ReloadInto, TypeOK, Key
<1>2. /\ reload' = [pc |-> IF k # active THEN "first" ELSE "second",
                    cur |-> active, key |-> k, old |-> previous]
      /\ reloads' = IF k = active THEN reloads ELSE reloads + 1
      /\ reloads' <= MaxReloads
      /\ UNCHANGED <<active, previous, cache>>
  BY DEF Reload, ReloadInto
<1>3. /\ verify' = [v \in Verifier |->
          IF verify[v].pc = "idle" THEN verify[v] ELSE [verify[v] EXCEPT !.overlap = 1]]
      /\ publish' = [p \in Publisher |->
          IF publish[p].pc = "idle" THEN publish[p] ELSE [publish[p] EXCEPT !.overlap = 1]]
      /\ \A p \in Publisher : publish[p].overlap = 0
  BY DEF Reload, ReloadInto
<1>a. 0..fresh \subseteq 0..fresh' /\ 1..fresh \subseteq 1..fresh' /\ 0 \in 0..fresh'
  BY <1>1 DEF Key
<1>b. ASSUME NEW v \in Verifier
      PROVE  /\ verify'[v] \in
                  [pc : {"idle", "previous", "accepted", "rejected"}, kid : 0..MaxKey,
                   first : SUBSET (1..fresh'), overlap : {0, 1}]
             /\ verify'[v].pc = verify[v].pc
             /\ verify'[v].kid = verify[v].kid
             /\ verify'[v].first = verify[v].first
             /\ verify'[v].overlap = IF verify[v].pc = "idle" THEN verify[v].overlap ELSE 1
             /\ verify[v].pc = "idle" => verify'[v] = verify[v]
  <2>1. verify[v] \in
           [pc : {"idle", "previous", "accepted", "rejected"}, kid : 0..MaxKey,
            first : SUBSET (1..fresh), overlap : {0, 1}]
    BY <1>0 DEF TypeOK
  <2>2. verify'[v] = IF verify[v].pc = "idle" THEN verify[v] ELSE [verify[v] EXCEPT !.overlap = 1]
    BY <1>3
  <2> QED
    BY <1>a, <2>1, <2>2
<1>c. ASSUME NEW p \in Publisher
      PROVE  /\ publish'[p] \in
                  [pc : {"idle", "kids", "cache", "body", "body2", "store", "served"},
                   kids : (0..fresh') \X (0..fresh'), body : (0..fresh') \X (0..fresh'),
                   first : 0..fresh', overlap : {0, 1}]
             /\ publish'[p].pc = publish[p].pc
             /\ publish'[p].kids = publish[p].kids
             /\ publish'[p].body = publish[p].body
             /\ publish'[p].first = publish[p].first
             /\ publish[p].first \in 0..fresh
             /\ publish'[p].overlap = IF publish[p].pc = "idle" THEN publish[p].overlap ELSE 1
             /\ publish[p].pc = "idle" => publish'[p] = publish[p]
  BY <1>0, <1>3, <1>a DEF TypeOK
<1>d. /\ cache' = cache /\ cache \in [kids : (0..fresh) \X (0..fresh), body : (0..fresh) \X (0..fresh)]
      /\ cache' \in [kids : (0..fresh') \X (0..fresh'), body : (0..fresh') \X (0..fresh')]
      /\ cache.kids[1] \in 0..fresh
  BY <1>0, <1>2, <1>a DEF TypeOK
<1>4. TypeOK'
  <2>1. /\ active' \in 1..fresh' /\ previous' \in 0..fresh'
        /\ reload'.pc = "idle" => active' # previous'
        /\ fresh' \in Key
        /\ reloads' \in 0..MaxReloads
        /\ reload' \in [pc : {"idle", "first", "second"}, cur : 0..fresh', key : 0..fresh',
                         old : 0..fresh']
    BY <1>0, <1>1, <1>2, <1>a DEF TypeOK
  <2>2. verify' \in [Verifier ->
              [pc : {"idle", "previous", "accepted", "rejected"}, kid : 0..MaxKey,
               first : SUBSET (1..fresh'), overlap : {0, 1}]]
    BY <1>3, <1>b
  <2>3. publish' \in [Publisher ->
              [pc : {"idle", "kids", "cache", "body", "body2", "store", "served"},
               kids : (0..fresh') \X (0..fresh'), body : (0..fresh') \X (0..fresh'),
               first : 0..fresh', overlap : {0, 1}]]
    BY <1>3, <1>c
  <2> QED
    BY <2>1, <2>2, <2>3, <1>d DEF TypeOK
<1>5. ReloadInv'
  BY <1>0, <1>1, <1>2 DEF ReloadInv, TypeOK
<1>6. VerifyInv'
  BY <1>0, <1>1, <1>2, <1>b DEF VerifyInv
<1>7. PublishInv'
  <2> SUFFICES ASSUME NEW p \in Publisher PROVE RequestOK(publish[p])'
    BY DEF PublishInv
  <2>1. RequestOK(publish[p]) /\ publish[p].overlap = 0
    BY <1>0, <1>3 DEF PublishInv
  <2> QED
    BY <1>1, <1>2, <1>c, <2>1 DEF RequestOK
<1>8. CacheInv'
  BY <1>0, <1>2 DEF CacheInv
<1>9. ForwardInv'
  <2>1. active \in Nat /\ active <= fresh /\ previous \in Nat /\ reloads \in Nat /\ fresh' \in Nat
    BY <1>0, <1>1 DEF TypeOK, Key
  <2>a. fresh <= reloads + 1
    BY <1>0 DEF ForwardInv
  <2>b. k # active => reloads' = reloads + 1
    BY <1>2
  <2>c. k = active => reloads' = reloads
    BY <1>2
  <2>2. fresh' <= reloads' + 1 /\ (NeverRolledBack' => NeverRolledBack)
    BY <1>1, <2>1, <2>a, <2>b, <2>c DEF NeverRolledBack
  <2> SUFFICES ASSUME NeverRolledBack' PROVE ForwardInv!2!2'
    BY <2>2 DEF ForwardInv
  <2>3. ForwardInv!2!2 /\ reload'.pc # "idle" /\ reload'.key = k
    BY <1>0, <1>2, <2>2 DEF ForwardInv
  <2>4. active = fresh /\ previous = fresh - 1
    BY <1>1, <2>3
  <2>d. reloads' = fresh' - 1
    BY DEF NeverRolledBack
  <2>5. k = fresh'
    <3>0. fresh' = fresh \/ k = fresh'
      BY <1>1
    <3>1. CASE k = active
      BY <2>4, <3>0, <3>1
    <3>2. CASE k # active
      <4>1. reloads + 1 = fresh' - 1
        BY <2>b, <2>d, <3>2
      <4>a. fresh \in Nat /\ reloads \in Nat
        BY <1>1, <2>1
      <4>2. fresh' # fresh
        BY <2>a, <4>1, <4>a
      <4> QED
        BY <3>0, <4>2
    <3> QED
      BY <3>1, <3>2
  <2>6. CASE fresh' = fresh
    <3>1. ASSUME NEW p \in Publisher PROVE NewestOK(publish[p])'
      BY <1>c, <2>3, <2>6 DEF NewestOK, Newest
    <3>2. reload'.pc = "second"
      BY <1>2, <2>4, <2>5, <2>6
    <3> QED
      BY <1>2, <1>d, <2>3, <2>4, <2>5, <2>6, <3>1, <3>2 DEF Newest
  <2>7. CASE fresh' = fresh + 1
    BY <1>1, <1>2, <1>c, <1>d, <2>1, <2>3, <2>4, <2>5, <2>7 DEF NewestOK
  <2> QED
    BY <1>1, <2>6, <2>7
<1> QED
  BY <1>4, <1>5, <1>6, <1>7, <1>8, <1>9 DEF IInv

(* A store of Reload.                                                      *)
LEMMA ReloadStoreIInv ==
    ASSUME IInv, ReloadStore
    PROVE  IInv'
<1> USE SlotsAssumption
<1>0. TypeOK /\ ReloadInv /\ VerifyInv /\ PublishInv /\ CacheInv /\ ForwardInv
  BY DEF IInv
<1>1. UNCHANGED <<fresh, reloads, verify, publish, cache>>
  BY DEF ReloadStore
<1>2. CASE /\ reload.pc = "first"
           /\ previous' = reload.cur
           /\ reload' = [reload EXCEPT !.pc = "second"]
           /\ UNCHANGED active
  <2>1. /\ previous' = active
        /\ reload'.pc = "second" /\ reload'.cur = reload.cur
        /\ reload'.key = reload.key /\ reload'.old = reload.old
        /\ reload.cur = active
    BY <1>0, <1>2 DEF TypeOK, ReloadInv
  <2>2. TypeOK'
    BY <1>0, <1>1, <1>2, <2>1 DEF TypeOK
  <2>3. ReloadInv'
    BY <1>0, <1>2, <2>1 DEF ReloadInv
  <2>4. VerifyInv'
    BY <1>0, <1>1, <1>2, <2>1 DEF VerifyInv
  <2>5. PublishInv'
    BY <1>0, <1>1, <1>2, <2>1 DEF PublishInv, RequestOK
  <2>6. CacheInv' /\ ForwardInv'
    BY <1>0, <1>1, <1>2, <2>1 DEF CacheInv, ForwardInv, NeverRolledBack, NewestOK, Newest, TypeOK
  <2> QED
    BY <2>2, <2>3, <2>4, <2>5, <2>6 DEF IInv
<1>3. CASE /\ reload.pc = "second"
           /\ active' = reload.key
           /\ reload' = NoReload
           /\ UNCHANGED previous
  <2>1. reload'.pc = "idle" /\ reload'.cur = 0 /\ reload'.key = 0 /\ reload'.old = 0
    BY <1>3 DEF NoReload
  <2>2. TypeOK'
    BY <1>0, <1>1, <1>3, <2>1 DEF TypeOK, ReloadInv, NoReload, Key
  <2>3. ReloadInv'
    BY <1>3, <2>1 DEF ReloadInv
  <2>4. VerifyInv'
    BY <1>0, <1>1, <1>3, <2>1 DEF VerifyInv, TypeOK
  <2>5. PublishInv'
    BY <1>0, <1>1, <1>3, <2>1 DEF PublishInv, RequestOK, ReloadInv, TypeOK
  <2>6. CacheInv' /\ ForwardInv'
    BY <1>0, <1>1, <1>3, <2>1 DEF CacheInv, ForwardInv, NeverRolledBack, NewestOK, Newest, TypeOK
  <2> QED
    BY <2>2, <2>3, <2>4, <2>5, <2>6 DEF IInv
<1> QED
  BY <1>2, <1>3 DEF ReloadStore

(* The steps of a verification.                                            *)
LEMMA VerifyIInv ==
    ASSUME IInv, NEW v \in Verifier,
           \/ \E k \in Key : KeyForToken(v, k)
           \/ KeyForTokenPrevious(v)
           \/ VerifyDone(v)
    PROVE  IInv'
<1> USE SlotsAssumption
<1>0. TypeOK /\ ReloadInv /\ VerifyInv /\ PublishInv /\ CacheInv /\ ForwardInv
  BY DEF IInv
<1>1. UNCHANGED <<active, previous, fresh, reloads, reload, publish, cache>>
  BY DEF KeyForToken, KeyForTokenPrevious, VerifyDone
<1>2. ReloadInv' /\ PublishInv' /\ CacheInv' /\ ForwardInv'
  BY <1>0, <1>1 DEF ReloadInv, PublishInv, RequestOK, CacheInv, ForwardInv, NeverRolledBack, NewestOK, Newest
<1>3. ASSUME NEW k \in Key, KeyForToken(v, k) PROVE TypeOK' /\ VerifyInv'
  <2>1. TypeOK'
    BY <1>0, <1>1, <1>3 DEF KeyForToken, TypeOK, Key, Overlap
  <2>2. VerifyInv'
    BY <1>0, <1>1, <1>3 DEF KeyForToken, VerifyInv, ReloadInv, TypeOK, Key, Overlap, NoReload
  <2> QED
    BY <2>1, <2>2
<1>4. ASSUME KeyForTokenPrevious(v) PROVE TypeOK' /\ VerifyInv'
  BY <1>0, <1>1, <1>4 DEF KeyForTokenPrevious, VerifyInv, TypeOK
<1>5. ASSUME VerifyDone(v) PROVE TypeOK' /\ VerifyInv'
  BY <1>0, <1>1, <1>5 DEF VerifyDone, VerifyInv, TypeOK, NoVerify
<1> QED
  BY <1>2, <1>3, <1>4, <1>5 DEF IInv

-----------------------------------------------------------------------------
(* The records a publisher's state is made of.                             *)
PublishRecord ==
    [pc : {"idle", "kids", "cache", "body", "body2", "store", "served"},
     kids : (0..fresh) \X (0..fresh), body : (0..fresh) \X (0..fresh),
     first : 0..fresh, overlap : {0, 1}]

(* A step of a publisher preserves the invariant if its new record, and    *)
(* the cache, are right.                                                   *)
LEMMA PublishFrame ==
    ASSUME IInv, NEW p \in Publisher, NEW r \in PublishRecord,
           publish' = [publish EXCEPT ![p] = r],
           UNCHANGED <<active, previous, fresh, reloads, reload, verify>>,
           RequestOK(r),
           NeverRolledBack => NewestOK(r),
           cache' \in [kids : (0..fresh) \X (0..fresh), body : (0..fresh) \X (0..fresh)],
           cache'.kids[1] # 0 => cache'.kids[1] \in KeysOf(cache'.body),
           NeverRolledBack => (cache'.kids[1] = fresh => KeysOf(cache'.body) = Newest)
    PROVE  IInv'
<1>0. TypeOK /\ ReloadInv /\ VerifyInv /\ PublishInv /\ ForwardInv
  BY DEF IInv
<1>1. ASSUME NEW q \in Publisher PROVE publish'[q] = IF q = p THEN r ELSE publish[q]
  BY <1>0 DEF TypeOK
<1>2. TypeOK'
  BY <1>0 DEF TypeOK, PublishRecord
<1>3. ReloadInv' /\ VerifyInv' /\ CacheInv'
  BY <1>0 DEF ReloadInv, VerifyInv, CacheInv
<1>4. PublishInv'
  <2> SUFFICES ASSUME NEW q \in Publisher PROVE RequestOK(publish[q])'
    BY DEF PublishInv
  <2>1. RequestOK(publish[q])
    BY <1>0 DEF PublishInv
  <2> QED
    BY <1>1, <2>1 DEF RequestOK
<1>5. ForwardInv'
  <2>1. ASSUME NeverRolledBack, NEW q \in Publisher PROVE NewestOK(publish[q])'
    <3>1. NewestOK(publish[q])
      BY <1>0, <2>1 DEF ForwardInv
    <3> QED
      BY <1>1, <2>1, <3>1 DEF NewestOK, Newest
  <2> QED
    BY <1>0, <2>1 DEF ForwardInv, NeverRolledBack, Newest
<1> QED
  BY <1>2, <1>3, <1>4, <1>5 DEF IInv

(* What the invariant says of one publisher, of the cache and of the slots *)
(* it reads.                                                               *)
LEMMA PublishFacts ==
    ASSUME IInv, NEW p \in Publisher
    PROVE  /\ publish[p] \in PublishRecord
           /\ publish[p].first \in Nat
           /\ RequestOK(publish[p])
           /\ NeverRolledBack => NewestOK(publish[p])
           /\ cache \in [kids : (0..fresh) \X (0..fresh), body : (0..fresh) \X (0..fresh)]
           /\ cache.kids[1] # 0 => cache.kids[1] \in KeysOf(cache.body)
           /\ NeverRolledBack => (cache.kids[1] = fresh => KeysOf(cache.body) = Newest)
           /\ active \in 1..fresh /\ previous \in 0..fresh
           /\ fresh \in Nat /\ fresh # 0
           /\ NeverRolledBack /\ active = fresh => previous = fresh - 1
           /\ NeverRolledBack /\ publish[p].pc # "idle" /\ publish[p].first = fresh
                 => active = fresh
<1>0. TypeOK /\ ReloadInv /\ PublishInv /\ CacheInv /\ ForwardInv
  BY DEF IInv
<1>1. publish[p] \in PublishRecord /\ RequestOK(publish[p])
      /\ (NeverRolledBack => NewestOK(publish[p]))
  BY <1>0 DEF TypeOK, PublishInv, ForwardInv, PublishRecord
<1>2. /\ cache \in [kids : (0..fresh) \X (0..fresh), body : (0..fresh) \X (0..fresh)]
      /\ cache.kids[1] # 0 => cache.kids[1] \in KeysOf(cache.body)
      /\ NeverRolledBack => (cache.kids[1] = fresh => KeysOf(cache.body) = Newest)
  BY <1>0 DEF TypeOK, CacheInv, ForwardInv
<1>3. active \in 1..fresh /\ previous \in 0..fresh /\ fresh \in Nat /\ fresh # 0
      /\ (reload.pc = "idle" => active # previous)
  BY <1>0, SlotsAssumption DEF TypeOK, Key
<1>4. NeverRolledBack /\ active = fresh => previous = fresh - 1
  BY <1>0, <1>3 DEF ForwardInv, TypeOK
<1>5. NeverRolledBack /\ reload.pc = "idle" => active = fresh
  BY <1>0 DEF ForwardInv
<1> QED
  BY <1>1, <1>2, <1>3, <1>4, <1>5 DEF RequestOK, PublishRecord

(* Storing the second half of a pair.                                      *)
LEMMA PairUpdate ==
    ASSUME NEW S, NEW t \in S \X S, NEW x \in S
    PROVE  /\ [t EXCEPT ![2] = x] \in S \X S
           /\ [t EXCEPT ![2] = x][1] = t[1]
           /\ [t EXCEPT ![2] = x][2] = x
<1>1. t = <<t[1], t[2]>> /\ t[1] \in S /\ t[2] \in S
  OBVIOUS
<1>2. [t EXCEPT ![2] = x] = <<t[1], x>>
  BY <1>1
<1> QED
  BY <1>1, <1>2

(* KidsActive begins a request with the active key.                        *)
LEMMA KidsActiveIInv ==
    ASSUME IInv, NEW p \in Publisher, KidsActive(p)
    PROVE  IInv'
<1> DEFINE r == [NoPublish EXCEPT !.pc = "kids", !.kids = <<active, 0>>,
                                   !.first = active, !.overlap = Overlap]
<1>1. publish' = [publish EXCEPT ![p] = r]
  BY DEF KidsActive
<1>2. UNCHANGED <<active, previous, fresh, reloads, reload, verify>> /\ cache' = cache
  BY DEF KidsActive
<1>3. r \in PublishRecord
      /\ r.pc = "kids" /\ r.kids = <<active, 0>> /\ r.first = active /\ r.overlap = Overlap
  <2>a. fresh \in Nat /\ active \in 0..fresh
    BY PublishFacts
  <2>b. NoPublish \in PublishRecord
    BY <2>a DEF PublishRecord, NoPublish, NoPair
  <2>1. PICK n \in PublishRecord : n = NoPublish
    BY <2>b
  <2>c. <<active, 0>> \in (0..fresh) \X (0..fresh) /\ <<active, 0>>[1] = active
    BY <2>a
  <2>2. PICK t \in (0..fresh) \X (0..fresh) : t = <<active, 0>> /\ t[1] = active
    BY <2>c
  <2>3. Overlap \in {0, 1} /\ active \in 0..fresh
    BY PublishFacts DEF Overlap
  <2>4. r = [n EXCEPT !.pc = "kids", !.kids = t, !.first = active, !.overlap = Overlap]
    BY <2>1, <2>2
  <2> QED
    BY <2>1, <2>2, <2>3, <2>4 DEF PublishRecord
<1>4. RequestOK(r)
  BY <1>3, PublishFacts DEF KidsActive, RequestOK, PublishRecord, KeysOf, Overlap
<1> HIDE DEF r
<1>5. NeverRolledBack => NewestOK(r)
  BY <1>3, PublishFacts DEF KidsActive, NewestOK, Newest, PublishRecord, KeysOf
<1> QED
  BY <1>1, <1>2, <1>3, <1>4, <1>5, PublishFacts, PublishFrame

(* KidsPrevious completes the kids.                                        *)
LEMMA KidsPreviousIInv ==
    ASSUME IInv, NEW p \in Publisher, KidsPrevious(p)
    PROVE  IInv'
<1> DEFINE r == [publish[p] EXCEPT !.pc = "cache", !.kids[2] = previous]
<1>1. publish' = [publish EXCEPT ![p] = r]
  BY DEF KidsPrevious
<1>2. UNCHANGED <<active, previous, fresh, reloads, reload, verify>> /\ cache' = cache
  BY DEF KidsPrevious
<1>3. r \in PublishRecord
      /\ r.pc = "cache" /\ r.kids[1] = publish[p].kids[1]
      /\ r.first = publish[p].first /\ r.overlap = publish[p].overlap
  <2>1. PICK t \in (0..fresh) \X (0..fresh) :
           /\ t = [publish[p].kids EXCEPT ![2] = previous]
           /\ t[1] = publish[p].kids[1] /\ t[2] = previous
    <3>1. publish[p].kids \in (0..fresh) \X (0..fresh) /\ previous \in 0..fresh
      BY PublishFacts DEF PublishRecord
    <3> DEFINE t == [publish[p].kids EXCEPT ![2] = previous]
    <3>2. t \in (0..fresh) \X (0..fresh) /\ t[1] = publish[p].kids[1] /\ t[2] = previous
      BY <3>1, PairUpdate
    <3> QED
      BY <3>2
  <2>2. r = [publish[p] EXCEPT !.pc = "cache", !.kids = t]
    BY <2>1
  <2> QED
    BY <2>1, <2>2, PublishFacts DEF PublishRecord
<1>4. RequestOK(r)
  BY <1>3, PublishFacts DEF KidsPrevious, RequestOK, PublishRecord, KeysOf, Overlap
<1> HIDE DEF r
<1>5. NeverRolledBack => NewestOK(r)
  BY <1>3, PublishFacts DEF KidsPrevious, NewestOK, Newest, PublishRecord, KeysOf
<1> QED
  BY <1>1, <1>2, <1>3, <1>4, <1>5, PublishFacts, PublishFrame

(* CacheLookup takes the cached body of these kids, or goes on.            *)
LEMMA CacheLookupIInv ==
    ASSUME IInv, NEW p \in Publisher, CacheLookup(p)
    PROVE  IInv'
<1> DEFINE r == IF cache.kids = publish[p].kids
                  THEN [publish[p] EXCEPT !.pc = "served", !.body = cache.body]
                  ELSE [publish[p] EXCEPT !.pc = "body"]
<1>1. publish' = [publish EXCEPT ![p] = r]
  BY DEF CacheLookup
<1>2. UNCHANGED <<active, previous, fresh, reloads, reload, verify>> /\ cache' = cache
  BY DEF CacheLookup
<1>3. r \in PublishRecord
      /\ r.first = publish[p].first /\ r.overlap = publish[p].overlap
      /\ r.kids = publish[p].kids /\ r.pc \in {"served", "body"}
      /\ (r.pc = "served" => cache.kids = r.kids /\ r.body = cache.body)
  BY PublishFacts DEF CacheLookup, PublishRecord, NoPublish, NoPair, Overlap
<1>4. RequestOK(r)
  BY <1>3, PublishFacts DEF CacheLookup, RequestOK, PublishRecord, KeysOf, Overlap
<1> HIDE DEF r
<1>5. NeverRolledBack => NewestOK(r)
  BY <1>3, <1>4, PublishFacts DEF CacheLookup, NewestOK, RequestOK
<1> QED
  BY <1>1, <1>2, <1>3, <1>4, <1>5, PublishFacts, PublishFrame

(* BodyActive reads the active key again.                                  *)
LEMMA BodyActiveIInv ==
    ASSUME IInv, NEW p \in Publisher, BodyActive(p)
    PROVE  IInv'
<1> DEFINE r == [publish[p] EXCEPT !.pc = "body2", !.body = <<active, 0>>]
<1>1. publish' = [publish EXCEPT ![p] = r]
  BY DEF BodyActive
<1>2. UNCHANGED <<active, previous, fresh, reloads, reload, verify>> /\ cache' = cache
  BY DEF BodyActive
<1>3. r \in PublishRecord
      /\ r.pc = "body2" /\ r.kids = publish[p].kids /\ r.body[1] = active
      /\ r.first = publish[p].first /\ r.overlap = publish[p].overlap
  <2>1. <<active, 0>> \in (0..fresh) \X (0..fresh) /\ <<active, 0>>[1] = active
    BY PublishFacts
  <2>2. PICK t \in (0..fresh) \X (0..fresh) : t = <<active, 0>> /\ t[1] = active
    BY <2>1
  <2>3. r = [publish[p] EXCEPT !.pc = "body2", !.body = t]
    BY <2>2
  <2> QED
    BY <2>2, <2>3, PublishFacts DEF PublishRecord
<1>4. RequestOK(r)
  BY <1>3, PublishFacts DEF BodyActive, RequestOK, PublishRecord, KeysOf, Overlap
<1> HIDE DEF r
<1>5. NeverRolledBack => NewestOK(r)
  BY <1>3, PublishFacts DEF BodyActive, NewestOK, Newest, PublishRecord, KeysOf
<1> QED
  BY <1>1, <1>2, <1>3, <1>4, <1>5, PublishFacts, PublishFrame

(* BodyPrevious completes the body.                                        *)
LEMMA BodyPreviousIInv ==
    ASSUME IInv, NEW p \in Publisher, BodyPrevious(p)
    PROVE  IInv'
<1> DEFINE r == [publish[p] EXCEPT !.pc = "store", !.body[2] = previous]
<1>1. publish' = [publish EXCEPT ![p] = r]
  BY DEF BodyPrevious
<1>2. UNCHANGED <<active, previous, fresh, reloads, reload, verify>> /\ cache' = cache
  BY DEF BodyPrevious
<1>3. r \in PublishRecord
      /\ r.pc = "store" /\ r.kids = publish[p].kids
      /\ r.body[1] = publish[p].body[1] /\ r.body[2] = previous
      /\ r.first = publish[p].first /\ r.overlap = publish[p].overlap
  <2>1. PICK t \in (0..fresh) \X (0..fresh) :
           /\ t = [publish[p].body EXCEPT ![2] = previous]
           /\ t[1] = publish[p].body[1] /\ t[2] = previous
    <3>1. publish[p].body \in (0..fresh) \X (0..fresh) /\ previous \in 0..fresh
      BY PublishFacts DEF PublishRecord
    <3> DEFINE t == [publish[p].body EXCEPT ![2] = previous]
    <3>2. t \in (0..fresh) \X (0..fresh) /\ t[1] = publish[p].body[1] /\ t[2] = previous
      BY <3>1, PairUpdate
    <3> QED
      BY <3>2
  <2>2. r = [publish[p] EXCEPT !.pc = "store", !.body = t]
    BY <2>1
  <2> QED
    BY <2>1, <2>2, PublishFacts DEF PublishRecord
<1>4. RequestOK(r)
  BY <1>3, PublishFacts DEF BodyPrevious, RequestOK, PublishRecord, KeysOf, Overlap
<1> HIDE DEF r
<1>5. NeverRolledBack => NewestOK(r)
  BY <1>3, PublishFacts DEF BodyPrevious, NewestOK, Newest, PublishRecord, KeysOf
<1> QED
  BY <1>1, <1>2, <1>3, <1>4, <1>5, PublishFacts, PublishFrame

(* PublishDone ends the request.                                           *)
LEMMA PublishDoneIInv ==
    ASSUME IInv, NEW p \in Publisher, PublishDone(p)
    PROVE  IInv'
<1> DEFINE r == NoPublish
<1>1. publish' = [publish EXCEPT ![p] = r]
  BY DEF PublishDone
<1>2. UNCHANGED <<active, previous, fresh, reloads, reload, verify>> /\ cache' = cache
  BY DEF PublishDone
<1>3. r \in PublishRecord
      /\ r.pc = "idle" /\ r.first = 0
  BY PublishFacts DEF PublishDone, PublishRecord, NoPublish, NoPair, Overlap
<1>4. RequestOK(r)
  BY <1>3, PublishFacts DEF PublishDone, RequestOK, PublishRecord, KeysOf, Overlap, NoPublish
<1> HIDE DEF r
<1>5. NeverRolledBack => NewestOK(r)
  BY <1>3, PublishFacts DEF PublishDone, NewestOK, Newest, PublishRecord, KeysOf
<1> QED
  BY <1>1, <1>2, <1>3, <1>4, <1>5, PublishFacts, PublishFrame

(* CacheStore puts a body with the active key of its kids into the cache.  *)
LEMMA CacheStoreIInv ==
    ASSUME IInv, NEW p \in Publisher, CacheStore(p)
    PROVE  IInv'
<1> DEFINE r == [publish[p] EXCEPT !.pc = "served"]
<1>1. publish' = [publish EXCEPT ![p] = r]
  BY DEF CacheStore
<1>2. /\ UNCHANGED <<active, previous, fresh, reloads, reload, verify>>
      /\ cache' = [kids |-> publish[p].kids, body |-> publish[p].body]
  BY DEF CacheStore
<1>3. r \in PublishRecord
      /\ r.pc = "served" /\ r.kids = publish[p].kids /\ r.body = publish[p].body
      /\ r.first = publish[p].first /\ r.overlap = publish[p].overlap
  BY PublishFacts DEF PublishRecord
<1> HIDE DEF r
<1>4. RequestOK(r)
  BY <1>3, PublishFacts DEF CacheStore, RequestOK, PublishRecord
<1>5. NeverRolledBack => NewestOK(r)
  BY <1>3, PublishFacts DEF CacheStore, NewestOK
<1>6. cache' \in [kids : (0..fresh) \X (0..fresh), body : (0..fresh) \X (0..fresh)]
  BY <1>2, PublishFacts DEF PublishRecord
<1>7. cache'.kids[1] = publish[p].first /\ cache'.body = publish[p].body
  BY <1>2, PublishFacts DEF CacheStore, RequestOK
<1>8. publish[p].first \in KeysOf(publish[p].body)
  BY PublishFacts DEF CacheStore, RequestOK
<1>9. NeverRolledBack => (publish[p].first = fresh => KeysOf(publish[p].body) = Newest)
  BY PublishFacts DEF CacheStore, NewestOK
<1> QED
  BY <1>1, <1>2, <1>3, <1>4, <1>5, <1>6, <1>7, <1>8, <1>9, PublishFrame

-----------------------------------------------------------------------------
(* Every step of a reload, of a verification or of a JWKS request.         *)
LEMMA NextIInv == IInv /\ [Next]_vars => IInv'
<1> SUFFICES ASSUME IInv, [Next]_vars PROVE IInv'
  OBVIOUS
<1>1. ASSUME NEW k \in Key, Reload(k) PROVE IInv'
  BY <1>1, ReloadIInv
<1>2. ASSUME NEW v \in Verifier,
             \/ \E k \in Key : KeyForToken(v, k)
             \/ KeyForTokenPrevious(v)
             \/ VerifyDone(v)
      PROVE  IInv'
  BY <1>2, VerifyIInv
<1>3. ASSUME NEW p \in Publisher,
             \/ KidsActive(p) \/ KidsPrevious(p) \/ CacheLookup(p)
             \/ BodyActive(p) \/ BodyPrevious(p) \/ CacheStore(p) \/ PublishDone(p)
      PROVE  IInv'
  BY <1>3, KidsActiveIInv, KidsPreviousIInv, CacheLookupIInv, BodyActiveIInv,
     BodyPreviousIInv, CacheStoreIInv, PublishDoneIInv
<1>4. CASE UNCHANGED vars
  BY <1>4 DEF IInv, vars, TypeOK, ReloadInv, VerifyInv, PublishInv, RequestOK, CacheInv,
              ForwardInv, NeverRolledBack, NewestOK, Newest
<1> QED
  BY <1>1, <1>2, <1>3, <1>4, ReloadStoreIInv DEF Next

(* The inductive invariant holds in every reachable state.                 *)
LEMMA Inductive == Spec => []IInv
<1> QED
  BY InitIInv, NextIInv, PTL DEF Spec

(* Every variable keeps its type, and outside a reload the two slots of    *)
(* Keys hold two different keys.                                           *)
THEOREM TypeCorrect == Spec => []TypeOK
<1>1. IInv => TypeOK
  BY DEF IInv
<1> QED
  BY <1>1, Inductive, PTL

(* keyForToken, which loads active and then previous while Reload may be   *)
(* storing them in the opposite order, refuses a token only if its key was *)
(* neither active nor being replaced when the verification began.          *)
THEOREM NoVerificationFallsBetween == Spec => []RefusedOnlyIfDisplaced
<1>1. IInv => RefusedOnlyIfDisplaced
  BY DEF IInv, VerifyInv, RefusedOnlyIfDisplaced
<1> QED
  BY <1>1, Inductive, PTL

(* The body of /.well-known/jwks.json, built by two more loads or taken    *)
(* from jwksCachePtr, has the key that was active when the request arrived.*)
THEOREM SigningKeyIsPublished == Spec => []JWKSHasSigningKey
<1>1. IInv => JWKSHasSigningKey
  BY DEF IInv, PublishInv, RequestOK, JWKSHasSigningKey
<1> QED
  BY <1>1, Inductive, PTL

(* While no earlier key has been taken back, a JWKS answer that no reload  *)
(* overlapped has exactly the keys of the two slots, cached or not.        *)
THEOREM BothKeysArePublished == Spec => []JWKSHasBothKeys
<1>1. IInv => JWKSHasBothKeys
  <2> SUFFICES ASSUME IInv, NEW p \in Publisher,
                      publish[p].pc = "served", publish[p].overlap = 0, NeverRolledBack
               PROVE  KeysOf(publish[p].body) = {active, previous} \ {0}
    BY DEF JWKSHasBothKeys
  <2>1. reload.pc = "idle" /\ publish[p].first = active
    BY DEF IInv, PublishInv, RequestOK
  <2>2. active = fresh /\ previous = fresh - 1 /\ NewestOK(publish[p])
    BY <2>1 DEF IInv, ForwardInv
  <2> QED
    BY <2>1, <2>2 DEF NewestOK, Newest
<1> QED
  BY <1>1, Inductive, PTL

(* Reload's two stores, without a lock, implement KeyRing: outside of the  *)
(* window between them the pair changes as a whole, each change moves the  *)
(* active key to the previous slot, and a poll that finds the same kid is  *)
(* no change.                                                              *)
THEOREM ReloadImplementsRing == Spec => SlotsImplementRing
<1>1. Init => Ring!Init
  BY SlotsAssumption DEF Init, Ring!Init, NoReload, Key
<1>2. IInv /\ [Next]_vars => [Ring!Next]_(Ring!vars)
  <2> SUFFICES ASSUME IInv, [Next]_vars
               PROVE  \/ \E k \in Key : Ring!Replace(k)
                      \/ UNCHANGED Ring!vars
    BY DEF Ring!Next
  <2>0. TypeOK /\ ReloadInv
    BY DEF IInv
  <2>1. CASE UNCHANGED <<active, previous, reload>>
    BY <2>1 DEF Ring!vars
  <2>2. ASSUME NEW k \in Key, Reload(k) PROVE UNCHANGED Ring!vars
    <3>1. /\ reload.pc = "idle" /\ UNCHANGED <<active, previous>>
          /\ reload'.old = previous
      BY <2>2 DEF Reload, ReloadInto
    <3> QED
      BY <3>1 DEF Ring!vars
  <2>3. CASE /\ reload.pc = "first"
             /\ previous' = reload.cur
             /\ reload' = [reload EXCEPT !.pc = "second"]
             /\ UNCHANGED active
    <3>1. reload'.pc = "second" /\ reload'.old = previous
      BY <2>0, <2>3 DEF TypeOK, ReloadInv
    <3> QED
      BY <2>3, <3>1 DEF Ring!vars
  <2>4. CASE /\ reload.pc = "second"
             /\ active' = reload.key
             /\ reload' = NoReload
             /\ UNCHANGED previous
    <3>1. reload'.pc = "idle" /\ reload.key \in Key
      BY <2>0, <2>4, SlotsAssumption DEF NoReload, TypeOK, ReloadInv, Key
    <3>2. CASE reload.key = active
      BY <2>0, <2>4, <3>1, <3>2 DEF ReloadInv, Ring!vars
    <3>3. CASE reload.key # active
      <4>1. Ring!Replace(reload.key)
        BY <2>0, <2>4, <3>1, <3>3 DEF ReloadInv, Ring!Replace
      <4> QED
        BY <3>1, <4>1
    <3> QED
      BY <3>2, <3>3
  <2>5. ReloadStore => \/ \E k \in Key : Ring!Replace(k)
                       \/ UNCHANGED Ring!vars
    BY <2>3, <2>4 DEF ReloadStore
  <2>6. (Next /\ ~ReloadStore /\ ~(\E k \in Key : Reload(k))) => UNCHANGED <<active, previous, reload>>
    BY DEF Next, KeyForToken, KeyForTokenPrevious, VerifyDone, KidsActive, KidsPrevious,
           CacheLookup, BodyActive, BodyPrevious, CacheStore, PublishDone
  <2>7. UNCHANGED vars => UNCHANGED <<active, previous, reload>>
    BY DEF vars
  <2> QED
    BY <2>1, <2>2, <2>5, <2>6, <2>7
<1> QED
  BY <1>1, <1>2, Inductive, PTL DEF Spec, SlotsImplementRing, Ring!Spec
=============================================================================
