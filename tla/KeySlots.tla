------------------------------ MODULE KeySlots ------------------------------
(***************************************************************************)
(* The signing keys inside one process (internal/jwt): two atomic          *)
(* pointers, active and previous, that Reload writes one after the other   *)
(* while requests read them one after the other, without a lock; and the   *)
(* JWKS body cache (internal/api/jwks.go), an atomic pointer that is filled*)
(* from a second pair of reads.  Each Load and each Store is one step.     *)
(*                                                                         *)
(* A key stands for its kid.  Watch polls once a day and a request lasts   *)
(* seconds, so a request overlaps at most one reload.                      *)
(***************************************************************************)
EXTENDS Naturals

CONSTANTS
    Verifier,   \* goroutines verifying a token
    Publisher,  \* goroutines serving /.well-known/jwks.json
    MaxKey,     \* bound: the last key
    MaxReloads  \* bound: reloads that change the key

ASSUME SlotsAssumption ==
    /\ MaxKey \in Nat \ {0}
    /\ MaxReloads \in Nat

VARIABLES
    active,    \* Keys.active
    previous,  \* Keys.previous, 0 when nil
    fresh,     \* the last key the operator has generated
    reloads,   \* how many reloads have changed the key
    reload,    \* the reload in progress, of the Watch goroutine
    verify,    \* the verification each Verifier is doing
    publish,   \* the request each Publisher is serving
    cache      \* jwksCachePtr: the kids it was built for and its keys

vars == <<active, previous, fresh, reloads, reload, verify, publish, cache>>

-----------------------------------------------------------------------------
Key == 1..MaxKey

(* What two loads of the slots saw: active first, 0 for a nil previous.    *)
NoPair == <<0, 0>>

KeysOf(pair) == {pair[1], pair[2]} \ {0}

(* old is history: the previous slot before the reload.                    *)
NoReload  == [pc |-> "idle", cur |-> 0, key |-> 0, old |-> 0]

(* first is history: the key that was active when the request began and,   *)
(* for a verification, the one a reload in progress was replacing; overlap *)
(* tells whether a reload ran at the same time.                            *)
NoVerify  == [pc |-> "idle", kid |-> 0, first |-> {}, overlap |-> 0]
NoPublish == [pc |-> "idle", kids |-> NoPair, body |-> NoPair, first |-> 0, overlap |-> 0]

Overlap == IF reload.pc = "idle" THEN 0 ELSE 1

Init ==
    /\ active = 1
    /\ previous = 0
    /\ fresh = 1
    /\ reloads = 0
    /\ reload = NoReload
    /\ verify = [v \in Verifier |-> NoVerify]
    /\ publish = [p \in Publisher |-> NoPublish]
    /\ cache = [kids |-> NoPair, body |-> NoPair]

-----------------------------------------------------------------------------
(* The operator uploads a fresh key, the previous one again or nothing,    *)
(* and Watch calls Reload, which loads the active keyset.  A request that  *)
(* is being served notes the overlap.                                      *)
ReloadInto(k, pc) ==
    /\ reload.pc = "idle"
    /\ \/ fresh < MaxKey /\ k = fresh + 1 /\ fresh' = k
       \/ k \in {active, previous} /\ UNCHANGED fresh
    /\ reloads' = IF k = active THEN reloads ELSE reloads + 1
    /\ reloads' <= MaxReloads
    /\ \A v \in Verifier : verify[v].overlap = 0
    /\ \A p \in Publisher : publish[p].overlap = 0
    /\ reload' = [pc |-> pc, cur |-> active, key |-> k, old |-> previous]
    /\ verify' = [v \in Verifier |->
          IF verify[v].pc = "idle" THEN verify[v] ELSE [verify[v] EXCEPT !.overlap = 1]]
    /\ publish' = [p \in Publisher |->
          IF publish[p].pc = "idle" THEN publish[p] ELSE [publish[p] EXCEPT !.overlap = 1]]
    /\ UNCHANGED <<active, previous, cache>>

(* Mutant: the kids are not compared.                                      *)
ReloadAnyKid(k) == ReloadInto(k, "first")

(* The active key is saved only if the kid is another one.                 *)
Reload(k) == ReloadInto(k, IF k # active THEN "first" ELSE "second")

(* Mutant: the new key is stored before the old one is saved.              *)
ReloadStoreSwapped ==
    /\ \/ /\ reload.pc = "first"
          /\ active' = reload.key
          /\ reload' = [reload EXCEPT !.pc = "second"]
          /\ UNCHANGED previous
       \/ /\ reload.pc = "second"
          /\ previous' = IF reload.cur # reload.key THEN reload.cur ELSE previous
          /\ reload' = NoReload
          /\ UNCHANGED active
    /\ UNCHANGED <<fresh, reloads, verify, publish, cache>>

(* The two stores of Reload: previous, then active.                        *)
ReloadStore ==
    /\ \/ /\ reload.pc = "first"
          /\ previous' = reload.cur
          /\ reload' = [reload EXCEPT !.pc = "second"]
          /\ UNCHANGED active
       \/ /\ reload.pc = "second"
          /\ active' = reload.key
          /\ reload' = NoReload
          /\ UNCHANGED previous
    /\ UNCHANGED <<fresh, reloads, verify, publish, cache>>

-----------------------------------------------------------------------------
(* keyForToken for a token of this kid: the active slot first.             *)
KeyForToken(v, k) ==
    /\ verify[v].pc = "idle"
    /\ verify' = [verify EXCEPT ![v] =
          [pc |-> IF active = k THEN "accepted" ELSE "previous",
           kid |-> k, first |-> {active, reload.cur} \ {0}, overlap |-> Overlap]]
    /\ UNCHANGED <<active, previous, fresh, reloads, reload, publish, cache>>

(* Then the previous one.                                                  *)
KeyForTokenPrevious(v) ==
    /\ verify[v].pc = "previous"
    /\ verify' = [verify EXCEPT ![v].pc =
          IF previous = verify[v].kid THEN "accepted" ELSE "rejected"]
    /\ UNCHANGED <<active, previous, fresh, reloads, reload, publish, cache>>

VerifyDone(v) ==
    /\ verify[v].pc \in {"accepted", "rejected"}
    /\ verify' = [verify EXCEPT ![v] = NoVerify]
    /\ UNCHANGED <<active, previous, fresh, reloads, reload, publish, cache>>

-----------------------------------------------------------------------------
(* cachedJWKSBody: VerificationKeys, for the kids ...                      *)
KidsActive(p) ==
    /\ publish[p].pc = "idle"
    /\ publish' = [publish EXCEPT ![p] =
          [NoPublish EXCEPT !.pc = "kids", !.kids = <<active, 0>>,
                            !.first = active, !.overlap = Overlap]]
    /\ UNCHANGED <<active, previous, fresh, reloads, reload, verify, cache>>

KidsPrevious(p) ==
    /\ publish[p].pc = "kids"
    /\ publish' = [publish EXCEPT ![p].pc = "cache", ![p].kids[2] = previous]
    /\ UNCHANGED <<active, previous, fresh, reloads, reload, verify, cache>>

(* Mutant: any cached body will do.                                        *)
CacheLookupAnyKids(p) ==
    /\ publish[p].pc = "cache"
    /\ publish' = [publish EXCEPT ![p] =
          IF cache.kids # NoPair
            THEN [@ EXCEPT !.pc = "served", !.body = cache.body]
            ELSE [@ EXCEPT !.pc = "body"]]
    /\ UNCHANGED <<active, previous, fresh, reloads, reload, verify, cache>>

(* ... which select the cached body,                                       *)
CacheLookup(p) ==
    /\ publish[p].pc = "cache"
    /\ publish' = [publish EXCEPT ![p] =
          IF cache.kids = publish[p].kids
            THEN [@ EXCEPT !.pc = "served", !.body = cache.body]
            ELSE [@ EXCEPT !.pc = "body"]]
    /\ UNCHANGED <<active, previous, fresh, reloads, reload, verify, cache>>

(* or, on a miss, buildJWKS: VerificationKeys again, for the keys.         *)
BodyActive(p) ==
    /\ publish[p].pc = "body"
    /\ publish' = [publish EXCEPT ![p].pc = "body2", ![p].body = <<active, 0>>]
    /\ UNCHANGED <<active, previous, fresh, reloads, reload, verify, cache>>

BodyPrevious(p) ==
    /\ publish[p].pc = "body2"
    /\ publish' = [publish EXCEPT ![p].pc = "store", ![p].body[2] = previous]
    /\ UNCHANGED <<active, previous, fresh, reloads, reload, verify, cache>>

CacheStore(p) ==
    /\ publish[p].pc = "store"
    /\ cache' = [kids |-> publish[p].kids, body |-> publish[p].body]
    /\ publish' = [publish EXCEPT ![p].pc = "served"]
    /\ UNCHANGED <<active, previous, fresh, reloads, reload, verify>>

PublishDone(p) ==
    /\ publish[p].pc = "served"
    /\ publish' = [publish EXCEPT ![p] = NoPublish]
    /\ UNCHANGED <<active, previous, fresh, reloads, reload, verify, cache>>

Next ==
    \/ \E k \in Key : Reload(k)
    \/ ReloadStore
    \/ \E v \in Verifier :
          \/ \E k \in Key : KeyForToken(v, k)
          \/ KeyForTokenPrevious(v)
          \/ VerifyDone(v)
    \/ \E p \in Publisher :
          \/ KidsActive(p)
          \/ KidsPrevious(p)
          \/ CacheLookup(p)
          \/ BodyActive(p)
          \/ BodyPrevious(p)
          \/ CacheStore(p)
          \/ PublishDone(p)

Spec == Init /\ [][Next]_vars

-----------------------------------------------------------------------------
(* The type of every variable.  Outside a reload the two slots hold two    *)
(* different keys, and a cached body is that of a pair of kids.            *)
TypeOK ==
    LET Pair == (0..fresh) \X (0..fresh)
    IN  /\ active \in 1..fresh
        /\ previous \in 0..fresh
        /\ reload.pc = "idle" => active # previous
        /\ fresh \in Key
        /\ reloads \in 0..MaxReloads
        /\ reload \in [pc : {"idle", "first", "second"}, cur : 0..fresh, key : 0..fresh,
                       old : 0..fresh]
        /\ verify \in [Verifier ->
              [pc : {"idle", "previous", "accepted", "rejected"}, kid : 0..MaxKey,
               first : SUBSET (1..fresh), overlap : {0, 1}]]
        /\ publish \in [Publisher ->
              [pc : {"idle", "kids", "cache", "body", "body2", "store", "served"},
               kids : Pair, body : Pair, first : 0..fresh, overlap : {0, 1}]]
        /\ cache \in [kids : Pair, body : Pair]

(* Between its two stores a reload has not taken effect yet.               *)
Ring == INSTANCE KeyRing WITH
    Nil      <- 0,
    previous <- IF reload.pc = "second" THEN reload.old ELSE previous

(* The two stores of Reload, without a lock, implement a pair that changes *)
(* as a whole: each change puts the key that was active into the previous  *)
(* slot and a poll that finds the same kid changes nothing.                *)
SlotsImplementRing == Ring!Spec

(* No verification falls between the two slots: a token is refused only    *)
(* when its kid was neither active nor being replaced by a reload when the *)
(* verification began, and was in neither slot if no reload ran meanwhile. *)
RefusedOnlyIfDisplaced ==
    \A v \in Verifier :
        verify[v].pc = "rejected" =>
            /\ verify[v].kid \notin verify[v].first
            /\ verify[v].overlap = 0 => verify[v].kid \notin {active, previous}

(* A JWKS answer has the key that was active when the request arrived,     *)
(* cached or not, whatever the reload it may have overlapped did.          *)
JWKSHasSigningKey ==
    \A p \in Publisher :
        publish[p].pc = "served" => publish[p].first \in KeysOf(publish[p].body)

(* Reload never went back to an earlier key: each one took a fresh key.    *)
NeverRolledBack == reloads = fresh - 1

(* JWKS publishes the active and the previous key, through the cache, too: *)
(* as long as no key was rolled back, an answer that no reload overlapped  *)
(* has exactly the keys of the two slots.                                  *)
JWKSHasBothKeys ==
    \A p \in Publisher :
        (publish[p].pc = "served" /\ publish[p].overlap = 0 /\ NeverRolledBack)
            => KeysOf(publish[p].body) = {active, previous} \ {0}
=============================================================================
