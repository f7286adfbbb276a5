# TLA+ models of komodo-auth-api

komodo-auth-api is an OAuth 2.0 / OTP / passkey token service in Go: a public
and a private HTTP process, each with replicas, that share a Redis cache, call
customer-api and communications-api over HTTP, read a DynamoDB table of banned
customers, and load their RS256 signing key from Secrets Manager. Almost all of
its protocol state is in Redis keys with a TTL, read and written by
`net/http` goroutines without a transaction. The models are about what those
goroutines, the clock, failing calls and crashes can do to each other.

Paths below are relative to the repository root.

## 1. Inventory

| Component | State | Operations | Hard part | What makes it correct |
|---|---|---|---|---|
| Refresh rotation (`internal/api/oauth_token.go`, `internal/db/tokens.go`) | `revoked:jti:*`, `revoked_family:*` | `refresh_token` grant: look up jti, look up family, ban and audience gate, sign, deny the used jti | check-then-set over Redis; a store whose error is only logged; TTLs truncated to seconds | a denied token is not refreshed; reuse revokes the family; a family forks only for a known cause |
| Revocation (`oauth_revoke.go`) | `revoked:jti:*` | `/oauth/revoke` | success must not be claimed on error | a 200 means denied |
| Inspection (`oauth_introspect.go`, `validate.go`) | none, reads `revoked:jti:*` | `/oauth/introspect`, `/validate` | fails open; family denylist not read | a denied token is reported inactive |
| OTP login (`internal/api/otp.go`, `internal/db/otp.go`) | `otp:*`, `otp:cooldown:*`, `otp:redeemed:*`, `otp:attempts:*` | request, verify | four keys with four lives; overlapping verifications; dropped errors | a code logs in once; guesses are bounded; a stored code can be redeemed |
| Grants (`oauth_token.go`, `oauth_authorize.go`, `internal/db/authcode.go`) | `authcode:*`, the tokens clients hold | `client_credentials`, authorize and exchange, refresh | Get and Delete of a code are two calls; claims copied from token to token; registry replaced meanwhile | a used code is refused; sessions keep client, subject and scopes; a ban is honoured |
| Passkey registration (`passkeys_register.go`, `internal/db/webauthn.go`) | `webauthn:reg:*`, `session:claimed:reg:*`, passkeys in customer-api | begin, complete | limit checked at begin only; session and claim keyed by user | limit of ten |
| Passkey login (`passkeys_auth.go`) | `webauthn:login:*`, `session:claimed:login:*`, the signature count in customer-api | begin, complete | claim and session expire separately; Delete may fail; counts written in any order | a challenge logs in once; a replay is flagged where counts can tell; a ban is honoured |
| Key rotation (`internal/jwt`, `cmd/*/main.go`) | Secrets Manager, active and previous slot of each process | upload, daily poll, sign, verify, restart | processes learn of a rotation at different times | live tokens stay verifiable |
| Key slots and JWKS (`internal/jwt/jwt.go`, `internal/api/jwks.go`) | two atomic pointers, one cached body | `Reload`, `keyForToken`, `VerificationKeys`, `cachedJWKSBody` | torn reads; cache filled from a second pair of loads | no token between the slots; JWKS has the signing key |
| Service token cache (`otp.go` `getOrRefreshSvcJWT`) | one token and its expiry, under a mutex | get or sign | five-second renewal margin; exp truncated; one mutex for everyone | alive when used; everyone is served |
| E-mail dispatch (`internal/clients/comms.go`) | counting semaphore | `SendEmail` | drops at the limit and reports success | no slot leaks |
| Client registry (`internal/oauth/clients.go`) | one atomic map | lookups, reload | replaced whole while requests are served | a request obeys one version |
| HTTP clients, ban table, WebAuthn configuration, health, bootstrap, generated models, CDK, tests | none of their own, or not this program's logic | | | |

Components interact through Redis keys (shared by every handler of every
process), through tokens (issued by five operations, consumed by refresh, revoke
and inspect) and through the signing keys (shared inside a process, eventually
equal across processes).

`PROJECT.json` lists every component with its status, and the hazards line by
line.

## 2. Modules

Each component has a specification module; `MC<Module>` adds what TLC needs
(symmetry sets, the versions of the registry); `<Module>Proofs` has the theorems.
Two modules are abstract: `SingleUse` and `KeyRing` state what a component
promises, and a detailed module implements them.

Conventions shared by the handler models:

- A handler is a goroutine with a `pc` that names the call it is about to make.
  One action is one Redis or upstream call, with everything the handler does
  up to its next call. Requests with early returns before the first call are
  the `...Refused` actions: they change nothing.
- A call can fail without effect or take effect and lose its reply; `Fault` counts both, up to `MaxFaults`, and
  so does `Crash` (process death or a cancelled request context at any point of
  a request).
- A Redis key is its remaining TTL (0 when missing), or in `RefreshRotation` the
  instant it expires. `Latency` bounds how long a request takes, where a
  guarantee depends on it.
- Codes, tokens, challenges and keys are numbered in the order they are made:
  they stand for fresh UUIDs, random codes and kids.
- Fields and variables marked *history* record what a property has to remember
  and are never read by an action.

**RefreshRotation** — `tok`, `held`, `revoked`, `revokedFamily` and a request per
handler. `IssueToken` stands for every grant that signs a token: a client's own, for
any audience, and those of a user or of whatever subject a code names. `User` are
the subjects that are no registered client.
`RefreshToken`, `RefreshCheckRevoked`, `RefreshStoreFamily`,
`RefreshCheckFamily`, `RefreshGate`, `RefreshSign`, `RefreshRotate` are
`handleRefreshToken` and `refreshRevocationDenied` call by call; `Revoke`,
`RevokeStore` are `/oauth/revoke`; `Introspect`, `Validate`,
`InspectCheckRevoked` the two inspections. Time runs in ticks, `Second` of them
to a second, so that the truncation in `jwt.NumericDate` and in
`StoreRevoked` (`max(int64(remaining.Seconds()), 1)`) is visible. The history
variable `mayFork` collects the families that have a cause to fork: a refresh got
past the lookup of its jti beside another refresh of the same token
(`AnotherUse`), after the entry of that token had lapsed or after the token had run
out, or the StoreRevoked of the used token failed.

**OtpLogin** — one address, four keys. `OTPRequest`, `ClearRedeemed`, `StoreOTP`
are `GenerateAndStoreOTP`; `OTPVerify` (the Exists), `IncrAttempts`,
`ExpireAttempts` are `IncrOTPAttempts`; `GetOTP`, `ClaimRedemption`, `DeleteOTP`
are `VerifyOTP`; `ResetAttempts` is `DeleteOTPAttempts` and the rest of the
handler. A counter without a TTL (`NoTTL`) is a state of its own, because Incr
and Expire are two calls.

**PasskeyRegister**, **PasskeyLogin** — one user each, with the session, the claim
and what customer-api has of the user. In PasskeyLogin the passkey either counts its
assertions or is synced and reports 0, from its registration on
(`docs/adr/002-passkeys.md:34`; a passkey that reports 0 after it has counted, as in
`passkeys_auth_test.go:615`, is not in the model: its first login after that has the
warning and writes 0). `FinishLogin` compares the reported count with the stored one as
go-webauthn's `UpdateCounter` does (a clone warning unless the count has grown or
both are 0), `UpdateCredential` writes it back, whatever is stored by
then; `undercut` (history) has the challenges whose count was put back below them.
A ban can be lifted or expire (`BanLapses`).

**Grants** — the claims of tokens rather than their lives: every token a client
has got, with subject, audience, azp, scopes and the `svc:` scope that
`serviceScopes` adds, and the grant it goes back to (history).
`ClientCredentials` and `PasskeyTokens` are one step each, since nothing they do
before signing can interleave with a step that matters; `RefreshToken`,
`RefreshCheckBan`, `RefreshSign` are the refresh grant without the denylists
(which RefreshRotation has: here `RefreshDenied` may refuse at any point);
`Authorize`, `Exchange`, `DeleteCode`, `ExchangeCheckBan`, `ExchangeSign` are the
authorization-code grant, switched on. The registry is a sequence of versions;
`Reload` moves the pointer, and a refresh keeps the record it copied when it
arrived. Nothing keeps user ids and client ids apart: `/oauth/authorize` takes its
`user_id` parameter unchecked (`oauth_authorize.go:118-122`; `README.md:525` calls it a
placeholder for the login UI), and the refresh grant compares subject and `azp`
(`oauth_token.go:280`). `UserId` are the values it is given, clients or users;
`NamesAssumption` demands no more of them.

**Outbound** — the service token cache and e-mail dispatch of one process.
`Lock`, `CheckCached`, `SignToken`, `SignFails`, `StoreToken` are
`getOrRefreshSvcJWT`; a caller goes on to use the token for up to `CallTime`.
Ticks are fractions of a second, because exp is a whole second, `svcJWTExpiry`
is not, and signing takes time between the two readings of the clock.
`SendEmail`, `SendEmailDropped`, `EmailEnds` are the semaphore and the detached
goroutine, which ends by its timeout at the latest.

**SingleUse** — items, each claimed by at most one holder at a time and used at
most once; a holder may give up, and an item may leak, after which it can be
claimed again. PasskeyLogin implements it for challenges (`LogsInOnce`; a
challenge leaks exactly when the Delete of its session fails), OtpLogin for codes
between two re-requests (`RedeemsOnce`; nothing leaks). Authorization codes do
not implement it: they are not claimed before they are used.

**KeyRing** — a pair of keys that changes as a whole: a new key moves the active
one to the previous slot; a restart empties it. KeySlots implements it
(`SlotsImplementRing`): between its two stores a reload has not taken effect.
This is what lets KeyRotation treat a reload as one step.

**KeyRotation** — the secret, each process's slots and time to its next poll, and
for every key the remaining life of its longest-lived token. A reload is one
step here.

**KeySlots** — the same reload inside one process, store by store, against
verifications and JWKS requests, load by load. A request overlaps at most one
reload (polls are a day apart).

## 3. Runs

| Run | Instance | Checks |
|---|---|---|
| `RefreshRotation_races` | 2 handlers, 1 client, a user, 3 tokens (one issued, two from refreshes), 1 fault, half-second ticks, requests may be slow | `TypeOK`, `DenylistCoversToken`, `DeniedTokenNeverRefreshes`, `FamilyBlockLastsAsLongAsReused`, `FamilyEntryIsBacked`, `NoForkWithoutCause`, `RevokeAnswerIsTrue`, `InspectHonoursDenylist` |
| `RefreshRotation_family_lapse` | 1 handler, 3 tokens | `RevokedFamilyStaysRevoked` is **violated** |
| `OtpLogin_races` | 2 handlers, 2 codes, 1 fault | `TypeOK`, `OneLoginPerCode`, `TriesBounded`, `StoredCodeIsRedeemable`, `LockoutExpires`, `CodeGoesOnlyWhenUsed`; the refinement `RedeemsOnce` |
| `OtpLogin_attempts` | 1 handler, 2 codes, no faults | `TriesWithinLimit` is **violated** |
| `KeyRotation_spaced` | 3 processes, 4 keys, a failed poll, a restart; spacing = token life + 2 polls | `TypeOK`, `NoLiveTokenLosesItsKeyWhenSpaced`, `RotationReachesEveryone` |
| `KeyRotation_token_spacing` | 2 processes, 3 keys; spacing = token life | `NoLiveTokenLosesItsKey` is **violated** |
| `KeySlots_reloads` | 1 verifier, 2 publishers, 3 keys, 4 reloads with rollbacks | `TypeOK`, `RefusedOnlyIfDisplaced`, `JWKSHasSigningKey`, `JWKSHasBothKeys`; the refinement `SlotsImplementRing` |
| `PasskeyRegister_races` | 3 handlers, 4 ceremonies, limit 2, 1 fault | `TypeOK`, `LimitExceededByAtMostOne` |
| `PasskeyRegister_limit` | 2 handlers, 2 ceremonies, limit 2, no faults | `AtMostMaxPasskeys` is **violated** |
| `PasskeyLogin_races` | 2 handlers, 2 challenges, a counting or a synced passkey, 2 faults | `TypeOK`, `ReplayIsFlagged`, `BanStopsLogin`; the refinement `LogsInOnce` |
| `Grants_races` | 2 handlers, 2 clients, a user, 2 registry versions, 1 code for the user or for a client, 2 grants, 1 fault | `TypeOK`, `LateExchangeRefused`, `BanStopsTokens`, `SessionStaysWithItsClient`, `ScopesComeFromTheGrant`, `RefreshFollowsOneVersion` |
| `Outbound_limits` | 2 callers, half-second ticks, a token of 4 s renewed 2 s early, calls of up to 2 s; 3 senders, 2 slots | `TypeOK`, `TokenLastsForTheMargin`, `QuietFreesTheSlots`; `CallersAreServed` under fairness |

**Bounds.** Two handlers show every pairwise race; passkey registration uses
three, because a claim that expires and a third request matter there. Passkey
login has two faults: one for the Delete that lets a challenge log in again and
one for what else may fail on the way. TTLs
are two or three ticks, so that keys expire in the middle of a request as well
as between requests. Two keys of a kind (tokens of a family, codes of an
address, ceremonies) let the late effect of one meet the other; slots need three
keys for one to be displaced. `RefreshRotation_races` has one token issued
(`MaxIssued`) and two signed by refreshes: a family of a parent and its two
children, or of three generations. It is the largest run, with four million states.
In `Grants_races` the second version of the registry changes one client's secret,
audiences and scopes and drops the other client; two grants are needed for one
code to be exchanged twice. In `OtpLogin_races` the properties about requests
one after the other are conditional on the history variable `alone`, so one
run covers both. The three senders of `Outbound_limits` are one more than the slots.

**Fairness.** `CallersAreServed`, the one liveness property, assumes weak fairness of
the steps of a caller that holds the mutex, which is Go scheduling a runnable
goroutine, and strong fairness of `Lock`: a mutex
that is free again and again is got in the end, because `sync.Mutex` hands it
to a goroutine that has waited for a millisecond. Signing always comes to an end
in the model, well or not. Nobody has to ask for a token. The handlers of the
other modules run a fixed list of calls without a loop or a lock, so no liveness
property is stated for them.

**Deadlock** is checked in every run but is not informative where refused
requests can always stutter.

## 4. What the runs show

- A token in the denylist when its refresh arrives is never refreshed, under
  any interleaving, error, lost reply or crash, except in the last second of its
  life: the TTL is truncated to whole seconds and the entry may end that much
  earlier than the token.
- A revoked family stays revoked exactly as long as some *reused* member would
  have lived (`FamilyBlockLastsAsLongAsReused`), which is shorter than the life
  of the members signed after it: `RefreshRotation_family_lapse` has a member
  refreshed after the revocation lapsed. `docs/DATA-MODEL.md:16` and
  `README.md:517` say that all tokens of the family are rejected.
- A family has two usable refresh tokens only for one of four causes
  (`NoForkWithoutCause`): two refreshes of one token overlapped, both past the
  denylist check before either stored the jti; the used token was presented again
  in its last second, when its entry had lapsed; a request outlasted the token it
  had parsed; or StoreRevoked failed, which the handler only logs. The
  code has no claim that would prevent the first. Concurrent refreshes of other
  tokens, of other families, revocations, crashes and lost replies never fork a family.
- The redemption claim admits one login per code between two re-requests. A
  re-request deletes the claim (`internal/db/otp.go:24`), so a verification that
  overlaps it can redeem the old code a second time; without overlap a code
  logs in once even if its Delete fails.
- The attempt counter belongs to the address and gets its TTL from the first
  attempt, so a second code can meet a counter that is about to expire:
  `OtpLogin_attempts` exceeds the limit without faults or overlap
  (`README.md:514` says five per OTP and that counter and code co-expire).
  `TriesBounded` is what the counter does guarantee to sequential requests.
- Two key slots are safe if rotations are a token life *plus the longest polling
  lag* apart and no process restarts. With a token life alone, which
  `docs/runbooks/key-rotation.md:109` calls a guarantee, a late process's token
  loses its key (`KeyRotation_token_spacing`). A restart empties the previous
  slot, so nothing holds after one.
- The order of the stores in `Reload` and of the loads in `keyForToken` is right:
  no token falls between the slots. A JWKS body always has the key that was
  active when the request arrived. After a rollback to an earlier key a body
  cached during the earlier reload can be served for the same kids and lack the
  previous key, so `JWKSHasBothKeys` is stated for histories without a rollback.
- The limit of ten passkeys, which `docs/adr/002-passkeys.md:37` gives as "Max 10", can
  be exceeded without any fault (`PasskeyRegister_limit`): the limit is compared
  at begin only, so a ceremony begun below it while another one completes is completed
  above it, once the claim of the other has expired. It is exceeded by one at most
  (`LimitExceededByAtMostOne`): the claim keyed by the user, which lasts as long
  as a session, is what stops the next one. This needs requests to be short:
  `LatencyAssumption` of `PasskeyRegister` has the bound (100 seconds with the
  code's TTLs).
- Claim and Delete together make a passkey challenge single-use, whatever else
  overlaps or fails; only if the session's Delete fails can a slow completion's
  session outlive the claim. If the passkey counts its assertions, the second login
  then carries the clone warning (`ReplayIsFlagged`), which the code logs and does not
  act on, unless a completion with an older assertion has put the count back below
  it. If the passkey is synced, it carries none: go-webauthn exempts a count of 0
  against 0, so the replay looks like any other login.
- A family entry always has a denied member behind it: errors and crashes never
  pass for a reuse. A client that retries a refresh whose answer was lost does,
  by design.
- An address is locked out beyond the counter's life only if an Expire failed or
  its process died after the Incr; no interleaving does it.
- Overlapping requests aside, a code leaves the store only by its own
  verification, a newer code or expiry. With overlap the Delete of an old code's
  verification can remove the new code.
- An authorization code has no claim: overlapping exchanges can both succeed.
  One that arrives after another ended succeeds only if the Delete failed.
- A ban that precedes a passkey completion, a code exchange or a refresh is
  honoured unless the lookup fails in that very request, or the refreshed session
  was granted a `svc:` scope at `/oauth/authorize` (which stores the requested
  scopes unchecked), since the refresh then counts as a service's. OTP
  verification has no ban lookup.
- Over any number of refreshes a session stays with its client and subject and
  gains no scope of the registry, and one opened by a login or a code keeps the
  audience `user`. If a code was authorised with the client's own id as `user_id`, a
  refresh takes the session for a service's: it signs the scopes that
  `/oauth/authorize` stored unchecked and adds `svc:<client>`. The properties
  say that no other session gets there. A refresh obeys the version of the registry
  that authenticated its client. A scope withdrawn from the registry lives on in
  the sessions that have it.
- A caller has its service token for the margin less one second (exp is
  truncated) less the time signing took: about four of the five seconds. A
  handler that makes two calls with one token and waits longer than that in the
  first (timeouts are longer) can present an expired one in the second.
- E-mails are dropped only under load: no outcome of a send keeps its slot.

Divergences met while modelling that have no run of their own:
`README.md:510` says a refresh inherits scopes, but a user session's access token
gets `passkey:verified` alone whatever opened it; `README.md:382` and
`docs/DATA-MODEL.md:47` give every M2M token a `svc:` scope, but one requested
without scopes has none until it is refreshed; a client whose only audience is
not the service one gets a refresh token for the service audience that the
refresh gate then refuses; a client with several audiences and not the service
one still gets an access token for it; `docs/HLD.md:24` says user tokens never
carry `svc:` scopes nor a service audience: the audience holds (`SessionStaysWithItsClient`),
the scopes do not, since the authorization-code grant, if enabled, signs a `svc:` scope that
was requested and, for a subject that is the client, adds one on refresh;
an authorization code is exchanged twice by exchanges that overlap.

## 5. Proofs

Every invariant and every safety action property of the passing runs is also a
theorem, and so are the refinements. The theorems hold for every value of the
constants that satisfies the modules' `ASSUME`s: any handlers or processes,
clients, TTLs, limits, clock granularity and bounds. The bounds of section 3 are
therefore bounds of the runs only.

Each proof module has an inductive invariant `IInv`, a conjunction of named parts
with a comment each; a lemma for the initial state; one lemma or step per action,
split by the parts the action can disturb; and the theorems, which combine them.
Where a handler acts on what it read in an earlier step, `IInv` has a part about the
request that must survive the steps of all the others; that part is what each
proof is about. Every `IInv` was an invariant of TLC on the instance of the runs before
it was proved.

**RefreshRotationProofs**: `TypeCorrect`, `DenylistCovers`,
`DeniedTokenIsRefused`, `RevokedFamilyIsRefused`, `FamilyRevocationIsBacked`, `RevokeIsTruthful`,
`InspectIsTruthful`, `ForksHaveACause`. `IInv` has a part about the store
(`StoreInv`: types; a token not yet signed is in no denylist; a denylist entry is within
a second of its token's expiry; a family entry has a denied member behind it
that lives as long, to within a second) and, for every handler, a part about its
request (`GoodRequest`: a request past a check whose token was denied on arrival
is in the last second of the token, or of a reused member). It survives since time
and the denylists only grow and tokens never change once signed. The lemmas on
`StoreTTL` bound the truncation. The two action properties follow from `IInv` and the
one action that can answer.
For `ForksHaveACause`, `ForkInv` adds, for every family not in `mayFork`: all its tokens
that clients have but the youngest were denied or have run out (`OlderInv`); a refresh past
the lookup of its jti has the youngest (`YoungestInv`), so what it signs is younger
still; and no two such refreshes have the same token (`AloneInv`). `YoungestInv`
is where the denylist matters: an older token that is denied is refused at the
lookup, and one that is not refused has had its entry lapse or its life end, which is a
cause. It holds for any number of handlers that serve the family at once.

**OtpLoginProofs**: `TypeCorrect`, `CodesLogInOnce`, `GuessesAreBounded`,
`CodesCanBeRedeemed`, `LockoutsExpire`, `CodesGoWhenUsed`, and
`RedemptionsAreSingleUse`, the refinement of `SingleUse`. For the refinement, `HoldInv`
says that a claim lives as long as the request that made it can take, so a
second SetNX fails, and `ClaimInv` that a code redeemed in this epoch is gone from
the store and that a verification that read it before that still meets the claim. Both
rest on `LatencyAssumption`: a request that reads the code just before it is deleted
may try to claim it a request's length later, and the claim must be there then.
`EpochInv` bounds how many re-requests can still clear the claim. `AloneInv`,
`RedeemableInv` and `TryInv` are about requests that do not overlap; `TryInv` bounds
the guesses at the stored code by what the counter still admits: as many as it
counts, and up to a full set more once the counter it inherited has expired.

**PasskeyLoginProofs**: `TypeCorrect`, `ReplaysAreFlagged`, `BansStopLogins`, and
`ChallengesAreSingleUse`, the refinement of `SingleUse`. `HoldInv` and `ClearInv` play the
parts of `HoldInv` and `ClaimInv` above, for a claim and a session that expire
separately. `CountInv` says of a counting passkey that, except for challenges
below which it was put back, the count is at least that of every login, and a
request without a warning that read an older count meets the claim; of a synced one,
that every count is 0 and no request has a warning (`UpdateFacts`).

**PasskeyRegisterProofs**: `TypeCorrect`, `LimitIsExceededByAtMostOne`. No ceremony is begun
at the limit, so what matters is how long a ceremony begun earlier can still
claim: `WaitInv` bounds that, by what is left of its session and of its requests,
by `Due`, what is left of the present claim and, while one more passkey may be
created, of the claim after it (`Slack`). So one more completion fits in, and its claim
outlasts the others. `LatencyAssumption` is what the two claims need to cover.

**GrantsProofs**: `TypeCorrect`, `LateExchangesAreRefused`, `BansStopTokens`,
`SessionsStayWithTheirClient`, `ScopesStayInTheGrant`, `RefreshesFollowOneVersion`. `TokenInv`
says of every token what it shares with the grant it goes back to, over any
number of refreshes; `RequestInv` and `CodeInv` say that the request that will sign the
next token has a token or a code for which that holds, let in by the registry
version it remembers. An entry of a spent code is gone unless its Delete failed,
so that an exchange which arrives later finds nothing. Clients and users may share
any names: where a session's subject is its own client, `TokenInv` distinguishes
what opened it by the registry version of the grant (0 for a login or a code). The registry may be any
sequence of partial functions from clients to records (`RegistryAssumption`).

**KeySlotsProofs**: `TypeCorrect`, `NoVerificationFallsBetween`, `SigningKeyIsPublished`,
`BothKeysArePublished`, and `ReloadImplementsRing`, the refinement of `KeyRing`. `ReloadInv`
fixes what the slots hold between the two stores (the active key, twice);
`VerifyInv` and `PublishInv` say where the key that was active when a request began
can be at each of its loads; `CacheInv` and `ForwardInv` say what a cached body has for
its pair of kids, the second while no key was rolled back.

**KeyRotationProofs**: `TypeCorrect`, `RotationReaches`, `SpacedRotationIsSafe`, `ProcessIsRing`.
`IInv` adds to the types that a process still behind a rotation polls before the
lag runs out (`BehindPollsSoon`), and, while the operator keeps the spacing and
nothing restarts, that the slots of a process hold adjacent keys
(`SlotsAdjacent`) and that tokens of a displaced key run out in time
(`OldTokensDieOut`). `Lag` is linear in the number of failed polls;
`LagType`, `LagStep` and `LagMonotone` keep the product out of the arithmetic of the
main proof. `ProcessIsRing` shows that each process refines the same `KeyRing` that
KeySlots implements, which joins the two models of a reload.

**OutboundProofs**: `TypeCorrect`, `TokensLastForTheMargin`, `SlotsAreGivenBack`. `TokenInv`
relates the cached token's remaining life to `svcJWTExpiry`, from which it differs by
the truncated second and the time of signing, and says the same of a caller on
its way; `MailInv` says that an e-mail being sent was accepted no later than the
last one, so that it has timed out once the process was quiet for that long.

**Only model-checked**: the liveness property `CallersAreServed`
(fairness and ENABLED are beyond the prover). The properties of
the four violation runs are false and have no theorem.

## 6. Not modelled

Cryptography and parsing (signatures, PKCE, WebAuthn verification, JSON): guards.
Which scopes `IsValidScope` knows is a parameter. The read-only client listings,
the URLs, headers and body limits of the HTTP clients and the reachability
probes change no state. Rate limiting and middleware of the SDK, health checks, bootstrap beyond
key loading, generated models, infrastructure and tests: no protocol state of
this program. The Delete after a passkey registration can remove the session of a
ceremony begun meanwhile; the model has it, and since the user can begin again
no property is about it. In `KeySlots` a kid stands for its key: a secret uploaded with new
material under the same kid, which leaves a stale JWKS body, is outside it.

## 7. Plan

Done: the inventory, the component modules and their runs, the two abstract
specifications and the refinements, and the proofs of all safety properties and
refinements for every value of the constants. What is left:

1. `LatencyAssumption` of PasskeyRegister is sufficient; whether it is also the
   weakest such bound is open.
