# A TLA+ development of MCPBouncer

MCPBouncer puts OAuth in front of MCP servers. A Traefik plugin (`plugin/`)
checks the bearer token of every request; a sidecar (`sidecar/`) is the
authorization server: it registers clients, sends the browser to an upstream
OIDC provider, issues and refreshes tokens, and rotates the keys that sign them.
This directory holds TLA+ models of the parts of that system whose correctness
depends on order, time, failure or concurrency, the TLC configurations that check
them on small instances, and TLAPS proofs of the main results for every value of
the parameters. File names below are relative to the repository; `internal/`
stands for `sidecar/internal/`.

## 1. Inventory

| Component | State | Operations | Interacts with | Hard behaviour | What makes it correct |
|---|---|---|---|---|---|
| Signing-key rotation (`internal/keys/rotator.go`) | table `signing_keys` | Ensure (boot), rotate (ticker), ActiveKey | issuer, JWKS, janitor | two UPDATEs per promotion, crashes and errors between them, a captured `now` | one signing key; keys announced before use; a key outlives its tokens |
| Token issuer (`internal/tokens/issuer.go`) | none | MintAccessToken, MintRefreshToken | rotator, token endpoint | key read first, expiry computed later | the signing key is still published when the token is checked |
| JWKS endpoint (`internal/as/jwks.go`, `internal/keys/jwks.go`) | none | HandleJWKS | plugin | read in the middle of a rotation | pending and retiring keys are served |
| Plugin JWKS cache (`plugin/jwks_cache.go`) | map of keys, `lastFetch`, RWMutex | Get, refresh | JWKS endpoint | refresh under the lock without a timeout, delayed replies, failures, a 5 s gap | rotation never makes a live token unverifiable; Get returns unless an exchange hangs |
| Token endpoint (`internal/as/token.go`) | tables `codes`, `refresh_tokens`, `clients` | authorization_code, refresh_token | store, issuer, upstream | lookup, DELETE, checks and INSERT are separate statements; ignored errors | tokens go to the owner of the grant only; a spent grant is gone |
| Revocation (`internal/as/revoke.go`) | `refresh_tokens` | HandleRevoke | store | races with refresh; 200s that deleted nothing | nothing is issued from a token after its revocation took effect |
| Authorization (`internal/as/authorize.go`) | table `auth_sessions` | HandleAuthorize | store, upstream | client deleted meanwhile | a session only for a registered redirect URI |
| Callback (`internal/as/callback.go`) | `auth_sessions`, `codes` | HandleCallback | store, upstream | repeated, swapped and dying callbacks | one code per login, for the right user |
| Registration (`internal/as/dcr.go`) | table `clients` | HandleRegister | store, rate limiter | none of its own | the client row exists as long as it is needed |
| Store and janitor (`internal/store/`) | SQLite, one connection | one statement per method; periodic DELETEs | everything | DELETEs between any two statements | nothing is deleted that is still in use |
| Upstream client (`internal/oidc/upstream.go`) | discovery cache | Discover, ExchangeCode, RefreshTokens | upstream provider | slow or failing calls in the middle of a request | an upstream code is redeemed for its own session |
| Encryption (`internal/crypto/aesgcm.go`) | table `encryption_keys`, the loaded keys | load at boot, Encrypt, Decrypt | token, callback, resource configuration, operator | the table and the environment change under a running process | what was encrypted can be decrypted |
| Rate limiter (`internal/httpx/ratelimit.go`) | buckets per address | Middleware, gc, Close | registration | time read before the lock, a stale tick, eviction at the window boundary | limit per window; eviction is invisible; Retry-After is honest |
| Audit log (`internal/audit/audit.go`) | bounded channel | Record, Close, worker | all handlers, shutdown | full buffer, Record against Close | accepted events are dealt with before Close returns |
| Introspection, userinfo, metadata (`internal/as/`) | none | read-only | keys, store | three implementations of one check | they agree with the plugin; the URLs they give lead to a usable token |
| Plugin request path (`plugin/mcpbouncer.go`, `jwt_verify.go`, `routing.go`) | configuration | ServeHTTP, validateAndForward, proxyToSidecar | JWKS cache, sidecar, MCP server | the base is derived anew from each hop's path; prefixes nest; clocks drift | no server receives a token of another |
| Resource configuration (`internal/config/context.go`) | table of resource configurations | FromRequest, PersistEncrypted | plugin headers, encryption | a header that is empty | the sidecar acts for the site the request came through |
| Startup and shutdown (`cmd/bouncer/main.go`, `internal/config`) | process, settings | main | everything | requests that outlive the drain, crashes, settings that do not fit together | keys and cipher before serving; log closed after the last request |
| Metrics and logging | counters | | | | not modelled |

`PROJECT.json` lists every component with its status and every hazard with its
source line and the properties aimed at it.

## 2. Modules

| Module | Models | Checked by |
|---|---|---|
| `KeyService` | abstract: what key management promises to the holders of tokens | refined by `KeyRotation`, used by `JwksCache` |
| `KeyRotation`, `KeyRotationProofs` | rotator, `signing_keys`, janitor, MintAccessToken | `MCKeyRotation` |
| `JwksCache`, `JwksCacheProofs` | the plugin's cache composed with `KeyService` | `MCJwksCache` |
| `TokenPath`, `TokenPathProofs` | the rotator itself behind the plugin's cache, composing `KeyRotation` and `JwksCache` | `MCTokenPath` |
| `Grants`, `GrantsProofs` | token and revocation endpoints, `clients`, `codes`, `refresh_tokens`, janitor | `MCGrants` |
| `Login`, `LoginProofs` | registration, authorize, callback, `auth_sessions`, the upstream provider; refines the login part of `Grants` | `MCLogin` |
| `RateQuota` | abstract: what the limiter promises, without eviction | refined by `RateLimiter` |
| `RateLimiter`, `RateLimiterProofs` | buckets, locked section, collector | `MCRateLimiter` |
| `Cipher` | `encryption_keys`, key versions, Encrypt and Decrypt | through `Sidecar` |
| `AuditLog` | the channel, Record, Close, worker | through `Sidecar` |
| `Sidecar`, `SidecarProofs` | the life of the process, composing `Cipher` and `AuditLog` | `MCSidecar` |
| `Gateway`, `GatewayProofs` | plugin instances and routing, token checks, metadata, the walk of a client | `MCGateway` |

The granularity is the same everywhere. `store.Open` limits SQLite to one
connection, so a statement is atomic and a sequence of statements is not: every
SQL statement and every HTTP exchange is one action, and the actions of requests,
rotator, janitor and clock interleave freely. In-memory computation between two
statements belongs to the action of the first or of the second. Identifiers
(keys, codes, hashes, states) are drawn from sets of unused names, which is what
128 and more random bits provide. A deleted row keeps its columns under
status `gone`: rows are never updated after they were inserted (except client
rows and key rows), so this is also what a request that read the row has in memory.

**Time** is in whole units, standing for the whole seconds the tables hold.
`time.Now()` has a fraction where the tables have none, so comparisons with it
take a nondeterministic `frac`. Everything that
is under way (a rotation, a request, a refresh) ends within `MaxDelay` or
`MaxFetch`: the clock waits for it. This is an assumption about the environment:
the code sets no such limit. Nothing is claimed about executions in which a
request is suspended for longer. The exception is a refresh of the plugin: an exchange
that is not over after `MaxFetch` hangs (`Hang`), and the clock goes on. A reply that
comes after `MaxFetch` and is still installed is left out; `MaxFetch` may be any time below
`Overlap - MinGap`, a day less five seconds by default.

**KeyRotation.** `keys` is the table, `rot` the locals and the program counter of
`Ensure` and `rotate`, `mint[m]` a request inside MintAccessToken. `RotateStart`,
`RotateList`, `RetireOld`, `PromoteNext`, `InsertNext` and `RotateCleanup` are the
steps of `rotate`; `RotateError` is the error return of any of them and `Crash`
ends the process anywhere. `lastExp` is a history variable: the latest expiry
among the tokens a key has signed.

**JwksCache.** A call of `Get` that misses waits for the lock (`Get`), answers from
the map within `MinGap` of the last fetch (`AnswerFromCache`) or refreshes
(`StartRefresh`, `Reply`, `RefreshDone`, `RefreshFails`); `Reply` is the moment
at which the sidecar evaluates the JWKS, `RefreshDone` the moment at which the
plugin installs it. `Hang` is an exchange that falls silent: `http.Get` has no timeout, so
it keeps the write lock until the connection breaks (`RefreshFails`) or a new instance
is built, and nothing makes either happen. `New` is a new middleware instance. The sidecar's steps are
those of `KeyService`; `TokenPath` puts the rotator in their place. A hit under the read
lock changes nothing and is no step. `unknown` is a history: the live tokens that were
answered "not found in JWKS", by key, with the age the key had then.

**TokenPath.** Two processes that share the clock and the reply of `/oauth/jwks.json`:
`SidecarStep` and `EnsureStep` are the actions of `KeyRotation`, crashes and failing
statements included, `PluginStep` those of `JwksCache` over the rotator's table.
`EnsureStep` also records the key Ensure inserts in the history `ensured`. The
refinement to `JwksCache` maps the status and `created_at` of a row to the `stage` and
`since` of a key.

**Grants.** Both grant types follow one path: `Begin` (GetClient), `Touch`,
`Lookup`, `Delete`, `Check`, for refresh tokens with an upstream token `Upstream`,
`Issue`. The handlers ignore the errors of TouchClient and of the DELETEs:
`TokenTouchFails`, `AuthorizeTouchFails` and `DeleteFails`. A revocation goes from `Begin`
through `Lookup` to `Delete`, or is answered without a DELETE (`AnswerOnly`: the hint says
`access_token`, the lookup fails, there is no such token, it is another client's). Every
200 of HandleRevoke is recorded in `revoked` with its time and its reason, which the client
does not learn; the `Effective` ones are those behind which the row is gone. `Abort` ends
a request anywhere. The histories `uses`, `holder`, `audience`, `revoked`, `undeleted`,
`untouched` record what was issued to whom and which ignored statement failed; no
action reads them except `MayFail`, which bounds the failures, and `InsertCode`,
which states what the login guarantees when TouchClient did not fail. The login
appears as `AuthorizeTouch` and `InsertCode` with the assumption that at most
`LoginSpan` lies between them; `Login` discharges it.

**Login.** `Authorize`, `TouchAndCheck` or `TouchFails`, `InsertAuthSession` are
HandleAuthorize; `Callback` or `CallbackError`, `ExchangeCode`, `InsertCode`,
`DeleteSession` are HandleCallback. The browser may present any state with any
upstream code. The provider is external: it issues a code for a session
(`LogIn`) and redeems each code once, for the PKCE verifier of its session
(`Redeemable`), as the code's use of `code_verifier` requires.

**RateLimiter.** `Arrive` is Middleware up to the mutex: the address and
`time.Now()` are taken there, so the locked section (`Pass` or `TooMany`) may work
on a time up to `MaxDelay` old, older than the bucket it finds. The collector
evicts (`Collect`) by the time its ticker left in the channel; `Cancel` and `Stop`
end it. `ledger`, `reply`, `promise` and `passed` are histories: the latest window
of an address whether its bucket still exists or not, the answer, the last
Retry-After, and when requests passed in the last two windows. The refinement maps
`ledger` and `reply` to `RateQuota`, in which nothing is evicted.

**Cipher, AuditLog, Sidecar.** `Cipher` keeps the table, the environment of the
next boot, the keys the running process has loaded and the stored ciphertexts. A
ciphertext has the material that sealed it and the key id that `parseVersioned` reads
from its first bytes, which for a legacy one may be an accident of its nonce.
`AuditLog` has the three outcomes of Record (`Enqueue`, `Drop`, `SendPanics`) and the
worker (`Receive`, `Persist`, `Finish`). `Sidecar` is main.go: `Boot` loads the keys and
starts the worker; requests are accepted (`Accept`), store a secret (`Handle`) and
record (`Record`); `Signal` begins the ten seconds of Shutdown, `CloseLog` ends
them with every request done or with the timeout expired, `Exit` waits for the worker,
and `Crash` may come anywhere. `Operator` inserts and retires keys and changes the
environment at any time. `accepted` and `handled` are the events of one process;
`timedOut` and `cutOff` record requests that were given up on and those whose Record
panicked.

**Gateway.** Several plugin instances ("sites") share one host and one sidecar.
Paths are sequences of segments, and `Route` is Traefik's longest matching rule
(external). `Unauthorized` is the 401 with its `resource_metadata` URL; the following
actions are the endpoints that a client reaches by following URLs, each reached only if the
plugin recognises the path (`MatchOAuthSuffix`) and the headers satisfy `FromRequest`
(`Served`), and each with the public base derived from its own path (`publicBase`).
`Forward` is validateAndForward with any token at any path; the plugin's clock is off
by a drift chosen anew for each request. `checkClaims`, `HandleIntrospect` and
`HandleUserinfo` are the three implementations of the token check, kept apart; introspection
has its whole handler: the client that asks, the outcome of its authentication (a lookup
error, an unknown client and a wrong secret are refused) and the `token_type_hint`. `Others`
are clients that hold no token and ask about those of others. The login
itself is `Login`'s and appears as a step. `Rotate` and `Retire` are what `KeyRotation` promises,
and that the plugin finds the keys of live tokens is what `TokenPath` shows (but for the
first seconds of a key that Ensure inserted, which `Gateway` leaves out).
A token's `site` and `backend` are histories.

## 3. Runs

| Run | Question | Distinct states |
|---|---|---|
| `key_safety` | two rotations, one crash, one failing statement and a token request in every order | 855,000 |
| `key_live` | do keys keep moving through crashes | 41,000 |
| `grants` | two clients racing over one grant with failing statements; revocations against refreshes; expiry and client garbage collection against the clock | 1,240,000 |
| `jwks` | one rotation seen by two plugin requests, with slow, failing and hanging refreshes; does every lookup return | 581,000 |
| `token_path` | one rotation, statement by statement, with a crash or a failing statement, seen by a plugin request; is it the key service `JwksCache` assumes | 1,370,000 |
| `login` | states and codes swapped, repeated and interrupted; does the login keep what `Grants` assumes of it | 488,000 |
| `limiter` | late requests, stale ticks and eviction over three windows; does the limiter implement the quota | 1,143,000 |
| `sidecar` | key versions through crashes and operator changes; Record against Close; does a shutdown end | 702,000 |
| `gateway` | nested sites, a walk from the 401 to a token, every token at every path, rotation and drifting clocks | 143,000 |

Three runs expect a violation: `key_fault`, `grants_single_use` and
`grants_audience`. Each checks one statement of a document or comment of the
repository that the code does not keep; the findings in `PROJECT.json` quote it.
In short:

- a failing UPDATE between retiring and promoting leaves the process without a
  signing key until it is restarted (`key_fault`);
- codes and refresh tokens can be redeemed twice by overlapping requests
  (`grants_single_use`);
- the resource a grant was obtained for is not compared with the resource a
  token is minted for (`grants_audience`).

Smaller disagreements are visible in the models and have no run of their own:

- `docs/security.md:59` says that pending keys are not published; `ListSigningKeys`
  publishes them, and `jwks` shows that this is what makes rotation seamless:
  with the documented behaviour (mutant `SigningJWKS`) live tokens are refused.
- Even an undisturbed rotation has an instant without an active key (between
  `RetireOld` and `PromoteNext`), in which the token endpoint answers `server_error`;
  `GapHasSuccessor` says that this and a failed statement are the only such gaps.
- A session is not single-use in the sense of `callback.go:172`: it is deleted last,
  so a user who logs in twice upstream with one session can obtain two codes; what
  holds is `OneCodePerLogin`.
- `callback.go:105` gives every user without a `sub` the same subject, "unknown".
- The comment at `plugin/jwks_cache.go:55` spaces refreshes five seconds apart;
  `lastFetch` is set only on success (line 118), so failed refreshes are repeated at once.
  This is for the better: with the commented behaviour (mutant `RefreshFailsSpaced`)
  `RefusedOnlyWhileNew` fails.
- `docs/labels.md:66` and `:133`, `docs/security.md:11` and `:221`, `docs/flow.md:293` and
  `:329` and `README.md:100`, `:103` and `:138` of the repository say that the `aud` claim is
  the name of the resource, or the `audience` label. `issuer.go:62` sets it to the public
  base followed by "/", and the plugin compares it with the public base
  (`mcpbouncer.go:280`). What the documents want of it, that a token of one
  site opens no other, holds nevertheless and is `BackendIsolation`.
- Introspection answers `inactive` for a live access token when the request carries
  `token_type_hint=refresh_token` (`introspect.go:112`), although the comment at line 26 says that
  it implements RFC 7662, in which the hint only orders the search. `ChecksAgree` names
  this exception.
- HandleRevoke answers 200 in four cases in which a live token stays (`revoke.go:64`, `:73`,
  `:85` and a failing DELETE at `:94`). `RevocationTakesEffect` speaks of the other 200s.
- The metadata of `wellknown.go` advertises revocation, introspection and userinfo,
  and `dcr.go:174` a `registration_client_uri`; `plugin/routing.go` proxies none of
  them, so a client behind the plugin cannot reach them at the URLs it is given.
- `README.md:101` and `plugin/README.md:49` give `scopes` the default `openid`;
  CreateConfig sets none and FromRequest answers 400 to an empty `X-MCPB-Scopes`. In
  `gateway` this is the site `draft`, whose walks fail.
- `docs/THREAT_MODEL.md:90` says that there is no key versioning; `aesgcm.go` has it.
- `aesgcm.go:86-88` describes rotation as adding a new active row; a boot with two
  active rows is refused, so the old row must be retired before the restart.
- A request that outlives the ten seconds of Shutdown finds the audit channel closed,
  and Record panics; `CutOffOnlyAfterTimeout` shows that nothing else leads there.

**Bounds.** Four key identifiers allow the first key, two successors and the extra
key that Ensure inserts after a crash between the two UPDATEs. `MaxTime` is large
enough for a whole rotation including the deletion of the old key
(`key_safety`: 9 units, with interval 3, overlap 1, grace 4) and for announcement,
overlap, promotion and expiry of the first key's tokens (`jwks`: 3 units, with
overlap 2). `jwks` lets an exchange take a unit of time and `token_path` lets `MinGap` last
one, so that between them both delays that make a cache stale occur.
The durations satisfy the assumptions with the smallest possible slack, so that an
off-by-one in a guard shows.

`grants` and `login` are constrained to the union of two families. In `RaceOrClock`
two clients race over the same rows while the clock stands at 0, or one client with one
binding runs against the clock (3 units; TTLs 1, client TTL 2, so that a client becomes
stale after its last grant). In `MixupOrClock` two sessions, logins and redirect URIs
mix at clock 0, or one of each runs against the clock (6 units, client TTL 4), with two
requests either way. Identity and time meet in no rule of the code, and the proofs need no
such restriction. `token_path` has the smallest durations with which a key is announced,
takes over and retires in time (interval 0, overlap 2, `MinGap` 1, 4 units), three keys so that
Ensure can insert one beside a pending one, and one crash or one failing statement, not
both; its slow steps (`MaxDelay`, `MaxFetch`) take no time, which `key_safety` and
`jwks` vary and the proofs leave open. Apart from
`FirstBootAtZero` (below) the other runs have no constraint. `limiter` has one address, because buckets of
different addresses share nothing but the mutex; two requests, limit 2, a window of
3 ticks, a second of 2 ticks (so that Retry-After rounds), a delay of 1 and 10 ticks
of time, which is three windows and an eviction. `sidecar` has two key ids, two
materials, one ciphertext (from an older build or not), two requests, a buffer of one
and two events per process: enough to fill, drop and drain. `gateway` has four sites
(at the root; with an explicit prefix and a required scope; nested below it with a
derived base; without scopes), six paths, one client (tokens are presented at every
path whoever holds them), two keys and two tokens. One
crash and one failing statement per behaviour in `key_safety`: the proofs cover any
number. `Strict = TRUE` allows the refusals of strict mode beside the successes of the default.

**Reductions.** SYMMETRY is used in safety runs only; the permuted sets are
model values that no definition distinguishes. The VIEWs of `MCKeyRotation` and
`MCTokenPath` leave out variables, or parts of them, that no
action and no property of the run reads in that state; `MCTokenPath` also takes times that
lie further back than the longest deadline for equal. The VIEW of `MCGrants` goes further.
While the clock stands at 0, where the identities race, it leaves out the reasons of the
200s only; once the clock runs it also leaves out `uses`, `holder` and `audience`, so that the
invariants over them are checked there on one representative of each class of states. The
proofs of the same properties cover every state. `FirstBootAtZero` only removes
behaviours that idle before the first boot: all rules depend on differences of
times. Deadlock checking is on, but says little, because the janitor, the operator or
a client can always act; that nothing gets stuck is the subject of `key_live`,
`GetReturns` and `ShutdownCompletes`.

**Mutants.** Each property of a passing run is paired in `PROJECT.json` with a
mutated definition, a plausible bug such as a dropped guard or a missing reset,
under which TLC finds the property violated.

**Fairness.** `key_live` assumes weak fairness of boot and of the rotator together:
the ticker of `Run` fires again and again, the goroutine is scheduled, and a
supervisor (the container runtime) restarts a dead process. Crashes and requests
are not fair. The clock need not advance: the properties start from states in
which the deadline has passed. `jwks` assumes strong fairness of entering the lock, because
`sync.RWMutex` lets waiting writers in before later readers, and that an exchange goes on,
fails or hangs, which leaves nothing out. That it ends is not assumed: `http.Get` has no
timeout. `GetReturns` therefore says that an exchange that hangs for ever is the only thing
that keeps a lookup from returning; when there is one, every request of the plugin
waits behind it, those that would hit the cache too, because they take the read lock.
`LockIsRefresh` does not see this: the lock is where it belongs. `ShutdownCompletes`
assumes weak fairness of the worker (`persist` has a timeout of five seconds), of
`CloseLog` (Shutdown has one of ten) and of `Exit` (main goes on); requests, crashes
and signals are not fair.

## 4. Proofs

TLAPS proves, for all values of the constants that satisfy the named assumptions:

| Theorem | Statement |
|---|---|
| `KeyRotationProofs!TypeCorrect`, `RotationInvariant` | types, inductive invariant `RotationInv` |
| `KeyRotationProofs!OneActiveOneNextAlways` | never two active or two next keys |
| `KeyRotationProofs!TokenKeyAlwaysPublished` | the key of every acceptable token is in the JWKS |
| `KeyRotationProofs!AnnouncedForWholeOverlap` | a key signs only after the overlap |
| `KeyRotationProofs!GapsHaveSuccessors` | no active key only inside a promotion or after a failed statement, and then with a successor in the table |
| `KeyRotationProofs!KeyServiceImplemented` | `KeyRotation` implements `KeyService` |
| `JwksCacheProofs!CacheInvariant`, `TypeCorrect` | types and inductive invariant `CacheInv` |
| `JwksCacheProofs!LiveKeysStayCached` | a refresh drops no key a live token needs |
| `JwksCacheProofs!RefusedKeysAreNew` | the plugin accepts announced keys throughout a rotation, and every other key once it is older than `MinGap + MaxFetch` |
| `JwksCacheProofs!LockHeldByRefresh` | the write lock is held exactly by the call that refreshes |
| `TokenPathProofs!SidecarInvariant` | the rotator keeps `RotationInv` beside the plugin |
| `TokenPathProofs!JwksCacheImplemented` | the rotator beside the plugin implements `JwksCache` |
| `TokenPathProofs!LiveTokensVerify`, `PathTypeCorrect` | from the INSERT of a key to the plugin's verdict: live tokens are refused only under a new key of Ensure; types |
| `GrantsProofs!GrantsInvariant`, `TypeCorrect` | types and inductive invariant `GrantsInv` |
| `GrantsProofs!LiveTokensHaveClients` | an unexpired refresh token has its client row |
| `GrantsProofs!TokensHeldByOwner` | tokens go to the client of the login |
| `GrantsProofs!SpentGrantsAreGone` | a grant that gave tokens is gone, unless its DELETE failed |
| `GrantsProofs!RevocationsTakeEffect` | nothing is issued from a token later than one request's duration after its effective revocation |
| `GrantsProofs!ReuseNeedsOverlap` | tokens are issued from a grant no more often than requests overlap |
| `GrantsProofs!SerialIsSingleUse` | one request at a time would make grants single-use |
| `GrantsProofs!IssuedWithinExpiry` | issue at most `MaxDelay` after expiry |
| `LoginProofs!LoginInvariant`, `TypeCorrect` | types and inductive invariant `LoginInv` |
| `LoginProofs!OneCodePerLoginAlways` | a session yields at most one code per upstream login |
| `LoginProofs!CodesHaveSessionUser` | a code carries the user who logged in for its session |
| `LoginProofs!GrantsImplemented` | `Login` implements the login part of `Grants` |
| `RateLimiterProofs!LimiterInvariant`, `TypeCorrect` | types and inductive invariant `LimiterInv` |
| `RateLimiterProofs!QuotaImplemented` | the limiter with eviction implements `RateQuota` |
| `RateLimiterProofs!RetryAlwaysHonoured` | after Retry-After the same window does not refuse again |
| `RateLimiterProofs!BurstAlwaysBounded` | bursts of two windows can meet, never of three |
| `SidecarProofs!SidecarInvariant`, `TypeCorrect` | types and inductive invariant `SidecarInv` |
| `SidecarProofs!SecretsAlwaysReadable` | what a process encrypted every later one decrypts |
| `SidecarProofs!CloseAlwaysDrains` | a worker that is done has dealt with every accepted event, in order |
| `SidecarProofs!CutOffNeedsTimeout` | Record panics only after Shutdown gave up |
| `GatewayProofs!GatewayInvariant`, `TypeCorrect` | types and inductive invariant `GatewayInv` |
| `GatewayProofs!BackendsIsolated` | no server receives a token of another site |
| `GatewayProofs!DiscoveryAlwaysCloses` | discovery leads to a token that opens the path it began at |
| `GatewayProofs!ChecksAlwaysAgree` | introspection is active only where userinfo answers; where userinfo answers, it is active for the token's own client (but for the hint `refresh_token`) and the plugin forwards |

*Rotation.* "The JWKS holds the key of every live token" is not inductive: a
request may hold a key in memory, and the rotator may hold pointers and an old
`now`. `RotationInv` adds what the rotator relies on between its statements
(`RotatorInv`: the rows behind its pointers still have the status it read; no
active key between the UPDATEs; `now` at most `MaxDelay` old), what a request relies
on (`MintInv`: its key is active, or retires late enough for the token it is about to
sign) and what is known of the tokens by the stage of their key (`TokenInv`). The
argument needs `GraceAssumption`: the hour of grace in `rotator.go:87` exceeds one
slow rotation plus one slow request plus the skew of the verifiers.

*Cache.* `CacheInv` says that the cached set, and a reply on its way, covers every
key that was published before the request for it was sent (`CoversKeysBefore`), and
that an announced key signs only after the overlap (`SignsAfterOverlap`, from
`KeyService`). A lookup answered without a refresh is at most `MinGap` after the
last one, which was sent at most `MaxFetch` earlier; `OverlapAssumption`
(`MinGap + MaxFetch < Overlap`) puts that moment after the announcement. Keys that
Ensure inserts sign without announcement; the same argument bounds how long the plugin
may refuse their tokens, by `MinGap + MaxFetch` after the INSERT (`AnswerRefuses`). Refreshes that fail do not lengthen this, because they leave
`lastFetch` alone.

*Token path.* Nothing in `TokenPath` has an invariant of its own. A step of the plugin
leaves the rotator's variables alone, so `RotationInv` holds (`SidecarAlone`); under it
each statement is a step of `KeyService` (`StepSimulation`), only Ensure's INSERT creates a
key that was not announced (`OnlyEnsureCreates`, `EnsureCreates`), and so every step is
one of `JwksCache` (`PathSimulation`). The theorems of `JwksCacheProofs` are then used by
instantiation, with the rotator's table for the key service; `PluginConstants` shows that
their assumptions on the constants hold, and `SameSpecification` that the two
instances of `JwksCache` say the same. So the contract between the processes is proved
once on each side, for any number of keys, requests, crashes and faults.

*Grants.* `LifetimeInv` relates each row to its client: as long as the client row is
there its `last_used_at` covers the expiry of all its grants, and once it is gone
its refresh tokens have expired. `RequestInv` carries that across the statements of a
request: a client that vanished after GetClient leaves no valid grant, and a row
past its DELETE is gone or recorded as `undeleted`. `ClientTTLAssumption` is needed:
the client TTL is at least the login plus the code lifetime, and at least one
request plus the refresh lifetime. The defaults satisfy it (90 days against 30 days);
the code does not check it. A failed TouchClient voids the promise for its client
(`untouched`). `OnlyOverlapReuses` is inductive with `SpentIsGone`: a request joins those
that redeem a grant only while the row is there, when nothing was issued from it yet, and
leaves them when it issues, so uses and redeemers together never exceed the requests
that run at a time. The counting needs these to be finite (`RequestsAssumption`).
`RevocationTakesEffect` needs `RevokedInv`: behind an effective 200 the row is gone for
good, and every request that redeems the token nevertheless, because it read the row or
deleted it first, had begun when the 200 was sent (`RevokedStep`); a request lasts at most
`MaxDelay`. That the successor of such a request survives the revocation is what the
code does: nothing ties it to the revoked token. With one
request at a time it gives what the comments at `token.go:109` and `:208` claim, so the double
redemption of `grants_single_use` is due to overlap and to nothing else.

*Login.* `LoginInv` has three parts. `TablesInv`: a live session has all its columns, its
client was used when it was inserted, and a code's user is the user of its session.
`RequestInv`: what a request has read is still what the tables say, although the row
itself may be gone. `CountInv`: the codes of a session, plus the callbacks that have
redeemed an upstream code and not yet stored theirs, are at most the logins of that
session that are spent. The last is what makes
`OneCodePerLogin` inductive: sessions are deleted last, so only the provider's
single redemption limits them; the counting needs the sets to be finite
(`FiniteAssumption`). The refinement instantiates the span that `Grants` assumes of a login
with the session lifetime plus two requests, which is what the client rows are
used for (`UsedFor`).

*Limiter.* The bucket that is kept is always the latest window of its address
(`ledger`), and a window whose bucket was evicted was over before any time a request
still carries; so a bucket that is missing and one that is over lead to the same step of
`RateQuota`. A request may carry an older time than the window it lands in. That bursts
of three windows never meet needs `2 * MaxDelay <= Window` (`LimiterAssumption`).

*Sidecar.* Rows of `encryption_keys` keep their material for good: InsertEncryptionKey
fails on an existing id, and only the status is updated. Hence the keys a process loaded,
however long ago, and the header of every versioned ciphertext both name the row's
material (`CipherInv`). For the log, `accepted` is `handled`, the event being written
and the channel's content, in that order (`AuditInv`). The process closes the channel only
after the last request or the timeout.

*Gateway.* Rules contain none of the reserved segments (`DeploymentAssumption`), so a
base and the base followed by an OAuth suffix match the same rules and derive the same base
(`StemMatches`, `HopFact`): every hop of a walk is at the site, and the base, at which
the walk began (`WalkOK`). Rules are distinct, so a base belongs to one site
(`OneOwner`, `BaseOfOneSite`), and a token whose issuer is the base of a request was
minted by that request's site (`TokenOK`). `ClockAssumption` (`MaxDrift <= Skew`) makes
the plugin's check with skew weaker than the sidecar's without it.

The assumptions on the constants are the named ASSUMEs of the modules that declare
them. Those that say something about a deployment rather than about types are
`GraceAssumption`, `OverlapAssumption` (again in `PluginAssumption`), `ClientTTLAssumption`,
`LimiterAssumption`, `DeploymentAssumption` and `ClockAssumption`.

The step lemmas have one step per action and below it one per conjunct that the
action can disturb; temporal theorems combine them with PTL.

The inductive invariants (`RotationInv`, `CacheInv`, `GrantsInv`, `LoginInv`, `LimiterInv`,
`SidecarInv`, `GatewayInv`) are proved for every instance, so no run repeats them.

Only model-checked: the liveness properties (`key_live`, `GetReturns`,
`ShutdownCompletes`), which are out of the prover's reach.

## 5. Not modelled

Metrics and logging are observability only: no other part reads their state.
Cryptography, JSON and HTTP encoding and JWT parsing are outside the development:
a token is a record that only the sidecar makes, a ciphertext opens with the key
that sealed it. Of registration, `validateRedirectURI` (a pure check of one string)
and the client secret (a nondeterministic refusal) are left out; of the upstream
client, the discovery cache and the userinfo call, which are inside the outcomes of the
exchange. Introspection of refresh tokens is a read of a row that `Grants` models. The
parsing of settings and the metrics listener are not part of `Sidecar`. Further
abstractions: profile claims other than `sub`; the callback's use of the provider
credentials of the request with the issuer of the session.

## 6. Plan

The modules were written in the order of the table in section 2 (`TokenPath` last): keys and
the cache that depends on them, grants, the login that feeds them, then the parts
around them (limiter, cipher, audit log, process) and last the gateway that
connects the plugin with all of them. What is left, in this order:

1. `Grants`: the strict upstream refresh in detail, with Decrypt failures and the
   discovery cache.
2. `Gateway` over `TokenPath` by refinement, in place of `Rotate`, `Retire` and `Lookups`.
3. `validateRedirectURI` as an operator over abstract URIs.
