# Verification of go-usersvc-demo

TLA+ specifications of the user service in this repository, TLC configurations
that check them on small instances, and proofs that TLAPS checks for every
value of the constants.  Paths below are relative to `src/`.

* [The system](#the-system): its parts, their state and how they interact
* [What is hard here](#what-is-hard-here)
* [Modules](#modules): which module models what, and how
* [Runs](#runs): what each one shows, its bounds, the fairness it assumes
* [Proofs](#proofs)
* [Findings](#findings)
* [What is not modelled](#what-is-not-modelled) and the [plan](#plan)

To repeat the work, in this directory:

    tlc -workers 2 -config MCUserService.cfg MCUserService.tla
    tlapm UserServiceProofs.tla

## The system

A user-management backend in Go.  One process (`cmd/server`) serves HTTP (gin)
and gRPC; `cmd/api` and `cmd/grpc` serve one of them.  Several processes may
run against the same PostgreSQL and Redis.

| part | code | state it keeps | operations |
|---|---|---|---|
| User service | `internal/service/user_service.go` | none of its own; the goroutine's locals between two calls | CreateUser, GetUserByID, ListUsers, UpdateUser, DeleteUser |
| User repository | `internal/infrastructure/postgres/user_repo.go`, `migrations/` | table `users`: BIGSERIAL id, UNIQUE(email) | Create, GetByID, GetByEmail, List, Update, Delete: one statement each, List two |
| User cache | `internal/infrastructure/redis/user_cache.go` | keys `user:<id>`, TTL five minutes | Get, Set, Delete |
| E-mail service | `internal/service/email_service.go` | none; a mock provider | SendWelcomeEmail, Send |
| Authentication service | `internal/service/auth_service.go` | attempts and reset time per address, under a mutex | Login, Refresh, ChangePassword, Logout (does nothing) |
| JWT manager | `internal/auth/jwt.go` | key and lifetimes, fixed | Generate and Verify, access and refresh tokens |
| Token-bucket limiter | `internal/pkg/ratelimit/limiter.go` | a map from key to `*rate.Limiter`, under a mutex; a cleanup goroutine | Allow, Reset, ResetAll, cleanup |
| HTTP transport | `internal/transport/http/` | none | routes, handlers, middleware: authentication, limiter, logging |
| gRPC transport | `internal/transport/grpc/` | none | handlers, interceptors |
| Server lifecycle | `cmd/*/main.go` | listeners, an errgroup, the pools | start, signal, shutdown |
| Logger, configuration, health check, pools | `internal/pkg/logger`, `internal/config`, ... | a global logger; settings | start-up, pings |

How they interact: a request passes the public limiter, on `/users` and
`/email` the authentication middleware and a limiter per user, and then a
handler; the handler calls one operation of a service; the service calls the
repository and the cache, one after the other, in the goroutine of the request.
There is no transaction across two statements and no lock across the two
stores: PostgreSQL and Redis serialise their own commands, and nothing else is
serialised.  The request's context reaches both stores, so a client that goes
away can cut a request short between, or during, any two calls.

What makes each part correct:

* **User service, repository, cache.** Addresses stay unique; no password
  reaches the table unhashed; a caller sees whole versions of the user it asked
  for; a confirmed deletion is final in the table; the cache agrees with the
  table unless one of a few named things happened; and what disagrees goes away.
* **Token-bucket limiter.** Callers cannot tell it from one bucket per key
  that exists all the time, apart from the calls a cleanup or a reset overtakes;
  idle keys leave the map.
* **Authentication.** A window lets no more than its attempts through, and a
  reset no more than one further window; nobody is refused without cause and
  nobody for good.
* **Transports.** No answer carries a password hash, nor a deleted user once
  the last trace is gone; only gRPC lets rows in that
  validation refuses; a handler waits exactly for what it started.
* **Paging.** A walk through the pages misses users only through deletions or a
  broken connection and repeats them only through creations.
* **Lifecycle.** A signal, or the failure of a server, ends the process, unless
  a client holds a stream; the
  stores close after the requests that use them; exit code 0 means an orderly end.

## What is hard here

`PROJECT.json` lists every hazard at its line.  In short:

* *Interleaving of requests on two stores.* A GET reads the row, another
  request changes it and cleans the cache, and the GET then fills the cache with
  what it read (`user_service.go:70-75`).  Two updates reach Redis in the
  opposite order of their statements (`:100-106`).
* *Check, then act.* CreateUser looks an address up and inserts in two
  statements (`:31`, `:46`) and ignores a failed lookup; only the unique index
  keeps addresses apart.
* *Dropped errors.* The service ignores the errors of all its cache writes.
* *Lost answers and crashes.* A statement may commit while its caller is told
  that it failed; a process may die between table and cache.
* *Use outside the lock.* `Allow` uses a bucket after it released the map's
  mutex, while the cleanup goroutine asks the bucket whether it is full and then
  deletes it.
* *Windows and clocks.* A fixed window forgets all its attempts at once, a
  success resets it while failures are being counted, and a restart does so
  for every address (`auth_service.go:53-69`).
* *Pages of a changing table.* Count, page and next page are statements of their
  own, and their offset is a product of what the client sends (`user_repo.go:82-112`).
* *Two servers and one way out.* Either may fail before or while the other
  serves, GracefulStop may overtake Serve, and five seconds are all that HTTP
  requests get, while a stream may hold gRPC for ever (`cmd/server/main.go:103-175`).

## Modules

    UserService              UserRegistry (abstract)        Limiter     RateContract (abstract)
      |      \____ UserVersions ____/  implements               \________/  implements
      |                |                                            |
      |           UserVersionsProofs                          LimiterProofs
      |---- UserCoherence ---- UserCoherenceProofs
      |---- UserServiceProofs
      |---- UserApi ---- UserApiProofs (with UserServiceProofs)

    AuthService ---- AuthProofs      ServerLifecycle ---- LifecycleProofs
    UserPages ---- UserPagesProofs

### UserService: the service on its two stores

| state | in the code |
|---|---|
| `db`, `nextId` | table `users` and its sequence (`migrations/000001_create_users_table.up.sql`) |
| `cache` | the Redis keys `user:<id>` |
| `mailed` | what went to the e-mail provider |
| `pc[c]` | the repository or cache call the goroutine of request `c` makes next, named after it |
| `req[c]`, `user[c]` | the goroutine's locals: operation, id, body; the `*domain.User` |
| `result[c]` | what the service returned to the handler |

`Clients` are the requests that can be in flight at once, in whichever process.
One action is one call to a store together with everything the code does until
the next call: `GetByEmail` includes the hashing that follows it, `Create` the
`RETURNING` of the row, `CacheSet` the return or the step to the welcome mail.
This is the grain of the real interleavings, for the two stores execute each
command atomically and the code in between touches locals only.

| operation | actions |
|---|---|
| CreateUser | `BeginCreate`, `GetByEmail` (with `Hash`), `Create` or `CreateRefused`, `CacheSet`, `SendWelcomeEmail` |
| GetUserByID | `BeginGet`, `CacheGet`, `GetByID`, `CacheSet` |
| UpdateUser | `BeginUpdate` or `BeginUpdateUnhashable`, `Update`, `UpdateNothing` or `UpdateRefused`, `CacheDelete`, `CacheSet` |
| DeleteUser | `BeginDelete`, `Delete` or `DeleteRefused`, `CacheDelete` |
| Redis | `Expire`: TTL, eviction, restart |
| failures | `DbFails`, `DbAnswerLost`, `CacheFails`, `Crash` |

Details that are easy to miss and are modelled: a body without fields makes
`Update` run a SELECT that, unlike `RETURNING`, carries the password, so the
password hash is then cached (`user_repo.go:136-138`); the sequence moves on
when an INSERT is refused; every failed update answers "not found"
(`user_service.go:102`); DeleteUser distinguishes nothing either; a failed lookup
lets CreateUser go on; bcrypt refuses passwords longer than 72 bytes, before any
call in UpdateUser and between two calls in CreateUser.

Abstractions: a password stands for its hash; timestamps are left out (nothing
decides on them); a cancelled context shows as the failure or the lost answer
of the call it interrupts; a dead process shows as the end of each of its
requests, one at a time, which includes all of them in a row.
`MaxId` bounds the ids, and `BeginCreate` starts no request that would have none.

### UserRegistry and UserVersions: what callers may rely on

`UserRegistry` is the abstract specification: users that change atomically,
without a cache, without requests in progress.  It allows an answer to be any
version the user has ever had - the cache makes no stronger promise - but never
a mixture and never another user; it allows an error to have taken effect; it
does not allow a number to be used again, two users with one address, or a
confirmed deletion of a user that is there.  `UserVersions` adds the history of
each row (`past`) to the service, which is what the refinement mapping needs,
and states `ImplementsRegistry`.

### UserCoherence: when the cache agrees with the table

It does not always, so the module says when.  The history variable `disturbed`
marks an id from the moment one of three things happens until its entry is gone
with nobody about to write it:

1. `OverlappedCommit`: the row changes while another request holds an older
   version of it and will still write the cache;
2. `LostCommit`: a statement commits and its request does not go on to the cache;
3. `UnfinishedWrite`: a writer dies, or its cache call fails, and the cache is
   not left as it meant to leave it.

`CoherentUnlessDisturbed` and `UndisturbedReadsAreFresh` say that *nothing else*
parts the two stores: not expiry, not failed reads, not a GET that meets a
creation, not two overlapping readers, not a failed fill.  This is the sharpest
statement that holds; each of the three disturbances does break the agreement,
and run `deleted` shows the first of them.

### Limiter and RateContract

`Limiter` has the map (`limiters`), the tokens of every bucket, the callers
with the bucket they hold, and the cleanup goroutine with the keys it has still
to visit.  `Lookup` and `Create` are the two critical sections of `getLimiter`,
`Allow` is the use of the bucket after it, outside the mutex; the scan of the
cleanup holds the mutex (`cleaning`), and its two looks at a bucket and the
deletion (`CleanupFindsFull`, `CleanupDeletes`) are separate steps, because
callers that hold the bucket do not need the mutex.  `BeginReset` and `Reset` are
the calls of Reset and ResetAll and their critical section; they are there although
only tests call them.  `rate.Limiter` is external: tokens are
whole and time passes by the interval in which a token is gained.  The identity
of a bucket that neither the map nor a caller holds may be given to a new one,
as memory that nothing points to any more.

`RateContract` is the abstract specification: one bucket per key, always there.
A key may be forgotten only when its bucket is full, or when a reset in
progress is about it (`resetting` is visible in both specifications, so a bucket
that is lost otherwise is not taken for a reset).  The calls that
run at that moment may be `overtaken`, and then their answer is free and costs
the key nothing: this is exactly the extra traffic that the cleanup race lets
through, at most one request for each call already under way.

### AuthService: logins, windows and sessions

One address, for `attempts`, row and tokens of different addresses never meet.
All times are relative to the present: `attempts.left` is the time until
`resetTime`, `left` of a token the time until it expires, and `Tick` makes
everything older, so that the state space is finite without a bound on time.

| code | actions |
|---|---|
| RateLimiter.IsAllowed | `NewWindow`, `CountAttempt`, `Blocked`, the first step of Login |
| Login | `LoginAdmitted` or `LoginRefused`, `CredentialsMatch` or `LoginFails`, `LoginSucceeds` (Reset and two tokens) |
| Refresh | `Refresh`; a refused token changes nothing |
| ChangePassword | `OldPasswordVerified`, `PasswordChanged` or `ChangeFails` |
| around it | `RowChanges` (the user service), `Tick`, `Restart` |

Any request may run between the calls of another.  `admitted` is a history
variable: `admitted[a]` is how many attempts were let through in the last `a`
ticks, those of the present included, since the last reset.  What a reset erases
from it goes to `forgiven[a]`, and `resets[a]` counts the resets themselves: the
successful logins and the restarts of the last `a` ticks.  They give the two
sides of the limiter.

* `SlidingBound`: in a stretch of time as long as a window at most
  `2 * MaxAttempts - 1` attempts pass, and `MaxAttempts` more for every reset in that
  stretch.  Without a reset that is nine, where a window that opened with one
  attempt is followed by the next, not the five of the comment at
  `auth_service.go:76` (run `login_limit`); a reset gives away one more limit,
  although it comes while attempts of other requests are being counted.
* `RefusalsJustified`: whoever is refused comes after `MaxAttempts` attempts in such
  a stretch, all of them since the last reset.

### UserApi: the transports around the service

It extends `UserService` and runs every step of it inside a request of either
transport: `Receive` is the chain of middlewares or interceptors with the
handler's checks and its call of the service, `Work` a step of the service,
`Respond` what the handler makes of its result, `Die` the end of the process.
`AnswerAtOnce` is every answer given without the service: refusals by a limiter
(at any time, for `Limiter` says when) or for the lack of a token, failed
validation, preflight, the stream of gRPC reflection, and the endpoints that do
not touch users.  In HTTP the
public limiter comes before the token and a limiter per user after it; in gRPC the
token comes first, except for the reflection service (`cmd/server/main.go:140`):
it streams, and the only stream interceptor is the limiter.  `Valid` is what
`validate.Struct` checks of name, address and password, as sets of refused
values.  Whoever has ever been a user can be the bearer of a valid
token (`Bearers`), because Refresh does not look users up.

What the model shows that a reader may not expect: a login that fails answers
500, as does a refused refresh, for their errors are no AppErrors (the comments at
`handler.go:95` and `:126` say 401); an id that is no number answers 422, not 400;
no gRPC error answers NotFound or AlreadyExists, since the handlers compare
`err.Error()`, which begins with the code, with the bare message.

### UserPages: walking through a changing table

`Begin` is a handler and the normalisation of UserService.ListUsers, `Count` and
`Select` the two statements of UserRepo.List, after which the client goes on to
the next page if this one was full.  `SelectBreaks` is a connection that breaks
among the rows: List does not ask `rows.Err`, and the short page looks like the
last one.  `CreateUser` and `DeleteUser` run at any time.  Integers wrap at
`MaxInt`, as Go's `int` does; over gRPC page and limit are `int32`, so that
their product fits (`WidthAssumption`), over HTTP a page far enough out has the
offset of an earlier page (page 2^62 + 1 of four items that of page 1), or a
negative one.  PostgreSQL
refuses the latter when the rows are read, so that List, which does not ask
`rows.Err`, answers an empty page without an error (`Page`), and the walk is over.  The table
never has more rows than an `int` can count (`IdAssumption`).  History
variables (`start`, `seen`, `twice`, `mishaps`) say what one walk was shown.
The limit of 100 of `domain/user.go:31` is enforced over gRPC only.

### ServerLifecycle: from main to exit

The three programs (`program`): configuration and stores, any of which may fail;
for `cmd/server` the errgroup with its two servers and the shutdown goroutine,
the group's context (`done`), Wait and the deferred calls in their order; for the
other two one server that a signal simply kills.  `work` has the requests in
flight, some of them in a statement.  Of net/http, grpc, errgroup and pgxpool
what main relies on is modelled and named at the head of the module.
GracefulStop can come before Serve: Serve then returns an error and the
process exits with 1 although it was only told to stop (`GrpcRefused`).
`Streams` are the calls to the reflection service: they ask no store and end
when their client ends them, which may be never, and GracefulStop waits for them.

## Runs

| run | module, cfg | checks | distinct states |
|---|---|---|---|
| `service` | MCUserService | TypeOK, EmailsUnique, Prepared, GoneForGood | 306,433 |
| `versions` | MCUserVersions | Provenance, ImplementsRegistry | 93,239 |
| `coherence` | MCUserCoherence | CoherentUnlessDisturbed, UndisturbedReadsAreFresh | 45,673 |
| `liveness` | MCUserService, MCUserLiveness.cfg | GhostsExpire, EventuallyCoherent | 8,402 |
| `deleted` | MCUserService, MCDeletedUser.cfg | DeletedIsGone: violated | |
| `taken_email` | MCUserService, MCTakenEmail.cfg | NotFoundMeansAbsent: violated | |
| `limiter` | Limiter, MCLimiter.cfg | TypeOK, ImplementsContract, IdleKeysGo | 398,936 |
| `auth` | AuthService, MCAuthService.cfg | TypeOK, SlidingBound, RefusalsJustified, BlockEnds | 176,934 |
| `login_limit` | AuthService, MCLoginLimit.cfg | AtMostMaxAttempts: violated | |
| `api` | MCUserApi | ApiTypeOK, NoHashLeaves, HttpRowsAreValid, DeletedStayUnseen | 574,483 |
| `pages` | UserPages, MCUserPages.cfg | TypeOK, WalkIsComplete, WalkHasNoRepeats, TotalIsTrue, EarlierUsersSkipped | 358,806 |
| `lifecycle` | ServerLifecycle, MCServerLifecycle.cfg | TypeOK, StoresOutliveRequests, GracefulMeansGraceful, SignalEnds, FailureEnds | 7,181 |

Every passing run completes its state space.  For each of its properties a
mutant of the model - a dropped check, a missing deletion, a lost error - is
kept in the module beside the definition it changes (`PROJECT.json`,
"mutants"), and TLC finds the property violated by it.

**Bounds.**  `service`: two requests, two rows, two addresses, so that two
creates, or a create and an update, compete for one address in every order; one
password that hashes and one that does not; a body without fields; all faults.
`liveness` and `deleted` have the same bodies and one row, `taken_email` two.
`versions`: two requests and two ids, one that may be deleted while the other is
created, an update to an address that the other row may have, and a body without
fields.
`coherence`: three requests on one user, because the worst interleavings need a
reader and two writers; all faults.  One user is enough here: neither cache nor
history of one id looks at another.  `limiter`: two callers race for the first
bucket of a key, or for one bucket against the cleanup, beside the traffic of a
second key; three bucket identities are enough, since whoever creates a bucket finds
at most one held by the other key and one by the other caller; a burst of two has
an empty, a partial and a full bucket.
`auth`: two requests at a time, so that a success
resets the attempts another request is being counted by; a limit of two and a
window of two ticks, the least with a first, a last and a refused attempt, and
with attempts inside, at the end of and between two windows; two resets within
the length of a window (`MaxResets`), a login and a restart or two of either, so
that a second one meets what the first has erased (the theorem holds for any
number).  `api`: two requests; one
user deleted before the start, whose token is still good, and one that is
created; a name, an address and a password that only gRPC lets in, an update without
fields, a password that bcrypt refuses.  `pages`: four users, pages of one to
seven; an `int` of four bits and an `int32` of three reach every kind of
overflow.  `lifecycle`: two requests of each transport, one in a statement while
another is not, and a stream.  What the invariants, the action properties and the refinements
say beyond these bounds is proved (below).  Symmetry is used between requests, in safety runs only.  Deadlock is not checked where the bound on
creates or the arrival of requests, which is never forced, decides whether the
system goes on: an idle service is no error.

**Fairness.**  `liveness` assumes weak fairness of every running request's next
call (goroutines are scheduled, and calls return or fail) and of `Expire` for
each id.  The latter is the strong one: an entry that *stays* present must
expire, although each SET renews its TTL.  It is justified as long as Redis
does not fail, since then a SET always follows a miss or a DEL, so only the
requests already past them can renew an entry that stays, and those are
finitely many.  With failing DELs a stream of updates could renew a stale entry
again and again: the run therefore leaves "redis" out of `Faults`, and keeps
failing statements, lost answers and crashes.  No fairness is assumed of the
arrival of requests nor of faults.  `limiter` assumes that time passes and
that the cleanup goroutine runs (its ticker fires, and its mutex is never held
across a blocking call); it assumes nothing of the callers.  `auth` assumes that
time passes, and nothing else: attempts may keep coming while an address is
refused.  `lifecycle` assumes that goroutines run, that the five seconds of
Shutdown end, that PostgreSQL answers or fails, and that a call of UserService, whenever it
may answer, at some time does (strong fairness of `Answers`, since a call may
go into one more statement each time, while the code of a handler makes a few).
Nothing is assumed of HTTP requests, for Shutdown has a limit, nor of streams,
for which GracefulStop has none: SignalEnds and FailureEnds therefore state in
their own words that clients let their streams go (`StreamsLetGo`), and without
that condition TLC finds both false.

## Proofs

TLAPS checks the following for every number of requests, ids, callers, keys and
buckets, every burst, limit and time to live, every width of an integer, every
set of inputs and every set of faults.  The assumptions are those named in the
modules: constants have their types, `None` is no other value, the burst is
positive, a gRPC offset fits an `int`, streams are gRPC calls; TLC evaluates them in the runs.

| theorem | module | states |
|---|---|---|
| TypeCorrectness | UserServiceProofs | `Spec => []TypeOK` |
| AddressesAreUnique | UserServiceProofs | `Spec => []EmailsUnique` |
| CallsArePrepared, KeysMatch | UserServiceProofs | `Spec => []Prepared`, `Spec => []Numbered` |
| GoneIsGone | UserServiceProofs | `Spec => GoneForGood` |
| VersionsAreWhole | UserVersionsProofs | `HSpec => []Provenance` |
| Implementation | UserVersionsProofs | `HSpec => ImplementsRegistry` |
| UndisturbedIsCoherent | UserCoherenceProofs | `CSpec => []CoherentUnlessDisturbed` |
| UndisturbedReadsFresh | UserCoherenceProofs | `CSpec => UndisturbedReadsAreFresh` |
| LimiterTypes | LimiterProofs | `Spec => []TypeOK` |
| LimiterImplementation | LimiterProofs | `Spec => ImplementsContract` |
| AuthTypes | AuthProofs | `Spec => []TypeOK`, with the limit of a window |
| AttemptsAreBounded | AuthProofs | `Spec => []SlidingBound` |
| RefusalsAreJustified | AuthProofs | `Spec => []RefusalsJustified` |
| ApiTypes | UserApiProofs | `ApiSpec => []ApiTypeOK` |
| HashesStayInside | UserApiProofs | `ApiSpec => []NoHashLeaves` |
| HttpRowsStayValid | UserApiProofs | `ApiSpec => []HttpRowsAreValid` |
| ServiceBehindTransports | UserApiProofs | `ApiSpec => [](EmailsUnique /\ Numbered /\ Prepared)` |
| NobodySeesTheDeleted | UserApiProofs | `ApiSpec => DeletedStayUnseen` |
| PagesTypes | UserPagesProofs | `Spec => []TypeOK` |
| NobodyIsMissed | UserPagesProofs | `Spec => []WalkIsComplete` |
| NobodyIsRepeated | UserPagesProofs | `Spec => []WalkHasNoRepeats` |
| TotalsAreTrue | UserPagesProofs | `Spec => []TotalIsTrue` |
| PagesBeforeAreSkipped | UserPagesProofs | `Spec => []EarlierUsersSkipped` |
| LifecycleTypes | LifecycleProofs | `Spec => []TypeOK` |
| StoresStayOpen | LifecycleProofs | `Spec => []StoresOutliveRequests` |
| GracefulIsGraceful | LifecycleProofs | `Spec => []GracefulMeansGraceful` |

**UserService.** The inductive invariant is TypeOK, EmailsUnique, Numbered and
Prepared together.  They support each other: that a row's password is a hash
(TypeOK) needs Prepared, because the request at its INSERT hashed it one step
earlier; that a cache entry is that of its key (Numbered) needs Prepared, because
the request carries the user from the statement to the cache write; and
Prepared needs the types and the numbering of rows and entries in turn.

`GoneForGood` is the safety half of GhostsExpire, and what the registry does not
promise, since it lets the cache answer old versions: once neither store nor
a running request has a user, the user does not come back.  Only an INSERT makes a
row where there is none, under a new number; a SELECT or UPDATE gives a request
only a row that is there; and only a request that carries a user caches one.

**UserVersions.** To that is added Provenance: the table, the cache and every
running request hold whole versions of the right id, and whoever deleted a row
knows it gone.  The last part is inductive because the sequence never gives an
id twice (Numbered).  For the refinement each action maps to a step of the
registry: the statement that commits is `Perform`, an answer is `Answer`, with a
witness version from Provenance; the sequence of a refused INSERT is `Skip`;
cache steps and expiry stutter.

**UserCoherence.** `CoherentUnlessDisturbed` speaks only of states in which no
writer is between its two stores.  The strengthening says what a request holds
meanwhile: in an undisturbed id every request that will write the cache from a
row holds the row as it is now, and a deletion that is not finished has left no
row.  With that each cache write restores agreement, and each commit is either
alone or one of the disturbances.

**Limiter.** `TypeOK` is inductive together with `KeysApart`, that no caller holds
the bucket of another key, which the refinement needs.  In the refinement the level of a key is the level of its bucket, and full when it has
none or is about to lose it; a call is overtaken when its bucket is no longer
the one in the map, or is about to go.  So a key is forgotten at the moment the
cleanup finds its bucket full, the deletion and the creation of a bucket do not
show, and an overtaken call changes no key's level since its bucket is in the map
for no other key.

**AuthService.** TypeOK is inductive with one more fact: a password on its way
into the row has been hashed (`Hashed`), so that the UPDATE of ChangePassword puts
nothing else there.

Both sides of the limiter follow from `Windowed`, which ties the history to the
window that is running: what was let through in a stretch shorter than the age of
the window is less than its count (the first attempt is as old as the window), in
a stretch at least as long no less than its count, and never more than its
count and `MaxAttempts - 1` of the window before.  When a window is over its first
attempt is out of every stretch that matters, so that `MaxAttempts - 1` at most
are left behind: this is where the bound of nine instead of ten comes from.
`Forgiving` adds the attempts that resets have erased: the resets only ever move
what `Windowed` bounds, and after a reset there is no window before, so that each
of them costs one limit and not two.

**UserApi.** The steps of the service keep the invariant of UserService, as proved
there.  What is added is `Pending`: a handler waits exactly while its request is in
the service or has its result, there is no result before the service returns, the
handler of CreateUser waits for a create, and the body of a create or an update
that came over HTTP is valid, its name included.  NoHashLeaves needs it because that handler
blanks nothing: the user of a create comes from `RETURNING`, and it is the only
operation whose user never carries a hash.  HttpRowsAreValid needs it, and itself,
because an UPDATE keeps the old value of every field its body leaves out.
GetProfile needs a bearer to be a number the sequence has given.

Every step of the transports is a step of the service or leaves its stores and
users alone (`StepsOfTheService`), so what was proved of the service's steps
carries over: `DeletedStayUnseen` is `GoneForGood` seen from outside, with the
results that handlers have still to answer, and for the bearers of tokens that
outlive their user.

**UserPages.** The position of a walk is its offset; `Passed` are the rows whose
rank, counted from the newest, lies before it.  A creation moves ranks up, a
deletion moves them down, so without creations what was seen stays passed
(`NoneAhead`), and without deletions or broken connections what is passed was
seen (`NoneMissed`); undisturbed, seen and passed are the same (`Undisturbed`).  A
full page moves the offset by exactly the limit: that needs an argument of its
own where the offset of the first page overflowed, and holds because a page can
only be full when the offset is below the number of rows, which an `int` can count
(`NextOffset`).  The rest is counting: a rank is the cardinality of a set of
newer rows, and the rows whose ranks lie in a segment are as many as the segment is
long (`SliceSize`).

**ServerLifecycle.** The invariant says what each step of the shutdown goroutine
has ensured when the next begins (`HttpClosed`, `HttpDrained`, `GrpcOpen`,
`GrpcDrained`), what the return of each goroutine means (`Returned`), and that main
is past Wait only when all have returned and none with an error (`Waited`).
From these follow both invariants; requests cannot undo them because none
arrives at a server that has stopped accepting.

**Only model-checked:** the liveness properties (GhostsExpire,
EventuallyCoherent, IdleKeysGo, BlockEnds, SignalEnds, FailureEnds), which need
fairness and ENABLED, and the three violations.  Every other property of the
runs is a theorem.

## Findings

* `deleted` (code_bug): CreateUser caches its user (`user_service.go:52`) after
  another request has deleted the row and cleaned the cache (`:112-115`); the
  deleted user is then answered until the TTL of the entry ends, while
  `user_service_integration_test.go:156-159` expects an error.  A GetUserByID
  that read the row before the deletion (`:75`) and an UpdateUser (`:106`) do the
  same.  `GhostsExpire` shows that the effect ends.
* `taken_email` (doc_code_divergence): an update to an address that another row
  holds is answered "user not found", although the repository tells the two
  errors apart (`user_service.go:102`, `user_repo.go:154-158`).
* `login_limit` (doc_code_divergence): the limiter on logins is said to let "5
  attempts per 15 minutes" through (`auth_service.go:76`); one attempt that opens
  a window, four at its end and five when the next begins are nine.

## What is not modelled

* Timestamps, messages and details of errors, logging.
* Failures of the mock e-mail provider, which has none; no `main` sets an e-mail
  service, so `EmailConfigured` is a constant of the model.
* The growth of the map of attempts (one address is modelled), and the keys
  `string(rune(id))` of the limiter per user, which meet only for ids beyond the
  runes: no model with a handful of ids reaches them.
* Health check (registered by no router), the values of the configuration,
  Logout (does nothing), what the reflection service answers, the logger (output, although its lazy initialisation is a race and listed as a
  hazard), generated code, test doubles: no state of the program's own logic.

## Plan

Done: all modules above, each with its runs, and proofs of all their invariants,
action properties and refinements.

Left, in this order:

1. The safety part of EventuallyCoherent and SignalEnds, as GoneForGood is that of
   GhostsExpire: once the writers are gone no fill makes a coherent entry stale, and
   the shutdown never goes back a step.
2. `UserApi` with the history of `UserVersions`, so that the registry is promised to
   the clients of the transports and not to callers of the service only.

The modules are written so that they can be proved about: constants with named
assumptions, one action per call, invariants as conjunctions of named parts, no
recursive operators.
