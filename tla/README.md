# Verification of Load-Balancer-GO

TLA+ modules, TLC runs and TLAPS proofs for the HTTP load balancer in `src/`
(`main.go`, `serverpool.go` and the package `loadbalancer/`). Every definition
was written from the Go code; `PROJECT.json` maps each one to its lines. The
repository has no unit tests: `tester.sh` drives a running server with `curl`,
one request after the other, so nothing that depends on an interleaving is
tested at all.

## 1. The system

One process listens on `:8080`. A request to `/lb` passes the rate limiter and
then `lbHandler`, which finds the session's backend, asks the backend's circuit
breaker, and proxies the request. `net/http` runs one goroutine per request;
`HealthCheckLoop` and `AutoScalerLoop` run beside them for ever.

```
request -> RateLimiter.Allow -> lbHandler -> GetBackendForStickySession
              (one mutex)                       |  Redis: Get, Set, Set
                                                |  stickySessions (stickyMux)
                                                v
                                 SelectBackend / GetNextPeerWeighted
                                     | reads Alive (backend mutex)  <- HealthCheck
                                     | Score: breaker.State() (RLock)
                                     v
                                 CircuitBreaker.Execute -> reverse proxy
```

| Component | State | Operations | Hard because | Correct when |
|---|---|---|---|---|
| Circuit breaker, `circuitbreaker.go` | `state`, `generation`, `counts`, `expiry`, one RWMutex | `Execute` = `beforeRequest`, the call, `afterRequest` (also on a panic); `State` | a call outlives the period that admitted it; `State()` changes the breaker with only the read lock; half-open has no expiry | outcomes count once and only in their generation, the quarantine is kept, no state is for ever |
| Server pool, `serverpool.go` | `backends`, `weighted`, `regions`, `current`; per backend `Alive`, averages, `active` | `SelectBackend`, `GetNextPeerWeighted`, `Score`, `AddBackend`, `RecordMetrics`, `UpdateBackendsFromConsul` | scans read one backend at a time while others write | a healthy backend is found if there is one, in its region, by weight |
| Health check, `serverpool.go`, `healthcheck.go` | position in the pool, result of a dial | `HealthCheck` every 10 s | the dial's result may be two seconds old | `Alive` follows reachability |
| Sticky sessions, `serverpool.go`, `redis.go` | per instance `stickySessions`; in Redis one key per session | `GetBackendForStickySession`, `GetSession` (which writes back what it read), `SetSession` | four separate critical sections; failing Redis; restarts; several instances | the client keeps the backend that Redis has taken for it as long as that is alive |
| Rate limiter, `ratelimiter.go` | per client `tokens`, `last`, `warmup`; one mutex | `Allow` | the clock is read before the mutex is taken | no more requests than capacity and refills |
| Request handler, `main.go` | `requestCount`, gauges | `lbHandler` | composes all of the above | backends are used fairly, failures reach the breaker |
| Traffic policies, `trafficpolicies.go` | ordered policies, backend map | `AddPolicy`, `EnablePolicy`, `EvaluateRequest` | order, first match, fallbacks | the policy of highest precedence decides |
| Service discovery, `consul.go`, `serverpool.go` | `services`, `watchers`, the watch goroutine | `StartWatch`, `updateServices`, `NotifyOnChange`, `UpdateBackendsFromConsul` | the pool is rebuilt under requests | the pool holds what was discovered |
| Auto-scaling state, `redis.go` | one JSON value in Redis | `ShouldScale`, `UpdateRequestCount` | read-modify-write by several instances | one scaling per cooldown |
| Autoscaler, `autoscaler.go` | `requestCount` swapped to 0 | `checkAndScale` (a placeholder) | - | - |
| Legacy balancer, `balancer.go`, `healthcheck.go` | `Index`, map of healthy URLs | `GetNextServer`, `Monitor` | `Index` has no lock | every scan ends |
| Metrics, telemetry, dashboard, mTLS, mock servers | counters, logs, files | - | pure I/O | - |

Locks: `ServerPool.mux` guards the three lists, `stickyMux` the session map,
`Backend.mux` the fields of a backend, each breaker and the rate limiter have
their own. A goroutine holds `ServerPool.mux` for reading while it takes a
`Backend.mux` for reading, and a `Backend.mux` for reading while it takes a
breaker's lock for reading (`GetCircuitBreakerState`); nothing takes them in
the other order.

The hazards, each at its line, are in `PROJECT.json`, with the properties that
cover them.

## 2. Modules

| Module | Models |
|---|---|
| `BreakerOps` | the breaker struct as a record; its methods as operators from a breaker to a breaker |
| `BreakerPromise` | abstract: closed, open, half-open with counted trials |
| `CircuitBreaker` | callers in `Execute`, readers in `State()`, the clock |
| `HealthChecking` | the health checker's rounds over a list of backends; extended by the two modules that have such a list |
| `ServerPool` | handlers choosing a backend, the health checker, backends and breakers that change |
| `RequestPath` | `lbHandler` as a whole, over a pool of backends with a `BreakerOps` breaker each |
| `StickySessions` | one session from the cookie to the answer: several instances, Redis, restarts |
| `RateLimiter` | one bucket and the goroutines in `Allow` |
| `TrafficPolicies` | the policy engine and `SelectBackendWithPolicy` |
| `Lifecycle` | `main` building the pool, the Consul watch beside it, then the health checker |
| `MCCircuitBreaker`, `MCServerPool`, `MCRequestPath`, `MCTrafficPolicies`, `MCLifecycle` | symmetry and the instances TLC checks |
| `BreakerOpsProofs` | lemmas about the breaker's methods, for the two modules that have breakers |
| `CircuitBreakerProofs`, `RateLimiterProofs`, `ServerPoolProofs`, `RequestPathProofs`, `StickySessionsProofs`, `TrafficPoliciesProofs`, `LifecycleProofs` | the theorems about the module of that name |

### CircuitBreaker

`cb` is the struct. `beforeRequest` and `afterRequest` hold the mutex for
writing and read the clock inside it, so each is one action, `currentState`
included; `call[c]` is the generation `beforeRequest` returned to goroutine
`c`, which is all that `Execute` remembers. A request that panics takes the
deferred `recover`, `reqPanics`.

`State()` takes the mutex for *reading* and calls `currentState`, which may
assign. No writer runs meanwhile (`Unread`), but other readers do. A reader is
therefore cut where another one can be seen or can disturb it: after the tests,
after the state is stored and the generation loaded (`StateAssign`), after the
generation is stored and the counts cleared (`StateStore`), and when the expiry
is stored and the lock released (`StateLeave`). Two readers that load the same
generation lose one increment; the model shows that nothing depends on it.
What Go's memory model allows beyond that, a reader of a torn `time.Time`, is
left out: it would need a value of `expiry` that no goroutine wrote.

`name` and `onStateChange` (which logs) are left out. The counters are
unbounded numbers: a generation would have to admit 2^32 requests. `uint32`
matters at one place, `Successes()`, and does not go below zero there because
`ConsecutiveFailures <= TotalFailures`, which `InFlightAccounted` bounds by
`Requests`.

`trippedAt` and `streakFrom` are history variables, read by properties only.

### ServerPool

`pick[h]` is the choice of handler `h`: `pc` is where it is (the scan of the
region, of the whole pool, the scores, the ticket, the scan of `weighted`),
`list` what it has still to read. `Alive` is read under one backend's lock at a
time, so each `IsAlive` and each `Score` is a step of its own. The floating
point value of `Score` is abstracted to its order: `MaxFloat64` if the breaker
is open, otherwise either of two candidates may be the smaller. That is more
than the code can do; the properties hold for it. `Arrive` with `Default` is a
client without a region (`getClientRegion` returns `"default"`).
The pool is constant: `AddBackend` runs before the server listens. `lists` is
what its calls, one after the other, have made of `weighted` and `regions`.
`HealthCheck` is a step of `HealthChecking` over it.
`BreakerMoves` is any change of whether a breaker is open.
`steady`, `good` and `shut` record, for the properties, which backends were
alive, alive with the breaker not open, or open, at every moment of the choice.

### RequestPath

`h[q]` is where the goroutine of request `q` is in `lbHandler`. The choice of a
backend is one step here (`Choose`: by the session, by score, by ticket, by
policy, or none), because `ServerPool` and `StickySessions` cut it; what is kept
is everything after it: the log line that asks for the state and the increment
of `active` (`Count`), `beforeRequest` (`Admit`, `Refuse`), the proxy's answer
or its panic, with `afterRequest` in the same step (`Answered`, `Aborted`), and
the deferred function (`Leave`). Between any two of them other requests, the
dashboard (`Observe`), the health checker (`Mark`) and the clock move.
`Answered` stands for every status, 502 for an unreachable backend included:
the function given to the breaker returns no error. `Aborted` is
`http.ErrAbortHandler`, with which `httputil.ReverseProxy` panics when a
response is cut off while it is copied; `net/http` recovers it.
`cb[b]` is a record of `BreakerOps`, and `BreakersKeepPromise` instantiates
`BreakerPromise` once per backend. `scored` and `aborted` are read by
properties only. The weights of a ticket and the numbers of a score are left
out: any backend they could give may be given.

### TrafficPolicies

`policies` is the slice of the engine, in its order. `Sorted` is the exchange
sort of `AddPolicy` with its two loops (`Passes` over `Compared`), because it is
not stable and a property depends on that. A rule is the set of requests it matches (field, operator,
value and regular expressions are data) with its action and backend;
`Bucket[r]` is `hashRequest(r) % 100`. `answer` and `added` are history. When
no policy gives a backend, or one denies, `SelectBackendWithPolicy` falls back
to `GetNextPeerWeighted`, here any backend or nil. `main` reaches the engine
only for a session cookie with an empty value, and never calls `EnablePolicy`,
which the module has because the engine offers it.

### Lifecycle

`boot` is where `main` is: it adds the static backends, with
`CONSUL_ENABLED` starts the watch and calls `UpdateBackendsFromConsul`, with
`TRAFFIC_POLICIES_ENABLED` copies the pool into the policy engine, and serves.
The watch is two goroutines, `WatchServices` (a ticker that sends the answer of
the catalogue, or drops it when the channel is full) and the manager's loop
(`updateServices`), which `main` does not wait for. The mock client always
answers one list; `CatalogueChanges` lets the answer change, as the `ConsulClient`
interface allows. `HealthCheck` starts with the server.
`dialled` is history: how far the health checker has got with a backend since
its reachability last changed.

### StickySessions

Sessions have different keys, so one session is modelled, with requests that
carry its cookie at any instance, from `GetBackendForStickySession` to the
answer. Each Redis call is a step, and may fail, with or without its effect.
`RedisTouch` is the write-back of `GetSession`, which stores the value that was
*read*. A request that was given a backend is proxied: it is `"stored"` if Redis
holds that backend for the session as far as the request can tell, `"unstored"`
if the last `SetSession` failed or nobody assigned the backend.

`Select` is `SelectBackend` as one step: its interleavings are `ServerPool`'s.
It returns any alive backend, or nil, and nil although backends are alive, since
the breakers of all candidates may be open and breakers are no state here.
`Fallback` is then `lbHandler`'s own `GetNextPeerWeighted`: the client is
answered by a backend that is assigned to nobody, or with 503 if none is alive.

`Answer` is a step of its own, so that `Restart`, which empties the instance's
map and ends its requests, can fall between any two stores and between the last
store and the answer. It may also be the 503 of a breaker that refuses.

`last` and `expect` are history: the last answer the client had from a backend,
and what that was when a request began, each with whether Redis had taken the
assignment (`assigned`). An answer by `Fallback` is recorded like any other, as
one that Redis had not taken. An answer is forgotten in three cases, in which
the code promises nothing: an instance holds its backend for dead, a *read* of
Redis fails (the request then goes on as one without a session), or a Redis that
is not shared is lost with its instance. Stores that fail forget nothing. The
24 hours after which Redis drops a session are left out. `overlap` records
whether the client has ever begun a request while another was open.
`Shared = FALSE` gives each instance a `MockRedisClient` of its own, as `main`
wires it.

### RateLimiter

A token is `Unit` units and a tick refills `Rate` units, so that rates below
and above one token a tick are covered by integers; float64 rounding is left
out. `Now` reads the clock before the mutex, `WarmUp`, `Allowed` and `Limited`
are the critical section, with whatever reading the goroutine brought.

## 3. Runs

All runs take under two minutes with two workers, most a few seconds. Deadlock
is checked everywhere.

| Run | Checks | Result |
|---|---|---|
| `breaker` | `TypeOK`, `InFlightAccounted`, `OpenHasNoCalls`, `HalfOpenNotStranded`, `QuarantineRespected`, `TripWithinInterval`, `ImplementsPromise` | hold |
| `breaker_live` | `OpenLapses`, `HalfOpenResolves` | hold |
| `breaker_successes` | `ClosesAfterSuccesses` | violated: finding 1 |
| `pool` | `TypeOK`, `NoFalseOutage`, `RegionAffinity`, `WeightedShare` | hold |
| `sticky` | `TypeOK`, `RedisRemembers`, `AssignmentKept`, `SettledStays` | hold |
| `sticky_concurrent` | `ConcurrentKept` | violated: finding 3 |
| `ratelimiter` | `TypeOK`, `RateBound` | hold |
| `request_path` | `TypeOK`, `ActiveMatches`, `AnswersNeverTrip`, `RefusedOnlyIfMoved`, `BreakersKeepPromise` | hold |
| `policies` | `TypeOK`, `PriorityOrder`, `RedirectHonoured`, `ChangesAreLocal` | hold |
| `policies_backend` | `BackendOnlyOnRedirect` | violated: finding 4 |
| `lifecycle` | `TypeOK`, `AliveIsFresh`, `HealthConverges`, `DiscoveryConverges` | hold |
| `lifecycle_consul` | `DiscoveryReachesPool` | violated: finding 6 |

What they show, beyond the names:

- `request_path`: whichever way a request ends, `active` is given back once;
  an open breaker is the work of cut-off responses alone; a request sent to a
  backend for its score meets a refusal only if the breaker moved in between,
  or was half-open; and with handlers, observers and late outcomes around it
  each breaker is still an implementation of `BreakerPromise`.
- `policies`: the sort sorts, for every order of additions; a redirect that no
  decisive policy precedes is honoured; and switching one policy moves no
  request between others. The exception in `ChangesAreLocal`, two policies of
  one priority that both decide the request, is needed: without it TLC finds an
  unrelated addition that reorders the two.
- `lifecycle`: a result of a dial may be two seconds old, but no older: once one
  that began after a backend's last change is stored, `Alive` is right until the
  next change, and no result that was under way before overwrites it. In the
  long run `Alive` follows reachability, and the discovered services follow the
  catalogue, although the channel holds stale lists and loses others.
- `sticky`: two instances that share a Redis, which `main` does not wire but
  `StickySessionManager` is made for. A client that awaits each answer is sent
  to the backend that answered before, if Redis had taken that assignment,
  through every crash and every store that fails. For a client that does not,
  this is false (`sticky_concurrent`, in `main`'s wiring), but once Redis holds
  a backend and no open request holds another that it could still store, no
  write-back, map or restart takes the session away (`SettledStays`).
  That `AssignmentKept` also holds in `main`'s wiring, one instance with a
  `MockRedisClient` that it loses when it restarts, is a case of its theorem.

### Bounds

- **Breaker.** Three callers, so that a trial can be refused while two are in
  flight, or an old call can end among two new trials; two readers, the least
  that race. `MaxRequests = TripAfter = 2` are the least values at which "some"
  and "all" differ. `Interval = 2`, `Timeout = 1`, `MaxTime = 6`: time for a
  period to be renewed, to trip, to lapse and to trip again. `MaxCount = 3`
  bounds the requests admitted in one period, one above `MaxRequests`. The
  liveness runs use two callers and `MaxTime = 4`; they have no symmetry.
- **Pool.** Two backends with weights 2 and 1 in one region, a region that has
  none, and no region; two handlers; `MaxTickets = 3` is one round of
  `weighted`; `MaxEvents = 1` change of the environment, beside the changes the
  health checker makes itself. Every initial reachability is tried.
- **Sticky.** Two instances, so that maps disagree and one may know what the
  other was told; two backends; two requests, so that one writes back what
  another has replaced; Redis calls that fail. `overlap` tells the executions
  in which the client awaited each answer from the others. The violation needs
  one instance, two requests and no failing call. Nothing else is bounded, the
  state space is finite.
- **Rate limiter.** Three goroutines, so that two stale readings can meet a
  fresh one; capacity 2 and a refill of 2/3 token a tick up to time 6, enough
  for the bucket to be emptied, refilled to the brim and emptied again.
  `MaxSpent = 20` is never reached.
- **Request path.** Two handlers, so that one can move the breaker another was
  sent to; two backends of one region, which can be exchanged, so that a choice
  by score is a choice; one client, whose session may be at either or none.
  `TripAfter = MaxRequests = 2`, `Timeout = 1` and `MaxTime = 2` let a breaker
  trip, lapse and close or trip again. `MaxCount = 3`, one above `TripAfter`,
  lets an outcome arrive after its period has ended. `Interval = 1`, so
  that every closed period but the first (finding 2) ends under requests and
  observers; `BreakersRefine` covers every interval.
- **Policies.** `main`'s three policies, a denial that ties with one of them
  and a redirect that leads nowhere, up to three at once, any of them more than
  once: three are the least that an exchange can reorder. Four requests, one
  for each set of rules that `main`'s policies tell apart, with buckets on both
  sides of the canary's 30. `policies_backend` has `main`'s policies only.
- **Lifecycle.** Two static backends and a catalogue that has both or one; a
  channel of two lists (ten in the code), so that it can hold a stale one and
  be full; three changes of the environment, both switches on and off.

### Fairness

`FairSpec` of the breaker assumes that time passes (`WF` on `Tick`), that a
call ends and a caller gets the lock (`SF` on its end and, for new traffic, on
`beforeRequest`): a goroutine waiting for an RWMutex is served although readers
come and go, because Go's RWMutex holds new readers back once a writer waits;
`WF` on the steps of a reader inside, since it has no more waiting to do.
That a call *ends* is the reverse proxy's doing: a backend that never answers
keeps its slot, as `lbHandler` sets no deadline, and then the properties do
not hold. `TrafficContinues` is an assumption on the clients, needed because
an open breaker changes only when it is asked.
The clock stops at `MaxTime`, so `OpenLapses` speaks of the expiries before it.

`FairSpec` of `Lifecycle` assumes that `main`, the two goroutines of the watch
and the health checker are scheduled and that their tickers go on (`WF` on each:
none of them waits for a lock that others keep taking, and a dial ends after
two seconds). Nothing is assumed of the environment: `HealthConverges` is
conditional on reachability becoming constant, `DiscoveryConverges` on the
catalogue.

### What the code does not do (findings)

1. `ClosesAfterSuccesses`. `Successes()` is `Requests - ConsecutiveFailures`.
   With `MaxRequests` trials admitted, the first success closes the breaker; the
   comment (`circuitbreaker.go:248`) says it is the number of successful
   requests. The failures of the other trials then belong to an earlier
   generation and are dropped.
2. The first closed period has the zero expiry and is never renewed, so the
   interval clears nothing until the breaker first trips
   (`circuitbreaker.go:53` against `:201`). `TripWithinInterval` states what
   holds from then on, and fails without its exception for generation 0.
3. `ConcurrentKept`. Two first requests of a session that are open at once each
   choose and store a backend (`serverpool.go:431-447`), and a later request is
   moved, against `readme.md:201`. A client that awaits each answer is safe
   (`AssignmentKept`).
4. `BackendOnlyOnRedirect`. An allow rule that matches sends the request to the
   backend of another rule (`trafficpolicies.go:276` against `:43`): with
   `main`'s policies, clients in us-east are sent to `:8083`, the backend for
   asia.
5. `PriorityOrder` holds in *ascending* order: the smallest `Priority` wins,
   against "higher priority = higher precedence" (`trafficpolicies.go:81`).
6. `DiscoveryReachesPool`. With `CONSUL_ENABLED=true` the pool is rebuilt once,
   from a list that is still empty (`main.go:464`), and stays empty, against
   `main.go:463` and `readme.md:43`.
7. `AnswersNeverTrip` holds: five failing answers trip no breaker, against
   `main.go:428`, since the function given to it never returns an error
   (`main.go:183`).
8. Read from the code, with no run: policies are asked only for a session
   cookie with an empty value (`main.go:142` against `:141`), and a request a
   policy denies is routed all the same (`serverpool.go:371` against
   `trafficpolicies.go:42`).
9. Read from the code: when `SelectBackend` gives nil although backends are
   alive (all candidates' breakers are open, `serverpool.go:487-496`), the
   session is assigned nothing (`serverpool.go:432`), `lbHandler` answers with
   any alive backend (`main.go:154`), and the next request may go elsewhere,
   against `serverpool.go:399` and `readme.md:23`. This is why
   `AssignmentKept` speaks only of answers that Redis had taken.
10. Read from the code: `GetSession` writes the whole session back
   (`redis.go:63`), under the comment "Update last access time" (`redis.go:61`):
   a backend that another request stored since the read is replaced by the one
   before it, against `readme.md:202`. This is why a session is settled only
   when no open request has read another backend.

## 4. Proofs

`tlapm` proves every obligation of the eight proof modules, for every value of
the constants that the named assumptions allow. Every invariant and every
action property that a run checks, and both uses of `BreakerPromise`, are
theorems.

| Module | Property of a run | Theorem |
|---|---|---|
| `CircuitBreakerProofs` | `TypeOK`, `InFlightAccounted`, `OpenHasNoCalls`, `HalfOpenNotStranded`, `QuarantineRespected`, `TripWithinInterval`, `ImplementsPromise` | `TypeCorrect`, `Accounting`, `OpenIsIdle`, `NeverStranded`, `QuarantineHolds`, `TripsWithinInterval`, `Refinement` |
| `RateLimiterProofs` | `TypeOK`, `RateBound` | `TypeCorrect`, `RateIsBounded` |
| `RequestPathProofs` | `TypeOK`, `ActiveMatches`, `AnswersNeverTrip`, `RefusedOnlyIfMoved`, `BreakersKeepPromise` | `RequestsTypeCorrect`, `ActiveCounts`, `OnlyAbortsTrip`, `RefusalsHaveMoved`, `BreakersRefine` |
| `ServerPoolProofs` | `TypeOK`, `NoFalseOutage`, `RegionAffinity`, `WeightedShare` | `PoolTypeCorrect`, `NoOutageWhileOneStays`, `RegionsAreKept`, `TicketsAreShared` |
| `StickySessionsProofs` | `TypeOK`, `RedisRemembers`, `AssignmentKept`, `SettledStays` | `SessionsTypeCorrect`, `SessionsSurviveInstances`, `SessionsKeepTheirBackend`, `SettledSessionsStay` |
| `TrafficPoliciesProofs` | `TypeOK`, `PriorityOrder`, `RedirectHonoured`, `ChangesAreLocal` | `PoliciesTypeCorrect`, `PoliciesStaySorted`, `RedirectsAreHonoured`, `PolicyChangesAreLocal` |
| `LifecycleProofs` | `TypeOK`, `AliveIsFresh` | `LifecycleTypeCorrect`, `ResultsAreFresh` |

Three of them have a hypothesis beside the assumptions of the module:
`SessionsSurviveInstances` and `SessionsKeepTheirBackend` ask for
`OneStore` (Redis is shared, or there is one instance), `PolicyChangesAreLocal`
for `NamesDiffer`. The runs `sticky` and `policies` satisfy them, and below is
why they are needed.

In each module an inductive invariant `IInv` is proved with one lemma per
action or group of actions; TLC has checked it on the run's instance first.
The bounds (`MaxTime`, `MaxCount`, `MaxTickets`, `MaxEvents`, `MaxPolicies`) are
any natural numbers, or guards that the proofs do not look at, so that the
theorems do not depend on how small a run is.

**CircuitBreakerProofs**, from `BreakerAssumption` (options are natural
numbers, `MaxRequests` and `TripAfter` positive) and `CallersAssumption` (the
set of callers is finite, for the cardinality in `InFlightAccounted`).

None of its properties is inductive. The race in `State()` is the reason:
between `StateAssign` and `StateLeave` the state is already half-open, while the
counts, the generation and the expiry are still those of the open period.
`IInv` adds to `TypeOK`:

- `Sound`: the accounting; no call carries a generation ahead of the breaker's;
  an open breaker has empty counts, a half-open one has no failure, at most
  `MaxRequests` trials and fewer successes, since one more would have moved it;
- `ReadersLate`: a reader about to store a generation loaded one that no call is
  ahead of; past the store of the state the breaker is no longer open; while a
  reader is inside a half-open breaker has admitted nothing, because a caller
  needs the lock;
- `Quarantine`: while the breaker is open its expiry is `trippedAt + Timeout`;
  once it is not open, or while a reader is inside, the clock has passed that.

`Init => IInv` and `IInv /\ [Next]_vars => IInv'` are proved with one lemma per
action, over the lemmas of `BreakerOpsProofs` about what each method of the
breaker may return (`CurrentStateCases`, `OnSuccessCases`, `OnFailureCases`).
The refinement maps `mode` to the state and `trials` to the requests of a
half-open breaker; each action is a step of `BreakerPromise` or a stutter.

`TripWithinInterval` needs `Timely` besides: the expiry of a closed period is
the zero time only in generation 0 or without an interval; it is at most
`Interval` ahead of the clock, and at most `Interval` after the first failure
of the streak. The readers matter again: one that is about to leave has cleared
the counts but not yet stored the expiry, and the streak is then empty.

**RateLimiterProofs**, from `RateAssumption`.
`RateBound` speaks of the clock, but a request refills up to its own, older,
reading. The induction is therefore in the bucket's time: `Ledger` says that
what was spent and what is left never exceed what was there and what was
refilled up to `last`, and `InThePast` that `last` and all readings lie between
`base` and the clock. That `last` never goes back is what makes it hold:
the mutant that lets an older reading set it breaks the bound.

**RequestPathProofs**, from `RequestPathAssumption` (the set of handlers is
finite) and `BreakerAssumption`. Here `IInv` is about every backend at once.
The calls that a breaker waits for are not a variable, they are the handlers
that are `"proxied"` to it (`CallsTo`), and with those its breaker is `Sound` in
the sense of `BreakerOpsProofs`: the lemmas about the methods of the breaker
serve both modules. `Cut` relates a breaker to `aborted`: its streak of failures
is no longer than that, and a state other than closed has needed `TripAfter`.
`Busy` is the set that `active` counts. `KnownTo` is what a choice by score
still knows later: the generation it saw is not ahead of the breaker's, and as
long as it is the same, the breaker is not open. This is inductive because a
breaker that opens begins a generation.

**ServerPoolProofs**, from `PoolAssumption` (the pool is not empty, no backend is
in it twice, weights are positive, handlers finite).
`Sound` says of every choice, against `alive` and `open` as they are now, what
it has seen (`Observed`), that the scans have passed over no backend that stayed
alive in its region with its breaker not open (`Selecting`), and that no slot
read by a ticket held one that stayed alive (`Drawing`). A step of the
environment changes `alive` or `open` together with `steady`, `good` and `shut`
of all choices. `Counted`, for `WeightedShare`, says that while nothing has gone
wrong every ticket leads to its first slot and is either tallied or pending.
What the scans have to find in `weighted` and `regions` is a fact about
`AddBackend` called once for each backend of the pool, and is proved by
induction over the calls (`WeightedFacts`, `RegionFacts`).

**StickySessionsProofs**, from `SessionAssumption` (there is an instance).
Types need nothing more. For `RedisRemembers` and `AssignmentKept`, `IInv` says
that, as long as the client has awaited each answer (`Awaited`), at most one
request is open, all instances see one Redis, and it holds the backend of the
last answer if it had taken that one (`LastStored`) and the backend that the
open request has read from it or stored in it (`ReadStored`). `OnPath` makes it
inductive: while the last answer counts, the open request is on the way from the
key in Redis to its backend, so that it reaches none of the steps that could
store another. Whatever leaves that path, a backend held for dead or a failed
read, is what the history forgets. `OneStore` is needed because of two
`MockRedisClient`s one knows nothing of what the other was told. `SettledStays`
needs no hypothesis, and follows from the types: the step of every request is
shown to keep `Settled(b)` and to lead it nowhere but to `b`.

**TrafficPoliciesProofs**, from `PoliciesAssumption` (policies are records with
the fields of `IsPolicy`). The heart is `SortedOrders`: the two loops of
`AddPolicy` make of any list an ordered permutation of it, by an induction over
the inner loop (`ComparedTo`: position `i` holds the least of those compared)
and one over the outer (the first `i` positions hold the least, in order).
`IInv` is then the order, the count of each name against `added`, and that an
entry is a policy that was added with at most `Enabled` changed, which is why a
switch keeps the order. `RedirectHonoured` follows, since the first policy that
decides is one of the least number. For `ChangesAreLocal` the position says
nothing, as the sort may carry policies past each other: the policy that decides
is characterised as the one whose number is less than that of all others that
decide (`Wins`), and two lists whose winners occur in both have one winner.
`NamesDiffer` (policies that may be added have different names) is needed
because `EnablePolicy` switches the first policy of a name: with a second policy
of that name and other rules, a request moves and the name stays enabled. The
code does not check it; `main`'s policies satisfy it.

**LifecycleProofs**, from `LifecycleAssumption`. Static backends are left to add
until they all are; the health checker has not moved before the server serves;
afterwards the backend that it dialed is one of the pool, which nobody changes.
For `AliveIsFresh` the one result that is under way has to be described
(`Underway`): if the backend was dialled after its last change, the result that
the health checker carries, or the one that it has stored, is its reachability,
and a backend it carries no result for is not `"pending"`.

**Induction.** The library's induction theorems take an operator, which no
installed prover can instantiate. The two inductions over data above go by sets
instead: a set of naturals that has 0, and n + 1 with every n, has them all
(`SetInduction`), because its complement would have a least element (`WFMin`
with `NatLessThanWellFounded`). The recursive functions concerned are shown to
exist for every length first. This is why `lists`, `Compared` and `Passes` are
recursive functions and not folds.

**Only model-checked:** liveness under fairness (`OpenLapses`,
`HalfOpenResolves`, `HealthConverges`, `DiscoveryConverges`), which is out of the
prover's reach, and the four violations.

## 5. Not modelled, and the plan

Not modelled:

- the arithmetic of `Score` and `RecordMetrics`: floating point averages, which
  the models abstract to an order;
- the request counter, gauges, telemetry and the dashboard: counters, logs,
  HTML;
- mTLS and the mock servers: I/O; the autoscaler: its action is a placeholder;
- code that nothing calls: the legacy balancer and its `HealthChecker`
  (`GetNextServer` advances an unsynchronised index), `AutoScalingStateManager`
  (read-modify-write of one Redis key without a transaction), `GetNextPeer`,
  `NotifyOnChange` (writes the map of watchers without the mutex),
  `RealConsulClient` (returns errors).

What is left:

1. Safety behind the liveness properties: that the step they wait for is not
   disabled for good (a breaker whose expiry has passed admits the next request,
   a stale list in the watch's channel is followed by a newer one), as
   invariants with proofs, so that only fairness stays with TLC.
2. That the choices `RequestPath` and `StickySessions` make in one step are
   those that `ServerPool` allows, as a refinement.
