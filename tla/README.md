# TLA+ models of zelt

TLA+ specifications of the parts of zelt that are hard to test: the lifecycle
of a runtime and its server, background tasks, the ambient context and the layers
of HTTP requests, the Redis event bus, key-value stores with the rate limiter and
the sessions that use them, the manifest lock of the GraphQL code generator, and the
development server with its ledger of generated files. Each is checked by TLC on a
small instance; the safety properties are proved by TLAPS for every
value of the constants.

Paths below are relative to `src/packages/`, which holds all code of the
framework (29 parts in 26 packages). Everything outside it is documentation,
examples, integration projects and build configuration.

Contents: [1 Inventory](#1-inventory), [2 Plan](#2-plan),
[3 Modules and code](#3-modules-and-code), [4 Runs](#4-runs),
[5 Fairness](#5-fairness), [6 Proofs](#6-proofs), [7 Findings](#7-findings),
[8 What is not modelled](#8-what-is-not-modelled),
[9 Running](#9-running).

## 1 Inventory

zelt is a TypeScript application framework. An application is a list of
*features* (HTTP, command, scheduler, GraphQL, ...) over a dependency-injection
container. `createRuntime()` boots it in a process, or in a worker of a
platform. Everything runs on one event loop, so the unit of interleaving is the
stretch of code between two `await`s; the exceptions are the programs around
the framework (code generators, the development server), which are processes
that share files.

### The core

**LifecycleManager** (`core/src/kernel/lifecycle.lib.ts`). State: the array of
registered lifecycles, `startedIndex`, `disposed`, the promise and the context
token of the startup batch in progress, the promise of the shutdown, and one
`ReadyValue` per lifecycle. Operations: `register`, `startup` and
`startupPending`, `assertCanShutdown`, `shutdown`. Called by `AppBootstrap`;
calls the `startup()`, `assertCanShutdown()` and `shutdown()` hooks of the
services. Hard: concurrent callers share a batch; hooks register, resolve and
start other services; a hook that fails in the middle; guards; `shutdown()`
while a batch runs, which shares `startedIndex` with it. Correct: hooks run
once, one at a time, in order and stop in reverse order; whoever is told that
startup is complete can use everything; nothing is left running; values live
as long as what uses them; nobody waits for ever.

**Runtime** (`core/src/app/app-bootstrap.lib.ts`, `runtime-shutdown.service.ts`,
`runtime-shutdown.lib.ts`, `create-app.lib.ts`, `feature-registry.service.ts`).
State: the bootstrap's state and ready promise, the shared promise of the
shutdown, the two sets of shutdown callbacks, the state of the feature
registry. Operations: `createRuntime` (configs, realization, warm-up, publish,
activate, ready, cleanup), `get`, `registerShutdown`, `shutdown`. Drives the
lifecycle manager. Hard: `shutdown()` during a boot or from within a hook, `get()`
during a shutdown, guards that are asked twice with callbacks in between, a refusal
that makes the runtime usable again. Correct: the phases of a shutdown do not
overlap, a refusal harms nothing, creation and shutdown settle.

**Servers** (`adapter-node/src/listen.lib.ts`, `core/src/features/http-server/`).
State: the socket, the promise of its bind, a shutdown callback of the runtime.
Operations: `listen`, `shutdown` of the handle. Hard: a shutdown while the socket is
being bound. Correct: no service is stopped under a server that serves.

**TaskRunner** (`core/src/features/task/`) with after-response work
(`core/src/features/http/request/after-response.lib.ts`, `http-bootstrap.lib.ts`)
and the platform's `waitUntil()`. State: `activeTasks`, `shutdownRequested`, the
callbacks of each request, the promises handed to the platform. Operations:
`run`, `runAndWait`, `afterResponse`, the flush at the end of a request,
`assertCanShutdown`, `shutdown`. Hard: tasks that start while the shutdown is
on its way, tasks that shut down, timers between the response and the task,
platforms that suspend the process. Correct: the drain is complete, no gap in
what the platform is told to wait for, deferred work is run or reported.

**Dependency injection and configs** (`core/src/kernel/di/`,
`core/src/app/config-registry.lib.ts`): which implementation a config token
resolves to after a sequence of overrides, fallbacks and derived classes.

**Context frames** (`core/src/kernel/internal/context-*.lib.ts`,
`core/src/async-context/`). State: the frame of the synchronous part of a call, the
frame that asynchronous continuations carry, the values of an entry. Operations:
run in a frame, capture one, open a storage scope. **HTTP**
(`core/src/features/http/`): the layers of a request from the bootstrap to the
handler and back, through mounted routers; request scopes, the body, error handlers,
work deferred until after the response. Hard: requests that interleave or that a
handler sends, in runtimes of either context mode; code after an `await`, after
`next()`, after an error. Correct: no request sees the context, the user or the
options of another; guards run, once; the body is there; an error ends at the router that
created the context.

**Command, scheduler** (`core/src/features/`): argument binding; cron jobs that a
lifecycle starts and stops.

**Logger, env and the rest of `core/src/built-in-service/`**: formatting, input
and output.

### Around the core

| component | state | hard |
|---|---|---|
| Redis event bus, `eventbus/src/adaptor-redis` | `subscriptions`, `subscribing`, the local emitter, the client | `on()` while the client connects, shares a SUBSCRIBE that fails, loses its connection |
| Memory event bus, `eventbus/src/adaptor-memory` | the emitter | nothing: synchronous |
| GraphQL codegen manifest, `graphql/src/graphql-codegen-manifest.lib.ts` | a file and a lock directory | processes that crash or are suspended with the lock |
| Key-value stores, `kv/` | expiring entries in memory or Redis | expiry at the boundary, atomic counters |
| Rate limiter, `rate-limit/` | a counter per key and window | window boundaries, a reply that is lost |
| Sessions, `auth-session/` | one stored session per cookie | concurrent requests of a session |
| JWT, `auth-jwt/` | none | |
| Database and Redis services, `db/`, `redis/` | one connection each | as any lifecycle with a ready value |
| Servers, `adapter-node`, `adapter-bun`, `adapter-txiki` | the listening handle | close during bind, shutdown of the runtime |
| Platforms, `adapter-lambda`, `adapter-cloudflare-workers`, `adapter-tinyjs` | none of their own | translation of requests |
| Electron, `adapter-electron` | the registry of windows | close events of replaced windows |
| Development server, `cli/src/dev-server.lib.ts` | the child process | restart, shutdown and exit of the child |
| Build and outputs ledger, `cli/src/` | generated files and their ledger | crashes between file operations |
| Generators, `graphql/`, `openapi/`, `hono-client/`, `studio-extract/`, `decorator-metadata/` | none | data transformation |
| User interface, lint rules, testing helpers, types, validators | none that matters | |

`PROJECT.json` lists every component with its status, and under `hazards` every
place where the code is exposed to an order of steps, a failure or a boundary
that a test would hardly reach, with the properties that cover it.

## 2 Plan

Most important first; all of it is built.

1. **LifecycleManager**, its abstract specification **ResourceStack**, and their
   proofs. Every other stateful part of the framework is a lifecycle.
2. **Runtime**, which EXTENDS LifecycleManager and composes the two: it also
   shows that the runtime gives the manager the environment that the manager's
   own specification assumes. **Servers** EXTENDS Runtime with a listener. Proofs of
   all of it in one module, because the steps of the runtime contain the manager's.
3. **TaskRunner** and proofs.
4. **ContextFrames**, and **Requests**, which EXTENDS it with the layers of the HTTP
   feature, and proofs.
5. **RedisEventBus**, over an external Redis, and proofs.
6. **ExpiringStore**, what a key-value store promises, **MemoryKV** and **RedisKV**,
   composed side by side in **KVTwins**, and proofs. **RateLimit** and **Sessions**
   over ExpiringStore, composed in **Web**, and proofs.
7. **ManifestLock** and proofs.
8. **OutputsLedger**, and **DevServer**, which EXTENDS it, and proofs.

Every safety and action property that a passing run checks is a theorem now; what is left to TLC
is liveness. What could follow: the order of overrides of config tokens.

## 3 Modules and code

An action is what the event loop runs between two awaits (a call of the file
system in ManifestLock). Its guard is where the code stands and the conditions
that the code tests; history variables, which no action reads, are marked as
such. Definitions whose comment says *mutant of* are plausible bugs, used to
confirm that each property can fail.

| module | what it is |
|---|---|
| `LifecycleManager` | the lifecycle manager; `Spec` (no shutdown during a batch, as the runtime guarantees for its boot), `ConcurrentSpec` (shutdown at any moment) |
| `ResourceStack` | what a lifecycle manager promises: a stack that is filled upwards, closed, then emptied downwards |
| `Runtime` | boot, get and shutdown, composed with the manager |
| `Servers` | the runtime with the listener of an HTTP server |
| `TaskRunner` | tasks, after-response callbacks, waitUntil and the drain |
| `ContextFrames` | the frames of the ambient context |
| `Requests` | requests through the layers of two routers |
| `RedisEventBus` | the subscriber of the event bus over an external Redis and ioredis |
| `KVTypes`, `ExpiringStore` | the vocabulary of the key-value stores, and what one promises |
| `MemoryKV`, `RedisKV`, `KVTwins` | the two adaptors, and both side by side |
| `StoreClients`, `RateLimit`, `Sessions`, `Web` | the rate limiter and the session middleware over an expiring store |
| `ManifestLock` | upserts of the manifest by several processes |
| `OutputsLedger` | generated files and the ledger that finds the stale ones |
| `DevServer` | `zelt dev`: watcher, restarts, the child process, the shutdown |
| `LifecycleProofs` | theorems about LifecycleManager, Runtime and Servers |
| `TaskProofs`, `BusProofs`, `ManifestProofs` | theorems about TaskRunner, RedisEventBus and ManifestLock |
| `KVProofs`, `WebProofs` | theorems about KVTwins, and about Sessions and RateLimit in Web |
| `RequestsProofs` | theorems about Requests with ContextFrames |
| `DevProofs` | theorems about DevServer with OutputsLedger |
| `MC*` | the modules that TLC runs |

### LifecycleManager

An entry is its position, from 1, so `startedIndex` is the number of entries
that count as started. `batch` is where `startPendingLifecycles()` stands
(`starting`: it awaits the hook of `cur`; `rollback`: it awaits a stop;
`drained`/`failed`: settled, but the `.finally()` has not run yet, the window
that the comment at lifecycle.lib.ts:70 is about). `pc` is where each caller
of `startupPending()` is; `resumed` is the microtask between the settling of
the shared promise and the caller's next look at the loop. `stopping[p]` is the
loop of `stopStartedLifecycles()`, which a rollback and a shutdown can run at
the same time over one `startedIndex`.

Hooks are environment: they fulfil, fulfil with an object that is sealed or
cannot be sealed, or reject; they may register more entries and call
`startupPending()` and await it (`awaited`, `inside`). The code recognises such a call by
the ambient context (lifecycle.lib.ts:55), which in sync mode is gone after the hook's
first `await` (website/docs/async-context.md:15). `ContextLost` holds the entries whose hooks
call from there: such a call is not recognised (`Reentrant`), and a hook that awaits its
answer waits for itself for ever (`WaitsForItself`, the stated exception of `CallersAnswered`). `ToggleGuard` lets a guard change its mind at any time.

### Runtime

`boot` follows `initializeRuntimeFeatures()`, `app` and `readyP` are the
bootstrap's, `phase` is where `runShutdown()` stands, `cb` each callback.
`overlap` records that the manager was shut down in the middle of a batch:
that of a `get()` on the ready runtime, or that of the configs, which a shutdown
before `ready()` does not await.

A shutdown may be requested as soon as something is constructed that could inject it,
by the startup hook that runs, which may also await it (`HookJoins`), by a service or
from outside. A hook of the startup that `ready()` runs and that awaits the shutdown
waits for itself, since `AppBootstrap.shutdown()` awaits `ready()`
(app-bootstrap.lib.ts:122): `AwaitsItself`, the stated exception of `RuntimeSettles`.
`activate()` after such an early shutdown makes the registry ready again
(create-app.lib.ts:163), but `ready()` rejects and so creation does;
`DisposedIsUnusable` says that no runtime is handed out in that state.

Left out: no `get()` falls into the few microtasks between the drain of the startup
batch and `state = 'ready'`.

### Servers

One of the callbacks is the one that `listen()` registers. `server` is its socket: the
callback waits for the outcome of the bind and for the requests that are being
served. Whoever holds the handle may close the server at any time; a shutdown does
not wait for that, as the callback has left its set (runtime-shutdown.lib.ts:34),
and this is the stated exception of `ServersClosedFirst`. Bun and txiki bind at once and
are the special case without `binding`.

### TaskRunner

A task is one call of `run()`, `runAndWait()` or `afterResponse()`. Of the
lifecycle manager only what the runner sees is kept: guard, the hooks of
services registered later (`stop = "others"`), then the runner's hook.
`BeginStop` asks the guard, `BeginRollback` does not (`failStartup()` never
does), `StopRunner` asks again because the hook does. `callers` is empty or the
running task in whose context the stop runs. `WaitUntil` may be refused by
the platform. A task that awaits a shutdown that others began gets the shared promise
and no guard is asked (runtime-shutdown.service.ts:41), although task-runner.lib.ts:7 says
that a task waiting for its own drain is rejected: `Entangled` is the stated exception of
`TasksSettle`.

### ContextFrames, Requests

A frame is the request whose values it holds, its mode, and the value of one storage
key. `synchronousFrame` is the module variable; `carried` is what `AsyncLocalStorage`
would answer in the turn that runs. An action of `Requests` is a turn of the event loop or,
while `turn` is its request, a part of one. `acts` is what each layer keeps on its stack
while the request is in it or below it: what it was called in, what it has to restore.

User code is nondeterministic: it may await, go back into the context it captured, set
the user, read the body, take the raw request and consume its stream, fail, answer
by itself, or call `next()`, in a storage scope or not, now or after the request is over.
Limits of it: one await in each layer, before `next()`; a middleware awaits its `next()`;
the user is set in the root router; only the handler defers work; a request with a body
has the run to itself. What fails throws an Error, and error handlers do not throw: Hono hands
error handlers Errors only, so anything else rejects the `fetch()`, and so does a handler of the
root router that throws. Left out: path matching, rendering, skipped middleware, the ownership of
responses.

### RedisEventBus

Redis and ioredis are external and modelled from how the adaptor uses them:
commands are answered in order, replies and messages share one ordered
connection, a lost connection resubscribes what was confirmed and sends again or
fails what was not answered. The reply to a SUBSCRIBE and the reaction to its
promise are two steps, because the client parses all that one chunk holds
before any promise reaction runs.

### ManifestLock

A step is one call of the file system. A lock may get old at any moment,
also that of a live process that is suspended or slow. `robbed` records that the
lock of a process at work was removed by another one; this can happen in two
ways that the code leaves open (graphql-codegen-manifest.lib.ts:99-101, a lock that
was seen to be stale is removed later, when it may be a fresh one; and :117,
the release of a holder that was robbed itself), and the two safety properties
hold until then. They say nothing against these two ways themselves.

### KVTypes, ExpiringStore, MemoryKV, RedisKV, KVTwins

`ExpiringStore` says which entries are there; expired ones do not exist. `MemoryKV`
keeps them in `data` until a call for the key (`Current`) or the collection (`Gc`)
removes them; `RedisKV` keeps them in the external server's `db` until the server
does (`Evict`). A call of either adaptor is one step: the memory adaptor has no
`await`, the Redis adaptor sends one command or one script, and the order of calls
is the order in which the server runs them. Lost connections are left out.

At the very instant of its expiry an entry is gone from the memory adaptor
(`expiresAt <= Date.now()`) and still there for Redis (gone once the time is past it).
`ExpiringStore` allows both, in `Tick`. In `KVTwins` both adaptors get every call at
the same time and `edge` records that a key was used at such an instant, after which
they may differ. `now` is one clock; clocks that differ or go back are left out.

A key is the whole name, after `joinPrefix` (which concatenates, so that two views can
name the same key); a value is a number, as `incr` needs it, and JSON is left out.
Calls with a TTL that is not positive throw before they do anything. TTLs are whole:
the memory adaptor also accepts fractions of a second, which Redis refuses.

### StoreClients, RateLimit, Sessions, Web

The clients use `ExpiringStore` and so get what both adaptors promise. A call of the
store is one step; any call may fail, before it took effect or after.

`hitAt` and `verdict` record when each request was counted and what it was told. The code
answers the length of the whole window as `retryAfterSec` (rate-limit.service.ts:60), where the
documentation says that it is the time until the window resets (website/docs/rate-limiting.md:161).
`LimitHolds` says what this wait is good for: after it the counter holds only hits that were made
later. It does not say that who waits is served, for others may have filled the next window.

A session is stored under the request that created it, which stands for its random id;
its data is the set of requests whose changes it holds. The browser presents the cookie of
the last response it received; responses arrive in any order. Overlapping requests of
one session lose changes and may save a session that another one destroyed: the
middleware loads before the handler and saves after it, without a version. `SessionsKept`
states these two as its exceptions, and nothing else is lost. A handler may call the session
functions in any number and order. What it sets after `destroySession()` is deleted with the
session, which `SetAfterDestroyIsKept` denies and a run shows. As Hono's `next()` fulfils
also after an error that was handled, sessions are saved after an error page.

### OutputsLedger, DevServer

A run of the plugin hooks is a process step by step: hooks, registration, sweep, write of
the ledger. `untracked` are the files of runs that failed or died before they recorded
them, or that another run's ledger overwrote. The look at a stale file (`Look`: is it there,
does it carry the marker) and its removal (`Remove`) are two steps with an `await` between them.
What the user writes in between is removed, and `byHand` leaves it out: nothing in the code
prevents that. Reads, removals and the write of the ledger may fail (`SweepFails`); the server
logs it and starts the application all the same (dev-server.lib.ts:161). The ledger is replaced
at once, by a rename.

The child of a run is named by the run that spawned it. `killProcess()` is three cases
(`KillResolves`, `KillWaits`, `KillHangs`). `child.killed` is true as soon as SIGTERM was sent,
so that the timer of the forced kill (dev-server.lib.ts:46, `ForceKill`) fires and does nothing,
and a second `killProcess()` of the same child resolves at once (:40). Restarts may overlap each other and
the shutdown: `loose` marks the runs that did, and a child of theirs may be left running;
it is the stated exception of `OneAppAtATime`. A child that died of a signal the server did
not send has no exit code, and no restart gets past it: `Deaf`, the exception of
`DevServerSettles`. Files of one run that trigger the watcher again are left out.

## 4 Runs

Bounds are the smallest at which the interesting interleavings exist, and are
named where they are constants. Every property of a passing run has a mutant in
`PROJECT.json`: a plausible bug in the code under which TLC finds it violated in
that same run.

**kernel** (`Kernel.cfg`): the lifecycle manager or the task runner. The two have no state in
common and do not call each other here; `MCKernel` runs either in one execution. The manager has
three entries, two callers, a guard on the second entry, and the hooks of the second and the third
entry lose their context before they call back. Three entries are the least for which a failure has something
to roll back below it and something unregistered above it; two callers are a
batch and a waiter, or a hook that calls back and an outsider. The runner has two tasks, two
requests and both context modes. Two tasks are one that is drained and one that arrives meanwhile,
or two callbacks of one request; two requests show that their registries are separate.
- `TypeOK`; `HooksInTurn` (once, and one at a time); `TeardownInOrder` (a resource never
  outlives one it was built on, nor its ready value); `NothingLeftRunning` (after a
  shutdown, and after a failed startup that nobody follows up).
- `CallersAnswered`: nobody waits for ever, also a hook that awaits `startupPending()`, which
  is the reason for the `startupContext` token; except a hook that lost its context.
- `ImplementsFairStack`: the manager implements `ResourceStack`, liveness included:
  once closed, the stack is emptied.
- `TaskTypeOK`, which includes that `activeTasks` is exactly what the runner accepted
  and has not finished with; `StoppedMeansIdle`, the drain is complete;
  `WindowCoversTasks`, from the end of the response to the end of the task the
  platform holds a pending promise, or its refusal was reported.
- `TasksSettle`: a callback runs or is reported as dropped, also when the handler
  threw; a stop ends, as the guards exclude the tasks that would wait for themselves, but for a
  task that joins a stop begun by others (`Entangled`).

**runtime** (`Servers.cfg`): two entries (one guarded), `createRuntime()` and one
getter, a listener and one more callback, which is of either phase.
- `ServersTypeOK`; `ShutdownInOrder`: servers and before callbacks, services, after
  callbacks. `UsableWhileNeeded`: features answer while services run or stop, a refusal
  harms nothing, no runtime is handed out that was disposed. `NoCallbackForgotten`, although
  the promise of a refused shutdown is dropped while others hold it.
- `UsesManagerSerially`: every step of the runtime is a step of the manager's
  `Next`, so that what is shown of `Spec` holds here, until a batch is overlapped.
  `ReturnsWhenAllRun` holds also then: a caller is told that startup is complete only when
  every lifecycle registered by then runs.
- `RuntimeSettles`: creation and shutdown, without overlaps (two loops that count
  `startedIndex` in opposite directions can go on for ever).

**runtime_overlap**: two free callbacks and `AfterPhaseOfReadyRuntime`: after callbacks of a
ready runtime run when its services have stopped, without the exception for overlaps. Violated;
see the findings.

**tasks_closed**: one request, and no late service that fails to start
(`ShutdownSpec`). Violated.

**requests** (`Requests.cfg`): two requests, the second of which the handler of the first
may send; eleven layers of a root router and a mounted one, so that bootstrap, injection and
security are registered twice, with one user middleware in each; modes are chosen per
request, since runtimes of either mode share a process.
- `RequestsTypeOK`, which includes that no synchronous frame survives a turn;
  `ContextIsOwn`, also the options of a middleware after a failure below it;
  `StorageIsLive`; `HandlerIsGuarded`; `BodySurvives`; `ErrorsEndAtRoot`, for thrown Errors and
  error handlers that do not throw.

**shared** (`Shared.cfg`): what processes share, one of three in an execution, since they have no
state in common. The key-value stores: one key, values 1 and 2, TTLs 1 and 2, `MaxTime = 4`,
`MaxValue = 3`. One key is enough because a call touches one, and the two collections
and the clock treat each key apart; two TTLs are one that is renewed and one that is
not yet over; four units of time see an entry expire, be made again and expire. The event bus:
three calls, one of them `once()`, two channels, one message, one lost connection. Three calls are
two that share a SUBSCRIBE and one that comes when it has failed, or is for another channel. The
manifest: three processes, so that a stale lock has an owner and two processes that reclaim it at
the same time.
- `TwinsTypeOK`, which includes that no entry outlives the longest TTL;
  `BothImplementStore`; `TwinsAgree`, until a key is used at the instant of its expiry.
- `BusTypeOK`, which includes that `subscribing` has exactly the channels with a
  SUBSCRIBE in flight; `ResolvedHears`, across startup, failures and reconnection;
  `RejectedLeavesNoTrace`; `OnSettles`.
- `ManifestTypeOK`, which includes that a lock is left behind only by a crash or
  a failed removal; `OneAtWork`, mutual exclusion; `NothingLost`; `UpsertsEnd`, also
  behind a lock that was left, unless from some time on a stale lock is always there.

**eventbus_missed** (`EventBusMissed.cfg`): the bus alone and `WaitingMissesNothing`. Violated.

**manifest_stuck** (`ManifestStuck.cfg`): two processes and `EveryUpsertEnds`: every upsert ends,
whatever became of the holder of the lock. Violated.

**web** (`Web.cfg`): three interchangeable requests, limit and window of 1, TTLs of 1 and 2, the
session's being 2, `MaxTime = 2`. Three requests are one that is served, one that overlaps it and
one after both; a limit of 1 is reached by them in one window and again in the next; a session
of 2 lives on after a later request saved it anew. An execution has requests to limited routes or
to those with sessions (they share no key); a handler calls any session functions in any order.
`OneFailure`, a CONSTRAINT, bounds the failures of the store to one; the specification and the
theorems allow any. The `VIEW` hides what cannot matter any more: the store's last answer, which is
used within the step that gets it, and the data of a context that is not read again. Symmetry is
sound, as requests are never told apart and the properties are invariants.
- `WebTypeOK`; `SessionsKept`; `LimitHolds`: never more than the limit in the window of a
  counter that was not reset, nobody is denied unless as many were let through, or lost their
  answer, in the window before, and a window later the counter has forgotten him.

**session_renewed** (`SessionsRenewed.cfg`): two requests and `SetAfterDestroyIsKept`: a session
that a handler sets after it destroyed the old one is answered with a cookie. Violated.

**dev** (`DevServer.cfg`): the start and two restarts of one server and one build,
`MaxChanges = 2`, one generated file outside `.zelt`. Two restarts can overlap each other, or one
the shutdown; the build comes before, after or instead of the server, so that it finds
what a crash left.
- `DevTypeOK`; `NothingLeftBehind`: one application at a time, none after the shutdown, no
  generated file that a later run would not find, none removed that was just made, or that is the
  user's, unless he wrote it between the look and the removal.
- `DevServerSettles`: the start and every change are followed by a start of the application, also
  when the plugins fail, and a shutdown ends; unless there is for ever a child that was told to end
  and did not.

**dev_stuck** (`DevStuck.cfg`): one restart and `ShutdownEnds`. Violated.

`CHECK_DEADLOCK FALSE` is set where the system may come to rest: all tasks done,
all calls settled, all requests answered, all upserts ended, the server down.

## 5 Fairness

- Promise reactions, timers and `.finally()` run: the event loop is fair (weak
  fairness of `Resume`, `BatchFinally`, `React`, `TimerFires`, ...).
- Hooks, callbacks, handlers and tasks of the application settle, one way or the
  other. The framework cannot enforce it and imposes no timeout; without it every
  `await` of theirs is a hang. No outcome is assumed: fulfilment and rejection are
  disjuncts under one fairness condition. `StartupHook` has strong fairness: a hook that
  awaits one refused shutdown after the other for ever is excluded.
- Servers: a socket is bound or is not, and connections end.
- Nobody has to call `shutdown()`, `get()`, `run()`, `on()` or `listen()`: callers are
  not fair, nor are requests, which have no liveness property.
- Event bus: the server answers and the socket closes; a lost connection is
  reopened, which ioredis tries for ever by default, or the client is closed.
- Manifest lock: processes run or crash and time passes. That the removal of a stale lock
  succeeds in the end is not assumed: `UpsertsEnd` excepts that it never does.
- Development server: timers fire and plugins settle. That a child ends when it gets SIGTERM is
  not assumed: `DevServerSettles` excepts that it never does.

## 6 Proofs

The theorems hold for every value of the constants. They assume what the modules say
of their constants and nothing else: the bound on entries is a natural number and guards belong to
entries (`LifecycleAssumption`); the boot is one of the callers and `listen()` registers one
of the callbacks (`RuntimeAssumption`, `ListenAssumption`); the value for "nobody" is no
process, request or run (`NoOneAssumption`, `NobodyAssumption`, `DevAssumption`); a request runs
in one of the two modes (`ModeAssumption`) through a chain that starts with the bootstrap, has
request injection before all user code and routes, contains security and `@Authorized`, and ends
with its only handler (`ChainAssumption`); values, bounds and time are natural numbers, TTLs
and the limit are positive, and sessions and the counter are kept under keys (`KVAssumption`,
`BoundsAssumption`, `SessionAssumption`, `LimitAssumption`, `TimeAssumption`); `OnceCalls` are
calls (`BusAssumption`); builds are runs and the tool's files are files (`LedgerAssumption`).
TaskRunner assumes nothing.

**LifecycleProofs**, first part, about the manager alone. Of `ConcurrentSpec`: `TypeCorrect` and
`AnswerMeansRunning`. The inductive invariant `ConcurrentInv` is the type invariant,
`Bounds` (the indices stay inside the array) and `OpenInv`: until it is disposed, the
manager runs exactly the first `startedIndex` entries, is starting at most the next, and
stops nothing. `OpenInv` says nothing after the disposal, which is why it survives an
overlapping shutdown; and it is enough for `AnswerMeansRunning`, because the last thing
`startupPending()` does is to check that the manager is not disposed. Of `Spec`: `HooksRunOnce`,
`ReverseOrder`, `ReadyValuesOutliveHooks`, `NothingLeft`, `HooksOneAtATime`, and from them
`HooksCalledInTurn` and `TeardownOrdered`, which are the properties of the run. None is
inductive. `SerialInv` adds to `ConcurrentInv`: `ClosedInv`, once disposed there is at
most one stopper, it stands right above the running prefix, and nothing above it is
in motion; `HistoryInv`, what the counts of hook calls say of each status; `ReadyInv`,
a value is disposed only when its entry is down. The step that needs the runtime's
promise not to shut down during a batch is `ShutdownAfterStartup`: it finds `OpenInv`
with no batch and so establishes `ClosedInv`. `RefinesStack`: `Spec` implements
`Stack!Spec` under the mapping `running <- {i : status[i] is "up" or "stopping"}`,
`closed <- disposed`. Every step opens the top entry, releases it, closes the stack or
stutters; `SerialInv` gives that the entry in motion is the top.

Its second part is about the manager in its runtime, `ServersSpec`: `ServersTypes`,
`ShutdownOrdered`, `RuntimeUsable`, `CallbacksCalled`, `ManagerUsedSerially` and
`GetMeansRunning`. `ServersInv` has `ConcurrentInv` always, and `SerialInv` until a shutdown
overlaps a `get()` or the boot; every step of the runtime is a step of the manager with more
around it, so both carry over from the lemmas of the first part. What it adds says how the
parts hold together: which stopper runs follows from where the batch and the shutdown
are, and a batch has a caller that waits for it (`Linked`); the application is disposed
by the shutdown that stops the services and by no other (`DisposedInv`); the phase that calls
a set of callbacks lasts until all have settled (`CallbacksInv`); where the boot is tells
what its call of `startupPending()` and the ready promise can be (`BootInv`); and the server
closes before its callback settles (`ServerInv`).

**TaskProofs**, about `TaskSpec` in both modes: `TaskTypeCorrect`,
`DrainIsComplete`, `WindowIsContinuous`. `TaskInv` adds to the type invariant:
`DrainInv`, from the moment the hook closes the runner its snapshot covers
`activeTasks` (the order of the two assignments in `shutdown()` matters);
`CallbacksInv` and `HeldInv`, a callback that is not done is held by exactly one
request that is not done and that the platform waits for; `ExtendedInv`.

**BusProofs**: `ResolvedListens` and `RejectedIsGone`. The argument follows the name of a
channel: into `subscriptions` by a call that resolves, through the bulk SUBSCRIBE of
`startup()` (`BulkInv`: what is not confirmed is in it) or the reply to one of its own, into
what ioredis resubscribes (`confirmed`), and from there to the server of each new
connection (`WireInv`, which needs that the wire is empty without one). `CallsInv`: a call
that resolved is in `subscriptions`, so the listener drops no message of its channel.
`BusTypeCorrect` says of `subscribing` that it has exactly the channels with a SUBSCRIBE of `on()`
that has not settled. `PendingInv` adds that there is one such SUBSCRIBE for a channel, either
without a reply or with a reaction that has still to run, so that the one reaction removes
the entry and leaves no other behind. It needs `OrderInv`: the n-th reply on the wire is
for the n-th command, which ioredis relies on, too; its steps are counting arguments about
queues (`RepliesOfTail`, `RepliesOfAppended`).

**ManifestProofs**: `ManifestTypes`, `LockExcludes` and `EntriesSurvive`. `ManifestInv` adds: until
somebody is robbed, whoever is at work owns the lock (`HolderInv`), what a process
read is what the manifest holds until it renames (`SnapshotInv`), and what is written
stays (`WrittenInv`). Mutual exclusion alone does not give `NothingLost`; the snapshot
does.

**KVProofs**: `StoreTypes`, `StoreRefinement` and `StoreAgreement`. Each call has a lemma
that both adaptors derive what they leave of the key, and what they answer, in the
same way from what is there; `SeededIncrement` shows it of the script, which creates a
counter as 0 and increments it. Refinement then follows call by call, with
`live <- Current` and `live <- Present`; the collections stutter. The agreement is not
inductive: `AgreeInv` adds that, until a key is used at its expiry, both have the same
entries that have not expired at this instant (`Certain`), although at an expiry the
server still has one that the Map has not.

**WebProofs**, about `WebSpec`: `WebTypes`, `SessionsStay` and `LimitStays`. Of the sessions,
`SavedInv` and `DestroyedInv` extend the two properties to the requests that are still at work:
whoever has loaded a session since it was saved has what was saved in the data that he may save
himself (`Kept`), and whoever has loaded one since it was destroyed loaded what an overlapping
request had saved. The exceptions are about requests that met, so it needs that all requests
in flight know of each other (`OverlapsInv`) and that a cookie names a session only after its
creator is done (`JarInv`). Of the limiter, `CounterInv`: the counter counts at least those
let through in its window, and those served in it are at least as many as it counts, or as
the limit; `DeniedInv` keeps what a denial saw, as the window moves on.

**RequestsProofs**, about `RequestsSpec`, for any chain: `RequestsTypes`, `ContextsApart`,
`ScopesNest`, `HandlersGuarded`, `BodiesSurvive` and `ErrorsEnd`. The invariant follows a
request down its chain and up again: a layer has the frame of its request with the
storage of the innermost scope around it (`FramesInv`), layers above it await, those below are
fresh (`LayersInv`); a turn runs with the frame of its layer or, after an await, with what its
continuation carries, and leaves none behind (`TurnInv`). The options are those of the nearest
middleware above (`OptionsInv`), and what injection, security and authorization have done is
done for all layers below (`GuardsInv`). `BodyInv`: a raw request that was consumed had been
handed out, and then either it was a copy or the body had been cached whole. As steps of one
request leave what belongs to another alone (`Untouched`), each part is proved of the request
that steps, and `TurnInv` of both.

**DevProofs**: `DevTypes` and `NothingIsLeft`, of two halves. Every step of the server, of a
build or of the user is a `LedgerStep` or leaves the ledger alone (`LedgerSteps`), so what
holds of the ledger is proved without the server. `LedgerInv` adds: who has not overlapped
is alone (`AloneInv`), and a sweep that is alone has still to look at every file that the
ledger is about to forget, or to remove it (`SweepInv`), whose conclusion, when nothing is left,
is what allows `writeLedger()` to drop them; no run is about to remove what `byHand` holds
(`HandInv`). Of the server: a child that was told to end and
did not yet is awaited by a restart (`KilledInv`), and of two restarts at work both are
loose (`LooseInv`); so a run that is not loose and starts a child finds no other.

Only model-checked, on the instances above: liveness (`CallersAnswered`, the fairness half
of `ImplementsFairStack`, `RuntimeSettles`, `TasksSettle`, `OnSettles`, `UpsertsEnd`,
`DevServerSettles`). Liveness under fairness and `ENABLED` are out of TLAPS's reach, as are
induction over data and RECURSIVE operators; no module here declares one. TLC has
checked the inductive invariants on the instances of the runs before they were proved.

## 7 Findings

Each is a run that is expected to fail; its counterexample is the scenario.

1. **After callbacks may run while a service is starting** (`runtime_overlap`).
   `AppBootstrap.get()` starts services until the application is disposed, also
   while a shutdown awaits its before callbacks or the ready promise. If the hook of such a service is
   running when the manager shuts down, `startedIndex` does not count it: the
   shutdown returns, the after callbacks run, and the service stays up.
   `website/docs/feature-injection.md:109` promises cleanup "that must run after
   services have stopped".
2. **The task runner may stay open in a disposed runtime** (`tasks_closed`). Its
   `shutdown()` asks `assertCanShutdown()` before it sets `shutdownRequested`
   (task-runner.lib.ts:134-135). In sync mode a task that was accepted after the
   guards had passed, while a later service is being stopped, makes the hook
   throw; the manager goes on and nothing drains what the runner still accepts.
   The tests in task.service.test.ts expect such a runner to be closed.
3. **A message right behind the reply to its SUBSCRIBE is dropped**
   (`eventbus_missed`). The listener drops messages of channels that are not in
   `subscriptions`, and `on()` adds its channel only in the reaction to the promise.
   The comment at redis-event-bus.adaptor.ts:69 says that such a message is not
   missed. Once `on()` has resolved nothing is (`ResolvedMissesNothing`).

4. **What is set after `destroySession()` is lost** (`session_renewed`). The middleware asks
   `isDestroyed` first (session.middleware.ts:54): it deletes the session and the cookie, whatever
   was set since. `website/docs/authentication/sessions.md:413-414` recommends the two calls for a
   login: "Clear old session", "Creates new ID".
5. **An upsert may spin for ever on a stale lock** (`manifest_stuck`). A failing `rm` of a stale
   lock is swallowed, and the loop goes on without a pause and without a look at the deadline
   (graphql-codegen-manifest.lib.ts:102-104), although the comment at :78 says that the lock is
   reclaimed "instead of deadlocking every future upsert".
6. **A child that ignores SIGTERM is never killed** (`dev_stuck`). The timer of `killProcess()`
   acts only if `child.killed` is false, and SIGTERM has set it (dev-server.lib.ts:46, :57). The
   shutdown, or the restart, awaits the exit for ever; "Process did not exit gracefully, forcing
   kill..." (:47) is never reached.

The exceptions that properties state (`WaitsForItself`, `AwaitsItself`, `Entangled`, `Deaf`, `loose`,
`untracked`, overlapping sessions, a lock that was robbed, a write between the look and the removal of
a file) are behaviours of the code as well; each is needed: without it TLC finds the property
violated. What an exception excuses is not shown to be right; `PROJECT.json` says so at the hazard.

## 8 What is not modelled

Left out of the modules that exist: the content of errors and their aggregation;
names of tasks; prefixes and JSON in the key-value stores; the parsing and the order of
manifest entries; the contents of generated files; keys and headers of the rate limiter,
signatures of cookies; what services, handlers and hooks compute. A guard that refuses the
cleanup of a failed creation leaves services up with no handle to stop them
(create-app.lib.ts:168-169): `RuntimeSettles` only says that creation rejects.

Hazards against which the code has no protection have no property, and a note in `PROJECT.json`.
Two more have none: a scheduler whose `startup()` throws half way is not running, so
that the cron jobs it made are never stopped (scheduler.service.ts:24), and the late event of
a closed window removes the entry of the window that replaced it
(electron-window-registry.service.ts:22). Both follow from reading a dozen lines.

Most of the repository's lines are in components that have no state to go wrong: the
generators and extractors (`graphql/`, `hono-client/`, `openapi/`, `decorator-metadata/`,
`studio-extract/`), which turn source text into other text in one pass; the user interface;
lint rules, types, validators; the integration projects, examples and scripts. They are
checked better by their tests on samples of that text than by a model, which would have to
restate them, and so the mapped share of all lines is small. Also left out: the resolution of
config tokens (computed once, before anything runs), formatting, and the adapters that
translate requests from one shape to another.

## 9 Running

    tlc -config Kernel.cfg MCKernel              # any run of PROJECT.json
    tlapm LifecycleProofs.tla                    # any *Proofs module

On two cores `shared`, `dev` and `web` take two minutes each, every other run one minute at most.
`RequestsProofs` takes three minutes, `WebProofs` two, every other
proof module a minute at most; no leaf comes near the time limit of its prover.
