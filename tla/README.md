# TLA+ models of porto

This directory holds TLA+ models of the porto repository's source under
`src/`, the TLC configurations that check them, and `PROJECT.json`. That file
lists the components, runs, mutants, findings and hazards, and maps each
definition to the source lines it models.

## 1. Inventory

The source under `src/` is made of several Go files concatenated together.

| Part | Where | State | Operations | Concurrency / failure |
|---|---|---|---|---|
| **tasks.Scheduler** | `src/pkg/tasks/scheduler.go` 1-237 | `tasks []Task`, `running bool`, `quit chan bool` (capacity 1), `lock sync.RWMutex`, `dops.tickerInterval` | `NewScheduler`, `Add`, `Clear`, `Count`, `IsRunning`, `Start`, `Stop`, and the ticker goroutine (`runPending`, `getRunnableTasks`, `sort.Sort`) | Client goroutines race the ticker goroutine on `s.lock`. `Stop` sends on `quit` while holding the lock. Each due task gets its own `go task.Run()`. |
| **tasks.Task** | interface only; `task.go` is absent | next scheduled time, duration | `ShouldRun`, `NextScheduledTime`, `Duration`, `Run`, `Name` | `Run` runs in its own goroutine and reschedules the task. |
| **rpcclient.Client** | `scheduler.go` 238-460 | `cfg`, `conn`, `ctx`/`cancel` | `New`, `NewFromURL`, `newClient`, `dial`, `dialSetupOpts`, `Close`, `Conn`, `toErr` | A dial can fail or time out (`DialTimeout`). `Close` cancels the context. `toErr` turns Canceled/DeadlineExceeded into `ctx.Err()`. A stored token can be expired. |
| **discovery** | `src/unnamed/part_001` | `reg map[string]serviceInfo` | `New`, `Register`, `Find`, `ForEach` | The map has no lock. `Find` and `ForEach` walk it in Go's random map order. `ForEach` stops at the first error from its callback. |
| **roles identity resolver** | described in `spec.md`; only its tests are in `src/` (`scheduler.go` 461-1019) | immutable `IdentityMap` (TLS, JWT, DPoP) | `ApplicableForRequest/Context`, `IdentityFromRequest/Context` | Sources take precedence in the order TLS > DPoP > JWT > guest. The resolver never fails: every failure becomes the guest identity. |
| correlation ID handler | `src/unnamed/part_000` (tests only) | none | none | The tests say an ID from the client is cut to 8 characters, or generated if absent. |
| configloader fixture | `testdata/test_config.yaml` | data | none | none |

How the parts interact: the scheduler is a library. Client goroutines call
its interface, and the scheduler calls back into `Task` values from its
ticker goroutine. The rpcclient, discovery and the identity resolver do not
call each other in the source shown.

### What makes each part correct

* **Scheduler**
  * On each tick exactly the due tasks are launched, and a due task is
    never left behind by a tick that is taken.
  * A task removed by `Clear` is not run again.
  * `Stop` returns, and the ticker goroutine then exits.
  * `IsRunning` tells the truth.
  * No call blocks forever, whatever the interleaving of clients and ticks.
  * The interval that `Start` picks fits the tasks.
* **rpcclient**
  * A failed dial leaves no live context.
  * `Close` cancels the context.
  * `toErr` reports a cancellation as the context's error.
  * An expired token never produces a client.
* **discovery**
  * A key is registered at most once.
  * `Find` returns only a registered service that implements the interface, and succeeds exactly when one exists.
  * `ForEach` visits every implementer exactly once unless its callback fails.
* **identity resolver**
  * It is total: a request with a deadline is always resolved, never to an error or nil.
  * Source precedence is applied.
  * A failed check always degrades to guest.
  * A DPoP token is accepted only with a matching thumbprint.
  * The role mapper applies the default and the guest fallback.

## 2. Plan

The modules, in order of importance:

1. **StartInterval** (done). It is the pure interval computation of
   `Start`, an operator folded over the task durations, and `Scheduler`
   instances it.
2. **Scheduler** (done). It models the client goroutines, the ticker
   goroutine, `s.lock`, the `quit` channel, `ticker.C` and the Task `Run`
   goroutines.
3. **RPCClient** (done). It covers `newClient`, `dialSetupOpts`, `dial`,
   `Close` and `toErr`, with the client context and `cfg.Context` as state.
4. **IdentityResolverSpec / IdentityResolver** (done). The resolver itself
   is modelled from the spec (`spec_modelled`). The tests' mocks, maps,
   requests and assertions are translated from `scheduler.go`. The tiered
   resolver is shown to refine the abstract precedence contract.
5. **Discovery** (done). It covers `Register`, `Find` and `ForEach`, with
   map order as a nondeterministic choice.

Also done: liveness for the launch of due tasks, and the scheduler's
`Clear`-versus-launch race. Still open: a concurrent-caller variant of Discovery
(only if a concurrent caller appears in the source).

## 3. Modules and how they correspond to the code

### StartInterval (`scheduler.go` 159-173, 209-237)

* **State.** `tickerInterval` is the `WithTickerInterval` option.
  `durations` holds the `Duration()` of each task in `s.tasks`, in order.
* **Actions.** `Add` and `Clear` change the task list. `Init` is
  `NewScheduler` with the option as given.
* **Operators.** `ScanStep` is one iteration of Start's loop, including
  Go's truncating division (`GoDiv`). `ScannedInterval` folds it over the
  tasks (`FoldLeft`). `ChooseInterval` adds the option and the fallback
  from zero to the default.
* **Scaling.** `MCStartInterval` scales `DefaultTickerInterval` (1s) down
  to 1000ns. The algorithm only compares durations with the default and
  divides them by ten, so durations from 0 to 3000 reach every branch.
  The sub-10ns truncation stays at its real scale.

### Scheduler (`scheduler.go` 29-207)

* `tasks`, `running`, `quit` (the number of buffered values, with
  capacity `QuitCap` = 1) and `lock` mirror the struct.
* Every locked method whose critical section does not block is one atomic
  action:
  * `Add`, `Clear` and `Start` (in `Start`, the error branch is one
    disjunct and the successful start another);
  * the `running` check of `Stop`;
  * `GetRunnableTasks`, which sorts `s.tasks` in place and takes the
    runnable prefix.
* `Stop` is split at the send on `quit`, because it can block there while
  holding the lock. `Stop` takes the lock and checks `running`, and
  `StopSend` completes the send and releases the lock.
* The ticker goroutine is `loop`:
  * `LoopTick` receives from `ticker.C`.
  * `GetRunnableTasks` needs the lock.
  * `Launch` is one iteration of `runPending`, `go task.Run()`.
  * `LoopQuit` receives from `quit` and returns.
* `Tick` is the ticker. `ticker.C` has capacity 1 (`tickC`), so a tick
  that finds it full is dropped.
* Time is counted in ticks.
* **Task side.** `task.go` is not in the source, so the task is reduced
  to what the scheduler reads:
  * `next[t]` is its `NextScheduledTime`;
  * `ShouldRun(t)` means `next[t] <= now`, the convention the sort order
    in `getRunnableTasks` relies on;
  * `TaskRun(t)` is a launched `Run` goroutine that reschedules the task
    `Period[t]` ticks later.
* **Not actions.** `Count` and `getAllTasks` only read state. The
  unlocked read in `Count` is listed under hazards; `getAllTasks` has no
  caller.

### RPCClient (`scheduler.go` 285-450)

* **State.** `cfg` is the Config given to `New`. `parentCtx` is
  `cfg.Context`. `ctx` is `client.ctx`. `creds` and `token` are the
  transport and per-RPC credentials. `target` is the dial target. `conn` is
  `client.conn`. `pc` is where `newClient` is. `closes` lists the results
  of the `Close` calls.
* **Abstractions.** An endpoint is reduced to its scheme and whether it
  has a colon. A dial target is reduced to whether `:443` was appended.
  The stored token is reduced to "error", "valid" or "expired".
* **Actions.**
  * `NewClient` covers everything up to the dial: the endpoint check, the
    derived context, the TLS/token branch and the expired-token return.
  * `DialFails` and `DialSucceeds` are the two outcomes of `dial`. A
    blocking dial (DialTimeout set) succeeds only while the context is
    live; a failure cancels.
  * `Close` cancels and maps `conn.Close()` through `ToErr`. A second
    `conn.Close()` returns gRPC's `ErrClientConnClosing`.
  * `CancelParent` is the owner of `cfg.Context` cancelling it.

### IdentityResolverSpec and IdentityResolver (spec.md 4.2-4.5; tests `scheduler.go` 486-1019)

* **Source.** The resolver is not in `src/`, so its definitions are
  modelled from the spec and marked `spec_modelled`. The tests are in
  `src/` and are translated:
  * `ValidClaims` is `mockJWT.ParseToken`'s `claims.Valid(cfg)`.
  * `ObtainClaims` is `mockAccessToken.Claims` (only `pat.` tokens; nil,
    nil otherwise) in front of the JWT verifier.
  * The `IdentityMap`s, claims and requests of `MCIdentityResolver` come
    from the tests, and so does `TestCases`, the tests' assertions.
* **Abstract module.** `IdentityResolverSpec` resolves a request in one
  step to `FirstGrant`: the grant of the first source in TLS > DPoP > JWT
  that authenticates, else Guest. Only the collaborator-calling sources
  may be skipped, and only once the request's deadline has passed. It has
  weak fairness on `Resolve` once the deadline has passed, and on `Expire`
  for a request that has a deadline, so every request with a deadline is
  resolved.
* **Detailed module.** `IdentityResolver` walks the tiers one step at a
  time, following spec section 4.5:
  * `CheckTLS` handles the TLS tier.
  * `Skip` passes over a DPoP or JWT tier whose precondition fails.
  * `Call` blocks in the claims collaborator, and `Return` takes its
    result, which has degraded if the deadline passed.
  * `Expire` is the deadline passing.
* **Refinement.** The refinement mapping hides `stage` and `calling`.
  `Grant` is passed to the abstract module as an operator constant.
  `ImplementsIdentityResolverSpec` is the abstract `Spec`, checked as a
  PROPERTY, so it also checks termination.

### Discovery (`part_001`)

* **State.** `reg` is `d.reg`, mapping a key `<<server, TypeString>>` to
  the serviceInfo. `last` is the outcome of the last call, which the
  properties read.
* **Actions.**
  * `Register` is one action. The duplicate check is its error disjunct.
  * `Find` and `ForEach` check their argument kind: a pointer to an
    interface, or one of the three invalid kinds.
  * They then walk the keys in any order (`Orders`), which is Go's
    randomised map iteration.
  * `ForEach` takes as input the set of keys whose callback fails and
    stops at the first of them.
* **Constants.** `TypeOf`, `TypeString` and `Implements` stand for
  `reflect`.

### Runs

| Run | What it checks |
|---|---|
| `start_interval` (pass) | `TickNoCoarserThanShortestTask`: when a task is shorter than the default, the tick is between a tenth of the shortest task and the task itself. The one exception is a task under 10ns, which falls back to 1s. Inputs are all sequences of up to 3 durations from {0,5,20,60,500,900,1000,3000}, with the option 0 or 250. |
| `scheduler` (pass) | Two clients, each making 2 calls, with at most one `Stop` in total. Two tasks have periods 1 and 2 and start at tick 1 or 2, with `s.tasks` holding up to 2 entries, duplicates included. The clock runs to 3 ticks. `BatchIsExactlyTheDueTasks`: every `getRunnableTasks` returns exactly the due entries, as a multiset, whatever order `Add` left. `StopEndsTickerLoop`: once a value is on `quit`, the ticker goroutine exits. `DueTaskIsLaunched`: when the loop has a tick to take, every registered task that is due gets a `Run` goroutine launched, unless it is cleared or the loop exits first. |
| `scheduler_clear_race` (violation) | `LaunchesOnlyRegisteredTasks` fails: `Add`, `Start`, a tick, `getRunnableTasks` takes the task, `Clear` returns, and `runPending` still launches `task.Run()`. |
| `scheduler_two_stops` (violation) | With two `Stop` calls allowed, `StopReturnsAndReleasesLock` fails. |
| `scheduler_is_running` (violation) | `IsRunningReflectsLoop` fails right after the loop has taken the quit value. |
| `rpcclient` (pass) | Every config shape: no endpoint, or each of five schemes with and without a port; TLS or not; a token that fails to load, is valid or is expired; DialTimeout or not. `cfg.Context` may be cancelled at any point, and `Close` is called up to twice. `CloseReportsContextErrors`: `Close` returns nil, then `Canceled`. |
| `rpcclient_expired_token` (violation) | With an expired stored token, `NoLeakedContext` fails. |
| `rpcclient_unix_target` (violation) | `UnixTargetHasNoPort` fails: `unix:///path` is dialled as `/path:443`. |
| `identity_resolver` (pass) | One request with each of 112 credential shapes. The fixtures are the 6 `IdentityMap`s of the tests crossed with their 5 claim sets and nil mocks. The request may or may not carry a deadline, and a deadline may pass at any step. `ImplementsIdentityResolverSpec`: refinement of the precedence contract, and every request with a deadline is resolved. `TestAssertionsHold`: the role and `Applicable` assertions of the roles tests (not their error or claim assertions). |
| `identity_resolver_dpop_fallthrough` (violation) | `DPoPBindingEnforced` fails. A DPoP request with no proof, or a mismatched one, fails the DPoP tier; the JWT tier of `Test_All`'s map then grants `jwt_authenticated`. |
| `discovery` (pass) | Every sequence of calls over servers s1 and s2, services a1 and a2 (type A) and b (type B, which also implements J), with every argument kind, every map order and any set of failing callbacks. `FindReturnsAnImplementer`, `ForEachCallsEachImplementerOnce`. |
| `discovery_type_string_clash` (violation) | A and B have the same `String()`. `RegisterRejectsOnlyRegisteredTypes` fails: registering b after a1 on one server is rejected. |

Counterexample of the `scheduler_two_stops` run:

1. `Start`.
2. A tick; the loop takes it and goes on to wait for `s.lock`.
3. `Stop` #1 puts a value on `quit`.
4. `Stop` #2 takes the lock and blocks on the full `quit` channel.
5. The loop can never get the lock and so never drains `quit`.

### Findings

1. **Stop deadlock** (`scheduler.go:204`). Two `Stop` calls racing a single
   tick wedge the scheduler forever, and with it every later call.
2. **`running` is never cleared** (`scheduler.go:157`). After a `Stop`,
   `IsRunning` reports true and `Start` refuses to restart the scheduler.
3. **Context leak on an expired token** (`scheduler.go:356`). `newClient`
   returns the error without calling the `cancel` from line 334. The
   dial-failure path at 372 does call it.
4. **`:443` appended to unix socket paths** (`scheduler.go:401`).
   `removePrefix` strips `unix://` and `unixs://`, and `dial` then appends
   a TCP port to the path.
5. **DPoP binding bypass through the JWT tier** (spec gap, tests at
   `scheduler.go:815`). Section 8 of the spec says a mismatched thumbprint
   yields Guest. Sections 4.2 and 4.5 let the failed tier fall through to a
   JWT tier that accepts any Authorization value. The tests try the
   mismatch only with JWT disabled.
6. **A cleared task still runs** (`scheduler.go:131`). The batch is taken
   under `s.lock` and launched after it is released; a `Clear` that
   returns in between does not stop the deleted tasks' next run.
7. **`reflect.Type.String()` as registry key** (`part_001:42`). Two
   distinct types with the same `String()` collide, and the second one
   can never be registered.

### Bounds

* **Why they are enough.** The deadlock needs one tick, two `Stop`s and
  one `Start`. The sort property needs two tasks with different due ticks
  and all of their orders, which two tasks, periods 1 and 2, and three
  ticks give.
* **Why the passing run allows one `Stop`.** With two, the deadlock above
  is reachable, and that is exactly what the violation run shows. The
  passing run does not check `StopReturnsAndReleasesLock`, which one `Stop`
  satisfies trivially.
* **Deadlock check.** The scheduler cfgs set `CHECK_DEADLOCK FALSE`. Every
  behaviour of the bounded model ends once the clients have used up their
  calls and the clock has reached `MaxTime`. Progress is instead stated by
  the liveness properties, and those fail on any state where a client is
  stuck.
* **RPCClient.** It has no numeric state. The config set covers every
  branch of `newClient` and `dial`. Two `Close` calls reach the second
  `conn.Close()`.
* **IdentityResolver.** Requests share no mutable state (spec section
  4.5), so one request is enough. The fixtures are those of the tests, plus
  their cross-combinations. That is how the JWT-next-to-DPoP case arises
  that the tests never build.
* **Discovery.** Two services of one type give a true duplicate. Two
  servers let the same type register twice legitimately. The type that
  implements two interfaces lets `Find` and `ForEach` face implementers
  and non-implementers together.
* **Deadlock check.** The RPCClient and IdentityResolver cfgs set
  `CHECK_DEADLOCK FALSE`, because a failed, closed or resolved call
  really does nothing more.

### Fairness

* Goroutines that can proceed are eventually scheduled by the Go runtime.
  This gives weak fairness for `StopSend`, `LoopTick`,
  `GetRunnableTasks`, `Launch` and `TaskRun`.
* Go's `select` picks uniformly at random among ready cases. A value
  left in `quit` is therefore taken with probability 1, even while ticks
  keep the case intermittently disabled. This gives strong fairness for
  `LoopQuit`.
* Clients and the ticker get no fairness: a client need not call anything.
* **IdentityResolver.** Each request runs on its own goroutine, which
  gives weak fairness on its steps. A collaborator call returns at the
  latest when the request deadline propagated into it expires (spec
  section 4.5), which justifies weak fairness on `Return` only once the deadline has
  passed. A request need not have a deadline; when it has one, the clock
  eventually reaches it, hence weak fairness on `Expire`. A call without a
  deadline may block forever, so nothing is promised about it.

## 4. Not modelled, and why

* **Task internals.** The source does not contain them. Properties that
  depend on them, such as overlapping runs of one task, are listed as
  hazards without a property.
* **Logging, and durations measured in wall-clock time.** These are left
  out. The scheduler counts time in ticks, so a task's period relative to
  the chosen interval is not represented; the tick `Start` fixed going
  stale when shorter tasks are added later is listed as a hazard.
* **Concurrent Discovery callers.** The map has no lock, and nothing in
  the source calls it from two goroutines. The hazard is listed without a
  property.
* **rpcclient details.** Call options, keepalive parameters and the
  contents of `cfg.DialOptions` do not change the client's state machine.
* **Identity transport bindings.** Attaching the Identity to the context,
  and the diagnostic guest Subject that HTTP fills in and gRPC leaves empty
  (tests at 902 and 913), are not specified beyond an open question.
  DPoP proof freshness is delegated to the proof parser.
* **correlation handler.** Only its tests exist. `NewHandler`, `ID` and
  `WithID` are not in the source, and the spec does not describe them.
