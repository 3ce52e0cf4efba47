# A TLA+ model of the agent gateway

The gateway (`src/cmd/gateway`, `src/internal`) gives every user one agent in a
Kubernetes sandbox, suspends it when the user is idle and wakes it for a
request or a scheduled job. Its replica count is one: every hard question is
about goroutines of one process that share a few maps, and about objects in the
cluster that other parties change between any two API calls.

This directory holds the modules, the TLC instances, the proofs, and
`PROJECT.json`, which maps each definition to the lines it translates.

## 1. Inventory

| Component | State | Operations | Interacts through |
|---|---|---|---|
| state resolution `sandbox/resolve.go` | none: reads claim and sandbox on each call | Resolve, List, deriveState | Kubernetes API |
| lifecycle `sandbox/lifecycle.go`, `cronpeek.go` | `wakeMu`, a mutex per user | Suspend, Resume, WaitReady, SetClaimAnnotations, SetSuspendExempt, CaptureCronWake | API; exec into the pod; called by the proxy, the API handlers and both sweepers |
| provisioning `sandbox/provision.go` | the claim | EnsureUser, WaitAdopted, DeleteUser | API; called by the handlers |
| idle tracker `idle/tracker.go` | a map of entries under a mutex | Observe, Touch, Begin and its closure, Forget, snapshot | called by the proxy, the handlers, the suspender |
| idle suspender `idle/tracker.go` | none of its own | Run, sweep | List, tracker, Suspend |
| cron waker `idle/cronwaker.go` | none of its own; markers on the claim | Run, sweep | List, claim annotations, Resume, exec |
| proxy `proxy/proxy.go` | none; the session cookie in the browser | ServeHTTP, rewriteRedirect | Resolve, Resume, Begin, upstream |
| admin API `api/users.go` | none | create, get, list, suspend, resume, exempt, token, telegram, delete | all of the above |
| telegram `telegram/inject.go` | Secret, `.env` on the volume, exemption | SetToken, RemoveToken, HasToken | API, exec, Resume |
| auth `auth/auth.go` | the token's hash on the claim | MintToken, VerifyToken, TokenFromRequest | called by the proxy and the handlers |
| config, server | none / immutable | routing | - |
| benchmark `internal/bench`, `cmd/hermes-bench` | the warm pool's replica count; results of scenarios | Drain and restore, scenarios, budgets, percentiles | gateway's HTTP API, Kubernetes API |
| chart, manifests, scripts, cost calculator | - | - | - |

What is hard, and what makes each part correct:

* **Lifecycle.** Many requests wake one user at once, suspensions cross wakes,
  users are deleted and re-created underneath, and every API call can fail.
  One Resume per user at a time; no wake requested twice; Resume only waits for
  a sandbox that was asked to run; every call returns.
* **State resolution.** The status conditions lag behind the mode and the pod.
  The states a client polls must nevertheless move along the lifecycle.
* **Tracker.** Requests outlive their user's entry (deletion, re-creation), and
  instants may be zero. The in-flight counter is exact; idleness comes from
  time passing and nothing else.
* **Suspender.** It acts on a list and a snapshot. No decision against a user
  with a tracked request, nor before a full base window after a restart or a
  creation; but a user who stays away is suspended in the end.
* **Cron waker.** It acts on a list too, one Resume after the other, and has to
  protect what it wakes from the suspender.
* **Hold.** A held request waits in a queue of wakes.
* **Tokens and sessions.** Only the answer to a creation or a rotation has the
  token; creations, rotations and deletions share the claim without a lock. No
  token is stored that nobody knows of, unless a failure says so. A browser
  lives on a cookie and on redirects that must not lead it out of its subtree.
* **Benchmark.** It drains a pool that real signups use, and it can fail, be
  interrupted or killed anywhere. The pool gets its replicas back; exit code 0
  means a whole run within the budget, in which no cold signup was given a spare
  and no timed wake is on record as a job's.

`PROJECT.json` lists the hazards, each at its line, with the properties that
cover it or the reason why none does yet.

## 2. Modules

| Module | Models |
|---|---|
| `AgentSandbox` | claim and sandbox of each user, what the gateway reads (`deriveState`, `ResolvedState`) and writes, and the controller, the kubelet and the garbage collector as an environment |
| `UserStates` | abstract: the moves a client may see in the reported state |
| `Lifecycle` | Suspend and Resume by any number of goroutines; a step is an API call or a mutex operation |
| `WakeHold` | `Lifecycle` under a clock, with the wake mutex as a `sync.Mutex`: its queue, normal and starvation mode, newcomers that spin |
| `IdleTracker` | the tracker; each method is one step, since it runs under the tracker's mutex |
| `TrackerHistory` | two history counters over it, and what is claimed of conversations |
| `Gateway` | proxied requests, the admin API, the suspender and restarts, composed from `Lifecycle` and `IdleTracker` by INSTANCE: they share the cluster, the tracker and the mutexes |
| `GatewayPromises` | what documentation and comments promise of the whole; three stop-watches |
| `CronWaker` | `Gateway` with the waker as a further goroutine |
| `CronPromises` | what the cron design promises; three histories |
| `Telegram` | SetToken and RemoveToken over Secret, `.env` and exemption, write by write; the agent and its cluster as in `AgentSandbox` |
| `UserTokens` | CreateUser, RotateToken and DeleteUser by any number of admin handlers, over the token's hash on the claim |
| `Sessions` | a browser with several tabs before the proxy: credentials, session cookie, redirects, composed with `UserTokens` |
| `WarmPool` | the warm pool, its controller and signups (external), and the calls of `pool.go` |
| `BenchStats` | the sorting of samples, percentiles, the median tax, and `Evaluate` of the budget, as operators |
| `Bench` | `hermes-bench`: the scenarios with their clean-ups as one process over `WarmPool`, judged by `BenchStats` |
| `LifecycleProofs` | theorems about `Lifecycle`, its refinement of `UserStates`, and `WakeHold` |
| `IdleTrackerProofs` | about `IdleTracker` and `TrackerHistory` |
| `GatewayProofs`, `PromisesProofs`, `CronProofs` | about `Gateway`, `GatewayPromises`, `CronPromises` |
| `TelegramProofs`, `SessionsProofs`, `BenchProofs` | about the module of that name and those it uses |
| `MC...` | instances for TLC: symmetry sets, plans and limits of the benchmark |

How the state corresponds to the code:

* A goroutine inside Suspend or Resume is a member of `Calls`; `pc` is the API
  call or mutex operation it is about to do, `target` the `SandboxName` it
  resolved. In `Gateway` the goroutines are requests, API handlers, the sweeper
  and the waker; `at` says where a request or handler is.
* `sandbox[s]` has the operating mode (written by the gateway), the pod (moved
  by the environment) and both conditions, which `UpdateStatus` writes from
  what it sees, at any later time. Names are used once: `unborn`, `live`,
  `gone`.
* Every API call can fail in its own step (`ApiFailure`, `CaptureFails`,
  `PollFails`, `SweepListFails`, `WakerListFails`, `ApiDeleteFails`, `WakerSkip`,
  ...). A patch of a sandbox that has gone is `PatchNotFound`.
* `Resolver.List` is two things: one call lists the claims, then each sandbox is
  read (`resolve.go:148-162`). `SweepList` and `WakerList` take what is on the
  claims (exemption, grace, marker, sandbox name), `SweepRead` and `WakerRead` one
  sandbox each (`unread`, `names`), and any step of others may come in between. The
  waker reads the clock once, when its list is complete (`WakerClock`).
* In `WakeHold` `mu.Lock` is what the `sync` package documents: callers queue in
  order of arrival; in normal mode an Unlock wakes the first, and a newcomer may
  take the mutex before it; one that was woken in vain, after more than a
  millisecond, puts the mutex into starvation mode, in which it goes down the
  queue. A newcomer that spins keeps the Unlock from waking anybody.
* Instants become ages. `entry[u].age` is the time since `lastActivity`, up to
  `Cap`; `gap` the time between the last two activities; markers and graces are
  ticks from now. Comparisons of instants in the code are all differences
  against a window no larger than `Cap`, so nothing is lost at the cap.
* A tick may come between any two steps: no property of `Gateway` or
  `CronWaker` depends on how fast an API call is. `WakeHold` is the exception:
  it measures a duration, so there a step takes no time and only waiting does.
* In `UserTokens` a token is also its own hash, and drawn once. `step`, `who`,
  `tok` are the locals of a handler; `told` and `lost` are histories of what
  clients learnt. A request to the API server fails before or after it took
  effect, and the answer may find no client.
* In `Sessions` a path is a sequence of segments, a tab is `closed`, `sent` (on
  its way to the gateway) or `let in` (held, or open in the agent). The cookie is
  chosen when the request is let in and reaches the jar with its answer.
* In `Bench` `pc` is the call the running scenario is about to make; `Unwind` is
  what it has deferred. `cancelled` is the context after Ctrl-C. Samples are a
  few latencies on both sides of the limits; a percentile counts hundredths. A wake
  patches the mode and then, if it can, the reason, in the gateway's Resume
  (`Woken`) as in the cron waker (`CronWake`, `CronReason`): a lost or late patch
  leaves the reason of the wake before. `stale` are users of an earlier run.
* `Restart` empties what the process keeps in memory and leaves the cluster.

Definitions commented "Mutant:" are plausible bugs; each is substituted for the
definition after it to see that a property would notice.

## 3. Runs

Each run has a `.cfg` of its own. Deadlock is checked in all of them but `bench`,
where the process ends.

| Run | Shows |
|---|---|
| `lifecycle` | `OneWaker`, `NoRedundantWake`, `WaitsForRunning`, that `Lifecycle` implements `UserStates` under the mapping `st[u] = UserState(u)`, and the liveness property `CallsReturn`: two goroutines, a user with jobs who is deleted and created again, failing calls and restarts |
| `tracker` | `InflightExact`, `OneActivityIsNoConversation`, `IdleOnlyByWaiting`: two users, two requests |
| `gateway_sweep` | `SweepSparesOpenRequests`, `RestartForgivesIdleness`, `CreatedStartsFresh`: a request, an API handler, the sweeper |
| `gateway_away` | `AwayIsSuspended`, the liveness of the service |
| `wake_hold` | `HeldByQueue`: a caller is held for at most one timeout per caller, one more for a newcomer that overtakes the queue, and one for each that spins |
| `cron_grace` | `GraceShields`: a sweep that lists the claims after the waker's grant does not suspend the agent within the grace, whenever it reads the sandbox |
| `telegram` | `SetTokenInstalls`, `RemoveTokenCleans`: a call that succeeds without another crossing it leaves Secret, `.env` and exemption in agreement, whatever half-done attempts came before |
| `sessions` | `NobodyLockedOut`, `UncrossedTokenWorks`: what a client holds after creations, rotations and deletions crossed; `LetInStaysIn`, `RedirectsStayHome`: a browser let in by a link is not refused, and stays in its subtree |
| `bench` | `PoolRestored`, `DrainedIsRestored` (liveness), `DrainSparesResidents`: what the drain does to the pool and to others; `CleanPassIsCold`, `CleanPassIsFast`, `CleanPassIsWhole`, `CleanPassTimedWakes`: what exit code 0 is worth; `UsersGone` |
| `gateway_held_request`, `cron_lost`, `telegram_remove` | a statement of the documentation that the code does not keep, see section 5 |

Bounds and why they suffice. One user in all but `tracker`: users share nothing
but the sweepers' lists, and those only order reads and visits, or fail as a whole. Two goroutines are the
least that can race for a mutex or a sandbox; `wake_hold` has three, so that a
newcomer meets a holder and a queue, with one tick as the timeout and
`MaxSpins = 1`. The four ticks of the bound without spinners are attained: with
`Limit` one tick less TLC finds a counterexample. With one sandbox name a user that
is created again stays in Provisioning; what a call with a target from before
could do to the second sandbox is settled by the theorems, which hold for any
number of goroutines and sandboxes (`OneWaker`, `NoRedundantWake`,
`WaitsForRunning`). Two tokens tell the old one from the new. Windows of one tick against a cap of one (three in
`tracker`, where the two windows must differ) distinguish "younger than the
window" from "at least as old"; more ticks only add ages between. `Grace = 2`
lets a tick pass within a grace. `Asked` (what clients of the admin API ask for),
`Watched` and `Recorded` turn inputs and stop-watches off in runs whose
properties do not look at them; an unused stop-watch stays at its cap, where it
constrains nothing. In `cron_grace` the API only creates and resumes: agents are
suspended by the sweeper, and a deletion takes the only sandbox with it.

In `sessions` two handlers and two tabs are the least that can cross; three
tokens allow a rotation over a token that is still in a browser and a third in
flight. In `bench` three iterations give a first, a middle and a last one (the
last resume is the herd, the last warm signup skips the restock) and samples
whose median is not their maximum; a pool of one with one more box lets the
controller restock while a spare is on its way out; one other user signs up and
leaves, and an earlier run has left a user of a signup scenario and one of the resume
scenario (`Leftovers`). The seven plans take each scenario once, and access to the pool in its
three forms; two scenarios in one run occur where the first is skipped. The
latencies 1 and 4 lie on both sides of the median's limit 2.

Fairness. `DrainedIsRestored` assumes of the benchmark's process that it goes on
(weak fairness of its steps) and nothing of the controller or the other users. That
a step follows means that every call answers or fails. The calls to the gateway
and the waits have deadlines of their own (`pool.go:110-128`). The Kubernetes
calls of Drain have none: there the assumption is that the API server answers or
the connection breaks, or that somebody presses Ctrl-C, which cancels their context
and not the restore's. `CallsReturn` needs only that a goroutine inside a call keeps running
(weak fairness) and that `sync.Mutex` does not starve a waiter: it hands itself
over to one that waited a millisecond, so `Lock` is strongly fair. It assumes
nothing of the cluster, and no call to succeed: `WaitReady` ends at its
deadline. `AwayIsSuspended` assumes beyond that that time passes, that the
sweeper's ticker fires, and that the API server answers the sweeper again and
again (strong fairness of the steps that must succeed: reading the sandbox in the
list, `SweepRead`, and the two calls of Suspend). It is a property of
users who in the end stop sending requests while nobody restarts the gateway
for ever. An exec that never answers is outside the assumption, and listed as a
hazard.

## 4. Proofs

TLC checks small instances; these theorems hold for every value of the
constants. Every safety property of a passing run has one, invariants and action
properties alike, and so has the refinement of `UserStates`. `HoldInv`
and the invariants of `BenchProofs` were checked by TLC on the instances of the
runs before they were proved.

What is assumed of constants is in the modules that declare them. Users,
sandboxes and special values have distinct names (`NamesAssumption`,
`ObjectsAssumption`, `TokensAssumption`, `CallsAssumption`, `PoolAssumption`).
Windows and timeouts are numbers, and ages are counted at least as far as the
windows reach (`TrackerAssumption`, `WindowsAssumption`, `WakeTimeoutAssumption`).
Goroutines of different kinds differ (`GoroutinesAssumption`). Requests, the
callers of Resume and the boxes of the pool are finitely many, since they are
counted (`CallsAreFinite`). The benchmark's list names each scenario once, as
`main.go:84-108` builds it (`PlansAssumption`); its users are among those of the
cluster (`UsersAssumption`); latencies and limits are numbers, and the budget
knows the median and the maximum (`LatenciesAssumption`, `LimitsAssumption`).

**`LifecycleProofs`**: `TypeCorrectness`, `OneWakerAtATime`, `WakeRequestedOnce` and
`ResumeWaitsForRunning`, from `NamesAssumption` and `CallsAssumption` alone. The
inductive invariant `IInv` adds to types and `NoRedundantWake` that between
Lock and return a call owns the mutex of its user (`HoldsMutex`), and that a
sandbox named by a claim, or by the `target` of a call, belongs to that user
(`ClaimOwns`, `TargetOwned`). Both are needed: a redundant wake would take two
calls about to patch the same sandbox; they would be of the same user by
ownership, hence the same call by the mutex. Any other step that writes a mode
writes "Suspended", which cannot make a wake redundant.

`StatesFollowLifecycle` is the refinement: each step changes the reported states
as `UserStates` allows, or not at all. A step touches at most one claim or one
sandbox, and by `ClaimOwns` at most one user reports that sandbox, so nobody
else's state moves with it. Which moves there are rests on
`OneCondition`, that the conditions Ready and Suspended are never both true:
otherwise a patch of the mode could take an agent from Ready straight to
Suspended, or back.

`HeldWhileOthersWake` is the bound of `WakeHold`, from `WakeTimeoutAssumption`,
`MaxSpinsAssumption` and `CallsAreFinite` besides: a caller is held for at most one
timeout per goroutine, one for a newcomer that overtakes the queue, and one for
each spinning newcomer that took the mutex ahead of it (`spun`). The bound on a
caller is not inductive; what is, is an account of the queue. For the call at
place `i` of a user's queue, four things are together within the limit: the time
it has been held, what is left of the holder's turn (`Owed`), `i` whole turns, and the turn of a
newcomer that may still overtake (`Credit`), unless it has not been held at all
(`QueueBound`); for the holder it is its time and the rest of its turn
(`ClockInv`). Waiting moves a tick from `Owed` to everybody's time. An Unlock that
wakes the first, and that a newcomer makes use of, spends `Credit`; it does not
come back, as the woken caller fails in the same instant and starts starvation
mode. Handing over spends one whole turn, and a spinner's turn raises the limit.
Normal mode returns only when the queue is empty or the one that takes the mutex
has not been held for a tick; nobody behind it has then been held longer (`Sorted`), and the account of each starts afresh. It takes that the queue holds
waiting calls of its user, each once (`InQueue`), so that it is never longer than there are
goroutines, that whoever has the mutex is at work (`InUse`), that no time
passes between a wake-up and the attempt (`WakesOne`), and that an Unlock that
woke nobody was seen by a spinner (`SpinRoom`).

**`IdleTrackerProofs`**: `TypeCorrectness`, `CounterIsExact` and `IdlenessIsWaiting`
from `TrackerAssumption`. `IInv` adds `Tidy`: an entry out of the map is blank
and a handle is closed or some user's. The counter argument is that Begin and
Done change the set of attached handles and the counter by the same one, and
that Forget detaches every handle in the step that drops the entry.
`ConversationsTakeTwo` adds `Booked`, which ties the history to the entry: it is
inactive until the first activity, and its gap stays at the cap until the
second. A gap at the cap is longer than the active window.

**`GatewayProofs`**: `GatewayImplementsLifecycle` and `GatewayImplementsTracker`,
from `GoroutinesAssumption` and `WindowsAssumption`. Every step of the composed
process is a step, or a stutter, of either component, so what is proved of them
holds of the process. It takes `FlowInv`: a goroutine that has left "idle" has a
user. The module also carries the invariants the next two rest on: the counter of an
entry is exact (`TrackerInv`, the argument of `IdleTrackerProofs` for the names of
the composition), an open request holds its user's handle (`HandleInv`), only
the sweeper's decision puts the sweeper into Suspend (`OnlySweepsDecide`), and
the whole state keeps its types (`ProcessInv`, with `KnowsUser`: only a call that
has a user can resolve one).

**`PromisesProofs`**: `SweepsSpareOpenRequests`, `RestartsForgive`,
`CreationsStartFresh` and `GatewayTypes`. An attached open request is counted, so the entry of its
user is not idle. No entry is older than the process or than its user's last
CreateUser (`YoungEntries`): a tick ages all three alike, and every other step
that touches an entry drops it or makes it fresh. The two in the middle suppose
that the active window, if in use, is not shorter than the base window, as the
charts and the comment ("extended window", `tracker.go:113`) have it. With a
shorter one a conversation shortens the window, and they do not hold.

**`CronProofs`**: `GraceHolds` (GraceShields), from `GoroutinesAssumption`. The ticks left of a grace and
the ticks since it was granted add up to the whole of it, on the claim
(`GraceOnClaim`) and in the sweeper's list of claims (`GraceInList`); a claim that is
created again has no grant (`NoClaimNoGrant`). When the sweeper reads the sandbox
plays no part. A list of claims from before the grant has no such sum; the
property excepts it, and section 5 says what may come of it. `CronTypesHold` rests on the same
invariant where the waker grants what its sweep has left of the grace.

**`TelegramProofs`**: `TypeCorrectness`, `TokenInstalled` (SetToken) and
`TokenRemoved` (RemoveToken) from `NamesAssumption` and `TokensAssumption`, for
any number of users with jobs crossing each other's. `IInv` says that a call
nothing has crossed is the only one of its user (`NoneCrosses`) and still works
for the agent it began with (`SameAgent`), so what it wrote is still there:
its Secret (`SecretKept`) and, step by step of the script, its files
(`FilesKept`). Another user's job cannot touch them because every job works in
a sandbox its own user owns (`BoxOwned`, which needs `ClaimOwns`).

**`SessionsProofs`**: `EveryTokenHasAnOwner` (NobodyLockedOut), `TokensThatWork`
(UncrossedTokenWorks) and `RedirectsLeadHome` (RedirectsStayHome) from
`TokensAssumption`, for any number of users, handlers, tokens and tabs. The
first rests on `TInv`: a handler at work has a user and a token, so whichever way
it leaves, its token is told, lost visibly, or was never stored. The second adds
that tokens are `Fresh` (no two handlers hold the same one) and that the claim
holds the token of a handler on its way to the answer until somebody else
changes it (`Steady`). The third needs no invariant of the state but the lemmas
`RedirectIsHome` and `RedirectIsNoDeadEnd` about `RewriteRedirect`.
`BrowserStaysIn` (LetInStaysIn) joins the two sides. A user counts as let in only
while the jar holds the token of the claim (`HasCookie`). A new token on the
claim ends that standing, and a tab let in before cannot hold it already, since
what a handler is about to write is on no claim and in no tab (`Unseen`,
`Admitted`). An answer to a tab that was let in under the present token brings
that token as its cookie, or finds it in the jar (`Admitted`). `SessionTypes`
supposes that there is a user at all.

**`BenchProofs`**: `PoolGetsReplicasBack` (PoolRestored) for any plans, iterations,
pools and users. `PInv` says which steps belong to the cold scenario (`Flow`) and
that while it holds the pool `saved` is what the pool had, and otherwise the
pool has it (`Kept`); every way out of a held pool leads through the restore.
`PercentileIsBetweenRanks` bounds the percentile of any sorted samples by the two
samples around its rank, which is what a limit on it is worth.

The other theorems start from `RunInv`: where a run can be (`Control`), what the
results look like there (`Results`: samples sorted, at most one an iteration, none
before a scenario begins), the types of the rest, and that exit code 0 means the end of an
uninterrupted run within its budget (`Verdict`).

* `CleanPassSamples` (CleanPassIsFast): a median within the limit bounds the lower
  of the two ranks it lies between, and with it every sample below, which are at
  least half.
* `CleanPassRunsAll` (CleanPassIsWhole): `Traced` follows a failure from where it
  happens to the verdict, which is several calls later. A patch of the pool that
  failed shows in the result of the cold scenario, as a failure or an
  error event, and nothing clears either.
* `CleanPassWakes` (CleanPassTimedWakes): a sample may be taken of an agent that a
  job's waker has woken, and its record may say so. `Timed` says that such a sample
  is an error event already, or that the question is still to come and the record
  still says "cron": the agent is awake until then, so that nobody wakes it and
  leaves another reason. A record that does not say so is a matter of section 5.
* `CleanPassCold` (CleanPassIsCold): a cold signup that is given a spare is an error
  event in the same step, whether it was answered or failed (`SpoiltAtOnce`), and
  nothing clears it (`Spoilt`, `BadStays`).
* `NoUserLeft` (UsersGone): there is no user but that of the running scenario, and
  only at steps from which the deletion lies ahead, and those of an earlier run
  that no scenario has come to (`Homes`).
* `DrainTakesSparesOnly` (DrainSparesResidents): nobody lives in a spare, and who
  was there when the drain began lives in no box that was listed or is ending
  (`Residents`). For the latter to hold when it begins, no box ends before it
  (`Undrained`): the controller has no reason to until the pool is scaled down.

Only model-checked: `CallsReturn`, `AwayIsSuspended` and `DrainedIsRestored`, the
liveness properties. They rest on fairness, and ENABLED is out of the prover's reach. The three
statements of section 5 are false, and have a counterexample instead. The
theorems of `Lifecycle` and `IdleTracker` are about those modules; that they hold
of the composed process follows from the two refinements of `GatewayProofs`, but the prover
cannot cite a theorem through INSTANCE, so the lemmas needed there are
proved again for the names of the composition.

## 5. Where documentation and code differ

Each of the first three is a run whose single property is the documented
statement; TLC's trace is the scenario.

1. `gateway_held_request`. Begin runs after Resume has returned. While the
   request is held the entry keeps the age from before the suspension, and a
   sweep that lists the agent in the moment it is Ready suspends it under the
   request (`docs/api.md:50`: any proxied request resets the clock).
2. `cron_lost`. The waker removes the marker in the patch before Resume. A
   restart or a failed Resume in between leaves a suspended agent with neither
   marker nor wake (`docs/cron-wake-design.md:89`: late rather than never).
3. `telegram_remove`. RemoveToken skips `.env` and still succeeds when the agent
   is not Ready or its pod name cannot be read. The token stays on the volume,
   and the next wake starts the bot with it (`inject.go:99`).

Behaviours of the same kind that the model contains, each a few steps long and
confirmed with TLC while modelling, without a run of their own:

* Begin and the closure it returns each book an activity, so the start and end
  of one short request count as two activities close together, and the
  conversation window applies after an isolated request (`docs/api.md:50-52`
  says the base tail does).
* The wake mutex is outside the timeout and ignores the request's context: a
  caller behind another waits for both timeouts, and for a third when the first
  of the two calls again at the Unlock and takes the mutex before the caller it
  has woken. `HeldByQueue` has the bound for any number of callers; a stream of
  newcomers that spin has none (`docs/api.md:46-47`: held for at most 60 s;
  `main.go:128-129` sizes the drain window by that).
* The reason of a wake is a second patch whose failure is only logged
  (`lifecycle.go:113-120`). If the waker's fails, or comes late, the agent keeps the "connect" of
  the iteration before; the benchmark then takes a sample of an agent that was
  awake and may pass with exit code 0 (`scenario_resume.go:68-73`: a wake that was not
  "connect" is an error). `CleanPassTimedWakes` is about what the record says.
* A deletion that is made but answered with an error returns before Forget
  (`users.go:295-298`): the entry outlives its user, as after the sweep below.
* A request let in under an older token may be answered after the link with the
  new one was opened; its Set-Cookie then replaces the new cookie, and the
  browser is refused until the link is opened again (`proxy.go:86-101`).
* A creation whose claim is made but whose read-back fails answers 500, and the
  only copy of the token is gone; a second POST answers 200 without one. The
  note in that answer says to rotate (`users.go:113-118`).
* A spare that is adopted between the drain's List and its Delete is deleted by
  name with its new owner's agent in it (`pool.go:80-81`: never touches live
  users).
* Drain's patch to 0 that answers with an error, though it was made, returns no
  restore, and the pool stays empty (`scenario_new.go:97-98` has this in mind
  only for the calls after it). A benchmark started while the pool is drained
  saves 0 and restores 0.
* The warm scenario goes on after a failed creation without deleting the user
  there may be, and its deletions run on the context that Ctrl-C cancels, as do
  the cold one's (`benchmarks/README.md:62-63`: every scenario deletes its users
  even on failure or Ctrl-C).

* A request that passed the Ready check calls Begin between the sweeper's
  snapshot and the suspension's patch; its open socket does not block the
  suspension (`docs/api.md:48-49`).
* A sweep whose list precedes a deletion observes the user after Forget. The
  entry survives, and if a re-created user's agent is Ready before
  CreateUser's Touch, or CreateUser fails before it, the next sweep suspends
  it (`users.go:17-20`). From the Touch on, `CreatedStartsFresh` holds.
* The sweeper compares the grace of its list of claims (`tracker.go:152-153`), and
  reads the sandboxes after that list (`resolve.go:148-162`). If the waker grants and
  wakes in between, the sweep has no grace, finds the agent Ready, and suspends
  it within its grace, though the grace went on the claim first so that it could not
  (`cronwaker.go:83-84`). The same comes of an agent suspended and woken between list and
  visit. Both need a sweep that is slow between the two, as when it reads many
  sandboxes or suspends other users first. For lists of claims
  after the grant, `GraceShields` holds.
* A suspension writes its marker before the mode. A waker that lists the agent
  in between finds it Ready with a due marker, and clears it
  (`cronwaker.go:73-74`); it ends like `cron_lost`.

## 6. Not modelled, and why

In `Telegram`, Resume is reduced to what SetToken relies on (it comes back with an
agent it resolved as Ready, or fails), and the mode may be written at any time
by anyone; `Lifecycle` has the details. Which of two crossing calls wins is
promised nowhere, so the properties are about calls that no other job of their
user crosses. A script that outlives its stream is such a job: a retry that
does not wait for it may end with both tokens in `.env`.

In `Gateway` the outcome of authentication is a choice; `Sessions` has the
details and leaves out the wake. `Sessions` follows redirects that are absolute
paths: an external one leaves the gateway, a relative one is resolved by the
browser, and both pass through the proxy as they are.

In `WarmPool` the controller's report of ready spares lags without bound, and may
be what it was before the drain; a wait for the pool to be stocked can therefore
end at any time, and the model lets it. In `WakeHold` a caller spins only while `MaxSpins` allows; how
often one could in a row is up to the Go runtime.

In `Bench` `Exit` assumes `-check`; without it the exit code is 0 or 2 and says
nothing about latencies. A scenario runs its own number of iterations by
default; the model gives all the same. The tax on the median is computed, but no
plan of the run has both of its scenarios. Floating-point rounding of ranks is
left out.

Not modelled: hashing and constant-time comparison, the admin token, headers
and credentials towards the agent, dial retries (no state, and safe to repeat
before a byte is sent), JSON and routing; the contents of `jobs.json` (a
suspension reads any instant of `CronTimes`, or fails); client-go wrappers (their
outcomes are choices); the benchmark's report, snapshot, flags, YAML and SSE
parsing, and series outside the summary; charts, scripts, the cost calculator.

## 7. Plan

1. Done: `AgentSandbox`, `UserStates`, `Lifecycle`, `WakeHold`, `IdleTracker`,
   `Gateway`, `CronWaker` with their promises, `Telegram`, `UserTokens`,
   `Sessions`, `WarmPool`, `BenchStats`, `Bench`; the proof modules.
2. Next: `EarliestCronRun` on the contents of `jobs.json`, in place of the choice
   of an instant in `Lifecycle`.
3. Theorems to come: `OneWaker` and `NoRedundantWake` stated for `CronWaker`, whose
   waker is one more caller of Resume; what the walk over `todo` promises of a
   user who is in it from a sweep's list to its visit.
4. Liveness of the waker (a due marker is taken in the end) on a composition
   smaller than `CronWaker`, where TLC needs more than its share of time.
