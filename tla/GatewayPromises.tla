--------------------------- MODULE GatewayPromises ---------------------------
(***************************************************************************)
(* What the documentation and the comments promise of the gateway as a     *)
(* whole, stated over Gateway with three stop-watches that restrict        *)
(* nothing: how long a user has been quiet, how long ago CreateUser has    *)
(* started its clock, and how long the process has been up.                *)
(***************************************************************************)
EXTENDS Gateway

CONSTANT Watched   \* the stop-watches that run; the others stay at Cap

ASSUME WatchedAssumption == Watched \subseteq {"quiet", "created", "uptime"}

VARIABLES
    quiet,    \* per user: ticks since a proxied request was held or closed
    created,  \* per user: ticks since CreateUser touched the tracker
    uptime    \* ticks since the process started

watches == <<quiet, created, uptime>>
hvars   == <<vars, watches>>

Up(n) == IF n < Cap THEN n + 1 ELSE n

Zero(watch) == IF watch \in Watched THEN 0 ELSE Cap

HTypeOK ==
    /\ TypeOK
    /\ quiet \in [Users -> 0..Cap]
    /\ created \in [Users -> 0..Cap]
    /\ uptime \in 0..Cap

HInit ==
    /\ Init
    /\ quiet = [u \in Users |-> Cap]
    /\ created = [u \in Users |-> Cap]
    /\ uptime = Zero("uptime")

\* A request of u, authenticated, is held for the wake, or its handler returns.
Heard(u) ==
    \E r \in Requests :
      /\ user[r] = u
      /\ \/ at[r] = "auth" /\ at'[r] = "held"
         \/ at[r] = "open" /\ at'[r] # "open"

\* CreateUser goes on after a claim was created.
Starts(u) == \E h \in Handlers : user[h] = u /\ ApiCreated(h)

HWork ==
    /\ Work
    /\ quiet' = [u \in Users |-> IF Heard(u) THEN Zero("quiet") ELSE quiet[u]]
    /\ created' = [u \in Users |-> IF Starts(u) THEN Zero("created") ELSE created[u]]
    /\ UNCHANGED uptime

HRestart ==
    /\ Restart
    /\ uptime' = Zero("uptime")
    /\ UNCHANGED <<quiet, created>>

HTick ==
    /\ Tick
    /\ quiet' = [u \in Users |-> Up(quiet[u])]
    /\ created' = [u \in Users |-> Up(created[u])]
    /\ uptime' = Up(uptime)

HNext == HWork \/ HRestart \/ HTick

HSpec == HInit /\ [][HNext]_hvars

-----------------------------------------------------------------------------
\* The step in which a sweep decides to suspend u.
Decides(u) == pc[Sweeper] = "idle" /\ pc'[Sweeper] = "look" /\ who'[Sweeper] = u

\* No sweep decides against a user with a tracked request open, through
\* deletions and re-creations of the user (tracker.go:170).
SweepSparesOpenRequests ==
    [][\A u \in Users : Decides(u) =>
         \A r \in Requests : at[r] = "open" /\ user[r] = u => ~handle[r].attached]_hvars

\* A restart forgives idleness: nobody is suspended by a sweep before a full
\* base window of uptime has passed (design-decisions.md 17).
RestartForgivesIdleness ==
    [][\A u \in Users : Decides(u) => uptime >= IdleTimeout]_hvars

\* Promised by docs/api.md:50: any proxied request resets the idle clock, so
\* one that is held for the wake keeps the sandbox it waits for.
RequestResetsClock ==
    [][\A u \in Users : Decides(u) => quiet[u] >= IdleTimeout]_hvars

\* Once CreateUser has started the clock of a re-created user, no entry its
\* deleted namesake left behind gets it suspended before a full base window
\* has passed (users.go:17-20, users.go:119-120).
CreatedStartsFresh ==
    [][\A u \in Users : Decides(u) => created[u] >= IdleTimeout]_hvars

-----------------------------------------------------------------------------
(***************************************************************************)
(* Fairness.  Goroutines keep running: a handler goes on to its next step  *)
(* (an open request may stay open for ever) and calls make progress as in  *)
(* Lifecycle.  Time passes, and the API server answers the sweeper again   *)
(* and again: the reads of its lists, the first Resolve and the patch of   *)
(* its suspensions succeed if they are tried for ever.                     *)
(***************************************************************************)
Running ==
    /\ \A r \in Requests : WF_vars(at[r] # "open" /\ RequestStep(r))
    /\ \A h \in Handlers : WF_vars(HandlerStep(h))
    /\ \A c \in Calls : /\ WF_vars(pc[c] # "lock" /\ LifecycleStep(c))
                        /\ SF_vars(pc[c] = "lock" /\ LifecycleStep(c))

Answered(step) ==
    /\ pc[Sweeper] = step
    /\ LifecycleStep(Sweeper)
    /\ result'[Sweeper] # "error"

Sweeping ==
    /\ WF_vars(Tick)
    /\ WF_vars(SweepStep)
    /\ \A u \in Users : SF_vars(SweepRead(u))
    /\ SF_vars(Answered("look"))
    /\ SF_vars(Answered("suspend"))

FairSpec == HSpec /\ Running /\ Sweeping

\* The point of the service: a user who stays away does not keep a Ready
\* sandbox, unless exempt (tracker.go:102).
Away(u) == ~exempt[u] /\ \A g \in Flows : user[g] # u

AwayIsSuspended ==
    \A u \in Users :
      <>[](Away(u) /\ uptime = Cap) => []<>(LC!UserState(u) # "Ready")
=============================================================================
