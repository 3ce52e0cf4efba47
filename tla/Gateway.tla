------------------------------- MODULE Gateway -------------------------------
(***************************************************************************)
(* The gateway process: proxied requests (internal/proxy/proxy.go), the    *)
(* admin API (internal/api/users.go) and the idle sweeper                  *)
(* (internal/idle/tracker.go), goroutines that share the idle tracker, the *)
(* wake mutexes and the objects in the cluster.  A goroutine inside        *)
(* Suspend or Resume takes the steps of Lifecycle; each tracker method is  *)
(* a step of IdleTracker.                                                  *)
(*                                                                         *)
(* Time is counted in ticks.  A tick may come between any two steps, so    *)
(* nothing here depends on how long an API call takes.                     *)
(***************************************************************************)
EXTENDS Integers, FiniteSets

CONSTANTS Users, Sandboxes, CronTimes, NoUser, NoClaim, NoSandbox, NoCron, Unlocked,
          Requests,     \* goroutines serving proxied requests
          Handlers,     \* goroutines serving the admin API
          Sweeper,      \* the idle suspender's goroutine
          Waker,        \* the cron waker's goroutine (module CronWaker)
          IdleTimeout, ActiveTimeout, Cap,
          Grace,        \* cron grace, in ticks
          SuspendTelegramUsers,
          Asked     \* what clients of the admin API ask for

Calls == Requests \cup Handlers \cup {Sweeper, Waker}

ASSUME GoroutinesAssumption ==
    /\ Requests \cap Handlers = {}
    /\ {Sweeper, Waker} \cap (Requests \cup Handlers) = {}
    /\ Sweeper # Waker
    /\ Grace \in Nat
    /\ SuspendTelegramUsers \in BOOLEAN
    /\ Asked \subseteq {"create", "delete", "suspend", "resume", "exempt", "unexempt"}

\* AgentSandbox's NamesAssumption, on the constants it takes from here.
ASSUME ObjectsAssumption ==
    /\ {NoClaim, NoSandbox} \cap Sandboxes = {}
    /\ NoClaim # NoSandbox
    /\ NoCron \notin CronTimes
    /\ CronTimes \subseteq Nat
    /\ \A t \in CronTimes : t > 0 => t - 1 \in CronTimes

\* IdleTracker's.
ASSUME WindowsAssumption ==
    /\ NoUser \notin Users
    /\ IsFiniteSet(Requests)
    /\ IdleTimeout \in Nat \ {0}
    /\ ActiveTimeout \in Nat
    /\ Cap \in Nat
    /\ Cap >= IdleTimeout /\ Cap > ActiveTimeout

VARIABLES
    claim, sandbox, nextCronWake,                  \* AgentSandbox
    pc, who, target, captured, result, wakeMu,     \* Lifecycle
    entry, handle,                                 \* IdleTracker
    exempt,     \* per user: the claim's suspend-exempt annotation
    cronGrace,  \* per user: ticks left until the claim's cron-grace-until
    at,         \* per request and handler: where it is
    user,       \* per request and handler: the user in its path
    todo,       \* users of the sweeper's list it has yet to visit
    listed,     \* per user: ticks left until the grace instant the sweeper listed
    unread      \* per user: the sandbox the list has yet to read, or NoSandbox

kubeVars    == <<claim, sandbox, nextCronWake>>
callVars    == <<pc, who, target, captured, result, wakeMu>>
trackerVars == <<entry, handle>>
claimVars   == <<exempt, cronGrace>>
flowVars    == <<at, user>>
sweepVars   == <<todo, listed, unread>>
vars        == <<kubeVars, callVars, trackerVars, claimVars, flowVars, sweepVars>>

LC == INSTANCE Lifecycle
TR == INSTANCE IdleTracker

Flows  == Requests \cup Handlers
Places == {"idle", "auth", "held", "forward", "open", "created", "deleted", "call"}

TypeOK ==
    /\ LC!TypeOK
    /\ TR!TypeOK
    /\ exempt \in [Users -> BOOLEAN]
    /\ cronGrace \in [Users -> 0..Grace]
    /\ at \in [Flows -> Places]
    /\ user \in [Flows -> Users \cup {NoUser}]
    /\ todo \subseteq Users
    /\ listed \in [Users -> 0..Grace]
    /\ unread \in [Users -> Sandboxes \cup {NoSandbox}]

Init ==
    /\ LC!Init
    /\ TR!Init
    /\ exempt = [u \in Users |-> FALSE]
    /\ cronGrace = [u \in Users |-> 0]
    /\ at = [g \in Flows |-> "idle"]
    /\ user = [g \in Flows |-> NoUser]
    /\ todo = {}
    /\ listed = [u \in Users |-> 0]
    /\ unread = [u \in Users |-> NoSandbox]

GoTo(g, place) == at' = [at EXCEPT ![g] = place] /\ UNCHANGED user

Leave(g) ==
    /\ at' = [at EXCEPT ![g] = "idle"]
    /\ user' = [user EXCEPT ![g] = NoUser]

-----------------------------------------------------------------------------
(* A proxied request: ServeHTTP. *)

Arrive(r, u) ==
    /\ at[r] = "idle"
    /\ at' = [at EXCEPT ![r] = "auth"]
    /\ user' = [user EXCEPT ![r] = u]
    /\ UNCHANGED <<kubeVars, callVars, trackerVars, claimVars, sweepVars>>

\* A bad path or token, an unknown user, a failed Resolve: 404, 401, 500.
Reject(r) ==
    /\ at[r] = "auth"
    /\ Leave(r)
    /\ UNCHANGED <<kubeVars, callVars, trackerVars, claimVars, sweepVars>>

\* An authenticated request goes on if the agent is Ready and is held while
\* Resume wakes it otherwise.
NeedsWake(u) == LC!ResolvedState(u) # "Ready"

PassReady(r) ==
    /\ at[r] = "auth"
    /\ LC!UserExists(user[r])
    /\ ~NeedsWake(user[r])
    /\ GoTo(r, "forward")
    /\ UNCHANGED <<kubeVars, callVars, trackerVars, claimVars, sweepVars>>

Hold(r) ==
    /\ at[r] = "auth"
    /\ LC!UserExists(user[r])
    /\ NeedsWake(user[r])
    /\ LC!StartResume(r, user[r])
    /\ GoTo(r, "held")
    /\ UNCHANGED <<trackerVars, claimVars, sweepVars>>

\* Resume is back: Ready sends the request on, anything else is a 503 with
\* Retry-After.
Woken(r) ==
    /\ at[r] = "held"
    /\ LC!Finish(r)
    /\ IF result[r] = "Ready" THEN GoTo(r, "forward") ELSE Leave(r)
    /\ UNCHANGED <<trackerVars, claimVars, sweepVars>>

\* The sandbox reports no service yet: 502.
NoEndpoint(r) ==
    /\ at[r] = "forward"
    /\ Leave(r)
    /\ UNCHANGED <<kubeVars, callVars, trackerVars, claimVars, sweepVars>>

\* The request is tracked from here until its handler returns; an upgraded
\* connection stays in its handler until the socket closes.
Forward(r) ==
    /\ at[r] = "forward"
    /\ TR!Begin(r, user[r])
    /\ GoTo(r, "open")
    /\ UNCHANGED <<kubeVars, callVars, claimVars, sweepVars>>

\* The upstream answered, could not be dialled after the retries, or one end
\* closed; the deferred done runs.
Close(r) ==
    /\ at[r] = "open"
    /\ TR!Done(r)
    /\ Leave(r)
    /\ UNCHANGED <<kubeVars, callVars, claimVars, sweepVars>>

RequestStep(r) ==
    \/ Reject(r) \/ PassReady(r) \/ Hold(r) \/ Woken(r)
    \/ NoEndpoint(r) \/ Forward(r) \/ Close(r)

-----------------------------------------------------------------------------
(* The admin API. *)

Take(h, u, place) ==
    /\ at[h] = "idle"
    /\ at' = [at EXCEPT ![h] = place]
    /\ user' = [user EXCEPT ![h] = u]

\* CreateUser, first half: EnsureUser creates the claim, with no annotation
\* but the token's.  A user that exists is answered without further effect.
ApiCreate(h, u) ==
    /\ Take(h, u, "created")
    /\ LC!CreateClaim(u)
    /\ exempt' = [exempt EXCEPT ![u] = FALSE]
    /\ cronGrace' = [cronGrace EXCEPT ![u] = 0]
    /\ UNCHANGED <<callVars, trackerVars, sweepVars>>

\* Mutant: an entry that is there is kept.
ApiCreatedKeepsEntry(h) ==
    /\ at[h] = "created"
    /\ TR!Observe(user[h])
    /\ Leave(h)
    /\ UNCHANGED <<kubeVars, callVars, claimVars, sweepVars>>

\* Second half: the new user's idle clock starts fresh.  The wait for
\* adoption that follows changes nothing.
ApiCreated(h) ==
    /\ at[h] = "created"
    /\ TR!Touch(user[h])
    /\ Leave(h)
    /\ UNCHANGED <<kubeVars, callVars, claimVars, sweepVars>>

\* EnsureUser resolves the user it has created; if that fails the handler
\* answers with an error and touches nothing.
ApiCreateFails(h) ==
    /\ at[h] = "created"
    /\ Leave(h)
    /\ UNCHANGED <<kubeVars, callVars, trackerVars, claimVars, sweepVars>>

ApiDelete(h, u) ==
    /\ Take(h, u, "deleted")
    /\ LC!DeleteClaim(u)
    /\ exempt' = [exempt EXCEPT ![u] = FALSE]
    /\ cronGrace' = [cronGrace EXCEPT ![u] = 0]
    /\ UNCHANGED <<callVars, trackerVars, sweepVars>>

ApiDeleted(h) ==
    /\ at[h] = "deleted"
    /\ TR!Forget(user[h])
    /\ Leave(h)
    /\ UNCHANGED <<kubeVars, callVars, claimVars, sweepVars>>

\* The delete is made but answered with an error, and the handler returns
\* before Forget.
ApiDeleteFails(h) ==
    /\ at[h] = "deleted"
    /\ Leave(h)
    /\ UNCHANGED <<kubeVars, callVars, trackerVars, claimVars, sweepVars>>

ApiSuspend(h, u) ==
    /\ Take(h, u, "call")
    /\ LC!StartSuspend(h, u)
    /\ UNCHANGED <<trackerVars, claimVars, sweepVars>>

\* No activity is booked: a resumed user keeps the clock it had.
ApiResume(h, u) ==
    /\ Take(h, u, "call")
    /\ LC!StartResume(h, u)
    /\ UNCHANGED <<trackerVars, claimVars, sweepVars>>

ApiAnswer(h) ==
    /\ at[h] = "call"
    /\ LC!Finish(h)
    /\ Leave(h)
    /\ UNCHANGED <<trackerVars, claimVars, sweepVars>>

\* PUT suspend-exempt, a patch of the claim; the reads around it change
\* nothing.
SetSuspendExempt(h, u, e) ==
    /\ at[h] = "idle"
    /\ LC!UserExists(u)
    /\ exempt' = [exempt EXCEPT ![u] = e]
    /\ UNCHANGED <<kubeVars, callVars, trackerVars, cronGrace, flowVars, sweepVars>>

HandlerStep(h) ==
    \/ ApiCreated(h) \/ ApiCreateFails(h) \/ ApiDeleted(h) \/ ApiDeleteFails(h)
    \/ ApiAnswer(h)

ApiCall ==
    \E h \in Handlers, u \in Users :
      \/ "create" \in Asked /\ ApiCreate(h, u)
      \/ "delete" \in Asked /\ ApiDelete(h, u)
      \/ "suspend" \in Asked /\ ApiSuspend(h, u)
      \/ "resume" \in Asked /\ ApiResume(h, u)
      \/ "exempt" \in Asked /\ SetSuspendExempt(h, u, TRUE)
      \/ "unexempt" \in Asked /\ SetSuspendExempt(h, u, FALSE)

-----------------------------------------------------------------------------
(* The idle sweeper. *)

\* What makes a claim of the list worth a look.  The other claims' sandboxes
\* are read as well, to no effect but the failure of the list.
Sweepable(u) ==
    /\ claim[u] \in Sandboxes
    /\ ~exempt[u] \/ SuspendTelegramUsers

\* List first reads all claims, with their exemption and their grace ...
SweepList ==
    /\ todo = {} /\ pc[Sweeper] = "idle"
    /\ todo' = {u \in Users : Sweepable(u)}
    /\ listed' = [u \in Users |-> IF Sweepable(u) THEN cronGrace[u] ELSE 0]
    /\ unread' = [u \in Users |-> IF Sweepable(u) THEN claim[u] ELSE NoSandbox]
    /\ UNCHANGED <<kubeVars, callVars, trackerVars, claimVars, flowVars>>

\* ... and then, one by one, the sandboxes they name.
SweepRead(u) ==
    /\ unread[u] # NoSandbox
    /\ unread' = [unread EXCEPT ![u] = NoSandbox]
    /\ IF LC!SandboxState(unread[u]) = "Ready"
       THEN UNCHANGED <<todo, listed>>
       ELSE todo' = todo \ {u} /\ listed' = [listed EXCEPT ![u] = 0]
    /\ UNCHANGED <<kubeVars, callVars, trackerVars, claimVars, flowVars>>

\* One sandbox that cannot be read fails the list, and the sweep is over.
SweepListFails ==
    /\ \E u \in Users : unread[u] # NoSandbox
    /\ todo' = {}
    /\ listed' = [u \in Users |-> 0]
    /\ unread' = [u \in Users |-> NoSandbox]
    /\ UNCHANGED <<kubeVars, callVars, trackerVars, claimVars, flowVars>>

\* Mutant: an instant that has passed, or none at all, still counts as grace.
AlwaysInGrace(u) == listed[u] >= 0

InGrace(u) == listed[u] > 0

Visited(u) ==
    /\ pc[Sweeper] = "idle"
    /\ u \in todo /\ \A v \in Users : unread[v] = NoSandbox
    /\ todo' = todo \ {u}
    /\ listed' = [listed EXCEPT ![u] = 0]
    /\ UNCHANGED unread

FirstSight(u) ==
    /\ Visited(u)
    /\ ~InGrace(u) /\ ~entry[u].seen
    /\ TR!Observe(u)
    /\ UNCHANGED <<kubeVars, callVars, claimVars, flowVars>>

Spare(u) ==
    /\ Visited(u)
    /\ InGrace(u) \/ (entry[u].seen /\ ~TR!Idle(entry[u]))
    /\ UNCHANGED <<kubeVars, callVars, trackerVars, claimVars, flowVars>>

SuspendIdle(u) ==
    /\ Visited(u)
    /\ ~InGrace(u) /\ entry[u].seen /\ TR!Idle(entry[u])
    /\ LC!StartSuspend(Sweeper, u)
    /\ UNCHANGED <<trackerVars, claimVars, flowVars>>

\* Suspend is back, its error only logged; the sweep goes on.
SweepOn ==
    /\ LC!Finish(Sweeper)
    /\ UNCHANGED <<trackerVars, claimVars, flowVars, sweepVars>>

SweepStep ==
    \/ SweepList \/ SweepListFails
    \/ \E u \in Users : SweepRead(u) \/ FirstSight(u) \/ Spare(u) \/ SuspendIdle(u)
    \/ SweepOn

-----------------------------------------------------------------------------
LifecycleStep(c) ==
    /\ LC!CallStep(c)
    /\ UNCHANGED <<trackerVars, claimVars, flowVars, sweepVars>>

Cluster ==
    /\ LC!Cluster
    /\ UNCHANGED <<callVars, trackerVars, claimVars, flowVars, sweepVars>>

\* The process ends and a new one starts: main keeps everything in memory.
Restart ==
    /\ LC!Restart
    /\ TR!Restart
    /\ at' = [g \in Flows |-> "idle"]
    /\ user' = [g \in Flows |-> NoUser]
    /\ todo' = {}
    /\ listed' = [u \in Users |-> 0]
    /\ unread' = [u \in Users |-> NoSandbox]
    /\ UNCHANGED claimVars

Down(n) == IF n > 0 THEN n - 1 ELSE 0

Tick ==
    /\ LC!Tick
    /\ TR!Tick
    /\ cronGrace' = [u \in Users |-> Down(cronGrace[u])]
    /\ listed' = [u \in Users |-> Down(listed[u])]
    /\ UNCHANGED <<exempt, flowVars, todo, unread>>

Work ==
    \/ \E r \in Requests : RequestStep(r) \/ \E u \in Users : Arrive(r, u)
    \/ \E h \in Handlers : HandlerStep(h)
    \/ ApiCall
    \/ SweepStep
    \/ \E c \in Calls : LifecycleStep(c)
    \/ Cluster

Next == Work \/ Restart \/ Tick

Spec == Init /\ [][Next]_vars
=============================================================================
