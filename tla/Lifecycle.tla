------------------------------ MODULE Lifecycle ------------------------------
(***************************************************************************)
(* internal/sandbox/lifecycle.go: Suspend and Resume, run by any number of *)
(* goroutines (HTTP handlers, the idle sweeper, the cron waker) against    *)
(* the objects of AgentSandbox.  A step is one API call or one mutex       *)
(* operation; between two steps of a call anything else may happen.        *)
(*                                                                         *)
(* Every API call may fail (the server, the network, a cancelled request   *)
(* context).  Resume runs under the user's wakeMu; Suspend takes no lock.  *)
(***************************************************************************)
EXTENDS AgentSandbox

CONSTANTS Calls,    \* goroutines that may be inside Suspend or Resume
          Unlocked  \* wakeMu of a user nobody is waking

ASSUME CallsAssumption == Unlocked \notin Calls

VARIABLES
    pc,        \* per call: the next step
    who,       \* per call: the user it is for
    target,    \* per call: SandboxName as it last resolved it
    captured,  \* per call: the next_run_at it read from the pod
    result,    \* per call: what it returned, a state or "error"
    wakeMu     \* per user: the call holding the wake mutex

callVars == <<pc, who, target, captured, result, wakeMu>>
vars     == <<kubeVars, callVars>>

ResumeSteps  == {"lock", "resolve", "wake", "reason", "poll1", "poll"}
SuspendSteps == {"look", "capture", "mark", "suspend", "confirm"}
Steps        == ResumeSteps \cup SuspendSteps \cup {"idle", "returned"}
Holding      == {"resolve", "wake", "reason", "poll1", "poll"}

TypeOK ==
    /\ KubeTypeOK
    /\ pc \in [Calls -> Steps]
    /\ who \in [Calls -> Users \cup {NoUser}]
    /\ target \in [Calls -> Sandboxes \cup {NoSandbox}]
    /\ captured \in [Calls -> CronTimes \cup {NoCron}]
    /\ result \in [Calls -> States \cup {"none", "error"}]
    /\ wakeMu \in [Users -> Calls \cup {Unlocked}]

CallsInit ==
    /\ pc = [c \in Calls |-> "idle"]
    /\ who = [c \in Calls |-> NoUser]
    /\ target = [c \in Calls |-> NoSandbox]
    /\ captured = [c \in Calls |-> NoCron]
    /\ result = [c \in Calls |-> "none"]
    /\ wakeMu = [u \in Users |-> Unlocked]

Init == KubeInit /\ CallsInit

-----------------------------------------------------------------------------
(* Entering and leaving a call. *)

Goto(c, step) ==
    /\ pc' = [pc EXCEPT ![c] = step]
    /\ UNCHANGED <<who, target, captured, result, wakeMu>>

Enter(c, u, step) ==
    /\ pc[c] = "idle"
    /\ pc' = [pc EXCEPT ![c] = step]
    /\ who' = [who EXCEPT ![c] = u]
    /\ UNCHANGED <<target, captured, result, wakeMu>>

\* Mutant: the early returns after Resolve leave the mutex locked.
UnlockAfterWait(c) ==
    wakeMu' = [u \in Users |-> IF wakeMu[u] = c /\ pc[c] # "resolve" THEN Unlocked ELSE wakeMu[u]]

\* The deferred mu.Unlock, on every way out of Resume.
Unlock(c) ==
    wakeMu' = [u \in Users |-> IF wakeMu[u] = c THEN Unlocked ELSE wakeMu[u]]

\* Return r to the caller.
Return(c, r) ==
    /\ pc' = [pc EXCEPT ![c] = "returned"]
    /\ result' = [result EXCEPT ![c] = r]
    /\ target' = [target EXCEPT ![c] = NoSandbox]
    /\ captured' = [captured EXCEPT ![c] = NoCron]
    /\ Unlock(c)
    /\ UNCHANGED who

Finish(c) ==
    /\ pc[c] = "returned"
    /\ pc' = [pc EXCEPT ![c] = "idle"]
    /\ who' = [who EXCEPT ![c] = NoUser]
    /\ result' = [result EXCEPT ![c] = "none"]
    /\ UNCHANGED <<kubeVars, target, captured, wakeMu>>

\* The steps at which a failed API call makes the whole call return an error.
Fallible == {"look", "suspend", "confirm", "resolve", "wake"}

ApiFailure(c) ==
    /\ pc[c] \in Fallible
    /\ Return(c, "error")
    /\ UNCHANGED kubeVars

-----------------------------------------------------------------------------
(* Resume. *)

StartResume(c, u) == Enter(c, u, "lock") /\ UNCHANGED kubeVars

\* Mutant: no mutual exclusion.
AlwaysFree(u) == TRUE

\* mu.Lock on the mutex LoadOrStore'd for the user.
MutexFree(u) == wakeMu[u] = Unlocked

Lock(c) ==
    /\ pc[c] = "lock"
    /\ MutexFree(who[c])
    /\ wakeMu' = [wakeMu EXCEPT ![who[c]] = c]
    /\ pc' = [pc EXCEPT ![c] = "resolve"]
    /\ UNCHANGED <<kubeVars, who, target, captured, result>>

\* Mutant: everything that is not Ready is patched.
WakeableUnlessReady(state) == state \in {"Suspended", "Suspending", "Waking"}

\* Mutant: a suspension under way is left to complete.
WakeableOnceSuspended(state) == state = "Suspended"

\* The states from which Resume flips the mode; from any other but Ready it
\* only waits.
Wakeable(state) == state \in {"Suspended", "Suspending"}

ResumeResolve(c) ==
    LET u == who[c] IN
    /\ pc[c] = "resolve"
    /\ UNCHANGED kubeVars
    /\ \/ /\ claim[u] \in {NoClaim, NoSandbox}
          /\ Return(c, "error")
       \/ /\ claim[u] \in Sandboxes
          /\ ResolvedState(u) = "Ready"
          /\ Return(c, "Ready")
       \/ /\ claim[u] \in Sandboxes
          /\ ResolvedState(u) # "Ready"
          /\ pc' = [pc EXCEPT ![c] = IF Wakeable(ResolvedState(u)) THEN "wake" ELSE "poll1"]
          /\ target' = [target EXCEPT ![c] = claim[u]]
          /\ UNCHANGED <<who, captured, result, wakeMu>>

WakePatch(c) ==
    /\ pc[c] = "wake"
    /\ Live(target[c])
    /\ setOperatingMode(target[c], "Running")
    /\ Goto(c, "reason")

\* The patch of a sandbox that is gone is a NotFound error.
PatchNotFound(c) ==
    /\ pc[c] \in {"wake", "suspend"}
    /\ ~Live(target[c])
    /\ Return(c, "error")
    /\ UNCHANGED kubeVars

\* last-wake-reason is recorded on the claim; failure is only logged.  Nothing
\* reads it back but the status API, so its value is not kept here.
RecordReason(c) ==
    /\ pc[c] = "reason"
    /\ Goto(c, "poll1")
    /\ UNCHANGED kubeVars

\* WaitReady polls at once and then every second.  Ready ends the wait, a
\* missing claim ends it with an error, any other answer keeps it going.
Poll(c) ==
    LET u == who[c] IN
    /\ pc[c] \in {"poll1", "poll"}
    /\ UNCHANGED kubeVars
    /\ \/ /\ ~UserExists(u)
          /\ Return(c, "error")
       \/ /\ UserExists(u) /\ ResolvedState(u) = "Ready"
          /\ Return(c, "Ready")
       \/ /\ pc[c] = "poll1"
          /\ UserExists(u) => ResolvedState(u) # "Ready"
          /\ Goto(c, "poll")

\* A poll that fails on the API is swallowed.
PollFails(c) ==
    /\ pc[c] = "poll1"
    /\ Goto(c, "poll")
    /\ UNCHANGED kubeVars

\* WakeTimeout runs out, or the caller's context is cancelled.
WaitTimeout(c) ==
    /\ pc[c] = "poll"
    /\ Return(c, "error")
    /\ UNCHANGED kubeVars

-----------------------------------------------------------------------------
(* Suspend. *)

StartSuspend(c, u) == Enter(c, u, "look") /\ UNCHANGED kubeVars

AlreadySuspended(state) == state \in {"Suspended", "Suspending"}

\* Only a Ready sandbox has its cron jobs read before it is suspended.
SuspendResolve(c) ==
    LET u == who[c] IN
    /\ pc[c] = "look"
    /\ UNCHANGED kubeVars
    /\ \/ /\ claim[u] \in {NoClaim, NoSandbox}
          /\ Return(c, "error")
       \/ /\ claim[u] \in Sandboxes
          /\ AlreadySuspended(ResolvedState(u))
          /\ Return(c, ResolvedState(u))
       \/ /\ claim[u] \in Sandboxes
          /\ ~AlreadySuspended(ResolvedState(u))
          /\ pc' = [pc EXCEPT ![c] = IF ResolvedState(u) = "Ready" THEN "capture" ELSE "suspend"]
          /\ target' = [target EXCEPT ![c] = claim[u]]
          /\ UNCHANGED <<who, captured, result, wakeMu>>

\* CaptureCronWake, first half: exec into the pod and read jobs.json; t is
\* the earliest next_run_at, NoCron when no enabled job has one.
CaptureRead(c, t) ==
    /\ pc[c] = "capture"
    /\ Live(target[c]) /\ sandbox[target[c]].pod \in {"Up", "Terminating"}
    /\ captured' = [captured EXCEPT ![c] = t]
    /\ pc' = [pc EXCEPT ![c] = "mark"]
    /\ UNCHANGED <<kubeVars, who, target, result, wakeMu>>

\* Second half: set the marker, or clear it when there is nothing to run.
CaptureWrite(c) ==
    /\ pc[c] = "mark"
    /\ UserExists(who[c])
    /\ SetNextCronWake(who[c], captured[c])
    /\ Goto(c, "suspend")

\* No exec runner, no pod, an unreadable document, a failed patch: the
\* sandbox is suspended anyway.
CaptureFails(c) ==
    /\ pc[c] \in {"capture", "mark"}
    /\ Goto(c, "suspend")
    /\ UNCHANGED kubeVars

SuspendPatch(c) ==
    /\ pc[c] = "suspend"
    /\ Live(target[c])
    /\ setOperatingMode(target[c], "Suspended")
    /\ Goto(c, "confirm")

\* The state handed back is resolved again after the patch.
SuspendConfirm(c) ==
    /\ pc[c] = "confirm"
    /\ Return(c, IF UserExists(who[c]) THEN ResolvedState(who[c]) ELSE "error")
    /\ UNCHANGED kubeVars

-----------------------------------------------------------------------------
ResumeStep(c) ==
    \/ Lock(c) \/ ResumeResolve(c) \/ WakePatch(c) \/ RecordReason(c)
    \/ Poll(c) \/ PollFails(c) \/ WaitTimeout(c)

SuspendStep(c) ==
    \/ SuspendResolve(c) \/ CaptureWrite(c) \/ CaptureFails(c)
    \/ \E t \in CronTimes \cup {NoCron} : CaptureRead(c, t)
    \/ SuspendPatch(c) \/ SuspendConfirm(c)

CallStep(c) == ResumeStep(c) \/ SuspendStep(c) \/ PatchNotFound(c) \/ ApiFailure(c)

Start(c) == \E u \in Users : StartResume(c, u) \/ StartSuspend(c, u)

Environment == (Cluster \/ Admin) /\ UNCHANGED callVars

\* The gateway process ends and starts again: calls and mutexes are gone, the
\* objects in the cluster stay as they are.
Restart ==
    /\ pc' = [c \in Calls |-> "idle"]
    /\ who' = [c \in Calls |-> NoUser]
    /\ target' = [c \in Calls |-> NoSandbox]
    /\ captured' = [c \in Calls |-> NoCron]
    /\ result' = [c \in Calls |-> "none"]
    /\ wakeMu' = [u \in Users |-> Unlocked]
    /\ UNCHANGED kubeVars

\* An instant read from a pod comes nearer like one stored on the claim.
Tick ==
    /\ nextCronWake' = [u \in Users |-> Nearer(nextCronWake[u])]
    /\ captured' = [c \in Calls |-> Nearer(captured[c])]
    /\ UNCHANGED <<claim, sandbox, pc, who, target, result, wakeMu>>

Next ==
    \/ \E c \in Calls : Start(c) \/ CallStep(c) \/ Finish(c)
    \/ Environment
    \/ Restart
    \/ Tick

Spec == Init /\ [][Next]_vars

(***************************************************************************)
(* Fairness.  A goroutine inside a call keeps running: an API call ends,   *)
(* with an answer or an error, and WakeTimeout runs out.  sync.Mutex hands *)
(* itself to a starving waiter, so Lock is strongly fair.  Neither a       *)
(* successful answer nor progress of the cluster is assumed.               *)
(***************************************************************************)
Fairness ==
    \A c \in Calls : /\ WF_vars(CallStep(c) /\ pc[c] # "lock")
                     /\ WF_vars(Finish(c))
                     /\ SF_vars(Lock(c))

FairSpec == Spec /\ Fairness

-----------------------------------------------------------------------------
(* Properties. *)

\* The wake mutex admits one Resume per user between Lock and return, so one
\* patch and one wait serve a thundering herd (lifecycle.go:29).
OneWaker ==
    \A c, d \in Calls :
        pc[c] \in Holding /\ pc[d] \in Holding /\ who[c] = who[d] => c = d

\* A resume patch always flips a suspended sandbox: whatever suspensions,
\* deletions and re-creations come between the read and the patch, no second
\* patch is sent for a wake that was already requested (lifecycle.go:29).
NoRedundantWake ==
    \A c \in Calls : pc[c] = "wake" /\ Live(target[c]) => sandbox[target[c]].mode = "Suspended"

\* When Resume starts to wait, the sandbox it waits for has been asked to run,
\* also when it was resolved in the middle of a suspension (design-decisions.md 13:
\* never wait for Suspended first).
WaitsForRunning ==
    [][\A c \in Calls :
         /\ pc[c] \in {"resolve", "wake"}
         /\ pc'[c] \in {"reason", "poll1"}
         /\ target'[c] \in Sandboxes /\ sandbox'[target'[c]].phase = "live"
         => sandbox'[target'[c]].mode = "Running"]_vars

\* The states a polling client sees move along the lifecycle: a suspension and
\* a wake are both visible as a transition (deriveState, resolve.go:114).
Reported == INSTANCE UserStates WITH st <- [u \in Users |-> UserState(u)]
StatesMoveAlongLifecycle == Reported!Spec

\* Every Suspend and every Resume returns to its caller, however many others
\* are waking the same user and whatever fails (the wake mutex is released on
\* every path, WaitReady is bounded).
CallsReturn == \A c \in Calls : pc[c] # "idle" ~> pc[c] = "idle"
=============================================================================
