--------------------------- MODULE LifecycleProofs ---------------------------
(***************************************************************************)
(* Theorems about Lifecycle and WakeHold for any number of users,          *)
(* sandboxes and goroutines.  The invariant IInv says why one wake is      *)
(* requested once: a waking call holds its user's mutex, and a call's      *)
(* target belongs to the call's user, so two calls about to patch the same *)
(* sandbox are the same.  HoldInv adds up what a queued call still waits   *)
(* for: the rest of the holder's turn, one turn for each call ahead, and   *)
(* one for a newcomer while it may still overtake the queue.               *)
(***************************************************************************)
EXTENDS WakeHold, FiniteSetTheorems, TLAPS

\* Between Lock and return a call holds the mutex of its user.
HoldsMutex == \A c \in Calls : pc[c] \in Holding => wakeMu[who[c]] = c

\* A call that is not idle works for some user.
KnowsUser == \A c \in Calls : pc[c] # "idle" => who[c] \in Users

\* The steps that write to a sandbox have resolved one.
HasTarget == \A c \in Calls : pc[c] \in {"wake", "capture", "mark", "suspend"} => target[c] \in Sandboxes

\* A call that has returned has no target.
NoLateTarget == \A c \in Calls : pc[c] \in {"idle", "lock", "look", "resolve", "returned"} => target[c] = NoSandbox

\* An adopted sandbox belongs to the user whose claim names it, and a name
\* that was resolved once is never born again.
ClaimOwns ==
    \A u \in Users : claim[u] \in Sandboxes =>
        sandbox[claim[u]].phase # "unborn" /\ sandbox[claim[u]].owner = u

TargetOwned ==
    \A c \in Calls : target[c] \in Sandboxes =>
        sandbox[target[c]].phase # "unborn" /\ sandbox[target[c]].owner = who[c]

IInv == /\ TypeOK
        /\ HoldsMutex
        /\ KnowsUser
        /\ HasTarget
        /\ NoLateTarget
        /\ ClaimOwns
        /\ TargetOwned
        /\ NoRedundantWake
-----------------------------------------------------------------------------
(* Types. *)

\* Every answer of Resolve is a state.
LEMMA ResolvedStateType ==
    ASSUME TypeOK, NEW u \in Users, UserExists(u)
    PROVE  ResolvedState(u) \in States
<1>1. CASE claim[u] = NoSandbox
  BY <1>1 DEF ResolvedState, States
<1>2. CASE claim[u] \in Sandboxes /\ ~Live(claim[u])
  BY <1>2, NamesAssumption DEF ResolvedState, States
<1>3. CASE claim[u] \in Sandboxes /\ Live(claim[u])
  <2>1. deriveState(sandbox[claim[u]]) \in States
    BY DEF deriveState, States
  <2> QED BY <1>3, <2>1, NamesAssumption DEF ResolvedState
<1> QED BY <1>1, <1>2, <1>3 DEF TypeOK, KubeTypeOK, UserExists

\* What returning to the caller does to the types.
LEMMA ReturnType ==
    ASSUME TypeOK, NEW c \in Calls, NEW r \in States \cup {"error"},
           Return(c, r), UNCHANGED kubeVars
    PROVE  TypeOK'
BY CallsAssumption DEF TypeOK, KubeTypeOK, kubeVars, Return, Unlock, Steps

\* A write to one sandbox object keeps the types of the rest.
LEMMA SandboxType ==
    ASSUME TypeOK, NEW s \in Sandboxes, NEW o \in SandboxObject,
           sandbox' = [sandbox EXCEPT ![s] = o],
           UNCHANGED <<claim, nextCronWake, callVars>>
    PROVE  TypeOK'
BY DEF TypeOK, KubeTypeOK, callVars

\* The fields of a sandbox object keep their types one by one.
LEMMA ObjectType ==
    ASSUME NEW o \in SandboxObject
    PROVE  /\ \A m \in Modes : [o EXCEPT !.mode = m] \in SandboxObject
           /\ \A p \in {"Absent", "Starting", "Up", "Terminating"} : [o EXCEPT !.pod = p] \in SandboxObject
           /\ Conditions(o) \in SandboxObject
           /\ \A w \in Users \cup {NoUser} : [Unborn EXCEPT !.phase = "gone", !.owner = w] \in SandboxObject
           /\ \A u \in Users, w \in BOOLEAN :
                [Unborn EXCEPT !.phase = "live", !.owner = u,
                               !.pod = IF w THEN "Up" ELSE "Starting", !.ready = w] \in SandboxObject
BY DEF SandboxObject, Modes, Conditions, Unborn

LEMMA ClusterType == TypeOK /\ Cluster /\ UNCHANGED callVars => TypeOK'
<1> SUFFICES ASSUME TypeOK, Cluster, UNCHANGED callVars PROVE TypeOK'
  OBVIOUS
<1>a. ASSUME NEW s \in Sandboxes PROVE sandbox[s] \in SandboxObject
  BY DEF TypeOK, KubeTypeOK
<1>1. ASSUME NEW u \in Users, NEW s \in Sandboxes, Adopt(u, s) PROVE TypeOK'
  <2>1. PICK w \in BOOLEAN :
          sandbox' = [sandbox EXCEPT ![s] =
             [Unborn EXCEPT !.phase = "live", !.owner = u,
                            !.pod = IF w THEN "Up" ELSE "Starting", !.ready = w]]
    BY <1>1 DEF Adopt
  <2>2. sandbox' \in [Sandboxes -> SandboxObject]
    BY <2>1, <1>a, ObjectType DEF TypeOK, KubeTypeOK
  <2> QED BY <1>1, <2>2 DEF Adopt, TypeOK, KubeTypeOK, callVars
<1>2. ASSUME NEW s \in Sandboxes,
             StartPod(s) \/ PodUp(s) \/ StopPod(s) \/ PodGone(s) \/ LosePod(s)
      PROVE  TypeOK'
  <2>1. PICK p \in {"Absent", "Starting", "Up", "Terminating"} : SetPod(s, p)
    BY <1>2 DEF StartPod, PodUp, StopPod, PodGone, LosePod
  <2>2. sandbox' \in [Sandboxes -> SandboxObject]
    BY <2>1, <1>a, ObjectType DEF SetPod, TypeOK, KubeTypeOK
  <2> QED BY <2>1, <2>2 DEF SetPod, TypeOK, KubeTypeOK, callVars
<1>3. ASSUME NEW s \in Sandboxes, UpdateStatus(s) PROVE TypeOK'
  <2>1. Conditions(sandbox[s]) \in SandboxObject
    BY <1>a, ObjectType
  <2> QED BY <1>3, <2>1, SandboxType DEF UpdateStatus
<1>4. ASSUME NEW s \in Sandboxes, RemoveSandbox(s) PROVE TypeOK'
  <2>1. sandbox[s].owner \in Users \cup {NoUser}
    BY <1>a DEF SandboxObject
  <2>2. [Unborn EXCEPT !.phase = "gone", !.owner = sandbox[s].owner] \in SandboxObject
    BY <2>1, <1>a, ObjectType
  <2> QED BY <1>4, <2>2, SandboxType DEF RemoveSandbox
<1> QED BY <1>1, <1>2, <1>3, <1>4 DEF Cluster, Reconcile

LEMMA PatchType ==
    ASSUME TypeOK, NEW s \in Sandboxes, NEW m \in Modes, setOperatingMode(s, m)
    PROVE  KubeTypeOK'
<1>1. sandbox[s] \in SandboxObject
  BY DEF TypeOK, KubeTypeOK
<1>2. sandbox' \in [Sandboxes -> SandboxObject]
  BY <1>1, ObjectType DEF setOperatingMode, TypeOK, KubeTypeOK
<1> QED BY <1>2 DEF setOperatingMode, TypeOK, KubeTypeOK

LEMMA CallStepType ==
    ASSUME TypeOK, KnowsUser, NEW c \in Calls, CallStep(c)
    PROVE  TypeOK'
<1>1. CASE Lock(c)
  BY <1>1 DEF Lock, MutexFree, TypeOK, KubeTypeOK, kubeVars, Steps, ResumeSteps
<1>2. CASE ResumeResolve(c)
  <2>1. CASE Return(c, "error") \/ Return(c, "Ready")
    BY <1>2, <2>1, ReturnType DEF ResumeResolve, States
  <2>2. CASE /\ claim[who[c]] \in Sandboxes
             /\ pc' = [pc EXCEPT ![c] = IF Wakeable(ResolvedState(who[c])) THEN "wake" ELSE "poll1"]
             /\ target' = [target EXCEPT ![c] = claim[who[c]]]
             /\ UNCHANGED <<who, captured, result, wakeMu>>
    BY <1>2, <2>2 DEF ResumeResolve, TypeOK, KubeTypeOK, kubeVars, Steps, ResumeSteps
  <2> QED BY <1>2, <2>1, <2>2 DEF ResumeResolve
<1>3. CASE WakePatch(c)
  <2>1. KubeTypeOK'
    BY <1>3, PatchType DEF WakePatch, Live, Modes
  <2> QED BY <1>3, <2>1 DEF WakePatch, Goto, TypeOK, Steps, ResumeSteps
<1>4. CASE RecordReason(c)
  BY <1>4 DEF RecordReason, Goto, TypeOK, KubeTypeOK, kubeVars, Steps, ResumeSteps
<1>5. CASE Poll(c)
  <2>1. CASE Goto(c, "poll")
    BY <1>5, <2>1 DEF Poll, Goto, TypeOK, KubeTypeOK, kubeVars, Steps, ResumeSteps
  <2>2. CASE Return(c, "error") \/ Return(c, "Ready")
    BY <1>5, <2>2, ReturnType DEF Poll, States
  <2> QED BY <1>5, <2>1, <2>2 DEF Poll
<1>6. CASE PollFails(c)
  BY <1>6 DEF PollFails, Goto, TypeOK, KubeTypeOK, kubeVars, Steps, ResumeSteps
<1>7. CASE WaitTimeout(c)
  BY <1>7, ReturnType DEF WaitTimeout
<1>8. CASE SuspendResolve(c)
  <2>1. CASE Return(c, "error")
    BY <1>8, <2>1, ReturnType DEF SuspendResolve
  <2>2. CASE AlreadySuspended(ResolvedState(who[c])) /\ Return(c, ResolvedState(who[c]))
    <3>1. ResolvedState(who[c]) \in States
      BY <2>2 DEF AlreadySuspended, States
    <3> QED BY <1>8, <2>2, <3>1, ReturnType DEF SuspendResolve
  <2>3. CASE /\ claim[who[c]] \in Sandboxes
             /\ pc' = [pc EXCEPT ![c] = IF ResolvedState(who[c]) = "Ready" THEN "capture" ELSE "suspend"]
             /\ target' = [target EXCEPT ![c] = claim[who[c]]]
             /\ UNCHANGED <<who, captured, result, wakeMu>>
    BY <1>8, <2>3 DEF SuspendResolve, TypeOK, KubeTypeOK, kubeVars, Steps, SuspendSteps
  <2> QED BY <1>8, <2>1, <2>2, <2>3 DEF SuspendResolve
<1>9. CASE CaptureWrite(c)
  BY <1>9 DEF CaptureWrite, SetNextCronWake, Goto, TypeOK, KubeTypeOK, Steps, SuspendSteps
<1>10. CASE CaptureFails(c)
  BY <1>10 DEF CaptureFails, Goto, TypeOK, KubeTypeOK, kubeVars, Steps, SuspendSteps
<1>11. ASSUME NEW t \in CronTimes \cup {NoCron}, CaptureRead(c, t) PROVE TypeOK'
  BY <1>11 DEF CaptureRead, TypeOK, KubeTypeOK, kubeVars, Steps, SuspendSteps
<1>12. CASE SuspendPatch(c)
  <2>1. KubeTypeOK'
    BY <1>12, PatchType DEF SuspendPatch, Live, Modes
  <2> QED BY <1>12, <2>1 DEF SuspendPatch, Goto, TypeOK, Steps, SuspendSteps
<1>13. CASE SuspendConfirm(c)
  <2>1. who[c] \in Users
    BY <1>13 DEF SuspendConfirm, KnowsUser
  <2>2. (IF UserExists(who[c]) THEN ResolvedState(who[c]) ELSE "error") \in States \cup {"error"}
    BY <2>1, ResolvedStateType
  <2> QED BY <1>13, <2>2, ReturnType DEF SuspendConfirm
<1>14. CASE PatchNotFound(c) \/ ApiFailure(c)
  BY <1>14, ReturnType DEF PatchNotFound, ApiFailure
<1> QED BY <1>1, <1>2, <1>3, <1>4, <1>5, <1>6, <1>7, <1>8, <1>9, <1>10, <1>11, <1>12, <1>13, <1>14
        DEF CallStep, ResumeStep, SuspendStep

LEMMA NextType == IInv /\ [Next]_vars => TypeOK'
<1> SUFFICES ASSUME IInv, [Next]_vars PROVE TypeOK'
  OBVIOUS
<1> USE DEF IInv
<1>1. ASSUME NEW c \in Calls, Start(c) PROVE TypeOK'
  BY <1>1 DEF Start, StartResume, StartSuspend, Enter, TypeOK, KubeTypeOK, kubeVars,
              Steps, ResumeSteps, SuspendSteps
<1>2. ASSUME NEW c \in Calls, CallStep(c) PROVE TypeOK'
  BY <1>2, CallStepType
<1>3. ASSUME NEW c \in Calls, Finish(c) PROVE TypeOK'
  BY <1>3 DEF Finish, TypeOK, KubeTypeOK, kubeVars, Steps
<1>4. CASE Environment
  <2>1. CASE Cluster
    BY <1>4, <2>1, ClusterType DEF Environment
  <2>2. CASE Admin
    BY <1>4, <2>2 DEF Environment, Admin, CreateClaim, DeleteClaim, TypeOK, KubeTypeOK, callVars
  <2> QED BY <1>4, <2>1, <2>2 DEF Environment
<1>5. CASE Restart
  BY <1>5 DEF Restart, TypeOK, KubeTypeOK, kubeVars, Steps
<1>6. CASE Tick
  <2>1. \A t \in CronTimes \cup {NoCron} : Nearer(t) \in CronTimes \cup {NoCron}
    BY NamesAssumption DEF Nearer
  <2> QED BY <1>6, <2>1 DEF Tick, TypeOK, KubeTypeOK
<1>7. CASE UNCHANGED vars
  BY <1>7 DEF vars, kubeVars, callVars, TypeOK, KubeTypeOK
<1> QED BY <1>1, <1>2, <1>3, <1>4, <1>5, <1>6, <1>7 DEF Next

-----------------------------------------------------------------------------
(* Mutex, targets and owners. *)

LEMMA InitInv == Init => IInv
BY NamesAssumption, CallsAssumption DEF Init, KubeInit, CallsInit, IInv, TypeOK, KubeTypeOK, SandboxObject, Unborn, Modes,
   Steps, Holding, HoldsMutex, KnowsUser, HasTarget, NoLateTarget, ClaimOwns, TargetOwned, NoRedundantWake, Live

\* Returning gives up the mutex and the target of one call and touches no
\* object.
LEMMA ReturnInv ==
    ASSUME IInv, TypeOK', NEW c \in Calls, NEW r, pc[c] # "idle", Return(c, r), UNCHANGED kubeVars
    PROVE  IInv'
<1> USE DEF IInv
<1>1. HoldsMutex'
  BY DEF HoldsMutex, Return, Unlock, Holding, TypeOK, KnowsUser
<1>2. KnowsUser'
  BY DEF KnowsUser, Return, TypeOK
<1>3. HasTarget' /\ NoLateTarget'
  BY DEF HasTarget, NoLateTarget, Return, TypeOK
<1>4. ClaimOwns' /\ TargetOwned' /\ NoRedundantWake'
  BY NamesAssumption DEF ClaimOwns, TargetOwned, NoRedundantWake, Live, Return, kubeVars, TypeOK
<1> QED BY <1>1, <1>2, <1>3, <1>4

\* The parts of IInv that are about calls and the objects they name.
CallInv == HoldsMutex /\ KnowsUser /\ HasTarget /\ NoLateTarget
ObjectInv == ClaimOwns /\ TargetOwned /\ NoRedundantWake

\* A step that moves one call on to another step of the same kind, without a
\* new target and without a write to a sandbox.
LEMMA GotoInv ==
    ASSUME IInv, TypeOK', NEW c \in Calls, NEW step \in Steps,
           pc[c] \notin {"idle", "lock"},
           pc' = [pc EXCEPT ![c] = step], UNCHANGED <<who, target, wakeMu, claim, sandbox>>,
           step \notin {"wake", "idle", "lock", "look", "resolve", "returned"},
           step \in Holding => pc[c] \in Holding,
           step \in {"capture", "mark", "suspend"} => target[c] \in Sandboxes
    PROVE  IInv'
<1>1. CallInv'
  BY DEF IInv, CallInv, HoldsMutex, KnowsUser, HasTarget, NoLateTarget, Holding, TypeOK
<1>2. ObjectInv'
  BY DEF IInv, ObjectInv, ClaimOwns, TargetOwned, NoRedundantWake, Live, TypeOK
<1> QED BY <1>1, <1>2 DEF IInv, CallInv, ObjectInv

\* Resume has just read a suspended sandbox: only now may it head for a patch.
LEMMA ResumeResolveInv ==
    ASSUME IInv, TypeOK', NEW c \in Calls, ResumeResolve(c)
    PROVE  IInv'
<1>1. CASE Return(c, "error") \/ Return(c, "Ready")
  BY <1>1, ReturnInv DEF ResumeResolve
<1>2. CASE /\ claim[who[c]] \in Sandboxes
           /\ pc' = [pc EXCEPT ![c] = IF Wakeable(ResolvedState(who[c])) THEN "wake" ELSE "poll1"]
           /\ target' = [target EXCEPT ![c] = claim[who[c]]]
           /\ UNCHANGED <<who, captured, result, wakeMu>>
  <2> USE <1>2 DEF IInv
  <2>1. pc[c] = "resolve" /\ UNCHANGED kubeVars /\ who[c] \in Users
    BY DEF ResumeResolve, KnowsUser
  <2>2. CallInv'
    BY <2>1 DEF CallInv, HoldsMutex, KnowsUser, HasTarget, NoLateTarget, Holding, TypeOK, kubeVars
  <2>3. ClaimOwns' /\ TargetOwned'
    BY <2>1 DEF ClaimOwns, TargetOwned, TypeOK, kubeVars
  <2>4. ASSUME pc'[c] = "wake", Live(claim[who[c]])' PROVE sandbox[claim[who[c]]].mode = "Suspended"
    <3>1. ResolvedState(who[c]) \in {"Suspended", "Suspending"}
      BY <2>1, <2>4 DEF Wakeable, TypeOK
    <3>2. ResolvedState(who[c]) = deriveState(sandbox[claim[who[c]]])
      BY <2>1, <3>1, NamesAssumption DEF ResolvedState
    <3> QED BY <3>1, <3>2 DEF deriveState
  <2>5. NoRedundantWake'
    BY <2>1, <2>4 DEF NoRedundantWake, Live, TypeOK, kubeVars
  <2> QED BY <2>2, <2>3, <2>5 DEF CallInv
<1> QED BY <1>1, <1>2 DEF ResumeResolve

\* The flip to Running.  Another call about to flip the same sandbox would
\* hold the same user's mutex.
LEMMA WakePatchInv ==
    ASSUME IInv, TypeOK', NEW c \in Calls, WakePatch(c)
    PROVE  IInv'
<1> USE DEF IInv
<1>1. /\ pc[c] = "wake" /\ target[c] \in Sandboxes /\ sandbox[target[c]] \in SandboxObject
      /\ sandbox' = [sandbox EXCEPT ![target[c]].mode = "Running"]
      /\ pc' = [pc EXCEPT ![c] = "reason"]
      /\ UNCHANGED <<claim, who, target, wakeMu>>
  BY DEF WakePatch, setOperatingMode, Goto, HasTarget, TypeOK, KubeTypeOK
<1>2. CallInv'
  BY <1>1 DEF CallInv, HoldsMutex, KnowsUser, HasTarget, NoLateTarget, Holding, TypeOK
<1>3. \A s \in Sandboxes : sandbox'[s].phase = sandbox[s].phase /\ sandbox'[s].owner = sandbox[s].owner
  BY <1>1 DEF TypeOK, KubeTypeOK, SandboxObject
<1>4. ClaimOwns' /\ TargetOwned'
  BY <1>1, <1>3 DEF ClaimOwns, TargetOwned
<1>5. ASSUME NEW d \in Calls, pc'[d] = "wake", Live(target[d])' PROVE sandbox'[target[d]].mode = "Suspended"
  <2>1. pc[d] = "wake" /\ d # c /\ target[d] \in Sandboxes
    BY <1>1, <1>5 DEF TypeOK, Live
  <2>2. target[d] # target[c]
    <3>1. SUFFICES ASSUME target[d] = target[c] PROVE FALSE
      OBVIOUS
    <3>2. who[c] = who[d]
      BY <1>1, <2>1, <3>1 DEF TargetOwned
    <3> QED BY <1>1, <2>1, <3>2 DEF HoldsMutex, Holding
  <2>3. sandbox'[target[d]] = sandbox[target[d]]
    BY <1>1, <2>1, <2>2 DEF TypeOK, KubeTypeOK
  <2> QED BY <1>1, <1>5, <2>1, <2>3 DEF NoRedundantWake, Live
<1>6. NoRedundantWake'
  BY <1>1, <1>5 DEF NoRedundantWake
<1> QED BY <1>2, <1>4, <1>6 DEF CallInv

LEMMA SuspendPatchInv ==
    ASSUME IInv, TypeOK', NEW c \in Calls, SuspendPatch(c)
    PROVE  IInv'
<1> USE DEF IInv
<1>1. /\ pc[c] = "suspend" /\ target[c] \in Sandboxes /\ sandbox[target[c]] \in SandboxObject
      /\ sandbox' = [sandbox EXCEPT ![target[c]].mode = "Suspended"]
      /\ pc' = [pc EXCEPT ![c] = "confirm"]
      /\ UNCHANGED <<claim, who, target, wakeMu>>
  BY DEF SuspendPatch, setOperatingMode, Goto, HasTarget, TypeOK, KubeTypeOK
<1>2. CallInv'
  BY <1>1 DEF CallInv, HoldsMutex, KnowsUser, HasTarget, NoLateTarget, Holding, TypeOK
<1>3. \A s \in Sandboxes : /\ sandbox'[s].phase = sandbox[s].phase
                           /\ sandbox'[s].owner = sandbox[s].owner
                           /\ sandbox'[s].mode = "Suspended" \/ sandbox'[s].mode = sandbox[s].mode
  BY <1>1 DEF TypeOK, KubeTypeOK, SandboxObject
<1>4. ClaimOwns' /\ TargetOwned' /\ NoRedundantWake'
  BY <1>1, <1>3 DEF ClaimOwns, TargetOwned, NoRedundantWake, Live, TypeOK
<1> QED BY <1>2, <1>4 DEF CallInv

LEMMA CallStepInv ==
    ASSUME IInv, TypeOK', NEW c \in Calls, CallStep(c)
    PROVE  IInv'
<1>1. CASE Lock(c)
  <2> USE <1>1 DEF IInv
  <2>1. who[c] \in Users /\ target[c] = NoSandbox
    BY DEF Lock, KnowsUser, NoLateTarget
  <2>2. HoldsMutex'
    BY <2>1, CallsAssumption DEF Lock, MutexFree, HoldsMutex, KnowsUser, Holding, TypeOK
  <2>3. KnowsUser' /\ HasTarget' /\ NoLateTarget'
    BY <2>1 DEF Lock, KnowsUser, HasTarget, NoLateTarget, TypeOK
  <2>4. ObjectInv'
    BY DEF Lock, ObjectInv, ClaimOwns, TargetOwned, NoRedundantWake, Live, TypeOK, kubeVars
  <2> QED BY <2>2, <2>3, <2>4 DEF ObjectInv
<1>2. CASE ResumeResolve(c)
  BY <1>2, ResumeResolveInv
<1>3. CASE WakePatch(c)
  BY <1>3, WakePatchInv
<1>4. CASE RecordReason(c)
  BY <1>4, GotoInv DEF RecordReason, Goto, kubeVars, Holding, Steps, ResumeSteps
<1>5. CASE Poll(c)
  <2>1. CASE Goto(c, "poll")
    BY <1>5, <2>1, GotoInv DEF Poll, Goto, kubeVars, Holding, Steps, ResumeSteps
  <2>2. CASE Return(c, "error") \/ Return(c, "Ready")
    BY <1>5, <2>2, ReturnInv DEF Poll
  <2> QED BY <1>5, <2>1, <2>2 DEF Poll
<1>6. CASE PollFails(c)
  BY <1>6, GotoInv DEF PollFails, Goto, kubeVars, Holding, Steps, ResumeSteps
<1>7. CASE WaitTimeout(c)
  BY <1>7, ReturnInv DEF WaitTimeout
<1>8. CASE SuspendResolve(c)
  <2>1. CASE \E r : Return(c, r)
    BY <1>8, <2>1, ReturnInv DEF SuspendResolve
  <2>2. CASE /\ claim[who[c]] \in Sandboxes
             /\ pc' = [pc EXCEPT ![c] = IF ResolvedState(who[c]) = "Ready" THEN "capture" ELSE "suspend"]
             /\ target' = [target EXCEPT ![c] = claim[who[c]]]
             /\ UNCHANGED <<who, captured, result, wakeMu>>
    <3> USE <1>8, <2>2 DEF IInv
    <3>1. pc[c] = "look" /\ UNCHANGED kubeVars /\ who[c] \in Users
      BY DEF SuspendResolve, KnowsUser
    <3>2. CallInv'
      BY <3>1 DEF CallInv, HoldsMutex, KnowsUser, HasTarget, NoLateTarget, Holding, TypeOK, kubeVars
    <3>3. ObjectInv'
      BY <3>1 DEF ObjectInv, ClaimOwns, TargetOwned, NoRedundantWake, Live, TypeOK, kubeVars
    <3> QED BY <3>2, <3>3 DEF CallInv, ObjectInv
  <2> QED BY <1>8, <2>1, <2>2 DEF SuspendResolve
<1>9. CASE CaptureWrite(c)
  BY <1>9, GotoInv DEF CaptureWrite, SetNextCronWake, Goto, Holding, IInv, HasTarget, Steps, SuspendSteps
<1>10. CASE CaptureFails(c)
  BY <1>10, GotoInv DEF CaptureFails, Goto, kubeVars, Holding, IInv, HasTarget, Steps, SuspendSteps
<1>11. ASSUME NEW t \in CronTimes \cup {NoCron}, CaptureRead(c, t) PROVE IInv'
  BY <1>11, GotoInv DEF CaptureRead, kubeVars, Holding, IInv, HasTarget, Steps, SuspendSteps
<1>12. CASE SuspendPatch(c)
  BY <1>12, SuspendPatchInv
<1>13. CASE SuspendConfirm(c)
  BY <1>13, ReturnInv DEF SuspendConfirm
<1>14. CASE PatchNotFound(c)
  BY <1>14, ReturnInv DEF PatchNotFound
<1>15. CASE ApiFailure(c)
  BY <1>15, ReturnInv DEF ApiFailure, Fallible
<1> QED BY <1>1, <1>2, <1>3, <1>4, <1>5, <1>6, <1>7, <1>8, <1>9, <1>10, <1>11, <1>12, <1>13, <1>14, <1>15
        DEF CallStep, ResumeStep, SuspendStep

\* The cluster and the administrator never turn a mode back, never give a
\* sandbox to another user, and never bring a name back to life.
LEMMA EnvironmentInv ==
    ASSUME IInv, TypeOK', Environment
    PROVE  IInv'
<1> USE DEF IInv
<1>1. CallInv'
  BY DEF Environment, callVars, CallInv, HoldsMutex, KnowsUser, HasTarget, NoLateTarget
<1>2. ASSUME NEW u \in Users, CreateClaim(u) \/ DeleteClaim(u) PROVE ObjectInv'
  <2>1. /\ claim' = [claim EXCEPT ![u] = NoSandbox] \/ claim' = [claim EXCEPT ![u] = NoClaim]
        /\ UNCHANGED sandbox
    BY <1>2 DEF CreateClaim, DeleteClaim
  <2>2. ClaimOwns'
    BY <2>1, NamesAssumption DEF ClaimOwns, TypeOK, KubeTypeOK
  <2> QED BY <2>1, <2>2 DEF Environment, callVars, ObjectInv, TargetOwned, NoRedundantWake, Live
<1>3. ASSUME NEW u \in Users, NEW s \in Sandboxes, Adopt(u, s) PROVE ObjectInv'
  BY <1>3, NamesAssumption DEF Environment, Adopt, callVars, Unborn,
        ObjectInv, ClaimOwns, TargetOwned, NoRedundantWake, Live, TypeOK, KubeTypeOK
<1>4. ASSUME NEW s \in Sandboxes, Reconcile(s) \/ LosePod(s) \/ RemoveSandbox(s) PROVE ObjectInv'
  <2>1. UNCHANGED claim
    BY <1>4 DEF Reconcile, StartPod, PodUp, StopPod, PodGone, SetPod, UpdateStatus, LosePod, RemoveSandbox
  <2>2. \A x \in Sandboxes : /\ sandbox[x].phase # "unborn" => sandbox'[x].phase # "unborn"
                             /\ sandbox'[x].owner = sandbox[x].owner
                             /\ sandbox'[x].phase = "live" =>
                                  sandbox[x].phase = "live" /\ sandbox'[x].mode = sandbox[x].mode
    <3>1. sandbox[s] \in SandboxObject
      BY DEF TypeOK, KubeTypeOK
    <3>2. CASE \E p \in {"Absent", "Starting", "Up", "Terminating"} : SetPod(s, p)
      BY <3>1, <3>2 DEF SetPod, TypeOK, KubeTypeOK, SandboxObject
    <3>3. CASE UpdateStatus(s)
      BY <3>1, <3>3 DEF UpdateStatus, Conditions, TypeOK, KubeTypeOK, SandboxObject
    <3>4. CASE RemoveSandbox(s)
      BY <3>1, <3>4 DEF RemoveSandbox, Unborn, TypeOK, KubeTypeOK, SandboxObject
    <3> QED BY <1>4, <3>2, <3>3, <3>4 DEF Reconcile, StartPod, PodUp, StopPod, PodGone, LosePod
  <2> QED BY <2>1, <2>2 DEF Environment, callVars, ObjectInv, ClaimOwns, TargetOwned, NoRedundantWake, Live
<1>5. ObjectInv'
  BY <1>2, <1>3, <1>4 DEF Environment, Admin, Cluster
<1> QED BY <1>1, <1>5 DEF CallInv, ObjectInv

LEMMA NextInv == IInv /\ [Next]_vars => IInv'
<1> SUFFICES ASSUME IInv, [Next]_vars PROVE IInv'
  OBVIOUS
<1>a. TypeOK'
  BY NextType
<1>1. ASSUME NEW c \in Calls, Start(c) PROVE IInv'
  <2> USE <1>a, <1>1 DEF IInv
  <2>1. CallInv'
    BY DEF Start, StartResume, StartSuspend, Enter, CallInv, HoldsMutex, KnowsUser, HasTarget,
           NoLateTarget, Holding, TypeOK
  <2>2. ObjectInv'
    BY NamesAssumption DEF Start, StartResume, StartSuspend, Enter, kubeVars, NoLateTarget, ObjectInv, ClaimOwns,
           TargetOwned, NoRedundantWake, Live, TypeOK
  <2> QED BY <2>1, <2>2 DEF CallInv, ObjectInv
<1>2. ASSUME NEW c \in Calls, CallStep(c) PROVE IInv'
  BY <1>a, <1>2, CallStepInv
<1>3. ASSUME NEW c \in Calls, Finish(c) PROVE IInv'
  <2> USE <1>a, <1>3 DEF IInv
  <2>1. CallInv'
    BY DEF Finish, CallInv, HoldsMutex, KnowsUser, HasTarget, NoLateTarget, Holding, TypeOK
  <2>2. ObjectInv'
    BY NamesAssumption DEF Finish, kubeVars, NoLateTarget, ObjectInv, ClaimOwns,
           TargetOwned, NoRedundantWake, Live, TypeOK
  <2> QED BY <2>1, <2>2 DEF CallInv, ObjectInv
<1>4. CASE Environment
  BY <1>a, <1>4, EnvironmentInv
<1>5. CASE Restart
  BY <1>a, <1>5, NamesAssumption DEF Restart, kubeVars, IInv, HoldsMutex, KnowsUser, HasTarget, NoLateTarget,
     ClaimOwns, TargetOwned, NoRedundantWake, Holding
<1>6. CASE Tick
  BY <1>a, <1>6 DEF Tick, IInv, HoldsMutex, KnowsUser, HasTarget, NoLateTarget,
     ClaimOwns, TargetOwned, NoRedundantWake, Live
<1>7. CASE UNCHANGED vars
  BY <1>a, <1>7 DEF vars, kubeVars, callVars, IInv, HoldsMutex, KnowsUser, HasTarget, NoLateTarget,
     ClaimOwns, TargetOwned, NoRedundantWake, Live
<1> QED BY <1>1, <1>2, <1>3, <1>4, <1>5, <1>6, <1>7 DEF Next

THEOREM Invariance == Spec => []IInv
<1>1. IInv /\ [Next]_vars => IInv'
  BY NextInv
<1> QED BY InitInv, <1>1, PTL DEF Spec

-----------------------------------------------------------------------------
(* What follows from the invariant. *)

\* Every variable of the model keeps its type, whatever fails.
THEOREM TypeCorrectness == Spec => []TypeOK
<1>1. IInv => TypeOK
  BY DEF IInv
<1> QED BY Invariance, <1>1, PTL

\* The wake mutex admits one Resume per user at a time (lifecycle.go:29).
THEOREM OneWakerAtATime == Spec => []OneWaker
<1>1. IInv => OneWaker
  BY DEF IInv, HoldsMutex, OneWaker
<1> QED BY Invariance, <1>1, PTL

\* No wake is requested twice: a resume patch finds its sandbox suspended,
\* for any number of callers and of deletions and re-creations of the user.
THEOREM WakeRequestedOnce == Spec => []NoRedundantWake
<1>1. IInv => NoRedundantWake
  BY DEF IInv
<1> QED BY Invariance, <1>1, PTL

\* A step of one call leaves the position of every other call alone.
LEMMA OwnStep ==
    ASSUME IInv, Next, NEW c \in Calls, pc[c] \in {"resolve", "wake"}, pc'[c] \in {"reason", "poll1"}
    PROVE  ResumeResolve(c) \/ WakePatch(c)
<1> USE DEF IInv, TypeOK
<1>1. ASSUME NEW d \in Calls, Start(d) \/ Finish(d) PROVE FALSE
  BY <1>1 DEF Start, StartResume, StartSuspend, Enter, Finish
<1>2. ASSUME NEW d \in Calls, CallStep(d) PROVE d = c
  BY <1>2 DEF CallStep, ResumeStep, SuspendStep, Lock, ResumeResolve, WakePatch, RecordReason, Poll,
     PollFails, WaitTimeout, SuspendResolve, CaptureRead, CaptureWrite, CaptureFails, SuspendPatch,
     SuspendConfirm, PatchNotFound, ApiFailure, Return, Goto
<1>3. CASE CallStep(c)
  BY <1>3 DEF CallStep, ResumeStep, SuspendStep, Lock, RecordReason, Poll,
     PollFails, WaitTimeout, SuspendResolve, CaptureRead, CaptureWrite, CaptureFails, SuspendPatch,
     SuspendConfirm, PatchNotFound, ApiFailure, Return, Goto
<1>4. CASE Environment \/ Restart \/ Tick
  BY <1>4 DEF Environment, callVars, Restart, Tick
<1> QED BY <1>1, <1>2, <1>3, <1>4 DEF Next

\* Resume waits only for a sandbox that has been asked to run.
THEOREM ResumeWaitsForRunning == Spec => WaitsForRunning
<1> DEFINE Asked ==
      \A c \in Calls :
         /\ pc[c] \in {"resolve", "wake"}
         /\ pc'[c] \in {"reason", "poll1"}
         /\ target'[c] \in Sandboxes /\ sandbox'[target'[c]].phase = "live"
         => sandbox'[target'[c]].mode = "Running"
<1>1. IInv /\ [Next]_vars => [Asked]_vars
  <2> SUFFICES ASSUME IInv, Next, NEW c \in Calls,
                      pc[c] \in {"resolve", "wake"}, pc'[c] \in {"reason", "poll1"},
                      target'[c] \in Sandboxes, sandbox'[target'[c]].phase = "live"
               PROVE  sandbox'[target'[c]].mode = "Running"
    OBVIOUS
  <2>1. CASE WakePatch(c)
    BY <2>1 DEF WakePatch, setOperatingMode, Goto, Live, IInv, TypeOK, KubeTypeOK, SandboxObject
  <2>2. CASE ResumeResolve(c)
    <3>1. /\ claim[who[c]] \in Sandboxes /\ target'[c] = claim[who[c]] /\ UNCHANGED sandbox
          /\ ResolvedState(who[c]) # "Ready" /\ pc[c] = "resolve"
          /\ pc'[c] = IF Wakeable(ResolvedState(who[c])) THEN "wake" ELSE "poll1"
      BY <2>2 DEF ResumeResolve, Return, kubeVars, IInv, TypeOK
    <3>2. CASE ~Wakeable(ResolvedState(who[c]))
      <4>1. ResolvedState(who[c]) = deriveState(sandbox[claim[who[c]]])
        BY <3>1, NamesAssumption DEF ResolvedState, Live
      <4>2. sandbox[claim[who[c]]].mode \in Modes
        BY <3>1 DEF IInv, TypeOK, KubeTypeOK, SandboxObject
      <4>3. sandbox[claim[who[c]]].mode # "Suspended"
        BY <3>2, <4>1, <4>2 DEF deriveState, Wakeable, Modes
      <4> QED BY <3>1, <4>2, <4>3 DEF Modes
    <3> QED BY <3>1, <3>2
  <2> QED BY <2>1, <2>2, OwnStep
<1> QED BY Invariance, <1>1, PTL DEF Spec, WaitsForRunning

-----------------------------------------------------------------------------
(* What a client that polls the status API sees: a refinement of UserStates. *)

\* The conditions come from one look at the pod, so they never claim both.
OneCondition == \A s \in Sandboxes : ~(sandbox[s].ready /\ sandbox[s].suspended)

RInv == IInv /\ OneCondition

\* Two users never have the same sandbox.
LEMMA OwnSandbox ==
    ASSUME IInv, NEW u \in Users, NEW v \in Users, claim[u] \in Sandboxes, claim[v] = claim[u]
    PROVE  u = v
BY DEF IInv, ClaimOwns

\* What a step may do to the objects: nothing that anybody could see, or a
\* change to one claim, or to one sandbox.
ClaimMoves ==
    UNCHANGED sandbox /\ \E u \in Users : CreateClaim(u) \/ DeleteClaim(u)

SandboxMoves(s, o) ==
    /\ UNCHANGED claim
    /\ sandbox' = [sandbox EXCEPT ![s] = o]

\* The writes to a sandbox object: its mode, its pod, its conditions, its end.
Written(x) ==
    {[x EXCEPT !.mode = m] : m \in Modes}
    \cup {[x EXCEPT !.pod = p] : p \in {"Absent", "Starting", "Up", "Terminating"}}
    \cup {Conditions(x), [Unborn EXCEPT !.phase = "gone", !.owner = x.owner]}

LEMMA CallWrites ==
    ASSUME IInv, NEW c \in Calls, CallStep(c)
    PROVE  \/ UNCHANGED <<claim, sandbox>>
           \/ \E s \in Sandboxes : /\ sandbox[s].phase = "live"
                                   /\ \E o \in Written(sandbox[s]) : SandboxMoves(s, o)
<1>1. CASE WakePatch(c)
  <2>1. /\ target[c] \in Sandboxes /\ sandbox[target[c]].phase = "live" /\ UNCHANGED claim
        /\ sandbox' = [sandbox EXCEPT ![target[c]] = [sandbox[target[c]] EXCEPT !.mode = "Running"]]
    BY <1>1 DEF WakePatch, Live, setOperatingMode
  <2> QED BY <2>1 DEF SandboxMoves, Written, Modes
<1>2. CASE SuspendPatch(c)
  <2>1. /\ target[c] \in Sandboxes /\ sandbox[target[c]].phase = "live" /\ UNCHANGED claim
        /\ sandbox' = [sandbox EXCEPT ![target[c]] = [sandbox[target[c]] EXCEPT !.mode = "Suspended"]]
    BY <1>2 DEF SuspendPatch, Live, setOperatingMode
  <2> QED BY <2>1 DEF SandboxMoves, Written, Modes
<1>3. CASE ~WakePatch(c) /\ ~SuspendPatch(c)
  BY <1>3 DEF CallStep, ResumeStep, SuspendStep, Lock, ResumeResolve, RecordReason, Poll, PollFails,
     WaitTimeout, SuspendResolve, CaptureWrite, SetNextCronWake, CaptureFails, CaptureRead,
     SuspendConfirm, PatchNotFound, ApiFailure, kubeVars
<1> QED BY <1>1, <1>2, <1>3

LEMMA StepWrites ==
    ASSUME IInv, [Next]_vars
    PROVE  \/ UNCHANGED <<claim, sandbox>>
           \/ ClaimMoves
           \/ \E u \in Users, s \in Sandboxes : Adopt(u, s)
           \/ \E s \in Sandboxes : /\ sandbox[s].phase = "live"
                                   /\ \E o \in Written(sandbox[s]) : SandboxMoves(s, o)
<1>1. CASE Admin
  BY <1>1 DEF Admin, ClaimMoves, CreateClaim, DeleteClaim
<1>2. ASSUME NEW s \in Sandboxes, Reconcile(s) \/ LosePod(s) \/ RemoveSandbox(s)
      PROVE  sandbox[s].phase = "live" /\ \E o \in Written(sandbox[s]) : SandboxMoves(s, o)
  <2>1. sandbox[s].phase = "live"
    BY <1>2 DEF Reconcile, StartPod, PodUp, StopPod, PodGone, UpdateStatus, LosePod, RemoveSandbox, Live
  <2>2. ASSUME NEW p \in {"Absent", "Starting", "Up", "Terminating"}, SetPod(s, p)
        PROVE  \E o \in Written(sandbox[s]) : SandboxMoves(s, o)
    <3>1. SandboxMoves(s, [sandbox[s] EXCEPT !.pod = p])
      BY <2>2 DEF SetPod, SandboxMoves
    <3> QED BY <3>1 DEF Written
  <2> DEFINE ended == [Unborn EXCEPT !.phase = "gone", !.owner = sandbox[s].owner]
  <2>3. ASSUME UpdateStatus(s)
        PROVE  \E o \in Written(sandbox[s]) : SandboxMoves(s, o)
    <3>1. SandboxMoves(s, Conditions(sandbox[s]))
      BY <2>3 DEF UpdateStatus, SandboxMoves
    <3>2. Conditions(sandbox[s]) \in Written(sandbox[s])
      BY DEF Written
    <3> QED BY <3>1, <3>2
  <2>4. ASSUME RemoveSandbox(s)
        PROVE  \E o \in Written(sandbox[s]) : SandboxMoves(s, o)
    <3>1. SandboxMoves(s, ended)
      BY <2>4 DEF RemoveSandbox, SandboxMoves
    <3>2. ended \in Written(sandbox[s])
      BY DEF Written
    <3> QED BY <3>1, <3>2
  <2> HIDE DEF ended
  <2> QED BY <1>2, <2>1, <2>2, <2>3, <2>4 DEF Reconcile, StartPod, PodUp, StopPod, PodGone, LosePod
<1>3. ASSUME NEW c \in Calls, Start(c) \/ Finish(c)
      PROVE  UNCHANGED <<claim, sandbox>>
  BY <1>3 DEF Start, StartResume, StartSuspend, Finish, kubeVars
<1>4. CASE Restart \/ Tick \/ UNCHANGED vars
  BY <1>4 DEF Restart, Tick, vars, kubeVars
<1> QED BY <1>1, <1>2, <1>3, <1>4, CallWrites DEF Next, Environment, Cluster

\* What a write makes of the state that a live sandbox is in.
LEMMA WrittenState ==
    ASSUME NEW x \in SandboxObject, ~(x.ready /\ x.suspended), x.phase = "live", NEW o \in Written(x)
    PROVE  /\ ~(o.ready /\ o.suspended)
           /\ \/ o.phase = "gone"
              \/ /\ o.phase = "live"
                 /\ deriveState(o) = deriveState(x) \/ <<deriveState(x), deriveState(o)>> \in Reported!Moves
<1> DEFINE Good(y) == /\ ~(y.ready /\ y.suspended)
                      /\ y.phase = "live"
                      /\ deriveState(y) = deriveState(x) \/ <<deriveState(x), deriveState(y)>> \in Reported!Moves
<1>1. ASSUME NEW m \in Modes PROVE Good([x EXCEPT !.mode = m])
  BY DEF SandboxObject, Modes, deriveState, Reported!Moves
<1>2. ASSUME NEW p PROVE Good([x EXCEPT !.pod = p])
  BY DEF SandboxObject, Modes, deriveState
<1>3. Good(Conditions(x))
  BY DEF SandboxObject, Modes, Conditions, deriveState, Reported!Moves
<1>4. [Unborn EXCEPT !.phase = "gone", !.owner = x.owner].phase = "gone"
      /\ ~[Unborn EXCEPT !.phase = "gone", !.owner = x.owner].ready
  BY DEF Unborn
<1> HIDE DEF Good
<1>5. Good(o) \/ o = [Unborn EXCEPT !.phase = "gone", !.owner = x.owner]
  BY <1>1, <1>2, <1>3 DEF Written
<1> QED BY <1>4, <1>5 DEF Good

\* The state of a user whose claim names a sandbox that has been born.
LEMMA StateOfOwner ==
    ASSUME TypeOK, NEW u \in Users, claim[u] \in Sandboxes, sandbox[claim[u]].phase # "unborn"
    PROVE  UserState(u) = IF sandbox[claim[u]].phase = "live" THEN deriveState(sandbox[claim[u]]) ELSE "Unknown"
<1>1. UserState(u) = ResolvedState(u) /\ claim[u] # NoSandbox
  BY NamesAssumption DEF UserState, UserExists
<1> QED BY <1>1 DEF ResolvedState, Live

\* The same for the state after a step.
LEMMA StateOfOwnerNext ==
    ASSUME TypeOK', NEW u \in Users, claim'[u] \in Sandboxes, sandbox'[claim'[u]].phase # "unborn"
    PROVE  UserState(u)' = IF sandbox'[claim'[u]].phase = "live" THEN deriveState(sandbox'[claim'[u]]) ELSE "Unknown"
<1>1. UserState(u)' = ResolvedState(u)' /\ claim'[u] # NoSandbox
  BY NamesAssumption DEF UserState, UserExists
<1> QED BY <1>1 DEF ResolvedState, Live

LEMMA DerivedStates ==
    ASSUME NEW x \in SandboxObject
    PROVE  deriveState(x) \in {"Ready", "Suspending", "Suspended", "Waking"}
BY DEF deriveState

\* A step that is seen by one user only, as a move that is allowed.
LEMMA OneMove ==
    ASSUME NEW u \in Users, NEW to \in {"NotFound", "Provisioning", "Ready", "Suspending", "Suspended", "Waking", "Unknown"},
           UserState(u)' = to, Reported!Allowed(UserState(u), to),
           \A v \in Users : v # u => UserState(v)' = UserState(v)
    PROVE  Reported!Next
<1> DEFINE now == [v \in Users |-> UserState(v)]
           then == [v \in Users |-> UserState(v)']
<1>1. then = [now EXCEPT ![u] = to]
  <2> HIDE DEF then, now
  <2>1. \A v \in Users : now[v] = UserState(v) /\ then[v] = UserState(v)'
    BY DEF now, then
  <2>2. now = [v \in Users |-> now[v]] /\ then = [v \in Users |-> then[v]]
    BY DEF now, then
  <2> QED BY <2>1, <2>2
<1>2. Reported!Move(u, to)
  BY <1>1 DEF Reported!Move
<1> QED BY <1>2 DEF Reported!Next

LEMMA ClaimMovesAllowed ==
    ASSUME RInv, NEW u \in Users, CreateClaim(u) \/ DeleteClaim(u)
    PROVE  Reported!Next
<1>1. claim \in [Users -> Sandboxes \cup {NoClaim, NoSandbox}]
  BY DEF RInv, IInv, TypeOK, KubeTypeOK
<1>2. \A v \in Users : v # u => UserState(v)' = UserState(v)
  BY <1>1 DEF CreateClaim, DeleteClaim, UserState, UserExists, ResolvedState, Live
<1>3. CASE CreateClaim(u)
  <2>1. UserState(u) = "NotFound"
    BY <1>3 DEF CreateClaim, UserState
  <2>2. UserState(u)' = "Provisioning"
    <3>1. claim'[u] = NoSandbox
      BY <1>1, <1>3 DEF CreateClaim
    <3> QED BY <3>1, NamesAssumption DEF UserState, UserExists, ResolvedState
  <2>3. Reported!Allowed(UserState(u), "Provisioning")
    BY <2>1 DEF Reported!Allowed
  <2> QED BY <1>2, <2>2, <2>3, OneMove
<1>4. CASE DeleteClaim(u)
  <2>1. UserState(u)' = "NotFound"
    BY <1>1, <1>4 DEF DeleteClaim, UserState, UserExists
  <2>2. Reported!Allowed(UserState(u), "NotFound")
    BY DEF Reported!Allowed
  <2> QED BY <1>2, <2>1, <2>2, OneMove
<1> QED BY <1>3, <1>4

LEMMA AdoptAllowed ==
    ASSUME RInv, TypeOK', NEW u \in Users, NEW s \in Sandboxes, Adopt(u, s)
    PROVE  Reported!Next /\ OneCondition'
<1>1. PICK w \in BOOLEAN :
        sandbox' = [sandbox EXCEPT ![s] =
           [Unborn EXCEPT !.phase = "live", !.owner = u,
                          !.pod = IF w THEN "Up" ELSE "Starting", !.ready = w]]
  BY DEF Adopt
<1>2. /\ claim \in [Users -> Sandboxes \cup {NoClaim, NoSandbox}] /\ sandbox \in [Sandboxes -> SandboxObject]
      /\ claim' = [claim EXCEPT ![u] = s] /\ claim[u] = NoSandbox /\ sandbox[s].phase = "unborn"
  BY DEF RInv, IInv, TypeOK, KubeTypeOK, Adopt
<1>3. sandbox'[s].phase = "live" /\ sandbox'[s].mode = "Running" /\ sandbox'[s].suspended = FALSE
  BY <1>1, <1>2 DEF Unborn
<1>4. OneCondition'
  BY <1>1, <1>2, <1>3 DEF RInv, OneCondition
<1>5. ASSUME NEW v \in Users, v # u PROVE UserState(v)' = UserState(v)
  <2>1. claim'[v] = claim[v] /\ claim[v] # s
    BY <1>2, <1>5 DEF RInv, IInv, ClaimOwns
  <2>2. claim[v] \in Sandboxes => sandbox'[claim[v]] = sandbox[claim[v]]
    BY <1>1, <1>2, <2>1
  <2> QED BY <1>2, <2>1, <2>2 DEF UserState, UserExists, ResolvedState, Live
<1>6. UserState(u) = "Provisioning"
  BY <1>2, NamesAssumption DEF UserState, UserExists, ResolvedState
<1>7. UserState(u)' \in {"Ready", "Waking"}
  <2>1. claim'[u] = s
    BY <1>2
  <2>2. UserState(u)' = deriveState(sandbox'[s])
    BY <1>3, <2>1, StateOfOwnerNext
  <2> QED BY <1>3, <2>2 DEF deriveState
<1>8. Reported!Allowed(UserState(u), UserState(u)')
  BY <1>6, <1>7 DEF Reported!Allowed, Reported!Moves
<1> QED BY <1>4, <1>5, <1>7, <1>8, OneMove

LEMMA WriteAllowed ==
    ASSUME RInv, TypeOK', NEW s \in Sandboxes, sandbox[s].phase = "live",
           NEW o \in Written(sandbox[s]), SandboxMoves(s, o)
    PROVE  /\ Reported!Next \/ \A u \in Users : UserState(u)' = UserState(u)
           /\ OneCondition'
<1>1. /\ claim \in [Users -> Sandboxes \cup {NoClaim, NoSandbox}] /\ sandbox \in [Sandboxes -> SandboxObject]
      /\ UNCHANGED claim /\ sandbox' = [sandbox EXCEPT ![s] = o] /\ sandbox'[s] = o
  BY DEF RInv, IInv, TypeOK, KubeTypeOK, SandboxMoves
<1>2. /\ ~(o.ready /\ o.suspended)
      /\ \/ o.phase = "gone"
         \/ /\ o.phase = "live"
            /\ deriveState(o) = deriveState(sandbox[s]) \/ <<deriveState(sandbox[s]), deriveState(o)>> \in Reported!Moves
  BY <1>1, WrittenState DEF RInv, OneCondition
<1>3. OneCondition'
  BY <1>1, <1>2 DEF RInv, OneCondition
<1>4. ASSUME NEW v \in Users, claim[v] # s PROVE UserState(v)' = UserState(v)
  <2>1. claim[v] \in Sandboxes => sandbox'[claim[v]] = sandbox[claim[v]]
    BY <1>1, <1>4
  <2> QED BY <1>1, <2>1 DEF UserState, UserExists, ResolvedState, Live
<1>5. ASSUME NEW u \in Users, claim[u] = s
      PROVE  Reported!Next \/ \A v \in Users : UserState(v)' = UserState(v)
  <2>1. \A v \in Users : v # u => UserState(v)' = UserState(v)
    BY <1>4, <1>5, OwnSandbox DEF RInv
  <2>2. UserState(u) = deriveState(sandbox[s])
    BY <1>5, StateOfOwner DEF RInv, IInv
  <2>3. UserState(u)' = IF o.phase = "live" THEN deriveState(o) ELSE "Unknown"
    BY <1>1, <1>2, <1>5, StateOfOwnerNext
  <2>4. deriveState(sandbox[s]) \in {"Ready", "Suspending", "Suspended", "Waking"}
        /\ deriveState(o) \in {"Ready", "Suspending", "Suspended", "Waking"}
    BY <1>1, DerivedStates DEF deriveState
  <2>5. CASE o.phase = "gone"
    <3>1. UserState(u)' = "Unknown" /\ Reported!Allowed(UserState(u), "Unknown")
      BY <2>2, <2>3, <2>4, <2>5 DEF Reported!Allowed
    <3> QED BY <2>1, <3>1, OneMove
  <2>6. CASE o.phase = "live" /\ deriveState(o) = deriveState(sandbox[s])
    BY <2>1, <2>2, <2>3, <2>6
  <2>7. CASE o.phase = "live" /\ <<deriveState(sandbox[s]), deriveState(o)>> \in Reported!Moves
    <3>1. UserState(u)' = deriveState(o) /\ Reported!Allowed(UserState(u), deriveState(o))
      BY <2>2, <2>3, <2>7 DEF Reported!Allowed
    <3> QED BY <2>1, <2>4, <3>1, OneMove
  <2> QED BY <1>2, <2>5, <2>6, <2>7
<1> QED BY <1>3, <1>4, <1>5

LEMMA StatesNext ==
    ASSUME RInv, [Next]_vars
    PROVE  /\ Reported!Next \/ \A u \in Users : UserState(u)' = UserState(u)
           /\ OneCondition'
<1>0. TypeOK'
  BY NextType DEF RInv
<1>1. CASE UNCHANGED <<claim, sandbox>>
  BY <1>1 DEF RInv, OneCondition, UserState, UserExists, ResolvedState, Live
<1>2. CASE ClaimMoves
  BY <1>2, ClaimMovesAllowed DEF ClaimMoves, RInv, OneCondition
<1>3. ASSUME NEW u \in Users, NEW s \in Sandboxes, Adopt(u, s)
      PROVE  Reported!Next /\ OneCondition'
  BY <1>0, <1>3, AdoptAllowed
<1>4. ASSUME NEW s \in Sandboxes, sandbox[s].phase = "live",
             NEW o \in Written(sandbox[s]), SandboxMoves(s, o)
      PROVE  /\ Reported!Next \/ \A u \in Users : UserState(u)' = UserState(u)
             /\ OneCondition'
  BY <1>0, <1>4, WriteAllowed
<1> QED BY <1>1, <1>2, <1>3, <1>4, StepWrites DEF RInv

\* Whatever calls, controller and administrator do, a client that polls the
\* status of any number of users sees each of them move along the lifecycle:
\* no suspension and no wake without its transition (resolve.go:114-129).
THEOREM StatesFollowLifecycle == Spec => StatesMoveAlongLifecycle
<1>1. Init => RInv
  BY InitInv DEF Init, KubeInit, Unborn, RInv, OneCondition
<1>2. RInv /\ [Next]_vars => RInv'
  BY NextInv, StatesNext DEF RInv
<1>3. Init => Reported!Init
  BY DEF Init, KubeInit, UserState, UserExists, Reported!Init
<1>4. RInv /\ [Next]_vars => [Reported!Next]_([u \in Users |-> UserState(u)])
  BY StatesNext
<1> QED BY <1>1, <1>2, <1>3, <1>4, PTL DEF Spec, StatesMoveAlongLifecycle, Reported!Spec


-----------------------------------------------------------------------------
(* How long a caller of Resume is held (WakeHold).                         *)

Turn(i) == i * WakeTimeout

\* What the holder of u's mutex may still keep the queue waiting.
Owed(u) == IF wakeMu[u] = Unlocked THEN 0 ELSE WakeTimeout - waited[wakeMu[u]]

\* What a newcomer that overtakes u's queue may still keep it waiting: nothing
\* once it has done so, or in starvation mode.
Credit(u) == IF starving[u] \/ (woken[u] /\ wakeMu[u] # Unlocked) THEN 0 ELSE WakeTimeout

\* The queue of a user's mutex: calls of that user that wait for it, each once.
InQueue(u) ==
    /\ \A i \in 1..Len(queue[u]) : pc[queue[u][i]] = "lock" /\ who[queue[u][i]] = u
    /\ \A i, j \in 1..Len(queue[u]) : queue[u][i] = queue[u][j] => i = j

\* A mutex that is held is held by a call between Lock and return.
InUse(u) == wakeMu[u] # Unlocked => pc[wakeMu[u]] \in Holding /\ who[wakeMu[u]] = u

\* A caller is woken in normal mode, and no time passes before it has tried.
WakesOne(u) ==
    woken[u] => /\ queue[u] # <<>> /\ ~starving[u]
                /\ wakeMu[u] # Unlocked => waited[wakeMu[u]] = 0

Sorted(u) == \A i, j \in 1..Len(queue[u]) : i <= j => held[queue[u][j]] <= held[queue[u][i]]

SpinRoom(u) ==
    wakeMu[u] = Unlocked /\ ~woken[u] /\ ~starving[u] => \A d \in InLine(u) : spun[d] < MaxSpins

\* The time a queued call has been held, the rest of the holder's turn, the
\* turns of those ahead of it and its own, and that of an overtaking newcomer.
QueueBound(u) ==
    \A i \in 1..Len(queue[u]) :
      \/ held[queue[u][i]] = 0
      \/ held[queue[u][i]] + Owed(u) + Turn(i) + Credit(u) <= Limit(spun[queue[u][i]])

LineInv(u) == InQueue(u) /\ InUse(u) /\ WakesOne(u) /\ Sorted(u) /\ SpinRoom(u) /\ QueueBound(u)

\* The clocks of a call start with it, the deadline's with the wait; the time
\* the holder has been held and the rest of its own turn stay within the limit.
ClockInv(c) ==
    /\ Newcomer(c) \/ pc[c] \in {"idle"} \cup SuspendSteps => held[c] = 0
    /\ pc[c] \notin {"poll", "returned"} => waited[c] = 0
    /\ pc[c] \in Holding => held[c] + (WakeTimeout - waited[c]) <= Limit(spun[c])
    /\ held[c] <= Limit(spun[c])

HoldInv == /\ IInv
           /\ HoldTypeOK
           /\ \A u \in Users : LineInv(u)
           /\ \A c \in Calls : ClockInv(c)

\* Sums of the account, regrouped.
LEMMA Regroup ==
    ASSUME NEW h \in Int, NEW o \in Int, NEW i \in Int, NEW k \in Int
    PROVE  /\ h + o + i + k = (h + o + k) + i
           /\ h + o + k \in Int /\ (h + o + k) + i \in Int
OBVIOUS

LEMMA LimitFacts ==
    ASSUME NEW s \in Nat
    PROVE  /\ Limit(s) \in Nat /\ Limit(s + 1) = Limit(s) + WakeTimeout /\ WakeTimeout <= Limit(s)
           /\ \A i \in Nat : /\ Turn(i) \in Nat /\ Turn(i + 1) = Turn(i) + WakeTimeout
                             /\ i + 1 <= Cardinality(Calls) => Turn(i) + WakeTimeout + WakeTimeout <= Limit(s)
<1> DEFINE n == Cardinality(Calls)
           Times(a) == WakeTimeout * a
<1>1. n \in Nat
  BY CallsAreFinite, FS_CardinalityType
<1>2. Limit(s) = Times(n + 1 + s) /\ Limit(s + 1) = Times(n + 1 + (s + 1))
  BY DEF Limit
<1>3. \A a \in Nat : Times(a) \in Nat /\ Turn(a) = Times(a) /\ Times(a + 1) = Times(a) + WakeTimeout
  BY WakeTimeoutAssumption DEF Turn
<1>4. \A a, b \in Nat : Times(a + b) = Times(a) + Times(b)
  BY WakeTimeoutAssumption
<1> HIDE DEF n, Times
<1>5. Limit(s) \in Nat /\ Limit(s + 1) = Limit(s) + WakeTimeout
  <2>1. n + 1 + s \in Nat /\ n + 1 + (s + 1) = (n + 1 + s) + 1
    BY <1>1
  <2> QED BY <2>1, <1>2, <1>3
<1>6. WakeTimeout <= Limit(s)
  <2>1. n + s \in Nat /\ n + 1 + s = (n + s) + 1
    BY <1>1
  <2>2. Limit(s) = Times(n + s) + WakeTimeout /\ Times(n + s) \in Nat
    BY <2>1, <1>2, <1>3
  <2> QED BY <2>2, WakeTimeoutAssumption
<1>7. ASSUME NEW i \in Nat
      PROVE  /\ Turn(i) \in Nat /\ Turn(i + 1) = Turn(i) + WakeTimeout
             /\ i + 1 <= n => Turn(i) + WakeTimeout + WakeTimeout <= Limit(s)
  <2>1. Turn(i) \in Nat /\ Turn(i + 1) = Turn(i) + WakeTimeout
    BY <1>3
  <2>2. ASSUME i + 1 <= n PROVE Turn(i) + WakeTimeout + WakeTimeout <= Limit(s)
    <3>1. PICK k \in Nat : n + 1 + s = ((i + 1) + 1) + k
      <4>1. n + 1 + s - ((i + 1) + 1) \in Nat
        BY <1>1, <2>2
      <4> QED BY <4>1, <1>1
    <3>2. i + 1 \in Nat /\ (i + 1) + 1 \in Nat
      OBVIOUS
    <3>3. Limit(s) = Times((i + 1) + 1) + Times(k) /\ Times(k) \in Nat
      <4>1. Times((i + 1) + 1) + Times(k) = Times(((i + 1) + 1) + k)
        BY <3>2, <1>4
      <4>2. Times(k) \in Nat
        BY <1>3
      <4> QED BY <3>1, <4>1, <4>2, <1>2
    <3>4. Times((i + 1) + 1) = Turn(i) + WakeTimeout + WakeTimeout
      BY <3>2, <1>3
    <3> QED BY <3>3, <3>4, <2>1, WakeTimeoutAssumption
  <2> QED BY <2>1, <2>2
<1> QED BY <1>5, <1>6, <1>7 DEF n

\* The variables of HoldInv have their types.
LEMMA HoldVars ==
    ASSUME HoldInv
    PROVE  /\ pc \in [Calls -> Steps] /\ who \in [Calls -> Users \cup {NoUser}]
           /\ wakeMu \in [Users -> Calls \cup {Unlocked}] /\ Unlocked \notin Calls
           /\ queue \in [Users -> Seq(Calls)]
           /\ woken \in [Users -> BOOLEAN] /\ starving \in [Users -> BOOLEAN]
           /\ spun \in [Calls -> 0..MaxSpins] /\ waited \in [Calls -> 0..WakeTimeout]
           /\ held \in [Calls -> 0..Horizon] /\ Horizon \in Nat
           /\ \A u \in Users : Len(queue[u]) \in Nat
           /\ \A u \in Users : \A i \in 1..Len(queue[u]) : queue[u][i] \in Calls
           /\ \A c \in Calls : /\ held[c] \in Nat /\ spun[c] \in Nat /\ Limit(spun[c]) \in Nat
                               /\ waited[c] \in 0..WakeTimeout
<1>1. Horizon \in Nat
  BY MaxSpinsAssumption, LimitFacts DEF Horizon
<1>2. \A c \in Calls : spun[c] \in Nat
  BY MaxSpinsAssumption DEF HoldInv, HoldTypeOK
<1>3. /\ pc \in [Calls -> Steps] /\ who \in [Calls -> Users \cup {NoUser}]
      /\ wakeMu \in [Users -> Calls \cup {Unlocked}] /\ queue \in [Users -> Seq(Calls)]
      /\ woken \in [Users -> BOOLEAN] /\ starving \in [Users -> BOOLEAN]
      /\ spun \in [Calls -> 0..MaxSpins] /\ waited \in [Calls -> 0..WakeTimeout]
      /\ held \in [Calls -> 0..Horizon]
  BY DEF HoldInv, HoldTypeOK, TypeOK
<1>4. \A u \in Users : Len(queue[u]) \in Nat /\ \A i \in 1..Len(queue[u]) : queue[u][i] \in Calls
  BY <1>3
<1>5. \A c \in Calls : held[c] \in Nat /\ waited[c] \in 0..WakeTimeout
  BY <1>1, <1>3
<1>6. \A c \in Calls : Limit(spun[c]) \in Nat
  BY <1>2, LimitFacts
<1> QED BY <1>1, <1>2, <1>3, <1>4, <1>5, <1>6, CallsAssumption

\* A line is not disturbed by what happens to others.
LEMMA LineKept ==
    ASSUME HoldInv, NEW v \in Users,
           queue'[v] = queue[v], woken'[v] = woken[v], starving'[v] = starving[v], wakeMu'[v] = wakeMu[v],
           \A d \in Calls : d \in InLine(v) \/ d = wakeMu[v] =>
              /\ who'[d] = who[d] /\ held'[d] = held[d] /\ spun'[d] = spun[d] /\ waited'[d] = waited[d]
              /\ d \in InLine(v) => pc'[d] = pc[d]
              /\ d = wakeMu[v] => pc'[d] \in Holding
    PROVE  LineInv(v)'
<1>1. \A i \in 1..Len(queue[v]) : queue[v][i] \in Calls /\ queue[v][i] \in InLine(v)
  BY HoldVars DEF InLine
<1>2. wakeMu[v] # Unlocked => wakeMu[v] \in Calls
  BY HoldVars
<1>3. LineInv(v)
  BY DEF HoldInv
<1>4. InQueue(v)' /\ InUse(v)' /\ Sorted(v)'
  BY <1>1, <1>2, <1>3 DEF LineInv, InQueue, InUse, Sorted
<1>5. Owed(v)' = Owed(v) /\ Credit(v)' = Credit(v)
  BY <1>2 DEF Owed, Credit
<1>6. WakesOne(v)'
  BY <1>2, <1>3 DEF LineInv, WakesOne
<1>7. SpinRoom(v)'
  <2>1. InLine(v)' = InLine(v)
    BY DEF InLine
  <2>2. \A d \in InLine(v) : spun'[d] = spun[d]
    BY <1>1 DEF InLine
  <2> QED BY <1>3, <2>1, <2>2 DEF LineInv, SpinRoom
<1>8. QueueBound(v)'
  BY <1>1, <1>3, <1>5 DEF LineInv, QueueBound, Limit, Turn
<1> QED BY <1>4, <1>6, <1>7, <1>8 DEF LineInv

\* Nor is a call by steps of others.
LEMMA CallKept ==
    ASSUME HoldInv, NEW d \in Calls,
           pc'[d] = pc[d], held'[d] = held[d], spun'[d] = spun[d], waited'[d] = waited[d],
           Newcomer(d)' => Newcomer(d)
    PROVE  ClockInv(d)'
BY DEF HoldInv, ClockInv, Limit

\* A user's line and the other users' have no call in common.
LEMMA Apart ==
    ASSUME HoldInv, NEW u \in Users, NEW v \in Users, NEW d \in Calls,
           d \in InLine(v) \/ d = wakeMu[v]
    PROVE  /\ who[d] = v /\ pc[d] \in {"lock"} \cup Holding
           /\ d \in InLine(v) => pc[d] = "lock"
           /\ d = wakeMu[v] => pc[d] \in Holding
<1>1. d \in InLine(v) => who[d] = v /\ pc[d] = "lock"
  BY DEF HoldInv, LineInv, InQueue, InLine
<1>2. d = wakeMu[v] => who[d] = v /\ pc[d] \in Holding
  BY HoldVars DEF HoldInv, LineInv, InUse
<1> QED BY <1>1, <1>2

\* What a step of a call outside of Lock does to its position and its mutex.
LEMMA StepEffect ==
    ASSUME IInv, NEW c \in Calls, CallStep(c), pc[c] # "lock"
    PROVE  /\ UNCHANGED who /\ pc[c] \notin {"idle", "lock", "returned"}
           /\ \A d \in Calls \ {c} : pc'[d] = pc[d]
           /\ \/ pc[c] \in Holding \ {"poll"} /\ pc'[c] \in Holding /\ UNCHANGED wakeMu
              \/ pc[c] \in SuspendSteps /\ pc'[c] \in SuspendSteps /\ UNCHANGED wakeMu
              \/ pc'[c] = "returned" /\ Unlock(c)
<1> USE DEF IInv, TypeOK, Holding, SuspendSteps
<1>1. CASE ResumeStep(c)
  BY <1>1 DEF ResumeStep, Lock, ResumeResolve, WakePatch, RecordReason, Poll, PollFails, WaitTimeout, Return, Goto
<1>2. CASE SuspendStep(c)
  BY <1>2 DEF SuspendStep, SuspendResolve, CaptureRead, CaptureWrite, CaptureFails, SuspendPatch,
     SuspendConfirm, Return, Goto
<1>3. CASE PatchNotFound(c) \/ ApiFailure(c)
  BY <1>3 DEF PatchNotFound, ApiFailure, Fallible, Return
<1> QED BY <1>1, <1>2, <1>3 DEF CallStep

\* A step of WakeHold is a step of Lifecycle or leaves it alone.
LEMMA HoldStepIsStep == [HoldNext]_holdVars => [Next]_vars
BY DEF HoldNext, HeldResume, HeldSuspend, HeldLock, Barge, LineUp, FirstTakes, FirstFails, HeldStep,
   HeldFinish, HeldEnvironment, HeldTick, Next, Start, CallStep, ResumeStep, holdVars

\* The calls of a user that wait and the one that holds the mutex are
\* different calls.
LEMMA RoomInQueue ==
    ASSUME HoldInv, NEW u \in Users, wakeMu[u] # Unlocked
    PROVE  Len(queue[u]) + 1 <= Cardinality(Calls)
<1> DEFINE n == Len(queue[u])
           f == [i \in 1..(n + 1) |-> IF i <= n THEN queue[u][i] ELSE wakeMu[u]]
<1>1. n \in Nat
  BY HoldVars
<1>2. \A i \in 1..n : queue[u][i] \in Calls /\ pc[queue[u][i]] = "lock"
  BY HoldVars DEF HoldInv, LineInv, InQueue
<1>3. wakeMu[u] \in Calls /\ pc[wakeMu[u]] # "lock"
  BY HoldVars DEF HoldInv, LineInv, InUse, Holding
<1>4. \A i, j \in 1..n : queue[u][i] = queue[u][j] => i = j
  BY DEF HoldInv, LineInv, InQueue
<1> HIDE DEF n
<1>5. ASSUME NEW i \in 1..(n + 1)
      PROVE  \/ i \in 1..n /\ f[i] = queue[u][i]
             \/ i = n + 1 /\ f[i] = wakeMu[u]
  BY <1>1
<1>6. f \in [1..(n + 1) -> Calls]
  BY <1>1, <1>2, <1>3
<1> HIDE DEF f
<1>7. \A i, j \in 1..(n + 1) : f[i] = f[j] => i = j
  BY <1>5, <1>4, <1>2, <1>3
<1>8. f \in Injection(1..(n + 1), Calls)
  BY <1>6, <1>7 DEF Injection, IsInjective
<1>9. Cardinality(1..(n + 1)) <= Cardinality(Calls)
  BY <1>8, CallsAreFinite, FS_Injection
<1>10. Cardinality(1..(n + 1)) = n + 1
  <2>1. n + 1 \in Int /\ ~(1 > n + 1)
    BY <1>1
  <2> QED BY <2>1, FS_Interval
<1> QED BY <1>9, <1>10 DEF n

\* A newcomer takes the mutex: its turn is the one the queue had to credit, or
\* one more spin.
LEMMA BargeInv ==
    ASSUME HoldInv, IInv', NEW c \in Calls, Barge(c)
    PROVE  HoldInv'
<1>0. PICK u \in Users : u = who[c]
  BY DEF Barge, Newcomer, HoldInv, IInv, KnowsUser
<1>1. /\ pc[c] = "lock" /\ c \notin InLine(u) /\ ~starving[u] /\ wakeMu[u] = Unlocked
      /\ pc' = [pc EXCEPT ![c] = "resolve"] /\ wakeMu' = [wakeMu EXCEPT ![u] = c]
      /\ spun' = [d \in Calls |-> IF d \in InLine(u) /\ ~woken[u] THEN spun[d] + 1 ELSE spun[d]]
      /\ UNCHANGED <<queue, woken, starving, waited, held, who>>
  BY <1>0 DEF Barge, Newcomer, Lock, MutexFree
<1>2. pc'[c] = "resolve" /\ (\A d \in Calls \ {c} : pc'[d] = pc[d])
      /\ wakeMu'[u] = c /\ (\A v \in Users \ {u} : wakeMu'[v] = wakeMu[v])
  BY <1>1, HoldVars
<1>3. LineInv(u) /\ held[c] = 0 /\ waited[c] = 0
  BY <1>1 DEF HoldInv, ClockInv, Barge
<1>4. \A d \in Calls : spun'[d] \in 0..MaxSpins /\ (spun'[d] = spun[d] \/ spun'[d] = spun[d] + 1)
  <2>1. \A d \in InLine(u) : ~woken[u] => spun[d] < MaxSpins
    BY <1>1, <1>3 DEF LineInv, SpinRoom
  <2> QED BY <2>1, <1>1, HoldVars, MaxSpinsAssumption
<1>5. \A d \in Calls : Limit(spun'[d]) \in Nat /\ Limit(spun'[d]) >= Limit(spun[d])
  <2> SUFFICES ASSUME NEW d \in Calls PROVE Limit(spun'[d]) \in Nat /\ Limit(spun'[d]) >= Limit(spun[d])
    OBVIOUS
  <2>1. spun[d] \in Nat /\ Limit(spun[d]) \in Nat /\ Limit(spun[d] + 1) = Limit(spun[d]) + WakeTimeout
    BY HoldVars, LimitFacts
  <2> QED BY <1>4, <2>1, WakeTimeoutAssumption
<1>6. HoldTypeOK'
  BY <1>1, <1>4, HoldVars DEF HoldTypeOK, Horizon, Limit, IInv
<1>7. ASSUME NEW v \in Users, v # u PROVE LineInv(v)'
  <2>1. \A d \in Calls : d \in InLine(v) \/ d = wakeMu[v] => d # c /\ d \notin InLine(u)
    <3> SUFFICES ASSUME NEW d \in Calls, d \in InLine(v) \/ d = wakeMu[v] PROVE d # c /\ d \notin InLine(u)
      OBVIOUS
    <3>1. who[d] = v
      BY Apart
    <3>2. d \in InLine(u) => who[d] = u
      BY Apart
    <3> QED BY <3>1, <3>2, <1>0, <1>7
  <2>2. \A d \in Calls : d = wakeMu[v] => pc[d] \in Holding
    BY Apart
  <2> QED BY <1>1, <1>2, <1>7, <2>1, <2>2, LineKept
<1>8. LineInv(u)'
  <2>a. \A i \in 1..Len(queue[u]) : queue[u][i] \in InLine(u) /\ queue[u][i] \in Calls \ {c}
    BY <1>1, HoldVars DEF InLine
  <2>1. InQueue(u)' /\ Sorted(u)'
    BY <1>1, <1>2, <1>3, <2>a DEF LineInv, InQueue, Sorted
  <2>2. InUse(u)'
    BY <1>0, <1>1, <1>2 DEF InUse, Holding
  <2>3. WakesOne(u)'
    BY <1>1, <1>2, <1>3 DEF LineInv, WakesOne
  <2>4. SpinRoom(u)'
    BY <1>2, HoldVars DEF SpinRoom
  <2>5. QueueBound(u)'
    <3> SUFFICES ASSUME NEW i \in 1..Len(queue[u]), held[queue[u][i]] # 0
                 PROVE  held[queue[u][i]] + Owed(u)' + Turn(i) + Credit(u)' <= Limit(spun'[queue[u][i]])
      BY <1>1 DEF QueueBound, Limit, Turn
    <3> DEFINE d == queue[u][i]
    <3>1. held[d] + Owed(u) + Turn(i) + Credit(u) <= Limit(spun[d])
      BY <1>3 DEF LineInv, QueueBound
    <3>2. Owed(u) = 0 /\ Credit(u) = WakeTimeout
      BY <1>1 DEF Owed, Credit
    <3>3. Owed(u)' = WakeTimeout
      BY <1>1, <1>2, <1>3, HoldVars, WakeTimeoutAssumption DEF Owed
    <3>4. d \in Calls /\ d \in InLine(u) /\ held[d] \in Nat /\ spun[d] \in Nat /\ Turn(i) \in Nat
      <4>1. i \in Nat
        BY HoldVars
      <4> QED BY <4>1, <2>a, HoldVars, LimitFacts
    <3> HIDE DEF d
    <3>5. CASE woken[u]
      <4>1. Credit(u)' = 0 /\ spun'[d] = spun[d]
        BY <1>1, <1>2, <3>4, <3>5, HoldVars DEF Credit
      <4>2. held[d] + Owed(u)' + Turn(i) + Credit(u)' <= Limit(spun'[d])
        BY <3>1, <3>2, <3>3, <3>4, <4>1, WakeTimeoutAssumption
      <4> QED BY <4>2 DEF d
    <3>6. CASE ~woken[u]
      <4>1. Credit(u)' = WakeTimeout /\ spun'[d] = spun[d] + 1
        BY <1>1, <1>2, <3>4, <3>6, HoldVars DEF Credit
      <4>2. Limit(spun'[d]) = Limit(spun[d]) + WakeTimeout /\ Limit(spun[d]) \in Nat
        BY <3>4, <4>1, LimitFacts
      <4>3. held[d] + Owed(u)' + Turn(i) + Credit(u)' <= Limit(spun'[d])
        BY <3>1, <3>2, <3>3, <3>4, <4>1, <4>2, WakeTimeoutAssumption
      <4> QED BY <4>3 DEF d
    <3> QED BY <3>5, <3>6
  <2> QED BY <2>1, <2>2, <2>3, <2>4, <2>5 DEF LineInv
<1>9. ASSUME NEW d \in Calls PROVE ClockInv(d)'
  <2>1. CASE d = c
    <3>1. 0 + (WakeTimeout - 0) <= Limit(spun'[c]) /\ 0 <= Limit(spun'[c])
      BY <1>4, LimitFacts, WakeTimeoutAssumption
    <3> QED BY <2>1, <3>1, <1>1, <1>2, <1>3 DEF ClockInv, Newcomer, Limit, SuspendSteps
  <2>2. CASE d # c
    <3>1. ClockInv(d) /\ (Newcomer(d)' => Newcomer(d))
      BY <1>1, <1>2, <2>2 DEF HoldInv, Newcomer, InLine
    <3> QED BY <2>2, <3>1, <1>1, <1>2, <1>5, HoldVars, WakeTimeoutAssumption DEF ClockInv, Limit
  <2> QED BY <2>1, <2>2
<1> QED BY <1>6, <1>7, <1>8, <1>9 DEF HoldInv

\* A newcomer joins the end of a queue that it cannot overtake.
LEMMA LineUpInv ==
    ASSUME HoldInv, IInv', NEW c \in Calls, LineUp(c)
    PROVE  HoldInv'
<1>0. PICK u \in Users : u = who[c]
  BY DEF LineUp, Newcomer, HoldInv, IInv, KnowsUser
<1> DEFINE q == queue[u]
<1>1. /\ pc[c] = "lock" /\ c \notin InLine(u) /\ (wakeMu[u] # Unlocked \/ starving[u])
      /\ queue' = [queue EXCEPT ![u] = Append(@, c)]
      /\ UNCHANGED <<pc, who, wakeMu, woken, starving, spun, waited, held>>
  BY <1>0 DEF LineUp, Newcomer, MutexFree, vars, callVars
<1>2. /\ \A v \in Users \ {u} : queue'[v] = queue[v]
      /\ Len(queue'[u]) = Len(q) + 1 /\ Len(q) \in Nat
      /\ \A i \in 1..Len(q) : queue'[u][i] = q[i]
      /\ queue'[u][Len(q) + 1] = c
  BY <1>1, HoldVars
<1>3. LineInv(u) /\ held[c] = 0
  BY <1>1 DEF HoldInv, ClockInv, LineUp
<1>4. \A i \in 1..Len(queue'[u]) : \/ i \in 1..Len(q) /\ queue'[u][i] = q[i] /\ q[i] # c
                                   \/ i = Len(q) + 1 /\ queue'[u][i] = c
  BY <1>1, <1>2 DEF InLine
<1>5. HoldTypeOK'
  BY <1>1, HoldVars DEF HoldTypeOK, Horizon, Limit, IInv
<1>6. ASSUME NEW v \in Users, v # u PROVE LineInv(v)'
  <2>1. \A d \in Calls : d = wakeMu[v] => pc[d] \in Holding
    BY Apart
  <2> QED BY <1>1, <1>2, <1>6, <2>1, LineKept
<1>7. LineInv(u)'
  <2>0. \A i \in 1..Len(q) : q[i] \in Calls /\ held[q[i]] \in Nat
    BY HoldVars
  <2>1. InQueue(u)'
    <3>1. \A i \in 1..Len(queue'[u]) : pc'[queue'[u][i]] = "lock" /\ who'[queue'[u][i]] = u
      BY <1>0, <1>1, <1>3, <1>4 DEF LineInv, InQueue
    <3>2. \A i, j \in 1..Len(q) : q[i] = q[j] => i = j
      BY <1>3 DEF LineInv, InQueue
    <3>3. \A i, j \in 1..Len(queue'[u]) : queue'[u][i] = queue'[u][j] => i = j
      <4> HIDE DEF q
      <4> QED BY <1>4, <3>2
    <3> QED BY <3>1, <3>3 DEF InQueue
  <2>2. Sorted(u)'
    <3> SUFFICES ASSUME NEW i \in 1..Len(queue'[u]), NEW j \in 1..Len(queue'[u]), i <= j
                 PROVE  held[queue'[u][j]] <= held[queue'[u][i]]
      BY <1>1 DEF Sorted
    <3>1. \A k, l \in 1..Len(q) : k <= l => held[q[l]] <= held[q[k]]
      BY <1>3 DEF LineInv, Sorted
    <3>2. i = Len(q) + 1 => j = Len(q) + 1
      BY <1>2
    <3> HIDE DEF q
    <3> QED BY <1>3, <1>4, <2>0, <3>1, <3>2
  <2>3. InUse(u)' /\ WakesOne(u)'
    <3>1. queue'[u] # <<>>
      BY <1>2
    <3> QED BY <3>1, <1>1, <1>3 DEF LineInv, InUse, WakesOne
  <2>4. SpinRoom(u)'
    BY <1>1 DEF SpinRoom
  <2>5. QueueBound(u)'
    <3>1. Owed(u)' = Owed(u) /\ Credit(u)' = Credit(u)
      BY <1>1 DEF Owed, Credit
    <3>2. \A i \in 1..Len(q) : held[q[i]] = 0 \/ held[q[i]] + Owed(u) + Turn(i) + Credit(u) <= Limit(spun[q[i]])
      BY <1>3 DEF LineInv, QueueBound
    <3> SUFFICES ASSUME NEW i \in 1..Len(queue'[u]), held[queue'[u][i]] # 0
                 PROVE  held[queue'[u][i]] + Owed(u) + Turn(i) + Credit(u) <= Limit(spun[queue'[u][i]])
      BY <1>1, <3>1 DEF QueueBound, Limit, Turn
    <3>3. i \in 1..Len(q) /\ queue'[u][i] = q[i]
      BY <1>3, <1>4
    <3> QED BY <3>2, <3>3
  <2> QED BY <2>1, <2>2, <2>3, <2>4, <2>5 DEF LineInv
<1>8. ASSUME NEW d \in Calls PROVE ClockInv(d)'
  <2>1. Newcomer(d)' => Newcomer(d)
    <3> SUFFICES ASSUME pc[d] = "lock", d \notin InLine(who[d])' PROVE d \notin InLine(who[d])
      BY <1>1 DEF Newcomer, InLine
    <3>1. who[d] \in Users
      BY DEF HoldInv, IInv, KnowsUser
    <3>2. CASE who[d] # u
      BY <3>1, <3>2, <1>1, <1>2 DEF InLine
    <3>3. CASE who[d] = u
      <4>1. \A i \in 1..Len(q) : i \in 1..Len(queue'[u])
        BY <1>2
      <4> QED BY <3>3, <4>1, <1>1, <1>2 DEF InLine
    <3> QED BY <3>2, <3>3
  <2> QED BY <2>1, <1>1, CallKept
<1> QED BY <1>5, <1>6, <1>7, <1>8 DEF HoldInv

\* The head of the queue takes the mutex; everyone behind it moves up one
\* turn, and starvation mode ends only when nobody has waited.
LEMMA FirstTakesInv ==
    ASSUME HoldInv, IInv', NEW c \in Calls, FirstTakes(c)
    PROVE  HoldInv'
<1>0. PICK u \in Users : u = who[c]
  BY DEF FirstTakes, First, HoldInv, IInv, KnowsUser
<1> DEFINE q == queue[u]
<1>1. /\ pc[c] = "lock" /\ wakeMu[u] = Unlocked /\ q # <<>> /\ c = Head(q)
      /\ pc' = [pc EXCEPT ![c] = "resolve"] /\ wakeMu' = [wakeMu EXCEPT ![u] = c]
      /\ queue' = [queue EXCEPT ![u] = Tail(@)] /\ woken' = [woken EXCEPT ![u] = FALSE]
      /\ UNCHANGED <<who, spun, waited, held>>
  BY <1>0 DEF FirstTakes, First, Lock, MutexFree
<1>2. PICK s \in BOOLEAN : /\ s => starving[u]
                           /\ starving[u] /\ Len(q) > 1 /\ held[c] > 0 => s
                           /\ starving' = [starving EXCEPT ![u] = s]
  BY <1>0 DEF FirstTakes
<1>3. /\ pc'[c] = "resolve" /\ wakeMu'[u] = c /\ woken'[u] = FALSE /\ starving'[u] = s
      /\ \A d \in Calls \ {c} : pc'[d] = pc[d]
      /\ \A v \in Users \ {u} : /\ wakeMu'[v] = wakeMu[v] /\ queue'[v] = queue[v]
                                /\ woken'[v] = woken[v] /\ starving'[v] = starving[v]
  BY <1>1, <1>2, HoldVars
<1>4. /\ Len(q) \in Nat \ {0} /\ Len(queue'[u]) = Len(q) - 1
      /\ \A i \in 1..(Len(q) - 1) : queue'[u][i] = q[i + 1]
      /\ q[1] = c
  BY <1>1, HoldVars
<1>5. LineInv(u) /\ waited[c] = 0
  BY <1>1 DEF HoldInv, ClockInv
<1>6. \A i \in 1..(Len(q) - 1) : i \in Nat /\ i + 1 \in 1..Len(q) /\ q[i + 1] \in Calls \ {c}
  <2> SUFFICES ASSUME NEW i \in 1..(Len(q) - 1) PROVE i \in Nat /\ i + 1 \in 1..Len(q) /\ q[i + 1] \in Calls \ {c}
    OBVIOUS
  <2>1. i \in Nat /\ i + 1 \in 1..Len(q) /\ 1 \in 1..Len(q) /\ i + 1 # 1
    BY <1>4
  <2>2. q[i + 1] # q[1]
    BY <1>5, <2>1 DEF LineInv, InQueue
  <2> QED BY <2>1, <2>2, <1>4, HoldVars
<1>7. HoldTypeOK'
  <2>1. Tail(q) \in Seq(Calls)
    BY <1>1, HoldVars
  <2> QED BY <2>1, <1>1, <1>2, HoldVars DEF HoldTypeOK, Horizon, Limit, IInv
<1>8. ASSUME NEW v \in Users, v # u PROVE LineInv(v)'
  <2>1. \A d \in Calls : d \in InLine(v) \/ d = wakeMu[v] => d # c
    <3> SUFFICES ASSUME NEW d \in Calls, d \in InLine(v) \/ d = wakeMu[v] PROVE d # c
      OBVIOUS
    <3>1. who[d] = v
      BY Apart
    <3> QED BY <3>1, <1>0, <1>8
  <2>2. \A d \in Calls : d = wakeMu[v] => pc[d] \in Holding
    BY Apart
  <2>3. /\ queue'[v] = queue[v] /\ woken'[v] = woken[v] /\ starving'[v] = starving[v] /\ wakeMu'[v] = wakeMu[v]
        /\ \A d \in Calls : d \in InLine(v) \/ d = wakeMu[v] =>
              /\ who'[d] = who[d] /\ held'[d] = held[d] /\ spun'[d] = spun[d] /\ waited'[d] = waited[d]
              /\ d \in InLine(v) => pc'[d] = pc[d]
              /\ d = wakeMu[v] => pc'[d] \in Holding
    BY <1>1, <1>3, <1>8, <2>1, <2>2
  <2> QED BY <2>3, LineKept
<1>9. LineInv(u)'
  <2>1. InQueue(u)'
    <3>1. \A i \in 1..(Len(q) - 1) : pc'[q[i + 1]] = "lock" /\ who'[q[i + 1]] = u
      BY <1>1, <1>3, <1>5, <1>6 DEF LineInv, InQueue
    <3>2. \A i, j \in 1..(Len(q) - 1) : q[i + 1] = q[j + 1] => i = j
      <4> SUFFICES ASSUME NEW i \in 1..(Len(q) - 1), NEW j \in 1..(Len(q) - 1), q[i + 1] = q[j + 1] PROVE i = j
        OBVIOUS
      <4>1. i + 1 = j + 1
        BY <1>5, <1>6 DEF LineInv, InQueue
      <4> QED BY <4>1
    <3>3. \A i \in 1..Len(queue'[u]) : i \in 1..(Len(q) - 1) /\ queue'[u][i] = q[i + 1]
      BY <1>4
    <3>4. \A i \in 1..Len(queue'[u]) : pc'[queue'[u][i]] = "lock" /\ who'[queue'[u][i]] = u
      BY <3>1, <3>3
    <3>5. \A i, j \in 1..Len(queue'[u]) : queue'[u][i] = queue'[u][j] => i = j
      <4> HIDE DEF q
      <4> QED BY <3>2, <3>3
    <3> QED BY <3>4, <3>5 DEF InQueue
  <2>2. Sorted(u)'
    <3> SUFFICES ASSUME NEW i \in 1..(Len(q) - 1), NEW j \in 1..(Len(q) - 1), i <= j
                 PROVE  held[q[j + 1]] <= held[q[i + 1]]
      BY <1>1, <1>4 DEF Sorted
    <3>1. i + 1 <= j + 1
      OBVIOUS
    <3> QED BY <3>1, <1>5, <1>6 DEF LineInv, Sorted
  <2>3. InUse(u)'
    BY <1>0, <1>1, <1>3 DEF InUse, Holding
  <2>4. WakesOne(u)'
    BY <1>3 DEF WakesOne
  <2>5. SpinRoom(u)'
    BY <1>3, HoldVars DEF SpinRoom
  <2>6. QueueBound(u)'
    <3> SUFFICES ASSUME NEW i \in 1..(Len(q) - 1), held[q[i + 1]] # 0
                 PROVE  held[q[i + 1]] + Owed(u)' + Turn(i) + Credit(u)' <= Limit(spun[q[i + 1]])
      BY <1>1, <1>4 DEF QueueBound, Limit, Turn
    <3> DEFINE d == q[i + 1]
    <3>1. held[d] + Owed(u) + Turn(i + 1) + Credit(u) <= Limit(spun[d])
      BY <1>5, <1>6 DEF LineInv, QueueBound
    <3>2. d \in Calls /\ held[d] \in Nat /\ Limit(spun[d]) \in Nat
      BY <1>6, HoldVars
    <3>3. i \in Nat /\ Turn(i) \in Nat /\ Turn(i + 1) = Turn(i) + WakeTimeout
      <4>1. 0 \in Nat /\ i \in Nat
        BY <1>6
      <4> QED BY <4>1, LimitFacts
    <3>4. Owed(u) = 0 /\ Owed(u)' = WakeTimeout
      <4>1. c # Unlocked /\ waited'[c] = 0 /\ wakeMu'[u] = c
        BY <1>1, <1>3, <1>5, HoldVars
      <4>2. Owed(u) = 0 /\ Owed(u)' = WakeTimeout - 0
        BY <4>1, <1>1 DEF Owed
      <4> QED BY <4>2, WakeTimeoutAssumption
    <3>5. Credit(u)' = Credit(u)
      <4>1. held[c] > 0
        <5>1. held[d] <= held[c]
          <6>1. 1 \in 1..Len(q) /\ i + 1 \in 1..Len(q) /\ 1 <= i + 1
            BY <1>4, <1>6
          <6> QED BY <6>1, <1>4, <1>5 DEF LineInv, Sorted
        <5>2. held[d] \in Nat /\ held[d] # 0 /\ held[c] \in Nat
          BY <3>2, HoldVars
        <5> HIDE DEF d
        <5> QED BY <5>1, <5>2
      <4>2. Len(q) > 1
        BY <1>4
      <4>3. s = starving[u]
        BY <4>1, <4>2, <1>2, HoldVars
      <4>4. woken'[u] = FALSE /\ wakeMu[u] = Unlocked /\ starving'[u] = starving[u]
        BY <4>3, <1>1, <1>3
      <4> QED BY <4>4 DEF Credit
    <3>6. Credit(u) \in Nat
      BY WakeTimeoutAssumption DEF Credit
    <3> HIDE DEF d
    <3>7. held[d] + Owed(u)' + Turn(i) + Credit(u)' <= Limit(spun[d])
      BY <3>1, <3>2, <3>3, <3>4, <3>5, <3>6, WakeTimeoutAssumption
    <3> QED BY <3>7 DEF d
  <2> QED BY <2>1, <2>2, <2>3, <2>4, <2>5, <2>6 DEF LineInv
<1>10. ASSUME NEW d \in Calls PROVE ClockInv(d)'
  <2>1. CASE d = c
    <3>1. held[c] + WakeTimeout <= Limit(spun[c])
      <4>1. CASE held[c] = 0
        <5>1. spun[c] \in Nat
          BY HoldVars
        <5>2. WakeTimeout <= Limit(spun[c])
          BY <5>1, LimitFacts
        <5> QED BY <4>1, <5>2, WakeTimeoutAssumption
      <4>2. CASE held[c] # 0
        <5>1. held[c] + Owed(u) + Turn(1) + Credit(u) <= Limit(spun[c])
          <6>1. 1 \in 1..Len(q)
            BY <1>4
          <6> QED BY <6>1, <4>2, <1>4, <1>5 DEF LineInv, QueueBound
        <5>2. Owed(u) = 0 /\ Turn(1) = WakeTimeout /\ Credit(u) \in Nat
          BY <1>1, WakeTimeoutAssumption DEF Owed, Turn, Credit
        <5> QED BY <5>1, <5>2, HoldVars, WakeTimeoutAssumption
      <4> QED BY <4>1, <4>2
    <3>2. held[c] + (WakeTimeout - waited[c]) <= Limit(spun[c])
      BY <3>1, <1>5, HoldVars, WakeTimeoutAssumption
    <3> QED BY <2>1, <3>2, <1>1, <1>3, <1>5 DEF HoldInv, ClockInv, Newcomer, Limit, SuspendSteps
  <2>2. CASE d # c
    <3>1. Newcomer(d)' => Newcomer(d)
      <4> SUFFICES ASSUME pc[d] = "lock", d \notin InLine(who[d])', d \in InLine(who[d]) PROVE FALSE
        BY <1>1, <1>3, <2>2 DEF Newcomer, InLine
      <4>1. who[d] \in Users
        BY DEF HoldInv, IInv, KnowsUser
      <4>2. who[d] = u
        BY <4>1, <1>1, <1>3 DEF InLine
      <4>3. PICK j \in 1..Len(q) : q[j] = d
        BY <4>2 DEF InLine
      <4>4. j - 1 \in 1..(Len(q) - 1) /\ q[(j - 1) + 1] = d
        BY <4>3, <2>2, <1>4
      <4>5. (j - 1) \in 1..Len(queue'[u]) /\ queue'[u][j - 1] = d
        BY <4>4, <1>4
      <4>6. d \in InLine(u)'
        BY <4>5 DEF InLine
      <4> QED BY <4>2, <4>6, <1>1 DEF InLine
    <3> QED BY <2>2, <3>1, <1>1, <1>3, CallKept
  <2> QED BY <2>1, <2>2
<1> QED BY <1>7, <1>8, <1>9, <1>10 DEF HoldInv

\* A caller that was woken in vain goes back to the head of the queue; the
\* newcomer has used its credit up, and the queue starves if it has waited.
LEMMA FirstFailsInv ==
    ASSUME HoldInv, IInv', NEW c \in Calls, FirstFails(c)
    PROVE  HoldInv'
<1>0. PICK u \in Users : u = who[c]
  BY DEF FirstFails, First, HoldInv, IInv, KnowsUser
<1> DEFINE q == queue[u]
<1>1. /\ q # <<>> /\ c = Head(q) /\ woken[u] /\ wakeMu[u] # Unlocked
      /\ woken' = [woken EXCEPT ![u] = FALSE]
      /\ UNCHANGED <<pc, who, wakeMu, queue, spun, waited, held>>
  BY <1>0 DEF FirstFails, First, MutexFree, vars, callVars
<1>2. PICK s \in BOOLEAN : (held[c] > 0 => s) /\ starving' = [starving EXCEPT ![u] = s]
  BY <1>0 DEF FirstFails, Starves
<1>3. /\ woken'[u] = FALSE /\ starving'[u] = s
      /\ \A v \in Users \ {u} : woken'[v] = woken[v] /\ starving'[v] = starving[v]
  BY <1>1, <1>2, HoldVars
<1>4. HoldTypeOK'
  BY <1>1, <1>2, HoldVars DEF HoldTypeOK, Horizon, Limit, IInv
<1>5. ASSUME NEW v \in Users, v # u PROVE LineInv(v)'
  <2>1. \A d \in Calls : d = wakeMu[v] => pc[d] \in Holding
    BY Apart
  <2> QED BY <1>1, <1>3, <1>5, <2>1, LineKept
<1>6. LineInv(u)'
  <2>0. LineInv(u)
    BY DEF HoldInv
  <2>1. InQueue(u)' /\ InUse(u)' /\ Sorted(u)'
    BY <2>0, <1>1 DEF LineInv, InQueue, InUse, Sorted
  <2>2. WakesOne(u)' /\ SpinRoom(u)'
    BY <1>1, <1>3 DEF WakesOne, SpinRoom
  <2>3. QueueBound(u)'
    <3> SUFFICES ASSUME NEW i \in 1..Len(q), held[q[i]] # 0
                 PROVE  held[q[i]] + Owed(u)' + Turn(i) + Credit(u)' <= Limit(spun[q[i]])
      BY <1>1 DEF QueueBound, Limit, Turn
    <3>1. held[q[i]] + Owed(u) + Turn(i) + Credit(u) <= Limit(spun[q[i]])
      BY <2>0 DEF LineInv, QueueBound
    <3>2. held[q[i]] <= held[c]
      <4>1. 1 \in 1..Len(q) /\ 1 <= i /\ c = q[1]
        BY <1>1, HoldVars
      <4> QED BY <4>1, <2>0 DEF LineInv, Sorted
    <3>3. held[c] > 0
      <4>1. held[q[i]] \in Nat /\ held[c] \in Nat
        BY HoldVars
      <4> QED BY <3>2, <4>1
    <3>4. Credit(u) = 0 /\ Credit(u)' = 0 /\ Owed(u)' = Owed(u)
      BY <3>3, <1>1, <1>2, <1>3 DEF Credit, Owed
    <3> QED BY <3>1, <3>4
  <2> QED BY <2>1, <2>2, <2>3 DEF LineInv
<1>7. ASSUME NEW d \in Calls PROVE ClockInv(d)'
  BY <1>1, CallKept DEF Newcomer, InLine
<1> QED BY <1>4, <1>5, <1>6, <1>7 DEF HoldInv

\* A step that begins a call, of the cluster, or none: no mutex and no clock is
\* touched.
LEMMA HeldAsideInv ==
    ASSUME HoldInv, IInv', UNCHANGED <<wakeMu, queue, woken, starving, spun, waited, held>>,
           \A c \in Calls : \/ pc'[c] = pc[c] /\ who'[c] = who[c]
                            \/ pc[c] = "idle" /\ pc'[c] \in {"look", "lock"}
    PROVE  HoldInv'
<1>1. HoldTypeOK'
  BY DEF HoldInv, HoldTypeOK, Horizon, Limit, IInv
<1>2. ASSUME NEW v \in Users PROVE LineInv(v)'
  <2>1. \A d \in Calls : d \in InLine(v) \/ d = wakeMu[v] => /\ pc'[d] = pc[d] /\ who'[d] = who[d]
                                                             /\ d = wakeMu[v] => pc[d] \in Holding
    <3> SUFFICES ASSUME NEW d \in Calls, d \in InLine(v) \/ d = wakeMu[v]
                 PROVE  /\ pc'[d] = pc[d] /\ who'[d] = who[d]
                        /\ d = wakeMu[v] => pc[d] \in Holding
      OBVIOUS
    <3>1. pc[d] \in {"lock"} \cup Holding /\ (d = wakeMu[v] => pc[d] \in Holding)
      BY Apart
    <3> QED BY <3>1 DEF Holding
  <2> QED BY <2>1, LineKept
<1>3. ASSUME NEW d \in Calls PROVE ClockInv(d)'
  <2>1. CASE pc'[d] = pc[d] /\ who'[d] = who[d]
    <3>1. Newcomer(d)' => Newcomer(d)
      BY <2>1 DEF Newcomer, InLine
    <3> QED BY <2>1, <3>1, CallKept
  <2>2. CASE pc[d] = "idle" /\ pc'[d] \in {"look", "lock"}
    <3>1. held[d] = 0 /\ waited[d] = 0 /\ held[d] <= Limit(spun[d])
      BY <2>2 DEF HoldInv, ClockInv
    <3> QED BY <2>2, <3>1 DEF ClockInv, Holding, Limit
  <2> QED BY <2>1, <2>2
<1> QED BY <1>1, <1>2, <1>3 DEF HoldInv

\* A call that returns from Resume unlocks: what it leaves of its turn covers
\* the newcomer that may come next.
LEMMA HeldStepInv ==
    ASSUME HoldInv, IInv', NEW c \in Calls, HeldStep(c)
    PROVE  HoldInv'
<1>1. /\ UNCHANGED <<who, queue, starving, spun, waited, held>>
      /\ pc[c] \notin {"idle", "lock", "returned"}
      /\ \A d \in Calls \ {c} : pc'[d] = pc[d]
      /\ \/ pc[c] \in Holding \ {"poll"} /\ pc'[c] \in Holding /\ UNCHANGED wakeMu
         \/ pc[c] \in SuspendSteps /\ pc'[c] \in SuspendSteps /\ UNCHANGED wakeMu
         \/ pc'[c] = "returned" /\ Unlock(c)
      /\ IF wakeMu' = wakeMu THEN UNCHANGED woken ELSE Wake(who[c])
  BY StepEffect DEF HeldStep, HoldInv
<1>2. PICK u \in Users : u = who[c]
  BY <1>1 DEF HoldInv, IInv, KnowsUser
<1>3. \A v \in Users : wakeMu[v] = c => v = u
  <2> SUFFICES ASSUME NEW v \in Users, wakeMu[v] = c PROVE v = u
    OBVIOUS
  <2> QED BY <1>2, Apart
<1>4. \/ wakeMu' = wakeMu /\ woken' = woken
      \/ /\ wakeMu[u] = c /\ wakeMu' = [wakeMu EXCEPT ![u] = Unlocked] /\ pc'[c] = "returned"
         /\ Wake(u)
  <2>1. CASE wakeMu' = wakeMu
    BY <2>1, <1>1
  <2>2. CASE wakeMu' # wakeMu
    <3>1. pc'[c] = "returned" /\ Unlock(c) /\ Wake(u)
      BY <2>2, <1>1, <1>2
    <3>2. wakeMu[u] = c
      <4>1. PICK v \in Users : wakeMu[v] = c
        BY <2>2, <3>1, HoldVars DEF Unlock
      <4> QED BY <4>1, <1>3
    <3>3. wakeMu' = [wakeMu EXCEPT ![u] = Unlocked]
      BY <3>1, <3>2, <1>3, HoldVars DEF Unlock
    <3> QED BY <3>1, <3>2, <3>3
  <2> QED BY <2>1, <2>2
<1>5. HoldTypeOK'
  <2>1. woken' \in [Users -> BOOLEAN]
    BY <1>4, HoldVars DEF Wake
  <2> QED BY <2>1, <1>1, HoldVars DEF HoldTypeOK, Horizon, Limit, IInv
<1>6. ASSUME NEW v \in Users, wakeMu'[v] = wakeMu[v], woken'[v] = woken[v] PROVE LineInv(v)'
  <2>1. ASSUME NEW d \in Calls, d \in InLine(v) \/ d = wakeMu[v]
        PROVE  (d \in InLine(v) => pc'[d] = pc[d]) /\ (d = wakeMu[v] => pc'[d] \in Holding)
    <3>1. (d \in InLine(v) => pc[d] = "lock") /\ (d = wakeMu[v] => pc[d] \in Holding)
      BY <2>1, Apart
    <3>2. CASE d # c
      BY <3>1, <3>2, <1>1
    <3>3. CASE d = c
      <4>1. d \notin InLine(v) /\ d = wakeMu[v] /\ pc[c] \in Holding
        BY <2>1, <3>1, <3>3, <1>1
      <4>2. pc'[c] # "returned" \/ ~Unlock(c)
        BY <4>1, <3>3, <1>6, HoldVars DEF Unlock
      <4>3. pc'[c] \in Holding
        BY <4>1, <4>2, <1>1 DEF Holding, SuspendSteps
      <4> QED BY <4>1, <4>3, <3>3
    <3> QED BY <3>2, <3>3
  <2> QED BY <2>1, <1>1, <1>6, LineKept
<1>7. ASSUME wakeMu[u] = c, wakeMu' = [wakeMu EXCEPT ![u] = Unlocked], Wake(u)
      PROVE  LineInv(u)'
  <2>0. LineInv(u) /\ wakeMu'[u] = Unlocked /\ c # Unlocked
    BY <1>7, HoldVars DEF HoldInv
  <2>1. \/ queue[u] # <<>> /\ ~starving[u] /\ woken'[u]
        \/ (queue[u] = <<>> \/ starving[u] \/ Spinning(u)) /\ woken'[u] = woken[u]
    BY <1>7, HoldVars DEF Wake
  <2>2. InQueue(u)'
    <3>1. \A i \in 1..Len(queue[u]) : queue[u][i] \in Calls /\ queue[u][i] # c
      BY <2>0, <1>1, HoldVars DEF LineInv, InQueue
    <3> QED BY <2>0, <3>1, <1>1 DEF LineInv, InQueue
  <2>3. InUse(u)' /\ Sorted(u)'
    BY <2>0, <1>1 DEF LineInv, InUse, Sorted
  <2>4. WakesOne(u)'
    BY <2>0, <2>1, <1>1 DEF LineInv, WakesOne
  <2>5. SpinRoom(u)'
    <3> SUFFICES ASSUME ~woken'[u], ~starving[u] PROVE \A d \in InLine(u) : spun[d] < MaxSpins
      BY <1>1 DEF SpinRoom, InLine
    <3>1. queue[u] = <<>> \/ Spinning(u)
      BY <2>1
    <3>2. queue[u] = <<>> => InLine(u) = {}
      BY DEF InLine
    <3> QED BY <3>1, <3>2 DEF Spinning
  <2>6. QueueBound(u)'
    <3>1. Owed(u)' + Credit(u)' <= Owed(u) + Credit(u)
      <4>1. waited[c] \in 0..WakeTimeout /\ (woken[u] => waited[c] = 0)
        BY <2>0, <1>7, HoldVars DEF LineInv, WakesOne
      <4>2. Owed(u) = WakeTimeout - waited[c] /\ Owed(u)' = 0
        BY <2>0, <1>7 DEF Owed
      <4>3. Credit(u)' = IF starving[u] THEN 0 ELSE WakeTimeout
        BY <2>0, <1>1 DEF Credit
      <4>4. Credit(u) = IF starving[u] \/ woken[u] THEN 0 ELSE WakeTimeout
        BY <2>0, <1>7 DEF Credit
      <4> QED BY <4>1, <4>2, <4>3, <4>4, WakeTimeoutAssumption
    <3>2. /\ Owed(u) \in Int /\ Owed(u)' \in Int /\ Credit(u) \in Int /\ Credit(u)' \in Int
      BY <2>0, <1>7, HoldVars, WakeTimeoutAssumption DEF Owed, Credit
    <3> SUFFICES ASSUME NEW i \in 1..Len(queue[u]), held[queue[u][i]] # 0
                 PROVE  held[queue[u][i]] + Owed(u)' + Turn(i) + Credit(u)' <= Limit(spun[queue[u][i]])
      BY <1>1 DEF QueueBound, Limit, Turn
    <3> DEFINE d == queue[u][i]
    <3>3. held[d] + Owed(u) + Turn(i) + Credit(u) <= Limit(spun[d])
      BY <2>0 DEF LineInv, QueueBound
    <3>4. held[d] \in Nat /\ Limit(spun[d]) \in Nat
      BY HoldVars
    <3>5. Turn(i) \in Nat
      <4>1. i \in Nat /\ 0 \in Nat
        BY HoldVars
      <4> QED BY <4>1, LimitFacts
    <3> HIDE DEF d
    <3>6. held[d] + Owed(u)' + Turn(i) + Credit(u)' <= Limit(spun[d])
      <4>1. held[d] \in Int /\ Limit(spun[d]) \in Int /\ Turn(i) \in Int
        BY <3>4, <3>5
      <4>2. held[d] + Owed(u)' + Credit(u)' <= held[d] + Owed(u) + Credit(u)
        BY <3>1, <3>2, <4>1
      <4>3. held[d] + Owed(u) + Turn(i) + Credit(u) = (held[d] + Owed(u) + Credit(u)) + Turn(i)
        BY <3>2, <4>1, Regroup
      <4>4. held[d] + Owed(u)' + Turn(i) + Credit(u)' = (held[d] + Owed(u)' + Credit(u)') + Turn(i)
        BY <3>2, <4>1, Regroup
      <4>5. held[d] + Owed(u) + Credit(u) \in Int /\ held[d] + Owed(u)' + Credit(u)' \in Int
        BY <3>2, <4>1
      <4> QED BY <3>3, <4>1, <4>2, <4>3, <4>4, <4>5
    <3> QED BY <3>6 DEF d
  <2> QED BY <2>2, <2>3, <2>4, <2>5, <2>6 DEF LineInv
<1>8. ASSUME NEW v \in Users PROVE LineInv(v)'
  <2>1. CASE wakeMu' = wakeMu /\ woken' = woken
    BY <2>1, <1>6
  <2>2. CASE wakeMu[u] = c /\ wakeMu' = [wakeMu EXCEPT ![u] = Unlocked] /\ Wake(u)
    <3>1. v # u => wakeMu'[v] = wakeMu[v] /\ woken'[v] = woken[v]
      BY <2>2, HoldVars DEF Wake
    <3> QED BY <2>2, <3>1, <1>6, <1>7
  <2> QED BY <2>1, <2>2, <1>4
<1>9. ASSUME NEW d \in Calls PROVE ClockInv(d)'
  <2>1. CASE d # c
    <3>1. Newcomer(d)' => Newcomer(d)
      BY <2>1, <1>1 DEF Newcomer, InLine
    <3> QED BY <2>1, <3>1, <1>1, CallKept
  <2>2. CASE d = c
    <3>1. ClockInv(c) /\ pc'[c] # "lock" /\ pc'[c] # "idle"
      BY <1>1 DEF HoldInv, Holding, SuspendSteps
    <3> QED BY <2>2, <3>1, <1>1 DEF ClockInv, Newcomer, Limit, Holding, SuspendSteps
  <2> QED BY <2>1, <2>2
<1> QED BY <1>5, <1>8, <1>9 DEF HoldInv

\* Time passes: what a queued call waits longer, the holder's turn is shorter.
LEMMA HeldTickInv ==
    ASSUME HoldInv, IInv', HeldTick
    PROVE  HoldInv'
<1>1. /\ UNCHANGED <<pc, who, wakeMu, queue, woken, starving, spun>>
      /\ waited' = [c \in Calls |-> IF pc[c] = "poll" THEN waited[c] + 1 ELSE waited[c]]
      /\ held' = [c \in Calls |-> IF pc[c] # "idle" /\ held[c] < Horizon THEN held[c] + 1 ELSE held[c]]
  BY DEF HeldTick, vars, callVars, mutex
<1>2. \A c \in Calls :
        \/ pc[c] = "idle"
        \/ pc[c] = "lock" /\ ~Newcomer(c) /\ wakeMu[who[c]] # Unlocked /\ ~woken[who[c]]
        \/ pc[c] = "poll" /\ waited[c] < WakeTimeout
  <2> SUFFICES ASSUME NEW c \in Calls
               PROVE  \/ pc[c] = "idle"
                      \/ pc[c] = "lock" /\ ~Newcomer(c) /\ wakeMu[who[c]] # Unlocked /\ ~woken[who[c]]
                      \/ pc[c] = "poll" /\ waited[c] < WakeTimeout
    OBVIOUS
  <2>1. waited[c] \in 0..WakeTimeout /\ Waiting(c)
    BY HoldVars DEF HeldTick
  <2> QED BY <2>1, WakeTimeoutAssumption DEF Waiting, Expired, MutexFree
<1>3. \A c \in Calls : /\ waited'[c] = IF pc[c] = "poll" THEN waited[c] + 1 ELSE waited[c]
                       /\ waited'[c] \in 0..WakeTimeout
                       /\ pc[c] = "idle" => held'[c] = held[c]
                       /\ held'[c] \in 0..Horizon /\ held'[c] \in Nat /\ held'[c] <= held[c] + 1
  <2> SUFFICES ASSUME NEW c \in Calls
               PROVE  /\ waited'[c] = IF pc[c] = "poll" THEN waited[c] + 1 ELSE waited[c]
                      /\ waited'[c] \in 0..WakeTimeout
                      /\ pc[c] = "idle" => held'[c] = held[c]
                      /\ held'[c] \in 0..Horizon /\ held'[c] \in Nat /\ held'[c] <= held[c] + 1
    OBVIOUS
  <2>1. held[c] \in 0..Horizon /\ Horizon \in Nat /\ waited[c] \in 0..WakeTimeout
    BY HoldVars
  <2>2. waited'[c] = IF pc[c] = "poll" THEN waited[c] + 1 ELSE waited[c]
    BY <1>1
  <2>3. held'[c] = IF pc[c] # "idle" /\ held[c] < Horizon THEN held[c] + 1 ELSE held[c]
    BY <1>1
  <2> QED BY <1>2, <2>1, <2>2, <2>3, WakeTimeoutAssumption
<1>4. HoldTypeOK'
  <2>1. waited' \in [Calls -> 0..WakeTimeout] /\ held' \in [Calls -> 0..Horizon]
    BY <1>1, <1>3
  <2> QED BY <2>1, <1>1, HoldVars DEF HoldTypeOK, Horizon, Limit, IInv
<1>5. ASSUME NEW u \in Users, queue[u] # <<>>
      PROVE  ~woken[u] /\ wakeMu[u] \in Calls /\ pc[wakeMu[u]] = "poll" /\ waited[wakeMu[u]] < WakeTimeout
  <2>1. 1 \in 1..Len(queue[u])
    BY <1>5, HoldVars
  <2>2. queue[u][1] \in Calls /\ pc[queue[u][1]] = "lock" /\ who[queue[u][1]] = u
    BY <2>1, HoldVars DEF HoldInv, LineInv, InQueue
  <2>3. ~woken[u] /\ wakeMu[u] # Unlocked
    BY <2>2, <1>2
  <2>4. wakeMu[u] \in Calls /\ pc[wakeMu[u]] \in Holding
    BY <2>3, HoldVars DEF HoldInv, LineInv, InUse
  <2> QED BY <2>3, <2>4, <1>2 DEF Holding
<1>6. ASSUME NEW u \in Users, NEW i \in 1..Len(queue[u]), held'[queue[u][i]] # 0
      PROVE  held'[queue[u][i]] + Owed(u)' + Turn(i) + Credit(u)' <= Limit(spun[queue[u][i]])
  <2> DEFINE d == queue[u][i]
             h == wakeMu[u]
  <2>1. ~woken[u] /\ h \in Calls /\ h # Unlocked /\ pc[h] = "poll" /\ waited[h] < WakeTimeout
    <3>1. queue[u] # <<>>
      BY HoldVars
    <3> QED BY <3>1, <1>5, HoldVars
  <2>2. waited[h] \in 0..WakeTimeout /\ waited'[h] = waited[h] + 1
    BY <2>1, <1>3, HoldVars
  <2>3. Owed(u) = WakeTimeout - waited[h] /\ Owed(u)' = WakeTimeout - (waited[h] + 1)
    BY <2>1, <2>2, <1>1 DEF Owed
  <2>4. Credit(u)' = Credit(u) /\ Credit(u) \in 0..WakeTimeout
    BY <1>1, WakeTimeoutAssumption DEF Credit
  <2>5. held[d] \in Nat /\ held'[d] \in Nat /\ held'[d] <= held[d] + 1 /\ spun[d] \in Nat /\ Limit(spun[d]) \in Nat
    BY <1>3, HoldVars
  <2>6. i \in Nat /\ Turn(i) \in Nat /\ Turn(i) + WakeTimeout + WakeTimeout <= Limit(spun[d])
    <3>1. Len(queue[u]) + 1 <= Cardinality(Calls)
      BY <2>1, RoomInQueue
    <3>2. i \in Nat /\ i + 1 <= Cardinality(Calls)
      <4>1. Cardinality(Calls) \in Nat /\ Len(queue[u]) \in Nat
        BY CallsAreFinite, FS_CardinalityType, HoldVars
      <4> QED BY <3>1, <4>1
    <3> QED BY <2>5, <3>2, LimitFacts
  <2>7. held[d] = 0 \/ held[d] + Owed(u) + Turn(i) + Credit(u) <= Limit(spun[d])
    BY DEF HoldInv, LineInv, QueueBound
  <2> HIDE DEF d, h
  <2>8. held'[d] + Owed(u)' + Turn(i) + Credit(u)' <= Limit(spun[d])
    <3>1. CASE held[d] = 0
      <4>1. held'[d] <= 1 /\ Owed(u)' + 1 <= WakeTimeout /\ Owed(u)' \in Int
        BY <3>1, <2>2, <2>3, <2>5, WakeTimeoutAssumption
      <4>2. held'[d] + Owed(u)' <= WakeTimeout
        BY <4>1, <2>5, WakeTimeoutAssumption
      <4>3. Credit(u)' \in Int /\ Credit(u)' <= WakeTimeout
        BY <2>4, WakeTimeoutAssumption
      <4>4. Turn(i) + WakeTimeout <= Limit(spun[d]) - WakeTimeout
        BY <2>5, <2>6, WakeTimeoutAssumption
      <4>5. held'[d] \in Int /\ Turn(i) \in Int /\ Limit(spun[d]) \in Int
        BY <2>5, <2>6
      <4>6. held'[d] + Owed(u)' + Turn(i) <= Limit(spun[d]) - WakeTimeout
        BY <4>1, <4>2, <4>4, <4>5, WakeTimeoutAssumption
      <4> QED BY <4>1, <4>3, <4>5, <4>6, WakeTimeoutAssumption
    <3>2. CASE held[d] + Owed(u) + Turn(i) + Credit(u) <= Limit(spun[d])
      <4>1. Owed(u)' = Owed(u) - 1 /\ Owed(u) \in Int
        BY <2>2, <2>3, WakeTimeoutAssumption
      <4>2. held'[d] + Owed(u)' <= held[d] + Owed(u) /\ Owed(u)' \in Int
        BY <4>1, <2>5
      <4>3. Credit(u)' = Credit(u) /\ Credit(u) \in Int /\ Turn(i) \in Int
        BY <2>4, <2>6, WakeTimeoutAssumption
      <4>4. held[d] \in Int /\ held'[d] \in Int /\ Limit(spun[d]) \in Int /\ Credit(u)' \in Int
        BY <4>3, <2>5
      <4>5. held'[d] + Owed(u)' + Credit(u)' <= held[d] + Owed(u) + Credit(u)
        <5>1. held[d] + Owed(u) \in Int /\ held'[d] + Owed(u)' \in Int
          BY <4>1, <4>2, <4>4
        <5> QED BY <4>2, <4>3, <5>1
      <4>6. held[d] + Owed(u) + Turn(i) + Credit(u) = (held[d] + Owed(u) + Credit(u)) + Turn(i)
        BY <4>1, <4>3, <4>4, Regroup
      <4>7. held'[d] + Owed(u)' + Turn(i) + Credit(u)' = (held'[d] + Owed(u)' + Credit(u)') + Turn(i)
        BY <4>2, <4>3, <4>4, Regroup
      <4>8. held[d] + Owed(u) + Credit(u) \in Int
        BY <4>1, <4>3, <4>4, Regroup
      <4>9. held'[d] + Owed(u)' + Credit(u)' \in Int
        BY <4>2, <4>3, <4>4, Regroup
      <4> QED BY <3>2, <4>3, <4>4, <4>5, <4>6, <4>7, <4>8, <4>9
    <3> QED BY <3>1, <3>2, <2>7
  <2> QED BY <2>8 DEF d
<1>7. ASSUME NEW u \in Users PROVE LineInv(u)'
  <2>0. LineInv(u) /\ \A i \in 1..Len(queue[u]) : queue[u][i] \in Calls
    BY HoldVars DEF HoldInv
  <2>1. InQueue(u)' /\ InUse(u)' /\ SpinRoom(u)'
    BY <2>0, <1>1 DEF LineInv, InQueue, InUse, SpinRoom, InLine
  <2>2. WakesOne(u)'
    BY <2>0, <1>1, <1>5 DEF LineInv, WakesOne
  <2>3. Sorted(u)'
    <3> SUFFICES ASSUME NEW i \in 1..Len(queue[u]), NEW j \in 1..Len(queue[u]), i <= j
                 PROVE  held'[queue[u][j]] <= held'[queue[u][i]]
      BY <1>1 DEF Sorted
    <3>1. held[queue[u][j]] <= held[queue[u][i]]
      BY <2>0 DEF LineInv, Sorted
    <3>2. pc[queue[u][i]] # "idle" /\ pc[queue[u][j]] # "idle"
      BY <2>0 DEF LineInv, InQueue
    <3> DEFINE d == queue[u][i]
               e == queue[u][j]
    <3>3. /\ held'[d] = IF held[d] < Horizon THEN held[d] + 1 ELSE held[d]
          /\ held'[e] = IF held[e] < Horizon THEN held[e] + 1 ELSE held[e]
      BY <2>0, <3>2, <1>1
    <3>4. held[d] \in Nat /\ held[e] \in Nat /\ Horizon \in Nat
      BY <2>0, HoldVars
    <3> HIDE DEF d, e
    <3>5. held[e] <= held[d] => held'[e] <= held'[d]
      BY <3>3, <3>4
    <3> QED BY <3>1, <3>5 DEF d, e
  <2>4. QueueBound(u)'
    BY <1>1, <1>6 DEF QueueBound, Limit, Turn
  <2> QED BY <2>1, <2>2, <2>3, <2>4 DEF LineInv
<1>8. ASSUME NEW d \in Calls PROVE ClockInv(d)'
  <2>0. ClockInv(d)
    BY DEF HoldInv
  <2>1. CASE pc[d] = "idle"
    BY <2>0, <2>1, <1>1, <1>3 DEF ClockInv, Newcomer, InLine, Holding, SuspendSteps, Limit
  <2>2. CASE pc[d] = "lock"
    <3>1. ~Newcomer(d)' /\ waited'[d] = waited[d]
      BY <2>2, <1>1, <1>2, <1>3 DEF Newcomer, InLine
    <3>2. held'[d] <= Limit(spun[d])
      <4>1. PICK u \in Users : u = who[d]
        BY <2>2 DEF HoldInv, IInv, KnowsUser
      <4>2. PICK i \in 1..Len(queue[u]) : queue[u][i] = d
        BY <2>2, <4>1, <1>2 DEF Newcomer, InLine
      <4>3. held'[d] \in Nat /\ Limit(spun[d]) \in Nat
        BY <1>3, HoldVars
      <4>4. CASE held'[d] = 0
        BY <4>3, <4>4
      <4>5. CASE held'[d] # 0
        <5>1. held'[d] + Owed(u)' + Turn(i) + Credit(u)' <= Limit(spun[d])
          BY <4>2, <4>5, <1>6
        <5>2. wakeMu[u] # Unlocked /\ wakeMu[u] \in Calls
          BY <2>2, <4>1, <1>2, HoldVars
        <5>3. waited'[wakeMu[u]] \in 0..WakeTimeout
          BY <5>2, <1>3
        <5>4. Owed(u)' \in Nat /\ Credit(u)' \in Nat
          BY <5>2, <5>3, <1>1, WakeTimeoutAssumption DEF Owed, Credit
        <5>5. Turn(i) \in Nat
          <6>1. i \in Nat /\ 0 \in Nat
            BY HoldVars
          <6> QED BY <6>1, LimitFacts
        <5> QED BY <5>1, <5>4, <5>5, <4>3
      <4> QED BY <4>4, <4>5
    <3> QED BY <2>0, <2>2, <3>1, <3>2, <1>1 DEF ClockInv, Holding, SuspendSteps, Limit
  <2>3. CASE pc[d] = "poll"
    <3>1. held[d] + (WakeTimeout - waited[d]) <= Limit(spun[d])
      BY <2>0, <2>3 DEF ClockInv, Holding
    <3>2. waited'[d] = waited[d] + 1 /\ waited'[d] \in 0..WakeTimeout /\ held'[d] <= held[d] + 1
          /\ held'[d] \in Nat /\ held[d] \in Nat /\ waited[d] \in 0..WakeTimeout /\ Limit(spun[d]) \in Nat
      BY <2>3, <1>3, HoldVars
    <3>3. held'[d] + (WakeTimeout - waited'[d]) <= Limit(spun[d]) /\ held'[d] <= Limit(spun[d])
      BY <3>1, <3>2, WakeTimeoutAssumption
    <3> QED BY <2>3, <3>3, <1>1 DEF ClockInv, Newcomer, SuspendSteps, Limit
  <2> QED BY <2>1, <2>2, <2>3, <1>2
<1> QED BY <1>4, <1>7, <1>8 DEF HoldInv

\* A call that is done starts its clocks again.
LEMMA HeldFinishInv ==
    ASSUME HoldInv, IInv', NEW c \in Calls, HeldFinish(c)
    PROVE  HoldInv'
<1>1. /\ pc[c] = "returned" /\ pc' = [pc EXCEPT ![c] = "idle"] /\ who' = [who EXCEPT ![c] = NoUser]
      /\ spun' = [spun EXCEPT ![c] = 0] /\ waited' = [waited EXCEPT ![c] = 0] /\ held' = [held EXCEPT ![c] = 0]
      /\ UNCHANGED <<queue, woken, starving, wakeMu>>
  BY DEF HeldFinish, Finish
<1>2. /\ pc'[c] = "idle" /\ spun'[c] = 0 /\ waited'[c] = 0 /\ held'[c] = 0
      /\ \A d \in Calls \ {c} : /\ pc'[d] = pc[d] /\ who'[d] = who[d] /\ spun'[d] = spun[d]
                                /\ waited'[d] = waited[d] /\ held'[d] = held[d]
  BY <1>1, HoldVars
<1>3. HoldTypeOK'
  <2>1. 0 \in 0..WakeTimeout /\ 0 \in 0..Horizon /\ 0 \in 0..MaxSpins
    BY HoldVars, WakeTimeoutAssumption, MaxSpinsAssumption
  <2>2. /\ spun' \in [Calls -> 0..MaxSpins] /\ waited' \in [Calls -> 0..WakeTimeout]
        /\ held' \in [Calls -> 0..Horizon]
    BY <2>1, <1>1, HoldVars
  <2> QED BY <2>2, <1>1, HoldVars DEF HoldTypeOK, Horizon, Limit, IInv
<1>4. ASSUME NEW v \in Users PROVE LineInv(v)'
  <2>1. \A d \in Calls : d \in InLine(v) \/ d = wakeMu[v] => d # c /\ (d = wakeMu[v] => pc[d] \in Holding)
    <3> SUFFICES ASSUME NEW d \in Calls, d \in InLine(v) \/ d = wakeMu[v]
                 PROVE  d # c /\ (d = wakeMu[v] => pc[d] \in Holding)
      OBVIOUS
    <3>1. pc[d] \in {"lock"} \cup Holding /\ (d = wakeMu[v] => pc[d] \in Holding)
      BY Apart
    <3> QED BY <3>1, <1>1 DEF Holding
  <2> QED BY <2>1, <1>1, <1>2, LineKept
<1>5. ASSUME NEW d \in Calls PROVE ClockInv(d)'
  <2>1. CASE d = c
    <3>1. 0 <= Limit(0)
      BY LimitFacts
    <3> QED BY <2>1, <3>1, <1>2 DEF ClockInv, Holding, Limit
  <2>2. CASE d # c
    <3>1. Newcomer(d)' => Newcomer(d)
      BY <2>2, <1>1, <1>2 DEF Newcomer, InLine
    <3> QED BY <2>2, <3>1, <1>2, CallKept
  <2> QED BY <2>1, <2>2
<1> QED BY <1>3, <1>4, <1>5 DEF HoldInv

LEMMA HoldInitInv == HoldInit => HoldInv
<1> SUFFICES ASSUME HoldInit PROVE HoldInv
  OBVIOUS
<1>1. IInv
  BY InitInv DEF HoldInit
<1>2. /\ \A c \in Calls : pc[c] = "idle" /\ spun[c] = 0 /\ held[c] = 0 /\ waited[c] = 0
      /\ \A u \in Users : queue[u] = <<>> /\ wakeMu[u] = Unlocked /\ ~woken[u]
  BY DEF HoldInit, Init, CallsInit
<1>3. Limit(0) \in Nat /\ Horizon \in Nat
  BY LimitFacts, MaxSpinsAssumption DEF Horizon
<1>4. HoldTypeOK
  <2>1. 0 \in 0..WakeTimeout /\ 0 \in 0..Horizon /\ 0 \in 0..MaxSpins
    BY <1>3, WakeTimeoutAssumption, MaxSpinsAssumption
  <2>2. queue \in [Users -> Seq(Calls)]
    BY DEF HoldInit
  <2> QED BY <1>1, <2>1, <2>2 DEF HoldInit, HoldTypeOK, IInv
<1>5. ASSUME NEW u \in Users PROVE LineInv(u)
  BY <1>2 DEF LineInv, InQueue, InUse, WakesOne, Sorted, SpinRoom, QueueBound, InLine
<1>6. ASSUME NEW c \in Calls PROVE ClockInv(c)
  <2>1. 0 <= Limit(spun[c])
    BY <1>2, <1>3
  <2> QED BY <2>1, <1>2 DEF ClockInv, Holding
<1> QED BY <1>1, <1>4, <1>5, <1>6 DEF HoldInv

LEMMA HoldNextInv == HoldInv /\ [HoldNext]_holdVars => HoldInv'
<1> SUFFICES ASSUME HoldInv, [HoldNext]_holdVars PROVE HoldInv'
  OBVIOUS
<1>a. IInv'
  BY HoldStepIsStep, NextInv DEF HoldInv
<1>1. ASSUME NEW c \in Calls, NEW u \in Users, HeldResume(c, u) \/ HeldSuspend(c, u) PROVE HoldInv'
  BY <1>a, <1>1, HoldVars, HeldAsideInv
     DEF HeldResume, StartResume, HeldSuspend, StartSuspend, Enter, hold, mutex
<1>2. ASSUME NEW c \in Calls, HeldLock(c) PROVE HoldInv'
  BY <1>a, <1>2, BargeInv, LineUpInv, FirstTakesInv, FirstFailsInv DEF HeldLock
<1>3. ASSUME NEW c \in Calls, HeldStep(c) PROVE HoldInv'
  BY <1>a, <1>3, HeldStepInv
<1>4. ASSUME NEW c \in Calls, HeldFinish(c) PROVE HoldInv'
  BY <1>a, <1>4, HeldFinishInv
<1>5. CASE HeldEnvironment
  BY <1>a, <1>5, HeldAsideInv DEF HeldEnvironment, Environment, callVars, hold, mutex
<1>6. CASE HeldTick
  BY <1>a, <1>6, HeldTickInv
<1>7. CASE UNCHANGED holdVars
  BY <1>a, <1>7, HeldAsideInv DEF holdVars, hold, mutex, vars, callVars
<1> QED BY <1>1, <1>2, <1>3, <1>4, <1>5, <1>6, <1>7 DEF HoldNext

\* The invariant of WakeHold.
THEOREM HoldInvariance == HoldSpec => []HoldInv
<1>1. HoldInv /\ [HoldNext]_holdVars => HoldInv'
  BY HoldNextInv
<1> QED BY HoldInitInv, <1>1, PTL DEF HoldSpec

\* The queue holds calls and no clock runs past its end.
THEOREM HoldTypes == HoldSpec => []HoldTypeOK
<1>1. HoldInv => HoldTypeOK
  BY DEF HoldInv
<1> QED BY HoldInvariance, <1>1, PTL

\* However many goroutines wake a user at once, none is kept longer than one
\* WakeTimeout for each of them, one for a newcomer that overtakes the queue
\* before it starves, and one for each spinning newcomer (lifecycle.go:99-100,
\* WaitReady).
THEOREM HeldWhileOthersWake == HoldSpec => []HeldByQueue
<1>1. HoldInv => HeldByQueue
  BY DEF HoldInv, ClockInv, HeldByQueue
<1> QED BY HoldInvariance, <1>1, PTL
=============================================================================
