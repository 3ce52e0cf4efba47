---------------------------- MODULE AgentSandbox ----------------------------
(***************************************************************************)
(* The Kubernetes objects behind one user: the SandboxClaim, which is the  *)
(* user record, and the Sandbox it adopts.  The gateway reads both on      *)
(* every request and keeps no copy (internal/sandbox/resolve.go); the      *)
(* agent-sandbox controller and the kubelet move the pod and, in a step of *)
(* its own that may lag behind, the status conditions.                     *)
(*                                                                         *)
(* A sandbox name is generated by the controller and never used twice, so  *)
(* the members of Sandboxes are used up: "unborn", then "live", then       *)
(* "gone".  The size of Sandboxes bounds how often a user is re-created.   *)
(***************************************************************************)
EXTENDS Integers, FiniteSets

CONSTANTS Users,      \* user ids; the claim has the same name
          Sandboxes,  \* sandbox object names
          CronTimes,  \* how many ticks ahead a captured next_run_at can lie
          NoUser, NoClaim, NoSandbox, NoCron

ASSUME NamesAssumption ==
    /\ NoUser \notin Users
    /\ {NoClaim, NoSandbox} \cap Sandboxes = {}
    /\ NoClaim # NoSandbox
    /\ NoCron \notin CronTimes
    /\ CronTimes \subseteq Nat
    /\ \A t \in CronTimes : t > 0 => t - 1 \in CronTimes

VARIABLES
    claim,         \* per user: NoClaim, NoSandbox (not adopted yet) or the adopted name
    sandbox,       \* per name: the Sandbox object
    nextCronWake   \* per user: the claim's next-cron-wake annotation, as ticks from
                   \* now, 0 once it is due

kubeVars == <<claim, sandbox, nextCronWake>>

Modes  == {"Running", "Suspended"}
States == {"Provisioning", "Ready", "Suspending", "Suspended", "Waking", "Unknown"}

\* The parts of a Sandbox object the gateway reads or writes, and its pod.
SandboxObject ==
    [phase     : {"unborn", "live", "gone"},
     owner     : Users \cup {NoUser},
     mode      : Modes,
     pod       : {"Absent", "Starting", "Up", "Terminating"},
     ready     : BOOLEAN,
     suspended : BOOLEAN]

Unborn == [phase |-> "unborn", owner |-> NoUser, mode |-> "Running",
           pod |-> "Absent", ready |-> FALSE, suspended |-> FALSE]

Live(s) == s \in Sandboxes /\ sandbox[s].phase = "live"

KubeTypeOK ==
    /\ claim \in [Users -> Sandboxes \cup {NoClaim, NoSandbox}]
    /\ sandbox \in [Sandboxes -> SandboxObject]
    /\ nextCronWake \in [Users -> CronTimes \cup {NoCron}]

KubeInit ==
    /\ claim = [u \in Users |-> NoClaim]
    /\ sandbox = [s \in Sandboxes |-> Unborn]
    /\ nextCronWake = [u \in Users |-> NoCron]

-----------------------------------------------------------------------------
(* What the gateway reads. *)

\* Mutant: the mode's own name is reported until the pod is ready.
RawModeState(sb) == IF sb.ready THEN "Ready" ELSE sb.mode

\* Mutant: the Ready condition decides first, the operating mode second.
ReadyFirstState(sb) ==
    CASE sb.ready -> "Ready"
      [] sb.suspended -> "Suspended"
      [] OTHER -> IF sb.mode = "Suspended" THEN "Suspending" ELSE "Waking"

\* deriveState: the operating mode decides first, the condition second.
deriveState(sb) ==
    CASE sb.mode = "Suspended" /\ sb.suspended -> "Suspended"
      [] sb.mode = "Suspended" /\ ~sb.suspended -> "Suspending"
      [] sb.mode # "Suspended" /\ sb.ready -> "Ready"
      [] OTHER -> "Waking"

\* Resolver.Resolve on a claim that exists.  The read of the claim and the
\* read of the sandbox it names are one step: a name is never reused, so a
\* claim deleted between the two is a claim deleted just after both.
ResolvedState(u) ==
    CASE claim[u] = NoSandbox -> "Provisioning"
      [] claim[u] \in Sandboxes /\ ~Live(claim[u]) -> "Unknown"
      [] OTHER -> deriveState(sandbox[claim[u]])

\* resolveFromClaim's second half, on the sandbox a claim read earlier names.
SandboxState(s) == IF Live(s) THEN deriveState(sandbox[s]) ELSE "Unknown"

UserExists(u) == claim[u] # NoClaim

\* The state the status API reports, ErrUserNotFound included.
UserState(u) == IF UserExists(u) THEN ResolvedState(u) ELSE "NotFound"

-----------------------------------------------------------------------------
(* What the gateway writes. *)

\* setOperatingMode: a merge patch addressed to a sandbox name.
setOperatingMode(s, mode) ==
    /\ sandbox' = [sandbox EXCEPT ![s].mode = mode]
    /\ UNCHANGED <<claim, nextCronWake>>

\* SetClaimAnnotations of next-cron-wake: a merge patch addressed to the user
\* id, whatever claim carries it by now.
SetNextCronWake(u, t) ==
    /\ nextCronWake' = [nextCronWake EXCEPT ![u] = t]
    /\ UNCHANGED <<claim, sandbox>>

\* EnsureUser's Create call: an existing claim is left as it is.
CreateClaim(u) ==
    /\ ~UserExists(u)
    /\ claim' = [claim EXCEPT ![u] = NoSandbox]
    /\ nextCronWake' = [nextCronWake EXCEPT ![u] = NoCron]
    /\ UNCHANGED sandbox

\* DeleteUser's Delete call; the sandbox follows in RemoveSandbox.
DeleteClaim(u) ==
    /\ UserExists(u)
    /\ claim' = [claim EXCEPT ![u] = NoClaim]
    /\ nextCronWake' = [nextCronWake EXCEPT ![u] = NoCron]
    /\ UNCHANGED sandbox

-----------------------------------------------------------------------------
(* The agent-sandbox controller, the kubelet and the cluster. *)

SetPod(s, pod) ==
    /\ sandbox' = [sandbox EXCEPT ![s].pod = pod]
    /\ UNCHANGED <<claim, nextCronWake>>

\* A claim is bound to a sandbox of the warm pool (its pod is up already) or
\* to one created for it.
Adopt(u, s) ==
    /\ claim[u] = NoSandbox
    /\ sandbox[s].phase = "unborn"
    /\ \E warm \in BOOLEAN :
         sandbox' = [sandbox EXCEPT ![s] =
             [Unborn EXCEPT !.phase = "live", !.owner = u,
                            !.pod = IF warm THEN "Up" ELSE "Starting",
                            !.ready = warm]]
    /\ claim' = [claim EXCEPT ![u] = s]
    /\ UNCHANGED nextCronWake

StartPod(s) ==
    /\ Live(s) /\ sandbox[s].mode = "Running" /\ sandbox[s].pod = "Absent"
    /\ SetPod(s, "Starting")

PodUp(s) ==
    /\ Live(s) /\ sandbox[s].pod = "Starting"
    /\ SetPod(s, "Up")

StopPod(s) ==
    /\ Live(s) /\ sandbox[s].mode = "Suspended" /\ sandbox[s].pod \in {"Starting", "Up"}
    /\ SetPod(s, "Terminating")

PodGone(s) ==
    /\ Live(s) /\ sandbox[s].pod = "Terminating"
    /\ SetPod(s, "Absent")

\* The node evicts or loses the pod.
LosePod(s) ==
    /\ Live(s) /\ sandbox[s].pod = "Up"
    /\ SetPod(s, "Absent")

\* The controller writes both conditions from what it last saw.
Conditions(sb) ==
    [sb EXCEPT !.ready = sb.pod = "Up" /\ sb.mode = "Running",
               !.suspended = sb.pod = "Absent" /\ sb.mode = "Suspended"]

UpdateStatus(s) ==
    /\ Live(s)
    /\ Conditions(sandbox[s]) # sandbox[s]
    /\ sandbox' = [sandbox EXCEPT ![s] = Conditions(sandbox[s])]
    /\ UNCHANGED <<claim, nextCronWake>>

\* Garbage collection after the claim is deleted, or somebody deletes the
\* sandbox from under its claim.
RemoveSandbox(s) ==
    /\ Live(s)
    /\ sandbox' = [sandbox EXCEPT ![s] = [Unborn EXCEPT !.phase = "gone", !.owner = sandbox[s].owner]]
    /\ UNCHANGED <<claim, nextCronWake>>

\* A unit of time passes: an instant that was t ahead is t - 1 ahead.
Nearer(t) == IF t \in CronTimes /\ t > 0 THEN t - 1 ELSE t

\* What the controller does to bring a pod in line with its mode.
Reconcile(s) == StartPod(s) \/ PodUp(s) \/ StopPod(s) \/ PodGone(s) \/ UpdateStatus(s)

Cluster ==
    \/ \E u \in Users, s \in Sandboxes : Adopt(u, s)
    \/ \E s \in Sandboxes : Reconcile(s) \/ LosePod(s) \/ RemoveSandbox(s)

Admin == \E u \in Users : CreateClaim(u) \/ DeleteClaim(u)
=============================================================================
