------------------------------ MODULE CronWaker ------------------------------
(***************************************************************************)
(* internal/idle/cronwaker.go beside the rest of the gateway: a third      *)
(* goroutine that lists the users (all claims, then their sandboxes one by *)
(* one), wakes the suspended ones whose cron marker is due and clears the  *)
(* marker of the others.  The decision for every user is taken on the      *)
(* list; it is carried out one user after the other, a Resume (up to       *)
(* WakeTimeout) at a time.                                                 *)
(*                                                                         *)
(* The scheduler in the pod is external and not modelled: which time a     *)
(* suspension reads from its jobs is left open (CaptureRead), and the      *)
(* final `hermes cron tick` exec only keeps the waker busy for a while.    *)
(***************************************************************************)
EXTENDS Gateway

CONSTANT Interval   \* the waker's interval, in ticks

ASSUME IntervalAssumption == Interval \in Nat

VARIABLES
    due,       \* per user: how far the list has got with it ("unread", "awake",
               \* "asleep"), then what the sweep has yet to do about it
    names,     \* per user: the sandbox the list has yet to read, or NoSandbox
    marks,     \* per user: the marker the list has read, as ticks from now
    listedAgo  \* ticks since the waker's sweep under way read the clock, up to Grace

wakerVars == <<due, names, marks, listedAgo>>
allVars   == <<vars, wakerVars>>

Intents == {"none", "unread", "awake", "asleep", "clear", "wake"}

CronTypeOK ==
    /\ TypeOK
    /\ due \in [Users -> Intents]
    /\ names \in [Users -> Sandboxes \cup {NoSandbox}]
    /\ marks \in [Users -> CronTimes \cup {NoCron}]
    /\ listedAgo \in 0..Grace

Nothing ==
    /\ due' = [u \in Users |-> "none"]
    /\ names' = [u \in Users |-> NoSandbox]
    /\ marks' = [u \in Users |-> NoCron]
    /\ listedAgo' = 0

CronInit ==
    /\ Init
    /\ due = [u \in Users |-> "none"]
    /\ names = [u \in Users |-> NoSandbox]
    /\ marks = [u \in Users |-> NoCron]
    /\ listedAgo = 0

-----------------------------------------------------------------------------
(* The waker. *)

Between == pc[Waker] = "idle"

\* A user without a marker is passed over; one without a sandbox is not asleep.
Marked(u) == LC!UserExists(u) /\ nextCronWake[u] # NoCron

WakerList ==
    /\ Between /\ \A u \in Users : due[u] = "none"
    /\ due' = [u \in Users |-> IF ~Marked(u) THEN "none"
                               ELSE IF claim[u] \in Sandboxes THEN "unread" ELSE "awake"]
    /\ names' = [u \in Users |-> IF Marked(u) THEN claim[u] ELSE NoSandbox]
    /\ marks' = [u \in Users |-> IF Marked(u) THEN nextCronWake[u] ELSE NoCron]
    /\ UNCHANGED <<listedAgo, vars>>

Asleep(state) == state \in {"Suspended", "Suspending"}

WakerRead(u) ==
    /\ due[u] = "unread"
    /\ due' = [due EXCEPT ![u] = IF Asleep(LC!SandboxState(names[u])) THEN "asleep" ELSE "awake"]
    /\ names' = [names EXCEPT ![u] = NoSandbox]
    /\ UNCHANGED <<marks, listedAgo, vars>>

\* A list that fails ends the sweep.
WakerListFails ==
    /\ \E u \in Users : due[u] = "unread"
    /\ Nothing
    /\ UNCHANGED vars

\* Markers beyond the next interval are left for a later sweep.
Intent(u) ==
    CASE due[u] = "asleep" /\ marks[u] <= Interval -> "wake"
      [] due[u] = "awake" /\ marks[u] <= Interval -> "clear"
      [] OTHER -> "none"

\* The list is complete, and the clock is read once for all of it.
WakerClock ==
    /\ \E u \in Users : due[u] \in {"awake", "asleep"}
    /\ \A u \in Users : due[u] # "unread"
    /\ due' = [u \in Users |-> Intent(u)]
    /\ marks' = [u \in Users |-> NoCron]
    /\ listedAgo' = 0
    /\ UNCHANGED <<names, vars>>

Decided(u) == due[u] \in {"clear", "wake"}

\* The last user of the list ends the sweep, and its instant is forgotten.
Handled(u) ==
    /\ due' = [due EXCEPT ![u] = "none"]
    /\ listedAgo' = IF \A v \in Users \ {u} : due[v] = "none" THEN 0 ELSE listedAgo
    /\ UNCHANGED <<names, marks>>

\* The claim has gone, or the patch fails: on to the next user.
WakerSkip(u) ==
    /\ Between /\ Decided(u)
    /\ Handled(u)
    /\ UNCHANGED vars

ClearStale(u) ==
    /\ Between /\ due[u] = "clear"
    /\ LC!UserExists(u)
    /\ LC!SetNextCronWake(u, NoCron)
    /\ Handled(u)
    /\ UNCHANGED <<callVars, trackerVars, claimVars, flowVars, sweepVars>>

\* Mutant: only the marker is patched before the Resume.
NoGrant(u) == UNCHANGED cronGrace

\* Mutant: the time elapsed since then is added instead of subtracted.
LongGrant(u) == cronGrace' = [cronGrace EXCEPT ![u] = Grace + listedAgo]

\* The grace counts from the instant at which the sweep began.
Grant(u) == cronGrace' = [cronGrace EXCEPT ![u] = Grace - listedAgo]

\* One patch sets the grace and clears the marker; then Resume begins.
GrantAndWake(u) ==
    /\ Between /\ due[u] = "wake"
    /\ LC!UserExists(u)
    /\ Grant(u)
    /\ LC!SetNextCronWake(u, NoCron)
    /\ LC!Enter(Waker, u, "lock")
    /\ Handled(u)
    /\ UNCHANGED <<trackerVars, exempt, flowVars, sweepVars>>

\* Resume is back, an error is logged and the marker stays cleared; after a
\* success the scheduler has been told to run what is due.
WakerResumed ==
    /\ LC!Finish(Waker)
    /\ UNCHANGED <<trackerVars, claimVars, flowVars, sweepVars, wakerVars>>

WakerStep ==
    \/ WakerList \/ WakerListFails \/ WakerClock
    \/ \E u \in Users : WakerRead(u) \/ WakerSkip(u) \/ ClearStale(u) \/ GrantAndWake(u)
    \/ WakerResumed

-----------------------------------------------------------------------------
CronRestart ==
    /\ Restart
    /\ Nothing

GatewayStep == Work /\ UNCHANGED wakerVars

CronTick ==
    /\ Tick
    /\ marks' = [u \in Users |-> LC!Nearer(marks[u])]
    /\ listedAgo' = IF \A u \in Users : ~Decided(u) THEN 0
                    ELSE IF listedAgo < Grace THEN listedAgo + 1 ELSE Grace
    /\ UNCHANGED <<due, names>>

CronNext == GatewayStep \/ WakerStep \/ CronRestart \/ CronTick

CronSpec == CronInit /\ [][CronNext]_allVars
=============================================================================
