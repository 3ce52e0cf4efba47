----------------------------- MODULE CronPromises -----------------------------
(***************************************************************************)
(* What docs/cron-wake-design.md and the comments promise of scheduled     *)
(* jobs, stated over CronWaker.  The three history variables restrict      *)
(* nothing.                                                                *)
(***************************************************************************)
EXTENDS CronWaker

CONSTANT Recorded   \* the histories that are kept; the others stay as they began

ASSUME RecordedAssumption == Recorded \subseteq {"grants", "owed"}

VARIABLES
    sinceGrant,  \* per user: ticks since the waker's sweep that granted it a
                 \* grace read the clock, Grace when there is none
    sawGrant,    \* per user the sweeper has yet to visit: the same as of its list,
                 \* and the ticks since
    owed         \* per user: a marker was set and the agent was not Ready since

history   == <<sinceGrant, sawGrant, owed>>
hcronVars == <<allVars, history>>

Granted(n) == IF "grants" \in Recorded THEN n ELSE Grace

Up(n) == IF n < Grace THEN n + 1 ELSE Grace

HCronTypeOK ==
    /\ CronTypeOK
    /\ sinceGrant \in [Users -> 0..Grace]
    /\ sawGrant \in [Users -> 0..Grace]
    /\ owed \in [Users -> BOOLEAN]

HCronInit ==
    /\ CronInit
    /\ sinceGrant = [u \in Users |-> Grace]
    /\ sawGrant = [u \in Users |-> Grace]
    /\ owed = [u \in Users |-> FALSE]

\* A suspension writes or clears the marker from the jobs it has read.
Captures(u) == \E c \in Calls : who[c] = u /\ pc[c] = "mark" /\ pc'[c] = "suspend"

Owes ==
    owed' = [u \in Users |->
        /\ "owed" \in Recorded
        /\ claim'[u] \in Sandboxes
        /\ LC!UserState(u)' # "Ready"
        /\ nextCronWake'[u] # NoCron \/ (owed[u] /\ ~Captures(u))]

\* A grant goes with its claim.
HGatewayStep ==
    /\ GatewayStep
    /\ sinceGrant' = [u \in Users |-> IF claim'[u] = NoClaim THEN Grace ELSE sinceGrant[u]]
    /\ sawGrant' = [u \in Users |-> IF u \notin todo' THEN Grace
                                    ELSE IF u \notin todo THEN sinceGrant[u] ELSE sawGrant[u]]
    /\ Owes

Wakes(u) == pc[Waker] = "idle" /\ pc'[Waker] = "lock" /\ who'[Waker] = u

HWakerStep ==
    /\ WakerStep
    /\ sinceGrant' = [u \in Users |-> IF Wakes(u) THEN Granted(listedAgo) ELSE sinceGrant[u]]
    /\ Owes
    /\ UNCHANGED sawGrant

HRestart ==
    /\ CronRestart
    /\ sawGrant' = [u \in Users |-> Grace]
    /\ UNCHANGED <<sinceGrant, owed>>

HCronTick ==
    /\ CronTick
    /\ sinceGrant' = [u \in Users |-> Up(sinceGrant[u])]
    /\ sawGrant' = [u \in Users |-> Up(sawGrant[u])]
    /\ UNCHANGED owed

HCronNext == HGatewayStep \/ HWakerStep \/ HRestart \/ HCronTick

HCronSpec == HCronInit /\ [][HCronNext]_hcronVars

-----------------------------------------------------------------------------
Decides(u) == pc[Sweeper] = "idle" /\ pc'[Sweeper] = "look" /\ who'[Sweeper] = u

\* An agent the cron waker has woken is not suspended by a sweep before its
\* grace is over (cronwaker.go:83-84: the grace goes on first), unless the
\* sweep listed the claims before the grant: such a list may still read the
\* sandbox after the wake and find it Ready.
GraceShields ==
    [][\A u \in Users : Decides(u) => sawGrant[u] >= Grace]_hcronVars

\* Promised by docs/cron-wake-design.md:89: the annotation persists, so that
\* after a restart of the gateway the waker fires late rather than never.  An
\* agent suspended with a job ahead, on which nobody is working, has its
\* marker until it was Ready again.
Unattended(u) == due[u] = "none" /\ \A c \in Calls : who[c] # u

LateRatherThanNever ==
    \A u \in Users :
        owed[u] /\ Unattended(u) /\ LC!UserState(u) = "Suspended" => nextCronWake[u] # NoCron
=============================================================================
