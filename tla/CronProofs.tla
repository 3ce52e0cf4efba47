------------------------------ MODULE CronProofs ------------------------------
(***************************************************************************)
(* The grace of a cron wake holds, for any number of users and goroutines. *)
(* The ticks left of a grace and the ticks since it was granted add up to  *)
(* the whole of it, on the claim and in the sweeper's copy alike, however  *)
(* the sweeper, the waker, deletions and restarts interleave; so a sweep   *)
(* that sees no grace left has listed the user when it was over.           *)
(***************************************************************************)
EXTENDS CronPromises, GatewayProofs

GraceType ==
    /\ cronGrace \in [Users -> 0..Grace]
    /\ listed \in [Users -> 0..Grace]
    /\ todo \subseteq Users
    /\ listedAgo \in 0..Grace
    /\ sinceGrant \in [Users -> 0..Grace]
    /\ sawGrant \in [Users -> 0..Grace]

\* A user without a claim has no grant.
NoClaimNoGrant == \A u \in Users : claim[u] = NoClaim => sinceGrant[u] = Grace

GraceOnClaim == \A u \in Users : cronGrace[u] + sinceGrant[u] >= Grace

GraceInList == \A u \in todo : listed[u] + sawGrant[u] >= Grace

ClaimType == claim \in [Users -> Sandboxes \cup {NoClaim, NoSandbox}]

GraceInv == GraceType /\ NoClaimNoGrant /\ GraceOnClaim /\ GraceInList

LEMMA GraceInit == HCronInit => GraceInv
BY GoroutinesAssumption
   DEF HCronInit, CronInit, Init, GraceInv, GraceType, NoClaimNoGrant, GraceOnClaim, GraceInList

\* What a step of the gateway's other goroutines does to the grace: a new
\* claim and a deletion end it, a list copies it, and nothing else writes it.
LEMMA GatewayGraces ==
    ASSUME ClaimType, GraceInv, Work
    PROVE  \/ UNCHANGED <<cronGrace, todo, listed>>
           \/ /\ UNCHANGED <<todo, listed>>
              /\ \E u \in Users : /\ cronGrace' = [cronGrace EXCEPT ![u] = 0]
                                  /\ claim[u] = NoClaim \/ claim'[u] = NoClaim
           \/ /\ UNCHANGED cronGrace /\ todo = {} /\ todo' \subseteq Users
              /\ listed' \in [Users -> 0..Grace]
              /\ \A u \in todo' : listed'[u] = cronGrace[u]
           \/ /\ UNCHANGED cronGrace
              /\ \E u \in Users : todo' = todo \ {u} /\ listed' = [listed EXCEPT ![u] = 0]
           \/ /\ UNCHANGED cronGrace
              /\ todo' = {} /\ listed' = [u \in Users |-> 0]
<1> USE DEF GraceInv, GraceType, claimVars, sweepVars
<1>1. ASSUME NEW r \in Requests, RequestStep(r) \/ \E u \in Users : Arrive(r, u)
      PROVE  UNCHANGED <<cronGrace, todo, listed>>
  BY <1>1 DEF RequestStep, Reject, PassReady, Hold, Woken, NoEndpoint, Forward, Close, Arrive
<1>2. ASSUME NEW h \in Handlers, HandlerStep(h)
      PROVE  UNCHANGED <<cronGrace, todo, listed>>
  BY <1>2 DEF HandlerStep, ApiCreated, ApiCreateFails, ApiDeleted, ApiDeleteFails, ApiAnswer
<1>3. CASE ApiCall
  <2> PICK h \in Handlers, u \in Users :
        \/ ApiCreate(h, u) \/ ApiDelete(h, u) \/ ApiSuspend(h, u) \/ ApiResume(h, u)
        \/ SetSuspendExempt(h, u, TRUE) \/ SetSuspendExempt(h, u, FALSE)
    BY <1>3 DEF ApiCall
  <2>1. CASE ApiCreate(h, u)
    BY <2>1 DEF ApiCreate, LC!CreateClaim, LC!UserExists
  <2>2. CASE ApiDelete(h, u)
    BY <2>2 DEF ApiDelete, LC!DeleteClaim, LC!UserExists, ClaimType
  <2>3. CASE ~ApiCreate(h, u) /\ ~ApiDelete(h, u)
    BY <2>3 DEF ApiSuspend, ApiResume, SetSuspendExempt
  <2> QED BY <2>1, <2>2, <2>3
<1>4. CASE SweepStep
  <2>1. CASE SweepList
    BY <2>1, GoroutinesAssumption DEF SweepList
  <2>2. ASSUME NEW u \in Users, FirstSight(u) \/ Spare(u) \/ SuspendIdle(u)
        PROVE  UNCHANGED cronGrace /\ Visited(u)
    BY <2>2 DEF FirstSight, Spare, SuspendIdle
  <2>3. CASE SweepOn
    BY <2>3 DEF SweepOn
  <2>4. ASSUME NEW u \in Users, SweepRead(u)
        PROVE  /\ UNCHANGED cronGrace
               /\ UNCHANGED <<todo, listed>> \/ (todo' = todo \ {u} /\ listed' = [listed EXCEPT ![u] = 0])
    BY <2>4 DEF SweepRead
  <2>5. CASE SweepListFails
    BY <2>5 DEF SweepListFails
  <2> QED BY <1>4, <2>1, <2>2, <2>3, <2>4, <2>5 DEF SweepStep, Visited
<1>5. CASE (\E c \in Calls : LifecycleStep(c)) \/ Cluster
  BY <1>5 DEF LifecycleStep, Cluster
<1> QED BY <1>1, <1>2, <1>3, <1>4, <1>5 DEF Work

LEMMA WorkGrace ==
    ASSUME ClaimType, GraceInv, HGatewayStep
    PROVE  GraceInv'
<1> USE GoroutinesAssumption DEF GraceInv, GraceType
<1>1. /\ sinceGrant' = [u \in Users |-> IF claim'[u] = NoClaim THEN Grace ELSE sinceGrant[u]]
      /\ sawGrant' = [u \in Users |-> IF u \notin todo' THEN Grace
                                      ELSE IF u \notin todo THEN sinceGrant[u] ELSE sawGrant[u]]
      /\ UNCHANGED listedAgo
      /\ Work
  BY DEF HGatewayStep, GatewayStep, wakerVars
<1>2. NoClaimNoGrant'
  BY <1>1 DEF NoClaimNoGrant
<1>3. CASE UNCHANGED <<cronGrace, todo, listed>>
  BY <1>1, <1>2, <1>3 DEF GraceOnClaim, GraceInList
<1>4. ASSUME UNCHANGED <<todo, listed>>, NEW u \in Users, cronGrace' = [cronGrace EXCEPT ![u] = 0],
             claim[u] = NoClaim \/ claim'[u] = NoClaim
      PROVE  GraceInv'
  <2>1. sinceGrant'[u] = Grace
    BY <1>1, <1>4 DEF NoClaimNoGrant
  <2> QED BY <1>1, <1>2, <1>4, <2>1 DEF GraceOnClaim, GraceInList
<1>5. ASSUME UNCHANGED cronGrace, todo = {}, todo' \subseteq Users, listed' \in [Users -> 0..Grace],
             \A u \in todo' : listed'[u] = cronGrace[u]
      PROVE  GraceInv'
  BY <1>1, <1>2, <1>5 DEF GraceOnClaim, GraceInList
<1>6. ASSUME UNCHANGED cronGrace, NEW u \in Users, todo' = todo \ {u},
             listed' = [listed EXCEPT ![u] = 0]
      PROVE  GraceInv'
  BY <1>1, <1>2, <1>6 DEF GraceOnClaim, GraceInList
<1>7. ASSUME UNCHANGED cronGrace, todo' = {}, listed' = [u \in Users |-> 0]
      PROVE  GraceInv'
  BY <1>1, <1>2, <1>7 DEF GraceOnClaim, GraceInList
<1> QED BY <1>1, <1>3, <1>4, <1>5, <1>6, <1>7, GatewayGraces

\* A grant and its stop-watch start together, however long ago the waker's
\* sweep has read the clock.
LEMMA WakerGrace ==
    ASSUME CallsInv, GraceInv, HWakerStep
    PROVE  GraceInv'
<1> USE GoroutinesAssumption DEF GraceInv, GraceType
<1>1. /\ sinceGrant' = [u \in Users |-> IF Wakes(u) THEN Granted(listedAgo) ELSE sinceGrant[u]]
      /\ UNCHANGED sawGrant /\ WakerStep
  BY DEF HWakerStep
<1>2. UNCHANGED <<claim, todo, listed>> /\ listedAgo' \in 0..Grace
  BY <1>1 DEF WakerStep, WakerList, WakerRead, WakerListFails, WakerClock, WakerSkip, ClearStale,
              GrantAndWake, WakerResumed, Handled, Nothing, vars, kubeVars, sweepVars, wakerVars, LC!SetNextCronWake, LC!Finish, LC!kubeVars
<1>3. ASSUME NEW u \in Users, GrantAndWake(u) PROVE GraceInv'
  <2>1. cronGrace' = [cronGrace EXCEPT ![u] = Grace - listedAgo] /\ claim[u] # NoClaim
    BY <1>3 DEF GrantAndWake, Grant, LC!UserExists
  <2>2. \A v \in Users : Wakes(v) <=> v = u
    BY <1>3 DEF GrantAndWake, LC!Enter, Wakes, CallsInv, Calls
  <2>3. Granted(listedAgo) \in {listedAgo, Grace}
    BY DEF Granted
  <2> QED BY <1>1, <1>2, <2>1, <2>2, <2>3 DEF NoClaimNoGrant, GraceOnClaim, GraceInList
<1>4. CASE \A u \in Users : ~GrantAndWake(u)
  <2>1. UNCHANGED cronGrace /\ \A u \in Users : ~Wakes(u)
    BY <1>1, <1>4 DEF WakerStep, WakerList, WakerRead, WakerListFails, WakerClock, WakerSkip, ClearStale, WakerResumed, Wakes,
                      vars, callVars, claimVars, LC!Finish, CallsInv, Calls
  <2> QED BY <1>1, <1>2, <2>1 DEF NoClaimNoGrant, GraceOnClaim, GraceInList
<1> QED BY <1>3, <1>4

LEMMA TickGrace ==
    ASSUME GraceInv, HCronTick
    PROVE  GraceInv'
<1> USE GoroutinesAssumption DEF GraceInv, GraceType, Up, Down
<1>1. /\ sinceGrant' = [u \in Users |-> Up(sinceGrant[u])]
      /\ sawGrant' = [u \in Users |-> Up(sawGrant[u])]
      /\ cronGrace' = [u \in Users |-> Down(cronGrace[u])]
      /\ listed' = [u \in Users |-> Down(listed[u])]
      /\ listedAgo' \in 0..Grace
      /\ UNCHANGED <<claim, todo>>
  BY DEF HCronTick, CronTick, Tick, LC!Tick
<1>2. GraceType'
  BY <1>1
<1>3. NoClaimNoGrant' /\ GraceOnClaim' /\ GraceInList'
  BY <1>1 DEF NoClaimNoGrant, GraceOnClaim, GraceInList
<1> QED BY <1>2, <1>3

LEMMA RestartGrace ==
    ASSUME GraceInv, HRestart
    PROVE  GraceInv'
BY GoroutinesAssumption
   DEF HRestart, CronRestart, Restart, LC!Restart, LC!kubeVars, claimVars,
       Nothing, GraceInv, GraceType, NoClaimNoGrant, GraceOnClaim, GraceInList

\* Beside the grace: what GatewayProofs knows of goroutines and claims.
Surroundings == FlowInv /\ CallsInv /\ ClaimType

LEMMA ClaimNext ==
    ASSUME ClaimType, [LC!Next]_LC!vars
    PROVE  ClaimType'
<1> USE DEF ClaimType, LC!kubeVars
<1>1. ASSUME NEW c \in Calls, LC!Start(c) \/ LC!Finish(c) PROVE UNCHANGED claim
  BY <1>1 DEF LC!Start, LC!StartResume, LC!StartSuspend, LC!Finish
<1>2. ASSUME NEW c \in Calls, LC!CallStep(c) PROVE UNCHANGED claim
  BY <1>2 DEF LC!CallStep, LC!PatchNotFound, LC!ApiFailure,
     LC!ResumeStep, LC!Lock, LC!ResumeResolve, LC!WakePatch, LC!RecordReason, LC!Poll,
     LC!PollFails, LC!WaitTimeout, LC!setOperatingMode,
     LC!SuspendStep, LC!SuspendResolve, LC!CaptureWrite, LC!CaptureFails, LC!CaptureRead,
     LC!SuspendPatch, LC!SuspendConfirm, LC!SetNextCronWake
<1>3. CASE LC!Environment
  BY <1>3 DEF LC!Environment, LC!Admin, LC!CreateClaim, LC!DeleteClaim, LC!Cluster, LC!Adopt,
     LC!Reconcile, LC!StartPod, LC!PodUp, LC!StopPod, LC!PodGone, LC!UpdateStatus, LC!SetPod,
     LC!LosePod, LC!RemoveSandbox
<1>4. CASE LC!Restart \/ LC!Tick \/ UNCHANGED LC!vars
  BY <1>4 DEF LC!Restart, LC!Tick, LC!vars
<1> QED BY <1>1, <1>2, <1>3, <1>4 DEF LC!Next

LEMMA WakerSurroundings ==
    ASSUME Surroundings, WakerStep
    PROVE  Surroundings'
<1> USE DEF Surroundings
<1>1. UNCHANGED <<flowVars, todo, claim>>
  BY DEF WakerStep, WakerList, WakerRead, WakerListFails, WakerClock,
          WakerSkip, ClearStale, GrantAndWake, WakerResumed,
         vars, kubeVars, sweepVars, LC!SetNextCronWake, LC!Finish, LC!kubeVars
<1>2. CallsInv'
  BY DEF WakerStep, WakerList, WakerRead, WakerListFails, WakerClock,
          WakerSkip, ClearStale, GrantAndWake, WakerResumed,
         vars, callVars, LC!Enter, LC!Finish, CallsInv, Calls,
         LC!Steps, LC!ResumeSteps, LC!SuspendSteps
<1> QED BY <1>1, <1>2 DEF FlowInv, flowVars, ClaimType

LEMMA SurroundingsNext ==
    ASSUME Surroundings, [HCronNext]_hcronVars
    PROVE  Surroundings'
<1> USE DEF Surroundings
<1>1. CASE [Next]_vars
  BY <1>1, FlowNext, CallsStep, CallsNext, ClaimNext
<1>2. CASE WakerStep
  BY <1>2, WakerSurroundings
<1> QED BY <1>1, <1>2 DEF HCronNext, HGatewayStep, GatewayStep, HWakerStep, HRestart, CronRestart,
                          HCronTick, CronTick, Next, hcronVars, allVars

LEMMA GraceAlways == HCronSpec => [](Surroundings /\ GraceInv)
<1>1. HCronInit => Surroundings
  BY FlowInit DEF HCronInit, CronInit, Init, LC!Init, LC!KubeInit, LC!CallsInit,
                  Surroundings, CallsInv, ClaimType, LC!Steps
<1>2. ASSUME Surroundings, GraceInv, [HCronNext]_hcronVars PROVE GraceInv'
  <2>1. CASE UNCHANGED hcronVars
    BY <1>2, <2>1 DEF hcronVars, history, allVars, wakerVars, vars, kubeVars, claimVars, sweepVars,
                      GraceInv, GraceType, NoClaimNoGrant, GraceOnClaim, GraceInList
  <2> QED BY <1>2, <2>1, WorkGrace, WakerGrace, TickGrace, RestartGrace DEF HCronNext, Surroundings
<1> QED BY <1>1, <1>2, GraceInit, SurroundingsNext, PTL DEF HCronSpec

\* No sweep decides against an agent the cron waker has woken before the
\* grace it was granted is over, unless the sweep listed the claims before the
\* grant (cronwaker.go:83-84: the grace goes on first).
THEOREM GraceHolds == HCronSpec => GraceShields
<1>1. Surroundings /\ GraceInv /\ [HCronNext]_hcronVars =>
        [\A u \in Users : Decides(u) => sawGrant[u] >= Grace]_hcronVars
  <2> SUFFICES ASSUME Surroundings, GraceInv, [HCronNext]_hcronVars, NEW u \in Users, Decides(u)
               PROVE  sawGrant[u] >= Grace
    OBVIOUS
  <2>1. CASE WakerStep
    BY <2>1, GoroutinesAssumption
       DEF WakerStep, WakerList, WakerRead, WakerListFails, WakerClock,
          WakerSkip, ClearStale, GrantAndWake, WakerResumed, Decides,
           vars, callVars, LC!Enter, LC!Finish, Surroundings, CallsInv, Calls
  <2>2. CASE [Next]_vars
    <3>1. SuspendIdle(u)
      BY <2>2, OnlySweepsDecide DEF Decides, Surroundings
    <3>2. u \in todo /\ listed[u] = 0
      BY <3>1 DEF SuspendIdle, Visited, InGrace, GraceInv, GraceType
    <3> QED BY <3>2, GoroutinesAssumption DEF GraceInv, GraceType, GraceInList
  <2> QED BY <2>1, <2>2 DEF HCronNext, HGatewayStep, GatewayStep, HWakerStep, HRestart, CronRestart,
                            HCronTick, CronTick, Next, hcronVars, allVars
<1> QED BY <1>1, GraceAlways, PTL DEF HCronSpec, GraceShields
-----------------------------------------------------------------------------
(* Types. *)

CronTypes ==
    /\ due \in [Users -> Intents]
    /\ names \in [Users -> Sandboxes \cup {NoSandbox}]
    /\ marks \in [Users -> CronTimes \cup {NoCron}]
    /\ owed \in [Users -> BOOLEAN]

LEMMA WakerTypes ==
    ASSUME ProcessInv, GraceInv, CronTypes, HWakerStep
    PROVE  ProcessInv'
<1> USE DEF ProcessInv
<1>1. Waker \in Calls /\ Requests \subseteq Calls
  BY DEF Calls
<1>2. WakerStep
  BY DEF HWakerStep
<1>3. FlowInv' /\ TrackerInv'
  <2>1. UNCHANGED <<flowVars, todo, trackerVars>>
    BY <1>2 DEF WakerStep, WakerList, WakerRead, WakerListFails, WakerClock,
          WakerSkip, ClearStale, GrantAndWake, WakerResumed, vars, sweepVars
  <2> QED BY <2>1 DEF FlowInv, TrackerInv, TR!TypeOK, Tidy, Exact, TR!Open, flowVars, trackerVars
<1>4. ClaimTypes'
  <2>1. UNCHANGED <<exempt, listed, unread>>
    BY <1>2 DEF WakerStep, WakerList, WakerRead, WakerListFails, WakerClock,
          WakerSkip, ClearStale, GrantAndWake, WakerResumed,
                vars, claimVars, sweepVars
  <2>2. cronGrace' \in [Users -> 0..Grace]
    BY WakerGrace DEF GraceInv, GraceType, CallsInv, CallsTyped, LC!TypeOK
  <2> QED BY <2>1, <2>2 DEF ClaimTypes
<1>5. CallsTyped'
  <2> USE DEF CallsTyped, KnowsUser, LC!TypeOK, LC!KubeTypeOK
  <2>1. CASE UNCHANGED <<kubeVars, callVars>>
    BY <2>1 DEF kubeVars, callVars
  <2>2. CASE LC!Finish(Waker)
    BY <1>1, <2>2 DEF LC!Finish, LC!kubeVars, LC!Steps
  <2>3. ASSUME NEW u \in Users, LC!SetNextCronWake(u, NoCron), UNCHANGED callVars PROVE CallsTyped'
    BY <2>3 DEF LC!SetNextCronWake, callVars
  <2>4. ASSUME NEW u \in Users, LC!SetNextCronWake(u, NoCron), LC!Enter(Waker, u, "lock") PROVE CallsTyped'
    BY <1>1, <2>4 DEF LC!SetNextCronWake, LC!Enter, LC!Steps, LC!ResumeSteps
  <2> QED BY <1>2, <2>1, <2>2, <2>3, <2>4
          DEF WakerStep, WakerList, WakerRead, WakerListFails, WakerClock,
          WakerSkip, ClearStale, GrantAndWake, WakerResumed, vars
<1> QED BY <1>3, <1>4, <1>5

LEMMA CronTypesNext ==
    ASSUME LC!KubeTypeOK, CronTypes, [HCronNext]_hcronVars
    PROVE  CronTypes'
<1> DEFINE Sheets == /\ due' \in [Users -> Intents]
                     /\ names' \in [Users -> Sandboxes \cup {NoSandbox}]
                     /\ marks' \in [Users -> CronTimes \cup {NoCron}]
<1>1. ASSUME WakerStep PROVE Sheets
  <2> USE DEF CronTypes, Intents
  <2>1. CASE WakerList
    BY <2>1 DEF WakerList, Marked, LC!UserExists, LC!KubeTypeOK
  <2>2. ASSUME NEW u \in Users, WakerRead(u) PROVE Sheets
    BY <2>2 DEF WakerRead
  <2>3. CASE WakerListFails
    BY <2>3 DEF WakerListFails, Nothing
  <2>4. CASE WakerClock
    <3>1. \A u \in Users : Intent(u) \in Intents
      BY DEF Intent
    <3> QED BY <2>4, <3>1 DEF WakerClock
  <2>5. ASSUME NEW u \in Users, WakerSkip(u) \/ ClearStale(u) \/ GrantAndWake(u) PROVE Sheets
    BY <2>5 DEF WakerSkip, ClearStale, GrantAndWake, Handled
  <2> QED BY <1>1, <2>1, <2>2, <2>3, <2>4, <2>5 DEF WakerStep, WakerResumed, wakerVars
<1>2. ASSUME GatewayStep \/ CronRestart \/ CronTick \/ UNCHANGED hcronVars PROVE Sheets
  <2>1. \A t \in CronTimes \cup {NoCron} : LC!Nearer(t) \in CronTimes \cup {NoCron}
    BY ObjectsAssumption DEF LC!Nearer
  <2> QED BY <1>2, <2>1 DEF GatewayStep, CronRestart, Nothing, CronTick, hcronVars, allVars, wakerVars,
                            CronTypes, Intents
<1>3. owed' \in [Users -> BOOLEAN]
  <2>1. CASE Owes
    BY <2>1, Zenon DEF Owes
  <2>2. CASE UNCHANGED owed
    BY <2>2 DEF CronTypes
  <2> QED BY <2>1, <2>2 DEF HCronNext, HGatewayStep, HWakerStep, HRestart, HCronTick, hcronVars, history
<1> QED BY <1>1, <1>2, <1>3
        DEF CronTypes, HCronNext, HGatewayStep, HWakerStep, HRestart, HCronTick

\* The waker beside the other goroutines keeps the state of the process within
\* its types; in particular no grace is longer than the whole one, or negative,
\* however long its sweep has been under way.
THEOREM CronTypesHold == HCronSpec => []HCronTypeOK
<1>1. HCronInit => ProcessInv /\ CronTypes
  BY ProcessInit DEF HCronInit, CronInit, CronTypes, Intents
<1>2. ProcessInv /\ GraceInv /\ CronTypes /\ [HCronNext]_hcronVars => ProcessInv' /\ CronTypes'
  <2> SUFFICES ASSUME ProcessInv, GraceInv, CronTypes, [HCronNext]_hcronVars
               PROVE  ProcessInv' /\ CronTypes'
    OBVIOUS
  <2>1. HWakerStep \/ [Next]_vars
    BY DEF HCronNext, HGatewayStep, GatewayStep, HRestart, CronRestart, HCronTick, CronTick, Next,
           hcronVars, allVars
  <2> QED BY <2>1, WakerTypes, CronTypesNext, ProcessNext DEF ProcessInv, CallsTyped, LC!TypeOK
<1>3. ProcessInv /\ GraceInv /\ CronTypes => HCronTypeOK
  BY ProcessTypes DEF GraceInv, GraceType, CronTypes, HCronTypeOK, CronTypeOK
<1> QED BY <1>1, <1>2, <1>3, GraceAlways, PTL DEF HCronSpec
=============================================================================
