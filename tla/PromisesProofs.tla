---------------------------- MODULE PromisesProofs ----------------------------
(***************************************************************************)
(* What the comments promise of the sweeper, for any number of users and   *)
(* goroutines and any windows: it spares open requests, and a fresh        *)
(* process or a fresh user gets a full window, because no entry is older   *)
(* than the process or than its user's last creation (YoungEntries).       *)
(***************************************************************************)
EXTENDS GatewayPromises, GatewayProofs

LEMMA PromisesStep == [HNext]_hvars => [Next]_vars
BY DEF HNext, HWork, HRestart, HTick, hvars, Next

LEMMA DecidesIdle ==
    ASSUME CallsInv, [Next]_vars, NEW u \in Users, Decides(u)
    PROVE  entry[u].seen /\ TR!Idle(entry[u])
BY OnlySweepsDecide DEF Decides, SuspendIdle

\* For any number of users, requests and handlers, through deletions,
\* re-creations and restarts: no sweep decides against a user with a tracked
\* request open (tracker.go:170), because the counter of the entry counts it.
THEOREM SweepsSpareOpenRequests == HSpec => SweepSparesOpenRequests
<1>1. CallsInv /\ TrackerInv /\ HandleInv /\ [HNext]_hvars =>
        [\A u \in Users : Decides(u) =>
           \A r \in Requests : at[r] = "open" /\ user[r] = u => ~handle[r].attached]_hvars
  <2> SUFFICES ASSUME CallsInv, TrackerInv, HandleInv, [HNext]_hvars,
                      NEW u \in Users, Decides(u),
                      NEW r \in Requests, at[r] = "open", user[r] = u, handle[r].attached
               PROVE  FALSE
    OBVIOUS
  <2>1. r \in TR!Open(u)
    BY DEF TR!Open, HandleInv
  <2>2. Cardinality(TR!Open(u)) \in Nat \ {0}
    BY <2>1, OpenFinite, FS_EmptySet, FS_CardinalityType
  <2>3. TR!Idle(entry[u])
    BY PromisesStep, DecidesIdle
  <2> QED BY <2>2, <2>3 DEF TR!Idle, TrackerInv, Exact
<1>2. HInit => Init
  BY DEF HInit
<1> QED BY <1>1, <1>2, PromisesStep, CallsAlways, TrackerAlways, HandleAlways, PTL
        DEF HSpec, Spec, SweepSparesOpenRequests

-----------------------------------------------------------------------------
(* Full windows. *)

\* No entry is older than the process, nor than its user's last CreateUser.
YoungEntries ==
    \A u \in Users : entry[u].seen => entry[u].age <= uptime /\ entry[u].age <= created[u]

YoungInv ==
    /\ uptime \in 0..Cap
    /\ created \in [Users -> 0..Cap]
    /\ YoungEntries

\* What a step of the tracker between two ticks does to one entry: nothing,
\* drop it, or make it fresh.
LEMMA EntryStep ==
    ASSUME TrackerInv, UsesTracker, NEW u \in Users
    PROVE  entry'[u] = entry[u] \/ ~entry'[u].seen \/ entry'[u].age = 0
<1>0. entry \in [Users -> TR!Entry] /\ TR!TypeOK /\ Tidy
  BY DEF TrackerInv, TR!TypeOK
<1>1. ASSUME NEW v \in Users, TR!Observe(v) PROVE entry'[u] = entry[u] \/ entry'[u].age = 0
  BY <1>0, <1>1, GetType DEF TR!Observe
<1>2. ASSUME NEW v \in Users, TR!Touch(v) PROVE entry'[u] = entry[u] \/ entry'[u].age = 0
  BY <1>0, <1>2, GetType, ActivityType DEF TR!Touch
<1>3. ASSUME NEW v \in Users, NEW r \in Requests, TR!Begin(r, v)
      PROVE  entry'[u] = entry[u] \/ entry'[u].age = 0
  BY <1>0, <1>3, GetType, EndsType DEF TR!Begin
<1>4. ASSUME NEW r \in Requests, TR!Done(r) PROVE entry'[u] = entry[u] \/ entry'[u].age = 0
  BY <1>0, <1>4, EndsType DEF TR!Done
<1>5. ASSUME NEW v \in Users, TR!Forget(v) PROVE entry'[u] = entry[u] \/ ~entry'[u].seen
  BY <1>0, <1>5 DEF TR!Forget, TR!NoEntry
<1> QED BY <1>1, <1>2, <1>3, <1>4, <1>5 DEF UsesTracker, TR!UserStep, TR!vars

LEMMA StartsFresh ==
    ASSUME FlowInv, TrackerInv, NEW u \in Users, Starts(u)
    PROVE  entry'[u].age = 0
<1>1. TR!Touch(u)
  BY DEF Starts, ApiCreated
<1> QED BY <1>1, GetType, ActivityType DEF TR!Touch, TrackerInv, TR!TypeOK

LEMMA YoungNext ==
    ASSUME FlowInv, TrackerInv, TrackerInv', YoungInv, [HNext]_hvars
    PROVE  YoungInv'
<1> USE WindowsAssumption DEF YoungInv, YoungEntries, Zero, Up
<1>0. /\ \A u \in Users : entry[u] \in TR!Entry /\ entry'[u] \in TR!Entry
      /\ \A e \in TR!Entry : e.age \in 0..Cap
  BY DEF TrackerInv, TR!TypeOK, TR!Entry
<1>1. CASE HTick
  <2>1. /\ uptime' = Up(uptime)
        /\ created' = [u \in Users |-> Up(created[u])]
        /\ entry' = [u \in Users |-> TR!Older(entry[u])]
    BY <1>1 DEF HTick, Tick, TR!Tick
  <2>2. \A u \in Users : entry'[u].seen = entry[u].seen
                         /\ (entry[u].seen => entry'[u].age = Up(entry[u].age))
    BY <1>0, <2>1, OlderType
  <2> QED BY <1>0, <2>1, <2>2
<1>2. CASE HRestart
  BY <1>2 DEF HRestart, Restart, TR!Restart, TR!NoEntry
<1>3. CASE HWork \/ UNCHANGED hvars
  <2>1. /\ UNCHANGED uptime
        /\ created' \in [Users -> 0..Cap]
        /\ \A u \in Users : created'[u] = created[u] \/ (created'[u] \in 0..Cap /\ Starts(u))
    BY <1>3 DEF HWork, hvars, watches
  <2>2. \A u \in Users : entry'[u] = entry[u] \/ ~entry'[u].seen \/ entry'[u].age = 0
    <3>1. UsesTracker
      BY <1>3, WorkUsesTracker DEF HWork, hvars, vars, trackerVars, UsesTracker, TR!vars
    <3> QED BY <3>1, EntryStep
  <2> QED BY <1>0, <2>1, <2>2, StartsFresh
<1> QED BY <1>1, <1>2, <1>3 DEF HNext

LEMMA YoungAlways == HSpec => [](CallsInv /\ TrackerInv /\ YoungInv)
<1>1. HInit => Init /\ YoungInv
  BY WindowsAssumption DEF HInit, Init, TR!Init, TR!NoEntry, YoungInv, YoungEntries, Zero
<1> QED BY <1>1, PromisesStep, CallsAlways, TrackerAlways, YoungNext, PTL DEF HSpec, Spec

\* A sweep decides when one of the windows is over, and neither is shorter
\* than the base window.
LEMMA DecidesLate ==
    ASSUME CallsInv, TrackerInv, YoungInv, [HNext]_hvars, NEW u \in Users, Decides(u),
           ActiveTimeout = 0 \/ ActiveTimeout >= IdleTimeout
    PROVE  uptime >= IdleTimeout /\ created[u] >= IdleTimeout
<1>1. entry[u].seen /\ entry[u].age >= TR!Window(entry[u])
  BY PromisesStep, DecidesIdle DEF TR!Idle
<1>2. TR!Window(entry[u]) \in Nat /\ TR!Window(entry[u]) >= IdleTimeout
  BY WindowsAssumption DEF TR!Window
<1>3. entry[u].age \in 0..Cap
  BY DEF TrackerInv, TR!TypeOK, TR!Entry
<1> QED BY <1>1, <1>2, <1>3, WindowsAssumption DEF YoungInv, YoungEntries

\* A restart forgives idleness (design-decisions.md 17): no sweep of a new
\* process decides before a full base window of uptime, whatever the old
\* process knew and whoever is created, deleted or seen meanwhile.  An active
\* window that is in use must not be the shorter one.
THEOREM RestartsForgive ==
    ActiveTimeout = 0 \/ ActiveTimeout >= IdleTimeout => (HSpec => RestartForgivesIdleness)
<1> SUFFICES ASSUME ActiveTimeout = 0 \/ ActiveTimeout >= IdleTimeout
             PROVE  HSpec => RestartForgivesIdleness
  OBVIOUS
<1>1. CallsInv /\ TrackerInv /\ YoungInv /\ [HNext]_hvars =>
        [\A u \in Users : Decides(u) => uptime >= IdleTimeout]_hvars
  BY DecidesLate
<1> QED BY <1>1, YoungAlways, PTL DEF HSpec, RestartForgivesIdleness

\* A user created again starts fresh (users.go:119-120): no entry a deleted
\* namesake left behind, nor a request of his that ends late, gets the new
\* user suspended before a full base window has passed since CreateUser.
THEOREM CreationsStartFresh ==
    ActiveTimeout = 0 \/ ActiveTimeout >= IdleTimeout => (HSpec => CreatedStartsFresh)
<1> SUFFICES ASSUME ActiveTimeout = 0 \/ ActiveTimeout >= IdleTimeout
             PROVE  HSpec => CreatedStartsFresh
  OBVIOUS
<1>1. CallsInv /\ TrackerInv /\ YoungInv /\ [HNext]_hvars =>
        [\A u \in Users : Decides(u) => created[u] >= IdleTimeout]_hvars
  BY DecidesLate
<1> QED BY <1>1, YoungAlways, PTL DEF HSpec, CreatedStartsFresh
-----------------------------------------------------------------------------
(* Types. *)

WatchTypes == quiet \in [Users -> 0..Cap] /\ created \in [Users -> 0..Cap] /\ uptime \in 0..Cap

LEMMA WatchTypesNext ==
    ASSUME WatchTypes, [HNext]_hvars
    PROVE  WatchTypes'
<1> USE WindowsAssumption DEF WatchTypes, Zero, Up
<1>1. CASE HWork
  BY <1>1 DEF HWork
<1>2. CASE HRestart \/ HTick \/ UNCHANGED hvars
  BY <1>2 DEF HRestart, HTick, hvars, watches
<1> QED BY <1>1, <1>2 DEF HNext

\* Requests, handlers, the sweeper, restarts and time, in whatever order they
\* meet, keep the state of the gateway process within its types.
THEOREM GatewayTypes == HSpec => []HTypeOK
<1>1. HInit => ProcessInv /\ WatchTypes
  BY ProcessInit, WindowsAssumption DEF HInit, WatchTypes, Zero
<1>2. ProcessInv /\ WatchTypes /\ [HNext]_hvars => ProcessInv' /\ WatchTypes'
  BY PromisesStep, ProcessNext, WatchTypesNext
<1>3. ProcessInv /\ WatchTypes => HTypeOK
  BY ProcessTypes DEF HTypeOK, WatchTypes
<1> QED BY <1>1, <1>2, <1>3, PTL DEF HSpec
=============================================================================
