---------------------------- MODULE GatewayProofs ----------------------------
(***************************************************************************)
(* The gateway process implements the components it is composed of: its    *)
(* requests, handlers and sweeper use the lifecycle and the tracker only   *)
(* as Lifecycle and IdleTracker say they are used.  Beside that, what the  *)
(* theorems about the promises rest on: a goroutine's place and the        *)
(* tracker's handle of it agree (FlowInv, HandleInv), the counter of an    *)
(* entry is exact (TrackerInv, as in IdleTrackerProofs), only the sweeper  *)
(* decides for the sweeper (CallsInv), and every part of the process keeps *)
(* its types (ProcessInv).                                                 *)
(***************************************************************************)
EXTENDS Gateway, FiniteSetTheorems, TLAPS

-----------------------------------------------------------------------------
(* Flows. *)

FlowInv ==
    /\ at \in [Flows -> Places]
    /\ user \in [Flows -> Users \cup {NoUser}]
    /\ todo \subseteq Users
    /\ \A g \in Flows : at[g] # "idle" => user[g] \in Users

LEMMA FlowInit == Init => FlowInv
BY DEF Init, FlowInv, Places

\* A flow that moves on, with its user or back to idle.
LEMMA FlowMoves ==
    ASSUME FlowInv, NEW g \in Flows, NEW place \in Places \ {"idle"},
           \/ GoTo(g, place) /\ at[g] # "idle"
           \/ Leave(g)
           \/ \E u \in Users : at' = [at EXCEPT ![g] = place] /\ user' = [user EXCEPT ![g] = u],
           todo' \subseteq Users
    PROVE  FlowInv'
BY DEF FlowInv, GoTo, Leave, Places

LEMMA FlowNext == FlowInv /\ [Next]_vars => FlowInv'
<1> SUFFICES ASSUME FlowInv, [Next]_vars PROVE FlowInv'
  OBVIOUS
<1>0. todo \subseteq Users /\ Requests \subseteq Flows /\ Handlers \subseteq Flows
  BY DEF FlowInv, Flows
<1>1. ASSUME NEW r \in Requests, RequestStep(r) PROVE FlowInv'
  <2>1. UNCHANGED todo /\ (Leave(r) \/ (at[r] # "idle" /\ \E p \in {"forward", "held", "open"} : GoTo(r, p)))
    BY <1>1 DEF RequestStep, Reject, PassReady, Hold, Woken, NoEndpoint, Forward, Close, sweepVars
  <2> QED BY <1>0, <2>1, FlowMoves DEF Places
<1>2. ASSUME NEW r \in Requests, NEW u \in Users, Arrive(r, u) PROVE FlowInv'
  BY <1>0, <1>2, FlowMoves DEF Arrive, Places, sweepVars
<1>3. ASSUME NEW h \in Handlers, HandlerStep(h) PROVE FlowInv'
  <2>1. UNCHANGED todo /\ Leave(h)
    BY <1>3 DEF HandlerStep, ApiCreated, ApiCreateFails, ApiDeleted, ApiDeleteFails, ApiAnswer, sweepVars
  <2> QED BY <1>0, <2>1, FlowMoves DEF Places
<1>4. CASE ApiCall
  <2> PICK h \in Handlers, u \in Users :
        \/ ApiCreate(h, u) \/ ApiDelete(h, u) \/ ApiSuspend(h, u) \/ ApiResume(h, u)
        \/ SetSuspendExempt(h, u, TRUE) \/ SetSuspendExempt(h, u, FALSE)
    BY <1>4 DEF ApiCall
  <2>1. \/ UNCHANGED <<flowVars, todo>>
        \/ UNCHANGED todo /\ \E p \in {"created", "deleted", "call"} : Take(h, u, p)
    BY DEF ApiCreate, ApiDelete, ApiSuspend, ApiResume, SetSuspendExempt, sweepVars
  <2> QED BY <1>0, <2>1, FlowMoves DEF Take, Places, FlowInv, flowVars
<1>5. CASE SweepStep
  <2>1. UNCHANGED flowVars /\ todo' \subseteq Users
    BY <1>0, <1>5 DEF SweepStep, SweepList, SweepRead, SweepListFails, FirstSight, Spare, SuspendIdle, Visited, SweepOn, sweepVars
  <2> QED BY <2>1 DEF FlowInv, flowVars
<1>6. CASE (\E c \in Calls : LifecycleStep(c)) \/ Cluster \/ Tick \/ UNCHANGED vars
  BY <1>6 DEF LifecycleStep, Cluster, Tick, vars, flowVars, sweepVars, FlowInv
<1>7. CASE Restart
  BY <1>7 DEF Restart, FlowInv, Places
<1> QED BY <1>1, <1>2, <1>3, <1>4, <1>5, <1>6, <1>7 DEF Next, Work

-----------------------------------------------------------------------------
(* The two refinements. *)

\* What the goroutines do to the tracker between two ticks.
UsesTracker ==
    \/ \E u \in Users : TR!UserStep(u)
    \/ \E r \in Requests : TR!Done(r)
    \/ UNCHANGED TR!vars

LEMMA WorkUsesTracker == FlowInv /\ Work => UsesTracker
<1> SUFFICES ASSUME FlowInv, Work PROVE UsesTracker
  OBVIOUS
<1> USE DEF trackerVars, TR!vars, UsesTracker
<1>0. Requests \subseteq Flows /\ Handlers \subseteq Flows
  BY DEF Flows
<1>1. ASSUME NEW r \in Requests, RequestStep(r) PROVE UsesTracker
  <2>1. CASE Forward(r)
    <3>1. user[r] \in Users
      BY <1>0, <2>1 DEF Forward, FlowInv
    <3> QED BY <2>1, <3>1 DEF Forward, TR!UserStep
  <2>2. CASE Close(r)
    BY <2>2 DEF Close
  <2>3. CASE ~Forward(r) /\ ~Close(r)
    BY <1>1, <2>3 DEF RequestStep, Reject, PassReady, Hold, Woken, NoEndpoint
  <2> QED BY <2>1, <2>2, <2>3
<1>2. ASSUME NEW h \in Handlers, HandlerStep(h) PROVE UsesTracker
  <2>1. at[h] # "idle" => user[h] \in Users
    BY <1>0 DEF FlowInv
  <2> QED BY <1>2, <2>1 DEF HandlerStep, ApiCreated, ApiCreateFails, ApiDeleted, ApiDeleteFails, ApiAnswer, TR!UserStep
<1>3. CASE ApiCall \/ \E r \in Requests, u \in Users : Arrive(r, u)
  BY <1>3 DEF ApiCall, ApiCreate, ApiDelete, ApiSuspend, ApiResume, SetSuspendExempt, Arrive
<1>4. CASE SweepStep
  BY <1>4 DEF SweepStep, SweepList, SweepRead, SweepListFails, FirstSight, Spare, SuspendIdle, SweepOn, TR!UserStep
<1>5. CASE (\E c \in Calls : LifecycleStep(c)) \/ Cluster
  BY <1>5 DEF LifecycleStep, Cluster
<1> QED BY <1>1, <1>2, <1>3, <1>4, <1>5 DEF Work

LEMMA TrackerStep == FlowInv /\ [Next]_vars => [TR!Next]_TR!vars
BY WorkUsesTracker DEF Next, Restart, Tick, UsesTracker, TR!Next, TR!vars, vars, trackerVars

LEMMA CallsStep == FlowInv /\ [Next]_vars => [LC!Next]_LC!vars
<1> SUFFICES ASSUME FlowInv, [Next]_vars PROVE [LC!Next]_LC!vars
  OBVIOUS
<1> USE DEF kubeVars, callVars, LC!vars, LC!kubeVars, LC!callVars
<1>0. Requests \subseteq Calls /\ Handlers \subseteq Calls /\ Sweeper \in Calls
  BY DEF Calls
<1>1. ASSUME NEW r \in Requests, RequestStep(r) PROVE [LC!Next]_LC!vars
  <2>1. CASE Hold(r)
    <3>1. user[r] \in Users
      BY <2>1 DEF Hold, FlowInv, Flows
    <3> QED BY <1>0, <2>1, <3>1 DEF Hold, LC!Next, LC!Start
  <2>2. CASE Woken(r)
    BY <1>0, <2>2 DEF Woken, LC!Next
  <2>3. CASE ~Hold(r) /\ ~Woken(r)
    BY <1>1, <2>3 DEF RequestStep, Reject, PassReady, NoEndpoint, Forward, Close
  <2> QED BY <2>1, <2>2, <2>3
<1>2. ASSUME NEW h \in Handlers, HandlerStep(h) PROVE [LC!Next]_LC!vars
  BY <1>0, <1>2 DEF HandlerStep, ApiCreated, ApiCreateFails, ApiDeleted, ApiDeleteFails, ApiAnswer, LC!Next
<1>3. CASE \E r \in Requests, u \in Users : Arrive(r, u)
  BY <1>3 DEF Arrive
<1>4. CASE ApiCall
  <2> PICK h \in Handlers, u \in Users :
        \/ ApiCreate(h, u) \/ ApiDelete(h, u) \/ ApiSuspend(h, u) \/ ApiResume(h, u)
        \/ SetSuspendExempt(h, u, TRUE) \/ SetSuspendExempt(h, u, FALSE)
    BY <1>4 DEF ApiCall
  <2>1. CASE ApiCreate(h, u) \/ ApiDelete(h, u)
    BY <2>1 DEF ApiCreate, ApiDelete, LC!Next, LC!Environment, LC!Admin
  <2>2. CASE ApiSuspend(h, u) \/ ApiResume(h, u)
    BY <1>0, <2>2 DEF ApiSuspend, ApiResume, LC!Next, LC!Start
  <2>3. CASE SetSuspendExempt(h, u, TRUE) \/ SetSuspendExempt(h, u, FALSE)
    BY <2>3 DEF SetSuspendExempt
  <2> QED BY <2>1, <2>2, <2>3
<1>5. CASE SweepStep
  BY <1>0, <1>5 DEF SweepStep, SweepList, SweepRead, SweepListFails, FirstSight, Spare, SuspendIdle, SweepOn, LC!Next, LC!Start
<1>6. CASE (\E c \in Calls : LifecycleStep(c)) \/ Cluster \/ UNCHANGED vars
  BY <1>6 DEF LifecycleStep, Cluster, vars, LC!Next, LC!Environment
<1>7. CASE Restart \/ Tick
  BY <1>7 DEF Restart, Tick, LC!Next
<1> QED BY <1>1, <1>2, <1>3, <1>4, <1>5, <1>6, <1>7 DEF Next, Work

LEMMA FlowAlways == Spec => []FlowInv
BY FlowInit, FlowNext, PTL DEF Spec

\* The process implements the idle tracker: whatever its goroutines do in
\* whatever order, they call the tracker's methods and touch its map in no
\* other way (main.go shares one Tracker).
THEOREM GatewayImplementsTracker == Spec => TR!Spec
<1>1. Init => TR!Init
  BY DEF Init
<1> QED BY <1>1, FlowAlways, TrackerStep, PTL DEF Spec, TR!Spec

\* The process implements the lifecycle: what is checked and proved of Suspend
\* and Resume under arbitrary callers holds of the calls the proxy, the
\* admin API and the sweeper make, with their claims created and deleted by the API.
THEOREM GatewayImplementsLifecycle == Spec => LC!Spec
<1>1. Init => LC!Init
  BY DEF Init
<1> QED BY <1>1, FlowAlways, CallsStep, PTL DEF Spec, LC!Spec

-----------------------------------------------------------------------------
(* The counter. *)

Tidy ==
    /\ \A u \in Users : ~entry[u].seen => entry[u] = TR!NoEntry
    /\ \A r \in Requests : handle[r] = TR!Closed \/ handle[r].user \in Users

\* IdleTracker's InflightExact.
Exact == \A u \in Users : entry[u].inflight = Cardinality(TR!Open(u))

TrackerInv == TR!TypeOK /\ Tidy /\ Exact

LEMMA OpenFinite ==
    ASSUME NEW u \in Users
    PROVE  IsFiniteSet(TR!Open(u))
BY FS_Subset, WindowsAssumption DEF TR!Open

LEMMA BlankType == TR!NoEntry \in TR!Entry /\ TR!Closed \in TR!Handle
BY WindowsAssumption DEF TR!NoEntry, TR!Entry, TR!Closed, TR!Handle

\* An activity resets the age; the start and the end of a request are
\* activities that move the counter by one.
LEMMA ActivityType ==
    ASSUME NEW e \in TR!Entry
    PROVE  /\ TR!Activity(e) \in TR!Entry /\ TR!Activity(e).age = 0
           /\ TR!Activity(e).inflight = e.inflight /\ TR!Activity(e).seen = e.seen
<1>1. e.active \in BOOLEAN /\ e.age \in 0..Cap /\ Cap \in 0..Cap /\ 0 \in 0..Cap
  BY WindowsAssumption DEF TR!Entry
<1>2. PICK g \in 0..Cap : g = IF e.active THEN e.age ELSE Cap
  BY <1>1
<1>3. TR!Activity(e) = [e EXCEPT !.active = TRUE, !.age = 0, !.gap = g]
  BY <1>2 DEF TR!Activity
<1> QED BY <1>1, <1>3 DEF TR!Entry

LEMMA EndsType ==
    ASSUME NEW e \in TR!Entry
    PROVE  /\ TR!OpenEntry(e) \in TR!Entry /\ TR!OpenEntry(e).age = 0
           /\ TR!OpenEntry(e).inflight = e.inflight + 1 /\ TR!OpenEntry(e).seen = e.seen
           /\ TR!CloseEntry(e) \in TR!Entry /\ TR!CloseEntry(e).age = 0
           /\ TR!CloseEntry(e).inflight = e.inflight - 1 /\ TR!CloseEntry(e).seen = e.seen
<1>1. \A a \in TR!Entry, n \in Int :
        /\ [a EXCEPT !.inflight = n] \in TR!Entry
        /\ [a EXCEPT !.inflight = n].inflight = n
        /\ [a EXCEPT !.inflight = n].seen = a.seen
        /\ [a EXCEPT !.inflight = n].age = a.age
  BY DEF TR!Entry
<1>2. e.inflight + 1 \in Int /\ e.inflight - 1 \in Int
  BY DEF TR!Entry
<1> QED BY <1>1, <1>2, ActivityType DEF TR!OpenEntry, TR!CloseEntry

LEMMA GetType ==
    ASSUME TR!TypeOK, Tidy, NEW u \in Users
    PROVE  /\ TR!get(u) \in TR!Entry /\ TR!get(u).seen
           /\ TR!get(u).inflight = entry[u].inflight
           /\ TR!get(u) # entry[u] => TR!get(u).age = 0
BY BlankType DEF TR!TypeOK, Tidy, TR!get, TR!Entry, TR!NoEntry

LEMMA TrackerInit == TR!Init => TrackerInv
<1> SUFFICES ASSUME TR!Init PROVE TrackerInv
  OBVIOUS
<1>1. TR!TypeOK /\ Tidy
  BY BlankType DEF TR!Init, TR!TypeOK, Tidy
<1>2. ASSUME NEW u \in Users PROVE entry[u].inflight = Cardinality(TR!Open(u))
  <2>1. TR!Open(u) = {}
    BY DEF TR!Init, TR!Open, TR!Closed
  <2> QED BY <2>1, FS_EmptySet DEF TR!Init, TR!NoEntry
<1> QED BY <1>1, <1>2 DEF TrackerInv, Exact

LEMMA SightKeeps ==
    ASSUME TrackerInv, NEW u \in Users, TR!Observe(u) \/ TR!Touch(u)
    PROVE  TrackerInv'
<1>1. PICK e \in TR!Entry : /\ e.seen /\ e.inflight = entry[u].inflight
                            /\ entry' = [entry EXCEPT ![u] = e]
                            /\ UNCHANGED handle
  BY GetType, ActivityType DEF TR!Observe, TR!Touch, TrackerInv
<1> QED BY <1>1 DEF TrackerInv, TR!TypeOK, Tidy, Exact, TR!Open

LEMMA BeginKeeps ==
    ASSUME TrackerInv, NEW u \in Users, NEW r \in Requests, TR!Begin(r, u)
    PROVE  TrackerInv'
<1> USE DEF TrackerInv
<1> DEFINE e == TR!OpenEntry(TR!get(u))
<1>0. e \in TR!Entry /\ e.seen /\ e.inflight = entry[u].inflight + 1
  BY GetType, EndsType
<1>1. /\ entry' = [entry EXCEPT ![u] = e]
      /\ handle' = [handle EXCEPT ![r] = [user |-> u, attached |-> TRUE]]
      /\ handle[r] = TR!Closed
  BY DEF TR!Begin
<1> HIDE DEF e
<1>2. TR!TypeOK' /\ Tidy'
  BY <1>0, <1>1 DEF TR!TypeOK, Tidy, TR!Handle
<1>3. /\ TR!Open(u)' = TR!Open(u) \cup {r} /\ r \notin TR!Open(u)
      /\ \A v \in Users : v # u => TR!Open(v)' = TR!Open(v)
  BY <1>1, WindowsAssumption DEF TR!Open, TR!TypeOK, TR!Closed
<1>4. Cardinality(TR!Open(u)') = Cardinality(TR!Open(u)) + 1
  BY <1>3, OpenFinite, FS_AddElement
<1>5. Exact'
  BY <1>0, <1>1, <1>3, <1>4 DEF Exact, TR!TypeOK
<1> QED BY <1>2, <1>5

LEMMA DoneKeeps ==
    ASSUME TrackerInv, NEW r \in Requests, TR!Done(r)
    PROVE  TrackerInv'
<1> USE DEF TrackerInv
<1> PICK u \in Users : u = handle[r].user
  BY DEF TR!Done
<1>0. handle' = [handle EXCEPT ![r] = TR!Closed]
  BY DEF TR!Done
<1>1. CASE handle[r].attached
  <2> DEFINE e == TR!CloseEntry(entry[u])
  <2>1. entry' = [entry EXCEPT ![u] = e]
    BY <1>1 DEF TR!Done
  <2>2. r \in TR!Open(u)
    BY <1>1 DEF TR!Open
  <2>3. /\ TR!Open(u)' = TR!Open(u) \ {r}
        /\ \A v \in Users : v # u => TR!Open(v)' = TR!Open(v)
    BY <1>0, WindowsAssumption DEF TR!Open, TR!TypeOK, TR!Closed
  <2>4. Cardinality(TR!Open(u)') = Cardinality(TR!Open(u)) - 1 /\ Cardinality(TR!Open(u)) \in Nat
    BY <2>2, <2>3, OpenFinite, FS_RemoveElement, FS_CardinalityType
  <2>5. Cardinality(TR!Open(u)) # 0
    BY <2>2, OpenFinite, FS_EmptySet
  <2>6. entry[u].seen
    BY <2>5 DEF Exact, Tidy, TR!NoEntry
  <2>7. e \in TR!Entry /\ e.seen /\ e.inflight = entry[u].inflight - 1
    BY <2>6, EndsType DEF TR!TypeOK
  <2>8. TR!TypeOK' /\ Tidy'
    BY <1>0, <2>1, <2>7, BlankType DEF TR!TypeOK, Tidy
  <2>9. Exact'
    BY <2>1, <2>3, <2>4, <2>7 DEF Exact, TR!TypeOK
  <2> QED BY <2>8, <2>9
<1>2. CASE ~handle[r].attached
  <2>1. UNCHANGED entry
    BY <1>2 DEF TR!Done
  <2>2. \A v \in Users : TR!Open(v)' = TR!Open(v)
    BY <1>0, <1>2 DEF TR!Open, TR!TypeOK, TR!Closed
  <2> QED BY <1>0, <2>1, <2>2, BlankType DEF TR!TypeOK, Tidy, Exact
<1> QED BY <1>1, <1>2

LEMMA ForgetKeeps ==
    ASSUME TrackerInv, NEW u \in Users, TR!Forget(u)
    PROVE  TrackerInv'
<1> USE DEF TrackerInv
<1>1. TR!TypeOK' /\ Tidy'
  BY BlankType DEF TR!Forget, TR!TypeOK, Tidy, TR!Handle
<1>2. TR!Open(u)' = {} /\ \A v \in Users : v # u => TR!Open(v)' = TR!Open(v)
  BY DEF TR!Forget, TR!Open, TR!TypeOK
<1>3. Exact'
  BY <1>2, FS_EmptySet DEF TR!Forget, Exact, TR!TypeOK, TR!NoEntry
<1> QED BY <1>1, <1>3

LEMMA OlderType ==
    ASSUME NEW e \in TR!Entry
    PROVE  /\ TR!Older(e) \in TR!Entry
           /\ TR!Older(e).inflight = e.inflight /\ TR!Older(e).seen = e.seen
           /\ ~e.seen => TR!Older(e) = e
           /\ e.seen => TR!Older(e).age = IF e.age < Cap THEN e.age + 1 ELSE e.age
BY WindowsAssumption DEF TR!Entry, TR!Older

LEMMA TrackerNext == TrackerInv /\ [TR!Next]_TR!vars => TrackerInv'
<1> SUFFICES ASSUME TrackerInv, [TR!Next]_TR!vars PROVE TrackerInv'
  OBVIOUS
<1>1. CASE TR!Restart
  <2>1. \A u \in Users : TR!Open(u)' = {}
    BY <1>1, WindowsAssumption DEF TR!Restart, TR!Open, TR!Closed
  <2> QED BY <1>1, <2>1, BlankType, FS_EmptySet
          DEF TR!Restart, TrackerInv, TR!TypeOK, Tidy, Exact, TR!NoEntry
<1>2. CASE TR!Tick
  <2>1. \A u \in Users : /\ entry'[u] \in TR!Entry
                         /\ entry'[u].inflight = entry[u].inflight
                         /\ ~entry'[u].seen => entry'[u] = TR!NoEntry
    BY <1>2, OlderType DEF TR!Tick, TrackerInv, TR!TypeOK, Tidy
  <2> QED BY <1>2, <2>1 DEF TR!Tick, TrackerInv, TR!TypeOK, Tidy, Exact, TR!Open
<1>3. CASE UNCHANGED TR!vars
  BY <1>3 DEF TR!vars, TrackerInv, TR!TypeOK, Tidy, Exact, TR!Open
<1> QED BY <1>1, <1>2, <1>3, SightKeeps, BeginKeeps, DoneKeeps, ForgetKeeps DEF TR!Next, TR!UserStep

LEMMA TrackerAlways == Spec => [](FlowInv /\ TrackerInv)
<1>1. Init => TR!Init
  BY DEF Init
<1> QED BY <1>1, TrackerInit, TrackerNext, TrackerStep, FlowInit, FlowNext, PTL DEF Spec

-----------------------------------------------------------------------------
(* The sweeper spares open requests. *)

\* A request that is open at the proxy holds its user's handle.
HandleInv == \A r \in Requests : at[r] = "open" => handle[r].user = user[r]

\* Only a forwarded request gets a handle, and only closing one takes it away.
LEMMA HandleNext ==
    ASSUME FlowInv, TrackerInv, HandleInv, [Next]_vars
    PROVE  HandleInv'
<1> USE DEF FlowInv, HandleInv
<1>0. Requests \subseteq Flows /\ Requests \cap Handlers = {}
  BY GoroutinesAssumption DEF Flows
<1>1. handle \in [Requests -> TR!Handle]
  BY DEF TrackerInv, TR!TypeOK
<1>2. ASSUME NEW r \in Requests, RequestStep(r) PROVE HandleInv'
  <2>1. CASE Forward(r)
    BY <1>0, <1>1, <2>1 DEF Forward, TR!Begin, GoTo
  <2>2. CASE Close(r)
    BY <1>0, <1>1, <2>2 DEF Close, TR!Done, Leave
  <2>3. CASE ~Forward(r) /\ ~Close(r)
    <3>1. /\ UNCHANGED handle
          /\ Leave(r) \/ \E p \in {"forward", "held"} : GoTo(r, p)
      BY <1>2, <2>3 DEF RequestStep, Reject, PassReady, Hold, Woken, NoEndpoint, trackerVars
    <3> QED BY <1>0, <3>1 DEF Leave, GoTo
  <2> QED BY <2>1, <2>2, <2>3
<1>3. ASSUME NEW r \in Requests, NEW u \in Users, Arrive(r, u) PROVE HandleInv'
  BY <1>0, <1>3 DEF Arrive, trackerVars
<1>4. ASSUME NEW h \in Handlers, HandlerStep(h) PROVE HandleInv'
  <2>1. \A r \in Requests : at'[r] = at[r] /\ user'[r] = user[r]
    BY <1>0, <1>4 DEF HandlerStep, ApiCreated, ApiCreateFails, ApiDeleted, ApiDeleteFails, ApiAnswer, Leave
  <2>2. \A r \in Requests : handle'[r].user = handle[r].user
    BY <1>1, <1>4 DEF HandlerStep, ApiCreated, ApiCreateFails, ApiDeleted, ApiDeleteFails, ApiAnswer,
                      TR!Touch, TR!Forget, trackerVars
  <2> QED BY <2>1, <2>2
<1>5. CASE ApiCall
  <2>1. PICK h \in Handlers, u \in Users :
        \/ ApiCreate(h, u) \/ ApiDelete(h, u) \/ ApiSuspend(h, u) \/ ApiResume(h, u)
        \/ SetSuspendExempt(h, u, TRUE) \/ SetSuspendExempt(h, u, FALSE)
    BY <1>5 DEF ApiCall
  <2>2. UNCHANGED handle /\ \A r \in Requests : at'[r] = at[r] /\ user'[r] = user[r]
    BY <1>0, <2>1 DEF ApiCreate, ApiDelete, ApiSuspend, ApiResume, SetSuspendExempt, Take,
                      trackerVars, flowVars
  <2> QED BY <2>2
<1>6. CASE SweepStep
  BY <1>6 DEF SweepStep, SweepList, SweepRead, SweepListFails, FirstSight, Spare, SuspendIdle, SweepOn, TR!Observe,
              trackerVars, flowVars
<1>7. CASE (\E c \in Calls : LifecycleStep(c)) \/ Cluster \/ Tick \/ UNCHANGED vars
  BY <1>7 DEF LifecycleStep, Cluster, Tick, TR!Tick, vars, trackerVars, flowVars
<1>8. CASE Restart
  BY <1>0, <1>8 DEF Restart
<1> QED BY <1>2, <1>3, <1>4, <1>5, <1>6, <1>7, <1>8 DEF Next, Work

LEMMA HandleAlways == Spec => []HandleInv
<1>1. Init => HandleInv
  BY DEF Init, HandleInv, Flows
<1> QED BY <1>1, TrackerAlways, HandleNext, PTL DEF Spec

CallsInv ==
    /\ pc \in [Calls -> LC!Steps]
    /\ who \in [Calls -> Users \cup {NoUser}]

\* A step inside Suspend or Resume moves its own goroutine, which is at work.
LEMMA CallMoves ==
    ASSUME CallsInv, NEW c \in Calls, LC!CallStep(c)
    PROVE  pc[c] # "idle" /\ UNCHANGED who /\ \E s \in LC!Steps : pc' = [pc EXCEPT ![c] = s]
<1> USE DEF LC!Steps, LC!ResumeSteps, LC!SuspendSteps
<1>1. CASE LC!ResumeStep(c)
  BY <1>1 DEF LC!ResumeStep, LC!Lock, LC!ResumeResolve, LC!WakePatch, LC!RecordReason, LC!Poll,
              LC!PollFails, LC!WaitTimeout, LC!Goto, LC!Return
<1>2. CASE LC!SuspendStep(c)
  BY <1>2 DEF LC!SuspendStep, LC!SuspendResolve, LC!CaptureWrite, LC!CaptureFails, LC!CaptureRead,
              LC!SuspendPatch, LC!SuspendConfirm, LC!Goto, LC!Return
<1>3. CASE LC!PatchNotFound(c) \/ LC!ApiFailure(c)
  BY <1>3 DEF LC!PatchNotFound, LC!ApiFailure, LC!Fallible, LC!Return
<1> QED BY <1>1, <1>2, <1>3 DEF LC!CallStep

LEMMA CallsNext == CallsInv /\ [LC!Next]_LC!vars => CallsInv'
<1> SUFFICES ASSUME CallsInv, [LC!Next]_LC!vars PROVE CallsInv'
  OBVIOUS
<1> USE DEF CallsInv, LC!Steps, LC!ResumeSteps, LC!SuspendSteps
<1>1. ASSUME NEW c \in Calls, LC!Start(c) PROVE CallsInv'
  BY <1>1 DEF LC!Start, LC!StartResume, LC!StartSuspend, LC!Enter
<1>2. ASSUME NEW c \in Calls, LC!CallStep(c) PROVE CallsInv'
  BY <1>2, CallMoves
<1>3. ASSUME NEW c \in Calls, LC!Finish(c) PROVE CallsInv'
  BY <1>3 DEF LC!Finish
<1>4. CASE LC!Environment \/ LC!Restart \/ LC!Tick \/ UNCHANGED LC!vars
  BY <1>4 DEF LC!Environment, LC!Restart, LC!Tick, LC!vars, LC!callVars
<1> QED BY <1>1, <1>2, <1>3, <1>4 DEF LC!Next

LEMMA CallsAlways == Spec => []CallsInv
<1>1. Init => CallsInv
  BY DEF Init, LC!Init, LC!CallsInit, CallsInv, LC!Steps
<1> QED BY <1>1, FlowAlways, CallsNext, CallsStep, PTL DEF Spec

\* The sweeper's goroutine enters Suspend only for a user it has found idle.
LEMMA OnlySweepsDecide ==
    ASSUME CallsInv, [Next]_vars, NEW u \in Users,
           pc[Sweeper] = "idle", pc'[Sweeper] = "look", who'[Sweeper] = u
    PROVE  SuspendIdle(u)
<1> USE DEF CallsInv
<1>0. /\ Sweeper \in Calls /\ Sweeper \notin Flows
      /\ Requests \subseteq Calls /\ Handlers \subseteq Calls
      /\ Requests \subseteq Flows /\ Handlers \subseteq Flows
  BY GoroutinesAssumption DEF Calls, Flows
<1>1. ASSUME NEW c \in Calls, c # Sweeper, \E s : pc' = [pc EXCEPT ![c] = s] PROVE FALSE
  BY <1>0, <1>1
<1>2. pc' # pc
  OBVIOUS
<1>3. ASSUME NEW r \in Requests, RequestStep(r) \/ \E v \in Users : Arrive(r, v) PROVE FALSE
  BY <1>0, <1>1, <1>2, <1>3
     DEF RequestStep, Reject, PassReady, Hold, Woken, NoEndpoint, Forward, Close, Arrive,
         callVars, LC!StartResume, LC!Enter, LC!Finish
<1>4. ASSUME NEW h \in Handlers, HandlerStep(h) PROVE FALSE
  BY <1>0, <1>1, <1>2, <1>4
     DEF HandlerStep, ApiCreated, ApiCreateFails, ApiDeleted, ApiDeleteFails, ApiAnswer, callVars, LC!Finish
<1>5. CASE ApiCall
  BY <1>0, <1>1, <1>2, <1>5
     DEF ApiCall, ApiCreate, ApiDelete, ApiSuspend, ApiResume, SetSuspendExempt,
         callVars, LC!StartResume, LC!StartSuspend, LC!Enter
<1>6. CASE SweepStep
  <2>1. PICK v \in Users : SuspendIdle(v)
    BY <1>0, <1>2, <1>6 DEF SweepStep, SweepList, SweepRead, SweepListFails, FirstSight, Spare, SweepOn, callVars, LC!Finish
  <2>2. who'[Sweeper] = v
    BY <1>0, <2>1 DEF SuspendIdle, LC!StartSuspend, LC!Enter
  <2> QED BY <2>1, <2>2
<1>7. ASSUME NEW c \in Calls, LifecycleStep(c) PROVE FALSE
  BY <1>0, <1>1, <1>7, CallMoves DEF LifecycleStep
<1>8. CASE Cluster \/ Tick \/ UNCHANGED vars
  BY <1>2, <1>8 DEF Cluster, Tick, LC!Tick, vars, callVars
<1>9. CASE Restart
  BY <1>0, <1>9 DEF Restart, LC!Restart
<1> QED BY <1>3, <1>4, <1>5, <1>6, <1>7, <1>8, <1>9 DEF Next, Work
-----------------------------------------------------------------------------
(* Types.  The arguments about calls and objects are those of              *)
(* LifecycleProofs, for the names of the composition.                      *)

\* A goroutine inside Suspend or Resume works for some user.
KnowsUser == \A c \in Calls : pc[c] # "idle" => who[c] \in Users

CallsTyped == LC!TypeOK /\ KnowsUser

\* Every answer of Resolve is a state.
LEMMA ResolvedStateType ==
    ASSUME LC!TypeOK, NEW u \in Users, LC!UserExists(u)
    PROVE  LC!ResolvedState(u) \in LC!States
<1>1. CASE claim[u] = NoSandbox
  BY <1>1 DEF LC!ResolvedState, LC!States
<1>2. CASE claim[u] \in Sandboxes /\ ~LC!Live(claim[u])
  BY <1>2, ObjectsAssumption DEF LC!ResolvedState, LC!States
<1>3. CASE claim[u] \in Sandboxes /\ LC!Live(claim[u])
  <2>1. LC!deriveState(sandbox[claim[u]]) \in LC!States
    BY DEF LC!deriveState, LC!States
  <2> QED BY <1>3, <2>1, ObjectsAssumption DEF LC!ResolvedState
<1> QED BY <1>1, <1>2, <1>3 DEF LC!TypeOK, LC!KubeTypeOK, LC!UserExists

\* What returning to the caller does to the types.
LEMMA ReturnType ==
    ASSUME LC!TypeOK, NEW c \in Calls, NEW r \in LC!States \cup {"error"},
           LC!Return(c, r), UNCHANGED LC!kubeVars
    PROVE  LC!TypeOK'
BY GoroutinesAssumption DEF LC!TypeOK, LC!KubeTypeOK, LC!kubeVars, LC!Return, LC!Unlock, LC!Steps

\* A write to one sandbox object keeps the types of the rest.
LEMMA SandboxType ==
    ASSUME LC!TypeOK, NEW s \in Sandboxes, NEW o \in LC!SandboxObject,
           sandbox' = [sandbox EXCEPT ![s] = o],
           UNCHANGED <<claim, nextCronWake, LC!callVars>>
    PROVE  LC!TypeOK'
BY DEF LC!TypeOK, LC!KubeTypeOK, LC!callVars

\* The fields of a sandbox object keep their types one by one.
LEMMA ObjectType ==
    ASSUME NEW o \in LC!SandboxObject
    PROVE  /\ \A m \in LC!Modes : [o EXCEPT !.mode = m] \in LC!SandboxObject
           /\ \A p \in {"Absent", "Starting", "Up", "Terminating"} : [o EXCEPT !.pod = p] \in LC!SandboxObject
           /\ LC!Conditions(o) \in LC!SandboxObject
           /\ \A w \in Users \cup {NoUser} : [LC!Unborn EXCEPT !.phase = "gone", !.owner = w] \in LC!SandboxObject
           /\ \A u \in Users, w \in BOOLEAN :
                [LC!Unborn EXCEPT !.phase = "live", !.owner = u,
                               !.pod = IF w THEN "Up" ELSE "Starting", !.ready = w] \in LC!SandboxObject
BY DEF LC!SandboxObject, LC!Modes, LC!Conditions, LC!Unborn

LEMMA ClusterType == LC!TypeOK /\ LC!Cluster /\ UNCHANGED LC!callVars => LC!TypeOK'
<1> SUFFICES ASSUME LC!TypeOK, LC!Cluster, UNCHANGED LC!callVars PROVE LC!TypeOK'
  OBVIOUS
<1>a. ASSUME NEW s \in Sandboxes PROVE sandbox[s] \in LC!SandboxObject
  BY DEF LC!TypeOK, LC!KubeTypeOK
<1>1. ASSUME NEW u \in Users, NEW s \in Sandboxes, LC!Adopt(u, s) PROVE LC!TypeOK'
  <2>1. PICK w \in BOOLEAN :
          sandbox' = [sandbox EXCEPT ![s] =
             [LC!Unborn EXCEPT !.phase = "live", !.owner = u,
                            !.pod = IF w THEN "Up" ELSE "Starting", !.ready = w]]
    BY <1>1 DEF LC!Adopt
  <2>2. sandbox' \in [Sandboxes -> LC!SandboxObject]
    BY <2>1, <1>a, ObjectType DEF LC!TypeOK, LC!KubeTypeOK
  <2> QED BY <1>1, <2>2 DEF LC!Adopt, LC!TypeOK, LC!KubeTypeOK, LC!callVars
<1>2. ASSUME NEW s \in Sandboxes,
             LC!StartPod(s) \/ LC!PodUp(s) \/ LC!StopPod(s) \/ LC!PodGone(s) \/ LC!LosePod(s)
      PROVE  LC!TypeOK'
  <2>1. PICK p \in {"Absent", "Starting", "Up", "Terminating"} : LC!SetPod(s, p)
    BY <1>2 DEF LC!StartPod, LC!PodUp, LC!StopPod, LC!PodGone, LC!LosePod
  <2>2. sandbox' \in [Sandboxes -> LC!SandboxObject]
    BY <2>1, <1>a, ObjectType DEF LC!SetPod, LC!TypeOK, LC!KubeTypeOK
  <2> QED BY <2>1, <2>2 DEF LC!SetPod, LC!TypeOK, LC!KubeTypeOK, LC!callVars
<1>3. ASSUME NEW s \in Sandboxes, LC!UpdateStatus(s) PROVE LC!TypeOK'
  <2>1. LC!Conditions(sandbox[s]) \in LC!SandboxObject
    BY <1>a, ObjectType
  <2> QED BY <1>3, <2>1, SandboxType DEF LC!UpdateStatus
<1>4. ASSUME NEW s \in Sandboxes, LC!RemoveSandbox(s) PROVE LC!TypeOK'
  <2>1. sandbox[s].owner \in Users \cup {NoUser}
    BY <1>a DEF LC!SandboxObject
  <2>2. [LC!Unborn EXCEPT !.phase = "gone", !.owner = sandbox[s].owner] \in LC!SandboxObject
    BY <2>1, <1>a, ObjectType
  <2> QED BY <1>4, <2>2, SandboxType DEF LC!RemoveSandbox
<1> QED BY <1>1, <1>2, <1>3, <1>4 DEF LC!Cluster, LC!Reconcile

LEMMA PatchType ==
    ASSUME LC!TypeOK, NEW s \in Sandboxes, NEW m \in LC!Modes, LC!setOperatingMode(s, m)
    PROVE  LC!KubeTypeOK'
<1>1. sandbox[s] \in LC!SandboxObject
  BY DEF LC!TypeOK, LC!KubeTypeOK
<1>2. sandbox' \in [Sandboxes -> LC!SandboxObject]
  BY <1>1, ObjectType DEF LC!setOperatingMode, LC!TypeOK, LC!KubeTypeOK
<1> QED BY <1>2 DEF LC!setOperatingMode, LC!TypeOK, LC!KubeTypeOK

LEMMA CallStepType ==
    ASSUME LC!TypeOK, KnowsUser, NEW c \in Calls, LC!CallStep(c)
    PROVE  LC!TypeOK'
<1>1. CASE LC!Lock(c)
  BY <1>1 DEF LC!Lock, LC!MutexFree, LC!TypeOK, LC!KubeTypeOK, LC!kubeVars, LC!Steps, LC!ResumeSteps
<1>2. CASE LC!ResumeResolve(c)
  <2>1. CASE LC!Return(c, "error") \/ LC!Return(c, "Ready")
    BY <1>2, <2>1, ReturnType DEF LC!ResumeResolve, LC!States
  <2>2. CASE /\ claim[who[c]] \in Sandboxes
             /\ pc' = [pc EXCEPT ![c] = IF LC!Wakeable(LC!ResolvedState(who[c])) THEN "wake" ELSE "poll1"]
             /\ target' = [target EXCEPT ![c] = claim[who[c]]]
             /\ UNCHANGED <<who, captured, result, wakeMu>>
    BY <1>2, <2>2 DEF LC!ResumeResolve, LC!TypeOK, LC!KubeTypeOK, LC!kubeVars, LC!Steps, LC!ResumeSteps
  <2> QED BY <1>2, <2>1, <2>2 DEF LC!ResumeResolve
<1>3. CASE LC!WakePatch(c)
  <2>1. LC!KubeTypeOK'
    BY <1>3, PatchType DEF LC!WakePatch, LC!Live, LC!Modes
  <2> QED BY <1>3, <2>1 DEF LC!WakePatch, LC!Goto, LC!TypeOK, LC!Steps, LC!ResumeSteps
<1>4. CASE LC!RecordReason(c)
  BY <1>4 DEF LC!RecordReason, LC!Goto, LC!TypeOK, LC!KubeTypeOK, LC!kubeVars, LC!Steps, LC!ResumeSteps
<1>5. CASE LC!Poll(c)
  <2>1. CASE LC!Goto(c, "poll")
    BY <1>5, <2>1 DEF LC!Poll, LC!Goto, LC!TypeOK, LC!KubeTypeOK, LC!kubeVars, LC!Steps, LC!ResumeSteps
  <2>2. CASE LC!Return(c, "error") \/ LC!Return(c, "Ready")
    BY <1>5, <2>2, ReturnType DEF LC!Poll, LC!States
  <2> QED BY <1>5, <2>1, <2>2 DEF LC!Poll
<1>6. CASE LC!PollFails(c)
  BY <1>6 DEF LC!PollFails, LC!Goto, LC!TypeOK, LC!KubeTypeOK, LC!kubeVars, LC!Steps, LC!ResumeSteps
<1>7. CASE LC!WaitTimeout(c)
  BY <1>7, ReturnType DEF LC!WaitTimeout
<1>8. CASE LC!SuspendResolve(c)
  <2>1. CASE LC!Return(c, "error")
    BY <1>8, <2>1, ReturnType DEF LC!SuspendResolve
  <2>2. CASE LC!AlreadySuspended(LC!ResolvedState(who[c])) /\ LC!Return(c, LC!ResolvedState(who[c]))
    <3>1. LC!ResolvedState(who[c]) \in LC!States
      BY <2>2 DEF LC!AlreadySuspended, LC!States
    <3> QED BY <1>8, <2>2, <3>1, ReturnType DEF LC!SuspendResolve
  <2>3. CASE /\ claim[who[c]] \in Sandboxes
             /\ pc' = [pc EXCEPT ![c] = IF LC!ResolvedState(who[c]) = "Ready" THEN "capture" ELSE "suspend"]
             /\ target' = [target EXCEPT ![c] = claim[who[c]]]
             /\ UNCHANGED <<who, captured, result, wakeMu>>
    BY <1>8, <2>3 DEF LC!SuspendResolve, LC!TypeOK, LC!KubeTypeOK, LC!kubeVars, LC!Steps, LC!SuspendSteps
  <2> QED BY <1>8, <2>1, <2>2, <2>3 DEF LC!SuspendResolve
<1>9. CASE LC!CaptureWrite(c)
  BY <1>9 DEF LC!CaptureWrite, LC!SetNextCronWake, LC!Goto, LC!TypeOK, LC!KubeTypeOK, LC!Steps, LC!SuspendSteps
<1>10. CASE LC!CaptureFails(c)
  BY <1>10 DEF LC!CaptureFails, LC!Goto, LC!TypeOK, LC!KubeTypeOK, LC!kubeVars, LC!Steps, LC!SuspendSteps
<1>11. ASSUME NEW t \in CronTimes \cup {NoCron}, LC!CaptureRead(c, t) PROVE LC!TypeOK'
  BY <1>11 DEF LC!CaptureRead, LC!TypeOK, LC!KubeTypeOK, LC!kubeVars, LC!Steps, LC!SuspendSteps
<1>12. CASE LC!SuspendPatch(c)
  <2>1. LC!KubeTypeOK'
    BY <1>12, PatchType DEF LC!SuspendPatch, LC!Live, LC!Modes
  <2> QED BY <1>12, <2>1 DEF LC!SuspendPatch, LC!Goto, LC!TypeOK, LC!Steps, LC!SuspendSteps
<1>13. CASE LC!SuspendConfirm(c)
  <2>1. who[c] \in Users
    BY <1>13 DEF LC!SuspendConfirm, KnowsUser
  <2>2. (IF LC!UserExists(who[c]) THEN LC!ResolvedState(who[c]) ELSE "error") \in LC!States \cup {"error"}
    BY <2>1, ResolvedStateType
  <2> QED BY <1>13, <2>2, ReturnType DEF LC!SuspendConfirm
<1>14. CASE LC!PatchNotFound(c) \/ LC!ApiFailure(c)
  BY <1>14, ReturnType DEF LC!PatchNotFound, LC!ApiFailure
<1> QED BY <1>1, <1>2, <1>3, <1>4, <1>5, <1>6, <1>7, <1>8, <1>9, <1>10, <1>11, <1>12, <1>13, <1>14
        DEF LC!CallStep, LC!ResumeStep, LC!SuspendStep

LEMMA NextType == CallsTyped /\ [LC!Next]_LC!vars => LC!TypeOK'
<1> SUFFICES ASSUME CallsTyped, [LC!Next]_LC!vars PROVE LC!TypeOK'
  OBVIOUS
<1> USE DEF CallsTyped
<1>1. ASSUME NEW c \in Calls, LC!Start(c) PROVE LC!TypeOK'
  BY <1>1 DEF LC!Start, LC!StartResume, LC!StartSuspend, LC!Enter, LC!TypeOK, LC!KubeTypeOK, LC!kubeVars,
              LC!Steps, LC!ResumeSteps, LC!SuspendSteps
<1>2. ASSUME NEW c \in Calls, LC!CallStep(c) PROVE LC!TypeOK'
  BY <1>2, CallStepType
<1>3. ASSUME NEW c \in Calls, LC!Finish(c) PROVE LC!TypeOK'
  BY <1>3 DEF LC!Finish, LC!TypeOK, LC!KubeTypeOK, LC!kubeVars, LC!Steps
<1>4. CASE LC!Environment
  <2>1. CASE LC!Cluster
    BY <1>4, <2>1, ClusterType DEF LC!Environment
  <2>2. CASE LC!Admin
    BY <1>4, <2>2 DEF LC!Environment, LC!Admin, LC!CreateClaim, LC!DeleteClaim, LC!TypeOK, LC!KubeTypeOK, LC!callVars
  <2> QED BY <1>4, <2>1, <2>2 DEF LC!Environment
<1>5. CASE LC!Restart
  BY <1>5 DEF LC!Restart, LC!TypeOK, LC!KubeTypeOK, LC!kubeVars, LC!Steps
<1>6. CASE LC!Tick
  <2>1. \A t \in CronTimes \cup {NoCron} : LC!Nearer(t) \in CronTimes \cup {NoCron}
    BY ObjectsAssumption DEF LC!Nearer
  <2> QED BY <1>6, <2>1 DEF LC!Tick, LC!TypeOK, LC!KubeTypeOK
<1>7. CASE UNCHANGED LC!vars
  BY <1>7 DEF LC!vars, LC!kubeVars, LC!callVars, LC!TypeOK, LC!KubeTypeOK
<1> QED BY <1>1, <1>2, <1>3, <1>4, <1>5, <1>6, <1>7 DEF LC!Next

LEMMA KnowsUserNext ==
    ASSUME CallsTyped, [LC!Next]_LC!vars
    PROVE  KnowsUser'
<1> USE DEF CallsTyped, KnowsUser
<1>0. CallsInv
  BY DEF CallsInv, LC!TypeOK
<1>1. ASSUME NEW c \in Calls, LC!Start(c) PROVE KnowsUser'
  BY <1>0, <1>1 DEF LC!Start, LC!StartResume, LC!StartSuspend, LC!Enter, CallsInv
<1>2. ASSUME NEW c \in Calls, LC!CallStep(c) PROVE KnowsUser'
  <2>1. pc[c] # "idle" /\ UNCHANGED who /\ \E s \in LC!Steps : pc' = [pc EXCEPT ![c] = s]
    BY <1>0, <1>2, CallMoves
  <2> QED BY <1>0, <2>1 DEF CallsInv
<1>3. ASSUME NEW c \in Calls, LC!Finish(c) PROVE KnowsUser'
  BY <1>0, <1>3 DEF LC!Finish, CallsInv
<1>4. CASE LC!Environment \/ LC!Restart \/ LC!Tick \/ UNCHANGED LC!vars
  BY <1>4 DEF LC!Environment, LC!Restart, LC!Tick, LC!vars, LC!callVars
<1> QED BY <1>1, <1>2, <1>3, <1>4 DEF LC!Next

LEMMA CallsTypedInit == LC!Init => CallsTyped
BY DEF LC!Init, LC!KubeInit, LC!CallsInit, CallsTyped, KnowsUser, LC!TypeOK, LC!KubeTypeOK,
       LC!SandboxObject, LC!Unborn, LC!Modes, LC!Steps, LC!States

LEMMA CallsTypedNext == CallsTyped /\ [LC!Next]_LC!vars => CallsTyped'
BY NextType, KnowsUserNext DEF CallsTyped

ClaimTypes ==
    /\ exempt \in [Users -> BOOLEAN]
    /\ cronGrace \in [Users -> 0..Grace]
    /\ listed \in [Users -> 0..Grace]
    /\ unread \in [Users -> Sandboxes \cup {NoSandbox}]

LEMMA ClaimTypesNext ==
    ASSUME ClaimTypes, [Next]_vars
    PROVE  ClaimTypes'
<1> USE GoroutinesAssumption DEF ClaimTypes, claimVars, sweepVars
<1>1. ASSUME NEW r \in Requests, RequestStep(r) \/ \E u \in Users : Arrive(r, u) PROVE ClaimTypes'
  BY <1>1 DEF RequestStep, Reject, PassReady, Hold, Woken, NoEndpoint, Forward, Close, Arrive
<1>2. ASSUME NEW h \in Handlers, HandlerStep(h) PROVE ClaimTypes'
  BY <1>2 DEF HandlerStep, ApiCreated, ApiCreateFails, ApiDeleted, ApiDeleteFails, ApiAnswer
<1>3. CASE ApiCall
  <2> PICK h \in Handlers, u \in Users :
        \/ ApiCreate(h, u) \/ ApiDelete(h, u) \/ ApiSuspend(h, u) \/ ApiResume(h, u)
        \/ SetSuspendExempt(h, u, TRUE) \/ SetSuspendExempt(h, u, FALSE)
    BY <1>3 DEF ApiCall
  <2>1. CASE ApiCreate(h, u) \/ ApiDelete(h, u)
    <3>1. /\ exempt' = [exempt EXCEPT ![u] = FALSE]
          /\ cronGrace' = [cronGrace EXCEPT ![u] = 0]
          /\ UNCHANGED <<listed, unread>>
      BY <2>1 DEF ApiCreate, ApiDelete
    <3>2. exempt' \in [Users -> BOOLEAN]
      BY <3>1, Zenon
    <3> QED BY <3>1, <3>2
  <2>2. CASE ApiSuspend(h, u) \/ ApiResume(h, u)
    BY <2>2 DEF ApiSuspend, ApiResume
  <2>3. ASSUME NEW e \in BOOLEAN, SetSuspendExempt(h, u, e) PROVE ClaimTypes'
    BY <2>3 DEF SetSuspendExempt
  <2> QED BY <2>1, <2>2, <2>3
<1>4. CASE SweepStep
  <2>1. CASE SweepList
    BY <2>1 DEF SweepList, Sweepable
  <2>2. ASSUME NEW u \in Users, SweepRead(u) PROVE ClaimTypes'
    BY <2>2 DEF SweepRead
  <2>3. CASE SweepListFails
    BY <2>3 DEF SweepListFails
  <2>4. ASSUME NEW u \in Users, FirstSight(u) \/ Spare(u) \/ SuspendIdle(u) PROVE ClaimTypes'
    BY <2>4 DEF FirstSight, Spare, SuspendIdle, Visited
  <2> QED BY <1>4, <2>1, <2>2, <2>3, <2>4 DEF SweepStep, SweepOn
<1>5. CASE (\E c \in Calls : LifecycleStep(c)) \/ Cluster \/ UNCHANGED vars
  BY <1>5 DEF LifecycleStep, Cluster, vars
<1>6. CASE Restart \/ Tick
  BY <1>6 DEF Restart, Tick, Down
<1> QED BY <1>1, <1>2, <1>3, <1>4, <1>5, <1>6 DEF Next, Work

\* Every part of the process keeps its types, the tracker's with its counter.
ProcessInv == FlowInv /\ TrackerInv /\ CallsTyped /\ ClaimTypes

LEMMA ProcessInit == Init => ProcessInv
<1>1. Init => LC!Init /\ TR!Init /\ ClaimTypes
  BY GoroutinesAssumption DEF Init, ClaimTypes
<1> QED BY <1>1, FlowInit, TrackerInit, CallsTypedInit DEF ProcessInv

LEMMA ProcessNext == ProcessInv /\ [Next]_vars => ProcessInv'
BY FlowNext, TrackerStep, TrackerNext, CallsStep, CallsTypedNext, ClaimTypesNext DEF ProcessInv

LEMMA ProcessTypes == ProcessInv => TypeOK
BY DEF ProcessInv, FlowInv, TrackerInv, CallsTyped, ClaimTypes, TypeOK
=============================================================================
