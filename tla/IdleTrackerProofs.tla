-------------------------- MODULE IdleTrackerProofs --------------------------
(***************************************************************************)
(* Theorems about IdleTracker for any number of users and requests and any *)
(* windows.  The in-flight counter is exact because a handle is attached   *)
(* to an entry only while the entry is in the map, and Forget detaches all *)
(* handles of the user in the step that drops the entry.                   *)
(***************************************************************************)
EXTENDS TrackerHistory, FiniteSetTheorems, TLAPS

\* An entry that is not in the map is blank, and a handle is closed or some
\* user's.
Tidy ==
    /\ \A u \in Users : ~entry[u].seen => entry[u] = NoEntry
    /\ \A r \in Requests : handle[r] = Closed \/ handle[r].user \in Users

IInv == TypeOK /\ Tidy /\ InflightExact

LEMMA OpenFinite ==
    ASSUME NEW u \in Users
    PROVE  IsFiniteSet(Open(u))
BY FS_Subset, TrackerAssumption DEF Open

\* The one-entry operators keep the type, move the counter by one or not at
\* all, and never hide an entry.
LEMMA EntryType ==
    ASSUME NEW e \in Entry
    PROVE  /\ Activity(e) \in Entry
           /\ Activity(e).inflight = e.inflight /\ Activity(e).seen = e.seen
           /\ OpenEntry(e) \in Entry
           /\ OpenEntry(e).inflight = e.inflight + 1 /\ OpenEntry(e).seen = e.seen
           /\ CloseEntry(e) \in Entry
           /\ CloseEntry(e).inflight = e.inflight - 1 /\ CloseEntry(e).seen = e.seen
<1> DEFINE g == IF e.active THEN e.age ELSE Cap
<1>1. e.active \in BOOLEAN /\ e.age \in 0..Cap /\ Cap \in 0..Cap /\ 0 \in 0..Cap /\ e.inflight \in Int
  BY TrackerAssumption DEF Entry
<1>2. g \in 0..Cap
  BY <1>1
<1>3. ASSUME NEW n \in 0..Cap, NEW a, a = [e EXCEPT !.active = TRUE, !.age = 0, !.gap = n]
      PROVE  a \in Entry /\ a.inflight = e.inflight /\ a.seen = e.seen
  BY <1>1, <1>3 DEF Entry
<1>4. Activity(e) = [e EXCEPT !.active = TRUE, !.age = 0, !.gap = g]
  BY DEF Activity
<1>5. /\ Activity(e) \in Entry
      /\ Activity(e).inflight = e.inflight /\ Activity(e).seen = e.seen
  BY <1>2, <1>3, <1>4
<1>6. \A a \in Entry, n \in Int : /\ [a EXCEPT !.inflight = n] \in Entry
                                  /\ [a EXCEPT !.inflight = n].inflight = n
                                  /\ [a EXCEPT !.inflight = n].seen = a.seen
  BY DEF Entry
<1>7. OpenEntry(e) = [Activity(e) EXCEPT !.inflight = e.inflight + 1]
  BY DEF OpenEntry
<1>8. CloseEntry(e) = [Activity(e) EXCEPT !.inflight = e.inflight - 1]
  BY DEF CloseEntry
<1>9. e.inflight + 1 \in Int /\ e.inflight - 1 \in Int
  BY <1>1
<1>10. /\ OpenEntry(e) \in Entry
       /\ OpenEntry(e).inflight = e.inflight + 1 /\ OpenEntry(e).seen = e.seen
  BY <1>5, <1>6, <1>7, <1>9
<1>11. /\ CloseEntry(e) \in Entry
       /\ CloseEntry(e).inflight = e.inflight - 1 /\ CloseEntry(e).seen = e.seen
  BY <1>5, <1>6, <1>8, <1>9
<1> QED BY <1>5, <1>10, <1>11

LEMMA OlderType ==
    ASSUME NEW e \in Entry
    PROVE  /\ Older(e) \in Entry
           /\ Older(e).inflight = e.inflight
           /\ Older(e).seen = e.seen
           /\ ~e.seen => Older(e) = e
BY TrackerAssumption DEF Entry, Older

LEMMA BlankType == NoEntry \in Entry /\ Closed \in Handle
BY TrackerAssumption DEF NoEntry, Entry, Closed, Handle

LEMMA GetType ==
    ASSUME TypeOK, Tidy, NEW u \in Users
    PROVE  get(u) \in Entry /\ get(u).seen /\ get(u).inflight = entry[u].inflight
BY BlankType DEF TypeOK, Tidy, get, Entry, NoEntry

LEMMA InitInv == Init => IInv
<1> SUFFICES ASSUME Init PROVE IInv
  OBVIOUS
<1>1. TypeOK /\ Tidy
  BY BlankType DEF Init, TypeOK, Tidy
<1>2. ASSUME NEW u \in Users PROVE entry[u].inflight = Cardinality(Open(u))
  <2>1. Open(u) = {}
    BY DEF Init, Open, Closed
  <2> QED BY <2>1, FS_EmptySet DEF Init, NoEntry
<1> QED BY <1>1, <1>2 DEF IInv, InflightExact

\* A step that changes one entry without changing its counter, and no handle.
LEMMA SameCountInv ==
    ASSUME IInv, NEW u \in Users, NEW e \in Entry, e.seen, e.inflight = entry[u].inflight,
           entry' = [entry EXCEPT ![u] = e], UNCHANGED handle
    PROVE  IInv'
BY DEF IInv, TypeOK, Tidy, InflightExact, Open

LEMMA BeginInv ==
    ASSUME IInv, NEW u \in Users, NEW r \in Requests, Begin(r, u)
    PROVE  IInv'
<1> USE DEF IInv
<1>1. /\ handle[r] = Closed
      /\ entry' = [entry EXCEPT ![u] = OpenEntry(get(u))]
      /\ handle' = [handle EXCEPT ![r] = [user |-> u, attached |-> TRUE]]
      /\ OpenEntry(get(u)) \in Entry /\ OpenEntry(get(u)).seen
      /\ OpenEntry(get(u)).inflight = entry[u].inflight + 1
  BY GetType, EntryType DEF Begin
<1>2. TypeOK' /\ Tidy'
  BY <1>1 DEF TypeOK, Tidy, Handle
<1>3. Open(u)' = Open(u) \cup {r} /\ r \notin Open(u)
  BY <1>1, TrackerAssumption DEF Open, TypeOK, Closed
<1>4. Cardinality(Open(u)') = Cardinality(Open(u)) + 1
  BY <1>3, OpenFinite, FS_AddElement
<1>5. \A v \in Users : v # u => Open(v)' = Open(v)
  BY <1>1, TrackerAssumption DEF Open, TypeOK, Closed
<1>6. InflightExact'
  BY <1>1, <1>4, <1>5 DEF InflightExact, TypeOK
<1> QED BY <1>2, <1>6

LEMMA DoneInv ==
    ASSUME IInv, NEW r \in Requests, Done(r)
    PROVE  IInv'
<1> USE DEF IInv
<1>1. CASE handle[r].attached
  <2> PICK u \in Users : u = handle[r].user
    BY DEF Done
  <2>1. /\ handle[r].user = u
        /\ entry' = [entry EXCEPT ![u] = CloseEntry(entry[u])]
        /\ handle' = [handle EXCEPT ![r] = Closed]
    BY <1>1 DEF Done
  <2>2. r \in Open(u)
    BY <1>1 DEF Open
  <2>3. Open(u)' = Open(u) \ {r}
    BY <2>1, TrackerAssumption DEF Open, TypeOK, Closed
  <2>4. Cardinality(Open(u)') = Cardinality(Open(u)) - 1 /\ Cardinality(Open(u)) \in Nat
    BY <2>2, <2>3, <2>1, OpenFinite, FS_RemoveElement, FS_CardinalityType
  <2>5. \A v \in Users : v # u => Open(v)' = Open(v)
    BY <2>1, TrackerAssumption DEF Open, TypeOK, Closed
  <2>6. entry[u] \in Entry /\ CloseEntry(entry[u]) \in Entry /\ CloseEntry(entry[u]).inflight = entry[u].inflight - 1
    BY <2>1, EntryType DEF TypeOK
  <2>7. entry[u].seen
    <3>1. entry[u].inflight = Cardinality(Open(u)) /\ Open(u) # {} /\ IsFiniteSet(Open(u))
      BY <2>1, <2>2, OpenFinite DEF InflightExact
    <3>2. Cardinality(Open(u)) # 0
      BY <3>1, FS_EmptySet
    <3> QED BY <2>1, <3>1, <3>2 DEF Tidy, NoEntry
  <2>8. CloseEntry(entry[u]).seen
    BY <2>6, <2>7, EntryType
  <2>9. TypeOK' /\ Tidy'
    BY <2>1, <2>6, <2>8, BlankType DEF TypeOK, Tidy
  <2>10. InflightExact'
    BY <2>1, <2>4, <2>5, <2>6 DEF InflightExact, TypeOK
  <2> QED BY <2>9, <2>10
<1>2. CASE ~handle[r].attached
  <2>1. UNCHANGED entry /\ handle' = [handle EXCEPT ![r] = Closed]
    BY <1>2 DEF Done
  <2>2. \A v \in Users : Open(v)' = Open(v)
    BY <1>2, <2>1 DEF Open, TypeOK, Closed
  <2> QED BY <2>1, <2>2, BlankType DEF TypeOK, Tidy, InflightExact
<1> QED BY <1>1, <1>2

LEMMA ForgetInv ==
    ASSUME IInv, NEW u \in Users, Forget(u)
    PROVE  IInv'
<1> USE DEF IInv
<1>1. TypeOK' /\ Tidy'
  BY BlankType DEF Forget, TypeOK, Tidy, Handle
<1>2. Open(u)' = {}
  BY DEF Forget, Open, TypeOK
<1>3. \A v \in Users : v # u => Open(v)' = Open(v)
  BY DEF Forget, Open, TypeOK
<1>4. InflightExact'
  BY <1>2, <1>3, FS_EmptySet DEF Forget, InflightExact, TypeOK, NoEntry
<1> QED BY <1>1, <1>4

LEMMA RestartInv == IInv /\ Restart => IInv'
<1> SUFFICES ASSUME IInv, Restart PROVE IInv'
  OBVIOUS
<1>1. TypeOK' /\ Tidy'
  BY BlankType DEF Restart, TypeOK, Tidy
<1>2. \A u \in Users : Open(u)' = {}
  BY TrackerAssumption DEF Restart, Open, Closed
<1> QED BY <1>1, <1>2, FS_EmptySet DEF Restart, IInv, InflightExact, NoEntry

LEMMA TickInv == IInv /\ Tick => IInv'
<1> SUFFICES ASSUME IInv, Tick PROVE IInv'
  OBVIOUS
<1>1. \A u \in Users : /\ entry'[u] \in Entry
                       /\ entry'[u].inflight = entry[u].inflight
                       /\ ~entry'[u].seen => entry'[u] = NoEntry
  BY OlderType DEF IInv, Tick, TypeOK, Tidy
<1> QED BY <1>1 DEF IInv, Tick, TypeOK, Tidy, InflightExact, Open

LEMMA NextInv == IInv /\ [Next]_vars => IInv'
<1> SUFFICES ASSUME IInv, [Next]_vars PROVE IInv'
  OBVIOUS
<1>1. ASSUME NEW u \in Users, Observe(u) \/ Touch(u) PROVE IInv'
  <2>1. PICK e \in Entry : /\ e.seen /\ e.inflight = entry[u].inflight
                           /\ entry' = [entry EXCEPT ![u] = e]
                           /\ UNCHANGED handle
    BY <1>1, GetType, EntryType DEF Observe, Touch, IInv
  <2> QED BY <2>1, SameCountInv
<1>2. ASSUME NEW u \in Users, NEW r \in Requests, Begin(r, u) PROVE IInv'
  BY <1>2, BeginInv
<1>3. ASSUME NEW r \in Requests, Done(r) PROVE IInv'
  BY <1>3, DoneInv
<1>4. ASSUME NEW u \in Users, Forget(u) PROVE IInv'
  BY <1>4, ForgetInv
<1>5. CASE Restart
  BY <1>5, RestartInv
<1>6. CASE Tick
  BY <1>6, TickInv
<1>7. CASE UNCHANGED vars
  BY <1>7 DEF vars, IInv, TypeOK, Tidy, InflightExact, Open
<1> QED BY <1>1, <1>2, <1>3, <1>4, <1>5, <1>6, <1>7 DEF Next, UserStep

THEOREM Invariance == Spec => []IInv
<1>1. IInv /\ [Next]_vars => IInv'
  BY NextInv
<1> QED BY InitInv, <1>1, PTL DEF Spec

\* The tracker's state keeps its type; above all the ages stay below Cap.
THEOREM TypeCorrectness == Spec => []TypeOK
<1>1. IInv => TypeOK
  BY DEF IInv
<1> QED BY Invariance, <1>1, PTL

\* The in-flight counter of an entry is the number of its open requests, for
\* any number of requests, deletions, re-creations and restarts.
THEOREM CounterIsExact == Spec => []InflightExact
<1>1. IInv => InflightExact
  BY DEF IInv
<1> QED BY Invariance, <1>1, PTL

-----------------------------------------------------------------------------
(* Becoming idle. *)

\* An entry that an activity has just touched is inside every window.
LEMMA FreshIsNotIdle ==
    ASSUME NEW e, e.age = 0
    PROVE  ~Idle(e)
BY TrackerAssumption DEF Idle, Window

LEMMA TouchedAge ==
    ASSUME NEW e \in Entry
    PROVE  Activity(e).age = 0 /\ OpenEntry(e).age = 0 /\ CloseEntry(e).age = 0
<1>1. Activity(e).age = 0
  BY DEF Activity, Entry
<1>2. Activity(e) \in Entry
  BY EntryType
<1>3. \A a \in Entry, n \in Int : [a EXCEPT !.inflight = n].age = a.age
  BY DEF Entry
<1>4. e.inflight + 1 \in Int /\ e.inflight - 1 \in Int
  BY DEF Entry
<1> QED BY <1>1, <1>2, <1>3, <1>4 DEF OpenEntry, CloseEntry

\* What one step does to one entry: nothing, drop it, make it fresh, or age it.
LEMMA EntryStep ==
    ASSUME IInv, [Next]_vars, NEW u \in Users
    PROVE  \/ entry'[u] = entry[u]
           \/ ~entry'[u].seen
           \/ entry'[u].age = 0
           \/ entry'[u] = Older(entry[u])
<1> USE DEF IInv
<1>0. entry \in [Users -> Entry] /\ \A v \in Users : entry[v] \in Entry /\ get(v) \in Entry
  BY GetType DEF TypeOK
<1>1. ASSUME NEW v \in Users, Observe(v)
      PROVE  entry'[u] = entry[u] \/ entry'[u].age = 0
  BY <1>0, <1>1 DEF Observe, get, NoEntry
<1>2. ASSUME NEW v \in Users, Touch(v)
      PROVE  entry'[u] = entry[u] \/ entry'[u].age = 0
  BY <1>0, <1>2, TouchedAge DEF Touch
<1>3. ASSUME NEW v \in Users, NEW r \in Requests, Begin(r, v)
      PROVE  entry'[u] = entry[u] \/ entry'[u].age = 0
  BY <1>0, <1>3, TouchedAge DEF Begin
<1>4. ASSUME NEW r \in Requests, Done(r)
      PROVE  entry'[u] = entry[u] \/ entry'[u].age = 0
  BY <1>0, <1>4, TouchedAge DEF Done
<1>5. ASSUME NEW v \in Users, Forget(v)
      PROVE  entry'[u] = entry[u] \/ ~entry'[u].seen
  BY <1>0, <1>5 DEF Forget, NoEntry
<1>6. CASE Restart
  BY <1>6 DEF Restart, NoEntry
<1>7. CASE Tick
  BY <1>7 DEF Tick
<1>8. CASE UNCHANGED vars
  BY <1>8 DEF vars
<1> QED BY <1>1, <1>2, <1>3, <1>4, <1>5, <1>6, <1>7, <1>8 DEF Next, UserStep

\* A user becomes idle by time passing and by nothing else, for any windows:
\* neither a first sight nor the end of a request, a re-creation or a restart
\* of the gateway makes the sweeper suspend somebody.
THEOREM IdlenessIsWaiting == Spec => IdleOnlyByWaiting
<1>1. IInv /\ [Next]_vars =>
        [\A u \in Users :
           /\ ~(entry[u].seen /\ Idle(entry[u]))
           /\ entry'[u].seen /\ Idle(entry'[u])
           => /\ entry[u].seen
              /\ entry'[u] = [entry[u] EXCEPT !.age = @ + 1]]_vars
  <2> SUFFICES ASSUME IInv, [Next]_vars, NEW u \in Users,
                      ~(entry[u].seen /\ Idle(entry[u])),
                      entry'[u].seen, Idle(entry'[u])
               PROVE  /\ entry[u].seen
                      /\ entry'[u] = [entry[u] EXCEPT !.age = @ + 1]
    OBVIOUS
  <2>1. entry'[u] # entry[u]
    OBVIOUS
  <2>2. entry'[u].age # 0
    BY FreshIsNotIdle
  <2>3. entry'[u] = Older(entry[u]) /\ entry[u] \in Entry
    BY <2>1, <2>2, EntryStep DEF IInv, TypeOK
  <2> QED BY <2>1, <2>3 DEF Older, Entry
<1> QED BY Invariance, <1>1, PTL DEF Spec, IdleOnlyByWaiting

-----------------------------------------------------------------------------
(* What the windows rest on: the tracker with its record of activities. *)

\* The record only watches.
LEMMA RecordWatches == [HNext]_hvars => [Next]_vars
BY DEF HNext, Next, UserStep, HObserve, HTouch, HBegin, HDone, HForget, HRestart, HTick, hvars, vars

\* Without an activity an entry is inactive, and until there are two it has no
\* pair, which the largest gap stands for.
Unpaired(e, n) == (n = 0 => ~e.active) /\ (n <= 1 => e.gap = Cap)

Booked ==
    /\ activities \in [Users -> 0..2]
    /\ \A u \in Users : Unpaired(entry[u], activities[u])

HInv == IInv /\ Booked

LEMMA MoreType ==
    ASSUME NEW n \in 0..2
    PROVE  More(n) \in 1..2 /\ (More(n) <= 1 => n = 0)
BY DEF More

\* An activity is the first of its entry, or pairs with the one before it.
LEMMA ActivityPairs ==
    ASSUME NEW e \in Entry, NEW n \in 0..2, Unpaired(e, n)
    PROVE  /\ Unpaired(Activity(e), More(n))
           /\ Unpaired(OpenEntry(e), More(n))
           /\ Unpaired(CloseEntry(e), More(n))
<1>1. More(n) \in 1..2 /\ (More(n) <= 1 => ~e.active)
  BY MoreType DEF Unpaired
<1>2. ~e.active => Activity(e).gap = Cap
  BY DEF Activity, Entry
<1>3. OpenEntry(e).gap = Activity(e).gap /\ CloseEntry(e).gap = Activity(e).gap
  <2>1. \A a \in Entry, k \in Int : [a EXCEPT !.inflight = k].gap = a.gap
    BY DEF Entry
  <2>2. Activity(e) \in Entry /\ e.inflight + 1 \in Int /\ e.inflight - 1 \in Int
    BY EntryType DEF Entry
  <2> QED BY <2>1, <2>2 DEF OpenEntry, CloseEntry
<1> QED BY <1>1, <1>2, <1>3 DEF Unpaired

LEMMA GetPairs ==
    ASSUME HInv, NEW u \in Users
    PROVE  get(u) \in Entry /\ Unpaired(get(u), activities[u]) /\ activities[u] \in 0..2
BY GetType DEF HInv, IInv, Booked, Unpaired, get, NoEntry

\* A step that books an activity on an entry.
LEMMA BookInv ==
    ASSUME HInv, NEW u \in Users, NEW e, Unpaired(e, More(activities[u])),
           entry' = [entry EXCEPT ![u] = e], Book(u)
    PROVE  Booked'
<1>1. activities' = [activities EXCEPT ![u] = More(activities[u])] /\ More(activities[u]) \in 0..2
  BY MoreType DEF Book, HInv, Booked
<1>2. ASSUME NEW v \in Users PROVE Unpaired(entry'[v], activities'[v])
  BY <1>1 DEF HInv, IInv, TypeOK, Booked
<1> QED BY <1>1, <1>2 DEF HInv, Booked

LEMMA BookedNext ==
    ASSUME HInv, [HNext]_hvars
    PROVE  Booked'
<1>0. entry \in [Users -> Entry] /\ activities \in [Users -> 0..2]
  BY DEF HInv, IInv, TypeOK, Booked
<1>1. ASSUME NEW u \in Users, HObserve(u) PROVE Booked'
  BY <1>0, <1>1, GetPairs DEF HObserve, Observe, HInv, Booked
<1>2. ASSUME NEW u \in Users, HTouch(u) PROVE Booked'
  BY <1>2, GetPairs, ActivityPairs, BookInv DEF HTouch, Touch
<1>3. ASSUME NEW u \in Users, NEW r \in Requests, HBegin(r, u) PROVE Booked'
  BY <1>3, GetPairs, ActivityPairs, BookInv DEF HBegin, Begin
<1>4. ASSUME NEW r \in Requests, HDone(r) PROVE Booked'
  <2>1. CASE handle[r].attached
    <3> DEFINE u == handle[r].user
    <3>1. u \in Users /\ entry' = [entry EXCEPT ![u] = CloseEntry(entry[u])] /\ Book(u)
      BY <1>4, <2>1 DEF HDone, Done
    <3>2. Unpaired(CloseEntry(entry[u]), More(activities[u]))
      BY <1>0, <3>1, ActivityPairs DEF HInv, Booked
    <3> HIDE DEF u
    <3> QED BY <3>1, <3>2, BookInv
  <2>2. CASE ~handle[r].attached
    BY <1>4, <2>2 DEF HDone, Done, HInv, Booked
  <2> QED BY <2>1, <2>2
<1>5. Unpaired(NoEntry, 0)
  BY DEF Unpaired, NoEntry
<1>6. ASSUME NEW u \in Users, HForget(u) PROVE Booked'
  BY <1>0, <1>5, <1>6 DEF HForget, Forget, HInv, Booked
<1>7. CASE HRestart
  BY <1>5, <1>7 DEF HRestart, Restart, Booked
<1>8. CASE HTick
  <2>1. \A e \in Entry : Older(e).active = e.active /\ Older(e).gap = e.gap
    BY DEF Older, Entry
  <2> QED BY <1>0, <1>8, <2>1 DEF HTick, Tick, HInv, Booked, Unpaired
<1>9. CASE UNCHANGED hvars
  BY <1>9 DEF hvars, HInv, Booked
<1> QED BY <1>1, <1>2, <1>3, <1>4, <1>6, <1>7, <1>8, <1>9 DEF HNext

LEMMA HistoryInvariance == HSpec => []HInv
<1>1. HInit => HInv
  BY InitInv DEF HInit, Init, HInv, Booked, Unpaired, NoEntry
<1>2. HInv /\ [HNext]_hvars => HInv'
  BY NextInv, RecordWatches, BookedNext DEF HInv
<1> QED BY <1>1, <1>2, PTL DEF HSpec

\* The tracker and its record keep their types.
THEOREM HistoryTypes == HSpec => []HTypeOK
<1>1. HInv => HTypeOK
  BY DEF HInv, IInv, Booked, HTypeOK
<1> QED BY HistoryInvariance, <1>1, PTL

\* The shorter window is for users with two activities on their entry: neither
\* a first sight nor a restart or a re-creation in between makes one activity a
\* conversation (tracker.go:160-162, design-decisions.md 18).
THEOREM ConversationsTakeTwo == HSpec => []OneActivityIsNoConversation
<1>1. HInv => OneActivityIsNoConversation
  BY TrackerAssumption DEF HInv, Booked, Unpaired, OneActivityIsNoConversation, Window
<1> QED BY HistoryInvariance, <1>1, PTL
=============================================================================
