----------------------------- MODULE IdleTracker -----------------------------
(***************************************************************************)
(* The idle tracker of internal/idle/tracker.go: per user an entry with    *)
(* the time of the last two activities and a count of requests in flight,  *)
(* under one mutex, so that each method is one step.                       *)
(*                                                                         *)
(* The code stores instants; only differences of them are ever compared    *)
(* with a window, so an entry keeps ages instead: "age" is now minus       *)
(* lastActivity (or watchSince while there is none), "gap" is lastActivity *)
(* minus prevActivity.  Both stop counting at Cap, which no window exceeds,    *)
(* and Cap also stands for the huge gap of an entry without a pair.        *)
(*                                                                         *)
(* Begin returns a closure over the entry itself.  Forget drops the entry  *)
(* from the map, not from the closures: a handle still open then is no     *)
(* longer attached, and ending it changes nothing the sweeper can see.     *)
(***************************************************************************)
EXTENDS Integers, FiniteSets

CONSTANTS Users, NoUser,
          Requests,       \* requests that may be between Begin and its closure
          IdleTimeout,    \* base window, in ticks
          ActiveTimeout,  \* window during a conversation, 0 for none
          Cap             \* where ages stop counting

ASSUME TrackerAssumption ==
    /\ NoUser \notin Users
    /\ IsFiniteSet(Requests)
    /\ IdleTimeout \in Nat \ {0}
    /\ ActiveTimeout \in Nat
    /\ Cap \in Nat
    /\ Cap >= IdleTimeout /\ Cap > ActiveTimeout

VARIABLES
    entry,    \* per user: the tracker's entry
    handle    \* per request: whose entry it has open, and whether still in the map

vars == <<entry, handle>>

Entry == [seen : BOOLEAN, active : BOOLEAN, age : 0..Cap, gap : 0..Cap, inflight : Int]

Handle == [user : Users \cup {NoUser}, attached : BOOLEAN]

NoEntry  == [seen |-> FALSE, active |-> FALSE, age |-> 0, gap |-> Cap, inflight |-> 0]
Closed   == [user |-> NoUser, attached |-> FALSE]

TypeOK ==
    /\ entry \in [Users -> Entry]
    /\ handle \in [Requests -> Handle]

Init ==
    /\ entry = [u \in Users |-> NoEntry]
    /\ handle = [r \in Requests |-> Closed]

-----------------------------------------------------------------------------
\* Mutant: a new entry's clock starts at the zero time, long ago.
OldGet(u) == IF entry[u].seen THEN entry[u] ELSE [NoEntry EXCEPT !.seen = TRUE, !.age = Cap]

\* A new entry starts its clock now and has no activity.
get(u) == IF entry[u].seen THEN entry[u] ELSE [NoEntry EXCEPT !.seen = TRUE]

\* Mutant: the operands of lastActivity.Sub(prevActivity) swapped.
NegativeActivity(e) == [e EXCEPT !.active = TRUE, !.age = 0,
                                 !.gap = IF e.active THEN 0 - e.age ELSE Cap]

\* prevActivity, lastActivity = lastActivity, now
Activity(e) == [e EXCEPT !.active = TRUE, !.age = 0,
                         !.gap = IF e.active THEN e.age ELSE Cap]

\* Mutant: a first sight is booked as an activity.
ObserveAsTouch(u) ==
    /\ entry' = [entry EXCEPT ![u] = Activity(get(u))]
    /\ UNCHANGED handle

\* First sight: the clock starts, nothing is recorded as an activity.
Observe(u) ==
    /\ entry' = [entry EXCEPT ![u] = get(u)]
    /\ UNCHANGED handle

Touch(u) ==
    /\ entry' = [entry EXCEPT ![u] = Activity(get(u))]
    /\ UNCHANGED handle

OpenEntry(e) == [Activity(e) EXCEPT !.inflight = e.inflight + 1]

Begin(r, u) ==
    /\ handle[r] = Closed
    /\ entry' = [entry EXCEPT ![u] = OpenEntry(get(u))]
    /\ handle' = [handle EXCEPT ![r] = [user |-> u, attached |-> TRUE]]

CloseEntry(e) == [Activity(e) EXCEPT !.inflight = e.inflight - 1]

\* Mutant: the closure looks the user up again instead of keeping the entry.
DoneByName(r) ==
    /\ handle[r].user \in Users
    /\ entry' = [entry EXCEPT ![handle[r].user] = CloseEntry(get(handle[r].user))]
    /\ handle' = [handle EXCEPT ![r] = Closed]

\* The closure Begin returned.
Done(r) ==
    /\ handle[r].user \in Users
    /\ entry' = IF handle[r].attached
                THEN [entry EXCEPT ![handle[r].user] = CloseEntry(entry[handle[r].user])]
                ELSE entry
    /\ handle' = [handle EXCEPT ![r] = Closed]

Forget(u) ==
    /\ entry' = [entry EXCEPT ![u] = NoEntry]
    /\ handle' = [r \in Requests |->
                    IF handle[r].user = u THEN [user |-> u, attached |-> FALSE] ELSE handle[r]]

\* The gateway process ends and starts again: the map is in memory.
Restart ==
    /\ entry' = [u \in Users |-> NoEntry]
    /\ handle' = [r \in Requests |-> Closed]

\* A unit of time passes.
Older(e) == IF e.seen /\ e.age < Cap THEN [e EXCEPT !.age = e.age + 1] ELSE e

Tick ==
    /\ entry' = [u \in Users |-> Older(entry[u])]
    /\ UNCHANGED handle

-----------------------------------------------------------------------------
(* What the sweeper decides from a snapshot. *)

\* The window that applies now.  The snapshot's gap stays huge until there
\* are two activities.
Window(e) == IF ActiveTimeout > 0 /\ e.gap <= ActiveTimeout THEN ActiveTimeout ELSE IdleTimeout

\* Mutant: requests in flight are not looked at.
IdleDespiteRequests(e) == e.age >= Window(e)

Idle(e) == e.inflight <= 0 /\ e.age >= Window(e)

-----------------------------------------------------------------------------
UserStep(u) ==
    \/ Observe(u)
    \/ Touch(u)
    \/ \E r \in Requests : Begin(r, u)
    \/ Forget(u)

Next ==
    \/ \E u \in Users : UserStep(u)
    \/ \E r \in Requests : Done(r)
    \/ Restart
    \/ Tick

Spec == Init /\ [][Next]_vars

-----------------------------------------------------------------------------
(* Properties. *)

\* The requests whose closure still points at the user's entry.
Open(u) == {r \in Requests : handle[r].user = u /\ handle[r].attached}

\* The counter is the number of open requests of the entry, through deletions,
\* re-creations and closures that outlive their entry: it never leaks upwards
\* (a user who is never suspended again) nor drops below zero (a namesake
\* whose requests no longer count).
InflightExact == \A u \in Users : entry[u].inflight = Cardinality(Open(u))

\* Nobody becomes idle except by a tick on an entry that was there before: a
\* first sight, the start or the end of a request, a deletion and a restart each
\* leave at least one full window ahead.
IdleOnlyByWaiting ==
    [][\A u \in Users :
         /\ ~(entry[u].seen /\ Idle(entry[u]))
         /\ entry'[u].seen /\ Idle(entry'[u])
         => /\ entry[u].seen
            /\ entry'[u] = [entry[u] EXCEPT !.age = @ + 1]]_vars
=============================================================================
