--------------------------- MODULE TrackerHistory ---------------------------
(***************************************************************************)
(* The idle tracker with a record of what was booked for a user, to state  *)
(* what the two windows rest on.  The history variable restricts nothing.  *)
(***************************************************************************)
EXTENDS IdleTracker

VARIABLES
    activities   \* per user: activities booked on the present entry, up to 2

hvars == <<entry, handle, activities>>

More(n) == IF n < 2 THEN n + 1 ELSE n

HTypeOK ==
    /\ TypeOK
    /\ activities \in [Users -> 0..2]

HInit ==
    /\ Init
    /\ activities = [u \in Users |-> 0]

Book(u) == activities' = [activities EXCEPT ![u] = More(@)]

HObserve(u)  == Observe(u) /\ UNCHANGED activities
HTouch(u)    == Touch(u) /\ Book(u)
HBegin(r, u) == Begin(r, u) /\ Book(u)

HDone(r) ==
    /\ Done(r)
    /\ IF handle[r].attached THEN Book(handle[r].user) ELSE UNCHANGED activities

HForget(u) == Forget(u) /\ activities' = [activities EXCEPT ![u] = 0]

HRestart == Restart /\ activities' = [u \in Users |-> 0]

HTick == Tick /\ UNCHANGED activities

HNext ==
    \/ \E u \in Users :
         HObserve(u) \/ HTouch(u) \/ HForget(u) \/ \E r \in Requests : HBegin(r, u)
    \/ \E r \in Requests : HDone(r)
    \/ HRestart
    \/ HTick

HSpec == HInit /\ [][HNext]_hvars

-----------------------------------------------------------------------------
\* A single activity is not a conversation: the first sight of a user, by a
\* sweep or after a restart, never pairs with the next request into one
\* (tracker.go:160-162, design-decisions.md 18).
OneActivityIsNoConversation ==
    \A u \in Users : activities[u] <= 1 => Window(entry[u]) = IdleTimeout
=============================================================================
