------------------------------ MODULE WarmPool ------------------------------
(***************************************************************************)
(* The warm pool as the benchmark drains and restores it (pool.go), with   *)
(* the users of the service: a signup adopts a spare when there is one.    *)
(* The pool controller is external: it sees a change of the replicas late; *)
(* a spare being deleted keeps its label until it has gone.  What it       *)
(* reports to be ready (status.readyReplicas) is late without bound: it    *)
(* may always be what it was at the start, and enough, so that a wait for  *)
(* the pool to be stocked may end at any time.                             *)
(***************************************************************************)
EXTENDS Integers, FiniteSets

CONSTANTS Boxes,      \* sandboxes made by the pool, named hermes-pool-...
          Users,
          Own,        \* the sandbox of a user who found no spare
          NoBox,      \* no such user
          Lost,       \* a user whose sandbox was deleted
          Leftovers,  \* users that an earlier run has left behind
          Replicas    \* of the pool in operation

ASSUME PoolAssumption ==
    /\ IsFiniteSet(Boxes) /\ Replicas \in Nat
    /\ {Own, NoBox, Lost} \cap Boxes = {}
    /\ Own # NoBox /\ NoBox # Lost /\ Lost # Own
    /\ Leftovers \subseteq Users

VARIABLES
    replicas,   \* of the spec
    seen,       \* the replicas the controller works for
    spare,      \* boxes with the warm-pool label
    ending,     \* boxes being deleted
    home,       \* per user: the sandbox
    listed      \* what the drain has listed and not yet deleted

poolVars == <<replicas, seen, spare, ending, home, listed>>

PoolTypeOK ==
    /\ {replicas, seen} \subseteq {0, Replicas}
    /\ spare \in SUBSET Boxes
    /\ ending \in SUBSET Boxes
    /\ home \in [Users -> Boxes \cup {Own, NoBox, Lost}]
    /\ listed \in SUBSET Boxes

PoolInit ==
    /\ replicas = Replicas
    /\ seen = Replicas
    /\ \E stock \in SUBSET Boxes : Cardinality(stock) = Replicas /\ spare = stock
    /\ ending = {}
    /\ home = [u \in Users |-> IF u \in Leftovers THEN Own ELSE NoBox]
    /\ listed = {}

Taken == spare \cup ending \cup listed \cup {home[u] : u \in Users}

ReadySpares == Cardinality(spare \ ending)

-----------------------------------------------------------------------------
(* External: the controller, and the sandboxes that end. *)

Observe ==
    /\ seen # replicas
    /\ seen' = replicas
    /\ UNCHANGED <<replicas, spare, ending, home, listed>>

Stock(b) ==
    /\ ReadySpares < seen /\ b \notin Taken
    /\ spare' = spare \cup {b}
    /\ UNCHANGED <<replicas, seen, ending, home, listed>>

Reap(b) ==
    /\ ReadySpares > seen /\ b \in spare \ ending
    /\ ending' = ending \cup {b}
    /\ UNCHANGED <<replicas, seen, spare, home, listed>>

Gone(b) ==
    /\ b \in ending
    /\ spare' = spare \ {b}
    /\ ending' = ending \ {b}
    /\ home' = [u \in Users |-> IF home[u] = b THEN Lost ELSE home[u]]
    /\ UNCHANGED <<replicas, seen, listed>>

Controller == Observe \/ \E b \in Boxes : Stock(b) \/ Reap(b) \/ Gone(b)

\* A signup of u ends in box b: a spare, also one on its way out, which loses
\* its label.
Adopt(u, b) ==
    /\ home[u] = NoBox
    /\ b \in spare \/ (b = Own /\ ReadySpares = 0)
    /\ home' = [home EXCEPT ![u] = b]
    /\ spare' = spare \ {b}

Leave(u) == home' = [home EXCEPT ![u] = NoBox]

-----------------------------------------------------------------------------
(* The calls of pool.go. *)

SetReplicas(n) ==
    /\ replicas' = n
    /\ UNCHANGED <<seen, spare, ending, home, listed>>

\* Mutant: the selector is forgotten.
ListAll ==
    /\ listed' = Boxes \cap Taken
    /\ UNCHANGED <<replicas, seen, spare, ending, home>>

ListSpares ==
    /\ listed' = spare
    /\ UNCHANGED <<replicas, seen, spare, ending, home>>

\* A deletion by name: it finds a spare, a box adopted since the list, or none.
DeleteSpare(b) ==
    /\ b \in listed
    /\ listed' = listed \ {b}
    /\ ending' = IF b \in spare THEN ending \cup {b} ELSE ending
    /\ home' = [u \in Users |-> IF home[u] = b THEN Lost ELSE home[u]]
    /\ UNCHANGED <<replicas, seen, spare>>

Settled == spare = {}
=============================================================================
