------------------------------ MODULE WakeHold ------------------------------
(***************************************************************************)
(* How long a caller of Resume is held.  Lifecycle under a clock: the API  *)
(* server and the scheduler answer within a tick, so that time only passes *)
(* while every call is waiting for the mutex or between two polls of       *)
(* WaitReady.                                                              *)
(*                                                                         *)
(* wakeMu is a sync.Mutex, modelled as its package documents it.  Blocked  *)
(* callers queue in order of arrival.  In normal mode an Unlock wakes the  *)
(* first of them, but whoever calls Lock at that moment may take the mutex *)
(* before it.  A woken caller that fails to get it, having waited for over *)
(* a millisecond (here: for a tick), switches to starvation mode, in which *)
(* the mutex goes from hand to hand along the queue.                       *)
(***************************************************************************)
EXTENDS Lifecycle, Sequences

CONSTANTS WakeTimeout,  \* gateway.wakeTimeout, in ticks
          MaxSpins      \* bound on "spun"

ASSUME WakeTimeoutAssumption == WakeTimeout \in Nat \ {0}
ASSUME MaxSpinsAssumption == MaxSpins \in Nat
ASSUME CallsAreFinite == IsFiniteSet(Calls)

VARIABLES
    queue,     \* per user: the calls blocked in mu.Lock, in order of arrival
    woken,     \* per user: the first of them has been woken and tries again
    starving,  \* per user: the mutex is in starvation mode
    spun,      \* per call: how often a spinning newcomer took the mutex ahead of it
    waited,    \* per call: ticks since WaitReady began
    held       \* per call: ticks since Resume was called

mutex    == <<queue, woken, starving, spun>>
hold     == <<mutex, waited, held>>
holdVars == <<vars, hold>>

\* The callers' turns, one more for a newcomer, and those of the spinners.
Limit(spins) == WakeTimeout * (Cardinality(Calls) + 1 + spins)

Horizon == Limit(MaxSpins) + 1   \* where "held" stops counting

HoldTypeOK ==
    /\ TypeOK
    /\ queue \in [Users -> Seq(Calls)]
    /\ woken \in [Users -> BOOLEAN]
    /\ starving \in [Users -> BOOLEAN]
    /\ spun \in [Calls -> 0..MaxSpins]
    /\ waited \in [Calls -> 0..WakeTimeout]
    /\ held \in [Calls -> 0..Horizon]

HoldInit ==
    /\ Init
    /\ queue = [u \in Users |-> <<>>]
    /\ woken = [u \in Users |-> FALSE]
    /\ starving = [u \in Users |-> FALSE]
    /\ spun = [c \in Calls |-> 0]
    /\ waited = [c \in Calls |-> 0]
    /\ held = [c \in Calls |-> 0]

-----------------------------------------------------------------------------
(* mu.Lock and mu.Unlock. *)

InLine(u) == {queue[u][i] : i \in 1..Len(queue[u])}

\* In mu.Lock, and not blocked yet.
Newcomer(c) == pc[c] = "lock" /\ c \notin InLine(who[c])

First(c) == pc[c] = "lock" /\ queue[who[c]] # <<>> /\ c = Head(queue[who[c]])

\* A newcomer takes a mutex that is unlocked in normal mode, also if others
\* wait; if none of them was woken, the newcomer has been spinning.
Barge(c) ==
    /\ Newcomer(c)
    /\ ~starving[who[c]]
    /\ Lock(c)
    /\ spun' = [d \in Calls |-> IF d \in InLine(who[c]) /\ ~woken[who[c]] THEN spun[d] + 1 ELSE spun[d]]
    /\ UNCHANGED <<queue, woken, starving, waited, held>>

LineUp(c) ==
    /\ Newcomer(c)
    /\ ~MutexFree(who[c]) \/ starving[who[c]]
    /\ queue' = [queue EXCEPT ![who[c]] = Append(@, c)]
    /\ UNCHANGED <<vars, woken, starving, spun, waited, held>>

\* The last of the queue, or one that has not waited long, ends starvation
\* mode.
FirstTakes(c) ==
    LET u == who[c]
        more == starving[u] /\ Len(queue[u]) > 1 IN
    /\ First(c)
    /\ woken[u] \/ starving[u]
    /\ Lock(c)
    /\ queue' = [queue EXCEPT ![u] = Tail(@)]
    /\ woken' = [woken EXCEPT ![u] = FALSE]
    /\ \E s \in BOOLEAN :
         /\ s => more
         /\ more /\ held[c] > 0 => s
         /\ starving' = [starving EXCEPT ![u] = s]
    /\ UNCHANGED <<spun, waited, held>>

\* Mutant: there is no starvation mode.
NeverStarves(c, s) == ~s

\* A millisecond is less than a tick.
Starves(c, s) == held[c] > 0 => s

\* The woken caller finds the mutex taken: back to the head of the queue.
FirstFails(c) ==
    /\ First(c)
    /\ woken[who[c]] /\ ~MutexFree(who[c])
    /\ woken' = [woken EXCEPT ![who[c]] = FALSE]
    /\ \E s \in BOOLEAN : Starves(c, s) /\ starving' = [starving EXCEPT ![who[c]] = s]
    /\ UNCHANGED <<vars, queue, spun, waited, held>>

\* A newcomer that spins in front of the locked mutex.
Spinning(u) ==
    /\ \E c \in Calls : Newcomer(c) /\ who[c] = u
    /\ \A d \in InLine(u) : spun[d] < MaxSpins

\* mu.Unlock in normal mode wakes the first caller, unless a spinning newcomer
\* has told it not to.
Wake(u) ==
    \/ queue[u] # <<>> /\ ~starving[u] /\ woken' = [woken EXCEPT ![u] = TRUE]
    \/ (queue[u] = <<>> \/ starving[u] \/ Spinning(u))
       /\ UNCHANGED woken

-----------------------------------------------------------------------------
HeldResume(c, u) == StartResume(c, u) /\ UNCHANGED hold

HeldLock(c) == Barge(c) \/ LineUp(c) \/ FirstTakes(c) \/ FirstFails(c)

\* Every other step of a call, the deferred Unlock of the last one included.
HeldStep(c) ==
    /\ CallStep(c) /\ pc[c] # "lock"
    /\ IF wakeMu' = wakeMu THEN UNCHANGED woken ELSE Wake(who[c])
    /\ UNCHANGED <<queue, starving, spun, waited, held>>

HeldFinish(c) ==
    /\ Finish(c)
    /\ spun' = [spun EXCEPT ![c] = 0]
    /\ waited' = [waited EXCEPT ![c] = 0]
    /\ held' = [held EXCEPT ![c] = 0]
    /\ UNCHANGED <<queue, woken, starving>>

HeldSuspend(c, u) == StartSuspend(c, u) /\ UNCHANGED hold

HeldEnvironment == Environment /\ UNCHANGED hold

\* Mutant: the deadline is missed by one tick.
ExpiredLate(c) == waited[c] > WakeTimeout

\* The deadline of PollUntilContextTimeout.
Expired(c) == waited[c] >= WakeTimeout

\* A call that waits for something other than its next answer.
Waiting(c) ==
    \/ pc[c] = "idle"
    \/ pc[c] = "lock" /\ ~Newcomer(c) /\ ~MutexFree(who[c]) /\ ~woken[who[c]]
    \/ pc[c] = "poll" /\ ~Expired(c)

HeldTick ==
    /\ \A c \in Calls : Waiting(c)
    /\ waited' = [c \in Calls |-> IF pc[c] = "poll" THEN waited[c] + 1 ELSE waited[c]]
    /\ held' = [c \in Calls |-> IF pc[c] # "idle" /\ held[c] < Horizon THEN held[c] + 1 ELSE held[c]]
    /\ UNCHANGED <<vars, mutex>>

HoldNext ==
    \/ \E c \in Calls : \/ \E u \in Users : HeldResume(c, u) \/ HeldSuspend(c, u)
                        \/ HeldLock(c) \/ HeldStep(c) \/ HeldFinish(c)
    \/ HeldEnvironment
    \/ HeldTick

HoldSpec == HoldInit /\ [][HoldNext]_holdVars

-----------------------------------------------------------------------------
\* A caller of Resume is held for one WakeTimeout per caller, one more for the
\* newcomer that overtakes the queue before it starves, and one per spinning
\* newcomer: a wait ends at its deadline (WaitReady), every way out of Resume
\* unlocks (lifecycle.go:99-100), and a caller that was woken in vain comes next.
HeldByQueue == \A c \in Calls : held[c] <= Limit(spun[c])
=============================================================================
