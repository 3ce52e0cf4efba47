-------------------------------- MODULE Bench --------------------------------
(***************************************************************************)
(* hermes-bench: the scenarios in the order of main, each a procedure that *)
(* leaves through its deferred clean-up, against a gateway and a warm pool *)
(* that others use too.  A call answers or fails, and one that fails may   *)
(* have taken effect.  Ctrl-C cancels the context, after which calls fail, *)
(* but for the clean-ups that run on a context of their own; a kill ends   *)
(* the process where it is.                                                *)
(***************************************************************************)
EXTENDS WarmPool, BenchStats

CONSTANTS Iterations,   \* of every scenario (-iterations)
          Latencies,    \* of a sample
          Plans         \* what a run may be asked for: the scenarios, in the order of
                        \* main, the ones its budget requires, and its access to the
                        \* pool: "drain", "keep", or "none" without kube access

ASSUME IterationsAssumption == Iterations \in Nat \ {0}
ASSUME LatenciesAssumption == Latencies \subseteq Nat

VARIABLES
    todo,        \* the scenarios left, the first of them running
    required,    \* the scenarios that must not be skipped
    access,
    cancelled,   \* Ctrl-C
    pc,          \* where the running scenario is; "killed" and "exit" are final
    iter,        \* its iteration
    tries,       \* the wake requests this iteration has made
    saved,       \* the replicas Drain has read
    drained,     \* Drain returned without an error
    res,         \* per scenario: its result
    asleep,      \* the agent of a resume scenario is suspended
    reason,      \* its lastWakeReason
    exit,        \* the code of the process, 3 while there is none
    excuse,      \* history: a create or a delete has failed
    unrestored,  \* history: the patch that restores the pool has failed
    waker,       \* the cron waker has woken the agent and has still to say so
    hybrid,      \* history: a wake was timed against an agent a job had woken
    early,       \* history: users who had a spare's sandbox when the drain began
    stale,       \* history: users left by an earlier run, and not deleted since
    spoiled      \* history: a signup of the cold scenario was given a spare

flowVars  == <<todo, pc, iter, tries, saved, drained, res, exit>>
agentVars == <<asleep, reason, waker, hybrid>>
histVars  == <<early, stale, spoiled>>
vars      == <<poolVars, flowVars, agentVars, required, access, cancelled, excuse, unrestored, histVars>>

Scenarios == {"baseline", "resume", "warm", "cold", "baseline-ttft", "resume-ttft"}
Signups   == {"warm", "cold"}
Resumes   == {"resume", "resume-ttft"}

\* No scenario is in the list twice (main.go:84-108).
ASSUME PlansAssumption ==
    \A plan \in Plans :
        /\ plan.todo \in Seq(Scenarios)
        /\ \A i, j \in 1..Len(plan.todo) : plan.todo[i] = plan.todo[j] => i = j
        /\ plan.required \in SUBSET Scenarios
        /\ plan.access \in {"drain", "keep", "none"}

Scen == Head(todo)

\* Mutant: the loop runs once too often.
OneTooMany == iter = Iterations

Last == iter = Iterations - 1

\* Signup scenarios make a user per iteration, the others keep one.
User == <<Scen, IF Scen \in Signups THEN iter ELSE 0>>

BenchUsers == {<<s, i>> : s \in Signups, i \in 0..Iterations - 1}
                \cup {<<s, 0>> : s \in Scenarios \ Signups}

ASSUME UsersAssumption == BenchUsers \subseteq Users

NoResult == [end |-> "none", samples |-> <<>>, busy |-> 0, bad |-> FALSE]

BenchTypeOK ==
    /\ PoolTypeOK
    /\ todo \in Seq(Scenarios) /\ required \in SUBSET Scenarios
    /\ access \in {"drain", "keep", "none"} /\ cancelled \in BOOLEAN
    /\ pc \in {"next", "save", "scale", "list", "reap", "settle", "preclean", "create", "warmup",
               "exempt", "suspend", "probe", "reprobe", "reason", "delete", "restock",
               "pause", "cleanup", "restore", "restocked", "return", "exit", "killed"}
    /\ iter \in 0..Iterations - 1 /\ tries \in 0..3
    /\ saved \in {0, Replicas} /\ drained \in BOOLEAN
    /\ DOMAIN res = Scenarios
    /\ \A s \in Scenarios :
         /\ res[s].end \in {"none", "skipped", "failed", "done"}
         /\ Len(res[s].samples) <= Iterations
         /\ res[s].busy \in 0..AllowedWakeErrors + 1 /\ res[s].bad \in BOOLEAN
    /\ asleep \in BOOLEAN /\ reason \in {"none", "connect", "cron"} /\ {waker, hybrid} \subseteq BOOLEAN
    /\ early \in SUBSET Users /\ stale \in SUBSET Users /\ spoiled \in BOOLEAN
    /\ exit \in 0..3 /\ excuse \in BOOLEAN /\ unrestored \in BOOLEAN

Init ==
    /\ PoolInit
    /\ \E plan \in Plans : todo = plan.todo /\ required = plan.required /\ access = plan.access
    /\ cancelled = FALSE
    /\ pc = "next" /\ iter = 0 /\ tries = 0 /\ saved = 0 /\ drained = FALSE
    /\ res = [s \in Scenarios |-> NoResult]
    /\ asleep = FALSE /\ reason = "none" /\ waker = FALSE /\ hybrid = FALSE
    /\ exit = 3 /\ excuse = FALSE /\ unrestored = FALSE
    /\ early = {} /\ stale = Leftovers /\ spoiled = FALSE

-----------------------------------------------------------------------------
GoTo(step) == pc' = step

\* Where a scenario returns to: the clean-up it has deferred.
Unwind ==
    GoTo(IF Scen = "cold" THEN "restore"
         ELSE IF Scen \in Signups \/ pc \in {"preclean", "create"} THEN "return" ELSE "cleanup")

Fail       == res' = [res EXCEPT ![Scen].end = "failed"]
ErrorEvent == res' = [res EXCEPT ![Scen].bad = TRUE]

Sample == \E l \in Latencies : res' = [res EXCEPT ![Scen].samples = Insert(@, l)]

\* The loop goes on with the next iteration at its first step, or ends.
Again(first) ==
    /\ tries' = 0
    /\ IF Last THEN Unwind /\ UNCHANGED iter ELSE GoTo(first) /\ iter' = iter + 1

Stay   == UNCHANGED <<todo, iter, tries, saved, drained, exit>>
Quiet  == UNCHANGED <<agentVars, required, access, cancelled, excuse, unrestored>>
SamePool == UNCHANGED poolVars

-----------------------------------------------------------------------------
(* RunAll *)

\* After Ctrl-C the scenarios left are skipped; the cold one also when it may
\* not drain the pool.
NextScenario ==
    /\ pc = "next" /\ todo # <<>>
    /\ iter' = 0 /\ drained' = FALSE
    /\ IF cancelled \/ (Scen = "cold" /\ access # "drain")
       THEN res' = [res EXCEPT ![Scen].end = "skipped"] /\ todo' = Tail(todo) /\ UNCHANGED pc
       ELSE GoTo(IF Scen = "cold" THEN "save" ELSE "preclean") /\ UNCHANGED <<res, todo>>
    /\ asleep' = FALSE /\ reason' = "none" /\ waker' = FALSE
    /\ UNCHANGED <<tries, saved, exit, hybrid, required, access, cancelled, excuse, unrestored>>
    /\ SamePool

Return ==
    /\ pc = "return"
    /\ GoTo("next")
    /\ todo' = Tail(todo)
    /\ res' = [res EXCEPT ![Scen].end = IF @ = "failed" THEN @ ELSE "done"]
    /\ UNCHANGED <<iter, tries, saved, drained, exit>> /\ Quiet /\ SamePool

\* Mutant: an interrupted run is judged by its samples alone.
ExitUninterrupted ==
    /\ pc = "next" /\ todo = <<>>
    /\ GoTo("exit")
    /\ exit' = IF WithinBudget(res, required) THEN 0 ELSE 1
    /\ UNCHANGED <<todo, iter, tries, saved, drained, res>> /\ Quiet /\ SamePool

\* With -check: 1 for a violation of the budget; 2 for an interruption, or
\* when the budget cannot be read or the snapshot not be written.
Exit ==
    /\ pc = "next" /\ todo = <<>>
    /\ GoTo("exit")
    /\ exit' \in {IF ~WithinBudget(res, required) THEN 1 ELSE IF cancelled THEN 2 ELSE 0, 2}
    /\ UNCHANGED <<todo, iter, tries, saved, drained, res>> /\ Quiet /\ SamePool

-----------------------------------------------------------------------------
(* Drain and its restore, around the cold scenario *)

Save ==
    /\ pc = "save"
    /\ \/ ~cancelled /\ saved' = replicas /\ GoTo("scale") /\ UNCHANGED res
       \/ Fail /\ GoTo("return") /\ UNCHANGED saved
    /\ UNCHANGED <<todo, iter, tries, drained, exit>> /\ Quiet /\ SamePool

\* A patch that answers with an error is not undone, though it may be made.
Scale ==
    /\ pc = "scale"
    /\ \/ ~cancelled /\ SetReplicas(0) /\ GoTo("list") /\ UNCHANGED <<res, unrestored>>
       \/ /\ SamePool \/ SetReplicas(0)
          /\ Fail /\ GoTo("return")
          /\ unrestored' = TRUE
    /\ Stay /\ UNCHANGED <<agentVars, required, access, cancelled, excuse>>

\* Mutant: a drain that fails is not undone.
AbandonDrain ==
    /\ pc \in {"list", "reap", "settle"}
    /\ Fail /\ GoTo("return")
    /\ listed' = {}
    /\ UNCHANGED <<replicas, seen, spare, ending, home, drained>>

\* Mutant: the wait for the spares to go has no deadline.
DrainWaits ==
    /\ pc \in {"list", "reap"} \/ (pc = "settle" /\ cancelled)
    /\ Fail /\ GoTo("restore")
    /\ listed' = {}
    /\ UNCHANGED <<replicas, seen, spare, ending, home, drained>>

\* After the patch a drain that fails is undone like one that succeeds.
DrainFails ==
    /\ pc \in {"list", "reap", "settle"}
    /\ Fail /\ GoTo("restore")
    /\ listed' = {}
    /\ UNCHANGED <<replicas, seen, spare, ending, home, drained>>

Drain ==
    /\ \/ /\ pc = "list" /\ ~cancelled
          /\ ListSpares /\ GoTo("reap") /\ UNCHANGED <<res, drained>>
       \/ /\ pc = "reap" /\ ~cancelled
          /\ \E b \in listed : DeleteSpare(b)
          /\ UNCHANGED <<pc, res, drained>>
       \/ /\ pc = "reap" /\ listed = {}
          /\ GoTo("settle") /\ SamePool /\ UNCHANGED <<res, drained>>
       \/ /\ pc = "settle" /\ ~cancelled /\ Settled
          /\ GoTo("preclean") /\ drained' = TRUE /\ SamePool /\ UNCHANGED res
       \/ DrainFails
    /\ UNCHANGED <<todo, iter, tries, saved, exit>> /\ Quiet

\* A failure is an error event, but only a line in the log after a drain that
\* failed.
Reported == IF drained THEN ErrorEvent ELSE UNCHANGED res

\* On a context that Ctrl-C does not cancel.
Restore ==
    /\ pc = "restore"
    /\ \/ SetReplicas(saved) /\ GoTo("restocked") /\ UNCHANGED <<res, unrestored>>
       \/ /\ SamePool \/ SetReplicas(saved)
          /\ Reported /\ GoTo("return")
          /\ unrestored' = TRUE
    /\ Stay /\ UNCHANGED <<agentVars, required, access, cancelled, excuse>>

\* The pool reports its replicas ready, or the wait fails.
WaitRestocked ==
    /\ pc = "restocked"
    /\ UNCHANGED res \/ Reported
    /\ GoTo("return")
    /\ Stay /\ Quiet /\ SamePool

-----------------------------------------------------------------------------
(* The users of the scenarios, through the admin API *)

SameSpares == UNCHANGED <<replicas, seen, ending, listed>>

\* DeleteUserAndWait: deleted and gone, or an error, also when it took effect.
Deleted == Leave(User) /\ UNCHANGED spare /\ SameSpares

DeleteFails ==
    /\ Deleted \/ SamePool
    /\ Fail /\ Unwind

PreClean ==
    /\ pc = "preclean"
    /\ \/ ~cancelled /\ Deleted /\ GoTo("create") /\ UNCHANGED res
       \/ DeleteFails
    /\ Stay /\ Quiet

\* A sandbox adopted from the pool keeps its name.
FromPool == home'[User] \in Boxes \cup {Lost}

\* Mutant: any sandbox makes a cold sample.
AnyBox(up) ==
    IF up /\ (Scen = "warm" => FromPool) THEN Sample ELSE ErrorEvent

\* What a signup scenario makes of the user it was answered with.  A signup of
\* the warm one that found no spare counts apart.
Classify(up) ==
    IF ~up \/ (Scen = "cold" /\ FromPool) THEN ErrorEvent
    ELSE IF Scen = "warm" /\ ~FromPool THEN UNCHANGED res ELSE Sample

\* Mutant: the deletion of a user that is not Ready is skipped.
AfterReady(up) == IF up THEN GoTo("delete") ELSE GoTo("return")

AfterCreate(up) == GoTo("delete")

Created ==
    /\ pc = "create" /\ ~cancelled
    /\ \E b \in Boxes \cup {Own} : Adopt(User, b)
    /\ SameSpares
    /\ \E up \in BOOLEAN :
         IF Scen \in Signups THEN Classify(up) /\ AfterCreate(up)
         ELSE IF up THEN GoTo("warmup") /\ UNCHANGED res ELSE Fail /\ GoTo("cleanup")
    /\ Stay /\ Quiet

\* The warm scenario goes on without deleting the user there may be, the cold
\* one deletes it, the others fail before they have a clean-up.
CreateFails ==
    /\ pc = "create"
    /\ \/ SamePool
       \/ (\E b \in Boxes \cup {Own} : Adopt(User, b)) /\ SameSpares
    /\ excuse' = TRUE
    /\ CASE Scen = "warm" -> ErrorEvent /\ Again("preclean")
         [] Scen = "cold" -> ErrorEvent /\ GoTo("delete") /\ UNCHANGED <<iter, tries>>
         [] OTHER         -> Fail /\ Unwind /\ UNCHANGED <<iter, tries>>
    /\ UNCHANGED <<todo, saved, drained, exit, agentVars, required, access, cancelled, unrestored>>

Delete ==
    /\ pc = "delete"
    /\ \/ /\ ~cancelled /\ Deleted /\ UNCHANGED <<res, excuse>>
          /\ IF Scen = "warm" /\ ~Last THEN GoTo("restock") /\ UNCHANGED <<iter, tries>>
             ELSE Again("preclean")
       \/ DeleteFails /\ excuse' = TRUE /\ UNCHANGED <<iter, tries>>
    /\ UNCHANGED <<todo, saved, drained, exit, agentVars, required, access, cancelled, unrestored>>

\* The pool reports enough spares; without kube access the wait is a sleep.
Restock ==
    /\ pc = "restock"
    /\ \/ /\ ~cancelled
          /\ Again("preclean") /\ UNCHANGED res
       \/ /\ cancelled \/ access # "none"
          /\ Fail /\ Unwind /\ UNCHANGED <<iter, tries>>
    /\ UNCHANGED <<todo, saved, drained, exit>> /\ Quiet /\ SamePool

\* The clean-up of setupUser, on a context of its own; a failure is logged.
CleanUp ==
    /\ pc = "cleanup"
    /\ \/ Deleted /\ UNCHANGED excuse
       \/ (Deleted \/ SamePool) /\ excuse' = TRUE
    /\ GoTo("return")
    /\ Stay /\ UNCHANGED <<res, agentVars, required, access, cancelled, unrestored>>

-----------------------------------------------------------------------------
(* Requests of the user, through the proxy *)

\* The warm-up probe of setupUser, and the exemption of a baseline.
Setup ==
    /\ pc \in {"warmup", "exempt"}
    /\ \/ /\ ~cancelled
          /\ GoTo(IF Scen \in Resumes THEN "suspend"
                  ELSE IF pc = "warmup" THEN "exempt" ELSE "probe")
          /\ UNCHANGED res
       \/ Fail /\ Unwind
    /\ Stay /\ Quiet /\ SamePool

\* forceSuspend returns when the user is Suspended and its pod has settled.
ForceSuspend ==
    /\ pc = "suspend"
    /\ \/ ~cancelled /\ asleep' = TRUE /\ GoTo("probe") /\ UNCHANGED res
       \/ asleep' \in {asleep, TRUE} /\ Fail /\ Unwind
    /\ Stay /\ UNCHANGED <<reason, waker, hybrid, required, access, cancelled, excuse, unrestored>> /\ SamePool

\* A request that reaches a suspended agent wakes it, once nobody else is at
\* that, and leaves its reason, but for a failure that is only logged.
Woken ==
    /\ ~cancelled
    /\ asleep => ~waker
    /\ asleep' = FALSE
    /\ reason' \in IF asleep THEN {"connect", reason} ELSE {reason}
    /\ UNCHANGED waker

Unreached == UNCHANGED <<asleep, reason, waker>>

\* 503 with Retry-After n times, and anything else or not.
Events(n, other) ==
    res' = [res EXCEPT ![Scen].bad = @ \/ other,
                       ![Scen].busy = IF @ + n > AllowedWakeErrors THEN AllowedWakeErrors + 1 ELSE @ + n]

\* One of 20 probes of the baseline; Ctrl-C ends the pause between two.
BaselineProbe ==
    /\ Unreached
    /\ \/ ~cancelled /\ Sample /\ Again("probe")
       \/ ErrorEvent /\ Again("probe")
       \/ cancelled /\ iter > 0 /\ Fail /\ Unwind /\ UNCHANGED <<iter, tries>>

\* A 503 is retried three times, with Retry-After or without; a success after
\* a retry goes into a series of its own.
TimedWakeProbe ==
    /\ \/ /\ Woken /\ GoTo("reprobe") /\ UNCHANGED tries
          /\ IF tries = 0 THEN Sample ELSE UNCHANGED res
       \/ /\ Woken \/ (~cancelled /\ Unreached)
          /\ Events(1, FALSE) \/ ErrorEvent
          /\ IF tries < 3 THEN tries' = tries + 1 /\ UNCHANGED pc ELSE GoTo("reprobe") /\ UNCHANGED tries
       \/ Unreached /\ ErrorEvent /\ GoTo("reprobe") /\ UNCHANGED tries
    /\ UNCHANGED iter

\* The last wake is asked for by three requests at once, and is a sample when
\* all three succeed.
Herd ==
    /\ \/ Woken /\ Sample
       \/ (Woken \/ Unreached) /\ \E n \in 0..3, other \in BOOLEAN : (n > 0 \/ other) /\ Events(n, other)
    /\ GoTo("reprobe") /\ UNCHANGED <<iter, tries>>

\* A turn of chat that yields no token fails its scenario.
Turn ==
    /\ \/ /\ Woken /\ Sample
          /\ IF Scen \in Resumes THEN Again("suspend") ELSE GoTo("pause") /\ UNCHANGED <<iter, tries>>
       \/ /\ Woken \/ Unreached
          /\ res' = [res EXCEPT ![Scen].bad = TRUE, ![Scen].end = "failed"]
          /\ Unwind /\ UNCHANGED <<iter, tries>>

Probe ==
    /\ pc = "probe"
    /\ CASE Scen = "baseline" -> BaselineProbe
         [] Scen = "resume"   -> IF Last /\ Iterations > 1 THEN Herd ELSE TimedWakeProbe
         [] OTHER             -> Turn
    /\ hybrid' = (hybrid \/ (/\ Scen = "resume" /\ ~asleep /\ reason = "cron"
                              /\ res'[Scen].samples # res[Scen].samples))
    /\ UNCHANGED <<todo, saved, drained, exit, required, access, cancelled, excuse, unrestored>> /\ SamePool

Pause ==
    /\ pc = "pause"
    /\ \/ ~cancelled /\ Again("probe") /\ UNCHANGED res
       \/ cancelled /\ Fail /\ Unwind /\ UNCHANGED <<iter, tries>>
    /\ UNCHANGED <<todo, saved, drained, exit>> /\ Quiet /\ SamePool

\* The agent must answer at once after its wake.
Reprobe ==
    /\ pc = "reprobe"
    /\ \/ Woken /\ UNCHANGED res
       \/ (Woken \/ Unreached) /\ (Events(1, FALSE) \/ ErrorEvent)
    /\ GoTo("reason")
    /\ Stay /\ UNCHANGED <<hybrid, required, access, cancelled, excuse, unrestored>> /\ SamePool

\* Mutant: any wake will do.
AnyReason == UNCHANGED res

CheckReason == IF reason # "connect" THEN ErrorEvent ELSE UNCHANGED res

\* GetUser tells who has woken the agent; its failure is not noticed.
Reason ==
    /\ pc = "reason"
    /\ \/ ~cancelled /\ CheckReason /\ UNCHANGED hybrid
       \/ hybrid' = FALSE /\ UNCHANGED res
    /\ Again("suspend")
    /\ UNCHANGED <<todo, saved, drained, exit, asleep, reason, waker, required, access, cancelled, excuse, unrestored>>
    /\ SamePool

BenchStep ==
    \/ NextScenario \/ Return \/ Exit
    \/ Save \/ Scale \/ Drain \/ Restore \/ WaitRestocked
    \/ PreClean \/ Created \/ CreateFails \/ Delete \/ Restock \/ CleanUp
    \/ Setup \/ ForceSuspend \/ Probe \/ Pause \/ Reprobe \/ Reason

-----------------------------------------------------------------------------
(* External: everybody else. *)

Guests == Users \ BenchUsers

Interrupt ==
    /\ ~cancelled /\ pc \notin {"exit", "killed"}
    /\ cancelled' = TRUE
    /\ UNCHANGED <<poolVars, flowVars, agentVars, required, access, excuse, unrestored>>

Kill ==
    /\ pc \notin {"exit", "killed"}
    /\ GoTo("killed")
    /\ SamePool /\ UNCHANGED res /\ Stay /\ Quiet

\* A scheduled job is due, and the cron waker resumes the agent: the mode,
\* then the reason, in a second patch whose failure is only logged.
CronWake ==
    /\ asleep /\ ~waker /\ pc \notin {"exit", "killed"}
    /\ asleep' = FALSE /\ waker' = TRUE
    /\ SamePool
    /\ UNCHANGED <<flowVars, reason, hybrid, required, access, cancelled, excuse, unrestored>>

CronReason ==
    /\ waker /\ pc \notin {"exit", "killed"}
    /\ waker' = FALSE /\ reason' \in {"cron", reason}
    /\ SamePool
    /\ UNCHANGED <<flowVars, asleep, hybrid, required, access, cancelled, excuse, unrestored>>

Waker == CronWake \/ CronReason

GuestStep ==
    /\ \E g \in Guests :
         \/ \E b \in Boxes \cup {Own} : Adopt(g, b)
         \/ home[g] # NoBox /\ Leave(g) /\ UNCHANGED spare
    /\ SameSpares

\* The model ends with the process.
Others ==
    /\ pc \notin {"exit", "killed"}
    /\ Controller \/ GuestStep
    /\ UNCHANGED <<flowVars, agentVars, required, access, cancelled, excuse, unrestored>>

Remember ==
    /\ early' = IF pc = "scale" /\ pc' = "list" THEN {u \in Users : home[u] \in Boxes}
                ELSE {u \in early : home'[u] # NoBox}
    /\ stale' = {u \in stale : home'[u] # NoBox}
    /\ spoiled' = (spoiled \/ (/\ pc = "create" /\ Scen = "cold"
                                /\ home[User] = NoBox /\ home'[User] \in Boxes))

Next == (BenchStep \/ Interrupt \/ Kill \/ Waker \/ Others) /\ Remember

Spec == Init /\ [][Next]_vars /\ WF_vars(BenchStep /\ Remember)

-----------------------------------------------------------------------------
\* When the benchmark has left the cold scenario, however that went, the pool
\* has its replicas back, unless a patch of the pool has answered with an error
\* (scenario_new.go:95-116, pool.go:82-95).
PoolRestored ==
    pc \in {"next", "exit"} => replicas = Replicas \/ unrestored

\* A pool that was drained is not left so while the process lives: no wait of
\* the drain, and no scenario over it, goes on for ever (pool.go:90-128).
DrainedIsRestored ==
    replicas = 0 ~> replicas = Replicas \/ unrestored \/ pc = "killed"

\* A drain takes the sandbox of nobody who had it when the drain began
\* (pool.go:78-81).
DrainSparesResidents == \A u \in early : home[u] # Lost

\* In a clean pass no signup of the cold scenario was given a spare: one that a
\* controller behind the times made after the drain shows in the exit code,
\* whatever came of that signup (scenario_new.go:138-140, pool.go:110-128).
CleanPassIsCold == exit = 0 => ~spoiled

\* A clean pass means what the budget says: of each scenario that ran at least
\* half of the samples are within its limit for the median, and all are within
\* that for the maximum (stats.go:37-45, budget.go:97-115).
CleanPassIsFast ==
    exit = 0 => \A s \in Scenarios : res[s].end = "done" =>
        LET n == Len(res[s].samples)
            Within(limit) == {i \in 1..n : limit > 0 => res[s].samples[i] <= limit}
        IN  /\ 2 * Cardinality(Within(Limits[50])) >= n
            /\ Within(Limits[100]) = 1..n

\* A clean pass is no run cut short and leaves the pool as it was: the scenarios
\* asked for have run, but a cold one that may not drain the pool, and the
\* required ones have samples
\* (main.go:161-168, scenario_new.go:108-116).
CleanPassIsWhole ==
    exit = 0 =>
        /\ \A s \in Scenarios : res[s].end = "skipped" => s = "cold" /\ access # "drain"
        /\ \A s \in required : res[s].samples # <<>>
        /\ replicas = Replicas

\* In a clean pass no wake was timed against an agent whose record said that a
\* job had woken it, as far as the benchmark could ask
\* (scenario_resume.go:68-73, lifecycle.go:113-120).
CleanPassTimedWakes == exit = 0 => ~hybrid

\* A benchmark that ends by itself leaves no user behind, neither its own nor
\* one of an earlier run that it has deleted to begin with, unless it was
\* interrupted, or a creation or a deletion has failed
\* (scenario.go:112-113, benchmarks/README.md:62-63).
UsersGone ==
    pc = "exit" => cancelled \/ excuse \/ \A u \in BenchUsers : home[u] = NoBox \/ u \in stale
=============================================================================
