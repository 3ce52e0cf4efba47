---------------------------- MODULE BenchProofs ----------------------------
(***************************************************************************)
(* Proofs about the benchmark, for any plans, number of iterations, pool,  *)
(* latencies and users: it gives the warm pool its replicas back and takes *)
(* no resident's sandbox; its users are gone at the end unless a call has  *)
(* failed; and a clean pass is a whole run within its limits, whose cold   *)
(* signups were given no spare, and whose wakes no job had forestalled on  *)
(* record.  RunInv is what they share: where a run can be and what its     *)
(* results look like.                                                      *)
(***************************************************************************)
EXTENDS Bench, FiniteSetTheorems, TLAPS

\* Where only the cold scenario is, where it may also be, and where the others are.
ColdOnly == {"save", "scale", "list", "reap", "settle", "restore", "restocked"}
Shared   == {"preclean", "create", "delete", "return"}
Plain    == {"warmup", "exempt", "suspend", "probe", "reprobe", "reason", "restock", "pause", "cleanup"}
Outside  == {"next", "exit", "killed"}

\* The scenario that runs, and where it is, go together.
Flow ==
    /\ pc \in ColdOnly \cup Shared \cup Plain \cup Outside
    /\ pc \in ColdOnly => Scen = "cold"
    /\ pc \in Plain => Scen # "cold"

\* From the patch to its undoing the pool is in the hands of the scenario.
Held ==
    \/ pc \in {"list", "reap", "settle", "restore"}
    \/ Scen = "cold" /\ pc \in {"preclean", "create", "delete"}

\* What the drain has saved is what the pool had, and until then, and since the
\* restore, the pool has it.
Kept ==
    \/ unrestored
    \/ pc = "killed"
    \/ /\ pc = "scale" \/ Held => saved = Replicas
       /\ ~Held => replicas = Replicas

PInv == Flow /\ Kept

LEMMA BenchInit == Init => PInv
  BY DEF Init, PoolInit, PInv, Flow, Kept, Held, ColdOnly, Shared, Plain, Outside

\* A step within the scenarios that leave the pool alone.
LEMMA PlainStep ==
  ASSUME PInv, Scen # "cold", pc \in Shared \cup Plain, pc' \in Shared \cup Plain,
         UNCHANGED <<todo, replicas, saved, unrestored>>
  PROVE  PInv'
  BY DEF PInv, Flow, Kept, Held, Scen, ColdOnly, Shared, Plain, Outside

\* A step of the cold scenario while it holds the pool.
LEMMA HeldStep ==
  ASSUME PInv, Scen = "cold", Held, pc' \in {"list", "reap", "settle", "preclean", "create", "delete", "restore"},
         UNCHANGED <<todo, saved, unrestored>>
  PROVE  PInv'
  BY DEF PInv, Flow, Kept, Held, Scen, ColdOnly, Shared, Plain, Outside

\* A step of somebody else, or of the end.
LEMMA OutsideStep ==
  ASSUME PInv, UNCHANGED <<replicas, saved, unrestored>>,
         \/ UNCHANGED <<pc, todo>>
         \/ pc' = "killed"
         \/ pc = "next" /\ pc' \in {"next", "exit"}
         \/ pc = "next" /\ pc' = (IF Scen = "cold" THEN "save" ELSE "preclean") /\ UNCHANGED todo
         \/ pc = "return" /\ pc' = "next"
  PROVE  PInv'
  BY DEF PInv, Flow, Kept, Held, Scen, ColdOnly, Shared, Plain, Outside

\* Where a scenario unwinds to.
LEMMA Unwinding ==
  ASSUME Unwind
  PROVE  /\ Scen = "cold" => pc' = "restore"
         /\ Scen # "cold" => pc' \in {"return", "cleanup"}
  BY DEF Unwind, GoTo

LEMMA AgainUnwinds ==
  ASSUME NEW first, Again(first)
  PROVE  Unwind \/ pc' = first
  BY DEF Again, GoTo

\* A step of a signup that goes on, or unwinds, without touching the replicas.
LEMMA SignupStep ==
  ASSUME PInv, pc \in {"preclean", "create", "delete"},
         Unwind \/ pc' \in {"preclean", "create", "delete"} \/ (Scen # "cold" /\ pc' \in Shared \cup Plain),
         UNCHANGED <<todo, replicas, saved, unrestored>>
  PROVE  PInv'
<1>1. CASE Scen = "cold"
  <2>1. pc' \in {"preclean", "create", "delete", "restore"}
    BY <1>1, Unwinding
  <2> QED BY <1>1, <2>1, HeldStep DEF Held
<1>2. CASE Scen # "cold"
  <2>1. pc' \in Shared \cup Plain
    BY <1>2, Unwinding DEF Shared, Plain
  <2> QED BY <1>2, <2>1, PlainStep DEF Shared
<1> QED BY <1>1, <1>2

\* A request of a scenario that is not the cold one.
LEMMA RequestStep ==
  ASSUME PInv, pc \in Plain, Unwind \/ pc' \in Shared \cup Plain,
         UNCHANGED <<todo, replicas, saved, unrestored>>
  PROVE  PInv'
<1>1. Scen # "cold"
  BY DEF PInv, Flow
<1>2. pc' \in Shared \cup Plain
  BY <1>1, Unwinding DEF Shared, Plain
<1> QED BY <1>1, <1>2, PlainStep

LEMMA DrainKeeps ==
  ASSUME PInv, Save \/ Scale \/ Drain \/ Restore \/ WaitRestocked
  PROVE  PInv'
<1> USE DEF ColdOnly, Shared, Plain, Outside
<1>1. CASE Save
  BY <1>1 DEF Save, GoTo, Quiet, SamePool, poolVars, PInv, Flow, Kept, Held, Scen
<1>2. CASE Scale
  BY <1>2 DEF Scale, SetReplicas, GoTo, Stay, PInv, Flow, Kept, Held, Scen
<1>3. CASE Drain
  <2>1. pc \in {"list", "reap", "settle"} /\ Scen = "cold"
    BY <1>3 DEF Drain, DrainFails, PInv, Flow
  <2>2. pc' \in {"reap", "settle", "preclean", "restore"}
    BY <1>3 DEF Drain, DrainFails, GoTo
  <2>3. UNCHANGED <<todo, saved, unrestored>>
    BY <1>3 DEF Drain, Quiet
  <2> QED BY <2>1, <2>2, <2>3, HeldStep DEF Held
<1>4. CASE Restore
  BY <1>4 DEF Restore, SetReplicas, GoTo, Stay, PInv, Flow, Kept, Held, Scen
<1>5. CASE WaitRestocked
  BY <1>5 DEF WaitRestocked, GoTo, Stay, Quiet, SamePool, poolVars, PInv, Flow, Kept, Held, Scen
<1> QED BY <1>1, <1>2, <1>3, <1>4, <1>5

LEMMA UsersKeep ==
  ASSUME PInv, PreClean \/ Created \/ CreateFails \/ Delete \/ Restock \/ CleanUp
  PROVE  PInv'
<1> USE DEF SamePool, SameSpares, poolVars
<1>1. CASE PreClean
  <2>1. Unwind \/ pc' = "create"
    BY <1>1 DEF PreClean, DeleteFails, GoTo
  <2> QED BY <1>1, <2>1, SignupStep DEF PreClean, DeleteFails, Deleted, Leave, Stay, Quiet
<1>2. CASE Created
  <2>1. pc' = "delete" \/ (Scen # "cold" /\ pc' \in Shared \cup Plain)
    BY <1>2 DEF Created, AfterCreate, GoTo, Plain, Signups
  <2> QED BY <1>2, <2>1, SignupStep DEF Created, Stay, Quiet
<1>3. CASE CreateFails
  <2>1. Unwind \/ pc' \in {"preclean", "delete"}
    BY <1>3, AgainUnwinds DEF CreateFails, GoTo
  <2>2. UNCHANGED replicas
    BY <1>3 DEF CreateFails
  <2> QED BY <1>3, <2>1, <2>2, SignupStep DEF CreateFails
<1>4. CASE Delete
  <2>1. Unwind \/ pc' = "preclean" \/ (Scen # "cold" /\ pc' \in Shared \cup Plain)
    BY <1>4, AgainUnwinds DEF Delete, DeleteFails, GoTo, Plain
  <2>2. UNCHANGED replicas
    BY <1>4 DEF Delete, DeleteFails, Deleted
  <2> QED BY <1>4, <2>1, <2>2, SignupStep DEF Delete
<1>5. CASE Restock
  <2>1. Unwind \/ pc' = "preclean"
    BY <1>5, AgainUnwinds DEF Restock
  <2> QED BY <1>5, <2>1, RequestStep DEF Restock, Quiet, Plain, Shared
<1>6. CASE CleanUp
  <2>1. UNCHANGED replicas
    BY <1>6 DEF CleanUp, Deleted
  <2> QED BY <1>6, <2>1, RequestStep DEF CleanUp, GoTo, Stay, Plain, Shared
<1> QED BY <1>1, <1>2, <1>3, <1>4, <1>5, <1>6

LEMMA RequestsKeep ==
  ASSUME PInv, Setup \/ ForceSuspend \/ Probe \/ Pause \/ Reprobe \/ Reason
  PROVE  PInv'
<1> USE DEF SamePool, poolVars
<1>1. CASE Setup
  <2>1. Unwind \/ pc' \in {"suspend", "exempt", "probe"}
    BY <1>1 DEF Setup, GoTo
  <2> QED BY <1>1, <2>1, RequestStep DEF Setup, Stay, Quiet, Plain
<1>2. CASE ForceSuspend
  <2>1. Unwind \/ pc' = "probe"
    BY <1>2 DEF ForceSuspend, GoTo
  <2> QED BY <1>2, <2>1, RequestStep DEF ForceSuspend, Stay, Plain
<1>3. CASE Probe
  <2>1. Unwind \/ pc' \in Plain
    <3>1. BaselineProbe => Unwind \/ pc' = "probe"
      BY AgainUnwinds DEF BaselineProbe
    <3>2. TimedWakeProbe => pc' \in {pc, "reprobe"}
      BY DEF TimedWakeProbe, GoTo
    <3>3. Herd => pc' = "reprobe"
      BY DEF Herd, GoTo
    <3>4. Turn => Unwind \/ pc' \in {"suspend", "pause"}
      BY AgainUnwinds DEF Turn, GoTo
    <3> QED BY <1>3, <3>1, <3>2, <3>3, <3>4 DEF Probe, Plain
  <2> QED BY <1>3, <2>1, RequestStep DEF Probe, Plain
<1>4. CASE Pause
  <2>1. Unwind \/ pc' = "probe"
    BY <1>4, AgainUnwinds DEF Pause
  <2> QED BY <1>4, <2>1, RequestStep DEF Pause, Quiet, Plain
<1>5. CASE Reprobe
  BY <1>5, RequestStep DEF Reprobe, GoTo, Stay, Plain
<1>6. CASE Reason
  <2>1. Unwind \/ pc' = "suspend"
    BY <1>6, AgainUnwinds DEF Reason
  <2> QED BY <1>6, <2>1, RequestStep DEF Reason, Plain
<1> QED BY <1>1, <1>2, <1>3, <1>4, <1>5, <1>6

LEMMA BenchNext ==
  ASSUME PInv, [Next]_vars
  PROVE  PInv'
<1>1. CASE NextScenario \/ Return \/ Exit
  BY <1>1, OutsideStep DEF NextScenario, Return, Exit, GoTo, Quiet, SamePool, poolVars
<1>2. CASE Interrupt \/ Kill \/ Waker
  BY <1>2, OutsideStep DEF Interrupt, Kill, Waker, CronWake, CronReason, GoTo, Stay, Quiet, SamePool, poolVars, flowVars
<1>3. CASE Others
  <2>1. UNCHANGED replicas
    BY <1>3 DEF Others, Controller, Observe, Stock, Reap, Gone, GuestStep, SameSpares
  <2> QED BY <1>3, <2>1, OutsideStep DEF Others, flowVars
<1>4. CASE UNCHANGED vars
  BY <1>4, OutsideStep DEF vars, poolVars, flowVars
<1> QED BY <1>1, <1>2, <1>3, <1>4, DrainKeeps, UsersKeep, RequestsKeep DEF Next, BenchStep

\* However the cold scenario goes, and whatever others do, the pool has its
\* replicas back when the benchmark goes on, unless a patch of the pool has
\* answered with an error (scenario_new.go:95-116, pool.go:82-95).
THEOREM PoolGetsReplicasBack == Spec => []PoolRestored
<1>1. PInv => PoolRestored
  BY DEF PInv, Flow, Kept, Held, PoolRestored, ColdOnly, Shared, Plain, Outside
<1> QED BY <1>1, BenchInit, BenchNext, PTL DEF Spec

-----------------------------------------------------------------------------
\* A product with a fraction of hundredths lies between nothing and the whole.
LEMMA Fraction ==
  ASSUME NEW r \in 0..99, NEW d \in Nat
  PROVE  r * d \in 0..100 * d
<1>1. r * d >= 0 /\ (100 - r) * d >= 0
  BY SMT
<1>2. (100 - r) * d = 100 * d - r * d
  BY SMT
<1> QED BY <1>1, <1>2

\* The percentile of sorted samples lies between those of the ranks it is
\* between, and that of a hundred is the greatest of them: a limit that holds
\* for the percentile holds for every sample up to its rank (stats.go:19-45).
THEOREM PercentileIsBetweenRanks ==
  ASSUME NEW s \in Seq(Nat), s # <<>>, NEW p \in 0..100,
         \A i, j \in 1..Len(s) : i <= j => s[i] <= s[j]
  PROVE  LET lo == (p * (Len(s) - 1)) \div 100
         IN  /\ lo \in 0..Len(s) - 1
             /\ p = 100 => lo = Len(s) - 1
             /\ Percentile(s, p) \in Nat
             /\ 100 * s[lo + 1] <= Percentile(s, p)
             /\ lo + 1 < Len(s) => Percentile(s, p) <= 100 * s[lo + 2]
<1> DEFINE n    == Len(s)
           rank == p * (n - 1)
           lo   == rank \div 100
<1>1. n \in Nat \ {0}
  OBVIOUS
<1>2. rank \in 0..100 * (n - 1)
  <2>1. p * (n - 1) >= 0 /\ (100 - p) * (n - 1) >= 0
    BY <1>1, SMT
  <2>2. (100 - p) * (n - 1) = 100 * (n - 1) - p * (n - 1)
    BY <1>1, SMT
  <2> QED BY <1>1, <2>1, <2>2
<1>3. lo \in 0..n - 1 /\ (p = 100 => lo = n - 1)
  <2>1. p = 100 => rank = 100 * (n - 1)
    OBVIOUS
  <2> HIDE DEF rank
  <2> QED BY <1>1, <1>2, <2>1
<1>4. CASE lo + 1 >= n
  <2>1. lo + 1 = n
    BY <1>1, <1>3, <1>4
  <2>2. Percentile(s, p) = 100 * s[n]
    BY <1>4 DEF Percentile
  <2>3. s[n] \in Nat
    BY <1>1
  <2> QED BY <1>1, <1>3, <2>1, <2>2, <2>3
<1>5. CASE lo + 1 < n
  <2> DEFINE a == s[lo + 1]
             b == s[lo + 2]
  <2>1. a \in Nat /\ b \in Nat /\ a <= b
    <3>1. lo + 1 \in 1..n /\ lo + 2 \in 1..n /\ lo + 1 <= lo + 2
      BY <1>1, <1>3, <1>5
    <3> HIDE DEF lo
    <3> QED BY <3>1
  <2>2. Percentile(s, p) = 100 * a + (rank % 100) * (b - a)
    BY <1>5 DEF Percentile
  <2>3. rank % 100 \in 0..99
    <3> HIDE DEF rank
    <3> QED BY <1>2
  <2>4. (rank % 100) * (b - a) \in 0..100 * (b - a)
    <3> HIDE DEF rank, a, b
    <3>1. b - a \in Nat
      BY <2>1
    <3> QED BY <2>3, <3>1, Fraction, Zenon
  <2>5. Percentile(s, p) \in Nat /\ 100 * a <= Percentile(s, p) /\ Percentile(s, p) <= 100 * b
    <3> HIDE DEF rank, a, b
    <3> QED BY <2>1, <2>2, <2>3, <2>4
  <2> QED BY <1>3, <2>5
<1> QED BY <1>4, <1>5, <1>1, <1>3

-----------------------------------------------------------------------------
(* Sorted samples. *)

Sorted(s) == \A i, j \in 1..Len(s) : i <= j => s[i] <= s[j]

\* The samples not greater than l are those before its place.
LEMMA PlaceSplits ==
  ASSUME NEW s \in Seq(Nat), Sorted(s), NEW l \in Nat
  PROVE  Place(s, l) \in 0..Len(s) /\ \A i \in 1..Len(s) : i <= Place(s, l) <=> s[i] <= l
<1> DEFINE n == Len(s)
           D == {i \in 1..n : s[i] <= l}
           k == Cardinality(D)
<1>1. n \in Nat /\ \A i \in 1..n : s[i] \in Nat
  OBVIOUS
<1>2. IsFiniteSet(1..n) /\ Cardinality(1..n) = n
  BY <1>1, FS_Interval
<1>3. D \in SUBSET (1..n)
  OBVIOUS
<1>4. \A i \in D, j \in 1..n : j <= i => j \in D
  BY <1>1 DEF Sorted
<1> HIDE DEF n, D
<1>5. IsFiniteSet(D) /\ k \in Nat /\ k <= n
  BY <1>2, <1>3, FS_Subset, FS_CardinalityType
<1>6. IsFiniteSet(1..k) /\ Cardinality(1..k) = k
  <2> HIDE DEF k
  <2> QED BY <1>5, FS_Interval
<1>7. D \in SUBSET (1..k)
  <2>1. ASSUME NEW i \in D PROVE i <= k
    <3>1. i \in 1..n
      BY <1>3
    <3>2. 1..i \in SUBSET D
      BY <1>1, <1>4, <3>1
    <3>3. Cardinality(1..i) = i
      BY <1>1, <3>1, FS_Interval
    <3>4. Cardinality(1..i) <= Cardinality(D)
      BY <1>5, <3>2, FS_Subset
    <3> QED BY <3>3, <3>4
  <2>2. \A i \in D : i \in Nat /\ i >= 1
    BY <1>1, <1>3
  <2> HIDE DEF k
  <2> QED BY <1>5, <2>1, <2>2
<1>8. D = 1..k
  BY <1>6, <1>7, FS_Subset
<1>9. Place(s, l) = k
  BY DEF Place, D, n
<1>10. k \in 0..n
  BY <1>5
<1> HIDE DEF k
<1>11. \A i \in 1..n : i <= k <=> i \in D
  BY <1>1, <1>5, <1>8
<1> QED BY <1>9, <1>10, <1>11 DEF D, n

\* A sample more, and they are still sorted.
LEMMA InsertSorts ==
  ASSUME NEW s \in Seq(Nat), Sorted(s), NEW l \in Nat
  PROVE  Insert(s, l) \in Seq(Nat) /\ Len(Insert(s, l)) = Len(s) + 1 /\ Sorted(Insert(s, l))
<1> DEFINE n == Len(s)
           k == Place(s, l)
           r == Insert(s, l)
<1>1. n \in Nat /\ \A i \in 1..n : s[i] \in Nat
  OBVIOUS
<1>2. k \in 0..n /\ \A i \in 1..n : i <= k <=> s[i] <= l
  BY PlaceSplits
<1>3. r = [i \in 1..n + 1 |-> IF i <= k THEN s[i] ELSE IF i = k + 1 THEN l ELSE s[i - 1]]
  BY DEF Insert
<1>4. \A i, j \in 1..n : i <= j => s[i] <= s[j]
  BY DEF Sorted
<1> HIDE DEF n, k, r
<1>5. \A i \in 1..n + 1 : r[i] \in Nat
  BY <1>1, <1>2, <1>3
<1>6. r \in Seq(Nat) /\ Len(r) = n + 1
  BY <1>1, <1>3, <1>5
<1>7. ASSUME NEW i \in 1..n + 1, NEW j \in 1..n + 1, i <= j PROVE r[i] <= r[j]
  <2>1. CASE i <= k /\ j <= k
    BY <2>1, <1>1, <1>2, <1>3, <1>4, <1>7
  <2>2. CASE i <= k /\ j = k + 1
    BY <2>2, <1>1, <1>2, <1>3
  <2>3. CASE i <= k /\ j > k + 1
    <3>1. j - 1 \in 1..n /\ i \in 1..n /\ i <= j - 1
      BY <2>3, <1>1, <1>2
    <3> QED BY <2>3, <3>1, <1>2, <1>3, <1>4
  <2>4. CASE i = k + 1
    <3>1. CASE j = i
      BY <3>1, <1>5
    <3>2. CASE j # i
      <4>1. j - 1 \in 1..n /\ ~(j - 1 <= k) /\ j # k + 1 /\ ~(j <= k)
        BY <2>4, <3>2, <1>1, <1>2, <1>7
      <4>2. r[i] = l /\ r[j] = s[j - 1] /\ s[j - 1] \in Nat /\ ~(s[j - 1] <= l)
        BY <2>4, <4>1, <1>1, <1>2, <1>3
      <4> QED BY <4>2
    <3> QED BY <3>1, <3>2
  <2>5. CASE i > k + 1
    <3>1. i - 1 \in 1..n /\ j - 1 \in 1..n /\ i - 1 <= j - 1 /\ j > k + 1
      BY <2>5, <1>1, <1>2, <1>7
    <3> QED BY <2>5, <3>1, <1>2, <1>3, <1>4
  <2> QED BY <1>2, <2>1, <2>2, <2>3, <2>4, <2>5
<1> QED BY <1>6, <1>7 DEF Sorted, n, r

-----------------------------------------------------------------------------
(* Where a run can be. *)

\* The list has each scenario once; a scenario is only at steps of its own; and
\* a wake is asked for again only in an iteration that no herd follows.
Control ==
    /\ todo \in Seq(Scenarios)
    /\ \A i, j \in 1..Len(todo) : todo[i] = todo[j] => i = j
    /\ iter \in 0..Iterations - 1 /\ tries \in 0..3
    /\ pc \in ColdOnly \cup Shared \cup Plain \cup Outside
    /\ pc \notin Outside => todo # <<>>
    /\ pc \in ColdOnly => Scen = "cold"
    /\ pc \in Plain \ {"restock"} => Scen \notin Signups
    /\ pc = "restock" => Scen = "warm"
    /\ pc \in {"reprobe", "reason"} => Scen = "resume"
    /\ pc = "suspend" => Scen \in Resumes
    /\ pc = "pause" => Scen \notin Resumes
    /\ tries # 0 => \/ pc = "killed"
                    \/ /\ Scen = "resume" /\ pc \in {"probe", "reprobe", "reason"}
                       /\ ~(Last /\ Iterations > 1)

LEMMA ScenType ==
  ASSUME Control, todo # <<>>
  PROVE  /\ Scen \in Scenarios /\ Scen = todo[1] /\ Len(todo) \in Nat \ {0}
         /\ Tail(todo) \in Seq(Scenarios) /\ Len(Tail(todo)) = Len(todo) - 1
         /\ \A i \in 1..Len(Tail(todo)) : Tail(todo)[i] = todo[i + 1] /\ i + 1 \in 1..Len(todo)
BY DEF Control, Scen

\* What Again does: an iteration more, or the way out.
LEMMA AgainMoves ==
  ASSUME Control, NEW first, Again(first)
  PROVE  /\ tries' = 0 /\ iter' \in 0..Iterations - 1
         /\ \/ pc' = first /\ iter' = iter + 1
            \/ Unwind /\ iter' = iter
BY IterationsAssumption DEF Again, GoTo, Last, Control

\* A step within a scenario that asks for no wake again.
LEMMA StayInScenario ==
  ASSUME Control, pc \notin Outside, UNCHANGED todo, iter' \in 0..Iterations - 1,
         tries' = 0 \/ (tries' = tries /\ iter' = iter /\ pc' \in {"reprobe", "reason"} /\ pc \in {"probe", "reprobe"})
           \/ (tries' = tries /\ pc \notin {"probe", "reprobe", "reason"}),
         \/ Unwind
         \/ pc' \in Shared
         \/ Scen = "cold" /\ pc' \in ColdOnly
         \/ Scen = "warm" /\ pc' = "restock"
         \/ Scen \notin Signups /\ pc' \in {"warmup", "exempt", "probe", "cleanup"}
         \/ Scen = "resume" /\ pc' \in {"reprobe", "reason"}
         \/ Scen \in Resumes /\ pc' = "suspend"
         \/ Scen \notin Resumes \cup Signups /\ pc' = "pause"
  PROVE  Control'
<1> USE DEF ColdOnly, Shared, Plain, Outside
<1>1. Unwind => \/ pc' = "return"
                \/ Scen = "cold" /\ pc' = "restore"
                \/ Scen \notin Signups /\ pc' = "cleanup"
  BY DEF Unwind, GoTo, Signups
<1>2. Scen' = Scen /\ todo' = todo /\ todo # <<>>
  BY DEF Scen, Control
<1>3. tries' \in 0..3 /\ (tries' # 0 => tries' = tries /\ iter' = iter /\ pc' \in {"reprobe", "reason"} /\ Scen = "resume"
                               /\ ~(Last /\ Iterations > 1))
  BY DEF Control
<1>4. \/ pc' = "return"
      \/ Scen = "cold" /\ pc' \in ColdOnly
      \/ pc' \in Shared
      \/ Scen = "warm" /\ pc' = "restock"
      \/ Scen \notin Signups /\ pc' \in {"warmup", "exempt", "probe", "cleanup"}
      \/ Scen = "resume" /\ pc' \in {"reprobe", "reason"}
      \/ Scen \in Resumes /\ pc' = "suspend"
      \/ Scen \notin Resumes \cup Signups /\ pc' = "pause"
  BY <1>1
<1> QED BY <1>2, <1>3, <1>4 DEF Control, Last, Signups, Resumes

\* A step of somebody else, or of the end, or between two scenarios.
LEMMA ControlOutside ==
  ASSUME Control,
         \/ UNCHANGED <<pc, todo, iter, tries>>
         \/ pc' = "killed" /\ UNCHANGED <<todo, iter, tries>>
         \/ pc = "next" /\ pc' = "exit" /\ UNCHANGED <<todo, iter, tries>>
         \/ /\ pc = "next" /\ todo # <<>> /\ iter' = 0 /\ UNCHANGED <<todo, tries>>
            /\ pc' = IF Scen = "cold" THEN "save" ELSE "preclean"
         \/ pc = "next" /\ pc' = "next" /\ todo # <<>> /\ iter' = 0 /\ todo' = Tail(todo) /\ UNCHANGED tries
         \/ pc = "return" /\ pc' = "next" /\ todo' = Tail(todo) /\ UNCHANGED <<iter, tries>>
  PROVE  Control'
<1> USE DEF ColdOnly, Shared, Plain, Outside
<1>1. CASE UNCHANGED <<pc, todo, iter, tries>>
  BY <1>1 DEF Control, Scen, Last
<1>2. CASE UNCHANGED <<todo, iter, tries>> /\ (pc' = "killed" \/ (pc = "next" /\ pc' = "exit"))
  BY <1>2 DEF Control
<1>3. CASE /\ pc = "next" /\ todo # <<>> /\ iter' = 0 /\ UNCHANGED <<todo, tries>>
           /\ pc' = IF Scen = "cold" THEN "save" ELSE "preclean"
  BY <1>3, IterationsAssumption DEF Control, Scen
<1>4. CASE /\ pc \in {"next", "return"} /\ pc' = "next" /\ todo # <<>> /\ todo' = Tail(todo)
           /\ iter' \in {0, iter} /\ UNCHANGED tries
  <2>1. todo' \in Seq(Scenarios)
    BY <1>4, ScenType
  <2>2. \A i, j \in 1..Len(todo') : todo'[i] = todo'[j] => i = j
    <3>1. SUFFICES ASSUME NEW i \in 1..Len(todo'), NEW j \in 1..Len(todo'), todo'[i] = todo'[j] PROVE i = j
      OBVIOUS
    <3>2. todo[i + 1] = todo[j + 1] /\ i + 1 \in 1..Len(todo) /\ j + 1 \in 1..Len(todo)
      BY <1>4, <3>1, ScenType
    <3>3. i + 1 = j + 1
      BY <3>2 DEF Control
    <3> QED BY <3>3
  <2>3. tries = 0
    BY <1>4 DEF Control
  <2> QED BY <1>4, <2>1, <2>2, <2>3, IterationsAssumption DEF Control
<1>5. pc = "return" => todo # <<>>
  BY DEF Control
<1> QED BY <1>1, <1>2, <1>3, <1>4, <1>5


LEMMA ControlPool ==
  ASSUME Control, Save \/ Scale \/ Drain \/ Restore \/ WaitRestocked
  PROVE  Control'
<1> USE StayInScenario DEF ColdOnly, Shared, Plain, Outside
<1>1. pc \notin Outside /\ iter \in 0..Iterations - 1 /\ (pc \in ColdOnly => Scen = "cold")
  BY DEF Control, Save, Scale, Drain, DrainFails, Restore, WaitRestocked
<1>2. CASE Save
  BY <1>1, <1>2 DEF Save, GoTo
<1>3. CASE Scale
  BY <1>1, <1>3 DEF Scale, GoTo, Stay
<1>4. CASE Drain
  <2>1. pc \in {"list", "reap", "settle"} /\ pc' \in {"reap", "settle", "preclean", "restore"}
        /\ UNCHANGED <<todo, iter, tries>>
    BY <1>4 DEF Drain, DrainFails, GoTo
  <2> QED BY <1>1, <2>1
<1>5. CASE Restore
  BY <1>1, <1>5 DEF Restore, GoTo, Stay
<1>6. CASE WaitRestocked
  BY <1>1, <1>6 DEF WaitRestocked, GoTo, Stay
<1> QED BY <1>2, <1>3, <1>4, <1>5, <1>6

LEMMA ControlUsers ==
  ASSUME Control, PreClean \/ Created \/ CreateFails \/ Delete \/ Restock \/ CleanUp
  PROVE  Control'
<1> USE StayInScenario DEF Shared
<1>1. pc \notin Outside /\ iter \in 0..Iterations - 1 /\ pc \notin {"probe", "reprobe", "reason"}
      /\ (pc = "restock" => Scen = "warm")
  BY DEF Control, Outside, PreClean, Created, CreateFails, Delete, Restock, CleanUp
<1>2. CASE PreClean
  <2>1. UNCHANGED <<todo, iter, tries>> /\ (Unwind \/ pc' = "create")
    BY <1>2 DEF PreClean, DeleteFails, GoTo, Stay
  <2> QED BY <1>1, <2>1
<1>3. CASE Created
  <2>1. UNCHANGED <<todo, iter, tries>> /\ (pc' = "delete" \/ (Scen \notin Signups /\ pc' \in {"warmup", "cleanup"}))
    BY <1>3 DEF Created, AfterCreate, GoTo, Stay
  <2> QED BY <1>1, <2>1
<1>4. CASE CreateFails
  <2>1. UNCHANGED todo
    BY <1>4 DEF CreateFails
  <2>2. \/ Again("preclean")
        \/ (Unwind \/ pc' = "delete") /\ UNCHANGED <<iter, tries>>
    BY <1>4 DEF CreateFails, GoTo
  <2> QED BY <1>1, <2>1, <2>2, AgainMoves
<1>5. CASE Delete
  <2>1. UNCHANGED todo
    BY <1>5 DEF Delete
  <2>2. \/ Again("preclean")
        \/ (Unwind \/ (Scen = "warm" /\ pc' = "restock")) /\ UNCHANGED <<iter, tries>>
    BY <1>5 DEF Delete, DeleteFails, GoTo
  <2> QED BY <1>1, <2>1, <2>2, AgainMoves
<1>6. CASE Restock
  <2>1. UNCHANGED todo /\ (Again("preclean") \/ (Unwind /\ UNCHANGED <<iter, tries>>))
    BY <1>6 DEF Restock
  <2> QED BY <1>1, <2>1, AgainMoves
<1>7. CASE CleanUp
  BY <1>1, <1>7 DEF CleanUp, GoTo, Stay
<1> QED BY <1>2, <1>3, <1>4, <1>5, <1>6, <1>7

\* What a probe does to the place and the count of its scenario.
LEMMA ProbeMoves ==
  ASSUME Control, Probe
  PROVE  /\ pc = "probe" /\ UNCHANGED todo
         /\ \/ Scen = "baseline" /\ BaselineProbe
            \/ Scen = "resume" /\ Last /\ Iterations > 1 /\ Herd
            \/ Scen = "resume" /\ ~(Last /\ Iterations > 1) /\ TimedWakeProbe
            \/ Scen \notin {"baseline", "resume"} /\ Turn
         /\ BaselineProbe => Again("probe") \/ (Unwind /\ UNCHANGED <<iter, tries>>)
         /\ Herd => pc' = "reprobe" /\ UNCHANGED <<iter, tries>>
         /\ TimedWakeProbe => \/ pc' = "reprobe" /\ UNCHANGED <<iter, tries>>
                              \/ pc' = pc /\ UNCHANGED iter /\ tries' = tries + 1 /\ tries < 3
         /\ Turn => \/ Scen \in Resumes /\ Again("suspend")
                    \/ Scen \notin Resumes /\ pc' = "pause" /\ UNCHANGED <<iter, tries>>
                    \/ Unwind /\ UNCHANGED <<iter, tries>>
<1>1. pc = "probe" /\ UNCHANGED todo
  BY DEF Probe
<1>2. \/ Scen = "baseline" /\ BaselineProbe
      \/ Scen = "resume" /\ Last /\ Iterations > 1 /\ Herd
      \/ Scen = "resume" /\ ~(Last /\ Iterations > 1) /\ TimedWakeProbe
      \/ Scen \notin {"baseline", "resume"} /\ Turn
  BY DEF Probe
<1>3. BaselineProbe => Again("probe") \/ (Unwind /\ UNCHANGED <<iter, tries>>)
  BY DEF BaselineProbe
<1>4. Herd => pc' = "reprobe" /\ UNCHANGED <<iter, tries>>
  BY DEF Herd, GoTo
<1>5. TimedWakeProbe => \/ pc' = "reprobe" /\ UNCHANGED <<iter, tries>>
                        \/ pc' = pc /\ UNCHANGED iter /\ tries' = tries + 1 /\ tries < 3
  BY DEF TimedWakeProbe, GoTo
<1>6. Turn => \/ Scen \in Resumes /\ Again("suspend")
              \/ Scen \notin Resumes /\ pc' = "pause" /\ UNCHANGED <<iter, tries>>
              \/ Unwind /\ UNCHANGED <<iter, tries>>
  BY DEF Turn, GoTo
<1> QED BY <1>1, <1>2, <1>3, <1>4, <1>5, <1>6

LEMMA ControlRequests ==
  ASSUME Control, Setup \/ ForceSuspend \/ Probe \/ Pause \/ Reprobe \/ Reason
  PROVE  Control'
<1> USE StayInScenario
<1>1. pc \notin Outside /\ iter \in 0..Iterations - 1 /\ Scen \notin Signups
  BY DEF Control, Outside, Plain, Setup, ForceSuspend, Probe, Pause, Reprobe, Reason
<1>2. CASE Setup
  <2>1. UNCHANGED <<todo, iter, tries>> /\ pc \in {"warmup", "exempt"}
        /\ \/ Unwind \/ (Scen \in Resumes /\ pc' = "suspend") \/ pc' \in {"exempt", "probe"}
    BY <1>2 DEF Setup, Stay, GoTo
  <2> QED BY <1>1, <2>1
<1>3. CASE ForceSuspend
  <2>1. UNCHANGED <<todo, iter, tries>> /\ pc = "suspend" /\ (Unwind \/ pc' = "probe")
    BY <1>3 DEF ForceSuspend, Stay, GoTo
  <2> QED BY <1>1, <2>1
<1>4. CASE Probe
  <2>1. pc = "probe" /\ UNCHANGED todo
    BY <1>4, ProbeMoves
  <2>2. tries # 0 => Scen = "resume"
    BY <2>1 DEF Control
  <2>3. CASE Scen = "baseline" /\ BaselineProbe
    BY <1>1, <2>1, <2>2, <2>3, <1>4, ProbeMoves, AgainMoves
  <2>4. CASE Scen = "resume" /\ Herd
    BY <1>1, <2>1, <2>4, <1>4, ProbeMoves
  <2>5. CASE Scen = "resume" /\ ~(Last /\ Iterations > 1) /\ TimedWakeProbe
    <3>1. CASE pc' = "reprobe" /\ UNCHANGED <<iter, tries>>
      BY <1>1, <2>1, <2>5, <3>1
    <3>2. CASE pc' = pc /\ UNCHANGED iter /\ tries' = tries + 1 /\ tries < 3
      BY <2>1, <2>5, <3>2 DEF Control, Scen, Last, Plain, Outside
    <3> QED BY <1>4, <2>5, <3>1, <3>2, ProbeMoves
  <2>6. CASE Scen \notin {"baseline", "resume"} /\ Turn
    <3>1. CASE Scen \in Resumes /\ Again("suspend")
      BY <1>1, <2>1, <3>1, AgainMoves
    <3>2. CASE Scen \notin Resumes /\ pc' = "pause" /\ UNCHANGED <<iter, tries>>
      <4>1. tries' = 0
        BY <2>2, <2>6, <3>2
      <4> QED BY <1>1, <2>1, <3>2, <4>1
    <3>3. CASE Unwind /\ UNCHANGED <<iter, tries>>
      <4>1. tries' = 0
        BY <2>2, <2>6, <3>3
      <4> QED BY <1>1, <2>1, <3>3, <4>1
    <3> QED BY <1>4, <2>6, <3>1, <3>2, <3>3, ProbeMoves
  <2> QED BY <1>4, <2>3, <2>4, <2>5, <2>6, ProbeMoves
<1>5. CASE Pause
  <2>1. UNCHANGED todo /\ pc = "pause" /\ (Again("probe") \/ (Unwind /\ UNCHANGED <<iter, tries>>))
    BY <1>5 DEF Pause
  <2> QED BY <1>1, <2>1, AgainMoves
<1>6. CASE Reprobe
  <2>1. UNCHANGED <<todo, iter, tries>> /\ pc = "reprobe" /\ pc' = "reason"
    BY <1>6 DEF Reprobe, Stay, GoTo
  <2> QED BY <1>1, <2>1 DEF Control
<1>7. CASE Reason
  <2>1. UNCHANGED todo /\ pc = "reason" /\ Again("suspend") /\ Scen = "resume"
    BY <1>7 DEF Reason, Control
  <2> QED BY <1>1, <2>1, AgainMoves DEF Resumes
<1> QED BY <1>2, <1>3, <1>4, <1>5, <1>6, <1>7

LEMMA ControlNext ==
  ASSUME Control, [Next]_vars
  PROVE  Control'
<1>1. CASE NextScenario
  <2>1. pc = "next" /\ todo # <<>> /\ iter' = 0 /\ UNCHANGED tries
        /\ \/ todo' = Tail(todo) /\ UNCHANGED pc
           \/ pc' = (IF Scen = "cold" THEN "save" ELSE "preclean") /\ UNCHANGED todo
    BY <1>1 DEF NextScenario, GoTo
  <2> QED BY <2>1, ControlOutside
<1>2. CASE Return \/ Exit \/ Interrupt \/ Kill \/ Waker \/ Others \/ UNCHANGED vars
  BY <1>2, ControlOutside DEF Return, Exit, Interrupt, Kill, Waker, CronWake, CronReason, Others, GoTo, Stay, flowVars, vars
<1> QED BY <1>1, <1>2, ControlPool, ControlUsers, ControlRequests DEF Next, BenchStep


-----------------------------------------------------------------------------
(* What a run has found so far. *)

Result == [end     : {"none", "skipped", "failed", "done"},
           samples : Seq(Nat),
           busy    : 0..AllowedWakeErrors + 1,
           bad     : BOOLEAN]

\* Where an iteration may have its sample.
Sampled == {"delete", "restock", "reprobe", "reason", "pause", "return", "cleanup", "restore", "restocked"}

\* Samples are sorted, at most one an iteration, and a scenario that has not
\* begun has no result.
Results ==
    /\ res \in [Scenarios -> Result]
    /\ \A s \in Scenarios : Sorted(res[s].samples) /\ Len(res[s].samples) <= Iterations
    /\ \A i \in 1..Len(todo) : i > 1 \/ pc = "next" => res[todo[i]] = NoResult
    /\ pc \notin Outside => Len(res[Scen].samples) <= IF pc \in Sampled THEN iter + 1 ELSE iter

\* The result of the running scenario changes: no error is forgotten.
Edited ==
    /\ res' \in [Scenarios -> Result]
    /\ \A s \in Scenarios \ {Scen} : res'[s] = res[s]
    /\ Sorted(res'[Scen].samples)
    /\ res[Scen].bad => res'[Scen].bad
    /\ res[Scen].end = "failed" => res'[Scen].end = "failed"
    /\ res'[Scen].end \in {res[Scen].end, "failed"}

SameSamples == res'[Scen].samples = res[Scen].samples
OneMore     == Len(res'[Scen].samples) = Len(res[Scen].samples) + 1

LEMMA EditType ==
  ASSUME Results, Scen \in Scenarios, NEW r \in Result, Sorted(r.samples),
         res[Scen].bad => r.bad, res[Scen].end = "failed" => r.end = "failed",
         r.end \in {res[Scen].end, "failed"},
         res' = [res EXCEPT ![Scen] = r]
  PROVE  Edited /\ res'[Scen] = r
<1>1. res'[Scen] = r /\ \A s \in Scenarios \ {Scen} : res'[s] = res[s]
  BY DEF Results
<1>2. res' \in [Scenarios -> Result]
  BY DEF Results
<1> QED BY <1>1, <1>2 DEF Edited

LEMMA Edits ==
  ASSUME Results, Scen \in Scenarios
  PROVE  /\ Fail => Edited /\ SameSamples /\ res'[Scen].end = "failed"
         /\ ErrorEvent => Edited /\ SameSamples /\ res'[Scen].bad
         /\ UNCHANGED res => Edited /\ SameSamples
         /\ Sample => Edited /\ OneMore
         /\ \A n \in 0..3, other \in BOOLEAN : Events(n, other) => Edited /\ SameSamples
         /\ res' = [res EXCEPT ![Scen].bad = TRUE, ![Scen].end = "failed"] => Edited /\ SameSamples
<1> DEFINE o == res[Scen]
<1>1. o \in Result /\ res = [s \in Scenarios |-> res[s]] /\ Sorted(o.samples)
  BY DEF Results
<1>2. o.end \in {"none", "skipped", "failed", "done"} /\ o.samples \in Seq(Nat)
      /\ o.busy \in 0..AllowedWakeErrors + 1 /\ o.bad \in BOOLEAN
  BY <1>1 DEF Result
<1>3. Fail => Edited /\ SameSamples /\ res'[Scen].end = "failed"
  <2>1. SUFFICES ASSUME Fail PROVE Edited /\ SameSamples /\ res'[Scen].end = "failed"
    OBVIOUS
  <2> DEFINE r == [o EXCEPT !.end = "failed"]
  <2>2. r \in Result /\ r.samples = o.samples /\ r.bad = o.bad /\ r.end = "failed"
    BY <1>1 DEF Result
  <2>3. res' = [res EXCEPT ![Scen] = r]
    BY <2>1 DEF Fail
  <2> HIDE DEF r
  <2> QED BY <1>1, <2>2, <2>3, EditType DEF SameSamples
<1>4. ErrorEvent => Edited /\ SameSamples /\ res'[Scen].bad
  <2>1. SUFFICES ASSUME ErrorEvent PROVE Edited /\ SameSamples /\ res'[Scen].bad
    OBVIOUS
  <2> DEFINE r == [o EXCEPT !.bad = TRUE]
  <2>2. r \in Result /\ r.samples = o.samples /\ r.bad = TRUE /\ r.end = o.end
    BY <1>1 DEF Result
  <2>3. res' = [res EXCEPT ![Scen] = r]
    BY <2>1 DEF ErrorEvent
  <2> HIDE DEF r
  <2> QED BY <1>1, <2>2, <2>3, EditType DEF SameSamples
<1>5. UNCHANGED res => Edited /\ SameSamples
  BY <1>1 DEF Edited, SameSamples, Results
<1>6. Sample => Edited /\ OneMore
  <2>1. SUFFICES ASSUME NEW l \in Latencies, res' = [res EXCEPT ![Scen].samples = Insert(@, l)]
                 PROVE  Edited /\ OneMore
    BY DEF Sample
  <2> DEFINE new == Insert(o.samples, l)
             r   == [o EXCEPT !.samples = new]
  <2>2. new \in Seq(Nat) /\ Len(new) = Len(o.samples) + 1 /\ Sorted(new)
    BY <1>1, <1>2, LatenciesAssumption, InsertSorts
  <2>3. res' = [res EXCEPT ![Scen] = r]
    BY <2>1
  <2> HIDE DEF new
  <2>4. r \in Result /\ r.samples = new /\ r.bad = o.bad /\ r.end = o.end
    BY <1>1, <2>2 DEF Result
  <2> HIDE DEF r
  <2> QED BY <1>1, <2>2, <2>3, <2>4, EditType DEF OneMore
<1>7. ASSUME NEW n \in 0..3, NEW other \in BOOLEAN, Events(n, other) PROVE Edited /\ SameSamples
  <2> DEFINE k == IF o.busy + n > AllowedWakeErrors THEN AllowedWakeErrors + 1 ELSE o.busy + n
             b == o.bad \/ other
             r == [o EXCEPT !.bad = b, !.busy = k]
  <2>1. k \in 0..AllowedWakeErrors + 1
    <3>1. AllowedWakeErrors \in Nat /\ o.busy \in Nat
      BY <1>2, LimitsAssumption
    <3> QED BY <3>1
  <2>2. b \in BOOLEAN /\ (o.bad => b)
    BY <1>2
  <2>3. res' = [res EXCEPT ![Scen] = r]
    BY <1>7 DEF Events
  <2> HIDE DEF k, b
  <2>4. r \in Result /\ r.samples = o.samples /\ r.bad = b /\ r.end = o.end
    BY <1>1, <2>1, <2>2 DEF Result
  <2> HIDE DEF r
  <2> QED BY <1>1, <2>2, <2>3, <2>4, EditType DEF SameSamples
<1>8. res' = [res EXCEPT ![Scen].bad = TRUE, ![Scen].end = "failed"] => Edited /\ SameSamples
  <2>1. SUFFICES ASSUME res' = [res EXCEPT ![Scen].bad = TRUE, ![Scen].end = "failed"]
                 PROVE  Edited /\ SameSamples
    OBVIOUS
  <2> DEFINE r == [o EXCEPT !.bad = TRUE, !.end = "failed"]
  <2>2. r \in Result /\ r.samples = o.samples /\ r.bad = TRUE /\ r.end = "failed"
    BY <1>1 DEF Result
  <2>3. res' = [res EXCEPT ![Scen] = r]
    BY <1>1, <2>1 DEF Results
  <2> HIDE DEF r
  <2> QED BY <1>1, <2>2, <2>3, EditType DEF SameSamples
<1> QED BY <1>3, <1>4, <1>5, <1>6, <1>7, <1>8


\* A step within a scenario: a sample more only where the iteration has none.
Progress ==
    /\ UNCHANGED todo /\ Edited /\ pc \notin Outside /\ pc' \notin Outside
    /\ \/ SameSamples /\ (iter' = iter + 1 \/ (iter' = iter /\ (pc \in Sampled => pc' \in Sampled)))
       \/ OneMore /\ pc \notin Sampled /\ (iter' = iter + 1 \/ (iter' = iter /\ pc' \in Sampled))

LEMMA UnwindSampled == Unwind => pc' \in Sampled /\ pc' \notin Outside
BY DEF Unwind, GoTo, Sampled, Outside

LEMMA ProgressResults ==
  ASSUME Control, Control', Results, Progress
  PROVE  Results'
<1>1. todo # <<>> /\ Scen' = Scen /\ Scen \in Scenarios /\ Scen = todo[1] /\ pc \notin Outside /\ pc' \notin Outside
  <2>1. todo # <<>>
    BY DEF Control, Progress
  <2> QED BY <2>1, ScenType DEF Progress, Scen
<1>2. res[Scen] \in Result /\ res'[Scen] \in Result
  BY <1>1 DEF Results, Progress, Edited
<1>3. Len(res[Scen].samples) \in Nat /\ Len(res'[Scen].samples) \in Nat
  BY <1>2 DEF Result
<1>4. iter \in 0..Iterations - 1 /\ iter' \in 0..Iterations - 1 /\ Iterations \in Nat
  BY IterationsAssumption DEF Control
<1>5. Len(res'[Scen].samples) <= IF pc' \in Sampled THEN iter' + 1 ELSE iter'
  <2>1. Len(res[Scen].samples) <= IF pc \in Sampled THEN iter + 1 ELSE iter
    BY <1>1 DEF Results
  <2>2. CASE SameSamples
    BY <1>3, <1>4, <2>1, <2>2 DEF Progress, SameSamples, OneMore
  <2>3. CASE OneMore
    BY <1>3, <1>4, <2>1, <2>3 DEF Progress, SameSamples, OneMore
  <2> QED BY <2>2, <2>3 DEF Progress
<1>6. Len(res'[Scen].samples) <= Iterations
  BY <1>3, <1>4, <1>5
<1>7. \A s \in Scenarios : Sorted(res'[s].samples) /\ Len(res'[s].samples) <= Iterations
  <2>1. ASSUME NEW s \in Scenarios \ {Scen} PROVE Sorted(res'[s].samples) /\ Len(res'[s].samples) <= Iterations
    <3>1. res'[s] = res[s]
      BY DEF Progress, Edited
    <3> QED BY <3>1 DEF Results
  <2> QED BY <2>1, <1>6 DEF Progress, Edited
<1>8. \A i \in 1..Len(todo) : i > 1 => res'[todo[i]] = NoResult
  <2>1. SUFFICES ASSUME NEW i \in 1..Len(todo), i > 1 PROVE res'[todo[i]] = NoResult
    OBVIOUS
  <2>2. todo[i] \in Scenarios /\ todo[i] # todo[1]
    <3>1. 1 \in 1..Len(todo) /\ i # 1
      BY <2>1, <1>1
    <3> QED BY <2>1, <3>1 DEF Control
  <2> QED BY <2>1, <2>2, <1>1 DEF Results, Progress, Edited
<1>9. res' \in [Scenarios -> Result] /\ pc' # "next" /\ todo' = todo
  BY DEF Progress, Edited, Outside
<1>10. \A i \in 1..Len(todo') : i > 1 \/ pc' = "next" => res'[todo'[i]] = NoResult
  BY <1>8, <1>9
<1>11. pc' \notin Outside => Len(res'[Scen'].samples) <= IF pc' \in Sampled THEN iter' + 1 ELSE iter'
  BY <1>1, <1>5
<1> QED BY <1>7, <1>9, <1>10, <1>11 DEF Results

LEMMA PoolProgress ==
  ASSUME Control, Results, Save \/ Scale \/ Drain \/ Restore \/ WaitRestocked
  PROVE  Progress
<1> USE Edits DEF Outside, Sampled
<1>1. pc \notin Outside /\ Scen \in Scenarios
  <2>1. pc \notin Outside
    BY DEF Save, Scale, Drain, DrainFails, Restore, WaitRestocked
  <2> QED BY <2>1, ScenType DEF Control
<1>2. CASE Save
  BY <1>1, <1>2 DEF Save, GoTo, Progress
<1>3. CASE Scale
  BY <1>1, <1>3 DEF Scale, GoTo, Stay, Progress
<1>4. CASE Drain
  <2>1. pc \in {"list", "reap", "settle"} /\ pc' \in {"reap", "settle", "preclean", "restore"}
        /\ UNCHANGED <<todo, iter>> /\ (UNCHANGED res \/ Fail)
    BY <1>4 DEF Drain, DrainFails, GoTo
  <2> QED BY <1>1, <2>1 DEF Progress
<1>5. Reported => Edited /\ SameSamples
  BY <1>1 DEF Reported
<1>6. CASE Restore
  BY <1>1, <1>5, <1>6 DEF Restore, GoTo, Stay, Progress
<1>7. CASE WaitRestocked
  BY <1>1, <1>5, <1>7 DEF WaitRestocked, GoTo, Stay, Progress
<1> QED BY <1>2, <1>3, <1>4, <1>6, <1>7

LEMMA UsersProgress ==
  ASSUME Control, Results, PreClean \/ Created \/ CreateFails \/ Delete \/ Restock \/ CleanUp
  PROVE  Progress
<1> USE Edits, UnwindSampled
<1>1. pc \in {"preclean", "create", "delete", "restock", "cleanup"} /\ Scen \in Scenarios
  <2>1. pc \in {"preclean", "create", "delete", "restock", "cleanup"}
    BY DEF PreClean, Created, CreateFails, Delete, Restock, CleanUp
  <2> QED BY <2>1, ScenType DEF Control, Outside
<1>2. CASE PreClean
  <2>1. UNCHANGED <<todo, iter>> /\ ((UNCHANGED res /\ pc' = "create") \/ (Fail /\ Unwind))
    BY <1>2 DEF PreClean, DeleteFails, GoTo, Stay
  <2>2. pc = "preclean"
    BY <1>2 DEF PreClean
  <2> QED BY <1>1, <2>1, <2>2 DEF Progress, Outside, Sampled
<1>3. CASE Created
  <2>1. UNCHANGED <<todo, iter>> /\ pc = "create"
    BY <1>3 DEF Created, Stay
  <2>2. \/ pc' = "delete" /\ \E ready \in BOOLEAN : Classify(ready)
        \/ pc' = "warmup" /\ UNCHANGED res
        \/ pc' = "cleanup" /\ Fail
    BY <1>3 DEF Created, AfterCreate, GoTo
  <2>3. \A ready \in BOOLEAN : Classify(ready) => Edited /\ (SameSamples \/ OneMore)
    BY <1>1 DEF Classify
  <2> QED BY <1>1, <2>1, <2>2, <2>3 DEF Progress, Outside, Sampled
<1>4. CASE CreateFails
  <2>1. UNCHANGED todo /\ pc = "create" /\ (ErrorEvent \/ Fail)
    BY <1>4 DEF CreateFails
  <2>2. \/ Again("preclean")
        \/ (Unwind \/ pc' = "delete") /\ UNCHANGED iter
    BY <1>4 DEF CreateFails, GoTo
  <2> QED BY <1>1, <2>1, <2>2, AgainMoves DEF Progress, Outside, Sampled
<1>5. CASE Delete
  <2>1. UNCHANGED todo /\ pc = "delete" /\ (UNCHANGED res \/ Fail)
    BY <1>5 DEF Delete, DeleteFails
  <2>2. \/ Again("preclean")
        \/ (Unwind \/ pc' = "restock") /\ UNCHANGED iter
    BY <1>5 DEF Delete, DeleteFails, GoTo
  <2> QED BY <1>1, <2>1, <2>2, AgainMoves DEF Progress, Outside, Sampled
<1>6. CASE Restock
  <2>1. UNCHANGED todo /\ pc = "restock" /\ (UNCHANGED res \/ Fail) /\ (Again("preclean") \/ (Unwind /\ UNCHANGED iter))
    BY <1>6 DEF Restock
  <2> QED BY <1>1, <2>1, AgainMoves DEF Progress, Outside, Sampled
<1>7. CASE CleanUp
  BY <1>1, <1>7 DEF CleanUp, GoTo, Stay, Progress, Outside, Sampled
<1> QED BY <1>2, <1>3, <1>4, <1>5, <1>6, <1>7


LEMMA RequestsProgress ==
  ASSUME Control, Results, Setup \/ ForceSuspend \/ Probe \/ Pause \/ Reprobe \/ Reason
  PROVE  Progress
<1> USE Edits, UnwindSampled DEF Sampled, Outside
<1>1. pc \in {"warmup", "exempt", "suspend", "probe", "pause", "reprobe", "reason"} /\ Scen \in Scenarios
  <2>1. pc \in {"warmup", "exempt", "suspend", "probe", "pause", "reprobe", "reason"}
    BY DEF Setup, ForceSuspend, Probe, Pause, Reprobe, Reason
  <2> QED BY <2>1, ScenType DEF Control
<1>a. Events(1, FALSE) => Edited /\ SameSamples
  <2>1. 1 \in 0..3 /\ FALSE \in BOOLEAN
    OBVIOUS
  <2> QED BY <1>1, <2>1, Edits, Zenon
<1>2. CASE Setup
  <2>1. UNCHANGED <<todo, iter>> /\ pc \in {"warmup", "exempt"}
        /\ ((UNCHANGED res /\ pc' \in {"suspend", "exempt", "probe"}) \/ (Fail /\ Unwind))
    BY <1>2 DEF Setup, Stay, GoTo
  <2> QED BY <1>1, <2>1 DEF Progress
<1>3. CASE ForceSuspend
  <2>1. UNCHANGED <<todo, iter>> /\ pc = "suspend" /\ ((UNCHANGED res /\ pc' = "probe") \/ (Fail /\ Unwind))
    BY <1>3 DEF ForceSuspend, Stay, GoTo
  <2> QED BY <1>1, <2>1 DEF Progress
<1>4. CASE Probe
  <2>1. pc = "probe" /\ UNCHANGED todo
    BY <1>4, ProbeMoves
  <2>2. CASE BaselineProbe
    <3>1. \/ (Sample \/ ErrorEvent) /\ Again("probe")
          \/ Fail /\ Unwind /\ UNCHANGED iter
      BY <2>2 DEF BaselineProbe
    <3> QED BY <1>1, <2>1, <3>1, AgainMoves DEF Progress
  <2>3. CASE Herd
    <3>1. pc' = "reprobe" /\ UNCHANGED iter /\ (Sample \/ \E n \in 0..3, other \in BOOLEAN : Events(n, other))
      BY <2>3 DEF Herd, GoTo
    <3> QED BY <1>1, <2>1, <3>1 DEF Progress
  <2>4. CASE TimedWakeProbe
    <3>1. \/ pc' = "reprobe" /\ (Sample \/ UNCHANGED res)
          \/ pc' \in {pc, "reprobe"} /\ (Events(1, FALSE) \/ ErrorEvent)
      BY <2>4 DEF TimedWakeProbe, GoTo
    <3>2. UNCHANGED iter
      BY <2>4 DEF TimedWakeProbe
    <3> QED BY <1>1, <1>a, <2>1, <3>1, <3>2 DEF Progress
  <2>5. CASE Turn
    <3>1. \/ Sample /\ (Again("suspend") \/ (pc' = "pause" /\ UNCHANGED iter))
          \/ res' = [res EXCEPT ![Scen].bad = TRUE, ![Scen].end = "failed"] /\ Unwind /\ UNCHANGED iter
      BY <2>5 DEF Turn, GoTo
    <3>2. res' = [res EXCEPT ![Scen].bad = TRUE, ![Scen].end = "failed"] => Edited /\ SameSamples
      BY <1>1, Edits, Zenon
    <3>3. Sample => Edited /\ OneMore
      BY <1>1, Edits, Zenon
    <3>4. \/ OneMore /\ Edited /\ (Again("suspend") \/ (pc' = "pause" /\ UNCHANGED iter))
          \/ SameSamples /\ Edited /\ Unwind /\ UNCHANGED iter
      BY <3>1, <3>2, <3>3, Zenon
    <3> QED BY <1>1, <2>1, <3>4, AgainMoves DEF Progress
  <2> QED BY <1>4, <2>2, <2>3, <2>4, <2>5, ProbeMoves
<1>5. CASE Pause
  <2>1. UNCHANGED todo /\ pc = "pause" /\ (UNCHANGED res \/ Fail) /\ (Again("probe") \/ (Unwind /\ UNCHANGED iter))
    BY <1>5 DEF Pause
  <2> QED BY <1>1, <2>1, AgainMoves DEF Progress
<1>6. CASE Reprobe
  <2>1. UNCHANGED <<todo, iter>> /\ pc = "reprobe" /\ pc' = "reason"
        /\ (UNCHANGED res \/ Events(1, FALSE) \/ ErrorEvent)
    BY <1>6 DEF Reprobe, Stay, GoTo
  <2> QED BY <1>1, <1>a, <2>1 DEF Progress
<1>7. CASE Reason
  <2>1. UNCHANGED todo /\ pc = "reason" /\ Again("suspend") /\ (UNCHANGED res \/ ErrorEvent)
    BY <1>7 DEF Reason, CheckReason
  <2> QED BY <1>1, <2>1, AgainMoves DEF Progress
<1> QED BY <1>2, <1>3, <1>4, <1>5, <1>6, <1>7

\* Between two scenarios: one ends, or is skipped.
LEMMA ScenarioEnds ==
  ASSUME Control, Results, todo # <<>>, NEW e \in {"skipped", "failed", "done"},
         todo' = Tail(todo), pc' = "next", res' = [res EXCEPT ![Scen].end = e]
  PROVE  Results'
<1> DEFINE r == [res[Scen] EXCEPT !.end = e]
<1>1. Scen \in Scenarios /\ Scen = todo[1] /\ Len(todo) \in Nat \ {0}
      /\ \A i \in 1..Len(todo') : todo'[i] = todo[i + 1] /\ i + 1 \in 1..Len(todo) /\ i + 1 > 1
  BY ScenType
<1>2. res[Scen] \in Result /\ r \in Result /\ r.samples = res[Scen].samples
  <2>1. res[Scen] \in Result
    BY <1>1 DEF Results
  <2> QED BY <2>1 DEF Result
<1>3. res' = [res EXCEPT ![Scen] = r]
  OBVIOUS
<1> HIDE DEF r
<1>4. res'[Scen] = r /\ (\A s \in Scenarios \ {Scen} : res'[s] = res[s]) /\ res' \in [Scenarios -> Result]
  BY <1>1, <1>2, <1>3 DEF Results
<1>5. \A s \in Scenarios : Sorted(res'[s].samples) /\ Len(res'[s].samples) <= Iterations
  BY <1>2, <1>4 DEF Results
<1>6. ASSUME NEW i \in 1..Len(todo') PROVE res'[todo'[i]] = NoResult
  <2>1. todo'[i] = todo[i + 1] /\ i + 1 \in 1..Len(todo) /\ i + 1 > 1 /\ 1 \in 1..Len(todo) /\ i + 1 # 1
    BY <1>1
  <2>2. todo[i + 1] # todo[1] /\ todo[i + 1] \in Scenarios
    BY <2>1 DEF Control
  <2> QED BY <1>1, <1>4, <2>1, <2>2 DEF Results
<1> QED BY <1>4, <1>5, <1>6 DEF Results, Outside

LEMMA ResultsNext ==
  ASSUME Control, Results, [Next]_vars
  PROVE  Results'
<1>a. Control'
  BY ControlNext
<1>1. CASE NextScenario
  <2>1. pc = "next" /\ todo # <<>> /\ iter' = 0
    BY <1>1 DEF NextScenario
  <2>2. CASE pc' = (IF Scen = "cold" THEN "save" ELSE "preclean") /\ UNCHANGED <<res, todo>>
    <3>1. Scen' = Scen /\ Scen = todo[1] /\ 1 \in 1..Len(todo) /\ pc' # "next"
      BY <2>1, <2>2, ScenType DEF Scen
    <3>2. res[Scen] = NoResult
      BY <2>1, <3>1 DEF Results
    <3>3. Len(res[Scen].samples) = 0
      BY <3>2 DEF NoResult
    <3>4. Len(res'[Scen'].samples) <= IF pc' \in Sampled THEN iter' + 1 ELSE iter'
      BY <2>1, <2>2, <3>1, <3>3
    <3> QED BY <2>2, <3>1, <3>4 DEF Results
  <2>3. CASE res' = [res EXCEPT ![Scen].end = "skipped"] /\ todo' = Tail(todo) /\ UNCHANGED pc
    BY <2>1, <2>3, ScenarioEnds
  <2> QED BY <1>1, <2>2, <2>3 DEF NextScenario, GoTo
<1>2. CASE Return
  <2>1. todo # <<>> /\ todo' = Tail(todo) /\ pc' = "next"
    BY <1>2 DEF Return, GoTo, Control, Outside
  <2>2. PICK e \in {"failed", "done"} : res' = [res EXCEPT ![Scen].end = e]
    BY <1>2 DEF Return
  <2> QED BY <2>1, <2>2, ScenarioEnds
<1>3. CASE Exit
  BY <1>3 DEF Exit, GoTo, Results, Outside
<1>4. CASE Kill
  BY <1>4 DEF Kill, GoTo, Stay, Results, Outside
<1>5. CASE Interrupt \/ Waker \/ Others \/ UNCHANGED vars
  BY <1>5 DEF Interrupt, Waker, CronWake, CronReason, Others, flowVars, vars, Results, Scen
<1> QED BY <1>a, <1>1, <1>2, <1>3, <1>4, <1>5, PoolProgress, UsersProgress, RequestsProgress, ProgressResults
        DEF Next, BenchStep


-----------------------------------------------------------------------------
(* The pool and its users. *)

\* The user of the running scenario is one of the benchmark's.
LEMMA UserType ==
  ASSUME Control, todo # <<>>
  PROVE  User \in BenchUsers /\ User \in Users
<1>1. Scen \in Scenarios /\ iter \in 0..Iterations - 1
  BY ScenType DEF Control
<1>2. User \in BenchUsers
  <2>1. CASE Scen \in Signups
    <3>1. User = <<Scen, iter>>
      BY <2>1 DEF User
    <3> QED BY <1>1, <2>1, <3>1 DEF BenchUsers
  <2>2. CASE Scen \notin Signups
    <3>1. User = <<Scen, 0>>
      BY <2>2 DEF User
    <3> QED BY <1>1, <2>2, <3>1 DEF BenchUsers
  <2> QED BY <2>1, <2>2
<1> QED BY <1>2, UsersAssumption

DropList == listed' = {} /\ UNCHANGED <<replicas, seen, spare, ending, home>>
Signup   == (\E b \in Boxes \cup {Own} : Adopt(User, b)) /\ SameSpares

\* What a step does to the pool and its users, and where it may do so.
PoolMoves ==
    \/ SamePool
    \/ Scale /\ SetReplicas(0)
    \/ pc = "restore" /\ SetReplicas(saved)
    \/ pc = "list" /\ ListSpares
    \/ pc = "reap" /\ \E b \in listed : DeleteSpare(b)
    \/ pc \in {"list", "reap", "settle"} /\ DropList
    \/ pc \in {"preclean", "delete", "cleanup"} /\ Deleted
    \/ pc = "create" /\ Signup
    \/ Controller
    \/ GuestStep

LEMMA EveryPoolMove ==
  ASSUME Next
  PROVE  PoolMoves
<1>1. CASE NextScenario \/ Return \/ Exit \/ Save \/ WaitRestocked \/ Restock
           \/ Setup \/ ForceSuspend \/ Probe \/ Pause \/ Reprobe \/ Reason \/ Kill \/ Waker
  <2>1. SamePool
    BY <1>1 DEF NextScenario, Return, Exit, Save, WaitRestocked, Restock, Setup, ForceSuspend, Probe,
                Pause, Reprobe, Reason, Kill, Waker, CronWake, CronReason
  <2> QED BY <2>1 DEF PoolMoves
<1>2. CASE Scale
  <2>1. SamePool \/ SetReplicas(0)
    BY <1>2 DEF Scale
  <2> QED BY <1>2, <2>1 DEF PoolMoves
<1>3. CASE Restore
  <2>1. pc = "restore" /\ (SamePool \/ SetReplicas(saved))
    BY <1>3 DEF Restore
  <2> QED BY <2>1 DEF PoolMoves
<1>4. CASE Drain
  <2>1. \/ SamePool
        \/ pc = "list" /\ ListSpares
        \/ pc = "reap" /\ \E b \in listed : DeleteSpare(b)
        \/ pc \in {"list", "reap", "settle"} /\ DropList
    BY <1>4 DEF Drain, DrainFails, DropList
  <2> QED BY <2>1 DEF PoolMoves
<1>5. CASE PreClean \/ Delete \/ CleanUp
  <2>1. pc \in {"preclean", "delete", "cleanup"} /\ (SamePool \/ Deleted)
    BY <1>5 DEF PreClean, Delete, CleanUp, DeleteFails
  <2> QED BY <2>1 DEF PoolMoves
<1>6. CASE Created \/ CreateFails
  <2>1. pc = "create" /\ (SamePool \/ Signup)
    BY <1>6 DEF Created, CreateFails, Signup
  <2> QED BY <2>1 DEF PoolMoves
<1>7. CASE Interrupt
  BY <1>7 DEF Interrupt, SamePool, PoolMoves
<1>8. CASE Others
  BY <1>8 DEF Others, PoolMoves
<1> QED BY <1>1, <1>2, <1>3, <1>4, <1>5, <1>6, <1>7, <1>8 DEF Next, BenchStep

LEMMA PoolTypes ==
  ASSUME PoolTypeOK, saved \in {0, Replicas}, Next
  PROVE  PoolTypeOK'
<1> USE DEF PoolTypeOK
<1>1. CASE SamePool
  BY <1>1 DEF SamePool, poolVars
<1>2. CASE SetReplicas(0) \/ SetReplicas(saved)
  BY <1>2 DEF SetReplicas
<1>3. CASE ListSpares \/ (\E b \in listed : DeleteSpare(b)) \/ DropList
  BY <1>3 DEF ListSpares, DeleteSpare, DropList
<1>4. CASE Deleted
  BY <1>4 DEF Deleted, Leave, SameSpares
<1>5. CASE Signup
  BY <1>5 DEF Signup, Adopt, SameSpares
<1>6. CASE Controller
  BY <1>6 DEF Controller, Observe, Stock, Reap, Gone
<1>7. CASE GuestStep
  BY <1>7 DEF GuestStep, Adopt, Leave, SameSpares
<1> QED BY EveryPoolMove, <1>1, <1>2, <1>3, <1>4, <1>5, <1>6, <1>7 DEF PoolMoves

\* The rest of the types.
Rest ==
    /\ PoolTypeOK
    /\ required \in SUBSET Scenarios
    /\ access \in {"drain", "keep", "none"} /\ cancelled \in BOOLEAN
    /\ saved \in {0, Replicas} /\ drained \in BOOLEAN
    /\ asleep \in BOOLEAN /\ reason \in {"none", "connect", "cron"}
    /\ waker \in BOOLEAN /\ hybrid \in BOOLEAN
    /\ early \in SUBSET Users /\ stale \in SUBSET Users /\ spoiled \in BOOLEAN
    /\ exit \in 0..3 /\ excuse \in BOOLEAN /\ unrestored \in BOOLEAN

LEMMA RestNext ==
  ASSUME Rest, [Next]_vars
  PROVE  Rest'
<1>1. CASE UNCHANGED vars
  BY <1>1 DEF Rest, PoolTypeOK, vars, poolVars, flowVars, agentVars, histVars
<1>2. CASE Next
  <2>1. PoolTypeOK' /\ early' \in SUBSET Users /\ stale' \in SUBSET Users /\ spoiled' \in BOOLEAN
    <3>1. PoolTypeOK'
      BY <1>2, PoolTypes DEF Rest
    <3> QED BY <1>2, <3>1 DEF Rest, Next, Remember
  <2> USE DEF Rest
  <2>2. CASE NextScenario \/ Return \/ Exit
    <3>1. CASE NextScenario
      BY <2>1, <3>1 DEF NextScenario
    <3>2. CASE Return
      BY <2>1, <3>2 DEF Return, Quiet, agentVars
    <3>3. CASE Exit
      BY <2>1, <3>3 DEF Exit, Quiet, agentVars
    <3> QED BY <2>2, <3>1, <3>2, <3>3
  <2>3. CASE Save \/ Scale \/ Drain \/ Restore \/ WaitRestocked
    <3>1. CASE Save
      BY <2>1, <3>1 DEF Save, Quiet, agentVars, PoolTypeOK
    <3>2. CASE Drain
      <4>1. UNCHANGED <<saved, exit, asleep, reason, waker, hybrid, required, access, cancelled, excuse, unrestored>>
        BY <3>2 DEF Drain, Quiet, agentVars
      <4>2. drained' \in BOOLEAN
        BY <3>2 DEF Drain, DrainFails
      <4> QED BY <2>1, <4>1, <4>2
    <3>3. CASE Scale
      <4>1. UNCHANGED <<saved, drained, exit, asleep, reason, waker, hybrid, required, access, cancelled, excuse>>
            /\ unrestored' \in BOOLEAN
        BY <3>3 DEF Scale, Stay, agentVars
      <4> QED BY <2>1, <4>1
    <3>4. CASE Restore
      <4>1. UNCHANGED <<saved, drained, exit, asleep, reason, waker, hybrid, required, access, cancelled, excuse>>
            /\ unrestored' \in BOOLEAN
        BY <3>4 DEF Restore, Stay, agentVars
      <4> QED BY <2>1, <4>1
    <3>5. CASE WaitRestocked
      BY <2>1, <3>5 DEF WaitRestocked, Stay, Quiet, agentVars
    <3> QED BY <2>3, <3>1, <3>2, <3>3, <3>4, <3>5
  <2>4. CASE PreClean \/ Created \/ CreateFails \/ Delete \/ Restock \/ CleanUp
    <3>1. CASE PreClean
      BY <2>1, <3>1 DEF PreClean, Stay, Quiet, agentVars
    <3>2. CASE Created
      BY <2>1, <3>2 DEF Created, Stay, Quiet, agentVars
    <3>3. CASE CreateFails
      <4>1. UNCHANGED <<saved, drained, exit, asleep, reason, waker, hybrid, required, access, cancelled, unrestored>>
        BY <3>3 DEF CreateFails, agentVars
      <4>2. excuse' \in BOOLEAN
        BY <3>3 DEF CreateFails
      <4> QED BY <2>1, <4>1, <4>2
    <3>4. CASE Delete
      <4>1. UNCHANGED <<saved, drained, exit, asleep, reason, waker, hybrid, required, access, cancelled, unrestored>>
        BY <3>4 DEF Delete, agentVars
      <4>2. excuse' \in BOOLEAN
        BY <3>4 DEF Delete
      <4> QED BY <2>1, <4>1, <4>2
    <3>5. CASE Restock
      BY <2>1, <3>5 DEF Restock, Quiet, agentVars
    <3>6. CASE CleanUp
      <4>1. UNCHANGED <<saved, drained, exit, asleep, reason, waker, hybrid, required, access, cancelled, unrestored>>
        BY <3>6 DEF CleanUp, Stay, agentVars
      <4>2. excuse' \in BOOLEAN
        BY <3>6 DEF CleanUp
      <4> QED BY <2>1, <4>1, <4>2
    <3> QED BY <2>4, <3>1, <3>2, <3>3, <3>4, <3>5, <3>6
  <2>5. CASE Setup \/ ForceSuspend \/ Pause \/ Reprobe \/ Reason
    <3>1. CASE Setup
      BY <2>1, <3>1 DEF Setup, Stay, Quiet, agentVars
    <3>2. CASE ForceSuspend
      <4>1. UNCHANGED <<saved, drained, exit, reason, waker, hybrid, required, access, cancelled, excuse, unrestored>>
        BY <3>2 DEF ForceSuspend, Stay
      <4>2. asleep' \in {asleep, TRUE}
        BY <3>2 DEF ForceSuspend
      <4>3. asleep' \in BOOLEAN /\ reason' \in {"none", "connect", "cron"} /\ {waker, hybrid}' \subseteq BOOLEAN
        BY <4>1, <4>2
      <4> QED BY <2>1, <4>1, <4>3
    <3>3. CASE Pause
      BY <2>1, <3>3 DEF Pause, Quiet, agentVars
    <3>4. CASE Reprobe
      <4>1. UNCHANGED <<saved, drained, exit, waker, hybrid, required, access, cancelled, excuse, unrestored>>
        BY <3>4 DEF Reprobe, Woken, Unreached, Stay
      <4>2. asleep' \in {asleep, FALSE} /\ reason' \in {"connect", reason}
        BY <3>4 DEF Reprobe, Woken, Unreached
      <4>3. asleep' \in BOOLEAN /\ reason' \in {"none", "connect", "cron"} /\ {waker, hybrid}' \subseteq BOOLEAN
        BY <4>1, <4>2
      <4> QED BY <2>1, <4>1, <4>3
    <3>5. CASE Reason
      <4>1. UNCHANGED <<saved, drained, exit, asleep, reason, waker, required, access, cancelled, excuse, unrestored>>
        BY <3>5 DEF Reason
      <4>2. hybrid' \in {hybrid, FALSE}
        BY <3>5 DEF Reason
      <4>3. asleep' \in BOOLEAN /\ reason' \in {"none", "connect", "cron"} /\ {waker, hybrid}' \subseteq BOOLEAN
        BY <4>1, <4>2
      <4> QED BY <2>1, <4>1, <4>3
    <3> QED BY <2>5, <3>1, <3>2, <3>3, <3>4, <3>5
  <2>6. CASE Probe
    <3>1. asleep' \in BOOLEAN /\ reason' \in {"none", "connect", "cron"} /\ waker' \in BOOLEAN
      BY <2>6 DEF Probe, BaselineProbe, TimedWakeProbe, Herd, Turn, Woken, Unreached
    <3>2. hybrid' \in BOOLEAN
      BY <2>6 DEF Probe
    <3> QED BY <2>1, <2>6, <3>1, <3>2 DEF Probe
  <2>7. CASE Interrupt \/ Kill \/ Waker \/ Others
    <3>1. CASE Interrupt
      BY <2>1, <3>1 DEF Interrupt, flowVars, agentVars
    <3>2. CASE Kill
      BY <2>1, <3>2 DEF Kill, Stay, Quiet, agentVars
    <3>3. CASE Waker
      <4>1. UNCHANGED <<saved, drained, exit, hybrid, required, access, cancelled, excuse, unrestored>>
        BY <3>3 DEF Waker, CronWake, CronReason, flowVars
      <4>2. asleep' \in {asleep, FALSE} /\ reason' \in {"cron", reason} /\ waker' \in BOOLEAN
        BY <3>3 DEF Waker, CronWake, CronReason
      <4>3. asleep' \in BOOLEAN /\ reason' \in {"none", "connect", "cron"} /\ {waker, hybrid}' \subseteq BOOLEAN
        BY <4>1, <4>2
      <4> QED BY <2>1, <4>1, <4>3
    <3>4. CASE Others
      BY <2>1, <3>4 DEF Others, flowVars, agentVars
    <3> QED BY <2>7, <3>1, <3>2, <3>3, <3>4
  <2> QED BY <1>2, <2>2, <2>3, <2>4, <2>5, <2>6, <2>7 DEF Next, BenchStep
<1> QED BY <1>1, <1>2


-----------------------------------------------------------------------------
(* The verdict. *)

\* The process reports a clean pass only at its end, uninterrupted and within
\* the budget.
Verdict == exit = 0 => pc = "exit" /\ ~cancelled /\ WithinBudget(res, required)

\* A process that has ended makes no step.
LEMMA Alive ==
  ASSUME Next
  PROVE  pc \notin {"exit", "killed"}
<1>1. CASE NextScenario \/ Return \/ Exit \/ Interrupt \/ Kill \/ Waker \/ Others
  BY <1>1 DEF NextScenario, Return, Exit, Interrupt, Kill, Waker, CronWake, CronReason, Others
<1>2. CASE Save \/ Scale \/ Drain \/ Restore \/ WaitRestocked
  BY <1>2 DEF Save, Scale, Drain, DrainFails, Restore, WaitRestocked
<1>3. CASE PreClean \/ Created \/ CreateFails \/ Delete \/ Restock \/ CleanUp
  BY <1>3 DEF PreClean, Created, CreateFails, Delete, Restock, CleanUp
<1>4. CASE Setup \/ ForceSuspend \/ Probe \/ Pause \/ Reprobe \/ Reason
  BY <1>4 DEF Setup, ForceSuspend, Probe, Pause, Reprobe, Reason
<1> QED BY <1>1, <1>2, <1>3, <1>4 DEF Next, BenchStep

\* The exit code is given by Exit.
LEMMA OnlyExit ==
  ASSUME Next, exit' # exit
  PROVE  Exit
<1>1. CASE NextScenario
  BY <1>1 DEF NextScenario
<1>2. CASE Return
  BY <1>2 DEF Return
<1>3. CASE Save
  BY <1>3 DEF Save
<1>4. CASE Scale
  BY <1>4 DEF Scale, Stay
<1>5. CASE Drain
  BY <1>5 DEF Drain
<1>6. CASE Restore
  BY <1>6 DEF Restore, Stay
<1>7. CASE WaitRestocked
  BY <1>7 DEF WaitRestocked, Stay
<1>8. CASE PreClean
  BY <1>8 DEF PreClean, Stay
<1>9. CASE Created
  BY <1>9 DEF Created, Stay
<1>10. CASE CreateFails
  BY <1>10 DEF CreateFails
<1>11. CASE Delete
  BY <1>11 DEF Delete
<1>12. CASE Restock
  BY <1>12 DEF Restock
<1>13. CASE CleanUp
  BY <1>13 DEF CleanUp, Stay
<1>14. CASE Setup
  BY <1>14 DEF Setup, Stay
<1>15. CASE ForceSuspend
  BY <1>15 DEF ForceSuspend, Stay
<1>16. CASE Probe
  BY <1>16 DEF Probe
<1>17. CASE Pause
  BY <1>17 DEF Pause
<1>18. CASE Reprobe
  BY <1>18 DEF Reprobe, Stay
<1>19. CASE Reason
  BY <1>19 DEF Reason
<1>20. CASE Interrupt
  BY <1>20 DEF Interrupt, flowVars
<1>21. CASE Kill
  BY <1>21 DEF Kill, Stay
<1>22. CASE Waker
  BY <1>22 DEF Waker, CronWake, CronReason, flowVars
<1>23. CASE Others
  BY <1>23 DEF Others, flowVars
<1> QED BY <1>1, <1>2, <1>3, <1>4, <1>5, <1>6, <1>7, <1>8, <1>9, <1>10, <1>11, <1>12, <1>13, <1>14, <1>15, <1>16, <1>17, <1>18, <1>19, <1>20, <1>21, <1>22, <1>23 DEF Next, BenchStep

LEMMA VerdictNext ==
  ASSUME Verdict, [Next]_vars
  PROVE  Verdict'
<1>1. CASE UNCHANGED vars
  BY <1>1 DEF vars, flowVars, Verdict
<1>2. CASE Next
  <2>1. exit # 0
    BY <1>2, Alive DEF Verdict
  <2>2. CASE exit' = exit
    BY <2>1, <2>2 DEF Verdict
  <2>3. CASE Exit
    <3>1. pc' = "exit" /\ UNCHANGED <<res, required, cancelled>>
      BY <2>3 DEF Exit, GoTo, Quiet
    <3>2. exit' = 0 => ~cancelled /\ WithinBudget(res, required)
      BY <2>3 DEF Exit
    <3> QED BY <3>1, <3>2 DEF Verdict
  <2> QED BY <1>2, <2>2, <2>3, OnlyExit
<1> QED BY <1>1, <1>2

RunInv == Control /\ Results /\ Rest /\ Verdict

LEMMA RunInit == Init => RunInv
<1> SUFFICES ASSUME Init PROVE RunInv
  OBVIOUS
<1>1. PICK plan \in Plans : todo = plan.todo /\ required = plan.required /\ access = plan.access
  BY DEF Init
<1>2. Control
  BY <1>1, PlansAssumption, IterationsAssumption DEF Init, Control, ColdOnly, Shared, Plain, Outside
<1>3. Results
  <2>1. NoResult \in Result
    BY LimitsAssumption DEF NoResult, Result
  <2>2. \A s \in Scenarios : res[s] = NoResult
    BY DEF Init
  <2>3. Sorted(NoResult.samples) /\ Len(NoResult.samples) = 0
    BY DEF NoResult, Sorted
  <2>4. \A i \in 1..Len(todo) : res[todo[i]] = NoResult
    BY <1>2, <2>2 DEF Control
  <2>5. pc = "next" /\ res \in [Scenarios -> Result]
    BY <2>1 DEF Init
  <2> QED BY <2>2, <2>3, <2>4, <2>5, IterationsAssumption DEF Results, Outside
<1>4. Rest
  <2>1. PoolTypeOK
    BY PoolAssumption DEF Init, PoolInit, PoolTypeOK
  <2>2. required \in SUBSET Scenarios /\ access \in {"drain", "keep", "none"}
    BY <1>1, PlansAssumption
  <2>3. saved \in {0, Replicas} /\ drained \in BOOLEAN /\ asleep \in BOOLEAN
        /\ reason \in {"none", "connect", "cron"} /\ waker \in BOOLEAN /\ hybrid \in BOOLEAN
    BY DEF Init
  <2>4. early \in SUBSET Users /\ stale \in SUBSET Users /\ spoiled \in BOOLEAN
    BY PoolAssumption DEF Init
  <2>6. excuse \in BOOLEAN /\ unrestored \in BOOLEAN /\ cancelled \in BOOLEAN
    BY DEF Init
  <2>5. exit \in 0..3
    BY DEF Init
  <2> QED BY <2>1, <2>2, <2>3, <2>4, <2>5, <2>6 DEF Rest
<1>5. Verdict
  BY DEF Init, Verdict
<1> QED BY <1>2, <1>3, <1>4, <1>5 DEF RunInv

LEMMA RunNext == RunInv /\ [Next]_vars => RunInv'
BY ControlNext, ResultsNext, RestNext, VerdictNext DEF RunInv

\* The invariant of a run.
THEOREM RunInvariance == Spec => []RunInv
BY RunInit, RunNext, PTL DEF Spec

\* Every variable keeps its type, whatever fails, is interrupted or is killed:
\* no scenario has more samples than iterations.
THEOREM BenchTypes == Spec => []BenchTypeOK
<1>1. RunInv => BenchTypeOK
  BY DEF RunInv, Control, Results, Result, Rest, BenchTypeOK, ColdOnly, Shared, Plain, Outside
<1> QED BY RunInvariance, <1>1, PTL

-----------------------------------------------------------------------------
(* What a clean pass says of the samples. *)

\* A limit that holds for a percentile holds for the samples up to its rank.
LEMMA LimitHolds ==
  ASSUME NEW s \in Seq(Nat), s # <<>>, Sorted(s), NEW m \in Metrics, ~Over(s, m), Limits[m] > 0
  PROVE  \A i \in 1..Len(s) : i <= (m * (Len(s) - 1)) \div 100 + 1 => s[i] <= Limits[m]
<1> DEFINE n  == Len(s)
           lo == (m * (n - 1)) \div 100
           x  == Percentile(s, m)
           l  == Limits[m]
<1>1. m \in 0..100 /\ l \in Nat
  BY LimitsAssumption
<1>2. lo \in 0..n - 1 /\ 100 * s[lo + 1] <= x
  BY <1>1, PercentileIsBetweenRanks DEF Sorted
<1>4. ~(x > 100 * l)
  BY DEF Over
<1>5. n \in Nat /\ \A i \in 1..n : s[i] \in Nat
  OBVIOUS
<1>6. \A i, j \in 1..n : i <= j => s[i] <= s[j]
  BY DEF Sorted
<1>7. x \in Nat
  BY <1>1, PercentileIsBetweenRanks DEF Sorted
<1> HIDE DEF n, lo, x, l
<1>8. s[lo + 1] \in Nat /\ lo + 1 \in 1..n
  BY <1>2, <1>5
<1>9. s[lo + 1] <= l
  BY <1>1, <1>2, <1>4, <1>7, <1>8
<1>10. \A i \in 1..n : i <= lo + 1 => s[i] <= l
  <2>1. SUFFICES ASSUME NEW i \in 1..n, i <= lo + 1 PROVE s[i] <= l
    OBVIOUS
  <2>2. s[i] <= s[lo + 1] /\ s[i] \in Nat
    BY <2>1, <1>5, <1>6, <1>8
  <2> QED BY <2>2, <1>1, <1>8, <1>9
<1> QED BY <1>10 DEF n, lo, l

\* The rank of the median is not below the middle.
LEMMA MiddleRank ==
  ASSUME NEW n \in Nat \ {0}
  PROVE  LET k == (50 * (n - 1)) \div 100 + 1
         IN  k \in 1..n /\ 2 * k >= n
OBVIOUS

\* At least half of the samples are within the limit for the median, and all are
\* within that for the maximum.
LEMMA WithinLimits ==
  ASSUME NEW s \in Seq(Nat), s # <<>>, Sorted(s), \A m \in Metrics : ~Over(s, m)
  PROVE  LET n == Len(s)
             Within(limit) == {i \in 1..n : limit > 0 => s[i] <= limit}
         IN  /\ 2 * Cardinality(Within(Limits[50])) >= n
             /\ Within(Limits[100]) = 1..n
<1> DEFINE n == Len(s)
           Within(limit) == {i \in 1..n : limit > 0 => s[i] <= limit}
           k == (50 * (n - 1)) \div 100 + 1
           W == Within(Limits[50])
<1>1. n \in Nat \ {0} /\ 50 \in Metrics /\ 100 \in Metrics
  BY LimitsAssumption
<1>2. k \in 1..n /\ 2 * k >= n
  BY <1>1, MiddleRank
<1>3. 1..k \in SUBSET W
  <2>1. \A i \in 1..n : i <= k /\ Limits[50] > 0 => s[i] <= Limits[50]
    BY <1>1, LimitHolds
  <2>2. \A i \in 1..k : i \in 1..n /\ i <= k
    <3> HIDE DEF k, n
    <3> QED BY <1>1, <1>2
  <2> HIDE DEF k
  <2> QED BY <2>1, <2>2
<1>4. W \in SUBSET (1..n)
  OBVIOUS
<1> HIDE DEF k, W
<1>5. 2 * Cardinality(W) >= n
  <2> HIDE DEF n
  <2>1. Cardinality(1..k) = k
    BY <1>1, <1>2, FS_Interval
  <2>2. IsFiniteSet(W)
    <3>1. IsFiniteSet(1..n)
      BY <1>1, FS_Interval
    <3> QED BY <1>4, <3>1, FS_Subset
  <2>3. Cardinality(1..k) <= Cardinality(W) /\ Cardinality(W) \in Nat
    BY <1>3, <2>2, FS_Subset, FS_CardinalityType
  <2> QED BY <1>1, <1>2, <2>1, <2>3
<1>6. Within(Limits[100]) = 1..n
  <2>1. \A i \in 1..n : i <= (100 * (n - 1)) \div 100 + 1
    <3> HIDE DEF n
    <3> QED BY <1>1
  <2>2. \A i \in 1..n : i <= (100 * (n - 1)) \div 100 + 1 /\ Limits[100] > 0 => s[i] <= Limits[100]
    BY <1>1, LimitHolds
  <2> QED BY <2>1, <2>2
<1> QED BY <1>5, <1>6 DEF W

\* A clean pass means what the budget says: of each scenario that ran at least
\* half of the samples are within its limit for the median, and all are within
\* that for the maximum (stats.go:37-45, budget.go:97-115).
THEOREM CleanPassSamples == Spec => []CleanPassIsFast
<1>1. RunInv => CleanPassIsFast
  <2>1. SUFFICES ASSUME RunInv, exit = 0, NEW s \in Scenarios, res[s].end = "done"
                 PROVE  LET n == Len(res[s].samples)
                            Within(limit) == {i \in 1..n : limit > 0 => res[s].samples[i] <= limit}
                        IN  /\ 2 * Cardinality(Within(Limits[50])) >= n
                            /\ Within(Limits[100]) = 1..n
    BY DEF CleanPassIsFast
  <2>2. res[s].samples \in Seq(Nat) /\ Sorted(res[s].samples) /\ DOMAIN res = Scenarios
    BY <2>1 DEF RunInv, Results, Result
  <2>3. ~BudgetBroken(res, s)
    BY <2>1, <2>2 DEF RunInv, Verdict, WithinBudget
  <2>4. res[s].samples # <<>> /\ \A m \in Metrics : ~Over(res[s].samples, m)
    BY <2>1, <2>3 DEF BudgetBroken
  <2> DEFINE t == res[s].samples
  <2> HIDE DEF t
  <2> QED BY <2>2, <2>4, WithinLimits DEF t
<1> QED BY RunInvariance, <1>1, PTL

-----------------------------------------------------------------------------
(* What errors leave behind. *)

\* A step is one of the running scenario, or of somebody else, or between two
\* scenarios, or the end.
LEMMA StepKinds ==
  ASSUME Control, Results, Next
  PROVE  \/ Progress
         \/ NextScenario \/ Return \/ Exit \/ Kill
         \/ Interrupt \/ Waker \/ Others
BY PoolProgress, UsersProgress, RequestsProgress DEF Next, BenchStep

\* A scenario is skipped only for a reason, a patch that failed shows in the
\* result of the cold scenario, and so does a drain that failed.
Traced ==
    /\ \A s \in Scenarios : res[s].end = "skipped" => cancelled \/ (s = "cold" /\ access # "drain")
    /\ unrestored => res["cold"].end = "failed" \/ res["cold"].bad
    /\ pc \in {"preclean", "create", "delete"} /\ Scen = "cold" => drained
    /\ pc \in {"restore", "restocked"} => drained \/ res["cold"].end = "failed"

\* Neither an interruption nor the access is taken back, and the flags of the
\* drain change where it does.
LEMMA TraceMoves ==
  ASSUME Control, Next
  PROVE  /\ access' = access /\ (cancelled => cancelled')
         /\ unrestored' # unrestored =>
              \/ Scen = "cold" /\ Scale /\ Fail
              \/ Scen = "cold" /\ Restore /\ Reported
         /\ drained' # drained => NextScenario \/ (pc = "settle" /\ drained')
<1> USE DEF ColdOnly
<1>1. CASE NextScenario \/ Return \/ Exit
  BY <1>1 DEF NextScenario, Return, Exit, Quiet
<1>2. CASE Save \/ WaitRestocked
  BY <1>2 DEF Save, WaitRestocked, Quiet, Stay
<1>3. CASE Scale
  BY <1>3 DEF Scale, Stay, Control
<1>4. CASE Drain
  BY <1>4 DEF Drain, DrainFails, Quiet
<1>5. CASE Restore
  BY <1>5 DEF Restore, Stay, Control
<1>6. CASE PreClean \/ Created \/ Restock \/ CleanUp
  BY <1>6 DEF PreClean, Created, Restock, CleanUp, Stay, Quiet
<1>7. CASE CreateFails
  BY <1>7 DEF CreateFails
<1>8. CASE Delete
  BY <1>8 DEF Delete
<1>9. CASE Setup \/ ForceSuspend \/ Pause \/ Reprobe
  <2>1. CASE Setup
    BY <2>1 DEF Setup, Stay, Quiet
  <2>2. CASE ForceSuspend
    BY <2>2 DEF ForceSuspend, Stay
  <2>3. CASE Pause
    BY <2>3 DEF Pause, Quiet
  <2>4. CASE Reprobe
    BY <2>4 DEF Reprobe, Stay
  <2> QED BY <1>9, <2>1, <2>2, <2>3, <2>4
<1>10. CASE Probe
  BY <1>10 DEF Probe
<1>11. CASE Reason
  BY <1>11 DEF Reason
<1>12. CASE Interrupt \/ Kill \/ Waker \/ Others
  BY <1>12 DEF Interrupt, Kill, Waker, CronWake, CronReason, Others, flowVars, Stay, Quiet
<1> QED BY <1>1, <1>2, <1>3, <1>4, <1>5, <1>6, <1>7, <1>8, <1>9, <1>10, <1>11, <1>12 DEF Next, BenchStep

\* Where the cold scenario comes from: it makes users once it has drained the
\* pool, and restores the pool after them, or after a drain that failed.
LEMMA ColdSteps ==
  ASSUME Control, Next, Scen' = "cold", UNCHANGED todo, pc \notin Outside
  PROVE  /\ pc' \in {"preclean", "create", "delete"} =>
              \/ pc = "settle" /\ drained'
              \/ pc \in {"preclean", "create", "delete"} /\ UNCHANGED drained
         /\ pc' \in {"restore", "restocked"} =>
              \/ pc \in {"list", "reap", "settle"} /\ Fail
              \/ pc \in {"preclean", "create", "delete", "restore"} /\ UNCHANGED drained
              \/ pc' = pc /\ UNCHANGED <<drained, res>>
<1> USE DEF ColdOnly, Shared, Plain, Outside
<1>1. Scen = "cold" /\ Scen \in Signups
  BY DEF Scen, Signups
<1>2. pc \notin Plain
  BY <1>1 DEF Control
<1>3. CASE NextScenario \/ Return \/ Exit \/ Kill
  BY <1>1, <1>3 DEF NextScenario, Return, Exit, Kill, GoTo
<1>4. CASE Save \/ Scale \/ WaitRestocked
  BY <1>4 DEF Save, Scale, WaitRestocked, GoTo
<1>5. CASE Drain
  BY <1>5 DEF Drain, DrainFails, GoTo
<1>6. CASE Restore
  BY <1>6 DEF Restore, GoTo, Stay
<1>7. CASE PreClean
  BY <1>7 DEF PreClean, Stay
<1>8. CASE Created
  BY <1>8 DEF Created, Stay
<1>9. CASE CreateFails
  BY <1>9 DEF CreateFails
<1>10. CASE Delete
  BY <1>10 DEF Delete
<1>11. CASE Interrupt \/ Waker \/ Others
  BY <1>11 DEF Interrupt, Waker, CronWake, CronReason, Others, flowVars
<1>12. ~(Restock \/ CleanUp \/ Setup \/ ForceSuspend \/ Probe \/ Pause \/ Reprobe \/ Reason)
  BY <1>2 DEF Restock, CleanUp, Setup, ForceSuspend, Probe, Pause, Reprobe, Reason
<1> QED BY <1>3, <1>4, <1>5, <1>6, <1>7, <1>8, <1>9, <1>10, <1>11, <1>12 DEF Next, BenchStep

LEMMA TracedNext ==
  ASSUME Control, Results, Traced, [Next]_vars
  PROVE  Traced'
<1> "cold" \in Scenarios
  BY DEF Scenarios
<1>1. CASE UNCHANGED vars
  BY <1>1 DEF vars, flowVars, Traced, Scen
<1>2. CASE Next /\ Progress
  <2>1. Scen' = Scen /\ Scen \in Scenarios /\ UNCHANGED todo /\ Edited /\ pc \notin Outside
    <3>1. todo # <<>>
      BY <1>2 DEF Progress, Control
    <3> QED BY <1>2, <3>1, ScenType DEF Progress, Scen
  <2>2. access' = access /\ (cancelled => cancelled')
    BY <1>2, TraceMoves
  <2>3. \A s \in Scenarios : res'[s].end = "skipped" => cancelled' \/ (s = "cold" /\ access' # "drain")
    <3>1. ASSUME NEW s \in Scenarios, res'[s].end = "skipped" PROVE res[s].end = "skipped"
      BY <2>1, <3>1 DEF Edited
    <3> QED BY <2>2, <3>1 DEF Traced
  <2>4. res["cold"].end = "failed" \/ res["cold"].bad => res'["cold"].end = "failed" \/ res'["cold"].bad
    BY <2>1 DEF Edited
  <2>5. unrestored' => res'["cold"].end = "failed" \/ res'["cold"].bad
    <3>1. CASE unrestored' = unrestored
      BY <2>4, <3>1 DEF Traced
    <3>2. CASE Scen = "cold" /\ Scale /\ Fail
      BY <2>1, <3>2, Edits
    <3>3. CASE Scen = "cold" /\ Restore /\ Reported
      <4>1. CASE drained
        BY <2>1, <3>3, <4>1, Edits DEF Reported
      <4>2. CASE ~drained
        BY <2>4, <3>3, <4>2 DEF Restore, Traced
      <4> QED BY <4>1, <4>2
    <3> QED BY <1>2, <3>1, <3>2, <3>3, TraceMoves
  <2>6. pc' \in {"preclean", "create", "delete"} /\ Scen' = "cold" => drained'
    BY <1>2, <2>1, ColdSteps DEF Traced
  <2>7. pc' \in {"restore", "restocked"} => drained' \/ res'["cold"].end = "failed"
    <3>1. SUFFICES ASSUME pc' \in {"restore", "restocked"} PROVE drained' \/ res'["cold"].end = "failed"
      OBVIOUS
    <3>2. Scen' = "cold" /\ Scen = "cold"
      BY <1>2, <2>1, <3>1, ControlNext DEF Control, ColdOnly
    <3>3. CASE Fail
      BY <2>1, <3>2, <3>3, Edits
    <3>4. CASE pc \in {"preclean", "create", "delete", "restore"} /\ UNCHANGED drained
      <4>1. drained \/ res["cold"].end = "failed"
        BY <3>2, <3>4 DEF Traced
      <4>2. res["cold"].end = "failed" => res'["cold"].end = "failed"
        BY <2>1, <3>2 DEF Edited
      <4> QED BY <3>4, <4>1, <4>2
    <3>5. CASE pc' = pc /\ UNCHANGED <<drained, res>>
      BY <3>1, <3>5 DEF Traced
    <3> QED BY <1>2, <2>1, <3>1, <3>2, <3>3, <3>4, <3>5, ColdSteps
  <2> QED BY <2>3, <2>5, <2>6, <2>7 DEF Traced
<1>3. CASE NextScenario
  <2>1. pc = "next" /\ todo # <<>> /\ UNCHANGED <<access, cancelled, unrestored>>
    BY <1>3 DEF NextScenario
  <2>2. Scen \in Scenarios /\ res[Scen] = NoResult
    <3>1. Scen \in Scenarios /\ Scen = todo[1] /\ 1 \in 1..Len(todo)
      BY <2>1, ScenType
    <3> QED BY <2>1, <3>1 DEF Results
  <2>3. CASE /\ cancelled \/ (Scen = "cold" /\ access # "drain")
             /\ res' = [res EXCEPT ![Scen].end = "skipped"] /\ UNCHANGED pc
    <3>1. \A s \in Scenarios \ {Scen} : res'[s] = res[s]
      BY <2>3 DEF Results
    <3>2. Scen = "cold" => ~unrestored
      BY <2>2 DEF Traced, NoResult
    <3> QED BY <2>1, <2>3, <3>1, <3>2 DEF Traced
  <2>4. CASE pc' = (IF Scen = "cold" THEN "save" ELSE "preclean") /\ UNCHANGED <<res, todo>>
    BY <2>1, <2>4 DEF Traced, Scen
  <2> QED BY <1>3, <2>3, <2>4 DEF NextScenario, GoTo
<1>4. CASE Return
  <2>1. pc' = "next" /\ UNCHANGED <<access, cancelled, unrestored>> /\ Scen \in Scenarios
    <3>1. pc = "return" /\ todo # <<>>
      BY <1>4 DEF Return, Control, Outside
    <3> QED BY <1>4, <3>1, ScenType DEF Return, GoTo, Quiet
  <2>2. PICK e \in {"failed", "done"} : res' = [res EXCEPT ![Scen].end = e] /\ (res[Scen].end = "failed" => e = "failed")
    BY <1>4 DEF Return
  <2>3. \A s \in Scenarios \ {Scen} : res'[s] = res[s]
    BY <2>2 DEF Results
  <2>4. res'[Scen].end = e /\ res'[Scen].bad = res[Scen].bad
    BY <2>1, <2>2 DEF Results, Result
  <2> QED BY <2>1, <2>2, <2>3, <2>4 DEF Traced
<1>5. CASE Exit \/ Kill
  BY <1>5 DEF Exit, Kill, GoTo, Quiet, Stay, Traced
<1>6. CASE Interrupt \/ Waker \/ Others
  BY <1>6 DEF Interrupt, Waker, CronWake, CronReason, Others, flowVars, Traced, Scen
<1> QED BY <1>1, <1>2, <1>3, <1>4, <1>5, <1>6, StepKinds

\* A clean pass is no run cut short and leaves the pool as it was: the scenarios
\* asked for have run, but a cold one that may not drain the pool, and the
\* required ones have samples (main.go:161-168, scenario_new.go:108-116).
THEOREM CleanPassRunsAll == Spec => []CleanPassIsWhole
<1>1. Init => PInv /\ RunInv /\ Traced
  <2>1. Init => Traced
    <3>1. Init => /\ \A s \in Scenarios : res[s] = NoResult
                  /\ unrestored = FALSE /\ pc = "next"
      BY DEF Init
    <3> QED BY <3>1 DEF Traced, NoResult
  <2> QED BY <2>1, BenchInit, RunInit
<1>2. PInv /\ RunInv /\ Traced /\ [Next]_vars => (PInv /\ RunInv /\ Traced)'
  BY BenchNext, RunNext, TracedNext DEF RunInv
<1>3. PInv /\ RunInv /\ Traced => CleanPassIsWhole
  <2>1. SUFFICES ASSUME PInv, RunInv, Traced, exit = 0
                 PROVE  /\ \A s \in Scenarios : res[s].end = "skipped" => s = "cold" /\ access # "drain"
                        /\ \A s \in required : res[s].samples # <<>>
                        /\ replicas = Replicas
    BY DEF CleanPassIsWhole
  <2>2. pc = "exit" /\ ~cancelled /\ WithinBudget(res, required)
    BY <2>1 DEF RunInv, Verdict
  <2>3. \A s \in Scenarios : ~Missing(res, required, s) /\ ~BudgetBroken(res, s) /\ ~ErrorEvents(res, s)
    BY <2>1, <2>2 DEF WithinBudget, RunInv, Results
  <2>4. \A s \in Scenarios : res[s].end = "skipped" => s = "cold" /\ access # "drain"
    BY <2>1, <2>2 DEF Traced
  <2>5. ASSUME NEW s \in required PROVE res[s].samples # <<>>
    <3>1. s \in Scenarios
      BY <2>1 DEF RunInv, Rest
    <3>2. res[s].end \in {"none", "skipped", "failed", "done"}
      BY <2>1, <3>1 DEF RunInv, Results, Result
    <3> QED BY <2>3, <3>1, <3>2 DEF Missing, BudgetBroken
  <2>6. ~unrestored
    <3>1. ~BudgetBroken(res, "cold") /\ ~ErrorEvents(res, "cold")
      BY <2>3 DEF Scenarios
    <3> QED BY <2>1, <3>1 DEF Traced, BudgetBroken, ErrorEvents
  <2>7. replicas = Replicas
    BY <2>1, <2>2, <2>6 DEF PInv, Kept, Held
  <2> QED BY <2>4, <2>5, <2>7
<1> QED BY <1>1, <1>2, <1>3, PTL DEF Spec

-----------------------------------------------------------------------------
(* The wakes that were timed. *)

\* No step takes an error event back.
LEMMA BadStays ==
  ASSUME Control, Results, Next, NEW s \in Scenarios, res[s].bad
  PROVE  res'[s].bad
<1>1. CASE Progress
  BY <1>1 DEF Progress, Edited
<1>2. CASE NextScenario \/ Return
  <2>1. UNCHANGED res \/ \E e \in {"skipped", "failed", "done"} : res' = [res EXCEPT ![Scen].end = e]
    BY <1>2 DEF NextScenario, Return
  <2>2. ASSUME NEW e \in {"skipped", "failed", "done"}, res' = [res EXCEPT ![Scen].end = e]
        PROVE  res'[s].bad
    <3>1. CASE s = Scen
      BY <2>2, <3>1 DEF Results, Result
    <3>2. CASE s # Scen
      BY <2>2, <3>2 DEF Results
    <3> QED BY <3>1, <3>2
  <2> QED BY <2>1, <2>2
<1>3. CASE Exit \/ Kill \/ Interrupt \/ Waker \/ Others
  BY <1>3 DEF Exit, Kill, Interrupt, Waker, CronWake, CronReason, Others, flowVars
<1> QED BY <1>1, <1>2, <1>3, StepKinds

\* A wake timed against an agent that a job had woken on record is an error
\* event, or will be one when the agent is asked for its reason: until then it
\* is awake, so that nobody leaves another reason but the waker of a job.
Timed ==
    hybrid => \/ res["resume"].bad
              \/ pc = "killed"
              \/ pc \in {"reprobe", "reason"} /\ ~asleep /\ reason = "cron"

LEMMA TimedNext ==
  ASSUME Control, Results, Timed, [Next]_vars
  PROVE  Timed'
<1> "resume" \in Scenarios /\ "resume" \in Resumes /\ "resume" \notin Signups
  BY DEF Scenarios, Resumes, Signups
<1>1. CASE UNCHANGED vars
  BY <1>1 DEF vars, flowVars, agentVars, Timed, Scen
<1>2. ASSUME Next, UNCHANGED agentVars, pc \notin {"reprobe", "reason", "killed"}
      PROVE  Timed'
  BY <1>2, BadStays DEF Timed, agentVars
<1>3. ASSUME Save \/ Scale \/ Drain \/ Restore \/ WaitRestocked
      PROVE  UNCHANGED agentVars /\ pc \notin {"reprobe", "reason", "killed"}
  BY <1>3 DEF Save, Scale, Drain, DrainFails, Restore, WaitRestocked, Quiet
<1>6. ASSUME PreClean \/ Created \/ CreateFails \/ Delete \/ Restock \/ CleanUp
      PROVE  UNCHANGED agentVars /\ pc \notin {"reprobe", "reason", "killed"}
  BY <1>6 DEF PreClean, Created, CreateFails, Delete, Restock, CleanUp, Quiet
<1>7. ASSUME Setup \/ Pause
      PROVE  UNCHANGED agentVars /\ pc \notin {"reprobe", "reason", "killed"}
  BY <1>7 DEF Setup, Pause, Quiet
<1>8. CASE Next /\ ForceSuspend
  <2>1. pc = "suspend" /\ hybrid' = hybrid
    BY <1>8 DEF ForceSuspend
  <2> QED BY <1>8, <2>1, BadStays DEF Timed
<1>9. CASE Next /\ Reprobe
  <2>1. pc = "reprobe" /\ pc' = "reason" /\ hybrid' = hybrid /\ (Woken \/ Unreached)
    BY <1>9 DEF Reprobe, GoTo
  <2>2. ~asleep => ~asleep' /\ reason' = reason
    BY <2>1 DEF Woken, Unreached
  <2> QED BY <1>9, <2>1, <2>2, BadStays DEF Timed
<1>10. CASE Next /\ Reason
  <2>1. pc = "reason" /\ Scen = "resume"
    BY <1>10 DEF Reason, Control
  <2>2. hybrid' => hybrid /\ CheckReason
    BY <1>10 DEF Reason
  <2>3. CASE hybrid' /\ reason = "cron"
    <3>1. ErrorEvent
      BY <2>2, <2>3 DEF CheckReason
    <3>2. res'["resume"].bad
      BY <2>1, <3>1, Edits
    <3> QED BY <2>1, <3>2 DEF Timed
  <2>4. CASE hybrid' /\ reason # "cron"
    <3>1. res["resume"].bad
      BY <2>1, <2>2, <2>4 DEF Timed
    <3> QED BY <1>10, <2>1, <3>1, BadStays DEF Timed
  <2>5. CASE ~hybrid'
    BY <2>1, <2>5 DEF Timed
  <2> QED BY <2>3, <2>4, <2>5
<1>11. CASE Next /\ Probe
  <2>1. pc = "probe" /\ UNCHANGED todo /\ Scen' = Scen /\ Scen \in Scenarios
    <3>1. pc = "probe" /\ UNCHANGED todo
      BY <1>11, ProbeMoves
    <3>2. todo # <<>>
      BY <3>1 DEF Control, Outside
    <3> QED BY <3>1, <3>2, ScenType DEF Scen
  <2>2. hybrid' => hybrid \/ (Scen = "resume" /\ ~asleep /\ reason = "cron" /\ ~SameSamples)
    BY <1>11 DEF Probe, SameSamples
  <2>3. hybrid => res'["resume"].bad
    BY <1>11, <2>1, BadStays DEF Timed
  <2>4. CASE Scen # "resume"
    BY <2>1, <2>2, <2>3, <2>4 DEF Timed
  <2>5. CASE Scen = "resume" /\ Last /\ Iterations > 1 /\ Herd
    <3>1. pc' = "reprobe"
      BY <2>5 DEF Herd, GoTo
    <3>3. CASE Woken
      BY <2>1, <2>2, <2>3, <2>5, <3>1, <3>3 DEF Timed, Woken
    <3>4. CASE ~Woken
      <4>1. SameSamples
        BY <2>1, <2>5, <3>4, Edits DEF Herd
      <4> QED BY <2>2, <2>3, <3>1, <4>1 DEF Timed
    <3> QED BY <3>3, <3>4
  <2>6. CASE Scen = "resume" /\ TimedWakeProbe
    <3>a. Events(1, FALSE) => SameSamples
      <4>1. 1 \in 0..3 /\ FALSE \in BOOLEAN
        OBVIOUS
      <4> QED BY <2>1, <4>1, Edits, Zenon
    <3>1. CASE Woken /\ GoTo("reprobe")
      BY <2>1, <2>2, <2>3, <2>6, <3>1 DEF Timed, Woken, GoTo
    <3>2. CASE SameSamples
      BY <2>2, <2>3, <3>2 DEF Timed
    <3>3. (Woken /\ GoTo("reprobe")) \/ SameSamples
      <4>1. ErrorEvent => SameSamples
        BY <2>1, Edits
      <4> QED BY <2>6, <3>a, <4>1 DEF TimedWakeProbe
    <3> QED BY <3>1, <3>2, <3>3
  <2> QED BY <1>11, <2>4, <2>5, <2>6, ProbeMoves
<1>12. CASE Next /\ NextScenario
  <2>1. pc = "next" /\ UNCHANGED hybrid
    BY <1>12 DEF NextScenario
  <2> QED BY <1>12, <2>1, BadStays DEF Timed
<1>13. CASE Next /\ Waker
  <2>1. UNCHANGED <<pc, hybrid>>
    BY <1>13 DEF Waker, CronWake, CronReason, flowVars
  <2>2. ~asleep /\ reason = "cron" => ~asleep' /\ reason' = "cron"
    BY <1>13 DEF Waker, CronWake, CronReason
  <2> QED BY <1>13, <2>1, <2>2, BadStays DEF Timed
<1>14. ASSUME Return \/ Exit
       PROVE  UNCHANGED agentVars /\ pc \notin {"reprobe", "reason", "killed"}
  BY <1>14 DEF Return, Exit, Quiet
<1>15. CASE Kill
  BY <1>15 DEF Kill, GoTo, Quiet, agentVars, Timed
<1>16. CASE Interrupt \/ Others
  BY <1>16 DEF Interrupt, Others, flowVars, agentVars, Timed
<1> QED BY <1>1, <1>2, <1>3, <1>6, <1>7, <1>8, <1>9, <1>10, <1>11, <1>12, <1>13, <1>14, <1>15, <1>16 DEF Next, BenchStep

\* In a clean pass no wake was timed against an agent whose record said that a
\* job had woken it, as far as the benchmark could ask
\* (scenario_resume.go:68-73, lifecycle.go:113-120).
THEOREM CleanPassWakes == Spec => []CleanPassTimedWakes
<1>1. Init => RunInv /\ Timed
  BY RunInit DEF Init, Timed
<1>2. RunInv /\ Timed /\ [Next]_vars => (RunInv /\ Timed)'
  BY RunNext, TimedNext DEF RunInv
<1>3. RunInv /\ Timed => CleanPassTimedWakes
  <2>1. SUFFICES ASSUME RunInv, Timed, exit = 0 PROVE ~hybrid
    BY DEF CleanPassTimedWakes
  <2>2. pc = "exit" /\ WithinBudget(res, required)
    BY <2>1 DEF RunInv, Verdict
  <2>3. ~ErrorEvents(res, "resume")
    BY <2>1, <2>2 DEF WithinBudget, RunInv, Results, Scenarios
  <2> QED BY <2>1, <2>2, <2>3 DEF Timed, ErrorEvents
<1> QED BY <1>1, <1>2, <1>3, PTL DEF Spec

-----------------------------------------------------------------------------
(* The signups of the cold scenario. *)

\* A cold signup that was given a spare is an error event.
Spoilt == spoiled => res["cold"].bad

\* Nobody else brings a user of the benchmark.
LEMMA OthersHomes ==
  ASSUME PoolTypeOK, Controller \/ GuestStep, NEW u \in BenchUsers, home'[u] # NoBox
  PROVE  home[u] # NoBox
<1> u \in Users
  BY UsersAssumption
<1>1. CASE Controller
  <2>1. ASSUME NEW b \in Boxes, home' = [v \in Users |-> IF home[v] = b THEN Lost ELSE home[v]]
        PROVE  home[u] # NoBox
    BY <2>1, PoolAssumption
  <2> QED BY <1>1, <2>1 DEF Controller, Observe, Stock, Reap, Gone
<1>2. CASE GuestStep
  <2>1. PICK g \in Guests : \/ \E b \in Boxes \cup {Own} : Adopt(g, b)
                            \/ Leave(g)
    BY <1>2 DEF GuestStep
  <2>2. g # u
    BY <2>1 DEF Guests
  <2>3. home'[u] = home[u]
    BY <2>1, <2>2 DEF Adopt, Leave, PoolTypeOK
  <2> QED BY <2>3
<1> QED BY <1>1, <1>2

\* It is, whether the creation was answered or not.
LEMMA SpoiltAtOnce ==
  ASSUME Control, Results, PoolTypeOK, Next,
         pc = "create", Scen = "cold", home[User] = NoBox, home'[User] \in Boxes
  PROVE  res'["cold"].bad
<1>1. User \in BenchUsers /\ home'[User] # NoBox
  BY UserType, PoolAssumption DEF Control, Outside
<1>2. ~(Interrupt \/ Kill \/ Waker)
  BY <1>1 DEF Interrupt, Kill, Waker, CronWake, CronReason, SamePool, poolVars
<1>3. ~Others
  BY <1>1, OthersHomes DEF Others
<1>4. ~(NextScenario \/ Return \/ Exit \/ Save \/ Scale \/ Drain \/ Restore \/ WaitRestocked)
  BY DEF NextScenario, Return, Exit, Save, Scale, Drain, DrainFails, Restore, WaitRestocked
<1>5. ~(PreClean \/ Delete \/ Restock \/ CleanUp)
  BY DEF PreClean, Delete, Restock, CleanUp
<1>6. ~(Setup \/ ForceSuspend \/ Probe \/ Pause \/ Reprobe \/ Reason)
  BY DEF Setup, ForceSuspend, Probe, Pause, Reprobe, Reason
<1>7. Created \/ CreateFails
  BY <1>2, <1>3, <1>4, <1>5, <1>6 DEF Next, BenchStep
<1>8. Created => ErrorEvent
  BY DEF Created, Classify, FromPool, Signups
<1>9. CreateFails => ErrorEvent
  BY DEF CreateFails
<1> QED BY <1>7, <1>8, <1>9, Edits DEF Scenarios

LEMMA SpoiltNext ==
  ASSUME Control, Results, PoolTypeOK, Spoilt, [Next]_vars
  PROVE  Spoilt'
<1>1. CASE UNCHANGED vars
  BY <1>1 DEF vars, flowVars, histVars, Spoilt
<1>2. CASE Next /\ spoiled
  BY <1>2, BadStays DEF Spoilt, Scenarios
<1>3. CASE Next /\ ~spoiled
  BY <1>3, SpoiltAtOnce DEF Spoilt, Next, Remember
<1> QED BY <1>1, <1>2, <1>3

\* In a clean pass no signup of the cold scenario was given a spare: one that a
\* controller behind the times made after the drain shows in the exit code,
\* whatever came of that signup (scenario_new.go:138-140, pool.go:110-128).
THEOREM CleanPassCold == Spec => []CleanPassIsCold
<1>1. Init => RunInv /\ Spoilt
  BY RunInit DEF Init, Spoilt
<1>2. RunInv /\ Spoilt /\ [Next]_vars => (RunInv /\ Spoilt)'
  BY RunNext, SpoiltNext DEF RunInv, Rest
<1>3. RunInv /\ Spoilt => CleanPassIsCold
  <2>1. SUFFICES ASSUME RunInv, Spoilt, exit = 0 PROVE ~spoiled
    BY DEF CleanPassIsCold
  <2>2. WithinBudget(res, required)
    BY <2>1 DEF RunInv, Verdict
  <2>3. ~ErrorEvents(res, "cold")
    BY <2>1, <2>2 DEF WithinBudget, RunInv, Results, Scenarios
  <2> QED BY <2>1, <2>3 DEF Spoilt, ErrorEvents
<1> QED BY <1>1, <1>2, <1>3, PTL DEF Spec

-----------------------------------------------------------------------------
(* The users of the benchmark. *)

\* Where the running scenario has its user, who is deleted on the way out.
Hosting == {"delete", "warmup", "exempt", "suspend", "probe", "reprobe", "reason", "pause", "cleanup"}

\* Unless a call has failed, there is no user but that of the running scenario,
\* and those of an earlier run that it has not come to.
Homes ==
    \/ excuse
    \/ pc = "killed"
    \/ \A u \in BenchUsers : home[u] # NoBox => (u = User /\ pc \in Hosting) \/ u \in stale

\* Only a creation brings a user of the benchmark.
LEMMA HomeMoves ==
  ASSUME Control, PoolTypeOK, Next, NEW u \in BenchUsers, home'[u] # NoBox
  PROVE  home[u] # NoBox \/ (pc = "create" /\ u = User)
<1> u \in Users
  BY UsersAssumption
<1>1. CASE UNCHANGED home
  BY <1>1
<1>2. ASSUME NEW b \in Boxes, home' = [v \in Users |-> IF home[v] = b THEN Lost ELSE home[v]]
      PROVE  home[u] # NoBox
  BY <1>2, PoolAssumption
<1>3. CASE pc = "create" /\ Signup
  BY <1>3 DEF Signup, Adopt, PoolTypeOK
<1>4. CASE Deleted
  BY <1>4 DEF Deleted, Leave, PoolTypeOK
<1>5. CASE Controller \/ GuestStep
  BY <1>5, OthersHomes
<1>6. CASE pc = "reap" /\ \E b \in listed : DeleteSpare(b)
  BY <1>2, <1>6 DEF DeleteSpare, PoolTypeOK
<1>7. CASE SamePool \/ SetReplicas(0) \/ SetReplicas(saved) \/ ListSpares \/ DropList
  BY <1>1, <1>7 DEF SamePool, poolVars, SetReplicas, ListSpares, DropList
<1> QED BY <1>3, <1>4, <1>5, <1>6, <1>7, EveryPoolMove DEF PoolMoves

\* A deletion takes the user of the scenario.
LEMMA UserLeaves ==
  ASSUME PoolTypeOK, Deleted, NEW u \in BenchUsers, home'[u] # NoBox
  PROVE  u # User /\ home[u] # NoBox
BY UsersAssumption DEF Deleted, Leave, PoolTypeOK

\* A request leaves its user to a later request, or to the clean-up.
LEMMA RequestHosts ==
  ASSUME Control, Setup \/ ForceSuspend \/ Probe \/ Pause \/ Reprobe \/ Reason
  PROVE  pc' \in Hosting /\ User' = User /\ UNCHANGED excuse
<1> USE DEF Hosting
<1>1. Scen \notin Signups /\ pc \notin {"preclean", "create"} /\ UNCHANGED todo /\ UNCHANGED excuse
  <2>1. CASE Setup \/ Pause
    BY <2>1 DEF Setup, Pause, Stay, Quiet, Control, Plain
  <2>2. CASE ForceSuspend
    BY <2>2 DEF ForceSuspend, Stay, Control, Plain
  <2>3. CASE Probe \/ Reason
    BY <2>3 DEF Probe, Reason, Control, Plain
  <2>4. CASE Reprobe
    BY <2>4 DEF Reprobe, Stay, Control, Plain
  <2> QED BY <2>1, <2>2, <2>3, <2>4
<1>2. User' = User
  BY <1>1 DEF User, Scen
<1>3. Unwind => pc' = "cleanup"
  BY <1>1 DEF Unwind, GoTo, Signups
<1>4. \A first : Again(first) => pc' \in {first, "cleanup"}
  BY <1>3 DEF Again, GoTo
<1>5. CASE Setup
  BY <1>1, <1>2, <1>3, <1>5 DEF Setup, GoTo
<1>6. CASE ForceSuspend
  BY <1>1, <1>2, <1>3, <1>6 DEF ForceSuspend, GoTo
<1>7. CASE Probe
  <2>1. pc' \in {"probe", "reprobe", "suspend", "pause", "cleanup"}
    BY <1>3, <1>4, <1>7, ProbeMoves
  <2> QED BY <1>1, <1>2, <2>1
<1>8. CASE Pause
  BY <1>1, <1>2, <1>3, <1>4, <1>8 DEF Pause
<1>9. CASE Reprobe
  BY <1>1, <1>2, <1>9 DEF Reprobe, GoTo
<1>10. CASE Reason
  BY <1>1, <1>2, <1>4, <1>10 DEF Reason
<1> QED BY <1>5, <1>6, <1>7, <1>8, <1>9, <1>10

LEMMA HomesNext ==
  ASSUME Control, Results, PoolTypeOK, Homes, [Next]_vars
  PROVE  Homes'
<1> USE DEF Hosting
<1>1. CASE UNCHANGED vars
  BY <1>1 DEF vars, poolVars, flowVars, histVars, Homes, User, Scen
<1>2. CASE Kill
  BY <1>2 DEF Kill, GoTo, Homes
<1>3. CASE CreateFails
  BY <1>3 DEF CreateFails, Homes
<1>4. CASE excuse /\ Next
  <2>1. \/ UNCHANGED excuse \/ excuse'
    <3>1. CASE NextScenario \/ Return \/ Exit \/ Save \/ Drain \/ Restock \/ Pause
      BY <3>1 DEF NextScenario, Return, Exit, Save, Drain, Restock, Pause, Quiet
    <3>2. CASE Scale \/ Restore
      BY <3>2 DEF Scale, Restore
    <3>3. CASE WaitRestocked \/ PreClean \/ Created
      BY <3>3 DEF WaitRestocked, PreClean, Created, Quiet
    <3>4. CASE CreateFails
      BY <3>4 DEF CreateFails
    <3>5. CASE Delete
      BY <3>5 DEF Delete
    <3>6. CASE CleanUp
      BY <3>6 DEF CleanUp
    <3>7. CASE Interrupt \/ Kill \/ Waker \/ Others
      BY <3>7 DEF Interrupt, Kill, Waker, CronWake, CronReason, Others, Quiet
    <3> QED BY <1>4, <3>1, <3>2, <3>3, <3>4, <3>5, <3>6, <3>7, RequestHosts DEF Next, BenchStep
  <2> QED BY <1>4, <2>1 DEF Homes
<1>5. ASSUME Next, ~excuse, NEW u \in BenchUsers, home[u] # NoBox, home'[u] # NoBox
      PROVE  (u = User /\ pc \in Hosting) \/ u \in stale'
  <2>1. pc # "killed"
    BY <1>5, Alive
  <2>2. u \in stale => u \in stale'
    BY <1>5 DEF Next, Remember
  <2> QED BY <1>5, <2>1, <2>2 DEF Homes
<1>6. CASE ~excuse /\ Next /\ (Interrupt \/ Waker \/ Others)
  <2>1. UNCHANGED <<pc, todo, iter>>
    BY <1>6 DEF Interrupt, Waker, CronWake, CronReason, Others, flowVars
  <2>2. pc' = pc /\ User' = User
    BY <2>1 DEF User, Scen
  <2>3. ASSUME NEW u \in BenchUsers, home'[u] # NoBox PROVE home[u] # NoBox
    <3>1. CASE Interrupt \/ Waker
      BY <2>3, <3>1 DEF Interrupt, Waker, CronWake, CronReason, SamePool, poolVars
    <3>2. CASE Others
      BY <2>3, <3>2, OthersHomes DEF Others
    <3> QED BY <1>6, <3>1, <3>2
  <2> QED BY <1>5, <1>6, <2>2, <2>3 DEF Homes
<1>7. CASE ~excuse /\ Next /\ (Setup \/ ForceSuspend \/ Probe \/ Pause \/ Reprobe \/ Reason)
  <2>1. pc' \in Hosting /\ User' = User
    BY <1>7, RequestHosts
  <2>2. pc # "create"
    BY <1>7 DEF Setup, ForceSuspend, Probe, Pause, Reprobe, Reason
  <2> QED BY <1>5, <1>7, <2>1, <2>2, HomeMoves DEF Homes
<1>8. CASE ~excuse /\ Next /\ (Delete \/ CleanUp)
  <2>1. excuse' \/ Deleted
    BY <1>8 DEF Delete, CleanUp
  <2> QED BY <1>5, <1>8, <2>1, UserLeaves DEF Homes
<1>9. CASE ~excuse /\ Next /\ Created
  <2>1. pc = "create" /\ UNCHANGED <<todo, iter>> /\ pc' \in {"delete", "warmup", "cleanup"}
    BY <1>9 DEF Created, AfterCreate, GoTo, Stay
  <2>2. User' = User
    BY <2>1 DEF User, Scen
  <2> QED BY <1>5, <1>9, <2>1, <2>2, HomeMoves DEF Homes
<1>10. CASE ~excuse /\ Next /\ (NextScenario \/ Return \/ Exit \/ Save \/ Scale \/ Drain \/ Restore
                                \/ WaitRestocked \/ PreClean \/ Restock)
  <2>1. pc \notin Hosting /\ pc # "create"
    <3>1. CASE NextScenario \/ Return \/ Exit \/ PreClean \/ Restock
      BY <3>1 DEF NextScenario, Return, Exit, PreClean, Restock
    <3>2. CASE Save \/ Scale \/ Drain \/ Restore \/ WaitRestocked
      BY <3>2 DEF Save, Scale, Drain, DrainFails, Restore, WaitRestocked
    <3> QED BY <1>10, <3>1, <3>2
  <2> QED BY <1>5, <1>10, <2>1, HomeMoves DEF Homes
<1> QED BY <1>1, <1>2, <1>3, <1>4, <1>6, <1>7, <1>8, <1>9, <1>10 DEF Next, BenchStep

\* A benchmark that ends by itself leaves no user behind, neither its own nor
\* one of an earlier run that it has deleted to begin with, unless it was
\* interrupted, or a creation or a deletion has failed
\* (scenario.go:112-113, benchmarks/README.md:62-63).
THEOREM NoUserLeft == Spec => []UsersGone
<1>1. Init => RunInv /\ Homes
  <2>1. Init => \A u \in Users : home[u] # NoBox => u \in stale
    BY DEF Init, PoolInit
  <2> QED BY <2>1, RunInit, UsersAssumption DEF Homes
<1>2. RunInv /\ Homes /\ [Next]_vars => (RunInv /\ Homes)'
  BY RunNext, HomesNext DEF RunInv, Rest
<1>3. Homes => UsersGone
  BY DEF Homes, Hosting, UsersGone
<1> QED BY <1>1, <1>2, <1>3, PTL DEF Spec

-----------------------------------------------------------------------------
(* The drain and the users of the pool. *)

\* The cold scenario is still to come, or has not scaled the pool yet.
Awaited == \E i \in 1..Len(todo) : todo[i] = "cold" /\ (i > 1 \/ pc \in {"next", "save", "scale"})

\* Until then the pool is as its controller keeps it: no box ends.
Undrained ==
    Awaited => /\ replicas = Replicas /\ seen = Replicas
               /\ ending = {} /\ listed = {}
               /\ Cardinality(spare) <= Replicas

\* Nobody lives in a spare; and who lived in a box when the drain began, lives
\* in it where no deletion comes.
Residents ==
    /\ \A u \in Users : home[u] \notin spare
    /\ \A u \in early : home[u] \in Boxes \ (spare \cup ending \cup listed)

\* How the cold scenario comes to its first steps.
LEMMA ColdStarts ==
  ASSUME Control, Next, todo # <<>>, UNCHANGED todo, Scen = "cold", pc' \in {"next", "save", "scale"}
  PROVE  pc \in {"next", "save", "scale"} /\ ~Scale
<1> USE DEF ColdOnly, Shared, Plain, Outside
<1>1. pc \notin Plain /\ Scen \in Signups
  BY DEF Control, Signups
<1>2. Unwind => pc' = "restore"
  BY DEF Unwind, GoTo
<1>3. \A first : Again(first) => pc' \in {first, "restore"}
  BY <1>2 DEF Again, GoTo
<1>4. ~Return
  <2>1. Tail(todo) # todo
    <3> DEFINE n == Len(todo)
               m == Len(Tail(todo))
    <3>1. m = n - 1 /\ n \in Nat
      BY ScenType
    <3>2. m # n
      <4> HIDE DEF m, n
      <4> QED BY <3>1
    <3> QED BY <3>2, Zenon
  <2> QED BY <2>1 DEF Return
<1>5. ~(Exit \/ Kill)
  BY DEF Exit, Kill, GoTo
<1>6. ~(Scale \/ Restore \/ WaitRestocked)
  BY DEF Scale, Restore, WaitRestocked, GoTo
<1>7. Drain => FALSE
  BY DEF Drain, DrainFails, GoTo
<1>8. ~(PreClean \/ Created)
  BY <1>1, <1>2 DEF PreClean, DeleteFails, Created, AfterCreate, GoTo
<1>9. ~CreateFails
  <2>1. CreateFails => Again("preclean") \/ pc' = "delete" \/ Unwind
    BY DEF CreateFails, GoTo
  <2> QED BY <1>2, <1>3, <2>1
<1>10. ~Delete
  <2>1. Delete => Again("preclean") \/ pc' = "restock" \/ Unwind
    BY DEF Delete, DeleteFails, GoTo
  <2> QED BY <1>2, <1>3, <2>1
<1>11. ~(Restock \/ CleanUp \/ Setup \/ ForceSuspend \/ Probe \/ Pause \/ Reprobe \/ Reason)
  BY <1>1 DEF Restock, CleanUp, Setup, ForceSuspend, Probe, Pause, Reprobe, Reason
<1>12. CASE NextScenario \/ Save
  BY <1>6, <1>12 DEF NextScenario, Save
<1>13. CASE Interrupt \/ Waker \/ Others
  BY <1>6, <1>13 DEF Interrupt, Waker, CronWake, CronReason, Others, flowVars
<1> QED BY <1>4, <1>5, <1>6, <1>7, <1>8, <1>9, <1>10, <1>11, <1>12, <1>13 DEF Next, BenchStep

\* While the cold scenario is awaited it was so before, and nothing drains.
LEMMA AwaitedBefore ==
  ASSUME Control, Next, Awaited'
  PROVE  Awaited /\ ~Scale /\ pc \notin {"list", "reap", "settle", "restore"}
<1>1. CASE UNCHANGED todo
  <2>1. PICK i \in 1..Len(todo) : todo[i] = "cold" /\ (i > 1 \/ pc' \in {"next", "save", "scale"})
    BY <1>1 DEF Awaited
  <2>2. todo # <<>> /\ Scen = todo[1] /\ 1 \in 1..Len(todo)
    BY <2>1, ScenType DEF Control
  <2>3. CASE i > 1
    <3>1. Scen # "cold"
      BY <2>1, <2>2, <2>3 DEF Control
    <3>2. pc \notin ColdOnly
      BY <3>1 DEF Control
    <3> QED BY <2>1, <2>3, <3>2 DEF Awaited, ColdOnly, Scale
  <2>4. CASE i = 1
    <3>1. pc \in {"next", "save", "scale"} /\ ~Scale
      BY <1>1, <2>1, <2>2, <2>4, ColdStarts
    <3> QED BY <2>1, <3>1 DEF Awaited
  <2> QED BY <2>1, <2>3, <2>4
<1>2. CASE todo' = Tail(todo) /\ pc \in {"next", "return"} /\ todo # <<>>
  <2>1. PICK i \in 1..Len(todo') : todo'[i] = "cold"
    BY DEF Awaited
  <2>2. todo[i + 1] = "cold" /\ i + 1 \in 1..Len(todo) /\ i + 1 > 1
    BY <1>2, <2>1, ScenType
  <2> QED BY <1>2, <2>2 DEF Awaited, Scale
<1>3. CASE NextScenario \/ Return
  BY <1>1, <1>2, <1>3 DEF NextScenario, Return, Control, Outside
<1>4. CASE Save \/ Scale \/ Drain \/ Restore \/ WaitRestocked
  BY <1>1, <1>4 DEF Save, Scale, Drain, Restore, WaitRestocked, Stay
<1>5. CASE PreClean \/ Created \/ CreateFails \/ Delete \/ Restock \/ CleanUp
  BY <1>1, <1>5 DEF PreClean, Created, CreateFails, Delete, Restock, CleanUp, Stay
<1>6. CASE Setup \/ ForceSuspend \/ Probe \/ Pause \/ Reprobe \/ Reason
  BY <1>1, <1>6 DEF Setup, ForceSuspend, Probe, Pause, Reprobe, Reason, Stay
<1>7. CASE Exit \/ Interrupt \/ Kill \/ Waker \/ Others
  BY <1>1, <1>7 DEF Exit, Interrupt, Kill, Waker, CronWake, CronReason, Others, flowVars, Stay
<1> QED BY <1>3, <1>4, <1>5, <1>6, <1>7 DEF Next, BenchStep

LEMMA UndrainedNext ==
  ASSUME Control, PoolTypeOK, Undrained, [Next]_vars
  PROVE  Undrained'
<1>1. CASE UNCHANGED vars
  BY <1>1 DEF vars, poolVars, flowVars, Undrained, Awaited
<1>2. CASE Next /\ Awaited'
  <2>1. ~Scale /\ pc \notin {"list", "reap", "settle", "restore"}
    BY <1>2, AwaitedBefore
  <2>2. replicas = Replicas /\ seen = Replicas /\ ending = {} /\ listed = {} /\ Cardinality(spare) <= Replicas
    BY <1>2, AwaitedBefore DEF Undrained
  <2>3. Replicas \in Nat /\ IsFiniteSet(spare) /\ Cardinality(spare) \in Nat
    BY PoolAssumption, FS_Subset, FS_CardinalityType DEF PoolTypeOK
  <2>4. ReadySpares = Cardinality(spare)
    <3>1. spare \ ending = spare
      BY <2>2
    <3> QED BY <3>1 DEF ReadySpares
  <2>5. CASE SamePool
    BY <2>2, <2>5 DEF SamePool, poolVars, Undrained
  <2>6. CASE Deleted
    BY <2>2, <2>6 DEF Deleted, SameSpares, Undrained
  <2>7. ASSUME NEW u, NEW b, Adopt(u, b), SameSpares PROVE Undrained'
    <3>1. Cardinality(spare \ {b}) <= Cardinality(spare) /\ Cardinality(spare \ {b}) \in Nat
      BY <2>3, FS_Subset, FS_CardinalityType
    <3>2. spare' = spare \ {b}
      BY <2>7 DEF Adopt
    <3> QED BY <2>2, <2>3, <2>7, <3>1, <3>2 DEF SameSpares, Undrained
  <2>8. CASE Signup
    BY <2>7, <2>8 DEF Signup
  <2>9. CASE GuestStep
    <3>1. CASE spare' = spare /\ SameSpares
      BY <2>2, <3>1 DEF SameSpares, Undrained
    <3> QED BY <2>7, <2>9, <3>1 DEF GuestStep
  <2>10. CASE Controller
    <3>1. ~Observe
      BY <2>2 DEF Observe
    <3>2. \A b \in Boxes : ~Gone(b)
      BY <2>2 DEF Gone
    <3>3. \A b \in Boxes : ~Reap(b)
      BY <2>2, <2>3, <2>4 DEF Reap
    <3>4. ASSUME NEW b \in Boxes, Stock(b) PROVE Undrained'
      <4>1. spare' = spare \cup {b} /\ Cardinality(spare) < Replicas /\ UNCHANGED <<replicas, seen, ending, listed>>
        BY <2>2, <2>4, <3>4 DEF Stock
      <4>2. Cardinality(spare \cup {b}) \in {Cardinality(spare), Cardinality(spare) + 1}
        BY <2>3, FS_AddElement
      <4> QED BY <2>2, <2>3, <4>1, <4>2 DEF Undrained
    <3> QED BY <2>10, <3>1, <3>2, <3>3, <3>4 DEF Controller
  <2> QED BY <1>2, <2>1, <2>5, <2>6, <2>8, <2>9, <2>10, EveryPoolMove DEF PoolMoves
<1>3. CASE ~Awaited'
  BY <1>3 DEF Undrained
<1> QED BY <1>1, <1>2, <1>3

\* Who lives in a box that no deletion comes to, stays or leaves by himself.
LEMMA Stays ==
  ASSUME PoolTypeOK, PoolMoves, NEW u \in Users,
         home[u] \in Boxes \ (spare \cup ending \cup listed), home'[u] # NoBox
  PROVE  home'[u] \in Boxes \ (spare' \cup ending' \cup listed')
<1>1. home[u] # NoBox
  BY PoolAssumption
<1>2. CASE SamePool \/ SetReplicas(0) \/ SetReplicas(saved) \/ ListSpares \/ DropList
  BY <1>2 DEF SamePool, poolVars, SetReplicas, ListSpares, DropList
<1>3. ASSUME NEW b \in listed, DeleteSpare(b) PROVE home'[u] \in Boxes \ (spare' \cup ending' \cup listed')
  BY <1>3 DEF DeleteSpare
<1>4. CASE Deleted
  <2>1. u # User
    BY <1>4 DEF Deleted, Leave, PoolTypeOK
  <2> QED BY <1>4, <2>1 DEF Deleted, Leave, SameSpares, PoolTypeOK
<1>5. ASSUME NEW v, NEW b, Adopt(v, b), SameSpares
      PROVE  home'[u] \in Boxes \ (spare' \cup ending' \cup listed')
  <2>1. u # v
    BY <1>1, <1>5 DEF Adopt
  <2> QED BY <1>5, <2>1 DEF Adopt, SameSpares, PoolTypeOK
<1>6. CASE GuestStep
  <2>1. PICK g \in Guests : \/ \E b \in Boxes \cup {Own} : Adopt(g, b)
                            \/ Leave(g) /\ UNCHANGED spare
    BY <1>6 DEF GuestStep
  <2>2. g \in Users /\ SameSpares
    BY <1>6 DEF GuestStep, Guests
  <2>3. CASE Leave(g) /\ UNCHANGED spare
    BY <2>2, <2>3 DEF Leave, SameSpares, PoolTypeOK
  <2> QED BY <1>5, <2>1, <2>2, <2>3
<1>7. CASE Controller
  <2>1. CASE Observe
    BY <2>1 DEF Observe
  <2>2. ASSUME NEW b \in Boxes, Stock(b) PROVE home'[u] \in Boxes \ (spare' \cup ending' \cup listed')
    BY <2>2 DEF Stock, Taken
  <2>3. ASSUME NEW b \in Boxes, Reap(b) PROVE home'[u] \in Boxes \ (spare' \cup ending' \cup listed')
    BY <2>3 DEF Reap
  <2>4. ASSUME NEW b \in Boxes, Gone(b) PROVE home'[u] \in Boxes \ (spare' \cup ending' \cup listed')
    BY <2>4 DEF Gone
  <2> QED BY <1>7, <2>1, <2>2, <2>3, <2>4 DEF Controller
<1> QED BY <1>2, <1>3, <1>4, <1>5, <1>6, <1>7 DEF PoolMoves, Signup

\* A spare is nobody's: a box is stocked when none has it, and loses its label
\* when it is adopted.
LEMMA SparesAreFree ==
  ASSUME PoolTypeOK, PoolMoves, \A u \in Users : home[u] \notin spare
  PROVE  \A u \in Users : home'[u] \notin spare'
<1>1. CASE SamePool \/ SetReplicas(0) \/ SetReplicas(saved) \/ ListSpares \/ DropList
  BY <1>1 DEF SamePool, poolVars, SetReplicas, ListSpares, DropList
<1>2. Lost \notin spare /\ NoBox \notin spare
  BY PoolAssumption DEF PoolTypeOK
<1>3. ASSUME NEW b \in listed, DeleteSpare(b) PROVE \A u \in Users : home'[u] \notin spare'
  BY <1>2, <1>3 DEF DeleteSpare
<1>4. ASSUME NEW v, Leave(v), UNCHANGED spare PROVE \A u \in Users : home'[u] \notin spare'
  BY <1>2, <1>4 DEF Leave, PoolTypeOK
<1>5. ASSUME NEW v, NEW b, Adopt(v, b) PROVE \A u \in Users : home'[u] \notin spare'
  BY <1>5 DEF Adopt, PoolTypeOK
<1>6. CASE Deleted
  BY <1>4, <1>6 DEF Deleted
<1>7. CASE Signup
  BY <1>5, <1>7 DEF Signup
<1>8. CASE GuestStep
  BY <1>4, <1>5, <1>8 DEF GuestStep, Guests
<1>9. CASE Controller
  BY <1>2, <1>9 DEF Controller, Observe, Stock, Reap, Gone, Taken
<1> QED BY <1>1, <1>3, <1>6, <1>7, <1>8, <1>9 DEF PoolMoves

\* Between the patch and the list nothing else happens in the step of the drain.
LEMMA ScaleToList ==
  ASSUME Next, pc = "scale", pc' = "list"
  PROVE  UNCHANGED <<home, spare, ending, listed>>
<1>1. ~(NextScenario \/ Return \/ Exit \/ Save \/ Drain \/ Restore \/ WaitRestocked)
  BY DEF NextScenario, Return, Exit, Save, Drain, DrainFails, Restore, WaitRestocked
<1>2. ~(PreClean \/ Created \/ CreateFails \/ Delete \/ Restock \/ CleanUp)
  BY DEF PreClean, Created, CreateFails, Delete, Restock, CleanUp
<1>3. ~(Setup \/ ForceSuspend \/ Probe \/ Pause \/ Reprobe \/ Reason)
  BY DEF Setup, ForceSuspend, Probe, Pause, Reprobe, Reason
<1>4. ~(Interrupt \/ Kill \/ Waker \/ Others)
  BY DEF Interrupt, Kill, Waker, CronWake, CronReason, Others, flowVars, GoTo
<1>5. CASE Scale
  BY <1>5 DEF Scale, SamePool, poolVars, SetReplicas
<1> QED BY <1>1, <1>2, <1>3, <1>4, <1>5 DEF Next, BenchStep

LEMMA ResidentsNext ==
  ASSUME Control, PoolTypeOK, early \in SUBSET Users, Undrained, Residents, [Next]_vars
  PROVE  Residents'
<1>1. CASE UNCHANGED vars
  BY <1>1 DEF vars, poolVars, histVars, Residents
<1>2. ASSUME Next PROVE \A u \in Users : home'[u] \notin spare'
  BY <1>2, EveryPoolMove, SparesAreFree DEF Residents
<1>3. CASE Next /\ pc = "scale" /\ pc' = "list"
  <2>1. todo # <<>> /\ Scen = "cold"
    BY <1>3 DEF Control, ColdOnly, Outside
  <2>2. Scen = todo[1] /\ 1 \in 1..Len(todo)
    BY <2>1, ScenType
  <2>3. ending = {} /\ listed = {}
    BY <1>3, <2>1, <2>2 DEF Undrained, Awaited
  <2>4. UNCHANGED <<home, spare, ending, listed>>
    BY <1>3, ScaleToList
  <2>5. early' = {u \in Users : home[u] \in Boxes}
    BY <1>3 DEF Next, Remember
  <2> QED BY <1>2, <1>3, <2>3, <2>4, <2>5 DEF Residents
<1>4. CASE Next /\ ~(pc = "scale" /\ pc' = "list")
  <2>1. early' = {u \in early : home'[u] # NoBox}
    BY <1>4 DEF Next, Remember
  <2> QED BY <1>2, <1>4, <2>1, EveryPoolMove, Stays DEF Residents
<1> QED BY <1>1, <1>3, <1>4

\* A drain takes the sandbox of nobody who had it when the drain began
\* (pool.go:78-81).
THEOREM DrainTakesSparesOnly == Spec => []DrainSparesResidents
<1>1. Init => RunInv /\ Undrained /\ Residents
  <2>1. Init => Undrained
    BY PoolAssumption DEF Init, PoolInit, Undrained
  <2>2. Init => Residents
    BY PoolAssumption DEF Init, PoolInit, Residents
  <2> QED BY <2>1, <2>2, RunInit
<1>2. RunInv /\ Undrained /\ Residents /\ [Next]_vars => (RunInv /\ Undrained /\ Residents)'
  BY RunNext, UndrainedNext, ResidentsNext DEF RunInv, Rest
<1>3. Residents => DrainSparesResidents
  BY PoolAssumption DEF Residents, DrainSparesResidents
<1> QED BY <1>1, <1>2, <1>3, PTL DEF Spec

=============================================================================
