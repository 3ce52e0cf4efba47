----------------------------- MODULE BenchStats -----------------------------
(***************************************************************************)
(* How the benchmark judges a run: percentiles with linear interpolation   *)
(* between ranks (stats.go), and the budget (budget.go).  Latencies are    *)
(* integers and a percentile counts hundredths, so that nothing is rounded.*)
(*                                                                         *)
(* A result is a record: end is "none" for a scenario that was not asked   *)
(* for, "skipped", "failed" or "done"; samples are its latencies, sorted;  *)
(* busy counts the answers 503 with Retry-After, and bad says whether      *)
(* there was any other error event.                                        *)
(***************************************************************************)
EXTENDS Integers, Sequences, FiniteSets

CONSTANTS Metrics,      \* the percentiles a budget bounds; 100 is the maximum
          Limits,       \* per metric: the limit of every scenario, 0 for none
          TaxLimit,     \* of the median of a resume minus that of the baseline, 0 for none
          AllowedWakeErrors

ASSUME LimitsAssumption ==
    /\ {50, 100} \subseteq Metrics /\ Metrics \subseteq 0..100
    /\ Limits \in [Metrics -> Nat]
    /\ TaxLimit \in Nat
    /\ AllowedWakeErrors \in Nat

\* The place of l among sorted samples, after those that are not greater.
Place(s, l) == Cardinality({i \in 1..Len(s) : s[i] <= l})

\* The samples are kept sorted, as Summarize sorts them.
Insert(s, l) ==
    [i \in 1..Len(s) + 1 |-> IF i <= Place(s, l) THEN s[i]
                             ELSE IF i = Place(s, l) + 1 THEN l ELSE s[i - 1]]

\* Mutant: the rank counts from one.
PercentileOffByOne(s, p) ==
    LET rank == p * (Len(s) - 1)
        lo   == rank \div 100
    IN  IF lo + 1 >= Len(s) THEN 100 * s[Len(s)]
        ELSE IF lo = 0 THEN 100 * s[1]
        ELSE 100 * s[lo] + (rank % 100) * (s[lo + 1] - s[lo])

\* In hundredths: s[lo] of the code is s[lo + 1] here.
Percentile(s, p) ==
    LET rank == p * (Len(s) - 1)
        lo   == rank \div 100
    IN  IF lo + 1 >= Len(s)
        THEN 100 * s[Len(s)]
        ELSE 100 * s[lo + 1] + (rank % 100) * (s[lo + 2] - s[lo + 1])

Over(s, m) == Limits[m] > 0 /\ Percentile(s, m) > 100 * Limits[m]

\* A median minus another, when both scenarios have samples.
Tax(a, b) == Percentile(a, 50) - Percentile(b, 50)

OverTax(res) ==
    LET a == res["resume"].samples
        b == res["baseline"].samples
    IN  TaxLimit > 0 /\ a # <<>> /\ b # <<>> /\ Tax(a, b) > 100 * TaxLimit

Missing(res, required, s) == s \in required /\ res[s].end \in {"none", "skipped"}

BudgetBroken(res, s) ==
    res[s].end \in {"failed", "done"} /\
        \/ res[s].end = "failed"
        \/ res[s].samples = <<>>
        \/ \E m \in Metrics : Over(res[s].samples, m)

ErrorEvents(res, s) == res[s].bad \/ res[s].busy > AllowedWakeErrors

\* Evaluate finds no violation.  Every scenario has a budget in both files.
WithinBudget(res, required) ==
    /\ \A s \in DOMAIN res :
         ~Missing(res, required, s) /\ ~BudgetBroken(res, s) /\ ~ErrorEvents(res, s)
    /\ ~OverTax(res)
=============================================================================
