------------------------------ MODULE MCBench ------------------------------
(* Instances of the benchmark for TLC. *)
EXTENDS Bench, TLC

CONSTANT Guest

Plan(t, r, a) == [todo |-> t, required |-> r, access |-> a]

SomePlans ==
    {Plan(<<"cold">>, {"cold"}, "drain"),
     Plan(<<"warm">>, {"warm"}, "keep"), Plan(<<"warm">>, {"warm"}, "none"),
     Plan(<<"resume">>, {"resume"}, "none"), Plan(<<"baseline">>, {"resume"}, "none"),
     Plan(<<"resume-ttft">>, {}, "none"), Plan(<<"cold", "baseline-ttft">>, {}, "keep")}

SomeLimits == 50 :> 2 @@ 90 :> 0 @@ 95 :> 0 @@ 100 :> 4

SomeLeftovers == {<<"warm", 1>>, <<"resume", 0>>}

AllUsers == BenchUsers \cup {<<Guest, 0>>}
=============================================================================
