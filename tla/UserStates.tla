----------------------------- MODULE UserStates -----------------------------
(***************************************************************************)
(* What the status API promises a client that polls a user: the state      *)
(* moves along the lifecycle, it never jumps from Ready to Suspended or    *)
(* back without the transition being visible, a user appears as            *)
(* Provisioning, and a sandbox that is lost is not found again.            *)
(***************************************************************************)
CONSTANT Users

VARIABLE st   \* per user: the state reported, "NotFound" without a claim

\* The moves between the states of a sandbox that exists.
Moves ==
    {<<"Provisioning", "Ready">>, <<"Provisioning", "Waking">>,
     <<"Ready", "Suspending">>, <<"Ready", "Waking">>,
     <<"Suspending", "Suspended">>, <<"Suspending", "Ready">>, <<"Suspending", "Waking">>,
     <<"Suspended", "Waking">>, <<"Suspended", "Suspending">>,
     <<"Waking", "Ready">>, <<"Waking", "Suspending">>, <<"Waking", "Suspended">>}

Allowed(from, to) ==
    \/ from = "NotFound" /\ to = "Provisioning"
    \/ to = "NotFound"
    \/ from \notin {"NotFound", "Provisioning"} /\ to = "Unknown"
    \/ <<from, to>> \in Moves

Init == st = [u \in Users |-> "NotFound"]

Move(u, to) ==
    /\ Allowed(st[u], to)
    /\ st' = [st EXCEPT ![u] = to]

Next == \E u \in Users :
          \E to \in {"NotFound", "Provisioning", "Ready", "Suspending", "Suspended", "Waking", "Unknown"} :
            Move(u, to)

Spec == Init /\ [][Next]_st
=============================================================================
