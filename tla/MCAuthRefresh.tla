---------------------------- MODULE MCAuthRefresh ----------------------------
(* Three calls, two of them in one process: enough for a holder that dies     *)
(* and two callers, in different processes, that wait for its lock.           *)
EXTENDS AuthRefresh, TLC

CONSTANTS a1, a2, a3, p1, p2

Symmetry == Permutations({a1, a2})

OneEach == (a1 :> p1) @@ (a3 :> p2)

TwoProcesses == (a1 :> p1) @@ (a2 :> p1) @@ (a3 :> p2)
=============================================================================
