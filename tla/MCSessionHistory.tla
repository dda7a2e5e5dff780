-------------------------- MODULE MCSessionHistory --------------------------
(***************************************************************************)
(* A session with two finished turns, a turn of another session between    *)
(* them, and three runs that interleave.                                   *)
(***************************************************************************)
EXTENDS SessionHistory

CONSTANTS p1, p2, other, r1, r2, r3, s1, s2

MCPast == <<p1, other, p2>>
MCSessionOf == [r \in Run |-> IF r = other THEN s2 ELSE s1]
LiveRuns == Permutations({r1, r2, r3})
=============================================================================
