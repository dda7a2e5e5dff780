--------------------------- MODULE MCApproval ---------------------------
(***************************************************************************)
(* Calls c1 and c2 wait on the same tool call under different traces (a    *)
(* task run again); c3 fails Validate.  Post d1 carries the trace of c1    *)
(* and d2 is d1 posted again, within its window all the time the clock     *)
(* runs and beyond the life of its nonce; d3 carries no trace, so that it  *)
(* matches both calls, and no signature; d4 has the trace of c2, comes     *)
(* from a clock that runs ahead, and has a body that is refused.           *)
(***************************************************************************)
EXTENDS ApprovalWebhook, TLC

CONSTANTS c1, c2, c3, d1, d2, d3, d4, k1, tA, tB, n1, n3, n4

MCCallKey == c1 :> k1 @@ c2 :> k1 @@ c3 :> k1
MCCallTrace == c1 :> tA @@ c2 :> tB @@ c3 :> tA
MCDecisionKey == d1 :> k1 @@ d2 :> k1 @@ d3 :> k1 @@ d4 :> k1
MCDecisionTrace == d1 :> tA @@ d2 :> tA @@ d3 :> NoTrace @@ d4 :> tB
MCNonceOf == d1 :> n1 @@ d2 :> n1 @@ d3 :> n3 @@ d4 :> n4
MCTimestampOf == d1 :> 1 @@ d2 :> 1 @@ d3 :> 1 @@ d4 :> 4
=============================================================================
