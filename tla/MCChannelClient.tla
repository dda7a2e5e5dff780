-------------------------- MODULE MCChannelClient --------------------------
(***************************************************************************)
(* Two concurrent calls that may be repeated.  Token lives: one a little   *)
(* longer than the margin, and one the service does not report.            *)
(***************************************************************************)
EXTENDS ChannelClient, TLC

MCGrants == {[life |-> 9, reported |-> 9], [life |-> 9, reported |-> 0]}

Perms == Permutations(Caller)
=============================================================================
