----------------------------- MODULE AzoVerified -----------------------------
(***************************************************************************)
(* The machine with code that could be verified before it runs: all of it  *)
(* has heights noted that agree with it.                                   *)
(***************************************************************************)
EXTENDS AzoHeights

ASSUME HeightsAssumption == Heights \in [Progs -> Seq(Notes)] /\ \A p \in Progs : NotedWell(p)
==============================================================================
