---------------------------- MODULE MCBetterStack ----------------------------
(* Values of the constants for the runs of BetterStack.                     *)
EXTENDS BetterStack, TLC

CONSTANTS i1, i2

IncidentSymmetry == Permutations({i1, i2})
=============================================================================
