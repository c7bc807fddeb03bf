------------------------------ MODULE MCSSHPool ------------------------------
(* Values of the constants for the run of SSHPool.                         *)
EXTENDS SSHPool, TLC

CONSTANTS h1, h2, c1, c2, c3, keepAlive, mainGo, nobody

PoolSymmetry == Permutations({c1, c2, c3}) \cup Permutations({h1, h2})
=============================================================================
