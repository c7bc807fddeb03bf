---------------------------- MODULE MCWebSocketHub ----------------------------
(* Values of the constants for the run of WebSocketHub.                    *)
EXTENDS WebSocketHub, TLC

CONSTANTS w1, w2

ClientSymmetry == Permutations({w1, w2})
=============================================================================
