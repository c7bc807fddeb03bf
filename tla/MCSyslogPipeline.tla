--------------------------- MODULE MCSyslogPipeline ---------------------------
(* Values of the constants for the run of SyslogPipeline.                  *)
EXTENDS SyslogPipeline, TLC

CONSTANTS d1, d2, d3, r1, r2, r3, r4, fpA, t1, mainGo, fltX, fltY

(* All documents are of one alarm. *)
DocAlarms == [d \in Doc |-> fpA]

(* Two rows for d1: it may be stored again after it was deleted. *)
OneSpare == r1 :> d1 @@ r2 :> d1 @@ r3 :> d2 @@ r4 :> d3
FpToSpare == [r \in Alert |-> fpA]
SpareSymmetry == Permutations({r1, r2})

(* With a dedup window of 1, d3 is within that of both, d2 outside d1's. *)
LogTimes == d1 :> 0 @@ d2 :> 2 @@ d3 :> 1

(* One of: a failed call, a crash, an edit of the second filter, the        *)
(* shutdown, a tick that takes a unit of time or more, a moment that no     *)
(* whole tick is in time for.                                               *)
Slow == poller.pc \notin {"idle", "ended"} /\ poller.at < now
CountIf(P) == IF P THEN 1 ELSE 0
OneTrouble ==
    /\ faults + crashes + edits + CountIf(quit) + CountIf(Slow)
           + CountIf(~InTime(now) \/ rounds.first > 0) <= 1
    /\ fltX \in enabled

(* Both filters find d1. *)
SharedDoc == fltX :> {d1, d3} @@ fltY :> {d1, d2}
=============================================================================
