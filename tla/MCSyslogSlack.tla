---------------------------- MODULE MCSyslogSlack ----------------------------
(* Values of the constants for the run of SyslogSlack.                      *)
EXTENDS SyslogSlack, TLC

CONSTANTS a1, a2, fpA, t1, mainGo, u1

TwoOfOneAlarm == a1 :> fpA @@ a2 :> fpA

(* Two reactions, or a failed call, a crash or a Stop. *)
EventsOrTrouble ==
    LET troubles == faults + crashes + (IF main = "run" THEN 0 ELSE 1) IN
    troubles = 0 \/ (troubles = 1 /\ events = <<>>)
=============================================================================
