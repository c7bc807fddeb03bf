------------------------------ MODULE MCWorkflow ------------------------------
(* Values of the constants for the run of Workflow.                        *)
EXTENDS Workflow, TLC

CONSTANTS h1, h2, g1, g2, adm1, adm2, v1, k1, mainGo, none

(* A group backup every few hours, and a command for one device, once.      *)
GroupBackup == [kind |-> "backup", target |-> AllDevices, schedule |-> "periodic"]
OneCommand == [kind |-> "command", target |-> 1, schedule |-> "once"]
TwoInputs == {GroupBackup, OneCommand}

(* No job yet, or the group backup, which failed when it was last executed. *)
NoneOrBackup ==
    {<<None, None>>, <<[NewJobRow(GroupBackup) EXCEPT !.status = "error"], None>>}

(* The table holds one device.                                              *)
OneDevice == {<<[live |-> TRUE, host |-> h1], None>>}

(* At most three goroutines are at work at once, and nothing beside two     *)
(* administrators.                                                          *)
AtWork(state) == Cardinality({x \in DOMAIN state : state[x].pc # "idle"})
FewAtWork ==
    LET others == AtWork(runner) + AtWork(viewer) + AtWork(checker)
    IN  AtWork(adm) + others <= 3 /\ (AtWork(adm) = 2 => others = 0)

GoroutineSymmetry == Permutations(Runner) \cup Permutations(Admin)
=============================================================================
