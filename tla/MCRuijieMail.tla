----------------------------- MODULE MCRuijieMail -----------------------------
(* Values of the constants for the run of RuijieMail.                       *)
EXTENDS RuijieMail, TLC

CONSTANTS m1, m2, fpA, none, u1

OneAlarm == [a \in Mail |-> fpA]

(* Two reactions, or one of them and one failed call or crash.              *)
TwoEvents == Len(events) + faults + restarts <= 2
MailSymmetry == Permutations(Mail)
=============================================================================
