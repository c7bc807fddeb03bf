------------------------------ MODULE MCOltScans ------------------------------
(* Values of the constants for the run of OltScans.                        *)
EXTENDS OltScans, TLC

CONSTANTS n1, n2, h1, cron, req, none

AllKinds == ({"nokia", "huawei"} \X (Table \cup Stock \cup {"health"}))
               \ {<<"huawei", "desc">>, <<"huawei", "interfaces">>}
=============================================================================
