--------------------------- MODULE MCCapacityLedger ---------------------------
(* Values of the constants for the run of CapacityLedger.                   *)
EXTENDS CapacityLedger, TLC

CONSTANTS web1, web2, kA, kB

Late == [type |-> "upgrade", amount |-> 2, cost |-> 1, at |-> 1]
Down == [type |-> "downgrade", amount |-> 1, cost |-> 2, at |-> 2]
Next3 == [type |-> "upgrade", amount |-> 3, cost |-> 1, at |-> 3]
Entries == {Late, Down, Next3}

OneNode == <<[key |-> kA, initial |-> 5]>>
OneAction == <<[node |-> 1, type |-> "downgrade", amount |-> 1, cost |-> 2, at |-> 2]>>

Sheets == {<<[key |-> kB, initial |-> 1, input |-> Down], [key |-> kB, initial |-> 7, input |-> Late]>>,
           <<[key |-> kA, initial |-> 1, input |-> Next3], [key |-> kB, initial |-> 1, input |-> Down]>>}

OneBehind == -1

RequestSymmetry == Permutations({web1, web2})
=============================================================================
