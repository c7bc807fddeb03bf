---------------------------- MODULE CapacityLedger ----------------------------
(***************************************************************************)
(* The ledger of IP capacities (handlers/ip_capacity_handler.go and        *)
(* repository/ip_capacity_repo.go): nodes with an initial capacity,        *)
(* upgrades and downgrades that may be entered late, edited or deleted,    *)
(* and what each edit recalculates: the capacity before and after every    *)
(* action, its cost, and the node's current capacity.                      *)
(*                                                                         *)
(* Every edit is a transaction of the database at its default level, read  *)
(* committed: a statement sees what is committed and its own transaction's *)
(* writes, and waits for rows another transaction has written.  Row locks  *)
(* that a recalculation takes are taken at its commit; those of the edit   *)
(* itself are held from the edit on.  A transaction that fails, or is      *)
(* refused to end a deadlock, leaves nothing behind.                       *)
(*                                                                         *)
(* Names, types and provinces are one key, times are moments of the        *)
(* reporting days that begin at 03:00, by the clock of who tells the day:  *)
(* the program tells it in its own time zone, the database in its          *)
(* session's, which nothing sets.                                          *)
(*                                                                         *)
(* A definition named for a defect (...ById, ...ByEntry) is a faulty       *)
(* variant of the one that follows.                                        *)
(***************************************************************************)
EXTENDS Integers, Sequences, FiniteSets

CONSTANTS
    Request,
    Key,             \* province, name and type of a node
    Initial,         \* initial capacities an editor enters
    Input,           \* actions an editor enters
    Import,          \* imported rows: sequences of [key, initial, input]
    InitialNodes, InitialActions,   \* the tables at the start: row i has id i
    MomentsPerDay, LastMoment,
    Shift,           \* moments the clock of the database is ahead of the program's
    MaxNodes, MaxActions,           \* ids that may be given out
    MaxRequests, MaxFaults          \* bounds on requests and on failed transactions

NodeId == 1 .. MaxNodes
ActionId == 1 .. MaxActions
Moment == 1 .. LastMoment
Day == 0 .. LastMoment + 1
DayOf(t) == (t - 1) \div MomentsPerDay + 1
DayInDatabase(t) == DayOf(t + Shift)

NodeRow == [key : Key, initial : Nat]
Entry == [type : {"upgrade", "downgrade"}, amount : Nat \ {0}, cost : Nat, at : Moment]
ActionRow == [node : NodeId, type : {"upgrade", "downgrade"}, amount : Nat \ {0},
              cost : Nat, at : Moment]
BookRow == [before : Int, after : Int, total : Int]

ASSUME CapacityAssumption ==
    /\ Initial \subseteq Nat /\ Input \subseteq Entry
    /\ Import \subseteq Seq([key : Key, initial : Nat, input : Input]) \ {<<>>}
    /\ MaxNodes \in Nat /\ InitialNodes \in Seq(NodeRow) /\ Len(InitialNodes) <= MaxNodes
    /\ MaxActions \in Nat /\ InitialActions \in Seq(ActionRow) /\ Len(InitialActions) <= MaxActions
    /\ \A i \in DOMAIN InitialActions : InitialActions[i].node \in DOMAIN InitialNodes
    /\ MomentsPerDay \in Nat \ {0} /\ LastMoment \in Nat
    /\ Shift \in -MomentsPerDay .. MomentsPerDay
    /\ MaxRequests \in Nat /\ MaxFaults \in Nat

VARIABLES
    nodes,      \* ip_capacity_nodes: id -> [key, initial]
    current,    \* ... and the current capacity of each
    actions,    \* ip_capacity_actions: id -> [node, type, amount, cost, at]
    ledger,     \* ... and what is recalculated of each: [before, after, total]
    lastNode, lastAction,   \* ids given out
    tx,         \* each request's transaction
    skewed,     \* history: nodes whose last recalculation another edit overtook
    requests, faults

vars == <<nodes, current, actions, ledger, lastNode, lastAction, tx, skewed, requests, faults>>
tables == <<nodes, current, actions, ledger>>

(* own, ownNode: rows written; dropped: actions deleted; book, capacity:    *)
(* what was recalculated; todo: nodes to recalculate; fresh: recalculated   *)
(* ones that no commit has touched since; id, node, cost: the action read.  *)
Nothing == <<>>
IdleTx == [pc |-> "idle", own |-> Nothing, dropped |-> {}, ownNode |-> Nothing,
           book |-> Nothing, capacity |-> Nothing, locks |-> {},
           todo |-> {}, fresh |-> {}, id |-> 0, node |-> 0, cost |-> 0]
Edited(t) == t.todo \cup DOMAIN t.capacity
-----------------------------------------------------------------------------
(* recalculateCapacityNode: the node and its actions in order of time, then *)
(* of entry, are read, and the running total is written to each.            *)
OfNode(table, n) == {i \in DOMAIN table : table[i].node = n}

BeforeById(table, i, j) == i < j
Before(table, i, j) == table[i].at < table[j].at \/ (table[i].at = table[j].at /\ i < j)

InOrder(table, ids) ==
    CHOOSE s \in [1 .. Cardinality(ids) -> ids] :
        /\ \A i \in ids : \E k \in DOMAIN s : s[k] = i
        /\ \A k, l \in DOMAIN s : k < l => Before(table, s[k], s[l])

Signed(a) == IF a.type = "upgrade" THEN a.amount ELSE -a.amount

Totals(base, n, step) ==
    LET total[k \in 0 .. n] == IF k = 0 THEN base ELSE total[k - 1] + step[k]
    IN  total

Recalculated(table, n, initial) ==
    LET order == InOrder(table, OfNode(table, n))
        size == Cardinality(OfNode(table, n))
        total == Totals(initial, size, [k \in 1 .. size |-> Signed(table[order[k]])])
    IN  [book |-> [i \in OfNode(table, n) |->
                     LET k == CHOOSE k \in 1 .. size : order[k] = i
                     IN  [before |-> total[k - 1], after |-> total[k],
                          total |-> Signed(table[i]) * table[i].cost]],
         current |-> total[size]]

Init ==
    /\ nodes = InitialNodes /\ actions = InitialActions
    /\ current = [n \in DOMAIN InitialNodes |->
                    Recalculated(InitialActions, n, InitialNodes[n].initial).current]
    /\ ledger = [i \in DOMAIN InitialActions |->
                   LET n == InitialActions[i].node
                   IN  Recalculated(InitialActions, n, InitialNodes[n].initial).book[i]]
    /\ lastNode = Len(InitialNodes) /\ lastAction = Len(InitialActions)
    /\ tx = [r \in Request |-> IdleTx]
    /\ skewed = {} /\ requests = 0 /\ faults = 0
-----------------------------------------------------------------------------
(* What a transaction sees: committed rows under what it wrote.             *)
Over(new, old) ==
    [x \in DOMAIN new \cup DOMAIN old |-> IF x \in DOMAIN new THEN new[x] ELSE old[x]]
Just(x, row) == [y \in {x} |-> row]

VisibleNodes(r) == Over(tx[r].ownNode, nodes)
VisibleCurrent(r) == [n \in DOMAIN VisibleNodes(r) |-> Over(tx[r].capacity, current)[n]]
VisibleActions(r) ==
    [i \in (DOMAIN tx[r].own \cup DOMAIN actions) \ tx[r].dropped |->
        Over(tx[r].own, actions)[i]]
VisibleLedger(r) == [i \in DOMAIN VisibleActions(r) |-> Over(tx[r].book, ledger)[i]]

Locked(r, what) == \E s \in Request \ {r} : what \in tx[s].locks
HasKey(k) == {n \in DOMAIN nodes : nodes[n].key = k}

(* A unique index on the key: whoever enters it second waits, then fails.   *)
KeyFree(r, k) == HasKey(k) = {} /\ ~Locked(r, <<"key", k>>)

Begins(r) ==
    /\ tx[r].pc = "idle" /\ requests < MaxRequests
    /\ requests' = requests + 1
Set(r, t) == tx' = [tx EXCEPT ![r] = t]
-----------------------------------------------------------------------------
(* Edits: each writes its rows and then recalculates the nodes in todo.     *)

CreateNode(r) ==
    /\ Begins(r) /\ lastNode < MaxNodes
    /\ \E k \in Key, c \in Initial :
          /\ KeyFree(r, k)
          /\ nodes' = Over(Just(lastNode + 1, [key |-> k, initial |-> c]), nodes)
          /\ current' = Over(Just(lastNode + 1, c), current)
    /\ lastNode' = lastNode + 1
    /\ UNCHANGED <<actions, ledger, lastAction, tx, skewed, faults>>

(* Renaming a node locks it against new actions.                            *)
UpdateNode(r) ==
    /\ Begins(r)
    /\ \E n \in DOMAIN nodes, k \in Key, c \in Initial :
          /\ nodes[n].key = k \/ (KeyFree(r, k) /\ ~Locked(r, <<"share", n>>))
          /\ ~Locked(r, <<"node", n>>) /\ ~Locked(r, <<"name", n>>)
          /\ Set(r, [IdleTx EXCEPT !.pc = "recalc", !.todo = {n},
                       !.ownNode = Just(n, [key |-> k, initial |-> c]),
                       !.locks = {<<"node", n>>} \cup
                          (IF nodes[n].key = k THEN {} ELSE {<<"name", n>>, <<"key", k>>})])
    /\ UNCHANGED <<tables, lastNode, lastAction, skewed, faults>>

(* One transaction for two statements; it waits for every edit of the node. *)
(* A transaction that found no action to edit finds its node gone as well.  *)
DeleteNode(r) ==
    /\ Begins(r)
    /\ \E n \in DOMAIN nodes :
          /\ \A s \in Request : tx[s].locks \cap
                ({<<"node", n>>, <<"name", n>>, <<"share", n>>}
                   \cup {<<"action", i>> : i \in OfNode(actions, n)}) = {}
          /\ nodes' = [m \in DOMAIN nodes \ {n} |-> nodes[m]]
          /\ current' = [m \in DOMAIN nodes \ {n} |-> current[m]]
          /\ actions' = [i \in DOMAIN actions \ OfNode(actions, n) |-> actions[i]]
          /\ ledger' = [i \in DOMAIN actions \ OfNode(actions, n) |-> ledger[i]]
          /\ skewed' = skewed \ {n}
          /\ tx' = [s \in Request |-> IF n \in Edited(tx[s]) THEN IdleTx ELSE tx[s]]
    /\ UNCHANGED <<lastNode, lastAction, faults>>

(* Who may not see costs enters none.                                       *)
Entered(n, input, sees) ==
    [node |-> n, type |-> input.type, amount |-> input.amount,
     cost |-> IF sees THEN input.cost ELSE 0, at |-> input.at]
Blank == [before |-> 0, after |-> 0, total |-> 0]

CreateAction(r) ==
    /\ Begins(r) /\ lastAction < MaxActions
    /\ \E n \in DOMAIN nodes, input \in Input, sees \in BOOLEAN :
          /\ ~Locked(r, <<"name", n>>)
          /\ Set(r, [IdleTx EXCEPT !.pc = "recalc", !.todo = {n}, !.locks = {<<"share", n>>},
                       !.own = Just(lastAction + 1, Entered(n, input, sees)),
                       !.book = Just(lastAction + 1, Blank)])
    /\ lastAction' = lastAction + 1
    /\ UNCHANGED <<tables, lastNode, skewed, faults>>

(* The row is read first: an editor who may not see costs writes back the   *)
(* cost read then.                                                          *)
ReadAction(r) ==
    /\ Begins(r)
    /\ \E i \in DOMAIN actions :
          Set(r, [IdleTx EXCEPT !.pc = "edit", !.id = i, !.node = actions[i].node,
                                !.cost = actions[i].cost])
    /\ UNCHANGED <<tables, lastNode, lastAction, skewed, faults>>

(* The row has gone: the transaction sees it, or it has waited for the      *)
(* deletion, writes nothing and recalculates all the same.                  *)
MissesAction(r) ==
    /\ tx[r].pc = "edit" /\ tx[r].id \notin DOMAIN actions
    /\ \/ Set(r, IdleTx)
       \/ /\ tx[r].node \in DOMAIN nodes
          /\ Set(r, [IdleTx EXCEPT !.pc = "recalc", !.todo = {tx[r].node}])
    /\ UNCHANGED <<tables, lastNode, lastAction, skewed, requests, faults>>

Finds(r, i) ==
    tx[r].pc = "edit" /\ tx[r].id = i /\ i \in DOMAIN actions /\ ~Locked(r, <<"action", i>>)

UpdateAction(r) ==
    /\ \E i \in ActionId, input \in Input, sees \in BOOLEAN :
          /\ Finds(r, i)
          /\ Set(r, [IdleTx EXCEPT !.pc = "recalc", !.todo = {actions[i].node},
                       !.locks = {<<"action", i>>},
                       !.own = Just(i, [Entered(actions[i].node, input, sees) EXCEPT
                                          !.cost = IF sees THEN @ ELSE tx[r].cost])])
    /\ UNCHANGED <<tables, lastNode, lastAction, skewed, requests, faults>>

DeleteAction(r) ==
    /\ \E i \in ActionId :
          /\ Finds(r, i)
          /\ Set(r, [IdleTx EXCEPT !.pc = "recalc", !.todo = {actions[i].node}, !.dropped = {i},
                       !.locks = {<<"action", i>>}])
    /\ UNCHANGED <<tables, lastNode, lastAction, skewed, requests, faults>>
-----------------------------------------------------------------------------
(* An import finds the node of each row by its key, or creates it with the  *)
(* first row that names it; rows of one key share it.  All rows are stored  *)
(* or none.                                                                 *)
Keys(rows) == {rows[i].key : i \in DOMAIN rows}
FirstRow(rows, k) ==
    CHOOSE i \in DOMAIN rows : rows[i].key = k /\ \A j \in 1 .. i - 1 : rows[j].key # k
Created(rows) == {k \in Keys(rows) : HasKey(k) = {}}

NodeFor(rows, k) ==
    IF k \in Created(rows)
    THEN lastNode + Cardinality({l \in Created(rows) :
                                    l = k \/ FirstRow(rows, l) < FirstRow(rows, k)})
    ELSE CHOOSE n \in HasKey(k) : TRUE

Imported(rows, sees) ==
    LET new == [k \in Created(rows) |-> NodeFor(rows, k)]
        known == [k \in Keys(rows) \ Created(rows) |-> NodeFor(rows, k)]
        ids == lastAction + 1 .. lastAction + Len(rows)
        row(i) == rows[i - lastAction]
        first(n) == rows[FirstRow(rows, CHOOSE k \in Created(rows) : new[k] = n)]
        newIds == {new[k] : k \in Created(rows)}
        knownIds == {known[k] : k \in Keys(rows) \ Created(rows)}
    IN  [IdleTx EXCEPT
            !.pc = "recalc", !.todo = newIds \cup knownIds,
            !.own = [i \in ids |-> Entered(NodeFor(rows, row(i).key), row(i).input, sees)],
            !.book = [i \in ids |-> Blank],
            !.ownNode = [n \in newIds |-> [key |-> first(n).key, initial |-> first(n).initial]],
            !.capacity = [n \in newIds |-> first(n).initial],
            !.locks = {<<"key", k>> : k \in Created(rows)} \cup {<<"share", n>> : n \in knownIds}]

ImportActions(r) ==
    /\ Begins(r)
    /\ \E rows \in Import, sees \in BOOLEAN :
          /\ \A k \in Created(rows) : ~Locked(r, <<"key", k>>)
          /\ \A k \in Keys(rows) \ Created(rows) : ~Locked(r, <<"name", NodeFor(rows, k)>>)
          /\ lastNode' = lastNode + Cardinality(Created(rows)) /\ lastNode' <= MaxNodes
          /\ lastAction' = lastAction + Len(rows) /\ lastAction' <= MaxActions
          /\ Set(r, Imported(rows, sees))
    /\ UNCHANGED <<tables, skewed, faults>>
-----------------------------------------------------------------------------
Recalculate(r) ==
    /\ tx[r].pc = "recalc"
    /\ \E n \in tx[r].todo :
          LET done == Recalculated(VisibleActions(r), n, VisibleNodes(r)[n].initial)
          IN  Set(r, [tx[r] EXCEPT !.book = Over(done.book, @),
                                   !.capacity = Over(Just(n, done.current), @),
                                   !.todo = @ \ {n}, !.fresh = @ \cup {n},
                                   !.pc = IF tx[r].todo = {n} THEN "commit" ELSE "recalc"])
    /\ UNCHANGED <<tables, lastNode, lastAction, skewed, requests, faults>>

Touched(r) == DOMAIN tx[r].ownNode \cup DOMAIN tx[r].capacity

(* Rows the transaction has written are free of the edits of others.        *)
BlockedBy(r) ==
    {s \in Request \ {r} : tx[s].locks \cap
        ({<<"action", i>> : i \in DOMAIN tx[r].own \cup DOMAIN tx[r].book}
           \cup {<<"node", n>> : n \in Touched(r)}) # {}}

Commit(r) ==
    /\ tx[r].pc = "commit" /\ BlockedBy(r) = {}
    /\ nodes' = VisibleNodes(r) /\ current' = VisibleCurrent(r)
    /\ actions' = VisibleActions(r) /\ ledger' = VisibleLedger(r)
    /\ skewed' = (skewed \cup Touched(r)) \ tx[r].fresh
    /\ tx' = [s \in Request |-> IF s = r THEN IdleTx
                                ELSE [tx[s] EXCEPT !.fresh = @ \ Touched(r)]]
    /\ UNCHANGED <<lastNode, lastAction, requests, faults>>

Deadlocked(r) == \E s \in BlockedBy(r) : tx[s].pc = "commit" /\ r \in BlockedBy(s)

Rollback(r) ==
    /\ tx[r].pc \in {"recalc", "commit"}
    /\ \/ Deadlocked(r) /\ UNCHANGED faults
       \/ faults < MaxFaults /\ faults' = faults + 1
    /\ Set(r, IdleTx)
    /\ UNCHANGED <<tables, lastNode, lastAction, skewed, requests>>
-----------------------------------------------------------------------------
(* What the pages show: ListNodes the latest action of a node,              *)
(* buildFullDayHistory a node on a day, GetAllHistory the days with actions.*)
Sum(w) ==   \* of the values of w, whose arguments are ids of actions
    Totals(0, MaxActions, [i \in ActionId |-> IF i \in DOMAIN w THEN w[i] ELSE 0])[MaxActions]

Latest(table, ids) == CHOOSE i \in ids : \A j \in ids \ {i} : Before(table, j, i)

LatestAction(n) == Latest(actions, OfNode(actions, n))

UpTo(n, d) == {i \in OfNode(actions, n) : DayOf(actions[i].at) <= d}
OnDay(n, d) == {i \in OfNode(actions, n) : DayOf(actions[i].at) = d}

LastAfterByEntry(n, d) ==
    IF UpTo(n, d) = {} THEN nodes[n].initial
    ELSE ledger[CHOOSE i \in UpTo(n, d) : \A j \in UpTo(n, d) : j <= i].after
LastAfter(n, d) ==
    IF UpTo(n, d) = {} THEN nodes[n].initial ELSE ledger[Latest(actions, UpTo(n, d))].after

DayHistory(n, d) ==
    [opening |-> LastAfter(n, d - 1), closing |-> LastAfter(n, d),
     difference |-> LastAfter(n, d) - LastAfter(n, d - 1),
     cost |-> Sum([i \in OnDay(n, d) |-> ledger[i].total])]

ListHistoryDays == {DayInDatabase(actions[i].at) : i \in DOMAIN actions}
AllHistory(n) == [d \in ListHistoryDays |-> DayHistory(n, d).closing]

AtRest ==
    /\ \A r \in Request : tx[r].pc = "idle"
    /\ UNCHANGED vars

Next ==
    \/ \E r \in Request :
          \/ CreateNode(r) \/ UpdateNode(r) \/ DeleteNode(r)
          \/ CreateAction(r) \/ ReadAction(r) \/ MissesAction(r) \/ UpdateAction(r)
          \/ DeleteAction(r) \/ ImportActions(r)
          \/ Recalculate(r) \/ Commit(r) \/ Rollback(r)
    \/ AtRest

Spec == Init /\ [][Next]_vars
-----------------------------------------------------------------------------
TypeOK ==
    /\ lastNode \in 0 .. MaxNodes /\ lastAction \in 0 .. MaxActions
    /\ DOMAIN nodes \subseteq 1 .. lastNode /\ DOMAIN current = DOMAIN nodes
    /\ \A n \in DOMAIN nodes : nodes[n] \in NodeRow /\ current[n] \in Int
    /\ DOMAIN actions \subseteq 1 .. lastAction /\ DOMAIN ledger = DOMAIN actions
    /\ \A i \in DOMAIN actions : actions[i] \in ActionRow /\ ledger[i] \in BookRow
    /\ \A i \in DOMAIN actions : actions[i].node \in DOMAIN nodes
    /\ skewed \subseteq DOMAIN nodes /\ requests \in 0 .. MaxRequests /\ faults \in 0 .. MaxFaults

(* models/ip_capacity.go:21 "recalculated ledger totals": whatever was      *)
(* entered late, edited, deleted or imported, a node's ledger tells what    *)
(* its actions add up to, unless another edit of the node was committed     *)
(* between the reading and the writing of its last recalculation.           *)
Amounts(table, ids) == Sum([i \in ids |-> Signed(table[i])])
Earlier(table, ids, i) ==
    {j \in ids : table[j].at < table[i].at \/ (table[j].at = table[i].at /\ j < i)}

AddsUp(table, book, n, initial, total) ==
    LET mine == OfNode(table, n) IN
      /\ total = initial + Amounts(table, mine)
      /\ \A i \in mine :
            /\ book[i].before = initial + Amounts(table, Earlier(table, mine, i))
            /\ book[i].after = book[i].before + Signed(table[i])
            /\ book[i].total = Signed(table[i]) * table[i].cost

LedgerAddsUp ==
    \A n \in DOMAIN nodes \ skewed : AddsUp(actions, ledger, n, nodes[n].initial, current[n])

(* The days of the history follow on from each other: a day's differences   *)
(* are its actions', its cost what its upgrades cost less its downgrades,   *)
(* and a node's latest action ends at its current capacity.  So does the    *)
(* newest snapshot, unless the clock of the database is behind: then it may *)
(* lack the actions of one day more, and nothing else.                      *)
Newest(days) == CHOOSE d \in days : \A e \in days : e <= d
NotListed(n) == {i \in OfNode(actions, n) : DayOf(actions[i].at) > Newest(ListHistoryDays)}

DaysAddUp ==
    \A n \in DOMAIN nodes \ skewed :
        /\ \A d \in Day :
              /\ DayHistory(n, d).difference = Amounts(actions, OnDay(n, d))
              /\ DayHistory(n, d).cost =
                    Sum([i \in OnDay(n, d) |-> Signed(actions[i]) * actions[i].cost])
        /\ OfNode(actions, n) # {} => ledger[LatestAction(n)].after = current[n]
        /\ ListHistoryDays # {} =>
              LET newest == Newest(ListHistoryDays) IN
                /\ AllHistory(n)[newest] + Amounts(actions, NotListed(n)) = current[n]
                /\ NotListed(n) \subseteq OnDay(n, newest + 1)
                /\ Shift >= 0 => NotListed(n) = {}
=============================================================================
