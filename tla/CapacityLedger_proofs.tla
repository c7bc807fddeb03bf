------------------------ MODULE CapacityLedger_proofs ------------------------
(***************************************************************************)
(* Proofs about the ledger of IP capacities: sums and orders of actions,   *)
(* what a recalculation writes, and that transactions which overlap leave  *)
(* every node adding up that no other edit overtook.                       *)
(***************************************************************************)
EXTENDS CapacityLedger, FiniteSetTheorems, WellFoundedInduction, TLAPS
-----------------------------------------------------------------------------
(* Sums.                                                                   *)

LEMMA LessOnNat == OpToRel(<, Nat) = {p \in Nat \X Nat : p[1] < p[2]}
BY Zenon DEF OpToRel

LEMMA LeastNumber ==
    ASSUME NEW S \in SUBSET Nat, S # {}
    PROVE  \E m \in S : \A k \in S : m <= k
<1>1. PICK m \in S : \A k \in S : <<k, m>> \notin OpToRel(<, Nat)
      BY NatLessThanWellFounded, WFMin
<1>2. \A k \in S : k \in Nat /\ m \in Nat /\ ~(k < m)
      BY <1>1, LessOnNat
<1>3. \A k \in S : m <= k
      BY <1>2
<1> QED BY <1>3

LEMMA GreatestNumber ==
    ASSUME NEW b \in Nat, NEW S \in SUBSET (0 .. b), S # {}
    PROVE  \E m \in S : \A k \in S : k <= m
<1> DEFINE D == {b - k : k \in S}
<1>1. D # {} /\ \A k \in S : b - k \in Nat
  <2>1. PICK k \in S : TRUE
        OBVIOUS
  <2> QED BY <2>1
<1> HIDE DEF D
<1>2. PICK d \in D : \A e \in D : d <= e
  <2>1. D \in SUBSET Nat
        BY <1>1 DEF D
  <2> QED BY <1>1, <2>1, LeastNumber
<1>3. PICK m \in S : d = b - m
      BY <1>2 DEF D
<1>4. \A k \in S : b - k \in D
      BY DEF D
<1>5. \A k \in S : k <= m
      BY <1>2, <1>3, <1>4
<1> QED BY <1>5

(* Induction over the numbers up to b, for a set of them.                  *)
LEMMA EveryNumber ==
    ASSUME NEW b \in Nat, NEW G, 0 \in G, \A k \in 1 .. b : k - 1 \in G => k \in G
    PROVE  0 .. b \subseteq G
<1> DEFINE Bad == (0 .. b) \ G
<1>1. SUFFICES ASSUME Bad # {} PROVE FALSE
      OBVIOUS
<1>2. Bad \in SUBSET Nat
      OBVIOUS
<1>3. PICK k \in Bad : \A j \in Bad : k <= j
  <2> HIDE DEF Bad
  <2> QED BY <1>1, <1>2, LeastNumber
<1>4. k \in 1 .. b /\ k - 1 \in 0 .. b
      BY <1>3
<1>5. k - 1 \in G
      BY <1>3, <1>4
<1> QED BY <1>3, <1>4, <1>5

(* The running total from base by n steps, as far as m.                    *)
IsTotal(f, base, m, step) ==
    /\ f \in [0 .. m -> Int] /\ f[0] = base
    /\ \A k \in 1 .. m : f[k] = f[k - 1] + step[k]

LEMMA TotalGoesOn ==
    ASSUME NEW base \in Int, NEW m \in Nat \ {0}, NEW step, step[m] \in Int,
           NEW f, IsTotal(f, base, m - 1, step)
    PROVE  \E g : IsTotal(g, base, m, step)
<1> DEFINE g == [k \in 0 .. m |-> IF k = m THEN f[m - 1] + step[m] ELSE f[k]]
<1>1. f[m - 1] \in Int /\ \A k \in 0 .. m - 1 : f[k] \in Int
      BY DEF IsTotal
<1>2. g \in [0 .. m -> Int] /\ g[0] = base
      BY <1>1 DEF IsTotal
<1>3. ASSUME NEW k \in 1 .. m PROVE g[k] = g[k - 1] + step[k]
  <2>1. CASE k = m
    <3>1. g[m] = f[m - 1] + step[m] /\ g[m - 1] = f[m - 1]
          OBVIOUS
    <3> QED BY <2>1, <3>1
  <2>2. CASE k # m
    <3>1. k \in 1 .. m - 1 /\ k - 1 \in 0 .. m - 1
          BY <2>2
    <3>2. g[k] = f[k] /\ g[k - 1] = f[k - 1]
          BY <3>1
    <3> QED BY <3>1, <3>2 DEF IsTotal
  <2> QED BY <2>1, <2>2
<1> HIDE DEF g
<1>4. IsTotal(g, base, m, step)
      BY <1>2, <1>3 DEF IsTotal
<1> QED BY <1>4

LEMMA TotalExists ==
    ASSUME NEW base \in Int, NEW n \in Nat, NEW step \in [1 .. n -> Int]
    PROVE  \E f : IsTotal(f, base, n, step)
<1> DEFINE G == {m \in 0 .. n : \E f : IsTotal(f, base, m, step)}
<1>1. IsTotal([k \in 0 .. 0 |-> base], base, 0, step)
      BY DEF IsTotal
<1>2. 0 \in G
      BY <1>1
<1>3. ASSUME NEW m \in 1 .. n, m - 1 \in G PROVE m \in G
  <2>1. PICK f : IsTotal(f, base, m - 1, step)
        BY <1>3
  <2>2. m \in Nat \ {0} /\ step[m] \in Int
        OBVIOUS
  <2>3. \E g : IsTotal(g, base, m, step)
        BY <2>1, <2>2, TotalGoesOn
  <2> QED BY <2>3
<1>4. 0 .. n \subseteq G
  <2> HIDE DEF G
  <2> QED BY <1>2, <1>3, EveryNumber
<1> QED BY <1>4

LEMMA TotalsAdd ==
    ASSUME NEW base \in Int, NEW n \in Nat, NEW step \in [1 .. n -> Int]
    PROVE  IsTotal(Totals(base, n, step), base, n, step)
<1> DEFINE T == Totals(base, n, step)
<1>1. PICK g : IsTotal(g, base, n, step)
      BY TotalExists
<1>2. g = [k \in 0 .. n |-> IF k = 0 THEN base ELSE g[k - 1] + step[k]]
      BY <1>1 DEF IsTotal
<1>3. T = CHOOSE f : f = [k \in 0 .. n |-> IF k = 0 THEN base ELSE f[k - 1] + step[k]]
      BY DEF Totals
<1>4. T = [k \in 0 .. n |-> IF k = 0 THEN base ELSE T[k - 1] + step[k]]
      BY <1>2, <1>3
<1> HIDE DEF T
<1>5. T[0] = base
      BY <1>4
<1>6. \A k \in 1 .. n : T[k] = T[k - 1] + step[k]
      BY <1>4
<1>7. \A k \in 0 .. n : T[k] \in Int
  <2> DEFINE G == {k \in 0 .. n : T[k] \in Int}
  <2>1. 0 \in G
        BY <1>5
  <2>2. ASSUME NEW k \in 1 .. n, k - 1 \in G PROVE k \in G
        BY <1>6, <2>2
  <2>3. 0 .. n \subseteq G
    <3> HIDE DEF G
    <3> QED BY <2>1, <2>2, EveryNumber
  <2> QED BY <2>3
<1>8. T \in [0 .. n -> Int]
      BY <1>4, <1>7
<1>9. IsTotal(T, base, n, step)
      BY <1>5, <1>6, <1>8 DEF IsTotal
<1> QED BY <1>9 DEF T

(* A sum goes over all ids, with nothing for those outside.                *)
Pad(w) == [i \in ActionId |-> IF i \in DOMAIN w THEN w[i] ELSE 0]
SumTo(w, k) == Totals(0, MaxActions, Pad(w))[k]

SumsUp(w) ==
    /\ Sum(w) = SumTo(w, MaxActions) /\ SumTo(w, 0) = 0
    /\ \A k \in 0 .. MaxActions : SumTo(w, k) \in Int
    /\ \A k \in ActionId :
          SumTo(w, k) = SumTo(w, k - 1) + (IF k \in DOMAIN w THEN w[k] ELSE 0)

LEMMA SumSteps ==
    ASSUME NEW S \in SUBSET ActionId, NEW w \in [S -> Int]
    PROVE  SumsUp(w)
<1>1. MaxActions \in Nat
      BY CapacityAssumption
<1>2. Pad(w) \in [1 .. MaxActions -> Int]
      BY DEF Pad, ActionId
<1>3. IsTotal(Totals(0, MaxActions, Pad(w)), 0, MaxActions, Pad(w))
      BY <1>1, <1>2, TotalsAdd
<1>4. \A k \in ActionId : Pad(w)[k] = IF k \in DOMAIN w THEN w[k] ELSE 0
      BY DEF Pad
<1>5. Sum(w) = SumTo(w, MaxActions)
      BY DEF Sum, SumTo, Pad
<1>6. \A k \in 1 .. MaxActions : SumTo(w, k) = SumTo(w, k - 1) + Pad(w)[k]
      BY <1>3 DEF IsTotal, SumTo
<1>7. SumTo(w, 0) = 0 /\ \A k \in 0 .. MaxActions : SumTo(w, k) \in Int
      BY <1>1, <1>3 DEF IsTotal, SumTo
<1> QED BY <1>4, <1>5, <1>6, <1>7 DEF SumsUp, ActionId

LEMMA SumIsInteger ==
    ASSUME NEW S \in SUBSET ActionId, NEW w \in [S -> Int]
    PROVE  Sum(w) \in Int
<1>1. SumsUp(w)
      BY SumSteps
<1>2. MaxActions \in 0 .. MaxActions
      BY CapacityAssumption
<1> QED BY <1>1, <1>2 DEF SumsUp

LEMMA SumOfParts ==
    ASSUME NEW A \in SUBSET ActionId, NEW B \in SUBSET ActionId, A \cap B = {},
           NEW w \in [A \cup B -> Int]
    PROVE  Sum(w) = Sum([i \in A |-> w[i]]) + Sum([i \in B |-> w[i]])
<1> DEFINE u == [i \in A |-> w[i]]
           v == [i \in B |-> w[i]]
           G == {k \in 0 .. MaxActions : SumTo(w, k) = SumTo(u, k) + SumTo(v, k)}
<1>1. MaxActions \in Nat
      BY CapacityAssumption
<1>2. u \in [A -> Int] /\ v \in [B -> Int] /\ A \cup B \in SUBSET ActionId
      OBVIOUS
<1>3. /\ \A i \in A : u[i] = w[i]
      /\ \A i \in B : v[i] = w[i]
      OBVIOUS
<1> HIDE DEF u, v
<1>4. SumsUp(u) /\ DOMAIN u = A
      BY <1>2, SumSteps
<1>5. SumsUp(v) /\ DOMAIN v = B
      BY <1>2, SumSteps
<1>6. SumsUp(w) /\ DOMAIN w = A \cup B
      BY <1>2, SumSteps
<1>7. 0 \in G
      BY <1>1, <1>4, <1>5, <1>6 DEF SumsUp
<1>8. ASSUME NEW k \in 1 .. MaxActions, k - 1 \in G PROVE k \in G
  <2>1. SumTo(w, k - 1) = SumTo(u, k - 1) + SumTo(v, k - 1)
        BY <1>8
  <2>2. k \in ActionId /\ k - 1 \in 0 .. MaxActions /\ k \in 0 .. MaxActions
        BY <1>1 DEF ActionId
  <2>3. /\ SumTo(u, k - 1) \in Int /\ SumTo(v, k - 1) \in Int
        /\ SumTo(w, k) = SumTo(w, k - 1) + (IF k \in A \cup B THEN w[k] ELSE 0)
        /\ SumTo(u, k) = SumTo(u, k - 1) + (IF k \in A THEN u[k] ELSE 0)
        /\ SumTo(v, k) = SumTo(v, k - 1) + (IF k \in B THEN v[k] ELSE 0)
        BY <1>4, <1>5, <1>6, <2>2 DEF SumsUp
  <2>4. SumTo(w, k) = SumTo(u, k) + SumTo(v, k)
    <3>1. CASE k \in A
          BY <1>3, <2>1, <2>3, <3>1
    <3>2. CASE k \in B
          BY <1>3, <2>1, <2>3, <3>2
    <3>3. CASE k \notin A \cup B
          BY <2>1, <2>3, <3>3
    <3> QED BY <3>1, <3>2, <3>3
  <2> QED BY <2>2, <2>4
<1>9. MaxActions \in G
  <2> HIDE DEF G
  <2>1. 0 .. MaxActions \subseteq G
        BY <1>1, <1>7, <1>8, EveryNumber
  <2> QED BY <1>1, <2>1
<1>10. Sum(w) = Sum(u) + Sum(v)
      BY <1>4, <1>5, <1>6, <1>9 DEF SumsUp
<1> QED BY <1>10 DEF u, v

LEMMA SumOfNone ==
    ASSUME NEW w \in [{} -> Int]
    PROVE  Sum(w) = 0
<1>1. w \in [{} \cup {} -> Int] /\ w = [i \in {} |-> w[i]]
      OBVIOUS
<1>2. \A A \in SUBSET ActionId : A = {} =>
          Sum(w) = Sum([i \in A |-> w[i]]) + Sum([i \in A |-> w[i]])
  <2>1. TAKE A \in SUBSET ActionId
  <2>2. HAVE A = {}
  <2>3. A \cap A = {} /\ w \in [A \cup A -> Int]
        BY <2>2
  <2> QED BY <2>3, SumOfParts, ZenonT(60)
<1>3. Sum(w) = Sum(w) + Sum(w)
      BY <1>1, <1>2
<1>4. Sum(w) \in Int
      BY SumIsInteger
<1> QED BY <1>3, <1>4

LEMMA SumOfOne ==
    ASSUME NEW x \in ActionId, NEW w \in [{x} -> Int]
    PROVE  Sum(w) = w[x]
<1> DEFINE G == {k \in 0 .. MaxActions : SumTo(w, k) = IF k < x THEN 0 ELSE w[x]}
<1>1. MaxActions \in Nat /\ x \in 1 .. MaxActions /\ w[x] \in Int
      BY CapacityAssumption DEF ActionId
<1>2. /\ Sum(w) = SumTo(w, MaxActions) /\ SumTo(w, 0) = 0
      /\ \A k \in ActionId : SumTo(w, k) = SumTo(w, k - 1) + (IF k \in {x} THEN w[k] ELSE 0)
  <2>1. SumsUp(w) /\ DOMAIN w = {x}
        BY SumSteps
  <2> QED BY <2>1 DEF SumsUp
<1>3. 0 \in G
      BY <1>1, <1>2
<1>4. ASSUME NEW k \in 1 .. MaxActions, k - 1 \in G PROVE k \in G
  <2>1. SumTo(w, k - 1) = IF k - 1 < x THEN 0 ELSE w[x]
        BY <1>4
  <2>2. SumTo(w, k) = SumTo(w, k - 1) + (IF k = x THEN w[k] ELSE 0)
        BY <1>2 DEF ActionId
  <2>3. SumTo(w, k) = IF k < x THEN 0 ELSE w[x]
    <3>1. CASE k < x
          BY <1>1, <2>1, <2>2, <3>1
    <3>2. CASE k = x
          BY <1>1, <2>1, <2>2, <3>2
    <3>3. CASE k > x
          BY <1>1, <2>1, <2>2, <3>3
    <3> QED BY <1>1, <3>1, <3>2, <3>3
  <2> QED BY <2>3
<1>5. MaxActions \in G
  <2> HIDE DEF G
  <2>1. 0 .. MaxActions \subseteq G
        BY <1>1, <1>3, <1>4, EveryNumber
  <2> QED BY <1>1, <2>1
<1> QED BY <1>1, <1>2, <1>5
-----------------------------------------------------------------------------
(* The order of actions.                                                   *)
RowsOK(table, ids) == ids \in SUBSET ActionId /\ \A i \in ids : table[i] \in ActionRow

LEMMA RowTypes ==
    ASSUME NEW table, NEW ids, RowsOK(table, ids), NEW i \in ids
    PROVE  /\ i \in ActionId /\ i \in Nat /\ table[i].at \in Moment /\ table[i].at \in Nat
           /\ Signed(table[i]) \in Int /\ table[i].cost \in Nat
           /\ Signed(table[i]) * table[i].cost \in Int
<1>1. i \in ActionId /\ i \in Nat /\ table[i] \in ActionRow
      BY DEF RowsOK, ActionId
<1>2. table[i].at \in Moment /\ table[i].amount \in Nat /\ table[i].cost \in Nat
      BY <1>1 DEF ActionRow
<1>3. table[i].at \in Nat
      BY <1>2, CapacityAssumption DEF Moment
<1>4. Signed(table[i]) \in Int
      BY <1>2 DEF Signed
<1> QED BY <1>1, <1>2, <1>3, <1>4

(* Of any actions one is the latest.                                       *)
LEMMA LatestExists ==
    ASSUME NEW table, NEW ids, RowsOK(table, ids), ids # {}
    PROVE  /\ Latest(table, ids) \in ids
           /\ \A j \in ids \ {Latest(table, ids)} : Before(table, j, Latest(table, ids))
<1> DEFINE Times == {table[i].at : i \in ids}
<1>1. \A i \in ids : table[i].at \in 0 .. LastMoment /\ i \in 0 .. MaxActions
  <2> TAKE i \in ids
  <2>1. i \in ActionId /\ table[i].at \in Moment
        BY RowTypes
  <2> QED BY <2>1, CapacityAssumption, SMTT(60) DEF ActionId, Moment
<1>2. LastMoment \in Nat /\ MaxActions \in Nat
      BY CapacityAssumption
<1>3. Times \in SUBSET (0 .. LastMoment) /\ Times # {}
      BY <1>1
<1>4. PICK t \in Times : \A u \in Times : u <= t
  <2> HIDE DEF Times
  <2> QED BY <1>2, <1>3, GreatestNumber
<1> DEFINE Last == {i \in ids : table[i].at = t}
<1>5. Last \in SUBSET (0 .. MaxActions) /\ Last # {}
      BY <1>1, <1>4
<1>6. PICK m \in Last : \A i \in Last : i <= m
  <2> HIDE DEF Last
  <2> QED BY <1>2, <1>5, GreatestNumber
<1>7. m \in ids /\ table[m].at = t
      OBVIOUS
<1>8. \A j \in ids \ {m} : Before(table, j, m)
  <2> TAKE j \in ids \ {m}
  <2>1. table[j].at <= t /\ table[j].at \in Nat /\ t \in Nat /\ j \in Nat /\ m \in Nat
        BY <1>1, <1>4, <1>7
  <2>2. table[j].at = t => j <= m
        BY <1>6
  <2> QED BY <1>7, <2>1, <2>2 DEF Before
<1> QED BY <1>7, <1>8 DEF Latest

IsOrder(s, table, ids) ==
    /\ s \in [1 .. Cardinality(ids) -> ids]
    /\ \A i \in ids : \E k \in 1 .. Cardinality(ids) : s[k] = i
    /\ \A k, l \in 1 .. Cardinality(ids) : k < l => Before(table, s[k], s[l])

LEMMA OrderGoesOn ==
    ASSUME NEW table, NEW ids, IsFiniteSet(ids), NEW x \in ids,
           \A j \in ids \ {x} : Before(table, j, x),
           NEW s, IsOrder(s, table, ids \ {x})
    PROVE  \E t : IsOrder(t, table, ids)
<1>1. PICK c \in Nat : c = Cardinality(ids \ {x}) /\ Cardinality(ids) = c + 1
  <2>1. Cardinality(ids) \in Nat /\ IsFiniteSet(ids \ {x}) /\ Cardinality(ids \ {x}) \in Nat
        BY FS_CardinalityType, FS_RemoveElement
  <2>2. Cardinality(ids \ {x}) = Cardinality(ids) - 1
        BY FS_RemoveElement
  <2> QED BY <2>1, <2>2
<1> DEFINE t == [k \in 1 .. c + 1 |-> IF k = c + 1 THEN x ELSE s[k]]
<1>2. /\ s \in [1 .. c -> ids \ {x}]
      /\ \A i \in ids \ {x} : \E k \in 1 .. c : s[k] = i
      /\ \A k, l \in 1 .. c : k < l => Before(table, s[k], s[l])
      BY <1>1 DEF IsOrder
<1>3. t[c + 1] = x /\ \A k \in 1 .. c : t[k] = s[k] /\ k \in 1 .. c + 1
      OBVIOUS
<1>4. t \in [1 .. c + 1 -> ids]
  <2> SUFFICES ASSUME NEW k \in 1 .. c + 1 PROVE t[k] \in ids
        OBVIOUS
  <2>1. CASE k = c + 1
        BY <2>1
  <2>2. CASE k # c + 1
    <3>1. k \in 1 .. c
          BY <2>2
    <3> QED BY <1>2, <1>3, <3>1
  <2> QED BY <2>1, <2>2
<1> HIDE DEF t
<1>5. ASSUME NEW i \in ids PROVE \E k \in 1 .. c + 1 : t[k] = i
  <2>1. CASE i = x
        BY <1>3, <2>1
  <2>2. CASE i # x
    <3>1. PICK k \in 1 .. c : s[k] = i
          BY <1>2, <2>2
    <3> QED BY <1>3, <3>1
  <2> QED BY <2>1, <2>2
<1>6. ASSUME NEW k \in 1 .. c + 1, NEW l \in 1 .. c + 1, k < l
      PROVE  Before(table, t[k], t[l])
  <2>1. k \in 1 .. c /\ t[k] = s[k] /\ s[k] \in ids \ {x}
        BY <1>2, <1>3, <1>6
  <2>2. CASE l = c + 1
        BY <1>3, <2>1, <2>2
  <2>3. CASE l # c + 1
    <3>1. l \in 1 .. c
          BY <2>3
    <3> QED BY <1>2, <1>3, <1>6, <2>1, <3>1
  <2> QED BY <2>2, <2>3
<1>7. IsOrder(t, table, ids)
      BY <1>1, <1>4, <1>5, <1>6 DEF IsOrder
<1> QED BY <1>7

LEMMA IdsAreFinite ==
    ASSUME NEW ids \in SUBSET ActionId
    PROVE  IsFiniteSet(ids) /\ Cardinality(ids) \in 0 .. MaxActions
<1>1. IsFiniteSet(1 .. MaxActions) /\ Cardinality(1 .. MaxActions) = MaxActions
  <2>1. 1 \in Int /\ MaxActions \in Int /\ MaxActions >= 0
        BY CapacityAssumption
  <2> QED BY <2>1, FS_Interval
<1>2. IsFiniteSet(ids) /\ Cardinality(ids) <= MaxActions
      BY <1>1, FS_Subset, ZenonT(60) DEF ActionId
<1>3. Cardinality(ids) \in Nat
      BY <1>2, FS_CardinalityType
<1> QED BY <1>2, <1>3, CapacityAssumption

LEMMA OrderExists ==
    ASSUME NEW table, NEW ids, RowsOK(table, ids)
    PROVE  IsOrder(InOrder(table, ids), table, ids)
<1> DEFINE G == {c \in 0 .. MaxActions :
                    \A some \in SUBSET ids : Cardinality(some) = c => \E s : IsOrder(s, table, some)}
<1>1. MaxActions \in Nat /\ \A some \in SUBSET ids : some \in SUBSET ActionId
      BY CapacityAssumption DEF RowsOK
<1>2. 0 \in G
  <2>1. ASSUME NEW some \in SUBSET ids, Cardinality(some) = 0
        PROVE  IsOrder([k \in {} |-> 0], table, some)
    <3>1. some = {}
          BY <1>1, <2>1, IdsAreFinite, FS_EmptySet
    <3>2. 1 .. 0 = {}
          OBVIOUS
    <3> QED BY <2>1, <3>1, <3>2 DEF IsOrder
  <2> QED BY <1>1, <2>1
<1>3. ASSUME NEW c \in 1 .. MaxActions, c - 1 \in G PROVE c \in G
  <2>1. ASSUME NEW some \in SUBSET ids, Cardinality(some) = c
        PROVE  \E s : IsOrder(s, table, some)
    <3>1. IsFiniteSet(some) /\ some # {} /\ some \in SUBSET ActionId
          BY <1>1, <2>1, IdsAreFinite, FS_EmptySet
    <3>2. RowsOK(table, some)
          BY DEF RowsOK
    <3>3. PICK x \in some : \A j \in some \ {x} : Before(table, j, x)
          BY <3>1, <3>2, LatestExists
    <3>4. some \ {x} \in SUBSET ids /\ Cardinality(some \ {x}) = c - 1
          BY <2>1, <3>1, FS_RemoveElement
    <3>5. PICK s : IsOrder(s, table, some \ {x})
          BY <1>3, <3>4
    <3> QED BY <3>1, <3>3, <3>5, OrderGoesOn
  <2> QED BY <2>1
<1>4. Cardinality(ids) \in G
  <2> HIDE DEF G
  <2>1. 0 .. MaxActions \subseteq G
        BY <1>1, <1>2, <1>3, EveryNumber
  <2>2. Cardinality(ids) \in 0 .. MaxActions
        BY IdsAreFinite DEF RowsOK
  <2> QED BY <2>1, <2>2
<1>5. PICK s : IsOrder(s, table, ids)
      BY <1>4
<1> DEFINE Ordered(f) == /\ \A i \in ids : \E k \in DOMAIN f : f[k] = i
                         /\ \A k, l \in DOMAIN f : k < l => Before(table, f[k], f[l])
<1>6. s \in [1 .. Cardinality(ids) -> ids] /\ Ordered(s)
      BY <1>5 DEF IsOrder
<1>7. InOrder(table, ids) = CHOOSE f \in [1 .. Cardinality(ids) -> ids] : Ordered(f)
      BY DEF InOrder
<1>8. InOrder(table, ids) \in [1 .. Cardinality(ids) -> ids] /\ Ordered(InOrder(table, ids))
  <2> HIDE DEF Ordered
  <2> QED BY <1>6, <1>7
<1> QED BY <1>8 DEF IsOrder
-----------------------------------------------------------------------------
(* Recalculation.                                                          *)
LEMMA AmountsInteger ==
    ASSUME NEW table, NEW ids, RowsOK(table, ids)
    PROVE  Amounts(table, ids) \in Int
<1>1. ids \in SUBSET ActionId /\ [i \in ids |-> Signed(table[i])] \in [ids -> Int]
      BY RowTypes DEF RowsOK
<1> QED BY <1>1, SumIsInteger DEF Amounts

LEMMA AmountsOfParts ==
    ASSUME NEW table, NEW A, NEW B, RowsOK(table, A \cup B), A \cap B = {}
    PROVE  Amounts(table, A \cup B) = Amounts(table, A) + Amounts(table, B)
<1> DEFINE w == [i \in A \cup B |-> Signed(table[i])]
<1>1. A \in SUBSET ActionId /\ B \in SUBSET ActionId /\ w \in [A \cup B -> Int]
      BY RowTypes DEF RowsOK
<1>2. /\ [i \in A |-> Signed(table[i])] = [i \in A |-> w[i]]
      /\ [i \in B |-> Signed(table[i])] = [i \in B |-> w[i]]
      OBVIOUS
<1>3. Sum(w) = Sum([i \in A |-> w[i]]) + Sum([i \in B |-> w[i]])
  <2> HIDE DEF w
  <2> QED BY <1>1, SumOfParts, ZenonT(60)
<1> QED BY <1>2, <1>3 DEF Amounts

LEMMA AmountsOfNone ==
    ASSUME NEW table
    PROVE  Amounts(table, {}) = 0
<1>1. [i \in {} |-> Signed(table[i])] \in [{} -> Int]
      OBVIOUS
<1> QED BY <1>1, SumOfNone DEF Amounts

LEMMA AmountsGrow ==
    ASSUME NEW table, NEW A, NEW x, RowsOK(table, A \cup {x}), x \notin A
    PROVE  Amounts(table, A \cup {x}) = Amounts(table, A) + Signed(table[x])
<1>1. A \cap {x} = {} /\ x \in ActionId
      BY DEF RowsOK
<1>2. Amounts(table, A \cup {x}) = Amounts(table, A) + Amounts(table, {x})
      BY <1>1, AmountsOfParts
<1> DEFINE w == [i \in {x} |-> Signed(table[i])]
<1>3. w \in [{x} -> Int] /\ w[x] = Signed(table[x])
      BY RowTypes
<1>4. Sum(w) = w[x]
  <2> HIDE DEF w
  <2> QED BY <1>1, <1>3, SumOfOne
<1> QED BY <1>2, <1>3, <1>4 DEF Amounts

(* The first k actions in order: each comes to what was entered before it. *)
Firsts(s, k) == {s[l] : l \in 1 .. k}

LEMMA OrderTellsEarlier ==
    ASSUME NEW table, NEW ids, RowsOK(table, ids), NEW s, IsOrder(s, table, ids),
           NEW k \in 1 .. Cardinality(ids)
    PROVE  /\ s[k] \in ids /\ s[k] \notin Firsts(s, k - 1)
           /\ Firsts(s, k) = Firsts(s, k - 1) \cup {s[k]}
           /\ Firsts(s, k - 1) \subseteq ids
           /\ Earlier(table, ids, s[k]) = Firsts(s, k - 1)
<1>1. PICK size \in Nat : size = Cardinality(ids)
      BY IdsAreFinite, CapacityAssumption DEF RowsOK
<1>2. k \in 1 .. size /\ \A l \in 1 .. size : s[l] \in ids
      BY <1>1 DEF IsOrder
<1>3. \A l, m \in 1 .. size : l < m => Before(table, s[l], s[m])
      BY <1>1 DEF IsOrder
<1>4. \A i \in ids : i \in Nat /\ table[i].at \in Nat
      BY RowTypes
<1>5. \A i, j \in ids : Before(table, i, j) => i # j /\ ~Before(table, j, i)
      BY <1>4 DEF Before
<1>6. Firsts(s, k) = Firsts(s, k - 1) \cup {s[k]}
  <2>1. 1 .. k = (1 .. k - 1) \cup {k}
        BY <1>2
  <2> QED BY <2>1 DEF Firsts
<1>7. \A l \in 1 .. k - 1 : l \in 1 .. size /\ l < k
      BY <1>2
<1>8. Firsts(s, k - 1) \subseteq ids /\ s[k] \notin Firsts(s, k - 1)
      BY <1>2, <1>3, <1>5, <1>7 DEF Firsts
<1>9. ASSUME NEW j \in ids PROVE Before(table, j, s[k]) <=> j \in Firsts(s, k - 1)
  <2>1. PICK l \in 1 .. size : s[l] = j
        BY <1>1 DEF IsOrder
  <2>2. CASE l < k
    <3>1. Before(table, j, s[k])
          BY <1>2, <1>3, <2>1, <2>2
    <3>2. l \in 1 .. k - 1
          BY <1>2, <2>2
    <3> QED BY <2>1, <3>1, <3>2 DEF Firsts
  <2>3. CASE l = k
        BY <1>2, <1>5, <1>8, <2>1, <2>3
  <2>4. CASE l > k
    <3>1. Before(table, s[k], j)
          BY <1>2, <1>3, <2>1, <2>4
    <3>2. ~Before(table, j, s[k])
          BY <1>2, <1>5, <3>1
    <3>3. j \notin Firsts(s, k - 1)
          BY <1>2, <1>3, <1>5, <1>7, <3>1, <3>2 DEF Firsts
    <3> QED BY <3>2, <3>3
  <2> QED BY <1>2, <2>2, <2>3, <2>4
<1>10. Earlier(table, ids, s[k]) = {j \in ids : Before(table, j, s[k])}
      BY DEF Earlier, Before
<1>11. Earlier(table, ids, s[k]) = Firsts(s, k - 1)
      BY <1>8, <1>9, <1>10
<1> QED BY <1>2, <1>6, <1>8, <1>11

LEMMA RunningTotal ==
    ASSUME NEW table, NEW ids, RowsOK(table, ids), NEW s, IsOrder(s, table, ids),
           NEW base \in Int, NEW total,
           IsTotal(total, base, Cardinality(ids), [k \in 1 .. Cardinality(ids) |-> Signed(table[s[k]])]),
           NEW m \in 0 .. Cardinality(ids)
    PROVE  total[m] = base + Amounts(table, Firsts(s, m))
<1>1. PICK size \in Nat : size = Cardinality(ids)
      BY IdsAreFinite, CapacityAssumption DEF RowsOK
<1> DEFINE G == {k \in 0 .. size : total[k] = base + Amounts(table, Firsts(s, k))}
<1>2. total[0] = base /\ \A k \in 1 .. size : total[k] = total[k - 1] + Signed(table[s[k]])
      BY <1>1 DEF IsTotal
<1>3. 0 \in G
  <2>1. Firsts(s, 0) = {}
        BY DEF Firsts
  <2>2. Amounts(table, Firsts(s, 0)) = 0
        BY <2>1, AmountsOfNone
  <2>3. total[0] = base + Amounts(table, Firsts(s, 0)) /\ 0 \in 0 .. size
        BY <1>1, <1>2, <2>2
  <2> QED BY <2>3
<1>4. ASSUME NEW k \in 1 .. size, k - 1 \in G PROVE k \in G
  <2>1. total[k - 1] = base + Amounts(table, Firsts(s, k - 1))
        BY <1>4
  <2>2. /\ s[k] \in ids /\ s[k] \notin Firsts(s, k - 1)
        /\ Firsts(s, k) = Firsts(s, k - 1) \cup {s[k]} /\ Firsts(s, k - 1) \subseteq ids
        BY <1>1, OrderTellsEarlier
  <2>3. RowsOK(table, Firsts(s, k - 1)) /\ RowsOK(table, Firsts(s, k - 1) \cup {s[k]})
        BY <2>2 DEF RowsOK
  <2>4. Amounts(table, Firsts(s, k)) = Amounts(table, Firsts(s, k - 1)) + Signed(table[s[k]])
        BY <2>2, <2>3, AmountsGrow
  <2>5. Amounts(table, Firsts(s, k - 1)) \in Int /\ Signed(table[s[k]]) \in Int
        BY <2>2, <2>3, AmountsInteger, RowTypes
  <2>6. total[k] = base + Amounts(table, Firsts(s, k))
        BY <1>2, <2>1, <2>4, <2>5
  <2> QED BY <2>6
<1>5. m \in G
  <2> HIDE DEF G
  <2>1. 0 .. size \subseteq G
        BY <1>3, <1>4, EveryNumber
  <2> QED BY <1>1, <2>1
<1> QED BY <1>5

(* What recalculateCapacityNode writes adds up, and is typed.              *)
LEMMA RecalculatedAddsUp ==
    ASSUME NEW table, NEW n, RowsOK(table, OfNode(table, n)), NEW initial \in Int
    PROVE  LET done == Recalculated(table, n, initial) IN
             /\ AddsUp(table, done.book, n, initial, done.current)
             /\ DOMAIN done.book = OfNode(table, n) /\ done.current \in Int
             /\ done.book \in [OfNode(table, n) -> BookRow]
<1> DEFINE mine == OfNode(table, n)
           s == InOrder(table, mine)
           done == Recalculated(table, n, initial)
<1> HIDE DEF mine, s
<1>1. PICK size \in Nat : size = Cardinality(mine)
      BY IdsAreFinite, CapacityAssumption DEF RowsOK, mine
<1>2. RowsOK(table, mine) /\ IsOrder(s, table, mine)
      BY OrderExists DEF mine, s
<1> DEFINE step == [k \in 1 .. size |-> Signed(table[s[k]])]
           total == Totals(initial, size, step)
           row(i) == LET k == CHOOSE k \in 1 .. size : s[k] = i
                     IN  [before |-> total[k - 1], after |-> total[k],
                          total |-> Signed(table[i]) * table[i].cost]
<1>3. done = [book |-> [i \in mine |-> row(i)], current |-> total[size]]
      BY <1>1 DEF Recalculated, mine, s
<1> DEFINE book == [i \in mine |-> row(i)]
<1>3a. done.book = book /\ \A i \in mine : book[i] = row(i)
      BY <1>3
<1>4. /\ s \in [1 .. size -> mine]
      /\ \A i \in mine : \E k \in 1 .. size : s[k] = i
      BY <1>1, <1>2 DEF IsOrder
<1>5. step \in [1 .. size -> Int]
  <2>1. \A k \in 1 .. size : s[k] \in mine
        BY <1>4
  <2> QED BY <1>2, <2>1, RowTypes
<1>6. IsTotal(total, initial, size, step)
  <2> HIDE DEF step
  <2> QED BY <1>5, TotalsAdd
<1> HIDE DEF total
<1>7. \A k \in 0 .. size : total[k] = initial + Amounts(table, Firsts(s, k)) /\ total[k] \in Int
  <2>1. \A k \in 0 .. size : total[k] \in Int
        BY <1>6 DEF IsTotal
  <2> QED BY <1>1, <1>2, <1>6, <2>1, RunningTotal
<1>8. Firsts(s, size) = mine
      BY <1>4 DEF Firsts
<1>9. done.current = initial + Amounts(table, mine) /\ done.current \in Int
      BY <1>3, <1>7, <1>8
<1>10. ASSUME NEW i \in mine
       PROVE  /\ done.book[i] \in BookRow
              /\ done.book[i].before = initial + Amounts(table, Earlier(table, mine, i))
              /\ done.book[i].after = done.book[i].before + Signed(table[i])
              /\ done.book[i].total = Signed(table[i]) * table[i].cost
  <2>1. PICK k \in 1 .. size : s[k] = i /\ done.book[i] = [before |-> total[k - 1],
                  after |-> total[k], total |-> Signed(table[i]) * table[i].cost]
    <3> DEFINE c == CHOOSE k \in 1 .. size : s[k] = i
    <3>1. c \in 1 .. size /\ s[c] = i
          BY <1>4
    <3>2. done.book[i] = [before |-> total[c - 1], after |-> total[c],
                            total |-> Signed(table[i]) * table[i].cost]
          BY <1>3a
    <3> HIDE DEF c, done
    <3> QED BY <3>1, <3>2
  <2>2. Earlier(table, mine, i) = Firsts(s, k - 1)
        BY <1>1, <1>2, <2>1, OrderTellsEarlier
  <2>3. k - 1 \in 0 .. size /\ k \in 0 .. size
        OBVIOUS
  <2>4. total[k] = total[k - 1] + Signed(table[i])
        BY <1>6, <2>1 DEF IsTotal
  <2>5. Signed(table[i]) * table[i].cost \in Int
        BY <1>2, RowTypes
  <2> QED BY <1>7, <2>1, <2>2, <2>3, <2>4, <2>5 DEF BookRow
<1>11. AddsUp(table, done.book, n, initial, done.current)
  <2> HIDE DEF done
  <2> QED BY <1>9, <1>10 DEF AddsUp, mine
<1>12. done.book \in [mine -> BookRow] /\ DOMAIN done.book = mine
  <2>1. \A i \in mine : book[i] \in BookRow
        BY <1>10, <1>3a
  <2>2. book \in [mine -> BookRow] /\ DOMAIN book = mine
    <3>1. DOMAIN book = mine /\ book = [i \in mine |-> book[i]]
          OBVIOUS
    <3> HIDE DEF book
    <3> QED BY <2>1, <3>1
  <2> HIDE DEF book
  <2> QED BY <1>3a, <2>2
<1> QED BY <1>9, <1>11, <1>12 DEF mine
-----------------------------------------------------------------------------
(* The inductive invariant.                                                *)
Partial(S, T) == UNION {[D -> T] : D \in SUBSET S}
Lock == {"key", "share", "node", "name", "action"} \X (Key \cup Nat)
TxState ==
    [pc : {"idle", "edit", "recalc", "commit"},
     own : Partial(ActionId, ActionRow), dropped : SUBSET ActionId,
     ownNode : Partial(NodeId, NodeRow), book : Partial(ActionId, BookRow),
     capacity : Partial(NodeId, Int), locks : SUBSET Lock,
     todo : SUBSET NodeId, fresh : SUBSET NodeId, id : Nat, node : Nat, cost : Nat]

(* The nodes a transaction works on; it writes rows of ids given out.      *)
Bounded(t) ==
    /\ DOMAIN t.own \cup t.dropped \cup DOMAIN t.book \subseteq 1 .. lastAction
    /\ Edited(t) \subseteq 1 .. lastNode /\ t.fresh \subseteq DOMAIN t.capacity

(* Outside a transaction nothing is written and nothing locked; it commits *)
(* when nothing is left to recalculate.                                    *)
WritesNothing(t) ==
    /\ DOMAIN t.own = {} /\ t.dropped = {} /\ DOMAIN t.ownNode = {} /\ DOMAIN t.book = {}
    /\ Edited(t) = {} /\ t.locks = {} /\ t.fresh = {}
InPhase(t) ==
    /\ t.pc \in {"idle", "edit"} => WritesNothing(t)
    /\ t.pc = "commit" => t.todo = {}

(* It holds the committed nodes it works on, by a lock that keeps them from*)
(* being deleted, and creates the others; one that found no action to edit *)
(* holds nothing.                                                          *)
Holds(t, n) ==
    \/ t.locks = {} \/ <<"node", n>> \in t.locks \/ <<"share", n>> \in t.locks
    \/ \E i \in DOMAIN actions : actions[i].node = n /\ <<"action", i>> \in t.locks
NodesHeld(t) ==
    /\ DOMAIN t.ownNode \subseteq Edited(t)
    /\ \A n \in Edited(t) : IF n \in DOMAIN nodes THEN Holds(t, n) ELSE n \in DOMAIN t.ownNode

(* It holds the committed actions it edits; what it writes of actions      *)
(* belongs to nodes it works on.                                           *)
RowsHeld(t) ==
    /\ \A i \in DOMAIN t.own :
          /\ t.own[i].node \in Edited(t)
          /\ i \in DOMAIN actions => <<"action", i>> \in t.locks /\ t.own[i].node = actions[i].node
          /\ i \notin DOMAIN actions => i \in DOMAIN t.book
    /\ \A i \in t.dropped :
          i \in DOMAIN actions /\ <<"action", i>> \in t.locks /\ actions[i].node \in Edited(t)
    /\ \A i \in DOMAIN t.book \cap DOMAIN actions : actions[i].node \in Edited(t)

Legal(t) == t \in TxState /\ Bounded(t) /\ InPhase(t) /\ NodesHeld(t) /\ RowsHeld(t)

(* Two transactions share only what is committed, and edit no one action.  *)
Apart(t, u) ==
    /\ Edited(t) \cap Edited(u) \subseteq DOMAIN nodes
    /\ DOMAIN t.own \cap (DOMAIN u.own \cup DOMAIN u.book) \subseteq DOMAIN actions
    /\ DOMAIN u.own \cap DOMAIN t.book \subseteq DOMAIN actions
    /\ \A i \in ActionId : ~(<<"action", i>> \in t.locks /\ <<"action", i>> \in u.locks)

(* A node that no commit has touched since a transaction recalculated it   *)
(* adds up in what the transaction sees.                                   *)
SeenNodes(t) == Over(t.ownNode, nodes)
SeenCurrent(t) == [n \in DOMAIN SeenNodes(t) |-> Over(t.capacity, current)[n]]
SeenActions(t) ==
    [i \in (DOMAIN t.own \cup DOMAIN actions) \ t.dropped |-> Over(t.own, actions)[i]]
SeenLedger(t) == [i \in DOMAIN SeenActions(t) |-> Over(t.book, ledger)[i]]
SeenAddsUp(t, n) ==
    AddsUp(SeenActions(t), SeenLedger(t), n, SeenNodes(t)[n].initial, SeenCurrent(t)[n])
FreshAddsUp(t) == \A n \in t.fresh : SeenAddsUp(t, n)

IInv ==
    /\ TypeOK /\ tx \in [Request -> TxState]
    /\ \A r \in Request : Legal(tx[r]) /\ FreshAddsUp(tx[r])
    /\ \A r, s \in Request : r # s => Apart(tx[r], tx[s])
    /\ LedgerAddsUp
-----------------------------------------------------------------------------
LEMMA NothingIsPartial ==
    ASSUME NEW S, NEW T
    PROVE  Nothing \in Partial(S, T) /\ DOMAIN Nothing = {}
<1>1. Nothing \in [{} -> T] /\ DOMAIN Nothing = {}
      BY DEF Nothing
<1> QED BY <1>1 DEF Partial

LEMMA JustIsPartial ==
    ASSUME NEW S, NEW T, NEW x \in S, NEW row \in T
    PROVE  /\ Just(x, row) \in Partial(S, T)
           /\ DOMAIN Just(x, row) = {x} /\ Just(x, row)[x] = row
<1>1. Just(x, row) \in [{x} -> T] /\ DOMAIN Just(x, row) = {x} /\ Just(x, row)[x] = row
      BY DEF Just
<1> QED BY <1>1 DEF Partial

LEMMA FunctionIsPartial ==
    ASSUME NEW S, NEW T, NEW D \in SUBSET S, NEW f \in [D -> T]
    PROVE  f \in Partial(S, T) /\ DOMAIN f = D
BY DEF Partial

LEMMA PartialFacts ==
    ASSUME NEW S, NEW T, NEW f \in Partial(S, T)
    PROVE  DOMAIN f \in SUBSET S /\ f \in [DOMAIN f -> T] /\ \A x \in DOMAIN f : f[x] \in T
<1>1. PICK D \in SUBSET S : f \in [D -> T]
      BY DEF Partial
<1> QED BY <1>1

LEMMA OverFacts ==
    ASSUME NEW f, NEW g
    PROVE  /\ DOMAIN Over(f, g) = DOMAIN f \cup DOMAIN g
           /\ \A x \in DOMAIN f : Over(f, g)[x] = f[x]
           /\ \A x \in DOMAIN g \ DOMAIN f : Over(f, g)[x] = g[x]
BY DEF Over

LEMMA OverIsPartial ==
    ASSUME NEW S, NEW T, NEW f \in Partial(S, T), NEW g \in Partial(S, T)
    PROVE  Over(f, g) \in Partial(S, T)
<1>1. /\ DOMAIN f \in SUBSET S /\ \A x \in DOMAIN f : f[x] \in T
      /\ DOMAIN g \in SUBSET S /\ \A x \in DOMAIN g : g[x] \in T
      BY PartialFacts
<1>2. DOMAIN f \cup DOMAIN g \in SUBSET S /\ Over(f, g) \in [DOMAIN f \cup DOMAIN g -> T]
      BY <1>1 DEF Over
<1> QED BY <1>2, FunctionIsPartial

LEMMA TxFacts ==
    ASSUME NEW t \in TxState
    PROVE  /\ t.own \in Partial(ActionId, ActionRow) /\ t.dropped \subseteq ActionId
           /\ t.ownNode \in Partial(NodeId, NodeRow) /\ t.book \in Partial(ActionId, BookRow)
           /\ t.capacity \in Partial(NodeId, Int) /\ t.todo \subseteq NodeId
           /\ t.fresh \subseteq NodeId /\ t.id \in Nat /\ t.node \in Nat /\ t.cost \in Nat
           /\ t.locks \subseteq Lock
           /\ t.pc \in {"idle", "edit", "recalc", "commit"}
           /\ DOMAIN t.own \subseteq ActionId /\ \A i \in DOMAIN t.own : t.own[i] \in ActionRow
           /\ DOMAIN t.book \subseteq ActionId /\ \A i \in DOMAIN t.book : t.book[i] \in BookRow
           /\ DOMAIN t.ownNode \subseteq NodeId
           /\ \A n \in DOMAIN t.ownNode : t.ownNode[n] \in NodeRow
           /\ DOMAIN t.capacity \subseteq NodeId
           /\ \A n \in DOMAIN t.capacity : t.capacity[n] \in Int
<1>1. /\ t.own \in Partial(ActionId, ActionRow) /\ t.dropped \subseteq ActionId
      /\ t.ownNode \in Partial(NodeId, NodeRow) /\ t.book \in Partial(ActionId, BookRow)
      /\ t.capacity \in Partial(NodeId, Int) /\ t.todo \subseteq NodeId
      /\ t.fresh \subseteq NodeId /\ t.id \in Nat /\ t.node \in Nat /\ t.cost \in Nat
      /\ t.locks \subseteq Lock
      /\ t.pc \in {"idle", "edit", "recalc", "commit"}
      BY DEF TxState
<1>2. DOMAIN t.own \subseteq ActionId /\ \A i \in DOMAIN t.own : t.own[i] \in ActionRow
      BY <1>1, PartialFacts
<1>3. DOMAIN t.book \subseteq ActionId /\ \A i \in DOMAIN t.book : t.book[i] \in BookRow
      BY <1>1, PartialFacts
<1>4. DOMAIN t.ownNode \subseteq NodeId /\ \A n \in DOMAIN t.ownNode : t.ownNode[n] \in NodeRow
      BY <1>1, PartialFacts
<1>5. DOMAIN t.capacity \subseteq NodeId /\ \A n \in DOMAIN t.capacity : t.capacity[n] \in Int
      BY <1>1, PartialFacts
<1> QED BY <1>1, <1>2, <1>3, <1>4, <1>5

LEMMA IdleIsLegal ==
    ASSUME TypeOK
    PROVE  Legal(IdleTx) /\ FreshAddsUp(IdleTx) /\ WritesNothing(IdleTx) /\ IdleTx.pc = "idle"
<1>1. IdleTx \in TxState
      BY NothingIsPartial DEF IdleTx, TxState
<1>2. /\ DOMAIN IdleTx.own = {} /\ IdleTx.dropped = {} /\ DOMAIN IdleTx.ownNode = {}
      /\ DOMAIN IdleTx.book = {} /\ DOMAIN IdleTx.capacity = {} /\ IdleTx.locks = {}
      /\ IdleTx.todo = {} /\ IdleTx.fresh = {} /\ IdleTx.pc = "idle"
      BY NothingIsPartial DEF IdleTx
<1>3. WritesNothing(IdleTx)
      BY <1>2 DEF WritesNothing, Edited
<1> QED BY <1>1, <1>2, <1>3 DEF Legal, Bounded, InPhase, NodesHeld, RowsHeld, WritesNothing, FreshAddsUp

LEMMA ApartIsSymmetric ==
    ASSUME NEW t, NEW u, Apart(t, u)
    PROVE  Apart(u, t)
BY DEF Apart

LEMMA BlankIsApart ==
    ASSUME NEW t, NEW u, WritesNothing(t)
    PROVE  Apart(t, u) /\ Apart(u, t)
BY DEF WritesNothing, Apart

LEMMA VisibleIsSeen ==
    ASSUME NEW r
    PROVE  /\ VisibleNodes(r) = SeenNodes(tx[r]) /\ VisibleCurrent(r) = SeenCurrent(tx[r])
           /\ VisibleActions(r) = SeenActions(tx[r]) /\ VisibleLedger(r) = SeenLedger(tx[r])
BY DEF VisibleNodes, VisibleCurrent, VisibleActions, VisibleLedger,
       SeenNodes, SeenCurrent, SeenActions, SeenLedger

(* Whether a node adds up depends on its rows only.                        *)
LEMMA AddsUpAlike ==
    ASSUME NEW A, NEW L, NEW B, NEW M, NEW n, NEW initial, NEW total,
           OfNode(B, n) = OfNode(A, n),
           \A i \in OfNode(A, n) : B[i] = A[i] /\ M[i] = L[i],
           AddsUp(A, L, n, initial, total)
    PROVE  AddsUp(B, M, n, initial, total)
<1> DEFINE mine == OfNode(A, n)
<1>1. \A ids \in SUBSET mine : Amounts(B, ids) = Amounts(A, ids)
  <2> TAKE ids \in SUBSET mine
  <2>1. [i \in ids |-> Signed(B[i])] = [i \in ids |-> Signed(A[i])]
        OBVIOUS
  <2> QED BY <2>1 DEF Amounts
<1>2. \A i \in mine : /\ Earlier(B, mine, i) = Earlier(A, mine, i)
                      /\ Earlier(A, mine, i) \in SUBSET mine
      BY DEF Earlier
<1>3. \A i \in mine : Amounts(B, Earlier(B, mine, i)) = Amounts(A, Earlier(A, mine, i))
      BY <1>1, <1>2
<1>4. mine = OfNode(B, n) /\ Amounts(B, mine) = Amounts(A, mine)
      BY <1>1
<1> HIDE DEF mine
<1>5. /\ total = initial + Amounts(A, mine)
      /\ \A i \in mine : /\ L[i].before = initial + Amounts(A, Earlier(A, mine, i))
                         /\ L[i].after = L[i].before + Signed(A[i])
                         /\ L[i].total = Signed(A[i]) * A[i].cost
      BY DEF AddsUp, mine
<1>6. \A i \in mine : B[i] = A[i] /\ M[i] = L[i]
      BY DEF mine
<1>7. /\ total = initial + Amounts(B, mine)
      /\ \A i \in mine : /\ M[i].before = initial + Amounts(B, Earlier(B, mine, i))
                         /\ M[i].after = M[i].before + Signed(B[i])
                         /\ M[i].total = Signed(B[i]) * B[i].cost
      BY <1>3, <1>4, <1>5, <1>6
<1> QED BY <1>4, <1>7 DEF AddsUp
-----------------------------------------------------------------------------
(* A step of one transaction that leaves the tables alone.                 *)
LEMMA LegalLasts ==
    ASSUME NEW t, Legal(t), TypeOK, TypeOK', UNCHANGED tables,
           lastNode <= lastNode', lastAction <= lastAction'
    PROVE  Legal(t)'
<1>1. PICK n \in Nat, a \in Nat : n = lastNode /\ a = lastAction
      BY CapacityAssumption DEF TypeOK
<1>2. PICK m \in Nat, b \in Nat : m = lastNode' /\ b = lastAction'
      BY CapacityAssumption DEF TypeOK
<1>3. 1 .. n \subseteq 1 .. m /\ 1 .. a \subseteq 1 .. b
      BY <1>1, <1>2
<1>4. Bounded(t)'
      BY <1>1, <1>2, <1>3 DEF Legal, Bounded
<1>5. nodes' = nodes /\ actions' = actions
      BY DEF tables
<1>6. NodesHeld(t)' /\ RowsHeld(t)'
      BY <1>5 DEF Legal, NodesHeld, RowsHeld, Holds
<1> QED BY <1>4, <1>6 DEF Legal

LEMMA OneTransactionSteps ==
    ASSUME IInv, NEW r \in Request, NEW t, tx' = [tx EXCEPT ![r] = t],
           UNCHANGED <<tables, skewed>>, TypeOK',
           lastNode <= lastNode', lastAction <= lastAction',
           Legal(t)', FreshAddsUp(t), \A s \in Request \ {r} : Apart(t, tx[s])
    PROVE  IInv'
<1>1. t \in TxState /\ tx \in [Request -> TxState] /\ TypeOK
      BY DEF Legal, IInv
<1>2. tx' \in [Request -> TxState] /\ tx'[r] = t /\ \A s \in Request \ {r} : tx'[s] = tx[s]
      BY <1>1
<1>3. nodes' = nodes /\ current' = current /\ actions' = actions /\ ledger' = ledger /\ skewed' = skewed
      BY DEF tables
<1>4. ASSUME NEW s \in Request PROVE Legal(tx[s])' /\ FreshAddsUp(tx[s])'
  <2>1. CASE s = r
    <3>1. FreshAddsUp(t)'
          BY <1>3 DEF FreshAddsUp, SeenAddsUp, SeenActions, SeenLedger, SeenNodes, SeenCurrent
    <3> QED BY <1>2, <2>1, <3>1
  <2>2. CASE s # r
    <3>1. PICK u : u = tx[s] /\ u = tx'[s]
          BY <1>2, <2>2
    <3>2. Legal(u) /\ FreshAddsUp(u)
          BY <3>1 DEF IInv
    <3>3. Legal(u)'
          BY <1>1, <3>2, LegalLasts
    <3>4. FreshAddsUp(u)'
          BY <1>3, <3>2 DEF FreshAddsUp, SeenAddsUp, SeenActions, SeenLedger, SeenNodes, SeenCurrent
    <3> QED BY <3>1, <3>3, <3>4
  <2> QED BY <2>1, <2>2
<1>5. ASSUME NEW s \in Request, NEW q \in Request, s # q PROVE Apart(tx[s], tx[q])'
  <2>1. PICK u, v : u = tx'[s] /\ v = tx'[q]
        OBVIOUS
  <2>2. Apart(u, v)
    <3>1. CASE s = r
          BY <1>2, <1>5, <2>1, <3>1
    <3>2. CASE q = r
          BY <1>2, <1>5, <2>1, <3>2, ApartIsSymmetric
    <3>3. CASE s # r /\ q # r
          BY <1>2, <1>5, <2>1, <3>3 DEF IInv
    <3> QED BY <3>1, <3>2, <3>3
  <2>3. Apart(u, v)'
        BY <1>3, <2>2 DEF Apart
  <2> QED BY <2>1, <2>3
<1>6. LedgerAddsUp'
      BY <1>3 DEF IInv, LedgerAddsUp
<1> QED BY <1>2, <1>4, <1>5, <1>6 DEF IInv

LEMMA Counted ==
    ASSUME IInv, NEW r, Begins(r)
    PROVE  requests' \in 0 .. MaxRequests
<1>1. PICK q \in 0 .. MaxRequests : q = requests
      BY DEF IInv, TypeOK
<1> QED BY <1>1, CapacityAssumption DEF Begins

LEMMA TypesStay ==
    ASSUME TypeOK, UNCHANGED <<tables, skewed>>, requests' \in 0 .. MaxRequests,
           faults' \in 0 .. MaxFaults, lastNode' \in 0 .. MaxNodes, lastAction' \in 0 .. MaxActions,
           lastNode <= lastNode', lastAction <= lastAction'
    PROVE  TypeOK'
<1>1. PICK n \in Nat, a \in Nat : n = lastNode /\ a = lastAction
      BY CapacityAssumption DEF TypeOK
<1>2. PICK m \in Nat, b \in Nat : m = lastNode' /\ b = lastAction'
      BY CapacityAssumption
<1>3. 1 .. n \subseteq 1 .. m /\ 1 .. a \subseteq 1 .. b
      BY <1>1, <1>2
<1> QED BY <1>1, <1>2, <1>3 DEF TypeOK, tables

(* A transaction that only begins: nothing is recalculated yet.            *)
LEMMA NothingFresh ==
    ASSUME NEW t, t.fresh = {}
    PROVE  FreshAddsUp(t)
BY DEF FreshAddsUp

LEMMA LockTypes ==
    /\ \A n \in NodeId : /\ n \in Nat /\ <<"node", n>> \in Lock /\ <<"share", n>> \in Lock
                         /\ <<"name", n>> \in Lock
    /\ \A i \in ActionId : i \in Nat /\ <<"action", i>> \in Lock
    /\ \A k \in Key : <<"key", k>> \in Lock
BY DEF NodeId, ActionId, Lock

LEMMA RowNodes ==
    ASSUME TypeOK
    PROVE  /\ DOMAIN nodes \subseteq NodeId /\ DOMAIN actions \subseteq ActionId
           /\ \A n \in DOMAIN nodes : n \in 1 .. lastNode
           /\ \A i \in DOMAIN actions : i \in 1 .. lastAction /\ actions[i].node \in DOMAIN nodes
           /\ lastNode \in Nat /\ lastAction \in Nat
           /\ 1 .. lastNode \subseteq NodeId /\ 1 .. lastAction \subseteq ActionId
<1>1. PICK n \in 0 .. MaxNodes, a \in 0 .. MaxActions : n = lastNode /\ a = lastAction
      BY DEF TypeOK
<1>2. 1 .. n \subseteq NodeId /\ 1 .. a \subseteq ActionId /\ n \in Nat /\ a \in Nat
      BY CapacityAssumption DEF NodeId, ActionId
<1> QED BY <1>1, <1>2 DEF TypeOK
-----------------------------------------------------------------------------
LEMMA EditOpens ==
    ASSUME IInv, NEW r \in Request, NEW t, tx' = [tx EXCEPT ![r] = t],
           UNCHANGED <<tables, skewed, faults>>, requests' \in 0 .. MaxRequests,
           lastNode' \in 0 .. MaxNodes, lastAction' \in 0 .. MaxActions,
           lastNode <= lastNode', lastAction <= lastAction',
           t \in TxState, Bounded(t)', InPhase(t), NodesHeld(t), RowsHeld(t), t.fresh = {},
           \A s \in Request \ {r} : Apart(t, tx[s])
    PROVE  IInv'
<1>1. UNCHANGED <<tables, skewed>> /\ UNCHANGED tables /\ TypeOK
      BY DEF IInv
<1>2. TypeOK'
  <2>1. faults' \in 0 .. MaxFaults
        BY <1>1 DEF TypeOK
  <2> QED BY <1>1, <2>1, TypesStay
<1>3. NodesHeld(t)' /\ RowsHeld(t)'
      BY DEF NodesHeld, RowsHeld, Holds, tables
<1>4. Legal(t)'
      BY <1>3 DEF Legal, InPhase, WritesNothing, Edited
<1>5. FreshAddsUp(t)
      BY NothingFresh
<1> QED BY <1>1, <1>2, <1>4, <1>5, OneTransactionSteps

LEMMA UpdateNodeKeeps ==
    ASSUME IInv, NEW r \in Request, UpdateNode(r)
    PROVE  IInv'
<1>1. PICK n \in DOMAIN nodes, k \in Key, c \in Initial :
          Set(r, [IdleTx EXCEPT !.pc = "recalc", !.todo = {n},
                    !.ownNode = Just(n, [key |-> k, initial |-> c]),
                    !.locks = {<<"node", n>>} \cup
                       (IF nodes[n].key = k THEN {} ELSE {<<"name", n>>, <<"key", k>>})])
      BY DEF UpdateNode
<1>2. PICK locks : locks = {<<"node", n>>} \cup
                       (IF nodes[n].key = k THEN {} ELSE {<<"name", n>>, <<"key", k>>})
      OBVIOUS
<1>3. PICK row : row = Just(n, [key |-> k, initial |-> c])
      OBVIOUS
<1>4. PICK t : t = [IdleTx EXCEPT !.pc = "recalc", !.todo = {n}, !.ownNode = row, !.locks = locks]
      OBVIOUS
<1>5. tx' = [tx EXCEPT ![r] = t]
      BY <1>1, <1>2, <1>3, <1>4 DEF Set
<1>6. TypeOK /\ n \in NodeId /\ n \in 1 .. lastNode
      BY RowNodes DEF IInv
<1>7. row \in Partial(NodeId, NodeRow) /\ DOMAIN row = {n}
  <2>1. [key |-> k, initial |-> c] \in NodeRow
        BY CapacityAssumption DEF NodeRow
  <2> QED BY <1>3, <1>6, <2>1, JustIsPartial
<1>8. locks \subseteq Lock /\ <<"node", n>> \in locks /\ \A i \in ActionId : <<"action", i>> \notin locks
  <2>1. locks \subseteq {<<"node", n>>, <<"name", n>>, <<"key", k>>} /\ <<"node", n>> \in locks
        BY <1>2
  <2> QED BY <1>6, <2>1, LockTypes
<1>9. /\ t.pc = "recalc" /\ t.todo = {n} /\ t.ownNode = row /\ t.locks = locks /\ t.own = Nothing
      /\ t.dropped = {} /\ t.book = Nothing /\ t.capacity = Nothing /\ t.fresh = {}
      BY <1>4 DEF IdleTx
<1>10. t \in TxState
      BY <1>4, <1>6, <1>7, <1>8, NothingIsPartial DEF IdleTx, TxState
<1>11. DOMAIN t.own = {} /\ DOMAIN t.book = {} /\ DOMAIN t.capacity = {} /\ Edited(t) = {n}
      BY <1>9, NothingIsPartial DEF Edited
<1>12. InPhase(t) /\ NodesHeld(t) /\ RowsHeld(t)
  <2>1. NodesHeld(t)
        BY <1>7, <1>8, <1>9, <1>11 DEF NodesHeld, Holds
  <2> QED BY <1>9, <1>11, <2>1 DEF RowsHeld, InPhase
<1>13. /\ UNCHANGED <<tables, skewed, faults>> /\ Begins(r)
       /\ lastNode' = lastNode /\ lastAction' = lastAction
      BY DEF UpdateNode
<1>14. /\ lastNode' \in 0 .. MaxNodes /\ lastAction' \in 0 .. MaxActions
       /\ lastNode <= lastNode' /\ lastAction <= lastAction'
      BY <1>6, <1>13, RowNodes DEF TypeOK
<1>15. Bounded(t)'
      BY <1>6, <1>9, <1>11, <1>13 DEF Bounded
<1>16. \A s \in Request \ {r} : Apart(t, tx[s])
      BY <1>8, <1>9, <1>11 DEF Apart
<1>17. requests' \in 0 .. MaxRequests /\ t.fresh = {}
      BY <1>9, <1>13, Counted
<1> QED BY <1>5, <1>10, <1>12, <1>13, <1>14, <1>15, <1>16, <1>17, EditOpens

LEMMA EnteredIsARow ==
    ASSUME NEW n \in NodeId, NEW input \in Input, NEW sees \in BOOLEAN
    PROVE  Entered(n, input, sees) \in ActionRow /\ Entered(n, input, sees).node = n
<1>1. input \in Entry
      BY CapacityAssumption
<1> QED BY <1>1 DEF Entry, Entered, ActionRow

LEMMA CreateActionKeeps ==
    ASSUME IInv, NEW r \in Request, CreateAction(r)
    PROVE  IInv'
<1>1. PICK n \in DOMAIN nodes, input \in Input, sees \in BOOLEAN :
          Set(r, [IdleTx EXCEPT !.pc = "recalc", !.todo = {n}, !.locks = {<<"share", n>>},
                    !.own = Just(lastAction + 1, Entered(n, input, sees)),
                    !.book = Just(lastAction + 1, Blank)])
      BY DEF CreateAction
<1>2. TypeOK /\ n \in NodeId /\ n \in 1 .. lastNode
      BY RowNodes DEF IInv
<1>3. PICK i : i = lastAction + 1
      OBVIOUS
<1>4. PICK own, book : own = Just(i, Entered(n, input, sees)) /\ book = Just(i, Blank)
      OBVIOUS
<1>5. PICK t : t = [IdleTx EXCEPT !.pc = "recalc", !.todo = {n}, !.locks = {<<"share", n>>},
                      !.own = own, !.book = book]
      OBVIOUS
<1>6. tx' = [tx EXCEPT ![r] = t]
      BY <1>1, <1>3, <1>4, <1>5 DEF Set
<1>7. /\ i \in ActionId /\ lastAction \in Nat /\ i = lastAction + 1 /\ i \notin 1 .. lastAction
      /\ i \notin DOMAIN actions
  <2>1. lastAction \in Nat /\ lastAction < MaxActions
        BY <1>2, RowNodes DEF CreateAction
  <2> QED BY <1>2, <1>3, <2>1, CapacityAssumption, RowNodes DEF ActionId
<1>8. /\ own \in Partial(ActionId, ActionRow) /\ DOMAIN own = {i} /\ own[i].node = n
      /\ book \in Partial(ActionId, BookRow) /\ DOMAIN book = {i}
  <2>1. Blank \in BookRow
        BY DEF Blank, BookRow
  <2>2. PICK row \in ActionRow : row = Entered(n, input, sees) /\ row.node = n
        BY <1>2, EnteredIsARow
  <2>3. own \in Partial(ActionId, ActionRow) /\ DOMAIN own = {i} /\ own[i] = row
    <3>1. own = Just(i, row) /\ i \in ActionId
          BY <1>4, <1>7, <2>2
    <3> QED BY <3>1, JustIsPartial, ZenonT(60)
  <2>4. book \in Partial(ActionId, BookRow) /\ DOMAIN book = {i}
        BY <1>4, <1>7, <2>1, JustIsPartial
  <2> QED BY <2>2, <2>3, <2>4
<1>9. /\ t.pc = "recalc" /\ t.todo = {n} /\ t.ownNode = Nothing /\ t.locks = {<<"share", n>>}
      /\ t.own = own /\ t.dropped = {} /\ t.book = book /\ t.capacity = Nothing /\ t.fresh = {}
      BY <1>5 DEF IdleTx
<1>10. t \in TxState
      BY <1>2, <1>5, <1>8, LockTypes, NothingIsPartial, ZenonT(120) DEF IdleTx, TxState
<1>11. DOMAIN t.ownNode = {} /\ DOMAIN t.capacity = {} /\ Edited(t) = {n}
      BY <1>9, NothingIsPartial DEF Edited
<1>12. InPhase(t) /\ NodesHeld(t) /\ RowsHeld(t)
  <2>1. NodesHeld(t)
        BY <1>9, <1>11 DEF NodesHeld, Holds
  <2>2. RowsHeld(t)
        BY <1>7, <1>8, <1>9, <1>11 DEF RowsHeld
  <2> QED BY <1>9, <2>1, <2>2 DEF InPhase
<1>13. /\ UNCHANGED <<tables, skewed, faults>> /\ Begins(r)
       /\ lastNode' = lastNode /\ lastAction' = i
      BY <1>3 DEF CreateAction
<1>14. /\ lastNode' \in 0 .. MaxNodes /\ lastAction' \in 0 .. MaxActions
       /\ lastNode <= lastNode' /\ lastAction <= lastAction'
  <2>1. lastNode \in Nat /\ lastNode \in 0 .. MaxNodes
        BY <1>2, RowNodes DEF TypeOK
  <2> QED BY <1>7, <1>13, <2>1, CapacityAssumption DEF ActionId
<1>15. Bounded(t)'
  <2>1. i \in 1 .. i
        BY <1>7 DEF ActionId
  <2> QED BY <1>2, <1>8, <1>9, <1>11, <1>13, <2>1 DEF Bounded
<1>16. \A s \in Request \ {r} : Apart(t, tx[s])
  <2> TAKE s \in Request \ {r}
  <2>1. DOMAIN tx[s].own \cup DOMAIN tx[s].book \subseteq 1 .. lastAction
        BY DEF IInv, Legal, Bounded
  <2>2. i \notin DOMAIN tx[s].own /\ i \notin DOMAIN tx[s].book
        BY <1>7, <2>1
  <2>3. \A j \in ActionId : <<"action", j>> \notin t.locks
        BY <1>9
  <2> QED BY <1>8, <1>9, <1>11, <2>2, <2>3 DEF Apart
<1>17. requests' \in 0 .. MaxRequests /\ t.fresh = {}
      BY <1>9, <1>13, Counted
<1> QED BY <1>6, <1>10, <1>12, <1>13, <1>14, <1>15, <1>16, <1>17, EditOpens

LEMMA ReadActionKeeps ==
    ASSUME IInv, NEW r \in Request, ReadAction(r)
    PROVE  IInv'
<1>1. PICK i \in DOMAIN actions :
          Set(r, [IdleTx EXCEPT !.pc = "edit", !.id = i, !.node = actions[i].node,
                                !.cost = actions[i].cost])
      BY DEF ReadAction
<1>2. TypeOK /\ i \in Nat /\ actions[i].cost \in Nat
  <2>1. TypeOK /\ actions[i] \in ActionRow
        BY DEF IInv, TypeOK
  <2> QED BY <2>1, RowNodes DEF ActionRow, ActionId
<1>3. PICK c \in Nat, n \in Nat : c = actions[i].cost /\ n = actions[i].node
      BY <1>2, RowNodes DEF NodeId
<1>4. PICK t : t = [IdleTx EXCEPT !.pc = "edit", !.id = i, !.node = n, !.cost = c]
      OBVIOUS
<1>5. tx' = [tx EXCEPT ![r] = t]
      BY <1>1, <1>3, <1>4 DEF Set
<1>6. t \in TxState
      BY <1>2, <1>3, <1>4, NothingIsPartial DEF IdleTx, TxState
<1>7. /\ t.pc = "edit" /\ t.own = Nothing /\ t.dropped = {} /\ t.ownNode = Nothing
      /\ t.book = Nothing /\ t.capacity = Nothing /\ t.locks = {} /\ t.todo = {} /\ t.fresh = {}
      BY <1>4 DEF IdleTx
<1>8. WritesNothing(t)
      BY <1>7, NothingIsPartial DEF WritesNothing, Edited
<1>9. InPhase(t) /\ NodesHeld(t) /\ RowsHeld(t)
      BY <1>7, <1>8 DEF InPhase, NodesHeld, RowsHeld, WritesNothing
<1>10. /\ UNCHANGED <<tables, skewed, faults>> /\ Begins(r)
       /\ lastNode' = lastNode /\ lastAction' = lastAction
      BY DEF ReadAction
<1>11. /\ lastNode' \in 0 .. MaxNodes /\ lastAction' \in 0 .. MaxActions
       /\ lastNode <= lastNode' /\ lastAction <= lastAction'
      BY <1>2, <1>10, RowNodes DEF TypeOK
<1>12. Bounded(t)'
      BY <1>8 DEF Bounded, WritesNothing
<1>13. \A s \in Request \ {r} : Apart(t, tx[s])
      BY <1>8, BlankIsApart
<1>14. requests' \in 0 .. MaxRequests /\ t.fresh = {}
      BY <1>7, <1>10, Counted
<1> QED BY <1>5, <1>6, <1>9, <1>10, <1>11, <1>12, <1>13, <1>14, EditOpens

(* A transaction that changes or deletes one action takes its lock first.  *)
LEMMA LockedActionIsApart ==
    ASSUME IInv, NEW r \in Request, NEW i \in DOMAIN actions, ~Locked(r, <<"action", i>>),
           NEW t, t.locks = {<<"action", i>>}, Edited(t) = {actions[i].node},
           DOMAIN t.own \subseteq {i}, DOMAIN t.book = {}
    PROVE  \A s \in Request \ {r} : Apart(t, tx[s])
<1> TAKE s \in Request \ {r}
<1>1. actions[i].node \in DOMAIN nodes
      BY DEF IInv, TypeOK
<1>2. <<"action", i>> \notin tx[s].locks
      BY DEF Locked
<1>3. \A j \in ActionId : <<"action", j>> \in t.locks => j = i
      OBVIOUS
<1> QED BY <1>1, <1>2, <1>3 DEF Apart

LEMMA MissesActionKeeps ==
    ASSUME IInv, NEW r \in Request, MissesAction(r)
    PROVE  IInv'
<1>1. TypeOK
      BY DEF IInv
<1>2. /\ UNCHANGED <<tables, skewed, faults>> /\ requests' = requests
      /\ lastNode' = lastNode /\ lastAction' = lastAction
      BY DEF MissesAction
<1>3. /\ lastNode' \in 0 .. MaxNodes /\ lastAction' \in 0 .. MaxActions
      /\ lastNode <= lastNode' /\ lastAction <= lastAction' /\ requests' \in 0 .. MaxRequests
      BY <1>1, <1>2, RowNodes DEF TypeOK
<1>4. CASE Set(r, IdleTx)
  <2>1. tx' = [tx EXCEPT ![r] = IdleTx]
        BY <1>4 DEF Set
  <2>2. Legal(IdleTx) /\ WritesNothing(IdleTx)
        BY <1>1, IdleIsLegal
  <2>3. Bounded(IdleTx)' /\ \A s \in Request \ {r} : Apart(IdleTx, tx[s])
        BY <2>2, BlankIsApart DEF Bounded, WritesNothing
  <2> QED BY <1>2, <1>3, <2>1, <2>2, <2>3, EditOpens DEF Legal, WritesNothing
<1>5. ASSUME NEW n \in DOMAIN nodes, n = tx[r].node,
             Set(r, [IdleTx EXCEPT !.pc = "recalc", !.todo = {n}])
      PROVE  IInv'
  <2>1. PICK t : t = [IdleTx EXCEPT !.pc = "recalc", !.todo = {n}]
        OBVIOUS
  <2>2. tx' = [tx EXCEPT ![r] = t] /\ n \in NodeId /\ n \in 1 .. lastNode
        BY <1>1, <1>5, <2>1, RowNodes DEF Set
  <2>3. /\ t.pc = "recalc" /\ t.todo = {n} /\ t.ownNode = Nothing /\ t.locks = {}
        /\ t.own = Nothing /\ t.dropped = {} /\ t.book = Nothing /\ t.capacity = Nothing
        /\ t.fresh = {}
        BY <2>1 DEF IdleTx
  <2>4. t \in TxState
        BY <2>1, <2>2, NothingIsPartial DEF IdleTx, TxState
  <2>5. /\ DOMAIN t.own = {} /\ DOMAIN t.ownNode = {} /\ DOMAIN t.capacity = {}
        /\ DOMAIN t.book = {} /\ Edited(t) = {n}
        BY <2>3, NothingIsPartial DEF Edited
  <2>6. NodesHeld(t) /\ RowsHeld(t) /\ InPhase(t)
        BY <2>3, <2>5 DEF NodesHeld, Holds, RowsHeld, InPhase
  <2>7. Bounded(t)'
        BY <1>2, <2>2, <2>3, <2>5 DEF Bounded
  <2>8. \A s \in Request \ {r} : Apart(t, tx[s])
        BY <2>3, <2>5 DEF Apart
  <2> QED BY <1>2, <1>3, <2>2, <2>3, <2>4, <2>6, <2>7, <2>8, EditOpens
<1> QED BY <1>4, <1>5 DEF MissesAction

LEMMA UpdateActionKeeps ==
    ASSUME IInv, NEW r \in Request, UpdateAction(r)
    PROVE  IInv'
<1>1. TypeOK
      BY DEF IInv
<1>2. /\ UNCHANGED <<tables, skewed, faults>> /\ requests' = requests
      /\ lastNode' = lastNode /\ lastAction' = lastAction
      BY DEF UpdateAction
<1>3. /\ lastNode' \in 0 .. MaxNodes /\ lastAction' \in 0 .. MaxActions
      /\ lastNode <= lastNode' /\ lastAction <= lastAction' /\ requests' \in 0 .. MaxRequests
      BY <1>1, <1>2, RowNodes DEF TypeOK
<1>4. PICK i \in ActionId, input \in Input, sees \in BOOLEAN :
        /\ i \in DOMAIN actions /\ ~Locked(r, <<"action", i>>)
        /\ Set(r, [IdleTx EXCEPT !.pc = "recalc", !.todo = {actions[i].node},
                     !.locks = {<<"action", i>>},
                     !.own = Just(i, [Entered(actions[i].node, input, sees) EXCEPT
                                        !.cost = IF sees THEN @ ELSE tx[r].cost])])
      BY DEF UpdateAction, Finds
<1>5. PICK n : n = actions[i].node /\ n \in DOMAIN nodes /\ n \in NodeId /\ i \in ActionId
                 /\ i \in DOMAIN actions /\ i \in 1 .. lastAction /\ n \in 1 .. lastNode
      BY <1>1, <1>4, RowNodes
<1>6. PICK own : own = Just(i, [Entered(n, input, sees) EXCEPT
                                  !.cost = IF sees THEN @ ELSE tx[r].cost])
      OBVIOUS
<1>7. own \in Partial(ActionId, ActionRow) /\ DOMAIN own = {i} /\ own[i].node = n
  <2>1. PICK c \in Nat : c = tx[r].cost
    <3>1. tx[r] \in TxState
          BY DEF IInv
    <3> QED BY <3>1, TxFacts
  <2>2. PICK row \in ActionRow : row = Entered(n, input, sees) /\ row.node = n
        BY <1>5, EnteredIsARow
  <2>3. PICK entry : entry = [row EXCEPT !.cost = IF sees THEN @ ELSE c]
        OBVIOUS
  <2>4. entry \in ActionRow /\ entry.node = n
        BY <2>2, <2>3 DEF ActionRow
  <2>5. own = Just(i, entry)
        BY <1>6, <2>1, <2>2, <2>3
  <2>6. own \in Partial(ActionId, ActionRow) /\ DOMAIN own = {i} /\ own[i] = entry
        BY <1>5, <2>4, <2>5, JustIsPartial, ZenonT(60)
  <2> QED BY <2>4, <2>6
<1>8. PICK t : t = [IdleTx EXCEPT !.pc = "recalc", !.todo = {n}, !.locks = {<<"action", i>>},
                      !.own = own]
      OBVIOUS
<1>9. tx' = [tx EXCEPT ![r] = t]
      BY <1>4, <1>5, <1>6, <1>8 DEF Set
<1>10. /\ t.pc = "recalc" /\ t.todo = {n} /\ t.ownNode = Nothing /\ t.locks = {<<"action", i>>}
      /\ t.own = own /\ t.dropped = {} /\ t.book = Nothing /\ t.capacity = Nothing /\ t.fresh = {}
      BY <1>8 DEF IdleTx
<1>11. t \in TxState
      BY <1>5, <1>7, <1>8, LockTypes, NothingIsPartial, ZenonT(60) DEF IdleTx, TxState
<1>12. /\ DOMAIN t.ownNode = {} /\ DOMAIN t.capacity = {} /\ DOMAIN t.book = {}
      /\ Edited(t) = {n}
      BY <1>10, NothingIsPartial DEF Edited
<1>13. NodesHeld(t)
      BY <1>5, <1>10, <1>12 DEF NodesHeld, Holds
<1>14. RowsHeld(t)
      BY <1>5, <1>7, <1>10, <1>12 DEF RowsHeld
<1>15. Bounded(t)'
      BY <1>2, <1>5, <1>7, <1>10, <1>12 DEF Bounded
<1>16. \A s \in Request \ {r} : Apart(t, tx[s])
      BY <1>4, <1>5, <1>7, <1>10, <1>12, LockedActionIsApart
<1>17. InPhase(t) /\ t.fresh = {}
      BY <1>10 DEF InPhase
<1> QED BY <1>2, <1>3, <1>9, <1>11, <1>13, <1>14, <1>15, <1>16, <1>17, EditOpens

LEMMA DeleteActionKeeps ==
    ASSUME IInv, NEW r \in Request, DeleteAction(r)
    PROVE  IInv'
<1>1. PICK i \in DOMAIN actions :
          /\ i \in ActionId /\ ~Locked(r, <<"action", i>>)
          /\ Set(r, [IdleTx EXCEPT !.pc = "recalc", !.todo = {actions[i].node}, !.dropped = {i},
                       !.locks = {<<"action", i>>}])
      BY DEF DeleteAction, Finds
<1>2. TypeOK
      BY DEF IInv
<1>3. PICK n : n = actions[i].node /\ n \in DOMAIN nodes /\ n \in NodeId /\ i \in ActionId
                 /\ i \in 1 .. lastAction /\ n \in 1 .. lastNode
      BY <1>2, RowNodes
<1>4. PICK t : t = [IdleTx EXCEPT !.pc = "recalc", !.todo = {n}, !.dropped = {i},
                      !.locks = {<<"action", i>>}]
      OBVIOUS
<1>5. tx' = [tx EXCEPT ![r] = t]
      BY <1>1, <1>3, <1>4 DEF Set
<1>6. /\ t.pc = "recalc" /\ t.todo = {n} /\ t.ownNode = Nothing /\ t.locks = {<<"action", i>>}
      /\ t.own = Nothing /\ t.dropped = {i} /\ t.book = Nothing /\ t.capacity = Nothing
      /\ t.fresh = {}
      BY <1>4 DEF IdleTx
<1>7. t \in TxState
      BY <1>3, <1>4, LockTypes, NothingIsPartial, ZenonT(60) DEF IdleTx, TxState
<1>8. /\ DOMAIN t.ownNode = {} /\ DOMAIN t.capacity = {} /\ DOMAIN t.book = {}
      /\ DOMAIN t.own = {} /\ Edited(t) = {n}
      BY <1>6, NothingIsPartial DEF Edited
<1>9. NodesHeld(t)
      BY <1>3, <1>6, <1>8 DEF NodesHeld, Holds
<1>10. RowsHeld(t)
      BY <1>3, <1>6, <1>8 DEF RowsHeld
<1>11. /\ UNCHANGED <<tables, skewed, faults>> /\ requests' = requests
       /\ lastNode' = lastNode /\ lastAction' = lastAction
      BY DEF DeleteAction
<1>12. /\ lastNode' \in 0 .. MaxNodes /\ lastAction' \in 0 .. MaxActions
       /\ lastNode <= lastNode' /\ lastAction <= lastAction'
      BY <1>2, <1>11, RowNodes DEF TypeOK
<1>13. Bounded(t)'
      BY <1>3, <1>6, <1>8, <1>11 DEF Bounded
<1>14. \A s \in Request \ {r} : Apart(t, tx[s])
      BY <1>1, <1>3, <1>6, <1>8, LockedActionIsApart
<1>15. InPhase(t) /\ requests' \in 0 .. MaxRequests /\ t.fresh = {}
      BY <1>2, <1>6, <1>11 DEF InPhase, TypeOK
<1> QED BY <1>5, <1>7, <1>9, <1>10, <1>11, <1>12, <1>13, <1>14, <1>15, EditOpens
-----------------------------------------------------------------------------
(* Imports: the nodes of the rows.                                         *)
Sheet == Seq([key : Key, initial : Nat, input : Input])

LEMMA SheetFacts ==
    ASSUME NEW rows \in Import
    PROVE  /\ Len(rows) \in Nat /\ DOMAIN rows = 1 .. Len(rows)
           /\ \A i \in DOMAIN rows : /\ rows[i].key \in Keys(rows) /\ rows[i].key \in Key
                                     /\ rows[i].initial \in Nat /\ rows[i].input \in Input
           /\ Keys(rows) \subseteq Key /\ Created(rows) \subseteq Keys(rows)
           /\ IsFiniteSet(Keys(rows)) /\ IsFiniteSet(Created(rows))
<1>1. rows \in Sheet
      BY CapacityAssumption DEF Sheet
<1>2. Len(rows) \in Nat /\ DOMAIN rows = 1 .. Len(rows)
      BY <1>1 DEF Sheet
<1>3. \A i \in DOMAIN rows : rows[i] \in [key : Key, initial : Nat, input : Input]
  <2>1. PICK Row : Row = [key : Key, initial : Nat, input : Input]
        OBVIOUS
  <2>2. rows \in Seq(Row)
        BY <1>1, <2>1 DEF Sheet
  <2>3. \A i \in DOMAIN rows : rows[i] \in Row
        BY <2>2
  <2> QED BY <2>1, <2>3
<1>4. Keys(rows) \subseteq Key /\ Created(rows) \subseteq Keys(rows)
      BY <1>3 DEF Keys, Created
<1>5. IsFiniteSet(Keys(rows))
  <2> DEFINE f == [i \in 1 .. Len(rows) |-> rows[i].key]
  <2>1. f \in Surjection(1 .. Len(rows), Keys(rows))
        BY <1>2 DEF Surjection, Keys
  <2>2. IsFiniteSet(1 .. Len(rows))
        BY <1>2, FS_Interval
  <2> HIDE DEF f
  <2> QED BY <2>1, <2>2, FS_Surjection
<1>6. IsFiniteSet(Created(rows))
      BY <1>4, <1>5, FS_Subset
<1> QED BY <1>2, <1>3, <1>4, <1>5, <1>6 DEF Keys

LEMMA FirstRowExists ==
    ASSUME NEW rows \in Import, NEW k \in Keys(rows)
    PROVE  FirstRow(rows, k) \in DOMAIN rows /\ rows[FirstRow(rows, k)].key = k
<1> DEFINE S == {i \in DOMAIN rows : rows[i].key = k}
<1>1. DOMAIN rows = 1 .. Len(rows) /\ Len(rows) \in Nat
      BY SheetFacts
<1>2. S \in SUBSET Nat /\ S # {}
      BY <1>1 DEF Keys
<1>3. PICK m \in S : \A i \in S : m <= i
  <2> HIDE DEF S
  <2> QED BY <1>2, LeastNumber
<1>4. ASSUME NEW j \in 1 .. m - 1 PROVE rows[j].key # k
  <2>1. j \in DOMAIN rows /\ ~(m <= j)
        BY <1>1
  <2> QED BY <1>3, <2>1
<1>5. m \in DOMAIN rows /\ rows[m].key = k
      OBVIOUS
<1> QED BY <1>4, <1>5 DEF FirstRow

LEMMA NodeForFacts ==
    ASSUME TypeOK, NEW rows \in Import, NEW c, c = Cardinality(Created(rows))
    PROVE  /\ c \in Nat
           /\ \A k \in Created(rows) : NodeFor(rows, k) \in lastNode + 1 .. lastNode + c
           /\ \A k \in Keys(rows) \ Created(rows) : NodeFor(rows, k) \in DOMAIN nodes
<1>1. c \in Nat
      BY SheetFacts, FS_CardinalityType
<1>2. ASSUME NEW k \in Created(rows) PROVE NodeFor(rows, k) \in lastNode + 1 .. lastNode + c
  <2> DEFINE S == {l \in Created(rows) : l = k \/ FirstRow(rows, l) < FirstRow(rows, k)}
  <2>1. S \in SUBSET Created(rows) /\ k \in S
        OBVIOUS
  <2>2. NodeFor(rows, k) = lastNode + Cardinality(S)
        BY DEF NodeFor
  <2> HIDE DEF S
  <2>3. IsFiniteSet(S) /\ Cardinality(S) <= c
        BY <2>1, SheetFacts, FS_Subset
  <2>4. Cardinality(S) \in Nat /\ Cardinality(S) # 0
        BY <2>1, <2>3, FS_CardinalityType, FS_EmptySet
  <2>5. lastNode \in Nat
        BY RowNodes
  <2> QED BY <1>1, <2>2, <2>3, <2>4, <2>5
<1>3. ASSUME NEW k \in Keys(rows) \ Created(rows) PROVE NodeFor(rows, k) \in DOMAIN nodes
  <2>1. HasKey(k) # {}
        BY DEF Created
  <2>2. NodeFor(rows, k) \in HasKey(k)
        BY <2>1 DEF NodeFor
  <2> QED BY <2>2 DEF HasKey
<1> QED BY <1>1, <1>2, <1>3

(* The transaction of an import, in its parts.                             *)
NewIds(rows) == {NodeFor(rows, k) : k \in Created(rows)}
KnownIds(rows) == {NodeFor(rows, k) : k \in Keys(rows) \ Created(rows)}
RowIds(rows) == lastAction + 1 .. lastAction + Len(rows)

LEMMA ImportedParts ==
    ASSUME IInv, NEW rows \in Import, NEW sees \in BOOLEAN,
           NEW c, c = Cardinality(Created(rows)), lastNode + c <= MaxNodes,
           lastAction + Len(rows) <= MaxActions
    PROVE  LET t == Imported(rows, sees) IN
             /\ t \in TxState /\ t.pc = "recalc" /\ t.todo = NewIds(rows) \cup KnownIds(rows)
             /\ DOMAIN t.own = RowIds(rows) /\ DOMAIN t.book = RowIds(rows) /\ t.dropped = {}
             /\ \A i \in RowIds(rows) : t.own[i].node \in t.todo
             /\ DOMAIN t.ownNode = NewIds(rows) /\ DOMAIN t.capacity = NewIds(rows)
             /\ \A n \in KnownIds(rows) : <<"share", n>> \in t.locks
             /\ \A i \in ActionId : <<"action", i>> \notin t.locks
             /\ t.fresh = {}
<1>1. /\ lastNode \in Nat /\ lastAction \in Nat /\ MaxNodes \in Nat /\ MaxActions \in Nat
      /\ c \in Nat /\ Len(rows) \in Nat /\ TypeOK
      BY CapacityAssumption, RowNodes, NodeForFacts, SheetFacts DEF IInv
<1>2. \A k \in Created(rows) : NodeFor(rows, k) \in NodeId
  <2>1. lastNode + 1 .. lastNode + c \subseteq NodeId
        BY <1>1, SMTT(60) DEF NodeId
  <2> QED BY <1>1, <2>1, NodeForFacts
<1>3. \A k \in Keys(rows) \ Created(rows) : NodeFor(rows, k) \in NodeId
      BY <1>1, NodeForFacts, RowNodes
<1>4. NewIds(rows) \in SUBSET NodeId /\ KnownIds(rows) \in SUBSET NodeId
      BY <1>2, <1>3 DEF NewIds, KnownIds
<1>5. RowIds(rows) \in SUBSET ActionId
      BY <1>1, SMTT(60) DEF RowIds, ActionId
<1> DEFINE row(i) == rows[i - lastAction]
           own == [i \in RowIds(rows) |-> Entered(NodeFor(rows, row(i).key), row(i).input, sees)]
           book == [i \in RowIds(rows) |-> Blank]
           new == [k \in Created(rows) |-> NodeFor(rows, k)]
           first(n) == rows[FirstRow(rows, CHOOSE k \in Created(rows) : new[k] = n)]
           ownNode == [n \in NewIds(rows) |-> [key |-> first(n).key, initial |-> first(n).initial]]
           capacity == [n \in NewIds(rows) |-> first(n).initial]
           locks == {<<"key", k>> : k \in Created(rows)} \cup {<<"share", n>> : n \in KnownIds(rows)}
<1>6. ASSUME NEW i \in RowIds(rows)
      PROVE  /\ Entered(NodeFor(rows, row(i).key), row(i).input, sees) \in ActionRow
             /\ Entered(NodeFor(rows, row(i).key), row(i).input, sees).node
                   \in NewIds(rows) \cup KnownIds(rows)
  <2>1. i - lastAction \in DOMAIN rows
        BY <1>1, SheetFacts, SMTT(60) DEF RowIds
  <2>2. row(i).key \in Keys(rows) /\ row(i).input \in Input
        BY <2>1, SheetFacts
  <2>3. PICK n : n = NodeFor(rows, row(i).key)
        OBVIOUS
  <2>4. n \in NodeId /\ n \in NewIds(rows) \cup KnownIds(rows)
        BY <1>2, <1>3, <2>2, <2>3 DEF NewIds, KnownIds
  <2> QED BY <2>2, <2>3, <2>4, EnteredIsARow
<1>7. own \in Partial(ActionId, ActionRow) /\ DOMAIN own = RowIds(rows)
  <2>1. own \in [RowIds(rows) -> ActionRow]
        BY <1>6
  <2> HIDE DEF own
  <2> QED BY <1>5, <2>1, FunctionIsPartial
<1>8. book \in Partial(ActionId, BookRow) /\ DOMAIN book = RowIds(rows)
  <2>1. Blank \in BookRow
        BY DEF Blank, BookRow
  <2>2. book \in [RowIds(rows) -> BookRow]
        BY <2>1
  <2> HIDE DEF book
  <2> QED BY <1>5, <2>2, FunctionIsPartial
<1>9. ASSUME NEW n \in NewIds(rows) PROVE first(n).key \in Key /\ first(n).initial \in Nat
  <2> DEFINE k == CHOOSE k \in Created(rows) : new[k] = n
  <2>1. k \in Created(rows)
        BY DEF NewIds
  <2> HIDE DEF k
  <2>2. k \in Keys(rows)
        BY <2>1, SheetFacts
  <2>3. FirstRow(rows, k) \in DOMAIN rows
        BY <2>2, FirstRowExists
  <2>4. rows[FirstRow(rows, k)].key \in Key /\ rows[FirstRow(rows, k)].initial \in Nat
        BY <2>3, SheetFacts
  <2> QED BY <2>4 DEF k
<1>10. ownNode \in Partial(NodeId, NodeRow) /\ DOMAIN ownNode = NewIds(rows)
  <2>1. \A n \in NewIds(rows) : [key |-> first(n).key, initial |-> first(n).initial] \in NodeRow
        BY <1>9 DEF NodeRow
  <2>2. ownNode \in [NewIds(rows) -> NodeRow]
        BY <2>1
  <2> HIDE DEF ownNode
  <2> QED BY <1>4, <2>2, FunctionIsPartial
<1>11. capacity \in Partial(NodeId, Int) /\ DOMAIN capacity = NewIds(rows)
  <2>1. capacity \in [NewIds(rows) -> Int]
    <3> HIDE DEF first
    <3>1. \A n \in NewIds(rows) : first(n).initial \in Int
          BY <1>9
    <3> QED BY <3>1
  <2> HIDE DEF capacity
  <2> QED BY <1>4, <2>1, FunctionIsPartial
<1>12. /\ locks \subseteq Lock /\ \A n \in KnownIds(rows) : <<"share", n>> \in locks
       /\ \A i \in ActionId : <<"action", i>> \notin locks
  <2>1. Created(rows) \subseteq Key
        BY SheetFacts
  <2> QED BY <1>4, <2>1, LockTypes
<1>13. PICK t : t = [IdleTx EXCEPT !.pc = "recalc", !.todo = NewIds(rows) \cup KnownIds(rows),
                       !.own = own, !.book = book, !.ownNode = ownNode, !.capacity = capacity,
                       !.locks = locks]
      OBVIOUS
<1>14. Imported(rows, sees) = t
  <2>1. NewIds(rows) = {new[k] : k \in Created(rows)}
        BY DEF NewIds
  <2> DEFINE known == [k \in Keys(rows) \ Created(rows) |-> NodeFor(rows, k)]
  <2>2. KnownIds(rows) = {known[k] : k \in Keys(rows) \ Created(rows)}
        BY DEF KnownIds
  <2> QED BY <1>13, <2>1, <2>2 DEF Imported, RowIds
<1> HIDE DEF own, book, ownNode, capacity, locks
<1>15. /\ t.pc = "recalc" /\ t.todo = NewIds(rows) \cup KnownIds(rows) /\ t.own = own
       /\ t.book = book /\ t.ownNode = ownNode /\ t.capacity = capacity /\ t.locks = locks
       /\ t.dropped = {} /\ t.fresh = {}
      BY <1>13 DEF IdleTx
<1>16. t \in TxState
      BY <1>4, <1>7, <1>8, <1>10, <1>11, <1>12, <1>13 DEF IdleTx, TxState
<1>17. \A i \in RowIds(rows) : t.own[i].node \in t.todo
      BY <1>6, <1>15 DEF own
<1> QED BY <1>7, <1>8, <1>10, <1>11, <1>12, <1>14, <1>15, <1>16, <1>17

LEMMA ImportActionsKeeps ==
    ASSUME IInv, NEW r \in Request, ImportActions(r)
    PROVE  IInv'
<1>1. PICK rows \in Import, sees \in BOOLEAN :
          /\ lastNode' = lastNode + Cardinality(Created(rows)) /\ lastNode' <= MaxNodes
          /\ lastAction' = lastAction + Len(rows) /\ lastAction' <= MaxActions
          /\ Set(r, Imported(rows, sees))
      BY DEF ImportActions
<1>2. PICK c : c = Cardinality(Created(rows))
      OBVIOUS
<1>3. PICK t : t = Imported(rows, sees)
      OBVIOUS
<1>4. tx' = [tx EXCEPT ![r] = t] /\ TypeOK
      BY <1>1, <1>3 DEF Set, IInv
<1>5. /\ lastNode \in Nat /\ lastAction \in Nat /\ c \in Nat /\ Len(rows) \in Nat
      /\ lastNode' = lastNode + c /\ lastAction' = lastAction + Len(rows)
      /\ MaxNodes \in Nat /\ MaxActions \in Nat
      BY <1>1, <1>2, <1>4, CapacityAssumption, RowNodes, NodeForFacts, SheetFacts
<1>6. lastNode + c <= MaxNodes /\ lastAction + Len(rows) <= MaxActions
      BY <1>1, <1>5
<1>7. /\ t \in TxState /\ t.pc = "recalc" /\ t.todo = NewIds(rows) \cup KnownIds(rows)
      /\ DOMAIN t.own = RowIds(rows) /\ DOMAIN t.book = RowIds(rows) /\ t.dropped = {}
      /\ \A i \in RowIds(rows) : t.own[i].node \in t.todo
      /\ DOMAIN t.ownNode = NewIds(rows) /\ DOMAIN t.capacity = NewIds(rows)
      /\ \A n \in KnownIds(rows) : <<"share", n>> \in t.locks
      /\ \A i \in ActionId : <<"action", i>> \notin t.locks
      /\ t.fresh = {}
      BY <1>2, <1>3, <1>6, ImportedParts
<1>8. /\ NewIds(rows) \subseteq lastNode + 1 .. lastNode + c
      /\ KnownIds(rows) \subseteq DOMAIN nodes
      BY <1>2, <1>4, NodeForFacts DEF NewIds, KnownIds
<1>9. DOMAIN nodes \subseteq 1 .. lastNode /\ DOMAIN actions \subseteq 1 .. lastAction
      BY <1>4 DEF TypeOK
<1>10. /\ \A n \in NewIds(rows) : n \notin 1 .. lastNode /\ n \in 1 .. lastNode'
       /\ \A n \in 1 .. lastNode : n \in 1 .. lastNode'
       /\ \A i \in RowIds(rows) : i \notin 1 .. lastAction /\ i \in 1 .. lastAction'
      BY <1>5, <1>8 DEF RowIds
<1>11. Edited(t) = NewIds(rows) \cup KnownIds(rows)
      BY <1>7 DEF Edited
<1>12. NodesHeld(t)
      BY <1>7, <1>8, <1>9, <1>10, <1>11 DEF NodesHeld, Holds
<1>13. RowsHeld(t)
      BY <1>7, <1>9, <1>10, <1>11 DEF RowsHeld
<1>14. Bounded(t)'
      BY <1>7, <1>8, <1>9, <1>10, <1>11 DEF Bounded
<1>15. \A s \in Request \ {r} : Apart(t, tx[s])
  <2> TAKE s \in Request \ {r}
  <2>1. /\ DOMAIN tx[s].own \cup DOMAIN tx[s].book \subseteq 1 .. lastAction
        /\ Edited(tx[s]) \subseteq 1 .. lastNode
        BY DEF IInv, Legal, Bounded
  <2> QED BY <1>7, <1>8, <1>10, <1>11, <2>1 DEF Apart
<1>16. /\ UNCHANGED <<tables, skewed, faults>> /\ Begins(r)
      BY DEF ImportActions
<1>17. /\ lastNode' \in 0 .. MaxNodes /\ lastAction' \in 0 .. MaxActions
       /\ lastNode <= lastNode' /\ lastAction <= lastAction'
      BY <1>5, <1>6
<1>18. InPhase(t) /\ requests' \in 0 .. MaxRequests
      BY <1>7, <1>16, Counted DEF InPhase
<1> QED BY <1>4, <1>7, <1>12, <1>13, <1>14, <1>15, <1>16, <1>17, <1>18, EditOpens
-----------------------------------------------------------------------------
(* What a transaction sees.                                                *)
LEMMA SeenRows ==
    ASSUME TypeOK, NEW t, Legal(t)
    PROVE  /\ RowsOK(SeenActions(t), DOMAIN SeenActions(t))
           /\ DOMAIN SeenLedger(t) = DOMAIN SeenActions(t)
           /\ \A i \in DOMAIN SeenActions(t) :
                 /\ i \notin t.dropped /\ i \in ActionId
                 /\ SeenActions(t)[i] \in ActionRow
                 /\ i \in DOMAIN t.own \cup DOMAIN actions
                 /\ i \in DOMAIN t.book \cup DOMAIN ledger
                 /\ i \in DOMAIN t.own => /\ SeenActions(t)[i] = t.own[i]
                                          /\ SeenActions(t)[i].node \in Edited(t)
                 /\ i \in DOMAIN actions => SeenActions(t)[i].node = actions[i].node
                 /\ i \notin DOMAIN t.own => SeenActions(t)[i] = actions[i]
                 /\ SeenLedger(t)[i] = Over(t.book, ledger)[i]
                 /\ SeenLedger(t)[i] \in BookRow
<1>1. /\ DOMAIN t.own \subseteq ActionId /\ \A i \in DOMAIN t.own : t.own[i] \in ActionRow
      /\ \A i \in DOMAIN t.book : t.book[i] \in BookRow
      BY TxFacts DEF Legal
<1>2. /\ DOMAIN actions \subseteq ActionId /\ DOMAIN ledger = DOMAIN actions
      /\ \A i \in DOMAIN actions : actions[i] \in ActionRow /\ ledger[i] \in BookRow
      BY RowNodes DEF TypeOK
<1>3. DOMAIN SeenActions(t) = (DOMAIN t.own \cup DOMAIN actions) \ t.dropped
      BY DEF SeenActions
<1>4. DOMAIN SeenLedger(t) = DOMAIN SeenActions(t)
      BY DEF SeenLedger
<1>5. ASSUME NEW i \in DOMAIN SeenActions(t)
      PROVE  /\ i \notin t.dropped /\ i \in ActionId
             /\ SeenActions(t)[i] \in ActionRow
             /\ i \in DOMAIN t.own \cup DOMAIN actions
             /\ i \in DOMAIN t.book \cup DOMAIN ledger
             /\ i \in DOMAIN t.own => /\ SeenActions(t)[i] = t.own[i]
                                      /\ SeenActions(t)[i].node \in Edited(t)
             /\ i \in DOMAIN actions => SeenActions(t)[i].node = actions[i].node
             /\ i \notin DOMAIN t.own => SeenActions(t)[i] = actions[i]
             /\ SeenLedger(t)[i] = Over(t.book, ledger)[i]
             /\ SeenLedger(t)[i] \in BookRow
  <2>1. SeenActions(t)[i] = Over(t.own, actions)[i]
        BY <1>3 DEF SeenActions
  <2>2. i \in DOMAIN t.own => /\ SeenActions(t)[i] = t.own[i] /\ t.own[i].node \in Edited(t)
                              /\ i \in DOMAIN actions => t.own[i].node = actions[i].node
        BY <2>1, OverFacts, ZenonT(60) DEF Legal, RowsHeld
  <2>3. i \notin DOMAIN t.own => SeenActions(t)[i] = actions[i] /\ i \in DOMAIN actions
        BY <1>3, <2>1 DEF Over
  <2>4. i \in DOMAIN t.book \cup DOMAIN ledger
        BY <1>2, <1>3 DEF Legal, RowsHeld
  <2>5. SeenLedger(t)[i] = Over(t.book, ledger)[i]
        BY <1>4 DEF SeenLedger
  <2>6. SeenLedger(t)[i] \in BookRow
        BY <1>1, <1>2, <2>4, <2>5 DEF Over
  <2> QED BY <1>1, <1>2, <1>3, <2>2, <2>3, <2>4, <2>5, <2>6
<1> QED BY <1>4, <1>5 DEF RowsOK

LEMMA SeenNodeFacts ==
    ASSUME TypeOK, NEW t, Legal(t)
    PROVE  /\ DOMAIN SeenNodes(t) = DOMAIN t.ownNode \cup DOMAIN nodes
           /\ \A n \in DOMAIN SeenNodes(t) : SeenNodes(t)[n] \in NodeRow
           /\ DOMAIN SeenCurrent(t) = DOMAIN SeenNodes(t)
           /\ \A n \in DOMAIN SeenNodes(t) : SeenCurrent(t)[n] = Over(t.capacity, current)[n]
           /\ Edited(t) \subseteq DOMAIN SeenNodes(t)
<1>1. \A n \in DOMAIN t.ownNode : t.ownNode[n] \in NodeRow
      BY TxFacts DEF Legal
<1>2. \A n \in DOMAIN nodes : nodes[n] \in NodeRow
      BY DEF TypeOK
<1>3. DOMAIN SeenNodes(t) = DOMAIN t.ownNode \cup DOMAIN nodes
      BY OverFacts DEF SeenNodes
<1>4. \A n \in DOMAIN SeenNodes(t) : SeenNodes(t)[n] \in NodeRow
      BY <1>1, <1>2, <1>3 DEF SeenNodes, Over
<1>5. Edited(t) \subseteq DOMAIN SeenNodes(t)
      BY <1>3 DEF Legal, NodesHeld
<1> QED BY <1>3, <1>4, <1>5 DEF SeenCurrent

(* Forgetting that nodes are fresh changes nothing else.                   *)
LEMMA FreshForgotten ==
    ASSUME NEW t, Legal(t), NEW gone, NEW u, u = [t EXCEPT !.fresh = @ \ gone]
    PROVE  /\ Legal(u) /\ u.fresh = t.fresh \ gone /\ u.own = t.own /\ u.book = t.book
           /\ u.dropped = t.dropped /\ u.ownNode = t.ownNode /\ u.capacity = t.capacity
           /\ u.locks = t.locks /\ u.todo = t.todo /\ Edited(u) = Edited(t)
<1>1. t \in TxState
      BY DEF Legal
<1>2. /\ u \in TxState /\ u.fresh = t.fresh \ gone /\ u.own = t.own /\ u.book = t.book
      /\ u.dropped = t.dropped /\ u.ownNode = t.ownNode /\ u.capacity = t.capacity
      /\ u.locks = t.locks /\ u.todo = t.todo /\ u.pc = t.pc
      BY <1>1 DEF TxState
<1>3. Edited(u) = Edited(t)
      BY <1>2 DEF Edited
<1>4. Bounded(u)
      BY <1>2, <1>3 DEF Legal, Bounded
<1>5. InPhase(u)
      BY <1>2, <1>3 DEF Legal, InPhase, WritesNothing
<1>6. NodesHeld(u)
      BY <1>2, <1>3 DEF Legal, NodesHeld, Holds
<1>7. RowsHeld(u)
      BY <1>2, <1>3, ZenonT(60) DEF Legal, RowsHeld
<1> QED BY <1>2, <1>3, <1>4, <1>5, <1>6, <1>7 DEF Legal

(* A node whose committed rows a step leaves alone adds up as before, in   *)
(* the tables and in what another transaction sees.                        *)
Alike(n) ==
    /\ OfNode(actions, n)' = OfNode(actions, n)
    /\ \A i \in OfNode(actions, n) : actions'[i] = actions[i] /\ ledger'[i] = ledger[i]

LEMMA UntouchedView ==
    ASSUME TypeOK, TypeOK', NEW t, Legal(t), Legal(t)', NEW n \in t.fresh, Alike(n),
           n \in DOMAIN t.ownNode \/ (n \in DOMAIN nodes \cap DOMAIN nodes' /\ nodes'[n] = nodes[n]),
           SeenAddsUp(t, n)
    PROVE  SeenAddsUp(t, n)'
<1>1. PICK A, L, B, M : A = SeenActions(t) /\ L = SeenLedger(t)
                          /\ B = SeenActions(t)' /\ M = SeenLedger(t)'
      OBVIOUS
<1>2. DOMAIN ledger = DOMAIN actions /\ DOMAIN ledger' = DOMAIN actions'
      BY DEF TypeOK
<1>3. \A i \in DOMAIN actions : i \in DOMAIN actions' /\ actions[i].node = n => i \in OfNode(actions, n)
      BY DEF OfNode
<1>4. DOMAIN A = (DOMAIN t.own \cup DOMAIN actions) \ t.dropped
      BY <1>1 DEF SeenActions
<1>5. DOMAIN B = (DOMAIN t.own \cup DOMAIN actions') \ t.dropped
      BY <1>1 DEF SeenActions
<1>6. \A i \in DOMAIN A : IF i \in DOMAIN t.own THEN A[i] = t.own[i] ELSE A[i] = actions[i]
      BY <1>1, <1>4 DEF SeenActions, Over
<1>7. \A i \in DOMAIN B : IF i \in DOMAIN t.own THEN B[i] = t.own[i] ELSE B[i] = actions'[i]
      BY <1>1, <1>5 DEF SeenActions, Over
<1>8. OfNode(actions, n) = {i \in DOMAIN actions : actions[i].node = n}
      BY DEF OfNode
<1>9. OfNode(actions, n) = {i \in DOMAIN actions' : actions'[i].node = n}
      BY DEF OfNode, Alike
<1>10. \A i \in OfNode(actions, n) : actions'[i] = actions[i] /\ ledger'[i] = ledger[i]
      BY DEF Alike
<1>11. OfNode(A, n) = {i \in DOMAIN A : A[i].node = n} /\ OfNode(B, n) = {i \in DOMAIN B : B[i].node = n}
      BY DEF OfNode
<1>12. OfNode(B, n) = OfNode(A, n)
      BY <1>4, <1>5, <1>6, <1>7, <1>8, <1>9, <1>10, <1>11
<1>13. \A i \in OfNode(A, n) : B[i] = A[i]
      BY <1>4, <1>5, <1>6, <1>7, <1>8, <1>9, <1>10, <1>11, <1>12
<1>14. ASSUME NEW i \in OfNode(A, n) PROVE M[i] = L[i]
  <2>1. i \in DOMAIN A /\ i \in DOMAIN B /\ A[i].node = n
        BY <1>11, <1>12
  <2>2. L[i] = Over(t.book, ledger)[i]
        BY <1>1, <2>1 DEF SeenLedger
  <2>3. M[i] = Over(t.book, ledger')[i]
        BY <1>1, <2>1 DEF SeenLedger
  <2>4. CASE i \in DOMAIN t.book
        BY <2>2, <2>3, <2>4 DEF Over
  <2>5. CASE i \notin DOMAIN t.book
    <3>1. i \in OfNode(actions, n)
      <4>1. CASE i \in DOMAIN t.own
        <5>1. i \in DOMAIN actions /\ t.own[i].node = actions[i].node
              BY <2>5, <4>1 DEF Legal, RowsHeld
        <5> QED BY <1>6, <1>8, <2>1, <4>1, <5>1
      <4>2. CASE i \notin DOMAIN t.own
            BY <1>4, <1>6, <1>8, <2>1, <4>2
      <4> QED BY <4>1, <4>2
    <3>2. i \in DOMAIN ledger /\ i \in DOMAIN ledger' /\ ledger'[i] = ledger[i]
          BY <1>2, <1>8, <1>9, <1>10, <3>1
    <3> QED BY <2>2, <2>3, <2>5, <3>2 DEF Over
  <2> QED BY <2>4, <2>5
<1>15. PICK N1, N2 : N1 = SeenNodes(t) /\ N2 = SeenNodes(t)'
      OBVIOUS
<1>16. n \in DOMAIN N1 /\ n \in DOMAIN N2 /\ N2[n] = N1[n]
      BY <1>15 DEF SeenNodes, Over
<1>17. n \in DOMAIN t.capacity
      BY DEF Legal, Bounded
<1>18. SeenCurrent(t)[n] = t.capacity[n]
      BY <1>15, <1>16, <1>17 DEF SeenCurrent, Over
<1>19. SeenCurrent(t)'[n] = t.capacity[n]
      BY <1>15, <1>16, <1>17 DEF SeenCurrent, Over
<1>20. PICK x, y : x = N1[n].initial /\ y = t.capacity[n]
      OBVIOUS
<1>21. AddsUp(A, L, n, x, y)
      BY <1>1, <1>15, <1>18, <1>20 DEF SeenAddsUp
<1>22. AddsUp(B, M, n, x, y)
      BY <1>12, <1>13, <1>14, <1>21, AddsUpAlike
<1> QED BY <1>1, <1>15, <1>16, <1>19, <1>20, <1>22 DEF SeenAddsUp
-----------------------------------------------------------------------------
LEMMA RollbackKeeps ==
    ASSUME IInv, NEW r \in Request, Rollback(r)
    PROVE  IInv'
<1>1. /\ tx' = [tx EXCEPT ![r] = IdleTx] /\ UNCHANGED <<tables, skewed>> /\ UNCHANGED tables
      /\ lastNode' = lastNode /\ lastAction' = lastAction /\ requests' = requests
      BY DEF Rollback, Set
<1>2. TypeOK /\ Legal(IdleTx) /\ FreshAddsUp(IdleTx) /\ WritesNothing(IdleTx)
      BY IdleIsLegal DEF IInv
<1>3. faults' \in 0 .. MaxFaults
  <2>1. PICK f \in 0 .. MaxFaults : f = faults
        BY <1>2 DEF TypeOK
  <2> QED BY <2>1, CapacityAssumption DEF Rollback
<1>4. /\ lastNode' \in 0 .. MaxNodes /\ lastAction' \in 0 .. MaxActions
      /\ requests' \in 0 .. MaxRequests
      /\ lastNode <= lastNode' /\ lastAction <= lastAction'
      BY <1>1, <1>2, RowNodes DEF TypeOK
<1>5. TypeOK'
      BY <1>1, <1>2, <1>3, <1>4, TypesStay
<1>6. Legal(IdleTx)'
      BY <1>1, <1>2, <1>4, <1>5, LegalLasts
<1>7. \A s \in Request \ {r} : Apart(IdleTx, tx[s])
      BY <1>2, BlankIsApart
<1> QED BY <1>1, <1>2, <1>4, <1>5, <1>6, <1>7, OneTransactionSteps

LEMMA RecalculateKeeps ==
    ASSUME IInv, NEW r \in Request, Recalculate(r)
    PROVE  IInv'
<1>1. PICK t : t = tx[r]
      OBVIOUS
<1>2. TypeOK /\ Legal(t) /\ t \in TxState /\ FreshAddsUp(t) /\ t.pc = "recalc"
      BY <1>1 DEF IInv, Legal, Recalculate
<1>3. PICK n, done, pc :
          /\ n \in t.todo
          /\ done = Recalculated(VisibleActions(r), n, VisibleNodes(r)[n].initial)
          /\ pc = IF t.todo = {n} THEN "commit" ELSE "recalc"
          /\ Set(r, [t EXCEPT !.book = Over(done.book, t.book),
                              !.capacity = Over(Just(n, done.current), t.capacity),
                              !.todo = t.todo \ {n}, !.fresh = t.fresh \cup {n}, !.pc = pc])
      BY <1>1, ZenonT(60) DEF Recalculate
<1>4. PICK A, N : A = SeenActions(t) /\ N = SeenNodes(t)
      OBVIOUS
<1>5. done = Recalculated(A, n, N[n].initial)
      BY <1>1, <1>3, <1>4, VisibleIsSeen
<1>6. PICK u : u = [t EXCEPT !.book = Over(done.book, t.book),
                             !.capacity = Over(Just(n, done.current), t.capacity),
                             !.todo = t.todo \ {n}, !.fresh = t.fresh \cup {n}, !.pc = pc]
      OBVIOUS
<1>7. tx' = [tx EXCEPT ![r] = u]
      BY <1>3, <1>6 DEF Set
<1>8. /\ u.book = Over(done.book, t.book) /\ u.capacity = Over(Just(n, done.current), t.capacity)
      /\ u.todo = t.todo \ {n} /\ u.fresh = t.fresh \cup {n} /\ u.pc = pc
      /\ u.own = t.own /\ u.dropped = t.dropped /\ u.ownNode = t.ownNode /\ u.locks = t.locks
      BY <1>2, <1>6 DEF TxState
<1>9. n \in NodeId /\ n \in DOMAIN N /\ N[n].initial \in Int
  <2>1. n \in DOMAIN N /\ N[n] \in NodeRow
        BY <1>2, <1>3, <1>4, SeenNodeFacts DEF Edited
  <2> QED BY <1>2, <1>3, <2>1, TxFacts DEF NodeRow
<1>10. /\ AddsUp(A, done.book, n, N[n].initial, done.current) /\ DOMAIN done.book = OfNode(A, n)
       /\ done.current \in Int /\ done.book \in [OfNode(A, n) -> BookRow]
  <2>1. RowsOK(A, DOMAIN A) /\ OfNode(A, n) \subseteq DOMAIN A
        BY <1>2, <1>4, SeenRows DEF OfNode
  <2>2. RowsOK(A, OfNode(A, n))
        BY <2>1 DEF RowsOK
  <2> QED BY <1>5, <1>9, <2>2, RecalculatedAddsUp
<1>11. \A i \in OfNode(A, n) :
          /\ i \in DOMAIN A /\ A[i].node = n /\ i \in ActionId /\ i \in DOMAIN t.own \cup DOMAIN actions
          /\ i \in DOMAIN actions => actions[i].node = n
  <2>1. \A i \in OfNode(A, n) : i \in DOMAIN A /\ A[i].node = n
        BY DEF OfNode
  <2> QED BY <1>2, <1>4, <2>1, SeenRows
<1>12. DOMAIN u.book = OfNode(A, n) \cup DOMAIN t.book /\ DOMAIN u.capacity = {n} \cup DOMAIN t.capacity
       BY <1>8, <1>10 DEF Over, Just
<1>13. Edited(u) = Edited(t)
       BY <1>3, <1>8, <1>12 DEF Edited
<1>14. u \in TxState
  <2>1. done.book \in Partial(ActionId, BookRow)
        BY <1>10, <1>11, FunctionIsPartial
  <2>2. Just(n, done.current) \in Partial(NodeId, Int)
        BY <1>9, <1>10, JustIsPartial
  <2>3. t.book \in Partial(ActionId, BookRow) /\ t.capacity \in Partial(NodeId, Int)
        BY <1>2, TxFacts
  <2>4. u.book \in Partial(ActionId, BookRow) /\ u.capacity \in Partial(NodeId, Int)
        BY <1>8, <2>1, <2>2, <2>3, OverIsPartial
  <2>5. u.todo \subseteq NodeId /\ u.fresh \subseteq NodeId /\ u.pc \in {"idle", "edit", "recalc", "commit"}
        BY <1>2, <1>3, <1>8, <1>9, TxFacts
  <2>6. PICK book, capacity, todo, fresh :
            /\ u = [t EXCEPT !.book = book, !.capacity = capacity,
                             !.todo = todo, !.fresh = fresh, !.pc = pc]
            /\ book = u.book /\ capacity = u.capacity /\ todo = u.todo /\ fresh = u.fresh
        BY <1>6, <1>8
  <2> QED BY <1>2, <1>8, <2>4, <2>5, <2>6 DEF TxState
<1>15. Legal(u)
  <2>1. DOMAIN u.book \subseteq 1 .. lastAction
    <3>1. DOMAIN actions \subseteq 1 .. lastAction
          BY <1>2 DEF TypeOK
    <3> QED BY <1>2, <1>11, <1>12, <3>1 DEF Legal, Bounded
  <2>2. Bounded(u)
        BY <1>2, <1>8, <1>12, <1>13, <2>1 DEF Legal, Bounded
  <2>3. InPhase(u)
        BY <1>3, <1>8 DEF InPhase
  <2>4. NodesHeld(u)
        BY <1>2, <1>8, <1>13 DEF Legal, NodesHeld, Holds
  <2>5. RowsHeld(u)
        BY <1>2, <1>8, <1>11, <1>12, <1>13 DEF Legal, RowsHeld, Edited
  <2> QED BY <1>14, <2>2, <2>3, <2>4, <2>5 DEF Legal
<1>16. ASSUME NEW s \in Request \ {r} PROVE Apart(u, tx[s])
  <2>1. Apart(t, tx[s])
        BY <1>1 DEF IInv
  <2> QED BY <1>8, <1>11, <1>12, <1>13, <2>1 DEF Apart
<1>17. /\ SeenActions(u) = A /\ SeenNodes(u) = N
       /\ DOMAIN SeenLedger(t) = DOMAIN A /\ DOMAIN SeenLedger(u) = DOMAIN A
       BY <1>4, <1>8 DEF SeenActions, SeenNodes, SeenLedger
<1>18. \A i \in DOMAIN A : SeenLedger(u)[i] = IF i \in OfNode(A, n) THEN done.book[i]
                                              ELSE SeenLedger(t)[i]
  <2>1. \A i \in DOMAIN A : /\ SeenLedger(u)[i] = Over(u.book, ledger)[i]
                            /\ SeenLedger(t)[i] = Over(t.book, ledger)[i]
        BY <1>4, <1>17 DEF SeenLedger
  <2>2. \A i \in DOMAIN A : i \in DOMAIN t.book \cup DOMAIN ledger
        BY <1>2, <1>4, SeenRows
  <2>3. ASSUME NEW i \in DOMAIN A
        PROVE  SeenLedger(u)[i] = IF i \in OfNode(A, n) THEN done.book[i] ELSE SeenLedger(t)[i]
    <3>1. CASE i \in OfNode(A, n)
      <4>1. i \in DOMAIN done.book /\ i \in DOMAIN u.book
            BY <1>10, <1>12, <3>1
      <4>2. u.book[i] = done.book[i] /\ SeenLedger(u)[i] = u.book[i]
            BY <1>8, <2>1, <4>1 DEF Over
      <4> QED BY <3>1, <4>2
    <3>2. CASE i \notin OfNode(A, n) /\ i \in DOMAIN t.book
      <4>1. i \notin DOMAIN done.book /\ i \in DOMAIN u.book
            BY <1>10, <1>12, <3>2
      <4>2. u.book[i] = t.book[i] /\ SeenLedger(u)[i] = u.book[i] /\ SeenLedger(t)[i] = t.book[i]
            BY <1>8, <2>1, <3>2, <4>1, ZenonT(60) DEF Over
      <4> QED BY <3>2, <4>2
    <3>3. CASE i \notin OfNode(A, n) /\ i \notin DOMAIN t.book
      <4>1. i \notin DOMAIN u.book /\ i \in DOMAIN ledger
            BY <1>12, <2>2, <3>3
      <4>2. SeenLedger(u)[i] = ledger[i] /\ SeenLedger(t)[i] = ledger[i]
            BY <2>1, <3>3, <4>1 DEF Over
      <4> QED BY <3>3, <4>2
    <3> QED BY <3>1, <3>2, <3>3
  <2> QED BY <2>3
<1>19. ASSUME NEW m \in u.fresh PROVE SeenAddsUp(u, m)
  <2>1. CASE m = n
    <3>1. SeenCurrent(u)[n] = done.current
      <4>1. SeenCurrent(u)[n] = u.capacity[n]
            BY <1>9, <1>12, <1>17 DEF SeenCurrent, Over
      <4> QED BY <1>8, <4>1 DEF Over, Just
    <3>2. PICK M : M = SeenLedger(u)
          OBVIOUS
    <3>3. \A i \in OfNode(A, n) : A[i] = A[i] /\ M[i] = done.book[i]
          BY <1>11, <1>18, <3>2
    <3>4. AddsUp(A, M, n, N[n].initial, done.current)
          BY <1>10, <3>3, AddsUpAlike
    <3> QED BY <1>17, <2>1, <3>1, <3>2, <3>4 DEF SeenAddsUp
  <2>2. CASE m # n
    <3>1. m \in t.fresh /\ m \in DOMAIN t.capacity /\ m \in DOMAIN N
      <4>1. m \in t.fresh /\ m \in DOMAIN t.capacity
            BY <1>2, <1>8, <2>2 DEF Legal, Bounded
      <4> QED BY <1>2, <1>4, <4>1, SeenNodeFacts DEF Edited
    <3>2. SeenCurrent(u)[m] = SeenCurrent(t)[m]
      <4>1. SeenCurrent(u)[m] = u.capacity[m] /\ SeenCurrent(t)[m] = t.capacity[m]
            BY <1>4, <1>12, <1>17, <3>1 DEF SeenCurrent, Over
      <4>2. u.capacity[m] = t.capacity[m]
            BY <1>8, <2>2, <3>1 DEF Over, Just
      <4> QED BY <4>1, <4>2
    <3>3. PICK L, M, x, y : /\ L = SeenLedger(t) /\ M = SeenLedger(u)
                            /\ x = N[m].initial /\ y = SeenCurrent(t)[m]
          OBVIOUS
    <3>4. AddsUp(A, L, m, x, y)
          BY <1>2, <1>4, <3>1, <3>3 DEF FreshAddsUp, SeenAddsUp
    <3>5. \A i \in OfNode(A, m) : i \in DOMAIN A /\ i \notin OfNode(A, n)
          BY <2>2 DEF OfNode
    <3>6. \A i \in OfNode(A, m) : A[i] = A[i] /\ M[i] = L[i]
          BY <1>18, <3>3, <3>5
    <3>7. AddsUp(A, M, m, x, y)
          BY <3>4, <3>6, AddsUpAlike
    <3> QED BY <1>17, <3>2, <3>3, <3>7 DEF SeenAddsUp
  <2> QED BY <2>1, <2>2
<1>20. FreshAddsUp(u)
       BY <1>19 DEF FreshAddsUp
<1>21. /\ UNCHANGED <<tables, skewed>> /\ UNCHANGED tables /\ lastNode' = lastNode /\ lastAction' = lastAction
       /\ requests' = requests /\ faults' = faults
       BY DEF Recalculate
<1>22. /\ lastNode' \in 0 .. MaxNodes /\ lastAction' \in 0 .. MaxActions
       /\ requests' \in 0 .. MaxRequests /\ faults' \in 0 .. MaxFaults
       /\ lastNode <= lastNode' /\ lastAction <= lastAction'
       BY <1>2, <1>21, RowNodes DEF TypeOK
<1>23. TypeOK'
       BY <1>2, <1>21, <1>22, TypesStay
<1>24. Legal(u)'
       BY <1>2, <1>15, <1>21, <1>22, <1>23, LegalLasts
<1> QED BY <1>7, <1>16, <1>20, <1>21, <1>22, <1>23, <1>24, OneTransactionSteps
-----------------------------------------------------------------------------
(* A step that changes the tables spares a transaction: the nodes it works *)
(* on and the actions it holds stay, and what it creates is not there yet. *)
Spares(t) ==
    /\ \A n \in Edited(t) : n \in DOMAIN nodes <=> n \in DOMAIN nodes'
    /\ \A i \in DOMAIN actions : <<"action", i>> \in t.locks =>
          i \in DOMAIN actions' /\ actions'[i].node = actions[i].node
    /\ \A i \in DOMAIN t.own \cup DOMAIN t.book : i \in DOMAIN actions' =>
          i \in DOMAIN actions /\ actions'[i].node = actions[i].node

LEMMA SparedIsLegal ==
    ASSUME TypeOK, TypeOK', lastNode <= lastNode', lastAction <= lastAction',
           NEW t, Legal(t), Spares(t)
    PROVE  Legal(t)'
<1>1. Bounded(t)'
  <2>1. PICK n \in Nat, a \in Nat : n = lastNode /\ a = lastAction
        BY CapacityAssumption DEF TypeOK
  <2>2. PICK m \in Nat, b \in Nat : m = lastNode' /\ b = lastAction'
        BY CapacityAssumption DEF TypeOK
  <2>3. 1 .. n \subseteq 1 .. m /\ 1 .. a \subseteq 1 .. b
        BY <2>1, <2>2
  <2> QED BY <2>1, <2>2, <2>3 DEF Legal, Bounded
<1>2. \A i \in DOMAIN actions : <<"action", i>> \in t.locks =>
          i \in DOMAIN actions' /\ actions'[i].node = actions[i].node
      BY DEF Spares
<1>3. ASSUME NEW n, n \in DOMAIN nodes, Holds(t, n) PROVE Holds(t, n)'
      BY <1>2, <1>3 DEF Holds
<1>4. NodesHeld(t)'
  <2>1. DOMAIN t.ownNode \subseteq Edited(t)
        BY DEF Legal, NodesHeld
  <2>2. ASSUME NEW n \in Edited(t)
        PROVE  IF n \in DOMAIN nodes' THEN Holds(t, n)' ELSE n \in DOMAIN t.ownNode
    <3>1. n \in DOMAIN nodes <=> n \in DOMAIN nodes'
          BY DEF Spares
    <3>2. IF n \in DOMAIN nodes THEN Holds(t, n) ELSE n \in DOMAIN t.ownNode
          BY DEF Legal, NodesHeld
    <3> QED BY <1>3, <3>1, <3>2
  <2> QED BY <2>1, <2>2 DEF NodesHeld
<1>5. RowsHeld(t)'
  <2>1. RowsHeld(t)
        BY DEF Legal
  <2>2. \A i \in DOMAIN t.own \cup DOMAIN t.book : i \in DOMAIN actions' =>
            i \in DOMAIN actions /\ actions'[i].node = actions[i].node
        BY DEF Spares
  <2>3. ASSUME NEW i \in DOMAIN t.own
        PROVE  /\ t.own[i].node \in Edited(t)
               /\ i \in DOMAIN actions' =>
                     <<"action", i>> \in t.locks /\ t.own[i].node = actions'[i].node
               /\ i \notin DOMAIN actions' => i \in DOMAIN t.book
        BY <1>2, <2>1, <2>2 DEF RowsHeld
  <2>4. \A i \in t.dropped : /\ i \in DOMAIN actions' /\ <<"action", i>> \in t.locks
                             /\ actions'[i].node \in Edited(t)
        BY <1>2, <2>1 DEF RowsHeld
  <2>5. \A i \in DOMAIN t.book \cap DOMAIN actions' : actions'[i].node \in Edited(t)
        BY <2>1, <2>2 DEF RowsHeld
  <2> QED BY <2>3, <2>4, <2>5 DEF RowsHeld
<1> QED BY <1>1, <1>4, <1>5 DEF Legal

LEMMA SparedAreApart ==
    ASSUME NEW t, NEW u, Legal(t), Legal(u), Spares(t), Spares(u), Apart(t, u)
    PROVE  Apart(t, u)'
<1>1. Edited(t) \cap Edited(u) \subseteq DOMAIN nodes'
      BY DEF Apart, Spares
<1>2. \A i \in DOMAIN t.own \cap DOMAIN actions : i \in DOMAIN actions'
      BY DEF Legal, RowsHeld, Spares
<1>3. \A i \in DOMAIN u.own \cap DOMAIN actions : i \in DOMAIN actions'
      BY DEF Legal, RowsHeld, Spares
<1> QED BY <1>1, <1>2, <1>3 DEF Apart

LEMMA IdleIsSpared ==
    ASSUME TypeOK
    PROVE  Spares(IdleTx)
BY IdleIsLegal DEF WritesNothing, Spares

(* What is fresh and untouched still adds up.                              *)
LEMMA SparedAddsUp ==
    ASSUME TypeOK, TypeOK', NEW t, Legal(t), Legal(t)', FreshAddsUp(t),
           \A n \in t.fresh : Alike(n),
           \A n \in t.fresh \cap DOMAIN nodes :
              n \in DOMAIN t.ownNode \/ (n \in DOMAIN nodes' /\ nodes'[n] = nodes[n])
    PROVE  FreshAddsUp(t)'
<1>1. ASSUME NEW n \in t.fresh PROVE SeenAddsUp(t, n)'
  <2>1. n \in Edited(t)
        BY DEF Legal, Bounded, Edited
  <2>2. n \in DOMAIN t.ownNode \/ (n \in DOMAIN nodes \cap DOMAIN nodes' /\ nodes'[n] = nodes[n])
        BY <2>1 DEF Legal, NodesHeld
  <2>3. SeenAddsUp(t, n) /\ Alike(n)
        BY DEF FreshAddsUp
  <2> QED BY <2>2, <2>3, UntouchedView
<1> QED BY <1>1 DEF FreshAddsUp

LEMMA CreateNodeKeeps ==
    ASSUME IInv, NEW r \in Request, CreateNode(r)
    PROVE  IInv'
<1>1. TypeOK /\ tx \in [Request -> TxState] /\ tx' = tx
      BY DEF IInv, CreateNode
<1>2. PICK n : n = lastNode + 1
      OBVIOUS
<1>3. PICK k \in Key, c \in Initial :
          /\ nodes' = Over(Just(n, [key |-> k, initial |-> c]), nodes)
          /\ current' = Over(Just(n, c), current)
      BY <1>2 DEF CreateNode
<1>4. /\ n \in NodeId /\ n \notin DOMAIN nodes /\ n \in 1 .. n /\ 1 .. lastNode \subseteq 1 .. n
      /\ n \notin 1 .. lastNode /\ lastNode' = n /\ n \in 0 .. MaxNodes /\ lastNode <= lastNode'
  <2>1. PICK m \in Nat : m = lastNode /\ n = m + 1 /\ m < MaxNodes
        BY <1>1, <1>2, RowNodes DEF CreateNode
  <2>2. n \in NodeId /\ n \in 1 .. n /\ 1 .. m \subseteq 1 .. n /\ n \notin 1 .. m /\ n \in 0 .. MaxNodes /\ m <= n
        BY <2>1, CapacityAssumption DEF NodeId
  <2> QED BY <1>1, <1>2, <2>1, <2>2, RowNodes DEF CreateNode
<1>5. /\ DOMAIN nodes' = {n} \cup DOMAIN nodes /\ DOMAIN current' = {n} \cup DOMAIN current
      /\ nodes'[n] = [key |-> k, initial |-> c] /\ current'[n] = c
      /\ \A m \in DOMAIN nodes : nodes'[m] = nodes[m]
      /\ \A m \in DOMAIN current : current'[m] = current[m]
  <2>1. n \notin DOMAIN current
        BY <1>1, <1>4 DEF TypeOK
  <2> QED BY <1>3, <1>4, <2>1 DEF Over, Just
<1>6. /\ actions' = actions /\ ledger' = ledger /\ lastAction' = lastAction /\ skewed' = skewed
      /\ faults' = faults
      BY DEF CreateNode
<1>7. requests' \in 0 .. MaxRequests
      BY Counted DEF CreateNode
<1>8. c \in Nat /\ c \in Int
      BY CapacityAssumption
<1>9. TypeOK'
  <2>1. DOMAIN nodes' \subseteq 1 .. lastNode' /\ DOMAIN current' = DOMAIN nodes'
        BY <1>1, <1>4, <1>5 DEF TypeOK
  <2>2. \A m \in DOMAIN nodes' : nodes'[m] \in NodeRow /\ current'[m] \in Int
    <3>1. nodes'[n] \in NodeRow
          BY <1>5, <1>8 DEF NodeRow
    <3> QED BY <1>1, <1>5, <1>8, <3>1 DEF TypeOK
  <2>3. lastNode' \in 0 .. MaxNodes
        BY <1>4
  <2>4. skewed' \subseteq DOMAIN nodes' /\ \A i \in DOMAIN actions' : actions'[i].node \in DOMAIN nodes'
        BY <1>1, <1>5, <1>6 DEF TypeOK
  <2> QED BY <1>1, <1>6, <1>7, <2>1, <2>2, <2>3, <2>4 DEF TypeOK
<1>10. lastAction <= lastAction'
       BY <1>1, <1>6, RowNodes
<1>11. ASSUME NEW s \in Request PROVE Spares(tx[s]) /\ Legal(tx[s])' /\ FreshAddsUp(tx[s])'
  <2>1. PICK t : t = tx[s] /\ t = tx'[s]
        BY <1>1
  <2>2. Legal(t) /\ FreshAddsUp(t)
        BY <2>1 DEF IInv
  <2>3. n \notin Edited(t)
        BY <1>4, <2>2 DEF Legal, Bounded
  <2>4. Spares(t)
        BY <1>5, <1>6, <2>3 DEF Spares
  <2>5. Legal(t)'
        BY <1>1, <1>4, <1>9, <1>10, <2>2, <2>4, SparedIsLegal
  <2>6. \A m \in t.fresh : Alike(m)
        BY <1>6 DEF Alike, OfNode
  <2>7. FreshAddsUp(t)'
        BY <1>1, <1>5, <1>9, <2>2, <2>5, <2>6, SparedAddsUp
  <2> QED BY <2>1, <2>4, <2>5, <2>7
<1>12. ASSUME NEW s \in Request, NEW q \in Request, s # q PROVE Apart(tx[s], tx[q])'
  <2>1. PICK t, u : t = tx[s] /\ u = tx[q] /\ t = tx'[s] /\ u = tx'[q]
        BY <1>1
  <2>2. Legal(t) /\ Legal(u) /\ Spares(t) /\ Spares(u) /\ Apart(t, u)
        BY <1>11, <1>12, <2>1 DEF IInv
  <2>3. Apart(t, u)'
        BY <2>2, SparedAreApart
  <2> QED BY <2>1, <2>3
<1>13. LedgerAddsUp'
  <2>1. ASSUME NEW m \in DOMAIN nodes' \ skewed'
        PROVE  AddsUp(actions', ledger', m, nodes'[m].initial, current'[m])
    <3>1. CASE m = n
      <4>1. PICK B, M, x : B = actions' /\ M = ledger' /\ x = c
            OBVIOUS
      <4>2. OfNode(B, n) = {}
            BY <1>1, <1>4, <1>6, <4>1 DEF OfNode, TypeOK
      <4>3. Amounts(B, OfNode(B, n)) = 0
            BY <4>2, AmountsOfNone
      <4>4. AddsUp(B, M, n, x, x)
            BY <1>8, <4>1, <4>2, <4>3 DEF AddsUp
      <4> QED BY <1>5, <3>1, <4>1, <4>4
    <3>2. CASE m # n
      <4>1. m \in DOMAIN nodes \ skewed /\ m \in DOMAIN current
            BY <1>1, <1>5, <1>6, <3>2 DEF TypeOK
      <4>2. AddsUp(actions, ledger, m, nodes[m].initial, current[m])
            BY <4>1 DEF IInv, LedgerAddsUp
      <4> QED BY <1>5, <1>6, <4>1, <4>2
    <3> QED BY <3>1, <3>2
  <2> QED BY <2>1 DEF LedgerAddsUp
<1> QED BY <1>1, <1>9, <1>11, <1>12, <1>13 DEF IInv

LEMMA DeleteNodeKeeps ==
    ASSUME IInv, NEW r \in Request, DeleteNode(r)
    PROVE  IInv'
<1>1. TypeOK /\ tx \in [Request -> TxState]
      BY DEF IInv
<1>2. PICK n \in DOMAIN nodes :
          /\ \A s \in Request : tx[s].locks \cap
                ({<<"node", n>>, <<"name", n>>, <<"share", n>>}
                   \cup {<<"action", i>> : i \in OfNode(actions, n)}) = {}
          /\ nodes' = [m \in DOMAIN nodes \ {n} |-> nodes[m]]
          /\ current' = [m \in DOMAIN nodes \ {n} |-> current[m]]
          /\ actions' = [i \in DOMAIN actions \ OfNode(actions, n) |-> actions[i]]
          /\ ledger' = [i \in DOMAIN actions \ OfNode(actions, n) |-> ledger[i]]
          /\ skewed' = skewed \ {n}
          /\ tx' = [s \in Request |-> IF n \in Edited(tx[s]) THEN IdleTx ELSE tx[s]]
      BY DEF DeleteNode
<1>3. /\ DOMAIN nodes' = DOMAIN nodes \ {n} /\ DOMAIN current' = DOMAIN nodes \ {n}
      /\ \A m \in DOMAIN nodes \ {n} : nodes'[m] = nodes[m] /\ current'[m] = current[m]
      BY <1>2
<1>4. /\ DOMAIN actions' = {i \in DOMAIN actions : actions[i].node # n}
      /\ DOMAIN ledger' = DOMAIN actions'
      /\ \A i \in DOMAIN actions' : actions'[i] = actions[i] /\ ledger'[i] = ledger[i]
      BY <1>2 DEF OfNode
<1>5. lastNode' = lastNode /\ lastAction' = lastAction /\ faults' = faults
      BY DEF DeleteNode
<1>6. requests' \in 0 .. MaxRequests
      BY Counted DEF DeleteNode
<1>7. TypeOK'
  <2>1. DOMAIN nodes' \subseteq 1 .. lastNode' /\ DOMAIN current' = DOMAIN nodes'
        BY <1>1, <1>3, <1>5 DEF TypeOK
  <2>2. \A m \in DOMAIN nodes' : nodes'[m] \in NodeRow /\ current'[m] \in Int
        BY <1>1, <1>3 DEF TypeOK
  <2>3. DOMAIN actions' \subseteq 1 .. lastAction' /\ DOMAIN ledger' = DOMAIN actions'
        BY <1>1, <1>4, <1>5 DEF TypeOK
  <2>4. \A i \in DOMAIN actions' : actions'[i] \in ActionRow /\ ledger'[i] \in BookRow
        BY <1>1, <1>4 DEF TypeOK
  <2>5. \A i \in DOMAIN actions' : actions'[i].node \in DOMAIN nodes'
        BY <1>1, <1>3, <1>4 DEF TypeOK
  <2>6. skewed' \subseteq DOMAIN nodes'
        BY <1>1, <1>2, <1>3 DEF TypeOK
  <2> QED BY <1>1, <1>5, <1>6, <2>1, <2>2, <2>3, <2>4, <2>5, <2>6 DEF TypeOK
<1>8. lastAction <= lastAction' /\ lastNode <= lastNode'
      BY <1>1, <1>5, RowNodes
<1>9. ASSUME NEW m, m # n PROVE Alike(m)
      BY <1>4, <1>9 DEF Alike, OfNode
<1>10. ASSUME NEW s \in Request PROVE Spares(tx'[s]) /\ Legal(tx'[s]) /\ Legal(tx[s])' /\ FreshAddsUp(tx[s])'
  <2>1. PICK t, x : t = tx'[s] /\ x = tx[s] /\ t = IF n \in Edited(x) THEN IdleTx ELSE x
        BY <1>2
  <2>2. Legal(t) /\ FreshAddsUp(t)
        BY <1>1, <2>1, IdleIsLegal DEF IInv
  <2>2a. t.locks \subseteq x.locks
        BY <1>1, <2>1, IdleIsLegal DEF WritesNothing
  <2>3. /\ <<"node", n>> \notin t.locks /\ <<"share", n>> \notin t.locks
        /\ \A i \in DOMAIN actions : <<"action", i>> \in t.locks => actions[i].node # n
    <3>1. \A i \in DOMAIN actions : actions[i].node = n => i \in OfNode(actions, n)
          BY DEF OfNode
    <3>2. t.locks \cap ({<<"node", n>>, <<"name", n>>, <<"share", n>>}
                          \cup {<<"action", i>> : i \in OfNode(actions, n)}) = {}
          BY <1>2, <2>1, <2>2a
    <3> QED BY <3>1, <3>2
  <2>4. n \notin Edited(t)
        BY <1>1, <2>1, IdleIsLegal DEF WritesNothing
  <2>5. Spares(t)
        BY <1>3, <1>4, <2>3, <2>4 DEF Spares
  <2>6. Legal(t)'
        BY <1>1, <1>7, <1>8, <2>2, <2>5, SparedIsLegal
  <2>7. \A m \in t.fresh : m # n
        BY <2>2, <2>4 DEF Legal, Bounded, Edited
  <2>8. FreshAddsUp(t)'
    <3>1. \A m \in t.fresh : Alike(m)
          BY <1>9, <2>7
    <3>2. \A m \in t.fresh \cap DOMAIN nodes : m \in DOMAIN nodes' /\ nodes'[m] = nodes[m]
          BY <1>3, <2>7
    <3> QED BY <1>1, <1>7, <2>2, <2>6, <3>1, <3>2, SparedAddsUp
  <2> QED BY <2>1, <2>2, <2>5, <2>6, <2>8
<1>11. ASSUME NEW s \in Request, NEW q \in Request, s # q PROVE Apart(tx[s], tx[q])'
  <2>1. PICK t, u : t = tx'[s] /\ u = tx'[q]
        OBVIOUS
  <2>2. Legal(t) /\ Legal(u) /\ Spares(t) /\ Spares(u)
        BY <1>10, <2>1
  <2>3. Apart(t, u)
    <3>1. Apart(tx[s], tx[q])
          BY <1>11 DEF IInv
    <3>2. (t = IdleTx \/ t = tx[s]) /\ (u = IdleTx \/ u = tx[q])
          BY <1>2, <2>1
    <3> QED BY <1>1, <3>1, <3>2, IdleIsLegal, BlankIsApart
  <2>4. Apart(t, u)'
        BY <2>2, <2>3, SparedAreApart
  <2> QED BY <2>1, <2>4
<1>12. LedgerAddsUp'
  <2>1. ASSUME NEW m \in DOMAIN nodes' \ skewed'
        PROVE  AddsUp(actions', ledger', m, nodes'[m].initial, current'[m])
    <3>1. m \in DOMAIN nodes \ skewed /\ m # n
          BY <1>2, <1>3
    <3>2. PICK A, L, B, M, x, y : /\ A = actions /\ L = ledger /\ B = actions' /\ M = ledger'
                                  /\ x = nodes[m].initial /\ y = current[m]
          OBVIOUS
    <3>3. AddsUp(A, L, m, x, y)
          BY <3>1, <3>2 DEF IInv, LedgerAddsUp
    <3>4. OfNode(B, m) = OfNode(A, m) /\ \A i \in OfNode(A, m) : B[i] = A[i] /\ M[i] = L[i]
      <4>1. Alike(m)
            BY <1>9, <3>1
      <4> QED BY <3>2, <4>1 DEF Alike
    <3>5. AddsUp(B, M, m, x, y)
          BY <3>3, <3>4, AddsUpAlike
    <3> QED BY <1>3, <3>1, <3>2, <3>5
  <2> QED BY <2>1 DEF LedgerAddsUp
<1>13. tx' \in [Request -> TxState]
  <2>1. \A s \in Request : tx'[s] \in TxState
        BY <1>10 DEF Legal
  <2>2. DOMAIN tx' = Request /\ tx' = [s \in Request |-> tx'[s]]
        BY <1>2
  <2> QED BY <2>1, <2>2
<1> QED BY <1>7, <1>10, <1>11, <1>12, <1>13 DEF IInv

LEMMA CommitKeeps ==
    ASSUME IInv, NEW r \in Request, Commit(r)
    PROVE  IInv'
<1>1. PICK t : t = tx[r]
      OBVIOUS
<1>2. TypeOK /\ Legal(t) /\ t \in TxState /\ FreshAddsUp(t) /\ t.todo = {} /\ tx \in [Request -> TxState]
      BY <1>1 DEF IInv, Legal, InPhase, Commit
<1>3. /\ nodes' = SeenNodes(t) /\ current' = SeenCurrent(t)
      /\ actions' = SeenActions(t) /\ ledger' = SeenLedger(t)
      BY <1>1, VisibleIsSeen DEF Commit
<1>4. Touched(r) = Edited(t) /\ Edited(t) = DOMAIN t.capacity
      BY <1>1, <1>2 DEF Touched, Edited, Legal, NodesHeld
<1>5. /\ skewed' = (skewed \cup Edited(t)) \ t.fresh
      /\ tx' = [s \in Request |-> IF s = r THEN IdleTx
                                  ELSE [tx[s] EXCEPT !.fresh = @ \ Edited(t)]]
      BY <1>1, <1>4 DEF Commit
<1>6. /\ lastNode' = lastNode /\ lastAction' = lastAction /\ requests' = requests /\ faults' = faults
      BY DEF Commit
<1>7. /\ DOMAIN nodes' = DOMAIN t.ownNode \cup DOMAIN nodes /\ DOMAIN current' = DOMAIN nodes'
      /\ \A n \in DOMAIN nodes' : nodes'[n] \in NodeRow /\ current'[n] = Over(t.capacity, current)[n]
      /\ Edited(t) \subseteq DOMAIN nodes'
      BY <1>2, <1>3, SeenNodeFacts
<1>8. \A n \in DOMAIN nodes' \ Edited(t) : /\ n \in DOMAIN nodes /\ nodes'[n] = nodes[n]
                                           /\ current'[n] = current[n]
  <2>1. DOMAIN t.ownNode \subseteq Edited(t) /\ DOMAIN current = DOMAIN nodes
        BY <1>2 DEF Legal, NodesHeld, TypeOK
  <2> QED BY <1>3, <1>4, <1>7, <2>1 DEF SeenNodes, Over
<1>9. /\ DOMAIN ledger' = DOMAIN actions' /\ DOMAIN actions' \subseteq ActionId
      /\ \A i \in DOMAIN actions' :
            /\ i \notin t.dropped
            /\ actions'[i] \in ActionRow /\ ledger'[i] \in BookRow
            /\ i \in DOMAIN t.own \cup DOMAIN actions
            /\ i \in DOMAIN t.own => actions'[i].node \in Edited(t)
            /\ i \in DOMAIN actions => actions'[i].node = actions[i].node
            /\ i \notin DOMAIN t.own => actions'[i] = actions[i]
            /\ ledger'[i] = Over(t.book, ledger)[i]
      BY <1>2, <1>3, SeenRows
<1>10. DOMAIN actions' = (DOMAIN t.own \cup DOMAIN actions) \ t.dropped
       BY <1>3 DEF SeenActions
<1>11. TypeOK'
  <2>1. DOMAIN nodes' \subseteq 1 .. lastNode'
    <3>1. DOMAIN t.ownNode \subseteq Edited(t) /\ Edited(t) \subseteq 1 .. lastNode /\ DOMAIN nodes \subseteq 1 .. lastNode
          BY <1>2 DEF Legal, NodesHeld, Bounded, TypeOK
    <3> QED BY <1>6, <1>7, <3>1
  <2>2. \A n \in DOMAIN nodes' : current'[n] \in Int
    <3>1. \A n \in Edited(t) : Over(t.capacity, current)[n] \in Int
      <4>1. \A n \in DOMAIN t.capacity : t.capacity[n] \in Int
            BY <1>2, TxFacts
      <4> QED BY <1>4, <4>1 DEF Over
    <3>2. \A n \in DOMAIN nodes' \ Edited(t) : current'[n] \in Int
          BY <1>2, <1>8 DEF TypeOK
    <3> QED BY <1>7, <3>1, <3>2
  <2>3. DOMAIN actions' \subseteq 1 .. lastAction'
    <3>1. DOMAIN t.own \subseteq 1 .. lastAction /\ DOMAIN actions \subseteq 1 .. lastAction
          BY <1>2 DEF Legal, Bounded, TypeOK
    <3> QED BY <1>6, <1>10, <3>1
  <2>4. \A i \in DOMAIN actions' : actions'[i].node \in DOMAIN nodes'
    <3>1. \A i \in DOMAIN actions : actions[i].node \in DOMAIN nodes'
          BY <1>2, <1>7 DEF TypeOK
    <3> QED BY <1>7, <1>9, <3>1
  <2>5. skewed' \subseteq DOMAIN nodes'
    <3>1. skewed \subseteq DOMAIN nodes
          BY <1>2 DEF TypeOK
    <3> QED BY <1>5, <1>7, <3>1
  <2>6. /\ lastNode' \in 0 .. MaxNodes /\ lastAction' \in 0 .. MaxActions
        /\ requests' \in 0 .. MaxRequests /\ faults' \in 0 .. MaxFaults
        BY <1>2, <1>6 DEF TypeOK
  <2> QED BY <1>7, <1>9, <2>1, <2>2, <2>3, <2>4, <2>5, <2>6 DEF TypeOK
<1>12. lastNode <= lastNode' /\ lastAction <= lastAction'
       BY <1>2, <1>6, RowNodes
<1>13. ASSUME NEW n, n \notin Edited(t) PROVE Alike(n)
  <2>1. \A i \in DOMAIN t.own \cap DOMAIN actions : actions[i].node \in Edited(t)
        BY <1>2 DEF Legal, RowsHeld
  <2>2. \A i \in t.dropped \cup DOMAIN t.book : i \in DOMAIN actions => actions[i].node \in Edited(t)
        BY <1>2 DEF Legal, RowsHeld
  <2>3. ASSUME NEW i \in OfNode(actions, n)
        PROVE  /\ i \in DOMAIN actions' /\ actions'[i] = actions[i] /\ actions'[i].node = n
               /\ ledger'[i] = ledger[i]
    <3>1. i \in DOMAIN actions /\ actions[i].node = n
          BY DEF OfNode
    <3>2. i \notin DOMAIN t.own /\ i \notin t.dropped /\ i \notin DOMAIN t.book
          BY <1>13, <2>1, <2>2, <3>1
    <3>3. i \in DOMAIN actions' /\ actions'[i] = actions[i]
          BY <1>9, <1>10, <3>1, <3>2
    <3>4. i \in DOMAIN ledger
          BY <1>2, <3>1 DEF TypeOK
    <3>5. ledger'[i] = ledger[i]
          BY <1>9, <3>2, <3>3, <3>4 DEF Over
    <3> QED BY <3>1, <3>3, <3>5
  <2>4. ASSUME NEW i \in DOMAIN actions', actions'[i].node = n PROVE i \in OfNode(actions, n)
        BY <1>9, <1>13, <2>4 DEF OfNode
  <2>5. OfNode(actions, n)' = OfNode(actions, n)
    <3>1. OfNode(actions, n)' = {i \in DOMAIN actions' : actions'[i].node = n}
          BY DEF OfNode
    <3> QED BY <2>3, <2>4, <3>1
  <2> QED BY <2>3, <2>5 DEF Alike
<1>14. ASSUME NEW s \in Request PROVE Spares(tx'[s]) /\ Legal(tx[s])' /\ FreshAddsUp(tx[s])'
  <2>1. CASE s = r
    <3>1. tx'[s] = IdleTx
          BY <1>5, <2>1
    <3>2. Spares(IdleTx) /\ Legal(IdleTx)
          BY <1>2, IdleIsSpared, IdleIsLegal
    <3>3. Legal(IdleTx)'
          BY <1>2, <1>11, <1>12, <3>2, SparedIsLegal
    <3>4. IdleTx.fresh = {}
          BY DEF IdleTx
    <3>5. FreshAddsUp(IdleTx)'
          BY <3>4 DEF FreshAddsUp
    <3> QED BY <3>1, <3>2, <3>3, <3>5
  <2>2. CASE s # r
    <3>1. PICK v, u, gone : v = tx[s] /\ u = [v EXCEPT !.fresh = @ \ gone] /\ u = tx'[s] /\ gone = Edited(t)
          BY <1>5, <2>2
    <3>2. Legal(v) /\ FreshAddsUp(v) /\ Apart(t, v)
          BY <1>1, <2>2, <3>1 DEF IInv
    <3>3. /\ Legal(u) /\ u.fresh = v.fresh \ Edited(t) /\ u.own = v.own /\ u.book = v.book
          /\ u.dropped = v.dropped /\ u.ownNode = v.ownNode /\ u.capacity = v.capacity
          /\ u.locks = v.locks /\ u.todo = v.todo /\ Edited(u) = Edited(v)
          BY <3>1, <3>2, FreshForgotten
    <3>4. Spares(u)
      <4>1. \A n \in Edited(v) : n \in DOMAIN nodes <=> n \in DOMAIN nodes'
        <5>1. DOMAIN t.ownNode \subseteq Edited(t)
              BY <1>2 DEF Legal, NodesHeld
        <5> QED BY <1>7, <3>2, <5>1 DEF Apart
      <4>2. ASSUME NEW i \in DOMAIN actions, <<"action", i>> \in v.locks
            PROVE  i \in DOMAIN actions' /\ actions'[i].node = actions[i].node
        <5>1. i \notin t.dropped
          <6>1. i \in ActionId
                BY <1>2, RowNodes
          <6> QED BY <1>2, <3>2, <4>2, <6>1 DEF Legal, RowsHeld, Apart
        <5> QED BY <1>9, <1>10, <5>1
      <4>3. ASSUME NEW i \in DOMAIN v.own \cup DOMAIN v.book, i \in DOMAIN actions'
            PROVE  i \in DOMAIN actions /\ actions'[i].node = actions[i].node
        <5>1. i \in DOMAIN actions
              BY <1>9, <3>2, <4>3 DEF Apart
        <5> QED BY <1>9, <4>3, <5>1
      <4> QED BY <3>3, <4>1, <4>2, <4>3 DEF Spares
    <3>5. Legal(u)'
          BY <1>2, <1>11, <1>12, <3>3, <3>4, SparedIsLegal
    <3>6. FreshAddsUp(u)
      <4>1. ASSUME NEW n \in u.fresh PROVE SeenAddsUp(u, n)
        <5>1. SeenAddsUp(v, n)
              BY <3>2, <3>3 DEF FreshAddsUp
        <5> QED BY <3>3, <5>1 DEF SeenAddsUp, SeenActions, SeenLedger, SeenNodes, SeenCurrent
      <4> QED BY <4>1 DEF FreshAddsUp
    <3>7. FreshAddsUp(u)'
      <4>1. \A n \in u.fresh : n \notin Edited(t) /\ Alike(n)
            BY <1>13, <3>3
      <4>2. \A n \in u.fresh \cap DOMAIN nodes : n \in DOMAIN nodes' /\ nodes'[n] = nodes[n]
            BY <1>7, <1>8, <4>1
      <4> QED BY <1>2, <1>11, <3>3, <3>5, <3>6, <4>1, <4>2, SparedAddsUp
    <3> QED BY <3>1, <3>4, <3>5, <3>7
  <2> QED BY <2>1, <2>2
<1>15. tx' \in [Request -> TxState]
  <2>1. \A s \in Request : tx'[s] \in TxState
        BY <1>14 DEF Legal
  <2>2. DOMAIN tx' = Request /\ tx' = [s \in Request |-> tx'[s]]
        BY <1>5
  <2> QED BY <2>1, <2>2
<1>16. ASSUME NEW s \in Request, NEW q \in Request, s # q PROVE Apart(tx[s], tx[q])'
  <2>1. PICK u, v : u = tx'[s] /\ v = tx'[q]
        OBVIOUS
  <2>2. Apart(u, v)
    <3>1. CASE s = r \/ q = r
      <4>1. u = IdleTx \/ v = IdleTx
            BY <1>5, <2>1, <3>1
      <4> QED BY <1>2, <4>1, IdleIsLegal, BlankIsApart
    <3>2. CASE s # r /\ q # r
      <4>1. PICK x, y, gone : /\ x = tx[s] /\ y = tx[q] /\ gone = Edited(t)
                              /\ u = [x EXCEPT !.fresh = @ \ gone] /\ v = [y EXCEPT !.fresh = @ \ gone]
            BY <1>5, <2>1, <3>2
      <4>2. Legal(x) /\ Legal(y) /\ Apart(x, y)
            BY <1>16, <4>1 DEF IInv
      <4>3. u.own = x.own /\ u.book = x.book /\ u.locks = x.locks /\ Edited(u) = Edited(x)
            BY <4>1, <4>2, FreshForgotten
      <4>4. v.own = y.own /\ v.book = y.book /\ v.locks = y.locks /\ Edited(v) = Edited(y)
            BY <4>1, <4>2, FreshForgotten
      <4> QED BY <4>2, <4>3, <4>4 DEF Apart
    <3> QED BY <3>1, <3>2
  <2>3. Legal(u) /\ Legal(v) /\ Spares(u) /\ Spares(v)
    <3>1. Spares(u) /\ Spares(v)
          BY <1>14, <2>1
    <3>2. ASSUME NEW p \in Request PROVE Legal(tx'[p])
      <4>1. CASE p = r
            BY <1>2, <1>5, <4>1, IdleIsLegal
      <4>2. CASE p # r
        <5>1. PICK x, y, gone : x = tx[p] /\ y = [x EXCEPT !.fresh = @ \ gone] /\ y = tx'[p]
              BY <1>5, <4>2
        <5>2. Legal(x)
              BY <5>1 DEF IInv
        <5> QED BY <5>1, <5>2, FreshForgotten
      <4> QED BY <4>1, <4>2
    <3> QED BY <2>1, <3>1, <3>2
  <2>4. Apart(u, v)'
        BY <2>2, <2>3, SparedAreApart
  <2> QED BY <2>1, <2>4
<1>17. LedgerAddsUp'
  <2>1. ASSUME NEW n \in DOMAIN nodes' \ skewed'
        PROVE  AddsUp(actions', ledger', n, nodes'[n].initial, current'[n])
    <3>1. CASE n \in t.fresh
      <4>1. SeenAddsUp(t, n)
            BY <1>2, <3>1 DEF FreshAddsUp
      <4> QED BY <1>3, <4>1 DEF SeenAddsUp
    <3>2. CASE n \notin t.fresh
      <4>1. n \notin skewed /\ n \notin Edited(t)
            BY <1>5, <3>2
      <4>2. n \in DOMAIN nodes /\ nodes'[n] = nodes[n] /\ current'[n] = current[n]
            BY <1>8, <4>1
      <4>3. PICK A, L, B, M, x, y : /\ A = actions /\ L = ledger /\ B = actions' /\ M = ledger'
                                    /\ x = nodes[n].initial /\ y = current[n]
            OBVIOUS
      <4>4. AddsUp(A, L, n, x, y)
            BY <4>1, <4>2, <4>3 DEF IInv, LedgerAddsUp
      <4>5. OfNode(B, n) = OfNode(A, n) /\ \A i \in OfNode(A, n) : B[i] = A[i] /\ M[i] = L[i]
        <5>1. Alike(n)
              BY <1>13, <4>1
        <5> QED BY <4>3, <5>1 DEF Alike
      <4>6. AddsUp(B, M, n, x, y)
            BY <4>4, <4>5, AddsUpAlike
      <4> QED BY <4>2, <4>3, <4>6
    <3> QED BY <3>1, <3>2
  <2> QED BY <2>1 DEF LedgerAddsUp
<1> QED BY <1>11, <1>14, <1>15, <1>16, <1>17 DEF IInv
-----------------------------------------------------------------------------
LEMMA InitialRows ==
    /\ DOMAIN InitialNodes \subseteq 1 .. Len(InitialNodes)
    /\ \A n \in DOMAIN InitialNodes : InitialNodes[n] \in NodeRow
    /\ DOMAIN InitialActions \subseteq 1 .. Len(InitialActions)
    /\ \A i \in DOMAIN InitialActions : InitialActions[i] \in ActionRow /\ i \in ActionId
    /\ Len(InitialNodes) \in 0 .. MaxNodes /\ Len(InitialActions) \in 0 .. MaxActions
<1>1. /\ InitialNodes \in Seq(NodeRow) /\ InitialActions \in Seq(ActionRow)
      /\ Len(InitialNodes) <= MaxNodes /\ Len(InitialActions) <= MaxActions
      /\ MaxNodes \in Nat /\ MaxActions \in Nat
      BY CapacityAssumption
<1> QED BY <1>1 DEF ActionId

LEMMA InitialBook ==
    ASSUME NEW n \in DOMAIN InitialNodes
    PROVE  LET done == Recalculated(InitialActions, n, InitialNodes[n].initial) IN
             /\ AddsUp(InitialActions, done.book, n, InitialNodes[n].initial, done.current)
             /\ done.current \in Int
             /\ \A i \in OfNode(InitialActions, n) : done.book[i] \in BookRow
<1>1. InitialNodes[n].initial \in Int
      BY InitialRows DEF NodeRow
<1>2. RowsOK(InitialActions, OfNode(InitialActions, n))
      BY InitialRows DEF RowsOK, OfNode
<1>3. PICK initial \in Int : initial = InitialNodes[n].initial
      BY <1>1
<1>4. PICK done : done = Recalculated(InitialActions, n, initial)
      OBVIOUS
<1>5. /\ AddsUp(InitialActions, done.book, n, initial, done.current)
      /\ done.current \in Int /\ done.book \in [OfNode(InitialActions, n) -> BookRow]
      BY <1>2, <1>4, RecalculatedAddsUp
<1> QED BY <1>3, <1>4, <1>5

LEMMA StartsSound == Init => IInv
<1> SUFFICES ASSUME Init PROVE IInv
    OBVIOUS
<1>1. /\ nodes = InitialNodes /\ actions = InitialActions /\ DOMAIN current = DOMAIN nodes
      /\ DOMAIN ledger = DOMAIN actions
      BY DEF Init
<1>2. ASSUME NEW n \in DOMAIN nodes
      PROVE  /\ nodes[n] \in NodeRow /\ current[n] \in Int
             /\ AddsUp(actions, ledger, n, nodes[n].initial, current[n])
             /\ \A i \in OfNode(actions, n) : ledger[i] \in BookRow
  <2>1. PICK done : done = Recalculated(InitialActions, n, InitialNodes[n].initial)
        OBVIOUS
  <2>2. /\ AddsUp(InitialActions, done.book, n, InitialNodes[n].initial, done.current)
        /\ done.current \in Int /\ \A i \in OfNode(InitialActions, n) : done.book[i] \in BookRow
        BY <1>1, <2>1, InitialBook
  <2>3. current[n] = done.current
        BY <1>1, <2>1 DEF Init
  <2>4. \A i \in OfNode(actions, n) : ledger[i] = done.book[i]
        BY <1>1, <2>1 DEF Init, OfNode
  <2>5. PICK A, M, x : A = actions /\ M = ledger /\ x = nodes[n].initial
        OBVIOUS
  <2>6. AddsUp(A, M, n, x, done.current)
    <3>1. AddsUp(A, done.book, n, x, done.current)
          BY <1>1, <2>2, <2>5
    <3>2. \A i \in OfNode(A, n) : A[i] = A[i] /\ M[i] = done.book[i]
          BY <2>4, <2>5
    <3> QED BY <3>1, <3>2, AddsUpAlike
  <2>7. nodes[n] \in NodeRow
        BY <1>1, InitialRows
  <2> QED BY <1>1, <2>2, <2>3, <2>4, <2>5, <2>6, <2>7
<1>3. \A i \in DOMAIN actions : actions[i] \in ActionRow /\ actions[i].node \in DOMAIN nodes
      BY <1>1, InitialRows, CapacityAssumption
<1>4. \A i \in DOMAIN actions : ledger[i] \in BookRow
      BY <1>2, <1>3 DEF OfNode
<1>5. TypeOK
  <2>1. /\ lastNode \in 0 .. MaxNodes /\ lastAction \in 0 .. MaxActions
        /\ DOMAIN nodes \subseteq 1 .. lastNode /\ DOMAIN actions \subseteq 1 .. lastAction
        BY <1>1, InitialRows DEF Init
  <2>2. skewed = {} /\ requests \in 0 .. MaxRequests /\ faults \in 0 .. MaxFaults
        BY CapacityAssumption DEF Init
  <2> QED BY <1>1, <1>2, <1>3, <1>4, <2>1, <2>2 DEF TypeOK
<1>6. Legal(IdleTx) /\ FreshAddsUp(IdleTx) /\ WritesNothing(IdleTx)
      BY <1>5, IdleIsLegal
<1>7. tx \in [Request -> TxState] /\ \A r \in Request : tx[r] = IdleTx
      BY <1>6 DEF Init, Legal
<1>8. \A r, s \in Request : Apart(tx[r], tx[s])
      BY <1>6, <1>7, BlankIsApart
<1>9. LedgerAddsUp
      BY <1>2 DEF LedgerAddsUp
<1> QED BY <1>5, <1>6, <1>7, <1>8, <1>9 DEF IInv

LEMMA StepsSound == IInv /\ [Next]_vars => IInv'
<1> SUFFICES ASSUME IInv, [Next]_vars PROVE IInv'
    OBVIOUS
<1>1. ASSUME NEW r \in Request, CreateNode(r) PROVE IInv'
      BY <1>1, CreateNodeKeeps
<1>2. ASSUME NEW r \in Request, UpdateNode(r) PROVE IInv'
      BY <1>2, UpdateNodeKeeps
<1>3. ASSUME NEW r \in Request, DeleteNode(r) PROVE IInv'
      BY <1>3, DeleteNodeKeeps
<1>4. ASSUME NEW r \in Request, CreateAction(r) PROVE IInv'
      BY <1>4, CreateActionKeeps
<1>5. ASSUME NEW r \in Request, ReadAction(r) PROVE IInv'
      BY <1>5, ReadActionKeeps
<1>5a. ASSUME NEW r \in Request, MissesAction(r) PROVE IInv'
      BY <1>5a, MissesActionKeeps
<1>6. ASSUME NEW r \in Request, UpdateAction(r) PROVE IInv'
      BY <1>6, UpdateActionKeeps
<1>7. ASSUME NEW r \in Request, DeleteAction(r) PROVE IInv'
      BY <1>7, DeleteActionKeeps
<1>8. ASSUME NEW r \in Request, ImportActions(r) PROVE IInv'
      BY <1>8, ImportActionsKeeps
<1>9. ASSUME NEW r \in Request, Recalculate(r) PROVE IInv'
      BY <1>9, RecalculateKeeps
<1>10. ASSUME NEW r \in Request, Commit(r) PROVE IInv'
       BY <1>10, CommitKeeps
<1>11. ASSUME NEW r \in Request, Rollback(r) PROVE IInv'
       BY <1>11, RollbackKeeps
<1>12. CASE UNCHANGED vars
  <2>1. /\ nodes' = nodes /\ current' = current /\ actions' = actions /\ ledger' = ledger
        /\ lastNode' = lastNode /\ lastAction' = lastAction /\ tx' = tx /\ skewed' = skewed
        /\ requests' = requests /\ faults' = faults
        BY <1>12 DEF vars
  <2>2. TypeOK' /\ tx' \in [Request -> TxState] /\ LedgerAddsUp'
        BY <2>1 DEF IInv, TypeOK, LedgerAddsUp
  <2>3. ASSUME NEW r \in Request PROVE Legal(tx[r])' /\ FreshAddsUp(tx[r])'
    <3>1. Legal(tx[r]) /\ FreshAddsUp(tx[r])
          BY DEF IInv
    <3>2. Legal(tx[r])'
          BY <2>1, <3>1 DEF Legal, Bounded, InPhase, WritesNothing, NodesHeld, RowsHeld, Holds, Edited
    <3>3. FreshAddsUp(tx[r])'
          BY <2>1, <3>1 DEF FreshAddsUp, SeenAddsUp, SeenActions, SeenLedger, SeenNodes, SeenCurrent
    <3> QED BY <3>2, <3>3
  <2>4. \A r, s \in Request : r # s => Apart(tx[r], tx[s])'
        BY <2>1 DEF IInv, Apart, Edited
  <2> QED BY <2>2, <2>3, <2>4 DEF IInv
<1> QED BY <1>1, <1>2, <1>3, <1>4, <1>5, <1>5a, <1>6, <1>7, <1>8, <1>9, <1>10, <1>11, <1>12
        DEF Next, AtRest

(* In every reachable state the tables are typed, overlapping transactions *)
(* hold what they edit and edit no one action, what a transaction has just *)
(* recalculated adds up in what it sees, and the ledger adds up.           *)
THEOREM LedgerIsSound == Spec => []IInv
BY StartsSound, StepsSound, PTL DEF Spec

(* CapacityLedger's TypeOK, of every reachable state.                      *)
THEOREM LedgerIsTyped == Spec => []TypeOK
<1>1. IInv => TypeOK
      BY DEF IInv
<1> QED BY <1>1, LedgerIsSound, PTL

(* models/ip_capacity.go:21: the ledger of a node tells what its actions   *)
(* add up to, whatever was entered late, edited, deleted or imported and in*)
(* whatever order its transactions were interleaved, unless another edit of*)
(* the node was committed inside its last recalculation.                   *)
THEOREM LedgerIsRight == Spec => []LedgerAddsUp
<1>1. IInv => LedgerAddsUp
      BY DEF IInv
<1> QED BY <1>1, LedgerIsSound, PTL
-----------------------------------------------------------------------------
(* The days of the history.                                                *)
LEMMA DaysGrow ==
    ASSUME NEW t \in Int, NEW u \in Int
    PROVE  DayOf(t) \in Int /\ (t <= u => DayOf(t) <= DayOf(u))
<1>1. PICK m \in Nat \ {0}, a \in Int, b \in Int : m = MomentsPerDay /\ a = t - 1 /\ b = u - 1
      BY CapacityAssumption
<1>2. PICK p, q : p = a \div m /\ q = b \div m
      OBVIOUS
<1>3. p \in Int /\ q \in Int /\ m * p <= a /\ b < m * (q + 1)
      BY <1>2
<1>4. ASSUME a <= b, q < p PROVE FALSE
  <2>1. q + 1 <= p
        BY <1>3, <1>4
  <2>2. m * (q + 1) <= m * p
        BY <1>3, <2>1
  <2> QED BY <1>3, <1>4, <2>2
<1>5. a <= b => p <= q
      BY <1>3, <1>4
<1>6. DayOf(t) = p + 1 /\ DayOf(u) = q + 1
      BY <1>1, <1>2 DEF DayOf
<1> QED BY <1>1, <1>3, <1>5, <1>6

LEMMA NextDay ==
    ASSUME NEW t \in Int
    PROVE  DayOf(t) <= DayOf(t - MomentsPerDay) + 1
<1>1. PICK m \in Nat \ {0}, a \in Int : m = MomentsPerDay /\ a = t - 1
      BY CapacityAssumption
<1>2. PICK p, q : p = a \div m /\ q = (a - m) \div m
      OBVIOUS
<1>3. p \in Int /\ q \in Int /\ m * p <= a /\ a - m < m * (q + 1)
      BY <1>2
<1>4. ASSUME q + 1 < p PROVE FALSE
  <2>1. q + 2 <= p
        BY <1>3, <1>4
  <2>2. m * (q + 2) <= m * p
        BY <1>3, <2>1
  <2>3. m * (q + 2) = m * (q + 1) + m
        BY <1>3
  <2> QED BY <1>3, <2>2, <2>3
<1>5. DayOf(t) = p + 1 /\ DayOf(t - MomentsPerDay) = q + 1
      BY <1>1, <1>2 DEF DayOf
<1> QED BY <1>3, <1>4, <1>5

(* A moment is listed under its day or the next, or, where the clock of the*)
(* database is behind, under the day before.                               *)
LEMMA ListedNearby ==
    ASSUME NEW t \in Moment
    PROVE  /\ t \in Int /\ DayOf(t) \in Int /\ DayInDatabase(t) \in Int
           /\ DayOf(t) <= DayInDatabase(t) + 1
           /\ Shift >= 0 => DayOf(t) <= DayInDatabase(t)
<1>1. t \in Int /\ Shift \in Int /\ MomentsPerDay \in Nat /\ -MomentsPerDay <= Shift
      BY CapacityAssumption DEF Moment
<1>2. DayOf(t) \in Int /\ DayOf(t + Shift) \in Int /\ DayOf(t - MomentsPerDay) \in Int
      BY <1>1, DaysGrow
<1>3. DayOf(t - MomentsPerDay) <= DayOf(t + Shift)
  <2>1. t - MomentsPerDay <= t + Shift /\ t - MomentsPerDay \in Int /\ t + Shift \in Int
        BY <1>1
  <2> QED BY <2>1, DaysGrow
<1>4. DayOf(t) <= DayOf(t - MomentsPerDay) + 1
      BY <1>1, NextDay
<1>5. Shift >= 0 => DayOf(t) <= DayOf(t + Shift)
  <2>1. t + Shift \in Int /\ (Shift >= 0 => t <= t + Shift)
        BY <1>1
  <2> QED BY <1>1, <2>1, DaysGrow
<1> QED BY <1>1, <1>2, <1>3, <1>4, <1>5 DEF DayInDatabase

(* The last action of a beginning of a node's ledger tells what that       *)
(* beginning adds up to.                                                   *)
LEMMA LastTellsTotal ==
    ASSUME NEW table, NEW book, NEW n, NEW initial \in Int, NEW total,
           RowsOK(table, OfNode(table, n)), AddsUp(table, book, n, initial, total),
           NEW ids \in SUBSET OfNode(table, n), ids # {},
           \A i \in ids : Earlier(table, OfNode(table, n), i) \subseteq ids
    PROVE  book[Latest(table, ids)].after = initial + Amounts(table, ids)
<1> DEFINE mine == OfNode(table, n)
           first(i) == Earlier(table, mine, i)
<1>1. RowsOK(table, ids)
      BY DEF RowsOK
<1>2. PICK i \in ids : i = Latest(table, ids) /\ \A j \in ids \ {i} : Before(table, j, i)
      BY <1>1, LatestExists
<1>3. first(i) \cup {i} = ids /\ i \notin first(i)
  <2>1. \A j \in mine : table[j].at \in Nat /\ j \in Nat
        BY RowTypes
  <2>2. \A j \in ids \ {i} : j \in first(i)
        BY <1>2 DEF Before, Earlier
  <2>3. i \notin first(i)
        BY <2>1 DEF Earlier
  <2> QED BY <2>2, <2>3
<1>4. Amounts(table, ids) = Amounts(table, first(i)) + Signed(table[i])
  <2>1. RowsOK(table, first(i) \cup {i})
        BY <1>1, <1>3
  <2> HIDE DEF first
  <2> QED BY <1>3, <2>1, AmountsGrow
<1>5. Amounts(table, first(i)) \in Int /\ Signed(table[i]) \in Int
  <2>1. RowsOK(table, first(i))
        BY <1>1, <1>3 DEF RowsOK
  <2> QED BY <1>1, <2>1, AmountsInteger, RowTypes
<1>6. book[i].after = (initial + Amounts(table, first(i))) + Signed(table[i])
      BY DEF AddsUp
<1> HIDE DEF first
<1> QED BY <1>2, <1>4, <1>5, <1>6

LEMMA NewestExists ==
    ASSUME TypeOK, ListHistoryDays # {}
    PROVE  \E d \in ListHistoryDays :
              d \in Int /\ d = Newest(ListHistoryDays) /\ \A e \in ListHistoryDays : e <= d
<1>1. \A i \in DOMAIN actions : actions[i].at \in Moment
      BY DEF TypeOK, ActionRow
<1>2. PICK k \in DOMAIN actions : TRUE
      BY DEF ListHistoryDays
<1>3. LastMoment \in Nat /\ Shift \in Int /\ \A t \in Moment : 1 <= t /\ t <= LastMoment /\ t \in Int
      BY CapacityAssumption DEF Moment
<1>4. PICK lo, hi : lo = DayOf(1 + Shift) /\ hi = DayOf(LastMoment + Shift)
      OBVIOUS
<1>5. lo \in Int /\ hi \in Int
      BY <1>3, <1>4, DaysGrow
<1>6. \A e \in ListHistoryDays : e \in Int /\ lo <= e /\ e <= hi
  <2>1. ASSUME NEW t \in Moment
        PROVE  DayOf(t + Shift) \in Int /\ lo <= DayOf(t + Shift) /\ DayOf(t + Shift) <= hi
    <3>1. /\ t + Shift \in Int /\ 1 + Shift \in Int /\ LastMoment + Shift \in Int
          /\ 1 + Shift <= t + Shift /\ t + Shift <= LastMoment + Shift
          BY <1>3
    <3> QED BY <1>4, <3>1, DaysGrow
  <2> QED BY <1>1, <2>1 DEF ListHistoryDays, DayInDatabase
<1>7. PICK S : S = {e - lo : e \in ListHistoryDays}
      OBVIOUS
<1>8. hi - lo \in Nat /\ S \subseteq 0 .. hi - lo /\ S # {}
  <2>1. PICK e \in ListHistoryDays : TRUE
        OBVIOUS
  <2> QED BY <1>5, <1>6, <1>7, <2>1
<1>9. PICK x \in S : \A y \in S : y <= x
      BY <1>8, GreatestNumber
<1>10. PICK d \in ListHistoryDays : x = d - lo
       BY <1>7, <1>9
<1>11. \A e \in ListHistoryDays : e <= d
  <2>1. ASSUME NEW e \in ListHistoryDays PROVE e <= d
    <3>1. e - lo \in S /\ e - lo <= x
          BY <1>7, <1>9
    <3> QED BY <1>5, <1>6, <1>10, <3>1
  <2> QED BY <2>1
<1>12. d \in Int /\ \A e \in ListHistoryDays : (\A f \in ListHistoryDays : f <= e) => e = d
       BY <1>6, <1>11
<1>13. d = Newest(ListHistoryDays)
       BY <1>11, <1>12 DEF Newest
<1> QED BY <1>11, <1>12, <1>13

LEMMA DaysFollow == TypeOK /\ LedgerAddsUp => DaysAddUp
<1> SUFFICES ASSUME TypeOK, LedgerAddsUp, NEW n \in DOMAIN nodes \ skewed
             PROVE  /\ \A d \in Day :
                          /\ DayHistory(n, d).difference = Amounts(actions, OnDay(n, d))
                          /\ DayHistory(n, d).cost =
                               Sum([i \in OnDay(n, d) |-> Signed(actions[i]) * actions[i].cost])
                    /\ ListHistoryDays # {} =>
                          LET newest == Newest(ListHistoryDays) IN
                            /\ AllHistory(n)[newest] + Amounts(actions, NotListed(n)) = current[n]
                            /\ NotListed(n) \subseteq OnDay(n, newest + 1)
                            /\ Shift >= 0 => NotListed(n) = {}
                    /\ OfNode(actions, n) # {} => ledger[LatestAction(n)].after = current[n]
    BY DEF DaysAddUp
<1>1. PICK mine : mine = OfNode(actions, n)
      OBVIOUS
<1>2. PICK initial \in Int : initial = nodes[n].initial
      BY DEF TypeOK, NodeRow
<1>3. AddsUp(actions, ledger, n, initial, current[n])
      BY <1>2 DEF LedgerAddsUp
<1>4. RowsOK(actions, mine)
      BY <1>1, RowNodes DEF RowsOK, OfNode, TypeOK
<1>5. \A i \in mine : actions[i].at \in Moment /\ i \in DOMAIN actions
      BY <1>1, <1>4, RowTypes DEF OfNode
<1>6. \A i, j \in mine : /\ DayOf(actions[i].at) \in Int
                         /\ actions[i].at <= actions[j].at => DayOf(actions[i].at) <= DayOf(actions[j].at)
  <2>1. \A i \in mine : actions[i].at \in Int
        BY <1>5, ListedNearby
  <2> QED BY <2>1, DaysGrow
<1>7. \A i, j \in mine : j \in Earlier(actions, mine, i) => DayOf(actions[j].at) <= DayOf(actions[i].at)
  <2>1. \A i, j \in mine : j \in Earlier(actions, mine, i) => actions[j].at <= actions[i].at
    <3>1. \A i \in mine : actions[i].at \in Nat
          BY <1>4, RowTypes
    <3> QED BY <3>1 DEF Earlier
  <2> QED BY <1>6, <2>1
<1>8. current[n] = initial + Amounts(actions, mine)
      BY <1>1, <1>3 DEF AddsUp
<1>9. ASSUME NEW d \in Int
      PROVE  /\ UpTo(n, d) \subseteq mine
             /\ LastAfter(n, d) = initial + Amounts(actions, UpTo(n, d))
  <2>1. UpTo(n, d) = {i \in mine : DayOf(actions[i].at) <= d}
        BY <1>1 DEF UpTo
  <2>2. CASE UpTo(n, d) = {}
    <3>1. LastAfter(n, d) = initial
          BY <1>2, <2>2 DEF LastAfter
    <3>2. Amounts(actions, UpTo(n, d)) = 0
          BY <2>2, AmountsOfNone
    <3>3. UpTo(n, d) \subseteq mine
          BY <2>1
    <3> QED BY <1>2, <3>1, <3>2, <3>3
  <2>3. CASE UpTo(n, d) # {}
    <3>1. PICK ids : ids = UpTo(n, d) /\ ids \in SUBSET mine
          BY <2>1
    <3>2. \A i \in ids : Earlier(actions, mine, i) \subseteq ids
      <4>1. ASSUME NEW i \in ids, NEW j \in Earlier(actions, mine, i) PROVE j \in ids
        <5>1. i \in mine /\ j \in mine /\ DayOf(actions[i].at) <= d
              BY <2>1, <3>1 DEF Earlier
        <5>2. DayOf(actions[j].at) <= DayOf(actions[i].at)
              BY <1>7, <5>1
        <5>3. DayOf(actions[i].at) \in Int /\ DayOf(actions[j].at) \in Int
              BY <1>6, <5>1
        <5>4. DayOf(actions[j].at) <= d
              BY <5>1, <5>2, <5>3
        <5> QED BY <2>1, <3>1, <5>1, <5>4
      <4> QED BY <4>1
    <3>3. ledger[Latest(actions, ids)].after = initial + Amounts(actions, ids)
          BY <1>1, <1>3, <1>4, <2>3, <3>1, <3>2, LastTellsTotal
    <3> QED BY <2>1, <2>3, <3>1, <3>3 DEF LastAfter
  <2> QED BY <2>1, <2>2, <2>3
<1>10. ASSUME NEW d \in Day PROVE DayHistory(n, d).difference = Amounts(actions, OnDay(n, d))
  <2>1. d \in Int /\ d - 1 \in Int
        BY CapacityAssumption DEF Day
  <2>2. DayHistory(n, d).difference = LastAfter(n, d) - LastAfter(n, d - 1)
        BY DEF DayHistory
  <2>3. PICK A, B : A = UpTo(n, d - 1) /\ B = OnDay(n, d)
        OBVIOUS
  <2>4. A \cup B = UpTo(n, d) /\ A \cap B = {} /\ A \cup B \subseteq mine
    <3>1. /\ A = {i \in mine : DayOf(actions[i].at) <= d - 1}
          /\ B = {i \in mine : DayOf(actions[i].at) = d}
          /\ UpTo(n, d) = {i \in mine : DayOf(actions[i].at) <= d}
          BY <1>1, <2>3 DEF UpTo, OnDay
    <3>2. \A i \in mine : /\ DayOf(actions[i].at) <= d <=> DayOf(actions[i].at) <= d - 1
                                                             \/ DayOf(actions[i].at) = d
                          /\ ~(DayOf(actions[i].at) <= d - 1 /\ DayOf(actions[i].at) = d)
          BY <1>6, <2>1
    <3> QED BY <3>1, <3>2
  <2>5. RowsOK(actions, A \cup B) /\ RowsOK(actions, A) /\ RowsOK(actions, B)
        BY <1>4, <2>4 DEF RowsOK
  <2>6. Amounts(actions, UpTo(n, d)) = Amounts(actions, A) + Amounts(actions, B)
        BY <2>4, <2>5, AmountsOfParts
  <2>7. Amounts(actions, A) \in Int /\ Amounts(actions, B) \in Int
        BY <2>5, AmountsInteger
  <2>8. /\ LastAfter(n, d) = initial + Amounts(actions, UpTo(n, d))
        /\ LastAfter(n, d - 1) = initial + Amounts(actions, A)
        BY <1>9, <2>1, <2>3
  <2> QED BY <2>2, <2>3, <2>6, <2>7, <2>8
<1>11. ASSUME NEW d \in Day
       PROVE  DayHistory(n, d).cost = Sum([i \in OnDay(n, d) |-> Signed(actions[i]) * actions[i].cost])
  <2>1. \A i \in OnDay(n, d) : ledger[i].total = Signed(actions[i]) * actions[i].cost
        BY <1>3 DEF AddsUp, OnDay
  <2>2. [i \in OnDay(n, d) |-> ledger[i].total]
          = [i \in OnDay(n, d) |-> Signed(actions[i]) * actions[i].cost]
        BY <2>1
  <2> QED BY <2>2 DEF DayHistory
<1>12. ASSUME ListHistoryDays # {}
       PROVE  LET newest == Newest(ListHistoryDays) IN
                /\ AllHistory(n)[newest] + Amounts(actions, NotListed(n)) = current[n]
                /\ NotListed(n) \subseteq OnDay(n, newest + 1)
                /\ Shift >= 0 => NotListed(n) = {}
  <2>1. PICK d \in ListHistoryDays :
            d \in Int /\ d = Newest(ListHistoryDays) /\ \A e \in ListHistoryDays : e <= d
        BY <1>12, NewestExists
  <2>2. PICK late : late = NotListed(n) /\ late = {i \in mine : DayOf(actions[i].at) > d}
        BY <1>1, <2>1 DEF NotListed
  <2>3. \A i \in mine : /\ DayOf(actions[i].at) \in Int /\ DayOf(actions[i].at) <= d + 1
                          /\ (Shift >= 0 => DayOf(actions[i].at) <= d)
    <3>1. ASSUME NEW i \in mine
          PROVE  /\ DayOf(actions[i].at) \in Int /\ DayOf(actions[i].at) <= d + 1
                 /\ Shift >= 0 => DayOf(actions[i].at) <= d
      <4>1. actions[i].at \in Moment /\ DayInDatabase(actions[i].at) \in ListHistoryDays
            BY <1>5 DEF ListHistoryDays
      <4>2. PICK x, y : x = DayOf(actions[i].at) /\ y = DayInDatabase(actions[i].at)
            OBVIOUS
      <4>3. x \in Int /\ y \in Int /\ x <= y + 1 /\ (Shift >= 0 => x <= y)
            BY <4>1, <4>2, ListedNearby
      <4>4. y <= d
            BY <2>1, <4>1, <4>2
      <4> QED BY <2>1, <4>2, <4>3, <4>4
    <3> QED BY <3>1
  <2>4. UpTo(n, d) \cup late = mine /\ UpTo(n, d) \cap late = {} /\ late \subseteq mine
    <3>1. UpTo(n, d) = {i \in mine : DayOf(actions[i].at) <= d}
          BY <1>1 DEF UpTo
    <3>2. ASSUME NEW i \in mine PROVE DayOf(actions[i].at) <= d <=> ~(DayOf(actions[i].at) > d)
      <4>1. PICK x : x = DayOf(actions[i].at)
            OBVIOUS
      <4>2. x \in Int /\ d \in Int
            BY <2>1, <2>3, <4>1
      <4>3. x <= d <=> ~(x > d)
            BY <4>2
      <4> QED BY <4>1, <4>3
    <3> QED BY <2>2, <3>1, <3>2
  <2>5. AllHistory(n)[d] = initial + Amounts(actions, UpTo(n, d))
    <3>1. AllHistory(n)[d] = LastAfter(n, d)
          BY <2>1 DEF AllHistory, DayHistory
    <3> QED BY <1>9, <2>1, <3>1
  <2>6. Amounts(actions, mine) = Amounts(actions, UpTo(n, d)) + Amounts(actions, late)
    <3>1. PICK A : A = UpTo(n, d)
          OBVIOUS
    <3>2. RowsOK(actions, A \cup late) /\ A \cap late = {} /\ A \cup late = mine
          BY <1>4, <2>4, <3>1
    <3> QED BY <3>1, <3>2, AmountsOfParts
  <2>7. Amounts(actions, UpTo(n, d)) \in Int /\ Amounts(actions, late) \in Int
    <3>1. RowsOK(actions, UpTo(n, d)) /\ RowsOK(actions, late)
          BY <1>4, <2>4 DEF RowsOK
    <3> QED BY <3>1, AmountsInteger
  <2>8. AllHistory(n)[d] + Amounts(actions, late) = current[n]
        BY <1>8, <2>5, <2>6, <2>7
  <2>9. late \subseteq OnDay(n, d + 1)
    <3>1. ASSUME NEW i \in late PROVE DayOf(actions[i].at) = d + 1
      <4>1. i \in mine /\ DayOf(actions[i].at) > d
            BY <2>2
      <4>2. PICK x : x = DayOf(actions[i].at)
            OBVIOUS
      <4>3. x \in Int /\ d \in Int /\ x <= d + 1 /\ x > d
            BY <2>1, <2>3, <4>1, <4>2
      <4>4. x = d + 1
            BY <4>3
      <4> QED BY <4>2, <4>4
    <3> QED BY <1>1, <2>2, <3>1 DEF OnDay
  <2>10. Shift >= 0 => late = {}
    <3>1. ASSUME NEW i \in late, Shift >= 0 PROVE FALSE
      <4>1. i \in mine /\ DayOf(actions[i].at) > d
            BY <2>2, <3>1
      <4>2. PICK x : x = DayOf(actions[i].at)
            OBVIOUS
      <4>3. x \in Int /\ d \in Int /\ x <= d /\ x > d
            BY <2>1, <2>3, <3>1, <4>1, <4>2
      <4> QED BY <4>3
    <3> QED BY <3>1
  <2> QED BY <2>1, <2>2, <2>8, <2>9, <2>10
<1>13. ASSUME OfNode(actions, n) # {} PROVE ledger[LatestAction(n)].after = current[n]
  <2>1. mine \in SUBSET mine /\ mine # {} /\ \A i \in mine : Earlier(actions, mine, i) \subseteq mine
        BY <1>1, <1>13 DEF Earlier
  <2>2. ledger[Latest(actions, mine)].after = initial + Amounts(actions, mine)
        BY <1>1, <1>3, <1>4, <2>1, LastTellsTotal
  <2> QED BY <1>1, <1>8, <2>2 DEF LatestAction
<1> QED BY <1>10, <1>11, <1>12, <1>13

(* handlers/ip_capacity_handler.go, buildFullDayHistory and GetAllHistory: *)
(* each day's closing capacity is the next one's opening, a day's          *)
(* difference is what its actions add up to, and the latest action of a    *)
(* node that is not skewed ends at its current capacity.  The newest       *)
(* snapshot ends there too, short of one day's actions at most, and of none*)
(* where the database's clock is not behind the program's.                 *)
THEOREM DaysAreRight == Spec => []DaysAddUp
<1>1. IInv => DaysAddUp
      BY DaysFollow DEF IInv
<1> QED BY <1>1, LedgerIsSound, PTL
=============================================================================
