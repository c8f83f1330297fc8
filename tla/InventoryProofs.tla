---------------------------- MODULE InventoryProofs ----------------------------
(* Proofs about the inventory pages, the drawers and the dashboard's shifts,  *)
(* for every owner, table, query and clock.                                  *)
EXTENDS InventoryAgreement, CommonProofs, SequenceTheorems

----------------------------------------------------------------------------
(* inOrder lists a set of positions, each once.                               *)
Lists(o, S) ==
  /\ IsFiniteSet(S) /\ Cardinality(S) \in Nat /\ DOMAIN o = 1 .. Cardinality(S)
  /\ \A j \in DOMAIN o : o[j] \in S
  /\ \A i, j \in DOMAIN o : o[i] = o[j] => i = j
  /\ \A n \in S : \E j \in DOMAIN o : o[j] = n

LEMMA OrderLists ==
  ASSUME NEW S, IsFiniteSet(S), S \subseteq Int
  PROVE  Lists(inOrder(S), S)
<1> DEFINE R == {p \in S \X S : p[1] < p[2]}
           place == [x \in S |-> Cardinality({y \in S : <<y, x>> \in R})]
           N == Cardinality(S)
           o == inOrder(S)
<1>1. Orders(R, S)
  BY DEF Orders
<1>2. \A x \in S : {n \in S : n < x} = {y \in S : <<y, x>> \in R}
  OBVIOUS
<1>3. \A x \in S : Cardinality({n \in S : n < x}) = place[x]
  BY <1>2
<1>4. place \in [S -> Nat]
  <2>1. \A x \in S : {y \in S : <<y, x>> \in R} \in SUBSET S
    OBVIOUS
  <2>2. \A x \in S : Cardinality({y \in S : <<y, x>> \in R}) \in Nat
    <3> HIDE DEF R
    <3> QED BY <2>1, FS_Subset, FS_CardinalityType
  <2> QED BY <2>2
<1>5. Places(place, R, S)
  BY <1>4 DEF Places
<1> HIDE DEF R, place
<1>6. /\ N \in Nat
      /\ \A x \in S : place[x] \in 0 .. N - 1
      /\ \A x, y \in S : place[x] = place[y] => x = y
      /\ \A n \in 0 .. N - 1 : \E x \in S : place[x] = n
  <2> HIDE DEF N
  <2>1. Cardinality(S) \in Nat
    BY <1>1, <1>5, RanksNumber
  <2>2. \A x \in S : place[x] \in 0 .. Cardinality(S) - 1
    BY <1>1, <1>5, RanksNumber
  <2>3. \A x, y \in S : place[x] = place[y] => x = y
    BY <1>1, <1>5, RanksNumber
  <2>4. \A n \in 0 .. Cardinality(S) - 1 : \E x \in S : place[x] = n
    <3>1. place \in Surjection(S, 0 .. Cardinality(S) - 1)
      BY <1>1, <1>5, RanksNumber
    <3> QED BY <3>1 DEF Surjection
  <2> QED BY <2>1, <2>2, <2>3, <2>4 DEF N
<1>7. /\ DOMAIN o = 1 .. N
      /\ \A j \in 1 .. N : o[j] = CHOOSE m \in S : place[m] = j - 1
  BY <1>3 DEF inOrder
<1> HIDE DEF o
<1>8. \A j \in 1 .. N : o[j] \in S /\ place[o[j]] = j - 1
  <2>1. \A j \in 1 .. N : j - 1 \in 0 .. N - 1
    BY <1>6
  <2> QED BY <1>6, <1>7, <2>1
<1>9. \A i, j \in 1 .. N : o[i] = o[j] => i = j
  BY <1>8
<1>10. \A n \in S : \E j \in 1 .. N : o[j] = n
  <2> SUFFICES ASSUME NEW n \in S PROVE \E j \in 1 .. N : o[j] = n
    OBVIOUS
  <2>1. place[n] + 1 \in 1 .. N /\ place[o[place[n] + 1]] = place[n] /\ o[place[n] + 1] \in S
    BY <1>6, <1>8
  <2> QED BY <1>6, <2>1
<1> QED BY <1>6, <1>7, <1>8, <1>9, <1>10 DEF Lists, o

----------------------------------------------------------------------------
(* The tables                                                                *)

Shift == [terminal : Terminals, branchId : Branches, openedAt : Int, closedAt : {Null} \cup Int,
          expectedC : {Null} \cup Int, closingC : {Null} \cup Int]
SaleLine == [product : Products, variant : Variants \cup {Null}, milli : Nat, trackStock : BOOLEAN]
DeliveryLine == [product : Products, variant : Variants \cup {Null}, milli : Nat,
                 unitCostC : Nat \cup {Null}]
Sale == [branchId : Branches, terminal : Terminals, shiftId : Nat, lines : Seq(SaleLine),
         cashC : Int, status : {"completed", "voided", "refunded"},
         refundShiftId : Nat \cup {Null}, createdAt : Instants]
Movement == [branchId : Branches, product : Products, variant : Variants \cup {Null},
             type : {"receive", "adjustment", "sale", "void", "refund"},
             refId : Nat \cup {Null}, qtyDelta : Int, reason : Reasons \cup {Null}, createdAt : Instants]

Shelf == /\ IsFiniteSet(DOMAIN levels) /\ DOMAIN levels \subseteq Keys
         /\ \A k \in DOMAIN levels : levels[k] \in Int
Ledger == /\ movements \in Seq(Movement) /\ Len(movements) <= Len(IdRank)
          /\ \A n \in DOMAIN movements :
               /\ keyOf(movements[n].branchId, movements[n]) \in DOMAIN levels
               /\ movements[n].type = "adjustment" => movements[n].reason # Null
Prices == /\ productCost \in [Products -> Nat \cup {Null}]
          /\ variantCost \in [Variants -> Nat \cup {Null}]
Tables == /\ now \in Instants /\ sales \in Seq(Sale) /\ shifts \in Seq(Shift)
          /\ Shelf /\ Ledger /\ Prices

(* What is put on a shelf, and what is written of it.                         *)
Puts == [key : Keys, milli : Int]
PutOn(put, k) == SumOf({i \in DOMAIN put : put[i].key = k}, LAMBDA i : put[i].milli)

LEMMA PutTyped ==
  ASSUME NEW put \in Seq(Puts)
  PROVE  /\ IsFiniteSet(DOMAIN put) /\ IsFiniteSet({put[i].key : i \in DOMAIN put})
         /\ {put[i].key : i \in DOMAIN put} \subseteq Keys
         /\ \A k : PutOn(put, k) \in Int
<1>1. /\ DOMAIN put = 1 .. Len(put) /\ Len(put) \in Nat
      /\ \A i \in DOMAIN put : put[i] \in Puts
  OBVIOUS
<1>2. IsFiniteSet(DOMAIN put)
  BY <1>1, FS_Interval
<1>3. IsFiniteSet({put[i].key : i \in DOMAIN put})
  <2> DEFINE f == [i \in DOMAIN put |-> put[i].key]
  <2>1. {put[i].key : i \in DOMAIN put} = {f[i] : i \in DOMAIN put} /\ DOMAIN f = DOMAIN put
    OBVIOUS
  <2> HIDE DEF f
  <2> QED BY <1>2, <2>1, ImageFinite
<1>4. \A i \in DOMAIN put : put[i].key \in Keys /\ put[i].milli \in Int
  BY <1>1 DEF Puts
<1>5. ASSUME NEW k PROVE PutOn(put, k) \in Int
  <2> DEFINE S == {i \in DOMAIN put : put[i].key = k}
             f == [i \in S |-> put[i].milli]
  <2>1. IsFiniteSet(S) /\ f \in [S -> Int] /\ PutOn(put, k) = Total(f)
    BY <1>2, <1>4, FS_Subset DEF PutOn, SumOf
  <2> HIDE DEF S, f
  <2> QED BY <2>1, SumType
<1> QED BY <1>2, <1>3, <1>4, <1>5

LEMMA Raised ==
  ASSUME Shelf, NEW put \in Seq(Puts), addToLevel(put)
  PROVE  /\ Shelf'
         /\ DOMAIN levels' = DOMAIN levels \cup {put[i].key : i \in DOMAIN put}
         /\ \A k : (levelOf(k))' = levelOf(k) + PutOn(put, k)
         /\ \A k : levelOf(k) \in Int /\ PutOn(put, k) \in Int
<1> DEFINE D == {put[i].key : i \in DOMAIN put}
<1>1. IsFiniteSet(D) /\ D \subseteq Keys /\ \A k : PutOn(put, k) \in Int
  BY PutTyped
<1>2. levels' = [k \in DOMAIN levels \cup D |-> levelOf(k) + PutOn(put, k)]
  BY DEF addToLevel, PutOn
<1>3. \A k : k \notin D => PutOn(put, k) = 0
  <2> SUFFICES ASSUME NEW k, k \notin D PROVE PutOn(put, k) = 0
    OBVIOUS
  <2> DEFINE S == {i \in DOMAIN put : put[i].key = k}
             f == [i \in S |-> put[i].milli]
  <2>1. DOMAIN f = {} /\ PutOn(put, k) = Total(f)
    BY DEF PutOn, SumOf
  <2> HIDE DEF f
  <2> QED BY <2>1, SumEmpty
<1> HIDE DEF D
<1>4. \A k : levelOf(k) \in Int
  BY DEF levelOf, Shelf
<1>5. IsFiniteSet(DOMAIN levels \cup D) /\ DOMAIN levels \cup D \subseteq Keys
  BY <1>1, FS_Union DEF Shelf
<1>6. DOMAIN levels' = DOMAIN levels \cup D /\ \A k \in DOMAIN levels' : levels'[k] = levelOf(k) + PutOn(put, k)
  BY <1>2
<1>7. Shelf'
  BY <1>1, <1>4, <1>5, <1>6 DEF Shelf
<1>8. \A k : (levelOf(k))' = levelOf(k) + PutOn(put, k)
  BY <1>1, <1>3, <1>4, <1>6 DEF levelOf
<1> QED BY <1>1, <1>4, <1>6, <1>7, <1>8 DEF D

LEMMA Recorded ==
  ASSUME movements \in Seq(Movement), NEW new \in Seq(Movement), Record(new)
  PROVE  /\ movements' \in Seq(Movement) /\ Len(movements') <= Len(IdRank)
         /\ Len(movements') = Len(movements) + Len(new)
         /\ Len(movements) \in Nat /\ Len(new) \in Nat
         /\ \A n \in 1 .. Len(movements') :
              movements'[n] = IF n <= Len(movements) THEN movements[n] ELSE new[n - Len(movements)]
BY ConcatProperties, LenProperties DEF Record

LEMMA LedgerGrows ==
  ASSUME Ledger, NEW new \in Seq(Movement), Record(new), DOMAIN levels \subseteq DOMAIN levels',
         \A j \in DOMAIN new : /\ keyOf(new[j].branchId, new[j]) \in DOMAIN levels'
                               /\ new[j].type = "adjustment" => new[j].reason # Null
  PROVE  Ledger'
<1>1. movements \in Seq(Movement) /\ DOMAIN movements = 1 .. Len(movements) /\ DOMAIN new = 1 .. Len(new)
  BY DEF Ledger
<1>2. /\ movements' \in Seq(Movement) /\ Len(movements') <= Len(IdRank)
      /\ Len(movements') = Len(movements) + Len(new)
      /\ Len(movements) \in Nat /\ Len(new) \in Nat
      /\ \A n \in 1 .. Len(movements') :
           movements'[n] = IF n <= Len(movements) THEN movements[n] ELSE new[n - Len(movements)]
  BY <1>1, Recorded
<1>3. DOMAIN movements' = 1 .. Len(movements')
  BY <1>2
<1>4. ASSUME NEW n \in DOMAIN movements'
      PROVE  /\ keyOf(movements'[n].branchId, movements'[n]) \in DOMAIN levels'
             /\ movements'[n].type = "adjustment" => movements'[n].reason # Null
  <2>1. CASE n <= Len(movements)
    BY <1>1, <1>2, <1>3, <2>1 DEF Ledger
  <2>2. CASE n > Len(movements)
    <3>1. n - Len(movements) \in DOMAIN new /\ movements'[n] = new[n - Len(movements)]
      BY <1>1, <1>2, <1>3, <2>2
    <3> QED BY <3>1
  <2> QED BY <1>2, <1>3, <2>1, <2>2
<1> QED BY <1>2, <1>4 DEF Ledger, keyOf

(* What a delivery puts on the shelf and writes of it.                        *)
Delivered(br, lines) == [i \in DOMAIN lines |-> [key |-> keyOf(br, lines[i]), milli |-> lines[i].milli]]
DeliveryRows(br, lines) == [i \in DOMAIN lines |-> moved(br, lines[i], "receive", Null, lines[i].milli, Null)]

LEMMA Deliveries ==
  ASSUME now \in Instants, NEW br \in Branches, NEW lines \in DeliveriesTo[br]
  PROVE  /\ IsFiniteSet(DOMAIN lines)
         /\ lines \in Seq(DeliveryLine)
         /\ Delivered(br, lines) \in Seq(Puts) /\ DeliveryRows(br, lines) \in Seq(Movement)
<1>1. lines \in Seq(DeliveryLine)
  BY RequestsAssumption DEF DeliveryLine
<1>2. /\ DOMAIN lines = 1 .. Len(lines) /\ Len(lines) \in Nat
      /\ \A i \in DOMAIN lines : /\ lines[i].product \in Products /\ lines[i].variant \in Variants \cup {Null}
                                 /\ lines[i].milli \in Nat
  <2>1. \A i \in DOMAIN lines : lines[i] \in DeliveryLine
    BY <1>1
  <2> QED BY <1>1, <2>1 DEF DeliveryLine
<1>3. \A i \in DOMAIN lines : keyOf(br, lines[i]) \in Keys
  BY <1>2 DEF keyOf, Keys
<1>4. Delivered(br, lines) \in Seq(Puts)
  BY <1>2, <1>3 DEF Delivered, Puts
<1>5. DeliveryRows(br, lines) \in Seq(Movement)
  BY <1>2 DEF DeliveryRows, Movement, moved
<1> QED BY <1>1, <1>2, <1>4, <1>5, FS_Interval

LEMMA CostsApplied ==
  ASSUME Prices, NEW lines \in Seq(DeliveryLine), ApplyCosts(lines)
  PROVE  Prices'
<1> DEFINE priced == {i \in DOMAIN lines : lines[i].unitCostC # Null}
           at(p, v) == {i \in priced : lines[i].product = p /\ lines[i].variant = v}
<1>1. \A i \in priced : lines[i].unitCostC \in Nat
  <2>1. \A i \in DOMAIN lines : lines[i] \in DeliveryLine
    OBVIOUS
  <2> QED BY <2>1 DEF DeliveryLine
<1>2. \A p : at(p, Null) # {} => lines[CHOOSE i \in at(p, Null) : TRUE].unitCostC \in Nat
  BY <1>1
<1>3. \A v : (\E p \in Products : at(p, v) # {})
               => lines[CHOOSE i \in priced : lines[i].variant = v].unitCostC \in Nat
  <2> SUFFICES ASSUME NEW v, \E p \in Products : at(p, v) # {}
               PROVE  lines[CHOOSE i \in priced : lines[i].variant = v].unitCostC \in Nat
    OBVIOUS
  <2>1. \E i \in priced : lines[i].variant = v
    OBVIOUS
  <2> HIDE DEF priced
  <2> QED BY <1>1, <2>1
<1> DEFINE byProduct(p) == lines[CHOOSE i \in at(p, Null) : TRUE].unitCostC
           byVariant(v) == lines[CHOOSE i \in priced : lines[i].variant = v].unitCostC
           given(v) == \E p \in Products : at(p, v) # {}
<1>6. /\ \A p : at(p, Null) # {} => byProduct(p) \in Nat
      /\ \A v : given(v) => byVariant(v) \in Nat
  BY <1>2, <1>3, Zenon
<1>4. productCost' = [p \in Products |-> IF at(p, Null) = {} THEN productCost[p] ELSE byProduct(p)]
  BY DEF ApplyCosts
<1>5. variantCost' = [v \in DOMAIN variantCost |-> IF given(v) THEN byVariant(v) ELSE variantCost[v]]
  BY DEF ApplyCosts
<1> HIDE DEF priced, at, byProduct, byVariant, given
<1> QED BY <1>4, <1>5, <1>6 DEF Prices

(* What a sale takes from the shelf and writes of it.                         *)
SoldRows(br, lines, ref) ==
  LET rows == inOrder(tracked(lines))
  IN [j \in DOMAIN rows |-> moved(br, lines[rows[j]], "sale", ref, -lines[rows[j]].milli, Null)]

LEMMA LinesWanted ==
  ASSUME NEW lines \in Seq(SaleLine)
  PROVE  /\ IsFiniteSet(DOMAIN lines) /\ DOMAIN lines \subseteq Int
         /\ Lists(inOrder(tracked(lines)), tracked(lines))
         /\ \A i \in DOMAIN lines : /\ lines[i].product \in Products
                                    /\ lines[i].variant \in Variants \cup {Null}
                                    /\ lines[i].milli \in Nat /\ lines[i].trackStock \in BOOLEAN
         /\ \A br, k : \A S \in SUBSET (DOMAIN lines) : wantedMilli(br, lines, S, k) \in Int
<1>1. DOMAIN lines = 1 .. Len(lines) /\ Len(lines) \in Nat /\ \A i \in DOMAIN lines : lines[i] \in SaleLine
  OBVIOUS
<1>2. IsFiniteSet(DOMAIN lines) /\ DOMAIN lines \subseteq Int
  BY <1>1, FS_Interval
<1>3. \A i \in DOMAIN lines : /\ lines[i].product \in Products
                              /\ lines[i].variant \in Variants \cup {Null}
                              /\ lines[i].milli \in Nat /\ lines[i].trackStock \in BOOLEAN
  BY <1>1 DEF SaleLine
<1>4. tracked(lines) \in SUBSET (DOMAIN lines)
  BY DEF tracked
<1>5. Lists(inOrder(tracked(lines)), tracked(lines))
  <2>1. IsFiniteSet(tracked(lines)) /\ tracked(lines) \subseteq Int
    BY <1>2, <1>4, FS_Subset
  <2> QED BY <2>1, OrderLists
<1>6. ASSUME NEW br, NEW k, NEW S \in SUBSET (DOMAIN lines) PROVE wantedMilli(br, lines, S, k) \in Int
  <2> DEFINE T == {i \in S : keyOf(br, lines[i]) = k}
             f == [i \in T |-> lines[i].milli]
  <2>1. T \in SUBSET (DOMAIN lines) /\ f \in [T -> Int] /\ wantedMilli(br, lines, S, k) = Total(f)
    BY <1>3 DEF wantedMilli, SumOf
  <2> HIDE DEF T, f
  <2> QED BY <1>2, <2>1, FS_Subset, SumType
<1> QED BY <1>2, <1>3, <1>5, <1>6

LEMMA Drafts ==
  ASSUME now \in Instants, NEW t \in Terminals, NEW draft \in BasketsAt[t], NEW ref \in Nat
  PROVE  /\ BranchOf[t] \in Branches /\ draft.lines \in Seq(SaleLine) /\ draft.cashC \in Int
         /\ SoldRows(BranchOf[t], draft.lines, ref) \in Seq(Movement)
         /\ DOMAIN SoldRows(BranchOf[t], draft.lines, ref) = DOMAIN inOrder(tracked(draft.lines))
         /\ \A j \in DOMAIN SoldRows(BranchOf[t], draft.lines, ref) :
              LET i == inOrder(tracked(draft.lines))[j]
                  m == SoldRows(BranchOf[t], draft.lines, ref)[j]
              IN /\ i \in tracked(draft.lines)
                 /\ m = moved(BranchOf[t], draft.lines[i], "sale", ref, -draft.lines[i].milli, Null)
                 /\ m.type = "sale" /\ keyOf(m.branchId, m) = keyOf(BranchOf[t], draft.lines[i])
<1> DEFINE br == BranchOf[t]
           lines == draft.lines
           rows == inOrder(tracked(lines))
           new == SoldRows(br, lines, ref)
<1>1. br \in Branches /\ lines \in Seq(SaleLine) /\ draft.cashC \in Int
  BY OpeningAssumption, RequestsAssumption DEF SaleLine
<1> HIDE DEF br, lines, rows
<1>2. Lists(rows, tracked(lines))
  BY <1>1, LinesWanted DEF rows
<1>3. DOMAIN rows = 1 .. Cardinality(tracked(lines)) /\ Cardinality(tracked(lines)) \in Nat
      /\ \A j \in DOMAIN rows : rows[j] \in tracked(lines)
  BY <1>2 DEF Lists
<1>4. \A i \in tracked(lines) : /\ lines[i].product \in Products /\ lines[i].variant \in Variants \cup {Null}
                                /\ -lines[i].milli \in Int
  <2>1. \A i \in tracked(lines) : i \in DOMAIN lines
    BY DEF tracked
  <2>2. \A i \in DOMAIN lines : /\ lines[i].product \in Products /\ lines[i].variant \in Variants \cup {Null}
                                /\ lines[i].milli \in Nat
    BY <1>1, LinesWanted
  <2>3. \A i \in DOMAIN lines : -lines[i].milli \in Int
    BY <2>2
  <2> QED BY <2>1, <2>2, <2>3
<1>5. \A i \in tracked(lines) :
        /\ moved(br, lines[i], "sale", ref, -lines[i].milli, Null) \in Movement
        /\ LET m == moved(br, lines[i], "sale", ref, -lines[i].milli, Null)
           IN m.type = "sale" /\ keyOf(m.branchId, m) = keyOf(br, lines[i])
  BY <1>1, <1>4 DEF moved, Movement, keyOf
<1>6. new = [j \in DOMAIN rows |-> moved(br, lines[rows[j]], "sale", ref, -lines[rows[j]].milli, Null)]
  BY DEF SoldRows, rows
<1> HIDE DEF new
<1>7. new \in Seq(Movement)
  BY <1>3, <1>5, <1>6
<1>8. /\ DOMAIN new = DOMAIN rows
      /\ \A j \in DOMAIN new : LET i == rows[j]
                               IN /\ i \in tracked(lines)
                                  /\ new[j] = moved(br, lines[i], "sale", ref, -lines[i].milli, Null)
                                  /\ new[j].type = "sale" /\ keyOf(new[j].branchId, new[j]) = keyOf(br, lines[i])
  BY <1>3, <1>5, <1>6
<1> QED BY <1>1, <1>7, <1>8 DEF br, lines, rows, new

(* What an undone sale puts back, and what is written of it.                  *)
SaleMoves(i) == {n \in DOMAIN movements : movements[n].type = "sale" /\ movements[n].refId = i}
PutBack(i) ==
  LET out == inOrder(SaleMoves(i))
  IN [j \in DOMAIN out |-> [key |-> keyOf(movements[out[j]].branchId, movements[out[j]]),
                            milli |-> -movements[out[j]].qtyDelta]]
UndoneRows(i, type) ==
  LET out == inOrder(SaleMoves(i))
  IN [j \in DOMAIN out |-> moved(movements[out[j]].branchId, movements[out[j]], type, i,
                                 -movements[out[j]].qtyDelta, Null)]

LEMMA MovementsTyped ==
  ASSUME movements \in Seq(Movement)
  PROVE  /\ IsFiniteSet(DOMAIN movements) /\ DOMAIN movements \subseteq Int
         /\ DOMAIN movements = 1 .. Len(movements) /\ Len(movements) \in Nat
         /\ \A n \in DOMAIN movements :
              /\ movements[n].branchId \in Branches /\ movements[n].product \in Products
              /\ movements[n].variant \in Variants \cup {Null} /\ movements[n].qtyDelta \in Int
              /\ movements[n].reason \in Reasons \cup {Null} /\ movements[n].createdAt \in Instants
              /\ movements[n].refId \in Nat \cup {Null}
              /\ keyOf(movements[n].branchId, movements[n]) \in Keys
<1>1. DOMAIN movements = 1 .. Len(movements) /\ Len(movements) \in Nat
      /\ \A n \in DOMAIN movements : movements[n] \in Movement
  OBVIOUS
<1>2. \A n \in DOMAIN movements :
         /\ movements[n].branchId \in Branches /\ movements[n].product \in Products
         /\ movements[n].variant \in Variants \cup {Null} /\ movements[n].qtyDelta \in Int
         /\ movements[n].reason \in Reasons \cup {Null} /\ movements[n].createdAt \in Instants
         /\ movements[n].refId \in Nat \cup {Null}
  BY <1>1 DEF Movement
<1>3. \A n \in DOMAIN movements : keyOf(movements[n].branchId, movements[n]) \in Keys
  BY <1>2 DEF keyOf, Keys
<1>4. IsFiniteSet(DOMAIN movements) /\ DOMAIN movements \subseteq Int
  BY <1>1, FS_Interval
<1> QED BY <1>1, <1>2, <1>3, <1>4

LEMMA Restores ==
  ASSUME movements \in Seq(Movement), now \in Instants, NEW i \in Nat, NEW type \in {"void", "refund"}
  PROVE  /\ IsFiniteSet(SaleMoves(i)) /\ Lists(inOrder(SaleMoves(i)), SaleMoves(i))
         /\ PutBack(i) \in Seq(Puts) /\ UndoneRows(i, type) \in Seq(Movement)
         /\ DOMAIN PutBack(i) = DOMAIN inOrder(SaleMoves(i))
         /\ DOMAIN UndoneRows(i, type) = DOMAIN inOrder(SaleMoves(i))
         /\ \A j \in DOMAIN inOrder(SaleMoves(i)) :
              LET n == inOrder(SaleMoves(i))[j]
                  m == UndoneRows(i, type)[j]
              IN /\ n \in SaleMoves(i)
                 /\ PutBack(i)[j].key = keyOf(movements[n].branchId, movements[n])
                 /\ PutBack(i)[j].milli = -movements[n].qtyDelta
                 /\ m.type = type /\ keyOf(m.branchId, m) = keyOf(movements[n].branchId, movements[n])
<1> DEFINE out == inOrder(SaleMoves(i))
           new == UndoneRows(i, type)
           put == PutBack(i)
<1>1. IsFiniteSet(SaleMoves(i)) /\ SaleMoves(i) \subseteq Int
  BY MovementsTyped, FS_Subset DEF SaleMoves
<1>2. Lists(out, SaleMoves(i))
  BY <1>1, OrderLists
<1> HIDE DEF out
<1>3. DOMAIN out = 1 .. Cardinality(SaleMoves(i)) /\ Cardinality(SaleMoves(i)) \in Nat
      /\ \A j \in DOMAIN out : out[j] \in SaleMoves(i)
  BY <1>2 DEF Lists
<1>4. \A n \in SaleMoves(i) :
        /\ movements[n].branchId \in Branches /\ movements[n].product \in Products
        /\ movements[n].variant \in Variants \cup {Null} /\ -movements[n].qtyDelta \in Int
        /\ keyOf(movements[n].branchId, movements[n]) \in Keys
  BY MovementsTyped DEF SaleMoves
<1>5. \A n \in SaleMoves(i) :
        LET m == moved(movements[n].branchId, movements[n], type, i, -movements[n].qtyDelta, Null)
        IN m \in Movement /\ m.type = type /\ keyOf(m.branchId, m) = keyOf(movements[n].branchId, movements[n])
  BY <1>4 DEF moved, Movement, keyOf
<1>6. new = [j \in DOMAIN out |-> moved(movements[out[j]].branchId, movements[out[j]], type, i,
                                        -movements[out[j]].qtyDelta, Null)]
  BY DEF UndoneRows, out
<1>7. put = [j \in DOMAIN out |-> [key |-> keyOf(movements[out[j]].branchId, movements[out[j]]),
                                   milli |-> -movements[out[j]].qtyDelta]]
  BY DEF PutBack, out
<1> HIDE DEF new, put
<1> DEFINE row(n) == moved(movements[n].branchId, movements[n], type, i, -movements[n].qtyDelta, Null)
<1>8. new \in Seq(Movement) /\ DOMAIN new = DOMAIN out
  <2>1. new = [j \in DOMAIN out |-> row(out[j])] /\ \A n \in SaleMoves(i) : row(n) \in Movement
    BY <1>5, <1>6
  <2> HIDE DEF row
  <2> QED BY <1>3, <2>1
<1>9. put \in Seq(Puts) /\ DOMAIN put = DOMAIN out
  <2> DEFINE back(n) == [key |-> keyOf(movements[n].branchId, movements[n]), milli |-> -movements[n].qtyDelta]
  <2>1. put = [j \in DOMAIN out |-> back(out[j])]
    BY <1>7
  <2>2. \A n \in SaleMoves(i) : back(n) \in Puts
    BY <1>4 DEF Puts
  <2> HIDE DEF back
  <2> QED BY <1>3, <2>1, <2>2
<1>10. \A j \in DOMAIN out :
         LET n == out[j]
             m == new[j]
         IN /\ n \in SaleMoves(i)
            /\ put[j].key = keyOf(movements[n].branchId, movements[n])
            /\ put[j].milli = -movements[n].qtyDelta
            /\ m.type = type /\ keyOf(m.branchId, m) = keyOf(movements[n].branchId, movements[n])
  <2>1. \A j \in DOMAIN out : new[j] = row(out[j]) /\ out[j] \in SaleMoves(i)
    BY <1>3, <1>6
  <2>2. \A n \in SaleMoves(i) : row(n).type = type
                               /\ keyOf(row(n).branchId, row(n)) = keyOf(movements[n].branchId, movements[n])
    BY <1>5
  <2>3. \A j \in DOMAIN out : /\ put[j].key = keyOf(movements[out[j]].branchId, movements[out[j]])
                              /\ put[j].milli = -movements[out[j]].qtyDelta
    BY <1>3, <1>7
  <2> HIDE DEF row
  <2> QED BY <2>1, <2>2, <2>3
<1> QED BY <1>1, <1>2, <1>8, <1>9, <1>10 DEF out, new, put

(* The rows of the tables stay rows of their tables.                          *)
LEMMA SalesTyped ==
  ASSUME sales \in Seq(Sale)
  PROVE  /\ IsFiniteSet(DOMAIN sales) /\ DOMAIN sales \subseteq Nat
         /\ DOMAIN sales = 1 .. Len(sales) /\ Len(sales) \in Nat
         /\ \A i \in DOMAIN sales :
              /\ sales[i] \in Sale /\ sales[i].branchId \in Branches /\ sales[i].lines \in Seq(SaleLine)
              /\ sales[i].cashC \in Int /\ sales[i].createdAt \in Instants /\ sales[i].terminal \in Terminals
              /\ sales[i].status \in {"completed", "voided", "refunded"}
<1>1. DOMAIN sales = 1 .. Len(sales) /\ Len(sales) \in Nat /\ \A i \in DOMAIN sales : sales[i] \in Sale
  OBVIOUS
<1>2. \A i \in DOMAIN sales :
        /\ sales[i].branchId \in Branches /\ sales[i].lines \in Seq(SaleLine)
        /\ sales[i].cashC \in Int /\ sales[i].createdAt \in Instants /\ sales[i].terminal \in Terminals
        /\ sales[i].status \in {"completed", "voided", "refunded"}
  BY <1>1 DEF Sale
<1>3. IsFiniteSet(DOMAIN sales) /\ DOMAIN sales \subseteq Nat
  BY <1>1, FS_Interval
<1> QED BY <1>1, <1>2, <1>3

LEMMA ShiftsTyped ==
  ASSUME shifts \in Seq(Shift)
  PROVE  /\ IsFiniteSet(DOMAIN shifts) /\ DOMAIN shifts \subseteq Nat
         /\ DOMAIN shifts = 1 .. Len(shifts)
         /\ \A h \in DOMAIN shifts :
              /\ shifts[h] \in Shift /\ shifts[h].branchId \in Branches
              /\ shifts[h].openedAt \in Int /\ shifts[h].closedAt \in {Null} \cup Int
<1>1. DOMAIN shifts = 1 .. Len(shifts) /\ Len(shifts) \in Nat /\ \A i \in DOMAIN shifts : shifts[i] \in Shift
  OBVIOUS
<1>2. \A h \in DOMAIN shifts : /\ shifts[h].branchId \in Branches
                               /\ shifts[h].openedAt \in Int /\ shifts[h].closedAt \in {Null} \cup Int
  BY <1>1 DEF Shift
<1>3. IsFiniteSet(DOMAIN shifts) /\ DOMAIN shifts \subseteq Nat
  BY <1>1, FS_Interval
<1> QED BY <1>1, <1>2, <1>3

LEMMA CashExpected ==
  ASSUME sales \in Seq(Sale), NEW h
  PROVE  expectedCash(h) \in Int
<1> DEFINE sold == {i \in DOMAIN sales : sales[i].shiftId = h /\ sales[i].status # "voided"}
           back == {i \in DOMAIN sales : sales[i].status = "refunded" /\ sales[i].refundShiftId = h}
           cashOf(S) == SumOf(S, LAMBDA i : sales[i].cashC)
<1>1. ASSUME NEW S \in SUBSET (DOMAIN sales) PROVE cashOf(S) \in Int
  <2> DEFINE f == [i \in S |-> sales[i].cashC]
  <2>1. IsFiniteSet(S) /\ f \in [S -> Int] /\ cashOf(S) = Total(f)
    BY SalesTyped, FS_Subset DEF SumOf
  <2> HIDE DEF f, cashOf
  <2> QED BY <2>1, SumType
<1>2. expectedCash(h) = cashOf(sold) - cashOf(back)
  BY DEF expectedCash
<1>3. sold \in SUBSET (DOMAIN sales) /\ back \in SUBSET (DOMAIN sales)
  OBVIOUS
<1> HIDE DEF sold, back, cashOf
<1> QED BY <1>1, <1>2, <1>3

LEMMA StockMoves ==
  ASSUME Shelf, Ledger, NEW put \in Seq(Puts), NEW new \in Seq(Movement), addToLevel(put), Record(new),
         \A j \in DOMAIN new : /\ new[j].type # "adjustment"
                               /\ \E i \in DOMAIN put : keyOf(new[j].branchId, new[j]) = put[i].key
  PROVE  Shelf' /\ Ledger'
<1>1. Shelf' /\ DOMAIN levels' = DOMAIN levels \cup {put[i].key : i \in DOMAIN put}
  BY Raised
<1>2. \A j \in DOMAIN new : keyOf(new[j].branchId, new[j]) \in DOMAIN levels'
  BY <1>1
<1> QED BY <1>1, <1>2, LedgerGrows

LEMMA ReceiveKeepsTables ==
  ASSUME Tables, NEW br \in Branches, NEW lines \in DeliveriesTo[br], receive(br, lines)
  PROVE  Tables'
<1>1. /\ addToLevel(Delivered(br, lines)) /\ Record(DeliveryRows(br, lines)) /\ ApplyCosts(lines)
      /\ sales' = sales /\ shifts' = shifts /\ now' = now
  BY DEF receive, Delivered, DeliveryRows, Served
<1>2. /\ now \in Instants /\ Shelf /\ Ledger /\ Prices
      /\ lines \in Seq(DeliveryLine)
      /\ Delivered(br, lines) \in Seq(Puts) /\ DeliveryRows(br, lines) \in Seq(Movement)
  BY Deliveries DEF Tables
<1>3. \A j \in DOMAIN DeliveryRows(br, lines) :
        /\ DeliveryRows(br, lines)[j].type # "adjustment"
        /\ j \in DOMAIN Delivered(br, lines)
        /\ keyOf(DeliveryRows(br, lines)[j].branchId, DeliveryRows(br, lines)[j]) = Delivered(br, lines)[j].key
  BY DEF Delivered, DeliveryRows, keyOf, moved
<1>4. Shelf' /\ Ledger'
  BY <1>1, <1>2, <1>3, StockMoves
<1>5. Prices'
  BY <1>1, <1>2, CostsApplied
<1> QED BY <1>1, <1>4, <1>5 DEF Tables

LEMMA RestoreKeepsStock ==
  ASSUME Tables, NEW i \in Nat, NEW type \in {"void", "refund"}, restoreStock(i, type)
  PROVE  Shelf' /\ Ledger'
<1>1. addToLevel(PutBack(i)) /\ Record(UndoneRows(i, type))
  BY DEF restoreStock, PutBack, UndoneRows, SaleMoves
<1>2. now \in Instants /\ movements \in Seq(Movement) /\ Shelf /\ Ledger
  BY DEF Tables, Ledger
<1>3. /\ PutBack(i) \in Seq(Puts) /\ UndoneRows(i, type) \in Seq(Movement)
      /\ \A j \in DOMAIN UndoneRows(i, type) :
           /\ UndoneRows(i, type)[j].type # "adjustment"
           /\ j \in DOMAIN PutBack(i)
           /\ keyOf(UndoneRows(i, type)[j].branchId, UndoneRows(i, type)[j]) = PutBack(i)[j].key
  BY <1>2, Restores
<1> QED BY <1>1, <1>2, <1>3, StockMoves

LEMMA AdjustKeepsTables ==
  ASSUME Tables, NEW br \in Branches, NEW l \in CountsAt[br], adjust(br, l)
  PROVE  Tables'
<1> DEFINE k == keyOf(br, l)
           row == moved(br, l, "adjustment", Null, l.newMilli - levelOf(k), l.reasonCategory)
           new == <<row>>
<1>1. /\ l.product \in Products /\ l.variant \in Variants \cup {Null} /\ l.newMilli \in Nat
      /\ l.reasonCategory \in Reasons
  BY RequestsAssumption
<1>2. k \in Keys
  BY <1>1 DEF keyOf, Keys
<1>3. /\ levels' = [j \in DOMAIN levels \cup {k} |-> IF j = k THEN l.newMilli ELSE levels[j]]
      /\ Record(new)
      /\ sales' = sales /\ shifts' = shifts /\ now' = now
      /\ productCost' = productCost /\ variantCost' = variantCost
  BY DEF adjust, Served, costs
<1>4. now \in Instants /\ Shelf /\ Ledger /\ levelOf(k) \in Int
  BY DEF Tables, Shelf, levelOf
<1>5. row \in Movement /\ keyOf(row.branchId, row) = k /\ row.reason # Null
  <2>1. l.newMilli - levelOf(k) \in Int
    BY <1>1, <1>4
  <2> QED BY <1>1, <1>4, <2>1, RequestsAssumption DEF Movement, moved, keyOf
<1> HIDE DEF row, k
<1>6. new \in Seq(Movement) /\ \A j \in DOMAIN new : new[j] = row
  BY <1>5
<1> HIDE DEF new
<1>7. Shelf' /\ DOMAIN levels' = DOMAIN levels \cup {k}
  <2>1. IsFiniteSet(DOMAIN levels \cup {k})
    BY <1>4, FS_AddElement DEF Shelf
  <2> QED BY <1>1, <1>2, <1>3, <1>4, <2>1 DEF Shelf
<1>8. Ledger'
  BY <1>3, <1>4, <1>5, <1>6, <1>7, LedgerGrows
<1> QED BY <1>3, <1>7, <1>8 DEF Tables, Prices

(* The levels after a sale.                                                   *)
LEMMA Lowered ==
  ASSUME Shelf, sales \in Seq(Sale), now \in Instants, NEW t \in Terminals, NEW draft \in BasketsAt[t],
         complete(t, draft)
  PROVE  LET br == BranchOf[t]
             took == tracked(draft.lines)
         IN /\ Shelf' /\ DOMAIN levels' = DOMAIN levels
            /\ \A k \in DOMAIN levels : levels'[k] = levels[k] - wantedMilli(br, draft.lines, took, k)
            /\ \A i \in took : keyOf(br, draft.lines[i]) \in DOMAIN levels
<1> DEFINE br == BranchOf[t]
           took == tracked(draft.lines)
           wanted(k) == wantedMilli(br, draft.lines, took, k)
<1>1. levels' = [k \in DOMAIN levels |-> levels[k] - wanted(k)]
  BY DEF complete
<1>2. \A i \in took : keyOf(br, draft.lines[i]) \in DOMAIN levels
  BY DEF complete
<1>3. \A k : wanted(k) \in Int
  <2>1. draft.lines \in Seq(SaleLine) /\ took \in SUBSET (DOMAIN draft.lines)
    BY Drafts DEF tracked
  <2> QED BY <2>1, LinesWanted
<1> HIDE DEF wanted
<1>4. DOMAIN levels' = DOMAIN levels /\ \A k \in DOMAIN levels : levels'[k] = levels[k] - wanted(k)
  BY <1>1
<1>5. Shelf'
  BY <1>3, <1>4 DEF Shelf
<1> QED BY <1>2, <1>4, <1>5 DEF wanted

LEMMA CompleteKeepsTables ==
  ASSUME Tables, NEW t \in Terminals, NEW draft \in BasketsAt[t], complete(t, draft)
  PROVE  Tables'
<1> DEFINE br == BranchOf[t]
           took == tracked(draft.lines)
           new == SoldRows(br, draft.lines, Len(sales) + 1)
<1>1. /\ now \in Instants /\ Shelf /\ Ledger /\ sales \in Seq(Sale) /\ Len(sales) + 1 \in Nat
      /\ shifts \in Seq(Shift)
  BY DEF Tables
<1>2. /\ Record(new) /\ shifts' = shifts /\ now' = now
      /\ productCost' = productCost /\ variantCost' = variantCost
  BY DEF complete, SoldRows, Served, costs
<1>3. PICK h \in openShift(t) :
        sales' = Append(sales, [branchId |-> br, terminal |-> t, shiftId |-> h, lines |-> draft.lines,
                                cashC |-> draft.cashC, status |-> "completed",
                                refundShiftId |-> Null, createdAt |-> now])
  BY DEF complete
<1>4. br \in Branches /\ draft.lines \in Seq(SaleLine) /\ draft.cashC \in Int /\ new \in Seq(Movement)
      /\ \A j \in DOMAIN new : /\ new[j].type = "sale"
                               /\ \E i \in took : keyOf(new[j].branchId, new[j]) = keyOf(br, draft.lines[i])
  BY <1>1, Drafts
<1>5. Shelf' /\ DOMAIN levels' = DOMAIN levels /\ \A i \in took : keyOf(br, draft.lines[i]) \in DOMAIN levels
  BY <1>1, Lowered
<1> HIDE DEF new
<1>6. Ledger'
  BY <1>1, <1>2, <1>4, <1>5, LedgerGrows
<1>7. sales' \in Seq(Sale)
  <2>1. h \in Nat
    BY <1>1, ShiftsTyped DEF openShift
  <2> HIDE DEF br
  <2> DEFINE row == [branchId |-> br, terminal |-> t, shiftId |-> h, lines |-> draft.lines,
                     cashC |-> draft.cashC, status |-> "completed",
                     refundShiftId |-> Null, createdAt |-> now]
  <2>2. row \in Sale
    BY <1>1, <1>4, <2>1 DEF Sale
  <2> HIDE DEF row
  <2> QED BY <1>1, <1>3, <2>2 DEF br, row
<1> QED BY <1>1, <1>2, <1>5, <1>6, <1>7 DEF Tables, Prices

LEMMA UndoKeepsTables ==
  ASSUME Tables, NEW t \in Terminals, NEW i \in DOMAIN sales, voidSale(t, i) \/ refundSale(t, i)
  PROVE  Tables'
<1>1. /\ sales \in Seq(Sale) /\ i \in Nat /\ sales[i] \in Sale /\ sales[i].shiftId \in Nat
  <2>1. sales \in Seq(Sale)
    BY DEF Tables
  <2>2. i \in Nat /\ sales[i] \in Sale
    BY <2>1, SalesTyped
  <2> QED BY <2>1, <2>2 DEF Sale
<1>2. Shelf' /\ Ledger'
  BY <1>1, RestoreKeepsStock DEF voidSale, refundSale
<1>3. /\ shifts' = shifts /\ now' = now /\ productCost' = productCost /\ variantCost' = variantCost
  BY DEF voidSale, refundSale, Served, costs
<1>4. sales' \in Seq(Sale)
  <2>1. CASE voidSale(t, i)
    <3>1. sales' = [sales EXCEPT ![i] = [sales[i] EXCEPT !.status = "voided"]]
      BY <2>1 DEF voidSale
    <3>2. [sales[i] EXCEPT !.status = "voided"] \in Sale
      BY <1>1 DEF Sale
    <3> QED BY <1>1, <3>1, <3>2
  <2>2. CASE refundSale(t, i)
    <3> DEFINE at == IF sales[i].shiftId \in openShift(t) THEN sales[i].shiftId ELSE Null
               row == [sales[i] EXCEPT !.status = "refunded", !.refundShiftId = at]
    <3>1. sales' = [sales EXCEPT ![i] = row]
      BY <2>2 DEF refundSale
    <3>2. row \in Sale
      BY <1>1 DEF Sale
    <3> HIDE DEF row
    <3> QED BY <1>1, <3>1, <3>2
  <2> QED BY <2>1, <2>2
<1> QED BY <1>2, <1>3, <1>4 DEF Tables, Prices

LEMMA DrawersKeepTables ==
  ASSUME Tables, NEW t \in Terminals, open(t) \/ \E c \in Counted : close(t, c)
  PROVE  Tables'
<1>1. now \in Int /\ shifts \in Seq(Shift) /\ sales \in Seq(Sale) /\ BranchOf[t] \in Branches
  BY OpeningAssumption, ScopeAssumption DEF Tables
<1>2. /\ levels' = levels /\ movements' = movements /\ sales' = sales /\ now' = now
      /\ productCost' = productCost /\ variantCost' = variantCost
  BY DEF open, close, Served, costs, stock
<1>3. shifts' \in Seq(Shift)
  <2>1. CASE open(t)
    <3> DEFINE row == [terminal |-> t, branchId |-> BranchOf[t], openedAt |-> now,
                       closedAt |-> Null, expectedC |-> Null, closingC |-> Null]
    <3>1. shifts' = Append(shifts, row)
      BY <2>1 DEF open
    <3>2. row \in Shift
      BY <1>1 DEF Shift
    <3> HIDE DEF row
    <3> QED BY <1>1, <3>1, <3>2
  <2>2. CASE \E c \in Counted : close(t, c)
    <3>1. PICK c \in Counted : close(t, c)
      BY <2>2
    <3>2. PICK h \in openShift(t) :
            shifts' = [shifts EXCEPT ![h].closedAt = now, ![h].closingC = c, ![h].expectedC = expectedCash(h)]
      BY <3>1 DEF close
    <3>3. h \in DOMAIN shifts /\ shifts[h] \in Shift /\ c \in Int /\ expectedCash(h) \in Int
      BY <1>1, <3>2, ShiftsTyped, CashExpected, RequestsAssumption DEF openShift
    <3> DEFINE row == [shifts[h] EXCEPT !.closedAt = now, !.closingC = c, !.expectedC = expectedCash(h)]
    <3>4. shifts' = [shifts EXCEPT ![h] = row]
      BY <1>1, <3>2, <3>3
    <3>5. row \in Shift
      BY <1>1, <3>3 DEF Shift
    <3> HIDE DEF row
    <3> QED BY <1>1, <3>3, <3>4, <3>5
  <2> QED BY <2>1, <2>2
<1> QED BY <1>1, <1>2, <1>3 DEF Tables, Shelf, Ledger, Prices, keyOf

Unclosed == [terminal : Terminals, branchId : Branches, openedAt : Int, closedAt : {Null},
             expectedC : {Null}, closingC : {Null}]

LEMMA OpenedShifts ==
  /\ OpeningShifts \in Seq(Shift)
  /\ \A h \in DOMAIN OpeningShifts : OpeningShifts[h].closedAt = Null
<1>1. OpeningShifts \in Seq(Unclosed)
  BY OpeningAssumption DEF Unclosed
<1>2. \A s \in Unclosed : s \in Shift /\ s.closedAt = Null
  BY DEF Unclosed, Shift
<1>3. /\ DOMAIN OpeningShifts = 1 .. Len(OpeningShifts) /\ Len(OpeningShifts) \in Nat
      /\ \A h \in 1 .. Len(OpeningShifts) : OpeningShifts[h] \in Unclosed
  BY <1>1
<1>4. OpeningShifts \in Seq(Shift)
  BY <1>1, <1>2, <1>3
<1> QED BY <1>2, <1>3, <1>4

(* The rows of every table have the types of their columns, and every row of   *)
(* the ledger is about a shelf that is there.                                 *)
LEMMA TablesHold == Spec => []Tables
<1>1. Init => Tables
  <2> SUFFICES ASSUME Init PROVE Tables
    OBVIOUS
  <2>1. now \in Instants
    BY ClockShowsAnInstant DEF Init
  <2>2. Shelf /\ Prices
    BY OpeningAssumption DEF Init, Shelf, Prices
  <2>3. Ledger
    BY UuidsAssumption DEF Init, Ledger
  <2>4. shifts \in Seq(Shift) /\ sales \in Seq(Sale)
    <3>1. shifts = OpeningShifts /\ sales = <<>>
      BY DEF Init
    <3> QED BY <3>1, OpenedShifts
  <2> QED BY <2>1, <2>2, <2>3, <2>4 DEF Tables
<1>2. ASSUME Tables, [Next]_vars PROVE Tables'
  <2>1. ASSUME NEW p \in Products, remove(p) PROVE Tables'
    BY <1>2, <2>1 DEF remove, Served, stock, costs, Tables, Shelf, Ledger, Prices, keyOf
  <2>2. ASSUME Tick PROVE Tables'
    <3>1. now' \in Instants
      BY <1>2, <2>2, ClockShowsAnInstant DEF Tick, Tables
    <3> QED BY <1>2, <2>2, <3>1 DEF Tick, stock, costs, Tables, Shelf, Ledger, Prices, keyOf
  <2>3. CASE UNCHANGED vars
    BY <1>2, <2>3 DEF vars, stock, costs, Tables, Shelf, Ledger, Prices, keyOf
  <2> QED
    BY <1>2, <2>1, <2>2, <2>3, ReceiveKeepsTables, AdjustKeepsTables, CompleteKeepsTables,
       UndoKeepsTables, DrawersKeepTables DEF Next
<1> QED BY <1>1, <1>2, PTL DEF Spec

----------------------------------------------------------------------------
(* The drawers                                                               *)

(* The businesses the dashboard shows, and whose each branch is.              *)
LEMMA TodayReaches ==
  LET index == branchIndex(resolveToday)
  IN /\ DOMAIN index = {br \in Branches : BusinessOf[br] \notin Demo}
     /\ \A br \in DOMAIN index : index[br] = BusinessOf[br]
<1> DEFINE all == [business |-> Null, branch |-> Null]
           shown == {c \in chosen(all) : branchesIn(all, c) # {}}
           today(b) == businessDayOf(now, DayStart[b])
           desk(b) == [id |-> b, branchIds |-> branchesIn(all, b), window |-> dayWindow(today(b), DayStart[b]),
                       previous |-> dayWindow(addDays(today(b), -7), DayStart[b])]
           scope == {desk(b) : b \in shown}
           reached == {br \in Branches : BusinessOf[br] \notin Demo}
<1>1. resolveToday = scope
  BY DEF resolveToday
<1>2. \A b : desk(b).id = b /\ desk(b).branchIds = branchesIn(all, b)
  OBVIOUS
<1>3. /\ \A b, br : br \in branchesIn(all, b) <=> br \in Branches /\ BusinessOf[br] = b
      /\ chosen(all) = Businesses \ Demo
      /\ \A br \in Branches : BusinessOf[br] \in Businesses
  BY ScopeAssumption DEF branchesIn, chosen
<1>4. \A br : br \in reached => BusinessOf[br] \in shown /\ br \in desk(BusinessOf[br]).branchIds
  BY <1>2, <1>3
<1>5. \A br, b : b \in shown /\ br \in desk(b).branchIds => br \in reached /\ b = BusinessOf[br]
  BY <1>2, <1>3
<1> HIDE DEF desk, shown, reached
<1>6. UNION {b.branchIds : b \in scope} = reached
  BY <1>4, <1>5
<1>7. \A br \in reached : (CHOOSE b \in scope : br \in b.branchIds).id = BusinessOf[br]
  <2> SUFFICES ASSUME NEW br \in reached PROVE (CHOOSE b \in scope : br \in b.branchIds).id = BusinessOf[br]
    OBVIOUS
  <2>1. \E b \in scope : br \in b.branchIds
    BY <1>4
  <2>2. \A b \in scope : br \in b.branchIds => b.id = BusinessOf[br]
    BY <1>2, <1>5
  <2> HIDE DEF scope
  <2> QED BY <2>1, <2>2
<1> HIDE DEF scope
<1>8. branchIndex(scope) = [br \in reached |-> (CHOOSE b \in scope : br \in b.branchIds).id]
  BY <1>6 DEF branchIndex
<1> QED BY <1>1, <1>7, <1>8 DEF reached

(* The whole time of a business: everything of its branches.                   *)
LEMMA WholeTime ==
  ASSUME NEW biz \in DOMAIN Always
  PROVE  /\ Always[biz] \in Asks /\ biz \in Businesses
         /\ \A br \in Branches : Reached(Always[biz], br) <=> BusinessOf[br] = biz
         /\ InScope(Always[biz]) \subseteq {biz}
         /\ \A t \in Instants : dayBucket(t, DayStart[biz]) \in Always[biz].from .. Always[biz].to
<1> DEFINE q == Always[biz]
<1>1. q \in [business : {biz}, branch : {Null}, from : Int, to : Int] /\ biz \in Businesses /\ biz # Null
      /\ \A t \in Instants : dayBucket(t, DayStart[biz]) \in q.from .. q.to
  BY AlwaysAccepted, ScopeAssumption
<1> HIDE DEF q
<1>2. q.business = biz /\ q.branch = Null /\ q \in Asks
  BY <1>1 DEF Asks
<1>3. chosen(q) = {biz}
  BY <1>1, <1>2 DEF chosen
<1> QED BY <1>1, <1>2, <1>3 DEF Reached, InScope, q

(* One day of a business's whole time.                                        *)
LEMMA OneDay ==
  ASSUME NEW biz \in DOMAIN Always, NEW d \in Always[biz].from .. Always[biz].to
  PROVE  LET q == onDay(Always[biz], d)
         IN /\ q \in Asks /\ q.from = d /\ q.to = d /\ d \in Int
            /\ \A br \in Branches : Reached(q, br) <=> BusinessOf[br] = biz
<1> DEFINE a == Always[biz]
<1>1. a \in [business : {biz}, branch : {Null}, from : Int, to : Int] /\ biz \in Businesses /\ biz # Null
  BY AlwaysAccepted, ScopeAssumption
<1>2. d \in Int
  BY <1>1
<1>3. onDay(a, d) \in [business : {biz}, branch : {Null}, from : {d}, to : {d}]
  BY <1>1, <1>2 DEF onDay
<1> DEFINE q == onDay(a, d)
<1> HIDE DEF q, a
<1>4. q.business = biz /\ q.branch = Null /\ q.from = d /\ q.to = d /\ q \in Asks
  BY <1>1, <1>2, <1>3 DEF Asks, q
<1>5. \A br \in Branches : Reached(q, br) <=> BusinessOf[br] = biz
  BY <1>1, <1>4 DEF Reached, chosen
<1> QED BY <1>2, <1>4, <1>5 DEF q, a

(* The closed shifts of a business in a query of some of its days.             *)
LEMMA ClosedOn ==
  ASSUME shifts \in Seq(Shift), NEW biz, NEW q \in Asks,
         \A br \in Branches : Reached(q, br) <=> BusinessOf[br] = biz
  PROVE  overShort(q) =
           [h \in {g \in closedOf(biz) : onOneOf(q.from, q.to, shifts[g].closedAt, shifts[g])} |->
              shifts[h].closingC - shifts[h].expectedC]
<1>1. \A br \in Branches : Reached(q, br) <=> BusinessOf[br] = biz
  OBVIOUS
<1>2. DOMAIN overShort(q) = UNION {overShortSql(b) : b \in resolve(q)}
  BY DEF overShort
<1>3. resolve(q) = {Scoped(q, b) : b \in InScope(q)}
  BY <1>1, ScopeIsEachOnce
<1>4. ASSUME NEW h \in DOMAIN shifts, shifts[h].closedAt # Null, NEW b \in InScope(q)
      PROVE  h \in overShortSql(Scoped(q, b))
               <=> /\ b = BusinessOf[shifts[h].branchId] /\ Reached(q, shifts[h].branchId)
                   /\ dayBucket(shifts[h].closedAt, DayStart[b]) \in q.from .. q.to
  <2>1. shifts[h].branchId \in Branches /\ shifts[h].closedAt \in Int
    BY <1>4, ShiftsTyped
  <2>2. /\ shifts[h].branchId \in Scoped(q, b).branchIds
             <=> b = BusinessOf[shifts[h].branchId] /\ Reached(q, shifts[h].branchId)
        /\ InWindow(shifts[h].closedAt, Scoped(q, b).window)
             <=> dayBucket(shifts[h].closedAt, DayStart[b]) \in q.from .. q.to
    BY <1>1, <2>1, ScopeReaches
  <2> QED BY <1>4, <2>2 DEF overShortSql
<1>5. ASSUME NEW h \in DOMAIN shifts, shifts[h].closedAt # Null, Reached(q, shifts[h].branchId)
      PROVE  BusinessOf[shifts[h].branchId] \in InScope(q)
  <2>1. shifts[h].branchId \in Branches /\ shifts[h].closedAt \in Int
    BY <1>5, ShiftsTyped
  <2> QED BY <1>1, <1>5, <2>1, ScopeReaches
<1>6. \A b, h : h \in overShortSql(b) => h \in DOMAIN shifts /\ shifts[h].closedAt # Null
  BY DEF overShortSql
<1>7. \A h \in DOMAIN shifts : shifts[h].branchId \in Branches
  BY ShiftsTyped
<1> DEFINE on == {g \in closedOf(biz) : onOneOf(q.from, q.to, shifts[g].closedAt, shifts[g])}
<1>8. DOMAIN overShort(q) = on
  BY <1>1, <1>2, <1>3, <1>4, <1>5, <1>6, <1>7 DEF closedOf, businessOfRow, onOneOf
<1>9. overShort(q) = [h \in DOMAIN overShort(q) |-> shifts[h].closingC - shifts[h].expectedC]
  BY DEF overShort
<1> HIDE DEF on
<1> QED BY <1>8, <1>9 DEF on

(* What was counted and expected at a close stands: the sales table still says *)
(* the drawer should have held that, whatever was undone since.               *)
ClosedRight(h) ==
  shifts[h].closedAt # Null =>
    /\ shifts[h].closedAt \in Instants /\ shifts[h].closingC \in Int
    /\ shifts[h].expectedC = expectedCash(h)
Drawers == \A h \in DOMAIN shifts : ClosedRight(h)

CashCounted(h) == {i \in DOMAIN sales : sales[i].shiftId = h /\ sales[i].status # "voided"}
CashBack(h) == {i \in DOMAIN sales : sales[i].status = "refunded" /\ sales[i].refundShiftId = h}

LEMMA SameCash ==
  ASSUME NEW h, CashCounted(h)' = CashCounted(h), CashBack(h)' = CashBack(h),
         \A i \in CashCounted(h) \cup CashBack(h) : sales'[i].cashC = sales[i].cashC
  PROVE  expectedCash(h)' = expectedCash(h)
<1> DEFINE of(S) == [i \in S |-> sales[i].cashC]
           A == CashCounted(h)
           B == CashBack(h)
<1>1. /\ [i \in A |-> sales'[i].cashC] = of(A)
      /\ [i \in B |-> sales'[i].cashC] = of(B)
  OBVIOUS
<1>2. expectedCash(h) = Total(of(A)) - Total(of(B))
  BY DEF expectedCash, SumOf, CashCounted, CashBack
<1>3. expectedCash(h)' = Total([i \in CashCounted(h)' |-> sales'[i].cashC])
                           - Total([i \in CashBack(h)' |-> sales'[i].cashC])
  BY DEF expectedCash, SumOf, CashCounted, CashBack
<1> QED BY <1>1, <1>2, <1>3

LEMMA CashUntouched ==
  ASSUME sales' = sales
  PROVE  \A h : expectedCash(h)' = expectedCash(h)
<1> SUFFICES ASSUME NEW h PROVE expectedCash(h)' = expectedCash(h)
  OBVIOUS
<1>1. CashCounted(h)' = CashCounted(h) /\ CashBack(h)' = CashBack(h)
  BY DEF CashCounted, CashBack
<1> QED BY <1>1, SameCash

LEMMA SalesKeepDrawers ==
  ASSUME Tables, Drawers, NEW t \in Terminals,
         \/ \E draft \in BasketsAt[t] : complete(t, draft)
         \/ \E i \in DOMAIN sales : voidSale(t, i) \/ refundSale(t, i)
  PROVE  Drawers'
<1>1. shifts' = shifts /\ sales \in Seq(Sale)
  BY DEF complete, voidSale, refundSale, Tables
<1>2. DOMAIN sales = 1 .. Len(sales) /\ Len(sales) \in Nat
  BY <1>1
<1>3. SUFFICES ASSUME NEW h \in DOMAIN shifts, shifts[h].closedAt # Null
               PROVE  expectedCash(h)' = expectedCash(h)
  BY <1>1 DEF Drawers, ClosedRight
<1>4. h \notin openShift(t)
  BY <1>3 DEF openShift
<1>5. CASE \E draft \in BasketsAt[t] : complete(t, draft)
  <2>1. PICK draft \in BasketsAt[t], g \in openShift(t) :
          sales' = Append(sales, [branchId |-> BranchOf[t], terminal |-> t, shiftId |-> g, lines |-> draft.lines,
                                  cashC |-> draft.cashC, status |-> "completed",
                                  refundShiftId |-> Null, createdAt |-> now])
    BY <1>5 DEF complete
  <2>2. /\ DOMAIN sales' = 1 .. Len(sales) + 1
        /\ \A i \in DOMAIN sales : sales'[i] = sales[i]
        /\ sales'[Len(sales) + 1].shiftId = g /\ sales'[Len(sales) + 1].status = "completed"
    BY <1>1, <1>2, <2>1
  <2>3. g # h
    BY <1>4
  <2>4. CashCounted(h)' = CashCounted(h) /\ CashBack(h)' = CashBack(h)
    BY <1>2, <2>2, <2>3 DEF CashCounted, CashBack
  <2>5. \A i \in CashCounted(h) \cup CashBack(h) : sales'[i].cashC = sales[i].cashC
    BY <2>2 DEF CashCounted, CashBack
  <2> QED BY <2>4, <2>5, SameCash
<1>6. CASE \E i \in DOMAIN sales : voidSale(t, i) \/ refundSale(t, i)
  <2>1. PICK i \in DOMAIN sales : voidSale(t, i) \/ refundSale(t, i)
    BY <1>6
  <2>2. sales[i] \in Sale /\ sales[i].status = "completed"
    BY <1>1, <2>1, SalesTyped DEF voidSale, refundSale
  <2>3. /\ DOMAIN sales' = DOMAIN sales /\ \A j \in DOMAIN sales : j # i => sales'[j] = sales[j]
        /\ sales'[i].cashC = sales[i].cashC /\ sales'[i].shiftId = sales[i].shiftId
        /\ \/ sales'[i].status = "voided" /\ sales[i].shiftId \in openShift(t)
           \/ /\ sales'[i].status = "refunded"
              /\ sales'[i].refundShiftId \in openShift(t) \cup {Null}
    <3>1. CASE voidSale(t, i)
      <4>1. sales' = [sales EXCEPT ![i] = [sales[i] EXCEPT !.status = "voided"]]
        BY <3>1 DEF voidSale
      <4> QED BY <2>2, <3>1, <4>1 DEF voidSale, Sale
    <3>2. CASE refundSale(t, i)
      <4> DEFINE at == IF sales[i].shiftId \in openShift(t) THEN sales[i].shiftId ELSE Null
      <4>1. sales' = [sales EXCEPT ![i] = [sales[i] EXCEPT !.status = "refunded", !.refundShiftId = at]]
        BY <3>2 DEF refundSale
      <4>2. at \in openShift(t) \cup {Null}
        OBVIOUS
      <4> HIDE DEF at
      <4> QED BY <2>2, <4>1, <4>2 DEF Sale
    <3> QED BY <2>1, <3>1, <3>2
  <2>4. h # Null
    BY <1>1, ShiftsTyped, NullAssumption DEF Tables
  <2>5. CashCounted(h)' = CashCounted(h)
    BY <1>4, <2>2, <2>3 DEF CashCounted
  <2>6. CashBack(h)' = CashBack(h)
    BY <1>4, <2>2, <2>3, <2>4 DEF CashBack
  <2>7. \A j \in CashCounted(h) \cup CashBack(h) : sales'[j].cashC = sales[j].cashC
    BY <2>3 DEF CashCounted, CashBack
  <2> QED BY <2>5, <2>6, <2>7, SameCash
<1> QED BY <1>5, <1>6

LEMMA CloseKeepsDrawers ==
  ASSUME Tables, Drawers, NEW t \in Terminals, open(t) \/ \E c \in Counted : close(t, c)
  PROVE  Drawers'
<1>1. sales' = sales /\ shifts \in Seq(Shift) /\ now \in Instants
  BY DEF open, close, Tables
<1>2. \A h : expectedCash(h)' = expectedCash(h)
  BY <1>1, CashUntouched
<1>3. DOMAIN shifts = 1 .. Len(shifts) /\ Len(shifts) \in Nat
  BY <1>1
<1>4. CASE open(t)
  <2>1. /\ DOMAIN shifts' = 1 .. Len(shifts) + 1 /\ shifts'[Len(shifts) + 1].closedAt = Null
        /\ \A h \in DOMAIN shifts : shifts'[h] = shifts[h]
    BY <1>1, <1>3, <1>4 DEF open
  <2> QED BY <1>2, <1>3, <2>1 DEF Drawers, ClosedRight
<1>5. CASE \E c \in Counted : close(t, c)
  <2>1. PICK c \in Counted, g \in openShift(t) :
          shifts' = [shifts EXCEPT ![g].closedAt = now, ![g].closingC = c, ![g].expectedC = expectedCash(g)]
    BY <1>5 DEF close
  <2>2. g \in DOMAIN shifts /\ shifts[g] \in Shift /\ c \in Int
    BY <1>1, ShiftsTyped, RequestsAssumption DEF openShift
  <2>3. /\ DOMAIN shifts' = DOMAIN shifts /\ \A h \in DOMAIN shifts : h # g => shifts'[h] = shifts[h]
        /\ shifts'[g].closedAt = now /\ shifts'[g].closingC = c /\ shifts'[g].expectedC = expectedCash(g)
    BY <2>1, <2>2 DEF Shift
  <2> QED BY <1>1, <1>2, <2>2, <2>3 DEF Drawers, ClosedRight
<1> QED BY <1>4, <1>5

LEMMA DrawersHold == Spec => []Drawers
<1>1. Init => Drawers
  <2> SUFFICES ASSUME Init, NEW h \in DOMAIN shifts PROVE shifts[h].closedAt = Null
    BY DEF Drawers, ClosedRight
  <2>1. shifts = OpeningShifts
    BY DEF Init
  <2> QED BY <2>1, OpenedShifts
<1>2. ASSUME Tables, Drawers, [Next]_vars PROVE Drawers'
  <2>1. ASSUME sales' = sales, shifts' = shifts PROVE Drawers'
    BY <1>2, <2>1, CashUntouched DEF Drawers, ClosedRight
  <2>2. \/ sales' = sales /\ shifts' = shifts
        \/ \E t \in Terminals :
             \/ \E draft \in BasketsAt[t] : complete(t, draft)
             \/ \E i \in DOMAIN sales : voidSale(t, i) \/ refundSale(t, i)
             \/ open(t) \/ \E c \in Counted : close(t, c)
    BY <1>2 DEF Next, vars, receive, adjust, remove, Tick
  <2> QED BY <1>2, <2>1, <2>2, SalesKeepDrawers, CloseKeepsDrawers
<1> QED BY <1>1, <1>2, TablesHold, PTL DEF Spec

(* A business's over/short over its whole time, and over one of its days.      *)
LEMMA ClosedDrawers ==
  ASSUME shifts \in Seq(Shift), Drawers, NEW biz \in DOMAIN Always
  PROVE  /\ overShort(Always[biz]) =
              [h \in closedOf(biz) |-> shifts[h].closingC - expectedCash(h)]
         /\ \A d \in Always[biz].from .. Always[biz].to :
              overShort(onDay(Always[biz], d)) =
                [h \in {g \in closedOf(biz) : onOneOf(d, d, shifts[g].closedAt, shifts[g])} |->
                   overShort(Always[biz])[h]]
<1> DEFINE q == Always[biz]
           amount(h) == shifts[h].closingC - shifts[h].expectedC
           on(d) == {g \in closedOf(biz) : onOneOf(d, d, shifts[g].closedAt, shifts[g])}
<1>1. /\ q \in Asks /\ \A br \in Branches : Reached(q, br) <=> BusinessOf[br] = biz
      /\ \A t \in Instants : dayBucket(t, DayStart[biz]) \in q.from .. q.to
  BY WholeTime, AlwaysAccepted
<1>2. {g \in closedOf(biz) : onOneOf(q.from, q.to, shifts[g].closedAt, shifts[g])} = closedOf(biz)
  <2>1. \A h \in closedOf(biz) : shifts[h].closedAt \in Instants /\ businessOfRow(shifts[h]) = biz
    BY DEF closedOf, Drawers, ClosedRight
  <2> HIDE DEF q
  <2> QED BY <1>1, <2>1 DEF onOneOf
<1>3. overShort(q) = [h \in closedOf(biz) |-> amount(h)]
  <2>1. overShort(q) = [h \in {g \in closedOf(biz) : onOneOf(q.from, q.to, shifts[g].closedAt, shifts[g])} |->
                          amount(h)]
    BY <1>1, ClosedOn
  <2> QED BY <1>2, <2>1
<1>4. \A h \in closedOf(biz) : amount(h) = shifts[h].closingC - expectedCash(h)
  BY DEF closedOf, Drawers, ClosedRight
<1>5. ASSUME NEW d \in q.from .. q.to PROVE overShort(onDay(q, d)) = [h \in on(d) |-> amount(h)]
  <2> DEFINE day == onDay(q, d)
  <2>1. /\ day \in Asks /\ day.from = d /\ day.to = d
        /\ \A br \in Branches : Reached(day, br) <=> BusinessOf[br] = biz
    BY OneDay
  <2> HIDE DEF day
  <2>2. overShort(day) = [h \in {g \in closedOf(biz) : onOneOf(day.from, day.to, shifts[g].closedAt, shifts[g])} |->
                            amount(h)]
    BY <2>1, ClosedOn
  <2> QED BY <2>1, <2>2 DEF day
<1> HIDE DEF q, amount
<1>6. overShort(q) = [h \in closedOf(biz) |-> shifts[h].closingC - expectedCash(h)]
  BY <1>3, <1>4
<1>7. ASSUME NEW d \in q.from .. q.to PROVE overShort(onDay(q, d)) = [h \in on(d) |-> overShort(q)[h]]
  <2>1. \A h \in on(d) : overShort(q)[h] = amount(h)
    BY <1>3
  <2> HIDE DEF on
  <2> QED BY <1>5, <2>1
<1> QED BY <1>6, <1>7 DEF q

LEMMA ListedOnce ==
  ASSUME sales \in Seq(Sale), NEW i \in DOMAIN sales
  PROVE  LET d == businessDayOf(sales[i].createdAt, 0)
         IN \A e \in d - 1 .. d + 1 : i \in listSales(sales[i].terminal, e) <=> e = d
<1> DEFINE t == sales[i].createdAt
           d == businessDayOf(t, 0)
<1>1. t \in Int /\ 0 \in DayStarts
  <2>1. t \in Instants /\ Instants \subseteq Int
    BY SalesTyped, ScopeAssumption
  <2>2. t \in Int
    BY <2>1
  <2>3. 0 \in DayStarts
    BY DEF DayStarts, MinutesPerDay
  <2> QED BY <2>2, <2>3
<1>2. d = dayBucket(t, 0) /\ d \in Int
  <2>1. dayBucket(t, 0) \in Int
    BY <1>1, BucketHolds
  <2> QED BY <2>1 DEF businessDayOf, dayBucket
<1> HIDE DEF d
<1> SUFFICES ASSUME NEW e \in d - 1 .. d + 1 PROVE i \in listSales(sales[i].terminal, e) <=> e = d
  BY DEF d
<1>3. e \in Int /\ addDays(e, 1) = e + 1
  <2>1. e \in Int /\ 1 \in Int
    BY <1>2
  <2> HIDE DEF t
  <2> QED BY <1>1, <2>1, DatesAddUp
<1>4. dayWindow(e, 0) = businessDayRangeUtc(e, e, 0)
  BY <1>3 DEF dayWindow, businessDayRangeUtc, businessDayStartUtc, MinutesPerDay, MANILA_OFFSET_MINUTES
<1>5. InWindow(t, dayWindow(e, 0)) <=> d \in e .. e
  BY <1>1, <1>2, <1>3, <1>4, WindowIsItsDays
<1>6. i \in listSales(sales[i].terminal, e) <=> InWindow(t, dayWindow(e, 0))
  BY DEF listSales
<1> QED BY <1>2, <1>3, <1>5, <1>6

(* ShiftsAccounted of InventoryAgreement: a shift is on the dashboard while it *)
(* is open and in one day's over/short once it is closed, listed with the cash *)
(* counted less what the sales table still says the drawer should have held,  *)
(* and a till lists each of its sales under one date.                         *)
THEOREM EveryShiftIsInOnePlace == Spec => []ShiftsAccounted
<1>1. Tables /\ Drawers => ShiftsAccounted
  <2> SUFFICES ASSUME Tables, Drawers PROVE ShiftsAccounted
    OBVIOUS
  <2> DEFINE index == branchIndex(resolveToday)
             shown == openShifts(resolveToday)
             late == unclosedShifts(resolveToday)
             real == {h \in DOMAIN shifts : businessOfRow(shifts[h]) \notin Demo}
  <2>1. /\ now \in Int /\ sales \in Seq(Sale) /\ shifts \in Seq(Shift)
        /\ \A h \in DOMAIN shifts : shifts[h].branchId \in Branches /\ shifts[h].openedAt \in Int
    BY ShiftsTyped, ScopeAssumption DEF Tables
  <2>2. /\ DOMAIN index = {br \in Branches : BusinessOf[br] \notin Demo}
        /\ \A br \in DOMAIN index : index[br] = BusinessOf[br]
    BY TodayReaches
  <2> HIDE DEF index
  <2>3. shown = {h \in DOMAIN shifts : shifts[h].branchId \in DOMAIN index /\ shifts[h].closedAt = Null}
    BY DEF openShifts, index
  <2>4. \A h \in real : (h \in shown) = (shifts[h].closedAt = Null)
    BY <2>1, <2>2, <2>3 DEF businessOfRow
  <2>5. shown \subseteq real
    BY <2>2, <2>3 DEF businessOfRow
  <2>6. \A biz \in DOMAIN late :
          late[biz] = Cardinality({h \in shown : /\ businessOfRow(shifts[h]) = biz
                                                /\ now - shifts[h].openedAt > 24 * 60})
    <3> SUFFICES ASSUME NEW biz \in DOMAIN late
                 PROVE  late[biz] = Cardinality({h \in shown : /\ businessOfRow(shifts[h]) = biz
                                                              /\ now - shifts[h].openedAt > 24 * 60})
      OBVIOUS
    <3>1. late[biz] = Cardinality({h \in {g \in shown : shifts[g].openedAt < now - UNCLOSED_SHIFT_HOURS * 60} :
                                     index[shifts[h].branchId] = biz})
      BY DEF unclosedShifts, index
    <3>2. \A h \in shown : /\ index[shifts[h].branchId] = businessOfRow(shifts[h])
                           /\ shifts[h].openedAt < now - UNCLOSED_SHIFT_HOURS * 60
                                <=> now - shifts[h].openedAt > 24 * 60
      BY <2>1, <2>2, <2>3 DEF businessOfRow, UNCLOSED_SHIFT_HOURS
    <3> HIDE DEF shown, late
    <3>3. {h \in {g \in shown : shifts[g].openedAt < now - UNCLOSED_SHIFT_HOURS * 60} :
             index[shifts[h].branchId] = biz}
          = {h \in shown : businessOfRow(shifts[h]) = biz /\ now - shifts[h].openedAt > 24 * 60}
      BY <3>2
    <3> QED BY <3>1, <3>3
  <2>7. ASSUME NEW biz \in DOMAIN Always
        PROVE  /\ overShort(Always[biz]) =
                    [h \in closedOf(biz) |-> shifts[h].closingC - expectedCash(h)]
               /\ \A d \in Always[biz].from .. Always[biz].to :
                    overShort(onDay(Always[biz], d)) =
                      [h \in {g \in closedOf(biz) : onOneOf(d, d, shifts[g].closedAt, shifts[g])} |->
                         overShort(Always[biz])[h]]
    BY <2>1, ClosedDrawers
  <2>8. \A i \in DOMAIN sales :
          \E d \in {businessDayOf(sales[i].createdAt, 0)} :
            \A e \in d - 1 .. d + 1 : i \in listSales(sales[i].terminal, e) <=> e = d
    BY <2>1, ListedOnce
  <2> HIDE DEF shown, late, real
  <2> QED BY <2>4, <2>5, <2>6, <2>7, <2>8 DEF ShiftsAccounted, shown, late, real
<1> QED BY <1>1, TablesHold, DrawersHold, PTL

----------------------------------------------------------------------------
(* Losses                                                                    *)

IsLoss(n) == movements[n].type = "adjustment" /\ movements[n].qtyDelta < 0
bucketOf(n) == dayBucket(movements[n].createdAt, DayStart[businessOfRow(movements[n])])
LostIn(q) == {n \in DOMAIN movements : /\ IsLoss(n) /\ Reached(q, movements[n].branchId)
                                       /\ bucketOf(n) \in q.from .. q.to}
ForReason(S, r) == {n \in S : movements[n].reason = r}

(* Some losses' units, the units without a cost, and the value of the rest.    *)
Lost(S) == [n \in S |-> -movements[n].qtyDelta]
Unvalued(S) == [n \in S |-> IF lossCost(n) = Null THEN -movements[n].qtyDelta ELSE 0]
Valued(S) == [n \in S |-> IF lossCost(n) = Null THEN 0
                          ELSE halfUp(-movements[n].qtyDelta * lossCost(n), 1000)]

LEMMA LossColumns ==
  ASSUME Tables
  PROVE  \A S \in SUBSET (DOMAIN movements) :
           /\ IsFiniteSet(S) /\ Lost(S) \in [S -> Int] /\ Unvalued(S) \in [S -> Int] /\ Valued(S) \in [S -> Int]
           /\ \A T \in SUBSET S : /\ Restrict(Lost(S), T) = Lost(T)
                                  /\ Restrict(Unvalued(S), T) = Unvalued(T)
                                  /\ Restrict(Valued(S), T) = Valued(T)
<1>1. movements \in Seq(Movement) /\ Prices
  BY DEF Tables, Ledger
<1>2. /\ IsFiniteSet(DOMAIN movements)
      /\ \A n \in DOMAIN movements : /\ movements[n].product \in Products /\ movements[n].qtyDelta \in Int
                                     /\ movements[n].variant \in Variants \cup {Null}
  BY <1>1, MovementsTyped
<1>3. \A n \in DOMAIN movements : lossCost(n) \in Nat \cup {Null} /\ -movements[n].qtyDelta \in Int
  BY <1>1, <1>2 DEF lossCost, Prices
<1>4. \A n \in DOMAIN movements :
        lossCost(n) # Null => halfUp(-movements[n].qtyDelta * lossCost(n), 1000) \in Int
  <2> SUFFICES ASSUME NEW n \in DOMAIN movements, lossCost(n) # Null
               PROVE  halfUp(-movements[n].qtyDelta * lossCost(n), 1000) \in Int
    OBVIOUS
  <2> DEFINE x == -movements[n].qtyDelta * lossCost(n)
  <2>1. x \in Int
    <3>1. movements[n].qtyDelta \in Int /\ lossCost(n) \in Int
      BY <1>2, <1>3
    <3>2. \A a, c \in Int : -a * c \in Int
      OBVIOUS
    <3> QED BY <3>1, <3>2
  <2>2. 1000 \in Positive
    BY DEF Positive
  <2> HIDE DEF x
  <2>3. Near(halfUp(x, 1000), x, 1000)
    BY <2>1, <2>2, HalfUpNear
  <2> QED BY <2>3 DEF Near, x
<1>5. ASSUME NEW S \in SUBSET (DOMAIN movements)
      PROVE  Lost(S) \in [S -> Int] /\ Unvalued(S) \in [S -> Int] /\ Valued(S) \in [S -> Int]
  BY <1>3, <1>4 DEF Lost, Unvalued, Valued
<1>6. ASSUME NEW S \in SUBSET (DOMAIN movements), NEW T \in SUBSET S
      PROVE  /\ Restrict(Lost(S), T) = Lost(T)
             /\ Restrict(Unvalued(S), T) = Unvalued(T)
             /\ Restrict(Valued(S), T) = Valued(T)
  BY DEF Restrict, Lost, Unvalued, Valued
<1> QED BY <1>2, <1>5, <1>6, FS_Subset

(* Losses sorted into the rows of a table add up to the losses.                *)
SortedBy(S, K, key, lost, unvalued, valued) ==
  \A k \in K : /\ lost[k] = Total(Lost({n \in S : key[n] = k}))
               /\ unvalued[k] = Total(Unvalued({n \in S : key[n] = k}))
               /\ valued[k] = Total(Valued({n \in S : key[n] = k}))

LEMMA LossesByKey ==
  ASSUME Tables, NEW S \in SUBSET (DOMAIN movements), NEW K, IsFiniteSet(K), NEW key \in [S -> K],
         NEW lost \in [K -> Int], NEW unvalued \in [K -> Int], NEW valued \in [K -> Int],
         SortedBy(S, K, key, lost, unvalued, valued)
  PROVE  /\ Total(lost) = Total(Lost(S)) /\ Total(unvalued) = Total(Unvalued(S))
         /\ Total(valued) = Total(Valued(S))
<1> DEFINE At(k) == {n \in S : key[n] = k}
<1>1. /\ IsFiniteSet(S) /\ Lost(S) \in [S -> Int] /\ Unvalued(S) \in [S -> Int] /\ Valued(S) \in [S -> Int]
  BY LossColumns
<1>2. \A k : /\ Lost(At(k)) = [n \in At(k) |-> Lost(S)[n]]
             /\ Unvalued(At(k)) = [n \in At(k) |-> Unvalued(S)[n]]
             /\ Valued(At(k)) = [n \in At(k) |-> Valued(S)[n]]
  BY DEF Lost, Unvalued, Valued
<1>3. \A k \in K : /\ lost[k] = Total([n \in At(k) |-> Lost(S)[n]])
                   /\ unvalued[k] = Total([n \in At(k) |-> Unvalued(S)[n]])
                   /\ valued[k] = Total([n \in At(k) |-> Valued(S)[n]])
  BY <1>2 DEF SortedBy
<1>4. Total(lost) = Total(Lost(S))
  <2> DEFINE f == Lost(S)
  <2>1. f \in [S -> Int]
    BY <1>1
  <2>2. \A k \in K : lost[k] = Total([n \in {m \in S : key[m] = k} |-> f[n]])
    BY <1>3
  <2> HIDE DEF f, At
  <2>3. IsFiniteSet(S) /\ IsFiniteSet(K) /\ key \in [S -> K]
    BY <1>1
  <2>4. Total(lost) = Total(f)
    BY <2>1, <2>2, <2>3, SumByKey
  <2> QED BY <2>4 DEF f
<1>5. Total(unvalued) = Total(Unvalued(S))
  <2> DEFINE f == Unvalued(S)
  <2>1. f \in [S -> Int]
    BY <1>1
  <2>2. \A k \in K : unvalued[k] = Total([n \in {m \in S : key[m] = k} |-> f[n]])
    BY <1>3
  <2> HIDE DEF f, At
  <2>3. IsFiniteSet(S) /\ IsFiniteSet(K) /\ key \in [S -> K]
    BY <1>1
  <2>4. Total(unvalued) = Total(f)
    BY <2>1, <2>2, <2>3, SumByKey
  <2> QED BY <2>4 DEF f
<1>6. Total(valued) = Total(Valued(S))
  <2> DEFINE f == Valued(S)
  <2>1. f \in [S -> Int]
    BY <1>1
  <2>2. \A k \in K : valued[k] = Total([n \in {m \in S : key[m] = k} |-> f[n]])
    BY <1>3
  <2> HIDE DEF f, At
  <2>3. IsFiniteSet(S) /\ IsFiniteSet(K) /\ key \in [S -> K]
    BY <1>1
  <2>4. Total(valued) = Total(f)
    BY <2>1, <2>2, <2>3, SumByKey
  <2> QED BY <2>4 DEF f
<1> QED BY <1>4, <1>5, <1>6

(* A business of the query lists the losses of its branches.                   *)
LEMMA LossesOfDesk ==
  ASSUME Tables, NEW q \in Asks
  PROVE  /\ LostIn(q) \in SUBSET (DOMAIN movements)
         /\ \A b \in InScope(q) :
              lossesIn(Scoped(q, b)) = {n \in LostIn(q) : businessOfRow(movements[n]) = b}
         /\ \A n \in LostIn(q) : businessOfRow(movements[n]) \in InScope(q)
<1>1. movements \in Seq(Movement) /\ \A n \in DOMAIN movements : IsLoss(n) => movements[n].reason # Null
  BY DEF Tables, Ledger, IsLoss
<1>2. \A n \in DOMAIN movements : movements[n].branchId \in Branches /\ movements[n].createdAt \in Int
  BY <1>1, MovementsTyped, ScopeAssumption
<1>3. ASSUME NEW n \in DOMAIN movements
      PROVE  LET biz == businessOfRow(movements[n])
             IN /\ Reached(q, movements[n].branchId) => biz \in InScope(q)
                /\ \A b \in InScope(q) :
                     /\ movements[n].branchId \in Scoped(q, b).branchIds <=> b = biz /\ Reached(q, movements[n].branchId)
                     /\ InWindow(movements[n].createdAt, Scoped(q, b).window)
                          <=> dayBucket(movements[n].createdAt, DayStart[b]) \in q.from .. q.to
  BY <1>2, ScopeReaches DEF businessOfRow
<1>4. \A b \in InScope(q) :
        lossesIn(Scoped(q, b)) = {n \in LostIn(q) : businessOfRow(movements[n]) = b}
  <2> SUFFICES ASSUME NEW b \in InScope(q), NEW n \in DOMAIN movements
               PROVE  n \in lossesIn(Scoped(q, b)) <=> n \in LostIn(q) /\ businessOfRow(movements[n]) = b
    BY DEF lossesIn, LostIn
  <2>1. n \in lossesIn(Scoped(q, b))
          <=> /\ movements[n].branchId \in Scoped(q, b).branchIds
              /\ IsLoss(n)
              /\ InWindow(movements[n].createdAt, Scoped(q, b).window)
    <3> DEFINE s == Scoped(q, b)
    <3> HIDE DEF s
    <3>1. IsLoss(n) => movements[n].reason # Null
      BY <1>1
    <3>2. n \in lossesIn(s) <=> /\ movements[n].branchId \in s.branchIds /\ IsLoss(n)
                               /\ movements[n].reason # Null /\ InWindow(movements[n].createdAt, s.window)
      BY DEF lossesIn, IsLoss
    <3> QED BY <3>1, <3>2 DEF s
  <2> QED BY <1>3, <2>1 DEF LostIn, bucketOf
<1>5. \A n \in LostIn(q) : businessOfRow(movements[n]) \in InScope(q)
  BY <1>3 DEF LostIn
<1>6. LostIn(q) \in SUBSET (DOMAIN movements)
  BY DEF LostIn
<1> QED BY <1>4, <1>5, <1>6

(* What one business reports of its losses of a reason.                        *)
LEMMA ReasonOfDesk ==
  ASSUME Tables, NEW b, NEW r \in DOMAIN shrinkageSql(b)
  PROVE  LET S == ForReason(lossesIn(b), r)
             row == shrinkageSql(b)[r]
         IN /\ S \in SUBSET (DOMAIN movements)
            /\ row.units = Total(Lost(S)) /\ row.uncostedUnits = Total(Unvalued(S))
            /\ row.valueC = Total(Valued(S))
            /\ row.costedRows = 0 <=> \A n \in S : lossCost(n) = Null
            /\ row.units \in Int /\ row.uncostedUnits \in Int /\ row.valueC \in Int
<1> DEFINE S == ForReason(lossesIn(b), r)
           costed == {n \in S : lossCost(n) # Null}
           row == shrinkageSql(b)[r]
<1>1. S \in SUBSET (DOMAIN movements)
  BY DEF lossesIn, ForReason
<1>2. row = [units |-> unitsLost(S), costedRows |-> Cardinality(costed),
             valueC |-> SumOf(costed, LAMBDA n : halfUp(-movements[n].qtyDelta * lossCost(n), 1000)),
             uncostedUnits |-> unitsLost(S \ costed)]
  BY DEF shrinkageSql, ForReason
<1> DEFINE value == SumOf(costed, LAMBDA n : halfUp(-movements[n].qtyDelta * lossCost(n), 1000))
<1>a. row.units = unitsLost(S) /\ row.uncostedUnits = unitsLost(S \ costed) /\ row.valueC = value
      /\ row.costedRows = Cardinality(costed)
  <2> HIDE DEF value, S, costed, row
  <2> QED BY <1>2 DEF value
<1> HIDE DEF row
<1>3. row.units = Total(Lost(S))
  <2>1. unitsLost(S) = Total(Lost(S))
    BY Zenon DEF unitsLost, SumOf, Lost
  <2> QED BY <1>a, <2>1
<1>4. row.uncostedUnits = Total(Lost(S \ costed))
  <2>1. unitsLost(S \ costed) = Total(Lost(S \ costed))
    BY Zenon DEF unitsLost, SumOf, Lost
  <2> QED BY <1>a, <2>1
<1>5. row.valueC = Total([n \in costed |-> halfUp(-movements[n].qtyDelta * lossCost(n), 1000)])
  <2>1. value = Total([n \in costed |-> halfUp(-movements[n].qtyDelta * lossCost(n), 1000)])
    BY Zenon DEF SumOf
  <2> HIDE DEF value
  <2> QED BY <1>a, <2>1
<1> HIDE DEF S
<1>6. IsFiniteSet(S) /\ Lost(S) \in [S -> Int] /\ Unvalued(S) \in [S -> Int] /\ Valued(S) \in [S -> Int]
  BY <1>1, LossColumns
<1>7. Lost(S \ costed) = Restrict(Unvalued(S), S \ costed) /\ \A n \in S \ (S \ costed) : Unvalued(S)[n] = 0
  BY DEF Lost, Unvalued, Restrict
<1>8. [n \in costed |-> halfUp(-movements[n].qtyDelta * lossCost(n), 1000)] = Restrict(Valued(S), costed)
      /\ \A n \in S \ costed : Valued(S)[n] = 0
  BY DEF Valued, Restrict
<1>9. costed \in SUBSET S /\ S \ costed \in SUBSET S
  OBVIOUS
<1>10. row.costedRows = Cardinality(costed)
  BY <1>a
<1> HIDE DEF costed
<1>11. Total(Restrict(Unvalued(S), S \ costed)) = Total(Unvalued(S))
  BY <1>6, <1>7, <1>9, SumWithoutZeros
<1>12. Total(Restrict(Valued(S), costed)) = Total(Valued(S))
  BY <1>6, <1>8, <1>9, SumWithoutZeros
<1>13. row.costedRows = 0 <=> costed = {}
  BY <1>6, <1>9, <1>10, FS_Subset, FS_EmptySet
<1>14. Total(Lost(S)) \in Int /\ Total(Unvalued(S)) \in Int /\ Total(Valued(S)) \in Int
  BY <1>6, SumType
<1> QED BY <1>1, <1>3, <1>4, <1>5, <1>7, <1>8, <1>11, <1>12, <1>13, <1>14 DEF S, costed, row

(* The shrinkage report: its rows are the reasons something was lost for.      *)
Reported(row, S) ==
  /\ row.units = Total(Lost(S)) /\ row.uncostedUnits = Total(Unvalued(S))
  /\ valueOr0(row) = Total(Valued(S))
  /\ row.valueC = Null <=> \A n \in S : lossCost(n) = Null
  /\ row.units \in Int /\ row.uncostedUnits \in Int /\ valueOr0(row) \in Int

LEMMA ShrinkageIs ==
  ASSUME Tables, NEW q \in Asks
  PROVE  /\ DOMAIN shrinkage(q) = {movements[n].reason : n \in LostIn(q)}
         /\ \A r \in DOMAIN shrinkage(q) : Reported(shrinkage(q)[r], ForReason(LostIn(q), r))
<1> DEFINE R == resolve(q)
           of == [b \in R |-> shrinkageSql(b)]
           having(r) == {b \in DOMAIN of : r \in DOMAIN of[b]}
           deskOf(n) == Scoped(q, businessOfRow(movements[n]))
           rowOf(r) == [units |-> SumOf(having(r), LAMBDA b : of[b][r].units),
                        valueC |-> IF \A b \in having(r) : of[b][r].costedRows = 0 THEN Null
                                   ELSE SumOf(having(r), LAMBDA b : of[b][r].valueC),
                        uncostedUnits |-> SumOf(having(r), LAMBDA b : of[b][r].uncostedUnits)]
<1>1. shrinkage(q) = [r \in UNION {DOMAIN of[b] : b \in DOMAIN of} |-> rowOf(r)]
  BY DEF shrinkage
<1>2. /\ IsFiniteSet(R) /\ \A b \in R : b = Scoped(q, b.id) /\ b.id \in InScope(q)
      /\ \A b \in InScope(q) : Scoped(q, b) \in R /\ Scoped(q, b).id = b
  BY ScopeIsEachOnce DEF Scoped
<1>3. /\ LostIn(q) \in SUBSET (DOMAIN movements)
      /\ \A b \in R : lossesIn(b) = {n \in LostIn(q) : businessOfRow(movements[n]) = b.id}
      /\ \A n \in LostIn(q) : deskOf(n) \in R
  BY <1>2, LossesOfDesk
<1>4. \A n \in LostIn(q), b \in R : n \in lossesIn(b) <=> b = deskOf(n)
  BY <1>2, <1>3, LossesOfDesk
<1>5. /\ DOMAIN of = R
      /\ \A b \in R : of[b] = shrinkageSql(b) /\ DOMAIN of[b] = {movements[n].reason : n \in lossesIn(b)}
  BY DEF shrinkageSql
<1> HIDE DEF R, of, deskOf, rowOf
<1>6. UNION {DOMAIN of[b] : b \in DOMAIN of} = {movements[n].reason : n \in LostIn(q)}
  BY <1>3, <1>4, <1>5
<1>7. DOMAIN shrinkage(q) = {movements[n].reason : n \in LostIn(q)}
      /\ \A r \in DOMAIN shrinkage(q) : shrinkage(q)[r] = rowOf(r)
  BY <1>1, <1>6
<1>8. ASSUME NEW r \in DOMAIN shrinkage(q) PROVE Reported(rowOf(r), ForReason(LostIn(q), r))
  <2> DEFINE S == ForReason(LostIn(q), r)
             K == having(r)
             key == [n \in S |-> deskOf(n)]
             lost == [b \in K |-> of[b][r].units]
             unvalued == [b \in K |-> of[b][r].uncostedUnits]
             valued == [b \in K |-> of[b][r].valueC]
             row == rowOf(r)
  <2>1. /\ row.units = Total(lost) /\ row.uncostedUnits = Total(unvalued)
        /\ row.valueC = IF \A b \in K : of[b][r].costedRows = 0 THEN Null ELSE Total(valued)
    <3>1. /\ SumOf(having(r), LAMBDA b : of[b][r].units) = Total(lost)
          /\ SumOf(having(r), LAMBDA b : of[b][r].uncostedUnits) = Total(unvalued)
          /\ SumOf(having(r), LAMBDA b : of[b][r].valueC) = Total(valued)
      BY Zenon DEF SumOf
    <3> DEFINE l == SumOf(having(r), LAMBDA b : of[b][r].units)
               u == SumOf(having(r), LAMBDA b : of[b][r].uncostedUnits)
               v == SumOf(having(r), LAMBDA b : of[b][r].valueC)
    <3>2. row = [units |-> l, valueC |-> IF \A b \in K : of[b][r].costedRows = 0 THEN Null ELSE v,
                 uncostedUnits |-> u]
      BY Zenon DEF rowOf
    <3> HIDE DEF l, u, v, lost, unvalued, valued, row, K
    <3>3. row.units = l /\ row.uncostedUnits = u
          /\ row.valueC = IF \A b \in K : of[b][r].costedRows = 0 THEN Null ELSE v
      BY <3>2
    <3>4. l = Total(lost) /\ u = Total(unvalued) /\ v = Total(valued)
      BY <3>1, Zenon DEF l, u, v
    <3> QED BY <3>3, <3>4
  <2>2. /\ S \in SUBSET (DOMAIN movements) /\ K \in SUBSET R /\ IsFiniteSet(K)
        /\ \A b \in K : of[b] = shrinkageSql(b) /\ r \in DOMAIN shrinkageSql(b)
    BY <1>2, <1>3, <1>5, FS_Subset DEF ForReason
  <2>3. /\ key \in [S -> K]
        /\ \A b \in K : {n \in S : key[n] = b} = ForReason(lossesIn(b), r)
    <3>1. \A n \in S : deskOf(n) \in K
      BY <1>3, <1>4, <1>5 DEF ForReason
    <3>2. \A b \in K : \A n : n \in ForReason(lossesIn(b), r) <=> n \in S /\ deskOf(n) = b
      BY <1>3, <1>4, <2>2 DEF ForReason
    <3> HIDE DEF S, K
    <3> QED BY <3>1, <3>2
  <2>4. \A b \in K : LET T == ForReason(lossesIn(b), r)
                     IN /\ of[b][r].units = Total(Lost(T)) /\ of[b][r].uncostedUnits = Total(Unvalued(T))
                        /\ of[b][r].valueC = Total(Valued(T))
                        /\ of[b][r].costedRows = 0 <=> \A n \in T : lossCost(n) = Null
                        /\ of[b][r].units \in Int /\ of[b][r].uncostedUnits \in Int /\ of[b][r].valueC \in Int
    BY <2>2, ReasonOfDesk
  <2> HIDE DEF row, S, K
  <2>5. lost \in [K -> Int] /\ unvalued \in [K -> Int] /\ valued \in [K -> Int]
    BY <2>4
  <2>6. SortedBy(S, K, key, lost, unvalued, valued)
    BY <2>3, <2>4 DEF SortedBy
  <2> HIDE DEF key, lost, unvalued, valued
  <2>7. /\ Total(lost) = Total(Lost(S)) /\ Total(unvalued) = Total(Unvalued(S))
        /\ Total(valued) = Total(Valued(S))
    BY <2>2, <2>3, <2>5, <2>6, LossesByKey
  <2>8. /\ IsFiniteSet(S) /\ Lost(S) \in [S -> Int] /\ Unvalued(S) \in [S -> Int] /\ Valued(S) \in [S -> Int]
    BY <2>2, LossColumns
  <2>9. Total(Lost(S)) \in Int /\ Total(Unvalued(S)) \in Int /\ Total(Valued(S)) \in Int
    BY <2>8, SumType
  <2>10. (\A b \in K : of[b][r].costedRows = 0) <=> \A n \in S : lossCost(n) = Null
    <3>1. \A n \in S : key[n] \in K /\ n \in ForReason(lossesIn(key[n]), r)
      BY <2>3
    <3>2. \A b \in K : \A n \in ForReason(lossesIn(b), r) : n \in S
      BY <2>3
    <3> QED BY <2>4, <3>1, <3>2
  <2>11. (\A n \in S : lossCost(n) = Null) => Total(Valued(S)) = 0
    <3> SUFFICES ASSUME \A n \in S : lossCost(n) = Null PROVE Total(Valued(S)) = 0
      OBVIOUS
    <3>1. Valued(S) \in [S -> {0}]
      BY DEF Valued
    <3> QED BY <2>8, <3>1, SumZero
  <2>12. Null \notin Int
    BY NullAssumption
  <2> QED BY <2>1, <2>7, <2>9, <2>10, <2>11, <2>12 DEF Reported, valueOr0, S, row
<1> QED BY <1>7, <1>8

(* All of some losses' units are without a cost when none of them has one.     *)
LEMMA AllUncosted ==
  ASSUME Tables, NEW S \in SUBSET (DOMAIN movements), \A n \in S : movements[n].qtyDelta < 0
  PROVE  Total(Lost(S)) = Total(Unvalued(S)) <=> \A n \in S : lossCost(n) = Null
<1> DEFINE f == Lost(S)
           g == Unvalued(S)
           d == [n \in S |-> IF lossCost(n) = Null THEN 0 ELSE -movements[n].qtyDelta]
<1>1. IsFiniteSet(S) /\ f \in [S -> Int] /\ g \in [S -> Int]
  BY LossColumns
<1>2. \A n \in S : movements[n].qtyDelta \in Int /\ movements[n].qtyDelta < 0
  BY MovementsTyped DEF Tables, Ledger
<1>3. d \in [S -> Nat] /\ d \in [S -> Int] /\ \A n \in S : lossCost(n) # Null => d[n] > 0
  BY <1>2
<1>4. \A n \in S : f[n] = g[n] + d[n]
  BY <1>2 DEF Lost, Unvalued
<1>5. (\A n \in S : lossCost(n) = Null) => f = g
  BY DEF Lost, Unvalued
<1> HIDE DEF f, g, d
<1>6. Total(f) = Total(g) + Total(d)
  BY <1>1, <1>3, <1>4, SumPlus DEF AddsUp
<1>7. Total(f) \in Int /\ Total(g) \in Int /\ Total(d) \in Int
  BY <1>1, <1>3, SumType
<1>8. ASSUME NEW n \in S, lossCost(n) # Null PROVE Total(d) > 0
  <2> DEFINE e == Restrict(d, S \ {n})
  <2>1. Total(d) = d[n] + Total(e)
    BY <1>1, <1>3, SumRemove
  <2>2. e \in [S \ {n} -> Nat] /\ IsFiniteSet(S \ {n})
    BY <1>1, <1>3, FS_Subset DEF Restrict
  <2> HIDE DEF e
  <2>3. Total(e) \in Nat
    BY <2>2, SumNatural
  <2> QED BY <1>3, <1>8, <2>1, <2>3
<1> QED BY <1>5, <1>6, <1>7, <1>8 DEF f, g

LEMMA DayEdits ==
  ASSUME NEW q \in Asks, NEW d \in Int
  PROVE  /\ onDay(q, d) \in Asks /\ onDay(q, d).from = d /\ onDay(q, d).to = d
         /\ \A br : Reached(onDay(q, d), br) <=> Reached(q, br)
<1>1. /\ onDay(q, d) \in Asks /\ onDay(q, d).from = d /\ onDay(q, d).to = d
      /\ onDay(q, d).business = q.business /\ onDay(q, d).branch = q.branch
  BY DEF Asks, onDay
<1> QED BY <1>1 DEF Reached, chosen

LEMMA LossesByDay ==
  ASSUME Tables, NEW q \in Asks
  PROVE  LET days == [d \in q.from .. q.to |-> shrinkage(onDay(q, d))]
             whole == shrinkage(q)
             on(r) == {d \in DOMAIN days : r \in DOMAIN days[d]}
         IN /\ DOMAIN whole = UNION {DOMAIN days[d] : d \in DOMAIN days}
            /\ \A r \in DOMAIN whole :
                 /\ whole[r].units = SumOf(on(r), LAMBDA d : days[d][r].units)
                 /\ whole[r].uncostedUnits = SumOf(on(r), LAMBDA d : days[d][r].uncostedUnits)
                 /\ valueOr0(whole[r]) = SumOf(on(r), LAMBDA d : valueOr0(days[d][r]))
                 /\ whole[r].valueC = Null <=> whole[r].units = whole[r].uncostedUnits
<1> DEFINE D == q.from .. q.to
           days == [d \in D |-> shrinkage(onDay(q, d))]
           whole == shrinkage(q)
           on(r) == {d \in DOMAIN days : r \in DOMAIN days[d]}
<1>1. q.from \in Int /\ q.to \in Int /\ IsFiniteSet(D) /\ \A d \in D : d \in Int
  <2>1. q.from \in Int /\ q.to \in Int
    BY DEF Asks
  <2> QED BY <2>1, FS_Interval
<1>2. \A d \in D : /\ DOMAIN days[d] = {movements[n].reason : n \in LostIn(onDay(q, d))}
                   /\ \A r \in DOMAIN days[d] : Reported(days[d][r], ForReason(LostIn(onDay(q, d)), r))
  BY <1>1, DayEdits, ShrinkageIs
<1>3. /\ DOMAIN whole = {movements[n].reason : n \in LostIn(q)}
      /\ \A r \in DOMAIN whole : Reported(whole[r], ForReason(LostIn(q), r))
  BY ShrinkageIs
<1>4. \A d \in D : \A n : n \in LostIn(onDay(q, d)) <=> n \in LostIn(q) /\ bucketOf(n) = d
  <2>1. \A d \in D : \A n : bucketOf(n) \in d .. d <=> bucketOf(n) = d
    BY <1>1
  <2>2. ASSUME NEW d \in D, NEW n PROVE n \in LostIn(onDay(q, d)) <=> n \in LostIn(q) /\ bucketOf(n) = d
    <3>1. n \in LostIn(onDay(q, d)) <=> /\ n \in DOMAIN movements /\ IsLoss(n) /\ Reached(q, movements[n].branchId)
                                        /\ bucketOf(n) = d
      BY <1>1, <2>1, DayEdits DEF LostIn
    <3> QED BY <3>1 DEF LostIn
  <2> QED BY <2>2
<1>5. LostIn(q) \in SUBSET (DOMAIN movements) /\ \A n \in LostIn(q) : bucketOf(n) \in D
  BY DEF LostIn
<1>6. DOMAIN days = D
  OBVIOUS
<1> HIDE DEF D, days, whole
<1>7. DOMAIN whole = UNION {DOMAIN days[d] : d \in DOMAIN days}
  BY <1>2, <1>3, <1>4, <1>5, <1>6
<1>8. ASSUME NEW r \in DOMAIN whole
      PROVE  /\ whole[r].units = SumOf(on(r), LAMBDA d : days[d][r].units)
             /\ whole[r].uncostedUnits = SumOf(on(r), LAMBDA d : days[d][r].uncostedUnits)
             /\ valueOr0(whole[r]) = SumOf(on(r), LAMBDA d : valueOr0(days[d][r]))
             /\ whole[r].valueC = Null <=> whole[r].units = whole[r].uncostedUnits
  <2> DEFINE S == ForReason(LostIn(q), r)
             K == on(r)
             key == [n \in S |-> bucketOf(n)]
             lost == [d \in K |-> days[d][r].units]
             unvalued == [d \in K |-> days[d][r].uncostedUnits]
             valued == [d \in K |-> valueOr0(days[d][r])]
  <2>1. /\ SumOf(on(r), LAMBDA d : days[d][r].units) = Total(lost)
        /\ SumOf(on(r), LAMBDA d : days[d][r].uncostedUnits) = Total(unvalued)
        /\ SumOf(on(r), LAMBDA d : valueOr0(days[d][r])) = Total(valued)
    BY Zenon DEF SumOf
  <2>2. S \in SUBSET (DOMAIN movements) /\ K \in SUBSET D /\ IsFiniteSet(K)
        /\ \A n \in S : movements[n].qtyDelta < 0
    BY <1>1, <1>5, <1>6, FS_Subset DEF ForReason, LostIn, IsLoss
  <2>3. /\ key \in [S -> K]
        /\ \A d \in K : {n \in S : key[n] = d} = ForReason(LostIn(onDay(q, d)), r)
    <3>1. \A n \in S : bucketOf(n) \in K
      BY <1>2, <1>4, <1>5, <1>6 DEF ForReason
    <3>2. \A d \in K : \A n : n \in ForReason(LostIn(onDay(q, d)), r) <=> n \in S /\ bucketOf(n) = d
      BY <1>4, <2>2 DEF ForReason
    <3> HIDE DEF S, K
    <3> QED BY <3>1, <3>2
  <2>4. \A d \in K : Reported(days[d][r], ForReason(LostIn(onDay(q, d)), r))
    BY <1>2, <1>6
  <2>5. Reported(whole[r], S)
    BY <1>3
  <2> HIDE DEF S, K
  <2>6. lost \in [K -> Int] /\ unvalued \in [K -> Int] /\ valued \in [K -> Int]
    BY <2>4 DEF Reported
  <2>7. SortedBy(S, K, key, lost, unvalued, valued)
    BY <2>3, <2>4 DEF SortedBy, Reported
  <2> HIDE DEF key, lost, unvalued, valued
  <2>8. /\ Total(lost) = Total(Lost(S)) /\ Total(unvalued) = Total(Unvalued(S))
        /\ Total(valued) = Total(Valued(S))
    BY <2>2, <2>3, <2>6, <2>7, LossesByKey
  <2>9. whole[r].valueC = Null <=> whole[r].units = whole[r].uncostedUnits
    BY <2>2, <2>5, AllUncosted DEF Reported
  <2>10. whole[r].units = Total(lost) /\ whole[r].uncostedUnits = Total(unvalued)
         /\ valueOr0(whole[r]) = Total(valued)
    BY <2>5, <2>8 DEF Reported
  <2> HIDE DEF on
  <2> QED BY <2>1, <2>9, <2>10, Zenon
<1> QED BY <1>7, <1>8, Zenon DEF D, days, whole

LEMMA LostInWholeTime ==
  ASSUME Tables, NEW biz \in DOMAIN Always
  PROVE  LostIn(Always[biz]) =
           {n \in DOMAIN movements : IsLoss(n) /\ businessOfRow(movements[n]) = biz}
<1> DEFINE q == Always[biz]
<1>1. \A n \in DOMAIN movements : movements[n].branchId \in Branches /\ movements[n].createdAt \in Instants
  BY MovementsTyped DEF Tables, Ledger
<1>2. /\ \A br \in Branches : Reached(q, br) <=> BusinessOf[br] = biz
      /\ \A t \in Instants : dayBucket(t, DayStart[biz]) \in q.from .. q.to
  BY WholeTime
<1> HIDE DEF q
<1>3. \A n \in DOMAIN movements : Reached(q, movements[n].branchId) <=> businessOfRow(movements[n]) = biz
  BY <1>1, <1>2 DEF businessOfRow
<1>4. \A n \in DOMAIN movements : businessOfRow(movements[n]) = biz => bucketOf(n) \in q.from .. q.to
  BY <1>1, <1>2 DEF bucketOf
<1> QED BY <1>3, <1>4 DEF LostIn, q

(* One row of the stock page for each shelf of a product that is not trashed.  *)
ShelvesOf(biz) == {k \in DOMAIN levels : BusinessOf[k[1]] = biz /\ k[2] \notin trashed}
StockRow(b, k) ==
  [key |-> k, qty |-> levels[k], unitCostC |-> unitCost(k), valueC |-> valuationC(levels[k], unitCost(k)),
   isLow |-> isLow(levels[k], lowStockThreshold[k[2]]), unitsSold |-> unitsSold(b, k)]

LEMMA OnHandRows ==
  ASSUME Tables, NEW biz \in DOMAIN Always
  PROVE  LET q == Always[biz]
             rows == onHand(q).rows
         IN /\ \A r : r \in rows <=> \E k \in ShelvesOf(biz) : r = StockRow(Scoped(q, biz), k)
            /\ \A b \in resolve(q) : b = Scoped(q, biz) /\ onHandKeys(b) = ShelvesOf(biz)
<1> DEFINE q == Always[biz]
<1>1. /\ q \in Asks /\ InScope(q) \subseteq {biz}
      /\ \A br \in Branches : Reached(q, br) <=> BusinessOf[br] = biz
  BY WholeTime
<1> HIDE DEF q
<1>2. resolve(q) = {Scoped(q, b) : b \in InScope(q)}
  BY <1>1, ScopeIsEachOnce
<1>3. \A k \in DOMAIN levels : k[1] \in Branches
  BY DEF Tables, Shelf, Keys
<1>4. \A br \in Branches : /\ BusinessOf[br] = biz => biz \in InScope(q)
                           /\ biz \in InScope(q) => (br \in Scoped(q, biz).branchIds <=> BusinessOf[br] = biz)
  <2>1. PICK t \in Int : TRUE
    OBVIOUS
  <2> QED BY <1>1, ScopeReaches
<1>5. biz \in InScope(q) => onHandKeys(Scoped(q, biz)) = ShelvesOf(biz)
  BY <1>3, <1>4 DEF onHandKeys, ShelvesOf
<1>6. ShelvesOf(biz) # {} => biz \in InScope(q)
  BY <1>3, <1>4 DEF ShelvesOf
<1>7. \A b : onHandSql(b) = {StockRow(b, k) : k \in onHandKeys(b)}
  BY DEF onHandSql, StockRow
<1>8. onHand(q).rows = UNION {onHandSql(b) : b \in resolve(q)}
  BY DEF onHand
<1>9. \A b \in resolve(q) : b = Scoped(q, biz) /\ biz \in InScope(q)
  BY <1>1, <1>2
<1>10. biz \in InScope(q) => Scoped(q, biz) \in resolve(q)
  BY <1>2
<1>11. \A r : r \in onHand(q).rows <=> \E k \in ShelvesOf(biz) : r = StockRow(Scoped(q, biz), k)
  BY <1>5, <1>6, <1>7, <1>8, <1>9, <1>10
<1> QED BY <1>5, <1>9, <1>11 DEF q

(* What is lost off one shelf is valued at the cost of the shelf.              *)
LEMMA LossesOffShelf ==
  ASSUME Tables, NEW k \in DOMAIN levels
  PROVE  LET S == lossesOf(k)
             at == lossesAt(S, unitCost(k))
         IN /\ S \in SUBSET (DOMAIN movements)
            /\ at.valueC = Total(Valued(S)) /\ at.uncostedUnits = Total(Unvalued(S))
<1> DEFINE S == lossesOf(k)
           at == lossesAt(S, unitCost(k))
<1>1. S \in SUBSET (DOMAIN movements)
  BY DEF lossesOf
<1>2. \A n \in S : lossCost(n) = unitCost(k)
  BY DEF lossesOf, lossCost, unitCost, keyOf
<1> HIDE DEF S
<1>3. /\ IsFiniteSet(S) /\ Valued(S) \in [S -> Int] /\ Unvalued(S) \in [S -> Int]
  BY <1>1, LossColumns
<1> DEFINE values == SumOf(S, LAMBDA n : halfUp(-movements[n].qtyDelta * unitCost(k), 1000))
<1>4. values = Total([n \in S |-> halfUp(-movements[n].qtyDelta * unitCost(k), 1000)])
      /\ unitsLost(S) = Total(Lost(S))
  BY Zenon DEF SumOf, unitsLost, Lost
<1>5. at = [valueC |-> IF unitCost(k) = Null THEN 0 ELSE values,
            uncostedUnits |-> IF unitCost(k) = Null THEN unitsLost(S) ELSE 0]
  BY Zenon DEF lossesAt
<1> HIDE DEF at, values
<1>6. CASE unitCost(k) = Null
  <2>1. at.valueC = 0 /\ at.uncostedUnits = Total(Lost(S))
    BY <1>4, <1>5, <1>6
  <2>2. Valued(S) \in [S -> {0}] /\ Unvalued(S) = Lost(S)
    BY <1>2, <1>6 DEF Valued, Unvalued, Lost
  <2>3. Total(Valued(S)) = 0
    BY <1>3, <2>2, SumZero
  <2> QED BY <1>1, <2>1, <2>2, <2>3 DEF S, at
<1>7. CASE unitCost(k) # Null
  <2>1. at.valueC = values /\ at.uncostedUnits = 0
    BY <1>5, <1>7
  <2>2. Unvalued(S) \in [S -> {0}]
    BY <1>2, <1>7 DEF Unvalued
  <2>3. Valued(S) = [n \in S |-> halfUp(-movements[n].qtyDelta * unitCost(k), 1000)]
    BY <1>2, <1>7 DEF Valued
  <2>4. Total(Unvalued(S)) = 0
    BY <1>3, <2>2, SumZero
  <2> QED BY <1>1, <1>4, <2>1, <2>3, <2>4 DEF S, at
<1> QED BY <1>6, <1>7

LEMMA LossesByReason ==
  ASSUME Tables, NEW q \in Asks
  PROVE  LET lost == shrinkage(q)
             S == LostIn(q)
         IN /\ SumOf(DOMAIN lost, LAMBDA r : valueOr0(lost[r])) = Total(Valued(S))
            /\ SumOf(DOMAIN lost, LAMBDA r : lost[r].uncostedUnits) = Total(Unvalued(S))
<1> DEFINE lost == shrinkage(q)
           S == LostIn(q)
           K == DOMAIN lost
           key == [n \in S |-> movements[n].reason]
           units == [r \in K |-> lost[r].units]
           unvalued == [r \in K |-> lost[r].uncostedUnits]
           valued == [r \in K |-> valueOr0(lost[r])]
<1>1. /\ SumOf(DOMAIN lost, LAMBDA r : valueOr0(lost[r])) = Total(valued)
      /\ SumOf(DOMAIN lost, LAMBDA r : lost[r].uncostedUnits) = Total(unvalued)
  BY Zenon DEF SumOf
<1>2. S \in SUBSET (DOMAIN movements)
  BY DEF LostIn
<1>3. K = {movements[n].reason : n \in S} /\ \A r \in K : Reported(lost[r], ForReason(S, r))
  BY ShrinkageIs
<1> HIDE DEF lost, S, K
<1>4. key \in [S -> K] /\ \A r \in K : {n \in S : key[n] = r} = ForReason(S, r)
  BY <1>3 DEF ForReason
<1>5. IsFiniteSet(K)
  <2>1. IsFiniteSet(S)
    BY <1>2, LossColumns
  <2>2. DOMAIN key = S /\ K = {key[n] : n \in S}
    BY <1>3
  <2> HIDE DEF key
  <2> QED BY <2>1, <2>2, ImageFinite
<1>6. units \in [K -> Int] /\ unvalued \in [K -> Int] /\ valued \in [K -> Int]
  BY <1>3 DEF Reported
<1>7. SortedBy(S, K, key, units, unvalued, valued)
  BY <1>3, <1>4 DEF SortedBy, Reported
<1> HIDE DEF key, units, unvalued, valued
<1>8. Total(valued) = Total(Valued(S)) /\ Total(unvalued) = Total(Unvalued(S))
  BY <1>2, <1>4, <1>5, <1>6, <1>7, LossesByKey
<1> QED BY <1>1, <1>8, Zenon DEF lost, S

LEMMA LossesByShelf ==
  ASSUME Tables, NEW biz \in DOMAIN Always
  PROVE  LET shown == {[key |-> r.key, costC |-> r.unitCostC] : r \in onHand(Always[biz]).rows}
             hidden == {[key |-> k, costC |-> unitCost(k)] :
                          k \in {j \in DOMAIN levels : BusinessOf[j[1]] = biz /\ j[2] \in trashed}}
             priced(r) == lossesAt(lossesOf(r.key), r.costC)
             S == LostIn(Always[biz])
         IN /\ SumOf(shown \cup hidden, LAMBDA r : priced(r).valueC) = Total(Valued(S))
            /\ SumOf(shown \cup hidden, LAMBDA r : priced(r).uncostedUnits) = Total(Unvalued(S))
<1> DEFINE rows == onHand(Always[biz]).rows
           shown == {[key |-> r.key, costC |-> r.unitCostC] : r \in rows}
           hidden == {[key |-> k, costC |-> unitCost(k)] :
                        k \in {j \in DOMAIN levels : BusinessOf[j[1]] = biz /\ j[2] \in trashed}}
           priced(r) == lossesAt(lossesOf(r.key), r.costC)
           S == LostIn(Always[biz])
           K == {k \in DOMAIN levels : BusinessOf[k[1]] = biz}
           P == shown \cup hidden
           price(k) == [key |-> k, costC |-> unitCost(k)]
           name == [k \in K |-> price(k)]
           key == [n \in S |-> keyOf(movements[n].branchId, movements[n])]
           units == [k \in K |-> Total(Lost(lossesOf(k)))]
           unvalued == [k \in K |-> lossesAt(lossesOf(k), unitCost(k)).uncostedUnits]
           valued == [k \in K |-> lossesAt(lossesOf(k), unitCost(k)).valueC]
           unvaluedOf == [r \in P |-> priced(r).uncostedUnits]
           valuedOf == [r \in P |-> priced(r).valueC]
<1>1. /\ SumOf(shown \cup hidden, LAMBDA r : priced(r).valueC) = Total(valuedOf)
      /\ SumOf(shown \cup hidden, LAMBDA r : priced(r).uncostedUnits) = Total(unvaluedOf)
  BY Zenon DEF SumOf
<1>2. \A r : r \in rows <=> \E k \in ShelvesOf(biz) : r = StockRow(Scoped(Always[biz], biz), k)
  BY OnHandRows
<1>3. IsFiniteSet(K) /\ K \in SUBSET (DOMAIN levels) /\ \A k \in DOMAIN levels : k[1] \in Branches
  BY FS_Subset DEF Tables, Shelf, Keys
<1>4. P = {price(k) : k \in K}
  <2> DEFINE w == Scoped(Always[biz], biz)
  <2>1. \A k : StockRow(w, k).key = k /\ StockRow(w, k).unitCostC = unitCost(k)
    BY DEF StockRow
  <2> HIDE DEF w, rows
  <2>2. \A r \in rows : r.key \in ShelvesOf(biz) /\ r.unitCostC = unitCost(r.key)
    BY <1>2, <2>1 DEF w
  <2>3. \A k \in ShelvesOf(biz) : \E r \in rows : r.key = k /\ r.unitCostC = unitCost(k)
    BY <1>2, <2>1 DEF w
  <2>4. \A x : x \in shown <=> \E k \in ShelvesOf(biz) : x = price(k)
    <3> DEFINE cell(r) == [key |-> r.key, costC |-> r.unitCostC]
    <3>1. \A r \in rows : \E k \in ShelvesOf(biz) : cell(r) = price(k)
      BY <2>2
    <3>2. \A k \in ShelvesOf(biz) : \E r \in rows : cell(r) = price(k)
      BY <2>3
    <3>3. \A x : x \in shown <=> \E r \in rows : x = cell(r)
      OBVIOUS
    <3> HIDE DEF cell, price, shown
    <3> QED BY <3>1, <3>2, <3>3
  <2>5. \A x : x \in hidden <=> \E k \in K : k[2] \in trashed /\ x = price(k)
    OBVIOUS
  <2>6. \A k : k \in ShelvesOf(biz) <=> k \in K /\ k[2] \notin trashed
    BY DEF ShelvesOf
  <2> HIDE DEF shown, hidden, price, K
  <2> QED BY <2>4, <2>5, <2>6
<1>5. \A k \in K : priced(price(k)) = lossesAt(lossesOf(k), unitCost(k)) /\ price(k).key = k
  OBVIOUS
<1>6. \A k \in K : LET at == lossesAt(lossesOf(k), unitCost(k))
                   IN /\ lossesOf(k) \in SUBSET (DOMAIN movements)
                      /\ at.valueC = Total(Valued(lossesOf(k)))
                      /\ at.uncostedUnits = Total(Unvalued(lossesOf(k)))
  BY <1>3, LossesOffShelf
<1>7. \A k \in K : /\ Total(Lost(lossesOf(k))) \in Int /\ Total(Unvalued(lossesOf(k))) \in Int
                   /\ Total(Valued(lossesOf(k))) \in Int
  BY <1>6, LossColumns, SumType
<1>8. /\ S \in SUBSET (DOMAIN movements) /\ key \in [S -> K]
      /\ \A k \in K : {n \in S : key[n] = k} = lossesOf(k)
  <2>1. S = {n \in DOMAIN movements : IsLoss(n) /\ businessOfRow(movements[n]) = biz}
    BY LostInWholeTime
  <2>2. \A n \in DOMAIN movements :
          /\ keyOf(movements[n].branchId, movements[n]) \in DOMAIN levels
          /\ keyOf(movements[n].branchId, movements[n])[1] = movements[n].branchId
    BY DEF Tables, Ledger, keyOf
  <2>3. \A n \in DOMAIN movements :
          businessOfRow(movements[n]) = biz <=> keyOf(movements[n].branchId, movements[n]) \in K
    BY <2>2 DEF businessOfRow
  <2>4. \A k : lossesOf(k) = {n \in DOMAIN movements : /\ keyOf(movements[n].branchId, movements[n]) = k
                                                      /\ IsLoss(n)}
    BY DEF lossesOf, IsLoss
  <2> HIDE DEF K, S
  <2>5. key \in [S -> K] /\ S \in SUBSET (DOMAIN movements)
    BY <2>1, <2>3
  <2>6. ASSUME NEW k \in K PROVE {n \in S : key[n] = k} = lossesOf(k)
    BY <2>1, <2>3, <2>4
  <2> QED BY <2>5, <2>6
<1> HIDE DEF P, S, K, priced, price, key
<1>9. units \in [K -> Int] /\ unvalued \in [K -> Int] /\ valued \in [K -> Int]
  BY <1>6, <1>7
<1>10. SortedBy(S, K, key, units, unvalued, valued)
  BY <1>6, <1>8 DEF SortedBy
<1>11. Total(valued) = Total(Valued(S)) /\ Total(unvalued) = Total(Unvalued(S))
  <2> HIDE DEF units, unvalued, valued
  <2>1. IsFiniteSet(K)
    BY <1>3
  <2>2. S \in SUBSET (DOMAIN movements) /\ key \in [S -> K]
    BY <1>8
  <2> QED BY <1>9, <1>10, <2>1, <2>2, LossesByKey
<1>12. name \in [K -> P] /\ IsFiniteSet(P)
  <2>1. name \in [K -> P] /\ DOMAIN name = K /\ P = {name[k] : k \in K}
    BY <1>4
  <2> HIDE DEF name
  <2> QED BY <1>3, <2>1, ImageFinite
<1>13. /\ valuedOf \in [P -> Int] /\ unvaluedOf \in [P -> Int]
       /\ \A y \in P : \E k \in K : /\ name[k] = y /\ valuedOf[y] = valued[k] /\ unvaluedOf[y] = unvalued[k]
                                    /\ \A j \in K : name[j] = y => j = k
  <2>1. \A k \in K : priced(price(k)).valueC \in Int /\ priced(price(k)).uncostedUnits \in Int
    BY <1>5, <1>6, <1>7
  <2>2. \A y \in P : priced(y).valueC \in Int /\ priced(y).uncostedUnits \in Int
    BY <1>4, <2>1
  <2>3. \A j, k \in K : price(j) = price(k) => j = k
    BY <1>5
  <2>4. ASSUME NEW k \in K
        PROVE  /\ name[k] = price(k) /\ price(k) \in P
               /\ valuedOf[price(k)] = valued[k] /\ unvaluedOf[price(k)] = unvalued[k]
    BY <1>4, <1>5
  <2>5. valuedOf \in [P -> Int] /\ unvaluedOf \in [P -> Int]
    BY <2>2
  <2> HIDE DEF name, valuedOf, valued, unvaluedOf, unvalued
  <2> QED BY <1>4, <2>3, <2>4, <2>5
<1> HIDE DEF name, valuedOf, valued, unvaluedOf, unvalued
<1>14. IsFiniteSet(K)
  BY <1>3
<1>15. Total(valuedOf) = Total(valued)
  <2>1. \A y \in P : \E k \in K : /\ name[k] = y /\ valuedOf[y] = valued[k]
                                  /\ \A j \in K : name[j] = y => j = k
    BY <1>13
  <2>2. valuedOf \in [P -> Int]
    BY <1>13
  <2> QED BY <1>9, <1>12, <1>14, <2>1, <2>2, SumRenamed
<1>16. Total(unvaluedOf) = Total(unvalued)
  <2>1. \A y \in P : \E k \in K : /\ name[k] = y /\ unvaluedOf[y] = unvalued[k]
                                  /\ \A j \in K : name[j] = y => j = k
    BY <1>13
  <2>2. unvaluedOf \in [P -> Int]
    BY <1>13
  <2> QED BY <1>9, <1>12, <1>14, <2>1, <2>2, SumRenamed
<1> QED BY <1>1, <1>11, <1>15, <1>16, Zenon DEF priced, S

(* LossesAccounted of InventoryAgreement: the losses of a range are those of   *)
(* its days, and what a business lost is priced as its shelves are now, in    *)
(* full or as uncosted units.                                                 *)
THEOREM LossesArePricedByShelf == Spec => []LossesAccounted
<1>1. Tables => LossesAccounted
  <2> SUFFICES ASSUME Tables PROVE LossesAccounted
    OBVIOUS
  <2>1. \A q \in Queries : q \in Asks
    BY QueriesAccepted DEF Asks
  <2>2. \A biz \in DOMAIN Always : Always[biz] \in Asks
    BY WholeTime
  <2>3. ASSUME NEW q \in Queries
        PROVE  LET days == [d \in q.from .. q.to |-> shrinkage(onDay(q, d))]
                   whole == shrinkage(q)
                   on(r) == {d \in DOMAIN days : r \in DOMAIN days[d]}
               IN /\ DOMAIN whole = UNION {DOMAIN days[d] : d \in DOMAIN days}
                  /\ \A r \in DOMAIN whole :
                       /\ whole[r].units = SumOf(on(r), LAMBDA d : days[d][r].units)
                       /\ whole[r].uncostedUnits = SumOf(on(r), LAMBDA d : days[d][r].uncostedUnits)
                       /\ valueOr0(whole[r]) = SumOf(on(r), LAMBDA d : valueOr0(days[d][r]))
                       /\ whole[r].valueC = Null <=> whole[r].units = whole[r].uncostedUnits
    BY <2>1, LossesByDay, Zenon
  <2>4. ASSUME NEW biz \in DOMAIN Always
        PROVE  LET lost == shrinkage(Always[biz])
                   shown == {[key |-> r.key, costC |-> r.unitCostC] : r \in onHand(Always[biz]).rows}
                   hidden == {[key |-> k, costC |-> unitCost(k)] :
                                k \in {j \in DOMAIN levels : BusinessOf[j[1]] = biz /\ j[2] \in trashed}}
                   priced(r) == lossesAt(lossesOf(r.key), r.costC)
               IN /\ SumOf(DOMAIN lost, LAMBDA r : valueOr0(lost[r]))
                       = SumOf(shown \cup hidden, LAMBDA r : priced(r).valueC)
                  /\ SumOf(DOMAIN lost, LAMBDA r : lost[r].uncostedUnits)
                       = SumOf(shown \cup hidden, LAMBDA r : priced(r).uncostedUnits)
    BY <2>2, LossesByReason, LossesByShelf, Zenon
  <2> QED BY <2>3, <2>4, Zenon DEF LossesAccounted
<1> QED BY <1>1, TablesHold, PTL

----------------------------------------------------------------------------
(* Stock on hand                                                             *)

(* What the movements of a kind add up to, of a whole ledger or of the rows    *)
(* just written.                                                              *)
Ledgers == Seq(Movement)
Books == Seq(Sale)
RowsOf(ms, M) == {n \in DOMAIN ms : ms[n] \in M}
Deltas(ms, M) == [n \in RowsOf(ms, M) |-> ms[n].qtyDelta]
OfShelf(k) == {m \in Movement : keyOf(m.branchId, m) = k /\ m.type \in {"receive", "adjustment"}}
OfSale(i, k) == {m \in Movement : m.type = "sale" /\ m.refId = i /\ keyOf(m.branchId, m) = k}

(* What a sale took of a key, and what the sales that stand took of it.        *)
Took(s, k) == IF s.branchId = k[1] THEN wantedMilli(k[1], s.lines, tracked(s.lines), k) ELSE 0
Taken(ss, k) == [i \in DOMAIN ss |-> IF ss[i].status = "completed" THEN Took(ss[i], k) ELSE 0]

(* A level is what the shelf opened with, what was delivered and corrected and *)
(* what the sales that stand took; the movements of a sale are its lines.     *)
Balanced ==
  \A k \in Keys : levelOf(k) = openingOf(k) + Total(Deltas(movements, OfShelf(k))) - Total(Taken(sales, k))
SalesMoved ==
  /\ \A n \in DOMAIN movements : movements[n].type = "sale" => movements[n].refId \in DOMAIN sales
  /\ \A i \in DOMAIN sales : \A k \in Keys : Total(Deltas(movements, OfSale(i, k))) = -Took(sales[i], k)
StockKept == Balanced /\ SalesMoved

LEMMA DeltasTyped ==
  ASSUME NEW ms \in Ledgers, NEW M
  PROVE  /\ IsFiniteSet(RowsOf(ms, M)) /\ Deltas(ms, M) \in [RowsOf(ms, M) -> Int]
         /\ Total(Deltas(ms, M)) \in Int
<1>1. /\ DOMAIN ms = 1 .. Len(ms) /\ Len(ms) \in Nat
      /\ \A n \in DOMAIN ms : ms[n] \in Movement
  BY DEF Ledgers
<1>2. \A n \in DOMAIN ms : ms[n].qtyDelta \in Int
  BY <1>1 DEF Movement
<1>3. IsFiniteSet(RowsOf(ms, M))
  <2>1. IsFiniteSet(DOMAIN ms) /\ RowsOf(ms, M) \in SUBSET (DOMAIN ms)
    BY <1>1, FS_Interval DEF RowsOf
  <2> QED BY <2>1, FS_Subset
<1>4. Deltas(ms, M) \in [RowsOf(ms, M) -> Int]
  BY <1>2 DEF Deltas, RowsOf
<1>5. Total(Deltas(ms, M)) \in Int
  BY <1>3, <1>4, SumType
<1> QED BY <1>3, <1>4, <1>5

LEMMA DeltasNone ==
  ASSUME NEW ms, NEW M, \A j \in DOMAIN ms : ms[j] \notin M
  PROVE  Total(Deltas(ms, M)) = 0
<1>1. DOMAIN Deltas(ms, M) = {}
  BY DEF Deltas, RowsOf
<1> QED BY <1>1, SumEmpty

(* Rows that are written add to what is there.                                *)
LEMMA DeltasAdded ==
  ASSUME movements \in Ledgers, NEW new \in Ledgers, Record(new), NEW M
  PROVE  Total(Deltas(movements', M)) = Total(Deltas(movements, M)) + Total(Deltas(new, M))
<1> DEFINE N == Len(movements)
           S == RowsOf(movements, M)
           T == {n \in DOMAIN movements' : n > N /\ movements'[n] \in M}
           f == Deltas(movements, M)
           g == [n \in T |-> movements'[n].qtyDelta]
           h == Deltas(movements', M)
           name == [j \in RowsOf(new, M) |-> j + N]
<1>1. /\ movements' \in Ledgers /\ Len(movements') = N + Len(new) /\ N \in Nat /\ Len(new) \in Nat
      /\ DOMAIN movements = 1 .. N /\ DOMAIN movements' = 1 .. N + Len(new) /\ DOMAIN new = 1 .. Len(new)
      /\ \A n \in 1 .. N : movements'[n] = movements[n]
      /\ \A n \in 1 .. N + Len(new) : n > N => movements'[n] = new[n - N]
  <2>1. /\ movements' \in Ledgers
        /\ Len(movements') = Len(movements) + Len(new) /\ Len(movements) \in Nat /\ Len(new) \in Nat
        /\ \A n \in 1 .. Len(movements') :
             movements'[n] = IF n <= Len(movements) THEN movements[n] ELSE new[n - Len(movements)]
    BY Recorded DEF Ledgers
  <2>2. /\ DOMAIN movements = 1 .. Len(movements) /\ DOMAIN movements' = 1 .. Len(movements')
        /\ DOMAIN new = 1 .. Len(new)
    BY <2>1 DEF Ledgers
  <2> QED BY <2>1, <2>2
<1> HIDE DEF N
<1>2. /\ IsFiniteSet(S) /\ f \in [S -> Int]
      /\ IsFiniteSet(RowsOf(movements', M)) /\ h \in [RowsOf(movements', M) -> Int]
      /\ IsFiniteSet(RowsOf(new, M)) /\ Deltas(new, M) \in [RowsOf(new, M) -> Int]
  BY <1>1, DeltasTyped
<1>3. T \in SUBSET RowsOf(movements', M) /\ RowsOf(movements', M) = S \cup T /\ S \cap T = {}
  BY <1>1 DEF RowsOf
<1>4. /\ \A n \in S : h[n] = f[n]
      /\ \A n \in T : h[n] = g[n]
  BY <1>1, <1>3 DEF Deltas, RowsOf
<1>5. IsFiniteSet(T) /\ g \in [T -> Int]
  <2>1. \A n \in T : g[n] = h[n] /\ h[n] \in Int
    BY <1>2, <1>3, <1>4
  <2> QED BY <1>2, <1>3, <2>1, FS_Subset
<1>6. Total(h) = Total(f) + Total(g)
  <2> DEFINE U == RowsOf(movements', M)
             low == Restrict(h, S)
             high == Restrict(h, U \ S)
  <2>1. low = f
    BY <1>2, <1>3, <1>4 DEF Restrict
  <2>2. high = g
    <3>1. U \ S = T
      BY <1>3
    <3> QED BY <1>4, <3>1 DEF Restrict
  <2>3. IsFiniteSet(U) /\ h \in [U -> Int] /\ S \in SUBSET U
    BY <1>2, <1>3
  <2>4. Total(h) = Total(low) + Total(high)
    <3> HIDE DEF S, h, U
    <3> QED BY <2>3, SumSplit
  <2> QED BY <2>1, <2>2, <2>4
<1>7. Total(g) = Total(Deltas(new, M))
  <2>0. \A j \in RowsOf(new, M) : j + N \in T
    <3>1. \A j \in RowsOf(new, M) : /\ j \in 1 .. Len(new) /\ new[j] \in M
                                    /\ j + N \in 1 .. N + Len(new) /\ j + N > N /\ (j + N) - N = j
      BY <1>1 DEF RowsOf
    <3>2. \A j \in RowsOf(new, M) : movements'[j + N] = new[j]
      BY <1>1, <3>1
    <3> QED BY <1>1, <3>1, <3>2
  <2>1. name \in [RowsOf(new, M) -> T]
    BY <2>0
  <2>2. ASSUME NEW n \in T
        PROVE  \E j \in RowsOf(new, M) : /\ name[j] = n /\ g[n] = Deltas(new, M)[j]
                                         /\ \A i \in RowsOf(new, M) : name[i] = n => i = j
    <3>1. n - N \in RowsOf(new, M) /\ name[n - N] = n /\ g[n] = Deltas(new, M)[n - N]
      BY <1>1 DEF RowsOf, Deltas
    <3>2. \A i \in RowsOf(new, M) : name[i] = n => i = n - N
      BY <1>1 DEF RowsOf
    <3> QED BY <3>1, <3>2
  <2> DEFINE R == RowsOf(new, M)
             e == Deltas(new, M)
  <2>3. IsFiniteSet(R) /\ e \in [R -> Int] /\ name \in [R -> T]
    BY <1>2, <2>1
  <2>4. \A n \in T : \E j \in R : name[j] = n /\ g[n] = e[j] /\ \A i \in R : name[i] = n => i = j
    BY <2>2
  <2> HIDE DEF T, g, name, R, e
  <2>5. Total(g) = Total(e)
    BY <1>5, <2>3, <2>4, SumRenamed
  <2> QED BY <2>5 DEF e
<1> QED BY <1>6, <1>7

(* The rows of a key written with what is put on it.                          *)
LEMMA PutsWritten ==
  ASSUME NEW put \in Seq(Puts), NEW new \in Ledgers, NEW M, NEW k, DOMAIN new = DOMAIN put,
         \A j \in DOMAIN new : /\ new[j] \in M <=> put[j].key = k
                               /\ new[j].qtyDelta = put[j].milli
  PROVE  Total(Deltas(new, M)) = PutOn(put, k)
<1> DEFINE S == {i \in DOMAIN put : put[i].key = k}
<1>1. RowsOf(new, M) = S
  BY DEF RowsOf
<1>2. Deltas(new, M) = [i \in S |-> put[i].milli]
  BY <1>1 DEF Deltas
<1> QED BY <1>2, Zenon DEF PutOn, SumOf

LEMMA TakenTyped ==
  ASSUME NEW ss \in Books, NEW k
  PROVE  /\ DOMAIN ss = 1 .. Len(ss) /\ Len(ss) \in Nat /\ IsFiniteSet(DOMAIN ss)
         /\ \A i \in DOMAIN ss : Took(ss[i], k) \in Int
         /\ Taken(ss, k) \in [DOMAIN ss -> Int] /\ Total(Taken(ss, k)) \in Int
<1>1. DOMAIN ss = 1 .. Len(ss) /\ Len(ss) \in Nat /\ IsFiniteSet(DOMAIN ss) /\ \A i \in DOMAIN ss : ss[i] \in Sale
  BY FS_Interval DEF Books
<1>2. ASSUME NEW i \in DOMAIN ss PROVE Took(ss[i], k) \in Int
  <2>1. ss[i].lines \in Seq(SaleLine) /\ tracked(ss[i].lines) \in SUBSET (DOMAIN ss[i].lines)
    BY <1>1 DEF Sale, tracked
  <2>2. wantedMilli(k[1], ss[i].lines, tracked(ss[i].lines), k) \in Int
    BY <2>1, LinesWanted
  <2> QED BY <2>2 DEF Took
<1>3. Taken(ss, k) \in [DOMAIN ss -> Int]
  BY <1>2 DEF Taken
<1> QED BY <1>1, <1>2, <1>3, SumType

(* One more sale, and a sale that is undone.                                  *)
LEMMA TakenMore ==
  ASSUME NEW ss \in Books, NEW s \in Sale, s.status = "completed", NEW k
  PROVE  Total(Taken(Append(ss, s), k)) = Total(Taken(ss, k)) + Took(s, k)
<1> DEFINE N == Len(ss) + 1
           tt == Append(ss, s)
           f == Taken(ss, k)
           g == Taken(tt, k)
<1>1. /\ tt \in Books /\ Len(tt) = N /\ N \in Nat /\ tt[N] = s
      /\ DOMAIN ss = (DOMAIN tt) \ {N} /\ N \in DOMAIN tt
      /\ \A i \in DOMAIN ss : tt[i] = ss[i]
  <2>1. /\ tt \in Books /\ Len(tt) = N /\ N \in Nat /\ tt[N] = s /\ Len(ss) \in Nat
        /\ \A i \in 1 .. Len(ss) : tt[i] = ss[i]
    BY AppendProperties, LenProperties DEF Books
  <2>2. DOMAIN tt = 1 .. N /\ DOMAIN ss = 1 .. Len(ss)
    BY <2>1 DEF Books
  <2> HIDE DEF tt
  <2> QED BY <2>1, <2>2
<1> HIDE DEF N, tt
<1>2. /\ f \in [DOMAIN ss -> Int] /\ g \in [DOMAIN tt -> Int] /\ IsFiniteSet(DOMAIN tt)
  BY <1>1, TakenTyped
<1>3. /\ \A i \in DOMAIN ss : f[i] = g[i]
      /\ g[N] = Took(s, k)
  BY <1>1 DEF Taken
<1> HIDE DEF f, g
<1>4. Total(g) = g[N] + Total(f) /\ Total(f) \in Int
  <2> DEFINE S == DOMAIN tt
  <2>1. IsFiniteSet(S) /\ g \in [S -> Int] /\ N \in S
    BY <1>1, <1>2
  <2>2. f = Restrict(g, S \ {N})
    BY <1>1, <1>2, <1>3 DEF Restrict
  <2>3. Total(f) \in Int
    BY TakenTyped DEF f
  <2>4. Total(g) = g[N] + Total(Restrict(g, S \ {N}))
    <3> HIDE DEF S
    <3> QED BY <2>1, SumRemove
  <2> QED BY <2>2, <2>3, <2>4
<1>5. g[N] \in Int
  BY <1>1, <1>2
<1> QED BY <1>3, <1>4, <1>5 DEF f, g, tt

LEMMA TakenLess ==
  ASSUME NEW ss \in Books, NEW tt \in Books, NEW i \in DOMAIN ss, NEW k,
         DOMAIN tt = DOMAIN ss, \A j \in DOMAIN ss \ {i} : tt[j] = ss[j],
         ss[i].status = "completed", tt[i].status # "completed"
  PROVE  Total(Taken(tt, k)) = Total(Taken(ss, k)) - Took(ss[i], k)
<1> DEFINE f == Taken(ss, k)
           g == Taken(tt, k)
<1>1. f \in [DOMAIN ss -> Int] /\ g \in [DOMAIN ss -> Int] /\ IsFiniteSet(DOMAIN ss) /\ Took(ss[i], k) \in Int
      /\ Total(f) \in Int
  BY TakenTyped
<1>2. /\ \A j \in DOMAIN ss \ {i} : g[j] = f[j]
      /\ f[i] = Took(ss[i], k) /\ g[i] = 0
  BY DEF Taken
<1> HIDE DEF f, g
<1>3. Total(g) = Total(f) + g[i] - f[i]
  BY <1>1, <1>2, SumChange
<1> QED BY <1>1, <1>2, <1>3 DEF f, g

LEMMA StockNumbers ==
  ASSUME Tables
  PROVE  /\ movements \in Ledgers /\ movements \in Seq(Movement) /\ sales \in Books /\ sales \in Seq(Sale)
         /\ \A k : levelOf(k) \in Int /\ openingOf(k) \in Int /\ Total(Taken(sales, k)) \in Int
         /\ \A M : Total(Deltas(movements, M)) \in Int
<1>1. movements \in Ledgers /\ movements \in Seq(Movement) /\ sales \in Books /\ sales \in Seq(Sale)
  BY DEF Tables, Ledger, Ledgers, Books
<1>2. \A k : levelOf(k) \in Int /\ openingOf(k) \in Int
  BY OpeningAssumption DEF Tables, Shelf, levelOf, openingOf
<1>3. \A k : Total(Taken(sales, k)) \in Int
  BY <1>1, TakenTyped
<1>4. \A M : Total(Deltas(movements, M)) \in Int
  BY <1>1, DeltasTyped
<1> QED BY <1>1, <1>2, <1>3, <1>4

(* A step keeps the balance when a level changes with the ledger and with the  *)
(* sales that stand.                                                          *)
LEMMA BalanceKept ==
  ASSUME Tables, Balanced,
         \A k \in Keys : \E d \in Int, e \in Int :
           /\ (levelOf(k))' = levelOf(k) + d - e
           /\ Total(Deltas(movements', OfShelf(k))) = Total(Deltas(movements, OfShelf(k))) + d
           /\ Total(Taken(sales', k)) = Total(Taken(sales, k)) + e
  PROVE  Balanced'
<1>1. ASSUME NEW k \in Keys
      PROVE  (levelOf(k))' = openingOf(k) + Total(Deltas(movements', OfShelf(k))) - Total(Taken(sales', k))
  <2>1. PICK d \in Int, e \in Int :
          /\ (levelOf(k))' = levelOf(k) + d - e
          /\ Total(Deltas(movements', OfShelf(k))) = Total(Deltas(movements, OfShelf(k))) + d
          /\ Total(Taken(sales', k)) = Total(Taken(sales, k)) + e
    OBVIOUS
  <2>2. levelOf(k) = openingOf(k) + Total(Deltas(movements, OfShelf(k))) - Total(Taken(sales, k))
    BY DEF Balanced
  <2>3. PICK o \in Int, m \in Int, s \in Int :
          /\ o = openingOf(k) /\ m = Total(Deltas(movements, OfShelf(k))) /\ s = Total(Taken(sales, k))
    BY StockNumbers
  <2>4. levelOf(k) = o + m - s
    BY <2>2, <2>3
  <2>5. (levelOf(k))' = o + (m + d) - (s + e)
    BY <2>1, <2>4
  <2> QED BY <2>1, <2>3, <2>5
<1> QED BY <1>1 DEF Balanced, openingOf

(* Rows that are no sale's leave the movements of every sale as they are.      *)
LEMMA MovesStand ==
  ASSUME Tables, SalesMoved, NEW new \in Ledgers, Record(new), \A j \in DOMAIN new : new[j].type # "sale",
         DOMAIN sales' = DOMAIN sales,
         \A i \in DOMAIN sales : sales'[i].branchId = sales[i].branchId /\ sales'[i].lines = sales[i].lines
  PROVE  SalesMoved'
<1>1. \A n \in DOMAIN movements' : movements'[n].type = "sale" => movements'[n].refId \in DOMAIN sales'
  <2>1. /\ Len(movements') = Len(movements) + Len(new) /\ Len(movements) \in Nat /\ Len(new) \in Nat
        /\ movements' \in Seq(Movement)
        /\ \A n \in 1 .. Len(movements') :
             movements'[n] = IF n <= Len(movements) THEN movements[n] ELSE new[n - Len(movements)]
    BY StockNumbers, Recorded DEF Ledgers
  <2>2. DOMAIN movements' = 1 .. Len(movements') /\ DOMAIN new = 1 .. Len(new) /\ DOMAIN movements = 1 .. Len(movements)
    BY <2>1, StockNumbers DEF Ledgers
  <2>3. ASSUME NEW n \in DOMAIN movements', movements'[n].type = "sale"
        PROVE  n \in DOMAIN movements /\ movements'[n] = movements[n]
    BY <2>1, <2>2, <2>3
  <2> QED BY <2>3 DEF SalesMoved
<1>2. ASSUME NEW i \in DOMAIN sales, NEW k \in Keys
      PROVE  Total(Deltas(movements', OfSale(i, k))) = -Took(sales'[i], k)
  <2>1. Total(Deltas(movements', OfSale(i, k)))
          = Total(Deltas(movements, OfSale(i, k))) + Total(Deltas(new, OfSale(i, k)))
    BY StockNumbers, DeltasAdded
  <2>2. Total(Deltas(new, OfSale(i, k))) = 0
    <3>1. \A j \in DOMAIN new : new[j] \notin OfSale(i, k)
      BY DEF OfSale
    <3> QED BY <3>1, DeltasNone
  <2>3. Total(Deltas(movements, OfSale(i, k))) \in Int
    BY StockNumbers
  <2>4. Took(sales'[i], k) = Took(sales[i], k)
    BY DEF Took
  <2>5. Total(Deltas(movements, OfSale(i, k))) = -Took(sales[i], k)
    BY DEF SalesMoved
  <2> QED BY <2>1, <2>2, <2>3, <2>4, <2>5
<1> QED BY <1>1, <1>2 DEF SalesMoved

LEMMA ReceiveBalances ==
  ASSUME Tables, StockKept, NEW br \in Branches, NEW lines \in DeliveriesTo[br], receive(br, lines)
  PROVE  StockKept'
<1> DEFINE put == Delivered(br, lines)
           new == DeliveryRows(br, lines)
<1>1. addToLevel(put) /\ Record(new) /\ sales' = sales
  BY DEF receive, Delivered, DeliveryRows
<1>2. put \in Seq(Puts) /\ new \in Ledgers /\ Shelf
  BY Deliveries DEF Tables, Ledgers
<1>3. /\ DOMAIN new = DOMAIN put
      /\ \A j \in DOMAIN new : /\ new[j].type = "receive" /\ new[j].qtyDelta = put[j].milli
                                /\ keyOf(new[j].branchId, new[j]) = put[j].key
  BY DEF Delivered, DeliveryRows, keyOf, moved
<1> HIDE DEF put, new
<1>4. ASSUME NEW k \in Keys
      PROVE  \E d \in Int, e \in Int :
               /\ (levelOf(k))' = levelOf(k) + d - e
               /\ Total(Deltas(movements', OfShelf(k))) = Total(Deltas(movements, OfShelf(k))) + d
               /\ Total(Taken(sales', k)) = Total(Taken(sales, k)) + e
  <2>1. PutOn(put, k) \in Int /\ levelOf(k) \in Int /\ (levelOf(k))' = levelOf(k) + PutOn(put, k)
    BY <1>1, <1>2, Raised
  <2>2. Total(Deltas(new, OfShelf(k))) = PutOn(put, k)
    <3>1. \A j \in DOMAIN new : new[j] \in Movement
      BY <1>2 DEF Ledgers
    <3>2. \A j \in DOMAIN new : new[j] \in OfShelf(k) <=> put[j].key = k
      BY <1>3, <3>1 DEF OfShelf
    <3> QED BY <1>2, <1>3, <3>2, PutsWritten
  <2>3. Total(Deltas(movements', OfShelf(k))) = Total(Deltas(movements, OfShelf(k))) + PutOn(put, k)
    BY <1>1, <1>2, <2>2, StockNumbers, DeltasAdded
  <2>4. Total(Taken(sales', k)) = Total(Taken(sales, k)) + 0
    BY <1>1, StockNumbers
  <2>5. (levelOf(k))' = levelOf(k) + PutOn(put, k) - 0
    BY <2>1
  <2> QED BY <2>1, <2>3, <2>4, <2>5
<1>5. Balanced'
  BY <1>4, BalanceKept DEF StockKept
<1>6. SalesMoved'
  BY <1>1, <1>2, <1>3, MovesStand DEF StockKept
<1> QED BY <1>5, <1>6 DEF StockKept

LEMMA AdjustBalances ==
  ASSUME Tables, StockKept, NEW br \in Branches, NEW l \in CountsAt[br], adjust(br, l)
  PROVE  StockKept'
<1> DEFINE at == keyOf(br, l)
           row == moved(br, l, "adjustment", Null, l.newMilli - levelOf(at), l.reasonCategory)
           new == <<row>>
<1>1. /\ l.product \in Products /\ l.variant \in Variants \cup {Null} /\ l.newMilli \in Nat
      /\ l.reasonCategory \in Reasons
  BY RequestsAssumption
<1>2. /\ levels' = [j \in DOMAIN levels \cup {at} |-> IF j = at THEN l.newMilli ELSE levels[j]]
      /\ Record(new) /\ sales' = sales
  BY DEF adjust
<1>3. levelOf(at) \in Int /\ now \in Instants
  BY StockNumbers DEF Tables
<1>4. row \in Movement /\ row.type = "adjustment" /\ row.qtyDelta = l.newMilli - levelOf(at)
      /\ keyOf(row.branchId, row) = at
  <2>1. l.newMilli - levelOf(at) \in Int
    BY <1>1, <1>3
  <2> QED BY <1>1, <1>3, <2>1 DEF Movement, moved, keyOf
<1> HIDE DEF row
<1>5. new \in Ledgers /\ DOMAIN new = {1} /\ new[1] = row
  BY <1>4 DEF Ledgers
<1>6. \A k : (levelOf(k))' = IF k = at THEN l.newMilli ELSE levelOf(k)
  BY <1>2 DEF levelOf
<1> HIDE DEF new, at
<1>7. ASSUME NEW k \in Keys
      PROVE  \E d \in Int, e \in Int :
               /\ (levelOf(k))' = levelOf(k) + d - e
               /\ Total(Deltas(movements', OfShelf(k))) = Total(Deltas(movements, OfShelf(k))) + d
               /\ Total(Taken(sales', k)) = Total(Taken(sales, k)) + e
  <2> DEFINE d == (levelOf(k))' - levelOf(k)
  <2>1. /\ Total(Deltas(movements', OfShelf(k)))
              = Total(Deltas(movements, OfShelf(k))) + Total(Deltas(new, OfShelf(k)))
        /\ Total(Deltas(movements, OfShelf(k))) \in Int /\ Total(Taken(sales, k)) \in Int
        /\ levelOf(k) \in Int
    BY <1>2, <1>5, StockNumbers, DeltasAdded
  <2>2. Total(Deltas(new, OfShelf(k))) = d
    <3>1. CASE k = at
      <4> DEFINE f == Deltas(new, OfShelf(k))
      <4>1. RowsOf(new, OfShelf(k)) = {1}
        BY <1>4, <1>5, <3>1 DEF RowsOf, OfShelf
      <4>2. f \in [{1} -> Int] /\ f[1] = l.newMilli - levelOf(k)
        BY <1>1, <1>3, <1>4, <1>5, <3>1, <4>1 DEF Deltas
      <4> HIDE DEF f
      <4>3. Total(f) = f[1]
        BY <4>2, SumSingle
      <4> QED BY <1>6, <3>1, <4>2, <4>3 DEF f
    <3>2. CASE k # at
      <4>1. \A j \in DOMAIN new : new[j] \notin OfShelf(k)
        BY <1>4, <1>5, <3>2 DEF OfShelf
      <4>2. Total(Deltas(new, OfShelf(k))) = 0
        BY <4>1, DeltasNone
      <4> QED BY <1>6, <2>1, <3>2, <4>2
    <3> QED BY <3>1, <3>2
  <2>3. d \in Int /\ (levelOf(k))' = levelOf(k) + d - 0
    BY <1>1, <1>6, <2>1
  <2>4. Total(Taken(sales', k)) = Total(Taken(sales, k)) + 0
    BY <1>2, <2>1
  <2> HIDE DEF d
  <2> QED BY <2>1, <2>2, <2>3, <2>4
<1>8. Balanced'
  BY <1>7, BalanceKept DEF StockKept
<1>9. SalesMoved'
  <2>1. \A j \in DOMAIN new : new[j].type # "sale"
    BY <1>4, <1>5
  <2> QED BY <1>2, <1>5, <2>1, MovesStand DEF StockKept
<1> QED BY <1>8, <1>9 DEF StockKept

(* What an undone sale puts back is what its movements took.                  *)
LEMMA PutBackIs ==
  ASSUME Tables, NEW i \in Nat, NEW k
  PROVE  PutOn(PutBack(i), k) = -Total(Deltas(movements, OfSale(i, k)))
<1> DEFINE out == inOrder(SaleMoves(i))
           put == PutBack(i)
           S == RowsOf(movements, OfSale(i, k))
           T == {j \in DOMAIN put : put[j].key = k}
           f == Deltas(movements, OfSale(i, k))
           h == [n \in S |-> -f[n]]
           g == [j \in T |-> put[j].milli]
           name == [n \in S |-> CHOOSE j \in DOMAIN out : out[j] = n]
<1>1. /\ Lists(out, SaleMoves(i)) /\ put \in Seq(Puts) /\ DOMAIN put = DOMAIN out
      /\ \A j \in DOMAIN out : /\ out[j] \in SaleMoves(i)
                               /\ put[j].key = keyOf(movements[out[j]].branchId, movements[out[j]])
                               /\ put[j].milli = -movements[out[j]].qtyDelta
  <2>1. PICK type \in {"void", "refund"} : TRUE
    OBVIOUS
  <2>2. now \in Instants
    BY DEF Tables
  <2> QED BY <2>1, <2>2, StockNumbers, Restores
<1>2. /\ \A a, b \in DOMAIN out : out[a] = out[b] => a = b
      /\ \A n \in SaleMoves(i) : \E j \in DOMAIN out : out[j] = n
  BY <1>1 DEF Lists
<1>3. IsFiniteSet(S) /\ f \in [S -> Int]
  BY StockNumbers, DeltasTyped
<1>4. S = {n \in SaleMoves(i) : keyOf(movements[n].branchId, movements[n]) = k}
  <2>1. \A n \in DOMAIN movements : movements[n] \in Movement
    BY StockNumbers
  <2> QED BY <2>1 DEF RowsOf, OfSale, SaleMoves
<1>5. \A n \in S : h[n] = -movements[n].qtyDelta
  BY DEF Deltas
<1>6. IsFiniteSet(T) /\ g \in [T -> Int] /\ PutOn(put, k) = Total(g)
  <2>1. IsFiniteSet(DOMAIN put) /\ \A j \in DOMAIN put : put[j] \in Puts
    <3>1. put \in Seq(Puts)
      BY <1>1
    <3> HIDE DEF put
    <3>2. IsFiniteSet(DOMAIN put)
      BY <3>1, PutTyped
    <3> QED BY <3>1, <3>2
  <2>2. IsFiniteSet(T) /\ g \in [T -> Int]
    BY <2>1, FS_Subset DEF Puts
  <2> QED BY <2>2, Zenon DEF PutOn, SumOf
<1>7. h \in [S -> Int] /\ \A n \in S : h[n] = -f[n]
  <2>1. \A n \in S : f[n] \in Int
    BY <1>3
  <2> QED BY <2>1
<1> HIDE DEF out, put, f, h
<1>8. \A n \in S : name[n] \in DOMAIN out /\ out[name[n]] = n
  BY <1>2, <1>4
<1>9. name \in [S -> T]
  BY <1>1, <1>4, <1>8
<1>10. \A j \in T : out[j] \in S /\ g[j] = h[out[j]]
  BY <1>1, <1>4, <1>5
<1> HIDE DEF name, g
<1>11. \A j \in T : \E n \in S : name[n] = j /\ g[j] = h[n] /\ \A m \in S : name[m] = j => m = n
  <2> SUFFICES ASSUME NEW j \in T
               PROVE  \E n \in S : name[n] = j /\ g[j] = h[n] /\ \A m \in S : name[m] = j => m = n
    OBVIOUS
  <2>1. j \in DOMAIN out /\ out[j] \in S /\ g[j] = h[out[j]]
    BY <1>1, <1>10
  <2>2. name[out[j]] = j
    BY <1>2, <1>8, <2>1
  <2>3. \A m \in S : name[m] = j => m = out[j]
    BY <1>8
  <2> QED BY <2>1, <2>2, <2>3
<1> HIDE DEF S, T
<1>12. Total(g) = Total(h)
  BY <1>3, <1>6, <1>7, <1>9, <1>11, SumRenamed
<1>13. Total(h) = -Total(f)
  BY <1>3, <1>7, SumNegated
<1> QED BY <1>6, <1>12, <1>13 DEF put, f

LEMMA UndoBalances ==
  ASSUME Tables, Tables', StockKept, NEW t \in Terminals, NEW i \in DOMAIN sales, voidSale(t, i) \/ refundSale(t, i)
  PROVE  StockKept'
<1>1. i \in Nat /\ sales \in Seq(Sale) /\ sales \in Books /\ sales' \in Books /\ sales[i] \in Sale
  BY StockNumbers DEF Tables, Books
<1>2. PICK type \in {"void", "refund"} : restoreStock(i, type)
  BY DEF voidSale, refundSale
<1> DEFINE put == PutBack(i)
           new == UndoneRows(i, type)
<1>3. addToLevel(put) /\ Record(new)
  BY <1>2 DEF restoreStock, PutBack, UndoneRows, SaleMoves
<1>4. /\ put \in Seq(Puts) /\ new \in Ledgers /\ Shelf
      /\ \A j \in DOMAIN new : new[j].type \in {"void", "refund"}
  <2>1. /\ PutBack(i) \in Seq(Puts) /\ UndoneRows(i, type) \in Seq(Movement)
        /\ \A j \in DOMAIN UndoneRows(i, type) : UndoneRows(i, type)[j].type = type
    <3>1. movements \in Seq(Movement) /\ now \in Instants /\ i \in Nat
      BY <1>1, StockNumbers DEF Tables
    <3>2. /\ PutBack(i) \in Seq(Puts) /\ UndoneRows(i, type) \in Seq(Movement)
          /\ DOMAIN UndoneRows(i, type) = DOMAIN inOrder(SaleMoves(i))
          /\ \A j \in DOMAIN inOrder(SaleMoves(i)) : UndoneRows(i, type)[j].type = type
      BY <3>1, Restores
    <3> QED BY <3>2
  <2> QED BY <2>1 DEF Tables, Ledgers
<1> HIDE DEF put, new
<1>5. /\ sales[i].status = "completed" /\ sales'[i].status # "completed"
      /\ DOMAIN sales' = DOMAIN sales /\ \A j \in DOMAIN sales \ {i} : sales'[j] = sales[j]
      /\ sales'[i].branchId = sales[i].branchId /\ sales'[i].lines = sales[i].lines
  <2>1. CASE voidSale(t, i)
    BY <1>1, <2>1 DEF voidSale, Sale
  <2>2. CASE refundSale(t, i)
    BY <1>1, <2>2 DEF refundSale, Sale
  <2> QED BY <2>1, <2>2
<1>6. ASSUME NEW k \in Keys
      PROVE  \E d \in Int, e \in Int :
               /\ (levelOf(k))' = levelOf(k) + d - e
               /\ Total(Deltas(movements', OfShelf(k))) = Total(Deltas(movements, OfShelf(k))) + d
               /\ Total(Taken(sales', k)) = Total(Taken(sales, k)) + e
  <2>1. PutOn(put, k) \in Int /\ levelOf(k) \in Int /\ (levelOf(k))' = levelOf(k) + PutOn(put, k)
    BY <1>3, <1>4, Raised
  <2>2. Total(Deltas(new, OfShelf(k))) = 0
    <3>1. \A j \in DOMAIN new : new[j] \notin OfShelf(k)
      BY <1>4 DEF OfShelf
    <3> QED BY <3>1, DeltasNone
  <2>3. Total(Deltas(movements', OfShelf(k))) = Total(Deltas(movements, OfShelf(k))) + 0
    BY <1>3, <1>4, <2>2, StockNumbers, DeltasAdded
  <2>4. PutOn(put, k) = Took(sales[i], k) /\ Took(sales[i], k) \in Int
    <3>1. PutOn(put, k) = -Total(Deltas(movements, OfSale(i, k)))
      BY <1>1, PutBackIs DEF put
    <3>2. Total(Deltas(movements, OfSale(i, k))) = -Took(sales[i], k)
      BY DEF StockKept, SalesMoved
    <3>3. Took(sales[i], k) \in Int
      BY <1>1, TakenTyped
    <3> QED BY <3>1, <3>2, <3>3
  <2>5. Total(Taken(sales', k)) = Total(Taken(sales, k)) - Took(sales[i], k)
    BY <1>1, <1>5, TakenLess
  <2>6. PICK n \in Int : n = Took(sales[i], k)
    BY <2>4
  <2>7. Total(Taken(sales, k)) \in Int
    BY StockNumbers
  <2>8. /\ -n \in Int /\ (levelOf(k))' = levelOf(k) + 0 - (-n)
        /\ Total(Taken(sales', k)) = Total(Taken(sales, k)) + (-n)
    BY <2>1, <2>4, <2>5, <2>6, <2>7
  <2> QED BY <2>3, <2>8
<1>7. Balanced'
  BY <1>6, BalanceKept DEF StockKept
<1>8. SalesMoved'
  <2>1. \A j \in DOMAIN sales : sales'[j].branchId = sales[j].branchId /\ sales'[j].lines = sales[j].lines
    BY <1>5
  <2>2. \A j \in DOMAIN new : new[j].type # "sale"
    BY <1>4
  <2> QED BY <1>3, <1>4, <1>5, <2>1, <2>2, MovesStand DEF StockKept
<1> QED BY <1>7, <1>8 DEF StockKept

(* The rows a sale writes of a key take what its tracked lines want of it.     *)
LEMMA SoldIs ==
  ASSUME now \in Instants, NEW t \in Terminals, NEW draft \in BasketsAt[t], NEW ref \in Nat, NEW k
  PROVE  Total(Deltas(SoldRows(BranchOf[t], draft.lines, ref), OfSale(ref, k)))
           = -wantedMilli(BranchOf[t], draft.lines, tracked(draft.lines), k)
<1> DEFINE br == BranchOf[t]
           lines == draft.lines
           took == tracked(lines)
           out == inOrder(took)
           new == SoldRows(br, lines, ref)
           S == {i \in took : keyOf(br, lines[i]) = k}
           T == RowsOf(new, OfSale(ref, k))
           f == [i \in S |-> lines[i].milli]
           h == [i \in S |-> -f[i]]
           g == Deltas(new, OfSale(ref, k))
           name == [i \in S |-> CHOOSE j \in DOMAIN out : out[j] = i]
<1>1. /\ lines \in Seq(SaleLine) /\ new \in Seq(Movement) /\ DOMAIN new = DOMAIN out
      /\ \A j \in DOMAIN out :
           /\ out[j] \in took
           /\ new[j] = moved(br, lines[out[j]], "sale", ref, -lines[out[j]].milli, Null)
           /\ keyOf(new[j].branchId, new[j]) = keyOf(br, lines[out[j]])
  BY Drafts
<1>2. /\ Lists(out, took) /\ IsFiniteSet(DOMAIN lines) /\ \A i \in DOMAIN lines : lines[i].milli \in Nat
  BY <1>1, LinesWanted
<1>3. /\ \A a, b \in DOMAIN out : out[a] = out[b] => a = b
      /\ \A i \in took : \E j \in DOMAIN out : out[j] = i
  BY <1>2 DEF Lists
<1> HIDE DEF out, new
<1>4. \A j \in DOMAIN out : /\ new[j].type = "sale" /\ new[j].refId = ref /\ new[j].qtyDelta = -lines[out[j]].milli
                            /\ new[j] \in Movement
  <2>1. \A j \in DOMAIN new : new[j] \in Movement
    BY <1>1
  <2> QED BY <1>1, <2>1 DEF moved
<1>5. T = {j \in DOMAIN out : keyOf(br, lines[out[j]]) = k}
  BY <1>1, <1>4 DEF RowsOf, OfSale
<1>6. IsFiniteSet(S) /\ f \in [S -> Int] /\ h \in [S -> Int] /\ \A i \in S : h[i] = -f[i] /\ h[i] = -lines[i].milli
  <2>1. S \in SUBSET (DOMAIN lines)
    BY DEF tracked
  <2>2. IsFiniteSet(S) /\ \A i \in S : lines[i].milli \in Int /\ -lines[i].milli \in Int
    BY <1>2, <2>1, FS_Subset
  <2> HIDE DEF S
  <2> QED BY <2>2
<1>7. IsFiniteSet(T) /\ g \in [T -> Int]
  BY <1>1, DeltasTyped DEF Ledgers
<1>8. wantedMilli(br, lines, took, k) = Total(f)
  BY Zenon DEF wantedMilli, SumOf
<1>9. \A j \in T : g[j] = -lines[out[j]].milli
  BY <1>4, <1>5 DEF Deltas
<1> HIDE DEF f, h, g, T
<1>10. \A i \in S : name[i] \in DOMAIN out /\ out[name[i]] = i
  BY <1>3
<1>11. name \in [S -> T]
  BY <1>5, <1>10
<1>12. \A j \in T : j \in DOMAIN out /\ out[j] \in S /\ g[j] = h[out[j]]
  BY <1>1, <1>5, <1>6, <1>9
<1> HIDE DEF name
<1>13. \A j \in T : \E i \in S : name[i] = j /\ g[j] = h[i] /\ \A m \in S : name[m] = j => m = i
  <2> SUFFICES ASSUME NEW j \in T
               PROVE  \E i \in S : name[i] = j /\ g[j] = h[i] /\ \A m \in S : name[m] = j => m = i
    OBVIOUS
  <2> HIDE DEF S
  <2>1. name[out[j]] = j
    BY <1>3, <1>10, <1>12
  <2>2. \A m \in S : name[m] = j => m = out[j]
    BY <1>10
  <2> QED BY <1>12, <2>1, <2>2
<1> HIDE DEF S, took, lines, br
<1>14. Total(g) = Total(h)
  <2>1. IsFiniteSet(S) /\ h \in [S -> Int]
    BY <1>6
  <2> QED BY <1>7, <1>11, <1>13, <2>1, SumRenamed
<1>15. Total(h) = -Total(f)
  <2>1. IsFiniteSet(S) /\ f \in [S -> Int] /\ h \in [S -> Int] /\ \A i \in S : h[i] = -f[i]
    BY <1>6
  <2> QED BY <2>1, SumNegated
<1> QED BY <1>8, <1>14, <1>15 DEF g, new, took, lines, br

LEMMA WantedNone ==
  ASSUME NEW br, NEW lines, NEW S, NEW k, \A i \in S : keyOf(br, lines[i]) # k
  PROVE  wantedMilli(br, lines, S, k) = 0
<1> DEFINE f == [i \in {j \in S : keyOf(br, lines[j]) = k} |-> lines[i].milli]
<1>1. DOMAIN f = {} /\ wantedMilli(br, lines, S, k) = Total(f)
  BY DEF wantedMilli, SumOf
<1> HIDE DEF f
<1> QED BY <1>1, SumEmpty

LEMMA CompleteBalances ==
  ASSUME Tables, Tables', StockKept, NEW t \in Terminals, NEW draft \in BasketsAt[t], complete(t, draft)
  PROVE  StockKept'
<1> DEFINE br == BranchOf[t]
           lines == draft.lines
           took == tracked(lines)
           ref == Len(sales) + 1
           new == SoldRows(br, lines, ref)
           wanted(k) == wantedMilli(br, lines, took, k)
<1>1. /\ now \in Instants /\ Shelf /\ sales \in Seq(Sale) /\ sales \in Books /\ sales' \in Seq(Sale)
      /\ sales' \in Books /\ movements \in Ledgers
  BY DEF Tables, Books, Ledgers, Ledger
<1>2. PICK s : /\ s.branchId = br /\ s.lines = lines /\ s.status = "completed"
               /\ sales' = Append(sales, s)
  BY DEF complete
<1>3. /\ ref \in Nat /\ DOMAIN sales = 1 .. Len(sales) /\ DOMAIN sales' = 1 .. ref /\ Len(sales) \in Nat
      /\ \A i \in DOMAIN sales : sales'[i] = sales[i]
      /\ sales'[ref] = s /\ s \in Sale
  <2>1. /\ Len(sales) \in Nat /\ DOMAIN sales = 1 .. Len(sales) /\ Len(sales') = ref
        /\ DOMAIN sales' = 1 .. Len(sales')
        /\ \A i \in 1 .. Len(sales) : sales'[i] = sales[i]
        /\ sales'[ref] = s
    BY <1>1, <1>2
  <2>2. ref \in DOMAIN sales' /\ \A i \in DOMAIN sales' : sales'[i] \in Sale
    BY <1>1, <2>1
  <2> QED BY <2>1, <2>2
<1>4. /\ new \in Seq(Movement) /\ new \in Ledgers /\ Record(new)
      /\ \A j \in DOMAIN new : new[j].type = "sale" /\ new[j].refId = ref
  <2>1. Record(new)
    BY DEF complete, SoldRows
  <2>2. new \in Seq(Movement)
    BY <1>1, <1>3, Drafts
  <2>3. \A j \in DOMAIN new : new[j].type = "sale" /\ new[j].refId = ref
    BY DEF SoldRows, moved
  <2> QED BY <2>1, <2>2, <2>3 DEF Ledgers
<1>5. /\ DOMAIN levels' = DOMAIN levels
      /\ \A k \in DOMAIN levels : levels'[k] = levels[k] - wanted(k)
      /\ \A i \in took : keyOf(br, lines[i]) \in DOMAIN levels
  BY <1>1, Lowered
<1>6. ASSUME NEW k \in Keys PROVE wanted(k) = Took(s, k) /\ Took(s, k) \in Int
  <2>1. Took(s, k) = IF br = k[1] THEN wantedMilli(k[1], lines, took, k) ELSE 0
    BY <1>2 DEF Took
  <2>2. br # k[1] => wanted(k) = 0
    <3>1. br # k[1] => \A i \in took : keyOf(br, lines[i]) # k
      BY DEF keyOf
    <3> QED BY <3>1, WantedNone
  <2>3. wanted(k) \in Int
    <3>1. lines \in Seq(SaleLine) /\ took \in SUBSET (DOMAIN lines)
      BY <1>1, <1>3, Drafts DEF tracked
    <3> QED BY <3>1, LinesWanted
  <2> QED BY <2>1, <2>2, <2>3
<1>7. ASSUME NEW k \in Keys PROVE (levelOf(k))' = levelOf(k) - wanted(k)
  <2>1. CASE k \in DOMAIN levels
    BY <1>5, <2>1 DEF levelOf
  <2>2. CASE k \notin DOMAIN levels
    <3>1. wanted(k) = 0
      BY <1>5, <2>2, WantedNone
    <3>2. (levelOf(k))' = 0 /\ levelOf(k) = 0
      BY <1>5, <2>2 DEF levelOf
    <3> QED BY <3>1, <3>2
  <2> QED BY <2>1, <2>2
<1> HIDE DEF new, wanted, br, lines, took
<1>8. ASSUME NEW k \in Keys
      PROVE  \E d \in Int, e \in Int :
               /\ (levelOf(k))' = levelOf(k) + d - e
               /\ Total(Deltas(movements', OfShelf(k))) = Total(Deltas(movements, OfShelf(k))) + d
               /\ Total(Taken(sales', k)) = Total(Taken(sales, k)) + e
  <2>1. Total(Deltas(new, OfShelf(k))) = 0
    <3>1. \A j \in DOMAIN new : new[j] \notin OfShelf(k)
      BY <1>4 DEF OfShelf
    <3> QED BY <3>1, DeltasNone
  <2>2. Total(Deltas(movements', OfShelf(k))) = Total(Deltas(movements, OfShelf(k))) + 0
    BY <1>1, <1>4, <2>1, DeltasAdded
  <2>3. Total(Taken(sales', k)) = Total(Taken(sales, k)) + Took(s, k)
    BY <1>1, <1>2, <1>3, TakenMore
  <2>4. PICK n \in Int, l \in Int : n = Took(s, k) /\ l = levelOf(k)
    BY <1>6, StockNumbers
  <2>5. (levelOf(k))' = levelOf(k) + 0 - n /\ Total(Taken(sales', k)) = Total(Taken(sales, k)) + n
    BY <1>6, <1>7, <2>3, <2>4
  <2> QED BY <2>2, <2>5
<1>9. Balanced'
  BY <1>8, BalanceKept DEF StockKept
<1>10. \A n \in DOMAIN movements' : movements'[n].type = "sale" => movements'[n].refId \in DOMAIN sales'
  <2>1. /\ Len(movements') = Len(movements) + Len(new) /\ Len(movements) \in Nat /\ Len(new) \in Nat
        /\ movements' \in Seq(Movement)
        /\ \A n \in 1 .. Len(movements') :
             movements'[n] = IF n <= Len(movements) THEN movements[n] ELSE new[n - Len(movements)]
    BY <1>1, <1>4, Recorded DEF Ledgers
  <2>2. DOMAIN movements' = 1 .. Len(movements') /\ DOMAIN new = 1 .. Len(new) /\ DOMAIN movements = 1 .. Len(movements)
    BY <1>1, <1>4, <2>1 DEF Ledgers
  <2>3. \A n \in DOMAIN movements' : \/ n \in DOMAIN movements /\ movements'[n] = movements[n]
                                     \/ n - Len(movements) \in DOMAIN new /\ movements'[n] = new[n - Len(movements)]
    BY <2>1, <2>2
  <2>4. \A n \in DOMAIN movements : movements[n].type = "sale" => movements[n].refId \in DOMAIN sales'
    BY <1>3 DEF StockKept, SalesMoved
  <2>5. ref \in DOMAIN sales'
    BY <1>3
  <2> HIDE DEF ref
  <2> QED BY <1>4, <2>3, <2>4, <2>5
<1>11. ASSUME NEW i \in DOMAIN sales', NEW k \in Keys
       PROVE  Total(Deltas(movements', OfSale(i, k))) = -Took(sales'[i], k)
  <2>1. Total(Deltas(movements', OfSale(i, k)))
          = Total(Deltas(movements, OfSale(i, k))) + Total(Deltas(new, OfSale(i, k)))
    BY <1>1, <1>4, DeltasAdded
  <2>2. Total(Deltas(movements, OfSale(i, k))) \in Int /\ Took(s, k) \in Int
    BY <1>6, StockNumbers
  <2>3. CASE i \in DOMAIN sales
    <3>1. \A j \in DOMAIN new : new[j] \notin OfSale(i, k)
      BY <1>3, <1>4, <2>3 DEF OfSale
    <3>2. Total(Deltas(new, OfSale(i, k))) = 0
      BY <3>1, DeltasNone
    <3>3. Total(Deltas(movements, OfSale(i, k))) = -Took(sales[i], k) /\ sales'[i] = sales[i]
      BY <1>3, <2>3 DEF StockKept, SalesMoved
    <3> QED BY <2>1, <2>2, <3>2, <3>3
  <2>4. CASE i = ref
    <3>1. \A n \in DOMAIN movements : movements[n] \notin OfSale(i, k)
      BY <1>3, <2>4 DEF OfSale, StockKept, SalesMoved
    <3>2. Total(Deltas(movements, OfSale(i, k))) = 0
      BY <3>1, DeltasNone
    <3>3. Total(Deltas(new, OfSale(i, k))) = -wanted(k)
      BY <1>1, <1>3, <2>4, SoldIs DEF new, wanted, br, lines, took
    <3> QED BY <1>3, <1>6, <2>1, <2>2, <2>4, <3>2, <3>3
  <2> QED BY <1>3, <2>3, <2>4
<1>12. SalesMoved'
  BY <1>10, <1>11 DEF SalesMoved
<1> QED BY <1>9, <1>12 DEF StockKept

(* Every level is accounted for, whatever the requests and in whatever order.  *)
LEMMA StockHolds == Spec => []StockKept
<1>1. Init => StockKept
  <2> SUFFICES ASSUME Init PROVE StockKept
    OBVIOUS
  <2>1. movements = <<>> /\ sales = <<>> /\ levels = OpeningLevels
    BY DEF Init
  <2>2. ASSUME NEW k \in Keys
        PROVE  levelOf(k) = openingOf(k) + Total(Deltas(movements, OfShelf(k))) - Total(Taken(sales, k))
    <3>1. Total(Deltas(movements, OfShelf(k))) = 0
      <4>1. \A j \in DOMAIN movements : movements[j] \notin OfShelf(k)
        BY <2>1
      <4> QED BY <4>1, DeltasNone
    <3>2. Total(Taken(sales, k)) = 0
      <4>1. DOMAIN Taken(sales, k) = {}
        BY <2>1 DEF Taken
      <4> QED BY <4>1, SumEmpty
    <3>3. levelOf(k) = openingOf(k) /\ openingOf(k) \in Int
      BY <2>1, OpeningAssumption DEF levelOf, openingOf
    <3> QED BY <3>1, <3>2, <3>3
  <2>3. SalesMoved
    BY <2>1 DEF SalesMoved
  <2> QED BY <2>2, <2>3 DEF StockKept, Balanced
<1>2. ASSUME Tables, Tables', StockKept, [Next]_vars PROVE StockKept'
  <2>1. ASSUME levels' = levels, movements' = movements, sales' = sales PROVE StockKept'
    BY <1>2, <2>1 DEF StockKept, Balanced, SalesMoved, levelOf, openingOf
  <2>2. ASSUME NEW t \in Terminals, open(t) \/ (\E c \in Counted : close(t, c)) PROVE StockKept'
    BY <2>1, <2>2 DEF open, close, stock
  <2>3. ASSUME NEW p \in Products, remove(p) PROVE StockKept'
    BY <2>1, <2>3 DEF remove, stock
  <2>4. ASSUME Tick \/ UNCHANGED vars PROVE StockKept'
    BY <2>1, <2>4 DEF Tick, vars, stock
  <2> QED
    BY <1>2, <2>2, <2>3, <2>4, ReceiveBalances, AdjustBalances, CompleteBalances, UndoBalances DEF Next
<1> QED BY <1>1, <1>2, TablesHold, PTL DEF Spec

LEMMA WantedSplit ==
  ASSUME NEW lines \in Seq(SaleLine), NEW br, NEW k
  PROVE  LET in == wantedMilli(br, lines, tracked(lines), k)
             out == wantedMilli(br, lines, DOMAIN lines \ tracked(lines), k)
         IN /\ wantedMilli(br, lines, DOMAIN lines, k) = in + out
            /\ in \in Int /\ out \in Int
<1> DEFINE At(S) == {i \in S : keyOf(br, lines[i]) = k}
           of(S) == [i \in At(S) |-> lines[i].milli]
           D == DOMAIN lines
           W == tracked(lines)
<1>1. IsFiniteSet(D) /\ W \in SUBSET D /\ \A i \in D : lines[i].milli \in Int
  <2>1. W \in SUBSET D
    BY DEF tracked
  <2>2. IsFiniteSet(DOMAIN lines) /\ \A i \in DOMAIN lines : lines[i].milli \in Nat
    BY LinesWanted
  <2> QED BY <2>1, <2>2
<1>2. /\ wantedMilli(br, lines, D, k) = Total(of(D))
      /\ wantedMilli(br, lines, W, k) = Total(of(W))
      /\ wantedMilli(br, lines, D \ W, k) = Total(of(D \ W))
  BY Zenon DEF wantedMilli, SumOf
<1>3. /\ IsFiniteSet(At(D)) /\ of(D) \in [At(D) -> Int] /\ At(W) \in SUBSET At(D)
  <2> HIDE DEF D, W
  <2> QED BY <1>1, FS_Subset
<1>4. of(W) = Restrict(of(D), At(W)) /\ of(D \ W) = Restrict(of(D), At(D) \ At(W))
  <2> HIDE DEF D, W
  <2>1. At(D) \ At(W) = At(D \ W)
    OBVIOUS
  <2>2. of(D \ W) = Restrict(of(D), At(D \ W))
    BY DEF Restrict
  <2>3. of(W) = Restrict(of(D), At(W))
    BY <1>1 DEF Restrict
  <2> QED BY <2>1, <2>2, <2>3
<1> DEFINE A == At(D)
           B == At(W)
           f == of(D)
<1>5. Total(f) = Total(Restrict(f, B)) + Total(Restrict(f, A \ B)) /\ Total(Restrict(f, B)) \in Int
      /\ Total(Restrict(f, A \ B)) \in Int
  <2>1. IsFiniteSet(A) /\ f \in [A -> Int] /\ B \in SUBSET A
    BY <1>3
  <2> HIDE DEF A, B, f
  <2> QED BY <2>1, SumSplit
<1> HIDE DEF At, of
<1> QED BY <1>2, <1>4, <1>5

(* The sales table and the sales that stand, over the whole time.              *)
LEMMA UnitsSoldAre ==
  ASSUME Tables, NEW biz \in DOMAIN Always, NEW k \in DOMAIN levels, BusinessOf[k[1]] = biz
  PROVE  /\ unitsSold(Scoped(Always[biz], biz), k) = Total(Taken(sales, k)) + soldUntracked(k)
         /\ soldUntracked(k) \in Int
<1> DEFINE q == Always[biz]
           b == Scoped(q, biz)
           sold == {i \in DOMAIN sales : /\ sales[i].branchId = k[1] /\ sales[i].status = "completed"
                                         /\ InWindow(sales[i].createdAt, b.window)}
           S == {i \in DOMAIN sales : sales[i].status = "completed" /\ sales[i].branchId = k[1]}
           at(i) == {j \in DOMAIN sales[i].lines : /\ sales[i].lines[j].product = k[2]
                                                   /\ sameVariant(sales[i].lines[j].variant, k[3])}
           all(i) == wantedMilli(k[1], sales[i].lines, DOMAIN sales[i].lines, k)
           in(i) == wantedMilli(k[1], sales[i].lines, tracked(sales[i].lines), k)
           out(i) == wantedMilli(k[1], sales[i].lines, DOMAIN sales[i].lines \ tracked(sales[i].lines), k)
           f == [i \in S |-> in(i)]
           g == [i \in S |-> out(i)]
           h == [i \in S |-> all(i)]
<1>1. /\ k \in Keys /\ k[1] \in Branches /\ k = <<k[1], k[2], k[3]>>
      /\ sales \in Seq(Sale) /\ sales \in Books
      /\ IsFiniteSet(DOMAIN sales)
      /\ \A i \in DOMAIN sales : sales[i].lines \in Seq(SaleLine) /\ sales[i].createdAt \in Instants
  <2>1. k \in Keys /\ sales \in Seq(Sale)
    BY DEF Tables, Shelf
  <2>2. k[1] \in Branches /\ k = <<k[1], k[2], k[3]>>
    BY <2>1 DEF Keys
  <2> QED BY <2>1, <2>2, SalesTyped DEF Books
<1>2. sold = S
  <2>1. /\ q \in Asks /\ Reached(q, k[1]) /\ \A t \in Instants : dayBucket(t, DayStart[biz]) \in q.from .. q.to
    BY <1>1, WholeTime
  <2>2. \A t \in Instants : t \in Int
    BY ScopeAssumption
  <2> HIDE DEF q
  <2>3. ASSUME NEW t \in Instants PROVE InWindow(t, b.window)
    <3>1. biz \in InScope(q)
      BY <1>1, <2>1, <2>2, ScopeReaches
    <3> QED BY <1>1, <2>1, <2>2, <3>1, ScopeReaches
  <2> HIDE DEF b
  <2> QED BY <1>1, <2>3
<1>3. \A i \in DOMAIN sales : at(i) = {j \in DOMAIN sales[i].lines : keyOf(k[1], sales[i].lines[j]) = k}
  BY <1>1 DEF sameVariant, keyOf
<1>4. \A i \in DOMAIN sales : SumOf(at(i), LAMBDA j : sales[i].lines[j].milli) = all(i)
  BY <1>3, Zenon DEF wantedMilli
<1>5. unitsSold(b, k) = Total([i \in sold |-> SumOf(at(i), LAMBDA j : sales[i].lines[j].milli)])
  BY Zenon DEF unitsSold, SumOf
<1>6. [i \in sold |-> SumOf(at(i), LAMBDA j : sales[i].lines[j].milli)] = h
  <2> DEFINE units(i) == SumOf(at(i), LAMBDA j : sales[i].lines[j].milli)
  <2>1. \A i \in S : units(i) = all(i)
    BY <1>4, Zenon
  <2> HIDE DEF units, all
  <2>2. [i \in sold |-> units(i)] = [i \in S |-> all(i)]
    BY <1>2, <2>1
  <2> QED BY <2>2, Zenon DEF units
<1>7. soldUntracked(k) = Total(g)
  BY Zenon DEF soldUntracked, SumOf
<1>8. \A i \in S : all(i) = in(i) + out(i) /\ in(i) \in Int /\ out(i) \in Int
  BY <1>1, WantedSplit
<1>9. IsFiniteSet(S) /\ S \in SUBSET (DOMAIN sales)
  BY <1>1, FS_Subset
<1>10. f = Restrict(Taken(sales, k), S) /\ \A i \in DOMAIN sales \ S : Taken(sales, k)[i] = 0
  BY DEF Taken, Took, Restrict
<1> HIDE DEF S, in, out, all
<1>11. /\ f \in [S -> Int] /\ g \in [S -> Int] /\ h \in [S -> Int] /\ AddsUp(S, f, g, h)
  BY <1>8 DEF AddsUp
<1> HIDE DEF f, g, h
<1>12. Total(h) = Total(f) + Total(g) /\ Total(g) \in Int
  BY <1>9, <1>11, SumPlus, SumType
<1>13. Total(f) = Total(Taken(sales, k))
  <2> DEFINE D == DOMAIN sales
             c == Taken(sales, k)
  <2>1. IsFiniteSet(D) /\ c \in [D -> Int] /\ S \in SUBSET D /\ \A i \in D \ S : c[i] = 0
    BY <1>1, <1>9, <1>10, TakenTyped
  <2> HIDE DEF D, c
  <2>2. Total(Restrict(c, S)) = Total(c)
    BY <2>1, SumWithoutZeros
  <2> QED BY <1>10, <2>2 DEF c
<1> QED BY <1>5, <1>6, <1>7, <1>12, <1>13, Zenon DEF b, q

LEMMA LedgerOfShelf ==
  ASSUME Tables, NEW k
  PROVE  ledgerOf(k, {"receive", "adjustment"}) = Total(Deltas(movements, OfShelf(k)))
<1> DEFINE T == {"receive", "adjustment"}
           S == {n \in DOMAIN movements : keyOf(movements[n].branchId, movements[n]) = k
                                            /\ movements[n].type \in T}
<1>1. S = RowsOf(movements, OfShelf(k))
  <2>1. \A n \in DOMAIN movements : movements[n] \in Movement
    BY StockNumbers
  <2> QED BY <2>1 DEF RowsOf, OfShelf
<1>2. ledgerOf(k, T) = Total([n \in S |-> movements[n].qtyDelta])
  BY Zenon DEF ledgerOf, SumOf
<1> QED BY <1>1, <1>2, Zenon DEF Deltas

(* Marking a row low and counting low rows are one rule.                       *)
LEMMA LowRows ==
  ASSUME Tables, NEW biz \in DOMAIN Always, NEW b \in resolve(Always[biz])
  PROVE  lowStockCountSql(b) = Cardinality({r \in onHand(Always[biz]).rows : r.isLow})
<1> DEFINE w == Scoped(Always[biz], biz)
           low(k) == isLow(levels[k], lowStockThreshold[k[2]])
           K == {k \in ShelvesOf(biz) : low(k)}
           R == {r \in onHand(Always[biz]).rows : r.isLow}
           name == [k \in K |-> StockRow(w, k)]
<1>1. /\ b = w /\ onHandKeys(b) = ShelvesOf(biz)
      /\ \A r : r \in onHand(Always[biz]).rows <=> \E k \in ShelvesOf(biz) : r = StockRow(w, k)
  BY OnHandRows
<1>2. \A k : StockRow(w, k).key = k /\ StockRow(w, k).isLow = low(k)
  BY DEF StockRow
<1>3. lowStockCountSql(b) = Cardinality(K)
  BY <1>1, Zenon DEF lowStockCountSql, isLow
<1>4. IsFiniteSet(K)
  <2>1. K \in SUBSET (DOMAIN levels) /\ IsFiniteSet(DOMAIN levels)
    BY DEF Tables, Shelf, ShelvesOf
  <2> QED BY <2>1, FS_Subset
<1> HIDE DEF low
<1>5. /\ \A k \in K : name[k] \in R
      /\ \A r \in R : \E k \in K : name[k] = r
      /\ \A i, j \in K : name[i] = name[j] => i = j
  <2> HIDE DEF w
  <2>1. \A k \in K : StockRow(w, k) \in R
    BY <1>1, <1>2
  <2>2. \A r \in R : \E k \in K : StockRow(w, k) = r
    BY <1>1, <1>2
  <2>3. \A i, j \in K : StockRow(w, i) = StockRow(w, j) => i = j
    BY <1>2
  <2> HIDE DEF K, R
  <2> QED BY <2>1, <2>2, <2>3
<1> HIDE DEF K, R
<1>6. name \in Bijection(K, R)
  <2>1. name \in [K -> R]
    BY <1>5
  <2> HIDE DEF name
  <2> QED BY <1>5, <2>1 DEF Bijection, Injection, Surjection, IsInjective
<1>7. Cardinality(R) = Cardinality(K)
  BY <1>4, <1>6, FS_Bijection DEF ExistsBijection
<1> QED BY <1>3, <1>7 DEF R

LEMMA CostOfShelf ==
  ASSUME Tables, NEW k \in DOMAIN levels, unitCost(k) # Null
  PROVE  unitCost(k) \in Nat
<1>1. k[2] \in Products /\ k[3] \in Variants \cup {Null}
  BY DEF Tables, Shelf, Keys
<1>2. /\ productCost[k[2]] \in Nat \cup {Null}
      /\ k[3] # Null => variantCost[k[3]] \in Nat \cup {Null}
  BY <1>1 DEF Tables, Prices
<1> QED BY <1>2 DEF unitCost

(* A shelf's worth is within half a centavo, an exact half lost included.      *)
LEMMA WorthNear ==
  ASSUME NEW milli \in Int, NEW cost \in Nat, cost # Null
  PROVE  withinHalf(valuationC(milli, cost), milli * cost)
<1>1. PICK n \in Int : n = milli * cost
  OBVIOUS
<1>2. 1000 \in Positive /\ 2 * 1000 = 2000
  BY DEF Positive
<1>3. CASE (2 * n) % (2 * 1000) = 1000 /\ <<milli, cost>> \in ValueShort
  <2> DEFINE v == n \div 1000
  <2>1. valuationC(milli, cost) = v
    BY <1>1, <1>3 DEF valuationC
  <2>2. v \in Int /\ 2 * n - 2 * 1000 * v = 1000
    BY <1>2, <1>3, HalfLost
  <2> HIDE DEF v
  <2>3. withinHalf(v, n)
    BY <2>2 DEF withinHalf
  <2> QED BY <1>1, <2>1, <2>3
<1>4. CASE ~((2 * n) % (2 * 1000) = 1000 /\ <<milli, cost>> \in ValueShort)
  <2> DEFINE v == halfUp(n, 1000)
  <2>1. valuationC(milli, cost) = v
    BY <1>1, <1>4 DEF valuationC
  <2>2. Near(v, n, 1000)
    BY <1>2, HalfUpNear
  <2> HIDE DEF v
  <2>3. withinHalf(v, n)
    BY <2>2 DEF withinHalf, Near
  <2> QED BY <1>1, <2>1, <2>3
<1> QED BY <1>3, <1>4

(* StockAccounted of InventoryAgreement: what a shelf shows is what it opened  *)
(* with, plus deliveries and corrections, less what the sales table says was   *)
(* sold with tracking, whatever was sold, undone or corrected in between.     *)
THEOREM ShelvesAccountForSales == Spec => []StockAccounted
<1>1. Tables /\ StockKept => StockAccounted
  <2> SUFFICES ASSUME Tables, StockKept PROVE StockAccounted
    OBVIOUS
  <2>1. ASSUME NEW biz \in DOMAIN Always, NEW r \in onHand(Always[biz]).rows
        PROVE  r.qty = openingOf(r.key) + ledgerOf(r.key, {"receive", "adjustment"})
                         - r.unitsSold + soldUntracked(r.key)
    <3>1. PICK k \in ShelvesOf(biz) : r = StockRow(Scoped(Always[biz], biz), k)
      BY OnHandRows
    <3>2. k \in DOMAIN levels /\ BusinessOf[k[1]] = biz /\ k \in Keys
      BY DEF ShelvesOf, Tables, Shelf
    <3>3. r.key = k /\ r.qty = levels[k] /\ r.unitsSold = unitsSold(Scoped(Always[biz], biz), k)
      BY <3>1 DEF StockRow
    <3>4. /\ unitsSold(Scoped(Always[biz], biz), k) = Total(Taken(sales, k)) + soldUntracked(k)
          /\ soldUntracked(k) \in Int
      BY <3>2, UnitsSoldAre
    <3>5. levels[k] = openingOf(k) + Total(Deltas(movements, OfShelf(k))) - Total(Taken(sales, k))
      BY <3>2 DEF StockKept, Balanced, levelOf
    <3>6. ledgerOf(k, {"receive", "adjustment"}) = Total(Deltas(movements, OfShelf(k)))
      BY LedgerOfShelf
    <3>7. PICK o \in Int, d \in Int, s \in Int, u \in Int :
            /\ o = openingOf(k) /\ d = Total(Deltas(movements, OfShelf(k)))
            /\ s = Total(Taken(sales, k)) /\ u = soldUntracked(k)
      BY <3>4, StockNumbers
    <3>8. r.qty = o + d - s /\ r.unitsSold = s + u
      BY <3>3, <3>4, <3>5, <3>7
    <3>9. r.qty = o + d - r.unitsSold + u
      BY <3>7, <3>8
    <3> QED BY <3>3, <3>6, <3>7, <3>9
  <2>3. ASSUME NEW biz \in DOMAIN Always, NEW r \in onHand(Always[biz]).rows, r.unitCostC # Null
        PROVE  withinHalf(r.valueC, r.qty * r.unitCostC)
    <3>1. PICK k \in ShelvesOf(biz) : r = StockRow(Scoped(Always[biz], biz), k)
      BY OnHandRows
    <3>2. r.qty = levels[k] /\ r.unitCostC = unitCost(k) /\ r.valueC = valuationC(levels[k], unitCost(k))
      BY <3>1 DEF StockRow
    <3>3. levels[k] \in Int /\ unitCost(k) \in Nat
      BY <2>3, <3>2, CostOfShelf DEF ShelvesOf, Tables, Shelf
    <3>4. withinHalf(valuationC(levels[k], unitCost(k)), levels[k] * unitCost(k))
      BY <2>3, <3>2, <3>3, WorthNear
    <3> QED BY <3>2, <3>4
  <2>2. ASSUME NEW biz \in DOMAIN Always, NEW b \in resolve(Always[biz])
        PROVE  lowStockCountSql(b) = Cardinality({r \in onHand(Always[biz]).rows : r.isLow})
    BY LowRows
  <2> QED BY <2>1, <2>2, <2>3, Zenon DEF StockAccounted
<1> QED BY <1>1, TablesHold, StockHolds, PTL

----------------------------------------------------------------------------
(* The pages of the ledger                                                   *)

(* Movements have an order: by instant, and within one by uuid, which no two   *)
(* share.                                                                    *)
LEMMA NewestOrder ==
  ASSUME Tables
  PROVE  /\ \A m \in DOMAIN movements : ~newer(m, m)
         /\ \A m, n \in DOMAIN movements : m # n => newer(m, n) \/ newer(n, m)
         /\ \A l, m, n \in DOMAIN movements : newer(l, m) /\ newer(m, n) => newer(l, n)
<1>1. movements \in Seq(Movement) /\ Len(movements) <= Len(IdRank)
  BY DEF Tables, Ledger
<1>2. /\ DOMAIN movements = 1 .. Len(movements) /\ Len(movements) \in Nat
      /\ \A n \in DOMAIN movements : movements[n].createdAt \in Int
  BY <1>1, MovementsTyped, ScopeAssumption
<1>3. /\ DOMAIN IdRank = 1 .. Len(IdRank) /\ Len(IdRank) \in Nat
      /\ \A n \in DOMAIN IdRank : IdRank[n] \in Nat
      /\ \A m, n \in DOMAIN IdRank : IdRank[m] = IdRank[n] => m = n
  BY UuidsAssumption
<1>4. DOMAIN movements \subseteq DOMAIN IdRank
  BY <1>1, <1>2, <1>3
<1> DEFINE at == [n \in DOMAIN movements |-> movements[n].createdAt]
           id == [n \in DOMAIN movements |-> IdRank[n]]
<1>5. /\ at \in [DOMAIN movements -> Int] /\ id \in [DOMAIN movements -> Int]
      /\ \A m, n \in DOMAIN movements : id[m] = id[n] => m = n
  BY <1>2, <1>3, <1>4
<1>6. \A m, n \in DOMAIN movements : newer(m, n) <=> at[m] > at[n] \/ (at[m] = at[n] /\ id[m] > id[n])
  BY DEF newer
<1> HIDE DEF at, id
<1> DEFINE D == DOMAIN movements
<1>7. \A m, n \in D : at[m] \in Int /\ id[m] \in Int /\ (id[m] = id[n] => m = n)
  BY <1>5
<1> HIDE DEF D
<1>8. \A m \in D : ~newer(m, m)
  BY <1>6, <1>7 DEF D
<1>9. \A m, n \in D : m # n => newer(m, n) \/ newer(n, m)
  BY <1>6, <1>7 DEF D
<1>10. \A l, m, n \in D : newer(l, m) /\ newer(m, n) => newer(l, n)
  BY <1>6, <1>7 DEF D
<1> QED BY <1>8, <1>9, <1>10 DEF D

(* The merge compares as the queries order.                                   *)
LEMMA MergeOrder ==
  ASSUME Tables, NEW m \in DOMAIN movements, NEW n \in DOMAIN movements
  PROVE  compare(m, n) < 0 <=> newer(m, n)
<1>1. movements \in Seq(Movement) /\ Len(movements) <= Len(IdRank)
  BY DEF Tables, Ledger
<1>2. movements[m].createdAt \in Int /\ movements[n].createdAt \in Int /\ DOMAIN movements = 1 .. Len(movements)
  BY <1>1, MovementsTyped, ScopeAssumption
<1>3. m \in DOMAIN IdRank /\ n \in DOMAIN IdRank
  BY <1>1, <1>2, UuidsAssumption
<1>4. IdRank[m] \in Nat /\ IdRank[n] \in Nat
  BY <1>3, UuidsAssumption
<1>5. PICK a \in Int, b \in Int, i \in Int, j \in Int :
        a = movements[m].createdAt /\ b = movements[n].createdAt /\ i = IdRank[m] /\ j = IdRank[n]
  BY <1>2, <1>4
<1>6. /\ compare(m, n) = IF b - a # 0 THEN b - a ELSE j - i
      /\ newer(m, n) <=> a > b \/ (a = b /\ i > j)
  BY <1>5 DEF compare, localeCompare, newer
<1> QED BY <1>6

(* The rank of a movement among some is its place, from zero.                 *)
LEMMA RankIsPlace ==
  ASSUME Tables, NEW S \in SUBSET (DOMAIN movements)
  PROVE  /\ IsFiniteSet(S) /\ Cardinality(S) \in Nat
         /\ \A m \in S : rank(m, S) \in 0 .. Cardinality(S) - 1
         /\ \A m, n \in S : newer(m, n) <=> rank(m, S) < rank(n, S)
         /\ \A m, n \in S : rank(m, S) = rank(n, S) => m = n
         /\ \A i \in 0 .. Cardinality(S) - 1 : \E m \in S : rank(m, S) = i
<1> DEFINE R == {p \in S \X S : newer(p[1], p[2])}
           place == [m \in S |-> rank(m, S)]
<1>1. IsFiniteSet(S)
  BY MovementsTyped, FS_Subset DEF Tables, Ledger
<1>2. \A m, n \in S : <<m, n>> \in R <=> newer(m, n)
  OBVIOUS
<1>3. Orders(R, S)
  <2> HIDE DEF R
  <2>1. \A m \in S : m \in DOMAIN movements
    OBVIOUS
  <2> QED BY <1>2, <2>1, NewestOrder DEF Orders
<1>4. \A m \in S : rank(m, S) = Cardinality({n \in S : <<n, m>> \in R})
  <2> SUFFICES ASSUME NEW m \in S PROVE rank(m, S) = Cardinality({n \in S : <<n, m>> \in R})
    OBVIOUS
  <2>1. {n \in S : newer(n, m)} = {n \in S : <<n, m>> \in R}
    BY <1>2
  <2> QED BY <2>1 DEF rank
<1>5. \A m \in S : rank(m, S) \in Nat
  <2> SUFFICES ASSUME NEW m \in S PROVE rank(m, S) \in Nat
    OBVIOUS
  <2>1. {n \in S : newer(n, m)} \in SUBSET S
    OBVIOUS
  <2> QED BY <1>1, <2>1, FS_Subset, FS_CardinalityType DEF rank
<1> HIDE DEF R
<1>6. Places(place, R, S)
  <2>1. place \in [S -> Nat] /\ \A m \in S : place[m] = rank(m, S)
    BY <1>5
  <2> HIDE DEF place
  <2> QED BY <1>4, <2>1 DEF Places
<1>7. \A m \in S : place[m] = rank(m, S)
  OBVIOUS
<1> HIDE DEF place
<1>8. Cardinality(S) \in Nat
  BY <1>1, FS_CardinalityType
<1>9. \A m \in S : place[m] \in 0 .. Cardinality(S) - 1
  BY <1>1, <1>3, <1>6, RanksNumber
<1>10. \A m, n \in S : <<m, n>> \in R <=> place[m] < place[n]
  BY <1>1, <1>3, <1>6, RanksNumber
<1>11. \A m, n \in S : place[m] = place[n] => m = n
  BY <1>1, <1>3, <1>6, RanksNumber
<1>12. \A i \in 0 .. Cardinality(S) - 1 : \E m \in S : place[m] = i
  <2>1. place \in Surjection(S, 0 .. Cardinality(S) - 1)
    BY <1>1, <1>3, <1>6, RanksNumber
  <2> QED BY <2>1 DEF Surjection
<1> QED BY <1>1, <1>2, <1>7, <1>8, <1>9, <1>10, <1>11, <1>12

(* Sorting some movements puts each at its rank.                              *)
LEMMA SortedByRank ==
  ASSUME Tables, NEW S \in SUBSET (DOMAIN movements)
  PROVE  /\ sorted(S) \in Seq(S) /\ Len(sorted(S)) = Cardinality(S)
         /\ \A i \in 1 .. Cardinality(S) : rank(sorted(S)[i], S) = i - 1
<1> DEFINE N == Cardinality(S)
           o == sorted(S)
           place == [m \in S |-> rank(m, S)]
<1>1. N \in Nat /\ \A i \in 0 .. N - 1 : \E m \in S : rank(m, S) = i
  BY RankIsPlace
<1>2. \A m \in S : place[m] = rank(m, S) /\ place[m] = Cardinality({n \in S : compare(n, m) < 0})
  <2> SUFFICES ASSUME NEW m \in S PROVE rank(m, S) = Cardinality({n \in S : compare(n, m) < 0})
    OBVIOUS
  <2>1. {n \in S : newer(n, m)} = {n \in S : compare(n, m) < 0}
    BY MergeOrder
  <2> QED BY <2>1 DEF rank
<1> HIDE DEF place
<1>3. DOMAIN o = 1 .. N /\ \A i \in 1 .. N : o[i] = CHOOSE m \in S : place[m] = i - 1
  BY <1>2 DEF sorted
<1>4. o \in [1 .. N -> S] <=> \A i \in 1 .. N : o[i] \in S
  BY DEF sorted
<1> HIDE DEF o, N
<1>5. \A i \in 1 .. N : o[i] \in S /\ place[o[i]] = i - 1
  <2>1. \A i \in 1 .. N : i - 1 \in 0 .. N - 1
    BY <1>1
  <2> QED BY <1>1, <1>2, <1>3, <2>1
<1>6. o \in Seq(S) /\ Len(o) = N
  <2>1. o \in [1 .. N -> S]
    BY <1>4, <1>5
  <2>2. o \in Seq(S)
    BY <1>1, <2>1
  <2> QED BY <1>1, <1>3, <2>2
<1> QED BY <1>2, <1>5, <1>6 DEF o, N

(* A merge that holds the first `limit' of what was asked has the same first    *)
(* `limit', in the same places, whatever else is in it.                       *)
LEMMA MergeKeepsPlaces ==
  ASSUME Tables, NEW asked \in SUBSET (DOMAIN movements), NEW some \in SUBSET asked, NEW limit \in Nat,
         \A m \in asked : rank(m, asked) < limit => m \in some
  PROVE  /\ \A m \in some : rank(m, asked) < limit <=> rank(m, some) < limit
         /\ \A m \in some : rank(m, asked) < limit => rank(m, some) = rank(m, asked)
<1>1. some \in SUBSET (DOMAIN movements)
  OBVIOUS
<1>2. /\ \A m \in asked : rank(m, asked) \in 0 .. Cardinality(asked) - 1
      /\ \A m, n \in asked : newer(m, n) <=> rank(m, asked) < rank(n, asked)
      /\ \A i \in 0 .. Cardinality(asked) - 1 : \E m \in asked : rank(m, asked) = i
      /\ Cardinality(asked) \in Nat
  BY RankIsPlace
<1>3. /\ \A m \in some : rank(m, some) \in Nat
      /\ \A m, n \in some : newer(m, n) <=> rank(m, some) < rank(n, some)
  <2>1. Cardinality(some) \in Nat /\ \A m \in some : rank(m, some) \in 0 .. Cardinality(some) - 1
    BY <1>1, RankIsPlace
  <2> QED BY <1>1, <2>1, RankIsPlace
<1>4. ASSUME NEW m \in some, rank(m, asked) < limit PROVE rank(m, some) = rank(m, asked)
  <2>1. \A n \in asked : newer(n, m) => n \in some
    BY <1>2, <1>4
  <2>2. {n \in asked : newer(n, m)} = {n \in some : newer(n, m)}
    BY <2>1
  <2> QED BY <2>2 DEF rank
<1>5. ASSUME NEW m \in some, ~(rank(m, asked) < limit) PROVE ~(rank(m, some) < limit)
  <2>1. CASE limit = 0
    BY <1>3, <2>1
  <2>2. CASE limit # 0
    <3>1. limit - 1 \in 0 .. Cardinality(asked) - 1 /\ limit - 1 < rank(m, asked)
      BY <1>2, <1>5, <2>2
    <3>2. PICK n \in asked : rank(n, asked) = limit - 1
      BY <1>2, <3>1
    <3>3. n \in some
      BY <3>2
    <3>4. rank(n, some) = limit - 1
      BY <1>4, <3>2, <3>3
    <3>5. newer(n, m)
      BY <1>2, <3>1, <3>2
    <3>6. rank(n, some) < rank(m, some)
      BY <1>3, <3>3, <3>5
    <3> QED BY <1>3, <3>4, <3>6
  <2> QED BY <2>1, <2>2
<1> QED BY <1>3, <1>4, <1>5

(* A product grows with its factor, by the other factor at least.              *)
LEMMA FactorsGrow ==
  ASSUME NEW a \in Int, NEW b \in Int, NEW s \in Nat \ {0}
  PROVE  /\ a * s \in Int /\ b * s \in Int
         /\ a < b <=> a * s < b * s
         /\ a < b => a * s + s <= b * s
<1>1. \A x, y \in Int : x <= y => x * s <= y * s
  OBVIOUS
<1>2. a < b => (a + 1) * s <= b * s
  BY <1>1
<1>3. (a + 1) * s = a * s + s /\ a * s \in Int /\ b * s \in Int
  OBVIOUS
<1>4. b <= a => b * s <= a * s
  BY <1>1
<1> QED BY <1>2, <1>3, <1>4

(* Which page a place is on.                                                  *)
LEMMA PageOfPlace ==
  ASSUME NEW r \in Int, NEW p \in Int, NEW s \in Nat \ {0}
  PROVE  r \div s = p - 1 <=> (p - 1) * s <= r /\ r < p * s
<1> DEFINE d == r \div s
<1>1. d \in Int /\ s * d <= r /\ r < s * d + s
  BY DivBounds DEF Positive
<1> HIDE DEF d
<1>2. s * d = d * s /\ (p - 1) * s + s = p * s /\ (p - 1) * s \in Int /\ p * s \in Int
  <2>1. \A x \in Int : s * x = x * s /\ x * s \in Int
    OBVIOUS
  <2>2. (p - 1) * s + s = p * s
    OBVIOUS
  <2> QED BY <1>1, <2>1, <2>2
<1>3. /\ d < p - 1 => d * s + s <= (p - 1) * s
      /\ p - 1 < d => (p - 1) * s + s <= d * s
  BY <1>1, FactorsGrow
<1>4. d = p - 1 => d * s = (p - 1) * s
  OBVIOUS
<1>5. d * s \in Int
  BY <1>1
<1> QED BY <1>1, <1>2, <1>3, <1>4, <1>5 DEF d

(* The number of pages the code divides out is that of the pages that have a   *)
(* first row, and one where there is nothing.                                 *)
LEMMA GreatestIs ==
  ASSUME NEW S \in SUBSET Int, NEW m \in S, \A x \in S : m >= x
  PROVE  Max(S) = m
<1>1. \A y \in S : (\A x \in S : y >= x) => y = m
  OBVIOUS
<1> QED BY <1>1 DEF Max

LEMMA PagesCounted ==
  ASSUME NEW t \in Nat, NEW s \in Nat \ {0}
  PROVE  Max({1, (t + s - 1) \div s}) = Max({1} \cup {i \in 1 .. t : (i - 1) * s < t})
<1> DEFINE c == (t + s - 1) \div s
           first(i) == (i - 1) * s
           started == {i \in 1 .. t : first(i) < t}
<1>1. c \in Int /\ c * s <= t + s - 1 /\ t + s - 1 < c * s + s /\ c * s \in Int
  <2>1. t + s - 1 \in Int /\ s \in Positive
    BY DEF Positive
  <2>2. c \in Int /\ s * c <= t + s - 1 /\ t + s - 1 < s * c + s
    BY <2>1, DivBounds
  <2> HIDE DEF c
  <2>3. s * c = c * s /\ c * s \in Int
    BY <2>2
  <2> QED BY <2>2, <2>3
<1> HIDE DEF c
<1>2. \A i \in Int : first(i) \in Int /\ first(i) = i * s - s /\ i * s \in Int
  OBVIOUS
<1>3. ASSUME NEW i \in Int PROVE first(i) < t <=> i <= c
  <2>1. c < i => c * s + s <= i * s
    BY <1>1, FactorsGrow
  <2>2. i <= c => i * s <= c * s
    BY <1>1, FactorsGrow
  <2> QED BY <1>1, <1>2, <2>1, <2>2
<1> HIDE DEF first
<1>4. CASE t = 0
  <2>1. c <= 0
    <3>1. ~(first(1) < t)
      BY <1>2, <1>4
    <3> QED BY <1>1, <1>3, <3>1
  <2>2. Max({1, c}) = 1
    BY <1>1, <2>1, GreatestIs
  <2>3. {1} \cup started = {1}
    BY <1>4
  <2>4. Max({1}) = 1
    BY GreatestIs
  <2> QED BY <2>2, <2>3, <2>4 DEF c, first
<1>5. CASE t # 0
  <2>1. 1 <= c
    <3>1. first(1) = 0
      BY DEF first
    <3> QED BY <1>1, <1>3, <1>5, <3>1
  <2>2. c <= t
    <3>1. t * s >= t
      OBVIOUS
    <3>2. first(t + 1) = t * s
      BY DEF first
    <3>3. ~(t + 1 <= c)
      BY <1>3, <3>1, <3>2
    <3> QED BY <1>1, <3>3
  <2>3. Max({1, c}) = c
    BY <1>1, <2>1, GreatestIs
  <2>4. c \in started /\ \A i \in started : i <= c
    BY <1>1, <1>3, <2>1, <2>2
  <2>5. Max({1} \cup started) = c
    <3>1. {1} \cup started \in SUBSET Int /\ c \in {1} \cup started /\ \A i \in {1} \cup started : c >= i
      BY <1>1, <2>1, <2>4
    <3> HIDE DEF started
    <3> QED BY <3>1, GreatestIs
  <2> QED BY <2>3, <2>5 DEF c, first
<1> QED BY <1>4, <1>5

(* What a query asks of the ledger, and which business answers for what.        *)
LEMMA AskedOfDesk ==
  ASSUME Tables, NEW q \in Asks, NEW filter
  PROVE  LET asked == askedOf(q, resolve(q), filter)
         IN /\ asked \in SUBSET (DOMAIN movements)
            /\ \A b \in InScope(q) : movementWhere(Scoped(q, b), filter)
                                     = {n \in asked : businessOfRow(movements[n]) = b}
            /\ \A n \in asked : businessOfRow(movements[n]) \in InScope(q)
<1> DEFINE asked == askedOf(q, resolve(q), filter)
           wanted(n) == filter.type \in {Null, movements[n].type} /\ filter.product \in {Null, movements[n].product}
<1>1. \A n \in DOMAIN movements : movements[n].branchId \in Branches /\ movements[n].createdAt \in Int
  BY MovementsTyped, ScopeAssumption DEF Tables, Ledger
<1>2. ASSUME NEW n \in DOMAIN movements
      PROVE  LET biz == businessOfRow(movements[n])
             IN /\ Reached(q, movements[n].branchId) => biz \in InScope(q)
                /\ \A b \in InScope(q) :
                     /\ movements[n].branchId \in Scoped(q, b).branchIds <=> b = biz /\ Reached(q, movements[n].branchId)
                     /\ InWindow(movements[n].createdAt, Scoped(q, b).window)
                          <=> dayBucket(movements[n].createdAt, DayStart[b]) \in q.from .. q.to
  BY <1>1, ScopeReaches DEF businessOfRow
<1>3. resolve(q) = {Scoped(q, b) : b \in InScope(q)}
  BY ScopeIsEachOnce
<1>4. ASSUME NEW n \in DOMAIN movements
      PROVE  (\E b \in resolve(q) : movements[n].branchId \in b.branchIds) <=> Reached(q, movements[n].branchId)
  <2>1. (\E b \in resolve(q) : movements[n].branchId \in b.branchIds)
          <=> \E b \in InScope(q) : movements[n].branchId \in Scoped(q, b).branchIds
    BY <1>3
  <2> QED BY <1>2, <2>1
<1> DEFINE onDays(n) == dayBucket(movements[n].createdAt, DayStart[businessOfRow(movements[n])]) \in q.from .. q.to
<1>5. \A n \in DOMAIN movements : n \in asked <=> Reached(q, movements[n].branchId) /\ onDays(n) /\ wanted(n)
  BY <1>4 DEF askedOf, onOneOf
<1>6. ASSUME NEW b \in InScope(q), NEW n \in DOMAIN movements
      PROVE  n \in movementWhere(Scoped(q, b), filter) <=> n \in asked /\ businessOfRow(movements[n]) = b
  <2> DEFINE s == Scoped(q, b)
  <2> HIDE DEF s
  <2>1. n \in movementWhere(s, filter)
          <=> movements[n].branchId \in s.branchIds /\ InWindow(movements[n].createdAt, s.window) /\ wanted(n)
    BY DEF movementWhere
  <2> HIDE DEF wanted, asked
  <2> QED BY <1>2, <1>5, <2>1 DEF s
<1>7. asked \in SUBSET (DOMAIN movements)
  BY DEF askedOf
<1>8. \A n \in asked : businessOfRow(movements[n]) \in InScope(q)
  <2> HIDE DEF asked
  <2> QED BY <1>2, <1>5, <1>7
<1>9. ASSUME NEW b \in InScope(q)
      PROVE  movementWhere(Scoped(q, b), filter) = {n \in asked : businessOfRow(movements[n]) = b}
  <2>1. movementWhere(Scoped(q, b), filter) \in SUBSET (DOMAIN movements)
    BY DEF movementWhere
  <2> HIDE DEF asked
  <2> QED BY <1>6, <1>7, <2>1
<1> QED BY <1>7, <1>8, <1>9

(* The counts of the businesses add up to what was asked.                      *)
LEMMA MovementsCounted ==
  ASSUME Tables, NEW q \in Asks, NEW filter
  PROVE  SumOf(resolve(q), LAMBDA b : movementsCountSql(b, filter))
           = Cardinality(askedOf(q, resolve(q), filter))
<1> DEFINE scope == resolve(q)
           asked == askedOf(q, scope, filter)
           g == [b \in scope |-> movementsCountSql(b, filter)]
           key == [n \in asked |-> Scoped(q, businessOfRow(movements[n]))]
<1>1. /\ asked \in SUBSET (DOMAIN movements)
      /\ \A n \in asked : businessOfRow(movements[n]) \in InScope(q)
      /\ \A b \in InScope(q) : movementWhere(Scoped(q, b), filter)
                              = {n \in asked : businessOfRow(movements[n]) = b}
  BY AskedOfDesk
<1>2. SumOf(scope, LAMBDA b : movementsCountSql(b, filter)) = Total(g)
  BY Zenon DEF SumOf
<1>3. IsFiniteSet(scope) /\ IsFiniteSet(asked)
  BY <1>1, ScopeIsEachOnce, MovementsTyped, FS_Subset DEF Tables, Ledger
<1>4. /\ scope = {Scoped(q, b) : b \in InScope(q)}
      /\ \A b \in InScope(q) : Scoped(q, b).id = b
  <2>1. \A b \in InScope(q) : Scoped(q, b).id = b
    BY DEF Scoped
  <2> QED BY <2>1, ScopeIsEachOnce
<1> HIDE DEF scope, asked
<1>5. key \in [asked -> scope] /\ \A n \in asked : key[n] = Scoped(q, businessOfRow(movements[n]))
  BY <1>1, <1>4
<1> HIDE DEF key
<1>6. ASSUME NEW b \in scope PROVE g[b] = Cardinality({n \in asked : key[n] = b})
  <2>1. PICK c \in InScope(q) : b = Scoped(q, c)
    BY <1>4
  <2>2. movementWhere(b, filter) = {n \in asked : key[n] = b}
    BY <1>1, <1>4, <1>5, <2>1
  <2> QED BY <2>2 DEF movementsCountSql
<1>7. \A b \in scope : IsFiniteSet({n \in asked : key[n] = b})
  BY <1>3, FS_Subset
<1>8. g \in [scope -> Int]
  <2>1. \A b \in scope : Cardinality({n \in asked : key[n] = b}) \in Int
    BY <1>7, FS_CardinalityType
  <2>2. \A b \in scope : g[b] \in Int
    BY <1>6, <2>1
  <2>3. DOMAIN g = scope /\ g = [b \in scope |-> g[b]]
    OBVIOUS
  <2> HIDE DEF g
  <2> QED BY <2>2, <2>3
<1> HIDE DEF g
<1>9. Total(g) = Cardinality(asked)
  BY <1>3, <1>5, <1>6, <1>8, CountByKey
<1> QED BY <1>2, <1>9 DEF scope, asked

(* The merge of what the businesses answer has the newest of all.               *)
LEMMA MergeHasNewest ==
  ASSUME Tables, NEW q \in Asks, NEW filter, NEW limit \in Nat
  PROVE  LET asked == askedOf(q, resolve(q), filter)
             merge == UNION {movementsSql(b, filter, limit) : b \in resolve(q)}
         IN merge \in SUBSET asked /\ \A m \in asked : rank(m, asked) < limit => m \in merge
<1> DEFINE scope == resolve(q)
           asked == askedOf(q, scope, filter)
           merge == UNION {movementsSql(b, filter, limit) : b \in scope}
           at(b) == {n \in asked : businessOfRow(movements[n]) = b}
<1>1. /\ asked \in SUBSET (DOMAIN movements)
      /\ \A n \in asked : businessOfRow(movements[n]) \in InScope(q)
      /\ \A b \in InScope(q) : movementWhere(Scoped(q, b), filter) = at(b)
  BY AskedOfDesk
<1>2. scope = {Scoped(q, b) : b \in InScope(q)}
  BY ScopeIsEachOnce
<1> HIDE DEF asked, scope
<1>3. \A b \in InScope(q) : movementsSql(Scoped(q, b), filter, limit) = {m \in at(b) : rank(m, at(b)) < limit}
  BY <1>1 DEF movementsSql, firstRows
<1>4. merge \in SUBSET asked
  <2>1. \A b \in scope : movementsSql(b, filter, limit) \in SUBSET asked
    BY <1>2, <1>3
  <2> QED BY <2>1
<1>5. ASSUME NEW m \in asked, rank(m, asked) < limit PROVE m \in merge
  <2> DEFINE b == businessOfRow(movements[m])
             here == {n \in at(b) : newer(n, m)}
             all == {n \in asked : newer(n, m)}
  <2>1. b \in InScope(q) /\ m \in at(b)
    BY <1>1
  <2>2. IsFiniteSet(all) /\ here \in SUBSET all
    BY <1>1, RankIsPlace, FS_Subset
  <2>3. Cardinality(here) <= Cardinality(all) /\ Cardinality(here) \in Nat /\ Cardinality(all) \in Nat
    BY <2>2, FS_Subset, FS_CardinalityType
  <2>4. rank(m, at(b)) = Cardinality(here) /\ rank(m, asked) = Cardinality(all)
    BY DEF rank
  <2> HIDE DEF here, all
  <2>5. rank(m, at(b)) < limit
    BY <1>5, <2>3, <2>4
  <2> HIDE DEF b
  <2>6. m \in movementsSql(Scoped(q, b), filter, limit)
    BY <1>3, <2>1, <2>5
  <2> QED BY <1>2, <2>1, <2>6
<1> QED BY <1>4, <1>5 DEF asked, scope

(* The page cut out of a merge is the page of all that was asked.               *)
Cut(some, p, size) ==
  SubSeq(sorted(some), (p - 1) * size + 1, Min({p * size, Len(sorted(some))}))
IsPage(data, asked, p, size) ==
  /\ {data[i] : i \in DOMAIN data} = {m \in asked : rank(m, asked) \div size = p - 1}
  /\ \A i, j \in DOMAIN data : i < j => newer(data[i], data[j])

LEMMA PageIsCut ==
  ASSUME Tables, NEW asked \in SUBSET (DOMAIN movements), NEW some \in SUBSET asked,
         NEW p \in Nat \ {0}, NEW size \in Nat \ {0},
         \A m \in asked : rank(m, asked) < p * size => m \in some
  PROVE  IsPage(Cut(some, p, size), asked, p, size)
<1> DEFINE a == (p - 1) * size
           l == p * size
           rows == sorted(some)
           N == Cardinality(some)
           last == Min({l, N})
           data == Cut(some, p, size)
<1>1. a \in Nat /\ l \in Nat /\ l = a + size
  <2>1. \A x \in Nat : x * size \in Nat
    OBVIOUS
  <2>2. p - 1 \in Nat /\ p \in Nat
    OBVIOUS
  <2>3. (p - 1) * size + size = p * size
    OBVIOUS
  <2> QED BY <2>1, <2>2, <2>3
<1>2. some \in SUBSET (DOMAIN movements)
  OBVIOUS
<1>3. /\ rows \in Seq(some) /\ Len(rows) = N
      /\ \A i \in 1 .. N : rank(rows[i], some) = i - 1
  BY <1>2, SortedByRank
<1>4. /\ N \in Nat
      /\ \A m \in some : rank(m, some) \in 0 .. N - 1
      /\ \A m, n \in some : newer(m, n) <=> rank(m, some) < rank(n, some)
      /\ \A m, n \in some : rank(m, some) = rank(n, some) => m = n
  BY <1>2, RankIsPlace
<1>5. \A m \in asked : rank(m, asked) \in Int
  <2>1. Cardinality(asked) \in Nat /\ \A m \in asked : rank(m, asked) \in 0 .. Cardinality(asked) - 1
    BY RankIsPlace
  <2> QED BY <2>1
<1>6. /\ \A m \in some : rank(m, asked) < l <=> rank(m, some) < l
      /\ \A m \in some : rank(m, asked) < l => rank(m, some) = rank(m, asked)
  BY <1>1, MergeKeepsPlaces
<1>7. \A m \in asked : rank(m, asked) \div size = p - 1 <=> a <= rank(m, asked) /\ rank(m, asked) < l
  BY <1>5, PageOfPlace
<1>8. \A m \in asked : rank(m, asked) < l => m \in some
  OBVIOUS
<1>9. {m \in asked : rank(m, asked) \div size = p - 1}
        = {m \in some : a <= rank(m, some) /\ rank(m, some) < l}
  <2> DEFINE onPage(m) == rank(m, asked) \div size = p - 1
  <2>1. \A m \in asked : onPage(m) <=> a <= rank(m, asked) /\ rank(m, asked) < l
    BY <1>7
  <2> HIDE DEF onPage, a, l
  <2>2. \A m \in asked : onPage(m) <=> m \in some /\ a <= rank(m, some) /\ rank(m, some) < l
    BY <1>6, <1>8, <2>1
  <2>3. {m \in asked : onPage(m)} = {m \in some : a <= rank(m, some) /\ rank(m, some) < l}
    BY <2>2
  <2> QED BY <2>3 DEF onPage
<1>0. data = SubSeq(rows, a + 1, last)
  BY <1>3 DEF Cut
<1> HIDE DEF a, l, rows, N, data
<1>10. last = IF l <= N THEN l ELSE N
  BY <1>1, <1>4, MinOfTwo
<1> HIDE DEF last
<1>11. last \in Int /\ last <= N /\ last <= l /\ (last = l \/ last = N)
  BY <1>1, <1>4, <1>10
<1>12. DOMAIN rows = 1 .. N /\ \A i \in 1 .. N : rows[i] \in some
  BY <1>3, <1>4
<1>13. \A i \in a + 1 .. last : rows[i] \in some
  <2>1. \A i \in a + 1 .. last : i \in 1 .. N
    BY <1>1, <1>4, <1>11
  <2> QED BY <1>12, <2>1
<1>14. /\ data \in Seq(some) /\ Len(data) = IF a + 1 <= last THEN last - (a + 1) + 1 ELSE 0
       /\ \A i \in 1 .. last - (a + 1) + 1 : data[i] = rows[a + 1 + i - 1]
  <2>1. a + 1 \in Int
    BY <1>1
  <2> QED BY <1>0, <1>11, <1>13, <2>1, SubSeqProperties
<1>15. DOMAIN data = 1 .. last - a
  <2>1. DOMAIN data = 1 .. Len(data)
    BY <1>14
  <2> QED BY <1>1, <1>11, <1>14, <2>1
<1>16. \A i \in DOMAIN data : data[i] \in some /\ rank(data[i], some) = a + i - 1
  <2> SUFFICES ASSUME NEW i \in DOMAIN data
               PROVE  data[i] \in some /\ rank(data[i], some) = a + i - 1
    OBVIOUS
  <2>1. i \in Int /\ a + i \in 1 .. N /\ i \in 1 .. last - (a + 1) + 1
    BY <1>1, <1>4, <1>11, <1>15
  <2> DEFINE k == a + i
  <2>2. k \in 1 .. N /\ a + 1 + i - 1 = k
    BY <1>1, <2>1
  <2> HIDE DEF k
  <2>3. data[i] = rows[k]
    BY <1>14, <2>1, <2>2
  <2>4. rows[k] \in some /\ rank(rows[k], some) = k - 1
    BY <1>3, <1>12, <2>2
  <2>5. k - 1 = a + i - 1
    BY <1>1, <2>1 DEF k
  <2> QED BY <2>3, <2>4, <2>5
<1>17. \A i, j \in DOMAIN data : i < j => newer(data[i], data[j])
  <2>1. DOMAIN data \subseteq Int
    BY <1>15
  <2> QED BY <1>1, <1>4, <1>16, <2>1
<1>18. {data[i] : i \in DOMAIN data} = {m \in some : a <= rank(m, some) /\ rank(m, some) < l}
  <2>1. ASSUME NEW i \in DOMAIN data
        PROVE  data[i] \in some /\ a <= rank(data[i], some) /\ rank(data[i], some) < l
    <3>1. i \in Int /\ 1 <= i /\ a + i <= last
      BY <1>1, <1>11, <1>15
    <3> QED BY <1>1, <1>11, <1>16, <3>1
  <2>2. ASSUME NEW m \in some, a <= rank(m, some), rank(m, some) < l
        PROVE  \E i \in DOMAIN data : m = data[i]
    <3> DEFINE i == rank(m, some) - a + 1
    <3>1. rank(m, some) \in Int /\ rank(m, some) < N
      BY <1>4
    <3>2. i \in DOMAIN data
      BY <1>1, <1>11, <1>15, <2>2, <3>1
    <3>3. rank(data[i], some) = rank(m, some) /\ data[i] \in some
      <4>1. a + i - 1 = rank(m, some)
        BY <1>1, <3>1
      <4> HIDE DEF i
      <4> QED BY <1>16, <3>2, <4>1
    <3>4. data[i] = m
      <4> HIDE DEF i
      <4> QED BY <1>4, <3>3
    <3> QED BY <3>2, <3>4
  <2> QED BY <2>1, <2>2
<1>19. {data[i] : i \in DOMAIN data} = {m \in asked : rank(m, asked) \div size = p - 1}
  BY <1>9, <1>18
<1> QED BY <1>17, <1>19 DEF data, IsPage

(* Put one after another, the pages of any size are what was asked of the       *)
(* ledger, once each and the newest first, whichever businesses and day starts  *)
(* are merged and however many movements were written in one instant; and each  *)
(* page states their number (movements, movementsSql).                        *)
THEOREM PagesAreTheLedger == Spec => []MovementPages
<1>1. ASSUME Tables, NEW q \in Asks, NEW filter, NEW size \in Nat \ {0}, NEW p \in Nat \ {0}
      PROVE  LET scope == resolve(q)
                 asked == askedOf(q, scope, filter)
                 page == movementsPage(scope, filter, p, size)
             IN /\ page.total = Cardinality(asked)
                /\ page.totalPages = Max({1} \cup {i \in 1 .. page.total : (i - 1) * size < page.total})
                /\ {page.data[i] : i \in DOMAIN page.data} = {m \in asked : rank(m, asked) \div size = p - 1}
                /\ \A i, j \in DOMAIN page.data : i < j => newer(page.data[i], page.data[j])
  <2> DEFINE scope == resolve(q)
             asked == askedOf(q, scope, filter)
             limit == reach(p, size)
             merge == UNION {movementsSql(b, filter, limit) : b \in scope}
             total == SumOf(scope, LAMBDA b : movementsCountSql(b, filter))
             data == Cut(merge, p, size)
             page == movementsPage(scope, filter, p, size)
  <2>1. page = [data |-> data, total |-> total, totalPages |-> Max({1, (total + size - 1) \div size})]
    BY DEF movementsPage, Cut
  <2>2. total = Cardinality(asked)
    BY <1>1, MovementsCounted
  <2>3. asked \in SUBSET (DOMAIN movements)
    BY <1>1, AskedOfDesk
  <2>4. Cardinality(asked) \in Nat
    BY <1>1, <2>3, RankIsPlace
  <2>5. limit = p * size /\ limit \in Nat
    <3>1. p * size \in Nat
      OBVIOUS
    <3> QED BY <3>1 DEF reach
  <2>6. merge \in SUBSET asked /\ \A m \in asked : rank(m, asked) < limit => m \in merge
    <3> HIDE DEF limit
    <3> QED BY <1>1, <2>5, MergeHasNewest
  <2> HIDE DEF merge, asked, scope, limit, total, page
  <2>7. IsPage(data, asked, p, size)
    <3>1. \A m \in asked : rank(m, asked) < p * size => m \in merge
      BY <2>5, <2>6
    <3>2. merge \in SUBSET asked /\ size \in Nat \ {0} /\ p \in Nat \ {0}
      BY <2>6
    <3> QED BY <1>1, <2>3, <3>1, <3>2, PageIsCut
  <2> HIDE DEF data
  <2>8. Max({1, (total + size - 1) \div size}) = Max({1} \cup {i \in 1 .. total : (i - 1) * size < total})
    BY <2>2, <2>4, PagesCounted
  <2>9. page.data = data /\ page.total = total /\ page.totalPages = Max({1, (total + size - 1) \div size})
    BY <2>1
  <2>10. page.totalPages = Max({1} \cup {i \in 1 .. page.total : (i - 1) * size < page.total})
    BY <2>8, <2>9
  <2>11. page.total = Cardinality(asked)
    BY <2>2, <2>9
  <2>12. /\ {page.data[i] : i \in DOMAIN page.data} = {m \in asked : rank(m, asked) \div size = p - 1}
         /\ \A i, j \in DOMAIN page.data : i < j => newer(page.data[i], page.data[j])
    BY <2>7, <2>9 DEF IsPage
  <2> QED BY <2>10, <2>11, <2>12 DEF page, asked, scope
<1>2. ASSUME Tables, NEW q \in Queries, NEW filter, NEW size \in PageSizes
      PROVE  pagesAre(askedOf(q, resolve(q), filter), resolve(q), filter, size)
  <2> DEFINE scope == resolve(q)
             asked == askedOf(q, scope, filter)
  <2>1. q \in Asks /\ size \in Nat \ {0} /\ MAX_MERGE_ROWS \in Nat
    BY QueriesAccepted DEF Asks
  <2>2. ASSUME NEW p \in 1 .. MAX_MERGE_ROWS
        PROVE  LET page == movementsPage(scope, filter, p, size)
               IN /\ page.total = Cardinality(asked)
                  /\ page.totalPages = Max({1} \cup {i \in 1 .. page.total : (i - 1) * size < page.total})
                  /\ {page.data[i] : i \in DOMAIN page.data} = {m \in asked : rank(m, asked) \div size = p - 1}
                  /\ \A i, j \in DOMAIN page.data : i < j => newer(page.data[i], page.data[j])
    <3>1. p \in Nat \ {0}
      BY <2>1
    <3> QED BY <1>1, <1>2, <2>1, <3>1
  <2> HIDE DEF scope, asked
  <2>3. pagesAre(asked, scope, filter, size)
    BY <2>2 DEF pagesAre
  <2> QED BY <2>3 DEF asked, scope
<1>3. Tables => MovementPages
  BY <1>2 DEF MovementPages
<1> QED BY <1>3, TablesHold, PTL
=============================================================================
