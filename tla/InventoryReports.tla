-------------------------- MODULE InventoryReports --------------------------
(* Stock, costs and shifts of one owner's businesses, changed by one request *)
(* after another, and what the portal reports of them: the movement ledger,  *)
(* shrinkage, stock on hand, over/short and the dashboard's lists.  Requests *)
(* that overlap are the subject of PosBranch and RowLocks.                   *)
EXTENDS ReportScope

CONSTANTS
  Terminals, BranchOf,            \* tills and the branch each is paired with
  Products, SoldBy, variantsOf,   \* live products, their business and variants
  lowStockThreshold,              \* of each product, Null when unmonitored
  OpeningLevels,                  \* branch_stock at the start, by key
  OpeningShifts,                  \* the shifts open at the start
  OpeningProductCost, OpeningVariantCost,
  DeliveriesTo, CountsAt,         \* receive and adjust requests of a branch
  BasketsAt, Counted,             \* sale drafts of a till, cash counted at a close
  IdRank,                         \* where the n-th movement's uuid sorts; bounds the movements
  ValueShort,                     \* <<milli, cost>> whose double product falls below its exact half
  MAX_MERGE_ROWS,
  MaxRequests                     \* bound on the requests of a behaviour

Variants == DOMAIN OpeningVariantCost
Reasons == UNION {{l.reasonCategory : l \in CountsAt[br]} : br \in Branches}
Keys == Branches \X Products \X (Variants \cup {Null})

(* The tables at the start have the columns of the schema, and requests passed *)
(* validation: a line names a product of the catalogue, a correction a reason. *)
ASSUME OpeningAssumption ==
  /\ BranchOf \in [Terminals -> Branches]
  /\ IsFiniteSet(DOMAIN OpeningLevels) /\ DOMAIN OpeningLevels \subseteq Keys
  /\ \A k \in DOMAIN OpeningLevels : OpeningLevels[k] \in Int
  /\ OpeningShifts \in Seq([terminal : Terminals, branchId : Branches, openedAt : Int, closedAt : {Null},
                           expectedC : {Null}, closingC : {Null}])
  /\ OpeningProductCost \in [Products -> Nat \cup {Null}]
  /\ OpeningVariantCost \in [Variants -> Nat \cup {Null}]
ASSUME RequestsAssumption ==
  /\ Null \notin Reasons /\ Counted \subseteq Int
  /\ \A br \in Branches :
       /\ \A lines \in DeliveriesTo[br] :
            lines \in Seq([product : Products, variant : Variants \cup {Null}, milli : Nat,
                          unitCostC : Nat \cup {Null}])
       /\ CountsAt[br] \subseteq [product : Products, variant : Variants \cup {Null}, newMilli : Nat,
                                 reasonCategory : Reasons]
  /\ \A t \in Terminals : \A draft \in BasketsAt[t] :
       /\ draft.lines \in Seq([product : Products, variant : Variants \cup {Null}, milli : Nat,
                               trackStock : BOOLEAN])
       /\ draft.cashC \in Int
ASSUME UuidsAssumption ==   \* uuids differ
  IdRank \in Seq(Nat) /\ \A m, n \in DOMAIN IdRank : IdRank[m] = IdRank[n] => m = n

UNCLOSED_SHIFT_HOURS == 24

VARIABLES
  levels,       \* branch_stock.qty of the keys <<branch, product, variant>> with a row
  movements,    \* stock_movements in the order they are written
  sales, shifts,
  productCost, variantCost,
  trashed,      \* products with deleted_at set
  requests      \* how many requests have changed something

stock == <<levels, movements>>
costs == <<productCost, variantCost>>
vars == <<stock, costs, sales, shifts, trashed, now, requests>>

Init ==
  /\ StartOfClock
  /\ levels = OpeningLevels
  /\ productCost = OpeningProductCost
  /\ variantCost = OpeningVariantCost
  /\ movements = <<>> /\ sales = <<>> /\ shifts = OpeningShifts
  /\ trashed = {} /\ requests = 0

-----------------------------------------------------------------------------
(* One more request; the clock stands still. *)
Served == requests < MaxRequests /\ requests' = requests + 1 /\ UNCHANGED now

(* A request names a product of the business that is not trashed, and a       *)
(* variant of it exactly when it has variants.                                *)
live(br, p) == p \notin trashed /\ SoldBy[p] = BusinessOf[br]
variantIntegrity(l) ==
  IF variantsOf[l.product] = {} THEN l.variant = Null ELSE l.variant \in variantsOf[l.product]
noDuplicateLines(lines) ==
  \A a, b \in DOMAIN lines :
    a # b => <<lines[a].product, lines[a].variant>> # <<lines[b].product, lines[b].variant>>

keyOf(br, l) == <<br, l.product, l.variant>>
levelOf(k) == IF k \in DOMAIN levels THEN levels[k] ELSE 0

(* Each level rises by what is put on its key; a level that is not there is    *)
(* created.                                                                   *)
addToLevel(put) ==
  levels' = [k \in DOMAIN levels \cup {put[i].key : i \in DOMAIN put} |->
    levelOf(k) + SumOf({i \in DOMAIN put : put[i].key = k}, LAMBDA i : put[i].milli)]

moved(br, l, type, ref, n, reason) ==
  [branchId |-> br, product |-> l.product, variant |-> l.variant, type |-> type, refId |-> ref,
   qtyDelta |-> n, reason |-> reason, createdAt |-> now]
Record(new) == /\ Len(movements) + Len(new) <= Len(IdRank)
               /\ movements' = movements \o new

(* Some rows in the order they are in. *)
inOrder(S) == [j \in 1 .. Cardinality(S) |-> CHOOSE m \in S : Cardinality({n \in S : n < m}) = j - 1]

(* The latest cost overwrites the variant's, or the product's when the line    *)
(* names no variant.                                                          *)
ApplyCosts(lines) ==
  LET priced == {i \in DOMAIN lines : lines[i].unitCostC # Null}
      at(p, v) == {i \in priced : lines[i].product = p /\ lines[i].variant = v}
  IN /\ productCost' = [p \in Products |->
          IF at(p, Null) = {} THEN productCost[p]
          ELSE lines[CHOOSE i \in at(p, Null) : TRUE].unitCostC]
     /\ variantCost' = [v \in DOMAIN variantCost |->
          IF \E p \in Products : at(p, v) # {}
            THEN lines[CHOOSE i \in priced : lines[i].variant = v].unitCostC
            ELSE variantCost[v]]

receive(br, lines) ==
  /\ noDuplicateLines(lines)
  /\ \A i \in DOMAIN lines : live(br, lines[i].product) /\ variantIntegrity(lines[i])
  /\ addToLevel([i \in DOMAIN lines |-> [key |-> keyOf(br, lines[i]), milli |-> lines[i].milli]])
  /\ Record([i \in DOMAIN lines |-> moved(br, lines[i], "receive", Null, lines[i].milli, Null)])
  /\ ApplyCosts(lines)
  /\ Served /\ UNCHANGED <<sales, shifts, trashed>>

(* `newMilli' is an absolute target; a missing level counts as zero.           *)
adjust(br, l) ==
  LET k == keyOf(br, l)
  IN /\ live(br, l.product) /\ variantIntegrity(l)
     /\ levels' = [j \in DOMAIN levels \cup {k} |-> IF j = k THEN l.newMilli ELSE levels[j]]
     /\ Record(<<moved(br, l, "adjustment", Null, l.newMilli - levelOf(k), l.reasonCategory)>>)
     /\ Served /\ UNCHANGED <<costs, sales, shifts, trashed>>

(* A product with sales history stays: it is only marked inactive.            *)
soldCount(p) == Cardinality({i \in DOMAIN sales : \E j \in DOMAIN sales[i].lines : sales[i].lines[j].product = p})
remove(p) == /\ p \notin trashed /\ soldCount(p) = 0
             /\ trashed' = trashed \cup {p}
             /\ Served /\ UNCHANGED <<stock, costs, sales, shifts>>

-----------------------------------------------------------------------------
openShift(t) == {h \in DOMAIN shifts : shifts[h].terminal = t /\ shifts[h].closedAt = Null}

open(t) ==
  /\ openShift(t) = {}
  /\ shifts' = Append(shifts, [terminal |-> t, branchId |-> BranchOf[t], openedAt |-> now,
                               closedAt |-> Null, expectedC |-> Null, closingC |-> Null])
  /\ Served /\ UNCHANGED <<stock, costs, sales, trashed>>

(* Cash sales of the shift that are not voided, less the refunds charged to it; *)
(* cash is counted from the opening float, which both figures contain.         *)
expectedCash(h) ==
  LET cashOf(S) == SumOf(S, LAMBDA i : sales[i].cashC)
  IN cashOf({i \in DOMAIN sales : sales[i].shiftId = h /\ sales[i].status # "voided"})
     - cashOf({i \in DOMAIN sales : sales[i].status = "refunded" /\ sales[i].refundShiftId = h})

close(t, countedC) ==
  /\ \E h \in openShift(t) :
       shifts' = [shifts EXCEPT ![h].closedAt = now, ![h].closingC = countedC,
                                ![h].expectedC = expectedCash(h)]
  /\ Served /\ UNCHANGED <<stock, costs, sales, trashed>>

(* The till says in its draft which lines are tracked.                         *)
tracked(lines) == {i \in DOMAIN lines : lines[i].trackStock}
wantedMilli(br, lines, S, k) ==
  SumOf({i \in S : keyOf(br, lines[i]) = k}, LAMBDA i : lines[i].milli)

complete(t, draft) ==
  LET br == BranchOf[t]
      took == tracked(draft.lines)
      rows == inOrder(took)
      wanted(k) == wantedMilli(br, draft.lines, took, k)
  IN /\ \A i \in DOMAIN draft.lines :
          live(br, draft.lines[i].product) /\ variantIntegrity(draft.lines[i])
     /\ \A k \in {keyOf(br, draft.lines[i]) : i \in took} : k \in DOMAIN levels /\ wanted(k) <= levels[k]
     /\ levels' = [k \in DOMAIN levels |-> levels[k] - wanted(k)]
     /\ \E h \in openShift(t) :
          sales' = Append(sales, [branchId |-> br, terminal |-> t, shiftId |-> h, lines |-> draft.lines,
                                  cashC |-> draft.cashC, status |-> "completed",
                                  refundShiftId |-> Null, createdAt |-> now])
     /\ Record([j \in DOMAIN rows |-> moved(br, draft.lines[rows[j]], "sale", Len(sales) + 1,
                                            -draft.lines[rows[j]].milli, Null)])
     /\ Served /\ UNCHANGED <<costs, shifts, trashed>>

(* Mirrors the movements of the sale, not the draft's or the product's flags.   *)
restoreStock(i, type) ==
  LET out == inOrder({n \in DOMAIN movements : movements[n].type = "sale" /\ movements[n].refId = i})
      m(j) == movements[out[j]]
  IN /\ addToLevel([j \in DOMAIN out |-> [key |-> keyOf(m(j).branchId, m(j)), milli |-> -m(j).qtyDelta]])
     /\ Record([j \in DOMAIN out |-> moved(m(j).branchId, m(j), type, i, -m(j).qtyDelta, Null)])

(* Asked by a till of the branch: a void only in the sale's own open shift, a  *)
(* refund at any time, charged to the sale's shift only while that is open.    *)
voidSale(t, i) ==
  /\ sales[i].branchId = BranchOf[t] /\ sales[i].status = "completed"
  /\ sales[i].shiftId \in openShift(t)
  /\ sales' = [sales EXCEPT ![i].status = "voided"]
  /\ restoreStock(i, "void")
  /\ Served /\ UNCHANGED <<costs, shifts, trashed>>

refundSale(t, i) ==
  /\ sales[i].branchId = BranchOf[t] /\ sales[i].status = "completed"
  /\ sales' = [sales EXCEPT ![i].status = "refunded",
                  ![i].refundShiftId = IF sales[i].shiftId \in openShift(t)
                                       THEN sales[i].shiftId ELSE Null]
  /\ restoreStock(i, "refund")
  /\ Served /\ UNCHANGED <<costs, shifts, trashed>>

Tick == ClockTicks /\ UNCHANGED <<stock, costs, sales, shifts, trashed, requests>>

Next ==
  \/ \E br \in Branches : \E lines \in DeliveriesTo[br] : receive(br, lines)
  \/ \E br \in Branches : \E l \in CountsAt[br] : adjust(br, l)
  \/ \E p \in Products : remove(p)
  \/ \E t \in Terminals : open(t)
  \/ \E t \in Terminals, c \in Counted : close(t, c)
  \/ \E t \in Terminals : \E draft \in BasketsAt[t] : complete(t, draft)
  \/ \E t \in Terminals, i \in DOMAIN sales : voidSale(t, i)
  \/ \E t \in Terminals, i \in DOMAIN sales : refundSale(t, i)
  \/ Tick

Spec == Init /\ [][Next]_vars

-----------------------------------------------------------------------------
(* The movement ledger: each business is asked for its newest rows up to the   *)
(* end of the page, and the page is cut from the merge.                       *)
(* ORDER BY m.created_at DESC, m.id DESC *)
newer(m, n) == \/ movements[m].createdAt > movements[n].createdAt
               \/ movements[m].createdAt = movements[n].createdAt /\ IdRank[m] > IdRank[n]

movementWhere(b, filter) ==
  {n \in DOMAIN movements :
     /\ movements[n].branchId \in b.branchIds
     /\ InWindow(movements[n].createdAt, b.window)
     /\ filter.type \in {Null, movements[n].type}
     /\ filter.product \in {Null, movements[n].product}}
rank(m, S) == Cardinality({n \in S : newer(n, m)})
firstRows(S, limit) == {m \in S : rank(m, S) < limit}
movementsSql(b, filter, limit) == firstRows(movementWhere(b, filter), limit)
movementsCountSql(b, filter) == Cardinality(movementWhere(b, filter))

(* rows.sort((a, b) => ...): before 0, a comes first.  The ids are uuids in one *)
(* lower-case form, which localeCompare puts in the order they have as uuids. *)
localeCompare(m, n) == IdRank[m] - IdRank[n]
compareAscending(m, n) == \* mutant: ids ascending within an instant
  LET byTime == movements[n].createdAt - movements[m].createdAt
  IN IF byTime # 0 THEN byTime ELSE localeCompare(m, n)
compare(m, n) ==
  LET byTime == movements[n].createdAt - movements[m].createdAt
  IN IF byTime # 0 THEN byTime ELSE localeCompare(n, m)
sorted(S) == [i \in 1 .. Cardinality(S) |->
                CHOOSE m \in S : Cardinality({n \in S : compare(n, m) < 0}) = i - 1]

onePage(page, pageSize) == pageSize \* mutant: every business gives one page of rows
reach(page, pageSize) == page * pageSize

pageRefused(page, pageSize) == reach(page, pageSize) > MAX_MERGE_ROWS
movementsPage(scope, filter, page, pageSize) ==
  LET rows == sorted(UNION {movementsSql(b, filter, reach(page, pageSize)) : b \in scope})
      total == SumOf(scope, LAMBDA b : movementsCountSql(b, filter))
  IN [data |-> SubSeq(rows, (page - 1) * pageSize + 1, Min({page * pageSize, Len(rows)})),
      total |-> total,
      totalPages |-> Max({1, (total + pageSize - 1) \div pageSize})]

-----------------------------------------------------------------------------
(* COALESCE(v.cost, p.cost), as they are now, of what a movement moved. *)
lossCostOfProduct(n) == productCost[movements[n].product] \* mutant: the variant's cost forgotten
lossCost(n) ==
  LET v == movements[n].variant
  IN IF v # Null /\ variantCost[v] # Null THEN variantCost[v] ELSE productCost[movements[n].product]

lossesIn(b) ==
  {n \in DOMAIN movements :
     /\ movements[n].branchId \in b.branchIds
     /\ movements[n].type = "adjustment" /\ movements[n].qtyDelta < 0 /\ movements[n].reason # Null
     /\ InWindow(movements[n].createdAt, b.window)}
unitsLost(S) == SumOf(S, LAMBDA n : -movements[n].qtyDelta)
shrinkageSql(b) ==
  [r \in {movements[n].reason : n \in lossesIn(b)} |->
     LET S == {n \in lossesIn(b) : movements[n].reason = r}
         costed == {n \in S : lossCost(n) # Null}
     IN [units |-> unitsLost(S), costedRows |-> Cardinality(costed),
         valueC |-> SumOf(costed, LAMBDA n : halfUp(-movements[n].qtyDelta * lossCost(n), 1000)),
         uncostedUnits |-> unitsLost(S \ costed)]]

(* Unknown, and never zero, when no loss of a reason has a cost. *)
shrinkage(q) ==
  LET of == [b \in resolve(q) |-> shrinkageSql(b)]
      having(r) == {b \in DOMAIN of : r \in DOMAIN of[b]}
  IN [r \in UNION {DOMAIN of[b] : b \in DOMAIN of} |->
        [units |-> SumOf(having(r), LAMBDA b : of[b][r].units),
         valueC |-> IF \A b \in having(r) : of[b][r].costedRows = 0 THEN Null
                    ELSE SumOf(having(r), LAMBDA b : of[b][r].valueC),
         uncostedUnits |-> SumOf(having(r), LAMBDA b : of[b][r].uncostedUnits)]]

-----------------------------------------------------------------------------
unitCost(k) == IF k[3] # Null /\ variantCost[k[3]] # Null THEN variantCost[k[3]] ELSE productCost[k[2]]
(* The quantity is a double: the half of some exact halves is lost before      *)
(* rounding.  A level is never below zero.                                    *)
valuationC(milli, costC) ==
  IF costC = Null THEN Null
  ELSE IF <<milli, costC>> \in ValueShort /\ (2 * (milli * costC)) % (2 * 1000) = 1000
         THEN (milli * costC) \div 1000
         ELSE halfUp(milli * costC, 1000)
isLow(milli, threshold) == threshold # Null /\ milli <= threshold

sameVariantEquals(v, w) == v # Null /\ v = w \* mutant: SQL's =, which no NULL satisfies
sameVariant(v, w) == v = w   \* IS NOT DISTINCT FROM
unitsSold(b, k) ==
  LET lines(i) == {j \in DOMAIN sales[i].lines : /\ sales[i].lines[j].product = k[2]
                                                 /\ sameVariant(sales[i].lines[j].variant, k[3])}
      sold == {i \in DOMAIN sales : /\ sales[i].branchId = k[1] /\ sales[i].status = "completed"
                                    /\ InWindow(sales[i].createdAt, b.window)}
  IN SumOf(sold, LAMBDA i : SumOf(lines(i), LAMBDA j : sales[i].lines[j].milli))

onHandKeys(b) == {k \in DOMAIN levels : k[1] \in b.branchIds /\ k[2] \notin trashed}
onHandSql(b) ==
  {[key |-> k, qty |-> levels[k], unitCostC |-> unitCost(k),
    valueC |-> valuationC(levels[k], unitCost(k)),
    isLow |-> isLow(levels[k], lowStockThreshold[k[2]]),
    unitsSold |-> unitsSold(b, k)] : k \in onHandKeys(b)}
onHand(q) ==
  LET rows == UNION {onHandSql(b) : b \in resolve(q)}
      known == {r \in rows : r.valueC # Null}
  IN [rows |-> rows, valueC |-> SumOf(known, LAMBDA r : r.valueC),
      uncostedItems |-> Cardinality(rows \ known)]

lowStockCountSql(b) ==
  Cardinality({k \in onHandKeys(b) :
    lowStockThreshold[k[2]] # Null /\ levels[k] <= lowStockThreshold[k[2]]})

-----------------------------------------------------------------------------
overShortOpened(b) == \* mutant: a shift belongs to the day it was opened
  {h \in DOMAIN shifts : /\ shifts[h].branchId \in b.branchIds /\ shifts[h].closedAt # Null
                         /\ InWindow(shifts[h].openedAt, b.window)}
overShortSql(b) ==
  {h \in DOMAIN shifts : /\ shifts[h].branchId \in b.branchIds /\ shifts[h].closedAt # Null
                         /\ InWindow(shifts[h].closedAt, b.window)}
overShort(q) ==
  [h \in UNION {overShortSql(b) : b \in resolve(q)} |-> shifts[h].closingC - shifts[h].expectedC]

(* The dashboard's lists. *)
branchIndex(scope) ==
  [br \in UNION {b.branchIds : b \in scope} |-> (CHOOSE b \in scope : br \in b.branchIds).id]
openShifts(scope) ==
  {h \in DOMAIN shifts : shifts[h].branchId \in DOMAIN branchIndex(scope) /\ shifts[h].closedAt = Null}
unclosedShifts(scope) ==
  LET late == {h \in openShifts(scope) : shifts[h].openedAt < now - UNCLOSED_SHIFT_HOURS * 60}
  IN [id \in {b.id : b \in scope} |->
        Cardinality({h \in late : branchIndex(scope)[shifts[h].branchId] = id})]

(* A till's own sales of one Manila date, whatever the business's day start.   *)
listSales(t, date) ==
  {i \in DOMAIN sales : sales[i].terminal = t /\ InWindow(sales[i].createdAt, dayWindow(date, 0))}
=============================================================================
