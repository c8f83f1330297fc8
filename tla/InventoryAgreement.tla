------------------------- MODULE InventoryAgreement -------------------------
(* What the inventory reports promise of each other and of the tables.       *)
EXTENDS InventoryReports

CONSTANTS Queries, Filters, PageSizes,  \* what the invariants ask
          Always                        \* a query of the whole time, for each business

ASSUME QueriesAccepted ==
  /\ Queries \subseteq [business : Businesses \cup {Null}, branch : Branches \cup {Null},
                        from : Int, to : Int]
  /\ \A q \in Queries : ~refused(q)
  /\ MAX_MERGE_ROWS \in Nat /\ PageSizes \subseteq Nat \ {0}
ASSUME AlwaysAccepted ==
  \A b \in DOMAIN Always :
    /\ Always[b] \in [business : {b}, branch : {Null}, from : Int, to : Int]
    /\ b \in Businesses /\ ~refused(Always[b])
    /\ \A t \in Instants : dayBucket(t, DayStart[b]) \in Always[b].from .. Always[b].to

businessOfRow(row) == BusinessOf[row.branchId]
onOneOf(first, last, at, row) ==
  dayBucket(at, DayStart[businessOfRow(row)]) \in first .. last

pagesAre(asked, scope, filter, size) ==
  \A p \in {i \in 1 .. MAX_MERGE_ROWS : ~pageRefused(i, size)} :
    \E page \in {movementsPage(scope, filter, p, size)} :
      /\ page.total = Cardinality(asked)
      /\ page.totalPages = Max({1} \cup {i \in 1 .. page.total : (i - 1) * size < page.total})
      /\ {page.data[i] : i \in DOMAIN page.data} = {m \in asked : rank(m, asked) \div size = p - 1}
      /\ \A i, j \in DOMAIN page.data : i < j => newer(page.data[i], page.data[j])
askedOf(q, scope, filter) ==
  {n \in DOMAIN movements :
     /\ \E b \in scope : movements[n].branchId \in b.branchIds
     /\ onOneOf(q.from, q.to, movements[n].createdAt, movements[n])
     /\ filter.type \in {Null, movements[n].type}
     /\ filter.product \in {Null, movements[n].product}}

(* The pages of a ledger are the ledger: put one after another, the pages of   *)
(* any size hold every movement of the asked days once, the newest first,     *)
(* across businesses, day starts and movements written in the same instant,   *)
(* and each page says how many there are; no page is cut short by the merge.  *)
MovementPages ==
  \A q \in Queries : \E scope \in {resolve(q)} :
    \A filter \in Filters : \E asked \in {askedOf(q, scope, filter)} :
      \A size \in PageSizes : pagesAre(asked, scope, filter, size)

ledgerOf(k, types) ==
  SumOf({n \in DOMAIN movements : keyOf(movements[n].branchId, movements[n]) = k
                                   /\ movements[n].type \in types},
        LAMBDA n : movements[n].qtyDelta)
soldUntracked(k) ==
  SumOf({i \in DOMAIN sales : sales[i].status = "completed" /\ sales[i].branchId = k[1]},
        LAMBDA i : wantedMilli(k[1], sales[i].lines, DOMAIN sales[i].lines \ tracked(sales[i].lines), k))
withinHalf(valueC, milliC) == 2 * (valueC * 1000 - milliC) \in -1000 .. 1000
openingOf(k) == IF k \in DOMAIN OpeningLevels THEN OpeningLevels[k] ELSE 0

(* Stock on hand is accounted for across three tables: what a shelf shows is   *)
(* what it opened with, plus deliveries and corrections, less the units the    *)
(* sales table says were sold, save those a till sold untracked; sales undone  *)
(* on another day included.  Its worth is its units at its cost, to half a     *)
(* centavo.  The dashboard's low stock is the rows the stock page marks low.   *)
StockAccounted ==
  \A biz \in DOMAIN Always :
    LET rows == onHand(Always[biz]).rows
    IN /\ \A r \in rows :
            r.qty = openingOf(r.key) + ledgerOf(r.key, {"receive", "adjustment"})
                      - r.unitsSold + soldUntracked(r.key)
       /\ \A r \in rows : r.unitCostC # Null => withinHalf(r.valueC, r.qty * r.unitCostC)
       /\ \A b \in resolve(Always[biz]) : lowStockCountSql(b) = Cardinality({r \in rows : r.isLow})

onDay(q, d) == [q EXCEPT !.from = d, !.to = d]
valueOr0(row) == IF row.valueC = Null THEN 0 ELSE row.valueC

(* The value of some losses at a cost, and what is unvalued of them. *)
lossesAt(S, costC) ==
  [valueC |-> IF costC = Null THEN 0
              ELSE SumOf(S, LAMBDA n : halfUp(-movements[n].qtyDelta * costC, 1000)),
   uncostedUnits |-> IF costC = Null THEN unitsLost(S) ELSE 0]
lossesOf(k) ==
  {n \in DOMAIN movements : /\ keyOf(movements[n].branchId, movements[n]) = k
                            /\ movements[n].type = "adjustment" /\ movements[n].qtyDelta < 0}

(* Losses are accounted for: the losses of a range are those of its days, by   *)
(* reason, and what a business lost is priced as its shelf is priced now, the  *)
(* shelf of a trashed product included: in full where there is a cost, and as  *)
(* uncosted units, never as worth nothing, where there is none.               *)
LossesAccounted ==
  /\ \A q \in Queries :
       LET days == [d \in q.from .. q.to |-> shrinkage(onDay(q, d))]
           whole == shrinkage(q)
           on(r) == {d \in DOMAIN days : r \in DOMAIN days[d]}
       IN /\ DOMAIN whole = UNION {DOMAIN days[d] : d \in DOMAIN days}
          /\ \A r \in DOMAIN whole :
               /\ whole[r].units = SumOf(on(r), LAMBDA d : days[d][r].units)
               /\ whole[r].uncostedUnits = SumOf(on(r), LAMBDA d : days[d][r].uncostedUnits)
               /\ valueOr0(whole[r]) = SumOf(on(r), LAMBDA d : valueOr0(days[d][r]))
               /\ whole[r].valueC = Null <=> whole[r].units = whole[r].uncostedUnits
  /\ \A biz \in DOMAIN Always :
       LET lost == shrinkage(Always[biz])
           shown == {[key |-> r.key, costC |-> r.unitCostC] : r \in onHand(Always[biz]).rows}
           hidden == {[key |-> k, costC |-> unitCost(k)] :
                        k \in {j \in DOMAIN levels : BusinessOf[j[1]] = biz /\ j[2] \in trashed}}
           priced(r) == lossesAt(lossesOf(r.key), r.costC)
       IN /\ SumOf(DOMAIN lost, LAMBDA r : valueOr0(lost[r]))
               = SumOf(shown \cup hidden, LAMBDA r : priced(r).valueC)
          /\ SumOf(DOMAIN lost, LAMBDA r : lost[r].uncostedUnits)
               = SumOf(shown \cup hidden, LAMBDA r : priced(r).uncostedUnits)

closedOf(biz) == {h \in DOMAIN shifts : businessOfRow(shifts[h]) = biz /\ shifts[h].closedAt # Null}

(* Every shift is in one place: on the dashboard while it is open, and, once   *)
(* closed, in the over/short of the one business day it was closed on, which   *)
(* lists it with the amount the whole range does: the cash counted less what   *)
(* the sales table says, now, the drawer should have held, whatever was undone *)
(* after the close.  A drawer open for more than a day is counted in its own   *)
(* business.  A till lists each of its sales under one date.                   *)
ShiftsAccounted ==
  LET shown == openShifts(resolveToday)
      late == unclosedShifts(resolveToday)
      real == {h \in DOMAIN shifts : businessOfRow(shifts[h]) \notin Demo}
  IN /\ \A h \in real : (h \in shown) = (shifts[h].closedAt = Null)
     /\ shown \subseteq real
     /\ \A biz \in DOMAIN late :
          late[biz] = Cardinality({h \in shown : /\ businessOfRow(shifts[h]) = biz
                                                /\ now - shifts[h].openedAt > 24 * 60})
     /\ \A biz \in DOMAIN Always :
          /\ overShort(Always[biz]) =
               [h \in closedOf(biz) |-> shifts[h].closingC - expectedCash(h)]
          /\ \A d \in Always[biz].from .. Always[biz].to :
               overShort(onDay(Always[biz], d)) =
                 [h \in {g \in closedOf(biz) : onOneOf(d, d, shifts[g].closedAt, shifts[g])} |->
                    overShort(Always[biz])[h]]
     /\ \A i \in DOMAIN sales :
          \E d \in {businessDayOf(sales[i].createdAt, 0)} :
            \A e \in d - 1 .. d + 1 : i \in listSales(sales[i].terminal, e) <=> e = d
=============================================================================
