-------------------------- MODULE ReportAgreement --------------------------
(* What the portal's reports promise of each other, for every table of sales. *)
EXTENDS SalesReports

CONSTANT Queries   \* the queries the invariants ask

ASSUME QueriesAccepted ==
  /\ Queries \subseteq [business : Businesses \cup {Null}, branch : Branches \cup {Null},
                        from : Int, to : Int]
  /\ \A q \in Queries : ~refused(q)

grandTotal(rows) ==
  [salesC |-> SumOf(DOMAIN rows, LAMBDA k : rows[k].salesC),
   transactions |-> SumOf(DOMAIN rows, LAMBDA k : rows[k].transactions)]

(* One range of one tenant has one net figure, however it is cut up: the      *)
(* overview, the heatmap, the trend at any granularity, the hours, the days   *)
(* of the week, the order types and the branches all add up to it.            *)
ReportsAgree ==
  \A q \in Queries :
    LET o == overview(q).current
        whole == [salesC |-> netSalesC(o), transactions |-> o.transactions]
    IN /\ grandTotal(heatmap(q)) = whole
       /\ \A g \in {"day", "week", "month"} : grandTotal(trend(q, g)) = whole
       /\ grandTotal(patterns(q).hourOfDay) = whole
       /\ grandTotal(patterns(q).dayOfWeek) = whole
       /\ grandTotal(breakdowns(q).byOrderType) = whole
       /\ grandTotal(breakdowns(q).byBranch) = whole

onDay(q, d) == [q EXCEPT !.from = d, !.to = d]
justBefore(q) == [q EXCEPT !.from = 2 * q.from - q.to - 1, !.to = q.from - 1]

(* A range is its days: what each day reports on its own adds up to what the  *)
(* range reports, a heatmap cell is that day's overview, and the previous     *)
(* period is the overview of the dates just before, so no sale is counted on  *)
(* two days or falls between two.                                             *)
DaysAddUp ==
  \A q \in Queries :
    LET days == [d \in q.from .. q.to |-> overview(onDay(q, d)).current]
        cells == heatmap(q)
        o == overview(q)
    IN /\ netSalesC(o.current) = SumOf(DOMAIN days, LAMBDA d : netSalesC(days[d]))
       /\ o.current.voidCount = SumOf(DOMAIN days, LAMBDA d : days[d].voidCount)
       /\ \A d \in DOMAIN days : cells[d].salesC = netSalesC(days[d])
       /\ o.previous = overview(justBefore(q)).current

(* What the engine took off a sale, from the totals stored with its draft.    *)
promoLines(i) == {k \in DOMAIN sales[i].items : sales[i].draftTotals.lines[k].applied = "promo"}
linePromoC(i, k) == sales[i].draftTotals.lines[k].promoDiscountC
orderTookC(i) == sales[i].draftTotals.promoDiscountC - SumOf(promoLines(i), LAMBDA k : linePromoC(i, k))
takenByC(i, d) ==
  SumOf({k \in promoLines(i) : namedId(sales[i].draft.lines[k].discount) = d}, LAMBDA k : linePromoC(i, k))
    + (IF namedId(sales[i].draft.orderDiscount) = d THEN orderTookC(i) ELSE 0)

(* The leaks report attributes every discount to what took it, though the     *)
(* table does not record the order-level amount nor which lines went to       *)
(* SC/PWD: each named discount has taken what the engine gave under its name,  *)
(* and the order level has what the engine took from orders.                  *)
DiscountsAttributed ==
  \A q \in Queries :
    LET S == completedInWindow(resolve(q))
        l == leaks(q)
    IN /\ l.orderLevelDiscountC = SumOf(S, orderTookC)
       /\ \A d \in DOMAIN l.discountsByName :
            l.discountsByName[d].amountC = SumOf(S, LAMBDA i : takenByC(i, d))

(* The tax summary accounts for every centavo that was paid: its three parts   *)
(* add up to the payments, which are the net sales and the service charge.    *)
TaxMatchesPayments ==
  \A q \in Queries :
    LET t == tax(q)
        o == overview(q).current
        paid == grandTotal(breakdowns(q).byPaymentMethod).salesC
    IN /\ t.vatableSalesC + t.vatC + t.vatExemptSalesC = paid
       /\ paid = netSalesC(o) + o.serviceChargeC
       /\ t.serviceChargeC = o.serviceChargeC
       /\ t.scPwdDiscountC = leaks(q).scPwdDiscountC

(* The products of a product table and the rows of one; the columns of a       *)
(* product, category or trend table.                                           *)
ofProduct(rows, x) == [k \in {k \in DOMAIN rows : k.productId = x} |-> rows[k]]
soldIds(rows) == {k.productId : k \in DOMAIN rows}
RevenueColumn(rows) == SumOf(DOMAIN rows, LAMBDA k : rows[k].revenueC)
UnitsColumn(rows) == SumOf(DOMAIN rows, LAMBDA k : rows[k].units)

(* Line revenue is accounted for once: the products and the miscellaneous      *)
(* lines make the costed and the uncosted revenue, which is the net sales      *)
(* before order discounts; categories regroup the products; and a product is   *)
(* in the zero-sales list exactly when the product report has no row of it.    *)
(* A product's trend, which merges its variants, adds up at every granularity  *)
(* to the rows of its variants, which the product report keeps apart.          *)
(* An uncosted sale never reports a profit, zero or other, and every bucket,   *)
(* product and category adds up to the overview's profit.                      *)
RevenueAccounted ==
  \A q \in Queries :
    LET p == profit(q)
        l == leaks(q)
        o == overview(q).current
        products == RevenueColumn(p.byProduct)
        reach == {x \in Products : \E b \in resolve(q) : SoldBy[x] = b.id}
    IN /\ products + l.miscRevenueC = p.costedRevenueC + p.uncostedRevenueC
       /\ products = RevenueColumn(p.byCategory)
       /\ p.costedRevenueC + p.uncostedRevenueC
            = netSalesC(o) + l.orderLevelDiscountC
       /\ zeroSales(q) = reach \ soldIds(p.byProduct)
       /\ \A g \in {"day", "week", "month"} :
            profitTotal(trend(q, g)) = o.grossProfitC
       /\ \A x \in soldIds(p.byProduct), g \in {"day", "week", "month"} :
            LET rows == productTrend(q, x, g)
                variants == ofProduct(p.byProduct, x)
            IN /\ RevenueColumn(rows) = RevenueColumn(variants)
               /\ UnitsColumn(rows) = UnitsColumn(variants)
               /\ profitTotal(rows) = profitTotal(variants)
       /\ profitTotal(p.byProduct) = o.grossProfitC
       /\ profitTotal(p.byCategory) = o.grossProfitC

(* A void or a refund takes a sale out of every money figure and puts its      *)
(* value in the leaks report, so that nothing posted is ever lost from sight.  *)
StatusesOnlyInLeaks ==
  \A q \in Queries :
    LET o == overview(q).current
        l == leaks(q)
        posted == {i \in DOMAIN sales : \E b \in resolve(q) : inWindow(i, b)}
    IN /\ netSalesC(o) + l.voids.valueC + l.refunds.valueC = SumOf(posted, NET_SALES)
       /\ l.voids.count = o.voidCount /\ l.refunds.count = o.refundCount
       /\ l.voids.count = SumOf(DOMAIN l.voids.reasons, LAMBDA r : l.voids.reasons[r].transactions)

(* The dashboard's today is the overview of each business's own today, which   *)
(* at 3 AM differs between them; its last-week figure is the overview of that  *)
(* day; each of its branches, one that sold nothing included, has the overview *)
(* of that branch; and the sparkline is the week's heatmap.                    *)
DashboardIsToday ==
  \A b \in DOMAIN dashboard :
    LET d == dashboard[b]
        today == businessDayOf(now, DayStart[b])
        ask(br, first, last) == [business |-> b, branch |-> br, from |-> first, to |-> last]
        o == overview(ask(Null, today, today)).current
        week == heatmap(ask(Null, today - 6, today))
    IN /\ d.today.salesC = netSalesC(o) /\ d.today.grossProfitC = o.grossProfitC
       /\ d.sameDayLastWeek.salesC = netSalesC(overview(ask(Null, today - 7, today - 7)).current)
       /\ d.today.transactions = o.transactions
       /\ DOMAIN d.branches = {br \in Branches : BusinessOf[br] = b}
       /\ \A br \in DOMAIN d.branches :
            LET ofBranch == overview(ask(br, today, today)).current
            IN /\ d.branches[br].salesC = netSalesC(ofBranch)
               /\ d.branches[br].transactions = ofBranch.transactions
               /\ d.branches[br].grossProfitC = ofBranch.grossProfitC
       /\ d.sparkline = [x \in DOMAIN week |-> week[x].salesC]

(* sales-series.sql.ts says that `salesC` throughout its queries is net sales, *)
(* service charge excluded.  The payment split is one of them, and sums the    *)
(* payments: refuted by one dine-in sale.                                     *)
PaymentSplitIsNetSales ==
  \A q \in Queries :
    grandTotal(breakdowns(q).byPaymentMethod).salesC = netSalesC(overview(q).current)
=============================================================================
