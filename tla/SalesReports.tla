---------------------------- MODULE SalesReports ----------------------------
(* The portal's money reports over the sales table: which sales a query      *)
(* reaches, how each report's SQL groups them, and how the services merge     *)
(* the rows of several businesses.  Each report is a function of the table.   *)
EXTENDS ReportScope

CONSTANTS
  RatesOf,                      \* of each business
  Products, SoldBy, CategoryOf, \* active products, their business and category
  DraftsAt,                     \* the drafts that terminals of a branch post
  Reasons,                      \* reasons a cashier gives for a void or a refund
  MonthStart,                   \* the first day of the month of each date used
  MaxSales                      \* bound on the length of the table

(* Drafts have passed validation, rates are those of the columns, and a cost is *)
(* looked up only for a line that names a product.                            *)
ASSUME DraftsAssumption ==
  \A br \in Branches :
    /\ RateTypes(RatesOf[BusinessOf[br]])
    /\ \A d \in DraftsAt[br] :
         CartTypes(d) /\ \A k \in DOMAIN d.lines : d.lines[k].productId = Null => d.lines[k].cost = Null
ASSUME ProductsAssumption == Null \notin Products

SPARKLINE_DAYS == 7

VARIABLE sales  \* the rows of the table sales with their items and payment

vars == <<sales, now>>

bizOf(i) == BusinessOf[sales[i].branchId]

Init == sales = <<>> /\ StartOfClock

completeSale(br, draft) ==
  /\ Len(sales) < MaxSales
  /\ \E totals \in {computeTotals(draft, RatesOf[BusinessOf[br]])} :
       /\ totals.totalC >= 0
       /\ sales' = Append(sales, buildSaleData(draft, totals, br, now))
  /\ UNCHANGED now

changeStatus(i, to, reason) ==
  /\ sales[i].status = "completed"
  /\ sales' = [sales EXCEPT ![i].status = to, ![i].statusReason = reason]
  /\ UNCHANGED now

voidSale(i, reason) == changeStatus(i, "voided", reason)
refundSale(i, reason) == changeStatus(i, "refunded", reason)

Tick == ClockTicks /\ UNCHANGED sales

Next == \/ \E br \in Branches : \E d \in DraftsAt[br] : completeSale(br, d)
        \/ \E i \in DOMAIN sales, r \in Reasons : voidSale(i, r)
        \/ \E i \in DOMAIN sales, r \in Reasons : refundSale(i, r)
        \/ Tick

Spec == Init /\ [][Next]_vars

-----------------------------------------------------------------------------
Before(scope) == {[b EXCEPT !.window = b.previous] : b \in scope}

(* The sales of a scope with a given status, and the lines of a set of sales. *)
inWindow(i, b) == sales[i].branchId \in b.branchIds /\ InWindow(sales[i].createdAt, b.window)
withStatus(scope, st) ==
  {i \in DOMAIN sales : sales[i].status = st /\ \E b \in scope : inWindow(i, b)}
completedInWindow(scope) == withStatus(scope, "completed")
linesOf(S) == UNION {{i} \X DOMAIN sales[i].items : i \in S}
item(x) == sales[x[1]].items[x[2]]

NET_SALES(i) == sales[i].subtotal - sales[i].discount - sales[i].scPwdDiscount
LINE_BASE_C(x) == \* mutant: the modifiers forgotten
  halfUp(item(x).milli * item(x).unitPrice, 1000) - item(x).discount
LINE_NET_C(x) ==
  halfUp(item(x).milli * (item(x).unitPrice + Sum(item(x).modifiers, LAMBDA m : m)), 1000)
    - item(x).discount
LINE_COST_C(x) == halfUp(item(x).milli * item(x).costSnapshot, 1000)

costed(L) == {x \in L : item(x).costSnapshot # Null}
revenueOf(L) == SumOf(L, LINE_NET_C)

(* Unknown, and never zero, when no line carried a cost. *)
grossProfitC(L) == IF costed(L) = {} THEN Null
                   ELSE revenueOf(costed(L)) - SumOf(costed(L), LINE_COST_C)

figures(S) == [salesC |-> SumOf(S, NET_SALES), transactions |-> Cardinality(S)]
figuresAndProfit(S) == [salesC |-> SumOf(S, NET_SALES), transactions |-> Cardinality(S),
                        grossProfitC |-> grossProfitC(linesOf(S))]
groupedBy(S, key) == [k \in {key[i] : i \in S} |-> figures({i \in S : key[i] = k})]

-----------------------------------------------------------------------------
(* Overview: the totals of the range and of the period just before it. *)
totalsOf(scope) ==
  LET S == completedInWindow(scope)
      L == linesOf(S)
  IN [grossSalesC |-> SumOf(S, LAMBDA i : sales[i].subtotal),
      discountsC |-> SumOf(S, LAMBDA i : sales[i].discount + sales[i].scPwdDiscount),
      serviceChargeC |-> SumOf(S, LAMBDA i : sales[i].serviceCharge),
      transactions |-> Cardinality(S),
      voidCount |-> Cardinality(withStatus(scope, "voided")),
      refundCount |-> Cardinality(withStatus(scope, "refunded")),
      grossProfitC |-> grossProfitC(L),
      costedRevenueC |-> revenueOf(costed(L)),
      uncostedRevenueC |-> revenueOf(L \ costed(L))]
netSalesC(t) == t.grossSalesC - t.discountsC
overview(q) == [current |-> totalsOf(resolve(q)), previous |-> totalsOf(Before(resolve(q)))]

(* Sales over time and by pattern. *)
midnightBucketExpr(i) == dayBucket(sales[i].createdAt, 0) \* mutant: the day start forgotten
dayBucketExpr(i) == dayBucket(sales[i].createdAt, DayStart[bizOf(i)])
bucketExpr(i, granularity) ==
  CASE granularity = "day" -> dayBucketExpr(i)
    [] granularity = "week" -> weekBucket(dayBucketExpr(i))
    [] granularity = "month" -> MonthStart[dayBucketExpr(i)]

heatmap(q) ==
  LET S == completedInWindow(resolve(q))
  IN [d \in businessDaySeries(q.from, q.to) |-> figures({i \in S : dayBucketExpr(i) = d})]

trend(q, granularity) ==
  LET S == completedInWindow(resolve(q))
      of(k) == {i \in S : bucketExpr(i, granularity) = k}
  IN [k \in {bucketExpr(i, granularity) : i \in S} |-> figuresAndProfit(of(k))]

patterns(q) ==
  LET S == completedInWindow(resolve(q))
  IN [hourOfDay |-> [h \in 0 .. 23 |-> figures({i \in S : hourOfDay(sales[i].createdAt) = h})],
      dayOfWeek |-> [d \in 0 .. 6 |-> figures({i \in S : dayOfWeek(dayBucketExpr(i)) = d})]]

paymentBreakdown(S) ==
  [m \in {sales[i].method : i \in S} |->
     LET paid == {i \in S : sales[i].method = m}
     IN [salesC |-> SumOf(paid, LAMBDA i : sales[i].amount), transactions |-> Cardinality(paid)]]

breakdowns(q) ==
  LET S == completedInWindow(resolve(q))
  IN [byPaymentMethod |-> paymentBreakdown(S),
      byOrderType |-> groupedBy(S, [i \in S |-> sales[i].orderType]),
      byBranch |-> groupedBy(S, [i \in S |-> sales[i].branchId])]

taxOfNetSales(q) == \* mutant: vatable sales without the service charge
  LET S == completedInWindow(resolve(q))
  IN [vatableSalesC |->
        SumOf(S, LAMBDA i : NET_SALES(i) - sales[i].vatExemptSales - sales[i].tax),
      vatC |-> SumOf(S, LAMBDA i : sales[i].tax),
      vatExemptSalesC |-> SumOf(S, LAMBDA i : sales[i].vatExemptSales),
      scPwdDiscountC |-> SumOf(S, LAMBDA i : sales[i].scPwdDiscount),
      serviceChargeC |-> SumOf(S, LAMBDA i : sales[i].serviceCharge)]
tax(q) ==
  LET S == completedInWindow(resolve(q))
  IN [vatableSalesC |->
        SumOf(S, LAMBDA i : sales[i].total - sales[i].vatExemptSales - sales[i].tax),
      vatC |-> SumOf(S, LAMBDA i : sales[i].tax),
      vatExemptSalesC |-> SumOf(S, LAMBDA i : sales[i].vatExemptSales),
      scPwdDiscountC |-> SumOf(S, LAMBDA i : sales[i].scPwdDiscount),
      serviceChargeC |-> SumOf(S, LAMBDA i : sales[i].serviceCharge)]

-----------------------------------------------------------------------------
(* Products and profit. *)
soldRow(L) == [revenueC |-> revenueOf(L), grossProfitC |-> grossProfitC(L),
               units |-> SumOf(L, LAMBDA x : item(x).milli)]
productLines(L) == {x \in L : item(x).productId # Null}

(* A row for what sells: the variants of a product apart. *)
soldKey(x) == [productId |-> item(x).productId, variantId |-> item(x).variantId]
soldProducts(L) ==
  [k \in {soldKey(x) : x \in productLines(L)} |-> soldRow({x \in L : soldKey(x) = k})]

categoryOfLine(x) == CategoryOf[item(x).productId]
soldCategories(L) ==
  [c \in {categoryOfLine(x) : x \in productLines(L)} |->
     soldRow({x \in productLines(L) : categoryOfLine(x) = c})]

(* The variants of a product merged.  Days are zero-filled; coarser buckets are *)
(* those that sold something.                                                *)
productTrend(q, p, granularity) ==
  LET L == {x \in linesOf(completedInWindow(resolve(q))) : item(x).productId = p}
      bucketOf(x) == bucketExpr(x[1], granularity)
  IN [k \in IF granularity = "day" THEN businessDaySeries(q.from, q.to)
            ELSE {bucketOf(x) : x \in L} |-> soldRow({x \in L : bucketOf(x) = k})]

profit(q) ==
  LET L == linesOf(completedInWindow(resolve(q)))
  IN [byProduct |-> soldProducts(L), byCategory |-> soldCategories(L),
      costedRevenueC |-> revenueOf(costed(L)), uncostedRevenueC |-> revenueOf(L \ costed(L))]

(* Active products of the businesses in scope that no completed sale names. *)
zeroSales(q) ==
  LET L == linesOf(completedInWindow(resolve(q)))
  IN {p \in Products : /\ \E b \in resolve(q) : SoldBy[p] = b.id
                       /\ \A x \in L : item(x).productId # p}

-----------------------------------------------------------------------------
(* Leaks. *)
lineDiscounts(i) == Sum(sales[i].items, LAMBDA it : it.discount)

(* The engine does not store the order-level discount; it is what is left of  *)
(* the promo discounts once the lines' share of them is taken away.           *)
orderLevelC(i) == sales[i].discount - (lineDiscounts(i) - sales[i].scPwdDiscount)

discountsByName(S) ==
  LET onLine(d) == {x \in linesOf(S) : item(x).discountId = d}
      onOrder(d) == {i \in S : sales[i].discountId = d}
      names == {item(x).discountId : x \in linesOf(S)} \cup {sales[i].discountId : i \in S}
  IN [d \in names \ {Null} |->
        [timesUsed |-> Cardinality(onLine(d)) + Cardinality(onOrder(d)),
         amountC |-> SumOf(onLine(d), LAMBDA x : item(x).discount) + SumOf(onOrder(d), orderLevelC)]]

statusBucketPaid(S) == \* mutant: valued at what was paid
  [count |-> Cardinality(S), valueC |-> SumOf(S, LAMBDA i : sales[i].total),
   reasons |-> groupedBy(S, [i \in S |-> sales[i].statusReason])]
statusBucket(S) ==
  [count |-> Cardinality(S), valueC |-> SumOf(S, NET_SALES),
   reasons |-> groupedBy(S, [i \in S |-> sales[i].statusReason])]

discountTotals(S) ==
  [saleDiscountC |-> SumOf(S, LAMBDA i : sales[i].discount),
   lineDiscountC |-> SumOf(S, lineDiscounts),
   scPwdDiscountC |-> SumOf(S, LAMBDA i : sales[i].scPwdDiscount),
   scPwdSales |-> Cardinality({i \in S : sales[i].scPwd})]

miscRevenueC(L) == revenueOf(L \ productLines(L))

leaks(q) ==
  LET scope == resolve(q)
      S == completedInWindow(scope)
      totals == discountTotals(S)
  IN [discountsByName |-> discountsByName(S),
      orderLevelDiscountC |-> totals.saleDiscountC - (totals.lineDiscountC - totals.scPwdDiscountC),
      scPwdDiscountC |-> totals.scPwdDiscountC,
      scPwdSales |-> totals.scPwdSales,
      miscRevenueC |-> miscRevenueC(linesOf(S)),
      voids |-> statusBucket(withStatus(scope, "voided")),
      refunds |-> statusBucket(withStatus(scope, "refunded"))]

-----------------------------------------------------------------------------
(* Dashboard. *)
(* A row for every branch in scope, also when it sold nothing. *)
dashboardBranch(s, window) ==
  LET S == completedInWindow({[s EXCEPT !.window = window]})
      of(br) == {i \in S : sales[i].branchId = br}
  IN [br \in s.branchIds |-> figuresAndProfit(of(br))]

profitTotal(rows) ==
  LET known == {k \in DOMAIN rows : rows[k].grossProfitC # Null}
  IN IF known = {} THEN Null ELSE SumOf(known, LAMBDA k : rows[k].grossProfitC)

figuresOf(rows) ==
  [salesC |-> SumOf(DOMAIN rows, LAMBDA br : rows[br].salesC),
   transactions |-> SumOf(DOMAIN rows, LAMBDA br : rows[br].transactions),
   grossProfitC |-> profitTotal(rows)]

dashboardSparkline(s, from) ==
  LET S == completedInWindow({[s EXCEPT !.window.fromUtc = from]})
  IN [d \in {dayBucketExpr(i) : i \in S} |-> SumOf({i \in S : dayBucketExpr(i) = d}, NET_SALES)]

sparkline(s) ==
  LET first == addDays(businessDayOf(now, DayStart[s.id]), -(SPARKLINE_DAYS - 1))
      byDate == dashboardSparkline(s, businessDayStartUtc(first, DayStart[s.id]))
  IN [d \in {addDays(first, n) : n \in 0 .. SPARKLINE_DAYS - 1} |->
        IF d \in DOMAIN byDate THEN byDate[d] ELSE 0]

dashboard ==
  [b \in {s.id : s \in resolveToday} |->
     LET s == CHOOSE x \in resolveToday : x.id = b
     IN [today |-> figuresOf(dashboardBranch(s, s.window)),
         sameDayLastWeek |-> figuresOf(dashboardBranch(s, s.previous)),
         branches |-> dashboardBranch(s, s.window),
         sparkline |-> sparkline(s)]]
=============================================================================
