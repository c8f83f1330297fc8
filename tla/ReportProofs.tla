----------------------------- MODULE ReportProofs -----------------------------
(* Proofs about the portal's money reports, for every owner, table, query and *)
(* clock.  Each row of the table stays what completeSale wrote for a draft    *)
(* (Table, the inductive invariant); a query's window, laid over each         *)
(* business's own day, is the days it names (ScopeIsItsDays); and a GROUP BY  *)
(* adds up to its set of sales or of lines (SumByKey).  The agreements of the *)
(* reports follow from the three.                                            *)
EXTENDS ReportAgreement, CommonProofs

----------------------------------------------------------------------------
(* The table                                                                 *)

Columns == {"branchId", "orderType", "status", "statusReason", "subtotal", "discount",
            "discountId", "serviceCharge", "scPwd", "scPwdDiscount", "vatExemptSales", "tax",
            "total", "draft", "draftTotals", "items", "method", "amount", "createdAt"}

TotalsOf(br, d) == computeTotals(d, RatesOf[BusinessOf[br]])
Statuses == {"completed", "voided", "refunded"}

(* A row as completeSale wrote it for a draft, whatever became of its status.  *)
Written(r, br, d, t) ==
  /\ DOMAIN r = Columns
  /\ r.status \in Statuses /\ r.createdAt \in Int /\ r.branchId = br
  /\ r.subtotal = t.subtotalC /\ r.discount = t.promoDiscountC
  /\ r.discountId = namedId(d.orderDiscount) /\ r.serviceCharge = t.serviceChargeC
  /\ r.scPwdDiscount = t.scPwdDiscountC /\ r.vatExemptSales = t.vatExemptSalesC
  /\ r.tax = t.vatC /\ r.total = t.totalC /\ r.amount = t.totalC
  /\ r.draft = d /\ r.draftTotals = t
  /\ r.items = [k \in DOMAIN d.lines |-> saleItem(d.lines[k], t.lines[k])]

Posted(r) == \E br \in Branches : \E d \in DraftsAt[br] : Written(r, br, d, TotalsOf(br, d))

Table == /\ now \in Int
         /\ \E S : sales \in Seq(S)
         /\ \A i \in DOMAIN sales : Posted(sales[i])

(* A draft becomes such a row, and a void or a refund leaves it one.          *)
LEMMA RowsAreWritten ==
  /\ \A br \in Branches : \A d \in DraftsAt[br] : \A at \in Int :
       Posted(buildSaleData(d, TotalsOf(br, d), br, at))
  /\ \A r : Posted(r) => \A st \in Statuses : \A why :
       Posted([r EXCEPT !.status = st, !.statusReason = why])
<1>1. ASSUME NEW br \in Branches, NEW d \in DraftsAt[br], NEW at \in Int
      PROVE  Posted(buildSaleData(d, TotalsOf(br, d), br, at))
  <2> DEFINE t == TotalsOf(br, d)
             r == buildSaleData(d, t, br, at)
  <2> HIDE DEF t
  <2>1. DOMAIN r = Columns
    BY DEF buildSaleData, Columns
  <2>2. Written(r, br, d, t)
    BY <2>1 DEF Written, Statuses, buildSaleData
  <2> QED BY <2>2 DEF Posted, t
<1>2. ASSUME NEW r, Posted(r), NEW st \in Statuses, NEW why
      PROVE  Posted([r EXCEPT !.status = st, !.statusReason = why])
  <2>1. PICK br \in Branches : \E d \in DraftsAt[br] : Written(r, br, d, TotalsOf(br, d))
    BY <1>2 DEF Posted
  <2>2. PICK d \in DraftsAt[br] : Written(r, br, d, TotalsOf(br, d))
    BY <2>1
  <2> DEFINE e == [r EXCEPT !.status = st, !.statusReason = why]
             t == TotalsOf(br, d)
  <2> HIDE DEF t
  <2>3. DOMAIN r = Columns
    BY <2>2 DEF Written
  <2>4. DOMAIN e = Columns /\ e.status = st /\ \A c \in Columns \ {"status", "statusReason"} : e[c] = r[c]
    BY <2>3 DEF Columns
  <2> HIDE DEF e
  <2>5. Written(e, br, d, t)
    BY <2>2, <2>4 DEF Written, Columns, t
  <2> QED BY <2>5 DEF Posted, e, t
<1> QED BY <1>1, <1>2

(* A sequence with one more row, and with one row changed.                    *)
LEMMA TableGrows ==
  ASSUME NEW s, \E S : s \in Seq(S), NEW r
  PROVE  LET e == Append(s, r)
         IN /\ \E S : e \in Seq(S)
            /\ \A i \in DOMAIN e : e[i] = r \/ (i \in DOMAIN s /\ e[i] = s[i])
<1>1. PICK S : s \in Seq(S)
  OBVIOUS
<1>2. s \in Seq(S \cup {r})
  BY <1>1
<1> DEFINE e == Append(s, r)
<1>3. e \in Seq(S \cup {r}) /\ DOMAIN e = DOMAIN s \cup {Len(s) + 1} /\ e[Len(s) + 1] = r
  BY <1>2
<1>4. \A i \in DOMAIN s : e[i] = s[i]
  BY <1>2
<1> HIDE DEF e
<1>5. \E T : e \in Seq(T)
  BY <1>3
<1>6. \A i \in DOMAIN e : e[i] = r \/ (i \in DOMAIN s /\ e[i] = s[i])
  BY <1>3, <1>4
<1> QED BY <1>5, <1>6 DEF e

LEMMA TableChanges ==
  ASSUME NEW s, \E S : s \in Seq(S), NEW r, NEW k \in DOMAIN s
  PROVE  LET e == [s EXCEPT ![k] = r]
         IN /\ \E S : e \in Seq(S)
            /\ \A i \in DOMAIN e : e[i] = r \/ (i \in DOMAIN s /\ e[i] = s[i])
<1>1. PICK S : s \in Seq(S)
  OBVIOUS
<1>2. s \in Seq(S \cup {r})
  BY <1>1
<1> DEFINE e == [s EXCEPT ![k] = r]
<1>3. e \in Seq(S \cup {r})
  BY <1>2
<1>4. \A i \in DOMAIN e : e[i] = r \/ (i \in DOMAIN s /\ e[i] = s[i])
  OBVIOUS
<1> HIDE DEF e
<1>5. \E T : e \in Seq(T)
  BY <1>3
<1> QED BY <1>4, <1>5 DEF e

(* Every row of the table is one that completeSale wrote.                     *)
LEMMA TableIsWritten == Spec => []Table
<1>0. /\ IsFiniteSet(Instants) /\ Instants \subseteq Int /\ Instants # {}
      /\ \A t \in Int : IsFiniteSet({u \in Instants : u > t})
  BY ScopeAssumption, FS_Subset
<1>1. Init => Table
  <2>1. StartOfClock => now \in Int
    BY <1>0, LeastIsOne DEF StartOfClock
  <2>2. <<>> \in Seq({}) /\ DOMAIN <<>> = {}
    OBVIOUS
  <2> QED BY <2>1, <2>2 DEF Init, Table
<1>2. ASSUME Table, [Next]_vars PROVE Table'
  <2>0. /\ now \in Int /\ \A i \in DOMAIN sales : Posted(sales[i])
        /\ \E S : sales \in Seq(S)
    BY <1>2 DEF Table
  <2>1. ASSUME NEW br \in Branches, NEW d \in DraftsAt[br], completeSale(br, d) PROVE Table'
    <3> DEFINE row == buildSaleData(d, TotalsOf(br, d), br, now)
    <3>1. sales' = Append(sales, row) /\ now' = now
      BY <2>1 DEF completeSale, TotalsOf
    <3>2. Posted(row)
      BY <2>0, RowsAreWritten
    <3> HIDE DEF row
    <3> QED BY <2>0, <3>1, <3>2, TableGrows DEF Table
  <2>2. ASSUME NEW i \in DOMAIN sales, NEW st \in Statuses, NEW why, changeStatus(i, st, why) PROVE Table'
    <3> DEFINE row == [sales[i] EXCEPT !.status = st, !.statusReason = why]
    <3>1. sales' = [sales EXCEPT ![i] = row] /\ now' = now
      BY <2>2 DEF changeStatus
    <3>2. Posted(row)
      BY <2>0, RowsAreWritten
    <3> HIDE DEF row
    <3> QED BY <2>0, <3>1, <3>2, TableChanges DEF Table
  <2>3. ASSUME Tick PROVE Table'
    <3>1. now' \in Int
      BY <1>0, <2>0, <2>3, LeastIsOne DEF Tick, ClockTicks
    <3> QED BY <2>0, <2>3, <3>1 DEF Tick, Table
  <2>4. CASE UNCHANGED vars
    BY <2>0, <2>4 DEF vars, Table
  <2> QED BY <1>2, <2>1, <2>2, <2>3, <2>4 DEF Next, voidSale, refundSale, Statuses
<1> QED BY <1>1, <1>2, PTL DEF Spec

(* The figures of a sale, and how they hang together.                         *)
Figured(i) ==
  /\ sales[i].branchId \in Branches /\ bizOf(i) \in Businesses
  /\ sales[i].createdAt \in Int /\ sales[i].status \in Statuses
  /\ sales[i].subtotal \in Int /\ sales[i].discount \in Int /\ sales[i].scPwdDiscount \in Int
  /\ sales[i].serviceCharge \in Int /\ sales[i].vatExemptSales \in Int /\ sales[i].tax \in Int
  /\ sales[i].total = NET_SALES(i) + sales[i].serviceCharge
  /\ sales[i].amount = sales[i].total
  /\ NET_SALES(i) \in Int

LEMMA SalesFigured == Table => IsFiniteSet(DOMAIN sales) /\ \A i \in DOMAIN sales : Figured(i)
<1>1. ASSUME Table, NEW i \in DOMAIN sales PROVE Figured(i)
  <2>1. PICK br \in Branches : \E d \in DraftsAt[br] : Written(sales[i], br, d, TotalsOf(br, d))
    BY <1>1 DEF Table, Posted
  <2>2. PICK d \in DraftsAt[br] : Written(sales[i], br, d, TotalsOf(br, d))
    BY <2>1
  <2> DEFINE s == RatesOf[BusinessOf[br]]
             t == TotalsOf(br, d)
  <2>3. CartTypes(d) /\ RateTypes(s) /\ BusinessOf[br] \in Businesses
    BY DraftsAssumption, ScopeAssumption
  <2>4. ColumnTypes(d, s)
    BY <2>3, ColumnsTyped
  <2>5. /\ t.subtotalC \in Int /\ t.scPwdDiscountC \in Int /\ t.promoDiscountC \in Int
        /\ t.serviceChargeC \in Int /\ t.vatExemptSalesC \in Int
        /\ t.totalC = t.subtotalC - t.promoDiscountC - t.scPwdDiscountC + t.serviceChargeC
        /\ t.vatC \in Int
    <3> DEFINE taxable == t.totalC - t.vatExemptSalesC
    <3>1. /\ t.vatExemptSalesC = Total(Exempt(d, s))
          /\ t.subtotalC = Total(Gross(d, s)) /\ t.scPwdDiscountC = Total(ScPwdOff(d, s))
          /\ t.promoDiscountC = Total(PromoOff(d, s)) + OrderOff(d, s) /\ OrderOff(d, s) \in Int
          /\ t.serviceChargeC = Charge(d, s)
          /\ t.discountedSubtotalC = t.subtotalC - t.promoDiscountC - t.scPwdDiscountC
          /\ t.discountedSubtotalC = Discounted(d, s) /\ Discounted(d, s) \in Int
          /\ t.totalC = Discounted(d, s) + Charge(d, s) /\ Charge(d, s) \in Int
          /\ t.vatC = vatIncluded(taxable, s)
      <4>1. t = computeTotals(d, s)
        BY DEF TotalsOf
      <4> HIDE DEF t, s
      <4> QED BY <2>3, <4>1, TotalsByColumn, Zenon
    <3> HIDE DEF t
    <3>2. taxable \in Int
      BY <2>4, <3>1 DEF ColumnTypes
    <3>3. t.vatC \in Int
      BY <2>3, <3>1, <3>2, VatIsInside DEF RateTypes, Near
    <3> QED BY <2>4, <3>1, <3>3 DEF ColumnTypes
  <2> HIDE DEF t
  <2> QED BY <2>2, <2>3, <2>5 DEF Written, Figured, NET_SALES, bizOf, t
<1>2. Table => IsFiniteSet(DOMAIN sales)
  <2>1. ASSUME NEW S, sales \in Seq(S) PROVE IsFiniteSet(DOMAIN sales)
    <3>1. DOMAIN sales = 1 .. Len(sales) /\ Len(sales) \in Nat
      BY <2>1
    <3> QED BY <3>1, FS_Interval
  <2> QED BY <2>1 DEF Table
<1> QED BY <1>1, <1>2

----------------------------------------------------------------------------
(* The sales a query reaches                                                 *)

Reaches(q, i) == bizOf(i) \in chosen(q) /\ q.branch \in {Null, sales[i].branchId}

(* A query's window, laid over each business's own day, is the days it names:  *)
(* a sale is reached when its branch is and its business day is one of them.   *)
LEMMA ScopeIsItsDays ==
  ASSUME Table, NEW q \in Asks, NEW i \in DOMAIN sales
  PROVE  /\ (\E b \in resolve(q) : inWindow(i, b))
              <=> Reaches(q, i) /\ dayBucketExpr(i) \in q.from .. q.to
         /\ (\E b \in Before(resolve(q)) : inWindow(i, b))
              <=> Reaches(q, i) /\ dayBucketExpr(i) \in 2 * q.from - q.to - 1 .. q.from - 1
<1> DEFINE br == sales[i].branchId
           D(b) == DayStart[b]
           w(b) == businessDayRangeUtc(q.from, q.to, D(b))
           R(b) == [id |-> b, branchIds |-> branchesIn(q, b), window |-> w(b),
                    previous |-> previousPeriod(w(b))]
           C == {c \in chosen(q) : branchesIn(q, c) # {}}
<1>1. /\ br \in Branches /\ sales[i].createdAt \in Int /\ q.from \in Int /\ q.to \in Int
      /\ chosen(q) \subseteq Businesses
      /\ \A b \in Businesses : D(b) \in DayStarts
  BY SalesFigured, ScopeAssumption DEF Figured, Asks, chosen
<1>2. resolve(q) = {R(b) : b \in C}
  BY DEF resolve
<1>3. /\ \A b \in C : R(b).branchIds = branchesIn(q, b) /\ R(b).window = w(b)
      /\ \A b \in C : [R(b) EXCEPT !.window = R(b).previous].branchIds = branchesIn(q, b)
      /\ \A b \in C : [R(b) EXCEPT !.window = R(b).previous].window = previousPeriod(w(b))
  OBVIOUS
<1>4. Before(resolve(q)) = {[R(b) EXCEPT !.window = R(b).previous] : b \in C}
  <2> HIDE DEF R, C
  <2> QED BY <1>2 DEF Before
<1>5. \A b \in C : br \in branchesIn(q, b) <=> b = bizOf(i) /\ q.branch \in {Null, br}
  BY <1>1 DEF branchesIn, bizOf
<1>6. bizOf(i) \in C /\ br \in branchesIn(q, bizOf(i)) <=> Reaches(q, i)
  BY <1>1 DEF branchesIn, bizOf, Reaches
<1>7. \A b \in C : InWindow(sales[i].createdAt, w(b))
                     <=> dayBucket(sales[i].createdAt, D(b)) \in q.from .. q.to
  BY <1>1, WindowIsItsDays
<1>8. \A b \in C : InWindow(sales[i].createdAt, previousPeriod(w(b)))
                     <=> dayBucket(sales[i].createdAt, D(b)) \in 2 * q.from - q.to - 1 .. q.from - 1
  <2>1. \A b \in C : previousPeriod(w(b)) = businessDayRangeUtc(2 * q.from - q.to - 1, q.from - 1, D(b))
    BY <1>1, PreviousIsJustBefore
  <2>2. 2 * q.from - q.to - 1 \in Int /\ q.from - 1 \in Int
    BY <1>1
  <2> HIDE DEF w
  <2> QED BY <1>1, <2>1, <2>2, WindowIsItsDays
<1>9. dayBucketExpr(i) = dayBucket(sales[i].createdAt, D(bizOf(i)))
  BY DEF dayBucketExpr
<1> HIDE DEF R, C, w, D
<1>10. (\E b \in resolve(q) : inWindow(i, b))
         <=> Reaches(q, i) /\ dayBucketExpr(i) \in q.from .. q.to
  BY <1>2, <1>3, <1>5, <1>6, <1>7, <1>9 DEF inWindow
<1>11. (\E b \in Before(resolve(q)) : inWindow(i, b))
         <=> Reaches(q, i) /\ dayBucketExpr(i) \in 2 * q.from - q.to - 1 .. q.from - 1
  BY <1>4, <1>3, <1>5, <1>6, <1>8, <1>9 DEF inWindow
<1> QED BY <1>10, <1>11

SalesOf(q, st) ==
  {i \in DOMAIN sales : /\ sales[i].status = st /\ Reaches(q, i)
                        /\ dayBucketExpr(i) \in q.from .. q.to}

Spanning(q, a, b) == [q EXCEPT !.from = a, !.to = b]

LEMMA SpanEdits ==
  ASSUME NEW q \in Asks, NEW a \in Int, NEW b \in Int
  PROVE  LET e == Spanning(q, a, b)
         IN e \in Asks /\ e.from = a /\ e.to = b /\ e.business = q.business /\ e.branch = q.branch
<1> DEFINE m == [q EXCEPT !.from = a]
           e == [m EXCEPT !.to = b]
<1>1. m \in Asks /\ m.from = a /\ m.business = q.business /\ m.branch = q.branch
  BY DEF Asks
<1> HIDE DEF m
<1>2. e \in Asks /\ e.to = b /\ e.from = m.from /\ e.business = m.business /\ e.branch = m.branch
  BY <1>1 DEF Asks
<1> QED BY <1>1, <1>2 DEF m, Spanning

(* The sales a query, the period before it and one of its days reach.         *)
LEMMA SalesReached ==
  ASSUME Table, NEW q \in Asks, NEW st
  PROVE  /\ withStatus(resolve(q), st) = SalesOf(q, st)
         /\ withStatus(Before(resolve(q)), st) = SalesOf(justBefore(q), st)
         /\ SalesOf(q, st) \in SUBSET DOMAIN sales /\ IsFiniteSet(SalesOf(q, st))
         /\ justBefore(q) \in Asks
         /\ \A d \in q.from .. q.to :
              /\ onDay(q, d) \in Asks
              /\ SalesOf(onDay(q, d), st) = {i \in SalesOf(q, st) : dayBucketExpr(i) = d}
<1>1. /\ justBefore(q) \in Asks /\ justBefore(q).from = 2 * q.from - q.to - 1
      /\ justBefore(q).to = q.from - 1 /\ justBefore(q).business = q.business
      /\ justBefore(q).branch = q.branch
  <2>1. 2 * q.from - q.to - 1 \in Int /\ q.from - 1 \in Int
    BY DEF Asks
  <2>2. justBefore(q) = Spanning(q, 2 * q.from - q.to - 1, q.from - 1)
    BY DEF justBefore, Spanning
  <2> QED BY <2>1, <2>2, SpanEdits
<1>2. ASSUME NEW d \in q.from .. q.to
      PROVE  /\ onDay(q, d) \in Asks /\ onDay(q, d).from = d /\ onDay(q, d).to = d
             /\ onDay(q, d).business = q.business /\ onDay(q, d).branch = q.branch
  <2>1. d \in Int
    BY DEF Asks
  <2>2. onDay(q, d) = Spanning(q, d, d)
    BY DEF onDay, Spanning
  <2> QED BY <2>1, <2>2, SpanEdits
<1>3. \A i \in DOMAIN sales : Reaches(justBefore(q), i) <=> Reaches(q, i)
  BY <1>1 DEF Reaches, chosen
<1>4. \A d \in q.from .. q.to : \A i \in DOMAIN sales : Reaches(onDay(q, d), i) <=> Reaches(q, i)
  BY <1>2 DEF Reaches, chosen
<1>5. withStatus(resolve(q), st) = SalesOf(q, st)
  BY ScopeIsItsDays DEF withStatus, SalesOf
<1>6. withStatus(Before(resolve(q)), st) = SalesOf(justBefore(q), st)
  BY <1>1, <1>3, ScopeIsItsDays DEF withStatus, SalesOf
<1>7. SalesOf(q, st) \in SUBSET DOMAIN sales /\ IsFiniteSet(SalesOf(q, st))
  BY SalesFigured, FS_Subset DEF SalesOf
<1>8. ASSUME NEW d \in q.from .. q.to
      PROVE  SalesOf(onDay(q, d), st) = {i \in SalesOf(q, st) : dayBucketExpr(i) = d}
  <2>1. q.from \in Int /\ q.to \in Int
    BY DEF Asks
  <2>2. \A x : x \in d .. d <=> x = d
    BY <2>1
  <2> QED BY <1>2, <1>4, <2>2 DEF SalesOf
<1> QED BY <1>1, <1>2, <1>5, <1>6, <1>7, <1>8

----------------------------------------------------------------------------
(* Net sales, and tables that regroup them                                   *)

NetOf(S) == [i \in S |-> NET_SALES(i)]

LEMMA NetTyped ==
  ASSUME Table, NEW S \in SUBSET DOMAIN sales
  PROVE  /\ IsFiniteSet(S) /\ NetOf(S) \in [S -> Int] /\ Total(NetOf(S)) \in Int
         /\ SumOf(S, NET_SALES) = Total(NetOf(S)) /\ Cardinality(S) \in Nat
<1>1. IsFiniteSet(S) /\ \A i \in S : NET_SALES(i) \in Int
  BY SalesFigured, FS_Subset DEF Figured
<1>2. NetOf(S) \in [S -> Int]
  BY <1>1 DEF NetOf
<1>3. SumOf(S, NET_SALES) = Total(NetOf(S))
  BY DEF SumOf, NetOf
<1> QED BY <1>1, <1>2, <1>3, SumType, FS_CardinalityType

(* The overview's net is the sum of its sales' nets.                          *)
LEMMA OverviewIsNet ==
  ASSUME Table, NEW scope
  PROVE  LET S == completedInWindow(scope)
             o == totalsOf(scope)
         IN /\ S \in SUBSET DOMAIN sales
            /\ netSalesC(o) = Total(NetOf(S)) /\ netSalesC(o) \in Int
            /\ o.transactions = Cardinality(S)
            /\ o.voidCount = Cardinality(withStatus(scope, "voided"))
            /\ o.refundCount = Cardinality(withStatus(scope, "refunded"))
<1> DEFINE S == completedInWindow(scope)
           o == totalsOf(scope)
           gross == [i \in S |-> sales[i].subtotal]
           off == [i \in S |-> sales[i].discount + sales[i].scPwdDiscount]
<1>1. S \in SUBSET DOMAIN sales
  BY DEF completedInWindow, withStatus
<1> HIDE DEF S
<1>2. /\ o.grossSalesC = Total(gross) /\ o.discountsC = Total(off)
      /\ o.transactions = Cardinality(S)
      /\ o.voidCount = Cardinality(withStatus(scope, "voided"))
      /\ o.refundCount = Cardinality(withStatus(scope, "refunded"))
  BY Zenon DEF totalsOf, SumOf, S
<1>3. IsFiniteSet(S) /\ \A i \in S : Figured(i)
  BY <1>1, SalesFigured, FS_Subset
<1>4. gross \in [S -> Int] /\ off \in [S -> Int]
  BY <1>3 DEF Figured
<1>5. AddsUp(S, NetOf(S), off, gross)
  BY <1>3 DEF AddsUp, NetOf, NET_SALES, Figured
<1>6. NetOf(S) \in [S -> Int] /\ Total(NetOf(S)) \in Int
  BY <1>1, NetTyped
<1> HIDE DEF gross, off, o
<1>7. Total(gross) = Total(NetOf(S)) + Total(off) /\ Total(off) \in Int
  BY <1>3, <1>4, <1>5, <1>6, SumPlus, SumType
<1>8. netSalesC(o) = Total(NetOf(S))
  BY <1>2, <1>6, <1>7 DEF netSalesC
<1> QED BY <1>1, <1>2, <1>6, <1>8 DEF o, S

(* A table whose rows are the figures of the sales of a key has the figures of *)
(* all the sales, however many keys it has rows for.                          *)
LEMMA FiguresByKey ==
  ASSUME Table, NEW S \in SUBSET DOMAIN sales, NEW K, IsFiniteSet(K),
         NEW key \in [S -> K], NEW rows, DOMAIN rows = K,
         \A k \in K : LET At == {i \in S : key[i] = k}
                      IN /\ rows[k].salesC = Total(NetOf(At))
                         /\ rows[k].transactions = Cardinality(At)
  PROVE  grandTotal(rows) = [salesC |-> Total(NetOf(S)), transactions |-> Cardinality(S)]
<1> DEFINE At(k) == {i \in S : key[i] = k}
           net == [k \in K |-> rows[k].salesC]
           count == [k \in K |-> rows[k].transactions]
<1>1. IsFiniteSet(S) /\ NetOf(S) \in [S -> Int]
  BY NetTyped
<1>2. \A k \in K : At(k) \in SUBSET DOMAIN sales
  OBVIOUS
<1>3. \A k \in K : Total(NetOf(At(k))) \in Int /\ Cardinality(At(k)) \in Int
  <2> HIDE DEF At
  <2> QED BY <1>2, NetTyped
<1>4. \A k \in K : net[k] = Total(NetOf(At(k))) /\ count[k] = Cardinality(At(k))
  OBVIOUS
<1>5. net \in [K -> Int] /\ count \in [K -> Int]
  <2> HIDE DEF At
  <2>1. \A k \in K : rows[k].salesC \in Int /\ rows[k].transactions \in Int
    BY <1>3, <1>4
  <2> QED BY <2>1
<1>6. \A k \in K : NetOf(At(k)) = [x \in At(k) |-> NetOf(S)[x]]
  BY DEF NetOf
<1> HIDE DEF net, count
<1>7. Total(net) = Total(NetOf(S))
  <2>1. \A k \in K : net[k] = Total([x \in {y \in S : key[y] = k} |-> NetOf(S)[x]])
    BY <1>4, <1>6
  <2> QED BY <1>1, <1>5, <2>1, SumByKey
<1>8. Total(count) = Cardinality(S)
  <2>1. \A k \in K : count[k] = Cardinality({y \in S : key[y] = k})
    BY <1>4
  <2> HIDE DEF At
  <2> QED BY <1>1, <1>5, <2>1, CountByKey
<1>9. grandTotal(rows) = [salesC |-> Total(net), transactions |-> Total(count)]
  BY Zenon DEF grandTotal, SumOf, net, count
<1> QED BY <1>7, <1>8, <1>9

(* The buckets a sale falls into.                                            *)
LEMMA Buckets ==
  ASSUME Table, NEW i \in DOMAIN sales
  PROVE  /\ dayBucketExpr(i) \in Int
         /\ dayOfWeek(dayBucketExpr(i)) \in 0 .. 6
         /\ hourOfDay(sales[i].createdAt) \in 0 .. 23
<1>1. /\ sales[i].createdAt \in Int /\ DayStart[bizOf(i)] \in DayStarts
  BY SalesFigured, ScopeAssumption DEF Figured
<1>2. dayBucketExpr(i) \in Int
  BY <1>1, BucketHolds DEF dayBucketExpr
<1> HIDE DEF dayBucketExpr
<1>3. dayOfWeek(dayBucketExpr(i)) \in 0 .. 6
  BY <1>2 DEF dayOfWeek
<1>4. hourOfDay(sales[i].createdAt) \in 0 .. 23
  BY <1>1 DEF hourOfDay, MANILA_OFFSET_MINUTES
<1> QED BY <1>2, <1>3, <1>4

LEMMA SeriesIsItsDays == \A q \in Asks : businessDaySeries(q.from, q.to) = q.from .. q.to
<1> SUFFICES ASSUME NEW q \in Asks PROVE businessDaySeries(q.from, q.to) = q.from .. q.to
  OBVIOUS
<1>1. q.from \in Int /\ q.to \in Int /\ 0 \in DayStarts
  BY DEF Asks, DayStarts, MinutesPerDay
<1>2. ASSUME NEW d \in q.from .. q.to PROVE businessDayOf(businessDayStartUtc(d, 0), 0) = d
  <2>1. d \in Int
    BY <1>1
  <2> QED BY <1>1, <2>1, DatesAddUp
<1> QED BY <1>2 DEF businessDaySeries

LEMMA FiguresAre ==
  ASSUME NEW T
  PROVE  /\ figures(T).salesC = Total(NetOf(T)) /\ figures(T).transactions = Cardinality(T)
         /\ figuresAndProfit(T).salesC = Total(NetOf(T))
         /\ figuresAndProfit(T).transactions = Cardinality(T)
  BY Zenon DEF figures, figuresAndProfit, SumOf, NetOf

(* Two shapes of table: with a row for each key that has sales, and with a row *)
(* for each key of a set that has them all.                                   *)
LEMMA Regrouped ==
  ASSUME Table, NEW S \in SUBSET DOMAIN sales, NEW K, IsFiniteSet(K), NEW key \in [S -> K],
         NEW rows, DOMAIN rows = K,
         \A k \in K : LET At == {i \in S : key[i] = k}
                      IN rows[k] = figures(At) \/ rows[k] = figuresAndProfit(At)
  PROVE  grandTotal(rows) = [salesC |-> Total(NetOf(S)), transactions |-> Cardinality(S)]
<1>1. \A k \in K : LET At == {i \in S : key[i] = k}
                   IN /\ rows[k].salesC = Total(NetOf(At))
                      /\ rows[k].transactions = Cardinality(At)
  <2> DEFINE At(k) == {i \in S : key[i] = k}
  <2>1. \A k \in K : rows[k] = figures(At(k)) \/ rows[k] = figuresAndProfit(At(k))
    OBVIOUS
  <2>2. \A k \in K : rows[k].salesC = Total(NetOf(At(k))) /\ rows[k].transactions = Cardinality(At(k))
    <3> HIDE DEF At
    <3> QED BY <2>1, FiguresAre
  <2> QED BY <2>2
<1> QED BY <1>1, FiguresByKey

LEMMA GroupedFigures ==
  ASSUME Table, NEW S \in SUBSET DOMAIN sales, NEW key, DOMAIN key = S
  PROVE  grandTotal(groupedBy(S, [i \in S |-> key[i]]))
           = [salesC |-> Total(NetOf(S)), transactions |-> Cardinality(S)]
<1> DEFINE f == [i \in S |-> key[i]]
           K == {f[i] : i \in S}
           rows == groupedBy(S, f)
<1>1. IsFiniteSet(K)
  <2>1. IsFiniteSet(S)
    BY NetTyped
  <2> QED BY <2>1, ImageFinite
<1>2. f \in [S -> K] /\ DOMAIN rows = K
  BY DEF groupedBy
<1>3. \A k \in K : rows[k] = figures({i \in S : f[i] = k})
  BY DEF groupedBy
<1> HIDE DEF f, K, rows
<1>4. grandTotal(rows) = [salesC |-> Total(NetOf(S)), transactions |-> Cardinality(S)]
  BY <1>1, <1>2, <1>3, Regrouped
<1> QED BY <1>4 DEF f, rows

(* One range of one tenant has one net figure: the overview, the heatmap, the  *)
(* trend at any granularity, the hours, the weekdays, the order types and the  *)
(* branches add up to it, for every table, owner and range (the SQL of the     *)
(* sales reports and the merges of the services).                             *)
THEOREM EveryCutAddsUp == Spec => []ReportsAgree
<1>1. ASSUME Table, NEW q \in Queries
      PROVE  LET o == overview(q).current
                 whole == [salesC |-> netSalesC(o), transactions |-> o.transactions]
             IN /\ grandTotal(heatmap(q)) = whole
                /\ \A g \in {"day", "week", "month"} : grandTotal(trend(q, g)) = whole
                /\ grandTotal(patterns(q).hourOfDay) = whole
                /\ grandTotal(patterns(q).dayOfWeek) = whole
                /\ grandTotal(breakdowns(q).byOrderType) = whole
                /\ grandTotal(breakdowns(q).byBranch) = whole
  <2> DEFINE S == SalesOf(q, "completed")
             o == overview(q).current
             W == [salesC |-> Total(NetOf(S)), transactions |-> Cardinality(S)]
  <2>1. q \in Asks /\ S \in SUBSET DOMAIN sales /\ IsFiniteSet(S)
        /\ completedInWindow(resolve(q)) = S
    BY <1>1, QueriesAccepted, SalesReached DEF Asks, completedInWindow
  <2>2. [salesC |-> netSalesC(o), transactions |-> o.transactions] = W
    <3>1. netSalesC(totalsOf(resolve(q))) = Total(NetOf(S))
          /\ totalsOf(resolve(q)).transactions = Cardinality(S)
      <4> HIDE DEF S
      <4> QED BY <1>1, <2>1, OverviewIsNet
    <3>2. o = totalsOf(resolve(q))
      BY DEF overview
    <3> QED BY <3>1, <3>2
  <2>3. \A i \in S : dayBucketExpr(i) \in q.from .. q.to
    BY DEF SalesOf
  <2> HIDE DEF S, o
  <2>4. grandTotal(heatmap(q)) = W
    <3> DEFINE K == q.from .. q.to
               key == [i \in S |-> dayBucketExpr(i)]
               rows == heatmap(q)
    <3>1. IsFiniteSet(K)
      BY <2>1, FS_Interval DEF Asks
    <3>2. DOMAIN rows = K /\ \A k \in K : rows[k] = figures({i \in S : dayBucketExpr(i) = k})
      BY <2>1, SeriesIsItsDays DEF heatmap
    <3>3. key \in [S -> K] /\ \A k \in K : {i \in S : dayBucketExpr(i) = k} = {i \in S : key[i] = k}
      BY <2>3
    <3> HIDE DEF K, key, rows
    <3> QED BY <1>1, <2>1, <3>1, <3>2, <3>3, Regrouped DEF rows
  <2>5. ASSUME NEW g \in {"day", "week", "month"} PROVE grandTotal(trend(q, g)) = W
    <3> DEFINE key == [i \in S |-> bucketExpr(i, g)]
               K == {key[i] : i \in S}
               rows == trend(q, g)
    <3>1. IsFiniteSet(K)
      BY <2>1, ImageFinite
    <3>2. DOMAIN rows = K
          /\ \A k \in K : rows[k] = figuresAndProfit({i \in S : bucketExpr(i, g) = k})
      BY <2>1 DEF trend
    <3>3. key \in [S -> K] /\ \A k \in K : {i \in S : bucketExpr(i, g) = k} = {i \in S : key[i] = k}
      OBVIOUS
    <3> HIDE DEF K, key, rows
    <3> QED BY <1>1, <2>1, <3>1, <3>2, <3>3, Regrouped DEF rows
  <2>6. grandTotal(patterns(q).hourOfDay) = W
    <3> DEFINE last == 23
               K == 0 .. last
               key == [i \in S |-> hourOfDay(sales[i].createdAt)]
               rows == patterns(q).hourOfDay
    <3>1. IsFiniteSet(K)
      <4>1. 0 \in Int /\ last \in Int
        OBVIOUS
      <4> HIDE DEF last
      <4> QED BY <4>1, FS_Interval
    <3>2. DOMAIN rows = K
          /\ \A k \in K : rows[k] = figures({i \in S : hourOfDay(sales[i].createdAt) = k})
      BY <2>1 DEF patterns
    <3>3. key \in [S -> K]
          /\ \A k \in K : {i \in S : hourOfDay(sales[i].createdAt) = k} = {i \in S : key[i] = k}
      BY <1>1, <2>1, Buckets
    <3> HIDE DEF K, key, rows
    <3> QED BY <1>1, <2>1, <3>1, <3>2, <3>3, Regrouped DEF rows
  <2>7. grandTotal(patterns(q).dayOfWeek) = W
    <3> DEFINE last == 6
               K == 0 .. last
               key == [i \in S |-> dayOfWeek(dayBucketExpr(i))]
               rows == patterns(q).dayOfWeek
    <3>1. IsFiniteSet(K)
      <4>1. 0 \in Int /\ last \in Int
        OBVIOUS
      <4> HIDE DEF last
      <4> QED BY <4>1, FS_Interval
    <3>2. DOMAIN rows = K
          /\ \A k \in K : rows[k] = figures({i \in S : dayOfWeek(dayBucketExpr(i)) = k})
      BY <2>1 DEF patterns
    <3>3. key \in [S -> K]
          /\ \A k \in K : {i \in S : dayOfWeek(dayBucketExpr(i)) = k} = {i \in S : key[i] = k}
      BY <1>1, <2>1, Buckets
    <3> HIDE DEF K, key, rows
    <3> QED BY <1>1, <2>1, <3>1, <3>2, <3>3, Regrouped DEF rows
  <2>8. grandTotal(breakdowns(q).byOrderType) = W /\ grandTotal(breakdowns(q).byBranch) = W
    <3> DEFINE types == [i \in S |-> sales[i].orderType]
               places == [i \in S |-> sales[i].branchId]
    <3>1. /\ breakdowns(q).byOrderType = groupedBy(S, types)
          /\ breakdowns(q).byBranch = groupedBy(S, places)
      BY <2>1 DEF breakdowns
    <3>2. /\ types = [i \in S |-> types[i]] /\ places = [i \in S |-> places[i]]
          /\ DOMAIN types = S /\ DOMAIN places = S
      OBVIOUS
    <3> HIDE DEF types, places
    <3>3. grandTotal(groupedBy(S, [i \in S |-> types[i]])) = W
      BY <1>1, <2>1, <3>2, GroupedFigures
    <3>4. grandTotal(groupedBy(S, [i \in S |-> places[i]])) = W
      BY <1>1, <2>1, <3>2, GroupedFigures
    <3> QED BY <3>1, <3>2, <3>3, <3>4
  <2> HIDE DEF W
  <2> QED BY <2>2, <2>4, <2>5, <2>6, <2>7, <2>8 DEF o
<1>2. Table => ReportsAgree
  BY <1>1 DEF ReportsAgree
<1> QED BY <1>2, TableIsWritten, PTL

(* A range is its days: the overviews of its days, each asked for on its own,  *)
(* add up to its overview, a heatmap cell is that day's overview, and the      *)
(* previous period is the overview of the dates just before, whatever hour     *)
(* each business begins its day at (resolve, previousPeriod, dayBucketExpr).  *)
THEOREM RangeIsTheSumOfItsDays == Spec => []DaysAddUp
<1>1. ASSUME Table, NEW q \in Queries
      PROVE  LET days == [d \in q.from .. q.to |-> overview(onDay(q, d)).current]
                 cells == heatmap(q)
                 o == overview(q)
             IN /\ netSalesC(o.current) = SumOf(DOMAIN days, LAMBDA d : netSalesC(days[d]))
                /\ o.current.voidCount = SumOf(DOMAIN days, LAMBDA d : days[d].voidCount)
                /\ \A d \in DOMAIN days : cells[d].salesC = netSalesC(days[d])
                /\ o.previous = overview(justBefore(q)).current
  <2> DEFINE S(st) == SalesOf(q, st)
             On(st, d) == {i \in S(st) : dayBucketExpr(i) = d}
             K == q.from .. q.to
             days == [d \in K |-> overview(onDay(q, d)).current]
             o == overview(q)
             net == [d \in K |-> netSalesC(days[d])]
             voids == [d \in K |-> days[d].voidCount]
  <2>1. /\ q \in Asks /\ justBefore(q) \in Asks /\ \A d \in K : onDay(q, d) \in Asks
        /\ \A st : S(st) \in SUBSET DOMAIN sales /\ IsFiniteSet(S(st))
        /\ \A st : \A d \in K : SalesOf(onDay(q, d), st) = On(st, d)
        /\ \A st : withStatus(resolve(q), st) = S(st)
        /\ \A st : withStatus(Before(resolve(q)), st) = SalesOf(justBefore(q), st)
    BY <1>1, QueriesAccepted, SalesReached DEF Asks
  <2>2. /\ \A st : \A d \in K : withStatus(resolve(onDay(q, d)), st) = On(st, d)
        /\ \A st : withStatus(resolve(justBefore(q)), st) = SalesOf(justBefore(q), st)
    BY <1>1, <2>1, SalesReached
  <2>3. IsFiniteSet(K) /\ \A st : \A i \in S(st) : dayBucketExpr(i) \in K
    BY <2>1, FS_Interval DEF Asks, SalesOf
  <2>4. \A st : \A d \in K : On(st, d) \in SUBSET DOMAIN sales
    BY <2>1
  <2>5. /\ o.current = totalsOf(resolve(q)) /\ o.previous = totalsOf(Before(resolve(q)))
        /\ \A d \in K : days[d] = totalsOf(resolve(onDay(q, d)))
        /\ overview(justBefore(q)).current = totalsOf(resolve(justBefore(q)))
        /\ DOMAIN days = K
    BY DEF overview
  <2>6. \A d \in K : net[d] = netSalesC(days[d]) /\ voids[d] = days[d].voidCount
    OBVIOUS
  <2>7. /\ SumOf(DOMAIN days, LAMBDA d : netSalesC(days[d])) = Total(net)
        /\ SumOf(DOMAIN days, LAMBDA d : days[d].voidCount) = Total(voids)
    BY <2>5, Zenon DEF SumOf
  <2> HIDE DEF S, K, o, days, net, voids
  <2>8. /\ netSalesC(o.current) = Total(NetOf(S("completed")))
        /\ o.current.voidCount = Cardinality(S("voided"))
    BY <1>1, <2>1, <2>5, OverviewIsNet DEF completedInWindow
  <2>9. \A d \in K : /\ net[d] = Total(NetOf(On("completed", d)))
                    /\ voids[d] = Cardinality(On("voided", d))
    <3> HIDE DEF On
    <3> QED BY <1>1, <2>2, <2>5, <2>6, OverviewIsNet DEF completedInWindow
  <2>10. net \in [K -> Int] /\ voids \in [K -> Int]
    <3> HIDE DEF On
    <3>1. \A d \in K : Total(NetOf(On("completed", d))) \in Int /\ Cardinality(On("voided", d)) \in Int
      BY <1>1, <2>4, NetTyped
    <3>2. \A d \in K : net[d] \in Int /\ voids[d] \in Int
      BY <2>9, <3>1
    <3> QED BY <3>2 DEF net, voids
  <2>11. Total(net) = Total(NetOf(S("completed")))
    <3> DEFINE key == [i \in S("completed") |-> dayBucketExpr(i)]
               f == NetOf(S("completed"))
    <3>1. key \in [S("completed") -> K] /\ f \in [S("completed") -> Int]
      BY <1>1, <2>1, <2>3, NetTyped
    <3>2. \A d \in K : net[d] = Total([x \in {y \in S("completed") : key[y] = d} |-> f[x]])
      <4>1. \A d \in K : {y \in S("completed") : key[y] = d} = On("completed", d)
        OBVIOUS
      <4>2. \A d \in K : NetOf(On("completed", d)) = [x \in On("completed", d) |-> f[x]]
        BY DEF NetOf
      <4> QED BY <2>9, <4>1, <4>2
    <3> HIDE DEF key, f
    <3>3. Total(net) = Total(f)
      BY <2>1, <2>3, <2>10, <3>1, <3>2, SumByKey
    <3> QED BY <3>3 DEF f
  <2>12. Total(voids) = Cardinality(S("voided"))
    <3> DEFINE key == [i \in S("voided") |-> dayBucketExpr(i)]
    <3>1. key \in [S("voided") -> K]
      BY <2>3
    <3>2. \A d \in K : voids[d] = Cardinality({y \in S("voided") : key[y] = d})
      <4>1. \A d \in K : {y \in S("voided") : key[y] = d} = On("voided", d)
        OBVIOUS
      <4> QED BY <2>9, <4>1
    <3> HIDE DEF key
    <3> QED BY <2>1, <2>3, <2>10, <3>1, <3>2, CountByKey
  <2>13. \A d \in K : heatmap(q)[d].salesC = netSalesC(days[d])
    <3>1. \A d \in K : heatmap(q)[d] = figures(On("completed", d))
      BY <2>1, SeriesIsItsDays DEF heatmap, completedInWindow, K
    <3> HIDE DEF On
    <3> QED BY <2>6, <2>9, <3>1, FiguresAre
  <2>14. o.previous = overview(justBefore(q)).current
    <3>1. \A st : withStatus(Before(resolve(q)), st) = withStatus(resolve(justBefore(q)), st)
      BY <2>1, <2>2
    <3>2. totalsOf(Before(resolve(q))) = totalsOf(resolve(justBefore(q)))
      BY <3>1, Zenon DEF totalsOf, completedInWindow
    <3> QED BY <2>5, <3>2
  <2>15. DOMAIN days = K
    BY <2>5
  <2> QED BY <2>7, <2>8, <2>11, <2>12, <2>13, <2>14, <2>15, Zenon DEF days, o, K
<1>2. Table => DaysAddUp
  BY <1>1, Zenon DEF DaysAddUp
<1> QED BY <1>2, TableIsWritten, PTL

LEMMA NetOfParts ==
  ASSUME Table, NEW S \in SUBSET DOMAIN sales, NEW T \in SUBSET DOMAIN sales, S \cap T = {}
  PROVE  Total(NetOf(S \cup T)) = Total(NetOf(S)) + Total(NetOf(T))
<1> DEFINE U == S \cup T
           f == NetOf(U)
<1>1. U \in SUBSET DOMAIN sales /\ S \in SUBSET U /\ T \in SUBSET U
  OBVIOUS
<1>2. Restrict(f, S) = NetOf(S) /\ Restrict(f, T) = NetOf(T) /\ Restrict(f, S \cup T) = NetOf(U)
  BY DEF Restrict, NetOf
<1>3. IsFiniteSet(U) /\ f \in [U -> Int]
  <2> HIDE DEF U
  <2> QED BY <1>1, NetTyped
<1> HIDE DEF U, f
<1>4. Total(Restrict(f, S \cup T)) = Total(Restrict(f, S)) + Total(Restrict(f, T))
  BY <1>1, <1>3, SumDisjoint
<1> QED BY <1>2, <1>4 DEF U

(* A void or a refund takes a sale out of the net and puts its value in the    *)
(* leaks report: net sales, voids and refunds are what was posted (voidSale,   *)
(* refundSale, the status filters of the queries, leaks).                     *)
THEOREM NothingPostedIsLost == Spec => []StatusesOnlyInLeaks
<1>1. ASSUME Table, NEW q \in Queries
      PROVE  LET o == overview(q).current
                 l == leaks(q)
                 posted == {i \in DOMAIN sales : \E b \in resolve(q) : inWindow(i, b)}
             IN /\ netSalesC(o) + l.voids.valueC + l.refunds.valueC = SumOf(posted, NET_SALES)
                /\ l.voids.count = o.voidCount /\ l.refunds.count = o.refundCount
                /\ l.voids.count = SumOf(DOMAIN l.voids.reasons, LAMBDA r : l.voids.reasons[r].transactions)
  <2> DEFINE S(st) == withStatus(resolve(q), st)
             o == overview(q).current
             l == leaks(q)
             posted == {i \in DOMAIN sales : \E b \in resolve(q) : inWindow(i, b)}
  <2>1. \A st : S(st) \in SUBSET DOMAIN sales
    BY DEF withStatus
  <2>2. posted = (S("completed") \cup S("voided")) \cup S("refunded")
    <3>1. \A i \in DOMAIN sales : sales[i].status \in Statuses
      BY <1>1, SalesFigured DEF Figured
    <3> QED BY <3>1 DEF withStatus, Statuses
  <2>3. /\ S("completed") \cap S("voided") = {}
        /\ (S("completed") \cup S("voided")) \cap S("refunded") = {}
    BY DEF withStatus
  <2>4. o = totalsOf(resolve(q))
    BY DEF overview
  <2>5. /\ l.voids = statusBucket(S("voided"))
        /\ l.refunds = statusBucket(S("refunded"))
    BY Zenon DEF leaks
  <2> HIDE DEF S, o, l, posted
  <2>6. \A st : /\ statusBucket(S(st)).valueC = Total(NetOf(S(st)))
               /\ statusBucket(S(st)).count = Cardinality(S(st))
               /\ statusBucket(S(st)).reasons = groupedBy(S(st), [i \in S(st) |-> sales[i].statusReason])
    BY Zenon DEF statusBucket, SumOf, NetOf
  <2>7. Total(NetOf(posted)) = Total(NetOf(S("completed"))) + Total(NetOf(S("voided")))
                                 + Total(NetOf(S("refunded")))
    <3> DEFINE CV == S("completed") \cup S("voided")
    <3>1. CV \in SUBSET DOMAIN sales
      BY <2>1
    <3>2. Total(NetOf(CV)) = Total(NetOf(S("completed"))) + Total(NetOf(S("voided")))
      BY <1>1, <2>1, <2>3, NetOfParts
    <3>3. posted = CV \cup S("refunded") /\ CV \cap S("refunded") = {}
      BY <2>2, <2>3
    <3> HIDE DEF CV
    <3>4. Total(NetOf(CV \cup S("refunded"))) = Total(NetOf(CV)) + Total(NetOf(S("refunded")))
      BY <1>1, <2>1, <3>1, <3>3, NetOfParts
    <3> QED BY <3>2, <3>3, <3>4
  <2>8. SumOf(posted, NET_SALES) = Total(NetOf(posted))
    BY DEF SumOf, NetOf
  <2>9. /\ netSalesC(o) = Total(NetOf(S("completed")))
        /\ o.voidCount = Cardinality(S("voided")) /\ o.refundCount = Cardinality(S("refunded"))
    BY <1>1, <2>4, OverviewIsNet DEF completedInWindow, S
  <2>10. SumOf(DOMAIN l.voids.reasons, LAMBDA r : l.voids.reasons[r].transactions)
           = Cardinality(S("voided"))
    <3> DEFINE V == S("voided")
               key == [i \in V |-> sales[i].statusReason]
               rows == groupedBy(V, key)
    <3>1. DOMAIN key = V /\ key = [i \in V |-> key[i]] /\ V \in SUBSET DOMAIN sales
      BY <2>1
    <3> DEFINE R == l.voids.reasons
    <3>2. R = rows
      BY <2>5, <2>6
    <3> HIDE DEF key, V
    <3>3. grandTotal(groupedBy(V, [i \in V |-> key[i]]))
            = [salesC |-> Total(NetOf(V)), transactions |-> Cardinality(V)]
      BY <1>1, <3>1, GroupedFigures
    <3> HIDE DEF R
    <3>4. grandTotal(R).transactions = SumOf(DOMAIN R, LAMBDA r : R[r].transactions)
      BY Zenon DEF grandTotal, SumOf
    <3>5. grandTotal(R).transactions = Cardinality(V)
      BY <3>1, <3>2, <3>3
    <3> QED BY <3>4, <3>5, Zenon DEF V, R
  <2>11. netSalesC(o) + l.voids.valueC + l.refunds.valueC = SumOf(posted, NET_SALES)
    BY <2>5, <2>6, <2>7, <2>8, <2>9
  <2>12. l.voids.count = o.voidCount /\ l.refunds.count = o.refundCount
    BY <2>5, <2>6, <2>9
  <2>13. l.voids.count = SumOf(DOMAIN l.voids.reasons, LAMBDA r : l.voids.reasons[r].transactions)
    BY <2>5, <2>6, <2>10, Zenon
  <2> QED BY <2>11, <2>12, <2>13, Zenon DEF o, l, posted
<1>2. Table => StatusesOnlyInLeaks
  BY <1>1, Zenon DEF StatusesOnlyInLeaks
<1> QED BY <1>2, TableIsWritten, PTL

(* The tax summary accounts for every centavo paid: its three parts add up to  *)
(* the payments, which are the net sales and the service charge (tax,          *)
(* paymentBreakdown, totalsOf, leaks: four queries, one truth).               *)
THEOREM TaxAccountsForPayments == Spec => []TaxMatchesPayments
<1>1. ASSUME Table, NEW q \in Queries
      PROVE  LET t == tax(q)
                 o == overview(q).current
                 paid == grandTotal(breakdowns(q).byPaymentMethod).salesC
             IN /\ t.vatableSalesC + t.vatC + t.vatExemptSalesC = paid
                /\ paid = netSalesC(o) + o.serviceChargeC
                /\ t.serviceChargeC = o.serviceChargeC
                /\ t.scPwdDiscountC = leaks(q).scPwdDiscountC
  <2> DEFINE S == completedInWindow(resolve(q))
             o == overview(q).current
             t == tax(q)
             paid == grandTotal(breakdowns(q).byPaymentMethod).salesC
             vatable == [i \in S |-> sales[i].total - sales[i].vatExemptSales - sales[i].tax]
             vat == [i \in S |-> sales[i].tax]
             exempt == [i \in S |-> sales[i].vatExemptSales]
             service == [i \in S |-> sales[i].serviceCharge]
             amount == [i \in S |-> sales[i].amount]
             taxed == [i \in S |-> sales[i].total - sales[i].vatExemptSales]
  <2>1. S \in SUBSET DOMAIN sales
    BY DEF completedInWindow, withStatus
  <2>2. /\ t.vatableSalesC = Total(vatable) /\ t.vatC = Total(vat)
        /\ t.vatExemptSalesC = Total(exempt) /\ t.serviceChargeC = Total(service)
    BY Zenon DEF tax, SumOf
  <2>3. o.serviceChargeC = Total(service)
    BY Zenon DEF overview, totalsOf, SumOf
  <2>4. t.scPwdDiscountC = leaks(q).scPwdDiscountC
    BY Zenon DEF tax, leaks, discountTotals
  <2>5. breakdowns(q).byPaymentMethod = paymentBreakdown(S)
    BY DEF breakdowns
  <2>6. o = totalsOf(resolve(q))
    BY DEF overview
  <2> HIDE DEF o, t
  <2>7. netSalesC(o) = Total(NetOf(S))
    BY <1>1, <2>6, OverviewIsNet
  <2> HIDE DEF S
  <2>8. IsFiniteSet(S) /\ \A i \in S : Figured(i)
    BY <1>1, <2>1, SalesFigured, FS_Subset
  <2>9. /\ vatable \in [S -> Int] /\ vat \in [S -> Int] /\ exempt \in [S -> Int]
        /\ service \in [S -> Int] /\ amount \in [S -> Int] /\ taxed \in [S -> Int]
        /\ NetOf(S) \in [S -> Int]
    BY <2>8 DEF Figured, NetOf
  <2>10. /\ AddsUp(S, vatable, vat, taxed) /\ AddsUp(S, taxed, exempt, amount)
         /\ AddsUp(S, NetOf(S), service, amount)
    BY <2>8 DEF AddsUp, Figured, NetOf
  <2>11. Total(amount) = paid
    <3> DEFINE key == [i \in S |-> sales[i].method]
               K == {key[i] : i \in S}
               rows == paymentBreakdown(S)
               g == [k \in K |-> rows[k].salesC]
    <3>1. IsFiniteSet(K) /\ key \in [S -> K]
      BY <2>8, ImageFinite
    <3>2. DOMAIN rows = K
          /\ \A k \in K : rows[k].salesC = Total([i \in {j \in S : key[j] = k} |-> amount[i]])
      <4>1. \A k \in K : {i \in S : sales[i].method = k} = {j \in S : key[j] = k}
        OBVIOUS
      <4>2. DOMAIN rows = K /\ \A k \in K :
              rows[k].salesC = Total([i \in {j \in S : sales[j].method = k} |-> sales[i].amount])
        BY Zenon DEF paymentBreakdown, SumOf
      <4>3. \A k \in K : [i \in {j \in S : sales[j].method = k} |-> sales[i].amount]
                           = [i \in {j \in S : key[j] = k} |-> amount[i]]
        BY <4>1
      <4> QED BY <4>2, <4>3
    <3>3. \A k \in K : Total([i \in {j \in S : key[j] = k} |-> amount[i]]) \in Int
      <4> DEFINE At(k) == {j \in S : key[j] = k}
      <4>1. \A k \in K : IsFiniteSet(At(k)) /\ [i \in At(k) |-> amount[i]] \in [At(k) -> Int]
        BY <2>8, <2>9, FS_Subset
      <4> HIDE DEF At
      <4>2. \A k \in K : Total([i \in At(k) |-> amount[i]]) \in Int
        BY <4>1, SumType
      <4> QED BY <4>2 DEF At
    <3>4. g \in [K -> Int]
          /\ \A k \in K : g[k] = Total([i \in {j \in S : key[j] = k} |-> amount[i]])
      <4> HIDE DEF key, amount, rows, K
      <4> QED BY <3>2, <3>3
    <3>5. paid = Total(g)
      <4> HIDE DEF g, K
      <4>1. grandTotal(rows).salesC = Total(g)
        <5> HIDE DEF rows
        <5> QED BY <3>2, Zenon DEF grandTotal, SumOf, g
      <4> QED BY <2>5, <4>1
    <3> HIDE DEF key, amount, rows, K, g, paid
    <3> QED BY <2>8, <2>9, <3>1, <3>4, <3>5, SumByKey
  <2> HIDE DEF vatable, vat, exempt, service, amount, taxed, paid
  <2>12. /\ Total(vatable) \in Int /\ Total(vat) \in Int /\ Total(exempt) \in Int
         /\ Total(taxed) = Total(vatable) + Total(vat)
         /\ Total(amount) = Total(taxed) + Total(exempt)
         /\ Total(amount) = Total(NetOf(S)) + Total(service)
    BY <2>8, <2>9, <2>10, SumType, SumPlus
  <2>13. t.vatableSalesC + t.vatC + t.vatExemptSalesC = paid
    BY <2>2, <2>11, <2>12
  <2>14. paid = netSalesC(o) + o.serviceChargeC /\ t.serviceChargeC = o.serviceChargeC
    BY <2>2, <2>3, <2>7, <2>11, <2>12
  <2> QED BY <2>4, <2>13, <2>14 DEF o, t, paid
<1>2. Table => TaxMatchesPayments
  BY <1>1, Zenon DEF TaxMatchesPayments
<1> QED BY <1>2, TableIsWritten, PTL

----------------------------------------------------------------------------
(* Lines                                                                     *)

(* A sale and the cart it was made from, by the columns of the engine.        *)
FromCart(i, d, s) ==
  /\ CartTypes(d) /\ RateTypes(s)
  /\ \A k \in Rows(d) : d.lines[k].productId = Null => d.lines[k].cost = Null
  /\ sales[i].draft = d
  /\ sales[i].draftTotals.lines = [k \in Rows(d) |-> Row(d, s, k)]
  /\ sales[i].draftTotals.promoDiscountC = Total(PromoOff(d, s)) + OrderOff(d, s)
  /\ sales[i].subtotal = Total(Gross(d, s))
  /\ sales[i].discount = Total(PromoOff(d, s)) + OrderOff(d, s)
  /\ sales[i].scPwdDiscount = Total(ScPwdOff(d, s))
  /\ OrderOff(d, s) \in Int
  /\ sales[i].discountId = namedId(d.orderDiscount)
  /\ sales[i].items = [k \in Rows(d) |-> saleItem(d.lines[k], Row(d, s, k))]

LEMMA SalesFromCarts == Table => \A i \in DOMAIN sales : \E d, s : FromCart(i, d, s)
<1> SUFFICES ASSUME Table, NEW i \in DOMAIN sales PROVE \E d, s : FromCart(i, d, s)
  OBVIOUS
<1>1. PICK br \in Branches : \E d \in DraftsAt[br] : Written(sales[i], br, d, TotalsOf(br, d))
  BY DEF Table, Posted
<1>2. PICK d \in DraftsAt[br] : Written(sales[i], br, d, TotalsOf(br, d))
  BY <1>1
<1> DEFINE s == RatesOf[BusinessOf[br]]
           t == TotalsOf(br, d)
<1>3. /\ CartTypes(d) /\ RateTypes(s)
      /\ \A k \in Rows(d) : d.lines[k].productId = Null => d.lines[k].cost = Null
  BY DraftsAssumption DEF Rows
<1>4. /\ t.lines = [k \in Rows(d) |-> Row(d, s, k)]
      /\ t.subtotalC = Total(Gross(d, s)) /\ t.scPwdDiscountC = Total(ScPwdOff(d, s))
      /\ t.promoDiscountC = Total(PromoOff(d, s)) + OrderOff(d, s) /\ OrderOff(d, s) \in Int
  <2>1. t = computeTotals(d, s)
    BY DEF TotalsOf
  <2> HIDE DEF t, s
  <2> QED BY <1>3, <2>1, TotalsByColumn, Zenon
<1> HIDE DEF t, s
<1>5. sales[i].items = [k \in Rows(d) |-> saleItem(d.lines[k], Row(d, s, k))]
  <2>1. sales[i].items = [k \in Rows(d) |-> saleItem(d.lines[k], t.lines[k])]
    BY <1>2 DEF Written, Rows, t
  <2> QED BY <1>4, <2>1
<1>6. FromCart(i, d, s)
  BY <1>2, <1>3, <1>4, <1>5 DEF Written, FromCart, t
<1> QED BY <1>6

Priced(milli, price, extras) == halfUp(milli * (price + Sum(extras, LAMBDA m : m)), 1000)

(* What a line of the table says of the engine's line.                        *)
LEMMA ItemsFigured ==
  ASSUME NEW i, NEW d, NEW s, FromCart(i, d, s), NEW k \in Rows(d)
  PROVE  LET x == <<i, k>>
             row == Row(d, s, k)
         IN /\ LINE_NET_C(x) = row.netC /\ row.netC \in Int
            /\ item(x).discount = row.grossC - row.netC /\ row.grossC \in Int
            /\ item(x).discount = ScPwdOff(d, s)[k] + PromoOff(d, s)[k]
            /\ ScPwdOff(d, s)[k] \in Int /\ PromoOff(d, s)[k] \in Int
            /\ item(x).milli \in Int
            /\ item(x).costSnapshot # Null => LINE_COST_C(x) \in Int
            /\ item(x).productId = Null => item(x).costSnapshot = Null
            /\ item(x).discountId = IF row.applied = "promo" THEN namedId(d.lines[k].discount) ELSE Null
<1> DEFINE x == <<i, k>>
           row == Row(d, s, k)
           l == d.lines[k]
           it == item(x)
<1>1. it = saleItem(l, row)
  BY DEF FromCart, item
<1>2. LineTypes(l) /\ (l.productId = Null => l.cost = Null)
  BY DEF FromCart, CartTypes, Rows
<1>3. RowTypes(d, s, k) /\ ColumnTypes(d, s)
  BY RowsTyped, ColumnsTyped DEF FromCart
<1>4. row.grossC = Priced(l.milli, l.unitPriceC, l.modifiers)
  BY Zenon DEF Row, lineTotals, mulQtyPriceC, lineUnitWithModsC, Priced
<1>5. /\ it.milli = l.milli /\ it.unitPrice = l.unitPriceC /\ it.modifiers = l.modifiers
      /\ it.costSnapshot = l.cost /\ it.discount = row.grossC - row.netC
      /\ it.productId = l.productId
      /\ it.discountId = IF row.applied = "promo" THEN namedId(l.discount) ELSE Null
  <2> HIDE DEF it, l, row
  <2> QED BY <1>1 DEF saleItem
<1>6. LINE_NET_C(x) = Priced(it.milli, it.unitPrice, it.modifiers) - it.discount
  BY Zenon DEF LINE_NET_C, Priced
<1>7. LINE_COST_C(x) = halfUp(it.milli * it.costSnapshot, 1000)
  BY DEF LINE_COST_C
<1>8. row.netC \in Int /\ row.grossC \in Int
      /\ ScPwdOff(d, s)[k] \in Int /\ PromoOff(d, s)[k] \in Int
      /\ row.grossC = row.netC + ScPwdOff(d, s)[k] + PromoOff(d, s)[k]
  BY <1>3 DEF RowTypes, ColumnTypes
<1>9. it.costSnapshot # Null => LINE_COST_C(x) \in Int
  <2> SUFFICES ASSUME it.costSnapshot # Null PROVE LINE_COST_C(x) \in Int
    OBVIOUS
  <2> HIDE DEF it, l
  <2>1. it.milli \in Nat /\ it.costSnapshot \in Nat
    BY <1>2, <1>5 DEF LineTypes
  <2>2. it.milli * it.costSnapshot \in Int /\ 1000 \in Positive
    BY <2>1 DEF Positive
  <2> QED BY <1>7, <2>2, HalfUpNear DEF Near
<1> HIDE DEF it, l, row, x
<1>10. LINE_NET_C(x) = row.grossC - it.discount
  BY <1>4, <1>5, <1>6
<1>11. /\ LINE_NET_C(x) = row.netC /\ it.discount = ScPwdOff(d, s)[k] + PromoOff(d, s)[k]
  BY <1>5, <1>8, <1>10
<1>12. it.milli \in Int /\ (it.productId = Null => it.costSnapshot = Null)
  BY <1>2, <1>5 DEF LineTypes
<1> QED BY <1>5, <1>8, <1>9, <1>11, <1>12 DEF it, l, row, x

Nets(L) == [x \in L |-> LINE_NET_C(x)]
Margins(L) == [x \in L |-> LINE_NET_C(x) - LINE_COST_C(x)]

LineFigured(x) ==
  /\ x[1] \in DOMAIN sales /\ x[2] \in DOMAIN sales[x[1]].items /\ x = <<x[1], x[2]>>
  /\ LINE_NET_C(x) \in Int /\ item(x).discount \in Int /\ item(x).milli \in Int
  /\ item(x).costSnapshot # Null => LINE_COST_C(x) \in Int
  /\ item(x).productId = Null => item(x).costSnapshot = Null

LEMMA LinesFigured ==
  ASSUME Table, NEW S \in SUBSET DOMAIN sales
  PROVE  /\ IsFiniteSet(linesOf(S))
         /\ \A x \in linesOf(S) : LineFigured(x) /\ x[1] \in S
         /\ linesOf(S) \subseteq linesOf(DOMAIN sales)
<1> DEFINE Of(i) == {i} \X DOMAIN sales[i].items
           parts == [i \in S |-> Of(i)]
<1>1. IsFiniteSet(S)
  BY NetTyped
<1>2. ASSUME NEW i \in S PROVE IsFiniteSet(DOMAIN sales[i].items)
  <2>1. PICK d, s : FromCart(i, d, s)
    BY SalesFromCarts
  <2>2. DOMAIN sales[i].items = Rows(d)
    BY <2>1 DEF FromCart
  <2> QED BY <2>1, <2>2 DEF FromCart, CartTypes, Rows
<1>3. \A i \in S : IsFiniteSet(Of(i))
  BY <1>2, FS_Singleton, FS_Product
<1>4. linesOf(S) = UNION {parts[i] : i \in S}
  BY DEF linesOf
<1>5. IsFiniteSet({parts[i] : i \in S})
  <2>1. DOMAIN parts = S
    OBVIOUS
  <2> HIDE DEF parts
  <2> QED BY <1>1, <2>1, ImageFinite
<1>6. IsFiniteSet(linesOf(S))
  <2>1. \A T \in {parts[i] : i \in S} : IsFiniteSet(T)
    BY <1>3
  <2> HIDE DEF parts
  <2> QED BY <1>4, <1>5, <2>1, FS_UNION
<1>7. ASSUME NEW x \in linesOf(S) PROVE LineFigured(x) /\ x[1] \in S
  <2>1. PICK i \in S : x \in Of(i)
    BY DEF linesOf
  <2>2. PICK k \in DOMAIN sales[i].items : x = <<i, k>>
    BY <2>1
  <2>3. x[1] = i /\ x[2] = k
    BY <2>2
  <2>4. PICK d, s : FromCart(i, d, s)
    BY SalesFromCarts
  <2>5. k \in Rows(d)
    BY <2>2, <2>4 DEF FromCart
  <2> DEFINE row == Row(d, s, k)
  <2> HIDE DEF row
  <2>6. /\ LINE_NET_C(x) = row.netC /\ row.netC \in Int
        /\ item(x).discount = row.grossC - row.netC /\ row.grossC \in Int
        /\ item(x).milli \in Int
        /\ item(x).costSnapshot # Null => LINE_COST_C(x) \in Int
        /\ item(x).productId = Null => item(x).costSnapshot = Null
    BY <2>2, <2>4, <2>5, ItemsFigured DEF row
  <2> QED BY <2>2, <2>3, <2>6 DEF LineFigured
<1>8. linesOf(S) \subseteq linesOf(DOMAIN sales)
  BY DEF linesOf
<1> QED BY <1>6, <1>7, <1>8

(* A set of lines, its revenue and its profit.                                *)
LEMMA LinesAddUp ==
  ASSUME Table, NEW L \in SUBSET linesOf(DOMAIN sales)
  PROVE  /\ IsFiniteSet(L) /\ Nets(L) \in [L -> Int]
         /\ revenueOf(L) = Total(Nets(L)) /\ revenueOf(L) \in Int
         /\ costed(L) \in SUBSET L /\ Margins(costed(L)) \in [costed(L) -> Int]
         /\ grossProfitC(L) = IF costed(L) = {} THEN Null ELSE Total(Margins(costed(L)))
         /\ Total(Margins(costed(L))) \in Int
<1>1. IsFiniteSet(L) /\ \A x \in L : LineFigured(x)
  <2>1. IsFiniteSet(linesOf(DOMAIN sales)) /\ \A x \in linesOf(DOMAIN sales) : LineFigured(x)
    BY LinesFigured
  <2> QED BY <2>1, FS_Subset
<1>2. revenueOf(L) = Total(Nets(L))
  BY Zenon DEF revenueOf, SumOf, Nets
<1>3. Nets(L) \in [L -> Int]
  BY <1>1 DEF Nets, LineFigured
<1> DEFINE C == costed(L)
           costs == [x \in C |-> LINE_COST_C(x)]
<1>4. C \in SUBSET L /\ \A x \in C : item(x).costSnapshot # Null
  BY DEF costed
<1>5. revenueOf(C) - SumOf(C, LINE_COST_C) = Total(Nets(C)) - Total(costs)
  BY Zenon DEF revenueOf, SumOf, Nets
<1> HIDE DEF C
<1>6. /\ IsFiniteSet(C) /\ Nets(C) \in [C -> Int] /\ costs \in [C -> Int]
      /\ Margins(C) \in [C -> Int] /\ AddsUp(C, Margins(C), costs, Nets(C))
  BY <1>1, <1>4, FS_Subset DEF LineFigured, Nets, Margins, AddsUp
<1> HIDE DEF costs
<1>7. /\ Total(Nets(C)) = Total(Margins(C)) + Total(costs)
      /\ Total(costs) \in Int /\ Total(Margins(C)) \in Int
  BY <1>6, SumPlus, SumType
<1>8. revenueOf(C) - SumOf(C, LINE_COST_C) = Total(Margins(C))
  <2>1. Total(Nets(C)) - Total(costs) = Total(Margins(C))
    BY <1>7
  <2> QED BY <1>5, <2>1
<1>9. grossProfitC(L) = IF C = {} THEN Null ELSE Total(Margins(C))
  BY <1>8, Zenon DEF grossProfitC, C
<1>10. revenueOf(L) \in Int
  BY <1>1, <1>2, <1>3, SumType
<1> QED BY <1>1, <1>2, <1>3, <1>4, <1>6, <1>7, <1>9, <1>10 DEF C

(* A table of lines with a row for every key: revenue, units and profit add up *)
(* over it.                                                                  *)
LEMMA RevenueByKey ==
  ASSUME Table, NEW L \in SUBSET linesOf(DOMAIN sales), NEW K, IsFiniteSet(K),
         NEW key \in [L -> K], NEW g, DOMAIN g = K, g = [k \in K |-> g[k]],
         \A k \in K : g[k] = revenueOf({x \in L : key[x] = k})
  PROVE  Total(g) = revenueOf(L)
<1> DEFINE At(k) == {x \in L : key[x] = k}
<1>1. \A k \in K : At(k) \in SUBSET linesOf(DOMAIN sales) /\ Nets(At(k)) = [x \in At(k) |-> Nets(L)[x]]
  BY DEF Nets
<1>2. \A k \in K : g[k] = Total([x \in At(k) |-> Nets(L)[x]]) /\ g[k] \in Int
  <2> HIDE DEF At
  <2>1. \A k \in K : revenueOf(At(k)) = Total(Nets(At(k))) /\ revenueOf(At(k)) \in Int
    BY <1>1, LinesAddUp
  <2> QED BY <1>1, <2>1 DEF At
<1>3. g \in [K -> Int]
  BY <1>2
<1>4. IsFiniteSet(L) /\ Nets(L) \in [L -> Int] /\ revenueOf(L) = Total(Nets(L))
  BY LinesAddUp
<1>5. Total(g) = Total(Nets(L))
  <2>1. \A k \in K : g[k] = Total([x \in {y \in L : key[y] = k} |-> Nets(L)[x]])
    BY <1>2
  <2> HIDE DEF At
  <2> QED BY <1>3, <1>4, <2>1, SumByKey
<1> QED BY <1>4, <1>5

LEMMA ProfitByKey ==
  ASSUME Table, NEW L \in SUBSET linesOf(DOMAIN sales), NEW K, IsFiniteSet(K),
         NEW key \in [L -> K], NEW rows, DOMAIN rows = K,
         \A k \in K : rows[k].grossProfitC = grossProfitC({x \in L : key[x] = k})
  PROVE  profitTotal(rows) = grossProfitC(L)
<1> DEFINE At(k) == {x \in L : key[x] = k}
           C == costed(L)
           At2(k) == {x \in C : key[x] = k}
           known == {k \in DOMAIN rows : rows[k].grossProfitC # Null}
           g == [k \in known |-> rows[k].grossProfitC]
           key2 == [x \in C |-> key[x]]
<1>1. \A k \in K : At(k) \in SUBSET linesOf(DOMAIN sales) /\ costed(At(k)) = At2(k)
  BY DEF costed
<1>2. /\ IsFiniteSet(L) /\ C \in SUBSET L /\ Margins(C) \in [C -> Int]
      /\ grossProfitC(L) = IF C = {} THEN Null ELSE Total(Margins(C))
  BY LinesAddUp
<1>3. ASSUME NEW k \in K
      PROVE  /\ rows[k].grossProfitC = IF At2(k) = {} THEN Null ELSE Total(Margins(At2(k)))
             /\ Total(Margins(At2(k))) \in Int
  <2> HIDE DEF At, At2
  <2>1. /\ grossProfitC(At(k)) = IF costed(At(k)) = {} THEN Null ELSE Total(Margins(costed(At(k))))
        /\ Total(Margins(costed(At(k)))) \in Int
    BY <1>1, LinesAddUp
  <2> QED BY <1>1, <2>1 DEF At
<1>4. Null \notin Int
  BY NullAssumption
<1>5. known = {k \in K : At2(k) # {}}
  BY <1>3, <1>4
<1>6. profitTotal(rows) = IF known = {} THEN Null ELSE Total(g)
  BY Zenon DEF profitTotal, SumOf
<1> HIDE DEF C
<1>7. known = {} <=> C = {}
  BY <1>2, <1>5
<1>8. Total(g) = Total(Margins(C))
  <2>1. IsFiniteSet(C) /\ IsFiniteSet(known)
    BY <1>2, <1>5, FS_Subset
  <2>2. key2 \in [C -> known]
    BY <1>2, <1>5
  <2>3. \A k \in known : Margins(At2(k)) = [x \in {y \in C : key2[y] = k} |-> Margins(C)[x]]
    BY DEF Margins
  <2>4. \A k \in known : g[k] = Total(Margins(At2(k))) /\ Total(Margins(At2(k))) \in Int
    BY <1>3, <1>5
  <2> HIDE DEF At2, key2, known
  <2>5. g \in [known -> Int]
    BY <2>4
  <2>6. \A k \in known : g[k] = Total([x \in {y \in C : key2[y] = k} |-> Margins(C)[x]])
    BY <2>3, <2>4
  <2> HIDE DEF g
  <2> QED BY <1>2, <2>1, <2>2, <2>5, <2>6, SumByKey
<1> QED BY <1>2, <1>6, <1>7, <1>8

LEMMA RevenueSplits ==
  ASSUME Table, NEW L \in SUBSET linesOf(DOMAIN sales), NEW T \in SUBSET L
  PROVE  /\ revenueOf(T) + revenueOf(L \ T) = revenueOf(L)
         /\ revenueOf(T) \in Int /\ revenueOf(L \ T) \in Int /\ revenueOf(L) \in Int
<1>1. /\ T \in SUBSET linesOf(DOMAIN sales) /\ L \ T \in SUBSET linesOf(DOMAIN sales)
      /\ Restrict(Nets(L), T) = Nets(T) /\ Restrict(Nets(L), L \ T) = Nets(L \ T)
  BY DEF Restrict, Nets
<1>2. /\ IsFiniteSet(L) /\ Nets(L) \in [L -> Int] /\ revenueOf(L) = Total(Nets(L))
      /\ revenueOf(T) = Total(Nets(T)) /\ revenueOf(L \ T) = Total(Nets(L \ T))
      /\ revenueOf(L) \in Int
  BY <1>1, LinesAddUp
<1> QED BY <1>1, <1>2, SumSplit

(* The lines of a part of the sales are part of their lines.                  *)
LEMMA LinesOfPart ==
  ASSUME NEW S, NEW key, NEW k
  PROVE  linesOf({i \in S : key[i] = k}) = {x \in linesOf(S) : key[x[1]] = k}
  BY DEF linesOf

(* What the lines of a sale sell at is its subtotal less what was taken off    *)
(* them; what is not on its lines was taken from the order.                   *)
LEMMA SaleOfLines ==
  ASSUME Table, NEW i \in DOMAIN sales
  PROVE  /\ IsFiniteSet(DOMAIN sales[i].items) /\ lineDiscounts(i) \in Int
         /\ Total(Nets({i} \X DOMAIN sales[i].items)) = sales[i].subtotal - lineDiscounts(i)
         /\ orderLevelC(i) = orderTookC(i) /\ orderTookC(i) \in Int
<1>1. PICK d, s : FromCart(i, d, s)
  BY SalesFromCarts
<1> DEFINE R == Rows(d)
           of == {i} \X R
           off == [k \in R |-> ScPwdOff(d, s)[k] + PromoOff(d, s)[k]]
           nets == [k \in R |-> Row(d, s, k).netC]
           name == [k \in R |-> <<i, k>>]
<1>2. R = DOMAIN sales[i].items /\ IsFiniteSet(R)
  BY <1>1 DEF FromCart, CartTypes, Rows
<1>3. ColumnTypes(d, s) /\ \A k \in R : RowTypes(d, s, k)
  BY <1>1, ColumnsTyped, RowsTyped DEF FromCart
<1>4. /\ ScPwdOff(d, s) \in [R -> Int] /\ PromoOff(d, s) \in [R -> Int] /\ Gross(d, s) \in [R -> Int]
      /\ off \in [R -> Int] /\ nets \in [R -> Int]
  BY <1>3 DEF ColumnTypes, RowTypes
<1>5. \A k \in R : LINE_NET_C(<<i, k>>) = nets[k] /\ item(<<i, k>>).discount = off[k]
  <2>1. ASSUME NEW k \in R
        PROVE  /\ LINE_NET_C(<<i, k>>) = Row(d, s, k).netC
               /\ item(<<i, k>>).discount = ScPwdOff(d, s)[k] + PromoOff(d, s)[k]
    BY <1>1, ItemsFigured
  <2> QED BY <2>1
<1>6. /\ AddsUp(R, ScPwdOff(d, s), PromoOff(d, s), off)
      /\ AddsUp(R, nets, off, Gross(d, s))
  <2>1. \A k \in R : Gross(d, s)[k] = nets[k] + off[k]
    BY <1>3 DEF ColumnTypes, RowTypes, Gross
  <2> QED BY <2>1 DEF AddsUp
<1>7. lineDiscounts(i) = Total(off)
  <2> DEFINE taken == [k \in DOMAIN sales[i].items |-> sales[i].items[k].discount]
  <2>1. lineDiscounts(i) = Total(taken)
    BY Zenon DEF lineDiscounts, Sum, SumOf
  <2>2. \A k \in R : sales[i].items[k].discount = off[k]
    <3>1. \A k \in R : item(<<i, k>>) = sales[i].items[k]
      BY DEF item
    <3> QED BY <1>5, <3>1
  <2>3. taken = off
    BY <1>2, <2>2
  <2> QED BY <2>1, <2>3
<1>8. Total(Nets(of)) = Total(nets)
  <2>1. IsFiniteSet(of)
    BY <1>2, FS_Singleton, FS_Product
  <2>2. name \in [R -> of]
    OBVIOUS
  <2>3. \A y \in of : \E k \in R : y = <<i, k>>
    OBVIOUS
  <2>4. Nets(of) \in [of -> Int] /\ \A k \in R : Nets(of)[<<i, k>>] = nets[k]
    BY <1>4, <1>5, <2>3 DEF Nets
  <2>5. \A y \in of : \E k \in R : name[k] = y /\ Nets(of)[y] = nets[k]
                                   /\ \A z \in R : name[z] = y => z = k
    <3> SUFFICES ASSUME NEW y \in of
                 PROVE  \E k \in R : name[k] = y /\ Nets(of)[y] = nets[k]
                                    /\ \A z \in R : name[z] = y => z = k
      OBVIOUS
    <3>1. PICK k \in R : y = <<i, k>>
      BY <2>3
    <3>2. Nets(of)[y] = nets[k]
      BY <2>4, <3>1
    <3>3. name[k] = y /\ \A z \in R : name[z] = y => z = k
      BY <3>1
    <3> QED BY <3>2, <3>3
  <2> HIDE DEF of, name, nets
  <2> QED BY <1>2, <1>4, <2>1, <2>2, <2>4, <2>5, SumRenamed
<1> HIDE DEF off, nets
<1>9. /\ Total(Gross(d, s)) = Total(nets) + Total(off)
      /\ Total(off) = Total(ScPwdOff(d, s)) + Total(PromoOff(d, s))
      /\ Total(nets) \in Int /\ Total(off) \in Int
      /\ Total(ScPwdOff(d, s)) \in Int /\ Total(PromoOff(d, s)) \in Int
  BY <1>2, <1>4, <1>6, SumPlus, SumType
<1>10. /\ sales[i].subtotal = Total(Gross(d, s)) /\ sales[i].scPwdDiscount = Total(ScPwdOff(d, s))
       /\ sales[i].discount = Total(PromoOff(d, s)) + OrderOff(d, s) /\ OrderOff(d, s) \in Int
       /\ sales[i].draftTotals.promoDiscountC = Total(PromoOff(d, s)) + OrderOff(d, s)
  BY <1>1 DEF FromCart
<1>11. orderLevelC(i) = OrderOff(d, s)
  BY <1>7, <1>9, <1>10 DEF orderLevelC
<1>12. SumOf(promoLines(i), LAMBDA k : linePromoC(i, k)) = Total(PromoOff(d, s))
  <2> DEFINE P == promoLines(i)
  <2>1. \A k \in R : sales[i].draftTotals.lines[k] = Row(d, s, k)
    BY <1>1 DEF FromCart
  <2>2. P = {k \in R : Goes(d, s, k, "promo")}
    BY <1>2, <2>1 DEF promoLines, Goes
  <2>3. Restrict(PromoOff(d, s), P) = [k \in P |-> linePromoC(i, k)]
    BY <2>1, <2>2 DEF Restrict, PromoOff, linePromoC
  <2>4. P \in SUBSET R /\ \A k \in R \ P : PromoOff(d, s)[k] = 0
    BY <2>2 DEF PromoOff
  <2>5. SumOf(P, LAMBDA k : linePromoC(i, k)) = Total([k \in P |-> linePromoC(i, k)])
    BY Zenon DEF SumOf
  <2> HIDE DEF P
  <2>6. Total(Restrict(PromoOff(d, s), P)) = Total(PromoOff(d, s))
    BY <1>2, <1>4, <2>4, SumWithoutZeros
  <2> QED BY <2>3, <2>5, <2>6 DEF P
<1>13. orderTookC(i) = OrderOff(d, s)
  <2>1. orderTookC(i) = sales[i].draftTotals.promoDiscountC - Total(PromoOff(d, s))
    BY <1>12, Zenon DEF orderTookC
  <2> QED BY <1>9, <1>10, <2>1
<1> QED BY <1>2, <1>7, <1>8, <1>9, <1>10, <1>11, <1>13

(* Over a set of sales: what the orders took is what the discounts of the      *)
(* table leave when the lines' share is taken away, and it is what separates   *)
(* the lines' revenue from the net sales.                                     *)
LEMMA OrdersTook ==
  ASSUME Table, NEW S \in SUBSET DOMAIN sales
  PROVE  LET t == discountTotals(S)
             took == SumOf(S, orderTookC)
         IN /\ t.saleDiscountC - (t.lineDiscountC - t.scPwdDiscountC) = took
            /\ revenueOf(linesOf(S)) = Total(NetOf(S)) + took
            /\ took \in Int
<1> DEFINE L == linesOf(S)
           Of(i) == {i} \X DOMAIN sales[i].items
           sold == [i \in S |-> sales[i].subtotal - lineDiscounts(i)]
           took == [i \in S |-> orderTookC(i)]
           off == [i \in S |-> sales[i].discount]
           lines == [i \in S |-> lineDiscounts(i)]
           scPwd == [i \in S |-> sales[i].scPwdDiscount]
           all == [i \in S |-> sales[i].discount + sales[i].scPwdDiscount]
           key == [x \in L |-> x[1]]
           t == discountTotals(S)
<1>1. /\ IsFiniteSet(S) /\ \A i \in S : Figured(i)
      /\ \A i \in S : /\ lineDiscounts(i) \in Int /\ orderTookC(i) \in Int
                      /\ Total(Nets(Of(i))) = sales[i].subtotal - lineDiscounts(i)
                      /\ orderTookC(i) = sales[i].discount - (lineDiscounts(i) - sales[i].scPwdDiscount)
  <2> HIDE DEF Of
  <2>1. \A i \in S : /\ lineDiscounts(i) \in Int /\ orderTookC(i) \in Int
                     /\ Total(Nets(Of(i))) = sales[i].subtotal - lineDiscounts(i)
                     /\ orderLevelC(i) = orderTookC(i)
    BY SaleOfLines DEF Of
  <2>2. IsFiniteSet(S) /\ \A i \in S : Figured(i)
    BY SalesFigured, FS_Subset
  <2> QED BY <2>1, <2>2 DEF orderLevelC
<1>2. revenueOf(L) = Total(sold)
  <2>1. L \in SUBSET linesOf(DOMAIN sales) /\ key \in [L -> S]
    BY LinesFigured
  <2>2. \A i \in S : {x \in L : key[x] = i} = Of(i) /\ Of(i) \in SUBSET linesOf(DOMAIN sales)
    BY DEF linesOf
  <2>3. \A i \in S : sold[i] = revenueOf({x \in L : key[x] = i})
    <3> HIDE DEF Of, L, key
    <3>1. \A i \in S : revenueOf(Of(i)) = Total(Nets(Of(i)))
      BY <2>2, LinesAddUp
    <3> QED BY <1>1, <2>2, <3>1
  <2>4. DOMAIN sold = S /\ sold = [i \in S |-> sold[i]]
    OBVIOUS
  <2> HIDE DEF L, key, sold
  <2> QED BY <1>1, <2>1, <2>3, <2>4, RevenueByKey
<1>10. \A i \in S :
          /\ sales[i].subtotal \in Int /\ sales[i].discount \in Int /\ sales[i].scPwdDiscount \in Int
          /\ NET_SALES(i) = sales[i].subtotal - sales[i].discount - sales[i].scPwdDiscount
          /\ lineDiscounts(i) \in Int /\ orderTookC(i) \in Int
          /\ orderTookC(i) = sales[i].discount - (lineDiscounts(i) - sales[i].scPwdDiscount)
  <2> HIDE DEF Of
  <2> QED BY <1>1 DEF Figured, NET_SALES
<1>3. /\ sold \in [S -> Int] /\ took \in [S -> Int] /\ off \in [S -> Int] /\ lines \in [S -> Int]
      /\ scPwd \in [S -> Int] /\ all \in [S -> Int] /\ NetOf(S) \in [S -> Int]
  BY <1>10 DEF NetOf
<1>4. /\ AddsUp(S, NetOf(S), took, sold) /\ AddsUp(S, off, scPwd, all)
      /\ AddsUp(S, took, lines, all)
  BY <1>10 DEF AddsUp, NetOf
<1>5. /\ t.saleDiscountC = Total(off) /\ t.lineDiscountC = Total(lines)
      /\ t.scPwdDiscountC = Total(scPwd)
  BY Zenon DEF discountTotals, SumOf
<1>6. SumOf(S, orderTookC) = Total(took)
  BY Zenon DEF SumOf
<1> HIDE DEF sold, took, off, lines, scPwd, all, t, L
<1>7. /\ Total(sold) = Total(NetOf(S)) + Total(took)
      /\ Total(all) = Total(off) + Total(scPwd)
      /\ Total(all) = Total(took) + Total(lines)
      /\ Total(took) \in Int /\ Total(off) \in Int /\ Total(scPwd) \in Int /\ Total(lines) \in Int
  BY <1>1, <1>3, <1>4, SumPlus, SumType
<1>8. /\ t.saleDiscountC - (t.lineDiscountC - t.scPwdDiscountC) = SumOf(S, orderTookC)
      /\ SumOf(S, orderTookC) \in Int
  BY <1>5, <1>6, <1>7
<1>9. revenueOf(L) = Total(NetOf(S)) + SumOf(S, orderTookC)
  BY <1>2, <1>6, <1>7
<1> QED BY <1>8, <1>9 DEF t, L

(* The product and the miscellaneous lines, and the profit of the products:    *)
(* only a line of a product has a cost.                                       *)
LEMMA OnlyProductsCost ==
  ASSUME Table, NEW L \in SUBSET linesOf(DOMAIN sales)
  PROVE  /\ productLines(L) \in SUBSET L
         /\ grossProfitC(productLines(L)) = grossProfitC(L)
<1>1. \A x \in L : item(x).productId = Null => item(x).costSnapshot = Null
  <2>1. \A x \in linesOf(DOMAIN sales) : LineFigured(x)
    BY LinesFigured
  <2> QED BY <2>1 DEF LineFigured
<1>2. costed(productLines(L)) = costed(L)
  BY <1>1 DEF costed, productLines
<1>3. grossProfitC(productLines(L)) = grossProfitC(L)
  BY <1>2, Zenon DEF grossProfitC
<1> QED BY <1>3 DEF productLines

Units(L) == [x \in L |-> item(x).milli]

LEMMA SoldRowIs ==
  ASSUME NEW L
  PROVE  /\ soldRow(L).revenueC = revenueOf(L) /\ soldRow(L).grossProfitC = grossProfitC(L)
         /\ soldRow(L).units = Total(Units(L))
  BY Zenon DEF soldRow, SumOf, Units

(* A table of sold rows, with a row for every key of its lines.               *)
LEMMA SoldByKey ==
  ASSUME Table, NEW L \in SUBSET linesOf(DOMAIN sales), NEW K, IsFiniteSet(K),
         NEW key \in [L -> K], NEW rows, DOMAIN rows = K,
         \A k \in K : rows[k] = soldRow({x \in L : key[x] = k})
  PROVE  /\ RevenueColumn(rows) = revenueOf(L)
         /\ UnitsColumn(rows) = Total(Units(L))
         /\ profitTotal(rows) = grossProfitC(L)
<1> DEFINE At(k) == {x \in L : key[x] = k}
           revenue == [k \in K |-> rows[k].revenueC]
           units == [k \in K |-> rows[k].units]
<1>1. \A k \in K : /\ rows[k].revenueC = revenueOf(At(k)) /\ rows[k].grossProfitC = grossProfitC(At(k))
                   /\ rows[k].units = Total(Units(At(k)))
  <2>1. \A k \in K : rows[k] = soldRow(At(k))
    OBVIOUS
  <2> HIDE DEF At
  <2> QED BY <2>1, SoldRowIs
<1>2. /\ RevenueColumn(rows) = Total(revenue)
      /\ UnitsColumn(rows) = Total(units)
  BY Zenon DEF SumOf, RevenueColumn, UnitsColumn
<1>3. Total(revenue) = revenueOf(L)
  <2>1. DOMAIN revenue = K /\ revenue = [k \in K |-> revenue[k]]
        /\ \A k \in K : revenue[k] = revenueOf(At(k))
    BY <1>1
  <2> HIDE DEF revenue
  <2> QED BY <2>1, RevenueByKey
<1>4. Total(units) = Total(Units(L))
  <2>1. IsFiniteSet(L) /\ \A x \in L : LineFigured(x)
    <3>1. \A x \in linesOf(DOMAIN sales) : LineFigured(x)
      BY LinesFigured
    <3> QED BY <3>1, LinesAddUp
  <2>2. Units(L) \in [L -> Int]
    BY <2>1 DEF Units, LineFigured
  <2>3. \A k \in K : IsFiniteSet(At(k)) /\ Units(At(k)) \in [At(k) -> Int]
                     /\ Units(At(k)) = [x \in At(k) |-> Units(L)[x]]
    BY <2>1, FS_Subset DEF Units, LineFigured
  <2>4. \A k \in K : units[k] = Total(Units(At(k))) /\ Total(Units(At(k))) \in Int
    <3> HIDE DEF At
    <3> QED BY <1>1, <2>3, SumType
  <2>5. units \in [K -> Int] /\ \A k \in K : units[k] = Total([x \in At(k) |-> Units(L)[x]])
    BY <2>3, <2>4
  <2> HIDE DEF units
  <2> QED BY <2>1, <2>2, <2>5, SumByKey
<1>5. profitTotal(rows) = grossProfitC(L)
  <2>1. \A k \in K : rows[k].grossProfitC = grossProfitC({x \in L : key[x] = k})
    <3> HIDE DEF At
    <3>1. \A k \in K : rows[k].grossProfitC = grossProfitC(At(k))
      BY <1>1
    <3> QED BY <3>1 DEF At
  <2> QED BY <2>1, ProfitByKey
<1> QED BY <1>2, <1>3, <1>4, <1>5

(* The product and the category table of a set of lines.                      *)
LEMMA ProductTables ==
  ASSUME Table, NEW L \in SUBSET linesOf(DOMAIN sales)
  PROVE  LET P == productLines(L)
             products == soldProducts(L)
             categories == soldCategories(L)
         IN /\ RevenueColumn(products) = revenueOf(P)
            /\ RevenueColumn(categories) = revenueOf(P)
            /\ profitTotal(products) = grossProfitC(L)
            /\ profitTotal(categories) = grossProfitC(L)
            /\ DOMAIN products = {soldKey(x) : x \in P}
            /\ \A k \in DOMAIN products : products[k] = soldRow({x \in L : soldKey(x) = k})
<1> DEFINE P == productLines(L)
           products == soldProducts(L)
           categories == soldCategories(L)
           product == [x \in P |-> soldKey(x)]
           category == [x \in P |-> categoryOfLine(x)]
           KP == {product[x] : x \in P}
           KC == {category[x] : x \in P}
<1>1. P \in SUBSET L /\ P \in SUBSET linesOf(DOMAIN sales) /\ grossProfitC(P) = grossProfitC(L)
  BY OnlyProductsCost
<1>2. IsFiniteSet(P)
  BY <1>1, LinesAddUp
<1>3. IsFiniteSet(KP) /\ IsFiniteSet(KC)
  <2>1. DOMAIN product = P /\ DOMAIN category = P
    OBVIOUS
  <2> HIDE DEF P, product, category
  <2> QED BY <1>2, <2>1, ImageFinite
<1>4. /\ DOMAIN products = KP
      /\ \A k \in KP : products[k] = soldRow({x \in L : soldKey(x) = k})
  BY DEF soldProducts
<1>5. \A k \in KP : {x \in L : soldKey(x) = k} = {x \in P : product[x] = k}
  BY DEF productLines, soldKey
<1>6. /\ DOMAIN categories = KC
      /\ \A k \in KC : categories[k] = soldRow({x \in P : category[x] = k})
  <2>1. /\ DOMAIN categories = KC
        /\ \A k \in KC : categories[k] = soldRow({x \in P : categoryOfLine(x) = k})
    BY DEF soldCategories
  <2>2. \A k \in KC : {x \in P : categoryOfLine(x) = k} = {x \in P : category[x] = k}
    OBVIOUS
  <2> QED BY <2>1, <2>2
<1>7. product \in [P -> KP] /\ category \in [P -> KC]
  OBVIOUS
<1>8. DOMAIN products = {soldKey(x) : x \in P}
  BY <1>4
<1>9. \A k \in KP : products[k] = soldRow({x \in P : product[x] = k})
  BY <1>4, <1>5
<1> HIDE DEF P, product, category, KP, KC, products, categories
<1>10. /\ RevenueColumn(products) = revenueOf(P)
       /\ profitTotal(products) = grossProfitC(P)
  BY <1>1, <1>3, <1>4, <1>7, <1>9, SoldByKey
<1>11. /\ RevenueColumn(categories) = revenueOf(P)
       /\ profitTotal(categories) = grossProfitC(P)
  BY <1>1, <1>3, <1>6, <1>7, SoldByKey
<1> QED BY <1>1, <1>4, <1>8, <1>10, <1>11, Zenon DEF P, products, categories

(* A table with a row for the sales of every key carries their profit.        *)
LEMMA ProfitOfSales ==
  ASSUME Table, NEW S \in SUBSET DOMAIN sales, NEW K, IsFiniteSet(K), NEW key \in [S -> K],
         NEW rows, DOMAIN rows = K,
         \A k \in K : rows[k].grossProfitC = grossProfitC(linesOf({i \in S : key[i] = k}))
  PROVE  profitTotal(rows) = grossProfitC(linesOf(S))
<1> DEFINE L == linesOf(S)
           of == [x \in L |-> key[x[1]]]
<1>1. L \in SUBSET linesOf(DOMAIN sales) /\ \A x \in L : x[1] \in S
  BY LinesFigured
<1>2. of \in [L -> K]
  BY <1>1
<1>3. \A k \in K : linesOf({i \in S : key[i] = k}) = {x \in L : of[x] = k}
  <2>1. \A k \in K : linesOf({i \in S : key[i] = k}) = {x \in L : key[x[1]] = k}
    BY LinesOfPart
  <2>2. \A x \in L : of[x] = key[x[1]]
    OBVIOUS
  <2> HIDE DEF L, of
  <2> QED BY <2>1, <2>2
<1> HIDE DEF L, of
<1>4. \A k \in K : rows[k].grossProfitC = grossProfitC({x \in L : of[x] = k})
  BY <1>3
<1>5. profitTotal(rows) = grossProfitC(L)
  BY <1>1, <1>2, <1>4, ProfitByKey
<1> QED BY <1>5 DEF L

(* Line revenue is accounted for once: products and miscellaneous lines make   *)
(* the costed and the uncosted revenue, which is the net sales before order    *)
(* discounts; categories regroup the products; a product is in the zero-sales  *)
(* list exactly when the product report has no row of it; the trend of a       *)
(* product, variants merged, adds up to the rows of its variants; and every    *)
(* cut of the profit adds up to the overview's, unknown when no line was       *)
(* costed (soldProducts, soldCategories, productTrend, profit, leaks).         *)
THEOREM RevenueIsAccountedFor == Spec => []RevenueAccounted
<1>1. ASSUME Table, NEW q \in Queries
      PROVE  LET p == profit(q)
                 l == leaks(q)
                 o == overview(q).current
                 products == RevenueColumn(p.byProduct)
                 reach == {x \in Products : \E b \in resolve(q) : SoldBy[x] = b.id}
             IN /\ products + l.miscRevenueC = p.costedRevenueC + p.uncostedRevenueC
                /\ products = RevenueColumn(p.byCategory)
                /\ p.costedRevenueC + p.uncostedRevenueC
                     = netSalesC(o) + l.orderLevelDiscountC
                /\ zeroSales(q) = reach \ soldIds(p.byProduct)
                /\ \A g \in {"day", "week", "month"} :
                     profitTotal(trend(q, g)) = o.grossProfitC
                /\ \A x \in soldIds(p.byProduct), g \in {"day", "week", "month"} :
                     LET rows == productTrend(q, x, g)
                         variants == ofProduct(p.byProduct, x)
                     IN /\ RevenueColumn(rows) = RevenueColumn(variants)
                        /\ UnitsColumn(rows) = UnitsColumn(variants)
                        /\ profitTotal(rows) = profitTotal(variants)
                /\ profitTotal(p.byProduct) = o.grossProfitC
                /\ profitTotal(p.byCategory) = o.grossProfitC
  <2> DEFINE S == SalesOf(q, "completed")
             L == linesOf(S)
             P == productLines(L)
             p == profit(q)
             l == leaks(q)
             o == overview(q).current
             reach == {x \in Products : \E b \in resolve(q) : SoldBy[x] = b.id}
  <2>1. /\ q \in Asks /\ S \in SUBSET DOMAIN sales /\ IsFiniteSet(S)
        /\ completedInWindow(resolve(q)) = S
    BY <1>1, QueriesAccepted, SalesReached DEF Asks, completedInWindow
  <2>14. \A i \in S : dayBucketExpr(i) \in q.from .. q.to
    BY DEF SalesOf
  <2> HIDE DEF S
  <2>2. L \in SUBSET linesOf(DOMAIN sales) /\ IsFiniteSet(L) /\ \A x \in L : x[1] \in S
    BY <1>1, <2>1, LinesFigured
  <2>3. /\ p.byProduct = soldProducts(L) /\ p.byCategory = soldCategories(L)
        /\ p.costedRevenueC = revenueOf(costed(L)) /\ p.uncostedRevenueC = revenueOf(L \ costed(L))
    BY <2>1, Zenon DEF profit
  <2>4. o = totalsOf(resolve(q)) /\ o.grossProfitC = grossProfitC(L)
    <3>1. o = totalsOf(resolve(q))
      BY DEF overview
    <3>2. totalsOf(resolve(q)).grossProfitC = grossProfitC(L)
      BY <2>1, Zenon DEF totalsOf
    <3> QED BY <3>1, <3>2
  <2>5. /\ l.miscRevenueC = revenueOf(L \ P)
        /\ l.orderLevelDiscountC = SumOf(S, orderTookC)
    <3> DEFINE t == discountTotals(S)
    <3>1. /\ l.miscRevenueC = revenueOf(L \ P)
          /\ l.orderLevelDiscountC = t.saleDiscountC - (t.lineDiscountC - t.scPwdDiscountC)
      BY <2>1, Zenon DEF leaks, miscRevenueC
    <3>2. t.saleDiscountC - (t.lineDiscountC - t.scPwdDiscountC) = SumOf(S, orderTookC)
      BY <1>1, <2>1, OrdersTook
    <3> QED BY <3>1, <3>2
  <2> HIDE DEF L, p, l, o
  <2>6. P \in SUBSET L /\ costed(L) \in SUBSET L
    BY DEF productLines, costed
  <2>7. /\ revenueOf(P) + revenueOf(L \ P) = revenueOf(L)
        /\ revenueOf(costed(L)) + revenueOf(L \ costed(L)) = revenueOf(L)
    <3> HIDE DEF P
    <3> QED BY <1>1, <2>2, <2>6, RevenueSplits
  <2>8. revenueOf(L) = netSalesC(o) + SumOf(S, orderTookC)
    <3>1. netSalesC(o) = Total(NetOf(S))
      BY <1>1, <2>1, <2>4, OverviewIsNet
    <3> QED BY <1>1, <2>1, <3>1, OrdersTook DEF L
  <2> DEFINE products == soldProducts(L)
             categories == soldCategories(L)
  <2>9. /\ RevenueColumn(products) = revenueOf(P) /\ RevenueColumn(categories) = revenueOf(P)
        /\ profitTotal(products) = grossProfitC(L) /\ profitTotal(categories) = grossProfitC(L)
        /\ DOMAIN products = {soldKey(x) : x \in P}
        /\ \A k \in DOMAIN products : products[k] = soldRow({x \in L : soldKey(x) = k})
    BY <1>1, <2>2, ProductTables
  <2>15. soldIds(p.byProduct) = {item(x).productId : x \in P}
    <3>1. DOMAIN p.byProduct = {soldKey(x) : x \in P}
      BY <2>3, <2>9
    <3>2. \A y : soldKey(y).productId = item(y).productId
      BY DEF soldKey
    <3>3. soldIds(p.byProduct) = {k.productId : k \in DOMAIN p.byProduct}
      BY DEF soldIds
    <3> HIDE DEF P
    <3> QED BY <3>1, <3>2, <3>3
  <2>10. zeroSales(q) = reach \ soldIds(p.byProduct)
    <3>1. soldIds(p.byProduct) = {item(x).productId : x \in P}
      BY <2>15
    <3>2. zeroSales(q) = {x \in reach : \A y \in L : item(y).productId # x}
      BY <2>1 DEF zeroSales, L
    <3>3. \A x \in reach : x # Null
      BY ProductsAssumption
    <3> QED BY <3>1, <3>2, <3>3 DEF productLines
  <2>11. ASSUME NEW g \in {"day", "week", "month"} PROVE profitTotal(trend(q, g)) = o.grossProfitC
    <3> DEFINE key == [i \in S |-> bucketExpr(i, g)]
               K == {key[i] : i \in S}
               rows == trend(q, g)
    <3>1. IsFiniteSet(K)
      BY <2>1, ImageFinite
    <3>2. DOMAIN rows = K
          /\ \A k \in K : rows[k] = figuresAndProfit({i \in S : bucketExpr(i, g) = k})
      BY <2>1 DEF trend
    <3>3. key \in [S -> K] /\ \A k \in K : {i \in S : bucketExpr(i, g) = k} = {i \in S : key[i] = k}
      OBVIOUS
    <3> HIDE DEF K, key, rows
    <3>4. \A T : figuresAndProfit(T).grossProfitC = grossProfitC(linesOf(T))
      BY Zenon DEF figuresAndProfit
    <3>5. \A k \in K : rows[k].grossProfitC = grossProfitC(linesOf({i \in S : key[i] = k}))
      BY <3>2, <3>3, <3>4
    <3>6. profitTotal(rows) = grossProfitC(linesOf(S))
      BY <1>1, <2>1, <3>1, <3>2, <3>3, <3>5, ProfitOfSales
    <3> QED BY <2>4, <3>6 DEF rows, L
  <2>12. ASSUME NEW x \in soldIds(p.byProduct), NEW g \in {"day", "week", "month"}
         PROVE  LET rows == productTrend(q, x, g)
                    variants == ofProduct(p.byProduct, x)
                IN /\ RevenueColumn(rows) = RevenueColumn(variants)
                   /\ UnitsColumn(rows) = UnitsColumn(variants)
                   /\ profitTotal(rows) = profitTotal(variants)
    <3> DEFINE M == {y \in L : item(y).productId = x}
               key == [y \in M |-> bucketExpr(y[1], g)]
               K == IF g = "day" THEN businessDaySeries(q.from, q.to) ELSE {key[y] : y \in M}
               rows == productTrend(q, x, g)
    <3>1. M \in SUBSET linesOf(DOMAIN sales) /\ IsFiniteSet(M)
      BY <2>2, FS_Subset
    <3>2. IsFiniteSet(K) /\ key \in [M -> K]
      <4>1. CASE g = "day"
        <5>1. K = q.from .. q.to
          BY <2>1, <4>1, SeriesIsItsDays
        <5>2. \A y \in M : bucketExpr(y[1], g) \in q.from .. q.to
          BY <2>2, <2>14, <4>1 DEF bucketExpr
        <5>3. IsFiniteSet(q.from .. q.to)
          BY <2>1, FS_Interval DEF Asks
        <5> HIDE DEF K, M
        <5> QED BY <5>1, <5>2, <5>3
      <4>2. CASE g # "day"
        <5>1. K = {key[y] : y \in M} /\ DOMAIN key = M /\ key \in [M -> {key[y] : y \in M}]
          BY <4>2
        <5> HIDE DEF K, M, key
        <5> QED BY <3>1, <5>1, ImageFinite
      <4> QED BY <4>1, <4>2
    <3>3. /\ DOMAIN rows = K
          /\ \A k \in K : rows[k] = soldRow({y \in M : key[y] = k})
      <4>1. DOMAIN rows = K
            /\ \A k \in K : rows[k] = soldRow({y \in M : bucketExpr(y[1], g) = k})
        BY <2>1 DEF productTrend, L
      <4>2. \A k \in K : {y \in M : bucketExpr(y[1], g) = k} = {y \in M : key[y] = k}
        OBVIOUS
      <4> QED BY <4>1, <4>2
    <3> DEFINE variants == ofProduct(p.byProduct, x)
               sells == [y \in M |-> soldKey(y)]
               KV == {sells[y] : y \in M}
    <3>4. IsFiniteSet(KV) /\ sells \in [M -> KV]
      <4>1. DOMAIN sells = M /\ sells \in [M -> KV]
        OBVIOUS
      <4> HIDE DEF sells, M
      <4> QED BY <3>1, <4>1, ImageFinite
    <3>5. DOMAIN variants = KV /\ \A k \in KV : variants[k] = soldRow({y \in M : sells[y] = k})
      <4>1. x # Null
        BY <2>15 DEF productLines
      <4>2. KV = {k \in DOMAIN p.byProduct : k.productId = x}
        <5>1. \A y : soldKey(y).productId = item(y).productId
          BY DEF soldKey
        <5>2. DOMAIN p.byProduct = {soldKey(y) : y \in P}
          BY <2>3, <2>9
        <5>3. KV = {soldKey(y) : y \in M}
          OBVIOUS
        <5>4. M = {y \in P : item(y).productId = x}
          BY <4>1 DEF productLines
        <5> HIDE DEF M, P, KV
        <5> QED BY <5>1, <5>2, <5>3, <5>4
      <4>3. DOMAIN variants = KV /\ \A k \in KV : variants[k] = p.byProduct[k]
        BY <4>2 DEF ofProduct
      <4>4. \A k \in KV : {y \in L : soldKey(y) = k} = {y \in M : sells[y] = k}
        BY DEF soldKey
      <4>5. \A k \in KV : p.byProduct[k] = soldRow({y \in L : soldKey(y) = k})
        BY <2>3, <2>9, <4>2
      <4> HIDE DEF KV, M, sells, variants
      <4> QED BY <4>3, <4>4, <4>5
    <3> HIDE DEF K, key, rows, M, variants, sells, KV
    <3>6. /\ RevenueColumn(rows) = revenueOf(M) /\ UnitsColumn(rows) = Total(Units(M))
          /\ profitTotal(rows) = grossProfitC(M)
      BY <1>1, <3>1, <3>2, <3>3, SoldByKey
    <3>7. /\ RevenueColumn(variants) = revenueOf(M) /\ UnitsColumn(variants) = Total(Units(M))
          /\ profitTotal(variants) = grossProfitC(M)
      BY <1>1, <3>1, <3>4, <3>5, SoldByKey
    <3> QED BY <3>6, <3>7 DEF rows, variants
  <2>13. /\ RevenueColumn(p.byProduct) + l.miscRevenueC = p.costedRevenueC + p.uncostedRevenueC
         /\ RevenueColumn(p.byProduct) = RevenueColumn(p.byCategory)
         /\ p.costedRevenueC + p.uncostedRevenueC = netSalesC(o) + l.orderLevelDiscountC
         /\ profitTotal(p.byProduct) = o.grossProfitC
         /\ profitTotal(p.byCategory) = o.grossProfitC
    <3> HIDE DEF P
    <3> QED BY <2>3, <2>4, <2>5, <2>7, <2>8, <2>9
  <2> HIDE DEF P, reach
  <2> QED BY <2>10, <2>11, <2>12, <2>13, Zenon DEF RevenueColumn, UnitsColumn, reach, p, l, o
<1>2. Table => RevenueAccounted
  BY <1>1, Zenon DEF RevenueAccounted
<1> QED BY <1>2, TableIsWritten, PTL

----------------------------------------------------------------------------
(* Discounts                                                                 *)

Offs(L) == [x \in L |-> item(x).discount]
NamedOn(i, d) == {k \in promoLines(i) : namedId(sales[i].draft.lines[k].discount) = d}
LineTook(i, d) == SumOf(NamedOn(i, d), LAMBDA k : linePromoC(i, k))
OrderTook(i, d) == IF sales[i].discountId = d THEN orderTookC(i) ELSE 0

(* The lines of a sale that the table puts under a name are those on which the *)
(* engine applied a discount of that name, for as much.                       *)
LEMMA NamedLines ==
  ASSUME Table, NEW i \in DOMAIN sales, NEW d, d # Null
  PROVE  LET M == {x \in {i} \X DOMAIN sales[i].items : item(x).discountId = d}
         IN /\ Offs(M) \in [M -> Int] /\ Total(Offs(M)) \in Int
            /\ LineTook(i, d) = Total(Offs(M))
            /\ takenByC(i, d) = LineTook(i, d) + OrderTook(i, d)
<1>1. PICK c, s : FromCart(i, c, s)
  BY SalesFromCarts
<1> DEFINE R == Rows(c)
           N == NamedOn(i, d)
           M == {x \in {i} \X R : item(x).discountId = d}
           took == [k \in N |-> linePromoC(i, k)]
           name == [k \in N |-> <<i, k>>]
<1>2. /\ R = DOMAIN sales[i].items /\ IsFiniteSet(R) /\ sales[i].draft = c
      /\ \A k \in R : sales[i].draftTotals.lines[k] = Row(c, s, k)
      /\ sales[i].discountId = namedId(c.orderDiscount)
  BY <1>1 DEF FromCart, CartTypes, Rows
<1>3. ASSUME NEW k \in R
      PROVE  /\ item(<<i, k>>).discount = ScPwdOff(c, s)[k] + PromoOff(c, s)[k]
             /\ ScPwdOff(c, s)[k] \in Int /\ PromoOff(c, s)[k] \in Int
             /\ item(<<i, k>>).discountId = IF Row(c, s, k).applied = "promo"
                                            THEN namedId(c.lines[k].discount) ELSE Null
  BY <1>1, ItemsFigured
<1>4. N = {k \in R : Goes(c, s, k, "promo") /\ namedId(c.lines[k].discount) = d}
  BY <1>2 DEF NamedOn, promoLines, Goes
<1>5. \A k \in R : item(<<i, k>>).discountId = d <=> k \in N
  BY <1>3, <1>4 DEF Goes
<1>6. \A k \in N : item(<<i, k>>).discount = took[k] /\ took[k] \in Int
  <2> SUFFICES ASSUME NEW k \in N PROVE item(<<i, k>>).discount = took[k] /\ took[k] \in Int
    OBVIOUS
  <2>1. k \in R /\ Goes(c, s, k, "promo") /\ ~ Goes(c, s, k, "scpwd")
    BY <1>4 DEF Goes
  <2>2. ScPwdOff(c, s)[k] = 0 /\ PromoOff(c, s)[k] = Row(c, s, k).promoDiscountC
    BY <2>1 DEF ScPwdOff, PromoOff
  <2>3. took[k] = Row(c, s, k).promoDiscountC
    BY <1>2, <2>1 DEF linePromoC
  <2> QED BY <1>3, <2>1, <2>2, <2>3
<1>7. IsFiniteSet(N) /\ IsFiniteSet(M)
  <2>1. IsFiniteSet({i} \X R)
    BY <1>2, FS_Singleton, FS_Product
  <2> QED BY <1>2, <1>4, <2>1, FS_Subset
<1>8. took \in [N -> Int] /\ name \in [N -> M]
  <2>1. \A k \in N : k \in R
    BY <1>4
  <2> QED BY <1>5, <1>6, <2>1
<1>9. \A y \in M : \E k \in N : y = <<i, k>>
  BY <1>5
<1>10. Offs(M) \in [M -> Int] /\ \A k \in N : Offs(M)[<<i, k>>] = took[k]
  <2>1. \A k \in N : <<i, k>> \in M
    BY <1>8
  <2> HIDE DEF M, N, took
  <2> QED BY <1>6, <1>9, <2>1 DEF Offs
<1>11. \A y \in M : \E k \in N : name[k] = y /\ Offs(M)[y] = took[k]
                                  /\ \A z \in N : name[z] = y => z = k
  <2> SUFFICES ASSUME NEW y \in M
               PROVE  \E k \in N : name[k] = y /\ Offs(M)[y] = took[k]
                                   /\ \A z \in N : name[z] = y => z = k
    OBVIOUS
  <2>1. PICK k \in N : y = <<i, k>>
    BY <1>9
  <2>2. Offs(M)[y] = took[k]
    BY <1>10, <2>1
  <2>3. name[k] = y /\ \A z \in N : name[z] = y => z = k
    BY <2>1
  <2> QED BY <2>2, <2>3
<1>12. LineTook(i, d) = Total(took)
  BY Zenon DEF LineTook, SumOf
<1>13. takenByC(i, d) = LineTook(i, d) + OrderTook(i, d)
  <2>1. takenByC(i, d) = LineTook(i, d) + (IF namedId(sales[i].draft.orderDiscount) = d
                                           THEN orderTookC(i) ELSE 0)
    BY Zenon DEF takenByC, LineTook, NamedOn
  <2> QED BY <1>2, <2>1 DEF OrderTook
<1>14. M = {x \in {i} \X DOMAIN sales[i].items : item(x).discountId = d}
  BY <1>2
<1> HIDE DEF M, N, took, name
<1>15. Total(Offs(M)) = Total(took) /\ Total(Offs(M)) \in Int
  BY <1>7, <1>8, <1>10, <1>11, SumRenamed, SumType
<1> QED BY <1>10, <1>12, <1>13, <1>14, <1>15

(* The leaks report attributes every discount to what took it: a name has what *)
(* the engine gave under it, the order level has what the engine took from     *)
(* orders, though the table stores neither (discountsByName, orderLevelC).    *)
THEOREM EveryDiscountIsAttributed == Spec => []DiscountsAttributed
<1>1. ASSUME Table, NEW q \in Queries
      PROVE  LET S == completedInWindow(resolve(q))
                 l == leaks(q)
             IN /\ l.orderLevelDiscountC = SumOf(S, orderTookC)
                /\ \A d \in DOMAIN l.discountsByName :
                     l.discountsByName[d].amountC = SumOf(S, LAMBDA i : takenByC(i, d))
  <2> DEFINE S == completedInWindow(resolve(q))
             l == leaks(q)
             t == discountTotals(S)
             L == linesOf(S)
  <2>1. S \in SUBSET DOMAIN sales
    BY DEF completedInWindow, withStatus
  <2>2. /\ l.orderLevelDiscountC = t.saleDiscountC - (t.lineDiscountC - t.scPwdDiscountC)
        /\ l.discountsByName = discountsByName(S)
    BY Zenon DEF leaks
  <2> HIDE DEF S, l
  <2>3. l.orderLevelDiscountC = SumOf(S, orderTookC)
    BY <1>1, <2>1, <2>2, OrdersTook
  <2>4. /\ IsFiniteSet(S) /\ IsFiniteSet(L) /\ \A x \in L : x[1] \in S /\ LineFigured(x)
        /\ \A i \in S : orderLevelC(i) = orderTookC(i) /\ orderTookC(i) \in Int
    BY <1>1, <2>1, NetTyped, LinesFigured, SaleOfLines
  <2>5. ASSUME NEW d \in DOMAIN l.discountsByName
        PROVE  l.discountsByName[d].amountC = SumOf(S, LAMBDA i : takenByC(i, d))
    <3> DEFINE onLine == {x \in L : item(x).discountId = d}
               onOrder == {i \in S : sales[i].discountId = d}
               Of(i) == {x \in {i} \X DOMAIN sales[i].items : item(x).discountId = d}
               lines == [i \in S |-> LineTook(i, d)]
               orders == [i \in S |-> OrderTook(i, d)]
               taken == [i \in S |-> takenByC(i, d)]
               level == [i \in onOrder |-> orderLevelC(i)]
               key == [x \in onLine |-> x[1]]
    <3>1. d # Null
      BY <2>2 DEF discountsByName
    <3>2. discountsByName(S)[d].amountC = Total(Offs(onLine)) + Total(level)
      <4>1. d \in DOMAIN discountsByName(S)
        BY <2>2
      <4>2. discountsByName(S)[d].amountC
              = SumOf(onLine, LAMBDA x : item(x).discount) + SumOf(onOrder, orderLevelC)
        BY <4>1 DEF discountsByName
      <4> QED BY <4>2, Zenon DEF SumOf, Offs
    <3>3. SumOf(S, LAMBDA i : takenByC(i, d)) = Total(taken)
      BY Zenon DEF SumOf
    <3>4. \A i \in S : /\ LineTook(i, d) = Total(Offs(Of(i))) /\ Total(Offs(Of(i))) \in Int
                       /\ takenByC(i, d) = LineTook(i, d) + OrderTook(i, d)
      <4> HIDE DEF Of
      <4> QED BY <1>1, <2>1, <3>1, NamedLines DEF Of
    <3>5. \A i \in S : LineTook(i, d) \in Int /\ OrderTook(i, d) \in Int
      <4> HIDE DEF Of
      <4> QED BY <2>4, <3>4 DEF OrderTook
    <3>6. /\ lines \in [S -> Int] /\ orders \in [S -> Int] /\ taken \in [S -> Int]
          /\ AddsUp(S, lines, orders, taken)
      <4>1. \A i \in S : takenByC(i, d) = LineTook(i, d) + OrderTook(i, d)
        BY <3>4
      <4> QED BY <3>5, <4>1 DEF AddsUp
    <3>7. Total(orders) = Total(level)
      <4>1. \A i \in S \ onOrder : orders[i] = 0
        BY DEF OrderTook
      <4>2. Restrict(orders, onOrder) = level
        BY <2>4 DEF Restrict, OrderTook
      <4>3. onOrder \in SUBSET S
        OBVIOUS
      <4> HIDE DEF orders, level, onOrder
      <4> QED BY <2>4, <3>6, <4>1, <4>2, <4>3, SumWithoutZeros
    <3>8. Total(lines) = Total(Offs(onLine))
      <4>1. IsFiniteSet(onLine) /\ Offs(onLine) \in [onLine -> Int] /\ key \in [onLine -> S]
        BY <2>4, FS_Subset DEF Offs, LineFigured
      <4>2. \A i \in S : {x \in onLine : key[x] = i} = Of(i)
        BY DEF linesOf
      <4>3. \A i \in S : Offs(Of(i)) = [x \in Of(i) |-> Offs(onLine)[x]]
        BY DEF Offs, linesOf
      <4>4. \A i \in S : lines[i] = Total(Offs(Of(i)))
        <5> HIDE DEF Of
        <5> QED BY <3>4
      <4>5. \A i \in S : lines[i] = Total([x \in {y \in onLine : key[y] = i} |-> Offs(onLine)[x]])
        <5> HIDE DEF Of, onLine, key, lines
        <5> QED BY <4>2, <4>3, <4>4
      <4> HIDE DEF onLine, key, lines
      <4> QED BY <2>4, <3>6, <4>1, <4>5, SumByKey
    <3>9. Total(taken) = Total(lines) + Total(orders)
      <4> HIDE DEF lines, orders, taken
      <4> QED BY <2>4, <3>6, SumPlus
    <3> HIDE DEF lines, orders, taken, level, onLine
    <3> QED BY <2>2, <3>2, <3>3, <3>7, <3>8, <3>9
  <2> QED BY <2>3, <2>5, Zenon DEF S, l
<1>2. Table => DiscountsAttributed
  BY <1>1, Zenon DEF DiscountsAttributed
<1> QED BY <1>2, TableIsWritten, PTL

----------------------------------------------------------------------------
(* The dashboard                                                             *)

Ask(b, first, last) == [business |-> b, branch |-> Null, from |-> first, to |-> last]
Windows == [fromUtc : Int, toUtc : Int]
Desks == [id : Businesses, branchIds : SUBSET Branches, window : Windows, previous : Windows]
BranchesOf(b) == {br \in Branches : BusinessOf[br] = b}

LEMMA Asked ==
  ASSUME NEW b \in Businesses, NEW first \in Int, NEW last \in Int
  PROVE  LET q == Ask(b, first, last)
         IN /\ q \in Asks /\ q.from = first /\ q.to = last
            /\ \A i : Reaches(q, i) <=> bizOf(i) = b
<1>1. b # Null
  BY ScopeAssumption
<1> QED BY <1>1 DEF Ask, Asks, Reaches, chosen

(* A window over the days of a business is what a query for those days reaches.*)
LEMMA DeskReaches ==
  ASSUME Table, NEW b \in Businesses, NEW first \in Int, NEW last \in Int,
         NEW s, s.branchIds = BranchesOf(b), s.window = businessDayRangeUtc(first, last, DayStart[b])
  PROVE  completedInWindow({s}) = SalesOf(Ask(b, first, last), "completed")
<1>1. ASSUME NEW i \in DOMAIN sales
      PROVE  inWindow(i, s) <=> /\ bizOf(i) = b
                                /\ dayBucketExpr(i) \in first .. last
  <2>1. Figured(i) /\ DayStart[b] \in DayStarts
    BY SalesFigured, ScopeAssumption
  <2>2. sales[i].branchId \in s.branchIds <=> bizOf(i) = b
    BY <2>1 DEF BranchesOf, bizOf, Figured
  <2>3. InWindow(sales[i].createdAt, s.window)
          <=> dayBucket(sales[i].createdAt, DayStart[b]) \in first .. last
    BY <2>1, WindowIsItsDays DEF Figured
  <2> QED BY <2>2, <2>3 DEF inWindow, dayBucketExpr
<1>2. /\ Ask(b, first, last).from = first /\ Ask(b, first, last).to = last
      /\ \A i : Reaches(Ask(b, first, last), i) <=> bizOf(i) = b
  BY Asked
<1> QED BY <1>1, <1>2 DEF completedInWindow, withStatus, SalesOf

(* The rows of a business on one of its days make that day's overview.        *)
LEMMA DeskAddsUp ==
  ASSUME Table, NEW b \in Businesses, NEW day \in Int,
         NEW s \in Desks, s.branchIds = BranchesOf(b),
         NEW w \in Windows, w = businessDayRangeUtc(day, day, DayStart[b])
  PROVE  LET f == figuresOf(dashboardBranch(s, w))
             o == overview(Ask(b, day, day)).current
         IN /\ f.salesC = netSalesC(o) /\ f.transactions = o.transactions
            /\ f.grossProfitC = o.grossProfitC
<1> DEFINE q == Ask(b, day, day)
           S == SalesOf(q, "completed")
           f == figuresOf(dashboardBranch(s, w))
           o == overview(q).current
           rows == dashboardBranch(s, w)
           e == [s EXCEPT !.window = w]
           K == BranchesOf(b)
           key == [i \in S |-> sales[i].branchId]
<1>1. e.window = w /\ e.branchIds = BranchesOf(b)
  BY DEF Desks
<1>2. completedInWindow({e}) = S
  <2> HIDE DEF e
  <2> QED BY <1>1, DeskReaches
<1>3. q \in Asks /\ S \in SUBSET DOMAIN sales /\ completedInWindow(resolve(q)) = S
      /\ \A i \in S : bizOf(i) = b
  <2>1. q \in Asks /\ \A i : Reaches(q, i) <=> bizOf(i) = b
    BY Asked
  <2> HIDE DEF q
  <2> QED BY <2>1, SalesReached DEF completedInWindow, SalesOf
<1>4. /\ o = totalsOf(resolve(q)) /\ netSalesC(o) = Total(NetOf(S))
      /\ o.transactions = Cardinality(S) /\ o.grossProfitC = grossProfitC(linesOf(S))
  <2>1. o = totalsOf(resolve(q))
    BY DEF overview
  <2>2. totalsOf(resolve(q)).grossProfitC = grossProfitC(linesOf(S))
    BY <1>3, Zenon DEF totalsOf
  <2> HIDE DEF o, S, q
  <2>3. /\ netSalesC(totalsOf(resolve(q))) = Total(NetOf(S))
        /\ totalsOf(resolve(q)).transactions = Cardinality(S)
    BY <1>3, OverviewIsNet
  <2> QED BY <2>1, <2>2, <2>3
<1>5. /\ DOMAIN rows = K
      /\ \A k \in K : rows[k] = figuresAndProfit({i \in S : sales[i].branchId = k})
  BY <1>2 DEF dashboardBranch
<1> HIDE DEF S, q, e, o
<1>6. IsFiniteSet(K) /\ key \in [S -> K]
      /\ \A k \in K : {i \in S : sales[i].branchId = k} = {i \in S : key[i] = k}
  <2>1. \A i \in S : sales[i].branchId \in Branches
    BY <1>3, SalesFigured DEF Figured
  <2> QED BY <1>3, <2>1, ScopeAssumption, FS_Subset DEF BranchesOf, bizOf
<1>7. f.salesC = grandTotal(rows).salesC /\ f.transactions = grandTotal(rows).transactions
      /\ f.grossProfitC = profitTotal(rows)
  <2> HIDE DEF rows
  <2> QED BY Zenon DEF figuresOf, grandTotal, rows
<1> HIDE DEF rows, K, key, f
<1>8. grandTotal(rows) = [salesC |-> Total(NetOf(S)), transactions |-> Cardinality(S)]
  BY <1>3, <1>5, <1>6, Regrouped
<1>9. profitTotal(rows) = grossProfitC(linesOf(S))
  <2>1. \A T : figuresAndProfit(T).grossProfitC = grossProfitC(linesOf(T))
    BY Zenon DEF figuresAndProfit
  <2>2. \A k \in K : rows[k].grossProfitC = grossProfitC(linesOf({i \in S : key[i] = k}))
    BY <1>5, <1>6, <2>1
  <2> QED BY <1>3, <1>5, <1>6, <2>2, ProfitOfSales
<1> QED BY <1>4, <1>7, <1>8, <1>9 DEF f, o, q

(* The row of a branch is that branch's overview of the day.                   *)
AskBranch(b, br, day) == [business |-> b, branch |-> br, from |-> day, to |-> day]

LEMMA DeskBranch ==
  ASSUME Table, NEW b \in Businesses, NEW day \in Int,
         NEW s \in Desks, s.branchIds = BranchesOf(b),
         NEW w \in Windows, w = businessDayRangeUtc(day, day, DayStart[b]),
         NEW br \in BranchesOf(b)
  PROVE  LET row == dashboardBranch(s, w)[br]
             o == overview(AskBranch(b, br, day)).current
         IN /\ row.salesC = netSalesC(o) /\ row.transactions = o.transactions
            /\ row.grossProfitC = o.grossProfitC
<1> DEFINE q == AskBranch(b, br, day)
           S == SalesOf(q, "completed")
           o == overview(q).current
           e == [s EXCEPT !.window = w]
           W == completedInWindow({e})
<1>1. /\ q \in Asks /\ q.from = day /\ q.to = day
      /\ \A i \in DOMAIN sales : Reaches(q, i) <=> sales[i].branchId = br
  <2>1. b # Null /\ br # Null /\ br \in Branches /\ BusinessOf[br] = b
    BY ScopeAssumption DEF BranchesOf
  <2>2. \A i \in DOMAIN sales : sales[i].branchId = br => bizOf(i) = b
    BY <2>1 DEF bizOf
  <2> QED BY <2>1, <2>2 DEF AskBranch, Asks, Reaches, chosen
<1>2. W = SalesOf(Ask(b, day, day), "completed")
  <2>1. e.window = w /\ e.branchIds = BranchesOf(b)
    BY DEF Desks
  <2> HIDE DEF e
  <2> QED BY <2>1, DeskReaches
<1>3. {i \in W : sales[i].branchId = br} = S
  <2>1. /\ Ask(b, day, day).from = day /\ Ask(b, day, day).to = day
        /\ \A i : Reaches(Ask(b, day, day), i) <=> bizOf(i) = b
    BY Asked
  <2>2. \A i : sales[i].branchId = br => bizOf(i) = b
    BY DEF bizOf, BranchesOf
  <2> HIDE DEF W, q
  <2> QED BY <1>1, <1>2, <2>1, <2>2 DEF SalesOf
<1>4. dashboardBranch(s, w)[br] = figuresAndProfit(S)
  <2>1. dashboardBranch(s, w)[br] = figuresAndProfit({i \in W : sales[i].branchId = br})
    BY DEF dashboardBranch, Desks
  <2> HIDE DEF W, S
  <2> QED BY <1>3, <2>1
<1>5. completedInWindow(resolve(q)) = S
  <2> HIDE DEF q
  <2> QED BY <1>1, SalesReached DEF completedInWindow
<1>6. /\ o = totalsOf(resolve(q)) /\ netSalesC(o) = Total(NetOf(S))
      /\ o.transactions = Cardinality(S) /\ o.grossProfitC = grossProfitC(linesOf(S))
  <2>1. o = totalsOf(resolve(q))
    BY DEF overview
  <2>2. totalsOf(resolve(q)).grossProfitC = grossProfitC(linesOf(S))
    BY <1>5, Zenon DEF totalsOf
  <2> HIDE DEF o, S, q
  <2>3. /\ netSalesC(totalsOf(resolve(q))) = Total(NetOf(S))
        /\ totalsOf(resolve(q)).transactions = Cardinality(S)
    BY <1>5, OverviewIsNet
  <2> QED BY <2>1, <2>2, <2>3
<1>7. /\ figuresAndProfit(S).salesC = Total(NetOf(S))
      /\ figuresAndProfit(S).transactions = Cardinality(S)
      /\ figuresAndProfit(S).grossProfitC = grossProfitC(linesOf(S))
  <2> HIDE DEF S
  <2> QED BY Zenon DEF figuresAndProfit, SumOf, NetOf
<1> HIDE DEF S, o, q
<1> QED BY <1>4, <1>6, <1>7 DEF o, q

(* The sparkline has the net of each of its days, zero when it sold nothing.   *)
LEMMA SparklineIsHeatmap ==
  ASSUME Table, NEW b \in Businesses, NEW s \in Desks,
         s.id = b, s.branchIds = BranchesOf(b),
         s.window = dayWindow(businessDayOf(now, DayStart[b]), DayStart[b])
  PROVE  LET today == businessDayOf(now, DayStart[b])
             week == heatmap(Ask(b, today - 6, today))
         IN sparkline(s) = [x \in DOMAIN week |-> week[x].salesC]
<1> DEFINE D == DayStart[b]
           today == businessDayOf(now, D)
           first == today - 6
           q == Ask(b, first, today)
           S == SalesOf(q, "completed")
           week == heatmap(q)
           K == first .. today
           from == businessDayStartUtc(first, D)
           e == [s EXCEPT !.window.fromUtc = from]
           byDate == dashboardSparkline(s, from)
<1>1. /\ now \in Int /\ D \in DayStarts /\ D \in Int /\ today \in Int /\ first \in Int
      /\ \A n \in Int : addDays(first, n) = first + n
      /\ addDays(today, 1) = today + 1 /\ addDays(today, -6) = first
  <2>1. now \in Int /\ D \in DayStarts
    BY ScopeAssumption DEF Table
  <2>2. today = dayBucket(now, D) /\ D \in Int
    BY <2>1 DEF businessDayOf, dayBucket, DayStarts, MinutesPerDay
  <2>3. today \in Int /\ first \in Int
    BY <2>1, <2>2, BucketHolds
  <2> HIDE DEF today
  <2>4. first \in Int
    BY <2>3
  <2>5. \A n \in Int : addDays(today, n) = today + n
    BY <2>1, <2>3, DatesAddUp
  <2>6. today + (-6) = first /\ 1 \in Int /\ -6 \in Int
    BY <2>3
  <2> HIDE DEF first
  <2> QED BY <2>1, <2>2, <2>3, <2>4, <2>5, <2>6, DatesAddUp
<1> HIDE DEF today, first
<1>2. e.window = businessDayRangeUtc(first, today, D) /\ e.branchIds = BranchesOf(b)
  <2>1. e.branchIds = BranchesOf(b) /\ e.window = [s.window EXCEPT !.fromUtc = from]
    BY DEF Desks
  <2>2. s.window = [fromUtc |-> businessDayStartUtc(today, D),
                    toUtc |-> businessDayStartUtc(today + 1, D)]
    BY <1>1 DEF dayWindow, today
  <2>3. businessDayStartUtc(today + 1, D) = businessDayStartUtc(today, D) + MinutesPerDay
    BY <1>1 DEF businessDayStartUtc, MANILA_OFFSET_MINUTES, MinutesPerDay
  <2> HIDE DEF e
  <2> QED BY <2>1, <2>2, <2>3 DEF businessDayRangeUtc
<1>3. completedInWindow({e}) = S
  <2> HIDE DEF e
  <2> QED BY <1>1, <1>2, DeskReaches
<1>4. q \in Asks /\ q.from = first /\ q.to = today
      /\ S \in SUBSET DOMAIN sales /\ completedInWindow(resolve(q)) = S
  <2>1. q \in Asks /\ q.from = first /\ q.to = today
    BY <1>1, Asked
  <2> HIDE DEF q
  <2> QED BY <2>1, SalesReached DEF completedInWindow
<1>5. /\ DOMAIN week = K
      /\ \A d \in K : week[d] = figures({i \in S : dayBucketExpr(i) = d})
  BY <1>4, SeriesIsItsDays DEF heatmap
<1>6. DOMAIN byDate = {dayBucketExpr(i) : i \in S}
      /\ \A d \in DOMAIN byDate : byDate[d] = Total(NetOf({i \in S : dayBucketExpr(i) = d}))
  BY <1>3, Zenon DEF dashboardSparkline, SumOf, NetOf
<1> HIDE DEF S, q, week, e, byDate, D
<1>7. \A d \in K : week[d].salesC = IF d \in DOMAIN byDate THEN byDate[d] ELSE 0
  <2> SUFFICES ASSUME NEW d \in K
               PROVE  week[d].salesC = IF d \in DOMAIN byDate THEN byDate[d] ELSE 0
    OBVIOUS
  <2> DEFINE T == {i \in S : dayBucketExpr(i) = d}
  <2>1. week[d].salesC = Total(NetOf(T))
    <3> HIDE DEF T
    <3> QED BY <1>5, FiguresAre DEF T
  <2>2. CASE d \in DOMAIN byDate
    BY <1>6, <2>1, <2>2
  <2>3. CASE d \notin DOMAIN byDate
    <3>1. DOMAIN NetOf(T) = {}
      BY <1>6, <2>3 DEF NetOf
    <3>2. Total(NetOf(T)) = 0
      <4> HIDE DEF T
      <4> QED BY <3>1, SumEmpty
    <3> QED BY <2>1, <2>3, <3>2
  <2> QED BY <2>2, <2>3
<1>8. {addDays(first, n) : n \in 0 .. 6} = K
  <2>1. \A n \in 0 .. 6 : addDays(first, n) = first + n
    BY <1>1
  <2>2. \A d \in K : d - first \in 0 .. 6 /\ first + (d - first) = d
    BY <1>1 DEF first
  <2>3. \A n \in 0 .. 6 : first + n \in K
    BY <1>1 DEF first
  <2> QED BY <2>1, <2>2, <2>3
<1>9. sparkline(s) = [d \in {addDays(first, n) : n \in 0 .. 6} |->
                        IF d \in DOMAIN byDate THEN byDate[d] ELSE 0]
  <2>1. -(SPARKLINE_DAYS - 1) = -6 /\ SPARKLINE_DAYS - 1 = 6
    BY DEF SPARKLINE_DAYS
  <2>2. addDays(businessDayOf(now, DayStart[s.id]), -(SPARKLINE_DAYS - 1)) = first
    BY <1>1, <2>1 DEF today, D
  <2> QED BY <2>1, <2>2 DEF sparkline, byDate, D
<1>10. sparkline(s) = [d \in K |-> week[d].salesC]
  BY <1>7, <1>8, <1>9
<1> QED BY <1>5, <1>10 DEF week, q, first, today, D

(* The dashboard's today is the overview of each business's own today, the     *)
(* row of each of its branches the overview of that branch, its last-week      *)
(* figure that of the same day a week before, and its sparkline the week's     *)
(* heatmap (resolveToday, dashboardBranch, dashboardSparkline).                *)
THEOREM TodayIsItsOverview == Spec => []DashboardIsToday
<1>1. ASSUME Table, NEW b \in DOMAIN dashboard
      PROVE  LET d == dashboard[b]
                 today == businessDayOf(now, DayStart[b])
                 ask(br, first, last) ==
                   [business |-> b, branch |-> br, from |-> first, to |-> last]
                 o == overview(ask(Null, today, today)).current
                 week == heatmap(ask(Null, today - 6, today))
             IN /\ d.today.salesC = netSalesC(o) /\ d.today.grossProfitC = o.grossProfitC
                /\ d.sameDayLastWeek.salesC
                     = netSalesC(overview(ask(Null, today - 7, today - 7)).current)
                /\ d.today.transactions = o.transactions
                /\ DOMAIN d.branches = {br \in Branches : BusinessOf[br] = b}
                /\ \A br \in DOMAIN d.branches :
                     LET ofBranch == overview(ask(br, today, today)).current
                     IN /\ d.branches[br].salesC = netSalesC(ofBranch)
                        /\ d.branches[br].transactions = ofBranch.transactions
                        /\ d.branches[br].grossProfitC = ofBranch.grossProfitC
                /\ d.sparkline = [x \in DOMAIN week |-> week[x].salesC]
  <2> DEFINE D == DayStart[b]
             today == businessDayOf(now, D)
             Rec(c) == LET t == businessDayOf(now, DayStart[c])
                       IN [id |-> c, branchIds |-> BranchesOf(c), window |-> dayWindow(t, DayStart[c]),
                           previous |-> dayWindow(addDays(t, -7), DayStart[c])]
             C == {c \in Businesses \ Demo : BranchesOf(c) # {}}
             s == CHOOSE x \in resolveToday : x.id = b
             d == dashboard[b]
  <2>1. resolveToday = {Rec(c) : c \in C}
    BY DEF resolveToday, chosen, branchesIn, BranchesOf
  <2>2. \A c : Rec(c).id = c
    OBVIOUS
  <2>3. DOMAIN dashboard = {x.id : x \in resolveToday}
        /\ d.today = figuresOf(dashboardBranch(s, s.window))
        /\ d.sameDayLastWeek = figuresOf(dashboardBranch(s, s.previous))
        /\ d.branches = dashboardBranch(s, s.window)
        /\ d.sparkline = sparkline(s)
    BY DEF dashboard
  <2>4. b \in C /\ s = Rec(b)
    <3> HIDE DEF Rec, C, s
    <3>1. \E x \in resolveToday : x.id = b
      BY <2>3
    <3>2. s \in resolveToday /\ s.id = b
      BY <3>1 DEF s
    <3> QED BY <2>1, <2>2, <3>2
  <2>5. /\ now \in Int /\ D \in DayStarts /\ D \in Int /\ today \in Int /\ b \in Businesses
        /\ \A n \in Int : addDays(today, n) = today + n
    <3>1. now \in Int /\ D \in DayStarts /\ b \in Businesses
      BY <1>1, <2>4, ScopeAssumption DEF Table
    <3>2. today = dayBucket(now, D) /\ D \in Int
      BY <3>1 DEF businessDayOf, dayBucket, DayStarts, MinutesPerDay
    <3>3. today \in Int
      BY <3>1, <3>2, BucketHolds
    <3> HIDE DEF today
    <3> QED BY <3>1, <3>2, <3>3, DatesAddUp
  <2> HIDE DEF today
  <2>6. \A t \in Int : /\ dayWindow(t, D) = businessDayRangeUtc(t, t, D)
                       /\ dayWindow(t, D) \in Windows
    <3> SUFFICES ASSUME NEW t \in Int
                 PROVE  dayWindow(t, D) = businessDayRangeUtc(t, t, D) /\ dayWindow(t, D) \in Windows
      OBVIOUS
    <3>1. addDays(t, 1) = t + 1
      <4>1. D \in DayStarts /\ 1 \in Int
        BY <2>5
      <4> HIDE DEF D
      <4> QED BY <4>1, DatesAddUp
    <3>2. /\ businessDayStartUtc(t + 1, D) = businessDayStartUtc(t, D) + MinutesPerDay
          /\ businessDayStartUtc(t, D) \in Int /\ businessDayStartUtc(t + 1, D) \in Int
      BY <2>5 DEF businessDayStartUtc, MANILA_OFFSET_MINUTES, MinutesPerDay
    <3> QED BY <3>1, <3>2 DEF dayWindow, businessDayRangeUtc, Windows
  <2>7. addDays(today, -7) = today - 7 /\ today - 7 \in Int
    <3>1. -7 \in Int /\ today + (-7) = today - 7
      BY <2>5
    <3> QED BY <2>5, <3>1
  <2>8. /\ s.id = b /\ s.branchIds = BranchesOf(b) /\ s.window = dayWindow(today, D)
        /\ s.previous = dayWindow(today - 7, D) /\ s \in Desks
    <3>1. s = [id |-> b, branchIds |-> BranchesOf(b), window |-> dayWindow(today, D),
               previous |-> dayWindow(today - 7, D)]
      BY <2>4, <2>7 DEF today
    <3>2. BranchesOf(b) \subseteq Branches
      BY DEF BranchesOf
    <3> HIDE DEF s
    <3> QED BY <2>5, <2>6, <2>7, <3>1, <3>2 DEF Desks
  <2> HIDE DEF s, d
  <2>9. LET o == overview(Ask(b, today, today)).current
        IN /\ d.today.salesC = netSalesC(o) /\ d.today.transactions = o.transactions
           /\ d.today.grossProfitC = o.grossProfitC
    <3>1. s.window \in Windows /\ s.window = businessDayRangeUtc(today, today, DayStart[b])
      BY <2>5, <2>6, <2>8
    <3> QED BY <1>1, <2>3, <2>5, <2>8, <3>1, DeskAddsUp
  <2>10. d.sameDayLastWeek.salesC = netSalesC(overview(Ask(b, today - 7, today - 7)).current)
    <3> DEFINE then == today - 7
    <3>1. s.previous \in Windows /\ s.previous = businessDayRangeUtc(then, then, DayStart[b]) /\ then \in Int
      BY <2>6, <2>7, <2>8
    <3> HIDE DEF then
    <3>2. d.sameDayLastWeek.salesC = netSalesC(overview(Ask(b, then, then)).current)
      BY <1>1, <2>3, <2>5, <2>8, <3>1, DeskAddsUp
    <3> QED BY <3>2 DEF then
  <2>11. LET week == heatmap(Ask(b, today - 6, today))
         IN d.sparkline = [x \in DOMAIN week |-> week[x].salesC]
    BY <1>1, <2>3, <2>5, <2>8, SparklineIsHeatmap DEF today
  <2>12. DOMAIN d.branches = BranchesOf(b)
    BY <2>3, <2>8 DEF dashboardBranch
  <2>13. \A br \in DOMAIN d.branches :
           LET o == overview(AskBranch(b, br, today)).current
           IN /\ d.branches[br].salesC = netSalesC(o) /\ d.branches[br].transactions = o.transactions
              /\ d.branches[br].grossProfitC = o.grossProfitC
    <3>1. s.window \in Windows /\ s.window = businessDayRangeUtc(today, today, DayStart[b])
      BY <2>5, <2>6, <2>8
    <3> QED BY <1>1, <2>3, <2>5, <2>8, <2>12, <3>1, DeskBranch
  <2> QED BY <2>9, <2>10, <2>11, <2>12, <2>13 DEF Ask, AskBranch, BranchesOf, today, d
<1>2. Table => DashboardIsToday
  BY <1>1, Zenon DEF DashboardIsToday
<1> QED BY <1>2, TableIsWritten, PTL
=============================================================================
