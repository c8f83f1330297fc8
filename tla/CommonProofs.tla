----------------------------- MODULE CommonProofs -----------------------------
(***************************************************************************)
(* What the shared code of src/common promises for every value, where TLC  *)
(* tries a few.                                                            *)
(*                                                                         *)
(* The totals engine: how far its roundings stray, that a discount stays   *)
(* within what it is taken from, that a line sells at the better of its    *)
(* two prices, that VAT is the VAT inside the amount, and the totals of a  *)
(* cart as sums of columns; and of every cart a cashier can build, that    *)
(* discounts never stack, that giving one never raises the total, and that *)
(* the receipt's VAT is contained in it.                                   *)
(*                                                                         *)
(* Business days: the window of a report and the day a sale is bucketed    *)
(* into are computed twice, in TypeScript and in SQL, from the same day    *)
(* start; they agree for every instant, every range and every day start.   *)
(***************************************************************************)
EXTENDS CartDraft, ReportScope, SumProofs, TLAPS

Positive == Nat \ {0}

(* r is the quotient n / d to half a unit: |r - n / d| <= 1 / 2.             *)
Near(r, n, d) == r \in Int /\ 2 * d * r - 2 * n <= d /\ 2 * n - 2 * d * r <= d

----------------------------------------------------------------------------
(* Rounding                                                                  *)

(* Integer division rounds down.                                             *)
LEMMA DivBounds ==
  ASSUME NEW a \in Int, NEW b \in Positive
  PROVE  /\ a \div b \in Int
         /\ b * (a \div b) <= a /\ a < b * (a \div b) + b
         /\ a % b = a - b * (a \div b)
  BY DEF Positive

(* The nearest integer of an amount lies on the same side of zero as it, and   *)
(* on the same side of any other integer.                                     *)
LEMMA NearBounds ==
  ASSUME NEW r, NEW n \in Int, NEW d \in Positive, Near(r, n, d), NEW m \in Int
  PROVE  /\ n >= 0 => r >= 0
         /\ n <= 0 => r <= 0
         /\ d * m <= n => m <= r
         /\ n <= d * m => r <= m
<1>1. ASSUME NEW k \in Int, d * k <= n, r < k PROVE FALSE
  <2>1. d * r <= d * k - d
    BY <1>1 DEF Near, Positive
  <2> QED BY <1>1, <2>1 DEF Near, Positive
<1>2. ASSUME NEW k \in Int, n <= d * k, r > k PROVE FALSE
  <2>1. d * r >= d * k + d
    BY <1>2 DEF Near, Positive
  <2> QED BY <1>2, <2>1 DEF Near, Positive
<1>3. r \in Int /\ d \in Int /\ d * 0 = 0
  BY DEF Near, Positive
<1>4. (n >= 0 => r >= 0) /\ (n <= 0 => r <= 0)
  BY <1>1, <1>2, <1>3
<1>5. (d * m <= n => m <= r) /\ (n <= d * m => r <= m)
  BY <1>1, <1>2, <1>3
<1> QED BY <1>4, <1>5

(* halfUp is the nearest integer (halfUp of money.ts), either side of zero.   *)
LEMMA HalfUpNear ==
  ASSUME NEW n \in Int, NEW d \in Positive
  PROVE  Near(halfUp(n, d), n, d)
<1> DEFINE up == (2 * n + d) \div (2 * d)
           dn == (d - 2 * n) \div (2 * d)
<1>0. 2 * d \in Positive /\ 2 * n + d \in Int /\ d - 2 * n \in Int
  BY DEF Positive
<1>1. up \in Int /\ 2 * d * up <= 2 * n + d /\ 2 * n + d < 2 * d * up + 2 * d
  BY <1>0, DivBounds
<1>2. dn \in Int /\ 2 * d * dn <= d - 2 * n /\ d - 2 * n < 2 * d * dn + 2 * d
  BY <1>0, DivBounds
<1> HIDE DEF up, dn
<1>3. halfUp(n, d) = IF n >= 0 THEN up ELSE -dn
  BY DEF halfUp, up, dn
<1>4. CASE n >= 0
  BY <1>1, <1>3, <1>4 DEF Near, Positive
<1>5. CASE n < 0
  BY <1>2, <1>3, <1>5 DEF Near, Positive
<1> QED BY <1>4, <1>5

(* A half that the doubles lose is still a nearest integer: the one nearer to   *)
(* zero.                                                                      *)
LEMMA HalfLost ==
  ASSUME NEW m \in Int, NEW d \in Positive, (2 * m) % (2 * d) = d
  PROVE  m \div d \in Int /\ 2 * m - 2 * d * (m \div d) = d
<1> DEFINE q == m \div d
           p == (2 * m) \div (2 * d)
<1>1. q \in Int /\ d * q <= m /\ m < d * q + d
  BY DivBounds
<1>2. p \in Int /\ d = 2 * m - 2 * d * p
  <2>1. 2 * m \in Int /\ 2 * d \in Positive
    BY DEF Positive
  <2> QED BY <2>1, DivBounds
<1> HIDE DEF q, p
<1>3. 2 * (d * q) <= 2 * (d * p) + d /\ 2 * (d * p) + d < 2 * (d * q) + 2 * d
  BY <1>1, <1>2 DEF Positive
<1>4. ASSUME q > p PROVE FALSE
  <2>1. d * q >= d * p + d
    BY <1>1, <1>2, <1>4 DEF Positive
  <2> QED BY <1>1, <1>2, <1>3, <2>1 DEF Positive
<1>5. ASSUME q < p PROVE FALSE
  <2>1. d * p >= d * q + d
    BY <1>1, <1>2, <1>5 DEF Positive
  <2> QED BY <1>1, <1>2, <1>3, <2>1 DEF Positive
<1>6. q = p
  BY <1>1, <1>2, <1>4, <1>5
<1> QED BY <1>2, <1>6 DEF q

LEMMA HalfUpDoubleNear ==
  ASSUME NEW c, NEW S, NEW n \in Int, NEW d \in Positive
  PROVE  Near(halfUpDouble(c, n, d, S), n, d)
<1>1. CASE c \in S /\ n > 0 /\ (2 * n) % (2 * d) = d
  <2> DEFINE q == n \div d
  <2>1. halfUpDouble(c, n, d, S) = q
    BY <1>1 DEF halfUpDouble
  <2>2. q \in Int /\ 2 * n - 2 * d * q = d
    BY <1>1, HalfLost
  <2> HIDE DEF q
  <2> QED BY <2>1, <2>2 DEF Near, Positive
<1>2. CASE ~(c \in S /\ n > 0 /\ (2 * n) % (2 * d) = d)
           /\ -c \in S /\ n < 0 /\ (-2 * n) % (2 * d) = d
  <2> DEFINE m == -n
             q == m \div d
  <2>1. halfUpDouble(c, n, d, S) = -q
    BY <1>2 DEF halfUpDouble
  <2>2. q \in Int /\ 2 * m - 2 * d * q = d
    <3>1. m \in Int /\ 2 * m = -2 * n
      OBVIOUS
    <3>2. (2 * m) % (2 * d) = d
      BY <1>2, <3>1
    <3> HIDE DEF m
    <3> QED BY <3>1, <3>2, HalfLost
  <2> HIDE DEF q
  <2> QED BY <2>1, <2>2 DEF Near, Positive
<1>3. CASE /\ ~(c \in S /\ n > 0 /\ (2 * n) % (2 * d) = d)
           /\ ~(-c \in S /\ n < 0 /\ (-2 * n) % (2 * d) = d)
  BY <1>3, HalfUpNear DEF halfUpDouble
<1> QED BY <1>1, <1>2, <1>3

----------------------------------------------------------------------------
(* Tax                                                                       *)

(* The VAT the engine states for an amount is the VAT contained in it, to half *)
(* a centavo, whichever halves the doubles lose; of an amount that is not      *)
(* negative it is a part (computeTotals: vatC and vatableSalesC).             *)
THEOREM VatIsInside ==
  ASSUME NEW c \in Int, NEW s, s.tax \in Nat
  PROVE  /\ Near(vatIncluded(c, s), c * s.tax, 10000 + s.tax)
         /\ c >= 0 => 0 <= vatIncluded(c, s) /\ vatIncluded(c, s) <= c
<1> DEFINE t == s.tax
           v == vatIncluded(c, s)
<1>1. t \in Nat /\ 10000 + t \in Positive /\ c * t \in Int
  BY DEF Positive
<1>2. Near(v, c * t, 10000 + t)
  <2>1. CASE t = 0
    BY <2>1 DEF vatIncluded, Near
  <2>2. CASE t # 0
    BY <1>1, <2>2, HalfUpDoubleNear DEF vatIncluded
  <2> QED BY <2>1, <2>2
<1> HIDE DEF t, v
<1>3. c >= 0 => c * t >= 0 /\ c * t <= (10000 + t) * c
  BY <1>1
<1>4. c >= 0 => 0 <= v /\ v <= c
  BY <1>1, <1>2, <1>3, NearBounds DEF Near
<1> QED BY <1>2, <1>4 DEF t, v

(* What is left of an amount without its VAT is a part of it.                 *)
LEMMA LessTaxWithin ==
  ASSUME NEW c \in Nat, NEW s, s.tax \in Nat
  PROVE  lessTax(c, s) \in Nat /\ lessTax(c, s) <= c
<1> DEFINE t == s.tax
           b == lessTax(c, s)
<1>1. 10000 + t \in Positive /\ c * 10000 \in Int /\ c * 10000 >= 0
      /\ c * 10000 <= (10000 + t) * c
  BY DEF Positive
<1>2. Near(b, c * 10000, 10000 + t)
  BY <1>1, HalfUpDoubleNear DEF lessTax
<1> HIDE DEF t, b
<1>3. b >= 0 /\ b <= c
  BY <1>1, <1>2, NearBounds
<1> QED BY <1>2, <1>3 DEF Near, b

----------------------------------------------------------------------------
(* Discounts                                                                 *)

(* Up to a hundred percent of an amount is a part of it.                      *)
LEMMA PercentWithin ==
  ASSUME NEW c \in Nat, NEW p \in Nat, p <= 100
  PROVE  pct(c, p) \in Nat /\ pct(c, p) <= c
<1>1. c * p \in Int /\ c * p >= 0 /\ c * p <= 100 * c /\ 100 \in Positive
  BY DEF Positive
<1>2. Near(pct(c, p), c * p, 100)
  BY <1>1, HalfUpNear DEF pct
<1>3. pct(c, p) >= 0 /\ pct(c, p) <= c
  BY <1>1, <1>2, NearBounds
<1> QED BY <1>2, <1>3 DEF Near

(* The lesser of two amounts is one of them.                                  *)
LEMMA MinOfTwo ==
  ASSUME NEW a \in Int, NEW b \in Int
  PROVE  Min({a, b}) = IF a <= b THEN a ELSE b
<1>1. \A m \in {a, b} : (\A z \in {a, b} : m <= z) => m = IF a <= b THEN a ELSE b
  OBVIOUS
<1>2. \E m \in {a, b} : \A z \in {a, b} : m <= z
  OBVIOUS
<1> QED BY <1>1, <1>2 DEF Min

(* No discount takes more than there is, or anything where there is nothing   *)
(* (discountAmountC), for a line and for an order.                           *)
THEOREM DiscountWithinBase ==
  ASSUME NEW c \in Int, NEW d, d = Null \/ Discount(d)
  PROVE  /\ discountAmountC(d, c) \in Nat
         /\ c <= 0 => discountAmountC(d, c) = 0
         /\ c > 0 => discountAmountC(d, c) <= c
<1>1. CASE d = Null \/ c <= 0
  BY <1>1 DEF discountAmountC
<1>2. CASE d # Null /\ c > 0
  <2> DEFINE raw == IF d.kind = "percent" THEN pct(c, d.value) ELSE d.value
  <2>1. raw \in Nat
    <3>1. ASSUME d.kind = "percent" PROVE pct(c, d.value) \in Nat
      <4>1. c \in Nat /\ d.value \in Nat /\ d.value <= 100
        BY <1>2, <3>1 DEF Discount
      <4> QED BY <4>1, PercentWithin
    <3>2. d.kind # "percent" => d.value \in Nat
      BY <1>2 DEF Discount
    <3> QED BY <3>1, <3>2
  <2>2. discountAmountC(d, c) = Min({raw, c})
    BY <1>2 DEF discountAmountC
  <2> HIDE DEF raw
  <2> QED BY <1>2, <2>1, <2>2, MinOfTwo
<1> QED BY <1>1, <1>2

(* What is left of an amount below zero without its VAT, or of a percentage of  *)
(* it, is not further from zero.                                             *)
LEMMA NoPriceBelowZero ==
  ASSUME NEW c \in Int, c <= 0, NEW s, s.tax \in Nat
  PROVE  c <= pct(lessTax(c, s), 80)
<1> DEFINE t == s.tax
           b == lessTax(c, s)
           p == pct(b, 80)
<1>1. 10000 + t \in Positive /\ 100 \in Positive /\ c * 10000 \in Int
      /\ (10000 + t) * c <= c * 10000 /\ c * 10000 <= 0
  BY DEF Positive
<1>2. Near(b, c * 10000, 10000 + t)
  BY <1>1, HalfUpDoubleNear DEF lessTax
<1> HIDE DEF t, b
<1>3. b \in Int /\ c <= b /\ b <= 0
  <2>1. c <= b
    BY <1>1, <1>2, NearBounds
  <2>2. b <= 0
    BY <1>1, <1>2, NearBounds
  <2> QED BY <1>2, <2>1, <2>2 DEF Near
<1>4. Near(p, b * 80, 100)
  BY <1>1, <1>3, HalfUpNear DEF pct
<1> HIDE DEF p
<1>5. 100 * b <= b * 80 /\ b * 80 \in Int
  BY <1>3
<1>6. p \in Int /\ b <= p
  BY <1>1, <1>3, <1>4, <1>5, NearBounds DEF Near
<1> QED BY <1>3, <1>6 DEF b, p

(* How a line sells whose gross is c.                                         *)
SellsAtTheBetter(line, order, s, c) ==
  LET promoPrice == c - discountAmountC(line.discount, c)
      scPwdPrice == pct(lessTax(c, s), 80)
      marked == order.scPwd /\ line.scPwdMarked
      t == lineTotals(line, order, s)
  IN /\ t.grossC = c
     /\ c <= 0 => t.netC = c /\ t.applied = Null
     /\ c > 0 => /\ t.netC = IF marked THEN Min({promoPrice, scPwdPrice}) ELSE promoPrice
                 /\ 0 <= t.netC /\ t.netC <= c
                 /\ (t.applied = "scpwd") <=>
                       (marked /\ scPwdPrice <= promoPrice /\ scPwdPrice < c)

(* A line sells at the better of its promo price and, when it is marked on an *)
(* SC/PWD sale, four fifths of its price without VAT; never both, never below *)
(* zero and never above its gross; a line of nothing, or less, sells at that  *)
(* (computeTotals, the choice of `applied`).                                 *)
THEOREM LineSellsAtTheBetter ==
  ASSUME NEW line, NEW order, NEW s, s.tax \in Nat,
         line.discount = Null \/ Discount(line.discount),
         NEW c \in Int, c = mulQtyPriceC(line.milli, lineUnitWithModsC(line)),
         order.scPwd \in BOOLEAN, line.scPwdMarked \in BOOLEAN
  PROVE  SellsAtTheBetter(line, order, s, c)
<1> DEFINE promo == discountAmountC(line.discount, c)
           low == pct(lessTax(c, s), 80)
           off == scPwdAmountC(line, order, c, s)
           how == appliedTo(promo, off)
           netC == lineTotals(line, order, s).netC
           marked == order.scPwd /\ line.scPwdMarked
<1>1. /\ lineTotals(line, order, s).grossC = c
      /\ lineTotals(line, order, s).applied = how
  BY DEF lineTotals
<1>2. promo \in Nat /\ (c <= 0 => promo = 0) /\ (c > 0 => promo <= c)
  BY DiscountWithinBase
<1>3. low \in Int /\ (c <= 0 => c <= low) /\ (c > 0 => 0 <= low /\ low <= c)
  <2>1. c > 0 => lessTax(c, s) \in Nat /\ lessTax(c, s) <= c
    BY LessTaxWithin
  <2> DEFINE b == lessTax(c, s)
  <2>2. b \in Int
    <3>1. c * 10000 \in Int /\ 10000 + s.tax \in Positive
      BY DEF Positive
    <3> QED BY <3>1, HalfUpDoubleNear DEF lessTax, Near
  <2>3. c <= 0 => c <= low
    BY NoPriceBelowZero
  <2> HIDE DEF b
  <2>4. pct(b, 80) \in Int
    <3>1. b * 80 \in Int /\ 100 \in Positive
      BY <2>2 DEF Positive
    <3> QED BY <3>1, HalfUpNear DEF pct, Near
  <2>5. c > 0 => pct(b, 80) \in Nat /\ pct(b, 80) <= b
    BY <2>1, PercentWithin DEF b
  <2> QED BY <2>1, <2>3, <2>4, <2>5 DEF b
<1>4. off = IF marked THEN c - low ELSE 0
  BY DEF scPwdAmountC
<1>5. netC = c - (IF how = "scpwd" THEN off ELSE IF how = "promo" THEN promo ELSE 0)
  BY DEF lineTotals
<1>6. marked \in BOOLEAN
  OBVIOUS
<1> HIDE DEF promo, low, off, netC, marked
<1>7. \/ how = Null /\ promo <= 0 /\ off <= 0
      \/ how = "scpwd" /\ off >= promo /\ (promo > 0 \/ off > 0)
      \/ how = "promo" /\ off < promo /\ (promo > 0 \/ off > 0)
  BY <1>2, <1>3, <1>4, <1>6 DEF appliedTo
<1> HIDE DEF how
<1>8. Null # "promo" /\ Null # "scpwd"
  BY NullAssumption
<1>9. CASE c <= 0
  <2>1. off \in Int /\ off <= 0 /\ promo = 0
    BY <1>2, <1>3, <1>4, <1>6, <1>9
  <2>2. how = Null
    BY <1>7, <2>1
  <2>3. netC = c
    BY <1>5, <1>8, <2>2
  <2> QED BY <1>1, <1>9, <2>2, <2>3 DEF netC, SellsAtTheBetter
<1>10. CASE c > 0
  <2>1. netC = c - (IF off >= promo THEN off ELSE promo)
    BY <1>2, <1>3, <1>4, <1>5, <1>6, <1>7, <1>8, <1>10
  <2>2. (how = "scpwd") <=> (marked /\ low <= c - promo /\ low < c)
    BY <1>2, <1>3, <1>4, <1>6, <1>7, <1>8, <1>10
  <2>3. Min({c - promo, low}) = IF c - promo <= low THEN c - promo ELSE low
    BY <1>2, <1>3, MinOfTwo
  <2>4. /\ netC = IF marked THEN Min({c - promo, low}) ELSE c - promo
        /\ 0 <= netC /\ netC <= c
    BY <1>2, <1>3, <1>4, <1>6, <1>10, <2>1, <2>3
  <2> QED BY <1>1, <1>10, <2>2, <2>4 DEF promo, low, netC, marked, SellsAtTheBetter
<1> QED BY <1>9, <1>10

----------------------------------------------------------------------------
(* The columns of a cart's totals                                            *)

Rows(c) == DOMAIN c.lines
Row(c, s, i) == lineTotals(c.lines[i], c, s)
Goes(c, s, i, how) == Row(c, s, i).applied = how

Gross(c, s) == [i \in Rows(c) |-> Row(c, s, i).grossC]
ScPwdOff(c, s) == [i \in Rows(c) |-> IF Goes(c, s, i, "scpwd") THEN Row(c, s, i).scPwdDiscountC ELSE 0]
PromoOff(c, s) == [i \in Rows(c) |-> IF Goes(c, s, i, "promo") THEN Row(c, s, i).promoDiscountC ELSE 0]
Exempt(c, s) == [i \in Rows(c) |-> IF Goes(c, s, i, "scpwd") THEN Row(c, s, i).netC ELSE 0]
Base(c, s) == [i \in Rows(c) |-> IF Goes(c, s, i, "scpwd") THEN 0 ELSE Row(c, s, i).netC]

(* The columns are of integers, and what a line sells at is its gross less what *)
(* is taken off it.                                                          *)
RowTypes(c, s, i) ==
  /\ Row(c, s, i).grossC \in Int /\ Row(c, s, i).netC \in Int
  /\ Row(c, s, i).scPwdDiscountC \in Int /\ Row(c, s, i).promoDiscountC \in Int
  /\ Row(c, s, i).grossC = Row(c, s, i).netC + ScPwdOff(c, s)[i] + PromoOff(c, s)[i]

LEMMA RowsTyped ==
  ASSUME NEW c, CartTypes(c), NEW s, RateTypes(s)
  PROVE  \A i \in Rows(c) : RowTypes(c, s, i)
<1> SUFFICES ASSUME NEW i \in Rows(c) PROVE RowTypes(c, s, i)
  OBVIOUS
<1> DEFINE l == c.lines[i]
           unit == lineUnitWithModsC(l)
           g == mulQtyPriceC(l.milli, unit)
           promo == discountAmountC(l.discount, g)
           off == scPwdAmountC(l, c, g, s)
           how == appliedTo(promo, off)
<1>1. LineTypes(l) /\ c.scPwd \in BOOLEAN
  BY DEF CartTypes, Rows
<1>2. unit \in Int
  <2> DEFINE deltas == [k \in DOMAIN l.modifiers |-> l.modifiers[k]]
  <2>1. IsFiniteSet(DOMAIN l.modifiers) /\ deltas \in [DOMAIN l.modifiers -> Int]
    <3>1. l.modifiers \in Seq(Int)
      BY <1>1 DEF LineTypes
    <3>2. DOMAIN l.modifiers = 1 .. Len(l.modifiers) /\ Len(l.modifiers) \in Nat
      BY <3>1
    <3>3. \A k \in DOMAIN l.modifiers : l.modifiers[k] \in Int
      BY <3>1
    <3> QED BY <3>2, <3>3, FS_Interval
  <2>2. Total(deltas) \in Int
    <3> HIDE DEF deltas
    <3> QED BY <2>1, SumType
  <2>3. unit = l.unitPriceC + Total(deltas)
    BY DEF lineUnitWithModsC, Sum, SumOf
  <2> QED BY <1>1, <2>2, <2>3 DEF LineTypes
<1>3. g \in Int
  <2> HIDE DEF unit
  <2>1. l.milli * unit \in Int /\ 1000 \in Positive
    BY <1>1, <1>2 DEF LineTypes, Positive
  <2> QED BY <2>1, HalfUpNear DEF mulQtyPriceC, Near
<1> HIDE DEF unit, g
<1>4. promo \in Int
  BY <1>1, <1>3, DiscountWithinBase DEF LineTypes
<1>5. off \in Int
  <2>1. g * 10000 \in Int /\ 10000 + s.tax \in Positive
    BY <1>3 DEF RateTypes, Positive
  <2>2. lessTax(g, s) \in Int
    BY <2>1, HalfUpDoubleNear DEF lessTax, Near
  <2> DEFINE b == lessTax(g, s)
  <2> HIDE DEF b
  <2>3. pct(b, 80) \in Int
    <3>1. b * 80 \in Int /\ 100 \in Positive
      BY <2>2 DEF Positive, b
    <3> QED BY <3>1, HalfUpNear DEF pct, Near
  <2> QED BY <1>3, <2>3 DEF scPwdAmountC, b
<1>6. /\ Row(c, s, i).grossC = g /\ Row(c, s, i).promoDiscountC = promo
      /\ Row(c, s, i).scPwdDiscountC = off /\ Row(c, s, i).applied = how
      /\ Row(c, s, i).netC = g - (IF how = "scpwd" THEN off ELSE IF how = "promo" THEN promo ELSE 0)
  BY DEF Row, lineTotals, g, unit
<1>7. /\ ScPwdOff(c, s)[i] = IF how = "scpwd" THEN off ELSE 0
      /\ PromoOff(c, s)[i] = IF how = "promo" THEN promo ELSE 0
  BY <1>6 DEF ScPwdOff, PromoOff, Goes
<1> HIDE DEF promo, off, how
<1> QED BY <1>3, <1>4, <1>5, <1>6, <1>7 DEF RowTypes

ColumnTypes(c, s) ==
  /\ IsFiniteSet(Rows(c))
  /\ Gross(c, s) \in [Rows(c) -> Int] /\ Total(Gross(c, s)) \in Int
  /\ ScPwdOff(c, s) \in [Rows(c) -> Int] /\ Total(ScPwdOff(c, s)) \in Int
  /\ PromoOff(c, s) \in [Rows(c) -> Int] /\ Total(PromoOff(c, s)) \in Int
  /\ Exempt(c, s) \in [Rows(c) -> Int] /\ Total(Exempt(c, s)) \in Int
  /\ Base(c, s) \in [Rows(c) -> Int] /\ Total(Base(c, s)) \in Int

LEMMA ColumnsTyped ==
  ASSUME NEW c, CartTypes(c), NEW s, RateTypes(s) PROVE ColumnTypes(c, s)
<1>1. IsFiniteSet(Rows(c))
  BY DEF CartTypes, Rows
<1>2. /\ Gross(c, s) \in [Rows(c) -> Int]
      /\ ScPwdOff(c, s) \in [Rows(c) -> Int]
      /\ PromoOff(c, s) \in [Rows(c) -> Int]
      /\ Exempt(c, s) \in [Rows(c) -> Int]
      /\ Base(c, s) \in [Rows(c) -> Int]
  BY RowsTyped DEF RowTypes, Gross, ScPwdOff, PromoOff, Exempt, Base
<1> QED BY <1>1, <1>2, SumType DEF ColumnTypes

(* The subtotal is what the lines sell at and what was taken off them.        *)
LEMMA GrossSplits ==
  ASSUME NEW c, CartTypes(c), NEW s, RateTypes(s)
  PROVE  Total(Gross(c, s)) =
           Total(Exempt(c, s)) + Total(Base(c, s)) + Total(ScPwdOff(c, s)) + Total(PromoOff(c, s))
<1> DEFINE R == Rows(c)
           net == [i \in R |-> Row(c, s, i).netC]
           off == [i \in R |-> ScPwdOff(c, s)[i] + PromoOff(c, s)[i]]
<1>1. \A i \in R : RowTypes(c, s, i)
  BY RowsTyped
<1>2. ColumnTypes(c, s)
  BY ColumnsTyped
<1>3. net \in [R -> Int] /\ off \in [R -> Int]
  BY <1>1, <1>2 DEF RowTypes, ColumnTypes
<1>4. AddsUp(R, Exempt(c, s), Base(c, s), net)
  BY <1>1 DEF AddsUp, Exempt, Base, RowTypes
<1>5. AddsUp(R, ScPwdOff(c, s), PromoOff(c, s), off)
  BY DEF AddsUp
<1>6. AddsUp(R, net, off, Gross(c, s))
  BY <1>1, <1>2 DEF AddsUp, Gross, RowTypes, ColumnTypes
<1> HIDE DEF R, net, off
<1>7. Total(net) = Total(Exempt(c, s)) + Total(Base(c, s))
  BY <1>2, <1>3, <1>4, SumPlus DEF ColumnTypes, R
<1>8. Total(off) = Total(ScPwdOff(c, s)) + Total(PromoOff(c, s))
  BY <1>2, <1>3, <1>5, SumPlus DEF ColumnTypes, R
<1>9. Total(Gross(c, s)) = Total(net) + Total(off)
  BY <1>2, <1>3, <1>6, SumPlus DEF ColumnTypes, R
<1> QED BY <1>2, <1>7, <1>8, <1>9 DEF ColumnTypes

(* The totals of a cart by its columns.                                       *)
OrderOff(c, s) == discountAmountC(c.orderDiscount, Total(Base(c, s)))
Discounted(c, s) == Total(Exempt(c, s)) + Total(Base(c, s)) - OrderOff(c, s)
Charge(c, s) == serviceChargeOn(Discounted(c, s), c, s)

LEMMA TotalsByColumn ==
  ASSUME NEW c, CartTypes(c), NEW s, RateTypes(s)
  PROVE  LET t == computeTotals(c, s)
             taxable == t.totalC - t.vatExemptSalesC
         IN /\ t.lines = [i \in Rows(c) |-> Row(c, s, i)]
            /\ Sum(t.lines, LAMBDA l : IF l.applied = "scpwd" THEN 0 ELSE l.netC) = Total(Base(c, s))
            /\ t.vatExemptSalesC = Total(Exempt(c, s))
            /\ t.subtotalC = Total(Gross(c, s)) /\ t.scPwdDiscountC = Total(ScPwdOff(c, s))
            /\ t.promoDiscountC = Total(PromoOff(c, s)) + OrderOff(c, s) /\ OrderOff(c, s) \in Int
            /\ t.serviceChargeC = Charge(c, s)
            /\ t.discountedSubtotalC = t.subtotalC - t.promoDiscountC - t.scPwdDiscountC
            /\ t.discountedSubtotalC = Discounted(c, s) /\ Discounted(c, s) \in Int
            /\ t.totalC = Discounted(c, s) + Charge(c, s) /\ Charge(c, s) \in Int
            /\ t.vatC = vatIncluded(taxable, s)
            /\ t.vatableSalesC = t.totalC - t.vatExemptSalesC - t.vatC
<1> DEFINE lines == [i \in Rows(c) |-> Row(c, s, i)]
           t == computeTotals(c, s)
<1>1. t = cartTotals(lines, c, s)
  BY DEF computeTotals, Row, Rows
<1>2. DOMAIN lines = Rows(c) /\ \A i \in Rows(c) : lines[i] = Row(c, s, i)
  OBVIOUS
<1> HIDE DEF lines
<1>3. Sum(lines, LAMBDA l : l.grossC) = Total(Gross(c, s))
  BY <1>2, Zenon DEF Sum, SumOf, Gross
<1>4. Sum(lines, LAMBDA l : IF l.applied = "scpwd" THEN l.scPwdDiscountC ELSE 0)
        = Total(ScPwdOff(c, s))
  BY <1>2, Zenon DEF Sum, SumOf, ScPwdOff, Goes
<1>5. Sum(lines, LAMBDA l : IF l.applied = "promo" THEN l.promoDiscountC ELSE 0)
        = Total(PromoOff(c, s))
  BY <1>2, Zenon DEF Sum, SumOf, PromoOff, Goes
<1>6. Sum(lines, LAMBDA l : IF l.applied = "scpwd" THEN l.netC ELSE 0) = Total(Exempt(c, s))
  BY <1>2, Zenon DEF Sum, SumOf, Exempt, Goes
<1>7. Sum(lines, LAMBDA l : IF l.applied = "scpwd" THEN 0 ELSE l.netC) = Total(Base(c, s))
  BY <1>2, Zenon DEF Sum, SumOf, Base, Goes
<1>8. /\ ColumnTypes(c, s) /\ OrderOff(c, s) \in Int
      /\ Total(Gross(c, s)) =
           Total(Exempt(c, s)) + Total(Base(c, s)) + Total(ScPwdOff(c, s)) + Total(PromoOff(c, s))
  <2>1. ColumnTypes(c, s)
    BY ColumnsTyped
  <2>2. c.orderDiscount = Null \/ Discount(c.orderDiscount)
    BY DEF CartTypes
  <2>3. OrderOff(c, s) \in Int
    BY <2>1, <2>2, DiscountWithinBase DEF OrderOff, ColumnTypes
  <2> QED BY <2>1, <2>3, GrossSplits
<1>9. Discounted(c, s) \in Int
  BY <1>8 DEF Discounted, ColumnTypes
<1>10. Charge(c, s) \in Int
  <2>1. Discounted(c, s) * s.serviceCharge \in Int /\ 10000 \in Positive
    BY <1>9 DEF RateTypes, Positive
  <2>2. mulRate(Discounted(c, s), s) \in Int
    BY <2>1, HalfUpDoubleNear DEF mulRate, Near
  <2> QED BY <2>2 DEF Charge, serviceChargeOn
<1>11. orderDiscountC(c, lines) = OrderOff(c, s)
  BY <1>7, Zenon DEF orderDiscountC, orderBaseC, OrderOff
<1>12. /\ t.lines = lines
       /\ t.vatExemptSalesC = Total(Exempt(c, s))
       /\ t.subtotalC = Total(Gross(c, s)) /\ t.scPwdDiscountC = Total(ScPwdOff(c, s))
       /\ t.promoDiscountC = Total(PromoOff(c, s)) + OrderOff(c, s)
       /\ t.discountedSubtotalC = t.subtotalC - t.promoDiscountC - t.scPwdDiscountC
       /\ t.serviceChargeC = serviceChargeOn(t.discountedSubtotalC, c, s)
       /\ t.discountedSubtotalC =
            Total(Gross(c, s)) - (Total(PromoOff(c, s)) + OrderOff(c, s)) - Total(ScPwdOff(c, s))
       /\ t.totalC = t.discountedSubtotalC + serviceChargeOn(t.discountedSubtotalC, c, s)
       /\ t.vatC = vatIncluded(t.totalC - t.vatExemptSalesC, s)
       /\ t.vatableSalesC = t.totalC - t.vatExemptSalesC - t.vatC
  <2> HIDE DEF t
  <2>1. t = cartTotals(lines, c, s)
    BY <1>1 DEF t
  <2> QED BY <2>1, <1>3, <1>4, <1>5, <1>6, <1>11, Zenon DEF cartTotals
<1>13. t.discountedSubtotalC = Discounted(c, s)
  BY <1>8, <1>12 DEF Discounted, ColumnTypes
<1>14. t.totalC = Discounted(c, s) + Charge(c, s)
  BY <1>12, <1>13 DEF Charge
<1>17. t.serviceChargeC = Charge(c, s)
  BY <1>12, <1>13 DEF Charge
<1>15. Sum(t.lines, LAMBDA l : IF l.applied = "scpwd" THEN 0 ELSE l.netC) = Total(Base(c, s))
  BY <1>7, <1>12, Zenon
<1>16. t.lines = [i \in Rows(c) |-> Row(c, s, i)]
  BY <1>12 DEF lines
<1> HIDE DEF t
<1> QED BY <1>8, <1>9, <1>10, <1>12, <1>13, <1>14, <1>15, <1>16, <1>17 DEF t

----------------------------------------------------------------------------
(* The carts a cashier can build                                             *)

Lines == [productId : {l.productId : l \in Offers}, variantId : {l.variantId : l \in Offers},
          milli : Nat, unitPriceC : Nat,
          modifiers : Seq(Int), cost : {Null} \cup Nat,
          discount : Discounts \cup {Null}, scPwdMarked : BOOLEAN]

Carts == [orderType : {"takeout", "dine_in"}, lines : Seq(Lines),
          orderDiscount : Discounts \cup {Null}, scPwd : BOOLEAN]

LEMMA LinesTyped == \A l \in Lines : LineTypes(l)
<1> SUFFICES ASSUME NEW l \in Lines PROVE LineTypes(l)
  OBVIOUS
<1>1. l.discount = Null \/ Discount(l.discount)
  BY DiscountsAssumption DEF Lines
<1> QED BY <1>1 DEF LineTypes, Lines

LEMMA CartsTyped == RateTypes(Rates) /\ \A c \in Carts : CartTypes(c)
<1> SUFFICES ASSUME NEW c \in Carts PROVE CartTypes(c)
  BY RatesAssumption
<1>1. IsFiniteSet(DOMAIN c.lines) /\ \A i \in DOMAIN c.lines : c.lines[i] \in Lines
  BY FS_Interval DEF Carts
<1>2. c.orderDiscount = Null \/ Discount(c.orderDiscount)
  BY DiscountsAssumption DEF Carts
<1> QED BY <1>1, <1>2, LinesTyped DEF CartTypes, Carts

(* An offer is a line, and an edit of a line is a line in which only that field *)
(* changed.                                                                  *)
SameOffer(e, l) ==
  e.milli = l.milli /\ e.unitPriceC = l.unitPriceC /\ e.modifiers = l.modifiers

LEMMA LineEdits ==
  /\ Offers \subseteq Lines
  /\ \A l \in Lines, d \in Discounts :
       LET e == [l EXCEPT !.discount = d]
       IN e \in Lines /\ SameOffer(e, l) /\ e.discount = d /\ e.scPwdMarked = l.scPwdMarked
  /\ \A l \in Lines :
       LET e == [l EXCEPT !.scPwdMarked = TRUE]
       IN e \in Lines /\ SameOffer(e, l) /\ e.discount = l.discount /\ e.scPwdMarked
<1>1. Offers \subseteq Lines
  BY OffersAssumption DEF Lines
<1>2. ASSUME NEW l \in Lines, NEW d \in Discounts
      PROVE  LET e == [l EXCEPT !.discount = d]
             IN e \in Lines /\ SameOffer(e, l) /\ e.discount = d /\ e.scPwdMarked = l.scPwdMarked
  BY DEF Lines, SameOffer
<1>3. ASSUME NEW l \in Lines
      PROVE  LET e == [l EXCEPT !.scPwdMarked = TRUE]
             IN e \in Lines /\ SameOffer(e, l) /\ e.discount = l.discount /\ e.scPwdMarked
  BY DEF Lines, SameOffer
<1> QED BY <1>1, <1>2, <1>3

(* The cart is one of these and carries the totals of the engine.             *)
CartInv == cart \in Carts /\ totals = computeTotals(cart, Rates)

(* What each edit makes of the cart: the lines it leaves alone stay as they are. *)
LEMMA CartEdits ==
  ASSUME NEW c \in Carts
  PROVE  /\ \A l \in Offers : [c EXCEPT !.lines = Append(@, l)] \in Carts
         /\ \A i \in DOMAIN c.lines, d \in Discounts : [c EXCEPT !.lines[i].discount = d] \in Carts
         /\ \A i \in DOMAIN c.lines : [c EXCEPT !.lines[i].scPwdMarked = TRUE] \in Carts
         /\ \A d \in Discounts : [c EXCEPT !.orderDiscount = d] \in Carts
         /\ [c EXCEPT !.scPwd = TRUE] \in Carts
         /\ [c EXCEPT !.orderType = "dine_in"] \in Carts
         /\ EmptyCart \in Carts
<1>1. c.lines \in Seq(Lines)
  BY DEF Carts
<1>2. \A l \in Offers : Append(c.lines, l) \in Seq(Lines)
  BY <1>1, LineEdits
<1>3. \A i \in DOMAIN c.lines, e \in Lines : [c.lines EXCEPT ![i] = e] \in Seq(Lines)
  BY <1>1
<1>4. \A i \in DOMAIN c.lines : c.lines[i] \in Lines
  BY <1>1
<1>5. \A i \in DOMAIN c.lines, d \in Discounts :
        [c.lines EXCEPT ![i].discount = d] \in Seq(Lines)
  BY <1>3, <1>4, LineEdits
<1>6. \A i \in DOMAIN c.lines : [c.lines EXCEPT ![i].scPwdMarked = TRUE] \in Seq(Lines)
  BY <1>3, <1>4, LineEdits
<1>7. \A s \in Seq(Lines) : [c EXCEPT !.lines = s] \in Carts
  BY DEF Carts
<1>8. /\ \A d \in Discounts : [c EXCEPT !.orderDiscount = d] \in Carts
      /\ [c EXCEPT !.scPwd = TRUE] \in Carts
      /\ [c EXCEPT !.orderType = "dine_in"] \in Carts
  BY DEF Carts
<1>9. EmptyCart \in Carts
  BY DEF EmptyCart, Carts
<1> QED BY <1>2, <1>5, <1>6, <1>7, <1>8, <1>9

LEMMA CartAlwaysTotalled == DraftSpec => []CartInv
<1>1. EmptyDraft => CartInv
  BY DEF EmptyDraft, CartInv, EmptyCart, Carts
<1>2. ASSUME CartInv, [EditCart]_cartVars PROVE CartInv'
  <2>1. cart \in Carts
    BY <1>2 DEF CartInv
  <2>2. ASSUME NEW c \in Carts, Edited(c) PROVE CartInv'
    BY <2>2 DEF Edited, CartInv
  <2>3. CASE AddLine
    BY <2>1, <2>2, <2>3, CartEdits DEF AddLine
  <2>4. CASE \E i \in DOMAIN cart.lines, d \in Discounts : DiscountLine(i, d)
    BY <2>1, <2>2, <2>4, CartEdits DEF DiscountLine
  <2>5. CASE \E i \in DOMAIN cart.lines : MarkLine(i)
    BY <2>1, <2>2, <2>5, CartEdits DEF MarkLine
  <2>6. CASE \E d \in Discounts : DiscountOrder(d)
    BY <2>1, <2>2, <2>6, CartEdits DEF DiscountOrder
  <2>7. CASE EnterScPwd \/ DineIn \/ NewCart
    BY <2>1, <2>2, <2>7, CartEdits DEF EnterScPwd, DineIn, NewCart
  <2>8. CASE UNCHANGED cartVars
    BY <1>2, <2>8 DEF CartInv, cartVars
  <2> QED BY <1>2, <2>3, <2>4, <2>5, <2>6, <2>7, <2>8 DEF EditCart
<1> QED BY <1>1, <1>2, PTL DEF DraftSpec

----------------------------------------------------------------------------
(* What the receipt says                                                     *)

(* The VAT on a receipt is the VAT contained in the taxable part of the total, *)
(* to half a centavo, and the taxable sales, the VAT and the exempt sales make *)
(* the total: for every rate, every price and every cart (computeTotals).     *)
THEOREM ReceiptContainsItsVat == DraftSpec => []VatIsContained
<1>1. ASSUME CartInv PROVE VatIsContained
  <2> DEFINE taxable == totals.totalC - totals.vatExemptSalesC
  <2>1. /\ taxable \in Int /\ totals.vatC = vatIncluded(taxable, Rates)
        /\ totals.vatableSalesC = taxable - totals.vatC
    <3>1. cart \in Carts /\ totals = computeTotals(cart, Rates) /\ ColumnTypes(cart, Rates)
      BY <1>1, CartsTyped, ColumnsTyped DEF CartInv
    <3>2. /\ totals.vatExemptSalesC = Total(Exempt(cart, Rates))
          /\ totals.totalC = Discounted(cart, Rates) + Charge(cart, Rates)
          /\ Discounted(cart, Rates) \in Int /\ Charge(cart, Rates) \in Int
          /\ totals.vatC = vatIncluded(taxable, Rates)
          /\ totals.vatableSalesC = totals.totalC - totals.vatExemptSalesC - totals.vatC
      <4> HIDE DEF CartInv
      <4> QED BY <3>1, CartsTyped, TotalsByColumn, Zenon
    <3>3. taxable \in Int /\ totals.vatableSalesC = taxable - totals.vatC
      BY <3>1, <3>2 DEF ColumnTypes
    <3> QED BY <3>2, <3>3
  <2>2. Near(totals.vatC, taxable * Rates.tax, 10000 + Rates.tax)
        /\ (taxable >= 0 => 0 <= totals.vatC /\ totals.vatC <= taxable)
    BY <2>1, VatIsInside, CartsTyped DEF RateTypes
  <2> DEFINE v == totals.vatC
             e == v * (10000 + Rates.tax) - taxable * Rates.tax
  <2>3. /\ v \in Int /\ taxable \in Int /\ Rates.tax \in Nat
        /\ 2 * (10000 + Rates.tax) * v - 2 * (taxable * Rates.tax) <= 10000 + Rates.tax
        /\ 2 * (taxable * Rates.tax) - 2 * (10000 + Rates.tax) * v <= 10000 + Rates.tax
    BY <2>1, <2>2, CartsTyped DEF RateTypes, Near
  <2>4. /\ totals.vatableSalesC = taxable - v
        /\ taxable >= 0 => 0 <= v /\ v <= taxable
    BY <2>1, <2>2
  <2> DEFINE r == Rates.tax
  <2> HIDE DEF v, taxable, r
  <2>5. /\ v \in Int /\ taxable \in Int /\ r \in Nat
        /\ 2 * (10000 + r) * v - 2 * (taxable * r) <= 10000 + r
        /\ 2 * (taxable * r) - 2 * (10000 + r) * v <= 10000 + r
    BY <2>3 DEF r
  <2>6. /\ 2 * (v * (10000 + r) - taxable * r) <= 10000 + r
        /\ -2 * (v * (10000 + r) - taxable * r) <= 10000 + r
    BY <2>5
  <2>7. totals.vatableSalesC + v = taxable /\ (taxable >= 0 => v >= 0 /\ totals.vatableSalesC >= 0)
    BY <2>3, <2>4
  <2> QED BY <2>6, <2>7 DEF VatIsContained, v, taxable, r
<1> QED BY <1>1, CartAlwaysTotalled, PTL

LEMMA RowSellsAtTheBetter ==
  ASSUME NEW c \in Carts, NEW i \in Rows(c)
  PROVE  SellsAtTheBetter(c.lines[i], c, Rates, Row(c, Rates, i).grossC)
<1>1. LineTypes(c.lines[i]) /\ c.scPwd \in BOOLEAN
  BY LinesTyped DEF Carts, Rows
<1>2. Row(c, Rates, i).grossC = mulQtyPriceC(c.lines[i].milli, lineUnitWithModsC(c.lines[i]))
  BY DEF Row, lineTotals
<1>3. Row(c, Rates, i).grossC \in Int
  BY CartsTyped, RowsTyped DEF RowTypes
<1> QED BY <1>1, <1>2, <1>3, LineSellsAtTheBetter, CartsTyped DEF LineTypes, RateTypes

(* SC/PWD never stacks with another discount: a marked line sells at the better *)
(* of its two prices, and an order discount leaves what the SC/PWD lines sell  *)
(* at (computeTotals: `applied`, orderBaseC).                                *)
THEOREM NoCartStacksDiscounts == DraftSpec => []DiscountsNeverStack
<1>1. ASSUME CartInv PROVE DiscountsNeverStack
  <2>1. /\ cart \in Carts /\ ColumnTypes(cart, Rates)
        /\ totals.lines = [i \in Rows(cart) |-> Row(cart, Rates, i)]
        /\ Sum(totals.lines, LAMBDA l : IF l.applied = "scpwd" THEN 0 ELSE l.netC)
             = Total(Base(cart, Rates))
        /\ totals.vatExemptSalesC = Total(Exempt(cart, Rates))
        /\ totals.discountedSubtotalC = Discounted(cart, Rates)
    BY <1>1, CartsTyped, TotalsByColumn, ColumnsTyped DEF CartInv
  <2>2. ASSUME NEW i \in DOMAIN cart.lines
        PROVE  LET l == cart.lines[i]
                   t == totals.lines[i]
                   promoPrice == t.grossC - discountAmountC(l.discount, t.grossC)
                   scPwdPrice == pct(lessTax(t.grossC, Rates), 80)
                   marked == cart.scPwd /\ l.scPwdMarked
               IN t.grossC > 0 =>
                    /\ t.netC = IF marked THEN Min({promoPrice, scPwdPrice}) ELSE promoPrice
                    /\ (t.applied = "scpwd") <=>
                         (marked /\ scPwdPrice <= promoPrice /\ scPwdPrice < t.grossC)
    <3>1. totals.lines[i] = Row(cart, Rates, i)
      BY <2>1 DEF Rows
    <3>2. SellsAtTheBetter(cart.lines[i], cart, Rates, Row(cart, Rates, i).grossC)
      BY <2>1, RowSellsAtTheBetter DEF Rows
    <3> QED BY <3>1, <3>2, Zenon DEF SellsAtTheBetter, Row
  <2>3. Discounted(cart, Rates) >= Total(Exempt(cart, Rates)) + Min({0, Total(Base(cart, Rates))})
    <3> DEFINE b == Total(Base(cart, Rates))
               off == OrderOff(cart, Rates)
    <3>1. b \in Int /\ Total(Exempt(cart, Rates)) \in Int
      BY <2>1 DEF ColumnTypes
    <3>2. off \in Nat /\ (b <= 0 => off = 0) /\ (b > 0 => off <= b)
      <4>1. cart.orderDiscount = Null \/ Discount(cart.orderDiscount)
        BY <2>1, DiscountsAssumption DEF Carts
      <4> QED BY <3>1, <4>1, DiscountWithinBase DEF OrderOff
    <3>3. Min({0, b}) = IF 0 <= b THEN 0 ELSE b
      BY <3>1, MinOfTwo
    <3>4. Discounted(cart, Rates) = Total(Exempt(cart, Rates)) + b - off
      BY DEF Discounted
    <3> HIDE DEF b, off
    <3>5. Discounted(cart, Rates) >= Total(Exempt(cart, Rates)) + Min({0, b})
      BY <3>1, <3>2, <3>3, <3>4
    <3> QED BY <3>5 DEF b
  <2> QED BY <2>1, <2>2, <2>3 DEF DiscountsNeverStack
<1> QED BY <1>1, CartAlwaysTotalled, PTL

----------------------------------------------------------------------------
(* A discount never raises the total                                         *)

(* A greater amount has no smaller nearest integer.                           *)
LEMMA NearMonotone ==
  ASSUME NEW n \in Int, NEW m \in Int, n < m, NEW d \in Positive,
         NEW r, Near(r, n, d), NEW q, Near(q, m, d)
  PROVE  r <= q
<1>1. r \in Int /\ q \in Int /\ d \in Int /\ d > 0
  BY DEF Near, Positive
<1>2. ASSUME r > q PROVE FALSE
  <2>1. d * r >= d * q + d
    BY <1>1, <1>2
  <2>2. 2 * (d * r) <= 2 * n + d /\ 2 * m - d <= 2 * (d * q)
    BY <1>1 DEF Near
  <2> QED BY <1>1, <2>1, <2>2
<1> QED BY <1>1, <1>2

(* The service charge grows with what it is charged on.                       *)
LEMMA ChargeMonotone ==
  ASSUME NEW a \in Int, NEW b \in Int, a <= b, NEW c, NEW e, c.orderType = e.orderType
  PROVE  a + serviceChargeOn(a, c, Rates) <= b + serviceChargeOn(b, e, Rates)
<1> DEFINE k == Rates.serviceCharge
           p == mulRate(a, Rates)
           q == mulRate(b, Rates)
<1>1. k \in Nat /\ a * k \in Int /\ b * k \in Int /\ 10000 \in Positive
  BY CartsTyped DEF RateTypes, Positive
<1>2. Near(p, a * k, 10000) /\ Near(q, b * k, 10000)
  BY <1>1, HalfUpDoubleNear DEF mulRate
<1>3. p \in Int /\ q \in Int
  BY <1>2 DEF Near
<1>4. p <= q
  <2>1. CASE a = b
    BY <1>3, <2>1
  <2>2. CASE k = 0
    <3>1. a * k = 0 /\ b * k = 0
      BY <2>2
    <3> HIDE DEF p, q, k
    <3>2. p = 0 /\ q = 0
      BY <1>1, <1>2, <1>3, <3>1 DEF Near
    <3> QED BY <3>2
  <2>3. CASE a < b /\ k > 0
    <3>1. a * k < b * k
      BY <1>1, <2>3
    <3> HIDE DEF p, q, k
    <3> QED BY <1>1, <1>2, <3>1, NearMonotone
  <2> QED BY <1>1, <2>1, <2>2, <2>3
<1> HIDE DEF k, p, q
<1>5. \/ serviceChargeOn(a, c, Rates) = 0 /\ serviceChargeOn(b, e, Rates) = 0
      \/ serviceChargeOn(a, c, Rates) = p /\ serviceChargeOn(b, e, Rates) = q
  BY DEF serviceChargeOn, p, q
<1> QED BY <1>3, <1>4, <1>5

(* A discount on more takes no less, and leaves no less.                      *)
LEMMA DiscountMonotone ==
  ASSUME NEW a \in Int, NEW b \in Int, a <= b, NEW d, d = Null \/ Discount(d)
  PROVE  /\ discountAmountC(d, a) <= discountAmountC(d, b)
         /\ a - discountAmountC(d, a) <= b - discountAmountC(d, b)
<1> DEFINE x == discountAmountC(d, a)
           y == discountAmountC(d, b)
<1>1. /\ x \in Nat /\ (a <= 0 => x = 0) /\ (a > 0 => x <= a)
      /\ y \in Nat /\ (b <= 0 => y = 0) /\ (b > 0 => y <= b)
  BY DiscountWithinBase
<1>2. CASE a <= 0 \/ d = Null \/ a = b
  <2>1. d = Null => x = 0 /\ y = 0
    BY DEF discountAmountC
  <2> HIDE DEF x, y
  <2>2. x <= y /\ a - x <= b - y
    <3>1. a = b => x = y
      BY DEF x, y
    <3> QED BY <1>1, <1>2, <2>1, <3>1
  <2> QED BY <2>2 DEF x, y
<1>3. CASE a > 0 /\ a < b /\ d # Null /\ d.kind # "percent"
  <2> DEFINE v == d.value
  <2>1. v \in Nat
    BY <1>3 DEF Discount
  <2>2. x = Min({v, a}) /\ y = Min({v, b})
    BY <1>3 DEF discountAmountC
  <2>3. /\ Min({v, a}) = IF v <= a THEN v ELSE a
        /\ Min({v, b}) = IF v <= b THEN v ELSE b
    BY <2>1, MinOfTwo
  <2> HIDE DEF v, x, y
  <2>4. x <= y /\ a - x <= b - y
    BY <1>3, <2>1, <2>2, <2>3
  <2> QED BY <2>4 DEF x, y
<1>4. CASE a > 0 /\ a < b /\ d # Null /\ d.kind = "percent"
  <2> DEFINE v == d.value
             s == pct(a, v)
             t == pct(b, v)
  <2>1. v \in Nat /\ v <= 100
    BY <1>4 DEF Discount
  <2>2. /\ a \in Nat /\ b \in Nat /\ 100 \in Positive
        /\ a * v \in Int /\ b * v \in Int /\ a * v <= b * v
    BY <1>4, <2>1 DEF Positive
  <2>3. Near(s, a * v, 100) /\ Near(t, b * v, 100)
    BY <2>2, HalfUpNear DEF pct
  <2>4. s \in Nat /\ s <= a /\ t \in Nat /\ t <= b
    BY <2>1, <2>2, PercentWithin
  <2>5. x = s /\ y = t
    <3>1. x = Min({s, a}) /\ y = Min({t, b})
      BY <1>4 DEF discountAmountC
    <3>2. Min({s, a}) = s /\ Min({t, b}) = t
      BY <2>4, MinOfTwo
    <3> QED BY <3>1, <3>2
  <2> HIDE DEF v, s, t, x, y
  <2>6. s <= t
    <3>1. CASE v = 0
      <4>1. a * v = 0
        BY <3>1
      <4>2. s = 0
        BY <2>3, <2>4, <4>1 DEF Near
      <4> QED BY <2>4, <4>2
    <3>2. CASE v > 0
      <4>1. a * v < b * v
        BY <1>4, <2>1, <2>2, <3>2
      <4> QED BY <2>2, <2>3, <4>1, NearMonotone
    <3> QED BY <2>1, <3>1, <3>2
  <2>7. t <= s + (b - a)
    <3> DEFINE u == s + (b - a)
               n == a * v + 100 * (b - a)
    <3>1. n \in Int /\ Near(u, n, 100)
      BY <2>2, <2>3, <2>4 DEF Near
    <3>2. CASE v = 100
      <4>1. a * v = 100 * a
        BY <3>2
      <4>2. s = a
        BY <2>2, <2>3, <2>4, <4>1 DEF Near
      <4> QED BY <2>2, <2>4, <4>2
    <3>3. CASE v < 100
      <4>1. b * v < n
        <5>1. (b - a) * v < (b - a) * 100
          BY <1>4, <2>1, <3>3
        <5> QED BY <2>1, <2>2, <5>1
      <4> HIDE DEF n, u
      <4>2. t <= u
        BY <2>2, <2>3, <3>1, <4>1, NearMonotone
      <4> QED BY <4>2 DEF u
    <3> QED BY <2>1, <3>2, <3>3
  <2>8. x <= y /\ a - x <= b - y
    BY <2>2, <2>4, <2>5, <2>6, <2>7
  <2> QED BY <2>8 DEF x, y
<1> QED BY <1>2, <1>3, <1>4

(* The gross of a row is that of its offer.                                   *)
LEMMA SameGross ==
  ASSUME NEW c, NEW e, NEW i, SameOffer(e.lines[i], c.lines[i])
  PROVE  Row(e, Rates, i).grossC = Row(c, Rates, i).grossC
<1>1. lineUnitWithModsC(e.lines[i]) = lineUnitWithModsC(c.lines[i])
  BY DEF SameOffer, lineUnitWithModsC
<1> QED BY <1>1 DEF SameOffer, Row, lineTotals

(* A line that is given a discount sells for no more; one that goes from SC/PWD *)
(* to its promo joins the base of the order discount with what it sells at.   *)
LEMMA DiscountedRow ==
  ASSUME NEW c \in Carts, NEW e \in Carts, NEW i \in Rows(c), i \in Rows(e),
         SameOffer(e.lines[i], c.lines[i]), c.lines[i].discount = Null,
         e.lines[i].scPwdMarked = c.lines[i].scPwdMarked, e.scPwd = c.scPwd
  PROVE  \/ Exempt(e, Rates)[i] = Exempt(c, Rates)[i] /\ Base(e, Rates)[i] <= Base(c, Rates)[i]
         \/ Base(c, Rates)[i] = 0 /\ Exempt(e, Rates)[i] = 0 /\ 0 <= Base(e, Rates)[i] /\ Base(e, Rates)[i] <= Exempt(c, Rates)[i]
<1> DEFINE g == Row(c, Rates, i).grossC
           low == pct(lessTax(g, Rates), 80)
           promo == discountAmountC(e.lines[i].discount, g)
           marked == c.scPwd /\ c.lines[i].scPwdMarked
           n == Row(c, Rates, i).netC
           m == Row(e, Rates, i).netC
<1>1. g \in Int /\ n \in Int /\ m \in Int /\ Row(e, Rates, i).grossC = g
  BY SameGross, CartsTyped, RowsTyped DEF RowTypes
<1>2. SellsAtTheBetter(c.lines[i], c, Rates, g) /\ SellsAtTheBetter(e.lines[i], e, Rates, g)
  BY <1>1, RowSellsAtTheBetter
<1>3. promo \in Nat /\ (g > 0 => promo <= g) /\ discountAmountC(c.lines[i].discount, g) = 0
  <2>1. e.lines[i].discount = Null \/ Discount(e.lines[i].discount)
    BY LinesTyped DEF LineTypes, Carts, Rows
  <2>2. promo \in Nat /\ (g > 0 => promo <= g)
    BY <1>1, <2>1, DiscountWithinBase
  <2> QED BY <2>2 DEF discountAmountC
<1>4. low \in Int
  <2>1. g * 10000 \in Int /\ 10000 + Rates.tax \in Positive
    BY <1>1, CartsTyped DEF RateTypes, Positive
  <2> DEFINE b == lessTax(g, Rates)
  <2>2. b \in Int
    BY <2>1, HalfUpDoubleNear DEF lessTax, Near
  <2> HIDE DEF b
  <2>3. b * 80 \in Int /\ 100 \in Positive
    BY <2>2 DEF Positive
  <2> QED BY <2>3, HalfUpNear DEF pct, Near, b
<1>5. /\ g <= 0 => n = g /\ Row(c, Rates, i).applied = Null
      /\ g > 0 => /\ n = IF marked THEN Min({g - 0, low}) ELSE g - 0
                  /\ (Row(c, Rates, i).applied = "scpwd") <=> (marked /\ low <= g - 0 /\ low < g)
                  /\ 0 <= n
  BY <1>2, <1>3 DEF SellsAtTheBetter, Row
<1>6. /\ g <= 0 => m = g /\ Row(e, Rates, i).applied = Null
      /\ g > 0 => /\ m = IF marked THEN Min({g - promo, low}) ELSE g - promo
                  /\ (Row(e, Rates, i).applied = "scpwd") <=> (marked /\ low <= g - promo /\ low < g)
                  /\ 0 <= m
  BY <1>2 DEF SellsAtTheBetter, Row
<1>7. /\ Exempt(c, Rates)[i] = IF Row(c, Rates, i).applied = "scpwd" THEN n ELSE 0
      /\ Base(c, Rates)[i] = IF Row(c, Rates, i).applied = "scpwd" THEN 0 ELSE n
      /\ Exempt(e, Rates)[i] = IF Row(e, Rates, i).applied = "scpwd" THEN m ELSE 0
      /\ Base(e, Rates)[i] = IF Row(e, Rates, i).applied = "scpwd" THEN 0 ELSE m
  BY DEF Exempt, Base, Goes
<1>8. /\ Min({g - promo, low}) = IF g - promo <= low THEN g - promo ELSE low
      /\ Min({g - 0, low}) = IF g - 0 <= low THEN g - 0 ELSE low
  BY <1>1, <1>3, <1>4, MinOfTwo
<1>9. marked \in BOOLEAN
  BY LinesTyped DEF LineTypes, Carts, Rows
<1> DEFINE before == Row(c, Rates, i).applied = "scpwd"
           after == Row(e, Rates, i).applied = "scpwd"
<1>10. g <= 0 => ~before /\ ~after
  BY <1>5, <1>6, NullAssumption
<1> HIDE DEF g, low, promo, marked, n, m
<1>11. CASE g <= 0
  <2>1. /\ Exempt(c, Rates)[i] = 0 /\ Base(c, Rates)[i] = n /\ Exempt(e, Rates)[i] = 0 /\ Base(e, Rates)[i] = m
        /\ n = g /\ m = g /\ g \in Int
    BY <1>1, <1>5, <1>6, <1>7, <1>10, <1>11
  <2> QED BY <2>1
<1>12. CASE g > 0 /\ ~marked
  BY <1>1, <1>3, <1>4, <1>5, <1>6, <1>7, <1>12
<1>13. CASE g > 0 /\ marked
  BY <1>1, <1>3, <1>4, <1>5, <1>6, <1>7, <1>8, <1>13
<1> QED BY <1>1, <1>9, <1>11, <1>12, <1>13

(* A line that SC/PWD is granted to sells for no more.                        *)
LEMMA ScPwdRow ==
  ASSUME NEW c \in Carts, NEW e \in Carts, NEW i \in Rows(c), i \in Rows(e),
         SameOffer(e.lines[i], c.lines[i]), e.lines[i].discount = c.lines[i].discount,
         c.scPwd /\ c.lines[i].scPwdMarked => e.scPwd /\ e.lines[i].scPwdMarked
  PROVE  Row(e, Rates, i).netC <= Row(c, Rates, i).netC
<1> DEFINE g == Row(c, Rates, i).grossC
           low == pct(lessTax(g, Rates), 80)
           price == g - discountAmountC(c.lines[i].discount, g)
           marked == c.scPwd /\ c.lines[i].scPwdMarked
           granted == e.scPwd /\ e.lines[i].scPwdMarked
           n == Row(c, Rates, i).netC
           m == Row(e, Rates, i).netC
<1>1. g \in Int /\ n \in Int /\ m \in Int /\ Row(e, Rates, i).grossC = g
  BY SameGross, CartsTyped, RowsTyped DEF RowTypes
<1>2. SellsAtTheBetter(c.lines[i], c, Rates, g) /\ SellsAtTheBetter(e.lines[i], e, Rates, g)
  BY <1>1, RowSellsAtTheBetter
<1>3. /\ g <= 0 => n = g /\ m = g
      /\ g > 0 => /\ n = IF marked THEN Min({price, low}) ELSE price
                  /\ m = IF granted THEN Min({price, low}) ELSE price
  BY <1>2 DEF SellsAtTheBetter, Row
<1>4. price \in Int
  <2>1. c.lines[i].discount = Null \/ Discount(c.lines[i].discount)
    BY LinesTyped DEF LineTypes, Carts, Rows
  <2> QED BY <1>1, <2>1, DiscountWithinBase
<1>5. low \in Int
  <2>1. g * 10000 \in Int /\ 10000 + Rates.tax \in Positive
    BY <1>1, CartsTyped DEF RateTypes, Positive
  <2> DEFINE b == lessTax(g, Rates)
  <2>2. b \in Int
    BY <2>1, HalfUpDoubleNear DEF lessTax, Near
  <2> HIDE DEF b
  <2>3. b * 80 \in Int /\ 100 \in Positive
    BY <2>2 DEF Positive
  <2> QED BY <2>3, HalfUpNear DEF pct, Near, b
<1>6. Min({price, low}) = IF price <= low THEN price ELSE low
  BY <1>4, <1>5, MinOfTwo
<1>7. marked \in BOOLEAN /\ granted \in BOOLEAN /\ (marked => granted)
  BY LinesTyped DEF LineTypes, Carts, Rows
<1> HIDE DEF g, low, price, marked, granted, n, m
<1>8. m <= n
  BY <1>1, <1>3, <1>4, <1>5, <1>6, <1>7
<1> QED BY <1>8 DEF m, n

(* Discounts that lower what a cart is charged on lower its total.            *)
LEMMA DiscountedGivesTotal ==
  ASSUME NEW c \in Carts, NEW e \in Carts, c.orderType = e.orderType,
         Discounted(e, Rates) <= Discounted(c, Rates)
  PROVE  computeTotals(e, Rates).totalC <= computeTotals(c, Rates).totalC
<1>1. /\ computeTotals(c, Rates).totalC = Discounted(c, Rates) + Charge(c, Rates) /\ Discounted(c, Rates) \in Int
      /\ computeTotals(e, Rates).totalC = Discounted(e, Rates) + Charge(e, Rates) /\ Discounted(e, Rates) \in Int
  BY CartsTyped, TotalsByColumn
<1>2. Discounted(e, Rates) + Charge(e, Rates) <= Discounted(c, Rates) + Charge(c, Rates)
  BY <1>1, ChargeMonotone DEF Charge
<1> QED BY <1>1, <1>2

LEMMA DiscountLineLowers ==
  ASSUME NEW c \in Carts, NEW i \in DOMAIN c.lines, c.lines[i].discount = Null,
         NEW d \in Discounts
  PROVE  LET e == [c EXCEPT !.lines[i].discount = d]
         IN computeTotals(e, Rates).totalC <= computeTotals(c, Rates).totalC
<1> DEFINE e == [c EXCEPT !.lines[i].discount = d]
           R == Rows(c)
<1>1. /\ e \in Carts /\ c.lines[i] \in Lines /\ i \in R
      /\ e.lines = [c.lines EXCEPT ![i].discount = d]
      /\ e.scPwd = c.scPwd /\ e.orderType = c.orderType /\ e.orderDiscount = c.orderDiscount
  <2>1. e \in Carts
    BY CartEdits
  <2>2. c.lines \in Seq(Lines) /\ e = [c EXCEPT !.lines = [c.lines EXCEPT ![i].discount = d]]
    BY DEF Carts
  <2>3. /\ e.lines = [c.lines EXCEPT ![i].discount = d]
        /\ e.scPwd = c.scPwd /\ e.orderType = c.orderType /\ e.orderDiscount = c.orderDiscount
    BY <2>2 DEF Carts
  <2> QED BY <2>1, <2>2, <2>3 DEF Rows
<1>2. /\ Rows(e) = R
      /\ e.lines[i] = [c.lines[i] EXCEPT !.discount = d]
      /\ \A j \in R \ {i} : e.lines[j] = c.lines[j]
  BY <1>1 DEF Rows, Carts
<1>3. SameOffer(e.lines[i], c.lines[i]) /\ e.lines[i].scPwdMarked = c.lines[i].scPwdMarked
  BY <1>1, <1>2, LineEdits
<1> HIDE DEF e, R
<1>4. /\ \A j \in R \ {i} : Exempt(e, Rates)[j] = Exempt(c, Rates)[j]
      /\ \A j \in R \ {i} : Base(e, Rates)[j] = Base(c, Rates)[j]
  <2>1. \A j \in R \ {i} : Row(e, Rates, j) = Row(c, Rates, j)
    <3>1. \A j \in R \ {i} : e.lines[j] = c.lines[j]
      BY <1>2
    <3> QED BY <1>1, <3>1 DEF Row, lineTotals, scPwdAmountC
  <2> QED BY <1>2, <2>1 DEF Exempt, Base, Goes, R
<1>5. /\ IsFiniteSet(R)
      /\ Exempt(c, Rates) \in [R -> Int] /\ Exempt(e, Rates) \in [R -> Int]
      /\ Base(c, Rates) \in [R -> Int] /\ Base(e, Rates) \in [R -> Int]
      /\ Total(Exempt(c, Rates)) \in Int /\ Total(Base(c, Rates)) \in Int
  BY <1>1, <1>2, CartsTyped, ColumnsTyped DEF ColumnTypes, R
<1>6. Total(Exempt(e, Rates)) = Total(Exempt(c, Rates)) + Exempt(e, Rates)[i] - Exempt(c, Rates)[i]
  BY <1>1, <1>4, <1>5, SumChange
<1>7. Total(Base(e, Rates)) = Total(Base(c, Rates)) + Base(e, Rates)[i] - Base(c, Rates)[i]
  BY <1>1, <1>4, <1>5, SumChange
<1>8. \/ Exempt(e, Rates)[i] = Exempt(c, Rates)[i] /\ Base(e, Rates)[i] <= Base(c, Rates)[i]
      \/ Base(c, Rates)[i] = 0 /\ Exempt(e, Rates)[i] = 0 /\ 0 <= Base(e, Rates)[i] /\ Base(e, Rates)[i] <= Exempt(c, Rates)[i]
  BY <1>1, <1>2, <1>3, DiscountedRow DEF R
<1>9. Discounted(e, Rates) <= Discounted(c, Rates)
  <2> DEFINE a == Total(Base(e, Rates))
             b == Total(Base(c, Rates))
             u == discountAmountC(c.orderDiscount, a)
             v == discountAmountC(c.orderDiscount, b)
  <2>1. /\ a \in Int /\ b \in Int
        /\ Exempt(e, Rates)[i] \in Int /\ Exempt(c, Rates)[i] \in Int /\ Base(e, Rates)[i] \in Int /\ Base(c, Rates)[i] \in Int
    BY <1>1, <1>5, <1>7
  <2>2. c.orderDiscount = Null \/ Discount(c.orderDiscount)
    BY DiscountsAssumption DEF Carts
  <2>3. u \in Int /\ v \in Int
    BY <2>1, <2>2, DiscountWithinBase
  <2>4. (a <= b => a - u <= b - v) /\ (b <= a => v <= u)
    BY <2>1, <2>2, DiscountMonotone
  <2>5. Discounted(e, Rates) = Total(Exempt(e, Rates)) + a - u /\ Discounted(c, Rates) = Total(Exempt(c, Rates)) + b - v
    BY <1>1 DEF Discounted, OrderOff
  <2>6. a = b + Base(e, Rates)[i] - Base(c, Rates)[i]
    BY <1>7
  <2> HIDE DEF a, b, u, v
  <2> QED BY <1>5, <1>6, <1>8, <2>1, <2>3, <2>4, <2>5, <2>6
<1>10. computeTotals(e, Rates).totalC <= computeTotals(c, Rates).totalC
  BY <1>1, <1>9, DiscountedGivesTotal
<1> QED BY <1>10 DEF e

LEMMA DiscountOrderLowers ==
  ASSUME NEW c \in Carts, c.orderDiscount = Null, NEW d \in Discounts
  PROVE  LET e == [c EXCEPT !.orderDiscount = d]
         IN computeTotals(e, Rates).totalC <= computeTotals(c, Rates).totalC
<1> DEFINE e == [c EXCEPT !.orderDiscount = d]
<1>1. /\ e \in Carts /\ e.lines = c.lines /\ e.scPwd = c.scPwd
      /\ e.orderType = c.orderType /\ e.orderDiscount = d
  BY CartEdits DEF Carts
<1> HIDE DEF e
<1>2. \A i \in Rows(c) : Row(e, Rates, i) = Row(c, Rates, i)
  BY <1>1 DEF Row, lineTotals, scPwdAmountC
<1>3. Exempt(e, Rates) = Exempt(c, Rates) /\ Base(e, Rates) = Base(c, Rates)
  BY <1>1, <1>2 DEF Exempt, Base, Goes, Rows
<1>4. Total(Exempt(c, Rates)) \in Int /\ Total(Base(c, Rates)) \in Int
  BY CartsTyped, ColumnsTyped DEF ColumnTypes
<1>5. OrderOff(c, Rates) = 0 /\ OrderOff(e, Rates) \in Nat
  <2>1. Discount(d)
    BY DiscountsAssumption
  <2>2. discountAmountC(d, Total(Base(c, Rates))) \in Nat
    BY <1>4, <2>1, DiscountWithinBase
  <2> QED BY <1>1, <1>3, <2>2 DEF OrderOff, discountAmountC
<1>6. Discounted(e, Rates) <= Discounted(c, Rates)
  BY <1>3, <1>4, <1>5 DEF Discounted
<1>7. computeTotals(e, Rates).totalC <= computeTotals(c, Rates).totalC
  BY <1>1, <1>6, DiscountedGivesTotal
<1> QED BY <1>7 DEF e

(* Without an order discount a cart is charged on the sum of its net prices.  *)
Net(c, s) == [i \in Rows(c) |-> Row(c, s, i).netC]

LEMMA ChargedOnNet ==
  ASSUME NEW c \in Carts, c.orderDiscount = Null
  PROVE  Net(c, Rates) \in [Rows(c) -> Int] /\ Discounted(c, Rates) = Total(Net(c, Rates))
<1>1. ColumnTypes(c, Rates) /\ \A i \in Rows(c) : RowTypes(c, Rates, i)
  BY CartsTyped, ColumnsTyped, RowsTyped
<1>2. Net(c, Rates) \in [Rows(c) -> Int]
  BY <1>1 DEF Net, RowTypes
<1>3. AddsUp(Rows(c), Exempt(c, Rates), Base(c, Rates), Net(c, Rates))
  BY <1>1 DEF AddsUp, Exempt, Base, Net, RowTypes
<1>4. Total(Net(c, Rates)) = Total(Exempt(c, Rates)) + Total(Base(c, Rates))
  BY <1>1, <1>2, <1>3, SumPlus DEF ColumnTypes
<1>5. OrderOff(c, Rates) = 0
  BY DEF OrderOff, discountAmountC
<1> QED BY <1>1, <1>2, <1>4, <1>5 DEF Discounted, ColumnTypes

LEMMA GrantScPwdLowers ==
  ASSUME NEW c \in Carts, NEW e \in Carts, Rows(e) = Rows(c),
         c.orderDiscount = Null, e.orderDiscount = Null, c.orderType = e.orderType,
         \A i \in Rows(c) :
           /\ SameOffer(e.lines[i], c.lines[i]) /\ e.lines[i].discount = c.lines[i].discount
           /\ c.scPwd /\ c.lines[i].scPwdMarked => e.scPwd /\ e.lines[i].scPwdMarked
  PROVE  computeTotals(e, Rates).totalC <= computeTotals(c, Rates).totalC
<1>1. \A i \in Rows(c) : Net(e, Rates)[i] <= Net(c, Rates)[i]
  BY ScPwdRow DEF Net
<1>2. /\ Net(e, Rates) \in [Rows(c) -> Int] /\ Net(c, Rates) \in [Rows(c) -> Int]
      /\ Discounted(e, Rates) = Total(Net(e, Rates)) /\ Discounted(c, Rates) = Total(Net(c, Rates))
  BY ChargedOnNet
<1>3. IsFiniteSet(Rows(c))
  BY CartsTyped, ColumnsTyped DEF ColumnTypes
<1>4. Total(Net(e, Rates)) <= Total(Net(c, Rates))
  BY <1>1, <1>2, <1>3, SumMonotone
<1>5. Discounted(e, Rates) <= Discounted(c, Rates)
  BY <1>2, <1>4
<1> QED BY <1>5, DiscountedGivesTotal

(* Giving a discount, to a line or to the order, never makes the customer pay  *)
(* more, and neither does SC/PWD where no order discount stands to shrink: the *)
(* whole of computeTotals with its roundings, for every cart and every rate.  *)
THEOREM DiscountsOnlyLower == DraftSpec => DiscountNeverRaisesTotal
<1> DEFINE Given == \/ LineDiscounted
                    \/ OrderDiscounted
                    \/ (ScPwdGranted /\ cart.orderDiscount = Null)
<1>1. ASSUME CartInv, CartInv', Given PROVE totals'.totalC <= totals.totalC
  <2>1. /\ cart \in Carts /\ totals = computeTotals(cart, Rates)
        /\ cart' \in Carts /\ totals' = computeTotals(cart', Rates)
    BY <1>1 DEF CartInv
  <2>2. CASE LineDiscounted
    <3>1. PICK i \in DOMAIN cart.lines, d \in Discounts : DiscountLine(i, d)
      BY <2>2 DEF LineDiscounted
    <3>2. cart.lines[i].discount = Null /\ cart' = [cart EXCEPT !.lines[i].discount = d]
      BY <3>1 DEF DiscountLine, Edited
    <3> QED BY <2>1, <3>2, DiscountLineLowers
  <2>3. CASE OrderDiscounted
    <3>1. PICK d \in Discounts : DiscountOrder(d)
      BY <2>3 DEF OrderDiscounted
    <3>2. cart.orderDiscount = Null /\ cart' = [cart EXCEPT !.orderDiscount = d]
      BY <3>1 DEF DiscountOrder, Edited
    <3> QED BY <2>1, <3>2, DiscountOrderLowers
  <2>4. CASE EnterScPwd /\ cart.orderDiscount = Null
    <3>1. ~cart.scPwd /\ cart' = [cart EXCEPT !.scPwd = TRUE]
      BY <2>4 DEF EnterScPwd, Edited
    <3>2. /\ cart'.lines = cart.lines /\ cart'.orderDiscount = cart.orderDiscount
          /\ cart'.orderType = cart.orderType
      BY <2>1, <3>1 DEF Carts
    <3>3. \A i \in Rows(cart) : SameOffer(cart'.lines[i], cart.lines[i])
      BY <3>2 DEF SameOffer
    <3> QED BY <2>1, <2>4, <3>1, <3>2, <3>3, GrantScPwdLowers DEF Rows
  <2>5. ASSUME NEW i \in DOMAIN cart.lines, MarkLine(i), cart.orderDiscount = Null
        PROVE  totals'.totalC <= totals.totalC
    <3>1. /\ ~cart.lines[i].scPwdMarked
          /\ cart' = [cart EXCEPT !.lines = [cart.lines EXCEPT ![i].scPwdMarked = TRUE]]
      BY <2>5 DEF MarkLine, Edited
    <3>2. /\ cart.lines \in Seq(Lines) /\ cart'.lines = [cart.lines EXCEPT ![i].scPwdMarked = TRUE]
          /\ cart'.orderDiscount = Null /\ cart'.orderType = cart.orderType
          /\ cart'.scPwd = cart.scPwd
      BY <2>1, <2>5, <3>1 DEF Carts
    <3>3. /\ Rows(cart') = Rows(cart) /\ cart.lines[i] \in Lines
          /\ cart'.lines[i] = [cart.lines[i] EXCEPT !.scPwdMarked = TRUE]
          /\ \A j \in Rows(cart) \ {i} : cart'.lines[j] = cart.lines[j]
      BY <3>2 DEF Rows
    <3>4. \A j \in Rows(cart) :
            /\ SameOffer(cart'.lines[j], cart.lines[j])
            /\ cart'.lines[j].discount = cart.lines[j].discount
            /\ cart.lines[j].scPwdMarked => cart'.lines[j].scPwdMarked
      <4>1. /\ SameOffer(cart'.lines[i], cart.lines[i])
            /\ cart'.lines[i].discount = cart.lines[i].discount
        BY <3>3, LineEdits
      <4>2. \A j \in Rows(cart) \ {i} : SameOffer(cart'.lines[j], cart.lines[j])
        BY <3>3 DEF SameOffer
      <4> QED BY <3>1, <3>3, <4>1, <4>2
    <3> QED BY <2>1, <2>5, <3>2, <3>3, <3>4, GrantScPwdLowers
  <2> QED BY <1>1, <2>2, <2>3, <2>4, <2>5 DEF ScPwdGranted
<1> QED BY <1>1, CartAlwaysTotalled, PTL DEF DiscountNeverRaisesTotal

----------------------------------------------------------------------------
(* Business days                                                             *)

(* Every instant lies in exactly the day it is bucketed into. *)
LEMMA BucketHolds ==
  ASSUME NEW t \in Int, NEW s \in DayStarts
  PROVE  /\ dayBucket(t, s) \in Int
         /\ businessDayStartUtc(dayBucket(t, s), s) <= t
         /\ t < businessDayStartUtc(dayBucket(t, s), s) + MinutesPerDay
BY DEF dayBucket, businessDayStartUtc, MANILA_OFFSET_MINUTES, MinutesPerDay, DayStarts

(* A report over first..last reaches exactly the sales whose day, by the SQL    *)
(* bucket, is one of first..last: no bucket of a report falls outside the days  *)
(* the heatmap zero-fills, and no sale of those days is missed.                 *)
THEOREM WindowIsItsDays ==
  ASSUME NEW t \in Int, NEW first \in Int, NEW last \in Int, NEW s \in DayStarts
  PROVE  InWindow(t, businessDayRangeUtc(first, last, s)) <=> dayBucket(t, s) \in first .. last
<1> DEFINE d == dayBucket(t, s)
<1>1. /\ d \in Int
      /\ d * 1440 + s - 480 <= t
      /\ t < d * 1440 + s - 480 + 1440
  BY BucketHolds DEF businessDayStartUtc, MANILA_OFFSET_MINUTES, MinutesPerDay
<1>2. s \in Int
  BY DEF DayStarts, MinutesPerDay
<1>3. InWindow(t, businessDayRangeUtc(first, last, s))
        <=> (first * 1440 + s - 480 <= t /\ t < last * 1440 + s - 480 + 1440)
  BY DEF InWindow, businessDayRangeUtc, businessDayStartUtc, MANILA_OFFSET_MINUTES, MinutesPerDay
<1> HIDE DEF d
<1>4. (first * 1440 + s - 480 <= t /\ t < last * 1440 + s - 480 + 1440) <=> (first <= d /\ d <= last)
  BY <1>1, <1>2
<1> QED
  BY <1>1, <1>3, <1>4 DEF d

(* A range is its days, each instant in one of them only: reporting day by day  *)
(* neither counts a sale twice nor drops one between two days.                  *)
COROLLARY RangeIsItsDays ==
  ASSUME NEW t \in Int, NEW first \in Int, NEW last \in Int, NEW s \in DayStarts
  PROVE  /\ InWindow(t, businessDayRangeUtc(first, last, s))
              <=> \E d \in first .. last : InWindow(t, businessDayRangeUtc(d, d, s))
         /\ \A d, e \in Int : /\ InWindow(t, businessDayRangeUtc(d, d, s))
                              /\ InWindow(t, businessDayRangeUtc(e, e, s))
                              => d = e
<1>1. \A d \in Int : InWindow(t, businessDayRangeUtc(d, d, s)) <=> dayBucket(t, s) = d
  <2> SUFFICES ASSUME NEW d \in Int
               PROVE  InWindow(t, businessDayRangeUtc(d, d, s)) <=> dayBucket(t, s) = d
    OBVIOUS
  <2>1. InWindow(t, businessDayRangeUtc(d, d, s)) <=> dayBucket(t, s) \in d .. d
    BY WindowIsItsDays
  <2> QED
    BY <2>1, BucketHolds
<1>2. InWindow(t, businessDayRangeUtc(first, last, s)) <=> dayBucket(t, s) \in first .. last
  BY WindowIsItsDays
<1> QED
  BY <1>1, <1>2, BucketHolds

(* The period a range is compared with is the same number of days, ending where *)
(* the range begins: the range of the dates just before it.                     *)
THEOREM PreviousIsJustBefore ==
  ASSUME NEW first \in Int, NEW last \in Int, NEW s \in DayStarts
  PROVE  previousPeriod(businessDayRangeUtc(first, last, s))
           = businessDayRangeUtc(2 * first - last - 1, first - 1, s)
<1>1. s \in Int
  BY DEF DayStarts, MinutesPerDay
<1> QED
  BY <1>1 DEF previousPeriod, businessDayRangeUtc, businessDayStartUtc, MANILA_OFFSET_MINUTES,
              MinutesPerDay

(* Moving a date by whole days lands on that date, whatever the day start.      *)
THEOREM DatesAddUp ==
  ASSUME NEW d \in Int, NEW n \in Int, NEW s \in DayStarts
  PROVE  /\ addDays(d, n) = d + n
         /\ businessDayOf(businessDayStartUtc(d, s), s) = d
<1>1. (d * 1440 + 0 - 480 + n * 1440 + (480 - 0)) \div 1440 = d + n
  OBVIOUS
<1>2. (d * 1440 + s - 480 + (480 - s)) \div 1440 = d
  BY DEF DayStarts, MinutesPerDay
<1> QED
  BY <1>1, <1>2 DEF addDays, businessDayOf, businessDayStartUtc, MANILA_OFFSET_MINUTES, MinutesPerDay

----------------------------------------------------------------------------
(* The server's clock                                                        *)

(* The least of finitely many instants is one of them.                        *)
LEMMA LeastIsOne ==
  ASSUME NEW S, IsFiniteSet(S), S \subseteq Int, S # {}
  PROVE  Min(S) \in S /\ \A x \in S : Min(S) <= x
<1> DEFINE Least(T) == T = {} \/ \E m \in T : \A x \in T : m <= x
           A == {T \in SUBSET S : Least(T)}
<1>1. {} \in A
  OBVIOUS
<1>2. ASSUME NEW T \in SUBSET S, NEW x \in S \ T, T \in A PROVE T \cup {x} \in A
  <2>1. CASE T = {}
    BY <2>1
  <2>2. CASE T # {}
    <3>1. PICK m \in T : \A y \in T : m <= y
      BY <1>2, <2>2
    <3>2. m \in Int /\ x \in Int /\ T \subseteq Int
      OBVIOUS
    <3>3. CASE m <= x
      BY <3>1, <3>3
    <3>4. CASE x <= m
      <4>1. \A y \in T : x <= y
        BY <3>1, <3>2, <3>4
      <4> QED BY <3>2, <4>1
    <3> QED BY <3>2, <3>3, <3>4
  <2> QED BY <2>1, <2>2
<1>3. S \in A
  <2> HIDE DEF A
  <2> QED BY <1>1, <1>2, AddInduction
<1>4. \E m \in S : \A x \in S : m <= x
  BY <1>3
<1> QED BY <1>4 DEF Min

LEMMA ClockShowsAnInstant ==
  /\ StartOfClock => now \in Instants
  /\ now \in Instants /\ ClockTicks => now' \in Instants
<1>1. /\ IsFiniteSet(Instants) /\ Instants \subseteq Int /\ Instants # {}
      /\ \A t \in Int : IsFiniteSet({u \in Instants : u > t})
  BY ScopeAssumption, FS_Subset
<1>2. StartOfClock => now \in Instants
  BY <1>1, LeastIsOne DEF StartOfClock
<1>3. ASSUME now \in Instants, ClockTicks PROVE now' \in Instants
  <2> DEFINE later == {u \in Instants : u > now}
  <2>1. later # {} /\ now' = Min(later) /\ later \subseteq Int /\ later \subseteq Instants /\ IsFiniteSet(later)
    BY <1>1, <1>3 DEF ClockTicks
  <2> HIDE DEF later
  <2> QED BY <2>1, LeastIsOne
<1> QED BY <1>2, <1>3

----------------------------------------------------------------------------
(* The scope of a query                                                      *)

Asks == [business : Businesses \cup {Null}, branch : Branches \cup {Null}, from : Int, to : Int]
Reached(q, br) == BusinessOf[br] \in chosen(q) /\ q.branch \in {Null, br}
InScope(q) == {b \in chosen(q) : branchesIn(q, b) # {}}
Scoped(q, b) ==
  LET w == businessDayRangeUtc(q.from, q.to, DayStart[b])
  IN [id |-> b, branchIds |-> branchesIn(q, b), window |-> w, previous |-> previousPeriod(w)]

(* Each business of a query is there once, with its own window.               *)
LEMMA ScopeIsEachOnce ==
  ASSUME NEW q \in Asks
  PROVE  /\ resolve(q) = {Scoped(q, b) : b \in InScope(q)}
         /\ InScope(q) \subseteq Businesses
         /\ IsFiniteSet(InScope(q)) /\ IsFiniteSet(resolve(q))
         /\ \A b \in resolve(q) : b = Scoped(q, b.id) /\ b.id \in InScope(q)
<1>1. resolve(q) = {Scoped(q, b) : b \in InScope(q)}
  BY DEF resolve, Scoped, InScope
<1>2. chosen(q) \subseteq Businesses
  <2>1. q.business \in Businesses \cup {Null}
    BY DEF Asks
  <2> QED BY <2>1 DEF chosen
<1> DEFINE B == {br \in Branches : Reached(q, br)}
           f == [br \in B |-> BusinessOf[br]]
           g == [b \in InScope(q) |-> Scoped(q, b)]
<1>3. IsFiniteSet(B)
  BY ScopeAssumption, FS_Subset
<1>4. InScope(q) = {f[br] : br \in B}
  BY DEF InScope, branchesIn, Reached
<1>5. IsFiniteSet(InScope(q))
  <2>1. DOMAIN f = B
    OBVIOUS
  <2> HIDE DEF f, B
  <2> QED BY <1>3, <1>4, <2>1, ImageFinite
<1>6. resolve(q) = {g[b] : b \in InScope(q)}
  <2>1. \A b \in InScope(q) : g[b] = Scoped(q, b)
    OBVIOUS
  <2> HIDE DEF g
  <2> QED BY <1>1, <2>1
<1>7. IsFiniteSet(resolve(q))
  <2> HIDE DEF g
  <2>1. DOMAIN g = InScope(q)
    BY DEF g
  <2> QED BY <1>5, <1>6, <2>1, ImageFinite
<1>8. \A b \in InScope(q) : Scoped(q, b).id = b
  BY DEF Scoped
<1> QED BY <1>1, <1>2, <1>5, <1>7, <1>8 DEF InScope

(* What happens at a branch is in a query's window when the branch is reached  *)
(* and the business's own day is one of the days the query names.             *)
LEMMA ScopeReaches ==
  ASSUME NEW q \in Asks, NEW br \in Branches, NEW t \in Int
  PROVE  LET biz == BusinessOf[br]
         IN /\ biz \in InScope(q) /\ br \in branchesIn(q, biz) <=> Reached(q, br)
            /\ \A b \in InScope(q) :
                 /\ br \in Scoped(q, b).branchIds <=> b = biz /\ Reached(q, br)
                 /\ InWindow(t, Scoped(q, b).window) <=> dayBucket(t, DayStart[b]) \in q.from .. q.to
<1>1. /\ q.from \in Int /\ q.to \in Int /\ chosen(q) \subseteq Businesses
      /\ \A b \in Businesses : DayStart[b] \in DayStarts
  BY ScopeAssumption DEF Asks, chosen
<1>2. \A b \in InScope(q) :
        InWindow(t, businessDayRangeUtc(q.from, q.to, DayStart[b]))
          <=> dayBucket(t, DayStart[b]) \in q.from .. q.to
  BY <1>1, WindowIsItsDays DEF InScope
<1>3. \A b \in InScope(q) : /\ Scoped(q, b).branchIds = branchesIn(q, b)
                            /\ Scoped(q, b).window = businessDayRangeUtc(q.from, q.to, DayStart[b])
  BY DEF Scoped
<1>4. \A b : br \in branchesIn(q, b) <=> b = BusinessOf[br] /\ q.branch \in {Null, br}
  BY DEF branchesIn
<1>5. BusinessOf[br] \in InScope(q) /\ br \in branchesIn(q, BusinessOf[br]) <=> Reached(q, br)
  BY <1>4 DEF InScope, Reached
<1>6. ASSUME NEW b \in InScope(q)
      PROVE  /\ br \in Scoped(q, b).branchIds <=> b = BusinessOf[br] /\ Reached(q, br)
             /\ InWindow(t, Scoped(q, b).window) <=> dayBucket(t, DayStart[b]) \in q.from .. q.to
  BY <1>2, <1>3, <1>4 DEF InScope, Reached
<1> QED BY <1>5, <1>6
=============================================================================
