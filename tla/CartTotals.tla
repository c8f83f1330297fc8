----------------------------- MODULE CartTotals -----------------------------
(* The totals engine: what computeTotals makes of a cart, and the sale row   *)
(* that buildSaleData makes of the totals.  Money is integer centavos,       *)
(* quantities are integer thousandths, and rates are ten-thousandths, the    *)
(* precision of the columns tax_rate and service_charge_rate.                *)
(*                                                                           *)
(* The engine computes in IEEE doubles and rounds with halfUp.  A double and *)
(* the exact quotient can round differently only on an exact half centavo,   *)
(* and only where a fractional rate takes part: 14 / 1.12 is                 *)
(* 12.499999999999998, which rounds to 12 and not to 13.  A record of rates  *)
(* therefore names the amounts whose half centavo the doubles lose.          *)
EXTENDS Sequences, Sums

CONSTANT Null

ASSUME NullAssumption == Null \notin {"promo", "scpwd"} \cup Int   \* null is no value

(* The rates of a business, and a draft as it passes validation, with money in *)
(* whole centavos and quantities in whole thousandths.  Discounts are stored as *)
(* they come (they are @Allow'd): these are the ones a cashier can give, up to *)
(* a hundred percent or an amount.                                            *)
RateTypes(s) == s.tax \in Nat /\ s.serviceCharge \in Nat
Discount(d) == \/ d.kind = "percent" /\ d.value \in 0 .. 100
               \/ d.kind = "fixed" /\ d.value \in Nat
LineTypes(l) ==
  /\ l.milli \in Nat /\ l.unitPriceC \in Nat /\ l.modifiers \in Seq(Int)
  /\ l.cost \in {Null} \cup Nat
  /\ l.discount = Null \/ Discount(l.discount)
  /\ l.scPwdMarked \in BOOLEAN
CartTypes(c) ==
  /\ IsFiniteSet(DOMAIN c.lines) /\ \A i \in DOMAIN c.lines : LineTypes(c.lines[i])
  /\ c.orderDiscount = Null \/ Discount(c.orderDiscount)
  /\ c.scPwd \in BOOLEAN

(* halfUp(n / d), half away from zero, for d > 0. *)
halfUp(n, d) == IF n >= 0 THEN (2 * n + d) \div (2 * d)
                          ELSE -((d - 2 * n) \div (2 * d))

(* The same quotient in doubles, for the amount c it is computed from: where *)
(* the double of an exact half falls below it, the half centavo is lost; -c  *)
(* loses the one that c loses.                                               *)
halfUpDouble(c, n, d, fallsShort) ==
  IF c \in fallsShort /\ n > 0 /\ (2 * n) % (2 * d) = d THEN n \div d
  ELSE IF -c \in fallsShort /\ n < 0 /\ (-2 * n) % (2 * d) = d THEN -((-n) \div d)
  ELSE halfUp(n, d)

pct(c, percent) == halfUp(c * percent, 100)
mulQtyPriceC(milli, unitPriceC) == halfUp(milli * unitPriceC, 1000)
mulRate(c, s) == halfUpDouble(c, c * s.serviceCharge, 10000, s.serviceShort)
lessTax(c, s) == halfUpDouble(c, c * 10000, 10000 + s.tax, s.baseShort)
vatOnTop(c, s) == halfUp(c * s.tax, 10000) \* mutant: VAT charged on top
vatIncluded(c, s) == IF s.tax = 0 THEN 0
                     ELSE halfUpDouble(c, c * s.tax, 10000 + s.tax, s.vatShort)

Sum(rows, f(_)) == SumOf(DOMAIN rows, LAMBDA i : f(rows[i]))

lineUnitWithModsC(line) == line.unitPriceC + Sum(line.modifiers, LAMBDA m : m)

(* A discount never exceeds what it is taken from, and takes nothing from a  *)
(* base that is not positive.                                                *)
discountAmountC(d, baseC) ==
  IF d = Null \/ baseC <= 0 THEN 0
  ELSE LET raw == IF d.kind = "percent" THEN pct(baseC, d.value) ELSE d.value
       IN Min({raw, baseC})

scPwdAmountC(line, cart, grossC, s) ==
  IF cart.scPwd /\ line.scPwdMarked THEN grossC - pct(lessTax(grossC, s), 80) ELSE 0

appliedTieToPromo(promoC, scPwdC) == \* mutant: a tie goes to the promo
  IF promoC <= 0 /\ scPwdC <= 0 THEN Null
  ELSE IF scPwdC > promoC THEN "scpwd" ELSE "promo"
appliedPromoFirst(promoC, scPwdC) == \* mutant: a promo wins whatever it is worth
  IF promoC > 0 THEN "promo" ELSE IF scPwdC > 0 THEN "scpwd" ELSE Null

(* The higher of the two, never both; a tie goes to SC/PWD. *)
appliedTo(promoC, scPwdC) ==
  IF promoC <= 0 /\ scPwdC <= 0 THEN Null
  ELSE IF scPwdC >= promoC THEN "scpwd" ELSE "promo"

lineTotals(line, cart, s) ==
  LET grossC == mulQtyPriceC(line.milli, lineUnitWithModsC(line))
      promoC == discountAmountC(line.discount, grossC)
      scPwdC == scPwdAmountC(line, cart, grossC, s)
      applied == appliedTo(promoC, scPwdC)
      appliedC == CASE applied = "scpwd" -> scPwdC
                    [] applied = "promo" -> promoC
                    [] OTHER -> 0
  IN [grossC |-> grossC, promoDiscountC |-> promoC, scPwdDiscountC |-> scPwdC,
      applied |-> applied, netC |-> grossC - appliedC]

serviceChargeOn(discountedC, cart, s) ==
  IF cart.orderType = "dine_in" THEN mulRate(discountedC, s) ELSE 0

(* SC/PWD lines are already discounted: an order discount spares them. *)
orderBaseC(lines) == Sum(lines, LAMBDA l : IF l.applied = "scpwd" THEN 0 ELSE l.netC)
orderDiscountC(cart, lines) == discountAmountC(cart.orderDiscount, orderBaseC(lines))

cartTotals(lines, cart, s) ==
  LET taken(how, f(_)) == Sum(lines, LAMBDA l : IF l.applied = how THEN f(l) ELSE 0)
      subtotalC == Sum(lines, LAMBDA l : l.grossC)
      scPwdDiscountC == taken("scpwd", LAMBDA l : l.scPwdDiscountC)
      exemptC == taken("scpwd", LAMBDA l : l.netC)
      promoDiscountC == taken("promo", LAMBDA l : l.promoDiscountC) + orderDiscountC(cart, lines)
      discountedC == subtotalC - promoDiscountC - scPwdDiscountC
      serviceChargeC == serviceChargeOn(discountedC, cart, s)
      totalC == discountedC + serviceChargeC
      vatC == vatIncluded(totalC - exemptC, s)
  IN [lines |-> lines, subtotalC |-> subtotalC, promoDiscountC |-> promoDiscountC,
      scPwdDiscountC |-> scPwdDiscountC, discountedSubtotalC |-> discountedC,
      serviceChargeC |-> serviceChargeC, totalC |-> totalC, vatExemptSalesC |-> exemptC,
      vatC |-> vatC, vatableSalesC |-> totalC - exemptC - vatC]

computeTotals(cart, s) ==
  cartTotals([i \in DOMAIN cart.lines |-> lineTotals(cart.lines[i], cart, s)], cart, s)

namedId(d) == IF d # Null /\ d.source = "named" THEN d.discountId ELSE Null

saleItemAlwaysNamed(line, lt) == \* mutant: named although SC/PWD was applied
  [productId |-> line.productId, variantId |-> line.variantId, milli |-> line.milli,
   unitPrice |-> line.unitPriceC, modifiers |-> line.modifiers, costSnapshot |-> line.cost,
   discount |-> lt.grossC - lt.netC, discountId |-> namedId(line.discount)]
saleItem(line, lt) ==
  [productId |-> line.productId, variantId |-> line.variantId, milli |-> line.milli,
   unitPrice |-> line.unitPriceC, modifiers |-> line.modifiers, costSnapshot |-> line.cost,
   discount |-> lt.grossC - lt.netC,
   discountId |-> IF lt.applied = "promo" THEN namedId(line.discount) ELSE Null]

(* What the sale transaction writes for a draft whose totals were recomputed; *)
(* the stored draft carries those totals, and the payment is for the total.   *)
(* createdAt is the column's default.                                        *)
buildSaleData(draft, totals, branchId, createdAt) ==
  [branchId |-> branchId, orderType |-> draft.orderType, status |-> "completed",
   statusReason |-> Null, subtotal |-> totals.subtotalC,
   discount |-> totals.promoDiscountC, discountId |-> namedId(draft.orderDiscount),
   serviceCharge |-> totals.serviceChargeC, scPwd |-> draft.scPwd,
   scPwdDiscount |-> totals.scPwdDiscountC, vatExemptSales |-> totals.vatExemptSalesC,
   tax |-> totals.vatC, total |-> totals.totalC, draft |-> draft, draftTotals |-> totals,
   items |-> [i \in DOMAIN draft.lines |-> saleItem(draft.lines[i], totals.lines[i])],
   method |-> draft.method, amount |-> totals.totalC, createdAt |-> createdAt]
=============================================================================
