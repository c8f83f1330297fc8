------------------------------ MODULE CartDraft ------------------------------
(* A cart as the terminal builds it, one edit at a time, and what the engine *)
(* says of it after each edit.  The edits are the terminal's; the server sees*)
(* the carts they lead to.                                                   *)
EXTENDS CartTotals

CONSTANTS Offers,     \* the undiscounted, unmarked lines a cashier can add
          Discounts,  \* the discounts a cashier can give
          Rates,      \* the business's rates
          MaxLines    \* bound on the lines of a cart

ASSUME OffersAssumption ==
  Offers \subseteq [productId : {l.productId : l \in Offers}, variantId : {l.variantId : l \in Offers},
                   milli : Nat, unitPriceC : Nat,
                   modifiers : Seq(Int), cost : {Null} \cup Nat,
                   discount : {Null}, scPwdMarked : {FALSE}]
ASSUME DiscountsAssumption == \A d \in Discounts : d # Null /\ Discount(d)
ASSUME RatesAssumption == RateTypes(Rates)

VARIABLES cart,    \* the cart of the draft
          totals   \* the totals the draft carries, which the server recomputes

cartVars == <<cart, totals>>

EmptyCart == [orderType |-> "takeout", lines |-> <<>>, orderDiscount |-> Null, scPwd |-> FALSE]

EmptyDraft == cart = EmptyCart /\ totals = computeTotals(EmptyCart, Rates)

Edited(c) == cart' = c /\ totals' = computeTotals(c, Rates)

AddLine == /\ Len(cart.lines) < MaxLines
           /\ \E l \in Offers : Edited([cart EXCEPT !.lines = Append(@, l)])

DiscountLine(i, d) == /\ cart.lines[i].discount = Null
                      /\ Edited([cart EXCEPT !.lines[i].discount = d])

MarkLine(i) == /\ ~cart.lines[i].scPwdMarked
               /\ Edited([cart EXCEPT !.lines[i].scPwdMarked = TRUE])

DiscountOrder(d) == /\ cart.orderDiscount = Null
                    /\ Edited([cart EXCEPT !.orderDiscount = d])

EnterScPwd == ~cart.scPwd /\ Edited([cart EXCEPT !.scPwd = TRUE])

DineIn == cart.orderType = "takeout" /\ Edited([cart EXCEPT !.orderType = "dine_in"])

NewCart == cart # EmptyCart /\ Edited(EmptyCart)

EditCart ==
  \/ AddLine
  \/ \E i \in DOMAIN cart.lines, d \in Discounts : DiscountLine(i, d)
  \/ \E i \in DOMAIN cart.lines : MarkLine(i)
  \/ \E d \in Discounts : DiscountOrder(d)
  \/ EnterScPwd
  \/ DineIn
  \/ NewCart

DraftSpec == EmptyDraft /\ [][EditCart]_cartVars

(* The SC/PWD price never stacks with another discount.  A line sells at the   *)
(* better of its promo price and, when it is marked on an SC/PWD sale, four    *)
(* fifths of its price without VAT, ties to SC/PWD (the choice of `applied').  *)
(* An order discount leaves what the SC/PWD lines sell at, unless lines priced *)
(* below zero had already undone it.                                          *)
DiscountsNeverStack ==
  /\ \A i \in DOMAIN cart.lines :
       LET l == cart.lines[i]
           t == totals.lines[i]
           promoPrice == t.grossC - discountAmountC(l.discount, t.grossC)
           scPwdPrice == pct(lessTax(t.grossC, Rates), 80)
           marked == cart.scPwd /\ l.scPwdMarked
       IN t.grossC > 0 =>
            /\ t.netC = IF marked THEN Min({promoPrice, scPwdPrice}) ELSE promoPrice
            /\ (t.applied = "scpwd") <=> (marked /\ scPwdPrice <= promoPrice /\ scPwdPrice < t.grossC)
  /\ LET rest == Sum(totals.lines, LAMBDA l : IF l.applied = "scpwd" THEN 0 ELSE l.netC)
     IN totals.discountedSubtotalC >= totals.vatExemptSalesC + Min({0, rest})

(* The VAT on the receipt is the VAT contained in the taxable part of the     *)
(* total, to the nearest centavo, and the three parts make the total.         *)
VatIsContained ==
  LET taxable == totals.totalC - totals.vatExemptSalesC
      error == totals.vatC * (10000 + Rates.tax) - taxable * Rates.tax
  IN /\ totals.vatableSalesC + totals.vatC = taxable
     /\ 2 * error <= 10000 + Rates.tax
     /\ -2 * error <= 10000 + Rates.tax
     /\ (taxable >= 0) => (totals.vatC >= 0 /\ totals.vatableSalesC >= 0)

LineDiscounted == \E i \in DOMAIN cart.lines, d \in Discounts : DiscountLine(i, d)
ScPwdGranted == EnterScPwd \/ \E i \in DOMAIN cart.lines : MarkLine(i)
OrderDiscounted == \E d \in Discounts : DiscountOrder(d)

(* Giving a discount never makes the customer pay more.  The one exception is *)
(* the code's own rule: a line that goes to SC/PWD leaves the base of an order *)
(* discount, so granting SC/PWD is only required to help without one.         *)
DiscountNeverRaisesTotal ==
  [][(\/ LineDiscounted
      \/ OrderDiscounted
      \/ (ScPwdGranted /\ cart.orderDiscount = Null)) => totals'.totalC <= totals.totalC]_cartVars
=============================================================================
