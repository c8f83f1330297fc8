------------------------------- MODULE MCCart -------------------------------
(* Carts of up to two lines: an amount whose half centavo the doubles lose    *)
(* (14) and one whose half they keep (154), a weighed line, a modifier that   *)
(* lowers the price and one that takes a line below zero, and a line too      *)
(* cheap for any SC/PWD discount.  23 centavos is what SC/PWD takes off the   *)
(* weighed line: a tie.                                                       *)
EXTENDS CartDraft

Line(milli, unitPriceC, modifiers) ==
  [productId |-> Null, variantId |-> Null, milli |-> milli, unitPriceC |-> unitPriceC,
   modifiers |-> modifiers, cost |-> Null, discount |-> Null, scPwdMarked |-> FALSE]
SmallLines == {Line(1000, 14, <<>>), Line(500, 308, <<>>), Line(335, 250, <<-20, 10>>),
               Line(1000, 5, <<-9>>), Line(1000, 1, <<>>)}

Free(kind, value) == [source |-> "free", discountId |-> Null, kind |-> kind, value |-> value]
SmallDiscounts == {Free("percent", 50), Free("fixed", 23)}

(* 12% VAT and a 10% service charge.  The amounts below 400 whose half centavo *)
(* IEEE doubles lose at these rates: c / 1.12, then c * 0.12 / 1.12.           *)
PhRates == [tax |-> 1200, serviceCharge |-> 1000,
            baseShort |-> {14, 42, 70, 98, 126, 182, 210, 238, 266, 350, 378},
            vatShort |-> {14, 98, 126, 182, 210, 238, 266, 294, 350, 378},
            serviceShort |-> {}]
=============================================================================
