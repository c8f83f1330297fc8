------------------------------ MODULE MCReports ------------------------------
(* One owner with a midnight retailer of two branches, an 04:00 cafe and the   *)
(* demo business, over the last day of March, the night after it and the same  *)
(* weekday a week later.                                                       *)
EXTENDS ReportAgreement, TLC

CONSTANTS retail, cafe, demo, main, annex, bar, school, latte, bean, idle, tea, toy,
          small, large, drinks, goods, c10, off10, happy, late

AllBranches == {main, annex, bar, school}
Owning == (main :> retail) @@ (annex :> retail) @@ (bar :> cafe) @@ (school :> demo)
Starts == (retail :> 0) @@ (cafe :> 4 * 60) @@ (demo :> 0)

(* 12% VAT everywhere, a 10% service charge at the retailer's and the cafe's;  *)
(* amounts below 600 whose half centavo IEEE doubles lose at 12%.              *)
Vat(service) ==
  [tax |-> 1200, serviceCharge |-> service, serviceShort |-> {},
   baseShort |-> {14, 42, 70, 98, 126, 182, 210, 238, 266, 350, 378, 406, 434, 462, 490, 518, 546},
   vatShort |-> {14, 98, 126, 182, 210, 238, 266, 294, 350, 378, 406, 434, 462, 490, 518, 546, 574}]
RatesHere == (retail :> Vat(1000)) @@ (cafe :> Vat(1000)) @@ (demo :> Vat(0))

AllProducts == {latte, bean, idle, tea, toy}
Sellers == (latte :> retail) @@ (bean :> retail) @@ (idle :> retail) @@ (tea :> cafe) @@ (toy :> demo)
Categories == (latte :> drinks) @@ (bean :> goods) @@ (idle :> drinks) @@ (tea :> drinks) @@ (toy :> goods)
Costs == (latte :> 45) @@ (bean :> Null) @@ (tea :> 70) @@ (toy :> 5)

Named(id, kind, value) == [source |-> "named", discountId |-> id, kind |-> kind, value |-> value]
Free(kind, value) == [source |-> "free", discountId |-> Null, kind |-> kind, value |-> value]
Line(p, v, milli, price, modifiers, discount, marked) ==
  [productId |-> p, variantId |-> v, milli |-> milli, unitPriceC |-> price, modifiers |-> modifiers,
   cost |-> IF p = Null THEN Null ELSE Costs[p], discount |-> discount, scPwdMarked |-> marked]
Draft(type, lines, orderDiscount, scPwd, method) ==
  [orderType |-> type, lines |-> lines, orderDiscount |-> orderDiscount, scPwd |-> scPwd,
   method |-> method]

(* A senior's table: SC/PWD beats the promo on the first line and loses to it  *)
(* on the second, and an order discount on top.                                *)
Senior == Draft("dine_in",
                <<Line(latte, small, 1000, 116, <<10>>, Named(c10, "percent", 10), TRUE),
                  Line(bean, Null, 335, 250, <<>>, Named(c10, "percent", 50), TRUE)>>,
                Named(off10, "fixed", 10), TRUE, "cash")
OpenItem == Draft("takeout",
                  <<Line(Null, Null, 1000, 60, <<>>, Null, FALSE),
                    Line(latte, large, 1000, 116, <<>>, Free("percent", 10), FALSE)>>,
                  Null, FALSE, "card")
Pot == Draft("dine_in", <<Line(tea, Null, 1000, 210, <<>>, Null, FALSE)>>,
             Named(happy, "percent", 25), FALSE, "gcash")
OnTheHouse == Draft("takeout", <<Line(tea, Null, 1000, 30, <<>>, Null, FALSE)>>,
                    Free("fixed", 50), FALSE, "cash")
Training == Draft("none", <<Line(toy, Null, 2000, 40, <<>>, Null, FALSE)>>, Null, FALSE, "cash")
DraftsHere == (main :> {Senior}) @@ (annex :> {OpenItem})
                @@ (bar :> {Pot, OnTheHouse}) @@ (school :> {Training})

(* 31 March 2026, a Tuesday. *)
Day == 20543
Manila(date, hour, minute) == date * 1440 + hour * 60 + minute - 480
Minutes == {Manila(Day, 23, 59), Manila(Day + 1, 0, 0), Manila(Day + 1, 3, 59), Manila(Day + 1, 4, 0),
            Manila(Day + 8, 3, 30)}
Months == [d \in Day - 40 .. Day + 20 |-> IF d <= Day - 31 THEN Day - 58
                                          ELSE IF d <= Day THEN Day - 30 ELSE Day + 1]

Ask(b, br, first, last) == [business |-> b, branch |-> br, from |-> first, to |-> last]
Asked == {Ask(Null, Null, Day, Day), Ask(Null, Null, Day, Day + 1), Ask(Null, Null, Day + 1, Day + 8),
          Ask(retail, main, Day, Day + 1), Ask(cafe, Null, Day, Day + 1), Ask(demo, Null, Day, Day)}
=============================================================================
