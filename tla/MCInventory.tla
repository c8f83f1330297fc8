----------------------------- MODULE MCInventory -----------------------------
(* One owner with a retailer that begins its day at midnight, a cafe that      *)
(* begins it at 04:00 and the demo business, over two days and a minute.       *)
EXTENDS InventoryAgreement, TLC

CONSTANTS retail, cafe, demo, main, bar, school, till, counter,
          latte, bean, tea, toy, small, large, damage, theft

AllBranches == {main, bar, school}
Owning == (main :> retail) @@ (bar :> cafe) @@ (school :> demo)
Starts == (retail :> 0) @@ (cafe :> 4 * 60) @@ (demo :> 0)
Paired == (till :> main) @@ (counter :> bar)

Sellers == (latte :> retail) @@ (bean :> retail) @@ (tea :> cafe) @@ (toy :> demo)
Sizes == (latte :> {small, large}) @@ (bean :> {}) @@ (tea :> {}) @@ (toy :> {})
Thresholds == (latte :> 500) @@ (bean :> Null) @@ (tea :> 200) @@ (toy :> 9000)
OnShelf == (<<main, latte, small>> :> 1000) @@ (<<main, bean, Null>> :> 700)
             @@ (<<bar, tea, Null>> :> 300) @@ (<<school, toy, Null>> :> 5000)
(* A large latte has no cost of its own and takes the product's; beans have    *)
(* none before a delivery names one.                                          *)
ProductCosts == (latte :> 45) @@ (bean :> Null) @@ (tea :> Null) @@ (toy :> 5)
VariantCosts == (small :> 31) @@ (large :> Null)

(* The till's shift opened the minute before; the counter has none yet.         *)
Opened == <<[terminal |-> till, branchId |-> main, openedAt |-> 20543 * 1440 + 958,
             closedAt |-> Null, expectedC |-> Null, closingC |-> Null]>>

Line(p, v, milli, cost) == [product |-> p, variant |-> v, milli |-> milli, unitCostC |-> cost]
Deliveries == (main :> {<<Line(latte, large, 550, Null), Line(bean, Null, 500, 83)>>})
                @@ (bar :> {<<Line(tea, Null, 150, Null)>>}) @@ (school :> {})

Count(p, v, newMilli, reason) ==
  [product |-> p, variant |-> v, newMilli |-> newMilli, reasonCategory |-> reason]
Counts == (main :> {Count(latte, small, 400, theft), Count(latte, large, 150, damage), Count(bean, Null, 335, damage)})
            @@ (bar :> {Count(tea, Null, 0, theft)}) @@ (school :> {})

Sold(p, v, milli, track) == [product |-> p, variant |-> v, milli |-> milli, trackStock |-> track]
Basket(lines, cashC) == [lines |-> lines, cashC |-> cashC]
Baskets == (till :> {Basket(<<Sold(latte, small, 250, TRUE), Sold(bean, Null, 400, TRUE),
                              Sold(latte, small, 500, TRUE)>>, 120),
                     Basket(<<Sold(bean, Null, 800, FALSE)>>, 90)})
             @@ (counter :> {Basket(<<Sold(tea, Null, 300, TRUE)>>, 60)})

(* 31 March 2026, a Tuesday. *)
Day == 20543
Manila(date, hour, minute) == date * 1440 + hour * 60 + minute - 480
Minutes == {Manila(Day, 23, 59), Manila(Day + 1, 3, 59), Manila(Day + 1, 23, 58), Manila(Day + 2, 0, 0)}
Uuids == <<3, 5, 1, 9, 6, 2, 7, 4, 8, 12, 10, 11>>

(* In doubles 0.7 * 45 is 31.499999999999996. *)
HalvesLost == {<<700, 45>>}

Ask(b, br, first, last) == [business |-> b, branch |-> br, from |-> first, to |-> last]
Asked == {Ask(Null, Null, Day, Day + 1), Ask(Null, Null, Day + 1, Day + 2), Ask(retail, main, Day + 1, Day + 1)}
WholeTime == [b \in {retail, cafe, demo} |-> Ask(b, Null, Day - 1, Day + 3)]
Everything == [type |-> Null, product |-> Null]
Narrowed == {Everything, [type |-> "sale", product |-> Null], [type |-> Null, product |-> bean]}
=============================================================================
