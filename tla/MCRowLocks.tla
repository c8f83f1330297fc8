----------------------------- MODULE MCRowLocks -----------------------------
(* A small instance of RowLocks.  Rows 1 and 2 exist at the start, 3 to 5 do  *)
(* not; 6 and 7 are sale ids, 8 is a terminal, 9 a stored sale.              *)
EXTENDS RowLocks

CONSTANTS r1, r2, r3

Post(keys, also) == [kind |-> "post", keys |-> keys, also |-> also]
Reversal(keys, s) == [kind |-> "reversal", keys |-> keys, also |-> {s}]
Receive(keys) == [kind |-> "receive", keys |-> keys, also |-> {}]
Adjust(k) == [kind |-> "adjust", keys |-> {k}, also |-> {}]

Carry(a, b, c) == [r \in Requests |-> IF r = r1 THEN a ELSE IF r = r2 THEN b ELSE c]

(* Two posts of one terminal and two voids of a sale of the same rows; posts  *)
(* with a common id and no common row against a delivery and an adjust;      *)
(* two posts with overlapping baskets and one delivery; levels not there yet. *)
SmallScenes ==
  { Carry({Post({1, 2}, {6, 8})}, {Reversal({1, 2}, 9), Post({2}, {7, 8})},
          {Reversal({1, 2}, 9)}),
    Carry({Post({1}, {6, 8})}, {Post({2}, {6, 7, 8})}, {Receive({1, 2}), Adjust(1)}),
    Carry({Post({1, 2}, {6, 8})}, {Post({1, 2, 3}, {7, 8})}, {Receive({1, 2, 3})}),
    Carry({Receive({3, 4, 5})}, {Adjust(3), Adjust(4)}, {Adjust(5), Receive({4, 5})}) }
=============================================================================
