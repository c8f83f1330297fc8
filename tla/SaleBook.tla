------------------------------ MODULE SaleBook ------------------------------
(***************************************************************************)
(* What the sale handlers promise, without requests, locks or shifts       *)
(* (pos-spec.md, sections 5, 7 and 9): a shelf that never goes below zero  *)
(* and a book of sales.  A sale is entered once, whole or not at all, with *)
(* its own receipt number and payment, and takes its goods off the shelf;  *)
(* it is reversed at most once, whole, and its goods come back.            *)
(***************************************************************************)
EXTENDS Integers

CONSTANTS Keys, SaleIds, Drafts, NoDraft, NoShift, OpeningQty

VARIABLES
  shelf,     \* quantity on the shelf per key
  entry,     \* the draft each sale was entered with
  status,    \* "none", "completed", "voided" or "refunded"
  charged    \* the shift a refund was charged to

bookVars == <<shelf, entry, status, charged>>

Init ==
  /\ shelf = OpeningQty
  /\ entry = [s \in SaleIds |-> NoDraft]
  /\ status = [s \in SaleIds |-> "none"]
  /\ charged = [s \in SaleIds |-> NoShift]

Distinct(d, s) ==
  /\ entry[s].payment # d.payment
  /\ entry[s].terminal # d.terminal \/ entry[s].receipt # d.receipt

Enter(d) ==
  /\ status[d.id] = "none"
  /\ \A s \in SaleIds : status[s] # "none" => Distinct(d, s)
  /\ \A k \in Keys : d.want[k] <= shelf[k]
  /\ shelf' = [k \in Keys |-> shelf[k] - d.want[k]]
  /\ entry' = [entry EXCEPT ![d.id] = d]
  /\ status' = [status EXCEPT ![d.id] = "completed"]
  /\ UNCHANGED charged

GoodsBack(s) ==
  /\ status[s] = "completed"
  /\ shelf' = [k \in Keys |-> shelf[k] + entry[s].want[k]]
  /\ UNCHANGED entry

Void(s) ==
  /\ GoodsBack(s)
  /\ status' = [status EXCEPT ![s] = "voided"]
  /\ UNCHANGED charged

(* A refund is charged to the sale's own shift or to none.                   *)
Refund(s) ==
  /\ GoodsBack(s)
  /\ status' = [status EXCEPT ![s] = "refunded"]
  /\ charged' \in {[charged EXCEPT ![s] = h] : h \in {entry[s].shift, NoShift}}

Restock ==
  /\ shelf' \in [Keys -> Nat]
  /\ \A k \in Keys : shelf'[k] >= shelf[k]
  /\ UNCHANGED <<entry, status, charged>>

(* One key is counted and set to what the count found.                       *)
Recount(k) ==
  /\ shelf' \in [Keys -> Nat]
  /\ \A l \in Keys \ {k} : shelf'[l] = shelf[l]
  /\ UNCHANGED <<entry, status, charged>>

Next ==
  \/ \E d \in Drafts : Enter(d)
  \/ \E s \in SaleIds : Void(s) \/ Refund(s)
  \/ Restock
  \/ \E k \in Keys : Recount(k)

Spec == Init /\ [][Next]_bookVars
=============================================================================
