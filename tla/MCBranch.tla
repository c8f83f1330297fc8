------------------------------ MODULE MCBranch ------------------------------
(* Small instances of PosBranch.  Keys a and b are two products, b2 is a     *)
(* second variant of b's product.  Terminals t1 and t2 share the branch.     *)
EXTENDS PosBranch, TLC

CONSTANTS a, b, b2, t1, t2, s1, s2, h1, h2, p1, p2, v1, v2, w1, w2, x1, x2

SimpleProductOf == [k \in Keys |-> IF k = b2 THEN b ELSE k]
ReceiptNumber == [r \in Receipts |-> r]
ShiftTerminals == [h \in ShiftIds |-> IF h = h1 \/ t2 \notin Terminals THEN t1 ELSE t2]
OneTerminal == [h \in ShiftIds |-> t1]

Wants(qa, qb, qb2) ==
  [k \in Keys |-> IF k = a THEN qa ELSE IF k = b THEN qb ELSE qb2]

MkDraft(s, t, h, r, pay, want, cash) ==
  [id |-> s, terminal |-> t, shift |-> h, receipt |-> r, payment |-> pay,
   want |-> want, cash |-> cash]

(* Three of a are on the shelf: the two sales cannot both take two of them;  *)
(* the other drafts for s2 are corrections the client sends after a 409, for *)
(* a variant of the product s1 takes too, one with a payment id of s1's.     *)
OversellDrafts ==
  { MkDraft(s1, t1, h1, 1, 1, Wants(2, 1, 0), 2),
    MkDraft(s2, t2, h2, 1, 2, Wants(2, 0, 0), 1),
    MkDraft(s2, t2, h2, 1, 1, Wants(0, 0, 1), 1),
    MkDraft(s2, t2, h2, 1, 2, Wants(0, 0, 1), 1) }
OversellQty == Wants(3, 1, 1)

(* Two sales on one terminal; one sale, of t1, that either terminal reverses. *)
ShiftDrafts ==
  { MkDraft(s1, t1, h1, 1, 1, Wants(1, 0, 0), 2),
    MkDraft(s2, t1, h1, 2, 2, Wants(0, 1, 0), 1) }
OneDraft == { MkDraft(s1, t1, h1, 1, 1, Wants(1, 0, 0), 2) }

(* Two shifts of one terminal, one after the other, a sale in each.          *)
SerialDrafts ==
  { MkDraft(s1, t1, h1, 1, 1, Wants(1, 0, 0), 2),
    MkDraft(s2, t1, h2, 2, 2, Wants(1, 0, 0), 1) }

(* Requests of one kind are interchangeable.                                 *)
Symmetric == Permutations({p1, p2}) \cup Permutations({v1, v2}) \cup Permutations({w1, w2})

CashOut == { -1 }
DeliverA == { Wants(1, 0, 0) }
OnlyA == Wants(1, 0, 0)
OneEach == Wants(1, 1, 1)
Deliver == { Wants(1, 0, 0), Wants(1, 1, 0) }
NoneYet == Wants(0, 0, 0)
=============================================================================
