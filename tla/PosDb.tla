------------------------------- MODULE PosDb -------------------------------
(***************************************************************************)
(* The committed PostgreSQL state of one branch that the POS handlers      *)
(* share: stock levels, the stock movement ledger, sales, shifts and the   *)
(* receipt counters of the terminals (prisma/schema.prisma).               *)
(*                                                                         *)
(* A handler is a sequence of committed reads and transaction steps.  The  *)
(* variables below hold what is COMMITTED: a transaction's writes appear   *)
(* all at once, in the action that models its commit, because every other  *)
(* connection reads committed rows only and the rows the transaction has   *)
(* written stay locked until then.                                         *)
(***************************************************************************)
EXTENDS Integers, FiniteSets

CONSTANTS
  Keys,            \* branch_stock identities: product plus variant or none
  Products,        \* products of the business
  ProductOf,       \* the product of each key
  SaleIds,         \* client-generated sale UUIDs
  Receipts,        \* receipt numbers a terminal may print
  SeqOf,           \* the trailing number of each receipt number
  Payments,        \* client-generated payment UUIDs
  Terminals,       \* paired terminals of the branch
  ShiftIds,        \* shift UUIDs, each the name of one shift still to open
  TerminalOf,      \* the terminal that opens the shift of that name
  NoShift,         \* SQL NULL in a shift column
  Drafts,          \* the sale drafts clients send
  NoDraft,         \* "no sale stored under this id"
  OpeningQty,      \* committed level of each key at the start
  OpeningRows,     \* keys that have a branch_stock row at the start
  OpenAtStart      \* shifts already open at the start

(* What a draft carries that the handlers look at: `want' is the tracked    *)
(* quantity per key, `cash' the sale total when it is paid in cash, else 0. *)
Draft == [id : SaleIds, terminal : Terminals, shift : ShiftIds,
          receipt : Receipts, payment : Payments,
          want : [Keys -> Nat], cash : Nat]

ASSUME NonEmptyAssumption == SaleIds # {} /\ Terminals # {}
ASSUME FiniteAssumption == IsFiniteSet(SaleIds)   \* a UUID has 128 bits
ASSUME CatalogAssumption ==
  /\ ProductOf \in [Keys -> Products]
  /\ SeqOf \in [Receipts -> Nat]
ASSUME ShiftAssumption ==
  /\ TerminalOf \in [ShiftIds -> Terminals]
  /\ NoShift \notin ShiftIds
  /\ OpenAtStart \subseteq ShiftIds
ASSUME DraftAssumption ==
  /\ Drafts \subseteq Draft
  /\ NoDraft \notin Draft
ASSUME OpeningAssumption ==
  /\ OpeningQty \in [Keys -> Nat]
  /\ OpeningRows \subseteq Keys
  /\ \A k \in Keys \ OpeningRows : OpeningQty[k] = 0

VARIABLES
  rows,         \* keys that have a branch_stock row
  qty,          \* branch_stock.qty, 0 where there is no row
  movedQty,     \* sum of stock_movements.qty_delta per key, from the start
  saleDraft,    \* the stored draft of each sale, NoDraft when there is none
  saleStatus,   \* sales.status, "none" when there is no row
  refundShift,  \* sales.refund_shift_id
  saleMoves,    \* quantity of the type-sale movements with ref_id = the sale
  backMoves,    \* quantity of its type-void and type-refund movements
  shiftState,   \* "unused", "open" (closed_at IS NULL) or "closed"
  drawer,       \* opening_cash plus the signed cash movements of the shift
  expected,     \* shifts.expected_cash, as written by the last close
  receiptSeq    \* terminals.receipt_seq

stockVars == <<rows, qty, movedQty>>
saleVars  == <<saleDraft, saleStatus, refundShift, saleMoves, backMoves>>
shiftVars == <<shiftState, drawer, expected>>
dbVars    == <<stockVars, saleVars, shiftVars, receiptSeq>>

Statuses == {"none", "completed", "voided", "refunded"}
Zero     == [k \in Keys |-> 0]

(* `expected' holds a sum over sales and is left to the runs' other checks.  *)
TableTypes ==
  /\ rows \subseteq Keys
  /\ qty \in [Keys -> Int]
  /\ movedQty \in [Keys -> Int]
  /\ saleDraft \in [SaleIds -> Drafts \cup {NoDraft}]
  /\ saleStatus \in [SaleIds -> Statuses]
  /\ refundShift \in [SaleIds -> ShiftIds \cup {NoShift}]
  /\ saleMoves \in [SaleIds -> [Keys -> Int]]
  /\ backMoves \in [SaleIds -> [Keys -> Int]]
  /\ shiftState \in [ShiftIds -> {"unused", "open", "closed"}]
  /\ drawer \in [ShiftIds -> Int]
  /\ receiptSeq \in [Terminals -> Nat]

InitTables ==
  /\ rows = OpeningRows
  /\ qty = OpeningQty
  /\ movedQty = Zero
  /\ saleDraft = [s \in SaleIds |-> NoDraft]
  /\ saleStatus = [s \in SaleIds |-> "none"]
  /\ refundShift = [s \in SaleIds |-> NoShift]
  /\ saleMoves = [s \in SaleIds |-> Zero]
  /\ backMoves = [s \in SaleIds |-> Zero]
  /\ shiftState = [h \in ShiftIds |-> IF h \in OpenAtStart THEN "open" ELSE "unused"]
  /\ drawer = [h \in ShiftIds |-> 0]
  /\ expected = [h \in ShiftIds |-> 0]
  /\ receiptSeq = [t \in Terminals |-> 1]

----------------------------------------------------------------------------
(* Queries over the committed tables.                                       *)

Stored(s) == saleStatus[s] # "none"

(* findFirst({terminalId, closedAt: null}): any open shift of the terminal,  *)
(* NULL when there is none; the query has no ORDER BY.                      *)
OpenShiftsOf(t) == {h \in ShiftIds : TerminalOf[h] = t /\ shiftState[h] = "open"}
OpenShiftRead(t) == IF OpenShiftsOf(t) = {} THEN {NoShift} ELSE OpenShiftsOf(t)

(* A bug: the sale is upserted by its id instead of inserted.                *)
ClashesUpsert(d) ==
  {s \in SaleIds \ {d.id} :
     /\ Stored(s)
     /\ \/ saleDraft[s].terminal = d.terminal /\ saleDraft[s].receipt = d.receipt
        \/ saleDraft[s].payment = d.payment}

(* The unique constraints an insert of the draft would meet: sales.id,       *)
(* (terminal_id, receipt_no) and sale_payments.id.                          *)
Clashes(d) ==
  {s \in SaleIds :
     /\ Stored(s)
     /\ \/ s = d.id
        \/ saleDraft[s].terminal = d.terminal /\ saleDraft[s].receipt = d.receipt
        \/ saleDraft[s].payment = d.payment}

=============================================================================
