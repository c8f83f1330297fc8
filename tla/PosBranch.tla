------------------------------ MODULE PosBranch ------------------------------
(***************************************************************************)
(* One branch: the sale, stock and shift requests of its terminals and of  *)
(* the portal, interleaved over one database.                              *)
(***************************************************************************)
EXTENDS PosStock, PosShifts

CONSTANT
  OneAtATime   \* TRUE: a terminal sends nothing while a request of its own runs

ASSUME SerialAssumption == OneAtATime \in BOOLEAN

vars == <<dbVars, postVars, revVars, stkVars, shiftOpVars>>

TypeOK == TableTypes /\ SalesTypes /\ StockTypes /\ ShiftOpTypes

Init == InitTables /\ InitSales /\ InitStock /\ InitShifts

(* Terminals with a request in the server.                                   *)
Busy ==
  {postDraft[p].terminal : p \in {q \in Posts : postPc[q] # "idle"}}
    \cup {revTerm[v] : v \in {w \in Reversals : revPc[w] # "idle"}}
    \cup {shTerm[x] : x \in {y \in ShiftOps : shPc[y] # "idle"}}

MaySend(t) == OneAtATime => t \notin Busy

PostNext ==
  /\ \E p \in Posts :
       \/ \E d \in Drafts : MaySend(d.terminal) /\ Submit(p, d)
       \/ PostStep(p) \/ Refuse(p) \/ AbortPost(p)
  /\ UNCHANGED <<stkVars, shiftOpVars>>

ReversalNext ==
  /\ \E v \in Reversals :
       \/ \E kind \in {"void", "refund"}, s \in SaleIds, t \in Terminals :
            MaySend(t) /\ BeginReversal(v, kind, s, t)
       \/ ReversalStep(v) \/ AbortReversal(v)
  /\ UNCHANGED <<stkVars, shiftOpVars>>

StockNext ==
  /\ \E w \in StockOps :
       \/ \E add \in Deliveries : BeginReceive(w, add)
       \/ \E k \in Keys, n \in Targets : BeginAdjust(w, k, n)
       \/ StockStep(w) \/ AbortStock(w)
  /\ UNCHANGED shiftOpVars

ShiftNext ==
  /\ \E x \in ShiftOps :
       \/ \E t \in Terminals :
            /\ MaySend(t)
            /\ CheckNoneOpen(x, t) \/ FindForCash(x, t) \/ FindForClose(x, t)
       \/ ShiftStep(x) \/ AbortShiftOp(x)
  /\ UNCHANGED stkVars

Next == PostNext \/ ReversalNext \/ StockNext \/ ShiftNext

Spec == Init /\ [][Next]_vars

----------------------------------------------------------------------------
(* Safety                                                                   *)

(* No interleaving of posts, reversals, deliveries and adjusts takes a level  *)
(* below zero: the conflict pass and the row locks of lockStock suffice, the *)
(* CHECK constraint of branch_stock is never what refuses a sale.           *)
NoOversell == \A k \in Keys : qty[k] >= 0 /\ (k \notin rows => qty[k] = 0)

(* However often a draft is sent, its sale takes stock once, and exactly what *)
(* the stored draft says (completeSale: "never double-posting").            *)
SalePostedOnce ==
  \A s \in SaleIds : \A k \in Keys :
    saleMoves[s][k] = IF Stored(s) THEN -saleDraft[s].want[k] ELSE 0

(* Voids and refunds racing on one sale give its stock back once in all, and *)
(* exactly what its sale movements took (restoreStock).                     *)
ReturnedOnce ==
  \A s \in SaleIds : \A k \in Keys :
    backMoves[s][k] = IF saleStatus[s] \in {"voided", "refunded"}
                        THEN -saleMoves[s][k] ELSE 0

(* What the sales that stand have taken is exactly what is missing from the  *)
(* shelf, whatever was voided, refunded, refused or rolled back meanwhile.   *)
Standing == {s \in SaleIds : saleStatus[s] = "completed"}
StockConserved ==
  \A k \in Keys :
    qty[k] + SumOf(Standing, LAMBDA s : saleDraft[s].want[k]) = OpeningQty[k]

(* The answer a client holds is right about the database: a created or        *)
(* replayed sale is stored; "receipt number already in use" means some other *)
(* sale has that receipt number or payment (the catch of P2002).             *)
AnswersTruthful ==
  \A p \in Posts :
    /\ postReply[p] \in {"created", "replay"} => Stored(postDraft[p].id)
    /\ postReply[p] = "receiptTaken" => Clashes(postDraft[p]) \ {postDraft[p].id} # {}

(* One id answers 201 to one request only (sales.controller.ts: "a first      *)
(* insert responds 201, a replay of the same draft responds 200").  Refuted   *)
(* by two copies of a draft: the second finds the sale under the row lock.   *)
OneCreated ==
  \A p, q \in Posts :
    p # q /\ postReply[p] = "created" /\ postReply[q] = "created"
      => postDraft[p].id # postDraft[q].id

(* receipt_seq is past the number of every receipt its terminal has stored,   *)
(* so a re-paired device continues with a fresh number (persist).           *)
ReceiptSeqAhead ==
  \A s \in SaleIds :
    Stored(s) => receiptSeq[saleDraft[s].terminal] > SeqOf[saleDraft[s].receipt]

(* The expected cash a close recorded is what the shift's sales, refunds and  *)
(* cash movements add up to, for good (ShiftsService.close).                 *)
ExpectedCashFinal ==
  \A h \in ShiftIds :
    shiftState[h] = "closed" =>
      expected[h] = drawer[h] + (CashOf(SoldIn(h)) - CashOf(RefundedIn(h)))

----------------------------------------------------------------------------
(* Action properties                                                        *)

(* Statuses are terminal: a voided or refunded sale never changes again, and  *)
(* a stored sale is never lost, re-keyed or rewritten.                       *)
StatusesTerminal ==
  [][\A s \in SaleIds :
       /\ saleStatus[s] \in {"voided", "refunded"} =>
            saleStatus'[s] = saleStatus[s] /\ refundShift'[s] = refundShift[s]
       /\ Stored(s) => saleStatus'[s] # "none" /\ saleDraft'[s] = saleDraft[s]]_vars

(* A 409 never counts against a draft what the sale of its own id took: when a  *)
(* post is told that stock is short although a sale of its id is stored by     *)
(* then, that sale took nothing from the rows the post had locked (persist,    *)
(* the second look under the lock).  A copy of a stored draft can only meet    *)
(* such a 409 on a level row created after it had locked.                     *)
ReplayNeverConflicts ==
  [][\A p \in Posts :
       LET s == postDraft[p].id
       IN  postReply'[p] = "conflict" /\ postReply[p] # "conflict" /\ Stored(s)
             => \A k \in postHeld[p] : saleDraft[s].want[k] = 0]_vars

(* The level of a key changes otherwise than its movements say.              *)
Drifts(k) == qty'[k] - movedQty'[k] # qty[k] - movedQty[k]

(* An adjust is about to overwrite a level that changed since it read it.    *)
StaleAdjust(k) ==
  \E w \in StockOps : /\ stkPc[w] = "write" /\ stkKind[w] = "adjust"
                      /\ k \in stkLines[w] /\ stkSeen[w][k] # qty[k]

(* The movements account for every change of a level, with one exception that  *)
(* the code accepts (adjust, "best-effort"): an adjust that overwrites a level *)
(* which changed since it was read.  Sales, reversals and deliveries, racing   *)
(* and retried as they may be, never part the two.                           *)
LedgerDriftsByAdjustOnly == [][\A k \in Keys : Drifts(k) => StaleAdjust(k)]_vars

(* A terminal sells, voids and charges refunds in its one open shift: a sale   *)
(* appears, turns voided, or has its refund charged to a shift, only while its *)
(* own shift is the one open shift of its terminal (completeSale, voidSale,   *)
(* refundSale, ShiftsService.open).                                          *)
SaleInOpenShift ==
  [][\A s \in SaleIds :
       (\/ ~Stored(s) /\ saleStatus'[s] # "none"
        \/ saleStatus[s] # "voided" /\ saleStatus'[s] = "voided"
        \/ refundShift'[s] # refundShift[s])
         => OpenShiftsOf(saleDraft'[s].terminal) = {saleDraft'[s].shift}]_vars

----------------------------------------------------------------------------
(* Refinement: with the requests, the locks, the shifts and the movement      *)
(* tables hidden, the handlers implement the book of sales.                  *)
Book == INSTANCE SaleBook
          WITH shelf <- qty, entry <- saleDraft, status <- saleStatus,
               charged <- refundShift

(* Every step of every interleaving is one whole entry, void, refund,         *)
(* restock or recount of the book, or leaves the book alone.                 *)
ImplementsSaleBook == Book!Spec

----------------------------------------------------------------------------
(* Without adjusts the level of a key is its opening level plus its movements: the  *)
(* canonical stock can be rebuilt from stock_movements (project-spec.md, section 5). *)
LedgerMatchesLevels == \A k \in Keys : qty[k] = OpeningQty[k] + movedQty[k]

(* The inductive strengthening of the safety properties above.               *)

InTx == {"locked", "looked", "cleared", "numbered"}

(* A refund is charged to the shift of its sale or to none (refundSale).     *)
RefundChargedToOwnShift ==
  \A s \in SaleIds :
    refundShift[s] # NoShift =>
      saleStatus[s] = "refunded" /\ refundShift[s] = saleDraft[s].shift

(* Row locks: held only inside a transaction, on existing rows, by one post. *)
LocksExclusive ==
  /\ \A p \in Posts :
       /\ postHeld[p] \subseteq rows
       /\ postPc[p] \notin InTx => postHeld[p] = {}
  /\ \A p, q \in Posts : p # q => postHeld[p] \cap postHeld[q] = {}

(* What the conflict pass granted is still there, and locked, at the commit. *)
GrantsStand ==
  \A p \in Posts :
    postPc[p] \in {"cleared", "numbered"} =>
      \A k \in Keys : postDraft[p].want[k] > 0 =>
        k \in postHeld[p] /\ postDraft[p].want[k] <= qty[k]

RequestsCarryDrafts == \A p \in Posts : postPc[p] # "idle" => postDraft[p] \in Drafts

SalesStoreDrafts ==
  \A s \in SaleIds : Stored(s) => saleDraft[s] \in Drafts /\ saleDraft[s].id = s

(* Between its second look and its conflict pass a post may see its id stored  *)
(* by another post: one that held none of the rows it holds itself.          *)
CopiesTakeElsewhere ==
  \A p \in Posts :
    LET s == postDraft[p].id
    IN  postPc[p] = "looked" /\ Stored(s) => \A k \in postHeld[p] : saleDraft[s].want[k] = 0

(* What made a post roll back is still stored when it looks for the reason.  *)
ClashesStand == \A p \in Posts : postPc[p] = "clashed" => Clashes(postDraft[p]) # {}

(* A reversal past its status test owns a sale that is still completed.      *)
SaleLocksExclusive ==
  /\ \A v \in Reversals :
       /\ HoldsSale(v) => saleStatus[revSale[v]] = "completed"
       /\ revPc[v] = "checked" =>
            revShift[v] \in {NoShift, saleDraft[revSale[v]].shift}
  /\ \A v, w \in Reversals :
       v # w /\ HoldsSale(v) /\ HoldsSale(w) => revSale[v] # revSale[w]

(* A delivery adds nothing to a key it has no line for; an adjust is about    *)
(* one key.                                                                 *)
StockLinesRight ==
  \A w \in StockOps :
    /\ \A k \in Keys \ stkLines[w] : stkAmount[w][k] = 0
    /\ stkKind[w] = "adjust" => \E k \in Keys : stkLines[w] = {k}

CoreInv ==
  /\ NoOversell /\ SalePostedOnce /\ ReturnedOnce /\ RefundChargedToOwnShift
  /\ AnswersTruthful /\ LocksExclusive /\ GrantsStand /\ RequestsCarryDrafts
  /\ SalesStoreDrafts /\ SaleLocksExclusive /\ CopiesTakeElsewhere /\ ClashesStand

IndInv == TypeOK /\ CoreInv /\ StockLinesRight

=============================================================================
