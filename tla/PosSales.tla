------------------------------ MODULE PosSales ------------------------------
(***************************************************************************)
(* SalesService (src/pos/sales/sales.service.ts): completeSale, voidSale   *)
(* and refundSale as concurrent requests over the tables of PosDb.         *)
(*                                                                         *)
(* A request is split where another request can get between two of its     *)
(* database accesses.  Reads through the scoped client see committed rows  *)
(* even inside a transaction (src/prisma/scoped-prisma.ts runs reads on    *)
(* the base client, only writes ride the registered transaction).  Row     *)
(* locks taken by SELECT ... FOR UPDATE are held until the request's last  *)
(* step; taking several of them is one step here, so a lock wait is seen   *)
(* and a lock cycle is not: those are RowLocks' subject.                   *)
(***************************************************************************)
EXTENDS PosDb

CONSTANTS
  Posts,       \* concurrent POST /pos/sales requests
  Reversals    \* concurrent POST /pos/sales/:id/void and /refund requests

VARIABLES
  postPc,      \* where a post is
  postDraft,   \* the draft it carries, the last one when it is idle
  postHeld,    \* branch_stock rows its transaction has locked
  postSeq,     \* terminals.receipt_seq as it read it
  postReply,   \* the answer to its last draft
  revPc,       \* where a reversal is
  revKind,     \* "void" or "refund"
  revSale,     \* the sale it reverses
  revTerm,     \* the terminal it comes from
  revShift     \* the shift it will charge: the sale's own open shift or NoShift

postVars == <<postPc, postDraft, postHeld, postSeq, postReply>>
revVars  == <<revPc, revKind, revSale, revTerm, revShift>>

PostPcs == {"idle", "fast", "shift", "tx", "locked", "looked", "cleared", "numbered",
            "clashed"}
Replies == {"none", "created", "replay", "shiftClosed", "invalid",
            "conflict", "receiptTaken", "error"}

(* What an idle reversal's sale and terminal read: any fixed ones.          *)
IdleSale == CHOOSE s \in SaleIds : TRUE
IdleTerm == CHOOSE t \in Terminals : TRUE

SalesTypes ==
  /\ postPc \in [Posts -> PostPcs]
  /\ postDraft \in [Posts -> Drafts \cup {NoDraft}]
  /\ postHeld \in [Posts -> SUBSET Keys]
  /\ postSeq \in [Posts -> Nat]
  /\ postReply \in [Posts -> Replies]
  /\ revPc \in [Reversals -> {"idle", "begin", "locked", "checked"}]
  /\ revKind \in [Reversals -> {"void", "refund"}]
  /\ revSale \in [Reversals -> SaleIds]
  /\ revTerm \in [Reversals -> Terminals]
  /\ revShift \in [Reversals -> ShiftIds \cup {NoShift}]

InitSales ==
  /\ postPc = [p \in Posts |-> "idle"]
  /\ postDraft = [p \in Posts |-> NoDraft]
  /\ postHeld = [p \in Posts |-> {}]
  /\ postSeq = [p \in Posts |-> 0]
  /\ postReply = [p \in Posts |-> "none"]
  /\ revPc = [v \in Reversals |-> "idle"]
  /\ revKind = [v \in Reversals |-> "void"]
  /\ revSale = [v \in Reversals |-> IdleSale]
  /\ revTerm = [v \in Reversals |-> IdleTerm]
  /\ revShift = [v \in Reversals |-> NoShift]

(* A row update waits for the posts that hold the row.                       *)
Unlocked(K) == \A p \in Posts : postHeld[p] \cap K = {}

----------------------------------------------------------------------------
(* completeSale                                                             *)

(* The request leaves: its transaction, if any, has ended.                   *)
Answer(p, reply) ==
  /\ postPc' = [postPc EXCEPT ![p] = "idle"]
  /\ postReply' = [postReply EXCEPT ![p] = reply]
  /\ postHeld' = [postHeld EXCEPT ![p] = {}]
  /\ postSeq' = [postSeq EXCEPT ![p] = 0]
  /\ UNCHANGED postDraft

Goto(p, pc) ==
  /\ postPc' = [postPc EXCEPT ![p] = pc]
  /\ UNCHANGED <<postDraft, postReply>>

(* The client sends a draft, or sends one again: an answer may be lost.      *)
Submit(p, d) ==
  /\ postPc[p] = "idle"
  /\ postPc' = [postPc EXCEPT ![p] = "fast"]
  /\ postDraft' = [postDraft EXCEPT ![p] = d]
  /\ postReply' = [postReply EXCEPT ![p] = "none"]
  /\ UNCHANGED <<postHeld, postSeq, revVars, dbVars>>

(* Idempotency fast path, outside any transaction.                           *)
FastPath(p) ==
  /\ postPc[p] = "fast"
  /\ IF Stored(postDraft[p].id)
       THEN Answer(p, "replay")
       ELSE Goto(p, "shift") /\ UNCHANGED <<postHeld, postSeq>>
  /\ UNCHANGED <<revVars, dbVars>>

(* The draft's shift must be the open shift of the terminal, as committed at *)
(* this moment; nothing holds the shift afterwards.                         *)
CheckShift(p) ==
  /\ postPc[p] = "shift"
  /\ \E h \in OpenShiftRead(postDraft[p].terminal) :
       IF h = postDraft[p].shift
         THEN Goto(p, "tx") /\ UNCHANGED <<postHeld, postSeq>>
         ELSE Answer(p, "shiftClosed")
  /\ UNCHANGED <<revVars, dbVars>>

(* Rates, lines, discounts, recomputed totals or payment refuse the draft:   *)
(* what they read (catalog, rates) changes under other requests.            *)
Refuse(p) ==
  /\ postPc[p] = "tx"
  /\ Answer(p, "invalid")
  /\ UNCHANGED <<revVars, dbVars>>

(* lockStock: every row of every product with a tracked line, FOR UPDATE.    *)
(* No tracked line, no lock.                                                *)
LockSet(d) ==
  {k \in rows : \E l \in Keys : d.want[l] > 0 /\ ProductOf[l] = ProductOf[k]}

(* A bug: the rows are read without FOR UPDATE.                              *)
LockStockPlain(p) ==
  /\ postPc[p] = "tx"
  /\ postHeld' = [postHeld EXCEPT ![p] = LockSet(postDraft[p])]
  /\ Goto(p, "locked")
  /\ UNCHANGED <<postSeq, revVars, dbVars>>

LockStock(p) ==
  /\ postPc[p] = "tx"
  /\ \A q \in Posts \ {p} : postHeld[q] \cap LockSet(postDraft[p]) = {}
  /\ postHeld' = [postHeld EXCEPT ![p] = LockSet(postDraft[p])]
  /\ Goto(p, "locked")
  /\ UNCHANGED <<postSeq, revVars, dbVars>>

(* What the locked rows offer; a key without one offers nothing.             *)
Available(p, k) == IF k \in postHeld[p] THEN qty[k] ELSE 0
Short(p) == \E k \in Keys : postDraft[p].want[k] > Available(p, k)

(* A bug: no second look, the fast path is trusted.                          *)
LookAgainSkipped(p) ==
  /\ postPc[p] = "locked"
  /\ Goto(p, "looked")
  /\ UNCHANGED <<postHeld, postSeq, revVars, dbVars>>

(* Under the lock, a committed read: a sale stored meanwhile is returned as if *)
(* this request had created it.                                             *)
LookAgain(p) ==
  /\ postPc[p] = "locked"
  /\ IF Stored(postDraft[p].id)
       THEN Answer(p, "created")
       ELSE Goto(p, "looked") /\ UNCHANGED <<postHeld, postSeq>>
  /\ UNCHANGED <<revVars, dbVars>>

(* Over the levels the lock read, before anything is written.  A draft of the  *)
(* same id that locked other rows may be stored between the two.             *)
ConflictPass(p) ==
  /\ postPc[p] = "looked"
  /\ IF Short(p)
       THEN Answer(p, "conflict")
       ELSE Goto(p, "cleared") /\ UNCHANGED <<postHeld, postSeq>>
  /\ UNCHANGED <<revVars, dbVars>>

(* terminal.findUnique on the transaction: a committed read, not a lock.     *)
ReadSeq(p) ==
  /\ postPc[p] = "cleared"
  /\ postSeq' = [postSeq EXCEPT ![p] = receiptSeq[postDraft[p].terminal]]
  /\ Goto(p, "numbered")
  /\ UNCHANGED <<postHeld, revVars, dbVars>>

(* A bug: the counter is set to the number just used.                        *)
NextSeqOffByOne(p) ==
  LET used == SeqOf[postDraft[p].receipt]
  IN  IF postSeq[p] >= used THEN postSeq[p] ELSE used

NextSeq(p) ==
  LET after == SeqOf[postDraft[p].receipt] + 1
  IN  IF postSeq[p] >= after THEN postSeq[p] ELSE after

(* A unique violation rolls the transaction back.                            *)
CommitClash(p) ==
  /\ postPc[p] = "numbered"
  /\ Clashes(postDraft[p]) # {}
  /\ postHeld' = [postHeld EXCEPT ![p] = {}]
  /\ postSeq' = [postSeq EXCEPT ![p] = 0]
  /\ Goto(p, "clashed")
  /\ UNCHANGED <<revVars, dbVars>>

(* A bug: every unique violation is taken for a replay.                      *)
ExplainClashReplay(p) ==
  /\ postPc[p] = "clashed"
  /\ Answer(p, "replay")
  /\ UNCHANGED <<revVars, dbVars>>

(* Later, outside any transaction, the handler looks the id up once more to   *)
(* tell a replay from a receipt number already in use.                       *)
ExplainClash(p) ==
  /\ postPc[p] = "clashed"
  /\ Answer(p, IF Stored(postDraft[p].id) THEN "replay" ELSE "receiptTaken")
  /\ UNCHANGED <<revVars, dbVars>>

(* Levels, sale, one movement per tracked line and the receipt counter.      *)
CommitSale(p) ==
  LET d == postDraft[p]
  IN  /\ postPc[p] = "numbered"
      /\ Clashes(d) = {}
      /\ qty' = [k \in Keys |-> qty[k] - d.want[k]]
      /\ movedQty' = [k \in Keys |-> movedQty[k] - d.want[k]]
      /\ saleDraft' = [saleDraft EXCEPT ![d.id] = d]
      /\ saleStatus' = [saleStatus EXCEPT ![d.id] = "completed"]
      /\ saleMoves' = [saleMoves EXCEPT ![d.id] = [k \in Keys |-> @[k] - d.want[k]]]
      /\ receiptSeq' = IF NextSeq(p) # postSeq[p]
                         THEN [receiptSeq EXCEPT ![d.terminal] = NextSeq(p)]
                         ELSE receiptSeq
      /\ Answer(p, "created")
      /\ UNCHANGED <<rows, refundShift, backMoves, shiftVars, revVars>>

(* A crash, a timeout or a lost connection before the commit rolls back.     *)
AbortPost(p) ==
  /\ postPc[p] # "idle"
  /\ Answer(p, "error")
  /\ UNCHANGED <<revVars, dbVars>>

----------------------------------------------------------------------------
(* voidSale and refundSale                                                  *)

RevGoto(v, pc) ==
  /\ revPc' = [revPc EXCEPT ![v] = pc]
  /\ UNCHANGED <<revKind, revSale, revTerm>>

RevLeave(v) ==
  /\ revPc' = [revPc EXCEPT ![v] = "idle"]
  /\ revKind' = [revKind EXCEPT ![v] = "void"]
  /\ revSale' = [revSale EXCEPT ![v] = IdleSale]
  /\ revTerm' = [revTerm EXCEPT ![v] = IdleTerm]
  /\ revShift' = [revShift EXCEPT ![v] = NoShift]

(* Reason given and, for a refund, PIN accepted: neither touches these tables. *)
BeginReversal(v, kind, s, t) ==
  /\ revPc[v] = "idle"
  /\ revPc' = [revPc EXCEPT ![v] = "begin"]
  /\ revKind' = [revKind EXCEPT ![v] = kind]
  /\ revSale' = [revSale EXCEPT ![v] = s]
  /\ revTerm' = [revTerm EXCEPT ![v] = t]
  /\ UNCHANGED <<revShift, postVars, dbVars>>

HoldsSale(v) == revPc[v] \in {"locked", "checked"}

(* A bug: the sale is read without FOR UPDATE.                               *)
LockSalePlain(v) ==
  /\ revPc[v] = "begin"
  /\ IF saleStatus[revSale[v]] = "completed"
       THEN RevGoto(v, "locked") /\ UNCHANGED revShift
       ELSE RevLeave(v)
  /\ UNCHANGED <<postVars, dbVars>>

(* lockSale FOR UPDATE, then the status test on the locked row.              *)
LockSale(v) ==
  /\ revPc[v] = "begin"
  /\ \A w \in Reversals \ {v} : HoldsSale(w) => revSale[w] # revSale[v]
  /\ IF saleStatus[revSale[v]] = "completed"
       THEN RevGoto(v, "locked") /\ UNCHANGED revShift
       ELSE RevLeave(v)
  /\ UNCHANGED <<postVars, dbVars>>

(* A bug: a refund charges the shift of its sale, open or not.               *)
ReadOpenShiftOwn(v) ==
  /\ revPc[v] = "locked"
  /\ \E h \in OpenShiftRead(revTerm[v]) :
       LET own == saleDraft[revSale[v]].shift
       IN  IF revKind[v] = "void" /\ h # own
             THEN RevLeave(v)
             ELSE /\ revShift' = [revShift EXCEPT ![v] = own]
                  /\ RevGoto(v, "checked")
  /\ UNCHANGED <<postVars, dbVars>>

(* The open shift of the requesting terminal, a committed read: a void needs *)
(* it to be the sale's shift, a refund charges it only then.                *)
ReadOpenShift(v) ==
  /\ revPc[v] = "locked"
  /\ \E h \in OpenShiftRead(revTerm[v]) :
       LET own == h = saleDraft[revSale[v]].shift
       IN  IF revKind[v] = "void" /\ ~own
             THEN RevLeave(v)
             ELSE /\ revShift' = [revShift EXCEPT ![v] = IF own THEN h ELSE NoShift]
                  /\ RevGoto(v, "checked")
  /\ UNCHANGED <<postVars, dbVars>>

(* A bug: the movement is repeated instead of mirrored on the levels.        *)
RestoreStockSign(s) ==
  LET moved == {k \in Keys : saleMoves[s][k] # 0}
  IN  /\ Unlocked(moved)
      /\ rows' = rows \cup moved
      /\ qty' = [k \in Keys |-> qty[k] + saleMoves[s][k]]
      /\ movedQty' = [k \in Keys |-> movedQty[k] - saleMoves[s][k]]
      /\ backMoves' = [backMoves EXCEPT ![s] = [k \in Keys |-> @[k] - saleMoves[s][k]]]

(* restoreStock: mirror the sale's own movements, never the draft.           *)
RestoreStock(s) ==
  LET moved == {k \in Keys : saleMoves[s][k] # 0}
  IN  /\ Unlocked(moved)
      /\ rows' = rows \cup moved
      /\ qty' = [k \in Keys |-> qty[k] - saleMoves[s][k]]
      /\ movedQty' = [k \in Keys |-> movedQty[k] - saleMoves[s][k]]
      /\ backMoves' = [backMoves EXCEPT ![s] = [k \in Keys |-> @[k] - saleMoves[s][k]]]

CommitVoid(v) ==
  /\ revPc[v] = "checked" /\ revKind[v] = "void"
  /\ saleStatus' = [saleStatus EXCEPT ![revSale[v]] = "voided"]
  /\ RestoreStock(revSale[v])
  /\ RevLeave(v)
  /\ UNCHANGED <<saleDraft, refundShift, saleMoves, shiftVars, receiptSeq, postVars>>

CommitRefund(v) ==
  /\ revPc[v] = "checked" /\ revKind[v] = "refund"
  /\ saleStatus' = [saleStatus EXCEPT ![revSale[v]] = "refunded"]
  /\ refundShift' = [refundShift EXCEPT ![revSale[v]] = revShift[v]]
  /\ RestoreStock(revSale[v])
  /\ RevLeave(v)
  /\ UNCHANGED <<saleDraft, saleMoves, shiftVars, receiptSeq, postVars>>

AbortReversal(v) ==
  /\ revPc[v] # "idle"
  /\ RevLeave(v)
  /\ UNCHANGED <<postVars, dbVars>>

----------------------------------------------------------------------------
(* What a post does once it has been sent; AbortPost may cut it short.       *)
PostStep(p) ==
  \/ FastPath(p) \/ CheckShift(p) \/ LockStock(p) \/ LookAgain(p) \/ ConflictPass(p)
  \/ ReadSeq(p) \/ CommitClash(p) \/ ExplainClash(p) \/ CommitSale(p)

ReversalStep(v) ==
  \/ LockSale(v) \/ ReadOpenShift(v) \/ CommitVoid(v) \/ CommitRefund(v)

=============================================================================
