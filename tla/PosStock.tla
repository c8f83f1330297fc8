------------------------------ MODULE PosStock ------------------------------
(***************************************************************************)
(* StockService (src/portal/stock/stock.service.ts): receive and adjust,   *)
(* called by the portal and by the terminals (src/pos/stock).              *)
(***************************************************************************)
EXTENDS PosSales

CONSTANTS
  StockOps,     \* concurrent receive and adjust requests
  Deliveries,   \* quantities received per key, 0 for a key with no line
  Targets,      \* absolute quantities an adjust may set
  MaxQty        \* bound: a request starts only within it

ASSUME StockAssumption ==
  /\ Deliveries \subseteq [Keys -> Nat]
  /\ Targets \subseteq Nat
  /\ MaxQty \in Nat

VARIABLES
  stkPc,      \* "idle", "read" (reading levels) or "write"
  stkKind,    \* "receive" or "adjust"
  stkLines,   \* the keys it is about
  stkAmount,  \* quantity to add, or the absolute target
  stkRows,    \* keys it saw with a row
  stkSeen,    \* quantities it saw
  stkTry      \* attempts lost to a unique violation

stkVars == <<stkPc, stkKind, stkLines, stkAmount, stkRows, stkSeen, stkTry>>

MaxRetries == 2

StockTypes ==
  /\ stkPc \in [StockOps -> {"idle", "read", "write"}]
  /\ stkKind \in [StockOps -> {"receive", "adjust"}]
  /\ stkLines \in [StockOps -> SUBSET Keys]
  /\ stkAmount \in [StockOps -> [Keys -> Nat]]
  /\ stkRows \in [StockOps -> SUBSET Keys]
  /\ stkSeen \in [StockOps -> [Keys -> Int]]
  /\ stkTry \in [StockOps -> 0 .. MaxRetries]

InitStock ==
  /\ stkPc = [w \in StockOps |-> "idle"]
  /\ stkKind = [w \in StockOps |-> "receive"]
  /\ stkLines = [w \in StockOps |-> {}]
  /\ stkAmount = [w \in StockOps |-> Zero]
  /\ stkRows = [w \in StockOps |-> {}]
  /\ stkSeen = [w \in StockOps |-> Zero]
  /\ stkTry = [w \in StockOps |-> 0]

----------------------------------------------------------------------------
StkBegin(w, kind, lines, amount) ==
  /\ stkPc[w] = "idle"
  /\ \A k \in lines : amount[k] <= MaxQty /\ movedQty[k] \in -MaxQty .. MaxQty
  /\ stkPc' = [stkPc EXCEPT ![w] = "read"]
  /\ stkKind' = [stkKind EXCEPT ![w] = kind]
  /\ stkLines' = [stkLines EXCEPT ![w] = lines]
  /\ stkAmount' = [stkAmount EXCEPT ![w] = amount]
  /\ UNCHANGED <<stkRows, stkSeen, stkTry, postVars, revVars, dbVars>>

BeginReceive(w, add) ==
  /\ \A k \in Keys : qty[k] + add[k] <= MaxQty
  /\ StkBegin(w, "receive", {k \in Keys : add[k] > 0}, add)

BeginAdjust(w, k, n) == StkBegin(w, "adjust", {k}, [Zero EXCEPT ![k] = n])

StkLeave(w) ==
  /\ stkPc' = [stkPc EXCEPT ![w] = "idle"]
  /\ stkKind' = [stkKind EXCEPT ![w] = "receive"]
  /\ stkLines' = [stkLines EXCEPT ![w] = {}]
  /\ stkAmount' = [stkAmount EXCEPT ![w] = Zero]
  /\ stkRows' = [stkRows EXCEPT ![w] = {}]
  /\ stkSeen' = [stkSeen EXCEPT ![w] = Zero]
  /\ stkTry' = [stkTry EXCEPT ![w] = 0]

(* branchStock.findFirst of every line: committed reads, no lock.            *)
ReadLevels(w) ==
  /\ stkPc[w] = "read"
  /\ stkRows' = [stkRows EXCEPT ![w] = rows \cap stkLines[w]]
  /\ stkSeen' = [stkSeen EXCEPT ![w] = [k \in Keys |-> IF k \in stkLines[w] THEN qty[k] ELSE 0]]
  /\ stkPc' = [stkPc EXCEPT ![w] = "write"]
  /\ UNCHANGED <<stkKind, stkLines, stkAmount, stkTry, postVars, revVars, dbVars>>

(* It will create a row that another request has created since.              *)
Collides(w) == (stkLines[w] \ stkRows[w]) \cap rows # {}

(* withLevelCreateRetry: the whole transaction runs again, three times at    *)
(* most, then the violation is the answer.                                  *)
RetryStock(w) ==
  /\ stkPc[w] = "write"
  /\ Collides(w)
  /\ IF stkTry[w] < MaxRetries
       THEN /\ stkTry' = [stkTry EXCEPT ![w] = @ + 1]
            /\ stkPc' = [stkPc EXCEPT ![w] = "read"]
            /\ UNCHANGED <<stkKind, stkLines, stkAmount, stkRows, stkSeen>>
       ELSE StkLeave(w)
  /\ UNCHANGED <<postVars, revVars, dbVars>>

(* A bug: the write does not wait for a row lock.                            *)
StkWritesThrough(w) ==
  /\ stkPc[w] = "write"
  /\ ~Collides(w)
  /\ rows' = rows \cup stkLines[w]
  /\ StkLeave(w)
  /\ UNCHANGED <<saleVars, shiftVars, receiptSeq, postVars, revVars>>

StkWrites(w) ==
  /\ stkPc[w] = "write"
  /\ ~Collides(w)
  /\ Unlocked(stkLines[w])
  /\ rows' = rows \cup stkLines[w]
  /\ StkLeave(w)
  /\ UNCHANGED <<saleVars, shiftVars, receiptSeq, postVars, revVars>>

(* A bug: the new level is computed from the level read before.              *)
CommitReceiveLost(w) ==
  /\ stkKind[w] = "receive"
  /\ StkWrites(w)
  /\ qty' = [k \in Keys |-> IF k \in stkLines[w]
                              THEN stkSeen[w][k] + stkAmount[w][k] ELSE qty[k]]
  /\ movedQty' = [k \in Keys |-> movedQty[k] + stkAmount[w][k]]

(* qty = qty + n on the row as it is, or a row created with n.               *)
CommitReceive(w) ==
  /\ stkKind[w] = "receive"
  /\ StkWrites(w)
  /\ qty' = [k \in Keys |-> qty[k] + stkAmount[w][k]]
  /\ movedQty' = [k \in Keys |-> movedQty[k] + stkAmount[w][k]]

(* qty = newQty; the movement's delta comes from the quantity read before.   *)
CommitAdjust(w) ==
  /\ stkKind[w] = "adjust"
  /\ StkWrites(w)
  /\ qty' = [k \in Keys |-> IF k \in stkLines[w] THEN stkAmount[w][k] ELSE qty[k]]
  /\ movedQty' = [k \in Keys |->
                    IF k \in stkLines[w]
                      THEN movedQty[k] + stkAmount[w][k] - stkSeen[w][k]
                      ELSE movedQty[k]]

(* A failed validation, a crash, a timeout: nothing is written.              *)
AbortStock(w) ==
  /\ stkPc[w] # "idle"
  /\ StkLeave(w)
  /\ UNCHANGED <<postVars, revVars, dbVars>>

StockStep(w) ==
  ReadLevels(w) \/ RetryStock(w) \/ CommitReceive(w) \/ CommitAdjust(w)

=============================================================================
