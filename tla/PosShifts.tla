------------------------------ MODULE PosShifts ------------------------------
(***************************************************************************)
(* ShiftsService (src/pos/shifts/shifts.service.ts): opening a shift,      *)
(* cash movements and the close with its Z report.  No handler holds a     *)
(* lock or a transaction over its reads: each one reads, then writes.      *)
(***************************************************************************)
EXTENDS PosSales, Sums

CONSTANTS
  ShiftOps,     \* concurrent shift requests
  Floats,       \* opening cash amounts
  CashMoves,    \* signed cash movements
  MaxDrawer     \* bound on what cash movements add up to

ASSUME CashAssumption ==
  /\ Floats \subseteq Nat
  /\ CashMoves \subseteq Int
  /\ MaxDrawer \in Nat

VARIABLES
  shPc,        \* where a shift request is
  shTerm,      \* its terminal
  shShift,     \* the shift it found open
  shDrawer,    \* opening cash and cash movements of that shift, as it read them
  shCash       \* cash sales, less cash refunds, as far as it has summed them

shiftOpVars == <<shPc, shTerm, shShift, shDrawer, shCash>>

ShiftOpTypes ==
  /\ shPc \in [ShiftOps -> {"idle", "open", "cash", "sold", "refunds", "close"}]
  /\ shTerm \in [ShiftOps -> Terminals]
  /\ shShift \in [ShiftOps -> ShiftIds \cup {NoShift}]
  /\ shDrawer \in [ShiftOps -> Int]

InitShifts ==
  /\ shPc = [x \in ShiftOps |-> "idle"]
  /\ shTerm = [x \in ShiftOps |-> IdleTerm]
  /\ shShift = [x \in ShiftOps |-> NoShift]
  /\ shDrawer = [x \in ShiftOps |-> 0]
  /\ shCash = [x \in ShiftOps |-> 0]

----------------------------------------------------------------------------
ShLeave(x) ==
  /\ shPc' = [shPc EXCEPT ![x] = "idle"]
  /\ shTerm' = [shTerm EXCEPT ![x] = IdleTerm]
  /\ shShift' = [shShift EXCEPT ![x] = NoShift]
  /\ shDrawer' = [shDrawer EXCEPT ![x] = 0]
  /\ shCash' = [shCash EXCEPT ![x] = 0]

(* A request that refuses at its first read changes nothing and is left out. *)
ShFound(x, t, h, pc) ==
  /\ shPc[x] = "idle"
  /\ shPc' = [shPc EXCEPT ![x] = pc]
  /\ shTerm' = [shTerm EXCEPT ![x] = t]
  /\ shShift' = [shShift EXCEPT ![x] = h]
  /\ UNCHANGED <<shCash, postVars, revVars, dbVars>>

(* A bug: a second shift may be opened over the first.                       *)
CheckNothing(x, t) ==
  /\ ShFound(x, t, NoShift, "open")
  /\ UNCHANGED shDrawer

(* open: no open shift of the terminal is committed at this moment ...       *)
CheckNoneOpen(x, t) ==
  /\ OpenShiftsOf(t) = {}
  /\ ShFound(x, t, NoShift, "open")
  /\ UNCHANGED shDrawer

(* ... then one is created; no unique index guards it.                       *)
CreateShift(x) ==
  /\ shPc[x] = "open"
  /\ \E h \in ShiftIds, c \in Floats :
       /\ shiftState[h] = "unused" /\ TerminalOf[h] = shTerm[x]
       /\ shiftState' = [shiftState EXCEPT ![h] = "open"]
       /\ drawer' = [drawer EXCEPT ![h] = c]
  /\ ShLeave(x)
  /\ UNCHANGED <<stockVars, saleVars, expected, receiptSeq, postVars, revVars>>

(* addCashMovement: find the open shift, then write through it by id.        *)
FindForCash(x, t) ==
  /\ \E h \in OpenShiftsOf(t) : ShFound(x, t, h, "cash")
  /\ UNCHANGED shDrawer

AddCash(x) ==
  /\ shPc[x] = "cash"
  /\ \E a \in CashMoves :
       /\ drawer[shShift[x]] + a \in -MaxDrawer .. MaxDrawer
       /\ drawer' = [drawer EXCEPT ![shShift[x]] = @ + a]
  /\ ShLeave(x)
  /\ UNCHANGED <<stockVars, saleVars, shiftState, expected, receiptSeq, postVars, revVars>>

(* close: the shift with its cash movements, ...                             *)
FindForClose(x, t) ==
  \E h \in OpenShiftsOf(t) :
    /\ ShFound(x, t, h, "sold")
    /\ shDrawer' = [shDrawer EXCEPT ![x] = drawer[h]]

CashOf(S) == SumOf(S, LAMBDA s : saleDraft[s].cash)

(* Every sale of the shift that is not voided counts as sold ...             *)
SoldIn(h) ==
  {s \in SaleIds : /\ saleStatus[s] \in {"completed", "refunded"}
                   /\ saleDraft[s].shift = h}

(* ... and every refund charged to the shift is taken off.                   *)
RefundedIn(h) == {s \in SaleIds : saleStatus[s] = "refunded" /\ refundShift[s] = h}

(* A bug: a refunded sale is not counted as sold, yet its refund is.         *)
ReadSoldCompleted(x) ==
  /\ shPc[x] = "sold"
  /\ shCash' = [shCash EXCEPT ![x] =
                  CashOf({s \in SoldIn(shShift[x]) : saleStatus[s] = "completed"})]
  /\ shPc' = [shPc EXCEPT ![x] = "refunds"]
  /\ UNCHANGED <<shTerm, shShift, shDrawer, postVars, revVars, dbVars>>

(* ... then its sales, ...                                                   *)
ReadSold(x) ==
  /\ shPc[x] = "sold"
  /\ shCash' = [shCash EXCEPT ![x] = CashOf(SoldIn(shShift[x]))]
  /\ shPc' = [shPc EXCEPT ![x] = "refunds"]
  /\ UNCHANGED <<shTerm, shShift, shDrawer, postVars, revVars, dbVars>>

(* ... then the refunds charged to it, ...                                   *)
ReadRefunds(x) ==
  /\ shPc[x] = "refunds"
  /\ shCash' = [shCash EXCEPT ![x] = @ - CashOf(RefundedIn(shShift[x]))]
  /\ shPc' = [shPc EXCEPT ![x] = "close"]
  /\ UNCHANGED <<shTerm, shShift, shDrawer, postVars, revVars, dbVars>>

(* ... then the update by id, whether or not the shift is still open.        *)
CloseShift(x) ==
  /\ shPc[x] = "close"
  /\ shiftState' = [shiftState EXCEPT ![shShift[x]] = "closed"]
  /\ expected' = [expected EXCEPT ![shShift[x]] = shDrawer[x] + shCash[x]]
  /\ ShLeave(x)
  /\ UNCHANGED <<stockVars, saleVars, drawer, receiptSeq, postVars, revVars>>

AbortShiftOp(x) ==
  /\ shPc[x] # "idle"
  /\ ShLeave(x)
  /\ UNCHANGED <<postVars, revVars, dbVars>>

(* The last step of an open or a cash movement waits for a fresh shift name  *)
(* or for room under the bound; the others are always possible.             *)
ShiftStep(x) ==
  CreateShift(x) \/ AddCash(x) \/ ReadSold(x) \/ ReadRefunds(x) \/ CloseShift(x)

=============================================================================
