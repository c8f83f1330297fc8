--------------------------- MODULE PosBranchProofs ---------------------------
(***************************************************************************)
(* Machine-checked proofs about PosBranch, for every catalog, every set of *)
(* drafts and any number of concurrent requests.                           *)
(***************************************************************************)
EXTENDS PosBranch, SumProofs, TLAPS

(* What is unchanged keeps its types.                                        *)
LEMMA TablesKept ==
  ASSUME TableTypes, UNCHANGED dbVars PROVE TableTypes'
  BY DEF TableTypes, dbVars, stockVars, saleVars, shiftVars

LEMMA SalesKept ==
  ASSUME SalesTypes, UNCHANGED <<postVars, revVars>> PROVE SalesTypes'
  BY DEF SalesTypes, postVars, revVars

LEMMA StockOpsKept ==
  ASSUME StockTypes, UNCHANGED stkVars PROVE StockTypes'
  BY DEF StockTypes, stkVars

LEMMA ShiftOpsKept ==
  ASSUME ShiftOpTypes, UNCHANGED shiftOpVars PROVE ShiftOpTypes'
  BY DEF ShiftOpTypes, shiftOpVars

LEMMA IdleTypes == IdleSale \in SaleIds /\ IdleTerm \in Terminals
  BY NonEmptyAssumption DEF IdleSale, IdleTerm

(* A draft's fields, whatever the set of drafts.                             *)
LEMMA DraftFields ==
  ASSUME NEW d \in Drafts
  PROVE  /\ d.id \in SaleIds /\ d.terminal \in Terminals
         /\ d.shift \in ShiftIds /\ d.receipt \in Receipts
         /\ d.want \in [Keys -> Nat]
         /\ d # NoDraft
  BY DraftAssumption DEF Draft

LEMMA InitTypes == Init => TypeOK /\ RequestsCarryDrafts
  <1> SUFFICES ASSUME Init PROVE TypeOK /\ RequestsCarryDrafts
    OBVIOUS
  <1>1. TableTypes
    BY OpeningAssumption
    DEF Init, InitTables, TableTypes, Zero, Statuses
  <1>2. SalesTypes
    BY IdleTypes DEF Init, InitSales, SalesTypes, PostPcs, Replies
  <1>3. StockTypes
    BY DEF Init, InitStock, StockTypes, Zero, MaxRetries
  <1>4. ShiftOpTypes
    BY IdleTypes DEF Init, InitShifts, ShiftOpTypes
  <1>5. RequestsCarryDrafts
    BY DEF Init, InitSales, RequestsCarryDrafts
  <1> QED
    BY <1>1, <1>2, <1>3, <1>4, <1>5 DEF TypeOK

----------------------------------------------------------------------------
(* Type correctness, one lemma per group of variables.                       *)

(* A post moves only its own request and, when it commits, the tables.       *)
LEMMA PostTypes ==
  ASSUME TypeOK, RequestsCarryDrafts, NEW p \in Posts,
         \/ \E d \in Drafts : Submit(p, d)
         \/ PostStep(p) \/ Refuse(p) \/ AbortPost(p)
  PROVE  TableTypes' /\ SalesTypes' /\ RequestsCarryDrafts'
  <1> USE DEF TypeOK
  <1>1. CASE \E d \in Drafts : Submit(p, d)
    BY <1>1, TablesKept
    DEF Submit, SalesTypes, RequestsCarryDrafts, PostPcs, Replies, revVars
  <1>2. CASE FastPath(p)
    BY <1>2, TablesKept
    DEF FastPath, Answer, Goto, SalesTypes, RequestsCarryDrafts, PostPcs, Replies, revVars
  <1>3. CASE CheckShift(p)
    BY <1>3, TablesKept
    DEF CheckShift, Answer, Goto, SalesTypes, RequestsCarryDrafts, PostPcs, Replies, revVars
  <1>4. CASE Refuse(p)
    BY <1>4, TablesKept
    DEF Refuse, Answer, SalesTypes, RequestsCarryDrafts, PostPcs, Replies, revVars
  <1>5. CASE LockStock(p)
    <2>1. LockSet(postDraft[p]) \subseteq Keys
      BY DEF LockSet, TableTypes
    <2> QED
      BY <1>5, <2>1, TablesKept
      DEF LockStock, Goto, SalesTypes, RequestsCarryDrafts, PostPcs, revVars
  <1>6. CASE LookAgain(p) \/ ConflictPass(p)
    BY <1>6, TablesKept
    DEF LookAgain, ConflictPass, Answer, Goto, SalesTypes, RequestsCarryDrafts, PostPcs,
        Replies, revVars
  <1>7. CASE ReadSeq(p)
    <2>1. receiptSeq[postDraft[p].terminal] \in Nat
      BY <1>7, DraftFields DEF ReadSeq, RequestsCarryDrafts, TableTypes
    <2> QED
      BY <1>7, <2>1, TablesKept
      DEF ReadSeq, Goto, SalesTypes, RequestsCarryDrafts, PostPcs, revVars
  <1>8. CASE CommitClash(p) \/ ExplainClash(p)
    BY <1>8, TablesKept
    DEF CommitClash, ExplainClash, Answer, Goto, SalesTypes, RequestsCarryDrafts, PostPcs,
        Replies, revVars
  <1>9. CASE CommitSale(p)
    <2> DEFINE d == postDraft[p]
    <2>1. d \in Drafts /\ d.id \in SaleIds /\ d.receipt \in Receipts /\ d.want \in [Keys -> Nat]
      BY <1>9, DraftFields DEF CommitSale, RequestsCarryDrafts
    <2>2. NextSeq(p) \in Nat
      BY <2>1, CatalogAssumption DEF NextSeq, SalesTypes
    <2>3. rows' \subseteq Keys /\ qty' \in [Keys -> Int] /\ movedQty' \in [Keys -> Int]
      BY <1>9, <2>1 DEF CommitSale, TableTypes
    <2>4. /\ saleDraft' \in [SaleIds -> Drafts \cup {NoDraft}]
          /\ saleStatus' \in [SaleIds -> Statuses]
          /\ refundShift' \in [SaleIds -> ShiftIds \cup {NoShift}]
      BY <1>9, <2>1 DEF CommitSale, TableTypes, Statuses
    <2>5. saleMoves' \in [SaleIds -> [Keys -> Int]] /\ backMoves' \in [SaleIds -> [Keys -> Int]]
      BY <1>9, <2>1 DEF CommitSale, TableTypes
    <2>6. /\ shiftState' \in [ShiftIds -> {"unused", "open", "closed"}]
          /\ drawer' \in [ShiftIds -> Int]
          /\ receiptSeq' \in [Terminals -> Nat]
      BY <1>9, <2>1, <2>2 DEF CommitSale, TableTypes, shiftVars
    <2>7. SalesTypes' /\ RequestsCarryDrafts'
      BY <1>9 DEF CommitSale, Answer, SalesTypes, RequestsCarryDrafts, PostPcs, Replies, revVars
    <2> QED
      BY <2>3, <2>4, <2>5, <2>6, <2>7 DEF TableTypes
  <1>10. CASE AbortPost(p)
    BY <1>10, TablesKept
    DEF AbortPost, Answer, SalesTypes, RequestsCarryDrafts, PostPcs, Replies, revVars
  <1> QED
    BY <1>1, <1>2, <1>3, <1>4, <1>5, <1>6, <1>7, <1>8, <1>9, <1>10 DEF PostStep

(* A reversal moves only its own request and, when it commits, the tables.   *)
LEMMA ReversalTypes ==
  ASSUME TypeOK, RequestsCarryDrafts, NEW v \in Reversals,
         \/ \E kind \in {"void", "refund"}, s \in SaleIds, t \in Terminals :
              BeginReversal(v, kind, s, t)
         \/ ReversalStep(v) \/ AbortReversal(v)
  PROVE  TableTypes' /\ SalesTypes' /\ RequestsCarryDrafts'
  <1> USE DEF TypeOK
  <1>0. UNCHANGED postVars => RequestsCarryDrafts'
    BY DEF postVars, RequestsCarryDrafts
  <1>1. CASE \E kind \in {"void", "refund"}, s \in SaleIds, t \in Terminals :
               BeginReversal(v, kind, s, t)
    BY <1>0, <1>1, TablesKept DEF BeginReversal, SalesTypes, postVars
  <1>2. CASE LockSale(v)
    BY <1>0, <1>2, TablesKept, IdleTypes
    DEF LockSale, RevGoto, RevLeave, SalesTypes, postVars
  <1>3. CASE ReadOpenShift(v)
    BY <1>0, <1>3, TablesKept, IdleTypes
    DEF ReadOpenShift, OpenShiftRead, OpenShiftsOf, RevGoto, RevLeave, SalesTypes, postVars
  <1>4. ASSUME RestoreStock(revSale[v])
        PROVE  /\ rows' \subseteq Keys /\ qty' \in [Keys -> Int]
               /\ movedQty' \in [Keys -> Int]
               /\ backMoves' \in [SaleIds -> [Keys -> Int]]
    <2>1. revSale[v] \in SaleIds
      BY DEF SalesTypes
    <2> QED
      BY <1>4, <2>1 DEF RestoreStock, TableTypes
  <1>5. CASE CommitVoid(v)
    <2>1. TableTypes'
      BY <1>4, <1>5 DEF CommitVoid, TableTypes, Statuses, shiftVars
    <2> QED
      BY <1>0, <1>5, <2>1, IdleTypes DEF CommitVoid, RevLeave, SalesTypes, postVars
  <1>6. CASE CommitRefund(v)
    <2>1. revShift[v] \in ShiftIds \cup {NoShift}
      BY DEF SalesTypes
    <2>2. TableTypes'
      BY <1>4, <1>6, <2>1 DEF CommitRefund, TableTypes, Statuses, shiftVars
    <2> QED
      BY <1>0, <1>6, <2>2, IdleTypes DEF CommitRefund, RevLeave, SalesTypes, postVars
  <1>7. CASE AbortReversal(v)
    BY <1>0, <1>7, TablesKept, IdleTypes DEF AbortReversal, RevLeave, SalesTypes, postVars
  <1> QED
    BY <1>1, <1>2, <1>3, <1>5, <1>6, <1>7 DEF ReversalStep

(* Stock requests.                                                           *)
LEMMA StockOpTypes ==
  ASSUME TypeOK, NEW w \in StockOps,
         \/ \E add \in Deliveries : BeginReceive(w, add)
         \/ \E k \in Keys, n \in Targets : BeginAdjust(w, k, n)
         \/ StockStep(w) \/ AbortStock(w)
  PROVE  TableTypes' /\ StockTypes' /\ UNCHANGED <<postVars, revVars>>
  <1> USE DEF TypeOK
  <1>0. /\ stkLines[w] \subseteq Keys /\ stkAmount[w] \in [Keys -> Nat]
        /\ stkSeen[w] \in [Keys -> Int] /\ stkTry[w] \in 0 .. MaxRetries
    BY DEF StockTypes
  <1>1. ASSUME StkLeave(w) PROVE StockTypes'
    BY <1>1 DEF StkLeave, StockTypes, Zero, MaxRetries
  <1>2. ASSUME NEW kind \in {"receive", "adjust"}, NEW K \in SUBSET Keys,
               NEW n \in [Keys -> Nat], StkBegin(w, kind, K, n)
        PROVE  TableTypes' /\ StockTypes' /\ UNCHANGED <<postVars, revVars>>
    BY <1>2, TablesKept DEF StkBegin, StockTypes
  <1>3. CASE \E add \in Deliveries : BeginReceive(w, add)
    BY <1>2, <1>3, StockAssumption DEF BeginReceive
  <1>4. CASE \E k \in Keys, n \in Targets : BeginAdjust(w, k, n)
    <2>1. PICK k \in Keys, n \in Targets : BeginAdjust(w, k, n)
      BY <1>4
    <2>2. [Zero EXCEPT ![k] = n] \in [Keys -> Nat]
      BY StockAssumption DEF Zero
    <2> QED
      BY <1>2, <2>1, <2>2 DEF BeginAdjust
  <1>5. CASE ReadLevels(w)
    <2>1. [k \in Keys |-> IF k \in stkLines[w] THEN qty[k] ELSE 0] \in [Keys -> Int]
      BY DEF TableTypes
    <2> QED
      BY <1>0, <1>5, <2>1, TablesKept DEF ReadLevels, StockTypes
  <1>6. CASE RetryStock(w)
    <2>1. TableTypes' /\ UNCHANGED <<postVars, revVars>>
      BY <1>6, TablesKept DEF RetryStock
    <2>2. CASE stkTry[w] < MaxRetries
      <3>1. stkTry[w] + 1 \in 0 .. MaxRetries
        BY <1>0, <2>2 DEF MaxRetries
      <3> QED
        BY <1>6, <2>1, <2>2, <3>1 DEF RetryStock, StockTypes
    <2>3. CASE ~(stkTry[w] < MaxRetries)
      BY <1>1, <1>6, <2>1, <2>3 DEF RetryStock
    <2> QED
      BY <2>2, <2>3
  <1>7. CASE CommitReceive(w)
    <2>1. rows' \subseteq Keys /\ qty' \in [Keys -> Int] /\ movedQty' \in [Keys -> Int]
      BY <1>0, <1>7 DEF CommitReceive, StkWrites, TableTypes
    <2> QED
      BY <1>1, <1>7, <2>1 DEF CommitReceive, StkWrites, TableTypes, saleVars, shiftVars
  <1>8. CASE CommitAdjust(w)
    <2>1. rows' \subseteq Keys /\ qty' \in [Keys -> Int] /\ movedQty' \in [Keys -> Int]
      BY <1>0, <1>8 DEF CommitAdjust, StkWrites, TableTypes
    <2> QED
      BY <1>1, <1>8, <2>1 DEF CommitAdjust, StkWrites, TableTypes, saleVars, shiftVars
  <1>9. CASE AbortStock(w)
    BY <1>1, <1>9, TablesKept DEF AbortStock
  <1> QED
    BY <1>3, <1>4, <1>5, <1>6, <1>7, <1>8, <1>9 DEF StockStep

(* Shift requests.  Only their own lines of the shift tables change.         *)
LEMMA ShiftOpTypesStep ==
  ASSUME TypeOK, NEW x \in ShiftOps,
         \/ \E t \in Terminals : CheckNoneOpen(x, t) \/ FindForCash(x, t) \/ FindForClose(x, t)
         \/ ShiftStep(x) \/ AbortShiftOp(x)
  PROVE  /\ TableTypes' /\ ShiftOpTypes'
         /\ UNCHANGED <<stockVars, saleVars, receiptSeq, postVars, revVars>>
  <1> USE DEF TypeOK
  <1>1. ASSUME ShLeave(x) PROVE ShiftOpTypes'
    BY <1>1, IdleTypes DEF ShLeave, ShiftOpTypes
  <1>2. CASE \E t \in Terminals : CheckNoneOpen(x, t) \/ FindForCash(x, t) \/ FindForClose(x, t)
    <2>1. PICK t \in Terminals : CheckNoneOpen(x, t) \/ FindForCash(x, t) \/ FindForClose(x, t)
      BY <1>2
    <2>2. UNCHANGED <<postVars, revVars, dbVars>>
      BY <2>1 DEF CheckNoneOpen, FindForCash, FindForClose, ShFound
    <2>3. ShiftOpTypes'
      <3>1. CASE CheckNoneOpen(x, t)
        BY <3>1 DEF CheckNoneOpen, ShFound, ShiftOpTypes
      <3>2. CASE FindForCash(x, t)
        BY <3>2 DEF FindForCash, ShFound, OpenShiftsOf, ShiftOpTypes
      <3>3. CASE FindForClose(x, t)
        BY <3>3 DEF FindForClose, ShFound, OpenShiftsOf, ShiftOpTypes, TableTypes
      <3> QED
        BY <2>1, <3>1, <3>2, <3>3
    <2> QED
      BY <2>2, <2>3, TablesKept DEF dbVars
  <1>3. CASE CreateShift(x)
    <2>1. PICK h \in ShiftIds, c \in Floats :
            /\ shiftState' = [shiftState EXCEPT ![h] = "open"]
            /\ drawer' = [drawer EXCEPT ![h] = c]
      BY <1>3 DEF CreateShift
    <2>2. c \in Int
      BY CashAssumption
    <2>3. TableTypes'
      BY <1>3, <2>1, <2>2 DEF CreateShift, TableTypes, stockVars, saleVars
    <2> QED
      BY <1>1, <1>3, <2>3 DEF CreateShift
  <1>4. CASE AddCash(x)
    <2>1. PICK a \in CashMoves :
            drawer' = [drawer EXCEPT ![shShift[x]] = drawer[shShift[x]] + a]
      BY <1>4 DEF AddCash
    <2>2. a \in Int /\ drawer \in [ShiftIds -> Int]
      BY CashAssumption DEF TableTypes
    <2>3. drawer' \in [ShiftIds -> Int]
      <3>1. CASE shShift[x] \in ShiftIds
        <4>1. drawer[shShift[x]] + a \in Int
          BY <2>2, <3>1
        <4> QED
          BY <2>1, <2>2, <4>1
      <3>2. CASE shShift[x] \notin ShiftIds
        BY <2>1, <2>2, <3>2
      <3> QED
        BY <3>1, <3>2
    <2>4. TableTypes'
      BY <1>4, <2>3 DEF AddCash, TableTypes, stockVars, saleVars
    <2> QED
      BY <1>1, <1>4, <2>4 DEF AddCash
  <1>5. CASE ReadSold(x) \/ ReadRefunds(x)
    BY <1>5, TablesKept DEF ReadSold, ReadRefunds, ShiftOpTypes, dbVars
  <1>6. CASE CloseShift(x)
    <2>1. TableTypes'
      BY <1>6 DEF CloseShift, TableTypes, stockVars, saleVars
    <2> QED
      BY <1>1, <1>6, <2>1 DEF CloseShift
  <1>7. CASE AbortShiftOp(x)
    BY <1>1, <1>7, TablesKept DEF AbortShiftOp, dbVars
  <1> QED
    BY <1>2, <1>3, <1>4, <1>5, <1>6, <1>7 DEF ShiftStep

LEMMA TypeStep ==
  ASSUME TypeOK, RequestsCarryDrafts, [Next]_vars
  PROVE  TypeOK' /\ RequestsCarryDrafts'
  <1>0. UNCHANGED postVars => RequestsCarryDrafts'
    BY DEF postVars, RequestsCarryDrafts
  <1>1. CASE PostNext
    BY <1>1, PostTypes, StockOpsKept, ShiftOpsKept DEF PostNext, TypeOK
  <1>2. CASE ReversalNext
    BY <1>2, ReversalTypes, StockOpsKept, ShiftOpsKept DEF ReversalNext, TypeOK
  <1>3. CASE StockNext
    BY <1>0, <1>3, StockOpTypes, SalesKept, ShiftOpsKept DEF StockNext, TypeOK
  <1>4. CASE ShiftNext
    BY <1>0, <1>4, ShiftOpTypesStep, SalesKept, StockOpsKept DEF ShiftNext, TypeOK
  <1>5. CASE UNCHANGED vars
    BY <1>0, <1>5, TablesKept, SalesKept, StockOpsKept, ShiftOpsKept DEF vars, TypeOK
  <1> QED
    BY <1>1, <1>2, <1>3, <1>4, <1>5 DEF Next

(* Every variable keeps its type, and a request in the server carries a       *)
(* draft some client sent (the handlers of SalesService, StockService and    *)
(* ShiftsService, all interleavings).                                        *)
THEOREM TypeCorrect == Spec => [](TypeOK /\ RequestsCarryDrafts)
  <1>1. (TypeOK /\ RequestsCarryDrafts) /\ [Next]_vars => (TypeOK /\ RequestsCarryDrafts)'
    BY TypeStep
  <1> QED
    BY <1>1, InitTypes, PTL DEF Spec

----------------------------------------------------------------------------
(* The inductive invariant, in three parts that fail for different reasons:  *)
(* what the tables say, what the posts rely on, what the reversals rely on.  *)

TablesInv == /\ NoOversell /\ SalePostedOnce /\ ReturnedOnce
             /\ RefundChargedToOwnShift /\ SalesStoreDrafts
PostsInv == /\ AnswersTruthful /\ LocksExclusive /\ GrantsStand
            /\ CopiesTakeElsewhere /\ ClashesStand

LEMMA CoreParts ==
  CoreInv <=> TablesInv /\ PostsInv /\ RequestsCarryDrafts /\ SaleLocksExclusive
  BY Zenon DEF CoreInv, TablesInv, PostsInv

LEMMA TablesInvKept ==
  ASSUME TablesInv, UNCHANGED <<stockVars, saleVars>> PROVE TablesInv'
  BY DEF TablesInv, NoOversell, SalePostedOnce, ReturnedOnce, RefundChargedToOwnShift,
         SalesStoreDrafts, Stored, stockVars, saleVars

LEMMA PostsInvKept ==
  ASSUME PostsInv, UNCHANGED <<stockVars, saleVars, postVars>> PROVE PostsInv'
  <1>1. AnswersTruthful'
    BY DEF PostsInv, AnswersTruthful, Clashes, Stored, saleVars, postVars
  <1>2. LocksExclusive'
    BY DEF PostsInv, LocksExclusive, stockVars, postVars
  <1>3. GrantsStand'
    BY DEF PostsInv, GrantsStand, stockVars, postVars
  <1>4. CopiesTakeElsewhere' /\ ClashesStand'
    BY DEF PostsInv, CopiesTakeElsewhere, ClashesStand, Clashes, Stored, saleVars, postVars
  <1> QED
    BY <1>1, <1>2, <1>3, <1>4 DEF PostsInv

LEMMA SaleLocksKept ==
  ASSUME SaleLocksExclusive, UNCHANGED <<saleVars, revVars>> PROVE SaleLocksExclusive'
  BY DEF SaleLocksExclusive, HoldsSale, saleVars, revVars

(* Nothing the invariant speaks of has changed.                              *)
LEMMA CoreKept ==
  ASSUME CoreInv, RequestsCarryDrafts',
         UNCHANGED <<stockVars, saleVars, postVars, revVars>>
  PROVE  CoreInv'
  BY TablesInvKept, PostsInvKept, SaleLocksKept DEF CoreInv, TablesInv, PostsInv

LEMMA InitCore == Init => CoreInv
  <1> SUFFICES ASSUME Init PROVE CoreInv
    OBVIOUS
  <1>1. NoOversell
    BY OpeningAssumption DEF Init, InitTables, NoOversell
  <1>2. SalePostedOnce /\ ReturnedOnce /\ RefundChargedToOwnShift /\ SalesStoreDrafts
    BY DEF Init, InitTables, SalePostedOnce, ReturnedOnce, RefundChargedToOwnShift,
           SalesStoreDrafts, Stored, Zero
  <1>3. /\ AnswersTruthful /\ LocksExclusive /\ GrantsStand /\ RequestsCarryDrafts
        /\ CopiesTakeElsewhere /\ ClashesStand
    BY DEF Init, InitSales, AnswersTruthful, LocksExclusive, GrantsStand, RequestsCarryDrafts,
           CopiesTakeElsewhere, ClashesStand
  <1>4. SaleLocksExclusive
    BY DEF Init, InitSales, SaleLocksExclusive, HoldsSale
  <1> QED
    BY <1>1, <1>2, <1>3, <1>4 DEF CoreInv

----------------------------------------------------------------------------
(* Posts.                                                                    *)

(* A post that leaves without writing releases its locks, and its answer is  *)
(* right.                                                                   *)
LEMMA LeavingPost ==
  ASSUME TypeOK, PostsInv, NEW p \in Posts, NEW r \in Replies, Answer(p, r),
         UNCHANGED dbVars,
         r \in {"created", "replay"} => Stored(postDraft[p].id),
         r = "receiptTaken" => Clashes(postDraft[p]) \ {postDraft[p].id} # {}
  PROVE  PostsInv'
  <1> USE DEF TypeOK, SalesTypes, Answer, dbVars, saleVars, stockVars, PostsInv
  <1>1. AnswersTruthful'
    BY DEF AnswersTruthful, Clashes, Stored
  <1>2. LocksExclusive'
    BY DEF LocksExclusive
  <1>3. GrantsStand'
    BY DEF GrantsStand
  <1>4. CopiesTakeElsewhere' /\ ClashesStand'
    BY DEF CopiesTakeElsewhere, ClashesStand, Clashes, Stored
  <1> QED
    BY <1>1, <1>2, <1>3, <1>4

(* A post that goes on outside a transaction, or inside with the same locks  *)
(* and, past the conflict pass, with its grant.                             *)
LEMMA MovingPost ==
  ASSUME TypeOK, PostsInv, NEW p \in Posts, NEW pc \in PostPcs, Goto(p, pc),
         UNCHANGED <<postHeld, dbVars>>,
         pc \notin InTx => postHeld[p] = {},
         pc \in {"cleared", "numbered"} =>
           \A k \in Keys : postDraft[p].want[k] > 0 =>
             k \in postHeld[p] /\ postDraft[p].want[k] <= qty[k],
         pc = "looked" => ~Stored(postDraft[p].id),
         pc # "clashed"
  PROVE  PostsInv'
  <1> USE DEF TypeOK, SalesTypes, Goto, dbVars, saleVars, stockVars, PostsInv
  <1>1. AnswersTruthful'
    BY DEF AnswersTruthful, Clashes, Stored
  <1>2. LocksExclusive'
    BY DEF LocksExclusive
  <1>3. GrantsStand'
    BY DEF GrantsStand
  <1>4. CopiesTakeElsewhere' /\ ClashesStand'
    BY DEF CopiesTakeElsewhere, ClashesStand, Clashes, Stored
  <1> QED
    BY <1>1, <1>2, <1>3, <1>4

(* lockStock: the rows exist and nobody else holds one.                      *)
LEMMA LockingPost ==
  ASSUME TypeOK, PostsInv, NEW p \in Posts, LockStock(p)
  PROVE  PostsInv'
  <1> USE DEF TypeOK, SalesTypes, LockStock, Goto, dbVars, saleVars, stockVars, PostsInv
  <1>1. AnswersTruthful'
    BY DEF AnswersTruthful, Clashes, Stored
  <1>2. LocksExclusive'
    <2>1. LockSet(postDraft[p]) \subseteq rows
      BY DEF LockSet
    <2> QED
      BY <2>1 DEF LocksExclusive, InTx
  <1>3. GrantsStand'
    BY DEF GrantsStand
  <1>4. CopiesTakeElsewhere' /\ ClashesStand'
    BY DEF CopiesTakeElsewhere, ClashesStand, Clashes, Stored
  <1> QED
    BY <1>1, <1>2, <1>3, <1>4

(* The second look goes on only when the id is not stored.                   *)
LEMMA LookingPost ==
  ASSUME TypeOK, PostsInv, NEW p \in Posts, LookAgain(p)
  PROVE  PostsInv'
  <1>1. CASE Stored(postDraft[p].id)
    BY <1>1, LeavingPost DEF LookAgain, Replies
  <1>2. CASE ~Stored(postDraft[p].id)
    BY <1>2, MovingPost DEF LookAgain, PostPcs, InTx
  <1> QED
    BY <1>1, <1>2

(* The conflict pass: what it lets through is in the locked rows.            *)
LEMMA ClearingPost ==
  ASSUME TypeOK, PostsInv, RequestsCarryDrafts, NEW p \in Posts, ConflictPass(p)
  PROVE  PostsInv'
  <1>1. CASE Short(p)
    BY <1>1, LeavingPost DEF ConflictPass, Replies
  <1>2. CASE ~Short(p)
    <2>1. ASSUME NEW k \in Keys, postDraft[p].want[k] > 0
          PROVE  k \in postHeld[p] /\ postDraft[p].want[k] <= qty[k]
      <3>1. postDraft[p].want[k] \in Nat /\ qty[k] \in Int
        BY DraftFields DEF ConflictPass, RequestsCarryDrafts, TypeOK, TableTypes
      <3>2. ~(postDraft[p].want[k] > Available(p, k))
        BY <1>2 DEF Short
      <3> QED
        BY <2>1, <3>1, <3>2 DEF Available
    <2>2. UNCHANGED <<postHeld, dbVars>> /\ Goto(p, "cleared")
      BY <1>2 DEF ConflictPass
    <2> QED
      BY <2>1, <2>2, MovingPost DEF PostPcs, InTx
  <1> QED
    BY <1>1, <1>2

(* The rollback: the locks are released and what clashed is still stored.    *)
LEMMA ClashingPost ==
  ASSUME TypeOK, PostsInv, NEW p \in Posts, CommitClash(p)
  PROVE  PostsInv'
  <1> USE DEF TypeOK, SalesTypes, CommitClash, Goto, dbVars, saleVars, stockVars, PostsInv
  <1>1. AnswersTruthful'
    BY DEF AnswersTruthful, Clashes, Stored
  <1>2. LocksExclusive'
    BY DEF LocksExclusive
  <1>3. GrantsStand'
    BY DEF GrantsStand
  <1>4. CopiesTakeElsewhere' /\ ClashesStand'
    BY DEF CopiesTakeElsewhere, ClashesStand, Clashes, Stored
  <1> QED
    BY <1>1, <1>2, <1>3, <1>4

(* The commit of a sale.  The grants of the other posts stand because their   *)
(* rows are not the ones this post holds.                                   *)
LEMMA CommittingPost ==
  ASSUME TypeOK, CoreInv, NEW p \in Posts, CommitSale(p)
  PROVE  TablesInv' /\ PostsInv' /\ SaleLocksExclusive'
  <1> DEFINE d == postDraft[p]
  <1> USE DEF CommitSale, Answer
  <1>1. /\ d \in Drafts /\ d.id \in SaleIds /\ d.want \in [Keys -> Nat]
        /\ ~Stored(d.id)
    BY DraftFields DEF CoreInv, RequestsCarryDrafts, Clashes
  <1>2. qty \in [Keys -> Int] /\ saleMoves \in [SaleIds -> [Keys -> Int]]
    BY DEF TypeOK, TableTypes
  <1>3. \A k \in Keys : d.want[k] > 0 => k \in postHeld[p] /\ d.want[k] <= qty[k]
    BY DEF CoreInv, GrantsStand
  <1>4. \A s \in SaleIds : s # d.id =>
          /\ saleStatus'[s] = saleStatus[s] /\ saleDraft'[s] = saleDraft[s]
          /\ saleMoves'[s] = saleMoves[s]
    BY <1>1 DEF TypeOK, TableTypes
  <1>5. saleStatus'[d.id] = "completed" /\ saleDraft'[d.id] = d
    BY <1>1 DEF TypeOK, TableTypes
  <1>6. TablesInv'
    <2>1. NoOversell'
      BY <1>1, <1>2, <1>3 DEF CoreInv, NoOversell, LocksExclusive
    <2>2. SalePostedOnce'
      <3>1. ASSUME NEW k \in Keys PROVE saleMoves'[d.id][k] = -d.want[k]
        BY <1>1, <1>2 DEF CoreInv, SalePostedOnce
      <3> QED
        BY <1>4, <1>5, <3>1 DEF CoreInv, SalePostedOnce, Stored
    <2>3. ReturnedOnce'
      <3>1. ASSUME NEW k \in Keys PROVE backMoves'[d.id][k] = 0
        BY <1>1 DEF CoreInv, ReturnedOnce, Stored
      <3> QED
        BY <1>4, <1>5, <3>1 DEF CoreInv, ReturnedOnce
    <2>4. RefundChargedToOwnShift'
      BY <1>1, <1>4, <1>5 DEF CoreInv, RefundChargedToOwnShift, Stored
    <2>5. SalesStoreDrafts'
      BY <1>1, <1>4, <1>5 DEF CoreInv, SalesStoreDrafts, Stored
    <2> QED
      BY <2>1, <2>2, <2>3, <2>4, <2>5 DEF TablesInv
  <1>7. PostsInv'
    <2>1. AnswersTruthful'
      <3>1. ASSUME NEW q \in Posts, postReply'[q] \in {"created", "replay"}
            PROVE  Stored(postDraft[q].id)'
        BY <1>1, <1>4, <1>5, <3>1 DEF CoreInv, AnswersTruthful, Stored, TypeOK, SalesTypes, TableTypes
      <3>2. ASSUME NEW q \in Posts, postReply'[q] = "receiptTaken"
            PROVE  (Clashes(postDraft[q]) \ {postDraft[q].id} # {})'
        <4>1. q # p /\ postReply[q] = "receiptTaken"
          BY <3>2 DEF TypeOK, SalesTypes
        <4>2. PICK s \in Clashes(postDraft[q]) : s # postDraft[q].id
          BY <4>1 DEF CoreInv, AnswersTruthful
        <4>3. s \in SaleIds /\ s # d.id
          BY <1>1, <4>2 DEF Clashes
        <4>4. s \in Clashes(postDraft[q])'
          BY <1>4, <4>2, <4>3 DEF Clashes, Stored
        <4> QED
          BY <4>2, <4>4
      <3> QED
        BY <3>1, <3>2 DEF AnswersTruthful
    <2>2. LocksExclusive'
      BY DEF CoreInv, LocksExclusive, TypeOK, SalesTypes
    <2>3. GrantsStand'
      <3> SUFFICES ASSUME NEW q \in Posts, postPc'[q] \in {"cleared", "numbered"},
                          NEW k \in Keys, postDraft[q].want[k] > 0
                   PROVE  k \in postHeld'[q] /\ postDraft[q].want[k] <= qty'[k]
        BY DEF GrantsStand
      <3>1. q # p /\ postPc[q] = postPc'[q] /\ postHeld[q] = postHeld'[q]
        BY DEF TypeOK, SalesTypes
      <3>2. k \in postHeld[q] /\ postDraft[q].want[k] <= qty[k]
        BY <3>1 DEF CoreInv, GrantsStand
      <3>3. k \notin postHeld[p]
        BY <3>1, <3>2 DEF CoreInv, LocksExclusive
      <3>4. d.want[k] = 0
        BY <1>1, <1>3, <3>3
      <3> QED
        BY <1>2, <3>1, <3>2, <3>4
    <2>4. CopiesTakeElsewhere'
      <3> SUFFICES ASSUME NEW q \in Posts, postPc'[q] = "looked", Stored(postDraft[q].id)',
                          NEW k \in postHeld'[q]
                   PROVE  saleDraft'[postDraft[q].id].want[k] = 0
        BY DEF CopiesTakeElsewhere
      <3>1. q # p /\ postPc[q] = "looked" /\ k \in postHeld[q]
        BY DEF TypeOK, SalesTypes
      <3>2. k \in Keys /\ k \notin postHeld[p]
        BY <3>1 DEF CoreInv, LocksExclusive, TypeOK, SalesTypes
      <3>3. d.want[k] = 0
        BY <1>1, <1>3, <3>2
      <3>4. postDraft[q].id \in SaleIds
        BY <3>1, DraftFields DEF CoreInv, RequestsCarryDrafts
      <3>5. CASE postDraft[q].id = d.id
        BY <1>5, <3>3, <3>5
      <3>6. CASE postDraft[q].id # d.id
        BY <1>4, <3>1, <3>4, <3>6 DEF CoreInv, CopiesTakeElsewhere, Stored
      <3> QED
        BY <3>5, <3>6
    <2>5. ClashesStand'
      <3> SUFFICES ASSUME NEW q \in Posts, postPc'[q] = "clashed"
                   PROVE  (Clashes(postDraft[q]) # {})'
        BY DEF ClashesStand
      <3>1. postPc[q] = "clashed"
        BY DEF TypeOK, SalesTypes
      <3>2. PICK s : s \in Clashes(postDraft[q])
        BY <3>1 DEF CoreInv, ClashesStand
      <3>3. s \in SaleIds /\ s # d.id
        BY <1>1, <3>2 DEF Clashes
      <3>4. s \in Clashes(postDraft[q])'
        BY <1>4, <3>2, <3>3 DEF Clashes, Stored
      <3> QED
        BY <3>4
    <2> QED
      BY <2>1, <2>2, <2>3, <2>4, <2>5 DEF PostsInv
  <1>8. SaleLocksExclusive'
    BY <1>1, <1>4 DEF CoreInv, SaleLocksExclusive, HoldsSale, revVars, Stored, TypeOK, SalesTypes
  <1> QED
    BY <1>6, <1>7, <1>8

(* Every step of a post.                                                     *)
LEMMA PostCore ==
  ASSUME TypeOK, CoreInv, RequestsCarryDrafts', NEW p \in Posts,
         \/ \E d \in Drafts : Submit(p, d)
         \/ PostStep(p) \/ Refuse(p) \/ AbortPost(p)
  PROVE  CoreInv'
  <1>a. LocksExclusive /\ TablesInv /\ PostsInv /\ SaleLocksExclusive
    BY CoreParts DEF CoreInv
  <1>0. ASSUME UNCHANGED <<dbVars, revVars>>, PostsInv' PROVE CoreInv'
    <2>1. TablesInv' /\ SaleLocksExclusive'
      BY <1>0, <1>a, TablesInvKept, SaleLocksKept DEF dbVars
    <2> QED
      BY <1>0, <2>1 DEF CoreInv, TablesInv, PostsInv
  <1>1. CASE \E d \in Drafts : Submit(p, d)
    <2>1. AnswersTruthful'
      BY <1>1 DEF Submit, CoreInv, AnswersTruthful, Clashes, Stored, dbVars, saleVars,
                  TypeOK, SalesTypes
    <2>2. LocksExclusive' /\ GrantsStand'
      BY <1>1 DEF Submit, CoreInv, LocksExclusive, GrantsStand, InTx, dbVars, stockVars,
                  TypeOK, SalesTypes
    <2>3. CopiesTakeElsewhere' /\ ClashesStand'
      BY <1>1 DEF Submit, CoreInv, CopiesTakeElsewhere, ClashesStand, Clashes, Stored, dbVars,
                  saleVars, TypeOK, SalesTypes
    <2> QED
      BY <1>0, <1>1, <2>1, <2>2, <2>3 DEF Submit, PostsInv
  <1>2. CASE FastPath(p)
    <2>1. postPc[p] = "fast"
      BY <1>2 DEF FastPath
    <2>2. postHeld[p] = {}
      BY <1>a, <2>1 DEF LocksExclusive, InTx
    <2>3. UNCHANGED <<dbVars, revVars>>
      BY <1>2 DEF FastPath
    <2>4. CASE Answer(p, "replay") /\ Stored(postDraft[p].id)
      BY <1>0, <1>a, <2>3, <2>4, LeavingPost DEF Replies
    <2>5. CASE Goto(p, "shift") /\ UNCHANGED postHeld
      BY <1>0, <1>a, <2>2, <2>3, <2>5, MovingPost DEF PostPcs, InTx
    <2> QED
      BY <1>2, <2>4, <2>5 DEF FastPath
  <1>3. CASE CheckShift(p)
    <2>1. postPc[p] = "shift"
      BY <1>3 DEF CheckShift
    <2>2. postHeld[p] = {}
      BY <1>a, <2>1 DEF LocksExclusive, InTx
    <2>3. UNCHANGED <<dbVars, revVars>>
      BY <1>3 DEF CheckShift
    <2>4. CASE Answer(p, "shiftClosed")
      BY <1>0, <1>a, <2>3, <2>4, LeavingPost DEF Replies
    <2>5. CASE Goto(p, "tx") /\ UNCHANGED postHeld
      BY <1>0, <1>a, <2>2, <2>3, <2>5, MovingPost DEF PostPcs, InTx
    <2> QED
      BY <1>3, <2>4, <2>5 DEF CheckShift
  <1>4. CASE Refuse(p) \/ AbortPost(p)
    BY <1>0, <1>4, <1>a, LeavingPost DEF Refuse, AbortPost, Replies
  <1>5. CASE LockStock(p)
    BY <1>0, <1>5, <1>a, LockingPost DEF LockStock
  <1>6. CASE LookAgain(p)
    BY <1>0, <1>6, <1>a, LookingPost DEF LookAgain
  <1>10. CASE ConflictPass(p)
    BY <1>0, <1>10, <1>a, ClearingPost DEF ConflictPass, CoreInv
  <1>7. CASE ReadSeq(p)
    BY <1>0, <1>7, <1>a, MovingPost DEF ReadSeq, PostPcs, InTx, CoreInv, GrantsStand
  <1>8. CASE CommitClash(p)
    BY <1>0, <1>8, <1>a, ClashingPost DEF CommitClash
  <1>11. CASE ExplainClash(p)
    <2>1. Clashes(postDraft[p]) # {}
      BY <1>11 DEF ExplainClash, CoreInv, ClashesStand
    <2>2. ~Stored(postDraft[p].id) => Clashes(postDraft[p]) \ {postDraft[p].id} # {}
      BY <2>1 DEF Clashes
    <2>3. PostsInv'
      BY <1>11, <1>a, <2>2, LeavingPost DEF ExplainClash, Replies
    <2> QED
      BY <1>0, <1>11, <2>3 DEF ExplainClash
  <1>9. CASE CommitSale(p)
    BY <1>9, CommittingPost DEF CoreInv, TablesInv, PostsInv
  <1> QED
    BY <1>1, <1>2, <1>3, <1>4, <1>5, <1>6, <1>7, <1>8, <1>9, <1>10, <1>11 DEF PostStep

----------------------------------------------------------------------------
(* Reversals.                                                                *)

(* A reversal that leaves lets its sale go.                                  *)
LEMMA LeavingReversal ==
  ASSUME TypeOK, SaleLocksExclusive, NEW v \in Reversals, RevLeave(v), UNCHANGED saleVars
  PROVE  SaleLocksExclusive'
  BY DEF TypeOK, SalesTypes, SaleLocksExclusive, HoldsSale, RevLeave, saleVars

(* What a reversal that owns a completed sale does to the tables: the sale    *)
(* leaves "completed" and its goods come back.                               *)
LEMMA ReversingSale ==
  ASSUME TypeOK, CoreInv, NEW v \in Reversals, NEW st \in {"voided", "refunded"},
         HoldsSale(v), RestoreStock(revSale[v]), RevLeave(v),
         saleStatus' = [saleStatus EXCEPT ![revSale[v]] = st],
         \/ UNCHANGED refundShift
         \/ /\ st = "refunded" /\ revPc[v] = "checked"
            /\ refundShift' = [refundShift EXCEPT ![revSale[v]] = revShift[v]],
         UNCHANGED <<saleDraft, saleMoves, postVars>>
  PROVE  TablesInv' /\ PostsInv' /\ SaleLocksExclusive'
  <1> DEFINE r == revSale[v]
  <1>1. /\ r \in SaleIds /\ saleStatus[r] = "completed" /\ Stored(r)
        /\ saleDraft[r] \in Drafts /\ saleDraft[r].want \in [Keys -> Nat]
    BY DraftFields
    DEF CoreInv, SaleLocksExclusive, SalesStoreDrafts, Stored, TypeOK, SalesTypes
  <1>2. \A k \in Keys : /\ saleMoves[r][k] = -saleDraft[r].want[k]
                        /\ saleMoves[r][k] \in Int /\ saleDraft[r].want[k] \in Nat
                        /\ qty[k] \in Int
    BY <1>1 DEF CoreInv, SalePostedOnce, TypeOK, TableTypes
  <1>3. /\ \A k \in Keys : qty'[k] = qty[k] + saleDraft[r].want[k]
        /\ rows \subseteq rows'
        /\ \A k \in Keys : k \notin rows' => qty'[k] = qty[k]
    BY <1>2 DEF RestoreStock
  <1>4. /\ \A s \in SaleIds : Stored(s)' <=> Stored(s)
        /\ \A s \in SaleIds : s # r => /\ saleStatus'[s] = saleStatus[s]
                                      /\ backMoves'[s] = backMoves[s]
                                      /\ refundShift'[s] = refundShift[s]
        /\ saleStatus'[r] = st
    BY <1>1 DEF RestoreStock, Stored, TypeOK, TableTypes
  <1>5. TablesInv'
    <2>1. NoOversell'
      BY <1>2, <1>3 DEF CoreInv, NoOversell
    <2>2. SalePostedOnce'
      BY <1>4 DEF CoreInv, SalePostedOnce
    <2>3. ReturnedOnce'
      <3>1. ASSUME NEW k \in Keys PROVE backMoves'[r][k] = -saleMoves[r][k]
        <4>1. backMoves[r][k] = 0
          BY <1>1 DEF CoreInv, ReturnedOnce
        <4> QED
          BY <1>1, <1>2, <4>1 DEF RestoreStock, TypeOK, TableTypes
      <3> QED
        BY <1>4, <3>1 DEF CoreInv, ReturnedOnce
    <2>4. RefundChargedToOwnShift'
      <3>1. refundShift[r] = NoShift
        BY <1>1 DEF CoreInv, RefundChargedToOwnShift
      <3>2. revPc[v] = "checked" => revShift[v] \in {NoShift, saleDraft[r].shift}
        BY DEF CoreInv, SaleLocksExclusive
      <3>3. refundShift'[r] # NoShift =>
              saleStatus'[r] = "refunded" /\ refundShift'[r] = saleDraft[r].shift
        BY <1>1, <1>4, <3>1, <3>2 DEF TypeOK, TableTypes
      <3> QED
        BY <1>4, <3>3 DEF CoreInv, RefundChargedToOwnShift
    <2>5. SalesStoreDrafts'
      BY <1>4 DEF CoreInv, SalesStoreDrafts
    <2> QED
      BY <2>1, <2>2, <2>3, <2>4, <2>5 DEF TablesInv
  <1>6. PostsInv'
    <2>1. AnswersTruthful'
      <3>1. \A p \in Posts : Clashes(postDraft[p])' = Clashes(postDraft[p])
        BY <1>4 DEF Clashes, postVars
      <3>2. \A p \in Posts : Stored(postDraft[p].id) => Stored(postDraft[p].id)'
        BY <1>1 DEF Stored, postVars, TypeOK, TableTypes
      <3> QED
        BY <3>1, <3>2 DEF CoreInv, AnswersTruthful, postVars
    <2>2. LocksExclusive'
      BY <1>3 DEF CoreInv, LocksExclusive, postVars
    <2>3. GrantsStand'
      <3> SUFFICES ASSUME NEW p \in Posts, postPc[p] \in {"cleared", "numbered"},
                          NEW k \in Keys, postDraft[p].want[k] > 0
                   PROVE  k \in postHeld[p] /\ postDraft[p].want[k] <= qty'[k]
        BY DEF GrantsStand, postVars
      <3>1. k \in postHeld[p] /\ postDraft[p].want[k] <= qty[k]
        BY DEF CoreInv, GrantsStand
      <3>2. saleMoves[r][k] = 0
        BY <3>1 DEF RestoreStock, Unlocked
      <3> QED
        BY <1>2, <1>3, <3>1, <3>2
    <2>4. CopiesTakeElsewhere'
      <3> SUFFICES ASSUME NEW p \in Posts, postPc[p] = "looked", Stored(postDraft[p].id)',
                          NEW k \in postHeld[p]
                   PROVE  saleDraft[postDraft[p].id].want[k] = 0
        BY DEF CopiesTakeElsewhere, postVars
      <3>1. postDraft[p].id \in SaleIds
        BY DraftFields DEF CoreInv, RequestsCarryDrafts
      <3> QED
        BY <1>4, <3>1 DEF CoreInv, CopiesTakeElsewhere, postVars
    <2>5. ClashesStand'
      <3>1. \A p \in Posts : Clashes(postDraft[p])' = Clashes(postDraft[p])
        BY <1>4 DEF Clashes, postVars
      <3> QED
        BY <3>1 DEF CoreInv, ClashesStand, postVars
    <2> QED
      BY <2>1, <2>2, <2>3, <2>4, <2>5 DEF PostsInv
  <1>7. SaleLocksExclusive'
    BY <1>1, <1>4 DEF CoreInv, SaleLocksExclusive, HoldsSale, RevLeave, TypeOK, SalesTypes
  <1> QED
    BY <1>5, <1>6, <1>7

(* Every step of a reversal.                                                 *)
LEMMA ReversalCore ==
  ASSUME TypeOK, CoreInv, RequestsCarryDrafts', NEW v \in Reversals,
         \/ \E kind \in {"void", "refund"}, s \in SaleIds, t \in Terminals :
              BeginReversal(v, kind, s, t)
         \/ ReversalStep(v) \/ AbortReversal(v)
  PROVE  CoreInv'
  <1>a. TablesInv /\ PostsInv /\ SaleLocksExclusive
    BY CoreParts DEF CoreInv
  <1>0. ASSUME UNCHANGED <<dbVars, postVars>>, SaleLocksExclusive' PROVE CoreInv'
    <2>1. TablesInv' /\ PostsInv'
      BY <1>0, <1>a, TablesInvKept, PostsInvKept DEF dbVars
    <2> QED
      BY <1>0, <2>1 DEF CoreInv, TablesInv, PostsInv
  <1>1. CASE \E kind \in {"void", "refund"}, s \in SaleIds, t \in Terminals :
               BeginReversal(v, kind, s, t)
    <2>1. SaleLocksExclusive'
      BY <1>1, <1>a DEF BeginReversal, SaleLocksExclusive, HoldsSale, TypeOK, SalesTypes,
                        dbVars, saleVars
    <2> QED
      BY <1>0, <1>1, <2>1 DEF BeginReversal
  <1>2. CASE LockSale(v)
    <2>1. UNCHANGED <<dbVars, postVars, saleVars>>
      BY <1>2 DEF LockSale, dbVars
    <2>2. CASE RevLeave(v)
      BY <1>0, <1>a, <2>1, <2>2, LeavingReversal
    <2>3. CASE saleStatus[revSale[v]] = "completed" /\ RevGoto(v, "locked") /\ UNCHANGED revShift
      <3>1. SaleLocksExclusive'
        BY <1>2, <1>a, <2>1, <2>3
        DEF LockSale, RevGoto, SaleLocksExclusive, HoldsSale, TypeOK, SalesTypes, saleVars
      <3> QED
        BY <1>0, <2>1, <3>1
    <2> QED
      BY <1>2, <2>2, <2>3 DEF LockSale
  <1>3. CASE ReadOpenShift(v)
    <2>1. UNCHANGED <<dbVars, postVars, saleVars>>
      BY <1>3 DEF ReadOpenShift, dbVars
    <2>2. CASE RevLeave(v)
      BY <1>0, <1>a, <2>1, <2>2, LeavingReversal
    <2>3. ASSUME NEW h, RevGoto(v, "checked"),
                 revShift' = [revShift EXCEPT ![v] =
                                IF h = saleDraft[revSale[v]].shift THEN h ELSE NoShift]
          PROVE  CoreInv'
      <3>1. revPc[v] = "locked"
        BY <1>3 DEF ReadOpenShift
      <3>2. SaleLocksExclusive'
        BY <1>a, <2>1, <2>3, <3>1
        DEF RevGoto, SaleLocksExclusive, HoldsSale, TypeOK, SalesTypes, saleVars
      <3> QED
        BY <1>0, <2>1, <3>2
    <2> QED
      BY <1>3, <2>2, <2>3 DEF ReadOpenShift
  <1>4. CASE CommitVoid(v)
    <2>1. TablesInv' /\ PostsInv' /\ SaleLocksExclusive'
      BY <1>4, ReversingSale DEF CommitVoid, HoldsSale
    <2> QED
      BY <2>1 DEF CoreInv, TablesInv, PostsInv
  <1>5. CASE CommitRefund(v)
    <2>1. TablesInv' /\ PostsInv' /\ SaleLocksExclusive'
      BY <1>5, ReversingSale DEF CommitRefund, HoldsSale
    <2> QED
      BY <2>1 DEF CoreInv, TablesInv, PostsInv
  <1>6. CASE AbortReversal(v)
    BY <1>0, <1>6, <1>a, LeavingReversal DEF AbortReversal, dbVars
  <1> QED
    BY <1>1, <1>2, <1>3, <1>4, <1>5, <1>6 DEF ReversalStep

----------------------------------------------------------------------------
(* Stock requests.                                                           *)

LEMMA LinesStep ==
  ASSUME TypeOK, StockLinesRight, [Next]_vars PROVE StockLinesRight'
  <1>1. UNCHANGED stkVars => StockLinesRight'
    BY DEF StockLinesRight, stkVars
  <1>2. ASSUME NEW w \in StockOps,
               \/ \E add \in Deliveries : BeginReceive(w, add)
               \/ \E k \in Keys, n \in Targets : BeginAdjust(w, k, n)
               \/ StockStep(w) \/ AbortStock(w)
        PROVE  StockLinesRight'
    <2> USE DEF TypeOK, StockTypes
    <2>1. ASSUME StkLeave(w) PROVE StockLinesRight'
      BY <2>1 DEF StkLeave, StockLinesRight, Zero
    <2>2. CASE \E add \in Deliveries : BeginReceive(w, add)
      <3>1. PICK add \in Deliveries : BeginReceive(w, add)
        BY <2>2
      <3>2. \A k \in Keys \ {l \in Keys : add[l] > 0} : add[k] = 0
        BY StockAssumption
      <3> QED
        BY <3>1, <3>2, StockAssumption DEF BeginReceive, StkBegin, StockLinesRight
    <2>3. CASE \E k \in Keys, n \in Targets : BeginAdjust(w, k, n)
      <3>1. PICK k \in Keys, n \in Targets : BeginAdjust(w, k, n)
        BY <2>3
      <3>2. \A l \in Keys \ {k} : [Zero EXCEPT ![k] = n][l] = 0
        BY DEF Zero
      <3> QED
        BY <3>1, <3>2 DEF BeginAdjust, StkBegin, StockLinesRight
    <2>4. CASE ReadLevels(w)
      BY <2>4 DEF ReadLevels, StockLinesRight
    <2>5. CASE RetryStock(w)
      BY <2>1, <2>5 DEF RetryStock, StockLinesRight
    <2>6. CASE CommitReceive(w) \/ CommitAdjust(w) \/ AbortStock(w)
      BY <2>1, <2>6 DEF CommitReceive, CommitAdjust, StkWrites, AbortStock
    <2> QED
      BY <1>2, <2>2, <2>3, <2>4, <2>5, <2>6 DEF StockStep
  <1> QED
    BY <1>1, <1>2 DEF Next, PostNext, ReversalNext, StockNext, ShiftNext, vars

(* The write of a delivery or of an adjust: no level falls below zero, and   *)
(* the rows a post holds are not among those written.                       *)
LEMMA StockWrite ==
  ASSUME TypeOK, CoreInv, NEW w \in StockOps, StkWrites(w),
         \A k \in stkLines[w] : qty'[k] >= 0,
         \A k \in Keys \ stkLines[w] : qty'[k] = qty[k]
  PROVE  TablesInv' /\ PostsInv' /\ SaleLocksExclusive'
  <1> USE DEF StkWrites
  <1>1. UNCHANGED <<saleVars, postVars, revVars>> /\ rows' = rows \cup stkLines[w]
    OBVIOUS
  <1>2. NoOversell'
    BY <1>1 DEF CoreInv, NoOversell
  <1>3. TablesInv'
    BY <1>1, <1>2
    DEF CoreInv, TablesInv, SalePostedOnce, ReturnedOnce, RefundChargedToOwnShift,
        SalesStoreDrafts, Stored, saleVars
  <1>4. AnswersTruthful'
    BY <1>1 DEF CoreInv, AnswersTruthful, Clashes, Stored, saleVars, postVars
  <1>5. LocksExclusive'
    BY <1>1 DEF CoreInv, LocksExclusive, postVars
  <1>6. GrantsStand'
    <2> SUFFICES ASSUME NEW p \in Posts, postPc[p] \in {"cleared", "numbered"},
                        NEW k \in Keys, postDraft[p].want[k] > 0
                 PROVE  k \in postHeld[p] /\ postDraft[p].want[k] <= qty'[k]
      BY <1>1 DEF GrantsStand, postVars
    <2>1. k \in postHeld[p] /\ postDraft[p].want[k] <= qty[k]
      BY DEF CoreInv, GrantsStand
    <2>2. k \notin stkLines[w]
      BY <2>1 DEF Unlocked
    <2> QED
      BY <2>1, <2>2
  <1>7. CopiesTakeElsewhere' /\ ClashesStand'
    BY <1>1 DEF CoreInv, CopiesTakeElsewhere, ClashesStand, Clashes, Stored, saleVars, postVars
  <1> QED
    BY <1>1, <1>3, <1>4, <1>5, <1>6, <1>7, SaleLocksKept DEF CoreInv, PostsInv

LEMMA StockCore ==
  ASSUME TypeOK, CoreInv, StockLinesRight, RequestsCarryDrafts', NEW w \in StockOps,
         \/ \E add \in Deliveries : BeginReceive(w, add)
         \/ \E k \in Keys, n \in Targets : BeginAdjust(w, k, n)
         \/ StockStep(w) \/ AbortStock(w)
  PROVE  CoreInv'
  <1>0. /\ stkLines[w] \subseteq Keys /\ stkAmount[w] \in [Keys -> Nat]
        /\ qty \in [Keys -> Int]
    BY DEF TypeOK, TableTypes, StockTypes
  <1>1. CASE \/ \E add \in Deliveries : BeginReceive(w, add)
             \/ \E k \in Keys, n \in Targets : BeginAdjust(w, k, n)
             \/ ReadLevels(w) \/ RetryStock(w) \/ AbortStock(w)
    <2>1. UNCHANGED <<postVars, revVars, dbVars>>
      BY <1>1 DEF BeginReceive, BeginAdjust, StkBegin, ReadLevels, RetryStock, AbortStock
    <2> QED
      BY <2>1, CoreKept DEF dbVars
  <1>2. CASE CommitReceive(w)
    <2>1. StkWrites(w) /\ \A k \in Keys : qty'[k] = qty[k] + stkAmount[w][k]
      BY <1>2 DEF CommitReceive
    <2>2. \A k \in stkLines[w] : qty'[k] >= 0
      BY <1>0, <2>1 DEF CoreInv, NoOversell
    <2>3. \A k \in Keys \ stkLines[w] : qty'[k] = qty[k]
      BY <1>0, <2>1 DEF StockLinesRight
    <2>4. TablesInv' /\ PostsInv' /\ SaleLocksExclusive'
      BY <2>1, <2>2, <2>3, StockWrite
    <2> QED
      BY <2>4 DEF CoreInv, TablesInv, PostsInv
  <1>3. CASE CommitAdjust(w)
    <2>1. /\ StkWrites(w)
          /\ \A k \in Keys : qty'[k] = IF k \in stkLines[w] THEN stkAmount[w][k] ELSE qty[k]
      BY <1>3 DEF CommitAdjust
    <2>2. TablesInv' /\ PostsInv' /\ SaleLocksExclusive'
      BY <1>0, <2>1, StockWrite
    <2> QED
      BY <2>2 DEF CoreInv, TablesInv, PostsInv
  <1> QED
    BY <1>1, <1>2, <1>3 DEF StockStep

----------------------------------------------------------------------------
(* All together.                                                             *)

LEMMA IndStep ==
  ASSUME IndInv, [Next]_vars PROVE IndInv'
  <1>1. TypeOK /\ CoreInv /\ StockLinesRight /\ RequestsCarryDrafts
    BY DEF IndInv, CoreInv
  <1>2. TypeOK' /\ RequestsCarryDrafts'
    BY <1>1, TypeStep
  <1>3. StockLinesRight'
    BY <1>1, LinesStep
  <1>4. CoreInv'
    <2>1. CASE PostNext
      BY <1>1, <1>2, <2>1, PostCore DEF PostNext
    <2>2. CASE ReversalNext
      BY <1>1, <1>2, <2>2, ReversalCore DEF ReversalNext
    <2>3. CASE StockNext
      BY <1>1, <1>2, <2>3, StockCore DEF StockNext
    <2>4. CASE ShiftNext
      BY <1>1, <1>2, <2>4, ShiftOpTypesStep, CoreKept DEF ShiftNext
    <2>5. CASE UNCHANGED vars
      BY <1>1, <1>2, <2>5, CoreKept DEF vars, dbVars
    <2> QED
      BY <2>1, <2>2, <2>3, <2>4, <2>5 DEF Next
  <1> QED
    BY <1>2, <1>3, <1>4 DEF IndInv

LEMMA InitInd == Init => IndInv
  <1>1. Init => StockLinesRight
    BY DEF Init, InitStock, StockLinesRight, Zero
  <1> QED
    BY <1>1, InitTypes, InitCore DEF IndInv

(* The inductive invariant holds of every reachable state: it is what the     *)
(* safety theorems below are read off.                                       *)
THEOREM InductiveInvariant == Spec => []IndInv
  <1>1. IndInv /\ [Next]_vars => IndInv'
    BY IndStep
  <1> QED
    BY <1>1, InitInd, PTL DEF Spec

(* No interleaving oversells: lockStock and the conflict pass of persist      *)
(* suffice against every number of posts, reversals, deliveries, adjusts.    *)
THEOREM NeverOversold == Spec => []NoOversell
  <1>1. IndInv => NoOversell
    BY DEF IndInv, CoreInv
  <1> QED
    BY <1>1, InductiveInvariant, PTL

(* A sale takes its stock once however often its draft is sent (completeSale).*)
THEOREM StockMovedOnce == Spec => []SalePostedOnce
  <1>1. IndInv => SalePostedOnce
    BY DEF IndInv, CoreInv
  <1> QED
    BY <1>1, InductiveInvariant, PTL

(* It gives its stock back once however many voids and refunds race on it, and *)
(* gives back what it took (restoreStock).                                   *)
THEOREM StockReturnedOnce == Spec => []ReturnedOnce
  <1>1. IndInv => ReturnedOnce
    BY DEF IndInv, CoreInv
  <1> QED
    BY <1>1, InductiveInvariant, PTL

(* The answer a client holds is right about the database (completeSale).      *)
THEOREM AnswersRight == Spec => []AnswersTruthful
  <1>1. IndInv => AnswersTruthful
    BY DEF IndInv, CoreInv
  <1> QED
    BY <1>1, InductiveInvariant, PTL

(* A post told of a conflict has passed its second look; a sale of its id stored *)
(* since then held none of its rows.                                         *)
LEMMA ConflictStep ==
  ASSUME IndInv, [Next]_vars, NEW p \in Posts,
         postReply'[p] = "conflict", postReply[p] # "conflict", Stored(postDraft[p].id)
  PROVE  \A k \in postHeld[p] : saleDraft[postDraft[p].id].want[k] = 0
  <1>0. postReply \in [Posts -> Replies]
    BY DEF IndInv, TypeOK, SalesTypes
  <1>1. postReply' # postReply
    OBVIOUS
  <1>2. PICK q \in Posts :
          \/ \E d \in Drafts : Submit(q, d)
          \/ PostStep(q) \/ Refuse(q) \/ AbortPost(q)
    <2>1. CASE PostNext
      BY <2>1 DEF PostNext
    <2>2. CASE ReversalNext
      <3>1. PICK v \in Reversals :
              \/ \E kind \in {"void", "refund"}, s \in SaleIds, t \in Terminals :
                   BeginReversal(v, kind, s, t)
              \/ ReversalStep(v) \/ AbortReversal(v)
        BY <2>2 DEF ReversalNext
      <3> QED
        BY <1>1, <3>1
        DEF ReversalStep, BeginReversal, AbortReversal, LockSale, ReadOpenShift, CommitVoid,
            CommitRefund, postVars
    <2>3. CASE StockNext
      BY <1>1, <2>3, StockOpTypes DEF StockNext, IndInv, postVars
    <2>4. CASE ShiftNext
      BY <1>1, <2>4, ShiftOpTypesStep DEF ShiftNext, IndInv, postVars
    <2>5. CASE UNCHANGED vars
      BY <1>1, <2>5 DEF vars, postVars
    <2> QED
      BY <2>1, <2>2, <2>3, <2>4, <2>5 DEF Next
  <1>3. CASE ConflictPass(q)
    <2>1. postPc[q] = "looked" /\ q = p
      BY <1>0, <1>3 DEF ConflictPass, Answer, Goto
    <2> QED
      BY <2>1 DEF IndInv, CoreInv, CopiesTakeElsewhere
  <1>4. CASE ~ConflictPass(q)
    <2>1. \E r \in Replies \ {"conflict"} : postReply' = [postReply EXCEPT ![q] = r]
      BY <1>1, <1>2, <1>4
      DEF PostStep, Submit, FastPath, CheckShift, LockStock, LookAgain, ReadSeq,
          CommitClash, ExplainClash, CommitSale, Refuse, AbortPost, Answer, Goto, Replies
    <2> QED
      BY <1>0, <2>1
  <1> QED
    BY <1>3, <1>4

(* A 409 never counts against a draft what the sale of its own id took: the second *)
(* look at the id under the row lock, and the locks that a sale of that id needs *)
(* to be stored after it, see to that (persist).                             *)
THEOREM CopiesNeverConflict == Spec => ReplayNeverConflicts
  <1>1. ASSUME IndInv, [Next]_vars
        PROVE  [\A p \in Posts :
                  LET s == postDraft[p].id
                  IN  postReply'[p] = "conflict" /\ postReply[p] # "conflict" /\ Stored(s)
                        => \A k \in postHeld[p] : saleDraft[s].want[k] = 0]_vars
    BY <1>1, ConflictStep
  <1> QED
    BY <1>1, InductiveInvariant, PTL DEF Spec, ReplayNeverConflicts

----------------------------------------------------------------------------
(* What a step may do to the book of sales.                                  *)

LEMMA EnterStep ==
  ASSUME TypeOK, CoreInv, NEW p \in Posts, CommitSale(p)
  PROVE  Book!Enter(postDraft[p])
  <1> DEFINE d == postDraft[p]
  <1>1. d \in Drafts /\ d.id \in SaleIds /\ d.want \in [Keys -> Nat]
    BY DraftFields DEF CommitSale, CoreInv, RequestsCarryDrafts
  <1>2. saleStatus[d.id] = "none"
    BY <1>1 DEF CommitSale, Clashes, Stored
  <1>3. \A s \in SaleIds : saleStatus[s] # "none" => Book!Distinct(d, s)
    BY DEF CommitSale, Clashes, Stored, Book!Distinct
  <1>4. \A k \in Keys : d.want[k] <= qty[k]
    <2> SUFFICES ASSUME NEW k \in Keys PROVE d.want[k] <= qty[k]
      OBVIOUS
    <2>1. CASE d.want[k] > 0
      BY <2>1 DEF CommitSale, CoreInv, GrantsStand
    <2>2. CASE d.want[k] = 0
      BY <2>2 DEF CoreInv, NoOversell, TypeOK, TableTypes
    <2> QED
      BY <1>1, <2>1, <2>2
  <1> QED
    BY <1>2, <1>3, <1>4 DEF CommitSale, Book!Enter

LEMMA GoodsBackStep ==
  ASSUME TypeOK, CoreInv, NEW s \in SaleIds, saleStatus[s] = "completed",
         RestoreStock(s), UNCHANGED saleDraft
  PROVE  Book!GoodsBack(s)
  <1>1. saleDraft[s] \in Drafts /\ saleDraft[s].want \in [Keys -> Nat]
    BY DraftFields DEF CoreInv, SalesStoreDrafts, Stored
  <1>2. \A k \in Keys : saleMoves[s][k] = -saleDraft[s].want[k] /\ qty[k] \in Int
    BY DEF CoreInv, SalePostedOnce, Stored, TypeOK, TableTypes
  <1>3. qty' = [k \in Keys |-> qty[k] + saleDraft[s].want[k]]
    <2>1. \A k \in Keys : qty[k] - saleMoves[s][k] = qty[k] + saleDraft[s].want[k]
      BY <1>1, <1>2
    <2> QED
      BY <2>1 DEF RestoreStock
  <1> QED
    BY <1>3 DEF Book!GoodsBack

(* One step of the branch is one step of the book, or none.                  *)
LEMMA BookStep ==
  ASSUME IndInv, IndInv', [Next]_vars
  PROVE  [Book!Next]_(Book!bookVars)
  <1> USE DEF IndInv
  <1>0. ASSUME UNCHANGED dbVars PROVE UNCHANGED Book!bookVars
    BY <1>0 DEF dbVars, stockVars, saleVars, Book!bookVars
  <1>1. CASE PostNext
    <2>1. PICK p \in Posts :
            \/ \E d \in Drafts : Submit(p, d)
            \/ PostStep(p) \/ Refuse(p) \/ AbortPost(p)
      BY <1>1 DEF PostNext
    <2>2. CASE CommitSale(p)
      <3>1. postDraft[p] \in Drafts
        BY <2>2 DEF CommitSale, CoreInv, RequestsCarryDrafts
      <3> QED
        BY <2>2, <3>1, EnterStep DEF Book!Next
    <2>3. CASE ~CommitSale(p)
      <3>1. UNCHANGED dbVars
        BY <2>1, <2>3
        DEF PostStep, Submit, Refuse, AbortPost, FastPath, CheckShift, LockStock,
            LookAgain, ConflictPass, ReadSeq, CommitClash, ExplainClash
      <3> QED
        BY <1>0, <3>1
    <2> QED
      BY <2>2, <2>3
  <1>2. CASE ReversalNext
    <2>1. PICK v \in Reversals :
            \/ \E kind \in {"void", "refund"}, s \in SaleIds, t \in Terminals :
                 BeginReversal(v, kind, s, t)
            \/ ReversalStep(v) \/ AbortReversal(v)
      BY <1>2 DEF ReversalNext
    <2>2. HoldsSale(v) => revSale[v] \in SaleIds /\ saleStatus[revSale[v]] = "completed"
      BY DEF CoreInv, SaleLocksExclusive, TypeOK, SalesTypes
    <2>3. CASE CommitVoid(v)
      <3>1. Book!GoodsBack(revSale[v])
        BY <2>2, <2>3, GoodsBackStep DEF CommitVoid, HoldsSale
      <3> QED
        BY <2>2, <2>3, <3>1 DEF CommitVoid, HoldsSale, Book!Void, Book!Next
    <2>4. CASE CommitRefund(v)
      <3>1. Book!GoodsBack(revSale[v])
        BY <2>2, <2>4, GoodsBackStep DEF CommitRefund, HoldsSale
      <3>2. revShift[v] \in {saleDraft[revSale[v]].shift, NoShift}
        BY <2>4 DEF CommitRefund, CoreInv, SaleLocksExclusive
      <3> QED
        BY <2>2, <2>4, <3>1, <3>2 DEF CommitRefund, HoldsSale, Book!Refund, Book!Next
    <2>5. CASE ~CommitVoid(v) /\ ~CommitRefund(v)
      <3>1. UNCHANGED dbVars
        BY <2>1, <2>5 DEF ReversalStep, BeginReversal, AbortReversal, LockSale, ReadOpenShift
      <3> QED
        BY <1>0, <3>1
    <2> QED
      BY <2>3, <2>4, <2>5
  <1>3. CASE StockNext
    <2>1. PICK w \in StockOps :
            \/ \E add \in Deliveries : BeginReceive(w, add)
            \/ \E k \in Keys, n \in Targets : BeginAdjust(w, k, n)
            \/ StockStep(w) \/ AbortStock(w)
      BY <1>3 DEF StockNext
    <2>2. qty' \in [Keys -> Nat] /\ qty \in [Keys -> Nat]
      BY DEF CoreInv, NoOversell, TypeOK, TableTypes
    <2>3. stkAmount[w] \in [Keys -> Nat]
      BY DEF TypeOK, StockTypes
    <2>4. CASE CommitReceive(w)
      <3>1. \A k \in Keys : qty'[k] >= qty[k]
        BY <2>2, <2>3, <2>4 DEF CommitReceive
      <3> QED
        BY <2>2, <2>4, <3>1
        DEF CommitReceive, StkWrites, saleVars, Book!Restock, Book!Next
    <2>5. CASE CommitAdjust(w)
      <3>1. PICK k \in Keys : stkLines[w] = {k}
        BY <2>5 DEF CommitAdjust, StockLinesRight
      <3>2. Book!Recount(k)
        BY <2>2, <2>5, <3>1 DEF CommitAdjust, StkWrites, saleVars, Book!Recount
      <3> QED
        BY <3>2 DEF Book!Next
    <2>6. CASE ~CommitReceive(w) /\ ~CommitAdjust(w)
      <3>1. UNCHANGED dbVars
        BY <2>1, <2>6
        DEF StockStep, BeginReceive, BeginAdjust, StkBegin, ReadLevels, RetryStock, AbortStock
      <3> QED
        BY <1>0, <3>1
    <2> QED
      BY <2>4, <2>5, <2>6
  <1>4. CASE ShiftNext
    <2>1. UNCHANGED <<stockVars, saleVars>>
      BY <1>4, ShiftOpTypesStep DEF ShiftNext
    <2> QED
      BY <2>1 DEF stockVars, saleVars, Book!bookVars
  <1>5. CASE UNCHANGED vars
    BY <1>0, <1>5 DEF vars
  <1> QED
    BY <1>1, <1>2, <1>3, <1>4, <1>5 DEF Next

(* The handlers implement the book of sales: every step of every interleaving *)
(* is one whole entry, void, refund, restock or recount, or leaves the book  *)
(* alone (pos-spec.md, section 5: "A sale never half-commits").              *)
THEOREM BranchImplementsBook == Spec => ImplementsSaleBook
  <1>1. Init => Book!Init
    BY DEF Init, InitTables, Book!Init
  <1>2. IndInv /\ IndInv' /\ [Next]_vars => [Book!Next]_(Book!bookVars)
    BY BookStep
  <1> QED
    BY <1>1, <1>2, InductiveInvariant, PTL DEF Spec, ImplementsSaleBook, Book!Spec

(* Statuses are terminal and a stored sale is never lost or rewritten: no     *)
(* entry, void or refund of the book does it, so no handler does.            *)
THEOREM StatusesNeverReopen == Spec => StatusesTerminal
  <1> DEFINE Final(s) ==
        /\ saleStatus[s] \in {"voided", "refunded"} =>
             saleStatus'[s] = saleStatus[s] /\ refundShift'[s] = refundShift[s]
        /\ Stored(s) => saleStatus'[s] # "none" /\ saleDraft'[s] = saleDraft[s]
  <1>1. ASSUME IndInv, [Book!Next]_(Book!bookVars), NEW s \in SaleIds
        PROVE  Final(s)
    <2>0. /\ saleStatus \in [SaleIds -> Statuses]
          /\ saleDraft \in [SaleIds -> Drafts \cup {NoDraft}]
          /\ refundShift \in [SaleIds -> ShiftIds \cup {NoShift}]
      BY <1>1 DEF IndInv, TypeOK, TableTypes
    <2>1. CASE \E d \in Drafts : Book!Enter(d)
      BY <2>0, <2>1 DEF Book!Enter, Stored
    <2>2. CASE \E r \in SaleIds : Book!Void(r)
      BY <2>0, <2>2 DEF Book!Void, Book!GoodsBack, Stored
    <2>3. CASE \E r \in SaleIds : Book!Refund(r)
      BY <2>0, <2>3 DEF Book!Refund, Book!GoodsBack, Stored
    <2>4. CASE Book!Restock \/ (\E k \in Keys : Book!Recount(k)) \/ UNCHANGED Book!bookVars
      BY <2>4 DEF Book!Restock, Book!Recount, Book!bookVars, Stored
    <2> QED
      BY <1>1, <2>1, <2>2, <2>3, <2>4 DEF Book!Next
  <1>2. IndInv /\ IndInv' /\ [Next]_vars => [\A s \in SaleIds : Final(s)]_vars
    BY <1>1, BookStep
  <1> QED
    BY <1>2, InductiveInvariant, PTL DEF Spec, StatusesTerminal

(* The step behind the next two theorems: only an adjust can part a level     *)
(* from its movements, and only one whose read is stale.                     *)
LEMMA DriftStep ==
  ASSUME IndInv, [Next]_vars, NEW k \in Keys, Drifts(k)
  PROVE  StaleAdjust(k)
  <1>0. qty \in [Keys -> Int] /\ movedQty \in [Keys -> Int]
    BY DEF IndInv, TypeOK, TableTypes
  <1>1. ASSUME UNCHANGED stockVars PROVE FALSE
    BY <1>0, <1>1 DEF Drifts, stockVars
  <1>2. ASSUME NEW n \in Int, qty'[k] = qty[k] + n /\ movedQty'[k] = movedQty[k] + n
        PROVE  FALSE
    BY <1>0, <1>2 DEF Drifts
  <1>3. CASE PostNext
    <2>1. PICK p \in Posts :
            \/ \E d \in Drafts : Submit(p, d)
            \/ PostStep(p) \/ Refuse(p) \/ AbortPost(p)
      BY <1>3 DEF PostNext
    <2>2. CASE CommitSale(p)
      <3>1. postDraft[p].want \in [Keys -> Nat]
        BY <2>2, DraftFields DEF CommitSale, IndInv, CoreInv, RequestsCarryDrafts
      <3>2. /\ qty'[k] = qty[k] + (-postDraft[p].want[k])
            /\ movedQty'[k] = movedQty[k] + (-postDraft[p].want[k])
        BY <1>0, <2>2, <3>1 DEF CommitSale
      <3>3. -postDraft[p].want[k] \in Int
        BY <3>1
      <3> QED
        BY <1>2, <3>2, <3>3
    <2>3. CASE ~CommitSale(p)
      BY <1>1, <2>1, <2>3
      DEF PostStep, Submit, Refuse, AbortPost, FastPath, CheckShift, LockStock, LookAgain,
          ConflictPass, ReadSeq, CommitClash, ExplainClash, dbVars
    <2> QED
      BY <2>2, <2>3
  <1>4. CASE ReversalNext
    <2>1. PICK v \in Reversals :
            \/ \E kind \in {"void", "refund"}, s \in SaleIds, t \in Terminals :
                 BeginReversal(v, kind, s, t)
            \/ ReversalStep(v) \/ AbortReversal(v)
      BY <1>4 DEF ReversalNext
    <2>2. CASE CommitVoid(v) \/ CommitRefund(v)
      <3>1. saleMoves[revSale[v]] \in [Keys -> Int]
        BY DEF IndInv, TypeOK, TableTypes, SalesTypes
      <3>2. /\ qty'[k] = qty[k] + (-saleMoves[revSale[v]][k])
            /\ movedQty'[k] = movedQty[k] + (-saleMoves[revSale[v]][k])
        BY <1>0, <2>2, <3>1 DEF CommitVoid, CommitRefund, RestoreStock
      <3>3. -saleMoves[revSale[v]][k] \in Int
        BY <3>1
      <3> QED
        BY <1>2, <3>2, <3>3
    <2>3. CASE ~CommitVoid(v) /\ ~CommitRefund(v)
      BY <1>1, <2>1, <2>3
      DEF ReversalStep, BeginReversal, AbortReversal, LockSale, ReadOpenShift, dbVars
    <2> QED
      BY <2>2, <2>3
  <1>5. CASE StockNext
    <2>1. PICK w \in StockOps :
            \/ \E add \in Deliveries : BeginReceive(w, add)
            \/ \E key \in Keys, n \in Targets : BeginAdjust(w, key, n)
            \/ StockStep(w) \/ AbortStock(w)
      BY <1>5 DEF StockNext
    <2>2. stkAmount[w] \in [Keys -> Int] /\ stkSeen[w] \in [Keys -> Int]
      BY DEF IndInv, TypeOK, StockTypes
    <2>3. CASE CommitReceive(w)
      BY <1>0, <1>2, <2>2, <2>3 DEF CommitReceive
    <2>4. CASE CommitAdjust(w)
      <3>1. k \in stkLines[w] /\ stkSeen[w][k] # qty[k]
        BY <1>0, <2>2, <2>4 DEF CommitAdjust, Drifts
      <3> QED
        BY <2>4, <3>1 DEF CommitAdjust, StkWrites, StaleAdjust
    <2>5. CASE ~CommitReceive(w) /\ ~CommitAdjust(w)
      BY <1>1, <2>1, <2>5
      DEF StockStep, BeginReceive, BeginAdjust, StkBegin, ReadLevels, RetryStock, AbortStock, dbVars
    <2> QED
      BY <2>3, <2>4, <2>5
  <1>6. CASE ShiftNext
    BY <1>1, <1>6, ShiftOpTypesStep DEF ShiftNext, IndInv
  <1>7. CASE UNCHANGED vars
    BY <1>1, <1>7 DEF vars, dbVars
  <1> QED
    BY <1>3, <1>4, <1>5, <1>6, <1>7 DEF Next

(* A level parts from its movements only where an adjust overwrites what       *)
(* changed since it was read (StockService.adjust): sales, reversals and      *)
(* deliveries in any number, racing and retried, never do it.                 *)
THEOREM LedgerDrifts == Spec => LedgerDriftsByAdjustOnly
  <1>1. IndInv /\ IndInv' /\ [Next]_vars => [\A k \in Keys : Drifts(k) => StaleAdjust(k)]_vars
    BY DriftStep
  <1> QED
    BY <1>1, InductiveInvariant, PTL DEF Spec, LedgerDriftsByAdjustOnly

(* Where nobody adjusts, the stock movements account for every level.         *)
THEOREM LedgerWithoutAdjust ==
  ASSUME Targets = {} PROVE Spec => []LedgerMatchesLevels
  <1> DEFINE Inv == LedgerMatchesLevels /\ \A w \in StockOps : stkKind[w] = "receive"
  <1>1. Init => Inv
    BY OpeningAssumption
    DEF Init, InitTables, InitStock, LedgerMatchesLevels, Zero
  <1>2. ASSUME IndInv, IndInv', Inv, [Next]_vars PROVE Inv'
    <2>1. LedgerMatchesLevels'
      <3>1. \A k \in Keys : ~StaleAdjust(k)
        BY <1>2 DEF StaleAdjust
      <3>2. \A k \in Keys : qty'[k] - movedQty'[k] = qty[k] - movedQty[k]
        BY <1>2, <3>1, DriftStep DEF Drifts
      <3>3. /\ qty \in [Keys -> Int] /\ movedQty \in [Keys -> Int]
            /\ qty' \in [Keys -> Int] /\ movedQty' \in [Keys -> Int]
            /\ OpeningQty \in [Keys -> Nat]
        BY <1>2, OpeningAssumption DEF IndInv, TypeOK, TableTypes
      <3> QED
        BY <1>2, <3>2, <3>3 DEF LedgerMatchesLevels
    <2>2. \A w \in StockOps : stkKind'[w] = "receive"
      <3>1. CASE UNCHANGED stkVars
        BY <1>2, <3>1 DEF stkVars
      <3>2. CASE StockNext
        <4>1. PICK w \in StockOps :
                \/ \E add \in Deliveries : BeginReceive(w, add)
                \/ StockStep(w) \/ AbortStock(w)
          BY <3>2 DEF StockNext
        <4> QED
          BY <1>2, <4>1
          DEF BeginReceive, StkBegin, StockStep, ReadLevels, RetryStock, CommitReceive,
              CommitAdjust, StkWrites, StkLeave, AbortStock, IndInv, TypeOK, StockTypes
      <3> QED
        BY <1>2, <3>1, <3>2 DEF Next, PostNext, ReversalNext, ShiftNext, vars
    <2> QED
      BY <2>1, <2>2
  <1> QED
    BY <1>1, <1>2, InductiveInvariant, PTL DEF Spec

----------------------------------------------------------------------------
(* What the standing sales have taken.                                       *)

Taken(k) == [s \in Standing |-> saleDraft[s].want[k]]

TakenTypes ==
  \A k \in Keys :
    /\ IsFiniteSet(Standing) /\ Taken(k) \in [Standing -> Int]
    /\ Total(Taken(k)) \in Int
    /\ SumOf(Standing, LAMBDA s : saleDraft[s].want[k]) = Total(Taken(k))

LEMMA TakenType == TypeOK /\ CoreInv => TakenTypes
  <1> SUFFICES ASSUME TypeOK, CoreInv, NEW k \in Keys
               PROVE  /\ IsFiniteSet(Standing) /\ Taken(k) \in [Standing -> Int]
                      /\ Total(Taken(k)) \in Int
                      /\ SumOf(Standing, LAMBDA s : saleDraft[s].want[k]) = Total(Taken(k))
    BY DEF TakenTypes
  <1>1. IsFiniteSet(Standing)
    BY FiniteAssumption, FS_Subset DEF Standing
  <1>2. \A s \in Standing : saleDraft[s].want \in [Keys -> Nat]
    BY DraftFields DEF Standing, CoreInv, SalesStoreDrafts, Stored
  <1>3. Taken(k) \in [Standing -> Int]
    BY <1>2 DEF Taken
  <1> QED
    BY <1>1, <1>3, SumType DEF SumOf, Taken

LEMMA TakenTypeNext == TypeOK' /\ CoreInv' => TakenTypes'
  BY TakenType, PTL

(* A sale that starts to stand adds what it takes to what is taken; one that   *)
(* no longer stands subtracts it.                                            *)
LEMMA SaleEntered ==
  ASSUME TypeOK, CoreInv, TypeOK', CoreInv', NEW p \in Posts, CommitSale(p), NEW k \in Keys
  PROVE  qty'[k] + Total(Taken(k))' = qty[k] + Total(Taken(k))
  <1> DEFINE d == postDraft[p]
  <1>1. d \in Drafts /\ d.id \in SaleIds /\ d.want \in [Keys -> Nat]
    BY DraftFields DEF CommitSale, CoreInv, RequestsCarryDrafts
  <1>2. saleStatus[d.id] = "none"
    BY <1>1 DEF CommitSale, Clashes, Stored
  <1>3. /\ saleDraft' = [saleDraft EXCEPT ![d.id] = d]
        /\ saleStatus' = [saleStatus EXCEPT ![d.id] = "completed"]
        /\ qty'[k] = qty[k] - d.want[k] /\ qty[k] \in Int
    BY DEF CommitSale, TypeOK, TableTypes
  <1>4. d.id \in Standing' /\ Standing = Standing' \ {d.id}
    BY <1>1, <1>2, <1>3 DEF Standing, TypeOK, TableTypes
  <1>5. /\ Taken(k)'[d.id] = d.want[k]
        /\ \A s \in Standing' \ {d.id} : Taken(k)[s] = Taken(k)'[s]
    BY <1>1, <1>3, <1>4 DEF Taken, TypeOK, TableTypes
  <1>6. /\ IsFiniteSet(Standing') /\ Taken(k)' \in [Standing' -> Int]
        /\ Taken(k) \in [Standing' \ {d.id} -> Int]
    BY <1>4, TakenType, TakenTypeNext DEF TakenTypes
  <1>7. /\ Total(Taken(k)') = Taken(k)'[d.id] + Total(Taken(k))
        /\ Total(Taken(k)) \in Int
    <2> DEFINE S == Standing'
               x == d.id
               f == Taken(k)
               g == Taken(k)'
    <2>1. /\ IsFiniteSet(S) /\ x \in S /\ g \in [S -> Int] /\ f \in [S \ {x} -> Int]
          /\ \A s \in S \ {x} : f[s] = g[s]
      BY <1>4, <1>5, <1>6
    <2>2. Total(g) = g[x] + Total(f) /\ Total(f) \in Int
      <3> HIDE DEF d, S, x, f, g
      <3> QED
        BY <2>1, SumOneMore
    <2> QED
      BY <2>2
  <1> QED
    BY <1>1, <1>3, <1>5, <1>7

Reversed(s) ==
  /\ saleStatus[s] = "completed" /\ RestoreStock(s) /\ UNCHANGED saleDraft
  /\ \E kind \in {"voided", "refunded"} : saleStatus' = [saleStatus EXCEPT ![s] = kind]

LEMMA SaleReversed ==
  ASSUME TypeOK, CoreInv, TypeOK', CoreInv', NEW s \in SaleIds, Reversed(s), NEW k \in Keys
  PROVE  qty'[k] + Total(Taken(k))' = qty[k] + Total(Taken(k))
  <1>1. saleDraft[s].want \in [Keys -> Nat] /\ qty[k] \in Int
    BY DraftFields DEF CoreInv, SalesStoreDrafts, Stored, Reversed, TypeOK, TableTypes
  <1>2. qty'[k] = qty[k] + saleDraft[s].want[k]
    <2>1. saleMoves[s][k] = -saleDraft[s].want[k]
      BY DEF CoreInv, SalePostedOnce, Stored, Reversed
    <2> QED
      BY <1>1, <2>1 DEF Reversed, RestoreStock
  <1>3. s \in Standing /\ Standing' = Standing \ {s}
    BY DEF Standing, Reversed, TypeOK, TableTypes
  <1>4. /\ Taken(k)[s] = saleDraft[s].want[k]
        /\ \A t \in Standing \ {s} : Taken(k)'[t] = Taken(k)[t]
    BY <1>3 DEF Taken, Reversed
  <1>5. /\ IsFiniteSet(Standing) /\ Taken(k) \in [Standing -> Int]
        /\ Taken(k)' \in [Standing \ {s} -> Int]
    BY <1>3, TakenType, TakenTypeNext DEF TakenTypes
  <1>6. /\ Total(Taken(k)) = Taken(k)[s] + Total(Taken(k)')
        /\ Total(Taken(k)') \in Int
    <2> DEFINE S == Standing
               x == s
               f == Taken(k)'
               g == Taken(k)
    <2>1. /\ IsFiniteSet(S) /\ x \in S /\ g \in [S -> Int] /\ f \in [S \ {x} -> Int]
          /\ \A t \in S \ {x} : f[t] = g[t]
      BY <1>3, <1>4, <1>5
    <2>2. Total(g) = g[x] + Total(f) /\ Total(f) \in Int
      <3> HIDE DEF S, x, f, g
      <3> QED
        BY <2>1, SumOneMore
    <2> QED
      BY <2>2
  <1> QED
    BY <1>1, <1>2, <1>4, <1>6

LEMMA TakenStep ==
  ASSUME StockOps = {}, IndInv, IndInv', [Next]_vars, NEW k \in Keys
  PROVE  qty'[k] + Total(Taken(k))' = qty[k] + Total(Taken(k))
  <1> USE DEF IndInv
  <1>0. ASSUME UNCHANGED <<stockVars, saleVars>>
        PROVE  qty'[k] + Total(Taken(k))' = qty[k] + Total(Taken(k))
    BY <1>0 DEF stockVars, saleVars, Taken, Standing
  <1>1. CASE PostNext
    <2>1. PICK p \in Posts :
            \/ \E d \in Drafts : Submit(p, d)
            \/ PostStep(p) \/ Refuse(p) \/ AbortPost(p)
      BY <1>1 DEF PostNext
    <2>2. CASE CommitSale(p)
      BY <2>2, SaleEntered
    <2>3. CASE ~CommitSale(p)
      <3>1. UNCHANGED dbVars
        BY <2>1, <2>3
        DEF PostStep, Submit, Refuse, AbortPost, FastPath, CheckShift, LockStock,
            LookAgain, ConflictPass, ReadSeq, CommitClash, ExplainClash
      <3> QED
        BY <1>0, <3>1 DEF dbVars
    <2> QED
      BY <2>2, <2>3
  <1>2. CASE ReversalNext
    <2>1. PICK v \in Reversals :
            \/ \E kind \in {"void", "refund"}, s \in SaleIds, t \in Terminals :
                 BeginReversal(v, kind, s, t)
            \/ ReversalStep(v) \/ AbortReversal(v)
      BY <1>2 DEF ReversalNext
    <2>2. HoldsSale(v) => revSale[v] \in SaleIds /\ saleStatus[revSale[v]] = "completed"
      BY DEF CoreInv, SaleLocksExclusive, TypeOK, SalesTypes
    <2>3. CASE CommitVoid(v) \/ CommitRefund(v)
      <3>1. HoldsSale(v) /\ RestoreStock(revSale[v]) /\ UNCHANGED saleDraft
        BY <2>3 DEF CommitVoid, CommitRefund, HoldsSale
      <3>2. \E kind \in {"voided", "refunded"} :
              saleStatus' = [saleStatus EXCEPT ![revSale[v]] = kind]
        BY <2>3 DEF CommitVoid, CommitRefund
      <3> QED
        BY <2>2, <3>1, <3>2, SaleReversed DEF Reversed
    <2>4. CASE ~CommitVoid(v) /\ ~CommitRefund(v)
      <3>1. UNCHANGED dbVars
        BY <2>1, <2>4 DEF ReversalStep, BeginReversal, AbortReversal, LockSale, ReadOpenShift
      <3> QED
        BY <1>0, <3>1 DEF dbVars
    <2> QED
      BY <2>3, <2>4
  <1>3. CASE ShiftNext
    BY <1>0, <1>3, ShiftOpTypesStep DEF ShiftNext
  <1>4. CASE UNCHANGED vars
    BY <1>0, <1>4 DEF vars, dbVars
  <1> QED
    BY <1>1, <1>2, <1>3, <1>4 DEF Next, StockNext

(* While only sales and reversals move stock, what the standing sales took is  *)
(* what is missing from the shelf: for any drafts sent any number of times,   *)
(* any voids and refunds racing on them, any refusals and crashes in between. *)
THEOREM SalesConserveStock ==
  ASSUME StockOps = {} PROVE Spec => []StockConserved
  <1>1. ASSUME IndInv PROVE StockConserved <=>
          \A k \in Keys : qty[k] + Total(Taken(k)) = OpeningQty[k]
    BY <1>1, TakenType DEF IndInv, StockConserved, TakenTypes
  <1>2. Init /\ IndInv => StockConserved
    <2> SUFFICES ASSUME Init, IndInv, NEW k \in Keys
                 PROVE  qty[k] + Total(Taken(k)) = OpeningQty[k]
      BY <1>1
    <2>1. Standing = {} /\ qty[k] = OpeningQty[k] /\ OpeningQty[k] \in Nat
      BY OpeningAssumption DEF Init, InitTables, Standing
    <2>2. DOMAIN Taken(k) = {}
      BY <2>1 DEF Taken
    <2>3. Total(Taken(k)) = 0
      BY <2>2, SumEmpty
    <2> QED
      BY <2>1, <2>3
  <1>3. ASSUME IndInv, IndInv', [Next]_vars, StockConserved PROVE StockConserved'
    <2>1. \A k \in Keys : qty'[k] + Total(Taken(k))' = qty[k] + Total(Taken(k))
      BY <1>3, TakenStep
    <2>2. \A k \in Keys : qty[k] + Total(Taken(k)) = OpeningQty[k]
      BY <1>1, <1>3
    <2>3. \A k \in Keys :
            SumOf(Standing, LAMBDA s : saleDraft[s].want[k])' = Total(Taken(k))'
      BY <1>3, TakenTypeNext DEF IndInv, TakenTypes
    <2> QED
      BY <2>1, <2>2, <2>3 DEF StockConserved
  <1> QED
    BY <1>2, <1>3, InitInd, InductiveInvariant, PTL DEF Spec

-----------------------------------------------------------------------------
(* What a terminal may rely on when it sends nothing while a request of its    *)
(* own runs: its sales and voids fall into its one open shift, its receipt    *)
(* counter stays ahead, and a Z report stays true.  For any number of         *)
(* terminals, shifts, drafts and requests.                                    *)

(* Who is in the server for a terminal.                                      *)
Posting(p, t)   == postPc[p] # "idle" /\ postDraft[p].terminal = t
Reversing(v, t) == revPc[v] # "idle" /\ revTerm[v] = t
Shifting(x, t)  == shPc[x] # "idle" /\ shTerm[x] = t

OneRequest ==
  \A t \in Terminals :
    /\ \A p, q \in Posts : Posting(p, t) /\ Posting(q, t) => p = q
    /\ \A v, w \in Reversals : Reversing(v, t) /\ Reversing(w, t) => v = w
    /\ \A x, y \in ShiftOps : Shifting(x, t) /\ Shifting(y, t) => x = y
    /\ \A p \in Posts, v \in Reversals : ~(Posting(p, t) /\ Reversing(v, t))
    /\ \A p \in Posts, x \in ShiftOps : ~(Posting(p, t) /\ Shifting(x, t))
    /\ \A v \in Reversals, x \in ShiftOps : ~(Reversing(v, t) /\ Shifting(x, t))

(* A terminal has one open shift; what a request found out about it stays    *)
(* true until the request is answered.                                       *)
PastShiftCheck == {"tx", "locked", "looked", "cleared", "numbered"}
OnShift == {"cash", "sold", "refunds", "close"}
Charges(v) == revPc[v] = "checked" /\ (revKind[v] = "void" \/ revShift[v] # NoShift)

OneOpenShift ==
  \A g, h \in ShiftIds :
    shiftState[g] = "open" /\ shiftState[h] = "open" /\ TerminalOf[g] = TerminalOf[h] => g = h

OpeningStands == \A x \in ShiftOps : shPc[x] = "open" => OpenShiftsOf(shTerm[x]) = {}

FindingStands ==
  \A x \in ShiftOps : shPc[x] \in OnShift => shShift[x] \in OpenShiftsOf(shTerm[x])

PostsStand ==
  \A p \in Posts : postPc[p] \in PastShiftCheck =>
    OpenShiftsOf(postDraft[p].terminal) = {postDraft[p].shift}

SalesOnOwnShift ==
  \A s \in SaleIds : Stored(s) => TerminalOf[saleDraft[s].shift] = saleDraft[s].terminal

ChargesStand ==
  \A v \in Reversals : Charges(v) => OpenShiftsOf(revTerm[v]) = {saleDraft[revSale[v]].shift}

ShiftsStand ==
  /\ OneOpenShift /\ OpeningStands /\ FindingStands
  /\ PostsStand /\ SalesOnOwnShift /\ ChargesStand

(* A close has read what is still true, and what it wrote stays true.        *)
CashKept ==
  /\ shCash = [x \in ShiftOps |-> shCash[x]]
  /\ expected = [h \in ShiftIds |-> expected[h]]

ReadsStand ==
  \A x \in ShiftOps :
    /\ shPc[x] \in {"sold", "refunds", "close"} => shDrawer[x] = drawer[shShift[x]]
    /\ shPc[x] = "refunds" => shCash[x] = CashOf(SoldIn(shShift[x]))
    /\ shPc[x] = "close" =>
         shCash[x] = CashOf(SoldIn(shShift[x])) - CashOf(RefundedIn(shShift[x]))

CashStands == CashKept /\ ReadsStand /\ ExpectedCashFinal

ReceiptsStand ==
  /\ \A p \in Posts : postPc[p] = "numbered" => postSeq[p] = receiptSeq[postDraft[p].terminal]
  /\ ReceiptSeqAhead

SerialInv == OneRequest /\ ShiftsStand /\ CashStands /\ ReceiptsStand

OneOpenAtStart ==
  \A g, h \in OpenAtStart : TerminalOf[g] = TerminalOf[h] => g = h

----------------------------------------------------------------------------
(* Sending one request at a time.                                            *)

LEMMA InitSerial == OneOpenAtStart /\ Init => SerialInv
  <1> SUFFICES ASSUME OneOpenAtStart, Init PROVE SerialInv
    OBVIOUS
  <1> USE DEF Init, InitTables, InitSales, InitStock, InitShifts
  <1>1. OneRequest
    BY DEF OneRequest, Posting, Reversing, Shifting
  <1>2. ShiftsStand
    BY ShiftAssumption
    DEF ShiftsStand, OneOpenShift, OpeningStands, FindingStands, PostsStand, SalesOnOwnShift,
        ChargesStand, OneOpenAtStart, OnShift, PastShiftCheck, Charges, Stored
  <1>3. CashStands
    BY DEF CashStands, CashKept, ReadsStand, ExpectedCashFinal
  <1>4. ReceiptsStand
    BY DEF ReceiptsStand, ReceiptSeqAhead, Stored
  <1> QED
    BY <1>1, <1>2, <1>3, <1>4 DEF SerialInv

(* A request that goes on, or is answered, is in nobody's way more than before. *)
LEMMA PostGoesOn ==
  ASSUME TypeOK, NEW p \in Posts, PostStep(p) \/ Refuse(p) \/ AbortPost(p)
  PROVE  /\ \A q \in Posts, t \in Terminals : Posting(q, t)' => Posting(q, t)
         /\ UNCHANGED revVars /\ UNCHANGED shiftVars
  <1>1. postPc \in [Posts -> PostPcs]
    BY DEF TypeOK, SalesTypes
  <1>2. postPc[p] # "idle" /\ UNCHANGED postDraft
    BY DEF PostStep, Refuse, AbortPost, FastPath, CheckShift, LockStock, LookAgain,
           ConflictPass, ReadSeq, CommitClash, ExplainClash, CommitSale, Answer, Goto
  <1>3. \E c \in PostPcs : postPc' = [postPc EXCEPT ![p] = c]
    BY DEF PostStep, Refuse, AbortPost, FastPath, CheckShift, LockStock, LookAgain,
           ConflictPass, ReadSeq, CommitClash, ExplainClash, CommitSale, Answer, Goto, PostPcs
  <1>4. UNCHANGED revVars /\ UNCHANGED shiftVars
    BY DEF PostStep, Refuse, AbortPost, FastPath, CheckShift, LockStock, LookAgain,
           ConflictPass, ReadSeq, CommitClash, ExplainClash, CommitSale, dbVars
  <1> QED
    BY <1>1, <1>2, <1>3, <1>4 DEF Posting

LEMMA ReversalGoesOn ==
  ASSUME TypeOK, NEW v \in Reversals, ReversalStep(v) \/ AbortReversal(v)
  PROVE  /\ \A w \in Reversals, t \in Terminals : Reversing(w, t)' => Reversing(w, t)
         /\ UNCHANGED postVars /\ UNCHANGED shiftVars /\ UNCHANGED <<saleDraft, receiptSeq>>
  <1>1. revPc \in [Reversals -> {"idle", "begin", "locked", "checked"}]
    BY DEF TypeOK, SalesTypes
  <1>2. revPc[v] # "idle"
    BY DEF ReversalStep, AbortReversal, LockSale, ReadOpenShift, CommitVoid, CommitRefund
  <1>3. \/ RevLeave(v)
        \/ revTerm' = revTerm /\ \E c \in {"locked", "checked"} : revPc' = [revPc EXCEPT ![v] = c]
    BY DEF ReversalStep, AbortReversal, LockSale, ReadOpenShift, CommitVoid, CommitRefund, RevGoto
  <1>4. \A w \in Reversals, t \in Terminals : Reversing(w, t)' => Reversing(w, t)
    <2>1. revTerm \in [Reversals -> Terminals]
      BY DEF TypeOK, SalesTypes
    <2> QED
      BY <1>1, <1>2, <1>3, <2>1 DEF RevLeave, Reversing
  <1>5. UNCHANGED postVars /\ UNCHANGED shiftVars /\ UNCHANGED <<saleDraft, receiptSeq>>
    BY DEF ReversalStep, AbortReversal, LockSale, ReadOpenShift, CommitVoid, CommitRefund, dbVars,
           saleVars
  <1> QED
    BY <1>4, <1>5

LEMMA ShiftOpGoesOn ==
  ASSUME TypeOK, NEW x \in ShiftOps, ShiftStep(x) \/ AbortShiftOp(x)
  PROVE  \A y \in ShiftOps, t \in Terminals : Shifting(y, t)' => Shifting(y, t)
  <1>1. shPc \in [ShiftOps -> {"idle", "open", "cash", "sold", "refunds", "close"}]
        /\ shTerm \in [ShiftOps -> Terminals]
    BY DEF TypeOK, ShiftOpTypes
  <1>2. shPc[x] # "idle"
    BY DEF ShiftStep, AbortShiftOp, CreateShift, AddCash, ReadSold, ReadRefunds, CloseShift
  <1>3. \/ ShLeave(x)
        \/ shTerm' = shTerm /\ \E c \in {"refunds", "close"} : shPc' = [shPc EXCEPT ![x] = c]
    BY DEF ShiftStep, AbortShiftOp, CreateShift, AddCash, ReadSold, ReadRefunds, CloseShift
  <1> QED
    BY <1>1, <1>2, <1>3 DEF ShLeave, Shifting

(* Deliveries and adjusts touch nothing of this.                             *)
serialVars == <<postVars, revVars, shiftOpVars, saleVars, shiftVars, receiptSeq>>

LEMMA StockElsewhere ==
  ASSUME StockNext PROVE UNCHANGED serialVars
  BY DEF StockNext, BeginReceive, BeginAdjust, StkBegin, StockStep, ReadLevels, RetryStock,
         CommitReceive, CommitAdjust, StkWrites, StkLeave, AbortStock, dbVars, serialVars

LEMMA FreeTerminal ==
  ASSUME OneAtATime, NEW t \in Terminals, MaySend(t)
  PROVE  /\ \A p \in Posts : ~Posting(p, t)
         /\ \A v \in Reversals : ~Reversing(v, t)
         /\ \A x \in ShiftOps : ~Shifting(x, t)
  BY DEF MaySend, Busy, Posting, Reversing, Shifting

(* Nobody came: every pair of requests was a pair before.                    *)
LEMMA NobodyCame ==
  ASSUME OneRequest,
         \A p \in Posts, t \in Terminals : Posting(p, t)' => Posting(p, t),
         \A v \in Reversals, t \in Terminals : Reversing(v, t)' => Reversing(v, t),
         \A x \in ShiftOps, t \in Terminals : Shifting(x, t)' => Shifting(x, t)
  PROVE  OneRequest'
  BY DEF OneRequest

LEMMA OneRequestStep ==
  ASSUME OneAtATime, IndInv, OneRequest, [Next]_vars
  PROVE  OneRequest'
  <1> USE DEF IndInv
  <1>1. UNCHANGED postVars => \A p \in Posts, t \in Terminals : Posting(p, t)' => Posting(p, t)
    BY DEF postVars, Posting
  <1>2. UNCHANGED revVars => \A v \in Reversals, t \in Terminals : Reversing(v, t)' => Reversing(v, t)
    BY DEF revVars, Reversing
  <1>3. UNCHANGED shiftOpVars => \A x \in ShiftOps, t \in Terminals : Shifting(x, t)' => Shifting(x, t)
    BY DEF shiftOpVars, Shifting
  <1>4. CASE PostNext
    <2>1. PICK p \in Posts :
            \/ \E d \in Drafts : MaySend(d.terminal) /\ Submit(p, d)
            \/ PostStep(p) \/ Refuse(p) \/ AbortPost(p)
      BY <1>4 DEF PostNext
    <2>2. UNCHANGED shiftOpVars
      BY <1>4 DEF PostNext
    <2>3. CASE PostStep(p) \/ Refuse(p) \/ AbortPost(p)
      BY <1>2, <1>3, <2>2, <2>3, PostGoesOn, NobodyCame
    <2>4. ASSUME NEW d \in Drafts, MaySend(d.terminal), Submit(p, d)
          PROVE  OneRequest'
      <3>1. d.terminal \in Terminals
        BY DraftFields
      <3>2. /\ \A q \in Posts : ~Posting(q, d.terminal)
            /\ \A v \in Reversals : ~Reversing(v, d.terminal)
            /\ \A x \in ShiftOps : ~Shifting(x, d.terminal)
        BY <2>4, <3>1, FreeTerminal
      <3>3. \A q \in Posts, t \in Terminals :
              Posting(q, t)' => Posting(q, t) \/ (q = p /\ t = d.terminal)
        BY <2>4 DEF Submit, Posting, TypeOK, SalesTypes
      <3>4. UNCHANGED revVars
        BY <2>4 DEF Submit
      <3> QED
        BY <1>2, <1>3, <2>2, <3>2, <3>3, <3>4 DEF OneRequest
    <2> QED
      BY <2>1, <2>3, <2>4
  <1>5. CASE ReversalNext
    <2>1. PICK v \in Reversals :
            \/ \E kind \in {"void", "refund"}, s \in SaleIds, t \in Terminals :
                 MaySend(t) /\ BeginReversal(v, kind, s, t)
            \/ ReversalStep(v) \/ AbortReversal(v)
      BY <1>5 DEF ReversalNext
    <2>2. UNCHANGED shiftOpVars
      BY <1>5 DEF ReversalNext
    <2>3. CASE ReversalStep(v) \/ AbortReversal(v)
      BY <1>1, <1>3, <2>2, <2>3, ReversalGoesOn, NobodyCame
    <2>4. ASSUME NEW kind \in {"void", "refund"}, NEW s \in SaleIds, NEW t \in Terminals,
                 MaySend(t), BeginReversal(v, kind, s, t)
          PROVE  OneRequest'
      <3>2. /\ \A p \in Posts : ~Posting(p, t)
            /\ \A w \in Reversals : ~Reversing(w, t)
            /\ \A x \in ShiftOps : ~Shifting(x, t)
        BY <2>4, FreeTerminal
      <3>3. \A w \in Reversals, u \in Terminals :
              Reversing(w, u)' => Reversing(w, u) \/ (w = v /\ u = t)
        BY <2>4 DEF BeginReversal, Reversing, TypeOK, SalesTypes
      <3>4. UNCHANGED postVars
        BY <2>4 DEF BeginReversal
      <3> QED
        BY <1>1, <1>3, <2>2, <3>2, <3>3, <3>4 DEF OneRequest
    <2> QED
      BY <2>1, <2>3, <2>4
  <1>6. CASE StockNext
    BY <1>1, <1>2, <1>3, <1>6, StockElsewhere, NobodyCame DEF serialVars
  <1>7. CASE ShiftNext
    <2>1. PICK x \in ShiftOps :
            \/ \E t \in Terminals :
                 /\ MaySend(t)
                 /\ CheckNoneOpen(x, t) \/ FindForCash(x, t) \/ FindForClose(x, t)
            \/ ShiftStep(x) \/ AbortShiftOp(x)
      BY <1>7 DEF ShiftNext
    <2>2. UNCHANGED <<postVars, revVars>>
      BY <2>1, ShiftOpTypesStep
    <2>3. CASE ShiftStep(x) \/ AbortShiftOp(x)
      BY <1>1, <1>2, <2>2, <2>3, ShiftOpGoesOn, NobodyCame
    <2>4. ASSUME NEW t \in Terminals, MaySend(t),
                 CheckNoneOpen(x, t) \/ FindForCash(x, t) \/ FindForClose(x, t)
          PROVE  OneRequest'
      <3>2. /\ \A p \in Posts : ~Posting(p, t)
            /\ \A v \in Reversals : ~Reversing(v, t)
            /\ \A y \in ShiftOps : ~Shifting(y, t)
        BY <2>4, FreeTerminal
      <3>3. \A y \in ShiftOps, u \in Terminals :
              Shifting(y, u)' => Shifting(y, u) \/ (y = x /\ u = t)
        <4>1. /\ \E c \in {"open", "cash", "sold"} : shPc' = [shPc EXCEPT ![x] = c]
              /\ shTerm' = [shTerm EXCEPT ![x] = t]
          BY <2>4 DEF CheckNoneOpen, FindForCash, FindForClose, ShFound
        <4> QED
          BY <4>1 DEF Shifting, TypeOK, ShiftOpTypes
      <3> QED
        BY <1>1, <1>2, <2>2, <3>2, <3>3 DEF OneRequest
    <2> QED
      BY <2>1, <2>3, <2>4
  <1>8. CASE UNCHANGED vars
    BY <1>1, <1>2, <1>3, <1>8, NobodyCame DEF vars
  <1> QED
    BY <1>4, <1>5, <1>6, <1>7, <1>8 DEF Next

----------------------------------------------------------------------------
(* One open shift.                                                           *)

(* The one open shift of a terminal, named by finding it.                    *)
LEMMA TheOpenShift ==
  ASSUME OneOpenShift, NEW t \in Terminals, NEW h \in OpenShiftsOf(t)
  PROVE  h \in ShiftIds /\ TerminalOf[h] = t /\ OpenShiftsOf(t) = {h}
  BY DEF OneOpenShift, OpenShiftsOf

(* As long as no shift is opened or closed ...                               *)
LEMMA ShiftsFramed ==
  ASSUME UNCHANGED shiftState
  PROVE  /\ \A t \in Terminals : OpenShiftsOf(t)' = OpenShiftsOf(t)
         /\ OneOpenShift => OneOpenShift'
  BY DEF OpenShiftsOf, OneOpenShift

(* ... and no request of a kind moves, what that kind found stands.          *)
LEMMA OpsFramed ==
  ASSUME TypeOK, UNCHANGED <<shiftState, shiftOpVars>>, OpeningStands, FindingStands
  PROVE  OpeningStands' /\ FindingStands'
  BY ShiftsFramed DEF OpeningStands, FindingStands, shiftOpVars, TypeOK, ShiftOpTypes

LEMMA PostsFramed ==
  ASSUME IndInv, UNCHANGED <<shiftState, postVars>>, PostsStand
  PROVE  PostsStand'
  <1>1. \A p \in Posts : postPc[p] \in PastShiftCheck => postDraft[p].terminal \in Terminals
    BY DraftFields DEF PastShiftCheck, IndInv, CoreInv, RequestsCarryDrafts
  <1> QED
    BY <1>1, ShiftsFramed DEF PostsStand, postVars

LEMMA ChargesFramed ==
  ASSUME IndInv, UNCHANGED <<shiftState, revVars, saleDraft>>, ChargesStand
  PROVE  ChargesStand'
  BY ShiftsFramed DEF ChargesStand, Charges, revVars, IndInv, TypeOK, SalesTypes

LEMMA SalesOnShiftFramed ==
  ASSUME UNCHANGED saleDraft, \A s \in SaleIds : Stored(s)' => Stored(s), SalesOnOwnShift
  PROVE  SalesOnOwnShift'
  BY DEF SalesOnOwnShift

LEMMA PostShifts ==
  ASSUME IndInv, ShiftsStand, PostNext
  PROVE  ShiftsStand'
  <1> USE DEF IndInv, ShiftsStand
  <1>1. PICK p \in Posts :
          \/ \E d \in Drafts : MaySend(d.terminal) /\ Submit(p, d)
          \/ PostStep(p) \/ Refuse(p) \/ AbortPost(p)
    BY DEF PostNext
  <1>2. UNCHANGED <<revVars, shiftOpVars, shiftState>>
    <2>1. CASE PostStep(p) \/ Refuse(p) \/ AbortPost(p)
      BY <2>1, PostGoesOn DEF PostNext, shiftVars
    <2>2. CASE \E d \in Drafts : Submit(p, d)
      BY <2>2 DEF PostNext, Submit, dbVars, shiftVars
    <2> QED
      BY <1>1, <2>1, <2>2
  <1>3. OneOpenShift' /\ OpeningStands' /\ FindingStands'
    BY <1>2, ShiftsFramed, OpsFramed
  <1>4. PostsStand'
    <2>0. /\ postPc \in [Posts -> PostPcs]
          /\ postDraft \in [Posts -> Drafts \cup {NoDraft}]
      BY DEF TypeOK, SalesTypes
    <2>1. postPc[p] # "idle" => postDraft[p] \in Drafts
      BY DEF CoreInv, RequestsCarryDrafts
    <2>2. ASSUME NEW q \in Posts, postPc[q] \in PastShiftCheck, postDraft'[q] = postDraft[q]
          PROVE  OpenShiftsOf(postDraft[q].terminal)' = {postDraft'[q].shift}
      <3>1. postDraft[q].terminal \in Terminals
        BY <2>2, DraftFields DEF PastShiftCheck, CoreInv, RequestsCarryDrafts
      <3> QED
        BY <1>2, <2>2, <3>1, ShiftsFramed DEF PostsStand
    <2>3. ASSUME UNCHANGED postDraft,
                 \A q \in Posts : postPc'[q] \in PastShiftCheck => postPc[q] \in PastShiftCheck
          PROVE  PostsStand'
      BY <2>2, <2>3 DEF PostsStand
    <2>4. CASE \E d \in Drafts : Submit(p, d)
      <3>1. PICK d \in Drafts : Submit(p, d)
        BY <2>4
      <3>2. \A q \in Posts : postPc'[q] \in PastShiftCheck =>
              postPc[q] \in PastShiftCheck /\ postDraft'[q] = postDraft[q]
        BY <2>0, <3>1 DEF Submit, PastShiftCheck
      <3> QED
        BY <2>2, <3>2 DEF PostsStand
    <2>5. CASE CheckShift(p)
      <3>1. \A q \in Posts \ {p} : postPc'[q] = postPc[q]
        BY <2>0, <2>5 DEF CheckShift, Goto, Answer
      <3>2. postDraft' = postDraft
        BY <2>5 DEF CheckShift, Goto, Answer
      <3>3. ASSUME postPc'[p] \in PastShiftCheck
            PROVE  OpenShiftsOf(postDraft[p].terminal) = {postDraft[p].shift}
        <4>1. postDraft[p] \in Drafts
          BY <2>1, <2>5 DEF CheckShift
        <4>2. postDraft[p].shift \in ShiftIds /\ postDraft[p].terminal \in Terminals
          BY <4>1, DraftFields
        <4>3. postDraft[p].shift \in OpenShiftRead(postDraft[p].terminal)
          BY <2>0, <2>5, <3>3 DEF CheckShift, Goto, Answer, PastShiftCheck
        <4>4. postDraft[p].shift \in OpenShiftsOf(postDraft[p].terminal)
          BY <4>2, <4>3, ShiftAssumption DEF OpenShiftRead
        <4> QED
          BY <4>2, <4>4, TheOpenShift
      <3>4. postDraft[p].terminal \in Terminals
        BY <2>1, <2>5, DraftFields DEF CheckShift
      <3> QED
        BY <1>2, <2>2, <3>1, <3>2, <3>3, <3>4, ShiftsFramed DEF PostsStand
    <2>6. CASE \/ FastPath(p) \/ LockStock(p) \/ LookAgain(p) \/ ConflictPass(p) \/ ReadSeq(p)
               \/ CommitClash(p) \/ ExplainClash(p) \/ CommitSale(p) \/ Refuse(p) \/ AbortPost(p)
      <3>1. UNCHANGED postDraft
        BY <2>6 DEF FastPath, LockStock, LookAgain, ConflictPass, ReadSeq, CommitClash,
                    ExplainClash, CommitSale, Refuse, AbortPost, Goto, Answer
      <3>2. \/ \E c \in {"idle", "shift", "clashed"} : postPc' = [postPc EXCEPT ![p] = c]
            \/ postPc[p] \in PastShiftCheck /\ \E c \in PostPcs : postPc' = [postPc EXCEPT ![p] = c]
        BY <2>6 DEF FastPath, LockStock, LookAgain, ConflictPass, ReadSeq, CommitClash,
                    ExplainClash, CommitSale, Refuse, AbortPost, Goto, Answer,
                    PastShiftCheck, PostPcs
      <3>3. \A q \in Posts : postPc'[q] \in PastShiftCheck => postPc[q] \in PastShiftCheck
        BY <2>0, <3>2 DEF PastShiftCheck
      <3> QED
        BY <2>3, <3>1, <3>3
    <2> QED
      BY <1>1, <2>4, <2>5, <2>6 DEF PostStep
  <1>5. SalesOnOwnShift' /\ ChargesStand'
    <2>1. CASE CommitSale(p)
      <3> DEFINE d == postDraft[p]
      <3>0. /\ saleDraft \in [SaleIds -> Drafts \cup {NoDraft}]
            /\ saleStatus \in [SaleIds -> Statuses]
        BY DEF TypeOK, TableTypes
      <3>1. d \in Drafts
        BY <2>1 DEF CommitSale, CoreInv, RequestsCarryDrafts
      <3>2. d.id \in SaleIds /\ d.terminal \in Terminals /\ d.shift \in ShiftIds
        BY <3>1, DraftFields
      <3>3. ~Stored(d.id)
        BY <2>1, <3>2 DEF CommitSale, Clashes
      <3>4. OpenShiftsOf(d.terminal) = {d.shift}
        BY <2>1 DEF CommitSale, PostsStand, PastShiftCheck
      <3>5. TerminalOf[d.shift] = d.terminal
        BY <3>4 DEF OpenShiftsOf
      <3>6. saleDraft'[d.id] = d /\ \A s \in SaleIds \ {d.id} :
              saleDraft'[s] = saleDraft[s] /\ saleStatus'[s] = saleStatus[s]
        BY <2>1, <3>0, <3>2 DEF CommitSale
      <3>7. SalesOnOwnShift'
        BY <3>5, <3>6 DEF SalesOnOwnShift, Stored
      <3>8. ChargesStand'
        <4>1. \A v \in Reversals : Charges(v) => revSale[v] \in SaleIds /\ Stored(revSale[v])
          BY DEF Charges, CoreInv, SaleLocksExclusive, HoldsSale, Stored, TypeOK, SalesTypes
        <4>2. \A v \in Reversals : Charges(v) => saleDraft'[revSale[v]] = saleDraft[revSale[v]]
          BY <3>3, <3>6, <4>1
        <4> QED
          BY <1>2, <4>2, ShiftsFramed DEF ChargesStand, Charges, revVars, TypeOK, SalesTypes
      <3> QED
        BY <3>7, <3>8
    <2>2. CASE ~CommitSale(p)
      <3>1. UNCHANGED <<saleDraft, saleStatus>>
        BY <1>1, <2>2
        DEF PostStep, Submit, Refuse, AbortPost, FastPath, CheckShift, LockStock,
            LookAgain, ConflictPass, ReadSeq, CommitClash, ExplainClash, dbVars, saleVars
      <3> QED
        BY <1>2, <3>1, ChargesFramed, SalesOnShiftFramed DEF Stored
    <2> QED
      BY <2>1, <2>2
  <1> QED
    BY <1>3, <1>4, <1>5

LEMMA ReversalShifts ==
  ASSUME IndInv, ShiftsStand, ReversalNext
  PROVE  ShiftsStand'
  <1> USE DEF IndInv, ShiftsStand
  <1>1. PICK v \in Reversals :
          \/ \E kind \in {"void", "refund"}, s \in SaleIds, t \in Terminals :
               MaySend(t) /\ BeginReversal(v, kind, s, t)
          \/ ReversalStep(v) \/ AbortReversal(v)
    BY DEF ReversalNext
  <1>2. UNCHANGED <<postVars, shiftOpVars, shiftState, saleDraft>>
    <2>1. CASE ReversalStep(v) \/ AbortReversal(v)
      BY <2>1, ReversalGoesOn DEF ReversalNext, shiftVars
    <2>2. CASE \E kind \in {"void", "refund"}, s \in SaleIds, t \in Terminals :
                 BeginReversal(v, kind, s, t)
      BY <2>2 DEF ReversalNext, BeginReversal, dbVars, shiftVars, saleVars
    <2> QED
      BY <1>1, <2>1, <2>2
  <1>3. OneOpenShift' /\ OpeningStands' /\ FindingStands' /\ PostsStand'
    BY <1>2, ShiftsFramed, OpsFramed, PostsFramed
  <1>0. /\ revPc \in [Reversals -> {"idle", "begin", "locked", "checked"}]
        /\ revKind \in [Reversals -> {"void", "refund"}]
        /\ revSale \in [Reversals -> SaleIds] /\ revTerm \in [Reversals -> Terminals]
        /\ revShift \in [Reversals -> ShiftIds \cup {NoShift}]
        /\ saleStatus \in [SaleIds -> Statuses]
        /\ saleDraft \in [SaleIds -> Drafts \cup {NoDraft}]
    BY DEF TypeOK, SalesTypes, TableTypes
  <1>4. SalesOnOwnShift'
    <2>1. CASE CommitVoid(v) \/ CommitRefund(v)
      <3>1. Stored(revSale[v])
        BY <2>1 DEF CommitVoid, CommitRefund, CoreInv, SaleLocksExclusive, HoldsSale, Stored
      <3>2. \A s \in SaleIds : Stored(s)' => Stored(s)
        BY <1>0, <2>1, <3>1 DEF CommitVoid, CommitRefund, Stored
      <3> QED
        BY <1>2, <3>2, SalesOnShiftFramed
    <2>2. CASE ~CommitVoid(v) /\ ~CommitRefund(v)
      <3>1. UNCHANGED saleStatus
        BY <1>1, <2>2
        DEF ReversalStep, BeginReversal, AbortReversal, LockSale, ReadOpenShift, dbVars, saleVars
      <3> QED
        BY <1>2, <3>1, SalesOnShiftFramed DEF Stored
    <2> QED
      BY <2>1, <2>2
  <1>5. ChargesStand'
    <2>1. ASSUME NEW w \in Reversals, Charges(w), revTerm'[w] = revTerm[w], revSale'[w] = revSale[w]
          PROVE  OpenShiftsOf(revTerm[w])' = {saleDraft'[revSale'[w]].shift}
      BY <1>0, <1>2, <2>1, ShiftsFramed DEF ChargesStand
    <2>2. \A w \in Reversals \ {v} :
            /\ revPc'[w] = revPc[w] /\ revKind'[w] = revKind[w] /\ revShift'[w] = revShift[w]
            /\ revTerm'[w] = revTerm[w] /\ revSale'[w] = revSale[w]
      BY <1>0, <1>1
      DEF ReversalStep, BeginReversal, AbortReversal, LockSale, ReadOpenShift, CommitVoid,
          CommitRefund, RevGoto, RevLeave
    <2>3. \A w \in Reversals \ {v} : Charges(w)' => Charges(w)
      BY <2>2 DEF Charges
    <2>4. ASSUME Charges(v)'
          PROVE  OpenShiftsOf(revTerm[v])' = {saleDraft'[revSale'[v]].shift}
      <3>1. ReadOpenShift(v) /\ revPc'[v] = "checked"
        BY <1>0, <1>1, <2>4
        DEF Charges, ReversalStep, BeginReversal, AbortReversal, LockSale, CommitVoid, CommitRefund,
            RevGoto, RevLeave
      <3>2. PICK h \in OpenShiftRead(revTerm[v]) :
              LET own == h = saleDraft[revSale[v]].shift
              IN IF revKind[v] = "void" /\ ~own THEN RevLeave(v)
                 ELSE /\ revShift' = [revShift EXCEPT ![v] = IF own THEN h ELSE NoShift]
                      /\ RevGoto(v, "checked")
        BY <3>1 DEF ReadOpenShift
      <3>3. UNCHANGED <<revKind, revSale, revTerm>>
        BY <1>0, <3>1, <3>2 DEF RevGoto, RevLeave
      <3>4. h = saleDraft[revSale[v]].shift
        BY <1>0, <2>4, <3>1, <3>2, <3>3 DEF Charges, RevGoto, RevLeave
      <3>5. Stored(revSale[v])
        BY <3>1 DEF ReadOpenShift, CoreInv, SaleLocksExclusive, HoldsSale, Stored
      <3>6. saleDraft[revSale[v]] \in Drafts
        BY <1>0, <3>5 DEF CoreInv, SalesStoreDrafts
      <3>7. h \in ShiftIds
        BY <3>4, <3>6, DraftFields
      <3>8. h \in OpenShiftsOf(revTerm[v])
        BY <3>2, <3>7, ShiftAssumption DEF OpenShiftRead
      <3>9. OpenShiftsOf(revTerm[v]) = {h}
        BY <1>0, <3>8, TheOpenShift
      <3> QED
        BY <1>0, <1>2, <3>3, <3>4, <3>9, ShiftsFramed
    <2>5. revTerm'[v] = revTerm[v] \/ ~Charges(v)'
      BY <1>0, <1>1
      DEF Charges, ReversalStep, BeginReversal, AbortReversal, LockSale, ReadOpenShift, CommitVoid,
          CommitRefund, RevGoto, RevLeave
    <2> QED
      BY <2>1, <2>2, <2>3, <2>4, <2>5 DEF ChargesStand, OpenShiftsOf
  <1> QED
    BY <1>3, <1>4, <1>5

(* A shift request that comes, goes on or ends.                              *)
LEMMA OtherOps ==
  ASSUME TypeOK, NEW x \in ShiftOps,
         \/ \E t \in Terminals : CheckNoneOpen(x, t) \/ FindForCash(x, t) \/ FindForClose(x, t)
         \/ ShiftStep(x) \/ AbortShiftOp(x)
  PROVE  \A y \in ShiftOps \ {x} :
           shPc'[y] = shPc[y] /\ shTerm'[y] = shTerm[y] /\ shShift'[y] = shShift[y]
             /\ shDrawer'[y] = shDrawer[y]
  BY DEF TypeOK, ShiftOpTypes, CheckNoneOpen, FindForCash, FindForClose, ShFound, ShiftStep,
         CreateShift, AddCash, ReadSold, ReadRefunds, CloseShift, AbortShiftOp, ShLeave

(* Opening or closing a shift leaves those of the other terminals as they are. *)
LEMMA ElsewhereOpen ==
  ASSUME TypeOK, NEW h \in ShiftIds, NEW st \in {"open", "closed"},
         shiftState' = [shiftState EXCEPT ![h] = st],
         NEW t \in Terminals, t # TerminalOf[h]
  PROVE  OpenShiftsOf(t)' = OpenShiftsOf(t)
  BY DEF OpenShiftsOf, TypeOK, TableTypes

(* What posts and reversals found is about terminals without a shift request. *)
LEMMA FoundElsewhere ==
  ASSUME IndInv, OneRequest, PostsStand, ChargesStand,
         UNCHANGED <<postVars, revVars, saleVars>>,
         NEW x \in ShiftOps, shPc[x] # "idle",
         \A t \in Terminals \ {shTerm[x]} : OpenShiftsOf(t)' = OpenShiftsOf(t)
  PROVE  PostsStand' /\ ChargesStand'
  <1>0. shTerm[x] \in Terminals
    BY DEF IndInv, TypeOK, ShiftOpTypes
  <1>1. ASSUME NEW p \in Posts, postPc[p] \in PastShiftCheck
        PROVE  OpenShiftsOf(postDraft[p].terminal)' = OpenShiftsOf(postDraft[p].terminal)
    <2>1. postDraft[p].terminal \in Terminals
      BY <1>1, DraftFields DEF PastShiftCheck, IndInv, CoreInv, RequestsCarryDrafts
    <2>2. postDraft[p].terminal # shTerm[x]
      BY <1>0, <1>1, <2>1 DEF OneRequest, Posting, Shifting, PastShiftCheck
    <2>3. UNCHANGED postDraft
      BY DEF postVars
    <2> QED
      BY <2>1, <2>2, <2>3 DEF OpenShiftsOf
  <1>2. ASSUME NEW v \in Reversals, Charges(v)
        PROVE  OpenShiftsOf(revTerm[v])' = OpenShiftsOf(revTerm[v])
    <2>1. revTerm[v] \in Terminals
      BY DEF IndInv, TypeOK, SalesTypes
    <2>2. revTerm[v] # shTerm[x]
      BY <1>0, <1>2, <2>1 DEF OneRequest, Reversing, Shifting, Charges
    <2>3. UNCHANGED revTerm
      BY DEF revVars
    <2> QED
      BY <2>1, <2>2, <2>3 DEF OpenShiftsOf
  <1>3. PostsStand'
    BY <1>1 DEF PostsStand, postVars
  <1>4. ChargesStand'
    BY <1>2 DEF ChargesStand, Charges, revVars, saleVars
  <1> QED
    BY <1>3, <1>4

LEMMA ShiftShifts ==
  ASSUME IndInv, OneRequest, ShiftsStand, ShiftNext
  PROVE  ShiftsStand'
  <1> USE DEF IndInv, ShiftsStand
  <1>1. PICK x \in ShiftOps :
          \/ \E t \in Terminals : CheckNoneOpen(x, t) \/ FindForCash(x, t) \/ FindForClose(x, t)
          \/ ShiftStep(x) \/ AbortShiftOp(x)
    BY DEF ShiftNext
  <1>2. UNCHANGED <<saleVars, postVars, revVars>>
    BY <1>1, ShiftOpTypesStep
  <1>3. SalesOnOwnShift'
    BY <1>2, SalesOnShiftFramed DEF saleVars, Stored
  <1>4. \A y \in ShiftOps \ {x} :
          shPc'[y] = shPc[y] /\ shTerm'[y] = shTerm[y] /\ shShift'[y] = shShift[y]
    BY <1>1, OtherOps
  <1>0. /\ shPc \in [ShiftOps -> {"idle", "open", "cash", "sold", "refunds", "close"}]
        /\ shTerm \in [ShiftOps -> Terminals]
        /\ shShift \in [ShiftOps -> ShiftIds \cup {NoShift}]
        /\ shiftState \in [ShiftIds -> {"unused", "open", "closed"}]
    BY DEF TypeOK, ShiftOpTypes, TableTypes
  <1>5. CASE UNCHANGED shiftState
    <2>1. OneOpenShift' /\ PostsStand' /\ ChargesStand'
      BY <1>2, <1>5, ShiftsFramed, PostsFramed, ChargesFramed DEF saleVars
    <2>2. shTerm'[x] \in Terminals
      BY <1>1, ShiftOpTypesStep DEF ShiftOpTypes
    <2>3. shPc'[x] = "open" => OpenShiftsOf(shTerm'[x]) = {}
      BY <1>0, <1>1, <1>5
      DEF CheckNoneOpen, FindForCash, FindForClose, ShFound, ShiftStep, CreateShift, AddCash,
          ReadSold, ReadRefunds, CloseShift, AbortShiftOp, ShLeave
    <2>4. shPc'[x] \in OnShift => shShift'[x] \in OpenShiftsOf(shTerm'[x])
      <3>1. CASE \E t \in Terminals : CheckNoneOpen(x, t) \/ FindForCash(x, t) \/ FindForClose(x, t)
        BY <1>0, <3>1 DEF CheckNoneOpen, FindForCash, FindForClose, ShFound, OnShift
      <3>2. CASE ReadSold(x) \/ ReadRefunds(x)
        BY <1>0, <3>2 DEF ReadSold, ReadRefunds, OnShift, FindingStands
      <3>3. CASE CreateShift(x) \/ AddCash(x) \/ CloseShift(x) \/ AbortShiftOp(x)
        BY <1>0, <3>3 DEF CreateShift, AddCash, CloseShift, AbortShiftOp, ShLeave, OnShift
      <3> QED
        BY <1>1, <3>1, <3>2, <3>3 DEF ShiftStep
    <2>5. OpeningStands'
      BY <1>0, <1>4, <1>5, <2>2, <2>3, ShiftsFramed DEF OpeningStands
    <2>6. FindingStands'
      BY <1>0, <1>4, <1>5, <2>2, <2>4, ShiftsFramed DEF FindingStands
    <2> QED
      BY <1>3, <2>1, <2>5, <2>6
  <1>6. CASE CreateShift(x) \/ CloseShift(x)
    <2> DEFINE t == shTerm[x]
    <2>1. PICK h \in ShiftIds :
            /\ TerminalOf[h] = t
            /\ \/ /\ CreateShift(x) /\ shiftState[h] = "unused"
                  /\ shiftState' = [shiftState EXCEPT ![h] = "open"]
               \/ /\ CloseShift(x) /\ h = shShift[x] /\ shiftState[h] = "open"
                  /\ shiftState' = [shiftState EXCEPT ![h] = "closed"]
      <3>1. CASE CreateShift(x)
        BY <3>1 DEF CreateShift
      <3>2. CASE CloseShift(x)
        BY <3>2 DEF CloseShift, FindingStands, OnShift, OpenShiftsOf
      <3> QED
        BY <1>6, <3>1, <3>2
    <2>2. t \in Terminals /\ shPc[x] # "idle" /\ Shifting(x, t)
      BY <1>0, <1>6 DEF CreateShift, CloseShift, Shifting
    <2>3. \A u \in Terminals \ {t} : OpenShiftsOf(u)' = OpenShiftsOf(u)
      BY <2>1, ElsewhereOpen
    <2>4. PostsStand' /\ ChargesStand'
      BY <1>2, <2>2, <2>3, FoundElsewhere
    <2>5. shPc'[x] = "idle"
      BY <1>0, <1>6 DEF CreateShift, CloseShift, ShLeave
    <2>6. \A y \in ShiftOps \ {x} : shPc[y] # "idle" => shTerm[y] \in Terminals \ {t}
      BY <1>0, <2>2 DEF OneRequest, Shifting
    <2>7. OpeningStands'
      BY <1>4, <2>3, <2>5, <2>6 DEF OpeningStands
    <2>8. FindingStands'
      BY <1>4, <2>3, <2>5, <2>6 DEF FindingStands, OnShift
    <2>9. OneOpenShift'
      <3>1. CASE CreateShift(x)
        <4>1. OpenShiftsOf(t) = {}
          BY <3>1 DEF CreateShift, OpeningStands
        <4>2. \A g \in ShiftIds : shiftState[g] = "open" => TerminalOf[g] # t
          BY <4>1 DEF OpenShiftsOf
        <4>3. shiftState' = [shiftState EXCEPT ![h] = "open"]
          BY <2>1, <3>1 DEF CreateShift, CloseShift
        <4> QED
          BY <1>0, <2>1, <4>2, <4>3 DEF OneOpenShift
      <3>2. CASE CloseShift(x)
        <4>1. shiftState' = [shiftState EXCEPT ![h] = "closed"]
          BY <2>1, <3>2 DEF CreateShift, CloseShift
        <4> QED
          BY <1>0, <4>1 DEF OneOpenShift
      <3> QED
        BY <1>6, <3>1, <3>2
    <2> QED
      BY <1>3, <2>4, <2>7, <2>8, <2>9
  <1>7. CreateShift(x) \/ CloseShift(x) \/ UNCHANGED shiftState
    BY <1>1
    DEF CheckNoneOpen, FindForCash, FindForClose, ShFound, ShiftStep, AddCash, ReadSold,
        ReadRefunds, AbortShiftOp, dbVars, shiftVars
  <1> QED
    BY <1>5, <1>6, <1>7

LEMMA ShiftsStep ==
  ASSUME IndInv, OneRequest, ShiftsStand, [Next]_vars
  PROVE  ShiftsStand'
  <1>1. CASE UNCHANGED serialVars
    BY <1>1, ShiftsFramed, OpsFramed, PostsFramed, ChargesFramed, SalesOnShiftFramed
    DEF ShiftsStand, IndInv, serialVars, saleVars, shiftVars, Stored
  <1>2. UNCHANGED vars => UNCHANGED serialVars
    BY DEF vars, dbVars, serialVars
  <1> QED
    BY <1>1, <1>2, PostShifts, ReversalShifts, ShiftShifts, StockElsewhere DEF Next

----------------------------------------------------------------------------
(* The Z report.                                                             *)

(* The sales and refunds of a shift add up to what they did.                 *)
SameBooks(h) == /\ CashOf(SoldIn(h))' = CashOf(SoldIn(h))
                /\ CashOf(RefundedIn(h))' = CashOf(RefundedIn(h))

LEMMA BooksSame ==
  ASSUME NEW h, SoldIn(h)' = SoldIn(h), RefundedIn(h)' = RefundedIn(h),
         \A s \in SaleIds : Stored(s) => saleDraft'[s] = saleDraft[s]
  PROVE  SameBooks(h)
  <1>1. \A s \in SoldIn(h) \cup RefundedIn(h) : saleDraft'[s] = saleDraft[s]
    BY DEF SoldIn, RefundedIn, Stored
  <1>2. [s \in SoldIn(h) |-> saleDraft[s].cash]' = [s \in SoldIn(h) |-> saleDraft[s].cash]
    BY <1>1
  <1>3. [s \in RefundedIn(h) |-> saleDraft[s].cash]' = [s \in RefundedIn(h) |-> saleDraft[s].cash]
    BY <1>1
  <1> QED
    BY <1>2, <1>3 DEF SameBooks, CashOf, SumOf

LEMMA BooksFramed ==
  ASSUME UNCHANGED saleVars, NEW h
  PROVE  SameBooks(h)
  <1>1. SoldIn(h)' = SoldIn(h) /\ RefundedIn(h)' = RefundedIn(h)
    BY DEF SoldIn, RefundedIn, saleVars
  <1> QED
    BY <1>1, BooksSame DEF saleVars

LEMMA PostBooks ==
  ASSUME IndInv, PostNext, NEW h \in ShiftIds
  PROVE  SameBooks(h) \/ \E p \in Posts : postPc[p] \in PastShiftCheck /\ postDraft[p].shift = h
  <1> USE DEF IndInv
  <1>1. PICK p \in Posts :
          \/ \E d \in Drafts : Submit(p, d)
          \/ PostStep(p) \/ Refuse(p) \/ AbortPost(p)
    BY DEF PostNext
  <1>2. CASE CommitSale(p) /\ postDraft[p].shift # h
    <2> DEFINE d == postDraft[p]
    <2>0. /\ saleDraft \in [SaleIds -> Drafts \cup {NoDraft}]
          /\ saleStatus \in [SaleIds -> Statuses]
      BY DEF TypeOK, TableTypes
    <2>1. d \in Drafts
      BY <1>2 DEF CommitSale, CoreInv, RequestsCarryDrafts
    <2>2. d.id \in SaleIds
      BY <2>1, DraftFields
    <2>3. ~Stored(d.id)
      BY <1>2, <2>2 DEF CommitSale, Clashes
    <2>4. /\ saleDraft'[d.id] = d /\ saleStatus'[d.id] = "completed" /\ refundShift' = refundShift
          /\ \A s \in SaleIds \ {d.id} :
               saleDraft'[s] = saleDraft[s] /\ saleStatus'[s] = saleStatus[s]
      BY <1>2, <2>0, <2>2 DEF CommitSale
    <2>5. SoldIn(h)' = SoldIn(h)
      BY <1>2, <2>3, <2>4 DEF SoldIn, Stored
    <2>6. RefundedIn(h)' = RefundedIn(h)
      BY <2>3, <2>4 DEF RefundedIn, Stored
    <2> QED
      BY <2>3, <2>4, <2>5, <2>6, BooksSame
  <1>3. CASE CommitSale(p) /\ postDraft[p].shift = h
    BY <1>3 DEF CommitSale, PastShiftCheck
  <1>4. CASE ~CommitSale(p)
    <2>1. UNCHANGED saleVars
      BY <1>1, <1>4
      DEF PostStep, Submit, Refuse, AbortPost, FastPath, CheckShift, LockStock, LookAgain,
          ConflictPass, ReadSeq, CommitClash, ExplainClash, dbVars
    <2> QED
      BY <2>1, BooksFramed
  <1> QED
    BY <1>2, <1>3, <1>4

LEMMA ReversalBooks ==
  ASSUME IndInv, ReversalNext, NEW h \in ShiftIds
  PROVE  SameBooks(h) \/ \E v \in Reversals : Charges(v) /\ saleDraft[revSale[v]].shift = h
  <1> USE DEF IndInv
  <1>1. PICK v \in Reversals :
          \/ \E kind \in {"void", "refund"}, s \in SaleIds, t \in Terminals :
               BeginReversal(v, kind, s, t)
          \/ ReversalStep(v) \/ AbortReversal(v)
    BY DEF ReversalNext
  <1>2. CASE ~CommitVoid(v) /\ ~CommitRefund(v)
    <2>1. UNCHANGED saleVars
      BY <1>1, <1>2
      DEF ReversalStep, BeginReversal, AbortReversal, LockSale, ReadOpenShift, dbVars
    <2> QED
      BY <2>1, BooksFramed
  <1>3. CASE CommitVoid(v) \/ CommitRefund(v)
    <2> DEFINE r == revSale[v]
    <2>0. /\ saleStatus \in [SaleIds -> Statuses] /\ r \in SaleIds
          /\ refundShift \in [SaleIds -> ShiftIds \cup {NoShift}]
      BY DEF TypeOK, TableTypes, SalesTypes
    <2>1. saleStatus[r] = "completed" /\ revPc[v] = "checked"
      BY <1>3 DEF CommitVoid, CommitRefund, CoreInv, SaleLocksExclusive, HoldsSale
    <2>2. revShift[v] \in {NoShift, saleDraft[r].shift}
      BY <2>1 DEF CoreInv, SaleLocksExclusive
    <2>3. UNCHANGED saleDraft /\ \A s \in SaleIds \ {r} :
            saleStatus'[s] = saleStatus[s] /\ refundShift'[s] = refundShift[s]
      BY <1>3, <2>0 DEF CommitVoid, CommitRefund
    <2>4. CASE CommitVoid(v)
      <3>1. saleStatus'[r] = "voided"
        BY <2>0, <2>4 DEF CommitVoid
      <3>2. RefundedIn(h)' = RefundedIn(h)
        BY <2>1, <2>3, <3>1 DEF RefundedIn
      <3>3. CASE saleDraft[r].shift # h
        <4>1. SoldIn(h)' = SoldIn(h)
          BY <2>3, <3>1, <3>3 DEF SoldIn
        <4> QED
          BY <2>3, <3>2, <4>1, BooksSame
      <3>4. CASE saleDraft[r].shift = h
        BY <2>1, <2>4, <3>4 DEF CommitVoid, Charges
      <3> QED
        BY <3>3, <3>4
    <2>5. CASE CommitRefund(v)
      <3>1. saleStatus'[r] = "refunded" /\ refundShift'[r] = revShift[v]
        BY <2>0, <2>5 DEF CommitRefund
      <3>2. SoldIn(h)' = SoldIn(h)
        BY <2>1, <2>3, <3>1 DEF SoldIn
      <3>3. CASE revShift[v] # h
        <4>1. RefundedIn(h)' = RefundedIn(h)
          BY <2>1, <2>3, <3>1, <3>3 DEF RefundedIn
        <4> QED
          BY <2>3, <3>2, <4>1, BooksSame
      <3>4. CASE revShift[v] = h
        BY <2>1, <2>2, <3>4, ShiftAssumption DEF Charges
      <3> QED
        BY <3>3, <3>4
    <2> QED
      BY <1>3, <2>4, <2>5
  <1> QED
    BY <1>2, <1>3

(* No step changes the books of a shift that is closed or about to be.       *)
Settled(h) == shiftState[h] # "open" \/ \E x \in ShiftOps : shPc[x] \in OnShift /\ shShift[x] = h

LEMMA SettledBooks ==
  ASSUME IndInv, OneRequest, ShiftsStand, [Next]_vars, NEW h \in ShiftIds, Settled(h)
  PROVE  SameBooks(h)
  <1> USE DEF IndInv, ShiftsStand
  <1>1. ASSUME NEW x \in ShiftOps, shPc[x] \in OnShift, shShift[x] = h
        PROVE  TerminalOf[h] \in Terminals /\ Shifting(x, TerminalOf[h])
    <2>1. shTerm[x] \in Terminals
      BY DEF TypeOK, ShiftOpTypes
    <2> QED
      BY <1>1, <2>1 DEF FindingStands, OpenShiftsOf, OnShift, Shifting
  <1>2. ~\E p \in Posts : postPc[p] \in PastShiftCheck /\ postDraft[p].shift = h
    <2> SUFFICES ASSUME NEW p \in Posts, postPc[p] \in PastShiftCheck, postDraft[p].shift = h
                 PROVE  FALSE
      OBVIOUS
    <2>1. h \in OpenShiftsOf(postDraft[p].terminal)
      BY DEF PostsStand
    <2>2. shiftState[h] = "open" /\ Posting(p, TerminalOf[h])
      BY <2>1 DEF OpenShiftsOf, Posting, PastShiftCheck
    <2> QED
      BY <1>1, <2>2 DEF Settled, OneRequest
  <1>3. ~\E v \in Reversals : Charges(v) /\ saleDraft[revSale[v]].shift = h
    <2> SUFFICES ASSUME NEW v \in Reversals, Charges(v), saleDraft[revSale[v]].shift = h
                 PROVE  FALSE
      OBVIOUS
    <2>1. h \in OpenShiftsOf(revTerm[v])
      BY DEF ChargesStand
    <2>2. shiftState[h] = "open" /\ Reversing(v, TerminalOf[h])
      BY <2>1 DEF OpenShiftsOf, Reversing, Charges
    <2> QED
      BY <1>1, <2>2 DEF Settled, OneRequest
  <1>4. CASE PostNext
    BY <1>2, <1>4, PostBooks
  <1>5. CASE ReversalNext
    BY <1>3, <1>5, ReversalBooks
  <1>6. CASE StockNext \/ ShiftNext \/ UNCHANGED vars
    <2>1. StockNext => UNCHANGED saleVars
      BY StockElsewhere DEF serialVars
    <2>2. ShiftNext => UNCHANGED saleVars
      BY ShiftOpTypesStep DEF ShiftNext
    <2>3. UNCHANGED vars => UNCHANGED saleVars
      BY DEF vars, dbVars
    <2> QED
      BY <1>6, <2>1, <2>2, <2>3, BooksFramed
  <1> QED
    BY <1>4, <1>5, <1>6 DEF Next

(* While no shift request moves and no drawer changes, the books do the rest. *)
LEMMA CashFramed ==
  ASSUME IndInv, OneRequest, ShiftsStand, CashStands, [Next]_vars,
         UNCHANGED <<shiftOpVars, shiftVars>>
  PROVE  CashStands'
  <1> USE DEF IndInv, ShiftsStand, CashStands
  <1>0. UNCHANGED <<shPc, shShift, shDrawer, shCash, shiftState, drawer, expected>>
    BY DEF shiftOpVars, shiftVars
  <1>1. CashKept'
    BY <1>0 DEF CashKept
  <1>2. \A x \in ShiftOps : shPc[x] \in OnShift => shShift[x] \in ShiftIds /\ SameBooks(shShift[x])
    <2> SUFFICES ASSUME NEW x \in ShiftOps, shPc[x] \in OnShift
                 PROVE  shShift[x] \in ShiftIds /\ SameBooks(shShift[x])
      OBVIOUS
    <2>1. shShift[x] \in ShiftIds
      BY DEF FindingStands, OpenShiftsOf
    <2> QED
      BY <2>1, SettledBooks DEF Settled
  <1>3. ReadsStand'
    BY <1>0, <1>2 DEF ReadsStand, OnShift, SameBooks
  <1>4. \A h \in ShiftIds : shiftState[h] = "closed" => SameBooks(h)
    BY SettledBooks DEF Settled
  <1>5. ExpectedCashFinal'
    BY <1>0, <1>4 DEF ExpectedCashFinal, SameBooks
  <1> QED
    BY <1>1, <1>3, <1>5

LEMMA ShiftCash ==
  ASSUME IndInv, OneRequest, ShiftsStand, CashStands, ShiftNext
  PROVE  CashStands'
  <1> USE DEF IndInv, ShiftsStand, CashStands
  <1>1. PICK x \in ShiftOps :
          \/ \E t \in Terminals : CheckNoneOpen(x, t) \/ FindForCash(x, t) \/ FindForClose(x, t)
          \/ ShiftStep(x) \/ AbortShiftOp(x)
    BY DEF ShiftNext
  <1>2. \A h : SameBooks(h)
    <2>1. UNCHANGED saleVars
      BY <1>1, ShiftOpTypesStep
    <2> QED
      BY <2>1, BooksFramed
  <1>3. \A y \in ShiftOps \ {x} :
          shPc'[y] = shPc[y] /\ shShift'[y] = shShift[y] /\ shDrawer'[y] = shDrawer[y]
    BY <1>1, OtherOps
  <1>0. /\ shPc \in [ShiftOps -> {"idle", "open", "cash", "sold", "refunds", "close"}]
        /\ shTerm \in [ShiftOps -> Terminals]
        /\ shShift \in [ShiftOps -> ShiftIds \cup {NoShift}]
        /\ shDrawer \in [ShiftOps -> Int]
        /\ shiftState \in [ShiftIds -> {"unused", "open", "closed"}]
        /\ drawer \in [ShiftIds -> Int]
    BY DEF TypeOK, ShiftOpTypes, TableTypes
  <1>4. \/ \E c : shCash' = [shCash EXCEPT ![x] = c]
        \/ UNCHANGED shCash
    BY <1>1
    DEF CheckNoneOpen, FindForCash, FindForClose, ShFound, ShiftStep, CreateShift, AddCash,
        ReadSold, ReadRefunds, CloseShift, AbortShiftOp, ShLeave
  <1>5. /\ shCash' = [y \in ShiftOps |-> shCash'[y]]
        /\ \A y \in ShiftOps \ {x} : shCash'[y] = shCash[y]
    BY <1>4 DEF CashKept
  <1>6. ASSUME NEW y \in ShiftOps \ {x}, shPc[y] \in OnShift
        PROVE  shShift[y] \in ShiftIds /\ shiftState[shShift[y]] = "open"
    BY <1>6 DEF FindingStands, OpenShiftsOf
  (* The other shift requests, as long as their drawers are left alone.      *)
  <1>7. ASSUME \A y \in ShiftOps \ {x} : shPc[y] \in OnShift => drawer'[shShift[y]] = drawer[shShift[y]],
               /\ shPc'[x] \in {"sold", "refunds", "close"} => shDrawer'[x] = drawer'[shShift'[x]]
               /\ shPc'[x] = "refunds" => shCash'[x] = CashOf(SoldIn(shShift[x])) /\ shShift'[x] = shShift[x]
               /\ shPc'[x] = "close" => /\ shCash'[x] = CashOf(SoldIn(shShift[x])) - CashOf(RefundedIn(shShift[x]))
                                        /\ shShift'[x] = shShift[x]
        PROVE  ReadsStand'
    <2> SUFFICES ASSUME NEW y \in ShiftOps
                 PROVE  /\ shPc'[y] \in {"sold", "refunds", "close"} => shDrawer'[y] = drawer'[shShift'[y]]
                        /\ shPc'[y] = "refunds" => shCash'[y] = CashOf(SoldIn(shShift[y]))'
                        /\ shPc'[y] = "close" =>
                             shCash'[y] = CashOf(SoldIn(shShift[y]))' - CashOf(RefundedIn(shShift[y]))'
      BY DEF ReadsStand
    <2>2. ASSUME NEW z, shShift'[y] = z
          PROVE  /\ CashOf(SoldIn(shShift[y]))' = CashOf(SoldIn(z))
                 /\ CashOf(RefundedIn(shShift[y]))' = CashOf(RefundedIn(z))
      <3>1. /\ CashOf(SoldIn(shShift[y]))' = CashOf(SoldIn(z))'
            /\ CashOf(RefundedIn(shShift[y]))' = CashOf(RefundedIn(z))'
        BY <2>2 DEF CashOf, SoldIn, RefundedIn
      <3> QED
        BY <1>2, <3>1 DEF SameBooks
    <2>3. CASE y = x
      BY <1>7, <2>2, <2>3
    <2>4. CASE y # x
      BY <1>3, <1>5, <1>7, <2>2, <2>4 DEF ReadsStand, OnShift
    <2> QED
      BY <2>3, <2>4
  (* A shift that is closed keeps its books and, with its drawer, its report. *)
  <1>8. ASSUME UNCHANGED expected, NEW h \in ShiftIds, shiftState[h] = "closed",
               drawer'[h] = drawer[h]
        PROVE  expected'[h] = drawer'[h] + (CashOf(SoldIn(h))' - CashOf(RefundedIn(h))')
    BY <1>2, <1>8 DEF ExpectedCashFinal, SameBooks
  <1>9. CASE \/ \E t \in Terminals : CheckNoneOpen(x, t) \/ FindForCash(x, t) \/ FindForClose(x, t)
             \/ ReadSold(x) \/ ReadRefunds(x) \/ AbortShiftOp(x)
    <2>1. UNCHANGED <<shiftState, drawer, expected>>
      BY <1>9
      DEF CheckNoneOpen, FindForCash, FindForClose, ShFound, ReadSold, ReadRefunds, AbortShiftOp,
          dbVars, shiftVars
    <2>2. CashKept'
      BY <1>5, <2>1 DEF CashKept
    <2>3. ExpectedCashFinal'
      BY <1>8, <2>1 DEF ExpectedCashFinal
    <2>4. CASE \E t \in Terminals : CheckNoneOpen(x, t) \/ FindForCash(x, t) \/ FindForClose(x, t)
      <3>1. shPc'[x] \in {"open", "cash", "sold"}
        BY <1>0, <2>4 DEF CheckNoneOpen, FindForCash, FindForClose, ShFound
      <3>2. shPc'[x] = "sold" => shDrawer'[x] = drawer[shShift'[x]]
        BY <1>0, <2>4 DEF CheckNoneOpen, FindForCash, FindForClose, ShFound
      <3> QED
        BY <1>7, <2>1, <2>2, <2>3, <3>1, <3>2
    <2>5. CASE ReadSold(x)
      <3>1. /\ shPc'[x] = "refunds" /\ shShift' = shShift /\ shDrawer' = shDrawer
            /\ shDrawer[x] = drawer[shShift[x]]
        BY <1>0, <2>5 DEF ReadSold, ReadsStand
      <3>2. shCash'[x] = CashOf(SoldIn(shShift[x]))
        BY <2>5 DEF ReadSold, CashKept
      <3> QED
        BY <1>7, <2>1, <2>2, <2>3, <3>1, <3>2
    <2>6. CASE ReadRefunds(x)
      <3>1. /\ shPc'[x] = "close" /\ shShift' = shShift /\ shDrawer' = shDrawer
            /\ shDrawer[x] = drawer[shShift[x]] /\ shCash[x] = CashOf(SoldIn(shShift[x]))
        BY <1>0, <2>6 DEF ReadRefunds, ReadsStand
      <3>2. shCash'[x] = shCash[x] - CashOf(RefundedIn(shShift[x]))
        BY <2>6 DEF ReadRefunds, CashKept
      <3> QED
        BY <1>7, <2>1, <2>2, <2>3, <3>1, <3>2
    <2>7. CASE AbortShiftOp(x)
      <3>1. shPc'[x] = "idle"
        BY <1>0, <2>7 DEF AbortShiftOp, ShLeave
      <3> QED
        BY <1>7, <2>1, <2>2, <2>3, <3>1
    <2> QED
      BY <1>9, <2>4, <2>5, <2>6, <2>7
  <1>10. CASE AddCash(x)
    <2>1. shPc[x] = "cash" /\ Shifting(x, shTerm[x]) /\ shTerm[x] \in Terminals
      BY <1>0, <1>10 DEF AddCash, Shifting
    <2>2. /\ shShift[x] \in ShiftIds /\ shiftState[shShift[x]] = "open"
          /\ TerminalOf[shShift[x]] = shTerm[x]
      BY <2>1 DEF FindingStands, OpenShiftsOf, OnShift
    <2>3. \A g \in ShiftIds \ {shShift[x]} : drawer'[g] = drawer[g]
      BY <1>0, <1>10 DEF AddCash
    <2>4. \A y \in ShiftOps \ {x} : shPc[y] \in OnShift => shShift[y] \in ShiftIds \ {shShift[x]}
      BY <1>0, <2>1, <2>2 DEF FindingStands, OpenShiftsOf, OneRequest, Shifting, OnShift
    <2>5. shPc'[x] = "idle" /\ UNCHANGED <<shiftState, expected>>
      BY <1>0, <1>10 DEF AddCash, ShLeave
    <2>6. CashKept'
      BY <1>5, <2>5 DEF CashKept
    <2>7. ReadsStand'
      BY <1>7, <2>3, <2>4, <2>5
    <2>8. ExpectedCashFinal'
      BY <1>8, <2>2, <2>3, <2>5 DEF ExpectedCashFinal
    <2> QED
      BY <2>6, <2>7, <2>8
  <1>11. CASE CreateShift(x)
    <2>1. PICK h \in ShiftIds : /\ shiftState[h] = "unused"
                                /\ shiftState' = [shiftState EXCEPT ![h] = "open"]
                                /\ \E c \in Floats : drawer' = [drawer EXCEPT ![h] = c]
      BY <1>11 DEF CreateShift
    <2>2. \A g \in ShiftIds \ {h} : drawer'[g] = drawer[g] /\ shiftState'[g] = shiftState[g]
      BY <1>0, <2>1
    <2>3. shPc'[x] = "idle" /\ UNCHANGED expected
      BY <1>0, <1>11 DEF CreateShift, ShLeave
    <2>4. CashKept'
      BY <1>5, <2>3 DEF CashKept
    <2>5. ReadsStand'
      BY <1>6, <1>7, <2>1, <2>2, <2>3
    <2>6. ExpectedCashFinal'
      <3>1. shiftState'[h] = "open"
        BY <1>0, <2>1
      <3> QED
        BY <1>8, <2>2, <2>3, <3>1 DEF ExpectedCashFinal
    <2> QED
      BY <2>4, <2>5, <2>6
  <1>12. CASE CloseShift(x)
    <2> DEFINE h == shShift[x]
    <2>1. h \in ShiftIds /\ shiftState[h] = "open"
      BY <1>12 DEF CloseShift, FindingStands, OpenShiftsOf, OnShift
    <2>2. /\ shiftState' = [shiftState EXCEPT ![h] = "closed"] /\ UNCHANGED drawer
          /\ expected' = [expected EXCEPT ![h] = shDrawer[x] + shCash[x]]
      BY <1>12 DEF CloseShift
    <2>3. shDrawer[x] = drawer[h] /\ shCash[x] = CashOf(SoldIn(h)) - CashOf(RefundedIn(h))
      BY <1>12 DEF CloseShift, ReadsStand
    <2>4. /\ expected'[h] = drawer[h] + (CashOf(SoldIn(h)) - CashOf(RefundedIn(h)))
          /\ \A g \in ShiftIds \ {h} : expected'[g] = expected[g] /\ shiftState'[g] = shiftState[g]
          /\ expected' = [g \in ShiftIds |-> expected'[g]]
      BY <1>0, <2>1, <2>2, <2>3 DEF CashKept
    <2>5. shPc'[x] = "idle"
      BY <1>0, <1>12 DEF CloseShift, ShLeave
    <2>6. CashKept'
      BY <1>5, <2>4 DEF CashKept
    <2>7. ReadsStand'
      BY <1>7, <2>2, <2>5
    <2>8. ExpectedCashFinal'
      BY <1>2, <2>2, <2>4 DEF ExpectedCashFinal, SameBooks
    <2> QED
      BY <2>6, <2>7, <2>8
  <1> QED
    BY <1>1, <1>9, <1>10, <1>11, <1>12 DEF ShiftStep

LEMMA CashStep ==
  ASSUME IndInv, OneRequest, ShiftsStand, CashStands, [Next]_vars
  PROVE  CashStands'
  <1>1. CASE PostNext
    <2>1. PICK p \in Posts :
            \/ \E d \in Drafts : Submit(p, d)
            \/ PostStep(p) \/ Refuse(p) \/ AbortPost(p)
      BY <1>1 DEF PostNext
    <2>2. UNCHANGED shiftVars
      BY <2>1, PostGoesOn DEF Submit, dbVars, IndInv
    <2> QED
      BY <1>1, <2>2, CashFramed DEF PostNext
  <1>2. CASE ReversalNext
    <2>1. PICK v \in Reversals :
            \/ \E kind \in {"void", "refund"}, s \in SaleIds, t \in Terminals :
                 BeginReversal(v, kind, s, t)
            \/ ReversalStep(v) \/ AbortReversal(v)
      BY <1>2 DEF ReversalNext
    <2>2. UNCHANGED shiftVars
      BY <2>1, ReversalGoesOn DEF BeginReversal, dbVars, IndInv
    <2> QED
      BY <1>2, <2>2, CashFramed DEF ReversalNext
  <1>3. CASE StockNext
    BY <1>3, StockElsewhere, CashFramed DEF serialVars
  <1>4. CASE ShiftNext
    BY <1>4, ShiftCash
  <1>5. CASE UNCHANGED vars
    BY <1>5, CashFramed DEF vars, dbVars
  <1> QED
    BY <1>1, <1>2, <1>3, <1>4, <1>5 DEF Next

----------------------------------------------------------------------------
(* The receipt counter.                                                      *)

LEMMA ReceiptsFramed ==
  ASSUME UNCHANGED <<postVars, receiptSeq, saleDraft>>,
         \A s \in SaleIds : Stored(s)' => Stored(s), ReceiptsStand
  PROVE  ReceiptsStand'
  BY DEF ReceiptsStand, ReceiptSeqAhead, postVars

LEMMA PostReceipts ==
  ASSUME IndInv, OneRequest, ReceiptsStand, PostNext
  PROVE  ReceiptsStand'
  <1> USE DEF IndInv
  <1>0. /\ postPc \in [Posts -> PostPcs] /\ postSeq \in [Posts -> Nat]
        /\ postDraft \in [Posts -> Drafts \cup {NoDraft}]
        /\ saleDraft \in [SaleIds -> Drafts \cup {NoDraft}]
        /\ saleStatus \in [SaleIds -> Statuses]
        /\ receiptSeq \in [Terminals -> Nat]
    BY DEF TypeOK, SalesTypes, TableTypes
  <1>1. PICK p \in Posts :
          \/ \E d \in Drafts : Submit(p, d)
          \/ PostStep(p) \/ Refuse(p) \/ AbortPost(p)
    BY DEF PostNext
  <1>2. \A q \in Posts \ {p} :
          postPc'[q] = postPc[q] /\ postSeq'[q] = postSeq[q] /\ postDraft'[q] = postDraft[q]
    BY <1>0, <1>1
    DEF PostStep, Submit, Refuse, AbortPost, FastPath, CheckShift, LockStock, LookAgain,
        ConflictPass, ReadSeq, CommitClash, ExplainClash, CommitSale, Goto, Answer
  <1>3. CASE CommitSale(p)
    <2> DEFINE d == postDraft[p]
    <2>1. d \in Drafts
      BY <1>3 DEF CommitSale, CoreInv, RequestsCarryDrafts
    <2>2. d.id \in SaleIds /\ d.terminal \in Terminals /\ d.receipt \in Receipts
      BY <2>1, DraftFields
    <2>3. postSeq[p] = receiptSeq[d.terminal] /\ SeqOf[d.receipt] \in Nat
      BY <1>3, <2>2, CatalogAssumption DEF CommitSale, ReceiptsStand
    <2>4. NextSeq(p) \in Nat /\ NextSeq(p) > SeqOf[d.receipt] /\ NextSeq(p) >= receiptSeq[d.terminal]
      BY <1>0, <2>2, <2>3 DEF NextSeq
    <2>5. /\ receiptSeq'[d.terminal] = NextSeq(p)
          /\ \A t \in Terminals \ {d.terminal} : receiptSeq'[t] = receiptSeq[t]
      BY <1>0, <1>3, <2>2, <2>3 DEF CommitSale
    <2>6. /\ saleDraft'[d.id] = d
          /\ \A s \in SaleIds \ {d.id} :
               saleDraft'[s] = saleDraft[s] /\ saleStatus'[s] = saleStatus[s]
      BY <1>0, <1>3, <2>2 DEF CommitSale
    <2>7. ReceiptSeqAhead'
      <3> SUFFICES ASSUME NEW s \in SaleIds, Stored(s)'
                   PROVE  receiptSeq'[saleDraft'[s].terminal] > SeqOf[saleDraft'[s].receipt]
        BY DEF ReceiptSeqAhead
      <3>1. CASE s = d.id
        BY <2>4, <2>5, <2>6, <3>1
      <3>2. CASE s # d.id
        <4>1. Stored(s) /\ saleDraft'[s] = saleDraft[s]
          BY <2>6, <3>2 DEF Stored
        <4>2. saleDraft[s] \in Drafts
          BY <4>1 DEF CoreInv, SalesStoreDrafts
        <4>3. saleDraft[s].terminal \in Terminals /\ SeqOf[saleDraft[s].receipt] \in Nat
          BY <4>2, DraftFields, CatalogAssumption
        <4>4. receiptSeq[saleDraft[s].terminal] > SeqOf[saleDraft[s].receipt]
          BY <4>1 DEF ReceiptsStand, ReceiptSeqAhead
        <4> QED
          BY <1>0, <2>2, <2>4, <2>5, <4>1, <4>3, <4>4
      <3> QED
        BY <3>1, <3>2
    <2>8. \A q \in Posts : postPc'[q] = "numbered" =>
            postSeq'[q] = receiptSeq'[postDraft'[q].terminal]
      <3> SUFFICES ASSUME NEW q \in Posts, postPc'[q] = "numbered"
                   PROVE  postSeq'[q] = receiptSeq'[postDraft'[q].terminal]
        OBVIOUS
      <3>1. q # p
        BY <1>0, <1>3 DEF CommitSale, Answer
      <3>2. postPc[q] = "numbered" /\ postSeq'[q] = postSeq[q] /\ postDraft'[q] = postDraft[q]
        BY <1>2, <3>1
      <3>3. postDraft[q].terminal \in Terminals
        BY <3>2, DraftFields DEF CoreInv, RequestsCarryDrafts
      <3>4. postDraft[q].terminal # d.terminal
        BY <1>3, <2>2, <3>1, <3>2 DEF OneRequest, Posting, CommitSale
      <3> QED
        BY <2>5, <3>2, <3>3, <3>4 DEF ReceiptsStand
    <2> QED
      BY <2>7, <2>8 DEF ReceiptsStand
  <1>4. CASE ~CommitSale(p)
    <2>1. UNCHANGED <<saleDraft, saleStatus, receiptSeq>>
      BY <1>1, <1>4
      DEF PostStep, Submit, Refuse, AbortPost, FastPath, CheckShift, LockStock, LookAgain,
          ConflictPass, ReadSeq, CommitClash, ExplainClash, dbVars, saleVars
    <2>2. postPc'[p] = "numbered" => postSeq'[p] = receiptSeq[postDraft'[p].terminal]
      BY <1>0, <1>1, <1>4
      DEF PostStep, Submit, Refuse, AbortPost, FastPath, CheckShift, LockStock, LookAgain,
          ConflictPass, ReadSeq, CommitClash, ExplainClash, Goto, Answer
    <2> QED
      BY <1>2, <2>1, <2>2 DEF ReceiptsStand, ReceiptSeqAhead, Stored
  <1> QED
    BY <1>3, <1>4

LEMMA ReceiptsStep ==
  ASSUME IndInv, OneRequest, ReceiptsStand, [Next]_vars
  PROVE  ReceiptsStand'
  <1> USE DEF IndInv
  <1>1. CASE PostNext
    BY <1>1, PostReceipts
  <1>2. CASE ReversalNext
    <2>1. PICK v \in Reversals :
            \/ \E kind \in {"void", "refund"}, s \in SaleIds, t \in Terminals :
                 BeginReversal(v, kind, s, t)
            \/ ReversalStep(v) \/ AbortReversal(v)
      BY <1>2 DEF ReversalNext
    <2>2. UNCHANGED <<postVars, receiptSeq, saleDraft>>
      BY <2>1, ReversalGoesOn DEF BeginReversal, dbVars, saleVars
    <2>3. \A s \in SaleIds : Stored(s)' => Stored(s)
      <3>1. CASE CommitVoid(v) \/ CommitRefund(v)
        <4>1. Stored(revSale[v])
          BY <3>1 DEF CommitVoid, CommitRefund, CoreInv, SaleLocksExclusive, HoldsSale, Stored
        <4> QED
          BY <3>1, <4>1 DEF CommitVoid, CommitRefund, Stored, TypeOK, TableTypes, SalesTypes
      <3>2. CASE ~CommitVoid(v) /\ ~CommitRefund(v)
        BY <2>1, <3>2
        DEF ReversalStep, BeginReversal, AbortReversal, LockSale, ReadOpenShift, dbVars, saleVars,
            Stored
      <3> QED
        BY <3>1, <3>2
    <2> QED
      BY <2>2, <2>3, ReceiptsFramed
  <1>3. CASE StockNext
    BY <1>3, StockElsewhere, ReceiptsFramed DEF serialVars, saleVars, Stored
  <1>4. CASE ShiftNext
    BY <1>4, ShiftOpTypesStep, ReceiptsFramed DEF ShiftNext, saleVars, Stored
  <1>5. CASE UNCHANGED vars
    BY <1>5, ReceiptsFramed DEF vars, dbVars, saleVars, Stored
  <1> QED
    BY <1>1, <1>2, <1>3, <1>4, <1>5 DEF Next

----------------------------------------------------------------------------
(* The terminal's assumption and what it buys.                               *)

LEMMA SerialStep ==
  ASSUME OneAtATime, IndInv, SerialInv, [Next]_vars
  PROVE  SerialInv'
  BY OneRequestStep, ShiftsStep, CashStep, ReceiptsStep DEF SerialInv

THEOREM SerialInvariant ==
  ASSUME OneAtATime, OneOpenAtStart PROVE Spec => []SerialInv
  <1>1. Init => SerialInv
    BY InitSerial
  <1>2. IndInv /\ IndInv' /\ SerialInv /\ [Next]_vars => SerialInv'
    BY SerialStep
  <1> QED
    BY <1>1, <1>2, InductiveInvariant, PTL DEF Spec

(* What a close writes is what the shift's sales, refunds and cash movements  *)
(* add up to, and it stays so (ShiftsService.close): for the three reads and *)
(* the write of the handler to be safe, it is enough that the terminal waits *)
(* for its answers.                                                          *)
THEOREM ReportsFinal ==
  ASSUME OneAtATime, OneOpenAtStart PROVE Spec => []ExpectedCashFinal
  <1>1. SerialInv => ExpectedCashFinal
    BY DEF SerialInv, CashStands
  <1> QED
    BY <1>1, SerialInvariant, PTL

(* receipt_seq is past every stored receipt of its terminal (persist).        *)
THEOREM ReceiptsAhead ==
  ASSUME OneAtATime, OneOpenAtStart PROVE Spec => []ReceiptSeqAhead
  <1>1. SerialInv => ReceiptSeqAhead
    BY DEF SerialInv, ReceiptsStand
  <1> QED
    BY <1>1, SerialInvariant, PTL

LEMMA SaleShiftStep ==
  ASSUME IndInv, SerialInv, [Next]_vars, NEW s \in SaleIds,
         \/ ~Stored(s) /\ saleStatus'[s] # "none"
         \/ saleStatus[s] # "voided" /\ saleStatus'[s] = "voided"
         \/ refundShift'[s] # refundShift[s]
  PROVE  OpenShiftsOf(saleDraft'[s].terminal) = {saleDraft'[s].shift}
  <1> USE DEF IndInv, SerialInv, ShiftsStand
  <1>0. /\ saleDraft \in [SaleIds -> Drafts \cup {NoDraft}]
        /\ saleStatus \in [SaleIds -> Statuses]
        /\ refundShift \in [SaleIds -> ShiftIds \cup {NoShift}]
        /\ revSale \in [Reversals -> SaleIds]
    BY DEF TypeOK, TableTypes, SalesTypes
  <1>1. saleStatus' # saleStatus \/ refundShift' # refundShift
    BY DEF Stored
  <1>2. CASE PostNext
    <2>1. PICK p \in Posts :
            \/ \E d \in Drafts : Submit(p, d)
            \/ PostStep(p) \/ Refuse(p) \/ AbortPost(p)
      BY <1>2 DEF PostNext
    <2>2. CommitSale(p)
      BY <1>1, <2>1
      DEF PostStep, Submit, Refuse, AbortPost, FastPath, CheckShift, LockStock, LookAgain,
          ConflictPass, ReadSeq, CommitClash, ExplainClash, dbVars, saleVars
    <2>3. s = postDraft[p].id
      BY <1>0, <2>2 DEF CommitSale, Stored
    <2>4. saleDraft'[s] = postDraft[p]
      BY <1>0, <2>2, <2>3 DEF CommitSale
    <2>5. OpenShiftsOf(postDraft[p].terminal) = {postDraft[p].shift}
      BY <2>2 DEF CommitSale, PostsStand, PastShiftCheck
    <2> QED
      BY <2>4, <2>5
  <1>3. CASE ReversalNext
    <2>1. PICK v \in Reversals :
            \/ \E kind \in {"void", "refund"}, r \in SaleIds, t \in Terminals :
                 BeginReversal(v, kind, r, t)
            \/ ReversalStep(v) \/ AbortReversal(v)
      BY <1>3 DEF ReversalNext
    <2>2. CommitVoid(v) \/ CommitRefund(v)
      BY <1>1, <2>1
      DEF ReversalStep, BeginReversal, AbortReversal, LockSale, ReadOpenShift, dbVars, saleVars
    <2>3. Stored(revSale[v])
      BY <2>2 DEF CommitVoid, CommitRefund, CoreInv, SaleLocksExclusive, HoldsSale, Stored
    <2>4. s = revSale[v] /\ Charges(v)
      <3>1. CASE CommitVoid(v)
        BY <1>0, <2>3, <3>1 DEF CommitVoid, Stored, Charges
      <3>2. CASE CommitRefund(v)
        <4>1. s = revSale[v] /\ refundShift'[s] = revShift[v]
          BY <1>0, <2>3, <3>2 DEF CommitRefund, Stored
        <4>2. saleStatus[s] = "completed" /\ saleStatus'[s] = "refunded"
          BY <1>0, <3>2, <4>1 DEF CommitRefund, CoreInv, SaleLocksExclusive, HoldsSale
        <4>3. refundShift'[s] # refundShift[s]
          BY <4>2 DEF Stored
        <4>4. refundShift[s] = NoShift
          BY <4>2 DEF CoreInv, RefundChargedToOwnShift
        <4> QED
          BY <3>2, <4>1, <4>3, <4>4 DEF CommitRefund, Charges
      <3> QED
        BY <2>2, <3>1, <3>2
    <2>5. OpenShiftsOf(revTerm[v]) = {saleDraft[s].shift}
      BY <2>4 DEF ChargesStand
    <2>6. TerminalOf[saleDraft[s].shift] = revTerm[v]
      BY <2>5 DEF OpenShiftsOf
    <2>7. saleDraft[s].terminal = revTerm[v]
      BY <2>3, <2>4, <2>6 DEF SalesOnOwnShift
    <2>8. saleDraft' = saleDraft
      BY <2>2 DEF CommitVoid, CommitRefund
    <2> QED
      BY <2>5, <2>7, <2>8
  <1>4. CASE StockNext
    BY <1>1, <1>4, StockElsewhere DEF serialVars, saleVars
  <1>5. CASE ShiftNext
    BY <1>1, <1>5, ShiftOpTypesStep DEF ShiftNext, saleVars
  <1>6. CASE UNCHANGED vars
    BY <1>1, <1>6 DEF vars, dbVars, saleVars
  <1> QED
    BY <1>2, <1>3, <1>4, <1>5, <1>6 DEF Next

(* A sale appears, turns voided or has its refund charged to a shift only while *)
(* its own shift is the one open shift of its terminal (completeSale,        *)
(* voidSale, refundSale, ShiftsService.open).                                *)
THEOREM SalesInOpenShift ==
  ASSUME OneAtATime, OneOpenAtStart PROVE Spec => SaleInOpenShift
  <1>1. IndInv /\ SerialInv /\ [Next]_vars =>
          [\A s \in SaleIds :
             (\/ ~Stored(s) /\ saleStatus'[s] # "none"
              \/ saleStatus[s] # "voided" /\ saleStatus'[s] = "voided"
              \/ refundShift'[s] # refundShift[s])
               => OpenShiftsOf(saleDraft'[s].terminal) = {saleDraft'[s].shift}]_vars
    BY SaleShiftStep
  <1> QED
    BY <1>1, InductiveInvariant, SerialInvariant, PTL DEF Spec, SaleInOpenShift
=============================================================================
