--------------------------- MODULE RowLocksProofs ---------------------------
(***************************************************************************)
(* Machine-checked proofs about RowLocks, for any number of requests and   *)
(* any stock rows, baskets and deliveries.                                 *)
(***************************************************************************)
EXTENDS RowLocks, FiniteSetTheorems, WellFoundedInduction, TLAPS

LEMMA AnyLockType == AnyLock \in Locks
  BY LocksAssumption DEF AnyLock

LEMMA JobsTyped ==
  ASSUME TypeOK, NEW r \in Requests, NEW j \in scene[r]
  PROVE  /\ j \in Job
         /\ j.kind = "post" => j.also \subseteq Claims
         /\ j.kind = "reversal" => \E s \in SaleRows : j.also = {s}
         /\ j.kind = "adjust" => j.also = {} /\ \E k \in Rows : j.keys = {k}
         /\ j.kind = "receive" => j.also = {}
  BY ScenesAssumption DEF TypeOK, Job

LEMMA NoJobType == NoJob \in Job
  BY DEF NoJob, Job

LEMMA InitInv == Init => LocksInv
  BY AnyLockType, NoJobType, LocksAssumption
  DEF Init, LocksInv, TypeOK, LockTable, OwnLocks, InOrder, InTx, MaxRetries, NoJob

(* A request that leaves keeps the invariant, whatever it commits.           *)
LEMMA LeaveKeeps ==
  ASSUME LocksInv, NEW r \in Requests, Leave(r),
         rows' \subseteq Rows, used' \subseteq Uniques, over' \subseteq SaleRows
  PROVE  LocksInv'
  <1>1. TypeOK'
    BY AnyLockType, NoJobType DEF LocksInv, TypeOK, Leave, Ask, MaxRetries
  <1>2. LockTable'
    BY DEF LocksInv, TypeOK, LockTable, Leave, InTx
  <1>3. OwnLocks'
    BY DEF LocksInv, TypeOK, OwnLocks, Leave, Ask
  <1>4. InOrder'
    BY DEF LocksInv, TypeOK, InOrder, Leave, Ask, NoJob
  <1> QED
    BY <1>1, <1>2, <1>3, <1>4 DEF LocksInv

LEMMA SendKeeps ==
  ASSUME LocksInv, NEW r \in Requests, Send(r) PROVE LocksInv'
  <1> PICK j \in scene[r] : job' = [job EXCEPT ![r] = j]
    BY DEF Send
  <1> USE DEF LocksInv, dbVars
  <1>0. j \in Job /\ held[r] = {} /\ left[r] = {}
    BY JobsTyped DEF Send, LockTable, InTx
  <1>1. TypeOK'
    BY <1>0 DEF TypeOK, Send
  <1>2. LockTable'
    BY <1>0 DEF TypeOK, LockTable, Send, InTx
  <1>3. OwnLocks'
    BY <1>0 DEF TypeOK, OwnLocks, Send
  <1>4. InOrder'
    BY <1>0 DEF TypeOK, InOrder, Send
  <1> QED
    BY <1>1, <1>2, <1>3, <1>4

LEMMA BeginKeeps ==
  ASSUME LocksInv, NEW r \in Requests, Begin(r) PROVE LocksInv'
  <1> USE DEF LocksInv, dbVars
  <1>0. /\ job[r] \in Job /\ job[r] \in scene[r] /\ held[r] = {}
        /\ left'[r] \subseteq job[r].keys \cup job[r].also
        /\ left' = [left EXCEPT ![r] = left'[r]]
    BY DEF TypeOK, OwnLocks, LockTable, InTx, Begin
  <1>1. TypeOK'
    <2>1. left'[r] \subseteq Locks
      BY <1>0 DEF Job, Locks
    <2> QED
      BY <1>0, <2>1 DEF TypeOK, Begin
  <1>2. LockTable'
    BY <1>0 DEF TypeOK, LockTable, Begin, InTx
  <1>3. OwnLocks'
    BY <1>0 DEF TypeOK, OwnLocks, Begin
  <1>4. InOrder'
    BY <1>0 DEF TypeOK, InOrder, Begin
  <1> QED
    BY <1>1, <1>2, <1>3, <1>4

LEMMA PickKeeps ==
  ASSUME LocksInv, NEW r \in Requests, Pick(r) PROVE LocksInv'
  <1> USE DEF LocksInv, dbVars
  <1> PICK k \in left[r] :
        /\ ComesNext(r, k)
        /\ Ask(r, k, k \in Uniques \/ (k \in Rows /\ k \notin rows))
    BY DEF Pick
  <1>1. TypeOK'
    BY DEF TypeOK, Pick, Ask
  <1>2. LockTable'
    BY DEF TypeOK, LockTable, Pick, InTx
  <1>3. OwnLocks'
    BY DEF TypeOK, OwnLocks, Pick, Ask
  <1>4. InOrder'
    BY DEF TypeOK, InOrder, Pick, Ask, ComesNext
  <1> QED
    BY <1>1, <1>2, <1>3, <1>4

(* The least of the remaining locks moves to the held ones.                  *)
LEMMA GrantKeeps ==
  ASSUME LocksInv, NEW r \in Requests, Grant(r) PROVE LocksInv'
  <1> USE DEF LocksInv, dbVars
  <1>0. /\ ask[r] \in left[r] /\ left[r] \subseteq Locks /\ Locks \subseteq Nat
        /\ pc[r] = "ask" /\ Free(ask[r])
        /\ held' = [held EXCEPT ![r] = @ \cup {ask[r]}]
        /\ left' = [left EXCEPT ![r] = @ \ {ask[r]}]
    BY LocksAssumption DEF Grant, OwnLocks, TypeOK
  <1>1. TypeOK'
    BY <1>0, AnyLockType DEF TypeOK, Grant, Ask
  <1>2. LockTable'
    BY <1>0 DEF TypeOK, LockTable, Grant, InTx, Free
  <1>3. OwnLocks'
    BY <1>0 DEF TypeOK, OwnLocks, Grant, Ask
  <1>4. InOrder'
    <2>1. ASSUME NEW q \in Requests, q # r
          PROVE  /\ held'[q] = held[q] /\ left'[q] = left[q] /\ job'[q] = job[q]
                 /\ pc'[q] = pc[q] /\ ask'[q] = ask[q]
      BY <1>0, <2>1 DEF TypeOK, Grant, Ask
    <2>2. /\ held'[r] = held[r] \cup {ask[r]} /\ left'[r] = left[r] \ {ask[r]}
          /\ job'[r] = job[r] /\ pc'[r] = "pick"
      BY <1>0 DEF TypeOK, Grant, Ask
    <2>3. ASSUME job[r].kind = "post", NEW k \in held'[r], NEW l \in left'[r]
          PROVE  k < l
      <3>1. l \in left[r] /\ l # ask[r] /\ ask[r] <= l /\ l \in Nat /\ ask[r] \in Nat
        BY <1>0, <2>2, <2>3 DEF InOrder
      <3>2. CASE k \in held[r]
        BY <2>3, <3>1, <3>2 DEF InOrder
      <3>3. CASE k = ask[r]
        BY <3>1, <3>3
      <3> QED
        BY <2>2, <3>2, <3>3
    <2>4. ASSUME job[r].kind = "reversal" PROVE left'[r] \cap SaleRows = {}
      <3>1. PICK s \in SaleRows : job[r].also = {s}
        BY <1>0, <2>4, JobsTyped DEF OwnLocks
      <3>2. left[r] \subseteq job[r].keys \cup {s} /\ job[r].keys \subseteq Rows
        BY <1>0, <3>1 DEF OwnLocks, TypeOK, Job
      <3>3. left[r] \cap SaleRows \subseteq {s}
        BY <3>2, LocksAssumption
      <3>4. ask[r] \in SaleRows \/ left[r] \cap SaleRows = {}
        BY <1>0, <2>4 DEF InOrder
      <3> QED
        BY <1>0, <2>2, <3>3, <3>4
    <2> QED
      BY <2>1, <2>2, <2>3, <2>4 DEF InOrder
  <1> QED
    BY <1>1, <1>2, <1>3, <1>4

LEMMA ClashKeeps ==
  ASSUME LocksInv, NEW r \in Requests, Clash(r) PROVE LocksInv'
  <1>1. CASE MayRetry(r)
    <2> USE <1>1 DEF LocksInv, dbVars
    <2>0. /\ pc' = [pc EXCEPT ![r] = "begin"]
          /\ left' = [left EXCEPT ![r] = {}] /\ held' = [held EXCEPT ![r] = {}]
          /\ try' = [try EXCEPT ![r] = @ + 1] /\ Ask(r, AnyLock, FALSE)
          /\ UNCHANGED <<scene, job, rows, used, over>> /\ pc[r] = "ask"
      BY DEF Clash
    <2>1. try[r] + 1 \in 0 .. MaxRetries
      BY DEF MayRetry, TypeOK, MaxRetries
    <2>2. TypeOK'
      BY <2>0, <2>1, AnyLockType DEF TypeOK, Ask
    <2>3. LockTable'
      BY <2>0 DEF TypeOK, LockTable, InTx
    <2>4. OwnLocks'
      BY <2>0 DEF TypeOK, OwnLocks, Ask
    <2>5. InOrder'
      BY <2>0 DEF TypeOK, InOrder, Ask
    <2> QED
      BY <2>2, <2>3, <2>4, <2>5
  <1>2. CASE ~MayRetry(r)
    BY <1>2, LeaveKeeps DEF Clash, dbVars, LocksInv, TypeOK
  <1> QED
    BY <1>1, <1>2

LEMMA NextKeeps == LocksInv /\ [Next]_vars => LocksInv'
  <1> SUFFICES ASSUME LocksInv, [Next]_vars PROVE LocksInv'
    OBVIOUS
  <1>1. CASE UNCHANGED vars
    BY <1>1 DEF vars, LocksInv, TypeOK, LockTable, OwnLocks, InOrder, InTx
  <1>2. ASSUME NEW r \in Requests,
               Refuse(r) \/ Commit(r) \/ Abort(r) \/ Victim(r) \/ Expire(r)
        PROVE  LocksInv'
    BY <1>2, LeaveKeeps
    DEF Refuse, Commit, Abort, Victim, Expire, dbVars, LocksInv, TypeOK
  <1> QED
    BY <1>1, <1>2, SendKeeps, BeginKeeps, PickKeeps, GrantKeeps, ClashKeeps DEF Next, Step

(* The lock table is what it should be in every reachable state: one holder   *)
(* per lock, locks only inside transactions, posts in ascending order.       *)
THEOREM LockTableRight == Spec => []LocksInv
  <1> QED
    BY InitInv, NextKeeps, PTL DEF Spec

----------------------------------------------------------------------------
(* What a request on a circle holds and asks for comes from its job.         *)
LEMMA AskerLocks ==
  ASSUME LocksInv, NEW q \in Requests, pc[q] = "ask"
  PROVE  /\ ask[q] \in left[q] /\ ask[q] \notin held[q]
         /\ ask[q] \in Nat /\ held[q] \subseteq Nat
         /\ job[q] \in scene[q] /\ job[q] \in Job
         /\ held[q] \cup left[q] \subseteq job[q].keys \cup job[q].also
  BY LocksAssumption DEF LocksInv, TypeOK, OwnLocks

(* Who holds a stock row or a claim that somebody waits for, and waits itself *)
(* without disorder, asks for a greater one.                                 *)
LEMMA HolderAsksHigher ==
  ASSUME LocksInv, NEW q \in Requests, pc[q] = "ask", NEW k \in held[q],
         k \notin SaleRows,
         job[q].kind \in {"receive", "reversal"} => \A l \in held[q] \cap Rows : ~(l > ask[q])
  PROVE  ask[q] \notin SaleRows /\ k < ask[q]
  <1>1. /\ ask[q] \in left[q] /\ ask[q] # k /\ ask[q] \in Nat /\ k \in Nat
        /\ job[q] \in scene[q] /\ job[q] \in Job
        /\ held[q] \cup left[q] \subseteq job[q].keys \cup job[q].also
    BY AskerLocks
  <1>2. job[q].keys \subseteq Rows /\ job[q].kind \in {"post", "reversal", "receive", "adjust"}
    BY <1>1 DEF Job
  <1>3. CASE job[q].kind = "post"
    <2>1. job[q].also \subseteq Claims
      BY <1>1, <1>3, JobsTyped DEF LocksInv
    <2>2. ask[q] \notin SaleRows
      BY <1>1, <1>2, <2>1, LocksAssumption
    <2> QED
      BY <1>1, <1>3, <2>2 DEF LocksInv, InOrder
  <1>4. CASE job[q].kind = "adjust"
    <2>1. PICK l \in Rows : job[q].keys = {l} /\ job[q].also = {}
      BY <1>1, <1>4, JobsTyped DEF LocksInv
    <2> QED
      BY <1>1, <2>1
  <1>5. CASE job[q].kind = "receive"
    <2>1. job[q].also = {}
      BY <1>1, <1>5, JobsTyped DEF LocksInv
    <2>2. k \in Rows /\ ask[q] \notin SaleRows
      BY <1>1, <1>2, <2>1, LocksAssumption
    <2> QED
      BY <1>1, <1>5, <2>2
  <1>6. CASE job[q].kind = "reversal"
    <2>1. PICK s \in SaleRows : job[q].also = {s}
      BY <1>1, <1>6, JobsTyped DEF LocksInv
    <2>2. k \in Rows
      BY <1>1, <1>2, <2>1
    <2>3. ask[q] \notin SaleRows
      BY <1>1, <1>6 DEF LocksInv, InOrder
    <2> QED
      BY <1>1, <1>6, <2>2, <2>3
  <1> QED
    BY <1>2, <1>3, <1>4, <1>5, <1>6

(* Who holds a sale and waits no longer asks for one.                        *)
LEMMA SaleHolderAsksRow ==
  ASSUME LocksInv, NEW q \in Requests, pc[q] = "ask", NEW k \in held[q], k \in SaleRows
  PROVE  ask[q] \notin SaleRows
  <1>1. /\ ask[q] \in left[q] /\ job[q] \in scene[q] /\ job[q] \in Job
        /\ held[q] \cup left[q] \subseteq job[q].keys \cup job[q].also
    BY AskerLocks
  <1>2. job[q].keys \subseteq Rows /\ job[q].kind \in {"post", "reversal", "receive", "adjust"}
    BY <1>1 DEF Job
  <1>3. k \in job[q].also
    BY <1>1, <1>2, LocksAssumption
  <1>4. job[q].kind = "reversal"
    BY <1>1, <1>2, <1>3, JobsTyped, LocksAssumption DEF LocksInv
  <1> QED
    BY <1>1, <1>4 DEF LocksInv, InOrder

(* A largest wanted lock of a circle contradicts the order.                  *)
LEMMA OrderedNeverCircle == LocksInv => CirclesNeedDisorder
  <1> SUFFICES ASSUME LocksInv, NEW S \in SUBSET Requests, Circle(S),
                      ~ \E r \in S : /\ job[r].kind \in {"receive", "reversal"}
                                     /\ \E k \in held[r] \cap Rows : k > ask[r]
               PROVE  FALSE
    BY DEF CirclesNeedDisorder
  <1> PICK m \in Nat : \A k \in Locks : k <= m
    BY LocksAssumption
  <1> DEFINE A == {r \in S : ask[r] \notin SaleRows}
             D == {m - ask[r] : r \in A}
             Less == OpToRel(<, Nat)
  <1>1. \A r \in S : pc[r] = "ask" /\ ask[r] \in Nat /\ ask[r] <= m
    BY LocksAssumption DEF Circle, WaitsFor, LocksInv, TypeOK
  <1>2. \A r \in S : \E q \in S : ask[r] \in held[q]
    BY DEF Circle, WaitsFor
  <1>3. \A r \in A : \E q \in A : ask[r] < ask[q]
    <2> TAKE r \in A
    <2>1. PICK q \in S : ask[r] \in held[q]
      BY <1>2
    <2>2. ask[q] \notin SaleRows /\ ask[r] < ask[q]
      BY <1>1, <2>1, HolderAsksHigher
    <2> QED
      BY <2>2
  <1>4. A # {}
    <2>1. PICK r \in S : TRUE
      BY DEF Circle
    <2>2. CASE ask[r] \in SaleRows
      <3>1. PICK q \in S : ask[r] \in held[q]
        BY <1>2
      <3>2. ask[q] \notin SaleRows
        BY <1>1, <2>2, <3>1, SaleHolderAsksRow
      <3> QED
        BY <3>2
    <2> QED
      BY <2>1, <2>2
  <1>5. D \subseteq Nat /\ D # {}
    BY <1>1, <1>4
  <1>6. PICK x \in D : \A y \in D : ~(<<y, x>> \in Less)
    <2>1. IsWellFoundedOn(Less, Nat)
      BY NatLessThanWellFounded
    <2> HIDE DEF D, Less
    <2> QED
      BY <1>5, <2>1, WFMin
  <1>7. PICK r \in A : x = m - ask[r]
    OBVIOUS
  <1>8. PICK q \in A : ask[r] < ask[q]
    BY <1>3
  <1>9. m - ask[q] \in D /\ m - ask[q] < x
    BY <1>1, <1>7, <1>8
  <1>10. <<m - ask[q], x>> \in Less
    BY <1>5, <1>9 DEF OpToRel
  <1> QED
    BY <1>6, <1>9, <1>10

(* Posts and adjusts never deadlock among themselves; every circle of waits   *)
(* goes through a delivery or a reversal that took its rows out of order.    *)
THEOREM DeadlocksNeedDisorder == Spec => []CirclesNeedDisorder
  <1> QED
    BY LockTableRight, OrderedNeverCircle, PTL

----------------------------------------------------------------------------
(* What an attempt that was lost stands for: a row of the job that is         *)
(* committed, and another one than the row the request now asks to insert.   *)
LossesOf(r) ==
  /\ pc[r] = "idle" => try[r] = 0
  /\ job[r].kind \notin {"receive", "adjust"} => try[r] = 0
  /\ job[r].kind = "reversal" =>
       job[r].keys \subseteq rows /\ (pc[r] = "ask" => ~insert[r])
  /\ try[r] <= Cardinality(job[r].keys \cap rows)
  /\ pc[r] = "ask" /\ insert[r] /\ ask[r] \in Rows =>
       try[r] <= Cardinality((job[r].keys \cap rows) \ {ask[r]})

LossInv == \A r \in Requests : LossesOf(r)

LEMMA RowsFinite == IsFiniteSet(Rows)
  <1> PICK m \in Nat : \A k \in Locks : k <= m
    BY LocksAssumption
  <1>1. Rows \in SUBSET Nat /\ \A k \in Rows : k <= m
    BY LocksAssumption DEF Locks
  <1> QED
    BY <1>1, FS_BoundedSetOfNaturals

(* More committed rows never make a count smaller.                           *)
LEMMA CountGrows ==
  ASSUME NEW A, NEW B \in SUBSET Rows, A \subseteq B
  PROVE  /\ IsFiniteSet(A) /\ IsFiniteSet(B)
         /\ Cardinality(A) \in Nat /\ Cardinality(B) \in Nat
         /\ Cardinality(A) <= Cardinality(B)
  <1>1. IsFiniteSet(B)
    BY RowsFinite, FS_Subset
  <1>2. IsFiniteSet(A) /\ Cardinality(A) <= Cardinality(B)
    BY <1>1, FS_Subset
  <1> QED
    BY <1>1, <1>2, FS_CardinalityType

LEMMA LossInit == Init => LossInv
  <1> SUFFICES ASSUME Init, NEW r \in Requests
               PROVE  LossesOf(r)
    BY DEF LossInv
  <1>1. pc[r] = "idle" /\ try[r] = 0 /\ job[r] = NoJob
    BY DEF Init
  <1>2. NoJob.keys \cap rows = {} /\ NoJob.kind = "post"
    BY DEF NoJob
  <1> QED
    BY <1>1, <1>2, FS_EmptySet DEF LossesOf

(* A request none of whose variables change keeps its part while rows grow.   *)
LEMMA OthersLossesKept ==
  ASSUME TypeOK, LossInv, NEW q \in Requests, rows \subseteq rows', rows' \subseteq Rows,
         pc'[q] = pc[q], job'[q] = job[q], ask'[q] = ask[q], insert'[q] = insert[q],
         try'[q] = try[q]
  PROVE  LossesOf(q)'
  <1>1. try[q] \in Nat
    BY DEF TypeOK, MaxRetries
  <1>2. /\ Cardinality(job[q].keys \cap rows) \in Nat
        /\ Cardinality(job[q].keys \cap rows') \in Nat
        /\ Cardinality(job[q].keys \cap rows) <= Cardinality(job[q].keys \cap rows')
    BY CountGrows
  <1>3. /\ Cardinality((job[q].keys \cap rows) \ {ask[q]}) \in Nat
        /\ Cardinality((job[q].keys \cap rows') \ {ask[q]}) \in Nat
        /\ Cardinality((job[q].keys \cap rows) \ {ask[q]})
             <= Cardinality((job[q].keys \cap rows') \ {ask[q]})
    BY CountGrows
  <1>4. LossesOf(q)
    BY DEF LossInv
  <1>5. try[q] <= Cardinality(job[q].keys \cap rows')
    BY <1>1, <1>2, <1>4 DEF LossesOf
  <1>6. pc[q] = "ask" /\ insert[q] /\ ask[q] \in Rows =>
          try[q] <= Cardinality((job[q].keys \cap rows') \ {ask[q]})
    BY <1>1, <1>3, <1>4 DEF LossesOf
  <1> QED
    BY <1>4, <1>5, <1>6 DEF LossesOf

(* The others keep theirs in every step of a request.                        *)
LEMMA OthersKept ==
  ASSUME TypeOK, TypeOK', LossInv, NEW r \in Requests, NEW q \in Requests, q # r,
         Send(r) \/ Step(r) \/ Abort(r) \/ Victim(r) \/ Expire(r)
  PROVE  LossesOf(q)'
  <1>1. /\ rows \subseteq rows' /\ rows' \subseteq Rows
        /\ pc'[q] = pc[q] /\ job'[q] = job[q] /\ ask'[q] = ask[q]
        /\ insert'[q] = insert[q] /\ try'[q] = try[q]
    BY DEF TypeOK, Send, Step, Begin, Pick, Grant, Clash, Refuse, Commit, Abort, Victim,
           Expire, Leave, Ask, dbVars
  <1> QED
    BY <1>1, OthersLossesKept

(* A request that leaves has no losses.                                      *)
LEMMA LeaverHasNone ==
  ASSUME TypeOK, NEW r \in Requests, Leave(r) PROVE LossesOf(r)'
  <1>1. pc'[r] = "idle" /\ try'[r] = 0 /\ job'[r] = NoJob
    BY DEF Leave, TypeOK
  <1>2. NoJob.keys \cap rows' = {} /\ NoJob.kind = "post"
    BY DEF NoJob
  <1> QED
    BY <1>1, <1>2, FS_EmptySet DEF LossesOf

(* Only a delivery or an adjust loses an attempt and stays, and what it lost   *)
(* it to is a row of its own.                                                *)
LEMMA LostToOwnRow ==
  ASSUME LocksInv, LossInv, NEW r \in Requests, pc[r] = "ask", Violates(r)
  PROVE  /\ job[r].kind # "reversal"
         /\ job[r].kind # "post" =>
              ask[r] \in job[r].keys \cap rows /\ ask[r] \in Rows
  <1>1. /\ ask[r] \in job[r].keys \cup job[r].also /\ job[r] \in scene[r]
        /\ job[r] \in Job /\ insert[r] /\ ask[r] \in rows \cup used
        /\ rows \subseteq Rows /\ used \subseteq Uniques
    BY DEF LocksInv, OwnLocks, TypeOK, Violates
  <1>2. job[r].keys \subseteq Rows
    BY <1>1 DEF Job
  <1>3. job[r].kind # "reversal"
    BY <1>1 DEF LossInv, LossesOf
  <1>4. ASSUME job[r].kind # "post" PROVE ask[r] \in job[r].keys \cap rows
    <2>1. job[r].also = {}
      BY <1>1, <1>3, <1>4, JobsTyped DEF LocksInv, Job
    <2>2. ask[r] \notin Uniques
      BY <1>1, <1>2, <2>1, LocksAssumption DEF Claims, Locks
    <2> QED
      BY <1>1, <2>1, <2>2
  <1>5. rows \subseteq Rows
    BY <1>1
  <1> QED
    BY <1>3, <1>4, <1>5

LEMMA LossesAmongOwnRows ==
  ASSUME LocksInv, LossInv, NEW r \in Requests, pc[r] = "ask", Violates(r),
         job[r].kind # "post"
  PROVE  try[r] < Cardinality(job[r].keys \cap rows)
  <1>1. ask[r] \in job[r].keys \cap rows /\ ask[r] \in Rows
    BY LostToOwnRow
  <1>2. try[r] <= Cardinality((job[r].keys \cap rows) \ {ask[r]})
    <2>1. LossesOf(r) /\ insert[r]
      BY DEF LossInv, Violates
    <2> QED
      BY <1>1, <2>1 DEF LossesOf
  <1>3. try[r] \in Nat
    BY DEF LocksInv, TypeOK, MaxRetries
  <1>4. IsFiniteSet(job[r].keys \cap rows) /\ Cardinality(job[r].keys \cap rows) \in Nat
    BY CountGrows DEF LocksInv, TypeOK
  <1>5. Cardinality((job[r].keys \cap rows) \ {ask[r]})
          = Cardinality(job[r].keys \cap rows) - 1
    BY <1>1, <1>4, FS_RemoveElement
  <1> QED
    BY <1>2, <1>3, <1>4, <1>5

LEMMA LossNext == LocksInv /\ LossInv /\ [Next]_vars => LossInv'
  <1> SUFFICES ASSUME LocksInv, LossInv, [Next]_vars PROVE LossInv'
    OBVIOUS
  <1>0. TypeOK /\ TypeOK'
    BY NextKeeps DEF LocksInv
  <1>1. CASE UNCHANGED vars
    BY <1>1 DEF vars, LossInv, LossesOf
  <1>2. ASSUME NEW r \in Requests,
               Send(r) \/ Step(r) \/ Abort(r) \/ Victim(r) \/ Expire(r)
        PROVE  LossesOf(r)'
    <2>0. /\ try[r] \in Nat /\ job[r] \in Job
          /\ Cardinality(job[r].keys \cap rows) \in Nat
      BY <1>0, CountGrows DEF TypeOK, MaxRetries
    <2>1. CASE Send(r)
      <3> PICK j \in scene[r] :
            job' = [job EXCEPT ![r] = j] /\ (j.kind = "reversal" => j.keys \subseteq rows)
        BY <2>1 DEF Send
      <3>1. /\ try'[r] = 0 /\ pc'[r] = "begin" /\ job'[r] = j /\ rows' = rows
        BY <1>0, <2>1 DEF Send, LossInv, LossesOf, TypeOK, dbVars
      <3>2. Cardinality(j.keys \cap rows) \in Nat
        BY <1>0, CountGrows DEF TypeOK
      <3> QED
        BY <3>1, <3>2 DEF LossesOf
    <2>2. CASE Begin(r)
      BY <1>0, <2>2 DEF Begin, TypeOK, LossInv, LossesOf, dbVars
    <2>3. CASE Pick(r)
      <3> PICK k \in left[r] :
            Ask(r, k, k \in Uniques \/ (k \in Rows /\ k \notin rows))
        BY <2>3 DEF Pick
      <3>1. /\ pc'[r] = "ask" /\ job' = job /\ try' = try /\ rows' = rows /\ pc[r] = "pick"
            /\ ask'[r] = k /\ insert'[r] = (k \in Uniques \/ (k \in Rows /\ k \notin rows))
        BY <1>0, <2>3 DEF Pick, Ask, TypeOK, dbVars
      <3>2. k \in Rows => k \notin Uniques
        BY LocksAssumption DEF Claims, Locks
      <3>3. ASSUME job[r].kind = "reversal" PROVE ~insert'[r]
        <4>1. PICK s \in SaleRows : job[r].also = {s}
          BY <1>0, <3>1, <3>3, JobsTyped DEF LocksInv, OwnLocks
        <4>2. job[r].keys \subseteq rows /\ k \in job[r].keys \cup {s}
          BY <3>3, <4>1 DEF LossInv, LossesOf, LocksInv, OwnLocks
        <4> QED
          BY <1>0, <3>1, <3>2, <4>2, LocksAssumption DEF TypeOK, Claims
      <3>4. ASSUME insert'[r], k \in Rows
            PROVE  (job[r].keys \cap rows) \ {k} = job[r].keys \cap rows
        BY <3>1, <3>2, <3>4
      <3> QED
        BY <2>0, <3>1, <3>3, <3>4 DEF LossInv, LossesOf
    <2>4. CASE Grant(r)
      BY <1>0, <2>4 DEF Grant, Ask, TypeOK, LossInv, LossesOf, dbVars
    <2>5. CASE Clash(r) /\ MayRetry(r)
      <3>1. /\ pc'[r] = "begin" /\ job' = job /\ rows' = rows /\ try'[r] = try[r] + 1
            /\ job[r].kind \in {"receive", "adjust"}
        BY <1>0, <2>5 DEF Clash, MayRetry, TypeOK, dbVars
      <3>2. try[r] < Cardinality(job[r].keys \cap rows)
        BY <2>5, <3>1, LossesAmongOwnRows DEF Clash
      <3> QED
        BY <2>0, <3>1, <3>2 DEF LossInv, LossesOf
    <2>6. CASE \/ Clash(r) /\ ~MayRetry(r)
               \/ Refuse(r) \/ Commit(r) \/ Abort(r) \/ Victim(r) \/ Expire(r)
      BY <1>0, <2>6, LeaverHasNone
      DEF Clash, Refuse, Commit, Abort, Victim, Expire
    <2> QED
      BY <1>2, <2>1, <2>2, <2>3, <2>4, <2>5, <2>6 DEF Step
  <1>3. ASSUME NEW r \in Requests,
               Send(r) \/ Step(r) \/ Abort(r) \/ Victim(r) \/ Expire(r)
        PROVE  LossInv'
    <2>1. ASSUME NEW q \in Requests PROVE LossesOf(q)'
      BY <1>0, <1>2, <1>3, <2>1, OthersKept
    <2> QED
      BY <2>1 DEF LossInv
  <1> QED
    BY <1>1, <1>3 DEF Next

LEMMA LossesFollow == LocksInv /\ LossInv => LossesAreReal
  BY LostToOwnRow, LossesAmongOwnRows DEF LossesAreReal, LossInv, LossesOf

(* A delivery or an adjust gives up its retries only when so many of its own   *)
(* levels were created under it, and a reversal never meets a unique         *)
(* violation: for any requests, baskets and numbers of retries in progress.  *)
THEOREM RetriesSpentOnRealLosses == Spec => []LossesAreReal
  <1>1. Spec => [](LocksInv /\ LossInv)
    BY InitInv, NextKeeps, LossInit, LossNext, PTL DEF Spec
  <1> QED
    BY <1>1, LossesFollow, PTL
=============================================================================
