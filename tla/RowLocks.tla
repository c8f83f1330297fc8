------------------------------ MODULE RowLocks ------------------------------
(***************************************************************************)
(* The transactions that write stock - a sale's post, a void or refund, a  *)
(* delivery, an adjust - at the grain of single row locks.  PosBranch      *)
(* takes all the locks of a request in one step; here each is a step, so   *)
(* requests can wait for each other in a circle, and PostgreSQL aborts one *)
(* of them.  What the rows contain is PosBranch's subject and left out.    *)
(*                                                                         *)
(* A transaction holds one connection of the pool from its begin to its    *)
(* end.  Reads through the scoped client are sent to the base client even  *)
(* inside it (src/prisma/scoped-prisma.ts), so each needs a second one.    *)
(***************************************************************************)
EXTENDS Integers, FiniteSets

CONSTANTS
  Requests,   \* requests in the server
  Rows,       \* branch_stock keys, numbered by (product_id, variant_id)
  Uniques,    \* unique values a sale claims: id, receipt number, payment id
  Counters,   \* terminals rows a post bumps
  SaleRows,   \* stored sales that reversals lock
  OpeningRows,
  PoolSize,   \* connections of the Prisma client
  Scenes      \* what each request may carry, for clients that send together

Claims == Uniques \cup Counters
Locks == Rows \cup Claims \cup SaleRows

Job == [kind : {"post", "reversal", "receive", "adjust"},
        keys : SUBSET Rows, also : SUBSET (Claims \cup SaleRows)]
NoJob == [kind |-> "post", keys |-> {}, also |-> {}]

(* A post claims its unique values, then the counter of its terminal, after   *)
(* its stock rows; a reversal locks its sale.  The numbers say so.           *)
ASSUME LocksAssumption ==
  /\ Locks \subseteq Nat /\ \E m \in Locks : \A k \in Locks : k <= m
  /\ \A k \in Rows : \A c \in Claims : k < c
  /\ SaleRows \cap (Rows \cup Claims) = {}
  /\ OpeningRows \subseteq Rows
  /\ PoolSize \in Nat
ASSUME ScenesAssumption ==
  /\ Scenes \subseteq [Requests -> SUBSET Job]
  /\ \A sc \in Scenes : \A r \in Requests : \A j \in sc[r] :
       /\ j.kind = "post" => j.also \subseteq Claims
       /\ j.kind = "reversal" => \E s \in SaleRows : j.also = {s}
       /\ j.kind = "adjust" => j.also = {} /\ \E k \in Rows : j.keys = {k}
       /\ j.kind = "receive" => j.also = {}

VARIABLES
  scene,      \* what the clients of this behaviour send
  rows,       \* committed branch_stock rows
  used,       \* committed unique values
  over,       \* sales voided or refunded
  pc,         \* "idle", "begin", "pick" (between locks) or "ask" (wants one)
  job,        \* the job of each request
  left,       \* the locks it still has to take
  held,       \* the locks its transaction holds
  ask,        \* the lock it asks for
  insert,     \* it saw no row and asks as an insert
  try         \* attempts lost to a unique violation

dbVars == <<rows, used, over>>
vars == <<scene, rows, used, over, pc, job, left, held, ask, insert, try>>

MaxRetries == 2
AnyLock == CHOOSE k \in Locks : TRUE

Init ==
  /\ scene \in Scenes
  /\ rows = OpeningRows /\ used = {} /\ over = {}
  /\ pc = [r \in Requests |-> "idle"]
  /\ job = [r \in Requests |-> NoJob]
  /\ left = [r \in Requests |-> {}]
  /\ held = [r \in Requests |-> {}]
  /\ ask = [r \in Requests |-> AnyLock]
  /\ insert = [r \in Requests |-> FALSE]
  /\ try = [r \in Requests |-> 0]

InTx(r) == pc[r] \in {"pick", "ask"}
Spare == Cardinality({r \in Requests : InTx(r)}) < PoolSize
Free(k) == \A q \in Requests : k \notin held[q]

Ask(r, k, inserting) ==
  /\ ask' = [ask EXCEPT ![r] = k]
  /\ insert' = [insert EXCEPT ![r] = inserting]

----------------------------------------------------------------------------
(* A bug: the transaction ends and its row locks stay.                       *)
LeaveHolding(r) ==
  /\ pc' = [pc EXCEPT ![r] = "idle"]
  /\ job' = [job EXCEPT ![r] = NoJob]
  /\ left' = [left EXCEPT ![r] = {}]
  /\ try' = [try EXCEPT ![r] = 0]
  /\ Ask(r, AnyLock, FALSE)
  /\ UNCHANGED <<scene, held>>

(* The transaction ends, by commit or rollback, and its locks are released.  *)
Leave(r) ==
  /\ pc' = [pc EXCEPT ![r] = "idle"]
  /\ job' = [job EXCEPT ![r] = NoJob]
  /\ left' = [left EXCEPT ![r] = {}]
  /\ held' = [held EXCEPT ![r] = {}]
  /\ try' = [try EXCEPT ![r] = 0]
  /\ Ask(r, AnyLock, FALSE)
  /\ UNCHANGED scene

(* A client sends a job; a reversal's stock rows are those its sale moved.   *)
Send(r) ==
  /\ pc[r] = "idle"
  /\ \E j \in scene[r] :
       /\ j.kind = "reversal" => j.keys \subseteq rows
       /\ job' = [job EXCEPT ![r] = j]
  /\ pc' = [pc EXCEPT ![r] = "begin"]
  /\ UNCHANGED <<scene, dbVars, left, held, ask, insert, try>>

(* BEGIN on a connection of the pool.  A post's lockStock selects the rows    *)
(* that are committed now; deliveries, adjusts and restores find theirs one  *)
(* at a time.                                                               *)
Begin(r) ==
  /\ pc[r] = "begin"
  /\ Spare
  /\ pc' = [pc EXCEPT ![r] = "pick"]
  /\ left' = [left EXCEPT ![r] =
                (IF job[r].kind = "post" THEN job[r].keys \cap rows ELSE job[r].keys)
                  \cup job[r].also]
  /\ UNCHANGED <<scene, dbVars, job, held, ask, insert, try>>

(* A bug: lockStock without ORDER BY.                                        *)
ComesNextUnordered(r, k) ==
  /\ k \in left[r]
  /\ job[r].kind = "post" /\ k \in Claims => left[r] \subseteq Claims
  /\ job[r].kind = "reversal" => k \in SaleRows \/ left[r] \cap SaleRows = {}

(* Which lock may come next: lockStock takes the rows ORDER BY product_id,    *)
(* variant_id, then come the claims; a reversal locks its sale first.  The   *)
(* lines of a delivery come in the client's order and a sale's movements in  *)
(* none: any.                                                               *)
ComesNext(r, k) ==
  /\ k \in left[r]
  /\ job[r].kind = "post" => \A l \in left[r] : k <= l
  /\ job[r].kind = "reversal" => k \in SaleRows \/ left[r] \cap SaleRows = {}

(* FOR UPDATE and the counter are statements of the transaction itself; each  *)
(* other write follows a scoped read on a second connection.                *)
OnTx(r, k) ==
  \/ job[r].kind = "post" /\ k \in Rows \cup Counters
  \/ k \in SaleRows

(* The sale a reversal has locked is still completed.                        *)
Stands(r) == held[r] \cap over = {}

Pick(r) ==
  /\ pc[r] = "pick"
  /\ Stands(r)
  /\ \E k \in left[r] :
       /\ ComesNext(r, k)
       /\ OnTx(r, k) \/ Spare
       /\ Ask(r, k, k \in Uniques \/ (k \in Rows /\ k \notin rows))
  /\ pc' = [pc EXCEPT ![r] = "ask"]
  /\ UNCHANGED <<scene, dbVars, job, left, held, try>>

(* What it would insert is there by now.                                     *)
Violates(r) == insert[r] /\ ask[r] \in rows \cup used

(* A bug: the rows are read without FOR UPDATE.                              *)
GrantPlain(r) ==
  /\ pc[r] = "ask"
  /\ ~Violates(r)
  /\ held' = [held EXCEPT ![r] = @ \cup {ask[r]}]
  /\ left' = [left EXCEPT ![r] = @ \ {ask[r]}]
  /\ pc' = [pc EXCEPT ![r] = "pick"]
  /\ Ask(r, AnyLock, FALSE)
  /\ UNCHANGED <<scene, dbVars, job, try>>

Grant(r) ==
  /\ pc[r] = "ask"
  /\ Free(ask[r]) /\ ~Violates(r)
  /\ held' = [held EXCEPT ![r] = @ \cup {ask[r]}]
  /\ left' = [left EXCEPT ![r] = @ \ {ask[r]}]
  /\ pc' = [pc EXCEPT ![r] = "pick"]
  /\ Ask(r, AnyLock, FALSE)
  /\ UNCHANGED <<scene, dbVars, job, try>>

(* withLevelCreateRetry runs a delivery or an adjust again; nothing else.    *)
MayRetry(r) == job[r].kind \in {"receive", "adjust"} /\ try[r] < MaxRetries

(* A bug: the insert alone is repeated, not the operation with its read.      *)
ClashSameInsert(r) ==
  /\ pc[r] = "ask"
  /\ Violates(r)
  /\ IF MayRetry(r)
       THEN /\ try' = [try EXCEPT ![r] = @ + 1]
            /\ UNCHANGED <<scene, pc, job, left, held, ask, insert>>
       ELSE Leave(r)
  /\ UNCHANGED dbVars

(* P2002: the transaction is gone.  A post answers with the stored sale or    *)
(* "receipt number already in use".                                         *)
Clash(r) ==
  /\ pc[r] = "ask"
  /\ Violates(r)
  /\ IF MayRetry(r)
       THEN /\ pc' = [pc EXCEPT ![r] = "begin"]
            /\ left' = [left EXCEPT ![r] = {}]
            /\ held' = [held EXCEPT ![r] = {}]
            /\ try' = [try EXCEPT ![r] = @ + 1]
            /\ Ask(r, AnyLock, FALSE)
            /\ UNCHANGED <<scene, job>>
       ELSE Leave(r)
  /\ UNCHANGED dbVars

(* Under its first locks a post finds its sale stored or the shelf short, a   *)
(* reversal a sale that is over or a shift that is not open; it reads the    *)
(* shift on a second connection.                                            *)
Refuse(r) ==
  /\ pc[r] = "pick"
  /\ \/ job[r].kind = "post" /\ left[r] \cap Rows = {} /\ held[r] \cap Claims = {}
     \/ job[r].kind = "reversal" /\ held[r] # {} /\ held[r] \subseteq SaleRows
          /\ (Spare \/ ~Stands(r))
  /\ Leave(r)
  /\ UNCHANGED dbVars

Commit(r) ==
  /\ pc[r] = "pick"
  /\ left[r] = {}
  /\ Stands(r)
  /\ rows' = rows \cup (held[r] \cap Rows)
  /\ used' = used \cup (held[r] \cap Uniques)
  /\ over' = over \cup (held[r] \cap SaleRows)
  /\ Leave(r)

(* A crash, a lost connection, an expired transaction.                       *)
Abort(r) ==
  /\ pc[r] # "idle"
  /\ Leave(r)
  /\ UNCHANGED dbVars

----------------------------------------------------------------------------
(* PostgreSQL and the pool                                                  *)

WaitsFor(r, q) == pc[r] = "ask" /\ ask[r] \in held[q]

(* Requests of S wait for each other and nobody else can free them.          *)
Circle(S) == S # {} /\ \A r \in S : \E q \in S : WaitsFor(r, q)

(* Deadlock detection ends a transaction on a circle of waits.  Its error is  *)
(* not a unique violation: nothing retries it.                              *)
Victim(r) ==
  /\ \E S \in SUBSET Requests :
       r \in S /\ Circle(S) /\ \A q \in S : \E p \in S : WaitsFor(p, q)
  /\ Leave(r)
  /\ UNCHANGED dbVars

(* A read inside the transaction waits for a connection longer than the       *)
(* transaction, or the wait, may last.                                      *)
Expire(r) ==
  /\ pc[r] = "pick"
  /\ ~Spare
  /\ Leave(r)
  /\ UNCHANGED dbVars

Step(r) == Begin(r) \/ Pick(r) \/ Grant(r) \/ Clash(r) \/ Refuse(r) \/ Commit(r)

Next == \E r \in Requests : Send(r) \/ Step(r) \/ Abort(r) \/ Victim(r) \/ Expire(r)

Spec == Init /\ [][Next]_vars

----------------------------------------------------------------------------
TypeOK ==
  /\ scene \in Scenes
  /\ rows \subseteq Rows /\ used \subseteq Uniques /\ over \subseteq SaleRows
  /\ pc \in [Requests -> {"idle", "begin", "pick", "ask"}]
  /\ job \in [Requests -> Job]
  /\ left \in [Requests -> SUBSET Locks]
  /\ held \in [Requests -> SUBSET Locks]
  /\ ask \in [Requests -> Locks]
  /\ insert \in [Requests -> BOOLEAN]
  /\ try \in [Requests -> 0 .. MaxRetries]

(* A lock has one holder, and only a transaction holds or wants locks.       *)
LockTable ==
  /\ \A r \in Requests : ~InTx(r) => held[r] = {} /\ left[r] = {}
  /\ \A r, q \in Requests : r # q => held[r] \cap held[q] = {}

(* What a transaction holds and wants is its job's; it asks for one of those. *)
OwnLocks ==
  \A r \in Requests :
    /\ held[r] \cup left[r] \subseteq job[r].keys \cup job[r].also
    /\ held[r] \cap left[r] = {}
    /\ pc[r] = "ask" => ask[r] \in left[r]
    /\ pc[r] # "idle" => job[r] \in scene[r]

(* A post takes its locks in ascending order; a reversal its sale first.      *)
InOrder ==
  \A r \in Requests :
    /\ job[r].kind = "post" => \A k \in held[r] : \A l \in left[r] : k < l
    /\ job[r].kind = "post" /\ pc[r] = "ask" => \A l \in left[r] : ask[r] <= l
    /\ job[r].kind = "reversal" /\ held[r] # {} => left[r] \cap SaleRows = {}
    /\ job[r].kind = "reversal" /\ pc[r] = "ask" =>
         ask[r] \in SaleRows \/ left[r] \cap SaleRows = {}

LocksInv == TypeOK /\ LockTable /\ OwnLocks /\ InOrder

(* A circle of waits needs a request that took its stock rows out of order: a *)
(* delivery with several lines or a reversal.  Posts and adjusts, in any      *)
(* number and over any baskets, never deadlock (lockStock's ORDER BY, and     *)
(* the same order of claims in every post).                                 *)
CirclesNeedDisorder ==
  \A S \in SUBSET Requests :
    Circle(S) => \E r \in S : /\ job[r].kind \in {"receive", "reversal"}
                              /\ \E k \in held[r] \cap Rows : k > ask[r]

(* Every attempt a delivery or an adjust loses was lost to another level of    *)
(* its lines that somebody created meanwhile, so one about less than three    *)
(* new levels never gives up (withLevelCreateRetry); a reversal, which is     *)
(* not retried, never loses one.                                             *)
LossesAreReal ==
  \A r \in Requests :
    /\ try[r] <= Cardinality(job[r].keys \cap rows)
    /\ pc[r] = "ask" /\ Violates(r) =>
         /\ job[r].kind # "reversal"
         /\ job[r].kind # "post" => try[r] < Cardinality(job[r].keys \cap rows)

----------------------------------------------------------------------------
(* A handler that can go on does.  A lock wait ends when the lock is free     *)
(* often enough (PostgreSQL queues waiters), a wait for a connection when     *)
(* one is.  A circle of waits is detected, a read without a connection        *)
(* expires.  No other abort is owed, and clients owe nothing.                *)
Fairness ==
  \A r \in Requests : SF_vars(Step(r)) /\ WF_vars(Victim(r)) /\ WF_vars(Expire(r))

FairSpec == Spec /\ Fairness

(* Every request that has been sent is answered, whatever circles and        *)
(* shortages of connections it meets.                                        *)
RequestsAnswered == \A r \in Requests : pc[r] # "idle" ~> pc[r] = "idle"
=============================================================================
