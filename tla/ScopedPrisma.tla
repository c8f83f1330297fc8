---------------------------- MODULE ScopedPrisma ----------------------------
(***************************************************************************)
(* The tenancy choke point (prisma/scoped-prisma.ts, model-scope-map.ts)   *)
(* and the request context it works from.  Every business module reads and *)
(* writes tenant tables through it: it narrows each read and each targeted *)
(* write to the caller's owner, polices creates, turns deletes into soft   *)
(* deletes and writes one audit row on the transaction of the mutation.    *)
(*                                                                         *)
(* A row keeps what the rules look at: `up' is its scope column (the owner *)
(* of a business, the business of a product, the branch of a terminal) or, *)
(* for a child-only row, its parent; `ref' the one other foreign key.      *)
(***************************************************************************)
EXTENDS Naturals, FiniteSets

CONSTANTS
  Ids,        \* the uuids rows may have
  ModelOf,    \* the table each uuid belongs to
  Owners,     \* business owners (tenants)
  Skus,       \* SKU values; for a branch, its code
  NoId,       \* SQL NULL in an id column
  NoSku,      \* SQL NULL in a sku column
  Reqs,       \* requests in the server
  InitRows    \* the rows at the start

BusinessScoped == {"branch", "category", "product", "modifierGroup", "discount"}
BranchScoped == {"terminal"}
ChildParent == [productVariant |-> "product", productModifierGroup |-> "product",
                modifier |-> "modifierGroup"]
ChildOnly == DOMAIN ChildParent
Models == {"business"} \cup BusinessScoped \cup BranchScoped \cup ChildOnly

Row == [st : {"none", "live", "gone"}, up : Ids \cup Owners \cup {NoId},
        ref : Ids \cup {NoId}, sku : Skus \cup {NoSku},
        tag : {"plain", "demo", "inactive"}]

Of(m) == {x \in Ids : ModelOf[x] = m}
Businesses == Of("business")
Branches == Of("branch")

(* The table `up' points into, and where a row without one may hang.         *)
UpRange(x) ==
  IF ModelOf[x] = "business" THEN Owners
  ELSE IF ModelOf[x] \in BusinessScoped THEN Businesses
  ELSE IF ModelOf[x] \in BranchScoped THEN Branches
  ELSE Of(ChildParent[ModelOf[x]])

(* The business a row belongs to, through branch or parent.                  *)
BusinessIn(table, x) ==
  IF ModelOf[x] = "business" THEN x
  ELSE IF ModelOf[x] \in BusinessScoped THEN table[x].up
  ELSE table[table[x].up].up

ASSUME IdsAssumption ==
  /\ ModelOf \in [Ids -> Models] /\ IsFiniteSet(Ids)
  /\ NoId \notin Ids \cup Owners /\ NoSku \notin Skus /\ Ids \cap Owners = {}
ASSUME InitRowsAssumption ==
  /\ InitRows \in [Ids -> Row]
  /\ \A x \in Ids : InitRows[x].st # "none" =>
       /\ InitRows[x].up \in UpRange(x)
       /\ ModelOf[x] # "business" => InitRows[InitRows[x].up].st # "none"
       /\ InitRows[x].ref # NoId =>
            /\ InitRows[InitRows[x].ref].st # "none"
            /\ BusinessIn(InitRows, InitRows[x].ref) = BusinessIn(InitRows, x)

(* Who a request runs as, stamped by the guards: an owner has no business and *)
(* no branch in the context, a terminal has both.                            *)
Context == [type : {"owner", "terminal", "platform_admin"}, owner : Owners \cup {NoId},
            biz : Ids \cup {NoId}, branch : Ids \cup {NoId}]

AuditRow == [by : {"owner", "terminal", "platform_admin"}, owner : Owners \cup {NoId},
             biz : Ids \cup {NoId}, entity : Ids \cup Owners,
             op : {"create", "update", "delete"}]

VARIABLES
  rows,       \* the committed rows of the tenant tables
  audit,      \* the committed audit_logs rows; equal rows are kept once
  ctx,        \* the context of each request
  known,      \* which scope sets a request has memoized
  bizCache,   \* its memoized set of allowed businesses
  brCache     \* its memoized set of allowed branches

cacheVars == <<known, bizCache, brCache>>

Live(x) == rows[x].st = "live"

BusinessOf(x) == BusinessIn(rows, x)
OwnerOf(x) == rows[BusinessOf(x)].up

(* The live businesses of an owner, read once per request and then taken      *)
(* from the context's scope cache for as long as the request lasts.          *)
LiveBusinessesOfAll(o) == {b \in Businesses : Live(b)} \* mutant: no owner filter
LiveBusinesses(o) == {b \in Businesses : Live(b) /\ rows[b].up = o}
AllowedBusinessIds(q) ==
  IF "biz" \in known[q] THEN bizCache[q] ELSE LiveBusinesses(ctx[q].owner)

AllowedBranchIds(q) ==
  IF "br" \in known[q] THEN brCache[q]
  ELSE {r \in Branches : Live(r) /\ rows[r].up \in AllowedBusinessIds(q)}

(* What an operation on model m leaves memoized.                             *)
Sets(q, m) ==
  IF m = "business" THEN {}
  ELSE IF m \in BusinessScoped THEN {"biz"}
  ELSE IF ctx[q].type = "terminal" THEN {} ELSE {"biz", "br"}

Remember(q, m) ==
  /\ known' = [known EXCEPT ![q] = @ \cup Sets(q, m)]
  /\ bizCache' = IF "biz" \in Sets(q, m)
                   THEN [bizCache EXCEPT ![q] = AllowedBusinessIds(q)] ELSE bizCache
  /\ brCache' = IF "br" \in Sets(q, m)
                  THEN [brCache EXCEPT ![q] = AllowedBranchIds(q)] ELSE brCache

(* The scope filter of a read or of a targeted write: row x is the caller's.  *)
TenantWhere(q, x) ==
  IF ModelOf[x] = "business" THEN rows[x].up = ctx[q].owner
  ELSE IF ModelOf[x] \in BusinessScoped THEN rows[x].up \in AllowedBusinessIds(q)
  ELSE IF ctx[q].type = "terminal" THEN rows[x].up = ctx[q].branch
  ELSE rows[x].up \in AllowedBranchIds(q)

(* Reads exclude soft-deleted rows; an update's before-read does not, a       *)
(* delete's does.                                                            *)
Found(q, x) == Live(x) /\ TenantWhere(q, x)
UpdateTarget(q, x) == rows[x].st # "none" /\ TenantWhere(q, x)
DeleteTarget(q, x) == Found(q, x)

(* policeCreateData: the scope column is the caller's, and so is every other  *)
(* tenant row the new one names; a row that does not exist is refused.       *)
PoliceCreate(q, m, up, ref) ==
  /\ m \in BusinessScoped => up \in AllowedBusinessIds(q)
  /\ m \in BranchScoped => up \in AllowedBranchIds(q)
  /\ ref # NoId => rows[ref].st # "none" /\ BusinessOf(ref) \in AllowedBusinessIds(q)

(* stampScope: the business an audit row names.  A child-only row carries     *)
(* neither a business nor a branch, so only the context can supply one.      *)
StampBusinessContext(q, x, row) == ctx[q].biz \* mutant: the context's business only
StampBusiness(q, x, row) ==
  IF ModelOf[x] = "business" THEN x
  ELSE IF ModelOf[x] \in BusinessScoped THEN row.up
  ELSE IF ctx[q].biz # NoId THEN ctx[q].biz
  ELSE IF ModelOf[x] \in BranchScoped THEN rows[row.up].up
  ELSE NoId

AuditOf(q, x, row, op) ==
  [by |-> ctx[q].type, owner |-> ctx[q].owner, biz |-> StampBusiness(q, x, row),
   entity |-> x, op |-> op]

(* One mutation on its transaction: `after' gives the new rows it writes,     *)
(* `log' the operation to audit for those of them that get an audit row.     *)
Mutate(q, after, log) ==
  /\ rows' = [x \in Ids |-> IF x \in DOMAIN after THEN after[x] ELSE rows[x]]
  /\ audit' = audit \cup {AuditOf(q, x, after[x], log[x]) : x \in DOMAIN log}

(* The audit_logs rows a tenant reads (the filter of tenantWhereFor), and of   *)
(* those the ones the activity log of business b shows: its own and the       *)
(* owner's account-level ones (ActivityLogService.list).                     *)
TenantAudit(o) ==
  {e \in audit : /\ e.by # "platform_admin"
                 /\ e.biz \in LiveBusinesses(o) \/ (e.biz = NoId /\ e.owner = o)}
ActivityLog(o, b) == {e \in TenantAudit(o) : e.biz \in {b, NoId}}
=============================================================================
