---------------------------- MODULE PortalCatalog ----------------------------
(***************************************************************************)
(* The portal services over the choke point: businesses, branches,         *)
(* categories, discounts, products with variants, modifier groups and      *)
(* product links, terminals; the admin's cap on businesses; and the POS    *)
(* catalogue pull.  A request is a sequence of committed reads and at most *)
(* one write; other requests run between any two of its steps.             *)
(***************************************************************************)
EXTENDS ScopedPrisma

CONSTANTS
  Offers,     \* sets of calls; the clients of one behaviour make those of one set
  NoJob,
  NoReq,
  LinkOf,     \* the uuid of the join row of a product and a group
  Sold,       \* products with sales history
  InitMax     \* maxBusinesses of each owner at the start

Products == Of("product")
ModifierGroups == Of("modifierGroup")
JoinRows == Of("productModifierGroup")

(* A variant of a product's submission: `fresh' when the DTO carries no id.   *)
Kid == [id : Ids, sku : Skus \cup {NoSku}, fresh : BOOLEAN]

(* `patch' names the fields an update carries.                               *)
Job == [kind : {"create", "update", "remove", "links", "pull", "setMax"}, by : Context,
        id : Ids \cup Owners, up : Ids \cup Owners \cup {NoId}, ref : Ids \cup {NoId},
        sku : Skus \cup {NoSku}, patch : SUBSET {"ref", "sku", "kids"},
        kids : SUBSET Kid, groups : SUBSET Ids, max : Nat]

Jobs == UNION Offers

ASSUME JobsAssumption ==
  /\ Jobs \subseteq Job /\ NoJob \notin Job /\ NoReq \notin Reqs
  /\ LinkOf \in [Products \X ModifierGroups -> JoinRows]
  /\ \A a, b \in Products \X ModifierGroups : LinkOf[a] = LinkOf[b] => a[2] = b[2]
  /\ Sold \subseteq Products /\ InitMax \in [Owners -> Nat]

(* What the guards stamp: an owner calls the portal's services, the admin      *)
(* changes caps, a terminal, with its branch, pulls the catalogue.           *)
ASSUME CallersAssumption ==
  \A j \in Jobs :
    /\ j.kind = "setMax" => j.by.type = "platform_admin" /\ j.id \in Owners
    /\ j.kind = "pull" => j.by.type = "terminal"
    /\ j.kind \notin {"setMax", "pull"} => j.by.type = "owner"
    /\ j.kind # "setMax" => j.by.owner \in Owners /\ j.id \in Ids
    /\ j.by.type = "owner" => j.by.biz = NoId
    /\ j.by.type = "terminal" =>
         /\ j.by.branch \in Branches /\ InitRows[j.by.branch].st # "none"
         /\ j.by.biz = InitRows[j.by.branch].up /\ j.by.owner = InitRows[j.by.biz].up

(* What the DTOs can say: a row is created under a row of the table its scope *)
(* column points into, children only with their parent; products alone have  *)
(* a category and linked groups.                                             *)
ASSUME SubmissionsAssumption ==
  \A j \in Jobs :
    /\ j.kind = "create" =>
         /\ ModelOf[j.id] \notin ChildOnly /\ j.up \in UpRange(j.id)
         /\ j.id \notin Products => j.ref = NoId
    /\ j.kind = "links" => j.id \in Products
    /\ j.patch # {} => j.kind = "update"
    /\ "ref" \in j.patch => j.id \in Products
    /\ j.kids # {} => j.kind = "create" \/ "kids" \in j.patch
    /\ \A k \in j.kids : k.fresh =>
         ModelOf[k.id] \in {"productVariant", "modifier"} /\ ChildParent[ModelOf[k.id]] = ModelOf[j.id]

VARIABLES
  pc, job,
  seen,       \* child rows a request has read live
  buried,     \* join rows it has read soft-deleted
  payload,    \* what a pull answers: the groups its products name, the groups
  max,        \* owners.max_businesses
  ownerLock,  \* who holds the owner row FOR UPDATE
  offered     \* the calls of this behaviour

reqVars == <<pc, job, ctx, seen, buried, payload>>
ownerVars == <<max, ownerLock>>
vars == <<rows, audit, reqVars, cacheVars, ownerVars, offered>>

NoPayload == [named |-> {}, groups |-> {}]
NoContext == [type |-> "owner", owner |-> NoId, biz |-> NoId, branch |-> NoId]

Init ==
  /\ rows = InitRows /\ audit = {}
  /\ pc = [q \in Reqs |-> "idle"] /\ job = [q \in Reqs |-> NoJob]
  /\ ctx = [q \in Reqs |-> NoContext]
  /\ seen = [q \in Reqs |-> {}] /\ buried = [q \in Reqs |-> {}]
  /\ payload = [q \in Reqs |-> NoPayload]
  /\ known = [q \in Reqs |-> {}]
  /\ bizCache = [q \in Reqs |-> {}] /\ brCache = [q \in Reqs |-> {}]
  /\ max = InitMax /\ ownerLock = [o \in Owners |-> NoReq]
  /\ offered \in Offers

(* The model a request is about, and its steps.                              *)
Model(q) == ModelOf[job[q].id]
Children(p, m) == {x \in Of(m) : rows[x].up = p /\ rows[x].st # "none"}
LiveChildren(p, m) == {x \in Children(p, m) : Live(x)}

At(q, p) == pc[q] = p
Go(q, p) == pc' = [pc EXCEPT ![q] = p] /\ UNCHANGED <<job, ctx, seen, buried, payload, offered>>

(* The answer: the request and its context are gone.                         *)
Forget(q) ==
  /\ pc' = [pc EXCEPT ![q] = "idle"] /\ job' = [job EXCEPT ![q] = NoJob]
  /\ ctx' = [ctx EXCEPT ![q] = NoContext]
  /\ seen' = [seen EXCEPT ![q] = {}] /\ buried' = [buried EXCEPT ![q] = {}]
  /\ known' = [known EXCEPT ![q] = {}]
  /\ bizCache' = [bizCache EXCEPT ![q] = {}] /\ brCache' = [brCache EXCEPT ![q] = {}]
  /\ UNCHANGED offered
Unlocked(q) == ownerLock' = [o \in Owners |-> IF ownerLock[o] = q THEN NoReq ELSE ownerLock[o]]
Leave(q) == Forget(q) /\ Unlocked(q) /\ UNCHANGED <<payload, max>>
Fail(q) == Leave(q) /\ UNCHANGED <<rows, audit>>

Quiet == UNCHANGED <<rows, audit, ownerVars>>

(* A read through the choke point: its filter, and what it leaves memoized.   *)
ReadThen(q, m, ok, next) ==
  \/ ok /\ Go(q, next) /\ Remember(q, m) /\ Quiet
  \/ ~ok /\ Fail(q)

----------------------------------------------------------------------------
First(j) ==
  CASE j.kind = "create" -> IF ModelOf[j.id] = "business" THEN "lock" ELSE "own"
    [] j.kind \in {"update", "remove", "links"} -> "load"
    [] j.kind = "pull" -> "pull"
    [] j.kind = "setMax" -> "max"

NewIds(j) == (IF j.kind = "create" THEN {j.id} ELSE {}) \cup {k.id : k \in {k \in j.kids : k.fresh}}

(* A request arrives; the guard stamps its context.  The uuid of a new row is *)
(* new, and no other request has it.                                         *)
Begin(q, j) ==
  /\ At(q, "idle")
  /\ \A p \in Reqs : job[p] # j /\ (job[p] # NoJob => NewIds(job[p]) \cap NewIds(j) = {})
  /\ \A x \in NewIds(j) : rows[x].st = "none"
  /\ pc' = [pc EXCEPT ![q] = First(j)] /\ job' = [job EXCEPT ![q] = j]
  /\ ctx' = [ctx EXCEPT ![q] = j.by]
  /\ payload' = [payload EXCEPT ![q] = NoPayload]
  /\ UNCHANGED <<seen, buried, cacheVars, offered>> /\ Quiet

(* The request fails where it stands: a database error, a lost connection or  *)
(* a crash.  Its transaction, if one is open, rolls back.                    *)
Abort(q) == ~At(q, "idle") /\ Fail(q)

(* assertBusinessOwned: the first read of every create.                      *)
Own(q) ==
  /\ At(q, "own")
  /\ ReadThen(q, "business", Found(q, job[q].up),
              IF Model(q) = "product" THEN "category" ELSE "police")

(* loadOwned, get: the row is there, live and the caller's.  With a product   *)
(* or a group come its live children.                                        *)
ChildModel(q) == IF Model(q) = "modifierGroup" THEN "modifier" ELSE "productVariant"

AfterLoad(q) ==
  CASE job[q].kind = "links" -> "groups"
    [] job[q].kind = "remove" -> IF job[q].id \in Sold THEN "before" ELSE "delete"
    [] job[q].kind = "update" ->
         IF Model(q) # "product" THEN "before"
         ELSE IF "ref" \in job[q].patch THEN "category" ELSE "unique"

(* A replace-set may name only children the product or group has now.        *)
KnownKids(q, kids) == \A k \in job[q].kids : k.fresh \/ k.id \in kids

Load(q) ==
  LET kids == LiveChildren(job[q].id, ChildModel(q))
      ok == /\ Found(q, job[q].id)
            /\ "kids" \in job[q].patch => KnownKids(q, kids)
  IN /\ At(q, "load")
     /\ \/ /\ ok /\ Remember(q, Model(q)) /\ Quiet
           /\ pc' = [pc EXCEPT ![q] = AfterLoad(q)]
           /\ seen' = [seen EXCEPT ![q] = kids]
           /\ UNCHANGED <<job, ctx, buried, payload, offered>>
        \/ ~ok /\ Fail(q)

(* The business a submission is for.                                         *)
Home(q) == IF job[q].kind = "create" THEN job[q].up ELSE rows[job[q].id].up

(* assertCategoryInBusiness.                                                 *)
CategoryOwned(q) == \* mutant: any category of the owner
  /\ At(q, "category")
  /\ ReadThen(q, "category", job[q].ref \in Of("category") /\ Found(q, job[q].ref), "unique")
Category(q) ==
  /\ At(q, "category")
  /\ ReadThen(q, "category",
              /\ job[q].ref \in Of("category") /\ Found(q, job[q].ref)
              /\ rows[job[q].ref].up = Home(q),
              "unique")

(* assertUniqueIdentifiers: the identifiers the submission ends up with        *)
(* repeat none of each other and none of another live product or variant.    *)
OwnSku(q) == IF job[q].kind = "create" \/ "sku" \in job[q].patch
             THEN job[q].sku ELSE rows[job[q].id].sku
FinalKids(q) ==
  IF job[q].kind = "create" \/ "kids" \in job[q].patch THEN job[q].kids
  ELSE {[id |-> x, sku |-> rows[x].sku, fresh |-> FALSE] : x \in seen[q]}

Repeats(own, kids) ==
  \E k \in kids : k.sku # NoSku /\ (k.sku = own \/ \E l \in kids \ {k} : l.sku = k.sku)
Submitted(own, kids) == ({own} \cup {k.sku : k \in kids}) \ {NoSku}
TakenSkus(q) ==
  LET others == {p \in Products \ {job[q].id} : Found(q, p) /\ rows[p].up = Home(q)}
  IN UNION {{rows[p].sku} \cup {rows[v].sku : v \in LiveChildren(p, "productVariant")} : p \in others}

UniqueSkus(q) ==
  /\ ~Repeats(OwnSku(q), FinalKids(q))
  /\ Submitted(OwnSku(q), FinalKids(q)) \cap TakenSkus(q) = {}

Unique(q) ==
  /\ At(q, "unique")
  /\ ReadThen(q, "product", UniqueSkus(q), IF job[q].kind = "create" THEN "police" ELSE "before")

(* The before-read of an update: in scope, but soft-deleted rows pass.        *)
Before(q) ==
  /\ At(q, "before") /\ ReadThen(q, Model(q), UpdateTarget(q, job[q].id), "update")

(* setProductGroups: the groups asked for are live groups of the product's    *)
(* own business; then the join rows as they are, soft-deleted ones too.      *)
Groups(q) ==
  /\ At(q, "groups")
  /\ ReadThen(q, "modifierGroup",
              \A g \in job[q].groups : g \in ModifierGroups /\ Found(q, g) /\ rows[g].up = Home(q),
              "joins")

ReadJoins(q) ==
  LET joins == Children(job[q].id, "productModifierGroup")
  IN /\ At(q, "joins")
     /\ seen' = [seen EXCEPT ![q] = {x \in joins : Live(x)}]
     /\ buried' = [buried EXCEPT ![q] = {x \in joins : ~Live(x)}]
     /\ pc' = [pc EXCEPT ![q] = "before"]
     /\ UNCHANGED <<job, ctx, payload, cacheVars, offered>> /\ Quiet

----------------------------------------------------------------------------
(* Writes.  Each is one transaction: the rows and their audit rows, or, when  *)
(* a unique index objects, neither.                                          *)
Restate(x, st) == [rows[x] EXCEPT !.st = st]
NewRow(up, ref, sku) == [st |-> "live", up |-> up, ref |-> ref, sku |-> sku, tag |-> "plain"]

(* Unique indexes: a branch code within its business, a SKU among the live    *)
(* products of a business, a SKU among all variants of a product.            *)
Clashes(after) ==
  LET now(x) == IF x \in DOMAIN after THEN after[x] ELSE rows[x]
      rival(x, y) ==
        /\ y # x /\ ModelOf[y] = ModelOf[x] /\ now(y).up = now(x).up
        /\ now(y).sku = now(x).sku /\ now(x).sku # NoSku
  IN \E x \in DOMAIN after, y \in Ids :
       /\ rival(x, y)
       /\ \/ ModelOf[x] \in {"branch", "productVariant"} /\ now(y).st # "none"
          \/ ModelOf[x] = "product" /\ now(x).st = "live" /\ now(y).st = "live"

Commit(q, after, log) ==
  \/ ~Clashes(after) /\ Mutate(q, after, log) /\ Leave(q)
  \/ Clashes(after) /\ Fail(q)

KidRows(q, p) ==
  [x \in {k.id : k \in {k \in job[q].kids : k.fresh}} |->
     LET k == CHOOSE k \in job[q].kids : k.id = x IN NewRow(p, NoId, k.sku)]

(* policeCreateData, then the insert.                                        *)
Police(q) ==
  /\ At(q, "police")
  /\ ReadThen(q, Model(q), PoliceCreate(q, Model(q), job[q].up, job[q].ref), "insert")

(* Nested creates are covered by the audit row of the parent.                *)
Insert(q) ==
  LET x == job[q].id
      kids == KidRows(q, x)
  IN /\ At(q, "insert")
     /\ Commit(q, [y \in {x} \cup DOMAIN kids |->
                     IF y = x THEN NewRow(job[q].up, job[q].ref, job[q].sku) ELSE kids[y]],
               [y \in {x} |-> "create"])

(* What an update does to children: variants and modifiers are updated in     *)
(* place, soft-deleted or created; joins restored, soft-deleted or created.  *)
(* Updates and soft deletes of children are audited, the rest is not.        *)
Patched(q) == [rows[job[q].id] EXCEPT
  !.ref = IF "ref" \in job[q].patch THEN job[q].ref ELSE @,
  !.sku = IF "sku" \in job[q].patch THEN job[q].sku ELSE @,
  !.tag = IF job[q].kind = "remove" THEN "inactive" ELSE @]

KidUpdates(q) ==
  [x \in {k.id : k \in {k \in job[q].kids : ~k.fresh}} |->
     [rows[x] EXCEPT !.sku = (CHOOSE k \in job[q].kids : k.id = x).sku]]
KidDrops(q) == IF "kids" \in job[q].patch THEN seen[q] \ {k.id : k \in job[q].kids} ELSE {}

WantedJoins(q) == {LinkOf[job[q].id, g] : g \in job[q].groups}
GroupOfJoin(x) == CHOOSE g \in ModifierGroups : \E p \in Products : LinkOf[p, g] = x
JoinAdds(q) == WantedJoins(q) \ (seen[q] \cup buried[q])
JoinBacksNone(q) == {} \* mutant: a link once removed is not restored
JoinBacks(q) == WantedJoins(q) \cap buried[q]
JoinDrops(q) == seen[q] \ WantedJoins(q)

(* Nested deletes become soft deletes of live rows.                           *)
rewriteNestedWrites(drops) == [y \in drops |-> Restate(y, "gone")]
auditNested(updated, drops) ==
  [y \in updated \cup drops |-> IF y \in drops THEN "delete" ELSE "update"]

Update(q) ==
  LET x == job[q].id
      ups == KidUpdates(q)
      drops == KidDrops(q)
      adds == KidRows(q, x)
  IN /\ At(q, "update") /\ job[q].kind # "links"
     /\ Commit(q, [y \in {x} \cup DOMAIN ups \cup drops \cup DOMAIN adds |->
                     IF y = x THEN Patched(q)
                     ELSE IF y \in DOMAIN ups THEN ups[y]
                     ELSE IF y \in drops THEN rewriteNestedWrites(drops)[y] ELSE adds[y]],
               auditNested({x} \cup DOMAIN ups, drops))

(* Two requests may both create the join row of one pair: the second insert   *)
(* violates the unique index and the request fails.                          *)
UpdateJoins(q) ==
  LET x == job[q].id
      adds == JoinAdds(q)
      touched == adds \cup JoinBacks(q) \cup JoinDrops(q)
  IN /\ At(q, "update") /\ job[q].kind = "links"
     /\ \/ touched = {} /\ Fail(q)
        \/ /\ touched # {} /\ \A y \in adds : rows[y].st = "none"
           /\ Mutate(q, [y \in {x} \cup touched |->
                           IF y = x THEN rows[x]
                           ELSE IF y \in adds THEN NewRow(x, GroupOfJoin(y), NoSku)
                           ELSE Restate(y, IF y \in JoinBacks(q) THEN "live" ELSE "gone")],
                     auditNested({x}, JoinDrops(q)))
           /\ Leave(q)
        \/ /\ \E y \in adds : rows[y].st # "none"
           /\ Fail(q)

(* delete: the before-read wants a live row, the soft delete goes by id.      *)
ReadDelete(q) ==
  /\ At(q, "delete") /\ ReadThen(q, Model(q), DeleteTarget(q, job[q].id), "bury")
Bury(q) ==
  /\ At(q, "bury")
  /\ Commit(q, [y \in {job[q].id} |-> Restate(y, "gone")], [y \in {job[q].id} |-> "delete"])

----------------------------------------------------------------------------
(* BusinessesService.create: the owner row is locked FOR UPDATE, the live      *)
(* businesses that are not demos are counted, and the insert rides the same  *)
(* transaction.                                                              *)
Counted(o) == {b \in LiveBusinesses(o) : rows[b].tag # "demo"}

LockOwnerPlain(q) == \* mutant: a plain read of the owner row
  /\ At(q, "lock") /\ Go(q, "count") /\ UNCHANGED <<rows, audit, cacheVars, ownerVars>>
LockOwner(q) ==
  /\ At(q, "lock") /\ ownerLock[ctx[q].owner] = NoReq
  /\ ownerLock' = [ownerLock EXCEPT ![ctx[q].owner] = q]
  /\ Go(q, "count") /\ UNCHANGED <<rows, audit, max, cacheVars>>

UnderCap(q) == Cardinality(Counted(ctx[q].owner)) < max[ctx[q].owner]
CountBusinesses(q) ==
  /\ At(q, "count")
  /\ \/ UnderCap(q) /\ Go(q, "found") /\ UNCHANGED cacheVars /\ Quiet
     \/ ~UnderCap(q) /\ Fail(q)

(* The owner of the new business is the caller, whatever the data says.       *)
InsertBusiness(q) ==
  /\ At(q, "found")
  /\ Commit(q, [y \in {job[q].id} |-> NewRow(ctx[q].owner, NoId, NoSku)],
            [y \in {job[q].id} |-> "create"])

(* OwnersService.update: the write waits for the owner row; the audit row is   *)
(* a statement of its own afterwards.                                        *)
SetMax(q) ==
  /\ At(q, "max") /\ ownerLock[job[q].id] = NoReq
  /\ max' = [max EXCEPT ![job[q].id] = job[q].max]
  /\ Go(q, "maxLog") /\ UNCHANGED <<rows, audit, ownerLock, cacheVars>>
LogMax(q) ==
  /\ At(q, "maxLog") /\ Leave(q) /\ UNCHANGED rows
  /\ audit' = audit \cup {[by |-> "platform_admin", owner |-> NoId, biz |-> NoId,
                           entity |-> job[q].id, op |-> "update"]}

----------------------------------------------------------------------------
(* PosCatalogService.pull: separate reads; the join rows come with the         *)
(* products, the groups after them.                                          *)
Pull(q) ==
  /\ At(q, "pull")
  /\ ReadThen(q, "branch", Found(q, ctx[q].biz) /\ Found(q, ctx[q].branch) /\ Found(q, job[q].id),
              "products")

PullProducts(q) ==
  LET sold == {p \in Products : Found(q, p) /\ rows[p].up = ctx[q].biz /\ rows[p].tag = "plain"}
  IN /\ At(q, "products") /\ Remember(q, "product")
     /\ seen' = [seen EXCEPT ![q] = UNION {LiveChildren(p, "productModifierGroup") : p \in sold}]
     /\ pc' = [pc EXCEPT ![q] = "pullGroups"]
     /\ UNCHANGED <<job, ctx, buried, payload, offered>> /\ Quiet

Named(q, groups) == {rows[x].ref : x \in seen[q]} \cap groups
PullGroups(q) ==
  LET groups == {g \in ModifierGroups : Found(q, g) /\ rows[g].up = ctx[q].biz}
  IN /\ At(q, "pullGroups") /\ Forget(q) /\ Quiet
     /\ payload' = [payload EXCEPT ![q] = [named |-> Named(q, groups), groups |-> groups]]

----------------------------------------------------------------------------
Step(q) ==
  \/ \E j \in offered : Begin(q, j)
  \/ Abort(q) \/ Own(q) \/ Load(q) \/ Category(q) \/ Unique(q) \/ Police(q) \/ Insert(q)
  \/ Before(q) \/ Update(q) \/ Groups(q) \/ ReadJoins(q) \/ UpdateJoins(q)
  \/ ReadDelete(q) \/ Bury(q)
  \/ LockOwner(q) \/ CountBusinesses(q) \/ InsertBusiness(q) \/ SetMax(q) \/ LogMax(q)
  \/ Pull(q) \/ PullProducts(q) \/ PullGroups(q)

Next == \E q \in Reqs : Step(q)
Spec == Init /\ [][Next]_vars

----------------------------------------------------------------------------
(* Properties                                                               *)

Pcs == {"idle", "own", "load", "category", "unique", "police", "insert", "before", "update",
        "groups", "joins", "delete", "bury", "lock", "count", "found", "max", "maxLog",
        "pull", "products", "pullGroups"}

TypeOK ==
  /\ rows \in [Ids -> Row] /\ audit \subseteq AuditRow
  /\ pc \in [Reqs -> Pcs] /\ job \in [Reqs -> Jobs \cup {NoJob}] /\ ctx \in [Reqs -> Context]
  /\ seen \in [Reqs -> SUBSET Ids] /\ buried \in [Reqs -> SUBSET Ids]
  /\ payload \in [Reqs -> [named : SUBSET Ids, groups : SUBSET Ids]]
  /\ known \in [Reqs -> SUBSET {"biz", "br"}]
  /\ bizCache \in [Reqs -> SUBSET Businesses] /\ brCache \in [Reqs -> SUBSET Branches]
  /\ max \in [Owners -> Nat] /\ ownerLock \in [Owners -> Reqs \cup {NoReq}]
  /\ offered \in Offers

(* Tenant isolation: a request changes rows of its own owner only, and the     *)
(* admin's requests change no tenant row (createScopedPrisma).               *)
OwnRowsOnly ==
  [][rows' # rows =>
       \A q \in Reqs : pc'[q] # pc[q] =>
         /\ ctx[q].type # "platform_admin"
         /\ \A x \in Ids : rows'[x] # rows[x] => OwnerOf(x)' = ctx[q].owner]_vars

(* A product's category and a join row's group are of the same business as     *)
(* the row that names them (assertCategoryInBusiness, setProductGroups).     *)
RefsSameBusiness ==
  \A x \in Ids : rows[x].st # "none" /\ rows[x].ref # NoId =>
    rows[rows[x].ref].st # "none" /\ BusinessOf(rows[x].ref) = BusinessOf(x)

(* The cap: a business is inserted only where the owner still has room for it *)
(* (BusinessesService.create).                                              *)
BusinessCap ==
  [][\A x \in Businesses :
       rows[x].st = "none" /\ rows'[x].st = "live"
         => Cardinality(Counted(rows'[x].up)) < max[rows'[x].up]]_vars

(* Every change of a row is in the audit log, itself or through its parent;     *)
(* one of a row with a scope column names the business it is about, so that  *)
(* the activity log of that business shows it (writeAudit, stampScope).      *)
Change(x) ==
  IF rows[x].st = "none" THEN "create"
  ELSE IF rows[x].st = "live" /\ rows'[x].st = "gone" THEN "delete" ELSE "update"
EveryChangeLogged ==
  [][rows' # rows => \A x \in Ids : rows'[x] # rows[x] =>
       \E e \in audit' :
         /\ e.owner = OwnerOf(x)'
         /\ IF ModelOf[x] \in ChildOnly
              THEN <<e.entity, e.op>> \in {<<x, Change(x)>>, <<rows'[x].up, "create">>, <<rows'[x].up, "update">>}
              ELSE e.entity = x /\ e.op = Change(x) /\ e.biz = BusinessOf(x)']_vars

(* A replace-set is exact: when the variants of a product, the modifiers of a   *)
(* group or the groups linked to a product are replaced, the live children    *)
(* are afterwards those of the submission and no others (buildVariantReplace- *)
(* Set, buildLinkReplaceSet), with one exception that the code takes in: two  *)
(* editors of one row, the second of whom writes by what it read before the  *)
(* first one's commit.                                                       *)
Replaces(q) == At(q, "update") /\ (job[q].kind = "links" \/ "kids" \in job[q].patch)
ReplacedModel(q) == IF job[q].kind = "links" THEN "productModifierGroup" ELSE ChildModel(q)
Submission(q) == IF job[q].kind = "links" THEN WantedJoins(q) ELSE {k.id : k \in job[q].kids}
StaleChildren(q) == LiveChildren(job[q].id, ReplacedModel(q)) # seen[q]
ReplaceSetsExact ==
  [][\A q \in Reqs : rows' # rows /\ pc'[q] # pc[q] /\ Replaces(q) =>
       \/ StaleChildren(q)
       \/ \A x \in Of(ReplacedModel(q)) :
            (rows'[x].up = job[q].id /\ rows'[x].st = "live") <=> x \in Submission(q)]_vars

(* SKUs are unique across the live products and live variants of a business   *)
(* (assertUniqueIdentifiers).                                               *)
SkuRows(b) == {x \in Products \cup Of("productVariant") :
                 /\ Live(x) /\ rows[x].sku # NoSku /\ BusinessOf(x) = b
                 /\ ModelOf[x] = "productVariant" => Live(rows[x].up)}
SkuUnique ==
  \A b \in Businesses : \A x, y \in SkuRows(b) : x # y => rows[x].sku # rows[y].sku

(* The activity log of a business shows what happened to that business, and    *)
(* account-level events, of no tenant row at all (ActivityLogService.list).  *)
ActivityLogOwn ==
  \A o \in Owners : \A b \in LiveBusinesses(o) :
    \A e \in ActivityLog(o, b) : e.entity \in Ids => BusinessOf(e.entity) = b
=============================================================================
