------------------------- MODULE PortalCatalogProofs -------------------------
(***************************************************************************)
(* What holds of the portal for any tables, tenants, requests and calls:   *)
(* tenant isolation, references within one business, the admin's cap and   *)
(* the audit row of every change.                                          *)
(*                                                                         *)
(* The argument: a row once written never disappears and never changes its *)
(* scope column, so what a request found out about the owner of a row in   *)
(* one step is still so when it writes in a later one.                     *)
(***************************************************************************)
EXTENDS PortalCatalog, FiniteSetTheorems, TLAPS

Exists(x) == rows[x].st # "none"
Busy(q) == job[q] # NoJob
Mine(q, x) == x \in Ids /\ Exists(x) /\ OwnerOf(x) = ctx[q].owner
Changes(q) == job[q].kind \in {"update", "remove", "links"}

----------------------------------------------------------------------------
(* The inductive invariant.                                                 *)

(* A row that exists hangs under a row that exists, of the right table.       *)
RowsRight ==
  \A x \in Ids : Exists(x) =>
    rows[x].up \in UpRange(x) /\ (ModelOf[x] # "business" => Exists(rows[x].up))

(* The steps of each kind of call.                                           *)
OnCourse(q) ==
  \/ /\ job[q] = NoJob /\ pc[q] = "idle"
     /\ seen[q] = {} /\ buried[q] = {} /\ known[q] = {}
  \/ /\ job[q] # NoJob /\ ctx[q] = job[q].by
     /\ \/ /\ job[q].kind = "create" /\ ModelOf[job[q].id] = "business"
           /\ pc[q] \in {"lock", "count", "found"}
        \/ /\ job[q].kind = "create" /\ ModelOf[job[q].id] # "business"
           /\ pc[q] \in {"own", "category", "unique", "police", "insert"}
        \/ job[q].kind = "update" /\ pc[q] \in {"load", "category", "unique", "before", "update"}
        \/ job[q].kind = "remove" /\ job[q].id \in Sold /\ pc[q] \in {"load", "before", "update"}
        \/ job[q].kind = "remove" /\ job[q].id \notin Sold /\ pc[q] \in {"load", "delete", "bury"}
        \/ job[q].kind = "links" /\ pc[q] \in {"load", "groups", "joins", "before", "update"}
        \/ job[q].kind = "pull" /\ pc[q] \in {"pull", "products", "pullGroups"}
        \/ job[q].kind = "setMax" /\ pc[q] \in {"max", "maxLog"}
     /\ pc[q] \in {"category", "unique"} => job[q].id \in Products

(* What a request has memoized is the caller's.                              *)
CachesRight(q) ==
  /\ "biz" \in known[q] => \A b \in bizCache[q] : Mine(q, b)
  /\ "br" \in known[q] => \A r \in brCache[q] : Mine(q, r)

(* The row an update, a removal or a link is about, and the children read     *)
(* with it.                                                                  *)
Loaded(q) == Busy(q) /\ Changes(q) /\ pc[q] # "load" => Mine(q, job[q].id)
SeenRight(q) ==
  Busy(q) /\ job[q].kind # "pull" =>
    \A y \in seen[q] \cup buried[q] :
      Exists(y) /\ rows[y].up = job[q].id /\ ModelOf[y] \in ChildOnly
KidsSeen(q) ==
  Busy(q) /\ "kids" \in job[q].patch /\ pc[q] # "load" => KnownKids(q, seen[q])

(* The references a request has checked.                                     *)
GroupsChecked(q) ==
  Busy(q) /\ job[q].kind = "links" /\ pc[q] \in {"joins", "before", "update"} =>
    \A g \in job[q].groups : g \in ModifierGroups /\ Exists(g) /\ rows[g].up = rows[job[q].id].up
TakesRef(q) == job[q].id \in Products /\ (job[q].kind = "create" \/ "ref" \in job[q].patch)
RefChecked(q) ==
  Busy(q) /\ TakesRef(q) /\ pc[q] \in {"unique", "police", "insert", "before", "update"} =>
    job[q].ref \in Of("category") /\ Exists(job[q].ref) /\ rows[job[q].ref].up = Home(q)
Policed(q) ==
  pc[q] = "insert" => job[q].up \in UpRange(job[q].id) /\ Mine(q, job[q].up)

(* The uuids of a submission's new rows are still free, and its own.          *)
NewFree(q) == Busy(q) => \A x \in NewIds(job[q]) : ~Exists(x)
NewApart ==
  \A p, q \in Reqs : p # q /\ Busy(p) /\ Busy(q) => NewIds(job[p]) \cap NewIds(job[q]) = {}

(* Whoever counts an owner's businesses holds the owner row until it commits. *)
Locked(q) == pc[q] \in {"count", "found"} => ownerLock[ctx[q].owner] = q
HasRoom(q) == pc[q] = "found" => UnderCap(q)

RequestRight(q) ==
  /\ OnCourse(q) /\ CachesRight(q) /\ Loaded(q) /\ SeenRight(q) /\ KidsSeen(q)
  /\ GroupsChecked(q) /\ RefChecked(q) /\ Policed(q) /\ NewFree(q)
  /\ Locked(q) /\ HasRoom(q)

IInv ==
  /\ TypeOK /\ RowsRight /\ RefsSameBusiness /\ NewApart
  /\ \A q \in Reqs : RequestRight(q)
----------------------------------------------------------------------------
(* What the calls carry.                                                     *)
LEMMA OwnerCalls ==
  ASSUME NEW j \in Jobs, j.kind \notin {"setMax", "pull"}
  PROVE  j.by.type = "owner" /\ j.by.biz = NoId /\ j.by.owner \in Owners /\ j.id \in Ids
BY CallersAssumption

LEMMA JobFields ==
  ASSUME NEW j \in Jobs
  PROVE  /\ j.kind \in {"create", "update", "remove", "links", "pull", "setMax"}
         /\ j.by \in Context /\ j.id \in Ids \cup Owners /\ j.up \in Ids \cup Owners \cup {NoId}
         /\ j.ref \in Ids \cup {NoId} /\ j.sku \in Skus \cup {NoSku}
         /\ j.patch \subseteq {"ref", "sku", "kids"} /\ j.kids \subseteq Kid
         /\ j.groups \subseteq Ids /\ j.max \in Nat /\ j # NoJob
BY JobsAssumption DEF Job

LEMMA PullCalls ==
  ASSUME NEW j \in Jobs, j.kind = "pull"
  PROVE  j.by.type = "terminal" /\ j.by.owner \in Owners
BY CallersAssumption

LEMMA CapCalls ==
  ASSUME NEW j \in Jobs, j.kind = "setMax"
  PROVE  j.by.type = "platform_admin" /\ j.id \in Owners
BY CallersAssumption

LEMMA ChildTables ==
  ASSUME NEW x, ModelOf[x] \in ChildOnly
  PROVE  /\ ModelOf[x] \notin {"business"} \cup BusinessScoped \cup BranchScoped
         /\ UpRange(x) = Of(ChildParent[ModelOf[x]])
         /\ ChildParent[ModelOf[x]] \in {"product", "modifierGroup"}
BY DEF UpRange, ChildOnly, ChildParent, BusinessScoped, BranchScoped

(* What is allowed, memoized or read now, is the caller's.                    *)
LEMMA AllowedMine ==
  ASSUME TypeOK, NEW q \in Reqs, CachesRight(q)
  PROVE  /\ \A b \in AllowedBusinessIds(q) : b \in Businesses /\ Mine(q, b)
         /\ \A r \in AllowedBranchIds(q) : r \in Branches /\ Mine(q, r)
<1>1. ASSUME NEW b \in AllowedBusinessIds(q) PROVE b \in Businesses /\ Mine(q, b)
  BY <1>1 DEF TypeOK, CachesRight, AllowedBusinessIds, LiveBusinesses, Mine, Exists, Live,
    OwnerOf, BusinessOf, BusinessIn, Businesses, Of
<1>2. ASSUME NEW r \in AllowedBranchIds(q) PROVE r \in Branches /\ Mine(q, r)
  <2>1. CASE "br" \in known[q]
    BY <1>2, <2>1 DEF TypeOK, CachesRight, AllowedBranchIds, Branches, Of
  <2>2. CASE "br" \notin known[q]
    <3>1. r \in Branches /\ Live(r) /\ rows[r].up \in AllowedBusinessIds(q)
      BY <1>2, <2>2 DEF AllowedBranchIds
    <3>2. rows[r].up \in Businesses /\ Mine(q, rows[r].up)
      BY <1>1, <3>1
    <3> QED BY <3>1, <3>2 DEF Mine, Exists, Live, OwnerOf, BusinessOf, BusinessIn, Businesses,
      Branches, Of, BusinessScoped
  <2> QED BY <2>1, <2>2
<1> QED BY <1>1, <1>2

(* The scope filter passes an owner only rows of its own.                      *)
LEMMA TenantRows ==
  ASSUME TypeOK, RowsRight, NEW q \in Reqs, CachesRight(q), ctx[q].type = "owner",
         NEW x \in Ids, Exists(x), TenantWhere(q, x)
  PROVE  Mine(q, x) /\ ModelOf[x] \notin ChildOnly
<1>1. CASE ModelOf[x] = "business"
  BY <1>1 DEF TenantWhere, Mine, OwnerOf, BusinessOf, BusinessIn, ChildOnly, ChildParent
<1>2. CASE ModelOf[x] \in BusinessScoped
  <2>1. rows[x].up \in Businesses /\ Mine(q, rows[x].up)
    BY <1>2, AllowedMine DEF TenantWhere, BusinessScoped
  <2>2. ModelOf[x] \notin ChildOnly
    BY <1>2 DEF BusinessScoped, ChildOnly, ChildParent
  <2>3. BusinessOf(x) = rows[x].up /\ BusinessOf(rows[x].up) = rows[x].up
    BY <1>2, <2>1 DEF BusinessOf, BusinessIn, Businesses, Of, BusinessScoped
  <2> QED BY <2>1, <2>2, <2>3 DEF Mine, OwnerOf
<1>3. CASE ModelOf[x] \notin {"business"} \cup BusinessScoped
  <2>1. rows[x].up \in Branches /\ Mine(q, rows[x].up)
    BY <1>3, AllowedMine DEF TenantWhere
  <2>2. ModelOf[x] \in BranchScoped
    <3>1. ModelOf[x] \in BranchScoped \cup ChildOnly
      BY <1>3, IdsAssumption DEF Models
    <3>2. ASSUME ModelOf[x] \in ChildOnly PROVE FALSE
      <4>1. rows[x].up \in UpRange(x)
        BY DEF RowsRight
      <4> QED BY <2>1, <3>2, <4>1, ChildTables DEF Branches, Of
    <3> QED BY <3>1, <3>2
  <2>3. rows[rows[x].up].up \in Businesses
    BY <2>1 DEF RowsRight, Mine, UpRange, Branches, Of, BusinessScoped
  <2> QED BY <1>3, <2>1, <2>2, <2>3
    DEF Mine, OwnerOf, BusinessOf, BusinessIn, Businesses, Branches, Of, BusinessScoped,
      BranchScoped, ChildOnly, ChildParent
<1> QED BY <1>1, <1>2, <1>3

----------------------------------------------------------------------------
(* What a write may do to a row: change it where it stands, or create it.      *)
Kept(q, x) ==
  /\ Mine(q, x) /\ rows'[x].st # "none" /\ rows'[x].up = rows[x].up
  /\ rows'[x].ref = rows[x].ref
     \/ /\ rows'[x].ref \in Ids /\ Exists(rows'[x].ref)
        /\ BusinessOf(rows'[x].ref) = BusinessOf(x)
  /\ ModelOf[x] = "business" =>
       rows'[x].tag = rows[x].tag /\ (rows'[x].st = "live" => rows[x].st = "live")

BornBusiness(q, x) ==
  /\ ModelOf[x] = "business" /\ pc[q] = "found" /\ x = job[q].id
  /\ rows'[x].up = ctx[q].owner /\ ctx[q].owner \in Owners /\ rows'[x].ref = NoId
BornScoped(q, x) ==
  /\ ModelOf[x] \in BusinessScoped \cup BranchScoped /\ x = job[q].id
  /\ rows'[x].up \in UpRange(x) /\ Mine(q, rows'[x].up)
  /\ rows'[x].ref = NoId
     \/ /\ ModelOf[x] \in BusinessScoped
        /\ rows'[x].ref \in Of("category") /\ Exists(rows'[x].ref)
        /\ rows[rows'[x].ref].up = rows'[x].up
BornChild(q, x) ==
  /\ ModelOf[x] \in ChildOnly /\ job[q].id \in UpRange(x) /\ rows'[x].up = job[q].id
  /\ Mine(q, job[q].id) \/ (~Exists(job[q].id) /\ rows'[job[q].id].st # "none")
  /\ rows'[x].ref = NoId
     \/ /\ Mine(q, job[q].id)
        /\ rows'[x].ref \in ModifierGroups /\ Exists(rows'[x].ref)
        /\ rows[rows'[x].ref].up = rows[job[q].id].up
Born(q, x) ==
  /\ ~Exists(x) /\ rows'[x].st # "none"
  /\ x \in NewIds(job[q]) \/ ModelOf[x] = "productModifierGroup"
  /\ BornBusiness(q, x) \/ BornScoped(q, x) \/ BornChild(q, x)

Writes(q) ==
  /\ rows' \in [Ids -> Row]
  /\ \A x \in Ids : rows'[x] # rows[x] => Kept(q, x) \/ Born(q, x)

(* Rows stay, under the same parent and with the same owner.                   *)
LEMMA RowsStay ==
  ASSUME RowsRight, NEW q \in Reqs, Writes(q), NEW x \in Ids, Exists(x)
  PROVE  rows'[x].st # "none" /\ rows'[x].up = rows[x].up
BY DEF Writes, Kept, Born, Exists

LEMMA OwnersStay ==
  ASSUME RowsRight, NEW q \in Reqs, Writes(q), NEW x \in Ids, Exists(x)
  PROVE  BusinessOf(x) \in Businesses /\ BusinessOf(x)' = BusinessOf(x) /\ OwnerOf(x)' = OwnerOf(x)
<1>1. /\ rows'[x].up = rows[x].up /\ rows[x].up \in UpRange(x)
      /\ ModelOf[x] # "business" => Exists(rows[x].up)
  BY RowsStay DEF RowsRight
<1>2. CASE ModelOf[x] = "business"
  BY <1>1, <1>2 DEF BusinessOf, BusinessIn, OwnerOf, Businesses, Of
<1>3. CASE ModelOf[x] \in BusinessScoped
  <2>1. rows[x].up \in Businesses /\ Exists(rows[x].up)
    BY <1>1, <1>3 DEF UpRange, BusinessScoped
  <2>2. rows'[rows[x].up].up = rows[rows[x].up].up
    BY <2>1, RowsStay DEF Businesses, Of
  <2> QED BY <1>1, <1>3, <2>1, <2>2 DEF BusinessOf, BusinessIn, OwnerOf, BusinessScoped
<1>4. CASE ModelOf[x] \notin {"business"} \cup BusinessScoped
  <2>1. rows[x].up \in Ids /\ ModelOf[rows[x].up] \in BusinessScoped /\ Exists(rows[x].up)
    BY <1>1, <1>4, IdsAssumption
    DEF UpRange, Of, Branches, Models, ChildOnly, ChildParent, BusinessScoped, BranchScoped
  <2>2. /\ rows'[rows[x].up].up = rows[rows[x].up].up
        /\ rows[rows[x].up].up \in Businesses /\ Exists(rows[rows[x].up].up)
    BY <2>1, RowsStay DEF RowsRight, UpRange, BusinessScoped
  <2>3. rows'[rows[rows[x].up].up].up = rows[rows[rows[x].up].up].up
    BY <2>2, RowsStay DEF Businesses, Of
  <2> QED BY <1>1, <1>4, <2>2, <2>3 DEF BusinessOf, BusinessIn, OwnerOf, BusinessScoped
<1> QED BY <1>2, <1>3, <1>4

HangsRight(q, x) ==
  /\ rows'[x].up \in UpRange(x)
  /\ ModelOf[x] # "business" => rows'[rows'[x].up].st # "none"
  /\ rows'[BusinessIn(rows', x)].up = ctx[q].owner
  /\ rows'[x].ref # NoId =>
       /\ rows'[rows'[x].ref].st # "none"
       /\ BusinessIn(rows', rows'[x].ref) = BusinessIn(rows', x)

(* A row a write changes is the caller's, hangs under a row that exists, and   *)
(* names a row of its own business.                                          *)
LEMMA ChangedRight ==
  ASSUME TypeOK, RowsRight, RefsSameBusiness, NEW q \in Reqs, Writes(q),
         NEW x \in Ids, rows'[x] # rows[x]
  PROVE  HangsRight(q, x)
<1>1. ASSUME NEW y \in Ids, Kept(q, y) PROVE HangsRight(q, y)
  <2>1. Exists(y) /\ OwnerOf(y) = ctx[q].owner /\ rows'[y].up = rows[y].up
    BY <1>1 DEF Kept, Mine
  <2>2. rows'[y].up \in UpRange(y) /\ OwnerOf(y)' = ctx[q].owner /\ BusinessOf(y)' = BusinessOf(y)
    BY <2>1, OwnersStay DEF RowsRight
  <2>3. ModelOf[y] # "business" => rows'[rows'[y].up].st # "none"
    <3>1. ModelOf[y] # "business" => rows[y].up \in Ids /\ Exists(rows[y].up)
      BY <2>1, IdsAssumption DEF RowsRight, UpRange, Businesses, Branches, Of
    <3> QED BY <2>1, <3>1, RowsStay
  <2>4. ASSUME NEW r \in Ids, r = rows'[y].ref
        PROVE  rows'[r].st # "none" /\ BusinessIn(rows', r) = BusinessIn(rows', y)
    <3>1. Exists(r) /\ BusinessOf(r) = BusinessOf(y)
      BY <1>1, <2>1, <2>4, IdsAssumption DEF Kept, RefsSameBusiness, Exists
    <3>2. BusinessIn(rows', r) = BusinessOf(r) /\ rows'[r].st # "none"
      BY <3>1, RowsStay, OwnersStay DEF BusinessOf
    <3> QED BY <2>2, <3>1, <3>2 DEF BusinessOf
  <2>5. rows'[y].ref # NoId => rows'[y].ref \in Ids
    BY DEF Writes, Row
  <2> QED BY <2>2, <2>3, <2>4, <2>5 DEF HangsRight, OwnerOf, BusinessOf
<1>2. ASSUME NEW y \in Ids, ~Exists(y), BornBusiness(q, y) PROVE HangsRight(q, y)
  BY <1>2 DEF BornBusiness, HangsRight, BusinessIn, UpRange
<1>3. ASSUME NEW y \in Ids, ~Exists(y), BornScoped(q, y) PROVE HangsRight(q, y)
  <2> DEFINE p == rows'[y].up
  <2>1. p \in Ids /\ p \in UpRange(y) /\ Mine(q, p) /\ Exists(p)
    BY <1>3 DEF BornScoped, Mine
  <2>2. rows'[p].st # "none" /\ BusinessIn(rows', p) = BusinessOf(p)
        /\ rows'[BusinessIn(rows', p)].up = ctx[q].owner
    BY <2>1, RowsStay, OwnersStay DEF Mine, OwnerOf, BusinessOf
  <2>3. CASE ModelOf[y] \in BusinessScoped
    <3>1. BusinessIn(rows', y) = p /\ BusinessIn(rows', p) = p
      BY <2>1, <2>3 DEF BusinessIn, BusinessScoped, UpRange, Businesses, Of
    <3>2. ASSUME NEW r \in Ids, r = rows'[y].ref
          PROVE  rows'[r].st # "none" /\ BusinessIn(rows', r) = p
      <4>1. Exists(r) /\ ModelOf[r] = "category" /\ rows[r].up = p
        BY <1>3, <3>2, IdsAssumption DEF BornScoped, Of
      <4>2. rows'[r].st # "none" /\ rows'[r].up = p
        BY <4>1, RowsStay
      <4> QED BY <4>1, <4>2 DEF BusinessIn, BusinessScoped
    <3>3. rows'[y].ref # NoId => rows'[y].ref \in Ids
      BY DEF Writes, Row
    <3> QED BY <2>1, <2>2, <3>1, <3>2, <3>3 DEF HangsRight
  <2>4. CASE ModelOf[y] \in BranchScoped
    <3>1. BusinessIn(rows', y) = rows'[p].up /\ BusinessIn(rows', p) = rows'[p].up
      BY <2>1, <2>4 DEF BusinessIn, BusinessScoped, BranchScoped, UpRange, Branches, Of
    <3>2. rows'[y].ref = NoId
      BY <1>3, <2>4 DEF BornScoped, BusinessScoped, BranchScoped
    <3> QED BY <2>1, <2>2, <3>1, <3>2 DEF HangsRight
  <2> QED BY <1>3, <2>3, <2>4 DEF BornScoped
<1>4. ASSUME NEW y \in Ids, ~Exists(y), BornChild(q, y) PROVE HangsRight(q, y)
  <2> DEFINE p == job[q].id
  <2>1. /\ p \in Ids /\ ModelOf[p] \in BusinessScoped /\ p \in UpRange(y) /\ rows'[y].up = p
        /\ ModelOf[y] \in ChildOnly
    BY <1>4 DEF BornChild, UpRange, ChildOnly, ChildParent, BusinessScoped, BranchScoped, Of
  <2>2. /\ BusinessIn(rows', y) = rows'[p].up /\ BusinessIn(rows', p) = rows'[p].up
        /\ BusinessOf(p) = rows[p].up
    BY <2>1 DEF BusinessOf, BusinessIn, BusinessScoped, ChildOnly, ChildParent
  <2>3. CASE Mine(q, p)
    <3>1. /\ rows'[p].st # "none" /\ rows'[p].up = rows[p].up
          /\ rows'[BusinessIn(rows', p)].up = ctx[q].owner
      BY <2>1, <2>3, RowsStay, OwnersStay DEF Mine, OwnerOf, BusinessOf
    <3>2. ASSUME NEW r \in Ids, r = rows'[y].ref
          PROVE  rows'[r].st # "none" /\ BusinessIn(rows', r) = rows'[p].up
      <4>1. Exists(r) /\ ModelOf[r] = "modifierGroup" /\ rows[r].up = rows[p].up
        BY <1>4, <3>2, IdsAssumption DEF BornChild, ModifierGroups, Of
      <4>2. rows'[r].st # "none" /\ rows'[r].up = rows[p].up
        BY <4>1, RowsStay
      <4> QED BY <3>1, <4>1, <4>2 DEF BusinessIn, BusinessScoped
    <3>3. rows'[y].ref # NoId => rows'[y].ref \in Ids
      BY DEF Writes, Row
    <3> QED BY <2>1, <2>2, <3>1, <3>2, <3>3 DEF HangsRight
  <2>4. CASE ~Mine(q, p)
    <3>1. ~Exists(p) /\ rows'[p].st # "none" /\ rows'[y].ref = NoId
      BY <1>4, <2>4 DEF BornChild
    <3>2. HangsRight(q, p)
      <4>1. rows'[p] # rows[p]
        BY <3>1 DEF Exists
      <4>2. Born(q, p)
        BY <2>1, <3>1, <4>1 DEF Writes, Kept, Mine
      <4>3. BornScoped(q, p)
        BY <2>1, <4>2 DEF Born, BornBusiness, BornChild, ChildOnly, ChildParent, BusinessScoped
      <4> QED BY <1>3, <2>1, <3>1, <4>3
    <3> QED BY <2>1, <2>2, <3>1, <3>2 DEF HangsRight
  <2> QED BY <2>3, <2>4
<1> QED BY <1>1, <1>2, <1>3, <1>4 DEF Writes, Born

----------------------------------------------------------------------------
(* Which call a step belongs to.                                             *)
LEMMA CallAt ==
  ASSUME IInv, NEW q \in Reqs, pc[q] # "idle"
  PROVE  /\ Busy(q) /\ job[q] \in Jobs /\ ctx[q] = job[q].by
         /\ pc[q] \in {"lock", "count", "found"} =>
              job[q].kind = "create" /\ ModelOf[job[q].id] = "business"
         /\ pc[q] \in {"own", "police", "insert"} =>
              job[q].kind = "create" /\ ModelOf[job[q].id] # "business"
         /\ pc[q] \in {"category", "unique"} =>
              job[q].kind \in {"create", "update"} /\ job[q].id \in Products
         /\ pc[q] \in {"load", "before", "update"} => Changes(q)
         /\ pc[q] \in {"before", "update"} => (job[q].kind = "remove" => job[q].id \in Sold)
         /\ pc[q] \in {"delete", "bury"} => job[q].kind = "remove" /\ job[q].id \notin Sold
         /\ pc[q] \in {"groups", "joins"} => job[q].kind = "links"
         /\ pc[q] \in {"max", "maxLog"} => job[q].kind = "setMax"
         /\ pc[q] \in {"pull", "products", "pullGroups"} => job[q].kind = "pull"
<1>1. RequestRight(q) /\ job[q] \in Jobs \cup {NoJob}
  BY DEF IInv, TypeOK
<1> QED BY <1>1 DEF RequestRight, OnCourse, Busy, Changes

----------------------------------------------------------------------------
(* The writes.                                                              *)
LEMMA KidRowsRight ==
  ASSUME IInv, NEW q \in Reqs, Busy(q), NEW y \in DOMAIN KidRows(q, job[q].id)
  PROVE  /\ y \in Ids /\ ~Exists(y) /\ y \in NewIds(job[q])
         /\ ModelOf[y] \in ChildOnly /\ job[q].id \in UpRange(y)
         /\ ModelOf[y] # "productModifierGroup"
         /\ KidRows(q, job[q].id)[y] \in Row
         /\ KidRows(q, job[q].id)[y].st = "live" /\ KidRows(q, job[q].id)[y].up = job[q].id
         /\ KidRows(q, job[q].id)[y].ref = NoId
<1> DEFINE j == job[q]
<1>1. j \in Jobs
  BY DEF IInv, TypeOK, Busy
<1>2. PICK k \in j.kids : k.fresh /\ k.id = y
  BY DEF KidRows
<1>3. k \in Kid /\ j.kids \subseteq Kid
  BY <1>1, JobFields
<1>4. j.kind \in {"create", "update"}
  BY <1>1, <1>2, SubmissionsAssumption
<1>5. j.id \in Ids
  BY <1>1, <1>4, OwnerCalls
<1>6. ModelOf[y] \in {"productVariant", "modifier"} /\ ChildParent[ModelOf[y]] = ModelOf[j.id]
  BY <1>1, <1>2, SubmissionsAssumption
<1>7. ModelOf[y] \in ChildOnly /\ UpRange(y) = Of(ModelOf[j.id])
  BY <1>6 DEF UpRange, ChildOnly, ChildParent, BusinessScoped, BranchScoped
<1>8. y \in Ids /\ y \in NewIds(j) /\ ~Exists(y)
  BY <1>2, <1>3 DEF Kid, NewIds, IInv, RequestRight, NewFree
<1>9. KidRows(q, j.id)[y] = NewRow(j.id, NoId, (CHOOSE l \in j.kids : l.id = y).sku)
  BY DEF KidRows
<1>10. (CHOOSE l \in j.kids : l.id = y).sku \in Skus \cup {NoSku}
  <2>1. (CHOOSE l \in j.kids : l.id = y) \in j.kids
    BY <1>2
  <2> QED BY <2>1, <1>3 DEF Kid
<1> QED BY <1>5, <1>6, <1>7, <1>8, <1>9, <1>10 DEF NewRow, Row, Of

LEMMA InsertWrites ==
  ASSUME IInv, NEW q \in Reqs, Insert(q)
  PROVE  Writes(q)
<1> DEFINE j == job[q]
           x == job[q].id
           kids == KidRows(q, x)
           after == [y \in {x} \cup DOMAIN kids |->
                       IF y = x THEN NewRow(j.up, j.ref, j.sku) ELSE kids[y]]
<1>1. /\ j \in Jobs /\ Busy(q) /\ j.kind = "create" /\ ModelOf[x] # "business" /\ x \in Ids
      /\ ModelOf[x] \notin ChildOnly /\ j.up \in UpRange(x) /\ Mine(q, j.up)
      /\ (x \in Products \/ j.ref = NoId)
  <2>1. pc[q] = "insert"
    BY DEF Insert, At
  <2>2. j \in Jobs /\ Busy(q) /\ j.kind = "create" /\ ModelOf[x] # "business"
    BY <2>1, CallAt
  <2>3. Mine(q, j.up)
    BY <2>1 DEF IInv, RequestRight, Policed
  <2> QED BY <2>2, <2>3, OwnerCalls, SubmissionsAssumption
<1>2. ~Exists(x) /\ x \in NewIds(j)
  BY <1>1 DEF IInv, RequestRight, NewFree, NewIds
<1>3. x \in Products => j.ref \in Of("category") /\ Exists(j.ref) /\ rows[j.ref].up = j.up
  BY <1>1 DEF IInv, RequestRight, RefChecked, TakesRef, Home, Insert, At
<1>4. ModelOf[x] \in BusinessScoped \cup BranchScoped
  BY <1>1, IdsAssumption DEF Models
<1>5. rows' = rows \/ rows' = [y \in Ids |-> IF y \in DOMAIN after THEN after[y] ELSE rows[y]]
  BY DEF Insert, Commit, Mutate, Fail
<1>6. CASE rows' = rows
  BY <1>6 DEF Writes, IInv, TypeOK
<1>7. CASE rows' = [y \in Ids |-> IF y \in DOMAIN after THEN after[y] ELSE rows[y]]
  <2>1. rows'[x] = NewRow(j.up, j.ref, j.sku)
    BY <1>1, <1>7
  <2>2. \A y \in Ids : y # x => rows'[y] = IF y \in DOMAIN kids THEN kids[y] ELSE rows[y]
    BY <1>1, <1>7
  <2>3. rows'[x] \in Row
    BY <1>1, <2>1, JobFields DEF NewRow, Row
  <2>4. rows' \in [Ids -> Row]
    <3>1. rows' = [y \in Ids |-> rows'[y]]
      BY <1>7
    <3> QED BY <1>1, <2>2, <2>3, <3>1, KidRowsRight DEF IInv, TypeOK
  <2>5. Born(q, x)
    <3>1. j.ref # NoId => x \in Products /\ ModelOf[x] \in BusinessScoped
      BY <1>1 DEF Products, Of, BusinessScoped
    <3> QED BY <1>1, <1>2, <1>3, <1>4, <2>1, <3>1 DEF Born, BornScoped, NewRow
  <2>6. ASSUME NEW y \in DOMAIN kids, y # x PROVE Born(q, y)
    BY <1>1, <1>2, <2>1, <2>2, <2>6, KidRowsRight DEF Born, BornChild, NewRow
  <2> QED BY <2>2, <2>4, <2>5, <2>6 DEF Writes
<1> QED BY <1>5, <1>6, <1>7

(* The children a replace-set updates or drops are the row's own.             *)
LEMMA OwnChildren ==
  ASSUME IInv, NEW q \in Reqs, Changes(q), Busy(q), pc[q] # "load",
         NEW y \in Ids, y \in seen[q] \cup buried[q]
  PROVE  /\ Exists(y) /\ Mine(q, y) /\ ModelOf[y] \in ChildOnly /\ rows[y].up = job[q].id
         /\ y \notin NewIds(job[q])
<1>1. Exists(y) /\ ModelOf[y] \in ChildOnly /\ rows[y].up = job[q].id
  BY DEF IInv, RequestRight, SeenRight, Changes
<1>2. Mine(q, job[q].id)
  BY DEF IInv, RequestRight, Loaded
<1>3. BusinessOf(y) = BusinessOf(job[q].id)
  <2>1. ModelOf[job[q].id] \in BusinessScoped
    BY <1>1, ChildTables DEF IInv, RowsRight, BusinessScoped, Of
  <2>2. ModelOf[y] \notin {"business"} \cup BusinessScoped
    BY <1>1, ChildTables
  <2>3. ModelOf[job[q].id] # "business"
    BY <2>1 DEF BusinessScoped
  <2> QED BY <1>1, <2>1, <2>2, <2>3 DEF BusinessOf, BusinessIn
<1> QED BY <1>1, <1>2, <1>3 DEF Mine, OwnerOf, IInv, RequestRight, NewFree

LEMMA UpdateWrites ==
  ASSUME IInv, NEW q \in Reqs, Update(q)
  PROVE  Writes(q)
<1> DEFINE j == job[q]
           x == job[q].id
           ups == KidUpdates(q)
           drops == KidDrops(q)
           adds == KidRows(q, x)
           after == [y \in {x} \cup DOMAIN ups \cup drops \cup DOMAIN adds |->
                       IF y = x THEN Patched(q)
                       ELSE IF y \in DOMAIN ups THEN ups[y]
                       ELSE IF y \in drops THEN rewriteNestedWrites(drops)[y] ELSE adds[y]]
<1>1. /\ pc[q] = "update" /\ j \in Jobs /\ Busy(q) /\ Changes(q) /\ j.kind # "links"
      /\ j.kind = "remove" => x \in Products
  BY CallAt, JobsAssumption DEF Update, At
<1>2. Mine(q, x) /\ x \in Ids /\ Exists(x) /\ rows[x] \in Row
  BY <1>1 DEF IInv, RequestRight, Loaded, TypeOK, Mine
<1>3. rows' = rows \/ rows' = [y \in Ids |-> IF y \in DOMAIN after THEN after[y] ELSE rows[y]]
  BY DEF Update, Commit, Mutate, Fail
<1>4. CASE rows' = rows
  BY <1>4 DEF Writes, IInv, TypeOK
<1>5. CASE rows' = [y \in Ids |-> IF y \in DOMAIN after THEN after[y] ELSE rows[y]]
  <2>1. rows'[x] = Patched(q)
    BY <1>2, <1>5
  <2>2. \A y \in Ids : y # x => rows'[y] = IF y \in DOMAIN ups THEN ups[y]
                                         ELSE IF y \in drops THEN Restate(y, "gone")
                                         ELSE IF y \in DOMAIN adds THEN adds[y] ELSE rows[y]
    BY <1>5 DEF rewriteNestedWrites
  <2>3. rows'[x] \in Row /\ Kept(q, x)
    <3>1. j.ref \in Ids \cup {NoId} /\ j.sku \in Skus \cup {NoSku}
      BY <1>1, JobFields
    <3>2. "ref" \in j.patch => x \in Products /\ j.ref \in Of("category") /\ Exists(j.ref)
                              /\ rows[j.ref].up = rows[x].up
      <4>1. "ref" \in j.patch => x \in Products /\ j.kind = "update"
        BY <1>1, SubmissionsAssumption
      <4> QED BY <1>1, <4>1 DEF IInv, RequestRight, RefChecked, TakesRef, Home
    <3>3. "ref" \in j.patch => BusinessOf(j.ref) = BusinessOf(x) /\ j.ref \in Ids
      BY <3>2 DEF Products, Of, BusinessOf, BusinessIn, BusinessScoped
    <3>4. ModelOf[x] = "business" => j.kind # "remove"
      BY <1>1 DEF Products, Of
    <3>5. /\ Patched(q).st = rows[x].st /\ Patched(q).up = rows[x].up
          /\ Patched(q).ref = IF "ref" \in j.patch THEN j.ref ELSE rows[x].ref
          /\ Patched(q).tag = IF j.kind = "remove" THEN "inactive" ELSE rows[x].tag
          /\ Patched(q) \in Row
      BY <1>2, <3>1 DEF Patched, Row
    <3> QED BY <1>2, <2>1, <3>2, <3>3, <3>4, <3>5 DEF Kept, Exists
  <2>4. \A y \in DOMAIN ups \cup drops :
          /\ y \in Ids /\ y \in seen[q] /\ rows[y] \in Row /\ Mine(q, y) /\ Exists(y)
          /\ ModelOf[y] # "business"
    <3>1. seen[q] \subseteq Ids
      BY DEF IInv, TypeOK
    <3>2. \A y \in DOMAIN ups : y \in seen[q]
      <4>1. ASSUME NEW k \in j.kids, ~k.fresh PROVE k.id \in seen[q]
        <5>1. "kids" \in j.patch
          BY <1>1, <4>1, SubmissionsAssumption DEF Changes
        <5> QED BY <1>1, <4>1, <5>1 DEF IInv, RequestRight, KidsSeen, KnownKids
      <4> QED BY <4>1 DEF KidUpdates
    <3>3. \A y \in drops : y \in seen[q]
      BY DEF KidDrops
    <3>4. \A y \in seen[q] : Mine(q, y) /\ Exists(y) /\ ModelOf[y] # "business"
      BY <1>1, <3>1, OwnChildren DEF ChildOnly, ChildParent
    <3> QED BY <3>1, <3>2, <3>3, <3>4 DEF IInv, TypeOK
  <2>5. ASSUME NEW y \in DOMAIN ups, y # x PROVE rows'[y] \in Row /\ Kept(q, y)
    <3> DEFINE sku == (CHOOSE l \in j.kids : l.id = y).sku
    <3>1. sku \in Skus \cup {NoSku}
      <4>1. PICK k \in j.kids : ~k.fresh /\ k.id = y
        BY <2>5 DEF KidUpdates
      <4>2. (CHOOSE l \in j.kids : l.id = y) \in j.kids
        BY <4>1
      <4> QED BY <1>1, <4>2, JobFields DEF Kid
    <3>2. rows'[y] = [rows[y] EXCEPT !.sku = sku]
      BY <2>2, <2>4, <2>5 DEF KidUpdates
    <3>3. /\ rows'[y].st = rows[y].st /\ rows'[y].up = rows[y].up /\ rows'[y].ref = rows[y].ref
          /\ rows'[y] \in Row
      BY <2>4, <3>1, <3>2 DEF Row
    <3> QED BY <2>4, <3>3 DEF Kept, Exists
  <2>6. ASSUME NEW y \in drops, y # x, y \notin DOMAIN ups PROVE rows'[y] \in Row /\ Kept(q, y)
    <3>1. rows'[y] = [rows[y] EXCEPT !.st = "gone"]
      BY <2>2, <2>4, <2>6 DEF Restate
    <3>2. /\ rows'[y].st = "gone" /\ rows'[y].up = rows[y].up /\ rows'[y].ref = rows[y].ref
          /\ rows'[y] \in Row
      BY <2>4, <3>1 DEF Row
    <3> QED BY <2>4, <3>2 DEF Kept
  <2>7. ASSUME NEW y \in DOMAIN adds, y # x PROVE y \in Ids /\ rows'[y] \in Row /\ Born(q, y)
    <3>1. y \in Ids /\ ~Exists(y) /\ y \notin DOMAIN ups \cup drops
      BY <1>1, <2>4, KidRowsRight
    <3>2. rows'[y] = adds[y]
      BY <2>2, <2>7, <3>1
    <3> QED BY <1>1, <1>2, <3>1, <3>2, KidRowsRight DEF Born, BornChild
  <2>8. rows' \in [Ids -> Row]
    <3>1. rows' = [y \in Ids |-> rows'[y]]
      BY <1>5
    <3>2. ASSUME NEW y \in Ids PROVE rows'[y] \in Row
      BY <2>2, <2>3, <2>5, <2>6, <2>7 DEF IInv, TypeOK
    <3> QED BY <3>1, <3>2
  <2> QED BY <2>2, <2>3, <2>5, <2>6, <2>7, <2>8 DEF Writes
<1> QED BY <1>3, <1>4, <1>5

(* A join row names the group its submission named, and no other.             *)
LEMMA JoinNamesGroup ==
  ASSUME NEW p \in Products, NEW g \in ModifierGroups
  PROVE  /\ GroupOfJoin(LinkOf[p, g]) = g /\ LinkOf[p, g] \in Ids
         /\ ModelOf[LinkOf[p, g]] = "productModifierGroup"
<1>1. GroupOfJoin(LinkOf[p, g]) \in ModifierGroups
      /\ \E r \in Products : LinkOf[r, GroupOfJoin(LinkOf[p, g])] = LinkOf[p, g]
  BY DEF GroupOfJoin
<1>2. GroupOfJoin(LinkOf[p, g]) = g
  <2>1. PICK r \in Products : LinkOf[<<r, GroupOfJoin(LinkOf[p, g])>>] = LinkOf[<<p, g>>]
    BY <1>1
  <2>2. /\ <<r, GroupOfJoin(LinkOf[p, g])>> \in Products \X ModifierGroups
        /\ <<p, g>> \in Products \X ModifierGroups
    BY <1>1
  <2>3. <<r, GroupOfJoin(LinkOf[p, g])>>[2] = <<p, g>>[2]
    BY <2>1, <2>2, JobsAssumption
  <2> QED BY <2>3
<1>3. LinkOf[p, g] \in JoinRows
  BY JobsAssumption
<1> QED BY <1>2, <1>3 DEF JoinRows, Of

LEMMA JoinsWrites ==
  ASSUME IInv, NEW q \in Reqs, UpdateJoins(q)
  PROVE  Writes(q)
<1> DEFINE j == job[q]
           x == job[q].id
           adds == JoinAdds(q)
           touched == adds \cup JoinBacks(q) \cup JoinDrops(q)
           after == [y \in {x} \cup touched |->
                       IF y = x THEN rows[x]
                       ELSE IF y \in adds THEN NewRow(x, GroupOfJoin(y), NoSku)
                       ELSE Restate(y, IF y \in JoinBacks(q) THEN "live" ELSE "gone")]
<1>1. /\ pc[q] = "update" /\ j \in Jobs /\ Busy(q) /\ j.kind = "links" /\ Changes(q)
      /\ x \in Products
  BY CallAt, SubmissionsAssumption DEF UpdateJoins, At
<1>2. Mine(q, x) /\ x \in Ids /\ Exists(x)
  BY <1>1 DEF IInv, RequestRight, Loaded, Mine
<1>3. \/ rows' = rows
      \/ /\ \A y \in adds : ~Exists(y)
         /\ rows' = [y \in Ids |-> IF y \in DOMAIN after THEN after[y] ELSE rows[y]]
  BY DEF UpdateJoins, Mutate, Fail, Exists
<1>4. CASE rows' = rows
  BY <1>4 DEF Writes, IInv, TypeOK
<1>5. ASSUME \A y \in adds : ~Exists(y),
             rows' = [y \in Ids |-> IF y \in DOMAIN after THEN after[y] ELSE rows[y]]
      PROVE  Writes(q)
  <2>1. rows'[x] = rows[x]
    BY <1>2, <1>5
  <2>2. \A y \in Ids : y # x => rows'[y] =
          IF y \in adds THEN NewRow(x, GroupOfJoin(y), NoSku)
          ELSE IF y \in touched THEN Restate(y, IF y \in JoinBacks(q) THEN "live" ELSE "gone")
          ELSE rows[y]
    BY <1>5
  <2>3. ASSUME NEW y \in adds, y # x PROVE y \in Ids /\ rows'[y] \in Row /\ Born(q, y)
    <3>1. PICK g \in j.groups : y = LinkOf[x, g]
      BY DEF JoinAdds, WantedJoins
    <3>2. g \in ModifierGroups /\ Exists(g) /\ rows[g].up = rows[x].up
      BY <1>1 DEF IInv, RequestRight, GroupsChecked
    <3>3. y \in Ids /\ ModelOf[y] = "productModifierGroup" /\ GroupOfJoin(y) = g
      BY <1>1, <3>1, <3>2, JoinNamesGroup
    <3>4. rows'[y] = NewRow(x, g, NoSku)
      BY <2>2, <2>3, <3>3
    <3>5. ModelOf[y] \in ChildOnly /\ x \in UpRange(y)
      <4>1. ModelOf[y] \in ChildOnly /\ ChildParent[ModelOf[y]] = "product"
        BY <3>3 DEF ChildOnly, ChildParent
      <4> QED BY <1>1, <4>1, ChildTables DEF Products
    <3> QED BY <1>2, <1>5, <2>3, <3>2, <3>3, <3>4, <3>5
      DEF Born, BornChild, NewRow, Row, ModifierGroups, Of
  <2>4. ASSUME NEW y \in touched, y \notin adds, y # x
        PROVE  y \in Ids /\ rows'[y] \in Row /\ Kept(q, y)
    <3>1. y \in seen[q] \cup buried[q] /\ y \in Ids
      BY <2>4 DEF JoinBacks, JoinDrops, IInv, TypeOK
    <3>2. /\ Mine(q, y) /\ ModelOf[y] # "business" /\ rows[y] \in Row
      BY <1>1, <3>1, OwnChildren DEF ChildOnly, ChildParent, IInv, TypeOK
    <3>3. PICK st \in {"live", "gone"} : rows'[y] = [rows[y] EXCEPT !.st = st]
      BY <2>2, <2>4, <3>1 DEF Restate
    <3>4. /\ rows'[y].st = st /\ rows'[y].up = rows[y].up /\ rows'[y].ref = rows[y].ref
          /\ rows'[y] \in Row
      BY <3>2, <3>3 DEF Row
    <3> QED BY <3>1, <3>2, <3>4 DEF Kept
  <2>5. rows' \in [Ids -> Row]
    <3>1. rows' = [y \in Ids |-> rows'[y]]
      BY <1>5
    <3>2. ASSUME NEW y \in Ids PROVE rows'[y] \in Row
      BY <2>1, <2>2, <2>3, <2>4 DEF IInv, TypeOK
    <3> QED BY <3>1, <3>2
  <2> QED BY <2>1, <2>2, <2>3, <2>4, <2>5 DEF Writes
<1> QED BY <1>3, <1>4, <1>5

LEMMA BuryWrites ==
  ASSUME IInv, NEW q \in Reqs, Bury(q)
  PROVE  Writes(q)
<1> DEFINE x == job[q].id
<1>1. pc[q] = "bury" /\ Busy(q) /\ Changes(q)
  BY CallAt DEF Bury, At, Changes
<1>2. Mine(q, x) /\ x \in Ids /\ rows[x] \in Row
  BY <1>1 DEF IInv, RequestRight, Loaded, Mine, TypeOK
<1>3. rows' = rows \/ rows' = [y \in Ids |-> IF y = x THEN Restate(x, "gone") ELSE rows[y]]
  BY DEF Bury, Commit, Mutate, Fail
<1>4. CASE rows' = rows
  BY <1>4 DEF Writes, IInv, TypeOK
<1>5. CASE rows' = [y \in Ids |-> IF y = x THEN Restate(x, "gone") ELSE rows[y]]
  <2>1. /\ rows'[x].st = "gone" /\ rows'[x].up = rows[x].up /\ rows'[x].ref = rows[x].ref
        /\ rows'[x].tag = rows[x].tag /\ rows'[x] \in Row
    BY <1>2, <1>5 DEF Restate, Row
  <2> QED BY <1>2, <1>5, <2>1 DEF Kept, Writes, IInv, TypeOK
<1> QED BY <1>3, <1>4, <1>5

LEMMA BusinessWrites ==
  ASSUME IInv, NEW q \in Reqs, InsertBusiness(q)
  PROVE  Writes(q)
<1> DEFINE x == job[q].id
<1>1. /\ pc[q] = "found" /\ Busy(q) /\ job[q] \in Jobs /\ job[q].kind = "create"
      /\ ModelOf[x] = "business" /\ ctx[q] = job[q].by
  BY CallAt DEF InsertBusiness, At
<1>2. x \in Ids /\ ctx[q].owner \in Owners
  BY <1>1, OwnerCalls
<1>3. ~Exists(x) /\ x \in NewIds(job[q])
  BY <1>1 DEF IInv, RequestRight, NewFree, NewIds
<1>4. \/ rows' = rows
      \/ rows' = [y \in Ids |-> IF y = x THEN NewRow(ctx[q].owner, NoId, NoSku) ELSE rows[y]]
  BY DEF InsertBusiness, Commit, Mutate, Fail
<1>5. CASE rows' = rows
  BY <1>5 DEF Writes, IInv, TypeOK
<1>6. CASE rows' = [y \in Ids |-> IF y = x THEN NewRow(ctx[q].owner, NoId, NoSku) ELSE rows[y]]
  <2>1. rows'[x] = NewRow(ctx[q].owner, NoId, NoSku) /\ rows'[x] \in Row
    BY <1>2, <1>6 DEF NewRow, Row
  <2> QED BY <1>1, <1>2, <1>3, <1>6, <2>1 DEF Born, BornBusiness, Writes, NewRow, IInv, TypeOK
<1> QED BY <1>4, <1>5, <1>6

LEMMA StepWrites ==
  ASSUME IInv, NEW q \in Reqs, Step(q)
  PROVE  Writes(q)
<1>1. CASE Insert(q) \/ Update(q) \/ UpdateJoins(q) \/ Bury(q) \/ InsertBusiness(q)
  BY <1>1, InsertWrites, UpdateWrites, JoinsWrites, BuryWrites, BusinessWrites
<1>2. CASE rows' = rows
  BY <1>2 DEF Writes, IInv, TypeOK
<1>3. CASE (\E j \in offered : Begin(q, j)) \/ Abort(q) \/ Own(q) \/ Load(q) \/ Category(q)
           \/ Unique(q) \/ Police(q) \/ Before(q) \/ Groups(q) \/ ReadJoins(q) \/ ReadDelete(q)
  BY <1>2, <1>3 DEF Begin, Abort, Own, Load, Category, Unique, Police, Before, Groups, ReadJoins,
    ReadDelete, ReadThen, Quiet, Fail
<1>4. CASE LockOwner(q) \/ CountBusinesses(q) \/ SetMax(q) \/ LogMax(q) \/ Pull(q)
           \/ PullProducts(q) \/ PullGroups(q)
  BY <1>2, <1>4 DEF LockOwner, CountBusinesses, SetMax, LogMax, Pull, PullProducts, PullGroups,
    ReadThen, Quiet, Fail
<1> QED BY <1>1, <1>3, <1>4 DEF Step

----------------------------------------------------------------------------
(* What a step of one request leaves alone of the others.                     *)
Apart(q, p) ==
  /\ pc'[p] = pc[p] /\ job'[p] = job[p] /\ ctx'[p] = ctx[p]
  /\ seen'[p] = seen[p] /\ buried'[p] = buried[p]
  /\ known'[p] = known[p] /\ bizCache'[p] = bizCache[p] /\ brCache'[p] = brCache[p]
LocksApart(q, p) ==
  \A o \in Owners : ownerLock[o] = p => ownerLock'[o] = p /\ max'[o] = max[o]

LEMMA ForgetApart ==
  ASSUME TypeOK, NEW q \in Reqs, NEW p \in Reqs, p # q, Forget(q)
  PROVE  Apart(q, p)
BY DEF TypeOK, Forget, Apart

LEMMA ReadApart ==
  ASSUME TypeOK, NEW q \in Reqs, NEW p \in Reqs, p # q, NEW STATE m, Remember(q, m)
  PROVE  known'[p] = known[p] /\ bizCache'[p] = bizCache[p] /\ brCache'[p] = brCache[p]
BY DEF TypeOK, Remember

LEMMA LeaveApart ==
  ASSUME IInv, NEW q \in Reqs, NEW p \in Reqs, p # q, Leave(q)
  PROVE  Apart(q, p) /\ LocksApart(q, p)
BY ForgetApart DEF IInv, TypeOK, Leave, Unlocked, LocksApart

LEMMA ReadThenApart ==
  ASSUME IInv, NEW q \in Reqs, NEW p \in Reqs, p # q, NEW STATE m, NEW STATE ok,
         NEW STATE next,
         ReadThen(q, m, ok, next)
  PROVE  Apart(q, p) /\ LocksApart(q, p)
<1>1. CASE Fail(q)
  BY <1>1, LeaveApart DEF Fail
<1>2. CASE Go(q, next) /\ Remember(q, m) /\ Quiet
  BY <1>2, ReadApart DEF IInv, TypeOK, Go, Quiet, ownerVars, Apart, LocksApart
<1> QED BY <1>1, <1>2 DEF ReadThen

LEMMA StepApart ==
  ASSUME IInv, NEW q \in Reqs, NEW p \in Reqs, p # q, Step(q)
  PROVE  Apart(q, p) /\ LocksApart(q, p)
<1>1. CASE \E j \in offered : Begin(q, j)
  BY <1>1 DEF Begin, Quiet, ownerVars, cacheVars, IInv, TypeOK, Apart, LocksApart
<1>2. CASE Abort(q) \/ Insert(q) \/ Update(q) \/ UpdateJoins(q) \/ Bury(q) \/ InsertBusiness(q) \/ LogMax(q)
  BY <1>2, LeaveApart DEF Abort, Insert, Update, UpdateJoins, Bury, InsertBusiness, LogMax, Commit, Fail
<1>3. CASE Own(q) \/ Category(q) \/ Unique(q) \/ Police(q) \/ Before(q) \/ Groups(q) \/ ReadDelete(q) \/ Pull(q)
  BY <1>3, ReadThenApart DEF Own, Category, Unique, Police, Before, Groups, ReadDelete, Pull
<1>4. CASE Load(q)
  <2>1. CASE Fail(q)
    BY <2>1, LeaveApart DEF Fail
  <2>2. CASE ~Fail(q)
    <3>1. Remember(q, Model(q))
      BY <1>4, <2>2 DEF Load
    <3> QED BY <1>4, <2>2, <3>1, ReadApart
      DEF Load, Quiet, ownerVars, IInv, TypeOK, Apart, LocksApart
  <2> QED BY <2>1, <2>2
<1>5. CASE ReadJoins(q)
  BY <1>5 DEF ReadJoins, Quiet, ownerVars, cacheVars, IInv, TypeOK, Apart, LocksApart
<1>6. CASE LockOwner(q)
  BY <1>6, JobsAssumption DEF LockOwner, Go, cacheVars, IInv, TypeOK, Apart, LocksApart
<1>7. CASE CountBusinesses(q)
  <2>1. CASE Fail(q)
    BY <2>1, LeaveApart DEF Fail
  <2>2. CASE ~Fail(q)
    BY <1>7, <2>2 DEF CountBusinesses, Go, Quiet, ownerVars, cacheVars, IInv, TypeOK, Apart, LocksApart
  <2> QED BY <2>1, <2>2
<1>8. CASE SetMax(q)
  BY <1>8, JobsAssumption DEF SetMax, Go, cacheVars, IInv, TypeOK, Apart, LocksApart
<1>9. CASE PullProducts(q)
  BY <1>9, ReadApart DEF PullProducts, Quiet, ownerVars, IInv, TypeOK, Apart, LocksApart
<1>10. CASE PullGroups(q)
  BY <1>10, ForgetApart DEF PullGroups, Quiet, ownerVars, IInv, LocksApart
<1> QED BY <1>1, <1>2, <1>3, <1>4, <1>5, <1>6, <1>7, <1>8, <1>9, <1>10 DEF Step

----------------------------------------------------------------------------
(* What a request knows stays true while another one runs.                    *)
LEMMA MineStays ==
  ASSUME RowsRight, NEW q \in Reqs, Writes(q), NEW p \in Reqs, ctx'[p] = ctx[p],
         NEW x, Mine(p, x)
  PROVE  Mine(p, x)'
BY RowsStay, OwnersStay DEF Mine, Exists

LEMMA CountStays ==
  ASSUME IInv, NEW q \in Reqs, NEW p \in Reqs, p # q, Writes(q),
         ctx'[p] = ctx[p], pc[p] = "found", LocksApart(q, p)
  PROVE  UnderCap(p)'
<1> DEFINE o == ctx[p].owner
<1>1. o \in Owners /\ ownerLock[o] = p /\ UnderCap(p)
  BY CallAt, OwnerCalls DEF IInv, RequestRight, Locked, HasRoom
<1>2. max'[o] = max[o]
  BY <1>1 DEF LocksApart
<1>3. Counted(o)' \subseteq Counted(o)
  <2> SUFFICES ASSUME NEW b \in Businesses, rows'[b].st = "live", rows'[b].up = o,
                      rows'[b].tag # "demo"
               PROVE  rows[b].st = "live" /\ rows[b].up = o /\ rows[b].tag # "demo"
    BY DEF Counted, LiveBusinesses, Live
  <2>1. b \in Ids /\ ModelOf[b] = "business"
    BY DEF Businesses, Of
  <2>2. CASE Kept(q, b)
    BY <2>1, <2>2 DEF Kept
  <2>3. CASE Born(q, b)
    <3>1. BornBusiness(q, b)
      BY <2>1, <2>3, ChildTables DEF Born, BornScoped, BornChild, BusinessScoped, BranchScoped
    <3>2. pc[q] = "found" /\ ctx[q].owner = o
      BY <3>1 DEF BornBusiness
    <3>3. ownerLock[o] = q
      BY <3>2 DEF IInv, RequestRight, Locked
    <3> QED BY <1>1, <3>3
  <2> QED BY <2>1, <2>2, <2>3 DEF Writes
<1>4. IsFiniteSet(Counted(o))
  <2>1. Counted(o) \subseteq Ids
    BY DEF Counted, LiveBusinesses, Businesses, Of
  <2> QED BY <2>1, FS_Subset, IdsAssumption
<1>5. /\ Cardinality(Counted(o)') <= Cardinality(Counted(o))
      /\ Cardinality(Counted(o)') \in Nat /\ Cardinality(Counted(o)) \in Nat
  BY <1>3, <1>4, FS_Subset, FS_CardinalityType
<1>6. max[o] \in Nat
  BY <1>1 DEF IInv, TypeOK
<1> QED BY <1>1, <1>2, <1>5, <1>6 DEF UnderCap

LEMMA NewTables ==
  ASSUME NEW j \in Jobs, NEW x \in NewIds(j)
  PROVE  x \in Ids /\ ModelOf[x] # "productModifierGroup"
<1>1. CASE j.kind = "create" /\ x = j.id
  <2>1. "productModifierGroup" \in ChildOnly
    BY DEF ChildOnly, ChildParent
  <2> QED BY <1>1, <2>1, OwnerCalls, SubmissionsAssumption
<1>2. CASE \E k \in j.kids : k.fresh /\ x = k.id
  <2>1. PICK k \in j.kids : k.fresh /\ x = k.id
    BY <1>2
  <2>2. ModelOf[x] \in {"productVariant", "modifier"}
    BY <2>1, SubmissionsAssumption
  <2> QED BY <2>1, <2>2, JobFields DEF Kid
<1> QED BY <1>1, <1>2 DEF NewIds

LEMMA WriterBusy ==
  ASSUME NEW q \in Reqs, Step(q), rows' # rows
  PROVE  pc[q] # "idle"
<1>1. CASE \E j \in offered : Begin(q, j)
  BY <1>1 DEF Begin, Quiet
<1> QED BY <1>1 DEF Step, At, Abort, Own, Load, Category, Unique, Police, Before, Groups, ReadJoins,
  ReadDelete, Insert, Update, UpdateJoins, Bury, InsertBusiness, LockOwner, CountBusinesses, SetMax,
  LogMax, Pull, PullProducts, PullGroups

LEMMA OthersRight ==
  ASSUME IInv, NEW q \in Reqs, NEW p \in Reqs, p # q, Step(q)
  PROVE  RequestRight(p)'
<1>1. Writes(q) /\ Apart(q, p) /\ LocksApart(q, p) /\ RequestRight(p) /\ TypeOK /\ RowsRight
  BY StepWrites, StepApart DEF IInv
<1>2. OnCourse(p)'
  BY <1>1 DEF RequestRight, OnCourse, Apart
<1>3. CachesRight(p)'
  BY <1>1, MineStays DEF RequestRight, CachesRight, Apart
<1>4. Loaded(p)'
  BY <1>1, MineStays DEF RequestRight, Loaded, Busy, Changes, Apart
<1>5. SeenRight(p)'
  BY <1>1, RowsStay DEF RequestRight, SeenRight, Busy, Apart, Exists, TypeOK
<1>6. KidsSeen(p)'
  BY <1>1 DEF RequestRight, KidsSeen, KnownKids, Busy, Apart
<1>7. GroupsChecked(p)'
  <2> SUFFICES ASSUME Busy(p), job[p].kind = "links", pc[p] \in {"joins", "before", "update"},
                      NEW g \in job[p].groups
               PROVE  g \in ModifierGroups /\ rows'[g].st # "none" /\ rows'[g].up = rows'[job[p].id].up
    BY <1>1 DEF GroupsChecked, Apart, Busy, Exists, ModifierGroups
  <2>1. g \in ModifierGroups /\ g \in Ids /\ Exists(g) /\ rows[g].up = rows[job[p].id].up
    BY <1>1 DEF RequestRight, GroupsChecked, ModifierGroups, Of
  <2>2. Mine(p, job[p].id)
    BY <1>1 DEF RequestRight, Loaded, Changes
  <2> QED BY <1>1, <2>1, <2>2, RowsStay DEF Mine
<1>8. RefChecked(p)'
  <2> SUFFICES ASSUME Busy(p), TakesRef(p),
                      pc[p] \in {"unique", "police", "insert", "before", "update"}
               PROVE  /\ job[p].ref \in Of("category") /\ rows'[job[p].ref].st # "none"
                      /\ rows'[job[p].ref].up = Home(p)'
    BY <1>1 DEF RefChecked, TakesRef, Apart, Busy, Exists, Products, Of
  <2>1. /\ job[p].ref \in Of("category") /\ job[p].ref \in Ids /\ Exists(job[p].ref)
        /\ rows[job[p].ref].up = Home(p)
    BY <1>1 DEF RequestRight, RefChecked, Of
  <2>2. Home(p)' = Home(p)
    <3>1. CASE job[p].kind = "create"
      BY <1>1, <3>1 DEF Home, Apart
    <3>2. CASE job[p].kind # "create"
      <4>1. job[p].kind = "update"
        BY <3>2, SubmissionsAssumption DEF IInv, TypeOK, TakesRef, Busy
      <4>2. Mine(p, job[p].id)
        BY <1>1, <4>1 DEF RequestRight, Loaded, Changes
      <4> QED BY <1>1, <3>2, <4>2, RowsStay DEF Home, Apart, Mine
    <3> QED BY <3>1, <3>2
  <2> QED BY <1>1, <2>1, <2>2, RowsStay
<1>9. Policed(p)'
  BY <1>1, MineStays DEF RequestRight, Policed, Apart, UpRange
<1>10. NewFree(p)'
  <2> SUFFICES ASSUME Busy(p), NEW x \in NewIds(job[p]), rows'[x].st # "none" PROVE FALSE
    BY <1>1 DEF NewFree, Apart, Busy, Exists
  <2>1. x \in Ids /\ ~Exists(x) /\ ModelOf[x] # "productModifierGroup"
    BY <1>1, NewTables DEF RequestRight, NewFree, TypeOK, Busy
  <2>2. x \in NewIds(job[q])
    BY <1>1, <2>1 DEF Writes, Born, Kept, Mine, Exists
  <2>3. Busy(q)
    BY <2>1, CallAt, WriterBusy DEF Exists
  <2> QED BY <2>2, <2>3 DEF IInv, NewApart
<1>11. Locked(p)'
  <2> SUFFICES ASSUME pc[p] \in {"count", "found"} PROVE ownerLock'[ctx[p].owner] = p
    BY <1>1 DEF Locked, Apart
  <2>1. ctx[p].owner \in Owners /\ ownerLock[ctx[p].owner] = p
    BY <1>1, CallAt, OwnerCalls DEF RequestRight, Locked
  <2> QED BY <1>1, <2>1 DEF LocksApart
<1>12. HasRoom(p)'
  BY <1>1, CountStays DEF RequestRight, HasRoom, Apart
<1> QED BY <1>2, <1>3, <1>4, <1>5, <1>6, <1>7, <1>8, <1>9, <1>10, <1>11, <1>12 DEF RequestRight

(* What a request knows after a step of its own.                              *)
LEMMA ForgottenRight ==
  ASSUME TypeOK, NEW q \in Reqs, Forget(q)
  PROVE  RequestRight(q)'
BY DEF TypeOK, Forget, RequestRight, OnCourse, CachesRight, Loaded, SeenRight, KidsSeen,
  GroupsChecked, RefChecked, Policed, NewFree, Locked, HasRoom, Busy

LEMMA BegunRight ==
  ASSUME IInv, NEW q \in Reqs, NEW j \in offered, Begin(q, j)
  PROVE  RequestRight(q)'
<1>1. /\ j \in Jobs /\ j # NoJob
      /\ pc'[q] = First(j) /\ job'[q] = j /\ ctx'[q] = j.by
      /\ seen'[q] = seen[q] /\ buried'[q] = buried[q] /\ known'[q] = known[q]
      /\ \A x \in NewIds(j) : ~Exists(x)
      /\ rows' = rows
  BY JobsAssumption DEF IInv, TypeOK, Begin, Quiet, cacheVars, Exists, Jobs
<1>2. seen[q] = {} /\ buried[q] = {} /\ known[q] = {}
  BY JobFields DEF IInv, RequestRight, OnCourse, Begin, At
<1>3. j.kind \in {"create", "update", "remove", "links", "pull", "setMax"}
  BY <1>1, JobFields
<1>4. /\ j.kind = "create" => First(j) = IF ModelOf[j.id] = "business" THEN "lock" ELSE "own"
      /\ j.kind \in {"update", "remove", "links"} => First(j) = "load"
      /\ j.kind = "pull" => First(j) = "pull"
      /\ j.kind = "setMax" => First(j) = "max"
  BY DEF First
<1>5. OnCourse(q)'
  BY <1>1, <1>3, <1>4 DEF OnCourse
<1>6. First(j) \in {"lock", "own", "load", "pull", "max"}
  BY <1>3, <1>4
<1>7. "kids" \in j.patch => First(j) = "load"
  BY <1>1, <1>4, SubmissionsAssumption
<1>8. (CachesRight(q) /\ SeenRight(q) /\ NewFree(q))'
  BY <1>1, <1>2 DEF CachesRight, SeenRight, NewFree, Exists
<1>9. (Loaded(q) /\ KidsSeen(q))'
  BY <1>1, <1>4, <1>7 DEF Loaded, KidsSeen, Changes
<1>10. (GroupsChecked(q) /\ RefChecked(q) /\ Policed(q) /\ Locked(q) /\ HasRoom(q))'
  BY <1>1, <1>6 DEF GroupsChecked, RefChecked, Policed, Locked, HasRoom
<1> QED BY <1>5, <1>8, <1>9, <1>10 DEF RequestRight

(* A step within a call: rows and call stay, the step moves on.               *)
Moves(q, next) == pc'[q] = next /\ job'[q] = job[q] /\ ctx'[q] = ctx[q] /\ rows' = rows
KeepsSeen(q) == seen'[q] = seen[q] /\ buried'[q] = buried[q]

LEMMA MovedRight ==
  ASSUME IInv, NEW q \in Reqs, NEW STATE next, pc[q] # "idle", Moves(q, next)
  PROVE  /\ NewFree(q)'
         /\ pc[q] # "load" => Loaded(q)'
         /\ KeepsSeen(q) => SeenRight(q)' /\ (pc[q] # "load" => KidsSeen(q)')
BY DEF Moves, KeepsSeen, IInv, RequestRight, NewFree, Loaded, SeenRight, KidsSeen, KnownKids, Busy,
  Changes, Mine, Exists, OwnerOf, BusinessOf, BusinessIn

LEMMA RememberedRight ==
  ASSUME IInv, NEW q \in Reqs, NEW STATE m, Remember(q, m), rows' = rows, ctx'[q] = ctx[q]
  PROVE  CachesRight(q)'
<1>1. /\ known'[q] = known[q] \cup Sets(q, m)
      /\ bizCache'[q] = IF "biz" \in Sets(q, m) THEN AllowedBusinessIds(q) ELSE bizCache[q]
      /\ brCache'[q] = IF "br" \in Sets(q, m) THEN AllowedBranchIds(q) ELSE brCache[q]
  BY DEF IInv, TypeOK, Remember
<1>2. CachesRight(q) /\ TypeOK
  BY DEF IInv, RequestRight
<1>3. \A x : Mine(q, x)' <=> Mine(q, x)
  BY DEF Mine, Exists, OwnerOf, BusinessOf, BusinessIn
<1> QED BY <1>1, <1>2, <1>3, AllowedMine DEF CachesRight

Checked(q) == OnCourse(q) /\ GroupsChecked(q) /\ RefChecked(q) /\ Policed(q) /\ Locked(q) /\ HasRoom(q)

LEMMA FailedRight ==
  ASSUME IInv, NEW q \in Reqs, Fail(q)
  PROVE  RequestRight(q)'
BY ForgottenRight DEF IInv, Fail, Leave

LEMMA ReadThenRight ==
  ASSUME IInv, NEW q \in Reqs, NEW STATE m, NEW STATE ok, NEW STATE next,
         ReadThen(q, m, ok, next), pc[q] \notin {"idle", "load"},
         ok /\ Moves(q, next) => Checked(q)'
  PROVE  RequestRight(q)'
<1>1. CASE Fail(q)
  BY <1>1, FailedRight
<1>2. CASE ok /\ Go(q, next) /\ Remember(q, m) /\ Quiet
  <2>1. Moves(q, next) /\ KeepsSeen(q)
    BY <1>2 DEF IInv, TypeOK, Go, Quiet, Moves, KeepsSeen
  <2>2. CachesRight(q)'
    BY <1>2, <2>1, RememberedRight DEF Moves
  <2>3. (Loaded(q) /\ SeenRight(q) /\ KidsSeen(q) /\ NewFree(q))'
    BY <2>1, MovedRight
  <2> QED BY <1>2, <2>1, <2>2, <2>3 DEF Checked, RequestRight
<1> QED BY <1>1, <1>2 DEF ReadThen

LEMMA OwnRight ==
  ASSUME IInv, NEW q \in Reqs, Own(q)
  PROVE  RequestRight(q)'
<1> DEFINE next == IF Model(q) = "product" THEN "category" ELSE "police"
<1>1. /\ pc[q] = "own" /\ Busy(q) /\ job[q].kind = "create" /\ ModelOf[job[q].id] # "business"
      /\ ctx[q] = job[q].by /\ job[q] \in Jobs
  BY CallAt DEF Own, At
<1>2. job[q].id \in Ids
  BY <1>1, OwnerCalls
<1>3. ASSUME Moves(q, next) PROVE Checked(q)'
  BY <1>1, <1>2, <1>3 DEF Moves, Checked, OnCourse, GroupsChecked, RefChecked, TakesRef, Policed, Locked,
    HasRoom, Busy, Model, Products, Of
<1> QED BY <1>1, <1>3, ReadThenRight DEF Own

LEMMA CategoryRight ==
  ASSUME IInv, NEW q \in Reqs, Category(q)
  PROVE  RequestRight(q)'
<1>1. /\ pc[q] = "category" /\ Busy(q) /\ job[q].kind \in {"create", "update"}
      /\ job[q].id \in Products /\ ctx[q] = job[q].by
      /\ ModelOf[job[q].id] # "business"
  BY CallAt DEF Category, At, Products, Of
<1>2. ASSUME /\ job[q].ref \in Of("category") /\ Found(q, job[q].ref)
             /\ rows[job[q].ref].up = Home(q),
             Moves(q, "unique")
      PROVE  Checked(q)'
  <2>1. RefChecked(q)'
    BY <1>2 DEF Moves, RefChecked, Found, Live, Exists, Home
  <2>2. OnCourse(q)'
    BY <1>1, <1>2 DEF Moves, OnCourse, Busy
  <2>3. (GroupsChecked(q) /\ Policed(q) /\ Locked(q) /\ HasRoom(q))'
    BY <1>1, <1>2 DEF Moves, GroupsChecked, Policed, Locked, HasRoom
  <2> QED BY <2>1, <2>2, <2>3 DEF Checked
<1> QED BY <1>1, <1>2, ReadThenRight DEF Category

LEMMA UniqueRight ==
  ASSUME IInv, NEW q \in Reqs, Unique(q)
  PROVE  RequestRight(q)'
<1> DEFINE next == IF job[q].kind = "create" THEN "police" ELSE "before"
<1>1. /\ pc[q] = "unique" /\ Busy(q) /\ job[q].kind \in {"create", "update"}
      /\ job[q].id \in Products /\ ctx[q] = job[q].by
      /\ ModelOf[job[q].id] # "business"
  BY CallAt DEF Unique, At, Products, Of
<1>2. ASSUME Moves(q, next) PROVE Checked(q)'
  <2>1. RefChecked(q)'
    BY <1>1, <1>2 DEF IInv, RequestRight, Moves, RefChecked, TakesRef, Exists, Home, Busy
  <2>2. OnCourse(q)'
    BY <1>1, <1>2 DEF Moves, OnCourse, Busy
  <2>3. (GroupsChecked(q) /\ Policed(q) /\ Locked(q) /\ HasRoom(q))'
    BY <1>1, <1>2 DEF Moves, GroupsChecked, Policed, Locked, HasRoom
  <2> QED BY <2>1, <2>2, <2>3 DEF Checked
<1> QED BY <1>1, <1>2, ReadThenRight DEF Unique

LEMMA PoliceRight ==
  ASSUME IInv, NEW q \in Reqs, Police(q)
  PROVE  RequestRight(q)'
<1> DEFINE j == job[q]
<1>1. /\ pc[q] = "police" /\ Busy(q) /\ j.kind = "create" /\ ModelOf[j.id] # "business"
      /\ ctx[q] = j.by /\ j \in Jobs
  BY CallAt DEF Police, At
<1>2. j.id \in Ids /\ ModelOf[j.id] \in BusinessScoped \cup BranchScoped /\ j.up \in UpRange(j.id)
  BY <1>1, OwnerCalls, SubmissionsAssumption, IdsAssumption DEF Models
<1>3. ASSUME PoliceCreate(q, Model(q), j.up, j.ref), Moves(q, "insert") PROVE Checked(q)'
  <2>1. Mine(q, j.up)
    BY <1>2, <1>3, AllowedMine DEF PoliceCreate, Model, IInv, RequestRight
  <2>2. Policed(q)'
    BY <1>2, <1>3, <2>1 DEF Moves, Policed, Mine, Exists, OwnerOf, BusinessOf, BusinessIn, UpRange
  <2>3. RefChecked(q)'
    BY <1>1, <1>3 DEF IInv, RequestRight, Moves, RefChecked, TakesRef, Exists, Home, Busy
  <2>4. OnCourse(q)'
    BY <1>1, <1>3 DEF Moves, OnCourse, Busy
  <2>5. (GroupsChecked(q) /\ Locked(q) /\ HasRoom(q))'
    BY <1>1, <1>3 DEF Moves, GroupsChecked, Locked, HasRoom
  <2> QED BY <2>2, <2>3, <2>4, <2>5 DEF Checked
<1> QED BY <1>1, <1>3, ReadThenRight DEF Police

LEMMA LoadRight ==
  ASSUME IInv, NEW q \in Reqs, Load(q)
  PROVE  RequestRight(q)'
<1> DEFINE j == job[q]
           kids == LiveChildren(j.id, ChildModel(q))
<1>1. /\ pc[q] = "load" /\ Busy(q) /\ Changes(q) /\ ctx[q] = j.by /\ j \in Jobs
  BY CallAt DEF Load, At
<1>2. j.id \in Ids /\ ctx[q].type = "owner"
  BY <1>1, OwnerCalls DEF Changes
<1>3. CASE Fail(q)
  BY <1>3, FailedRight
<1>4. CASE ~Fail(q)
  <2>1. /\ Found(q, j.id) /\ Remember(q, Model(q)) /\ rows' = rows
        /\ "kids" \in j.patch => KnownKids(q, kids)
        /\ Moves(q, AfterLoad(q)) /\ seen'[q] = kids /\ buried'[q] = buried[q]
    BY <1>4 DEF Load, Quiet, Moves, IInv, TypeOK
  <2>2. Mine(q, j.id)
    BY <1>2, <2>1, TenantRows DEF Found, Live, Exists, IInv, RequestRight
  <2>3. CachesRight(q)'
    BY <2>1, RememberedRight DEF Moves
  <2>4. Loaded(q)'
    BY <1>2, <2>1, <2>2 DEF Moves, Loaded, Mine, Exists, OwnerOf, BusinessOf, BusinessIn
  <2>5. SeenRight(q)'
    <3>1. ASSUME NEW y \in kids PROVE Exists(y) /\ rows[y].up = j.id /\ ModelOf[y] \in ChildOnly
      BY DEF LiveChildren, Children, ChildModel, Exists, Of, ChildOnly, ChildParent
    <3>2. \A y \in buried[q] : Exists(y) /\ rows[y].up = j.id /\ ModelOf[y] \in ChildOnly
      BY <1>1 DEF IInv, RequestRight, SeenRight, Changes
    <3> QED BY <2>1, <3>1, <3>2 DEF Moves, SeenRight, Exists
  <2>6. (KidsSeen(q) /\ NewFree(q))'
    BY <1>1, <2>1 DEF Moves, KidsSeen, KnownKids, NewFree, IInv, RequestRight, Exists, Busy
  <2>7. /\ j.kind = "links" => AfterLoad(q) = "groups"
        /\ j.kind = "remove" => AfterLoad(q) = IF j.id \in Sold THEN "before" ELSE "delete"
        /\ j.kind = "update" =>
             \/ AfterLoad(q) = "before" /\ ModelOf[j.id] # "product"
             \/ AfterLoad(q) = "category" /\ ModelOf[j.id] = "product"
             \/ AfterLoad(q) = "unique" /\ ModelOf[j.id] = "product" /\ "ref" \notin j.patch
    BY DEF AfterLoad, Model
  <2>8. OnCourse(q)'
    BY <1>1, <1>2, <2>1, <2>7 DEF Moves, OnCourse, Busy, Changes, Products, Of
  <2>9. RefChecked(q)'
    <3>1. "ref" \in j.patch => j.kind = "update"
      BY <1>1, SubmissionsAssumption
    <3> QED BY <1>1, <2>1, <2>7, <3>1 DEF Moves, RefChecked, TakesRef, Changes, Products, Of
  <2>10. AfterLoad(q) \in {"groups", "before", "delete", "category", "unique"}
    BY <1>1, <2>7 DEF Changes
  <2>11. (GroupsChecked(q) /\ Policed(q) /\ Locked(q) /\ HasRoom(q))'
    BY <2>1, <2>7, <2>10 DEF Moves, GroupsChecked, Policed, Locked, HasRoom
  <2> QED BY <2>3, <2>4, <2>5, <2>6, <2>8, <2>9, <2>11 DEF RequestRight
<1> QED BY <1>3, <1>4

LEMMA BeforeRight ==
  ASSUME IInv, NEW q \in Reqs, Before(q)
  PROVE  RequestRight(q)'
<1>1. pc[q] = "before" /\ Busy(q)
  BY CallAt DEF Before, At
<1>2. ASSUME Moves(q, "update") PROVE Checked(q)'
  <2>1. OnCourse(q)'
    BY <1>1, <1>2 DEF Moves, OnCourse, Busy, IInv, RequestRight
  <2>2. (GroupsChecked(q) /\ RefChecked(q))'
    BY <1>1, <1>2 DEF Moves, GroupsChecked, RefChecked, TakesRef, Home, Exists, Busy, IInv, RequestRight
  <2>3. (Policed(q) /\ Locked(q) /\ HasRoom(q))'
    BY <1>2 DEF Moves, Policed, Locked, HasRoom
  <2> QED BY <2>1, <2>2, <2>3 DEF Checked
<1> QED BY <1>1, <1>2, ReadThenRight DEF Before

LEMMA GroupsRight ==
  ASSUME IInv, NEW q \in Reqs, Groups(q)
  PROVE  RequestRight(q)'
<1>1. pc[q] = "groups" /\ Busy(q) /\ job[q].kind = "links" /\ ctx[q] = job[q].by /\ job[q] \in Jobs
  BY CallAt DEF Groups, At
<1>2. ASSUME \A g \in job[q].groups : g \in ModifierGroups /\ Found(q, g) /\ rows[g].up = Home(q),
             Moves(q, "joins")
      PROVE  Checked(q)'
  <2>1. OnCourse(q)'
    BY <1>1, <1>2 DEF Moves, OnCourse, Busy
  <2>2. GroupsChecked(q)'
    BY <1>1, <1>2 DEF Moves, GroupsChecked, Found, Live, Exists, Home
  <2>3. (RefChecked(q) /\ Policed(q) /\ Locked(q) /\ HasRoom(q))'
    BY <1>2 DEF Moves, RefChecked, Policed, Locked, HasRoom
  <2> QED BY <2>1, <2>2, <2>3 DEF Checked
<1> QED BY <1>1, <1>2, ReadThenRight DEF Groups

LEMMA ReadJoinsRight ==
  ASSUME IInv, NEW q \in Reqs, ReadJoins(q)
  PROVE  RequestRight(q)'
<1> DEFINE j == job[q]
           joins == Children(j.id, "productModifierGroup")
<1>1. pc[q] = "joins" /\ Busy(q) /\ j.kind = "links" /\ ctx[q] = j.by /\ j \in Jobs
  BY CallAt DEF ReadJoins, At
<1>2. /\ Moves(q, "before") /\ seen'[q] \cup buried'[q] \subseteq joins
      /\ known'[q] = known[q] /\ bizCache'[q] = bizCache[q] /\ brCache'[q] = brCache[q]
  BY DEF ReadJoins, Moves, Quiet, cacheVars, IInv, TypeOK
<1>3. "kids" \notin j.patch /\ "ref" \notin j.patch
  BY <1>1, SubmissionsAssumption
<1>4. (NewFree(q) /\ Loaded(q))'
  BY <1>1, <1>2, MovedRight
<1>5. (SeenRight(q) /\ KidsSeen(q))'
  BY <1>1, <1>2, <1>3 DEF Moves, SeenRight, KidsSeen, Children, Exists, Of, ChildOnly, ChildParent
<1>6. CachesRight(q)'
  BY <1>2 DEF Moves, CachesRight, Mine, Exists, OwnerOf, BusinessOf, BusinessIn, IInv, RequestRight
<1>7. OnCourse(q)'
  BY <1>1, <1>2 DEF Moves, OnCourse, Busy
<1>8. (GroupsChecked(q) /\ RefChecked(q))'
  BY <1>1, <1>2, <1>3 DEF Moves, GroupsChecked, RefChecked, TakesRef, Exists, Busy, IInv, RequestRight
<1>9. (Policed(q) /\ Locked(q) /\ HasRoom(q))'
  BY <1>2 DEF Moves, Policed, Locked, HasRoom
<1> QED BY <1>4, <1>5, <1>6, <1>7, <1>8, <1>9 DEF RequestRight

LEMMA ReadDeleteRight ==
  ASSUME IInv, NEW q \in Reqs, ReadDelete(q)
  PROVE  RequestRight(q)'
<1>1. /\ pc[q] = "delete" /\ Busy(q) /\ job[q].kind = "remove" /\ job[q].id \notin Sold
      /\ ctx[q] = job[q].by
  BY CallAt DEF ReadDelete, At
<1>2. ASSUME Moves(q, "bury") PROVE Checked(q)'
  BY <1>1, <1>2 DEF Moves, OnCourse, Busy, GroupsChecked, RefChecked, Policed, Locked, HasRoom, Checked
<1> QED BY <1>1, <1>2, ReadThenRight DEF ReadDelete

LEMMA LockRight ==
  ASSUME IInv, NEW q \in Reqs, LockOwner(q)
  PROVE  RequestRight(q)'
<1>1. /\ pc[q] = "lock" /\ Busy(q) /\ job[q].kind = "create" /\ ModelOf[job[q].id] = "business"
      /\ ctx[q] = job[q].by /\ job[q] \in Jobs
  BY CallAt DEF LockOwner, At
<1>2. ctx[q].owner \in Owners
  BY <1>1, OwnerCalls
<1>3. Moves(q, "count") /\ KeepsSeen(q) /\ UNCHANGED cacheVars /\ ownerLock'[ctx[q].owner] = q
  BY <1>2 DEF LockOwner, Go, Moves, KeepsSeen, IInv, TypeOK
<1>4. (Loaded(q) /\ SeenRight(q) /\ KidsSeen(q) /\ NewFree(q))'
  BY <1>1, <1>3, MovedRight
<1>5. CachesRight(q)'
  BY <1>3 DEF Moves, cacheVars, CachesRight, Mine, Exists, OwnerOf, BusinessOf, BusinessIn, IInv,
    RequestRight
<1>6. OnCourse(q)'
  BY <1>1, <1>3 DEF Moves, OnCourse, Busy
<1>7. (GroupsChecked(q) /\ RefChecked(q) /\ Policed(q) /\ HasRoom(q) /\ Locked(q))'
  BY <1>1, <1>3 DEF Moves, GroupsChecked, RefChecked, Policed, HasRoom, Locked
<1> QED BY <1>4, <1>5, <1>6, <1>7 DEF RequestRight

LEMMA CountRight ==
  ASSUME IInv, NEW q \in Reqs, CountBusinesses(q)
  PROVE  RequestRight(q)'
<1>1. /\ pc[q] = "count" /\ Busy(q) /\ job[q].kind = "create" /\ ModelOf[job[q].id] = "business"
      /\ ctx[q] = job[q].by
  BY CallAt DEF CountBusinesses, At
<1>2. CASE Fail(q)
  BY <1>2, FailedRight
<1>3. CASE ~Fail(q)
  <2>1. /\ Moves(q, "found") /\ KeepsSeen(q) /\ UNCHANGED cacheVars /\ UNCHANGED ownerVars
        /\ UnderCap(q)
    BY <1>3 DEF CountBusinesses, Go, Quiet, Moves, KeepsSeen, IInv, TypeOK
  <2>2. (Loaded(q) /\ SeenRight(q) /\ KidsSeen(q) /\ NewFree(q))'
    BY <1>1, <2>1, MovedRight
  <2>3. CachesRight(q)'
    BY <2>1 DEF Moves, cacheVars, CachesRight, Mine, Exists, OwnerOf, BusinessOf, BusinessIn, IInv,
      RequestRight
  <2>4. OnCourse(q)'
    BY <1>1, <2>1 DEF Moves, OnCourse, Busy
  <2>5. (GroupsChecked(q) /\ RefChecked(q) /\ Policed(q))'
    BY <1>1, <2>1 DEF Moves, GroupsChecked, RefChecked, Policed
  <2>6. Locked(q)'
    BY <1>1, <2>1 DEF Moves, ownerVars, Locked, IInv, RequestRight
  <2>7. HasRoom(q)'
    BY <2>1 DEF Moves, ownerVars, HasRoom, UnderCap, Counted, LiveBusinesses, Live
  <2> QED BY <2>2, <2>3, <2>4, <2>5, <2>6, <2>7 DEF RequestRight
<1> QED BY <1>2, <1>3

LEMMA MaxRight ==
  ASSUME IInv, NEW q \in Reqs, SetMax(q)
  PROVE  RequestRight(q)'
<1>1. pc[q] = "max" /\ Busy(q) /\ job[q].kind = "setMax" /\ ctx[q] = job[q].by
  BY CallAt DEF SetMax, At
<1>2. Moves(q, "maxLog") /\ KeepsSeen(q) /\ UNCHANGED cacheVars
  BY DEF SetMax, Go, Moves, KeepsSeen, IInv, TypeOK
<1>3. (Loaded(q) /\ SeenRight(q) /\ KidsSeen(q) /\ NewFree(q))'
  BY <1>1, <1>2, MovedRight
<1>4. CachesRight(q)'
  BY <1>2 DEF Moves, cacheVars, CachesRight, Mine, Exists, OwnerOf, BusinessOf, BusinessIn, IInv,
    RequestRight
<1>5. OnCourse(q)'
  BY <1>1, <1>2 DEF Moves, OnCourse, Busy
<1>6. (GroupsChecked(q) /\ RefChecked(q) /\ Policed(q) /\ Locked(q) /\ HasRoom(q))'
  BY <1>2 DEF Moves, GroupsChecked, RefChecked, Policed, Locked, HasRoom
<1> QED BY <1>3, <1>4, <1>5, <1>6 DEF RequestRight

LEMMA PullRight ==
  ASSUME IInv, NEW q \in Reqs, Pull(q) \/ PullProducts(q)
  PROVE  RequestRight(q)'
<1>1. /\ pc[q] \in {"pull", "products"} /\ Busy(q) /\ job[q].kind = "pull" /\ ctx[q] = job[q].by
      /\ job[q] \in Jobs
  BY CallAt DEF Pull, PullProducts, At
<1>2. ASSUME NEW next \in {"products", "pullGroups"}, Moves(q, next) PROVE Checked(q)'
  <2>1. OnCourse(q)'
    BY <1>1, <1>2 DEF Moves, OnCourse, Busy
  <2>2. (GroupsChecked(q) /\ RefChecked(q) /\ Policed(q) /\ Locked(q) /\ HasRoom(q))'
    BY <1>2 DEF Moves, GroupsChecked, RefChecked, Policed, Locked, HasRoom
  <2> QED BY <2>1, <2>2 DEF Checked
<1>3. CASE Pull(q)
  BY <1>1, <1>2, <1>3, ReadThenRight DEF Pull
<1>4. CASE PullProducts(q)
  <2>1. Moves(q, "pullGroups") /\ Remember(q, "product")
    BY <1>4 DEF PullProducts, Quiet, Moves, IInv, TypeOK
  <2>2. CachesRight(q)'
    BY <2>1, RememberedRight DEF Moves
  <2>3. "kids" \notin job[q].patch
    BY <1>1, SubmissionsAssumption
  <2>4. (NewFree(q) /\ Loaded(q))'
    BY <1>1, <2>1, MovedRight
  <2>5. (SeenRight(q) /\ KidsSeen(q))'
    BY <1>1, <2>1, <2>3 DEF Moves, SeenRight, KidsSeen
  <2> QED BY <1>2, <2>1, <2>2, <2>4, <2>5 DEF Checked, RequestRight
<1> QED BY <1>3, <1>4

LEMMA SelfRight ==
  ASSUME IInv, NEW q \in Reqs, Step(q)
  PROVE  RequestRight(q)'
<1>1. CASE \E j \in offered : Begin(q, j)
  BY <1>1, BegunRight
<1>2. CASE Insert(q) \/ Update(q) \/ UpdateJoins(q) \/ Bury(q) \/ InsertBusiness(q)
  BY <1>2, ForgottenRight
  DEF Insert, Update, UpdateJoins, Bury, InsertBusiness, Commit, Fail, Leave, IInv
<1>3. CASE Abort(q) \/ LogMax(q) \/ PullGroups(q)
  BY <1>3, ForgottenRight DEF Abort, Fail, LogMax, PullGroups, Leave, IInv
<1>4. CASE Own(q) \/ Load(q) \/ Category(q) \/ Unique(q) \/ Police(q) \/ Before(q) \/ Groups(q)
           \/ ReadJoins(q) \/ ReadDelete(q)
  BY <1>4, OwnRight, LoadRight, CategoryRight, UniqueRight, PoliceRight, BeforeRight, GroupsRight,
    ReadJoinsRight, ReadDeleteRight
<1>5. CASE LockOwner(q) \/ CountBusinesses(q) \/ SetMax(q) \/ Pull(q) \/ PullProducts(q)
  BY <1>5, LockRight, CountRight, MaxRight, PullRight
<1> QED BY <1>1, <1>2, <1>3, <1>4, <1>5 DEF Step

----------------------------------------------------------------------------
(* The audit rows of a write: the row the call is about has one; a change of   *)
(* another row is a child's, or has its own.                                 *)
Ops == {"create", "update", "delete"}
Appended(q, L, op) == audit' = audit \cup {AuditOf(q, x, rows'[x], op[x]) : x \in L}
Entries(L, op) ==
  \A x \in L :
    /\ x \in Ids /\ op[x] \in Ops /\ rows'[x] \in Row /\ rows'[x].up \in UpRange(x)
    /\ ModelOf[x] \in BranchScoped => Exists(rows'[x].up)
Covered(q, L, op) ==
  \A x \in Ids : rows'[x] # rows[x] =>
    \/ x \in L /\ op[x] = Change(x)
    \/ /\ ModelOf[x] \in ChildOnly /\ rows'[x].up = job[q].id
       /\ job[q].id \in L /\ op[job[q].id] \in {"create", "update"}
LoggedAs(q, L, op) == Appended(q, L, op) /\ Entries(L, op) /\ Covered(q, L, op)
Logged(q) == \E L \in SUBSET Ids : \E op \in [L -> Ops] : LoggedAs(q, L, op)

(* A row that stays keeps a place to hang.                                    *)
LEMMA StayingHangs ==
  ASSUME IInv, NEW q \in Reqs, Writes(q), NEW x \in Ids, Exists(x)
  PROVE  /\ rows'[x] \in Row /\ rows'[x].up \in UpRange(x)
         /\ ModelOf[x] \in BranchScoped => Exists(rows'[x].up)
BY RowsStay DEF IInv, RowsRight, Writes, BranchScoped

LEMMA InsertLogged ==
  ASSUME IInv, NEW q \in Reqs, Insert(q)
  PROVE  Fail(q) \/ Logged(q)
<1> DEFINE j == job[q]
           x == job[q].id
           kids == KidRows(q, x)
           after == [y \in {x} \cup DOMAIN kids |->
                       IF y = x THEN NewRow(j.up, j.ref, j.sku) ELSE kids[y]]
           log == [y \in {x} |-> "create"]
<1>1. /\ pc[q] = "insert" /\ j \in Jobs /\ Busy(q) /\ j.kind = "create"
      /\ ModelOf[x] # "business"
  BY CallAt DEF Insert, At
<1>2. x \in Ids /\ j.up \in UpRange(x) /\ Mine(q, j.up) /\ ~Exists(x)
  BY <1>1, OwnerCalls, SubmissionsAssumption DEF IInv, RequestRight, Policed, NewFree, NewIds
<1>3. CASE ~Fail(q)
  <2>1. Mutate(q, after, log)
    BY <1>3 DEF Insert, Commit
  <2>2. rows' = [y \in Ids |-> IF y \in DOMAIN after THEN after[y] ELSE rows[y]]
    BY <2>1 DEF Mutate
  <2>3. rows'[x] = NewRow(j.up, j.ref, j.sku) /\ rows'[x] = after[x]
    BY <1>2, <2>2
  <2>4. audit' = audit \cup {AuditOf(q, y, rows'[y], log[y]) : y \in {x}}
    <3>1. audit' = audit \cup {AuditOf(q, y, after[y], log[y]) : y \in {x}}
      BY <2>1 DEF Mutate
    <3> QED BY <2>3, <3>1
  <2>5. rows'[x] \in Row
    BY <1>2, InsertWrites DEF Writes
  <2>6. Change(x) = "create"
    BY <1>2 DEF Change, Exists
  <2>7. ASSUME NEW y \in Ids, y # x, rows'[y] # rows[y]
        PROVE  ModelOf[y] \in ChildOnly /\ rows'[y].up = x
    <3>1. y \in DOMAIN kids /\ rows'[y] = kids[y]
      BY <2>2, <2>7
    <3> QED BY <1>1, <3>1, KidRowsRight
  <2>8. LoggedAs(q, {x}, log)
    BY <1>2, <2>3, <2>4, <2>5, <2>6, <2>7
    DEF LoggedAs, Appended, Entries, Covered, Ops, NewRow, Mine
  <2>9. {x} \in SUBSET Ids /\ log \in [{x} -> Ops]
    BY <1>2 DEF Ops
  <2> QED BY <2>8, <2>9 DEF Logged
<1> QED BY <1>3

LEMMA UpdateLogged ==
  ASSUME IInv, NEW q \in Reqs, Update(q)
  PROVE  Fail(q) \/ Logged(q)
<1> DEFINE j == job[q]
           x == job[q].id
           ups == KidUpdates(q)
           drops == KidDrops(q)
           adds == KidRows(q, x)
           after == [y \in {x} \cup DOMAIN ups \cup drops \cup DOMAIN adds |->
                       IF y = x THEN Patched(q)
                       ELSE IF y \in DOMAIN ups THEN ups[y]
                       ELSE IF y \in drops THEN rewriteNestedWrites(drops)[y] ELSE adds[y]]
           L == {x} \cup DOMAIN ups \cup drops
           log == auditNested({x} \cup DOMAIN ups, drops)
<1>1. /\ pc[q] = "update" /\ j \in Jobs /\ Busy(q) /\ Changes(q)
  BY CallAt DEF Update, At
<1>2. Mine(q, x) /\ x \in Ids /\ Exists(x) /\ rows[x] \in Row
  BY <1>1 DEF IInv, RequestRight, Loaded, TypeOK, Mine
<1>3. \A y \in DOMAIN ups \cup drops :
        y \in Ids /\ Exists(y) /\ ModelOf[y] \in ChildOnly /\ rows[y].up = x
  <2>1. \A y \in DOMAIN ups \cup drops : y \in seen[q]
    <3>1. ASSUME NEW k \in j.kids, ~k.fresh PROVE k.id \in seen[q]
      <4>1. "kids" \in j.patch
        BY <1>1, <3>1, SubmissionsAssumption DEF Changes
      <4> QED BY <1>1, <3>1, <4>1 DEF IInv, RequestRight, KidsSeen, KnownKids
    <3> QED BY <3>1 DEF KidUpdates, KidDrops
  <2> QED BY <1>1, <2>1, OwnChildren DEF IInv, TypeOK
<1>4. CASE ~Fail(q)
  <2>1. Mutate(q, after, log)
    BY <1>4 DEF Update, Commit
  <2>2. rows' = [y \in Ids |-> IF y \in DOMAIN after THEN after[y] ELSE rows[y]]
    BY <2>1 DEF Mutate
  <2>3. L \subseteq Ids /\ DOMAIN log = L /\ log \in [L -> Ops]
    BY <1>2, <1>3 DEF auditNested, Ops
  <2>4. \A y \in L : rows'[y] = after[y]
    BY <2>2, <2>3
  <2>5. audit' = audit \cup {AuditOf(q, y, rows'[y], log[y]) : y \in L}
    <3>1. audit' = audit \cup {AuditOf(q, y, after[y], log[y]) : y \in L}
      BY <2>1, <2>3 DEF Mutate
    <3> HIDE DEF after, L, log
    <3>2. \A y \in L : AuditOf(q, y, after[y], log[y]) = AuditOf(q, y, rows'[y], log[y])
      BY <2>4
    <3> QED BY <3>1, <3>2
  <2>6. \A y \in L :
          /\ y \in Ids /\ log[y] \in Ops /\ rows'[y] \in Row /\ rows'[y].up \in UpRange(y)
          /\ ModelOf[y] \in BranchScoped => Exists(rows'[y].up)
    BY <1>2, <1>3, <2>3, UpdateWrites, StayingHangs
  <2>7. log[x] = "update"
    <3>1. x \notin drops
      <4>1. ASSUME ModelOf[x] \in ChildOnly, rows[x].up = x PROVE FALSE
        <5>1. x \in Of(ChildParent[ModelOf[x]]) /\ ChildParent[ModelOf[x]] \in {"product", "modifierGroup"}
          BY <1>2, <4>1, ChildTables DEF IInv, RowsRight
        <5> QED BY <4>1, <5>1, ChildTables DEF Of, BusinessScoped
      <4> QED BY <1>3, <4>1
    <3> QED BY <3>1 DEF auditNested
  <2>8. rows'[x] # rows[x] => Change(x) = "update"
    <3>1. rows'[x].st = rows[x].st
      BY <1>2, <2>4 DEF Patched, Row
    <3> QED BY <1>2, <3>1 DEF Change, Exists
  <2>9. ASSUME NEW y \in Ids, y # x, rows'[y] # rows[y]
        PROVE  ModelOf[y] \in ChildOnly /\ rows'[y].up = x
    <3>1. CASE y \in DOMAIN ups \cup drops
      BY <1>3, <3>1, RowsStay, UpdateWrites DEF IInv
    <3>2. CASE y \notin DOMAIN ups \cup drops
      <4>1. y \in DOMAIN adds /\ rows'[y] = adds[y]
        BY <2>2, <2>9, <3>2
      <4> QED BY <1>1, <4>1, KidRowsRight
    <3> QED BY <3>1, <3>2
  <2>10. LoggedAs(q, L, log)
    <3>1. x \in L
      OBVIOUS
    <3> HIDE DEF L, log
    <3>2. Appended(q, L, log)
      BY <2>5 DEF Appended
    <3>3. Entries(L, log)
      BY <2>6 DEF Entries
    <3>4. Covered(q, L, log)
      BY <2>7, <2>8, <2>9, <3>1 DEF Covered
    <3> QED BY <3>2, <3>3, <3>4 DEF LoggedAs
  <2> QED BY <2>3, <2>10 DEF Logged
<1> QED BY <1>4

LEMMA JoinsLogged ==
  ASSUME IInv, NEW q \in Reqs, UpdateJoins(q)
  PROVE  Fail(q) \/ Logged(q)
<1> DEFINE j == job[q]
           x == job[q].id
           adds == JoinAdds(q)
           drops == JoinDrops(q)
           touched == adds \cup JoinBacks(q) \cup drops
           after == [y \in {x} \cup touched |->
                       IF y = x THEN rows[x]
                       ELSE IF y \in adds THEN NewRow(x, GroupOfJoin(y), NoSku)
                       ELSE Restate(y, IF y \in JoinBacks(q) THEN "live" ELSE "gone")]
           L == {x} \cup drops
           log == auditNested({x}, drops)
<1>1. /\ pc[q] = "update" /\ j \in Jobs /\ Busy(q) /\ j.kind = "links" /\ Changes(q)
      /\ x \in Products
  BY CallAt, SubmissionsAssumption DEF UpdateJoins, At
<1>2. Mine(q, x) /\ x \in Ids /\ Exists(x)
  BY <1>1 DEF IInv, RequestRight, Loaded, Mine
<1>3. \A y \in JoinBacks(q) \cup drops :
        y \in Ids /\ Exists(y) /\ ModelOf[y] \in ChildOnly /\ rows[y].up = x
  <2>1. JoinBacks(q) \cup drops \subseteq seen[q] \cup buried[q]
    BY DEF JoinBacks, JoinDrops
  <2> QED BY <1>1, <2>1, OwnChildren DEF IInv, TypeOK
<1>4. CASE ~Fail(q)
  <2>1. Mutate(q, after, log)
    BY <1>4 DEF UpdateJoins
  <2>2. rows' = [y \in Ids |-> IF y \in DOMAIN after THEN after[y] ELSE rows[y]]
    BY <2>1 DEF Mutate
  <2>3. L \subseteq Ids /\ DOMAIN log = L /\ log \in [L -> Ops]
    BY <1>2, <1>3 DEF auditNested, Ops
  <2>4. \A y \in L : rows'[y] = after[y]
    BY <2>2, <2>3
  <2>5. Appended(q, L, log)
    <3>1. audit' = audit \cup {AuditOf(q, y, after[y], log[y]) : y \in L}
      BY <2>1, <2>3 DEF Mutate
    <3> HIDE DEF after, L, log
    <3>2. \A y \in L : AuditOf(q, y, after[y], log[y]) = AuditOf(q, y, rows'[y], log[y])
      BY <2>4
    <3> QED BY <3>1, <3>2 DEF Appended
  <2>6. Entries(L, log)
    BY <1>2, <1>3, <2>3, JoinsWrites, StayingHangs DEF Entries
  <2>7. log[x] \in {"create", "update"}
    <3>1. x \notin drops
      BY <1>1, <1>3, ChildTables DEF Products, Of, BusinessScoped
    <3> QED BY <3>1 DEF auditNested
  <2>8. rows'[x] = rows[x]
    BY <2>4
  <2>9. ASSUME NEW y \in Ids, y # x, rows'[y] # rows[y]
        PROVE  ModelOf[y] \in ChildOnly /\ rows'[y].up = x
    <3>1. CASE y \in JoinBacks(q) \cup drops
      BY <1>3, <3>1, RowsStay, JoinsWrites DEF IInv
    <3>2. CASE y \notin JoinBacks(q) \cup drops
      <4>1. y \in adds /\ rows'[y] = NewRow(x, GroupOfJoin(y), NoSku)
        BY <2>2, <2>9, <3>2
      <4>2. PICK g \in j.groups : y = LinkOf[x, g]
        BY <4>1 DEF JoinAdds, WantedJoins
      <4>3. g \in ModifierGroups
        BY <1>1 DEF IInv, RequestRight, GroupsChecked
      <4>4. ModelOf[y] = "productModifierGroup"
        BY <1>1, <4>2, <4>3, JoinNamesGroup
      <4> QED BY <4>1, <4>4 DEF NewRow, ChildOnly, ChildParent
    <3> QED BY <3>1, <3>2
  <2>10. Covered(q, L, log)
    <3>1. x \in L
      OBVIOUS
    <3> HIDE DEF L, log
    <3> QED BY <2>7, <2>8, <2>9, <3>1 DEF Covered
  <2>11. LoggedAs(q, L, log)
    BY <2>5, <2>6, <2>10 DEF LoggedAs
  <2> QED BY <2>3, <2>11 DEF Logged
<1> QED BY <1>4

LEMMA BuryLogged ==
  ASSUME IInv, NEW q \in Reqs, Bury(q)
  PROVE  Fail(q) \/ Logged(q)
<1> DEFINE x == job[q].id
           log == [y \in {x} |-> "delete"]
<1>1. pc[q] = "bury" /\ Busy(q) /\ Changes(q)
  BY CallAt DEF Bury, At, Changes
<1>2. Mine(q, x) /\ x \in Ids /\ Exists(x) /\ rows[x] \in Row
  BY <1>1 DEF IInv, RequestRight, Loaded, Mine, TypeOK
<1>3. CASE ~Fail(q)
  <2>1. Mutate(q, [y \in {x} |-> Restate(y, "gone")], log)
    BY <1>3 DEF Bury, Commit
  <2>2. rows' = [y \in Ids |-> IF y = x THEN Restate(x, "gone") ELSE rows[y]]
    BY <2>1 DEF Mutate
  <2>3. rows'[x] = Restate(x, "gone")
    BY <1>2, <2>2
  <2>4. Appended(q, {x}, log)
    BY <2>1, <2>3 DEF Mutate, Appended
  <2>5. Entries({x}, log)
    BY <1>2, BuryWrites, StayingHangs DEF Entries, Ops
  <2>6. rows'[x] # rows[x] => Change(x) = "delete"
    <3>1. rows'[x].st = "gone" /\ (rows[x].st = "gone" => rows'[x] = rows[x])
      BY <1>2, <2>3 DEF Restate, Row
    <3> QED BY <1>2, <3>1 DEF Change, Exists, Row
  <2>7. Covered(q, {x}, log)
    BY <2>2, <2>6 DEF Covered
  <2>8. {x} \in SUBSET Ids /\ log \in [{x} -> Ops]
    BY <1>2 DEF Ops
  <2> QED BY <2>4, <2>5, <2>7, <2>8 DEF Logged, LoggedAs
<1> QED BY <1>3

LEMMA BusinessLogged ==
  ASSUME IInv, NEW q \in Reqs, InsertBusiness(q)
  PROVE  Fail(q) \/ Logged(q)
<1> DEFINE x == job[q].id
           log == [y \in {x} |-> "create"]
<1>1. /\ pc[q] = "found" /\ Busy(q) /\ job[q] \in Jobs /\ job[q].kind = "create"
      /\ ModelOf[x] = "business" /\ ctx[q] = job[q].by
  BY CallAt DEF InsertBusiness, At
<1>2. x \in Ids /\ ctx[q].owner \in Owners /\ ~Exists(x)
  BY <1>1, OwnerCalls DEF IInv, RequestRight, NewFree, NewIds
<1>3. CASE ~Fail(q)
  <2>1. Mutate(q, [y \in {x} |-> NewRow(ctx[q].owner, NoId, NoSku)], log)
    BY <1>3 DEF InsertBusiness, Commit
  <2>2. rows' = [y \in Ids |-> IF y = x THEN NewRow(ctx[q].owner, NoId, NoSku) ELSE rows[y]]
    BY <2>1 DEF Mutate
  <2>3. rows'[x] = NewRow(ctx[q].owner, NoId, NoSku)
    BY <1>2, <2>2
  <2>4. Appended(q, {x}, log)
    BY <2>1, <2>3 DEF Mutate, Appended
  <2>5. Entries({x}, log)
    BY <1>1, <1>2, <2>3, BusinessWrites DEF Entries, Ops, Writes, NewRow, UpRange, BranchScoped
  <2>6. Change(x) = "create"
    BY <1>2 DEF Change, Exists
  <2>7. Covered(q, {x}, log)
    BY <2>2, <2>6 DEF Covered
  <2>8. {x} \in SUBSET Ids /\ log \in [{x} -> Ops]
    BY <1>2 DEF Ops
  <2> QED BY <2>4, <2>5, <2>7, <2>8 DEF Logged, LoggedAs
<1> QED BY <1>3

LEMMA StepLogged ==
  ASSUME IInv, NEW q \in Reqs, Step(q)
  PROVE  UNCHANGED <<rows, audit>> \/ Logged(q) \/ LogMax(q)
<1>1. CASE Insert(q) \/ Update(q) \/ UpdateJoins(q) \/ Bury(q) \/ InsertBusiness(q)
  BY <1>1, InsertLogged, UpdateLogged, JoinsLogged, BuryLogged, BusinessLogged DEF Fail
<1>2. CASE (\E j \in offered : Begin(q, j)) \/ Abort(q) \/ Own(q) \/ Load(q) \/ Category(q)
           \/ Unique(q) \/ Police(q) \/ Before(q) \/ Groups(q) \/ ReadJoins(q) \/ ReadDelete(q)
  BY <1>2 DEF Begin, Abort, Own, Load, Category, Unique, Police, Before, Groups, ReadJoins,
    ReadDelete, ReadThen, Quiet, Fail
<1>3. CASE LockOwner(q) \/ CountBusinesses(q) \/ SetMax(q) \/ LogMax(q) \/ Pull(q)
           \/ PullProducts(q) \/ PullGroups(q)
  BY <1>3 DEF LockOwner, CountBusinesses, SetMax, LogMax, Pull, PullProducts, PullGroups,
    ReadThen, Quiet, Fail
<1> QED BY <1>1, <1>2, <1>3 DEF Step

(* What an audit row says of its entity.                                      *)
LEMMA AuditRight ==
  ASSUME IInv, NEW q \in Reqs, NEW x \in Ids, NEW row \in Row, NEW op \in Ops,
         row.up \in UpRange(x), ModelOf[x] \in BranchScoped => Exists(row.up)
  PROVE  /\ AuditOf(q, x, row, op) \in AuditRow
         /\ ModelOf[x] = "business" => StampBusiness(q, x, row) = x
         /\ ModelOf[x] \in BusinessScoped => StampBusiness(q, x, row) = row.up
         /\ ModelOf[x] \in BranchScoped /\ ctx[q].biz = NoId
              => StampBusiness(q, x, row) = rows[row.up].up
<1>1. ctx[q] \in Context
  BY DEF IInv, TypeOK
<1>2. ModelOf[x] \in BusinessScoped => row.up \in Ids
  BY DEF UpRange, BusinessScoped, Businesses, Of
<1>3. ModelOf[x] \in BranchScoped => rows[row.up].up \in Ids
  <2>1. ModelOf[x] \in BranchScoped => row.up \in Ids /\ ModelOf[row.up] = "branch" /\ Exists(row.up)
    BY DEF UpRange, BranchScoped, BusinessScoped, Branches, Of
  <2>2. ModelOf[x] \in BranchScoped => rows[row.up].up \in Businesses
    BY <2>1 DEF IInv, RowsRight, UpRange, BusinessScoped
  <2> QED BY <2>2 DEF Businesses, Of
<1>4. StampBusiness(q, x, row) \in Ids \cup {NoId}
  BY <1>1, <1>2, <1>3 DEF StampBusiness, Context
<1>5. AuditOf(q, x, row, op) \in AuditRow
  BY <1>1, <1>4 DEF AuditOf, AuditRow, Context, Ops
<1>6. /\ ModelOf[x] \in BusinessScoped => ModelOf[x] # "business"
      /\ ModelOf[x] \in BranchScoped => ModelOf[x] \notin {"business"} \cup BusinessScoped
  BY DEF BusinessScoped, BranchScoped
<1> QED BY <1>5, <1>6 DEF StampBusiness

----------------------------------------------------------------------------
(* Types.  The tables and the log follow from what a write does; the rest,    *)
(* action by action.                                                         *)
DataOK == rows \in [Ids -> Row] /\ audit \subseteq AuditRow
CallsOK ==
  /\ pc \in [Reqs -> Pcs] /\ job \in [Reqs -> Jobs \cup {NoJob}] /\ ctx \in [Reqs -> Context]
  /\ seen \in [Reqs -> SUBSET Ids] /\ buried \in [Reqs -> SUBSET Ids] /\ offered \in Offers
PayloadOK == payload \in [Reqs -> [named : SUBSET Ids, groups : SUBSET Ids]]
ScopesOK ==
  /\ known \in [Reqs -> SUBSET {"biz", "br"}]
  /\ bizCache \in [Reqs -> SUBSET Businesses] /\ brCache \in [Reqs -> SUBSET Branches]
CapsOK == max \in [Owners -> Nat] /\ ownerLock \in [Owners -> Reqs \cup {NoReq}]

LEMMA TypeParts == TypeOK <=> DataOK /\ CallsOK /\ PayloadOK /\ ScopesOK /\ CapsOK
BY DEF TypeOK, DataOK, CallsOK, PayloadOK, ScopesOK, CapsOK

LEMMA TypedParts == (DataOK /\ CallsOK /\ PayloadOK /\ ScopesOK /\ CapsOK)' => TypeOK'
BY DEF TypeOK, DataOK, CallsOK, PayloadOK, ScopesOK, CapsOK

LEMMA DataTyped ==
  ASSUME IInv, NEW q \in Reqs, Step(q)
  PROVE  DataOK'
<1>1. rows' \in [Ids -> Row]
  BY StepWrites DEF Writes
<1>2. audit \subseteq AuditRow
  BY DEF IInv, TypeOK
<1>3. CASE UNCHANGED <<rows, audit>>
  BY <1>1, <1>2, <1>3 DEF DataOK
<1>4. CASE Logged(q)
  <2>1. PICK L \in SUBSET Ids : \E op \in [L -> Ops] : LoggedAs(q, L, op)
    BY <1>4 DEF Logged
  <2>2. PICK op \in [L -> Ops] : LoggedAs(q, L, op)
    BY <2>1
  <2>3. \A x \in L : AuditOf(q, x, rows'[x], op[x]) \in AuditRow
    <3> SUFFICES ASSUME NEW x \in L PROVE AuditOf(q, x, rows'[x], op[x]) \in AuditRow
      OBVIOUS
    <3>1. Entries(L, op)
      BY <2>2 DEF LoggedAs
    <3>2. /\ x \in Ids /\ op[x] \in Ops /\ rows'[x] \in Row /\ rows'[x].up \in UpRange(x)
          /\ ModelOf[x] \in BranchScoped => Exists(rows'[x].up)
      BY <3>1 DEF Entries
    <3> QED BY <3>2, AuditRight
  <2> QED BY <1>1, <1>2, <2>2, <2>3 DEF DataOK, LoggedAs, Appended
<1>5. CASE LogMax(q)
  <2>1. job[q].id \in Owners
    BY <1>5, CallAt, CapCalls DEF LogMax, At
  <2> QED BY <1>1, <1>2, <1>5, <2>1 DEF DataOK, LogMax, AuditRow
<1> QED BY <1>3, <1>4, <1>5, StepLogged

LEMMA ForgetTyped ==
  ASSUME CallsOK, ScopesOK, NEW q \in Reqs, Forget(q)
  PROVE  CallsOK' /\ ScopesOK'
BY DEF CallsOK, ScopesOK, Forget, Pcs, NoContext, Context

LEMMA LeaveTyped ==
  ASSUME IInv, NEW q \in Reqs, Leave(q)
  PROVE  CallsOK' /\ PayloadOK' /\ ScopesOK' /\ CapsOK'
<1>1. CallsOK' /\ ScopesOK'
  BY TypeParts, ForgetTyped DEF IInv, Leave
<1>2. PayloadOK' /\ CapsOK'
  BY DEF IInv, TypeOK, Leave, Unlocked, PayloadOK, CapsOK
<1> QED BY <1>1, <1>2

LEMMA GoTyped ==
  ASSUME IInv, NEW q \in Reqs, NEW STATE next, next \in Pcs, Go(q, next)
  PROVE  CallsOK' /\ PayloadOK'
BY DEF IInv, TypeOK, Go, CallsOK, PayloadOK

LEMMA RememberTyped ==
  ASSUME IInv, NEW q \in Reqs, NEW STATE m, Remember(q, m)
  PROVE  ScopesOK'
<1>1. Sets(q, m) \subseteq {"biz", "br"}
  BY DEF Sets
<1>2. AllowedBusinessIds(q) \subseteq Businesses /\ AllowedBranchIds(q) \subseteq Branches
  BY AllowedMine DEF IInv, RequestRight
<1> QED BY <1>1, <1>2 DEF IInv, TypeOK, Remember, ScopesOK

LEMMA ReadThenTyped ==
  ASSUME IInv, NEW q \in Reqs, NEW STATE m, NEW STATE ok, NEW STATE next, next \in Pcs,
         ReadThen(q, m, ok, next)
  PROVE  CallsOK' /\ PayloadOK' /\ ScopesOK' /\ CapsOK'
<1>1. CASE Fail(q)
  BY <1>1, LeaveTyped DEF Fail
<1>2. CASE Go(q, next) /\ Remember(q, m) /\ Quiet
  BY <1>2, GoTyped, RememberTyped DEF Quiet, ownerVars, CapsOK, IInv, TypeOK
<1> QED BY <1>1, <1>2 DEF ReadThen

LEMMA StepTyped ==
  ASSUME IInv, NEW q \in Reqs, Step(q)
  PROVE  TypeOK'
<1>1. CASE \E j \in offered : Begin(q, j)
  <2>1. PICK j \in offered : Begin(q, j)
    BY <1>1
  <2>2. j \in Jobs
    BY <2>1 DEF IInv, TypeOK, Jobs
  <2>3. First(j) \in Pcs
    BY <2>2, JobFields DEF First, Pcs
  <2>4. CallsOK'
    BY <2>1, <2>2, <2>3, JobFields DEF IInv, TypeOK, Begin, CallsOK
  <2>5. PayloadOK' /\ ScopesOK' /\ CapsOK'
    BY <2>1 DEF IInv, TypeOK, Begin, Quiet, cacheVars, ownerVars, PayloadOK, NoPayload, ScopesOK, CapsOK
  <2> QED BY <2>4, <2>5, DataTyped, TypedParts
<1>2. CASE Abort(q) \/ Insert(q) \/ Update(q) \/ UpdateJoins(q) \/ Bury(q) \/ InsertBusiness(q) \/ LogMax(q)
  BY <1>2, LeaveTyped, DataTyped, TypedParts
  DEF Abort, Insert, Update, UpdateJoins, Bury, InsertBusiness, LogMax, Commit, Fail
<1>3. CASE Own(q) \/ Category(q) \/ Unique(q) \/ Police(q) \/ Before(q) \/ Groups(q) \/ ReadDelete(q) \/ Pull(q)
  <2>1. CallsOK' /\ PayloadOK' /\ ScopesOK' /\ CapsOK'
    BY <1>3, ReadThenTyped DEF Own, Category, Unique, Police, Before, Groups, ReadDelete, Pull, Pcs
  <2> QED BY <2>1, DataTyped, TypedParts
<1>4. CASE Load(q)
  <2>1. CASE Fail(q)
    BY <2>1, LeaveTyped, DataTyped, TypedParts DEF Fail
  <2>2. CASE ~Fail(q)
    <3>1. AfterLoad(q) \in Pcs
      <4>1. job[q].kind \in {"update", "remove", "links"}
        BY <1>4, CallAt DEF Load, At, Changes
      <4> QED BY <4>1 DEF AfterLoad, Pcs
    <3>2. LiveChildren(job[q].id, ChildModel(q)) \subseteq Ids
      BY DEF LiveChildren, Children, Of
    <3>3. CallsOK' /\ PayloadOK'
      <4>1. /\ pc' = [pc EXCEPT ![q] = AfterLoad(q)]
            /\ seen' = [seen EXCEPT ![q] = LiveChildren(job[q].id, ChildModel(q))]
            /\ UNCHANGED <<job, ctx, buried, payload, offered>>
        BY <1>4, <2>2 DEF Load
      <4> QED BY <3>1, <3>2, <4>1 DEF IInv, TypeOK, CallsOK, PayloadOK
    <3>4. ScopesOK' /\ CapsOK'
      BY <1>4, <2>2, RememberTyped DEF Load, Quiet, ownerVars, CapsOK, IInv, TypeOK
    <3> QED BY <3>3, <3>4, DataTyped, TypedParts
  <2> QED BY <2>1, <2>2
<1>5. CASE ReadJoins(q)
  <2>1. Children(job[q].id, "productModifierGroup") \subseteq Ids
    BY DEF Children, Of
  <2>2. CallsOK' /\ PayloadOK' /\ ScopesOK' /\ CapsOK'
    BY <1>5, <2>1 DEF ReadJoins, Quiet, cacheVars, ownerVars, IInv, TypeOK, CallsOK, PayloadOK,
      ScopesOK, CapsOK, Pcs
  <2> QED BY <2>2, DataTyped, TypedParts
<1>6. CASE LockOwner(q) \/ SetMax(q)
  <2>1. job[q] \in Jobs => job[q].max \in Nat
    BY JobFields
  <2>2. CallsOK' /\ PayloadOK'
    BY <1>6, GoTyped DEF LockOwner, SetMax, Pcs
  <2>3. ScopesOK'
    BY <1>6 DEF LockOwner, SetMax, cacheVars, IInv, TypeOK, ScopesOK
  <2>4. CapsOK'
    BY <1>6, <2>1, CallAt DEF LockOwner, SetMax, At, IInv, TypeOK, CapsOK
  <2> QED BY <2>2, <2>3, <2>4, DataTyped, TypedParts
<1>7. CASE CountBusinesses(q)
  <2>1. CASE Fail(q)
    BY <2>1, LeaveTyped, DataTyped, TypedParts DEF Fail
  <2>2. CASE ~Fail(q)
    <3>1. CallsOK' /\ PayloadOK'
      BY <1>7, <2>2, GoTyped DEF CountBusinesses, Pcs
    <3>2. ScopesOK' /\ CapsOK'
      BY <1>7, <2>2 DEF CountBusinesses, Quiet, cacheVars, ownerVars, IInv, TypeOK, ScopesOK, CapsOK
    <3> QED BY <3>1, <3>2, DataTyped, TypedParts
  <2> QED BY <2>1, <2>2
<1>8. CASE PullProducts(q)
  <2>1. \A p : LiveChildren(p, "productModifierGroup") \subseteq Ids
    BY DEF LiveChildren, Children, Of
  <2>2. seen'[q] \subseteq Ids
    BY <1>8, <2>1 DEF PullProducts, IInv, TypeOK
  <2>3. CallsOK' /\ PayloadOK'
    BY <1>8, <2>2 DEF PullProducts, IInv, TypeOK, CallsOK, PayloadOK, Pcs
  <2>4. ScopesOK' /\ CapsOK'
    BY <1>8, RememberTyped DEF PullProducts, Quiet, ownerVars, CapsOK, IInv, TypeOK
  <2> QED BY <2>3, <2>4, DataTyped, TypedParts
<1>9. CASE PullGroups(q)
  <2>1. CallsOK' /\ ScopesOK'
    BY <1>9, TypeParts, ForgetTyped DEF PullGroups, IInv
  <2>2. PayloadOK' /\ CapsOK'
    BY <1>9 DEF PullGroups, Named, ModifierGroups, Of, Quiet, ownerVars, IInv, TypeOK, PayloadOK, CapsOK
  <2> QED BY <2>1, <2>2, DataTyped, TypedParts
<1> QED BY <1>1, <1>2, <1>3, <1>4, <1>5, <1>6, <1>7, <1>8, <1>9 DEF Step

----------------------------------------------------------------------------
(* The invariant is inductive.                                               *)
LEMMA InitHolds == Init => IInv
<1> SUFFICES ASSUME Init PROVE IInv
  OBVIOUS
<1>1. TypeOK
  BY InitRowsAssumption, JobsAssumption
  DEF Init, TypeOK, Pcs, NoContext, Context, NoPayload
<1>2. RowsRight /\ RefsSameBusiness
  BY InitRowsAssumption DEF Init, RowsRight, RefsSameBusiness, Exists, BusinessOf
<1>3. ASSUME NEW q \in Reqs PROVE RequestRight(q)
  BY <1>3 DEF Init, RequestRight, OnCourse, CachesRight, Loaded, SeenRight, KidsSeen, GroupsChecked,
    RefChecked, Policed, NewFree, Locked, HasRoom, Busy
<1>4. NewApart
  BY DEF Init, NewApart, Busy
<1> QED BY <1>1, <1>2, <1>3, <1>4 DEF IInv

LEMMA StepHolds ==
  ASSUME IInv, NEW q \in Reqs, Step(q)
  PROVE  IInv'
<1>1. TypeOK' /\ Writes(q) /\ TypeOK /\ RowsRight /\ RefsSameBusiness
  BY StepTyped, StepWrites DEF IInv
<1>2. RowsRight'
  <2> SUFFICES ASSUME NEW x \in Ids, rows'[x].st # "none"
               PROVE  /\ rows'[x].up \in UpRange(x)
                      /\ ModelOf[x] # "business" => rows'[rows'[x].up].st # "none"
    BY DEF RowsRight, Exists, UpRange, Of, Businesses, Branches
  <2>1. CASE rows'[x] # rows[x]
    BY <1>1, <2>1, ChangedRight DEF HangsRight
  <2>2. CASE rows'[x] = rows[x]
    <3>1. /\ rows[x].up \in UpRange(x)
          /\ ModelOf[x] # "business" => Exists(rows[x].up) /\ rows[x].up \in Ids
      BY <1>1, <2>2, IdsAssumption DEF RowsRight, Exists, UpRange, Businesses, Branches, Of
    <3> QED BY <1>1, <2>2, <3>1, RowsStay
  <2> QED BY <2>1, <2>2
<1>3. RefsSameBusiness'
  <2> SUFFICES ASSUME NEW x \in Ids, rows'[x].st # "none", rows'[x].ref # NoId
               PROVE  /\ rows'[rows'[x].ref].st # "none"
                      /\ BusinessIn(rows', rows'[x].ref) = BusinessIn(rows', x)
    BY DEF RefsSameBusiness, BusinessOf
  <2>1. CASE rows'[x] # rows[x]
    BY <1>1, <2>1, ChangedRight DEF HangsRight
  <2>2. CASE rows'[x] = rows[x]
    <3> DEFINE r == rows[x].ref
    <3>1. Exists(x) /\ r \in Ids /\ Exists(r) /\ BusinessOf(r) = BusinessOf(x)
      BY <1>1, <2>2 DEF RefsSameBusiness, Exists, TypeOK, Row
    <3>2. BusinessIn(rows', r) = BusinessOf(r) /\ BusinessIn(rows', x) = BusinessOf(x)
          /\ rows'[r].st # "none"
      BY <1>1, <3>1, RowsStay, OwnersStay DEF BusinessOf
    <3> QED BY <2>2, <3>1, <3>2
  <2> QED BY <2>1, <2>2
<1>4. NewApart'
  <2>1. ASSUME NEW p \in Reqs, p # q PROVE job'[p] = job[p]
    BY <2>1, StepApart DEF Apart
  <2>2. CASE \E j \in offered : Begin(q, j)
    <3>1. PICK j \in offered : Begin(q, j)
      BY <2>2
    <3>2. job'[q] = j /\ \A p \in Reqs : Busy(p) => NewIds(job[p]) \cap NewIds(j) = {}
      BY <3>1 DEF Begin, IInv, TypeOK, Busy
    <3> QED BY <2>1, <3>2 DEF IInv, NewApart, Busy
  <2>3. CASE job'[q] \in {job[q], NoJob}
    BY <2>1, <2>3 DEF IInv, NewApart, Busy
  <2>4. (\E j \in offered : Begin(q, j)) \/ job'[q] \in {job[q], NoJob}
    BY DEF Step, Abort, Own, Load, Category, Unique, Police, Insert, Before, Update, Groups, ReadJoins,
      UpdateJoins, ReadDelete, Bury, LockOwner, CountBusinesses, InsertBusiness, SetMax, LogMax, Pull,
      PullProducts, PullGroups, ReadThen, Go, Commit, Fail, Leave, Forget, IInv, TypeOK
  <2> QED BY <2>2, <2>3, <2>4
<1>5. ASSUME NEW p \in Reqs PROVE RequestRight(p)'
  BY <1>5, SelfRight, OthersRight
<1> QED BY <1>1, <1>2, <1>3, <1>4, <1>5 DEF IInv

LEMMA StutterHolds == IInv /\ UNCHANGED vars => IInv'
<1> SUFFICES ASSUME IInv, UNCHANGED vars PROVE IInv'
  OBVIOUS
<1> USE DEF vars, reqVars, cacheVars, ownerVars
<1>1. TypeOK'
  BY DEF IInv, TypeOK
<1>2. (RowsRight /\ RefsSameBusiness /\ NewApart)'
  BY DEF IInv, RowsRight, RefsSameBusiness, NewApart, Exists, BusinessOf, BusinessIn, Busy
<1>3. ASSUME NEW q \in Reqs PROVE RequestRight(q)'
  <2>1. RequestRight(q)
    BY DEF IInv
  <2>2. \A x : Mine(q, x)' <=> Mine(q, x)
    BY DEF Mine, Exists, OwnerOf, BusinessOf, BusinessIn
  <2>3. (OnCourse(q) /\ CachesRight(q) /\ Loaded(q) /\ SeenRight(q) /\ KidsSeen(q))'
    BY <2>1, <2>2 DEF RequestRight, OnCourse, CachesRight, Loaded, SeenRight, KidsSeen, KnownKids,
      Busy, Changes, Exists
  <2>4. (GroupsChecked(q) /\ RefChecked(q) /\ Policed(q) /\ NewFree(q) /\ Locked(q))'
    BY <2>1, <2>2 DEF RequestRight, GroupsChecked, RefChecked, TakesRef, Home, Policed, NewFree,
      Locked, Busy, Exists
  <2>5. HasRoom(q)'
    BY <2>1 DEF RequestRight, HasRoom, UnderCap, Counted, LiveBusinesses, Live
  <2> QED BY <2>3, <2>4, <2>5 DEF RequestRight
<1> QED BY <1>1, <1>2, <1>3 DEF IInv

(* Types, hanging rows and what every request knows, in every state.          *)
THEOREM PortalInvariant == Spec => []IInv
<1>1. IInv /\ [Next]_vars => IInv'
  BY StepHolds, StutterHolds DEF Next
<1> QED BY InitHolds, <1>1, PTL DEF Spec

(* Every row, request, cache and audit row has its type (TypeOK).             *)
THEOREM Types == Spec => []TypeOK
<1>1. IInv => TypeOK
  BY DEF IInv
<1> QED BY PortalInvariant, <1>1, PTL

(* A product's category and a join row's group are of the business of the row  *)
(* that names them (assertCategoryInBusiness, setProductGroups).             *)
THEOREM ReferencesStayHome == Spec => []RefsSameBusiness
<1>1. IInv => RefsSameBusiness
  BY DEF IInv
<1> QED BY PortalInvariant, <1>1, PTL

(* The one request of a step that writes is an owner's.                       *)
LEMMA WriterIsOwner ==
  ASSUME IInv, NEW q \in Reqs, Step(q), rows' # rows
  PROVE  ctx[q].type = "owner" /\ ctx[q].biz = NoId /\ Logged(q)
<1>1. pc[q] # "idle" /\ Logged(q)
  BY WriterBusy, StepLogged DEF LogMax
<1>2. pc[q] \in {"insert", "update", "bury", "found"}
  <2>1. CASE Insert(q) \/ Update(q) \/ UpdateJoins(q) \/ Bury(q) \/ InsertBusiness(q)
    BY <2>1 DEF Insert, Update, UpdateJoins, Bury, InsertBusiness, At
  <2>2. CASE (\E j \in offered : Begin(q, j)) \/ Abort(q) \/ Own(q) \/ Load(q) \/ Category(q)
             \/ Unique(q) \/ Police(q) \/ Before(q) \/ Groups(q) \/ ReadJoins(q) \/ ReadDelete(q)
    BY <2>2 DEF Begin, Abort, Own, Load, Category, Unique, Police, Before, Groups, ReadJoins,
      ReadDelete, ReadThen, Quiet, Fail
  <2>3. CASE LockOwner(q) \/ CountBusinesses(q) \/ SetMax(q) \/ LogMax(q) \/ Pull(q)
             \/ PullProducts(q) \/ PullGroups(q)
    BY <2>3 DEF LockOwner, CountBusinesses, SetMax, LogMax, Pull, PullProducts, PullGroups,
      ReadThen, Quiet, Fail
  <2> QED BY <2>1, <2>2, <2>3 DEF Step
<1>3. job[q] \in Jobs /\ ctx[q] = job[q].by /\ job[q].kind \notin {"setMax", "pull"}
  BY <1>2, CallAt DEF Changes
<1> QED BY <1>1, <1>3, OwnerCalls

(* Tenant isolation: a request changes rows of its own owner only, and the     *)
(* admin's requests change no tenant row (createScopedPrisma).               *)
THEOREM TenantsIsolated == Spec => OwnRowsOnly
<1> DEFINE Isolated ==
      rows' # rows => \A q \in Reqs : pc'[q] # pc[q] =>
        /\ ctx[q].type # "platform_admin"
        /\ \A x \in Ids : rows'[x] # rows[x] => OwnerOf(x)' = ctx[q].owner
<1>1. ASSUME IInv, [Next]_vars PROVE Isolated
  <2> SUFFICES ASSUME rows' # rows, NEW p \in Reqs, pc'[p] # pc[p]
               PROVE  /\ ctx[p].type # "platform_admin"
                      /\ \A x \in Ids : rows'[x] # rows[x] => OwnerOf(x)' = ctx[p].owner
    OBVIOUS
  <2>1. PICK q \in Reqs : Step(q)
    BY <1>1 DEF Next, vars
  <2>2. p = q
    BY <1>1, <2>1, StepApart DEF Apart
  <2>3. ctx[q].type = "owner"
    BY <1>1, <2>1, WriterIsOwner
  <2>4. \A x \in Ids : rows'[x] # rows[x] => OwnerOf(x)' = ctx[q].owner
    BY <1>1, <2>1, StepWrites, ChangedRight DEF IInv, HangsRight, OwnerOf, BusinessOf
  <2> QED BY <2>2, <2>3, <2>4
<1>2. IInv /\ [Next]_vars => Isolated
  BY <1>1
<1> QED BY PortalInvariant, <1>2, PTL DEF Spec, OwnRowsOnly

(* The cap: a business is inserted only where the owner still has room for it *)
(* (BusinessesService.create), whoever else creates, deletes or lowers it.   *)
THEOREM CapHolds == Spec => BusinessCap
<1> DEFINE Capped ==
      \A x \in Businesses : rows[x].st = "none" /\ rows'[x].st = "live"
        => Cardinality(Counted(rows'[x].up)) < max[rows'[x].up]
<1>1. ASSUME IInv, [Next]_vars PROVE Capped
  <2> SUFFICES ASSUME NEW x \in Businesses, rows[x].st = "none", rows'[x].st = "live"
               PROVE  Cardinality(Counted(rows'[x].up)) < max[rows'[x].up]
    OBVIOUS
  <2>1. x \in Ids /\ ModelOf[x] = "business" /\ rows'[x] # rows[x]
    BY DEF Businesses, Of
  <2>2. PICK q \in Reqs : Step(q)
    BY <1>1, <2>1 DEF Next, vars
  <2>3. Born(q, x)
    BY <1>1, <2>1, <2>2, StepWrites DEF Writes, Kept, Mine, Exists
  <2>4. BornBusiness(q, x)
    BY <2>1, <2>3, ChildTables DEF Born, BornScoped, BornChild, BusinessScoped, BranchScoped
  <2>5. UnderCap(q) /\ rows'[x].up = ctx[q].owner
    BY <1>1, <2>4 DEF BornBusiness, IInv, RequestRight, HasRoom
  <2> QED BY <2>5 DEF UnderCap
<1>2. IInv /\ [Next]_vars => Capped
  BY <1>1
<1> QED BY PortalInvariant, <1>2, PTL DEF Spec, BusinessCap

(* Every change of a row is in the audit log, itself or through its parent;     *)
(* one of a row with a scope column names the business it is about, so that  *)
(* the activity log of that business shows it (writeAudit, stampScope).      *)
LEMMA ChangeLogged ==
  ASSUME IInv, NEW q \in Reqs, Step(q), NEW x \in Ids, rows'[x] # rows[x]
  PROVE  \E e \in audit' :
           /\ e.owner = OwnerOf(x)'
           /\ IF ModelOf[x] \in ChildOnly
                THEN <<e.entity, e.op>> \in
                       {<<x, Change(x)>>, <<rows'[x].up, "create">>, <<rows'[x].up, "update">>}
                ELSE e.entity = x /\ e.op = Change(x) /\ e.biz = BusinessOf(x)'
<1>1. ctx[q].biz = NoId /\ Logged(q) /\ Writes(q)
  BY WriterIsOwner, StepWrites
<1>2. OwnerOf(x)' = ctx[q].owner /\ HangsRight(q, x)
  BY <1>1, ChangedRight DEF IInv, HangsRight, OwnerOf, BusinessOf
<1>3. PICK L \in SUBSET Ids : \E op \in [L -> Ops] : LoggedAs(q, L, op)
  BY <1>1 DEF Logged
<1>4. PICK op \in [L -> Ops] : LoggedAs(q, L, op)
  BY <1>3
<1> DEFINE e(y) == AuditOf(q, y, rows'[y], op[y])
<1>5. ASSUME NEW y \in L
      PROVE  e(y) \in audit' /\ e(y).owner = ctx[q].owner /\ e(y).entity = y /\ e(y).op = op[y]
             /\ e(y).biz = StampBusiness(q, y, rows'[y])
  BY <1>4 DEF LoggedAs, Appended, AuditOf
<1>6. CASE x \in L /\ op[x] = Change(x)
  <2>1. ModelOf[x] \notin ChildOnly => StampBusiness(q, x, rows'[x]) = BusinessOf(x)'
    <3>1. /\ op[x] \in Ops /\ rows'[x] \in Row /\ rows'[x].up \in UpRange(x)
          /\ ModelOf[x] \in BranchScoped => Exists(rows'[x].up)
      BY <1>4, <1>6 DEF LoggedAs, Entries
    <3>2. /\ ModelOf[x] = "business" => StampBusiness(q, x, rows'[x]) = x
          /\ ModelOf[x] \in BusinessScoped => StampBusiness(q, x, rows'[x]) = rows'[x].up
          /\ ModelOf[x] \in BranchScoped => StampBusiness(q, x, rows'[x]) = rows[rows'[x].up].up
      BY <1>1, <3>1, AuditRight
    <3>3. ModelOf[x] \in BranchScoped => rows'[rows'[x].up].up = rows[rows'[x].up].up
      <4>1. ModelOf[x] \in BranchScoped => rows'[x].up \in Ids
        BY <3>1 DEF UpRange, BranchScoped, BusinessScoped, Branches, Of
      <4> QED BY <1>1, <3>1, <4>1, RowsStay DEF IInv
    <3>4. ModelOf[x] \in {"business"} \cup BusinessScoped \cup BranchScoped \cup ChildOnly
      BY IdsAssumption DEF Models
    <3>5. ModelOf[x] \in BranchScoped => ModelOf[x] \notin {"business"} \cup BusinessScoped
      BY DEF BranchScoped, BusinessScoped
    <3> QED BY <3>2, <3>3, <3>4, <3>5 DEF BusinessOf, BusinessIn
  <2> HIDE DEF e
  <2>2. e(x) \in audit' /\ e(x).owner = ctx[q].owner /\ e(x).entity = x /\ e(x).op = Change(x)
        /\ (ModelOf[x] \notin ChildOnly => e(x).biz = BusinessOf(x)')
    BY <1>5, <1>6, <2>1
  <2> QED BY <1>2, <2>2
<1>7. CASE x \notin L \/ op[x] # Change(x)
  <2>1. /\ ModelOf[x] \in ChildOnly /\ rows'[x].up = job[q].id
        /\ job[q].id \in L /\ op[job[q].id] \in {"create", "update"}
    BY <1>4, <1>7 DEF LoggedAs, Covered
  <2> HIDE DEF e
  <2>2. e(job[q].id) \in audit' /\ e(job[q].id).owner = ctx[q].owner
        /\ <<e(job[q].id).entity, e(job[q].id).op>> \in
             {<<rows'[x].up, "create">>, <<rows'[x].up, "update">>}
    BY <1>5, <2>1
  <2> QED BY <1>2, <2>1, <2>2
<1> QED BY <1>6, <1>7

(* Every committed change leaves its audit row, of the right operation         *)
(* (ActivityLogService.withAudit).                                           *)
THEOREM ChangesLogged == Spec => EveryChangeLogged
<1> DEFINE AllLogged ==
      rows' # rows => \A x \in Ids : rows'[x] # rows[x] =>
        \E e \in audit' :
          /\ e.owner = OwnerOf(x)'
          /\ IF ModelOf[x] \in ChildOnly
               THEN <<e.entity, e.op>> \in
                      {<<x, Change(x)>>, <<rows'[x].up, "create">>, <<rows'[x].up, "update">>}
               ELSE e.entity = x /\ e.op = Change(x) /\ e.biz = BusinessOf(x)'
<1>1. ASSUME IInv, [Next]_vars PROVE AllLogged
  <2>1. rows' # rows => \E q \in Reqs : Step(q)
    BY <1>1 DEF Next, vars
  <2> QED BY <1>1, <2>1, ChangeLogged
<1>2. IInv /\ [Next]_vars => AllLogged
  BY <1>1
<1> QED BY PortalInvariant, <1>2, PTL DEF Spec, EveryChangeLogged

(* A replacement that is at its write, of children it read as they still are.   *)
ReplacesFresh(q) == Replaces(q) /\ ~StaleChildren(q)
ReplacedBy(q, y) == rows'[y].up = job[q].id /\ rows'[y].st = "live"

LEMMA ReplacementAt ==
  ASSUME IInv, NEW q \in Reqs, Step(q), rows' # rows, Replaces(q)
  PROVE  /\ Update(q) \/ UpdateJoins(q)
         /\ Busy(q) /\ job[q] \in Jobs /\ Changes(q)
         /\ job[q].id \in Ids /\ Exists(job[q].id)
         /\ \A y \in Ids : ModelOf[y] \in ChildOnly /\ Exists(y) /\ rows[y].up = job[q].id
                             => y # job[q].id
<1>1. pc[q] = "update"
  BY DEF Replaces, At
<1>2. Busy(q) /\ job[q] \in Jobs /\ Changes(q)
  BY <1>1, CallAt
<1>3. job[q].id \in Ids /\ Exists(job[q].id)
  BY <1>1, <1>2 DEF IInv, RequestRight, Loaded, Mine
<1>4. Update(q) \/ UpdateJoins(q)
  <2>1. CASE (\E j \in offered : Begin(q, j)) \/ Abort(q) \/ Own(q) \/ Load(q) \/ Category(q)
             \/ Unique(q) \/ Police(q) \/ Insert(q) \/ Before(q) \/ Groups(q) \/ ReadJoins(q)
    BY <1>1, <2>1 DEF Begin, Abort, Own, Load, Category, Unique, Police, Insert, Before, Groups,
      ReadJoins, At, Fail
  <2>2. CASE ReadDelete(q) \/ Bury(q) \/ LockOwner(q) \/ CountBusinesses(q) \/ InsertBusiness(q)
             \/ SetMax(q) \/ LogMax(q) \/ Pull(q) \/ PullProducts(q) \/ PullGroups(q)
    BY <1>1, <2>2 DEF ReadDelete, Bury, LockOwner, CountBusinesses, InsertBusiness, SetMax, LogMax,
      Pull, PullProducts, PullGroups, At
  <2> QED BY <2>1, <2>2 DEF Step
<1>5. ASSUME NEW y \in Ids, ModelOf[y] \in ChildOnly, Exists(y), rows[y].up = job[q].id
      PROVE  y # job[q].id
  <2>1. ModelOf[job[q].id] \in {"product", "modifierGroup"}
    BY <1>5, ChildTables DEF IInv, RowsRight, Of
  <2> QED BY <1>5, <2>1 DEF ChildOnly, ChildParent
<1> QED BY <1>2, <1>3, <1>4, <1>5

(* The children of an update are what its submission lists.                   *)
LEMMA KidsExact ==
  ASSUME IInv, NEW q \in Reqs, Step(q), Update(q), rows' # rows, ReplacesFresh(q),
         NEW y \in Of(ReplacedModel(q))
  PROVE  ReplacedBy(q, y) <=> y \in Submission(q)
<1> DEFINE j == job[q]
           x == job[q].id
           ups == KidUpdates(q)
           drops == KidDrops(q)
           adds == KidRows(q, x)
           after == [z \in {x} \cup DOMAIN ups \cup drops \cup DOMAIN adds |->
                       IF z = x THEN Patched(q)
                       ELSE IF z \in DOMAIN ups THEN ups[z]
                       ELSE IF z \in drops THEN rewriteNestedWrites(drops)[z] ELSE adds[z]]
<1>1. /\ pc[q] = "update" /\ j.kind # "links" /\ "kids" \in j.patch
      /\ Busy(q) /\ j \in Jobs /\ Changes(q) /\ x \in Ids /\ Exists(x)
  BY ReplacementAt DEF Update, At, ReplacesFresh, Replaces
<1>2. /\ y \in Ids /\ ModelOf[y] = ChildModel(q) /\ ModelOf[y] \in ChildOnly
      /\ ReplacedModel(q) = ChildModel(q)
  BY <1>1 DEF ReplacedModel, Of, ChildModel, ChildOnly, ChildParent
<1>3. seen[q] = LiveChildren(x, ChildModel(q))
  BY <1>2 DEF ReplacesFresh, StaleChildren
<1>4. y \in seen[q] <=> Exists(y) /\ rows[y].up = x /\ rows[y].st = "live"
  BY <1>2, <1>3 DEF LiveChildren, Children, Of, Live, Exists
<1>5. \A k \in j.kids : IF k.fresh THEN k.id \in DOMAIN adds /\ ~Exists(k.id) /\ k.id # x
                        ELSE k.id \in DOMAIN ups /\ k.id \in seen[q]
  <2>1. ASSUME NEW k \in j.kids, k.fresh PROVE k.id \in DOMAIN adds /\ ~Exists(k.id) /\ k.id # x
    <3>1. k.id \in DOMAIN adds
      BY <2>1 DEF KidRows
    <3> QED BY <1>1, <3>1, KidRowsRight
  <2>2. ASSUME NEW k \in j.kids, ~k.fresh PROVE k.id \in DOMAIN ups /\ k.id \in seen[q]
    <3>1. k.id \in DOMAIN ups
      BY <2>2 DEF KidUpdates
    <3> QED BY <1>1, <2>2, <3>1 DEF IInv, RequestRight, KidsSeen, KnownKids
  <2> QED BY <2>1, <2>2
<1>6. /\ y \in Submission(q) <=> \E k \in j.kids : k.id = y
      /\ y \in DOMAIN ups => \E k \in j.kids : k.id = y /\ ~k.fresh
      /\ y \in DOMAIN adds => \E k \in j.kids : k.id = y /\ k.fresh
      /\ y \in drops <=> y \in seen[q] /\ ~\E k \in j.kids : k.id = y
  BY <1>1 DEF Submission, KidUpdates, KidRows, KidDrops
<1>7. CASE y = x
  <2>1. rows[x].up # x
    BY <1>1, <1>2, <1>7, ReplacementAt DEF ReplacesFresh
  <2>2. rows'[x].up = rows[x].up
    BY <1>1, RowsStay, UpdateWrites DEF IInv
  <2>3. y \notin Submission(q)
    BY <1>4, <1>5, <1>6, <1>7, <2>1
  <2> QED BY <1>7, <2>1, <2>2, <2>3 DEF ReplacedBy
<1>8. CASE y # x
  <2>1. rows' = [z \in Ids |-> IF z \in DOMAIN after THEN after[z] ELSE rows[z]]
    BY DEF Update, Commit, Mutate, Fail
  <2>2. rows'[y] = IF y \in DOMAIN ups THEN ups[y]
                   ELSE IF y \in drops THEN Restate(y, "gone")
                   ELSE IF y \in DOMAIN adds THEN adds[y] ELSE rows[y]
    BY <1>2, <1>8, <2>1 DEF rewriteNestedWrites
  <2>3. rows[y] \in Row
    BY <1>2 DEF IInv, TypeOK
  <2>4. CASE y \in DOMAIN ups
    <3>1. y \in seen[q] /\ y \in Submission(q)
      BY <1>5, <1>6, <2>4
    <3>2. rows'[y].up = rows[y].up /\ rows'[y].st = rows[y].st
      BY <2>2, <2>3, <2>4 DEF KidUpdates, Row
    <3> QED BY <1>4, <3>1, <3>2 DEF ReplacedBy
  <2>5. CASE y \notin DOMAIN ups /\ y \in drops
    <3>1. rows'[y].st = "gone"
      BY <2>2, <2>3, <2>5 DEF Restate, Row
    <3> QED BY <1>6, <2>5, <3>1 DEF ReplacedBy
  <2>6. CASE y \notin DOMAIN ups \cup drops /\ y \in DOMAIN adds
    <3>1. rows'[y].st = "live" /\ rows'[y].up = x
      BY <1>1, <2>2, <2>6, KidRowsRight
    <3> QED BY <1>6, <2>6, <3>1 DEF ReplacedBy
  <2>7. CASE y \notin DOMAIN ups \cup drops \cup DOMAIN adds
    <3>1. y \notin Submission(q)
      BY <1>5, <1>6, <2>7
    <3>2. y \notin seen[q]
      BY <1>6, <2>7, <3>1
    <3>3. rows'[y] = rows[y]
      BY <2>2, <2>7
    <3> QED BY <1>4, <3>1, <3>2, <3>3 DEF ReplacedBy, Exists
  <2> QED BY <2>4, <2>5, <2>6, <2>7
<1> QED BY <1>7, <1>8

(* The groups linked to a product are the ones its submission lists.          *)
LEMMA LinksExact ==
  ASSUME IInv, NEW q \in Reqs, Step(q), UpdateJoins(q), rows' # rows, ReplacesFresh(q),
         NEW y \in Of(ReplacedModel(q))
  PROVE  ReplacedBy(q, y) <=> y \in Submission(q)
<1> DEFINE j == job[q]
           x == job[q].id
           adds == JoinAdds(q)
           touched == adds \cup JoinBacks(q) \cup JoinDrops(q)
           after == [z \in {x} \cup touched |->
                       IF z = x THEN rows[x]
                       ELSE IF z \in adds THEN NewRow(x, GroupOfJoin(z), NoSku)
                       ELSE Restate(z, IF z \in JoinBacks(q) THEN "live" ELSE "gone")]
<1>1. /\ pc[q] = "update" /\ j.kind = "links" /\ Busy(q) /\ j \in Jobs /\ Changes(q)
      /\ x \in Ids /\ Exists(x)
  BY ReplacementAt DEF UpdateJoins, At, ReplacesFresh
<1>2. y \in Ids /\ ModelOf[y] = "productModifierGroup" /\ ModelOf[y] \in ChildOnly
      /\ Submission(q) = WantedJoins(q) /\ y # x
  <2>1. x \in Products
    BY <1>1, SubmissionsAssumption
  <2> QED BY <1>1, <2>1 DEF ReplacedModel, Submission, Products, Of, ChildOnly, ChildParent
<1>3. y \in seen[q] <=> Exists(y) /\ rows[y].up = x /\ rows[y].st = "live"
  BY <1>1, <1>2 DEF ReplacesFresh, StaleChildren, ReplacedModel, LiveChildren, Children, Of, Live,
    Exists
<1>4. rows' = [z \in Ids |-> IF z \in DOMAIN after THEN after[z] ELSE rows[z]]
  BY DEF UpdateJoins, Mutate, Fail
<1>5. rows'[y] = IF y \in adds THEN NewRow(x, GroupOfJoin(y), NoSku)
                 ELSE IF y \in touched
                   THEN Restate(y, IF y \in JoinBacks(q) THEN "live" ELSE "gone")
                 ELSE rows[y]
  BY <1>2, <1>4
<1>6. rows[y] \in Row
  BY <1>2 DEF IInv, TypeOK
<1>7. CASE y \in adds
  BY <1>2, <1>5, <1>7 DEF JoinAdds, NewRow, ReplacedBy
<1>8. CASE y \notin adds /\ y \in JoinBacks(q)
  <2>1. rows[y].up = x
    BY <1>1, <1>2, <1>8, OwnChildren DEF JoinBacks
  <2>2. rows'[y].st = "live" /\ rows'[y].up = rows[y].up
    BY <1>5, <1>6, <1>8 DEF Restate, Row
  <2> QED BY <1>2, <1>8, <2>1, <2>2 DEF JoinBacks, ReplacedBy
<1>9. CASE y \notin adds \cup JoinBacks(q) /\ y \in JoinDrops(q)
  <2>1. rows'[y].st = "gone"
    BY <1>5, <1>6, <1>9 DEF Restate, Row
  <2> QED BY <1>2, <1>9, <2>1 DEF JoinDrops, ReplacedBy
<1>10. CASE y \notin touched
  <2>1. rows'[y] = rows[y]
    BY <1>5, <1>10
  <2>2. y \in seen[q] <=> y \in WantedJoins(q)
    BY <1>10 DEF JoinAdds, JoinBacks, JoinDrops
  <2> QED BY <1>2, <1>3, <2>1, <2>2 DEF ReplacedBy, Exists
<1> QED BY <1>7, <1>8, <1>9, <1>10

(* A replace-set is exact: when the variants of a product, the modifiers of a   *)
(* group or the groups linked to a product are replaced, the live children    *)
(* are those of the submission, unless another editor of the same row         *)
(* committed after this one read it (buildVariantReplaceSet,                 *)
(* buildLinkReplaceSet).                                                     *)
THEOREM ReplaceSetsHold == Spec => ReplaceSetsExact
<1> DEFINE Exact ==
      \A q \in Reqs : rows' # rows /\ pc'[q] # pc[q] /\ Replaces(q) =>
        \/ StaleChildren(q)
        \/ \A x \in Of(ReplacedModel(q)) :
             (rows'[x].up = job[q].id /\ rows'[x].st = "live") <=> x \in Submission(q)
<1>1. ASSUME IInv, [Next]_vars PROVE Exact
  <2> SUFFICES ASSUME NEW p \in Reqs, rows' # rows, pc'[p] # pc[p], Replaces(p),
                      ~StaleChildren(p), NEW x \in Of(ReplacedModel(p))
               PROVE  (rows'[x].up = job[p].id /\ rows'[x].st = "live") <=> x \in Submission(p)
    OBVIOUS
  <2>1. PICK q \in Reqs : Step(q)
    BY <1>1 DEF Next, vars
  <2>2. p = q
    BY <1>1, <2>1, StepApart DEF Apart
  <2>3. Update(p) \/ UpdateJoins(p)
    BY <1>1, <2>1, <2>2, ReplacementAt
  <2> QED BY <1>1, <2>1, <2>2, <2>3, KidsExact, LinksExact DEF ReplacesFresh, ReplacedBy
<1>2. IInv /\ [Next]_vars => Exact
  BY <1>1
<1> QED BY PortalInvariant, <1>2, PTL DEF Spec, ReplaceSetsExact
=============================================================================
