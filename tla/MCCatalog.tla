------------------------------ MODULE MCCatalog ------------------------------
(* A small instance of PortalCatalog: owner A with two businesses and room for *)
(* a third, owner B with one, a product with a variant and a linked group.   *)
EXTENDS PortalCatalog, TLC

CONSTANTS q1, q2, q3, A, B, bA, bA2, bB, bN, bM, rA, rN, rM, tA, cA, cA2, cB, pA, pN, pM, pS, vA, vN, gA, gA2, gA3, lA, lA2, lA3, sk1, sk2

Tables ==
  (bA :> "business") @@ (bA2 :> "business") @@ (bB :> "business")
  @@ (bN :> "business") @@ (bM :> "business")
  @@ (rA :> "branch") @@ (rN :> "branch") @@ (rM :> "branch") @@ (tA :> "terminal")
  @@ (cA :> "category") @@ (cA2 :> "category") @@ (cB :> "category")
  @@ (pA :> "product") @@ (pN :> "product") @@ (pM :> "product") @@ (pS :> "product")
  @@ (vA :> "productVariant") @@ (vN :> "productVariant")
  @@ (gA :> "modifierGroup") @@ (gA2 :> "modifierGroup") @@ (gA3 :> "modifierGroup")
  @@ (lA :> "productModifierGroup") @@ (lA2 :> "productModifierGroup")
  @@ (lA3 :> "productModifierGroup")
TablesHere == [x \in Ids |-> Tables[x]]

Absent == [st |-> "none", up |-> NoId, ref |-> NoId, sku |-> NoSku, tag |-> "plain"]
Here(up, ref, sku) == [Absent EXCEPT !.st = "live", !.up = up, !.ref = ref, !.sku = sku]
Seeded ==
  (bA :> Here(A, NoId, NoSku)) @@ (bA2 :> Here(A, NoId, NoSku)) @@ (bB :> Here(B, NoId, NoSku))
  @@ (rA :> Here(bA, NoId, NoSku)) @@ (tA :> Here(rA, NoId, NoSku))
  @@ (cA :> Here(bA, NoId, NoSku)) @@ (cA2 :> Here(bA2, NoId, NoSku)) @@ (cB :> Here(bB, NoId, NoSku))
  @@ (pA :> Here(bA, cA, NoSku)) @@ (vA :> Here(pA, NoId, NoSku))
  @@ (gA :> Here(bA, NoId, NoSku)) @@ (gA2 :> Here(bA2, NoId, NoSku))
  @@ (gA3 :> Here(bA, NoId, NoSku))
  @@ (lA :> Here(pA, gA, NoSku)) @@ (pS :> Here(bA, cA, NoSku))
SeededHere == [x \in Ids |-> IF x \in DOMAIN Seeded THEN Seeded[x] ELSE Absent]

Joins == [pair \in Products \X ModifierGroups |->
            IF pair[2] = gA THEN lA ELSE IF pair[2] = gA2 THEN lA2 ELSE lA3]
Symmetric == Permutations(Reqs)
Caps == [o \in Owners |-> 3]

OwnerOfTenant(o) == [type |-> "owner", owner |-> o, biz |-> NoId, branch |-> NoId]
Terminal == [type |-> "terminal", owner |-> A, biz |-> bA, branch |-> rA]
Admin == [type |-> "platform_admin", owner |-> NoId, biz |-> NoId, branch |-> NoId]

Call(kind, by, id) ==
  [kind |-> kind, by |-> by, id |-> id, up |-> NoId, ref |-> NoId, sku |-> NoSku,
   patch |-> {}, kids |-> {}, groups |-> {}, max |-> 0]
Create(o, id, up, ref, sku, kids) ==
  [Call("create", OwnerOfTenant(o), id) EXCEPT !.up = up, !.ref = ref, !.sku = sku, !.kids = kids]
Patch(o, id, patch, ref, sku, kids) ==
  [Call("update", OwnerOfTenant(o), id) EXCEPT !.patch = patch, !.ref = ref, !.sku = sku, !.kids = kids]
Remove(o, id) == Call("remove", OwnerOfTenant(o), id)
Links(o, id, groups) == [Call("links", OwnerOfTenant(o), id) EXCEPT !.groups = groups]
Variant(x, sku, fresh) == [id |-> x, sku |-> sku, fresh |-> fresh]

(* Calls that meet on the same rows.  A behaviour takes its calls from one of *)
(* these sets, each as often as it likes.                                    *)
ProductCalls ==
  { Create(A, pN, bA, cA, sk1, {}), Create(A, pM, bA, cA2, sk1, {}), Remove(A, pA), Remove(A, bA),
    Patch(A, pA, {"kids"}, NoId, NoSku, {}),
    Patch(A, pA, {"kids"}, NoId, NoSku, {Variant(vA, sk1, FALSE), Variant(vN, sk2, TRUE)}) }
LinkCalls ==
  { Links(A, pA, {}), Links(A, pA, {gA}), Links(A, pA, {gA3}), Links(A, pA, {gA, gA2}),
    Remove(A, gA), Remove(A, pA), Call("pull", Terminal, tA) }
CapCalls ==
  { Create(A, bN, A, NoId, NoSku, {}), Create(A, bM, A, NoId, NoSku, {}), Remove(A, bA2),
    [Call("setMax", Admin, A) EXCEPT !.max = 2] }
BranchCalls ==
  { Create(A, rN, bA, NoId, sk1, {}), Create(A, rM, bA, NoId, sk1, {}), Create(B, rM, bA, NoId, sk2, {}),
    Remove(A, rA), Remove(A, bA), Patch(A, tA, {}, NoId, NoSku, {}) }
SoldCalls == { Remove(A, pS), Patch(A, pS, {"sku"}, NoId, sk1, {}), Remove(A, cA), Call("pull", Terminal, tA) }
ForeignCalls ==
  { Patch(B, pA, {"sku"}, NoId, sk1, {}), Remove(B, bA), Create(B, pN, bA, cB, sk1, {}),
    Patch(A, pA, {"ref"}, cA2, NoSku, {}), Patch(A, pA, {"ref"}, cB, NoSku, {}),
    Patch(A, tA, {}, NoId, NoSku, {}), Patch(B, tA, {}, NoId, NoSku, {}), Remove(A, cA) }

(* Two editors of one business, a product and a variant with the same SKU.    *)
SkuCalls ==
  { Create(A, pN, bA, cA, sk1, {}),
    Patch(A, pA, {"kids"}, NoId, NoSku, {Variant(vA, sk1, FALSE)}) }

(* An edit of a variant of one of owner A's two businesses.                   *)
VariantCalls == { Patch(A, pA, {"kids"}, NoId, NoSku, {Variant(vA, sk1, FALSE)}) }

Everything == {ProductCalls, LinkCalls, CapCalls, BranchCalls, SoldCalls, ForeignCalls}
SkuOnly == {SkuCalls}
VariantOnly == {VariantCalls}
=============================================================================
