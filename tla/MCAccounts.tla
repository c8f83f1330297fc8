------------------------------ MODULE MCAccounts ------------------------------
(* Owner A runs terminal t0, owner B is not there yet, owner C is invited.    *)
EXTENDS PosAccounts, TLC

CONSTANTS A, B, C, bA, bC, t0, t1, t2, t3, t4, t5, k0, k1, k2, q1, q2, q3

OwnersOfBranches == [b \in Branches |-> IF b = bA THEN A ELSE C]
InviteOfC == [o \in {C} |-> k0]
T0AtA == [t \in {t0} |-> bA]
Symmetric == Permutations(Reqs)

Call(kind, about) == [kind |-> kind, about |-> about, as |-> Nobody]
By(o, kind, about) == [Call(kind, about) EXCEPT !.as = o]

ProvisionCalls ==
  {Call(kind, B) : kind \in {"create", "requestReset"}}
  \cup {Call(kind, C) : kind \in {"suspend", "reinstate"}}
  \cup {Call("accept", k) : k \in {k0, k1, k2}} \cup {Call("confirmReset", k) : k \in {k1, k2}}
PairCalls == {By(A, "pair", bA), By(A, "pair", bC), By(A, "unpair", t0)}
SuspensionCalls ==
  {Call(kind, A) : kind \in {"suspend", "hardSuspend", "reinstate"}}
  \cup {Call(kind, t0) : kind \in PosKinds}
  \cup {By(A, kind, t0) : kind \in {"unpair", "remoteUnpair"}} \cup {By(C, "unpair", t0)}
Everything == {ProvisionCalls, PairCalls, SuspensionCalls}
=============================================================================
