SPECIFICATION Spec
CONSTANTS
  A = A
  B = B
  C = C
  bA = bA
  bC = bC
  t0 = t0
  t1 = t1
  t2 = t2
  t3 = t3
  t4 = t4
  t5 = t5
  k0 = k0
  k1 = k1
  k2 = k2
  q1 = q1
  q2 = q2
  q3 = q3
  Nobody = Nobody
  NoJob = NoJob
  Owners = {A, B, C}
  Branches = {bA, bC}
  OwnerOf <- OwnersOfBranches
  Terminals = {t0, t1, t2, t3, t4, t5}
  Tokens = {k0, k1, k2}
  Reqs = {q1, q2, q3}
  Offers <- Everything
  Provisioned = {C}
  InviteOf <- InviteOfC
  PairedAtStart = {t0}
  BranchOfStart <- T0AtA
SYMMETRY Symmetric
INVARIANTS CodesInOrder LosesOnlyToOthers ActivatedOnce
PROPERTIES NoShiftFromGrace
