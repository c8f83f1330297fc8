SPECIFICATION Spec
CONSTANTS
  A = A
  B = B
  bA = bA
  bA2 = bA2
  bB = bB
  bN = bN
  bM = bM
  rA = rA
  rN = rN
  rM = rM
  tA = tA
  cA = cA
  cA2 = cA2
  cB = cB
  pA = pA
  pN = pN
  pM = pM
  pS = pS
  vA = vA
  vN = vN
  gA = gA
  gA2 = gA2
  gA3 = gA3
  lA = lA
  lA2 = lA2
  lA3 = lA3
  sk1 = sk1
  sk2 = sk2
  NoId = NoId
  NoSku = NoSku
  NoJob = NoJob
  NoReq = NoReq
  q1 = q1
  q2 = q2
  q3 = q3
  Ids = {bA, bA2, bB, bN, bM, rA, rN, rM, tA, cA, cA2, cB, pA, pN, pM, pS, vA, vN, gA, gA2, gA3, lA, lA2, lA3}
  ModelOf <- TablesHere
  Owners = {A, B}
  Skus = {sk1, sk2}
  Reqs = {q1, q2}
  InitRows <- SeededHere
  Offers <- SkuOnly
  LinkOf <- Joins
  Sold = {pS}
  InitMax <- Caps
SYMMETRY Symmetric
INVARIANTS SkuUnique
