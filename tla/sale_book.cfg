SPECIFICATION Spec
CONSTANTS
  a = a
  b = b
  b2 = b2
  t1 = t1
  t2 = t2
  s1 = s1
  s2 = s2
  h1 = h1
  h2 = h2
  p1 = p1
  p2 = p2
  v1 = v1
  v2 = v2
  w1 = w1
  w2 = w2
  x1 = x1
  x2 = x2
  NoShift = NoShift
  NoDraft = NoDraft
  Keys = {a}
  Products = {a}
  ProductOf <- SimpleProductOf
  SaleIds = {s1}
  Receipts = {1}
  SeqOf <- ReceiptNumber
  Payments = {1}
  Terminals = {t1, t2}
  ShiftIds = {h1, h2}
  TerminalOf <- ShiftTerminals
  Drafts <- OneDraft
  OpeningQty <- NoneYet
  OpeningRows = {}
  OpenAtStart = {h1, h2}
  Posts = {p1}
  Reversals = {v1, v2}
  StockOps = {w1, w2}
  Deliveries <- DeliverA
  Targets = {0, 1}
  MaxQty = 1
  ShiftOps = {}
  Floats = {}
  CashMoves = {}
  MaxDrawer = 0
  OneAtATime = FALSE
SYMMETRY Symmetric
INVARIANTS IndInv ReturnedOnce
PROPERTIES LedgerDriftsByAdjustOnly ImplementsSaleBook
