SPECIFICATION Spec
CONSTANTS
  a = a
  b = b
  b2 = b2
  t1 = t1
  t2 = t2
  s1 = s1
  s2 = s2
  h1 = h1
  h2 = h2
  p1 = p1
  p2 = p2
  v1 = v1
  v2 = v2
  w1 = w1
  w2 = w2
  x1 = x1
  x2 = x2
  NoShift = NoShift
  NoDraft = NoDraft
  Keys = {a}
  Products = {a, b}
  ProductOf <- SimpleProductOf
  SaleIds = {s1, s2}
  Receipts = {1, 2}
  SeqOf <- ReceiptNumber
  Payments = {1, 2}
  Terminals = {t1, t2}
  ShiftIds = {h1, h2}
  TerminalOf <- OneTerminal
  Drafts <- SerialDrafts
  OpeningQty <- OnlyA
  OpeningRows = {a}
  OpenAtStart = {}
  Posts = {p1}
  Reversals = {v1}
  StockOps = {}
  Deliveries = {}
  Targets = {}
  MaxQty = 3
  ShiftOps = {x1}
  Floats = {3}
  CashMoves <- CashOut
  MaxDrawer = 3
  OneAtATime = TRUE
SYMMETRY Symmetric
INVARIANTS ReceiptSeqAhead ExpectedCashFinal
PROPERTIES SaleInOpenShift
