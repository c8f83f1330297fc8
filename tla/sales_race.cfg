SPECIFICATION Spec
CONSTANTS
  a = a
  b = b
  b2 = b2
  t1 = t1
  t2 = t2
  s1 = s1
  s2 = s2
  h1 = h1
  h2 = h2
  p1 = p1
  p2 = p2
  v1 = v1
  v2 = v2
  w1 = w1
  w2 = w2
  x1 = x1
  x2 = x2
  NoShift = NoShift
  NoDraft = NoDraft
  Keys = {a, b, b2}
  Products = {a, b}
  ProductOf <- SimpleProductOf
  SaleIds = {s1, s2}
  Receipts = {1, 2}
  SeqOf <- ReceiptNumber
  Payments = {1, 2}
  Terminals = {t1, t2}
  ShiftIds = {h1, h2}
  TerminalOf <- ShiftTerminals
  Drafts <- OversellDrafts
  OpeningQty <- OversellQty
  OpeningRows = {a, b, b2}
  OpenAtStart = {h1, h2}
  Posts = {p1, p2}
  Reversals = {v1}
  StockOps = {}
  Deliveries = {}
  Targets = {}
  MaxQty = 3
  ShiftOps = {}
  Floats = {}
  CashMoves = {}
  MaxDrawer = 0
  OneAtATime = FALSE
SYMMETRY Symmetric
INVARIANTS NoOversell SalePostedOnce StockConserved AnswersTruthful
PROPERTIES ReplayNeverConflicts
