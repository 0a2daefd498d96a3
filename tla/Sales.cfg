SPECIFICATION TradeSpec
CONSTANTS
  w1 = w1  w2 = w2  o1 = o1  o2 = o2  o3 = o3  o4 = o4  i1 = i1  i2 = i2
  p1 = p1  p2 = p2  s1 = s1  s2 = s2
  q1 = q1  n1 = n1  n2 = n2  r1 = r1  r2 = r2
  Workers = {w1, w2}
  Orders = {o1, o2, o3, o4}
  Drafts = {o1, o2}
  Products = {1, 2}
  Quantity <- OrderLines
  Opening <- FirstStock
  PosSales = {s1, s2}
  OrderEdits = {"DRAFT", "CONFIRMED", "CANCELLED"}
  Starts <- MCStarts
  Invoices = {i1, i2}
  Payments = {p1, p2}
  Totals = {1, 2}
  Amounts = {1, 2}
  MaxReceivable = 4
  Quotations = {q1}
  QuoteEdits = {"DRAFT", "EXPIRED"}
  Notes = {n1, n2}
  Returns = {r1, r2}
  NoteEdits = {}
  NewReturnStatuses = {"DRAFT", "PENDING_APPROVAL", "CANCELLED"}
  MaxHanded = 2
  MaxLines = 2
  Bills = {i1, i2}
  Shops <- MCShops
SYMMETRY RowSymmetry
CHECK_DEADLOCK FALSE
INVARIANTS
  AllTypeOK
  PostedOnce
  JournalMatches
  PaidCounted
  ConfirmedBacked
  BooksAgree
  OrdersFollowed
  PricingSound
  ScreensAgree
