SPECIFICATION PurchasesSpec
CONSTANTS
  w1 = w1  w2 = w2  g1 = g1  g2 = g2  p1 = p1  p2 = p2  r1 = r1  r2 = r2  c1 = c1  c2 = c2
  Workers = {w1, w2}
  Shipments = {1, 2}
  ShipmentStatuses = {"IN_TRANSIT", "RECEIVED"}
  Inspections = {"PENDING", "PASSED"}
  Lines = {1, 2}
  Receipts = {g1, g2}
  Ordered <- TwoLines
  NewOrderStatuses = {"DRAFT", "APPROVED"}
  OrderTargets = {"PENDING_APPROVAL", "APPROVED", "CANCELLED"}
  OrderEdits = {"APPROVED"}
  MaxMoved = 4
  Starts <- MCStarts
  Bills = {1, 2}
  Payments = {p1, p2}
  Returns = {r1, r2}
  ManualCredits = {c1, c2}
  NewBillStatuses = {"UNMATCHED"}
  NewReturnStatuses = {"DRAFT", "PENDING_APPROVAL"}
  MaxLines = 2
  MaxCredit = 2
  Expenses = {1, 2}
  NewExpenseStatuses = {"PENDING", "APPROVED"}
SYMMETRY RowSymmetry
CHECK_DEADLOCK FALSE
INVARIANTS
  AllTypeOK
  ReceiptsCounted
  PaidBacked
  BillsFit
  OffersFit
  PaidApproved
