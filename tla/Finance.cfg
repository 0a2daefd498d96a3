SPECIFICATION FinanceSpec
CONSTANTS
  w1 = w1  w2 = w2  j1 = j1  j2 = j2  j3 = j3  p1 = p1  p2 = p2
  a1 = a1  a2 = a2  budget = budget  r1 = r1  r2 = r2  v1 = v1  v2 = v2
  Workers = {w1, w2}
  Journals = {j1, j2, j3}
  Invoices = {"invoice"}
  Bills = {"bill"}
  Totals = {1, 2}
  Starts <- MCStarts
  MaxLines = 2
  Payments = {p1, p2}
  Accounts = {a1, a2}
  Opening <- OneEach
  Vouchers = {1, 2, 3, 4}
  Amounts = {1, 2}
  MaxDeposits = 2
  FixedAssets = {1, 2}
  Worth <- AssetWorth
  Monthly <- AssetMonthly
  Residual <- AssetResidual
  Periods = {1, 2}
  JournalLines <- CostPaid
  Charts <- ChartsOfAccounts
  VatWithin <- VatInTotal
  DayOf <- DaysOf
  DaysLate <- Lateness
  Budgets = {budget}
  Revisions = {r1, r2}
  Returns = {v1, v2}
  Credits = {1}
  MaxBudgetLines = 2
  MaxVersion = 3
SYMMETRY RowSymmetry
CHECK_DEADLOCK FALSE
INVARIANTS
  ControlsTypeOK
  LedgerOnce
  PaidAddsUp
  BankBalanced
  DepreciationAdds
  ReportsAgree
  ApprovalsStand
