SPECIFICATION Spec
CONSTANTS
  w1 = w1  w2 = w2
  Workers = {w1, w2}
  Employees = {1, 2}
  Periods = {1, 2}
  NumLoans = 2
  LoanOf <- TwoLoansOf
  LoanAmount <- TwoLoanAmounts
  LoanStart <- TwoLoanStarts
  Installment <- TwoInstallments
  AdvanceAmount <- MCAdvance
  GrossSalary <- MCGross
  Joined <- MCJoined
  MaxRuns = 2
  Operations = {"generate", "mark_paid", "update_status", "destroy", "cancel_loan"}
  GenerateStatuses = {"PENDING"}
  Targets = {"PROCESSING", "PAID", "FAILED"}
  BadDays = {}
  EditStatuses = {}
  EditGross = {}
  EditTerms = {}
SYMMETRY WorkerSymmetry
CHECK_DEADLOCK FALSE
INVARIANTS
  TypeOK
  SettlementsAdd
  RunCompleteSound
PROPERTIES
  PaidFinal
