SPECIFICATION Spec
CONSTANTS
  w1 = w1  w2 = w2
  Workers = {w1, w2}
  Employees = {1}
  Periods = {1, 2}
  NumLoans = 1
  LoanOf <- OneLoanOf
  LoanAmount <- OneLoanAmount
  LoanStart <- OneLoanStart
  Installment <- OneInstallment
  AdvanceAmount <- MCAdvance
  GrossSalary <- OneGross
  Joined <- OneJoined
  MaxRuns = 2
  Operations = {"generate", "mark_paid", "edit_entry"}
  GenerateStatuses = {"PENDING"}
  Targets = {"PAID", "FAILED"}
  BadDays = {}
  EditStatuses = {}
  EditGross = {3}
  EditTerms = {}
SYMMETRY WorkerSymmetry
CHECK_DEADLOCK FALSE
PROPERTY PaidFinal
