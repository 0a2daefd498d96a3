SPECIFICATION Spec
CONSTANTS
  w1 = w1  w2 = w2
  Workers = {w1, w2}
  Employees = {1, 2}
  Periods = {1}
  NumLoans = 2
  LoanOf <- TwoLoansOf
  LoanAmount <- TwoLoanAmounts
  LoanStart <- TwoLoanStarts
  Installment <- MonthInstallments
  AdvanceAmount <- MCAdvance
  GrossSalary <- MCGross
  Joined <- BothJoined
  MaxRuns = 2
  Operations = {"generate", "mark_paid", "destroy", "edit_entry", "delete_run",
                "edit_loan", "update_status"}
  GenerateStatuses = {"PENDING", "PAID"}
  Targets = {"PAID", "FAILED"}
  BadDays = {2}
  EditStatuses = {"PENDING"}
  EditGross = {3}
  EditTerms <- MonthTerms
SYMMETRY WorkerSymmetry
CHECK_DEADLOCK FALSE
INVARIANTS
  LoanLossBacked
  RepaymentsKept
  NoCircularWait
PROPERTIES
  RepaidOnce
