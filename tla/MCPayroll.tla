----------------------------- MODULE MCPayroll -----------------------------
(* Small instances of Payroll for TLC. *)
EXTENDS Payroll, TLC

CONSTANTS w1, w2

WorkerSymmetry == Permutations({w1, w2})

\* Employee 1 has two loans whose installments exceed what is left of the
\* older one, and an advance; employee 2 has no loan.
TwoLoansOf == <<1, 1>>
TwoLoanAmounts == <<2, 1>>
TwoLoanStarts == <<1, 1>>
TwoInstallments == << <<1, 2>>, <<1, 1>> >>
MCAdvance == [k \in Keys |-> IF k = <<1, 1>> THEN 1 ELSE 0]
MCGross == <<3, 1>>
MCJoined == <<1, 2>>

BothJoined == <<1, 1>>
MonthInstallments == << <<1>>, <<2>> >>
\* A PATCH that makes the older loan smaller than what was lent, due in one payment.
MonthTerms == {[amount |-> 1, start |-> 1, installment |-> <<2>>]}

OneLoanOf == <<1>>
OneLoanAmount == <<2>>
OneLoanStart == <<1>>
OneGross == <<3>>
OneJoined == <<1>>
OneInstallment == << <<2, 2>> >>
=============================================================================
