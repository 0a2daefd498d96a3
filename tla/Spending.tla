------------------------------ MODULE Spending ------------------------------
(***************************************************************************)
(* Purchase expenses, next to the purchases of an order: what the branch   *)
(* spends without an order.  Every change of an expense reads it without a *)
(* lock, checks its status and saves it later.                             *)
(***************************************************************************)
EXTENDS Offers

CONSTANTS
  Expenses,             \* expenses that clients may create
  NewExpenseStatuses    \* statuses that clients write to an expense

ExpenseStatuses == {"PENDING", "APPROVED", "PAID", "REJECTED", "CANCELLED"}
ASSUME SpendingAssumption == NewExpenseStatuses \subseteq ExpenseStatuses

VARIABLE expenses   \* PurchaseExpense rows: the status, and whether approved_by is set

allVars == <<vars, expenses>>

NoExpense == [status |-> "ABSENT", approved |-> FALSE]

AllInit == Init /\ expenses = [e \in Expenses |-> NoExpense]

Rest == <<clients, goods, money, returns, sentBack>>

Spent(e) == expenses[e].status # "ABSENT"
NewExpense(e) ==
  \A v \in Workers : ~(job[v].step \in {"expense_edit", "expense_save"} /\ job[v].expense = e)

\* Clients write the status of a new expense.
CreateExpense(w) ==
  /\ Takes(w, "create_expense")
  /\ \E e \in Expenses, s \in NewExpenseStatuses :
       /\ ~Spent(e)
       /\ NewExpense(e)
       /\ expenses' = [expenses EXCEPT ![e] = [NoExpense EXCEPT !.status = s]]
  /\ UNCHANGED <<Rest, job>>

\* PATCH is refused for an expense that was paid when it was read.
ExpenseEditLoad(w) ==
  /\ Takes(w, "edit_expense")
  /\ \E e \in Expenses :
       /\ expenses[e].status \notin {"ABSENT", "PAID"}
       /\ \E s \in NewExpenseStatuses \union {expenses[e].status} :
            Becomes(w, [step |-> "expense_edit", expense |-> e,
                        row |-> [expenses[e] EXCEPT !.status = s]])
  /\ UNCHANGED <<Rest, expenses>>

\* The whole row is saved, inserted again when it has been deleted.
ExpenseEditSave(w) ==
  /\ At(w, "expense_edit")
  /\ expenses' = [expenses EXCEPT ![job[w].expense] = job[w].row]
  /\ Respond(w)
  /\ UNCHANGED Rest

ExpenseTransitions ==
  [PENDING   |-> {"APPROVED", "PAID", "REJECTED", "CANCELLED"},
   APPROVED  |-> {"PAID", "REJECTED", "CANCELLED"},
   PAID      |-> {},
   REJECTED  |-> {"PENDING", "CANCELLED"},
   CANCELLED |-> {"PENDING"}]

\* Mutant: payment by update_status does not note who approved the expense.
SignsOnApproval(row, s) == s = "APPROVED"

\* update_status notes who approves, and for a payment who pays when nobody had
\* approved.
Signs(row, s) == s = "APPROVED" \/ (s = "PAID" /\ ~row.approved)

ExpenseStatusLoad(w) ==
  /\ Takes(w, "expense_status")
  /\ \E e \in Expenses :
       /\ Spent(e)
       /\ \E s \in ExpenseTransitions[expenses[e].status] :
            Becomes(w, [step |-> "expense_save", expense |-> e, status |-> s,
                        signed |-> Signs(expenses[e], s)])
  /\ UNCHANGED <<Rest, expenses>>

\* approve and mark_paid: the approver is saved with the status.
ApproveExpenseLoad(w) ==
  \E e \in Expenses :
    /\ \/ /\ Takes(w, "approve_expense")
          /\ expenses[e].status = "PENDING"
          /\ Becomes(w, [step |-> "expense_save", expense |-> e, status |-> "APPROVED",
                         signed |-> TRUE])
       \/ /\ Takes(w, "pay_expense")
          /\ expenses[e].status \in {"PENDING", "APPROVED"}
          /\ Becomes(w, [step |-> "expense_save", expense |-> e, status |-> "PAID",
                         signed |-> TRUE])
    /\ UNCHANGED <<Rest, expenses>>

\* Only the fields that the request changed are saved.
ExpenseStatusSave(w) ==
  LET e == job[w].expense
  IN /\ At(w, "expense_save")
     /\ Spent(e)
     /\ expenses' = [expenses EXCEPT ![e] =
          [status |-> job[w].status, approved |-> @.approved \/ job[w].signed]]
     /\ Respond(w)
     /\ UNCHANGED Rest

DeleteExpense(w) ==
  /\ Takes(w, "delete_expense")
  /\ \E e \in Expenses :
       /\ Spent(e)
       /\ expenses' = [expenses EXCEPT ![e] = NoExpense]
  /\ UNCHANGED <<Rest, job>>

ExpenseStep(w) ==
  \/ CreateExpense(w) \/ ExpenseEditLoad(w) \/ ExpenseEditSave(w)
  \/ ExpenseStatusLoad(w) \/ ApproveExpenseLoad(w) \/ ExpenseStatusSave(w)
  \/ DeleteExpense(w)

AllNext ==
  \/ Next /\ UNCHANGED expenses
  \/ \E w \in Workers : ExpenseStep(w)

AllSpec == AllInit /\ [][AllNext]_allVars

----------------------------------------------------------------------------
\* The rows of the order and of its documents, and those of expenses.
AllTypeOK ==
  /\ TypeOK
  /\ expenses \in [Expenses -> [status : ExpenseStatuses \union {"ABSENT"}, approved : BOOLEAN]]

\* An expense that is paid has been approved by somebody: whoever pays an expense
\* that nobody approved answers for it, in update_status as in mark_paid, although
\* each decides that from a row it read before others approved, rejected or paid.
\* A PATCH that overlaps a payment may take the approver away again.
PaidApproved ==
  Without({"edit_expense"},
    "PAID" \notin NewExpenseStatuses =>
      \A e \in Expenses : expenses[e].status = "PAID" => expenses[e].approved)
=============================================================================
