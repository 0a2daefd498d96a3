----------------------------- MODULE Purchases -----------------------------
(***************************************************************************)
(* Vendor credits, and the purchases of one order as a whole: receiving,   *)
(* bills, payments, returns and credits served by the same workers.        *)
(*                                                                         *)
(* A credit is synchronised with its return, approved, applied to bills,   *)
(* voided: update_status and approve lock the credit before they read it,  *)
(* post and void do not.                                                   *)
(***************************************************************************)
EXTENDS Payables

CONSTANT MaxCredit   \* bound: the total of a credit that clients create

----------------------------------------------------------------------------
(* Synchronisation of a credit with its return. *)

Linked(c) == credits[c].of # "none"

LinesOf(c) ==
  IF credits[c].lines = 0 THEN returns[credits[c].of].quantity ELSE credits[c].lines

\* Bills that a credit may be planned for, in the order of their due dates.
OpenBills == {b \in Bills : /\ bills[b].balance > 0
                            /\ bills[b].status \notin {"ABSENT", "DRAFT", "PAID"}}

\* A credit spread over the open bills: each gets what the ones before leave.
Spread(total) ==
  [b \in Bills |->
     IF b \in OpenBills
     THEN Max({0, Min({bills[b].balance,
            total - SumFunctionOnSet([x \in Bills |-> bills[x].balance],
                                     {x \in OpenBills : x < b})})})
     ELSE 0]

\* The applications after _sync_return_credit_content: planned once.
PlanOf(c) == IF Linked(c) /\ planned[c] = Nothing THEN Spread(LinesOf(c)) ELSE planned[c]

\* The credit after it: lines made once, totals from the lines, nothing applied
\* before it is posted.
Synced(c) ==
  IF ~Linked(c) THEN credits[c]
  ELSE [credits[c] EXCEPT
          !.lines = LinesOf(c), !.total = LinesOf(c),
          !.applied = IF credits[c].posted THEN @ ELSE 0,
          !.remaining = IF credits[c].posted THEN @ ELSE LinesOf(c)]

\* Bills are locked by the plan that is made and by the one that is applied.
PlanFree(w, plan) == \A b \in Bills : plan[b] > 0 => BillFree(w, b)

\* retrieve writes: it locks and synchronises a credit that has no lines or no
\* plan, and so do approve and update_status when they change nothing else.
ViewCredit(w) ==
  /\ Takes(w, "view_credit")
  /\ \E c \in Credits :
       /\ credits[c].status # "ABSENT"
       /\ Linked(c)
       /\ credits[c].lines = 0 \/ planned[c] = Nothing
       /\ PlanFree(w, PlanOf(c))
       /\ credits' = [credits EXCEPT ![c] = Synced(c)]
       /\ planned' = [planned EXCEPT ![c] = PlanOf(c)]
  /\ UNCHANGED <<clients, goods, job, bills, billed, payments, taken, returns, sentBack>>

----------------------------------------------------------------------------
(* Credits made by clients. *)

\* Plans that validation accepts: within the bills' balances and the total.
ValidPlans(total) ==
  {a \in [Bills -> 0..total] : /\ \A b \in Bills : a[b] <= bills[b].balance
                               /\ Total(a) <= total}

Drafted(r, total) == [NoCredit EXCEPT !.status = "DRAFT", !.of = r, !.lines = total,
                                      !.total = total, !.remaining = total]

\* A return that can have a credit: an approved one that has no other.
Creditable(r, c) ==
  /\ returns[r].status \in {"APPROVED", "CREDIT_ISSUED"}
  /\ CreditsOf(r) \subseteq {c}

\* The lines and the plan are validated, and the return is looked at, without a lock.
CreditLoadNew(w) ==
  /\ Takes(w, "create_credit")
  /\ \E c \in ManualCredits, r \in Returns, total \in 1..MaxCredit :
       /\ credits[c].status = "ABSENT"
       /\ NewCredit(c)
       /\ Creditable(r, c)
       /\ \E a \in ValidPlans(total) :
            Becomes(w, [step |-> "credit_new", credit |-> c, row |-> Drafted(r, total),
                        plan |-> a])
  /\ UNCHANGED <<clients, goods, money, returns, sentBack>>

\* The credit is inserted, and one without a plan gets the plan of a synchronised
\* credit; the foreign key wants the return to be there.
CreateCredit(w) ==
  LET c == job[w].credit
      row == job[w].row
      plan == IF job[w].plan = Nothing THEN Spread(row.lines) ELSE job[w].plan
  IN /\ At(w, "credit_new")
     /\ returns[row.of].status # "ABSENT"
     /\ PlanFree(w, plan)
     /\ credits' = [credits EXCEPT ![c] = row]
     /\ planned' = [planned EXCEPT ![c] = plan]
     /\ Respond(w)
     /\ UNCHANGED <<clients, goods, bills, billed, payments, taken, returns, sentBack>>

\* An edit starts from a draft and saves a draft; it may leave the plan alone.
CreditEditLoad(w) ==
  /\ Takes(w, "edit_credit")
  /\ \E c \in Credits, total \in 1..MaxCredit, keep \in BOOLEAN :
       /\ credits[c].status = "DRAFT"
       /\ Linked(c)
       /\ Creditable(credits[c].of, c)
       /\ \E a \in IF keep THEN {Nothing} ELSE ValidPlans(total) :
            Becomes(w, [step |-> "credit_save", credit |-> c, keep |-> keep,
                        row |-> Drafted(credits[c].of, total), plan |-> a])
  /\ UNCHANGED <<clients, goods, money, returns, sentBack>>

\* The whole row, with the return that it was read with, is saved back.
CreditEditSave(w) ==
  LET c == job[w].credit
  IN /\ At(w, "credit_save")
     /\ returns[job[w].row.of].status # "ABSENT"
     /\ credits' = [credits EXCEPT ![c] = job[w].row]
     /\ planned' = IF job[w].keep THEN planned ELSE [planned EXCEPT ![c] = job[w].plan]
     /\ Respond(w)
     /\ UNCHANGED <<clients, goods, bills, billed, payments, taken, returns, sentBack>>

\* Applications go with a deleted credit; the bills stay paid.
DeleteCredit(w) ==
  /\ Takes(w, "delete_credit")
  /\ \E c \in Credits :
       /\ credits[c].status # "ABSENT"
       /\ credits' = [credits EXCEPT ![c] = NoCredit]
       /\ planned' = [planned EXCEPT ![c] = Nothing]
       /\ taken' = [taken EXCEPT ![c] = Nothing]
  /\ UNCHANGED <<clients, goods, job, bills, billed, payments, returns, sentBack>>

----------------------------------------------------------------------------
(* Approval, application, voiding. *)

\* The return of an approved or applied credit is marked so again.
Issued(c) ==
  IF Linked(c) THEN [returns EXCEPT ![credits[c].of].status = "CREDIT_ISSUED"] ELSE returns

ApproveCredit(w) ==
  /\ Takes(w, "approve_credit")
  /\ \E c \in Credits :
       /\ credits[c].status = "OPEN"
       /\ ~credits[c].posted
       /\ PlanFree(w, PlanOf(c))
       /\ credits' = [credits EXCEPT ![c] =
            [Synced(c) EXCEPT !.status = "APPROVED", !.applied = 0,
                              !.remaining = Synced(c).total]]
       /\ planned' = [planned EXCEPT ![c] = PlanOf(c)]
       /\ returns' = Issued(c)
  /\ UNCHANGED <<clients, goods, job, bills, billed, payments, taken, sentBack>>

\* Mutant: what is planned is taken, whatever the bill still owes.
AmountsUncapped(plan) == plan

\* What a plan takes off the bills.
Amounts(plan) == [b \in Bills |-> Min({plan[b], bills[b].balance})]

\* A bill after a credit: what is paid is what is no longer owed.
Credited(b, amount) ==
  LET left == Max({0, bills[b].balance - amount})
      paid == Max({0, bills[b].total - left})
  IN [bills[b] EXCEPT !.balance = left, !.paid = paid, !.status = Settled(paid, left)]

BillsAfter(plan) ==
  [b \in Bills |-> IF Amounts(plan)[b] > 0 THEN Credited(b, Amounts(plan)[b]) ELSE bills[b]]

\* A credit of which so much has been applied.
Applied(row, applied) ==
  LET left == Max({0, row.total - applied})
  IN [row EXCEPT !.applied = applied, !.remaining = left, !.posted = TRUE,
                 !.status = IF left = 0 THEN "FULLY_APPLIED"
                            ELSE IF applied > 0 THEN "PARTIALLY_APPLIED" ELSE "OPEN"]

Takings(c, plan) == [taken EXCEPT ![c] = [b \in Bills |-> @[b] + Amounts(plan)[b]]]

\* Mutant: an open credit that has been posted is applied again.
OpenableAgain(c) == credits[c].status \notin {"ABSENT", "VOID", "APPROVED"}

Openable(c) ==
  \/ credits[c].status = "DRAFT"
  \/ credits[c].status = "OPEN" /\ ~credits[c].posted

\* update_status to OPEN applies the credit under its lock.
OpenCredit(w) ==
  /\ Takes(w, "open_credit")
  /\ \E c \in Credits :
       LET plan == PlanOf(c)
       IN /\ Openable(c)
          /\ PlanFree(w, plan)
          /\ bills' = BillsAfter(plan)
          /\ credits' = [credits EXCEPT ![c] = Applied(Synced(c), Total(Amounts(plan)))]
          /\ planned' = [planned EXCEPT ![c] = plan]
          /\ taken' = Takings(c, plan)
          /\ returns' = Issued(c)
  /\ UNCHANGED <<clients, goods, job, billed, payments, sentBack>>

\* update_status to VOID, under the lock.
VoidLocked(w) ==
  /\ Takes(w, "void_status")
  /\ \E c \in Credits :
       /\ credits[c].status \notin {"ABSENT", "VOID"}
       /\ Synced(c).applied = 0
       /\ PlanFree(w, PlanOf(c))
       /\ credits' = [credits EXCEPT ![c] = [Synced(c) EXCEPT !.status = "VOID"]]
       /\ planned' = [planned EXCEPT ![c] = PlanOf(c)]
  /\ UNCHANGED <<clients, goods, job, bills, billed, payments, taken, returns, sentBack>>

\* post and void read the credit without a lock.
CreditLoad(w) ==
  /\ \E c \in Credits :
       \/ /\ Takes(w, "post_credit")
          /\ credits[c].status \in {"APPROVED", "OPEN"}
          /\ Becomes(w, [step |-> "credit_post", credit |-> c, row |-> credits[c],
                         plan |-> planned[c]])
       \/ /\ Takes(w, "void_credit")
          /\ credits[c].status # "ABSENT"
          /\ credits[c].applied = 0
          /\ Becomes(w, [step |-> "credit_void", credit |-> c])
  /\ UNCHANGED <<clients, goods, money, returns, sentBack>>

\* The bills are locked, the credit is not; its totals are those that were read.
PostSave(w) ==
  LET c == job[w].credit
      plan == job[w].plan
      row == Applied(job[w].row, Total(Amounts(plan)))
  IN /\ At(w, "credit_post")
     /\ credits[c].status # "ABSENT"
     /\ PlanFree(w, plan)
     /\ bills' = BillsAfter(plan)
     /\ credits' = [credits EXCEPT ![c] =
          [@ EXCEPT !.applied = row.applied, !.remaining = row.remaining,
                    !.status = row.status, !.posted = TRUE]]
     /\ taken' = Takings(c, plan)
     /\ Respond(w)
     /\ UNCHANGED <<clients, goods, billed, payments, planned, returns, sentBack>>

VoidSave(w) ==
  LET c == job[w].credit
  IN /\ At(w, "credit_void")
     /\ credits[c].status # "ABSENT"
     /\ credits' = [credits EXCEPT ![c].status = "VOID"]
     /\ Respond(w)
     /\ UNCHANGED <<clients, goods, bills, billed, payments, planned, taken, returns, sentBack>>

----------------------------------------------------------------------------
BillStep(w) ==
  \/ BillLoad(w) \/ BillHeaderLoad(w) \/ BillSave(w)
  \/ ApproveLoad(w) \/ ApproveSave(w) \/ DeleteBill(w)
  \/ MakePayment(w) \/ DeletePayment(w)

ReturnStep(w) ==
  \/ CreateReturn(w) \/ ReturnStatusLoad(w) \/ ReturnEditLoad(w) \/ ReturnSave(w)
  \/ ReturnApproveLoad(w) \/ ReturnApproveSave(w) \/ DeleteReturn(w)

CreditStep(w) ==
  \/ ViewCredit(w) \/ CreditLoadNew(w) \/ CreateCredit(w) \/ CreditEditLoad(w) \/ CreditEditSave(w)
  \/ DeleteCredit(w) \/ ApproveCredit(w) \/ OpenCredit(w) \/ VoidLocked(w)
  \/ CreditLoad(w) \/ PostSave(w) \/ VoidSave(w)

Next == \E w \in Workers : Goods(w) \/ BillStep(w) \/ ReturnStep(w) \/ CreditStep(w)

Spec == Init /\ [][Next]_vars

----------------------------------------------------------------------------
(* Properties. *)

Amount == [Bills -> Nat]

\* Every row keeps the shape of its table, and amounts never become negative.
TypeOK ==
  /\ ReceivingTypes
  /\ bills \in [Bills -> BillRows]
  /\ billed \in [Bills -> [receipt : Receipts \union {"none"}, quantity : Nat, largest : Nat]]
  /\ payments \in [Payments -> Amount]
  /\ returns \in [Returns -> [status : ReturnStatuses \union {"ABSENT"},
                              receipt : Receipts \union {"none"}, quantity : Nat,
                              largest : Nat]]
  /\ sentBack \in [Returns -> Nat]
  /\ credits \in [Credits -> [status : CreditStatuses \union {"ABSENT"},
                     of : Returns \union {"none"}, lines : Nat, total : Nat, applied : Nat, remaining : Nat, posted : BOOLEAN]]
  /\ planned \in [Credits -> Amount]
  /\ taken \in [Credits -> Amount]

\* What is paid and what is owed add up to the bill's total, whichever of a
\* payment, a credit, an approval and an edit saved the row last.
BillBalanced == \A b \in Bills : bills[b].paid + bills[b].balance = bills[b].total

\* What payments and credits have put on a bill.
Backing(b) ==
  SumFunctionOnSet([p \in Payments |-> payments[p][b]], Payments)
    + SumFunctionOnSet([c \in Credits |-> taken[c][b]], Credits)

\* A bill is paid by what payments and credits have put on it, by no more when it
\* is edited meanwhile and by exactly that, while it is there, when not: concurrent
\* payments lose nothing.  A credit takes off bills what it says it has applied, at most its
\* total, and nothing when it is void, while it is used by requests that lock it.
PaidBacked ==
  /\ Without({"delete_payment", "delete_credit"},
       \A b \in Bills : /\ bills[b].paid <= Backing(b)
                        /\ "edit_bill" \notin clients /\ bills[b].status # "ABSENT" =>
                             bills[b].paid = Backing(b))
  /\ Without({"post_credit", "void_credit", "edit_credit"},
       \A c \in Credits : /\ Total(taken[c]) = credits[c].applied
                          /\ credits[c].applied <= credits[c].total
                          /\ credits[c].status = "VOID" => credits[c].applied = 0)

ApprovedFor(g) == {b \in Bills : bills[b].approved /\ billed[b].receipt = g}
CreditedFor(g) == {r \in Returns : returns[r].status = "CREDIT_ISSUED" /\ returns[r].receipt = g}

\* The approved bills of a receipt never claim more than the receipt's goods,
\* although bills are validated without a lock: approve counts all other bills.
\* Nor do its credited returns, unless returns are withdrawn or edited while one
\* is being approved.  Of each document its largest item counts, which is all of it
\* unless clients repeat a receipt in one document: items of one document are not
\* added up anywhere, so that together they may claim the same goods again.
WithinAccepted ==
  \A g \in Receipts :
    /\ SumFunctionOnSet([b \in Bills |-> billed[b].largest], ApprovedFor(g)) <= Billable(g)
    /\ Without({"withdraw_return", "edit_return"},
         NewReturnStatuses \subseteq {"DRAFT", "PENDING_APPROVAL"} =>
           SumFunctionOnSet([r \in Returns |-> returns[r].largest], CreditedFor(g)) <= Billable(g))

\* The items of bills and of returns stay within what was accepted, and what is
\* paid and due add up to the bill.
BillsFit == BillBalanced /\ WithinAccepted
=============================================================================
