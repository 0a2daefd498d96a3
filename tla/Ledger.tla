------------------------------- MODULE Ledger -------------------------------
(***************************************************************************)
(* The documents of apps/finance that are posted to the general ledger:    *)
(* manual journals, receivable invoices and payable bills.                 *)
(*                                                                         *)
(* Every request reads its document without a lock and acts on it later.   *)
(* Lines are abstracted to their total, and the accounts to one account    *)
(* that every posting moves.  Matching, attachments and credit limits are  *)
(* taken as given.                                                         *)
(***************************************************************************)
EXTENDS Integers, Sequences, FiniteSets, FiniteSetsExt, SequencesExt

CONSTANTS
  Workers,                    \* web processes
  Journals, Invoices, Bills,  \* rows that clients and reversals may create
  Totals,                     \* totals of their lines
  Starts,                     \* the request kinds of a behaviour, and whether they overlap
  MaxLines                    \* bound: sets of lines that a document is given

Documents == Journals \union Invoices \union Bills

ASSUME LedgerAssumption ==
  /\ IsFiniteSet(Documents)
  /\ Journals \intersect (Invoices \union Bills) = {}
  /\ Invoices \intersect Bills = {}
  /\ "none" \notin Documents
  /\ Totals \subseteq Nat \ {0}
  /\ \A s \in Starts : s.overlap \in BOOLEAN
  /\ MaxLines \in Nat \ {0}

VARIABLES
  clients,   \* the request kinds that clients send in this behaviour
  overlap,   \* whether requests are served at the same time
  papers,    \* JournalEntry, ReceivableInvoice and PayableBill rows
  lines,     \* how many sets of lines a document has been given; it has the last
  ledger,    \* LedgerEntry rows of each document, one per set of lines posted
  account,   \* ChartOfAccount.current_balance
  job        \* what each worker is doing

documents == <<papers, lines, ledger, account>>

Absent == [status |-> "ABSENT", total |-> 0, paid |-> 0, from |-> "none"]
Drafted(total) == [Absent EXCEPT !.status = "DRAFT", !.total = total]
Idle == [step |-> "idle"]

StatusesOf(d) ==
  {"ABSENT", "DRAFT"} \union
    (IF d \in Journals
     THEN {"PENDING_APPROVAL", "APPROVED", "REJECTED", "POSTED", "REVERSED"}
     ELSE IF d \in Invoices
     THEN {"CANCELLED", "OPEN", "PARTIALLY_PAID", "PAID"}
     ELSE {"PENDING_APPROVAL", "APPROVED", "REJECTED", "POSTED", "PARTIALLY_PAID", "PAID"})

LedgerInit ==
  /\ \E s \in Starts : clients = s.kinds /\ overlap = s.overlap
  /\ papers = [d \in Documents |-> Absent]
  /\ lines = [d \in Documents |-> 0]
  /\ ledger = [d \in Documents |-> <<>>]
  /\ account = 0
  /\ job = [w \in Workers |-> Idle]

Others(w) == Workers \ {w}
At(w, step) == job[w].step = step
Becomes(w, next) == job' = [job EXCEPT ![w] = next]
Respond(w) == Becomes(w, Idle)
Present(d) == papers[d].status # "ABSENT"

\* Worker w takes a request of one of the kinds.
Takes(w, kind) ==
  /\ At(w, "idle")
  /\ kind \in clients
  /\ overlap \/ \A v \in Others(w) : At(v, "idle")

\* Keys of new rows are new: no row, entry or request knows them.
NewKey(d) ==
  /\ ~Present(d) /\ ledger[d] = <<>>
  /\ \A v \in Workers : "document" \in DOMAIN job[v] => job[v].document # d

\* entry_number is the number of journals so far plus one, and unique: a journal
\* waits for one that is being inserted.
Numbered(w) ==
  \A v \in Others(w) : ~(At(v, "booking") /\ job[v].source # "none")

----------------------------------------------------------------------------
(* Drafts. *)

CreateDocument(w) ==
  /\ \E d \in Documents, total \in Totals :
       /\ Takes(w, IF d \in Journals THEN "create_journal"
                   ELSE IF d \in Invoices THEN "create_invoice" ELSE "create_bill")
       /\ NewKey(d)
       /\ d \in Journals => Numbered(w)
       /\ papers' = [papers EXCEPT ![d] = Drafted(total)]
       /\ lines' = [lines EXCEPT ![d] = 1]
  /\ UNCHANGED <<clients, overlap, ledger, account, job>>

Editable(d) ==
  papers[d].status \in IF d \in Invoices THEN {"DRAFT"} ELSE {"DRAFT", "REJECTED"}

EditLoad(w) ==
  /\ Takes(w, "edit")
  /\ \E d \in Documents, total \in Totals :
       /\ Editable(d)
       /\ Becomes(w, [step |-> "edit", document |-> d,
                      row |-> [papers[d] EXCEPT !.total = total]])
  /\ UNCHANGED <<clients, overlap, documents>>

\* The whole row is saved as it was read, inserted again when it is gone, and
\* its lines are new.
EditSave(w) ==
  LET d == job[w].document
  IN /\ At(w, "edit")
     /\ lines[d] < MaxLines
     /\ papers' = [papers EXCEPT ![d] = job[w].row]
     /\ lines' = [lines EXCEPT ![d] = @ + 1]
     /\ Respond(w)
     /\ UNCHANGED <<clients, overlap, ledger, account>>

\* Only the status of a journal is looked at.
DeleteLoad(w) ==
  /\ Takes(w, "delete")
  /\ \E d \in Documents :
       /\ IF d \in Journals THEN Editable(d) ELSE Present(d)
       /\ Becomes(w, [step |-> "delete", document |-> d])
  /\ UNCHANGED <<clients, overlap, documents>>

\* Payments protect their document, reversals lose their link to it.
DeleteSave(w, protected) ==
  LET d == job[w].document
  IN /\ At(w, "delete")
     /\ d \notin protected
     /\ papers' = [x \in Documents |->
          IF x = d THEN Absent
          ELSE IF papers[x].from = d THEN [papers[x] EXCEPT !.from = "none"] ELSE papers[x]]
     /\ Respond(w)
     /\ UNCHANGED <<clients, overlap, lines, ledger, account>>

----------------------------------------------------------------------------
(* Workflow. *)

\* Requests that only change the status: from which, to which, of what.
StatusMoves ==
  {[kind |-> "submit", from |-> {"DRAFT", "REJECTED"}, to |-> "PENDING_APPROVAL",
    of |-> Journals \union Bills],
   [kind |-> "approve", from |-> {"PENDING_APPROVAL"}, to |-> "APPROVED",
    of |-> Journals \union Bills],
   [kind |-> "reject", from |-> {"PENDING_APPROVAL"}, to |-> "REJECTED",
    of |-> Journals \union Bills],
   [kind |-> "cancel", from |-> {"DRAFT"}, to |-> "CANCELLED", of |-> Invoices]}

StatusLoad(w) ==
  /\ \E move \in StatusMoves, d \in Documents :
       /\ Takes(w, move.kind)
       /\ d \in move.of
       /\ papers[d].status \in move.from
       /\ Becomes(w, [step |-> "status", document |-> d, status |-> move.to])
  /\ UNCHANGED <<clients, overlap, documents>>

\* The status is written over whatever it is by now.
StatusSave(w) ==
  LET d == job[w].document
  IN /\ At(w, "status")
     /\ Present(d)
     /\ papers' = [papers EXCEPT ![d].status = job[w].status]
     /\ Respond(w)
     /\ UNCHANGED <<clients, overlap, lines, ledger, account>>

----------------------------------------------------------------------------
(* Posting. *)

\* Mutant: invoices and bills share the status that posting gives.
PostedStatusShared(d) == "POSTED"

PostedStatus(d) == IF d \in Invoices THEN "OPEN" ELSE "POSTED"

PostLoad(w) ==
  /\ Takes(w, "post")
  /\ \E d \in Documents :
       /\ papers[d].status = IF d \in Invoices THEN "DRAFT" ELSE "APPROVED"
       /\ Becomes(w, [step |-> "post", document |-> d, total |-> papers[d].total])
  /\ UNCHANGED <<clients, overlap, documents>>

\* Journals are posted as their lines are read; the entries of invoices and bills
\* are numbered by the document, those of journals by their lines.
PostRead(w) ==
  LET d == job[w].document
  IN /\ At(w, "post")
     /\ d \in Journals => Present(d)
     /\ Becomes(w, [step |-> "booking", document |-> d, source |-> "none",
                    key |-> IF d \in Journals THEN lines[d] ELSE 0,
                    amount |-> IF d \in Journals THEN papers[d].total ELSE job[w].total,
                    balance |-> account])
     /\ UNCHANGED <<clients, overlap, documents>>

\* A posted journal without a posted reversal is reversed ...
ReverseLoad(w) ==
  /\ Takes(w, "reverse")
  /\ \E j \in Journals :
       /\ papers[j].status = "POSTED"
       /\ \A r \in Journals : papers[r].from = j => papers[r].status # "POSTED"
       /\ Becomes(w, [step |-> "reverse", source |-> j])
  /\ UNCHANGED <<clients, overlap, documents>>

\* ... by a journal with its lines turned round, posted at once.
ReverseRead(w) ==
  LET j == job[w].source
  IN /\ At(w, "reverse")
     /\ Present(j)
     /\ Numbered(w)
     /\ \E r \in Journals :
          /\ NewKey(r)
          /\ Becomes(w, [step |-> "booking", document |-> r, source |-> j, key |-> 1,
                         amount |-> -papers[j].total, balance |-> account])
     /\ UNCHANGED <<clients, overlap, documents>>

\* Mutant: entry numbers are not unique.
NewEntryUnchecked(d, key) == TRUE

\* LedgerEntry.entry_number is unique.
NewEntry(d, key) == \A n \in DOMAIN ledger[d] : ledger[d][n].key # key

\* Posting a bill writes entries and leaves the balance of the account alone.
PostCommit(w) ==
  LET d == job[w].document
      j == job[w].source
      amount == job[w].amount
  IN /\ At(w, "booking")
     /\ NewEntry(d, job[w].key)
     /\ ledger' = [ledger EXCEPT ![d] = Append(@, [key |-> job[w].key, amount |-> amount])]
     /\ account' = IF d \in Bills THEN account ELSE job[w].balance + amount
     /\ IF j = "none"
        THEN /\ Present(d)
             /\ papers' = [papers EXCEPT ![d].status = PostedStatus(d)]
             /\ UNCHANGED lines
        ELSE /\ Present(j)
             /\ papers' = [papers EXCEPT ![j].status = "REVERSED",
                             ![d] = [status |-> "POSTED", total |-> amount, paid |-> 0,
                                     from |-> j]]
             /\ lines' = [lines EXCEPT ![d] = 1]
     /\ Respond(w)
     /\ UNCHANGED <<clients, overlap>>

LedgerStep(w, protected) ==
  \/ CreateDocument(w) \/ EditLoad(w) \/ EditSave(w) \/ DeleteLoad(w) \/ DeleteSave(w, protected)
  \/ StatusLoad(w) \/ StatusSave(w) \/ PostLoad(w) \/ PostRead(w)
  \/ ReverseLoad(w) \/ ReverseRead(w) \/ PostCommit(w)

----------------------------------------------------------------------------
(* Properties. *)

\* What holds unless clients send all of the given kinds of request.
Unless(kinds, P) == kinds \subseteq clients \/ P

LedgerTypes ==
  /\ clients \in {s.kinds : s \in Starts}
  /\ overlap \in BOOLEAN
  /\ papers \in [Documents -> [status : UNION {StatusesOf(d) : d \in Documents},
                               total : Int, paid : Nat, from : Journals \union {"none"}]]
  /\ \A d \in Documents : papers[d].status \in StatusesOf(d)
  /\ lines \in [Documents -> 0..MaxLines]
  /\ ledger \in [Documents -> Seq([key : 0..MaxLines, amount : Int])]
  /\ account \in Int

Accounted == {"POSTED", "REVERSED", "OPEN", "PARTIALLY_PAID", "PAID"}

\* Whatever stale status is written over another, a document that shows itself as
\* posted has its entries in the ledger, and no document has them twice: only an
\* edit that races the workflow gives a posted journal lines that can be posted
\* again.  Requests served one at a time reverse a journal once.
LedgerOnce ==
  /\ \A d \in Documents :
       /\ papers[d].status \in Accounted => ledger[d] # <<>>
       /\ (d \in Journals /\ "edit" \in clients /\ overlap) \/ Len(ledger[d]) <= 1
  /\ ~overlap => \A j \in Journals : papers[j].status = "REVERSED" =>
                   Cardinality({r \in Journals : papers[r].from = j}) <= 1
=============================================================================
