----------------------------- MODULE SalesProofs -----------------------------
(***************************************************************************)
(* Sales for every value of the constants of Aftersales: one journal of    *)
(* what each document shows (the locks of the saved rows), rows of their   *)
(* types, orders with their stock reserved, payments counted, the books,   *)
(* what follows an order, and the screens that show all of it.             *)
(***************************************************************************)
EXTENDS Screens, Sums

Booking == {"invoice_booking", "void_booking", "payment_booking"}
ForInvoice == {"invoice_booking", "void_booking", "invoice_edit", "invoice_void",
               "invoice_delete", "convert"}
NewPayment == {"payment", "payment_inserted"}
ForPayment == NewPayment \union {"payment_booking", "payment_edit", "payment_delete"}

Carries(j) == "document" \in DOMAIN j

JobOK(j) ==
  /\ j.step \in ForInvoice => Carries(j) /\ j.document \in Invoices
  /\ j.step \in ForPayment => Carries(j) /\ j.document \in Payments
  /\ j.step = "idle" => ~Carries(j)

\* At most one journal, whatever its amount.
Few(amounts) == amounts = <<>> \/ amounts = <<amounts[1]>>

Tables ==
  /\ posted = [d \in Documents |-> posted[d]]
  /\ payments = [p \in Payments |-> payments[p]]
  /\ job = [w \in Workers |-> job[w]]

\* A transaction that books a document has seen the journals that it has, and no
\* other books it; a new payment is known to its own request alone.
BookedAlone ==
  /\ \A w \in Workers : job[w].step \in Booking => job[w].seen = posted[job[w].document]
  /\ \A w, v \in Workers :
       w # v /\ job[w].step \in Booking /\ job[v].step \in Booking
         => job[w].document # job[v].document
  /\ \A w \in Workers : job[w].step \in NewPayment =>
       /\ payments[job[w].document].status = "ABSENT"
       /\ \A v \in Others(w) : Carries(job[v]) => job[v].document # job[w].document

Sound ==
  /\ Tables
  /\ \A w \in Workers : JobOK(job[w])
  /\ \A d \in Documents : Few(posted[d])
  /\ BookedAlone

----
(* Operators. *)

LEMMA TailOfOne ==
  ASSUME NEW x
  PROVE  Tail(<<x>>) = <<>>
OBVIOUS

LEMMA PostedFew ==
  ASSUME NEW amounts, Few(amounts), NEW x
  PROVE  Few(Posted(amounts, x))
<1>1. Few(<<x>>)
  BY DEF Few
<1> QED BY <1>1 DEF Posted

LEMMA ReversedNone ==
  ASSUME NEW amounts, Few(amounts)
  PROVE  Reversed(amounts) = <<>>
BY TailOfOne DEF Few, Reversed

LEMMA RepostedOne ==
  ASSUME NEW amounts, Few(amounts), NEW x
  PROVE  Reposted(amounts, x) = <<x>>
BY ReversedNone DEF Reposted, Posted

LEMMA FewShort ==
  ASSUME NEW amounts, Few(amounts)
  PROVE  Len(amounts) <= 1
BY DEF Few

LEMMA IdleOK == JobOK(Idle) /\ ~Carries(Idle) /\ Idle.step = "idle"
BY DEF JobOK, Idle, Carries, ForInvoice, ForPayment, NewPayment

LEMMA InitSound == AllInit => Sound
<1> SUFFICES ASSUME AllInit PROVE Sound
  OBVIOUS
<1>1. Tables
  BY DEF AllInit, Init, SellingInit, Tables
<1>2. \A w \in Workers : job[w] = Idle
  BY DEF AllInit, Init, SellingInit
<1>3. \A d \in Documents : Few(posted[d])
  BY DEF AllInit, Init, Few
<1>4. BookedAlone
  BY <1>2, IdleOK DEF BookedAlone, Booking, NewPayment
<1> QED BY <1>1, <1>2, <1>3, <1>4, IdleOK DEF Sound

----
(* Steps. *)

\* What a request may become while others go on.
Fits(w, j) ==
  /\ JobOK(j)
  /\ j.step \in Booking =>
       /\ j.seen = posted[j.document]
       /\ \A v \in Others(w) : job[v].step \in Booking => job[v].document # j.document
  /\ j.step \in NewPayment =>
       /\ payments[j.document].status = "ABSENT"
       /\ \A v \in Others(w) : Carries(job[v]) => job[v].document # j.document
  /\ Carries(j) =>
       \A v \in Others(w) : job[v].step \in NewPayment => job[v].document # j.document

\* Requests that carry no document fit anywhere.
LEMMA OtherFits ==
  ASSUME NEW w, NEW j, ~Carries(j), j.step \notin ForInvoice \union ForPayment
  PROVE  Fits(w, j)
BY DEF Fits, JobOK, Booking, NewPayment, ForInvoice, ForPayment

\* A step of w that books nothing.
LEMMA MoveStep ==
  ASSUME Sound, UNCHANGED <<posted, payments>>, NEW w \in Workers, NEW j,
         job' = [job EXCEPT ![w] = j], Fits(w, j)
  PROVE  Sound'
<1>1. \A v \in Workers : job'[v] = IF v = w THEN j ELSE job[v]
  BY DEF Sound, Tables
<1>2. Tables'
  BY DEF Sound, Tables
<1>3. \A v \in Workers : JobOK(job'[v])
  BY <1>1 DEF Sound, Fits
<1>4. BookedAlone'
  <2>1. \A v \in Workers : job'[v].step \in Booking => job'[v].seen = posted[job'[v].document]
    BY <1>1 DEF Sound, Fits, BookedAlone
  <2>2. ASSUME NEW u \in Workers, NEW v \in Workers, u # v,
               job'[u].step \in Booking, job'[v].step \in Booking
        PROVE  job'[u].document # job'[v].document
    BY <1>1, <2>2 DEF Sound, Fits, BookedAlone, Others
  <2>3. ASSUME NEW u \in Workers, job'[u].step \in NewPayment
        PROVE  /\ payments[job'[u].document].status = "ABSENT"
               /\ \A v \in Others(u) : Carries(job'[v]) => job'[v].document # job'[u].document
    BY <1>1, <2>3 DEF Sound, Fits, BookedAlone, Others
  <2> QED BY <2>1, <2>2, <2>3 DEF BookedAlone, Others
<1> QED BY <1>1, <1>2, <1>3, <1>4 DEF Sound, JobOK, Carries, Few

\* The commit of w: only its own document is booked, and only its own payment
\* is written.
LEMMA CommitStep ==
  ASSUME Sound, NEW w \in Workers, job' = [job EXCEPT ![w] = Idle],
         posted' = [d \in Documents |-> posted'[d]],
         payments' = [p \in Payments |-> payments'[p]],
         \A d \in Documents : Few(posted'[d]),
         \A d \in Documents : posted'[d] # posted[d] =>
           \A v \in Others(w) : job[v].step \in Booking => job[v].document # d,
         \A p \in Payments : payments'[p].status = payments[p].status
           \/ payments'[p].status = "ABSENT"
           \/ \A v \in Others(w) : job[v].step \in NewPayment => job[v].document # p
  PROVE  Sound'
<1>1. \A v \in Workers : job'[v] = IF v = w THEN Idle ELSE job[v]
  BY DEF Sound, Tables
<1>2. Tables'
  BY DEF Sound, Tables
<1>3. \A v \in Workers : JobOK(job'[v])
  BY <1>1, IdleOK DEF Sound
<1>4. BookedAlone'
  <2>0. \A v \in Workers : job'[v].step \in Booking \union NewPayment => v # w
    BY <1>1, IdleOK DEF Booking, NewPayment
  <2>1. ASSUME NEW v \in Workers, job'[v].step \in Booking
        PROVE  job'[v].seen = posted'[job'[v].document]
    <3>1. job[v].document \in Documents
      BY <1>1, <2>0, <2>1 DEF Sound, JobOK, Booking, ForInvoice, ForPayment, Documents
    <3> QED BY <1>1, <2>0, <2>1, <3>1 DEF Sound, BookedAlone, Others
  <2>2. ASSUME NEW u \in Workers, NEW v \in Workers, u # v,
               job'[u].step \in Booking, job'[v].step \in Booking
        PROVE  job'[u].document # job'[v].document
    BY <1>1, <2>0, <2>2 DEF Sound, BookedAlone
  <2>3. ASSUME NEW u \in Workers, job'[u].step \in NewPayment
        PROVE  /\ payments'[job'[u].document].status = "ABSENT"
               /\ \A v \in Others(u) : Carries(job'[v]) => job'[v].document # job'[u].document
    <3>1. job[u].document \in Payments
      BY <1>1, <2>0, <2>3 DEF Sound, JobOK, NewPayment, ForPayment
    <3> QED BY <1>1, <2>0, <2>3, <3>1, IdleOK DEF Sound, BookedAlone, Others
  <2> QED BY <2>1, <2>2, <2>3 DEF BookedAlone, Others
<1> QED BY <1>1, <1>2, <1>3, <1>4 DEF Sound, JobOK, Carries, Few

\* A step that writes neither journals nor payments and leaves a request without
\* a document, or every request as it is.
Plain(w) ==
  /\ UNCHANGED <<posted, payments>>
  /\ \/ UNCHANGED job
     \/ \E j : /\ ~Carries(j) /\ j.step \notin ForInvoice \union ForPayment
               /\ job' = [job EXCEPT ![w] = j]

LEMMA PlainStep ==
  ASSUME Sound, NEW w \in Workers, Plain(w)
  PROVE  Sound'
<1>1. CASE UNCHANGED job
  BY <1>1 DEF Plain, Sound, Tables, BookedAlone, JobOK, Carries, Few, Others
<1>2. CASE ~UNCHANGED job
  BY <1>2, OtherFits, MoveStep DEF Plain
<1> QED BY <1>1, <1>2

LEMMA SellingPlain ==
  ASSUME NEW w, Trade(w)
  PROVE  Plain(w)
<1>0. UNCHANGED <<posted, payments>>
  BY DEF Trade, books
<1>1. CASE ConfirmOrder(w) \/ Sell(w)
  BY <1>0, <1>1 DEF ConfirmOrder, Sell, Plain
<1>2. CASE OrderEditLoad(w)
  <2>1. PICK o \in Orders, s \in OrderEdits :
          job' = [job EXCEPT ![w] = [step |-> "order_edit", order |-> o, status |-> s]]
    BY <1>2 DEF OrderEditLoad, Becomes
  <2> QED BY <1>0, <2>1 DEF Plain, Carries, ForInvoice, ForPayment, NewPayment
<1>3. CASE VoidSaleLoad(w)
  <2>1. PICK s \in PosSales : job' = [job EXCEPT ![w] = [step |-> "sale_void", sale |-> s]]
    BY <1>3 DEF VoidSaleLoad, Becomes
  <2> QED BY <1>0, <2>1 DEF Plain, Carries, ForInvoice, ForPayment, NewPayment
<1>4. CASE OrderEditSave(w) \/ VoidSaleSave(w)
  BY <1>0, <1>4 DEF OrderEditSave, VoidSaleSave, Respond, Becomes, Plain, Carries, Idle,
                    ForInvoice, ForPayment, NewPayment
<1> QED BY <1>1, <1>2, <1>3, <1>4 DEF Trade, SellingStep

LEMMA QuotePlain ==
  ASSUME NEW w, QuoteStep(w)
  PROVE  Plain(w)
<1>0. UNCHANGED <<posted, payments>>
  BY DEF QuoteStep, QuoteLoad, QuoteSave, AnswerQuote, QuoteConvertLoad, QuoteConvertSave,
         trade, books
<1>1. CASE QuoteLoad(w)
  <2>1. PICK q \in Quotations : \E s \in QuoteEdits \union {"SENT", quotations[q]} :
          job' = [job EXCEPT ![w] = [step |-> "quote_save", quotation |-> q, status |-> s]]
    BY <1>1 DEF QuoteLoad, Becomes
  <2> QED BY <1>0, <2>1 DEF Plain, Carries, ForInvoice, ForPayment, NewPayment
<1>2. CASE QuoteConvertLoad(w)
  <2>1. PICK q \in Quotations :
          job' = [job EXCEPT ![w] = [step |-> "quote_convert", quotation |-> q]]
    BY <1>2 DEF QuoteConvertLoad, Becomes
  <2> QED BY <1>0, <2>1 DEF Plain, Carries, ForInvoice, ForPayment, NewPayment
<1>3. CASE AnswerQuote(w)
  BY <1>0, <1>3 DEF AnswerQuote, Plain
<1>4. CASE QuoteSave(w) \/ QuoteConvertSave(w)
  BY <1>0, <1>4 DEF QuoteSave, QuoteConvertSave, Respond, Becomes, Plain, Carries, Idle,
                    ForInvoice, ForPayment, NewPayment
<1> QED BY <1>1, <1>2, <1>3, <1>4 DEF QuoteStep

LEMMA NotePlain ==
  ASSUME NEW w, NoteStep(w)
  PROVE  Plain(w)
<1>0. UNCHANGED <<posted, payments>>
  BY DEF NoteStep, CreateNote, NoteLoad, NoteSave, Dispatch, DeleteNote, DeliverLoad,
         DeliverCount, DeliverCommit, trade, books
<1>1. CASE NoteLoad(w)
  <2>1. PICK n \in Notes, quantity \in Amounts, lined \in BOOLEAN :
          \E s \in NoteEdits \union {notes[n].status} :
            job' = [job EXCEPT ![w] =
              [step |-> "note_save", note |-> n, lined |-> lined,
               row |-> [notes[n] EXCEPT !.status = s, !.quantity = quantity]]]
    BY <1>1 DEF NoteLoad, Becomes
  <2> QED BY <1>0, <2>1 DEF Plain, Carries, ForInvoice, ForPayment, NewPayment
<1>2. CASE DeliverLoad(w)
  <2>1. PICK n \in Notes :
          job' = [job EXCEPT ![w] =
            [step |-> "deliver", note |-> n, order |-> notes[n].order,
             product |-> notes[n].product, quantity |-> notes[n].quantity,
             counted |-> Min({Quantity[notes[n].order][notes[n].product],
               fulfilled[notes[n].order][notes[n].product] + notes[n].quantity})]]
    BY <1>2 DEF DeliverLoad, Becomes
  <2> QED BY <1>0, <2>1 DEF Plain, Carries, ForInvoice, ForPayment, NewPayment
<1>3. CASE DeliverCount(w)
  BY <1>0, <1>3 DEF DeliverCount, Becomes, Plain, Carries, ForInvoice, ForPayment, NewPayment
<1>4. CASE CreateNote(w) \/ Dispatch(w) \/ DeleteNote(w)
  BY <1>0, <1>4 DEF CreateNote, Dispatch, DeleteNote, Plain
<1>5. CASE NoteSave(w) \/ DeliverCommit(w)
  BY <1>0, <1>5 DEF NoteSave, DeliverCommit, Respond, Becomes, Plain, Carries, Idle,
                    ForInvoice, ForPayment, NewPayment
<1> QED BY <1>1, <1>2, <1>3, <1>4, <1>5 DEF NoteStep

LEMMA ReturnPlain ==
  ASSUME NEW w, ReturnStep(w)
  PROVE  Plain(w)
<1>0. UNCHANGED <<posted, payments>>
  BY DEF ReturnStep, CreateReturnLoad, EditReturnLoad, ReturnSave, MoveReturnLoad,
         MoveReturnSave, DeleteReturn, trade, books
<1>1. CASE CreateReturnLoad(w) \/ EditReturnLoad(w)
  <2>1. \E r, lined, row : job' = [job EXCEPT ![w] =
          [step |-> "return_save", return |-> r, lined |-> lined, row |-> row]]
    BY <1>1 DEF CreateReturnLoad, EditReturnLoad, Becomes
  <2> QED BY <1>0, <2>1 DEF Plain, Carries, ForInvoice, ForPayment, NewPayment
<1>2. CASE MoveReturnLoad(w)
  <2>1. PICK r \in Returns, move \in ReturnMoves :
          job' = [job EXCEPT ![w] = [step |-> "return_move", return |-> r, status |-> move.to]]
    BY <1>2 DEF MoveReturnLoad, Becomes
  <2> QED BY <1>0, <2>1 DEF Plain, Carries, ForInvoice, ForPayment, NewPayment
<1>3. CASE DeleteReturn(w)
  BY <1>0, <1>3 DEF DeleteReturn, Plain
<1>4. CASE ReturnSave(w) \/ MoveReturnSave(w)
  BY <1>0, <1>4 DEF ReturnSave, MoveReturnSave, Respond, Becomes, Plain, Carries, Idle,
                    ForInvoice, ForPayment, NewPayment
<1> QED BY <1>1, <1>2, <1>3, <1>4 DEF ReturnStep

----
(* Invoices. *)

\* A request for an invoice that books nothing yet meets no new payment.
LEMMA InvoiceFits ==
  ASSUME Sound, NEW w \in Workers, NEW j, Carries(j), j.document \in Invoices,
         j.step \in ForInvoice \ Booking
  PROVE  Fits(w, j)
<1>1. JobOK(j) /\ j.step \notin Booking \union NewPayment
  BY DEF JobOK, ForInvoice, ForPayment, NewPayment, Booking
<1>2. \A v \in Others(w) : job[v].step \in NewPayment => job[v].document # j.document
  BY SalesAssumption DEF Sound, JobOK, Others, NewPayment, ForPayment
<1> QED BY <1>1, <1>2 DEF Fits

\* Its booking is alone when the row is free.
LEMMA InvoiceBookingFits ==
  ASSUME Sound, NEW w \in Workers, NEW j, Carries(j), j.document \in Invoices,
         j.step \in ForInvoice \intersect Booking, j.seen = posted[j.document],
         \A v \in Others(w) : job[v].step \in Booking => job[v].document # j.document
  PROVE  Fits(w, j)
<1>1. JobOK(j) /\ j.step \notin NewPayment
  BY DEF JobOK, ForInvoice, ForPayment, NewPayment, Booking
<1>2. \A v \in Others(w) : job[v].step \in NewPayment => job[v].document # j.document
  BY SalesAssumption DEF Sound, JobOK, Others, NewPayment, ForPayment
<1> QED BY <1>1, <1>2 DEF Fits

LEMMA RowFreeAlone ==
  ASSUME NEW w, NEW d, RowFree(w, d)
  PROVE  \A v \in Others(w) : job[v].step \in Booking => job[v].document # d
BY DEF RowFree, Booking

LEMMA SavingFits ==
  ASSUME Sound, NEW w \in Workers, NEW i \in Invoices, NEW row,
         \A v \in Others(w) : job[v].step \in Booking => job[v].document # i
  PROVE  Fits(w, Saving(i, row))
<1>1. /\ Carries(Saving(i, row)) /\ Saving(i, row).document = i
      /\ Saving(i, row).step = "invoice_booking" /\ Saving(i, row).seen = posted[i]
  BY DEF Saving, Carries
<1> QED BY <1>1, InvoiceBookingFits DEF ForInvoice, Booking

\* A new key is in nobody's request.
LEMMA NewKeyFree ==
  ASSUME Sound, NEW d, NewKey(d), NEW v \in Workers, Carries(job[v]), ~At(v, "idle")
  PROVE  job[v].document # d
BY DEF NewKey, Carries

LEMMA CreateInvoiceSound ==
  ASSUME Sound, NEW w \in Workers, CreateInvoice(w)
  PROVE  Sound'
<1>1. PICK i, row :
        /\ i \in Invoices /\ NewKey(i)
        /\ job' = [job EXCEPT ![w] = Saving(i, row)]
  BY DEF CreateInvoice, Becomes
<1>2. \A v \in Others(w) : job[v].step \in Booking => job[v].document # i
  BY <1>1 DEF NewKey, Sound, JobOK, Carries, Others, At, Booking, ForInvoice, ForPayment
<1>3. UNCHANGED <<posted, payments>>
  BY DEF CreateInvoice, books
<1> QED BY <1>1, <1>2, <1>3, SavingFits, MoveStep

LEMMA EditInvoiceLoadSound ==
  ASSUME Sound, NEW w \in Workers, EditInvoiceLoad(w)
  PROVE  Sound'
<1>1. PICK i \in Invoices : \E row :
        job' = [job EXCEPT ![w] = [step |-> "invoice_edit", document |-> i, row |-> row]]
  BY DEF EditInvoiceLoad, Becomes
<1>2. UNCHANGED <<posted, payments>>
  BY DEF EditInvoiceLoad, books
<1>3. ASSUME NEW row PROVE Fits(w, [step |-> "invoice_edit", document |-> i, row |-> row])
  BY InvoiceFits DEF Carries, ForInvoice, Booking
<1> QED BY <1>1, <1>2, <1>3, MoveStep

LEMMA EditInvoiceSaveSound ==
  ASSUME Sound, NEW w \in Workers, EditInvoiceSave(w)
  PROVE  Sound'
<1>1. job[w].document \in Invoices
  BY DEF EditInvoiceSave, At, Sound, JobOK, ForInvoice
<1>2. Fits(w, Saving(job[w].document, job[w].row))
  BY <1>1, RowFreeAlone, SavingFits DEF EditInvoiceSave
<1> QED BY <1>2, MoveStep DEF EditInvoiceSave, Becomes, books

LEMMA VoidLoadSound ==
  ASSUME Sound, NEW w \in Workers, VoidLoad(w)
  PROVE  Sound'
<1>1. PICK i \in Invoices :
        job' = [job EXCEPT ![w] = [step |-> "invoice_void", document |-> i]]
  BY DEF VoidLoad, Becomes
<1>2. Fits(w, [step |-> "invoice_void", document |-> i])
  BY InvoiceFits DEF Carries, ForInvoice, Booking
<1> QED BY <1>1, <1>2, MoveStep DEF VoidLoad, books

LEMMA VoidSaveSound ==
  ASSUME Sound, NEW w \in Workers, VoidSave(w)
  PROVE  Sound'
<1> DEFINE i == job[w].document
           j == [step |-> "void_booking", document |-> i, invoice |-> i,
                 seen |-> posted[i], balance |-> receivable]
<1>1. i \in Invoices
  BY DEF VoidSave, At, Sound, JobOK, ForInvoice
<1>2. \A v \in Others(w) : job[v].step \in Booking => job[v].document # i
  BY RowFreeAlone DEF VoidSave
<1>3. Fits(w, j)
  BY <1>1, <1>2, InvoiceBookingFits DEF Carries, ForInvoice, Booking
<1> QED BY <1>3, MoveStep DEF VoidSave, Becomes, books

LEMMA DeleteInvoiceLoadSound ==
  ASSUME Sound, NEW w \in Workers, DeleteInvoiceLoad(w)
  PROVE  Sound'
<1>1. PICK i \in Invoices :
        job' = [job EXCEPT ![w] = [step |-> "invoice_delete", document |-> i]]
  BY DEF DeleteInvoiceLoad, Becomes
<1>2. Fits(w, [step |-> "invoice_delete", document |-> i])
  BY InvoiceFits DEF Carries, ForInvoice, Booking
<1> QED BY <1>1, <1>2, MoveStep DEF DeleteInvoiceLoad, books

LEMMA ConvertLoadSound ==
  ASSUME Sound, NEW w \in Workers, ConvertLoad(w)
  PROVE  Sound'
<1>1. PICK o \in Orders, i \in Invoices, total \in Totals :
        job' = [job EXCEPT ![w] = [step |-> "convert", document |-> i,
                                   row |-> [Billed(total, 0) EXCEPT !.order = o]]]
  BY DEF ConvertLoad, Becomes
<1>2. ASSUME NEW row PROVE Fits(w, [step |-> "convert", document |-> i, row |-> row])
  BY InvoiceFits DEF Carries, ForInvoice, Booking
<1>3. UNCHANGED <<posted, payments>>
  BY DEF ConvertLoad, books
<1> QED BY <1>1, <1>2, <1>3, MoveStep

LEMMA UnbookedSaves ==
  ASSUME Sound, NEW w \in Workers,
         DeleteInvoiceSave(w) \/ ConvertSave(w) \/ Abort(w)
  PROVE  Sound'
<1>1. Plain(w)
  BY IdleOK DEF DeleteInvoiceSave, ConvertSave, Abort, Respond, Becomes, books, Plain,
                ForInvoice, ForPayment, NewPayment
<1> QED BY <1>1, PlainStep

\* What the commit of a booking that changes no payment but its own leaves behind.
LEMMA BookedStep ==
  ASSUME Sound, NEW w \in Workers, job[w].step \in Booking, Respond(w),
         NEW amounts, Few(amounts), NEW balance,
         Books(job[w].document, job[w].seen, amounts, balance),
         payments' = [p \in Payments |-> payments'[p]],
         \A p \in Payments : p # job[w].document => payments'[p] = payments[p]
  PROVE  /\ Sound'
         /\ posted' = [posted EXCEPT ![job[w].document] = amounts]
<1> DEFINE d == job[w].document
<1>1. d \in Documents /\ Carries(job[w])
  BY DEF Sound, JobOK, Booking, ForInvoice, ForPayment, Documents
<1>2. posted[d] = job[w].seen
  BY DEF Sound, BookedAlone
<1>3. posted' = [posted EXCEPT ![d] = amounts]
  <2>1. posted' = [posted EXCEPT ![d] = Merged(posted[d], job[w].seen, amounts)]
    BY DEF Books
  <2> QED BY <1>2, <2>1 DEF Merged
<1>4. \A x \in Documents : posted'[x] = IF x = d THEN amounts ELSE posted[x]
  BY <1>3 DEF Sound, Tables
<1>5. posted' = [x \in Documents |-> posted'[x]]
  BY <1>3 DEF Sound, Tables
<1>6. \A v \in Others(w) : job[v].step \in Booking => job[v].document # d
  BY DEF Sound, BookedAlone, Others
<1>7. \A v \in Others(w) : job[v].step \in NewPayment => job[v].document # d
  BY <1>1 DEF Sound, BookedAlone, Others
<1>8. Sound'
  BY ZenonT(60), <1>4, <1>5, <1>6, <1>7, CommitStep DEF Sound, Respond, Becomes
<1> QED BY <1>3, <1>8

LEMMA InvoiceCommitSound ==
  ASSUME Sound, NEW w \in Workers, InvoiceCommit(w)
  PROVE  /\ Sound'
         /\ posted' = [posted EXCEPT ![job[w].document] = <<job[w].row.total>>]
<1>1. job[w].step \in Booking /\ Few(job[w].seen)
  BY DEF InvoiceCommit, At, Booking, Sound, BookedAlone, JobOK, ForInvoice, Documents
<1>2. Reposted(job[w].seen, job[w].row.total) = <<job[w].row.total>>
  BY <1>1, RepostedOne
<1>3. Few(<<job[w].row.total>>)
  BY DEF Few
<1>4. Books(job[w].document, job[w].seen, <<job[w].row.total>>, job[w].balance)
  BY <1>2 DEF InvoiceCommit
<1>5. payments' = payments /\ Respond(w)
  BY DEF InvoiceCommit
<1> QED BY <1>1, <1>3, <1>4, <1>5, BookedStep DEF Sound, Tables

LEMMA VoidCommitSound ==
  ASSUME Sound, NEW w \in Workers, VoidCommit(w)
  PROVE  Sound' /\ posted' = [posted EXCEPT ![job[w].document] = <<>>]
<1>1. job[w].step \in Booking /\ Few(job[w].seen)
  BY DEF VoidCommit, At, Booking, Sound, BookedAlone, JobOK, ForInvoice, Documents
<1>2. Few(<<>>) /\ Reversed(job[w].seen) = <<>>
  BY <1>1, ReversedNone DEF Few
<1>3. Books(job[w].document, job[w].seen, <<>>, job[w].balance)
  BY <1>2 DEF VoidCommit
<1>4. payments' = payments /\ Respond(w)
  BY DEF VoidCommit
<1> QED BY <1>1, <1>2, <1>3, <1>4, BookedStep DEF Sound, Tables

----
(* Payments. *)

\* A request for a payment that is there meets no new payment.
LEMMA PaymentFits ==
  ASSUME Sound, NEW w \in Workers, NEW p \in Payments, payments[p].status # "ABSENT",
         NEW j, Carries(j), j.document = p, j.step \in {"payment_edit", "payment_delete"}
  PROVE  Fits(w, j)
<1>1. JobOK(j) /\ j.step \notin Booking \union NewPayment
  BY DEF JobOK, ForInvoice, ForPayment, NewPayment, Booking
<1>2. \A v \in Others(w) : job[v].step \in NewPayment => job[v].document # p
  BY DEF Sound, BookedAlone, Others
<1> QED BY <1>1, <1>2 DEF Fits

LEMMA PayLoadSound ==
  ASSUME Sound, NEW w \in Workers, PayLoad(w)
  PROVE  Sound'
<1>1. PICK p \in Payments : \E total, row :
        /\ payments[p].status = "ABSENT"
        /\ NewKey(p)
        /\ job' = [job EXCEPT ![w] = [step |-> "payment", document |-> p, total |-> total,
                                      row |-> row]]
  BY ZenonT(60) DEF PayLoad, Becomes
<1>2. \A v \in Others(w) : Carries(job[v]) \/ job[v].step \in NewPayment => job[v].document # p
  <2> SUFFICES ASSUME NEW v \in Workers, v # w, Carries(job[v]) \/ job[v].step \in NewPayment
               PROVE  job[v].document # p
    BY DEF Others
  <2>1. Carries(job[v])
    BY DEF Sound, JobOK, ForPayment
  <2>2. CASE ~At(v, "idle")
    BY <1>1, <2>1, <2>2, NewKeyFree
  <2>3. CASE At(v, "idle")
    BY <2>1, <2>3 DEF Sound, JobOK, At
  <2> QED BY <2>2, <2>3
<1>3. ASSUME NEW total, NEW row
      PROVE  Fits(w, [step |-> "payment", document |-> p, total |-> total, row |-> row])
  BY <1>1, <1>2 DEF Fits, JobOK, Carries, ForInvoice, ForPayment, NewPayment, Booking
<1>4. UNCHANGED <<posted, payments>>
  BY DEF PayLoad, books
<1> QED BY <1>1, <1>3, <1>4, MoveStep

LEMMA PayInsertSound ==
  ASSUME Sound, NEW w \in Workers, PayInsert(w)
  PROVE  Sound'
<1> DEFINE p == job[w].document
<1>1. job[w].step \in NewPayment /\ Carries(job[w])
  BY DEF PayInsert, At, NewPayment, Sound, JobOK, ForPayment
<1>2. /\ p \in Payments /\ payments[p].status = "ABSENT"
      /\ \A v \in Others(w) : Carries(job[v]) => job[v].document # p
  BY <1>1 DEF Sound, BookedAlone, JobOK, ForPayment
<1>3. \A v \in Others(w) : job[v].step \in NewPayment => job[v].document # p
  BY <1>2 DEF Sound, JobOK, ForPayment, Others
<1>4. ASSUME NEW row, NEW total, NEW paid
      PROVE  Fits(w, [step |-> "payment_inserted", document |-> p, row |-> row,
                      total |-> total, paid |-> paid])
  BY <1>2, <1>3 DEF Fits, JobOK, Carries, ForInvoice, ForPayment, NewPayment, Booking
<1>5. UNCHANGED <<posted, payments>>
  BY DEF PayInsert, books
<1>6. \E row, total, paid :
        job' = [job EXCEPT ![w] = [step |-> "payment_inserted", document |-> p, row |-> row,
                                   total |-> total, paid |-> paid]]
  BY DEF PayInsert, Becomes
<1> QED BY <1>4, <1>5, <1>6, MoveStep

\* The booking of a payment that nobody else books.
LEMMA PaymentBookingFits ==
  ASSUME Sound, NEW w \in Workers, NEW j, Carries(j), j.step = "payment_booking",
         j.document \in Payments, j.seen = posted[j.document],
         \A v \in Others(w) : job[v].step \in Booking \union NewPayment
           => job[v].document # j.document
  PROVE  Fits(w, j)
BY DEF Fits, JobOK, Carries, ForInvoice, ForPayment, NewPayment, Booking

LEMMA PaySaveSound ==
  ASSUME Sound, NEW w \in Workers, PaySave(w)
  PROVE  Sound'
<1> DEFINE p == job[w].document
           j == [step |-> "payment_booking", document |-> p, invoice |-> job[w].row.invoice,
                 row |-> job[w].row, counted |-> <<job[w].paid, Owed(job[w].total, job[w].paid)>>,
                 seen |-> posted[p], balance |-> receivable]
<1>1. job[w].step \in NewPayment
  BY DEF PaySave, At, NewPayment
<1>2. \A v \in Others(w) : job[v].step \in Booking \union NewPayment => job[v].document # p
  BY <1>1 DEF Sound, BookedAlone, JobOK, Booking, ForInvoice, ForPayment, Others
<1>3. p \in Payments
  BY <1>1 DEF Sound, JobOK, ForPayment
<1>4. Fits(w, j)
  BY <1>2, <1>3, PaymentBookingFits DEF Carries
<1>5. job' = [job EXCEPT ![w] = j] /\ UNCHANGED <<posted, payments>>
  BY DEF PaySave, Becomes, books
<1> QED BY <1>4, <1>5, MoveStep

LEMMA EditPaymentLoadSound ==
  ASSUME Sound, NEW w \in Workers, EditPaymentLoad(w)
  PROVE  Sound'
<1>1. PICK p \in Recorded : \E row :
        job' = [job EXCEPT ![w] = [step |-> "payment_edit", document |-> p, row |-> row]]
  BY DEF EditPaymentLoad, Becomes
<1>2. p \in Payments /\ payments[p].status # "ABSENT"
  BY DEF Recorded
<1>3. ASSUME NEW row PROVE Fits(w, [step |-> "payment_edit", document |-> p, row |-> row])
  BY <1>2, PaymentFits DEF Carries
<1>4. UNCHANGED <<posted, payments>>
  BY DEF EditPaymentLoad, books
<1> QED BY <1>1, <1>3, <1>4, MoveStep

LEMMA EditPaymentSaveSound ==
  ASSUME Sound, NEW w \in Workers, EditPaymentSave(w)
  PROVE  Sound'
<1> DEFINE p == job[w].document
           j == [step |-> "payment_booking", document |-> p, invoice |-> p,
                 row |-> job[w].row, counted |-> <<>>, seen |-> posted[p],
                 balance |-> receivable]
<1>1. p \in Payments /\ Carries(job[w])
  BY DEF EditPaymentSave, At, Sound, JobOK, ForPayment
<1>2. \A v \in Others(w) : job[v].step \in Booking => job[v].document # p
  BY RowFreeAlone DEF EditPaymentSave
<1>3. \A v \in Others(w) : job[v].step \in NewPayment => job[v].document # p
  BY <1>1 DEF Sound, BookedAlone, Others
<1>4. Fits(w, j)
  BY <1>1, <1>2, <1>3, PaymentBookingFits DEF Carries
<1>5. job' = [job EXCEPT ![w] = j] /\ UNCHANGED <<posted, payments>>
  BY DEF EditPaymentSave, Becomes, books
<1> QED BY <1>4, <1>5, MoveStep

LEMMA DeletePaymentLoadSound ==
  ASSUME Sound, NEW w \in Workers, DeletePaymentLoad(w)
  PROVE  Sound'
<1>1. PICK p \in Recorded :
        job' = [job EXCEPT ![w] = [step |-> "payment_delete", document |-> p]]
  BY DEF DeletePaymentLoad, Becomes
<1>2. Fits(w, [step |-> "payment_delete", document |-> p])
  BY PaymentFits DEF Carries, Recorded
<1> QED BY <1>1, <1>2, MoveStep DEF DeletePaymentLoad, books

\* No other request for a new payment has the document of w.
LEMMA OthersNew ==
  ASSUME Sound, NEW w \in Workers, Carries(job[w])
  PROVE  \A v \in Others(w) : job[v].step \in NewPayment => job[v].document # job[w].document
BY DEF Sound, BookedAlone, Others

LEMMA PendingCommitSound ==
  ASSUME Sound, NEW w \in Workers, PendingCommit(w)
  PROVE  Sound'
<1>1. job[w].document \in Payments /\ Carries(job[w])
  BY DEF PendingCommit, At, Sound, JobOK, ForPayment, NewPayment
<1>2. \A v \in Others(w) : job[v].step \in NewPayment => job[v].document # job[w].document
  BY <1>1, OthersNew
<1>3. /\ posted' = posted
      /\ payments' = [payments EXCEPT ![job[w].document] = job[w].row]
      /\ job' = [job EXCEPT ![w] = Idle]
  BY DEF PendingCommit, books, Respond, Becomes
<1>4. payments' = [p \in Payments |-> payments'[p]]
  BY <1>3 DEF Sound, Tables
<1>5. \A p \in Payments : p # job[w].document => payments'[p] = payments[p]
  BY <1>3 DEF Sound, Tables
<1> QED BY <1>2, <1>3, <1>4, <1>5, CommitStep DEF Sound, Tables

LEMMA DeletePaymentSaveSound ==
  ASSUME Sound, NEW w \in Workers, DeletePaymentSave(w)
  PROVE  Sound'
<1>1. /\ posted' = posted
      /\ payments' = [payments EXCEPT ![job[w].document] = NoPayment]
      /\ job' = [job EXCEPT ![w] = Idle]
  BY DEF DeletePaymentSave, books, Respond, Becomes
<1>2. payments' = [p \in Payments |-> payments'[p]]
  BY <1>1 DEF Sound, Tables
<1>3. \A p \in Payments : payments'[p] = payments[p] \/ payments'[p].status = "ABSENT"
  BY <1>1 DEF Sound, Tables, NoPayment
<1> QED BY <1>1, <1>2, <1>3, CommitStep DEF Sound, Tables

LEMMA PaymentCommitSound ==
  ASSUME Sound, NEW w \in Workers, PaymentCommit(w)
  PROVE  Sound' /\ \E amounts : posted' = [posted EXCEPT ![job[w].document] = amounts]
<1> DEFINE row == job[w].row
           amounts == IF row.status = "PAID" THEN Posted(job[w].seen, row.amount)
                      ELSE job[w].seen
<1>1. job[w].step \in Booking /\ Few(job[w].seen)
  BY DEF PaymentCommit, At, Booking, Sound, BookedAlone, JobOK, ForPayment, NewPayment, Documents
<1>2. Few(amounts)
  BY <1>1, PostedFew
<1>3. Books(job[w].document, job[w].seen, amounts, job[w].balance) /\ Respond(w)
  BY DEF PaymentCommit
<1>4. payments' = [payments EXCEPT ![job[w].document] = row]
  BY DEF PaymentCommit
<1>5. payments' = [p \in Payments |-> payments'[p]]
  BY <1>4 DEF Sound, Tables
<1>6. \A p \in Payments : p # job[w].document => payments'[p] = payments[p]
  BY <1>4 DEF Sound, Tables
<1> HIDE DEF amounts
<1> QED BY <1>1, <1>2, <1>3, <1>5, <1>6, BookedStep

----

LEMMA InvoiceSound ==
  ASSUME Sound, NEW w \in Workers, InvoiceStep(w)
  PROVE  Sound'
BY CreateInvoiceSound, EditInvoiceLoadSound, EditInvoiceSaveSound, InvoiceCommitSound,
   VoidLoadSound, VoidSaveSound, VoidCommitSound, DeleteInvoiceLoadSound, ConvertLoadSound,
   UnbookedSaves DEF InvoiceStep

LEMMA PaymentSound ==
  ASSUME Sound, NEW w \in Workers, PaymentStep(w)
  PROVE  Sound'
BY PayLoadSound, PayInsertSound, PendingCommitSound, PaySaveSound, EditPaymentLoadSound,
   EditPaymentSaveSound, PaymentCommitSound, DeletePaymentLoadSound, DeletePaymentSaveSound
   DEF PaymentStep

LEMMA FollowPlain ==
  ASSUME NEW w, Trade(w) \/ QuoteStep(w) \/ NoteStep(w) \/ ReturnStep(w)
  PROVE  Plain(w)
BY SellingPlain, QuotePlain, NotePlain, ReturnPlain

LEMMA StepSound == Sound /\ [AllNext]_allVars => Sound'
<1> SUFFICES ASSUME Sound, [AllNext]_allVars PROVE Sound'
  OBVIOUS
<1>1. CASE AllNext
  <2>1. PICK w \in Workers : \/ Trade(w) \/ QuoteStep(w) \/ NoteStep(w) \/ ReturnStep(w)
                             \/ InvoiceStep(w) \/ PaymentStep(w) \/ Abort(w)
    BY <1>1 DEF AllNext, Next
  <2> QED BY <2>1, FollowPlain, PlainStep, InvoiceSound, PaymentSound, UnbookedSaves
<1>2. CASE UNCHANGED allVars
  BY <1>2 DEF allVars, vars, books, Sound, Tables, BookedAlone, JobOK, Carries, Few, Others
<1> QED BY <1>1, <1>2

\* A document never has two POSTED journals, however requests overlap and whatever
\* they are: _post_system_journal looks for one under the lock of its row.
THEOREM PostedOnceAlways == AllSpec => []PostedOnce
<1>1. Sound => PostedOnce
  BY FewShort DEF Sound, PostedOnce
<1> QED BY <1>1, InitSound, StepSound, PTL DEF AllSpec

----
(* Journals and what invoices show.                                        *)
(*                                                                         *)
(* What a payment in progress knows of its invoice, and which requests may *)
(* make it stale.                                                          *)

\* Clients may void an invoice while a payment of it is being recorded.
Racing == overlap /\ {"create_payment", "void_invoice"} \subseteq clients

\* A payment that will write its invoice.
Paying(j) == j.step \in NewPayment \/ (j.step = "payment_booking" /\ j.counted # <<>>)

\* Requests are of the kinds that clients send.  No row that will be saved is
\* void, nor is the invoice of a payment, unless clients race.
Live(row) == "status" \in DOMAIN row /\ row.status # "VOID"

GoodRequest(j) ==
  /\ j.step = "convert" => "convert_order" \in clients
  /\ j.step \in {"invoice_void", "void_booking"} => "void_invoice" \in clients
  /\ j.step \in {"invoice_edit", "invoice_booking", "convert"} => Live(j.row)
  /\ Paying(j) => /\ "create_payment" \in clients
                  /\ j.row.invoice \in Invoices
                  /\ Racing \/ invoices[j.row.invoice].status # "VOID"

Alone(w) == overlap \/ \A v \in Others(w) : At(v, "idle")

Matching ==
  \A i \in Invoices : invoices[i].status # "ABSENT" =>
    posted[i] = IF invoices[i].status = "VOID" THEN <<>> ELSE <<invoices[i].total>>

Matched ==
  /\ invoices = [i \in Invoices |-> invoices[i]]
  /\ \A i \in Invoices : "status" \in DOMAIN invoices[i]
  /\ \A w \in Workers : GoodRequest(job[w])
  /\ \A w \in Workers : At(w, "idle") \/ Alone(w)
  /\ "convert_order" \in clients \/ Racing \/ Matching

----

LEMMA IdleGood == GoodRequest(Idle) /\ ~Paying(Idle)
BY DEF GoodRequest, Paying, Idle, NewPayment

LEMMA SettledLive == ASSUME NEW paid, NEW balance PROVE Settled(paid, balance) \notin {"VOID", "ABSENT"}
BY DEF Settled

LEMMA BilledLive ==
  ASSUME NEW total, NEW paid
  PROVE  /\ Live(Billed(total, paid))
         /\ \A o : Live([Billed(total, paid) EXCEPT !.order = o])
BY SettledLive DEF Live, Billed, NoInvoice

LEMMA InitMatched == AllInit => Matched
<1> SUFFICES ASSUME AllInit PROVE Matched
  OBVIOUS
<1>1. \A w \in Workers : job[w] = Idle
  BY DEF AllInit, Init, SellingInit
<1>2. invoices = [i \in Invoices |-> NoInvoice]
  BY DEF AllInit, Init
<1> QED BY <1>1, <1>2, IdleGood DEF Matched, Matching, NoInvoice, At, Idle

\* What a step must leave behind in the job of w.
LEMMA GoodMove ==
  ASSUME Sound, Matched, NEW w \in Workers, NEW j, job' = [job EXCEPT ![w] = j],
         UNCHANGED <<clients, overlap>>,
         invoices' = [i \in Invoices |-> invoices'[i]],
         \A i \in Invoices : "status" \in DOMAIN invoices'[i],
         GoodRequest(j)', j.step = "idle" \/ Alone(w),
         \A i \in Invoices : \/ invoices'[i].status # "VOID"
                             \/ invoices'[i].status = invoices[i].status
                             \/ Racing
                             \/ \A v \in Others(w) : ~Paying(job[v]),
         "convert_order" \in clients \/ Racing \/ Matching'
  PROVE  Matched'
<1>1. \A v \in Workers : job'[v] = IF v = w THEN j ELSE job[v]
  BY DEF Sound, Tables
<1>2. \A v \in Workers : GoodRequest(job[v])'
  BY <1>1 DEF Matched, GoodRequest, Racing, Paying, Others
<1>3. \A v \in Workers : At(v, "idle")' \/ Alone(v)'
  BY <1>1 DEF Matched, At, Alone, Others
<1> QED BY <1>2, <1>3 DEF Matched, Racing

\* A step of w that writes neither invoices nor journals.
LEMMA GoodQuiet ==
  ASSUME Sound, Matched, NEW w \in Workers, NEW j, job' = [job EXCEPT ![w] = j],
         UNCHANGED <<clients, overlap, invoices, posted>>,
         GoodRequest(j), j.step = "idle" \/ Alone(w)
  PROVE  Matched'
<1>1. GoodRequest(j)' /\ Matching' = Matching
  BY DEF GoodRequest, Racing, Matching, Paying
<1> QED BY <1>1, GoodMove DEF Matched

\* A request that goes on is served alone, or requests overlap.
LEMMA ServedAlone ==
  ASSUME Matched, NEW w \in Workers, (\E kind : Takes(w, kind)) \/ ~At(w, "idle")
  PROVE  Alone(w)
BY DEF Matched, Takes, Alone

LEMMA PlainServed ==
  ASSUME NEW w, Trade(w) \/ QuoteStep(w) \/ NoteStep(w) \/ ReturnStep(w)
  PROVE  /\ UNCHANGED <<clients, overlap, invoices, posted>>
         /\ UNCHANGED job \/ (\E kind : Takes(w, kind)) \/ ~At(w, "idle")
<1>1. CASE Trade(w)
  BY <1>1 DEF Trade, books, SellingStep, ConfirmOrder, OrderEditLoad, OrderEditSave, Sell,
              VoidSaleLoad, VoidSaleSave, At
<1>2. CASE QuoteStep(w)
  BY <1>2 DEF QuoteStep, trade, books, QuoteLoad, QuoteSave, AnswerQuote, QuoteConvertLoad,
              QuoteConvertSave, At
<1>3. CASE NoteStep(w)
  BY <1>3 DEF NoteStep, trade, books, CreateNote, NoteLoad, NoteSave, Dispatch, DeleteNote,
              DeliverLoad, DeliverCount, DeliverCommit, At
<1>4. CASE ReturnStep(w)
  <2>1. UNCHANGED <<clients, overlap, invoices, posted>>
    BY <1>4 DEF ReturnStep, trade, books, CreateReturnLoad, EditReturnLoad, ReturnSave,
                MoveReturnLoad, MoveReturnSave, DeleteReturn
  <2>2. CASE CreateReturnLoad(w) \/ EditReturnLoad(w) \/ MoveReturnLoad(w)
    BY <2>1, <2>2 DEF CreateReturnLoad, EditReturnLoad, MoveReturnLoad
  <2>3. CASE ReturnSave(w) \/ MoveReturnSave(w) \/ DeleteReturn(w)
    BY <2>1, <2>3 DEF ReturnSave, MoveReturnSave, DeleteReturn, At
  <2> QED BY <1>4, <2>2, <2>3 DEF ReturnStep
<1> QED BY <1>1, <1>2, <1>3, <1>4

LEMMA PlainMatched ==
  ASSUME Sound, Matched, NEW w \in Workers,
         Trade(w) \/ QuoteStep(w) \/ NoteStep(w) \/ ReturnStep(w)
  PROVE  Matched'
<1>1. /\ UNCHANGED <<clients, overlap, invoices, posted>>
      /\ UNCHANGED job \/ Alone(w)
  BY PlainServed, ServedAlone
<1>2. Plain(w)
  BY FollowPlain
<1>3. CASE UNCHANGED job
  BY <1>1, <1>3 DEF Matched, GoodRequest, Racing, Paying, Alone, At, Others, Matching
<1>4. CASE Alone(w) /\ ~UNCHANGED job
  <2>1. \E j : /\ j.step \notin ForInvoice \union ForPayment
               /\ job' = [job EXCEPT ![w] = j]
    BY <1>2, <1>4 DEF Plain
  <2>2. ASSUME NEW j, j.step \notin ForInvoice \union ForPayment
        PROVE  GoodRequest(j)
    BY <2>2 DEF GoodRequest, Paying, ForInvoice, ForPayment, NewPayment
  <2> QED BY <1>1, <1>4, <2>1, <2>2, GoodQuiet
<1> QED BY <1>1, <1>3, <1>4

----
(* Requests that read an invoice or a payment, or save one and book it. *)

LEMMA InvoiceMatched ==
  ASSUME Sound, Matched, NEW w \in Workers,
         \/ CreateInvoice(w) \/ EditInvoiceLoad(w) \/ EditInvoiceSave(w)
         \/ VoidLoad(w) \/ VoidSave(w) \/ DeleteInvoiceLoad(w) \/ ConvertLoad(w)
  PROVE  Matched'
<1>0. UNCHANGED <<clients, overlap, invoices, posted>>
  BY DEF CreateInvoice, EditInvoiceLoad, EditInvoiceSave, VoidLoad, VoidSave,
         DeleteInvoiceLoad, ConvertLoad, books
<1>1. CASE CreateInvoice(w)
  <2>1. PICK i \in Invoices, total \in Totals, paid \in SaidPaid, o \in Named("none") :
          job' = [job EXCEPT ![w] = Saving(i, [Billed(total, paid) EXCEPT !.order = o])]
    BY <1>1 DEF CreateInvoice, Becomes
  <2>2. GoodRequest(Saving(i, [Billed(total, paid) EXCEPT !.order = o]))
    <3>1. PICK row : row = [Billed(total, paid) EXCEPT !.order = o]
      OBVIOUS
    <3>2. Live(row)
      BY <3>1, BilledLive
    <3>3. GoodRequest(Saving(i, row))
      BY <3>2 DEF Saving, GoodRequest, Paying, NewPayment
    <3> QED BY <3>1, <3>3
  <2>3. Takes(w, "create_invoice")
    BY <1>1 DEF CreateInvoice
  <2> QED BY <1>0, <2>1, <2>2, <2>3, ServedAlone, GoodQuiet
<1>2. CASE EditInvoiceLoad(w)
  <2>0. PICK i \in Invoices, paid \in SaidPaid : \E o \in Named(invoices[i].order) :
          /\ invoices[i].status \in {"UNPAID", "PARTIALLY_PAID"}
          /\ \E row \in {invoices[i]} \union {Billed(total, paid) : total \in {t \in Totals : paid <= t}} :
               Becomes(w, [step |-> "invoice_edit", document |-> i,
                           row |-> [row EXCEPT !.paid = paid, !.order = o]])
    BY <1>2 DEF EditInvoiceLoad
  <2>1. PICK o, row :
          /\ row \in {invoices[i]} \union {Billed(total, paid) : total \in {t \in Totals : paid <= t}}
          /\ job' = [job EXCEPT ![w] = [step |-> "invoice_edit", document |-> i,
                       row |-> [row EXCEPT !.paid = paid, !.order = o]]]
    BY <2>0 DEF Becomes
  <2>2. Live(row)
    <3>1. CASE row = invoices[i]
      BY <2>0, <3>1 DEF Matched, Live
    <3>2. CASE row # invoices[i]
      BY <2>1, <3>2, BilledLive
    <3> QED BY <3>1, <3>2
  <2>3. PICK new : new = [row EXCEPT !.paid = paid, !.order = o]
    OBVIOUS
  <2>4. Live(new)
    BY <2>2, <2>3 DEF Live
  <2>5. GoodRequest([step |-> "invoice_edit", document |-> i, row |-> new])
    BY <2>4 DEF GoodRequest, Paying, NewPayment
  <2> QED BY <1>0, <1>2, <2>1, <2>3, <2>5, ServedAlone, GoodQuiet DEF EditInvoiceLoad
<1>3. CASE EditInvoiceSave(w)
  <2>1. Live(job[w].row)
    BY <1>3 DEF EditInvoiceSave, At, Matched, GoodRequest
  <2>2. GoodRequest(Saving(job[w].document, job[w].row))
    BY <2>1 DEF Saving, GoodRequest, Paying, NewPayment
  <2>3. ~At(w, "idle") /\ job' = [job EXCEPT ![w] = Saving(job[w].document, job[w].row)]
    BY <1>3 DEF EditInvoiceSave, At, Becomes
  <2> QED BY <1>0, <2>2, <2>3, ServedAlone, GoodQuiet
<1>4. CASE VoidLoad(w)
  <2>1. PICK i \in Invoices :
          job' = [job EXCEPT ![w] = [step |-> "invoice_void", document |-> i]]
    BY <1>4 DEF VoidLoad, Becomes
  <2>2. GoodRequest([step |-> "invoice_void", document |-> i])
    BY <1>4 DEF GoodRequest, Paying, NewPayment, VoidLoad, Takes
  <2> QED BY <1>0, <1>4, <2>1, <2>2, ServedAlone, GoodQuiet DEF VoidLoad
<1>5. CASE VoidSave(w)
  <2> DEFINE j == [step |-> "void_booking", document |-> job[w].document,
                   invoice |-> job[w].document, seen |-> posted[job[w].document],
                   balance |-> receivable]
  <2>1. "void_invoice" \in clients
    BY <1>5 DEF VoidSave, At, Matched, GoodRequest
  <2>2. GoodRequest(j)
    BY <2>1 DEF GoodRequest, Paying, NewPayment
  <2>3. ~At(w, "idle") /\ job' = [job EXCEPT ![w] = j]
    BY <1>5 DEF VoidSave, At, Becomes
  <2> QED BY <1>0, <2>2, <2>3, ServedAlone, GoodQuiet
<1>6. CASE DeleteInvoiceLoad(w)
  <2>1. PICK i \in Invoices :
          job' = [job EXCEPT ![w] = [step |-> "invoice_delete", document |-> i]]
    BY <1>6 DEF DeleteInvoiceLoad, Becomes
  <2>2. GoodRequest([step |-> "invoice_delete", document |-> i])
    BY DEF GoodRequest, Paying, NewPayment
  <2> QED BY <1>0, <1>6, <2>1, <2>2, ServedAlone, GoodQuiet DEF DeleteInvoiceLoad
<1>7. CASE ConvertLoad(w)
  <2>1. PICK o \in Orders, i \in Invoices, total \in Totals :
          job' = [job EXCEPT ![w] = [step |-> "convert", document |-> i,
                                     row |-> [Billed(total, 0) EXCEPT !.order = o]]]
    BY <1>7 DEF ConvertLoad, Becomes
  <2>2. GoodRequest([step |-> "convert", document |-> i,
                     row |-> [Billed(total, 0) EXCEPT !.order = o]])
    <3> DEFINE row == [Billed(total, 0) EXCEPT !.order = o]
    <3>1. Live(row) /\ "convert_order" \in clients
      BY <1>7, BilledLive DEF ConvertLoad, Takes
    <3> HIDE DEF row
    <3>2. GoodRequest([step |-> "convert", document |-> i, row |-> row])
      BY <3>1 DEF GoodRequest, Paying, NewPayment
    <3> QED BY <3>2 DEF row
  <2> QED BY <1>0, <1>7, <2>1, <2>2, ServedAlone, GoodQuiet DEF ConvertLoad
<1> QED BY <1>1, <1>2, <1>3, <1>4, <1>5, <1>6, <1>7

LEMMA PaymentMatched ==
  ASSUME Sound, Matched, NEW w \in Workers,
         \/ PayLoad(w) \/ PayInsert(w) \/ PaySave(w)
         \/ EditPaymentLoad(w) \/ EditPaymentSave(w) \/ DeletePaymentLoad(w)
  PROVE  Matched'
<1>0. UNCHANGED <<clients, overlap, invoices, posted>>
  BY DEF PayLoad, PayInsert, PaySave, EditPaymentLoad, EditPaymentSave, DeletePaymentLoad, books
<1>1. CASE PayLoad(w)
  <2>1. PICK p \in Payments, i \in Invoices, amount \in Amounts, s \in {"PAID", "PENDING"} :
          /\ Payable(i, amount)
          /\ Becomes(w, [step |-> "payment", document |-> p, total |-> invoices[i].total,
                row |-> [status |-> s, invoice |-> i, amount |-> amount, number |-> 0]])
    BY <1>1 DEF PayLoad
  <2>2. "create_payment" \in clients
    BY <1>1 DEF PayLoad, Takes
  <2>3. GoodRequest([step |-> "payment", document |-> p, total |-> invoices[i].total,
               row |-> [status |-> s, invoice |-> i, amount |-> amount, number |-> 0]])
    BY <2>1, <2>2 DEF GoodRequest, Paying, NewPayment, Payable
  <2> QED BY <1>0, <1>1, <2>1, <2>3, ServedAlone, GoodQuiet DEF PayLoad, Becomes
<1>2. CASE PayInsert(w)
  <2> DEFINE row == job[w].row
             j(n, paid) == [step |-> "payment_inserted", document |-> job[w].document,
                            row |-> [row EXCEPT !.number = n], total |-> job[w].total,
                            paid |-> paid]
  <2>1. ~At(w, "idle") /\ \E n, paid : job' = [job EXCEPT ![w] = j(n, paid)]
    BY <1>2 DEF PayInsert, At, Becomes
  <2>2. /\ "create_payment" \in clients
        /\ row.invoice \in Invoices
        /\ Racing \/ invoices[row.invoice].status # "VOID"
    BY <1>2 DEF PayInsert, At, Matched, GoodRequest, Paying, NewPayment
  <2>3. ASSUME NEW n, NEW paid PROVE GoodRequest(j(n, paid))
    <3>1. [row EXCEPT !.number = n].invoice = row.invoice
      OBVIOUS
    <3> QED BY <2>2, <3>1 DEF GoodRequest, Paying, NewPayment
  <2> QED BY <1>0, <2>1, <2>3, ServedAlone, GoodQuiet
<1>3. CASE PaySave(w)
  <2> DEFINE j == [step |-> "payment_booking", document |-> job[w].document,
                   invoice |-> job[w].row.invoice, row |-> job[w].row,
                   counted |-> <<job[w].paid, Owed(job[w].total, job[w].paid)>>,
                   seen |-> posted[job[w].document], balance |-> receivable]
  <2>1. ~At(w, "idle") /\ job' = [job EXCEPT ![w] = j]
    BY <1>3 DEF PaySave, At, Becomes
  <2>2. /\ "create_payment" \in clients
        /\ job[w].row.invoice \in Invoices
        /\ Racing \/ invoices[job[w].row.invoice].status # "VOID"
    BY <1>3 DEF PaySave, At, Matched, GoodRequest, Paying, NewPayment
  <2>3. GoodRequest(j)
    BY <2>2 DEF GoodRequest, Paying, NewPayment
  <2> QED BY <1>0, <2>1, <2>3, ServedAlone, GoodQuiet
<1>4. CASE EditPaymentLoad(w)
  <2>1. PICK p \in Recorded : \E row :
          job' = [job EXCEPT ![w] = [step |-> "payment_edit", document |-> p, row |-> row]]
    BY <1>4 DEF EditPaymentLoad, Becomes
  <2>2. ASSUME NEW row
        PROVE  GoodRequest([step |-> "payment_edit", document |-> p, row |-> row])
    BY DEF GoodRequest, Paying, NewPayment
  <2> QED BY <1>0, <1>4, <2>1, <2>2, ServedAlone, GoodQuiet DEF EditPaymentLoad
<1>5. CASE EditPaymentSave(w)
  <2> DEFINE j == [step |-> "payment_booking", document |-> job[w].document,
                   invoice |-> job[w].document, row |-> job[w].row, counted |-> <<>>,
                   seen |-> posted[job[w].document], balance |-> receivable]
  <2>1. ~At(w, "idle") /\ job' = [job EXCEPT ![w] = j]
    BY <1>5 DEF EditPaymentSave, At, Becomes
  <2>2. GoodRequest(j)
    BY DEF GoodRequest, Paying, NewPayment
  <2> QED BY <1>0, <2>1, <2>2, ServedAlone, GoodQuiet
<1>6. CASE DeletePaymentLoad(w)
  <2>1. PICK p \in Recorded :
          job' = [job EXCEPT ![w] = [step |-> "payment_delete", document |-> p]]
    BY <1>6 DEF DeletePaymentLoad, Becomes
  <2>2. GoodRequest([step |-> "payment_delete", document |-> p])
    BY DEF GoodRequest, Paying, NewPayment
  <2> QED BY <1>0, <1>6, <2>1, <2>2, ServedAlone, GoodQuiet DEF DeletePaymentLoad
<1> QED BY <1>1, <1>2, <1>3, <1>4, <1>5, <1>6

\* Saves that change neither an invoice nor a journal.
LEMMA QuietEnds ==
  ASSUME Sound, Matched, NEW w \in Workers,
         PendingCommit(w) \/ DeletePaymentSave(w) \/ Abort(w)
  PROVE  Matched'
<1>1. /\ UNCHANGED <<clients, overlap, invoices, posted>>
      /\ job' = [job EXCEPT ![w] = Idle]
  BY DEF PendingCommit, DeletePaymentSave, Abort, books, Respond, Becomes
<1> QED BY <1>1, IdleGood, IdleOK, GoodQuiet

----
(* Commits. *)

LEMMA InvoiceCommitMatched ==
  ASSUME Sound, Matched, NEW w \in Workers, InvoiceCommit(w)
  PROVE  Matched'
<1> DEFINE i == job[w].document
           row == job[w].row
<1>1. i \in Invoices /\ Live(row)
  BY DEF InvoiceCommit, At, Sound, JobOK, ForInvoice, Matched, GoodRequest
<1>2. /\ UNCHANGED <<clients, overlap>>
      /\ job' = [job EXCEPT ![w] = Idle]
      /\ invoices' = [invoices EXCEPT ![i] = row]
  BY DEF InvoiceCommit, Respond, Becomes
<1>3. posted' = [posted EXCEPT ![i] = <<row.total>>]
  BY InvoiceCommitSound
<1>4. /\ invoices' = [x \in Invoices |-> invoices'[x]]
      /\ \A x \in Invoices : invoices'[x] = IF x = i THEN row ELSE invoices[x]
      /\ \A x \in Invoices : posted'[x] = IF x = i THEN <<row.total>> ELSE posted[x]
  BY <1>2, <1>3 DEF Sound, Tables, Matched, Documents
<1>5. Matching => Matching'
  BY <1>1, <1>4 DEF Matching, Live
<1>6. GoodRequest(Idle)'
  BY DEF GoodRequest, Paying, Idle, NewPayment
<1>7. \A x \in Invoices : "status" \in DOMAIN invoices'[x]
  BY <1>1, <1>4 DEF Live, Matched
<1>8. \A x \in Invoices : invoices'[x].status # "VOID" \/ invoices'[x].status = invoices[x].status
  BY <1>1, <1>4 DEF Live
<1> QED BY <1>2, <1>4, <1>5, <1>6, <1>7, <1>8, IdleOK, GoodMove DEF Matched

LEMMA VoidCommitMatched ==
  ASSUME Sound, Matched, NEW w \in Workers, VoidCommit(w)
  PROVE  Matched'
<1> DEFINE i == job[w].document
<1>1. i \in Invoices /\ "void_invoice" \in clients
  BY DEF VoidCommit, At, Sound, JobOK, ForInvoice, Matched, GoodRequest
<1>2. /\ UNCHANGED <<clients, overlap>>
      /\ job' = [job EXCEPT ![w] = Idle]
      /\ invoices' = [invoices EXCEPT ![i].status = "VOID", ![i].balance = 0]
  BY DEF VoidCommit, Respond, Becomes
<1>3. posted' = [posted EXCEPT ![i] = <<>>]
  BY VoidCommitSound
<1>4. /\ invoices' = [x \in Invoices |-> invoices'[x]]
      /\ \A x \in Invoices : x # i => invoices'[x] = invoices[x]
      /\ \A x \in Invoices : posted'[x] = IF x = i THEN <<>> ELSE posted[x]
  BY <1>2, <1>3 DEF Sound, Tables, Matched, Documents
<1>5. invoices'[i].status = "VOID" /\ "status" \in DOMAIN invoices'[i]
  BY <1>1, <1>2 DEF Matched
<1>6. Racing \/ \A v \in Others(w) : ~Paying(job[v])
  <2>1. ~At(w, "idle")
    BY DEF VoidCommit, At
  <2>2. CASE overlap
    BY <1>1, <2>2 DEF Racing, Matched, GoodRequest, Others
  <2>3. CASE ~overlap
    BY <2>1, <2>3 DEF Matched, Alone, At, Paying, NewPayment
  <2> QED BY <2>2, <2>3
<1>7. Matching => Matching'
  BY <1>1, <1>4, <1>5 DEF Matching
<1>8. GoodRequest(Idle)'
  BY DEF GoodRequest, Paying, Idle, NewPayment
<1>9. \A x \in Invoices : "status" \in DOMAIN invoices'[x]
  BY <1>4, <1>5 DEF Matched
<1> QED BY <1>2, <1>4, <1>6, <1>7, <1>8, <1>9, IdleOK, GoodMove DEF Matched

\* A payment that was not racing a void finds its invoice live.
LEMMA PaymentCommitMatched ==
  ASSUME Sound, Matched, NEW w \in Workers, PaymentCommit(w)
  PROVE  Matched'
<1> DEFINE i == job[w].row.invoice
           paying == job[w].counted # <<>>
<1>1. /\ UNCHANGED <<clients, overlap>>
      /\ job' = [job EXCEPT ![w] = Idle]
      /\ paying => invoices' = [invoices EXCEPT
           ![i].paid = job[w].counted[1], ![i].balance = job[w].counted[2],
           ![i].status = Settled(job[w].counted[1], job[w].counted[2])]
      /\ ~paying => invoices' = invoices
  BY DEF PaymentCommit, Respond, Becomes
<1>2. \A x \in Invoices : posted'[x] = posted[x]
  <2>1. job[w].document \in Payments
    BY DEF PaymentCommit, At, Sound, JobOK, ForPayment
  <2>2. PICK amounts : posted' = [posted EXCEPT ![job[w].document] = amounts]
    BY PaymentCommitSound
  <2> QED BY <2>1, <2>2, SalesAssumption DEF Sound, Tables, Documents
<1>3. /\ invoices' = [x \in Invoices |-> invoices'[x]]
      /\ \A x \in Invoices : invoices'[x] # invoices[x] => x = i /\ paying
  BY ZenonT(60), <1>1 DEF Matched
<1>4. paying => /\ i \in Invoices
                /\ Racing \/ invoices[i].status # "VOID"
                /\ invoices[i].status # "ABSENT"
  BY DEF PaymentCommit, At, Matched, GoodRequest, Paying
<1>5. paying => /\ invoices'[i].status \notin {"VOID", "ABSENT"}
                /\ invoices'[i].total = invoices[i].total
                /\ "status" \in DOMAIN invoices'[i]
  <2> SUFFICES ASSUME paying
               PROVE  /\ invoices'[i].status \notin {"VOID", "ABSENT"}
                      /\ invoices'[i].total = invoices[i].total
                      /\ "status" \in DOMAIN invoices'[i]
    OBVIOUS
  <2> DEFINE s == Settled(job[w].counted[1], job[w].counted[2])
  <2>1. s \notin {"VOID", "ABSENT"}
    BY SettledLive
  <2>2. invoices' = [invoices EXCEPT ![i].paid = job[w].counted[1],
                       ![i].balance = job[w].counted[2], ![i].status = s]
    BY <1>1
  <2>3. "status" \in DOMAIN invoices[i] /\ i \in DOMAIN invoices
    BY <1>4 DEF Matched
  <2> DEFINE a == job[w].counted[1]
             b == job[w].counted[2]
             r1 == [invoices[i] EXCEPT !.paid = a]
             r2 == [r1 EXCEPT !.balance = b]
             r3 == [r2 EXCEPT !.status = s]
  <2>4. invoices'[i] = r3
    BY <2>2, <2>3
  <2> HIDE DEF s, a, b
  <2>5. DOMAIN r1 = DOMAIN invoices[i] /\ r1.total = invoices[i].total
    OBVIOUS
  <2>6. DOMAIN r2 = DOMAIN r1 /\ r2.total = r1.total
    OBVIOUS
  <2>7. DOMAIN r3 = DOMAIN r2 /\ r3.total = r2.total
    OBVIOUS
  <2>8. r3.status = s
    BY <2>3, <2>5, <2>6
  <2> HIDE DEF r1, r2, r3
  <2> QED BY <2>1, <2>3, <2>4, <2>5, <2>6, <2>7, <2>8
<1>6. Racing \/ (Matching => Matching')
  BY <1>2, <1>3, <1>4, <1>5 DEF Matching
<1>7. GoodRequest(Idle)'
  BY DEF GoodRequest, Paying, Idle, NewPayment
<1>8. \A x \in Invoices : /\ "status" \in DOMAIN invoices'[x]
                          /\ \/ invoices'[x].status # "VOID"
                             \/ invoices'[x].status = invoices[x].status
  BY <1>3, <1>5 DEF Matched
<1> QED BY <1>1, <1>3, <1>6, <1>7, <1>8, IdleOK, GoodMove DEF Matched

LEMMA DeleteInvoiceMatched ==
  ASSUME Sound, Matched, NEW w \in Workers, DeleteInvoiceSave(w)
  PROVE  Matched'
<1>1. /\ UNCHANGED <<clients, overlap, posted>>
      /\ job' = [job EXCEPT ![w] = Idle]
      /\ invoices' = [invoices EXCEPT ![job[w].document] = NoInvoice]
  BY DEF DeleteInvoiceSave, books, Respond, Becomes
<1>2. /\ invoices' = [x \in Invoices |-> invoices'[x]]
      /\ \A x \in Invoices : \/ invoices'[x] = invoices[x]
                             \/ /\ invoices'[x].status = "ABSENT"
                                /\ "status" \in DOMAIN invoices'[x]
  BY <1>1 DEF Matched, NoInvoice
<1>3. Matching => Matching'
  BY <1>1, <1>2 DEF Matching
<1>4. GoodRequest(Idle)'
  BY DEF GoodRequest, Paying, Idle, NewPayment
<1>5. \A x \in Invoices : /\ "status" \in DOMAIN invoices'[x]
                          /\ \/ invoices'[x].status # "VOID"
                             \/ invoices'[x].status = invoices[x].status
  BY <1>2 DEF Matched
<1> QED BY <1>1, <1>2, <1>3, <1>4, <1>5, IdleOK, GoodMove DEF Matched

LEMMA ConvertMatched ==
  ASSUME Sound, Matched, NEW w \in Workers, ConvertSave(w)
  PROVE  Matched'
<1>1. /\ UNCHANGED <<clients, overlap, posted>>
      /\ job' = [job EXCEPT ![w] = Idle]
      /\ invoices' = [invoices EXCEPT ![job[w].document] = job[w].row]
  BY DEF ConvertSave, books, Respond, Becomes
<1>2. Live(job[w].row) /\ "convert_order" \in clients
  BY DEF ConvertSave, At, Matched, GoodRequest
<1>3. /\ invoices' = [x \in Invoices |-> invoices'[x]]
      /\ \A x \in Invoices : invoices'[x] = invoices[x] \/ Live(invoices'[x])
  BY <1>1, <1>2 DEF Matched
<1>4. GoodRequest(Idle)'
  BY DEF GoodRequest, Paying, Idle, NewPayment
<1>5. \A x \in Invoices : /\ "status" \in DOMAIN invoices'[x]
                          /\ \/ invoices'[x].status # "VOID"
                             \/ invoices'[x].status = invoices[x].status
  BY <1>3 DEF Matched, Live
<1> QED BY <1>1, <1>2, <1>3, <1>4, <1>5, IdleOK, GoodMove

----

LEMMA StepMatched == Sound /\ Matched /\ [AllNext]_allVars => Matched'
<1> SUFFICES ASSUME Sound, Matched, [AllNext]_allVars PROVE Matched'
  OBVIOUS
<1>1. CASE AllNext
  <2>1. PICK w \in Workers : \/ Trade(w) \/ QuoteStep(w) \/ NoteStep(w) \/ ReturnStep(w)
                             \/ InvoiceStep(w) \/ PaymentStep(w) \/ Abort(w)
    BY <1>1 DEF AllNext, Next
  <2>2. CASE Trade(w) \/ QuoteStep(w) \/ NoteStep(w) \/ ReturnStep(w)
    BY <2>2, PlainMatched
  <2>3. CASE InvoiceStep(w)
    BY <2>3, InvoiceMatched, InvoiceCommitMatched, VoidCommitMatched, DeleteInvoiceMatched,
       ConvertMatched DEF InvoiceStep
  <2>4. CASE PaymentStep(w) \/ Abort(w)
    BY <2>4, PaymentMatched, QuietEnds, PaymentCommitMatched DEF PaymentStep
  <2> QED BY <2>1, <2>2, <2>3, <2>4
<1>2. CASE UNCHANGED allVars
  BY <1>2 DEF allVars, vars, books, Matched, GoodRequest, Paying, Racing, Alone, Matching, At,
              Others, Live
<1> QED BY <1>1, <1>2

\* An invoice has a journal of the total that it shows, and none once it is void,
\* for any number of documents and workers, unless orders are converted or a
\* payment may race a void.
THEOREM JournalsMatch == AllSpec => []JournalMatches
<1>1. Matched => JournalMatches
  BY DEF Matched, JournalMatches, Unless, Racing, Matching
<1> QED BY <1>1, InitSound, InitMatched, StepSound, StepMatched, PTL DEF AllSpec

----
(* The shapes of rows and requests. *)

InvoiceRow == [status : InvoiceStatuses \union {"ABSENT"}, total : Nat, paid : Nat,
               balance : Nat, order : Orders \union {"none"}]
PaymentRow == [status : {"ABSENT", "PAID", "PENDING"}, invoice : Invoices \union {"none"},
               amount : Nat, number : Nat]
FollowRow(statuses) == [status : statuses \union {"ABSENT"}, order : Orders \union {"none"},
                        product : Products, quantity : Nat]

\* What a request for a note or a return saves.
Written(row, statuses) == row \in FollowRow(statuses) /\ row.status \in statuses /\ row.order \in Orders

\* What a request for a payment saves.
Recording(row) == row \in PaymentRow /\ row.invoice \in Invoices /\ row.status # "ABSENT"

OrderShape(j) ==
  /\ j.step = "order_edit" =>
       j.order \in Orders /\ j.status \in OrderStatuses /\ "edit_order" \in clients
  /\ j.step = "sale_void" => j.sale \in PosSales

\* An invoice is not paid unless its client says so.
InvoiceShape(j) ==
  /\ j.step \in ForInvoice => j.document \in Invoices
  /\ j.step \in {"invoice_edit", "invoice_booking", "convert"} =>
       /\ j.row \in InvoiceRow /\ j.row.status \notin {"ABSENT", "VOID"}
       /\ j.row.paid = 0 \/ "set_paid" \in clients
  /\ j.step \in Booking => j.seen \in Seq(Nat) /\ j.balance \in Int
  /\ j.step \in Booking \ {"payment_booking"} => j.invoice = j.document
  /\ j.step = "invoice_edit" => "edit_invoice" \in clients

PaymentShape(j) ==
  /\ j.step \in ForPayment => j.document \in Payments
  /\ j.step \in ForPayment \ {"payment_delete"} => Recording(j.row)
  /\ j.step \in NewPayment => j.total \in Nat /\ "create_payment" \in clients
  /\ j.step = "payment_inserted" => j.paid \in Nat
  /\ j.step = "payment_booking" =>
       \/ j.counted = <<>> /\ "edit_payment" \in clients
       \/ /\ \E paid \in Nat, owed \in Nat : j.counted = <<paid, owed>>
          /\ j.row.status = "PAID" /\ j.invoice = j.row.invoice
          /\ "create_payment" \in clients
  /\ j.step = "payment_edit" => "edit_payment" \in clients
  /\ j.step = "payment_delete" => "delete_payment" \in clients

QuoteShape(j) ==
  /\ j.step \in {"quote_save", "quote_convert"} => j.quotation \in Quotations
  /\ j.step = "quote_save" => j.status \in QuoteStatuses

NoteShape(j) ==
  /\ j.step = "note_save" => j.note \in Notes /\ Written(j.row, NoteStatuses)
  /\ j.step \in {"deliver", "delivering"} =>
       /\ j.note \in Notes /\ j.order \in Orders /\ j.product \in Products
       /\ j.quantity \in Nat /\ j.counted \in Nat
       /\ j.counted <= Quantity[j.order][j.product]
  /\ j.step = "delivering" => j.status \in {"FULFILLED", "PARTIALLY_FULFILLED"}

ReturnShape(j) ==
  /\ j.step \in {"return_save", "return_move"} => j.return \in Returns
  /\ j.step = "return_save" => Written(j.row, ReturnStatuses)
  /\ j.step = "return_save" /\ ~j.lined => "edit_return" \in clients
  /\ j.step = "return_move" => j.status \in ReturnStatuses

JobShape(j) ==
  /\ OrderShape(j) /\ InvoiceShape(j) /\ PaymentShape(j)
  /\ QuoteShape(j) /\ NoteShape(j) /\ ReturnShape(j)

\* Each request has its shape and is of a kind that clients send.
Jobs == job = [w \in Workers |-> job[w]] /\ \A w \in Workers : JobShape(job[w])

InvoiceTypes == invoices \in [Invoices -> InvoiceRow]
PaymentTypes ==
  /\ payments \in [Payments -> PaymentRow]
  /\ \A p \in Recorded : payments[p].invoice \in Invoices
BookTypes == posted \in [Documents -> Seq(Nat)] /\ journaled \subseteq Documents /\ receivable \in Int
QuoteTypes == quotations \in [Quotations -> QuoteStatuses] /\ origin \in [Orders -> Quotations \union {"none"}]
Written0(rows, statuses) == \A r \in DOMAIN rows : rows[r] = NoRow \/ Written(rows[r], statuses)
NoteTypes ==
  /\ notes \in [Notes -> FollowRow(NoteStatuses)] /\ Written0(notes, NoteStatuses)
  /\ fulfilled \in [Orders -> [Products -> Nat]] /\ handed \in [Orders -> [Products -> Nat]]
  /\ \A o \in Orders, p \in Products : fulfilled[o][p] <= Quantity[o][p]
ReturnTypes ==
  saleReturns \in [Returns -> FollowRow(ReturnStatuses)] /\ Written0(saleReturns, ReturnStatuses)

Typed ==
  /\ SellingTypes /\ InvoiceTypes /\ PaymentTypes /\ BookTypes
  /\ QuoteTypes /\ NoteTypes /\ ReturnTypes /\ Jobs

\* A step of w: what the others hold stays, and what w holds has a shape.
Serves(w) ==
  /\ UNCHANGED <<clients, overlap>>
  /\ job' = [v \in Workers |-> job'[v]]
  /\ \A v \in Others(w) : job'[v] = job[v]
  /\ JobShape(job'[w])

LEMMA IdleShape == JobShape(Idle)
BY DEF JobShape, OrderShape, InvoiceShape, PaymentShape, QuoteShape, NoteShape, ReturnShape,
       Idle, ForInvoice, ForPayment, NewPayment, Booking

\* The shapes depend on nothing but what clients send.
LEMMA ShapeStays ==
  ASSUME UNCHANGED clients, NEW j, JobShape(j)
  PROVE  JobShape(j)'
BY DEF JobShape, OrderShape, InvoiceShape, PaymentShape, QuoteShape, NoteShape, ReturnShape

LEMMA ServesJobs ==
  ASSUME Jobs, NEW w \in Workers, Serves(w)
  PROVE  Jobs'
<1>1. \A v \in Workers : JobShape(job'[v])
  BY DEF Jobs, Serves, Others
<1>2. \A v \in Workers : JobShape(job[v])'
  <2> TAKE v \in Workers
  <2>1. PICK j : j = job'[v]
    OBVIOUS
  <2>2. JobShape(j)'
    BY <1>1, <2>1, ShapeStays DEF Serves
  <2> QED BY <2>1, <2>2
<1> QED BY <1>2 DEF Serves, Jobs

----
(* Types: what each request takes up. *)

LEMMA OrderEditShape ==
  ASSUME NEW o \in Orders, NEW s \in OrderStatuses, "edit_order" \in clients
  PROVE  JobShape([step |-> "order_edit", order |-> o, status |-> s])
BY DEF JobShape, OrderShape, InvoiceShape, PaymentShape, QuoteShape, NoteShape, ReturnShape,
       ForInvoice, ForPayment, NewPayment, Booking

LEMMA SaleVoidShape ==
  ASSUME NEW s \in PosSales
  PROVE  JobShape([step |-> "sale_void", sale |-> s])
BY DEF JobShape, OrderShape, InvoiceShape, PaymentShape, QuoteShape, NoteShape, ReturnShape,
       ForInvoice, ForPayment, NewPayment, Booking

LEMMA SavingShape ==
  ASSUME NEW i \in Invoices, NEW row \in InvoiceRow, row.status \notin {"ABSENT", "VOID"},
         row.paid = 0 \/ "set_paid" \in clients, posted[i] \in Seq(Nat), receivable \in Int
  PROVE  JobShape(Saving(i, row))
BY DEF JobShape, OrderShape, InvoiceShape, PaymentShape, QuoteShape, NoteShape, ReturnShape,
       ForInvoice, ForPayment, NewPayment, Booking, Saving

LEMMA InvoiceEditShape ==
  ASSUME NEW i \in Invoices, NEW row \in InvoiceRow, row.status \notin {"ABSENT", "VOID"},
         row.paid = 0 \/ "set_paid" \in clients, "edit_invoice" \in clients
  PROVE  JobShape([step |-> "invoice_edit", document |-> i, row |-> row])
BY DEF JobShape, OrderShape, InvoiceShape, PaymentShape, QuoteShape, NoteShape, ReturnShape,
       ForInvoice, ForPayment, NewPayment, Booking

LEMMA ConvertShape ==
  ASSUME NEW i \in Invoices, NEW row \in InvoiceRow, row.status \notin {"ABSENT", "VOID"}, row.paid = 0
  PROVE  JobShape([step |-> "convert", document |-> i, row |-> row])
BY DEF JobShape, OrderShape, InvoiceShape, PaymentShape, QuoteShape, NoteShape, ReturnShape,
       ForInvoice, ForPayment, NewPayment, Booking

LEMMA OpenShape ==
  ASSUME NEW i \in Invoices, NEW step \in {"invoice_void", "invoice_delete"}
  PROVE  JobShape([step |-> step, document |-> i])
BY DEF JobShape, OrderShape, InvoiceShape, PaymentShape, QuoteShape, NoteShape, ReturnShape,
       ForInvoice, ForPayment, NewPayment, Booking

LEMMA VoidShape ==
  ASSUME NEW i \in Invoices, posted[i] \in Seq(Nat), receivable \in Int
  PROVE  JobShape([step |-> "void_booking", document |-> i, invoice |-> i,
                   seen |-> posted[i], balance |-> receivable])
BY DEF JobShape, OrderShape, InvoiceShape, PaymentShape, QuoteShape, NoteShape, ReturnShape,
       ForInvoice, ForPayment, NewPayment, Booking

LEMMA PayShape ==
  ASSUME NEW p \in Payments, NEW row, Recording(row), NEW total \in Nat, "create_payment" \in clients
  PROVE  JobShape([step |-> "payment", document |-> p, total |-> total, row |-> row])
BY DEF JobShape, OrderShape, InvoiceShape, PaymentShape, QuoteShape, NoteShape, ReturnShape,
       ForInvoice, ForPayment, NewPayment, Booking

LEMMA InsertedShape ==
  ASSUME NEW p \in Payments, NEW row, Recording(row), NEW total \in Nat, NEW paid \in Nat,
         "create_payment" \in clients
  PROVE  JobShape([step |-> "payment_inserted", document |-> p, row |-> row, total |-> total, paid |-> paid])
BY DEF JobShape, OrderShape, InvoiceShape, PaymentShape, QuoteShape, NoteShape, ReturnShape,
       ForInvoice, ForPayment, NewPayment, Booking

LEMMA CountedShape ==
  ASSUME NEW p \in Payments, NEW row, Recording(row), row.status = "PAID", NEW paid \in Nat, NEW owed \in Nat,
         "create_payment" \in clients, posted[p] \in Seq(Nat), receivable \in Int
  PROVE  JobShape([step |-> "payment_booking", document |-> p, invoice |-> row.invoice, row |-> row,
                   counted |-> <<paid, owed>>, seen |-> posted[p], balance |-> receivable])
BY DEF JobShape, OrderShape, InvoiceShape, PaymentShape, QuoteShape, NoteShape, ReturnShape,
       ForInvoice, ForPayment, NewPayment, Booking

LEMMA PaymentEditShape ==
  ASSUME NEW p \in Payments, NEW row, Recording(row), "edit_payment" \in clients
  PROVE  JobShape([step |-> "payment_edit", document |-> p, row |-> row])
BY DEF JobShape, OrderShape, InvoiceShape, PaymentShape, QuoteShape, NoteShape, ReturnShape,
       ForInvoice, ForPayment, NewPayment, Booking

LEMMA UncountedShape ==
  ASSUME NEW p \in Payments, NEW row, Recording(row), "edit_payment" \in clients,
         posted[p] \in Seq(Nat), receivable \in Int
  PROVE  JobShape([step |-> "payment_booking", document |-> p, invoice |-> p, row |-> row,
                   counted |-> <<>>, seen |-> posted[p], balance |-> receivable])
BY DEF JobShape, OrderShape, InvoiceShape, PaymentShape, QuoteShape, NoteShape, ReturnShape,
       ForInvoice, ForPayment, NewPayment, Booking

LEMMA PaymentDeleteShape ==
  ASSUME NEW p \in Payments, "delete_payment" \in clients
  PROVE  JobShape([step |-> "payment_delete", document |-> p])
BY DEF JobShape, OrderShape, InvoiceShape, PaymentShape, QuoteShape, NoteShape, ReturnShape,
       ForInvoice, ForPayment, NewPayment, Booking

LEMMA QuoteSaveShape ==
  ASSUME NEW q \in Quotations, NEW s \in QuoteStatuses
  PROVE  JobShape([step |-> "quote_save", quotation |-> q, status |-> s])
BY DEF JobShape, OrderShape, InvoiceShape, PaymentShape, QuoteShape, NoteShape, ReturnShape,
       ForInvoice, ForPayment, NewPayment, Booking

LEMMA QuoteConvertShape ==
  ASSUME NEW q \in Quotations
  PROVE  JobShape([step |-> "quote_convert", quotation |-> q])
BY DEF JobShape, OrderShape, InvoiceShape, PaymentShape, QuoteShape, NoteShape, ReturnShape,
       ForInvoice, ForPayment, NewPayment, Booking

LEMMA NoteSaveShape ==
  ASSUME NEW n \in Notes, NEW lined, NEW row, Written(row, NoteStatuses)
  PROVE  JobShape([step |-> "note_save", note |-> n, lined |-> lined, row |-> row])
BY DEF JobShape, OrderShape, InvoiceShape, PaymentShape, QuoteShape, NoteShape, ReturnShape,
       ForInvoice, ForPayment, NewPayment, Booking

LEMMA DeliverShape ==
  ASSUME NEW n \in Notes, NEW o \in Orders, NEW p \in Products, NEW quantity \in Nat, NEW counted \in Nat,
         counted <= Quantity[o][p]
  PROVE  JobShape([step |-> "deliver", note |-> n, order |-> o, product |-> p,
                   quantity |-> quantity, counted |-> counted])
BY DEF JobShape, OrderShape, InvoiceShape, PaymentShape, QuoteShape, NoteShape, ReturnShape,
       ForInvoice, ForPayment, NewPayment, Booking

LEMMA DeliveringShape ==
  ASSUME NEW n \in Notes, NEW o \in Orders, NEW p \in Products, NEW quantity \in Nat, NEW counted \in Nat,
         counted <= Quantity[o][p], NEW s \in {"FULFILLED", "PARTIALLY_FULFILLED"}
  PROVE  JobShape([step |-> "delivering", note |-> n, order |-> o, product |-> p,
                   quantity |-> quantity, counted |-> counted, status |-> s])
BY DEF JobShape, OrderShape, InvoiceShape, PaymentShape, QuoteShape, NoteShape, ReturnShape,
       ForInvoice, ForPayment, NewPayment, Booking

LEMMA ReturnSaveShape ==
  ASSUME NEW r \in Returns, NEW lined, NEW row, Written(row, ReturnStatuses),
         lined \/ "edit_return" \in clients
  PROVE  JobShape([step |-> "return_save", return |-> r, lined |-> lined, row |-> row])
BY DEF JobShape, OrderShape, InvoiceShape, PaymentShape, QuoteShape, NoteShape, ReturnShape,
       ForInvoice, ForPayment, NewPayment, Booking

LEMMA ReturnMoveShape ==
  ASSUME NEW r \in Returns, NEW s \in ReturnStatuses
  PROVE  JobShape([step |-> "return_move", return |-> r, status |-> s])
BY DEF JobShape, OrderShape, InvoiceShape, PaymentShape, QuoteShape, NoteShape, ReturnShape,
       ForInvoice, ForPayment, NewPayment, Booking

\* A step of w that asks for j next, and ends a request when j is Idle.
LEMMA Served ==
  ASSUME Jobs, NEW w \in Workers, NEW j, Becomes(w, j), JobShape(j), UNCHANGED <<clients, overlap>>
  PROVE  Serves(w) /\ job'[w] = j
BY DEF Jobs, Becomes, Serves, Others

LEMMA Responded ==
  ASSUME Jobs, NEW w \in Workers, Respond(w), UNCHANGED <<clients, overlap>>
  PROVE  Serves(w) /\ job'[w] = Idle
BY Served, IdleShape DEF Respond

\* A step that asks for nothing.
LEMMA Answered ==
  ASSUME Jobs, NEW w \in Workers, UNCHANGED <<clients, overlap, job>>
  PROVE  Serves(w) /\ job'[w] = job[w]
BY DEF Jobs, Serves, Others

\* Amounts of rows are numbers.
LEMMA SettledKnown ==
  ASSUME NEW paid, NEW balance
  PROVE  Settled(paid, balance) \in {"UNPAID", "PARTIALLY_PAID", "PAID"}
BY DEF Settled

LEMMA OwedNat ==
  ASSUME NEW total \in Nat, NEW paid \in Nat
  PROVE  Owed(total, paid) \in Nat /\ Owed(total, paid) = IF total <= paid THEN 0 ELSE total - paid
<1>1. total - paid \in Int
  OBVIOUS
<1> QED BY <1>1, MaxPair DEF Owed

LEMMA BilledRow ==
  ASSUME NEW total \in Nat, NEW paid \in Nat, paid <= total
  PROVE  /\ Billed(total, paid) \in InvoiceRow
         /\ Billed(total, paid).status = Settled(paid, total - paid)
         /\ Billed(total, paid).status \notin {"ABSENT", "VOID"}
         /\ Billed(total, paid).paid = paid /\ Billed(total, paid).total = total
         /\ Billed(total, paid).balance = total - paid /\ Billed(total, paid).order = "none"
<1>1. PICK s : s = Settled(paid, total - paid)
  OBVIOUS
<1>2. s \in InvoiceStatuses /\ s \notin {"ABSENT", "VOID"}
  BY <1>1, SettledKnown DEF InvoiceStatuses
<1>3. total - paid \in Nat /\ paid \in Nat
  OBVIOUS
<1>4. PICK balance \in Nat : balance = total - paid
  BY <1>3
<1>5. PICK row : row = Billed(total, paid)
  OBVIOUS
<1>6. row = [NoInvoice EXCEPT !.status = s, !.total = total, !.paid = paid, !.balance = balance]
  BY <1>1, <1>4, <1>5 DEF Billed
<1>7. /\ row \in InvoiceRow /\ row.status = s /\ row.paid = paid /\ row.total = total
      /\ row.balance = balance /\ row.order = "none"
  BY <1>2, <1>3, <1>6 DEF InvoiceRow, NoInvoice
<1> QED BY <1>1, <1>2, <1>4, <1>5, <1>7

Ordered(total, paid, o) == [Billed(total, paid) EXCEPT !.order = o]

LEMMA OrderedRow ==
  ASSUME NEW total \in Nat, NEW paid \in Nat, paid <= total, NEW o \in Orders \union {"none"}, NEW row,
         row = Ordered(total, paid, o)
  PROVE  /\ row \in InvoiceRow /\ row.status \notin {"ABSENT", "VOID"}
         /\ row.paid = paid /\ row.total = total /\ row.balance = total - paid /\ row.order = o
<1>1. PICK old : old = Billed(total, paid)
  OBVIOUS
<1>2. /\ old \in InvoiceRow /\ old.status \notin {"ABSENT", "VOID"}
      /\ old.paid = paid /\ old.total = total /\ old.balance = total - paid
  BY <1>1, BilledRow
<1>3. row = [old EXCEPT !.order = o]
  BY <1>1 DEF Ordered
<1> QED BY <1>2, <1>3 DEF InvoiceRow

\* What the client of an invoice may say of it.
LEMMA NamedOrder ==
  ASSUME NEW old \in Orders \union {"none"}, NEW o \in Named(old)
  PROVE  o \in Orders \union {"none"} /\ (o = old \/ "name_order" \in clients)
BY DEF Named

LEMMA SaidPaidNat ==
  ASSUME NEW paid \in SaidPaid
  PROVE  paid \in Nat /\ (paid = 0 \/ "set_paid" \in clients)
BY SalesAssumption DEF SaidPaid

Rewritten(old, paid, o) == [old EXCEPT !.paid = paid, !.order = o]

LEMMA RewrittenRow ==
  ASSUME NEW old \in InvoiceRow, NEW paid \in Nat, NEW o \in Orders \union {"none"}, NEW row,
         row = Rewritten(old, paid, o)
  PROVE  /\ row \in InvoiceRow /\ row.status = old.status /\ row.total = old.total
         /\ row.balance = old.balance /\ row.paid = paid /\ row.order = o
BY DEF InvoiceRow, Rewritten

LEMMA TotalsNat == Totals \subseteq Nat /\ Amounts \subseteq Nat
BY SalesAssumption

----
(* Types: requests for invoices and payments. *)

\* A new invoice: of no order and unpaid unless clients say otherwise.
NewRow(w, i, row) ==
  /\ i \in Invoices /\ invoices[i].status = "ABSENT" /\ NewKey(i)
  /\ Becomes(w, Saving(i, row))
  /\ row \in InvoiceRow /\ row.status \notin {"ABSENT", "VOID"}
  /\ row.paid <= row.total /\ row.balance = row.total - row.paid
  /\ row.paid = 0 \/ "set_paid" \in clients
  /\ row.order = "none" \/ "name_order" \in clients

LEMMA CreatesRow ==
  ASSUME NEW w \in Workers, CreateInvoice(w)
  PROVE  \E i, row : NewRow(w, i, row)
<1>1. PICK i \in Invoices, total \in Totals, paid \in SaidPaid, o \in Named("none") :
        /\ paid <= total /\ invoices[i].status = "ABSENT" /\ NewKey(i)
        /\ Becomes(w, Saving(i, Ordered(total, paid, o)))
  BY DEF CreateInvoice, Ordered
<1>2. /\ paid \in Nat /\ (paid = 0 \/ "set_paid" \in clients)
      /\ o \in Orders \union {"none"} /\ (o = "none" \/ "name_order" \in clients)
  BY NamedOrder, SaidPaidNat
<1>3. PICK row : row = Ordered(total, paid, o)
  OBVIOUS
<1>4. /\ row \in InvoiceRow /\ row.status \notin {"ABSENT", "VOID"}
      /\ row.paid = paid /\ row.total = total /\ row.balance = total - paid /\ row.order = o
  BY <1>1, <1>2, <1>3, TotalsNat, OrderedRow
<1>5. Becomes(w, Saving(i, row))
  BY <1>1, <1>3
<1> QED BY <1>1, <1>2, <1>4, <1>5 DEF NewRow

LEMMA CreateInvoiceTyped ==
  ASSUME Jobs, BookTypes, NEW w \in Workers, CreateInvoice(w)
  PROVE  Serves(w)
<1>1. PICK i, row : NewRow(w, i, row)
  BY CreatesRow
<1>2. posted[i] \in Seq(Nat) /\ receivable \in Int
  BY <1>1 DEF BookTypes, Documents, NewRow
<1> QED BY <1>1, <1>2, SavingShape, Served DEF CreateInvoice, NewRow

\* An edit of an unpaid invoice: it keeps its order and is unpaid unless clients say
\* otherwise.
EditedRow(w, i, row) ==
  /\ i \in Invoices /\ invoices[i].status \notin {"ABSENT", "VOID"} /\ invoices[i].paid = 0
  /\ Becomes(w, [step |-> "invoice_edit", document |-> i, row |-> row])
  /\ "edit_invoice" \in clients
  /\ row \in InvoiceRow /\ row.status \notin {"ABSENT", "VOID"}
  /\ row.paid = 0 \/ "set_paid" \in clients
  /\ row.order = invoices[i].order \/ "name_order" \in clients
  /\ \/ row.balance = row.total
     \/ row.balance = invoices[i].balance /\ row.total = invoices[i].total
     \/ "set_paid" \in clients

LEMMA EditsRow ==
  ASSUME InvoiceTypes, NEW w \in Workers, EditInvoiceLoad(w)
  PROVE  \E i, row : EditedRow(w, i, row)
<1>0. PICK i \in Invoices, paid \in SaidPaid : \E o \in Named(invoices[i].order) :
        /\ invoices[i].status \in {"UNPAID", "PARTIALLY_PAID"} /\ invoices[i].paid = 0
        /\ \E old \in {invoices[i]} \union {Billed(total, paid) : total \in {t \in Totals : paid <= t}} :
             Becomes(w, [step |-> "invoice_edit", document |-> i, row |-> Rewritten(old, paid, o)])
  BY DEF EditInvoiceLoad, Rewritten
<1>1. PICK o \in Named(invoices[i].order),
           old \in {invoices[i]} \union {Billed(total, paid) : total \in {t \in Totals : paid <= t}} :
        Becomes(w, [step |-> "invoice_edit", document |-> i, row |-> Rewritten(old, paid, o)])
  BY <1>0
<1>2. invoices[i] \in InvoiceRow /\ invoices[i].order \in Orders \union {"none"}
  BY DEF InvoiceTypes, InvoiceRow
<1>3. /\ paid \in Nat /\ (paid = 0 \/ "set_paid" \in clients)
      /\ o \in Orders \union {"none"} /\ (o = invoices[i].order \/ "name_order" \in clients)
  BY <1>2, NamedOrder, SaidPaidNat
<1>4. /\ old \in InvoiceRow /\ old.status \notin {"ABSENT", "VOID"}
      /\ old = invoices[i] \/ old.balance = old.total - paid
  <2>1. CASE old = invoices[i]
    BY <1>0, <1>2, <2>1
  <2>2. CASE old # invoices[i]
    <3>1. PICK total \in Totals : old = Billed(total, paid) /\ paid <= total
      BY <1>1, <2>2
    <3> QED BY <1>3, <3>1, TotalsNat, BilledRow
  <2> QED BY <2>1, <2>2
<1>5. PICK row : row = Rewritten(old, paid, o)
  OBVIOUS
<1>6. /\ row \in InvoiceRow /\ row.status = old.status /\ row.total = old.total
      /\ row.balance = old.balance /\ row.paid = paid /\ row.order = o
  BY <1>3, <1>4, <1>5, RewrittenRow
<1>7. \/ row.balance = row.total
      \/ row.balance = invoices[i].balance /\ row.total = invoices[i].total
      \/ "set_paid" \in clients
  BY <1>3, <1>4, <1>6 DEF InvoiceRow
<1>8. "edit_invoice" \in clients
  BY DEF EditInvoiceLoad, Takes
<1>9. Becomes(w, [step |-> "invoice_edit", document |-> i, row |-> row])
  BY <1>1, <1>5
<1> QED BY <1>0, <1>3, <1>4, <1>6, <1>7, <1>8, <1>9 DEF EditedRow

LEMMA EditInvoiceLoadTyped ==
  ASSUME Jobs, InvoiceTypes, NEW w \in Workers, EditInvoiceLoad(w)
  PROVE  Serves(w)
<1>1. PICK i, row : EditedRow(w, i, row)
  BY EditsRow
<1> QED BY <1>1, InvoiceEditShape, Served DEF EditInvoiceLoad, EditedRow

LEMMA EditInvoiceSaveTyped ==
  ASSUME Jobs, BookTypes, NEW w \in Workers, EditInvoiceSave(w)
  PROVE  Serves(w)
<1>1. PICK i : i = job[w].document
  OBVIOUS
<1>2. /\ i \in Invoices /\ job[w].row \in InvoiceRow
      /\ job[w].row.status \notin {"ABSENT", "VOID"} /\ (job[w].row.paid = 0 \/ "set_paid" \in clients)
  BY <1>1 DEF Jobs, JobShape, InvoiceShape, ForInvoice, EditInvoiceSave, At
<1>3. posted[i] \in Seq(Nat) /\ receivable \in Int
  BY <1>2 DEF BookTypes, Documents
<1> QED BY <1>1, <1>2, <1>3, SavingShape, Served DEF EditInvoiceSave

LEMMA VoidLoadTyped ==
  ASSUME Jobs, NEW w \in Workers, VoidLoad(w) \/ DeleteInvoiceLoad(w)
  PROVE  Serves(w)
<1>1. PICK i \in Invoices, step \in {"invoice_void", "invoice_delete"} :
        Becomes(w, [step |-> step, document |-> i])
  BY DEF VoidLoad, DeleteInvoiceLoad
<1> QED BY <1>1, OpenShape, Served DEF VoidLoad, DeleteInvoiceLoad

LEMMA VoidSaveTyped ==
  ASSUME Jobs, BookTypes, NEW w \in Workers, VoidSave(w)
  PROVE  Serves(w)
<1>1. PICK i : i = job[w].document
  OBVIOUS
<1>2. i \in Invoices
  BY <1>1 DEF Jobs, JobShape, InvoiceShape, ForInvoice, VoidSave, At
<1>3. posted[i] \in Seq(Nat) /\ receivable \in Int
  BY <1>2 DEF BookTypes, Documents
<1> QED BY <1>1, <1>2, <1>3, VoidShape, Served DEF VoidSave

LEMMA ConvertLoadTyped ==
  ASSUME Jobs, NEW w \in Workers, ConvertLoad(w)
  PROVE  Serves(w)
<1>1. PICK o \in Orders, i \in Invoices, total \in Totals :
        Becomes(w, [step |-> "convert", document |-> i, row |-> Ordered(total, 0, o)])
  BY DEF ConvertLoad, Ordered
<1>2. PICK row : row = Ordered(total, 0, o)
  OBVIOUS
<1>3. row \in InvoiceRow /\ row.status \notin {"ABSENT", "VOID"} /\ row.paid = 0
  BY <1>1, <1>2, TotalsNat, OrderedRow
<1> QED BY <1>1, <1>2, <1>3, ConvertShape, Served DEF ConvertLoad

LEMMA PayLoadTyped ==
  ASSUME Jobs, InvoiceTypes, NEW w \in Workers, PayLoad(w)
  PROVE  Serves(w)
<1>1. PICK p \in Payments, i \in Invoices, amount \in Amounts, s \in {"PAID", "PENDING"} :
        Becomes(w, [step |-> "payment", document |-> p, total |-> invoices[i].total,
                    row |-> [status |-> s, invoice |-> i, amount |-> amount, number |-> 0]])
  BY DEF PayLoad
<1>2. Recording([status |-> s, invoice |-> i, amount |-> amount, number |-> 0])
  BY TotalsNat DEF Recording, PaymentRow
<1>3. invoices[i].total \in Nat
  BY DEF InvoiceTypes, InvoiceRow
<1> QED BY <1>1, <1>2, <1>3, PayShape, Served DEF PayLoad, Takes

\* Sums and numbers of recorded payments are numbers.
LEMMA PaidNat ==
  ASSUME PaymentTypes, NEW i
  PROVE  PaidAmount(i) \in Nat
<1> DEFINE f == [p \in Payments |-> payments[p].amount]
           S == {p \in Payments : payments[p].invoice = i /\ payments[p].status = "PAID"}
<1>1. IsFiniteSet(S)
  BY SalesAssumption, FS_Subset
<1>2. \A x \in S : f[x] \in Nat
  BY DEF PaymentTypes, PaymentRow
<1>3. SumFunctionOnSet(f, S) \in Nat
  <2> HIDE DEF f, S
  <2> QED BY <1>1, <1>2, SumNat
<1> QED BY <1>3 DEF PaidAmount

LEMMA NumberNat == NextNumber \in Nat
<1>1. IsFiniteSet(Recorded)
  BY SalesAssumption, FS_Subset DEF Recorded
<1>2. Cardinality(Recorded) \in Nat
  BY <1>1, FS_CardinalityType
<1> QED BY <1>2 DEF NextNumber

LEMMA NumberedRow ==
  ASSUME NEW row, Recording(row), NEW n \in Nat
  PROVE  /\ Recording([row EXCEPT !.number = n])
         /\ [row EXCEPT !.number = n].status = row.status
         /\ [row EXCEPT !.number = n].invoice = row.invoice
         /\ [row EXCEPT !.number = n].amount = row.amount
         /\ [row EXCEPT !.number = n].number = n
BY DEF Recording, PaymentRow

LEMMA PayInsertTyped ==
  ASSUME Jobs, PaymentTypes, NEW w \in Workers, PayInsert(w)
  PROVE  Serves(w)
<1>1. PICK p, row, total : p = job[w].document /\ row = job[w].row /\ total = job[w].total
  OBVIOUS
<1>2. p \in Payments /\ Recording(row) /\ total \in Nat /\ "create_payment" \in clients
  BY <1>1 DEF Jobs, JobShape, PaymentShape, ForPayment, NewPayment, PayInsert, At
<1>3. PICK paid : paid = PaidAmount(row.invoice) + (IF row.status = "PAID" THEN row.amount ELSE 0)
  OBVIOUS
<1>4. paid \in Nat
  BY <1>2, <1>3, PaidNat DEF Recording, PaymentRow
<1>5. Recording([row EXCEPT !.number = NextNumber])
  BY <1>2, NumberedRow, NumberNat
<1>6. Becomes(w, [step |-> "payment_inserted", document |-> p,
                  row |-> [row EXCEPT !.number = NextNumber], total |-> total, paid |-> paid])
  BY <1>1, <1>3 DEF PayInsert
<1> QED BY <1>2, <1>4, <1>5, <1>6, InsertedShape, Served DEF PayInsert

LEMMA PaySaveTyped ==
  ASSUME Jobs, BookTypes, NEW w \in Workers, PaySave(w)
  PROVE  Serves(w)
<1>1. PICK p, row, total, paid :
        p = job[w].document /\ row = job[w].row /\ total = job[w].total /\ paid = job[w].paid
  OBVIOUS
<1>2. /\ p \in Payments /\ Recording(row) /\ total \in Nat /\ paid \in Nat
      /\ "create_payment" \in clients /\ row.status = "PAID"
  BY <1>1 DEF Jobs, JobShape, PaymentShape, ForPayment, NewPayment, PaySave, At
<1>3. Owed(total, paid) \in Nat
  BY <1>2, OwedNat
<1>4. Becomes(w, [step |-> "payment_booking", document |-> p, invoice |-> row.invoice,
                  row |-> row, counted |-> <<paid, Owed(total, paid)>>,
                  seen |-> posted[p], balance |-> receivable])
  BY <1>1 DEF PaySave
<1>5. posted[p] \in Seq(Nat) /\ receivable \in Int
  BY <1>2 DEF BookTypes, Documents
<1> QED BY <1>2, <1>3, <1>4, <1>5, CountedShape, Served DEF PaySave

LEMMA EditPaymentLoadTyped ==
  ASSUME Jobs, PaymentTypes, NEW w \in Workers, EditPaymentLoad(w)
  PROVE  Serves(w)
<1>1. PICK p \in Recorded, amount \in Amounts, s \in {"PAID", "PENDING"} :
        Becomes(w, [step |-> "payment_edit", document |-> p,
                    row |-> [payments[p] EXCEPT !.amount = amount, !.status = s]])
  BY DEF EditPaymentLoad
<1>2. p \in Payments /\ payments[p] \in PaymentRow /\ payments[p].invoice \in Invoices
  BY DEF PaymentTypes, Recorded
<1>3. Recording([payments[p] EXCEPT !.amount = amount, !.status = s])
  BY <1>2, TotalsNat DEF Recording, PaymentRow
<1> QED BY <1>1, <1>2, <1>3, PaymentEditShape, Served DEF EditPaymentLoad, Takes

LEMMA EditPaymentSaveTyped ==
  ASSUME Jobs, BookTypes, NEW w \in Workers, EditPaymentSave(w)
  PROVE  Serves(w)
<1>1. PICK p, row : p = job[w].document /\ row = job[w].row
  OBVIOUS
<1>2. p \in Payments /\ Recording(row) /\ "edit_payment" \in clients
  BY <1>1 DEF Jobs, JobShape, PaymentShape, ForPayment, NewPayment, EditPaymentSave, At
<1>3. Becomes(w, [step |-> "payment_booking", document |-> p, invoice |-> p, row |-> row,
                  counted |-> <<>>, seen |-> posted[p], balance |-> receivable])
  BY <1>1 DEF EditPaymentSave
<1>4. posted[p] \in Seq(Nat) /\ receivable \in Int
  BY <1>2 DEF BookTypes, Documents
<1> QED BY <1>2, <1>3, <1>4, UncountedShape, Served DEF EditPaymentSave

LEMMA DeletePaymentLoadTyped ==
  ASSUME Jobs, NEW w \in Workers, DeletePaymentLoad(w)
  PROVE  Serves(w)
<1>1. PICK p \in Recorded : Becomes(w, [step |-> "payment_delete", document |-> p])
  BY DEF DeletePaymentLoad
<1> QED BY <1>1, PaymentDeleteShape, Served DEF DeletePaymentLoad, Takes, Recorded

----
(* Types: orders and POS sales. *)

LEMMA ConfirmTyped ==
  ASSUME Jobs, SellingTypes, NEW w \in Workers, ConfirmOrder(w)
  PROVE  Serves(w) /\ SellingTypes'
<1>1. PICK o \in Orders :
        /\ stock' = [p \in Products |->
             IF p \in Reservable(o)
             THEN [stock[p] EXCEPT !.reserved = @ + Quantity[o][p]] ELSE stock[p]]
        /\ orders' = IF Reservable(o) = Lines(o)
                     THEN [orders EXCEPT ![o] = "CONFIRMED"] ELSE orders
  BY DEF ConfirmOrder
<1>2. orders' \in [Orders -> OrderStatuses \union {"ABSENT"}]
  BY <1>1 DEF SellingTypes, OrderStatuses
<1>3. stock' \in [Products -> [current : Nat, reserved : Nat]]
  <2>1. ASSUME NEW p \in Products
        PROVE  [stock[p] EXCEPT !.reserved = @ + Quantity[o][p]] \in [current : Nat, reserved : Nat]
    <3>1. stock[p] \in [current : Nat, reserved : Nat] /\ Quantity[o][p] \in Nat
      BY <1>1, SellingAssumption DEF SellingTypes
    <3> QED BY <3>1
  <2> QED BY <1>1, <2>1 DEF SellingTypes
<1>4. Serves(w)
  BY Answered DEF ConfirmOrder
<1> QED BY <1>2, <1>3, <1>4 DEF SellingTypes, ConfirmOrder

LEMMA OrderEditLoadTyped ==
  ASSUME Jobs, NEW w \in Workers, OrderEditLoad(w)
  PROVE  Serves(w)
<1>1. PICK o \in Orders, s \in OrderEdits :
        Becomes(w, [step |-> "order_edit", order |-> o, status |-> s])
  BY DEF OrderEditLoad
<1>2. s \in OrderStatuses
  BY <1>1, SellingAssumption
<1> QED BY <1>1, <1>2, OrderEditShape, Served DEF OrderEditLoad, Takes

LEMMA OrderEditSaveTyped ==
  ASSUME Jobs, SellingTypes, NEW w \in Workers, OrderEditSave(w)
  PROVE  Serves(w) /\ SellingTypes'
<1>1. job[w].order \in Orders /\ job[w].status \in OrderStatuses
  BY DEF Jobs, JobShape, OrderShape, OrderEditSave, At
<1>2. orders' \in [Orders -> OrderStatuses \union {"ABSENT"}]
  BY <1>1 DEF SellingTypes, OrderEditSave
<1> QED BY <1>2, Responded DEF OrderEditSave, SellingTypes

LEMMA SellTyped ==
  ASSUME Jobs, SellingTypes, NEW w \in Workers, Sell(w)
  PROVE  Serves(w) /\ SellingTypes'
<1>1. PICK s \in PosSales, p \in Products :
        /\ Available(p) >= 1
        /\ sales' = [sales EXCEPT ![s] = [status |-> "PAID", product |-> p]]
        /\ stock' = [stock EXCEPT ![p].current = @ - 1]
  BY DEF Sell
<1>2. [status |-> "PAID", product |-> p] \in SaleRows
  BY <1>1 DEF SaleRows
<1>3. sales' \in [PosSales -> SaleRows]
  BY <1>1, <1>2 DEF SellingTypes
<1>4. stock' \in [Products -> [current : Nat, reserved : Nat]]
  <2>1. stock[p] \in [current : Nat, reserved : Nat] /\ stock[p].current - 1 \in Nat
    BY <1>1 DEF SellingTypes, Available
  <2> QED BY <1>1, <2>1 DEF SellingTypes
<1>5. Serves(w)
  BY Answered DEF Sell
<1> QED BY <1>3, <1>4, <1>5 DEF SellingTypes, Sell

LEMMA VoidSaleLoadTyped ==
  ASSUME Jobs, NEW w \in Workers, VoidSaleLoad(w)
  PROVE  Serves(w)
<1>1. PICK s \in PosSales : Becomes(w, [step |-> "sale_void", sale |-> s])
  BY DEF VoidSaleLoad
<1> QED BY <1>1, SaleVoidShape, Served DEF VoidSaleLoad

LEMMA VoidSaleSaveTyped ==
  ASSUME Jobs, SellingTypes, NEW w \in Workers, VoidSaleSave(w)
  PROVE  Serves(w) /\ SellingTypes'
<1>1. PICK s : s = job[w].sale
  OBVIOUS
<1>2. s \in PosSales
  BY <1>1 DEF Jobs, JobShape, OrderShape, VoidSaleSave, At
<1>3. PICK p : p = sales[s].product
  OBVIOUS
<1>4. p \in Products /\ sales[s] \in SaleRows
  BY <1>2, <1>3 DEF SellingTypes, SaleRows
<1>5. stock' \in [Products -> [current : Nat, reserved : Nat]]
  <2>1. stock' = [stock EXCEPT ![p].current = @ + 1]
    BY <1>1, <1>3 DEF VoidSaleSave
  <2>2. stock[p] \in [current : Nat, reserved : Nat] /\ stock[p].current + 1 \in Nat
    BY <1>4 DEF SellingTypes
  <2> QED BY <2>1, <2>2 DEF SellingTypes
<1>6. sales' \in [PosSales -> SaleRows]
  <2>1. sales' = [sales EXCEPT ![s].status = "VOID"]
    BY <1>1 DEF VoidSaleSave
  <2>2. [sales[s] EXCEPT !.status = "VOID"] \in SaleRows
    BY <1>4 DEF SaleRows
  <2> QED BY <1>2, <2>1, <2>2 DEF SellingTypes
<1>7. Serves(w)
  BY Responded DEF VoidSaleSave
<1> QED BY <1>5, <1>6, <1>7 DEF SellingTypes, VoidSaleSave

----
(* Types: quotations. *)

LEMMA QuoteLoadTyped ==
  ASSUME Jobs, QuoteTypes, NEW w \in Workers, QuoteLoad(w)
  PROVE  Serves(w)
<1>1. PICK q \in Quotations : \E s \in QuoteEdits \union {"SENT", quotations[q]} :
        Becomes(w, [step |-> "quote_save", quotation |-> q, status |-> s])
  BY DEF QuoteLoad
<1>2. PICK s \in QuoteEdits \union {"SENT", quotations[q]} :
        Becomes(w, [step |-> "quote_save", quotation |-> q, status |-> s])
  BY <1>1
<1>3. s \in QuoteStatuses
  BY <1>1, <1>2, AftersalesAssumption DEF QuoteTypes, QuoteStatuses
<1> QED BY <1>1, <1>2, <1>3, QuoteSaveShape, Served DEF QuoteLoad

LEMMA QuoteConvertLoadTyped ==
  ASSUME Jobs, NEW w \in Workers, QuoteConvertLoad(w)
  PROVE  Serves(w)
<1>1. PICK q \in Quotations : Becomes(w, [step |-> "quote_convert", quotation |-> q])
  BY DEF QuoteConvertLoad
<1> QED BY <1>1, QuoteConvertShape, Served DEF QuoteConvertLoad

LEMMA QuoteSaveTyped ==
  ASSUME Jobs, QuoteTypes, NEW w \in Workers, QuoteSave(w)
  PROVE  Serves(w) /\ QuoteTypes'
<1>1. job[w].quotation \in Quotations /\ job[w].status \in QuoteStatuses
  BY DEF Jobs, JobShape, QuoteShape, QuoteSave, At
<1> QED BY <1>1, Responded DEF QuoteSave, QuoteTypes

LEMMA AnswerQuoteTyped ==
  ASSUME Jobs, QuoteTypes, NEW w \in Workers, AnswerQuote(w)
  PROVE  Serves(w) /\ QuoteTypes'
<1>1. PICK q \in Quotations, s \in {"ACCEPTED", "REJECTED"} :
        quotations' = [quotations EXCEPT ![q] = s]
  BY DEF AnswerQuote
<1>2. QuoteTypes'
  BY <1>1 DEF AnswerQuote, QuoteTypes, QuoteStatuses
<1> QED BY <1>2, Answered DEF AnswerQuote

LEMMA QuoteConvertSaveTyped ==
  ASSUME Jobs, QuoteTypes, SellingTypes, NEW w \in Workers, QuoteConvertSave(w)
  PROVE  Serves(w) /\ QuoteTypes' /\ SellingTypes'
<1>1. PICK q : q = job[w].quotation
  OBVIOUS
<1>2. q \in Quotations
  BY <1>1 DEF Jobs, JobShape, QuoteShape, QuoteConvertSave, At
<1>3. PICK o \in Orders : /\ orders' = [orders EXCEPT ![o] = "DRAFT"]
                          /\ origin' = [origin EXCEPT ![o] = q]
  BY <1>1 DEF QuoteConvertSave
<1>4. quotations' = [quotations EXCEPT ![q] = "CONVERTED"]
  BY <1>1 DEF QuoteConvertSave
<1>5. QuoteTypes'
  BY <1>2, <1>3, <1>4 DEF QuoteTypes, QuoteStatuses
<1>6. orders' \in [Orders -> OrderStatuses \union {"ABSENT"}]
  BY <1>3 DEF SellingTypes, OrderStatuses
<1> QED BY <1>5, <1>6, Responded DEF QuoteConvertSave, SellingTypes, trade

----
(* Types: delivery notes and returns. *)

LEMMA NoRowShape ==
  ASSUME NEW statuses
  PROVE  NoRow \in FollowRow(statuses) /\ NoRow.status = "ABSENT" /\ NoRow.order = "none"
         /\ NoRow.quantity = 0
<1>1. Min(Products) \in Products
  BY SellingAssumption, MinIn
<1> QED BY <1>1 DEF NoRow, FollowRow

LEMMA RestatedRow ==
  ASSUME NEW statuses, NEW row, Written(row, statuses), NEW s \in statuses,
         NEW p \in Products, NEW quantity \in Nat
  PROVE  /\ Written([row EXCEPT !.status = s], statuses)
         /\ Written([row EXCEPT !.status = s, !.quantity = quantity], statuses)
         /\ Written([row EXCEPT !.product = p, !.quantity = quantity], statuses)
BY DEF Written, FollowRow

LEMMA NoteWritten ==
  ASSUME NoteTypes, NEW n \in Notes, NEW row, row = NoRow \/ Written(row, NoteStatuses),
         notes' = [notes EXCEPT ![n] = row], UNCHANGED <<fulfilled, handed>>
  PROVE  NoteTypes'
<1>1. row \in FollowRow(NoteStatuses)
  BY NoRowShape DEF Written
<1>2. notes' \in [Notes -> FollowRow(NoteStatuses)]
  BY <1>1 DEF NoteTypes
<1>3. \A x \in Notes : notes'[x] = IF x = n THEN row ELSE notes[x]
  BY DEF NoteTypes
<1>4. \A x \in Notes : notes'[x] = NoRow \/ Written(notes'[x], NoteStatuses)
  BY <1>3 DEF NoteTypes, Written0
<1>5. Written0(notes, NoteStatuses)'
  BY <1>2, <1>4 DEF Written0, Written
<1> QED BY <1>2, <1>5 DEF NoteTypes

LEMMA NoteThere ==
  ASSUME NoteTypes, NEW n \in Notes, notes[n].status # "ABSENT"
  PROVE  Written(notes[n], NoteStatuses)
BY NoRowShape DEF NoteTypes, Written0

LEMMA CreateNoteTyped ==
  ASSUME Jobs, NoteTypes, NEW w \in Workers, CreateNote(w)
  PROVE  Serves(w) /\ NoteTypes'
<1>1. PICK n \in Notes, o \in Orders, quantity \in Amounts : \E p \in Lines(o) :
        notes' = [notes EXCEPT ![n] = [status |-> "DRAFT", order |-> o, product |-> p,
                                       quantity |-> quantity]]
  BY DEF CreateNote
<1>2. PICK p \in Lines(o) :
        notes' = [notes EXCEPT ![n] = [status |-> "DRAFT", order |-> o, product |-> p,
                                       quantity |-> quantity]]
  BY <1>1
<1>3. Written([status |-> "DRAFT", order |-> o, product |-> p, quantity |-> quantity], NoteStatuses)
  BY <1>1, <1>2, TotalsNat DEF Written, FollowRow, NoteStatuses, Lines
<1>4. NoteTypes'
  BY <1>1, <1>2, <1>3, NoteWritten DEF CreateNote
<1> QED BY <1>4, Answered DEF CreateNote

LEMMA NoteLoadTyped ==
  ASSUME Jobs, NoteTypes, NEW w \in Workers, NoteLoad(w)
  PROVE  Serves(w)
<1>1. PICK n \in Notes, quantity \in Amounts, lined \in BOOLEAN :
        /\ notes[n].status # "ABSENT"
        /\ \E s \in NoteEdits \union {notes[n].status} :
             Becomes(w, [step |-> "note_save", note |-> n, lined |-> lined,
                         row |-> [notes[n] EXCEPT !.status = s, !.quantity = quantity]])
  BY DEF NoteLoad
<1>2. PICK s \in NoteEdits \union {notes[n].status} :
        Becomes(w, [step |-> "note_save", note |-> n, lined |-> lined,
                    row |-> [notes[n] EXCEPT !.status = s, !.quantity = quantity]])
  BY <1>1
<1>3. Written(notes[n], NoteStatuses)
  BY <1>1, NoteThere
<1>4. s \in NoteStatuses /\ quantity \in Nat /\ notes[n].product \in Products
  BY <1>1, <1>2, <1>3, TotalsNat, AftersalesAssumption DEF Written, FollowRow
<1>5. Written([notes[n] EXCEPT !.status = s, !.quantity = quantity], NoteStatuses)
  BY <1>3, <1>4, RestatedRow
<1> QED BY <1>1, <1>2, <1>5, NoteSaveShape, Served DEF NoteLoad

LEMMA NoteSaveTyped ==
  ASSUME Jobs, NoteTypes, NEW w \in Workers, NoteSave(w)
  PROVE  Serves(w) /\ NoteTypes'
<1>1. PICK n, row : n = job[w].note /\ row = job[w].row
  OBVIOUS
<1>2. n \in Notes /\ Written(row, NoteStatuses)
  BY <1>1 DEF Jobs, JobShape, NoteShape, NoteSave, At
<1>3. PICK p, quantity : p = notes[n].product /\ quantity = notes[n].quantity
  OBVIOUS
<1>4. p \in Products /\ quantity \in Nat /\ row.status \in NoteStatuses
  BY <1>2, <1>3 DEF NoteTypes, FollowRow, Written
<1>5. Written([row EXCEPT !.product = p, !.quantity = quantity], NoteStatuses)
  BY <1>2, <1>4, RestatedRow
<1>6. PICK next : next = IF job[w].lined THEN row
                         ELSE [row EXCEPT !.product = p, !.quantity = quantity]
  OBVIOUS
<1>7. Written(next, NoteStatuses)
  BY <1>2, <1>5, <1>6
<1>8. notes' = [notes EXCEPT ![n] = next] /\ UNCHANGED <<fulfilled, handed>>
  BY <1>1, <1>3, <1>6 DEF NoteSave
<1> QED BY <1>2, <1>7, <1>8, NoteWritten, Responded DEF NoteSave

LEMMA DispatchTyped ==
  ASSUME Jobs, NoteTypes, NEW w \in Workers, Dispatch(w)
  PROVE  Serves(w) /\ NoteTypes'
<1>1. PICK n \in Notes : /\ notes[n].status # "ABSENT"
                         /\ notes' = [notes EXCEPT ![n].status = "IN_TRANSIT"]
  BY DEF Dispatch
<1>2. PICK row : row = [notes[n] EXCEPT !.status = "IN_TRANSIT"]
  OBVIOUS
<1>3. Written(notes[n], NoteStatuses) /\ notes[n].product \in Products /\ notes[n].quantity \in Nat
  BY <1>1, NoteThere DEF NoteTypes, FollowRow
<1>4. Written(row, NoteStatuses)
  BY <1>2, <1>3, RestatedRow DEF NoteStatuses
<1>5. notes' = [notes EXCEPT ![n] = row]
  BY <1>1, <1>2
<1> QED BY <1>1, <1>4, <1>5, NoteWritten, Answered DEF Dispatch

LEMMA DeleteNoteTyped ==
  ASSUME Jobs, NoteTypes, NEW w \in Workers, DeleteNote(w)
  PROVE  Serves(w) /\ NoteTypes'
<1>1. PICK n \in Notes : notes' = [notes EXCEPT ![n] = NoRow]
  BY DEF DeleteNote
<1> QED BY <1>1, NoteWritten, Answered DEF DeleteNote

LEMMA DeliverLoadTyped ==
  ASSUME Jobs, NoteTypes, NEW w \in Workers, DeliverLoad(w)
  PROVE  Serves(w)
<1>1. PICK n \in Notes :
        /\ notes[n].status # "ABSENT"
        /\ Becomes(w, [step |-> "deliver", note |-> n, order |-> notes[n].order,
             product |-> notes[n].product, quantity |-> notes[n].quantity,
             counted |-> Min({Quantity[notes[n].order][notes[n].product],
               fulfilled[notes[n].order][notes[n].product] + notes[n].quantity})])
  BY DEF DeliverLoad
<1>2. PICK o, p, quantity :
        o = notes[n].order /\ p = notes[n].product /\ quantity = notes[n].quantity
  OBVIOUS
<1>3. o \in Orders /\ p \in Products /\ quantity \in Nat
  BY <1>1, <1>2, NoteThere DEF Written, FollowRow
<1>4. Quantity[o][p] \in Nat /\ fulfilled[o][p] \in Nat
  BY <1>3, SellingAssumption DEF NoteTypes
<1>5. PICK counted : counted = Min({Quantity[o][p], fulfilled[o][p] + quantity})
  OBVIOUS
<1>6. counted \in Nat /\ counted <= Quantity[o][p]
  BY <1>3, <1>4, <1>5, MinPair
<1>7. Becomes(w, [step |-> "deliver", note |-> n, order |-> o, product |-> p,
                  quantity |-> quantity, counted |-> counted])
  BY <1>1, <1>2, <1>5
<1> QED BY <1>1, <1>3, <1>6, <1>7, DeliverShape, Served DEF DeliverLoad

LEMMA DeliverCountTyped ==
  ASSUME Jobs, NEW w \in Workers, DeliverCount(w)
  PROVE  Serves(w)
<1>1. PICK n, o, p, quantity, counted :
        /\ n = job[w].note /\ o = job[w].order /\ p = job[w].product
        /\ quantity = job[w].quantity /\ counted = job[w].counted
  OBVIOUS
<1>2. /\ n \in Notes /\ o \in Orders /\ p \in Products /\ quantity \in Nat /\ counted \in Nat
      /\ counted <= Quantity[o][p]
  BY <1>1 DEF Jobs, JobShape, NoteShape, DeliverCount, At
<1>3. PICK s \in {"FULFILLED", "PARTIALLY_FULFILLED"} :
        s = IF Filled(o, [fulfilled[o] EXCEPT ![p] = counted])
            THEN "FULFILLED" ELSE "PARTIALLY_FULFILLED"
  OBVIOUS
<1>4. Becomes(w, [step |-> "delivering", note |-> n, order |-> o, product |-> p,
                  quantity |-> quantity, counted |-> counted, status |-> s])
  BY <1>1, <1>3 DEF DeliverCount
<1>5. JobShape([step |-> "delivering", note |-> n, order |-> o, product |-> p,
                quantity |-> quantity, counted |-> counted, status |-> s])
  BY <1>2, <1>3, DeliveringShape
<1> QED BY <1>4, <1>5, Served DEF DeliverCount

LEMMA DeliverCommitTyped ==
  ASSUME Jobs, NoteTypes, SellingTypes, NEW w \in Workers, DeliverCommit(w)
  PROVE  Serves(w) /\ NoteTypes' /\ SellingTypes'
<1>1. PICK n, o, p, quantity, counted :
        /\ n = job[w].note /\ o = job[w].order /\ p = job[w].product
        /\ quantity = job[w].quantity /\ counted = job[w].counted
  OBVIOUS
<1>2. /\ n \in Notes /\ o \in Orders /\ p \in Products /\ quantity \in Nat /\ counted \in Nat
      /\ counted <= Quantity[o][p] /\ job[w].status \in {"FULFILLED", "PARTIALLY_FULFILLED"}
  BY <1>1 DEF Jobs, JobShape, NoteShape, DeliverCommit, At
<1>3. /\ notes[n].status # "ABSENT"
      /\ fulfilled' = [fulfilled EXCEPT ![o][p] = counted]
      /\ handed' = [handed EXCEPT ![o][p] = @ + quantity]
      /\ orders' = [orders EXCEPT ![o] = job[w].status]
      /\ notes' = [notes EXCEPT ![n].status = "DELIVERED"]
  BY <1>1 DEF DeliverCommit
<1>4. orders' \in [Orders -> OrderStatuses \union {"ABSENT"}]
  BY <1>2, <1>3 DEF SellingTypes, OrderStatuses
<1>5. fulfilled' \in [Orders -> [Products -> Nat]] /\ handed' \in [Orders -> [Products -> Nat]]
  <2>1. handed[o][p] + quantity \in Nat
    BY <1>2 DEF NoteTypes
  <2> QED BY <1>2, <1>3, <2>1 DEF NoteTypes
<1>6. \A x \in Orders, y \in Products : fulfilled'[x][y] <= Quantity[x][y]
  BY <1>2, <1>3 DEF NoteTypes
<1>7. PICK row : row = [notes[n] EXCEPT !.status = "DELIVERED"]
  OBVIOUS
<1>8. Written(notes[n], NoteStatuses) /\ notes[n].product \in Products /\ notes[n].quantity \in Nat
  BY <1>2, <1>3, NoteThere DEF NoteTypes, FollowRow
<1>9. Written(row, NoteStatuses)
  BY <1>7, <1>8, RestatedRow DEF NoteStatuses
<1>10. /\ notes' \in [Notes -> FollowRow(NoteStatuses)]
       /\ \A x \in Notes : notes'[x] = IF x = n THEN row ELSE notes[x]
  <2>1. notes' = [notes EXCEPT ![n] = row] /\ row \in FollowRow(NoteStatuses)
    BY <1>3, <1>7, <1>9 DEF Written
  <2> QED BY <1>2, <2>1 DEF NoteTypes
<1>11. Written0(notes, NoteStatuses)'
  BY <1>9, <1>10 DEF NoteTypes, Written0, Written
<1>12. NoteTypes'
  BY <1>5, <1>6, <1>10, <1>11 DEF NoteTypes
<1>13. Serves(w)
  BY Responded DEF DeliverCommit
<1> QED BY <1>4, <1>12, <1>13 DEF DeliverCommit, SellingTypes, trade

LEMMA ReturnWritten ==
  ASSUME ReturnTypes, NEW r \in Returns, NEW row, row = NoRow \/ Written(row, ReturnStatuses),
         saleReturns' = [saleReturns EXCEPT ![r] = row]
  PROVE  ReturnTypes'
<1>1. row \in FollowRow(ReturnStatuses)
  BY NoRowShape DEF Written
<1>2. saleReturns' \in [Returns -> FollowRow(ReturnStatuses)]
  BY <1>1 DEF ReturnTypes
<1>3. \A x \in Returns : saleReturns'[x] = IF x = r THEN row ELSE saleReturns[x]
  BY DEF ReturnTypes
<1>4. \A x \in Returns : saleReturns'[x] = NoRow \/ Written(saleReturns'[x], ReturnStatuses)
  BY <1>3 DEF ReturnTypes, Written0
<1>5. Written0(saleReturns, ReturnStatuses)'
  BY <1>2, <1>4 DEF Written0, Written
<1> QED BY <1>2, <1>5 DEF ReturnTypes

LEMMA ReturnThere ==
  ASSUME ReturnTypes, NEW r \in Returns, saleReturns[r].status # "ABSENT"
  PROVE  Written(saleReturns[r], ReturnStatuses)
BY NoRowShape DEF ReturnTypes, Written0

LEMMA RepeatedNat ==
  ASSUME NEW n \in Amounts, NEW quantity \in Repeated(n)
  PROVE  quantity \in Nat /\ ("repeat_lines" \notin clients => quantity = n)
<1>1. PICK k \in 1..(IF "repeat_lines" \in clients THEN MaxLines ELSE 1) : quantity = k * n
  BY DEF Repeated
<1>2. n \in Nat /\ k \in Nat /\ ("repeat_lines" \notin clients => k = 1)
  BY <1>1, SalesAssumption, AftersalesAssumption
<1> QED BY <1>1, <1>2

LEMMA ReturnLineShape ==
  ASSUME NEW o \in Orders, NEW r, NEW row \in ReturnLines(o, r)
  PROVE  /\ Written(row, ReturnStatuses) /\ row.order = o /\ row.status \in NewReturnStatuses
         /\ row.product \in Lines(o)
         /\ "repeat_lines" \notin clients => row.quantity <= Remaining(o, row.product, r)
<1>1. /\ row \in [status : NewReturnStatuses, order : {o}, product : Lines(o),
                  quantity : UNION {Repeated(n) : n \in Amounts}]
      /\ \E n \in Amounts : n <= Remaining(o, row.product, r) /\ row.quantity \in Repeated(n)
  BY DEF ReturnLines
<1>2. /\ row.quantity \in Nat
      /\ "repeat_lines" \notin clients => row.quantity <= Remaining(o, row.product, r)
  BY <1>1, RepeatedNat
<1> QED BY <1>1, <1>2, AftersalesAssumption DEF Written, FollowRow, Lines

LEMMA CreateReturnTyped ==
  ASSUME Jobs, NEW w \in Workers, CreateReturnLoad(w)
  PROVE  Serves(w)
<1>1. PICK r \in Returns, o \in Orders : \E row \in ReturnLines(o, r) :
        Becomes(w, [step |-> "return_save", return |-> r, lined |-> TRUE, row |-> row])
  BY DEF CreateReturnLoad
<1>2. PICK row \in ReturnLines(o, r) :
        Becomes(w, [step |-> "return_save", return |-> r, lined |-> TRUE, row |-> row])
  BY <1>1
<1>3. Written(row, ReturnStatuses)
  BY <1>1, <1>2, ReturnLineShape
<1> QED BY <1>1, <1>2, <1>3, ReturnSaveShape, Served DEF CreateReturnLoad

LEMMA EditReturnTyped ==
  ASSUME Jobs, ReturnTypes, NEW w \in Workers, EditReturnLoad(w)
  PROVE  Serves(w)
<1>0. "edit_return" \in clients
  BY DEF EditReturnLoad, Takes
<1>1. PICK r \in Returns :
        /\ saleReturns[r].status # "ABSENT"
        /\ \/ \E row \in ReturnLines(saleReturns[r].order, r) :
                Becomes(w, [step |-> "return_save", return |-> r, lined |-> TRUE, row |-> row])
           \/ \E s \in NewReturnStatuses \union {saleReturns[r].status} :
                Becomes(w, [step |-> "return_save", return |-> r, lined |-> FALSE,
                            row |-> [saleReturns[r] EXCEPT !.status = s]])
  BY DEF EditReturnLoad
<1>2. /\ Written(saleReturns[r], ReturnStatuses) /\ saleReturns[r].order \in Orders
      /\ saleReturns[r].status \in ReturnStatuses
      /\ saleReturns[r].product \in Products /\ saleReturns[r].quantity \in Nat
  BY <1>1, ReturnThere DEF Written, FollowRow
<1>3. PICK lined, row :
        /\ Becomes(w, [step |-> "return_save", return |-> r, lined |-> lined, row |-> row])
        /\ Written(row, ReturnStatuses)
  <2>1. CASE \E row \in ReturnLines(saleReturns[r].order, r) :
               Becomes(w, [step |-> "return_save", return |-> r, lined |-> TRUE, row |-> row])
    BY <1>2, <2>1, ReturnLineShape
  <2>2. CASE \E s \in NewReturnStatuses \union {saleReturns[r].status} :
               Becomes(w, [step |-> "return_save", return |-> r, lined |-> FALSE,
                           row |-> [saleReturns[r] EXCEPT !.status = s]])
    <3>1. PICK s \in NewReturnStatuses \union {saleReturns[r].status} :
            Becomes(w, [step |-> "return_save", return |-> r, lined |-> FALSE,
                        row |-> [saleReturns[r] EXCEPT !.status = s]])
      BY <2>2
    <3>2. s \in ReturnStatuses
      BY <1>2, <3>1, AftersalesAssumption
    <3>3. Written([saleReturns[r] EXCEPT !.status = s], ReturnStatuses)
      BY <1>2, <3>2, RestatedRow
    <3> QED BY <3>1, <3>3
  <2> QED BY <1>1, <2>1, <2>2
<1> QED BY <1>0, <1>1, <1>3, ReturnSaveShape, Served DEF EditReturnLoad

LEMMA ReturnSaveTyped ==
  ASSUME Jobs, ReturnTypes, NEW w \in Workers, ReturnSave(w)
  PROVE  Serves(w) /\ ReturnTypes'
<1>1. PICK r, row : r = job[w].return /\ row = job[w].row
  OBVIOUS
<1>2. r \in Returns /\ Written(row, ReturnStatuses)
  BY <1>1 DEF Jobs, JobShape, ReturnShape, ReturnSave, At
<1>3. PICK p, quantity : p = saleReturns[r].product /\ quantity = saleReturns[r].quantity
  OBVIOUS
<1>4. p \in Products /\ quantity \in Nat /\ row.status \in ReturnStatuses
  BY <1>2, <1>3 DEF ReturnTypes, FollowRow, Written
<1>5. Written([row EXCEPT !.product = p, !.quantity = quantity], ReturnStatuses)
  BY <1>2, <1>4, RestatedRow
<1>6. PICK next : next = IF job[w].lined THEN row
                         ELSE [row EXCEPT !.product = p, !.quantity = quantity]
  OBVIOUS
<1>7. Written(next, ReturnStatuses)
  BY <1>2, <1>5, <1>6
<1>8. saleReturns' = [saleReturns EXCEPT ![r] = next]
  BY <1>1, <1>3, <1>6 DEF ReturnSave
<1> QED BY <1>2, <1>7, <1>8, ReturnWritten, Responded DEF ReturnSave

\* Where the moves of a return lead.
LEMMA MovesKnown ==
  ASSUME NEW move \in ReturnMoves
  PROVE  move.to \in ReturnStatuses /\ move.from \subseteq ReturnStatuses
BY DEF ReturnMoves, ReturnStatuses

LEMMA MoveReturnLoadTyped ==
  ASSUME Jobs, NEW w \in Workers, MoveReturnLoad(w)
  PROVE  Serves(w)
<1>1. PICK r \in Returns, move \in ReturnMoves :
        Becomes(w, [step |-> "return_move", return |-> r, status |-> move.to])
  BY DEF MoveReturnLoad
<1>2. move.to \in ReturnStatuses
  BY <1>1, MovesKnown
<1> QED BY <1>1, <1>2, ReturnMoveShape, Served DEF MoveReturnLoad

LEMMA MoveReturnSaveTyped ==
  ASSUME Jobs, ReturnTypes, NEW w \in Workers, MoveReturnSave(w)
  PROVE  Serves(w) /\ ReturnTypes'
<1>1. PICK r, s : r = job[w].return /\ s = job[w].status
  OBVIOUS
<1>2. r \in Returns /\ s \in ReturnStatuses
  BY <1>1 DEF Jobs, JobShape, ReturnShape, MoveReturnSave, At
<1>3. saleReturns[r].status # "ABSENT" /\ saleReturns' = [saleReturns EXCEPT ![r].status = s]
  BY <1>1 DEF MoveReturnSave
<1>4. PICK row : row = [saleReturns[r] EXCEPT !.status = s]
  OBVIOUS
<1>5. /\ Written(saleReturns[r], ReturnStatuses)
      /\ saleReturns[r].product \in Products /\ saleReturns[r].quantity \in Nat
  BY <1>2, <1>3, ReturnThere DEF ReturnTypes, FollowRow
<1>6. Written(row, ReturnStatuses)
  BY <1>2, <1>4, <1>5, RestatedRow
<1>7. saleReturns' = [saleReturns EXCEPT ![r] = row]
  BY <1>3, <1>4
<1> QED BY <1>2, <1>6, <1>7, ReturnWritten, Responded DEF MoveReturnSave

LEMMA DeleteReturnTyped ==
  ASSUME Jobs, ReturnTypes, NEW w \in Workers, DeleteReturn(w)
  PROVE  Serves(w) /\ ReturnTypes'
<1>1. PICK r \in Returns : saleReturns' = [saleReturns EXCEPT ![r] = NoRow]
  BY DEF DeleteReturn
<1> QED BY <1>1, ReturnWritten, Answered DEF DeleteReturn

----
(* Types: what is committed of invoices and payments. *)

LEMMA JournalsTyped ==
  ASSUME NEW amounts \in Seq(Nat), NEW amount \in Nat
  PROVE  /\ Posted(amounts, amount) \in Seq(Nat)
         /\ Reversed(amounts) \in Seq(Nat)
         /\ Reposted(amounts, amount) \in Seq(Nat)
<1>1. ASSUME NEW s \in Seq(Nat) PROVE Posted(s, amount) \in Seq(Nat)
  BY DEF Posted
<1>2. Reversed(amounts) \in Seq(Nat)
  BY DEF Reversed
<1> QED BY <1>1, <1>2 DEF Reposted

LEMMA BooksTyped ==
  ASSUME BookTypes, NEW d \in Documents, NEW seen \in Seq(Nat), NEW amounts \in Seq(Nat),
         NEW balance, Books(d, seen, amounts, balance)
  PROVE  BookTypes'
<1>1. Merged(posted[d], seen, amounts) \in Seq(Nat)
  BY DEF Merged, BookTypes
<1>2. PICK next \in Seq(Nat) : next = Merged(posted[d], seen, amounts)
  BY <1>1
<1>3. posted' = [posted EXCEPT ![d] = next]
  BY <1>2 DEF Books
<1>4. journaled' \subseteq Documents
  BY DEF Books, BookTypes
<1>5. receivable' \in Int
  BY SalesAssumption DEF Books
<1> QED BY <1>2, <1>3, <1>4, <1>5 DEF BookTypes

LEMMA InvoiceCommitTyped ==
  ASSUME Jobs, InvoiceTypes, BookTypes, NEW w \in Workers, InvoiceCommit(w)
  PROVE  Serves(w) /\ InvoiceTypes' /\ BookTypes'
<1>1. PICK i, row, seen : i = job[w].document /\ row = job[w].row /\ seen = job[w].seen
  OBVIOUS
<1>2. i \in Invoices /\ row \in InvoiceRow /\ seen \in Seq(Nat) /\ row.total \in Nat
  BY <1>1 DEF Jobs, JobShape, InvoiceShape, ForInvoice, Booking, InvoiceRow, InvoiceCommit, At
<1>3. /\ invoices' = [invoices EXCEPT ![i] = row]
      /\ Books(i, seen, Reposted(seen, row.total), job[w].balance)
  BY <1>1 DEF InvoiceCommit
<1>4. BookTypes'
  BY <1>2, <1>3, JournalsTyped, BooksTyped DEF Documents
<1>5. Serves(w)
  BY Responded DEF InvoiceCommit
<1> QED BY <1>2, <1>3, <1>4, <1>5 DEF InvoiceTypes

LEMMA VoidCommitTyped ==
  ASSUME Jobs, InvoiceTypes, BookTypes, NEW w \in Workers, VoidCommit(w)
  PROVE  Serves(w) /\ InvoiceTypes' /\ BookTypes'
<1>1. PICK i, seen : i = job[w].document /\ seen = job[w].seen
  OBVIOUS
<1>2. i \in Invoices /\ seen \in Seq(Nat)
  BY <1>1 DEF Jobs, JobShape, InvoiceShape, ForInvoice, Booking, VoidCommit, At
<1>3. /\ invoices' = [invoices EXCEPT ![i].status = "VOID", ![i].balance = 0]
      /\ Books(i, seen, Reversed(seen), job[w].balance)
  BY <1>1 DEF VoidCommit
<1>4. BookTypes'
  <2>1. Reversed(seen) \in Seq(Nat)
    BY <1>2, JournalsTyped
  <2> QED BY <1>2, <1>3, <2>1, BooksTyped DEF Documents
<1>5. PICK row : row = [invoices[i] EXCEPT !.status = "VOID", !.balance = 0]
  OBVIOUS
<1>6. row \in InvoiceRow
  BY <1>2, <1>5 DEF InvoiceTypes, InvoiceRow, InvoiceStatuses
<1>7. invoices' = [invoices EXCEPT ![i] = row]
  BY <1>2, <1>3, <1>5 DEF InvoiceTypes
<1>8. Serves(w)
  BY Responded DEF VoidCommit
<1> QED BY <1>2, <1>4, <1>6, <1>7, <1>8 DEF InvoiceTypes

LEMMA InvoiceGoneTyped ==
  ASSUME Jobs, InvoiceTypes, NEW w \in Workers, DeleteInvoiceSave(w) \/ ConvertSave(w)
  PROVE  Serves(w) /\ InvoiceTypes'
<1>1. PICK i, row : /\ i = job[w].document
                    /\ row = IF DeleteInvoiceSave(w) THEN NoInvoice ELSE job[w].row
  OBVIOUS
<1>2. i \in Invoices /\ row \in InvoiceRow
  <2>1. NoInvoice \in InvoiceRow
    BY DEF NoInvoice, InvoiceRow
  <2>2. CASE DeleteInvoiceSave(w)
    BY <1>1, <2>1, <2>2 DEF Jobs, JobShape, InvoiceShape, ForInvoice, DeleteInvoiceSave, At
  <2>3. CASE ~DeleteInvoiceSave(w)
    BY <1>1, <2>3 DEF Jobs, JobShape, InvoiceShape, ForInvoice, ConvertSave, At
  <2> QED BY <2>2, <2>3
<1>3. invoices' = [invoices EXCEPT ![i] = row]
  BY <1>1 DEF DeleteInvoiceSave, ConvertSave
<1>4. Serves(w)
  BY Responded DEF DeleteInvoiceSave, ConvertSave
<1> QED BY <1>2, <1>3, <1>4 DEF InvoiceTypes

LEMMA PaymentWritten ==
  ASSUME PaymentTypes, NEW p \in Payments, NEW row, row = NoPayment \/ Recording(row),
         payments' = [payments EXCEPT ![p] = row]
  PROVE  PaymentTypes'
<1>1. NoPayment \in PaymentRow /\ NoPayment.status = "ABSENT"
  BY DEF NoPayment, PaymentRow
<1>2. row \in PaymentRow
  BY <1>1 DEF Recording
<1>3. payments' \in [Payments -> PaymentRow]
  BY <1>2 DEF PaymentTypes
<1>4. \A x \in Payments : payments'[x] = IF x = p THEN row ELSE payments[x]
  BY DEF PaymentTypes
<1>5. \A x \in Payments : payments'[x].status # "ABSENT" => payments'[x].invoice \in Invoices
  BY <1>1, <1>4 DEF PaymentTypes, Recorded, Recording
<1> QED BY <1>3, <1>5 DEF PaymentTypes, Recorded

LEMMA PendingCommitTyped ==
  ASSUME Jobs, PaymentTypes, NEW w \in Workers, PendingCommit(w)
  PROVE  Serves(w) /\ PaymentTypes'
<1>1. PICK p, row : p = job[w].document /\ row = job[w].row
  OBVIOUS
<1>2. p \in Payments /\ Recording(row)
  BY <1>1 DEF Jobs, JobShape, PaymentShape, ForPayment, NewPayment, PendingCommit, At
<1>3. payments' = [payments EXCEPT ![p] = row]
  BY <1>1 DEF PendingCommit
<1> QED BY <1>2, <1>3, PaymentWritten, Responded DEF PendingCommit

LEMMA DeletePaymentSaveTyped ==
  ASSUME Jobs, PaymentTypes, NEW w \in Workers, DeletePaymentSave(w)
  PROVE  Serves(w) /\ PaymentTypes'
<1>1. PICK p : p = job[w].document
  OBVIOUS
<1>2. p \in Payments
  BY <1>1 DEF Jobs, JobShape, PaymentShape, ForPayment, NewPayment, DeletePaymentSave, At
<1>3. payments' = [payments EXCEPT ![p] = NoPayment]
  BY <1>1 DEF DeletePaymentSave
<1> QED BY <1>2, <1>3, PaymentWritten, Responded DEF DeletePaymentSave

\* What the commit of a payment writes: its row, its journal, and the invoice that
\* it was counted for.
PaymentCommitted(w, p, row, seen) ==
  /\ p = job[w].document /\ row = job[w].row /\ seen = job[w].seen
  /\ p \in Payments /\ Recording(row) /\ seen \in Seq(Nat)
  /\ payments' = [payments EXCEPT ![p] = row]
  /\ Books(p, seen, IF row.status = "PAID" THEN Posted(seen, row.amount) ELSE seen, job[w].balance)
  /\ invoices[row.invoice].status # "ABSENT"

\* The invoice that a payment was counted for.
Counted(w, i, paid, owed) ==
  /\ job[w].counted = <<paid, owed>> /\ paid \in Nat /\ owed \in Nat
  /\ i = job[w].row.invoice /\ i \in Invoices
  /\ invoices' = [invoices EXCEPT ![i] =
       [invoices[i] EXCEPT !.paid = paid, !.balance = owed, !.status = Settled(paid, owed)]]
  /\ job[w].row.status = "PAID" /\ "create_payment" \in clients

LEMMA CommittedPayment ==
  ASSUME Jobs, InvoiceTypes, NEW w \in Workers, PaymentCommit(w)
  PROVE  /\ \E p, row, seen : PaymentCommitted(w, p, row, seen)
         /\ \/ UNCHANGED invoices /\ job[w].counted = <<>> /\ "edit_payment" \in clients
            \/ \E i, paid, owed : Counted(w, i, paid, owed)
<1>1. PICK p, row, seen : p = job[w].document /\ row = job[w].row /\ seen = job[w].seen
  OBVIOUS
<1>2. p \in Payments /\ Recording(row) /\ seen \in Seq(Nat)
  BY <1>1 DEF Jobs, JobShape, InvoiceShape, PaymentShape, ForPayment, NewPayment, Booking,
              PaymentCommit, At
<1>3. PaymentCommitted(w, p, row, seen)
  BY <1>1, <1>2 DEF PaymentCommitted, PaymentCommit
<1>4. \/ job[w].counted = <<>> /\ "edit_payment" \in clients
      \/ /\ \E paid \in Nat, owed \in Nat : job[w].counted = <<paid, owed>>
         /\ row.status = "PAID" /\ "create_payment" \in clients
  BY <1>1 DEF Jobs, JobShape, PaymentShape, PaymentCommit, At
<1>5. CASE job[w].counted = <<>> /\ "edit_payment" \in clients
  BY <1>3, <1>5 DEF PaymentCommit
<1>6. CASE /\ \E paid \in Nat, owed \in Nat : job[w].counted = <<paid, owed>>
           /\ row.status = "PAID" /\ "create_payment" \in clients
  <2>1. PICK paid \in Nat, owed \in Nat : job[w].counted = <<paid, owed>>
    BY <1>6
  <2>2. PICK i : i = row.invoice
    OBVIOUS
  <2>3. i \in Invoices
    BY <1>2, <2>2 DEF Recording
  <2>4. job[w].counted # <<>> /\ job[w].counted[1] = paid /\ job[w].counted[2] = owed
    BY <2>1
  <2>5. invoices' = [invoices EXCEPT ![i].paid = paid, ![i].balance = owed,
                                     ![i].status = Settled(paid, owed)]
    BY <1>1, <2>2, <2>4 DEF PaymentCommit
  <2>6. invoices' = [invoices EXCEPT ![i] =
          [invoices[i] EXCEPT !.paid = paid, !.balance = owed, !.status = Settled(paid, owed)]]
    BY <2>3, <2>5 DEF InvoiceTypes
  <2>7. Counted(w, i, paid, owed)
    BY <1>1, <1>6, <2>1, <2>2, <2>3, <2>6 DEF Counted
  <2> QED BY <1>3, <2>7
<1> QED BY <1>4, <1>5, <1>6

LEMMA PaymentCommitTyped ==
  ASSUME Jobs, InvoiceTypes, PaymentTypes, BookTypes, NEW w \in Workers, PaymentCommit(w)
  PROVE  Serves(w) /\ InvoiceTypes' /\ PaymentTypes' /\ BookTypes'
<1>1. PICK p, row, seen : PaymentCommitted(w, p, row, seen)
  BY CommittedPayment
<1>2. PaymentTypes'
  BY <1>1, PaymentWritten DEF PaymentCommitted
<1>3. BookTypes'
  <2>1. PICK amounts : amounts = IF row.status = "PAID" THEN Posted(seen, row.amount) ELSE seen
    OBVIOUS
  <2>2. amounts \in Seq(Nat)
    <3>1. seen \in Seq(Nat) /\ row.amount \in Nat
      BY <1>1 DEF PaymentCommitted, Recording, PaymentRow
    <3> QED BY <2>1, <3>1, JournalsTyped
  <2>3. p \in Documents /\ seen \in Seq(Nat) /\ Books(p, seen, amounts, job[w].balance)
    BY <1>1, <2>1 DEF PaymentCommitted, Documents
  <2> QED BY <2>2, <2>3, BooksTyped
<1>4. InvoiceTypes'
  <2>1. CASE UNCHANGED invoices
    BY <2>1 DEF InvoiceTypes
  <2>2. CASE \E i, paid, owed : Counted(w, i, paid, owed)
    <3>1. PICK i, paid, owed : Counted(w, i, paid, owed)
      BY <2>2
    <3>2. PICK s \in InvoiceStatuses : s = Settled(paid, owed)
      BY SettledKnown DEF InvoiceStatuses
    <3>3. PICK next : next = [invoices[i] EXCEPT !.paid = paid, !.balance = owed, !.status = s]
      OBVIOUS
    <3>4. next \in InvoiceRow
      <4>1. i \in Invoices /\ paid \in Nat /\ owed \in Nat /\ invoices[i] \in InvoiceRow
        BY <3>1 DEF Counted, InvoiceTypes
      <4> QED BY <3>2, <3>3, <4>1 DEF InvoiceRow
    <3>5. i \in Invoices /\ invoices' = [invoices EXCEPT ![i] = next]
      BY <3>1, <3>2, <3>3 DEF Counted
    <3> QED BY <3>4, <3>5 DEF InvoiceTypes
  <2> QED BY <2>1, <2>2, CommittedPayment
<1>5. Serves(w)
  BY Responded DEF PaymentCommit
<1> QED BY <1>2, <1>3, <1>4, <1>5

----
(* Types: every step. *)

\* A step that worker w takes.
Work(w) ==
  \/ (Trade(w) \/ InvoiceStep(w) \/ PaymentStep(w) \/ Abort(w)) /\ UNCHANGED follow
  \/ QuoteStep(w) \/ NoteStep(w) \/ ReturnStep(w)

LEMMA SomeWork == AllNext => \E w \in Workers : Work(w)
BY DEF AllNext, Next, Work

LEMMA NothingTyped ==
  ASSUME Typed, UNCHANGED allVars
  PROVE  Typed'
<1>1. Jobs'
  BY ShapeStays DEF Typed, Jobs, allVars, vars
<1>2. SellingTypes' /\ InvoiceTypes' /\ PaymentTypes' /\ BookTypes'
  BY DEF Typed, SellingTypes, InvoiceTypes, PaymentTypes, Recorded, BookTypes, allVars, vars,
         goods, books
<1>3. QuoteTypes' /\ NoteTypes' /\ ReturnTypes'
  BY DEF Typed, QuoteTypes, NoteTypes, ReturnTypes, Written0, allVars, follow, quoting, delivering
<1> QED BY <1>1, <1>2, <1>3 DEF Typed

\* What a step of sales leaves alone.
LEMMA SellingKept ==
  ASSUME SellingTypes, UNCHANGED <<clients, overlap, goods>>
  PROVE  SellingTypes'
BY DEF SellingTypes, goods

LEMMA MoneyKept ==
  ASSUME InvoiceTypes, PaymentTypes, BookTypes
  PROVE  /\ UNCHANGED invoices => InvoiceTypes'
         /\ UNCHANGED payments => PaymentTypes'
         /\ UNCHANGED books => BookTypes'
BY DEF InvoiceTypes, PaymentTypes, Recorded, BookTypes, books

LEMMA FollowKept ==
  ASSUME QuoteTypes, NoteTypes, ReturnTypes
  PROVE  /\ UNCHANGED quoting => QuoteTypes'
         /\ UNCHANGED delivering => NoteTypes'
         /\ UNCHANGED saleReturns => ReturnTypes'
BY DEF QuoteTypes, NoteTypes, ReturnTypes, Written0, quoting, delivering

LEMMA TradeTyped ==
  ASSUME Typed, NEW w \in Workers, Trade(w)
  PROVE  Serves(w) /\ SellingTypes'
<1>1. Jobs /\ SellingTypes
  BY DEF Typed
<1>2. CASE ConfirmOrder(w) \/ OrderEditSave(w) \/ Sell(w) \/ VoidSaleSave(w)
  BY <1>1, <1>2, ConfirmTyped, OrderEditSaveTyped, SellTyped, VoidSaleSaveTyped
<1>3. CASE OrderEditLoad(w) \/ VoidSaleLoad(w)
  <2>1. Serves(w)
    BY <1>1, <1>3, OrderEditLoadTyped, VoidSaleLoadTyped
  <2>2. UNCHANGED <<clients, overlap, goods>>
    BY <1>3 DEF OrderEditLoad, VoidSaleLoad
  <2> QED BY <1>1, <2>1, <2>2, SellingKept
<1> QED BY <1>2, <1>3 DEF Trade, SellingStep

LEMMA InvoiceStepTyped ==
  ASSUME Typed, NEW w \in Workers, InvoiceStep(w)
  PROVE  Serves(w) /\ InvoiceTypes' /\ BookTypes'
<1>1. Jobs /\ InvoiceTypes /\ BookTypes /\ PaymentTypes
  BY DEF Typed
<1>2. CASE InvoiceCommit(w) \/ VoidCommit(w)
  BY <1>1, <1>2, InvoiceCommitTyped, VoidCommitTyped
<1>3. CASE DeleteInvoiceSave(w) \/ ConvertSave(w)
  <2>1. UNCHANGED books
    BY <1>3 DEF DeleteInvoiceSave, ConvertSave
  <2> QED BY <1>1, <1>3, <2>1, InvoiceGoneTyped, MoneyKept
<1>4. CASE \/ CreateInvoice(w) \/ EditInvoiceLoad(w) \/ EditInvoiceSave(w) \/ VoidLoad(w)
           \/ VoidSave(w) \/ DeleteInvoiceLoad(w) \/ ConvertLoad(w)
  <2>1. Serves(w)
    BY <1>1, <1>4, CreateInvoiceTyped, EditInvoiceLoadTyped, EditInvoiceSaveTyped, VoidLoadTyped,
       VoidSaveTyped, ConvertLoadTyped
  <2>2. UNCHANGED <<invoices, books>>
    BY <1>4 DEF CreateInvoice, EditInvoiceLoad, EditInvoiceSave, VoidLoad, VoidSave,
                DeleteInvoiceLoad, ConvertLoad
  <2> QED BY <1>1, <2>1, <2>2, MoneyKept
<1> QED BY <1>2, <1>3, <1>4 DEF InvoiceStep

LEMMA PaymentStepTyped ==
  ASSUME Typed, NEW w \in Workers, PaymentStep(w)
  PROVE  Serves(w) /\ InvoiceTypes' /\ PaymentTypes' /\ BookTypes'
<1>1. Jobs /\ InvoiceTypes /\ BookTypes /\ PaymentTypes
  BY DEF Typed
<1>2. CASE PaymentCommit(w)
  BY <1>1, <1>2, PaymentCommitTyped
<1>3. CASE PendingCommit(w) \/ DeletePaymentSave(w)
  <2>1. UNCHANGED <<invoices, books>>
    BY <1>3 DEF PendingCommit, DeletePaymentSave
  <2> QED BY <1>1, <1>3, <2>1, PendingCommitTyped, DeletePaymentSaveTyped, MoneyKept
<1>4. CASE \/ PayLoad(w) \/ PayInsert(w) \/ PaySave(w) \/ EditPaymentLoad(w)
           \/ EditPaymentSave(w) \/ DeletePaymentLoad(w)
  <2>1. Serves(w)
    BY <1>1, <1>4, PayLoadTyped, PayInsertTyped, PaySaveTyped, EditPaymentLoadTyped,
       EditPaymentSaveTyped, DeletePaymentLoadTyped
  <2>2. UNCHANGED <<invoices, payments, books>>
    BY <1>4 DEF PayLoad, PayInsert, PaySave, EditPaymentLoad, EditPaymentSave, DeletePaymentLoad
  <2> QED BY <1>1, <2>1, <2>2, MoneyKept
<1> QED BY <1>2, <1>3, <1>4 DEF PaymentStep

LEMMA QuoteStepTyped ==
  ASSUME Typed, NEW w \in Workers, QuoteStep(w)
  PROVE  Serves(w) /\ QuoteTypes' /\ SellingTypes'
<1>1. Jobs /\ QuoteTypes /\ NoteTypes /\ ReturnTypes /\ SellingTypes
  BY DEF Typed
<1>2. CASE QuoteSave(w) \/ AnswerQuote(w)
  <2>1. UNCHANGED <<clients, overlap, goods>>
    BY <1>2 DEF QuoteSave, AnswerQuote, trade, goods
  <2> QED BY <1>1, <1>2, <2>1, QuoteSaveTyped, AnswerQuoteTyped, SellingKept
<1>3. CASE QuoteConvertSave(w)
  BY <1>1, <1>3, QuoteConvertSaveTyped
<1>4. CASE QuoteLoad(w) \/ QuoteConvertLoad(w)
  <2>1. Serves(w)
    BY <1>1, <1>4, QuoteLoadTyped, QuoteConvertLoadTyped
  <2>2. UNCHANGED <<clients, overlap, goods, quoting>>
    BY <1>4 DEF QuoteLoad, QuoteConvertLoad, trade, goods, follow
  <2> QED BY <1>1, <2>1, <2>2, SellingKept, FollowKept
<1> QED BY <1>2, <1>3, <1>4 DEF QuoteStep

LEMMA NoteStepTyped ==
  ASSUME Typed, NEW w \in Workers, NoteStep(w)
  PROVE  Serves(w) /\ NoteTypes' /\ SellingTypes'
<1>1. Jobs /\ QuoteTypes /\ NoteTypes /\ ReturnTypes /\ SellingTypes
  BY DEF Typed
<1>2. CASE CreateNote(w) \/ NoteSave(w) \/ Dispatch(w) \/ DeleteNote(w)
  <2>1. UNCHANGED <<clients, overlap, goods>>
    BY <1>2 DEF CreateNote, NoteSave, Dispatch, DeleteNote, trade, goods
  <2> QED
    BY <1>1, <1>2, <2>1, CreateNoteTyped, NoteSaveTyped, DispatchTyped, DeleteNoteTyped, SellingKept
<1>3. CASE DeliverCommit(w)
  BY <1>1, <1>3, DeliverCommitTyped
<1>4. CASE NoteLoad(w) \/ DeliverLoad(w) \/ DeliverCount(w)
  <2>1. Serves(w)
    BY <1>1, <1>4, NoteLoadTyped, DeliverLoadTyped, DeliverCountTyped
  <2>2. UNCHANGED <<clients, overlap, goods, delivering>>
    BY <1>4 DEF NoteLoad, DeliverLoad, DeliverCount, trade, goods, follow
  <2> QED BY <1>1, <2>1, <2>2, SellingKept, FollowKept
<1> QED BY <1>2, <1>3, <1>4 DEF NoteStep

LEMMA ReturnStepTyped ==
  ASSUME Typed, NEW w \in Workers, ReturnStep(w)
  PROVE  Serves(w) /\ ReturnTypes'
<1>1. Jobs /\ QuoteTypes /\ NoteTypes /\ ReturnTypes
  BY DEF Typed
<1>2. CASE ReturnSave(w) \/ MoveReturnSave(w) \/ DeleteReturn(w)
  BY <1>1, <1>2, ReturnSaveTyped, MoveReturnSaveTyped, DeleteReturnTyped
<1>3. CASE CreateReturnLoad(w) \/ EditReturnLoad(w) \/ MoveReturnLoad(w)
  <2>1. Serves(w)
    BY <1>1, <1>3, CreateReturnTyped, EditReturnTyped, MoveReturnLoadTyped
  <2>2. UNCHANGED saleReturns
    BY <1>3 DEF CreateReturnLoad, EditReturnLoad, MoveReturnLoad, follow
  <2> QED BY <1>1, <2>1, <2>2, FollowKept
<1> QED BY <1>2, <1>3 DEF ReturnStep

\* What each kind of step leaves alone.
LEMMA Untouched ==
  ASSUME NEW w
  PROVE  /\ Trade(w) => UNCHANGED <<invoices, payments, books>>
         /\ InvoiceStep(w) => UNCHANGED <<clients, overlap, goods, payments>>
         /\ PaymentStep(w) => UNCHANGED <<clients, overlap, goods>>
         /\ Abort(w) => UNCHANGED <<clients, overlap, goods, invoices, payments, books>>
         /\ QuoteStep(w) => UNCHANGED <<invoices, payments, books, delivering, saleReturns>>
         /\ NoteStep(w) => UNCHANGED <<invoices, payments, books, quoting, saleReturns>>
         /\ ReturnStep(w) => UNCHANGED <<clients, overlap, goods, invoices, payments, books,
                                         quoting, delivering>>
<1>1. Trade(w) => UNCHANGED <<invoices, payments, books>>
  BY DEF Trade
<1>2. InvoiceStep(w) => UNCHANGED <<clients, overlap, goods, payments>>
  BY DEF InvoiceStep, CreateInvoice, EditInvoiceLoad, EditInvoiceSave, InvoiceCommit, VoidLoad,
         VoidSave, VoidCommit, DeleteInvoiceLoad, DeleteInvoiceSave, ConvertLoad, ConvertSave
<1>3. PaymentStep(w) => UNCHANGED <<clients, overlap, goods>>
  BY DEF PaymentStep, PayLoad, PayInsert, PendingCommit, PaySave, EditPaymentLoad,
         EditPaymentSave, PaymentCommit, DeletePaymentLoad, DeletePaymentSave
<1>4. Abort(w) => UNCHANGED <<clients, overlap, goods, invoices, payments, books>>
  BY DEF Abort
<1>5. QuoteStep(w) => UNCHANGED <<invoices, payments, books, delivering, saleReturns>>
  BY DEF QuoteStep, QuoteLoad, QuoteSave, AnswerQuote, QuoteConvertLoad, QuoteConvertSave, trade,
         follow
<1>6. NoteStep(w) => UNCHANGED <<invoices, payments, books, quoting, saleReturns>>
  BY DEF NoteStep, CreateNote, NoteLoad, NoteSave, Dispatch, DeleteNote, DeliverLoad, DeliverCount,
         DeliverCommit, trade, follow
<1>7. ReturnStep(w) => UNCHANGED <<clients, overlap, goods, invoices, payments, books,
                                   quoting, delivering>>
  BY DEF ReturnStep, CreateReturnLoad, EditReturnLoad, ReturnSave, MoveReturnLoad, MoveReturnSave,
         DeleteReturn, trade, goods, follow
<1> QED BY <1>1, <1>2, <1>3, <1>4, <1>5, <1>6, <1>7

LEMMA WorkTyped ==
  ASSUME Typed, NEW w \in Workers, Work(w)
  PROVE  Typed' /\ Serves(w)
<1>0. /\ SellingTypes /\ InvoiceTypes /\ PaymentTypes /\ BookTypes
      /\ QuoteTypes /\ NoteTypes /\ ReturnTypes /\ Jobs
  BY DEF Typed
<1>1. Serves(w)
  <2>1. CASE Abort(w)
    BY <1>0, <2>1, Responded DEF Abort
  <2> QED
    BY <2>1, TradeTyped, InvoiceStepTyped, PaymentStepTyped, QuoteStepTyped, NoteStepTyped,
       ReturnStepTyped DEF Work
<1>2. Jobs'
  BY <1>0, <1>1, ServesJobs
<1>3. SellingTypes'
  <2>1. \/ Trade(w) \/ QuoteStep(w) \/ NoteStep(w)
        \/ UNCHANGED <<clients, overlap, goods>>
    BY Untouched DEF Work
  <2> QED BY <1>0, <2>1, TradeTyped, QuoteStepTyped, NoteStepTyped, SellingKept
<1>4. InvoiceTypes' /\ BookTypes'
  <2>1. InvoiceStep(w) \/ PaymentStep(w) \/ UNCHANGED <<invoices, books>>
    BY Untouched DEF Work
  <2> QED BY <1>0, <2>1, InvoiceStepTyped, PaymentStepTyped, MoneyKept
<1>5. PaymentTypes'
  <2>1. PaymentStep(w) \/ UNCHANGED payments
    BY Untouched DEF Work
  <2> QED BY <1>0, <2>1, PaymentStepTyped, MoneyKept
<1>6. QuoteTypes'
  <2>1. QuoteStep(w) \/ UNCHANGED quoting
    BY Untouched DEF Work, follow
  <2> QED BY <1>0, <2>1, QuoteStepTyped, FollowKept
<1>7. NoteTypes'
  <2>1. NoteStep(w) \/ UNCHANGED delivering
    BY Untouched DEF Work, follow
  <2> QED BY <1>0, <2>1, NoteStepTyped, FollowKept
<1>8. ReturnTypes'
  <2>1. ReturnStep(w) \/ UNCHANGED saleReturns
    BY Untouched DEF Work, follow
  <2> QED BY <1>0, <2>1, ReturnStepTyped, FollowKept
<1> QED BY <1>1, <1>2, <1>3, <1>4, <1>5, <1>6, <1>7, <1>8 DEF Typed

LEMMA StepTyped == Typed /\ [AllNext]_allVars => Typed'
BY SomeWork, WorkTyped, NothingTyped

LEMMA InitTyped == AllInit => Typed
<1> SUFFICES ASSUME AllInit PROVE Typed
  OBVIOUS
<1>1. SellingTypes
  <2>1. PICK s \in Starts : clients = s.kinds /\ overlap = s.overlap
    BY DEF AllInit, Init, SellingInit
  <2>2. clients \in {x.kinds : x \in Starts} /\ overlap \in BOOLEAN
    BY <2>1, SellingAssumption
  <2>3. orders \in [Orders -> OrderStatuses \union {"ABSENT"}]
    BY DEF AllInit, Init, SellingInit, OrderStatuses
  <2>4. stock \in [Products -> [current : Nat, reserved : Nat]]
    BY SellingAssumption DEF AllInit, Init, SellingInit
  <2>5. sales \in [PosSales -> SaleRows]
    BY SellingAssumption, MinIn DEF AllInit, Init, SellingInit, SaleRows
  <2> QED BY <2>2, <2>3, <2>4, <2>5 DEF SellingTypes
<1>2. Jobs
  BY IdleShape DEF AllInit, Init, SellingInit, Jobs
<1>3. InvoiceTypes
  <2>1. NoInvoice \in InvoiceRow
    BY DEF NoInvoice, InvoiceRow
  <2> QED BY <2>1 DEF AllInit, Init, InvoiceTypes
<1>4. PaymentTypes
  <2>1. NoPayment \in PaymentRow /\ NoPayment.status = "ABSENT"
    BY DEF NoPayment, PaymentRow
  <2> QED BY <2>1 DEF AllInit, Init, PaymentTypes, Recorded
<1>5. BookTypes
  BY DEF AllInit, Init, BookTypes
<1>6. QuoteTypes
  BY DEF AllInit, QuoteTypes, QuoteStatuses
<1>7. NoteTypes
  BY NoRowShape, SellingAssumption DEF AllInit, NoteTypes, Written0
<1>8. ReturnTypes
  BY NoRowShape DEF AllInit, ReturnTypes, Written0
<1> QED BY <1>1, <1>2, <1>3, <1>4, <1>5, <1>6, <1>7, <1>8 DEF Typed

\* Rows keep their shape, stock is never negative, no line has more fulfilled than
\* was ordered, and a note or return that is there belongs to an order.
THEOREM SalesTyped == AllSpec => []AllTypeOK
<1>1. Typed => AllTypeOK
  BY DEF Typed, AllTypeOK, TypeOK, InvoiceTypes, InvoiceRow, PaymentTypes, PaymentRow, BookTypes,
         QuoteTypes, NoteTypes, ReturnTypes, Written0, Written
<1> QED BY <1>1, InitTyped, StepTyped, PTL DEF AllSpec

----
(* Stock: what is reserved and what has been sold. *)

\* A part of a sum of amounts.
LEMMA SumSubset ==
  ASSUME NEW f, NEW S, IsFiniteSet(S), NEW T, T \subseteq S, \A x \in S : f[x] \in Nat
  PROVE  SumFunctionOnSet(f, T) <= SumFunctionOnSet(f, S)
<1>1. /\ IsFiniteSet(T) /\ IsFiniteSet(S \ T) /\ T \intersect (S \ T) = {}
      /\ T \union (S \ T) = S
  BY FS_Subset
<1>2. SumFunctionOnSet(f, S) = SumFunctionOnSet(f, T) + SumFunctionOnSet(f, S \ T)
  <2>1. \A x \in T \union (S \ T) : f[x] \in Int
    OBVIOUS
  <2>2. SumFunctionOnSet(f, T \union (S \ T)) = SumFunctionOnSet(f, T) + SumFunctionOnSet(f, S \ T)
    BY <1>1, <2>1, SumUnion
  <2> QED BY <1>1, <2>2
<1>3. SumFunctionOnSet(f, T) \in Nat /\ SumFunctionOnSet(f, S \ T) \in Nat
  BY <1>1, SumNat
<1> QED BY <1>2, <1>3

Confirmed == {o \in Orders : orders[o] = "CONFIRMED"}
Promised(p) == SumFunctionOnSet([o \in Orders |-> Quantity[o][p]], Confirmed)

LEMMA OrdersFinite ==
  ASSUME NEW S, S \subseteq Orders, NEW p \in Products
  PROVE  /\ IsFiniteSet(S)
         /\ \A o \in Orders : [x \in Orders |-> Quantity[x][p]][o] \in Nat
         /\ SumFunctionOnSet([o \in Orders |-> Quantity[o][p]], S) \in Nat
<1>1. IsFiniteSet(S)
  BY SellingAssumption, FS_Subset
<1>2. PICK f : f = [o \in Orders |-> Quantity[o][p]]
  OBVIOUS
<1>3. \A o \in Orders : f[o] \in Nat
  BY <1>2, SellingAssumption
<1>4. SumFunctionOnSet(f, S) \in Nat
  BY <1>1, <1>3, SumNat
<1> QED BY <1>1, <1>2, <1>3, <1>4

\* Orders that are no longer confirmed free nothing, and are promised nothing.
LEMMA PromisedLess ==
  ASSUME Confirmed' \subseteq Confirmed, NEW p \in Products
  PROVE  Promised(p)' <= Promised(p)
<1>1. PICK f : f = [o \in Orders |-> Quantity[o][p]]
  OBVIOUS
<1>2. IsFiniteSet(Confirmed) /\ \A o \in Confirmed : f[o] \in Nat
  BY <1>1, OrdersFinite DEF Confirmed
<1>3. SumFunctionOnSet(f, Confirmed') <= SumFunctionOnSet(f, Confirmed)
  BY <1>2, SumSubset
<1> QED BY <1>1, <1>3 DEF Promised

LEMMA PromisedMore ==
  ASSUME NEW o \in Orders, o \notin Confirmed, Confirmed' = Confirmed \union {o}, NEW p \in Products
  PROVE  Promised(p)' = Quantity[o][p] + Promised(p)
<1>1. PICK f : f = [x \in Orders |-> Quantity[x][p]]
  OBVIOUS
<1>2. IsFiniteSet(Confirmed) /\ \A x \in Confirmed \union {o} : f[x] \in Int
  BY <1>1, OrdersFinite DEF Confirmed
<1>3. SumFunctionOnSet(f, Confirmed \union {o}) = f[o] + SumFunctionOnSet(f, Confirmed)
  BY <1>2, SumAdd
<1> QED BY <1>1, <1>3 DEF Promised

Reserving ==
  \A p \in Products :
    /\ stock[p].reserved <= stock[p].current
    /\ "edit_order" \in clients \/ Promised(p) <= stock[p].reserved

\* confirm reserves the units of the lines that it comes to, and of all lines when
\* the order becomes CONFIRMED.
LEMMA ConfirmReserves ==
  ASSUME SellingTypes, Reserving, NEW w \in Workers, ConfirmOrder(w)
  PROVE  Reserving'
<1>1. PICK o \in Orders :
        /\ orders[o] = "DRAFT"
        /\ stock' = [p \in Products |->
             IF p \in Reservable(o)
             THEN [stock[p] EXCEPT !.reserved = @ + Quantity[o][p]] ELSE stock[p]]
        /\ orders' = IF Reservable(o) = Lines(o)
                     THEN [orders EXCEPT ![o] = "CONFIRMED"] ELSE orders
  BY DEF ConfirmOrder
<1>2. UNCHANGED clients
  BY DEF ConfirmOrder
<1> SUFFICES ASSUME NEW p \in Products
             PROVE  /\ stock'[p].reserved <= stock'[p].current
                    /\ "edit_order" \in clients \/ Promised(p)' <= stock'[p].reserved
  BY <1>2 DEF Reserving
<1>3. /\ stock[p].current \in Nat /\ stock[p].reserved \in Nat /\ Quantity[o][p] \in Nat
      /\ stock[p] \in [current : Nat, reserved : Nat]
  BY <1>1, SellingAssumption DEF SellingTypes
<1>4. CASE p \in Reservable(o)
  <2>1. stock'[p].reserved = stock[p].reserved + Quantity[o][p] /\ stock'[p].current = stock[p].current
    BY <1>1, <1>3, <1>4
  <2>2. Available(p) >= Quantity[o][p]
    <3>1. p \in Lines(o) /\ p <= p
      BY <1>4, SellingAssumption DEF Reservable
    <3> QED BY <1>4, <3>1 DEF Reservable
  <2>3. stock'[p].reserved <= stock'[p].current
    BY <1>3, <2>1, <2>2 DEF Available
  <2>4. Promised(p) \in Nat /\ Promised(p)' \in Nat
    BY OrdersFinite DEF Promised, Confirmed
  <2>5. CASE Reservable(o) = Lines(o)
    <3>1. o \notin Confirmed /\ Confirmed' = Confirmed \union {o}
      BY <1>1, <2>5 DEF Confirmed, SellingTypes
    <3>2. Promised(p)' = Quantity[o][p] + Promised(p)
      BY <1>1, <3>1, PromisedMore
    <3> QED BY <1>3, <2>1, <2>3, <2>4, <3>2 DEF Reserving
  <2>6. CASE Reservable(o) # Lines(o)
    <3>1. Promised(p)' = Promised(p)
      BY <1>1, <2>6 DEF Promised, Confirmed
    <3> QED BY <1>3, <2>1, <2>3, <2>4, <3>1 DEF Reserving
  <2> QED BY <2>5, <2>6
<1>5. CASE p \notin Reservable(o)
  <2>1. stock'[p] = stock[p]
    BY <1>1, <1>5
  <2>2. Promised(p)' = Promised(p)
    <3>1. CASE Reservable(o) = Lines(o)
      <4>1. Quantity[o][p] = 0
        BY <1>3, <1>5, <3>1 DEF Lines
      <4>2. o \notin Confirmed /\ Confirmed' = Confirmed \union {o}
        BY <1>1, <3>1 DEF Confirmed, SellingTypes
      <4>3. Promised(p)' = Quantity[o][p] + Promised(p) /\ Promised(p) \in Nat
        BY <1>1, <4>2, PromisedMore, OrdersFinite DEF Promised, Confirmed
      <4> QED BY <4>1, <4>3
    <3>2. CASE Reservable(o) # Lines(o)
      BY <1>1, <3>2 DEF Promised, Confirmed
    <3> QED BY <3>1, <3>2
  <2> QED BY <2>1, <2>2 DEF Reserving
<1> QED BY <1>4, <1>5

\* Any other step keeps what is reserved, and confirms nothing.
LEMMA ReservingKept ==
  ASSUME Reserving, UNCHANGED clients, SellingTypes, SellingTypes',
         \A p \in Products : stock'[p].reserved = stock[p].reserved
                             /\ stock'[p].reserved <= stock'[p].current,
         "edit_order" \in clients \/ Confirmed' \subseteq Confirmed
  PROVE  Reserving'
<1> SUFFICES ASSUME NEW p \in Products
             PROVE  "edit_order" \in clients \/ Promised(p)' <= stock'[p].reserved
  BY DEF Reserving
<1>1. Promised(p) \in Nat /\ Promised(p)' \in Nat /\ stock[p].reserved \in Nat
  BY OrdersFinite DEF Promised, Confirmed, SellingTypes
<1> QED BY <1>1, PromisedLess DEF Reserving

LEMMA SellReserves ==
  ASSUME Reserving, SellingTypes, SellingTypes', NEW w \in Workers, Sell(w)
  PROVE  Reserving'
<1>1. PICK p \in Products : /\ Available(p) >= 1
                            /\ stock' = [stock EXCEPT ![p].current = @ - 1]
  BY DEF Sell
<1>2. \A x \in Products : stock'[x].reserved = stock[x].reserved
                          /\ stock'[x].reserved <= stock'[x].current
  BY <1>1 DEF Reserving, Available, SellingTypes
<1>3. Confirmed' = Confirmed /\ UNCHANGED clients
  BY DEF Sell, Confirmed
<1> QED BY <1>2, <1>3, ReservingKept

LEMMA VoidSaleReserves ==
  ASSUME Reserving, SellingTypes, SellingTypes', NEW w \in Workers, VoidSaleSave(w)
  PROVE  Reserving'
<1>1. PICK p : stock' = [stock EXCEPT ![p].current = @ + 1]
  BY DEF VoidSaleSave
<1>2. \A x \in Products : stock'[x].reserved = stock[x].reserved
                          /\ stock'[x].reserved <= stock'[x].current
  BY <1>1 DEF Reserving, SellingTypes
<1>3. Confirmed' = Confirmed /\ UNCHANGED clients
  BY DEF VoidSaleSave, Confirmed
<1> QED BY <1>2, <1>3, ReservingKept

\* Steps that leave stock alone confirm no order, but for a PATCH.
LEMMA OthersReserve ==
  ASSUME Reserving, SellingTypes, SellingTypes', Jobs, NEW w \in Workers,
         OrderEditSave(w) \/ QuoteConvertSave(w) \/ DeliverCommit(w)
  PROVE  Reserving'
<1>1. UNCHANGED <<clients, stock>>
  BY DEF OrderEditSave, QuoteConvertSave, DeliverCommit, trade
<1>2. "edit_order" \in clients \/ Confirmed' \subseteq Confirmed
  <2>1. CASE OrderEditSave(w)
    BY <2>1 DEF OrderEditSave, At, Jobs, JobShape, OrderShape
  <2>2. CASE QuoteConvertSave(w)
    BY <2>2 DEF QuoteConvertSave, Confirmed, SellingTypes
  <2>3. CASE DeliverCommit(w)
    <3>1. job[w].status # "CONFIRMED"
      BY <2>3 DEF DeliverCommit, At, Jobs, JobShape, NoteShape
    <3> QED BY <2>3, <3>1 DEF DeliverCommit, Confirmed, SellingTypes
  <2> QED BY <2>1, <2>2, <2>3
<1> QED BY <1>1, <1>2, ReservingKept DEF Reserving

LEMMA WorkReserves ==
  ASSUME Typed, Typed', Reserving, NEW w \in Workers, Work(w)
  PROVE  Reserving'
<1>1. SellingTypes /\ SellingTypes' /\ Jobs
  BY DEF Typed
<1>2. \/ ConfirmOrder(w) \/ Sell(w) \/ VoidSaleSave(w)
      \/ OrderEditSave(w) \/ QuoteConvertSave(w) \/ DeliverCommit(w)
      \/ UNCHANGED <<clients, orders, stock>>
  <2>1. CASE Trade(w)
    BY <2>1 DEF Trade, SellingStep, OrderEditLoad, VoidSaleLoad, goods
  <2>2. CASE QuoteStep(w)
    BY <2>2 DEF QuoteStep, QuoteLoad, QuoteSave, AnswerQuote, QuoteConvertLoad, trade
  <2>3. CASE NoteStep(w)
    BY <2>3 DEF NoteStep, CreateNote, NoteLoad, NoteSave, Dispatch, DeleteNote, DeliverLoad,
                DeliverCount, trade
  <2> QED BY <2>1, <2>2, <2>3, Untouched DEF Work, goods
<1>3. CASE UNCHANGED <<clients, orders, stock>>
  BY <1>3 DEF Reserving, Promised, Confirmed
<1> QED BY <1>1, <1>2, <1>3, ConfirmReserves, SellReserves, VoidSaleReserves, OthersReserve

LEMMA StepReserves == Typed /\ Reserving /\ [AllNext]_allVars => Reserving'
<1>1. ASSUME Typed, Reserving, UNCHANGED allVars PROVE Reserving'
  BY <1>1 DEF Reserving, Promised, Confirmed, allVars, vars, goods
<1>2. ASSUME Typed, Reserving, AllNext PROVE Reserving'
  <2>1. PICK w \in Workers : Work(w)
    BY <1>2, SomeWork
  <2> QED BY <1>2, <2>1, WorkTyped, WorkReserves
<1> QED BY <1>1, <1>2

LEMMA InitReserves == AllInit => Reserving
<1> SUFFICES ASSUME AllInit, NEW p \in Products
             PROVE  stock[p].reserved <= stock[p].current /\ Promised(p) <= stock[p].reserved
  BY DEF Reserving
<1>1. stock[p].current \in Nat /\ stock[p].reserved = 0
  BY SellingAssumption DEF AllInit, Init, SellingInit
<1>2. Confirmed = {}
  BY DEF AllInit, Init, SellingInit, Confirmed
<1>3. Promised(p) = 0
  BY <1>2, SumEmpty DEF Promised
<1> QED BY <1>1, <1>3

\* Reserved units are on hand whatever POS sells, and unless clients write the
\* status of orders, the units of all confirmed orders are reserved.
THEOREM ConfirmedOrdersBacked == AllSpec => []ConfirmedBacked
<1>1. Reserving => ConfirmedBacked
  BY DEF Reserving, ConfirmedBacked, Unless, Promised, Confirmed
<1> QED BY <1>1, InitTyped, InitReserves, StepTyped, StepReserves, PTL DEF AllSpec

----
(* What the steps of invoices and payments read and write.                 *)

Writes == {"invoice_edit", "invoice_booking", "convert"}
Inserting == {"payment_inserted", "payment_booking"}
IsThere(i) == invoices[i].status # "ABSENT"

\* Requests and replies are served alone, unless they overlap.
LEMMA WorkAlone ==
  ASSUME Matched, NEW w \in Workers, Work(w)
  PROVE  Alone(w)
<1>1. (\E kind : Takes(w, kind)) \/ ~At(w, "idle")
  <2>1. CASE Trade(w)
    BY <2>1 DEF Trade, SellingStep, ConfirmOrder, OrderEditLoad, OrderEditSave, Sell, VoidSaleLoad,
                VoidSaleSave, At
  <2>2. CASE InvoiceStep(w)
    BY <2>2 DEF InvoiceStep, CreateInvoice, EditInvoiceLoad, EditInvoiceSave, InvoiceCommit,
                VoidLoad, VoidSave, VoidCommit, DeleteInvoiceLoad, DeleteInvoiceSave, ConvertLoad,
                ConvertSave, At
  <2>3. CASE PaymentStep(w)
    BY <2>3 DEF PaymentStep, PayLoad, PayInsert, PendingCommit, PaySave, EditPaymentLoad,
                EditPaymentSave, PaymentCommit, DeletePaymentLoad, DeletePaymentSave, At
  <2>4. CASE Abort(w)
    BY <2>4 DEF Abort
  <2>5. CASE QuoteStep(w)
    BY <2>5 DEF QuoteStep, QuoteLoad, QuoteSave, AnswerQuote, QuoteConvertLoad, QuoteConvertSave, At
  <2>6. CASE NoteStep(w)
    BY <2>6 DEF NoteStep, CreateNote, NoteLoad, NoteSave, Dispatch, DeleteNote, DeliverLoad,
                DeliverCount, DeliverCommit, At
  <2>7. CASE ReturnStep(w)
    BY <2>7 DEF ReturnStep, CreateReturnLoad, EditReturnLoad, ReturnSave, MoveReturnLoad,
                MoveReturnSave, DeleteReturn, At
  <2> QED BY <2>1, <2>2, <2>3, <2>4, <2>5, <2>6, <2>7 DEF Work
<1> QED BY <1>1, ServedAlone

\* A request for an invoice that is not there yet.
NewInvoice(w, i, row) ==
  /\ i \in Invoices /\ ~IsThere(i) /\ NewKey(i)
  /\ job'[w].step \in {"invoice_booking", "convert"}
  /\ job'[w].document = i /\ job'[w].row = row
  /\ row \in InvoiceRow /\ row.status \notin {"ABSENT", "VOID"}
  /\ row.paid <= row.total /\ row.balance = row.total - row.paid
  /\ row.paid = 0 \/ "set_paid" \in clients
  /\ \/ row.order = "none" \/ "name_order" \in clients
     \/ /\ row.order \in Orders
        /\ \A x \in Invoices : invoices[x].order = row.order => invoices[x].status = "VOID"

LEMMA CreatesInvoice ==
  ASSUME Jobs, NEW w \in Workers, CreateInvoice(w) \/ ConvertLoad(w)
  PROVE  \E i, row : NewInvoice(w, i, row)
<1>1. CASE CreateInvoice(w)
  <2>1. PICK i, row : NewRow(w, i, row)
    BY <1>1, CreatesRow
  <2>2. job'[w] = Saving(i, row)
    BY <2>1 DEF NewRow, Jobs, Becomes
  <2>3. job'[w].step = "invoice_booking" /\ job'[w].document = i /\ job'[w].row = row
    BY <2>2 DEF Saving
  <2> QED BY <2>1, <2>3 DEF NewRow, NewInvoice, IsThere
<1>2. CASE ConvertLoad(w)
  <2>1. PICK o \in Orders, i \in Invoices, total \in Totals :
          /\ \A x \in Invoices : invoices[x].order = o => invoices[x].status = "VOID"
          /\ invoices[i].status = "ABSENT" /\ NewKey(i)
          /\ Becomes(w, [step |-> "convert", document |-> i, row |-> Ordered(total, 0, o)])
    BY <1>2 DEF ConvertLoad, Ordered
  <2>2. PICK row : row = Ordered(total, 0, o)
    OBVIOUS
  <2>3. /\ row \in InvoiceRow /\ row.status \notin {"ABSENT", "VOID"} /\ row.paid = 0
        /\ row.total = total /\ row.balance = total /\ row.order = o /\ total \in Nat
    BY <2>1, <2>2, TotalsNat, OrderedRow
  <2>4. job'[w] = [step |-> "convert", document |-> i, row |-> row]
    BY <2>1, <2>2 DEF Jobs, Becomes
  <2>5. job'[w].step = "convert" /\ job'[w].document = i /\ job'[w].row = row
    BY <2>4
  <2> QED BY <2>1, <2>3, <2>5 DEF NewInvoice, IsThere
<1> QED BY <1>1, <1>2

\* An edit of an unpaid invoice that is on its way.
EditsInvoice(w, i, row) ==
  /\ EditedRow(w, i, row) /\ IsThere(i)
  /\ job'[w].step = "invoice_edit" /\ job'[w].document = i /\ job'[w].row = row

LEMMA EditsUnpaid ==
  ASSUME Jobs, InvoiceTypes, NEW w \in Workers, EditInvoiceLoad(w)
  PROVE  \E i, row : EditsInvoice(w, i, row)
<1>1. PICK i, row : EditedRow(w, i, row)
  BY EditsRow
<1>2. job'[w] = [step |-> "invoice_edit", document |-> i, row |-> row]
  BY <1>1 DEF Jobs, Becomes, EditedRow
<1>3. job'[w].step = "invoice_edit" /\ job'[w].document = i /\ job'[w].row = row
  BY <1>2
<1> QED BY <1>1, <1>3 DEF EditsInvoice, EditedRow, IsThere

LEMMA SavesEdit ==
  ASSUME Jobs, NEW w \in Workers, EditInvoiceSave(w)
  PROVE  /\ job[w].step = "invoice_edit" /\ job'[w].step = "invoice_booking"
         /\ job'[w].document = job[w].document /\ job'[w].row = job[w].row
<1>1. job'[w] = Saving(job[w].document, job[w].row)
  BY DEF EditInvoiceSave, Jobs, Becomes
<1> QED BY <1>1 DEF Saving, EditInvoiceSave, At

LEMMA VoidsInvoice ==
  ASSUME Jobs, NEW w \in Workers, VoidLoad(w)
  PROVE  /\ job'[w].step = "invoice_void" /\ job'[w].document \in Invoices
         /\ IsThere(job'[w].document) /\ invoices[job'[w].document].paid = 0
<1>1. PICK i \in Invoices :
        /\ invoices[i].status # "ABSENT" /\ invoices[i].paid = 0
        /\ Becomes(w, [step |-> "invoice_void", document |-> i])
  BY DEF VoidLoad
<1>2. job'[w] = [step |-> "invoice_void", document |-> i]
  BY <1>1 DEF Jobs, Becomes
<1>3. job'[w].step = "invoice_void" /\ job'[w].document = i
  BY <1>2
<1> QED BY <1>1, <1>3 DEF IsThere

LEMMA SavesVoid ==
  ASSUME Jobs, NEW w \in Workers, VoidSave(w)
  PROVE  /\ job[w].step = "invoice_void" /\ job'[w].step = "void_booking"
         /\ job'[w].document = job[w].document /\ job[w].document \in Invoices
         /\ IsThere(job[w].document)
<1>1. job'[w] = [step |-> "void_booking", document |-> job[w].document,
                 invoice |-> job[w].document, seen |-> posted[job[w].document],
                 balance |-> receivable]
  BY DEF VoidSave, Jobs, Becomes
<1>2. job'[w].step = "void_booking" /\ job'[w].document = job[w].document
  BY <1>1
<1> QED BY <1>2 DEF VoidSave, At, IsThere, Jobs, JobShape, InvoiceShape, ForInvoice

\* A payment of an invoice that it was validated against.
PaysInvoice(w, p, i, row) ==
  /\ p \in Payments /\ i \in Invoices /\ Recording(row) /\ row.invoice = i
  /\ Payable(i, row.amount) /\ NewKey(p) /\ payments[p].status = "ABSENT"
  /\ job'[w].step = "payment" /\ job'[w].document = p /\ job'[w].row = row
  /\ job'[w].total = invoices[i].total /\ "create_payment" \in clients

LEMMA LoadsPayment ==
  ASSUME Jobs, NEW w \in Workers, PayLoad(w)
  PROVE  \E p, i, row : PaysInvoice(w, p, i, row)
<1>1. PICK p \in Payments, i \in Invoices, amount \in Amounts, s \in {"PAID", "PENDING"} :
        /\ payments[p].status = "ABSENT" /\ NewKey(p) /\ Payable(i, amount)
        /\ Becomes(w, [step |-> "payment", document |-> p, total |-> invoices[i].total,
                       row |-> [status |-> s, invoice |-> i, amount |-> amount, number |-> 0]])
  BY DEF PayLoad
<1>2. PICK row : row = [status |-> s, invoice |-> i, amount |-> amount, number |-> 0]
  OBVIOUS
<1>3. Recording(row) /\ row.invoice = i /\ row.amount = amount
  BY <1>1, <1>2, TotalsNat DEF Recording, PaymentRow
<1>4. job'[w] = [step |-> "payment", document |-> p, total |-> invoices[i].total, row |-> row]
  BY <1>1, <1>2 DEF Jobs, Becomes
<1>5. /\ job'[w].step = "payment" /\ job'[w].document = p /\ job'[w].row = row
      /\ job'[w].total = invoices[i].total
  BY <1>4
<1> QED BY <1>1, <1>3, <1>5 DEF PaysInvoice, PayLoad, Takes

\* A payment that is inserted, under the next number.
InsertsPayment(w, p, row) ==
  /\ p \in Payments /\ Recording(row) /\ "create_payment" \in clients
  /\ job[w].step = "payment" /\ job'[w].step = "payment_inserted"
  /\ job[w].document = p /\ job'[w].document = p /\ job'[w].row = row
  /\ row.invoice = job[w].row.invoice /\ row.amount = job[w].row.amount
  /\ row.status = job[w].row.status /\ row.number = NextNumber
  /\ job'[w].total = job[w].total
  /\ job'[w].paid = PaidAmount(row.invoice) + (IF row.status = "PAID" THEN row.amount ELSE 0)
  /\ \A v \in Others(w) : ~(job[v].step \in Inserting /\ job[v].row.number = NextNumber)

LEMMA InsertsNext ==
  ASSUME Jobs, NEW w \in Workers, PayInsert(w)
  PROVE  \E p, row : InsertsPayment(w, p, row)
<1>1. PICK p, old, total : p = job[w].document /\ old = job[w].row /\ total = job[w].total
  OBVIOUS
<1>2. p \in Payments /\ Recording(old) /\ "create_payment" \in clients /\ job[w].step = "payment"
  BY <1>1 DEF Jobs, JobShape, PaymentShape, ForPayment, NewPayment, PayInsert, At
<1>3. PICK row : row = [old EXCEPT !.number = NextNumber]
  OBVIOUS
<1>4. /\ Recording(row) /\ row.status = old.status /\ row.invoice = old.invoice
      /\ row.amount = old.amount /\ row.number = NextNumber
  BY <1>2, <1>3, NumberedRow, NumberNat
<1>5. PICK paid : paid = PaidAmount(old.invoice) + (IF old.status = "PAID" THEN old.amount ELSE 0)
  OBVIOUS
<1>6. job'[w] = [step |-> "payment_inserted", document |-> p, row |-> row, total |-> total,
                 paid |-> paid]
  BY <1>1, <1>3, <1>5 DEF PayInsert, Jobs, Becomes
<1>7. /\ job'[w].step = "payment_inserted" /\ job'[w].document = p /\ job'[w].row = row
      /\ job'[w].total = total /\ job'[w].paid = paid
  BY <1>6
<1>8. \A v \in Others(w) : ~(job[v].step \in Inserting /\ job[v].row.number = NextNumber)
  BY DEF PayInsert, NumberFree, Inserting
<1> QED BY <1>1, <1>2, <1>4, <1>5, <1>7, <1>8 DEF InsertsPayment

\* A payment that counts, on its way to its invoice.
SavesPayment(w, i, paid, owed) ==
  /\ job[w].step = "payment_inserted" /\ job'[w].step = "payment_booking"
  /\ job'[w].document = job[w].document /\ job[w].document \in Payments
  /\ job'[w].row = job[w].row /\ job[w].row.status = "PAID" /\ Recording(job[w].row)
  /\ i = job[w].row.invoice /\ i \in Invoices /\ IsThere(i) /\ RowFree(w, i)
  /\ paid = job[w].paid /\ owed = Owed(job[w].total, paid)
  /\ paid \in Nat /\ owed \in Nat /\ job[w].total \in Nat
  /\ job'[w].counted = <<paid, owed>> /\ job'[w].counted # <<>>
  /\ "create_payment" \in clients

LEMMA SavesCounted ==
  ASSUME Jobs, NEW w \in Workers, PaySave(w)
  PROVE  \E i, paid, owed : SavesPayment(w, i, paid, owed)
<1>1. PICK p, row, total, paid :
        p = job[w].document /\ row = job[w].row /\ total = job[w].total /\ paid = job[w].paid
  OBVIOUS
<1>2. /\ p \in Payments /\ Recording(row) /\ total \in Nat /\ paid \in Nat
      /\ "create_payment" \in clients /\ row.status = "PAID" /\ job[w].step = "payment_inserted"
  BY <1>1 DEF Jobs, JobShape, PaymentShape, ForPayment, NewPayment, PaySave, At
<1>3. PICK owed \in Nat : owed = Owed(total, paid)
  BY <1>2, OwedNat
<1>4. job'[w] = [step |-> "payment_booking", document |-> p, invoice |-> row.invoice,
                 row |-> row, counted |-> <<paid, owed>>, seen |-> posted[p],
                 balance |-> receivable]
  BY <1>1, <1>3 DEF PaySave, Jobs, Becomes
<1>5. /\ job'[w].step = "payment_booking" /\ job'[w].document = p /\ job'[w].row = row
      /\ job'[w].counted = <<paid, owed>>
  BY <1>4
<1>6. IsThere(row.invoice) /\ RowFree(w, row.invoice) /\ row.invoice \in Invoices
  BY <1>1, <1>2 DEF PaySave, IsThere, Recording
<1>7. <<paid, owed>> # <<>>
  OBVIOUS
<1> QED BY <1>1, <1>2, <1>3, <1>5, <1>6, <1>7 DEF SavesPayment

\* Requests that edit or delete a payment.
LEMMA EditsPayment ==
  ASSUME Jobs, NEW w \in Workers, EditPaymentLoad(w) \/ EditPaymentSave(w) \/ DeletePaymentLoad(w)
  PROVE  \/ job'[w].step = "payment_edit" /\ "edit_payment" \in clients
         \/ /\ job'[w].step = "payment_booking" /\ job'[w].counted = <<>>
            /\ "edit_payment" \in clients
         \/ job'[w].step = "payment_delete" /\ "delete_payment" \in clients
<1>1. CASE EditPaymentLoad(w)
  <2>1. PICK p, row : Becomes(w, [step |-> "payment_edit", document |-> p, row |-> row])
    BY <1>1 DEF EditPaymentLoad
  <2>2. job'[w].step = "payment_edit"
    BY <2>1 DEF Jobs, Becomes
  <2> QED BY <1>1, <2>2 DEF EditPaymentLoad, Takes
<1>2. CASE EditPaymentSave(w)
  <2>1. "edit_payment" \in clients
    BY <1>2 DEF EditPaymentSave, At, Jobs, JobShape, PaymentShape
  <2> QED BY <1>2, <2>1 DEF EditPaymentSave, Jobs, Becomes
<1>3. CASE DeletePaymentLoad(w)
  BY <1>3 DEF DeletePaymentLoad, Takes, Jobs, Becomes
<1> QED BY <1>1, <1>2, <1>3

----
(* What is committed, row by row.                                          *)

WritesInvoice(w, i, row) ==
  /\ job[w].step \in {"invoice_booking", "convert"} /\ job'[w] = Idle
  /\ i = job[w].document /\ i \in Invoices /\ row = job[w].row /\ row \in InvoiceRow
  /\ row.status \notin {"ABSENT", "VOID"}
  /\ \A x \in Invoices : invoices'[x] = IF x = i THEN row ELSE invoices[x]
  /\ UNCHANGED payments

VoidsRow(w, i) ==
  /\ job[w].step = "void_booking" /\ job'[w] = Idle
  /\ i = job[w].document /\ i \in Invoices
  /\ invoices'[i].status = "VOID" /\ invoices'[i].balance = 0
  /\ invoices'[i].paid = invoices[i].paid /\ invoices'[i].total = invoices[i].total
  /\ invoices'[i].order = invoices[i].order
  /\ \A x \in Invoices \ {i} : invoices'[x] = invoices[x]
  /\ UNCHANGED payments

DeletesInvoice(w, i) ==
  /\ job[w].step = "invoice_delete" /\ job'[w] = Idle
  /\ i \in Invoices /\ RowFree(w, i)
  /\ \A p \in Payments : payments[p].invoice # i
  /\ \A x \in Invoices : invoices'[x] = IF x = i THEN NoInvoice ELSE invoices[x]
  /\ UNCHANGED payments

\* A payment that does not count, or not yet.
RecordsPending(w, p, row) ==
  /\ job[w].step = "payment_inserted" /\ job'[w] = Idle
  /\ p = job[w].document /\ p \in Payments /\ row = job[w].row
  /\ Recording(row) /\ row.status = "PENDING" /\ IsThere(row.invoice)
  /\ \A x \in Payments : payments'[x] = IF x = p THEN row ELSE payments[x]
  /\ UNCHANGED invoices

\* A payment and the invoice that it was counted for.
RecordsPaid(w, p, row, i, paid, owed) ==
  /\ job[w].step = "payment_booking" /\ job'[w] = Idle
  /\ p = job[w].document /\ p \in Payments /\ row = job[w].row
  /\ Recording(row) /\ row.status = "PAID" /\ row.invoice = i /\ i \in Invoices /\ IsThere(i)
  /\ job[w].counted = <<paid, owed>> /\ job[w].counted # <<>> /\ paid \in Nat /\ owed \in Nat
  /\ "create_payment" \in clients
  /\ \A x \in Payments : payments'[x] = IF x = p THEN row ELSE payments[x]
  /\ invoices'[i].paid = paid /\ invoices'[i].balance = owed
  /\ invoices'[i].status = Settled(paid, owed)
  /\ invoices'[i].total = invoices[i].total /\ invoices'[i].order = invoices[i].order
  /\ \A x \in Invoices \ {i} : invoices'[x] = invoices[x]

\* Edits and deletions of a payment, which no invoice is told of.
RewritesPayment(w, p, row) ==
  /\ p \in Payments /\ job'[w] = Idle
  /\ \/ "edit_payment" \in clients /\ Recording(row) /\ IsThere(row.invoice)
     \/ "delete_payment" \in clients /\ row = NoPayment
  /\ \A x \in Payments : payments'[x] = IF x = p THEN row ELSE payments[x]
  /\ UNCHANGED invoices

LEMMA InvoiceWritten ==
  ASSUME Jobs, InvoiceTypes, NEW w \in Workers, InvoiceCommit(w) \/ ConvertSave(w)
  PROVE  \E i, row : WritesInvoice(w, i, row)
<1>1. PICK i, row : i = job[w].document /\ row = job[w].row
  OBVIOUS
<1>2. /\ job[w].step \in {"invoice_booking", "convert"} /\ Respond(w)
      /\ invoices' = [invoices EXCEPT ![i] = row] /\ UNCHANGED <<payments, clients, overlap>>
  BY <1>1 DEF InvoiceCommit, ConvertSave, At
<1>3. i \in Invoices /\ row \in InvoiceRow /\ row.status \notin {"ABSENT", "VOID"}
  BY <1>1, <1>2 DEF Jobs, JobShape, InvoiceShape, ForInvoice
<1>4. job'[w] = Idle
  BY <1>2, Responded
<1>5. \A x \in Invoices : invoices'[x] = IF x = i THEN row ELSE invoices[x]
  BY <1>2 DEF InvoiceTypes
<1> QED BY <1>1, <1>2, <1>3, <1>4, <1>5 DEF WritesInvoice

LEMMA InvoiceVoided ==
  ASSUME Jobs, InvoiceTypes, NEW w \in Workers, VoidCommit(w)
  PROVE  \E i : VoidsRow(w, i)
<1>1. PICK i : i = job[w].document
  OBVIOUS
<1>2. /\ job[w].step = "void_booking" /\ Respond(w) /\ UNCHANGED <<payments, clients, overlap>>
      /\ invoices' = [invoices EXCEPT ![i].status = "VOID", ![i].balance = 0]
  BY <1>1 DEF VoidCommit, At
<1>3. i \in Invoices /\ invoices[i] \in InvoiceRow
  BY <1>1, <1>2 DEF Jobs, JobShape, InvoiceShape, ForInvoice, InvoiceTypes
<1>4. job'[w] = Idle
  BY <1>2, Responded
<1>5. /\ invoices'[i].status = "VOID" /\ invoices'[i].balance = 0
      /\ invoices'[i].paid = invoices[i].paid /\ invoices'[i].total = invoices[i].total
      /\ invoices'[i].order = invoices[i].order
      /\ \A x \in Invoices \ {i} : invoices'[x] = invoices[x]
  BY <1>2, <1>3 DEF InvoiceTypes, InvoiceRow
<1> QED BY <1>1, <1>2, <1>3, <1>4, <1>5 DEF VoidsRow

LEMMA InvoiceDeleted ==
  ASSUME Jobs, InvoiceTypes, NEW w \in Workers, DeleteInvoiceSave(w)
  PROVE  \E i : DeletesInvoice(w, i)
<1>1. PICK i : i = job[w].document
  OBVIOUS
<1>2. /\ job[w].step = "invoice_delete" /\ Respond(w) /\ UNCHANGED <<payments, clients, overlap>>
      /\ RowFree(w, i) /\ (\A p \in Payments : payments[p].invoice # i)
      /\ invoices' = [invoices EXCEPT ![i] = NoInvoice]
  BY <1>1 DEF DeleteInvoiceSave, At
<1>3. i \in Invoices
  BY <1>1, <1>2 DEF Jobs, JobShape, InvoiceShape, ForInvoice
<1>4. job'[w] = Idle
  BY <1>2, Responded
<1>5. \A x \in Invoices : invoices'[x] = IF x = i THEN NoInvoice ELSE invoices[x]
  BY <1>2 DEF InvoiceTypes
<1> QED BY <1>2, <1>3, <1>4, <1>5 DEF DeletesInvoice

LEMMA PendingRecorded ==
  ASSUME Jobs, PaymentTypes, NEW w \in Workers, PendingCommit(w)
  PROVE  \E p, row : RecordsPending(w, p, row)
<1>1. PICK p, row : p = job[w].document /\ row = job[w].row
  OBVIOUS
<1>2. /\ job[w].step = "payment_inserted" /\ Respond(w) /\ UNCHANGED <<invoices, clients, overlap>>
      /\ row.status = "PENDING" /\ IsThere(row.invoice) /\ payments' = [payments EXCEPT ![p] = row]
  BY <1>1 DEF PendingCommit, At, IsThere
<1>3. p \in Payments /\ Recording(row)
  BY <1>1, <1>2 DEF Jobs, JobShape, PaymentShape, ForPayment, NewPayment
<1>4. job'[w] = Idle
  BY <1>2, Responded
<1>5. \A x \in Payments : payments'[x] = IF x = p THEN row ELSE payments[x]
  BY <1>2 DEF PaymentTypes
<1> QED BY <1>1, <1>2, <1>3, <1>4, <1>5 DEF RecordsPending

LEMMA PaymentRecorded ==
  ASSUME Jobs, InvoiceTypes, PaymentTypes, NEW w \in Workers, PaymentCommit(w)
  PROVE  \/ \E p, row, i, paid, owed : RecordsPaid(w, p, row, i, paid, owed)
         \/ \E p, row : RewritesPayment(w, p, row)
<1>1. PICK p, row, seen : PaymentCommitted(w, p, row, seen)
  BY CommittedPayment
<1>2. /\ p = job[w].document /\ row = job[w].row /\ p \in Payments /\ Recording(row)
      /\ IsThere(row.invoice)
  BY <1>1 DEF PaymentCommitted, IsThere
<1>3. \A x \in Payments : payments'[x] = IF x = p THEN row ELSE payments[x]
  BY <1>1 DEF PaymentCommitted, PaymentTypes
<1>4. job'[w] = Idle /\ job[w].step = "payment_booking"
  BY Responded DEF PaymentCommit, At
<1>5. CASE UNCHANGED invoices /\ "edit_payment" \in clients
  BY <1>2, <1>3, <1>4, <1>5 DEF RewritesPayment
<1>6. CASE \E i, paid, owed : Counted(w, i, paid, owed)
  <2>1. PICK i, paid, owed : Counted(w, i, paid, owed)
    BY <1>6
  <2>2. /\ job[w].counted = <<paid, owed>> /\ paid \in Nat /\ owed \in Nat /\ i = row.invoice
        /\ i \in Invoices /\ row.status = "PAID" /\ "create_payment" \in clients
    BY <1>2, <2>1 DEF Counted
  <2>3. PICK s : s = Settled(paid, owed)
    OBVIOUS
  <2>4. invoices' = [invoices EXCEPT ![i] =
          [invoices[i] EXCEPT !.paid = paid, !.balance = owed, !.status = s]]
    BY <2>1, <2>3 DEF Counted
  <2>5. invoices[i] \in InvoiceRow
    BY <2>2 DEF InvoiceTypes
  <2>6. /\ invoices'[i].paid = paid /\ invoices'[i].balance = owed
        /\ invoices'[i].status = s
        /\ invoices'[i].total = invoices[i].total /\ invoices'[i].order = invoices[i].order
        /\ \A x \in Invoices \ {i} : invoices'[x] = invoices[x]
    BY <2>2, <2>4, <2>5 DEF InvoiceTypes, InvoiceRow
  <2>7. <<paid, owed>> # <<>>
    OBVIOUS
  <2> QED BY <1>2, <1>3, <1>4, <2>2, <2>3, <2>6, <2>7 DEF RecordsPaid
<1> QED BY <1>5, <1>6, CommittedPayment

LEMMA PaymentDeleted ==
  ASSUME Jobs, PaymentTypes, NEW w \in Workers, DeletePaymentSave(w)
  PROVE  \E p, row : RewritesPayment(w, p, row)
<1>1. PICK p : p = job[w].document
  OBVIOUS
<1>2. /\ job[w].step = "payment_delete" /\ Respond(w) /\ UNCHANGED <<invoices, clients, overlap>>
      /\ payments' = [payments EXCEPT ![p] = NoPayment]
  BY <1>1 DEF DeletePaymentSave, At
<1>3. p \in Payments /\ "delete_payment" \in clients
  BY <1>1, <1>2 DEF Jobs, JobShape, PaymentShape, ForPayment, NewPayment
<1>4. job'[w] = Idle
  BY <1>2, Responded
<1>5. \A x \in Payments : payments'[x] = IF x = p THEN NoPayment ELSE payments[x]
  BY <1>2 DEF PaymentTypes
<1> QED BY <1>2, <1>3, <1>4, <1>5 DEF RewritesPayment

\* A step that leaves invoices and payments alone, and does not ask to write any.
Elsewhere(w) ==
  /\ UNCHANGED <<invoices, payments>>
  /\ \/ job'[w] = job[w]
     \/ job'[w].step \notin Writes \union Inserting \union {"payment", "void_booking", "invoice_void"}
     \/ /\ job'[w].step = "payment_booking" /\ job'[w].counted = <<>>
        /\ "edit_payment" \in clients

\* A step that asks to write invoices or payments, or goes on to.
Asks(w) ==
  /\ UNCHANGED <<invoices, payments>>
  /\ \/ \E i, row : NewInvoice(w, i, row) \/ EditsInvoice(w, i, row)
     \/ EditInvoiceSave(w) \/ VoidLoad(w) \/ VoidSave(w)
     \/ \E p, i, row : PaysInvoice(w, p, i, row)
     \/ \E p, row : InsertsPayment(w, p, row)
     \/ \E i, paid, owed : SavesPayment(w, i, paid, owed)

Commits(w) ==
  \/ \E i, row : WritesInvoice(w, i, row)
  \/ \E i : VoidsRow(w, i) \/ DeletesInvoice(w, i)
  \/ \E p, row : RecordsPending(w, p, row) \/ RewritesPayment(w, p, row)
  \/ \E p, row, i, paid, owed : RecordsPaid(w, p, row, i, paid, owed)

LEMMA PlainElsewhere ==
  ASSUME Typed, NEW w \in Workers, Plain(w), UNCHANGED invoices
  PROVE  Elsewhere(w)
<1>1. CASE UNCHANGED job
  BY <1>1 DEF Plain, Elsewhere
<1>2. CASE ~UNCHANGED job
  <2>1. PICK j : j.step \notin ForInvoice \union ForPayment /\ job' = [job EXCEPT ![w] = j]
    BY <1>2 DEF Plain
  <2>2. job'[w] = j
    BY <2>1 DEF Typed, Jobs
  <2> QED
    BY <2>1, <2>2 DEF Plain, Elsewhere, ForInvoice, ForPayment, NewPayment, Writes, Inserting
<1> QED BY <1>1, <1>2

LEMMA MoneySteps ==
  ASSUME Typed, NEW w \in Workers, Work(w)
  PROVE  Elsewhere(w) \/ Asks(w) \/ Commits(w)
<1>0. Jobs /\ InvoiceTypes /\ PaymentTypes
  BY DEF Typed
<1>1. CASE Trade(w) \/ QuoteStep(w) \/ NoteStep(w) \/ ReturnStep(w)
  BY <1>1, FollowPlain, PlainElsewhere, Untouched
<1>2. CASE Abort(w)
  <2>1. job'[w] = Idle
    BY <1>0, <1>2, Responded DEF Abort
  <2> QED BY <1>2, <2>1 DEF Abort, Elsewhere, Idle, Writes, Inserting
<1>3. CASE InvoiceStep(w)
  <2>1. CASE CreateInvoice(w) \/ ConvertLoad(w)
    BY <1>0, <2>1, CreatesInvoice DEF Asks, CreateInvoice, ConvertLoad
  <2>2. CASE EditInvoiceLoad(w)
    BY <1>0, <2>2, EditsUnpaid DEF Asks, EditInvoiceLoad
  <2>3. CASE EditInvoiceSave(w) \/ VoidLoad(w) \/ VoidSave(w)
    BY <2>3 DEF Asks, EditInvoiceSave, VoidLoad, VoidSave
  <2>4. CASE DeleteInvoiceLoad(w)
    <3>1. PICK i : Becomes(w, [step |-> "invoice_delete", document |-> i])
      BY <2>4 DEF DeleteInvoiceLoad
    <3>2. job'[w].step = "invoice_delete"
      BY <1>0, <3>1 DEF Jobs, Becomes
    <3> QED BY <2>4, <3>2 DEF DeleteInvoiceLoad, Elsewhere, Writes, Inserting
  <2>5. CASE InvoiceCommit(w) \/ ConvertSave(w) \/ VoidCommit(w) \/ DeleteInvoiceSave(w)
    BY <1>0, <2>5, InvoiceWritten, InvoiceVoided, InvoiceDeleted DEF Commits
  <2> QED BY <1>3, <2>1, <2>2, <2>3, <2>4, <2>5 DEF InvoiceStep
<1>4. CASE PaymentStep(w)
  <2>1. CASE PayLoad(w)
    BY <1>0, <2>1, LoadsPayment DEF Asks, PayLoad
  <2>2. CASE PayInsert(w)
    BY <1>0, <2>2, InsertsNext DEF Asks, PayInsert
  <2>3. CASE PaySave(w)
    BY <1>0, <2>3, SavesCounted DEF Asks, PaySave
  <2>4. CASE EditPaymentLoad(w) \/ EditPaymentSave(w) \/ DeletePaymentLoad(w)
    <3>1. UNCHANGED <<invoices, payments>>
      BY <2>4 DEF EditPaymentLoad, EditPaymentSave, DeletePaymentLoad
    <3> QED BY <1>0, <2>4, <3>1, EditsPayment DEF Elsewhere, Writes, Inserting
  <2>5. CASE PendingCommit(w) \/ PaymentCommit(w) \/ DeletePaymentSave(w)
    BY <1>0, <2>5, PendingRecorded, PaymentRecorded, PaymentDeleted DEF Commits
  <2> QED BY <1>4, <2>1, <2>2, <2>3, <2>4, <2>5 DEF PaymentStep
<1> QED BY <1>1, <1>2, <1>3, <1>4 DEF Work

----
(* Keys: which rows are there while requests are served.                   *)

\* Requests overlap, and every invoice that they write is new.
NoEdits == overlap /\ "edit_invoice" \notin clients

KeyJob(j, rows) ==
  /\ j.step = "void_booking" => rows[j.document].status # "ABSENT"
  /\ j.step = "payment_booking" /\ j.counted # <<>> => rows[j.row.invoice].status # "ABSENT"
  /\ NoEdits /\ j.step \in Writes => rows[j.document].status = "ABSENT"

KeyPair(j, k) ==
  NoEdits /\ j.step \in Writes =>
    /\ k.step \in Writes => k.document # j.document
    /\ k.step \in NewPayment => k.row.invoice # j.document

\* Whatever is paid is there; a new invoice is one request's alone, and not there yet.
Keys ==
  /\ \A w \in Workers : KeyJob(job[w], invoices)
  /\ \A w, v \in Workers : w # v => KeyPair(job[w], job[v])
  /\ \A p \in Recorded : IsThere(payments[p].invoice)

LEMMA KeysMove ==
  ASSUME Keys, NEW w \in Workers, Serves(w), UNCHANGED <<invoices, payments>>,
         KeyJob(job'[w], invoices),
         \A v \in Others(w) : KeyPair(job'[w], job[v]) /\ KeyPair(job[v], job'[w])
  PROVE  Keys'
<1>1. \A v \in Workers : KeyJob(job'[v], invoices)
  BY DEF Keys, Serves, Others
<1>2. \A u, v \in Workers : u # v => KeyPair(job'[u], job'[v])
  BY DEF Keys, Serves, Others
<1>3. UNCHANGED <<overlap, clients>>
  BY DEF Serves
<1>4. \A v \in Workers : KeyJob(job[v], invoices)'
  BY <1>1, <1>3 DEF KeyJob, NoEdits
<1>5. \A u, v \in Workers : u # v => KeyPair(job[u], job[v])'
  BY <1>2, <1>3 DEF KeyPair, NoEdits
<1> QED BY <1>4, <1>5 DEF Keys, IsThere, Recorded

LEMMA KeysCommit ==
  ASSUME Keys, NEW w \in Workers, Serves(w), job'[w] = Idle,
         \A v \in Others(w) : KeyJob(job[v], invoices'),
         \A p \in Payments : payments'[p].status # "ABSENT" =>
                               invoices'[payments'[p].invoice].status # "ABSENT"
  PROVE  Keys'
<1>0. KeyJob(Idle, invoices') /\ (\A k : KeyPair(Idle, k) /\ KeyPair(k, Idle))
  BY DEF KeyJob, KeyPair, Idle, Writes, NewPayment
<1>1. \A v \in Workers : KeyJob(job'[v], invoices')
  BY <1>0 DEF Serves, Others
<1>2. \A u, v \in Workers : u # v => KeyPair(job'[u], job'[v])
  BY <1>0 DEF Keys, Serves, Others
<1>3. UNCHANGED <<overlap, clients>>
  BY DEF Serves
<1>4. \A v \in Workers : KeyJob(job[v], invoices)'
  BY <1>1, <1>3 DEF KeyJob, NoEdits
<1>5. \A u, v \in Workers : u # v => KeyPair(job[u], job[v])'
  BY <1>2, <1>3 DEF KeyPair, NoEdits
<1> QED BY <1>4, <1>5 DEF Keys, IsThere, Recorded

\* A request that writes no invoice, and books none.
LEMMA KeysElsewhere ==
  ASSUME Keys, NEW w \in Workers, Serves(w), Elsewhere(w)
  PROVE  Keys'
<1>0. UNCHANGED <<invoices, payments>>
  BY DEF Elsewhere
<1>1. CASE job'[w] = job[w]
  <2>1. /\ KeyJob(job'[w], invoices)
        /\ \A v \in Others(w) : KeyPair(job'[w], job[v]) /\ KeyPair(job[v], job'[w])
    BY <1>1 DEF Keys, Others
  <2> QED BY <1>0, <2>1, KeysMove
<1>2. CASE job'[w] # job[w]
  <2>1. /\ job'[w].step \notin Writes \union NewPayment \union {"void_booking"}
        /\ job'[w].step = "payment_booking" => job'[w].counted = <<>>
    BY <1>2 DEF Elsewhere, Writes, NewPayment, Inserting
  <2>2. /\ KeyJob(job'[w], invoices)
        /\ \A v \in Others(w) : KeyPair(job'[w], job[v]) /\ KeyPair(job[v], job'[w])
    BY <2>1 DEF KeyJob, KeyPair
  <2> QED BY <1>0, <2>2, KeysMove
<1> QED BY <1>1, <1>2

\* A key that is new is in no request.
LEMMA NewKeyUnknown ==
  ASSUME Sound, NEW w \in Workers, NEW i, NewKey(i), NEW v \in Others(w)
  PROVE  /\ job[v].step \in ForInvoice \union ForPayment => job[v].document # i
         /\ job[v].step \in NewPayment => job[v].row.invoice # i
<1>1. v \in Workers
  BY DEF Others
<1>2. job[v].step \in ForInvoice \union ForPayment => Carries(job[v]) /\ ~At(v, "idle")
  BY <1>1 DEF Sound, JobOK, ForInvoice, ForPayment, NewPayment, At
<1>3. job[v].step \in NewPayment => job[v].row.invoice # i
  BY <1>1 DEF NewKey, NewPayment
<1> QED BY <1>1, <1>2, <1>3 DEF NewKey, Carries

LEMMA KeysAsked ==
  ASSUME Typed, Sound, Keys, NEW w \in Workers, Serves(w), Asks(w)
  PROVE  Keys'
<1>0. UNCHANGED <<invoices, payments>> /\ Jobs
  BY DEF Asks, Typed
<1> SUFFICES /\ KeyJob(job'[w], invoices)
             /\ \A v \in Others(w) : KeyPair(job'[w], job[v]) /\ KeyPair(job[v], job'[w])
  BY <1>0, KeysMove
<1>1. CASE \E i, row : NewInvoice(w, i, row)
  <2>1. PICK i, row : NewInvoice(w, i, row)
    BY <1>1
  <2>2. /\ ~IsThere(i) /\ NewKey(i) /\ job'[w].document = i
        /\ job'[w].step \in {"invoice_booking", "convert"}
    BY <2>1 DEF NewInvoice
  <2>3. KeyJob(job'[w], invoices)
    BY <2>2 DEF KeyJob, IsThere
  <2>4. ASSUME NEW v \in Others(w) PROVE KeyPair(job'[w], job[v]) /\ KeyPair(job[v], job'[w])
    <3>1. /\ job[v].step \in Writes => job[v].document # i
          /\ job[v].step \in NewPayment => job[v].row.invoice # i
      BY <2>2, NewKeyUnknown DEF ForInvoice, Writes
    <3> QED BY <2>2, <3>1 DEF KeyPair, NewPayment
  <2> QED BY <2>3, <2>4
<1>2. CASE \E i, row : EditsInvoice(w, i, row)
  <2>1. ~NoEdits /\ job'[w].step = "invoice_edit"
    BY <1>2 DEF EditsInvoice, EditedRow, NoEdits
  <2> QED BY <2>1 DEF KeyJob, KeyPair
<1>3. CASE EditInvoiceSave(w)
  <2>1. job'[w].step = "invoice_booking" /\ job[w].step = "invoice_edit"
    BY <1>0, <1>3, SavesEdit
  <2>2. ~NoEdits
    BY <1>0, <2>1 DEF Jobs, JobShape, InvoiceShape, NoEdits
  <2> QED BY <2>1, <2>2 DEF KeyJob, KeyPair
<1>4. CASE VoidLoad(w) \/ VoidSave(w)
  <2>1. /\ job'[w].step \in {"invoice_void", "void_booking"}
        /\ IsThere(job'[w].document)
    BY <1>0, <1>4, VoidsInvoice, SavesVoid
  <2> QED BY <2>1 DEF KeyJob, KeyPair, IsThere, Writes, NewPayment
<1>5. CASE \E p, i, row : PaysInvoice(w, p, i, row)
  <2>1. PICK p, i, row : PaysInvoice(w, p, i, row)
    BY <1>5
  <2>2. job'[w].step = "payment" /\ job'[w].row.invoice = i /\ IsThere(i)
    BY <2>1 DEF PaysInvoice, Payable, IsThere
  <2>3. ASSUME NEW v \in Others(w) PROVE KeyPair(job[v], job'[w])
    BY <2>2 DEF Keys, KeyJob, KeyPair, IsThere, Others, Writes
  <2> QED BY <2>2, <2>3 DEF KeyJob, KeyPair, Writes
<1>6. CASE \E p, row : InsertsPayment(w, p, row)
  <2>1. /\ job[w].step = "payment" /\ job'[w].step = "payment_inserted"
        /\ job'[w].row.invoice = job[w].row.invoice
    BY <1>6 DEF InsertsPayment
  <2>2. ASSUME NEW v \in Others(w) PROVE KeyPair(job[v], job'[w])
    <3>1. KeyPair(job[v], job[w])
      BY DEF Keys, Others
    <3> QED BY <2>1, <3>1 DEF KeyPair, NewPayment, Writes
  <2> QED BY <2>1, <2>2 DEF KeyJob, KeyPair, Writes
<1>7. CASE \E i, paid, owed : SavesPayment(w, i, paid, owed)
  <2>1. PICK i, paid, owed : SavesPayment(w, i, paid, owed)
    BY <1>7
  <2>2. job'[w].step = "payment_booking" /\ job'[w].row.invoice = i /\ IsThere(i)
    BY <2>1 DEF SavesPayment
  <2> QED BY <2>2 DEF KeyJob, KeyPair, IsThere, Writes, NewPayment
<1> QED BY <1>1, <1>2, <1>3, <1>4, <1>5, <1>6, <1>7 DEF Asks

LEMMA KeysCommitted ==
  ASSUME Typed, Keys, NEW w \in Workers, Serves(w), Commits(w)
  PROVE  Keys'
<1>0. /\ Jobs /\ PaymentTypes
      /\ \A v \in Workers : KeyJob(job[v], invoices)
      /\ \A p \in Payments : payments[p].status # "ABSENT" =>
           payments[p].invoice \in Invoices /\ invoices[payments[p].invoice].status # "ABSENT"
  BY DEF Typed, Keys, IsThere, Recorded, PaymentTypes
<1>d. \A v \in Workers : /\ job[v].step \in Writes \union {"void_booking"} => job[v].document \in Invoices
                         /\ job[v].step = "payment_booking" => job[v].row.invoice \in Invoices
  BY <1>0 DEF Jobs, JobShape, InvoiceShape, PaymentShape, Recording, Writes, ForInvoice, ForPayment,
              NewPayment
<1>1. ASSUME NEW i, NEW row, WritesInvoice(w, i, row) PROVE Keys'
  <2>1. /\ job'[w] = Idle /\ i = job[w].document /\ job[w].step \in Writes /\ row.status # "ABSENT"
        /\ UNCHANGED payments
        /\ \A x \in Invoices : invoices'[x] = IF x = i THEN row ELSE invoices[x]
    BY <1>1 DEF WritesInvoice, Writes
  <2>2. ASSUME NEW v \in Others(w) PROVE KeyJob(job[v], invoices')
    <3>1. KeyPair(job[w], job[v]) /\ v \in Workers
      BY DEF Keys, Others
    <3>2. NoEdits /\ job[v].step \in Writes => job[v].document # i
      BY <2>1, <3>1 DEF KeyPair
    <3> QED BY <1>0, <1>d, <2>1, <3>1, <3>2 DEF KeyJob
  <2> QED BY <1>0, <2>1, <2>2, KeysCommit
<1>2. ASSUME NEW i, VoidsRow(w, i) PROVE Keys'
  <2>1. /\ job'[w] = Idle /\ i = job[w].document /\ job[w].step = "void_booking" /\ UNCHANGED payments
        /\ invoices'[i].status = "VOID"
        /\ \A x \in Invoices \ {i} : invoices'[x] = invoices[x]
    BY <1>2 DEF VoidsRow
  <2>2. invoices[i].status # "ABSENT"
    BY <1>0, <2>1 DEF KeyJob
  <2>3. ASSUME NEW v \in Others(w) PROVE KeyJob(job[v], invoices')
    <3>1. v \in Workers
      BY DEF Others
    <3> QED BY <1>0, <1>d, <2>1, <2>2, <3>1 DEF KeyJob
  <2> QED BY <1>0, <2>1, <2>3, KeysCommit
<1>3. ASSUME NEW i, DeletesInvoice(w, i) PROVE Keys'
  <2>1. /\ job'[w] = Idle /\ UNCHANGED payments /\ RowFree(w, i)
        /\ \A p \in Payments : payments[p].invoice # i
        /\ \A x \in Invoices : invoices'[x] = IF x = i THEN NoInvoice ELSE invoices[x]
    BY <1>3 DEF DeletesInvoice
  <2>2. NoInvoice.status = "ABSENT"
    BY DEF NoInvoice
  <2>3. ASSUME NEW v \in Others(w) PROVE KeyJob(job[v], invoices')
    <3>1. v \in Workers
      BY DEF Others
    <3>2. job[v].step = "void_booking" => job[v].document # i
      BY <2>1 DEF RowFree
    <3>3. job[v].step = "payment_booking" /\ job[v].counted # <<>> => job[v].row.invoice # i
      <4>1. job[v].step = "payment_booking" /\ job[v].counted # <<>> => job[v].invoice = job[v].row.invoice
        BY <1>0, <3>1 DEF Jobs, JobShape, PaymentShape
      <4> QED BY <2>1, <4>1 DEF RowFree
    <3> QED BY <1>0, <1>d, <2>1, <2>2, <3>1, <3>2, <3>3 DEF KeyJob
  <2> QED BY <1>0, <2>1, <2>3, KeysCommit
<1>4. ASSUME NEW p, NEW row, RecordsPending(w, p, row) \/ RewritesPayment(w, p, row) PROVE Keys'
  <2>1. /\ job'[w] = Idle /\ UNCHANGED invoices
        /\ row = NoPayment \/ invoices[row.invoice].status # "ABSENT"
        /\ \A x \in Payments : payments'[x] = IF x = p THEN row ELSE payments[x]
    BY <1>4 DEF RecordsPending, RewritesPayment, IsThere
  <2>2. \A x \in Payments : payments'[x].status # "ABSENT" =>
                              invoices[payments'[x].invoice].status # "ABSENT"
    BY <1>0, <2>1 DEF NoPayment
  <2>3. \A v \in Others(w) : KeyJob(job[v], invoices')
    BY <1>0, <2>1 DEF Others
  <2> QED BY <2>1, <2>2, <2>3, KeysCommit
<1>5. ASSUME NEW p, NEW row, NEW i, NEW paid, NEW owed, RecordsPaid(w, p, row, i, paid, owed)
      PROVE  Keys'
  <2>1. /\ job'[w] = Idle /\ row.invoice = i /\ i \in Invoices /\ invoices[i].status # "ABSENT"
        /\ \A x \in Payments : payments'[x] = IF x = p THEN row ELSE payments[x]
        /\ invoices'[i].status = Settled(paid, owed)
        /\ \A x \in Invoices \ {i} : invoices'[x] = invoices[x]
    BY <1>5 DEF RecordsPaid, IsThere
  <2>2. invoices'[i].status # "ABSENT"
    BY <2>1, SettledKnown
  <2>3. \A x \in Payments : payments'[x].status # "ABSENT" =>
                              invoices'[payments'[x].invoice].status # "ABSENT"
    BY <1>0, <2>1, <2>2
  <2>4. ASSUME NEW v \in Others(w) PROVE KeyJob(job[v], invoices')
    <3>1. v \in Workers
      BY DEF Others
    <3> QED BY <1>0, <1>d, <2>1, <2>2, <3>1 DEF KeyJob
  <2> QED BY <2>1, <2>3, <2>4, KeysCommit
<1> QED BY <1>1, <1>2, <1>3, <1>4, <1>5 DEF Commits

LEMMA WorkKeys ==
  ASSUME Typed, Sound, Keys, NEW w \in Workers, Work(w)
  PROVE  Keys'
BY WorkTyped, MoneySteps, KeysElsewhere, KeysAsked, KeysCommitted

LEMMA NothingKeys ==
  ASSUME Keys, UNCHANGED allVars
  PROVE  Keys'
BY DEF Keys, KeyJob, KeyPair, NoEdits, Recorded, IsThere, allVars, vars

LEMMA InitKeys == AllInit => Keys
<1> SUFFICES ASSUME AllInit PROVE Keys
  OBVIOUS
<1>1. \A w \in Workers : job[w] = Idle
  BY DEF AllInit, Init, SellingInit
<1>2. Recorded = {}
  BY DEF AllInit, Init, Recorded, NoPayment
<1> QED BY <1>1, <1>2 DEF Keys, KeyJob, KeyPair, Idle, Writes, NewPayment

----
(* What invoices owe. *)

\* No edit writes the totals of an invoice that a payment has read, or the reverse.
Owes ==
  /\ ~overlap \/ ~({"edit_invoice", "create_payment"} \subseteq clients)
  /\ ~({"edit_invoice", "set_paid"} \subseteq clients)

OwedRow(row) == row.balance = Owed(row.total, row.paid)
Stands(row) == row.status \notin {"ABSENT", "VOID"}

OwingJob(j, rows) ==
  /\ j.step \in Writes => OwedRow(j.row)
  /\ j.step \in NewPayment =>
       rows[j.row.invoice].status = "ABSENT" \/ rows[j.row.invoice].total = j.total
  /\ j.step = "payment_booking" /\ j.counted # <<>> =>
       j.counted[2] = Owed(rows[j.row.invoice].total, j.counted[1])

\* An invoice owes what is not paid of its total, and a payment on its way knows
\* the total that its invoice has.
Owing ==
  Owes => /\ \A w \in Workers : OwingJob(job[w], invoices)
          /\ \A i \in Invoices : Stands(invoices[i]) => OwedRow(invoices[i])

LEMMA OwingMove ==
  ASSUME Owing, NEW w \in Workers, Serves(w), UNCHANGED invoices,
         Owes => OwingJob(job'[w], invoices)
  PROVE  Owing'
<1>1. Owes' <=> Owes
  BY DEF Serves, Owes
<1>2. Owes => \A v \in Workers : OwingJob(job'[v], invoices)
  BY DEF Owing, Serves, Others
<1>3. Owes => \A v \in Workers : OwingJob(job[v], invoices)'
  BY <1>2 DEF OwingJob
<1> QED BY <1>1, <1>3 DEF Owing

LEMMA OwingCommit ==
  ASSUME Owing, NEW w \in Workers, Serves(w), job'[w] = Idle,
         Owes => \A v \in Others(w) : OwingJob(job[v], invoices'),
         Owes => \A i \in Invoices : Stands(invoices'[i]) => OwedRow(invoices'[i])
  PROVE  Owing'
<1>0. OwingJob(Idle, invoices')
  BY DEF OwingJob, Idle, Writes, NewPayment
<1>1. Owes' <=> Owes
  BY DEF Serves, Owes
<1>2. Owes => \A v \in Workers : OwingJob(job'[v], invoices')
  BY <1>0 DEF Serves, Others
<1>3. Owes => \A v \in Workers : OwingJob(job[v], invoices)'
  BY <1>2 DEF OwingJob
<1>4. Owes => \A i \in Invoices : (Stands(invoices[i]) => OwedRow(invoices[i]))'
  BY DEF Stands, OwedRow
<1> QED BY <1>1, <1>3, <1>4 DEF Owing

LEMMA OwingElsewhere ==
  ASSUME Owing, NEW w \in Workers, Serves(w), Elsewhere(w)
  PROVE  Owing'
<1>0. UNCHANGED invoices
  BY DEF Elsewhere
<1>1. CASE job'[w] = job[w]
  BY <1>0, <1>1, OwingMove DEF Owing
<1>2. CASE job'[w] # job[w]
  <2>1. /\ job'[w].step \notin Writes \union NewPayment
        /\ job'[w].step = "payment_booking" => job'[w].counted = <<>>
    BY <1>2 DEF Elsewhere, Writes, NewPayment, Inserting
  <2>2. OwingJob(job'[w], invoices)
    BY <2>1 DEF OwingJob
  <2> QED BY <1>0, <2>2, OwingMove
<1> QED BY <1>1, <1>2

LEMMA OwingAsked ==
  ASSUME Typed, Owing, NEW w \in Workers, Serves(w), Asks(w)
  PROVE  Owing'
<1>0. UNCHANGED invoices /\ Jobs /\ InvoiceTypes
  BY DEF Asks, Typed
<1> SUFFICES ASSUME Owes PROVE OwingJob(job'[w], invoices)
  BY <1>0, OwingMove
<1>w. \A v \in Workers : OwingJob(job[v], invoices)
  BY DEF Owing
<1>1. CASE \E i, row : NewInvoice(w, i, row)
  <2>1. PICK i, row : NewInvoice(w, i, row)
    BY <1>1
  <2>2. /\ job'[w].step \in {"invoice_booking", "convert"} /\ job'[w].row = row
        /\ row.total \in Nat /\ row.paid \in Nat /\ row.paid <= row.total
        /\ row.balance = row.total - row.paid
    BY <2>1 DEF NewInvoice, InvoiceRow
  <2>3. OwedRow(row)
    BY <2>2, OwedNat DEF OwedRow
  <2> QED BY <2>2, <2>3 DEF OwingJob, NewPayment
<1>2. CASE \E i, row : EditsInvoice(w, i, row)
  <2>1. PICK i, row : EditsInvoice(w, i, row)
    BY <1>2
  <2>2. /\ job'[w].step = "invoice_edit" /\ job'[w].row = row
        /\ row.total \in Nat /\ row.paid = 0 /\ i \in Invoices /\ Stands(invoices[i])
        /\ invoices[i].paid = 0
        /\ \/ row.balance = row.total
           \/ row.balance = invoices[i].balance /\ row.total = invoices[i].total
    BY <2>1 DEF EditsInvoice, EditedRow, InvoiceRow, Stands, Owes
  <2>3. Owed(row.total, 0) = row.total
    BY <2>2, OwedNat
  <2>4. OwedRow(row)
    BY <2>2, <2>3 DEF OwedRow, Owing
  <2> QED BY <2>2, <2>4 DEF OwingJob, NewPayment
<1>3. CASE EditInvoiceSave(w)
  <2>1. /\ job[w].step = "invoice_edit" /\ job'[w].step = "invoice_booking"
        /\ job'[w].row = job[w].row
    BY <1>0, <1>3, SavesEdit
  <2> QED BY <1>w, <2>1 DEF OwingJob, Writes, NewPayment
<1>4. CASE VoidLoad(w) \/ VoidSave(w)
  <2>1. job'[w].step \in {"invoice_void", "void_booking"}
    BY <1>0, <1>4, VoidsInvoice, SavesVoid
  <2> QED BY <2>1 DEF OwingJob, Writes, NewPayment
<1>5. CASE \E p, i, row : PaysInvoice(w, p, i, row)
  <2>1. PICK p, i, row : PaysInvoice(w, p, i, row)
    BY <1>5
  <2>2. job'[w].step = "payment" /\ job'[w].row.invoice = i /\ job'[w].total = invoices[i].total
    BY <2>1 DEF PaysInvoice
  <2> QED BY <2>2 DEF OwingJob, Writes
<1>6. CASE \E p, row : InsertsPayment(w, p, row)
  <2>1. /\ job[w].step = "payment" /\ job'[w].step = "payment_inserted"
        /\ job'[w].row.invoice = job[w].row.invoice /\ job'[w].total = job[w].total
    BY <1>6 DEF InsertsPayment
  <2> QED BY <1>w, <2>1 DEF OwingJob, Writes, NewPayment
<1>7. CASE \E i, paid, owed : SavesPayment(w, i, paid, owed)
  <2>1. PICK i, paid, owed : SavesPayment(w, i, paid, owed)
    BY <1>7
  <2>2. /\ job[w].step = "payment_inserted" /\ job'[w].step = "payment_booking"
        /\ job'[w].row = job[w].row /\ i = job[w].row.invoice /\ IsThere(i)
        /\ owed = Owed(job[w].total, paid) /\ job'[w].counted = <<paid, owed>>
    BY <2>1 DEF SavesPayment
  <2>3. invoices[i].total = job[w].total
    BY <1>w, <2>2 DEF OwingJob, NewPayment, IsThere
  <2>4. job'[w].counted[1] = paid /\ job'[w].counted[2] = owed
    BY <2>2
  <2> QED BY <2>2, <2>3, <2>4 DEF OwingJob, Writes, NewPayment
<1> QED BY <1>1, <1>2, <1>3, <1>4, <1>5, <1>6, <1>7 DEF Asks

\* No other request pays the invoice that a request writes, where amounts add up.
LEMMA WritesUnpaid ==
  ASSUME Typed, Keys, NEW w \in Workers, Alone(w), Owes, job[w].step \in Writes,
         NEW v \in Others(w)
  PROVE  /\ job[v].step \in NewPayment => job[v].row.invoice # job[w].document
         /\ job[v].step = "payment_booking" /\ job[v].counted # <<>> =>
              job[v].row.invoice # job[w].document
<1>0. v \in Workers /\ v # w /\ Jobs
  BY DEF Others, Typed
<1>1. CASE ~overlap
  <2>1. job[v].step = "idle"
    BY <1>1 DEF Alone, At
  <2> QED BY <2>1 DEF NewPayment
<1>2. CASE overlap
  <2>1. CASE "edit_invoice" \notin clients
    <3>1. NoEdits
      BY <1>2, <2>1 DEF NoEdits
    <3>2. KeyPair(job[w], job[v]) /\ KeyJob(job[w], invoices) /\ KeyJob(job[v], invoices)
      BY <1>0 DEF Keys
    <3> QED BY <3>1, <3>2 DEF KeyPair, KeyJob
  <2>2. CASE "create_payment" \notin clients
    BY <1>0, <2>2 DEF Jobs, JobShape, PaymentShape
  <2> QED BY <1>2, <2>1, <2>2 DEF Owes
<1> QED BY <1>1, <1>2

LEMMA OwingCommitted ==
  ASSUME Typed, Keys, Owing, NEW w \in Workers, Alone(w), Serves(w), Commits(w)
  PROVE  Owing'
<1>0. Jobs /\ InvoiceTypes
  BY DEF Typed
<1>d. \A v \in Workers : job[v].step \in NewPayment \union {"payment_booking"} =>
        job[v].row.invoice \in Invoices
  BY <1>0 DEF Jobs, JobShape, PaymentShape, Recording, ForPayment, NewPayment
<1>j. Owes => \A v \in Workers : OwingJob(job[v], invoices)
  BY DEF Owing
<1>r. Owes => \A i \in Invoices : Stands(invoices[i]) => OwedRow(invoices[i])
  BY DEF Owing
<1>1. ASSUME NEW i, NEW row, WritesInvoice(w, i, row) PROVE Owing'
  <2>1. /\ job'[w] = Idle /\ i = job[w].document /\ job[w].step \in Writes /\ row = job[w].row
        /\ \A x \in Invoices : invoices'[x] = IF x = i THEN row ELSE invoices[x]
    BY <1>1 DEF WritesInvoice, Writes
  <2>2. ASSUME Owes, NEW v \in Others(w) PROVE OwingJob(job[v], invoices')
    <3>1. v \in Workers
      BY DEF Others
    <3>2. /\ job[v].step \in NewPayment => job[v].row.invoice # i
          /\ job[v].step = "payment_booking" /\ job[v].counted # <<>> => job[v].row.invoice # i
      BY <2>1, <2>2, WritesUnpaid
    <3> QED BY <1>d, <1>j, <2>1, <2>2, <3>1, <3>2 DEF OwingJob
  <2>3. Owes => OwedRow(row)
    BY <1>j, <2>1 DEF OwingJob
  <2>4. Owes => \A x \in Invoices : Stands(invoices'[x]) => OwedRow(invoices'[x])
    BY <1>r, <2>1, <2>3
  <2> QED BY <2>1, <2>2, <2>4, OwingCommit
<1>2. ASSUME NEW i, VoidsRow(w, i) PROVE Owing'
  <2>1. /\ job'[w] = Idle /\ invoices'[i].status = "VOID" /\ job[w].step = "void_booking"
        /\ i = job[w].document /\ invoices'[i].total = invoices[i].total
        /\ \A x \in Invoices \ {i} : invoices'[x] = invoices[x]
    BY <1>2 DEF VoidsRow
  <2>2. invoices[i].status # "ABSENT"
    BY <2>1 DEF Keys, KeyJob
  <2>3. ASSUME Owes, NEW v \in Others(w) PROVE OwingJob(job[v], invoices')
    <3>1. v \in Workers
      BY DEF Others
    <3> QED BY <1>d, <1>j, <2>1, <2>2, <2>3, <3>1 DEF OwingJob
  <2>4. Owes => \A x \in Invoices : Stands(invoices'[x]) => OwedRow(invoices'[x])
    BY <1>r, <2>1 DEF Stands
  <2> QED BY <2>1, <2>3, <2>4, OwingCommit
<1>3. ASSUME NEW i, DeletesInvoice(w, i) PROVE Owing'
  <2>1. /\ job'[w] = Idle /\ RowFree(w, i)
        /\ \A x \in Invoices : invoices'[x] = IF x = i THEN NoInvoice ELSE invoices[x]
    BY <1>3 DEF DeletesInvoice
  <2>2. NoInvoice.status = "ABSENT"
    BY DEF NoInvoice
  <2>3. ASSUME Owes, NEW v \in Others(w) PROVE OwingJob(job[v], invoices')
    <3>1. v \in Workers
      BY DEF Others
    <3>2. job[v].step = "payment_booking" /\ job[v].counted # <<>> => job[v].row.invoice # i
      <4>1. job[v].step = "payment_booking" /\ job[v].counted # <<>> => job[v].invoice = job[v].row.invoice
        BY <1>0, <3>1 DEF Jobs, JobShape, PaymentShape
      <4> QED BY <2>1, <4>1 DEF RowFree
    <3> QED BY <1>d, <1>j, <2>1, <2>2, <2>3, <3>1, <3>2 DEF OwingJob
  <2>4. Owes => \A x \in Invoices : Stands(invoices'[x]) => OwedRow(invoices'[x])
    BY <1>r, <2>1, <2>2 DEF Stands
  <2> QED BY <2>1, <2>3, <2>4, OwingCommit
<1>4. ASSUME NEW p, NEW row, RecordsPending(w, p, row) \/ RewritesPayment(w, p, row) PROVE Owing'
  <2>1. job'[w] = Idle /\ UNCHANGED invoices
    BY <1>4 DEF RecordsPending, RewritesPayment
  <2>2. Owes => \A v \in Others(w) : OwingJob(job[v], invoices')
    BY <1>j, <2>1 DEF Others
  <2>3. Owes => \A x \in Invoices : Stands(invoices'[x]) => OwedRow(invoices'[x])
    BY <1>r, <2>1
  <2> QED BY <2>1, <2>2, <2>3, OwingCommit
<1>5. ASSUME NEW p, NEW row, NEW i, NEW paid, NEW owed, RecordsPaid(w, p, row, i, paid, owed)
      PROVE  Owing'
  <2>1. /\ job'[w] = Idle /\ row.invoice = i /\ row = job[w].row /\ IsThere(i)
        /\ job[w].step = "payment_booking" /\ job[w].counted = <<paid, owed>>
        /\ job[w].counted # <<>>
        /\ invoices'[i].total = invoices[i].total /\ invoices'[i].paid = paid
        /\ invoices'[i].balance = owed
        /\ \A x \in Invoices \ {i} : invoices'[x] = invoices[x]
    BY <1>5 DEF RecordsPaid
  <2>2. job[w].counted[1] = paid /\ job[w].counted[2] = owed
    BY <2>1
  <2>3. Owes => owed = Owed(invoices[i].total, paid)
    BY <1>j, <2>1, <2>2 DEF OwingJob
  <2>4. ASSUME Owes, NEW v \in Others(w) PROVE OwingJob(job[v], invoices')
    <3>1. v \in Workers
      BY DEF Others
    <3> QED BY <1>d, <1>j, <2>1, <2>4, <3>1 DEF OwingJob, IsThere
  <2>5. Owes => \A x \in Invoices : Stands(invoices'[x]) => OwedRow(invoices'[x])
    BY <1>r, <2>1, <2>3 DEF OwedRow
  <2> QED BY <2>1, <2>4, <2>5, OwingCommit
<1> QED BY <1>1, <1>2, <1>3, <1>4, <1>5 DEF Commits

LEMMA WorkOwing ==
  ASSUME Typed, Matched, Keys, Owing, NEW w \in Workers, Work(w)
  PROVE  Owing'
BY WorkTyped, WorkAlone, MoneySteps, OwingElsewhere, OwingAsked, OwingCommitted

LEMMA NothingOwing ==
  ASSUME Owing, UNCHANGED allVars
  PROVE  Owing'
BY DEF Owing, OwingJob, Owes, OwedRow, Stands, allVars, vars

LEMMA InitOwing == AllInit => Owing
<1> SUFFICES ASSUME AllInit PROVE Owing
  OBVIOUS
<1>1. \A w \in Workers : job[w] = Idle
  BY DEF AllInit, Init, SellingInit
<1>2. \A i \in Invoices : ~Stands(invoices[i])
  BY DEF AllInit, Init, Stands, NoInvoice
<1> QED BY <1>1, <1>2 DEF Owing, OwingJob, Idle, Writes, NewPayment

----
(* What has been paid. *)

\* What the PAID payments among these rows bring to invoice i; the next number.
CountedFor(rows, i) ==
  SumFunctionOnSet([p \in Payments |-> rows[p].amount],
                   {p \in Payments : rows[p].invoice = i /\ rows[p].status = "PAID"})
NumberOf(rows) == Cardinality({p \in Payments : rows[p].status # "ABSENT"}) + 1

LEMMA PaidIsCounted ==
  /\ NextNumber = NumberOf(payments)
  /\ \A i : PaidAmount(i) = CountedFor(payments, i)
BY DEF NextNumber, NumberOf, Recorded, PaidAmount, CountedFor

\* Row p is written, and counts for invoice i neither before nor after.
LEMMA CountedSame ==
  ASSUME NEW rows, NEW later, NEW p \in Payments, NEW row, NEW i,
         \A x \in Payments : later[x] = IF x = p THEN row ELSE rows[x],
         ~(rows[p].invoice = i /\ rows[p].status = "PAID"),
         ~(row.invoice = i /\ row.status = "PAID")
  PROVE  CountedFor(later, i) = CountedFor(rows, i)
<1> DEFINE S == {x \in Payments : rows[x].invoice = i /\ rows[x].status = "PAID"}
           T == {x \in Payments : later[x].invoice = i /\ later[x].status = "PAID"}
           f == [x \in Payments |-> rows[x].amount]
           g == [x \in Payments |-> later[x].amount]
<1>1. S = T /\ S \subseteq Payments /\ p \notin S
  OBVIOUS
<1>2. IsFiniteSet(S)
  BY <1>1, SalesAssumption, FS_Subset
<1>3. \A x \in S : f[x] = g[x]
  BY <1>1
<1>4. SumFunctionOnSet(f, S) = SumFunctionOnSet(g, S)
  <2> HIDE DEF S, f, g
  <2> QED BY <1>2, <1>3, SumSame
<1> QED BY <1>1, <1>4 DEF CountedFor

\* Row p is written, and counts for invoice i from now on.
LEMMA CountedMore ==
  ASSUME NEW rows \in [Payments -> PaymentRow], NEW later, NEW p \in Payments,
         NEW row \in PaymentRow, NEW i,
         \A x \in Payments : later[x] = IF x = p THEN row ELSE rows[x],
         rows[p].status # "PAID", row.invoice = i, row.status = "PAID"
  PROVE  CountedFor(later, i) = CountedFor(rows, i) + row.amount
<1> DEFINE S == {x \in Payments : rows[x].invoice = i /\ rows[x].status = "PAID"}
           T == {x \in Payments : later[x].invoice = i /\ later[x].status = "PAID"}
           f == [x \in Payments |-> rows[x].amount]
           g == [x \in Payments |-> later[x].amount]
<1>1. T = S \union {p} /\ S \subseteq Payments /\ p \notin S
  OBVIOUS
<1>2. IsFiniteSet(S)
  BY <1>1, SalesAssumption, FS_Subset
<1>3. (\A x \in S : f[x] = g[x] /\ f[x] \in Int) /\ g[p] = row.amount /\ row.amount \in Int
  BY <1>1 DEF PaymentRow
<1>4. \A x \in S \union {p} : g[x] \in Int
  BY <1>3
<1>5. SumFunctionOnSet(f, S) \in Int
  <2> HIDE DEF S, f, g
  <2> QED BY <1>2, <1>3, SumInt
<1>6. SumFunctionOnSet(g, S \union {p}) = row.amount + SumFunctionOnSet(f, S)
  <2> HIDE DEF S, f, g
  <2>1. SumFunctionOnSet(g, S \union {p}) = g[p] + SumFunctionOnSet(g, S)
    BY <1>1, <1>2, <1>4, SumAdd
  <2>2. SumFunctionOnSet(f, S) = SumFunctionOnSet(g, S)
    BY <1>2, <1>3, SumSame
  <2> QED BY <1>3, <2>1, <2>2
<1>7. CountedFor(later, i) = SumFunctionOnSet(g, T) /\ CountedFor(rows, i) = SumFunctionOnSet(f, S)
  BY DEF CountedFor
<1> HIDE DEF S, T, f, g
<1> QED BY <1>1, <1>3, <1>5, <1>6, <1>7

\* Nothing was paid of an invoice that is not there.
LEMMA CountedNone ==
  ASSUME Keys, NEW i \in Invoices, ~IsThere(i)
  PROVE  CountedFor(payments, i) = 0
<1>1. {p \in Payments : payments[p].invoice = i /\ payments[p].status = "PAID"} = {}
  BY DEF Keys, Recorded
<1> QED BY <1>1, SumEmpty DEF CountedFor

\* Payments are counted when they are made, and no edit of an invoice is stale.
Counts ==
  /\ clients \intersect {"edit_payment", "delete_payment", "set_paid"} = {}
  /\ ~overlap \/ "edit_invoice" \notin clients

CountingJob(j, rows) ==
  /\ ~overlap /\ j.step \in Writes => CountedFor(rows, j.document) = 0
  /\ j.step \in Inserting => rows[j.document].status = "ABSENT" /\ j.row.number = NumberOf(rows)
  /\ j.step = "payment_inserted" =>
       j.paid = CountedFor(rows, j.row.invoice) + (IF j.row.status = "PAID" THEN j.row.amount ELSE 0)
  /\ j.step = "payment_booking" =>
       j.counted[1] = CountedFor(rows, j.row.invoice) + j.row.amount

\* The unique number keeps two payments from being inserted at once, so that the one
\* that is knows what all the others have brought; and an invoice shows just that.
Counting ==
  Counts =>
    /\ \A w \in Workers : CountingJob(job[w], payments)
    /\ \A w, v \in Workers : w # v /\ job[w].step \in Inserting => job[v].step \notin Inserting
    /\ \A i \in Invoices : IsThere(i) => invoices[i].paid = CountedFor(payments, i)

LEMMA CountingMove ==
  ASSUME Counting, NEW w \in Workers, Serves(w), UNCHANGED <<invoices, payments>>,
         Counts => /\ CountingJob(job'[w], payments)
                   /\ job'[w].step \in Inserting => \A v \in Others(w) : job[v].step \notin Inserting
  PROVE  Counting'
<1>0. (Counts' <=> Counts) /\ UNCHANGED overlap
  BY DEF Serves, Counts
<1>1. Counts => \A v \in Workers : CountingJob(job'[v], payments)
  BY DEF Counting, Serves, Others
<1>2. Counts => \A v \in Workers : CountingJob(job[v], payments)'
  BY <1>0, <1>1 DEF CountingJob, CountedFor, NumberOf
<1>3. Counts => \A u, v \in Workers : u # v /\ job'[u].step \in Inserting => job'[v].step \notin Inserting
  BY DEF Counting, Serves, Others
<1>4. Counts => \A i \in Invoices : (IsThere(i) => invoices[i].paid = CountedFor(payments, i))'
  BY DEF Counting, IsThere, CountedFor
<1> QED BY <1>0, <1>2, <1>3, <1>4 DEF Counting

LEMMA CountingCommit ==
  ASSUME Counting, NEW w \in Workers, Serves(w), job'[w] = Idle,
         Counts => /\ \A v \in Others(w) : CountingJob(job[v], payments')
                   /\ \A i \in Invoices : invoices'[i].status # "ABSENT" =>
                                            invoices'[i].paid = CountedFor(payments', i)
  PROVE  Counting'
<1>0. (Counts' <=> Counts) /\ UNCHANGED overlap
  BY DEF Serves, Counts
<1>i. CountingJob(Idle, payments') /\ Idle.step \notin Inserting
  BY DEF CountingJob, Idle, Writes, Inserting
<1>1. Counts => \A v \in Workers : CountingJob(job'[v], payments')
  BY <1>i DEF Serves, Others
<1>2. Counts => \A v \in Workers : CountingJob(job[v], payments)'
  BY <1>0, <1>1 DEF CountingJob, CountedFor, NumberOf
<1>3. Counts => \A u, v \in Workers : u # v /\ job'[u].step \in Inserting => job'[v].step \notin Inserting
  BY <1>i DEF Counting, Serves, Others
<1>4. Counts => \A i \in Invoices : (IsThere(i) => invoices[i].paid = CountedFor(payments, i))'
  BY DEF IsThere, CountedFor
<1> QED BY <1>0, <1>2, <1>3, <1>4 DEF Counting

LEMMA CountingElsewhere ==
  ASSUME Counting, NEW w \in Workers, Serves(w), Elsewhere(w)
  PROVE  Counting'
<1>0. UNCHANGED <<invoices, payments>>
  BY DEF Elsewhere
<1>1. CASE job'[w] = job[w]
  <2>1. Counts => /\ CountingJob(job'[w], payments)
                  /\ job'[w].step \in Inserting => \A v \in Others(w) : job[v].step \notin Inserting
    BY <1>1 DEF Counting, Others
  <2> QED BY <1>0, <2>1, CountingMove
<1>2. CASE job'[w] # job[w]
  <2>1. Counts => job'[w].step \notin Writes \union Inserting
    BY <1>2 DEF Elsewhere, Counts
  <2>2. Counts => CountingJob(job'[w], payments)
    BY <2>1 DEF CountingJob, Inserting
  <2> QED BY <1>0, <2>1, <2>2, CountingMove
<1> QED BY <1>1, <1>2

LEMMA CountingAsked ==
  ASSUME Typed, Sound, Keys, Counting, NEW w \in Workers, Serves(w), Asks(w)
  PROVE  Counting'
<1>0. UNCHANGED <<invoices, payments>> /\ Jobs /\ InvoiceTypes
  BY DEF Asks, Typed
<1> SUFFICES ASSUME Counts
             PROVE  /\ CountingJob(job'[w], payments)
                    /\ job'[w].step \in Inserting => \A v \in Others(w) : job[v].step \notin Inserting
  BY <1>0, CountingMove
<1>w. /\ \A v \in Workers : CountingJob(job[v], payments)
      /\ \A u, v \in Workers : u # v /\ job[u].step \in Inserting => job[v].step \notin Inserting
      /\ \A i \in Invoices : IsThere(i) => invoices[i].paid = CountedFor(payments, i)
  BY DEF Counting
<1>1. CASE \E i, row : NewInvoice(w, i, row)
  <2>1. PICK i, row : NewInvoice(w, i, row)
    BY <1>1
  <2>2. /\ job'[w].step \in {"invoice_booking", "convert"} /\ job'[w].document = i
        /\ i \in Invoices /\ ~IsThere(i)
    BY <2>1 DEF NewInvoice
  <2>3. CountedFor(payments, i) = 0
    BY <2>2, CountedNone
  <2> QED BY <2>2, <2>3 DEF CountingJob, Inserting
<1>2. CASE \E i, row : EditsInvoice(w, i, row)
  <2>1. PICK i, row : EditsInvoice(w, i, row)
    BY <1>2
  <2>2. /\ job'[w].step = "invoice_edit" /\ job'[w].document = i
        /\ i \in Invoices /\ IsThere(i) /\ invoices[i].paid = 0
    BY <2>1 DEF EditsInvoice, EditedRow
  <2>3. CountedFor(payments, i) = 0
    BY <1>w, <2>2
  <2> QED BY <2>2, <2>3 DEF CountingJob, Inserting
<1>3. CASE EditInvoiceSave(w)
  <2>1. /\ job[w].step = "invoice_edit" /\ job'[w].step = "invoice_booking"
        /\ job'[w].document = job[w].document
    BY <1>0, <1>3, SavesEdit
  <2> QED BY <1>w, <2>1 DEF CountingJob, Writes, Inserting
<1>4. CASE VoidLoad(w) \/ VoidSave(w)
  <2>1. job'[w].step \in {"invoice_void", "void_booking"}
    BY <1>0, <1>4, VoidsInvoice, SavesVoid
  <2> QED BY <2>1 DEF CountingJob, Writes, Inserting
<1>5. CASE \E p, i, row : PaysInvoice(w, p, i, row)
  <2>1. job'[w].step = "payment"
    BY <1>5 DEF PaysInvoice
  <2> QED BY <2>1 DEF CountingJob, Writes, Inserting
<1>6. CASE \E p, row : InsertsPayment(w, p, row)
  <2>1. PICK p, row : InsertsPayment(w, p, row)
    BY <1>6
  <2>2. /\ job[w].step = "payment" /\ job'[w].step = "payment_inserted"
        /\ job[w].document = p /\ job'[w].document = p /\ job'[w].row = row
        /\ row.number = NextNumber
        /\ job'[w].paid = PaidAmount(row.invoice) + (IF row.status = "PAID" THEN row.amount ELSE 0)
        /\ \A v \in Others(w) : ~(job[v].step \in Inserting /\ job[v].row.number = NextNumber)
    BY <2>1 DEF InsertsPayment
  <2>3. payments[p].status = "ABSENT"
    BY <2>2 DEF Sound, BookedAlone, NewPayment
  <2>4. \A v \in Others(w) : job[v].step \notin Inserting
    BY <1>w, <2>2, PaidIsCounted DEF CountingJob, Others
  <2> QED BY <2>2, <2>3, <2>4, PaidIsCounted DEF CountingJob, Writes
<1>7. CASE \E i, paid, owed : SavesPayment(w, i, paid, owed)
  <2>1. PICK i, paid, owed : SavesPayment(w, i, paid, owed)
    BY <1>7
  <2>2. /\ job[w].step = "payment_inserted" /\ job'[w].step = "payment_booking"
        /\ job'[w].document = job[w].document /\ job'[w].row = job[w].row
        /\ job[w].row.status = "PAID" /\ paid = job[w].paid /\ job'[w].counted = <<paid, owed>>
    BY <2>1 DEF SavesPayment
  <2>3. job'[w].counted[1] = paid /\ job[w].step \in Inserting
    BY <2>2 DEF Inserting
  <2>4. CountingJob(job'[w], payments)
    BY <1>w, <2>2, <2>3 DEF CountingJob, Writes, Inserting
  <2> QED BY <1>w, <2>3, <2>4 DEF Others
<1> QED BY <1>1, <1>2, <1>3, <1>4, <1>5, <1>6, <1>7 DEF Asks

\* No other request looks at payments when one is recorded.
LEMMA CountedByOne ==
  ASSUME Counting, Counts, NEW w \in Workers, Alone(w), job[w].step \in Inserting,
         NEW v \in Others(w), NEW rows
  PROVE  CountingJob(job[v], rows)
<1>1. job[v].step \notin Inserting
  BY DEF Counting, Others
<1>2. CASE ~overlap
  <2>1. job[v].step = "idle"
    BY <1>2 DEF Alone, At
  <2> QED BY <2>1 DEF CountingJob, Writes, Inserting
<1> QED BY <1>1, <1>2 DEF CountingJob, Inserting

LEMMA CountingCommitted ==
  ASSUME Typed, Keys, Counting, NEW w \in Workers, Alone(w), Serves(w), Commits(w)
  PROVE  Counting'
<1>0. Jobs /\ InvoiceTypes /\ PaymentTypes
  BY DEF Typed
<1>w. Counts => /\ \A v \in Workers : CountingJob(job[v], payments)
                /\ \A i \in Invoices : IsThere(i) => invoices[i].paid = CountedFor(payments, i)
  BY DEF Counting
<1>1. ASSUME NEW i, NEW row, WritesInvoice(w, i, row) PROVE Counting'
  <2>1. /\ job'[w] = Idle /\ i = job[w].document /\ i \in Invoices
        /\ job[w].step \in {"invoice_booking", "convert"} /\ row = job[w].row
        /\ UNCHANGED payments
        /\ \A x \in Invoices : invoices'[x] = IF x = i THEN row ELSE invoices[x]
    BY <1>1 DEF WritesInvoice
  <2>2. Counts => row.paid = 0
    BY <1>0, <2>1 DEF Jobs, JobShape, InvoiceShape, Counts
  <2>3. ASSUME Counts PROVE CountedFor(payments, i) = 0
    <3>1. CASE ~overlap
      BY <1>w, <2>1, <2>3, <3>1 DEF CountingJob, Writes
    <3>2. CASE overlap
      <4>1. ~IsThere(i)
        BY <2>1, <2>3, <3>2 DEF Counts, NoEdits, Keys, KeyJob, Writes, IsThere
      <4> QED BY <2>1, <4>1, CountedNone
    <3> QED BY <3>1, <3>2
  <2>4. Counts => /\ \A v \in Others(w) : CountingJob(job[v], payments')
                  /\ \A x \in Invoices : invoices'[x].status # "ABSENT" =>
                                           invoices'[x].paid = CountedFor(payments', x)
    BY <1>w, <2>1, <2>2, <2>3 DEF Others, IsThere
  <2> QED BY <2>1, <2>4, CountingCommit
<1>2. ASSUME NEW i, VoidsRow(w, i) PROVE Counting'
  <2>1. /\ job'[w] = Idle /\ job[w].step = "void_booking" /\ i = job[w].document
        /\ invoices'[i].paid = invoices[i].paid /\ UNCHANGED payments
        /\ \A x \in Invoices \ {i} : invoices'[x] = invoices[x]
    BY <1>2 DEF VoidsRow
  <2>2. IsThere(i)
    BY <2>1 DEF Keys, KeyJob, IsThere
  <2>3. Counts => /\ \A v \in Others(w) : CountingJob(job[v], payments')
                  /\ \A x \in Invoices : invoices'[x].status # "ABSENT" =>
                                           invoices'[x].paid = CountedFor(payments', x)
    BY <1>w, <2>1, <2>2 DEF Others, IsThere
  <2> QED BY <2>1, <2>3, CountingCommit
<1>3. ASSUME NEW i, DeletesInvoice(w, i) PROVE Counting'
  <2>1. /\ job'[w] = Idle /\ UNCHANGED payments
        /\ \A x \in Invoices : invoices'[x] = IF x = i THEN NoInvoice ELSE invoices[x]
    BY <1>3 DEF DeletesInvoice
  <2>2. NoInvoice.status = "ABSENT"
    BY DEF NoInvoice
  <2>3. Counts => /\ \A v \in Others(w) : CountingJob(job[v], payments')
                  /\ \A x \in Invoices : invoices'[x].status # "ABSENT" =>
                                           invoices'[x].paid = CountedFor(payments', x)
    BY <1>w, <2>1, <2>2 DEF Others, IsThere
  <2> QED BY <2>1, <2>3, CountingCommit
<1>4. ASSUME NEW p, NEW row, RecordsPending(w, p, row) PROVE Counting'
  <2>1. /\ job'[w] = Idle /\ UNCHANGED invoices /\ p \in Payments
        /\ job[w].step \in Inserting /\ p = job[w].document /\ row.status = "PENDING"
        /\ \A x \in Payments : payments'[x] = IF x = p THEN row ELSE payments[x]
    BY <1>4 DEF RecordsPending, Inserting
  <2>2. Counts => payments[p].status = "ABSENT"
    BY <1>w, <2>1 DEF CountingJob
  <2>3. ASSUME Counts, NEW i PROVE CountedFor(payments', i) = CountedFor(payments, i)
    <3>1. payments[p].status # "PAID" /\ row.status # "PAID"
      BY <2>1, <2>2, <2>3
    <3> QED BY <2>1, <3>1, CountedSame
  <2>4. Counts => /\ \A v \in Others(w) : CountingJob(job[v], payments')
                  /\ \A x \in Invoices : invoices'[x].status # "ABSENT" =>
                                           invoices'[x].paid = CountedFor(payments', x)
    BY <1>w, <2>1, <2>3, CountedByOne DEF IsThere
  <2> QED BY <2>1, <2>4, CountingCommit
<1>5. ASSUME NEW p, NEW row, RewritesPayment(w, p, row) PROVE Counting'
  <2>1. ~Counts /\ job'[w] = Idle
    BY <1>5 DEF RewritesPayment, Counts
  <2> QED BY <2>1, CountingCommit
<1>6. ASSUME NEW p, NEW row, NEW i, NEW paid, NEW owed, RecordsPaid(w, p, row, i, paid, owed)
      PROVE  Counting'
  <2>1. /\ job'[w] = Idle /\ p \in Payments /\ row = job[w].row /\ row \in PaymentRow
        /\ job[w].step = "payment_booking" /\ p = job[w].document
        /\ row.status = "PAID" /\ row.invoice = i /\ i \in Invoices
        /\ job[w].counted = <<paid, owed>> /\ invoices'[i].paid = paid
        /\ (\A x \in Payments : payments'[x] = IF x = p THEN row ELSE payments[x])
        /\ \A x \in Invoices \ {i} : invoices'[x] = invoices[x]
    BY <1>6 DEF RecordsPaid, Recording
  <2>2. job[w].step \in Inserting /\ job[w].counted[1] = paid
    BY <2>1 DEF Inserting
  <2>3. Counts => payments[p].status = "ABSENT" /\ paid = CountedFor(payments, i) + row.amount
    BY <1>w, <2>1, <2>2 DEF CountingJob
  <2>4. ASSUME Counts PROVE paid = CountedFor(payments', i)
    <3>1. CountedFor(payments', i) = CountedFor(payments, i) + row.amount
      <4>1. payments \in [Payments -> PaymentRow] /\ payments[p].status # "PAID"
        BY <1>0, <2>3, <2>4 DEF PaymentTypes
      <4>2. /\ p \in Payments /\ row \in PaymentRow /\ row.invoice = i /\ row.status = "PAID"
            /\ \A x \in Payments : payments'[x] = IF x = p THEN row ELSE payments[x]
        BY <2>1
      <4> QED BY <4>1, <4>2, CountedMore
    <3> QED BY <2>3, <2>4, <3>1
  <2>5. ASSUME Counts, NEW x \in Invoices \ {i} PROVE CountedFor(payments', x) = CountedFor(payments, x)
    <3>1. payments[p].status # "PAID" /\ row.invoice # x
      BY <2>1, <2>3, <2>5
    <3> QED BY <2>1, <3>1, CountedSame
  <2>6. Counts => \A v \in Others(w) : CountingJob(job[v], payments')
    BY <2>2, CountedByOne
  <2>7. Counts => \A x \in Invoices : invoices'[x].status # "ABSENT" =>
                                        invoices'[x].paid = CountedFor(payments', x)
    BY <1>w, <2>1, <2>4, <2>5 DEF IsThere
  <2> QED BY <2>1, <2>6, <2>7, CountingCommit
<1> QED BY <1>1, <1>2, <1>3, <1>4, <1>5, <1>6 DEF Commits

LEMMA WorkCounting ==
  ASSUME Typed, Sound, Matched, Keys, Counting, NEW w \in Workers, Work(w)
  PROVE  Counting'
BY WorkTyped, WorkAlone, MoneySteps, CountingElsewhere, CountingAsked, CountingCommitted

LEMMA NothingCounting ==
  ASSUME Counting, UNCHANGED allVars
  PROVE  Counting'
BY DEF Counting, CountingJob, Counts, CountedFor, NumberOf, IsThere, allVars, vars

LEMMA InitCounting == AllInit => Counting
<1> SUFFICES ASSUME AllInit PROVE Counting
  OBVIOUS
<1>1. \A w \in Workers : job[w] = Idle
  BY DEF AllInit, Init, SellingInit
<1>2. \A i \in Invoices : ~IsThere(i)
  BY DEF AllInit, Init, IsThere, NoInvoice
<1> QED BY <1>1, <1>2 DEF Counting, CountingJob, Idle, Writes, Inserting

\* One at a time, where payments are counted when they are made.
Solo == ~overlap /\ Counts

SoloJob(j, rows) ==
  /\ j.step = "payment" =>
       /\ rows[j.row.invoice].status # "ABSENT"
       /\ rows[j.row.invoice].paid + j.row.amount <= rows[j.row.invoice].total
  /\ j.step = "payment_inserted" => j.paid <= rows[j.row.invoice].total
  /\ j.step = "payment_booking" => j.counted[1] <= rows[j.row.invoice].total
  /\ j.step \in {"invoice_void", "void_booking"} => rows[j.document].paid = 0

\* Then no more is paid of an invoice than its total, and nothing of a void one.
Covered ==
  Solo =>
    /\ \A w \in Workers : SoloJob(job[w], invoices)
    /\ \A i \in Invoices : /\ invoices[i].paid <= invoices[i].total
                           /\ invoices[i].status = "VOID" => invoices[i].paid = 0

LEMMA CoveredMove ==
  ASSUME Covered, NEW w \in Workers, Serves(w), UNCHANGED invoices,
         Solo => SoloJob(job'[w], invoices)
  PROVE  Covered'
<1>0. Solo' <=> Solo
  BY DEF Serves, Solo, Counts
<1>1. Solo => \A v \in Workers : SoloJob(job'[v], invoices)
  BY DEF Covered, Serves, Others
<1>2. Solo => \A v \in Workers : SoloJob(job[v], invoices)'
  BY <1>1 DEF SoloJob
<1> QED BY <1>0, <1>2 DEF Covered

LEMMA CoveredCommit ==
  ASSUME Covered, NEW w \in Workers, Alone(w), Serves(w), job'[w] = Idle,
         Solo => \A i \in Invoices : /\ invoices'[i].paid <= invoices'[i].total
                                     /\ invoices'[i].status = "VOID" => invoices'[i].paid = 0
  PROVE  Covered'
<1>0. Solo' <=> Solo
  BY DEF Serves, Solo, Counts
<1>1. Solo => \A v \in Workers : job'[v].step = "idle"
  BY DEF Serves, Others, Alone, Solo, At, Idle
<1>2. Solo => \A v \in Workers : SoloJob(job[v], invoices)'
  BY <1>1 DEF SoloJob
<1> QED BY <1>0, <1>2 DEF Covered

LEMMA CoveredElsewhere ==
  ASSUME Covered, NEW w \in Workers, Serves(w), Elsewhere(w)
  PROVE  Covered'
<1>0. UNCHANGED invoices
  BY DEF Elsewhere
<1>1. CASE job'[w] = job[w]
  BY <1>0, <1>1, CoveredMove DEF Covered
<1>2. CASE job'[w] # job[w]
  <2>1. Solo => job'[w].step \notin Inserting \union {"payment", "void_booking", "invoice_void"}
    BY <1>2 DEF Elsewhere, Solo, Counts
  <2>2. Solo => SoloJob(job'[w], invoices)
    BY <2>1 DEF SoloJob, Inserting
  <2> QED BY <1>0, <2>2, CoveredMove
<1> QED BY <1>1, <1>2

LEMMA CoveredAsked ==
  ASSUME Typed, Counting, Owing, Covered, NEW w \in Workers, Serves(w), Asks(w)
  PROVE  Covered'
<1>0. UNCHANGED <<invoices, payments>> /\ Jobs /\ InvoiceTypes
  BY DEF Asks, Typed
<1> SUFFICES ASSUME Solo PROVE SoloJob(job'[w], invoices)
  BY <1>0, CoveredMove
<1>w. /\ \A v \in Workers : SoloJob(job[v], invoices)
      /\ \A i \in Invoices : invoices[i].paid <= invoices[i].total
      /\ \A i \in Invoices : IsThere(i) => invoices[i].paid = CountedFor(payments, i)
      /\ \A i \in Invoices : Stands(invoices[i]) => OwedRow(invoices[i])
  BY DEF Covered, Counting, Owing, Owes, Solo, Counts
<1>1. CASE \E i, row : NewInvoice(w, i, row) \/ EditsInvoice(w, i, row)
  <2>1. job'[w].step \in Writes
    BY <1>1 DEF NewInvoice, EditsInvoice, EditedRow, Writes
  <2> QED BY <2>1 DEF SoloJob, Writes
<1>3. CASE EditInvoiceSave(w)
  <2>1. job'[w].step = "invoice_booking"
    BY <1>0, <1>3, SavesEdit
  <2> QED BY <2>1 DEF SoloJob
<1>4. CASE VoidLoad(w)
  <2>1. job'[w].step = "invoice_void" /\ invoices[job'[w].document].paid = 0
    BY <1>0, <1>4, VoidsInvoice
  <2> QED BY <2>1 DEF SoloJob
<1>5. CASE VoidSave(w)
  <2>1. /\ job[w].step = "invoice_void" /\ job'[w].step = "void_booking"
        /\ job'[w].document = job[w].document
    BY <1>0, <1>5, SavesVoid
  <2> QED BY <1>w, <2>1 DEF SoloJob
<1>6. CASE \E p, i, row : PaysInvoice(w, p, i, row)
  <2>1. PICK p, i, row : PaysInvoice(w, p, i, row)
    BY <1>6
  <2>2. /\ job'[w].step = "payment" /\ job'[w].row = row /\ row.invoice = i /\ i \in Invoices
        /\ Stands(invoices[i]) /\ row.amount <= invoices[i].balance /\ row.amount \in Nat
    BY <2>1 DEF PaysInvoice, Payable, Stands, Recording, PaymentRow
  <2>3. invoices[i].total \in Nat /\ invoices[i].paid \in Nat
    BY <1>0, <2>2 DEF InvoiceTypes, InvoiceRow
  <2>4. invoices[i].balance = invoices[i].total - invoices[i].paid
    <3>1. invoices[i].balance = Owed(invoices[i].total, invoices[i].paid)
      BY <1>w, <2>2 DEF OwedRow
    <3>2. invoices[i].paid <= invoices[i].total
      BY <1>w, <2>2
    <3> QED BY <2>3, <3>1, <3>2, OwedNat
  <2>5. invoices[i].paid + row.amount <= invoices[i].total
    BY <2>2, <2>3, <2>4
  <2> QED BY <2>2, <2>5 DEF SoloJob, Stands
<1>7. CASE \E p, row : InsertsPayment(w, p, row)
  <2>1. PICK p, row : InsertsPayment(w, p, row)
    BY <1>7
  <2>2. /\ job[w].step = "payment" /\ job'[w].step = "payment_inserted" /\ job'[w].row = row
        /\ row.invoice = job[w].row.invoice /\ row.amount = job[w].row.amount
        /\ row.invoice \in Invoices /\ row.amount \in Nat
        /\ job'[w].paid = PaidAmount(row.invoice) + (IF row.status = "PAID" THEN row.amount ELSE 0)
    BY <2>1 DEF InsertsPayment, Recording, PaymentRow
  <2>3. /\ IsThere(row.invoice)
        /\ invoices[row.invoice].paid + row.amount <= invoices[row.invoice].total
    BY <1>w, <2>2 DEF SoloJob, IsThere
  <2>4. PaidAmount(row.invoice) = invoices[row.invoice].paid
    BY <1>w, <2>2, <2>3, PaidIsCounted
  <2>5. invoices[row.invoice].paid \in Nat /\ invoices[row.invoice].total \in Nat
    BY <1>0, <2>2 DEF InvoiceTypes, InvoiceRow
  <2>6. job'[w].paid <= invoices[row.invoice].total
    BY <2>2, <2>3, <2>4, <2>5
  <2> QED BY <2>2, <2>6 DEF SoloJob
<1>8. CASE \E i, paid, owed : SavesPayment(w, i, paid, owed)
  <2>1. PICK i, paid, owed : SavesPayment(w, i, paid, owed)
    BY <1>8
  <2>2. /\ job[w].step = "payment_inserted" /\ job'[w].step = "payment_booking"
        /\ job'[w].row = job[w].row /\ paid = job[w].paid /\ job'[w].counted = <<paid, owed>>
    BY <2>1 DEF SavesPayment
  <2>3. job'[w].counted[1] = paid
    BY <2>2
  <2> QED BY <1>w, <2>2, <2>3 DEF SoloJob
<1> QED BY <1>1, <1>3, <1>4, <1>5, <1>6, <1>7, <1>8 DEF Asks

LEMMA CoveredCommitted ==
  ASSUME Typed, Covered, NEW w \in Workers, Alone(w), Serves(w), Commits(w)
  PROVE  Covered'
<1>0. Jobs /\ InvoiceTypes
  BY DEF Typed
<1>w. Solo => /\ \A v \in Workers : SoloJob(job[v], invoices)
              /\ \A i \in Invoices : /\ invoices[i].paid <= invoices[i].total
                                     /\ invoices[i].status = "VOID" => invoices[i].paid = 0
  BY DEF Covered
<1>1. ASSUME NEW i, NEW row, WritesInvoice(w, i, row) PROVE Covered'
  <2>1. /\ job'[w] = Idle /\ i = job[w].document /\ i \in Invoices
        /\ job[w].step \in {"invoice_booking", "convert"} /\ row = job[w].row
        /\ row \in InvoiceRow
        /\ \A x \in Invoices : invoices'[x] = IF x = i THEN row ELSE invoices[x]
    BY <1>1 DEF WritesInvoice
  <2>2. Solo => row.paid = 0 /\ row.total \in Nat
    BY <1>0, <2>1 DEF Jobs, JobShape, InvoiceShape, Solo, Counts, InvoiceRow
  <2>3. Solo => \A x \in Invoices : /\ invoices'[x].paid <= invoices'[x].total
                                    /\ invoices'[x].status = "VOID" => invoices'[x].paid = 0
    BY <1>w, <2>1, <2>2
  <2> QED BY <2>1, <2>3, CoveredCommit
<1>2. ASSUME NEW i, VoidsRow(w, i) PROVE Covered'
  <2>1. /\ job'[w] = Idle /\ job[w].step = "void_booking" /\ i = job[w].document
        /\ invoices'[i].paid = invoices[i].paid /\ invoices'[i].total = invoices[i].total
        /\ i \in Invoices /\ \A x \in Invoices \ {i} : invoices'[x] = invoices[x]
    BY <1>2 DEF VoidsRow
  <2>2. Solo => invoices[i].paid = 0
    BY <1>w, <2>1 DEF SoloJob
  <2>3. Solo => \A x \in Invoices : /\ invoices'[x].paid <= invoices'[x].total
                                    /\ invoices'[x].status = "VOID" => invoices'[x].paid = 0
    BY <1>w, <2>1, <2>2
  <2> QED BY <2>1, <2>3, CoveredCommit
<1>3. ASSUME NEW i, DeletesInvoice(w, i) PROVE Covered'
  <2>1. /\ job'[w] = Idle
        /\ \A x \in Invoices : invoices'[x] = IF x = i THEN NoInvoice ELSE invoices[x]
    BY <1>3 DEF DeletesInvoice
  <2>2. NoInvoice.paid = 0 /\ NoInvoice.total = 0
    BY DEF NoInvoice
  <2>3. Solo => \A x \in Invoices : /\ invoices'[x].paid <= invoices'[x].total
                                    /\ invoices'[x].status = "VOID" => invoices'[x].paid = 0
    BY <1>w, <2>1, <2>2
  <2> QED BY <2>1, <2>3, CoveredCommit
<1>4. ASSUME NEW p, NEW row, RecordsPending(w, p, row) \/ RewritesPayment(w, p, row) PROVE Covered'
  <2>1. job'[w] = Idle /\ UNCHANGED invoices
    BY <1>4 DEF RecordsPending, RewritesPayment
  <2> QED BY <1>w, <2>1, CoveredCommit
<1>6. ASSUME NEW p, NEW row, NEW i, NEW paid, NEW owed, RecordsPaid(w, p, row, i, paid, owed)
      PROVE  Covered'
  <2>1. /\ job'[w] = Idle /\ row = job[w].row /\ job[w].step = "payment_booking"
        /\ row.invoice = i /\ i \in Invoices /\ job[w].counted = <<paid, owed>>
        /\ invoices'[i].paid = paid /\ invoices'[i].total = invoices[i].total
        /\ invoices'[i].status = Settled(paid, owed)
        /\ \A x \in Invoices \ {i} : invoices'[x] = invoices[x]
    BY <1>6 DEF RecordsPaid
  <2>2. job[w].counted[1] = paid /\ invoices'[i].status # "VOID"
    BY <2>1, SettledKnown
  <2>3. Solo => paid <= invoices[i].total
    BY <1>w, <2>1, <2>2 DEF SoloJob
  <2>4. Solo => \A x \in Invoices : /\ invoices'[x].paid <= invoices'[x].total
                                    /\ invoices'[x].status = "VOID" => invoices'[x].paid = 0
    BY <1>w, <2>1, <2>2, <2>3
  <2> QED BY <2>1, <2>4, CoveredCommit
<1> QED BY <1>1, <1>2, <1>3, <1>4, <1>6 DEF Commits

LEMMA WorkCovered ==
  ASSUME Typed, Matched, Counting, Owing, Covered, NEW w \in Workers, Work(w)
  PROVE  Covered'
BY WorkTyped, WorkAlone, MoneySteps, CoveredElsewhere, CoveredAsked, CoveredCommitted

LEMMA NothingCovered ==
  ASSUME Covered, UNCHANGED allVars
  PROVE  Covered'
BY DEF Covered, SoloJob, Solo, Counts, allVars, vars

LEMMA InitCovered == AllInit => Covered
<1> SUFFICES ASSUME AllInit PROVE Covered
  OBVIOUS
<1>1. \A w \in Workers : job[w] = Idle
  BY DEF AllInit, Init, SellingInit
<1>2. \A i \in Invoices : /\ invoices[i].paid <= invoices[i].total
                          /\ invoices[i].status = "VOID" => invoices[i].paid = 0
  BY DEF AllInit, Init, NoInvoice
<1> QED BY <1>1, <1>2 DEF Covered, SoloJob, Idle

\* All that is known of invoices and payments.
Money == Typed /\ Sound /\ Matched /\ Keys /\ Owing /\ Counting /\ Covered

LEMMA InitMoney == AllInit => Money
BY InitTyped, InitSound, InitMatched, InitKeys, InitOwing, InitCounting, InitCovered DEF Money

LEMMA StepMoney == Money /\ [AllNext]_allVars => Money'
<1> SUFFICES ASSUME Money, [AllNext]_allVars PROVE Money'
  OBVIOUS
<1>1. Typed /\ Sound /\ Matched /\ Keys /\ Owing /\ Counting /\ Covered
  BY DEF Money
<1>2. Typed' /\ Sound' /\ Matched'
  BY <1>1, StepTyped, StepSound, StepMatched
<1>3. Keys' /\ Owing' /\ Counting' /\ Covered'
  <2>1. CASE AllNext
    <3>1. PICK w \in Workers : Work(w)
      BY <2>1, SomeWork
    <3> QED BY <1>1, <3>1, WorkKeys, WorkOwing, WorkCounting, WorkCovered
  <2>2. CASE UNCHANGED allVars
    BY <1>1, <2>2, NothingKeys, NothingOwing, NothingCounting, NothingCovered
  <2> QED BY <2>1, <2>2
<1> QED BY <1>2, <1>3 DEF Money

\* An invoice shows what its PAID payments add up to, although each adds them up
\* before it locks the invoice; one at a time they never exceed its total.
THEOREM PaymentsCounted == AllSpec => []PaidCounted
<1>1. Money => PaidCounted
  <2> SUFFICES ASSUME Money,
                      clients \intersect {"edit_invoice", "edit_payment", "delete_payment",
                                          "set_paid"} = {},
                      NEW i \in Invoices
               PROVE  /\ invoices[i].status # "ABSENT" => invoices[i].paid = PaidAmount(i)
                      /\ overlap \/ invoices[i].paid <= invoices[i].total
    BY DEF PaidCounted
  <2>1. Counts
    BY DEF Counts
  <2> QED BY <2>1, PaidIsCounted DEF Money, Counting, Covered, Solo, IsThere
<1> QED BY <1>1, InitMoney, StepMoney, PTL DEF AllSpec

----
(* The receivable account. *)

NetTotal(rows, S) == SumFunctionOnSet([d \in S |-> NetOf(rows[d])], S)

\* A commit that books the document of w; any other step, which may read the account.
Journals(w) ==
  /\ job[w].step \in Booking /\ job[w].document \in Documents /\ job'[w] = Idle
  /\ \E amounts \in Seq(Nat) : Books(job[w].document, job[w].seen, amounts, job[w].balance)
Reads(w) ==
  /\ UNCHANGED books
  /\ job'[w] = job[w] \/ job'[w].step \notin Booking \/ job'[w].balance = receivable

LEMMA PlainReads ==
  ASSUME Jobs, NEW w \in Workers, Plain(w), UNCHANGED books
  PROVE  Reads(w)
<1>1. CASE UNCHANGED job
  BY <1>1 DEF Reads
<1>2. CASE ~UNCHANGED job
  <2>1. PICK j : j.step \notin ForInvoice \union ForPayment /\ job' = [job EXCEPT ![w] = j]
    BY <1>2 DEF Plain
  <2>2. job'[w] = j
    BY <2>1 DEF Jobs
  <2> QED BY <2>1, <2>2 DEF Reads, ForInvoice, ForPayment, Booking
<1> QED BY <1>1, <1>2

LEMMA OpensUnbooked ==
  ASSUME Jobs, NEW w \in Workers,
         \/ EditInvoiceLoad(w) \/ VoidLoad(w) \/ DeleteInvoiceLoad(w) \/ ConvertLoad(w)
         \/ PayLoad(w) \/ PayInsert(w) \/ EditPaymentLoad(w) \/ DeletePaymentLoad(w)
  PROVE  job'[w].step \in (ForInvoice \union ForPayment) \ Booking
<1>1. CASE EditInvoiceLoad(w)
  <2>1. PICK i, row : Becomes(w, [step |-> "invoice_edit", document |-> i, row |-> row])
    BY <1>1 DEF EditInvoiceLoad
  <2>2. job'[w].step = "invoice_edit"
    BY <2>1 DEF Jobs, Becomes
  <2> QED BY <2>2 DEF Booking, ForInvoice, ForPayment, NewPayment
<1>2. CASE VoidLoad(w)
  <2>1. PICK i : Becomes(w, [step |-> "invoice_void", document |-> i])
    BY <1>2 DEF VoidLoad
  <2>2. job'[w].step = "invoice_void"
    BY <2>1 DEF Jobs, Becomes
  <2> QED BY <2>2 DEF Booking, ForInvoice, ForPayment, NewPayment
<1>3. CASE DeleteInvoiceLoad(w)
  <2>1. PICK i : Becomes(w, [step |-> "invoice_delete", document |-> i])
    BY <1>3 DEF DeleteInvoiceLoad
  <2>2. job'[w].step = "invoice_delete"
    BY <2>1 DEF Jobs, Becomes
  <2> QED BY <2>2 DEF Booking, ForInvoice, ForPayment, NewPayment
<1>4. CASE ConvertLoad(w)
  <2>1. PICK i, row : Becomes(w, [step |-> "convert", document |-> i, row |-> row])
    BY <1>4 DEF ConvertLoad
  <2>2. job'[w].step = "convert"
    BY <2>1 DEF Jobs, Becomes
  <2> QED BY <2>2 DEF Booking, ForInvoice, ForPayment, NewPayment
<1>5. CASE PayLoad(w)
  <2>1. PICK p, total, row :
          Becomes(w, [step |-> "payment", document |-> p, total |-> total, row |-> row])
    BY <1>5 DEF PayLoad
  <2>2. job'[w].step = "payment"
    BY <2>1 DEF Jobs, Becomes
  <2> QED BY <2>2 DEF Booking, ForInvoice, ForPayment, NewPayment
<1>6. CASE PayInsert(w)
  <2>1. job'[w].step = "payment_inserted"
    BY <1>6 DEF PayInsert, Jobs, Becomes
  <2> QED BY <2>1 DEF Booking, ForInvoice, ForPayment, NewPayment
<1>7. CASE EditPaymentLoad(w)
  <2>1. PICK p, row : Becomes(w, [step |-> "payment_edit", document |-> p, row |-> row])
    BY <1>7 DEF EditPaymentLoad
  <2>2. job'[w].step = "payment_edit"
    BY <2>1 DEF Jobs, Becomes
  <2> QED BY <2>2 DEF Booking, ForInvoice, ForPayment, NewPayment
<1>8. CASE DeletePaymentLoad(w)
  <2>1. PICK p : Becomes(w, [step |-> "payment_delete", document |-> p])
    BY <1>8 DEF DeletePaymentLoad
  <2>2. job'[w].step = "payment_delete"
    BY <2>1 DEF Jobs, Becomes
  <2> QED BY <2>2 DEF Booking, ForInvoice, ForPayment, NewPayment
<1> QED BY <1>1, <1>2, <1>3, <1>4, <1>5, <1>6, <1>7, <1>8

LEMMA SavesRead ==
  ASSUME Jobs, NEW w \in Workers,
         CreateInvoice(w) \/ EditInvoiceSave(w) \/ VoidSave(w) \/ PaySave(w) \/ EditPaymentSave(w)
  PROVE  job'[w].balance = receivable /\ job'[w].step \in Booking
<1>1. CASE CreateInvoice(w)
  <2>1. PICK i, row : Becomes(w, Saving(i, row))
    BY <1>1 DEF CreateInvoice
  <2>2. job'[w] = Saving(i, row)
    BY <2>1 DEF Jobs, Becomes
  <2> QED BY <2>2 DEF Saving, Booking
<1>2. CASE EditInvoiceSave(w)
  <2>1. job'[w] = Saving(job[w].document, job[w].row)
    BY <1>2 DEF EditInvoiceSave, Jobs, Becomes
  <2> QED BY <2>1 DEF Saving, Booking
<1>3. CASE VoidSave(w)
  BY <1>3 DEF VoidSave, Jobs, Becomes, Booking
<1>4. CASE PaySave(w)
  BY <1>4 DEF PaySave, Jobs, Becomes, Booking
<1>5. CASE EditPaymentSave(w)
  BY <1>5 DEF EditPaymentSave, Jobs, Becomes, Booking
<1> QED BY <1>1, <1>2, <1>3, <1>4, <1>5

LEMMA InvoiceJournals ==
  ASSUME Jobs, NEW w \in Workers, InvoiceCommit(w) \/ VoidCommit(w)
  PROVE  Journals(w)
<1>1. PICK i, row, seen : i = job[w].document /\ row = job[w].row /\ seen = job[w].seen
  OBVIOUS
<1>2. job'[w] = Idle /\ job[w].step \in Booking \ {"payment_booking"}
  BY Responded DEF InvoiceCommit, VoidCommit, At, Booking
<1>3. i \in Documents /\ seen \in Seq(Nat)
  BY <1>1, <1>2 DEF Jobs, JobShape, InvoiceShape, ForInvoice, Booking, Documents
<1>4. CASE InvoiceCommit(w)
  <2>1. row.total \in Nat
    BY <1>1, <1>4 DEF Jobs, JobShape, InvoiceShape, InvoiceRow, InvoiceCommit, At
  <2>2. PICK amounts : amounts = Reposted(seen, row.total)
    OBVIOUS
  <2>3. amounts \in Seq(Nat)
    BY <1>3, <2>1, <2>2, JournalsTyped
  <2>4. Books(i, seen, amounts, job[w].balance)
    BY <1>1, <1>4, <2>2 DEF InvoiceCommit
  <2> QED BY <1>1, <1>2, <1>3, <2>3, <2>4 DEF Journals
<1>5. CASE VoidCommit(w)
  <2>1. PICK amounts : amounts = Reversed(seen)
    OBVIOUS
  <2>2. amounts \in Seq(Nat)
    BY <1>3, <2>1, JournalsTyped
  <2>3. Books(i, seen, amounts, job[w].balance)
    BY <1>1, <1>5, <2>1 DEF VoidCommit
  <2> QED BY <1>1, <1>2, <1>3, <2>2, <2>3 DEF Journals
<1> QED BY <1>4, <1>5

LEMMA PaymentJournals ==
  ASSUME Jobs, InvoiceTypes, NEW w \in Workers, PaymentCommit(w)
  PROVE  Journals(w)
<1>1. PICK p, row, seen : PaymentCommitted(w, p, row, seen)
  BY CommittedPayment
<1>2. PICK amounts : amounts = IF row.status = "PAID" THEN Posted(seen, row.amount) ELSE seen
  OBVIOUS
<1>3. /\ p = job[w].document /\ seen = job[w].seen /\ p \in Documents
      /\ seen \in Seq(Nat) /\ row.amount \in Nat /\ Books(p, seen, amounts, job[w].balance)
  BY <1>1, <1>2 DEF PaymentCommitted, Recording, PaymentRow, Documents
<1>4. amounts \in Seq(Nat)
  BY <1>2, <1>3, JournalsTyped
<1>5. job'[w] = Idle /\ job[w].step \in Booking
  BY Responded DEF PaymentCommit, At, Booking
<1> QED BY <1>3, <1>4, <1>5 DEF Journals

LEMMA JournalSteps ==
  ASSUME Typed, NEW w \in Workers, Work(w)
  PROVE  Journals(w) \/ Reads(w)
<1>0. Jobs /\ InvoiceTypes
  BY DEF Typed
<1>i. Idle.step \notin Booking
  BY DEF Idle, Booking
<1>1. CASE Trade(w) \/ QuoteStep(w) \/ NoteStep(w) \/ ReturnStep(w)
  BY <1>0, <1>1, FollowPlain, PlainReads, Untouched
<1>2. CASE Abort(w)
  BY <1>0, <1>2, <1>i, Responded DEF Abort, Reads
<1>3. CASE InvoiceStep(w)
  <2>1. CASE InvoiceCommit(w) \/ VoidCommit(w)
    BY <1>0, <2>1, InvoiceJournals
  <2>2. CASE CreateInvoice(w) \/ EditInvoiceSave(w) \/ VoidSave(w)
    BY <1>0, <2>2, SavesRead DEF Reads, CreateInvoice, EditInvoiceSave, VoidSave
  <2>3. CASE DeleteInvoiceSave(w) \/ ConvertSave(w)
    BY <1>0, <1>i, <2>3, Responded DEF Reads, DeleteInvoiceSave, ConvertSave
  <2>4. CASE EditInvoiceLoad(w) \/ VoidLoad(w) \/ DeleteInvoiceLoad(w) \/ ConvertLoad(w)
    BY <1>0, <2>4, OpensUnbooked DEF Reads, EditInvoiceLoad, VoidLoad, DeleteInvoiceLoad, ConvertLoad
  <2> QED BY <1>3, <2>1, <2>2, <2>3, <2>4 DEF InvoiceStep
<1>4. CASE PaymentStep(w)
  <2>1. CASE PaymentCommit(w)
    BY <1>0, <2>1, PaymentJournals
  <2>2. CASE PaySave(w) \/ EditPaymentSave(w)
    BY <1>0, <2>2, SavesRead DEF Reads, PaySave, EditPaymentSave
  <2>3. CASE PendingCommit(w) \/ DeletePaymentSave(w)
    BY <1>0, <1>i, <2>3, Responded DEF Reads, PendingCommit, DeletePaymentSave
  <2>4. CASE PayLoad(w) \/ PayInsert(w) \/ EditPaymentLoad(w) \/ DeletePaymentLoad(w)
    BY <1>0, <2>4, OpensUnbooked DEF Reads, PayLoad, PayInsert, EditPaymentLoad, DeletePaymentLoad
  <2> QED BY <1>4, <2>1, <2>2, <2>3, <2>4 DEF PaymentStep
<1> QED BY <1>1, <1>2, <1>3, <1>4 DEF Work

LEMMA NetInt ==
  ASSUME NEW amounts \in Seq(Nat)
  PROVE  NetOf(amounts) \in Int
<1>1. IsFiniteSet(DOMAIN amounts) /\ \A n \in DOMAIN amounts : amounts[n] \in Int
  BY FS_Interval
<1> QED BY <1>1, SumInt DEF NetOf

\* The journals of one document are changed.
Rebooked(rows, later, S, d) ==
  /\ d \in S /\ NetOf(later[d]) \in Int
  /\ \A x \in S : NetOf(rows[x]) \in Int
  /\ \A x \in S \ {d} : later[x] = rows[x]

LEMMA NetTotalChanged ==
  ASSUME NEW S, IsFiniteSet(S), NEW rows, NEW later, NEW d, Rebooked(rows, later, S, d)
  PROVE  /\ NetTotal(rows, S) \in Int
         /\ NetTotal(later, S) = NetTotal(rows, S) - NetOf(rows[d]) + NetOf(later[d])
<1> DEFINE f == [x \in S |-> NetOf(rows[x])]
           g == [x \in S |-> NetOf(later[x])]
<1>1. d \in S /\ (\A x \in S : f[x] \in Int) /\ g[d] = NetOf(later[d]) /\ f[d] = NetOf(rows[d])
  BY DEF Rebooked
<1>2. g[d] \in Int /\ \A x \in S \ {d} : g[x] = f[x]
  BY <1>1 DEF Rebooked
<1>3. NetTotal(rows, S) = SumFunctionOnSet(f, S) /\ NetTotal(later, S) = SumFunctionOnSet(g, S)
  BY DEF NetTotal
<1> HIDE DEF f, g
<1>4. SumFunctionOnSet(f, S) \in Int
  BY <1>1, SumInt
<1>5. SumFunctionOnSet(g, S) = SumFunctionOnSet(f, S) - f[d] + g[d]
  BY <1>1, <1>2, SumChange
<1> QED BY <1>1, <1>3, <1>4, <1>5

LEMMA NetTotalSame ==
  ASSUME NEW S, NEW rows, NEW later, \A x \in S : later[x] = rows[x]
  PROVE  NetTotal(later, S) = NetTotal(rows, S)
<1>1. [d \in S |-> NetOf(later[d])] = [d \in S |-> NetOf(rows[d])]
  OBVIOUS
<1> QED BY <1>1 DEF NetTotal

LEMMA NetTotalInt ==
  BookTypes => NetTotal(posted, Invoices) \in Int /\ NetTotal(posted, Payments) \in Int
<1> SUFFICES ASSUME BookTypes, NEW S, S \subseteq Documents, IsFiniteSet(S)
             PROVE  NetTotal(posted, S) \in Int
  BY SalesAssumption DEF Documents
<1> DEFINE f == [d \in S |-> NetOf(posted[d])]
<1>1. \A d \in S : f[d] \in Int
  BY NetInt DEF BookTypes
<1>2. NetTotal(posted, S) = SumFunctionOnSet(f, S)
  BY DEF NetTotal
<1> HIDE DEF f
<1> QED BY <1>1, <1>2, SumInt

\* One at a time, a booking goes on from the balance that the account has, and the
\* account is what posted invoices claim less what posted payments brought.
Balanced ==
  ~overlap =>
    /\ receivable = NetTotal(posted, Invoices) - NetTotal(posted, Payments)
    /\ \A w \in Workers : job[w].step \in Booking => job[w].balance = receivable

LEMMA BalancedRead ==
  ASSUME Balanced, NEW w \in Workers, Serves(w), Reads(w)
  PROVE  Balanced'
<1>1. /\ UNCHANGED <<posted, receivable, overlap>>
      /\ \A v \in Workers : \/ job'[v] = job[v] \/ job'[v].step \notin Booking
                            \/ job'[v].balance = receivable
  BY DEF Serves, Reads, Others, books
<1> QED BY <1>1 DEF Balanced, NetTotal

LEMMA BalancedBooked ==
  ASSUME BookTypes, Sound, Balanced, NEW w \in Workers, Alone(w), Serves(w), Journals(w)
  PROVE  Balanced'
<1>0. UNCHANGED overlap
  BY DEF Serves
<1> SUFFICES ASSUME ~overlap
             PROVE  /\ receivable' = NetTotal(posted', Invoices) - NetTotal(posted', Payments)
                    /\ \A v \in Workers : job'[v].step \notin Booking
  BY <1>0 DEF Balanced, NetTotal
<1>1. \A v \in Workers : job'[v].step \notin Booking
  BY DEF Serves, Others, Alone, Journals, At, Idle, Booking
<1>2. PICK d, seen, balance : d = job[w].document /\ seen = job[w].seen /\ balance = job[w].balance
  OBVIOUS
<1>3. PICK amounts \in Seq(Nat) : Books(d, seen, amounts, balance)
  BY <1>2 DEF Journals
<1>4. /\ d \in Documents /\ seen = posted[d] /\ balance = receivable
      /\ receivable = NetTotal(posted, Invoices) - NetTotal(posted, Payments)
  BY <1>2 DEF Journals, Sound, BookedAlone, Balanced
<1>5. \A x \in Documents : posted'[x] = IF x = d THEN amounts ELSE posted[x]
  BY <1>3, <1>4 DEF Books, Merged, BookTypes
<1>6. \A x \in Documents : posted[x] \in Seq(Nat)
  BY DEF BookTypes
<1>7. NetOf(amounts) \in Int /\ NetOf(posted[d]) \in Int /\ receivable \in Int
  BY <1>4, <1>6, NetInt DEF BookTypes
<1>8. receivable' = IF d \in Invoices THEN receivable + (NetOf(amounts) - NetOf(posted[d]))
                    ELSE receivable - (NetOf(amounts) - NetOf(posted[d]))
  <2>1. CASE amounts = seen
    BY <1>3, <1>4, <1>7, <2>1 DEF Books
  <2>2. CASE amounts # seen
    BY <1>3, <1>4, <2>2 DEF Books
  <2> QED BY <2>1, <2>2
<1>9. CASE d \in Invoices
  <2>1. d \notin Payments /\ IsFiniteSet(Invoices)
    BY <1>9, SalesAssumption
  <2>2. /\ NetTotal(posted, Invoices) \in Int
        /\ NetTotal(posted', Invoices)
             = NetTotal(posted, Invoices) - NetOf(posted[d]) + NetOf(amounts)
    <3>1. /\ posted'[d] = amounts /\ NetOf(posted'[d]) \in Int
          /\ \A x \in Invoices : NetOf(posted[x]) \in Int
          /\ \A x \in Invoices \ {d} : posted'[x] = posted[x]
      BY <1>4, <1>5, <1>6, <1>7, NetInt DEF Documents
    <3>2. Rebooked(posted, posted', Invoices, d)
      BY <1>9, <3>1 DEF Rebooked
    <3> QED BY <2>1, <3>1, <3>2, NetTotalChanged
  <2>3. NetTotal(posted', Payments) = NetTotal(posted, Payments)
    BY <1>5, <2>1, NetTotalSame DEF Documents
  <2>4. PICK a, b, c, e, k, l :
          /\ a = NetTotal(posted, Invoices) /\ b = NetTotal(posted, Payments)
          /\ c = NetOf(posted[d]) /\ e = NetOf(amounts)
          /\ k = NetTotal(posted', Invoices) /\ l = NetTotal(posted', Payments)
    OBVIOUS
  <2>5. a \in Int /\ b \in Int /\ c \in Int /\ e \in Int
    BY <1>7, <2>2, <2>4, NetTotalInt
  <2>6. k = a - c + e /\ l = b /\ receivable' = (a - b) + (e - c)
    BY <1>4, <1>8, <1>9, <2>2, <2>3, <2>4
  <2>7. receivable' = k - l
    BY <2>5, <2>6
  <2> QED BY <1>1, <2>4, <2>7
<1>10. CASE d \in Payments
  <2>1. d \notin Invoices /\ IsFiniteSet(Payments)
    BY <1>10, SalesAssumption
  <2>2. /\ NetTotal(posted, Payments) \in Int
        /\ NetTotal(posted', Payments)
             = NetTotal(posted, Payments) - NetOf(posted[d]) + NetOf(amounts)
    <3>1. /\ posted'[d] = amounts /\ NetOf(posted'[d]) \in Int
          /\ \A x \in Payments : NetOf(posted[x]) \in Int
          /\ \A x \in Payments \ {d} : posted'[x] = posted[x]
      BY <1>4, <1>5, <1>6, <1>7, NetInt DEF Documents
    <3>2. Rebooked(posted, posted', Payments, d)
      BY <1>10, <3>1 DEF Rebooked
    <3> QED BY <2>1, <3>1, <3>2, NetTotalChanged
  <2>3. NetTotal(posted', Invoices) = NetTotal(posted, Invoices)
    BY <1>5, <2>1, NetTotalSame DEF Documents
  <2>4. PICK a, b, c, e, k, l :
          /\ a = NetTotal(posted, Invoices) /\ b = NetTotal(posted, Payments)
          /\ c = NetOf(posted[d]) /\ e = NetOf(amounts)
          /\ k = NetTotal(posted', Invoices) /\ l = NetTotal(posted', Payments)
    OBVIOUS
  <2>5. a \in Int /\ b \in Int /\ c \in Int /\ e \in Int
    BY <1>7, <2>2, <2>4, NetTotalInt
  <2>6. k = a /\ l = b - c + e /\ receivable' = (a - b) - (e - c)
    BY <1>4, <1>8, <2>1, <2>2, <2>3, <2>4
  <2>7. receivable' = k - l
    BY <2>5, <2>6
  <2> QED BY <1>1, <2>4, <2>7
<1> QED BY <1>4, <1>9, <1>10 DEF Documents

LEMMA InitBalanced == AllInit => Balanced
<1> SUFFICES ASSUME AllInit PROVE Balanced
  OBVIOUS
<1>1. \A w \in Workers : job[w].step \notin Booking
  BY DEF AllInit, Init, SellingInit, Idle, Booking
<1>2. NetOf(<<>>) = 0
  BY SumEmpty DEF NetOf
<1>3. \A d \in Documents : NetOf(posted[d]) = 0
  BY <1>2 DEF AllInit, Init
<1>4. ASSUME NEW S, S \subseteq Documents, IsFiniteSet(S) PROVE NetTotal(posted, S) = 0
  <2> DEFINE f == [d \in S |-> NetOf(posted[d])]
  <2>1. \A d \in S : f[d] = 0
    BY <1>3, <1>4
  <2>2. NetTotal(posted, S) = SumFunctionOnSet(f, S)
    BY DEF NetTotal
  <2> HIDE DEF f
  <2> QED BY <1>4, <2>1, <2>2, SumZeros
<1>5. NetTotal(posted, Invoices) = 0 /\ NetTotal(posted, Payments) = 0
  BY <1>4, SalesAssumption DEF Documents
<1>6. receivable = 0
  BY DEF AllInit, Init
<1> QED BY <1>1, <1>5, <1>6 DEF Balanced

----
(* The stock that POS sales take. *)

SoldOf(p) == {s \in PosSales : sales[s] = [status |-> "PAID", product |-> p]}

LEMMA SoldFinite ==
  ASSUME NEW p
  PROVE  IsFiniteSet(SoldOf(p)) /\ Cardinality(SoldOf(p)) \in Nat
<1>1. SoldOf(p) \subseteq PosSales
  BY DEF SoldOf
<1>2. IsFiniteSet(SoldOf(p))
  BY <1>1, SellingAssumption, FS_Subset
<1> QED BY <1>2, FS_CardinalityType

\* What is sold and stays sold is off the shelf, and a sale that is being voided
\* stands, one at a time.
Shelved ==
  ~overlap =>
    /\ \A p \in Products : stock[p].current + Cardinality(SoldOf(p)) = Opening[p]
    /\ \A w \in Workers : At(w, "sale_void") => sales[job[w].sale].status = "PAID"

LEMMA ShelvedKept ==
  ASSUME Shelved, NEW w \in Workers, Serves(w), UNCHANGED sales,
         \A p \in Products : stock'[p].current = stock[p].current,
         job'[w] = job[w] \/ (job'[w].step = "sale_void" => sales[job'[w].sale].status = "PAID")
  PROVE  Shelved'
<1>1. UNCHANGED overlap /\ \A p \in Products : SoldOf(p)' = SoldOf(p)
  BY DEF Serves, SoldOf
<1>2. ~overlap => \A v \in Workers : job'[v].step = "sale_void" => sales[job'[v].sale].status = "PAID"
  BY DEF Shelved, Serves, Others, At
<1> QED BY <1>1, <1>2 DEF Shelved, At

LEMMA SellShelved ==
  ASSUME SellingTypes, Jobs, Matched, Shelved, NEW w \in Workers, Alone(w), Sell(w)
  PROVE  Shelved'
<1>1. PICK s \in PosSales, p \in Products :
        /\ sales[s].status = "ABSENT" /\ Available(p) >= 1
        /\ sales' = [sales EXCEPT ![s] = [status |-> "PAID", product |-> p]]
        /\ stock' = [stock EXCEPT ![p].current = @ - 1]
  BY DEF Sell
<1>2. UNCHANGED <<overlap, job>> /\ At(w, "idle")
  BY DEF Sell, Takes
<1> SUFFICES ASSUME ~overlap PROVE Shelved'
  BY <1>2 DEF Shelved
<1>3. \A v \in Workers : job[v].step = "idle"
  BY <1>2 DEF Alone, Others, At
<1> SUFFICES ASSUME NEW x \in Products
             PROVE  stock'[x].current + Cardinality(SoldOf(x)') = Opening[x]
  BY <1>2, <1>3 DEF Shelved, At
<1>4. \A y \in PosSales : sales'[y] = IF y = s THEN [status |-> "PAID", product |-> p] ELSE sales[y]
  BY <1>1 DEF SellingTypes
<1>5. stock[x].current \in Nat /\ stock[x].current + Cardinality(SoldOf(x)) = Opening[x]
  BY DEF SellingTypes, Shelved
<1>6. CASE x = p
  <2>1. SoldOf(x)' = SoldOf(x) \union {s} /\ s \notin SoldOf(x)
    BY <1>1, <1>4, <1>6 DEF SoldOf
  <2>2. Cardinality(SoldOf(x)') = Cardinality(SoldOf(x)) + 1
    BY <2>1, SoldFinite, FS_AddElement
  <2>3. stock'[x].current = stock[x].current - 1
    BY <1>1, <1>6 DEF SellingTypes
  <2> QED BY <1>5, <2>2, <2>3, SoldFinite
<1>7. CASE x # p
  <2>1. [status |-> "PAID", product |-> p] # [status |-> "PAID", product |-> x]
    BY <1>7
  <2>2. SoldOf(x)' = SoldOf(x)
    BY <1>1, <1>4, <2>1 DEF SoldOf
  <2>3. stock'[x].current = stock[x].current
    BY <1>1, <1>7 DEF SellingTypes
  <2> QED BY <1>5, <2>2, <2>3
<1> QED BY <1>6, <1>7

LEMMA VoidSaleShelved ==
  ASSUME SellingTypes, Jobs, Shelved, NEW w \in Workers, Alone(w), VoidSaleSave(w)
  PROVE  Shelved'
<1>1. PICK s : s = job[w].sale
  OBVIOUS
<1>2. s \in PosSales
  BY <1>1 DEF Jobs, JobShape, OrderShape, VoidSaleSave, At
<1>3. PICK p : p = sales[s].product
  OBVIOUS
<1>4. sales[s] \in SaleRows /\ p \in Products
  BY <1>2, <1>3 DEF SellingTypes, SaleRows
<1>5. /\ stock' = [stock EXCEPT ![p].current = @ + 1] /\ At(w, "sale_void")
      /\ sales' = [sales EXCEPT ![s].status = "VOID"] /\ UNCHANGED overlap
  BY <1>1, <1>3 DEF VoidSaleSave
<1>6. job'[w] = Idle /\ \A v \in Others(w) : job'[v] = job[v]
  BY Responded DEF VoidSaleSave, Serves
<1> SUFFICES ASSUME ~overlap PROVE Shelved'
  BY <1>5 DEF Shelved
<1>7. \A v \in Workers : job'[v].step = "idle"
  BY <1>6 DEF Alone, Others, At, Idle
<1> SUFFICES ASSUME NEW x \in Products
             PROVE  stock'[x].current + Cardinality(SoldOf(x)') = Opening[x]
  BY <1>7 DEF Shelved, At
<1>8. sales[s] = [status |-> "PAID", product |-> p]
  <2>1. sales[s].status = "PAID"
    BY <1>1, <1>5 DEF Shelved
  <2> QED BY <1>3, <1>4, <2>1 DEF SaleRows
<1>9. sales'[s].status = "VOID" /\ \A y \in PosSales \ {s} : sales'[y] = sales[y]
  BY <1>2, <1>4, <1>5 DEF SellingTypes, SaleRows
<1>10. stock[x].current \in Nat /\ stock[x].current + Cardinality(SoldOf(x)) = Opening[x]
  BY DEF SellingTypes, Shelved
<1>11. \A y \in Products : [status |-> "PAID", product |-> y].status # "VOID"
  OBVIOUS
<1>12. CASE x = p
  <2>1. SoldOf(x)' = SoldOf(x) \ {s} /\ s \in SoldOf(x)
    BY <1>2, <1>8, <1>9, <1>11, <1>12 DEF SoldOf
  <2>2. Cardinality(SoldOf(x)') = Cardinality(SoldOf(x)) - 1
    BY <2>1, SoldFinite, FS_RemoveElement
  <2>3. stock'[x].current = stock[x].current + 1
    BY <1>5, <1>12 DEF SellingTypes
  <2> QED BY <1>10, <2>2, <2>3, SoldFinite
<1>13. CASE x # p
  <2>1. [status |-> "PAID", product |-> p] # [status |-> "PAID", product |-> x]
    BY <1>13
  <2>2. SoldOf(x)' = SoldOf(x)
    BY <1>2, <1>8, <1>9, <1>11, <2>1 DEF SoldOf
  <2>3. stock'[x].current = stock[x].current
    BY <1>5, <1>13 DEF SellingTypes
  <2> QED BY <1>10, <2>2, <2>3
<1> QED BY <1>12, <1>13

LEMMA ConfirmShelves ==
  ASSUME SellingTypes, NEW w \in Workers, ConfirmOrder(w)
  PROVE  \A p \in Products : stock'[p].current = stock[p].current
<1>1. PICK o : stock' = [p \in Products |-> IF p \in Reservable(o)
        THEN [stock[p] EXCEPT !.reserved = @ + Quantity[o][p]] ELSE stock[p]]
  BY DEF ConfirmOrder
<1> QED BY <1>1 DEF SellingTypes

\* The requests for orders, and what follows them, that a step of w takes up or goes on.
TakesUp(w) ==
  \/ OrderEditLoad(w) \/ VoidSaleLoad(w) \/ QuoteLoad(w) \/ QuoteConvertLoad(w)
  \/ NoteLoad(w) \/ DeliverLoad(w) \/ DeliverCount(w)
  \/ CreateReturnLoad(w) \/ EditReturnLoad(w) \/ MoveReturnLoad(w)

LEMMA NextJob ==
  ASSUME Jobs, NEW w \in Workers, Work(w)
  PROVE  TakesUp(w) \/ job'[w] = job[w] \/ job'[w] = Idle \/ job'[w].step \in ForInvoice \union ForPayment
<1>1. CASE Trade(w)
  <2>1. CASE ConfirmOrder(w) \/ Sell(w)
    BY <2>1 DEF ConfirmOrder, Sell
  <2>2. CASE OrderEditSave(w) \/ VoidSaleSave(w)
    BY <2>2, Responded DEF OrderEditSave, VoidSaleSave
  <2> QED BY <1>1, <2>1, <2>2 DEF Trade, SellingStep, TakesUp
<1>2. CASE Abort(w)
  BY <1>2, Responded DEF Abort
<1>3. CASE InvoiceStep(w)
  <2>1. CASE EditInvoiceLoad(w) \/ VoidLoad(w) \/ DeleteInvoiceLoad(w) \/ ConvertLoad(w)
    BY <2>1, OpensUnbooked
  <2>2. CASE CreateInvoice(w) \/ EditInvoiceSave(w) \/ VoidSave(w)
    BY <2>2, SavesRead DEF Booking, ForInvoice, ForPayment
  <2>3. CASE InvoiceCommit(w) \/ VoidCommit(w) \/ DeleteInvoiceSave(w) \/ ConvertSave(w)
    BY <2>3, Responded DEF InvoiceCommit, VoidCommit, DeleteInvoiceSave, ConvertSave
  <2> QED BY <1>3, <2>1, <2>2, <2>3 DEF InvoiceStep
<1>4. CASE PaymentStep(w)
  <2>1. CASE PayLoad(w) \/ PayInsert(w) \/ EditPaymentLoad(w) \/ DeletePaymentLoad(w)
    BY <2>1, OpensUnbooked
  <2>2. CASE PaySave(w) \/ EditPaymentSave(w)
    BY <2>2, SavesRead DEF Booking, ForInvoice, ForPayment
  <2>3. CASE PendingCommit(w) \/ PaymentCommit(w) \/ DeletePaymentSave(w)
    BY <2>3, Responded DEF PendingCommit, PaymentCommit, DeletePaymentSave
  <2> QED BY <1>4, <2>1, <2>2, <2>3 DEF PaymentStep
<1>5. CASE QuoteStep(w)
  <2>1. CASE QuoteSave(w) \/ QuoteConvertSave(w)
    BY <2>1, Responded DEF QuoteSave, QuoteConvertSave
  <2> QED BY <1>5, <2>1 DEF QuoteStep, TakesUp, AnswerQuote
<1>6. CASE NoteStep(w)
  <2>1. CASE NoteSave(w) \/ DeliverCommit(w)
    BY <2>1, Responded DEF NoteSave, DeliverCommit
  <2>2. CASE CreateNote(w) \/ Dispatch(w) \/ DeleteNote(w)
    BY <2>2 DEF CreateNote, Dispatch, DeleteNote
  <2> QED BY <1>6, <2>1, <2>2 DEF NoteStep, TakesUp
<1>7. CASE ReturnStep(w)
  <2>1. CASE ReturnSave(w) \/ MoveReturnSave(w)
    BY <2>1, Responded DEF ReturnSave, MoveReturnSave
  <2>2. CASE DeleteReturn(w)
    BY <2>2 DEF DeleteReturn
  <2> QED BY <1>7, <2>1, <2>2 DEF ReturnStep, TakesUp
<1> QED BY <1>1, <1>2, <1>3, <1>4, <1>5, <1>6, <1>7 DEF Work

\* What such a step asks for.
LEMMA TakenUp ==
  ASSUME Jobs, NEW w \in Workers
  PROVE  /\ OrderEditLoad(w) => job'[w].step = "order_edit"
         /\ VoidSaleLoad(w) => job'[w].step = "sale_void"
         /\ QuoteLoad(w) => job'[w].step = "quote_save"
         /\ QuoteConvertLoad(w) => job'[w].step = "quote_convert"
         /\ NoteLoad(w) => job'[w].step = "note_save"
         /\ DeliverLoad(w) => job'[w].step = "deliver"
         /\ DeliverCount(w) => job'[w].step = "delivering"
         /\ CreateReturnLoad(w) \/ EditReturnLoad(w) => job'[w].step = "return_save"
         /\ MoveReturnLoad(w) => job'[w].step = "return_move"
<1>1. ASSUME OrderEditLoad(w) PROVE job'[w].step = "order_edit"
  <2>1. PICK o, s : Becomes(w, [step |-> "order_edit", order |-> o, status |-> s])
    BY <1>1 DEF OrderEditLoad
  <2> QED BY <2>1 DEF Jobs, Becomes
<1>2. ASSUME VoidSaleLoad(w) PROVE job'[w].step = "sale_void"
  <2>1. PICK s : Becomes(w, [step |-> "sale_void", sale |-> s])
    BY <1>2 DEF VoidSaleLoad
  <2> QED BY <2>1 DEF Jobs, Becomes
<1>3. ASSUME QuoteLoad(w) PROVE job'[w].step = "quote_save"
  <2>1. \E q, s : Becomes(w, [step |-> "quote_save", quotation |-> q, status |-> s])
    BY <1>3 DEF QuoteLoad
  <2> QED BY <2>1 DEF Jobs, Becomes
<1>4. ASSUME QuoteConvertLoad(w) PROVE job'[w].step = "quote_convert"
  <2>1. PICK q : Becomes(w, [step |-> "quote_convert", quotation |-> q])
    BY <1>4 DEF QuoteConvertLoad
  <2> QED BY <2>1 DEF Jobs, Becomes
<1>5. ASSUME NoteLoad(w) PROVE job'[w].step = "note_save"
  <2>1. \E n, lined, row : Becomes(w, [step |-> "note_save", note |-> n, lined |-> lined, row |-> row])
    BY <1>5 DEF NoteLoad
  <2> QED BY <2>1 DEF Jobs, Becomes
<1>6. ASSUME DeliverLoad(w) PROVE job'[w].step = "deliver"
  <2>1. \E n, o, p, quantity, counted :
          Becomes(w, [step |-> "deliver", note |-> n, order |-> o, product |-> p,
                      quantity |-> quantity, counted |-> counted])
    BY <1>6 DEF DeliverLoad
  <2> QED BY <2>1 DEF Jobs, Becomes
<1>7. ASSUME DeliverCount(w) PROVE job'[w].step = "delivering"
  BY <1>7 DEF DeliverCount, Jobs, Becomes
<1>8. ASSUME CreateReturnLoad(w) \/ EditReturnLoad(w) PROVE job'[w].step = "return_save"
  <2>1. \E r, lined, row :
          Becomes(w, [step |-> "return_save", return |-> r, lined |-> lined, row |-> row])
    BY <1>8 DEF CreateReturnLoad, EditReturnLoad
  <2> QED BY <2>1 DEF Jobs, Becomes
<1>9. ASSUME MoveReturnLoad(w) PROVE job'[w].step = "return_move"
  <2>1. \E r, s : Becomes(w, [step |-> "return_move", return |-> r, status |-> s])
    BY <1>9 DEF MoveReturnLoad
  <2> QED BY <2>1 DEF Jobs, Becomes
<1> QED BY <1>1, <1>2, <1>3, <1>4, <1>5, <1>6, <1>7, <1>8, <1>9

\* What a step does to POS sales and their stock.
LEMMA SaleSteps ==
  ASSUME Jobs, SellingTypes, NEW w \in Workers, Work(w)
  PROVE  \/ Sell(w) \/ VoidSaleLoad(w) \/ VoidSaleSave(w)
         \/ /\ UNCHANGED sales /\ \A p \in Products : stock'[p].current = stock[p].current
            /\ job'[w] = job[w] \/ job'[w].step # "sale_void"
<1>1. Sell(w) \/ VoidSaleLoad(w) \/ VoidSaleSave(w) \/ job'[w] = job[w] \/ job'[w].step # "sale_void"
  BY NextJob, TakenUp DEF TakesUp, Idle, ForInvoice, ForPayment, NewPayment
<1>2. \/ Sell(w) \/ VoidSaleLoad(w) \/ VoidSaleSave(w)
      \/ UNCHANGED sales /\ \A p \in Products : stock'[p].current = stock[p].current
  <2>1. CASE Trade(w)
    <3>1. CASE ConfirmOrder(w)
      BY <3>1, ConfirmShelves DEF ConfirmOrder
    <3>2. CASE OrderEditLoad(w) \/ OrderEditSave(w)
      BY <3>2 DEF OrderEditLoad, OrderEditSave, goods
    <3> QED BY <2>1, <3>1, <3>2 DEF Trade, SellingStep
  <2>2. CASE QuoteStep(w)
    BY <2>2 DEF QuoteStep, QuoteLoad, QuoteSave, AnswerQuote, QuoteConvertLoad, QuoteConvertSave, trade
  <2>3. CASE NoteStep(w)
    BY <2>3 DEF NoteStep, CreateNote, NoteLoad, NoteSave, Dispatch, DeleteNote, DeliverLoad,
                DeliverCount, DeliverCommit, trade
  <2> QED BY <2>1, <2>2, <2>3, Untouched DEF Work, goods
<1> QED BY <1>1, <1>2

LEMMA WorkShelved ==
  ASSUME Typed, Matched, Shelved, NEW w \in Workers, Work(w)
  PROVE  Shelved'
<1>0. SellingTypes /\ Jobs /\ Alone(w) /\ Serves(w)
  BY WorkTyped, WorkAlone DEF Typed
<1>1. CASE Sell(w) \/ VoidSaleSave(w)
  BY <1>0, <1>1, SellShelved, VoidSaleShelved
<1>2. CASE VoidSaleLoad(w)
  <2>1. PICK s \in PosSales : Voidable(s) /\ Becomes(w, [step |-> "sale_void", sale |-> s])
    BY <1>2 DEF VoidSaleLoad
  <2>2. job'[w].sale = s
    BY <1>0, <2>1 DEF Jobs, Becomes
  <2> QED BY <1>0, <1>2, <2>1, <2>2, ShelvedKept DEF VoidSaleLoad, goods, Voidable
<1>3. CASE /\ UNCHANGED sales /\ \A p \in Products : stock'[p].current = stock[p].current
           /\ job'[w] = job[w] \/ job'[w].step # "sale_void"
  BY <1>0, <1>3, ShelvedKept
<1> QED BY <1>0, <1>1, <1>2, <1>3, SaleSteps

LEMMA InitShelved == AllInit => Shelved
<1> SUFFICES ASSUME AllInit PROVE Shelved
  OBVIOUS
<1>1. \A w \in Workers : job[w].step = "idle"
  BY DEF AllInit, Init, SellingInit, Idle
<1>2. \A p \in Products : SoldOf(p) = {}
  BY DEF AllInit, Init, SellingInit, SoldOf
<1>3. \A p \in Products : stock[p].current = Opening[p] /\ Opening[p] \in Nat
  BY SellingAssumption DEF AllInit, Init, SellingInit
<1>4. \A p \in Products : Cardinality(SoldOf(p)) = 0
  BY <1>2, FS_EmptySet
<1> QED BY <1>1, <1>3, <1>4 DEF Shelved, At

LEMMA StepAdds ==
  ASSUME Money, Balanced, Shelved, [AllNext]_allVars
  PROVE  Balanced' /\ Shelved'
<1>1. Typed /\ Sound /\ Matched
  BY DEF Money
<1>2. CASE AllNext
  <2>1. PICK w \in Workers : Work(w)
    BY <1>2, SomeWork
  <2>2. Alone(w) /\ Serves(w) /\ BookTypes
    BY <1>1, <2>1, WorkTyped, WorkAlone DEF Typed
  <2> QED BY <1>1, <2>1, <2>2, JournalSteps, BalancedRead, BalancedBooked, WorkShelved
<1>3. CASE UNCHANGED allVars
  BY <1>3 DEF Balanced, NetTotal, Shelved, SoldOf, At, allVars, vars, goods, books
<1> QED BY <1>2, <1>3

\* One at a time, requests keep the books: the receivable account is what posted
\* invoices claim less what posted payments brought, and POS sales that stand have
\* taken their units.
THEOREM BooksKept == AllSpec => []BooksAgree
<1>1. Balanced /\ Shelved => BooksAgree
  BY DEF Balanced, Shelved, BooksAgree, NetTotal, SoldOf
<1> QED BY <1>1, InitMoney, StepMoney, InitBalanced, InitShelved, StepAdds, PTL DEF AllSpec

----
(* The invoice of an order. *)

\* Invoice j is of the same order as invoice i, and both stand.
OfOneOrder(rows, i, j) ==
  /\ Stands(rows[i]) /\ Stands(rows[j])
  /\ rows[i].order \in Orders /\ rows[j].order = rows[i].order

\* No invoice that stands is of the order of the row that is about to be written.
FirstOfOrder(j, rows) ==
  j.step \in Writes =>
    \A x \in Invoices :
      Stands(rows[x]) /\ rows[x].order \in Orders /\ rows[x].order = j.row.order => x = j.document

\* One at a time, and no client names an order for an invoice.
OneInvoice == ~overlap /\ "name_order" \notin clients

Invoiced ==
  OneInvoice => /\ \A w \in Workers : FirstOfOrder(job[w], invoices)
              /\ \A i, j \in Invoices : OfOneOrder(invoices, i, j) => i = j

LEMMA InvoicedMove ==
  ASSUME Invoiced, NEW w \in Workers, Serves(w), UNCHANGED invoices,
         OneInvoice => FirstOfOrder(job'[w], invoices)
  PROVE  Invoiced'
<1>0. OneInvoice' <=> OneInvoice
  BY DEF Serves, OneInvoice
<1>1. OneInvoice => \A v \in Workers : FirstOfOrder(job'[v], invoices)
  BY DEF Invoiced, Serves, Others
<1>2. OneInvoice => \A v \in Workers : FirstOfOrder(job[v], invoices)'
  BY <1>1 DEF FirstOfOrder, Stands
<1> QED BY <1>0, <1>2 DEF Invoiced, OfOneOrder, Stands

\* Nothing new stands, or the invoice that does is the first of its order.
LEMMA InvoicedCommit ==
  ASSUME Invoiced, NEW w \in Workers, Alone(w), Serves(w), job'[w] = Idle, NEW i,
         \A x \in Invoices \ {i} : invoices'[x] = invoices[x],
         OneInvoice => \/ ~Stands(invoices'[i])
                     \/ invoices'[i].order \notin Orders
                     \/ \A x \in Invoices : Stands(invoices[x]) /\ invoices[x].order \in Orders
                          /\ invoices[x].order = invoices'[i].order => x = i
  PROVE  Invoiced'
<1>0. OneInvoice' <=> OneInvoice
  BY DEF Serves, OneInvoice
<1>1. OneInvoice => \A v \in Workers : job'[v].step = "idle"
  BY DEF Serves, Others, Alone, At, Idle, OneInvoice
<1>2. OneInvoice => \A v \in Workers : FirstOfOrder(job[v], invoices)'
  BY <1>1 DEF FirstOfOrder, Writes
<1>3. ASSUME OneInvoice, NEW x \in Invoices, NEW y \in Invoices, OfOneOrder(invoices', x, y)
      PROVE  x = y
  <2>1. CASE x # i /\ y # i
    BY <1>3, <2>1 DEF Invoiced, OfOneOrder
  <2>2. CASE x = i \/ y = i
    BY <1>3, <2>2 DEF OfOneOrder
  <2> QED BY <2>1, <2>2
<1>4. OneInvoice => \A x, y \in Invoices : OfOneOrder(invoices, x, y)' => x = y
  BY <1>3 DEF OfOneOrder, Stands
<1> QED BY <1>0, <1>2, <1>4 DEF Invoiced

LEMMA InvoicedAsked ==
  ASSUME Typed, Invoiced, NEW w \in Workers, Serves(w), Asks(w)
  PROVE  Invoiced'
<1>0. UNCHANGED invoices /\ Jobs
  BY DEF Asks, Typed
<1>w. OneInvoice => /\ \A v \in Workers : FirstOfOrder(job[v], invoices)
                  /\ \A i, j \in Invoices : OfOneOrder(invoices, i, j) => i = j
  BY DEF Invoiced
<1> SUFFICES OneInvoice => FirstOfOrder(job'[w], invoices)
  BY <1>0, InvoicedMove
<1>1. ASSUME NEW i, NEW row, NewInvoice(w, i, row), OneInvoice PROVE FirstOfOrder(job'[w], invoices)
  <2>1. /\ job'[w].row = row
        /\ \/ row.order = "none"
           \/ \A x \in Invoices : invoices[x].order = row.order => invoices[x].status = "VOID"
    BY <1>1 DEF NewInvoice, OneInvoice
  <2> QED BY <2>1, SalesAssumption DEF FirstOfOrder, Stands
<1>2. ASSUME NEW i, NEW row, EditsInvoice(w, i, row), OneInvoice PROVE FirstOfOrder(job'[w], invoices)
  <2>1. /\ job'[w].row = row /\ job'[w].document = i /\ row.order = invoices[i].order
        /\ i \in Invoices /\ Stands(invoices[i])
    BY <1>2 DEF EditsInvoice, EditedRow, IsThere, Stands, OneInvoice
  <2> QED BY <1>w, <1>2, <2>1 DEF FirstOfOrder, OfOneOrder
<1>3. CASE EditInvoiceSave(w)
  <2>1. /\ job[w].step = "invoice_edit" /\ job'[w].step = "invoice_booking"
        /\ job'[w].document = job[w].document /\ job'[w].row = job[w].row
    BY <1>0, <1>3, SavesEdit
  <2> QED BY <1>w, <2>1 DEF FirstOfOrder, Writes
<1>4. CASE VoidLoad(w) \/ VoidSave(w)
  <2>1. job'[w].step \notin Writes
    BY <1>0, <1>4, VoidsInvoice, SavesVoid DEF Writes
  <2> QED BY <2>1 DEF FirstOfOrder
<1>5. CASE \/ \E p, i, row : PaysInvoice(w, p, i, row)
           \/ \E p, row : InsertsPayment(w, p, row)
           \/ \E i, paid, owed : SavesPayment(w, i, paid, owed)
  <2>1. job'[w].step \notin Writes
    BY <1>5 DEF PaysInvoice, InsertsPayment, SavesPayment, Writes
  <2> QED BY <2>1 DEF FirstOfOrder
<1> QED BY <1>1, <1>2, <1>3, <1>4, <1>5 DEF Asks

LEMMA InvoicedCommitted ==
  ASSUME Typed, Matched, Invoiced, NEW w \in Workers, Alone(w), Serves(w), Commits(w)
  PROVE  Invoiced'
<1>w. OneInvoice => /\ \A v \in Workers : FirstOfOrder(job[v], invoices)
                  /\ \A i, j \in Invoices : OfOneOrder(invoices, i, j) => i = j
  BY DEF Invoiced
<1>1. ASSUME NEW i, NEW row, WritesInvoice(w, i, row) PROVE Invoiced'
  <2>1. /\ job'[w] = Idle /\ i = job[w].document /\ job[w].step \in Writes /\ row = job[w].row
        /\ i \in Invoices
        /\ \A x \in Invoices : invoices'[x] = IF x = i THEN row ELSE invoices[x]
    BY <1>1 DEF WritesInvoice, Writes
  <2>2. OneInvoice => \A x \in Invoices : Stands(invoices[x]) /\ invoices[x].order \in Orders
                          /\ invoices[x].order = row.order => x = i
    BY <1>w, <2>1 DEF FirstOfOrder
  <2> QED BY <2>1, <2>2, InvoicedCommit
<1>2. ASSUME NEW i, VoidsRow(w, i) \/ DeletesInvoice(w, i) PROVE Invoiced'
  <2>1. /\ job'[w] = Idle /\ ~Stands(invoices'[i])
        /\ \A x \in Invoices \ {i} : invoices'[x] = invoices[x]
    BY <1>2 DEF VoidsRow, DeletesInvoice, Stands, NoInvoice
  <2> QED BY <2>1, InvoicedCommit
<1>3. ASSUME NEW p, NEW row, RecordsPending(w, p, row) \/ RewritesPayment(w, p, row) PROVE Invoiced'
  <2>1. job'[w] = Idle /\ UNCHANGED invoices
    BY <1>3 DEF RecordsPending, RewritesPayment
  <2>2. OneInvoice => FirstOfOrder(job'[w], invoices)
    BY <2>1 DEF FirstOfOrder, Idle, Writes
  <2> QED BY <2>1, <2>2, InvoicedMove
<1>4. ASSUME NEW p, NEW row, NEW i, NEW paid, NEW owed, RecordsPaid(w, p, row, i, paid, owed)
      PROVE  Invoiced'
  <2>1. /\ job'[w] = Idle /\ row = job[w].row /\ job[w].step = "payment_booking"
        /\ row.invoice = i /\ i \in Invoices /\ IsThere(i) /\ job[w].counted # <<>>
        /\ invoices'[i].order = invoices[i].order
        /\ \A x \in Invoices \ {i} : invoices'[x] = invoices[x]
    BY <1>4 DEF RecordsPaid
  <2>2. OneInvoice => Stands(invoices[i])
    <3>1. Paying(job[w]) /\ GoodRequest(job[w])
      BY <2>1 DEF Paying, Matched
    <3> QED BY <2>1, <3>1 DEF GoodRequest, Racing, Stands, IsThere, OneInvoice
  <2>3. OneInvoice => \A x \in Invoices : Stands(invoices[x]) /\ invoices[x].order \in Orders
                          /\ invoices[x].order = invoices'[i].order => x = i
    BY <1>w, <2>1, <2>2 DEF OfOneOrder
  <2> QED BY <2>1, <2>3, InvoicedCommit
<1> QED BY <1>1, <1>2, <1>3, <1>4 DEF Commits

LEMMA WorkInvoiced ==
  ASSUME Typed, Matched, Invoiced, NEW w \in Workers, Work(w)
  PROVE  Invoiced'
<1>1. Alone(w) /\ Serves(w)
  BY WorkTyped, WorkAlone
<1>2. CASE Elsewhere(w)
  <2>1. UNCHANGED invoices /\ (job'[w] = job[w] \/ job'[w].step \notin Writes)
    BY <1>2 DEF Elsewhere, Writes
  <2>2. OneInvoice => FirstOfOrder(job'[w], invoices)
    BY <2>1 DEF Invoiced, FirstOfOrder
  <2> QED BY <1>1, <2>1, <2>2, InvoicedMove
<1> QED BY <1>1, <1>2, MoneySteps, InvoicedAsked, InvoicedCommitted

LEMMA InitInvoiced == AllInit => Invoiced
<1> SUFFICES ASSUME AllInit PROVE Invoiced
  OBVIOUS
<1>1. \A w \in Workers : job[w] = Idle
  BY DEF AllInit, Init, SellingInit
<1>2. \A i \in Invoices : ~Stands(invoices[i])
  BY DEF AllInit, Init, NoInvoice, Stands
<1> QED BY <1>1, <1>2 DEF Invoiced, FirstOfOrder, OfOneOrder, Idle, Writes

----
(* The order of a quotation. *)

\* What a step does to quotations.
LEMMA QuoteSteps ==
  ASSUME Jobs, NEW w \in Workers, Work(w)
  PROVE  \/ QuoteLoad(w) \/ QuoteSave(w) \/ AnswerQuote(w)
         \/ QuoteConvertLoad(w) \/ QuoteConvertSave(w)
         \/ /\ UNCHANGED quoting
            /\ job'[w] = job[w] \/ job'[w].step \notin {"quote_save", "quote_convert"}
<1>1. \/ QuoteLoad(w) \/ QuoteConvertLoad(w)
      \/ job'[w] = job[w] \/ job'[w].step \notin {"quote_save", "quote_convert"}
  BY NextJob, TakenUp DEF TakesUp, Idle, ForInvoice, ForPayment, NewPayment
<1>2. QuoteStep(w) \/ UNCHANGED quoting
  BY Untouched DEF Work, follow
<1> QED BY <1>1, <1>2 DEF QuoteStep

\* Quotations are not answered again once they are converted.
QuotedOnce ==
  /\ ~overlap /\ "accept_quote" \notin clients
  /\ ~({"reject_quote", "edit_quote"} \subseteq clients)

\* A quotation with an order stays converted, or rejected for good; requests that
\* go on with a quotation have found it without an order.
Quoted ==
  QuotedOnce =>
    /\ \A o, x \in Orders : origin[o] \in Quotations /\ origin[x] = origin[o] => x = o
    /\ \A o \in Orders : origin[o] \in Quotations =>
         \/ quotations[origin[o]] = "CONVERTED"
         \/ quotations[origin[o]] = "REJECTED" /\ "reject_quote" \in clients
    /\ \A w \in Workers : job[w].step \in {"quote_save", "quote_convert"} =>
         \A o \in Orders : origin[o] # job[w].quotation

LEMMA QuotedMove ==
  ASSUME Quoted, NEW w \in Workers, Serves(w), UNCHANGED quoting,
         QuotedOnce /\ job'[w].step \in {"quote_save", "quote_convert"} =>
           \A o \in Orders : origin[o] # job'[w].quotation
  PROVE  Quoted'
<1>1. UNCHANGED <<clients, overlap, quotations, origin>>
  BY DEF Serves, quoting
<1>2. QuotedOnce => \A v \in Workers : job'[v].step \in {"quote_save", "quote_convert"} =>
                      \A o \in Orders : origin[o] # job'[v].quotation
  BY DEF Quoted, Serves, Others
<1> QED BY <1>1, <1>2 DEF Quoted, QuotedOnce

\* A reply that writes quotation q, when its orders allow it.
LEMMA QuotedReply ==
  ASSUME Quoted, QuoteTypes, NEW w \in Workers, Alone(w), Serves(w), job'[w].step = "idle",
         NEW q \in Quotations, NEW s, quotations' = [quotations EXCEPT ![q] = s], UNCHANGED origin,
         QuotedOnce => \/ \A o \in Orders : origin[o] # q
                       \/ s = "REJECTED" /\ "reject_quote" \in clients
  PROVE  Quoted'
<1>1. UNCHANGED <<clients, overlap>>
  BY DEF Serves
<1>2. QuotedOnce => \A v \in Workers : job'[v].step = "idle"
  BY DEF Serves, Others, Alone, At, QuotedOnce
<1>3. \A x \in Quotations : quotations'[x] = IF x = q THEN s ELSE quotations[x]
  BY DEF QuoteTypes
<1> QED BY <1>1, <1>2, <1>3 DEF Quoted, QuotedOnce

LEMMA WorkQuoted ==
  ASSUME Typed, Matched, Quoted, NEW w \in Workers, Work(w)
  PROVE  Quoted'
<1>0. Jobs /\ QuoteTypes /\ Alone(w) /\ Serves(w)
  BY WorkTyped, WorkAlone DEF Typed
<1>w. QuotedOnce =>
        /\ \A o, x \in Orders : origin[o] \in Quotations /\ origin[x] = origin[o] => x = o
        /\ \A o \in Orders : origin[o] \in Quotations =>
             \/ quotations[origin[o]] = "CONVERTED"
             \/ quotations[origin[o]] = "REJECTED" /\ "reject_quote" \in clients
        /\ job[w].step \in {"quote_save", "quote_convert"} =>
             \A o \in Orders : origin[o] # job[w].quotation
  BY DEF Quoted
<1>1. CASE /\ UNCHANGED quoting
           /\ job'[w] = job[w] \/ job'[w].step \notin {"quote_save", "quote_convert"}
  BY <1>0, <1>w, <1>1, QuotedMove
<1>2. CASE QuoteLoad(w)
  <2>1. PICK q, s :
          /\ q \in Quotations
          /\ \/ quotations[q] \notin {"CONVERTED", "REJECTED", "EXPIRED"}
             \/ "edit_quote" \in clients /\ quotations[q] # "CONVERTED"
          /\ Becomes(w, [step |-> "quote_save", quotation |-> q, status |-> s])
    BY <1>2 DEF QuoteLoad, Takes
  <2>2. job'[w].quotation = q
    BY <1>0, <2>1 DEF Jobs, Becomes
  <2>3. QuotedOnce => \A o \in Orders : origin[o] # q
    BY <1>w, <2>1 DEF QuotedOnce
  <2> QED BY <1>0, <1>2, <2>2, <2>3, QuotedMove DEF QuoteLoad, follow
<1>3. CASE QuoteConvertLoad(w)
  <2>1. PICK q \in Quotations :
          /\ quotations[q] = "CONVERTED" => OrdersOf(q) = {}
          /\ quotations[q] \notin {"REJECTED", "EXPIRED"}
          /\ Becomes(w, [step |-> "quote_convert", quotation |-> q])
    BY <1>3 DEF QuoteConvertLoad
  <2>2. job'[w].quotation = q
    BY <1>0, <2>1 DEF Jobs, Becomes
  <2>3. QuotedOnce => \A o \in Orders : origin[o] # q
    BY <1>w, <2>1 DEF OrdersOf
  <2> QED BY <1>0, <1>3, <2>2, <2>3, QuotedMove DEF QuoteConvertLoad, follow
<1>4. CASE QuoteSave(w)
  <2>1. PICK q, s : q = job[w].quotation /\ s = job[w].status
    OBVIOUS
  <2>2. /\ q \in Quotations /\ quotations' = [quotations EXCEPT ![q] = s] /\ UNCHANGED origin
        /\ job[w].step = "quote_save"
    BY <1>0, <1>4, <2>1 DEF QuoteSave, At, Jobs, JobShape, QuoteShape
  <2>3. job'[w].step = "idle"
    BY <1>0, <1>4, Responded DEF QuoteSave, Idle
  <2> QED BY <1>0, <1>w, <2>1, <2>2, <2>3, QuotedReply
<1>5. CASE AnswerQuote(w)
  <2>1. PICK q \in Quotations :
          \/ "accept_quote" \in clients /\ quotations' = [quotations EXCEPT ![q] = "ACCEPTED"]
          \/ "reject_quote" \in clients /\ quotations' = [quotations EXCEPT ![q] = "REJECTED"]
    BY <1>5 DEF AnswerQuote, Takes
  <2>2. job'[w].step = "idle" /\ UNCHANGED origin
    BY <1>5 DEF AnswerQuote, Takes, At
  <2>3. CASE "accept_quote" \in clients /\ quotations' = [quotations EXCEPT ![q] = "ACCEPTED"]
    BY <1>0, <2>2, <2>3, QuotedReply DEF QuotedOnce
  <2>4. CASE "reject_quote" \in clients /\ quotations' = [quotations EXCEPT ![q] = "REJECTED"]
    BY <1>0, <2>2, <2>4, QuotedReply
  <2> QED BY <2>1, <2>3, <2>4
<1>6. CASE QuoteConvertSave(w)
  <2>1. PICK q : q = job[w].quotation
    OBVIOUS
  <2>2. PICK o \in Orders : origin' = [origin EXCEPT ![o] = q]
    BY <1>6, <2>1 DEF QuoteConvertSave
  <2>3. /\ q \in Quotations /\ quotations' = [quotations EXCEPT ![q] = "CONVERTED"]
        /\ job[w].step = "quote_convert" /\ UNCHANGED <<clients, overlap>>
    BY <1>0, <1>6, <2>1 DEF QuoteConvertSave, At, Jobs, JobShape, QuoteShape
  <2>4. job'[w].step = "idle"
    BY <1>0, <1>6, Responded DEF QuoteConvertSave, Idle
  <2>5. QuotedOnce => \A v \in Workers : job'[v].step = "idle"
    BY <1>0, <2>4 DEF Serves, Others, Alone, At, QuotedOnce
  <2>6. QuotedOnce => \A x \in Orders : origin[x] # q
    BY <1>w, <2>1, <2>3
  <2>7. /\ \A x \in Orders : origin'[x] = IF x = o THEN q ELSE origin[x]
        /\ \A x \in Quotations : quotations'[x] = IF x = q THEN "CONVERTED" ELSE quotations[x]
    BY <1>0, <2>2, <2>3 DEF QuoteTypes
  <2>8. QuotedOnce' <=> QuotedOnce
    BY <2>3 DEF QuotedOnce
  <2>9. QuotedOnce => \A y, x \in Orders : origin'[y] \in Quotations /\ origin'[x] = origin'[y] => x = y
    BY <1>w, <2>6, <2>7
  <2>10. QuotedOnce => \A x \in Orders : origin'[x] \in Quotations =>
             \/ quotations'[origin'[x]] = "CONVERTED"
             \/ quotations'[origin'[x]] = "REJECTED" /\ "reject_quote" \in clients
    BY <1>w, <2>6, <2>7
  <2> QED BY <2>3, <2>5, <2>8, <2>9, <2>10 DEF Quoted
<1> QED BY <1>0, <1>1, <1>2, <1>3, <1>4, <1>5, <1>6, QuoteSteps

LEMMA InitQuoted == AllInit => Quoted
<1> SUFFICES ASSUME AllInit PROVE Quoted
  OBVIOUS
<1>1. \A w \in Workers : job[w].step = "idle"
  BY DEF AllInit, Init, SellingInit, Idle
<1>2. \A o \in Orders : origin[o] = "none" /\ "none" \notin Quotations
  BY AftersalesAssumption DEF AllInit
<1> QED BY <1>1, <1>2 DEF Quoted

----
(* What has been delivered. *)

LEMMA MinMore ==
  ASSUME NEW q \in Nat, NEW h \in Nat, NEW n \in Nat
  PROVE  Min({q, Min({q, h}) + n}) = Min({q, h + n})
<1>1. Min({q, h}) = IF q <= h THEN q ELSE h
  BY MinPair
<1>2. Min({q, h + n}) = IF q <= h + n THEN q ELSE h + n
  BY MinPair
<1>3. \A m \in Nat : Min({q, m + n}) = IF q <= m + n THEN q ELSE m + n
  BY MinPair
<1> QED BY <1>1, <1>2, <1>3

\* What a step does to orders and deliveries.
LEMMA DeliverySteps ==
  ASSUME Jobs, NEW w \in Workers, Work(w)
  PROVE  \/ (ConfirmOrder(w) \/ OrderEditSave(w)) /\ UNCHANGED <<fulfilled, handed>>
         \/ QuoteConvertSave(w)
         \/ DeliverLoad(w) \/ DeliverCount(w) \/ DeliverCommit(w)
         \/ /\ UNCHANGED <<orders, fulfilled, handed>>
            /\ job'[w] = job[w] \/ job'[w].step \notin {"deliver", "delivering"}
<1>1. \/ DeliverLoad(w) \/ DeliverCount(w)
      \/ job'[w] = job[w] \/ job'[w].step \notin {"deliver", "delivering"}
  BY NextJob, TakenUp DEF TakesUp, Idle, ForInvoice, ForPayment, NewPayment
<1>2. \/ (ConfirmOrder(w) \/ OrderEditSave(w)) /\ UNCHANGED <<fulfilled, handed>>
      \/ QuoteConvertSave(w)
      \/ DeliverLoad(w) \/ DeliverCount(w) \/ DeliverCommit(w)
      \/ UNCHANGED <<orders, fulfilled, handed>>
  <2>1. CASE Trade(w) /\ UNCHANGED follow
    BY <2>1 DEF Trade, SellingStep, OrderEditLoad, Sell, VoidSaleLoad, VoidSaleSave, goods, follow,
                delivering
  <2>2. CASE QuoteStep(w)
    BY <2>2 DEF QuoteStep, QuoteLoad, QuoteSave, AnswerQuote, QuoteConvertLoad, follow, delivering
  <2>3. CASE NoteStep(w)
    BY <2>3 DEF NoteStep, CreateNote, NoteLoad, NoteSave, Dispatch, DeleteNote, follow, delivering
  <2>4. CASE (InvoiceStep(w) \/ PaymentStep(w) \/ Abort(w)) /\ UNCHANGED follow
    <3>1. UNCHANGED goods
      BY <2>4, Untouched
    <3> QED BY <2>4, <3>1 DEF goods, follow, delivering
  <2>5. CASE ReturnStep(w)
    <3>1. UNCHANGED goods /\ UNCHANGED delivering
      BY <2>5, Untouched
    <3> QED BY <3>1 DEF goods, delivering
  <2> QED BY <2>1, <2>2, <2>3, <2>4, <2>5 DEF Work
<1> QED BY <1>1, <1>2

\* Every line of an order has been fulfilled.
Full(o) == \A p \in Products : fulfilled[o][p] = Quantity[o][p]

\* A line has all that was counted for it.
HandedOver == \A o \in Orders, p \in Products : fulfilled[o][p] = Min({Quantity[o][p], handed[o][p]})

\* What deliver has counted, and the status that it has found, are still right.
Carrying(j) ==
  /\ j.step \in {"deliver", "delivering"} =>
       j.counted = Min({Quantity[j.order][j.product], handed[j.order][j.product] + j.quantity})
  /\ j.step = "delivering" =>
       (j.status = "FULFILLED" <=>
          \A p \in Products :
            Quantity[j.order][p] = IF p = j.product THEN j.counted ELSE fulfilled[j.order][p])

Delivered ==
  ~overlap =>
    /\ HandedOver
    /\ "edit_order" \in clients \/ \A o \in Orders : orders[o] = "FULFILLED" <=> Full(o)
    /\ \A w \in Workers : Carrying(job[w])

\* An order becomes what is not FULFILLED, and was not FULFILLED before.
LEMMA DeliveredOrders ==
  ASSUME SellingTypes, Delivered, NEW w \in Workers, Serves(w), UNCHANGED <<fulfilled, handed>>,
         "edit_order" \in clients \/ \A o \in Orders : orders'[o] = "FULFILLED" <=> orders[o] = "FULFILLED",
         job'[w] = job[w] \/ (~overlap => Carrying(job'[w]))
  PROVE  Delivered'
<1>1. UNCHANGED <<clients, overlap>>
  BY DEF Serves
<1>2. ~overlap => \A v \in Workers : Carrying(job'[v])
  BY DEF Delivered, Serves, Others
<1>3. ~overlap => \A v \in Workers : Carrying(job[v])'
  BY <1>2 DEF Carrying
<1>4. /\ HandedOver' = HandedOver
      /\ \A o \in Orders : Full(o)' = Full(o)
  BY DEF HandedOver, Full
<1> QED BY <1>1, <1>3, <1>4 DEF Delivered

LEMMA DeliverLoaded ==
  ASSUME Jobs, NoteTypes, SellingTypes, Delivered, NEW w \in Workers, Serves(w), DeliverLoad(w)
  PROVE  Delivered'
<1>1. PICK n \in Notes :
        /\ notes[n].status # "ABSENT"
        /\ Becomes(w, [step |-> "deliver", note |-> n, order |-> notes[n].order,
             product |-> notes[n].product, quantity |-> notes[n].quantity,
             counted |-> Min({Quantity[notes[n].order][notes[n].product],
               fulfilled[notes[n].order][notes[n].product] + notes[n].quantity})])
  BY DEF DeliverLoad
<1>2. PICK o, p, quantity :
        o = notes[n].order /\ p = notes[n].product /\ quantity = notes[n].quantity
  OBVIOUS
<1>3. o \in Orders /\ p \in Products /\ quantity \in Nat
  BY <1>1, <1>2, NoteThere DEF Written, FollowRow
<1>4. PICK counted : counted = Min({Quantity[o][p], fulfilled[o][p] + quantity})
  OBVIOUS
<1>5. job'[w] = [step |-> "deliver", note |-> n, order |-> o, product |-> p,
                 quantity |-> quantity, counted |-> counted]
  BY <1>1, <1>2, <1>4 DEF Jobs, Becomes
<1>6. /\ job'[w].step = "deliver" /\ job'[w].order = o /\ job'[w].product = p
      /\ job'[w].quantity = quantity /\ job'[w].counted = counted
  BY <1>5
<1>7. ~overlap => counted = Min({Quantity[o][p], handed[o][p] + quantity})
  <2>1. Quantity[o][p] \in Nat /\ handed[o][p] \in Nat
    BY <1>3, SellingAssumption DEF NoteTypes
  <2>2. ~overlap => fulfilled[o][p] = Min({Quantity[o][p], handed[o][p]})
    BY <1>3 DEF Delivered, HandedOver
  <2>3. PICK x, y : x = Quantity[o][p] /\ y = handed[o][p]
    OBVIOUS
  <2>4. Min({x, Min({x, y}) + quantity}) = Min({x, y + quantity})
    <3>1. x \in Nat /\ y \in Nat
      BY <2>1, <2>3
    <3> QED BY <1>3, <3>1, MinMore
  <2> QED BY <1>4, <2>2, <2>3, <2>4
<1>8. ~overlap => Carrying(job'[w])
  BY <1>6, <1>7 DEF Carrying
<1>9. UNCHANGED <<orders, fulfilled, handed>>
  BY DEF DeliverLoad, follow, delivering
<1> QED BY <1>8, <1>9, DeliveredOrders

\* With the line that deliver counts, the order is filled when every line is full.
LEMMA FilledFull ==
  ASSUME NoteTypes, NEW o \in Orders, NEW p \in Products, NEW counted \in Nat,
         counted <= Quantity[o][p]
  PROVE  Filled(o, [fulfilled[o] EXCEPT ![p] = counted])
           <=> \A x \in Products : Quantity[o][x] = IF x = p THEN counted ELSE fulfilled[o][x]
<1>1. \A x \in Products : /\ Quantity[o][x] \in Nat /\ fulfilled[o][x] \in Nat
                          /\ fulfilled[o][x] <= Quantity[o][x]
  BY SellingAssumption DEF NoteTypes
<1>2. \A x \in Products :
        [fulfilled[o] EXCEPT ![p] = counted][x] = IF x = p THEN counted ELSE fulfilled[o][x]
  BY DEF NoteTypes
<1> QED BY <1>1, <1>2 DEF Filled, Lines

LEMMA DeliverCounted ==
  ASSUME Jobs, NoteTypes, SellingTypes, Delivered, NEW w \in Workers, Serves(w), DeliverCount(w)
  PROVE  Delivered'
<1>1. PICK o, p, quantity, counted :
        o = job[w].order /\ p = job[w].product /\ quantity = job[w].quantity
          /\ counted = job[w].counted
  OBVIOUS
<1>2. /\ o \in Orders /\ p \in Products /\ counted \in Nat /\ counted <= Quantity[o][p]
      /\ job[w].step = "deliver"
  BY <1>1 DEF Jobs, JobShape, NoteShape, DeliverCount, At
<1>3. PICK s : s = IF Filled(o, [fulfilled[o] EXCEPT ![p] = counted])
                   THEN "FULFILLED" ELSE "PARTIALLY_FULFILLED"
  OBVIOUS
<1>4. job'[w] = [step |-> "delivering", note |-> job[w].note, order |-> o, product |-> p,
                 quantity |-> quantity, counted |-> counted, status |-> s]
  BY <1>1, <1>3 DEF DeliverCount, Jobs, Becomes
<1>5. /\ job'[w].step = "delivering" /\ job'[w].order = o /\ job'[w].product = p
      /\ job'[w].quantity = quantity /\ job'[w].counted = counted /\ job'[w].status = s
  BY <1>4
<1>6. s = "FULFILLED"
        <=> \A x \in Products : Quantity[o][x] = IF x = p THEN counted ELSE fulfilled[o][x]
  BY <1>2, <1>3, FilledFull
<1>7. ~overlap => counted = Min({Quantity[o][p], handed[o][p] + quantity})
  BY <1>1, <1>2 DEF Delivered, Carrying
<1>8. ~overlap => Carrying(job'[w])
  BY <1>5, <1>6, <1>7 DEF Carrying
<1>9. UNCHANGED <<orders, fulfilled, handed>>
  BY DEF DeliverCount, follow, delivering
<1> QED BY <1>8, <1>9, DeliveredOrders

LEMMA DeliverCommitted ==
  ASSUME Jobs, NoteTypes, SellingTypes, Delivered, NEW w \in Workers, Alone(w), Serves(w),
         DeliverCommit(w)
  PROVE  Delivered'
<1>1. PICK o, p, quantity, counted, s :
        o = job[w].order /\ p = job[w].product /\ quantity = job[w].quantity
          /\ counted = job[w].counted /\ s = job[w].status
  OBVIOUS
<1>2. o \in Orders /\ p \in Products /\ counted \in Nat /\ quantity \in Nat /\ job[w].step = "delivering"
  BY <1>1 DEF Jobs, JobShape, NoteShape, DeliverCommit, At
<1>3. /\ fulfilled' = [fulfilled EXCEPT ![o][p] = counted]
      /\ handed' = [handed EXCEPT ![o][p] = @ + quantity]
      /\ orders' = [orders EXCEPT ![o] = s] /\ UNCHANGED <<clients, overlap>>
  BY <1>1 DEF DeliverCommit
<1>4. job'[w] = Idle
  BY Responded DEF DeliverCommit
<1> SUFFICES ASSUME ~overlap PROVE Delivered'
  BY <1>3 DEF Delivered
<1>5. \A v \in Workers : job'[v].step = "idle"
  BY <1>4 DEF Serves, Others, Alone, At, Idle
<1>6. \A v \in Workers : Carrying(job[v])'
  BY <1>5 DEF Carrying
<1>7. /\ counted = Min({Quantity[o][p], handed[o][p] + quantity})
      /\ s = "FULFILLED"
           <=> \A x \in Products : Quantity[o][x] = IF x = p THEN counted ELSE fulfilled[o][x]
  BY <1>1, <1>2 DEF Delivered, Carrying
<1>8. \A x \in Orders, y \in Products :
        /\ fulfilled'[x][y] = IF x = o /\ y = p THEN counted ELSE fulfilled[x][y]
        /\ handed'[x][y] = IF x = o /\ y = p THEN handed[o][p] + quantity ELSE handed[x][y]
  BY <1>2, <1>3 DEF NoteTypes
<1>9. HandedOver'
  BY <1>7, <1>8 DEF Delivered, HandedOver
<1>10. \A x \in Orders : orders'[x] = IF x = o THEN s ELSE orders[x]
  BY <1>3 DEF SellingTypes
<1>11. ASSUME "edit_order" \notin clients, NEW x \in Orders
       PROVE  orders'[x] = "FULFILLED" <=> Full(x)'
  <2>1. CASE x = o
    <3>1. Full(x)' <=> \A y \in Products : Quantity[o][y] = IF y = p THEN counted ELSE fulfilled[o][y]
      BY <1>8, <2>1 DEF Full
    <3> QED BY <1>7, <1>10, <2>1, <3>1
  <2>2. CASE x # o
    <3>1. Full(x)' <=> Full(x)
      BY <1>8, <2>2 DEF Full
    <3> QED BY <1>10, <1>11, <2>2, <3>1 DEF Delivered
  <2> QED BY <2>1, <2>2
<1> QED BY <1>3, <1>6, <1>9, <1>11 DEF Delivered

LEMMA WorkDelivered ==
  ASSUME Typed, Matched, Delivered, NEW w \in Workers, Work(w)
  PROVE  Delivered'
<1>0. Jobs /\ NoteTypes /\ SellingTypes /\ Alone(w) /\ Serves(w)
  BY WorkTyped, WorkAlone DEF Typed
<1>1. CASE DeliverLoad(w) \/ DeliverCount(w) \/ DeliverCommit(w)
  BY <1>0, <1>1, DeliverLoaded, DeliverCounted, DeliverCommitted
<1>2. CASE /\ UNCHANGED <<orders, fulfilled, handed>>
           /\ job'[w] = job[w] \/ job'[w].step \notin {"deliver", "delivering"}
  <2>1. job'[w] = job[w] \/ Carrying(job'[w])
    BY <1>2 DEF Carrying
  <2> QED BY <1>0, <1>2, <2>1, DeliveredOrders
<1>3. CASE ConfirmOrder(w) /\ UNCHANGED <<fulfilled, handed>>
  <2>1. PICK o \in Orders : /\ orders[o] = "DRAFT"
                            /\ \/ orders' = [orders EXCEPT ![o] = "CONFIRMED"] \/ UNCHANGED orders
    BY <1>3 DEF ConfirmOrder
  <2>2. \A x \in Orders : orders'[x] = "FULFILLED" <=> orders[x] = "FULFILLED"
    BY <1>0, <2>1 DEF SellingTypes
  <2>3. job'[w] = job[w]
    BY <1>3 DEF ConfirmOrder
  <2> QED BY <1>0, <1>3, <2>2, <2>3, DeliveredOrders
<1>4. CASE OrderEditSave(w) /\ UNCHANGED <<fulfilled, handed>>
  <2>1. "edit_order" \in clients
    BY <1>0, <1>4 DEF OrderEditSave, At, Jobs, JobShape, OrderShape
  <2>2. job'[w] = Idle
    BY <1>0, <1>4, Responded DEF OrderEditSave
  <2>3. Carrying(job'[w])
    BY <2>2 DEF Carrying, Idle
  <2> QED BY <1>0, <1>4, <2>1, <2>3, DeliveredOrders
<1>5. CASE QuoteConvertSave(w)
  <2>1. PICK o \in Orders : orders[o] = "ABSENT" /\ orders' = [orders EXCEPT ![o] = "DRAFT"]
    BY <1>5 DEF QuoteConvertSave
  <2>2. \A x \in Orders : orders'[x] = "FULFILLED" <=> orders[x] = "FULFILLED"
    BY <1>0, <2>1 DEF SellingTypes
  <2>3. job'[w] = Idle /\ UNCHANGED <<fulfilled, handed>>
    BY <1>0, <1>5, Responded DEF QuoteConvertSave, delivering
  <2>4. Carrying(job'[w])
    BY <2>3 DEF Carrying, Idle
  <2> QED BY <1>0, <2>2, <2>3, <2>4, DeliveredOrders
<1> QED BY <1>0, <1>1, <1>2, <1>3, <1>4, <1>5, DeliverySteps

LEMMA InitDelivered == AllInit => Delivered
<1> SUFFICES ASSUME AllInit PROVE Delivered
  OBVIOUS
<1>1. \A w \in Workers : job[w].step = "idle"
  BY DEF AllInit, Init, SellingInit, Idle
<1>2. \A o \in Orders, p \in Products :
        Quantity[o][p] \in Nat /\ fulfilled[o][p] = 0 /\ handed[o][p] = 0
  BY SellingAssumption DEF AllInit
<1>3. HandedOver
  BY <1>2, MinPair DEF HandedOver
<1>4. \A o \in Orders : orders[o] # "FULFILLED" /\ ~Full(o)
  <2>1. \A o \in Orders : orders[o] # "FULFILLED"
    BY DEF AllInit, Init, SellingInit
  <2>2. \A o \in Orders : \E p \in Products : Quantity[o][p] > 0
    BY SellingAssumption
  <2>3. \A o \in Orders : ~Full(o)
    BY <1>2, <2>2 DEF Full
  <2> QED BY <2>1, <2>3
<1>5. \A w \in Workers : Carrying(job[w])
  BY <1>1 DEF Carrying
<1> QED BY <1>3, <1>4, <1>5 DEF Delivered

----
(* What has been returned. *)

\* A return that counts, the returns of a line that do, and their units.
Keeps(row) == row.status \notin {"ABSENT", "REJECTED", "CANCELLED"}
Returning(rows, o, p) == {x \in Returns : Keeps(rows[x]) /\ rows[x].order = o /\ rows[x].product = p}
Taken(rows, R) == SumFunctionOnSet([x \in Returns |-> rows[x].quantity], R)

LEMMA UnitsTaken ==
  ASSUME NEW o, NEW p, NEW r
  PROVE  ReturnedUnits(o, p, r) = Taken(saleReturns, Returning(saleReturns, o, p) \ {r})
<1>1. {x \in Returns \ {r} : /\ saleReturns[x].status \notin {"ABSENT", "REJECTED", "CANCELLED"}
                             /\ saleReturns[x].order = o /\ saleReturns[x].product = p}
        = Returning(saleReturns, o, p) \ {r}
  BY DEF Returning, Keeps
<1> QED BY <1>1 DEF ReturnedUnits, Taken

\* The units of one return, and those of the others.
LEMMA TakenApart ==
  ASSUME NEW rows \in [Returns -> FollowRow(ReturnStatuses)], NEW o, NEW p, NEW r
  PROVE  /\ Taken(rows, Returning(rows, o, p) \ {r}) \in Nat
         /\ Taken(rows, Returning(rows, o, p))
              = Taken(rows, Returning(rows, o, p) \ {r})
                  + (IF r \in Returning(rows, o, p) THEN rows[r].quantity ELSE 0)
<1>1. PICK R : R = Returning(rows, o, p)
  OBVIOUS
<1>2. R \subseteq Returns /\ IsFiniteSet(R) /\ IsFiniteSet(R \ {r})
  BY <1>1, AftersalesAssumption, FS_Subset DEF Returning
<1> DEFINE f == [x \in Returns |-> rows[x].quantity]
<1>3. \A x \in Returns : f[x] \in Nat /\ f[x] = rows[x].quantity
  BY DEF FollowRow
<1>4. \A S : Taken(rows, S) = SumFunctionOnSet(f, S)
  BY DEF Taken
<1> HIDE DEF f
<1>5. SumFunctionOnSet(f, R \ {r}) \in Nat
  BY <1>2, <1>3, SumNat
<1>6. CASE r \in R
  <2>1. \A x \in R : f[x] \in Int
    BY <1>2, <1>3
  <2>2. SumFunctionOnSet(f, R) = f[r] + SumFunctionOnSet(f, R \ {r})
    BY <1>2, <1>6, <2>1, SumPick
  <2> QED BY <1>1, <1>2, <1>3, <1>4, <1>5, <1>6, <2>2
<1>7. CASE r \notin R
  <2>1. R \ {r} = R
    BY <1>7
  <2> QED BY <1>1, <1>4, <1>5, <1>7, <2>1
<1> QED BY <1>6, <1>7

\* The returns other than r are as they were.
Spared(rows, later, r) == \A x \in Returns \ {r} : later[x] = rows[x]

LEMMA TakenSame ==
  ASSUME NEW rows, NEW later, NEW o, NEW p, NEW r, Spared(rows, later, r)
  PROVE  Taken(later, Returning(later, o, p) \ {r}) = Taken(rows, Returning(rows, o, p) \ {r})
<1>1. PICK R : R = Returning(rows, o, p) \ {r}
  OBVIOUS
<1>2. Returning(later, o, p) \ {r} = R
  BY <1>1 DEF Returning, Spared
<1>3. R \subseteq Returns \ {r} /\ IsFiniteSet(R)
  BY <1>1, AftersalesAssumption, FS_Subset DEF Returning
<1> DEFINE f == [x \in Returns |-> rows[x].quantity]
           g == [x \in Returns |-> later[x].quantity]
<1>4. \A x \in R : g[x] = f[x]
  BY <1>3 DEF Spared
<1>5. Taken(rows, R) = SumFunctionOnSet(f, R) /\ Taken(later, R) = SumFunctionOnSet(g, R)
  BY DEF Taken
<1> HIDE DEF f, g
<1>6. SumFunctionOnSet(g, R) = SumFunctionOnSet(f, R)
  BY <1>3, <1>4, SumSame
<1> QED BY <1>1, <1>2, <1>5, <1>6

\* What a step does to returns.
LEMMA ReturnSteps ==
  ASSUME Jobs, NEW w \in Workers, Work(w)
  PROVE  \/ CreateReturnLoad(w) \/ EditReturnLoad(w) \/ ReturnSave(w)
         \/ MoveReturnLoad(w) \/ MoveReturnSave(w) \/ DeleteReturn(w)
         \/ /\ UNCHANGED saleReturns
            /\ job'[w] = job[w] \/ job'[w].step \notin {"return_save", "return_move"}
<1>1. \/ CreateReturnLoad(w) \/ EditReturnLoad(w) \/ MoveReturnLoad(w)
      \/ job'[w] = job[w] \/ job'[w].step \notin {"return_save", "return_move"}
  BY NextJob, TakenUp DEF TakesUp, Idle, ForInvoice, ForPayment, NewPayment
<1>2. ReturnStep(w) \/ UNCHANGED saleReturns
  BY Untouched DEF Work, follow
<1> QED BY <1>1, <1>2 DEF ReturnStep

\* No return is brought back, nor its line edited.
ReturnedOnce == ~overlap /\ ~BroughtBack /\ {"edit_return", "repeat_lines"} \intersect clients = {}

\* What a request is about to save still fits the line.
Bringing(j, rows) ==
  /\ j.step = "return_save" =>
       /\ j.row.quantity + Taken(rows, Returning(rows, j.row.order, j.row.product) \ {j.return})
            <= Quantity[j.row.order][j.row.product]
       /\ "submit_return" \in clients => j.row.status # "REJECTED"
  /\ j.step = "return_move" =>
       /\ j.status \in {"REJECTED", "CANCELLED"} \/ Keeps(rows[j.return])
       /\ "submit_return" \in clients => j.status # "REJECTED"

Returned ==
  ReturnedOnce =>
    /\ \A o \in Orders, p \in Products :
         Taken(saleReturns, Returning(saleReturns, o, p)) <= Quantity[o][p]
    /\ "submit_return" \in clients => \A r \in Returns : saleReturns[r].status # "REJECTED"
    /\ \A w \in Workers : Bringing(job[w], saleReturns)

LEMMA ReturnedMove ==
  ASSUME Returned, NEW w \in Workers, Serves(w), UNCHANGED saleReturns,
         ReturnedOnce => Bringing(job'[w], saleReturns)
  PROVE  Returned'
<1>1. UNCHANGED <<clients, overlap>>
  BY DEF Serves
<1>2. ReturnedOnce' <=> ReturnedOnce
  BY <1>1 DEF ReturnedOnce, BroughtBack
<1>3. ReturnedOnce => \A v \in Workers : Bringing(job'[v], saleReturns)
  BY DEF Returned, Serves, Others
<1>4. ReturnedOnce => \A v \in Workers : Bringing(job[v], saleReturns)'
  BY <1>1, <1>3 DEF Bringing, Taken, Returning, Keeps
<1> QED BY <1>1, <1>2, <1>4 DEF Returned, Taken, Returning, Keeps

\* Return r becomes row.
LEMMA ReturnedWrite ==
  ASSUME Returned, ReturnTypes, ReturnTypes', NEW w \in Workers, Alone(w), Serves(w),
         job'[w].step = "idle", NEW r \in Returns, NEW row,
         saleReturns' = [saleReturns EXCEPT ![r] = row],
         ReturnedOnce =>
           /\ "submit_return" \in clients => row.status # "REJECTED"
           /\ \/ ~Keeps(row)
              \/ /\ Keeps(saleReturns[r]) /\ row.order = saleReturns[r].order
                 /\ row.product = saleReturns[r].product /\ row.quantity = saleReturns[r].quantity
              \/ row.quantity + Taken(saleReturns, Returning(saleReturns, row.order, row.product) \ {r})
                   <= Quantity[row.order][row.product]
  PROVE  Returned'
<1>1. UNCHANGED <<clients, overlap>>
  BY DEF Serves
<1>2. ReturnedOnce' <=> ReturnedOnce
  BY <1>1 DEF ReturnedOnce, BroughtBack
<1> SUFFICES ASSUME ReturnedOnce PROVE Returned'
  BY <1>2 DEF Returned
<1>3. \A v \in Workers : job'[v].step = "idle"
  BY DEF Serves, Others, Alone, At, ReturnedOnce
<1>4. \A v \in Workers : Bringing(job[v], saleReturns)'
  BY <1>3 DEF Bringing
<1>5. \A x \in Returns : saleReturns'[x] = IF x = r THEN row ELSE saleReturns[x]
  BY DEF ReturnTypes
<1>6. "submit_return" \in clients => \A x \in Returns : saleReturns'[x].status # "REJECTED"
  BY <1>5 DEF Returned
<1>7. ASSUME NEW o \in Orders, NEW p \in Products
      PROVE  Taken(saleReturns', Returning(saleReturns', o, p)) <= Quantity[o][p]
  <2>1. PICK q : q = Quantity[o][p]
    OBVIOUS
  <2>2. q \in Nat
    BY <2>1, SellingAssumption
  <2>3. PICK rows, later : rows = saleReturns /\ later = saleReturns'
    OBVIOUS
  <2>4. /\ rows \in [Returns -> FollowRow(ReturnStatuses)]
        /\ later \in [Returns -> FollowRow(ReturnStatuses)]
        /\ \A x \in Returns : later[x] = IF x = r THEN row ELSE rows[x]
    BY <1>5, <2>3 DEF ReturnTypes
  <2>5. PICK a, b, c :
          /\ a = Taken(rows, Returning(rows, o, p)) /\ b = Taken(later, Returning(later, o, p))
          /\ c = Taken(rows, Returning(rows, o, p) \ {r})
    OBVIOUS
  <2>6. /\ c \in Nat
        /\ a = c + (IF r \in Returning(rows, o, p) THEN rows[r].quantity ELSE 0)
    BY <2>4, <2>5, TakenApart
  <2>7. c = Taken(later, Returning(later, o, p) \ {r})
    <3>1. Spared(rows, later, r)
      BY <2>4 DEF Spared
    <3>2. Taken(later, Returning(later, o, p) \ {r}) = Taken(rows, Returning(rows, o, p) \ {r})
      BY <3>1, TakenSame
    <3> QED BY <2>5, <3>2
  <2>8. b = c + (IF r \in Returning(later, o, p) THEN later[r].quantity ELSE 0)
    <3>1. Taken(later, Returning(later, o, p))
            = Taken(later, Returning(later, o, p) \ {r})
                + (IF r \in Returning(later, o, p) THEN later[r].quantity ELSE 0)
      BY <2>4, TakenApart
    <3> QED BY <2>5, <2>7, <3>1
  <2>9. a <= q
    BY <2>1, <2>3, <2>5 DEF Returned
  <2>10. rows[r].quantity \in Nat /\ later[r].quantity \in Nat /\ later[r] = row
    BY <2>4 DEF FollowRow
  <2>11. b <= q
    <3>1. CASE r \notin Returning(later, o, p)
      BY <2>2, <2>6, <2>8, <2>9, <2>10, <3>1
    <3>2. CASE r \in Returning(later, o, p)
      <4>1. Keeps(row) /\ row.order = o /\ row.product = p
        BY <2>10, <3>2 DEF Returning
      <4>2. CASE /\ Keeps(rows[r]) /\ row.order = rows[r].order
                 /\ row.product = rows[r].product /\ row.quantity = rows[r].quantity
        <5>1. r \in Returning(rows, o, p)
          BY <4>1, <4>2 DEF Returning
        <5> QED BY <2>6, <2>8, <2>9, <2>10, <3>2, <4>2, <5>1
      <4>3. CASE row.quantity + c <= q
        BY <2>2, <2>6, <2>8, <2>10, <3>2, <4>3
      <4> QED BY <2>1, <2>3, <2>5, <4>1, <4>2, <4>3
    <3> QED BY <3>1, <3>2
  <2> QED BY <2>1, <2>3, <2>5, <2>11
<1>8. \A o \in Orders, p \in Products :
        (Taken(saleReturns, Returning(saleReturns, o, p)) <= Quantity[o][p])'
  BY <1>7 DEF Taken, Returning, Keeps
<1> QED BY <1>1, <1>4, <1>6, <1>8 DEF Returned

LEMMA WorkReturned ==
  ASSUME Typed, Typed', Matched, Returned, NEW w \in Workers, Work(w)
  PROVE  Returned'
<1>0. Jobs /\ ReturnTypes /\ ReturnTypes' /\ Alone(w) /\ Serves(w)
  BY WorkTyped, WorkAlone DEF Typed
<1>w. ReturnedOnce =>
        /\ "submit_return" \in clients => \A r \in Returns : saleReturns[r].status # "REJECTED"
        /\ Bringing(job[w], saleReturns)
  BY DEF Returned
<1>1. CASE /\ UNCHANGED saleReturns
           /\ job'[w] = job[w] \/ job'[w].step \notin {"return_save", "return_move"}
  <2>1. ReturnedOnce => Bringing(job'[w], saleReturns)
    BY <1>w, <1>1 DEF Bringing
  <2> QED BY <1>0, <1>1, <2>1, ReturnedMove
<1>2. CASE CreateReturnLoad(w)
  <2>1. PICK r \in Returns, o \in Orders : \E row \in ReturnLines(o, r) :
          Becomes(w, [step |-> "return_save", return |-> r, lined |-> TRUE, row |-> row])
    BY <1>2 DEF CreateReturnLoad
  <2>2. PICK row \in ReturnLines(o, r) :
          Becomes(w, [step |-> "return_save", return |-> r, lined |-> TRUE, row |-> row])
    BY <2>1
  <2>3. /\ row.order = o /\ row.status \in NewReturnStatuses /\ row.product \in Products
        /\ row.quantity \in Nat
    BY <2>2, ReturnLineShape DEF Written, FollowRow
  <2>4. job'[w] = [step |-> "return_save", return |-> r, lined |-> TRUE, row |-> row]
    BY <1>0, <2>2 DEF Jobs, Becomes
  <2>5. job'[w].step = "return_save" /\ job'[w].return = r /\ job'[w].row = row
    BY <2>4
  <2>6. ReturnedOnce =>
          row.quantity + Taken(saleReturns, Returning(saleReturns, o, row.product) \ {r})
            <= Quantity[o][row.product]
    <3>1. PICK t, q : /\ t = Taken(saleReturns, Returning(saleReturns, o, row.product) \ {r})
                      /\ q = Quantity[o][row.product]
      OBVIOUS
    <3>2. q \in Nat
      BY <2>3, <3>1, SellingAssumption
    <3>3. t \in Nat
      BY <1>0, <3>1, TakenApart DEF ReturnTypes
    <3>4. ReturnedOnce => row.quantity <= q - t
      BY <2>2, <3>1, ReturnLineShape, UnitsTaken DEF Remaining, ReturnedOnce
    <3> QED BY <2>3, <3>1, <3>2, <3>3, <3>4
  <2>7. ReturnedOnce /\ "submit_return" \in clients => row.status # "REJECTED"
    BY <2>3 DEF ReturnedOnce, BroughtBack
  <2>8. ReturnedOnce => Bringing(job'[w], saleReturns)
    BY <2>3, <2>5, <2>6, <2>7 DEF Bringing
  <2> QED BY <1>0, <1>2, <2>8, ReturnedMove DEF CreateReturnLoad, follow
<1>3. CASE EditReturnLoad(w)
  <2>1. "edit_return" \in clients /\ UNCHANGED saleReturns
    BY <1>3 DEF EditReturnLoad, Takes, follow
  <2>2. ~ReturnedOnce
    BY <2>1 DEF ReturnedOnce
  <2> QED BY <1>0, <2>1, <2>2, ReturnedMove
<1>4. CASE ReturnSave(w)
  <2>1. PICK r, row : r = job[w].return /\ row = job[w].row
    OBVIOUS
  <2>2. /\ r \in Returns /\ job[w].step = "return_save"
        /\ job[w].lined \/ "edit_return" \in clients
    BY <1>0, <1>4, <2>1 DEF Jobs, JobShape, ReturnShape, ReturnSave, At
  <2>3. PICK next : /\ saleReturns' = [saleReturns EXCEPT ![r] = next]
                    /\ job[w].lined => next = row
    BY <1>4, <2>1 DEF ReturnSave
  <2>4. job'[w].step = "idle"
    BY <1>0, <1>4, Responded DEF ReturnSave, Idle
  <2>5. ReturnedOnce =>
          /\ next = row
          /\ "submit_return" \in clients => next.status # "REJECTED"
          /\ next.quantity + Taken(saleReturns, Returning(saleReturns, next.order, next.product) \ {r})
               <= Quantity[next.order][next.product]
    BY <1>w, <2>1, <2>2, <2>3 DEF ReturnedOnce, Bringing
  <2> QED BY <1>0, <2>2, <2>3, <2>4, <2>5, ReturnedWrite
<1>5. CASE MoveReturnLoad(w)
  <2>1. PICK r \in Returns, move \in ReturnMoves :
          /\ move.kind \in clients /\ saleReturns[r].status \in move.from
          /\ Becomes(w, [step |-> "return_move", return |-> r, status |-> move.to])
    BY <1>5 DEF MoveReturnLoad, Takes
  <2>2. PICK s : s = move.to
    OBVIOUS
  <2>3. job'[w] = [step |-> "return_move", return |-> r, status |-> s]
    BY <1>0, <2>1, <2>2 DEF Jobs, Becomes
  <2>4. job'[w].step = "return_move" /\ job'[w].return = r /\ job'[w].status = s
    BY <2>3
  <2>5. ReturnedOnce => s \in {"REJECTED", "CANCELLED"} \/ Keeps(saleReturns[r])
    BY <1>w, <2>1, <2>2 DEF ReturnMoves, Keeps
  <2>6. ReturnedOnce /\ "submit_return" \in clients => s # "REJECTED"
    BY <2>1, <2>2 DEF ReturnMoves, ReturnedOnce, BroughtBack
  <2>7. ReturnedOnce => Bringing(job'[w], saleReturns)
    BY <2>4, <2>5, <2>6 DEF Bringing
  <2> QED BY <1>0, <1>5, <2>7, ReturnedMove DEF MoveReturnLoad, follow
<1>6. CASE MoveReturnSave(w)
  <2>1. PICK r, s : r = job[w].return /\ s = job[w].status
    OBVIOUS
  <2>2. r \in Returns /\ job[w].step = "return_move" /\ s \in ReturnStatuses
    BY <1>0, <1>6, <2>1 DEF Jobs, JobShape, ReturnShape, MoveReturnSave, At
  <2>3. saleReturns' = [saleReturns EXCEPT ![r].status = s]
    BY <1>6, <2>1 DEF MoveReturnSave
  <2>4. PICK row : row = [saleReturns[r] EXCEPT !.status = s]
    OBVIOUS
  <2>5. saleReturns[r] \in FollowRow(ReturnStatuses)
    BY <1>0, <2>2 DEF ReturnTypes
  <2>6. /\ row.status = s /\ row.order = saleReturns[r].order
        /\ row.product = saleReturns[r].product /\ row.quantity = saleReturns[r].quantity
    BY <2>4, <2>5 DEF FollowRow
  <2>7. saleReturns' = [saleReturns EXCEPT ![r] = row]
    BY <2>3, <2>4
  <2>8. job'[w].step = "idle"
    BY <1>0, <1>6, Responded DEF MoveReturnSave, Idle
  <2>9. ReturnedOnce =>
          /\ "submit_return" \in clients => row.status # "REJECTED"
          /\ ~Keeps(row) \/ Keeps(saleReturns[r])
    BY <1>w, <2>1, <2>2, <2>6 DEF Bringing, Keeps
  <2> QED BY <1>0, <2>2, <2>6, <2>7, <2>8, <2>9, ReturnedWrite
<1>7. CASE DeleteReturn(w)
  <2>1. PICK r \in Returns : saleReturns' = [saleReturns EXCEPT ![r] = NoRow]
    BY <1>7 DEF DeleteReturn
  <2>2. job'[w].step = "idle"
    BY <1>7 DEF DeleteReturn, Takes, At
  <2>3. ~Keeps(NoRow) /\ NoRow.status # "REJECTED"
    BY DEF Keeps, NoRow
  <2> QED BY <1>0, <2>1, <2>2, <2>3, ReturnedWrite
<1> QED BY <1>0, <1>1, <1>2, <1>3, <1>4, <1>5, <1>6, <1>7, ReturnSteps

LEMMA InitReturned == AllInit => Returned
<1> SUFFICES ASSUME AllInit PROVE Returned
  OBVIOUS
<1>1. \A w \in Workers : job[w].step = "idle"
  BY DEF AllInit, Init, SellingInit, Idle
<1>2. \A r \in Returns : saleReturns[r].status = "ABSENT"
  BY DEF AllInit, NoRow
<1>3. \A o, p : Returning(saleReturns, o, p) = {}
  BY <1>2 DEF Returning, Keeps
<1>4. \A o, p : Taken(saleReturns, Returning(saleReturns, o, p)) = 0
  BY <1>3, SumEmpty DEF Taken
<1>5. \A o \in Orders, p \in Products : Taken(saleReturns, Returning(saleReturns, o, p)) <= Quantity[o][p]
  BY <1>4, SellingAssumption
<1>6. \A w \in Workers : Bringing(job[w], saleReturns)
  BY <1>1 DEF Bringing
<1> QED BY <1>2, <1>5, <1>6 DEF Returned

----

\* All that is known of what follows an order.
Followed == Invoiced /\ Quoted /\ Delivered /\ Returned

LEMMA StepFollowed ==
  ASSUME Money, Followed, [AllNext]_allVars
  PROVE  Followed'
<1>1. Typed /\ Typed' /\ Matched /\ Invoiced /\ Quoted /\ Delivered /\ Returned
  BY StepTyped DEF Money, Followed
<1>2. CASE AllNext
  <2>1. PICK w \in Workers : Work(w)
    BY <1>2, SomeWork
  <2> QED BY <1>1, <2>1, WorkInvoiced, WorkQuoted, WorkDelivered, WorkReturned DEF Followed
<1>3. CASE UNCHANGED allVars
  <2>1. UNCHANGED <<clients, overlap, orders, job, invoices, quotations, origin, fulfilled, handed,
                    saleReturns>>
    BY <1>3 DEF allVars, vars, goods, follow, quoting, delivering
  <2>2. Invoiced' /\ Quoted'
    BY <1>1, <2>1 DEF Invoiced, OneInvoice, FirstOfOrder, OfOneOrder, Stands, Quoted, QuotedOnce
  <2>3. Delivered'
    BY <1>1, <2>1 DEF Delivered, HandedOver, Full, Carrying
  <2>4. Returned'
    BY <1>1, <2>1 DEF Returned, ReturnedOnce, BroughtBack, Bringing, Taken, Returning, Keeps
  <2> QED BY <2>2, <2>3, <2>4 DEF Followed
<1> QED BY <1>2, <1>3

LEMMA InitFollowed == AllInit => Followed
BY InitInvoiced, InitQuoted, InitDelivered, InitReturned DEF Followed

LEMMA AtMostOne ==
  ASSUME NEW S, \A x, y \in S : x = y
  PROVE  Cardinality(S) <= 1
<1>1. CASE S = {}
  BY <1>1, FS_EmptySet
<1>2. CASE S # {}
  <2>1. PICK x \in S : TRUE
    BY <1>2
  <2>2. S = {x}
    BY <2>1
  <2> QED BY <2>2, FS_Singleton
<1> QED BY <1>1, <1>2

\* What follows an order fits it: one at a time, a quotation becomes one order, an
\* order has one invoice that stands, its lines have what was counted for them and
\* their returns never exceed them; and no line is ever fulfilled beyond what was
\* ordered.
THEOREM FollowUpsKept == AllSpec => []OrdersFollowed
<1>1. ASSUME Money, Followed PROVE OrdersFollowed
  <2>0. Typed /\ Invoiced /\ Quoted /\ Delivered /\ Returned
    BY <1>1 DEF Money, Followed
  <2>1. ASSUME QuotedOnce, NEW q \in Quotations PROVE Cardinality(OrdersOf(q)) <= 1
    <3>1. \A x, y \in OrdersOf(q) : x = y
      BY <2>0, <2>1 DEF Quoted, OrdersOf
    <3> QED BY <3>1, AtMostOne
  <2>2. ASSUME OneInvoice, NEW o \in Orders
        PROVE  Cardinality({i \in Invoices : /\ invoices[i].order = o
                                             /\ invoices[i].status \notin {"ABSENT", "VOID"}}) <= 1
    <3>1. \A x, y \in {i \in Invoices : /\ invoices[i].order = o
                                        /\ invoices[i].status \notin {"ABSENT", "VOID"}} : x = y
      BY <2>0, <2>2 DEF Invoiced, OfOneOrder, Stands
    <3> QED BY <3>1, AtMostOne
  <2>3. ASSUME ReturnedOnce, NEW o \in Orders, NEW p \in Products
        PROVE  SumFunctionOnSet([r \in Returns |-> saleReturns[r].quantity],
                 {r \in Returns : /\ saleReturns[r].status \notin {"ABSENT", "REJECTED", "CANCELLED"}
                                  /\ saleReturns[r].order = o /\ saleReturns[r].product = p})
                 <= Quantity[o][p]
    BY <2>0, <2>3 DEF Returned, Taken, Returning, Keeps
  <2>4. FollowUpsFit
    BY <2>1, <2>2, <2>3 DEF FollowUpsFit, QuotedOnce, ReturnedOnce, OneInvoice, Unless
  <2>5. \A o \in Orders, p \in Products : fulfilled[o][p] <= Quantity[o][p]
    BY <2>0 DEF Typed, NoteTypes
  <2>6. DeliveriesAdd
    BY <2>0, <2>5 DEF Delivered, HandedOver, Full, DeliveriesAdd, Unless
  <2> QED BY <2>4, <2>6 DEF OrdersFollowed
<1> QED BY <1>1, InitMoney, StepMoney, InitFollowed, StepFollowed, PTL DEF AllSpec

----
(* What the screens show. *)

LEMMA StandingFinite ==
  /\ \A S : S \subseteq Standing => IsFiniteSet(S)
  /\ Standing \subseteq Invoices
<1>1. Standing \subseteq Invoices
  BY DEF Standing
<1> QED BY <1>1, SalesAssumption, FS_Subset

\* The amounts of the invoices that stand.
LEMMA RowAmounts ==
  ASSUME InvoiceTypes
  PROVE  \A i \in Invoices : /\ invoices[i].total \in Nat /\ invoices[i].paid \in Nat
                             /\ invoices[i].balance \in Nat
BY DEF InvoiceTypes, InvoiceRow

LEMMA OutstandingBalance ==
  ASSUME InvoiceTypes
  PROVE  Outstanding = ReportRows.balance
<1> DEFINE f == [i \in Invoices |-> invoices[i].balance]
           S == {i \in Standing : invoices[i].balance > 0}
           T == Standing \ S
<1>1. IsFiniteSet(S) /\ IsFiniteSet(T) /\ S \intersect T = {} /\ S \union T = Standing
  BY StandingFinite
<1>2. \A i \in Standing : f[i] \in Int
  BY RowAmounts, StandingFinite
<1>3. \A i \in T : f[i] = 0
  BY RowAmounts, StandingFinite
<1>4. Outstanding = SumFunctionOnSet(f, S) /\ ReportRows.balance = SumFunctionOnSet(f, Standing)
  BY DEF Outstanding, ReportRows, Reported, Total
<1> HIDE DEF f, S, T
<1>5. SumFunctionOnSet(f, Standing) = SumFunctionOnSet(f, S) + SumFunctionOnSet(f, T)
  BY <1>1, <1>2, SumUnion
<1>6. SumFunctionOnSet(f, T) = 0
  BY <1>1, <1>3, SumZeros
<1>7. SumFunctionOnSet(f, S) \in Int
  BY <1>1, <1>2, SumInt
<1> QED BY <1>4, <1>5, <1>6, <1>7

LEMMA OfferedOwe ==
  ASSUME InvoiceTypes, \A i \in Standing : OwedRow(invoices[i])
  PROVE  InvoicesOffered = {i \in Standing : invoices[i].total > invoices[i].paid}
<1>1. \A i \in Standing : invoices[i].balance > 0 <=> invoices[i].total > invoices[i].paid
  <2> SUFFICES ASSUME NEW i \in Standing
               PROVE  invoices[i].balance > 0 <=> invoices[i].total > invoices[i].paid
    OBVIOUS
  <2>1. PICK t, d : t = invoices[i].total /\ d = invoices[i].paid
    OBVIOUS
  <2>2. t \in Nat /\ d \in Nat
    BY <2>1, RowAmounts, StandingFinite
  <2>3. invoices[i].balance = Max({0, t - d})
    BY <2>1 DEF OwedRow, Owed
  <2>4. Max({0, t - d}) = IF 0 <= t - d THEN t - d ELSE 0
    BY <2>2, MaxPair
  <2> QED BY <2>1, <2>2, <2>3, <2>4
<1> QED BY <1>1 DEF InvoicesOffered

\* What is claimed is paid or owed.
LEMMA ClaimsOwed ==
  ASSUME InvoiceTypes, \A i \in Standing : OwedRow(invoices[i])
  PROVE  /\ ReportRows.sales <= ReportRows.paid + ReportRows.balance
         /\ (\A i \in Standing : invoices[i].paid <= invoices[i].total)
              => ReportRows.sales = ReportRows.paid + ReportRows.balance
<1> DEFINE f == [i \in Invoices |-> invoices[i].paid]
           g == [i \in Invoices |-> invoices[i].balance]
           h == [i \in Invoices |-> invoices[i].paid + invoices[i].balance]
           t == [i \in Invoices |-> invoices[i].total]
<1>1. \A i \in Standing :
        /\ f[i] \in Int /\ g[i] \in Int /\ h[i] \in Int /\ t[i] \in Int /\ h[i] = f[i] + g[i]
        /\ t[i] = invoices[i].total /\ f[i] = invoices[i].paid
  BY RowAmounts, StandingFinite
<1>2. \A i \in Standing : t[i] <= h[i] /\ (f[i] <= t[i] => t[i] = h[i])
  <2> SUFFICES ASSUME NEW i \in Standing PROVE t[i] <= h[i] /\ (f[i] <= t[i] => t[i] = h[i])
    OBVIOUS
  <2>1. PICK x, y : x = invoices[i].total /\ y = invoices[i].paid
    OBVIOUS
  <2>2. x \in Nat /\ y \in Nat
    BY <2>1, RowAmounts, StandingFinite
  <2>3. invoices[i].balance = Max({0, x - y})
    BY <2>1 DEF OwedRow, Owed
  <2>4. Max({0, x - y}) = IF 0 <= x - y THEN x - y ELSE 0
    BY <2>2, MaxPair
  <2>5. h[i] = y + invoices[i].balance /\ t[i] = x /\ f[i] = y
    BY <2>1, StandingFinite
  <2> HIDE DEF f, g, h, t
  <2> QED BY <2>2, <2>3, <2>4, <2>5
<1>3. /\ ReportRows.sales = SumFunctionOnSet(t, Standing)
      /\ ReportRows.paid = SumFunctionOnSet(f, Standing)
      /\ ReportRows.balance = SumFunctionOnSet(g, Standing)
  BY DEF ReportRows, Reported, Total
<1>4. IsFiniteSet(Standing)
  BY StandingFinite
<1> HIDE DEF f, g, h, t
<1>5. SumFunctionOnSet(h, Standing) = SumFunctionOnSet(f, Standing) + SumFunctionOnSet(g, Standing)
  BY <1>1, <1>4, SumPlus
<1>6. SumFunctionOnSet(t, Standing) <= SumFunctionOnSet(h, Standing)
  BY <1>1, <1>2, <1>4, SumLess
<1>7. ASSUME \A i \in Standing : invoices[i].paid <= invoices[i].total
      PROVE  SumFunctionOnSet(t, Standing) = SumFunctionOnSet(h, Standing)
  <2>1. \A i \in Standing : t[i] = h[i]
    BY <1>1, <1>2, <1>7
  <2> QED BY <1>4, <2>1, SumSame
<1> QED BY <1>3, <1>5, <1>6, <1>7

LEMMA ChannelsAdd ==
  ASSUME InvoiceTypes
  PROVE  ReportRows.sales = ChannelRow(TRUE) + ChannelRow(FALSE)
<1> DEFINE f == [i \in Invoices |-> invoices[i].total]
           S == {i \in Standing : (invoices[i].order # "none") = TRUE}
           T == {i \in Standing : (invoices[i].order # "none") = FALSE}
<1>1. IsFiniteSet(S) /\ IsFiniteSet(T) /\ S \intersect T = {} /\ S \union T = Standing
  BY StandingFinite
<1>2. \A i \in Standing : f[i] \in Int
  BY RowAmounts, StandingFinite
<1>3. /\ ReportRows.sales = SumFunctionOnSet(f, Standing)
      /\ ChannelRow(TRUE) = SumFunctionOnSet(f, S) /\ ChannelRow(FALSE) = SumFunctionOnSet(f, T)
  BY DEF ReportRows, ChannelRow, Reported, Total
<1> HIDE DEF f, S, T
<1>4. SumFunctionOnSet(f, S \union T) = SumFunctionOnSet(f, S) + SumFunctionOnSet(f, T)
  <2>1. \A i \in S \union T : f[i] \in Int
    BY <1>1, <1>2
  <2> QED BY <1>1, <2>1, SumUnion
<1> QED BY <1>1, <1>3, <1>4

\* What the invoices that stand show as paid is what the PAID payments brought.
LEMMA PaidReceived ==
  ASSUME Typed, Keys, Counting, Covered, Solo
  PROVE  ReportRows.paid = ReportRows.received
<1> DEFINE f == [i \in Invoices |-> invoices[i].paid]
           g == [i \in Invoices |-> CountedFor(payments, i)]
           a == [p \in Payments |-> payments[p].amount]
           A == [i \in Invoices |-> {p \in Payments : payments[p].invoice = i /\ payments[p].status = "PAID"}]
           U == Recordings("PAID")
           T == Invoices \ Standing
<1>0. InvoiceTypes /\ PaymentTypes
  BY DEF Typed
<1>1. \A i \in Standing : f[i] = g[i] /\ f[i] \in Int
  BY <1>0, RowAmounts, StandingFinite DEF Counting, Solo, Standing, IsThere
<1>2. \A i \in T : g[i] = 0
  <2> SUFFICES ASSUME NEW i \in T PROVE CountedFor(payments, i) = 0
    OBVIOUS
  <2>1. CASE ~IsThere(i)
    BY <2>1, CountedNone
  <2>2. CASE IsThere(i)
    <3>1. invoices[i].status = "VOID" /\ invoices[i].paid = CountedFor(payments, i)
      BY <2>2 DEF Standing, IsThere, Counting, Solo
    <3> QED BY <3>1 DEF Covered
  <2> QED BY <2>1, <2>2
<1>3. /\ ReportRows.paid = SumFunctionOnSet(f, Standing)
      /\ ReportRows.received = SumFunctionOnSet(a, U)
  BY DEF ReportRows, Reported, ReceivedTotal, Total
<1>4. \A i \in Invoices : /\ IsFiniteSet(A[i]) /\ (\A p \in A[i] : a[p] \in Int)
                          /\ g[i] = SumFunctionOnSet(a, A[i])
  <2>1. \A i \in Invoices : A[i] \subseteq Payments /\ IsFiniteSet(A[i])
    BY SalesAssumption, FS_Subset
  <2>2. \A p \in Payments : a[p] \in Int
    BY <1>0 DEF PaymentTypes, PaymentRow
  <2>3. \A i \in Invoices : g[i] = SumFunctionOnSet(a, A[i])
    BY DEF CountedFor
  <2> QED BY <2>1, <2>2, <2>3
<1>5. \A i, j \in Invoices : i # j => A[i] \intersect A[j] = {}
  OBVIOUS
<1>6. \A p : p \in U <=> \E i \in Invoices : p \in A[i]
  BY <1>0 DEF Recordings, PaymentTypes, Recorded
<1>7. IsFiniteSet(Invoices) /\ IsFiniteSet(Standing) /\ IsFiniteSet(T)
      /\ Standing \intersect T = {} /\ Standing \union T = Invoices
  BY SalesAssumption, StandingFinite, FS_Subset
<1> HIDE DEF f, g, a, A, U, T
<1>8. SumFunctionOnSet(g, Invoices) = SumFunctionOnSet(a, U)
  BY <1>4, <1>5, <1>6, <1>7, SumCover
<1>9. \A i \in Standing \union T : g[i] \in Int
  BY <1>1, <1>2
<1>10. SumFunctionOnSet(g, Invoices) = SumFunctionOnSet(g, Standing) + SumFunctionOnSet(g, T)
  BY <1>7, <1>9, SumUnion
<1>11. SumFunctionOnSet(g, T) = 0 /\ SumFunctionOnSet(g, Standing) \in Int
  BY <1>2, <1>7, <1>9, SumZeros, SumInt
<1>12. SumFunctionOnSet(f, Standing) = SumFunctionOnSet(g, Standing)
  BY <1>1, <1>7, SumSame
<1> QED BY <1>3, <1>8, <1>10, <1>11, <1>12

LEMMA UnitsLeft ==
  ASSUME SellingTypes, Reserving, Shelved, ~overlap, "edit_order" \notin clients, NEW p \in Products
  PROVE  UnitsOffered(p) + Cardinality(SoldOf(p)) + Promised(p) <= Opening[p]
<1>1. PICK c, r, s, n : /\ c = stock[p].current /\ r = stock[p].reserved
                        /\ s = Cardinality(SoldOf(p)) /\ n = Promised(p)
  OBVIOUS
<1>2. c \in Nat /\ r \in Nat /\ s \in Nat
  BY <1>1, SoldFinite DEF SellingTypes
<1>3. n \in Nat
  BY <1>1, OrdersFinite DEF Promised, Confirmed
<1>4. r <= c /\ n <= r /\ c + s = Opening[p]
  BY <1>1 DEF Reserving, Shelved
<1>5. UnitsOffered(p) = Max({0, c - r})
  BY <1>1 DEF UnitsOffered, Available
<1>6. Max({0, c - r}) = c - r
  BY <1>2, <1>4, MaxPair
<1> QED BY <1>1, <1>2, <1>3, <1>4, <1>5, <1>6

LEMMA PartlyOffered ==
  ASSUME NoteTypes, Delivered, ~overlap, "edit_order" \notin clients, NEW o \in Orders,
         orders[o] = "PARTIALLY_FULFILLED"
  PROVE  o \in OrdersOffered \intersect OpenOrders
<1>1. ~Full(o)
  BY DEF Delivered
<1>2. PICK p \in Products : fulfilled[o][p] # Quantity[o][p]
  BY <1>1 DEF Full
<1>3. /\ fulfilled[o][p] \in Nat /\ Quantity[o][p] \in Nat /\ fulfilled[o][p] <= Quantity[o][p]
  BY SellingAssumption DEF NoteTypes
<1>4. p \in Lines(o)
  BY <1>2, <1>3 DEF Lines
<1>5. LeftToDeliver(o, p) > 0
  <2>1. Max({0, Quantity[o][p] - fulfilled[o][p]}) = Quantity[o][p] - fulfilled[o][p]
    BY <1>3, MaxPair
  <2> QED BY <1>2, <1>3, <2>1 DEF LeftToDeliver
<1> QED BY <1>4, <1>5 DEF OrdersOffered, OpenOrders, DeliverableStatuses

LEMMA ReturnsLeft ==
  ASSUME ReturnTypes, Returned, ReturnedOnce, NEW o \in Orders, NEW p \in Products
  PROVE  ReturnOffered(o, p) + ReturnedUnits(o, p, "none") = Quantity[o][p]
<1>1. PICK q, t, u : /\ q = Quantity[o][p] /\ t = Taken(saleReturns, Returning(saleReturns, o, p))
                     /\ u = Taken(saleReturns, Returning(saleReturns, o, p) \ {"none"})
  OBVIOUS
<1>2. q \in Nat
  BY <1>1, SellingAssumption
<1>3. PICK n : n = saleReturns["none"].quantity
  OBVIOUS
<1>4. "none" \in Returning(saleReturns, o, p) => n \in Nat
  BY <1>3 DEF Returning, ReturnTypes, FollowRow
<1>5. u \in Nat /\ t = u + (IF "none" \in Returning(saleReturns, o, p) THEN n ELSE 0)
  BY <1>1, <1>3, TakenApart DEF ReturnTypes
<1>6. t <= q
  BY <1>1 DEF Returned
<1>7. u <= q
  BY <1>2, <1>4, <1>5, <1>6
<1>8. ReturnedUnits(o, p, "none") = u /\ ReturnOffered(o, p) = Max({0, q - u})
  BY <1>1, UnitsTaken DEF ReturnOffered
<1>9. Max({0, q - u}) = q - u
  BY <1>2, <1>5, <1>7, MaxPair
<1> QED BY <1>1, <1>2, <1>5, <1>8, <1>9

\* The screens agree with each other and with what can be done: the forms offer what
\* is owed, unsold, undelivered and not returned yet, and the report adds up to what
\* the summaries show.
THEOREM ScreensSound == AllSpec => []ScreensAgree
<1>1. ASSUME Money, Reserving, Balanced, Shelved, Followed PROVE ScreensAgree
  <2>0. /\ Typed /\ Keys /\ Owing /\ Counting /\ Covered /\ Quoted /\ Delivered /\ Returned
        /\ SellingTypes /\ InvoiceTypes /\ NoteTypes /\ ReturnTypes
    BY <1>1 DEF Money, Followed, Typed
  <2>1. PICK rows : rows = ReportRows
    OBVIOUS
  <2>2. Outstanding = rows.balance
    BY <2>0, <2>1, OutstandingBalance
  <2>3. ASSUME Owes PROVE \A i \in Standing : OwedRow(invoices[i])
    BY <2>0, <2>3 DEF Owing, Standing, Stands
  <2>4. \/ overlap /\ {"edit_invoice", "create_payment"} \subseteq clients
        \/ {"edit_invoice", "set_paid"} \subseteq clients
        \/ /\ InvoicesOffered = {i \in Standing : invoices[i].total > invoices[i].paid}
           /\ rows.sales <= rows.paid + rows.balance
    BY <2>0, <2>1, <2>3, OfferedOwe, ClaimsOwed DEF Owes
  <2>5. rows.sales = Revenue
    BY <2>1 DEF ReportRows, Revenue, Reported
  <2>6. rows.sales = ChannelRow(TRUE) + ChannelRow(FALSE)
    BY <2>0, <2>1, ChannelsAdd
  <2>7. ASSUME ~overlap PROVE
          \/ clients \intersect {"edit_payment", "delete_payment", "set_paid"} # {}
          \/ /\ rows.sales = rows.paid + rows.balance
             /\ rows.paid = rows.received
    <3> SUFFICES ASSUME clients \intersect {"edit_payment", "delete_payment", "set_paid"} = {}
                 PROVE  rows.sales = rows.paid + rows.balance /\ rows.paid = rows.received
      OBVIOUS
    <3>1. Solo /\ Owes
      BY <2>7 DEF Solo, Counts, Owes
    <3>2. \A i \in Standing : invoices[i].paid <= invoices[i].total
      BY <2>0, <3>1, StandingFinite DEF Covered
    <3> QED BY <2>0, <2>1, <2>3, <3>1, <3>2, ClaimsOwed, PaidReceived
  <2>8. ASSUME ~overlap PROVE
          Unless({"edit_order"},
            \A p \in Products :
              UnitsOffered(p) + Cardinality({s \in PosSales : sales[s] = [status |-> "PAID", product |-> p]})
                + Total({o \in Orders : orders[o] = "CONFIRMED"}, [o \in Orders |-> Quantity[o][p]]) <= Opening[p])
    BY <1>1, <2>0, <2>8, UnitsLeft DEF Unless, SoldOf, Promised, Confirmed, Total
  <2>9. ASSUME ~overlap PROVE
          Unless({"edit_order"},
            \A o \in Orders : orders[o] = "PARTIALLY_FULFILLED" => o \in OrdersOffered \intersect OpenOrders)
    BY <2>0, <2>9, PartlyOffered DEF Unless
  <2>10. ASSUME ~overlap PROVE
           \/ "accept_quote" \in clients
           \/ {"reject_quote", "edit_quote"} \subseteq clients
           \/ \A q \in QuotesOffered \union OpenQuotes : OrdersOf(q) = {}
    BY <2>0, <2>10 DEF Quoted, QuotedOnce, QuotesOffered, OpenQuotes, OrdersOf
  <2>11. ASSUME ~overlap PROVE
           \/ BroughtBack
           \/ {"edit_return", "repeat_lines"} \intersect clients # {}
           \/ \A o \in Orders, p \in Products :
                ReturnOffered(o, p) + ReturnedUnits(o, p, "none") = Quantity[o][p]
    BY <2>0, <2>11, ReturnsLeft DEF ReturnedOnce
  <2> QED BY <2>1, <2>2, <2>4, <2>5, <2>6, <2>7, <2>8, <2>9, <2>10, <2>11 DEF ScreensAgree
<1>2. Money => Typed
  BY DEF Money
<1> QED
  BY <1>1, <1>2, InitMoney, StepMoney, InitReserves, StepReserves, InitBalanced, InitShelved, StepAdds,
     InitFollowed, StepFollowed, PTL DEF AllSpec
=============================================================================
