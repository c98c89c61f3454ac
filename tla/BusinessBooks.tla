--------------------------- MODULE BusinessBooks ---------------------------
(***************************************************************************)
(* The books of businesses: invoices, batch payments, tax pots, documents, *)
(* categories and labels, and loan applications.  Lists and summaries are  *)
(* reads of these tables and are left out.                                 *)
(*                                                                         *)
(* Requests have passed the permission check (module Business).  Handlers  *)
(* run one SQL statement per step, with no transaction around them: other  *)
(* requests, a failing statement or a death may come between two of them.  *)
(* Handlers of a single statement are one step.  A table is a function     *)
(* from the ids of its rows; a row is named after the request that made    *)
(* it.                                                                     *)
(***************************************************************************)
EXTENDS Integers, Sequences, FiniteSetsExt, Functions

CONSTANTS
  Requests,   \* each is sent at most once, a retry is another one
  Form,       \* Form[c]: what c asks for
  Opening,    \* the tables when the model starts
  OwnerOf,    \* OwnerOf[b]: owner_user_id of business b
  Receipts,   \* ids of receipts
  Pots,       \* ids of pots
  Profile,    \* Profile[b]: business_credit_profiles row of b (nothing writes it)
  MaxServed   \* bound: requests served

BookTables == {"invoices", "lines", "batches", "items", "taxPots", "docs", "categories", "labels", "loans"}
InvoiceColumns == {"biz", "number", "total", "paid", "status"}
BatchColumns == {"biz", "total", "count", "by", "status", "approver"}
InvoiceStatuses == {"draft", "sent", "viewed", "partially_paid", "paid", "overdue", "cancelled"}

ASSUME BooksAssumption ==
  /\ DOMAIN Profile \subseteq DOMAIN OwnerOf
  /\ MaxServed \in Nat

\* Amounts are int64, items are a list, an approver is a user with a token; the
\* ids of new rows are new.
ASSUME BookFormAssumption ==
  /\ IsFiniteSet(Requests)
  /\ \A c \in Requests :
       /\ c \notin DOMAIN Opening.invoices \cup DOMAIN Opening.batches
       /\ \A x \in DOMAIN Opening.items : x[1] # c
       /\ Form[c].op = "recordPayment" => Form[c].cents \in Int
       /\ Form[c].op = "approveBatch" => Form[c].user # "none"
       /\ Form[c].op = "createBatch" =>
            LET items == Form[c].items
            IN  Len(items) \in Nat /\ DOMAIN items = 1 .. Len(items) /\ \A n \in DOMAIN items : items[n].cents \in Int

\* The tables at the start are such as the handlers leave them.
ASSUME BookOpeningAssumption ==
  /\ DOMAIN Opening = BookTables /\ IsFiniteSet(DOMAIN Opening.invoices)
  /\ \A i \in DOMAIN Opening.invoices :
       /\ DOMAIN Opening.invoices[i] = InvoiceColumns
       /\ Opening.invoices[i].paid \in Int /\ Opening.invoices[i].status \in InvoiceStatuses
       /\ Opening.invoices[i].status = "paid" => Opening.invoices[i].paid >= Opening.invoices[i].total
       /\ Opening.invoices[i].status = "partially_paid" => ~(Opening.invoices[i].paid >= Opening.invoices[i].total)
  /\ \A b \in DOMAIN OwnerOf :
       LET rows == {i \in DOMAIN Opening.invoices : Opening.invoices[i].biz = b}
       IN  {Opening.invoices[i].number : i \in rows} = 1 .. Cardinality(rows)
  /\ \A i \in DOMAIN Opening.batches :
       /\ DOMAIN Opening.batches[i] = BatchColumns
       /\ Cardinality({x \in DOMAIN Opening.items : x[1] = i}) <= Opening.batches[i].count
       /\ Opening.batches[i].status \in {"approved", "processing"} <=> Opening.batches[i].approver # "none"
  /\ \A table \in {"labels", "lines", "items"} : \A x \in DOMAIN Opening[table] :
       Opening[table][x].category = "none" \/ Opening[table][x].category \in DOMAIN Opening.categories

VARIABLES
  db,      \* the tables
  request,    \* request[c]: the request c: where it is and what it has read
  served,  \* requests started
  before   \* before[c]: history, the requests answered with success before c began

booksVars == <<db, request, served, before>>

Businesses == DOMAIN OwnerOf
None == "none"   \* SQL NULL

BooksInit ==
  /\ db = Opening
  /\ request = [c \in Requests |-> [pc |-> "new", ask |-> Form[c], seen |-> 0, next |-> 1, of |-> 0]]
  /\ served = 0
  /\ before = [c \in Requests |-> {}]

Req(c) == request[c].ask
Answered == {c \in Requests : request[c].pc = "done"}
Begins(c, op) == /\ request[c].pc = "new" /\ Req(c).op = op
                 /\ served < MaxServed /\ served' = served + 1
                 /\ before' = [before EXCEPT ![c] = Answered]
Reached(c, step) == request[c].pc = step /\ UNCHANGED <<served, before>>
Moves(c, step) == request' = [request EXCEPT ![c].pc = step]
Ends(c, ok) == Moves(c, IF ok THEN "done" ELSE "failed")
Has(table, id) == id \in DOMAIN table
Insert(table, id, row) == [x \in DOMAIN table \cup {id} |-> IF x = id THEN row ELSE table[x]]
Without(table, ids) == Restrict(table, DOMAIN table \ ids)
SumOf(f(_), S) == SumFunctionOnSet([x \in S |-> f(x)], S)
-----------------------------------------------------------------------------
(* Invoices.                                                               *)

OfBusiness(table, b) == {i \in DOMAIN table : table[i].biz = b}

NextInvoiceNumber(b) == Cardinality(OfBusiness(db.invoices, b)) + 1

\* invoice_number is unique over all businesses.
CreateInvoiceRow(c, number) ==
  Insert(db.invoices, c, [biz |-> Req(c).biz, number |-> number, total |-> Req(c).total,
                          paid |-> 0, status |-> "draft"])
NumberTaken(number) == \E i \in DOMAIN db.invoices : db.invoices[i].number = number

HandleCreateInvoice(c) ==
  /\ Begins(c, "createInvoice")
  /\ request' = [request EXCEPT ![c].pc = "insertInvoice", ![c].seen = NextInvoiceNumber(Req(c).biz)]
  /\ UNCHANGED db

InsertInvoice(c) ==
  /\ Reached(c, "insertInvoice")
  /\ IF NumberTaken(request[c].seen)
       THEN Ends(c, FALSE) /\ UNCHANGED db
       ELSE /\ db' = [db EXCEPT !.invoices = CreateInvoiceRow(c, request[c].seen)]
            /\ Moves(c, "insertLine")

CategoryKnown(cat) == cat = None \/ Has(db.categories, cat)

\* Rows of a list that is inserted one by one, and what follows it.
InsertNext(c, rows, table, accepted) ==
  IF request[c].next > Len(rows) THEN Moves(c, "done") /\ UNCHANGED db
  ELSE LET row == rows[request[c].next] IN
       IF CategoryKnown(row.category) /\ request[c].next \in accepted
         THEN /\ db' = [db EXCEPT ![table] = Insert(db[table], <<c, request[c].next>>, row)]
              /\ request' = [request EXCEPT ![c].next = @ + 1]
         ELSE Ends(c, FALSE) /\ UNCHANGED db

CreateLineItem(c) == Reached(c, "insertLine") /\ InsertNext(c, Req(c).lines, "lines", DOMAIN Req(c).lines)

UpdateInvoiceMutant(i, total) ==
  IF Has(db.invoices, i) THEN [db EXCEPT !.invoices[i].total = total] ELSE db
\* WHERE id = $1 AND status = 'draft'.  Fields left out of the request are
\* written as zero.
UpdateInvoice(i, total) ==
  IF Has(db.invoices, i) /\ db.invoices[i].status = "draft"
    THEN [db EXCEPT !.invoices[i].total = total] ELSE db
HandleUpdateInvoice(c) ==
  /\ Begins(c, "updateInvoice")
  /\ db' = UpdateInvoice(Req(c).id, Req(c).total)
  /\ Ends(c, Has(db.invoices, Req(c).id) /\ db.invoices[Req(c).id].status = "draft")

\* WHERE id = $1, whatever the status.
UpdateInvoiceStatus(i, status) ==
  IF Has(db.invoices, i) THEN [db EXCEPT !.invoices[i].status = status] ELSE db
HandleSendInvoice(c) ==
  /\ Begins(c, "sendInvoice")
  /\ db' = UpdateInvoiceStatus(Req(c).id, "sent")
  /\ Ends(c, Has(db.invoices, Req(c).id))
HandleCancelInvoice(c) ==
  /\ Begins(c, "cancelInvoice")
  /\ db' = UpdateInvoiceStatus(Req(c).id, "cancelled")
  /\ Ends(c, Has(db.invoices, Req(c).id))

\* RecordPayment reads the row, and writes the sum and the status it computed.
HandleRecordPayment(c) ==
  /\ Begins(c, "recordPayment")
  /\ IF Has(db.invoices, Req(c).id)
       THEN request' = [request EXCEPT ![c].pc = "writePaid", ![c].seen = db.invoices[Req(c).id].paid,
                                 ![c].of = db.invoices[Req(c).id].total]
       ELSE Ends(c, FALSE)
  /\ UNCHANGED db
StatusAfter(paid, total) == IF paid >= total THEN "paid" ELSE "partially_paid"
UpdatePaidCentsMutant(i, paid, status) ==
  [db EXCEPT !.invoices[i].paid = @ + paid, !.invoices[i].status = status]
UpdatePaidCents(i, paid, status) ==
  [db EXCEPT !.invoices[i].paid = paid, !.invoices[i].status = status]
WritePaid(c) ==
  LET paid == request[c].seen + Req(c).cents IN
  /\ Reached(c, "writePaid")
  /\ db' = UpdatePaidCents(Req(c).id, paid, StatusAfter(paid, request[c].of))
  /\ Ends(c, TRUE)

-----------------------------------------------------------------------------
(* Batch payments.                                                         *)

TotalCents(items) == SumOf(LAMBDA n : items[n].cents, DOMAIN items)

CreateBatch(c) ==
  Insert(db.batches, c, [biz |-> Req(c).biz, total |-> TotalCents(Req(c).items), count |-> Len(Req(c).items),
                         by |-> Req(c).user, status |-> "draft", approver |-> None])
HandleCreateBatch(c) ==
  /\ Begins(c, "createBatch")
  /\ db' = [db EXCEPT !.batches = CreateBatch(c)]
  /\ Moves(c, "insertItem")

\* CHECK (amount_cents > 0).
PositiveCents(rows) == {i \in DOMAIN rows : rows[i].cents > 0}
CreateItems(c) == Reached(c, "insertItem") /\ InsertNext(c, Req(c).items, "items", PositiveCents(Req(c).items))

\* WHERE id = $1 AND status = 'draft'.
ApproveBatch(i, user) ==
  IF Has(db.batches, i) /\ db.batches[i].status = "draft"
    THEN [db EXCEPT !.batches[i].status = "approved", !.batches[i].approver = user] ELSE db
HandleApproveBatch(c) ==
  /\ Begins(c, "approveBatch")
  /\ db' = ApproveBatch(Req(c).id, Req(c).user)
  /\ Ends(c, Has(db.batches, Req(c).id) /\ db.batches[Req(c).id].status = "draft")

HandleProcessBatch(c) ==
  /\ Begins(c, "processBatch")
  /\ IF Has(db.batches, Req(c).id) /\ db.batches[Req(c).id].status = "approved"
       THEN Moves(c, "markProcessing") ELSE Ends(c, FALSE)
  /\ UNCHANGED db
UpdateBatchStatus(c) ==
  /\ Reached(c, "markProcessing")
  /\ db' = [db EXCEPT !.batches[Req(c).id].status = "processing"]
  /\ Ends(c, TRUE)

ListItems(i) == {x \in DOMAIN db.items : x[1] = i}
-----------------------------------------------------------------------------
(* Tax pots and documents.                                                 *)

\* The pot must exist; one row per business and tax type.
TaxPotAllowed(r) == /\ r.pot \in Pots
                    /\ \A i \in DOMAIN db.taxPots : db.taxPots[i].biz = r.biz => db.taxPots[i].type # r.type
HandleCreateTaxPot(c) ==
  /\ Begins(c, "createTaxPot")
  /\ db' = IF TaxPotAllowed(Req(c))
             THEN [db EXCEPT !.taxPots = Insert(db.taxPots, c, [biz |-> Req(c).biz, pot |-> Req(c).pot,
                                                       type |-> Req(c).type, percent |-> Req(c).percent])]
             ELSE db
  /\ Ends(c, TaxPotAllowed(Req(c)))
UpdateTaxPot(i, percent) ==
  IF Has(db.taxPots, i) THEN [db EXCEPT !.taxPots[i].percent = percent] ELSE db
HandleUpdateTaxPot(c) ==
  /\ Begins(c, "updateTaxPot")
  /\ db' = UpdateTaxPot(Req(c).id, Req(c).percent)
  /\ Ends(c, Has(db.taxPots, Req(c).id))
HandleDeleteTaxPot(c) ==
  /\ Begins(c, "deleteTaxPot")
  /\ db' = [db EXCEPT !.taxPots = Without(db.taxPots, {Req(c).id})]
  /\ Ends(c, Has(db.taxPots, Req(c).id))

CreateDocument(c) == Insert(db.docs, c, [biz |-> Req(c).biz, name |-> Req(c).name, type |-> Req(c).type,
                                         expires |-> Req(c).expires, archived |-> FALSE])
HandleCreateDocument(c) ==
  /\ Begins(c, "createDocument")
  /\ db' = [db EXCEPT !.docs = CreateDocument(c)]
  /\ Ends(c, TRUE)
Current(i) == Has(db.docs, i) /\ ~db.docs[i].archived
UpdateDocument(i, name) == IF Current(i) THEN [db EXCEPT !.docs[i].name = name] ELSE db
HandleUpdateDocument(c) ==
  /\ Begins(c, "updateDocument")
  /\ db' = UpdateDocument(Req(c).id, Req(c).name)
  /\ Ends(c, Current(Req(c).id))
ArchiveDocument(i) == IF Current(i) THEN [db EXCEPT !.docs[i].archived = TRUE] ELSE db
HandleArchiveDocument(c) ==
  /\ Begins(c, "archiveDocument")
  /\ db' = ArchiveDocument(Req(c).id)
  /\ Ends(c, Current(Req(c).id))
-----------------------------------------------------------------------------
(* Categories and labels.                                                  *)

HandleCreateCategory(c) ==
  /\ Begins(c, "createCategory")
  /\ db' = [db EXCEPT !.categories = Insert(db.categories, c, [biz |-> Req(c).biz, name |-> Req(c).name, system |-> FALSE])]
  /\ Ends(c, TRUE)
Editable(i) == Has(db.categories, i) /\ ~db.categories[i].system
UpdateCategory(i, name) == IF Editable(i) THEN [db EXCEPT !.categories[i].name = name] ELSE db
HandleUpdateCategory(c) ==
  /\ Begins(c, "updateCategory")
  /\ db' = UpdateCategory(Req(c).id, Req(c).name)
  /\ Ends(c, Editable(Req(c).id))

\* The foreign keys of labels, invoice lines and batch items refuse to let a
\* category go that one of them names.
Referenced(i) == \E table \in {"labels", "lines", "items"} :
                   \E x \in DOMAIN db[table] : db[table][x].category = i
DeleteCategory(i) == IF Editable(i) /\ ~Referenced(i)
                       THEN [db EXCEPT !.categories = Without(db.categories, {i})] ELSE db
HandleDeleteCategory(c) ==
  /\ Begins(c, "deleteCategory")
  /\ db' = DeleteCategory(Req(c).id)
  /\ Ends(c, Editable(Req(c).id) /\ ~Referenced(Req(c).id))

\* No constraint keeps a transaction from having two labels.
CreateLabel(c) == Insert(db.labels, c, [tx |-> Req(c).tx, category |-> Req(c).category,
                                        deductible |-> Req(c).deductible])
LabelAllowed(r) == r.tx \in Receipts /\ CategoryKnown(r.category)
HandleLabelTransaction(c) ==
  /\ Begins(c, "label")
  /\ db' = IF LabelAllowed(Req(c)) THEN [db EXCEPT !.labels = CreateLabel(c)] ELSE db
  /\ Ends(c, LabelAllowed(Req(c)))

LabelsOf(x) == {l \in DOMAIN db.labels : db.labels[l].tx = x}
\* Both statements go by transaction_id: they reach every label of it.
UpdateLabels(x, category, deductible) ==
  LET new == [tx |-> x, category |-> category, deductible |-> deductible]
  IN  [db EXCEPT !.labels = [l \in DOMAIN db.labels |-> IF l \in LabelsOf(x) THEN new ELSE db.labels[l]]]
HandleUpdateLabel(c) ==
  /\ Begins(c, "updateLabel")
  /\ db' = IF CategoryKnown(Req(c).category) THEN UpdateLabels(Req(c).tx, Req(c).category, Req(c).deductible) ELSE db
  /\ Ends(c, LabelsOf(Req(c).tx) # {} /\ CategoryKnown(Req(c).category))
HandleDeleteLabel(c) ==
  /\ Begins(c, "deleteLabel")
  /\ db' = [db EXCEPT !.labels = Without(db.labels, LabelsOf(Req(c).tx))]
  /\ Ends(c, LabelsOf(Req(c).tx) # {})
-----------------------------------------------------------------------------
(* Business loans.                                                         *)

IsEligibleForLoan(p) == p.score > 600 /\ p.limit > 0 /\ ~p.blacklisted
AvailableBorrowingCents(p) == IF p.limit - p.outstanding < 0 THEN 0 ELSE p.limit - p.outstanding
InterestFee(cents) == (cents * 8) \div 100

HandleApply(c) ==
  /\ Begins(c, "applyLoan")
  /\ IF /\ Has(Profile, Req(c).biz) /\ IsEligibleForLoan(Profile[Req(c).biz])
        /\ Req(c).cents <= AvailableBorrowingCents(Profile[Req(c).biz])
       THEN Moves(c, "insertLoan") ELSE Ends(c, FALSE)
  /\ UNCHANGED db
\* CHECK (principal_amount_cents > 0) and CHECK (duration_days > 0).
CreateLoan(c) ==
  LET valid == Req(c).cents > 0 /\ Req(c).days > 0 IN
  /\ Reached(c, "insertLoan")
  /\ db' = IF valid
             THEN [db EXCEPT !.loans = Insert(db.loans, c, [biz |-> Req(c).biz, principal |-> Req(c).cents,
                                                     due |-> Req(c).cents + InterestFee(Req(c).cents)])]
             ELSE db
  /\ Ends(c, valid)
-----------------------------------------------------------------------------
\* A statement fails or the process dies between two statements of a handler.
Dies(c) == /\ request[c].pc \notin {"new", "done", "failed"}
           /\ Ends(c, FALSE) /\ UNCHANGED <<db, served, before>>

Invoices(c) == \/ HandleCreateInvoice(c) \/ InsertInvoice(c) \/ CreateLineItem(c)
               \/ HandleUpdateInvoice(c) \/ HandleSendInvoice(c) \/ HandleCancelInvoice(c)
               \/ HandleRecordPayment(c) \/ WritePaid(c)
Batches(c) == \/ HandleCreateBatch(c) \/ CreateItems(c) \/ HandleApproveBatch(c)
              \/ HandleProcessBatch(c) \/ UpdateBatchStatus(c)
TaxAndDocuments(c) == \/ HandleCreateTaxPot(c) \/ HandleUpdateTaxPot(c) \/ HandleDeleteTaxPot(c)
                      \/ HandleCreateDocument(c) \/ HandleUpdateDocument(c) \/ HandleArchiveDocument(c)
Labels(c) == \/ HandleCreateCategory(c) \/ HandleUpdateCategory(c) \/ HandleDeleteCategory(c)
             \/ HandleLabelTransaction(c) \/ HandleUpdateLabel(c) \/ HandleDeleteLabel(c)
Loans(c) == HandleApply(c) \/ CreateLoan(c)

BooksNext == \E c \in Requests : \/ Invoices(c) \/ Batches(c) \/ TaxAndDocuments(c)
                         \/ Labels(c) \/ Loans(c) \/ Dies(c)

BooksSpec == BooksInit /\ [][BooksNext]_booksVars
-----------------------------------------------------------------------------
(* Properties.                                                             *)

\* NextInvoiceNumber counts before the insert, and numbers are unique over all
\* businesses: however creations overlap and fail, the invoices of a business
\* are numbered without a gap.
NumbersHaveNoGap ==
  \A b \in Businesses :
    LET rows == OfBusiness(db.invoices, b)
    IN  {db.invoices[i].number : i \in rows} = 1 .. Cardinality(rows)

PaidAtStart(i) == IF Has(Opening.invoices, i) THEN Opening.invoices[i].paid ELSE 0

\* RecordPayment writes a sum over a row it read before: whatever is lost, the
\* paid_cents of an invoice are what some of the payments asked for add up to,
\* none of them counted twice.
PaidIsSumOfPayments ==
  \A i \in DOMAIN db.invoices :
    \E S \in SUBSET {c \in Requests : /\ Req(c).op = "recordPayment" /\ Req(c).id = i
                                   /\ request[c].pc \in {"done", "failed"}} :
      db.invoices[i].paid = SumOf(LAMBDA c : Req(c).cents, S) + PaidAtStart(i)

\* Create inserts the header of a batch and then its items: a batch never has
\* more items than its header counts, and a request that reported success left
\* all of them, worth the total of the header.
BatchHoldsItsItems ==
  \A c \in DOMAIN db.batches :
    LET inserted == SumOf(LAMBDA x : db.items[x].cents, ListItems(c))
    IN  /\ Cardinality(ListItems(c)) <= db.batches[c].count
        /\ (c \in Requests /\ request[c].pc = "done") =>
             inserted = db.batches[c].total /\ Cardinality(ListItems(c)) = db.batches[c].count

\* What is processed was approved by somebody, and what has items or lines has
\* categories that are still there, though deletions race with insertions.
RefersToWhatExists ==
  /\ \A i \in DOMAIN db.batches :
       db.batches[i].status \in {"approved", "processing"} <=> db.batches[i].approver # None
  /\ \A table \in {"labels", "lines", "items"} :
       \A x \in DOMAIN db[table] : CategoryKnown(db[table][x].category)

\* The books of a business add up: numbers, payments, batches and references hold
\* together whatever requests to the business handlers overlap, fail or die.
BooksAddUp == NumbersHaveNoGap /\ PaidIsSumOfPayments /\ BatchHoldsItsItems /\ RefersToWhatExists

\* Payments and edits of invoice i that were answered with success.
Payments(i) == {c \in Answered : Req(c).op = "recordPayment" /\ Req(c).id = i}
Edits(i) == {c \in Answered : Req(c).op = "updateInvoice" /\ Req(c).id = i}

\* Neither was over when the other began.
Overlap(c, d) == c # d /\ c \notin before[d] /\ d \notin before[c]

\* paid counts each of these payments but for some that overlapped another.
CountsAll(i, payments, paid) ==
  \E S \in SUBSET payments :
    /\ paid = SumOf(LAMBDA c : Req(c).cents, S) + PaidAtStart(i)
    /\ \A c \in payments \ S : \E d \in payments : Overlap(c, d)

\* RecordPayment has no transaction and no version check: a payment it answered
\* with success is in paid_cents for good, unless another payment of the invoice
\* overlapped it.
PaymentsAreLostToOverlapsOnly ==
  \A i \in DOMAIN db.invoices : CountsAll(i, Payments(i), db.invoices[i].paid)

\* RecordPayment derives the status from a total it read before, and Update
\* changes the total of drafts only: an invoice that says paid or partially_paid
\* says what its paid_cents and total_cents say, unless an edit overlapped a
\* payment.
StatusTellsAmounts ==
  \A i \in DOMAIN db.invoices :
    db.invoices[i].status \in {"paid", "partially_paid"} =>
      \/ db.invoices[i].status = StatusAfter(db.invoices[i].paid, db.invoices[i].total)
      \/ \E c \in Payments(i), e \in Edits(i) : Overlap(c, e)

\* What RecordPayment and Update answered with success stays true of the invoice,
\* but for requests on it that overlapped.
PaymentsAreKept == PaymentsAreLostToOverlapsOnly /\ StatusTellsAmounts
-----------------------------------------------------------------------------
(* The inductive invariant of the books.                                   *)

\* What a request asks for, from the step it is at.
BookOp == [insertInvoice |-> "createInvoice", insertLine |-> "createInvoice", writePaid |-> "recordPayment",
           insertItem |-> "createBatch", markProcessing |-> "processBatch", insertLoan |-> "applyLoan"]
BookRows ==
  /\ DOMAIN db = BookTables /\ DOMAIN request = Requests
  /\ \A i \in DOMAIN db.invoices : DOMAIN db.invoices[i] = InvoiceColumns
  /\ \A i \in DOMAIN db.batches : DOMAIN db.batches[i] = BatchColumns
  /\ \A c \in Requests :
       /\ DOMAIN request[c] = {"pc", "ask", "seen", "next", "of"} /\ request[c].ask = Form[c]
       /\ request[c].pc \in DOMAIN BookOp => Req(c).op = BookOp[request[c].pc]
       /\ request[c].pc \in {"new"} \cup DOMAIN BookOp \cup {"done", "failed"}

\* A number that was read is at most the next one: invoices are never deleted.
NumbersInv ==
  /\ IsFiniteSet(DOMAIN db.invoices) /\ NumbersHaveNoGap
  /\ \A c \in Requests :
       /\ request[c].pc \in {"new", "insertInvoice"} => c \notin DOMAIN db.invoices
       /\ request[c].pc = "insertInvoice" => request[c].seen \in 1 .. NextInvoiceNumber(Req(c).biz)

\* Payments whose handler is over, and the sums they may have left.
Over(i) == {c \in Requests : Req(c).op = "recordPayment" /\ Req(c).id = i /\ request[c].pc \in {"done", "failed"}}
Explained(i, paid) ==
  \E S \in SUBSET Over(i) :
    paid = SumOf(LAMBDA c : Req(c).cents, S) + PaidAtStart(i)
PaidInv ==
  /\ \A i \in DOMAIN db.invoices : Explained(i, db.invoices[i].paid)
  /\ \A c \in Requests : request[c].pc = "writePaid" =>
       Has(db.invoices, Req(c).id) /\ Explained(Req(c).id, request[c].seen)

\* The items of a batch are the first ones of the request that creates it.
BatchOf(c) ==
  LET items == Req(c).items
  IN  /\ c \in DOMAIN db.batches /\ db.batches[c].total = TotalCents(items) /\ db.batches[c].count = Len(items)
      /\ request[c].next \in 1 .. Len(items) + 1 /\ (request[c].pc = "done" => request[c].next = Len(items) + 1)
      /\ \A x \in ListItems(c) : x[2] \in 1 .. request[c].next - 1 /\ db.items[x].cents \in Int
      /\ IsFiniteSet(ListItems(c)) /\ Cardinality(ListItems(c)) = request[c].next - 1
      /\ SumOf(LAMBDA x : db.items[x].cents, ListItems(c)) = SumOf(LAMBDA n : items[n].cents, 1 .. request[c].next - 1)
BatchInv ==
  /\ \A c \in Requests : IF Req(c).op = "createBatch" /\ request[c].pc # "new" THEN BatchOf(c)
                          ELSE c \notin DOMAIN db.batches /\ ListItems(c) = {}
                               /\ (request[c].pc = "new" => request[c].next = 1)
  /\ \A i \in DOMAIN db.batches \ Requests : Cardinality(ListItems(i)) <= db.batches[i].count

ReferenceInv ==
  /\ RefersToWhatExists
  /\ \A c \in Requests : request[c].pc = "markProcessing" =>
       Has(db.batches, Req(c).id) /\ db.batches[Req(c).id].approver # None

BooksInv == BookRows /\ NumbersInv /\ PaidInv /\ BatchInv /\ ReferenceInv

\* A payment under way has counted those that were over when it began, and the
\* total it read is the one of the row unless an edit came after.
ReadWell(c) ==
  LET i == Req(c).id
  IN  /\ CountsAll(i, Payments(i) \cap before[c], request[c].seen)
      /\ request[c].of = db.invoices[i].total \/ \E e \in Edits(i) : e \notin before[c]
PaymentInv ==
  /\ DOMAIN before = Requests /\ \A c \in Requests : before[c] \subseteq Answered
  /\ \A c \in Answered : Req(c).op = "recordPayment" => Has(db.invoices, Req(c).id)
  /\ PaymentsAreKept
  /\ \A c \in Requests : request[c].pc = "writePaid" => ReadWell(c)
=============================================================================
