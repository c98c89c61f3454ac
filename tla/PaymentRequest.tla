--------------------------- MODULE PaymentRequest ---------------------------
(***************************************************************************)
(* Requests for money between users: Create, CreateBatch, Pay, Decline,    *)
(* Cancel, Remind and ExpireStale of payment_requests.Service over the     *)
(* payment_requests table.                                                 *)
(*                                                                         *)
(* Every call reads the row in one statement and writes it in a later one; *)
(* Pay moves the money in between, through payments.Service.  That         *)
(* transfer is one step here: PeerTransfer looks inside it.                *)
(***************************************************************************)
EXTENDS Integers, Sequences, FiniteSets, FiniteSetsExt

CONSTANTS
  Users, Frozen,   \* Frozen: the users with IsFrozen set
  Names, Phones,   \* what a form may call a payer; Phones are the phone numbers
  Owner,           \* Owner[n]: the user n belongs to, or Nobody
  Nobody, NoRow,
  Workloads,       \* each a function from API calls to [op, by] and their form
  MaxReminders     \* 3 in IncrementReminder

Ops == {"create", "batch", "pay", "decline", "cancel", "remind"}

ASSUME NameAssumption ==
  /\ Phones \subseteq Names /\ Owner \in [Names -> Users \cup {Nobody}]
  /\ Nobody \notin Users /\ Frozen \subseteq Users
ASSUME BoundAssumption == MaxReminders \in Nat
ASSUME FiniteAssumption == \A W \in Workloads : IsFiniteSet(DOMAIN W)
ASSUME CallAssumption ==
  \A W \in Workloads : \A c \in DOMAIN W :
    /\ W[c].op \in Ops /\ W[c].by \in Users
    /\ W[c].op \in {"create", "batch"} => W[c].to \in Seq(Names) /\ W[c].total \in Int
    /\ W[c].op = "create" => Len(W[c].to) = 1 /\ DOMAIN W[c].custom = {}
ASSUME CustomAssumption ==
  \A W \in Workloads : \A c \in DOMAIN W :
    W[c].op \in {"create", "batch"} =>
      DOMAIN W[c].custom \subseteq Names /\ \A n \in DOMAIN W[c].custom : W[c].custom[n] \in Int

VARIABLES
  form,  \* form[c]: the operation, the caller and the form of call c
  row,   \* row[q]: row q of payment_requests
  call,  \* call[c]: where call c is, and the row it works on
  sent   \* sent[q]: the transfers of q's amount from its payer to its requester

vars == <<form, row, call, sent>>

\* The API calls, each served by one goroutine.
Calls == DOMAIN form

Creates(c) == form[c].op \in {"create", "batch"}

\* The i-th row call c inserts has the name <<c, i>>.
Rows == UNION {{<<c, i>> : i \in 1 .. Len(form[c].to)} : c \in {d \in Calls : Creates(d)}}
NoneYet == <<>>

Init ==
  /\ form \in Workloads
  /\ row  = [q \in Rows |-> NoRow]
  /\ call = [c \in Calls |-> [pc |-> "new", q |-> NoneYet]]
  /\ sent = [q \in Rows |-> 0]

Goto(c, l)  == call' = [call EXCEPT ![c].pc = l]
Exists(q)   == row[q] # NoRow
Pending(q)  == row[q].status = "pending"
-----------------------------------------------------------------------------
(* Create and CreateBatch.                                                 *)

IsCustomSplit(c) == DOMAIN form[c].custom # {}

CustomTotal(c) ==
  SumFunctionOnSet([i \in 1 .. Len(form[c].to) |-> form[c].custom[form[c].to[i]]], 1 .. Len(form[c].to))

\* The duplicate check compares the strings of the form, not the users.
Valid(c) ==
  /\ form[c].total > 0
  /\ form[c].op = "batch" =>
       /\ Len(form[c].to) \in 2 .. 10
       /\ \A i, j \in 1 .. Len(form[c].to) : i # j => form[c].to[i] # form[c].to[j]
       /\ IsCustomSplit(c) =>
            /\ \A i \in 1 .. Len(form[c].to) :
                 form[c].to[i] \in DOMAIN form[c].custom /\ form[c].custom[form[c].to[i]] > 0
            /\ CustomTotal(c) = form[c].total

\* A single request may go to a phone number nobody has registered yet.
Resolvable(c) ==
  /\ form[c].by \notin Frozen
  /\ \A i \in 1 .. Len(form[c].to) : LET n == form[c].to[i] IN
       /\ Owner[n] = Nobody => form[c].op = "create" /\ n \in Phones
       /\ Owner[n] \notin Frozen \cup {form[c].by}

AmountMutant(c, i) == form[c].total \div Len(form[c].to) + (form[c].total % Len(form[c].to))

\* CustomAmounts, or equal shares with the remainder in the first.
Amount(c, i) ==
  IF IsCustomSplit(c) THEN form[c].custom[form[c].to[i]]
  ELSE form[c].total \div Len(form[c].to)
         + (IF i = 1 THEN form[c].total % Len(form[c].to) ELSE 0)

Refuse(c) ==
  /\ Creates(c) /\ call[c].pc = "new" /\ ~(Valid(c) /\ Resolvable(c))
  /\ Goto(c, "failed") /\ UNCHANGED <<row, sent>>

Accept(c) ==
  /\ Creates(c) /\ call[c].pc = "new" /\ Valid(c) /\ Resolvable(c)
  /\ Goto(c, "insert") /\ UNCHANGED <<row, sent>>

Inserted(c) == {i \in 1 .. Len(form[c].to) : Exists(<<c, i>>)}

\* One INSERT of the loop; amount_cents > 0 is a CHECK of the table.
Insert(c) ==
  LET i == Cardinality(Inserted(c)) + 1 IN
  /\ Creates(c) /\ call[c].pc = "insert" /\ Amount(c, i) > 0
  /\ row' = [row EXCEPT ![<<c, i>>] =
               [requester |-> form[c].by, payer |-> Owner[form[c].to[i]],
                amount |-> Amount(c, i), status |-> "pending", reminders |-> 0]]
  /\ Goto(c, IF i = Len(form[c].to) THEN "done" ELSE "insert")
  /\ UNCHANGED sent

\* An INSERT fails: the error is returned and the rows before it stay.
InsertFails(c) ==
  /\ Creates(c) /\ call[c].pc = "insert"
  /\ Goto(c, "failed") /\ UNCHANGED <<row, sent>>
-----------------------------------------------------------------------------
(* Pay, Decline, Cancel and Remind.                                        *)

MayAct(c, q) ==
  form[c].by = IF form[c].op \in {"pay", "decline"} THEN row[q].payer ELSE row[q].requester

\* GetByID and the checks on what it returned.
Read(c) ==
  /\ ~Creates(c) /\ call[c].pc = "new"
  /\ \E q \in {p \in Rows : Exists(p)} :
       call' = [call EXCEPT ![c] =
                  [pc |-> IF ~MayAct(c, q) \/ ~Pending(q) THEN "failed"
                          ELSE IF form[c].op = "pay" THEN "transfer" ELSE "update",
                   q |-> q]]
  /\ UNCHANGED <<row, sent>>

AfterRefusalMutant == "update"

\* Pay returns when ProcessInboundTransfer fails.
AfterRefusal == "failed"

\* ProcessInboundTransfer moves the amount, or fails and moves nothing.
Transfer(c) ==
  /\ call[c].pc = "transfer"
  /\ \/ sent' = [sent EXCEPT ![call[c].q] = @ + 1] /\ Goto(c, "update")
     \/ UNCHANGED sent /\ Goto(c, AfterRefusal)
  /\ UNCHANGED row

\* It can also fail after the debit: the money has moved, and Pay returns.
TransferThenError(c) ==
  /\ call[c].pc = "transfer"
  /\ sent' = [sent EXCEPT ![call[c].q] = @ + 1]
  /\ Goto(c, "unmarked") /\ UNCHANGED row

NewStatus(c) == CASE form[c].op = "pay"     -> "paid"
                  [] form[c].op = "decline" -> "declined"
                  [] form[c].op = "cancel"  -> "cancelled"

StillPendingMutant(q) == TRUE

\* WHERE status = 'pending', in every UPDATE of the table.
StillPending(q) == Pending(q)

Remindable(q) == StillPending(q) /\ row[q].reminders < MaxReminders

\* The guarded UPDATE, and the error when it matches no row.
Update(c) ==
  LET q == call[c].q
      Match == IF form[c].op = "remind" THEN Remindable(q) ELSE StillPending(q)
  IN  /\ call[c].pc = "update"
      /\ row' = CASE ~Match -> row
                  [] Match /\ form[c].op = "remind" -> [row EXCEPT ![q].reminders = @ + 1]
                  [] OTHER -> [row EXCEPT ![q].status = NewStatus(c)]
      /\ Goto(c, CASE Match -> "done"
                   [] ~Match /\ form[c].op = "pay" -> "unmarked"
                   [] OTHER -> "failed")
      /\ UNCHANGED sent

\* The statement fails, or the process dies before it.
UpdateFails(c) ==
  /\ call[c].pc = "update"
  /\ Goto(c, IF form[c].op = "pay" THEN "unmarked" ELSE "failed")
  /\ UNCHANGED <<row, sent>>

\* Pending rows past expires_at; no job of the repository calls it yet.
ExpireStale ==
  \E S \in SUBSET {q \in Rows : Exists(q) /\ Pending(q)} :
    /\ S # {}
    /\ row' = [q \in Rows |-> IF q \in S THEN [row[q] EXCEPT !.status = "expired"] ELSE row[q]]
    /\ UNCHANGED <<call, sent>>

Step ==
  \/ \E c \in Calls :
       \/ Refuse(c) \/ Accept(c) \/ Insert(c) \/ InsertFails(c)
       \/ Read(c) \/ Transfer(c) \/ TransferThenError(c) \/ Update(c) \/ UpdateFails(c)
  \/ ExpireStale

Next == Step /\ UNCHANGED form

Spec == Init /\ [][Next]_vars
-----------------------------------------------------------------------------
(* Properties.                                                             *)

Steps    == {"new", "insert", "transfer", "update", "done", "failed", "unmarked"}
Statuses == {"pending", "paid", "declined", "cancelled", "expired"}
Entries  == [requester : Users, payer : Users \cup {Nobody}, amount : Nat \ {0},
             status : Statuses, reminders : 0 .. MaxReminders]

\* The mark of a row that is not there is no row.
ASSUME NoRowAssumption == NoRow \notin Entries

\* The shape of the state.  It includes two facts the table's guards must
\* keep: no row for nothing, and at most MaxReminders reminders however many
\* Remind calls run at once (IncrementReminder).
TypeOK ==
  /\ form \in Workloads
  /\ row \in [Rows -> Entries \cup {NoRow}]
  /\ call \in [Calls -> [pc : Steps, q : Rows \cup {NoneYet}]]
  /\ sent \in [Rows -> Nat]

Between(q)     == {c \in Calls : form[c].op = "pay" /\ call[c].q = q /\ call[c].pc = "update"}
Unrecorded(q)  == {c \in Calls : call[c].q = q /\ call[c].pc = "unmarked"}
Recorded(q)    == IF Exists(q) /\ row[q].status = "paid" THEN 1 ELSE 0

\* Pay: every transfer is the one a paid row stands for, or belongs to a Pay
\* call that is about to record it or has told its caller of a failure.  A row
\* becomes paid on account of a transfer only, and of one only.
TransfersAccountedFor ==
  \A q \in Rows : sent[q] = Recorded(q) + Cardinality(Between(q)) + Cardinality(Unrecorded(q))

\* Pay, Decline, Cancel and ExpirePending: a row that has left pending never
\* changes again, and what a row asks of whom never changes, however the calls
\* that read it while it was pending interleave; reminders stop at the limit,
\* also those of calls that all read the row below it.
ClosedRequestIsFinal ==
  [][\A q \in Rows : Exists(q) =>
       /\ Exists(q)'
       /\ ~Pending(q) => row'[q] = row[q]
       /\ row'[q].amount = row[q].amount /\ row'[q].payer = row[q].payer
       /\ row'[q].reminders <= MaxReminders]_vars

\* CreateBatch: the rows of one call never ask for more than the form's total,
\* and ask for exactly the total when the call succeeds.
BatchAsksForTheTotal ==
  \A c \in Calls : Creates(c) =>
    LET asked == SumFunctionOnSet([i \in Inserted(c) |-> row[<<c, i>>].amount], Inserted(c))
    IN  /\ call[c].pc \in {"insert", "done"} => asked <= form[c].total
        /\ call[c].pc = "done" => asked = form[c].total
-----------------------------------------------------------------------------
(* The strengthening that makes these inductive.                           *)

\* A call that creates inserts; any other works on a row that is there, and
\* only Pay transfers.
CallInv(c) ==
  /\ Creates(c) => call[c].pc \in {"new", "insert", "done", "failed"}
  /\ ~Creates(c) =>
       /\ call[c].pc # "insert"
       /\ call[c].pc # "new" => call[c].q \in Rows /\ Exists(call[c].q)
  /\ call[c].pc \in {"transfer", "unmarked"} => form[c].op = "pay"

\* The rows of a call are inserted in the order of its form, for the amounts
\* it splits the total into.
BatchInv(c) ==
  /\ \E k \in 0 .. Len(form[c].to) : Inserted(c) = 1 .. k
  /\ call[c].pc = "new" => Inserted(c) = {}
  /\ call[c].pc = "insert" => Inserted(c) # 1 .. Len(form[c].to)
  /\ call[c].pc = "done" => Inserted(c) = 1 .. Len(form[c].to)
  /\ call[c].pc \in {"insert", "done"} => Valid(c)
  /\ \A i \in Inserted(c) : row[<<c, i>>].amount = Amount(c, i)

IInv ==
  /\ TypeOK /\ TransfersAccountedFor
  /\ \A c \in Calls : CallInv(c) /\ (Creates(c) => BatchInv(c))
=============================================================================
