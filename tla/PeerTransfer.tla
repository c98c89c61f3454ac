---------------------------- MODULE PeerTransfer ----------------------------
(***************************************************************************)
(* ETB transfers between users with overdraft cover: ProcessInboundTransfer *)
(* (p2p) and ProcessBatchTransfer (batch) of payments.Service, composed    *)
(* with OptIn, OptOut, UseCover, Repay and AutoRepayOnInflow of            *)
(* overdraft.Service and with the ledger.                                  *)
(*                                                                         *)
(* A request is served by one goroutine; pc is where it is.  Every ledger  *)
(* call and every statement on the overdrafts table is a step of its own,  *)
(* and the row a decision was taken from may be stale when it is written.  *)
(***************************************************************************)
EXTENDS Ledger, Overdraft, Sequences, FiniteSets, FiniteSetsExt

CONSTANTS
  Users, Requests,
  Kind,       \* Kind[r]: "p2p", "batch", "repay", "optin" or "optout"
  Actor,      \* Actor[r]: the authenticated user
  Items,      \* Items[r]: sequence of [to, amount], empty unless a transfer
  Repayment,  \* Repayment[r]: amount of a manual repayment, 0 otherwise
  Opening,    \* Opening[u]: main balance at the start
  Capital,    \* overdraft capital at the start
  Profile     \* Profile[u]: the credit profile Eligibility reads

ASSUME FiniteAssumption == IsFiniteSet(Users) /\ IsFiniteSet(Requests)
ASSUME KindAssumption == Kind \in [Requests -> {"p2p", "batch", "repay", "optin", "optout"}]
ASSUME ActorAssumption == Actor \in [Requests -> Users]
ASSUME ItemAssumption == Items \in [Requests -> Seq([to : Users, amount : Nat \ {0}])]
ASSUME MoneyAssumption == Opening \in [Users -> Nat] /\ Capital \in Nat
ASSUME ProfileAssumption ==
  Profile \in [Users -> [blacklisted : BOOLEAN, approved : Int, trust : Int]]

\* What the forms of the requests are validated for.
WellFormed(r) ==
  /\ Kind[r] = "p2p" => Len(Items[r]) = 1
  /\ Kind[r] = "batch" => Len(Items[r]) \in 2 .. 10
  /\ Kind[r] \notin {"p2p", "batch"} => Items[r] = <<>>
  /\ \A i \in DOMAIN Items[r] : Items[r][i].to # Actor[r]
  /\ Kind[r] = "repay" => Repayment[r] \in Nat \ {0}
ASSUME FormAssumption == \A r \in Requests : WellFormed(r)

VARIABLES
  bal,       \* ledger balances
  od,        \* od[u]: row of the overdrafts table
  pc,        \* pc[r]: the step request r is at
  item,      \* item[r]: index of the item being paid
  read,      \* read[r]: the overdraft row r read last
  amount,    \* amount[r]: shortfall to cover or amount to repay
  unbooked,  \* unbooked[u]: overdraft money moved to u and not entered in od[u]
  posted,    \* posted[r]: items whose debit the ledger has applied
  receipts,  \* receipts[r]: the receipts r has written: the sender's, or an item's
  totals,    \* totals[u]: transfer_daily_totals of u, direction p2p
  apart      \* no two requests that involve a common user were ever in flight at once

vars == <<bal, od, pc, item, read, amount, unbooked, posted, receipts, totals, apart>>

Accounts == {Main(u) : u \in Users} \cup {OverdraftCapital}
IsTransfer(r) == Kind[r] \in {"p2p", "batch"}
Recipient(r)  == Items[r][item[r]].to
Cents(r)      == Items[r][item[r]].amount
SenderReceipt == 0
Amounts(r)    == [i \in DOMAIN Items[r] |-> Items[r][i].amount]
TotalCents(r) == SumFunctionOnSet(Amounts(r), DOMAIN Items[r])

\* Whose overdraft row the request is working on.
Debtor(r) == IF pc[r] \in {"inflow", "repay", "repaid"} /\ IsTransfer(r)
               THEN Recipient(r) ELSE Actor[r]

Init ==
  /\ bal = [a \in Accounts |-> IF a = OverdraftCapital THEN Capital ELSE Opening[a[2]]]
  /\ od = [u \in Users |-> NoOverdraft]
  /\ pc = [r \in Requests |-> "idle"]
  /\ item = [r \in Requests |-> 1]
  /\ read = [r \in Requests |-> NoOverdraft]
  /\ amount = [r \in Requests |-> 0]
  /\ unbooked = [u \in Users |-> 0]
  /\ posted = [r \in Requests |-> {}]
  /\ receipts = [r \in Requests |-> {}]
  /\ totals = [u \in Users |-> 0]
  /\ apart = TRUE

Goto(r, step) == pc' = [pc EXCEPT ![r] = step]
Read(r, u)    == read' = [read EXCEPT ![r] = od[u]]

Involved(r) == {Actor[r]} \cup {Items[r][i].to : i \in DOMAIN Items[r]}
Start(r) ==
  /\ pc[r] = "idle"
  /\ apart' = (apart /\ \A s \in Requests : \/ pc[s] \in {"idle", "done"}
                                            \/ Involved(s) \cap Involved(r) = {})

(***************************************************************************)
(* Transfers.                                                              *)
(***************************************************************************)

\* Validation, frozen users, the regulatory check of a p2p transfer and the
\* recipient lookups may all refuse; then the balance is read.
BeginTransfer(r) ==
  /\ Start(r) /\ IsTransfer(r)
  /\ \/ Goto(r, "done") /\ UNCHANGED amount
     \/ LET balance == bal[Main(Actor[r])] IN
          /\ amount' = [amount EXCEPT ![r] = TotalCents(r) - balance]
          /\ Goto(r, IF balance < TotalCents(r) THEN "cover" ELSE "debit")
  /\ UNCHANGED <<bal, od, item, read, unbooked, posted, receipts, totals>>

\* UseCover: the row is read and the limit checked ...
UseCover(r) ==
  /\ pc[r] = "cover"
  /\ Read(r, Actor[r])
  /\ Goto(r, IF CanCover(read'[r], amount[r]) THEN "credit" ELSE "done")
  /\ UNCHANGED <<bal, od, item, amount, unbooked, posted, receipts, totals, apart>>

\* ... the wallet is credited from the overdraft capital ...
CreditCover(r) ==
  /\ pc[r] = "credit"
  /\ \E outcome \in CallOutcomes :
       /\ IF Applied(outcome)
            THEN /\ Covers(bal, OverdraftCapital, amount[r])
                 /\ bal' = CreditFromOverdraft(bal, Actor[r], amount[r])
                 /\ unbooked' = [unbooked EXCEPT ![Actor[r]] = @ + amount[r]]
            ELSE UNCHANGED <<bal, unbooked>>
       /\ Goto(r, IF Confirmed(outcome) THEN "covered" ELSE "done")
  /\ UNCHANGED <<od, item, read, amount, posted, receipts, totals, apart>>

\* ... and the use is entered, or the statement fails and so does the transfer.
SaveCover(r) ==
  /\ pc[r] = "covered"
  /\ \/ /\ od' = [od EXCEPT ![Actor[r]] = UpdateUsedAndStatus(@, read[r], amount[r])]
        /\ unbooked' = [unbooked EXCEPT ![Actor[r]] = @ - amount[r]]
        /\ Goto(r, "debit")
     \/ Goto(r, "done") /\ UNCHANGED <<od, unbooked>>
  /\ UNCHANGED <<bal, item, read, amount, posted, receipts, totals, apart>>

\* The debit that pays the current item.  Its error ends the request and leaves
\* what was paid before, and what was borrowed, as it is.  A p2p sender's
\* receipt follows at once; its error is dropped.
AfterDebitMutant(outcome) == "inflow"
AfterDebit(outcome) == IF Confirmed(outcome) THEN "inflow" ELSE "done"
Debit(r) ==
  /\ pc[r] = "debit"
  /\ \E outcome \in CallOutcomes :
       /\ IF Applied(outcome)
            THEN /\ Covers(bal, Main(Actor[r]), Cents(r))
                 /\ bal' = DebitWallet(bal, Actor[r], Main(Recipient(r)), Cents(r))
                 /\ posted' = [posted EXCEPT ![r] = @ \cup {item[r]}]
            ELSE UNCHANGED <<bal, posted>>
       /\ \/ /\ Kind[r] = "p2p" /\ Confirmed(outcome)
             /\ receipts' = [receipts EXCEPT ![r] = @ \cup {SenderReceipt}]
          \/ UNCHANGED receipts
       /\ Goto(r, AfterDebit(outcome))
  /\ UNCHANGED <<od, item, read, amount, unbooked, totals, apart>>

\* AutoRepayOnInflow for the recipient; a failed read repays nothing.
AutoRepayOnInflow(r) ==
  /\ pc[r] = "inflow"
  /\ \/ /\ Read(r, Recipient(r))
        /\ amount' = [amount EXCEPT ![r] = RepayAmount(read'[r], Cents(r))]
        /\ Goto(r, IF CanRepay(read'[r]) THEN "repay" ELSE "received")
     \/ Goto(r, "received") /\ UNCHANGED <<read, amount>>
  /\ UNCHANGED <<bal, od, item, unbooked, posted, receipts, totals, apart>>

\* The recipient's receipt, and on to the next item.
MoreItems(r) == item[r] < Len(Items[r])
Received(r) ==
  /\ pc[r] = "received"
  /\ \/ receipts' = [receipts EXCEPT ![r] = @ \cup {item[r]}]
     \/ UNCHANGED receipts
  /\ IF MoreItems(r)
       THEN item' = [item EXCEPT ![r] = @ + 1] /\ Goto(r, "debit")
       ELSE Goto(r, "close") /\ UNCHANGED item
  /\ UNCHANGED <<bal, od, read, amount, unbooked, posted, totals, apart>>

\* The sender's receipt of a batch and the daily total; errors are dropped.
Close(r) ==
  /\ pc[r] = "close"
  /\ \/ Kind[r] = "batch" /\ receipts' = [receipts EXCEPT ![r] = @ \cup {SenderReceipt}]
     \/ UNCHANGED receipts
  /\ totals' \in {totals, [totals EXCEPT ![Actor[r]] = @ + TotalCents(r)]}
  /\ Goto(r, "done")
  /\ UNCHANGED <<bal, od, item, read, amount, unbooked, posted, apart>>

(***************************************************************************)
(* Overdraft requests.                                                     *)
(***************************************************************************)

\* Repay: the amount is cut to what the row says is owed.
BeginRepay(r) ==
  /\ Start(r) /\ Kind[r] = "repay"
  /\ Read(r, Actor[r])
  /\ amount' = [amount EXCEPT ![r] = RepayAmount(read'[r], Repayment[r])]
  /\ Goto(r, IF read'[r].status = "used" THEN "repay" ELSE "done")
  /\ UNCHANGED <<bal, od, item, unbooked, posted, receipts, totals>>

\* DebitToOverdraft, of Repay and of AutoRepayOnInflow.  A failed repayment of
\* an inflow does not fail the transfer.
AfterRepayment(r) == IF IsTransfer(r) THEN "received" ELSE "done"
DebitRepayment(r) ==
  /\ pc[r] = "repay"
  /\ \E outcome \in CallOutcomes :
       /\ IF Applied(outcome)
            THEN /\ Covers(bal, Main(Debtor(r)), amount[r])
                 /\ bal' = DebitToOverdraft(bal, Debtor(r), amount[r])
                 /\ unbooked' = [unbooked EXCEPT ![Debtor(r)] = @ - amount[r]]
            ELSE UNCHANGED <<bal, unbooked>>
       /\ Goto(r, IF Confirmed(outcome) THEN "repaid" ELSE AfterRepayment(r))
  /\ UNCHANGED <<od, item, read, amount, posted, receipts, totals, apart>>

SaveRepayment(r) ==
  /\ pc[r] = "repaid"
  /\ \/ /\ od' = [od EXCEPT ![Debtor(r)] = UpdateRepaid(@, read[r], amount[r])]
        /\ unbooked' = [unbooked EXCEPT ![Debtor(r)] = @ + amount[r]]
     \/ UNCHANGED <<od, unbooked>>
  /\ Goto(r, AfterRepayment(r))
  /\ UNCHANGED <<bal, item, read, amount, posted, receipts, totals, apart>>

BeginOpt(r) ==
  /\ Start(r) /\ Kind[r] \in {"optin", "optout"}
  /\ Read(r, Actor[r])
  /\ LET o == read'[r]
         granted == IF Kind[r] = "optin" THEN CanOptIn(o, LimitFor(Profile[Actor[r]]))
                                         ELSE CanOptOut(o)
     IN Goto(r, IF granted THEN "save" ELSE "done")
  /\ UNCHANGED <<bal, od, item, amount, unbooked, posted, receipts, totals>>

\* CreateOrUpdate writes the limit and the status; OptOut writes back the limit
\* it read.
SaveOpt(r) ==
  /\ pc[r] = "save"
  /\ od' = [od EXCEPT ![Actor[r]] =
              IF Kind[r] = "optin"
                THEN CreateOrUpdate(@, LimitFor(Profile[Actor[r]]), "active")
                ELSE CreateOrUpdate(@, read[r].limit, "inactive")]
  /\ Goto(r, "done")
  /\ UNCHANGED <<bal, item, read, amount, unbooked, posted, receipts, totals, apart>>

\* The process dies, or the caller's context is cancelled, between two steps.
Crash(r) ==
  /\ pc[r] \notin {"idle", "done"}
  /\ Goto(r, "done")
  /\ UNCHANGED <<bal, od, item, read, amount, unbooked, posted, receipts, totals, apart>>

Serve(r) == \/ BeginTransfer(r) \/ UseCover(r) \/ CreditCover(r) \/ SaveCover(r)
            \/ Debit(r) \/ AutoRepayOnInflow(r) \/ Received(r) \/ Close(r)
            \/ BeginRepay(r) \/ DebitRepayment(r) \/ SaveRepayment(r)
            \/ BeginOpt(r) \/ SaveOpt(r)

AllServed == (\A r \in Requests : pc[r] = "done") /\ UNCHANGED vars

Next == (\E r \in Requests : Serve(r) \/ Crash(r)) \/ AllServed

Spec == Init /\ [][Next]_vars

(***************************************************************************)
(* Correctness.                                                            *)
(***************************************************************************)

Steps == {"idle", "cover", "credit", "covered", "debit", "inflow", "repay", "repaid",
          "received", "close", "save", "done"}

\* The shape of the state; no account is ever overdrawn.
TypeOK ==
  /\ bal \in [Accounts -> Nat]
  /\ od \in [Users -> OverdraftRows]
  /\ pc \in [Requests -> Steps]
  /\ item \in [Requests -> Nat \ {0}]
  /\ read \in [Requests -> OverdraftRows]
  /\ amount \in [Requests -> Int] /\ unbooked \in [Users -> Int]
  /\ posted \in [Requests -> SUBSET Nat] /\ receipts \in [Requests -> SUBSET Nat]
  /\ totals \in [Users -> Nat] /\ apart \in BOOLEAN

Wallets == [u \in Users |-> bal[Main(u)]]
\* What request r has paid, in all and to user u, and what a user sent and received.
PaidOut(r)    == SumFunctionOnSet(Amounts(r), posted[r])
AmountsTo(r, u) ==
  [i \in DOMAIN Items[r] |-> IF Items[r][i].to = u THEN Items[r][i].amount ELSE 0]
PaidTo(r, u)  == SumFunctionOnSet(AmountsTo(r, u), posted[r])
SentBy(u)     == SumFunctionOnSet([r \in Requests |-> IF Actor[r] = u THEN PaidOut(r) ELSE 0], Requests)
ReceivedBy(u) == SumFunctionOnSet([r \in Requests |-> PaidTo(r, u)], Requests)

\* However cover, debit, inflow and repayment interleave, wallets and the
\* overdraft capital stay covered and no cent is made or lost: the ledger's
\* own check, not the balance the service read, is what holds.
MoneyConserved ==
  /\ TypeOK
  /\ SumFunctionOnSet(Wallets, Users) + bal[OverdraftCapital]
       = Capital + SumFunctionOnSet(Opening, Users)

\* A transfer that stops half way leaves consistent books: items are paid in
\* order and the ones before a paid item are paid, a receipt stands for money
\* that moved (the sender's for every item), and the daily total that feeds
\* the limits never exceeds what the user really sent.
BooksFollowPayments ==
  /\ \A r \in Requests :
       /\ posted[r] = 1 .. Cardinality(posted[r]) /\ posted[r] \subseteq DOMAIN Items[r]
       /\ \A i \in receipts[r] \ {SenderReceipt} : i \in posted[r]
       /\ SenderReceipt \in receipts[r] => posted[r] = DOMAIN Items[r]
  /\ \A u \in Users : totals[u] <= SentBy(u)

\* The overdraft row says what the ledger says: a wallet holds what came in,
\* less what went out, plus what is borrowed, up to the money whose entry in
\* the row has not been made (yet, or ever, when the process died or the
\* confirmation was lost in between).  "Repay ... reduce used_cents and
\* accrued_fee_cents" promises it of every repayment.
DebtMatchesMoney ==
  \A u \in Users :
    bal[Main(u)] = Opening[u] + ReceivedBy(u) - SentBy(u) + od[u].used + unbooked[u]

\* While the requests of a user come one after the other, failures and deaths
\* included, the row keeps to the ledger.
DebtMatchesMoneyApart == apart => DebtMatchesMoney

\* The row and what it owes agree.
Facility(o) ==
  /\ o.used \in 0 .. o.limit
  /\ (o.status = "used") <=> (Owed(o) > 0)
  /\ o.since => o.status = "used"

\* The facility of a user whose requests come one after the other: never used
\* beyond its limit, marked used exactly while something is owed, closed only
\* when nothing is, and with overdrawn_since unset once nothing is.
FacilityConsistent ==
  apart => \A u \in Users : Facility(od[u])
-----------------------------------------------------------------------------
(* The strengthening that makes these inductive.                           *)

Paying(r) == pc[r] \in {"inflow", "received"} \/ (pc[r] \in {"repay", "repaid"} /\ IsTransfer(r))

\* Where a request is says which of its items are paid, and its receipts follow.
BookInv(r) ==
  /\ pc[r] \in {"cover", "credit", "covered", "debit", "inflow", "received", "close"} => IsTransfer(r)
  /\ pc[r] \in {"repay", "repaid"} => IsTransfer(r) \/ Kind[r] = "repay"
  /\ pc[r] = "save" => Kind[r] \in {"optin", "optout"}
  /\ IsTransfer(r) => item[r] \in 1 .. Len(Items[r])
  /\ pc[r] \in {"idle", "cover", "credit", "covered"} => item[r] = 1
  /\ \E n \in 0 .. Len(Items[r]) : posted[r] = 1 .. n
  /\ pc[r] \in {"idle", "cover", "credit", "covered", "debit"} => posted[r] = 1 .. (item[r] - 1)
  /\ Paying(r) => posted[r] = 1 .. item[r]
  /\ pc[r] = "close" => posted[r] = DOMAIN Items[r]
  /\ receipts[r] \subseteq {SenderReceipt} \cup posted[r]
  /\ SenderReceipt \in receipts[r] => posted[r] = DOMAIN Items[r]

\* The ledger is asked for amounts that are not negative, and no fee is accrued.
AmountInv(r) ==
  /\ pc[r] \in {"cover", "credit", "covered"} => amount[r] >= 1
  /\ pc[r] \in {"repay", "repaid"} => amount[r] >= 0
  /\ read[r].accrued = 0
NoFees == \A u \in Users : od[u].accrued = 0

\* The daily totals count requests that have ended.
EndedBy(u) ==
  SumFunctionOnSet([r \in Requests |-> IF Actor[r] = u /\ pc[r] = "done" THEN PaidOut(r) ELSE 0], Requests)
TotalsInv == \A u \in Users : totals[u] <= EndedBy(u)

IInv ==
  /\ TypeOK /\ NoFees
  /\ \A r \in Requests : BookInv(r) /\ AmountInv(r)

\* While the requests of a user come one after the other, what a request has read
\* of the facility is still so when it writes.
InFlight(r) == pc[r] \notin {"idle", "done"}
Isolated == \A r, s \in Requests : r # s /\ InFlight(r) /\ InFlight(s) => Involved(r) \cap Involved(s) = {}
Fresh(r) ==
  /\ pc[r] \in {"credit", "covered"} => read[r] = od[Actor[r]] /\ CanCover(read[r], amount[r])
  /\ pc[r] \in {"repay", "repaid"} => read[r] = od[Debtor(r)] /\ amount[r] \in 1 .. read[r].used
  /\ pc[r] = "save" => read[r] = od[Actor[r]] /\ (IF Kind[r] = "optin" THEN read[r].status \notin {"active", "used"}
                                                                     ELSE CanOptOut(read[r]))
ApartInv ==
  apart => /\ Isolated /\ DebtMatchesMoney
           /\ \A u \in Users : Facility(od[u])
           /\ \A r \in Requests : Fresh(r)
=============================================================================
