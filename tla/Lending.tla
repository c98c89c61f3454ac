------------------------------ MODULE Lending ------------------------------
(***************************************************************************)
(* Loans: DisburseLoan and ManualRepay of lending.DisbursementService and  *)
(* the daily AutoSweep of lending.RepaymentService, over the loans and     *)
(* loan_installments tables and the ledger.                                *)
(*                                                                         *)
(* API calls and the lending worker run concurrently; every ledger call    *)
(* and every statement is a step of its own.  Time is counted in months,   *)
(* the step of the repayment schedule.                                     *)
(***************************************************************************)
EXTENDS Ledger, Sequences, FiniteSets, FiniteSetsExt

CONSTANTS
  Users,
  Applies,    \* calls of DisburseLoan; the loan one creates has its name
  Repays,     \* calls of ManualRepay
  By,         \* By[c]: the authenticated user of call c
  Principal,  \* Principal[a]: PrincipalCents of application a
  Days,       \* Days[a]: DurationDays
  Asked,      \* Asked[p]: AmountCents of repayment p
  Limit,      \* Limit[u]: ApprovedLimitCents, 0 for a profile that may not borrow
  Opening,    \* Opening[u]: balance of u's wallet at the start
  Capital,    \* loan capital at the start
  NoLoan,
  MaxMonths   \* bound on the clock

ASSUME FiniteAssumption == IsFiniteSet(Users) /\ IsFiniteSet(Applies) /\ IsFiniteSet(Repays)
ASSUME CallAssumption == By \in [Applies \cup Repays -> Users] /\ Applies \cap Repays = {}
ASSUME LoanAssumption == Principal \in [Applies -> Nat \ {0}] /\ Days \in [Applies -> 7 .. 365]
ASSUME RepayAssumption == Asked \in [Repays -> Nat \ {0}]
ASSUME MoneyAssumption == Limit \in [Users -> Nat] /\ Opening \in [Users -> Nat] /\ Capital \in Nat

VARIABLES
  bal,        \* ledger balances
  loan,       \* loan[l]: row of loans
  inst,       \* inst[l]: its rows of loan_installments, by installment_number
  call,       \* call[c]: where an API call is and what it has read
  sweep,      \* the worker: where it is, and the installments it listed
  month,      \* the time
  lent,       \* lent[l]: money the ledger has paid out for application l
  collected,  \* collected[l]: money the ledger has taken for loan l
  returned    \* returned[l]: the part of it that went back to the capital

vars == <<bal, loan, inst, call, sweep, month, lent, collected, returned>>
ledgerVars == <<bal, lent, collected, returned>>

Accounts == {Main(u) : u \in Users} \cup {LoanCapital, Interest}

\* 5% of the principal, and the whole debt.
Fee(a)      == Principal[a] \div 20
TotalDue(a) == Principal[a] + Fee(a)

Idle == [pc |-> "idle", todo |-> {}, at |-> <<>>]

Init ==
  /\ bal   = [x \in Accounts |-> IF x = LoanCapital THEN Capital
                                 ELSE IF x = Interest THEN 0 ELSE Opening[x[2]]]
  /\ loan  = [l \in Applies |-> NoLoan]
  /\ inst  = [l \in Applies |-> <<>>]
  /\ call  = [c \in Applies \cup Repays |->
                [pc |-> "new", of |-> <<>>, seen |-> 0, cents |-> 0, cover |-> {}]]
  /\ sweep = Idle
  /\ month = 0
  /\ lent  = [l \in Applies |-> 0]
  /\ collected = lent /\ returned = lent

Goto(c, l) == call' = [call EXCEPT ![c].pc = l]
Exists(l)  == loan[l] # NoLoan
Outstanding(l) == Exists(l) /\ loan[l].status \in {"active", "in_arrears"}
-----------------------------------------------------------------------------
(* DisburseLoan.                                                           *)

\* IsEligibleForLoan, the limit, ListActiveByUser: read before the money moves.
Apply(a) ==
  /\ call[a].pc = "new"
  /\ Goto(a, IF /\ Principal[a] <= Limit[By[a]]
                /\ ~\E l \in Applies : Outstanding(l) /\ loan[l].user = By[a]
             THEN "disburse" ELSE "failed")
  /\ UNCHANGED <<bal, loan, inst, sweep, month, lent, collected, returned>>

\* A payment whose confirmation is lost ends the call: nothing records it.
Disburse(a) ==
  /\ call[a].pc = "disburse"
  /\ \E o \in CallOutcomes :
       /\ Applied(o) => Covers(bal, LoanCapital, Principal[a])
       /\ IF Applied(o)
            THEN /\ bal'  = Send(bal, LoanCapital, Main(By[a]), Principal[a])
                 /\ lent' = [lent EXCEPT ![a] = Principal[a]]
            ELSE UNCHANGED <<bal, lent>>
       /\ Goto(a, IF Confirmed(o) THEN "record" ELSE "failed")
  /\ UNCHANGED <<loan, inst, sweep, month, collected, returned>>

CreateLoan(a) ==
  /\ call[a].pc = "record"
  /\ \/ /\ loan' = [loan EXCEPT ![a] =
                      [user |-> By[a], paid |-> 0, status |-> "active", since |-> month]]
        /\ Goto(a, "schedule")
     \/ UNCHANGED loan /\ Goto(a, "failed")
  /\ UNCHANGED <<inst, sweep, month>> /\ UNCHANGED ledgerVars

Months(a) == IF Days[a] \div 30 < 1 THEN 1 ELSE Days[a] \div 30

InstallmentMutant(a, i) == TotalDue(a) \div Months(a)

\* Equal parts; the last one takes what the division left over.
Installment(a, i) ==
  LET part == TotalDue(a) \div Months(a)
  IN  IF i = Months(a) THEN TotalDue(a) - part * (Months(a) - 1) ELSE part

\* CreateInstallments is one batch: all rows or, if one breaks the CHECK that
\* amount_due_cents > 0 or the statement fails, none.  The loan stays.
CreateInstallments(a) ==
  LET rows == [i \in 1 .. Months(a) |-> [due |-> Installment(a, i), paid |-> FALSE]] IN
  /\ call[a].pc = "schedule"
  /\ \/ /\ \A i \in DOMAIN rows : rows[i].due > 0
        /\ inst' = [inst EXCEPT ![a] = rows] /\ Goto(a, "done")
     \/ UNCHANGED inst /\ Goto(a, "failed")
  /\ UNCHANGED <<loan, sweep, month>> /\ UNCHANGED ledgerVars
-----------------------------------------------------------------------------
(* CollectLoanRepayment, as ManualRepay and the sweep use it.              *)

PrincipalPortionsMutant(l, cents) == {(cents * Principal[l]) \div TotalDue(l) + 1}

\* int64(float64(cents) * (principal / total)): the division is rounded, so a
\* product that should be whole may come out just below and lose a cent.
PrincipalPortions(l, cents) ==
  LET exact == (cents * Principal[l]) \div TotalDue(l)
  IN  {exact} \cup IF cents > 0 /\ (cents * Principal[l]) % TotalDue(l) = 0
                     THEN {exact - 1} ELSE {}

CollectMutant(l, cents) ==
  \E p \in PrincipalPortions(l, cents) :
    /\ cents >= 0 /\ Covers(bal, Main(loan[l].user), cents)
    /\ bal' = Send(bal, Main(loan[l].user), Interest, cents)
    /\ collected' = [collected EXCEPT ![l] = @ + cents]
    /\ returned'  = [returned EXCEPT ![l] = @ + p]

\* One transaction takes both parts from the wallet.
Collect(l, cents) ==
  \E p \in PrincipalPortions(l, cents) :
    /\ cents >= 0 /\ Covers(bal, Main(loan[l].user), cents)
    /\ bal' = Send(Send(bal, Main(loan[l].user), LoanCapital, p),
                   Main(loan[l].user), Interest, cents - p)
    /\ collected' = [collected EXCEPT ![l] = @ + cents]
    /\ returned'  = [returned EXCEPT ![l] = @ + p]
-----------------------------------------------------------------------------
(* ManualRepay.                                                            *)

RemainingCents(l) == TotalDue(l) - loan[l].paid

Capped(l, cents) == IF cents > RemainingCents(l) THEN RemainingCents(l) ELSE cents

Repay(p) ==
  /\ call[p].pc = "new"
  /\ \E l \in {k \in Applies : Exists(k)} :
       call' = [call EXCEPT ![p] =
                  [pc |-> IF loan[l].user = By[p] /\ Outstanding(l) THEN "collect" ELSE "failed",
                   of |-> <<l>>, seen |-> loan[l].paid, cents |-> Capped(l, Asked[p]), cover |-> {}]]
  /\ UNCHANGED <<loan, inst, sweep, month>> /\ UNCHANGED ledgerVars

LoanOf(p) == call[p].of[1]

\* An error of the ledger client ends the call, whether or not it was applied.
AfterCollect(o) == IF Confirmed(o) THEN "increment" ELSE "failed"

RepayCollect(p) ==
  /\ call[p].pc = "collect"
  /\ \E o \in CallOutcomes :
       /\ IF Applied(o) THEN Collect(LoanOf(p), call[p].cents)
                        ELSE UNCHANGED <<bal, collected, returned>>
       /\ Goto(p, AfterCollect(o))
  /\ UNCHANGED <<loan, inst, sweep, month, lent>>

IncrementPaid(l, cents) == loan' = [loan EXCEPT ![l].paid = @ + cents]

RepayIncrement(p) ==
  /\ call[p].pc = "increment"
  /\ \/ IncrementPaid(LoanOf(p), call[p].cents) /\ Goto(p, "list")
     \/ UNCHANGED loan /\ Goto(p, "failed")
  /\ UNCHANGED <<inst, sweep, month>> /\ UNCHANGED ledgerVars

Dues(l) == [i \in DOMAIN inst[l] |-> inst[l][i].due]

CoverMutant(l, cents) ==
  LET unpaid == {i \in DOMAIN inst[l] : ~inst[l][i].paid}
  IN  {i \in unpaid :
         SumFunctionOnSet(Dues(l), {j \in unpaid : j < i}) < cents}

\* The first unpaid installments, as many as the amount covers in full.
Cover(l, cents) ==
  LET unpaid == {i \in DOMAIN inst[l] : ~inst[l][i].paid}
  IN  {i \in unpaid :
         SumFunctionOnSet(Dues(l), {j \in unpaid : j <= i}) <= cents}

RepayList(p) ==
  /\ call[p].pc = "list"
  /\ \/ call' = [call EXCEPT ![p].pc = "mark", ![p].cover = Cover(LoanOf(p), call[p].cents)]
     \/ Goto(p, "failed")
  /\ UNCHANGED <<loan, inst, sweep, month>> /\ UNCHANGED ledgerVars

MarkPaid(l, S) ==
  inst' = [inst EXCEPT ![l] = [i \in DOMAIN inst[l] |->
             [due |-> inst[l][i].due, paid |-> i \in S \/ inst[l][i].paid]]]

\* MarkInstallmentPaid one by one, its errors ignored.
RepayMark(p) ==
  /\ call[p].pc = "mark"
  /\ \E S \in SUBSET call[p].cover : MarkPaid(LoanOf(p), S)
  /\ Goto(p, "close")
  /\ UNCHANGED <<loan, sweep, month>> /\ UNCHANGED ledgerVars

PaysOffMutant(l, seen, cents) == seen + cents >= Principal[l]

\* Judged on the total_paid_cents the call read at its start.
PaysOff(l, seen, cents) == seen + cents >= TotalDue(l)

RepayClose(p) ==
  /\ call[p].pc = "close"
  /\ \/ /\ PaysOff(LoanOf(p), call[p].seen, call[p].cents)
        /\ loan' = [loan EXCEPT ![LoanOf(p)].status = "repaid"]
     \/ UNCHANGED loan
  /\ Goto(p, "done")
  /\ UNCHANGED <<inst, sweep, month>> /\ UNCHANGED ledgerVars
-----------------------------------------------------------------------------
(* AutoSweep.                                                              *)

DueMonth(x) == loan[x[1]].since + x[2]

DueUnpaid == {x \in UNION {{<<l, i>> : i \in DOMAIN inst[l]} : l \in Applies} :
                ~inst[x[1]][x[2]].paid /\ DueMonth(x) <= month}

SweepList ==
  /\ sweep.pc = "idle" /\ DueUnpaid # {}
  /\ sweep' = [pc |-> "collect", todo |-> DueUnpaid, at |-> <<>>]
  /\ UNCHANGED <<loan, inst, call, month>> /\ UNCHANGED ledgerVars

\* The list goes on with what is left of it, in the order of the due dates.
Continue(todo) == IF todo = {} THEN Idle ELSE [pc |-> "collect", todo |-> todo, at |-> <<>>]

\* processInstallment up to the ledger call; neither the installment nor the
\* status of the loan is read again.
SweepCollect ==
  /\ sweep.pc = "collect"
  /\ \E x \in sweep.todo, o \in CallOutcomes :
       /\ \A y \in sweep.todo : DueMonth(x) <= DueMonth(y)
       /\ IF Applied(o) THEN Collect(x[1], inst[x[1]][x[2]].due)
                        ELSE UNCHANGED <<bal, collected, returned>>
       /\ sweep' = IF Confirmed(o) THEN [pc |-> "mark", todo |-> sweep.todo \ {x}, at |-> x]
                                   ELSE Continue(sweep.todo \ {x})
  /\ UNCHANGED <<loan, inst, call, month, lent>>

SweepMark ==
  /\ sweep.pc = "mark"
  /\ \/ /\ MarkPaid(sweep.at[1], {sweep.at[2]})
        /\ sweep' = [pc |-> "increment", todo |-> sweep.todo, at |-> sweep.at]
     \/ UNCHANGED inst /\ sweep' = Continue(sweep.todo)
  /\ UNCHANGED <<loan, call, month>> /\ UNCHANGED ledgerVars

SweepIncrement ==
  /\ sweep.pc = "increment"
  /\ \/ IncrementPaid(sweep.at[1], inst[sweep.at[1]][sweep.at[2]].due)
     \/ UNCHANGED loan
  /\ sweep' = Continue(sweep.todo)
  /\ UNCHANGED <<inst, call, month>> /\ UNCHANGED ledgerVars

\* The worker dies and is started again; cron calls AutoSweep the next day.
SweepCrash ==
  /\ sweep.pc # "idle" /\ sweep' = Idle
  /\ UNCHANGED <<loan, inst, call, month>> /\ UNCHANGED ledgerVars

MonthPasses ==
  /\ month < MaxMonths /\ month' = month + 1
  /\ UNCHANGED <<loan, inst, call, sweep>> /\ UNCHANGED ledgerVars

Next ==
  \/ \E a \in Applies : Apply(a) \/ Disburse(a) \/ CreateLoan(a) \/ CreateInstallments(a)
  \/ \E p \in Repays : \/ Repay(p) \/ RepayCollect(p) \/ RepayIncrement(p)
                       \/ RepayList(p) \/ RepayMark(p) \/ RepayClose(p)
  \/ SweepList \/ SweepCollect \/ SweepMark \/ SweepIncrement \/ SweepCrash
  \/ MonthPasses

Spec == Init /\ [][Next]_vars
-----------------------------------------------------------------------------
(* Properties.                                                             *)

CallSteps == {"new", "disburse", "record", "schedule", "collect", "increment",
              "list", "mark", "close", "done", "failed"}

LoanRows == [user : Users, paid : Nat, since : Nat,
             status : {"active", "in_arrears", "defaulted", "repaid", "written_off"}]
InstRows == [due : Nat \ {0}, paid : BOOLEAN]
CallRows == [pc : CallSteps, of : {<<>>} \cup {<<l>> : l \in Applies}, seen : Nat, cents : Int,
             cover : SUBSET Nat]
\* The mark of a loan that is not there is no row.
ASSUME NoLoanAssumption == NoLoan \notin LoanRows

\* The shape of the state; no account is ever overdrawn.
TypeOK ==
  /\ bal \in [Accounts -> Nat]
  /\ loan \in [Applies -> LoanRows \cup {NoLoan}]
  /\ DOMAIN inst = Applies
  /\ \A l \in Applies : inst[l] = <<>> \/ inst[l] \in [1 .. Months(l) -> InstRows]
  /\ call \in [Applies \cup Repays -> CallRows]
  /\ sweep.pc \in {"idle", "collect", "mark", "increment"}
  /\ month \in Nat
  /\ lent \in [Applies -> Nat] /\ collected \in [Applies -> Nat] /\ returned \in [Applies -> Nat]

SumOver(f, S) == SumFunctionOnSet(f, S)
Wallets == [u \in Users |-> bal[Main(u)]]

\* DisburseLoan and CollectLoanRepayment: no step makes or destroys money, and
\* the loan capital is short by exactly what was lent and has not come back;
\* concurrent collections overdraw no wallet.
MoneyConserved ==
  /\ TypeOK
  /\ SumOver(Wallets, Users) + bal[LoanCapital] + bal[Interest] = Capital + SumOver(Opening, Users)
  /\ bal[LoanCapital] = Capital - SumOver(lent, Applies) + SumOver(returned, Applies)

\* What call p has taken for loan l and not yet added to its total.
Uncounted(p, l) == IF call[p].pc = "increment" /\ call[p].of = <<l>> THEN call[p].cents ELSE 0
SweepingCents(l) == IF sweep.pc \in {"mark", "increment"} /\ sweep.at[1] = l
                      THEN inst[l][sweep.at[2]].due ELSE 0

\* The total_paid_cents of a loan, with the amounts about to be added to it.
ClaimedPaid(l) ==
  loan[l].paid + SumOver([p \in Repays |-> Uncounted(p, l)], Repays) + SweepingCents(l)
\* What the installments of a loan that are marked paid are worth.
PaidPart(rows) == SumOver([i \in DOMAIN rows |-> IF rows[i].paid THEN rows[i].due ELSE 0], DOMAIN rows)
MarkedPaid(l)  == PaidPart(inst[l])

\* IncrementPaid and MarkInstallmentPaid: neither the total of a loan nor the
\* installments marked paid claim more than the ledger has taken for it, whoever
\* took it, though calls mark installments from a list they read earlier.
BooksClaimWhatWasTaken ==
  \A l \in Applies : /\ Exists(l) => ClaimedPaid(l) <= collected[l]
                      /\ MarkedPaid(l) <= collected[l]

\* ManualRepay: a loan is closed as repaid only when its recorded payments
\* cover the debt, although the decision rests on a stale total.
RepaidIsCovered ==
  \A l \in Applies : (Exists(l) /\ loan[l].status = "repaid") => loan[l].paid >= TotalDue(l)

\* DisburseLoan: the schedule adds up to the debt, whatever division left over,
\* and there is a loan and a payment out behind it.
ScheduleCoversDebt ==
  \A l \in Applies : inst[l] # <<>> =>
    /\ SumOver(Dues(l), DOMAIN inst[l]) = TotalDue(l)
    /\ Exists(l) /\ lent[l] = Principal[l]

\* The ratio split of ManualRepay and processInstallment: however a debt is cut
\* into payments, the capital gets no more than the principal's share of them.
CapitalGetsItsShare ==
  \A l \in Applies : returned[l] * TotalDue(l) <= collected[l] * Principal[l]
-----------------------------------------------------------------------------
(* The strengthening that makes these inductive.                           *)

\* An application: what it has paid out and written by each of its steps.
ApplyInv(a) ==
  /\ call[a].pc \in {"new", "disburse", "record", "schedule", "done", "failed"}
  /\ call[a].pc \in {"new", "disburse"} => lent[a] = 0
  /\ call[a].pc \in {"record", "schedule"} => lent[a] = Principal[a]
  /\ call[a].pc \in {"new", "disburse", "record"} => ~Exists(a)
  /\ call[a].pc = "schedule" => Exists(a)
  /\ call[a].pc # "done" => inst[a] = <<>>
  /\ inst[a] # <<>> => /\ \A i \in 1 .. Months(a) : inst[a][i].due = Installment(a, i)
                       /\ Exists(a) /\ lent[a] = Principal[a]

\* A repayment: the loan is there, what was read of its total is no more than the
\* total, and what was added since is in it.
RepayInv(p) ==
  /\ call[p].pc \in {"new", "collect", "increment", "list", "mark", "close", "done", "failed"}
  /\ call[p].pc # "new" => call[p].of # <<>> /\ Exists(LoanOf(p))
  /\ call[p].pc \in {"collect", "increment"} => call[p].seen <= loan[LoanOf(p)].paid
  /\ call[p].pc \in {"increment", "list", "mark", "close"} => call[p].cents >= 0
  /\ call[p].pc \in {"list", "mark", "close"} =>
       call[p].seen + call[p].cents <= loan[LoanOf(p)].paid
  /\ call[p].pc = "mark" => call[p].cover \subseteq DOMAIN inst[LoanOf(p)]

\* The worker goes through installments that are there.
IsInstallment(x) == \E l \in Applies : \E i \in DOMAIN inst[l] : x = <<l, i>>
SweepInv ==
  /\ \A x \in sweep.todo : IsInstallment(x)
  /\ sweep.pc \in {"mark", "increment"} => IsInstallment(sweep.at)

\* What the unpaid ones of installments S are worth.
Worth(rows, S) ==
  SumOver([i \in DOMAIN rows |-> IF i \in S /\ ~rows[i].paid THEN rows[i].due ELSE 0], DOMAIN rows)
\* The part of what was taken for loan l that installments may still be marked for.
Unmarked(p, l) ==
  IF call[p].of # <<l>> THEN 0
  ELSE IF call[p].pc \in {"increment", "list"} THEN call[p].cents
  ELSE IF call[p].pc = "mark" THEN Worth(inst[l], call[p].cover) ELSE 0
SweepUnmarked(l) == IF sweep.pc = "mark" /\ sweep.at[1] = l THEN Worth(inst[l], {sweep.at[2]}) ELSE 0

Claims(l) ==
  /\ Exists(l) => ClaimedPaid(l) <= collected[l]
  /\ MarkedPaid(l) + SumOver([p \in Repays |-> Unmarked(p, l)], Repays) + SweepUnmarked(l) <= collected[l]

IInv ==
  /\ TypeOK /\ SweepInv /\ RepaidIsCovered
  /\ \A a \in Applies : ApplyInv(a)
  /\ \A p \in Repays : RepayInv(p)
=============================================================================
