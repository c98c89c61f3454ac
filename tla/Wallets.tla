------------------------------- MODULE Wallets -------------------------------
(***************************************************************************)
(* The wallet of one user: currency balances (balances.Service), pots      *)
(* (pots.Service), conversions (convert.Service) and the views of them     *)
(* (wallet.Service), over the ledger and the user's overdraft row.         *)
(*                                                                         *)
(* An account of the ledger is named by its kind and its currency or pot.  *)
(* A call is one request in flight; every ledger call and every statement  *)
(* that writes is a step of its own, and a call may die between two steps. *)
(* A request that is refused by its first reads changes nothing and is not *)
(* a step.                                                                 *)
(***************************************************************************)
EXTENDS Ledger, Overdraft, Sequences, FiniteSets, FiniteSetsExt

CONSTANTS
  Calls,       \* requests that may be in flight together
  PotIds, Labels,
  Currencies,  \* the supported currencies, with "ETB" among them
  Amounts,     \* amounts a request may carry
  Opening,     \* Opening[cur]: main balance at the start
  Debt,        \* what the user owes on the overdraft at the start
  Verified,    \* the user has KYC level Verified or better
  Mid,         \* Mid[from][to]: mid rate as [num, den]
  SpreadBps,   \* spread of the rate provider, in hundredths of a percent
  MaxRows,     \* bound: rows of currency_balances
  MaxStarts    \* bound: requests served

ETB == "ETB"

ASSUME CurrencyAssumption == ETB \in Currencies /\ Opening \in [Currencies -> Nat]
ASSUME RateAssumption ==
  /\ SpreadBps \in Nat
  /\ \A f, t \in Currencies : Mid[f][t].num \in Nat /\ Mid[f][t].den \in Nat \ {0}
ASSUME AmountAssumption == Amounts \subseteq Nat /\ Debt \in Nat
ASSUME PotAssumption == IsFiniteSet(PotIds) /\ PotIds # {} /\ Labels # {}
ASSUME WalletBoundAssumption == MaxRows \in Nat \ {0} /\ MaxStarts \in Nat

VARIABLES
  bal,       \* ledger balances
  pots,      \* pots[p]: row of the pots table
  rows,      \* rows[i]: row i of currency_balances
  details,   \* rows of currency_balances that have account details
  od,        \* row of the overdrafts table
  receipts,  \* transaction_receipts, oldest first
  call,      \* call[c]: the request c is serving
  starts,    \* requests started, also the number of the ledger transaction of each
  owned,     \* owned[cur]: what the user was given less what was taken, by posting
  late,      \* late[p]: deposits posted while p was being archived, or after
  exposed,   \* currencies credited while they were closed or being closed
  broken     \* some call died, or was told of a failure, between two writes

vars == <<bal, pots, rows, details, od, receipts, call, starts, owned, late, exposed, broken>>

FX(cur) == <<"fx", cur>>
Accounts == {Main(cur) : cur \in Currencies} \cup {FX(cur) : cur \in Currencies}
              \cup {Pot(p) : p \in PotIds} \cup {OverdraftCapital, World}

NoPot == [state |-> "absent", cur |-> ETB, name |-> CHOOSE l \in Labels : TRUE]
NoRow == [state |-> "absent", cur |-> ETB]
Idle  == [op |-> "idle", at |-> "idle", pot |-> CHOOSE p \in PotIds : TRUE, cur |-> ETB, to |-> ETB,
          amt |-> 0, got |-> 0, row |-> 0, name |-> NoPot.name, tx |-> 0, read |-> NoOverdraft]

(***************************************************************************)
(* The tables.                                                             *)
(***************************************************************************)

ActiveRows(cur)  == {i \in 1 .. MaxRows : rows[i] = [state |-> "active", cur |-> cur]}
DeletedRows(cur) == {i \in 1 .. MaxRows : rows[i] = [state |-> "deleted", cur |-> cur]}
IsPrimary(cur)   == cur = ETB

\* The partial unique index on (user_id, currency_code) WHERE deleted_at IS NULL.
IndexAllowsMutant(cur) == TRUE
IndexAllows(cur) == ActiveRows(cur) = {}
InsertBalance(i, cur) ==
  /\ rows[i].state = "absent" /\ \A j \in 1 .. i - 1 : rows[j].state # "absent"
  /\ IndexAllows(cur)
  /\ rows' = [rows EXCEPT ![i] = [state |-> "active", cur |-> cur]]

\* UPDATE ... SET deleted_at = NULL of every deleted row of the currency: with
\* two of them the index refuses the statement.
Reactivate(i, cur) ==
  /\ DeletedRows(cur) = {i} /\ IndexAllows(cur)
  /\ rows' = [rows EXCEPT ![i].state = "active"]
SoftDelete(cur) ==
  rows' = [i \in 1 .. MaxRows |-> IF i \in ActiveRows(cur)
                                    THEN [rows[i] EXCEPT !.state = "deleted"] ELSE rows[i]]

\* The unique index on the names of the pots that are not archived.
NameFree(p, name) == \A q \in PotIds \ {p} : pots[q].state = "active" => pots[q].name # name
CreatePotRow(p, cur, name) ==
  /\ pots[p].state = "absent" /\ NameFree(p, name)
  /\ pots' = [pots EXCEPT ![p] = [state |-> "active", cur |-> cur, name |-> name]]
UpdatePotRow(p, name) ==
  /\ pots[p].state = "active" /\ NameFree(p, name)
  /\ pots' = [pots EXCEPT ![p].name = name]
ArchivePotRow(p) ==
  /\ pots[p].state = "active"
  /\ pots' = [pots EXCEPT ![p].state = "archived"]
ListActivePots == {p \in PotIds : pots[p].state = "active"}

(***************************************************************************)
(* Ledger postings of the wallet.                                          *)
(***************************************************************************)

TransferToPot(b, p, cur, amt)   == Send(b, Main(cur), Pot(p), amt)
TransferFromPot(b, p, cur, amt) == Send(b, Pot(p), Main(cur), amt)
\* One transaction: the user pays the fx account, and the fx account, then
\* @world, pays the user.
ConvertCurrency(b, from, amt, to, got) ==
  LET paid  == Send(b, Main(from), FX(from), amt)
      stock == MinOf(paid[FX(to)], got)
  IN Send(Send(paid, FX(to), Main(to), stock), World, Main(to), got - stock)

\* ConvertWithSpread: the amount at the ask rate, mid * (1 + spread / 2), rounded
\* half away from zero.
AskRate(from, to) == [num |-> Mid[from][to].num * (20000 + SpreadBps),
                      den |-> Mid[from][to].den * 20000]
RoundedDiv(n, d) == (2 * n + d) \div (2 * d)
ConvertWithSpread(rate, amt) == RoundedDiv(amt * rate.num, rate.den)

(***************************************************************************)
(* Calls.                                                                  *)
(***************************************************************************)

Init ==
  /\ bal = [a \in Accounts |-> IF a[1] = "main" THEN Opening[a[2]] ELSE 0]
  /\ pots = [p \in PotIds |-> NoPot]
  /\ rows = [i \in 1 .. MaxRows |-> IF i = 1 THEN [NoRow EXCEPT !.state = "active"] ELSE NoRow]
  /\ details = {1}
  /\ od = [NoOverdraft EXCEPT !.status = IF Debt > 0 THEN "used" ELSE "active",
                              !.limit = Debt, !.used = Debt, !.since = Debt > 0]
  /\ receipts = <<>>
  /\ call = [c \in Calls |-> Idle]
  /\ starts = 0
  /\ owned = Opening
  /\ late = [p \in PotIds |-> 0]
  /\ exposed = {cur \in Currencies \ {ETB} : Opening[cur] > 0}
  /\ broken = FALSE

At(c, op, step) == call[c].op = op /\ call[c].at = step
Goto(c, step)   == call' = [call EXCEPT ![c].at = step]
Finish(c)       == call' = [call EXCEPT ![c] = Idle]
Start(c, request) ==
  /\ call[c] = Idle /\ starts < MaxStarts
  /\ starts' = starts + 1
  /\ call' = [call EXCEPT ![c] = [request EXCEPT !.tx = starts + 1]]
Ghosts == <<owned, late, exposed>>

\* A posting of call c: applied if the source covers it, and its caller told.
Post(c, src, amt, b, step) ==
  \E outcome \in CallOutcomes :
    /\ IF Applied(outcome) THEN Covers(bal, src, amt) /\ bal' = b ELSE bal' = bal
    /\ IF Confirmed(outcome) THEN Goto(c, step) /\ UNCHANGED broken
                             ELSE Finish(c) /\ broken' = TRUE
\* A receipt; its error is dropped.
Receipt(c, type, cur, amt) ==
  receipts' \in {receipts, Append(receipts, [type |-> type, tx |-> call[c].tx,
                                             cur |-> cur, amt |-> amt])}

ClosingNow(cur) == \E d \in Calls : At(d, "delete", "delete") /\ call[d].cur = cur
Credited(cur) == exposed' = IF bal'[Main(cur)] > bal[Main(cur)]
                               /\ (ActiveRows(cur) = {} \/ ClosingNow(cur))
                              THEN exposed \cup {cur} ELSE exposed

(* Currency balances. *)

\* CreateCurrencyBalance: KYC for foreign currency, no active row; then whether a
\* deleted row is there decides between two statements.
CreateCurrencyBalance(c, cur) ==
  /\ cur # ETB => Verified
  /\ ActiveRows(cur) = {}
  /\ Start(c, [Idle EXCEPT !.op = "create", !.cur = cur,
                 !.at = IF DeletedRows(cur) # {} THEN "reactivate" ELSE "insert"])
  /\ UNCHANGED <<bal, pots, rows, details, od, receipts, Ghosts, broken>>
SaveBalance(c) ==
  /\ call[c].op = "create" /\ call[c].at \in {"insert", "reactivate"}
  /\ \/ \E i \in 1 .. MaxRows :
          /\ IF call[c].at = "insert" THEN InsertBalance(i, call[c].cur)
                                      ELSE Reactivate(i, call[c].cur)
          /\ call' = [call EXCEPT ![c].at = "details", ![c].row = i]
          /\ UNCHANGED broken
     \/ Finish(c) /\ broken' = TRUE /\ UNCHANGED rows
  /\ UNCHANGED <<bal, pots, details, od, receipts, starts, Ghosts>>
\* generateAccountDetails: those of a reactivated row are kept; otherwise the
\* next number of the sequence makes a new row, or the request fails.
GenerateAccountDetails(c) ==
  /\ At(c, "create", "details")
  /\ \/ details' = details \cup {call[c].row} /\ UNCHANGED broken
     \/ call[c].row \notin details /\ broken' = TRUE /\ UNCHANGED details
  /\ Finish(c)
  /\ UNCHANGED <<bal, pots, rows, od, receipts, starts, Ghosts>>

\* DeleteCurrencyBalance: not the primary one, and empty when it was read.
MayCloseMutant(cur) == ~ IsPrimary(cur)
MayClose(cur) == ~ IsPrimary(cur) /\ bal[Main(cur)] = 0
DeleteCurrencyBalance(c, cur) ==
  /\ ActiveRows(cur) # {} /\ MayClose(cur)
  /\ Start(c, [Idle EXCEPT !.op = "delete", !.at = "delete", !.cur = cur])
  /\ UNCHANGED <<bal, pots, rows, details, od, receipts, Ghosts, broken>>
DeleteBalance(c) ==
  /\ At(c, "delete", "delete")
  /\ SoftDelete(call[c].cur)
  /\ Finish(c)
  /\ UNCHANGED <<bal, pots, details, od, receipts, starts, Ghosts, broken>>

(* Pots. *)

\* CreatePot: the currency is active when it is looked up; the row follows.
CreatePot(c, p, cur, name) ==
  /\ ActiveRows(cur) # {} /\ pots[p].state = "absent"
  /\ Start(c, [Idle EXCEPT !.op = "pot", !.at = "insert", !.pot = p, !.cur = cur, !.name = name])
  /\ UNCHANGED <<bal, pots, rows, details, od, receipts, Ghosts, broken>>
SaveNewPot(c) ==
  /\ At(c, "pot", "insert")
  /\ CreatePotRow(call[c].pot, call[c].cur, call[c].name) \/ UNCHANGED pots
  /\ Finish(c)
  /\ UNCHANGED <<bal, rows, details, od, receipts, starts, Ghosts, broken>>

\* getPotForUser of the requests on a pot.
OpenPot(c, p, request) ==
  /\ pots[p].state = "active"
  /\ Start(c, [request EXCEPT !.pot = p, !.cur = pots[p].cur])
  /\ UNCHANGED <<bal, pots, rows, details, od, receipts, Ghosts, broken>>

UpdatePot(c, p, name) ==
  OpenPot(c, p, [Idle EXCEPT !.op = "rename", !.at = "update", !.name = name])
SavePot(c) ==
  /\ At(c, "rename", "update")
  /\ UpdatePotRow(call[c].pot, call[c].name) \/ UNCHANGED pots
  /\ Finish(c)
  /\ UNCHANGED <<bal, rows, details, od, receipts, starts, Ghosts, broken>>

\* AddToPot: the main balance covers the amount when it is read.
AddToPot(c, p, amt) ==
  /\ bal[Main(pots[p].cur)] >= amt
  /\ OpenPot(c, p, [Idle EXCEPT !.op = "add", !.at = "post", !.amt = amt])
ArchivingNow(p) == \E d \in Calls : call[d].op = "archive" /\ call[d].pot = p
                                      /\ call[d].at \in {"post", "mark"}
PostDeposit(c) ==
  LET p == call[c].pot  cur == call[c].cur  amt == call[c].amt IN
    /\ At(c, "add", "post")
    /\ Post(c, Main(cur), amt, TransferToPot(bal, p, cur, amt), "receipt")
    /\ late' = IF bal' # bal /\ (pots[p].state = "archived" \/ ArchivingNow(p))
                 THEN [late EXCEPT ![p] = @ + amt] ELSE late
    /\ UNCHANGED <<pots, rows, details, od, receipts, starts, owned, exposed>>
DepositReceipt(c) ==
  /\ At(c, "add", "receipt")
  /\ Receipt(c, "pot_deposit", call[c].cur, call[c].amt)
  /\ Finish(c)
  /\ UNCHANGED <<bal, pots, rows, details, od, starts, Ghosts, broken>>

WithdrawFromPot(c, p, amt) ==
  /\ bal[Pot(p)] >= amt
  /\ OpenPot(c, p, [Idle EXCEPT !.op = "withdraw", !.at = "post", !.amt = amt])
PostWithdrawal(c) ==
  LET p == call[c].pot  cur == call[c].cur  amt == call[c].amt IN
    /\ call[c].op \in {"withdraw", "archive"} /\ call[c].at = "post"
    /\ Post(c, Pot(p), amt, TransferFromPot(bal, p, cur, amt),
            IF call[c].op = "archive" THEN "mark" ELSE "receipt")
    /\ Credited(cur)
    /\ UNCHANGED <<pots, rows, details, od, receipts, starts, owned, late>>
WithdrawalReceipt(c) ==
  /\ At(c, "withdraw", "receipt")
  /\ Receipt(c, "pot_withdraw", call[c].cur, call[c].amt)
  /\ Finish(c)
  /\ UNCHANGED <<bal, pots, rows, details, od, starts, Ghosts, broken>>

\* ArchivePot: the pot is read, then its balance; what is on it goes back to the
\* main account, and only if that is confirmed is the row archived.
ArchivePot(c, p) == OpenPot(c, p, [Idle EXCEPT !.op = "archive", !.at = "balance"])
AfterBalanceMutant(cents) == "mark"
AfterBalance(cents) == IF cents > 0 THEN "post" ELSE "mark"
ArchiveBalance(c) ==
  LET cents == bal[Pot(call[c].pot)] IN
    /\ At(c, "archive", "balance")
    /\ call' = [call EXCEPT ![c].amt = cents, ![c].at = AfterBalance(cents)]
    /\ UNCHANGED <<bal, pots, rows, details, od, receipts, starts, Ghosts, broken>>
MarkArchived(c) ==
  /\ At(c, "archive", "mark")
  /\ ArchivePotRow(call[c].pot) \/ UNCHANGED pots
  /\ Finish(c)
  /\ UNCHANGED <<bal, rows, details, od, receipts, starts, Ghosts, broken>>

(* Conversions. *)

\* Convert: positive amount, two currencies, a rate, and a balance that covers
\* the amount when it is read.  Neither currency need have an active row.
Convert(c, from, to, amt) ==
  /\ from # to /\ bal[Main(from)] >= amt
  /\ Start(c, [Idle EXCEPT !.op = "convert", !.at = "post", !.cur = from, !.to = to, !.amt = amt,
                 !.got = ConvertWithSpread(AskRate(from, to), amt)])
  /\ UNCHANGED <<bal, pots, rows, details, od, receipts, Ghosts, broken>>
PostConversion(c) ==
  LET from == call[c].cur  to == call[c].to  amt == call[c].amt  got == call[c].got IN
    /\ At(c, "convert", "post")
    /\ Post(c, Main(from), amt, ConvertCurrency(bal, from, amt, to, got), "out")
    /\ owned' = IF bal' = bal THEN owned
                  ELSE [owned EXCEPT ![from] = @ - amt, ![to] = @ + got]
    /\ Credited(to)
    /\ UNCHANGED <<pots, rows, details, od, receipts, starts, late>>
ConvertOutReceipt(c) ==
  /\ At(c, "convert", "out")
  /\ Receipt(c, "convert_out", call[c].cur, call[c].amt)
  /\ Goto(c, IF call[c].to = ETB THEN "inflow" ELSE "in")
  /\ UNCHANGED <<bal, pots, rows, details, od, starts, Ghosts, broken>>

\* AutoRepayOnInflow of what an ETB conversion brought: read, debit, save.
AutoRepay(c) ==
  /\ At(c, "convert", "inflow")
  /\ call' = [call EXCEPT ![c].read = od,
                          ![c].at = IF CanRepay(od) /\ call[c].got > 0 THEN "repay" ELSE "in"]
  /\ UNCHANGED <<bal, pots, rows, details, od, receipts, starts, Ghosts, broken>>
PostRepayment(c) ==
  LET amt == RepayAmount(call[c].read, call[c].got) IN
    /\ At(c, "convert", "repay")
    /\ \E outcome \in CallOutcomes :
         /\ IF Applied(outcome)
              THEN /\ Covers(bal, Main(ETB), amt)
                   /\ bal' = DebitToOverdraft(bal, ETB, amt)
                   /\ owned' = [owned EXCEPT ![ETB] = @ - amt]
              ELSE UNCHANGED <<bal, owned>>
         /\ Goto(c, IF Confirmed(outcome) THEN "repaid" ELSE "in")
         /\ broken' = (broken \/ ~ Confirmed(outcome))
    /\ UNCHANGED <<pots, rows, details, od, receipts, starts, late, exposed>>
SaveRepayment(c) ==
  /\ At(c, "convert", "repaid")
  /\ \/ od' = UpdateRepaid(od, call[c].read, RepayAmount(call[c].read, call[c].got)) /\ UNCHANGED broken
     \/ broken' = TRUE /\ UNCHANGED od
  /\ Goto(c, "in")
  /\ UNCHANGED <<bal, pots, rows, details, receipts, starts, Ghosts>>
ConvertInReceipt(c) ==
  /\ At(c, "convert", "in")
  /\ Receipt(c, "convert_in", call[c].to, call[c].got)
  /\ Finish(c)
  /\ UNCHANGED <<bal, pots, rows, details, od, starts, Ghosts, broken>>

\* The process dies, or the request is cancelled, between two steps.
Die(c) ==
  /\ call[c] # Idle
  /\ Finish(c) /\ broken' = TRUE
  /\ UNCHANGED <<bal, pots, rows, details, od, receipts, starts, Ghosts>>

(***************************************************************************)
(* The HTTP handlers: what a request may carry.                            *)
(***************************************************************************)

PotTransferForm(amt) == amt > 0
ValidateAmountCents(amt) == amt > 0
HandleCreateBalance(c) == \E cur \in Currencies : CreateCurrencyBalance(c, cur)
HandleDeleteBalance(c) == \E cur \in Currencies : DeleteCurrencyBalance(c, cur)
HandleCreatePot(c) == \E p \in PotIds, cur \in Currencies, l \in Labels : CreatePot(c, p, cur, l)
HandleUpdatePot(c) == \E p \in PotIds, l \in Labels : UpdatePot(c, p, l)
HandleDeletePot(c) == \E p \in PotIds : ArchivePot(c, p)
HandleAdd(c) == \E p \in PotIds, amt \in Amounts : PotTransferForm(amt) /\ AddToPot(c, p, amt)
HandleWithdraw(c) ==
  \E p \in PotIds, amt \in Amounts : PotTransferForm(amt) /\ WithdrawFromPot(c, p, amt)
HandleConvert(c) == \E from, to \in Currencies, amt \in Amounts :
                      ValidateAmountCents(amt) /\ Convert(c, from, to, amt)

Serve(c) ==
  \/ HandleCreateBalance(c) \/ HandleDeleteBalance(c) \/ HandleCreatePot(c) \/ HandleUpdatePot(c)
  \/ HandleDeletePot(c) \/ HandleAdd(c) \/ HandleWithdraw(c) \/ HandleConvert(c)
  \/ SaveBalance(c) \/ GenerateAccountDetails(c) \/ DeleteBalance(c)
  \/ SaveNewPot(c) \/ SavePot(c) \/ PostDeposit(c) \/ DepositReceipt(c)
  \/ PostWithdrawal(c) \/ WithdrawalReceipt(c) \/ ArchiveBalance(c) \/ MarkArchived(c)
  \/ PostConversion(c) \/ ConvertOutReceipt(c) \/ AutoRepay(c) \/ PostRepayment(c)
  \/ SaveRepayment(c) \/ ConvertInReceipt(c)

AllServed == starts = MaxStarts /\ (\A c \in Calls : call[c] = Idle) /\ UNCHANGED vars

Next == (\E c \in Calls : Serve(c) \/ Die(c)) \/ AllServed

Spec == Init /\ [][Next]_vars

(***************************************************************************)
(* What the user is shown.                                                 *)
(***************************************************************************)

\* GetSummary: the currencies with an active row, or all of them without any.
SummaryCurrencies ==
  LET active == {cur \in Currencies : ActiveRows(cur) # {}} IN
    IF active = {} THEN Currencies ELSE active
\* ListPots.
ListedPots == ListActivePots

\* ListTransactions, on a page of receipts: a convert_in is left out when its
\* convert_out is on the page, which then carries the other amount.
PairedInMutant(page, i) == page[i].type = "convert_in"
PairedIn(page, i) == /\ page[i].type = "convert_in"
                     /\ \E j \in DOMAIN page : page[j].type = "convert_out" /\ page[j].tx = page[i].tx
Partner(page, i) == {j \in DOMAIN page : /\ page[i].type = "convert_out"
                                         /\ page[j].type = "convert_in" /\ page[j].tx = page[i].tx}
Views(page) == {[main |-> i, converted |-> Partner(page, i)] :
                  i \in {k \in DOMAIN page : ~ PairedIn(page, k)}}

\* The lines of the page that show receipt i.
ShownBy(page, i) == {v \in Views(page) : i = v.main \/ i \in v.converted}

(***************************************************************************)
(* Correctness.                                                            *)
(***************************************************************************)

PotCurrency(p) == IF pots[p].state = "absent" THEN ETB ELSE pots[p].cur
OnPots == [p \in PotIds |-> bal[Pot(p)]]
Holdings(cur) == bal[Main(cur)] + SumFunctionOnSet(OnPots, {p \in PotIds : PotCurrency(p) = cur})

\* Money of the user never drops out of sight unless it was posted to a pot or a
\* balance that another request was closing: what is left on a pot that ListPots
\* no longer shows is at most the deposits that met its archiving, and a currency
\* missing from GetSummary holds money only if a posting reached it closed.
HiddenMoneyCameLate ==
  /\ \A p \in PotIds \ ListedPots : bal[Pot(p)] <= late[p]
  /\ \A cur \in Currencies \ SummaryCurrencies : bal[Main(cur)] > 0 => cur \in exposed

\* Pots and conversions keep the books: main account and pots of a currency hold
\* exactly what conversions and repayments left of it, nothing is overdrawn, and
\* every receipt stands for a posting of its own.  However creations and deletions
\* meet, a currency has at most one active row, the primary one is always there,
\* no two listed pots share a name, and an active row lacks its account details
\* only while or after a creation failed.
WalletBooksConsistent ==
  /\ \A cur \in Currencies : Holdings(cur) = owned[cur]
  /\ \A a \in Accounts \ {World} : bal[a] >= 0
  /\ \A i, j \in DOMAIN receipts :
       receipts[i].tx = receipts[j].tx /\ receipts[i].type = receipts[j].type => i = j
  /\ \A cur \in Currencies : Cardinality(ActiveRows(cur)) <= 1
  /\ ActiveRows(ETB) # {}
  /\ \A p, q \in ListedPots : pots[p].name = pots[q].name => p = q
  /\ \A i \in 1 .. MaxRows :
       rows[i].state = "active" /\ i \notin details =>
         broken \/ \E c \in Calls : At(c, "create", "details") /\ call[c].row = i

\* Whatever page of the history is asked for, every receipt on it is shown once:
\* as a line of its own, or as the converted amount of one other line.
HistoryShowsEachReceiptOnce ==
  \A first \in 1 .. Len(receipts) : \A last \in first .. Len(receipts) :
    LET page == SubSeq(receipts, first, last) IN
      \A i \in DOMAIN page :
        Cardinality(ShownBy(page, i)) = 1

(***************************************************************************)
(* The inductive invariant.                                                *)
(***************************************************************************)

PotRows     == [state : {"absent", "active", "archived"}, cur : Currencies, name : Labels]
BalanceRows == [state : {"absent", "active", "deleted"}, cur : Currencies]
ReceiptRows == [type : {"pot_deposit", "pot_withdraw", "convert_out", "convert_in"},
                tx : Nat, cur : Currencies, amt : Nat]
CallOps     == {"idle", "create", "delete", "pot", "rename", "add", "withdraw", "archive", "convert"}
CallSteps   == {"idle", "insert", "reactivate", "details", "delete", "update", "post", "receipt",
                "balance", "mark", "out", "inflow", "repay", "repaid", "in"}
CallRows    == [op : CallOps, at : CallSteps, pot : PotIds, cur : Currencies, to : Currencies,
                amt : Nat, got : Nat, row : 0 .. MaxRows, name : Labels, tx : Nat, read : OverdraftRows]

\* The state of the program is what its tables and requests can hold.
TypeOK ==
  /\ bal \in [Accounts -> Int] /\ \A a \in Accounts \ {World} : bal[a] >= 0
  /\ pots \in [PotIds -> PotRows]
  /\ rows \in [1 .. MaxRows -> BalanceRows]
  /\ details \in SUBSET (1 .. MaxRows)
  /\ od \in OverdraftRows
  /\ receipts \in Seq(ReceiptRows)
  /\ call \in [Calls -> CallRows]
  /\ starts \in Nat
  /\ owned \in [Currencies -> Int]
  /\ late \in [PotIds -> Nat]
  /\ exposed \in SUBSET Currencies
  /\ broken \in BOOLEAN

\* A pot without a row is empty; one that is not listed holds late deposits.
PotInv(p) ==
  /\ pots[p].state = "absent" => pots[p].cur = ETB /\ bal[Pot(p)] = 0
  /\ pots[p].state # "active" => bal[Pot(p)] <= late[p]
NamesInv == \A p, q \in PotIds :
  pots[p].state = "active" /\ pots[q].state = "active" /\ pots[p].name = pots[q].name => p = q
\* The unique index and the primary balance.
RowsInv ==
  /\ \A i, j \in 1 .. MaxRows : rows[i].state = "active" /\ rows[j] = rows[i] => i = j
  /\ \E i \in 1 .. MaxRows : rows[i].state = "active" /\ rows[i].cur = ETB
  /\ \A i \in 1 .. MaxRows :
       rows[i].state = "active" /\ i \notin details =>
         broken \/ \E c \in Calls : At(c, "create", "details") /\ call[c].row = i
\* Money on a balance that is closed, or about to be, came while it was.
ClosedInv(cur) ==
  (ActiveRows(cur) = {} \/ ClosingNow(cur)) /\ bal[Main(cur)] > 0 => cur \in exposed
MoneyInv == \A cur \in Currencies : Holdings(cur) = owned[cur]

\* What a request knows: the pot it opened is there and has its currency; an
\* archiving request has seen the balance but for late deposits; no receipt that
\* it has yet to write is there.
CallInv(c) ==
  LET r == call[c] IN
    /\ r.op = "idle" => r = Idle
    /\ r.op = "delete" => r.cur # ETB
    /\ At(c, "create", "details") => r.row \in 1 .. MaxRows
    /\ r.op \in {"rename", "add", "withdraw", "archive"} =>
         pots[r.pot].state # "absent" /\ r.cur = pots[r.pot].cur
    /\ r.op = "convert" => r.cur # r.to /\ r.amt > 0
    /\ At(c, "archive", "post") => bal[Pot(r.pot)] <= r.amt + late[r.pot]
    /\ At(c, "archive", "mark") => bal[Pot(r.pot)] <= late[r.pot]
    /\ r.op # "idle" => r.tx \in 1 .. starts
    /\ \A i \in DOMAIN receipts : r.op # "idle" /\ receipts[i].tx = r.tx =>
         r.op = "convert" /\ r.at \in {"inflow", "repay", "repaid", "in"} /\ receipts[i].type # "convert_in"
\* Every request has a number of its own, and so has every receipt of a type.
NumbersInv ==
  /\ \A c, d \in Calls : call[c].op # "idle" /\ call[c].tx = call[d].tx => c = d
  /\ \A i \in DOMAIN receipts : receipts[i].tx \in 1 .. starts
  /\ \A i, j \in DOMAIN receipts :
       receipts[i].tx = receipts[j].tx /\ receipts[i].type = receipts[j].type => i = j

IInv ==
  /\ TypeOK /\ NamesInv /\ RowsInv /\ MoneyInv /\ NumbersInv
  /\ \A p \in PotIds : PotInv(p)
  /\ \A cur \in Currencies : ClosedInv(cur)
  /\ \A c \in Calls : CallInv(c)
=============================================================================
