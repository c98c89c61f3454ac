---------------------------- MODULE LendingProofs ----------------------------
(***************************************************************************)
(* Proofs about Lending for any borrowers, applications, repayments and    *)
(* amounts, and any number of months.                                      *)
(***************************************************************************)
EXTENDS Lending, SumFacts, TLAPS

\* What is known of an application: it asks for something, and the fee makes the
\* debt no smaller.
LEMMA DebtType ==
  ASSUME NEW a \in Applies
  PROVE  /\ Principal[a] \in Nat \ {0} /\ TotalDue(a) \in Nat \ {0}
         /\ Principal[a] <= TotalDue(a) /\ Months(a) \in Nat \ {0}
<1>1. Principal[a] \in Nat \ {0} /\ Days[a] \in 7 .. 365
  BY LoanAssumption
<1>2. PICK n \in Nat \ {0}, d \in 7 .. 365 : n = Principal[a] /\ d = Days[a]
  BY <1>1
<1>3. n \div 20 \in Nat /\ d \div 30 \in Nat
  BY DivisionRule
<1> QED BY <1>2, <1>3 DEF TotalDue, Fee, Months

\* The principal's part of a payment is no more than its share, rounded down.
LEMMA ShareRule ==
  ASSUME NEW cents \in Nat, NEW part \in Nat \ {0}, NEW whole \in Nat \ {0}, part <= whole
  PROVE  LET exact == (cents * part) \div whole IN
         /\ exact \in Nat /\ exact <= cents /\ exact * whole <= cents * part
         /\ cents > 0 /\ (cents * part) % whole = 0 =>
              exact - 1 \in Nat /\ (exact - 1) * whole <= cents * part
<1>1. PICK x \in Nat : x = cents * part
  OBVIOUS
<1>2. PICK e \in Nat, r \in Nat : e = x \div whole /\ r = x % whole /\ whole * e + r = x
  BY DivisionRule
<1>3. whole * e \in Nat /\ e * whole = whole * e /\ cents * whole \in Nat
  OBVIOUS
<1>4. cents * part <= cents * whole
  OBVIOUS
<1>5. e <= cents
  <2> SUFFICES ASSUME e >= cents + 1 PROVE FALSE
    OBVIOUS
  <2>1. e * whole >= (cents + 1) * whole
    OBVIOUS
  <2>2. (cents + 1) * whole = cents * whole + whole
    OBVIOUS
  <2> QED BY <1>1, <1>2, <1>3, <1>4, <2>1, <2>2
<1>6. ASSUME cents > 0, r = 0 PROVE e - 1 \in Nat /\ (e - 1) * whole <= x
  <2>1. x > 0
    BY <1>1, <1>6
  <2>2. e # 0
    <3> SUFFICES ASSUME e = 0 PROVE FALSE
      OBVIOUS
    <3>1. whole * e = 0
      OBVIOUS
    <3> QED BY <1>2, <1>6, <2>1, <3>1
  <2>3. (e - 1) * whole = e * whole - whole
    OBVIOUS
  <2> QED BY <1>2, <1>3, <1>6, <2>2, <2>3
<1> QED BY <1>1, <1>2, <1>3, <1>5, <1>6

\* The share as the ledger client computes it.
LEMMA PortionRule ==
  ASSUME NEW l \in Applies, NEW cents \in Nat, NEW p \in PrincipalPortions(l, cents)
  PROVE  p \in Nat /\ p <= cents /\ p * TotalDue(l) <= cents * Principal[l]
<1> DEFINE exact == (cents * Principal[l]) \div TotalDue(l)
<1>1. /\ exact \in Nat /\ exact <= cents /\ exact * TotalDue(l) <= cents * Principal[l]
      /\ cents > 0 /\ (cents * Principal[l]) % TotalDue(l) = 0 =>
              exact - 1 \in Nat /\ (exact - 1) * TotalDue(l) <= cents * Principal[l]
  BY DebtType, ShareRule
<1>2. \/ p = exact
      \/ p = exact - 1 /\ cents > 0 /\ (cents * Principal[l]) % TotalDue(l) = 0
  BY DEF PrincipalPortions
<1> HIDE DEF exact
<1> QED BY <1>1, <1>2

\* The installments of an application add up to its debt.
Schedule(a) == [i \in 1 .. Months(a) |-> Installment(a, i)]
\* The installments created for a loan add up to its debt.
LEMMA ScheduleAddsUp ==
  ASSUME NEW a \in Applies
  PROVE  SumFunctionOnSet(Schedule(a), 1 .. Months(a)) = TotalDue(a)
<1> DEFINE m == Months(a)
           t == TotalDue(a)
           S == 1 .. m
           part == t \div m
           f == [i \in S |-> part]
           g == Schedule(a)
<1>1. m \in Nat \ {0} /\ t \in Nat \ {0}
  BY DebtType
<1>2. part \in Nat
  BY <1>1, DivisionRule
<1>3. IsFiniteSet(S) /\ Cardinality(S) = m /\ m \in S
  <2> HIDE DEF m
  <2>1. IsFiniteSet(S) /\ Cardinality(S) = IF 1 > m THEN 0 ELSE m - 1 + 1
    BY <1>1, FS_Interval
  <2> QED BY <1>1, <2>1
<1>4. \A i \in S : g[i] = IF i = m THEN t - part * (m - 1) ELSE part
  BY DEF Schedule, Installment
<1> HIDE DEF m, t, S, part, g
<1>5. part * (m - 1) \in Int /\ m * part = part * (m - 1) + part
  BY <1>1, <1>2
<1>6. SumFunctionOnSet(f, S) = m * part
  BY <1>2, <1>3, SumConstant
<1>7. /\ \A x \in S : f[x] \in Int /\ g[x] \in Int
      /\ \A x \in S \ {m} : g[x] = f[x]
      /\ f[m] = part /\ g[m] = t - part * (m - 1)
  BY <1>1, <1>2, <1>3, <1>4, <1>5
<1> HIDE DEF f
<1>8. SumFunctionOnSet(g, S) = SumFunctionOnSet(f, S) - f[m] + g[m]
  BY <1>3, <1>7, SumChange
<1>9. SumFunctionOnSet(g, S) = t
  BY <1>1, <1>2, <1>5, <1>6, <1>7, <1>8
<1> QED BY <1>9 DEF g, S, t, m

Calls == Applies \cup Repays

\* What is stored of a call.
LEMMA CallType ==
  ASSUME TypeOK, NEW c \in Calls
  PROVE  /\ call[c] \in CallRows /\ call[c].pc \in CallSteps /\ call[c].seen \in Nat /\ call[c].cents \in Int
         /\ call[c].of = <<>> \/ \E l \in Applies : call[c].of = <<l>>
BY DEF TypeOK, CallRows, Calls

\* A step of call c leaves the other calls where they are.
Moved(c) == call' \in [Calls -> CallRows] /\ \A d \in Calls \ {c} : call'[d] = call[d]

\* Going to the next step changes nothing else of the call.
LEMMA GotoEffect ==
  ASSUME TypeOK, NEW c \in Calls, NEW s \in CallSteps, Goto(c, s)
  PROVE  /\ Moved(c) /\ call'[c].pc = s /\ call'[c].of = call[c].of /\ call'[c].seen = call[c].seen
         /\ call'[c].cents = call[c].cents /\ call'[c].cover = call[c].cover
<1>1. call' = [call EXCEPT ![c] = [call[c] EXCEPT !.pc = s]]
  BY DEF Goto
<1>2. call \in [Calls -> CallRows]
  BY DEF TypeOK, Calls
<1>3. call'[c] = [call[c] EXCEPT !.pc = s] /\ \A d \in Calls \ {c} : call'[d] = call[d]
  BY <1>1, <1>2
<1>4. call[c] \in CallRows
  BY <1>2
<1>5. /\ call'[c] \in CallRows /\ call'[c].pc = s /\ call'[c].of = call[c].of
      /\ call'[c].seen = call[c].seen
      /\ call'[c].cents = call[c].cents /\ call'[c].cover = call[c].cover
  BY <1>3, <1>4 DEF CallRows
<1> QED BY <1>1, <1>2, <1>3, <1>5 DEF Moved

\* The loan a repayment is about.
LEMMA LoanOfType ==
  ASSUME TypeOK, NEW p \in Repays, RepayInv(p), call[p].pc # "new"
  PROVE  LoanOf(p) \in Applies /\ call[p].of = <<LoanOf(p)>> /\ Exists(LoanOf(p))
<1>1. PICK l \in Applies : call[p].of = <<l>>
  BY CallType DEF RepayInv, Calls
<1>2. LoanOf(p) = l
  BY <1>1 DEF LoanOf
<1> QED BY <1>1, <1>2 DEF RepayInv

\* A loan that is there is a row of the table.
LEMMA LoanType ==
  ASSUME TypeOK, NEW l \in Applies
  PROVE  /\ Exists(l) <=> loan[l] \in LoanRows
         /\ Exists(l) => loan[l].user \in Users /\ loan[l].paid \in Nat
BY NoLoanAssumption DEF TypeOK, Exists, LoanRows

\* The installments of a loan, none or all of its schedule.
LEMMA InstType ==
  ASSUME TypeOK, NEW l \in Applies
  PROVE  /\ inst[l] = <<>> => DOMAIN inst[l] = {}
         /\ inst[l] # <<>> => DOMAIN inst[l] = 1 .. Months(l)
         /\ DOMAIN inst[l] \subseteq 1 .. Months(l) /\ DOMAIN inst[l] \subseteq Nat
         /\ IsFiniteSet(DOMAIN inst[l])
         /\ \A i \in DOMAIN inst[l] :
              inst[l][i] \in InstRows /\ inst[l][i].due \in Nat /\ inst[l][i].paid \in BOOLEAN
         /\ \A i \in DOMAIN inst[l] : inst[l] # <<>>
<1>0. Months(l) \in Nat
  BY DebtType
<1>1. inst[l] = <<>> => DOMAIN inst[l] = {}
  OBVIOUS
<1>2. inst[l] # <<>> => inst[l] \in [1 .. Months(l) -> InstRows]
  BY DEF TypeOK
<1>3. inst[l] # <<>> => DOMAIN inst[l] = 1 .. Months(l)
  BY <1>2
<1>4. DOMAIN inst[l] \subseteq 1 .. Months(l) /\ DOMAIN inst[l] \subseteq Nat
  BY <1>0, <1>1, <1>3
<1>5. IsFiniteSet(1 .. Months(l))
  BY <1>0, FS_Interval
<1>6. IsFiniteSet(DOMAIN inst[l])
  BY <1>4, <1>5, FS_Subset
<1>7. \A i \in DOMAIN inst[l] : inst[l] # <<>> /\ inst[l][i] \in InstRows
  BY <1>1, <1>2, <1>3
<1>8. \A i \in DOMAIN inst[l] : inst[l][i].due \in Nat /\ inst[l][i].paid \in BOOLEAN
  BY <1>7 DEF InstRows
<1> QED BY <1>1, <1>3, <1>4, <1>6, <1>7, <1>8

\* What no step takes back: a loan, its total and its borrower, and a schedule.
LoansGrow ==
  \A l \in Applies :
    /\ Exists(l) => Exists(l)' /\ loan[l].paid <= loan'[l].paid
    /\ DOMAIN inst[l] \subseteq DOMAIN inst'[l]
SameSchedule(l) ==
  /\ Exists(l)' <=> Exists(l)
  /\ lent'[l] = lent[l] /\ DOMAIN inst'[l] = DOMAIN inst[l] /\ (inst'[l] = <<>> <=> inst[l] = <<>>)
  /\ \A i \in DOMAIN inst[l] : inst'[l][i].due = inst[l][i].due

\* An application that does not move keeps its invariant.
LEMMA ApplyKept ==
  ASSUME TypeOK, NEW a \in Applies, ApplyInv(a), call'[a] = call[a], SameSchedule(a)
  PROVE  ApplyInv(a)'
<1>1. inst[a] # <<>> => DOMAIN inst[a] = 1 .. Months(a)
  BY InstType
<1> QED BY <1>1 DEF ApplyInv, SameSchedule

\* So does a repayment.
LEMMA RepayKept ==
  ASSUME TypeOK, TypeOK', NEW p \in Repays, RepayInv(p), call'[p] = call[p], LoansGrow
  PROVE  RepayInv(p)'
<1>1. CASE call[p].pc = "new"
  BY <1>1 DEF RepayInv
<1>2. CASE call[p].pc # "new"
  <2>1. PICK l \in Applies : l = LoanOf(p) /\ Exists(l)
    BY <1>2, LoanOfType
  <2>2. LoanOf(p)' = l
    BY <2>1 DEF LoanOf
  <2>3. /\ loan[l].paid \in Nat /\ Exists(l)' /\ loan[l].paid <= loan'[l].paid
        /\ DOMAIN inst[l] \subseteq DOMAIN inst'[l]
    BY <2>1, LoanType DEF LoansGrow
  <2>4. loan'[l].paid \in Nat
    BY <2>3 DEF TypeOK, Exists, LoanRows
  <2>5. call[p].seen \in Nat /\ call[p].cents \in Int
    BY CallType DEF Calls
  <2>6. /\ call[p].pc \in {"collect", "increment"} => call[p].seen <= loan'[l].paid
        /\ call[p].pc \in {"list", "mark", "close"} => call[p].seen + call[p].cents <= loan'[l].paid
    BY <2>1, <2>3, <2>4, <2>5 DEF RepayInv
  <2> QED BY <1>2, <2>1, <2>2, <2>3, <2>6 DEF RepayInv
<1> QED BY <1>1, <1>2

\* What is left to show of a step in which only the calls C move.
LEMMA StepKeeps ==
  ASSUME IInv, TypeOK', NEW C, \A d \in Calls \ C : call'[d] = call[d], LoansGrow,
         \A a \in Applies \ C : SameSchedule(a),
         \A a \in Applies \cap C : ApplyInv(a)', \A p \in Repays \cap C : RepayInv(p)',
         SweepInv', RepaidIsCovered'
  PROVE  IInv'
<1>1. \A a \in Applies : ApplyInv(a)'
  BY ApplyKept DEF IInv, Calls
<1>2. \A p \in Repays : RepayInv(p)'
  BY RepayKept DEF IInv, Calls
<1> QED BY <1>1, <1>2 DEF IInv

\* The worker keeps its list while no schedule goes.
LEMMA SweepKept ==
  ASSUME SweepInv, sweep' = sweep, LoansGrow
  PROVE  SweepInv'
BY DEF SweepInv, IsInstallment, LoansGrow

\* The steps that write neither loans nor schedules.
LEMMA NoLoanWritten ==
  ASSUME IInv, UNCHANGED <<loan, inst>>, lent' = lent
  PROVE  /\ LoansGrow /\ RepaidIsCovered' /\ \A a \in Applies : SameSchedule(a)
<1>1. \A l \in Applies : Exists(l) => loan[l].paid \in Nat
  BY LoanType DEF IInv
<1> QED BY <1>1 DEF IInv, LoansGrow, SameSchedule, RepaidIsCovered, Exists

\* The accounts are those of the users and two of the house.
LEMMA AccountNames ==
  /\ LoanCapital \in Accounts /\ Interest \in Accounts /\ LoanCapital # Interest
  /\ \A u \in Users : Main(u) \in Accounts /\ Main(u) # LoanCapital /\ Main(u) # Interest
  /\ \A u, v \in Users : Main(u) = Main(v) => u = v
  /\ \A u \in Users : Main(u) # World /\ LoanCapital # World
BY DEF Accounts, Main, LoanCapital, Interest, World

\* What a payment out does to the balances.
Lends(a) ==
  /\ call[a].pc = "disburse" /\ bal[LoanCapital] >= Principal[a]
  /\ bal' = Send(bal, LoanCapital, Main(By[a]), Principal[a])
  /\ lent' = [lent EXCEPT ![a] = Principal[a]] /\ UNCHANGED <<collected, returned>>

\* What a collection does to the balances: of cents taken from the borrower, p go
\* to the capital and the rest is interest.
Takes(l, cents, p) ==
  /\ Exists(l) /\ p \in PrincipalPortions(l, cents) /\ bal[Main(loan[l].user)] >= cents
  /\ bal' = Send(Send(bal, Main(loan[l].user), LoanCapital, p), Main(loan[l].user), Interest, cents - p)
  /\ collected' = [collected EXCEPT ![l] = collected[l] + cents]
  /\ returned' = [returned EXCEPT ![l] = returned[l] + p] /\ UNCHANGED lent

\* A disbursement takes the principal from the capital and gives it to the borrower.
LEMMA LendsEffect ==
  ASSUME TypeOK, NEW a \in Applies, Lends(a)
  PROVE  /\ bal' \in [Accounts -> Nat] /\ lent' \in [Applies -> Nat]
         /\ bal'[LoanCapital] = bal[LoanCapital] - Principal[a] /\ bal'[Interest] = bal[Interest]
         /\ \A u \in Users : bal'[Main(u)] = bal[Main(u)] + (IF u = By[a] THEN Principal[a] ELSE 0)
<1>1. By[a] \in Users /\ Principal[a] \in Nat /\ bal \in [Accounts -> Nat]
  BY CallAssumption, DebtType DEF TypeOK
<1>2. \A x \in Accounts : bal'[x] = bal[x] - (IF x = LoanCapital THEN Principal[a] ELSE 0)
                                          + (IF x = Main(By[a]) THEN Principal[a] ELSE 0)
  BY <1>1 DEF Lends, Send
<1>3. DOMAIN bal' = Accounts /\ bal' = [x \in Accounts |-> bal'[x]]
  BY <1>1 DEF Lends, Send
<1>4. bal[LoanCapital] >= Principal[a]
  BY DEF Lends
<1>5. \A x \in Accounts : bal'[x] \in Nat
  BY <1>1, <1>2, <1>4, AccountNames
<1>6. bal' \in [Accounts -> Nat]
  BY <1>3, <1>5
<1>7. lent' \in [Applies -> Nat]
  BY <1>1 DEF Lends, TypeOK
<1>8. /\ bal'[LoanCapital] = bal[LoanCapital] - Principal[a] /\ bal'[Interest] = bal[Interest]
      /\ \A u \in Users : bal'[Main(u)] = bal[Main(u)] + (IF u = By[a] THEN Principal[a] ELSE 0)
  BY <1>1, <1>2, AccountNames
<1> QED BY <1>6, <1>7, <1>8

Taken(l, cents, p) ==
  /\ p \in Nat /\ p <= cents /\ p * TotalDue(l) <= cents * Principal[l] /\ loan[l].user \in Users
  /\ bal'[LoanCapital] = bal[LoanCapital] + p /\ bal'[Interest] = bal[Interest] + cents - p
  /\ \A u \in Users : bal'[Main(u)] = bal[Main(u)] - (IF u = loan[l].user THEN cents ELSE 0)
\* A collection splits what the borrower pays between the capital and the interest.
LEMMA TakesEffect ==
  ASSUME TypeOK, NEW l \in Applies, NEW cents \in Nat, NEW p, Takes(l, cents, p)
  PROVE  /\ bal' \in [Accounts -> Nat] /\ collected' \in [Applies -> Nat] /\ returned' \in [Applies -> Nat]
         /\ Taken(l, cents, p)
<1>1. p \in Nat /\ p <= cents /\ p * TotalDue(l) <= cents * Principal[l]
  BY PortionRule DEF Takes
<1>2. PICK v \in Users : v = loan[l].user
  BY LoanType DEF Takes
<1>3. bal \in [Accounts -> Nat] /\ bal[Main(v)] >= cents /\ Main(v) \in Accounts
  BY <1>2, AccountNames DEF TypeOK, Takes
<1> DEFINE mid == Send(bal, Main(v), LoanCapital, p)
<1>4. /\ DOMAIN mid = Accounts
      /\ \A x \in Accounts : mid[x] = bal[x] - (IF x = Main(v) THEN p ELSE 0) + (IF x = LoanCapital THEN p ELSE 0)
  BY <1>3 DEF Send
<1>5. bal' = Send(mid, Main(v), Interest, cents - p)
  BY <1>2 DEF Takes
<1> HIDE DEF mid
<1>6. /\ bal' = [x \in Accounts |-> bal'[x]]
      /\ \A x \in Accounts : bal'[x] = mid[x] - (IF x = Main(v) THEN cents - p ELSE 0)
                                             + (IF x = Interest THEN cents - p ELSE 0)
  BY <1>4, <1>5 DEF Send
<1>7. \A x \in Accounts : /\ mid[x] \in Int
                          /\ x \notin {Main(v), LoanCapital, Interest} => bal'[x] = bal[x]
  BY <1>1, <1>3, <1>4, <1>6
<1>8. /\ bal'[LoanCapital] = bal[LoanCapital] + p /\ bal'[Interest] = bal[Interest] + cents - p
      /\ bal'[Main(v)] = bal[Main(v)] - cents
  BY <1>1, <1>3, <1>4, <1>6, <1>7, AccountNames
<1>9. bal' \in [Accounts -> Nat]
  <2>1. \A x \in Accounts : bal'[x] \in Nat
    BY <1>1, <1>3, <1>7, <1>8, AccountNames
  <2> QED BY <1>6, <2>1
<1>10. \A u \in Users : bal'[Main(u)] = bal[Main(u)] - (IF u = v THEN cents ELSE 0)
  BY <1>3, <1>7, <1>8, AccountNames
<1>11. collected' \in [Applies -> Nat] /\ returned' \in [Applies -> Nat]
  BY <1>1 DEF Takes, TypeOK
<1>12. Taken(l, cents, p)
  BY <1>1, <1>2, <1>8, <1>10 DEF Taken
<1> QED BY <1>9, <1>11, <1>12

\* CollectLoanRepayment, seen from its callers.
LEMMA CollectTakes ==
  ASSUME TypeOK, NEW l \in Applies, Exists(l), NEW cents \in Int, Collect(l, cents), lent' = lent
  PROVE  cents \in Nat /\ \E p : Takes(l, cents, p)
<1>1. PICK p \in PrincipalPortions(l, cents) :
        /\ cents >= 0 /\ Covers(bal, Main(loan[l].user), cents)
        /\ bal' = Send(Send(bal, Main(loan[l].user), LoanCapital, p), Main(loan[l].user), Interest, cents - p)
        /\ collected' = [collected EXCEPT ![l] = collected[l] + cents]
        /\ returned' = [returned EXCEPT ![l] = returned[l] + p]
  BY DEF Collect
<1>2. bal[Main(loan[l].user)] >= cents
  BY <1>1, LoanType, AccountNames DEF Covers
<1>3. Takes(l, cents, p)
  BY <1>1, <1>2 DEF Takes
<1> QED BY <1>1, <1>3

\* Money is conserved and the capital accounted for.
MoneyInv == MoneyConserved /\ CapitalGetsItsShare
\* Disbursements and collections keep the total and the share of the capital.
LEMMA LedgerKeeps ==
  ASSUME TypeOK, TypeOK', MoneyInv, \A a \in Applies : call[a].pc = "disburse" => lent[a] = 0,
         \/ UNCHANGED ledgerVars
         \/ \E a \in Applies : Lends(a)
         \/ \E l \in Applies, cents \in Nat : \E p : Takes(l, cents, p)
  PROVE  MoneyInv'
<1>1. CASE UNCHANGED ledgerVars
  <2>1. bal' = bal /\ lent' = lent /\ collected' = collected /\ returned' = returned
    BY <1>1 DEF ledgerVars
  <2>2. Wallets' = Wallets
    BY <2>1 DEF Wallets
  <2> QED BY <2>1, <2>2 DEF MoneyInv, MoneyConserved, CapitalGetsItsShare, SumOver
<1> USE DEF SumOver
<1>2. /\ \A u \in Users : Wallets[u] = bal[Main(u)] /\ Wallets'[u] = bal'[Main(u)]
      /\ \A u \in Users : bal[Main(u)] \in Int /\ bal'[Main(u)] \in Int
      /\ bal[LoanCapital] \in Int /\ bal[Interest] \in Int /\ Capital \in Int
  BY AccountNames, MoneyAssumption DEF Wallets, TypeOK
<1>3. /\ SumFunctionOnSet(Wallets, Users) \in Int /\ SumFunctionOnSet(lent, Applies) \in Int
      /\ SumFunctionOnSet(returned, Applies) \in Int
  <2>1. \A u \in Users : Wallets[u] \in Int
    BY <1>2
  <2>2. (\A l \in Applies : lent[l] \in Int) /\ (\A l \in Applies : returned[l] \in Int)
    BY DEF TypeOK
  <2> QED BY <2>1, <2>2, FiniteAssumption, SumType
<1>4. /\ SumFunctionOnSet(Wallets, Users) + bal[LoanCapital] + bal[Interest]
           = Capital + SumFunctionOnSet(Opening, Users)
      /\ bal[LoanCapital] = Capital - SumFunctionOnSet(lent, Applies) + SumFunctionOnSet(returned, Applies)
  BY DEF MoneyInv, MoneyConserved
<1>5. ASSUME NEW a \in Applies, Lends(a) PROVE MoneyInv'
  <2>1. By[a] \in Users /\ Principal[a] \in Nat /\ lent[a] = 0
    BY <1>5, CallAssumption, DebtType DEF Lends
  <2>2. /\ bal'[LoanCapital] = bal[LoanCapital] - Principal[a] /\ bal'[Interest] = bal[Interest]
        /\ \A u \in Users : bal'[Main(u)] = bal[Main(u)] + (IF u = By[a] THEN Principal[a] ELSE 0)
    BY <1>5, LendsEffect
  <2>3. SumFunctionOnSet(Wallets', Users) = SumFunctionOnSet(Wallets, Users) - Wallets[By[a]] + Wallets'[By[a]]
    <3>1. \A u \in Users \ {By[a]} : Wallets'[u] = Wallets[u]
      BY <1>2, <2>2
    <3> QED BY <1>2, <2>1, <3>1, FiniteAssumption, SumChange
  <2>4. Wallets'[By[a]] = Wallets[By[a]] + Principal[a] /\ Wallets[By[a]] \in Int
    BY <1>2, <2>1, <2>2
  <2>5. /\ lent' \in [Applies -> Nat] /\ lent'[a] = Principal[a]
        /\ \A l \in Applies \ {a} : lent'[l] = lent[l]
        /\ collected' = collected /\ returned' = returned
    BY <1>5, LendsEffect DEF Lends, TypeOK
  <2>6. SumFunctionOnSet(lent', Applies) = SumFunctionOnSet(lent, Applies) - lent[a] + lent'[a]
    <3>1. \A l \in Applies : lent[l] \in Int /\ lent'[l] \in Int
      BY DEF TypeOK
    <3> QED BY <2>5, <3>1, FiniteAssumption, SumChange
  <2>7. SumFunctionOnSet(Wallets', Users) + bal'[LoanCapital] + bal'[Interest]
           = Capital + SumFunctionOnSet(Opening, Users)
    BY <1>2, <1>3, <1>4, <2>1, <2>2, <2>3, <2>4
  <2>8. bal'[LoanCapital] = Capital - SumFunctionOnSet(lent', Applies) + SumFunctionOnSet(returned', Applies)
    BY <1>2, <1>3, <1>4, <2>1, <2>2, <2>5, <2>6
  <2> QED BY <2>5, <2>7, <2>8 DEF MoneyInv, MoneyConserved, CapitalGetsItsShare
<1>6. ASSUME NEW l \in Applies, NEW cents \in Nat, NEW p, Takes(l, cents, p) PROVE MoneyInv'
  <2>1. /\ p \in Nat /\ p <= cents /\ p * TotalDue(l) <= cents * Principal[l] /\ loan[l].user \in Users
        /\ bal'[LoanCapital] = bal[LoanCapital] + p /\ bal'[Interest] = bal[Interest] + cents - p
        /\ \A u \in Users : bal'[Main(u)] = bal[Main(u)] - (IF u = loan[l].user THEN cents ELSE 0)
    <3>1. Taken(l, cents, p)
      BY <1>6, TakesEffect
    <3> QED BY <3>1 DEF Taken
  <2>2. PICK v \in Users : v = loan[l].user
    BY <2>1
  <2>3. SumFunctionOnSet(Wallets', Users) = SumFunctionOnSet(Wallets, Users) - Wallets[v] + Wallets'[v]
    <3>1. \A u \in Users \ {v} : Wallets'[u] = Wallets[u]
      BY <1>2, <2>1, <2>2
    <3> QED BY <1>2, <3>1, FiniteAssumption, SumChange
  <2>4. Wallets'[v] = Wallets[v] - cents /\ Wallets[v] \in Int
    BY <1>2, <2>1, <2>2
  <2>5. /\ returned' \in [Applies -> Nat] /\ returned'[l] = returned[l] + p /\ returned[l] \in Nat
        /\ collected'[l] = collected[l] + cents /\ collected[l] \in Nat
        /\ \A k \in Applies \ {l} : returned'[k] = returned[k] /\ collected'[k] = collected[k]
        /\ lent' = lent
    BY <1>6, <2>1, TakesEffect DEF Takes, TypeOK
  <2>6. SumFunctionOnSet(returned', Applies) = SumFunctionOnSet(returned, Applies) - returned[l] + returned'[l]
    <3>1. \A k \in Applies : returned[k] \in Int /\ returned'[k] \in Int
      BY DEF TypeOK
    <3> QED BY <2>5, <3>1, FiniteAssumption, SumChange
  <2>7. SumFunctionOnSet(Wallets', Users) + bal'[LoanCapital] + bal'[Interest]
           = Capital + SumFunctionOnSet(Opening, Users)
    BY <1>2, <1>3, <1>4, <2>1, <2>3, <2>4
  <2>8. bal'[LoanCapital] = Capital - SumFunctionOnSet(lent', Applies) + SumFunctionOnSet(returned', Applies)
    BY <1>2, <1>3, <1>4, <2>1, <2>5, <2>6
  <2>9. ASSUME NEW k \in Applies PROVE returned'[k] * TotalDue(k) <= collected'[k] * Principal[k]
    <3>1. returned[k] * TotalDue(k) <= collected[k] * Principal[k]
      BY DEF MoneyInv, CapitalGetsItsShare
    <3>2. CASE k # l
      BY <2>5, <3>1, <3>2
    <3>3. CASE k = l
      <4>1. PICK r \in Nat, t \in Nat, c \in Nat, n \in Nat :
              r = returned[l] /\ t = TotalDue(l) /\ c = collected[l] /\ n = Principal[l]
        BY <2>5, DebtType
      <4>2. (r + p) * t = r * t + p * t /\ (c + cents) * n = c * n + cents * n
        BY <2>1
      <4>3. r * t \in Nat /\ p * t \in Nat /\ c * n \in Nat /\ cents * n \in Nat
        BY <2>1
      <4>4. r * t <= c * n /\ p * t <= cents * n
        BY <2>1, <3>1, <3>3, <4>1
      <4>5. (r + p) * t <= (c + cents) * n
        BY <4>2, <4>3, <4>4
      <4> QED BY <2>5, <3>3, <4>1, <4>5
    <3> QED BY <3>2, <3>3
  <2> QED BY <2>7, <2>8, <2>9 DEF MoneyInv, MoneyConserved, CapitalGetsItsShare
<1> QED BY <1>1, <1>5, <1>6

\* What a step may do to the ledger.
Posts ==
  \/ UNCHANGED ledgerVars
  \/ \E a \in Applies : Lends(a)
  \/ \E l \in Applies, cents \in Nat : \E p : Takes(l, cents, p)

\* The invariant at the start: no loan, no call, no sweep.
LEMMA InitIInv == Init => IInv /\ MoneyInv
<1> SUFFICES ASSUME Init PROVE IInv /\ MoneyInv
  OBVIOUS
<1>1. bal \in [Accounts -> Nat] /\ bal[LoanCapital] = Capital /\ bal[Interest] = 0
      /\ \A u \in Users : bal[Main(u)] = Opening[u]
  <2>1. \A x \in Accounts : x = LoanCapital \/ x = Interest \/ \E u \in Users : x = Main(u) /\ x[2] = u
    BY DEF Accounts, Main
  <2>2. \A u \in Users : Main(u)[2] = u
    BY DEF Main
  <2>3. \A x \in Accounts : bal[x] = IF x = LoanCapital THEN Capital
                                     ELSE IF x = Interest THEN 0 ELSE Opening[x[2]]
    BY DEF Init
  <2>4. bal = [x \in Accounts |-> bal[x]]
    BY DEF Init
  <2>5. \A x \in Accounts : bal[x] \in Nat
    BY <2>1, <2>3, MoneyAssumption
  <2> QED BY <2>2, <2>3, <2>4, <2>5, AccountNames
<1>2. TypeOK
  <2>1. call \in [Applies \cup Repays -> CallRows]
    BY DEF Init, CallRows, CallSteps
  <2> QED BY <1>1, <2>1 DEF Init, TypeOK, Idle
<1>3. IInv
  <2>1. SweepInv /\ RepaidIsCovered
    BY DEF Init, SweepInv, Idle, RepaidIsCovered, Exists
  <2>2. \A a \in Applies : ApplyInv(a)
    BY DEF Init, ApplyInv, Exists
  <2>3. \A p \in Repays : RepayInv(p)
    BY DEF Init, RepayInv
  <2> QED BY <1>2, <2>1, <2>2, <2>3 DEF IInv
<1>4. MoneyInv
  <2>1. /\ \A l \in Applies : lent[l] = 0
        /\ \A l \in Applies : collected[l] = 0 /\ returned[l] = 0
    BY DEF Init
  <2>2. IsFiniteSet(Applies) /\ Cardinality(Applies) \in Nat /\ IsFiniteSet(Users)
    BY FiniteAssumption, FS_CardinalityType
  <2>3. SumFunctionOnSet(lent, Applies) = 0 /\ SumFunctionOnSet(returned, Applies) = 0
    <3>1. 0 \in Int /\ Cardinality(Applies) * 0 = 0
      BY <2>2
    <3> QED BY <2>1, <2>2, <3>1, SumConstant
  <2>4. \A u \in Users : Wallets[u] = Opening[u] /\ Wallets[u] \in Int
    BY <1>1, MoneyAssumption DEF Wallets
  <2>5. SumFunctionOnSet(Wallets, Users) = SumFunctionOnSet(Opening, Users)
    BY <2>2, <2>4, SumSame
  <2>6. SumFunctionOnSet(Opening, Users) \in Int /\ Capital \in Int
    <3>1. \A u \in Users : Opening[u] \in Int
      BY MoneyAssumption
    <3> QED BY <2>2, <3>1, SumType, MoneyAssumption
  <2>7. CapitalGetsItsShare
    <3>1. \A l \in Applies : TotalDue(l) \in Nat /\ Principal[l] \in Nat
      BY DebtType
    <3> QED BY <2>1, <3>1 DEF CapitalGetsItsShare
  <2> QED BY <1>1, <1>2, <2>3, <2>5, <2>6, <2>7 DEF MoneyInv, MoneyConserved, SumOver
<1> QED BY <1>3, <1>4

\* The outcomes of a call to the ledger.
LEMMA OutcomeRule ==
  /\ \A o \in CallOutcomes : Applied(o) \/ ~Confirmed(o)
BY DEF CallOutcomes, Applied, Confirmed

\* DisburseLoan: the checks.
LEMMA ApplyStep ==
  ASSUME IInv, NEW a \in Applies, Apply(a)
  PROVE  IInv' /\ Posts
<1>1. PICK s \in {"disburse", "failed"} : Goto(a, s)
  BY DEF Apply
<1>2. call[a].pc = "new" /\ TypeOK /\ ApplyInv(a)
  BY DEF Apply, IInv
<1>3. /\ Moved(a) /\ call'[a].pc = s
  BY <1>1, <1>2, GotoEffect DEF Calls, CallSteps
<1>4. /\ bal' = bal /\ loan' = loan /\ inst' = inst /\ sweep' = sweep /\ month' = month
      /\ lent' = lent /\ collected' = collected /\ returned' = returned
  BY DEF Apply
<1>5. LoansGrow /\ RepaidIsCovered' /\ \A d \in Applies : SameSchedule(d)
  BY <1>4, NoLoanWritten
<1>6. TypeOK'
  BY <1>2, <1>3, <1>4 DEF TypeOK, Moved, Calls
<1>7. SweepInv'
  BY <1>4, <1>5, SweepKept DEF IInv
<1>8. ApplyInv(a)'
  BY <1>2, <1>3, <1>4 DEF ApplyInv, Exists
<1>9. IInv'
  <2>1. /\ \A d \in Calls \ {a} : call'[d] = call[d]
        /\ \A d \in Applies \cap {a} : ApplyInv(d)'
        /\ \A d \in Repays \cap {a} : RepayInv(d)'
    BY <1>3, <1>8, CallAssumption DEF Moved
  <2> QED BY <1>5, <1>6, <1>7, <2>1, StepKeeps
<1> QED BY <1>4, <1>9 DEF Posts, ledgerVars

\* DisburseLoan: the payment.
LEMMA DisburseStep ==
  ASSUME IInv, NEW a \in Applies, Disburse(a)
  PROVE  IInv' /\ Posts
<1>1. PICK o \in CallOutcomes :
       /\ Applied(o) => Covers(bal, LoanCapital, Principal[a])
       /\ IF Applied(o)
            THEN /\ bal'  = Send(bal, LoanCapital, Main(By[a]), Principal[a])
                 /\ lent' = [lent EXCEPT ![a] = Principal[a]]
            ELSE UNCHANGED <<bal, lent>>
       /\ Goto(a, IF Confirmed(o) THEN "record" ELSE "failed")
  BY DEF Disburse
<1>2. call[a].pc = "disburse" /\ TypeOK /\ ApplyInv(a)
  BY DEF Disburse, IInv
<1>3. PICK s \in {"record", "failed"} : s = (IF Confirmed(o) THEN "record" ELSE "failed") /\ Goto(a, s)
  BY <1>1
<1>4. Moved(a) /\ call'[a].pc = s
  BY <1>2, <1>3, GotoEffect DEF Calls, CallSteps
<1>5. /\ loan' = loan /\ inst' = inst /\ sweep' = sweep /\ month' = month
      /\ collected' = collected /\ returned' = returned
  BY DEF Disburse
<1>6. \/ Lends(a)
      \/ ~Applied(o) /\ bal' = bal /\ lent' = lent
  <2>1. CASE ~Applied(o)
    BY <1>1, <2>1
  <2>2. CASE Applied(o)
    <3>1. bal[LoanCapital] >= Principal[a]
      BY <1>1, <2>2 DEF Covers, LoanCapital, World
    <3> QED BY <1>1, <1>2, <1>5, <2>2, <3>1 DEF Lends
  <2> QED BY <2>1, <2>2
<1>7. Posts
  BY <1>5, <1>6 DEF Posts, ledgerVars
<1>8. bal' \in [Accounts -> Nat] /\ lent' \in [Applies -> Nat]
  BY <1>2, <1>6, LendsEffect DEF TypeOK
<1>9. TypeOK'
  BY <1>2, <1>4, <1>5, <1>8 DEF TypeOK, Moved, Calls
<1>10. \A d \in Applies \ {a} : lent'[d] = lent[d]
  BY <1>2, <1>6 DEF Lends, TypeOK
<1>11. s = "record" => lent'[a] = Principal[a]
  BY <1>2, <1>3, <1>6, OutcomeRule DEF Lends, TypeOK
<1>12. LoansGrow /\ SweepInv' /\ RepaidIsCovered'
  <2>1. \A l \in Applies : Exists(l) => loan[l].paid \in Nat
    BY <1>2, LoanType
  <2>2. LoansGrow
    BY <1>5, <2>1 DEF LoansGrow, Exists
  <2> QED BY <1>5, <2>2, SweepKept DEF IInv, RepaidIsCovered, Exists
<1>13. \A d \in Applies \ {a} : SameSchedule(d)
  BY <1>5, <1>10 DEF SameSchedule, Exists
<1>14. ApplyInv(a)'
  BY <1>2, <1>3, <1>4, <1>5, <1>11 DEF ApplyInv, Exists
<1>15. IInv'
  <2>1. /\ \A d \in Calls \ {a} : call'[d] = call[d]
        /\ \A d \in Applies \cap {a} : ApplyInv(d)'
        /\ \A d \in Repays \cap {a} : RepayInv(d)'
    BY <1>4, <1>14, CallAssumption DEF Moved
  <2> QED BY <1>9, <1>12, <1>13, <2>1, StepKeeps
<1> QED BY <1>7, <1>15

\* DisburseLoan: the row of the loan.
LEMMA CreateLoanStep ==
  ASSUME IInv, NEW a \in Applies, CreateLoan(a)
  PROVE  IInv' /\ Posts
<1> DEFINE row == [user |-> By[a], paid |-> 0, status |-> "active", since |-> month]
<1>1. call[a].pc = "record" /\ TypeOK /\ ApplyInv(a) /\ ~Exists(a)
  BY DEF CreateLoan, IInv, ApplyInv
<1>2. /\ inst' = inst /\ sweep' = sweep /\ month' = month
      /\ bal' = bal /\ lent' = lent /\ collected' = collected /\ returned' = returned
  BY DEF CreateLoan, ledgerVars
<1>3. \/ loan' = [loan EXCEPT ![a] = row] /\ Goto(a, "schedule")
      \/ loan' = loan /\ Goto(a, "failed")
  BY DEF CreateLoan
<1>4. /\ Moved(a) /\ \/ loan' = [loan EXCEPT ![a] = row] /\ call'[a].pc = "schedule"
                     \/ loan' = loan /\ call'[a].pc = "failed"
  BY <1>1, <1>3, GotoEffect DEF Calls, CallSteps
<1>5. row \in LoanRows /\ row # NoLoan
  BY <1>1, CallAssumption, NoLoanAssumption DEF LoanRows, TypeOK
<1>6. row.status = "active"
  OBVIOUS
<1> HIDE DEF row
<1>7. /\ \A l \in Applies \ {a} : loan'[l] = loan[l]
      /\ \/ loan'[a] = row /\ call'[a].pc = "schedule"
         \/ loan'[a] = loan[a] /\ call'[a].pc = "failed"
      /\ loan' \in [Applies -> LoanRows \cup {NoLoan}]
  <2>1. loan \in [Applies -> LoanRows \cup {NoLoan}]
    BY <1>1 DEF TypeOK
  <2>2. CASE loan' = [loan EXCEPT ![a] = row] /\ call'[a].pc = "schedule"
    BY <1>5, <2>1, <2>2
  <2>3. CASE loan' = loan /\ call'[a].pc = "failed"
    BY <2>1, <2>3
  <2> QED BY <1>4, <2>2, <2>3
<1>8. TypeOK'
  BY <1>1, <1>2, <1>4, <1>7 DEF TypeOK, Moved, Calls
<1>9. LoansGrow
  <2>1. \A l \in Applies : Exists(l) => loan[l].paid \in Nat
    BY <1>1, LoanType
  <2> QED BY <1>1, <1>2, <1>7, <2>1 DEF LoansGrow, Exists
<1>10. SweepInv'
  BY <1>2, <1>9, SweepKept DEF IInv
<1>11. RepaidIsCovered'
  BY <1>1, <1>6, <1>7 DEF IInv, RepaidIsCovered, Exists
<1>12. \A d \in Applies \ {a} : SameSchedule(d)
  BY <1>2, <1>7 DEF SameSchedule, Exists
<1>13. ApplyInv(a)'
  BY <1>1, <1>2, <1>5, <1>7 DEF ApplyInv, Exists
<1>14. IInv'
  <2>1. /\ \A d \in Calls \ {a} : call'[d] = call[d]
        /\ \A d \in Applies \cap {a} : ApplyInv(d)'
        /\ \A d \in Repays \cap {a} : RepayInv(d)'
    BY <1>4, <1>13, CallAssumption DEF Moved
  <2> QED BY <1>8, <1>9, <1>10, <1>11, <1>12, <2>1, StepKeeps
<1> QED BY <1>2, <1>14 DEF Posts, ledgerVars

\* What is left to show of a step of repayment p.
LEMMA RepaymentKeeps ==
  ASSUME IInv, NEW p \in Repays, Moved(p), TypeOK', LoansGrow, \A a \in Applies : SameSchedule(a),
         RepayInv(p)', SweepInv', RepaidIsCovered'
  PROVE  IInv'
<1>1. /\ \A d \in Calls \ {p} : call'[d] = call[d]
      /\ \A d \in Applies \cap {p} : ApplyInv(d)'
      /\ \A d \in Repays \cap {p} : RepayInv(d)'
  BY CallAssumption DEF Moved
<1> QED BY <1>1, StepKeeps

\* A repayment that is a step further, with what it had read, and writes no row.
LEMMA RepaymentMoves ==
  ASSUME IInv, NEW p \in Repays, Moved(p), UNCHANGED <<loan, inst, sweep, month, lent>>,
         bal' \in [Accounts -> Nat], collected' \in [Applies -> Nat], returned' \in [Applies -> Nat],
         RepayInv(p)'
  PROVE  IInv'
<1>1. LoansGrow /\ RepaidIsCovered' /\ \A a \in Applies : SameSchedule(a)
  BY NoLoanWritten
<1>2. SweepInv'
  BY <1>1, SweepKept DEF IInv
<1>3. TypeOK'
  BY DEF TypeOK, IInv, Moved, Calls
<1> QED BY <1>1, <1>2, <1>3, RepaymentKeeps

\* DisburseLoan: the schedule.
LEMMA CreateInstallmentsStep ==
  ASSUME IInv, NEW a \in Applies, CreateInstallments(a)
  PROVE  IInv' /\ Posts
<1> DEFINE rows == [i \in 1 .. Months(a) |-> [due |-> Installment(a, i), paid |-> FALSE]]
<1>1. call[a].pc = "schedule" /\ TypeOK /\ ApplyInv(a)
  BY DEF CreateInstallments, IInv
<1>2. /\ loan' = loan /\ sweep' = sweep /\ month' = month
      /\ bal' = bal /\ lent' = lent /\ collected' = collected /\ returned' = returned
  BY DEF CreateInstallments, ledgerVars
<1>3. \/ inst' = [inst EXCEPT ![a] = rows] /\ Goto(a, "done") /\ \A i \in 1 .. Months(a) : rows[i].due > 0
      \/ inst' = inst /\ Goto(a, "failed")
  BY DEF CreateInstallments
<1>4. /\ Moved(a) /\ \/ inst' = [inst EXCEPT ![a] = rows] /\ call'[a].pc = "done"
                     \/ inst' = inst /\ call'[a].pc = "failed"
  BY <1>1, <1>3, GotoEffect DEF Calls, CallSteps
<1>5. Months(a) \in Nat \ {0} /\ TotalDue(a) \in Nat
  BY DebtType
<1>6. \A i \in 1 .. Months(a) : Installment(a, i) \in Int
  <2>1. PICK q \in Nat, m \in Nat, t \in Nat : q = TotalDue(a) \div Months(a) /\ m = Months(a) /\ t = TotalDue(a)
    BY <1>5, DivisionRule
  <2>2. q * (m - 1) \in Int
    OBVIOUS
  <2> QED BY <2>1, <2>2 DEF Installment
<1>7. \A i \in 1 .. Months(a) : rows[i].due = Installment(a, i) /\ rows[i].paid = FALSE
  OBVIOUS
<1>8. /\ inst[a] = <<>> /\ Exists(a) /\ lent[a] = Principal[a]
  BY <1>1 DEF ApplyInv
<1>9. ASSUME inst' = [inst EXCEPT ![a] = rows], \A i \in 1 .. Months(a) : rows[i].due > 0
      PROVE  /\ DOMAIN inst' = Applies /\ inst'[a] = rows /\ \A l \in Applies \ {a} : inst'[l] = inst[l]
             /\ rows \in [1 .. Months(a) -> InstRows] /\ rows # <<>>
  <2>1. DOMAIN inst = Applies
    BY <1>1 DEF TypeOK
  <2>2. \A i \in 1 .. Months(a) : rows[i] \in InstRows
    <3>1. \A i \in 1 .. Months(a) : Installment(a, i) \in Nat \ {0}
      <4> HIDE DEF rows
      <4> QED BY <1>6, <1>7, <1>9
    <3>2. \A i \in 1 .. Months(a) : rows[i] = [due |-> Installment(a, i), paid |-> FALSE]
      OBVIOUS
    <3> HIDE DEF rows
    <3> QED
      <4> SUFFICES ASSUME NEW i \in 1 .. Months(a) PROVE rows[i] \in InstRows
        OBVIOUS
      <4>1. PICK n \in Nat \ {0} : n = Installment(a, i)
        BY <3>1
      <4>2. [due |-> n, paid |-> FALSE] \in InstRows
        BY DEF InstRows
      <4> QED BY <3>2, <4>1, <4>2
  <2>3. 1 \in DOMAIN rows
    BY <1>5
  <2>4. DOMAIN <<>> = {}
    OBVIOUS
  <2> QED BY <1>9, <2>1, <2>2, <2>3, <2>4
<1> HIDE DEF rows
<1>10. /\ DOMAIN inst' = Applies /\ \A l \in Applies \ {a} : inst'[l] = inst[l]
       /\ \/ inst'[a] = rows /\ rows \in [1 .. Months(a) -> InstRows] /\ rows # <<>> /\ call'[a].pc = "done"
          \/ inst'[a] = inst[a] /\ call'[a].pc = "failed"
  <2>1. DOMAIN inst = Applies
    BY <1>1 DEF TypeOK
  <2>2. CASE Goto(a, "done")
    BY <1>1, <1>3, <1>9, <2>1, <2>2, GotoEffect DEF Calls, CallSteps
  <2>3. CASE ~Goto(a, "done")
    BY <1>1, <1>3, <2>1, <2>3, GotoEffect DEF Calls, CallSteps
  <2> QED BY <2>2, <2>3
<1>11. TypeOK'
  <2>1. \A l \in Applies : inst'[l] = <<>> \/ inst'[l] \in [1 .. Months(l) -> InstRows]
    BY <1>1, <1>10 DEF TypeOK
  <2> QED BY <1>1, <1>2, <1>4, <1>10, <2>1 DEF TypeOK, Moved, Calls
<1>12. LoansGrow
  <2>1. \A l \in Applies : Exists(l) => loan[l].paid \in Nat
    BY <1>1, LoanType
  <2>2. DOMAIN inst[a] = {}
    BY <1>8
  <2> QED BY <1>2, <1>10, <2>1, <2>2 DEF LoansGrow, Exists
<1>13. SweepInv'
  BY <1>2, <1>12, SweepKept DEF IInv
<1>14. RepaidIsCovered'
  BY <1>2 DEF IInv, RepaidIsCovered, Exists
<1>15. \A d \in Applies \ {a} : SameSchedule(d)
  BY <1>2, <1>10 DEF SameSchedule, Exists
<1>16. ApplyInv(a)'
  <2>1. CASE inst'[a] = inst[a] /\ call'[a].pc = "failed"
    BY <1>1, <1>2, <1>8, <2>1 DEF ApplyInv, Exists
  <2>2. CASE inst'[a] = rows /\ call'[a].pc = "done"
    BY <1>1, <1>2, <1>7, <1>8, <2>2 DEF ApplyInv, Exists
  <2> QED BY <1>10, <2>1, <2>2
<1>17. IInv'
  <2>1. /\ \A d \in Calls \ {a} : call'[d] = call[d]
        /\ \A d \in Applies \cap {a} : ApplyInv(d)'
        /\ \A d \in Repays \cap {a} : RepayInv(d)'
    BY <1>4, <1>16, CallAssumption DEF Moved
  <2> QED BY <1>11, <1>12, <1>13, <1>14, <1>15, <2>1, StepKeeps
<1> QED BY <1>2, <1>17 DEF Posts, ledgerVars

\* ManualRepay: the checks.
LEMMA RepayStep ==
  ASSUME IInv, NEW p \in Repays, Repay(p)
  PROVE  IInv' /\ Posts
<1>1. PICK l \in Applies : /\ Exists(l)
        /\ call' = [call EXCEPT ![p] =
             [pc |-> IF loan[l].user = By[p] /\ Outstanding(l) THEN "collect" ELSE "failed",
              of |-> <<l>>, seen |-> loan[l].paid, cents |-> Capped(l, Asked[p]), cover |-> {}]]
  BY DEF Repay
<1>2. TypeOK /\ p \in Calls
  BY DEF IInv, Calls
<1>3. PICK s \in {"collect", "failed"}, n \in Nat, c \in Int :
        /\ s = (IF loan[l].user = By[p] /\ Outstanding(l) THEN "collect" ELSE "failed")
        /\ n = loan[l].paid /\ c = Capped(l, Asked[p])
  <2>1. loan[l].paid \in Nat /\ Asked[p] \in Nat /\ TotalDue(l) \in Nat
    BY <1>1, <1>2, LoanType, DebtType, RepayAssumption
  <2>2. Capped(l, Asked[p]) \in Int
    BY <2>1 DEF Capped, RemainingCents
  <2> QED BY <2>1, <2>2
<1>4. call' = [call EXCEPT ![p] = [pc |-> s, of |-> <<l>>, seen |-> n, cents |-> c, cover |-> {}]]
  BY <1>1, <1>3
<1>5. /\ Moved(p) /\ call'[p].pc = s /\ call'[p].of = <<l>> /\ call'[p].seen = n
      /\ call'[p].cents = c /\ call'[p].cover = {}
  <2>1. [pc |-> s, of |-> <<l>>, seen |-> n, cents |-> c, cover |-> {}] \in CallRows
    BY DEF CallRows, CallSteps
  <2>2. call \in [Calls -> CallRows]
    BY <1>2 DEF TypeOK, Calls
  <2> QED BY <1>2, <1>4, <2>1, <2>2 DEF Moved
<1>6. /\ loan' = loan /\ inst' = inst /\ sweep' = sweep /\ month' = month
      /\ bal' = bal /\ lent' = lent /\ collected' = collected /\ returned' = returned
  BY DEF Repay, ledgerVars
<1>7. RepayInv(p)'
  <2>1. LoanOf(p)' = l
    BY <1>5 DEF LoanOf
  <2>2. <<l>> # <<>>
    OBVIOUS
  <2>3. Exists(l)' /\ call'[p].seen = loan'[l].paid /\ loan'[l].paid \in Nat
    BY <1>1, <1>3, <1>5, <1>6 DEF Exists
  <2> QED BY <1>3, <1>5, <2>1, <2>2, <2>3 DEF RepayInv
<1>8. IInv'
  BY <1>2, <1>5, <1>6, <1>7, RepaymentMoves DEF TypeOK
<1> QED BY <1>6, <1>8 DEF Posts, ledgerVars

\* ManualRepay: the collection.
LEMMA RepayCollectStep ==
  ASSUME IInv, NEW p \in Repays, RepayCollect(p)
  PROVE  IInv' /\ Posts
<1>1. PICK o \in CallOutcomes :
       /\ IF Applied(o) THEN Collect(LoanOf(p), call[p].cents)
                        ELSE UNCHANGED <<bal, collected, returned>>
       /\ Goto(p, AfterCollect(o))
  BY DEF RepayCollect
<1>2. call[p].pc = "collect" /\ TypeOK /\ p \in Calls /\ RepayInv(p)
  BY DEF RepayCollect, IInv, Calls
<1>3. /\ loan' = loan /\ inst' = inst /\ sweep' = sweep /\ month' = month /\ lent' = lent
  BY DEF RepayCollect
<1>4. PICK s \in {"increment", "failed"} : s = AfterCollect(o) /\ Goto(p, s)
  BY <1>1 DEF AfterCollect
<1>5. /\ Moved(p) /\ call'[p].pc = s /\ call'[p].of = call[p].of /\ call'[p].seen = call[p].seen
      /\ call'[p].cents = call[p].cents
  BY <1>2, <1>4, GotoEffect DEF CallSteps
<1>6. PICK l \in Applies, c \in Int : l = LoanOf(p) /\ Exists(l) /\ c = call[p].cents
  BY <1>2, LoanOfType, CallType
<1>7. \/ c \in Nat /\ \E n : Takes(l, c, n)
      \/ ~Applied(o) /\ bal' = bal /\ collected' = collected /\ returned' = returned
  BY <1>1, <1>2, <1>3, <1>6, CollectTakes
<1>8. Posts
  BY <1>3, <1>7 DEF Posts, ledgerVars
<1>9. bal' \in [Accounts -> Nat] /\ collected' \in [Applies -> Nat] /\ returned' \in [Applies -> Nat]
  BY <1>2, <1>7, TakesEffect DEF TypeOK
<1>10. s = "increment" => c >= 0
  BY <1>4, <1>7, OutcomeRule DEF AfterCollect
<1>11. RepayInv(p)'
  <2>1. LoanOf(p)' = l
    BY <1>5, <1>6 DEF LoanOf
  <2>2. Exists(l)'
    BY <1>3, <1>6 DEF Exists
  <2> QED BY <1>2, <1>3, <1>4, <1>5, <1>6, <1>10, <2>1, <2>2 DEF RepayInv
<1>12. IInv'
  BY <1>3, <1>5, <1>9, <1>11, RepaymentMoves
<1> QED BY <1>8, <1>12

\* What IncrementPaid does to the table of loans.
LEMMA IncrementEffect ==
  ASSUME TypeOK, NEW l \in Applies, Exists(l), NEW cents \in Nat, IncrementPaid(l, cents)
  PROVE  /\ loan' \in [Applies -> LoanRows \cup {NoLoan}] /\ \A k \in Applies \ {l} : loan'[k] = loan[k]
         /\ loan'[l] # NoLoan /\ loan'[l].paid = loan[l].paid + cents
         /\ loan'[l].status = loan[l].status
<1>1. loan \in [Applies -> LoanRows \cup {NoLoan}]
  BY DEF TypeOK
<1>2. loan[l] \in LoanRows
  BY LoanType
<1>3. loan' = [loan EXCEPT ![l] = [loan[l] EXCEPT !.paid = loan[l].paid + cents]]
  BY DEF IncrementPaid
<1>4. PICK row \in LoanRows : row = [loan[l] EXCEPT !.paid = loan[l].paid + cents]
  <2>1. PICK n \in Nat : n = loan[l].paid + cents
    BY LoanType
  <2>2. [loan[l] EXCEPT !.paid = n] \in LoanRows
    BY <1>2 DEF LoanRows
  <2> QED BY <2>1, <2>2
<1>5. row.paid = loan[l].paid + cents /\ row.status = loan[l].status /\ row # NoLoan
  BY <1>2, <1>4, NoLoanAssumption DEF LoanRows
<1> QED BY <1>1, <1>3, <1>4, <1>5

\* Totals that grow, with nothing else written, take no loan and no schedule back.
LEMMA TotalsGrow ==
  ASSUME IInv, NEW l \in Applies, Exists(l), NEW cents \in Nat,
         \A k \in Applies \ {l} : loan'[k] = loan[k],
         loan'[l] # NoLoan, loan'[l].paid = loan[l].paid + cents,
         loan'[l].status = "repaid" => loan'[l].paid >= TotalDue(l), inst' = inst, lent' = lent
  PROVE  LoansGrow /\ RepaidIsCovered' /\ \A a \in Applies : SameSchedule(a)
<1>1. \A k \in Applies : Exists(k) => loan[k].paid \in Nat
  BY LoanType DEF IInv
<1>2. LoansGrow
  BY <1>1 DEF LoansGrow, Exists
<1>3. RepaidIsCovered'
  BY DEF IInv, RepaidIsCovered, Exists
<1> QED BY <1>2, <1>3 DEF SameSchedule, Exists

\* ManualRepay: the total.
LEMMA RepayIncrementStep ==
  ASSUME IInv, NEW p \in Repays, RepayIncrement(p)
  PROVE  IInv' /\ Posts
<1>1. call[p].pc = "increment" /\ TypeOK /\ p \in Calls /\ RepayInv(p)
  BY DEF RepayIncrement, IInv, Calls
<1>2. /\ inst' = inst /\ sweep' = sweep /\ month' = month
      /\ bal' = bal /\ lent' = lent /\ collected' = collected /\ returned' = returned
  BY DEF RepayIncrement, ledgerVars
<1> SUFFICES IInv'
  BY <1>2 DEF Posts, ledgerVars
<1>3. PICK l \in Applies, c \in Nat : l = LoanOf(p) /\ Exists(l) /\ c = call[p].cents
  BY <1>1, LoanOfType, CallType DEF RepayInv
<1>4. call[p].seen \in Nat /\ loan[l].paid \in Nat /\ call[p].seen <= loan[l].paid /\ TotalDue(l) \in Nat
  BY <1>1, <1>3, CallType, LoanType, DebtType DEF RepayInv
<1>5. CASE loan' = loan /\ Goto(p, "failed")
  <2>1. Moved(p) /\ call'[p].pc = "failed" /\ call'[p].of = call[p].of
    BY <1>1, <1>5, GotoEffect DEF CallSteps
  <2>2. LoanOf(p)' = l
    BY <1>3, <2>1 DEF LoanOf
  <2>3. RepayInv(p)'
    <3>1. Exists(l)' /\ call'[p].of # <<>>
      BY <1>1, <1>3, <1>5, <2>1 DEF RepayInv, Exists
    <3> QED BY <2>1, <2>2, <3>1 DEF RepayInv, Exists, LoanOf
  <2> QED BY <1>1, <1>2, <1>5, <2>1, <2>3, RepaymentMoves DEF TypeOK
<1>6. CASE IncrementPaid(l, c) /\ Goto(p, "list")
  <2>1. /\ Moved(p) /\ call'[p].pc = "list" /\ call'[p].of = call[p].of /\ call'[p].seen = call[p].seen
        /\ call'[p].cents = c
    BY <1>1, <1>3, <1>6, GotoEffect DEF CallSteps
  <2>2. /\ loan' \in [Applies -> LoanRows \cup {NoLoan}] /\ \A k \in Applies \ {l} : loan'[k] = loan[k]
        /\ loan'[l] # NoLoan /\ loan'[l].paid = loan[l].paid + c /\ loan'[l].status = loan[l].status
    BY <1>1, <1>3, <1>6, IncrementEffect
  <2>3. loan'[l].status = "repaid" => loan'[l].paid >= TotalDue(l)
    <3>1. loan[l].status = "repaid" => loan[l].paid >= TotalDue(l)
      BY <1>3 DEF IInv, RepaidIsCovered
    <3> QED BY <1>4, <2>2, <3>1
  <2>4. LoansGrow /\ RepaidIsCovered' /\ \A a \in Applies : SameSchedule(a)
    BY <1>2, <1>3, <2>2, <2>3, TotalsGrow
  <2>5. SweepInv'
    BY <1>2, <2>4, SweepKept DEF IInv
  <2>6. TypeOK'
    BY <1>1, <1>2, <2>1, <2>2 DEF TypeOK, Moved, Calls
  <2>7. RepayInv(p)'
    <3>1. LoanOf(p)' = l
      BY <1>3, <2>1 DEF LoanOf
    <3>2. call'[p].seen + call'[p].cents <= loan'[l].paid
      BY <1>4, <2>1, <2>2
    <3>3. Exists(l)' /\ call'[p].of # <<>> /\ call'[p].cents >= 0
      BY <1>1, <1>3, <2>1, <2>2 DEF RepayInv, Exists
    <3> QED BY <2>1, <3>1, <3>2, <3>3 DEF RepayInv, Exists, LoanOf
  <2> QED BY <2>1, <2>4, <2>5, <2>6, <2>7, RepaymentKeeps
<1> QED BY <1>3, <1>5, <1>6 DEF RepayIncrement

\* ManualRepay: the installments the amount covers.
LEMMA RepayListEffect ==
  ASSUME IInv, NEW p \in Repays, RepayList(p)
  PROVE  /\ Moved(p) /\ call'[p].of = call[p].of /\ call'[p].seen = call[p].seen
         /\ call'[p].cents = call[p].cents
         /\ \/ call'[p].pc = "mark" /\ call'[p].cover = Cover(LoanOf(p), call[p].cents)
            \/ call'[p].pc = "failed"
<1>1. call[p].pc = "list" /\ TypeOK /\ p \in Calls /\ RepayInv(p)
  BY DEF RepayList, IInv, Calls
<1>2. LoanOf(p) \in Applies
  BY <1>1, LoanOfType
<1>3. PICK S \in SUBSET Nat : S = Cover(LoanOf(p), call[p].cents)
  BY <1>1, <1>2, InstType DEF Cover
<1>4. call \in [Calls -> CallRows] /\ call[p] \in CallRows
  BY <1>1 DEF TypeOK, Calls
<1>5. CASE call' = [call EXCEPT ![p].pc = "mark", ![p].cover = S]
  <2>1. call' = [call EXCEPT ![p] = [call[p] EXCEPT !.pc = "mark", !.cover = S]]
    BY <1>4, <1>5
  <2>2. PICK row \in CallRows : row = [call[p] EXCEPT !.pc = "mark", !.cover = S]
    BY <1>4 DEF CallRows, CallSteps
  <2>3. /\ row.pc = "mark" /\ row.cover = S /\ row.of = call[p].of /\ row.seen = call[p].seen
        /\ row.cents = call[p].cents
    BY <1>4, <2>2 DEF CallRows
  <2> QED BY <1>1, <1>3, <1>4, <2>1, <2>2, <2>3 DEF Moved
<1>6. CASE Goto(p, "failed")
  BY <1>1, <1>6, GotoEffect DEF CallSteps
<1> QED BY <1>3, <1>5, <1>6 DEF RepayList

\* Listing the installments of a repayment keeps the invariant and moves no money.
LEMMA RepayListStep ==
  ASSUME IInv, NEW p \in Repays, RepayList(p)
  PROVE  IInv' /\ Posts
<1>1. call[p].pc = "list" /\ TypeOK /\ p \in Calls /\ RepayInv(p)
  BY DEF RepayList, IInv, Calls
<1>2. /\ loan' = loan /\ inst' = inst /\ sweep' = sweep /\ month' = month
      /\ bal' = bal /\ lent' = lent /\ collected' = collected /\ returned' = returned
  BY DEF RepayList, ledgerVars
<1>3. PICK l \in Applies : l = LoanOf(p) /\ Exists(l)
  BY <1>1, LoanOfType
<1>4. /\ Moved(p) /\ call'[p].of = call[p].of /\ call'[p].seen = call[p].seen
      /\ call'[p].cents = call[p].cents
      /\ \/ call'[p].pc = "mark" /\ call'[p].cover = Cover(l, call[p].cents)
         \/ call'[p].pc = "failed"
  BY <1>3, RepayListEffect
<1>5. Cover(l, call[p].cents) \subseteq DOMAIN inst[l]
  BY DEF Cover
<1>6. LoanOf(p)' = l
  BY <1>3, <1>4 DEF LoanOf
<1>7. RepayInv(p)'
  BY <1>1, <1>2, <1>3, <1>4, <1>5, <1>6 DEF RepayInv, Exists
<1>8. IInv'
  BY <1>1, <1>2, <1>4, <1>7, RepaymentMoves DEF TypeOK
<1> QED BY <1>2, <1>8 DEF Posts, ledgerVars

\* ManualRepay: the end.
LEMMA RepayCloseStep ==
  ASSUME IInv, NEW p \in Repays, RepayClose(p)
  PROVE  IInv' /\ Posts
<1>1. call[p].pc = "close" /\ TypeOK /\ p \in Calls /\ RepayInv(p) /\ Goto(p, "done")
  BY DEF RepayClose, IInv, Calls
<1>2. /\ inst' = inst /\ sweep' = sweep /\ month' = month
      /\ bal' = bal /\ lent' = lent /\ collected' = collected /\ returned' = returned
  BY DEF RepayClose, ledgerVars
<1> SUFFICES IInv'
  BY <1>2 DEF Posts, ledgerVars
<1>3. PICK l \in Applies : l = LoanOf(p) /\ Exists(l)
  BY <1>1, LoanOfType
<1>4. /\ Moved(p) /\ call'[p].pc = "done" /\ call'[p].of = call[p].of
  BY <1>1, GotoEffect DEF CallSteps
<1>5. LoanOf(p)' = l
  BY <1>3, <1>4 DEF LoanOf
<1>6. CASE loan' = loan
  <2>1. RepayInv(p)'
    <3>1. Exists(l)' /\ call'[p].of # <<>>
      BY <1>1, <1>3, <1>4, <1>6 DEF RepayInv, Exists
    <3> QED BY <1>4, <1>5, <3>1 DEF RepayInv, Exists, LoanOf
  <2> QED BY <1>1, <1>2, <1>4, <1>6, <2>1, RepaymentMoves DEF TypeOK
<1>7. CASE PaysOff(l, call[p].seen, call[p].cents) /\ loan' = [loan EXCEPT ![l].status = "repaid"]
  <2>1. /\ loan' \in [Applies -> LoanRows \cup {NoLoan}] /\ \A k \in Applies \ {l} : loan'[k] = loan[k]
        /\ loan'[l] # NoLoan /\ loan'[l].paid = loan[l].paid
    <3>1. loan \in [Applies -> LoanRows \cup {NoLoan}] /\ loan[l] \in LoanRows
      BY <1>1, <1>3, LoanType DEF TypeOK
    <3>2. loan' = [loan EXCEPT ![l] = [loan[l] EXCEPT !.status = "repaid"]]
      BY <1>7
    <3>3. PICK row \in LoanRows : row = [loan[l] EXCEPT !.status = "repaid"]
      BY <3>1 DEF LoanRows
    <3>4. row.paid = loan[l].paid /\ row # NoLoan
      BY <3>1, <3>3, NoLoanAssumption DEF LoanRows
    <3> QED BY <3>1, <3>2, <3>3, <3>4
  <2>2. loan[l].paid \in Nat /\ TotalDue(l) \in Nat /\ call[p].seen \in Nat /\ call[p].cents \in Int
    BY <1>1, <1>3, LoanType, DebtType, CallType
  <2>3. loan[l].paid >= TotalDue(l)
    BY <1>1, <1>3, <1>7, <2>2 DEF RepayInv, PaysOff
  <2>4. LoansGrow /\ RepaidIsCovered' /\ \A a \in Applies : SameSchedule(a)
    <3>1. loan'[l].paid = loan[l].paid + 0
      BY <2>1, <2>2
    <3> QED BY <1>2, <1>3, <2>1, <2>3, <3>1, TotalsGrow
  <2>5. SweepInv'
    BY <1>2, <2>4, SweepKept DEF IInv
  <2>6. TypeOK'
    BY <1>1, <1>2, <1>4, <2>1 DEF TypeOK, Moved, Calls
  <2>7. RepayInv(p)'
    <3>1. Exists(l)' /\ call'[p].of # <<>>
      BY <1>1, <1>3, <1>4, <2>1 DEF RepayInv, Exists
    <3> QED BY <1>4, <1>5, <3>1 DEF RepayInv, Exists, LoanOf
  <2> QED BY <1>4, <2>4, <2>5, <2>6, <2>7, RepaymentKeeps
<1> QED BY <1>3, <1>6, <1>7 DEF RepayClose

\* There is one function on nothing.
LEMMA EmptyFunction ==
  ASSUME NEW f, f = [i \in DOMAIN f |-> f[i]], DOMAIN f = {}
  PROVE  f = <<>>
OBVIOUS

\* What marking installments S of loan l does.
LEMMA MarkEffect ==
  ASSUME TypeOK, NEW l \in Applies, NEW S, MarkPaid(l, S)
  PROVE  /\ DOMAIN inst' = Applies /\ \A k \in Applies \ {l} : inst'[k] = inst[k]
         /\ DOMAIN inst'[l] = DOMAIN inst[l] /\ (inst'[l] = <<>> <=> inst[l] = <<>>)
         /\ \A i \in DOMAIN inst[l] : /\ inst'[l][i].due = inst[l][i].due
                                      /\ inst'[l][i].paid = (i \in S \/ inst[l][i].paid)
         /\ \A k \in Applies : inst'[k] = <<>> \/ inst'[k] \in [1 .. Months(k) -> InstRows]
<1> DEFINE new == [i \in DOMAIN inst[l] |->
             [due |-> inst[l][i].due, paid |-> i \in S \/ inst[l][i].paid]]
<1>1. DOMAIN inst = Applies /\ inst' = [inst EXCEPT ![l] = new]
  BY DEF TypeOK, MarkPaid
<1>2. DOMAIN inst' = Applies /\ inst'[l] = new /\ \A k \in Applies \ {l} : inst'[k] = inst[k]
  BY <1>1
<1>3. DOMAIN new = DOMAIN inst[l] /\ new = [i \in DOMAIN new |-> new[i]]
  OBVIOUS
<1>4. \A i \in DOMAIN inst[l] : new[i] = [due |-> inst[l][i].due, paid |-> i \in S \/ inst[l][i].paid]
  OBVIOUS
<1> HIDE DEF new
<1>5. \A i \in DOMAIN inst[l] : /\ new[i].due = inst[l][i].due
                                /\ new[i].paid = (i \in S \/ inst[l][i].paid)
  <2> SUFFICES ASSUME NEW i \in DOMAIN inst[l]
               PROVE  new[i].due = inst[l][i].due /\ new[i].paid = (i \in S \/ inst[l][i].paid)
    OBVIOUS
  <2>1. PICK d, b : d = inst[l][i].due /\ b = (i \in S \/ inst[l][i].paid)
    OBVIOUS
  <2>2. new[i] = [due |-> d, paid |-> b]
    BY <1>4, <2>1, Zenon
  <2>3. new[i].due = d /\ new[i].paid = b
    BY <2>2
  <2> QED BY <2>1, <2>3, Zenon
<1>6. DOMAIN <<>> = {}
  OBVIOUS
<1>7. new = <<>> <=> inst[l] = <<>>
  <2>1. ASSUME inst[l] = <<>> PROVE new = <<>>
    BY <1>3, <1>6, <2>1, EmptyFunction
  <2>2. ASSUME new = <<>> PROVE inst[l] = <<>>
    <3>1. DOMAIN inst[l] = {}
      BY <1>3, <1>6, <2>2
    <3>2. inst[l] # <<>> => DOMAIN inst[l] = 1 .. Months(l)
      BY InstType
    <3>3. Months(l) \in Nat \ {0}
      BY DebtType
    <3>4. 1 \in 1 .. Months(l)
      BY <3>3
    <3> QED BY <3>1, <3>2, <3>4
  <2> QED BY <2>1, <2>2
<1>8. new # <<>> => new \in [1 .. Months(l) -> InstRows]
  <2> SUFFICES ASSUME new # <<>> PROVE new \in [1 .. Months(l) -> InstRows]
    OBVIOUS
  <2>1. DOMAIN inst[l] = 1 .. Months(l)
    BY <1>7, InstType
  <2>2. ASSUME NEW i \in DOMAIN inst[l] PROVE new[i] \in InstRows
    <3>1. inst[l][i] \in InstRows
      BY InstType
    <3>2. PICK d \in Nat \ {0}, b \in BOOLEAN : d = inst[l][i].due /\ b = (i \in S \/ inst[l][i].paid)
      BY <3>1 DEF InstRows
    <3>3. [due |-> d, paid |-> b] \in InstRows
      BY DEF InstRows
    <3>4. [due |-> inst[l][i].due, paid |-> i \in S \/ inst[l][i].paid] = [due |-> d, paid |-> b]
      BY <3>2
    <3> QED BY <1>4, <3>3, <3>4
  <2> QED BY <1>3, <2>1, <2>2
<1>9. \A k \in Applies : inst'[k] = <<>> \/ inst'[k] \in [1 .. Months(k) -> InstRows]
  <2>1. \A k \in Applies \ {l} : inst[k] = <<>> \/ inst[k] \in [1 .. Months(k) -> InstRows]
    BY DEF TypeOK
  <2> QED BY <1>2, <1>8, <2>1
<1> QED BY <1>2, <1>3, <1>5, <1>7, <1>9

\* Marking takes no loan and no schedule back.
LEMMA MarkKeeps ==
  ASSUME IInv, NEW l \in Applies, NEW S, MarkPaid(l, S), loan' = loan, lent' = lent
  PROVE  LoansGrow /\ RepaidIsCovered' /\ \A a \in Applies : SameSchedule(a)
<1>1. \A k \in Applies : Exists(k) => loan[k].paid \in Nat
  BY LoanType DEF IInv
<1>2. /\ \A k \in Applies \ {l} : inst'[k] = inst[k]
      /\ DOMAIN inst'[l] = DOMAIN inst[l] /\ (inst'[l] = <<>> <=> inst[l] = <<>>)
      /\ \A i \in DOMAIN inst[l] : inst'[l][i].due = inst[l][i].due
  BY MarkEffect DEF IInv
<1>3. LoansGrow
  BY <1>1, <1>2 DEF LoansGrow, Exists
<1>4. RepaidIsCovered'
  BY DEF IInv, RepaidIsCovered, Exists
<1>5. \A a \in Applies : SameSchedule(a)
  <2>1. SameSchedule(l)
    BY <1>2 DEF SameSchedule, Exists
  <2>2. \A a \in Applies \ {l} : SameSchedule(a)
    BY <1>2 DEF SameSchedule, Exists
  <2> QED BY <2>1, <2>2
<1> QED BY <1>3, <1>4, <1>5

\* ManualRepay: the marks.
LEMMA RepayMarkStep ==
  ASSUME IInv, NEW p \in Repays, RepayMark(p)
  PROVE  IInv' /\ Posts
<1>1. call[p].pc = "mark" /\ TypeOK /\ p \in Calls /\ RepayInv(p) /\ Goto(p, "close")
  BY DEF RepayMark, IInv, Calls
<1>2. /\ loan' = loan /\ sweep' = sweep /\ month' = month
      /\ bal' = bal /\ lent' = lent /\ collected' = collected /\ returned' = returned
  BY DEF RepayMark, ledgerVars
<1> SUFFICES IInv'
  BY <1>2 DEF Posts, ledgerVars
<1>3. PICK l \in Applies : l = LoanOf(p) /\ Exists(l)
  BY <1>1, LoanOfType
<1>4. PICK S : MarkPaid(l, S)
  BY <1>3 DEF RepayMark
<1>5. LoansGrow /\ RepaidIsCovered' /\ \A a \in Applies : SameSchedule(a)
  BY <1>2, <1>4, MarkKeeps
<1>6. SweepInv'
  BY <1>2, <1>5, SweepKept DEF IInv
<1>7. /\ Moved(p) /\ call'[p].pc = "close" /\ call'[p].of = call[p].of /\ call'[p].seen = call[p].seen
      /\ call'[p].cents = call[p].cents
  BY <1>1, GotoEffect DEF CallSteps
<1>8. TypeOK'
  <2>1. /\ DOMAIN inst' = Applies
        /\ \A k \in Applies : inst'[k] = <<>> \/ inst'[k] \in [1 .. Months(k) -> InstRows]
    BY <1>1, <1>4, MarkEffect
  <2> QED BY <1>1, <1>2, <1>7, <2>1 DEF TypeOK, Moved, Calls
<1>9. RepayInv(p)'
  <2>1. LoanOf(p)' = l
    BY <1>3, <1>7 DEF LoanOf
  <2>2. Exists(l)' /\ call'[p].of # <<>> /\ call'[p].cents >= 0
    BY <1>1, <1>2, <1>3, <1>7 DEF RepayInv, Exists
  <2>3. call'[p].seen + call'[p].cents <= loan'[l].paid
    BY <1>1, <1>2, <1>3, <1>7 DEF RepayInv
  <2> QED BY <1>7, <2>1, <2>2, <2>3 DEF RepayInv
<1> QED BY <1>5, <1>6, <1>7, <1>8, <1>9, RepaymentKeeps

\* What is left to show of a step of the worker.
LEMMA WorkerKeeps ==
  ASSUME IInv, call' = call, TypeOK', LoansGrow, \A a \in Applies : SameSchedule(a),
         SweepInv', RepaidIsCovered'
  PROVE  IInv'
<1>1. /\ \A d \in Calls \ {} : call'[d] = call[d]
      /\ \A a \in Applies \ {} : SameSchedule(a)
      /\ \A a \in Applies \cap {} : ApplyInv(a)'
      /\ \A p \in Repays \cap {} : RepayInv(p)'
  OBVIOUS
<1> QED BY <1>1, StepKeeps

\* The worker, with what is left of its list, or at the next installment of it.
Working(at) ==
  \/ sweep'.pc \in {"idle", "collect"}
  \/ sweep'.pc \in {"mark", "increment"} /\ sweep'.at = at
\* The worker that marked or left an installment still works on installments of loans.
LEMMA SweepMoves ==
  ASSUME SweepInv, LoansGrow, \A x \in sweep'.todo : IsInstallment(x), NEW at, IsInstallment(at), Working(at)
  PROVE  SweepInv'
BY DEF SweepInv, IsInstallment, LoansGrow, Working

\* The worker goes on with the rest of its list, or is idle.
LEMMA ContinueEffect ==
  ASSUME NEW T
  PROVE  Continue(T).pc \in {"idle", "collect"} /\ Continue(T).todo = T
BY DEF Continue, Idle

\* A worker that stops, or goes on with a list it has, writing nothing.
LEMMA WorkerMoves ==
  ASSUME IInv, UNCHANGED <<loan, inst, call, month, lent>>,
         bal' \in [Accounts -> Nat], collected' \in [Applies -> Nat], returned' \in [Applies -> Nat],
         sweep'.pc \in {"idle", "collect", "mark", "increment"}, SweepInv'
  PROVE  IInv'
<1>1. LoansGrow /\ RepaidIsCovered' /\ \A a \in Applies : SameSchedule(a)
  BY NoLoanWritten
<1>2. TypeOK'
  BY DEF TypeOK, IInv
<1> QED BY <1>1, <1>2, WorkerKeeps

\* An installment has a loan behind it, and so has the worker's.
LEMMA InstallmentRule ==
  ASSUME IInv, NEW x, IsInstallment(x)
  PROVE  /\ x[1] \in Applies /\ x[2] \in DOMAIN inst[x[1]] /\ x = <<x[1], x[2]>>
         /\ Exists(x[1]) /\ inst[x[1]][x[2]].due \in Nat
<1>0. PICK l \in Applies : \E i \in DOMAIN inst[l] : x = <<l, i>>
  BY DEF IsInstallment
<1>1. PICK i \in DOMAIN inst[l] : x = <<l, i>>
  BY <1>0
<1>2. x[1] = l /\ x[2] = i
  BY <1>1
<1>3. inst[l] # <<>> /\ inst[l][i].due \in Nat
  BY InstType DEF IInv
<1>4. Exists(l)
  BY <1>3 DEF IInv, ApplyInv
<1> QED BY <1>1, <1>2, <1>3, <1>4

\* AutoSweep: the list.
LEMMA SweepListStep ==
  ASSUME IInv, SweepList
  PROVE  IInv' /\ Posts
<1>1. /\ loan' = loan /\ inst' = inst /\ call' = call /\ month' = month
      /\ bal' = bal /\ lent' = lent /\ collected' = collected /\ returned' = returned
  BY DEF SweepList, ledgerVars
<1>2. sweep'.pc = "collect" /\ sweep'.todo = DueUnpaid
  BY DEF SweepList
<1>3. \A x \in DueUnpaid : IsInstallment(x)
  BY DEF DueUnpaid, IsInstallment
<1>4. SweepInv'
  BY <1>1, <1>2, <1>3 DEF SweepInv, IsInstallment
<1>5. IInv'
  BY <1>1, <1>2, <1>4, WorkerMoves DEF IInv, TypeOK
<1> QED BY <1>1, <1>5 DEF Posts, ledgerVars

\* AutoSweep: the collection.
LEMMA SweepCollectStep ==
  ASSUME IInv, SweepCollect
  PROVE  IInv' /\ Posts
<1>1. PICK x \in sweep.todo, o \in CallOutcomes :
       /\ IF Applied(o) THEN Collect(x[1], inst[x[1]][x[2]].due)
                        ELSE UNCHANGED <<bal, collected, returned>>
       /\ sweep' = IF Confirmed(o) THEN [pc |-> "mark", todo |-> sweep.todo \ {x}, at |-> x]
                                   ELSE Continue(sweep.todo \ {x})
  BY DEF SweepCollect
<1>2. loan' = loan /\ inst' = inst /\ call' = call /\ month' = month /\ lent' = lent
  BY DEF SweepCollect
<1>3. TypeOK /\ IsInstallment(x) /\ SweepInv
  BY DEF IInv, SweepInv
<1>4. PICK l \in Applies, c \in Nat : l = x[1] /\ Exists(l) /\ c = inst[x[1]][x[2]].due
  BY <1>3, InstallmentRule
<1>5. \/ \E n : Takes(l, c, n)
      \/ bal' = bal /\ collected' = collected /\ returned' = returned
  BY <1>1, <1>2, <1>3, <1>4, CollectTakes
<1>6. Posts
  BY <1>2, <1>5 DEF Posts, ledgerVars
<1>7. bal' \in [Accounts -> Nat] /\ collected' \in [Applies -> Nat] /\ returned' \in [Applies -> Nat]
  BY <1>3, <1>5, TakesEffect DEF TypeOK
<1>8. Working(x) /\ sweep'.pc \in {"idle", "collect", "mark", "increment"} /\ sweep'.todo \subseteq sweep.todo
  <2>1. CASE Confirmed(o)
    BY <1>1, <2>1 DEF Working
  <2>2. CASE ~Confirmed(o)
    BY <1>1, <2>2, ContinueEffect DEF Working
  <2> QED BY <2>1, <2>2
<1>9. SweepInv'
  BY <1>2, <1>3, <1>8, SweepMoves, NoLoanWritten DEF SweepInv
<1>10. IInv'
  BY <1>2, <1>7, <1>8, <1>9, WorkerMoves
<1> QED BY <1>6, <1>10

\* AutoSweep: the mark.
LEMMA SweepMarkStep ==
  ASSUME IInv, SweepMark
  PROVE  IInv' /\ Posts
<1>1. sweep.pc = "mark" /\ TypeOK /\ SweepInv /\ IsInstallment(sweep.at)
  BY DEF SweepMark, IInv, SweepInv
<1>2. /\ loan' = loan /\ call' = call /\ month' = month
      /\ bal' = bal /\ lent' = lent /\ collected' = collected /\ returned' = returned
  BY DEF SweepMark, ledgerVars
<1> SUFFICES IInv'
  BY <1>2 DEF Posts, ledgerVars
<1>3. Working(sweep.at) /\ sweep'.pc \in {"idle", "collect", "mark", "increment"} /\ sweep'.todo = sweep.todo
  <2>1. CASE sweep' = Continue(sweep.todo)
    BY <2>1, ContinueEffect DEF Working
  <2>2. CASE sweep' = [pc |-> "increment", todo |-> sweep.todo, at |-> sweep.at]
    BY <2>2 DEF Working
  <2> QED BY <2>1, <2>2 DEF SweepMark
<1>4. \A x \in sweep'.todo : IsInstallment(x)
  BY <1>1, <1>3 DEF SweepInv
<1>5. CASE inst' = inst
  <2>1. LoansGrow
    BY <1>2, <1>5, NoLoanWritten
  <2>2. SweepInv'
    BY <1>1, <1>3, <1>4, <2>1, SweepMoves
  <2> QED BY <1>1, <1>2, <1>3, <1>5, <2>2, WorkerMoves DEF TypeOK
<1>6. CASE MarkPaid(sweep.at[1], {sweep.at[2]})
  <2>1. sweep.at[1] \in Applies
    BY <1>1, InstallmentRule
  <2>2. LoansGrow /\ RepaidIsCovered' /\ \A a \in Applies : SameSchedule(a)
    BY <1>2, <1>6, <2>1, MarkKeeps
  <2>3. SweepInv'
    BY <1>1, <1>3, <1>4, <2>2, SweepMoves
  <2>4. TypeOK'
    <3>1. /\ DOMAIN inst' = Applies
          /\ \A k \in Applies : inst'[k] = <<>> \/ inst'[k] \in [1 .. Months(k) -> InstRows]
      BY <1>1, <1>6, <2>1, MarkEffect
    <3> QED BY <1>1, <1>2, <1>3, <3>1 DEF TypeOK
  <2> QED BY <1>2, <2>2, <2>3, <2>4, WorkerKeeps
<1> QED BY <1>5, <1>6 DEF SweepMark

\* AutoSweep: the total.
LEMMA SweepIncrementStep ==
  ASSUME IInv, SweepIncrement
  PROVE  IInv' /\ Posts
<1>1. sweep.pc = "increment" /\ TypeOK /\ SweepInv /\ IsInstallment(sweep.at)
  BY DEF SweepIncrement, IInv, SweepInv
<1>2. /\ inst' = inst /\ call' = call /\ month' = month
      /\ bal' = bal /\ lent' = lent /\ collected' = collected /\ returned' = returned
  BY DEF SweepIncrement, ledgerVars
<1> SUFFICES IInv'
  BY <1>2 DEF Posts, ledgerVars
<1>3. sweep' = Continue(sweep.todo)
  BY DEF SweepIncrement
<1>4. Working(sweep.at) /\ sweep'.pc \in {"idle", "collect", "mark", "increment"} /\ sweep'.todo = sweep.todo
  BY <1>3, ContinueEffect DEF Working
<1>5. \A x \in sweep'.todo : IsInstallment(x)
  BY <1>1, <1>4 DEF SweepInv
<1>6. CASE loan' = loan
  <2>1. LoansGrow
    BY <1>2, <1>6, NoLoanWritten
  <2>2. SweepInv'
    BY <1>1, <1>4, <1>5, <2>1, SweepMoves
  <2> QED BY <1>1, <1>2, <1>4, <1>6, <2>2, WorkerMoves DEF TypeOK
<1>7. CASE IncrementPaid(sweep.at[1], inst[sweep.at[1]][sweep.at[2]].due)
  <2>1. PICK l \in Applies, c \in Nat :
          l = sweep.at[1] /\ Exists(l) /\ c = inst[sweep.at[1]][sweep.at[2]].due
    BY <1>1, InstallmentRule
  <2>2. /\ loan' \in [Applies -> LoanRows \cup {NoLoan}] /\ \A k \in Applies \ {l} : loan'[k] = loan[k]
        /\ loan'[l] # NoLoan /\ loan'[l].paid = loan[l].paid + c /\ loan'[l].status = loan[l].status
    BY <1>1, <1>7, <2>1, IncrementEffect
  <2>3. loan'[l].status = "repaid" => loan'[l].paid >= TotalDue(l)
    <3>1. loan[l].status = "repaid" => loan[l].paid >= TotalDue(l)
      BY <2>1 DEF IInv, RepaidIsCovered
    <3>2. loan[l].paid \in Nat /\ TotalDue(l) \in Nat
      BY <1>1, <2>1, LoanType, DebtType
    <3> QED BY <2>2, <3>1, <3>2
  <2>4. LoansGrow /\ RepaidIsCovered' /\ \A a \in Applies : SameSchedule(a)
    BY <1>2, <2>1, <2>2, <2>3, TotalsGrow
  <2>5. SweepInv'
    BY <1>1, <1>4, <1>5, <2>4, SweepMoves
  <2>6. TypeOK'
    BY <1>1, <1>2, <1>4, <2>2 DEF TypeOK
  <2> QED BY <1>2, <2>4, <2>5, <2>6, WorkerKeeps
<1> QED BY <1>6, <1>7 DEF SweepIncrement

\* The worker is started again, or a month passes, or nothing happens.
LEMMA RestStep ==
  ASSUME IInv, SweepCrash \/ MonthPasses \/ UNCHANGED vars
  PROVE  IInv' /\ Posts
<1>1. /\ loan' = loan /\ inst' = inst /\ call' = call
      /\ bal' = bal /\ lent' = lent /\ collected' = collected /\ returned' = returned
  BY DEF SweepCrash, MonthPasses, ledgerVars, vars
<1>2. sweep' = Idle \/ sweep' = sweep
  BY DEF SweepCrash, MonthPasses, vars
<1>3. month' \in Nat
  BY DEF SweepCrash, MonthPasses, vars, IInv, TypeOK
<1>4. LoansGrow /\ RepaidIsCovered' /\ \A a \in Applies : SameSchedule(a)
  BY <1>1, NoLoanWritten
<1>5. SweepInv'
  <2>1. CASE sweep' = sweep
    BY <1>4, <2>1, SweepKept DEF IInv
  <2>2. CASE sweep' = Idle
    BY <2>2 DEF SweepInv, Idle
  <2> QED BY <1>2, <2>1, <2>2
<1>6. TypeOK'
  BY <1>1, <1>2, <1>3 DEF IInv, TypeOK, Idle
<1>7. IInv'
  BY <1>1, <1>4, <1>5, <1>6, WorkerKeeps
<1> QED BY <1>1, <1>7 DEF Posts, ledgerVars

\* Every step keeps the invariant, and moves money as the ledger does.
LEMMA StepInvariance ==
  ASSUME IInv, [Next]_vars
  PROVE  IInv' /\ Posts
<1>1. ASSUME NEW a \in Applies, Apply(a) \/ Disburse(a) \/ CreateLoan(a) \/ CreateInstallments(a)
      PROVE  IInv' /\ Posts
  BY <1>1, ApplyStep, DisburseStep, CreateLoanStep, CreateInstallmentsStep
<1>2. ASSUME NEW p \in Repays, \/ Repay(p) \/ RepayCollect(p) \/ RepayIncrement(p)
                               \/ RepayList(p) \/ RepayMark(p) \/ RepayClose(p)
      PROVE  IInv' /\ Posts
  BY <1>2, RepayStep, RepayCollectStep, RepayIncrementStep, RepayListStep, RepayMarkStep, RepayCloseStep
<1> QED BY <1>1, <1>2, SweepListStep, SweepCollectStep, SweepMarkStep, SweepIncrementStep, RestStep DEF Next

\* Along every behaviour the loans, the calls, the worker and the ledger stay in step.
THEOREM Invariance == Spec => [](IInv /\ MoneyInv)
<1>1. Init => IInv /\ MoneyInv
  BY InitIInv
<1>2. IInv /\ MoneyInv /\ [Next]_vars => IInv' /\ MoneyInv'
  <2> SUFFICES ASSUME IInv, MoneyInv, [Next]_vars PROVE IInv' /\ MoneyInv'
    OBVIOUS
  <2>1. IInv' /\ Posts
    BY StepInvariance
  <2>2. TypeOK /\ TypeOK' /\ \A a \in Applies : call[a].pc = "disburse" => lent[a] = 0
    BY <2>1 DEF IInv, ApplyInv
  <2> QED BY <2>1, <2>2, LedgerKeeps DEF Posts
<1> QED BY <1>1, <1>2, PTL DEF Spec

\* MoneyConserved: no step makes or destroys money, the capital is short by exactly
\* what was lent and has not come back, and no wallet is overdrawn.
THEOREM MoneyIsConserved == Spec => []MoneyConserved
BY Invariance, PTL DEF MoneyInv

\* CapitalGetsItsShare: however a debt is cut into payments, the capital gets no
\* more than the principal's share of them.
THEOREM CapitalIsReturned == Spec => []CapitalGetsItsShare
BY Invariance, PTL DEF MoneyInv

\* RepaidIsCovered: a loan is closed only when its recorded payments cover the debt.
THEOREM RepaidLoansAreCovered == Spec => []RepaidIsCovered
<1>1. IInv => RepaidIsCovered
  BY DEF IInv
<1> QED BY <1>1, Invariance, PTL

\* ScheduleCoversDebt: every schedule adds up to the debt of a loan that was paid out.
THEOREM SchedulesCoverDebts == Spec => []ScheduleCoversDebt
<1>1. IInv => ScheduleCoversDebt
  <2> SUFFICES ASSUME IInv, NEW l \in Applies, inst[l] # <<>>
               PROVE  SumOver(Dues(l), DOMAIN inst[l]) = TotalDue(l) /\ Exists(l) /\ lent[l] = Principal[l]
    BY DEF ScheduleCoversDebt
  <2>1. /\ \A i \in 1 .. Months(l) : inst[l][i].due = Installment(l, i)
        /\ Exists(l) /\ lent[l] = Principal[l]
    BY DEF IInv, ApplyInv
  <2>2. /\ DOMAIN inst[l] = 1 .. Months(l) /\ IsFiniteSet(1 .. Months(l))
        /\ \A i \in 1 .. Months(l) : inst[l][i].due \in Int
    <3>1. TypeOK
      BY DEF IInv
    <3>2. DOMAIN inst[l] = 1 .. Months(l) /\ IsFiniteSet(DOMAIN inst[l])
      BY <3>1, InstType
    <3>3. \A i \in DOMAIN inst[l] : inst[l][i].due \in Nat
      BY <3>1, InstType
    <3> QED BY <3>2, <3>3
  <2>3. \A i \in 1 .. Months(l) : Dues(l)[i] \in Int /\ Dues(l)[i] = Schedule(l)[i]
    BY <2>1, <2>2 DEF Dues, Schedule
  <2>4. SumFunctionOnSet(Dues(l), 1 .. Months(l)) = SumFunctionOnSet(Schedule(l), 1 .. Months(l))
    BY <2>2, <2>3, SumSame
  <2> QED BY <2>1, <2>2, <2>4, ScheduleAddsUp DEF SumOver
<1> QED BY <1>1, Invariance, PTL

\* Rows of loan_installments.
Rows(r) == IsFiniteSet(DOMAIN r) /\ \A i \in DOMAIN r : r[i].due \in Nat /\ r[i].paid \in BOOLEAN

\* What installments are worth is a number of cents.
LEMMA WorthType ==
  ASSUME NEW r, Rows(r), NEW S
  PROVE  Worth(r, S) \in Nat /\ PaidPart(r) \in Nat
<1> DEFINE f == [i \in DOMAIN r |-> IF i \in S /\ ~r[i].paid THEN r[i].due ELSE 0]
           g == [i \in DOMAIN r |-> IF r[i].paid THEN r[i].due ELSE 0]
           D == DOMAIN r
<1>1. \A i \in D : f[i] \in Nat /\ g[i] \in Nat
  BY DEF Rows
<1>2. IsFiniteSet(D)
  BY DEF Rows
<1>3. Worth(r, S) = SumFunctionOnSet(f, D) /\ PaidPart(r) = SumFunctionOnSet(g, D)
  BY DEF Worth, PaidPart, SumOver
<1> HIDE DEF f, g, D
<1>4. SumFunctionOnSet(f, D) \in Int /\ SumFunctionOnSet(g, D) \in Int
  <2>1. (\A i \in D : f[i] \in Int) /\ (\A i \in D : g[i] \in Int)
    BY <1>1
  <2> QED BY <1>2, <2>1, SumType
<1>5. 0 <= SumFunctionOnSet(f, D) /\ 0 <= SumFunctionOnSet(g, D)
  <2>1. D \in SUBSET D /\ (\A i \in D : f[i] \in Nat) /\ (\A i \in D : g[i] \in Nat)
    BY <1>1
  <2> QED BY <1>2, <2>1, SumPart
<1> QED BY <1>3, <1>4, <1>5

\* Installments that were unpaid are worth no more when some are marked.
LEMMA WorthFalls ==
  ASSUME NEW r, NEW q, Rows(r), Rows(q), DOMAIN q = DOMAIN r,
         \A i \in DOMAIN r : q[i].due = r[i].due /\ (r[i].paid => q[i].paid), NEW S
  PROVE  Worth(q, S) <= Worth(r, S)
<1> DEFINE f == [i \in DOMAIN q |-> IF i \in S /\ ~q[i].paid THEN q[i].due ELSE 0]
           g == [i \in DOMAIN r |-> IF i \in S /\ ~r[i].paid THEN r[i].due ELSE 0]
           D == DOMAIN r
<1>1. \A i \in D : f[i] \in Int /\ g[i] \in Int /\ f[i] <= g[i]
  BY DEF Rows
<1>2. IsFiniteSet(D)
  BY DEF Rows
<1>3. Worth(q, S) = SumFunctionOnSet(f, D) /\ Worth(r, S) = SumFunctionOnSet(g, D)
  BY DEF Worth, SumOver
<1> HIDE DEF f, g, D
<1> QED BY <1>1, <1>2, <1>3, SumMonotone

\* Marking installments S moves what they are worth to the paid ones.
LEMMA MarkRule ==
  ASSUME NEW r, NEW q, Rows(r), Rows(q), DOMAIN q = DOMAIN r, NEW S,
         \A i \in DOMAIN r : q[i].due = r[i].due /\ (q[i].paid <=> (i \in S \/ r[i].paid))
  PROVE  PaidPart(q) = PaidPart(r) + Worth(r, S)
<1> DEFINE f == [i \in DOMAIN r |-> IF r[i].paid THEN r[i].due ELSE 0]
           g == [i \in DOMAIN r |-> IF i \in S /\ ~r[i].paid THEN r[i].due ELSE 0]
           h == [i \in DOMAIN q |-> IF q[i].paid THEN q[i].due ELSE 0]
           D == DOMAIN r
<1>1. \A i \in D : f[i] \in Int /\ g[i] \in Int /\ h[i] = f[i] + g[i]
  BY DEF Rows
<1>2. IsFiniteSet(D)
  BY DEF Rows
<1>3. /\ PaidPart(r) = SumFunctionOnSet(f, D) /\ Worth(r, S) = SumFunctionOnSet(g, D)
      /\ PaidPart(q) = SumFunctionOnSet(h, D)
  BY DEF Worth, PaidPart, SumOver
<1> HIDE DEF f, g, h, D
<1> QED BY <1>1, <1>2, <1>3, SumPlus

\* Fewer installments are worth no more.
LEMMA WorthPart ==
  ASSUME NEW r, Rows(r), NEW T, NEW S \in SUBSET T
  PROVE  Worth(r, S) <= Worth(r, T)
<1> DEFINE f == [i \in DOMAIN r |-> IF i \in S /\ ~r[i].paid THEN r[i].due ELSE 0]
           g == [i \in DOMAIN r |-> IF i \in T /\ ~r[i].paid THEN r[i].due ELSE 0]
           D == DOMAIN r
<1>1. \A i \in D : f[i] \in Int /\ g[i] \in Int /\ f[i] <= g[i]
  BY DEF Rows
<1>2. IsFiniteSet(D)
  BY DEF Rows
<1>3. Worth(r, S) = SumFunctionOnSet(f, D) /\ Worth(r, T) = SumFunctionOnSet(g, D)
  BY DEF Worth, SumOver
<1> HIDE DEF f, g, D
<1> QED BY <1>1, <1>2, <1>3, SumMonotone

\* Unpaid installments T are worth what is due for them.
LEMMA WorthUnpaid ==
  ASSUME NEW r, Rows(r), NEW T \in SUBSET (DOMAIN r), \A i \in T : ~r[i].paid
  PROVE  Worth(r, T) = SumFunctionOnSet([i \in DOMAIN r |-> r[i].due], T)
<1> DEFINE f == [i \in DOMAIN r |-> IF i \in T /\ ~r[i].paid THEN r[i].due ELSE 0]
           g == [i \in DOMAIN r |-> r[i].due]
           D == DOMAIN r
<1>1. /\ \A i \in D : f[i] \in Int
      /\ \A i \in D \ T : f[i] = 0
      /\ \A i \in T : f[i] \in Int /\ f[i] = g[i]
  BY DEF Rows
<1>2. IsFiniteSet(D) /\ T \in SUBSET D
  BY DEF Rows
<1>3. Worth(r, T) = SumFunctionOnSet(f, D)
  BY DEF Worth, SumOver
<1>4. IsFiniteSet(T)
  BY <1>2, FS_Subset
<1> HIDE DEF f, D
<1>5. SumFunctionOnSet(f, D) = SumFunctionOnSet(f, T)
  BY <1>1, <1>2, SumSupport
<1>6. SumFunctionOnSet(f, T) = SumFunctionOnSet(g, T)
  <2> HIDE DEF g
  <2> QED BY <1>1, <1>4, SumSame
<1> QED BY <1>3, <1>5, <1>6

\* No installments, one installment, and a schedule with nothing paid.
LEMMA WorthOfFew ==
  ASSUME NEW r, Rows(r)
  PROVE  /\ Worth(r, {}) = 0
         /\ \A i \in DOMAIN r : Worth(r, {i}) <= r[i].due
         /\ (\A i \in DOMAIN r : ~r[i].paid) => PaidPart(r) = 0
<1>1. IsFiniteSet(DOMAIN r) /\ Cardinality(DOMAIN r) \in Nat
  BY FS_CardinalityType DEF Rows
<1>2. Worth(r, {}) = 0
  <2> DEFINE f == [i \in DOMAIN r |-> IF i \in {} /\ ~r[i].paid THEN r[i].due ELSE 0]
  <2>1. \A i \in DOMAIN r : f[i] = 0
    OBVIOUS
  <2>2. Worth(r, {}) = SumFunctionOnSet(f, DOMAIN r)
    BY DEF Worth, SumOver
  <2> HIDE DEF f
  <2>3. SumFunctionOnSet(f, DOMAIN r) = Cardinality(DOMAIN r) * 0
    BY <1>1, <2>1, SumConstant
  <2> QED BY <1>1, <2>2, <2>3
<1>3. ASSUME NEW i \in DOMAIN r PROVE Worth(r, {i}) <= r[i].due
  <2> DEFINE f == [j \in DOMAIN r |-> IF j \in {i} /\ ~r[j].paid THEN r[j].due ELSE 0]
  <2>1. f[i] \in Int /\ f[i] <= r[i].due /\ \A j \in DOMAIN r \ {i} : f[j] = 0
    BY DEF Rows
  <2>2. Worth(r, {i}) = SumFunctionOnSet(f, DOMAIN r)
    BY DEF Worth, SumOver
  <2> HIDE DEF f
  <2>3. SumFunctionOnSet(f, DOMAIN r) = f[i]
    BY <1>1, <2>1, SumSingle
  <2> QED BY <2>1, <2>2, <2>3
<1>4. ASSUME \A i \in DOMAIN r : ~r[i].paid PROVE PaidPart(r) = 0
  <2> DEFINE f == [i \in DOMAIN r |-> IF r[i].paid THEN r[i].due ELSE 0]
  <2>1. \A i \in DOMAIN r : f[i] = 0
    BY <1>4
  <2>2. PaidPart(r) = SumFunctionOnSet(f, DOMAIN r)
    BY DEF PaidPart, SumOver
  <2> HIDE DEF f
  <2>3. SumFunctionOnSet(f, DOMAIN r) = Cardinality(DOMAIN r) * 0
    BY <1>1, <2>1, SumConstant
  <2> QED BY <1>1, <2>2, <2>3
<1> QED BY <1>2, <1>3, <1>4

\* A set of numbers up to a bound has a largest element.
LEMMA LargestNumber ==
  ASSUME NEW n \in Nat, NEW S \in SUBSET (1 .. n), S # {}
  PROVE  \E m \in S : \A x \in S : x <= m
<1> DEFINE U == {k \in Nat : \A x \in S : x <= k}
<1>1. n \in U
  OBVIOUS
<1>2. PICK m \in U : \A k \in U : m <= k
  BY <1>1, LeastNumber
<1>3. m \in S
  <2> SUFFICES ASSUME m \notin S PROVE FALSE
    OBVIOUS
  <2>1. PICK y \in S : TRUE
    OBVIOUS
  <2>2. m - 1 \in Nat
    BY <2>1
  <2>3. \A x \in S : x <= m - 1
    OBVIOUS
  <2>4. m - 1 \in U
    BY <2>2, <2>3
  <2> QED BY <1>2, <2>4
<1> QED BY <1>2, <1>3

\* The installments an amount covers are worth no more than the amount.
LEMMA CoverRule ==
  ASSUME TypeOK, NEW l \in Applies, NEW cents \in Nat
  PROVE  Worth(inst[l], Cover(l, cents)) <= cents
<1> DEFINE r == inst[l]
           unpaid == {i \in DOMAIN inst[l] : ~inst[l][i].paid}
           C == Cover(l, cents)
<1>1. Rows(r) /\ DOMAIN r \subseteq 1 .. Months(l) /\ Months(l) \in Nat
  BY InstType, DebtType DEF Rows
<1>2. C = {i \in unpaid : SumFunctionOnSet(Dues(l), {j \in unpaid : j <= i}) <= cents}
  BY DEF Cover
<1>3. CASE C = {}
  BY <1>1, <1>3, WorthOfFew
<1>4. CASE C # {}
  <2>1. PICK m \in C : \A x \in C : x <= m
    BY <1>1, <1>2, <1>4, LargestNumber
  <2> DEFINE T == {j \in unpaid : j <= m}
  <2>2. C \in SUBSET T
    BY <1>2, <2>1
  <2>3. T \in SUBSET (DOMAIN r) /\ \A i \in T : ~r[i].paid
    OBVIOUS
  <2>4. SumFunctionOnSet(Dues(l), T) <= cents
    BY <1>2, <2>1
  <2>5. Worth(r, T) = SumFunctionOnSet(Dues(l), T)
    <3>1. Dues(l) = [i \in DOMAIN r |-> r[i].due]
      BY DEF Dues
    <3> HIDE DEF T, r
    <3> QED BY <1>1, <2>3, <3>1, WorthUnpaid
  <2> HIDE DEF T, r, C
  <2>6. Worth(r, C) <= Worth(r, T) /\ Worth(r, C) \in Nat /\ Worth(r, T) \in Nat
    BY <1>1, <2>2, WorthPart, WorthType
  <2>7. Worth(r, C) <= cents
    BY <2>4, <2>5, <2>6
  <2> QED BY <2>7 DEF r, C
<1> QED BY <1>3, <1>4

\* The amounts the claims on a loan are made of.
LoanNumbers(l) ==
  /\ \A p \in Repays : Uncounted(p, l) \in Nat /\ Unmarked(p, l) \in Nat
  /\ SweepingCents(l) \in Nat /\ SweepUnmarked(l) \in Nat
  /\ MarkedPaid(l) \in Nat /\ collected[l] \in Nat
  /\ Exists(l) => loan[l].paid \in Nat
  /\ Rows(inst[l])
Numbers == \A l \in Applies : LoanNumbers(l)

\* The amounts of the claims are natural numbers.
LEMMA ClaimTypes == IInv => Numbers
<1> SUFFICES ASSUME IInv, NEW l \in Applies PROVE LoanNumbers(l)
  BY DEF Numbers
<1>1. TypeOK
  BY DEF IInv
<1>2. Rows(inst[l])
  BY <1>1, InstType DEF Rows
<1>3. MarkedPaid(l) \in Nat /\ \A S : Worth(inst[l], S) \in Nat
  BY <1>2, WorthType DEF MarkedPaid
<1>4. ASSUME NEW p \in Repays PROVE Uncounted(p, l) \in Nat /\ Unmarked(p, l) \in Nat
  <2>1. call[p].cents \in Int /\ (call[p].pc \in {"increment", "list"} => call[p].cents >= 0)
    BY <1>1, CallType DEF IInv, RepayInv, Calls
  <2>2. Worth(inst[l], call[p].cover) \in Nat
    BY <1>3
  <2> QED BY <2>1, <2>2 DEF Uncounted, Unmarked
<1>5. SweepingCents(l) \in Nat
  <2>1. CASE sweep.pc \in {"mark", "increment"} /\ sweep.at[1] = l
    <3>1. IsInstallment(sweep.at)
      BY <2>1 DEF IInv, SweepInv
    <3> QED BY <2>1, <3>1, InstallmentRule DEF SweepingCents
  <2> QED BY <2>1 DEF SweepingCents
<1>6. SweepUnmarked(l) \in Nat
  BY <1>3 DEF SweepUnmarked
<1>7. collected[l] \in Nat /\ (Exists(l) => loan[l].paid \in Nat)
  BY <1>1, LoanType DEF TypeOK
<1> QED BY <1>2, <1>3, <1>4, <1>5, <1>6, <1>7 DEF LoanNumbers

\* And so they are after a step.
LEMMA ClaimTypesNext == IInv' => Numbers'
BY ClaimTypes, PTL

\* The claims on loan l stay covered when repayment c claims no more than the ledger
\* has taken in the same step, and the others claim nothing new.
LEMMA ClaimsMove ==
  ASSUME NEW l \in Applies, LoanNumbers(l), LoanNumbers(l)', Claims(l), NEW c \in Repays,
         \A p \in Repays \ {c} : Uncounted(p, l)' <= Uncounted(p, l) /\ Unmarked(p, l)' <= Unmarked(p, l),
         Exists(l)' => Exists(l),
         Exists(l) => loan'[l].paid + Uncounted(c, l)' + SweepingCents(l)' + collected[l]
                        <= loan[l].paid + Uncounted(c, l) + SweepingCents(l) + collected'[l],
         MarkedPaid(l)' + Unmarked(c, l)' + SweepUnmarked(l)' + collected[l]
           <= MarkedPaid(l) + Unmarked(c, l) + SweepUnmarked(l) + collected'[l]
  PROVE  Claims(l)'
<1>1. PICK f, g, h, k : /\ f = [p \in Repays |-> Uncounted(p, l)] /\ g = [p \in Repays |-> Uncounted(p, l)']
                        /\ h = [p \in Repays |-> Unmarked(p, l)] /\ k = [p \in Repays |-> Unmarked(p, l)']
  OBVIOUS
<1>2. /\ \A p \in Repays : f[p] \in Int /\ g[p] \in Int
      /\ \A p \in Repays : h[p] \in Int /\ k[p] \in Int
  BY <1>1 DEF LoanNumbers
<1>3. /\ \A p \in Repays \ {c} : g[p] <= f[p]
      /\ \A p \in Repays \ {c} : k[p] <= h[p]
  BY <1>1
<1>4. /\ SumFunctionOnSet(g, Repays) <= SumFunctionOnSet(f, Repays) - f[c] + g[c]
      /\ SumFunctionOnSet(k, Repays) <= SumFunctionOnSet(h, Repays) - h[c] + k[c]
  BY <1>2, <1>3, FiniteAssumption, SumFalls
<1>5. /\ SumFunctionOnSet(f, Repays) \in Int /\ SumFunctionOnSet(g, Repays) \in Int
      /\ SumFunctionOnSet(h, Repays) \in Int /\ SumFunctionOnSet(k, Repays) \in Int
  <2>1. /\ \A p \in Repays : f[p] \in Int
        /\ \A p \in Repays : g[p] \in Int
        /\ \A p \in Repays : h[p] \in Int
        /\ \A p \in Repays : k[p] \in Int
    BY <1>2
  <2> QED BY <2>1, FiniteAssumption, SumType
<1>6. f[c] = Uncounted(c, l) /\ g[c] = Uncounted(c, l)' /\ h[c] = Unmarked(c, l) /\ k[c] = Unmarked(c, l)'
  BY <1>1
<1>7. /\ Exists(l) => loan[l].paid + SumFunctionOnSet(f, Repays) + SweepingCents(l) <= collected[l]
      /\ MarkedPaid(l) + SumFunctionOnSet(h, Repays) + SweepUnmarked(l) <= collected[l]
  BY <1>1 DEF Claims, ClaimedPaid, SumOver
<1>8. /\ SweepingCents(l) \in Nat /\ SweepUnmarked(l) \in Nat /\ MarkedPaid(l) \in Nat /\ collected[l] \in Nat
      /\ SweepingCents(l)' \in Nat /\ SweepUnmarked(l)' \in Nat /\ MarkedPaid(l)' \in Nat /\ collected'[l] \in Nat
      /\ Exists(l) => loan[l].paid \in Nat
      /\ Exists(l)' => loan'[l].paid \in Nat
      /\ f[c] \in Int /\ g[c] \in Int /\ h[c] \in Int /\ k[c] \in Int
  BY <1>2 DEF LoanNumbers
<1>9. Exists(l)' => loan'[l].paid + SumFunctionOnSet(g, Repays) + SweepingCents(l)' <= collected'[l]
  BY <1>4, <1>5, <1>6, <1>7, <1>8
<1>10. MarkedPaid(l)' + SumFunctionOnSet(k, Repays) + SweepUnmarked(l)' <= collected'[l]
  BY <1>4, <1>5, <1>6, <1>7, <1>8
<1> QED BY <1>1, <1>9, <1>10 DEF Claims, ClaimedPaid, SumOver

\* And when no repayment claims anything new.
LEMMA ClaimsStay ==
  ASSUME NEW l \in Applies, LoanNumbers(l), LoanNumbers(l)', Claims(l),
         \A p \in Repays : Uncounted(p, l)' <= Uncounted(p, l) /\ Unmarked(p, l)' <= Unmarked(p, l),
         Exists(l)' => Exists(l) \/ ClaimedPaid(l)' <= collected'[l],
         Exists(l) => loan'[l].paid + SweepingCents(l)' + collected[l]
                        <= loan[l].paid + SweepingCents(l) + collected'[l],
         MarkedPaid(l)' + SweepUnmarked(l)' + collected[l]
           <= MarkedPaid(l) + SweepUnmarked(l) + collected'[l]
  PROVE  Claims(l)'
<1>1. PICK f, g, h, k : /\ f = [p \in Repays |-> Uncounted(p, l)] /\ g = [p \in Repays |-> Uncounted(p, l)']
                        /\ h = [p \in Repays |-> Unmarked(p, l)] /\ k = [p \in Repays |-> Unmarked(p, l)']
  OBVIOUS
<1>2. /\ \A p \in Repays : g[p] \in Int /\ f[p] \in Int /\ g[p] <= f[p]
      /\ \A p \in Repays : k[p] \in Int /\ h[p] \in Int /\ k[p] <= h[p]
  BY <1>1 DEF LoanNumbers
<1>3. /\ SumFunctionOnSet(g, Repays) <= SumFunctionOnSet(f, Repays)
      /\ SumFunctionOnSet(k, Repays) <= SumFunctionOnSet(h, Repays)
  BY <1>2, FiniteAssumption, SumMonotone
<1>4. /\ SumFunctionOnSet(f, Repays) \in Int /\ SumFunctionOnSet(g, Repays) \in Int
      /\ SumFunctionOnSet(h, Repays) \in Int /\ SumFunctionOnSet(k, Repays) \in Int
  <2>1. /\ \A p \in Repays : f[p] \in Int
        /\ \A p \in Repays : g[p] \in Int
        /\ \A p \in Repays : h[p] \in Int
        /\ \A p \in Repays : k[p] \in Int
    BY <1>2
  <2> QED BY <2>1, FiniteAssumption, SumType
<1>5. /\ Exists(l) => loan[l].paid + SumFunctionOnSet(f, Repays) + SweepingCents(l) <= collected[l]
      /\ MarkedPaid(l) + SumFunctionOnSet(h, Repays) + SweepUnmarked(l) <= collected[l]
  BY <1>1 DEF Claims, ClaimedPaid, SumOver
<1>6. /\ SweepingCents(l) \in Nat /\ SweepUnmarked(l) \in Nat /\ MarkedPaid(l) \in Nat /\ collected[l] \in Nat
      /\ SweepingCents(l)' \in Nat /\ SweepUnmarked(l)' \in Nat /\ MarkedPaid(l)' \in Nat /\ collected'[l] \in Nat
      /\ Exists(l) => loan[l].paid \in Nat
      /\ Exists(l)' => loan'[l].paid \in Nat
  BY DEF LoanNumbers
<1>7. Exists(l)' => ClaimedPaid(l)' <= collected'[l]
  <2> SUFFICES ASSUME Exists(l)', Exists(l) PROVE ClaimedPaid(l)' <= collected'[l]
    OBVIOUS
  <2>1. loan'[l].paid + SumFunctionOnSet(g, Repays) + SweepingCents(l)' <= collected'[l]
    BY <1>3, <1>4, <1>5, <1>6
  <2> QED BY <1>1, <2>1 DEF ClaimedPaid, SumOver
<1>8. MarkedPaid(l)' + SumFunctionOnSet(k, Repays) + SweepUnmarked(l)' <= collected'[l]
  BY <1>3, <1>4, <1>5, <1>6
<1> QED BY <1>1, <1>7, <1>8 DEF Claims, SumOver

\* The schedule of a loan, at most with more of it marked paid.
OnlyMarked(l) ==
  /\ DOMAIN inst'[l] = DOMAIN inst[l]
  /\ \A i \in DOMAIN inst[l] : inst'[l][i].due = inst[l][i].due /\ (inst[l][i].paid => inst'[l][i].paid)

\* A repayment that does not move claims nothing new.
LEMMA CallClaims ==
  ASSUME NEW l \in Applies, LoanNumbers(l), LoanNumbers(l)', OnlyMarked(l), NEW p \in Repays, call'[p] = call[p]
  PROVE  Uncounted(p, l)' <= Uncounted(p, l) /\ Unmarked(p, l)' <= Unmarked(p, l)
<1>1. Uncounted(p, l) \in Nat /\ Uncounted(p, l)' = Uncounted(p, l)
  BY DEF Uncounted, LoanNumbers
<1>2. PICK S : S = call[p].cover
  OBVIOUS
<1>3. Worth(inst'[l], S) <= Worth(inst[l], S)
  BY WorthFalls DEF LoanNumbers, OnlyMarked
<1>4. Unmarked(p, l) \in Nat
  BY DEF LoanNumbers
<1>5. Unmarked(p, l)' <= Unmarked(p, l)
  BY <1>2, <1>3, <1>4 DEF Unmarked
<1> QED BY <1>1, <1>5

\* Nor does the worker when it stays or stops.
LEMMA SweepClaims ==
  ASSUME IInv, NEW l \in Applies, LoanNumbers(l), LoanNumbers(l)', OnlyMarked(l),
         sweep' = sweep \/ sweep'.pc \in {"idle", "collect"}
  PROVE  SweepingCents(l)' <= SweepingCents(l) /\ SweepUnmarked(l)' <= SweepUnmarked(l)
<1>1. SweepingCents(l) \in Nat /\ SweepUnmarked(l) \in Nat
  BY DEF LoanNumbers
<1>2. CASE sweep'.pc \in {"idle", "collect"}
  BY <1>1, <1>2 DEF SweepingCents, SweepUnmarked
<1>3. CASE sweep' = sweep
  <2>1. PICK S : S = {sweep.at[2]}
    OBVIOUS
  <2>2. Worth(inst'[l], S) <= Worth(inst[l], S)
    BY WorthFalls DEF LoanNumbers, OnlyMarked
  <2>3. SweepUnmarked(l)' <= SweepUnmarked(l)
    BY <1>1, <1>3, <2>1, <2>2 DEF SweepUnmarked
  <2>4. CASE sweep.pc \in {"mark", "increment"} /\ sweep.at[1] = l
    <3>1. sweep.at[2] \in DOMAIN inst[l]
      BY <2>4, InstallmentRule DEF IInv, SweepInv
    <3> QED BY <1>1, <1>3, <2>3, <3>1 DEF SweepingCents, OnlyMarked
  <2>5. CASE ~(sweep.pc \in {"mark", "increment"} /\ sweep.at[1] = l)
    BY <1>1, <1>3, <2>3, <2>5 DEF SweepingCents
  <2> QED BY <2>4, <2>5
<1> QED BY <1>2, <1>3

\* A step that takes nothing, writes nothing of the loan and moves no repayment.
LEMMA QuietStep ==
  ASSUME IInv, NEW l \in Applies, LoanNumbers(l), LoanNumbers(l)', Claims(l),
         \A p \in Repays : call'[p] = call[p], sweep' = sweep \/ sweep'.pc \in {"idle", "collect"},
         inst'[l] = inst[l], collected'[l] = collected[l],
         Exists(l)' => Exists(l) \/ ClaimedPaid(l)' <= collected'[l],
         Exists(l) => loan'[l].paid = loan[l].paid
  PROVE  Claims(l)'
<1>1. OnlyMarked(l)
  BY DEF OnlyMarked
<1>2. \A p \in Repays : Uncounted(p, l)' <= Uncounted(p, l) /\ Unmarked(p, l)' <= Unmarked(p, l)
  BY <1>1, CallClaims
<1>3. SweepingCents(l)' <= SweepingCents(l) /\ SweepUnmarked(l)' <= SweepUnmarked(l)
  BY <1>1, SweepClaims
<1>4. MarkedPaid(l)' = MarkedPaid(l)
  BY DEF MarkedPaid
<1>5. /\ SweepingCents(l) \in Nat /\ SweepUnmarked(l) \in Nat /\ MarkedPaid(l) \in Nat /\ collected[l] \in Nat
      /\ SweepingCents(l)' \in Nat /\ SweepUnmarked(l)' \in Nat
      /\ Exists(l) => loan[l].paid \in Nat
  BY DEF LoanNumbers
<1>6. /\ Exists(l) => loan'[l].paid + SweepingCents(l)' + collected[l]
                        <= loan[l].paid + SweepingCents(l) + collected'[l]
      /\ MarkedPaid(l)' + SweepUnmarked(l)' + collected[l]
           <= MarkedPaid(l) + SweepUnmarked(l) + collected'[l]
  BY <1>3, <1>4, <1>5
<1> QED BY <1>2, <1>6, ClaimsStay

\* A step of repayment c.
LEMMA RepaymentClaims ==
  ASSUME IInv, NEW l \in Applies, LoanNumbers(l), LoanNumbers(l)', Claims(l), NEW c \in Repays, Moved(c),
         sweep' = sweep, OnlyMarked(l), Exists(l)' => Exists(l),
         Exists(l) => loan'[l].paid + Uncounted(c, l)' + collected[l]
                        <= loan[l].paid + Uncounted(c, l) + collected'[l],
         MarkedPaid(l)' + Unmarked(c, l)' + collected[l] <= MarkedPaid(l) + Unmarked(c, l) + collected'[l],
         Exists(l) => loan'[l].paid \in Nat
  PROVE  Claims(l)'
<1>1. \A p \in Repays \ {c} : Uncounted(p, l)' <= Uncounted(p, l) /\ Unmarked(p, l)' <= Unmarked(p, l)
  BY CallClaims DEF Moved, Calls
<1>2. SweepingCents(l)' <= SweepingCents(l) /\ SweepUnmarked(l)' <= SweepUnmarked(l)
  BY SweepClaims
<1>3. /\ SweepingCents(l) \in Nat /\ SweepUnmarked(l) \in Nat /\ MarkedPaid(l) \in Nat /\ collected[l] \in Nat
      /\ SweepingCents(l)' \in Nat /\ SweepUnmarked(l)' \in Nat /\ MarkedPaid(l)' \in Nat /\ collected'[l] \in Nat
      /\ Exists(l) => loan[l].paid \in Nat
      /\ Uncounted(c, l) \in Nat /\ Uncounted(c, l)' \in Nat /\ Unmarked(c, l) \in Nat /\ Unmarked(c, l)' \in Nat
  BY DEF LoanNumbers
<1>4. /\ Exists(l) => loan'[l].paid + Uncounted(c, l)' + SweepingCents(l)' + collected[l]
                        <= loan[l].paid + Uncounted(c, l) + SweepingCents(l) + collected'[l]
      /\ MarkedPaid(l)' + Unmarked(c, l)' + SweepUnmarked(l)' + collected[l]
           <= MarkedPaid(l) + Unmarked(c, l) + SweepUnmarked(l) + collected'[l]
  BY <1>2, <1>3
<1> QED BY <1>1, <1>4, ClaimsMove

\* The amounts before and after a step.
LEMMA BothNumbers ==
  ASSUME IInv, IInv', NEW l \in Applies
  PROVE  LoanNumbers(l) /\ LoanNumbers(l)'
BY ClaimTypes, ClaimTypesNext DEF Numbers

\* A call that takes nothing claims nothing.
LEMMA NoClaim ==
  ASSUME NEW l \in Applies, NEW p \in Repays
  PROVE  /\ call[p].pc \notin {"increment", "list", "mark"} \/ call[p].of # <<l>> =>
              Uncounted(p, l) = 0 /\ Unmarked(p, l) = 0
         /\ call'[p].pc \notin {"increment", "list", "mark"} \/ call'[p].of # <<l>> =>
              Uncounted(p, l)' = 0 /\ Unmarked(p, l)' = 0
BY DEF Uncounted, Unmarked

\* The steps of an application up to the payment.
LEMMA ApplyClaims ==
  ASSUME IInv, IInv', NEW l \in Applies, Claims(l), NEW a \in Applies, Apply(a) \/ Disburse(a)
  PROVE  Claims(l)'
<1>1. LoanNumbers(l) /\ LoanNumbers(l)'
  BY BothNumbers
<1>2. loan' = loan /\ inst' = inst /\ sweep' = sweep /\ collected' = collected
  BY DEF Apply, Disburse
<1>3. \A p \in Repays : call'[p] = call[p]
  <2>1. PICK s : Goto(a, s)
    BY DEF Apply, Disburse
  <2> QED BY <2>1, CallAssumption DEF Goto, IInv, TypeOK
<1> QED BY <1>1, <1>2, <1>3, QuietStep DEF Exists

\* A loan begins with nothing paid, before anything refers to it.
LEMMA CreateLoanClaims ==
  ASSUME IInv, IInv', NEW l \in Applies, Claims(l), NEW a \in Applies, CreateLoan(a)
  PROVE  Claims(l)'
<1>1. LoanNumbers(l) /\ LoanNumbers(l)'
  BY BothNumbers
<1>2. inst' = inst /\ sweep' = sweep /\ collected' = collected
  BY DEF CreateLoan, ledgerVars
<1>3. \A p \in Repays : call'[p] = call[p]
  <2>1. PICK s : Goto(a, s)
    BY DEF CreateLoan
  <2> QED BY <2>1, CallAssumption DEF Goto, IInv, TypeOK
<1>4. TypeOK /\ ApplyInv(a) /\ call[a].pc = "record" /\ SweepInv
  BY DEF CreateLoan, IInv
<1>5. CASE loan'[l] = loan[l]
  BY <1>1, <1>2, <1>3, <1>5, QuietStep DEF Exists
<1>6. CASE l = a /\ loan'[l].paid = 0
  <2>1. ~Exists(l) /\ inst[l] = <<>>
    BY <1>4, <1>6 DEF ApplyInv
  <2>2. \A p \in Repays : Uncounted(p, l)' = 0
    <3> SUFFICES ASSUME NEW p \in Repays, call[p].pc = "increment", call[p].of = <<l>> PROVE FALSE
      BY <1>3 DEF Uncounted
    <3>1. RepayInv(p)
      BY DEF IInv
    <3>2. Exists(LoanOf(p)) /\ call[p].of = <<LoanOf(p)>>
      BY <1>4, <3>1, LoanOfType
    <3>3. LoanOf(p) = l
      BY DEF LoanOf
    <3> QED BY <2>1, <3>2, <3>3
  <2>3. SweepingCents(l)' = 0
    <3> SUFFICES ASSUME sweep.pc \in {"mark", "increment"}, sweep.at[1] = l PROVE FALSE
      BY <1>2 DEF SweepingCents
    <3>1. IsInstallment(sweep.at)
      BY <1>4 DEF SweepInv
    <3> QED BY <2>1, <3>1, InstallmentRule
  <2>4. PICK g : g = [p \in Repays |-> Uncounted(p, l)']
    OBVIOUS
  <2>5. SumFunctionOnSet(g, Repays) = 0
    <3>1. \A p \in Repays : g[p] = 0
      BY <2>2, <2>4
    <3>2. Cardinality(Repays) \in Nat /\ IsFiniteSet(Repays)
      BY FiniteAssumption, FS_CardinalityType
    <3>3. SumFunctionOnSet(g, Repays) = Cardinality(Repays) * 0
      BY <3>1, <3>2, SumConstant
    <3> QED BY <3>2, <3>3
  <2>6. ClaimedPaid(l)' = loan'[l].paid + SumFunctionOnSet(g, Repays) + SweepingCents(l)'
    BY <2>4 DEF ClaimedPaid, SumOver
  <2>7. ClaimedPaid(l)' <= collected'[l]
    BY <1>1, <1>6, <2>3, <2>5, <2>6 DEF LoanNumbers
  <2>8. Exists(l) => loan'[l].paid = loan[l].paid
    BY <2>1
  <2> QED BY <1>1, <1>2, <1>3, <2>7, <2>8, QuietStep
<1> QED
  <2>1. loan \in [Applies -> LoanRows \cup {NoLoan}]
    BY <1>4 DEF TypeOK
  <2> QED BY <1>5, <1>6, <2>1 DEF CreateLoan

\* A schedule begins with nothing marked, before anything refers to it.
LEMMA CreateInstallmentsClaims ==
  ASSUME IInv, IInv', NEW l \in Applies, Claims(l), NEW a \in Applies, CreateInstallments(a)
  PROVE  Claims(l)'
<1>1. LoanNumbers(l) /\ LoanNumbers(l)'
  BY BothNumbers
<1>2. loan' = loan /\ sweep' = sweep /\ collected' = collected
  BY DEF CreateInstallments, ledgerVars
<1>3. \A p \in Repays : call'[p] = call[p]
  <2>1. PICK s : Goto(a, s)
    BY DEF CreateInstallments
  <2> QED BY <2>1, CallAssumption DEF Goto, IInv, TypeOK
<1>4. TypeOK /\ ApplyInv(a) /\ call[a].pc = "schedule" /\ SweepInv
  BY DEF CreateInstallments, IInv
<1>5. CASE inst'[l] = inst[l]
  BY <1>1, <1>2, <1>3, <1>5, QuietStep DEF Exists
<1>6. CASE l = a /\ \A i \in DOMAIN inst'[l] : ~inst'[l][i].paid
  <2>1. inst[l] = <<>> /\ DOMAIN inst[l] = {}
    BY <1>4, <1>6 DEF ApplyInv
  <2>2. ASSUME NEW p \in Repays
        PROVE  Uncounted(p, l)' <= Uncounted(p, l) /\ Unmarked(p, l)' <= Unmarked(p, l)
    <3>1. Uncounted(p, l) \in Nat /\ Unmarked(p, l) \in Nat /\ call'[p] = call[p] /\ Rows(inst'[l])
      BY <1>1, <1>3 DEF LoanNumbers
    <3>2. CASE call[p].of = <<l>> /\ call[p].pc = "mark"
      <4>1. RepayInv(p) /\ LoanOf(p) = l
        BY <3>2 DEF IInv, LoanOf
      <4>2. call[p].cover = {}
        BY <2>1, <3>2, <4>1 DEF RepayInv
      <4>3. Worth(inst'[l], {}) = 0
        BY <3>1, WorthOfFew
      <4>4. Unmarked(p, l)' = 0
        BY <3>1, <3>2, <4>2, <4>3 DEF Unmarked
      <4> QED BY <3>1, <4>4 DEF Uncounted
    <3>3. CASE ~(call[p].of = <<l>> /\ call[p].pc = "mark")
      BY <3>1, <3>3 DEF Uncounted, Unmarked
    <3> QED BY <3>2, <3>3
  <2>3. ~(sweep.pc \in {"mark", "increment"} /\ sweep.at[1] = l)
    <3> SUFFICES ASSUME sweep.pc \in {"mark", "increment"}, sweep.at[1] = l PROVE FALSE
      OBVIOUS
    <3>1. IsInstallment(sweep.at)
      BY <1>4 DEF SweepInv
    <3> QED BY <2>1, <3>1, InstallmentRule
  <2>4. SweepingCents(l)' = 0 /\ SweepUnmarked(l)' = 0
    BY <1>2, <2>3 DEF SweepingCents, SweepUnmarked
  <2>5. MarkedPaid(l)' = 0
    BY <1>1, <1>6, WorthOfFew DEF MarkedPaid, LoanNumbers
  <2>6. /\ SweepingCents(l) \in Nat /\ SweepUnmarked(l) \in Nat /\ MarkedPaid(l) \in Nat /\ collected[l] \in Nat
        /\ Exists(l) => loan[l].paid \in Nat
    BY <1>1 DEF LoanNumbers
  <2>7. Exists(l)' => Exists(l)
    BY <1>2 DEF Exists
  <2>8. /\ Exists(l) => loan'[l].paid + SweepingCents(l)' + collected[l]
                          <= loan[l].paid + SweepingCents(l) + collected'[l]
        /\ MarkedPaid(l)' + SweepUnmarked(l)' + collected[l]
             <= MarkedPaid(l) + SweepUnmarked(l) + collected'[l]
    BY <1>2, <2>4, <2>5, <2>6
  <2> QED BY <1>1, <2>2, <2>7, <2>8, ClaimsStay
<1> QED
  <2>1. DOMAIN inst = Applies
    BY <1>4 DEF TypeOK
  <2>2. PICK rows : /\ rows = [i \in 1 .. Months(a) |-> [due |-> Installment(a, i), paid |-> FALSE]]
                    /\ inst' = [inst EXCEPT ![a] = rows] \/ inst' = inst
    BY DEF CreateInstallments
  <2>3. \A i \in DOMAIN rows : ~rows[i].paid
    BY <2>2
  <2>4. inst'[l] = inst[l] \/ (l = a /\ inst'[l] = rows)
    BY <2>1, <2>2
  <2> QED BY <1>5, <1>6, <2>3, <2>4

\* The steps of a repayment that claim nothing before and after.
LEMMA RepayClaims ==
  ASSUME IInv, IInv', NEW l \in Applies, Claims(l), NEW p \in Repays, Repay(p) \/ RepayClose(p)
  PROVE  Claims(l)'
<1>1. LoanNumbers(l) /\ LoanNumbers(l)'
  BY BothNumbers
<1>2. inst' = inst /\ sweep' = sweep /\ collected' = collected
  BY DEF Repay, RepayClose, ledgerVars
<1>3. /\ TypeOK /\ TypeOK' /\ RepayInv(p) /\ p \in Calls /\ call[p].pc \in {"new", "close"}
  BY DEF IInv, Calls, Repay, RepayClose
<1>4. Moved(p) /\ call'[p].pc \in {"collect", "failed", "done"}
  <2>1. CASE RepayClose(p)
    <3>1. Goto(p, "done")
      BY <2>1 DEF RepayClose
    <3> QED BY <1>3, <3>1, GotoEffect DEF CallSteps
  <2>2. CASE Repay(p)
    <3>1. PICK row : call' = [call EXCEPT ![p] = row] /\ row.pc \in {"collect", "failed"}
      <4>1. PICK k \in Applies : call' = [call EXCEPT ![p] =
              [pc |-> IF loan[k].user = By[p] /\ Outstanding(k) THEN "collect" ELSE "failed",
               of |-> <<k>>, seen |-> loan[k].paid, cents |-> Capped(k, Asked[p]), cover |-> {}]]
        BY <2>2 DEF Repay
      <4>2. PICK row : row = [pc |-> IF loan[k].user = By[p] /\ Outstanding(k) THEN "collect" ELSE "failed",
               of |-> <<k>>, seen |-> loan[k].paid, cents |-> Capped(k, Asked[p]), cover |-> {}]
        OBVIOUS
      <4>3. row.pc \in {"collect", "failed"}
        BY <4>2
      <4> QED BY <4>1, <4>2, <4>3
    <3> QED BY <1>3, <3>1 DEF Moved, TypeOK, Calls
  <2> QED BY <2>1, <2>2
<1>5. (Exists(l)' => Exists(l)) /\ (Exists(l) => loan'[l].paid = loan[l].paid)
  <2>1. CASE loan' = loan
    BY <2>1 DEF Exists
  <2>2. CASE loan' = [loan EXCEPT ![LoanOf(p)].status = "repaid"] /\ call[p].pc = "close"
    <3>1. PICK k \in Applies : k = LoanOf(p) /\ Exists(k) /\ loan[k] \in LoanRows
      BY <1>3, <2>2, LoanOfType, LoanType
    <3>2. loan \in [Applies -> LoanRows \cup {NoLoan}]
      BY <1>3 DEF TypeOK
    <3>3. loan' = [loan EXCEPT ![k] = [loan[k] EXCEPT !.status = "repaid"]]
      BY <2>2, <3>1
    <3>4. loan'[k].paid = loan[k].paid /\ \A j \in Applies \ {k} : loan'[j] = loan[j]
      BY <3>1, <3>2, <3>3 DEF LoanRows
    <3> QED BY <3>1, <3>4 DEF Exists
  <2> QED BY <2>1, <2>2 DEF Repay, RepayClose
<1>6. Uncounted(p, l) = 0 /\ Unmarked(p, l) = 0 /\ Uncounted(p, l)' = 0 /\ Unmarked(p, l)' = 0
  BY <1>3, <1>4, NoClaim
<1>7. OnlyMarked(l) /\ MarkedPaid(l)' = MarkedPaid(l)
  BY <1>2 DEF OnlyMarked, MarkedPaid
<1>8. MarkedPaid(l) \in Nat /\ collected[l] \in Nat /\ (Exists(l) => loan[l].paid \in Nat)
  BY <1>1 DEF LoanNumbers
<1>9. /\ Exists(l) => loan'[l].paid + Uncounted(p, l)' + collected[l]
                        <= loan[l].paid + Uncounted(p, l) + collected'[l]
      /\ MarkedPaid(l)' + Unmarked(p, l)' + collected[l] <= MarkedPaid(l) + Unmarked(p, l) + collected'[l]
      /\ Exists(l) => loan'[l].paid \in Nat
  BY <1>2, <1>5, <1>6, <1>7, <1>8
<1> QED BY <1>1, <1>2, <1>4, <1>5, <1>7, <1>9, RepaymentClaims

\* A repayment claims what the ledger took for it.
LEMMA RepayCollectClaims ==
  ASSUME IInv, IInv', NEW l \in Applies, Claims(l), NEW p \in Repays, RepayCollect(p)
  PROVE  Claims(l)'
<1>1. LoanNumbers(l) /\ LoanNumbers(l)'
  BY BothNumbers
<1>2. loan' = loan /\ inst' = inst /\ sweep' = sweep /\ lent' = lent
  BY DEF RepayCollect
<1>3. PICK o \in CallOutcomes :
       /\ IF Applied(o) THEN Collect(LoanOf(p), call[p].cents)
                        ELSE UNCHANGED <<bal, collected, returned>>
       /\ Goto(p, AfterCollect(o))
  BY DEF RepayCollect
<1>4. TypeOK /\ RepayInv(p) /\ p \in Calls /\ call[p].pc = "collect"
  BY DEF IInv, Calls, RepayCollect
<1>5. PICK s \in {"increment", "failed"} : s = AfterCollect(o) /\ Goto(p, s)
  BY <1>3 DEF AfterCollect
<1>6. /\ Moved(p) /\ call'[p].pc = s /\ call'[p].of = call[p].of /\ call'[p].cents = call[p].cents
  BY <1>4, <1>5, GotoEffect DEF CallSteps
<1>7. PICK k \in Applies, c \in Int : k = LoanOf(p) /\ call[p].of = <<k>> /\ Exists(k) /\ c = call[p].cents
  BY <1>4, LoanOfType, CallType
<1>8. \/ /\ c \in Nat /\ collected' = [collected EXCEPT ![k] = collected[k] + c]
      \/ ~Applied(o) /\ collected' = collected
  BY <1>2, <1>3, <1>4, <1>7, CollectTakes DEF Takes
<1>9. collected \in [Applies -> Nat]
  BY <1>4 DEF TypeOK
<1>10. Uncounted(p, l) = 0 /\ Unmarked(p, l) = 0
  BY <1>4, NoClaim
<1>11. Uncounted(p, l)' + collected[l] <= collected'[l] /\ Unmarked(p, l)' + collected[l] <= collected'[l]
  <2>1. CASE s = "failed" \/ l # k
    <3>1. Uncounted(p, l)' = 0 /\ Unmarked(p, l)' = 0
      <4>1. call'[p].of = <<k>>
        BY <1>6, <1>7
      <4>2. s = "failed" \/ call'[p].of # <<l>>
        BY <2>1, <4>1
      <4> QED BY <1>6, <4>2, NoClaim
    <3>2. collected[l] \in Nat /\ collected[l] <= collected'[l]
      BY <1>7, <1>8, <1>9
    <3> QED BY <3>1, <3>2
  <2>2. CASE s = "increment" /\ l = k
    <3>1. Confirmed(o)
      BY <1>5, <2>2 DEF AfterCollect
    <3>2. c \in Nat /\ collected'[l] = collected[l] + c /\ collected[l] \in Nat
      BY <1>8, <1>9, <2>2, <3>1, OutcomeRule
    <3>3. Uncounted(p, l)' = c /\ Unmarked(p, l)' = c
      BY <1>6, <1>7, <2>2 DEF Uncounted, Unmarked
    <3> QED BY <3>2, <3>3
  <2> QED BY <2>1, <2>2
<1>12. OnlyMarked(l) /\ MarkedPaid(l)' = MarkedPaid(l) /\ (Exists(l)' => Exists(l))
  BY <1>2 DEF OnlyMarked, MarkedPaid, Exists
<1>13. /\ MarkedPaid(l) \in Nat /\ collected[l] \in Nat /\ (Exists(l) => loan[l].paid \in Nat)
       /\ collected'[l] \in Nat /\ Uncounted(p, l)' \in Nat /\ Unmarked(p, l)' \in Nat
  BY <1>1 DEF LoanNumbers
<1>14. /\ Exists(l) => loan'[l].paid + Uncounted(p, l)' + collected[l]
                        <= loan[l].paid + Uncounted(p, l) + collected'[l]
       /\ MarkedPaid(l)' + Unmarked(p, l)' + collected[l] <= MarkedPaid(l) + Unmarked(p, l) + collected'[l]
       /\ Exists(l) => loan'[l].paid \in Nat
  BY <1>2, <1>10, <1>11, <1>12, <1>13
<1> QED BY <1>1, <1>2, <1>6, <1>12, <1>14, RepaymentClaims

\* It adds to the total what it has claimed.
LEMMA RepayIncrementClaims ==
  ASSUME IInv, IInv', NEW l \in Applies, Claims(l), NEW p \in Repays, RepayIncrement(p)
  PROVE  Claims(l)'
<1>1. LoanNumbers(l) /\ LoanNumbers(l)'
  BY BothNumbers
<1>2. inst' = inst /\ sweep' = sweep /\ collected' = collected
  BY DEF RepayIncrement, ledgerVars
<1>3. TypeOK /\ RepayInv(p) /\ p \in Calls /\ call[p].pc = "increment"
  BY DEF IInv, Calls, RepayIncrement
<1>4. PICK k \in Applies, c \in Nat : k = LoanOf(p) /\ call[p].of = <<k>> /\ Exists(k) /\ c = call[p].cents
  BY <1>3, LoanOfType, CallType DEF RepayInv
<1>5. PICK s \in {"list", "failed"} : Goto(p, s) /\ (IF s = "list" THEN IncrementPaid(k, c) ELSE loan' = loan)
  BY <1>4 DEF RepayIncrement
<1>6. /\ Moved(p) /\ call'[p].pc = s /\ call'[p].of = call[p].of /\ call'[p].cents = call[p].cents
  BY <1>3, <1>5, GotoEffect DEF CallSteps
<1>7. /\ s = "list" => /\ \A j \in Applies \ {k} : loan'[j] = loan[j]
                       /\ loan'[k].paid = loan[k].paid + c
      /\ s = "failed" => loan' = loan
  BY <1>3, <1>4, <1>5, IncrementEffect
<1>8. OnlyMarked(l) /\ MarkedPaid(l)' = MarkedPaid(l)
  BY <1>2 DEF OnlyMarked, MarkedPaid
<1>9. MarkedPaid(l) \in Nat /\ collected[l] \in Nat /\ (Exists(l) => loan[l].paid \in Nat)
  BY <1>1 DEF LoanNumbers
<1>10. Exists(l)' => Exists(l)
  BY <1>4, <1>7 DEF Exists
<1>11. /\ Exists(l) => loan'[l].paid + Uncounted(p, l)' + collected[l]
                        <= loan[l].paid + Uncounted(p, l) + collected'[l]
       /\ Unmarked(p, l)' <= Unmarked(p, l) /\ Unmarked(p, l) \in Nat
       /\ Exists(l) => loan'[l].paid \in Nat
  <2>1. CASE l # k
    <3>1. call[p].of # <<l>> /\ call'[p].of # <<l>>
      BY <1>4, <1>6, <2>1
    <3>2. Uncounted(p, l) = 0 /\ Unmarked(p, l) = 0 /\ Uncounted(p, l)' = 0 /\ Unmarked(p, l)' = 0
      BY <3>1, NoClaim
    <3>3. loan'[l] = loan[l]
      BY <1>7, <2>1
    <3> QED BY <1>2, <1>9, <3>2, <3>3
  <2>2. CASE l = k
    <3>1. Uncounted(p, l) = c /\ Unmarked(p, l) = c /\ Uncounted(p, l)' = 0
      BY <1>3, <1>4, <1>6, <2>2 DEF Uncounted, Unmarked
    <3>2. Unmarked(p, l)' = (IF s = "list" THEN c ELSE 0)
      BY <1>4, <1>6, <2>2 DEF Unmarked
    <3>3. loan'[l].paid = loan[l].paid + (IF s = "list" THEN c ELSE 0)
      BY <1>4, <1>7, <1>9, <2>2
    <3> QED BY <1>2, <1>4, <1>9, <2>2, <3>1, <3>2, <3>3
  <2> QED BY <2>1, <2>2
<1>12. MarkedPaid(l)' + Unmarked(p, l)' + collected[l] <= MarkedPaid(l) + Unmarked(p, l) + collected'[l]
  <2>1. Unmarked(p, l)' \in Nat
    BY <1>1 DEF LoanNumbers
  <2> QED BY <1>2, <1>8, <1>9, <1>11, <2>1
<1> QED BY <1>1, <1>2, <1>6, <1>8, <1>10, <1>11, <1>12, RepaymentClaims

\* The installments it lists are worth no more than it took.
LEMMA RepayListClaims ==
  ASSUME IInv, IInv', NEW l \in Applies, Claims(l), NEW p \in Repays, RepayList(p)
  PROVE  Claims(l)'
<1>1. LoanNumbers(l) /\ LoanNumbers(l)'
  BY BothNumbers
<1>2. loan' = loan /\ inst' = inst /\ sweep' = sweep /\ collected' = collected
  BY DEF RepayList, ledgerVars
<1>3. TypeOK /\ RepayInv(p) /\ p \in Calls /\ call[p].pc = "list"
  BY DEF IInv, Calls, RepayList
<1>4. PICK k \in Applies, c \in Nat : k = LoanOf(p) /\ call[p].of = <<k>> /\ Exists(k) /\ c = call[p].cents
  BY <1>3, LoanOfType, CallType DEF RepayInv
<1>5. /\ Moved(p) /\ call'[p].of = <<k>>
      /\ \/ call'[p].pc = "mark" /\ call'[p].cover = Cover(k, c)
         \/ call'[p].pc = "failed"
  BY <1>4, RepayListEffect
<1>6. OnlyMarked(l) /\ MarkedPaid(l)' = MarkedPaid(l) /\ (Exists(l)' => Exists(l))
  BY <1>2 DEF OnlyMarked, MarkedPaid, Exists
<1>7. /\ MarkedPaid(l) \in Nat /\ collected[l] \in Nat /\ (Exists(l) => loan[l].paid \in Nat)
      /\ Unmarked(p, l) \in Nat /\ Unmarked(p, l)' \in Nat
  BY <1>1 DEF LoanNumbers
<1>8. Uncounted(p, l) = 0 /\ Uncounted(p, l)' = 0
  BY <1>3, <1>5 DEF Uncounted
<1>9. Unmarked(p, l)' <= Unmarked(p, l)
  <2>1. CASE l = k /\ call'[p].pc = "mark"
    <3>1. Unmarked(p, l) = c
      BY <1>3, <1>4, <2>1 DEF Unmarked
    <3>2. Unmarked(p, l)' = Worth(inst[l], Cover(l, c))
      BY <1>2, <1>5, <2>1 DEF Unmarked
    <3> QED BY <1>3, <3>1, <3>2, CoverRule
  <2>2. CASE ~(l = k /\ call'[p].pc = "mark")
    <3>1. call'[p].of # <<l>> \/ call'[p].pc = "failed"
      BY <1>5, <2>2
    <3> QED BY <1>7, <3>1, NoClaim
  <2> QED BY <2>1, <2>2
<1>10. /\ Exists(l) => loan'[l].paid + Uncounted(p, l)' + collected[l]
                        <= loan[l].paid + Uncounted(p, l) + collected'[l]
       /\ MarkedPaid(l)' + Unmarked(p, l)' + collected[l] <= MarkedPaid(l) + Unmarked(p, l) + collected'[l]
       /\ Exists(l) => loan'[l].paid \in Nat
  BY <1>2, <1>6, <1>7, <1>8, <1>9
<1> QED BY <1>1, <1>2, <1>5, <1>6, <1>10, RepaymentClaims

\* Marking installments of loan k moves what they are worth to the marked ones.
LEMMA MarkMoves ==
  ASSUME IInv, IInv', NEW k \in Applies, NEW S, MarkPaid(k, S)
  PROVE  /\ \A l \in Applies : OnlyMarked(l)
         /\ \A l \in Applies \ {k} : MarkedPaid(l)' = MarkedPaid(l)
         /\ MarkedPaid(k)' = MarkedPaid(k) + Worth(inst[k], S)
<1>1. LoanNumbers(k) /\ LoanNumbers(k)' /\ TypeOK
  BY BothNumbers DEF IInv
<1>2. /\ \A l \in Applies \ {k} : inst'[l] = inst[l]
      /\ DOMAIN inst'[k] = DOMAIN inst[k]
      /\ \A i \in DOMAIN inst[k] : /\ inst'[k][i].due = inst[k][i].due
                                   /\ inst'[k][i].paid = (i \in S \/ inst[k][i].paid)
  BY <1>1, MarkEffect
<1>3. \A i \in DOMAIN inst[k] : /\ inst'[k][i].due = inst[k][i].due
                                /\ inst'[k][i].paid <=> (i \in S \/ inst[k][i].paid)
  BY <1>2, Zenon
<1>4. OnlyMarked(k)
  BY <1>2, <1>3 DEF OnlyMarked
<1>5. \A l \in Applies \ {k} : OnlyMarked(l) /\ MarkedPaid(l)' = MarkedPaid(l)
  BY <1>2 DEF OnlyMarked, MarkedPaid
<1>6. PaidPart(inst'[k]) = PaidPart(inst[k]) + Worth(inst[k], S)
  BY <1>1, <1>2, <1>3, MarkRule DEF LoanNumbers
<1> QED BY <1>4, <1>5, <1>6 DEF MarkedPaid

\* A repayment marks no more than it has listed.
LEMMA RepayMarkClaims ==
  ASSUME IInv, IInv', NEW l \in Applies, Claims(l), NEW p \in Repays, RepayMark(p)
  PROVE  Claims(l)'
<1>1. LoanNumbers(l) /\ LoanNumbers(l)'
  BY BothNumbers
<1>2. loan' = loan /\ sweep' = sweep /\ collected' = collected
  BY DEF RepayMark, ledgerVars
<1>3. TypeOK /\ RepayInv(p) /\ p \in Calls /\ call[p].pc = "mark" /\ Goto(p, "close")
  BY DEF IInv, Calls, RepayMark
<1>4. PICK k \in Applies : k = LoanOf(p) /\ call[p].of = <<k>> /\ Exists(k)
  BY <1>3, LoanOfType
<1>5. PICK S \in SUBSET call[p].cover : MarkPaid(k, S)
  BY <1>4 DEF RepayMark
<1>6. Moved(p) /\ call'[p].pc = "close"
  BY <1>3, GotoEffect DEF CallSteps
<1>7. /\ OnlyMarked(l) /\ (l # k => MarkedPaid(l)' = MarkedPaid(l))
      /\ MarkedPaid(k)' = MarkedPaid(k) + Worth(inst[k], S)
  BY <1>5, MarkMoves
<1>8. /\ MarkedPaid(l) \in Nat /\ collected[l] \in Nat /\ (Exists(l) => loan[l].paid \in Nat)
      /\ Unmarked(p, l) \in Nat /\ Rows(inst[l])
  BY <1>1 DEF LoanNumbers
<1>9. Uncounted(p, l) = 0 /\ Uncounted(p, l)' = 0 /\ Unmarked(p, l)' = 0
  BY <1>3, <1>6, NoClaim DEF Uncounted
<1>10. MarkedPaid(l)' <= MarkedPaid(l) + Unmarked(p, l) /\ MarkedPaid(l)' \in Nat
  <2>1. MarkedPaid(l)' \in Nat
    BY <1>1 DEF LoanNumbers
  <2>2. CASE l # k
    BY <1>7, <1>8, <2>1, <2>2
  <2>3. CASE l = k
    <3>1. Unmarked(p, l) = Worth(inst[l], call[p].cover)
      BY <1>3, <1>4, <2>3 DEF Unmarked
    <3>2. PICK C : C = call[p].cover
      OBVIOUS
    <3>3. Worth(inst[l], S) <= Worth(inst[l], C) /\ Worth(inst[l], S) \in Nat
      BY <1>5, <1>8, <3>2, WorthPart, WorthType
    <3> QED BY <1>7, <1>8, <2>1, <2>3, <3>1, <3>2, <3>3
  <2> QED BY <2>2, <2>3
<1>11. Exists(l)' => Exists(l)
  BY <1>2 DEF Exists
<1>12. /\ Exists(l) => loan'[l].paid + Uncounted(p, l)' + collected[l]
                        <= loan[l].paid + Uncounted(p, l) + collected'[l]
       /\ MarkedPaid(l)' + Unmarked(p, l)' + collected[l] <= MarkedPaid(l) + Unmarked(p, l) + collected'[l]
       /\ Exists(l) => loan'[l].paid \in Nat
  BY <1>2, <1>8, <1>9, <1>10
<1> QED BY <1>1, <1>2, <1>6, <1>7, <1>11, <1>12, RepaymentClaims

\* A step of the worker, seen from loan l.
LEMMA WorkerClaims ==
  ASSUME IInv, NEW l \in Applies, LoanNumbers(l), LoanNumbers(l)', Claims(l), call' = call, OnlyMarked(l),
         Exists(l)' => Exists(l),
         Exists(l) => loan'[l].paid + SweepingCents(l)' + collected[l]
                        <= loan[l].paid + SweepingCents(l) + collected'[l],
         MarkedPaid(l)' + SweepUnmarked(l)' + collected[l]
           <= MarkedPaid(l) + SweepUnmarked(l) + collected'[l]
  PROVE  Claims(l)'
<1>1. \A p \in Repays : Uncounted(p, l)' <= Uncounted(p, l) /\ Unmarked(p, l)' <= Unmarked(p, l)
  BY CallClaims
<1> QED BY <1>1, ClaimsStay

\* The worker claims what the ledger took for an installment.
LEMMA SweepCollectClaims ==
  ASSUME IInv, IInv', NEW l \in Applies, Claims(l), SweepCollect
  PROVE  Claims(l)'
<1>1. LoanNumbers(l) /\ LoanNumbers(l)'
  BY BothNumbers
<1>2. loan' = loan /\ inst' = inst /\ call' = call /\ lent' = lent /\ sweep.pc = "collect"
  BY DEF SweepCollect
<1>3. PICK x \in sweep.todo, o \in CallOutcomes :
       /\ IF Applied(o) THEN Collect(x[1], inst[x[1]][x[2]].due)
                        ELSE UNCHANGED <<bal, collected, returned>>
       /\ sweep' = IF Confirmed(o) THEN [pc |-> "mark", todo |-> sweep.todo \ {x}, at |-> x]
                                   ELSE Continue(sweep.todo \ {x})
  BY DEF SweepCollect
<1>4. TypeOK /\ IsInstallment(x)
  BY DEF IInv, SweepInv
<1>5. PICK k \in Applies, c \in Nat :
        k = x[1] /\ x[2] \in DOMAIN inst[k] /\ Exists(k) /\ c = inst[x[1]][x[2]].due
  BY <1>4, InstallmentRule
<1>6. \/ collected' = [collected EXCEPT ![k] = collected[k] + c]
      \/ ~Applied(o) /\ collected' = collected
  BY <1>2, <1>3, <1>4, <1>5, CollectTakes DEF Takes
<1>7. collected \in [Applies -> Nat]
  BY <1>4 DEF TypeOK
<1>8. /\ MarkedPaid(l) \in Nat /\ collected[l] \in Nat /\ (Exists(l) => loan[l].paid \in Nat)
      /\ SweepingCents(l)' \in Nat /\ SweepUnmarked(l)' \in Nat /\ Rows(inst[l])
  BY <1>1 DEF LoanNumbers
<1>9. SweepingCents(l) = 0 /\ SweepUnmarked(l) = 0
  BY <1>2 DEF SweepingCents, SweepUnmarked
<1>10. SweepingCents(l)' + collected[l] <= collected'[l] /\ SweepUnmarked(l)' + collected[l] <= collected'[l]
  <2>1. CASE ~Confirmed(o) \/ l # k
    <3>1. SweepingCents(l)' = 0 /\ SweepUnmarked(l)' = 0
      <4>1. CASE ~Confirmed(o)
        <5>1. sweep'.pc \in {"idle", "collect"}
          BY <1>3, <4>1, ContinueEffect
        <5> QED BY <5>1 DEF SweepingCents, SweepUnmarked
      <4>2. CASE Confirmed(o) /\ l # k
        <5>1. sweep'.at[1] # l
          BY <1>3, <1>5, <4>2
        <5> QED BY <5>1 DEF SweepingCents, SweepUnmarked
      <4> QED BY <2>1, <4>1, <4>2
    <3>2. collected[l] <= collected'[l]
      BY <1>5, <1>6, <1>7
    <3> QED BY <1>8, <3>1, <3>2
  <2>2. CASE Confirmed(o) /\ l = k
    <3>1. collected'[l] = collected[l] + c
      BY <1>6, <1>7, <2>2, OutcomeRule
    <3>2. sweep'.pc = "mark" /\ sweep'.at = x
      BY <1>3, <2>2
    <3>3. SweepingCents(l)' = c
      BY <1>2, <1>5, <2>2, <3>2 DEF SweepingCents
    <3>4. SweepUnmarked(l)' = Worth(inst[l], {x[2]})
      BY <1>2, <1>5, <2>2, <3>2 DEF SweepUnmarked
    <3>5. Worth(inst[l], {x[2]}) <= c
      BY <1>5, <1>8, <2>2, WorthOfFew
    <3> QED BY <1>8, <3>1, <3>3, <3>4, <3>5
  <2> QED BY <2>1, <2>2
<1>11. OnlyMarked(l) /\ MarkedPaid(l)' = MarkedPaid(l) /\ (Exists(l)' => Exists(l))
  BY <1>2 DEF OnlyMarked, MarkedPaid, Exists
<1>12. /\ Exists(l) => loan'[l].paid + SweepingCents(l)' + collected[l]
                        <= loan[l].paid + SweepingCents(l) + collected'[l]
       /\ MarkedPaid(l)' + SweepUnmarked(l)' + collected[l]
           <= MarkedPaid(l) + SweepUnmarked(l) + collected'[l]
  <2>1. collected'[l] \in Nat
    BY <1>1 DEF LoanNumbers
  <2> QED BY <1>2, <1>8, <1>9, <1>10, <1>11, <2>1
<1> QED BY <1>1, <1>2, <1>11, <1>12, WorkerClaims

\* It marks the installment it collected.
LEMMA SweepMarkClaims ==
  ASSUME IInv, IInv', NEW l \in Applies, Claims(l), SweepMark
  PROVE  Claims(l)'
<1>1. LoanNumbers(l) /\ LoanNumbers(l)'
  BY BothNumbers
<1>2. loan' = loan /\ call' = call /\ collected' = collected /\ sweep.pc = "mark"
  BY DEF SweepMark, ledgerVars
<1>3. CASE inst' = inst /\ sweep' = Continue(sweep.todo)
  BY <1>1, <1>2, <1>3, ContinueEffect, QuietStep DEF Exists
<1>4. CASE /\ MarkPaid(sweep.at[1], {sweep.at[2]})
           /\ sweep' = [pc |-> "increment", todo |-> sweep.todo, at |-> sweep.at]
  <2>1. IsInstallment(sweep.at)
    BY <1>2 DEF IInv, SweepInv
  <2>2. PICK k \in Applies, S \in {{sweep.at[2]}} : k = sweep.at[1] /\ sweep.at[2] \in DOMAIN inst[k]
    BY <2>1, InstallmentRule
  <2>3. /\ OnlyMarked(l) /\ OnlyMarked(k) /\ (l # k => MarkedPaid(l)' = MarkedPaid(l))
        /\ MarkedPaid(k)' = MarkedPaid(k) + Worth(inst[k], S)
    BY <1>4, <2>2, MarkMoves
  <2>4. sweep'.pc = "increment" /\ sweep'.at = sweep.at
    BY <1>4
  <2>5. SweepUnmarked(l)' = 0 /\ SweepUnmarked(l) = (IF l = k THEN Worth(inst[l], S) ELSE 0)
    BY <1>2, <2>2, <2>4 DEF SweepUnmarked
  <2>6. SweepingCents(l)' = SweepingCents(l)
    BY <1>2, <2>2, <2>3, <2>4 DEF SweepingCents, OnlyMarked
  <2>7. /\ MarkedPaid(l) \in Nat /\ collected[l] \in Nat /\ (Exists(l) => loan[l].paid \in Nat)
        /\ SweepingCents(l) \in Nat /\ SweepUnmarked(l) \in Nat
    BY <1>1 DEF LoanNumbers
  <2>8. Exists(l)' => Exists(l)
    BY <1>2 DEF Exists
  <2>9. MarkedPaid(l)' + SweepUnmarked(l)' = MarkedPaid(l) + SweepUnmarked(l)
    BY <2>3, <2>5, <2>7
  <2>10. /\ Exists(l) => loan'[l].paid + SweepingCents(l)' + collected[l]
                          <= loan[l].paid + SweepingCents(l) + collected'[l]
         /\ MarkedPaid(l)' + SweepUnmarked(l)' + collected[l]
             <= MarkedPaid(l) + SweepUnmarked(l) + collected'[l]
    BY <1>2, <2>6, <2>7, <2>9
  <2> QED BY <1>1, <1>2, <2>3, <2>8, <2>10, WorkerClaims
<1> QED BY <1>3, <1>4 DEF SweepMark

\* It adds to the total what it has claimed.
LEMMA SweepIncrementClaims ==
  ASSUME IInv, IInv', NEW l \in Applies, Claims(l), SweepIncrement
  PROVE  Claims(l)'
<1>1. LoanNumbers(l) /\ LoanNumbers(l)'
  BY BothNumbers
<1>2. /\ inst' = inst /\ call' = call /\ collected' = collected /\ sweep.pc = "increment"
      /\ sweep' = Continue(sweep.todo)
  BY DEF SweepIncrement, ledgerVars
<1>3. sweep'.pc \in {"idle", "collect"}
  BY <1>2, ContinueEffect
<1>4. CASE loan' = loan
  BY <1>1, <1>2, <1>3, <1>4, QuietStep DEF Exists
<1>5. CASE IncrementPaid(sweep.at[1], inst[sweep.at[1]][sweep.at[2]].due)
  <2>1. IsInstallment(sweep.at) /\ TypeOK
    BY <1>2 DEF IInv, SweepInv
  <2>2. PICK k \in Applies, c \in Nat :
          k = sweep.at[1] /\ Exists(k) /\ c = inst[sweep.at[1]][sweep.at[2]].due
    BY <2>1, InstallmentRule
  <2>3. (\A j \in Applies \ {k} : loan'[j] = loan[j]) /\ loan'[k].paid = loan[k].paid + c
    BY <1>5, <2>1, <2>2, IncrementEffect
  <2>4. SweepingCents(l)' = 0 /\ SweepUnmarked(l)' = 0
    BY <1>3 DEF SweepingCents, SweepUnmarked
  <2>5. SweepingCents(l) = (IF l = k THEN c ELSE 0)
    BY <1>2, <2>2 DEF SweepingCents
  <2>6. /\ MarkedPaid(l) \in Nat /\ collected[l] \in Nat /\ (Exists(l) => loan[l].paid \in Nat)
        /\ SweepUnmarked(l) \in Nat
    BY <1>1 DEF LoanNumbers
  <2>7. OnlyMarked(l) /\ MarkedPaid(l)' = MarkedPaid(l)
    BY <1>2 DEF OnlyMarked, MarkedPaid
  <2>8. Exists(l)' => Exists(l)
    BY <2>2, <2>3 DEF Exists
  <2>9. Exists(l) => loan'[l].paid + SweepingCents(l)' + collected[l]
                          <= loan[l].paid + SweepingCents(l) + collected'[l]
    <3>1. CASE l = k
      BY <1>2, <2>2, <2>3, <2>4, <2>5, <2>6, <3>1
    <3>2. CASE l # k
      BY <1>2, <2>3, <2>4, <2>5, <2>6, <3>2
    <3> QED BY <3>1, <3>2
  <2>10. MarkedPaid(l)' + SweepUnmarked(l)' + collected[l]
             <= MarkedPaid(l) + SweepUnmarked(l) + collected'[l]
    BY <1>2, <2>4, <2>6, <2>7
  <2> QED BY <1>1, <1>2, <2>7, <2>8, <2>9, <2>10, WorkerClaims
<1> QED BY <1>4, <1>5 DEF SweepIncrement

\* The rest of the worker's steps, the clock and stuttering claim nothing.
LEMMA RestClaims ==
  ASSUME IInv, IInv', NEW l \in Applies, Claims(l), SweepList \/ SweepCrash \/ MonthPasses \/ UNCHANGED vars
  PROVE  Claims(l)'
<1>1. LoanNumbers(l) /\ LoanNumbers(l)'
  BY BothNumbers
<1>2. loan' = loan /\ inst' = inst /\ call' = call /\ collected' = collected
  BY DEF SweepList, SweepCrash, MonthPasses, vars, ledgerVars
<1>3. sweep' = sweep \/ sweep'.pc \in {"idle", "collect"}
  BY DEF SweepList, SweepCrash, MonthPasses, vars, Idle
<1> QED BY <1>1, <1>2, <1>3, QuietStep DEF Exists

\* Nothing is claimed at the start.
LEMMA InitClaims ==
  ASSUME Init, NEW l \in Applies
  PROVE  Claims(l)
<1>1. IInv
  BY InitIInv
<1>2. LoanNumbers(l)
  BY <1>1, ClaimTypes DEF Numbers
<1>3. ~Exists(l) /\ SweepUnmarked(l) = 0
  BY DEF Init, Exists, SweepUnmarked, Idle
<1>4. MarkedPaid(l) = 0
  <2>1. inst[l] = <<>>
    BY DEF Init
  <2>2. \A i \in DOMAIN inst[l] : ~inst[l][i].paid
    BY <2>1
  <2> QED BY <1>2, <2>2, WorthOfFew DEF MarkedPaid, LoanNumbers
<1>5. PICK f : f = [p \in Repays |-> Unmarked(p, l)]
  OBVIOUS
<1>6. \A p \in Repays : f[p] = 0
  <2>1. \A p \in Repays : call[p].pc = "new"
    BY DEF Init
  <2>2. \A p \in Repays : Unmarked(p, l) = 0
    BY <2>1 DEF Unmarked
  <2> QED BY <1>5, <2>2
<1>7. IsFiniteSet(Repays) /\ Cardinality(Repays) \in Nat
  BY FiniteAssumption, FS_CardinalityType
<1>8. SumFunctionOnSet(f, Repays) = Cardinality(Repays) * 0
  BY <1>6, <1>7, SumConstant
<1>9. MarkedPaid(l) + SumFunctionOnSet(f, Repays) + SweepUnmarked(l) <= collected[l]
  BY <1>2, <1>3, <1>4, <1>7, <1>8 DEF LoanNumbers
<1> QED BY <1>3, <1>5, <1>9 DEF Claims, SumOver

\* Claims stay covered along every behaviour.
THEOREM ClaimsAreCovered == Spec => [](\A l \in Applies : Claims(l))
<1>1. Init => \A l \in Applies : Claims(l)
  BY InitClaims
<1>2. IInv /\ IInv' /\ (\A l \in Applies : Claims(l)) /\ [Next]_vars => (\A l \in Applies : Claims(l))'
  <2> SUFFICES ASSUME IInv, IInv', NEW l \in Applies, Claims(l), [Next]_vars PROVE Claims(l)'
    OBVIOUS
  <2>1. ASSUME NEW a \in Applies, Apply(a) \/ Disburse(a) \/ CreateLoan(a) \/ CreateInstallments(a)
        PROVE  Claims(l)'
    BY <2>1, ApplyClaims, CreateLoanClaims, CreateInstallmentsClaims
  <2>2. ASSUME NEW p \in Repays, \/ Repay(p) \/ RepayCollect(p) \/ RepayIncrement(p)
                                 \/ RepayList(p) \/ RepayMark(p) \/ RepayClose(p)
        PROVE  Claims(l)'
    BY <2>2, RepayClaims, RepayCollectClaims, RepayIncrementClaims, RepayListClaims, RepayMarkClaims
  <2> QED BY <2>1, <2>2, SweepCollectClaims, SweepMarkClaims, SweepIncrementClaims, RestClaims DEF Next
<1> QED BY <1>1, <1>2, Invariance, PTL DEF Spec

\* BooksClaimWhatWasTaken: neither the total of a loan nor its marked installments
\* claim more than the ledger has taken for it.
THEOREM BooksClaimNoMore == Spec => []BooksClaimWhatWasTaken
<1>1. IInv /\ (\A l \in Applies : Claims(l)) => BooksClaimWhatWasTaken
  <2> SUFFICES ASSUME IInv, NEW l \in Applies, Claims(l)
               PROVE  /\ Exists(l) => ClaimedPaid(l) <= collected[l]
                      /\ MarkedPaid(l) <= collected[l]
    BY DEF BooksClaimWhatWasTaken
  <2>1. LoanNumbers(l)
    BY ClaimTypes DEF Numbers
  <2>2. PICK f : f = [p \in Repays |-> Unmarked(p, l)]
    OBVIOUS
  <2>3. \A p \in Repays : f[p] \in Nat
    BY <2>1, <2>2 DEF LoanNumbers
  <2>4. 0 <= SumFunctionOnSet(f, Repays) /\ SumFunctionOnSet(f, Repays) \in Int
    <3>1. (\A p \in Repays : f[p] \in Int) /\ Repays \in SUBSET Repays
      BY <2>3
    <3> QED BY <2>3, <3>1, FiniteAssumption, SumPart, SumType
  <2>5. MarkedPaid(l) + SumFunctionOnSet(f, Repays) + SweepUnmarked(l) <= collected[l]
    BY <2>2 DEF Claims, SumOver
  <2>6. MarkedPaid(l) <= collected[l]
    BY <2>1, <2>4, <2>5 DEF LoanNumbers
  <2> QED BY <2>6 DEF Claims
<1> QED BY <1>1, Invariance, ClaimsAreCovered, PTL
=============================================================================
