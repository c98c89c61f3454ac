------------------------- MODULE PeerTransferProofs -------------------------
(***************************************************************************)
(* Proofs about PeerTransfer for any users, requests, items and amounts.   *)
(***************************************************************************)
EXTENDS PeerTransfer, SumFacts, TLAPS

\* What the forms guarantee of an item: somebody else gets something.
LEMMA ItemType ==
  ASSUME NEW r \in Requests
  PROVE  /\ Actor[r] \in Users /\ Len(Items[r]) \in Nat /\ DOMAIN Items[r] = 1 .. Len(Items[r])
         /\ IsTransfer(r) => Len(Items[r]) >= 1
         /\ ~IsTransfer(r) => Len(Items[r]) = 0
         /\ \A i \in DOMAIN Items[r] : /\ Items[r][i].to \in Users /\ Items[r][i].to # Actor[r]
                                       /\ Items[r][i].amount \in Nat \ {0}
<1>1. Items[r] \in Seq([to : Users, amount : Nat \ {0}]) /\ Actor[r] \in Users
  BY ItemAssumption, ActorAssumption
<1>2. Len(Items[r]) \in Nat /\ DOMAIN Items[r] = 1 .. Len(Items[r])
  BY <1>1
<1>3. \A i \in DOMAIN Items[r] : Items[r][i] \in [to : Users, amount : Nat \ {0}]
  <2>1. \A R, q : q \in Seq(R) => \A i \in 1 .. Len(q) : q[i] \in R
    OBVIOUS
  <2> QED BY <1>1, <1>2, <2>1
<1>4. WellFormed(r)
  BY FormAssumption
<1>5. /\ IsTransfer(r) => Len(Items[r]) >= 1
      /\ ~IsTransfer(r) => Len(Items[r]) = 0
  <2>1. CASE Kind[r] = "p2p"
    BY <2>1, <1>4 DEF WellFormed, IsTransfer
  <2>2. CASE Kind[r] = "batch"
    <3>1. Len(Items[r]) \in 2 .. 10
      BY <2>2, <1>4 DEF WellFormed
    <3> QED BY <3>1, <2>2 DEF IsTransfer
  <2>3. CASE Kind[r] \notin {"p2p", "batch"}
    <3>1. Items[r] = <<>>
      BY <2>3, <1>4 DEF WellFormed
    <3> QED BY <3>1, <2>3 DEF IsTransfer
  <2> QED BY <2>1, <2>2, <2>3
<1>6. \A i \in DOMAIN Items[r] : Items[r][i].to # Actor[r]
  BY <1>4 DEF WellFormed
<1> QED BY <1>1, <1>2, <1>3, <1>5, <1>6

\* The amounts of a request are positive numbers and so is their total.
LEMMA AmountsType ==
  ASSUME NEW r \in Requests
  PROVE  /\ IsFiniteSet(DOMAIN Items[r])
         /\ \A i \in DOMAIN Items[r] : Amounts(r)[i] \in Nat /\ Amounts(r)[i] = Items[r][i].amount
         /\ \A s \in SUBSET DOMAIN Items[r] : SumFunctionOnSet(Amounts(r), s) \in Nat
         /\ TotalCents(r) \in Nat
<1>1. IsFiniteSet(DOMAIN Items[r])
  <2>1. PICK n \in Nat : n = Len(Items[r]) /\ DOMAIN Items[r] = 1 .. n
    BY ItemType
  <2> QED BY <2>1, FS_Interval
<1>2. \A i \in DOMAIN Items[r] : Amounts(r)[i] \in Nat /\ Amounts(r)[i] = Items[r][i].amount
  BY ItemType DEF Amounts
<1>3. ASSUME NEW s \in SUBSET DOMAIN Items[r] PROVE SumFunctionOnSet(Amounts(r), s) \in Nat
  <2>1. IsFiniteSet(s)
    BY <1>1, FS_Subset
  <2>2. SumFunctionOnSet(Amounts(r), s) \in Int
    BY <1>2, <2>1, SumType
  <2>3. 0 <= SumFunctionOnSet(Amounts(r), s)
    BY <1>1, <1>2, SumPart
  <2> QED BY <2>2, <2>3
<1>4. TotalCents(r) \in Nat
  BY <1>3 DEF TotalCents
<1> QED BY <1>1, <1>2, <1>3, <1>4

\* The accounts of two users, and the capital, are different accounts.
LEMMA AccountsDiffer ==
  /\ OverdraftCapital \in Accounts /\ World \notin Accounts
  /\ \A u \in Users : Main(u) \in Accounts /\ Main(u) # OverdraftCapital
  /\ \A u, v \in Users : Main(u) = Main(v) => u = v
  /\ \A a \in Accounts : a = OverdraftCapital \/ \E u \in Users : a = Main(u)
BY DEF Accounts, Main, OverdraftCapital, World

\* What the ledger holds, all accounts together.
WalletsOf(b) == [u \in Users |-> b[Main(u)]]
Total(b) == SumFunctionOnSet(WalletsOf(b), Users) + b[OverdraftCapital]

\* A covered posting between two accounts.
Posting(b, c) ==
  \E src \in Accounts, dst \in Accounts, n \in Nat :
    src # dst /\ b[src] >= n /\ c = Send(b, src, dst, n)

\* What a posting does to the balances.
LEMMA SendEffect ==
  ASSUME NEW b \in [Accounts -> Nat], NEW src \in Accounts, NEW dst \in Accounts, NEW n \in Nat,
         src # dst, b[src] >= n, NEW c, c = Send(b, src, dst, n)
  PROVE  /\ c \in [Accounts -> Nat] /\ c[src] = b[src] - n /\ c[dst] = b[dst] + n
         /\ \A a \in Accounts \ {src, dst} : c[a] = b[a]
<1>1. c = [a \in Accounts |-> b[a] - (IF a = src THEN n ELSE 0) + (IF a = dst THEN n ELSE 0)]
  BY DEF Send
<1>2. \A a \in Accounts : b[a] \in Nat
  OBVIOUS
<1>3. \A a \in Accounts : c[a] = b[a] - (IF a = src THEN n ELSE 0) + (IF a = dst THEN n ELSE 0)
  BY <1>1
<1>4. \A a \in Accounts : c[a] \in Nat
  BY <1>2, <1>3
<1>5. c[src] = b[src] - n /\ c[dst] = b[dst] + n
  BY <1>2, <1>3
<1>6. \A a \in Accounts \ {src, dst} : c[a] = b[a]
  BY <1>2, <1>3
<1>7. c \in [Accounts -> Nat]
  BY <1>1, <1>4
<1> QED BY <1>5, <1>6, <1>7

\* A posting keeps the total.
LEMMA PostingKeepsTotal ==
  ASSUME NEW b \in [Accounts -> Nat], NEW c, Posting(b, c)
  PROVE  c \in [Accounts -> Nat] /\ Total(c) = Total(b)
<1>1. PICK src \in Accounts, dst \in Accounts, n \in Nat :
        src # dst /\ b[src] >= n /\ c = Send(b, src, dst, n)
  BY DEF Posting
<1>2. /\ c \in [Accounts -> Nat] /\ c[src] = b[src] - n /\ c[dst] = b[dst] + n
      /\ \A a \in Accounts \ {src, dst} : c[a] = b[a]
  BY <1>1, SendEffect
<1>3. \A u \in Users : /\ WalletsOf(b)[u] \in Int /\ WalletsOf(c)[u] \in Int
                       /\ WalletsOf(b)[u] = b[Main(u)] /\ WalletsOf(c)[u] = c[Main(u)]
  <2> TAKE u \in Users
  <2>1. Main(u) \in Accounts
    BY AccountsDiffer
  <2>2. b[Main(u)] \in Nat /\ c[Main(u)] \in Nat
    BY <1>2, <2>1
  <2>3. WalletsOf(b)[u] = b[Main(u)] /\ WalletsOf(c)[u] = c[Main(u)]
    BY DEF WalletsOf
  <2> QED BY <2>2, <2>3
<1>4. IsFiniteSet(Users)
  BY FiniteAssumption
<1>5. /\ SumFunctionOnSet(WalletsOf(b), Users) \in Int /\ SumFunctionOnSet(WalletsOf(c), Users) \in Int
      /\ b[OverdraftCapital] \in Nat /\ c[OverdraftCapital] \in Nat
      /\ b[src] \in Nat /\ b[dst] \in Nat
  BY <1>2, <1>3, <1>4, SumType, AccountsDiffer
<1>6. CASE src = OverdraftCapital
  <2>1. PICK v \in Users : dst = Main(v)
    BY <1>1, <1>6, AccountsDiffer
  <2>2. \A u \in Users \ {v} : WalletsOf(c)[u] = WalletsOf(b)[u]
    <3> TAKE u \in Users \ {v}
    <3>1. Main(u) \in Accounts \ {src, dst}
      BY <1>6, <2>1, AccountsDiffer
    <3> QED BY <1>2, <1>3, <3>1
  <2>3. SumFunctionOnSet(WalletsOf(c), Users) =
          SumFunctionOnSet(WalletsOf(b), Users) - WalletsOf(b)[v] + WalletsOf(c)[v]
    BY <1>3, <1>4, <2>2, SumChange
  <2> QED BY <1>2, <1>3, <1>5, <1>6, <2>1, <2>3 DEF Total
<1>7. CASE dst = OverdraftCapital
  <2>1. PICK v \in Users : src = Main(v)
    BY <1>1, <1>7, AccountsDiffer
  <2>2. \A u \in Users \ {v} : WalletsOf(c)[u] = WalletsOf(b)[u]
    <3> TAKE u \in Users \ {v}
    <3>1. Main(u) \in Accounts \ {src, dst}
      BY <1>7, <2>1, AccountsDiffer
    <3> QED BY <1>2, <1>3, <3>1
  <2>3. SumFunctionOnSet(WalletsOf(c), Users) =
          SumFunctionOnSet(WalletsOf(b), Users) - WalletsOf(b)[v] + WalletsOf(c)[v]
    BY <1>3, <1>4, <2>2, SumChange
  <2> QED BY <1>2, <1>3, <1>5, <1>7, <2>1, <2>3 DEF Total
<1>8. CASE src # OverdraftCapital /\ dst # OverdraftCapital
  <2>1. PICK v \in Users, w \in Users : src = Main(v) /\ dst = Main(w)
    BY <1>1, <1>8, AccountsDiffer
  <2>2. v # w /\ \A u \in Users \ {v, w} : WalletsOf(c)[u] = WalletsOf(b)[u]
    BY <1>1, <1>2, <1>3, <2>1, AccountsDiffer
  <2>3. WalletsOf(c)[v] = WalletsOf(b)[v] - n /\ WalletsOf(c)[w] = WalletsOf(b)[w] + n
    BY <1>2, <1>3, <2>1
  <2>4. SumFunctionOnSet(WalletsOf(c), Users) = SumFunctionOnSet(WalletsOf(b), Users)
    BY <1>3, <1>4, <2>2, <2>3, SumMove
  <2>5. c[OverdraftCapital] = b[OverdraftCapital]
    BY <1>2, <1>8, AccountsDiffer
  <2> QED BY <1>2, <2>4, <2>5 DEF Total
<1> QED BY <1>6, <1>7, <1>8

\* What is stored of a request.
LEMMA RequestType ==
  ASSUME IInv, NEW r \in Requests
  PROVE  /\ Actor[r] \in Users /\ Debtor(r) \in Users
         /\ pc[r] \in Steps /\ item[r] \in Nat \ {0} /\ read[r] \in OverdraftRows /\ amount[r] \in Int
         /\ posted[r] \subseteq DOMAIN Items[r] /\ read[r].accrued = 0
         /\ BookInv(r) /\ AmountInv(r)
         /\ IsTransfer(r) => /\ item[r] \in DOMAIN Items[r] /\ Recipient(r) \in Users
                             /\ Recipient(r) # Actor[r] /\ Cents(r) \in Nat \ {0}
<1>1. BookInv(r) /\ AmountInv(r) /\ TypeOK
  BY DEF IInv
<1>2. IsTransfer(r) => item[r] \in DOMAIN Items[r]
  BY <1>1, ItemType DEF BookInv
<1>3. IsTransfer(r) => /\ Recipient(r) \in Users /\ Recipient(r) # Actor[r] /\ Cents(r) \in Nat \ {0}
  BY <1>2, ItemType DEF Recipient, Cents
<1>4. Actor[r] \in Users /\ Debtor(r) \in Users
  BY <1>3, ItemType DEF Debtor
<1>5. pc[r] \in Steps /\ item[r] \in Nat \ {0} /\ read[r] \in OverdraftRows /\ amount[r] \in Int
  BY <1>1 DEF TypeOK
<1>6. posted[r] \subseteq DOMAIN Items[r]
  <2>1. PICK n \in 0 .. Len(Items[r]) : posted[r] = 1 .. n
    BY <1>1 DEF BookInv
  <2>2. 1 .. n \subseteq 1 .. Len(Items[r])
    BY ItemType
  <2> QED BY <2>1, <2>2, ItemType
<1> QED BY <1>1, <1>2, <1>3, <1>4, <1>5, <1>6 DEF AmountInv

\* An account the ledger lets pay holds the amount.
LEMMA CoveredSource ==
  ASSUME NEW a \in Accounts, NEW n, Covers(bal, a, n)
  PROVE  bal[a] >= n
BY AccountsDiffer DEF Covers

\* The credit of a cover that the ledger applied.
LEMMA CreditPosts ==
  ASSUME IInv, NEW r \in Requests, CreditCover(r)
  PROVE  bal' = bal \/ Posting(bal, bal')
<1>1. amount[r] \in Nat
  BY RequestType DEF AmountInv, CreditCover
<1>2. CASE bal' = bal
  BY <1>2
<1>3. CASE bal' # bal
  <2>1. Covers(bal, OverdraftCapital, amount[r]) /\ bal' = Send(bal, OverdraftCapital, Main(Actor[r]), amount[r])
    BY <1>3 DEF CreditCover, CreditFromOverdraft
  <2>2. /\ OverdraftCapital \in Accounts /\ Main(Actor[r]) \in Accounts
        /\ OverdraftCapital # Main(Actor[r])
    BY RequestType, AccountsDiffer
  <2>3. bal[OverdraftCapital] >= amount[r]
    BY <2>1, <2>2, CoveredSource
  <2> QED BY <1>1, <2>1, <2>2, <2>3 DEF Posting
<1> QED BY <1>2, <1>3

\* The debit of an item.
LEMMA DebitPosts ==
  ASSUME IInv, NEW r \in Requests, Debit(r)
  PROVE  bal' = bal \/ Posting(bal, bal')
<1>0. IsTransfer(r)
  BY RequestType DEF Debit, BookInv
<1>1. Cents(r) \in Nat /\ Recipient(r) \in Users /\ Actor[r] \in Users /\ Recipient(r) # Actor[r]
  BY <1>0, RequestType
<1>2. CASE bal' = bal
  BY <1>2
<1>3. CASE bal' # bal
  <2>1. Covers(bal, Main(Actor[r]), Cents(r)) /\ bal' = Send(bal, Main(Actor[r]), Main(Recipient(r)), Cents(r))
    BY <1>3 DEF Debit, DebitWallet
  <2>2. /\ Main(Recipient(r)) \in Accounts /\ Main(Actor[r]) \in Accounts
        /\ Main(Actor[r]) # Main(Recipient(r))
    BY <1>1, AccountsDiffer
  <2>3. bal[Main(Actor[r])] >= Cents(r)
    BY <2>1, <2>2, CoveredSource
  <2> QED BY <1>1, <2>1, <2>2, <2>3 DEF Posting
<1> QED BY <1>2, <1>3

\* The debit of a repayment.
LEMMA RepaymentPosts ==
  ASSUME IInv, NEW r \in Requests, DebitRepayment(r)
  PROVE  bal' = bal \/ Posting(bal, bal')
<1>1. amount[r] \in Nat
  BY RequestType DEF AmountInv, DebitRepayment
<1>2. CASE bal' = bal
  BY <1>2
<1>3. CASE bal' # bal
  <2>1. Covers(bal, Main(Debtor(r)), amount[r]) /\ bal' = Send(bal, Main(Debtor(r)), OverdraftCapital, amount[r])
    BY <1>3 DEF DebitRepayment, DebitToOverdraft
  <2>2. /\ OverdraftCapital \in Accounts /\ Main(Debtor(r)) \in Accounts
        /\ Main(Debtor(r)) # OverdraftCapital
    BY RequestType, AccountsDiffer
  <2>3. bal[Main(Debtor(r))] >= amount[r]
    BY <2>1, <2>2, CoveredSource
  <2> QED BY <1>1, <2>1, <2>2, <2>3 DEF Posting
<1> QED BY <1>2, <1>3

\* Every step leaves the ledger alone or makes one posting.
LEMMA EveryStepPosts ==
  ASSUME IInv, [Next]_vars
  PROVE  bal' = bal \/ Posting(bal, bal')
<1>1. CASE UNCHANGED vars
  BY <1>1 DEF vars
<1>2. ASSUME NEW r \in Requests, Serve(r) \/ Crash(r) PROVE bal' = bal \/ Posting(bal, bal')
  <2>1. CASE CreditCover(r)
    BY <2>1, CreditPosts
  <2>2. CASE Debit(r)
    BY <2>2, DebitPosts
  <2>3. CASE DebitRepayment(r)
    BY <2>3, RepaymentPosts
  <2>4. CASE \/ BeginTransfer(r) \/ UseCover(r) \/ SaveCover(r) \/ AutoRepayOnInflow(r)
             \/ Received(r) \/ Close(r) \/ BeginRepay(r) \/ SaveRepayment(r)
             \/ BeginOpt(r) \/ SaveOpt(r) \/ Crash(r)
    BY <2>4 DEF BeginTransfer, UseCover, SaveCover, AutoRepayOnInflow, Received, Close, BeginRepay,
                SaveRepayment, BeginOpt, SaveOpt, Crash
  <2> QED BY <1>2, <2>1, <2>2, <2>3, <2>4 DEF Serve
<1> QED BY <1>1, <1>2 DEF Next, AllServed

\* A limit is never negative.
LEMMA LimitType == ASSUME NEW u \in Users PROVE LimitFor(Profile[u]) \in Nat
<1>1. Profile[u] \in [blacklisted : BOOLEAN, approved : Int, trust : Int]
  BY ProfileAssumption
<1>2. PICK n \in Int : n = Profile[u].approved
  BY <1>1
<1>3. CASE n <= 0
  BY <1>2, <1>3 DEF LimitFor
<1>4. CASE n > 0
  <2>1. n * 10 \in Nat
    BY <1>4
  <2>2. PICK m \in Nat : m = (n * 10) \div 100
    BY <2>1, DivisionRule
  <2> QED BY <1>2, <2>2 DEF LimitFor, MinOf, OverdraftMaxLimitCents
<1> QED BY <1>3, <1>4

IsUsedRow(p, o, n) ==
  /\ p \in OverdraftRows /\ p.used = o.used + n /\ p.accrued = o.accrued /\ p.limit = o.limit
  /\ p.status = "used"
\* Entering a use.
LEMMA UsedRow ==
  ASSUME NEW o \in OverdraftRows, NEW q \in OverdraftRows, NEW n \in Nat, NEW p,
         p = UpdateUsedAndStatus(o, q, n)
  PROVE  IsUsedRow(p, o, n)
<1>1. PICK b \in BOOLEAN : b = (o.since \/ q.used = 0)
  BY DEF OverdraftRows
<1>2. p = [o EXCEPT !.used = o.used + n, !.status = "used", !.since = b]
  BY <1>1 DEF UpdateUsedAndStatus
<1>3. o.used + n \in Nat
  BY DEF OverdraftRows
<1>4. PICK m \in Nat : m = o.used + n
  BY <1>3
<1>5. p = [o EXCEPT !.used = m, !.status = "used", !.since = b]
  BY <1>2, <1>4
<1>6. p \in OverdraftRows /\ p.used = m /\ p.accrued = o.accrued /\ p.limit = o.limit
      /\ p.status = "used"
  BY <1>5, Zenon DEF OverdraftRows
<1> QED BY <1>4, <1>6 DEF IsUsedRow

IsRepaidRow(p, o, q, n) ==
  /\ p \in OverdraftRows /\ p.accrued = 0 /\ p.limit = o.limit /\ p.since = FALSE
  /\ p.used = q.used - (IF n <= q.used THEN n ELSE q.used)
  /\ p.status = IF p.used > 0 THEN "used" ELSE "active"
\* Entering a repayment.
LEMMA RepaidRow ==
  ASSUME NEW o \in OverdraftRows, NEW q \in OverdraftRows, NEW n \in Nat, NEW p,
         q.accrued = 0, p = UpdateRepaid(o, q, n)
  PROVE  IsRepaidRow(p, o, q, n)
<1>1. q.used \in Nat
  BY DEF OverdraftRows
<1>2. FeePart(q, n) = 0
  BY DEF FeePart, MinOf
<1>3. PICK m \in Nat : m = q.used - (IF n <= q.used THEN n ELSE q.used)
  BY <1>1
<1>4. AfterRepay(q, n) = [used |-> m, accrued |-> 0]
  BY <1>1, <1>2, <1>3 DEF AfterRepay, PrincipalPart, MinOf
<1>5. PICK st \in {"used", "active"} : st = IF m > 0 THEN "used" ELSE "active"
  OBVIOUS
<1>6. p = [o EXCEPT !.used = m, !.accrued = 0, !.since = FALSE, !.status = st]
  BY <1>4, <1>5 DEF UpdateRepaid
<1>7. /\ p \in OverdraftRows /\ p.accrued = 0 /\ p.limit = o.limit /\ p.since = FALSE
      /\ p.used = m /\ p.status = st
  BY <1>6 DEF OverdraftRows
<1> QED BY <1>3, <1>5, <1>7 DEF IsRepaidRow

IsOptedRow(p, o, n, st) ==
  /\ p \in OverdraftRows /\ p.used = o.used /\ p.accrued = o.accrued /\ p.limit = n
  /\ p.status = st /\ p.since = o.since
\* Opting in or out.
LEMMA OptedRow ==
  ASSUME NEW o \in OverdraftRows, NEW n \in Nat, NEW st \in {"active", "inactive"}, NEW p,
         p = CreateOrUpdate(o, n, st)
  PROVE  IsOptedRow(p, o, n, st)
BY DEF CreateOrUpdate, OverdraftRows, IsOptedRow

\* A step of request r leaves what is stored of the others.
Elsewhere(r) ==
  \A s \in Requests \ {r} :
    /\ pc'[s] = pc[s] /\ item'[s] = item[s] /\ read'[s] = read[s] /\ amount'[s] = amount[s]
    /\ posted'[s] = posted[s] /\ receipts'[s] = receipts[s]

\* So only the request that moves has to be looked at.
LEMMA FrameRule ==
  ASSUME IInv, NEW r \in Requests, Elsewhere(r), TypeOK', NoFees', BookInv(r)', AmountInv(r)'
  PROVE  IInv'
<1>1. ASSUME NEW s \in Requests \ {r} PROVE BookInv(s)' /\ AmountInv(s)'
  <2>1. BookInv(s) /\ AmountInv(s)
    BY DEF IInv
  <2>2. /\ pc'[s] = pc[s] /\ item'[s] = item[s] /\ read'[s] = read[s] /\ amount'[s] = amount[s]
        /\ posted'[s] = posted[s] /\ receipts'[s] = receipts[s]
    BY DEF Elsewhere
  <2>3. BookInv(s)'
    BY <2>1, <2>2 DEF BookInv, Paying
  <2>4. AmountInv(s)'
    BY <2>1, <2>2 DEF AmountInv
  <2> QED BY <2>3, <2>4
<1> QED BY <1>1 DEF IInv

\* Going to the next step.
LEMMA GotoEffect ==
  ASSUME TypeOK, NEW r \in Requests, NEW step \in Steps, Goto(r, step)
  PROVE  pc' \in [Requests -> Steps] /\ pc'[r] = step /\ \A s \in Requests \ {r} : pc'[s] = pc[s]
BY DEF TypeOK, Goto

\* Reading a row.
LEMMA ReadEffect ==
  ASSUME TypeOK, NoFees, NEW r \in Requests, NEW u \in Users, Read(r, u)
  PROVE  /\ read' \in [Requests -> OverdraftRows] /\ read'[r] = od[u] /\ read'[r].accrued = 0
         /\ read'[r] \in OverdraftRows
         /\ \A s \in Requests \ {r} : read'[s] = read[s]
BY DEF TypeOK, NoFees, Read

\* The ledger's balances keep their type.
LEMMA BalancesKeep ==
  ASSUME IInv, [Next]_vars
  PROVE  bal' \in [Accounts -> Nat]
<1>1. bal \in [Accounts -> Nat]
  BY DEF IInv, TypeOK
<1> QED BY <1>1, EveryStepPosts, PostingKeepsTotal

\* A repayment is cut to something that is not negative.
LEMMA RepayAmountType ==
  ASSUME NEW o \in OverdraftRows, NEW n \in Nat, o.accrued = 0
  PROVE  /\ RepayAmount(o, n) \in Nat /\ RepayAmount(o, n) <= o.used /\ RepayAmount(o, n) <= n
         /\ o.used > 0 /\ n > 0 => RepayAmount(o, n) >= 1
         /\ Owed(o) = o.used
BY DEF RepayAmount, Owed, MinOf, OverdraftRows

\* A transfer starts at its first item, with a shortfall or without one.
LEMMA BeginTransferKeeps ==
  ASSUME IInv, NEW r \in Requests, BeginTransfer(r)
  PROVE  IInv'
<1>0. TypeOK /\ NoFees /\ BookInv(r) /\ AmountInv(r) /\ IsTransfer(r) /\ pc[r] = "idle" /\ bal' = bal
  BY DEF IInv, BeginTransfer, Start
<1>1. /\ UNCHANGED <<bal, od, item, read, unbooked, posted, receipts, totals>>
      /\ apart' \in BOOLEAN
  BY <1>0 DEF BeginTransfer, Start, TypeOK
<1>2. PICK total \in Nat, have \in Nat : total = TotalCents(r) /\ have = bal[Main(Actor[r])]
  <2>1. Main(Actor[r]) \in Accounts
    BY RequestType, AccountsDiffer
  <2> QED BY <1>0, <2>1, AmountsType DEF TypeOK
<1>3. \/ Goto(r, "done") /\ amount' = amount
      \/ amount' = [amount EXCEPT ![r] = total - have] /\ have < total /\ Goto(r, "cover")
      \/ amount' = [amount EXCEPT ![r] = total - have] /\ Goto(r, "debit")
  BY <1>2 DEF BeginTransfer
<1>4. /\ pc' \in [Requests -> Steps] /\ \A s \in Requests \ {r} : pc'[s] = pc[s]
      /\ pc'[r] \in {"done", "cover", "debit"}
  BY <1>0, <1>3, GotoEffect DEF Steps
<1>5. /\ amount' \in [Requests -> Int] /\ \A s \in Requests \ {r} : amount'[s] = amount[s]
      /\ amount'[r] \in Int
      /\ pc'[r] = "cover" => amount'[r] >= 1
  <2>1. pc'[r] = "cover" => have < total /\ amount' = [amount EXCEPT ![r] = total - have]
    <3>1. Goto(r, "done") => pc'[r] = "done"
      BY <1>0, GotoEffect DEF Steps
    <3>2. Goto(r, "debit") => pc'[r] = "debit"
      BY <1>0, GotoEffect DEF Steps
    <3> QED BY <1>3, <3>1, <3>2
  <2>2. amount \in [Requests -> Int]
    BY <1>0 DEF TypeOK
  <2> QED BY <1>2, <1>3, <2>1, <2>2
<1>6. Elsewhere(r)
  BY <1>1, <1>4, <1>5 DEF Elsewhere
<1>7. TypeOK'
  BY <1>0, <1>1, <1>4, <1>5 DEF TypeOK
<1>8. NoFees'
  BY <1>0, <1>1 DEF NoFees
<1>9. BookInv(r)'
  BY <1>0, <1>1, <1>4 DEF BookInv, Paying
<1>10. AmountInv(r)'
  BY <1>0, <1>1, <1>4, <1>5 DEF AmountInv
<1> QED BY <1>6, <1>7, <1>8, <1>9, <1>10, FrameRule

\* UseCover reads the row and goes on or gives up.
LEMMA UseCoverKeeps ==
  ASSUME IInv, NEW r \in Requests, UseCover(r)
  PROVE  IInv'
<1>0. TypeOK /\ NoFees /\ BookInv(r) /\ AmountInv(r) /\ pc[r] = "cover" /\ Actor[r] \in Users
  BY RequestType DEF IInv, UseCover
<1>1. UNCHANGED <<bal, od, item, amount, unbooked, posted, receipts, totals, apart>>
  BY DEF UseCover
<1>2. Read(r, Actor[r]) /\ (Goto(r, "credit") \/ Goto(r, "done"))
  BY DEF UseCover
<1>3. /\ pc' \in [Requests -> Steps] /\ \A s \in Requests \ {r} : pc'[s] = pc[s]
      /\ pc'[r] \in {"done", "credit"}
  BY <1>0, <1>2, GotoEffect DEF Steps
<1>4. /\ read' \in [Requests -> OverdraftRows] /\ read'[r].accrued = 0
      /\ \A s \in Requests \ {r} : read'[s] = read[s]
  BY <1>0, <1>2, ReadEffect
<1>5. Elsewhere(r)
  BY <1>1, <1>3, <1>4 DEF Elsewhere
<1>6. TypeOK'
  BY <1>0, <1>1, <1>3, <1>4 DEF TypeOK
<1>7. NoFees'
  BY <1>0, <1>1 DEF NoFees
<1>8. BookInv(r)'
  BY <1>0, <1>1, <1>3 DEF BookInv, Paying
<1>9. AmountInv(r)'
  BY <1>0, <1>1, <1>3, <1>4 DEF AmountInv
<1> QED BY <1>5, <1>6, <1>7, <1>8, <1>9, FrameRule

\* The credit of a cover moves a positive amount and pays no item.
LEMMA CreditCoverKeeps ==
  ASSUME IInv, NEW r \in Requests, CreditCover(r)
  PROVE  IInv'
<1>0. TypeOK /\ NoFees /\ BookInv(r) /\ AmountInv(r) /\ pc[r] = "credit" /\ Actor[r] \in Users
  BY RequestType DEF IInv, CreditCover
<1>1. UNCHANGED <<od, item, read, amount, posted, receipts, totals, apart>>
  BY DEF CreditCover
<1>2. Goto(r, "covered") \/ Goto(r, "done")
  BY DEF CreditCover
<1>3. /\ pc' \in [Requests -> Steps] /\ \A s \in Requests \ {r} : pc'[s] = pc[s]
      /\ pc'[r] \in {"done", "covered"}
  BY <1>0, <1>2, GotoEffect DEF Steps
<1>4. unbooked' \in [Users -> Int]
  <2>1. unbooked \in [Users -> Int] /\ amount[r] \in Int
    BY <1>0 DEF TypeOK
  <2>2. unbooked' = unbooked \/ unbooked' = [unbooked EXCEPT ![Actor[r]] = unbooked[Actor[r]] + amount[r]]
    BY DEF CreditCover
  <2> QED BY <1>0, <2>1, <2>2
<1>5. bal' \in [Accounts -> Nat]
  BY BalancesKeep DEF Next, Serve
<1>6. Elsewhere(r)
  BY <1>1, <1>3 DEF Elsewhere
<1>7. TypeOK'
  BY <1>0, <1>1, <1>3, <1>4, <1>5 DEF TypeOK
<1>8. NoFees'
  BY <1>0, <1>1 DEF NoFees
<1>9. BookInv(r)'
  BY <1>0, <1>1, <1>3 DEF BookInv, Paying
<1>10. AmountInv(r)'
  BY <1>0, <1>1, <1>3 DEF AmountInv
<1> QED BY <1>6, <1>7, <1>8, <1>9, <1>10, FrameRule

\* Entering the use of a cover pays no item and accrues no fee.
LEMMA SaveCoverKeeps ==
  ASSUME IInv, NEW r \in Requests, SaveCover(r)
  PROVE  IInv'
<1>0. /\ TypeOK /\ NoFees /\ BookInv(r) /\ AmountInv(r) /\ pc[r] = "covered" /\ Actor[r] \in Users
      /\ read[r] \in OverdraftRows /\ amount[r] \in Nat
  BY RequestType DEF IInv, SaveCover, AmountInv
<1>1. UNCHANGED <<bal, item, read, amount, posted, receipts, totals, apart>>
  BY DEF SaveCover
<1>2. Goto(r, "debit") \/ Goto(r, "done")
  BY DEF SaveCover
<1>3. /\ pc' \in [Requests -> Steps] /\ \A s \in Requests \ {r} : pc'[s] = pc[s]
      /\ pc'[r] \in {"done", "debit"}
  BY <1>0, <1>2, GotoEffect DEF Steps
<1>4. unbooked' \in [Users -> Int]
  <2>1. unbooked \in [Users -> Int] /\ amount[r] \in Int
    BY <1>0 DEF TypeOK
  <2>2. unbooked' = unbooked \/ unbooked' = [unbooked EXCEPT ![Actor[r]] = unbooked[Actor[r]] - amount[r]]
    BY DEF SaveCover
  <2> QED BY <1>0, <2>1, <2>2
<1>5. od' \in [Users -> OverdraftRows] /\ NoFees'
  <2>1. od \in [Users -> OverdraftRows] /\ od[Actor[r]] \in OverdraftRows /\ od[Actor[r]].accrued = 0
    BY <1>0 DEF TypeOK, NoFees
  <2>2. PICK p : p = UpdateUsedAndStatus(od[Actor[r]], read[r], amount[r])
    OBVIOUS
  <2>3. p \in OverdraftRows /\ p.accrued = 0
    <3>1. PICK o \in OverdraftRows, q \in OverdraftRows, n \in Nat :
            o = od[Actor[r]] /\ q = read[r] /\ n = amount[r]
      BY <1>0, <2>1
    <3>2. p = UpdateUsedAndStatus(o, q, n)
      BY <2>2, <3>1
    <3>3. p \in OverdraftRows /\ p.accrued = o.accrued
      <4>1. IsUsedRow(p, o, n)
        BY <3>2, UsedRow
      <4> QED BY <4>1 DEF IsUsedRow
    <3> QED BY <2>1, <3>1, <3>3
  <2>4. od' = od \/ od' = [od EXCEPT ![Actor[r]] = p]
    BY <2>2 DEF SaveCover
  <2> QED BY <1>0, <2>1, <2>3, <2>4 DEF NoFees
<1>6. Elsewhere(r)
  BY <1>1, <1>3 DEF Elsewhere
<1>7. TypeOK'
  BY <1>0, <1>1, <1>3, <1>4, <1>5 DEF TypeOK
<1>9. BookInv(r)'
  BY <1>0, <1>1, <1>3 DEF BookInv, Paying
<1>10. AmountInv(r)'
  BY <1>0, <1>1, <1>3 DEF AmountInv
<1> QED BY <1>5, <1>6, <1>7, <1>9, <1>10, FrameRule

\* One number more.
LEMMA NextNumber ==
  ASSUME NEW n \in Nat
  PROVE  (1 .. n) \cup {n + 1} = 1 .. (n + 1) /\ n + 1 \notin 1 .. n
OBVIOUS

\* A debit pays the next item, or nothing; a receipt of a p2p sender stands for its only item.
LEMMA DebitKeeps ==
  ASSUME IInv, NEW r \in Requests, Debit(r)
  PROVE  IInv'
<1>0. /\ TypeOK /\ NoFees /\ BookInv(r) /\ AmountInv(r) /\ pc[r] = "debit" /\ Actor[r] \in Users
      /\ IsTransfer(r) /\ item[r] \in Nat \ {0}
  BY RequestType DEF IInv, Debit, BookInv
<1>1. UNCHANGED <<od, item, read, amount, unbooked, totals, apart>>
  BY DEF Debit
<1>2. PICK outcome \in CallOutcomes :
        /\ IF Applied(outcome) THEN posted' = [posted EXCEPT ![r] = posted[r] \cup {item[r]}]
                               ELSE UNCHANGED posted
        /\ \/ /\ Kind[r] = "p2p" /\ Confirmed(outcome)
              /\ receipts' = [receipts EXCEPT ![r] = receipts[r] \cup {SenderReceipt}]
           \/ UNCHANGED receipts
        /\ Goto(r, AfterDebit(outcome))
  BY DEF Debit
<1>3. AfterDebit(outcome) \in {"inflow", "done"} /\ (AfterDebit(outcome) = "inflow" <=> Confirmed(outcome))
  BY DEF AfterDebit
<1>4. /\ pc' \in [Requests -> Steps] /\ \A s \in Requests \ {r} : pc'[s] = pc[s]
      /\ pc'[r] \in {"inflow", "done"} /\ (pc'[r] = "inflow" <=> Confirmed(outcome))
  BY <1>0, <1>2, <1>3, GotoEffect DEF Steps
<1>5. PICK k \in Nat : k = item[r] - 1 /\ posted[r] = 1 .. k /\ k + 1 = item[r] /\ k + 1 <= Len(Items[r])
  <2>1. posted[r] = 1 .. (item[r] - 1) /\ item[r] \in 1 .. Len(Items[r]) /\ Len(Items[r]) \in Nat
    BY <1>0, ItemType DEF BookInv
  <2> QED BY <1>0, <2>1
<1>6. /\ posted' \in [Requests -> SUBSET Nat] /\ \A s \in Requests \ {r} : posted'[s] = posted[s]
      /\ posted'[r] = IF Applied(outcome) THEN 1 .. (k + 1) ELSE 1 .. k
  <2>1. posted \in [Requests -> SUBSET Nat]
    BY <1>0 DEF TypeOK
  <2>2. CASE Applied(outcome)
    <3>1. posted' = [posted EXCEPT ![r] = 1 .. (k + 1)]
      BY <1>2, <1>5, <2>2, NextNumber
    <3> QED BY <2>1, <2>2, <3>1
  <2>3. CASE ~Applied(outcome)
    BY <1>2, <1>5, <2>1, <2>3
  <2> QED BY <2>2, <2>3
<1>7. /\ receipts' \in [Requests -> SUBSET Nat] /\ \A s \in Requests \ {r} : receipts'[s] = receipts[s]
      /\ \/ receipts'[r] = receipts[r]
         \/ Kind[r] = "p2p" /\ Confirmed(outcome) /\ receipts'[r] = receipts[r] \cup {SenderReceipt}
  <2>1. receipts \in [Requests -> SUBSET Nat] /\ SenderReceipt \in Nat
    BY <1>0 DEF TypeOK, SenderReceipt
  <2> QED BY <1>2, <2>1
<1>8. bal' \in [Accounts -> Nat]
  BY BalancesKeep DEF Next, Serve
<1>9. Elsewhere(r)
  BY <1>1, <1>4, <1>6, <1>7 DEF Elsewhere
<1>10. TypeOK'
  BY <1>0, <1>1, <1>4, <1>6, <1>7, <1>8 DEF TypeOK
<1>11. NoFees'
  BY <1>0, <1>1 DEF NoFees
<1>12. Confirmed(outcome) => Applied(outcome)
  BY DEF Confirmed, Applied
<1>13. BookInv(r)'
  <2>1. Len(Items[r]) \in Nat /\ DOMAIN Items[r] = 1 .. Len(Items[r])
    BY ItemType
  <2>2. \E n \in 0 .. Len(Items[r]) : posted'[r] = 1 .. n
    <3>1. k \in 0 .. Len(Items[r]) /\ k + 1 \in 0 .. Len(Items[r])
      BY <1>5, <2>1
    <3> QED BY <1>6, <3>1
  <2>3. posted[r] \subseteq posted'[r]
    BY <1>5, <1>6
  <2>4. receipts[r] \subseteq {SenderReceipt} \cup posted[r]
    BY <1>0 DEF BookInv
  <2>5. SenderReceipt \notin receipts[r]
    <3>1. SenderReceipt \in receipts[r] => posted[r] = DOMAIN Items[r]
      BY <1>0 DEF BookInv
    <3>2. k + 1 \in DOMAIN Items[r] /\ k + 1 \notin posted[r]
      BY <1>5, <2>1
    <3> QED BY <3>1, <3>2
  <2>6. receipts'[r] \subseteq {SenderReceipt} \cup posted'[r]
    BY <1>7, <2>3, <2>4
  <2>7. SenderReceipt \in receipts'[r] => posted'[r] = DOMAIN Items[r]
    <3> SUFFICES ASSUME SenderReceipt \in receipts'[r] PROVE posted'[r] = DOMAIN Items[r]
      OBVIOUS
    <3>1. Kind[r] = "p2p" /\ Confirmed(outcome)
      BY <1>7, <2>5
    <3>2. Len(Items[r]) = 1
      BY <3>1, FormAssumption DEF WellFormed
    <3> QED BY <1>5, <1>6, <1>12, <2>1, <3>1, <3>2
  <2>8. pc'[r] = "inflow" => posted'[r] = 1 .. item'[r]
    BY <1>1, <1>4, <1>5, <1>6, <1>12
  <2>9. item'[r] \in 1 .. Len(Items[r])
    BY <1>0, <1>1 DEF BookInv
  <2> QED BY <1>0, <1>4, <2>2, <2>6, <2>7, <2>8, <2>9 DEF BookInv, Paying
<1>14. AmountInv(r)'
  BY <1>0, <1>1, <1>4 DEF AmountInv
<1> QED BY <1>9, <1>10, <1>11, <1>13, <1>14, FrameRule

\* The repayment of an inflow is cut to what is owed, which is not negative.
LEMMA AutoRepayKeeps ==
  ASSUME IInv, NEW r \in Requests, AutoRepayOnInflow(r)
  PROVE  IInv'
<1>0. /\ TypeOK /\ NoFees /\ BookInv(r) /\ AmountInv(r) /\ pc[r] = "inflow" /\ IsTransfer(r)
      /\ Recipient(r) \in Users /\ Cents(r) \in Nat
  BY RequestType DEF IInv, AutoRepayOnInflow, BookInv
<1>1. UNCHANGED <<bal, od, item, unbooked, posted, receipts, totals, apart>>
  BY DEF AutoRepayOnInflow
<1>2. \/ /\ Read(r, Recipient(r)) /\ amount' = [amount EXCEPT ![r] = RepayAmount(read'[r], Cents(r))]
         /\ Goto(r, "repay") \/ Goto(r, "received")
      \/ Goto(r, "received") /\ UNCHANGED <<read, amount>>
  BY DEF AutoRepayOnInflow
<1>3. /\ pc' \in [Requests -> Steps] /\ \A s \in Requests \ {r} : pc'[s] = pc[s]
      /\ pc'[r] \in {"repay", "received"}
      /\ pc'[r] = "repay" => Read(r, Recipient(r)) /\ amount' = [amount EXCEPT ![r] = RepayAmount(read'[r], Cents(r))]
  BY <1>0, <1>2, GotoEffect DEF Steps
<1>4. /\ read' \in [Requests -> OverdraftRows] /\ read'[r].accrued = 0 /\ read'[r] \in OverdraftRows
      /\ \A s \in Requests \ {r} : read'[s] = read[s]
  BY <1>0, <1>2, ReadEffect DEF TypeOK, AmountInv
<1>5. /\ amount' \in [Requests -> Int] /\ \A s \in Requests \ {r} : amount'[s] = amount[s]
      /\ pc'[r] = "repay" => amount'[r] \in Nat
  <2>1. PICK n \in Nat : n = RepayAmount(read'[r], Cents(r))
    BY <1>0, <1>4, RepayAmountType
  <2>2. amount \in [Requests -> Int]
    BY <1>0 DEF TypeOK
  <2> QED BY <1>2, <1>3, <2>1, <2>2
<1>6. Elsewhere(r)
  BY <1>1, <1>3, <1>4, <1>5 DEF Elsewhere
<1>7. TypeOK'
  BY <1>0, <1>1, <1>3, <1>4, <1>5 DEF TypeOK
<1>8. NoFees'
  BY <1>0, <1>1 DEF NoFees
<1>9. BookInv(r)'
  BY <1>0, <1>1, <1>3 DEF BookInv, Paying
<1>10. AmountInv(r)'
  BY <1>0, <1>3, <1>4, <1>5 DEF AmountInv
<1> QED BY <1>6, <1>7, <1>8, <1>9, <1>10, FrameRule

\* The recipient's receipt is for an item that is paid; the next item is not paid yet.
LEMMA ReceivedKeeps ==
  ASSUME IInv, NEW r \in Requests, Received(r)
  PROVE  IInv'
<1>0. /\ TypeOK /\ NoFees /\ BookInv(r) /\ AmountInv(r) /\ pc[r] = "received" /\ IsTransfer(r)
      /\ item[r] \in Nat \ {0} /\ item[r] \in DOMAIN Items[r]
  BY RequestType DEF IInv, Received, BookInv
<1>1. UNCHANGED <<bal, od, read, amount, unbooked, posted, totals, apart>>
  BY DEF Received
<1>2. \/ item[r] < Len(Items[r]) /\ item' = [item EXCEPT ![r] = item[r] + 1] /\ Goto(r, "debit")
      \/ ~(item[r] < Len(Items[r])) /\ item' = item /\ Goto(r, "close")
  BY DEF Received, MoreItems
<1>3. Len(Items[r]) \in Nat /\ DOMAIN Items[r] = 1 .. Len(Items[r]) /\ item[r] \in 1 .. Len(Items[r])
  BY <1>0, ItemType
<1>4. /\ pc' \in [Requests -> Steps] /\ \A s \in Requests \ {r} : pc'[s] = pc[s]
      /\ \/ pc'[r] = "debit" /\ item' = [item EXCEPT ![r] = item[r] + 1] /\ item[r] < Len(Items[r])
         \/ pc'[r] = "close" /\ item' = item /\ item[r] = Len(Items[r])
  BY <1>0, <1>2, <1>3, GotoEffect DEF Steps
<1>5. /\ item' \in [Requests -> Nat \ {0}] /\ \A s \in Requests \ {r} : item'[s] = item[s]
      /\ item'[r] \in 1 .. Len(Items[r])
      /\ pc'[r] = "debit" => item'[r] = item[r] + 1
  <2>1. item \in [Requests -> Nat \ {0}] /\ item[r] + 1 \in Nat \ {0}
    BY <1>0 DEF TypeOK
  <2> QED BY <1>3, <1>4, <2>1
<1>6. /\ receipts' \in [Requests -> SUBSET Nat] /\ \A s \in Requests \ {r} : receipts'[s] = receipts[s]
      /\ receipts'[r] \subseteq receipts[r] \cup {item[r]}
  <2>1. receipts \in [Requests -> SUBSET Nat] /\ item[r] \in Nat
    BY <1>0 DEF TypeOK
  <2>2. receipts' = receipts \/ receipts' = [receipts EXCEPT ![r] = receipts[r] \cup {item[r]}]
    BY DEF Received
  <2> QED BY <2>1, <2>2
<1>7. Elsewhere(r)
  BY <1>1, <1>4, <1>5, <1>6 DEF Elsewhere
<1>8. TypeOK'
  BY <1>0, <1>1, <1>4, <1>5, <1>6 DEF TypeOK
<1>9. NoFees'
  BY <1>0, <1>1 DEF NoFees
<1>10. BookInv(r)'
  <2>1. posted'[r] = 1 .. item[r] /\ posted'[r] = posted[r]
    BY <1>0, <1>1 DEF BookInv, Paying
  <2>2. pc'[r] = "debit" => posted'[r] = 1 .. (item'[r] - 1)
    <3>1. item[r] = (item[r] + 1) - 1
      BY <1>0
    <3> QED BY <1>5, <2>1, <3>1
  <2>3. pc'[r] = "close" => posted'[r] = DOMAIN Items[r]
    BY <1>3, <1>4, <2>1
  <2>4. receipts'[r] \subseteq {SenderReceipt} \cup posted'[r]
    <3>1. item[r] \in posted'[r] /\ receipts[r] \subseteq {SenderReceipt} \cup posted[r]
      BY <1>0, <2>1 DEF BookInv
    <3> QED BY <1>6, <2>1, <3>1
  <2>5. SenderReceipt \in receipts'[r] => posted'[r] = DOMAIN Items[r]
    <3>1. SenderReceipt # item[r]
      BY <1>0 DEF SenderReceipt
    <3> QED BY <1>0, <1>6, <2>1, <3>1 DEF BookInv
  <2>6. \E n \in 0 .. Len(Items[r]) : posted'[r] = 1 .. n
    BY <1>0, <2>1 DEF BookInv
  <2> QED BY <1>0, <1>4, <1>5, <2>2, <2>3, <2>4, <2>5, <2>6 DEF BookInv, Paying
<1>11. AmountInv(r)'
  BY <1>0, <1>1, <1>4 DEF AmountInv
<1> QED BY <1>7, <1>8, <1>9, <1>10, <1>11, FrameRule

\* The sender's receipt of a batch follows the last item.
LEMMA CloseKeeps ==
  ASSUME IInv, NEW r \in Requests, Close(r)
  PROVE  IInv'
<1>0. /\ TypeOK /\ NoFees /\ BookInv(r) /\ AmountInv(r) /\ pc[r] = "close" /\ Actor[r] \in Users
  BY RequestType DEF IInv, Close
<1>1. UNCHANGED <<bal, od, item, read, amount, unbooked, posted, apart>>
  BY DEF Close
<1>2. /\ pc' \in [Requests -> Steps] /\ \A s \in Requests \ {r} : pc'[s] = pc[s]
      /\ pc'[r] = "done"
  BY <1>0, GotoEffect DEF Steps, Close
<1>3. /\ receipts' \in [Requests -> SUBSET Nat] /\ \A s \in Requests \ {r} : receipts'[s] = receipts[s]
      /\ receipts'[r] \subseteq receipts[r] \cup {SenderReceipt}
  <2>1. receipts \in [Requests -> SUBSET Nat] /\ SenderReceipt \in Nat
    BY <1>0 DEF TypeOK, SenderReceipt
  <2>2. receipts' = receipts \/ receipts' = [receipts EXCEPT ![r] = receipts[r] \cup {SenderReceipt}]
    BY DEF Close
  <2> QED BY <2>1, <2>2
<1>4. totals' \in [Users -> Nat]
  <2>1. PICK n \in Nat : n = TotalCents(r)
    BY AmountsType
  <2>2. totals' = totals \/ totals' = [totals EXCEPT ![Actor[r]] = totals[Actor[r]] + n]
    BY <2>1 DEF Close
  <2>3. totals \in [Users -> Nat]
    BY <1>0 DEF TypeOK
  <2> QED BY <1>0, <2>2, <2>3
<1>5. Elsewhere(r)
  BY <1>1, <1>2, <1>3 DEF Elsewhere
<1>6. TypeOK'
  BY <1>0, <1>1, <1>2, <1>3, <1>4 DEF TypeOK
<1>7. NoFees'
  BY <1>0, <1>1 DEF NoFees
<1>8. BookInv(r)'
  BY <1>0, <1>1, <1>2, <1>3 DEF BookInv, Paying
<1>9. AmountInv(r)'
  BY <1>0, <1>1, <1>2 DEF AmountInv
<1> QED BY <1>5, <1>6, <1>7, <1>8, <1>9, FrameRule

\* A manual repayment is cut to what is owed.
LEMMA BeginRepayKeeps ==
  ASSUME IInv, NEW r \in Requests, BeginRepay(r)
  PROVE  IInv'
<1>0. /\ TypeOK /\ NoFees /\ BookInv(r) /\ AmountInv(r) /\ pc[r] = "idle" /\ Actor[r] \in Users
      /\ Kind[r] = "repay" /\ Repayment[r] \in Nat
  <2>1. Kind[r] = "repay" /\ pc[r] = "idle"
    BY DEF BeginRepay, Start
  <2>2. Repayment[r] \in Nat
    BY <2>1, FormAssumption DEF WellFormed
  <2> QED BY <2>1, <2>2, RequestType DEF IInv
<1>1. UNCHANGED <<bal, od, item, unbooked, posted, receipts, totals>> /\ apart' \in BOOLEAN
  BY <1>0 DEF BeginRepay, Start, TypeOK
<1>2. /\ Read(r, Actor[r]) /\ amount' = [amount EXCEPT ![r] = RepayAmount(read'[r], Repayment[r])]
      /\ Goto(r, "repay") \/ Goto(r, "done")
  BY DEF BeginRepay
<1>3. /\ pc' \in [Requests -> Steps] /\ \A s \in Requests \ {r} : pc'[s] = pc[s]
      /\ pc'[r] \in {"repay", "done"}
  BY <1>0, <1>2, GotoEffect DEF Steps
<1>4. /\ read' \in [Requests -> OverdraftRows] /\ read'[r].accrued = 0 /\ read'[r] \in OverdraftRows
      /\ \A s \in Requests \ {r} : read'[s] = read[s]
  BY <1>0, <1>2, ReadEffect
<1>5. /\ amount' \in [Requests -> Int] /\ \A s \in Requests \ {r} : amount'[s] = amount[s]
      /\ amount'[r] \in Nat
  <2>1. PICK n \in Nat : n = RepayAmount(read'[r], Repayment[r])
    BY <1>0, <1>4, RepayAmountType
  <2>2. amount \in [Requests -> Int]
    BY <1>0 DEF TypeOK
  <2> QED BY <1>2, <2>1, <2>2
<1>6. Elsewhere(r)
  BY <1>1, <1>3, <1>4, <1>5 DEF Elsewhere
<1>7. TypeOK'
  BY <1>0, <1>1, <1>3, <1>4, <1>5 DEF TypeOK
<1>8. NoFees'
  BY <1>0, <1>1 DEF NoFees
<1>9. BookInv(r)'
  BY <1>0, <1>1, <1>3 DEF BookInv, Paying, IsTransfer
<1>10. AmountInv(r)'
  BY <1>0, <1>3, <1>4, <1>5 DEF AmountInv
<1> QED BY <1>6, <1>7, <1>8, <1>9, <1>10, FrameRule

\* The debit of a repayment moves what is not negative and pays no item.
LEMMA DebitRepaymentKeeps ==
  ASSUME IInv, NEW r \in Requests, DebitRepayment(r)
  PROVE  IInv'
<1>0. /\ TypeOK /\ NoFees /\ BookInv(r) /\ AmountInv(r) /\ pc[r] = "repay" /\ Debtor(r) \in Users
  BY RequestType DEF IInv, DebitRepayment
<1>1. UNCHANGED <<od, item, read, amount, posted, receipts, totals, apart>>
  BY DEF DebitRepayment
<1>2. Goto(r, "repaid") \/ (IsTransfer(r) /\ Goto(r, "received")) \/ Goto(r, "done")
  BY DEF DebitRepayment, AfterRepayment
<1>3. /\ pc' \in [Requests -> Steps] /\ \A s \in Requests \ {r} : pc'[s] = pc[s]
      /\ pc'[r] \in {"repaid", "done"} \/ (pc'[r] = "received" /\ IsTransfer(r))
  BY <1>0, <1>2, GotoEffect DEF Steps
<1>4. unbooked' \in [Users -> Int]
  <2>1. unbooked \in [Users -> Int] /\ amount[r] \in Int
    BY <1>0 DEF TypeOK
  <2>2. unbooked' = unbooked \/ unbooked' = [unbooked EXCEPT ![Debtor(r)] = unbooked[Debtor(r)] - amount[r]]
    BY DEF DebitRepayment
  <2> QED BY <1>0, <2>1, <2>2
<1>5. bal' \in [Accounts -> Nat]
  BY BalancesKeep DEF Next, Serve
<1>6. Elsewhere(r)
  BY <1>1, <1>3 DEF Elsewhere
<1>7. TypeOK'
  BY <1>0, <1>1, <1>3, <1>4, <1>5 DEF TypeOK
<1>8. NoFees'
  BY <1>0, <1>1 DEF NoFees
<1>9. BookInv(r)'
  BY <1>0, <1>1, <1>3 DEF BookInv, Paying
<1>10. AmountInv(r)'
  BY <1>0, <1>1, <1>3 DEF AmountInv
<1> QED BY <1>6, <1>7, <1>8, <1>9, <1>10, FrameRule

\* Entering a repayment leaves a row with nothing negative in it and no fee.
LEMMA SaveRepaymentKeeps ==
  ASSUME IInv, NEW r \in Requests, SaveRepayment(r)
  PROVE  IInv'
<1>0. /\ TypeOK /\ NoFees /\ BookInv(r) /\ AmountInv(r) /\ pc[r] = "repaid" /\ Debtor(r) \in Users
      /\ read[r] \in OverdraftRows /\ read[r].accrued = 0 /\ amount[r] \in Nat
  BY RequestType DEF IInv, SaveRepayment, AmountInv
<1>1. UNCHANGED <<bal, item, read, amount, posted, receipts, totals, apart>>
  BY DEF SaveRepayment
<1>2. (IsTransfer(r) /\ Goto(r, "received")) \/ Goto(r, "done")
  BY DEF SaveRepayment, AfterRepayment
<1>3. /\ pc' \in [Requests -> Steps] /\ \A s \in Requests \ {r} : pc'[s] = pc[s]
      /\ pc'[r] = "done" \/ (pc'[r] = "received" /\ IsTransfer(r))
  BY <1>0, <1>2, GotoEffect DEF Steps
<1>4. unbooked' \in [Users -> Int]
  <2>1. unbooked \in [Users -> Int] /\ amount[r] \in Int
    BY <1>0 DEF TypeOK
  <2>2. unbooked' = unbooked \/ unbooked' = [unbooked EXCEPT ![Debtor(r)] = unbooked[Debtor(r)] + amount[r]]
    BY DEF SaveRepayment
  <2> QED BY <1>0, <2>1, <2>2
<1>5. od' \in [Users -> OverdraftRows] /\ NoFees'
  <2>1. od \in [Users -> OverdraftRows] /\ od[Debtor(r)] \in OverdraftRows
    BY <1>0 DEF TypeOK
  <2>2. PICK p : p = UpdateRepaid(od[Debtor(r)], read[r], amount[r])
    OBVIOUS
  <2>3. p \in OverdraftRows /\ p.accrued = 0
    <3>1. IsRepaidRow(p, od[Debtor(r)], read[r], amount[r])
      BY <1>0, <2>1, <2>2, RepaidRow
    <3> QED BY <3>1 DEF IsRepaidRow
  <2>4. od' = od \/ od' = [od EXCEPT ![Debtor(r)] = p]
    BY <2>2 DEF SaveRepayment
  <2> QED BY <1>0, <2>1, <2>3, <2>4 DEF NoFees
<1>6. Elsewhere(r)
  BY <1>1, <1>3 DEF Elsewhere
<1>7. TypeOK'
  BY <1>0, <1>1, <1>3, <1>4, <1>5 DEF TypeOK
<1>8. BookInv(r)'
  BY <1>0, <1>1, <1>3 DEF BookInv, Paying
<1>9. AmountInv(r)'
  BY <1>0, <1>1, <1>3 DEF AmountInv
<1> QED BY <1>5, <1>6, <1>7, <1>8, <1>9, FrameRule

\* Opting in or out reads the row.
LEMMA BeginOptKeeps ==
  ASSUME IInv, NEW r \in Requests, BeginOpt(r)
  PROVE  IInv'
<1>0. /\ TypeOK /\ NoFees /\ BookInv(r) /\ AmountInv(r) /\ pc[r] = "idle" /\ Actor[r] \in Users
      /\ Kind[r] \in {"optin", "optout"}
  BY RequestType DEF IInv, BeginOpt, Start
<1>1. UNCHANGED <<bal, od, item, amount, unbooked, posted, receipts, totals>> /\ apart' \in BOOLEAN
  BY <1>0 DEF BeginOpt, Start, TypeOK
<1>2. Read(r, Actor[r]) /\ (Goto(r, "save") \/ Goto(r, "done"))
  BY DEF BeginOpt
<1>3. /\ pc' \in [Requests -> Steps] /\ \A s \in Requests \ {r} : pc'[s] = pc[s]
      /\ pc'[r] \in {"save", "done"}
  BY <1>0, <1>2, GotoEffect DEF Steps
<1>4. /\ read' \in [Requests -> OverdraftRows] /\ read'[r].accrued = 0
      /\ \A s \in Requests \ {r} : read'[s] = read[s]
  BY <1>0, <1>2, ReadEffect
<1>5. Elsewhere(r)
  BY <1>1, <1>3, <1>4 DEF Elsewhere
<1>6. TypeOK'
  BY <1>0, <1>1, <1>3, <1>4 DEF TypeOK
<1>7. NoFees'
  BY <1>0, <1>1 DEF NoFees
<1>8. BookInv(r)'
  BY <1>0, <1>1, <1>3 DEF BookInv, Paying
<1>9. AmountInv(r)'
  BY <1>0, <1>1, <1>3, <1>4 DEF AmountInv
<1> QED BY <1>5, <1>6, <1>7, <1>8, <1>9, FrameRule

\* Opting in or out writes a limit and a status.
LEMMA SaveOptKeeps ==
  ASSUME IInv, NEW r \in Requests, SaveOpt(r)
  PROVE  IInv'
<1>0. /\ TypeOK /\ NoFees /\ BookInv(r) /\ AmountInv(r) /\ pc[r] = "save" /\ Actor[r] \in Users
      /\ read[r] \in OverdraftRows
  BY RequestType DEF IInv, SaveOpt
<1>1. UNCHANGED <<bal, item, read, amount, unbooked, posted, receipts, totals, apart>>
  BY DEF SaveOpt
<1>2. /\ pc' \in [Requests -> Steps] /\ \A s \in Requests \ {r} : pc'[s] = pc[s]
      /\ pc'[r] = "done"
  BY <1>0, GotoEffect DEF Steps, SaveOpt
<1>3. od' \in [Users -> OverdraftRows] /\ NoFees'
  <2>1. od \in [Users -> OverdraftRows] /\ od[Actor[r]] \in OverdraftRows /\ od[Actor[r]].accrued = 0
    BY <1>0 DEF TypeOK, NoFees
  <2>2. PICK n \in Nat, st \in {"active", "inactive"} :
          od' = [od EXCEPT ![Actor[r]] = CreateOrUpdate(od[Actor[r]], n, st)]
    <3>1. LimitFor(Profile[Actor[r]]) \in Nat /\ read[r].limit \in Nat
      BY <1>0, LimitType DEF OverdraftRows
    <3> QED BY <3>1 DEF SaveOpt
  <2>3. PICK p : p = CreateOrUpdate(od[Actor[r]], n, st)
    OBVIOUS
  <2>4. p \in OverdraftRows /\ p.accrued = 0
    <3>1. IsOptedRow(p, od[Actor[r]], n, st)
      BY <2>1, <2>3, OptedRow
    <3> QED BY <2>1, <3>1 DEF IsOptedRow
  <2>5. od' = [od EXCEPT ![Actor[r]] = p]
    BY <2>2, <2>3
  <2> QED BY <1>0, <2>1, <2>4, <2>5 DEF NoFees
<1>4. Elsewhere(r)
  BY <1>1, <1>2 DEF Elsewhere
<1>5. TypeOK'
  BY <1>0, <1>1, <1>2, <1>3 DEF TypeOK
<1>6. BookInv(r)'
  BY <1>0, <1>1, <1>2 DEF BookInv, Paying
<1>7. AmountInv(r)'
  BY <1>0, <1>1, <1>2 DEF AmountInv
<1> QED BY <1>3, <1>4, <1>5, <1>6, <1>7, FrameRule

\* A request that dies leaves what it did.
LEMMA CrashKeeps ==
  ASSUME IInv, NEW r \in Requests, Crash(r)
  PROVE  IInv'
<1>0. TypeOK /\ NoFees /\ BookInv(r) /\ AmountInv(r)
  BY DEF IInv
<1>1. UNCHANGED <<bal, od, item, read, amount, unbooked, posted, receipts, totals, apart>>
  BY DEF Crash
<1>2. /\ pc' \in [Requests -> Steps] /\ \A s \in Requests \ {r} : pc'[s] = pc[s]
      /\ pc'[r] = "done"
  BY <1>0, GotoEffect DEF Steps, Crash
<1>3. Elsewhere(r)
  BY <1>1, <1>2 DEF Elsewhere
<1>4. TypeOK'
  BY <1>0, <1>1, <1>2 DEF TypeOK
<1>5. NoFees'
  BY <1>0, <1>1 DEF NoFees
<1>6. BookInv(r)'
  BY <1>0, <1>1, <1>2 DEF BookInv, Paying
<1>7. AmountInv(r)'
  BY <1>0, <1>1, <1>2 DEF AmountInv
<1> QED BY <1>3, <1>4, <1>5, <1>6, <1>7, FrameRule

\* The invariant at the start: nothing is paid, nobody has an overdraft.
LEMMA InitIInv == Init => IInv
<1> SUFFICES ASSUME Init PROVE IInv
  OBVIOUS
<1> USE DEF Init
<1>1. TypeOK
  <2>1. bal \in [Accounts -> Nat]
    <3>1. ASSUME NEW a \in Accounts PROVE (IF a = OverdraftCapital THEN Capital ELSE Opening[a[2]]) \in Nat
      <4>1. CASE a = OverdraftCapital
        BY <4>1, MoneyAssumption
      <4>2. CASE a # OverdraftCapital
        <5>1. PICK u \in Users : a = Main(u)
          BY <4>2, AccountsDiffer
        <5>2. a[2] = u
          BY <5>1 DEF Main
        <5> QED BY <4>2, <5>2, MoneyAssumption
      <4> QED BY <4>1, <4>2
    <3> QED BY <3>1
  <2>2. NoOverdraft \in OverdraftRows
    BY DEF NoOverdraft, OverdraftRows
  <2> QED BY <2>1, <2>2 DEF TypeOK, Steps
<1>2. NoFees
  BY DEF NoFees, NoOverdraft
<1>3. ASSUME NEW r \in Requests PROVE BookInv(r) /\ AmountInv(r)
  <2>1. /\ pc[r] = "idle" /\ item[r] = 1 /\ posted[r] = {} /\ receipts[r] = {}
        /\ read[r] = NoOverdraft
    OBVIOUS
  <2>2. Len(Items[r]) \in Nat /\ (IsTransfer(r) => Len(Items[r]) >= 1)
    BY ItemType
  <2>3. posted[r] = 1 .. 0 /\ 0 \in 0 .. Len(Items[r])
    BY <2>1, <2>2
  <2>4. posted[r] = 1 .. (item[r] - 1)
    BY <2>1, <2>3
  <2>5. IsTransfer(r) => item[r] \in 1 .. Len(Items[r])
    BY <2>1, <2>2
  <2> HIDE DEF Init
  <2>6. BookInv(r)
    BY <2>1, <2>3, <2>4, <2>5 DEF BookInv, Paying
  <2>7. AmountInv(r)
    BY <2>1 DEF AmountInv, NoOverdraft
  <2> QED BY <2>6, <2>7
<1> QED BY <1>1, <1>2, <1>3 DEF IInv

\* Every step keeps the invariant.
LEMMA StepIInv == IInv /\ [Next]_vars => IInv'
<1> SUFFICES ASSUME IInv, [Next]_vars PROVE IInv'
  OBVIOUS
<1>1. CASE UNCHANGED vars
  BY <1>1 DEF vars, IInv, TypeOK, NoFees, BookInv, AmountInv, Paying
<1>2. ASSUME NEW r \in Requests, Serve(r) PROVE IInv'
  BY <1>2, BeginTransferKeeps, UseCoverKeeps, CreditCoverKeeps, SaveCoverKeeps, DebitKeeps,
     AutoRepayKeeps, ReceivedKeeps, CloseKeeps, BeginRepayKeeps, DebitRepaymentKeeps,
     SaveRepaymentKeeps, BeginOptKeeps, SaveOptKeeps DEF Serve
<1>3. ASSUME NEW r \in Requests, Crash(r) PROVE IInv'
  BY <1>3, CrashKeeps
<1> QED BY <1>1, <1>2, <1>3 DEF Next, AllServed

\* Whatever the requests do, the state keeps its shape, no account is overdrawn,
\* items are paid in order and the receipts follow the payments.
THEOREM Invariance == Spec => []IInv
<1> QED BY InitIInv, StepIInv, PTL DEF Spec

\* The money in the wallets and in the overdraft capital is what there was.
Conserved == Total(bal) = Capital + SumFunctionOnSet(Opening, Users)
\* At the start the ledger holds the opening balances and the capital.
LEMMA InitConserved == Init => Conserved
<1> SUFFICES ASSUME Init PROVE Conserved
  OBVIOUS
<1>1. bal = [a \in Accounts |-> IF a = OverdraftCapital THEN Capital ELSE Opening[a[2]]]
  BY DEF Init
<1>2. bal[OverdraftCapital] = Capital
  BY <1>1, AccountsDiffer
<1>3. ASSUME NEW u \in Users PROVE Opening[u] \in Int /\ Opening[u] = WalletsOf(bal)[u]
  <2>1. Main(u) \in Accounts /\ Main(u) # OverdraftCapital /\ Main(u)[2] = u
    BY AccountsDiffer DEF Main
  <2>2. bal[Main(u)] = Opening[u]
    BY <1>1, <2>1
  <2>3. WalletsOf(bal)[u] = bal[Main(u)]
    BY DEF WalletsOf
  <2> QED BY <2>2, <2>3, MoneyAssumption
<1>4. SumFunctionOnSet(Opening, Users) = SumFunctionOnSet(WalletsOf(bal), Users)
  BY <1>3, FiniteAssumption, SumSame
<1>5. SumFunctionOnSet(Opening, Users) \in Int /\ Capital \in Int
  BY <1>3, FiniteAssumption, MoneyAssumption, SumType
<1> QED BY <1>2, <1>4, <1>5 DEF Conserved, Total

\* Every step keeps the total, for it makes at most one posting.
LEMMA StepConserved == IInv /\ Conserved /\ [Next]_vars => Conserved'
<1> SUFFICES ASSUME IInv, Conserved, [Next]_vars PROVE Conserved'
  OBVIOUS
<1>1. bal \in [Accounts -> Nat] /\ (bal' = bal \/ Posting(bal, bal'))
  BY EveryStepPosts DEF IInv, TypeOK
<1>2. Total(bal') = Total(bal)
  BY <1>1, PostingKeepsTotal
<1> QED BY <1>2 DEF Conserved

\* However covers, debits, inflows and repayments interleave and wherever a
\* request dies, wallets and capital stay covered and no cent is made or lost.
THEOREM MoneyIsConserved == Spec => []MoneyConserved
<1>1. IInv /\ Conserved => MoneyConserved
  BY DEF IInv, Conserved, MoneyConserved, Total, WalletsOf, Wallets
<1> QED BY <1>1, InitIInv, StepIInv, InitConserved, StepConserved, PTL DEF Spec

\* A step of request r touches no other request, and r has not ended.
LEMMA StepElsewhere ==
  ASSUME IInv, NEW r \in Requests, Serve(r) \/ Crash(r)
  PROVE  Elsewhere(r) /\ pc[r] # "done"
<1>1. /\ pc \in [Requests -> Steps] /\ item \in [Requests -> Nat \ {0}] /\ read \in [Requests -> OverdraftRows]
      /\ amount \in [Requests -> Int] /\ posted \in [Requests -> SUBSET Nat]
      /\ receipts \in [Requests -> SUBSET Nat]
  BY DEF IInv, TypeOK
<1>2. CASE BeginTransfer(r)
  BY <1>1, <1>2 DEF BeginTransfer, Start, Goto, Elsewhere
<1>3. CASE UseCover(r)
  BY <1>1, <1>3 DEF UseCover, Read, Goto, Elsewhere
<1>4. CASE CreditCover(r)
  BY <1>1, <1>4 DEF CreditCover, Goto, Elsewhere
<1>5. CASE SaveCover(r)
  BY <1>1, <1>5 DEF SaveCover, Goto, Elsewhere
<1>6. CASE Debit(r)
  BY <1>1, <1>6 DEF Debit, Goto, Elsewhere
<1>7. CASE AutoRepayOnInflow(r)
  BY <1>1, <1>7 DEF AutoRepayOnInflow, Read, Goto, Elsewhere
<1>8. CASE Received(r)
  BY <1>1, <1>8 DEF Received, Goto, Elsewhere
<1>9. CASE Close(r)
  BY <1>1, <1>9 DEF Close, Goto, Elsewhere
<1>10. CASE BeginRepay(r)
  BY <1>1, <1>10 DEF BeginRepay, Start, Read, Goto, Elsewhere
<1>11. CASE DebitRepayment(r)
  BY <1>1, <1>11 DEF DebitRepayment, Goto, Elsewhere
<1>12. CASE SaveRepayment(r)
  BY <1>1, <1>12 DEF SaveRepayment, Goto, Elsewhere
<1>13. CASE BeginOpt(r)
  BY <1>1, <1>13 DEF BeginOpt, Start, Read, Goto, Elsewhere
<1>14. CASE SaveOpt(r)
  BY <1>1, <1>14 DEF SaveOpt, Goto, Elsewhere
<1>15. CASE Crash(r)
  BY <1>1, <1>15 DEF Crash, Goto, Elsewhere
<1> QED BY <1>2, <1>3, <1>4, <1>5, <1>6, <1>7, <1>8, <1>9, <1>10, <1>11, <1>12, <1>13, <1>14, <1>15 DEF Serve

\* Only the last step of a transfer adds to a daily total, once every item is paid.
LEMMA TotalsStep ==
  ASSUME IInv, NEW r \in Requests, Serve(r) \/ Crash(r)
  PROVE  \/ totals' = totals
         \/ /\ totals' = [totals EXCEPT ![Actor[r]] = totals[Actor[r]] + TotalCents(r)]
            /\ pc'[r] = "done" /\ posted'[r] = DOMAIN Items[r]
<1>1. CASE Close(r)
  <2>1. pc'[r] = "done" /\ posted' = posted
    BY <1>1, GotoEffect DEF IInv, Close, Steps
  <2>2. posted[r] = DOMAIN Items[r]
    BY <1>1 DEF IInv, BookInv, Close
  <2> QED BY <1>1, <2>1, <2>2 DEF Close
<1>2. CASE ~Close(r)
  BY <1>2 DEF Serve, BeginTransfer, UseCover, CreditCover, SaveCover, Debit, AutoRepayOnInflow, Received,
              BeginRepay, DebitRepayment, SaveRepayment, BeginOpt, SaveOpt, Crash
<1> QED BY <1>1, <1>2

\* Only items of the request are paid.
PostedItems == \A r \in Requests : posted[r] \in SUBSET DOMAIN Items[r]
\* It follows from the invariant.
LEMMA ItemsPosted == IInv => PostedItems
BY RequestType DEF PostedItems

\* What the requests that have ended, and all requests, paid for user u.
PaidWhenDone(p, q, u) ==
  [r \in Requests |-> IF Actor[r] = u /\ p[r] = "done" THEN SumFunctionOnSet(Amounts(r), q[r]) ELSE 0]
PaidFor(q, u) == [r \in Requests |-> IF Actor[r] = u THEN SumFunctionOnSet(Amounts(r), q[r]) ELSE 0]
\* The sums of the model, over these values.
LEMMA SumsOfPayments ==
  /\ \A u : EndedBy(u) = SumFunctionOnSet(PaidWhenDone(pc, posted, u), Requests)
  /\ \A u : SentBy(u) = SumFunctionOnSet(PaidFor(posted, u), Requests)
BY DEF EndedBy, SentBy, PaidOut, PaidWhenDone, PaidFor

\* A request pays nothing negative.
LEMMA PaymentsType ==
  ASSUME NEW p, NEW q, \A r \in Requests : q[r] \in SUBSET DOMAIN Items[r], NEW u, NEW r \in Requests
  PROVE  /\ PaidWhenDone(p, q, u)[r] \in Nat /\ PaidFor(q, u)[r] \in Nat
         /\ PaidWhenDone(p, q, u)[r] <= PaidFor(q, u)[r]
<1>1. SumFunctionOnSet(Amounts(r), q[r]) \in Nat
  BY AmountsType
<1> QED BY <1>1 DEF PaidWhenDone, PaidFor

\* At the start nothing is counted.
LEMMA InitTotals == Init => TotalsInv
<1> SUFFICES ASSUME Init, NEW u \in Users PROVE totals[u] <= EndedBy(u)
  BY DEF TotalsInv
<1>1. totals[u] = 0
  BY DEF Init
<1>2. \A r \in Requests : PaidWhenDone(pc, posted, u)[r] = 0
  BY DEF Init, PaidWhenDone
<1>3. SumFunctionOnSet(PaidWhenDone(pc, posted, u), Requests) = Cardinality(Requests) * 0
  BY <1>2, FiniteAssumption, SumConstant
<1>4. Cardinality(Requests) \in Nat
  BY FiniteAssumption, FS_CardinalityType
<1>5. Cardinality(Requests) * 0 = 0
  BY <1>4
<1> QED BY <1>1, <1>3, <1>5, SumsOfPayments

\* A step of r adds to what has ended what r has paid, if r ends.
LEMMA StepTotals == IInv /\ IInv' /\ TotalsInv /\ [Next]_vars => TotalsInv'
<1> SUFFICES ASSUME IInv, IInv', TotalsInv, [Next]_vars PROVE TotalsInv'
  OBVIOUS
<1>1. CASE UNCHANGED vars
  BY <1>1 DEF vars, TotalsInv, EndedBy, PaidOut
<1>2. ASSUME NEW r \in Requests, Serve(r) \/ Crash(r) PROVE TotalsInv'
  <2> SUFFICES ASSUME NEW u \in Users PROVE totals'[u] <= EndedBy(u)'
    BY DEF TotalsInv
  <2>1. PICK f : f = PaidWhenDone(pc, posted, u)
    OBVIOUS
  <2>2. PICK g : g = PaidWhenDone(pc', posted', u)
    OBVIOUS
  <2>3. PostedItems /\ PostedItems'
    BY ItemsPosted, PTL
  <2>4. \A s \in Requests : f[s] \in Nat /\ g[s] \in Nat
    BY <2>1, <2>2, <2>3, PaymentsType DEF PostedItems
  <2>5. Elsewhere(r) /\ pc[r] # "done"
    BY <1>2, StepElsewhere
  <2>6. f[r] = 0 /\ \A s \in Requests \ {r} : g[s] = f[s]
    BY <2>1, <2>2, <2>5 DEF PaidWhenDone, Elsewhere
  <2>7. SumFunctionOnSet(g, Requests) = SumFunctionOnSet(f, Requests) - f[r] + g[r]
    <3>1. \A s \in Requests : f[s] \in Int /\ g[s] \in Int
      BY <2>4
    <3> QED BY <2>6, <3>1, FiniteAssumption, SumChange
  <2>8. EndedBy(u) = SumFunctionOnSet(f, Requests) /\ EndedBy(u)' = SumFunctionOnSet(g, Requests)
    BY <2>1, <2>2 DEF EndedBy, PaidOut, PaidWhenDone
  <2>9. SumFunctionOnSet(f, Requests) \in Int
    <3>1. \A s \in Requests : f[s] \in Int
      BY <2>4
    <3> QED BY <3>1, FiniteAssumption, SumType
  <2>10. totals[u] <= SumFunctionOnSet(f, Requests) /\ totals[u] \in Nat /\ g[r] \in Nat
    BY <2>4, <2>8 DEF TotalsInv, IInv, TypeOK
  <2>11. CASE totals' = totals
    BY <2>6, <2>7, <2>8, <2>9, <2>10, <2>11
  <2>12. CASE /\ totals' = [totals EXCEPT ![Actor[r]] = totals[Actor[r]] + TotalCents(r)]
              /\ pc'[r] = "done" /\ posted'[r] = DOMAIN Items[r]
    <3>1. TotalCents(r) \in Nat /\ totals \in [Users -> Nat] /\ Actor[r] \in Users
      BY AmountsType, RequestType DEF IInv, TypeOK
    <3>2. CASE Actor[r] = u
      <4>1. g[r] = TotalCents(r)
        BY <2>2, <2>12, <3>2 DEF PaidWhenDone, TotalCents
      <4>2. totals'[u] = totals[u] + TotalCents(r)
        BY <2>12, <3>1, <3>2
      <4> QED BY <2>6, <2>7, <2>8, <2>9, <2>10, <3>1, <4>1, <4>2
    <3>3. CASE Actor[r] # u
      <4>1. totals'[u] = totals[u]
        BY <2>12, <3>1, <3>3
      <4> QED BY <2>6, <2>7, <2>8, <2>9, <2>10, <4>1
    <3> QED BY <3>2, <3>3
  <2> QED BY <1>2, <2>11, <2>12, TotalsStep
<1> QED BY <1>1, <1>2 DEF Next, AllServed

\* A transfer that stops half way leaves consistent books: receipts stand for
\* payments, and the daily total never exceeds what the user really sent.
THEOREM BooksAreKept == Spec => []BooksFollowPayments
<1>1. IInv /\ TotalsInv => BooksFollowPayments
  <2> SUFFICES ASSUME IInv, TotalsInv PROVE BooksFollowPayments
    OBVIOUS
  <2>1. ASSUME NEW r \in Requests
        PROVE  /\ posted[r] = 1 .. Cardinality(posted[r]) /\ posted[r] \subseteq DOMAIN Items[r]
               /\ \A i \in receipts[r] \ {SenderReceipt} : i \in posted[r]
               /\ SenderReceipt \in receipts[r] => posted[r] = DOMAIN Items[r]
    <3>1. BookInv(r) /\ posted[r] \subseteq DOMAIN Items[r]
      BY RequestType
    <3>2. PICK n \in Nat : posted[r] = 1 .. n
      BY <3>1, ItemType DEF BookInv
    <3>3. Cardinality(1 .. n) = IF 1 > n THEN 0 ELSE n - 1 + 1
      BY <3>2, FS_Interval
    <3>4. Cardinality(posted[r]) = n
      BY <3>2, <3>3
    <3> QED BY <3>1, <3>2, <3>4 DEF BookInv
  <2>2. ASSUME NEW u \in Users PROVE totals[u] <= SentBy(u)
    <3>1. PICK f : f = PaidWhenDone(pc, posted, u)
      OBVIOUS
    <3>2. PICK g : g = PaidFor(posted, u)
      OBVIOUS
    <3>3. \A s \in Requests : f[s] \in Nat /\ g[s] \in Nat /\ f[s] <= g[s]
      BY <3>1, <3>2, ItemsPosted, PaymentsType DEF PostedItems
    <3>4. \A s \in Requests : f[s] \in Int /\ g[s] \in Int /\ f[s] <= g[s]
      BY <3>3
    <3>5. SumFunctionOnSet(f, Requests) <= SumFunctionOnSet(g, Requests)
      BY <3>4, FiniteAssumption, SumMonotone
    <3>6. SumFunctionOnSet(f, Requests) \in Int /\ SumFunctionOnSet(g, Requests) \in Int
      BY <3>4, FiniteAssumption, SumType
    <3>7. EndedBy(u) = SumFunctionOnSet(f, Requests) /\ SentBy(u) = SumFunctionOnSet(g, Requests)
      BY <3>1, <3>2, SumsOfPayments
    <3>8. totals[u] <= SumFunctionOnSet(f, Requests) /\ totals[u] \in Nat
      BY <3>7 DEF TotalsInv, IInv, TypeOK
    <3> QED BY <3>5, <3>6, <3>7, <3>8
  <2> QED BY <2>1, <2>2 DEF BooksFollowPayments
<1> QED BY <1>1, InitIInv, StepIInv, InitTotals, StepTotals, PTL DEF Spec

(***************************************************************************)
(* The overdraft of users whose requests come one after the other.         *)
(***************************************************************************)

\* What user u sent and received, when the items in q are paid.
PaidToIn(q, u) == [r \in Requests |-> SumFunctionOnSet(AmountsTo(r, u), q[r])]
SentIn(q, u) == SumFunctionOnSet(PaidFor(q, u), Requests)
ReceivedIn(q, u) == SumFunctionOnSet(PaidToIn(q, u), Requests)

\* The amounts that go to a user.
LEMMA AmountsToType ==
  ASSUME NEW r \in Requests, NEW u
  PROVE  /\ \A i \in DOMAIN Items[r] :
              /\ AmountsTo(r, u)[i] \in Nat
              /\ AmountsTo(r, u)[i] = IF Items[r][i].to = u THEN Items[r][i].amount ELSE 0
         /\ \A s \in SUBSET DOMAIN Items[r] : SumFunctionOnSet(AmountsTo(r, u), s) \in Int
<1>1. \A i \in DOMAIN Items[r] :
              /\ AmountsTo(r, u)[i] \in Nat
              /\ AmountsTo(r, u)[i] = IF Items[r][i].to = u THEN Items[r][i].amount ELSE 0
  BY ItemType DEF AmountsTo
<1>2. ASSUME NEW s \in SUBSET DOMAIN Items[r] PROVE SumFunctionOnSet(AmountsTo(r, u), s) \in Int
  <2>1. IsFiniteSet(s)
    BY AmountsType, FS_Subset
  <2>2. \A i \in s : AmountsTo(r, u)[i] \in Int
    BY <1>1
  <2> QED BY <2>1, <2>2, SumType
<1> QED BY <1>1, <1>2

\* So is what a request paid.
LEMMA PaidForType ==
  ASSUME NEW q, NEW r \in Requests, q[r] \in SUBSET DOMAIN Items[r], NEW u
  PROVE  PaidFor(q, u)[r] \in Int /\ PaidToIn(q, u)[r] \in Int
<1>1. SumFunctionOnSet(Amounts(r), q[r]) \in Nat
  BY AmountsType
<1>2. SumFunctionOnSet(AmountsTo(r, u), q[r]) \in Int
  BY AmountsToType
<1> QED BY <1>1, <1>2 DEF PaidFor, PaidToIn

\* What is sent and received are numbers.
LEMMA FlowsType ==
  ASSUME NEW q, \A r \in Requests : q[r] \in SUBSET DOMAIN Items[r], NEW u
  PROVE  SentIn(q, u) \in Int /\ ReceivedIn(q, u) \in Int
<1>1. \A r \in Requests : PaidFor(q, u)[r] \in Int
  BY PaidForType
<1>2. \A r \in Requests : PaidToIn(q, u)[r] \in Int
  BY PaidForType
<1> QED BY <1>1, <1>2, FiniteAssumption, SumType DEF SentIn, ReceivedIn

\* The sums of u when item i of r is paid as well.
ItemAdded(q, p, r, i, u) ==
  /\ SentIn(p, u) = SentIn(q, u) + (IF u = Actor[r] THEN Items[r][i].amount ELSE 0)
  /\ ReceivedIn(p, u) = ReceivedIn(q, u) + (IF u = Items[r][i].to THEN Items[r][i].amount ELSE 0)

\* Paying one item more adds it to what its sender sent and its recipient received.
LEMMA ItemAdds ==
  ASSUME NEW q, NEW p, \A s \in Requests : q[s] \in SUBSET DOMAIN Items[s],
         \A s \in Requests : p[s] \in SUBSET DOMAIN Items[s],
         NEW r \in Requests, NEW i \in DOMAIN Items[r], i \notin q[r], p[r] = q[r] \cup {i},
         \A s \in Requests \ {r} : p[s] = q[s], NEW u
  PROVE  ItemAdded(q, p, r, i, u)
<1>1. IsFiniteSet(q[r])
  BY AmountsType, FS_Subset
<1>2. PICK n \in Nat : n = Items[r][i].amount
  BY ItemType
<1>3. PICK a : a = Amounts(r)
  OBVIOUS
<1>4. PICK t : t = AmountsTo(r, u)
  OBVIOUS
<1>5. (\A x \in q[r] \cup {i} : a[x] \in Int) /\ a[i] = n
  <2>1. \A x \in DOMAIN Items[r] : a[x] \in Nat /\ a[x] = Items[r][x].amount
    BY <1>3, AmountsType
  <2>2. q[r] \cup {i} \subseteq DOMAIN Items[r]
    OBVIOUS
  <2> QED BY <1>2, <2>1, <2>2
<1>6. (\A x \in q[r] \cup {i} : t[x] \in Int) /\ t[i] = IF Items[r][i].to = u THEN n ELSE 0
  <2>1. \A x \in DOMAIN Items[r] : t[x] \in Nat /\ t[x] = IF Items[r][x].to = u THEN Items[r][x].amount ELSE 0
    BY <1>4, AmountsToType
  <2>2. q[r] \cup {i} \subseteq DOMAIN Items[r]
    OBVIOUS
  <2> QED BY <1>2, <2>1, <2>2
<1>7. SumFunctionOnSet(a, p[r]) = SumFunctionOnSet(a, q[r]) + a[i]
  BY <1>1, <1>5, SumAdd
<1>8. SumFunctionOnSet(t, p[r]) = SumFunctionOnSet(t, q[r]) + t[i]
  BY <1>1, <1>6, SumAdd
<1>9. SumFunctionOnSet(a, q[r]) \in Int /\ SumFunctionOnSet(t, q[r]) \in Int
  <2>1. \A x \in q[r] : a[x] \in Int /\ t[x] \in Int
    BY <1>5, <1>6
  <2> QED BY <1>1, <2>1, SumType
<1>10. SentIn(p, u) = SentIn(q, u) + (IF u = Actor[r] THEN n ELSE 0)
  <2>1. PICK f : f = PaidFor(q, u)
    OBVIOUS
  <2>2. PICK g : g = PaidFor(p, u)
    OBVIOUS
  <2>3. \A s \in Requests : f[s] \in Int /\ g[s] \in Int
    BY <2>1, <2>2, PaidForType
  <2>4. \A s \in Requests \ {r} : g[s] = f[s]
    BY <2>1, <2>2 DEF PaidFor
  <2>5. SumFunctionOnSet(g, Requests) = SumFunctionOnSet(f, Requests) - f[r] + g[r]
    BY <2>3, <2>4, FiniteAssumption, SumChange
  <2>6. /\ f[r] = IF Actor[r] = u THEN SumFunctionOnSet(a, q[r]) ELSE 0
        /\ g[r] = IF Actor[r] = u THEN SumFunctionOnSet(a, p[r]) ELSE 0
    BY <1>3, <2>1, <2>2 DEF PaidFor
  <2>7. SumFunctionOnSet(f, Requests) \in Int
    BY <2>3, FiniteAssumption, SumType
  <2>8. SentIn(p, u) = SumFunctionOnSet(g, Requests) /\ SentIn(q, u) = SumFunctionOnSet(f, Requests)
    BY <2>1, <2>2 DEF SentIn
  <2> QED BY <1>5, <1>7, <1>9, <2>5, <2>6, <2>7, <2>8
<1>11. ReceivedIn(p, u) = ReceivedIn(q, u) + (IF u = Items[r][i].to THEN n ELSE 0)
  <2>1. PICK f : f = PaidToIn(q, u)
    OBVIOUS
  <2>2. PICK g : g = PaidToIn(p, u)
    OBVIOUS
  <2>3. \A s \in Requests : f[s] \in Int /\ g[s] \in Int
    BY <2>1, <2>2, PaidForType
  <2>4. \A s \in Requests \ {r} : g[s] = f[s]
    BY <2>1, <2>2 DEF PaidToIn
  <2>5. SumFunctionOnSet(g, Requests) = SumFunctionOnSet(f, Requests) - f[r] + g[r]
    BY <2>3, <2>4, FiniteAssumption, SumChange
  <2>6. f[r] = SumFunctionOnSet(t, q[r]) /\ g[r] = SumFunctionOnSet(t, p[r])
    BY <1>4, <2>1, <2>2 DEF PaidToIn
  <2>7. SumFunctionOnSet(f, Requests) \in Int
    BY <2>3, FiniteAssumption, SumType
  <2>8. ReceivedIn(p, u) = SumFunctionOnSet(g, Requests) /\ ReceivedIn(q, u) = SumFunctionOnSet(f, Requests)
    BY <2>1, <2>2 DEF ReceivedIn
  <2> QED BY <1>2, <1>6, <1>8, <1>9, <2>5, <2>6, <2>7, <2>8
<1> QED BY <1>2, <1>10, <1>11 DEF ItemAdded

\* The equation of wallet and row, over the values it depends on.
Balanced(b, o, k, q, u) == b[Main(u)] = Opening[u] + ReceivedIn(q, u) - SentIn(q, u) + o[u].used + k[u]
\* It is the equation of the model.
LEMMA DebtIsBalanced == DebtMatchesMoney <=> \A u \in Users : Balanced(bal, od, unbooked, posted, u)
BY DEF DebtMatchesMoney, Balanced, ReceivedIn, SentIn, ReceivedBy, SentBy, PaidOut, PaidTo, PaidFor, PaidToIn

\* The terms of the equation are numbers.
LEMMA TermsType ==
  ASSUME IInv, NEW u \in Users
  PROVE  /\ bal[Main(u)] \in Nat /\ Opening[u] \in Nat /\ od[u].used \in Nat /\ unbooked[u] \in Int
         /\ ReceivedIn(posted, u) \in Int /\ SentIn(posted, u) \in Int
<1>1. Main(u) \in Accounts
  BY AccountsDiffer
<1>2. \A r \in Requests : posted[r] \in SUBSET DOMAIN Items[r]
  BY ItemsPosted DEF PostedItems
<1>3. bal[Main(u)] \in Nat /\ unbooked[u] \in Int
  BY <1>1 DEF IInv, TypeOK
<1>4. od[u].used \in Nat
  BY DEF IInv, TypeOK, OverdraftRows
<1>5. ReceivedIn(posted, u) \in Int /\ SentIn(posted, u) \in Int
  BY <1>2, FlowsType
<1> QED BY <1>3, <1>4, <1>5, MoneyAssumption

\* The equation after a step.
LEMMA BalancedNext ==
  ASSUME \A u \in Users : Balanced(bal', od', unbooked', posted', u)
  PROVE  DebtMatchesMoney'
BY DEF DebtMatchesMoney, Balanced, ReceivedIn, SentIn, ReceivedBy, SentBy, PaidOut, PaidTo, PaidFor, PaidToIn

\* A posting that is entered as money not booked yet.
LEMMA CreditBalances ==
  ASSUME IInv, DebtMatchesMoney, NEW r \in Requests, CreditCover(r)
  PROVE  DebtMatchesMoney'
<1>1. \A u \in Users : Balanced(bal, od, unbooked, posted, u)
  BY DebtIsBalanced
<1>2. UNCHANGED <<od, posted>>
  BY DEF CreditCover
<1>3. SUFFICES ASSUME NEW u \in Users PROVE Balanced(bal', od', unbooked', posted', u)
  BY BalancedNext
<1>4. CASE UNCHANGED <<bal, unbooked>>
  BY <1>1, <1>2, <1>4
<1>5. CASE /\ Covers(bal, OverdraftCapital, amount[r])
           /\ bal' = Send(bal, OverdraftCapital, Main(Actor[r]), amount[r])
           /\ unbooked' = [unbooked EXCEPT ![Actor[r]] = unbooked[Actor[r]] + amount[r]]
  <2>1. amount[r] \in Nat /\ Actor[r] \in Users
    BY RequestType DEF AmountInv, CreditCover
  <2>2. /\ OverdraftCapital \in Accounts /\ Main(Actor[r]) \in Accounts /\ OverdraftCapital # Main(Actor[r])
        /\ bal \in [Accounts -> Nat] /\ unbooked \in [Users -> Int]
    BY <2>1, AccountsDiffer DEF IInv, TypeOK
  <2>3. bal[OverdraftCapital] >= amount[r]
    BY <1>5, <2>2, CoveredSource
  <2>4. /\ bal'[Main(Actor[r])] = bal[Main(Actor[r])] + amount[r]
        /\ \A a \in Accounts \ {OverdraftCapital, Main(Actor[r])} : bal'[a] = bal[a]
    BY <1>5, <2>1, <2>2, <2>3, SendEffect
  <2>5. bal'[Main(u)] = bal[Main(u)] + (IF u = Actor[r] THEN amount[r] ELSE 0)
    <3>1. CASE u = Actor[r]
      BY <2>4, <3>1
    <3>2. CASE u # Actor[r]
      <4>1. Main(u) \in Accounts \ {OverdraftCapital, Main(Actor[r])}
        BY <2>1, <3>2, AccountsDiffer
      <4> QED BY <2>4, <3>2, <4>1, TermsType
    <3> QED BY <3>1, <3>2
  <2>6. unbooked'[u] = unbooked[u] + (IF u = Actor[r] THEN amount[r] ELSE 0)
    BY <1>5, <2>1, <2>2
  <2> QED BY <1>1, <1>2, <2>1, <2>5, <2>6, TermsType DEF Balanced
<1> QED BY <1>4, <1>5 DEF CreditCover, CreditFromOverdraft

\* The same in the other direction.
LEMMA RepaymentBalances ==
  ASSUME IInv, DebtMatchesMoney, NEW r \in Requests, DebitRepayment(r)
  PROVE  DebtMatchesMoney'
<1>1. \A u \in Users : Balanced(bal, od, unbooked, posted, u)
  BY DebtIsBalanced
<1>2. UNCHANGED <<od, posted>>
  BY DEF DebitRepayment
<1>3. SUFFICES ASSUME NEW u \in Users PROVE Balanced(bal', od', unbooked', posted', u)
  BY BalancedNext
<1>4. CASE UNCHANGED <<bal, unbooked>>
  BY <1>1, <1>2, <1>4
<1>5. CASE /\ Covers(bal, Main(Debtor(r)), amount[r])
           /\ bal' = Send(bal, Main(Debtor(r)), OverdraftCapital, amount[r])
           /\ unbooked' = [unbooked EXCEPT ![Debtor(r)] = unbooked[Debtor(r)] - amount[r]]
  <2>0. PICK d \in Users : d = Debtor(r)
    BY RequestType
  <2>1. amount[r] \in Nat
    BY RequestType DEF AmountInv, DebitRepayment
  <2>2. /\ OverdraftCapital \in Accounts /\ Main(d) \in Accounts /\ OverdraftCapital # Main(d)
        /\ bal \in [Accounts -> Nat] /\ unbooked \in [Users -> Int]
    BY AccountsDiffer DEF IInv, TypeOK
  <2>3. bal[Main(d)] >= amount[r]
    BY <1>5, <2>0, <2>2, CoveredSource
  <2>4. /\ bal'[Main(d)] = bal[Main(d)] - amount[r]
        /\ \A a \in Accounts \ {Main(d), OverdraftCapital} : bal'[a] = bal[a]
    BY <1>5, <2>0, <2>1, <2>2, <2>3, SendEffect
  <2>5. bal'[Main(u)] = bal[Main(u)] - (IF u = d THEN amount[r] ELSE 0)
    <3>1. CASE u = d
      BY <2>4, <3>1
    <3>2. CASE u # d
      <4>1. Main(u) \in Accounts \ {Main(d), OverdraftCapital}
        BY <3>2, AccountsDiffer
      <4> QED BY <2>4, <3>2, <4>1, TermsType
    <3> QED BY <3>1, <3>2
  <2>6. unbooked'[u] = unbooked[u] - (IF u = d THEN amount[r] ELSE 0)
    BY <1>5, <2>0, <2>1, <2>2
  <2> QED BY <1>1, <1>2, <2>1, <2>5, <2>6, TermsType DEF Balanced
<1> QED BY <1>4, <1>5 DEF DebitRepayment, DebitToOverdraft

\* The debit of an item: less for the sender, more for the recipient.
LEMMA DebitBalances ==
  ASSUME IInv, IInv', DebtMatchesMoney, NEW r \in Requests, Debit(r)
  PROVE  DebtMatchesMoney'
<1>1. \A u \in Users : Balanced(bal, od, unbooked, posted, u)
  BY DebtIsBalanced
<1>2. UNCHANGED <<od, unbooked>>
  BY DEF Debit
<1>3. SUFFICES ASSUME NEW u \in Users PROVE Balanced(bal', od', unbooked', posted', u)
  BY BalancedNext
<1>4. CASE UNCHANGED <<bal, posted>>
  BY <1>1, <1>2, <1>4
<1>5. CASE /\ Covers(bal, Main(Actor[r]), Cents(r))
           /\ bal' = Send(bal, Main(Actor[r]), Main(Recipient(r)), Cents(r))
           /\ posted' = [posted EXCEPT ![r] = posted[r] \cup {item[r]}]
  <2>1. IsTransfer(r) /\ posted[r] = 1 .. (item[r] - 1)
    BY RequestType DEF Debit, BookInv
  <2>2. PICK a \in Users, d \in Users, n \in Nat, i \in DOMAIN Items[r] :
          /\ a = Actor[r] /\ d = Recipient(r) /\ n = Cents(r) /\ i = item[r] /\ a # d
          /\ d = Items[r][i].to /\ n = Items[r][i].amount
    BY <2>1, RequestType DEF Recipient, Cents
  <2>3. /\ Main(a) \in Accounts /\ Main(d) \in Accounts /\ Main(a) # Main(d) /\ bal \in [Accounts -> Nat]
    BY <2>2, AccountsDiffer DEF IInv, TypeOK
  <2>4. bal[Main(a)] >= n
    BY <1>5, <2>2, <2>3, CoveredSource
  <2>5. /\ bal'[Main(a)] = bal[Main(a)] - n /\ bal'[Main(d)] = bal[Main(d)] + n
        /\ \A x \in Accounts \ {Main(a), Main(d)} : bal'[x] = bal[x]
    BY <1>5, <2>2, <2>3, <2>4, SendEffect
  <2>6. /\ (\A s \in Requests : posted[s] \in SUBSET DOMAIN Items[s])
        /\ (\A s \in Requests : posted'[s] \in SUBSET DOMAIN Items[s])
    <3>1. PostedItems /\ PostedItems'
      BY ItemsPosted, PTL
    <3> QED BY <3>1 DEF PostedItems
  <2>7. /\ posted'[r] = posted[r] \cup {i} /\ \A s \in Requests \ {r} : posted'[s] = posted[s]
    BY <1>5, <2>2 DEF IInv, TypeOK
  <2>8. i \notin posted[r]
    <3>1. item[r] \in Nat /\ posted[r] = 1 .. (item[r] - 1)
      BY <2>1, RequestType
    <3> QED BY <2>2, <3>1
  <2>9. /\ SentIn(posted', u) = SentIn(posted, u) + (IF u = Actor[r] THEN Items[r][i].amount ELSE 0)
        /\ ReceivedIn(posted', u) = ReceivedIn(posted, u) + (IF u = Items[r][i].to THEN Items[r][i].amount ELSE 0)
    <3>1. PICK q : q = posted
      OBVIOUS
    <3>2. PICK p : p = posted'
      OBVIOUS
    <3>3. \A s \in Requests : q[s] \in SUBSET DOMAIN Items[s]
      BY <2>6, <3>1
    <3>4. \A s \in Requests : p[s] \in SUBSET DOMAIN Items[s]
      BY <2>6, <3>2
    <3>5. i \notin q[r] /\ p[r] = q[r] \cup {i}
      BY <2>7, <2>8, <3>1, <3>2
    <3>6. \A s \in Requests \ {r} : p[s] = q[s]
      BY <2>7, <3>1, <3>2
    <3>7. ItemAdded(q, p, r, i, u)
      BY <3>3, <3>4, <3>5, <3>6, ItemAdds
    <3> QED BY <3>1, <3>2, <3>7 DEF ItemAdded
  <2>10. /\ SentIn(posted', u) = SentIn(posted, u) + (IF u = a THEN n ELSE 0)
         /\ ReceivedIn(posted', u) = ReceivedIn(posted, u) + (IF u = d THEN n ELSE 0)
    BY <2>2, <2>9
  <2>11. bal'[Main(u)] = bal[Main(u)] - (IF u = a THEN n ELSE 0) + (IF u = d THEN n ELSE 0)
    <3>1. CASE u = a
      BY <2>2, <2>5, <3>1, TermsType
    <3>2. CASE u = d
      BY <2>2, <2>5, <3>2, TermsType
    <3>3. CASE u # a /\ u # d
      <4>1. Main(u) \in Accounts \ {Main(a), Main(d)}
        BY <3>3, AccountsDiffer
      <4> QED BY <2>5, <3>3, <4>1, TermsType
    <3> QED BY <3>1, <3>2, <3>3
  <2> QED BY <1>1, <1>2, <2>10, <2>11, TermsType DEF Balanced
<1> QED BY <1>4, <1>5 DEF Debit, DebitWallet

\* Entering a use books what was moved.
LEMMA UseBalances ==
  ASSUME IInv, DebtMatchesMoney, NEW r \in Requests, SaveCover(r)
  PROVE  DebtMatchesMoney'
<1>1. \A u \in Users : Balanced(bal, od, unbooked, posted, u)
  BY DebtIsBalanced
<1>2. UNCHANGED <<bal, posted>>
  BY DEF SaveCover
<1>3. SUFFICES ASSUME NEW u \in Users PROVE Balanced(bal', od', unbooked', posted', u)
  BY BalancedNext
<1>4. CASE UNCHANGED <<od, unbooked>>
  BY <1>1, <1>2, <1>4
<1>5. CASE /\ od' = [od EXCEPT ![Actor[r]] = UpdateUsedAndStatus(od[Actor[r]], read[r], amount[r])]
           /\ unbooked' = [unbooked EXCEPT ![Actor[r]] = unbooked[Actor[r]] - amount[r]]
  <2>1. amount[r] \in Nat /\ Actor[r] \in Users /\ read[r] \in OverdraftRows
    BY RequestType DEF AmountInv, SaveCover
  <2>2. od \in [Users -> OverdraftRows] /\ unbooked \in [Users -> Int]
    BY DEF IInv, TypeOK
  <2>3. PICK p : p = UpdateUsedAndStatus(od[Actor[r]], read[r], amount[r])
    OBVIOUS
  <2>4. IsUsedRow(p, od[Actor[r]], amount[r])
    BY <2>1, <2>2, <2>3, UsedRow
  <2>5. p.used = od[Actor[r]].used + amount[r]
    BY <2>4 DEF IsUsedRow
  <2>6. od'[u] = IF u = Actor[r] THEN p ELSE od[u]
    BY <1>5, <2>2, <2>3
  <2>7. od'[u].used = od[u].used + (IF u = Actor[r] THEN amount[r] ELSE 0)
    BY <2>5, <2>6, TermsType
  <2>8. unbooked'[u] = unbooked[u] - (IF u = Actor[r] THEN amount[r] ELSE 0)
    BY <1>5, <2>1, <2>2
  <2> QED BY <1>1, <1>2, <2>1, <2>7, <2>8, TermsType DEF Balanced
<1> QED BY <1>4, <1>5 DEF SaveCover

\* Entering a repayment does too, when the row is still the one that was read.
LEMMA RepaidBalances ==
  ASSUME IInv, DebtMatchesMoney, NEW r \in Requests, Fresh(r), SaveRepayment(r)
  PROVE  DebtMatchesMoney'
<1>1. \A u \in Users : Balanced(bal, od, unbooked, posted, u)
  BY DebtIsBalanced
<1>2. UNCHANGED <<bal, posted>>
  BY DEF SaveRepayment
<1>3. SUFFICES ASSUME NEW u \in Users PROVE Balanced(bal', od', unbooked', posted', u)
  BY BalancedNext
<1>4. CASE UNCHANGED <<od, unbooked>>
  BY <1>1, <1>2, <1>4
<1>5. CASE /\ od' = [od EXCEPT ![Debtor(r)] = UpdateRepaid(od[Debtor(r)], read[r], amount[r])]
           /\ unbooked' = [unbooked EXCEPT ![Debtor(r)] = unbooked[Debtor(r)] + amount[r]]
  <2>0. PICK d \in Users : d = Debtor(r)
    BY RequestType
  <2>1. read[r] \in OverdraftRows /\ read[r].accrued = 0 /\ read[r] = od[d] /\ amount[r] \in 1 .. read[r].used
    BY <2>0, RequestType DEF Fresh, SaveRepayment
  <2>2. od \in [Users -> OverdraftRows] /\ unbooked \in [Users -> Int] /\ od[d] \in OverdraftRows
    BY DEF IInv, TypeOK
  <2>3. PICK p : p = UpdateRepaid(od[d], read[r], amount[r])
    OBVIOUS
  <2>4. amount[r] \in Nat /\ amount[r] <= od[d].used /\ od[d].used \in Nat
    BY <2>1, <2>2, TermsType
  <2>5. IsRepaidRow(p, od[d], read[r], amount[r])
    BY <2>1, <2>2, <2>3, <2>4, RepaidRow
  <2>6. p.used = od[d].used - amount[r]
    BY <2>1, <2>4, <2>5 DEF IsRepaidRow
  <2>7. od'[u] = IF u = d THEN p ELSE od[u]
    BY <1>5, <2>0, <2>2, <2>3
  <2>8. od'[u].used = od[u].used - (IF u = d THEN amount[r] ELSE 0)
    BY <2>6, <2>7, TermsType
  <2>9. unbooked'[u] = unbooked[u] + (IF u = d THEN amount[r] ELSE 0)
    BY <1>5, <2>0, <2>2, <2>4
  <2> QED BY <1>1, <1>2, <2>4, <2>8, <2>9, TermsType DEF Balanced
<1> QED BY <1>4, <1>5 DEF SaveRepayment

\* Opting in or out moves nothing.
LEMMA OptBalances ==
  ASSUME IInv, DebtMatchesMoney, NEW r \in Requests, SaveOpt(r)
  PROVE  DebtMatchesMoney'
<1>1. \A u \in Users : Balanced(bal, od, unbooked, posted, u)
  BY DebtIsBalanced
<1>2. UNCHANGED <<bal, unbooked, posted>>
  BY DEF SaveOpt
<1>3. SUFFICES ASSUME NEW u \in Users PROVE Balanced(bal', od', unbooked', posted', u)
  BY BalancedNext
<1>4. Actor[r] \in Users /\ read[r] \in OverdraftRows
  BY RequestType
<1>5. od \in [Users -> OverdraftRows] /\ od[Actor[r]] \in OverdraftRows
  BY <1>4 DEF IInv, TypeOK
<1>6. PICK n \in Nat, st \in {"active", "inactive"} :
        od' = [od EXCEPT ![Actor[r]] = CreateOrUpdate(od[Actor[r]], n, st)]
  <2>1. LimitFor(Profile[Actor[r]]) \in Nat /\ read[r].limit \in Nat
    BY <1>4, LimitType DEF OverdraftRows
  <2> QED BY <2>1 DEF SaveOpt
<1>7. PICK p : p = CreateOrUpdate(od[Actor[r]], n, st)
  OBVIOUS
<1>8. IsOptedRow(p, od[Actor[r]], n, st)
  BY <1>5, <1>7, OptedRow
<1>9. od'[u].used = od[u].used
  <2>1. p.used = od[Actor[r]].used
    BY <1>8 DEF IsOptedRow
  <2>2. od'[u] = IF u = Actor[r] THEN p ELSE od[u]
    BY <1>5, <1>6, <1>7
  <2> QED BY <2>1, <2>2
<1> QED BY <1>1, <1>2, <1>9, TermsType DEF Balanced

\* Every step keeps wallet and row in balance, as long as what was read is fresh.
LEMMA StepBalances ==
  ASSUME IInv, IInv', DebtMatchesMoney, NEW r \in Requests, Fresh(r), Serve(r) \/ Crash(r)
  PROVE  DebtMatchesMoney'
<1>1. CASE CreditCover(r)
  BY <1>1, CreditBalances
<1>2. CASE DebitRepayment(r)
  BY <1>2, RepaymentBalances
<1>3. CASE Debit(r)
  BY <1>3, DebitBalances
<1>4. CASE SaveCover(r)
  BY <1>4, UseBalances
<1>5. CASE SaveRepayment(r)
  BY <1>5, RepaidBalances
<1>6. CASE SaveOpt(r)
  BY <1>6, OptBalances
<1>7. CASE UNCHANGED <<bal, od, unbooked, posted>>
  BY <1>7 DEF DebtMatchesMoney, ReceivedBy, SentBy, PaidOut, PaidTo
<1>8. CASE \/ BeginTransfer(r) \/ UseCover(r) \/ AutoRepayOnInflow(r) \/ Received(r) \/ Close(r)
           \/ BeginRepay(r) \/ BeginOpt(r) \/ Crash(r)
  <2>1. UNCHANGED <<bal, od, unbooked, posted>>
    BY <1>8 DEF BeginTransfer, UseCover, AutoRepayOnInflow, Received, Close, BeginRepay, BeginOpt, Crash
  <2> QED BY <1>7, <2>1
<1> QED BY <1>1, <1>2, <1>3, <1>4, <1>5, <1>6, <1>8 DEF Serve

\* A use within the limit leaves a consistent row.
LEMMA UsedFacility ==
  ASSUME NEW o \in OverdraftRows, NEW n \in Nat \ {0}, NEW p, o.accrued = 0, CanCover(o, n), IsUsedRow(p, o, n)
  PROVE  Facility(p)
<1>1. /\ p.used = o.used + n /\ p.accrued = 0 /\ p.limit = o.limit /\ p.status = "used"
      /\ o.used \in Nat /\ o.limit \in Nat /\ o.limit - o.used >= n
  BY DEF IsUsedRow, CanCover, OverdraftRows
<1>2. p.used \in 0 .. p.limit /\ Owed(p) > 0
  BY <1>1 DEF Owed
<1> QED BY <1>1, <1>2 DEF Facility

\* So does a repayment of no more than what is used.
LEMMA RepaidFacility ==
  ASSUME NEW o \in OverdraftRows, NEW n \in 1 .. o.used, NEW p, Facility(o), IsRepaidRow(p, o, o, n)
  PROVE  Facility(p)
<1>1. o.used \in Nat /\ o.limit \in Nat /\ o.used <= o.limit
  BY DEF Facility, OverdraftRows
<1>2. p.used = o.used - n /\ p.accrued = 0 /\ p.limit = o.limit /\ p.since = FALSE
  BY <1>1 DEF IsRepaidRow
<1>3. p.status = IF p.used > 0 THEN "used" ELSE "active"
  BY DEF IsRepaidRow
<1>4. p.used \in 0 .. p.limit /\ Owed(p) = p.used
  BY <1>1, <1>2 DEF Owed
<1>5. (p.status = "used") <=> (Owed(p) > 0)
  BY <1>3, <1>4
<1> QED BY <1>2, <1>4, <1>5 DEF Facility

\* And opting in or out when nothing is used.
LEMMA OptedFacility ==
  ASSUME NEW o \in OverdraftRows, NEW n \in Nat, NEW st \in {"active", "inactive"}, NEW p,
         Facility(o), Owed(o) = 0, o.accrued = 0, IsOptedRow(p, o, n, st)
  PROVE  Facility(p)
<1>1. o.used = 0 /\ ~o.since
  BY DEF Facility, Owed, OverdraftRows
<1>2. p.used = 0 /\ p.accrued = 0 /\ p.limit = n /\ p.status = st /\ p.since = o.since
  BY <1>1 DEF IsOptedRow
<1>3. Owed(p) = 0 /\ p.used \in 0 .. p.limit
  BY <1>2 DEF Owed
<1>4. ~p.since /\ p.status # "used"
  BY <1>1, <1>2
<1> QED BY <1>3, <1>4 DEF Facility

\* Whose row a step of request r writes, and that the row it writes is consistent.
RowWritten(r) ==
  \/ od' = od
  \/ /\ InFlight(r)
     /\ \E v \in Involved(r) \cap Users :
          Facility(od'[v]) /\ \A u \in Users \ {v} : od'[u] = od[u]

\* The users a request involves.
LEMMA InvolvedType ==
  ASSUME IInv, NEW r \in Requests
  PROVE  Actor[r] \in Involved(r) /\ Debtor(r) \in Involved(r)
<1>1. IsTransfer(r) => Recipient(r) \in Involved(r)
  BY RequestType DEF Involved, Recipient
<1>2. Actor[r] \in Involved(r)
  BY DEF Involved
<1> QED BY <1>1, <1>2 DEF Debtor

\* Every write of a row comes from a request in flight that read the row as it is.
LEMMA StepRow ==
  ASSUME IInv, NEW r \in Requests, Fresh(r), \A u \in Users : Facility(od[u]), Serve(r) \/ Crash(r)
  PROVE  RowWritten(r)
<1>0. /\ od \in [Users -> OverdraftRows] /\ Actor[r] \in Users /\ Debtor(r) \in Users
      /\ read[r] \in OverdraftRows /\ read[r].accrued = 0
      /\ \A u \in Users : od[u] \in OverdraftRows /\ od[u].accrued = 0
  BY RequestType DEF IInv, TypeOK, NoFees
<1>1. CASE SaveCover(r)
  <2>1. CASE od' = od
    BY <2>1 DEF RowWritten
  <2>2. CASE od' = [od EXCEPT ![Actor[r]] = UpdateUsedAndStatus(od[Actor[r]], read[r], amount[r])]
    <3>1. InFlight(r) /\ read[r] = od[Actor[r]] /\ CanCover(read[r], amount[r]) /\ amount[r] \in Nat \ {0}
      BY <1>1, RequestType DEF SaveCover, InFlight, Fresh, AmountInv
    <3>2. PICK p : p = UpdateUsedAndStatus(od[Actor[r]], read[r], amount[r])
      OBVIOUS
    <3>3. IsUsedRow(p, od[Actor[r]], amount[r])
      BY <1>0, <3>1, <3>2, UsedRow
    <3>4. Facility(p)
      BY <1>0, <3>1, <3>3, UsedFacility
    <3>5. od'[Actor[r]] = p /\ \A u \in Users \ {Actor[r]} : od'[u] = od[u]
      BY <1>0, <2>2, <3>2
    <3> QED BY <1>0, <3>1, <3>4, <3>5, InvolvedType DEF RowWritten
  <2> QED BY <1>1, <2>1, <2>2 DEF SaveCover
<1>2. CASE SaveRepayment(r)
  <2>1. CASE od' = od
    BY <2>1 DEF RowWritten
  <2>2. CASE od' = [od EXCEPT ![Debtor(r)] = UpdateRepaid(od[Debtor(r)], read[r], amount[r])]
    <3>1. PICK d \in Users : d = Debtor(r)
      BY <1>0
    <3>2. InFlight(r) /\ read[r] = od[d] /\ amount[r] \in 1 .. read[r].used
      BY <1>2, <3>1 DEF SaveRepayment, InFlight, Fresh
    <3>0. PICK o \in OverdraftRows : o = od[d]
      BY <1>0
    <3>3. PICK p : p = UpdateRepaid(o, o, amount[r])
      OBVIOUS
    <3>4. amount[r] \in 1 .. o.used /\ amount[r] \in Nat /\ o.accrued = 0 /\ Facility(o)
      BY <1>0, <3>0, <3>2 DEF OverdraftRows
    <3>5. IsRepaidRow(p, o, o, amount[r])
      BY <3>3, <3>4, RepaidRow
    <3>6. Facility(p)
      BY <3>4, <3>5, RepaidFacility
    <3>7. od'[d] = p /\ \A u \in Users \ {d} : od'[u] = od[u]
      BY <1>0, <2>2, <3>0, <3>1, <3>2, <3>3
    <3>8. d \in Involved(r) \cap Users
      BY <3>1, InvolvedType
    <3> QED BY <3>2, <3>6, <3>7, <3>8 DEF RowWritten
  <2> QED BY <1>2, <2>1, <2>2 DEF SaveRepayment
<1>3. CASE SaveOpt(r)
  <2>1. PICK o \in OverdraftRows : o = od[Actor[r]] /\ Facility(o) /\ o.accrued = 0
    BY <1>0
  <2>2. InFlight(r) /\ Owed(o) = 0
    <3>1. InFlight(r) /\ read[r] = o /\ (o.status \notin {"active", "used"} \/ CanOptOut(o))
      BY <1>3, <2>1 DEF SaveOpt, InFlight, Fresh
    <3>2. Owed(o) \in Nat /\ (CanOptOut(o) => Owed(o) = 0)
      BY DEF Owed, CanOptOut, OverdraftRows
    <3>3. o.status # "used" => ~(Owed(o) > 0)
      BY <2>1 DEF Facility
    <3> QED BY <3>1, <3>2, <3>3
  <2>3. PICK n \in Nat, st \in {"active", "inactive"} :
          od' = [od EXCEPT ![Actor[r]] = CreateOrUpdate(od[Actor[r]], n, st)]
    <3>1. LimitFor(Profile[Actor[r]]) \in Nat /\ read[r].limit \in Nat
      BY <1>0, LimitType DEF OverdraftRows
    <3> QED BY <1>3, <3>1 DEF SaveOpt
  <2>4. PICK p : p = CreateOrUpdate(o, n, st)
    OBVIOUS
  <2>5. IsOptedRow(p, o, n, st)
    BY <2>4, OptedRow
  <2>6. Facility(p)
    BY <2>1, <2>2, <2>5, OptedFacility
  <2>7. od'[Actor[r]] = p /\ \A u \in Users \ {Actor[r]} : od'[u] = od[u]
    BY <1>0, <2>1, <2>3, <2>4
  <2> QED BY <1>0, <2>2, <2>6, <2>7, InvolvedType DEF RowWritten
<1>4. CASE ~SaveCover(r) /\ ~SaveRepayment(r) /\ ~SaveOpt(r)
  <2>1. od' = od
    BY <1>4 DEF Serve, BeginTransfer, UseCover, CreditCover, Debit, AutoRepayOnInflow, Received, Close,
                BeginRepay, DebitRepayment, BeginOpt, Crash
  <2> QED BY <2>1 DEF RowWritten
<1> QED BY <1>1, <1>2, <1>3, <1>4

\* While no two requests of a user are in flight, a request that starts has its users to itself.
LEMMA StepIsolated ==
  ASSUME IInv, apart => Isolated, apart', NEW r \in Requests, Serve(r) \/ Crash(r)
  PROVE  apart /\ Isolated /\ Isolated'
<1>1. Elsewhere(r) /\ pc[r] # "done"
  BY StepElsewhere
<1>2. /\ apart
      /\ InFlight(r) \/ \A s \in Requests : InFlight(s) => Involved(s) \cap Involved(r) = {}
  <2>1. CASE Start(r)
    BY <2>1 DEF Start, InFlight
  <2>2. CASE ~Start(r)
    <3>1. apart' = apart /\ InFlight(r)
      BY <2>2 DEF Serve, BeginTransfer, UseCover, CreditCover, SaveCover, Debit, AutoRepayOnInflow, Received,
                  Close, BeginRepay, DebitRepayment, SaveRepayment, BeginOpt, SaveOpt, Crash, InFlight
    <3> QED BY <3>1
  <2> QED BY <2>1, <2>2
<1>3. Isolated
  BY <1>2
<1>4. \A s \in Requests \ {r} : InFlight(s)' <=> InFlight(s)
  BY <1>1 DEF Elsewhere, InFlight
<1>5. \A s \in Requests \ {r} : InFlight(s) => Involved(s) \cap Involved(r) = {}
  <2> SUFFICES ASSUME NEW s \in Requests \ {r}, InFlight(s) PROVE Involved(s) \cap Involved(r) = {}
    OBVIOUS
  <2>1. CASE InFlight(r)
    BY <1>3, <2>1 DEF Isolated
  <2> QED BY <1>2, <2>1
<1>6. Isolated'
  <2> SUFFICES ASSUME NEW s \in Requests, NEW t \in Requests, s # t, InFlight(s)', InFlight(t)'
               PROVE  Involved(s) \cap Involved(t) = {}
    BY DEF Isolated, Involved
  <2>1. CASE s = r
    BY <1>4, <1>5, <2>1
  <2>2. CASE t = r
    BY <1>4, <1>5, <2>2
  <2>3. CASE s # r /\ t # r
    BY <1>3, <1>4, <2>3 DEF Isolated
  <2> QED BY <2>1, <2>2, <2>3
<1> QED BY <1>2, <1>3, <1>6

\* What another request has read is still so: its users are not those of r.
LEMMA OthersStayFresh ==
  ASSUME IInv, NEW r \in Requests, NEW s \in Requests \ {r}, Elsewhere(r), RowWritten(r), Isolated, Fresh(s)
  PROVE  Fresh(s)'
<1>1. /\ pc'[s] = pc[s] /\ item'[s] = item[s] /\ read'[s] = read[s] /\ amount'[s] = amount[s]
  BY DEF Elsewhere
<1>2. Debtor(s)' = Debtor(s)
  BY <1>1 DEF Debtor, Recipient
<1>3. CASE ~InFlight(s)
  BY <1>1, <1>3 DEF InFlight, Fresh
<1>4. CASE InFlight(s)
  <2>1. od'[Actor[s]] = od[Actor[s]] /\ od'[Debtor(s)] = od[Debtor(s)]
    <3>1. CASE od' = od
      BY <3>1
    <3>2. CASE od' # od
      <4>1. InFlight(r)
        BY <3>2 DEF RowWritten
      <4>2. PICK v \in Involved(r) \cap Users : \A u \in Users \ {v} : od'[u] = od[u]
        BY <3>2 DEF RowWritten
      <4>3. Involved(r) \cap Involved(s) = {}
        BY <1>4, <4>1 DEF Isolated
      <4>4. Actor[s] # v /\ Debtor(s) # v /\ Actor[s] \in Users /\ Debtor(s) \in Users
        BY <4>2, <4>3, InvolvedType, RequestType
      <4> QED BY <4>2, <4>4
    <3> QED BY <3>1, <3>2
  <2>2. Fresh(s)' <=> /\ pc[s] \in {"credit", "covered"} => read[s] = od'[Actor[s]] /\ CanCover(read[s], amount[s])
                      /\ pc[s] \in {"repay", "repaid"} => read[s] = od'[Debtor(s)] /\ amount[s] \in 1 .. read[s].used
                      /\ pc[s] = "save" => read[s] = od'[Actor[s]] /\ (IF Kind[s] = "optin" THEN read[s].status \notin {"active", "used"}
                                                                     ELSE CanOptOut(read[s]))
    BY <1>1, <1>2 DEF Fresh
  <2> QED BY <2>1, <2>2 DEF Fresh
<1> QED BY <1>3, <1>4

\* A step that reads the facility finds it as it is.
LEMMA MoverIsFresh ==
  ASSUME IInv, IInv', NEW r \in Requests, \A u \in Users : Facility(od[u]), Fresh(r), Serve(r) \/ Crash(r)
  PROVE  Fresh(r)'
<1>0. /\ TypeOK /\ NoFees /\ Actor[r] \in Users /\ Debtor(r) \in Users
      /\ \A u \in Users : od[u] \in OverdraftRows /\ od[u].accrued = 0 /\ od[u].used \in Nat
  BY RequestType DEF IInv, TypeOK, NoFees, OverdraftRows
<1>1. CASE UseCover(r)
  <2>1. Read(r, Actor[r]) /\ od' = od /\ amount' = amount
    BY <1>1 DEF UseCover
  <2>2. \/ Goto(r, "credit") /\ CanCover(read'[r], amount[r])
        \/ Goto(r, "done")
    BY <1>1 DEF UseCover
  <2>3. pc'[r] = "done" \/ (pc'[r] = "credit" /\ CanCover(read'[r], amount'[r]))
    BY <1>0, <2>1, <2>2, GotoEffect DEF Steps
  <2>4. read'[r] = od'[Actor[r]]
    BY <1>0, <2>1, ReadEffect
  <2> QED BY <2>3, <2>4 DEF Fresh
<1>2. CASE CreditCover(r)
  <2>1. od' = od /\ amount' = amount /\ read' = read /\ pc[r] = "credit"
    BY <1>2 DEF CreditCover
  <2>2. Goto(r, "covered") \/ Goto(r, "done")
    BY <1>2 DEF CreditCover
  <2>3. pc'[r] \in {"covered", "done"}
    BY <1>0, <2>2, GotoEffect DEF Steps
  <2> QED BY <2>1, <2>3 DEF Fresh
<1>3. CASE AutoRepayOnInflow(r)
  <2>0. IsTransfer(r) /\ Recipient(r) \in Users /\ Cents(r) \in Nat \ {0} /\ item' = item /\ od' = od
    BY <1>3, RequestType DEF AutoRepayOnInflow, BookInv
  <2>1. \/ Goto(r, "received")
        \/ /\ Read(r, Recipient(r)) /\ amount' = [amount EXCEPT ![r] = RepayAmount(read'[r], Cents(r))]
           /\ Goto(r, "repay") /\ CanRepay(read'[r])
    BY <1>3 DEF AutoRepayOnInflow
  <2>2. CASE Goto(r, "received")
    <3>1. pc'[r] = "received"
      BY <1>0, <2>2, GotoEffect DEF Steps
    <3> QED BY <3>1 DEF Fresh
  <2>3. CASE /\ Read(r, Recipient(r)) /\ amount' = [amount EXCEPT ![r] = RepayAmount(read'[r], Cents(r))]
             /\ Goto(r, "repay") /\ CanRepay(read'[r])
    <3>1. pc'[r] = "repay"
      BY <1>0, <2>3, GotoEffect DEF Steps
    <3>2. PICK o \in OverdraftRows : o = read'[r] /\ o = od[Recipient(r)] /\ o.accrued = 0 /\ o.used \in Nat
      BY <1>0, <2>0, <2>3, ReadEffect
    <3>3. PICK n \in Nat : n = RepayAmount(o, Cents(r)) /\ n \in 1 .. o.used
      <4>1. o.used > 0
        BY <2>3, <3>2, RepayAmountType DEF CanRepay
      <4> QED BY <2>0, <3>2, <4>1, RepayAmountType
    <3>4. amount'[r] = n
      BY <1>0, <2>3, <3>2, <3>3 DEF TypeOK
    <3>5. Debtor(r)' = Recipient(r)
      BY <2>0, <3>1 DEF Debtor, Recipient
    <3>6. read'[r] = od'[Debtor(r)'] /\ amount'[r] \in 1 .. read'[r].used
      BY <2>0, <3>2, <3>3, <3>4, <3>5
    <3> QED BY <3>1, <3>6 DEF Fresh
  <2> QED BY <2>1, <2>2, <2>3
<1>4. CASE BeginRepay(r)
  <2>0. ~IsTransfer(r) /\ od' = od /\ Repayment[r] \in Nat \ {0}
    <3>1. Kind[r] = "repay" /\ od' = od
      BY <1>4 DEF BeginRepay
    <3> QED BY <3>1, FormAssumption DEF IsTransfer, WellFormed
  <2>1. Read(r, Actor[r]) /\ amount' = [amount EXCEPT ![r] = RepayAmount(read'[r], Repayment[r])]
    BY <1>4 DEF BeginRepay
  <2>2. (read'[r].status = "used" /\ Goto(r, "repay")) \/ Goto(r, "done")
    BY <1>4 DEF BeginRepay
  <2>3. pc'[r] = "done" \/ (pc'[r] = "repay" /\ read'[r].status = "used")
    BY <1>0, <2>2, GotoEffect DEF Steps
  <2>4. PICK o \in OverdraftRows : o = read'[r] /\ o = od[Actor[r]] /\ o.accrued = 0 /\ o.used \in Nat /\ Facility(o)
    BY <1>0, <2>1, ReadEffect
  <2>5. ASSUME o.status = "used" PROVE amount'[r] \in 1 .. o.used
    <3>1. o.used > 0
      BY <2>4, <2>5, RepayAmountType DEF Facility
    <3>2. PICK n \in Nat : n = RepayAmount(o, Repayment[r]) /\ n \in 1 .. o.used
      BY <2>0, <2>4, <3>1, RepayAmountType
    <3>3. amount'[r] = n
      BY <1>0, <2>1, <2>4, <3>2 DEF TypeOK
    <3> QED BY <3>2, <3>3
  <2>6. Debtor(r)' = Actor[r]
    BY <2>0 DEF Debtor
  <2>7. read'[r] = od'[Debtor(r)']
    BY <2>0, <2>4, <2>6
  <2>8. pc'[r] = "repay" => amount'[r] \in 1 .. read'[r].used
    BY <2>3, <2>4, <2>5
  <2> QED BY <2>3, <2>7, <2>8 DEF Fresh
<1>5. CASE DebitRepayment(r)
  <2>1. od' = od /\ amount' = amount /\ read' = read /\ item' = item /\ pc[r] = "repay"
    BY <1>5 DEF DebitRepayment
  <2>2. Goto(r, "repaid") \/ Goto(r, "received") \/ Goto(r, "done")
    BY <1>5 DEF DebitRepayment, AfterRepayment
  <2>3. pc'[r] \in {"repaid", "received", "done"}
    BY <1>0, <2>2, GotoEffect DEF Steps
  <2>4. pc'[r] = "repaid" => Debtor(r)' = Debtor(r)
    BY <2>1 DEF Debtor, Recipient
  <2> QED BY <2>1, <2>3, <2>4 DEF Fresh
<1>6. CASE BeginOpt(r)
  <2>1. Read(r, Actor[r]) /\ od' = od
    BY <1>6 DEF BeginOpt
  <2>2. \/ /\ Goto(r, "save")
           /\ IF Kind[r] = "optin" THEN CanOptIn(read'[r], LimitFor(Profile[Actor[r]])) ELSE CanOptOut(read'[r])
        \/ Goto(r, "done")
    BY <1>6 DEF BeginOpt
  <2>3. pc'[r] = "done"
        \/ /\ pc'[r] = "save"
           /\ IF Kind[r] = "optin" THEN read'[r].status \notin {"active", "used"} ELSE CanOptOut(read'[r])
    BY <1>0, <2>2, GotoEffect DEF Steps, CanOptIn
  <2>4. read'[r] = od'[Actor[r]]
    BY <1>0, <2>1, ReadEffect
  <2> QED BY <2>3, <2>4 DEF Fresh
<1>7. CASE \/ BeginTransfer(r) \/ SaveCover(r) \/ Debit(r) \/ Received(r) \/ Close(r)
           \/ SaveRepayment(r) \/ SaveOpt(r) \/ Crash(r)
  <2>1. \E step \in {"done", "cover", "debit", "inflow", "received", "close"} : Goto(r, step)
    BY <1>7 DEF BeginTransfer, SaveCover, Debit, AfterDebit, Received, Close, SaveRepayment, AfterRepayment, SaveOpt, Crash
  <2>2. pc'[r] \in {"done", "cover", "debit", "inflow", "received", "close"}
    BY <1>0, <2>1, GotoEffect DEF Steps
  <2> QED BY <2>2 DEF Fresh
<1> QED BY <1>1, <1>2, <1>3, <1>4, <1>5, <1>6, <1>7 DEF Serve

\* At the start nothing is read, owed or moved.
LEMMA InitApart == Init => ApartInv
<1> SUFFICES ASSUME Init PROVE ApartInv
  OBVIOUS
<1>1. Isolated
  BY DEF Init, Isolated, InFlight
<1>2. \A u \in Users : Facility(od[u])
  BY DEF Init, Facility, NoOverdraft, Owed
<1>3. \A r \in Requests : Fresh(r)
  BY DEF Init, Fresh
<1>4. ASSUME NEW u \in Users PROVE Balanced(bal, od, unbooked, posted, u)
  <2>1. \A r \in Requests : posted[r] = {}
    BY DEF Init
  <2>2. \A r \in Requests : PaidFor(posted, u)[r] = 0 /\ PaidToIn(posted, u)[r] = 0
    BY <2>1, SumEmpty DEF PaidFor, PaidToIn
  <2>3. /\ SumFunctionOnSet(PaidFor(posted, u), Requests) = Cardinality(Requests) * 0
        /\ SumFunctionOnSet(PaidToIn(posted, u), Requests) = Cardinality(Requests) * 0
    BY <2>2, FiniteAssumption, SumConstant
  <2>4. Cardinality(Requests) * 0 = 0
    BY FiniteAssumption, FS_CardinalityType
  <2>5. SentIn(posted, u) = 0 /\ ReceivedIn(posted, u) = 0
    BY <2>3, <2>4 DEF SentIn, ReceivedIn
  <2>6. bal[Main(u)] = Opening[u]
    <3>1. Main(u) \in Accounts /\ Main(u) # OverdraftCapital /\ Main(u)[2] = u
      BY AccountsDiffer DEF Main
    <3> QED BY <3>1 DEF Init
  <2>7. od[u].used = 0 /\ unbooked[u] = 0
    BY DEF Init, NoOverdraft
  <2> QED BY <2>5, <2>6, <2>7, MoneyAssumption DEF Balanced
<1>5. DebtMatchesMoney
  BY <1>4, DebtIsBalanced
<1> QED BY <1>1, <1>2, <1>3, <1>5 DEF ApartInv

\* Every step keeps the facility to the ledger, while no two requests of a user overlap.
LEMMA StepApart == IInv /\ IInv' /\ ApartInv /\ [Next]_vars => ApartInv'
<1> SUFFICES ASSUME IInv, IInv', ApartInv, [Next]_vars, apart'
             PROVE  /\ Isolated' /\ DebtMatchesMoney'
                    /\ (\A u \in Users : Facility(od[u]))'
                    /\ (\A r \in Requests : Fresh(r))'
  BY DEF ApartInv
<1>1. CASE UNCHANGED vars
  BY <1>1 DEF vars, ApartInv, Isolated, InFlight, DebtMatchesMoney, ReceivedBy, SentBy, PaidOut, PaidTo,
              Fresh, Debtor, Recipient
<1>2. CASE \E r \in Requests : Serve(r) \/ Crash(r)
  <2>0. PICK r \in Requests : Serve(r) \/ Crash(r)
    BY <1>2
  <2>1. apart /\ Isolated /\ Isolated'
    BY <2>0, StepIsolated DEF ApartInv
  <2>2. DebtMatchesMoney /\ (\A u \in Users : Facility(od[u])) /\ \A s \in Requests : Fresh(s)
    BY <2>1 DEF ApartInv
  <2>3. DebtMatchesMoney'
    BY <2>0, <2>2, StepBalances
  <2>4. RowWritten(r) /\ Elsewhere(r)
    BY <2>0, <2>2, StepRow, StepElsewhere
  <2>5. ASSUME NEW u \in Users PROVE Facility(od'[u])
    BY <2>2, <2>4 DEF RowWritten
  <2>6. ASSUME NEW s \in Requests PROVE Fresh(s)'
    <3>1. CASE s = r
      BY <2>0, <2>2, <3>1, MoverIsFresh
    <3>2. CASE s # r
      BY <2>1, <2>2, <2>4, <3>2, OthersStayFresh
    <3> QED BY <3>1, <3>2
  <2> QED BY <2>1, <2>3, <2>5, <2>6
<1> QED BY <1>1, <1>2 DEF Next, AllServed

\* While the requests of a user come one after the other, the overdraft row says
\* what the ledger says, up to the money whose entry has not been made.
THEOREM DebtIsHonest == Spec => []DebtMatchesMoneyApart
<1>1. ApartInv => DebtMatchesMoneyApart
  BY DEF ApartInv, DebtMatchesMoneyApart
<1> QED BY <1>1, InitIInv, StepIInv, InitApart, StepApart, PTL DEF Spec

\* And the facility is never used beyond its limit, marked used exactly while
\* something is owed and closed only when nothing is.
THEOREM FacilityIsConsistent == Spec => []FacilityConsistent
<1>1. ApartInv => FacilityConsistent
  BY DEF ApartInv, FacilityConsistent
<1> QED BY <1>1, InitIInv, StepIInv, InitApart, StepApart, PTL DEF Spec
=============================================================================
