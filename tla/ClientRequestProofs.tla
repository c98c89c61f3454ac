------------------------- MODULE ClientRequestProofs -------------------------
(***************************************************************************)
(* Proofs about what the app of a user asks for: the wallet that serves    *)
(* its requests (Wallets), for any pots, currencies, rates and amounts and *)
(* any number of requests in flight; and the layer that every one of them  *)
(* passes when it is repeated (Idempotency), for any number of clients and *)
(* keys, any bodies and any number of failures.                            *)
(***************************************************************************)
EXTENDS Wallets, Idempotency, SumFacts, TLAPS

(***************************************************************************)
(* Wallets: accounts, requests and postings.                               *)
(***************************************************************************)

\* The accounts of different currencies and pots are different accounts.
LEMMA AccountFacts ==
  /\ OverdraftCapital \in Accounts /\ World \in Accounts /\ OverdraftCapital # World
  /\ \A cur \in Currencies : /\ Main(cur) \in Accounts /\ FX(cur) \in Accounts
                             /\ Main(cur) \notin {OverdraftCapital, World}
                             /\ FX(cur) \notin {OverdraftCapital, World}
  /\ \A p \in PotIds : Pot(p) \in Accounts /\ Pot(p) \notin {OverdraftCapital, World}
  /\ \A k, l \in Currencies : /\ Main(k) = Main(l) => k = l
                              /\ FX(k) = FX(l) => k = l
                              /\ Main(k) # FX(l)
  /\ \A p, q \in PotIds : Pot(p) = Pot(q) => p = q
  /\ \A p \in PotIds, k \in Currencies : Pot(p) # Main(k) /\ Pot(p) # FX(k)
BY DEF Accounts, Main, FX, Pot, OverdraftCapital, World

\* What a posting does to the balances.
LEMMA SendEffect ==
  ASSUME NEW b, NEW src, NEW dst, NEW n, b \in [Accounts -> Int],
         src \in Accounts, dst \in Accounts, n \in Int, src # dst
  PROVE  /\ Send(b, src, dst, n) \in [Accounts -> Int]
         /\ Send(b, src, dst, n)[src] = b[src] - n /\ Send(b, src, dst, n)[dst] = b[dst] + n
         /\ \A a \in Accounts \ {src, dst} : Send(b, src, dst, n)[a] = b[a]
<1> DEFINE d == Send(b, src, dst, n)
<1>1. d = [a \in Accounts |-> b[a] - (IF a = src THEN n ELSE 0) + (IF a = dst THEN n ELSE 0)]
  BY DEF Send
<1>2. \A a \in Accounts : b[a] \in Int
  OBVIOUS
<1> HIDE DEF d
<1>3. \A a \in Accounts : d[a] = b[a] - (IF a = src THEN n ELSE 0) + (IF a = dst THEN n ELSE 0)
  BY <1>1
<1>4. \A a \in Accounts : d[a] \in Int
  BY <1>2, <1>3
<1>5. d[src] = b[src] - n /\ d[dst] = b[dst] + n /\ \A a \in Accounts \ {src, dst} : d[a] = b[a]
  BY <1>2, <1>3
<1>6. d \in [Accounts -> Int]
  BY <1>1, <1>4
<1> QED BY <1>5, <1>6 DEF d

\* What is stored of a request.
LEMMA CallType ==
  ASSUME TypeOK, NEW c \in Calls
  PROVE  /\ call[c] \in CallRows /\ call[c].op \in CallOps /\ call[c].at \in CallSteps
         /\ call[c].pot \in PotIds /\ call[c].cur \in Currencies /\ call[c].to \in Currencies
         /\ call[c].amt \in Nat /\ call[c].got \in Nat /\ call[c].row \in 0 .. MaxRows
         /\ call[c].name \in Labels /\ call[c].tx \in Nat /\ call[c].read \in OverdraftRows
BY DEF TypeOK, CallRows

\* The record of a client that waits for nothing.
LEMMA IdleType == /\ Idle \in CallRows /\ Idle.op = "idle" /\ Idle.tx = 0 /\ Idle.at = "idle"
                  /\ NoPot \in PotRows /\ NoPot.state = "absent" /\ NoPot.cur = ETB
<1>1. NoOverdraft \in OverdraftRows
  BY DEF NoOverdraft, OverdraftRows
<1>2. (CHOOSE p \in PotIds : TRUE) \in PotIds /\ (CHOOSE l \in Labels : TRUE) \in Labels
  BY PotAssumption
<1>3. NoPot \in PotRows /\ NoPot.state = "absent" /\ NoPot.cur = ETB /\ NoPot.name \in Labels
  BY <1>2, CurrencyAssumption DEF NoPot, PotRows
<1>4. 0 \in 0 .. MaxRows
  BY WalletBoundAssumption
<1>5. Idle \in CallRows /\ Idle.op = "idle" /\ Idle.tx = 0 /\ Idle.at = "idle"
  BY <1>1, <1>2, <1>3, <1>4, CurrencyAssumption DEF Idle, CallRows, CallOps, CallSteps
<1> QED BY <1>3, <1>5

\* A step of request c leaves the others where they are.
Moved(c) == call' \in [Calls -> CallRows] /\ \A d \in Calls \ {c} : call'[d] = call[d]
\* All of the request but its step.
SameRequest(c) ==
  /\ call'[c].op = call[c].op /\ call'[c].pot = call[c].pot /\ call'[c].cur = call[c].cur
  /\ call'[c].to = call[c].to /\ call'[c].tx = call[c].tx /\ call'[c].name = call[c].name

\* Going to the next step changes nothing else of the request.
LEMMA GotoEffect ==
  ASSUME TypeOK, NEW c \in Calls, NEW s \in CallSteps, Goto(c, s)
  PROVE  /\ Moved(c) /\ SameRequest(c) /\ call'[c].at = s /\ call'[c].amt = call[c].amt
         /\ call'[c].got = call[c].got /\ call'[c].row = call[c].row
         /\ call'[c].read = call[c].read
<1>1. call' = [call EXCEPT ![c] = [call[c] EXCEPT !.at = s]]
  BY DEF Goto
<1>2. call \in [Calls -> CallRows]
  BY DEF TypeOK
<1>3. call'[c] = [call[c] EXCEPT !.at = s] /\ \A d \in Calls \ {c} : call'[d] = call[d]
  BY <1>1, <1>2
<1>4. call[c] \in CallRows
  BY <1>2
<1>5. /\ call'[c] \in CallRows /\ SameRequest(c) /\ call'[c].at = s /\ call'[c].amt = call[c].amt
      /\ call'[c].got = call[c].got /\ call'[c].row = call[c].row
      /\ call'[c].read = call[c].read
  BY <1>3, <1>4 DEF CallRows, SameRequest
<1> QED BY <1>1, <1>2, <1>3, <1>5 DEF Moved

\* An answered request is forgotten.
LEMMA FinishEffect ==
  ASSUME TypeOK, NEW c \in Calls, Finish(c)
  PROVE  Moved(c) /\ call'[c] = Idle /\ call'[c].op = "idle" /\ call'[c].tx = 0
<1>1. call \in [Calls -> CallRows] /\ call' = [call EXCEPT ![c] = Idle]
  BY DEF TypeOK, Finish
<1> QED BY <1>1, IdleType DEF Moved

(***************************************************************************)
(* What keeps each part of the invariant.                                  *)
(***************************************************************************)

\* No step takes back a pot, or changes its currency.
PotsGrow == \A p \in PotIds : pots[p].state # "absent" =>
              pots'[p].state # "absent" /\ pots'[p].cur = pots[p].cur
\* A pot that is being archived gains no more than is counted as late.
LateGrows == \A p \in PotIds : ArchivingNow(p) => bal'[Pot(p)] + late[p] <= bal[Pot(p)] + late'[p]
\* A step writes at most one receipt, with the number of its request.
WritesReceipt(c) ==
  \/ receipts' = receipts
  \/ \E r \in ReceiptRows : receipts' = Append(receipts, r) /\ r.tx = call[c].tx

\* The receipts after one was written.
LEMMA ReceiptEffect ==
  ASSUME TypeOK, NEW r \in ReceiptRows, receipts' = Append(receipts, r)
  PROVE  /\ receipts' \in Seq(ReceiptRows)
         /\ Len(receipts) \in Nat /\ DOMAIN receipts = 1 .. Len(receipts)
         /\ DOMAIN receipts' = 1 .. Len(receipts) + 1
         /\ receipts'[Len(receipts) + 1] = r
         /\ \A i \in DOMAIN receipts : receipts'[i] = receipts[i]
BY DEF TypeOK

\* The requests that do not move keep what they know.
LEMMA OthersKeep ==
  ASSUME TypeOK, TypeOK', NumbersInv, NEW c \in Calls, NEW d \in Calls, d # c, CallInv(d),
         Moved(c), PotsGrow, LateGrows, starts <= starts',
         receipts' = receipts \/ (WritesReceipt(c) /\ call[c].op # "idle")
  PROVE  CallInv(d)'
<1>1. call'[d] = call[d]
  BY DEF Moved
<1>2. /\ call[d].pot \in PotIds /\ call[d].amt \in Nat /\ call[d].tx \in Nat
      /\ starts \in Nat /\ starts' \in Nat
  BY CallType DEF TypeOK
<1>3. call[d].op \in {"rename", "add", "withdraw", "archive"} =>
         pots'[call[d].pot].state # "absent" /\ call[d].cur = pots'[call[d].pot].cur
  BY <1>2 DEF CallInv, PotsGrow
<1>4. /\ bal[Pot(call[d].pot)] \in Int /\ bal'[Pot(call[d].pot)] \in Int
      /\ late[call[d].pot] \in Nat /\ late'[call[d].pot] \in Nat
  BY <1>2, AccountFacts DEF TypeOK
<1>5. At(d, "archive", "post") => bal'[Pot(call[d].pot)] <= call[d].amt + late'[call[d].pot]
  BY <1>2, <1>4 DEF CallInv, LateGrows, ArchivingNow, At
<1>6. At(d, "archive", "mark") => bal'[Pot(call[d].pot)] <= late'[call[d].pot]
  BY <1>2, <1>4 DEF CallInv, LateGrows, ArchivingNow, At
<1>7. call[d].op # "idle" => call[d].tx \in 1 .. starts'
  BY <1>2 DEF CallInv
<1>8. ASSUME NEW i \in DOMAIN receipts', call[d].op # "idle", receipts'[i].tx = call[d].tx
      PROVE  i \in DOMAIN receipts /\ receipts'[i] = receipts[i]
  <2>1. CASE receipts' = receipts
    BY <2>1
  <2>2. CASE receipts' # receipts
    <3>1. PICK r \in ReceiptRows : receipts' = Append(receipts, r) /\ r.tx = call[c].tx
      BY <2>2 DEF WritesReceipt
    <3>2. call[c].tx # call[d].tx
      BY <1>8, <2>2 DEF NumbersInv
    <3>3. i # Len(receipts) + 1
      BY <1>8, <3>1, <3>2, ReceiptEffect
    <3> QED BY <3>1, <3>3, ReceiptEffect
  <2> QED BY <2>1, <2>2
<1>9. \A i \in DOMAIN receipts' : call[d].op # "idle" /\ receipts'[i].tx = call[d].tx =>
         /\ call[d].op = "convert" /\ call[d].at \in {"inflow", "repay", "repaid", "in"}
         /\ receipts'[i].type # "convert_in"
  BY <1>8 DEF CallInv
<1>10. /\ call[d].op = "idle" => call[d] = Idle
       /\ call[d].op = "delete" => call[d].cur # ETB
       /\ At(d, "create", "details") => call[d].row \in 1 .. MaxRows
       /\ call[d].op = "convert" => call[d].cur # call[d].to /\ call[d].amt > 0
  BY DEF CallInv
<1> QED BY <1>1, <1>3, <1>5, <1>6, <1>7, <1>9, <1>10 DEF CallInv, At

\* Numbers stay apart when a request goes on or ends, and writes no receipt.
LEMMA NumbersKeep ==
  ASSUME TypeOK, TypeOK', NumbersInv, \A d \in Calls : CallInv(d), NEW c \in Calls, Moved(c),
         \/ call'[c].op = "idle" /\ call'[c].tx = 0
         \/ call[c].op # "idle" /\ call'[c].tx = call[c].tx,
         UNCHANGED <<receipts, starts>>
  PROVE  NumbersInv'
<1>1. \A d \in Calls : call[d].op # "idle" => call[d].tx # 0
  BY DEF CallInv, TypeOK
<1>2. \A e \in Calls \ {c} : call'[e] = call[e]
  BY DEF Moved
<1>3. ASSUME NEW e \in Calls, NEW d \in Calls, call'[e].op # "idle", call'[e].tx = call'[d].tx
      PROVE  e = d
  <2>1. CASE call'[c].op = "idle" /\ call'[c].tx = 0
    <3>1. e # c
      BY <1>3, <2>1
    <3>2. call[e].op # "idle" /\ call'[e].tx # 0
      BY <1>1, <1>2, <1>3, <3>1
    <3>3. d # c
      BY <1>3, <2>1, <3>2
    <3> QED BY <1>2, <1>3, <3>1, <3>2, <3>3 DEF NumbersInv
  <2>2. CASE call[c].op # "idle" /\ call'[c].tx = call[c].tx
    <3>1. call'[e].tx = call[e].tx /\ call'[d].tx = call[d].tx
      BY <1>2, <2>2
    <3>2. call[e].op # "idle"
      BY <1>2, <1>3, <2>2
    <3> QED BY <1>3, <3>1, <3>2 DEF NumbersInv
  <2> QED BY <2>1, <2>2
<1> QED BY <1>3 DEF NumbersInv

\* They stay apart when it writes a receipt of a type it has not written yet.
LEMMA NumbersWrite ==
  ASSUME TypeOK, TypeOK', NumbersInv, \A d \in Calls : CallInv(d), NEW c \in Calls, Moved(c),
         call[c].op # "idle",
         \/ call'[c].op = "idle" /\ call'[c].tx = 0
         \/ call'[c].tx = call[c].tx,
         NEW r \in ReceiptRows, receipts' = Append(receipts, r), r.tx = call[c].tx, starts' = starts,
         \A i \in DOMAIN receipts : receipts[i].tx = call[c].tx => receipts[i].type # r.type
  PROVE  NumbersInv'
<1>1. \A d \in Calls : call[d].op # "idle" => call[d].tx # 0
  BY DEF CallInv, TypeOK
<1>2. \A e \in Calls \ {c} : call'[e] = call[e]
  BY DEF Moved
<1>3. ASSUME NEW e \in Calls, NEW d \in Calls, call'[e].op # "idle", call'[e].tx = call'[d].tx
      PROVE  e = d
  <2>1. CASE call'[c].op = "idle" /\ call'[c].tx = 0
    <3>1. e # c
      BY <1>3, <2>1
    <3>2. call[e].op # "idle" /\ call'[e].tx # 0
      BY <1>1, <1>2, <1>3, <3>1
    <3>3. d # c
      BY <1>3, <2>1, <3>2
    <3> QED BY <1>2, <1>3, <3>1, <3>2, <3>3 DEF NumbersInv
  <2>2. CASE call'[c].tx = call[c].tx
    <3>1. call'[e].tx = call[e].tx /\ call'[d].tx = call[d].tx
      BY <1>2, <2>2
    <3>2. call[e].op # "idle"
      BY <1>2, <1>3
    <3> QED BY <1>3, <3>1, <3>2 DEF NumbersInv
  <2> QED BY <2>1, <2>2
<1>4. /\ Len(receipts) \in Nat /\ DOMAIN receipts = 1 .. Len(receipts)
      /\ DOMAIN receipts' = 1 .. Len(receipts) + 1
      /\ receipts'[Len(receipts) + 1] = r
      /\ \A i \in DOMAIN receipts : receipts'[i] = receipts[i]
  BY ReceiptEffect
<1> DEFINE last == Len(receipts) + 1
<1>5. \A i \in DOMAIN receipts' : i # last => i \in DOMAIN receipts
  BY <1>4
<1>6. \A i \in DOMAIN receipts' : receipts'[i].tx \in 1 .. starts'
  <2>1. r.tx \in 1 .. starts
    BY DEF CallInv
  <2> HIDE DEF last
  <2> QED BY <1>4, <1>5, <2>1 DEF NumbersInv, last
<1>7. ASSUME NEW i \in DOMAIN receipts', NEW j \in DOMAIN receipts',
             receipts'[i].tx = receipts'[j].tx, receipts'[i].type = receipts'[j].type
      PROVE  i = j
  <2>1. CASE i # last /\ j # last
    BY <1>4, <1>5, <1>7, <2>1 DEF NumbersInv
  <2>2. CASE i = last /\ j # last
    BY <1>4, <1>5, <1>7, <2>2
  <2>3. CASE i # last /\ j = last
    BY <1>4, <1>5, <1>7, <2>3
  <2> QED BY <2>1, <2>2, <2>3
<1> QED BY <1>3, <1>6, <1>7 DEF NumbersInv

\* The share that each pot has in the holdings of a currency.
PotShare(b, ps, cur) == [p \in PotIds |-> IF ps[p].cur = cur THEN b[Pot(p)] ELSE 0]

\* What a user has in a currency: the main account and the pots of it.
HoldingsAre(b, ps, cur) == b[Main(cur)] + SumFunctionOnSet(PotShare(b, ps, cur), PotIds)

\* The summands are integers.
LEMMA ShareType ==
  ASSUME NEW b \in [Accounts -> Int], NEW ps \in [PotIds -> PotRows], NEW cur \in Currencies
  PROVE  /\ \A p \in PotIds : /\ PotShare(b, ps, cur)[p] \in Int /\ b[Pot(p)] \in Int
                              /\ PotShare(b, ps, cur)[p] = IF ps[p].cur = cur THEN b[Pot(p)] ELSE 0
         /\ SumFunctionOnSet(PotShare(b, ps, cur), PotIds) \in Int
         /\ b[Main(cur)] \in Int
<1>1. \A p \in PotIds : b[Pot(p)] \in Int
  BY AccountFacts
<1>2. \A p \in PotIds : /\ PotShare(b, ps, cur)[p] \in Int
                        /\ PotShare(b, ps, cur)[p] = IF ps[p].cur = cur THEN b[Pot(p)] ELSE 0
  BY <1>1 DEF PotShare
<1>3. SumFunctionOnSet(PotShare(b, ps, cur), PotIds) \in Int
  BY <1>2, PotAssumption, SumType
<1> QED BY <1>1, <1>2, <1>3, AccountFacts

\* Holdings is that sum, while pots without a row count for the first currency.
LEMMA HoldingsShare ==
  ASSUME TypeOK, \A p \in PotIds : PotInv(p), NEW cur \in Currencies
  PROVE  Holdings(cur) = HoldingsAre(bal, pots, cur)
<1> DEFINE f == PotShare(bal, pots, cur)
           R == {p \in PotIds : PotCurrency(p) = cur}
<1>1. bal \in [Accounts -> Int] /\ pots \in [PotIds -> PotRows]
  BY DEF TypeOK
<1>2. \A p \in PotIds : PotCurrency(p) = pots[p].cur
  BY DEF PotCurrency, PotInv
<1>3. /\ \A p \in PotIds : f[p] \in Int /\ bal[Pot(p)] \in Int
      /\ \A p \in PotIds : f[p] = IF pots[p].cur = cur THEN bal[Pot(p)] ELSE 0
  BY <1>1, ShareType
<1>4. R \in SUBSET PotIds /\ IsFiniteSet(PotIds) /\ IsFiniteSet(R)
  BY PotAssumption, FS_Subset
<1>5. \A p \in R : f[p] \in Int /\ OnPots[p] = f[p]
  BY <1>2, <1>3 DEF OnPots
<1>6. \A p \in PotIds \ R : f[p] = 0
  BY <1>2, <1>3
<1> HIDE DEF f, R
<1>7. SumFunctionOnSet(f, PotIds) = SumFunctionOnSet(f, R)
  BY <1>3, <1>4, <1>6, SumSupport
<1>8. SumFunctionOnSet(f, R) = SumFunctionOnSet(OnPots, R)
  BY <1>4, <1>5, SumSame
<1> QED BY <1>7, <1>8 DEF Holdings, HoldingsAre, f, R

LEMMA HoldingsShareNext ==
  ASSUME TypeOK', \A p \in PotIds : PotInv(p)', NEW cur \in Currencies
  PROVE  Holdings(cur)' = HoldingsAre(bal', pots', cur)
<1> DEFINE f == PotShare(bal', pots', cur)
           R == {p \in PotIds : PotCurrency(p)' = cur}
           g == [p \in PotIds |-> bal'[Pot(p)]]
<1>1. bal' \in [Accounts -> Int] /\ pots' \in [PotIds -> PotRows]
  BY DEF TypeOK
<1>2. \A p \in PotIds : PotCurrency(p)' = pots'[p].cur
  BY DEF PotCurrency, PotInv
<1>3. /\ \A p \in PotIds : f[p] \in Int /\ bal'[Pot(p)] \in Int
      /\ \A p \in PotIds : f[p] = IF pots'[p].cur = cur THEN bal'[Pot(p)] ELSE 0
  BY <1>1, ShareType
<1>4. R \in SUBSET PotIds /\ IsFiniteSet(PotIds) /\ IsFiniteSet(R)
  BY PotAssumption, FS_Subset
<1>5. \A p \in R : f[p] \in Int /\ g[p] = f[p]
  BY <1>2, <1>3
<1>6. \A p \in PotIds \ R : f[p] = 0
  BY <1>2, <1>3
<1>9. Holdings(cur)' = bal'[Main(cur)] + SumFunctionOnSet(g, R)
  BY DEF Holdings, OnPots
<1> HIDE DEF f, R, g
<1>7. SumFunctionOnSet(f, PotIds) = SumFunctionOnSet(f, R)
  BY <1>3, <1>4, <1>6, SumSupport
<1>8. SumFunctionOnSet(f, R) = SumFunctionOnSet(g, R)
  BY <1>4, <1>5, SumSame
<1> QED BY <1>7, <1>8, <1>9 DEF HoldingsAre, f

\* Only main accounts change: holdings change with them.
LEMMA MainsMove ==
  ASSUME TypeOK, TypeOK', MoneyInv, \A p \in PotIds : PotInv(p), \A p \in PotIds : PotInv(p)',
         \A p \in PotIds : bal'[Pot(p)] = bal[Pot(p)],
         \A p \in PotIds : pots'[p].cur = pots[p].cur \/ bal[Pot(p)] = 0,
         \A cur \in Currencies : owned'[cur] - owned[cur] = bal'[Main(cur)] - bal[Main(cur)]
  PROVE  MoneyInv'
<1> SUFFICES ASSUME NEW cur \in Currencies PROVE Holdings(cur)' = owned'[cur]
  BY DEF MoneyInv
<1> DEFINE f == PotShare(bal, pots, cur)
           g == PotShare(bal', pots', cur)
<1>1. /\ bal \in [Accounts -> Int] /\ pots \in [PotIds -> PotRows]
      /\ bal' \in [Accounts -> Int] /\ pots' \in [PotIds -> PotRows]
  BY DEF TypeOK
<1>2. /\ \A p \in PotIds : f[p] \in Int /\ f[p] = IF pots[p].cur = cur THEN bal[Pot(p)] ELSE 0
      /\ SumFunctionOnSet(f, PotIds) \in Int /\ bal[Main(cur)] \in Int
  BY <1>1, ShareType
<1>3. /\ \A p \in PotIds : g[p] = IF pots'[p].cur = cur THEN bal'[Pot(p)] ELSE 0
      /\ bal'[Main(cur)] \in Int
  BY <1>1, ShareType
<1>4. \A p \in PotIds : f[p] = g[p]
  BY <1>2, <1>3
<1> HIDE DEF f, g
<1>5. SumFunctionOnSet(f, PotIds) = SumFunctionOnSet(g, PotIds)
  BY <1>2, <1>4, PotAssumption, SumSame
<1>6. Holdings(cur) = bal[Main(cur)] + SumFunctionOnSet(f, PotIds) /\ Holdings(cur) = owned[cur]
  BY HoldingsShare DEF HoldingsAre, f, MoneyInv
<1>7. Holdings(cur)' = bal'[Main(cur)] + SumFunctionOnSet(g, PotIds)
  BY HoldingsShareNext DEF HoldingsAre, g
<1>8. owned[cur] \in Int /\ owned'[cur] \in Int
  BY DEF TypeOK
<1> QED BY <1>2, <1>3, <1>5, <1>6, <1>7, <1>8

\* Nothing moves.
LEMMA MoneyKept ==
  ASSUME TypeOK, TypeOK', MoneyInv, \A p \in PotIds : PotInv(p), \A p \in PotIds : PotInv(p)',
         UNCHANGED <<bal, owned>>,
         \A p \in PotIds : pots'[p].cur = pots[p].cur \/ bal[Pot(p)] = 0
  PROVE  MoneyInv'
<1>1. \A cur \in Currencies : bal[Main(cur)] \in Int /\ owned[cur] \in Int
  BY AccountFacts DEF TypeOK
<1>2. \A cur \in Currencies : owned'[cur] - owned[cur] = bal'[Main(cur)] - bal[Main(cur)]
  BY <1>1
<1> QED BY <1>2, MainsMove

\* Money goes from the main account to a pot of the currency, or back.
LEMMA PotMove ==
  ASSUME TypeOK, TypeOK', MoneyInv, \A p \in PotIds : PotInv(p), \A p \in PotIds : PotInv(p)',
         UNCHANGED <<owned, pots>>, NEW p \in PotIds, NEW n \in Int,
         bal'[Pot(p)] = bal[Pot(p)] + n, bal'[Main(pots[p].cur)] = bal[Main(pots[p].cur)] - n,
         \A q \in PotIds \ {p} : bal'[Pot(q)] = bal[Pot(q)],
         \A cur \in Currencies \ {pots[p].cur} : bal'[Main(cur)] = bal[Main(cur)]
  PROVE  MoneyInv'
<1> SUFFICES ASSUME NEW cur \in Currencies PROVE Holdings(cur)' = owned'[cur]
  BY DEF MoneyInv
<1> DEFINE f == PotShare(bal, pots, cur)
           g == PotShare(bal', pots, cur)
<1>1. /\ bal \in [Accounts -> Int] /\ pots \in [PotIds -> PotRows] /\ bal' \in [Accounts -> Int]
  BY DEF TypeOK
<1>2. /\ \A q \in PotIds : /\ f[q] \in Int /\ bal[Pot(q)] \in Int
                           /\ f[q] = IF pots[q].cur = cur THEN bal[Pot(q)] ELSE 0
      /\ SumFunctionOnSet(f, PotIds) \in Int /\ bal[Main(cur)] \in Int
  BY <1>1, ShareType
<1>3. /\ \A q \in PotIds : g[q] \in Int /\ g[q] = IF pots[q].cur = cur THEN bal'[Pot(q)] ELSE 0
      /\ bal'[Main(cur)] \in Int
  BY <1>1, ShareType
<1>4. \A q \in PotIds \ {p} : g[q] = f[q]
  BY <1>2, <1>3
<1>6. Holdings(cur) = bal[Main(cur)] + SumFunctionOnSet(f, PotIds) /\ Holdings(cur) = owned[cur]
  BY HoldingsShare DEF HoldingsAre, MoneyInv
<1>7. Holdings(cur)' = bal'[Main(cur)] + SumFunctionOnSet(g, PotIds)
  BY HoldingsShareNext DEF HoldingsAre
<1> HIDE DEF f, g
<1>5. SumFunctionOnSet(g, PotIds) = SumFunctionOnSet(f, PotIds) - f[p] + g[p]
  BY <1>2, <1>3, <1>4, PotAssumption, SumChange
<1>8. owned[cur] \in Int /\ owned' = owned
  BY DEF TypeOK
<1>9. g[p] - f[p] = bal[Main(cur)] - bal'[Main(cur)]
  <2>1. CASE pots[p].cur = cur
    <3>1. f[p] = bal[Pot(p)] /\ g[p] = bal[Pot(p)] + n /\ bal'[Main(cur)] = bal[Main(cur)] - n
      BY <1>2, <1>3, <2>1
    <3> QED BY <3>1, <1>2
  <2>2. CASE pots[p].cur # cur
    <3>1. f[p] = 0 /\ g[p] = 0 /\ bal'[Main(cur)] = bal[Main(cur)]
      BY <1>2, <1>3, <2>2
    <3> QED BY <3>1, <1>2
  <2> QED BY <2>1, <2>2
<1>10. /\ f[p] \in Int /\ g[p] \in Int /\ SumFunctionOnSet(f, PotIds) \in Int
       /\ bal[Main(cur)] \in Int /\ bal'[Main(cur)] \in Int /\ owned'[cur] = owned[cur]
  BY <1>2, <1>3, <1>8
<1> QED BY <1>5, <1>6, <1>7, <1>9, <1>10

\* The balances of a currency when their table is left alone.
LEMMA ClosedKept ==
  ASSUME TypeOK, TypeOK', NEW cur \in Currencies, ClosedInv(cur), rows' = rows,
         ClosingNow(cur)' => ClosingNow(cur), exposed \subseteq exposed',
         \/ bal'[Main(cur)] <= bal[Main(cur)]
         \/ ActiveRows(cur) = {} \/ ClosingNow(cur) => cur \in exposed'
  PROVE  ClosedInv(cur)'
<1>1. bal[Main(cur)] \in Int /\ bal'[Main(cur)] \in Int
  BY AccountFacts DEF TypeOK
<1>2. ActiveRows(cur)' = ActiveRows(cur)
  BY DEF ActiveRows
<1> QED BY <1>1, <1>2 DEF ClosedInv

\* A request that is not about to close a balance makes no balance one that is.
LEMMA ClosingKept ==
  ASSUME NEW c \in Calls, Moved(c), call'[c].op # "delete", NEW cur
  PROVE  ClosingNow(cur)' => ClosingNow(cur)
BY DEF Moved, ClosingNow, At

\* The table of balances when it is left alone.
LEMMA RowsKept ==
  ASSUME RowsInv, NEW c \in Calls, Moved(c), UNCHANGED <<rows, details>>, broken => broken',
         ~At(c, "create", "details") \/ broken'
  PROVE  RowsInv'
<1>1. ASSUME NEW i \in 1 .. MaxRows, rows'[i].state = "active", i \notin details', ~broken'
      PROVE  \E d \in Calls : At(d, "create", "details")' /\ call'[d].row = i
  <2>1. PICK d \in Calls : At(d, "create", "details") /\ call[d].row = i
    BY <1>1 DEF RowsInv
  <2>2. d # c
    BY <1>1, <2>1
  <2>3. call'[d] = call[d]
    BY <2>2 DEF Moved
  <2> QED BY <2>1, <2>3 DEF At
<1> QED BY <1>1 DEF RowsInv

\* A step that went on with a request, part by part.
LEMMA AssembleStep ==
  ASSUME IInv, TypeOK', NEW c \in Calls, Moved(c), call[c].op # "idle", starts' = starts,
         PotsGrow, LateGrows, WritesReceipt(c), CallInv(c)', NumbersInv', MoneyInv', RowsInv', NamesInv',
         \A p \in PotIds : PotInv(p)', \A cur \in Currencies : ClosedInv(cur)'
  PROVE  IInv'
<1>1. starts <= starts'
  BY DEF IInv, TypeOK
<1>2. \A d \in Calls : d # c => CallInv(d)'
  BY <1>1, OthersKeep DEF IInv
<1> QED BY <1>2 DEF IInv

\* A step that leaves money, tables and receipts alone.
LEMMA QuietStep ==
  ASSUME IInv, TypeOK', NEW c \in Calls, Moved(c), call[c].op # "idle",
         UNCHANGED <<bal, pots, rows, details, receipts, starts, owned, late, exposed>>,
         broken => broken', ~At(c, "create", "details") \/ broken', call'[c].op # "delete",
         \/ call'[c].op = "idle" /\ call'[c].tx = 0
         \/ call'[c].tx = call[c].tx,
         CallInv(c)'
  PROVE  IInv'
<1>1. PotsGrow /\ WritesReceipt(c) /\ NamesInv' /\ \A p \in PotIds : PotInv(p)'
  BY DEF IInv, PotsGrow, WritesReceipt, NamesInv, PotInv
<1>2. LateGrows
  BY AccountFacts DEF LateGrows, IInv, TypeOK
<1>3. NumbersInv'
  BY NumbersKeep DEF IInv
<1>4. MoneyInv'
  BY <1>1, MoneyKept DEF IInv
<1>5. RowsInv'
  BY RowsKept DEF IInv
<1>6. \A cur \in Currencies : ClosedInv(cur)'
  <2> TAKE cur \in Currencies
  <2>1. bal'[Main(cur)] <= bal[Main(cur)]
    BY AccountFacts DEF IInv, TypeOK
  <2> QED BY <2>1, ClosingKept, ClosedKept DEF IInv
<1> QED BY <1>1, <1>2, <1>3, <1>4, <1>5, <1>6, AssembleStep

\* A request comes in.
LEMMA StartStep ==
  ASSUME IInv, NEW c \in Calls, NEW req \in CallRows, Start(c, req),
         UNCHANGED <<bal, pots, rows, details, od, receipts, Ghosts, broken>>,
         req.op # "idle",
         req.op = "delete" => req.cur # ETB /\ bal[Main(req.cur)] = 0,
         req.op \in {"rename", "add", "withdraw", "archive"} =>
           pots[req.pot].state # "absent" /\ req.cur = pots[req.pot].cur,
         req.op = "convert" => req.cur # req.to /\ req.amt > 0,
         req.op = "archive" => req.at = "balance", req.op = "create" => req.at # "details"
  PROVE  IInv'
<1>1. /\ TypeOK /\ call \in [Calls -> CallRows] /\ starts \in Nat /\ call[c] = Idle /\ starts' = starts + 1
      /\ call' = [call EXCEPT ![c] = [req EXCEPT !.tx = starts + 1]]
  BY DEF IInv, TypeOK, Start
<1>2. /\ [req EXCEPT !.tx = starts + 1] \in CallRows
      /\ [req EXCEPT !.tx = starts + 1].tx = starts + 1
  BY <1>1 DEF CallRows
<1>3. Moved(c) /\ call'[c] = [req EXCEPT !.tx = starts + 1]
  BY <1>1, <1>2 DEF Moved
<1>4. /\ call'[c].op = req.op /\ call'[c].at = req.at /\ call'[c].pot = req.pot
      /\ call'[c].cur = req.cur /\ call'[c].to = req.to /\ call'[c].amt = req.amt
      /\ call'[c].tx = starts + 1
  BY <1>2, <1>3 DEF CallRows
<1>5. TypeOK'
  BY <1>1, <1>3 DEF TypeOK, Moved, Ghosts
<1>6. /\ PotsGrow /\ NamesInv' /\ \A p \in PotIds : PotInv(p)'
      /\ UNCHANGED <<bal, pots, rows, details, receipts, owned, late, exposed, broken>>
  BY DEF IInv, PotsGrow, NamesInv, PotInv, Ghosts
<1>7. LateGrows
  BY <1>1, <1>6, AccountFacts DEF LateGrows, TypeOK
<1>8. \A d \in Calls : d # c => CallInv(d)'
  <2>1. starts <= starts'
    BY <1>1
  <2> QED BY <2>1, <1>1, <1>3, <1>5, <1>6, <1>7, OthersKeep DEF IInv
<1>9. CallInv(c)'
  <2>1. \A i \in DOMAIN receipts : receipts[i].tx # starts + 1
    BY <1>1 DEF IInv, NumbersInv
  <2>2. starts + 1 \in 1 .. starts'
    BY <1>1
  <2> QED BY <1>4, <1>6, <2>1, <2>2 DEF CallInv, At
<1>10. NumbersInv'
  <2>1. \A d \in Calls \ {c} : call'[d] = call[d]
    BY <1>3 DEF Moved
  <2>2. \A d \in Calls \ {c} : call[d].tx # starts + 1
    <3> TAKE d \in Calls \ {c}
    <3>1. CASE call[d].op = "idle"
      BY <3>1, <1>1, IdleType DEF IInv, CallInv
    <3>2. CASE call[d].op # "idle"
      BY <3>2, <1>1 DEF IInv, CallInv
    <3> QED BY <3>1, <3>2
  <2>3. \A e, d \in Calls : call'[e].op # "idle" /\ call'[e].tx = call'[d].tx => e = d
    BY <1>4, <2>1, <2>2 DEF IInv, NumbersInv
  <2>4. \A i \in DOMAIN receipts : receipts[i].tx \in 1 .. starts'
    BY <1>1 DEF IInv, NumbersInv
  <2> QED BY <1>6, <2>3, <2>4 DEF IInv, NumbersInv
<1>11. MoneyInv'
  BY <1>1, <1>5, <1>6, MoneyKept DEF IInv
<1>12. RowsInv'
  <2>1. ~At(c, "create", "details")
    BY <1>1, IdleType DEF At
  <2> QED BY <2>1, <1>3, <1>6, RowsKept DEF IInv
<1>13. ASSUME NEW cur \in Currencies PROVE ClosedInv(cur)'
  <2>0. bal[Main(cur)] \in Int
    BY <1>1, AccountFacts DEF TypeOK
  <2>1. CASE req.op = "delete" /\ req.cur = cur
    <3>1. bal'[Main(cur)] = 0
      BY <2>1, <1>6
    <3> QED BY <3>1 DEF ClosedInv
  <2>2. CASE ~(req.op = "delete" /\ req.cur = cur)
    <3>1. ClosingNow(cur)' => ClosingNow(cur)
      BY <2>2, <1>3, <1>4 DEF Moved, ClosingNow, At
    <3>2. bal'[Main(cur)] <= bal[Main(cur)]
      BY <1>6, <2>0
    <3> QED BY <1>1, <1>5, <1>6, <3>1, <3>2, ClosedKept DEF IInv
  <2> QED BY <2>1, <2>2
<1> QED BY <1>5, <1>6, <1>8, <1>9, <1>10, <1>11, <1>12, <1>13 DEF IInv

\* What a conversion brings is a number of cents.
LEMMA ConvertedType ==
  ASSUME NEW from \in Currencies, NEW to \in Currencies, NEW amt \in Nat
  PROVE  ConvertWithSpread(AskRate(from, to), amt) \in Nat
<1>1. Mid[from][to].num \in Nat /\ Mid[from][to].den \in Nat \ {0} /\ SpreadBps \in Nat
  BY RateAssumption
<1>2. PICK num \in Nat, den \in Nat \ {0} :
        num = Mid[from][to].num * (20000 + SpreadBps) /\ den = Mid[from][to].den * 20000
  BY <1>1
<1>3. PICK x \in Nat, y \in Nat \ {0} : x = 2 * (amt * num) + den /\ y = 2 * den
  OBVIOUS
<1>4. x \div y \in Nat
  BY DivisionRule
<1>5. ConvertWithSpread(AskRate(from, to), amt) = x \div y
  BY <1>2, <1>3 DEF ConvertWithSpread, AskRate, RoundedDiv
<1> QED BY <1>4, <1>5

\* CreateCurrencyBalance and DeleteCurrencyBalance read, then come back to write.
LEMMA BalanceHandlers ==
  ASSUME IInv, NEW c \in Calls, HandleCreateBalance(c) \/ HandleDeleteBalance(c)
  PROVE  IInv'
<1>1. CASE HandleCreateBalance(c)
  <2>1. PICK cur \in Currencies : CreateCurrencyBalance(c, cur)
    BY <1>1 DEF HandleCreateBalance
  <2> DEFINE step == IF DeletedRows(cur) # {} THEN "reactivate" ELSE "insert"
             req == [Idle EXCEPT !.op = "create", !.cur = cur, !.at = step]
  <2>2. /\ Start(c, req)
        /\ UNCHANGED <<bal, pots, rows, details, od, receipts, Ghosts, broken>>
    BY <2>1 DEF CreateCurrencyBalance
  <2>3. req \in CallRows /\ req.op = "create" /\ req.at # "details"
    BY IdleType DEF CallRows, CallOps, CallSteps
  <2> HIDE DEF req
  <2> QED BY <2>2, <2>3, StartStep
<1>2. CASE HandleDeleteBalance(c)
  <2>1. PICK cur \in Currencies : DeleteCurrencyBalance(c, cur)
    BY <1>2 DEF HandleDeleteBalance
  <2> DEFINE req == [Idle EXCEPT !.op = "delete", !.at = "delete", !.cur = cur]
  <2>2. /\ Start(c, req) /\ cur # ETB /\ bal[Main(cur)] = 0
        /\ UNCHANGED <<bal, pots, rows, details, od, receipts, Ghosts, broken>>
    BY <2>1 DEF DeleteCurrencyBalance, MayClose, IsPrimary
  <2>3. req \in CallRows /\ req.op = "delete" /\ req.cur = cur
    BY IdleType DEF CallRows, CallOps, CallSteps
  <2> HIDE DEF req
  <2> QED BY <2>2, <2>3, StartStep
<1> QED BY <1>1, <1>2

\* A request on a pot that it found.
LEMMA OpenPotStep ==
  ASSUME IInv, NEW c \in Calls, NEW p \in PotIds, NEW request \in CallRows, OpenPot(c, p, request),
         request.op \in {"rename", "add", "withdraw", "archive"},
         request.op = "archive" => request.at = "balance"
  PROVE  IInv'
<1> DEFINE req == [request EXCEPT !.pot = p, !.cur = pots[p].cur]
<1>1. /\ Start(c, req) /\ pots[p].state = "active"
      /\ UNCHANGED <<bal, pots, rows, details, od, receipts, Ghosts, broken>>
  BY DEF OpenPot
<1>2. pots[p].cur \in Currencies
  BY DEF IInv, TypeOK, PotRows
<1>3. /\ req \in CallRows /\ req.op = request.op /\ req.at = request.at /\ req.pot = p
      /\ req.cur = pots[p].cur
  BY <1>2 DEF CallRows
<1> HIDE DEF req
<1>4. req.op \notin {"idle", "delete", "convert"} /\ pots[req.pot].state # "absent"
  BY <1>1, <1>3
<1> QED BY <1>1, <1>3, <1>4, StartStep

\* The requests on pots.
LEMMA PotHandlers ==
  ASSUME IInv, NEW c \in Calls,
         \/ HandleCreatePot(c) \/ HandleUpdatePot(c) \/ HandleDeletePot(c)
         \/ HandleAdd(c) \/ HandleWithdraw(c)
  PROVE  IInv'
<1>1. CASE HandleCreatePot(c)
  <2>1. PICK p \in PotIds, cur \in Currencies, name \in Labels : CreatePot(c, p, cur, name)
    BY <1>1 DEF HandleCreatePot
  <2> DEFINE req == [Idle EXCEPT !.op = "pot", !.at = "insert", !.pot = p, !.cur = cur, !.name = name]
  <2>2. /\ Start(c, req)
        /\ UNCHANGED <<bal, pots, rows, details, od, receipts, Ghosts, broken>>
    BY <2>1 DEF CreatePot
  <2>3. req \in CallRows /\ req.op = "pot"
    BY IdleType DEF CallRows, CallOps, CallSteps
  <2> HIDE DEF req
  <2> QED BY <2>2, <2>3, StartStep
<1>2. CASE HandleUpdatePot(c)
  <2>1. PICK p \in PotIds, name \in Labels : UpdatePot(c, p, name)
    BY <1>2 DEF HandleUpdatePot
  <2> DEFINE req == [Idle EXCEPT !.op = "rename", !.at = "update", !.name = name]
  <2>2. OpenPot(c, p, req)
    BY <2>1 DEF UpdatePot
  <2>3. req \in CallRows /\ req.op = "rename"
    BY IdleType DEF CallRows, CallOps, CallSteps
  <2> HIDE DEF req
  <2> QED BY <2>2, <2>3, OpenPotStep
<1>3. CASE HandleDeletePot(c)
  <2>1. PICK p \in PotIds : ArchivePot(c, p)
    BY <1>3 DEF HandleDeletePot
  <2> DEFINE req == [Idle EXCEPT !.op = "archive", !.at = "balance"]
  <2>2. OpenPot(c, p, req)
    BY <2>1 DEF ArchivePot
  <2>3. req \in CallRows /\ req.op = "archive" /\ req.at = "balance"
    BY IdleType DEF CallRows, CallOps, CallSteps
  <2> HIDE DEF req
  <2> QED BY <2>2, <2>3, OpenPotStep
<1>4. CASE HandleAdd(c)
  <2>1. PICK p \in PotIds, amt \in Amounts : AddToPot(c, p, amt)
    BY <1>4 DEF HandleAdd
  <2> DEFINE req == [Idle EXCEPT !.op = "add", !.at = "post", !.amt = amt]
  <2>2. OpenPot(c, p, req)
    BY <2>1 DEF AddToPot
  <2>3. req \in CallRows /\ req.op = "add"
    BY IdleType, AmountAssumption DEF CallRows, CallOps, CallSteps
  <2> HIDE DEF req
  <2> QED BY <2>2, <2>3, OpenPotStep
<1>5. CASE HandleWithdraw(c)
  <2>1. PICK p \in PotIds, amt \in Amounts : WithdrawFromPot(c, p, amt)
    BY <1>5 DEF HandleWithdraw
  <2> DEFINE req == [Idle EXCEPT !.op = "withdraw", !.at = "post", !.amt = amt]
  <2>2. OpenPot(c, p, req)
    BY <2>1 DEF WithdrawFromPot
  <2>3. req \in CallRows /\ req.op = "withdraw"
    BY IdleType, AmountAssumption DEF CallRows, CallOps, CallSteps
  <2> HIDE DEF req
  <2> QED BY <2>2, <2>3, OpenPotStep
<1> QED BY <1>1, <1>2, <1>3, <1>4, <1>5

\* Convert fixes what it will bring when it reads the rate.
LEMMA ConvertHandler ==
  ASSUME IInv, NEW c \in Calls, HandleConvert(c)
  PROVE  IInv'
<1>1. PICK from \in Currencies, to \in Currencies, amt \in Amounts :
        amt > 0 /\ Convert(c, from, to, amt)
  BY DEF HandleConvert, ValidateAmountCents
<1> DEFINE got == ConvertWithSpread(AskRate(from, to), amt)
           req == [Idle EXCEPT !.op = "convert", !.at = "post", !.cur = from, !.to = to, !.amt = amt, !.got = got]
<1>2. amt \in Nat /\ got \in Nat
  BY AmountAssumption, ConvertedType
<1>3. /\ Start(c, req) /\ from # to
      /\ UNCHANGED <<bal, pots, rows, details, od, receipts, Ghosts, broken>>
  BY <1>1 DEF Convert
<1> HIDE DEF got
<1>4. req \in CallRows /\ req.op = "convert" /\ req.cur = from /\ req.to = to /\ req.amt = amt
  BY <1>2, IdleType DEF CallRows, CallOps, CallSteps
<1> HIDE DEF req
<1> QED BY <1>1, <1>3, <1>4, StartStep

\* A request that is answered, or dies, knows nothing any more.
LEMMA IdleInv ==
  ASSUME NEW c \in Calls, call'[c] = Idle
  PROVE  CallInv(c)'
BY IdleType DEF CallInv, At

\* The row of a balance is written, or the statement fails.
LEMMA SaveBalanceStep ==
  ASSUME IInv, NEW c \in Calls, SaveBalance(c)
  PROVE  IInv'
<1> DEFINE cur == call[c].cur
<1>1. /\ TypeOK /\ call[c].op = "create" /\ call[c].at \in {"insert", "reactivate"}
      /\ UNCHANGED <<bal, pots, details, od, receipts, starts, owned, late, exposed>>
  BY DEF IInv, SaveBalance, Ghosts
<1>2. cur \in Currencies /\ rows \in [1 .. MaxRows -> BalanceRows] /\ call[c] \in CallRows
  BY <1>1, CallType DEF TypeOK
<1>3. CASE Finish(c) /\ broken' = TRUE /\ UNCHANGED rows
  <2>1. Moved(c) /\ call'[c] = Idle /\ call'[c].op = "idle" /\ call'[c].tx = 0
    BY <1>1, <1>3, FinishEffect
  <2>2. TypeOK'
    BY <1>1, <1>3, <2>1 DEF TypeOK, Moved
  <2> QED BY <1>1, <1>3, <2>1, <2>2, IdleInv, QuietStep
<1>4. ASSUME NEW i \in 1 .. MaxRows,
             IF call[c].at = "insert" THEN InsertBalance(i, cur) ELSE Reactivate(i, cur),
             call' = [call EXCEPT ![c].at = "details", ![c].row = i], UNCHANGED broken
      PROVE  IInv'
  <2>1. /\ rows[i].state # "active" /\ IndexAllows(cur)
        /\ rows' = [rows EXCEPT ![i] = [state |-> "active", cur |-> cur]]
    <3>1. CASE call[c].at = "insert"
      BY <1>4, <3>1 DEF InsertBalance
    <3>2. CASE call[c].at # "insert"
      <4>1. /\ DeletedRows(cur) = {i} /\ IndexAllows(cur)
            /\ rows' = [rows EXCEPT ![i] = [rows[i] EXCEPT !.state = "active"]]
        BY <1>4, <3>2 DEF Reactivate
      <4>2. rows[i] = [state |-> "deleted", cur |-> cur]
        BY <4>1 DEF DeletedRows
      <4>3. [rows[i] EXCEPT !.state = "active"] = [state |-> "active", cur |-> cur]
        BY <4>2
      <4>4. rows[i].state = "deleted"
        BY <4>2
      <4> QED BY <4>1, <4>3, <4>4
    <3> QED BY <3>1, <3>2
  <2>2. /\ rows' \in [1 .. MaxRows -> BalanceRows]
        /\ rows'[i] = [state |-> "active", cur |-> cur]
        /\ \A j \in (1 .. MaxRows) \ {i} : rows'[j] = rows[j]
    BY <1>2, <2>1 DEF BalanceRows
  <2>3. call' = [call EXCEPT ![c] = [call[c] EXCEPT !.at = "details", !.row = i]]
    BY <1>4
  <2>4. /\ Moved(c) /\ call'[c] = [call[c] EXCEPT !.at = "details", !.row = i]
    <3>1. [call[c] EXCEPT !.at = "details", !.row = i] \in CallRows
      <4>1. i \in 0 .. MaxRows
        BY WalletBoundAssumption
      <4> QED BY <1>2, <4>1 DEF CallRows, CallSteps
    <3> QED BY <1>1, <2>3, <3>1 DEF Moved, TypeOK
  <2>5. /\ call'[c].op = "create" /\ call'[c].at = "details" /\ call'[c].row = i
        /\ call'[c].tx = call[c].tx
    BY <1>1, <1>2, <2>4 DEF CallRows
  <2>6. TypeOK'
    BY <1>1, <1>4, <2>2, <2>4 DEF TypeOK, Moved
  <2>7. PotsGrow /\ WritesReceipt(c) /\ NamesInv' /\ \A p \in PotIds : PotInv(p)'
    BY <1>1 DEF IInv, PotsGrow, WritesReceipt, NamesInv, PotInv
  <2>8. LateGrows
    BY <1>1, AccountFacts DEF LateGrows, TypeOK
  <2>9. NumbersInv'
    BY <1>1, <2>4, <2>5, <2>6, NumbersKeep DEF IInv
  <2>10. MoneyInv'
    BY <1>1, <2>6, <2>7, MoneyKept DEF IInv
  <2>11. CallInv(c)'
    <3>1. \A k \in DOMAIN receipts : receipts[k].tx # call[c].tx
      BY <1>1 DEF IInv, CallInv
    <3>2. call[c].tx \in 1 .. starts
      BY <1>1 DEF IInv, CallInv
    <3> QED BY <1>1, <2>5, <3>1, <3>2 DEF CallInv, At
  <2>12. RowsInv'
    <3>1. \A j \in (1 .. MaxRows) \ {i} : ~(rows[j].state = "active" /\ rows[j] = [state |-> "active", cur |-> cur])
      BY <2>1 DEF IndexAllows, ActiveRows
    <3>2. \A j, k \in 1 .. MaxRows : rows'[j].state = "active" /\ rows'[k] = rows'[j] => j = k
      BY <2>2, <3>1 DEF IInv, RowsInv
    <3>3. \E j \in 1 .. MaxRows : rows'[j].state = "active" /\ rows'[j].cur = ETB
      BY <2>1, <2>2 DEF IInv, RowsInv
    <3>4. ASSUME NEW j \in 1 .. MaxRows, rows'[j].state = "active", j \notin details', ~broken'
          PROVE  \E d \in Calls : At(d, "create", "details")' /\ call'[d].row = j
      <4>1. CASE j = i
        BY <4>1, <2>5 DEF At
      <4>2. CASE j # i
        <5>1. PICK d \in Calls : At(d, "create", "details") /\ call[d].row = j
          BY <4>2, <3>4, <1>1, <1>4, <2>2 DEF IInv, RowsInv
        <5>2. d # c
          BY <5>1, <1>1 DEF At
        <5> QED BY <5>1, <5>2, <2>4 DEF At, Moved
      <4> QED BY <4>1, <4>2
    <3> QED BY <3>2, <3>3, <3>4 DEF RowsInv
  <2>13. ASSUME NEW k \in Currencies PROVE ClosedInv(k)'
    <3>1. ClosingNow(k)' => ClosingNow(k)
      BY <2>4, <2>5, ClosingKept
    <3>2. CASE k = cur
      BY <3>1, <3>2, <1>1, <2>1 DEF IInv, ClosedInv, IndexAllows
    <3>3. CASE k # cur
      <4>1. ActiveRows(k)' = ActiveRows(k)
        <5>1. ASSUME NEW j \in 1 .. MaxRows
              PROVE  rows'[j] = [state |-> "active", cur |-> k] <=> rows[j] = [state |-> "active", cur |-> k]
          BY <2>1, <2>2, <3>3
        <5> QED BY <5>1 DEF ActiveRows
      <4> QED BY <3>1, <4>1, <1>1 DEF IInv, ClosedInv
    <3> QED BY <3>2, <3>3
  <2> QED BY <1>1, <2>4, <2>6, <2>7, <2>8, <2>9, <2>10, <2>11, <2>12, <2>13, AssembleStep
<1> QED BY <1>3, <1>4 DEF SaveBalance

\* The account details of a row are made, or the request fails.
LEMMA DetailsStep ==
  ASSUME IInv, NEW c \in Calls, GenerateAccountDetails(c)
  PROVE  IInv'
<1>1. /\ TypeOK /\ At(c, "create", "details") /\ Finish(c)
      /\ UNCHANGED <<bal, pots, rows, od, receipts, starts, owned, late, exposed>>
  BY DEF IInv, GenerateAccountDetails, Ghosts
<1>2. Moved(c) /\ call'[c] = Idle /\ call'[c].op = "idle" /\ call'[c].tx = 0 /\ call[c].op # "idle"
  BY <1>1, FinishEffect DEF At
<1>3. CASE broken' = TRUE /\ UNCHANGED details
  <2>1. TypeOK'
    BY <1>1, <1>2, <1>3 DEF TypeOK, Moved
  <2> QED BY <1>1, <1>2, <1>3, <2>1, IdleInv, QuietStep
<1>4. CASE details' = details \cup {call[c].row} /\ UNCHANGED broken
  <2>1. details' \in SUBSET (1 .. MaxRows)
    BY <1>1, <1>4 DEF IInv, CallInv, TypeOK
  <2>2. TypeOK'
    BY <1>1, <1>2, <1>4, <2>1 DEF TypeOK, Moved
  <2>3. PotsGrow /\ WritesReceipt(c) /\ NamesInv' /\ \A p \in PotIds : PotInv(p)'
    BY <1>1 DEF IInv, PotsGrow, WritesReceipt, NamesInv, PotInv
  <2>4. LateGrows
    BY <1>1, AccountFacts DEF LateGrows, TypeOK
  <2>5. NumbersInv'
    BY <1>1, <1>2, <2>2, NumbersKeep DEF IInv
  <2>6. MoneyInv'
    BY <1>1, <2>2, <2>3, MoneyKept DEF IInv
  <2>7. RowsInv'
    <3>1. ASSUME NEW i \in 1 .. MaxRows, rows'[i].state = "active", i \notin details', ~broken'
          PROVE  \E d \in Calls : At(d, "create", "details")' /\ call'[d].row = i
      <4>1. PICK d \in Calls : At(d, "create", "details") /\ call[d].row = i
        BY <3>1, <1>1, <1>4 DEF IInv, RowsInv
      <4>2. d # c
        BY <3>1, <4>1, <1>4
      <4> QED BY <4>1, <4>2, <1>2 DEF At, Moved
    <3> QED BY <3>1, <1>1 DEF IInv, RowsInv
  <2>8. \A cur \in Currencies : ClosedInv(cur)'
    <3> TAKE cur \in Currencies
    <3>1. ClosingNow(cur)' => ClosingNow(cur)
      BY <1>2, ClosingKept
    <3>2. bal'[Main(cur)] <= bal[Main(cur)]
      BY <1>1, AccountFacts DEF TypeOK
    <3> QED BY <1>1, <2>2, <3>1, <3>2, ClosedKept DEF IInv
  <2> QED BY <1>1, <1>2, <2>2, <2>3, <2>4, <2>5, <2>6, <2>7, <2>8, IdleInv, AssembleStep
<1> QED BY <1>3, <1>4 DEF GenerateAccountDetails

\* A balance is closed.
LEMMA DeleteBalanceStep ==
  ASSUME IInv, NEW c \in Calls, DeleteBalance(c)
  PROVE  IInv'
<1> DEFINE cur == call[c].cur
<1>1. /\ TypeOK /\ At(c, "delete", "delete") /\ SoftDelete(cur) /\ Finish(c)
      /\ UNCHANGED <<bal, pots, details, od, receipts, starts, owned, late, exposed, broken>>
  BY DEF IInv, DeleteBalance, Ghosts
<1>2. Moved(c) /\ call'[c] = Idle /\ call'[c].op = "idle" /\ call'[c].tx = 0 /\ call[c].op # "idle"
  BY <1>1, FinishEffect DEF At
<1>3. cur \in Currencies /\ cur # ETB /\ rows \in [1 .. MaxRows -> BalanceRows]
  BY <1>1, CallType DEF TypeOK, IInv, CallInv, At
<1>4. \A i \in 1 .. MaxRows :
        /\ i \in ActiveRows(cur) => rows'[i] = [state |-> "deleted", cur |-> cur]
        /\ i \notin ActiveRows(cur) => rows'[i] = rows[i]
  BY <1>1, <1>3 DEF SoftDelete, ActiveRows
<1>5. rows' \in [1 .. MaxRows -> BalanceRows]
  BY <1>1, <1>3, <1>4 DEF SoftDelete, BalanceRows
<1>6. \A i \in 1 .. MaxRows : rows'[i].state = "active" => rows'[i] = rows[i]
  BY <1>4
<1>7. TypeOK'
  BY <1>1, <1>2, <1>5 DEF TypeOK, Moved
<1>8. PotsGrow /\ WritesReceipt(c) /\ NamesInv' /\ \A p \in PotIds : PotInv(p)'
  BY <1>1 DEF IInv, PotsGrow, WritesReceipt, NamesInv, PotInv
<1>9. LateGrows
  BY <1>1, AccountFacts DEF LateGrows, TypeOK
<1>10. NumbersInv'
  BY <1>1, <1>2, <1>7, NumbersKeep DEF IInv
<1>11. MoneyInv'
  BY <1>1, <1>7, <1>8, MoneyKept DEF IInv
<1>12. RowsInv'
  <2>1. \A i, j \in 1 .. MaxRows : rows'[i].state = "active" /\ rows'[j] = rows'[i] => i = j
    BY <1>6 DEF IInv, RowsInv
  <2>2. \E i \in 1 .. MaxRows : rows'[i].state = "active" /\ rows'[i].cur = ETB
    <3>1. PICK i \in 1 .. MaxRows : rows[i].state = "active" /\ rows[i].cur = ETB
      BY DEF IInv, RowsInv
    <3>2. i \notin ActiveRows(cur)
      BY <1>3, <3>1 DEF ActiveRows
    <3> QED BY <1>4, <3>1, <3>2
  <2>3. ASSUME NEW i \in 1 .. MaxRows, rows'[i].state = "active", i \notin details', ~broken'
        PROVE  \E d \in Calls : At(d, "create", "details")' /\ call'[d].row = i
    <3>1. PICK d \in Calls : At(d, "create", "details") /\ call[d].row = i
      BY <2>3, <1>1, <1>6 DEF IInv, RowsInv
    <3>2. d # c
      BY <3>1, <1>1 DEF At
    <3> QED BY <3>1, <3>2, <1>2 DEF At, Moved
  <2> QED BY <2>1, <2>2, <2>3 DEF RowsInv
<1>13. ASSUME NEW k \in Currencies PROVE ClosedInv(k)'
  <2>1. ClosingNow(k)' => ClosingNow(k)
    BY <1>2, ClosingKept
  <2>2. CASE k = cur
    <3>1. ClosingNow(k)
      BY <1>1, <2>2 DEF ClosingNow
    <3> QED BY <1>1, <3>1 DEF IInv, ClosedInv
  <2>3. CASE k # cur
    <3>1. ActiveRows(k)' = ActiveRows(k)
      <4>1. ASSUME NEW j \in 1 .. MaxRows
            PROVE  rows'[j] = [state |-> "active", cur |-> k] <=> rows[j] = [state |-> "active", cur |-> k]
        BY <1>4, <2>3 DEF ActiveRows
      <4> QED BY <4>1 DEF ActiveRows
    <3> QED BY <2>1, <3>1, <1>1 DEF IInv, ClosedInv
  <2> QED BY <2>2, <2>3
<1> QED BY <1>1, <1>2, <1>7, <1>8, <1>9, <1>10, <1>11, <1>12, <1>13, IdleInv, AssembleStep

\* A request that ends with one statement on the table of pots.
LEMMA PotTableStep ==
  ASSUME IInv, NEW c \in Calls, call[c].op \in {"pot", "rename", "archive"}, Finish(c),
         UNCHANGED <<bal, rows, details, od, receipts, starts, Ghosts, broken>>,
         pots' \in [PotIds -> PotRows], PotsGrow, NamesInv', \A p \in PotIds : PotInv(p)',
         \A p \in PotIds : pots'[p].cur = pots[p].cur \/ bal[Pot(p)] = 0
  PROVE  IInv'
<1>1. /\ TypeOK
      /\ UNCHANGED <<bal, rows, details, od, receipts, starts, owned, late, exposed, broken>>
  BY DEF IInv, Ghosts
<1>2. Moved(c) /\ call'[c] = Idle /\ call'[c].op = "idle" /\ call'[c].tx = 0 /\ call[c].op # "idle"
  BY <1>1, FinishEffect
<1>3. TypeOK'
  BY <1>1, <1>2 DEF TypeOK, Moved
<1>4. WritesReceipt(c)
  BY <1>1 DEF WritesReceipt
<1>5. LateGrows
  BY <1>1, AccountFacts DEF LateGrows, TypeOK
<1>6. NumbersInv'
  BY <1>1, <1>2, <1>3, NumbersKeep DEF IInv
<1>7. MoneyInv'
  BY <1>1, <1>3, MoneyKept DEF IInv
<1>8. RowsInv'
  BY <1>1, <1>2, RowsKept DEF IInv, At
<1>9. \A cur \in Currencies : ClosedInv(cur)'
  <2> TAKE cur \in Currencies
  <2>1. ClosingNow(cur)' => ClosingNow(cur)
    BY <1>2, ClosingKept
  <2>2. bal'[Main(cur)] <= bal[Main(cur)]
    BY <1>1, AccountFacts DEF TypeOK
  <2> QED BY <1>1, <1>3, <2>1, <2>2, ClosedKept DEF IInv
<1> QED BY <1>1, <1>2, <1>3, <1>4, <1>5, <1>6, <1>7, <1>8, <1>9, IdleInv, AssembleStep

\* The row of a pot is inserted, renamed or archived, or the statement fails.
LEMMA SavePotSteps ==
  ASSUME IInv, NEW c \in Calls, SaveNewPot(c) \/ SavePot(c) \/ MarkArchived(c)
  PROVE  IInv'
<1> DEFINE p == call[c].pot
           unchanged == UNCHANGED <<bal, rows, details, od, receipts, starts, Ghosts, broken>>
<1>1. /\ TypeOK /\ pots \in [PotIds -> PotRows] /\ p \in PotIds /\ call[c].cur \in Currencies
      /\ call[c].name \in Labels /\ bal[Pot(p)] \in Int
  BY CallType, AccountFacts DEF IInv, TypeOK
<1>2. /\ call[c].op \in {"pot", "rename", "archive"} /\ Finish(c) /\ unchanged
      /\ UNCHANGED <<bal, late>>
  BY DEF SaveNewPot, SavePot, MarkArchived, At, Ghosts
<1>3. CASE UNCHANGED pots
  <2>1. /\ pots' \in [PotIds -> PotRows] /\ PotsGrow /\ NamesInv' /\ \A q \in PotIds : PotInv(q)'
        /\ \A q \in PotIds : pots'[q].cur = pots[q].cur \/ bal[Pot(q)] = 0
    BY <1>1, <1>2, <1>3 DEF IInv, PotsGrow, NamesInv, PotInv
  <2> QED BY <1>2, <2>1, PotTableStep
<1>4. CASE CreatePotRow(p, call[c].cur, call[c].name)
  <2> DEFINE new == [state |-> "active", cur |-> call[c].cur, name |-> call[c].name]
  <2>1. /\ pots[p].state = "absent" /\ NameFree(p, call[c].name)
        /\ pots' = [pots EXCEPT ![p] = new]
    BY <1>4 DEF CreatePotRow
  <2>2. new \in PotRows /\ new.state = "active" /\ new.name = call[c].name
    BY <1>1 DEF PotRows
  <2> HIDE DEF new
  <2>3. /\ pots' \in [PotIds -> PotRows] /\ pots'[p] = new
        /\ \A q \in PotIds \ {p} : pots'[q] = pots[q]
    BY <1>1, <2>1, <2>2
  <2>4. PotsGrow
    BY <2>1, <2>3 DEF PotsGrow
  <2>5. NamesInv'
    BY <2>1, <2>2, <2>3 DEF IInv, NamesInv, NameFree
  <2>6. \A q \in PotIds : PotInv(q)'
    BY <1>2, <2>2, <2>3 DEF IInv, PotInv
  <2>7. \A q \in PotIds : pots'[q].cur = pots[q].cur \/ bal[Pot(q)] = 0
    BY <2>1, <2>3 DEF IInv, PotInv
  <2> QED BY <1>2, <2>3, <2>4, <2>5, <2>6, <2>7, PotTableStep
<1>5. CASE UpdatePotRow(p, call[c].name)
  <2> DEFINE new == [pots[p] EXCEPT !.name = call[c].name]
  <2>1. /\ pots[p].state = "active" /\ NameFree(p, call[c].name)
        /\ pots' = [pots EXCEPT ![p] = new]
    BY <1>5 DEF UpdatePotRow
  <2>2. new \in PotRows /\ new.state = "active" /\ new.name = call[c].name /\ new.cur = pots[p].cur
    BY <1>1, <2>1 DEF PotRows
  <2> HIDE DEF new
  <2>3. /\ pots' \in [PotIds -> PotRows] /\ pots'[p] = new
        /\ \A q \in PotIds \ {p} : pots'[q] = pots[q]
    BY <1>1, <2>1, <2>2
  <2>4. PotsGrow
    BY <2>2, <2>3 DEF PotsGrow
  <2>5. NamesInv'
    BY <2>1, <2>2, <2>3 DEF IInv, NamesInv, NameFree
  <2>6. \A q \in PotIds : PotInv(q)'
    BY <1>2, <2>2, <2>3 DEF IInv, PotInv
  <2>7. \A q \in PotIds : pots'[q].cur = pots[q].cur
    BY <2>2, <2>3
  <2> QED BY <1>2, <2>3, <2>4, <2>5, <2>6, <2>7, PotTableStep
<1>6. CASE At(c, "archive", "mark") /\ ArchivePotRow(p)
  <2> DEFINE new == [pots[p] EXCEPT !.state = "archived"]
  <2>1. pots[p].state = "active" /\ pots' = [pots EXCEPT ![p] = new]
    BY <1>6 DEF ArchivePotRow
  <2>2. new \in PotRows /\ new.state = "archived" /\ new.cur = pots[p].cur
    BY <1>1, <2>1 DEF PotRows
  <2> HIDE DEF new
  <2>3. /\ pots' \in [PotIds -> PotRows] /\ pots'[p] = new
        /\ \A q \in PotIds \ {p} : pots'[q] = pots[q]
    BY <1>1, <2>1, <2>2
  <2>4. PotsGrow
    BY <2>2, <2>3 DEF PotsGrow
  <2>5. NamesInv'
    BY <2>2, <2>3 DEF IInv, NamesInv
  <2>6. bal[Pot(p)] <= late[p]
    BY <1>6 DEF IInv, CallInv
  <2>7. \A q \in PotIds : PotInv(q)'
    BY <1>2, <2>2, <2>3, <2>6 DEF IInv, PotInv
  <2>8. \A q \in PotIds : pots'[q].cur = pots[q].cur
    BY <2>2, <2>3
  <2> QED BY <1>2, <2>3, <2>4, <2>5, <2>7, <2>8, PotTableStep
<1> QED BY <1>3, <1>4, <1>5, <1>6 DEF SaveNewPot, SavePot, MarkArchived

\* A step that writes a receipt of a type that its request has not written, or
\* loses it.
LEMMA ReceiptStep ==
  ASSUME IInv, NEW c \in Calls, call[c].op \notin {"idle", "create", "delete"},
         Moved(c), call'[c].op # "delete",
         \/ call'[c].op = "idle" /\ call'[c].tx = 0
         \/ call'[c].tx = call[c].tx,
         UNCHANGED <<bal, pots, rows, details, od, starts, Ghosts, broken>>,
         NEW type \in {"pot_deposit", "pot_withdraw", "convert_out", "convert_in"},
         NEW cur \in Currencies, NEW amt \in Nat, Receipt(c, type, cur, amt),
         \A i \in DOMAIN receipts : receipts[i].tx = call[c].tx => receipts[i].type # type,
         CallInv(c)'
  PROVE  IInv'
<1> DEFINE r == [type |-> type, tx |-> call[c].tx, cur |-> cur, amt |-> amt]
<1>1. /\ TypeOK /\ r \in ReceiptRows /\ r.tx = call[c].tx /\ r.type = type
      /\ UNCHANGED <<bal, pots, rows, details, od, starts, owned, late, exposed, broken>>
  BY CallType DEF IInv, Ghosts, ReceiptRows
<1>2. receipts' = receipts \/ receipts' = Append(receipts, r)
  BY DEF Receipt
<1> HIDE DEF r
<1>3. WritesReceipt(c)
  BY <1>1, <1>2 DEF WritesReceipt
<1>4. TypeOK'
  <2>1. receipts' \in Seq(ReceiptRows)
    BY <1>1, <1>2, ReceiptEffect DEF TypeOK
  <2> QED BY <1>1, <2>1 DEF TypeOK, Moved
<1>5. NumbersInv'
  <2>1. CASE receipts' = receipts
    BY <1>1, <1>4, <2>1, NumbersKeep DEF IInv
  <2>2. CASE receipts' = Append(receipts, r)
    BY <1>1, <1>4, <2>2, NumbersWrite DEF IInv
  <2> QED BY <1>2, <2>1, <2>2
<1>6. PotsGrow /\ NamesInv' /\ \A p \in PotIds : PotInv(p)'
  BY <1>1 DEF IInv, PotsGrow, NamesInv, PotInv
<1>7. LateGrows
  BY <1>1, AccountFacts DEF LateGrows, TypeOK
<1>8. MoneyInv'
  BY <1>1, <1>4, <1>6, MoneyKept DEF IInv
<1>9. RowsInv'
  BY <1>1, RowsKept DEF IInv, At
<1>10. \A k \in Currencies : ClosedInv(k)'
  <2> TAKE k \in Currencies
  <2>1. ClosingNow(k)' => ClosingNow(k)
    BY ClosingKept
  <2>2. bal'[Main(k)] <= bal[Main(k)]
    BY <1>1, AccountFacts DEF TypeOK
  <2> QED BY <1>1, <1>4, <2>1, <2>2, ClosedKept DEF IInv
<1> QED BY <1>1, <1>3, <1>4, <1>5, <1>6, <1>7, <1>8, <1>9, <1>10, AssembleStep

\* The receipts of deposits and withdrawals, and the second one of a conversion.
LEMMA LastReceiptSteps ==
  ASSUME IInv, NEW c \in Calls, DepositReceipt(c) \/ WithdrawalReceipt(c) \/ ConvertInReceipt(c)
  PROVE  IInv'
<1>1. /\ TypeOK /\ Finish(c) /\ call[c].op \in {"add", "withdraw", "convert"}
      /\ UNCHANGED <<bal, pots, rows, details, od, starts, Ghosts, broken>>
  BY DEF IInv, DepositReceipt, WithdrawalReceipt, ConvertInReceipt, At
<1>2. /\ Moved(c) /\ call'[c] = Idle /\ call'[c].op = "idle" /\ call'[c].tx = 0
      /\ call[c].op \notin {"idle", "create", "delete"} /\ CallInv(c)'
  BY <1>1, FinishEffect, IdleInv
<1>3. /\ call[c].cur \in Currencies /\ call[c].to \in Currencies
      /\ call[c].amt \in Nat /\ call[c].got \in Nat
  BY <1>1, CallType
<1>4. CASE DepositReceipt(c)
  <2>1. At(c, "add", "receipt") /\ Receipt(c, "pot_deposit", call[c].cur, call[c].amt)
    BY <1>4 DEF DepositReceipt
  <2>2. \A i \in DOMAIN receipts : receipts[i].tx # call[c].tx
    BY <2>1 DEF IInv, CallInv, At
  <2> QED BY <1>1, <1>2, <1>3, <2>1, <2>2, ReceiptStep
<1>5. CASE WithdrawalReceipt(c)
  <2>1. At(c, "withdraw", "receipt") /\ Receipt(c, "pot_withdraw", call[c].cur, call[c].amt)
    BY <1>5 DEF WithdrawalReceipt
  <2>2. \A i \in DOMAIN receipts : receipts[i].tx # call[c].tx
    BY <2>1 DEF IInv, CallInv, At
  <2> QED BY <1>1, <1>2, <1>3, <2>1, <2>2, ReceiptStep
<1>6. CASE ConvertInReceipt(c)
  <2>1. At(c, "convert", "in") /\ Receipt(c, "convert_in", call[c].to, call[c].got)
    BY <1>6 DEF ConvertInReceipt
  <2>2. \A i \in DOMAIN receipts : receipts[i].tx = call[c].tx => receipts[i].type # "convert_in"
    BY <2>1 DEF IInv, CallInv, At
  <2> QED BY <1>1, <1>2, <1>3, <2>1, <2>2, ReceiptStep
<1> QED BY <1>4, <1>5, <1>6

\* The first receipt of a conversion.
LEMMA ConvertOutStep ==
  ASSUME IInv, NEW c \in Calls, ConvertOutReceipt(c)
  PROVE  IInv'
<1> DEFINE s == IF call[c].to = ETB THEN "inflow" ELSE "in"
           r == [type |-> "convert_out", tx |-> call[c].tx, cur |-> call[c].cur, amt |-> call[c].amt]
<1>1. /\ TypeOK /\ At(c, "convert", "out") /\ Goto(c, s)
      /\ Receipt(c, "convert_out", call[c].cur, call[c].amt)
      /\ UNCHANGED <<bal, pots, rows, details, od, starts, Ghosts, broken>>
  BY DEF IInv, ConvertOutReceipt
<1>2. /\ call[c].cur \in Currencies /\ call[c].amt \in Nat /\ call[c].tx \in Nat
      /\ call[c].op \notin {"idle", "create", "delete"}
  BY <1>1, CallType DEF At
<1>3. s \in CallSteps /\ s \in {"inflow", "in"}
  BY DEF CallSteps
<1> HIDE DEF s
<1>4. Moved(c) /\ SameRequest(c) /\ call'[c].at = s /\ call'[c].amt = call[c].amt
  BY <1>1, <1>3, GotoEffect
<1>5. \A i \in DOMAIN receipts : receipts[i].tx # call[c].tx
  BY <1>1 DEF IInv, CallInv, At
<1>6. r \in ReceiptRows /\ r.type = "convert_out" /\ (receipts' = receipts \/ receipts' = Append(receipts, r))
  BY <1>1, <1>2 DEF Receipt, ReceiptRows
<1> HIDE DEF r
<1>7. ASSUME NEW i \in DOMAIN receipts', receipts'[i].tx = call[c].tx
      PROVE  receipts'[i].type # "convert_in"
  <2>1. CASE receipts' = receipts
    BY <1>5, <1>7, <2>1
  <2>2. CASE receipts' = Append(receipts, r)
    BY <1>1, <1>5, <1>6, <1>7, <2>2, ReceiptEffect
  <2> QED BY <1>6, <2>1, <2>2
<1>8. call[c].tx \in 1 .. starts /\ call[c].cur # call[c].to /\ call[c].amt > 0
  BY <1>1 DEF IInv, CallInv, At
<1>9. CallInv(c)'
  BY <1>1, <1>3, <1>4, <1>7, <1>8 DEF CallInv, At, SameRequest
<1>10. call'[c].tx = call[c].tx /\ call'[c].op = "convert"
  BY <1>1, <1>4 DEF SameRequest, At
<1> QED BY <1>1, <1>2, <1>4, <1>5, <1>9, <1>10, ReceiptStep

\* ArchivePot reads what is on the pot.
LEMMA ArchiveBalanceStep ==
  ASSUME IInv, NEW c \in Calls, ArchiveBalance(c)
  PROVE  IInv'
<1> DEFINE cents == bal[Pot(call[c].pot)]
           new == [call[c] EXCEPT !.amt = cents, !.at = AfterBalance(cents)]
<1>1. /\ TypeOK /\ At(c, "archive", "balance") /\ call' = [call EXCEPT ![c] = new]
      /\ UNCHANGED <<bal, pots, rows, details, od, receipts, starts, owned, late, exposed, broken>>
  BY DEF IInv, ArchiveBalance, Ghosts
<1>2. /\ call[c] \in CallRows /\ call[c].pot \in PotIds /\ call \in [Calls -> CallRows]
      /\ late[call[c].pot] \in Nat
  BY <1>1, CallType DEF TypeOK
<1>3. cents \in Nat
  BY <1>1, <1>2, AccountFacts DEF TypeOK
<1> HIDE DEF cents
<1>4. AfterBalance(cents) \in {"post", "mark"} /\ (AfterBalance(cents) = "mark" => cents = 0)
  BY <1>3 DEF AfterBalance
<1>5. /\ new \in CallRows /\ new.op = "archive" /\ new.pot = call[c].pot /\ new.cur = call[c].cur
      /\ new.tx = call[c].tx /\ new.amt = cents /\ new.at = AfterBalance(cents)
  BY <1>1, <1>2, <1>3, <1>4 DEF CallRows, CallSteps, At
<1> HIDE DEF new
<1>6. Moved(c) /\ call'[c] = new
  BY <1>1, <1>2, <1>5 DEF Moved
<1>7. TypeOK'
  BY <1>1, <1>6 DEF TypeOK, Moved
<1>8. CallInv(c)'
  <2>1. /\ pots[call[c].pot].state # "absent" /\ call[c].cur = pots[call[c].pot].cur
        /\ call[c].tx \in 1 .. starts /\ \A i \in DOMAIN receipts : receipts[i].tx # call[c].tx
    BY <1>1 DEF IInv, CallInv, At
  <2>2. /\ cents <= cents + late[call[c].pot]
        /\ AfterBalance(cents) = "mark" => cents <= late[call[c].pot]
    BY <1>2, <1>3, <1>4
  <2> QED BY <1>1, <1>5, <1>6, <2>1, <2>2 DEF CallInv, At, cents
<1> QED BY <1>1, <1>5, <1>6, <1>7, <1>8, QuietStep DEF At

\* AutoRepayOnInflow reads the row of the overdraft.
LEMMA AutoRepayStep ==
  ASSUME IInv, NEW c \in Calls, AutoRepay(c)
  PROVE  IInv'
<1> DEFINE s == IF CanRepay(od) /\ call[c].got > 0 THEN "repay" ELSE "in"
           new == [call[c] EXCEPT !.read = od, !.at = s]
<1>1. /\ TypeOK /\ At(c, "convert", "inflow") /\ call' = [call EXCEPT ![c] = new]
      /\ UNCHANGED <<bal, pots, rows, details, od, receipts, starts, owned, late, exposed, broken>>
  BY DEF IInv, AutoRepay, Ghosts
<1>2. call[c] \in CallRows /\ call \in [Calls -> CallRows] /\ od \in OverdraftRows
  BY <1>1, CallType DEF TypeOK
<1>3. s \in {"repay", "in"}
  OBVIOUS
<1> HIDE DEF s
<1>4. /\ new \in CallRows /\ new.op = "convert" /\ new.cur = call[c].cur /\ new.to = call[c].to
      /\ new.amt = call[c].amt /\ new.tx = call[c].tx /\ new.at = s
  BY <1>1, <1>2, <1>3 DEF CallRows, CallSteps, At
<1> HIDE DEF new
<1>5. Moved(c) /\ call'[c] = new
  BY <1>1, <1>2, <1>4 DEF Moved
<1>6. TypeOK'
  BY <1>1, <1>5 DEF TypeOK, Moved
<1>7. CallInv(c)'
  <2>1. /\ call[c].cur # call[c].to /\ call[c].amt > 0 /\ call[c].tx \in 1 .. starts
        /\ \A i \in DOMAIN receipts : receipts[i].tx = call[c].tx => receipts[i].type # "convert_in"
    BY <1>1 DEF IInv, CallInv, At
  <2> QED BY <1>1, <1>3, <1>4, <1>5, <2>1 DEF CallInv, At
<1> QED BY <1>1, <1>4, <1>5, <1>6, <1>7, QuietStep DEF At

\* The row of the overdraft that a repayment saves.
LEMMA RepaidType ==
  ASSUME NEW o \in OverdraftRows, NEW read \in OverdraftRows, NEW amt \in Nat
  PROVE  UpdateRepaid(o, read, RepayAmount(read, amt)) \in OverdraftRows
<1>1. read.used \in Nat /\ read.accrued \in Nat
  BY DEF OverdraftRows
<1>2. PICK n \in Nat : n = RepayAmount(read, amt)
  BY <1>1 DEF RepayAmount, MinOf, Owed
<1>3. FeePart(read, n) \in Nat /\ FeePart(read, n) <= read.accrued /\ FeePart(read, n) <= n
  BY <1>1 DEF FeePart, MinOf
<1>4. PrincipalPart(read, n) \in Nat /\ PrincipalPart(read, n) <= read.used
  BY <1>1, <1>3 DEF PrincipalPart, MinOf
<1> DEFINE new == AfterRepay(read, n)
<1>5. new.used \in Nat /\ new.accrued \in Nat
  BY <1>1, <1>3, <1>4 DEF AfterRepay
<1> HIDE DEF new
<1>6. UpdateRepaid(o, read, n) =
        [o EXCEPT !.used = new.used, !.accrued = new.accrued, !.since = FALSE,
                  !.status = IF new.used > 0 \/ new.accrued > 0 THEN "used" ELSE "active"]
  BY DEF UpdateRepaid, new
<1>7. UpdateRepaid(o, read, n) \in OverdraftRows
  BY <1>5, <1>6 DEF OverdraftRows
<1> QED BY <1>2, <1>7

\* The row is saved, or the statement fails after the money moved.
LEMMA SaveRepaymentStep ==
  ASSUME IInv, NEW c \in Calls, SaveRepayment(c)
  PROVE  IInv'
<1>1. /\ TypeOK /\ At(c, "convert", "repaid") /\ Goto(c, "in")
      /\ UNCHANGED <<bal, pots, rows, details, receipts, starts, owned, late, exposed>>
  BY DEF IInv, SaveRepayment, Ghosts
<1>2. od' \in OverdraftRows /\ broken' \in BOOLEAN /\ (broken => broken')
  BY <1>1, CallType, RepaidType DEF SaveRepayment, TypeOK
<1>3. Moved(c) /\ SameRequest(c) /\ call'[c].at = "in" /\ call'[c].amt = call[c].amt
  BY <1>1, GotoEffect DEF CallSteps
<1>4. TypeOK'
  BY <1>1, <1>2, <1>3 DEF TypeOK, Moved
<1>5. CallInv(c)'
  <2>1. /\ call[c].cur # call[c].to /\ call[c].amt > 0 /\ call[c].tx \in 1 .. starts
        /\ \A i \in DOMAIN receipts : receipts[i].tx = call[c].tx => receipts[i].type # "convert_in"
    BY <1>1 DEF IInv, CallInv, At
  <2> QED BY <1>1, <1>3, <2>1 DEF CallInv, At, SameRequest
<1>6. call[c].op # "idle" /\ ~At(c, "create", "details") /\ call'[c].op # "delete" /\ call'[c].tx = call[c].tx
  BY <1>1, <1>3 DEF At, SameRequest
<1> QED BY <1>1, <1>2, <1>3, <1>4, <1>5, <1>6, QuietStep

\* A request dies between two steps.
LEMMA DieStep ==
  ASSUME IInv, NEW c \in Calls, Die(c)
  PROVE  IInv'
<1>1. /\ TypeOK /\ Finish(c) /\ broken' = TRUE /\ call[c] # Idle
      /\ UNCHANGED <<bal, pots, rows, details, od, receipts, starts, owned, late, exposed>>
  BY DEF IInv, Die, Ghosts
<1>2. Moved(c) /\ call'[c] = Idle /\ call'[c].op = "idle" /\ call'[c].tx = 0 /\ CallInv(c)'
  BY <1>1, FinishEffect, IdleInv
<1>3. call[c].op # "idle"
  BY <1>1 DEF IInv, CallInv
<1>4. TypeOK'
  BY <1>1, <1>2 DEF TypeOK, Moved
<1> QED BY <1>1, <1>2, <1>3, <1>4, QuietStep

(***************************************************************************)
(* The postings.                                                           *)
(***************************************************************************)

\* A request that posted goes on, or its caller never learned of the posting.
LEMMA PostEffect ==
  ASSUME TypeOK, NEW c \in Calls, NEW src, NEW amt, NEW b, NEW s \in CallSteps, Post(c, src, amt, b, s)
  PROVE  /\ Moved(c) /\ broken' \in BOOLEAN /\ (broken => broken')
         /\ bal' = bal \/ (bal' = b /\ Covers(bal, src, amt))
         /\ \/ call'[c] = Idle /\ call'[c].op = "idle" /\ call'[c].tx = 0
            \/ /\ SameRequest(c) /\ call'[c].at = s /\ call'[c].amt = call[c].amt
               /\ call'[c].got = call[c].got /\ call'[c].row = call[c].row
               /\ bal' = b
<1>1. PICK outcome \in CallOutcomes :
        /\ IF Applied(outcome) THEN Covers(bal, src, amt) /\ bal' = b ELSE bal' = bal
        /\ IF Confirmed(outcome) THEN Goto(c, s) /\ UNCHANGED broken
                                 ELSE Finish(c) /\ broken' = TRUE
  BY DEF Post
<1>2. bal' = bal \/ (bal' = b /\ Covers(bal, src, amt))
  BY <1>1
<1>3. broken' \in BOOLEAN /\ (broken => broken')
  BY <1>1 DEF TypeOK
<1>4. CASE outcome = "ok"
  <2>1. Goto(c, s) /\ bal' = b
    BY <1>1, <1>4 DEF Applied, Confirmed
  <2> QED BY <1>2, <1>3, <2>1, GotoEffect
<1>5. CASE outcome # "ok"
  <2>1. Finish(c)
    BY <1>1, <1>5 DEF Confirmed
  <2> QED BY <1>2, <1>3, <2>1, FinishEffect
<1> QED BY <1>4, <1>5

\* A step that moves money and leaves the tables and the receipts alone.
LEMMA PostingStep ==
  ASSUME IInv, TypeOK', NEW c \in Calls, Moved(c), call[c].op \in {"add", "withdraw", "archive", "convert"},
         UNCHANGED <<pots, rows, details, receipts, starts>>, broken => broken',
         \/ call'[c].op = "idle" /\ call'[c].tx = 0
         \/ call'[c].op = call[c].op /\ call'[c].tx = call[c].tx,
         LateGrows, MoneyInv', CallInv(c)', \A p \in PotIds : PotInv(p)', exposed \subseteq exposed',
         \A cur \in Currencies : \/ bal'[Main(cur)] <= bal[Main(cur)]
                                 \/ ActiveRows(cur) = {} \/ ClosingNow(cur) => cur \in exposed'
  PROVE  IInv'
<1>1. PotsGrow /\ WritesReceipt(c) /\ NamesInv'
  BY DEF IInv, PotsGrow, WritesReceipt, NamesInv
<1>2. NumbersInv'
  BY NumbersKeep DEF IInv
<1>3. RowsInv'
  BY RowsKept DEF IInv, At
<1>4. \A cur \in Currencies : ClosedInv(cur)'
  <2> TAKE cur \in Currencies
  <2>1. ClosingNow(cur)' => ClosingNow(cur)
    BY ClosingKept
  <2> QED BY <2>1, ClosedKept DEF IInv
<1> QED BY <1>1, <1>2, <1>3, <1>4, AssembleStep

\* What stays of a pot's request after its posting.
LEMMA PotCallInv ==
  ASSUME IInv, NEW c \in Calls, call[c].op \in {"add", "withdraw", "archive"}, call[c].at = "post",
         UNCHANGED <<pots, receipts, starts>>,
         \/ call'[c] = Idle /\ call'[c].op = "idle" /\ call'[c].tx = 0
         \/ /\ SameRequest(c)
            /\ \/ call'[c].at = "receipt" /\ call[c].op # "archive"
               \/ call'[c].at = "mark" /\ bal'[Pot(call[c].pot)] <= late'[call[c].pot]
  PROVE  CallInv(c)'
<1>1. CASE call'[c] = Idle
  BY <1>1, IdleInv
<1>2. CASE /\ SameRequest(c)
           /\ \/ call'[c].at = "receipt" /\ call[c].op # "archive"
              \/ call'[c].at = "mark" /\ bal'[Pot(call[c].pot)] <= late'[call[c].pot]
  <2>1. /\ pots[call[c].pot].state # "absent" /\ call[c].cur = pots[call[c].pot].cur
        /\ call[c].tx \in 1 .. starts /\ \A i \in DOMAIN receipts : receipts[i].tx # call[c].tx
    BY DEF IInv, CallInv
  <2> QED BY <1>2, <2>1 DEF CallInv, At, SameRequest
<1> QED BY <1>1, <1>2

\* A deposit: late if the pot is archived, or about to be.
LEMMA PostDepositStep ==
  ASSUME IInv, NEW c \in Calls, PostDeposit(c)
  PROVE  IInv'
<1> DEFINE p == call[c].pot
           cur == call[c].cur
           amt == call[c].amt
           b == TransferToPot(bal, p, cur, amt)
<1>1. /\ TypeOK /\ At(c, "add", "post") /\ Post(c, Main(cur), amt, b, "receipt")
      /\ late' = IF bal' # bal /\ (pots[p].state = "archived" \/ ArchivingNow(p))
                   THEN [late EXCEPT ![p] = @ + amt] ELSE late
      /\ UNCHANGED <<pots, rows, details, od, receipts, starts, owned, exposed>>
  BY DEF IInv, PostDeposit
<1>2. /\ Moved(c) /\ broken' \in BOOLEAN /\ (broken => broken')
      /\ bal' = bal \/ (bal' = b /\ Covers(bal, Main(cur), amt))
      /\ \/ call'[c] = Idle /\ call'[c].op = "idle" /\ call'[c].tx = 0
         \/ SameRequest(c) /\ call'[c].at = "receipt"
  BY <1>1, PostEffect DEF CallSteps
<1>3. /\ p \in PotIds /\ cur \in Currencies /\ amt \in Nat /\ call[c].op = "add" /\ call[c].at = "post"
      /\ pots[p].state # "absent" /\ pots[p].cur = cur /\ pots[p] \in PotRows
  BY <1>1, CallType DEF IInv, CallInv, TypeOK, At
<1>4. /\ \/ call'[c].op = "idle" /\ call'[c].tx = 0
         \/ call'[c].op = call[c].op /\ call'[c].tx = call[c].tx
      /\ CallInv(c)'
  BY <1>1, <1>2, <1>3, PotCallInv DEF SameRequest
<1>5. CASE bal' = bal
  <2>1. UNCHANGED <<bal, pots, rows, details, receipts, starts, owned, late, exposed>>
    BY <1>1, <1>5
  <2>2. TypeOK'
    BY <1>1, <1>2, <2>1 DEF TypeOK, Moved
  <2> QED BY <1>2, <1>3, <1>4, <2>1, <2>2, QuietStep DEF At
<1>6. CASE bal' # bal
  <2>1. bal' = Send(bal, Main(cur), Pot(p), amt) /\ bal[Main(cur)] >= amt
    BY <1>2, <1>3, <1>6, AccountFacts DEF TransferToPot, Covers
  <2>2. /\ bal \in [Accounts -> Int] /\ Main(cur) \in Accounts /\ Pot(p) \in Accounts /\ Main(cur) # Pot(p)
        /\ \A a \in Accounts \ {World} : bal[a] >= 0
    BY <1>1, <1>3, AccountFacts DEF TypeOK
  <2>3. /\ bal' \in [Accounts -> Int] /\ bal'[Main(cur)] = bal[Main(cur)] - amt
        /\ bal'[Pot(p)] = bal[Pot(p)] + amt
        /\ \A a \in Accounts \ {Main(cur), Pot(p)} : bal'[a] = bal[a]
    <3>1. amt \in Int
      BY <1>3
    <3> QED BY <2>1, <2>2, <3>1, SendEffect
  <2>4. \A a \in Accounts \ {World} : bal'[a] >= 0
    <3> TAKE a \in Accounts \ {World}
    <3>1. bal[a] \in Int /\ bal[a] >= 0 /\ bal[Main(cur)] \in Int /\ bal[Pot(p)] \in Int
      BY <2>2
    <3> QED BY <1>3, <2>1, <2>3, <3>1
  <2>5. late \in [PotIds -> Nat] /\ late' \in [PotIds -> Nat]
    BY <1>1, <1>3 DEF TypeOK
  <2>6. TypeOK'
    BY <1>1, <1>2, <2>3, <2>4, <2>5 DEF TypeOK, Moved
  <2>7. /\ pots[p].state = "archived" \/ ArchivingNow(p) => late'[p] = late[p] + amt
        /\ late[p] <= late'[p]
        /\ \A q \in PotIds \ {p} : late'[q] = late[q] /\ bal'[Pot(q)] = bal[Pot(q)]
    <3>1. \A q \in PotIds \ {p} : bal'[Pot(q)] = bal[Pot(q)]
      BY <1>3, <2>3, AccountFacts
    <3>2. late[p] \in Nat
      BY <1>3, <2>5
    <3> QED BY <1>1, <1>3, <1>6, <2>5, <3>1, <3>2
  <2>8. \A q \in PotIds : PotInv(q)'
    <3> TAKE q \in PotIds
    <3>1. /\ bal[Pot(q)] \in Int /\ late[q] \in Nat /\ late'[q] \in Nat
      BY <2>2, <2>5, AccountFacts
    <3>2. CASE q = p
      <4>1. pots'[p].state # "absent" /\ (pots'[p].state # "active" => pots[p].state = "archived")
        BY <1>1, <1>3 DEF PotRows
      <4>2. pots'[p].state # "active" => bal'[Pot(p)] <= late'[p]
        BY <4>1, <1>3, <2>3, <2>7, <3>1, <3>2 DEF IInv, PotInv
      <4> QED BY <3>2, <4>1, <4>2 DEF PotInv
    <3>3. CASE q # p
      BY <1>1, <2>7, <3>3 DEF IInv, PotInv
    <3> QED BY <3>2, <3>3
  <2>9. LateGrows
    <3>1. \A q \in PotIds : bal[Pot(q)] \in Int /\ late[q] \in Nat
      BY <2>2, <2>5, AccountFacts
    <3> QED BY <1>3, <2>3, <2>7, <3>1 DEF LateGrows
  <2>10. \A k \in Currencies \ {cur} : bal'[Main(k)] = bal[Main(k)]
    BY <1>3, <2>3, AccountFacts
  <2>11. MoneyInv'
    BY <1>1, <1>3, <2>3, <2>6, <2>7, <2>8, <2>10, PotMove DEF IInv
  <2>12. \A k \in Currencies : bal'[Main(k)] <= bal[Main(k)]
    <3>1. \A k \in Currencies : bal[Main(k)] \in Int
      BY <2>2, AccountFacts
    <3> QED BY <1>3, <2>3, <2>10, <3>1
  <2> QED BY <1>1, <1>2, <1>3, <1>4, <2>6, <2>8, <2>9, <2>11, <2>12, PostingStep
<1> QED BY <1>5, <1>6

\* A withdrawal, or what ArchivePot returns to the main account.
LEMMA PostWithdrawalStep ==
  ASSUME IInv, NEW c \in Calls, PostWithdrawal(c)
  PROVE  IInv'
<1> DEFINE p == call[c].pot
           cur == call[c].cur
           amt == call[c].amt
           b == TransferFromPot(bal, p, cur, amt)
           s == IF call[c].op = "archive" THEN "mark" ELSE "receipt"
<1>1. /\ TypeOK /\ call[c].op \in {"withdraw", "archive"} /\ call[c].at = "post"
      /\ Post(c, Pot(p), amt, b, s) /\ Credited(cur)
      /\ UNCHANGED <<pots, rows, details, od, receipts, starts, owned, late>>
  BY DEF IInv, PostWithdrawal
<1>2. /\ Moved(c) /\ broken' \in BOOLEAN /\ (broken => broken')
      /\ bal' = bal \/ (bal' = b /\ Covers(bal, Pot(p), amt))
      /\ \/ call'[c] = Idle /\ call'[c].op = "idle" /\ call'[c].tx = 0
         \/ SameRequest(c) /\ call'[c].at = s /\ bal' = b
  BY <1>1, PostEffect DEF CallSteps
<1>3. /\ p \in PotIds /\ cur \in Currencies /\ amt \in Nat
      /\ pots[p].state # "absent" /\ pots[p].cur = cur
      /\ exposed \subseteq exposed' /\ exposed' \in SUBSET Currencies
  BY <1>1, CallType DEF IInv, CallInv, TypeOK, At, Credited
<1>4. /\ bal \in [Accounts -> Int] /\ Main(cur) \in Accounts /\ Pot(p) \in Accounts /\ Main(cur) # Pot(p)
      /\ \A a \in Accounts \ {World} : bal[a] >= 0
  BY <1>1, <1>3, AccountFacts DEF TypeOK
<1>5. /\ b \in [Accounts -> Int] /\ b[Main(cur)] = bal[Main(cur)] + amt
      /\ b[Pot(p)] = bal[Pot(p)] - amt
      /\ \A a \in Accounts \ {Main(cur), Pot(p)} : b[a] = bal[a]
  <2>1. amt \in Int /\ b = Send(bal, Pot(p), Main(cur), amt)
    BY <1>3 DEF TransferFromPot
  <2> HIDE DEF b
  <2> QED BY <1>4, <2>1, SendEffect
<1>6. bal' # bal => bal[Pot(p)] >= amt
  BY <1>2, <1>3, AccountFacts DEF Covers
<1> HIDE DEF b
<1>7. CallInv(c)'
  <2>1. CASE call'[c] = Idle
    BY <2>1, IdleInv
  <2>2. CASE SameRequest(c) /\ call'[c].at = s /\ bal' = b
    <3>1. bal[Pot(p)] \in Int /\ late[p] \in Nat /\ late' = late
      BY <1>1, <1>3, <1>4 DEF TypeOK
    <3>2. call[c].op = "archive" => bal[Pot(p)] <= amt + late[p]
      BY <1>1 DEF IInv, CallInv, At
    <3>3. call[c].op = "archive" => bal'[Pot(p)] <= late'[p]
      BY <1>3, <1>5, <2>2, <3>1, <3>2
    <3> QED BY <1>1, <2>2, <3>3, PotCallInv
  <2> QED BY <1>2, <2>1, <2>2
<1>8. \/ call'[c].op = "idle" /\ call'[c].tx = 0
      \/ call'[c].op = call[c].op /\ call'[c].tx = call[c].tx
  BY <1>2 DEF SameRequest
<1>9. ASSUME NEW k \in Currencies
      PROVE  /\ bal[Main(k)] \in Int
             /\ k # cur => bal'[Main(k)] = bal[Main(k)]
             /\ \/ bal'[Main(k)] <= bal[Main(k)]
                \/ ActiveRows(k) = {} \/ ClosingNow(k) => k \in exposed'
  <2>1. bal[Main(k)] \in Int /\ bal'[Main(k)] \in Int
    BY <1>2, <1>4, <1>5, AccountFacts
  <2>2. k # cur => bal'[Main(k)] = bal[Main(k)]
    BY <1>2, <1>3, <1>5, AccountFacts
  <2>3. k = cur => \/ bal'[Main(k)] <= bal[Main(k)]
                   \/ ActiveRows(k) = {} \/ ClosingNow(k) => k \in exposed'
    BY <1>1, <2>1 DEF Credited
  <2> QED BY <2>1, <2>2, <2>3
<1>10. CASE bal' = bal
  <2>1. TypeOK'
    BY <1>1, <1>2, <1>3, <1>10 DEF TypeOK, Moved
  <2>2. LateGrows /\ \A q \in PotIds : PotInv(q)'
    BY <1>1, <1>10, <1>4, AccountFacts DEF LateGrows, IInv, PotInv, TypeOK
  <2>3. MoneyInv'
    BY <1>1, <1>10, <2>1, <2>2, MoneyKept DEF IInv
  <2> QED BY <1>1, <1>2, <1>3, <1>7, <1>8, <1>9, <2>1, <2>2, <2>3, PostingStep
<1>11. CASE bal' # bal
  <2>1. bal' = b
    BY <1>2, <1>11
  <2>2. \A a \in Accounts \ {World} : bal'[a] >= 0
    <3> TAKE a \in Accounts \ {World}
    <3>1. bal[a] \in Int /\ bal[a] >= 0 /\ bal[Main(cur)] \in Int /\ bal[Pot(p)] \in Int
      BY <1>4
    <3> QED BY <1>3, <1>5, <1>6, <1>11, <2>1, <3>1
  <2>3. TypeOK'
    BY <1>1, <1>2, <1>3, <1>5, <2>1, <2>2 DEF TypeOK, Moved
  <2>4. \A q \in PotIds : /\ bal[Pot(q)] \in Int /\ bal'[Pot(q)] \in Int /\ late[q] \in Nat
                          /\ bal'[Pot(q)] <= bal[Pot(q)] /\ (q # p => bal'[Pot(q)] = bal[Pot(q)])
    <3> TAKE q \in PotIds
    <3>1. bal[Pot(q)] \in Int /\ bal'[Pot(q)] \in Int /\ late[q] \in Nat
      BY <1>1, <1>4, <1>5, <2>1, AccountFacts DEF TypeOK
    <3>2. q # p => bal'[Pot(q)] = bal[Pot(q)]
      BY <1>3, <1>5, <2>1, AccountFacts
    <3>3. bal'[Pot(p)] <= bal[Pot(p)]
      BY <1>3, <1>4, <1>5, <2>1
    <3> QED BY <3>1, <3>2, <3>3
  <2>5. LateGrows
    BY <1>1, <2>4 DEF LateGrows
  <2>6. \A q \in PotIds : PotInv(q)'
    <3> TAKE q \in PotIds
    <3>1. pots'[q].state = "absent" => pots'[q].cur = ETB /\ bal'[Pot(q)] = 0
      BY <1>1, <1>3, <2>4 DEF IInv, PotInv
    <3>2. pots'[q].state # "active" => bal'[Pot(q)] <= late'[q]
      BY <1>1, <2>4 DEF IInv, PotInv
    <3> QED BY <3>1, <3>2 DEF PotInv
  <2>7. MoneyInv'
    <3> DEFINE n == -amt
    <3>1. n \in Int /\ bal[Pot(p)] \in Int /\ bal[Main(cur)] \in Int
      BY <1>3, <1>4
    <3>2. bal'[Pot(p)] = bal[Pot(p)] + n /\ bal'[Main(pots[p].cur)] = bal[Main(pots[p].cur)] - n
      BY <1>3, <1>5, <2>1, <3>1
    <3> HIDE DEF n
    <3>3. \A k \in Currencies \ {pots[p].cur} : bal'[Main(k)] = bal[Main(k)]
      BY <1>3, <1>9
    <3> QED BY <1>1, <1>3, <2>3, <2>4, <2>6, <3>1, <3>2, <3>3, PotMove DEF IInv
  <2> QED BY <1>1, <1>2, <1>3, <1>7, <1>8, <1>9, <2>3, <2>5, <2>6, <2>7, PostingStep
<1> QED BY <1>10, <1>11

\* What the one transaction of a conversion does.
LEMMA ConvertEffect ==
  ASSUME TypeOK, NEW from \in Currencies, NEW to \in Currencies, from # to,
         NEW amt, NEW got, amt \in Nat, got \in Nat, NEW b, b = ConvertCurrency(bal, from, amt, to, got)
  PROVE  /\ b \in [Accounts -> Int]
         /\ b[Main(from)] = bal[Main(from)] - amt /\ b[Main(to)] = bal[Main(to)] + got
         /\ \A cur \in Currencies \ {from, to} : b[Main(cur)] = bal[Main(cur)]
         /\ \A p \in PotIds : b[Pot(p)] = bal[Pot(p)]
         /\ bal[Main(from)] >= amt => \A a \in Accounts \ {World} : b[a] >= 0
<1> DEFINE paid == Send(bal, Main(from), FX(from), amt)
           stock == MinOf(paid[FX(to)], got)
           lent == Send(paid, FX(to), Main(to), stock)
<1>1. b = Send(lent, World, Main(to), got - stock)
  BY DEF ConvertCurrency
<1>2. /\ bal \in [Accounts -> Int] /\ \A a \in Accounts \ {World} : bal[a] >= 0
  BY DEF TypeOK
<1>3. /\ Main(from) \in Accounts /\ FX(from) \in Accounts /\ Main(from) # FX(from)
      /\ Main(to) \in Accounts /\ FX(to) \in Accounts /\ FX(to) # Main(to) /\ World \in Accounts
      /\ World # Main(to) /\ Main(from) # Main(to) /\ FX(from) # FX(to)
      /\ FX(to) # Main(from) /\ Main(to) # FX(from) /\ FX(to) # World /\ FX(from) # World /\ Main(from) # World
  BY AccountFacts
<1>4. /\ paid \in [Accounts -> Int] /\ paid[Main(from)] = bal[Main(from)] - amt
      /\ paid[FX(from)] = bal[FX(from)] + amt
      /\ \A a \in Accounts \ {Main(from), FX(from)} : paid[a] = bal[a]
  BY <1>2, <1>3, SendEffect
<1> HIDE DEF paid
<1>5. /\ paid[FX(to)] = bal[FX(to)] /\ bal[FX(to)] \in Nat
  BY <1>2, <1>3, <1>4
<1>6. stock \in Nat /\ stock <= paid[FX(to)] /\ stock <= got
  BY <1>5 DEF MinOf
<1> HIDE DEF stock
<1>7. /\ lent \in [Accounts -> Int] /\ lent[FX(to)] = paid[FX(to)] - stock
      /\ lent[Main(to)] = paid[Main(to)] + stock
      /\ \A a \in Accounts \ {FX(to), Main(to)} : lent[a] = paid[a]
  BY <1>3, <1>4, <1>6, SendEffect
<1> HIDE DEF lent
<1>8. /\ b \in [Accounts -> Int] /\ b[Main(to)] = lent[Main(to)] + (got - stock)
      /\ \A a \in Accounts \ {World, Main(to)} : b[a] = lent[a]
  BY <1>1, <1>3, <1>6, <1>7, SendEffect
<1>9. \A a \in Accounts \ {World, Main(from), FX(from), Main(to), FX(to)} : b[a] = bal[a]
  BY <1>4, <1>7, <1>8
<1>10. /\ b[Main(from)] = bal[Main(from)] - amt /\ b[FX(from)] = bal[FX(from)] + amt
       /\ b[FX(to)] = bal[FX(to)] - stock
  BY <1>3, <1>4, <1>7, <1>8
<1>11. b[Main(to)] = bal[Main(to)] + got
  <2>1. paid[Main(to)] = bal[Main(to)] /\ bal[Main(to)] \in Int
    BY <1>2, <1>3, <1>4
  <2> QED BY <1>6, <1>7, <1>8, <2>1
<1>12. \A cur \in Currencies \ {from, to} : b[Main(cur)] = bal[Main(cur)]
  BY <1>9, AccountFacts
<1>13. \A p \in PotIds : b[Pot(p)] = bal[Pot(p)]
  BY <1>9, AccountFacts
<1>14. ASSUME bal[Main(from)] >= amt, NEW a \in Accounts \ {World} PROVE b[a] >= 0
  <2>1. /\ bal[a] \in Nat /\ bal[Main(from)] \in Nat /\ bal[Main(to)] \in Nat
        /\ bal[FX(from)] \in Nat /\ bal[FX(to)] \in Nat
    BY <1>2, <1>3
  <2>2. b[Main(from)] >= 0 /\ b[FX(from)] >= 0 /\ b[FX(to)] >= 0 /\ b[Main(to)] >= 0
    BY <2>1, <1>5, <1>6, <1>10, <1>11, <1>14
  <2> QED BY <1>9, <2>1, <2>2
<1> QED BY <1>8, <1>10, <1>11, <1>12, <1>13, <1>14

\* The transaction of a conversion.
LEMMA PostConversionStep ==
  ASSUME IInv, NEW c \in Calls, PostConversion(c)
  PROVE  IInv'
<1> DEFINE from == call[c].cur
           to == call[c].to
           amt == call[c].amt
           got == call[c].got
           b == ConvertCurrency(bal, from, amt, to, got)
<1>1. /\ TypeOK /\ At(c, "convert", "post") /\ Post(c, Main(from), amt, b, "out") /\ Credited(to)
      /\ owned' = IF bal' = bal THEN owned
                    ELSE [owned EXCEPT ![from] = @ - amt, ![to] = @ + got]
      /\ UNCHANGED <<pots, rows, details, od, receipts, starts, late>>
  BY DEF IInv, PostConversion
<1>2. /\ Moved(c) /\ broken' \in BOOLEAN /\ (broken => broken')
      /\ bal' = bal \/ (bal' = b /\ Covers(bal, Main(from), amt))
      /\ \/ call'[c] = Idle /\ call'[c].op = "idle" /\ call'[c].tx = 0
         \/ SameRequest(c) /\ call'[c].at = "out" /\ call'[c].amt = call[c].amt
  BY <1>1, PostEffect DEF CallSteps
<1>3. /\ from \in Currencies /\ to \in Currencies /\ from # to /\ amt \in Nat /\ amt > 0 /\ got \in Nat
      /\ exposed \subseteq exposed' /\ exposed' \in SUBSET Currencies /\ call[c].op = "convert"
      /\ call[c].tx \in 1 .. starts /\ \A i \in DOMAIN receipts : receipts[i].tx # call[c].tx
  BY <1>1, CallType DEF IInv, CallInv, TypeOK, At, Credited
<1>4. /\ b \in [Accounts -> Int] /\ b[Main(from)] = bal[Main(from)] - amt
      /\ b[Main(to)] = bal[Main(to)] + got
      /\ \A cur \in Currencies \ {from, to} : b[Main(cur)] = bal[Main(cur)]
      /\ \A p \in PotIds : b[Pot(p)] = bal[Pot(p)]
      /\ bal[Main(from)] >= amt => \A a \in Accounts \ {World} : b[a] >= 0
  BY <1>1, <1>3, ConvertEffect
<1> HIDE DEF b
<1>5. \A cur \in Currencies : bal[Main(cur)] \in Int /\ owned[cur] \in Int
  BY <1>1, AccountFacts DEF TypeOK
<1>6. bal' # bal => bal' = b /\ bal[Main(from)] >= amt
  BY <1>2, <1>3, AccountFacts DEF Covers
<1>7. CallInv(c)'
  <2>1. CASE call'[c] = Idle
    BY <2>1, IdleInv
  <2>2. CASE SameRequest(c) /\ call'[c].at = "out" /\ call'[c].amt = call[c].amt
    BY <1>1, <1>3, <2>2 DEF CallInv, At, SameRequest
  <2> QED BY <1>2, <2>1, <2>2
<1>8. \/ call'[c].op = "idle" /\ call'[c].tx = 0
      \/ call'[c].op = call[c].op /\ call'[c].tx = call[c].tx
  BY <1>2 DEF SameRequest
<1>9. bal' \in [Accounts -> Int] /\ \A a \in Accounts \ {World} : bal'[a] >= 0
  BY <1>1, <1>4, <1>6 DEF TypeOK
<1>10. owned' \in [Currencies -> Int]
  BY <1>1, <1>3, <1>5 DEF TypeOK
<1>11. TypeOK'
  BY <1>1, <1>2, <1>3, <1>9, <1>10 DEF TypeOK, Moved
<1>12. \A p \in PotIds : bal'[Pot(p)] = bal[Pot(p)]
  BY <1>4, <1>6
<1>13. LateGrows /\ \A p \in PotIds : PotInv(p)'
  <2>1. \A p \in PotIds : bal[Pot(p)] \in Int /\ late[p] \in Nat
    BY <1>1, AccountFacts DEF TypeOK
  <2> QED BY <1>1, <1>12, <2>1 DEF LateGrows, IInv, PotInv
<1>14. MoneyInv'
  <2>1. \A cur \in Currencies : owned'[cur] - owned[cur] = bal'[Main(cur)] - bal[Main(cur)]
    <3> TAKE cur \in Currencies
    <3>1. bal[Main(cur)] \in Int /\ owned[cur] \in Int
      BY <1>5
    <3>2. CASE bal' = bal
      BY <1>1, <3>1, <3>2
    <3>3. CASE bal' # bal
      <4>1. bal' = b /\ owned' = [owned EXCEPT ![from] = @ - amt, ![to] = @ + got] /\ owned \in [Currencies -> Int]
        BY <1>1, <1>6, <3>3 DEF TypeOK
      <4>2. CASE cur = from
        <5>1. owned'[cur] = owned[cur] - amt /\ bal'[Main(cur)] = bal[Main(cur)] - amt
          BY <1>3, <1>4, <4>1, <4>2
        <5> QED BY <1>3, <3>1, <5>1
      <4>3. CASE cur = to
        <5>1. owned'[cur] = owned[cur] + got /\ bal'[Main(cur)] = bal[Main(cur)] + got
          BY <1>3, <1>4, <4>1, <4>3
        <5> QED BY <1>3, <3>1, <5>1
      <4>4. CASE cur \notin {from, to}
        <5>1. owned'[cur] = owned[cur] /\ bal'[Main(cur)] = bal[Main(cur)]
          BY <1>4, <4>1, <4>4
        <5> QED BY <3>1, <5>1
      <4> QED BY <4>2, <4>3, <4>4
    <3> QED BY <3>2, <3>3
  <2> QED BY <1>1, <1>11, <1>12, <1>13, <2>1, MainsMove DEF IInv
<1>15. \A cur \in Currencies : \/ bal'[Main(cur)] <= bal[Main(cur)]
                               \/ ActiveRows(cur) = {} \/ ClosingNow(cur) => cur \in exposed'
  <2> TAKE cur \in Currencies
  <2>1. bal[Main(cur)] \in Int /\ bal'[Main(cur)] \in Int
    BY <1>5, <1>9, AccountFacts
  <2>2. CASE cur = to
    BY <1>1, <2>1, <2>2 DEF Credited
  <2>3. CASE cur # to
    BY <1>3, <1>4, <1>6, <2>1, <2>3
  <2> QED BY <2>2, <2>3
<1> QED BY <1>1, <1>2, <1>3, <1>7, <1>8, <1>11, <1>13, <1>14, <1>15, PostingStep

\* The debit of a repayment; a failure is logged and the request goes on.
LEMMA PostRepaymentStep ==
  ASSUME IInv, NEW c \in Calls, PostRepayment(c)
  PROVE  IInv'
<1> DEFINE amt == RepayAmount(call[c].read, call[c].got)
<1>1. /\ TypeOK /\ At(c, "convert", "repay")
      /\ UNCHANGED <<pots, rows, details, od, receipts, starts, late, exposed>>
  BY DEF IInv, PostRepayment
<1>2. PICK outcome \in CallOutcomes :
        /\ IF Applied(outcome)
             THEN /\ Covers(bal, Main(ETB), amt)
                  /\ bal' = DebitToOverdraft(bal, ETB, amt)
                  /\ owned' = [owned EXCEPT ![ETB] = @ - amt]
             ELSE UNCHANGED <<bal, owned>>
        /\ Goto(c, IF Confirmed(outcome) THEN "repaid" ELSE "in")
        /\ broken' = (broken \/ ~ Confirmed(outcome))
  BY DEF PostRepayment
<1>3. amt \in Nat
  <2>1. call[c].read.used \in Nat /\ call[c].read.accrued \in Nat /\ call[c].got \in Nat
    BY <1>1, CallType DEF OverdraftRows
  <2> QED BY <2>1 DEF RepayAmount, MinOf, Owed
<1> HIDE DEF amt
<1> DEFINE s == IF Confirmed(outcome) THEN "repaid" ELSE "in"
<1>4. s \in CallSteps /\ s \in {"repaid", "in"} /\ Goto(c, s)
  BY <1>2 DEF CallSteps
<1> HIDE DEF s
<1>5. Moved(c) /\ SameRequest(c) /\ call'[c].at = s /\ call'[c].amt = call[c].amt
  BY <1>1, <1>4, GotoEffect
<1>6. broken' \in BOOLEAN /\ (broken => broken')
  BY <1>1, <1>2 DEF TypeOK
<1>7. CallInv(c)'
  <2>1. /\ call[c].cur # call[c].to /\ call[c].amt > 0 /\ call[c].tx \in 1 .. starts
        /\ \A i \in DOMAIN receipts : receipts[i].tx = call[c].tx => receipts[i].type # "convert_in"
    BY <1>1 DEF IInv, CallInv, At
  <2> QED BY <1>1, <1>4, <1>5, <2>1 DEF CallInv, At, SameRequest
<1>8. call[c].op = "convert" /\ call'[c].op = call[c].op /\ call'[c].tx = call[c].tx
  BY <1>1, <1>5 DEF At, SameRequest
<1>9. /\ bal \in [Accounts -> Int] /\ Main(ETB) \in Accounts /\ OverdraftCapital \in Accounts
      /\ Main(ETB) # OverdraftCapital /\ Main(ETB) # World /\ ETB \in Currencies
      /\ \A a \in Accounts \ {World} : bal[a] >= 0
  BY <1>1, CurrencyAssumption, AccountFacts DEF TypeOK
<1>10. CASE UNCHANGED <<bal, owned>>
  <2>1. TypeOK'
    BY <1>1, <1>5, <1>6, <1>10 DEF TypeOK, Moved
  <2> QED BY <1>1, <1>5, <1>6, <1>7, <1>8, <1>10, <2>1, QuietStep DEF At
<1>11. CASE /\ bal' = DebitToOverdraft(bal, ETB, amt) /\ Covers(bal, Main(ETB), amt)
            /\ owned' = [owned EXCEPT ![ETB] = @ - amt]
  <2>1. /\ bal' \in [Accounts -> Int] /\ bal'[Main(ETB)] = bal[Main(ETB)] - amt
        /\ bal'[OverdraftCapital] = bal[OverdraftCapital] + amt
        /\ \A a \in Accounts \ {Main(ETB), OverdraftCapital} : bal'[a] = bal[a]
    BY <1>3, <1>9, <1>11, SendEffect DEF DebitToOverdraft
  <2>2. bal[Main(ETB)] >= amt
    BY <1>9, <1>11 DEF Covers
  <2>3. \A a \in Accounts \ {World} : bal'[a] >= 0
    <3> TAKE a \in Accounts \ {World}
    <3>1. bal[a] \in Int /\ bal[a] >= 0 /\ bal[Main(ETB)] \in Int /\ bal[OverdraftCapital] \in Int
      BY <1>9
    <3> QED BY <1>3, <2>1, <2>2, <3>1
  <2>4. owned \in [Currencies -> Int] /\ owned' \in [Currencies -> Int]
    <3>1. owned \in [Currencies -> Int]
      BY <1>1 DEF TypeOK
    <3>2. owned[ETB] - amt \in Int
      BY <1>3, <1>9, <3>1
    <3> QED BY <1>11, <3>1, <3>2
  <2>5. TypeOK'
    BY <1>1, <1>5, <1>6, <2>1, <2>3, <2>4 DEF TypeOK, Moved
  <2>6. \A p \in PotIds : bal'[Pot(p)] = bal[Pot(p)]
    BY <1>9, <2>1, AccountFacts
  <2>7. LateGrows /\ \A p \in PotIds : PotInv(p)'
    <3>1. \A p \in PotIds : bal[Pot(p)] \in Int /\ late[p] \in Nat
      BY <1>1, AccountFacts DEF TypeOK
    <3> QED BY <1>1, <2>6, <3>1 DEF LateGrows, IInv, PotInv
  <2>8. \A cur \in Currencies : cur # ETB => bal'[Main(cur)] = bal[Main(cur)]
    BY <1>9, <2>1, AccountFacts
  <2>9. \A cur \in Currencies : bal[Main(cur)] \in Int /\ owned[cur] \in Int
    BY <1>9, <2>4, AccountFacts
  <2>10. \A cur \in Currencies : owned'[cur] - owned[cur] = bal'[Main(cur)] - bal[Main(cur)]
    <3> TAKE cur \in Currencies
    <3>1. CASE cur = ETB
      BY <1>3, <1>11, <2>1, <2>4, <2>9, <3>1
    <3>2. CASE cur # ETB
      BY <1>11, <2>4, <2>8, <2>9, <3>2
    <3> QED BY <3>1, <3>2
  <2>11. MoneyInv'
    BY <1>1, <2>5, <2>6, <2>7, <2>10, MainsMove DEF IInv
  <2>12. \A cur \in Currencies : bal'[Main(cur)] <= bal[Main(cur)]
    BY <1>3, <2>1, <2>8, <2>9
  <2> QED BY <1>1, <1>5, <1>6, <1>7, <1>8, <2>5, <2>7, <2>11, <2>12, PostingStep
<1> QED BY <1>2, <1>10, <1>11

(***************************************************************************)
(* The invariant and what follows from it.                                 *)
(***************************************************************************)

\* The wallet starts with its main accounts, one row and no pots.
LEMMA InitIInv == Init => IInv
<1> SUFFICES ASSUME Init PROVE IInv
  OBVIOUS
<1>1. \A a \in Accounts : a[1] = "main" => a[2] \in Currencies
  BY DEF Accounts, Main, FX, Pot, OverdraftCapital, World
<1>2. /\ bal = [a \in Accounts |-> IF a[1] = "main" THEN Opening[a[2]] ELSE 0]
      /\ \A cur \in Currencies : Opening[cur] \in Nat
  BY CurrencyAssumption DEF Init
<1>3. \A a \in Accounts : bal[a] \in Nat
  BY <1>1, <1>2
<1>4. \A cur \in Currencies : bal[Main(cur)] = Opening[cur]
  BY <1>2, AccountFacts DEF Main
<1>5. \A p \in PotIds : bal[Pot(p)] = 0
  BY <1>2, AccountFacts DEF Pot
<1>6. /\ pots = [p \in PotIds |-> NoPot] /\ receipts = <<>> /\ call = [c \in Calls |-> Idle] /\ starts = 0
      /\ owned = Opening /\ late = [p \in PotIds |-> 0] /\ details = {1}
      /\ exposed = {cur \in Currencies \ {ETB} : Opening[cur] > 0} /\ broken = FALSE
  BY DEF Init
<1>7. rows = [i \in 1 .. MaxRows |-> IF i = 1 THEN [state |-> "active", cur |-> ETB]
                                              ELSE [state |-> "absent", cur |-> ETB]]
  <2>1. [NoRow EXCEPT !.state = "active"] = [state |-> "active", cur |-> ETB]
    BY DEF NoRow
  <2> QED BY <2>1 DEF Init, NoRow
<1>8. 1 \in 1 .. MaxRows
  BY WalletBoundAssumption
<1>9. TypeOK
  <2>1. bal \in [Accounts -> Int] /\ \A a \in Accounts \ {World} : bal[a] >= 0
    BY <1>2, <1>3
  <2>2. pots \in [PotIds -> PotRows] /\ call \in [Calls -> CallRows]
    BY <1>6, IdleType
  <2>3. rows \in [1 .. MaxRows -> BalanceRows]
    BY <1>7, CurrencyAssumption DEF BalanceRows
  <2>4. od \in OverdraftRows
    <3>1. CASE Debt > 0
      <4>1. od = [status |-> "used", limit |-> Debt, used |-> Debt, accrued |-> 0, since |-> TRUE]
        BY <3>1 DEF Init, NoOverdraft
      <4> QED BY <4>1, AmountAssumption DEF OverdraftRows
    <3>2. CASE ~(Debt > 0)
      <4>1. od = [status |-> "active", limit |-> Debt, used |-> Debt, accrued |-> 0, since |-> FALSE]
        <5>1. (Debt > 0) = FALSE
          BY <3>2, AmountAssumption
        <5>2. od = [NoOverdraft EXCEPT !.status = "active", !.limit = Debt, !.used = Debt, !.since = FALSE]
          BY <3>2, <5>1, Zenon DEF Init
        <5> QED BY <5>2 DEF NoOverdraft
      <4> QED BY <4>1, AmountAssumption DEF OverdraftRows
    <3> QED BY <3>1, <3>2
  <2>5. receipts \in Seq(ReceiptRows) /\ starts \in Nat /\ late \in [PotIds -> Nat]
    BY <1>6
  <2>6. owned \in [Currencies -> Int] /\ exposed \in SUBSET Currencies /\ details \in SUBSET (1 .. MaxRows)
    BY <1>6, <1>8, CurrencyAssumption
  <2>7. broken \in BOOLEAN
    BY <1>6
  <2> QED BY <2>1, <2>2, <2>3, <2>4, <2>5, <2>6, <2>7 DEF TypeOK
<1>10. \A p \in PotIds : PotInv(p)
  BY <1>5, <1>6, IdleType DEF PotInv
<1>11. NamesInv
  BY <1>6, IdleType DEF NamesInv
<1>12. RowsInv
  <2>1. \A i \in 1 .. MaxRows : rows[i].state = "active" <=> i = 1
    BY <1>7
  <2>2. rows[1].cur = ETB
    BY <1>7, <1>8
  <2> QED BY <1>6, <1>8, <2>1, <2>2 DEF RowsInv
<1>13. \A c \in Calls : call[c] = Idle /\ call[c].op = "idle"
  BY <1>6, IdleType
<1>14. NumbersInv /\ \A c \in Calls : CallInv(c)
  BY <1>6, <1>13 DEF NumbersInv, CallInv, At
<1>15. ASSUME NEW cur \in Currencies PROVE ClosedInv(cur)
  <2>1. ~ClosingNow(cur)
    BY <1>13 DEF ClosingNow, At
  <2>2. CASE cur = ETB
    <3>1. 1 \in ActiveRows(ETB)
      BY <1>7, <1>8 DEF ActiveRows
    <3> QED BY <2>1, <2>2, <3>1 DEF ClosedInv
  <2>3. CASE cur # ETB
    BY <1>4, <1>6, <2>3 DEF ClosedInv
  <2> QED BY <2>2, <2>3
<1>16. ASSUME NEW cur \in Currencies PROVE Holdings(cur) = owned[cur]
  <2> DEFINE f == PotShare(bal, pots, cur)
  <2>1. Holdings(cur) = bal[Main(cur)] + SumFunctionOnSet(f, PotIds)
    BY <1>9, <1>10, HoldingsShare DEF HoldingsAre
  <2>2. \A p \in PotIds : f[p] = 0
    BY <1>5 DEF PotShare
  <2> HIDE DEF f
  <2>3. SumFunctionOnSet(f, PotIds) = 0
    <3>1. \A p \in PotIds : f[p] \in Int
      BY <2>2
    <3>2. {} \in SUBSET PotIds /\ \A p \in PotIds \ {} : f[p] = 0
      BY <2>2
    <3>3. SumFunctionOnSet(f, PotIds) = SumFunctionOnSet(f, {})
      BY <3>1, <3>2, PotAssumption, SumSupport
    <3> QED BY <3>3, SumEmpty
  <2>4. bal[Main(cur)] = Opening[cur] /\ Opening[cur] \in Nat /\ owned[cur] = Opening[cur]
    BY <1>2, <1>4, <1>6
  <2> QED BY <2>1, <2>3, <2>4
<1> QED BY <1>9, <1>10, <1>11, <1>12, <1>14, <1>15, <1>16 DEF IInv, MoneyInv

\* The invariant speaks of the variables only.
LEMMA StutterIInv ==
  ASSUME IInv, UNCHANGED vars
  PROVE  IInv'
<1> USE DEF vars
<1>1. TypeOK'
  BY DEF IInv, TypeOK
<1>2. NamesInv' /\ RowsInv' /\ NumbersInv'
  BY DEF IInv, NamesInv, RowsInv, NumbersInv, At
<1>3. \A p \in PotIds : PotInv(p)'
  BY DEF IInv, PotInv
<1>4. \A cur \in Currencies : ClosedInv(cur)'
  BY DEF IInv, ClosedInv, ActiveRows, ClosingNow, At
<1>5. \A c \in Calls : CallInv(c)'
  BY DEF IInv, CallInv, At
<1>6. MoneyInv'
  BY <1>1, <1>3, MoneyKept DEF IInv
<1> QED BY <1>1, <1>2, <1>3, <1>4, <1>5, <1>6 DEF IInv

\* Every step of every request keeps the invariant.
LEMMA NextIInv ==
  ASSUME IInv, [Next]_vars
  PROVE  IInv'
<1>1. CASE UNCHANGED vars
  BY <1>1, StutterIInv
<1>2. ASSUME NEW c \in Calls, Serve(c) PROVE IInv'
  <2>1. CASE \/ HandleCreateBalance(c) \/ HandleDeleteBalance(c) \/ HandleCreatePot(c) \/ HandleUpdatePot(c)
             \/ HandleDeletePot(c) \/ HandleAdd(c) \/ HandleWithdraw(c) \/ HandleConvert(c)
    BY <2>1, BalanceHandlers, PotHandlers, ConvertHandler
  <2>2. CASE \/ SaveBalance(c) \/ GenerateAccountDetails(c) \/ DeleteBalance(c)
             \/ SaveNewPot(c) \/ SavePot(c) \/ MarkArchived(c)
    BY <2>2, SaveBalanceStep, DetailsStep, DeleteBalanceStep, SavePotSteps
  <2>3. CASE \/ DepositReceipt(c) \/ WithdrawalReceipt(c) \/ ConvertOutReceipt(c) \/ ConvertInReceipt(c)
    BY <2>3, LastReceiptSteps, ConvertOutStep
  <2>4. CASE ArchiveBalance(c) \/ AutoRepay(c) \/ SaveRepayment(c)
    BY <2>4, ArchiveBalanceStep, AutoRepayStep, SaveRepaymentStep
  <2>5. CASE PostDeposit(c) \/ PostWithdrawal(c) \/ PostConversion(c) \/ PostRepayment(c)
    BY <2>5, PostDepositStep, PostWithdrawalStep, PostConversionStep, PostRepaymentStep
  <2> QED BY <1>2, <2>1, <2>2, <2>3, <2>4, <2>5 DEF Serve
<1> QED BY <1>1, <1>2, DieStep DEF Next, AllServed

\* The inductive invariant of the wallet: what its tables hold, what every
\* request in flight knows, and how the ledger, the pots and the receipts agree.
THEOREM WalletInvariance == Spec => []IInv
<1>1. Init => IInv
  BY InitIInv
<1>2. IInv /\ [Next]_vars => IInv'
  BY NextIInv
<1> QED BY <1>1, <1>2, PTL DEF Spec

\* Money of the user drops out of sight only if it was posted to a pot or a
\* balance that another request was closing, or had closed: ArchivePot and
\* DeleteCurrencyBalance read a balance and close what held it later.
THEOREM HiddenMoneyTheorem == Spec => []HiddenMoneyCameLate
<1>1. IInv => HiddenMoneyCameLate
  <2> SUFFICES ASSUME IInv PROVE HiddenMoneyCameLate
    OBVIOUS
  <2>1. \A p \in PotIds \ ListedPots : bal[Pot(p)] <= late[p]
    BY DEF IInv, PotInv, ListedPots, ListActivePots
  <2>2. \A cur \in Currencies \ SummaryCurrencies : ActiveRows(cur) = {}
    BY DEF SummaryCurrencies
  <2>3. \A cur \in Currencies \ SummaryCurrencies : bal[Main(cur)] > 0 => cur \in exposed
    BY <2>2 DEF IInv, ClosedInv
  <2> QED BY <2>1, <2>3 DEF HiddenMoneyCameLate
<1> QED BY <1>1, WalletInvariance, PTL

\* The books of the wallet: money is neither made nor lost between the main
\* accounts and the pots, nothing is overdrawn, a receipt stands for one posting,
\* and the tables keep their rows unique however requests meet.
THEOREM WalletBooksTheorem == Spec => []WalletBooksConsistent
<1>1. IInv => WalletBooksConsistent
  <2> SUFFICES ASSUME IInv PROVE WalletBooksConsistent
    OBVIOUS
  <2>1. \A cur \in Currencies : Holdings(cur) = owned[cur]
    BY DEF IInv, MoneyInv
  <2>2. \A a \in Accounts \ {World} : bal[a] >= 0
    BY DEF IInv, TypeOK
  <2>3. \A i, j \in DOMAIN receipts :
          receipts[i].tx = receipts[j].tx /\ receipts[i].type = receipts[j].type => i = j
    BY DEF IInv, NumbersInv
  <2>4. ASSUME NEW cur \in Currencies PROVE Cardinality(ActiveRows(cur)) <= 1
    <3>1. CASE ActiveRows(cur) = {}
      BY <3>1, FS_EmptySet
    <3>2. CASE ActiveRows(cur) # {}
      <4>1. PICK i \in 1 .. MaxRows : rows[i] = [state |-> "active", cur |-> cur]
        BY <3>2 DEF ActiveRows
      <4>2. ActiveRows(cur) = {i}
        BY <4>1 DEF ActiveRows, IInv, RowsInv
      <4> QED BY <4>2, FS_Singleton
    <3> QED BY <3>1, <3>2
  <2>5. ActiveRows(ETB) # {}
    <3>1. PICK i \in 1 .. MaxRows : rows[i].state = "active" /\ rows[i].cur = ETB
      BY DEF IInv, RowsInv
    <3>2. rows[i] \in BalanceRows
      BY DEF IInv, TypeOK
    <3>3. rows[i] = [state |-> "active", cur |-> ETB]
      BY <3>1, <3>2 DEF BalanceRows
    <3> QED BY <3>3 DEF ActiveRows
  <2>6. \A p, q \in ListedPots : pots[p].name = pots[q].name => p = q
    BY DEF IInv, NamesInv, ListedPots, ListActivePots
  <2>7. \A i \in 1 .. MaxRows :
          rows[i].state = "active" /\ i \notin details =>
            broken \/ \E c \in Calls : At(c, "create", "details") /\ call[c].row = i
    BY DEF IInv, RowsInv
  <2> QED BY <2>1, <2>2, <2>3, <2>4, <2>5, <2>6, <2>7 DEF WalletBooksConsistent
<1> QED BY <1>1, WalletInvariance, PTL

\* The two views of a page that ListTransactions could make of one receipt are
\* the same view, when no type of receipt has a number twice.
LEMMA OneView ==
  ASSUME NEW page, NEW i \in DOMAIN page,
         \A j, k \in DOMAIN page : page[j].tx = page[k].tx /\ page[j].type = page[k].type => j = k
  PROVE  Cardinality(ShownBy(page, i)) = 1
<1> DEFINE View(k) == [main |-> k, converted |-> Partner(page, k)]
           S == ShownBy(page, i)
<1>1. \A w : w \in Views(page) <=> \E k \in DOMAIN page : ~PairedIn(page, k) /\ w = View(k)
  BY DEF Views
<1>2. \A k : View(k).main = k /\ View(k).converted = Partner(page, k)
  OBVIOUS
<1>5. \A w : w \in S <=> w \in Views(page) /\ (i = w.main \/ i \in w.converted)
  BY DEF ShownBy
<1>6. \A v : S = {v} => Cardinality(S) = 1
  BY FS_Singleton
<1> HIDE DEF View, S
<1>3. CASE ~PairedIn(page, i)
  <2>1. View(i) \in S
    BY <1>1, <1>2, <1>3, <1>5
  <2>2. ASSUME NEW k \in DOMAIN page, ~PairedIn(page, k), i = k \/ i \in Partner(page, k)
        PROVE  k = i
    BY <1>3, <2>2 DEF Partner, PairedIn
  <2>3. \A w \in S : w = View(i)
    BY <1>1, <1>2, <1>5, <2>2
  <2>4. S = {View(i)}
    BY <2>1, <2>3
  <2> QED BY <1>6, <2>4 DEF S
<1>4. CASE PairedIn(page, i)
  <2>1. PICK j \in DOMAIN page : page[j].type = "convert_out" /\ page[j].tx = page[i].tx
    BY <1>4 DEF PairedIn
  <2>2. ~PairedIn(page, j) /\ i \in Partner(page, j)
    BY <1>4, <2>1 DEF PairedIn, Partner
  <2>3. View(j) \in S
    BY <1>1, <1>2, <1>5, <2>2
  <2>4. ASSUME NEW k \in DOMAIN page, ~PairedIn(page, k), i = k \/ i \in Partner(page, k)
        PROVE  k = j
    BY <1>4, <2>1, <2>4 DEF Partner
  <2>5. \A w \in S : w = View(j)
    BY <1>1, <1>2, <1>5, <2>4
  <2>6. S = {View(j)}
    BY <2>3, <2>5
  <2> QED BY <1>6, <2>6 DEF S
<1> QED BY <1>3, <1>4

\* Whatever page of the history is asked for, ListTransactions shows every receipt
\* on it once: however conversions interleave, die between their two receipts, or
\* fall on two pages.
THEOREM HistoryTheorem == Spec => []HistoryShowsEachReceiptOnce
<1>1. IInv => HistoryShowsEachReceiptOnce
  <2> SUFFICES ASSUME IInv, NEW first \in 1 .. Len(receipts), NEW last \in first .. Len(receipts),
                      NEW i \in DOMAIN SubSeq(receipts, first, last)
               PROVE  Cardinality(ShownBy(SubSeq(receipts, first, last), i)) = 1
    BY DEF HistoryShowsEachReceiptOnce
  <2> DEFINE page == SubSeq(receipts, first, last)
  <2>1. receipts \in Seq(ReceiptRows) /\ Len(receipts) \in Nat /\ DOMAIN receipts = 1 .. Len(receipts)
    BY DEF IInv, TypeOK
  <2>2. /\ DOMAIN page = 1 .. last - first + 1
        /\ \A k \in 1 .. last - first + 1 : page[k] = receipts[first + k - 1]
    BY <2>1
  <2> HIDE DEF page
  <2>3. \A k \in DOMAIN page : first + k - 1 \in DOMAIN receipts /\ k \in Int
    BY <2>1, <2>2
  <2>4. ASSUME NEW j \in DOMAIN page, NEW k \in DOMAIN page,
               page[j].tx = page[k].tx, page[j].type = page[k].type
        PROVE  j = k
    <3>1. PICK x \in DOMAIN receipts, y \in DOMAIN receipts :
            x = first + j - 1 /\ y = first + k - 1 /\ page[j] = receipts[x] /\ page[k] = receipts[y]
      BY <2>2, <2>3
    <3>2. x = y
      BY <2>4, <3>1 DEF IInv, NumbersInv
    <3> QED BY <2>3, <3>1, <3>2
  <2>5. i \in DOMAIN page
    BY DEF page
  <2>6. Cardinality(ShownBy(page, i)) = 1
    <3>1. \A j, k \in DOMAIN page : page[j].tx = page[k].tx /\ page[j].type = page[k].type => j = k
      BY <2>4
    <3> QED BY <2>5, <3>1, OneView
  <2> QED BY <2>6 DEF page
<1> QED BY <1>1, WalletInvariance, PTL

(***************************************************************************)
(* Idempotency: the rows of the keys and the requests that read them.      *)
(***************************************************************************)

USE KeyAssumption, BodyAssumption, BodiesAssumption, AnonAssumption, BoundAssumption

\* The row a key starts with is a row.
LEMMA NoRecordType == NoRecord \in Rows /\ NoRecord.status = "absent"
BY DEF NoRecord, Rows

\* What AcquireLock leaves behind is a row of the key: a new one with the
\* client's body, or the one that was there.
LEMMA UpsertEffect ==
  ASSUME IdempotencyTypeOK, NEW c \in Clients
  PROVE  /\ Upsert(c) \in Rows
         /\ Upsert(c).status # "absent"
         /\ Row(c).status = "absent" => Upsert(c).status = "started" /\ Upsert(c).body = BodyOf[c]
         /\ Row(c).status # "absent" => Upsert(c) = Row(c)
<1>1. Row(c) \in Rows
  BY DEF IdempotencyTypeOK, Row
<1>2. CASE Row(c).status = "absent"
  <2>1. Upsert(c) = [NoRecord EXCEPT !.status = "started", !.body = BodyOf[c]]
    BY <1>2 DEF Upsert
  <2> QED BY <1>2, <2>1, NoRecordType DEF Rows
<1>3. CASE Row(c).status # "absent"
  BY <1>1, <1>3 DEF Upsert
<1> QED BY <1>2, <1>3

\* How a row may change: it keeps its body and stays there, and a completed
\* one does not change at all.
RowKept(k) == /\ row[k].status # "absent" => /\ row'[k].status # "absent"
                                             /\ row'[k].body = row[k].body
              /\ IsCompleted(row[k]) => row'[k] = row[k]
              /\ runs[k] <= runs'[k]

\* What a request rests on survives the steps of the others.
LEMMA OtherRequestsKeep ==
  ASSUME IdempotencyTypeOK, IdempotencyTypeOK', NEW c \in Clients, RequestInv(c), RowKept(KeyOf[c]),
         pc'[c] = pc[c], record'[c] = record[c], output'[c] = output[c]
  PROVE  RequestInv(c)'
<1>1. /\ KeyOf[c] \in Keys
      /\ runs[KeyOf[c]] \in Nat /\ runs'[KeyOf[c]] \in Nat /\ output[c] \in Nat
  BY DEF IdempotencyTypeOK
<1>2. pc[c] = "mark" => output'[c] \in 1 .. runs'[KeyOf[c]]
  BY <1>1 DEF RequestInv, RowKept
<1> QED BY <1>1, <1>2 DEF RequestInv, RowKept, Row, IsCompleted

\* A row that stays the same keeps its invariant when executions are added.
LEMMA SameRowKeeps ==
  ASSUME IdempotencyTypeOK, IdempotencyTypeOK', NEW k \in Keys, RowInv(k), row'[k] = row[k],
         runs[k] <= runs'[k]
  PROVE  RowInv(k)'
<1>1. row[k].response \in Nat /\ runs[k] \in Nat /\ runs'[k] \in Nat
  BY DEF IdempotencyTypeOK, Rows
<1> QED BY <1>1 DEF RowInv, IsCompleted

\* The initial states satisfy the inductive invariant.
LEMMA InitIdempotencyInv == IdempotencyInit => IdempotencyInv
<1> SUFFICES ASSUME IdempotencyInit PROVE IdempotencyInv
  OBVIOUS
<1>1. IdempotencyTypeOK
  BY NoRecordType DEF IdempotencyInit, IdempotencyTypeOK, Steps
<1>2. \A k \in Keys : RowInv(k)
  BY NoRecordType DEF IdempotencyInit, RowInv, IsCompleted
<1>3. \A c \in Clients : RequestInv(c)
  BY NoRecordType DEF IdempotencyInit, RequestInv, IsCompleted
<1> QED BY <1>1, <1>2, <1>3 DEF IdempotencyInv

\* Every step keeps the inductive invariant, and changes rows only as RowKept
\* says.
LEMMA NextIdempotencyInv ==
  ASSUME IdempotencyInv, [IdempotencyNext]_idempotencyVars
  PROVE  IdempotencyInv' /\ \A k \in Keys : RowKept(k)
<1> USE DEF IdempotencyInv, MoveTo
<1>1. ASSUME NEW c \in Clients, AcquireLock(c) PROVE IdempotencyInv' /\ \A k \in Keys : RowKept(k)
  <2>1. CASE c \in Anonymous
    <3>1. UNCHANGED <<row, record, output, answer, runs, failures>> /\ pc' = [pc EXCEPT ![c] = "run"]
      BY <1>1, <2>1 DEF AcquireLock
    <3>2. IdempotencyTypeOK'
      BY <3>1 DEF IdempotencyTypeOK, Steps
    <3>3. \A k \in Keys : RowKept(k) /\ RowInv(k)'
      BY <3>1 DEF RowKept, RowInv, IdempotencyTypeOK
    <3>4. \A d \in Clients \ {c} : RequestInv(d)'
      BY <3>1, <3>2, <3>3, OtherRequestsKeep DEF IdempotencyTypeOK
    <3>5. RequestInv(c)'
      BY <2>1, <3>1 DEF RequestInv, IdempotencyTypeOK, Row
    <3> QED BY <3>2, <3>3, <3>4, <3>5
  <2>2. CASE c \notin Anonymous
    <3>1. /\ row' = [row EXCEPT ![KeyOf[c]] = Upsert(c)]
          /\ record' = [record EXCEPT ![c] = Upsert(c)]
          /\ pc' = [pc EXCEPT ![c] = IF SamePayload(Upsert(c), c) THEN "route" ELSE "done"]
          /\ UNCHANGED <<output, answer, runs, failures>>
      BY <1>1, <2>2 DEF AcquireLock
    <3>2. IdempotencyTypeOK'
      BY <3>1, UpsertEffect DEF IdempotencyTypeOK, Steps
    <3>3. row'[KeyOf[c]] = Upsert(c) /\ \A k \in Keys \ {KeyOf[c]} : row'[k] = row[k]
      BY <3>1 DEF IdempotencyTypeOK
    <3>4. \A k \in Keys : RowKept(k)
      BY <3>1, <3>3, UpsertEffect DEF RowKept, Row, IdempotencyTypeOK, IsCompleted
    <3>5. \A k \in Keys : RowInv(k)'
      BY <3>1, <3>3, UpsertEffect DEF RowInv, Row, IsCompleted
    <3>6. \A d \in Clients \ {c} : RequestInv(d)'
      BY <3>1, <3>2, <3>4, OtherRequestsKeep DEF IdempotencyTypeOK
    <3>7. RequestInv(c)'
      <4>1. pc[c] = "send" /\ record'[c] = Upsert(c) /\ Row(c)' = Upsert(c) /\ output'[c] = output[c]
        BY <1>1, <3>1, <3>3 DEF AcquireLock, IdempotencyTypeOK, Row
      <4>2. pc'[c] = IF Upsert(c).body = BodyOf[c] THEN "route" ELSE "done"
        BY <3>1 DEF IdempotencyTypeOK, SamePayload
      <4>3. output[c] # 0 => Upsert(c).body = BodyOf[c]
        BY <2>2, UpsertEffect DEF RequestInv
      <4> QED BY <2>2, <4>1, <4>2, <4>3, UpsertEffect DEF RequestInv
    <3> QED BY <3>2, <3>4, <3>5, <3>6, <3>7
  <2> QED BY <2>1, <2>2
<1>2. ASSUME NEW c \in Clients, Route(c) PROVE IdempotencyInv' /\ \A k \in Keys : RowKept(k)
  <2> DEFINE rec == [record[c] EXCEPT !.expired = Row(c).expired]
  <2>1. /\ rec.status = record[c].status /\ rec.response = record[c].response
        /\ rec.response \in Nat
    BY DEF IdempotencyTypeOK, Rows
  <2>2. /\ pc[c] = "route"
        /\ \/ /\ IsCompleted(record[c])
              /\ output' = [output EXCEPT ![c] = record[c].response]
              /\ pc' = [pc EXCEPT ![c] = "respond"]
           \/ pc' = [pc EXCEPT ![c] = "send"] /\ UNCHANGED output
           \/ pc' = [pc EXCEPT ![c] = "run"] /\ UNCHANGED output
        /\ UNCHANGED <<row, record, answer, runs, failures>>
    BY <1>2, <2>1 DEF Route, IsCompleted
  <2>3. IdempotencyTypeOK'
    BY <2>1, <2>2 DEF IdempotencyTypeOK, Steps
  <2>4. \A k \in Keys : RowKept(k) /\ RowInv(k)'
    BY <2>2 DEF RowKept, RowInv, IdempotencyTypeOK
  <2>5. \A d \in Clients \ {c} : RequestInv(d)'
    BY <2>2, <2>3, <2>4, OtherRequestsKeep DEF IdempotencyTypeOK
  <2>6. RequestInv(c)'
    <3>1. Row(c).status # "absent" /\ Row(c).body = BodyOf[c] /\ c \notin Anonymous
      BY <2>2 DEF RequestInv
    <3>2. pc'[c] \in {"respond", "send", "run"}
      BY <2>2 DEF IdempotencyTypeOK
    <3> QED BY <2>2, <3>1, <3>2 DEF RequestInv, Row
  <2> QED BY <2>3, <2>4, <2>5, <2>6
<1>3. ASSUME NEW c \in Clients, Handle(c) PROVE IdempotencyInv' /\ \A k \in Keys : RowKept(k)
  <2>1. /\ pc[c] = "run"
        /\ runs' = [runs EXCEPT ![KeyOf[c]] = @ + 1]
        /\ output' = [output EXCEPT ![c] = runs'[KeyOf[c]]]
        /\ pc' = [pc EXCEPT ![c] = IF c \in Anonymous THEN "respond" ELSE "mark"]
        /\ UNCHANGED <<row, record, answer, failures>>
    BY <1>3 DEF Handle
  <2>2. /\ runs' \in [Keys -> Nat] /\ KeyOf[c] \in Keys
        /\ runs'[KeyOf[c]] = runs[KeyOf[c]] + 1 /\ output'[c] = runs'[KeyOf[c]]
        /\ \A k \in Keys : runs[k] <= runs'[k]
    BY <2>1 DEF IdempotencyTypeOK
  <2>3. IdempotencyTypeOK'
    BY <2>1, <2>2 DEF IdempotencyTypeOK, Steps
  <2>4. \A k \in Keys : RowKept(k) /\ RowInv(k)'
    <3>1. \A k \in Keys : row'[k] = row[k]
      BY <2>1
    <3>2. \A k \in Keys : RowInv(k)'
      BY <2>2, <2>3, <3>1, SameRowKeeps
    <3> QED BY <2>2, <3>1, <3>2 DEF RowKept
  <2>5. \A d \in Clients \ {c} : RequestInv(d)'
    BY <2>1, <2>3, <2>4, OtherRequestsKeep DEF IdempotencyTypeOK
  <2>6. RequestInv(c)'
    <3>1. pc'[c] = (IF c \in Anonymous THEN "respond" ELSE "mark") /\ record'[c] = record[c]
      BY <2>1 DEF IdempotencyTypeOK
    <3>2. output'[c] \in 1 .. runs'[KeyOf[c]]
      BY <2>2 DEF IdempotencyTypeOK
    <3> QED BY <2>1, <3>1, <3>2 DEF RequestInv, Row
  <2> QED BY <2>3, <2>4, <2>5, <2>6
<1>4. ASSUME NEW c \in Clients, MarkCompleted(c) PROVE IdempotencyInv' /\ \A k \in Keys : RowKept(k)
  <2> DEFINE k0 == KeyOf[c]
  <2>1. /\ pc[c] = "mark"
        /\ row' = [row EXCEPT ![k0] = Completed(row[k0], output[c])]
        /\ pc' = [pc EXCEPT ![c] = "respond"]
        /\ UNCHANGED <<record, output, answer, runs, failures>>
    BY <1>4 DEF MarkCompleted
  <2>2. row[k0] \in Rows /\ output[c] \in Nat /\ k0 \in Keys
    BY DEF IdempotencyTypeOK
  <2>3. /\ row'[k0] = Completed(row[k0], output[c])
        /\ Completed(row[k0], output[c]) \in Rows
        /\ \A k \in Keys \ {k0} : row'[k] = row[k]
    BY <2>1, <2>2 DEF IdempotencyTypeOK, Completed, Rows
  <2>4. IdempotencyTypeOK'
    BY <2>1, <2>3 DEF IdempotencyTypeOK, Steps
  <2>5. /\ row[k0].status = "started" => /\ row'[k0].status = "completed"
                                         /\ row'[k0].response = output[c]
                                         /\ row'[k0].body = row[k0].body
        /\ row[k0].status # "started" => row'[k0] = row[k0]
    BY <2>2, <2>3 DEF Completed, Rows
  <2>6. output[c] \in 1 .. runs[k0] /\ c \notin Anonymous /\ row[k0].body = BodyOf[c]
        /\ row[k0].status # "absent"
    BY <2>1 DEF RequestInv, Row
  <2> HIDE DEF k0
  <2>7. \A k \in Keys : RowKept(k)
    BY <2>1, <2>3, <2>5 DEF RowKept, IsCompleted, IdempotencyTypeOK
  <2>8. \A k \in Keys : RowInv(k)'
    BY <2>1, <2>3, <2>5, <2>6 DEF RowInv, IsCompleted
  <2>9. \A d \in Clients \ {c} : RequestInv(d)'
    BY <2>1, <2>4, <2>7, OtherRequestsKeep DEF IdempotencyTypeOK
  <2>10. RequestInv(c)'
    <3>1. Row(c)' = row'[k0] /\ Row(c) = row[k0] /\ pc'[c] = "respond"
      BY <2>1 DEF Row, k0, IdempotencyTypeOK
    <3>2. record'[c] = record[c] /\ row'[k0].status # "absent" /\ row'[k0].body = BodyOf[c]
      BY <2>1, <2>5, <2>6
    <3> QED BY <2>5, <2>6, <3>1, <3>2 DEF RequestInv, IsCompleted
  <2> QED BY <2>4, <2>7, <2>8, <2>9, <2>10
<1>5. ASSUME NEW c \in Clients, Respond(c) \/ Fail(c) \/ MarkFails(c)
      PROVE  IdempotencyInv' /\ \A k \in Keys : RowKept(k)
  <2>1. /\ \E step \in {"send", "respond", "done"} : pc' = [pc EXCEPT ![c] = step]
        /\ UNCHANGED <<row, record, output, runs>>
    BY <1>5 DEF Respond, Fail, MarkFails
  <2>2. IdempotencyTypeOK'
    BY <1>5 DEF Respond, Fail, MarkFails, IdempotencyTypeOK, Steps
  <2>3. \A k \in Keys : RowKept(k) /\ RowInv(k)'
    BY <2>1 DEF RowKept, RowInv, IdempotencyTypeOK
  <2>4. \A d \in Clients \ {c} : RequestInv(d)'
    BY <2>1, <2>2, <2>3, OtherRequestsKeep DEF IdempotencyTypeOK
  <2>5. RequestInv(c)'
    <3>1. pc[c] \in {"route", "run", "mark", "respond"} /\ pc'[c] \in {"send", "respond", "done"}
      BY <1>5, <2>1 DEF Respond, Fail, MarkFails, IdempotencyTypeOK
    <3> QED BY <2>1, <3>1 DEF RequestInv, Row
  <2> QED BY <2>2, <2>3, <2>4, <2>5
<1>6. ASSUME NEW k \in Keys, Expire(k) PROVE IdempotencyInv' /\ \A j \in Keys : RowKept(j)
  <2>1. /\ row' = [row EXCEPT ![k] = [row[k] EXCEPT !.expired = TRUE]]
        /\ row[k].status = "started"
        /\ UNCHANGED <<pc, record, output, answer, runs, failures>>
    BY <1>6 DEF Expire
  <2>2. row[k] \in Rows
    BY DEF IdempotencyTypeOK
  <2>3. /\ row'[k].status = "started" /\ row'[k].body = row[k].body /\ row'[k] \in Rows
        /\ \A j \in Keys \ {k} : row'[j] = row[j]
    BY <2>1, <2>2 DEF IdempotencyTypeOK, Rows
  <2>4. IdempotencyTypeOK'
    <3>1. row' \in [Keys -> Rows]
      BY <2>1, <2>3 DEF IdempotencyTypeOK
    <3> QED BY <2>1, <3>1 DEF IdempotencyTypeOK
  <2>5. \A j \in Keys : RowKept(j) /\ RowInv(j)'
    BY <2>1, <2>3 DEF RowKept, RowInv, IsCompleted, IdempotencyTypeOK
  <2>6. \A c \in Clients : RequestInv(c)'
    BY <2>1, <2>4, <2>5, OtherRequestsKeep DEF IdempotencyTypeOK
  <2> QED BY <2>4, <2>5, <2>6
<1>7. CASE UNCHANGED idempotencyVars
  <2>1. IdempotencyTypeOK'
    BY <1>7 DEF idempotencyVars, IdempotencyTypeOK
  <2>2. \A k \in Keys : RowKept(k) /\ RowInv(k)'
    BY <1>7 DEF idempotencyVars, RowKept, RowInv, IdempotencyTypeOK
  <2>3. \A c \in Clients : RequestInv(c)'
    BY <1>7, <2>1, <2>2, OtherRequestsKeep DEF idempotencyVars, IdempotencyTypeOK
  <2> QED BY <2>1, <2>2, <2>3
<1> QED BY <1>1, <1>2, <1>3, <1>4, <1>5, <1>6, <1>7 DEF IdempotencyNext, ServeRequest, AllAnswered

\* The inductive invariant holds in every reachable state.
THEOREM IdempotencyInvariance == IdempotencySpec => []IdempotencyInv
BY InitIdempotencyInv, NextIdempotencyInv, PTL DEF IdempotencySpec

\* Whatever the clients repeat and the server loses, no handler runs under a
\* key for two different bodies, and none is answered with the other's response.
THEOREM KeysHaveOneBody == IdempotencySpec => []OneBodyPerKey
<1>1. IdempotencyInv => OneBodyPerKey
  BY DEF IdempotencyInv, OneBodyPerKey, RequestInv, Row
<1> QED BY IdempotencyInvariance, <1>1, PTL

\* A replayed response is one an execution under the key wrote, and everybody
\* who is answered from a completed row gets the same one.
THEOREM ReplaysAreGenuine == IdempotencySpec => []ReplayIsGenuine
<1>1. IdempotencyInv => ReplayIsGenuine
  BY DEF IdempotencyInv, ReplayIsGenuine, RowInv, RequestInv, Row, IsCompleted
<1> QED BY IdempotencyInvariance, <1>1, PTL

\* MarkCompleted never replaces a cached response: a completed row is final.
THEOREM CompletedRowsAreFinal == IdempotencySpec => CompletedIsFinal
<1>1. IdempotencyInv /\ [IdempotencyNext]_idempotencyVars =>
        [\A k \in Keys : row[k].status = "completed" => row'[k] = row[k]]_row
  BY NextIdempotencyInv DEF RowKept, IsCompleted
<1> QED BY IdempotencyInvariance, <1>1, PTL DEF IdempotencySpec, CompletedIsFinal
=============================================================================
