----------------------- MODULE CardAndReferenceProofs -----------------------
(***************************************************************************)
(* Proofs about CardAuth for any cards, messages, rates, amounts and any   *)
(* number of settlement and reversal jobs, and about ReferenceData for any *)
(* requests, tables, users, providers and answers of the rate sources, and *)
(* any number of days.                                                     *)
(***************************************************************************)
EXTENDS CardAuth, ReferenceData, SumFacts, TLAPS

\* The accounts are there, and their addresses tell them apart.
LEMMA Addresses ==
  /\ \A c \in Cards, cur \in Currencies : Wallet(c, cur) \in Accounts /\ Wallet(c, cur) # World
  /\ \A d \in Deliveries : Hold(d) \in Accounts /\ Hold(d) # TransitCardAuth
  /\ TransitCardAuth \in Accounts
  /\ \A c \in Cards, cur \in Currencies : Wallet(c, cur) # TransitCardAuth
  /\ \A c \in Cards, cur \in Currencies, d \in Deliveries : Wallet(c, cur) # Hold(d)
  /\ \A d, e \in Deliveries : d # e => Hold(d) # Hold(e)
  /\ \A b, c \in Cards, ccy, cur \in Currencies :
       Wallet(b, ccy) = Wallet(c, cur) => b = c /\ ccy = cur
BY DEF Accounts, Wallet, Main, Hold, TransitCardAuth, World

\* Integer division.
LEMMA Division ==
  ASSUME NEW n \in Nat, NEW m \in Nat \ {0}
  PROVE  n \div m \in Nat /\ n < (n \div m) * m + m
OBVIOUS

\* Rounding up never falls below the exact quotient.
LEMMA CeilDivCovers ==
  ASSUME NEW n \in Nat \ {0}, NEW m \in Nat \ {0}
  PROVE  CeilDiv(n, m) \in Nat \ {0} /\ CeilDiv(n, m) * m >= n
<1> DEFINE x == n + m - 1
<1>1. x \in Nat /\ x \div m \in Nat /\ x < (x \div m) * m + m
  BY Division
<1>2. x \div m # 0
  <2>1. SUFFICES ASSUME x \div m = 0 PROVE FALSE
    OBVIOUS
  <2>2. (x \div m) * m = 0
    BY <2>1
  <2> QED BY <1>1, <2>2
<1>3. (x \div m) * m \in Nat
  BY <1>1
<1> QED BY <1>1, <1>2, <1>3 DEF CeilDiv

\* Any amount the waterfall may settle on pays for the purchase.
LEMMA HoldAmountsCover ==
  ASSUME NEW d \in Deliveries, NEW cur \in Currencies, NEW cents \in HoldAmounts(d, cur)
  PROVE  /\ cents \in Nat \ {0}
         /\ IF cur = Merchant[d] THEN cents = Amount[d]
            ELSE cents * Ask[Merchant[d]][cur][2] >= Amount[d] * Ask[Merchant[d]][cur][1]
<1>1. CASE cur = Merchant[d]
  BY <1>1, CardAssumption DEF HoldAmounts
<1>2. CASE cur # Merchant[d]
  <2> DEFINE ask == Ask[Merchant[d]][cur]
             n == Amount[d] * ask[1]
             m == ask[2]
  <2>1. ask \in (Nat \ {0}) \X (Nat \ {0})
    BY CardAssumption, RateAssumption
  <2>2. Amount[d] \in Nat \ {0} /\ ask[1] \in Nat \ {0}
    BY <2>1, CardAssumption
  <2>3. n \in Nat \ {0} /\ m \in Nat \ {0}
    <3> HIDE DEF ask
    <3> QED BY <2>1, <2>2
  <2>4. cents = CeilDiv(n, m) \/ cents = CeilDiv(n, m) + 1
    BY <1>2 DEF HoldAmounts, ConvertedCents
  <2> HIDE DEF ask, n, m
  <2>5. CeilDiv(n, m) \in Nat \ {0} /\ CeilDiv(n, m) * m >= n
    BY <2>3, CeilDivCovers
  <2>6. cents \in Nat \ {0} /\ cents * m >= n
    <3>1. CASE cents = CeilDiv(n, m)
      BY <2>5, <3>1
    <3>2. CASE cents = CeilDiv(n, m) + 1
      <4>1. cents * m = CeilDiv(n, m) * m + m
        BY <2>3, <2>5, <3>2
      <4>2. CeilDiv(n, m) * m \in Nat
        BY <2>3, <2>5
      <4> QED BY <2>3, <2>5, <3>2, <4>1, <4>2
    <3> QED BY <2>4, <3>1, <3>2
  <2> QED BY <1>2, <2>6 DEF ask, n, m
<1> QED BY <1>1, <1>2

USE CardAssumption

\* A wallet starts with its opening balance.
LEMMA OpeningBalances ==
  ASSUME Init, NEW c \in Cards, NEW cur \in Currencies
  PROVE  bal[Wallet(c, cur)] = Opening[c][cur]
<1>1. Wallet(c, cur)[1] = "main" /\ Wallet(c, cur)[2][1] = c /\ Wallet(c, cur)[2][2] = cur
  BY DEF Wallet, Main
<1>2. Wallet(c, cur) \in Accounts
  BY Addresses
<1> QED BY <1>1, <1>2 DEF Init

\* The initial states satisfy the inductive invariant.
LEMMA InitIInv == Init => IInv
<1> SUFFICES ASSUME Init PROVE IInv
  OBVIOUS
<1>1. \A d \in Deliveries : bal[Hold(d)] = 0
  BY Addresses DEF Init, Hold
<1>2. bal \in [Accounts -> Int]
  <2>1. ASSUME NEW c \in Cards, NEW cur \in Currencies PROVE bal[Wallet(c, cur)] \in Int
    BY OpeningAssumption, OpeningBalances
  <2>2. bal[TransitCardAuth] = 0
    BY Addresses DEF Init, TransitCardAuth
  <2>3. \A a \in Accounts : bal[a] \in Int
    BY <1>1, <2>1, <2>2 DEF Accounts
  <2> QED BY <2>3 DEF Init
<1>3. Deliveries # {} => NoSpend \in [currency : Currencies, amount : Nat]
  <2>1. Deliveries # {} => Currencies # {}
    OBVIOUS
  <2> QED BY <2>1 DEF NoSpend
<1>4. spend \in [Deliveries -> [currency : Currencies, amount : Nat]]
  BY <1>3 DEF Init
<1>5. picked \in [Jobs -> Deliveries]
  BY JobAssumption DEF Init
<1>6. TypeOK
  BY <1>2, <1>4, <1>5 DEF Init, TypeOK, Counted, CardStatuses
<1>7. KeyInv
  BY DEF Init, KeyInv, Held
<1>8. \A d \in Deliveries : DeliveryInv(d)
  BY <1>1 DEF Init, DeliveryInv, OnHold, Held, Settled, Voided, ClosedAsRecorded
<1>9. \A j \in Jobs : JobInv(j)
  BY DEF Init, JobInv
<1> QED BY <1>6, <1>7, <1>8, <1>9 DEF IInv

\* The log of the holds only grows, so a key once used stays used.
Grows == \A e \in Deliveries : holdLog[e] \subseteq holdLog'[e]
LEMMA KeysKept ==
  ASSUME Grows, NEW kind, NEW rrn, CloseKeyUsed(kind, rrn)
  PROVE  CloseKeyUsed(kind, rrn)'
BY DEF Grows, CloseKeyUsed, CloseTags

\* A step that touches nothing of a delivery.
Frame(e) == /\ bal'[Hold(e)] = bal[Hold(e)] /\ holdLog'[e] = holdLog[e] /\ pc'[e] = pc[e]
            /\ row'[e] = row[e] /\ spend'[e] = spend[e] /\ answer'[e] = answer[e]

\* It keeps what the invariant says of that delivery.
LEMMA FrameKeeps ==
  ASSUME NEW e \in Deliveries, DeliveryInv(e), Frame(e), Grows
  PROVE  DeliveryInv(e)'
<1>1. CloseKeyUsed("settle", Rrn[e]) => CloseKeyUsed("settle", Rrn[e])'
  BY KeysKept
<1>2. CloseKeyUsed("reverse", Rrn[e]) => CloseKeyUsed("reverse", Rrn[e])'
  BY KeysKept
<1> QED BY <1>1, <1>2 DEF Frame, DeliveryInv, CoversPurchase, OnHold, Held, Settled, Voided, ClosedAsRecorded

\* A step of the handler of one message: jobs only ever hold rows of messages
\* whose handler has ended.
Local(d) == /\ pc[d] # "done"
            /\ UNCHANGED <<job, picked, remaining>>
            /\ Grows
            /\ \A e \in Deliveries \ {d} : Frame(e)

\* So it can only endanger what is known about that message and its key.
LEMMA LocalStep ==
  ASSUME IInv, NEW d \in Deliveries, Local(d), TypeOK', KeyInv', DeliveryInv(d)'
  PROVE  IInv'
<1>1. \A e \in Deliveries : DeliveryInv(e)'
  BY FrameKeeps DEF IInv, Local
<1>2. ASSUME NEW j \in Jobs PROVE JobInv(j)'
  <2>1. job[j] # "idle" => picked[j] # d
    BY DEF IInv, JobInv, DeliveryInv, Local
  <2>2. picked[j] \in Deliveries
    BY DEF IInv, TypeOK
  <2>3. picked[j] # d => Frame(picked[j])
    BY <2>2 DEF Local
  <2>4. CloseKeyUsed(JobKind[j], JobRrn[j]) => CloseKeyUsed(JobKind[j], JobRrn[j])'
    BY KeysKept DEF Local
  <2> QED BY <2>1, <2>3, <2>4 DEF IInv, JobInv, Local, Frame, Held
<1> QED BY <1>1, <1>2 DEF IInv

\* Keys stay used: a step that posts no hold keeps the invariant about keys
\* if what it approves rests on a used one.
LEMMA SameKeysKept ==
  ASSUME IInv, NEW d \in Deliveries, UNCHANGED holdLog, Local(d),
         pc'[d] = "record" \/ answer'[d] = "approved" => KeyUsed(d)
  PROVE  KeyInv'
<1>1. \A e \in Deliveries : KeyUsed(e)' <=> KeyUsed(e)
  BY DEF KeyUsed, Held, SameKey
<1>2. ASSUME NEW e \in Deliveries, pc'[e] = "record" \/ answer'[e] = "approved" PROVE KeyUsed(e)
  BY <1>2 DEF Local, Grows, Frame, IInv, KeyInv
<1> QED BY <1>1, <1>2 DEF IInv, KeyInv, Held, SameKey

\* Approved messages whose answer a step leaves alone keep their holds.
LEMMA KeysGrow ==
  ASSUME IInv, \A e \in Deliveries : Held(e) <=> Held(e)', UNCHANGED <<pc, answer>>
  PROVE  KeyInv'
BY DEF IInv, KeyInv, KeyUsed, SameKey

\* What declining a message does.
LEMMA DeclineEffect ==
  ASSUME TypeOK, NEW d \in Deliveries, Decline(d)
  PROVE  /\ answer' = [answer EXCEPT ![d] = "declined"] /\ pc' = [pc EXCEPT ![d] = "done"]
         /\ row' \in [Deliveries -> Counted \cup {"absent", "declined", "reversed"}]
         /\ row'[d] \in {row[d], "declined"} /\ \A e \in Deliveries \ {d} : row'[e] = row[e]
BY DEF Decline, Goto, TypeOK

\* A message that is checked and not yet held.
LEMMA CheckStep ==
  ASSUME IInv, NEW d \in Deliveries, CheckCard(d) \/ CheckLimits(d)
  PROVE  IInv'
<1>1. /\ pc[d] \in {"idle", "limits"} /\ UNCHANGED <<bal, holdLog, card, spend, job, picked, remaining>>
      /\ \/ Decline(d)
         \/ /\ pc' = [pc EXCEPT ![d] = "limits"] \/ pc' = [pc EXCEPT ![d] = "waterfall"]
            /\ UNCHANGED <<row, answer>>
  BY DEF CheckCard, CheckLimits, Goto
<1>2. TypeOK /\ DeliveryInv(d)
  BY DEF IInv
<1>3. /\ pc' \in [Deliveries -> {"idle", "limits", "waterfall", "hold", "record", "done"}]
      /\ answer' \in [Deliveries -> {"none", "approved", "declined"}]
      /\ row' \in [Deliveries -> Counted \cup {"absent", "declined", "reversed"}]
      /\ \A e \in Deliveries \ {d} : pc'[e] = pc[e] /\ row'[e] = row[e] /\ answer'[e] = answer[e]
      /\ \/ pc'[d] \in {"limits", "waterfall"} /\ row'[d] = row[d] /\ answer'[d] = answer[d]
         \/ pc'[d] = "done" /\ row'[d] \in {row[d], "declined"} /\ answer'[d] = "declined"
  <2>1. CASE Decline(d)
    <3>1. /\ answer' = [answer EXCEPT ![d] = "declined"] /\ pc' = [pc EXCEPT ![d] = "done"]
          /\ row' \in [Deliveries -> Counted \cup {"absent", "declined", "reversed"}]
          /\ row'[d] \in {row[d], "declined"} /\ \A e \in Deliveries \ {d} : row'[e] = row[e]
      BY <1>2, <2>1, DeclineEffect
    <3> QED BY <1>2, <3>1 DEF TypeOK
  <2>2. CASE ~Decline(d)
    BY <1>1, <1>2, <2>2 DEF TypeOK
  <2> QED BY <2>1, <2>2
<1>4. TypeOK'
  BY <1>1, <1>2, <1>3 DEF TypeOK
<1>5. Local(d)
  BY <1>1, <1>3 DEF Local, Grows, Frame
<1>6. KeyInv'
  <2>1. pc'[d] = "record" \/ answer'[d] = "approved" => answer[d] = "approved"
    BY <1>3
  <2>2. pc'[d] = "record" \/ answer'[d] = "approved" => KeyUsed(d)
    BY <2>1 DEF IInv, KeyInv
  <2> QED BY <1>1, <1>5, <2>2, SameKeysKept
<1>7. ~Held(d) /\ ~Settled(d) /\ ~Voided(d) /\ row[d] = "absent" /\ bal[Hold(d)] = 0
  BY <1>1, <1>2 DEF DeliveryInv, OnHold
<1>8. ~Held(d)' /\ ~Settled(d)' /\ ~Voided(d)' /\ bal'[Hold(d)] = 0 /\ holdLog'[d] = {}
  BY <1>1, <1>2, <1>7 DEF DeliveryInv, Held, Settled, Voided
<1>9. DeliveryInv(d)'
  BY <1>3, <1>7, <1>8 DEF DeliveryInv, OnHold, ClosedAsRecorded
<1> QED BY <1>4, <1>5, <1>6, <1>9, LocalStep

\* The waterfall chooses a currency and an amount that pays.
LEMMA ResolveStep ==
  ASSUME IInv, NEW d \in Deliveries, ResolveSpend(d)
  PROVE  IInv'
<1>1. pc[d] = "waterfall" /\ UNCHANGED <<bal, holdLog, card, job, picked, remaining>>
  BY DEF ResolveSpend
<1>2. TypeOK /\ DeliveryInv(d)
  BY DEF IInv
<1>3. ~Held(d) /\ ~Settled(d) /\ ~Voided(d) /\ row[d] = "absent"
  BY <1>1, <1>2 DEF DeliveryInv
<1>4. CASE Decline(d) /\ UNCHANGED spend
  <2>1. TypeOK'
    <3>1. /\ answer' = [answer EXCEPT ![d] = "declined"] /\ pc' = [pc EXCEPT ![d] = "done"]
          /\ row' \in [Deliveries -> Counted \cup {"absent", "declined", "reversed"}]
      BY <1>2, <1>4, DeclineEffect
    <3>2. /\ pc' \in [Deliveries -> {"idle", "limits", "waterfall", "hold", "record", "done"}]
          /\ answer' \in [Deliveries -> {"none", "approved", "declined"}]
      BY <1>2, <3>1 DEF TypeOK
    <3> QED BY <1>1, <1>2, <1>4, <3>1, <3>2 DEF TypeOK
  <2>2. Local(d)
    BY <1>1, <1>2, <1>4, DeclineEffect DEF Local, Grows, Frame, TypeOK
  <2>3. pc'[d] = "done" /\ answer'[d] = "declined" /\ row'[d] \in {"absent", "declined"}
    BY <1>2, <1>3, <1>4, DeclineEffect DEF TypeOK
  <2>4. KeyInv'
    BY <1>1, <2>2, <2>3, SameKeysKept
  <2>5. DeliveryInv(d)'
    BY <1>1, <1>2, <1>3, <2>3 DEF DeliveryInv, OnHold, Held, Settled, Voided, ClosedAsRecorded
  <2> QED BY <2>1, <2>2, <2>4, <2>5, LocalStep
<1>5. CASE ~(Decline(d) /\ UNCHANGED spend)
  <2>1. PICK i \in DOMAIN Waterfall :
          \E cents \in HoldAmounts(d, Candidate(d, i)) :
            /\ spend' = [spend EXCEPT ![d] = [currency |-> Candidate(d, i), amount |-> cents]]
            /\ pc' = [pc EXCEPT ![d] = "hold"]
            /\ UNCHANGED <<row, answer>>
    BY <1>5 DEF ResolveSpend, Goto
  <2>2. PICK cents \in HoldAmounts(d, Candidate(d, i)) :
            /\ spend' = [spend EXCEPT ![d] = [currency |-> Candidate(d, i), amount |-> cents]]
            /\ pc' = [pc EXCEPT ![d] = "hold"]
            /\ UNCHANGED <<row, answer>>
    BY <2>1
  <2> DEFINE cur == Candidate(d, i)
  <2>3. cur \in Currencies
    BY WaterfallAssumption DEF Candidate
  <2> HIDE DEF cur
  <2>4. /\ cents \in Nat \ {0}
        /\ IF cur = Merchant[d] THEN cents = Amount[d]
           ELSE cents * Ask[Merchant[d]][cur][2] >= Amount[d] * Ask[Merchant[d]][cur][1]
    BY <2>2, <2>3, HoldAmountsCover DEF cur
  <2>5. spend' = [spend EXCEPT ![d] = [currency |-> cur, amount |-> cents]]
    BY <2>2 DEF cur
  <2>6. TypeOK'
    BY <1>1, <1>2, <2>2, <2>3, <2>4, <2>5 DEF TypeOK
  <2>7. Local(d)
    BY <1>1, <1>2, <2>2, <2>5 DEF Local, Grows, Frame, TypeOK
  <2>8. spend'[d].currency = cur /\ spend'[d].amount = cents /\ pc'[d] = "hold"
    BY <1>2, <2>2, <2>5 DEF TypeOK
  <2>9. KeyInv'
    BY <1>1, <2>2, <2>7, <2>8, SameKeysKept DEF IInv, KeyInv
  <2>10. CoversPurchase(d)' /\ spend'[d].amount > 0
    BY <2>4, <2>8 DEF CoversPurchase
  <2>11. DeliveryInv(d)'
    <3>1. /\ bal'[Hold(d)] = 0 /\ row'[d] = "absent" /\ holdLog'[d] = {}
          /\ ~Held(d)' /\ ~Settled(d)' /\ ~Voided(d)'
      BY <1>1, <1>2, <1>3, <2>2 DEF DeliveryInv, OnHold, Held, Settled, Voided
    <3> QED BY <2>8, <2>10, <3>1 DEF DeliveryInv, OnHold, ClosedAsRecorded
  <2> QED BY <2>6, <2>7, <2>9, <2>11, LocalStep
<1> QED BY <1>4, <1>5

\* What the posting of a hold does to the accounts.
LEMMA HoldEffect ==
  ASSUME TypeOK, NEW d \in Deliveries,
         bal' = Send(bal, Wallet(CardOf[d], spend[d].currency), Hold(d), spend[d].amount)
  PROVE  /\ bal' \in [Accounts -> Int]
         /\ bal'[Wallet(CardOf[d], spend[d].currency)] =
              bal[Wallet(CardOf[d], spend[d].currency)] - spend[d].amount
         /\ bal'[Hold(d)] = bal[Hold(d)] + spend[d].amount
         /\ \A a \in Accounts \ {Wallet(CardOf[d], spend[d].currency), Hold(d)} : bal'[a] = bal[a]
         /\ \A e \in Deliveries \ {d} : bal'[Hold(e)] = bal[Hold(e)]
<1> DEFINE src == Wallet(CardOf[d], spend[d].currency)
           amt == spend[d].amount
<1>1. /\ bal \in [Accounts -> Int] /\ amt \in Nat
      /\ CardOf[d] \in Cards /\ spend[d].currency \in Currencies
  BY DEF TypeOK
<1>2. src \in Accounts /\ Hold(d) \in Accounts /\ src # Hold(d)
  BY <1>1, Addresses
<1>3. \A e \in Deliveries \ {d} : Hold(e) \in Accounts /\ Hold(e) # src /\ Hold(e) # Hold(d)
  BY <1>1, Addresses
<1>4. bal' = Send(bal, src, Hold(d), amt)
  OBVIOUS
<1> HIDE DEF src, amt
<1>5. /\ bal' \in [Accounts -> Int]
      /\ bal'[src] = bal[src] - amt
      /\ bal'[Hold(d)] = bal[Hold(d)] + amt
      /\ \A a \in Accounts \ {src, Hold(d)} : bal'[a] = bal[a]
  BY <1>1, <1>2, <1>4 DEF Send
<1> QED BY <1>3, <1>5 DEF src, amt

\* A hold is posted once per key, or not at all.
LEMMA HoldStepKeeps ==
  ASSUME IInv, NEW d \in Deliveries, HoldStep(d)
  PROVE  IInv'
<1>1. pc[d] = "hold" /\ UNCHANGED <<card, spend, job, picked, remaining>>
  BY DEF HoldStep
<1>2. TypeOK /\ DeliveryInv(d)
  BY DEF IInv
<1>3. /\ ~Held(d) /\ ~Settled(d) /\ ~Voided(d) /\ row[d] = "absent" /\ holdLog[d] = {}
      /\ bal[Hold(d)] = 0 /\ spend[d].amount > 0 /\ CoversPurchase(d) /\ spend[d].amount \in Nat
  BY <1>1, <1>2 DEF DeliveryInv, TypeOK, OnHold, Held, Settled, Voided
<1> DEFINE Posted == /\ ~KeyUsed(d)
                     /\ bal' = Send(bal, Wallet(CardOf[d], spend[d].currency), Hold(d), spend[d].amount)
                     /\ holdLog' = [holdLog EXCEPT ![d] = {"hold"}]
           Approved == pc' = [pc EXCEPT ![d] = "record"] /\ UNCHANGED <<row, answer>>
<1>4. /\ \/ Posted /\ (Approved \/ Decline(d))
         \/ UNCHANGED <<bal, holdLog>> /\ ((KeyUsed(d) /\ Approved) \/ Decline(d))
  BY DEF HoldStep, CallOutcomes, Applied, Confirmed, Goto
<1>5. /\ pc' \in [Deliveries -> {"idle", "limits", "waterfall", "hold", "record", "done"}]
      /\ answer' \in [Deliveries -> {"none", "approved", "declined"}]
      /\ row' \in [Deliveries -> Counted \cup {"absent", "declined", "reversed"}]
      /\ \A e \in Deliveries \ {d} : pc'[e] = pc[e] /\ row'[e] = row[e] /\ answer'[e] = answer[e]
      /\ \/ pc'[d] = "record" /\ row'[d] = "absent" /\ answer'[d] = answer[d]
         \/ pc'[d] = "done" /\ row'[d] \in {"absent", "declined"} /\ answer'[d] = "declined"
  <2>1. CASE Approved
    BY <1>2, <1>3, <2>1 DEF TypeOK
  <2>2. CASE Decline(d)
    <3>1. /\ answer' = [answer EXCEPT ![d] = "declined"] /\ pc' = [pc EXCEPT ![d] = "done"]
          /\ row' \in [Deliveries -> Counted \cup {"absent", "declined", "reversed"}]
          /\ row'[d] \in {row[d], "declined"} /\ \A e \in Deliveries \ {d} : row'[e] = row[e]
      BY <1>2, <2>2, DeclineEffect
    <3>2. /\ pc' \in [Deliveries -> {"idle", "limits", "waterfall", "hold", "record", "done"}] /\ pc'[d] = "done"
          /\ answer' \in [Deliveries -> {"none", "approved", "declined"}] /\ answer'[d] = "declined"
          /\ \A e \in Deliveries \ {d} : pc'[e] = pc[e] /\ answer'[e] = answer[e]
      BY <1>2, <3>1 DEF TypeOK
    <3> QED BY <1>3, <3>1, <3>2
  <2> QED BY <1>4, <2>1, <2>2
<1>6. CASE Posted
  <2>1. /\ bal' \in [Accounts -> Int] /\ bal'[Hold(d)] = spend[d].amount
        /\ \A e \in Deliveries \ {d} : bal'[Hold(e)] = bal[Hold(e)]
    BY <1>2, <1>3, <1>6, HoldEffect
  <2>2. TypeOK'
    BY <1>1, <1>2, <1>5, <1>6, <2>1 DEF TypeOK
  <2>3. Local(d)
    <3>1. holdLog'[d] = {"hold"} /\ \A e \in Deliveries \ {d} : holdLog'[e] = holdLog[e]
      BY <1>2, <1>6 DEF TypeOK
    <3>2. Grows
      BY <1>3, <3>1 DEF Grows
    <3> QED BY <1>1, <1>5, <2>1, <3>1, <3>2 DEF Local, Frame
  <2>4. /\ Held(d)' /\ ~Settled(d)' /\ ~Voided(d)' /\ "void_nothing" \notin holdLog'[d]
        /\ \A e \in Deliveries \ {d} : Held(e)' <=> Held(e)
    BY <1>2, <1>6 DEF TypeOK, Held, Settled, Voided
  <2>5. KeyInv'
    <3>1. ASSUME NEW a \in Deliveries, NEW b \in Deliveries, Held(a)', Held(b)', SameKey(a, b)
          PROVE  a = b
      BY <1>6, <2>4, <3>1 DEF KeyUsed, SameKey, IInv, KeyInv
    <3>2. ASSUME NEW a \in Deliveries, pc'[a] = "record" \/ answer'[a] = "approved"
          PROVE  KeyUsed(a)'
      BY <1>5, <2>4, <3>2 DEF KeyUsed, SameKey, IInv, KeyInv
    <3> QED BY <3>1, <3>2 DEF KeyInv, SameKey
  <2>6. CoversPurchase(d)'
    BY <1>1, <1>3 DEF CoversPurchase
  <2>7. DeliveryInv(d)'
    BY <1>1, <1>3, <1>5, <2>1, <2>4, <2>6 DEF DeliveryInv, OnHold, ClosedAsRecorded
  <2> QED BY <2>2, <2>3, <2>5, <2>7, LocalStep
<1>7. CASE UNCHANGED <<bal, holdLog>> /\ ((KeyUsed(d) /\ Approved) \/ Decline(d))
  <2>1. TypeOK'
    BY <1>1, <1>2, <1>5, <1>7 DEF TypeOK
  <2>2. Local(d)
    BY <1>1, <1>2, <1>5, <1>7 DEF Local, Grows, Frame, TypeOK
  <2>3. pc'[d] = "record" \/ answer'[d] = "approved" => KeyUsed(d)
    <3>1. CASE Decline(d)
      BY <1>2, <3>1, DeclineEffect DEF TypeOK
    <3> QED BY <1>7, <3>1
  <2>4. KeyInv'
    BY <1>7, <2>2, <2>3, SameKeysKept
  <2>5. ~Held(d)' /\ ~Settled(d)' /\ ~Voided(d)' /\ bal'[Hold(d)] = 0 /\ holdLog'[d] = {}
    BY <1>3, <1>7 DEF Held, Settled, Voided
  <2>6. DeliveryInv(d)'
    BY <1>5, <2>5 DEF DeliveryInv, OnHold, ClosedAsRecorded
  <2> QED BY <2>1, <2>2, <2>4, <2>6, LocalStep
<1> QED BY <1>4, <1>6, <1>7

\* The row is written, or the handler ends without it.
LEMMA EndStep ==
  ASSUME IInv, NEW d \in Deliveries, Record(d) \/ Crash(d)
  PROVE  IInv'
<1>1. /\ pc[d] \notin {"idle", "done"}
      /\ UNCHANGED <<bal, holdLog, card, spend, job, picked, remaining>>
      /\ pc' = [pc EXCEPT ![d] = "done"]
      /\ \/ /\ pc[d] = "record"
            /\ row' \in {row, [row EXCEPT ![d] = "approved"]}
            /\ answer' = [answer EXCEPT ![d] = "approved"]
         \/ UNCHANGED <<row, answer>>
  BY DEF Record, Crash, Goto
<1>2. TypeOK /\ DeliveryInv(d)
  BY DEF IInv
<1>3. TypeOK'
  <2>1. pc' \in [Deliveries -> {"idle", "limits", "waterfall", "hold", "record", "done"}]
    BY <1>1, <1>2 DEF TypeOK
  <2>2. answer' \in [Deliveries -> {"none", "approved", "declined"}]
    BY <1>1, <1>2 DEF TypeOK
  <2>3. row' \in [Deliveries -> Counted \cup {"absent", "declined", "reversed"}]
    BY <1>1, <1>2 DEF TypeOK, Counted
  <2> QED BY <1>1, <1>2, <2>1, <2>2, <2>3 DEF TypeOK
<1>4. Local(d)
  BY <1>1, <1>2 DEF Local, Grows, Frame, TypeOK
<1>5. /\ pc'[d] = "done" /\ row[d] = "absent" /\ row'[d] \in {"absent", "approved"}
      /\ pc[d] = "record" \/ answer'[d] = answer[d]
  BY <1>1, <1>2 DEF TypeOK, DeliveryInv
<1>6. KeyInv'
  BY <1>1, <1>4, <1>5, SameKeysKept DEF IInv, KeyInv
<1>7. DeliveryInv(d)'
  <2>1. CoversPurchase(d)' <=> CoversPurchase(d)
    BY <1>1 DEF CoversPurchase
  <2> QED BY <1>1, <1>2, <1>5, <2>1 DEF DeliveryInv, OnHold, Held, Settled, Voided, ClosedAsRecorded
<1> QED BY <1>3, <1>4, <1>6, <1>7, LocalStep

\* What a step of job j leaves of the invariant to show: its own part.
LEMMA JobStep ==
  ASSUME IInv, NEW j \in Jobs, TypeOK', \A e \in Deliveries : DeliveryInv(e)', JobInv(j)', Grows,
         UNCHANGED <<spend, pc, answer>>,
         \A e \in Deliveries : Held(e) <=> Held(e)',
         \A e \in Deliveries : row[e] # "absent" => row'[e] # "absent",
         \A i \in Jobs \ {j} : job'[i] = job[i] /\ picked'[i] = picked[i] /\ remaining'[i] = remaining[i]
  PROVE  IInv'
<1>1. KeyInv'
  BY KeysGrow
<1>2. ASSUME NEW i \in Jobs, i # j PROVE JobInv(i)'
  <2>1. CloseKeyUsed(JobKind[i], JobRrn[i]) => CloseKeyUsed(JobKind[i], JobRrn[i])'
    BY KeysKept
  <2>2. /\ JobInv(i) /\ picked[i] \in Deliveries
        /\ job'[i] = job[i] /\ picked'[i] = picked[i] /\ remaining'[i] = remaining[i]
    BY <1>2 DEF IInv, TypeOK
  <2>3. (Held(picked[i]) => Held(picked[i])') /\ (row[picked[i]] # "absent" => row'[picked[i]] # "absent")
    BY <2>2
  <2>4. spend' = spend
    OBVIOUS
  <2> QED BY <2>1, <2>2, <2>3, <2>4 DEF JobInv, Held
<1> QED BY <1>1, <1>2 DEF IInv

\* A job picks a row.
LEMMA PickStep ==
  ASSUME IInv, NEW j \in Jobs, PickRow(j)
  PROVE  IInv'
<1>1. PICK d \in Deliveries :
        /\ row[d] # "absent" /\ job[j] = "idle" /\ Rrn[d] = JobRrn[j]
        /\ picked' = [picked EXCEPT ![j] = d]
        /\ job' = [job EXCEPT ![j] = IF row[d] = "approved" THEN "look" ELSE "done"]
        /\ UNCHANGED <<bal, holdLog, card, row, spend, pc, answer, remaining>>
  BY DEF PickRow
<1>2. TypeOK'
  BY <1>1 DEF IInv, TypeOK
<1>3. \A e \in Deliveries : DeliveryInv(e)'
  BY <1>1, FrameKeeps DEF IInv, Frame, Grows
<1>4. \A i \in Jobs \ {j} : job'[i] = job[i] /\ picked'[i] = picked[i] /\ remaining'[i] = remaining[i]
  BY <1>1 DEF IInv, TypeOK
<1>5. picked'[j] = d /\ job'[j] \in {"look", "done"}
  BY <1>1 DEF IInv, TypeOK
<1>6. JobInv(j)'
  BY <1>1, <1>5 DEF JobInv
<1> QED BY <1>1, <1>2, <1>3, <1>4, <1>6, JobStep DEF Grows, Held

\* It looks at the hold.
LEMMA LookStep ==
  ASSUME IInv, NEW j \in Jobs, LookAtHold(j)
  PROVE  IInv' /\ (job'[j] = "post" => OnHold(picked[j]))
<1> PICK d \in Deliveries : d = picked[j]
  BY DEF IInv, TypeOK
<1>1. /\ TypeOK /\ DeliveryInv(d) /\ JobInv(j) /\ job[j] = "look"
      /\ UNCHANGED <<bal, holdLog, card, row, spend, pc, answer, picked>>
      /\ \/ /\ HoldOpen(bal, d) /\ remaining' = [remaining EXCEPT ![j] = bal[Hold(d)]]
            /\ job' = [job EXCEPT ![j] = "post"]
         \/ job' = [job EXCEPT ![j] = "done"] /\ UNCHANGED remaining
  BY DEF IInv, LookAtHold
<1>2. bal[Hold(d)] \in Int
  BY <1>1, Addresses DEF TypeOK
<1>3. TypeOK'
  BY <1>1, <1>2 DEF TypeOK
<1>4. \A e \in Deliveries : DeliveryInv(e)'
  BY <1>1, FrameKeeps DEF IInv, Frame, Grows
<1>5. \A i \in Jobs \ {j} : job'[i] = job[i] /\ picked'[i] = picked[i] /\ remaining'[i] = remaining[i]
  BY <1>1 DEF TypeOK
<1>6. HoldOpen(bal, d) => OnHold(d) /\ Held(d) /\ bal[Hold(d)] = spend[d].amount
  BY <1>1 DEF DeliveryInv, HoldOpen, OnHold
<1>7. \/ HoldOpen(bal, d) /\ job'[j] = "post" /\ remaining'[j] = bal[Hold(d)]
      \/ job'[j] = "done"
  BY <1>1 DEF TypeOK
<1>8. JobInv(j)'
  BY <1>1, <1>6, <1>7 DEF JobInv, Held
<1>9. IInv'
  BY <1>1, <1>3, <1>4, <1>5, <1>8, JobStep DEF Grows, Held
<1> QED BY <1>6, <1>7, <1>9

\* Closing a hold empties it, towards the transit account or back.
LEMMA CloseEffect ==
  ASSUME TypeOK, NEW d \in Deliveries, 0 <= bal[Hold(d)], bal[Hold(d)] <= spend[d].amount,
         \/ bal' = Send(bal, Hold(d), TransitCardAuth, bal[Hold(d)])
         \/ bal' = VoidHold(bal, d, <<CardOf[d], spend[d].currency>>, spend[d].amount)
  PROVE  /\ bal' \in [Accounts -> Int]
         /\ bal'[Hold(d)] = 0
         /\ \A e \in Deliveries \ {d} : bal'[Hold(e)] = bal[Hold(e)]
<1>1. /\ bal \in [Accounts -> Int] /\ spend[d].amount \in Nat
      /\ CardOf[d] \in Cards /\ spend[d].currency \in Currencies
  BY DEF TypeOK
<1>2. PICK dst \in Accounts : /\ bal' = Send(bal, Hold(d), dst, bal[Hold(d)])
                              /\ \A e \in Deliveries : Hold(e) # dst
  <2>1. CASE bal' = Send(bal, Hold(d), TransitCardAuth, bal[Hold(d)])
    BY <2>1, Addresses
  <2>2. CASE bal' = VoidHold(bal, d, <<CardOf[d], spend[d].currency>>, spend[d].amount)
    <3>1. bal' = Send(bal, Hold(d), Wallet(CardOf[d], spend[d].currency), bal[Hold(d)])
      BY <1>1, <2>2 DEF VoidHold, Wallet
    <3> QED BY <1>1, <3>1, Addresses
  <2> QED BY <2>1, <2>2
<1>3. Hold(d) \in Accounts /\ Hold(d) # dst
  BY <1>2, Addresses
<1>4. /\ bal' \in [Accounts -> Int] /\ bal'[Hold(d)] = 0
      /\ \A a \in Accounts \ {Hold(d), dst} : bal'[a] = bal[a]
  BY <1>1, <1>2, <1>3 DEF Send
<1> QED BY <1>2, <1>4, Addresses

\* What job j may post on the hold of d, and how it is logged: a settlement or
\* a void of money that is on hold, or a void of nothing after a settlement.
Posts(j, d, tag) ==
  /\ ~CloseKeyUsed(JobKind[j], JobRrn[j]) /\ tag \in CloseTags(JobKind[j])
  /\ holdLog' = [holdLog EXCEPT ![d] = @ \cup {tag}]
  /\ \/ /\ tag = "settle_hold" /\ OnHold(d) /\ bal[Hold(d)] = spend[d].amount
        /\ bal' = Send(bal, Hold(d), TransitCardAuth, bal[Hold(d)])
     \/ /\ tag = "void_hold" /\ OnHold(d) /\ bal[Hold(d)] = spend[d].amount
        /\ bal' = VoidHold(bal, d, <<CardOf[d], spend[d].currency>>, spend[d].amount)
     \/ /\ tag = "void_nothing" /\ Settled(d) /\ ~Voided(d) /\ bal[Hold(d)] = 0
        /\ bal' = VoidHold(bal, d, <<CardOf[d], spend[d].currency>>, spend[d].amount)

\* What a job does when it posts: the key decides, and the hold as it is now.
LEMMA CloseCases ==
  ASSUME IInv, NEW j \in Jobs, CloseHold(j)
  PROVE  /\ job[j] = "post" /\ UNCHANGED <<card, row, spend, pc, answer, picked, remaining>>
         /\ job' \in {[job EXCEPT ![j] = "mark"], [job EXCEPT ![j] = "done"]}
         /\ \/ \E tag \in {"settle_hold", "void_hold", "void_nothing"} : Posts(j, picked[j], tag)
            \/ /\ UNCHANGED <<bal, holdLog>>
               /\ job' = [job EXCEPT ![j] = "done"] \/ CloseKeyUsed(JobKind[j], JobRrn[j])
<1> PICK d \in Deliveries : d = picked[j]
  BY DEF IInv, TypeOK
<1>1. /\ job[j] = "post" /\ UNCHANGED <<card, row, spend, pc, answer, picked, remaining>>
      /\ job' \in {[job EXCEPT ![j] = "mark"], [job EXCEPT ![j] = "done"]}
  BY DEF CloseHold, CallOutcomes, AfterClose
<1>2. \/ /\ ~CloseKeyUsed(JobKind[j], JobRrn[j])
         /\ IF JobKind[j] = "settle" THEN ConfirmHold(j, d) ELSE CancelHold(d)
      \/ /\ UNCHANGED <<bal, holdLog>>
         /\ job' = [job EXCEPT ![j] = "done"] \/ CloseKeyUsed(JobKind[j], JobRrn[j])
  BY DEF CloseHold, CallOutcomes, AfterClose, Applied, Confirmed
<1>3. /\ TypeOK /\ DeliveryInv(d) /\ Held(d) /\ remaining[j] = spend[d].amount
      /\ Rrn[d] = JobRrn[j] /\ spend[d].amount \in Nat /\ spend[d].amount > 0
  BY <1>1 DEF IInv, JobInv, TypeOK, DeliveryInv
<1>4. bal[Hold(d)] = IF OnHold(d) THEN spend[d].amount ELSE 0
  BY <1>3 DEF DeliveryInv
<1>5. ASSUME ~CloseKeyUsed(JobKind[j], JobRrn[j]), JobKind[j] = "settle", ConfirmHold(j, d)
      PROVE  Posts(j, d, "settle_hold")
  <2>1. bal[Hold(d)] = spend[d].amount /\ OnHold(d)
    BY <1>3, <1>4, <1>5 DEF ConfirmHold, Covers, Hold, World
  <2> QED BY <1>3, <1>5, <2>1 DEF Posts, ConfirmHold, Log, CloseTags
<1>6. ASSUME ~CloseKeyUsed(JobKind[j], JobRrn[j]), JobKind[j] # "settle", CancelHold(d)
      PROVE  Posts(j, d, "void_hold") \/ Posts(j, d, "void_nothing")
  <2>1. CASE OnHold(d)
    <3>1. bal[Hold(d)] # 0
      BY <1>3, <1>4, <2>1
    <3> QED BY <1>4, <1>6, <2>1, <3>1 DEF Posts, CancelHold, Log, CloseTags
  <2>2. CASE ~OnHold(d)
    <3>1. ~Voided(d)
      BY <1>3, <1>6 DEF CloseKeyUsed, CloseTags, Voided
    <3>2. Settled(d)
      BY <1>3, <2>2, <3>1 DEF OnHold
    <3> QED BY <1>4, <1>6, <2>2, <3>1, <3>2 DEF Posts, CancelHold, Log, CloseTags
  <2> QED BY <2>1, <2>2
<1> QED BY <1>1, <1>2, <1>5, <1>6

\* A job closes the hold of the row it picked, or fails to.
LEMMA CloseStep ==
  ASSUME IInv, NEW j \in Jobs, CloseHold(j)
  PROVE  IInv' /\ Grows
<1> PICK d \in Deliveries : d = picked[j]
  BY DEF IInv, TypeOK
<1>1. /\ TypeOK /\ DeliveryInv(d) /\ JobInv(j)
  BY DEF IInv
<1>2. /\ job[j] = "post" /\ UNCHANGED <<card, row, spend, pc, answer, picked, remaining>>
      /\ job' \in {[job EXCEPT ![j] = "mark"], [job EXCEPT ![j] = "done"]}
  BY CloseCases
<1>3. /\ job' \in [Jobs -> {"idle", "look", "post", "mark", "done"}] /\ job'[j] \in {"mark", "done"}
      /\ \A i \in Jobs \ {j} : job'[i] = job[i] /\ picked'[i] = picked[i] /\ remaining'[i] = remaining[i]
  BY <1>1, <1>2 DEF TypeOK
<1>4. ASSUME NEW tag \in {"settle_hold", "void_hold", "void_nothing"}, Posts(j, d, tag)
      PROVE  IInv' /\ Grows
  <2>1. /\ bal' \in [Accounts -> Int] /\ bal'[Hold(d)] = 0
        /\ \A e \in Deliveries \ {d} : bal'[Hold(e)] = bal[Hold(e)]
    <3>1. 0 <= bal[Hold(d)] /\ bal[Hold(d)] <= spend[d].amount
      BY <1>1, <1>4 DEF Posts, TypeOK
    <3> QED BY <1>1, <1>4, <3>1, CloseEffect DEF Posts
  <2>2. /\ holdLog'[d] = holdLog[d] \cup {tag}
        /\ holdLog' \in [Deliveries -> SUBSET {"hold", "settle_hold", "void_hold", "void_nothing"}]
        /\ \A e \in Deliveries \ {d} : holdLog'[e] = holdLog[e]
    BY <1>1, <1>4 DEF TypeOK, Posts
  <2>3. Grows
    BY <2>2 DEF Grows
  <2>4. TypeOK'
    BY <1>1, <1>2, <1>3, <2>1, <2>2 DEF TypeOK
  <2>5. Held(d) /\ Held(d)' /\ row[d] # "absent" /\ pc[d] = "done"
    BY <1>1, <1>2, <2>2 DEF JobInv, DeliveryInv, Held
  <2>6. ~OnHold(d)' /\ ~(Settled(d)' /\ Voided(d)') /\ ("void_nothing" \in holdLog'[d] => Settled(d)')
    BY <1>1, <1>4, <2>2 DEF Posts, OnHold, Held, Settled, Voided, DeliveryInv, ClosedAsRecorded
  <2>7. DeliveryInv(d)'
    <3>1. CoversPurchase(d)' <=> CoversPurchase(d)
      BY <1>2 DEF CoversPurchase
    <3>2. CloseKeyUsed("settle", Rrn[d]) => CloseKeyUsed("settle", Rrn[d])'
      BY <2>3, KeysKept
    <3>3. CloseKeyUsed("reverse", Rrn[d]) => CloseKeyUsed("reverse", Rrn[d])'
      BY <2>3, KeysKept
    <3> QED BY <1>1, <1>2, <2>1, <2>5, <2>6, <3>1, <3>2, <3>3 DEF DeliveryInv, ClosedAsRecorded
  <2>8. \A e \in Deliveries \ {d} : Frame(e)
    BY <1>2, <2>1, <2>2 DEF Frame
  <2>9. \A e \in Deliveries : DeliveryInv(e)'
    BY <2>3, <2>7, <2>8, FrameKeeps DEF IInv
  <2>10. JobInv(j)'
    <3>1. Rrn[d] = JobRrn[j]
      BY <1>1, <1>2 DEF JobInv
    <3>2. CloseKeyUsed(JobKind[j], JobRrn[j])'
      BY <1>4, <2>2, <3>1 DEF Posts, CloseKeyUsed, CloseTags
    <3> QED BY <1>2, <1>3, <2>5, <3>1, <3>2 DEF JobInv
  <2>11. \A e \in Deliveries : Held(e) <=> Held(e)'
    BY <2>2, <2>5 DEF Held
  <2> QED BY <1>2, <1>3, <2>3, <2>4, <2>9, <2>10, <2>11, JobStep
<1>5. ASSUME UNCHANGED <<bal, holdLog>>, job' = [job EXCEPT ![j] = "done"] \/ CloseKeyUsed(JobKind[j], JobRrn[j])
      PROVE  IInv' /\ Grows
  <2>1. TypeOK'
    BY <1>1, <1>2, <1>3, <1>5 DEF TypeOK
  <2>2. Grows
    BY <1>5 DEF Grows
  <2>3. \A e \in Deliveries : DeliveryInv(e)'
    BY <1>2, <1>5, <2>2, FrameKeeps DEF IInv, Frame
  <2>4. job'[j] = "done" \/ CloseKeyUsed(JobKind[j], JobRrn[j])'
    BY <1>1, <1>5, <2>2, KeysKept DEF TypeOK
  <2>5. JobInv(j)'
    BY <1>1, <1>2, <1>3, <2>4 DEF JobInv
  <2>6. \A e \in Deliveries : Held(e) <=> Held(e)'
    BY <1>5 DEF Held
  <2> QED BY <1>2, <1>3, <2>1, <2>2, <2>3, <2>5, <2>6, JobStep
<1> QED BY <1>4, <1>5, CloseCases

\* The row is marked under the key the job used.
LEMMA MarkStep ==
  ASSUME IInv, NEW j \in Jobs, MarkRow(j)
  PROVE  IInv'
<1> PICK d \in Deliveries : d = picked[j]
  BY DEF IInv, TypeOK
<1>1. /\ TypeOK /\ DeliveryInv(d) /\ JobInv(j) /\ job[j] = "mark"
      /\ UNCHANGED <<bal, holdLog, card, spend, pc, answer, picked, remaining>>
      /\ row' \in {row, [row EXCEPT ![d] = ClosedAs(j)]}
      /\ job' = [job EXCEPT ![j] = "done"]
  BY DEF IInv, MarkRow
<1>2. /\ job'[j] = "done" /\ job' \in [Jobs -> {"idle", "look", "post", "mark", "done"}]
      /\ \A i \in Jobs \ {j} : job'[i] = job[i] /\ picked'[i] = picked[i] /\ remaining'[i] = remaining[i]
  BY <1>1 DEF TypeOK
<1>3. ClosedAs(j) \in {"cleared", "reversed"}
  BY DEF ClosedAs
<1>4. TypeOK'
  BY <1>1, <1>2, <1>3 DEF TypeOK, Counted
<1>5. row'[d] \in {row[d], ClosedAs(j)} /\ \A e \in Deliveries \ {d} : row'[e] = row[e]
  BY <1>1 DEF TypeOK
<1>6. Grows
  BY <1>1 DEF Grows
<1>7. DeliveryInv(d)'
  <2>1. CoversPurchase(d)' <=> CoversPurchase(d)
    BY <1>1 DEF CoversPurchase
  <2>2. pc'[d] = "done"
    BY <1>1 DEF DeliveryInv, JobInv
  <2>3. CloseKeyUsed(JobKind[j], Rrn[d])'
    BY <1>1, <1>6, KeysKept DEF JobInv
  <2>4. CloseKeyUsed("settle", Rrn[d]) => CloseKeyUsed("settle", Rrn[d])'
    BY <1>6, KeysKept
  <2>5. CloseKeyUsed("reverse", Rrn[d]) => CloseKeyUsed("reverse", Rrn[d])'
    BY <1>6, KeysKept
  <2>6. (row'[d] = "cleared" => CloseKeyUsed("settle", Rrn[d])') /\ (row'[d] = "reversed" => CloseKeyUsed("reverse", Rrn[d])')
    BY <1>1, <1>5, <2>3, <2>4, <2>5, JobAssumption DEF ClosedAs, DeliveryInv, ClosedAsRecorded
  <2> QED BY <1>1, <2>1, <2>2, <2>6 DEF DeliveryInv, OnHold, Held, Settled, Voided, ClosedAsRecorded
<1>8. \A e \in Deliveries \ {d} : Frame(e)
  BY <1>1, <1>5 DEF Frame
<1>9. \A e \in Deliveries : DeliveryInv(e)'
  BY <1>6, <1>7, <1>8, FrameKeeps DEF IInv
<1>10. \A e \in Deliveries : row[e] # "absent" => row'[e] # "absent"
  BY <1>3, <1>5
<1>11. JobInv(j)'
  BY <1>1, <1>2, <1>10 DEF JobInv
<1>12. \A e \in Deliveries : Held(e) <=> Held(e)'
  BY <1>1 DEF Held
<1> QED BY <1>1, <1>2, <1>4, <1>6, <1>9, <1>10, <1>11, <1>12, JobStep

\* Administrators, and steps that change nothing, leave all this alone.
LEMMA QuietStep ==
  ASSUME IInv, UNCHANGED <<bal, holdLog, row, spend, pc, answer, job, picked, remaining>>,
         card' \in [Cards -> CardStatuses]
  PROVE  IInv'
<1>1. TypeOK'
  BY DEF IInv, TypeOK
<1>2. \A e \in Deliveries : DeliveryInv(e)'
  BY FrameKeeps DEF IInv, Frame, Grows
<1>3. KeyInv'
  BY KeysGrow DEF Held
<1>4. \A j \in Jobs : JobInv(j)'
  BY DEF IInv, JobInv, Held, CloseKeyUsed
<1> QED BY <1>1, <1>2, <1>3, <1>4 DEF IInv

\* Every step keeps the inductive invariant.
LEMMA NextIInv == IInv /\ [Next]_vars => IInv'
<1> SUFFICES ASSUME IInv, [Next]_vars PROVE IInv'
  OBVIOUS
<1>1. ASSUME NEW d \in Deliveries, Handle(d) PROVE IInv'
  BY <1>1, CheckStep, ResolveStep, HoldStepKeeps, EndStep DEF Handle
<1>2. ASSUME NEW j \in Jobs, PickRow(j) \/ LookAtHold(j) \/ CloseHold(j) \/ MarkRow(j) PROVE IInv'
  BY <1>2, PickStep, LookStep, CloseStep, MarkStep
<1>3. ASSUME NEW c \in Cards, NEW status \in CardStatuses, SetCardStatus(c, status) PROVE IInv'
  BY <1>3, QuietStep DEF SetCardStatus, IInv, TypeOK
<1>4. CASE UNCHANGED vars
  BY <1>4, QuietStep DEF vars, IInv, TypeOK
<1> QED BY <1>1, <1>2, <1>3, <1>4 DEF Next

\* The inductive invariant holds in every reachable state.
THEOREM Invariance == Spec => []IInv
BY InitIInv, NextIInv, PTL DEF Spec

\* However often the network repeats a message, its money is held once, and an
\* approved message has a hold behind it.
THEOREM MessagesHoldOnce == Spec => []OneHoldPerMessage
<1>1. IInv => OneHoldPerMessage
  BY DEF IInv, KeyInv, OneHoldPerMessage, SameKey, KeyUsed
<1> QED BY Invariance, <1>1, PTL

\* For every rate and amount, the hold pays for the purchase.
THEOREM HoldsCoverPurchases == Spec => []HoldCoversPurchase
<1>1. IInv => HoldCoversPurchase
  BY DEF IInv, DeliveryInv, HoldCoversPurchase
<1> QED BY Invariance, <1>1, PTL

\* No step takes a transaction out of the ledger.
LEMMA NextGrows ==
  ASSUME IInv, Next
  PROVE  Grows
<1>1. ASSUME NEW d \in Deliveries, HoldStep(d) PROVE Grows
  <2>1. holdLog[d] = {}
    BY <1>1 DEF HoldStep, IInv, DeliveryInv
  <2>2. holdLog' = holdLog \/ holdLog' = [holdLog EXCEPT ![d] = {"hold"}]
    BY <1>1 DEF HoldStep
  <2> QED BY <2>1, <2>2 DEF Grows, IInv, TypeOK
<1>2. ASSUME NEW d \in Deliveries, CheckCard(d) \/ CheckLimits(d) \/ ResolveSpend(d) \/ Record(d) \/ Crash(d)
      PROVE  UNCHANGED holdLog
  BY <1>2 DEF CheckCard, CheckLimits, ResolveSpend, Record, Crash
<1>3. ASSUME NEW j \in Jobs, PickRow(j) \/ LookAtHold(j) \/ MarkRow(j) PROVE UNCHANGED holdLog
  BY <1>3 DEF PickRow, LookAtHold, MarkRow
<1>4. ASSUME NEW c \in Cards, NEW status \in CardStatuses, SetCardStatus(c, status)
      PROVE  UNCHANGED holdLog
  BY <1>4 DEF SetCardStatus
<1>5. UNCHANGED holdLog => Grows
  BY DEF Grows
<1> QED BY <1>1, <1>2, <1>3, <1>4, <1>5, CloseStep DEF Next, Handle

\* A row that is there changes only when a job marks it.
LEMMA RowsChange ==
  ASSUME IInv, Next, NEW d \in Deliveries, pc[d] = "done", row'[d] # row[d]
  PROVE  row'[d] \in {"cleared", "reversed"} /\ \E j \in Jobs : job[j] = "mark" /\ picked[j] = d
<1>1. row \in [Deliveries -> Counted \cup {"absent", "declined", "reversed"}] /\ picked \in [Jobs -> Deliveries]
  BY DEF IInv, TypeOK
<1>2. ASSUME NEW e \in Deliveries, Handle(e) PROVE FALSE
  <2>1. e # d
    BY <1>2 DEF Handle, CheckCard, CheckLimits, ResolveSpend, HoldStep, Record, Crash
  <2>2. row' \in {row, [row EXCEPT ![e] = "declined"], [row EXCEPT ![e] = "approved"]}
    BY <1>2 DEF Handle, CheckCard, CheckLimits, ResolveSpend, HoldStep, Record, Crash, Decline
  <2> QED BY <1>1, <2>1, <2>2
<1>3. ASSUME NEW j \in Jobs, MarkRow(j) PROVE row'[d] \in {"cleared", "reversed"} /\ job[j] = "mark" /\ picked[j] = d
  <2>1. picked[j] = d
    BY <1>1, <1>3 DEF MarkRow
  <2> QED BY <1>1, <1>3, <2>1 DEF MarkRow, ClosedAs
<1>4. ASSUME NEW j \in Jobs, PickRow(j) \/ LookAtHold(j) \/ CloseHold(j) PROVE FALSE
  BY <1>4 DEF PickRow, LookAtHold, CloseHold
<1>5. ASSUME NEW c \in Cards, NEW status \in CardStatuses, SetCardStatus(c, status) PROVE FALSE
  BY <1>5 DEF SetCardStatus
<1> QED BY <1>2, <1>3, <1>4, <1>5 DEF Next

\* A job gets as far as posting only on a hold it found open, and marks a row
\* only after that: once a hold is closed, no new job joins those on their way.
LEMMA RestedStays ==
  ASSUME IInv, Next, NEW d \in Deliveries, Rested(d)
  PROVE  Rested(d)' /\ row'[d] = row[d]
<1>1. /\ Held(d) /\ ~OnHold(d) /\ pc[d] = "done"
      /\ \A j \in Jobs : picked[j] = d => job[j] \notin {"post", "mark"}
  BY DEF Rested, OnHold, IInv, DeliveryInv
<1>2. row'[d] = row[d]
  BY <1>1, RowsChange
<1>3. Held(d)' /\ ~OnHold(d)'
  BY <1>1, NextGrows DEF Grows, OnHold, Held, Settled, Voided
<1>4. ASSUME NEW j \in Jobs, picked'[j] = d, job'[j] \in {"post", "mark"} PROVE FALSE
  <2>1. job \in [Jobs -> {"idle", "look", "post", "mark", "done"}] /\ picked \in [Jobs -> Deliveries]
    BY DEF IInv, TypeOK
  <2>2. job'[j] # job[j] \/ picked'[j] # picked[j]
    BY <1>1, <1>4
  <2>3. ASSUME NEW i \in Jobs, PickRow(i) PROVE FALSE
    BY <1>1, <1>4, <2>1, <2>3 DEF PickRow
  <2>4. ASSUME NEW i \in Jobs, LookAtHold(i) PROVE FALSE
    <3>1. i = j /\ picked[j] = d /\ job'[j] = "post"
      BY <1>1, <1>4, <2>1, <2>4 DEF LookAtHold
    <3> QED BY <1>1, <2>4, <3>1, LookStep
  <2>5. ASSUME NEW i \in Jobs, CloseHold(i) PROVE FALSE
    <3>1. job[i] = "post" /\ picked' = picked /\ job' \in {[job EXCEPT ![i] = "mark"], [job EXCEPT ![i] = "done"]}
      BY <2>5, CloseCases
    <3> QED BY <1>1, <1>4, <2>1, <2>2, <3>1
  <2>6. ASSUME NEW i \in Jobs, MarkRow(i) PROVE FALSE
    BY <1>1, <1>4, <2>1, <2>6 DEF MarkRow
  <2>7. ASSUME NEW e \in Deliveries, Handle(e) PROVE FALSE
    BY <2>2, <2>7 DEF Handle, CheckCard, CheckLimits, ResolveSpend, HoldStep, Record, Crash
  <2>8. ASSUME NEW c \in Cards, NEW status \in CardStatuses, SetCardStatus(c, status) PROVE FALSE
    BY <2>2, <2>8 DEF SetCardStatus
  <2> QED BY <2>3, <2>4, <2>5, <2>6, <2>7, <2>8 DEF Next
<1> QED BY <1>2, <1>3, <1>4 DEF Rested

\* UpdateStatus checks no status, so a reversal that looked at the hold before it
\* was settled may overwrite a cleared row; but only such a job, and only where
\* the ledger took a settlement and a void, and a row left alone by them is final.
THEOREM ClosedRowsAreFinal == Spec => ClosedRowIsFinal
<1> DEFINE Final ==
      \A d \in Deliveries :
        /\ Rested(d) => Rested(d)' /\ row'[d] = row[d]
        /\ row[d] \in {"cleared", "reversed"} /\ row'[d] # row[d] =>
             CloseKeyUsed("settle", Rrn[d])' /\ CloseKeyUsed("reverse", Rrn[d])'
<1>1. ASSUME IInv, IInv', Next PROVE Final
  <2> SUFFICES ASSUME NEW d \in Deliveries, row[d] \in {"cleared", "reversed"}, row'[d] # row[d]
               PROVE  CloseKeyUsed("settle", Rrn[d])' /\ CloseKeyUsed("reverse", Rrn[d])'
    BY <1>1, RestedStays
  <2>1. pc[d] = "done" /\ ClosedAsRecorded(d) /\ ClosedAsRecorded(d)'
    BY <1>1 DEF IInv, DeliveryInv
  <2>2. row'[d] \in {"cleared", "reversed"}
    BY <1>1, <2>1, RowsChange
  <2>3. CloseKeyUsed("settle", Rrn[d]) => CloseKeyUsed("settle", Rrn[d])'
    BY <1>1, NextGrows, KeysKept
  <2>4. CloseKeyUsed("reverse", Rrn[d]) => CloseKeyUsed("reverse", Rrn[d])'
    BY <1>1, NextGrows, KeysKept
  <2> QED BY <2>1, <2>2, <2>3, <2>4 DEF ClosedAsRecorded
<1>2. IInv /\ IInv' /\ [Next]_vars => [Final]_vars
  BY <1>1
<1> QED BY Invariance, <1>2, PTL DEF Spec, ClosedRowIsFinal

(***************************************************************************)
(* The money, as sums over the messages.                                   *)
(***************************************************************************)

\* What the sums are taken over: finite sets, and amounts that are naturals.
LEMMA FiniteSums ==
  ASSUME TypeOK
  PROVE  /\ \A d \in Deliveries : SpendAmount[d] = spend[d].amount /\ SpendAmount[d] \in Nat
         /\ \A c, cur : TakenFrom(c, cur) \in SUBSET Deliveries
         /\ \A S \in SUBSET Deliveries : IsFiniteSet(S) /\ SumFunctionOnSet(SpendAmount, S) \in Int
<1>1. \A d \in Deliveries : SpendAmount[d] = spend[d].amount /\ SpendAmount[d] \in Nat
  BY DEF SpendAmount, TypeOK
<1>2. ASSUME NEW S \in SUBSET Deliveries
      PROVE  IsFiniteSet(S) /\ SumFunctionOnSet(SpendAmount, S) \in Int
  <2>1. IsFiniteSet(S)
    BY FiniteAssumption, FS_Subset
  <2>2. \A x \in S : SpendAmount[x] \in Int
    BY <1>1
  <2> QED BY <2>1, <2>2, SumType
<1>3. \A c, cur : TakenFrom(c, cur) \in SUBSET Deliveries
  BY DEF TakenFrom
<1> QED BY <1>1, <1>2, <1>3

\* A step that touches no wallet, no hold and no amount on hold.
LEMMA SameMoney ==
  ASSUME TypeOK, TypeOK', WalletsAddUp,
         \A e \in Deliveries : /\ Held(e)' <=> Held(e)
                               /\ Voided(e)' <=> Voided(e)
                               /\ Held(e) => spend'[e] = spend[e],
         \A c \in Cards, cur \in Currencies : bal'[Wallet(c, cur)] = bal[Wallet(c, cur)]
  PROVE  WalletsAddUp'
<1> SUFFICES ASSUME NEW c \in Cards, NEW cur \in Currencies
             PROVE  bal'[Wallet(c, cur)] =
                      Opening[c][cur] - SumFunctionOnSet(SpendAmount', TakenFrom(c, cur)')
  BY DEF WalletsAddUp
<1>1. TakenFrom(c, cur)' = TakenFrom(c, cur)
  BY DEF TakenFrom
<1>2. /\ IsFiniteSet(TakenFrom(c, cur))
      /\ \A x \in TakenFrom(c, cur) : SpendAmount[x] \in Int /\ SpendAmount[x] = SpendAmount'[x]
  <2>1. TakenFrom(c, cur) \in SUBSET Deliveries /\ IsFiniteSet(TakenFrom(c, cur))
    BY FiniteSums
  <2>2. ASSUME NEW x \in TakenFrom(c, cur)
        PROVE  SpendAmount[x] \in Int /\ SpendAmount[x] = SpendAmount'[x]
    <3>1. x \in Deliveries /\ Held(x) /\ spend'[x] = spend[x]
      BY DEF TakenFrom
    <3>2. SpendAmount[x] = spend[x].amount /\ SpendAmount[x] \in Nat
      BY <3>1, FiniteSums
    <3>3. SpendAmount'[x] = spend'[x].amount
      BY <3>1 DEF SpendAmount
    <3> QED BY <3>1, <3>2, <3>3
  <2> QED BY <2>1, <2>2
<1>3. SumFunctionOnSet(SpendAmount, TakenFrom(c, cur)) = SumFunctionOnSet(SpendAmount', TakenFrom(c, cur))
  BY <1>2, SumSame
<1> QED BY <1>1, <1>3 DEF WalletsAddUp

\* Posting a hold takes its amount out of the one wallet it is counted in.
LEMMA HoldMoney ==
  ASSUME TypeOK, WalletsAddUp, NEW d \in Deliveries, holdLog[d] = {}, UNCHANGED spend,
         bal' = Send(bal, Wallet(CardOf[d], spend[d].currency), Hold(d), spend[d].amount),
         holdLog' = [holdLog EXCEPT ![d] = {"hold"}]
  PROVE  WalletsAddUp'
<1> SUFFICES ASSUME NEW c \in Cards, NEW cur \in Currencies
             PROVE  bal'[Wallet(c, cur)] =
                      Opening[c][cur] - SumFunctionOnSet(SpendAmount, TakenFrom(c, cur)')
  BY DEF WalletsAddUp, SpendAmount
<1>1. bal[Wallet(c, cur)] = Opening[c][cur] - SumFunctionOnSet(SpendAmount, TakenFrom(c, cur))
  BY DEF WalletsAddUp
<1>2. /\ bal'[Wallet(CardOf[d], spend[d].currency)] =
              bal[Wallet(CardOf[d], spend[d].currency)] - spend[d].amount
      /\ \A a \in Accounts \ {Wallet(CardOf[d], spend[d].currency), Hold(d)} : bal'[a] = bal[a]
  BY HoldEffect
<1>3. CASE CardOf[d] = c /\ spend[d].currency = cur
  <2>1. d \notin TakenFrom(c, cur) /\ TakenFrom(c, cur)' = TakenFrom(c, cur) \cup {d}
    BY <1>3 DEF TypeOK, TakenFrom, Held, Voided
  <2>2. IsFiniteSet(TakenFrom(c, cur)) /\ \A x \in TakenFrom(c, cur) \cup {d} : SpendAmount[x] \in Int
    BY FiniteSums
  <2>3. SumFunctionOnSet(SpendAmount, TakenFrom(c, cur)')
          = SumFunctionOnSet(SpendAmount, TakenFrom(c, cur)) + SpendAmount[d]
    BY <2>1, <2>2, SumAdd
  <2>4. /\ SpendAmount[d] = spend[d].amount /\ SpendAmount[d] \in Nat /\ Opening[c][cur] \in Int
        /\ SumFunctionOnSet(SpendAmount, TakenFrom(c, cur)) \in Int
    BY FiniteSums, OpeningAssumption
  <2> QED BY <1>1, <1>2, <1>3, <2>3, <2>4
<1>4. CASE ~(CardOf[d] = c /\ spend[d].currency = cur)
  <2>1. TakenFrom(c, cur)' = TakenFrom(c, cur)
    BY <1>4 DEF TypeOK, TakenFrom, Held, Voided
  <2>2. spend[d].currency \in Currencies /\ CardOf[d] \in Cards
    BY DEF TypeOK
  <2>3. Wallet(c, cur) \in Accounts \ {Wallet(CardOf[d], spend[d].currency), Hold(d)}
    BY <1>4, <2>2, Addresses
  <2> QED BY <1>1, <1>2, <2>1, <2>3
<1> QED BY <1>3, <1>4

\* Voiding a hold brings its amount back to that wallet.
LEMMA VoidMoney ==
  ASSUME TypeOK, WalletsAddUp, NEW d \in Deliveries, UNCHANGED spend, OnHold(d),
         bal[Hold(d)] = spend[d].amount,
         bal' = VoidHold(bal, d, <<CardOf[d], spend[d].currency>>, spend[d].amount),
         holdLog' = [holdLog EXCEPT ![d] = @ \cup {"void_hold"}]
  PROVE  WalletsAddUp'
<1> SUFFICES ASSUME NEW c \in Cards, NEW cur \in Currencies
             PROVE  bal'[Wallet(c, cur)] =
                      Opening[c][cur] - SumFunctionOnSet(SpendAmount, TakenFrom(c, cur)')
  BY DEF WalletsAddUp, SpendAmount
<1> DEFINE own == Wallet(CardOf[d], spend[d].currency)
           amt == spend[d].amount
<1>1. bal[Wallet(c, cur)] = Opening[c][cur] - SumFunctionOnSet(SpendAmount, TakenFrom(c, cur))
  BY DEF WalletsAddUp
<1>2. /\ spend[d].currency \in Currencies /\ CardOf[d] \in Cards /\ amt \in Nat
      /\ bal \in [Accounts -> Int]
  BY DEF TypeOK
<1>3. own \in Accounts /\ Hold(d) \in Accounts /\ own # Hold(d)
  BY <1>2, Addresses
<1>4. bal' = Send(bal, Hold(d), own, amt)
  BY <1>2 DEF VoidHold, Wallet
<1> HIDE DEF own, amt
<1>5. bal'[own] = bal[own] + amt /\ \A a \in Accounts \ {own, Hold(d)} : bal'[a] = bal[a]
  BY <1>2, <1>3, <1>4 DEF Send
<1>6. CASE CardOf[d] = c /\ spend[d].currency = cur
  <2>1. d \in TakenFrom(c, cur) /\ TakenFrom(c, cur)' = TakenFrom(c, cur) \ {d}
    BY <1>6 DEF TypeOK, TakenFrom, OnHold, Held, Voided
  <2>2. IsFiniteSet(TakenFrom(c, cur)) /\ \A x \in TakenFrom(c, cur) : SpendAmount[x] \in Int
    BY FiniteSums
  <2>3. SumFunctionOnSet(SpendAmount, TakenFrom(c, cur))
          = SpendAmount[d] + SumFunctionOnSet(SpendAmount, TakenFrom(c, cur)')
    BY <2>1, <2>2, SumRemove
  <2>4. TakenFrom(c, cur)' \in SUBSET Deliveries
    BY DEF TakenFrom
  <2>5. /\ SpendAmount[d] = amt /\ SpendAmount[d] \in Nat /\ Opening[c][cur] \in Int
        /\ SumFunctionOnSet(SpendAmount, TakenFrom(c, cur)') \in Int
    BY <2>4, FiniteSums, OpeningAssumption DEF amt
  <2>6. own = Wallet(c, cur)
    BY <1>6 DEF own
  <2> QED BY <1>1, <1>5, <2>3, <2>5, <2>6
<1>7. CASE ~(CardOf[d] = c /\ spend[d].currency = cur)
  <2>1. TakenFrom(c, cur)' = TakenFrom(c, cur)
    BY <1>7 DEF TypeOK, TakenFrom, Held, Voided
  <2>2. Wallet(c, cur) \in Accounts \ {own, Hold(d)}
    BY <1>2, <1>7, Addresses DEF own
  <2> QED BY <1>1, <1>5, <2>1, <2>2
<1> QED BY <1>6, <1>7

\* Settling a hold touches no wallet.
LEMMA SettleMoney ==
  ASSUME TypeOK, NEW d \in Deliveries, bal' = Send(bal, Hold(d), TransitCardAuth, bal[Hold(d)])
  PROVE  \A c \in Cards, cur \in Currencies : bal'[Wallet(c, cur)] = bal[Wallet(c, cur)]
<1> SUFFICES ASSUME NEW c \in Cards, NEW cur \in Currencies
             PROVE  bal'[Wallet(c, cur)] = bal[Wallet(c, cur)]
  OBVIOUS
<1>1. /\ Wallet(c, cur) \in Accounts /\ Wallet(c, cur) # Hold(d)
      /\ Wallet(c, cur) # TransitCardAuth /\ bal \in [Accounts -> Int]
  BY Addresses DEF TypeOK
<1> QED BY <1>1 DEF Send

\* Neither does a void that finds nothing on the hold.
LEMMA EmptyVoid ==
  ASSUME TypeOK, NEW d \in Deliveries, bal[Hold(d)] = 0,
         bal' = VoidHold(bal, d, <<CardOf[d], spend[d].currency>>, spend[d].amount)
  PROVE  \A c \in Cards, cur \in Currencies : bal'[Wallet(c, cur)] = bal[Wallet(c, cur)]
<1> SUFFICES ASSUME NEW c \in Cards, NEW cur \in Currencies
             PROVE  bal'[Wallet(c, cur)] = bal[Wallet(c, cur)]
  OBVIOUS
<1> DEFINE a == Wallet(c, cur)
           dst == Main(<<CardOf[d], spend[d].currency>>)
<1>1. a \in Accounts /\ bal \in [Accounts -> Int] /\ spend[d].amount \in Nat
  BY Addresses DEF TypeOK
<1>2. PICK none \in Int : none = 0 /\ bal' = Send(bal, Hold(d), dst, none)
  BY <1>1 DEF VoidHold
<1> HIDE DEF a, dst
<1>3. bal'[a] = bal[a]
  <2>1. a \in DOMAIN bal /\ bal[a] \in Int
    BY <1>1
  <2>2. bal'[a] = bal[a] - (IF a = Hold(d) THEN none ELSE 0) + (IF a = dst THEN none ELSE 0)
    BY <1>2, <2>1 DEF Send
  <2>3. (IF a = Hold(d) THEN none ELSE 0) = 0 /\ (IF a = dst THEN none ELSE 0) = 0
    BY <1>2
  <2> QED BY <2>1, <2>2, <2>3
<1> QED BY <1>3 DEF a

\* Every step keeps every cent of the wallets accounted for.
LEMMA NextMoney == IInv /\ IInv' /\ WalletsAddUp /\ [Next]_vars => WalletsAddUp'
<1> SUFFICES ASSUME IInv, IInv', WalletsAddUp, [Next]_vars PROVE WalletsAddUp'
  OBVIOUS
<1>1. TypeOK /\ TypeOK'
  BY DEF IInv
<1>2. ASSUME UNCHANGED <<bal, holdLog, spend>> PROVE WalletsAddUp'
  BY <1>1, <1>2, SameMoney DEF Held, Voided
<1>3. ASSUME NEW d \in Deliveries, ResolveSpend(d) PROVE WalletsAddUp'
  <2>1. UNCHANGED <<bal, holdLog>> /\ ~Held(d)
    BY <1>3 DEF ResolveSpend, IInv, DeliveryInv
  <2>2. \A e \in Deliveries \ {d} : spend'[e] = spend[e]
    BY <1>1, <1>3 DEF ResolveSpend, TypeOK
  <2>3. \A e \in Deliveries : Held(e) => spend'[e] = spend[e]
    BY <2>1, <2>2
  <2> QED BY <1>1, <2>1, <2>3, SameMoney DEF Held, Voided
<1>4. ASSUME NEW d \in Deliveries, HoldStep(d) PROVE WalletsAddUp'
  <2>1. holdLog[d] = {}
    BY <1>4 DEF HoldStep, IInv, TypeOK, DeliveryInv, Held, Settled, Voided
  <2>2. UNCHANGED spend
    BY <1>4 DEF HoldStep
  <2>3. \/ UNCHANGED <<bal, holdLog>>
        \/ /\ bal' = Send(bal, Wallet(CardOf[d], spend[d].currency), Hold(d), spend[d].amount)
           /\ holdLog' = [holdLog EXCEPT ![d] = {"hold"}]
    BY <1>4 DEF HoldStep
  <2> QED BY <1>1, <1>2, <2>1, <2>2, <2>3, HoldMoney
<1>5. ASSUME NEW j \in Jobs, CloseHold(j) PROVE WalletsAddUp'
  <2> PICK d \in Deliveries : d = picked[j]
    BY DEF IInv, TypeOK
  <2>1. UNCHANGED spend
    BY <1>5 DEF CloseHold
  <2>2. UNCHANGED <<bal, holdLog>> \/ \E tag \in {"settle_hold", "void_hold", "void_nothing"} : Posts(j, d, tag)
    BY <1>5, CloseCases
  <2>3. ASSUME Posts(j, d, "settle_hold") PROVE WalletsAddUp'
    <3>1. \A e \in Deliveries : (Held(e)' <=> Held(e)) /\ (Voided(e)' <=> Voided(e))
      BY <1>1, <2>3 DEF Posts, TypeOK, Held, Voided
    <3>2. \A e \in Deliveries : spend'[e] = spend[e]
      BY <2>1
    <3>3. \A c \in Cards, cur \in Currencies : bal'[Wallet(c, cur)] = bal[Wallet(c, cur)]
      BY <1>1, <2>3, SettleMoney DEF Posts
    <3> QED BY <1>1, <3>1, <3>2, <3>3, SameMoney
  <2>4. ASSUME Posts(j, d, "void_hold") PROVE WalletsAddUp'
    BY <1>1, <2>1, <2>4, VoidMoney DEF Posts
  <2>5. ASSUME Posts(j, d, "void_nothing") PROVE WalletsAddUp'
    <3>1. \A e \in Deliveries : (Held(e)' <=> Held(e)) /\ (Voided(e)' <=> Voided(e))
      BY <1>1, <2>5 DEF Posts, TypeOK, Held, Voided
    <3>2. \A e \in Deliveries : spend'[e] = spend[e]
      BY <2>1
    <3>3. \A c \in Cards, cur \in Currencies : bal'[Wallet(c, cur)] = bal[Wallet(c, cur)]
      BY <1>1, <2>5, EmptyVoid DEF Posts
    <3> QED BY <1>1, <3>1, <3>2, <3>3, SameMoney
  <2> QED BY <1>1, <1>2, <2>1, <2>2, <2>3, <2>4, <2>5
<1>6. ASSUME NEW d \in Deliveries, CheckCard(d) \/ CheckLimits(d) \/ Record(d) \/ Crash(d)
      PROVE  UNCHANGED <<bal, holdLog, spend>>
  BY <1>6 DEF CheckCard, CheckLimits, Record, Crash
<1>7. ASSUME NEW j \in Jobs, PickRow(j) \/ LookAtHold(j) \/ MarkRow(j) PROVE UNCHANGED <<bal, holdLog, spend>>
  BY <1>7 DEF PickRow, LookAtHold, MarkRow
<1>8. ASSUME NEW c \in Cards, NEW status \in CardStatuses, SetCardStatus(c, status)
      PROVE  UNCHANGED <<bal, holdLog, spend>>
  BY <1>8 DEF SetCardStatus
<1>9. CASE UNCHANGED vars
  BY <1>2, <1>9 DEF vars
<1> QED BY <1>2, <1>3, <1>4, <1>5, <1>6, <1>7, <1>8, <1>9 DEF Next, Handle

\* Rows are cleared and reversed as their holds were, and every cent of every
\* wallet is in it, on a hold or in the card transit account.
THEOREM ClearingIsFaithful == Spec => []ClearingFollowsLedger
<1>1. ASSUME Init PROVE WalletsAddUp
  <2> SUFFICES ASSUME NEW c \in Cards, NEW cur \in Currencies
               PROVE  bal[Wallet(c, cur)] =
                        Opening[c][cur] - SumFunctionOnSet(SpendAmount, TakenFrom(c, cur))
    BY DEF WalletsAddUp
  <2>1. TakenFrom(c, cur) = {}
    BY <1>1 DEF Init, TakenFrom, Held
  <2>2. bal[Wallet(c, cur)] = Opening[c][cur] /\ Opening[c][cur] \in Nat
    BY <1>1, OpeningBalances, OpeningAssumption
  <2> QED BY <2>1, <2>2, SumEmpty
<1>2. Spec => []WalletsAddUp
  BY Invariance, <1>1, NextMoney, PTL DEF Spec
<1>3. IInv /\ WalletsAddUp => ClearingFollowsLedger
  BY DEF IInv, DeliveryInv, ClearingFollowsLedger
<1> QED BY Invariance, <1>2, <1>3, PTL
-----------------------------------------------------------------------------
(***************************************************************************)
(* Reference data.  RequestOK(c, r, cs) is what holds of the record r of   *)
(* request c among the requests cs; it mentions no variable, so that a     *)
(* step of another request leaves it alone.                                *)
(***************************************************************************)
CallFields == {"pc", "ask", "ans", "applied", "day", "key", "load", "got", "todo", "stage", "row",
               "waiting", "quotes", "best", "bestCost"}
Classes == {"fx", "rules", "fees", "quotes"}

\* Where a request may be, by what it asked for.
Placed(r) ==
  /\ r.pc = "insert" => r.ask.op = "refresh"
  /\ r.pc = "writeRule" => r.ask.op = "updateRule" /\ r.row[1].value \in Int
  /\ r.pc \in {"check", "settle"} => r.ask.op = "transfer"
  /\ r.pc \in {"corridors", "quotes"} => r.ask.op = "quote" /\ r.key[1] = "quotes"
  /\ r.pc \in {"get", "load", "loadGlobal", "set"} =>
       r.key[1] \in Classes /\ (r.key[1] = "quotes" => r.ask.op = "quote")
  /\ r.pc = "loadGlobal" => r.key[1] = "fees"
\* Only a transfer that ended is counted on a day.
Dated(r) ==
  /\ r.day \in Nat \cup {-1}
  /\ r.day # -1 => r.pc \in {"done", "failed"} /\ r.ask.op = "transfer"
\* The rules a request has read have integers for values.
Proper(k, val) == k[1] = "rules" => \A x \in val : x.value \in Int
ProperReads(r) ==
  /\ r.pc = "set" => Proper(r.key, r.load)
  /\ r.pc = "use" => r.key \in DOMAIN r.got
  /\ \A k \in DOMAIN r.got : Proper(k, r.got[k])
\* A transfer reads the rules of its stage, or, for a rule that it has chosen
\* among them, a rate.
StageKey(r) == <<"rules", RuleKey[r.stage]>>
Candidates(r) == Effective(r.got[StageKey(r)], r.ask.user, RuleCurrency(r.ask, r.stage))
Chosen(r) ==
  r.pc \in {"get", "load", "loadGlobal", "set", "use"} /\ r.ask.op = "transfer" =>
    \/ r.key = StageKey(r)
    \/ r.key[1] = "fx" /\ r.stage # 1 /\ StageKey(r) \in DOMAIN r.got /\ r.row[1] \in Candidates(r)
\* The best answer so far is one of the answers, and the cheapest of them
\* unless one of them delivers more than was sent.
Weighed(r) ==
  /\ r.quotes # {} => r.ask.cents \in Int
  /\ \A q \in r.quotes : q.target \in Int
  /\ r.quotes = {} => r.best = {} /\ r.bestCost = -1
  /\ r.quotes # {} => \E b \in r.quotes : r.best = {b} /\ r.bestCost = r.ask.cents - b.target
  /\ (\A q \in r.quotes : q.target <= r.ask.cents) => \A q \in r.quotes : r.bestCost <= r.ask.cents - q.target
\* A limit that request c, which asked for r, has passed.
CentsOf(ds) == SumFunctionOnSet([d \in ds |-> Form[d].cents], ds)
Passed(c, a, cs) ==
  /\ a.seen \subseteq cs
  /\ \A x \in a.rules : MatchPriority(x, Form[c].user, RuleCurrency(Form[c], a.stage)) >= 0 => Rank[x.scope] <= Rank[a.rule.scope]
  /\ a.stage = 1 /\ a.used > 0 => CentsOf(a.seen \cup {c}) <= a.rule.value
RequestOK(c, r, cs) ==
  /\ DOMAIN r = CallFields /\ r.ask = Form[c]
  /\ Placed(r) /\ Dated(r) /\ ProperReads(r) /\ Chosen(r) /\ Weighed(r)
  /\ \A a \in r.applied : Passed(c, a, cs)

\* A request that is not being served.
LEMMA RecordOK ==
  ASSUME NEW c, NEW cs, NEW end \in {"new", "done", "failed"}, NEW ans, NEW applied, NEW day \in Nat \cup {-1},
         day # -1 => end # "new" /\ Form[c].op = "transfer", \A a \in applied : Passed(c, a, cs)
  PROVE  RequestOK(c, CallRecord(end, Form[c], ans, applied, day), cs)
<1> DEFINE r == CallRecord(end, Form[c], ans, applied, day)
<1>1. DOMAIN r = CallFields /\ r.ask = Form[c] /\ r.pc = end /\ r.day = day /\ r.applied = applied
      /\ r.got = <<>> /\ r.quotes = {} /\ r.best = {} /\ r.bestCost = -1
  BY DEF CallRecord, CallFields
<1> HIDE DEF r
<1>2. Placed(r) /\ Dated(r) /\ Chosen(r)
  BY <1>1 DEF Placed, Dated, Chosen
<1>3. ProperReads(r)
  BY <1>1 DEF ProperReads
<1>4. Weighed(r)
  BY <1>1 DEF Weighed
<1>5. RequestOK(c, r, cs)
  BY <1>1, <1>2, <1>3, <1>4 DEF RequestOK
<1> QED BY <1>5 DEF r

\* A request that ends keeps what it asked for and its outcome.
LEMMA EndOK ==
  ASSUME NEW c, NEW cs, NEW r, RequestOK(c, r, cs), NEW end \in {"done", "failed"}, NEW ans,
         NEW day \in Nat \cup {-1}, day = r.day \/ r.ask.op = "transfer"
  PROVE  RequestOK(c, CallRecord(end, r.ask, ans, r.applied, day), cs)
<1>1. r.ask = Form[c] /\ (\A a \in r.applied : Passed(c, a, cs)) /\ (day # -1 => Form[c].op = "transfer")
  BY DEF RequestOK, Dated
<1> QED BY <1>1, RecordOK

\* A step of request c leaves the others alone.
OnlyCall(c) == DOMAIN call' = Calls /\ \A d \in Calls \ {c} : call'[d] = call[d]
Tables == {"rates", "rules", "fees", "totals"}
TablesOK ==
  /\ DOMAIN db = Tables
  /\ \A i \in DOMAIN db.rules : "value" \in DOMAIN db.rules[i] /\ db.rules[i].value \in Int
  /\ \A a \in DOMAIN db.totals : db.totals[a] \in Int
CacheOK ==
  \A k \in DOMAIN cache : /\ DOMAIN cache[k] = {"val", "ttl", "excuse"} /\ cache[k].excuse \in BOOLEAN
                          /\ k[1] \in Classes /\ Proper(k, cache[k].val)
\* The transfers counted in a row of the totals are no more than the row.
CountedOn(user, currency, direction, day) ==
  {d \in Calls : /\ call[d].day = day /\ Req(d).user = user
                 /\ Req(d).currency = currency /\ Req(d).direction = direction}
TotalsCover ==
  \A user, currency, direction : \A day \in Nat :
    LET ds == CountedOn(user, currency, direction, day)
        line == <<user, currency, direction, day>>
    IN IF line \in DOMAIN db.totals THEN CentsOf(ds) <= db.totals[line] ELSE ds = {}
RequestsOK == \A c \in Calls : RequestOK(c, call[c], Calls)
PolicyInv ==
  /\ Calls \in Groups /\ now \in Nat
  /\ RequestsOK /\ TablesOK /\ CacheOK /\ TotalsCover /\ StaleForAReason

\* A request that goes on working keeps its outcome and the answers it has.
LEMMA WorkingOK ==
  ASSUME NEW c, NEW cs, NEW r, RequestOK(c, r, cs), r.pc \notin {"done", "failed"},
         NEW s, DOMAIN s = CallFields, s.ask = r.ask, s.applied = r.applied, s.day = r.day,
         s.quotes = r.quotes, s.best = r.best, s.bestCost = r.bestCost,
         Placed(s), ProperReads(s), Chosen(s)
  PROVE  RequestOK(c, s, cs)
<1>1. Dated(s)
  BY DEF RequestOK, Dated
<1>2. Weighed(s)
  BY DEF RequestOK, Weighed
<1> QED BY <1>1, <1>2 DEF RequestOK

\* What the ways of updating a record do.
LEMMA Updates ==
  ASSUME NEW c \in Calls, DOMAIN call[c] = CallFields
  PROVE  /\ \A r : call' = [call EXCEPT ![c] = r] => OnlyCall(c) /\ call'[c] = r
         /\ \A step : Moves(c, step) => OnlyCall(c) /\ call'[c] = [call[c] EXCEPT !.pc = step]
         /\ \A k : Reads(c, k) => OnlyCall(c) /\ call'[c] = [call[c] EXCEPT !.pc = "get", !.key = k]
         /\ \A val : Got(c, val) => 
              OnlyCall(c) /\ call'[c] = [call[c] EXCEPT !.pc = "use", !.load = {}, !.got = Put(call[c].got, call[c].key, val)]
<1>1. \A r : call' = [call EXCEPT ![c] = r] => OnlyCall(c) /\ call'[c] = r
  BY DEF OnlyCall, Calls
<1>2. \A step : Moves(c, step) => OnlyCall(c) /\ call'[c] = [call[c] EXCEPT !.pc = step]
  BY DEF OnlyCall, Calls, Moves
<1>3. \A k : Reads(c, k) => OnlyCall(c) /\ call'[c] = [call[c] EXCEPT !.pc = "get", !.key = k]
  BY DEF OnlyCall, Calls, Reads, CallFields
<1>4. \A val : Got(c, val) => 
              OnlyCall(c) /\ call'[c] = [call[c] EXCEPT !.pc = "use", !.load = {}, !.got = Put(call[c].got, call[c].key, val)]
  BY DEF OnlyCall, Calls, Got, CallFields
<1> QED BY <1>1, <1>2, <1>3, <1>4

\* A step of c that keeps what is known of requests and counts nothing.
GoodStep(c) == OnlyCall(c) /\ RequestOK(c, call'[c], Calls) /\ call'[c].day = call[c].day

LEMMA EndGood ==
  ASSUME PolicyInv, NEW c \in Calls
  PROVE  /\ \A ok : Finish(c, ok) => GoodStep(c)
         /\ \A x : Answer(c, x) => GoodStep(c)
<1> DEFINE r == call[c]
<1>1. RequestOK(c, r, Calls) /\ DOMAIN call[c] = CallFields /\ r.day \in Nat \cup {-1}
  BY DEF PolicyInv, RequestsOK, RequestOK, Dated
<1>2. ASSUME NEW end \in {"done", "failed"}, NEW ans, NEW s, s = CallRecord(end, r.ask, ans, r.applied, r.day)
      PROVE  RequestOK(c, s, Calls) /\ s.day = r.day
  <2>1. RequestOK(c, s, Calls)
    BY <1>1, <1>2, EndOK
  <2> QED BY <2>1, <1>2 DEF CallRecord
<1>3. ASSUME NEW ok, Finish(c, ok) PROVE GoodStep(c)
  <2>1. PICK end \in {"done", "failed"} : call' = [call EXCEPT ![c] = CallRecord(end, r.ask, r.ans, r.applied, r.day)]
    BY <1>3 DEF Finish, Ended, Req
  <2>2. OnlyCall(c) /\ call'[c] = CallRecord(end, r.ask, r.ans, r.applied, r.day)
    BY <2>1, <1>1, Updates
  <2> QED BY <2>2, <1>2 DEF GoodStep
<1>4. ASSUME NEW x, Answer(c, x) PROVE GoodStep(c)
  <2>1. OnlyCall(c) /\ call'[c] = CallRecord("done", r.ask, x, r.applied, r.day)
    BY <1>4, <1>1, Updates DEF Answer, Req
  <2> QED BY <2>1, <1>2 DEF GoodStep
<1> QED BY <1>3, <1>4

\* What the invariant says of a request.
LEMMA OfRequest ==
  ASSUME PolicyInv, NEW c \in Calls
  PROVE  /\ DOMAIN call[c] = CallFields /\ RequestOK(c, call[c], Calls)
         /\ Placed(call[c]) /\ ProperReads(call[c]) /\ Chosen(call[c])
         /\ Req(c) = Form[c] /\ call[c].ask = Form[c] /\ c \in DOMAIN Form
BY ReferenceAssumption DEF PolicyInv, RequestsOK, RequestOK, Req

LEMMA WorkingGood ==
  ASSUME PolicyInv, NEW c \in Calls, call[c].pc \notin {"done", "failed"}, OnlyCall(c),
         NEW s, call'[c] = s, DOMAIN s = CallFields, s.ask = call[c].ask, s.applied = call[c].applied, s.day = call[c].day,
         s.quotes = call[c].quotes, s.best = call[c].best, s.bestCost = call[c].bestCost,
         Placed(s), ProperReads(s), Chosen(s)
  PROVE  GoodStep(c)
<1>1. RequestOK(c, s, Calls)
  BY OfRequest, WorkingOK
<1> QED BY <1>1 DEF GoodStep

\* A request that has its value.
LEMMA GotGood ==
  ASSUME PolicyInv, NEW c \in Calls, call[c].pc \in {"get", "load", "set", "quotes"},
         NEW val, Proper(call[c].key, val), Got(c, val)
  PROVE  GoodStep(c)
<1> DEFINE r == call[c]
           s == [r EXCEPT !.pc = "use", !.load = {}, !.got = Put(r.got, r.key, val)]
<1>1. OnlyCall(c) /\ call'[c] = s
  BY OfRequest, Updates
<1>2. /\ DOMAIN s = CallFields /\ s.pc = "use" /\ s.ask = r.ask /\ s.applied = r.applied /\ s.day = r.day
      /\ s.quotes = r.quotes /\ s.best = r.best /\ s.bestCost = r.bestCost
      /\ s.key = r.key /\ s.stage = r.stage /\ s.row = r.row /\ s.got = Put(r.got, r.key, val)
  BY OfRequest DEF CallFields
<1>3. /\ DOMAIN s.got = DOMAIN r.got \cup {r.key} /\ s.got[r.key] = val
      /\ \A k \in DOMAIN r.got : k # r.key => s.got[k] = r.got[k]
  BY <1>2 DEF Put
<1> HIDE DEF s
<1>4. Placed(s)
  BY <1>2 DEF Placed
<1>5. ProperReads(s)
  BY <1>2, <1>3, OfRequest DEF ProperReads
<1>6. Chosen(s)
  <2> SUFFICES ASSUME s.ask.op = "transfer", s.key # StageKey(s)
               PROVE  s.key[1] = "fx" /\ s.stage # 1 /\ StageKey(s) \in DOMAIN s.got /\ s.row[1] \in Candidates(s)
    BY DEF Chosen
  <2>1. StageKey(s) = StageKey(r)
    BY <1>2 DEF StageKey
  <2>2. r.key[1] = "fx" /\ r.stage # 1 /\ StageKey(r) \in DOMAIN r.got /\ r.row[1] \in Candidates(r)
    BY <2>1, <1>2, OfRequest DEF Chosen, Placed
  <2>3. Candidates(s) = Candidates(r)
    BY <2>1, <2>2, <1>2, <1>3 DEF Candidates
  <2> QED BY <2>1, <2>2, <2>3, <1>2, <1>3
<1> QED BY <1>1, <1>2, <1>4, <1>5, <1>6, WorkingGood

\* What the tables and the cache give.
LEMMA ProperValues ==
  ASSUME PolicyInv
  PROVE  /\ \A k : k[1] \in Classes \ {"quotes"} => Proper(k, Fresh(k))
         /\ \A k : Proper(k, {}) /\ \A val \in Cached(k) : Proper(k, val)
<1>1. ASSUME NEW k, k[1] \in Classes \ {"quotes"} PROVE Proper(k, Fresh(k))
  <2> SUFFICES ASSUME k[1] = "rules", NEW x \in Fresh(k) PROVE x.value \in Int
    BY DEF Proper
  <2>1. x \in Range(db.rules)
    BY DEF Fresh, OnDay, ListEffectiveByKey
  <2> QED BY <2>1 DEF Range, PolicyInv, TablesOK
<1>2. ASSUME NEW k, NEW val \in Cached(k) PROVE Proper(k, val)
  BY <1>2 DEF Cached, PolicyInv, CacheOK
<1> QED BY <1>1, <1>2 DEF Proper

LEMMA ReadGood ==
  ASSUME PolicyInv, NEW c \in Calls, Read(c)
  PROVE  GoodStep(c)
<1> DEFINE r == call[c]
<1>0. DOMAIN r = CallFields
  BY OfRequest
<1>1. CASE Get(c)
  <2>1. r.pc = "get"
    BY <1>1 DEF Get, At
  <2>2. ASSUME NEW val \in Cached(r.key), Got(c, val) PROVE GoodStep(c)
    BY <2>1, <2>2, GotGood, ProperValues
  <2>3. ASSUME Moves(c, IF r.key[1] = "quotes" THEN "corridors" ELSE "load") PROVE GoodStep(c)
    <3> DEFINE s == [r EXCEPT !.pc = IF r.key[1] = "quotes" THEN "corridors" ELSE "load"]
    <3>1. OnlyCall(c) /\ call'[c] = s
      BY <2>3, <1>0, Updates
    <3>2. /\ DOMAIN s = CallFields /\ s.pc = (IF r.key[1] = "quotes" THEN "corridors" ELSE "load")
          /\ s.ask = r.ask /\ s.applied = r.applied /\ s.day = r.day
          /\ s.quotes = r.quotes /\ s.best = r.best /\ s.bestCost = r.bestCost
          /\ s.key = r.key /\ s.stage = r.stage /\ s.row = r.row /\ s.got = r.got
      BY <1>0 DEF CallFields
    <3> HIDE DEF s
    <3>3. Placed(s) /\ ProperReads(s)
      BY <2>1, <3>2, OfRequest DEF Placed, ProperReads
    <3>4. Chosen(s)
      BY <2>1, <3>2, OfRequest DEF Chosen, StageKey, Candidates
    <3> QED BY <2>1, <3>1, <3>2, <3>3, <3>4, WorkingGood
  <2> QED BY <1>1, <2>2, <2>3 DEF Get
<1>2. CASE Load(c)
  <2>1. r.pc = "load" /\ r.key[1] \in Classes
    BY <1>2, OfRequest DEF Load, At, Placed
  <2>2. CASE LoadFails(c)
    BY <2>1, <2>2, EndGood, GotGood, ProperValues DEF LoadFails
  <2>3. ASSUME NEW f, f = Fresh(r.key), 
               call' = [call EXCEPT ![c].load = f, ![c].pc = IF r.key[1] = "fees" /\ f = {} THEN "loadGlobal" ELSE "set"]
        PROVE GoodStep(c)
    <3> DEFINE s == [r EXCEPT !.load = f, !.pc = IF r.key[1] = "fees" /\ f = {} THEN "loadGlobal" ELSE "set"]
    <3>1. OnlyCall(c) /\ call'[c] = s
      BY <2>3, <1>0 DEF OnlyCall, Calls, CallFields
    <3>2. /\ DOMAIN s = CallFields /\ s.pc = (IF r.key[1] = "fees" /\ f = {} THEN "loadGlobal" ELSE "set")
          /\ s.ask = r.ask /\ s.applied = r.applied /\ s.day = r.day /\ s.load = f
          /\ s.quotes = r.quotes /\ s.best = r.best /\ s.bestCost = r.bestCost
          /\ s.key = r.key /\ s.stage = r.stage /\ s.row = r.row /\ s.got = r.got
      BY <1>0 DEF CallFields
    <3> HIDE DEF s
    <3>3. Placed(s)
      BY <2>1, <3>2, OfRequest DEF Placed
    <3>4. Chosen(s)
      BY <2>1, <3>2, OfRequest DEF Chosen, StageKey, Candidates
    <3>5. ProperReads(s)
      <4>1. r.key[1] # "quotes" => Proper(r.key, f)
        BY <2>1, <2>3, ProperValues
      <4>2. r.key[1] = "quotes" => Proper(r.key, f)
        BY DEF Proper
      <4> QED BY <4>1, <4>2, <3>2, OfRequest DEF ProperReads
    <3> QED BY <2>1, <3>1, <3>2, <3>3, <3>4, <3>5, WorkingGood
  <2> QED BY <1>2, <2>2, <2>3 DEF Load
<1>3. CASE LoadGlobal(c)
  <2>1. r.pc = "loadGlobal" /\ r.key[1] = "fees"
    BY <1>3, OfRequest DEF LoadGlobal, At, Placed
  <2>2. ASSUME NEW f, call' = [call EXCEPT ![c].pc = "set", ![c].load = f]
        PROVE GoodStep(c)
    <3> DEFINE s == [r EXCEPT !.pc = "set", !.load = f]
    <3>1. OnlyCall(c) /\ call'[c] = s
      BY <2>2, <1>0 DEF OnlyCall, Calls, CallFields
    <3>2. /\ DOMAIN s = CallFields /\ s.pc = "set"
          /\ s.ask = r.ask /\ s.applied = r.applied /\ s.day = r.day /\ s.load = f
          /\ s.quotes = r.quotes /\ s.best = r.best /\ s.bestCost = r.bestCost
          /\ s.key = r.key /\ s.stage = r.stage /\ s.row = r.row /\ s.got = r.got
      BY <1>0 DEF CallFields
    <3> HIDE DEF s
    <3>3. Placed(s)
      BY <2>1, <3>2, OfRequest DEF Placed, Classes
    <3>4. Chosen(s)
      BY <2>1, <3>2, OfRequest DEF Chosen, StageKey, Candidates
    <3>5. ProperReads(s)
      BY <2>1, <3>2, OfRequest DEF ProperReads, Proper
    <3> QED BY <2>1, <3>1, <3>2, <3>3, <3>4, <3>5, WorkingGood
  <2> QED BY <1>3, <2>2, EndGood DEF LoadGlobal
<1>4. CASE Store(c)
  BY <1>4, OfRequest, GotGood DEF Store, At, ProperReads
<1> QED BY <1>1, <1>2, <1>3, <1>4 DEF Read

\* A request that reads on: it has a key, and for a transfer that key is the
\* one of its stage.
LEMMA ReadsGood ==
  ASSUME PolicyInv, NEW c \in Calls, call[c].pc \notin {"done", "failed"},
         NEW s, OnlyCall(c), call'[c] = s, DOMAIN s = CallFields,
         s.ask = call[c].ask, s.applied = call[c].applied, s.day = call[c].day,
         s.quotes = call[c].quotes, s.best = call[c].best, s.bestCost = call[c].bestCost, s.got = call[c].got,
         s.pc = "get", s.key[1] \in Classes, s.key[1] = "quotes" => s.ask.op = "quote",
         s.ask.op = "transfer" => s.key = StageKey(s)
  PROVE  GoodStep(c)
<1>1. Placed(s) /\ ProperReads(s) /\ Chosen(s)
  BY OfRequest DEF Placed, ProperReads, Chosen
<1> QED BY <1>1, WorkingGood

\* The readers of rates, fees and quotes, up to the providers' answers.
LEMMA ReadersGood ==
  ASSUME PolicyInv, NEW c \in Calls,
         \/ HandleGetRate(c) \/ ShowRate(c) \/ HandleConvert(c) \/ ShowConversion(c)
         \/ HandleListRates(c) \/ NextPair(c) \/ HandleFeeQuote(c) \/ ShowFee(c)
         \/ HandleInternationalQuote(c) \/ ShowQuote(c)
  PROVE  GoodStep(c)
<1> DEFINE r == call[c]
<1>0. DOMAIN r = CallFields /\ r.ask = Req(c)
  BY OfRequest
<1>1. ASSUME NEW k, k[1] \in Classes, k[1] = "quotes" => Req(c).op = "quote", Req(c).op # "transfer",
             r.pc = "new", Reads(c, k)
      PROVE  GoodStep(c)
  <2> DEFINE s == [r EXCEPT !.pc = "get", !.key = k]
  <2>1. OnlyCall(c) /\ call'[c] = s
    BY <1>1, <1>0, Updates
  <2>2. /\ DOMAIN s = CallFields /\ s.pc = "get"
        /\ s.ask = r.ask /\ s.applied = r.applied /\ s.day = r.day
        /\ s.quotes = r.quotes /\ s.best = r.best /\ s.bestCost = r.bestCost /\ s.key = k /\ s.got = r.got
    BY <1>0 DEF CallFields
  <2> HIDE DEF s
  <2> QED BY <1>1, <1>0, <2>1, <2>2, ReadsGood
<1>2. ASSUME NEW k, k[1] = "fx", NEW t, Req(c).op = "list", r.pc \in {"new", "use"},
             call' = [call EXCEPT ![c].pc = "get", ![c].key = k, ![c].todo = t]
      PROVE  GoodStep(c)
  <2> DEFINE s == [r EXCEPT !.pc = "get", !.key = k, !.todo = t]
  <2>1. OnlyCall(c) /\ call'[c] = s
    BY <1>2, <1>0 DEF OnlyCall, Calls, CallFields
  <2>2. /\ DOMAIN s = CallFields /\ s.pc = "get"
        /\ s.ask = r.ask /\ s.applied = r.applied /\ s.day = r.day
        /\ s.quotes = r.quotes /\ s.best = r.best /\ s.bestCost = r.bestCost /\ s.key = k /\ s.got = r.got
    BY <1>0 DEF CallFields
  <2> HIDE DEF s
  <2> QED BY <1>2, <1>0, <2>1, <2>2, ReadsGood DEF Classes
<1>3. ASSUME NEW p PROVE FX(p)[1] = "fx"
  BY DEF FX
<1>4. CASE HandleGetRate(c) \/ HandleConvert(c)
  <2> DEFINE k == <<"fx", Req(c).from, Req(c).to>>
  <2>1. k[1] = "fx"
    OBVIOUS
  <2>2. r.pc = "new" /\ Req(c).op \in {"rate", "convert"}
    BY <1>4 DEF HandleGetRate, HandleConvert, Begins
  <2>3. Answer(c, Scale) \/ Reads(c, k)
    BY <1>4 DEF HandleGetRate, HandleConvert
  <2> HIDE DEF k
  <2> QED BY <2>1, <2>2, <2>3, <1>1, EndGood DEF Classes
<1>5. CASE ShowRate(c) \/ ShowConversion(c) \/ ShowFee(c) \/ ShowQuote(c)
  <2>1. Finish(c, FALSE) \/ \E x : Answer(c, x)
    BY <1>5, Zenon DEF ShowRate, ShowConversion, ShowFee, ShowQuote
  <2> QED BY <2>1, EndGood
<1>6. CASE HandleListRates(c)
  BY <1>6, <1>2, <1>3 DEF HandleListRates, Begins
<1>7. CASE NextPair(c)
  <2>1. Req(c).op = "list" /\ r.pc = "use"
    BY <1>7 DEF NextPair, Use, At
  <2>2. (\E x : Answer(c, x)) \/ call' = [call EXCEPT ![c].pc = "get", ![c].key = FX(Head(call[c].todo)), ![c].todo = Tail(call[c].todo)]
    BY <1>7, Zenon DEF NextPair
  <2> QED BY <2>1, <2>2, <1>2, <1>3, EndGood
<1>8. CASE HandleFeeQuote(c)
  <2> DEFINE k == <<"fees", Req(c).tx, Req(c).currency, Req(c).channel>>
  <2>1. k[1] = "fees"
    OBVIOUS
  <2>2. r.pc = "new" /\ Req(c).op = "fee" /\ Reads(c, k)
    BY <1>8 DEF HandleFeeQuote, Begins
  <2> HIDE DEF k
  <2> QED BY <2>1, <2>2, <1>1 DEF Classes
<1>9. CASE HandleInternationalQuote(c)
  <2> DEFINE k == <<"quotes", Req(c).from, Req(c).to, Req(c).cents>>
  <2>1. k[1] = "quotes"
    OBVIOUS
  <2>2. r.pc = "new" /\ Req(c).op = "quote" /\ Reads(c, k)
    BY <1>9 DEF HandleInternationalQuote, Begins
  <2> HIDE DEF k
  <2> QED BY <2>1, <2>2, <1>1 DEF Classes
<1> QED BY <1>4, <1>5, <1>6, <1>7, <1>8, <1>9

\* Providers: an answer is weighed against the best so far.
LEMMA ProvidersGood ==
  ASSUME PolicyInv, NEW c \in Calls,
         AskProviders(c) \/ (\E p \in DOMAIN Corridors : ProviderAnswers(c, p)) \/ KeepQuote(c)
  PROVE  GoodStep(c)
<1> DEFINE r == call[c]
           Kept(s) == /\ DOMAIN s = CallFields /\ s.pc = "quotes" /\ s.ask = r.ask /\ s.applied = r.applied
                      /\ s.day = r.day /\ s.key = r.key /\ s.got = r.got
<1>0. DOMAIN r = CallFields /\ r.ask = Req(c) /\ r.ask = Form[c] /\ RequestOK(c, r, Calls) /\ c \in DOMAIN Form
  BY OfRequest
<1>1. ASSUME r.pc \in {"corridors", "quotes"}, OnlyCall(c), NEW s, call'[c] = s, Kept(s),
             s.quotes = r.quotes, s.best = r.best, s.bestCost = r.bestCost
      PROVE  GoodStep(c)
  <2>1. Placed(s) /\ ProperReads(s) /\ Chosen(s)
    BY <1>1, OfRequest DEF Placed, ProperReads, Chosen
  <2> QED BY <1>1, <2>1, WorkingGood
<1>2. CASE AskProviders(c)
  <2>1. r.pc = "corridors"
    BY <1>2 DEF AskProviders, At
  <2>2. Finish(c, FALSE) \/ \E w : call' = [call EXCEPT ![c].pc = "quotes", ![c].waiting = w]
    BY <1>2, Zenon DEF AskProviders
  <2>3. ASSUME NEW w, call' = [call EXCEPT ![c].pc = "quotes", ![c].waiting = w] PROVE GoodStep(c)
    <3> DEFINE s == [r EXCEPT !.pc = "quotes", !.waiting = w]
    <3>1. OnlyCall(c) /\ call'[c] = s
      BY <2>3, <1>0 DEF OnlyCall, Calls, CallFields
    <3>2. Kept(s) /\ s.quotes = r.quotes /\ s.best = r.best /\ s.bestCost = r.bestCost
      BY <1>0 DEF CallFields
    <3> HIDE DEF s
    <3> QED BY <2>1, <3>1, <3>2, <1>1
  <2> QED BY <2>2, <2>3, EndGood, Zenon
<1>3. ASSUME NEW p \in DOMAIN Corridors, ProviderAnswers(c, p) PROVE GoodStep(c)
  <2>1. r.pc = "quotes" /\ r.ask.cents \in Int /\ r.ask.op = "quote"
    <3>1. r.pc = "quotes"
      BY <1>3 DEF ProviderAnswers, At
    <3>2. r.ask.op = "quote"
      BY <3>1, OfRequest DEF Placed
    <3> QED BY <1>0, <3>1, <3>2, FormAssumption
  <2>2. ASSUME call' = [call EXCEPT ![c].waiting = @ \ {p}] PROVE GoodStep(c)
    <3> DEFINE s == [r EXCEPT !.waiting = r.waiting \ {p}]
    <3>1. OnlyCall(c) /\ call'[c] = s
      BY <2>1, <2>2, <1>0 DEF OnlyCall, Calls, CallFields
    <3>2. Kept(s) /\ s.quotes = r.quotes /\ s.best = r.best /\ s.bestCost = r.bestCost
      BY <2>1, <1>0 DEF CallFields
    <3> HIDE DEF s
    <3> QED BY <2>1, <3>1, <3>2, <1>1
  <2>3. ASSUME NEW target \in Targets[p], NEW quote, quote = [provider |-> p, target |-> target],
               NEW cost, cost = r.ask.cents - target, OnlyCall(c), NEW s, call'[c] = s, Kept(s),
               s.quotes = r.quotes \cup {quote},
               \/ (r.bestCost < 0 \/ cost < r.bestCost) /\ s.best = {quote} /\ s.bestCost = cost
               \/ ~(r.bestCost < 0 \/ cost < r.bestCost) /\ s.best = r.best /\ s.bestCost = r.bestCost
        PROVE  GoodStep(c)
    <3>3. Placed(s) /\ ProperReads(s) /\ Chosen(s) /\ Dated(s)
      BY <2>3, <2>1, <1>0, OfRequest DEF Placed, ProperReads, Chosen, Dated, RequestOK
    <3>4. Weighed(s)
      <4>1. quote.target = target /\ target \in Int /\ cost = r.ask.cents - target
        BY <2>3, OpeningTablesAssumption
      <4>2. Weighed(r)
        BY <1>0 DEF RequestOK
      <4>3. r.bestCost \in Int
        BY <4>2, <2>1 DEF Weighed
      <4>4. \A q \in s.quotes : q.target \in Int
        BY <4>1, <4>2, <2>3 DEF Weighed
      <4>5. \E b \in s.quotes : s.best = {b} /\ s.bestCost = s.ask.cents - b.target
        <5>1. CASE s.best = {quote} /\ s.bestCost = cost
          BY <5>1, <4>1, <2>3
        <5>2. CASE ~(r.bestCost < 0 \/ cost < r.bestCost) /\ s.best = r.best /\ s.bestCost = r.bestCost
          <6>1. r.quotes # {}
            BY <5>2, <4>2 DEF Weighed
          <6> QED BY <6>1, <5>2, <4>2, <2>3 DEF Weighed
        <5> QED BY <5>1, <5>2, <2>3
      <4>6. ASSUME \A q \in s.quotes : q.target <= s.ask.cents, NEW q \in s.quotes
            PROVE  s.bestCost <= s.ask.cents - q.target
        <5>1. \A x \in r.quotes : x.target <= r.ask.cents /\ x.target \in Int /\ r.bestCost <= r.ask.cents - x.target
          BY <4>6, <4>2, <2>3 DEF Weighed
        <5>2. r.quotes # {} => r.bestCost >= 0
          BY <5>1, <4>2, <2>1 DEF Weighed
        <5>3. s.bestCost <= cost
          BY <4>1, <4>3, <2>1, <2>3
        <5>4. q \in r.quotes => s.bestCost <= r.bestCost
          BY <5>2, <4>1, <4>3, <2>1, <2>3
        <5>5. s.bestCost \in Int /\ s.ask = r.ask
          BY <4>1, <4>3, <2>1, <2>3
        <5>6. q.target \in Int
          BY <4>4
        <5>7. CASE q \in r.quotes
          BY <5>1, <5>4, <5>5, <5>6, <5>7, <4>3, <2>1
        <5>8. CASE q = quote
          BY <5>3, <5>5, <5>8, <4>1
        <5> QED BY <5>7, <5>8, <2>3
      <4>7. s.quotes # {} /\ s.ask.cents \in Int
        BY <2>3, <2>1
      <4> QED BY <4>4, <4>5, <4>6, <4>7 DEF Weighed
    <3>5. RequestOK(c, s, Calls)
      BY <2>3, <3>3, <3>4, <1>0 DEF RequestOK
    <3> QED BY <2>3, <3>5 DEF GoodStep
  <2>4. ASSUME NEW target \in Targets[p], NEW quote, quote = [provider |-> p, target |-> target],
               NEW cost, cost = r.ask.cents - target,
               call' = [call EXCEPT ![c].waiting = @ \ {p}, ![c].quotes = @ \cup {quote},
                          ![c].best = IF r.bestCost < 0 \/ cost < r.bestCost THEN {quote} ELSE @,
                          ![c].bestCost = IF r.bestCost < 0 \/ cost < r.bestCost THEN cost ELSE @]
        PROVE  GoodStep(c)
    <3> DEFINE s == [r EXCEPT !.waiting = @ \ {p}, !.quotes = @ \cup {quote},
                          !.best = IF r.bestCost < 0 \/ cost < r.bestCost THEN {quote} ELSE @,
                          !.bestCost = IF r.bestCost < 0 \/ cost < r.bestCost THEN cost ELSE @]
    <3>1. OnlyCall(c) /\ call'[c] = s
      BY <2>4, <1>0 DEF OnlyCall, Calls, CallFields
    <3>2. Kept(s) /\ s.quotes = r.quotes \cup {quote}
      BY <2>1, <1>0 DEF CallFields
    <3>3. \/ (r.bestCost < 0 \/ cost < r.bestCost) /\ s.best = {quote} /\ s.bestCost = cost
          \/ ~(r.bestCost < 0 \/ cost < r.bestCost) /\ s.best = r.best /\ s.bestCost = r.bestCost
      BY <1>0 DEF CallFields
    <3>4. quote = [provider |-> p, target |-> target] /\ cost = r.ask.cents - target
      BY <2>4
    <3> HIDE DEF s, Kept
    <3> QED BY <3>1, <3>2, <3>3, <3>4, <2>3
  <2>5. CASE \E target \in Targets[p] :
               call' = [call EXCEPT ![c].waiting = @ \ {p}, ![c].quotes = @ \cup {[provider |-> p, target |-> target]},
                          ![c].best = IF r.bestCost < 0 \/ r.ask.cents - target < r.bestCost THEN {[provider |-> p, target |-> target]} ELSE @,
                          ![c].bestCost = IF r.bestCost < 0 \/ r.ask.cents - target < r.bestCost THEN r.ask.cents - target ELSE @]
    BY <2>5, <2>4, Zenon
  <2> QED BY <1>3, <2>2, <2>5, Zenon DEF ProviderAnswers, Req
<1>4. CASE KeepQuote(c)
  <2>1. r.pc = "quotes" /\ r.key[1] = "quotes"
    BY <1>4, OfRequest DEF KeepQuote, At, Placed
  <2>2. Proper(r.key, r.best)
    BY <2>1 DEF Proper
  <2> QED BY <2>1, <2>2, <1>4, GotGood, EndGood DEF KeepQuote
<1> QED BY <1>2, <1>3, <1>4

\* The most specific rule: the order of MatchPriority, with its tie between
\* account types and KYC levels, is the order of the scopes.
LEMMA PriorityIsRank ==
  ASSUME NEW rules, NEW user, NEW currency, NEW rule \in Effective(rules, user, currency),
         NEW x \in rules, MatchPriority(x, user, currency) >= 0
  PROVE  Rank[x.scope] <= Rank[rule.scope]
<1> DEFINE m(y) == MatchPriority(y, user, currency)
           Fits(y) == \/ y.scope = "currency" /\ m(y) = 4
                      \/ y.scope = "account_type" /\ m(y) \in {2, 3}
                      \/ y.scope = "kyc_level" /\ m(y) = 2
                      \/ y.scope = "global" /\ m(y) = 1
<1>1. ASSUME NEW y, m(y) >= 0 PROVE Fits(y)
  BY <1>1 DEF MatchPriority
<1>2. rule \in rules /\ m(rule) >= 0 /\ m(x) <= m(rule)
  BY DEF Effective
<1>3. Fits(rule) /\ Fits(x)
  BY <1>1, <1>2
<1>4. rule.scope = "account_type" \/ x.scope # "account_type" \/ m(x) # m(rule)
  <2> SUFFICES ASSUME rule.scope # "account_type", x.scope = "account_type", m(x) = m(rule) PROVE FALSE
    OBVIOUS
  <2>1. \A o \in rules : m(o) <= m(rule)
    BY DEF Effective
  <2>2. x \in {y \in rules : m(y) >= 0 /\ \A o \in rules : m(o) <= m(y)}
    BY <2>1
  <2> QED BY <2>2 DEF Effective
<1> HIDE DEF m
<1>5. \A y : Fits(y) => Rank[y.scope] = (IF y.scope = "currency" THEN 4 ELSE IF y.scope = "account_type" THEN 3
                                        ELSE IF y.scope = "kyc_level" THEN 2 ELSE 1)
  BY DEF Rank
<1> QED BY <1>2, <1>3, <1>4, <1>5

LEMMA NextStageGood ==
  ASSUME PolicyInv, NEW c \in Calls, Req(c).op = "transfer", call[c].pc \in {"check", "use"},
         NEW applied, \A a \in applied : Passed(c, a, Calls), NextStage(c, applied)
  PROVE  GoodStep(c)
<1> DEFINE r == call[c]
           s == [r EXCEPT !.pc = "check", !.stage = @ + 1, !.got = <<>>, !.applied = @ \cup applied]
<1>0. DOMAIN r = CallFields /\ RequestOK(c, r, Calls) /\ r.ask = Req(c)
  BY OfRequest
<1>1. OnlyCall(c) /\ call'[c] = s
  BY <1>0 DEF OnlyCall, Calls, CallFields, NextStage
<1>2. /\ DOMAIN s = CallFields /\ s.pc = "check" /\ s.ask = r.ask /\ s.applied = r.applied \cup applied /\ s.day = r.day
      /\ s.quotes = r.quotes /\ s.best = r.best /\ s.bestCost = r.bestCost /\ s.got = <<>>
  BY <1>0 DEF CallFields
<1> HIDE DEF s
<1>3. Placed(s) /\ Dated(s) /\ ProperReads(s) /\ Chosen(s)
  BY <1>0, <1>2 DEF Placed, Dated, ProperReads, Chosen, RequestOK
<1>4. Weighed(s)
  BY <1>0, <1>2 DEF Weighed, RequestOK
<1>5. RequestOK(c, s, Calls)
  BY <1>0, <1>2, <1>3, <1>4 DEF RequestOK
<1> QED BY <1>1, <1>2, <1>5 DEF GoodStep

\* The sum over what is counted is a number.
LEMMA CentsFacts ==
  ASSUME NEW ds, IsFiniteSet(ds), \A d \in ds : Form[d].cents \in Int
  PROVE  /\ CentsOf(ds) \in Int
         /\ \A c : c \notin ds /\ Form[c].cents \in Int => CentsOf(ds \cup {c}) = CentsOf(ds) + Form[c].cents
<1> DEFINE f(S) == [d \in S |-> Form[d].cents]
<1>1. CentsOf(ds) \in Int
  BY SumType DEF CentsOf
<1>2. ASSUME NEW c, c \notin ds, Form[c].cents \in Int
      PROVE  CentsOf(ds \cup {c}) = CentsOf(ds) + Form[c].cents
  <2> DEFINE g == f(ds \cup {c})
  <2>1. SumFunctionOnSet(g, ds \cup {c}) = SumFunctionOnSet(g, ds) + g[c]
    <3>1. \A x \in ds \cup {c} : g[x] \in Int
      BY <1>2
    <3> HIDE DEF g
    <3> QED BY <3>1, <1>2, SumAdd
  <2>2. SumFunctionOnSet(g, ds) = SumFunctionOnSet(f(ds), ds)
    <3>1. \A x \in ds : g[x] \in Int /\ g[x] = f(ds)[x]
      OBVIOUS
    <3> HIDE DEF g, f
    <3> QED BY <3>1, SumSame
  <2>3. g[c] = Form[c].cents
    OBVIOUS
  <2> QED BY <2>1, <2>2, <2>3 DEF CentsOf
<1> QED BY <1>1, <1>2

LEMMA CountedFacts ==
  ASSUME PolicyInv, NEW user, NEW currency, NEW direction, NEW day \in Nat
  PROVE  LET ds == CountedOn(user, currency, direction, day)
         IN IsFiniteSet(ds) /\ \A d \in ds : Form[d].cents \in Int
<1>1. IsFiniteSet(Calls)
  BY ReferenceAssumption DEF PolicyInv
<1>2. IsFiniteSet(CountedOn(user, currency, direction, day))
  BY <1>1, FS_Subset DEF CountedOn
<1>3. ASSUME NEW d \in Calls, call[d].day = day PROVE Form[d].cents \in Int
  <2>1. Form[d].op = "transfer" /\ d \in DOMAIN Form
    BY <1>3, OfRequest DEF RequestOK, Dated
  <2> QED BY <2>1, FormAssumption
<1> QED BY <1>2, <1>3 DEF CountedOn

\* What a transfer reads of the day's total covers all that was counted.
LEMMA DailyTotalCovers ==
  ASSUME PolicyInv, NEW user, NEW currency, NEW direction, NEW used \in GetDailyTotal(user, currency, direction)
  PROVE  used \in Int /\ (used > 0 => CentsOf(CountedOn(user, currency, direction, now)) <= used)
<1> DEFINE line == <<user, currency, direction, now>>
           S == {d \in {now} : line \in DOMAIN db.totals}
           f == [d \in S |-> db.totals[<<user, currency, direction, d>>]]
<1>0. now \in Nat
  BY DEF PolicyInv
<1>2. Total(user, currency, direction, {now}) = SumFunctionOnSet(f, S)
  <2>1. {d \in {now} : <<user, currency, direction, d>> \in DOMAIN db.totals} = S
    OBVIOUS
  <2> QED BY <2>1 DEF Total, SumOf
<1>3. CASE line \in DOMAIN db.totals
  <2>1. S = {now} /\ f[now] = db.totals[line] /\ db.totals[line] \in Int
    BY <1>3 DEF PolicyInv, TablesOK
  <2>2. IsFiniteSet(S)
    <3>1. IsFiniteSet({now})
      BY FS_Singleton
    <3> HIDE DEF S
    <3> QED BY <2>1, <3>1
  <2>3. SumFunctionOnSet(f, S) = f[now]
    <3> HIDE DEF f, S
    <3>1. now \in S /\ f[now] \in Int /\ \A x \in S \ {now} : f[x] = 0
      BY <2>1
    <3> QED BY <3>1, <2>2, SumSingle
  <2>4. CentsOf(CountedOn(user, currency, direction, now)) <= db.totals[line]
    BY <1>0, <1>3 DEF PolicyInv, TotalsCover
  <2> QED BY <1>2, <2>1, <2>3, <2>4 DEF GetDailyTotal
<1>4. CASE line \notin DOMAIN db.totals
  <2>1. S = {}
    BY <1>4
  <2>2. SumFunctionOnSet(f, S) = 0
    <3> HIDE DEF f, S
    <3> QED BY <2>1, SumEmpty
  <2> QED BY <1>2, <2>2 DEF GetDailyTotal
<1> QED BY <1>3, <1>4

\* Judge passes a transfer under the most specific rule it has read, on top of
\* what was counted.
LEMMA JudgeGood ==
  ASSUME PolicyInv, NEW c \in Calls, Req(c).op = "transfer", call[c].pc = "use",
         StageKey(call[c]) \in DOMAIN call[c].got, NEW rule \in Candidates(call[c]),
         NEW used, NEW cents, call[c].stage = 1 => used \in Used(Req(c), 1) /\ cents = Req(c).cents,
         Judge(c, rule, used, cents)
  PROVE  GoodStep(c)
<1> DEFINE r == call[c]
           rules == r.got[StageKey(r)]
           seen == CountedOn(Req(c).user, Req(c).currency, Req(c).direction, now)
           a == [stage |-> r.stage, rule |-> rule, rules |-> rules, used |-> used, day |-> now, seen |-> seen]
<1>0. RequestOK(c, r, Calls) /\ r.ask = Form[c] /\ Req(c) = Form[c] /\ c \in DOMAIN Form /\ now \in Nat
  BY OfRequest DEF PolicyInv
<1>1. {d \in Calls : call[d].day = now /\ <<Req(d).user, Req(d).currency, Req(d).direction, now>>
                                          = <<Req(c).user, Req(c).currency, Req(c).direction, now>>} = seen
  BY DEF CountedOn
<1>2. SUFFICES ASSUME ~(used + cents > rule.value /\ (r.stage = 6 => Req(c).purpose = "general")), NextStage(c, {a})
               PROVE  GoodStep(c)
  BY <1>1, EndGood DEF Judge, StageKey
<1>3. \A x \in rules : MatchPriority(x, Form[c].user, RuleCurrency(Form[c], r.stage)) >= 0 => Rank[x.scope] <= Rank[rule.scope]
  BY <1>0, PriorityIsRank DEF Candidates
<1>4. rule.value \in Int
  <2>1. rule \in rules
    BY DEF Candidates, Effective
  <2>2. Proper(StageKey(r), rules)
    BY <1>0 DEF RequestOK, ProperReads
  <2>3. StageKey(r)[1] = "rules"
    BY DEF StageKey
  <2> QED BY <2>1, <2>2, <2>3 DEF Proper
<1>5. ASSUME r.stage = 1, used > 0 PROVE CentsOf(seen \cup {c}) <= rule.value
  <2>1. used \in GetDailyTotal(Req(c).user, Req(c).currency, Req(c).direction)
    BY <1>5 DEF Used
  <2>2. used \in Int /\ CentsOf(seen) <= used
    BY <2>1, <1>5, DailyTotalCovers
  <2>3. c \notin seen
    BY <1>0 DEF CountedOn, RequestOK, Dated
  <2>4. IsFiniteSet(seen) /\ \A d \in seen : Form[d].cents \in Int
    BY <1>0, CountedFacts
  <2>5. Form[c].cents \in Int
    BY <1>0, FormAssumption
  <2>6. CentsOf(seen) \in Int /\ CentsOf(seen \cup {c}) = CentsOf(seen) + Form[c].cents
    BY <2>3, <2>4, <2>5, CentsFacts
  <2>7. ~(used + Form[c].cents > rule.value)
    BY <1>0, <1>2, <1>5
  <2> HIDE DEF seen
  <2> QED BY <2>2, <2>5, <2>6, <2>7, <1>4
<1>6. Passed(c, a, Calls)
  <2>1. a.stage = r.stage /\ a.rule = rule /\ a.rules = rules /\ a.used = used /\ a.seen = seen
    OBVIOUS
  <2>2. seen \subseteq Calls
    BY DEF CountedOn
  <2> HIDE DEF a, seen, rules
  <2> QED BY <2>1, <2>2, <1>3, <1>5 DEF Passed
<1> HIDE DEF a
<1> QED BY <1>2, <1>6, NextStageGood

\* The check of a transfer, up to the payment.
LEMMA TransfersGood ==
  ASSUME PolicyInv, NEW c \in Calls,
         HandleTransfer(c) \/ CheckTransferAllowed(c) \/ JudgeRule(c) \/ JudgeRate(c)
  PROVE  GoodStep(c)
<1> DEFINE r == call[c]
<1>0. DOMAIN r = CallFields /\ r.ask = Req(c)
  BY OfRequest
<1>1. ASSUME r.pc \in {"new", "check"}, Req(c).op = "transfer", NEW step \in {"check", "settle"}, Moves(c, step)
      PROVE  GoodStep(c)
  <2> DEFINE s == [r EXCEPT !.pc = step]
  <2>1. OnlyCall(c) /\ call'[c] = s
    BY <1>1, <1>0, Updates
  <2>2. /\ DOMAIN s = CallFields /\ s.pc = step
        /\ s.ask = r.ask /\ s.applied = r.applied /\ s.day = r.day
        /\ s.quotes = r.quotes /\ s.best = r.best /\ s.bestCost = r.bestCost /\ s.got = r.got
    BY <1>0 DEF CallFields
  <2> HIDE DEF s
  <2>3. Placed(s) /\ ProperReads(s) /\ Chosen(s)
    BY <2>2, <1>0, <1>1, OfRequest DEF Placed, ProperReads, Chosen
  <2> QED BY <1>1, <2>1, <2>2, <2>3, WorkingGood
<1>2. CASE HandleTransfer(c)
  BY <1>1, <1>2 DEF HandleTransfer, Begins
<1>3. CASE CheckTransferAllowed(c)
  <2>1. r.pc = "check" /\ Req(c).op = "transfer"
    BY <1>3, <1>0, OfRequest DEF CheckTransferAllowed, At, Placed
  <2>2. ASSUME Reads(c, StageKey(r)) PROVE GoodStep(c)
    <3> DEFINE k == StageKey(r)
               s == [r EXCEPT !.pc = "get", !.key = k]
    <3>1. OnlyCall(c) /\ call'[c] = s
      BY <2>2, <1>0, Updates
    <3>2. /\ DOMAIN s = CallFields /\ s.pc = "get"
          /\ s.ask = r.ask /\ s.applied = r.applied /\ s.day = r.day /\ s.stage = r.stage
          /\ s.quotes = r.quotes /\ s.best = r.best /\ s.bestCost = r.bestCost /\ s.key = k /\ s.got = r.got
      BY <1>0 DEF CallFields
    <3>3. k[1] = "rules"
      BY DEF StageKey
    <3> HIDE DEF s, k
    <3>4. s.key = StageKey(s)
      BY <3>2 DEF StageKey, k
    <3> QED BY <2>1, <3>1, <3>2, <3>3, <3>4, <1>0, ReadsGood DEF Classes
  <2>3. ASSUME NextStage(c, {}) PROVE GoodStep(c)
    BY <2>1, <2>3, NextStageGood
  <2>4. Moves(c, "settle") \/ NextStage(c, {}) \/ Finish(c, FALSE) \/ Reads(c, StageKey(r))
    BY <1>3 DEF CheckTransferAllowed, StageKey
  <2> QED BY <2>1, <2>2, <2>3, <2>4, <1>1, EndGood
<1>4. CASE JudgeRule(c)
  <2>1. r.pc = "use" /\ Req(c).op = "transfer" /\ r.key = StageKey(r)
    BY <1>4, <1>0, OfRequest DEF JudgeRule, Use, At, Chosen
  <2> DEFINE found == Effective(Value(c), Req(c).user, RuleCurrency(Req(c), r.stage))
  <2>2. ASSUME NextStage(c, {}) PROVE GoodStep(c)
    BY <2>1, <2>2, NextStageGood
  <2>3. found = Candidates(r) /\ StageKey(r) \in DOMAIN r.got
    BY <2>1, <1>0, OfRequest DEF Value, Candidates, ProperReads
  <2> HIDE DEF found
  <2>4. ASSUME NEW rule \in found, NEW used \in Used(Req(c), r.stage), Judge(c, rule, used, Req(c).cents)
        PROVE  GoodStep(c)
    BY <2>1, <2>4, <2>3, JudgeGood
  <2>5. ASSUME NEW rule \in found, NEW used, r.stage # 1,
               call' = [call EXCEPT ![c].pc = "get", ![c].key = <<"fx", Req(c).currency, "USD">>, ![c].row = <<rule, used>>]
        PROVE  GoodStep(c)
    <3> DEFINE k == <<"fx", Req(c).currency, "USD">>
               s == [r EXCEPT !.pc = "get", !.key = k, !.row = <<rule, used>>]
    <3>1. OnlyCall(c) /\ call'[c] = s
      BY <2>5, <1>0 DEF OnlyCall, Calls, CallFields
    <3>2. /\ DOMAIN s = CallFields /\ s.pc = "get"
          /\ s.ask = r.ask /\ s.applied = r.applied /\ s.day = r.day /\ s.stage = r.stage /\ s.row[1] = rule
          /\ s.quotes = r.quotes /\ s.best = r.best /\ s.bestCost = r.bestCost /\ s.key[1] = "fx" /\ s.got = r.got
      BY <1>0 DEF CallFields
    <3> HIDE DEF s
    <3>3. Placed(s) /\ ProperReads(s)
      BY <3>2, OfRequest DEF Placed, ProperReads, Classes
    <3>4. Chosen(s)
      BY <3>2, <2>5, <2>3 DEF Chosen, StageKey, Candidates
    <3> QED BY <2>1, <3>1, <3>2, <3>3, <3>4, WorkingGood
  <2>6. \/ Finish(c, FALSE) \/ NextStage(c, {})
        \/ \E rule \in found : \/ \E used \in Used(Req(c), r.stage) : Judge(c, rule, used, Req(c).cents)
                               \/ /\ r.stage # 1
                                  /\ \E used \in Used(Req(c), r.stage) :
                                       call' = [call EXCEPT ![c].pc = "get", ![c].key = <<"fx", Req(c).currency, "USD">>, ![c].row = <<rule, used>>]
    BY <1>4, Zenon DEF JudgeRule, found
  <2> QED BY <2>2, <2>4, <2>5, <2>6, EndGood, Zenon
<1>5. CASE JudgeRate(c)
  <2>1. /\ r.pc = "use" /\ Req(c).op = "transfer" /\ r.key[1] = "fx"
    BY <1>5 DEF JudgeRate, Use, At
  <2>2. r.key # StageKey(r)
    BY <2>1 DEF StageKey
  <2>3. r.stage # 1 /\ StageKey(r) \in DOMAIN r.got /\ r.row[1] \in Candidates(r)
    BY <2>1, <2>2, <1>0, OfRequest DEF Chosen
  <2>4. ASSUME NEW mid, Judge(c, r.row[1], r.row[2], ConvertToUSD(Req(c).cents, mid))
        PROVE  GoodStep(c)
    BY <2>1, <2>3, <2>4, JudgeGood
  <2> QED BY <1>5, <2>4, EndGood DEF JudgeRate
<1> QED BY <1>2, <1>3, <1>4, <1>5

\* The writers: they go on to tell the cache, or end.
LEMMA WritersGood ==
  ASSUME PolicyInv, NEW c \in Calls,
         \/ HandleOverride(c) \/ HandleRefresh(c) \/ InsertFetched(c) \/ HandleCleanup(c)
         \/ HandleCreateRule(c) \/ HandleUpdateRule(c) \/ WriteRule(c)
         \/ HandleCreateFee(c) \/ HandleUpdateFee(c) \/ HandleDeactivateFee(c) \/ Invalidate(c) \/ WorkerDies(c)
  PROVE  GoodStep(c)
<1> DEFINE r == call[c]
           Kept(s) == /\ DOMAIN s = CallFields /\ s.ask = r.ask /\ s.applied = r.applied /\ s.day = r.day
                      /\ s.quotes = r.quotes /\ s.best = r.best /\ s.bestCost = r.bestCost /\ s.got = r.got
<1>0. DOMAIN r = CallFields /\ r.ask = Req(c) /\ Req(c) = Form[c] /\ c \in DOMAIN Form
  BY OfRequest
<1>1. ASSUME NEW s, r.pc \notin {"done", "failed"}, OnlyCall(c), call'[c] = s, Kept(s), s.pc \in {"insert", "writeRule", "invalidate"}, Placed(s)
      PROVE  GoodStep(c)
  <2>1. ProperReads(s) /\ Chosen(s)
    BY <1>1, OfRequest DEF ProperReads, Chosen
  <2> QED BY <1>1, <2>1, WorkingGood
<1>2. ASSUME r.pc \notin {"done", "failed"}, Moves(c, "invalidate") PROVE GoodStep(c)
  <2> DEFINE s == [r EXCEPT !.pc = "invalidate"]
  <2>1. OnlyCall(c) /\ call'[c] = s
    BY <1>2, <1>0, Updates
  <2>2. Kept(s) /\ s.pc = "invalidate"
    BY <1>0 DEF CallFields
  <2> HIDE DEF s
  <2>3. Placed(s)
    BY <2>2 DEF Placed
  <2> QED BY <1>1, <1>2, <2>1, <2>2, <2>3
<1>3. ASSUME NEW table, NEW rows, Writes(c, table, rows), r.pc \notin {"done", "failed"} PROVE GoodStep(c)
  BY <1>2, <1>3 DEF Writes
<1>4. ASSUME Fails(c) PROVE GoodStep(c)
  BY <1>4, EndGood DEF Fails
<1>5. CASE HandleOverride(c)
  BY <1>3, <1>4, <1>5 DEF HandleOverride, Begins
<1>6. CASE HandleRefresh(c)
  <2>1. r.pc = "new" /\ Req(c).op = "refresh"
    BY <1>6 DEF HandleRefresh, Begins
  <2>2. Finish(c, FALSE) \/ \E t : call' = [call EXCEPT ![c].pc = "insert", ![c].todo = t]
    BY <1>6, Zenon DEF HandleRefresh, Refresh
  <2>3. ASSUME NEW t, call' = [call EXCEPT ![c].pc = "insert", ![c].todo = t] PROVE GoodStep(c)
    <3> DEFINE s == [r EXCEPT !.pc = "insert", !.todo = t]
    <3>1. OnlyCall(c) /\ call'[c] = s
      BY <2>3, <1>0 DEF OnlyCall, Calls, CallFields
    <3>2. Kept(s) /\ s.pc = "insert"
      BY <1>0 DEF CallFields
    <3> HIDE DEF s
    <3>3. Placed(s)
      BY <3>2, <2>1, <1>0 DEF Placed
    <3> QED BY <1>1, <2>1, <3>1, <3>2, <3>3
  <2> QED BY <2>2, <2>3, EndGood, Zenon
<1>7. CASE InsertFetched(c)
  <2>1. r.pc = "insert" /\ r.ask.op = "refresh"
    BY <1>7, OfRequest DEF InsertFetched, At, Placed
  <2>2. Moves(c, "invalidate") \/ call' = [call EXCEPT ![c].todo = Tail(call[c].todo)]
    BY <1>7, Zenon DEF InsertFetched
  <2>3. ASSUME NEW t, call' = [call EXCEPT ![c].todo = t] PROVE GoodStep(c)
    <3> DEFINE s == [r EXCEPT !.todo = t]
    <3>1. OnlyCall(c) /\ call'[c] = s
      BY <2>3, <1>0 DEF OnlyCall, Calls, CallFields
    <3>2. Kept(s) /\ s.pc = "insert"
      BY <2>1, <1>0 DEF CallFields
    <3> HIDE DEF s
    <3>3. Placed(s)
      BY <3>2, <2>1, <1>0 DEF Placed
    <3> QED BY <1>1, <2>1, <3>1, <3>2, <3>3
  <2> QED BY <2>1, <2>2, <2>3, <1>2
<1>8. CASE HandleCleanup(c)
  BY <1>8, EndGood DEF HandleCleanup
<1>9. CASE HandleCreateRule(c)
  BY <1>3, <1>4, <1>9 DEF HandleCreateRule, Begins
<1>10. CASE HandleUpdateRule(c)
  <2>1. r.pc = "new" /\ Req(c).op = "updateRule"
    BY <1>10 DEF HandleUpdateRule, Begins
  <2>2. CASE Req(c).id \notin DOMAIN db.rules
    BY <1>10, <2>2, EndGood DEF HandleUpdateRule
  <2>3. CASE Req(c).id \in DOMAIN db.rules
    <3> DEFINE line == db.rules[Req(c).id]
               merged == [line EXCEPT !.value = IF Req(c).value = {} THEN @ ELSE CHOOSE v \in Req(c).value : TRUE,
                                     !.to = IF Req(c).ends = {} THEN @ ELSE {now + d : d \in Req(c).ends}]
               s == [r EXCEPT !.pc = "writeRule", !.row = <<merged>>]
    <3>1. call' = [call EXCEPT ![c].pc = "writeRule", ![c].row = <<merged>>]
      BY <1>10, <2>3 DEF HandleUpdateRule
    <3>2. "value" \in DOMAIN line /\ line.value \in Int /\ Req(c).value \subseteq Int
      BY <1>0, <2>1, <2>3, FormAssumption DEF PolicyInv, TablesOK
    <3>3. merged.value \in Int
      BY <3>2
    <3> HIDE DEF merged
    <3>4. OnlyCall(c) /\ call'[c] = s
      BY <3>1, <1>0 DEF OnlyCall, Calls, CallFields
    <3>5. Kept(s) /\ s.pc = "writeRule" /\ s.row[1] = merged
      BY <1>0 DEF CallFields
    <3> HIDE DEF s
    <3>6. Placed(s)
      BY <3>5, <3>3, <2>1, <1>0 DEF Placed
    <3> QED BY <1>1, <2>1, <3>4, <3>5, <3>6
  <2> QED BY <2>2, <2>3
<1>11. CASE WriteRule(c)
  BY <1>3, <1>4, <1>11 DEF WriteRule, At
<1>12. CASE HandleCreateFee(c) \/ HandleUpdateFee(c) \/ HandleDeactivateFee(c)
  BY <1>3, <1>4, <1>12 DEF HandleCreateFee, HandleUpdateFee, HandleDeactivateFee, Begins
<1>13. CASE Invalidate(c) \/ WorkerDies(c)
  BY <1>13, EndGood DEF Invalidate, WorkerDies
<1> QED BY <1>5, <1>6, <1>7, <1>8, <1>9, <1>10, <1>11, <1>12, <1>13

\* Somebody has written the table behind k and has yet to tell the cache.
Owing(k) == \E c \in Calls : Unsaid(c) /\ k[1] = Class(Req(c).op)
\* The cache has lost entries, and the entries ks are excused.
Thinned(ks) ==
  /\ DOMAIN cache' \subseteq DOMAIN cache
  /\ \A k \in DOMAIN cache' : /\ DOMAIN cache'[k] = {"val", "ttl", "excuse"} /\ cache'[k].val = cache[k].val
                              /\ cache'[k].excuse \in BOOLEAN
                              /\ cache[k].excuse \/ k \in ks => cache'[k].excuse

LEMMA ThinnedKeeps ==
  ASSUME PolicyInv, NEW ks, Thinned(ks),
         \A k \in DOMAIN cache' : k \in ks \/ k[1] = "quotes" \/ Fresh(k)' = Fresh(k) \/ Owing(k)',
         \A k \in DOMAIN cache' : k \in ks \/ (Owing(k) => Owing(k)')
  PROVE  CacheOK' /\ StaleForAReason'
<1>1. CacheOK'
  BY DEF PolicyInv, CacheOK, Thinned
<1>2. ASSUME NEW k \in DOMAIN cache', Stale(k)', k \notin ks PROVE cache'[k].excuse \/ Owing(k)'
  <2>1. k[1] # "quotes" /\ cache'[k].val # Fresh(k)'
    BY <1>2 DEF Stale
  <2>2. SUFFICES ASSUME Fresh(k)' = Fresh(k) PROVE cache'[k].excuse \/ Owing(k)'
    BY <2>1, <1>2
  <2>3. Stale(k)
    BY <2>1, <2>2 DEF Stale, Thinned
  <2>4. cache[k].excuse \/ Owing(k)
    BY <2>3 DEF PolicyInv, StaleForAReason, Owing, Thinned
  <2> QED BY <2>4, <1>2 DEF Thinned
<1>3. ASSUME NEW k \in DOMAIN cache', Stale(k)' PROVE cache'[k].excuse \/ Owing(k)'
  BY <1>2, <1>3 DEF Thinned
<1>4. StaleForAReason'
  BY <1>3 DEF StaleForAReason, Owing
<1> QED BY <1>1, <1>4

LEMMA FreshKept ==
  ASSUME NEW k, k[1] \in Classes \ {"quotes"}, now' = now, k[1] = "fx" => db'.rates = db.rates,
         k[1] = "rules" => db'.rules = db.rules, k[1] = "fees" => db'.fees = db.fees
  PROVE  Fresh(k)' = Fresh(k)
<1>1. CASE k[1] = "fx"
  BY <1>1 DEF Fresh, OnDay, GetLatest
<1>2. CASE k[1] = "rules"
  BY <1>2 DEF Fresh, OnDay, ListEffectiveByKey
<1>3. CASE k[1] = "fees"
  BY <1>3 DEF Fresh, OnDay, FindMatching
<1> QED BY <1>1, <1>2, <1>3 DEF Classes

\* What is left to show of a step of c that counts nothing.
LEMMA GoodKeeps ==
  ASSUME PolicyInv, NEW c \in Calls, GoodStep(c)
  PROVE  /\ Calls' = Calls /\ RequestsOK'
         /\ \A d \in Calls : call'[d].day = call[d].day /\ call'[d].ask = call[d].ask
<1>1. Calls' = Calls
  BY DEF GoodStep, OnlyCall, Calls
<1>2. RequestsOK'
  BY <1>1 DEF GoodStep, OnlyCall, RequestsOK, PolicyInv
<1>3. \A d \in Calls : call'[d].day = call[d].day /\ call'[d].ask = call[d].ask
  BY DEF GoodStep, OnlyCall, PolicyInv, RequestsOK, RequestOK
<1> QED BY <1>1, <1>2, <1>3

LEMMA TotalsKept ==
  ASSUME PolicyInv, Calls' = Calls, \A d \in Calls : call'[d].day = call[d].day /\ call'[d].ask = call[d].ask,
         db'.totals = db.totals
  PROVE  TotalsCover'
<1>1. ASSUME NEW u, NEW cur, NEW dir, NEW day PROVE CountedOn(u, cur, dir, day)' = CountedOn(u, cur, dir, day)
  BY DEF CountedOn, Req
<1> QED BY <1>1 DEF PolicyInv, TotalsCover

LEMMA StepKeeps ==
  ASSUME PolicyInv, NEW c \in Calls, GoodStep(c), now' = now, db'.totals = db.totals, TablesOK', CacheOK', StaleForAReason'
  PROVE  PolicyInv'
<1>1. TotalsCover'
  BY GoodKeeps, TotalsKept
<1> QED BY <1>1, GoodKeeps DEF PolicyInv

\* A step that leaves the tables and the cache alone.
LEMMA QuietKeeps ==
  ASSUME PolicyInv, NEW c \in Calls, GoodStep(c), UNCHANGED <<db, cache, now>>, Unsaid(c) => Unsaid(c)'
  PROVE  PolicyInv'
<1>1. Thinned({})
  BY DEF Thinned, PolicyInv, CacheOK
<1>2. ASSUME NEW k \in DOMAIN cache', k[1] # "quotes" PROVE Fresh(k)' = Fresh(k)
  BY <1>2, FreshKept DEF PolicyInv, CacheOK
<1>3. ASSUME NEW k, Owing(k) PROVE Owing(k)'
  <2>1. PICK d \in Calls : Unsaid(d) /\ k[1] = Class(Req(d).op)
    BY <1>3 DEF Owing
  <2>2. Unsaid(d)'
    BY <2>1 DEF Unsaid, GoodStep, OnlyCall
  <2>3. d \in Calls' /\ (k[1] = Class(Req(d).op))'
    BY <2>1, GoodKeeps DEF Req
  <2> QED BY <2>2, <2>3 DEF Owing
<1>4. CacheOK' /\ StaleForAReason'
  BY <1>1, <1>2, <1>3, ThinnedKeeps
<1>5. TablesOK'
  BY DEF PolicyInv, TablesOK
<1> QED BY <1>4, <1>5, StepKeeps

\* The steps that leave the tables and the cache alone.
LEMMA QuietSteps ==
  ASSUME PolicyInv, NEW c \in Calls,
         \/ Get(c) \/ Load(c) \/ LoadGlobal(c)
         \/ HandleGetRate(c) \/ ShowRate(c) \/ HandleConvert(c) \/ ShowConversion(c)
         \/ HandleListRates(c) \/ NextPair(c) \/ HandleFeeQuote(c) \/ ShowFee(c)
         \/ HandleInternationalQuote(c) \/ ShowQuote(c)
         \/ AskProviders(c) \/ (\E p \in DOMAIN Corridors : ProviderAnswers(c, p))
         \/ HandleTransfer(c) \/ CheckTransferAllowed(c) \/ JudgeRule(c) \/ JudgeRate(c)
         \/ HandleRefresh(c) \/ HandleUpdateRule(c)
  PROVE  PolicyInv'
<1>1. ASSUME NEW step, At(c, step), step \notin {"insert", "invalidate"} PROVE now' = now /\ ~Unsaid(c)
  BY <1>1 DEF At, Unsaid
<1>2. ASSUME NEW op, Begins(c, op) PROVE now' = now /\ ~Unsaid(c)
  BY <1>2 DEF Begins, Unsaid
<1>3. ASSUME NEW op, Use(c, op) PROVE UNCHANGED <<db, cache, now>> /\ ~Unsaid(c)
  BY <1>3 DEF Use, At, Unsaid
<1>4. CASE Get(c) \/ Load(c) \/ LoadGlobal(c)
  <2>1. UNCHANGED <<db, cache, now>> /\ ~Unsaid(c)
    BY <1>1, <1>4 DEF Get, Load, LoadGlobal
  <2> QED BY <1>4, <2>1, ReadGood, QuietKeeps DEF Read
<1>5. CASE HandleGetRate(c) \/ HandleConvert(c) \/ HandleListRates(c) \/ HandleFeeQuote(c) \/ HandleInternationalQuote(c)
  <2>1. UNCHANGED <<db, cache, now>> /\ ~Unsaid(c)
    BY <1>2, <1>5 DEF HandleGetRate, HandleConvert, HandleListRates, HandleFeeQuote, HandleInternationalQuote
  <2> QED BY <1>5, <2>1, ReadersGood, QuietKeeps
<1>6. CASE ShowRate(c) \/ ShowConversion(c) \/ NextPair(c) \/ ShowFee(c) \/ ShowQuote(c)
  <2>1. \E op : Use(c, op)
    BY <1>6, Zenon DEF ShowRate, ShowConversion, NextPair, ShowFee, ShowQuote
  <2> QED BY <1>3, <1>6, <2>1, ReadersGood, QuietKeeps
<1>7. CASE AskProviders(c) \/ (\E p \in DOMAIN Corridors : ProviderAnswers(c, p))
  <2>1. (At(c, "corridors") \/ At(c, "quotes")) /\ UNCHANGED <<db, cache>>
    BY <1>7, Zenon DEF AskProviders, ProviderAnswers
  <2>2. UNCHANGED <<db, cache, now>> /\ ~Unsaid(c)
    BY <1>1, <2>1
  <2> QED BY <1>7, <2>2, ProvidersGood, QuietKeeps
<1>8. CASE HandleTransfer(c) \/ CheckTransferAllowed(c) \/ JudgeRule(c) \/ JudgeRate(c)
  <2>1. CASE HandleTransfer(c)
    BY <1>2, <2>1, TransfersGood, QuietKeeps DEF HandleTransfer
  <2>2. CASE CheckTransferAllowed(c)
    <3>1. At(c, "check") /\ UNCHANGED <<db, cache>>
      BY <2>2 DEF CheckTransferAllowed
    <3>2. UNCHANGED <<db, cache, now>> /\ ~Unsaid(c)
      BY <3>1, <1>1
    <3> QED BY <2>2, <3>2, TransfersGood, QuietKeeps
  <2>3. CASE JudgeRule(c) \/ JudgeRate(c)
    <3>1. Use(c, "transfer")
      BY <2>3 DEF JudgeRule, JudgeRate
    <3> QED BY <1>3, <2>3, <3>1, TransfersGood, QuietKeeps
  <2> QED BY <1>8, <2>1, <2>2, <2>3
<1>9. CASE HandleRefresh(c) \/ HandleUpdateRule(c)
  <2>1. UNCHANGED <<db, cache, now>> /\ ~Unsaid(c)
    BY <1>2, <1>9 DEF HandleRefresh, HandleUpdateRule
  <2> QED BY <1>9, <2>1, WritersGood, QuietKeeps
<1> QED BY <1>4, <1>5, <1>6, <1>7, <1>8, <1>9

\* A value is stored; if it is no longer what the tables say, it is excused.
LEMMA SetKeeps ==
  ASSUME PolicyInv, NEW c \in Calls, GoodStep(c), UNCHANGED <<db, now>>, ~Unsaid(c),
         NEW k, k[1] \in Classes, NEW val, Proper(k, val), Set(k, val)
  PROVE  PolicyInv'
<1>1. CASE UNCHANGED cache
  BY <1>1, QuietKeeps
<1>2. CASE cache' = Put(cache, k, Entry(k, val))
  <2>1. /\ DOMAIN cache' = DOMAIN cache \cup {k} /\ cache'[k] = Entry(k, val)
        /\ \A j \in DOMAIN cache \ {k} : cache'[j] = cache[j]
    BY <1>2 DEF Put
  <2>2. /\ DOMAIN Entry(k, val) = {"val", "ttl", "excuse"} /\ Entry(k, val).val = val
        /\ Entry(k, val).excuse = (k[1] # "quotes" /\ val # Fresh(k))
    BY DEF Entry
  <2>3. CacheOK'
    BY <2>1, <2>2 DEF CacheOK, PolicyInv
  <2>4. ASSUME NEW j \in DOMAIN cache', j[1] # "quotes" PROVE Fresh(j)' = Fresh(j)
    BY <2>3, <2>4, FreshKept DEF CacheOK
  <2>5. ASSUME NEW j \in DOMAIN cache \ {k}, Stale(j)' PROVE cache'[j].excuse \/ Owing(j)'
    <3>1. Stale(j)
      BY <2>1, <2>4, <2>5 DEF Stale
    <3>2. cache[j].excuse \/ Owing(j)
      BY <3>1 DEF PolicyInv, StaleForAReason, Owing
    <3>3. ASSUME Owing(j) PROVE Owing(j)'
      <4>1. PICK d \in Calls : Unsaid(d) /\ j[1] = Class(Req(d).op)
        BY <3>3 DEF Owing
      <4>2. Unsaid(d)'
        BY <4>1 DEF Unsaid, GoodStep, OnlyCall
      <4>3. d \in Calls' /\ (j[1] = Class(Req(d).op))'
        BY <4>1, GoodKeeps DEF Req
      <4> QED BY <4>2, <4>3 DEF Owing
    <3> QED BY <2>1, <3>2, <3>3
  <2>6. ASSUME Stale(k)' PROVE cache'[k].excuse
    BY <2>1, <2>2, <2>4, <2>6 DEF Stale
  <2>7. StaleForAReason'
    BY <2>1, <2>5, <2>6 DEF StaleForAReason, Owing
  <2>8. TablesOK'
    BY DEF PolicyInv, TablesOK
  <2> QED BY <2>3, <2>7, <2>8, StepKeeps
<1> QED BY <1>1, <1>2 DEF Set

LEMMA StoringSteps ==
  ASSUME PolicyInv, NEW c \in Calls, Store(c) \/ KeepQuote(c)
  PROVE  PolicyInv'
<1>1. CASE Store(c)
  <2>1. GoodStep(c)
    BY <1>1, ReadGood DEF Read
  <2>2. call[c].pc = "set" /\ UNCHANGED <<db, now>> /\ Set(call[c].key, call[c].load)
    BY <1>1 DEF Store, At
  <2>3. call[c].key[1] \in Classes /\ Proper(call[c].key, call[c].load)
    BY <2>2, OfRequest DEF Placed, ProperReads
  <2> QED BY <2>1, <2>2, <2>3, SetKeeps DEF Unsaid
<1>2. CASE KeepQuote(c)
  <2>1. GoodStep(c)
    BY <1>2, ProvidersGood
  <2>2. call[c].pc = "quotes" /\ UNCHANGED <<db, now>>
    BY <1>2 DEF KeepQuote, At
  <2>3. ~Unsaid(c) /\ call[c].key[1] \in Classes /\ Proper(call[c].key, call[c].best)
    BY <2>2, OfRequest DEF Placed, Proper, Unsaid, Classes
  <2>4. UNCHANGED cache \/ Set(call[c].key, call[c].best)
    BY <1>2 DEF KeepQuote
  <2> QED BY <2>1, <2>2, <2>3, <2>4, SetKeeps, QuietKeeps
<1> QED BY <1>1, <1>2

\* A row is written by a request that has yet to tell the cache.
TableClass(table) == IF table = "rates" THEN "fx" ELSE table
LEMMA WriteKeeps ==
  ASSUME PolicyInv, NEW c \in Calls, GoodStep(c), UNCHANGED <<cache, now>>, Unsaid(c)',
         NEW table \in {"rates", "rules", "fees"}, TableClass(table) = Class(Req(c).op),
         NEW rows, db' = [db EXCEPT ![table] = rows],
         table = "rules" => \A i \in DOMAIN rows : "value" \in DOMAIN rows[i] /\ rows[i].value \in Int
  PROVE  PolicyInv'
<1>1. /\ DOMAIN db' = Tables /\ db'.totals = db.totals
      /\ table # "rates" => db'.rates = db.rates
      /\ IF table = "rules" THEN db'.rules = rows ELSE db'.rules = db.rules
      /\ table # "fees" => db'.fees = db.fees
  BY DEF PolicyInv, TablesOK, Tables
<1>2. TablesOK'
  BY <1>1 DEF PolicyInv, TablesOK
<1>3. Thinned({})
  BY DEF Thinned, PolicyInv, CacheOK
<1>4. Calls' = Calls /\ Req(c)' = Req(c)
  BY GoodKeeps DEF Req
<1>5. ASSUME NEW k \in DOMAIN cache' PROVE k[1] = "quotes" \/ Fresh(k)' = Fresh(k) \/ Owing(k)'
  <2>1. k[1] \in Classes
    BY DEF PolicyInv, CacheOK
  <2>2. CASE k[1] = TableClass(table)
    <3>1. (k[1] = Class(Req(c).op))'
      BY <2>2, <1>4
    <3>2. c \in Calls'
      BY <1>4
    <3> QED BY <3>1, <3>2 DEF Owing
  <2>3. CASE k[1] # TableClass(table) /\ k[1] # "quotes"
    BY <2>1, <2>3, <1>1, FreshKept DEF TableClass
  <2> QED BY <2>2, <2>3
<1>6. ASSUME NEW k, Owing(k) PROVE Owing(k)'
  <2>1. PICK d \in Calls : Unsaid(d) /\ k[1] = Class(Req(d).op)
    BY <1>6 DEF Owing
  <2>2. Unsaid(d)'
    BY <2>1 DEF Unsaid, GoodStep, OnlyCall
  <2>3. d \in Calls' /\ (k[1] = Class(Req(d).op))'
    BY <2>1, GoodKeeps DEF Req
  <2> QED BY <2>2, <2>3 DEF Owing
<1>7. CacheOK' /\ StaleForAReason'
  BY <1>3, <1>5, <1>6, ThinnedKeeps
<1> QED BY <1>1, <1>2, <1>7, StepKeeps

LEMMA WritingSteps ==
  ASSUME PolicyInv, NEW c \in Calls,
         \/ HandleOverride(c) \/ InsertFetched(c) \/ HandleCreateRule(c) \/ WriteRule(c)
         \/ HandleCreateFee(c) \/ HandleUpdateFee(c) \/ HandleDeactivateFee(c)
  PROVE  PolicyInv'
<1> DEFINE r == call[c]
<1>0. GoodStep(c) /\ DOMAIN r = CallFields /\ r.ask = Req(c) /\ Req(c) = Form[c] /\ c \in DOMAIN Form
  BY WritersGood, OfRequest
<1>1. ASSUME Fails(c), now' = now, ~Unsaid(c) PROVE PolicyInv'
  BY <1>0, <1>1, QuietKeeps DEF Fails
<1>2. ASSUME Moves(c, "invalidate") PROVE Unsaid(c)'
  <2>1. call'[c].pc = "invalidate"
    BY <1>0, <1>2 DEF Moves, Calls, CallFields
  <2> QED BY <2>1 DEF Unsaid
<1>3. ASSUME NEW table \in {"rates", "rules", "fees"}, TableClass(table) = Class(Req(c).op), now' = now,
             NEW rows, Writes(c, table, rows),
             table = "rules" => \A i \in DOMAIN rows : "value" \in DOMAIN rows[i] /\ rows[i].value \in Int
      PROVE  PolicyInv'
  BY <1>0, <1>2, <1>3, WriteKeeps DEF Writes
<1>4. CASE HandleOverride(c)
  <2>1. now' = now /\ ~Unsaid(c) /\ Req(c).op = "override"
    BY <1>4 DEF HandleOverride, Begins, Unsaid
  <2>2. Class(Req(c).op) = TableClass("rates")
    BY <2>1 DEF Class, TableClass
  <2> QED BY <1>1, <1>3, <1>4, <2>1, <2>2 DEF HandleOverride
<1>5. CASE InsertFetched(c)
  <2>1. r.pc = "insert" /\ UNCHANGED <<cache, now>> /\ Req(c).op = "refresh"
    BY <1>5, OfRequest DEF InsertFetched, At, Placed
  <2>2. Class(Req(c).op) = TableClass("rates")
    BY <2>1 DEF Class, TableClass
  <2>3. Unsaid(c)'
    <3>1. Moves(c, "invalidate") \/ call' = [call EXCEPT ![c].todo = Tail(call[c].todo)]
      BY <1>5, Zenon DEF InsertFetched
    <3>2. ASSUME call' = [call EXCEPT ![c].todo = Tail(call[c].todo)] PROVE call'[c].pc = "insert"
      BY <1>0, <2>1, <3>2 DEF CallFields, Calls
    <3> QED BY <1>2, <3>1, <3>2 DEF Unsaid
  <2>4. UNCHANGED db \/ \E rows : db' = [db EXCEPT !.rates = rows]
    BY <1>5, Zenon DEF InsertFetched
  <2>5. ASSUME UNCHANGED db PROVE PolicyInv'
    BY <1>0, <2>1, <2>3, <2>5, QuietKeeps
  <2>6. ASSUME NEW rows, db' = [db EXCEPT !.rates = rows] PROVE PolicyInv'
    BY <1>0, <2>1, <2>2, <2>3, <2>6, WriteKeeps
  <2> QED BY <2>4, <2>5, <2>6
<1>6. CASE HandleCreateRule(c)
  <2>1. now' = now /\ ~Unsaid(c) /\ Req(c).op = "createRule"
    BY <1>6 DEF HandleCreateRule, Begins, Unsaid
  <2>2. Class(Req(c).op) = TableClass("rules")
    BY <2>1 DEF Class, TableClass
  <2> DEFINE rows == Put(db.rules, c, NewRule(c))
  <2>3. ASSUME NEW i \in DOMAIN rows PROVE "value" \in DOMAIN rows[i] /\ rows[i].value \in Int
    <3>1. "value" \in DOMAIN NewRule(c) /\ NewRule(c).value = Req(c).value
      BY DEF NewRule
    <3>2. NewRule(c).value \in Int
      BY <1>0, <2>1, <3>1, FormAssumption
    <3>3. i \in DOMAIN db.rules \cup {c} /\ rows[i] = (IF i = c THEN NewRule(c) ELSE db.rules[i])
      BY <2>3 DEF Put
    <3> QED BY <3>1, <3>2, <3>3 DEF PolicyInv, TablesOK
  <2>4. Fails(c) \/ Writes(c, "rules", rows)
    BY <1>6 DEF HandleCreateRule
  <2> HIDE DEF rows
  <2> QED BY <1>1, <1>3, <2>1, <2>2, <2>3, <2>4
<1>7. CASE WriteRule(c)
  <2>1. now' = now /\ r.pc = "writeRule"
    BY <1>7 DEF WriteRule, At
  <2>2. ~Unsaid(c) /\ Req(c).op = "updateRule" /\ r.row[1].value \in Int
    BY <2>1, OfRequest DEF Placed, Unsaid
  <2>3. Class(Req(c).op) = TableClass("rules")
    BY <2>2 DEF Class, TableClass
  <2> DEFINE v == r.row[1].value
             t == r.row[1].to
             rows == [db.rules EXCEPT ![Req(c).id].value = v, ![Req(c).id].to = t]
  <2>4. ASSUME NEW i \in DOMAIN rows PROVE "value" \in DOMAIN rows[i] /\ rows[i].value \in Int
    <3> HIDE DEF v, t
    <3>1. i \in DOMAIN db.rules /\ "value" \in DOMAIN db.rules[i] /\ db.rules[i].value \in Int
      BY DEF PolicyInv, TablesOK
    <3>2. v \in Int
      BY <2>2 DEF v
    <3>3. CASE i # Req(c).id
      BY <3>1, <3>3
    <3>4. CASE i = Req(c).id
      <4>1. rows[i] = [db.rules[i] EXCEPT !.value = v, !.to = t]
        BY <3>1, <3>4
      <4> QED BY <3>1, <3>2, <4>1
    <3> QED BY <3>3, <3>4
  <2>5. Fails(c) \/ Writes(c, "rules", rows)
    BY <1>7 DEF WriteRule
  <2> HIDE DEF rows
  <2> QED BY <1>1, <1>3, <2>1, <2>2, <2>3, <2>4, <2>5
<1>8. CASE HandleCreateFee(c) \/ HandleUpdateFee(c) \/ HandleDeactivateFee(c)
  <2>1. now' = now /\ ~Unsaid(c) /\ Req(c).op \in {"createFee", "updateFee", "deactivateFee"}
    BY <1>8 DEF HandleCreateFee, HandleUpdateFee, HandleDeactivateFee, Begins, Unsaid
  <2>2. Class(Req(c).op) = TableClass("fees")
    BY <2>1 DEF Class, TableClass
  <2>3. Fails(c) \/ \E rows : Writes(c, "fees", rows)
    BY <1>8, Zenon DEF HandleCreateFee, HandleUpdateFee, HandleDeactivateFee
  <2> QED BY <1>1, <1>3, <2>1, <2>2, <2>3
<1> QED BY <1>4, <1>5, <1>6, <1>7, <1>8

LEMMA ThinnedFacts ==
  ASSUME PolicyInv, NEW ks, NEW D \in SUBSET DOMAIN cache,
         \/ cache' = Restrict(cache, D) /\ ks = {}
         \/ cache' = Restrict(Excuse(ks), D)
         \/ cache' = Excuse(ks) /\ D = DOMAIN cache
  PROVE  Thinned(ks) /\ DOMAIN cache' = D
<1>1. ASSUME NEW k \in DOMAIN cache
      PROVE  /\ DOMAIN Excuse(ks)[k] = {"val", "ttl", "excuse"} /\ Excuse(ks)[k].val = cache[k].val
             /\ Excuse(ks)[k].excuse = (cache[k].excuse \/ k \in ks)
  <2>1. Excuse(ks)[k] = [cache[k] EXCEPT !.excuse = cache[k].excuse \/ k \in ks]
    BY DEF Excuse
  <2>2. DOMAIN cache[k] = {"val", "ttl", "excuse"}
    BY DEF PolicyInv, CacheOK
  <2> QED BY <2>1, <2>2
<1>2. DOMAIN Excuse(ks) = DOMAIN cache
  BY DEF Excuse
<1>3. CASE cache' = Restrict(cache, D) /\ ks = {}
  BY <1>3 DEF Restrict, Thinned, PolicyInv, CacheOK
<1>4. CASE cache' = Restrict(Excuse(ks), D)
  <2>1. DOMAIN cache' = D /\ \A k \in D : cache'[k] = Excuse(ks)[k]
    BY <1>4 DEF Restrict
  <2> QED BY <1>1, <2>1 DEF Thinned
<1>5. CASE cache' = Excuse(ks) /\ D = DOMAIN cache
  BY <1>1, <1>2, <1>5 DEF Thinned
<1> QED BY <1>3, <1>4, <1>5

\* What the others owe does not change when c ends.
LEMMA OthersOwe ==
  ASSUME NEW c \in Calls, OnlyCall(c), NEW k, Owing(k), k[1] # Class(Req(c).op) \/ ~Unsaid(c)
  PROVE  Owing(k)'
<1>1. PICK d \in Calls : Unsaid(d) /\ k[1] = Class(Req(d).op)
  BY DEF Owing
<1>2. d # c /\ call'[d] = call[d] /\ d \in Calls'
  BY <1>1 DEF OnlyCall, Calls
<1>3. Unsaid(d)' /\ (k[1] = Class(Req(d).op))'
  BY <1>1, <1>2 DEF Unsaid, Req
<1> QED BY <1>2, <1>3 DEF Owing

\* Telling the cache, dying before it is told, and deleting old rates.
LEMMA EndingSteps ==
  ASSUME PolicyInv, NEW c \in Calls, Invalidate(c) \/ WorkerDies(c) \/ HandleCleanup(c)
  PROVE  PolicyInv'
<1>0. GoodStep(c) /\ OnlyCall(c)
  BY WritersGood DEF GoodStep
<1>1. ASSUME NEW ks, NEW D \in SUBSET DOMAIN cache, UNCHANGED <<db, now>>,
             \/ cache' = Restrict(cache, D) /\ ks = {}
             \/ cache' = Restrict(Excuse(ks), D)
             \/ cache' = Excuse(ks) /\ D = DOMAIN cache,
             \A k \in D \ ks : k[1] # Class(Req(c).op) \/ ~Unsaid(c)
      PROVE  PolicyInv'
  <2>1. Thinned(ks) /\ DOMAIN cache' = D
    BY <1>1, ThinnedFacts
  <2>2. \A k \in DOMAIN cache' : k[1] = "quotes" \/ Fresh(k)' = Fresh(k)
    BY <1>1, <2>1, FreshKept DEF PolicyInv, CacheOK
  <2>3. \A k \in DOMAIN cache' : k \in ks \/ (Owing(k) => Owing(k)')
    BY <1>0, <1>1, <2>1, OthersOwe
  <2>4. CacheOK' /\ StaleForAReason'
    BY <2>1, <2>2, <2>3, ThinnedKeeps
  <2>5. TablesOK'
    BY <1>1 DEF PolicyInv, TablesOK
  <2> QED BY <1>0, <1>1, <2>4, <2>5, StepKeeps
<1>2. CASE Invalidate(c)
  <2> DEFINE class == Class(Req(c).op)
             found == {k \in DOMAIN cache : k[1] = class}
  <2>1. UNCHANGED <<db, now>>
    BY <1>2 DEF Invalidate, At
  <2>2. \/ cache' = Excuse(found) \/ cache' = Restrict(cache, DOMAIN cache \ found)
        \/ \E gone \in SUBSET found : cache' = Restrict(Excuse(found), DOMAIN cache \ gone)
    BY <1>2, Zenon DEF Invalidate, DeleteByPrefix
  <2>3. \A k \in DOMAIN cache \ found : k[1] # Class(Req(c).op)
    OBVIOUS
  <2> HIDE DEF found
  <2>4. CASE cache' = Excuse(found)
    BY <1>1, <2>1, <2>3, <2>4
  <2>5. CASE cache' = Restrict(cache, DOMAIN cache \ found)
    <3> DEFINE D == DOMAIN cache \ found
    <3>1. D \in SUBSET DOMAIN cache /\ \A k \in D \ {} : k[1] # Class(Req(c).op)
      BY <2>3
    <3>2. cache' = Restrict(cache, D)
      BY <2>5
    <3> HIDE DEF D
    <3> QED BY <1>1, <2>1, <3>1, <3>2
  <2>6. ASSUME NEW gone \in SUBSET found, cache' = Restrict(Excuse(found), DOMAIN cache \ gone) PROVE PolicyInv'
    <3>1. \A k \in (DOMAIN cache \ gone) \ found : k[1] # Class(Req(c).op) \/ ~Unsaid(c)
      BY <2>3
    <3> QED BY <1>1, <2>1, <2>6, <3>1
  <2> QED BY <2>2, <2>4, <2>5, <2>6
<1>3. CASE WorkerDies(c)
  <2> DEFINE ks == Owed({c})
  <2>1. UNCHANGED <<db, now>> /\ cache' = Excuse(ks)
    BY <1>3 DEF WorkerDies
  <2>2. \A k \in DOMAIN cache \ ks : k[1] # Class(Req(c).op) \/ ~Unsaid(c)
    BY DEF Owed
  <2> HIDE DEF ks
  <2> QED BY <1>1, <2>1, <2>2
<1>4. CASE HandleCleanup(c)
  <2> DEFINE ks == {k \in DOMAIN cache : k[1] = "fx"}
             rows == DeleteOlderThan(db.rates, now - Retention)
  <2>1. now' = now /\ ~Unsaid(c) /\ cache' = Excuse(ks) /\ db' = [db EXCEPT !.rates = rows]
    BY <1>4 DEF HandleCleanup, Begins, Unsaid
  <2>2. /\ DOMAIN db' = Tables /\ db'.totals = db.totals /\ db'.rules = db.rules /\ db'.fees = db.fees
    BY <2>1 DEF PolicyInv, TablesOK, Tables
  <2>3. \A k \in DOMAIN cache \ ks : k[1] # "fx"
    OBVIOUS
  <2> HIDE DEF ks
  <2>4. Thinned(ks) /\ DOMAIN cache' = DOMAIN cache
    BY <2>1, ThinnedFacts
  <2>5. \A k \in DOMAIN cache' : k \in ks \/ k[1] = "quotes" \/ Fresh(k)' = Fresh(k)
    BY <2>1, <2>2, <2>3, <2>4, FreshKept DEF PolicyInv, CacheOK
  <2>6. \A k \in DOMAIN cache' : Owing(k) => Owing(k)'
    BY <1>0, <2>1, OthersOwe
  <2>7. CacheOK' /\ StaleForAReason'
    BY <2>4, <2>5, <2>6, ThinnedKeeps
  <2>8. TablesOK'
    BY <2>2 DEF PolicyInv, TablesOK
  <2> QED BY <1>0, <2>1, <2>2, <2>7, <2>8, StepKeeps
<1> QED BY <1>2, <1>3, <1>4

\* The payment: it is counted with the day's total, or not at all.
LEMMA SettleStep ==
  ASSUME PolicyInv, NEW c \in Calls, Settle(c)
  PROVE  PolicyInv'
<1> DEFINE r == call[c]
           line == <<Req(c).user, Req(c).currency, Req(c).direction, now>>
           s == CallRecord("done", Req(c), r.ans, r.applied, now)
<1>0. /\ r.pc = "settle" /\ UNCHANGED <<cache, now>> /\ now \in Nat /\ ~Unsaid(c)
      /\ DOMAIN r = CallFields /\ RequestOK(c, r, Calls) /\ r.ask = Req(c) /\ Req(c) = Form[c] /\ c \in DOMAIN Form
  BY OfRequest DEF Settle, At, PolicyInv, Unsaid
<1>1. r.ask.op = "transfer" /\ r.day = -1 /\ Form[c].cents \in Int
  BY <1>0, FormAssumption DEF RequestOK, Placed, Dated
<1>2. CASE \E ok \in BOOLEAN : Finish(c, ok) /\ UNCHANGED db
  BY <1>0, <1>2, EndGood, QuietKeeps
<1>3. CASE /\ db' = [db EXCEPT !.totals = Increment(db.totals, line, Req(c).cents)]
           /\ call' = [call EXCEPT ![c] = s]
  <2>1. OnlyCall(c) /\ call'[c] = s /\ Calls' = Calls
    BY <1>0, <1>3, Updates DEF OnlyCall, Calls
  <2>2. RequestOK(c, s, Calls) /\ s.day = now /\ s.ask = Req(c)
    <3>1. RequestOK(c, s, Calls)
      BY <1>0, <1>1, EndOK
    <3> QED BY <3>1 DEF CallRecord
  <2> HIDE DEF s
  <2>3. RequestsOK'
    BY <2>1, <2>2 DEF RequestsOK, PolicyInv, OnlyCall
  <2>4. /\ DOMAIN db' = Tables /\ db'.rates = db.rates /\ db'.rules = db.rules /\ db'.fees = db.fees
        /\ db'.totals = Increment(db.totals, line, Req(c).cents)
    BY <1>3 DEF PolicyInv, TablesOK, Tables
  <2> DEFINE old == IF line \in DOMAIN db.totals THEN db.totals[line] ELSE 0
  <2>5. /\ DOMAIN db'.totals = DOMAIN db.totals \cup {line} /\ db'.totals[line] = Form[c].cents + old
        /\ \A a \in DOMAIN db.totals \ {line} : db'.totals[a] = db.totals[a]
        /\ old \in Int
    BY <2>4, <1>0 DEF Increment, Put, PolicyInv, TablesOK
  <2> HIDE DEF old
  <2>6. TablesOK'
    BY <2>4, <2>5, <1>1 DEF PolicyInv, TablesOK
  <2>7. CacheOK' /\ StaleForAReason'
    <3>1. Thinned({})
      BY <1>0 DEF Thinned, PolicyInv, CacheOK
    <3>2. \A k \in DOMAIN cache' : k[1] = "quotes" \/ Fresh(k)' = Fresh(k)
      BY <1>0, <2>4, FreshKept DEF PolicyInv, CacheOK
    <3>3. \A k \in DOMAIN cache' : Owing(k) => Owing(k)'
      BY <1>0, <2>1, OthersOwe
    <3> QED BY <3>1, <3>2, <3>3, ThinnedKeeps
  <2>8. TotalsCover'
    <3> SUFFICES ASSUME NEW u, NEW cur, NEW dir, NEW day \in Nat
                 PROVE  IF <<u, cur, dir, day>> \in DOMAIN db'.totals
                        THEN CentsOf(CountedOn(u, cur, dir, day)') <= db'.totals[<<u, cur, dir, day>>]
                        ELSE CountedOn(u, cur, dir, day)' = {}
      BY DEF TotalsCover
    <3> DEFINE ds == CountedOn(u, cur, dir, day)
               new == CountedOn(u, cur, dir, day)'
    <3>1. IF <<u, cur, dir, day>> \in DOMAIN db.totals THEN CentsOf(ds) <= db.totals[<<u, cur, dir, day>>] ELSE ds = {}
      BY DEF PolicyInv, TotalsCover
    <3>2. c \notin ds
      BY <1>1 DEF CountedOn
    <3>3. \A d \in Calls \ {c} : d \in new <=> d \in ds
      BY <2>1 DEF CountedOn, OnlyCall, Req
    <3>4. c \in new <=> <<u, cur, dir, day>> = line
      BY <2>1, <2>2 DEF CountedOn, Req
    <3>5. ds \subseteq Calls /\ new \subseteq Calls
      BY <2>1 DEF CountedOn
    <3>6. IsFiniteSet(ds) /\ \A d \in ds : Form[d].cents \in Int
      BY CountedFacts
    <3> HIDE DEF ds, new
    <3>7. CASE <<u, cur, dir, day>> = line
      <4>0. c \in new
        BY <3>4, <3>7
      <4>1. new = ds \cup {c}
        <5>1. new \subseteq ds \cup {c}
          BY <3>3, <3>5, Zenon
        <5>2. ds \cup {c} \subseteq new
          BY <4>0, <3>3, <3>5, Zenon
        <5> QED BY <5>1, <5>2, Zenon
      <4>2. CentsOf(ds) \in Int /\ CentsOf(ds \cup {c}) = CentsOf(ds) + Form[c].cents
        BY <3>2, <3>6, <1>1, CentsFacts
      <4>3. CentsOf(ds) <= old
        <5>1. CASE line \in DOMAIN db.totals
          BY <5>1, <3>1, <3>7 DEF old
        <5>2. CASE line \notin DOMAIN db.totals
          <6>1. ds = {} /\ CentsOf({}) = 0
            BY <5>2, <3>1, <3>7, SumEmpty DEF CentsOf
          <6> QED BY <6>1, <5>2 DEF old
        <5> QED BY <5>1, <5>2
      <4>4. CentsOf(new) <= db'.totals[line]
        BY <4>1, <4>2, <4>3, <2>5, <1>1
      <4> QED BY <4>4, <3>7, <2>5 DEF new
    <3>8. CASE <<u, cur, dir, day>> # line
      <4>0. c \notin new
        BY <3>4, <3>8
      <4>1. new = ds
        <5>1. new \subseteq ds
          BY <4>0, <3>3, <3>5, Zenon
        <5>2. ds \subseteq new
          BY <3>2, <3>3, <3>5, Zenon
        <5> QED BY <5>1, <5>2, Zenon
      <4> QED BY <4>1, <3>1, <3>8, <2>5 DEF new
    <3> QED BY <3>7, <3>8
  <2> QED BY <1>0, <2>1, <2>3, <2>6, <2>7, <2>8 DEF PolicyInv
<1> QED BY <1>2, <1>3 DEF Settle

LEMMA ExpiryStep ==
  ASSUME PolicyInv, NEW e, Expire(e)
  PROVE  PolicyInv'
<1>1. UNCHANGED <<db, now, call>> /\ cache' = Restrict(cache, DOMAIN cache \ {e})
  BY DEF Expire
<1>2. Thinned({}) /\ DOMAIN cache' = DOMAIN cache \ {e}
  BY <1>1, ThinnedFacts
<1>3. \A k \in DOMAIN cache' : k[1] = "quotes" \/ Fresh(k)' = Fresh(k)
  BY <1>1, <1>2, FreshKept DEF PolicyInv, CacheOK
<1>4. \A k \in DOMAIN cache' : Owing(k) => Owing(k)'
  BY <1>1 DEF Owing, Calls, Unsaid, Req
<1>5. CacheOK' /\ StaleForAReason'
  BY <1>2, <1>3, <1>4, ThinnedKeeps
<1>6. Calls' = Calls /\ RequestsOK' /\ TablesOK' /\ now' \in Nat
  BY <1>1 DEF PolicyInv, RequestsOK, TablesOK, Calls
<1>7. TotalsCover'
  BY <1>1, <1>6, TotalsKept
<1> QED BY <1>5, <1>6, <1>7 DEF PolicyInv

LEMMA NextDayStep ==
  ASSUME PolicyInv, NextDay
  PROVE  PolicyInv'
<1> DEFINE ks == {k \in DOMAIN cache : k[1] # "quotes" /\ OnDay(k, now + 1) # OnDay(k, now)}
<1>1. UNCHANGED <<db, call>> /\ cache' = Excuse(ks) /\ now' = now + 1
  BY DEF NextDay
<1>2. ASSUME NEW k, k[1] \in Classes \ {"quotes"} PROVE Fresh(k)' = OnDay(k, now + 1)
  <2>1. CASE k[1] = "fx"
    BY <1>1, <2>1 DEF Fresh, OnDay, GetLatest
  <2>2. CASE k[1] = "rules"
    BY <1>1, <2>2 DEF Fresh, OnDay, ListEffectiveByKey
  <2>3. CASE k[1] = "fees"
    BY <1>1, <2>3 DEF Fresh, OnDay, FindMatching
  <2> QED BY <1>2, <2>1, <2>2, <2>3 DEF Classes
<1>3. \A k \in DOMAIN cache \ ks : k[1] = "quotes" \/ Fresh(k)' = Fresh(k)
  BY <1>2 DEF PolicyInv, CacheOK, Fresh
<1> HIDE DEF ks
<1>4. Thinned(ks) /\ DOMAIN cache' = DOMAIN cache
  BY <1>1, ThinnedFacts
<1>5. \A k \in DOMAIN cache' : Owing(k) => Owing(k)'
  BY <1>1 DEF Owing, Calls, Unsaid, Req
<1>6. CacheOK' /\ StaleForAReason'
  BY <1>3, <1>4, <1>5, ThinnedKeeps
<1>7. Calls' = Calls /\ RequestsOK' /\ TablesOK' /\ now' \in Nat
  BY <1>1 DEF PolicyInv, RequestsOK, TablesOK, Calls
<1>8. TotalsCover'
  BY <1>1, <1>7, TotalsKept
<1> QED BY <1>6, <1>7, <1>8 DEF PolicyInv

LEMMA RestartStep ==
  ASSUME PolicyInv, Restart
  PROVE  PolicyInv'
<1> DEFINE lost == {c \in Calls : InFlight(c) /\ ~OfWorker(c)}
           ks == IF redis THEN Owed(lost) ELSE {}
<1>1. /\ UNCHANGED <<db, now>> /\ call' = [c \in Calls |-> IF c \in lost THEN Ended(c, "failed") ELSE call[c]]
      /\ cache' = IF redis THEN Excuse(Owed(lost)) ELSE <<>>
  BY DEF Restart
<1>2. /\ Calls' = Calls
      /\ \A c \in Calls : call'[c] = IF c \in lost THEN Ended(c, "failed") ELSE call[c]
  BY <1>1 DEF Calls
<1>3. \A k \in DOMAIN cache \ Owed(lost) : \A c \in lost : ~(Unsaid(c) /\ k[1] = Class(Req(c).op))
  BY DEF Owed
<1> HIDE DEF lost
<1>4. ASSUME NEW c \in Calls
      PROVE  RequestOK(c, call'[c], Calls) /\ call'[c].day = call[c].day /\ call'[c].ask = call[c].ask
  <2>1. RequestOK(c, call[c], Calls) /\ call[c].ask = Req(c) /\ call[c].day \in Nat \cup {-1}
    BY OfRequest DEF RequestOK, Dated
  <2>2. CASE c \in lost
    <3>1. call'[c] = CallRecord("failed", call[c].ask, call[c].ans, call[c].applied, call[c].day)
      BY <1>2, <2>1, <2>2 DEF Ended
    <3>2. RequestOK(c, call'[c], Calls)
      BY <2>1, <3>1, EndOK
    <3> QED BY <3>1, <3>2 DEF CallRecord
  <2>3. CASE c \notin lost
    BY <1>2, <2>1, <2>3
  <2> QED BY <2>2, <2>3
<1>5. Thinned(ks) /\ DOMAIN cache' \subseteq DOMAIN cache
  <2>1. CASE redis
    <3>1. cache' = Excuse(ks)
      BY <1>1, <2>1
    <3> HIDE DEF ks
    <3> QED BY <3>1, ThinnedFacts
  <2>2. CASE ~redis
    <3>1. cache' = <<>> /\ DOMAIN cache' = {}
      BY <1>1, <2>2
    <3> HIDE DEF ks
    <3> QED BY <3>1 DEF Thinned
  <2> QED BY <2>1, <2>2
<1>6. \A k \in DOMAIN cache' : k[1] = "quotes" \/ Fresh(k)' = Fresh(k)
  BY <1>1, <1>5, FreshKept DEF PolicyInv, CacheOK
<1>7. ASSUME NEW k \in DOMAIN cache', k \notin ks, Owing(k) PROVE Owing(k)'
  <2>1. k \notin Owed(lost)
    <3>1. CASE redis
      BY <1>7, <3>1
    <3>2. CASE ~redis
      <4>1. DOMAIN cache' = {}
        BY <1>1, <3>2
      <4> QED BY <4>1
    <3> QED BY <3>1, <3>2
  <2>2. PICK d \in Calls : Unsaid(d) /\ k[1] = Class(Req(d).op)
    BY <1>7 DEF Owing
  <2>3. d \notin lost /\ call'[d] = call[d] /\ d \in Calls'
    BY <1>2, <1>3, <1>5, <2>1, <2>2
  <2>4. Unsaid(d)' /\ (k[1] = Class(Req(d).op))'
    BY <2>2, <2>3 DEF Unsaid, Req
  <2> QED BY <2>3, <2>4 DEF Owing
<1>8. CacheOK' /\ StaleForAReason'
  <2> HIDE DEF ks
  <2> QED BY <1>5, <1>6, <1>7, ThinnedKeeps
<1>9. RequestsOK' /\ TablesOK' /\ now' \in Nat
  BY <1>1, <1>2, <1>4 DEF PolicyInv, RequestsOK, TablesOK
<1>10. TotalsCover'
  BY <1>1, <1>2, <1>4, TotalsKept
<1> QED BY <1>2, <1>8, <1>9, <1>10 DEF PolicyInv

LEMMA ReferenceStarts ==
  ASSUME ReferenceInit
  PROVE  PolicyInv
<1>1. PICK g \in Groups : call = [c \in g |-> CallRecord("new", Form[c], 0, {}, -1)]
  BY DEF ReferenceInit
<1>2. Calls = g /\ \A c \in Calls : call[c] = CallRecord("new", Form[c], 0, {}, -1)
  BY <1>1 DEF Calls
<1>3. RequestsOK
  <2>1. ASSUME NEW c \in Calls PROVE RequestOK(c, CallRecord("new", Form[c], 0, {}, -1), Calls)
    BY RecordOK
  <2> QED BY <1>2, <2>1 DEF RequestsOK
<1>4. TablesOK
  BY OpeningTablesAssumption DEF ReferenceInit, TablesOK, Tables
<1>5. DOMAIN cache = {}
  BY DEF ReferenceInit
<1>6. CacheOK /\ StaleForAReason
  BY <1>5 DEF CacheOK, StaleForAReason
<1>7. TotalsCover
  <2> SUFFICES ASSUME NEW u, NEW cur, NEW dir, NEW day \in Nat
               PROVE  IF <<u, cur, dir, day>> \in DOMAIN db.totals
                      THEN CentsOf(CountedOn(u, cur, dir, day)) <= db.totals[<<u, cur, dir, day>>]
                      ELSE CountedOn(u, cur, dir, day) = {}
    BY DEF TotalsCover
  <2>1. CountedOn(u, cur, dir, day) = {}
    <3>1. \A c \in Calls : call[c].day = -1
      <4>1. ASSUME NEW ask PROVE CallRecord("new", ask, 0, {}, -1).day = -1
        BY DEF CallRecord
      <4> QED BY <1>2, <4>1
    <3> QED BY <3>1 DEF CountedOn
  <2>2. CentsOf({}) = 0
    BY SumEmpty DEF CentsOf
  <2> QED BY <2>1, <2>2, OpeningTablesAssumption DEF ReferenceInit
<1> QED BY <1>2, <1>3, <1>4, <1>6, <1>7 DEF PolicyInv, ReferenceInit

LEMMA ReferenceSteps ==
  ASSUME PolicyInv, [ReferenceNext]_referenceVars
  PROVE  PolicyInv'
<1>1. ASSUME NEW c \in Calls, Step(c) PROVE PolicyInv'
  BY <1>1, QuietSteps, StoringSteps, WritingSteps, EndingSteps, SettleStep, Zenon DEF Step, Read
<1>2. CASE Expiry
  BY <1>2, ExpiryStep DEF Expiry
<1>3. CASE UNCHANGED referenceVars
  <2>1. UNCHANGED <<db, cache, now, call>>
    BY <1>3 DEF referenceVars
  <2>2. Thinned({})
    BY <2>1 DEF Thinned, PolicyInv, CacheOK
  <2>3. \A k \in DOMAIN cache' : k[1] = "quotes" \/ Fresh(k)' = Fresh(k)
    BY <2>1, FreshKept DEF PolicyInv, CacheOK
  <2>4. \A k \in DOMAIN cache' : Owing(k) => Owing(k)'
    BY <2>1 DEF Owing, Calls, Unsaid, Req
  <2>5. CacheOK' /\ StaleForAReason'
    BY <2>2, <2>3, <2>4, ThinnedKeeps
  <2>6. Calls' = Calls /\ RequestsOK' /\ TablesOK' /\ now' \in Nat
    BY <2>1 DEF PolicyInv, RequestsOK, TablesOK, Calls
  <2>7. TotalsCover'
    BY <2>1, <2>6, TotalsKept
  <2> QED BY <2>5, <2>6, <2>7 DEF PolicyInv
<1> QED BY <1>1, <1>2, <1>3, NextDayStep, RestartStep DEF ReferenceNext

\* The requests' records say that limits hold and that the cheapest answer wins.
LEMMA ReferenceSuffices ==
  ASSUME PolicyInv
  PROVE  PolicyIsApplied
<1>1. LimitsHold
  <2> SUFFICES ASSUME NEW c \in Calls, NEW a \in call[c].applied
               PROVE  /\ \A r \in a.rules : MatchPriority(r, Req(c).user, RuleCurrency(Req(c), a.stage)) >= 0 => Rank[r.scope] <= Rank[a.rule.scope]
                      /\ a.stage = 1 /\ a.used > 0 => SumOf(LAMBDA d : Req(d).cents, a.seen \cup {c}) <= a.rule.value
    BY DEF LimitsHold
  <2>1. Passed(c, a, Calls) /\ Req(c) = Form[c]
    BY OfRequest DEF RequestOK
  <2>2. \A d \in a.seen \cup {c} : Req(d) = Form[d]
    BY <2>1, OfRequest DEF Passed
  <2>3. SumOf(LAMBDA d : Req(d).cents, a.seen \cup {c}) = CentsOf(a.seen \cup {c})
    <3>1. [d \in a.seen \cup {c} |-> Req(d).cents] = [d \in a.seen \cup {c} |-> Form[d].cents]
      BY <2>2
    <3> QED BY <3>1 DEF SumOf, CentsOf
  <2> QED BY <2>1, <2>3 DEF Passed
<1>2. CheapestWins
  <2> SUFFICES ASSUME NEW c \in Calls, NEW best \in call[c].best, NEW q \in call[c].quotes,
                      \A x \in call[c].quotes : x.target <= Req(c).cents
               PROVE  q.target <= best.target
    BY DEF CheapestWins
  <2> DEFINE r == call[c]
  <2>1. Weighed(r) /\ r.ask = Req(c)
    BY OfRequest DEF RequestOK
  <2>2. PICK b \in r.quotes : r.best = {b} /\ r.bestCost = r.ask.cents - b.target
    BY <2>1 DEF Weighed
  <2>3. b = best /\ r.bestCost <= r.ask.cents - q.target
    BY <2>1, <2>2 DEF Weighed
  <2>4. r.ask.cents \in Int /\ b.target \in Int /\ q.target \in Int
    BY <2>1, <2>2 DEF Weighed
  <2> QED BY <2>2, <2>3, <2>4
<1> QED BY <1>1, <1>2 DEF PolicyIsApplied, PolicyInv

\* The invariant behind the policy: what every request has read and where it
\* is, the tables, the cache and the totals of transfers, in every state.
THEOREM PolicyInvariance == ReferenceSpec => []PolicyInv
<1>1. ReferenceInit => PolicyInv
  BY ReferenceStarts
<1>2. PolicyInv /\ [ReferenceNext]_referenceVars => PolicyInv'
  BY ReferenceSteps
<1> QED BY <1>1, <1>2, PTL DEF ReferenceSpec

\* Prices and limits come from the tables: an entry of the cache is stale only
\* for a reason, a transfer passes the most specific rule it has read together
\* with what was counted before it, and the cheapest quote wins.
THEOREM PolicyTheorem == ReferenceSpec => []PolicyIsApplied
BY PolicyInvariance, ReferenceSuffices, PTL
=============================================================================
