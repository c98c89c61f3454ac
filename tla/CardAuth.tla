------------------------------ MODULE CardAuth ------------------------------
(***************************************************************************)
(* Card authorizations: cardauth.Service with the ISO 8583 router, the     *)
(* card_authorizations table and the ledger.                               *)
(*                                                                         *)
(* A delivery is one inbound message, handled by a goroutine of its own:   *)
(* the network repeats a message it got no answer to, and a reversal is    *)
(* routed to the same handler.  A job is one call of SettleAuthorization   *)
(* or ReverseAuthorization.  The behaviours fall into one calendar day.    *)
(***************************************************************************)
EXTENDS Ledger, Sequences, FiniteSets, FiniteSetsExt

CONSTANTS
  Cards, Currencies,
  Deliveries,
  Rrn,         \* Rrn[d]: retrieval reference number of the message
  Stan,        \* Stan[d]: its trace number
  CardOf,      \* CardOf[d]: the card of the message
  Amount,      \* Amount[d]: TransactionAmount, in the merchant's currency
  Merchant,    \* Merchant[d]: currency of the merchant
  Ask,         \* Ask[c][e]: <<num, den>>, price of one c in e
  Waterfall,   \* SpendWaterfallOrder: currencies or "merchant_currency"
  Opening,     \* Opening[c][e]: balance of the owner of card c in currency e
  PerTxnLimit, DailyLimit,
  Jobs,
  JobKind,     \* JobKind[j]: "settle" or "reverse"
  JobRrn       \* JobRrn[j]: the authorization the job is about

ASSUME CardAssumption ==
  /\ CardOf \in [Deliveries -> Cards]
  /\ Merchant \in [Deliveries -> Currencies]
  /\ Amount \in [Deliveries -> Nat \ {0}]
ASSUME FiniteAssumption    == IsFiniteSet(Deliveries)
ASSUME OpeningAssumption   == Opening \in [Cards -> [Currencies -> Nat]]
ASSUME RateAssumption      ==
  Ask \in [Currencies -> [Currencies -> (Nat \ {0}) \X (Nat \ {0})]]
ASSUME WaterfallAssumption == Waterfall \in Seq(Currencies \cup {"merchant_currency"})
ASSUME JobAssumption ==
  /\ JobKind \in [Jobs -> {"settle", "reverse"}]
  /\ Jobs # {} => Deliveries # {}

VARIABLES
  bal,       \* ledger balances, one account per currency
  holdLog,   \* holdLog[d]: neo/type tags of the transactions on the hold of d
  card,      \* card[c]: status of card c
  row,       \* row[d]: status of the card_authorizations row d created
  spend,     \* spend[d]: the currency and amount to hold for d
  pc, answer,
  job,       \* job[j]: the step job j is at
  picked,    \* picked[j]: the row GetByRRN returned to j
  remaining  \* remaining[j]: what j saw on the hold of that row

vars == <<bal, holdLog, card, row, spend, pc, answer, job, picked, remaining>>

Wallet(c, cur) == Main(<<c, cur>>)
Accounts == {Wallet(c, cur) : c \in Cards, cur \in Currencies}
              \cup {Hold(d) : d \in Deliveries} \cup {TransitCardAuth}
Counted == {"approved", "cleared"}
CardStatuses == {"active", "frozen", "cancelled"}
NoSpend == [currency |-> CHOOSE cur \in Currencies : TRUE, amount |-> 0]

Init ==
  /\ bal = [a \in Accounts |-> IF a[1] = "main" THEN Opening[a[2][1]][a[2][2]] ELSE 0]
  /\ holdLog = [d \in Deliveries |-> {}]
  /\ card = [c \in Cards |-> "active"]
  /\ row = [d \in Deliveries |-> "absent"]
  /\ spend = [d \in Deliveries |-> NoSpend]
  /\ pc = [d \in Deliveries |-> "idle"]
  /\ answer = [d \in Deliveries |-> "none"]
  /\ job = [j \in Jobs |-> "idle"]
  /\ picked = [j \in Jobs |-> CHOOSE d \in Deliveries : TRUE]
  /\ remaining = [j \in Jobs |-> 0]

(***************************************************************************)
(* decide.                                                                 *)
(***************************************************************************)
Goto(d, step) == pc' = [pc EXCEPT ![d] = step]

\* The declined row is written if the card is known; an error is dropped.
Decline(d) ==
  /\ answer' = [answer EXCEPT ![d] = "declined"]
  /\ row' \in {row, [row EXCEPT ![d] = "declined"]}
  /\ Goto(d, "done")

\* Steps 1 to 3: unknown card, card status, channel toggles.
CheckCard(d) ==
  /\ pc[d] = "idle"
  /\ \/ Decline(d)
     \/ card[CardOf[d]] = "active" /\ Goto(d, "limits") /\ UNCHANGED <<row, answer>>
  /\ UNCHANGED <<bal, holdLog, card, spend, job, picked, remaining>>

SumApprovedToday(c) ==
  MapThenSumSet(LAMBDA d : spend[d].amount,
                {d \in Deliveries : CardOf[d] = c /\ row[d] \in Counted})

\* Steps 4 to 7.  A failed sum query skips the daily check.  Frozen users, the
\* switches for international spend and its cap may decline any message.
WithinLimits(d, total) ==
  Amount[d] <= PerTxnLimit /\ total + Amount[d] <= DailyLimit
CheckLimits(d) ==
  /\ pc[d] = "limits"
  /\ \/ Decline(d)
     \/ /\ \E total \in {SumApprovedToday(CardOf[d]), -Amount[d]} : WithinLimits(d, total)
        /\ Goto(d, "waterfall")
        /\ UNCHANGED <<row, answer>>
  /\ UNCHANGED <<bal, holdLog, card, spend, job, picked, remaining>>

\* int64(math.Ceil(float64(amount) * ask)): rounded up, and one cent too much
\* where the floating-point product of a whole result comes out above it.
CeilDivMutant(n, m) == n \div m
CeilDiv(n, m) == (n + m - 1) \div m
ConvertedCents(amount, ask) ==
  {CeilDiv(amount * ask[1], ask[2])}
    \cup (IF (amount * ask[1]) % ask[2] = 0 THEN {CeilDiv(amount * ask[1], ask[2]) + 1} ELSE {})
HoldAmounts(d, cur) == IF cur = Merchant[d] THEN {Amount[d]}
                       ELSE ConvertedCents(Amount[d], Ask[Merchant[d]][cur])

\* Step 8: the first currency of the waterfall that covers the purchase.  A
\* missing balance, rate or answer of the ledger passes to the next one.
Candidate(d, i) == IF Waterfall[i] = "merchant_currency" THEN Merchant[d] ELSE Waterfall[i]
ResolveSpend(d) ==
  /\ pc[d] = "waterfall"
  /\ \/ Decline(d) /\ UNCHANGED spend
     \/ /\ \E i \in DOMAIN Waterfall :
             \E cents \in HoldAmounts(d, Candidate(d, i)) :
               /\ bal[Wallet(CardOf[d], Candidate(d, i))] >= cents
               /\ spend' = [spend EXCEPT ![d] = [currency |-> Candidate(d, i), amount |-> cents]]
        /\ Goto(d, "hold")
        /\ UNCHANGED <<row, answer>>
  /\ UNCHANGED <<bal, holdLog, card, job, picked, remaining>>

\* Step 9.  The idempotency key is made of RRN and STAN, the hold ID is fresh.
\* A key the ledger has seen before posts nothing: the ledger reports the
\* reuse, or answers with the transaction it made first.
Held(d) == "hold" \in holdLog[d]
SameKeyMutant(d, e) == d = e
SameKey(d, e) == Rrn[d] = Rrn[e] /\ Stan[d] = Stan[e]
KeyUsed(d) == \E e \in Deliveries : SameKey(d, e) /\ Held(e)
HoldStep(d) ==
  /\ pc[d] = "hold"
  /\ \E outcome \in CallOutcomes :
       /\ IF Applied(outcome) /\ ~KeyUsed(d)
            THEN LET source == Wallet(CardOf[d], spend[d].currency) IN
                   /\ Covers(bal, source, spend[d].amount)
                   /\ bal' = Send(bal, source, Hold(d), spend[d].amount)
                   /\ holdLog' = [holdLog EXCEPT ![d] = {"hold"}]
            ELSE UNCHANGED <<bal, holdLog>>
       /\ \/ Confirmed(outcome) /\ Goto(d, "record") /\ UNCHANGED <<row, answer>>
          \/ ~Confirmed(outcome) /\ Decline(d)
  /\ UNCHANGED <<card, spend, job, picked, remaining>>

\* Step 10: the row; its error is only logged and the message is approved.
Record(d) ==
  /\ pc[d] = "record"
  /\ row' \in {row, [row EXCEPT ![d] = "approved"]}
  /\ answer' = [answer EXCEPT ![d] = "approved"]
  /\ Goto(d, "done")
  /\ UNCHANGED <<bal, holdLog, card, spend, job, picked, remaining>>

\* The process dies, or the connection the answer would go to is gone.
Crash(d) ==
  /\ pc[d] \notin {"idle", "done"}
  /\ Goto(d, "done")
  /\ UNCHANGED <<bal, holdLog, card, row, spend, answer, job, picked, remaining>>

(***************************************************************************)
(* SettleAuthorization and ReverseAuthorization.                           *)
(***************************************************************************)

\* GetByRRN returns some row with that number; it must be approved.
PickRow(j) ==
  /\ job[j] = "idle"
  /\ \E d \in Deliveries :
       /\ Rrn[d] = JobRrn[j] /\ row[d] # "absent"
       /\ picked' = [picked EXCEPT ![j] = d]
       /\ job' = [job EXCEPT ![j] = IF row[d] = "approved" THEN "look" ELSE "done"]
  /\ UNCHANGED <<bal, holdLog, card, row, spend, pc, answer, remaining>>

\* SettleHold and VoidHold first fetch the hold account; an error, or a hold
\* with nothing left on it, ends the job.
LookAtHold(j) ==
  /\ job[j] = "look"
  /\ \/ /\ HoldOpen(bal, picked[j])
        /\ remaining' = [remaining EXCEPT ![j] = bal[Hold(picked[j])]]
        /\ job' = [job EXCEPT ![j] = "post"]
     \/ job' = [job EXCEPT ![j] = "done"] /\ UNCHANGED remaining
  /\ UNCHANGED <<bal, holdLog, card, row, spend, pc, answer, picked>>

\* The keys card-settle-<rrn> and card-void-<rrn> name the RRN, not the hold.
CloseTags(kind) == IF kind = "settle" THEN {"settle_hold"} ELSE {"void_hold", "void_nothing"}
CloseKeyUsed(kind, rrn) ==
  \E d \in Deliveries : Rrn[d] = rrn /\ holdLog[d] \cap CloseTags(kind) # {}

\* confirm_hold sends the amount that was seen, and is refused if it is gone by
\* now; cancel_hold sends back what there is, be it nothing.
Log(d, tag) == holdLog' = [holdLog EXCEPT ![d] = @ \cup {tag}]
ConfirmHold(j, d) ==
  /\ Covers(bal, Hold(d), remaining[j])
  /\ bal' = Send(bal, Hold(d), TransitCardAuth, remaining[j])
  /\ Log(d, "settle_hold")
CancelHold(d) ==
  /\ bal' = VoidHold(bal, d, <<CardOf[d], spend[d].currency>>, spend[d].amount)
  /\ Log(d, IF bal[Hold(d)] = 0 THEN "void_nothing" ELSE "void_hold")

AfterCloseMutant(outcome) == "mark"
AfterClose(outcome) == IF Confirmed(outcome) THEN "mark" ELSE "done"
CloseHold(j) ==
  /\ job[j] = "post"
  /\ \E outcome \in CallOutcomes :
       /\ IF Applied(outcome) /\ ~CloseKeyUsed(JobKind[j], JobRrn[j])
            THEN IF JobKind[j] = "settle" THEN ConfirmHold(j, picked[j]) ELSE CancelHold(picked[j])
            ELSE UNCHANGED <<bal, holdLog>>
       /\ job' = [job EXCEPT ![j] = AfterClose(outcome)]
  /\ UNCHANGED <<card, row, spend, pc, answer, picked, remaining>>

\* UPDATE ... WHERE id = $1, whatever the status of the row is by now; it may
\* fail, and the process may die before it.
ClosedAs(j) == IF JobKind[j] = "settle" THEN "cleared" ELSE "reversed"
MarkRow(j) ==
  /\ job[j] = "mark"
  /\ row' \in {row, [row EXCEPT ![picked[j]] = ClosedAs(j)]}
  /\ job' = [job EXCEPT ![j] = "done"]
  /\ UNCHANGED <<bal, holdLog, card, spend, pc, answer, picked, remaining>>

\* Administrators freeze, unfreeze and cancel cards, in any state.
SetCardStatus(c, status) ==
  /\ card' = [card EXCEPT ![c] = status]
  /\ UNCHANGED <<bal, holdLog, row, spend, pc, answer, job, picked, remaining>>

Handle(d) == \/ CheckCard(d) \/ CheckLimits(d) \/ ResolveSpend(d)
             \/ HoldStep(d) \/ Record(d) \/ Crash(d)

Next == \/ \E d \in Deliveries : Handle(d)
        \/ \E j \in Jobs : PickRow(j) \/ LookAtHold(j) \/ CloseHold(j) \/ MarkRow(j)
        \/ \E c \in Cards, status \in CardStatuses : SetCardStatus(c, status)

Spec == Init /\ [][Next]_vars

(***************************************************************************)
(* Correctness.                                                            *)
(***************************************************************************)
Settled(d) == "settle_hold" \in holdLog[d]
Voided(d)  == "void_hold" \in holdLog[d]

TypeOK ==
  /\ bal \in [Accounts -> Int]
  /\ holdLog \in [Deliveries -> SUBSET {"hold", "settle_hold", "void_hold", "void_nothing"}]
  /\ card \in [Cards -> CardStatuses]
  /\ row \in [Deliveries -> Counted \cup {"absent", "declined", "reversed"}]
  /\ spend \in [Deliveries -> [currency : Currencies, amount : Nat]]
  /\ pc \in [Deliveries -> {"idle", "limits", "waterfall", "hold", "record", "done"}]
  /\ answer \in [Deliveries -> {"none", "approved", "declined"}]
  /\ job \in [Jobs -> {"idle", "look", "post", "mark", "done"}]
  /\ picked \in [Jobs -> Deliveries]
  /\ remaining \in [Jobs -> Int]

\* A message that is delivered twice takes the money once, and one that was
\* approved has money on hold behind it, under its own key at least.
OneHoldPerMessage ==
  \A d \in Deliveries :
    /\ Held(d) => \A e \in Deliveries \ {d} :
                    Rrn[d] = Rrn[e] /\ Stan[d] = Stan[e] => ~Held(e)
    /\ answer[d] = "approved" =>
         \E e \in Deliveries : Rrn[d] = Rrn[e] /\ Stan[d] = Stan[e] /\ Held(e)

\* Settlement and reversal race on one authorization, look at its hold first
\* and post later, under keys that other holds of the RRN share: all the same
\* the hold goes one way, once; a void finds nothing only where a settlement
\* overtook it; a row is cleared or reversed only after the ledger took a
\* settlement, or a void, for its RRN; and every cent of a wallet is in it, on
\* a hold or in transit.
SpendAmount == [d \in Deliveries |-> spend[d].amount]
TakenFrom(c, cur) == {d \in Deliveries : /\ CardOf[d] = c /\ spend[d].currency = cur
                                         /\ Held(d) /\ ~Voided(d)}
WalletsAddUp ==
  \A c \in Cards, cur \in Currencies :
    bal[Wallet(c, cur)] = Opening[c][cur] - SumFunctionOnSet(SpendAmount, TakenFrom(c, cur))
ClosedAsRecorded(d) == /\ row[d] = "cleared" => CloseKeyUsed("settle", Rrn[d])
                       /\ row[d] = "reversed" => CloseKeyUsed("reverse", Rrn[d])
                       /\ ~(Settled(d) /\ Voided(d))
                       /\ "void_nothing" \in holdLog[d] => Settled(d)
ClearingFollowsLedger ==
  TypeOK /\ WalletsAddUp /\ \A d \in Deliveries : ClosedAsRecorded(d)

\* The amount on hold pays for the purchase at the rate applied: conversion
\* never rounds in favour of the card holder.
CoversPurchase(d) ==
  LET ask == Ask[Merchant[d]][spend[d].currency] IN
    IF spend[d].currency = Merchant[d] THEN spend[d].amount = Amount[d]
    ELSE spend[d].amount * ask[2] >= Amount[d] * ask[1]
HoldCoversPurchase == \A d \in Deliveries : Held(d) => CoversPurchase(d)

\* A hold that is closed, with every job that found money on it at its end.
OnHold(d) == Held(d) /\ ~Settled(d) /\ ~Voided(d)
Rested(d) == /\ Held(d) /\ ~OnHold(d)
             /\ \A j \in Jobs : picked[j] = d => job[j] \notin {"post", "mark"}
\* The UPDATEs that close a row check no status.  A row may change again only
\* while jobs that looked at its hold in time are still running, and only if the
\* ledger took both a settlement and a void for its RRN; after that it is final,
\* whatever jobs come later.
ClosedRowIsFinal ==
  [][\A d \in Deliveries :
       /\ Rested(d) => Rested(d)' /\ row'[d] = row[d]
       /\ row[d] \in {"cleared", "reversed"} /\ row'[d] # row[d] =>
            CloseKeyUsed("settle", Rrn[d])' /\ CloseKeyUsed("reverse", Rrn[d])']_vars

\* The strengthening that makes the invariants above inductive.  The hold
\* account of a delivery carries its amount until it is closed, once; a job
\* that is to post saw that amount, one that is to mark a row used its key.
DeliveryInv(d) ==
  /\ bal[Hold(d)] = IF OnHold(d) THEN spend[d].amount ELSE 0
  /\ holdLog[d] # {} => Held(d)
  /\ Settled(d) \/ Voided(d) => pc[d] = "done"
  /\ ClosedAsRecorded(d)
  /\ Held(d) => pc[d] \in {"record", "done"}
  /\ pc[d] = "hold" \/ Held(d) => spend[d].amount > 0 /\ CoversPurchase(d)
  /\ row[d] # "absent" => pc[d] = "done"
KeyInv ==
  /\ \A d, e \in Deliveries : Held(d) /\ Held(e) /\ SameKey(d, e) => d = e
  /\ \A d \in Deliveries : pc[d] = "record" \/ answer[d] = "approved" => KeyUsed(d)
JobInv(j) ==
  /\ job[j] # "idle" => Rrn[picked[j]] = JobRrn[j] /\ row[picked[j]] # "absent"
  /\ job[j] = "post" => Held(picked[j]) /\ remaining[j] = spend[picked[j]].amount
  /\ job[j] = "mark" => CloseKeyUsed(JobKind[j], JobRrn[j])
IInv == /\ TypeOK /\ KeyInv
        /\ \A d \in Deliveries : DeliveryInv(d)
        /\ \A j \in Jobs : JobInv(j)
=============================================================================
