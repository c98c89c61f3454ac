-------------------------- MODULE OutboundTransfer --------------------------
(***************************************************************************)
(* payments.Service.ProcessOutboundTransfer: concurrent requests that hold *)
(* money on the ledger, hand the transfer to EthSwitch and then settle or  *)
(* void the hold, with retryLedgerOp around the last step.                 *)
(*                                                                         *)
(* One transfer is one HTTP request, served by one goroutine: pc[t] is     *)
(* where that goroutine is.  Ledger calls and the EthSwitch call go over   *)
(* the network: a ledger call may be applied although its caller sees an   *)
(* error, the EthSwitch answer may be lost, and the process may die        *)
(* between any two steps.  Nothing resumes a request that died.            *)
(***************************************************************************)
EXTENDS Ledger, FiniteSetsExt

CONSTANTS
  Users,
  Transfers,
  Owner,        \* Owner[t]: the user that sends t
  Amount,       \* Amount[t]: AmountCents of t
  Opening,      \* Opening[u]: the main balance u starts with
  DailyLimit,   \* the effective daily_transfer_limit rule
  Attempts      \* attempts made by retryLedgerOp

ASSUME OwnerAssumption    == Owner \in [Transfers -> Users]
ASSUME AmountAssumption   == Amount \in [Transfers -> Nat \ {0}]
ASSUME OpeningAssumption  == Opening \in [Users -> Nat]
ASSUME LimitAssumption    == DailyLimit \in Nat
ASSUME FiniteAssumption   == IsFiniteSet(Transfers)
ASSUME AttemptsAssumption == Attempts \in Nat \ {0}

VARIABLES
  bal,       \* ledger balances
  txlog,     \* txlog[t]: neo/type tags of the ledger transactions on t's hold
  network,   \* network[t]: how far EthSwitch is with t (external)
  status,    \* status[t]: TransferResponse.Status of t, "none" until received
  frozen,    \* users an administrator has frozen
  totals,    \* totals[u]: transfer_daily_totals of u, direction outbound
  receipts,  \* transfers with a completed receipt
  pc,        \* pc[t]: the step the request is at
  tries,     \* tries[t]: failed attempts of the settle or void loop
  reply      \* reply[t]: what the caller was told, "none" until then

vars == <<bal, txlog, network, status, frozen, totals, receipts, pc, tries, reply>>

Steps == {"idle", "hold", "transmit", "await", "settle", "void",
          "receipt", "totals", "done", "dead"}
Replies == {"none", "refused", "hold_error", "pending_verification",
            "settle_error", "void_error", "failed", "ok"}
Tags == {"hold", "settle_hold", "void_hold"}
Statuses == {"none", "SUCCESS", "FAILED", "PENDING_ASYNC", ""}
\* How EthSwitch (external) gets on with a transfer; the last two are what a
\* PENDING_ASYNC transfer becomes later.
Verdicts == {"executed", "rejected", "pending", "executed_late", "rejected_late"}

Accounts == {Main(u) : u \in Users} \cup {Hold(t) : t \in Transfers}
              \cup {TransitEthSwitch}

Init ==
  /\ bal = [a \in Accounts |-> IF \E u \in Users : a = Main(u)
                                 THEN Opening[a[2]] ELSE 0]
  /\ txlog = [t \in Transfers |-> {}]
  /\ network = [t \in Transfers |-> "unasked"]
  /\ status = [t \in Transfers |-> "none"]
  /\ frozen = {}
  /\ totals = [u \in Users |-> 0]
  /\ receipts = {}
  /\ pc = [t \in Transfers |-> "idle"]
  /\ tries = [t \in Transfers |-> 0]
  /\ reply = [t \in Transfers |-> "none"]

Goto(t, step) == pc' = [pc EXCEPT ![t] = step]
Answer(t, r)  == Goto(t, "done") /\ reply' = [reply EXCEPT ![t] = r]

(***************************************************************************)
(* The request, step by step.                                              *)
(***************************************************************************)

\* Validation, the frozen check and the regulatory check.  GetDailyTotal
\* reads 0 when its query fails.  The other rules of CheckTransferAllowed
\* may refuse any transfer.
Allowed(t, total) == /\ Owner[t] \notin frozen
                     /\ DailyLimit > 0 => total + Amount[t] <= DailyLimit
Begin(t) ==
  /\ pc[t] = "idle"
  /\ \/ Answer(t, "refused")
     \/ /\ \E total \in {totals[Owner[t]], 0} : Allowed(t, total)
        /\ Goto(t, "hold")
        /\ UNCHANGED reply
  /\ UNCHANGED <<bal, txlog, network, status, frozen, totals, receipts, tries>>

\* Phase 1.  The hold ID is drawn inside HoldFunds: an error, also one that
\* hides an applied transaction, leaves the caller without it.
HoldPhase(t) ==
  /\ pc[t] = "hold"
  /\ \E outcome \in CallOutcomes :
       /\ IF Applied(outcome)
            THEN /\ Covers(bal, Main(Owner[t]), Amount[t])
                 /\ bal' = HoldFunds(bal, Owner[t], t, Amount[t])
                 /\ txlog' = [txlog EXCEPT ![t] = @ \cup {"hold"}]
            ELSE UNCHANGED <<bal, txlog>>
       /\ IF Confirmed(outcome)
            THEN Goto(t, "transmit") /\ UNCHANGED reply
            ELSE Answer(t, "hold_error")
  /\ UNCHANGED <<network, status, frozen, totals, receipts, tries>>

\* Phase 2.  The request leaves for EthSwitch.
Transmit(t) ==
  /\ pc[t] = "transmit"
  /\ network' = [network EXCEPT ![t] = "asked"]
  /\ Goto(t, "await")
  /\ UNCHANGED <<bal, txlog, status, frozen, totals, receipts, tries, reply>>

\* What InitiateTransfer may return of a transfer EthSwitch is at stage n with.
\* The status is the one EthSwitch gave when it was asked, so PENDING_ASYNC
\* however the transfer ended later.  The HTTP status code is not looked at:
\* an error object of a proxy or of EthSwitch itself decodes too, and leaves
\* Status empty.
Answers(n) == CASE n = "executed" -> {"SUCCESS", ""}
                [] n = "rejected" -> {"FAILED", ""}
                [] n = "asked"    -> {""}
                [] n = "unasked"  -> {}
                [] OTHER          -> {"PENDING_ASYNC", ""}

\* Phase 3.  SUCCESS settles, any other status voids.
PhaseThreeMutant(s) == IF s = "FAILED" THEN "void" ELSE "settle"
PhaseThree(s) == IF s = "SUCCESS" THEN "settle" ELSE "void"
ResponseMutant(t) ==
  /\ pc[t] = "await"
  /\ \E s \in Answers(network[t]) :
       /\ status' = [status EXCEPT ![t] = s]
       /\ receipts' = IF s = "SUCCESS" THEN receipts \cup {t} ELSE receipts
       /\ Goto(t, PhaseThree(s))
  /\ UNCHANGED <<bal, txlog, network, frozen, totals, tries, reply>>
Response(t) ==
  /\ pc[t] = "await"
  /\ \E s \in Answers(network[t]) :
       /\ status' = [status EXCEPT ![t] = s]
       /\ Goto(t, PhaseThree(s))
  /\ UNCHANGED <<bal, txlog, network, frozen, totals, receipts, tries, reply>>

\* A timeout, a broken connection or an answer that does not decode: the hold
\* is left as it is.
NoResponseMutant(t) ==
  /\ pc[t] = "await"
  /\ Goto(t, "void")
  /\ UNCHANGED <<bal, txlog, network, status, frozen, totals, receipts, tries, reply>>
NoTimeoutMutant(t) == FALSE
NoResponse(t) ==
  /\ pc[t] = "await"
  /\ Answer(t, "pending_verification")
  /\ UNCHANGED <<bal, txlog, network, status, frozen, totals, receipts, tries>>

\* One attempt of retryLedgerOp.  A closed hold is an error; a failed attempt
\* is retried unless it was the last one or the request's context is done.
MayRetryMutant(n) == n <= Attempts
MayRetry(n) == n < Attempts
Attempt(t, tag, posted, next, reached, lost) ==
  /\ \E outcome \in CallOutcomes :
       /\ IF Applied(outcome)
            THEN /\ HoldOpen(bal, t)
                 /\ bal' = posted
                 /\ txlog' = [txlog EXCEPT ![t] = @ \cup {tag}]
            ELSE UNCHANGED <<bal, txlog>>
       /\ IF Confirmed(outcome)
            THEN /\ Goto(t, next)
                 /\ reply' = [reply EXCEPT ![t] = reached]
                 /\ UNCHANGED tries
            ELSE /\ tries' = [tries EXCEPT ![t] = @ + 1]
                 /\ \/ MayRetry(tries'[t]) /\ UNCHANGED <<pc, reply>>
                    \/ Answer(t, lost)
  /\ UNCHANGED <<network, status, frozen, totals, receipts>>

SettlePhase(t) ==
  /\ pc[t] = "settle"
  /\ Attempt(t, "settle_hold", SettleHold(bal, t, TransitEthSwitch),
             "receipt", "none", "settle_error")

VoidPhaseMutant(t) ==
  /\ pc[t] = "void"
  /\ Attempt(t, "void_hold", VoidHold(bal, t, Owner[t], Amount[t]),
             "done", "failed", "failed")
VoidPhase(t) ==
  /\ pc[t] = "void"
  /\ Attempt(t, "void_hold", VoidHold(bal, t, Owner[t], Amount[t]),
             "done", "failed", "void_error")

\* The receipt and the daily total: errors of both are dropped.
SaveReceipt(t) ==
  /\ pc[t] = "receipt"
  /\ receipts' \in {receipts, receipts \cup {t}}
  /\ Goto(t, "totals")
  /\ UNCHANGED <<bal, txlog, network, status, frozen, totals, tries, reply>>

IncrementTotals(t) ==
  /\ pc[t] = "totals"
  /\ totals' \in {totals, [totals EXCEPT ![Owner[t]] = @ + Amount[t]]}
  /\ Answer(t, "ok")
  /\ UNCHANGED <<bal, txlog, network, status, frozen, receipts, tries>>

(***************************************************************************)
(* What happens around the request.                                        *)
(***************************************************************************)

\* EthSwitch (external) decides a transfer it was asked for, whether or not
\* the caller is still waiting.
EthSwitchDecides(t) ==
  /\ \/ network[t] = "asked"
        /\ \E v \in {"executed", "rejected", "pending"} : network' = [network EXCEPT ![t] = v]
     \/ network[t] = "pending"
        /\ \E v \in {"executed_late", "rejected_late"} : network' = [network EXCEPT ![t] = v]
  /\ UNCHANGED <<bal, txlog, status, frozen, totals, receipts, pc, tries, reply>>

\* The process dies in the middle of the request.
Crash(t) ==
  /\ pc[t] \notin {"idle", "done", "dead"}
  /\ Goto(t, "dead")
  /\ UNCHANGED <<bal, txlog, network, status, frozen, totals, receipts, tries, reply>>

\* An administrator freezes an account while requests are in flight.
Freeze(u) ==
  /\ u \notin frozen
  /\ frozen' = frozen \cup {u}
  /\ UNCHANGED <<bal, txlog, network, status, totals, receipts, pc, tries, reply>>

Unfreeze(u) ==
  /\ u \in frozen
  /\ frozen' = frozen \ {u}
  /\ UNCHANGED <<bal, txlog, network, status, totals, receipts, pc, tries, reply>>

Proceed(t) == \/ Begin(t) \/ HoldPhase(t) \/ Transmit(t) \/ NoResponse(t)
              \/ SettlePhase(t) \/ VoidPhase(t)
              \/ SaveReceipt(t) \/ IncrementTotals(t)
Serve(t) == Response(t) \/ Proceed(t)

Next == \/ \E t \in Transfers : Serve(t) \/ EthSwitchDecides(t) \/ Crash(t)
        \/ \E u \in Users : Freeze(u) \/ Unfreeze(u)

Spec == Init /\ [][Next]_vars

\* A goroutine that can take a step takes one: the Go scheduler runs it, and
\* the EthSwitch client gives up after 15 seconds when no answer comes.  That
\* an answer comes is not assumed.
Fairness == \A t \in Transfers : WF_vars(Proceed(t))
FairSpec == Spec /\ Fairness

(***************************************************************************)
(* Correctness.                                                            *)
(***************************************************************************)

TypeOK ==
  /\ bal \in [Accounts -> Int]
  /\ txlog \in [Transfers -> SUBSET Tags]
  /\ network \in [Transfers -> {"unasked", "asked"} \cup Verdicts]
  /\ status \in [Transfers -> Statuses]
  /\ frozen \subseteq Users
  /\ totals \in [Users -> Nat]
  /\ receipts \subseteq Transfers
  /\ pc \in [Transfers -> Steps]
  /\ tries \in [Transfers -> 0 .. Attempts]
  /\ reply \in [Transfers -> Replies]

Held(t)    == "hold" \in txlog[t]
Settled(t) == "settle_hold" \in txlog[t]
Voided(t)  == "void_hold" \in txlog[t]
OnHold(t)  == Held(t) /\ ~Settled(t) /\ ~Voided(t)

\* A hold is spent exactly once, in one direction and in full: however many
\* attempts retryLedgerOp makes and however many confirmations are lost, the
\* hold account carries the amount of the transfer until a settle or a void
\* empties it, and never both of them happen.
HoldSpent(t) ==
  /\ bal[Hold(t)] = IF OnHold(t) THEN Amount[t] ELSE 0
  /\ Settled(t) \/ Voided(t) => Held(t)
  /\ ~(Settled(t) /\ Voided(t))
HoldSpentOnce == \A t \in Transfers : HoldSpent(t)

\* The ledger never contradicts a verdict EthSwitch gave: money reaches the
\* transit account only for a transfer EthSwitch executed, and goes back to
\* the sender only when EthSwitch rejected it or gave no verdict in time.
FollowsNetwork(t) ==
  /\ Settled(t) => network[t] = "executed"
  /\ Voided(t) => network[t] = "rejected" \/ status[t] \in {"PENDING_ASYNC", ""}
  /\ network[t] # "unasked" => Held(t)
LedgerFollowsNetwork == \A t \in Transfers : FollowsNetwork(t)

\* What ProcessOutboundTransfer returns is true when it returns it and stays
\* true: success means settled, "transfer failed" means the money is back,
\* "pending verification" means the money is still on hold, and an error of
\* the hold phase means EthSwitch never heard of the transfer.
TrueReply(t) ==
  /\ reply[t] = "ok" => Settled(t)
  /\ reply[t] = "failed" => Voided(t)
  /\ reply[t] = "pending_verification" => OnHold(t)
  /\ reply[t] = "hold_error" => network[t] = "unasked"
  /\ reply[t] = "refused" => ~Held(t)
  /\ reply[t] = "settle_error" => network[t] = "executed" /\ ~Voided(t)
ReplyIsTrue == \A t \in Transfers : TrueReply(t)

\* Every cent a user had at the start is in the wallet, on a hold or gone to
\* the EthSwitch transit account, and the transit account holds what was
\* settled and nothing else; concurrent holds never overdraw a wallet.
WalletsCovered == \A u \in Users : bal[Main(u)] >= 0
TakenFrom(u) == {t \in Transfers : Owner[t] = u /\ Held(t) /\ ~Voided(t)}
SettledOf(u) == {t \in Transfers : Owner[t] = u /\ Settled(t)}
MoneyAccountedFor ==
  /\ WalletsCovered
  /\ \A u \in Users : bal[Main(u)] = Opening[u] - SumFunctionOnSet(Amount, TakenFrom(u))
  /\ bal[TransitEthSwitch] = SumFunctionOnSet(Amount, {t \in Transfers : Settled(t)})

\* The books kept beside the ledger never overstate it: a receipt exists only
\* for a settled transfer, and the daily total that feeds the limit check is
\* never more than what the user really sent.
BooksNeverOverstate ==
  /\ \A t \in receipts : Settled(t)
  /\ \A u \in Users : totals[u] <= SumFunctionOnSet(Amount, SettledOf(u))

\* Where a request is tells what it has done so far: the strengthening that
\* makes the invariants above inductive.
StepHistory(t) ==
  /\ pc[t] \in {"idle", "hold"} => txlog[t] = {} /\ network[t] = "unasked"
  /\ pc[t] = "transmit" => OnHold(t) /\ network[t] = "unasked"
  /\ pc[t] = "await" => OnHold(t) /\ network[t] # "unasked"
  /\ pc[t] \in {"idle", "hold", "transmit", "await"} =>
       status[t] = "none" /\ tries[t] = 0
  /\ pc[t] = "settle" => /\ Held(t) /\ ~Voided(t)
                         /\ network[t] = "executed" /\ status[t] = "SUCCESS"
  /\ pc[t] = "void" => /\ Held(t) /\ ~Settled(t)
                       /\ status[t] \notin {"none", "SUCCESS"}
                       /\ status[t] = "FAILED" => network[t] = "rejected"
  /\ pc[t] \in {"settle", "void"} => tries[t] < Attempts
  /\ pc[t] \in {"receipt", "totals"} => Settled(t)
  /\ pc[t] # "done" => reply[t] = "none"
  /\ t \in receipts => Settled(t)
TransferInv(t) == HoldSpent(t) /\ FollowsNetwork(t) /\ TrueReply(t) /\ StepHistory(t)
IInv == TypeOK /\ WalletsCovered /\ \A t \in Transfers : TransferInv(t)

\* A daily total counts answered transfers only, each of them once.
Answered(u) == {t \in Transfers : Owner[t] = u /\ reply[t] = "ok"}
TotalsCountAnswered == \A u \in Users : totals[u] <= SumFunctionOnSet(Amount, Answered(u))

\* The cycle is an escrow: every step of the detailed system is a step of
\* Escrow or leaves it alone.
EscrowState == [t \in Transfers |-> IF Settled(t) THEN "settled"
                                    ELSE IF Voided(t) THEN "released"
                                    ELSE IF Held(t) THEN "held" ELSE "none"]
Abstract == INSTANCE Escrow WITH escrow <- EscrowState
ImplementsEscrow == Abstract!Spec

\* Every request that was taken up is answered, or its process died: retries
\* and timeouts are bounded.
EveryRequestEnds ==
  \A t \in Transfers : (pc[t] # "idle") ~> (pc[t] \in {"done", "dead"})
=============================================================================
