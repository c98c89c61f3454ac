# Verification of neo-api

neo-api is the backend of a mobile wallet: users hold money in several
currencies on a double-entry ledger (Formance), send it to each other and to
other banks (EthSwitch), spend it by card (ISO 8583), borrow, and ask each other
for money; businesses share a wallet among members with roles and keep books in
it, and staff administrate all of it. This directory models the parts that move money and the
records around them, checks the models with TLC on small instances, and proves nearly all of
their safety properties with TLAPS for every instance. `PROJECT.json` lists the runs, the source lines each definition stands
for, the hazards and the findings.

Paths below are relative to the repository root.

## 1. The system

The API process (`cmd/api`, one or more replicas), two workers
(`cmd/lending-worker`, `cmd/recon-worker`) and a Telegram bot share one
PostgreSQL database and one Formance ledger. Every HTTP request is served by a
goroutine of its own; no service holds a lock across two calls, and no service
uses a database transaction that spans a ledger call. So the unit of atomicity is
one SQL statement or one ledger posting, and every interleaving of those units
is possible. That is the level of all the models here.

### Components

| Component | State | Operations | Interacts with | What makes it correct | Module |
|---|---|---|---|---|---|
| Ledger client (`internal/ledger`) | balances of accounts, holds | Hold, Settle, Void, Debit, overdraft and loan postings | Formance over HTTP; called by every service that moves money | postings are atomic, covered and conserve money; a hold is spent once | `Ledger` |
| Outbound transfers (`services/payments`, `gateway/ethswitch`) | hold, receipts, daily totals | ProcessOutboundTransfer, retryLedgerOp | ledger, EthSwitch, regulatory check | ledger agrees with the network, the caller is told the truth, every request ends | `OutboundTransfer`, `Escrow` |
| Peer and batch transfers (`services/payments`) | receipts, daily totals | ProcessInboundTransfer, ProcessBatchTransfer | ledger, overdraft | a batch that stops half way leaves true books | `PeerTransfer` |
| Overdraft (`services/overdraft`) | the overdrafts row | OptIn, OptOut, UseCover, Repay, AutoRepayOnInflow | ledger; called by transfers | the row agrees with the money, limit respected | `Overdraft`, `PeerTransfer` |
| Idempotency (`middleware/idempotency.go`) | idempotency_keys row | AcquireLock, replay, MarkCompleted | wraps every mutating handler | one execution per key, one body per key, replay never changes | `Idempotency` |
| Card authorization (`services/card_auth`, `iso8583/router.go`) | card_authorizations rows, holds | decide, Settle/ReverseAuthorization | ledger, card switch, administrators | one hold per message, a hold goes one way, rows keep to the postings, limits | `CardAuth` |
| Payment requests (`services/payment_requests`) | payment_requests rows | Create, CreateBatch, Pay, Decline, Cancel, Remind, ExpireStale | peer transfers | one transfer per paid row, closed rows stay closed, shares add up | `PaymentRequest` |
| Lending (`services/lending`, `cmd/lending-worker`) | loans, installments | DisburseLoan, ManualRepay, AutoSweep | ledger, cron | books never ahead of the money, schedule adds up, one loan at a time | `Lending` |
| Pots, currency balances, conversion, wallet views (`services/pots`, `balances`, `convert`, `wallet`) | balance and pot rows, pot accounts, receipts | create, reactivate, delete; fund, withdraw, archive; convert; summary, history | ledger, overdraft, rates | no money hidden but what came too late, books keep to the ledger, history shows every receipt once | `Wallets` |
| Business accounts (`services/business`, `permissions`) | members, roles, permission cache, pending transfers | register, invite, change and remove members, role CRUD, approve, reject | middleware, cache | the founder stays, rights were granted, a transfer is decided once and not by its initiator | `Business`, `Approval` |
| Business books (`handlers/business`) | invoices, batches, tax pots, documents, categories, labels, loans | create, update, pay, approve, process, label | receipts | numbers, payments and items add up, a payment is lost to an overlapping one at most | `BusinessBooks` |
| Sessions, onboarding, Telegram (`services/auth`, `onboarding`, `telegram`) | users, sessions, verifications, link tokens | register, login, refresh, logout, change password, OTP, bind | Fayda, ledger, bot | sessions come from logins and end with them, a link binds once, registration leaves a whole user | `Access` |
| Recipients, beneficiaries, cards of customers | rows | save, favourite, archive; add, delete; create, change status, limits, toggles | transfers save recipients; staff change cards | rows are distinct, counts add up, owners decide | `Directory` |
| Staff, flags, reconciliation (`services/admin`, `services/reconciliation`, `cmd/recon-worker`) | staff, tokens, flags, runs, exceptions | login, hire, update, deactivate; freeze, override; flag, resolve; one run per day; assign, escalate | clearing file, receipts, ledger | a deactivation holds, an update is lost to an overlapping one at most, a completed run counts every line that parses | `BackOffice` |
| Rules, rates, fees, quotes, caches (`services/regulatory`, `convert`, `pricing`, `remittance`, `pkg/cache`) | tables, cache entries, daily totals | CheckTransferAllowed, GetRate, CalculateFee, BestQuote; override, refresh, cleanup, rule and fee CRUD | rate feeds, providers, worker, Redis | limits follow the rules, the cheapest quote wins, a stale entry has a reason and an end | `ReferenceData` |
| Credit scoring, value packages | none, or one row of its own | formulas, parsing, formatting | lending, transfers | | not modelled |

### What is hard here

* **Two writes, no transaction.** Each operation that moves money posts to the
  ledger and then writes a row. A crash, an error or a lost confirmation between
  the two leaves them apart: after `HoldFunds` in a transfer or an
  authorization, after the transfer in `Pay`, after the collection in the sweep.
* **Check, then act.** Limits, statuses, debts and active loans are read in one
  statement and acted on several network calls later.
* **Absolute writes.** `UpdateRepaid` and `OptOut` write values computed from an
  old row.
* **Unknown outcomes.** EthSwitch may have executed what it did not confirm. It
  may answer `PENDING_ASYNC` and decide later.
* **Redelivery.** Clients repeat requests, the card switch repeats messages, and
  retryLedgerOp repeats postings.
* **Caches.** Readers fill them after a load that may be out of date by then; with the
  memory cache each process has its own.
* **Whole-row writes.** Staff, rules, fee schedules and invoices are read, changed in
  memory and written back.
* **Statements in a row without a transaction.** Permissions of a role, items of a
  batch, user and balance, conversion and receipts.
* **Rounding.** Shares, installments, fee ratios and conversions.

## 2. Modules

The plan puts the money first: the ledger and the transfer that leaves the bank,
then the facilities built on it, then what only reads or administrates.

| Module | Stands for |
|---|---|
| `Ledger` | accounts, one posting, its coverage check, and the three outcomes a caller can see |
| `Escrow` | the abstract promise of the Hold/Transmit/Settle/Void cycle |
| `OutboundTransfer` | the cycle itself; `ImplementsEscrow` maps it to `Escrow` |
| `...Proofs` | the theorems of a component, in a module that extends the component's; `OfficeAndOutboundProofs` is about `BackOffice` (with `Access` and `Directory`) and `OutboundTransfer`, `ClientRequestProofs` about `Wallets` and `Idempotency`, `BusinessProofs` about `Business` and `BusinessBooks` |
| `SumFacts` | sums over finite sets, and the induction they need |
| `Idempotency` | the middleware and its table |
| `Overdraft` | the facility as pure operators: decisions on a read row, statements on the current row |
| `PeerTransfer` | composes `Ledger` and `Overdraft` with the p2p, batch, repay, opt-in and opt-out requests |
| `CardAuth` | composes `Ledger` with the authorization, settlement and reversal of card payments |
| `PaymentRequest` | requests for money, the transfer being one step |
| `Lending` | composes `Ledger` with loans, manual repayment and the sweep |
| `Wallets` | composes `Ledger` and `Overdraft` with pots, currency balances, conversion and the history |
| `Approval` | the abstract promise of a pending transfer: decided once, not approved by its initiator |
| `Business` | registration, members, roles and their cache, approvals; `ApprovalsKeepTheRules` maps it to `Approval` |
| `BusinessBooks` | the handlers of invoices, batches, tax pots, documents, categories, labels, loans |
| `Access` | users, sessions, onboarding, Telegram links |
| `Directory` | extends `Access` with recipients, beneficiaries and the cards of a customer |
| `BackOffice` | extends `Directory` with staff, flags and reconciliation; its `BackOfficeNext` composes the three |
| `ReferenceData` | rates, rules, fees and quotes behind a cache, with their readers and writers |
| `MC...` | the instances for TLC |

### Conventions

A request, call, delivery or job is a process; `pc` (or `call[c].pc`, `job`) is
the step it is at. A step ends at a ledger call, a network call or an SQL
statement. What a step read is kept in a variable of the process (`read`,
`record`, `seen`, `picked`), so it can be stale when it is used. A crash, or an
error that makes the handler return, ends the process where it is; nothing in the code
resumes one. Definitions called `...Mutant` are the plausible mistakes the
`mutants` of `PROJECT.json` put in place of the definition that follows them; no
specification uses them.

### Formance

The ledger server is not in the repository. What is assumed of it, from how
`internal/ledger` uses it: a posting is atomic; it is refused when its source
does not cover it, `@world` excepted; an idempotency key that was used before
posts nothing; the client sees success, refusal, or an error although the posting
was applied (`CallOutcomes`). `HoldOpen` is the client's own check in
`SettleHold` and `VoidHold`, a call of its own before the posting. In `CardAuth`, where
several jobs may be at one hold, look and posting are two steps. `OutboundTransfer`
makes them one: a hold there has a single owner that closes it, and nobody else
can change the balance between the two calls.

### OutboundTransfer

| Action | Code |
|---|---|
| `Begin` | validation, frozen check, regulatory check. The daily total may read as 0 (the repository swallows the error). Rules without a model may refuse any transfer. |
| `HoldPhase` | Phase 1, `HoldFunds`; an unconfirmed hold is a hold nobody knows of |
| `Transmit`, `EthSwitchDecides`, `Response`, `NoResponse` | Phase 2: the request, the switch (external), its answer, the 15 s timeout |
| `SettlePhase`, `VoidPhase` | Phase 3: one attempt of `retryLedgerOp` each |
| `SaveReceipt`, `IncrementTotals` | the writes after settlement, whose errors are dropped |
| `Crash`, `Freeze`, `Unfreeze` | process death, the administrator |

`Answers(n)` lists what the caller may read when the switch is at stage `n`. An
error body of a proxy decodes into an empty status, because `client.go` does not
look at the HTTP status code.

### Idempotency

`AcquireLock` is the upsert, `Route` the three cases (completed, in flight, run),
`Handle` the handler, `MarkCompleted` the guarded UPDATE, `Respond` the answer.
`Fail` and `MarkFails` are deaths, lost answers and database errors, `Expire` the
passing of the lock's five minutes. A response is the number of the execution that
wrote it, so a replay of another execution's answer would be seen. `Anonymous`
stands for the order of the middlewares: a request the middleware sees before
authentication.

### PeerTransfer and Overdraft

Statements are applied to the row as it is, decisions are taken from the row as it
was read. Two variables are bookkeeping of the model: `unbooked[u]` is overdraft
money that moved and is not in the row, and `apart` says that no two requests that
involve a common user have been in flight at once. It separates what the
arithmetic and the failure handling get right from what concurrency breaks.

### CardAuth

`CheckCard`, `CheckLimits`, `ResolveSpend`, `HoldStep`, `Record` are steps 1 to 10
of `decide`; `PickRow`, `LookAtHold`, `CloseHold`, `MarkRow` are SettleAuthorization and
ReverseAuthorization: the row by its RRN, the balance of the hold, the posting, the unguarded UPDATE. The
settlement sends the amount it saw and is refused when it is gone; the void sends back what there is, and
succeeds with nothing (`void_nothing`). Their idempotency keys name the RRN, so a second hold of
the RRN is not closed by them, and the job marks its row all the same. `ConvertedCents` is a set: `math.Ceil` of a floating-point
product may give one cent more where the exact product is whole. A reversal is
a delivery like any other, as in `dispatch`. The behaviours fall into one calendar
day, so the daily sum covers all of them.

### PaymentRequest

Creation is one `Insert` per row, each of which may fail. The other calls read a
row and later update it under `WHERE status = 'pending'`; `Pay` has the transfer
in between, which may also fail after it moved the money. The row a call works on
is any that exists. A workload is a set of calls in flight together with their
forms; a behaviour starts by choosing one.

### Lending

`Apply`, `Disburse`, `CreateLoan`, `CreateInstallments` are DisburseLoan;
`Repay...` are the statements of ManualRepay; `Sweep...` those of
AutoSweep and processInstallment. The time counts months, the step of the schedule.
The principal's part of a payment, `int64(float64(amount) * ratio)`, is the exact
quotient rounded down, or one less where the product is whole and floating
point falls short of it. `lent`, `collected` and `returned` record what the ledger did for a
loan.

### Wallets

One user with two currencies and an overdraft. `CreateCurrencyBalance`, `SaveBalance`,
`GenerateAccountDetails` are the creation of a balance (check, reactivate or insert, details),
`DeleteCurrencyBalance` and `DeleteBalance` its deletion (read, look at the ledger, soft-delete);
the pot actions are the statements and postings of the pot
service; `Convert` to `ConvertInReceipt` the check, the posting, the two receipts and the automatic
repayment between them. `late` and `exposed` record what money arrived after the
look at the balance that an archive or a deletion rests on. `Views(page)` is the pairing
ListTransactions does on a page.

### Business and BusinessBooks

A call of `Business` passes the middleware (`RequirePermission`, through the cache) and then
takes its statements one by one. SetPermissions clears and grants permission by permission, so a reader may load and cache part
of a role. `held[r]` records
the permissions a role has had. In `BusinessBooks` the tables are functions from identifiers
to rows, a row created by a call has the call as its identifier, and a handler is one
action per statement; `Dies` ends a call anywhere. `before[c]` records which requests had been
answered when `c` began, so that two requests overlap when neither is in the other's.

### Access, Directory and BackOffice

The state of customers is in `db` (Access, Directory), that of staff in `office`. Requests
are records, `call[c]` is where request `c` is and what it read. `took` says
that the statement that matters (a Revoke, a Consume, an Archive) changed a row, `cut` and
`flying` what a revocation met. Fayda and the clearing file are external: Fayda
answers anything, the file is a constant. `chain` of a session is the set of requests that led to it,
from the login on. A staff login reads the row and compares the password in one step and makes out the token in
another; so a deactivation may come between. For a request that writes a staff row `cut` is the set of
writes to the row it had seen, for a deactivation the logins that had a token or were about to.
A line of the clearing file that does not parse has no reference; a lookup of a receipt that fails counts
as one that finds none.

### ReferenceData

A reader of class `fx`, `rules`, `fees` or `quotes` looks into the cache (`Get`),
loads from the tables (`Load`, `LoadGlobal`) and stores (`Store`); a writer writes its row and
then invalidates the class. `redis` chooses between a cache that all processes share
and fails at times, and a memory of the API that the worker cannot reach; with the memory
cache one API process is assumed (each further one would be one more that nobody tells). `excuse` marks an entry
that nobody was able to invalidate; `StaleForAReason` uses it, no guard does. A transfer goes through
the seven checks of CheckTransferAllowed as stages, each with its own read of a rule, and
`Settle` counts it. Rates are fixed-point with `Scale`; days stand for the dates of
rules and totals.

## 3. Runs

Passing runs, with their distinct states:

| Run | Instance | States | Shows |
|---|---|---|---|
| `outbound` | two transfers of one user, a wallet and a limit that cover either but not both, 3 attempts | 85,890 | holds are spent once; ledger, books and answers agree with the switch; the cycle implements `Escrow`; every request is answered or its process died |
| `idempotency_safety` | four clients on one key: two alike, one with another body, one unauthenticated; one failure | 43,200 | one body per key, genuine replay, completed is final, every client is served |
| `peer_transfer` | opt-in, a batch of two that needs cover, an inflow, a repayment and opt-out, in any interleaving | 480,396 | money is conserved and books follow payments; where requests do not overlap, the overdraft row keeps to the ledger and its limit |
| `card_safety` | a purchase delivered twice, a foreign purchase, a settlement and two reversals that look before they post | 1,135,302 | one hold per message, a hold goes one way once, rows close on a posting for their RRN and are final when the jobs at their hold have ended, conversion covers the purchase |
| `payment_request` | seven workloads: one request and six calls on it, a batch that is paid and cancelled while it is created, five forms of other kinds | 17,581 | transfers are accounted for, closed rows stay closed, reminders are bounded, shares add up |
| `lending_safety` | two applications, two repayments and the sweep of one borrower, two months | 654,091 | total and marked installments never exceed what was collected, repaid means covered, schedule and shares add up |
| `wallets` | up to four requests, two at a time, on one wallet with two pots, two currencies and a debt | 443,935 | hidden money came late, the books keep to the ledger, pages show each receipt once |
| `business` | any three of twelve requests of two users on one business | 313,894 | the founder stays in, rights were granted, approvals implement `Approval` |
| `business_books` | any three of thirty-two requests on the books of two businesses | 187,077 | numbers, payments, batches and references add up; a payment is lost, or a status contradicts the amounts, only where requests on the invoice overlapped |
| `back_office` | up to four requests of one of eleven groups of related ones | 123,702 | sessions are earned; deactivations hold but for logins under way, staff updates are lost to overlaps only, a reconciliation counts every line that parses or blocks its day, other records are kept |
| `reference_data` | two requests of one of eighteen groups, with expiry, restarts, a failing Redis and the passing of a day | 120,290 | limits and quotes follow what was read, a stale entry has a reason, and the cache catches up |

`idempotency_first_run` expects a violation: the first execution of a key is to run the
handler (`middleware/idempotency.go:95`), and is answered 409 instead. `findings` in
`PROJECT.json` quotes the line.

### Other disagreements

The models reach these too; no run is kept for them. The first list was seen as
TLC counterexamples of the formula given or described.

* `gateway/ethswitch/models.go:27` says "StatusCheckResponse is returned when polling a
  pending transaction"; `services/payments/service.go:251` treats PENDING_ASYNC as a
  rejection. In `OutboundTransfer` a sender is refunded and the transfer executed late:
  `Voided(t) => network[t] # "executed_late"` fails.
* `ARCHITECTURE.md:230` says of the key table "Atomic lock acquisition; prevents
  double-spending on network retries". A row whose lock has expired is run again by every
  retry, because the lock is not extended: two executions of one key in `Idempotency`.
* `services/overdraft/service.go:240` says "Repay applies a manual repayment: debit wallet to overdraft
  capital, reduce used_cents and accrued_fee_cents." UpdateRepaid writes absolute values,
  over a concurrent UseCover: without `apart`, `DebtMatchesMoneyApart` fails in `PeerTransfer`.
* `migrations/000004_cards_authorizations.up.sql:64` defines "'reversed', -- Full reversal (merchant
  cancelled)"; the ISO 8583 router hands 0400 and 0420 to the authorization handler.
  In `CardAuth` a reversal message puts money on hold.
* `internal/domain/loan.go:35` says "RemainingCents returns how much the borrower still owes." The
  sweep collects full installments whatever was repaid by hand: it is negative in
  `Lending`.
* `internal/services/payments/service.go:184` says "queue for background check".
  Nothing does: `(reply[t] = "pending_verification") ~> ~OnHold(t)` fails in
  `OutboundTransfer` under `FairSpec`.
* `middleware/idempotency.go:52` says the authentication middleware comes first;
  `cmd/api/routes.go:74` mounts the idempotency middleware on the root router, before
  `Auth`. With `Anonymous = Clients`, one lost response runs the handler twice
  in `Idempotency`.
* `services/overdraft/service.go:164` says "OptOut disables overdraft only when
  used_cents == 0". UseCover between OptOut's read and its write leaves
  `od[u].status = "inactive"` with `od[u].used > 0` in `PeerTransfer`.
* `migrations/000004_cards_authorizations.up.sql:74` calls the retrieval reference number
  "unique per authorization". A repeated message leaves two rows under one number
  in `CardAuth`.
* Line 35 of that migration says "Spending limits (enforced at authorization time)".
  `SumApprovedToday(c) <= DailyLimit` fails in `CardAuth`, by a failed sum
  query and by two messages that read the sum before either is recorded.
* `internal/domain/errors.go:319` says "you already have an active loan; repay it before
  applying for a new one". Two applications that both list the loans first leave two
  active loans in `Lending`; and a loan the sweep has collected in full stays
  active, so its borrower stays refused.

These follow from the code as modelled; the properties are stated so that they hold
of it:

* `services/convert/rate_provider.go:29` says of the bid "Bank buys (user sells) — slightly below mid" and of the
  ask "slightly above mid". Both directions of a conversion use the ask of their pair, so
  the user gets more than mid each way; the fee that `handlers/fx_rates.go:154`
  shows is mid less ask, never positive.
* Invoice numbers are unique over all businesses (`000011_business_accounts.up.sql:366`) and counted per
  business: the first invoice of a second business is refused.
* `migrations/000016_recipients.up.sql:45` says "One active recipient per owner"; the index has the status
  as a column, so there is one archived one as well, and archiving a recipient that was
  archived before fails. A bank recipient without an account number is
  outside the index and doubles with each save.
* `services/reconciliation/service.go:96` says "Check Formance for the actual posted transaction" and asks for the history
  of an *account* of that name. `Verdict` lets the answer be anything.
* `services/onboarding/service.go` writes the status of a verification only when it fails; on success the row
  stays pending.
* A reversal that looked at a hold before a settlement took it posts nothing, succeeds, and marks the cleared row
  reversed (`services/card_auth/service.go:466`); one that finds the key of its RRN used by another hold marks its row reversed
  while the money stays on hold.
* Two refreshes with one token may both open a session: the second goes on although its Revoke
  changed nothing (`services/auth/service.go:146`).
* A staff login that read the row before a deactivation gets a token after it; of two overlapping changes of a staff row
  the later write undoes the earlier one (`services/admin/staff_service.go:49`); likewise of two payments of one invoice
  (`handlers/business/invoices.go:204`).
* A reconciliation that fails, or dies and stays `running`, keeps its day from being reconciled: `run_date` is unique. Lines
  that do not parse are counted nowhere (`services/reconciliation/service.go:79`).
* A death between the collection of an installment and its mark makes the next sweep collect it again.
* Transfers under way together pass the daily limit together, since totals are counted after settlement.
* A colleague who becomes an owner between the check and the write of UpdateMemberRole or RemoveMember is demoted or
  removed (`services/business/service.go:256`); the founder cannot be, who is an owner from the start.
* A card that staff cancelled becomes active again by the owner's UpdateStatus or by Unfreeze.
* A business whose registration fails after the business row has no member, and nobody can
  enter it.
* `services/remittance/router.go:99` takes a negative cost for "none yet": where more is delivered than
  was sent, as from USD to ETB, the last answer wins, not the cheapest.
* `services/regulatory/service.go:184` reads the monthly total in USD; totals are counted in the
  currency of the transfer, so the cap sees USD transfers alone. A rule or a total that cannot be read
  skips its check.
* Two rules of one scope that are in force together: the statement orders them by scope and
  scope value alone, and either may win.

### Bounds, and why they are enough

Two requests on one wallet, key, row or loan are enough for each race the
hazards name, because each needs one reader and one writer; the instances have
three or more where a third actor matters (a retry between two owners of a lock,
a decline between two payments). Amounts are chosen so that each boundary is crossed
in both directions: the wallet covers one transfer and not two, the overdraft
limit one shortfall, the share of a batch drops to zero, an installment does not
divide, a conversion is inexact. `Attempts = 3` is the code's own
number. `MaxFailures` in `Idempotency` bounds the failures of one behaviour. `MaxReminders` is 3 in the
code and 1 in `payment_request`, so that two reminders reach it. `MaxMonths = 2` is the
length of the schedule. The later modules name a set of requests each and bound how many of them a
behaviour serves: `MaxStarts` (4 in `wallets` and `back_office`, 3 in `business`, 2 in
`reference_data`; `MaxServed`, 3 in `business_books`), because a race needs one reader, one writer and at
times somebody who set the scene. `Groups` put together the requests that write, or decide on, a common row or cache
entry; a request that matters to two of them (a freeze, a change of a rate) is in both. Requests of different groups are not mixed.
`MaxRows` is the number of balance rows, three: two deleted and one active. `LastDay = 1` lets a rule come into
force, a limit start anew, and with `Retention = 0` a cleanup find something.
`CHECK_DEADLOCK FALSE` is used where all calls may be over
(`PaymentRequest`, `Lending`, `BusinessBooks`, `BackOffice`, `ReferenceData`); elsewhere stopping is an explicit `AllServed` step,
or an action that is always possible.

### Fairness

`OutboundTransfer`: weak fairness of `Proceed(t)` for each transfer, that is of
every step of the request but `Response`. The Go scheduler runs a runnable
goroutine, ledger and database calls return, and the EthSwitch client has a timeout
of 15 seconds; an answer of EthSwitch is not assumed. `Idempotency`: weak fairness of
each client's `Serve`, because a client repeats a request it has no answer to, and of
`Expire`, because time passes. `ReferenceData`: weak fairness of
`Expiry`, because entries of either cache carry a time to live of 30 or 60 seconds that nothing extends;
requests need none. It is part of `FairReferenceSpec`, which the run uses; the theorems are
about `ReferenceSpec`, which is the same without it. No other module assumes fairness.

## 4. Proofs

Seven modules prove properties of eleven components for every value of their
constants; `SumFacts` holds the lemmas about sums they share. Two components in one proof module
share no constant, no variable and no definition. The theorems that state a property of a run:

| Module | Theorem | States |
|---|---|---|
| `OfficeAndOutboundProofs` | `TypeCorrect`, `HoldsAreSpentOnce`, `LedgerAgreesWithNetwork`, `RepliesAreTrue`, `NoWalletOverdrawn` | `TypeOK`, `HoldSpentOnce`, `LedgerFollowsNetwork`, `ReplyIsTrue`, `WalletsCovered` |
| | `MoneyIsAccountedFor`, `BooksAreHonest` | `MoneyAccountedFor`, `BooksNeverOverstate` |
| | `Refinement` | `ImplementsEscrow` |
| | `SessionsTheorem`, `RecordsTheorem` | `SessionsAreEarned`, `RecordsAreKept` |
| `ClientRequestProofs` | `KeysHaveOneBody`, `ReplaysAreGenuine`, `CompletedRowsAreFinal` | `OneBodyPerKey`, `ReplayIsGenuine`, `CompletedIsFinal` |
| | `HiddenMoneyTheorem`, `WalletBooksTheorem`, `HistoryTheorem` | `HiddenMoneyCameLate`, `WalletBooksConsistent`, `HistoryShowsEachReceiptOnce` |
| `PeerTransferProofs` | `MoneyIsConserved`, `BooksAreKept` | `MoneyConserved`, `BooksFollowPayments` |
| | `DebtIsHonest`, `FacilityIsConsistent` | `DebtMatchesMoneyApart`, `FacilityConsistent` |
| `CardAndReferenceProofs` | `MessagesHoldOnce`, `HoldsCoverPurchases`, `ClearingIsFaithful`, `ClosedRowsAreFinal` | `OneHoldPerMessage`, `HoldCoversPurchase`, `ClearingFollowsLedger`, `ClosedRowIsFinal` |
| | `PolicyTheorem` | `PolicyIsApplied` |
| `PaymentRequestProofs` | `TransfersAreAccountedFor`, `BatchesAskForTheTotal`, `ClosedRequestsAreFinal` | `TransfersAccountedFor`, `BatchAsksForTheTotal`, `ClosedRequestIsFinal` |
| `LendingProofs` | `MoneyIsConserved`, `CapitalIsReturned`, `RepaidLoansAreCovered`, `SchedulesCoverDebts`, `BooksClaimNoMore` | `MoneyConserved`, `CapitalGetsItsShare`, `RepaidIsCovered`, `ScheduleCoversDebt`, `BooksClaimWhatWasTaken` |
| `BusinessProofs` | `FounderIsSafe`, `RightsAreGenuine` | `FounderKeepsBusiness`, `RightsWereGranted` |
| | `ApprovalIsImplemented` | `ApprovalsKeepTheRules` |
| | `BooksTheorem`, `PaymentsTheorem` | `BooksAddUp`, `PaymentsAreKept` |

So every property of a passing run is a theorem, but for the three that are about liveness.

The proofs use the named assumptions on the constants, which TLC evaluates on each run. They say
what the code's validation guarantees (amounts are positive, a batch has two to ten items, nobody sends to
himself, terms are 7 to 365 days, custom shares add up to the total) and that the sets of
users, requests and rows are finite; nothing bounds them. In the components that start from tables
with rows in them (`Access`, `Directory`, `BackOffice`, `BusinessBooks`, `ReferenceData`) they also say that those tables are such as
the code leaves them (a session has a user, a run counts its exceptions, numbers have no gap), that
a form has the fields its validation requires (`FormAssumption`: `validate:"required"` in
`services/auth/forms.go`; `BookFormAssumption`), and that the identifier of a new row, a random UUID, is new. In `ReferenceData`
amounts, the values of rules and the offers of providers are integers. The inductive invariants were checked by TLC on the
instances of the runs before they were proved.

### The arguments

None of the invariants is inductive alone. Each module ends with the strengthening it needs, `IInv`, and
`Invariance` is `Spec => []IInv`; in the modules about two components the names say which
(`WalletInvariance`, `IdempotencyInvariance`, `SessionInvariance`, `RecordInvariance`, `BooksInvariance`, `PaymentInvariance`, `PolicyInvariance`). Each proof has a lemma per action; what an action leaves alone
is kept by a frame lemma (`FrameKeeps`, `FrameRule`, `Moved`).

* **OutboundTransfer.** That a settle does not meet a voided hold depends on where the request is, which
  status it heard and what the switch did. `StepHistory` says for each step what the request has
  done so far: nothing before the hold, an open hold while it waits, and in the settle loop a hold
  that is open or *already settled* with the confirmation lost, never voided. It also needs
  `tries < Attempts` inside the loops and the balance of the hold account as a function of the tags
  posted on it, so that `HoldOpen` decides the retry. `TotalsCountAnswered` ties the daily totals to
  the transfers answered with success. The refinement maps the tags to the state of the escrow; under
  `IInv` each step is one of `Escrow` or a stutter.
* **Idempotency.** `RequestInv`: a request that went past the middleware carried the body of the
  row, a completed record is a copy of the row, and what MarkCompleted is about to write was produced by
  an execution of that key.
* **Wallets.** `CallInv` says what a request at each step knows: which row it read, that the row was active or
  empty when it looked, which posting it has made and which receipt it owes. Ledger, pots and user's total move together
  because a posting is between two accounts of the user, or one of them and the outside. `ClosedInv`: what a closed pot or balance
  holds is what `late` recorded, since whoever closes one has seen it empty, and a posting between the look and the close is counted as
  late when it is made. Receipts are numbered by their posting, so that a page shows each once follows from the pairing of two
  receipts of one conversion.
* **PeerTransfer.** `BookInv` says which items are paid at each step, always a prefix of the list, and which
  receipts may exist; `AmountInv` that the ledger is asked for amounts that are not negative, without which a
  posting could overdraw its destination. Every step is shown to leave the ledger alone or make one
  covered posting (`EveryStepPosts`), which keeps the total. `TotalsInv` counts the requests that have ended. For
  the overdraft, `ApartInv` adds that requests in flight have no user in common (`Isolated`), so that
  the row a request read is the row it writes over (`Fresh`); this is where `apart` is used, and what
  overlapping requests lack.
* **CardAuth.** `DeliveryInv` gives the hold account as a function of what was done to the hold; `KeyInv` says
  that whoever holds money has its message's key. Look and posting are apart, so `JobInv` keeps what is still true at
  the posting: a job that found money on a hold saw its full amount, because a hold is closed in one piece; hence a
  settlement that is not refused takes all of it, and a void finds all or nothing. A job about to mark a row used the key of
  its RRN. That a row is final follows once no job at its hold is between look and mark:
  a later one finds the hold empty.
* **PaymentRequest.** `CallInv` says what each kind of call may be doing and that its row exists, `BatchInv`
  that the rows of a batch are a prefix of its form with the amounts Amount gives. That the shares add up
  is arithmetic on sums: equal parts, the remainder in one of them.
* **Lending.** `ApplyInv` and `RepayInv` tie the steps of a call to the ledger and to the total it saw.
  The books cannot be compared with the ledger alone, because repayments and the sweep have money
  in hand that is not entered: `Claims` adds what each of them may still enter, once for the
  total and once for the marks. A mark may be made twice by two calls with overlapping lists;
  `Worth` counts what is still unmarked, so the second is worth nothing.
* **Business.** `FounderInv`, `RightsInv`, `DecisionInv`: the requests under way never aim at the founder, never
  carry a permission the role has not had, and never approve what their user asked for. The
  refinement of `Approval` follows from `DecisionInv`.
* **Sessions.** A revoked session stays revoked, and Revoke is `WHERE revoked_at IS NULL`, so of the refreshes and logouts that read one
  session at most one takes it, and the requests of a `chain` are of one user. (Both refreshes may go on and open a session.) A
  refresh that took its session before a logout or change of password revoked all of them is in `flying`
  when that happens; `CutsHold` says that what the user still holds afterwards comes from a login after the cut or from one of those.
* **Records.** One part per table. `OpsInv` says who may be at which step; then, a staff row is of one write, a resolved flag
  names who resolved it, a link token binds once, a run's counters are those of the lines it has gone through that parse (an
  exception per line that is flagged, a match per line that is sound). `LoginsCut`: the logins of a deactivated member that
  are still to give out a token were under way when it was deactivated, as the others find the row inactive. `WritersInv`: the row a
  request is about to write has its own columns and those of every write it had seen, unless a write lost them
  before. The times a recipient was used
  are the savers of that identity, and a card is what its owner or staff last asked for.
* **BusinessBooks.** `NumbersInv`: a number that was read is at most the next one, because invoices are never deleted; if it is
  not taken when it is inserted, it *is* the next one, since the numbers up to there are taken without
  a gap. `PaidInv`: what a payment saw is explained by payments that are over (`Explained`), and stays so; its own write adds itself,
  which was not over before. `BatchInv`: the items of a batch are a prefix of the form, with the sum of that
  prefix. `ReferenceInv`: who is about to mark a batch as processing knows it approved, and no
  statement takes an approval back. `PaymentInv`: a payment under way counts the payments that were over when it began, but for
  some that overlapped one another (`ReadWell`); when it writes, those it adds to the answered ones and does not count have not
  been over when it began, so they overlapped it. The total it read is the one of the row unless an edit came since, and that
  edit overlapped it too.
* **ReferenceData.** `RequestOK` says where a request is and what it has read. It mentions no variable but the
  record of the request, so the steps of the others leave it alone. `Chosen`: the rule whose limit
  waits for a rate was among the effective ones read. `TotalsCover`: a row of the daily totals is at
  least the sum of the transfers counted in it; a transfer that has not ended has no day, so it is not in that sum, and a
  check that met the total met all of them. `Weighed`: the best quote is the minimum while no
  cost is negative, which is where a target above the amount would go wrong. `StaleForAReason` is inductive with these: a write makes the
  entries of one class stale while its writer still owes the cache a word (`Owing`), and every way that
  writer ends deletes them or marks them as excused (`Thinned`).

`SumFacts` proves what a sum over a finite set does when a summand changes, moves, is added or is bounded.
The library's induction theorems take an operator, which the provers cannot instantiate; the lemmas use
induction for *sets* of numbers instead (`SetInduction`, from the well-foundedness of `<`), and
`SumExists` and `SumUnique` derive the defining equation of the recursive sum from it.

### Only model-checked

* `EveryRequestEnds`, `EveryClientServed`, `CacheCatchesUp`: liveness under fairness is beyond the
  prover.

## 5. Not modelled

* Encoding and transport: Numscript text, HTTP and JSON, the ISO 8583 codec.
* Currencies in transfers: `OutboundTransfer` and `PeerTransfer` are about one asset
  (overdrafts are ETB only); `CardAuth` has two.
* Audit entries, logging, notifications: written after the fact, read by nothing.
* Reads: listings, searches, analytics (`repository/admin_queries.go` but for the handling of
  exceptions), the loan queries, the lists, pages, summaries and the tax report of business books, credit scoring.
* The system configuration table: administrators write it, no other code reads it.
* The provider table and `remittance_transfers`: the router does not read the one, nothing
  writes the other; the Wise provider is a stub. The static rate provider is for tests.
* Value packages: parsing and formatting without state.
* The rate limiter: one atomic increment per request, fixed windows.
* `UpdateFeeAccrual`, `MarkFailed`, `PurgeExpired`, `DeleteExpired`, `UnbindTelegram`, `GetFXSpreadBps`,
  `GetPercentValue`, `GetDurationValue`, `WriteOff`, `ListPendingExpired` and
  `ResolvePayer` have no caller or no reachable precondition. `ExpireStale` has no
  caller either and is modelled, because a worker that calls it must not break
  the other calls.
* Monthly and international card limits: they decline further messages, which the
  model allows at any time.

## 6. Plan

The suite is kept to a dozen runs, so that all of it can be repeated in minutes: one
passing run for each area and one violation run. What is left:

1. Compose `ReferenceData` with `OutboundTransfer`, whose `Begin` has the daily limit alone.
2. Credit scoring as operators against its documented bounds.
