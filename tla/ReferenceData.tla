---------------------------- MODULE ReferenceData ----------------------------
(***************************************************************************)
(* The data that decides prices and limits - exchange rates, regulatory    *)
(* rules, fee schedules and quotes of remittance providers - with the      *)
(* cache in front of it, its readers, the administrators and the worker    *)
(* that change it, and the check of a transfer against the rules.          *)
(*                                                                         *)
(* A request runs one SQL statement, one call of the cache or one answer   *)
(* of a provider per step; it may fail or die in between.  A cached value  *)
(* is the set of rows it holds.  The cache is Redis, shared with the       *)
(* worker and fallible, or the API process's memory, which the worker      *)
(* cannot reach.  Rates are whole numbers of 1 / Scale.  Audit entries are *)
(* left out.                                                               *)
(***************************************************************************)
EXTENDS Integers, Sequences, FiniteSetsExt, SequencesExt, Functions

CONSTANTS
  Form,       \* Form[c]: what request c asks for; it is sent at most once
  Groups,     \* sets of requests: a behaviour sends those of one of them
  OpeningTables,  \* the tables when the model starts
  Users,      \* Users[u]: the account type and KYC level of u
  Feeds,      \* answers of a rate source: the price of a dollar in each currency it knows
  Corridors,  \* Corridors[p]: <<from, to>> that remittance provider p serves
  Targets,    \* Targets[p]: amounts that p may offer to deliver
  Scale,      \* a rate of 1
  Spread,     \* spreadPercent, in 1 / Scale
  Retention,  \* days for which rates are kept
  LastDay,    \* bound: days that pass
  MaxStarts   \* bound: requests served

ASSUME ReferenceAssumption ==
  /\ {Scale, Retention, LastDay, MaxStarts} \subseteq Nat /\ Scale > 0
  /\ \A g \in Groups : g \subseteq DOMAIN Form /\ IsFiniteSet(g)
\* Amounts and the values of rules are integers.
ASSUME FormAssumption ==
  \A c \in DOMAIN Form :
    /\ Form[c].op \in {"transfer", "quote"} => Form[c].cents \in Int
    /\ Form[c].op = "createRule" => Form[c].value \in Int
    /\ Form[c].op = "updateRule" => Form[c].value \subseteq Int
\* So are the rows of the tables at the start, and what the providers offer.
ASSUME OpeningTablesAssumption ==
  /\ DOMAIN OpeningTables = {"rates", "rules", "fees", "totals"}
  /\ \A i \in DOMAIN OpeningTables.rules :
       "value" \in DOMAIN OpeningTables.rules[i] /\ OpeningTables.rules[i].value \in Int
  /\ \A a \in DOMAIN OpeningTables.totals : OpeningTables.totals[a] \in Nat
  /\ \A p \in DOMAIN Corridors : Targets[p] \subseteq Int

VARIABLES
  db,     \* tables rates, rules, fees and totals
  cache,  \* cache[k]: [val, ttl, excuse]; excuse is a history variable, see StaleForAReason
  redis,  \* the cache is Redis
  now,    \* the day
  call,   \* call[c]: where request c is and what it has read
  starts  \* requests started

referenceVars == <<db, cache, redis, now, call, starts>>
None == "none"   \* SQL NULL
KYCVerified == 2

\* A request that is not being served: what it asked, its outcome, and no working state.
CallRecord(pc, ask, ans, applied, day) ==
  [pc |-> pc, ask |-> ask, ans |-> ans, applied |-> applied, day |-> day,
   key |-> <<>>, load |-> {}, got |-> <<>>, todo |-> <<>>, stage |-> 1, row |-> <<>>,
   waiting |-> {}, quotes |-> {}, best |-> {}, bestCost |-> -1]
ReferenceInit ==
  /\ db = OpeningTables
  /\ cache = <<>>
  /\ redis \in BOOLEAN
  /\ now = 0
  /\ \E g \in Groups : call = [c \in g |-> CallRecord("new", Form[c], 0, {}, -1)]
  /\ starts = 0

Calls == DOMAIN call
Req(c) == call[c].ask
OfWorker(c) == Req(c).op = "refresh" /\ Req(c).by = "worker"
InFlight(c) == call[c].pc \notin {"new", "done", "failed"}
Begins(c, op) == /\ call[c].pc = "new" /\ Req(c).op = op
                 /\ starts < MaxStarts /\ starts' = starts + 1
                 /\ UNCHANGED <<redis, now>>
At(c, step) == call[c].pc = step /\ UNCHANGED <<redis, now, starts>>
Moves(c, step) == call' = [call EXCEPT ![c].pc = step]
Ended(c, end) == CallRecord(end, Req(c), call[c].ans, call[c].applied, call[c].day)
Finish(c, ok) == call' = [call EXCEPT ![c] = Ended(c, IF ok THEN "done" ELSE "failed")]
Answer(c, x) == call' = [call EXCEPT ![c] = CallRecord("done", Req(c), x, call[c].applied, call[c].day)]
\* The sum of f(x) over S, by the library's sum of a function.
SumOf(f(_), S) == SumFunctionOnSet([x \in S |-> f(x)], S)
Put(table, id, row) == [x \in DOMAIN table \cup {id} |-> IF x = id THEN row ELSE table[x]]
Rounded(x) == (2 * x + Scale) \div (2 * Scale)   \* math.Round of x / Scale, x >= 0
-----------------------------------------------------------------------------
(* The tables. *)

GetLatest(from, to) ==
  IF <<from, to>> \in DOMAIN db.rates /\ db.rates[<<from, to>>] # <<>>
  THEN {Last(db.rates[<<from, to>>]).mid} ELSE {}
InsertRate(rates, from, to, mid) ==
  LET rows == IF <<from, to>> \in DOMAIN rates THEN rates[<<from, to>>] ELSE <<>>
  IN Put(rates, <<from, to>>, Append(rows, [mid |-> mid, at |-> now]))
DeleteOlderThan(rates, day) == [p \in DOMAIN rates |-> SelectSeq(rates[p], LAMBDA r : r.at >= day)]

\* row.to is {} for NULL.
InForce(row, day) == row.from <= day /\ \A t \in row.to : t > day
ListEffectiveByKey(key, day) == {r \in Range(db.rules) : r.key = key /\ InForce(r, day)}
FindMatching(tx, currency, channel, day) ==
  {r \in Range(db.fees) : /\ r.tx = tx /\ r.active /\ InForce(r, day)
                          /\ r.currency \in {None, currency} /\ r.channel \in {None, channel}}

\* What a load of key k finds on a day; quotes have no table.
OnDay(k, day) ==
  CASE k[1] = "fx" -> GetLatest(k[2], k[3])
    [] k[1] = "rules" -> ListEffectiveByKey(k[2], day)
    [] k[1] = "fees" -> FindMatching(k[2], k[3], k[4], day)
Fresh(k) == OnDay(k, now)
Stale(k) == k \in DOMAIN cache /\ k[1] # "quotes" /\ cache[k].val # Fresh(k)

\* Rows of transfer_daily_totals; a read that fails counts as no row.
Total(user, currency, direction, days) ==
  SumOf(LAMBDA d : db.totals[<<user, currency, direction, d>>],
        {d \in days : <<user, currency, direction, d>> \in DOMAIN db.totals})
GetDailyTotal(user, currency, direction) == {0, Total(user, currency, direction, {now})}
GetMonthlyTotal(user, currency, direction) == {0, Total(user, currency, direction, 0..now)}
Increment(totals, account, cents) == Put(totals, account, cents + (IF account \in DOMAIN totals THEN totals[account] ELSE 0))
-----------------------------------------------------------------------------
(* The cache. *)

Ttl(k) == IF k[1] = "quotes" THEN 30 ELSE 60
NeverExpiresMutant(k, val) ==
  [val |-> val, ttl |-> 0, excuse |-> k[1] # "quotes" /\ val # Fresh(k)]
Entry(k, val) ==
  [val |-> val, ttl |-> Ttl(k), excuse |-> k[1] # "quotes" /\ val # Fresh(k)]
Excuse(ks) == [k \in DOMAIN cache |-> [cache[k] EXCEPT !.excuse = @ \/ k \in ks]]

Set(k, val) == \/ cache' = Put(cache, k, Entry(k, val))
               \/ redis /\ UNCHANGED cache
\* Redis may fail after any part of the scan.
DeleteByPrefix(class) ==
  LET found == {k \in DOMAIN cache : k[1] = class}
  IN \/ cache' = Restrict(cache, DOMAIN cache \ found)
     \/ redis /\ \E gone \in SUBSET found : cache' = Restrict(Excuse(found), DOMAIN cache \ gone)
Expire(k) ==
  /\ k \in DOMAIN cache /\ cache[k].ttl > 0
  /\ cache' = Restrict(cache, DOMAIN cache \ {k})
  /\ UNCHANGED <<db, redis, now, call, starts>>

\* A schedule list that is empty was stored as JSON null and is loaded again.
Cached(k) == IF k \in DOMAIN cache THEN {cache[k].val} \ (IF k[1] = "fees" THEN {{}} ELSE {}) ELSE {}

Reads(c, k) == call' = [call EXCEPT ![c].pc = "get", ![c].key = k]
Got(c, val) == call' = [call EXCEPT ![c].pc = "use", ![c].load = {}, ![c].got = Put(call[c].got, call[c].key, val)]
Get(c) ==
  /\ At(c, "get")
  /\ \/ \E val \in Cached(call[c].key) : Got(c, val)
     \/ (redis \/ Cached(call[c].key) = {}) /\ Moves(c, IF call[c].key[1] = "quotes" THEN "corridors" ELSE "load")
  /\ UNCHANGED <<db, cache>>
\* A load that fails reads as no row, except that CalculateFee gives up.
LoadFails(c) == IF call[c].key[1] = "fees" THEN Finish(c, FALSE) ELSE Got(c, {})
Load(c) ==
  /\ At(c, "load")
  /\ \/ LoadFails(c)
     \/ /\ call[c].key[1] # "fx" \/ Fresh(call[c].key) # {}
        /\ call' = [call EXCEPT ![c].load = Fresh(call[c].key),
                                ![c].pc = IF call[c].key[1] = "fees" /\ Fresh(call[c].key) = {} THEN "loadGlobal" ELSE "set"]
  /\ UNCHANGED <<db, cache>>
LoadGlobal(c) ==
  /\ At(c, "loadGlobal")
  /\ \/ Finish(c, FALSE)
     \/ call' = [call EXCEPT ![c].pc = "set", ![c].load = FindMatching(call[c].key[2], None, None, now)]
  /\ UNCHANGED <<db, cache>>
Store(c) ==
  /\ At(c, "set") /\ Set(call[c].key, call[c].load) /\ Got(c, call[c].load) /\ UNCHANGED db
Read(c) == Get(c) \/ Load(c) \/ LoadGlobal(c) \/ Store(c)
Use(c, op) == At(c, "use") /\ Req(c).op = op /\ UNCHANGED <<db, cache>>
Value(c) == call[c].got[call[c].key]
-----------------------------------------------------------------------------
(* Readers of rates. *)

FX(pair) == <<"fx", pair[1], pair[2]>>
HandleGetRate(c) ==
  /\ Begins(c, "rate") /\ UNCHANGED <<db, cache>>
  /\ IF Req(c).from = Req(c).to THEN Answer(c, Scale) ELSE Reads(c, <<"fx", Req(c).from, Req(c).to>>)
ShowRate(c) == Use(c, "rate") /\ (\/ Value(c) = {} /\ Finish(c, FALSE)
                                  \/ \E mid \in Value(c) : Answer(c, mid))

\* The calculator of /fx/convert: cents at the asking rate.
ToCentsAtAsk(cents, mid) == Rounded(cents * ((mid * (2 * Scale + Spread)) \div (2 * Scale)))
HandleConvert(c) == Begins(c, "convert") /\ Reads(c, <<"fx", Req(c).from, Req(c).to>>) /\ UNCHANGED <<db, cache>>
ShowConversion(c) == Use(c, "convert") /\ (\/ Value(c) = {} /\ Finish(c, FALSE)
                                           \/ \E mid \in Value(c) : Answer(c, ToCentsAtAsk(Req(c).cents, mid)))

\* The list of all pairs; a pair without a rate is left out.
HandleListRates(c) ==
  /\ Begins(c, "list") /\ UNCHANGED <<db, cache>>
  /\ call' = [call EXCEPT ![c].pc = "get", ![c].key = FX(Head(Req(c).pairs)), ![c].todo = Tail(Req(c).pairs)]
NextPair(c) ==
  /\ Use(c, "list")
  /\ IF call[c].todo = <<>> THEN Answer(c, Quantify(DOMAIN call[c].got, LAMBDA k : call[c].got[k] # {}))
     ELSE call' = [call EXCEPT ![c].pc = "get", ![c].key = FX(Head(call[c].todo)), ![c].todo = Tail(call[c].todo)]
-----------------------------------------------------------------------------
(* Fees and quotes. *)

ComputeFee(row, cents) ==
  LET share == (cents * row.bps) \div 10000
      atLeast == IF row.min > 0 /\ share < row.min THEN row.min ELSE share
      atMost == IF row.max > 0 /\ atLeast > row.max THEN row.max ELSE atLeast
  IN CASE row.type = "transfer_flat" -> row.flat
       [] row.type \in {"transfer_percent", "corridor_markup"} -> atMost
       [] OTHER -> 0
SumFees(rows, cents) == SumOf(LAMBDA r : ComputeFee(r, cents), rows)
CalculateFee(rows, cents) == SumFees({r \in rows : r.type # "fx_spread"}, cents)
HandleFeeQuote(c) ==
  Begins(c, "fee") /\ Reads(c, <<"fees", Req(c).tx, Req(c).currency, Req(c).channel>>) /\ UNCHANGED <<db, cache>>
ShowFee(c) == Use(c, "fee") /\ Answer(c, CalculateFee(Value(c), Req(c).cents))

HandleInternationalQuote(c) ==
  Begins(c, "quote") /\ Reads(c, <<"quotes", Req(c).from, Req(c).to, Req(c).cents>>) /\ UNCHANGED <<db, cache>>
\* BestQuote asks the providers of the corridor at the same time ...
AskProviders(c) ==
  LET matching == {p \in DOMAIN Corridors : <<Req(c).from, Req(c).to>> \in Corridors[p]}
  IN /\ At(c, "corridors") /\ UNCHANGED <<db, cache>>
     /\ IF matching = {} THEN Finish(c, FALSE)
        ELSE call' = [call EXCEPT ![c].pc = "quotes", ![c].waiting = matching]
\* ... and weighs their answers in the order in which they come.
ProviderAnswers(c, p) ==
  /\ At(c, "quotes") /\ p \in call[c].waiting /\ UNCHANGED <<db, cache>>
  /\ \/ call' = [call EXCEPT ![c].waiting = @ \ {p}]
     \/ \E target \in Targets[p] :
          LET quote == [provider |-> p, target |-> target]
              cost == Req(c).cents - target
              better == call[c].bestCost < 0 \/ cost < call[c].bestCost
          IN call' = [call EXCEPT ![c].waiting = @ \ {p}, ![c].quotes = @ \cup {quote},
                                  ![c].best = IF better THEN {quote} ELSE @,
                                  ![c].bestCost = IF better THEN cost ELSE @]
KeepQuote(c) ==
  /\ At(c, "quotes") /\ call[c].waiting = {} /\ UNCHANGED db
  /\ \/ call[c].best = {} /\ Finish(c, FALSE) /\ UNCHANGED cache
     \/ call[c].best # {} /\ Set(call[c].key, call[c].best) /\ Got(c, call[c].best)
\* GetQuote adds the markup; no schedule, or a failed read, adds nothing.
ShowQuote(c) ==
  /\ Use(c, "quote")
  /\ \E rows \in {{}, FindMatching("international_transfer", None, None, now)} :
       Answer(c, SumFees({r \in rows : r.type = "corridor_markup"}, Req(c).cents))
-----------------------------------------------------------------------------
(* The check of a transfer against the rules. *)

\* -1: the rule does not apply.
MatchPriority(rule, user, currency) ==
  CASE rule.scope = "currency" -> IF rule.scopeValue = currency THEN 4 ELSE -1
    [] rule.scope = "account_type" ->
         IF rule.scopeValue = Users[user].accountType THEN 3 ELSE IF rule.scopeValue = "fx_holder" THEN 2 ELSE -1
    [] rule.scope = "kyc_level" -> IF rule.scopeValue = ToString(Users[user].kyc) THEN 2 ELSE -1
    [] rule.scope = "global" -> 1
    [] OTHER -> -1
\* The rules that may be the first of the highest priority: the query sorts by
\* scope, and says nothing of two rows of one scope that overlap in time.
Effective(rules, user, currency) ==
  LET best == {r \in rules : /\ MatchPriority(r, user, currency) >= 0
                             /\ \A o \in rules : MatchPriority(o, user, currency) <= MatchPriority(r, user, currency)}
  IN {r \in best : r.scope = "account_type" \/ \A o \in best : o.scope # "account_type"}

\* The stages of CheckTransferAllowed that read a rule; stage 4 reads none.
RuleKey == <<"daily_transfer_limit", "outbound_remittance_monthly_cap", "advance_payment_medical_education_cap",
             None, "outbound_investment_enabled", "outbound_remittance_doc_threshold">>
LastStage == 6
Applies(r, stage) ==
  CASE stage = 1 -> TRUE
    [] stage = 2 -> r.direction \in {"outbound", "card_international"}
    [] stage = 3 -> r.purpose \in {"medical", "education"}
    [] stage = 4 -> TRUE
    [] stage = 5 -> r.purpose = "investment"
    [] stage = 6 -> r.direction = "outbound"
\* ETB stays in the country, and leaving it takes a verified identity.
Blocked(r) == /\ r.direction = "outbound" /\ r.destination \notin {None, "domestic"}
              /\ (r.currency = "ETB" \/ Users[r.user].kyc < KYCVerified)
RuleCurrency(r, stage) == CASE stage \in {1, 2} -> r.currency [] stage = 5 -> None [] OTHER -> "USD"

NextStage(c, applied) ==
  call' = [call EXCEPT ![c].pc = "check", ![c].stage = @ + 1, ![c].got = <<>>, ![c].applied = @ \cup applied]
HandleTransfer(c) == Begins(c, "transfer") /\ Moves(c, "check") /\ UNCHANGED <<db, cache>>
CheckTransferAllowed(c) ==
  LET r == Req(c)
      stage == call[c].stage
  IN /\ At(c, "check") /\ UNCHANGED <<db, cache>>
     /\ IF stage > LastStage THEN Moves(c, "settle")
        ELSE IF ~Applies(r, stage) THEN NextStage(c, {})
        ELSE IF stage = 4 THEN IF Blocked(r) THEN Finish(c, FALSE) ELSE NextStage(c, {})
        ELSE Reads(c, <<"rules", RuleKey[stage]>>)

\* used, drawn from a table, and the amount itself against the rule's limit.
Judge(c, rule, used, cents) ==
  LET stage == call[c].stage
      over == used + cents > rule.value /\ (stage = 6 => Req(c).purpose = "general")
      account == <<Req(c).user, Req(c).currency, Req(c).direction, now>>
  IN IF over THEN Finish(c, FALSE)
     ELSE NextStage(c, {[stage |-> stage, rule |-> rule, rules |-> call[c].got[<<"rules", RuleKey[stage]>>], used |-> used, day |-> now,
                         seen |-> {d \in Calls : call[d].day = now /\ <<Req(d).user, Req(d).currency, Req(d).direction, now>> = account}]})
Used(r, stage) ==
  CASE stage = 1 -> GetDailyTotal(r.user, r.currency, r.direction)
    [] stage = 2 -> GetMonthlyTotal(r.user, "USD", r.direction)
    [] OTHER -> {0}
\* No rule, or none to be read: no check, and no investment.  The total is read
\* before the amount is converted, and may be old when the rate is there.
JudgeRule(c) ==
  LET r == Req(c)
      stage == call[c].stage
      found == Effective(Value(c), r.user, RuleCurrency(r, stage))
  IN /\ Use(c, "transfer") /\ call[c].key[1] = "rules"
     /\ \/ found = {} /\ (IF stage = 5 THEN Finish(c, FALSE) ELSE NextStage(c, {}))
        \/ \E rule \in found :
             IF stage = 5 THEN IF rule.value = 1 THEN NextStage(c, {}) ELSE Finish(c, FALSE)
             ELSE IF rule.value <= 0 THEN NextStage(c, {})
             ELSE IF stage = 1 \/ r.currency = "USD" THEN \E used \in Used(r, stage) : Judge(c, rule, used, r.cents)
             ELSE \E used \in Used(r, stage) :
               call' = [call EXCEPT ![c].pc = "get", ![c].key = <<"fx", r.currency, "USD">>, ![c].row = <<rule, used>>]
ConvertToUSD(cents, mid) == Rounded(cents * mid)
JudgeRate(c) ==
  /\ Use(c, "transfer") /\ call[c].key[1] = "fx"
  /\ \/ Value(c) = {} /\ Finish(c, FALSE)
     \/ \E mid \in Value(c) : Judge(c, call[c].row[1], call[c].row[2], ConvertToUSD(Req(c).cents, mid))
\* The payment itself; a total that cannot be raised is ignored.
Settle(c) ==
  /\ At(c, "settle") /\ UNCHANGED cache
  /\ \/ \E ok \in BOOLEAN : Finish(c, ok) /\ UNCHANGED db
     \/ /\ db' = [db EXCEPT !.totals = Increment(db.totals, <<Req(c).user, Req(c).currency, Req(c).direction, now>>, Req(c).cents)]
        /\ call' = [call EXCEPT ![c] = CallRecord("done", Req(c), call[c].ans, call[c].applied, now)]
-----------------------------------------------------------------------------
(* Writers: the row first, then the cache. *)

Class(op) == CASE op \in {"override", "refresh"} -> "fx" [] op \in {"createRule", "updateRule"} -> "rules"
               [] op \in {"createFee", "updateFee", "deactivateFee"} -> "fees" [] OTHER -> None
Writes(c, table, rows) == db' = [db EXCEPT ![table] = rows] /\ Moves(c, "invalidate") /\ UNCHANGED cache
Fails(c) == Finish(c, FALSE) /\ UNCHANGED <<db, cache>>
\* The worker's own memory is no use to the API.
Invalidate(c) ==
  LET class == Class(Req(c).op)
  IN /\ At(c, "invalidate") /\ UNCHANGED db /\ Finish(c, TRUE)
     /\ IF OfWorker(c) /\ ~redis
        THEN cache' = Excuse({k \in DOMAIN cache : k[1] = class}) ELSE DeleteByPrefix(class)

HandleOverride(c) ==
  /\ Begins(c, "override")
  /\ IF Req(c).mid <= 0 THEN Fails(c)
     ELSE Fails(c) \/ Writes(c, "rates", InsertRate(db.rates, Req(c).from, Req(c).to, Req(c).mid))

\* {}: the source failed.
OpenExchangeRates == {{}} \cup {{f} : f \in Feeds}
ExchangeRateAPI == {{}} \cup {{f} : f \in Feeds}
FetchRates == {IF primary # {} THEN primary ELSE fallback : primary \in OpenExchangeRates, fallback \in ExchangeRateAPI}
CrossPairs == <<<<"USD", "ETB">>, <<"USD", "EUR">>, <<"ETB", "USD">>, <<"ETB", "EUR">>, <<"EUR", "USD">>, <<"EUR", "ETB">>>>
BuildCrossRates(feed) ==
  LET price == Put(feed, "USD", 1)
      known == SelectSeq(CrossPairs, LAMBDA p : {p[1], p[2]} \subseteq DOMAIN price /\ price[p[1]] > 0)
  IN [i \in DOMAIN known |-> [from |-> known[i][1], to |-> known[i][2], mid |-> (price[known[i][2]] * Scale) \div price[known[i][1]]]]
Refresh(c) ==
  \E answer \in FetchRates :
    \/ answer = {} /\ Finish(c, FALSE)
    \/ \E feed \in answer : call' = [call EXCEPT ![c].pc = "insert", ![c].todo = BuildCrossRates(feed)]
HandleRefresh(c) == Begins(c, "refresh") /\ Refresh(c) /\ UNCHANGED <<db, cache>>
\* One pair after the other; one that fails is passed over.
InsertFetched(c) ==
  /\ At(c, "insert") /\ UNCHANGED cache
  /\ IF call[c].todo = <<>> THEN Moves(c, "invalidate") /\ UNCHANGED db
     ELSE /\ call' = [call EXCEPT ![c].todo = Tail(call[c].todo)]
          /\ LET new == Head(call[c].todo)
             IN \/ /\ new.mid > 0   \* CHECK (mid_rate > 0)
                   /\ db' = [db EXCEPT !.rates = InsertRate(db.rates, new.from, new.to, new.mid)]
                \/ UNCHANGED db
HandleCleanup(c) ==
  /\ Begins(c, "cleanup") /\ Finish(c, TRUE)
  /\ db' = [db EXCEPT !.rates = DeleteOlderThan(db.rates, now - Retention)]
  /\ cache' = Excuse({k \in DOMAIN cache : k[1] = "fx"})

\* UNIQUE (key, scope, scope_value, effective_from)
SameRule(a, b) == a.key = b.key /\ a.scope = b.scope /\ a.scopeValue = b.scopeValue /\ a.from = b.from
NewRule(c) == [key |-> Req(c).key, scope |-> Req(c).scope, scopeValue |-> Req(c).scopeValue,
               value |-> Req(c).value, from |-> now + Req(c).delay, to |-> {}]
CreateRuleMutant(c) ==
  /\ Begins(c, "createRule")
  /\ \/ Fails(c)
     \/ /\ \A r \in Range(db.rules) : ~SameRule(r, NewRule(c))
        /\ db' = [db EXCEPT !.rules = Put(db.rules, c, NewRule(c))] /\ Finish(c, TRUE) /\ UNCHANGED cache
HandleCreateRule(c) ==
  /\ Begins(c, "createRule")
  /\ \/ Fails(c)
     \/ (\A r \in Range(db.rules) : ~SameRule(r, NewRule(c))) /\ Writes(c, "rules", Put(db.rules, c, NewRule(c)))
\* The handler reads the row, changes what was sent and writes value and effective_to back.
HandleUpdateRule(c) ==
  /\ Begins(c, "updateRule") /\ UNCHANGED <<db, cache>>
  /\ IF Req(c).id \notin DOMAIN db.rules THEN Finish(c, FALSE)
     ELSE LET row == db.rules[Req(c).id]
              merged == [row EXCEPT !.value = IF Req(c).value = {} THEN @ ELSE CHOOSE v \in Req(c).value : TRUE,
                                    !.to = IF Req(c).ends = {} THEN @ ELSE {now + d : d \in Req(c).ends}]
          IN call' = [call EXCEPT ![c].pc = "writeRule", ![c].row = <<merged>>]
WriteRule(c) ==
  /\ At(c, "writeRule")
  /\ \/ Fails(c)
     \/ Writes(c, "rules", [db.rules EXCEPT ![Req(c).id].value = call[c].row[1].value, ![Req(c).id].to = call[c].row[1].to])

HandleCreateFee(c) ==
  Begins(c, "createFee") /\ (Fails(c) \/ Writes(c, "fees", Put(db.fees, c, [Req(c).row EXCEPT !.active = TRUE])))
HandleUpdateFee(c) ==
  /\ Begins(c, "updateFee")
  /\ Fails(c) \/ (Req(c).id \in DOMAIN db.fees /\ Writes(c, "fees", Put(db.fees, Req(c).id, Req(c).row)))
HandleDeactivateFee(c) ==
  /\ Begins(c, "deactivateFee")
  /\ Fails(c) \/ (Req(c).id \in DOMAIN db.fees /\ Writes(c, "fees", [db.fees EXCEPT ![Req(c).id].active = FALSE]))
-----------------------------------------------------------------------------
(* Time, deaths and the whole. *)

NextDay ==
  /\ now < LastDay /\ now' = now + 1
  /\ cache' = Excuse({k \in DOMAIN cache : k[1] # "quotes" /\ OnDay(k, now + 1) # OnDay(k, now)})
  /\ UNCHANGED <<db, redis, call, starts>>

Unsaid(c) == call[c].pc \in {"insert", "invalidate"}   \* has written, has not told the cache
Owed(cs) == {k \in DOMAIN cache : \E c \in cs : Unsaid(c) /\ k[1] = Class(Req(c).op)}
WorkerDies(c) == InFlight(c) /\ OfWorker(c) /\ Finish(c, FALSE) /\ cache' = Excuse(Owed({c})) /\ UNCHANGED <<db, redis, now, starts>>
\* The API starts again: its requests and its memory are gone.
Restart ==
  LET lost == {c \in Calls : InFlight(c) /\ ~OfWorker(c)}
  IN /\ call' = [c \in Calls |-> IF c \in lost THEN Ended(c, "failed") ELSE call[c]]
     /\ cache' = IF redis THEN Excuse(Owed(lost)) ELSE <<>>
     /\ UNCHANGED <<db, redis, now, starts>>

Step(c) ==
  \/ Read(c) \/ HandleGetRate(c) \/ ShowRate(c) \/ HandleConvert(c) \/ ShowConversion(c)
  \/ HandleListRates(c) \/ NextPair(c) \/ HandleFeeQuote(c) \/ ShowFee(c)
  \/ HandleInternationalQuote(c) \/ AskProviders(c) \/ (\E p \in DOMAIN Corridors : ProviderAnswers(c, p))
  \/ KeepQuote(c) \/ ShowQuote(c)
  \/ HandleTransfer(c) \/ CheckTransferAllowed(c) \/ JudgeRule(c) \/ JudgeRate(c) \/ Settle(c)
  \/ HandleOverride(c) \/ HandleRefresh(c) \/ InsertFetched(c) \/ HandleCleanup(c)
  \/ HandleCreateRule(c) \/ HandleUpdateRule(c) \/ WriteRule(c)
  \/ HandleCreateFee(c) \/ HandleUpdateFee(c) \/ HandleDeactivateFee(c) \/ Invalidate(c) \/ WorkerDies(c)
Expiry == \E k \in DOMAIN cache : Expire(k)
ReferenceNext == (\E c \in Calls : Step(c)) \/ Expiry \/ NextDay \/ Restart

ReferenceSpec == ReferenceInit /\ [][ReferenceNext]_referenceVars
\* Time passes: entries of the cache reach the end of their life.
FairReferenceSpec == ReferenceSpec /\ WF_referenceVars(Expiry)
-----------------------------------------------------------------------------
(* Properties *)

\* An entry of the cache differs from the tables only while its writer has
\* yet to invalidate it, or because its reader loaded it before the change
\* and stored it after, or because nobody could tell the cache: the writer
\* died, Redis failed, the worker has a memory of its own, a day or a cleanup
\* has passed.
StaleForAReason ==
  \A k \in DOMAIN cache : Stale(k) => cache[k].excuse \/ \E c \in Calls : Unsaid(c) /\ k[1] = Class(Req(c).op)

\* "Precedence: currency-specific > account_type > kyc_level > global."
Rank == [currency |-> 4, account_type |-> 3, kyc_level |-> 2, global |-> 1]
\* A transfer that passed a limit passed the most specific rule it had read,
\* and fits under a daily limit together with all that was counted before.
LimitsHold ==
  \A c \in Calls : \A a \in call[c].applied :
    /\ \A r \in a.rules : MatchPriority(r, Req(c).user, RuleCurrency(Req(c), a.stage)) >= 0 => Rank[r.scope] <= Rank[a.rule.scope]
    /\ a.stage = 1 /\ a.used > 0 =>
         SumOf(LAMBDA d : Req(d).cents, a.seen \cup {c}) <= a.rule.value

\* The winner is the cheapest answer, unless an answer delivers more than was sent.
CheapestWins ==
  \A c \in Calls : \A best \in call[c].best, q \in call[c].quotes :
    (\A x \in call[c].quotes : x.target <= Req(c).cents) => q.target <= best.target

\* Prices and limits come from the tables: see the three parts.
PolicyIsApplied == StaleForAReason /\ LimitsHold /\ CheapestWins

\* The cache catches up: stale entries (a reader that stored what it had
\* loaded before an invalidation, a worker's refresh that does not reach the
\* API's memory) are gone again in the end.
CacheCatchesUp == []<>(\A k \in DOMAIN cache : ~Stale(k))
=============================================================================
