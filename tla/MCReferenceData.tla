--------------------------- MODULE MCReferenceData ---------------------------
(* An instance of ReferenceData for TLC: a pair of currencies, a few rules   *)
(* that overlap in scope, two fee schedules and two providers.               *)
EXTENDS ReferenceData

Rule(key, scope, value) == [key |-> key, scope |-> scope, scopeValue |-> "", value |-> value, from |-> 0, to |-> {}]
Fee(type, tx, bps) == [type |-> type, tx |-> tx, currency |-> None, channel |-> None, flat |-> 3, bps |-> bps,
                       min |-> 2, max |-> 9, active |-> TRUE, from |-> 0, to |-> {}]
MCOpeningTables ==
  [rates |-> [p \in {<<"USD", "ETB">>, <<"ETB", "USD">>} |->
                <<[mid |-> IF p[1] = "USD" THEN 200 ELSE 50, at |-> 0]>>],
   rules |-> [daily |-> Rule("daily_transfer_limit", "global", 10),
              dailyETB |-> [Rule("daily_transfer_limit", "kyc_level", 12) EXCEPT !.scopeValue = "2"],
              month |-> Rule("outbound_remittance_monthly_cap", "global", 5),
              invest |-> Rule("outbound_investment_enabled", "global", 1),
              papers |-> Rule("outbound_remittance_doc_threshold", "global", 3)],
   fees |-> [share |-> Fee("transfer_percent", "p2p", 500), spread |-> Fee("fx_spread", "p2p", 150),
             markup |-> Fee("corridor_markup", "international_transfer", 100)],
   totals |-> <<>>]
MCUsers == [ann |-> [accountType |-> "personal", kyc |-> 2], bob |-> [accountType |-> "business", kyc |-> 1]]
MCFeeds == {[ETB |-> 4], [ETB |-> 0]}
MCCorridors == [wise |-> {<<"ETB", "USD">>, <<"USD", "ETB">>}, other |-> {<<"ETB", "USD">>, <<"USD", "ETB">>}]
MCTargets == [wise |-> {90, 120}, other |-> {95, 130}]

Pair(op, from, to) == [op |-> op, from |-> from, to |-> to]
Transfer(user, currency, direction, destination, purpose, cents) ==
  [op |-> "transfer", user |-> user, currency |-> currency, direction |-> direction,
   destination |-> destination, purpose |-> purpose, cents |-> cents]
Quote(from, to) == [op |-> "quote", from |-> from, to |-> to, cents |-> 100]
MCForm ==
  [rate |-> Pair("rate", "USD", "ETB"), same |-> Pair("rate", "ETB", "ETB"), noRate |-> Pair("rate", "EUR", "ETB"),
   calc |-> [op |-> "convert", from |-> "ETB", to |-> "USD", cents |-> 1000],
   list |-> [op |-> "list", pairs |-> <<<<"USD", "ETB">>, <<"USD", "EUR">>>>],
   set |-> [op |-> "override", from |-> "USD", to |-> "ETB", mid |-> 300],
   setBad |-> [op |-> "override", from |-> "USD", to |-> "ETB", mid |-> 0],
   pull |-> [op |-> "refresh", by |-> "api"], hourly |-> [op |-> "refresh", by |-> "worker"],
   clean |-> [op |-> "cleanup"],
   fee |-> [op |-> "fee", tx |-> "p2p", currency |-> "ETB", channel |-> None, cents |-> 100],
   feeApp |-> [op |-> "fee", tx |-> "p2p", currency |-> "ETB", channel |-> "app", cents |-> 100],
   noFee |-> [op |-> "fee", tx |-> "card_international", currency |-> "ETB", channel |-> None, cents |-> 100],
   addFee |-> [op |-> "createFee", row |-> [Fee("transfer_flat", "p2p", 0) EXCEPT !.channel = "app"]],
   addGlobal |-> [op |-> "createFee", row |-> Fee("transfer_flat", "card_international", 0)],
   newFee |-> [op |-> "updateFee", id |-> "share", row |-> Fee("transfer_percent", "p2p", 900)],
   endFee |-> [op |-> "deactivateFee", id |-> "share"], endNoFee |-> [op |-> "deactivateFee", id |-> "nothing"],
   out |-> Quote("ETB", "USD"), outToo |-> Quote("ETB", "USD"), nowhere |-> Quote("EUR", "ETB"),
   endMarkup |-> [op |-> "deactivateFee", id |-> "markup"],
   pay |-> Transfer("bob", "ETB", "p2p", None, "general", 6), payToo |-> Transfer("bob", "ETB", "p2p", None, "general", 4),
   payAnn |-> Transfer("ann", "ETB", "p2p", None, "general", 11),
   send |-> Transfer("ann", "USD", "outbound", "US", "general", 4), sendMed |-> Transfer("ann", "USD", "outbound", "US", "medical", 4),
   sendETB |-> Transfer("ann", "ETB", "outbound", "domestic", "general", 8),
   sendOut |-> Transfer("ann", "ETB", "outbound", "US", "education", 6),
   invest |-> Transfer("ann", "USD", "outbound", "US", "investment", 2),
   cap |-> [op |-> "createRule", key |-> "advance_payment_medical_education_cap", scope |-> "account_type", scopeValue |-> "personal", value |-> 3, delay |-> 0],
   limit |-> [op |-> "createRule", key |-> "daily_transfer_limit", scope |-> "global", scopeValue |-> "", value |-> 5, delay |-> 1],
   limitNow |-> [op |-> "createRule", key |-> "daily_transfer_limit", scope |-> "global", scopeValue |-> "", value |-> 5, delay |-> 0],
   raise |-> [op |-> "updateRule", id |-> "daily", value |-> {20}, ends |-> {}],
   lift |-> [op |-> "updateRule", id |-> "daily", value |-> {0}, ends |-> {}],
   endDaily |-> [op |-> "updateRule", id |-> "daily", value |-> {}, ends |-> {1}],
   noRule |-> [op |-> "updateRule", id |-> "nothing", value |-> {1}, ends |-> {}],
   closed |-> [op |-> "updateRule", id |-> "invest", value |-> {0}, ends |-> {}]]
MCGroups ==
  {{"rate", "set"}, {"same", "noRate", "calc", "setBad", "clean"}, {"list", "set"}, {"rate", "pull", "hourly", "clean"},
   {"fee", "feeApp", "addFee", "newFee", "endFee", "endNoFee"}, {"noFee", "addGlobal"},
   {"out", "outToo", "nowhere", "endMarkup"},
   {"pay", "payToo"}, {"pay", "limit"}, {"pay", "limitNow"}, {"pay", "lift"}, {"payAnn", "raise", "noRule"}, {"raise", "endDaily"},
   {"send", "closed"}, {"sendMed", "cap"}, {"sendETB", "set"}, {"sendOut"}, {"invest", "closed"}}
=============================================================================
