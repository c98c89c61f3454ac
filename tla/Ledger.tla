------------------------------- MODULE Ledger -------------------------------
(***************************************************************************)
(* The double-entry ledger the services post to: internal/ledger.  The     *)
(* Formance server is external; what is modelled here is what one posted   *)
(* Numscript transaction does to the balances, and the checks the client   *)
(* (formance.go) makes before it posts.                                    *)
(*                                                                         *)
(* Balances are a function from accounts to integers, for one asset.  An   *)
(* account is <<kind, id>>, as in chart.go.  A posting is atomic, and it   *)
(* is refused when its source cannot cover it; only @world is unbounded.   *)
(* A call over the network has three outcomes for its caller: applied and  *)
(* confirmed, refused, or applied with the confirmation lost.              *)
(***************************************************************************)
EXTENDS Integers

Main(w) == <<"main", w>>
Hold(h) == <<"hold", h>>
Pot(p)  == <<"pot", p>>
TransitEthSwitch == <<"transit", "ethswitch">>
TransitCardAuth  == <<"transit", "card_auth">>
OverdraftCapital == <<"system", "overdraft_capital">>
LoanCapital      == <<"system", "loan_capital">>
Interest         == <<"system", "interest">>
World            == <<"world", "world">>

\* What a caller may learn of a posting that the ledger could cover.
CallOutcomes == {"ok", "refused", "lost"}
Applied(outcome)   == outcome \in {"ok", "lost"}
Confirmed(outcome) == outcome = "ok"

\* "send $amount (source = src, destination = dst)".
CoversMutant(bal, src, amt) == TRUE
Covers(bal, src, amt) == src = World \/ bal[src] >= amt
Send(bal, src, dst, amt) ==
  [a \in DOMAIN bal |-> bal[a] - (IF a = src THEN amt ELSE 0)
                               + (IF a = dst THEN amt ELSE 0)]

\* A debit of the main account that parks the amount on a fresh hold account.
HoldFunds(bal, w, h, amt) == Send(bal, Main(w), Hold(h), amt)

\* SettleHold and VoidHold fetch the hold account before they post, and refuse a
\* hold with nothing left on it.
HoldOpenMutant(bal, h) == TRUE
HoldOpen(bal, h) == bal[Hold(h)] > 0
SettleHoldMutant(bal, h, transit) == Send(bal, World, transit, bal[Hold(h)])
SettleHold(bal, h, transit) == Send(bal, Hold(h), transit, bal[Hold(h)])
\* cancel_hold returns at most the original posting, the rest is kept.
VoidHold(bal, h, w, posted) ==
  Send(bal, Hold(h), Main(w), IF bal[Hold(h)] <= posted THEN bal[Hold(h)] ELSE posted)

DebitWallet(bal, w, dst, amt)       == Send(bal, Main(w), dst, amt)
CreditFromOverdraftMutant(bal, w, amt) == Send(bal, World, Main(w), amt)
CreditFromOverdraft(bal, w, amt)    == Send(bal, OverdraftCapital, Main(w), amt)
DebitToOverdraft(bal, w, amt)       == Send(bal, Main(w), OverdraftCapital, amt)
=============================================================================
