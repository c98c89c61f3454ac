------------------------------ MODULE MCWallets ------------------------------
(* An instance of Wallets for TLC: a verified user with 3 ETB who owes 1, two *)
(* requests in flight at a time, equal mid rates and a 10% spread.            *)
EXTENDS Wallets, TLC

MCCurrencies == {"ETB", "USD"}
MCOpening == [cur \in MCCurrencies |-> IF cur = "ETB" THEN 3 ELSE 0]
MCMid == [f \in MCCurrencies |-> [t \in MCCurrencies |-> [num |-> 1, den |-> 1]]]
CallSymmetry == Permutations(Calls)
=============================================================================
