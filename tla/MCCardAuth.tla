----------------------------- MODULE MCCardAuth -----------------------------
(* Instances of CardAuth for TLC: one card whose owner has 3 ETB and 1 USD;   *)
(* one USD costs 3/2 ETB.  An ETB purchase is delivered twice, a USD purchase *)
(* once under the same RRN, and one clearing and two reversals race on them.  *)
EXTENDS CardAuth, TLC

CONSTANTS visa, first, again, dollars, clear, cancel, cancelToo

MCRrn   == [d \in Deliveries |-> "r1"]
MCStan  == [d \in Deliveries |-> IF d = dollars THEN "s2" ELSE "s1"]
MCCardOf   == [d \in Deliveries |-> visa]
MCAmount   == [d \in Deliveries |-> IF d = dollars THEN 1 ELSE 2]
MCMerchant == [d \in Deliveries |-> IF d = dollars THEN "USD" ELSE "ETB"]
MCAsk == [c \in Currencies |-> [e \in Currencies |->
            IF c = e THEN <<1, 1>> ELSE IF c = "USD" THEN <<3, 2>> ELSE <<2, 3>>]]
MCWaterfall == <<"merchant_currency", "ETB">>
MCOpening   == [c \in Cards |-> [cur \in Currencies |-> IF cur = "ETB" THEN 3 ELSE 1]]
MCJobKind   == [j \in Jobs |-> IF j = clear THEN "settle" ELSE "reverse"]
MCJobRrn    == [j \in Jobs |-> "r1"]
MCSymmetry  == Permutations({cancel, cancelToo})
=============================================================================
