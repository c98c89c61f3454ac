------------------------- MODULE MCPaymentRequest -------------------------
(* ann asks bob and cat for money.  bob pays from two devices and declines *)
(* from a third; ann cancels and reminds; ice is frozen.                   *)
EXTENDS PaymentRequest, TLC

CONSTANTS Ann, Bob, Cat, Ice, BobPhone, BobName, CatName, NewPhone, IceName

TheUsers  == {Ann, Bob, Cat, Ice}
TheNames  == {BobPhone, BobName, CatName, NewPhone, IceName}
ThePhones == {BobPhone, NewPhone}
TheOwner  == BobPhone :> Bob @@ BobName :> Bob @@ CatName :> Cat @@ NewPhone :> Nobody
               @@ IceName :> Ice

NoCustom == [n \in {} |-> 0]
Ask(to, total, custom) ==
  [op |-> IF Len(to) = 1 THEN "create" ELSE "batch", by |-> Ann,
   to |-> to, total |-> total, custom |-> custom]
By(op, u) == [op |-> op, by |-> u]

\* One request and six calls racing on it.
Race == 1 :> Ask(<<BobPhone>>, 5, NoCustom)
     @@ 2 :> By("pay", Bob) @@ 3 :> By("pay", Bob)
     @@ 4 :> By("decline", Bob) @@ 5 :> By("cancel", Ann)
     @@ 6 :> By("remind", Ann) @@ 7 :> By("remind", Ann)

\* A batch that is paid and cancelled while its rows are still being inserted;
\* the first name and the second belong to one payer.
Batch == 1 :> Ask(<<BobPhone, BobName, CatName>>, 7, NoCustom)
      @@ 2 :> By("pay", Bob) @@ 3 :> By("pay", Cat) @@ 4 :> By("cancel", Ann)

\* Equal shares that run out, custom shares that fit or do not, a phone nobody
\* has, a frozen payer.
Alone(f) == 1 :> f @@ 2 :> By("pay", Bob)

TheWorkloads ==
  {Race, Batch,
   Alone(Ask(<<BobPhone, BobName, CatName>>, 2, NoCustom)),
   Alone(Ask(<<BobPhone, CatName>>, 5, BobPhone :> 4 @@ CatName :> 1)),
   Alone(Ask(<<BobPhone, CatName>>, 5, BobPhone :> 4 @@ CatName :> 2)),
   Alone(Ask(<<NewPhone>>, 3, NoCustom)),
   Alone(Ask(<<IceName>>, 3, NoCustom))}
=============================================================================
