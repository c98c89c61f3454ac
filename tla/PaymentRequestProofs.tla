------------------------ MODULE PaymentRequestProofs ------------------------
(***************************************************************************)
(* Proofs about PaymentRequest for any users and names, any finite set of  *)
(* API calls with any forms, and any limit of reminders.                   *)
(***************************************************************************)
EXTENDS PaymentRequest, SumFacts, TLAPS

\* The amounts call c asks for, one per name of its form.
Shares(c) == [i \in 1 .. Len(form[c].to) |-> Amount(c, i)]

\* What the form of a call that creates rows holds.
LEMMA FormType ==
  ASSUME form \in Workloads, NEW c \in Calls, Creates(c)
  PROVE  /\ Len(form[c].to) \in Nat /\ form[c].total \in Int /\ form[c].by \in Users
         /\ \A i \in 1 .. Len(form[c].to) : form[c].to[i] \in Names
         /\ form[c].op = "create" => Len(form[c].to) = 1 /\ ~IsCustomSplit(c)
<1>1. form[c].to \in Seq(Names) /\ form[c].total \in Int /\ form[c].by \in Users
  BY CallAssumption DEF Calls, Creates
<1>2. form[c].op = "create" => Len(form[c].to) = 1 /\ ~IsCustomSplit(c)
  BY CallAssumption DEF Calls, IsCustomSplit
<1>3. Len(form[c].to) \in Nat /\ \A i \in 1 .. Len(form[c].to) : form[c].to[i] \in Names
  BY <1>1
<1> QED BY <1>1, <1>2, <1>3

\* A form that passed validation names somebody and asks for something.
LEMMA ValidForm ==
  ASSUME form \in Workloads, NEW c \in Calls, Creates(c), Valid(c)
  PROVE  Len(form[c].to) \in Nat \ {0} /\ form[c].total \in Nat \ {0}
<1>1. PICK n \in Nat, t \in Int : n = Len(form[c].to) /\ t = form[c].total
  BY FormType
<1>2. t > 0 /\ (form[c].op = "batch" => n \in 2 .. 10)
  BY <1>1 DEF Valid
<1>3. form[c].op = "create" => n = 1
  BY <1>1, FormType
<1>4. n \in Nat \ {0} /\ t \in Nat \ {0}
  BY <1>2, <1>3 DEF Creates
<1> QED BY <1>1, <1>4

\* The amounts are integers, and not negative.
LEMMA AmountType ==
  ASSUME form \in Workloads, NEW c \in Calls, Creates(c), Valid(c), NEW i \in 1 .. Len(form[c].to)
  PROVE  Amount(c, i) \in Nat
<1> DEFINE n == Len(form[c].to)
           t == form[c].total
<1>0. n \in Nat \ {0} /\ t \in Nat \ {0}
  BY ValidForm
<1>1. CASE IsCustomSplit(c)
  <2>1. form[c].op = "batch"
    BY <1>1, FormType DEF Creates
  <2>2. form[c].to[i] \in DOMAIN form[c].custom /\ form[c].custom[form[c].to[i]] > 0
    BY <1>1, <2>1 DEF Valid
  <2>3. form[c].custom[form[c].to[i]] \in Int
    BY <2>2, CustomAssumption DEF Calls, Creates
  <2> QED BY <1>1, <2>2, <2>3 DEF Amount
<1>2. CASE ~IsCustomSplit(c)
  <2>1. Amount(c, i) = t \div n + (IF i = 1 THEN t % n ELSE 0)
    BY <1>2 DEF Amount
  <2>2. t \div n \in Nat /\ t % n \in Nat
    BY <1>0, DivisionRule
  <2> QED BY <2>1, <2>2
<1> QED BY <1>1, <1>2

\* The split is exact: the shares of a valid form add up to its total.
LEMMA SharesAddUp ==
  ASSUME form \in Workloads, NEW c \in Calls, Creates(c), Valid(c)
  PROVE  SumFunctionOnSet(Shares(c), 1 .. Len(form[c].to)) = form[c].total
<1> DEFINE n == Len(form[c].to)
           t == form[c].total
           S == 1 .. n
<1>0. n \in Nat \ {0} /\ t \in Nat \ {0}
  BY ValidForm
<1>1. IsFiniteSet(S) /\ Cardinality(S) = n
  BY <1>0, FS_Interval
<1>2. \A i \in S : Shares(c)[i] = Amount(c, i) /\ Amount(c, i) \in Nat
  BY AmountType DEF Shares
<1>3. CASE IsCustomSplit(c)
  <2>1. form[c].op = "batch"
    BY <1>3, FormType DEF Creates
  <2> DEFINE g == [i \in S |-> form[c].custom[form[c].to[i]]]
  <2>2. SumFunctionOnSet(g, S) = t
    BY <1>3, <2>1 DEF Valid, CustomTotal
  <2>3. \A i \in S : Shares(c)[i] \in Int /\ Shares(c)[i] = g[i]
    BY <1>2, <1>3 DEF Amount
  <2> HIDE DEF g, S, n, t
  <2>4. SumFunctionOnSet(Shares(c), S) = SumFunctionOnSet(g, S)
    BY <1>1, <2>3, SumSame
  <2> QED BY <2>2, <2>4 DEF S, n, t
<1>4. CASE ~IsCustomSplit(c)
  <2> DEFINE d == t \div n
             m == t % n
             g == [i \in S |-> d]
  <2>1. d \in Nat /\ m \in Nat /\ n * d + m = t
    BY <1>0, DivisionRule
  <2>2. \A i \in S : Amount(c, i) = d + (IF i = 1 THEN m ELSE 0)
    BY <1>4 DEF Amount
  <2>3. 1 \in S
    BY <1>0
  <2> HIDE DEF d, m, S, n, t
  <2>4. SumFunctionOnSet(g, S) = n * d
    BY <1>1, <2>1, SumConstant
  <2>5. /\ \A x \in S : g[x] \in Int /\ Shares(c)[x] \in Int
        /\ \A x \in S \ {1} : Shares(c)[x] = g[x]
        /\ g[1] = d /\ Shares(c)[1] = d + m
    BY <1>2, <2>1, <2>2, <2>3
  <2> HIDE DEF g
  <2>6. SumFunctionOnSet(Shares(c), S) = SumFunctionOnSet(g, S) - g[1] + Shares(c)[1]
    BY <1>1, <2>3, <2>5, SumChange
  <2>7. n * d \in Int
    BY <1>0, <2>1
  <2>8. SumFunctionOnSet(Shares(c), S) = t
    BY <1>0, <2>1, <2>4, <2>5, <2>6, <2>7
  <2> QED BY <2>8 DEF S, n, t
<1> QED BY <1>3, <1>4

\* The records kept of calls.
CallRows == [pc : Steps, q : Rows \cup {NoneYet}]

\* The names of rows, and of nothing else.
LEMMA RowNames ==
  /\ \A c \in Calls : Creates(c) => \A i \in 1 .. Len(form[c].to) : <<c, i>> \in Rows
  /\ \A q \in Rows : \E c \in Calls : Creates(c) /\ \E i \in 1 .. Len(form[c].to) : q = <<c, i>>
BY DEF Rows

\* What is said of the forms does not change, as the forms do not.
LEMMA FormKept ==
  ASSUME form' = form
  PROVE  /\ Calls' = Calls /\ Rows' = Rows
         /\ \A c : Creates(c)' = Creates(c) /\ Valid(c)' = Valid(c)
         /\ \A c, i : Amount(c, i)' = Amount(c, i)
BY DEF Calls, Rows, Creates, Valid, CustomTotal, IsCustomSplit, Amount

\* A step of call c leaves the other calls where they are.
Moved(c) == call' \in [Calls -> CallRows] /\ \A d \in Calls \ {c} : call'[d] = call[d]

\* What is stored of a call.
LEMMA CallType ==
  ASSUME TypeOK, NEW c \in Calls
  PROVE  call[c].pc \in Steps /\ call[c].q \in Rows \cup {NoneYet} /\ call[c] \in CallRows
BY DEF TypeOK, CallRows

\* Going to the next step changes nothing else of the call.
LEMMA GotoEffect ==
  ASSUME TypeOK, NEW c \in Calls, NEW l \in Steps, Goto(c, l)
  PROVE  Moved(c) /\ call'[c].pc = l /\ call'[c].q = call[c].q
<1>1. call' = [call EXCEPT ![c] = [call[c] EXCEPT !.pc = l]]
  BY DEF Goto
<1>2. call \in [Calls -> CallRows]
  BY DEF TypeOK, CallRows
<1>3. call'[c] = [call[c] EXCEPT !.pc = l] /\ \A d \in Calls \ {c} : call'[d] = call[d]
  BY <1>1, <1>2
<1>4. call'[c] \in CallRows /\ call'[c].pc = l /\ call'[c].q = call[c].q
  BY <1>3, CallType DEF CallRows
<1> QED BY <1>1, <1>2, <1>3, <1>4 DEF Moved

\* A row that is there is one of the table.
LEMMA RowType ==
  ASSUME TypeOK, NEW q \in Rows
  PROVE  /\ Exists(q) <=> row[q] \in Entries
         /\ row[q] \in Entries \cup {NoRow}
BY NoRowAssumption DEF TypeOK, Exists

\* What a step may do to the rows that are there.
RowStep(q) ==
  Exists(q) =>
    /\ Exists(q)'
    /\ ~Pending(q) => row'[q] = row[q]
    /\ row'[q].amount = row[q].amount /\ row'[q].payer = row[q].payer
    /\ row'[q].reminders <= MaxReminders

\* A row that is left alone changes as it may.
LEMMA SameRow ==
  ASSUME TypeOK, NEW q \in Rows, row'[q] = row[q]
  PROVE  RowStep(q)
<1>1. Exists(q) => row[q].reminders \in 0 .. MaxReminders
  BY RowType DEF Entries
<1> QED BY <1>1, BoundAssumption DEF RowStep, Exists

\* A call keeps its invariant while it does not move and no row goes.
LEMMA CallKept ==
  ASSUME form' = form, NEW c \in Calls, CallInv(c), call'[c] = call[c], \A q \in Rows : RowStep(q)
  PROVE  CallInv(c)'
BY FormKept DEF CallInv, Creates, RowStep, Exists

\* The rows of a creation stay what they are while no row of it is inserted.
LEMMA BatchKept ==
  ASSUME form' = form, NEW c \in Calls, Creates(c), BatchInv(c),
         call'[c].pc = call[c].pc \/ call'[c].pc = "failed"
           \/ (call[c].pc = "new" /\ call'[c].pc = "insert" /\ Valid(c) /\ Len(form[c].to) \in Nat \ {0}),
         \A q \in Rows : RowStep(q),
         \A i \in 1 .. Len(form[c].to) : Exists(<<c, i>>)' => Exists(<<c, i>>)
  PROVE  BatchInv(c)'
<1>1. \A i \in 1 .. Len(form[c].to) : <<c, i>> \in Rows
  BY RowNames
<1>2. Inserted(c)' = Inserted(c)
  BY <1>1 DEF Inserted, RowStep, Exists
<1>3. \A i \in Inserted(c) : row'[<<c, i>>].amount = row[<<c, i>>].amount
  BY <1>1 DEF Inserted, RowStep
<1>4. Valid(c)' = Valid(c) /\ \A i : Amount(c, i)' = Amount(c, i)
  BY FormKept
<1>5. \A i \in Inserted(c) : row'[<<c, i>>].amount = Amount(c, i)'
  BY <1>3, <1>4 DEF BatchInv
<1>6. call[c].pc = "new" /\ Len(form[c].to) \in Nat \ {0} => Inserted(c) # 1 .. Len(form[c].to)
  <2> SUFFICES ASSUME Inserted(c) = {}, Len(form[c].to) \in Nat \ {0} PROVE Inserted(c) # 1 .. Len(form[c].to)
    BY DEF BatchInv
  <2>1. 1 \in 1 .. Len(form[c].to)
    OBVIOUS
  <2> QED BY <2>1
<1> QED BY <1>2, <1>4, <1>5, <1>6 DEF BatchInv

\* Where a call of Pay stands whose transfer is not recorded.
IsBetween(c, q) == form[c].op = "pay" /\ call[c].q = q /\ call[c].pc = "update"
IsUnrecorded(c, q) == call[c].q = q /\ call[c].pc = "unmarked"
One(b) == IF b THEN 1 ELSE 0

\* The calls are finitely many, and so are those that hold an unrecorded transfer.
LEMMA FiniteCalls ==
  ASSUME TypeOK, NEW q
  PROVE  /\ IsFiniteSet(Between(q)) /\ IsFiniteSet(Unrecorded(q))
         /\ Cardinality(Between(q)) \in Nat /\ Cardinality(Unrecorded(q)) \in Nat
<1>1. IsFiniteSet(Calls)
  BY FiniteAssumption DEF TypeOK, Calls
<1>2. Between(q) \subseteq Calls /\ Unrecorded(q) \subseteq Calls
  BY DEF Between, Unrecorded
<1>3. IsFiniteSet(Between(q)) /\ IsFiniteSet(Unrecorded(q))
  BY <1>1, <1>2, FS_Subset
<1> QED BY <1>3, FS_CardinalityType

\* One element is put in or taken out of a finite set.
LEMMA OneMore ==
  ASSUME NEW S, NEW T, NEW c, IsFiniteSet(S), T \ {c} = S \ {c}
  PROVE  Cardinality(T) = Cardinality(S) + One(c \in T) - One(c \in S)
<1>1. IsFiniteSet(S \ {c}) /\ Cardinality(S \ {c}) = Cardinality(S) - One(c \in S)
  <2>1. CASE c \in S
    BY <2>1, FS_RemoveElement DEF One
  <2>2. CASE c \notin S
    <3>1. S \ {c} = S
      BY <2>2
    <3>2. Cardinality(S) \in Nat /\ One(c \in S) = 0
      BY <2>2, FS_CardinalityType DEF One
    <3> QED BY <3>1, <3>2
  <2> QED BY <2>1, <2>2
<1>2. Cardinality(T) = Cardinality(S \ {c}) + One(c \in T)
  <2>1. CASE c \in T
    <3>1. T = (S \ {c}) \cup {c} /\ c \notin S \ {c}
      BY <2>1
    <3> QED BY <1>1, <2>1, <3>1, FS_AddElement DEF One
  <2>2. CASE c \notin T
    <3>1. T = S \ {c}
      BY <2>2
    <3> QED BY <1>1, <2>2, <3>1, FS_CardinalityType DEF One
  <2> QED BY <2>1, <2>2
<1>3. Cardinality(S) \in Nat
  BY FS_CardinalityType
<1> QED BY <1>1, <1>2, <1>3 DEF One

\* How a step of call c changes the count of the unrecorded transfers of q.
LEMMA CountStep ==
  ASSUME TypeOK, form' = form, NEW c \in Calls, Moved(c), NEW q
  PROVE  /\ Cardinality(Between(q)') = Cardinality(Between(q)) + One(IsBetween(c, q)') - One(IsBetween(c, q))
         /\ Cardinality(Unrecorded(q)') =
              Cardinality(Unrecorded(q)) + One(IsUnrecorded(c, q)') - One(IsUnrecorded(c, q))
<1>1. Calls' = Calls
  BY FormKept
<1>2. /\ Between(q)' \ {c} = Between(q) \ {c} /\ Unrecorded(q)' \ {c} = Unrecorded(q) \ {c}
      /\ c \in Between(q) <=> IsBetween(c, q)
      /\ c \in Between(q)' <=> IsBetween(c, q)'
      /\ c \in Unrecorded(q) <=> IsUnrecorded(c, q)
      /\ c \in Unrecorded(q)' <=> IsUnrecorded(c, q)'
  BY <1>1 DEF Between, Unrecorded, IsBetween, IsUnrecorded, Moved
<1>3. /\ Cardinality(Between(q)') = Cardinality(Between(q)) + One(c \in Between(q)') - One(c \in Between(q))
      /\ Cardinality(Unrecorded(q)') =
              Cardinality(Unrecorded(q)) + One(c \in Unrecorded(q)') - One(c \in Unrecorded(q))
  BY <1>2, FiniteCalls, OneMore
<1> QED BY <1>2, <1>3 DEF One

\* Transfers stay accounted for when what is sent, recorded and unrecorded moves
\* together.
LEMMA AccountKept ==
  ASSUME TypeOK, TransfersAccountedFor, form' = form, NEW c \in Calls, Moved(c), sent' \in [Rows -> Nat],
         \A q \in Rows : sent'[q] - sent[q] =
            Recorded(q)' - Recorded(q) + One(IsBetween(c, q)') - One(IsBetween(c, q))
              + One(IsUnrecorded(c, q)') - One(IsUnrecorded(c, q))
  PROVE  TransfersAccountedFor'
<1>1. Rows' = Rows
  BY FormKept
<1> SUFFICES ASSUME NEW q \in Rows
             PROVE  sent'[q] = Recorded(q)' + Cardinality(Between(q)') + Cardinality(Unrecorded(q)')
  BY <1>1 DEF TransfersAccountedFor
<1>2. /\ Cardinality(Between(q)') = Cardinality(Between(q)) + One(IsBetween(c, q)') - One(IsBetween(c, q))
      /\ Cardinality(Unrecorded(q)') =
              Cardinality(Unrecorded(q)) + One(IsUnrecorded(c, q)') - One(IsUnrecorded(c, q))
  BY CountStep
<1>3. Cardinality(Between(q)) \in Nat /\ Cardinality(Unrecorded(q)) \in Nat
  BY FiniteCalls
<1>4. sent[q] = Recorded(q) + Cardinality(Between(q)) + Cardinality(Unrecorded(q))
  BY DEF TransfersAccountedFor
<1>5. /\ Recorded(q) \in Nat /\ Recorded(q)' \in Nat /\ sent[q] \in Nat /\ sent'[q] \in Nat
      /\ One(IsBetween(c, q)) \in Nat /\ One(IsBetween(c, q)') \in Nat
      /\ One(IsUnrecorded(c, q)) \in Nat /\ One(IsUnrecorded(c, q)') \in Nat
  BY DEF Recorded, One, TypeOK
<1> HIDE DEF One, IsBetween, IsUnrecorded
<1>6. sent'[q] - sent[q] =
            Recorded(q)' - Recorded(q) + One(IsBetween(c, q)') - One(IsBetween(c, q))
              + One(IsUnrecorded(c, q)') - One(IsUnrecorded(c, q))
  OBVIOUS
<1> QED BY <1>2, <1>3, <1>4, <1>5, <1>6

\* The steps that put no row in: what is left to show is what they do to the
\* rows that are there, to the call that takes them and to the account.
LEMMA StepKeeps ==
  ASSUME IInv, form' = form, NEW c \in Calls, Moved(c), CallInv(c)', Creates(c) => BatchInv(c)',
         row' \in [Rows -> Entries \cup {NoRow}], sent' \in [Rows -> Nat],
         \A q \in Rows : RowStep(q),
         \A d \in Calls \ {c} : Creates(d) => \A i \in 1 .. Len(form[d].to) :
            Exists(<<d, i>>)' => Exists(<<d, i>>),
         \A q \in Rows : sent'[q] - sent[q] =
            Recorded(q)' - Recorded(q) + One(IsBetween(c, q)') - One(IsBetween(c, q))
              + One(IsUnrecorded(c, q)') - One(IsUnrecorded(c, q))
  PROVE  IInv'
<1> USE DEF IInv
<1>1. Calls' = Calls /\ Rows' = Rows /\ \A d : Creates(d)' = Creates(d)
  BY FormKept
<1>2. TypeOK'
  BY <1>1 DEF TypeOK, Moved, CallRows
<1>3. TransfersAccountedFor'
  BY AccountKept
<1>4. ASSUME NEW d \in Calls, d # c PROVE CallInv(d)' /\ (Creates(d) => BatchInv(d)')
  <2>1. call'[d] = call[d] /\ CallInv(d) /\ (Creates(d) => BatchInv(d))
    BY <1>4 DEF Moved
  <2>2. CallInv(d)'
    BY <2>1, CallKept
  <2>3. ASSUME Creates(d) PROVE BatchInv(d)'
    BY <1>4, <2>1, <2>3, BatchKept
  <2> QED BY <2>2, <2>3
<1> QED BY <1>1, <1>2, <1>3, <1>4

\* A step of call c that writes no row.
LEMMA NoRowWritten ==
  ASSUME IInv, form' = form, row' = row, NEW c \in Calls, Moved(c), CallInv(c)', Creates(c) => BatchInv(c)',
         sent' \in [Rows -> Nat],
         \A q \in Rows : sent'[q] - sent[q] =
            One(IsBetween(c, q)') - One(IsBetween(c, q))
              + One(IsUnrecorded(c, q)') - One(IsUnrecorded(c, q))
  PROVE  IInv' /\ \A q \in Rows : RowStep(q)
<1>1. TypeOK /\ row' \in [Rows -> Entries \cup {NoRow}]
  BY DEF IInv, TypeOK
<1>2. \A q \in Rows : RowStep(q)
  BY <1>1, SameRow
<1>3. \A q : Recorded(q)' = Recorded(q) /\ Recorded(q) \in Nat /\ (Exists(q)' => Exists(q))
  BY DEF Recorded, Exists
<1>4. \A q \in Rows : sent'[q] - sent[q] =
            Recorded(q)' - Recorded(q) + One(IsBetween(c, q)') - One(IsBetween(c, q))
              + One(IsUnrecorded(c, q)') - One(IsUnrecorded(c, q))
  BY <1>3 DEF One
<1>5. IInv'
  BY <1>1, <1>2, <1>3, <1>4, StepKeeps
<1> QED BY <1>2, <1>5

\* A call that creates, or that has not come to its transfer, or is over with
\* nothing sent, holds no unrecorded transfer.
LEMMA HoldsNone ==
  ASSUME NEW c, call[c].pc \notin {"update", "unmarked"}
  PROVE  \A q : One(IsBetween(c, q)) = 0 /\ One(IsUnrecorded(c, q)) = 0
BY DEF One, IsBetween, IsUnrecorded
\* The same of the state after a step.
LEMMA HoldsNoneNext ==
  ASSUME NEW c, call'[c].pc \notin {"update", "unmarked"}
  PROVE  \A q : One(IsBetween(c, q)') = 0 /\ One(IsUnrecorded(c, q)') = 0
BY DEF One, IsBetween, IsUnrecorded

\* The calls that create: refused, accepted, and failed in the middle.
LEMMA CreationsKeep ==
  ASSUME IInv, form' = form, NEW c \in Calls, Refuse(c) \/ Accept(c) \/ InsertFails(c)
  PROVE  IInv' /\ \A q \in Rows : RowStep(q)
<1> USE DEF IInv
<1>1. /\ Creates(c) /\ row' = row /\ sent' = sent /\ call[c].pc \in {"new", "insert"}
      /\ \/ Goto(c, "failed")
         \/ call[c].pc = "new" /\ Valid(c) /\ Goto(c, "insert")
  BY DEF Refuse, Accept, InsertFails
<1>2. /\ Moved(c)
      /\ \/ call'[c].pc = "failed"
         \/ call[c].pc = "new" /\ Valid(c) /\ call'[c].pc = "insert"
  BY <1>1, GotoEffect DEF Steps
<1>3. \A q \in Rows : RowStep(q)
  BY <1>1, SameRow
<1>4. Creates(c)' /\ CallInv(c)'
  BY <1>1, <1>2, FormKept DEF CallInv
<1>5. BatchInv(c)'
  <2>1. Valid(c) => Len(form[c].to) \in Nat \ {0}
    BY <1>1, ValidForm DEF TypeOK
  <2>2. \A q : Exists(q)' => Exists(q)
    BY <1>1 DEF Exists
  <2> QED BY <1>1, <1>2, <1>3, <2>1, <2>2, BatchKept
<1>6. sent' \in [Rows -> Nat] /\ \A q \in Rows : sent'[q] - sent[q] = 0
  BY <1>1 DEF TypeOK
<1>7. \A q \in Rows : sent'[q] - sent[q] =
            One(IsBetween(c, q)') - One(IsBetween(c, q))
              + One(IsUnrecorded(c, q)') - One(IsUnrecorded(c, q))
  <2>1. \A q : One(IsBetween(c, q)) = 0 /\ One(IsUnrecorded(c, q)) = 0
    BY <1>1, HoldsNone
  <2>2. \A q : One(IsBetween(c, q)') = 0 /\ One(IsUnrecorded(c, q)') = 0
    BY <1>2, HoldsNoneNext
  <2> QED BY <1>6, <2>1, <2>2
<1> QED BY <1>1, <1>2, <1>4, <1>5, <1>6, <1>7, NoRowWritten

\* GetByID and its checks.
LEMMA ReadKeeps ==
  ASSUME IInv, form' = form, NEW c \in Calls, Read(c)
  PROVE  IInv' /\ \A q \in Rows : RowStep(q)
<1> USE DEF IInv
<1>1. PICK q \in Rows, l \in {"failed", "transfer", "update"} :
        /\ ~Creates(c) /\ call[c].pc = "new" /\ Exists(q) /\ row' = row /\ sent' = sent
        /\ (l = "transfer" => form[c].op = "pay") /\ (l = "update" => form[c].op # "pay")
        /\ call' = [call EXCEPT ![c] = [pc |-> l, q |-> q]]
  BY DEF Read
<1>2. call'[c].pc = l /\ call'[c].q = q /\ Moved(c)
  <2>1. [pc |-> l, q |-> q] \in CallRows
    BY DEF CallRows, Steps
  <2> QED BY <1>1, <2>1 DEF TypeOK, Moved, CallRows
<1>3. CallInv(c)'
  <2>1. Rows' = Rows /\ Creates(c)' = Creates(c) /\ Exists(q)'
    BY <1>1, FormKept DEF Exists
  <2> QED BY <1>1, <1>2, <2>1 DEF CallInv
<1>4. sent' \in [Rows -> Nat] /\ \A p \in Rows : sent'[p] - sent[p] = 0
  BY <1>1 DEF TypeOK
<1>5. \A p \in Rows : sent'[p] - sent[p] =
            One(IsBetween(c, p)') - One(IsBetween(c, p))
              + One(IsUnrecorded(c, p)') - One(IsUnrecorded(c, p))
  <2>1. \A p : One(IsBetween(c, p)) = 0 /\ One(IsUnrecorded(c, p)) = 0
    BY <1>1, HoldsNone
  <2>2. \A p : One(IsBetween(c, p)') = 0 /\ One(IsUnrecorded(c, p)') = 0
    BY <1>1, <1>2 DEF One, IsBetween, IsUnrecorded
  <2> QED BY <1>4, <2>1, <2>2
<1> QED BY <1>1, <1>2, <1>3, <1>4, <1>5, NoRowWritten

\* The transfer of a Pay call, refused, made, or made with an error reported.
LEMMA TransferKeeps ==
  ASSUME IInv, form' = form, NEW c \in Calls, Transfer(c) \/ TransferThenError(c)
  PROVE  IInv' /\ \A q \in Rows : RowStep(q)
<1> USE DEF IInv
<1>1. PICK p \in Rows, l \in {"failed", "update", "unmarked"} :
        /\ p = call[c].q /\ call[c].pc = "transfer" /\ form[c].op = "pay" /\ row' = row /\ Goto(c, l)
        /\ \/ l = "failed" /\ sent' = sent
           \/ l # "failed" /\ sent' = [sent EXCEPT ![p] = sent[p] + 1]
  <2>1. call[c].pc = "transfer" /\ form[c].op = "pay" /\ ~Creates(c)
    BY DEF Transfer, TransferThenError, CallInv
  <2>2. call[c].q \in Rows
    BY <2>1 DEF CallInv
  <2> QED BY <2>1, <2>2 DEF Transfer, TransferThenError, AfterRefusal
<1>2. call'[c].pc = l /\ call'[c].q = p /\ Moved(c)
  BY <1>1, GotoEffect DEF Steps
<1>3. ~Creates(c) /\ CallInv(c)'
  <2>1. ~Creates(c) /\ Exists(p) /\ Exists(p)' /\ Rows' = Rows /\ ~Creates(c)'
    BY <1>1, FormKept DEF CallInv, Exists
  <2> QED BY <1>1, <1>2, <2>1 DEF CallInv
<1>4. sent' \in [Rows -> Nat]
  BY <1>1 DEF TypeOK
<1>5. \A q \in Rows : sent'[q] - sent[q] = One(q = p /\ l # "failed")
  BY <1>1 DEF TypeOK, One
<1>6. \A q \in Rows : sent'[q] - sent[q] =
            One(IsBetween(c, q)') - One(IsBetween(c, q))
              + One(IsUnrecorded(c, q)') - One(IsUnrecorded(c, q))
  <2>1. \A q : One(IsBetween(c, q)) = 0 /\ One(IsUnrecorded(c, q)) = 0
    BY <1>1, HoldsNone
  <2>2. \A q \in Rows : One(IsBetween(c, q)') = One(q = p /\ l = "update")
                        /\ One(IsUnrecorded(c, q)') = One(q = p /\ l = "unmarked")
    BY <1>1, <1>2 DEF One, IsBetween, IsUnrecorded
  <2> QED BY <1>5, <2>1, <2>2 DEF One
<1> QED BY <1>1, <1>2, <1>3, <1>4, <1>6, NoRowWritten

\* A Pay, Decline, Cancel or Remind whose UPDATE is not made, or matches no row.
LEMMA NoUpdateKeeps ==
  ASSUME IInv, form' = form, NEW c \in Calls, call[c].pc = "update", row' = row, sent' = sent,
         Goto(c, IF form[c].op = "pay" THEN "unmarked" ELSE "failed")
  PROVE  IInv' /\ \A q \in Rows : RowStep(q)
<1> USE DEF IInv
<1>1. PICK l \in {"failed", "unmarked"} : l = "unmarked" <=> form[c].op = "pay"
  OBVIOUS
<1>2. call'[c].pc = l /\ call'[c].q = call[c].q /\ Moved(c)
  <2>1. Goto(c, l)
    BY <1>1
  <2> QED BY <2>1, GotoEffect DEF Steps
<1>3. ~Creates(c) /\ CallInv(c)'
  <2>1. ~Creates(c) /\ call[c].q \in Rows /\ Exists(call[c].q)
    BY DEF CallInv
  <2>2. Exists(call[c].q)' /\ Rows' = Rows /\ ~Creates(c)'
    BY <1>2, <2>1, FormKept DEF Exists
  <2> QED BY <1>1, <1>2, <2>1, <2>2 DEF CallInv, Exists
<1>4. sent' \in [Rows -> Nat] /\ \A p \in Rows : sent'[p] - sent[p] = 0
  BY DEF TypeOK
<1>5. \A q \in Rows : sent'[q] - sent[q] =
            One(IsBetween(c, q)') - One(IsBetween(c, q))
              + One(IsUnrecorded(c, q)') - One(IsUnrecorded(c, q))
  <2>1. \A q \in Rows : /\ One(IsBetween(c, q)) = One(IsUnrecorded(c, q)')
                        /\ One(IsUnrecorded(c, q)) = 0 /\ One(IsBetween(c, q)') = 0
                        /\ One(IsBetween(c, q)) \in Nat
    BY <1>1, <1>2 DEF One, IsBetween, IsUnrecorded
  <2> QED BY <1>4, <2>1
<1> QED BY <1>2, <1>3, <1>4, <1>5, NoRowWritten

\* One INSERT: the next row of the call, and a new one.
LEMMA InsertKeeps ==
  ASSUME IInv, form' = form, NEW c \in Calls, Insert(c)
  PROVE  IInv' /\ \A q \in Rows : RowStep(q)
<1> USE DEF IInv
<1> DEFINE n == Len(form[c].to)
<1>1. Creates(c) /\ call[c].pc = "insert" /\ BatchInv(c) /\ Valid(c) /\ n \in Nat
  BY FormType DEF Insert, BatchInv, TypeOK
<1>2. PICK k \in 0 .. n : Inserted(c) = 1 .. k
  BY <1>1 DEF BatchInv
<1>3. Cardinality(Inserted(c)) = k /\ k # n /\ k + 1 \in 1 .. n
  <2>1. k \in Int /\ Cardinality(1 .. k) = k
    BY <1>1, FS_Interval
  <2> QED BY <1>1, <1>2, <2>1 DEF BatchInv
<1> DEFINE i == k + 1
           new == [requester |-> form[c].by, payer |-> Owner[form[c].to[i]],
                   amount |-> Amount(c, i), status |-> "pending", reminders |-> 0]
           p == <<c, i>>
<1>4. p \in Rows /\ ~Exists(p)
  <2>1. p \in Rows
    BY <1>1, <1>3, RowNames
  <2>2. k + 1 \notin Inserted(c)
    BY <1>1, <1>2
  <2> QED BY <1>3, <2>1, <2>2 DEF Inserted
<1>5. /\ Amount(c, i) > 0 /\ row' = [row EXCEPT ![p] = new] /\ sent' = sent
      /\ Goto(c, IF i = n THEN "done" ELSE "insert")
  BY <1>3 DEF Insert
<1>6. new \in Entries /\ new # NoRow /\ new.amount = Amount(c, i) /\ new.status = "pending"
  <2>1. form[c].by \in Users /\ form[c].to[i] \in Names
    BY <1>1, <1>3, FormType DEF TypeOK
  <2>2. Owner[form[c].to[i]] \in Users \cup {Nobody}
    BY <2>1, NameAssumption
  <2>3. Amount(c, i) \in Nat \ {0}
    BY <1>1, <1>3, <1>5, AmountType DEF TypeOK
  <2>4. new \in Entries
    BY <2>1, <2>2, <2>3, BoundAssumption DEF Entries, Statuses
  <2> QED BY <2>4, NoRowAssumption
<1> HIDE DEF new, p
<1>7. /\ row' \in [Rows -> Entries \cup {NoRow}] /\ row'[p] = new
      /\ \A q \in Rows \ {p} : row'[q] = row[q]
  BY <1>4, <1>5, <1>6 DEF TypeOK
<1>8. \A q \in Rows : RowStep(q)
  <2>1. \A q \in Rows \ {p} : RowStep(q)
    BY <1>7, SameRow
  <2> QED BY <1>4, <2>1 DEF RowStep
<1>9. PICK l \in {"done", "insert"} : /\ Moved(c) /\ call'[c].pc = l /\ (l = "done" <=> i = n)
  <2>1. CASE i = n
    BY <1>5, <2>1, GotoEffect DEF Steps
  <2>2. CASE i # n
    BY <1>5, <2>2, GotoEffect DEF Steps
  <2> QED BY <2>1, <2>2
<1>10. Creates(c)' /\ CallInv(c)'
  BY <1>1, <1>9, FormKept DEF CallInv
<1>11. BatchInv(c)'
  <2>1. \A j \in 1 .. n : <<c, j>> \in Rows /\ (<<c, j>> = p <=> j = i)
    BY <1>1, RowNames DEF p
  <2>2. \A j \in 1 .. n : Exists(<<c, j>>)' <=> j \in 1 .. (k + 1)
    <3> SUFFICES ASSUME NEW j \in 1 .. n PROVE Exists(<<c, j>>)' <=> j \in 1 .. (k + 1)
      OBVIOUS
    <3>1. CASE j = i
      BY <1>1, <1>6, <1>7, <2>1, <3>1 DEF Exists
    <3>2. CASE j # i
      <4>1. Exists(<<c, j>>)' <=> Exists(<<c, j>>)
        BY <1>7, <2>1, <3>2 DEF Exists
      <4>2. Exists(<<c, j>>) <=> j \in 1 .. k
        BY <1>2 DEF Inserted
      <4> QED BY <1>1, <3>2, <4>1, <4>2
    <3> QED BY <3>1, <3>2
  <2>3. Inserted(c)' = 1 .. (k + 1)
    BY <1>1, <1>3, <2>2 DEF Inserted
  <2>4. \A j \in 1 .. (k + 1) : row'[<<c, j>>].amount = Amount(c, j)
    <3> SUFFICES ASSUME NEW j \in 1 .. (k + 1) PROVE row'[<<c, j>>].amount = Amount(c, j)
      OBVIOUS
    <3>0. j \in 1 .. n
      BY <1>1, <1>3
    <3>1. CASE j = i
      BY <1>6, <1>7, <2>1, <3>0, <3>1
    <3>2. CASE j # i
      <4>1. j \in Inserted(c)
        BY <1>1, <1>2, <3>2
      <4> QED BY <1>1, <1>7, <2>1, <3>0, <3>2, <4>1 DEF BatchInv
    <3> QED BY <3>1, <3>2
  <2>5. Valid(c)' = Valid(c) /\ \A j : Amount(c, j)' = Amount(c, j)
    BY FormKept
  <2>6. (l = "insert" => Inserted(c)' # 1 .. n) /\ (l = "done" => Inserted(c)' = 1 .. n)
    <3>1. i # n => n \in 1 .. n /\ n \notin 1 .. (k + 1)
      BY <1>1, <1>3
    <3> QED BY <1>9, <2>3, <3>1
  <2>7. \E j \in 0 .. n : Inserted(c)' = 1 .. j
    BY <1>1, <1>3, <2>3
  <2>8. \A j \in Inserted(c)' : row'[<<c, j>>].amount = Amount(c, j)'
    BY <2>3, <2>4, <2>5
  <2> QED BY <1>1, <1>9, <2>5, <2>6, <2>7, <2>8 DEF BatchInv
<1>12. sent' \in [Rows -> Nat] /\ \A q \in Rows : sent'[q] - sent[q] = 0
  BY <1>5 DEF TypeOK
<1>13. \A q \in Rows : sent'[q] - sent[q] =
            Recorded(q)' - Recorded(q) + One(IsBetween(c, q)') - One(IsBetween(c, q))
              + One(IsUnrecorded(c, q)') - One(IsUnrecorded(c, q))
  <2>1. \A q : One(IsBetween(c, q)) = 0 /\ One(IsUnrecorded(c, q)) = 0
    BY <1>1, HoldsNone
  <2>2. \A q : One(IsBetween(c, q)') = 0 /\ One(IsUnrecorded(c, q)') = 0
    BY <1>9, HoldsNoneNext
  <2>3. \A q \in Rows : Recorded(q)' = Recorded(q) /\ Recorded(q) \in Nat
    BY <1>4, <1>6, <1>7 DEF Recorded, Exists
  <2> QED BY <1>12, <2>1, <2>2, <2>3
<1>14. ASSUME NEW d \in Calls \ {c}, Creates(d), NEW j \in 1 .. Len(form[d].to), Exists(<<d, j>>)'
       PROVE  Exists(<<d, j>>)
  <2>1. <<d, j>> \in Rows /\ <<d, j>> # p
    BY <1>14, RowNames DEF p
  <2> QED BY <1>7, <1>14, <2>1 DEF Exists
<1>15. IInv'
  BY <1>7, <1>8, <1>9, <1>10, <1>11, <1>12, <1>13, <1>14, StepKeeps
<1> QED BY <1>8, <1>15

\* An UPDATE that finds its row pending.
LEMMA UpdateKeeps ==
  ASSUME IInv, form' = form, NEW c \in Calls, Update(c)
  PROVE  IInv' /\ \A q \in Rows : RowStep(q)
<1> USE DEF IInv
<1>1. PICK p \in Rows : /\ p = call[c].q /\ call[c].pc = "update" /\ sent' = sent /\ ~Creates(c)
                        /\ Exists(p) /\ row[p] \in Entries
  BY RowType DEF Update, CallInv
<1> DEFINE Match == IF form[c].op = "remind" THEN Remindable(p) ELSE StillPending(p)
<1>2. CASE ~Match
  <2>1. row' = row /\ Goto(c, IF form[c].op = "pay" THEN "unmarked" ELSE "failed")
    BY <1>1, <1>2 DEF Update
  <2> QED BY <1>1, <2>1, NoUpdateKeeps
<1>3. CASE Match
  <2>1. PICK new \in Entries :
          /\ Pending(p) /\ row' = [row EXCEPT ![p] = new]
          /\ new.amount = row[p].amount /\ new.payer = row[p].payer
          /\ new.status = "paid" <=> form[c].op = "pay"
    <3>1. Pending(p) /\ row[p].status = "pending"
      BY <1>3 DEF Remindable, StillPending, Pending
    <3>2. CASE form[c].op = "remind"
      <4> DEFINE new == [row[p] EXCEPT !.reminders = row[p].reminders + 1]
      <4>1. row' = [row EXCEPT ![p] = new]
        BY <1>1, <1>3, <3>2 DEF Update
      <4>2. row[p].reminders \in 0 .. MaxReminders /\ row[p].reminders < MaxReminders
        BY <1>1, <1>3, <3>2 DEF Remindable, Entries
      <4>3. row[p].reminders + 1 \in 0 .. MaxReminders
        BY <4>2, BoundAssumption
      <4>4. /\ new \in Entries /\ new.amount = row[p].amount /\ new.payer = row[p].payer
            /\ new.status = "pending"
        BY <1>1, <3>1, <4>3 DEF Entries
      <4> QED BY <3>1, <3>2, <4>1, <4>4
    <3>3. CASE form[c].op # "remind"
      <4> DEFINE new == [row[p] EXCEPT !.status = NewStatus(c)]
      <4>1. row' = [row EXCEPT ![p] = new]
        BY <1>1, <1>3, <3>3 DEF Update
      <4>2. form[c].op \in {"pay", "decline", "cancel"}
        BY <1>1, <3>3, CallAssumption DEF Ops, Creates, Calls, TypeOK
      <4>3. NewStatus(c) \in Statuses /\ (NewStatus(c) = "paid" <=> form[c].op = "pay")
        BY <4>2 DEF NewStatus, Statuses
      <4>4. /\ new \in Entries /\ new.amount = row[p].amount /\ new.payer = row[p].payer
            /\ new.status = NewStatus(c)
        BY <1>1, <4>3 DEF Entries
      <4> QED BY <3>1, <4>1, <4>3, <4>4
    <3> QED BY <3>2, <3>3
  <2>2. Moved(c) /\ call'[c].pc = "done" /\ call'[c].q = p
    <3>1. Goto(c, "done")
      BY <1>1, <1>3 DEF Update
    <3> QED BY <1>1, <3>1, GotoEffect DEF Steps
  <2>3. /\ row' \in [Rows -> Entries \cup {NoRow}] /\ row'[p] = new
        /\ \A q \in Rows \ {p} : row'[q] = row[q]
    BY <1>1, <2>1 DEF TypeOK
  <2>4. new # NoRow /\ new.reminders <= MaxReminders
    BY NoRowAssumption, BoundAssumption DEF Entries
  <2>5. \A q \in Rows : RowStep(q)
    <3>1. \A q \in Rows \ {p} : RowStep(q)
      BY <2>3, SameRow
    <3>2. RowStep(p)
      BY <2>1, <2>3, <2>4 DEF RowStep, Exists
    <3> QED BY <3>1, <3>2
  <2>6. CallInv(c)'
    <3>1. Rows' = Rows /\ ~Creates(c)' /\ Exists(p)'
      BY <1>1, <2>3, <2>4, FormKept DEF Exists
    <3> QED BY <1>1, <2>2, <3>1 DEF CallInv
  <2>7. \A q \in Rows : Exists(q)' => Exists(q)
    BY <1>1, <2>3 DEF Exists
  <2>8. sent' \in [Rows -> Nat] /\ \A q \in Rows : sent'[q] - sent[q] = 0
    BY <1>1 DEF TypeOK
  <2>9. \A q \in Rows : sent'[q] - sent[q] =
            Recorded(q)' - Recorded(q) + One(IsBetween(c, q)') - One(IsBetween(c, q))
              + One(IsUnrecorded(c, q)') - One(IsUnrecorded(c, q))
    <3>1. \A q : One(IsBetween(c, q)') = 0 /\ One(IsUnrecorded(c, q)') = 0
      BY <2>2, HoldsNoneNext
    <3>2. \A q : /\ One(IsBetween(c, q)) = One(q = p /\ form[c].op = "pay") /\ One(IsUnrecorded(c, q)) = 0
      BY <1>1 DEF One, IsBetween, IsUnrecorded
    <3>3. \A q \in Rows \ {p} : Recorded(q)' = Recorded(q) /\ Recorded(q) \in Nat
      BY <2>3 DEF Recorded, Exists
    <3>4. Recorded(p) = 0 /\ Recorded(p)' = One(form[c].op = "pay")
      BY <2>1, <2>3, <2>4 DEF Recorded, Exists, Pending, One
    <3> QED BY <2>8, <3>1, <3>2, <3>3, <3>4 DEF One
  <2>10. IInv'
    <3>1. \A d \in Calls \ {c} : Creates(d) => \A i \in 1 .. Len(form[d].to) :
            Exists(<<d, i>>)' => Exists(<<d, i>>)
      BY <2>7, RowNames
    <3> QED BY <1>1, <2>2, <2>3, <2>5, <2>6, <2>8, <2>9, <3>1, StepKeeps
  <2> QED BY <2>5, <2>10
<1> QED BY <1>2, <1>3

\* Expiry closes rows that are pending, and touches nothing else.
LEMMA ExpireKeeps ==
  ASSUME IInv, form' = form, ExpireStale
  PROVE  IInv' /\ \A q \in Rows : RowStep(q)
<1> USE DEF IInv
<1>1. PICK S \in SUBSET {q \in Rows : Exists(q) /\ Pending(q)} :
        /\ row' = [q \in Rows |-> IF q \in S THEN [row[q] EXCEPT !.status = "expired"] ELSE row[q]]
        /\ call' = call /\ sent' = sent
  BY DEF ExpireStale
<1>2. ASSUME NEW q \in Rows
      PROVE  /\ row'[q] \in Entries \cup {NoRow} /\ RowStep(q) /\ (Exists(q)' <=> Exists(q))
             /\ Recorded(q)' = Recorded(q)
  <2>1. CASE q \in S
    <3>1. row'[q] = [row[q] EXCEPT !.status = "expired"] /\ Exists(q) /\ Pending(q) /\ row[q] \in Entries
      BY <1>1, <2>1, RowType
    <3>2. /\ row'[q] \in Entries /\ row'[q] # NoRow /\ row'[q].status = "expired"
          /\ row'[q].amount = row[q].amount /\ row'[q].payer = row[q].payer
          /\ row'[q].reminders <= MaxReminders
      BY <3>1, NoRowAssumption, BoundAssumption DEF Entries, Statuses
    <3> QED BY <3>1, <3>2 DEF RowStep, Exists, Recorded, Pending
  <2>2. CASE q \notin S
    <3>1. row'[q] = row[q]
      BY <1>1, <2>2
    <3> QED BY <3>1, SameRow DEF TypeOK, Exists, Recorded
  <2> QED BY <2>1, <2>2
<1>3. row' \in [Rows -> Entries \cup {NoRow}]
  BY <1>1, <1>2
<1>4. Calls' = Calls /\ Rows' = Rows /\ \A d : Creates(d)' = Creates(d)
  BY FormKept
<1>5. TypeOK'
  BY <1>1, <1>3, <1>4 DEF TypeOK
<1>6. TransfersAccountedFor'
  BY <1>1, <1>2, <1>4 DEF TransfersAccountedFor, Between, Unrecorded
<1>7. ASSUME NEW d \in Calls PROVE CallInv(d)' /\ (Creates(d) => BatchInv(d)')
  <2>1. CallInv(d)'
    BY <1>1, <1>2, CallKept
  <2>2. ASSUME Creates(d) PROVE BatchInv(d)'
    <3>1. \A i \in 1 .. Len(form[d].to) : Exists(<<d, i>>)' => Exists(<<d, i>>)
      BY <1>2, <2>2, RowNames
    <3> QED BY <1>1, <1>2, <2>2, <3>1, BatchKept
  <2> QED BY <2>1, <2>2
<1> QED BY <1>2, <1>4, <1>5, <1>6, <1>7

\* The initial states satisfy the inductive invariant.
LEMMA InitIInv == Init => IInv
<1> SUFFICES ASSUME Init PROVE IInv
  OBVIOUS
<1>1. /\ form \in Workloads /\ row = [q \in Rows |-> NoRow] /\ sent = [q \in Rows |-> 0]
      /\ call = [c \in Calls |-> [pc |-> "new", q |-> NoneYet]]
  BY DEF Init
<1>2. TypeOK
  BY <1>1 DEF TypeOK, Steps
<1>3. \A c \in Calls : call[c].pc = "new"
  BY <1>1
<1>4. TransfersAccountedFor
  <2> SUFFICES ASSUME NEW q \in Rows
               PROVE  sent[q] = Recorded(q) + Cardinality(Between(q)) + Cardinality(Unrecorded(q))
    BY DEF TransfersAccountedFor
  <2>1. Between(q) = {} /\ Unrecorded(q) = {}
    BY <1>3 DEF Between, Unrecorded
  <2>2. Cardinality(Between(q)) = 0 /\ Cardinality(Unrecorded(q)) = 0
    BY <2>1, FS_EmptySet
  <2>3. sent[q] = 0 /\ Recorded(q) = 0
    BY <1>1 DEF Recorded, Exists
  <2> QED BY <2>2, <2>3
<1>5. \A c \in Calls : CallInv(c)
  BY <1>3 DEF CallInv
<1>6. ASSUME NEW c \in Calls, Creates(c) PROVE BatchInv(c)
  <2>1. Inserted(c) = {} /\ Len(form[c].to) \in Nat
    BY <1>1, <1>6, RowNames, FormType DEF Inserted, Exists
  <2>2. 0 \in 0 .. Len(form[c].to) /\ Inserted(c) = 1 .. 0
    BY <2>1
  <2> QED BY <1>3, <2>1, <2>2 DEF BatchInv
<1> QED BY <1>2, <1>4, <1>5, <1>6 DEF IInv

\* Every step keeps the inductive invariant and changes rows as RowStep says.
LEMMA NextIInv == IInv /\ [Next]_vars => IInv' /\ \A q \in Rows : RowStep(q)
<1> SUFFICES ASSUME IInv, [Next]_vars PROVE IInv' /\ \A q \in Rows : RowStep(q)
  OBVIOUS
<1>1. ASSUME NEW c \in Calls, form' = form,
             \/ Refuse(c) \/ Accept(c) \/ Insert(c) \/ InsertFails(c)
             \/ Read(c) \/ Transfer(c) \/ TransferThenError(c) \/ Update(c) \/ UpdateFails(c)
      PROVE  IInv' /\ \A q \in Rows : RowStep(q)
  <2>1. CASE UpdateFails(c)
    BY <1>1, <2>1, NoUpdateKeeps DEF UpdateFails
  <2> QED BY <1>1, <2>1, CreationsKeep, InsertKeeps, ReadKeeps, TransferKeeps, UpdateKeeps
<1>2. ASSUME form' = form, ExpireStale PROVE IInv' /\ \A q \in Rows : RowStep(q)
  BY <1>2, ExpireKeeps
<1>3. ASSUME UNCHANGED vars PROVE IInv' /\ \A q \in Rows : RowStep(q)
  <2>1. form' = form /\ row' = row /\ call' = call /\ sent' = sent
    BY <1>3 DEF vars
  <2>2. \A q \in Rows : RowStep(q)
    BY <2>1, SameRow DEF IInv
  <2>3. Calls' = Calls /\ Rows' = Rows /\ \A d : Creates(d)' = Creates(d)
    BY <2>1, FormKept
  <2>4. TypeOK' /\ TransfersAccountedFor'
    BY <2>1, <2>3 DEF IInv, TypeOK, TransfersAccountedFor, Between, Unrecorded, Recorded, Exists
  <2>5. \A d \in Calls : CallInv(d)' /\ (Creates(d) => BatchInv(d)')
    BY <2>1, <2>2, CallKept, BatchKept DEF IInv, Exists
  <2> QED BY <2>2, <2>3, <2>4, <2>5 DEF IInv
<1> QED BY <1>1, <1>2, <1>3 DEF Next, Step

\* The inductive invariant holds in every reachable state.
THEOREM Invariance == Spec => []IInv
<1>1. Init => IInv
  BY InitIInv
<1>2. IInv /\ [Next]_vars => IInv'
  BY NextIInv
<1> QED BY <1>1, <1>2, PTL DEF Spec

\* Pay: however many Pay, Decline, Cancel, Remind and expiry calls race on a row,
\* every transfer made for it is the one it was marked paid for, or belongs to a
\* call that is about to mark it or reported a failure.
THEOREM TransfersAreAccountedFor == Spec => []TransfersAccountedFor
<1>1. IInv => TransfersAccountedFor
  BY DEF IInv
<1> QED BY <1>1, Invariance, PTL

\* CreateBatch: for any total and any number of payers, the equal or custom split
\* never asks for more than the total, and for exactly that when the call succeeds.
THEOREM BatchesAskForTheTotal == Spec => []BatchAsksForTheTotal
<1>1. IInv => BatchAsksForTheTotal
  <2> SUFFICES ASSUME IInv, NEW c \in Calls, Creates(c), call[c].pc \in {"insert", "done"}
               PROVE  LET asked == SumFunctionOnSet([i \in Inserted(c) |-> row[<<c, i>>].amount], Inserted(c))
                      IN  asked <= form[c].total /\ (call[c].pc = "done" => asked = form[c].total)
    BY DEF BatchAsksForTheTotal
  <2> DEFINE S == 1 .. Len(form[c].to)
             I == Inserted(c)
             f == [i \in I |-> row[<<c, i>>].amount]
  <2>1. form \in Workloads /\ BatchInv(c) /\ Valid(c)
    BY DEF IInv, TypeOK, BatchInv
  <2>2. IsFiniteSet(S) /\ I \in SUBSET S
    BY <2>1, ValidForm, FS_Interval DEF Inserted
  <2>3. \A i \in S : Shares(c)[i] \in Nat
    BY <2>1, AmountType DEF Shares
  <2>4. \A i \in I : f[i] = Shares(c)[i] /\ f[i] \in Int
    <3> SUFFICES ASSUME NEW i \in I PROVE f[i] = Shares(c)[i] /\ f[i] \in Int
      OBVIOUS
    <3>1. i \in S /\ f[i] = row[<<c, i>>].amount
      BY <2>2
    <3>2. f[i] = Amount(c, i)
      BY <2>1, <3>1 DEF BatchInv
    <3>3. Shares(c)[i] = Amount(c, i)
      BY <3>1 DEF Shares
    <3> QED BY <2>3, <3>1, <3>2, <3>3
  <2>5. SumFunctionOnSet(Shares(c), S) = form[c].total
    BY <2>1, SharesAddUp
  <2>6. call[c].pc = "done" => I = S
    BY <2>1 DEF BatchInv
  <2>7. form[c].total \in Int
    BY <2>1, FormType
  <2> HIDE DEF f, S, I
  <2>8. SumFunctionOnSet(f, I) = SumFunctionOnSet(Shares(c), I)
    BY <2>2, <2>4, SumSame, FS_Subset
  <2>9. SumFunctionOnSet(Shares(c), I) <= SumFunctionOnSet(Shares(c), S)
    BY <2>2, <2>3, SumPart
  <2>10. SumFunctionOnSet(f, I) <= form[c].total /\ (call[c].pc = "done" => SumFunctionOnSet(f, I) = form[c].total)
    BY <2>5, <2>6, <2>8, <2>9
  <2> QED BY <2>10 DEF f, I
<1> QED BY <1>1, Invariance, PTL

\* A row that left pending never changes again, what it asks and of whom never
\* changes, and reminders stop at the limit.
THEOREM ClosedRequestsAreFinal == Spec => ClosedRequestIsFinal
<1>1. IInv /\ [Next]_vars => \A q \in Rows : RowStep(q)
  BY NextIInv
<1>2. IInv /\ [Next]_vars => [\A q \in Rows : Exists(q) =>
       /\ Exists(q)'
       /\ ~Pending(q) => row'[q] = row[q]
       /\ row'[q].amount = row[q].amount /\ row'[q].payer = row[q].payer
       /\ row'[q].reminders <= MaxReminders]_vars
  BY <1>1 DEF RowStep
<1> QED BY <1>2, Invariance, PTL DEF Spec, ClosedRequestIsFinal
=============================================================================
