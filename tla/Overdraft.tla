------------------------------ MODULE Overdraft ------------------------------
(***************************************************************************)
(* The overdraft facility of a user: the row of the overdrafts table and   *)
(* what one statement of repository/overdraft.go does to it, with the      *)
(* decisions overdraft.Service takes from a row it read earlier.           *)
(***************************************************************************)
EXTENDS Integers

MinOf(a, b) == IF a <= b THEN a ELSE b

\* "absent" is the missing row.  Suspended is never assigned by the program.
NoOverdraft == [status |-> "absent", limit |-> 0, used |-> 0, accrued |-> 0, since |-> FALSE]
OverdraftRows == [status : {"absent", "inactive", "active", "used"},
                  limit : Nat, used : Nat, accrued : Nat, since : BOOLEAN]

\* 10% of the approved loan limit, at most 5,000,000 cents, for users in good
\* standing.
OverdraftMaxLimitCents == 5000000
LimitFor(profile) ==
  IF profile.blacklisted \/ profile.trust <= 600 \/ profile.approved <= 0
    THEN 0
    ELSE MinOf((profile.approved * 10) \div 100, OverdraftMaxLimitCents)

(* Decisions, from the row o as it was read. *)
CanOptIn(o, limit)    == limit > 0 /\ o.status \notin {"active", "used"}
CanOptOutMutant(o)    == o.status \notin {"absent", "inactive"}
CanOptOut(o)          == o.status \notin {"absent", "inactive"} /\ o.used = 0 /\ o.accrued = 0
CanCover(o, shortfall) == o.status \in {"active", "used"} /\ o.limit - o.used >= shortfall
Owed(o)               == o.used + o.accrued
CanRepay(o)           == o.status = "used" /\ Owed(o) > 0
RepayAmountMutant(o, offered) == offered
RepayAmount(o, offered) == MinOf(offered, Owed(o))

\* A repayment goes to the accrued fee first, the rest to the principal.
FeePart(o, amount)       == MinOf(amount, o.accrued)
PrincipalPart(o, amount) == MinOf(amount - FeePart(o, amount), o.used)
AfterRepay(o, amount) ==
  [used |-> o.used - PrincipalPart(o, amount), accrued |-> o.accrued - FeePart(o, amount)]

(* Statements, on the row as it is when they run. *)
\* INSERT ... ON CONFLICT DO UPDATE: limit and status come from the caller.
CreateOrUpdate(o, limit, status) == [o EXCEPT !.limit = limit, !.status = status]
\* used_cents = used_cents + delta; overdrawn_since only if nothing was used.
UpdateUsedAndStatus(o, read, delta) ==
  [o EXCEPT !.used = @ + delta, !.status = "used", !.since = @ \/ read.used = 0]
\* The values computed from the row read before the ledger was debited.
UpdateRepaid(o, read, amount) ==
  LET new == AfterRepay(read, amount) IN
    [o EXCEPT !.used = new.used, !.accrued = new.accrued, !.since = FALSE,
              !.status = IF new.used > 0 \/ new.accrued > 0 THEN "used" ELSE "active"]
=============================================================================
