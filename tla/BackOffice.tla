----------------------------- MODULE BackOffice -----------------------------
(***************************************************************************)
(* The staff side beside the customers of Access and Directory: staff      *)
(* logins and records, what staff may do to customers and cards, flags,    *)
(* the daily reconciliation and the handling of its exceptions.            *)
(*                                                                         *)
(* A staff request shows a token that carries the role of its holder at    *)
(* login; no table is asked again.                                         *)
(***************************************************************************)
EXTENDS Directory

CONSTANTS
  OfficeOpening,  \* staff, tokens, flags, exceptions and runs at the start
  File,           \* lines of the clearing file: ref and cents; no ref: not to be parsed
  ReceiptOf,      \* ReceiptOf[ref]: amount_cents of the receipt with that reference
  Today           \* the day of the run

OfficeTables == {"staff", "tokens", "flags", "exceptions", "runs"}
StaffColumns == {"email", "name", "role", "pass", "active"}

\* Ids of new rows are new; flags are of customers.
ASSUME OfficeAssumption ==
  /\ DOMAIN OfficeOpening = OfficeTables
  /\ DOMAIN Ask \cap (DOMAIN OfficeOpening.staff \cup DOMAIN OfficeOpening.flags \cup DOMAIN OfficeOpening.runs) = {}
  /\ \A x \in DOMAIN OfficeOpening.staff : DOMAIN OfficeOpening.staff[x] = StaffColumns
  /\ \A f \in DOMAIN OfficeOpening.flags :
       LET flag == OfficeOpening.flags[f]
       IN  DOMAIN flag = {"user", "by", "resolver"} /\ flag.user \in DOMAIN CustomerOpening.users /\ flag.resolver \notin DOMAIN Ask
  /\ \A r, q \in DOMAIN OfficeOpening.runs : OfficeOpening.runs[r].date = OfficeOpening.runs[q].date => r = q
  /\ \A e \in DOMAIN OfficeOpening.exceptions :
       LET exception == OfficeOpening.exceptions[e]
       IN  /\ DOMAIN exception = {"ref", "type", "status", "assigned"} /\ e[1] \notin DOMAIN Ask
           /\ exception.assigned # "none" => exception.status # "open"
  /\ Len(File) \in Nat

VARIABLE office   \* the staff tables and the tokens given out

backOfficeVars == <<db, wallets, fayda, call, starts, office>>

BackOfficeInit == AccessInit /\ office = OfficeOpening
-----------------------------------------------------------------------------
(* Staff.                                                                  *)

\* The permissions that the routes modelled here ask for.
RolePermissions ==
  [super_admin |-> {"staff:manage", "users:freeze", "users:kyc_override", "flags:manage", "recon:manage", "cards:manage"},
   customer_support |-> {},
   customer_support_lead |-> {"users:freeze", "flags:manage"},
   compliance_officer |-> {"users:freeze", "flags:manage"},
   lending_officer |-> {},
   reconciliation_analyst |-> {"recon:manage"},
   card_operations |-> {"cards:manage"}, treasury |-> {}, auditor |-> {}]
HasPermission(role, perm) == role \in DOMAIN RolePermissions /\ perm \in RolePermissions[role]

\* AdminAuth and RequirePermission: both look at the token alone.
AdminAuth(c) == Req(c).token \in DOMAIN office.tokens
Holder(c) == office.tokens[Req(c).token].staff
RequirePermission(c, perm) == HasPermission(office.tokens[Req(c).token].role, perm)

\* The first step of a staff request: refused, or on to doing it.
Admitted(c, op, perm) == Begins(c, op) /\ AdminAuth(c) /\ RequirePermission(c, perm)
RoutePermission ==
  [createStaff |-> "staff:manage", updateStaff |-> "staff:manage", deactivateStaff |-> "staff:manage",
   freeze |-> "users:freeze", unfreeze |-> "users:freeze", overrideKYC |-> "users:kyc_override",
   adminCard |-> "cards:manage", createFlag |-> "flags:manage", resolveFlag |-> "flags:manage",
   assign |-> "recon:manage", investigate |-> "recon:manage", resolve |-> "recon:manage", escalate |-> "recon:manage"]
Forbidden(c) ==
  /\ Req(c).op \in DOMAIN RoutePermission /\ Begins(c, Req(c).op) /\ AdminAuth(c)
  /\ ~RequirePermission(c, RoutePermission[Req(c).op])
  /\ Finish(c, FALSE) /\ UNCHANGED <<customerVars, office>>

GetByEmail(email) == {x \in DOMAIN office.staff : office.staff[x].email = email}
AdminLogin(email, password) ==
  {x \in GetByEmail(email) : office.staff[x].active /\ office.staff[x].pass = password}
\* The row is read, the password hashed and compared, and then the token made
\* out for the row as it was read.
HandleAdminLogin(c) ==
  LET who == AdminLogin(Req(c).email, Req(c).password) IN
  /\ Begins(c, "adminLogin")
  /\ \/ \E x \in who : call' = [call EXCEPT ![c].pc = "issueToken", ![c].user = x, ![c].row = office.staff[x]]
     \/ who = {} /\ Finish(c, FALSE)
  /\ UNCHANGED <<customerVars, office>>
GenerateAdminJWT(c) == Insert(office.tokens, c, [staff |-> call[c].user, role |-> call[c].row.role])
IssueToken(c) ==
  /\ At(c, "issueToken")
  /\ office' = [office EXCEPT !.tokens = GenerateAdminJWT(c)]
  /\ Finish(c, TRUE)
  /\ UNCHANGED customerVars

NewStaff(r) == [email |-> r.email, name |-> r.name, role |-> r.role, pass |-> r.password, active |-> TRUE]
\* email is unique.
CreateStaffRow(c) ==
  IF GetByEmail(Req(c).email) = {} THEN [office EXCEPT !.staff = Insert(@, c, NewStaff(Req(c)))] ELSE office
HandleCreateStaff(c) ==
  /\ Admitted(c, "createStaff", "staff:manage")
  /\ office' = CreateStaffRow(c)
  /\ Finish(c, GetByEmail(Req(c).email) = {})
  /\ UNCHANGED customerVars

\* Both read a row, change it in memory and write it back whole.  cut records
\* the writes to the row that were done by then.
Wrote(c, x) == Req(c).op \in {"updateStaff", "staffPassword"} /\ call[c].pc = "done" /\ call[c].user = x
Keep(c, x, row) ==
  call' = [call EXCEPT ![c].pc = "writeStaff", ![c].user = x, ![c].row = row, ![c].cut = {d \in Calls : Wrote(d, x)}]
Given(new, old) == IF new = None THEN old ELSE new
UpdatedStaff(r, row) == [row EXCEPT !.name = Given(r.name, @), !.role = Given(r.role, @)]
HandleUpdateStaff(c) ==
  /\ Admitted(c, "updateStaff", "staff:manage")
  /\ IF Req(c).id \in DOMAIN office.staff
       THEN Keep(c, Req(c).id, UpdatedStaff(Req(c), office.staff[Req(c).id]))
       ELSE Finish(c, FALSE)
  /\ UNCHANGED <<customerVars, office>>
ChangeStaffPassword(c, x) ==
  IF x \in DOMAIN office.staff /\ office.staff[x].pass = Req(c).password
    THEN Keep(c, x, [office.staff[x] EXCEPT !.pass = Req(c).new]) ELSE Finish(c, FALSE)
HandleStaffPassword(c) ==
  /\ Begins(c, "staffPassword") /\ AdminAuth(c)
  /\ ChangeStaffPassword(c, Holder(c))
  /\ UNCHANGED <<customerVars, office>>

\* pgStaffRepo.Update sets name, role, department and password: not is_active.
UpdateStaffRowMutant(x, row) == [office EXCEPT !.staff[x] = row]
UpdateStaffRow(x, row) ==
  [office EXCEPT !.staff[x] = [@ EXCEPT !.name = row.name, !.role = row.role, !.pass = row.pass]]
WriteStaff(c) ==
  /\ At(c, "writeStaff")
  /\ office' = UpdateStaffRow(call[c].user, call[c].row)
  /\ Finish(c, TRUE)
  /\ UNCHANGED customerVars

Deactivate(x) == [office EXCEPT !.staff[x].active = FALSE]
\* cut records the logins that have a token by then, or are about to.
LoggingIn == {d \in Calls : call[d].pc = "issueToken"}
HandleDeactivateStaff(c) ==
  /\ Admitted(c, "deactivateStaff", "staff:manage")
  /\ IF Req(c).id \in DOMAIN office.staff
       THEN /\ office' = Deactivate(Req(c).id)
            /\ call' = [call EXCEPT ![c].pc = "done", ![c].took = TRUE, ![c].cut = DOMAIN office.tokens \cup LoggingIn]
       ELSE Finish(c, FALSE) /\ UNCHANGED office
  /\ UNCHANGED customerVars
-----------------------------------------------------------------------------
(* What staff do to customers.  The audit entries are not modelled.        *)

Known(c) == Req(c).id \in DOMAIN db.users
FreezeUser(u) == [db EXCEPT !.users[u].frozen = TRUE]
UnfreezeUser(u) == [db EXCEPT !.users[u].frozen = FALSE]
\* A request that runs one UPDATE on the row of a user.
OnCustomer(c, op, perm, updated) ==
  /\ Admitted(c, op, perm)
  /\ db' = IF Known(c) THEN updated ELSE db
  /\ Finish(c, Known(c)) /\ UNCHANGED <<wallets, fayda, office>>
HandleFreeze(c) == OnCustomer(c, "freeze", "users:freeze", FreezeUser(Req(c).id))
HandleUnfreeze(c) == OnCustomer(c, "unfreeze", "users:freeze", UnfreezeUser(Req(c).id))
HandleKYCOverride(c) == OnCustomer(c, "overrideKYC", "users:kyc_override", UpdateKYCLevel(Req(c).id, Req(c).level))

\* Freeze, Unfreeze, Cancel and UpdateLimits: one UPDATE on the row of a card.
HandleAdminCard(c) ==
  LET found == Req(c).id \in DOMAIN db.cards IN
  /\ Admitted(c, "adminCard", "cards:manage")
  /\ db' = IF found THEN UpdateCard(Req(c).id, Req(c).column, Req(c).value) ELSE db
  /\ Finish(c, found) /\ UNCHANGED <<wallets, fayda, office>>

NewFlag(c) == [user |-> Req(c).id, by |-> Holder(c), resolver |-> None]
CreateFlagRow(c) == [office EXCEPT !.flags = Insert(@, c, NewFlag(c))]
HandleCreateFlag(c) ==
  /\ Admitted(c, "createFlag", "flags:manage")
  /\ office' = IF Known(c) THEN CreateFlagRow(c) ELSE office
  /\ Finish(c, Known(c)) /\ UNCHANGED customerVars
GetFlag(id) == DOMAIN office.flags \cap {id}
HandleResolveFlag(c) ==
  /\ Admitted(c, "resolveFlag", "flags:manage")
  /\ IF GetFlag(Req(c).id) # {} THEN StepTo(c, "resolveFlag") ELSE Finish(c, FALSE)
  /\ UNCHANGED <<customerVars, office>>
\* WHERE id = $1 AND NOT is_resolved.
ResolveFlagRow(id, by) ==
  IF office.flags[id].resolver = None THEN [office EXCEPT !.flags[id].resolver = by] ELSE office
ResolveFlag(c) ==
  /\ At(c, "resolveFlag")
  /\ office' = ResolveFlagRow(Req(c).id, c)
  /\ Finish(c, office.flags[Req(c).id].resolver = None)
  /\ UNCHANGED customerVars
CountOpen == Cardinality({f \in DOMAIN office.flags : office.flags[f].resolver = None})
ListFlags(users, resolved) ==
  {f \in DOMAIN office.flags : office.flags[f].user \in users /\ (office.flags[f].resolver # None) \in resolved}
-----------------------------------------------------------------------------
(* Reconciliation.                                                         *)

\* run_date is unique: a second run of the day fails here, whatever became of
\* the first.
CreateRun(c) ==
  LET free == \A r \in DOMAIN office.runs : office.runs[r].date # Today
      row == [date |-> Today, matched |-> 0, exceptions |-> 0, status |-> "running"]
  IN  /\ Begins(c, "reconcile")
      /\ office' = IF free THEN [office EXCEPT !.runs = Insert(@, c, row)] ELSE office
      /\ IF free THEN StepTo(c, "openFile") ELSE Finish(c, FALSE)
      /\ UNCHANGED customerVars

FinishRun(c, matched, exceptions, status) ==
  [office EXCEPT !.runs[c].matched = matched, !.runs[c].exceptions = exceptions, !.runs[c].status = status]

\* A file that does not open fails the run; one without a header leaves it
\* running (Dies).
OpenFile(c) ==
  /\ At(c, "openFile")
  /\ \/ call' = [call EXCEPT ![c].pc = "readLine", ![c].row = [line |-> 1, matched |-> 0, exceptions |-> 0]]
        /\ UNCHANGED office
     \/ Finish(c, FALSE) /\ office' = FinishRun(c, 0, 0, "failed")
  /\ UNCHANGED customerVars

\* A lookup that fails is taken for a receipt that is not there; posted: what
\* GetAccountHistory finds for the receipt.
Verdict(line, found, posted) ==
  CASE ~found -> "missing_in_ledger"
    [] found /\ ~posted -> "status_mismatch"
    [] found /\ posted /\ line.cents # ReceiptOf[line.ref] -> "amount_mismatch"
    [] OTHER -> "matched"

\* flagException ignores the error of its INSERT.
FlagException(c, n, type) ==
  Insert(office.exceptions, <<c, n>>, [ref |-> File[n].ref, type |-> type, status |-> "open", assigned |-> None])
\* A line that does not parse is logged and passed over.
SkipLine(c) ==
  LET n == call[c].row.line IN
  /\ At(c, "readLine") /\ n <= Len(File) /\ File[n].ref = None
  /\ call' = [call EXCEPT ![c].row.line = @ + 1]
  /\ UNCHANGED <<customerVars, office>>
ReadLine(c) ==
  LET n == call[c].row.line IN
  /\ At(c, "readLine") /\ n <= Len(File) /\ File[n].ref # None
  /\ \E looked, posted \in BOOLEAN :
       LET verdict == Verdict(File[n], looked /\ File[n].ref \in DOMAIN ReceiptOf, posted) IN
       IF verdict = "matched"
         THEN call' = [call EXCEPT ![c].row.line = @ + 1, ![c].row.matched = @ + 1] /\ UNCHANGED office
         ELSE /\ call' = [call EXCEPT ![c].row.line = @ + 1, ![c].row.exceptions = @ + 1]
              /\ \/ office' = [office EXCEPT !.exceptions = FlagException(c, n, verdict)]
                 \/ UNCHANGED office
  /\ UNCHANGED customerVars
EndOfFile(c) ==
  /\ At(c, "readLine") /\ call[c].row.line > Len(File)
  /\ office' = FinishRun(c, call[c].row.matched, call[c].row.exceptions, "completed")
  /\ Finish(c, TRUE)
  /\ UNCHANGED customerVars

\* The statements write the status whatever it was.
AssignException(e, to) ==
  [office EXCEPT !.exceptions[e].assigned = to, !.exceptions[e].status = "investigating"]
EscalateException(e) == [office EXCEPT !.exceptions[e].status = "escalated"]
UpdateExceptionStatus(e, status) == [office EXCEPT !.exceptions[e].status = status]
OnException(c, op, updated) ==
  LET found == Req(c).id \in DOMAIN office.exceptions IN
  /\ Admitted(c, op, "recon:manage")
  /\ office' = IF found THEN updated ELSE office
  /\ Finish(c, found) /\ UNCHANGED customerVars
HandleAssign(c) == OnException(c, "assign", AssignException(Req(c).id, Req(c).to))
HandleInvestigate(c) == OnException(c, "investigate", UpdateExceptionStatus(Req(c).id, "investigating"))
HandleResolve(c) == OnException(c, "resolve", UpdateExceptionStatus(Req(c).id, "resolved"))
HandleEscalate(c) == OnException(c, "escalate", EscalateException(Req(c).id))
ListOpenExceptions == {e \in DOMAIN office.exceptions : office.exceptions[e].status \in {"open", "investigating"}}
-----------------------------------------------------------------------------
Staff(c) == \/ HandleAdminLogin(c) \/ IssueToken(c) \/ HandleCreateStaff(c) \/ HandleUpdateStaff(c) \/ HandleStaffPassword(c)
            \/ WriteStaff(c) \/ HandleDeactivateStaff(c) \/ Forbidden(c)
Customers(c) == \/ HandleFreeze(c) \/ HandleUnfreeze(c) \/ HandleKYCOverride(c) \/ HandleAdminCard(c)
                \/ HandleCreateFlag(c) \/ HandleResolveFlag(c) \/ ResolveFlag(c)
Reconciles(c) == \/ CreateRun(c) \/ OpenFile(c) \/ SkipLine(c) \/ ReadLine(c) \/ EndOfFile(c)
                 \/ HandleAssign(c) \/ HandleInvestigate(c) \/ HandleResolve(c) \/ HandleEscalate(c)

BackOfficeNext == \E c \in Calls : \/ (CustomerStep(c) \/ DirectoryStep(c)) /\ UNCHANGED office
                         \/ Staff(c) \/ Customers(c) \/ Reconciles(c)

BackOfficeSpec == BackOfficeInit /\ [][BackOfficeNext]_backOfficeVars
-----------------------------------------------------------------------------
(* Properties.                                                             *)

\* Update and ChangePassword of staff write whole rows that they read before:
\* a staff member once deactivated stays so, and gets no token after it but for
\* a login that had read the row before.
DeactivationSticks ==
  \A c \in Calls : (Req(c).op = "deactivateStaff" /\ call[c].took) =>
    /\ ~office.staff[Req(c).id].active
    /\ \A t \in DOMAIN office.tokens : office.tokens[t].staff = Req(c).id => t \in call[c].cut

\* x's row has the name, role and password of row; the writes they may be of.
Is(x, row) == office.staff[x].name = row.name /\ office.staff[x].role = row.role /\ office.staff[x].pass = row.pass
OneWrite(x) ==
  \/ x \in DOMAIN OfficeOpening.staff /\ Is(x, OfficeOpening.staff[x])
  \/ x \in Calls /\ Is(x, [name |-> Req(x).name, role |-> Req(x).role, pass |-> Req(x).password])
  \/ \E c \in Calls : call[c].user = x /\ call[c].pc = "done" /\ Is(x, call[c].row)
\* A staff row is never put together from two writes: name, role and password
\* are those of one request, or those the row was created with.
RowsAreOfOneWrite == \A x \in DOMAIN office.staff : OneWrite(x)

\* The columns that request c sets, and what to.
Columns == {"name", "role", "pass"}
New(c) == IF Req(c).op = "staffPassword" THEN [name |-> None, role |-> None, pass |-> Req(c).new]
                                         ELSE [name |-> Req(c).name, role |-> Req(c).role, pass |-> None]
\* d wrote the row of x as it was before c wrote it, or set the column after c.
Overlap(c, d) == c \notin call[d].cut /\ d \notin call[c].cut
Overwrote(d, c, x, f) == Wrote(d, x) /\ (Overlap(c, d) \/ (c \in call[d].cut /\ New(d)[f] # None))
Reflects(row, c, x) ==
  \A f \in Columns : New(c)[f] # None =>
    row[f] = New(c)[f] \/ \E d \in Calls \ {c} : Overwrote(d, c, x, f)
\* A change of a staff row that was answered with success is in the row, unless
\* a later request changed the same column or one that overlapped wrote back
\* the row it had read.
ChangesAreLostToOverlapsOnly == \A c \in Calls : Wrote(c, call[c].user) => Reflects(office.staff[call[c].user], c, call[c].user)

\* Only VerifyOTP, after Fayda's yes and with a name, or staff raise a KYC level;
\* a freeze that nobody lifted holds.
StaffWordStands ==
  /\ \A u \in DOMAIN db.users : db.users[u].kyc > KYCBasic =>
       \/ db.users[u].name # None
       \/ \E c \in Calls : Req(c).op = "overrideKYC" /\ Req(c).id = u /\ call[c].pc = "done"
  /\ \A c \in Calls : (Req(c).op = "freeze" /\ call[c].pc = "done") =>
       \/ db.users[Req(c).id].frozen
       \/ \E d \in Calls : Req(d).op = "unfreeze" /\ Req(d).id = Req(c).id /\ call[d].pc = "done"

\* Of the requests that resolve a flag one is told so, and it is the one the
\* flag names.
FlagsHaveOneResolver ==
  /\ \A c \in Calls : Req(c).op = "resolveFlag" =>
       (call[c].pc = "done" <=> Req(c).id \in DOMAIN office.flags /\ office.flags[Req(c).id].resolver = c)
  /\ CountOpen = Cardinality(ListFlags(DOMAIN db.users, {FALSE}))

\* Lines up to n that parse.
Readable(n) == {k \in 1 .. n : File[k].ref # None}
\* A completed run counts every line that parses once, as matched or as an
\* exception, and no other; no exception is on record that it did not count.
\* The day has one run: one that fails, or dies and stays "running", keeps the
\* day from being reconciled.
RunsCountEveryLine ==
  /\ \A r, q \in DOMAIN office.runs : office.runs[r].date = office.runs[q].date => r = q
  /\ \A r \in DOMAIN office.runs \cap Calls : office.runs[r].status # "completed" =>
       /\ office.runs[r].status = "running" => call[r].pc \in {"openFile", "readLine", "failed"}
       /\ \A c \in Calls : Req(c).op = "reconcile" => call[c].pc # "done"
  /\ \A r \in DOMAIN office.runs \cap Calls : office.runs[r].status = "completed" =>
       /\ office.runs[r].matched + office.runs[r].exceptions = Cardinality(Readable(Len(File)))
       /\ Cardinality({e \in DOMAIN office.exceptions : e[1] = r}) <= office.runs[r].exceptions
       /\ office.runs[r].matched <= Cardinality({n \in 1 .. Len(File) :
            File[n].ref \in DOMAIN ReceiptOf /\ ReceiptOf[File[n].ref] = File[n].cents})
  /\ \A e \in ListOpenExceptions : office.exceptions[e].assigned # None => office.exceptions[e].status # "open"

\* The records of customers, staff, flags and reconciliation stay whole though
\* every request checks and writes in steps that overlap, fail and die: the
\* conjunction of the parts stated above and in Access and Directory.
RecordsAreKept ==
  /\ RegistrationIsWhole /\ LinksBindOnce /\ RecipientsAreDistinct /\ OwnersDecide
  /\ DeactivationSticks /\ RowsAreOfOneWrite /\ ChangesAreLostToOverlapsOnly /\ StaffWordStands
  /\ FlagsHaveOneResolver /\ RunsCountEveryLine
-----------------------------------------------------------------------------
(* The inductive invariant: what the parts above rest on.                  *)

\* What a request asks for, from the step it is at.
OpAt ==
  [recordKYC |-> {"requestOTP"}, demographics |-> {"verifyOTP"}, raiseLevel |-> {"verifyOTP"}, bind |-> {"linkTelegram"},
   writeCard |-> DOMAIN CardColumn, writeStaff |-> {"updateStaff", "staffPassword"}, issueToken |-> {"adminLogin"},
   resolveFlag |-> {"resolveFlag"},
   openFile |-> {"reconcile"}, readLine |-> {"reconcile"}]
OpsInv == \A c \in Calls : call[c].pc \in DOMAIN OpAt => Req(c).op \in OpAt[call[c].pc]

\* The request that deactivated a staff member has cut the logins of that member
\* that are still to give out a token.
Deactivator(c) == Req(c).op = "deactivateStaff" /\ call[c].took
LoginsCut == \A c, d \in Calls : Deactivator(c) /\ d \in LoggingIn /\ call[d].user = Req(c).id => d \in call[c].cut
StaffInv ==
  /\ \A x \in DOMAIN office.staff : DOMAIN office.staff[x] = StaffColumns
  /\ \A c \in Calls :
       /\ c \in DOMAIN office.staff => call[c].pc = "done"
       /\ Req(c).op = "deactivateStaff" /\ call[c].took => Req(c).id \in DOMAIN office.staff
  /\ DeactivationSticks /\ RowsAreOfOneWrite
  /\ LoginsCut

\* The writers of staff rows: what cut has, and what the row to be written has.
Writer(c) == Req(c).op \in {"updateStaff", "staffPassword"} /\ call[c].pc \in {"writeStaff", "done"}
WritersInv ==
  /\ \A c \in Calls : Writer(c) => call[c].user \in DOMAIN office.staff /\ DOMAIN call[c].row = StaffColumns
                                  /\ \A d \in call[c].cut : d \in Calls /\ Wrote(d, call[c].user)
  /\ \A c \in Calls : call[c].pc = "writeStaff" => \A f \in Columns :
       IF New(c)[f] # None THEN call[c].row[f] = New(c)[f]
       ELSE \A d \in call[c].cut : New(d)[f] # None =>
              call[c].row[f] = New(d)[f] \/ \E e \in Calls \ {d} : Overwrote(e, d, call[c].user, f)
  /\ ChangesAreLostToOverlapsOnly

WordInv ==
  /\ \A c \in Calls :
       /\ call[c].pc \in {"demographics", "raiseLevel"} => call[c].user \in DOMAIN db.users
       /\ call[c].pc = "raiseLevel" => db.users[call[c].user].name # None
       /\ Req(c).op = "freeze" /\ call[c].pc = "done" => Req(c).id \in DOMAIN db.users
  /\ StaffWordStands

FlagsInv ==
  /\ \A f \in DOMAIN office.flags :
       /\ DOMAIN office.flags[f] = {"user", "by", "resolver"} /\ office.flags[f].user \in DOMAIN db.users
       /\ \A c \in Calls : office.flags[f].resolver = c =>
            Req(c).op = "resolveFlag" /\ Req(c).id = f /\ call[c].pc = "done"
  /\ \A c \in Calls :
       /\ c \in DOMAIN office.flags => call[c].pc = "done"
       /\ call[c].pc = "resolveFlag" => Req(c).id \in DOMAIN office.flags
       /\ Req(c).op = "resolveFlag" /\ call[c].pc = "done" =>
            Req(c).id \in DOMAIN office.flags /\ office.flags[Req(c).id].resolver = c

\* Lines up to n that a run may find matched, and the exceptions of a run.
Sound(n) == {k \in 1 .. n : File[k].ref \in DOMAIN ReceiptOf /\ ReceiptOf[File[k].ref] = File[k].cents}
Flagged(r) == {e \in DOMAIN office.exceptions : e[1] = r}
Counted(flagged, n, matched, exceptions) ==
  /\ matched \in Nat /\ exceptions \in Nat /\ matched + exceptions = Cardinality(Readable(n))
  /\ Cardinality(flagged) <= exceptions /\ matched <= Cardinality(Sound(n))
\* How far the run of c has come.
ReconCall(c) ==
  /\ IsFiniteSet(Flagged(c)) /\ (Flagged(c) # {} => c \in DOMAIN office.runs /\ call[c].pc # "openFile")
  /\ call[c].pc \in {"openFile", "readLine"} => c \in DOMAIN office.runs
  /\ c \in DOMAIN office.runs =>
       /\ DOMAIN office.runs[c] = {"date", "matched", "exceptions", "status"}
       /\ call[c].pc # "new" /\ Req(c).op = "reconcile" /\ office.runs[c].date = Today
       /\ office.runs[c].status = "running" => call[c].pc \in {"openFile", "readLine", "failed"}
       /\ call[c].pc = "done" => office.runs[c].status = "completed"
  /\ Req(c).op = "reconcile" /\ call[c].pc = "done" => c \in DOMAIN office.runs
  /\ call[c].pc = "readLine" =>
       /\ DOMAIN call[c].row = {"line", "matched", "exceptions"}
       /\ call[c].row.line \in 1 .. Len(File) + 1
       /\ Counted(Flagged(c), call[c].row.line - 1, call[c].row.matched, call[c].row.exceptions)
  /\ c \in DOMAIN office.runs /\ office.runs[c].status = "completed" =>
       call[c].pc = "done" /\ Counted(Flagged(c), Len(File), office.runs[c].matched, office.runs[c].exceptions)
ReconInv ==
  /\ \A r, q \in DOMAIN office.runs : office.runs[r].date = office.runs[q].date => r = q
  /\ \A e \in DOMAIN office.exceptions :
       /\ DOMAIN office.exceptions[e] = {"ref", "type", "status", "assigned"}
       /\ office.exceptions[e].assigned # None => office.exceptions[e].status # "open"
  /\ \A c \in Calls : ReconCall(c)

RecordInv ==
  /\ SessionInv /\ DOMAIN office = OfficeTables /\ OpsInv
  /\ RegistrationInv /\ LinksInv /\ RecipientsInv /\ BeneficiariesInv /\ CardsInv
  /\ StaffInv /\ WritersInv /\ WordInv /\ FlagsInv /\ ReconInv
=============================================================================
