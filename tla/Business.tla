------------------------------ MODULE Business ------------------------------
(***************************************************************************)
(* One business: its registration, members, roles and permissions          *)
(* (business.Service, permissions.Service), the middleware that guards its *)
(* routes, and the approval of pending transfers.                          *)
(*                                                                         *)
(* A request passes BusinessContext and RequireBusinessPermission, then    *)
(* its handler.  Members are read from the table; the role of a member     *)
(* comes from a cache that changes of roles invalidate and a time to live  *)
(* empties.  No transaction spans two statements, and a request may die    *)
(* between them.  Rows of pending_transfers are there from the start: the  *)
(* program has no caller of their Create.                                  *)
(***************************************************************************)
EXTENDS Naturals, FiniteSets

CONSTANTS
  Calls,        \* requests; each is sent at most once, a retry is another one
  Ask,          \* Ask[c]: what c asks for, and who does
  Users, Founder,
  SystemRoles,  \* function: the permissions of each seeded role, "owner" among them
  CustomRoles,  \* ids a created role may get
  Granted,      \* sets of permissions a custom role may have when the model starts
  Transfers, Initiator, \* pending transfers and who asked for each
  MaxStarts     \* bound: requests served

OwnerRole == "owner"
Roles == DOMAIN SystemRoles \cup CustomRoles
Permissions == UNION {SystemRoles[r] : r \in DOMAIN SystemRoles}

ASSUME BusinessAssumption ==
  /\ Founder \in Users /\ OwnerRole \in DOMAIN SystemRoles
  /\ CustomRoles \cap DOMAIN SystemRoles = {}
  /\ Granted \subseteq (SUBSET Permissions) \ {{}}
  /\ Initiator \in [Transfers -> Users] /\ MaxStarts \in Nat
  /\ \A c \in Calls : Ask[c].op = "register" => Ask[c].user = Founder
ASSUME FormAssumption ==
  \A c \in Calls :
    /\ Ask[c].user \in Users /\ Ask[c].other \in Users /\ Ask[c].role \in Roles
    /\ Ask[c].op \in {"approve", "reject"} => Ask[c].transfer \in Transfers

VARIABLES
  biz,      \* the business: "none" or "registered"
  member,   \* member[u]: row of business_members
  role,     \* role[r]: row of business_roles with its permissions
  cache,    \* cache[r]: cached permissions of r, or NotCached
  pending,  \* pending[t]: row of pending_transfers
  call,     \* call[c]: the request c is serving
  starts,   \* requests started
  held,     \* held[r]: permissions r has had in the table at some time
  used      \* <<role, permission>> some request was let through with

vars == <<biz, member, role, cache, pending, call, starts, held, used>>

NotCached == {"not cached"}
NoMember == [state |-> "absent", role |-> OwnerRole]
(***************************************************************************)
(* The tables.                                                             *)
(***************************************************************************)

IsActive(u) == member[u].state = "active"
RoleExists(r) == role[r].exists
IsSystem(r) == r \in DOMAIN SystemRoles
CountMembersByRole(r) == Cardinality({u \in Users : IsActive(u) /\ member[u].role = r})

\* UNIQUE (business_id, user_id), removed rows included, and the role must exist.
InsertMember(u, r) ==
  /\ member[u].state = "absent" /\ RoleExists(r)
  /\ member' = [member EXCEPT ![u] = [state |-> "active", role |-> r]]
UpdateMemberRow(u, r) ==
  /\ IsActive(u) /\ RoleExists(r)
  /\ member' = [member EXCEPT ![u].role = r]
RemoveMemberRow(u) ==
  /\ IsActive(u)
  /\ member' = [member EXCEPT ![u].state = "removed"]

InsertRole(r) ==
  /\ ~ RoleExists(r)
  /\ role' = [role EXCEPT ![r] = [exists |-> TRUE, perms |-> {}]]
\* The foreign key of business_members, removed rows included.
NotReferencedMutant(r) == TRUE
NotReferenced(r) == \A u \in Users : member[u].state # "absent" => member[u].role # r
DeleteRoleRow(r) ==
  /\ RoleExists(r) /\ ~ IsSystem(r) /\ NotReferenced(r)
  /\ role' = [role EXCEPT ![r] = [exists |-> FALSE, perms |-> {}]]
ClearPermissions(r) ==
  role' = [role EXCEPT ![r].perms = {}]
\* One INSERT of SetPermissions: the role must exist and not have it yet.
InsertPermission(r, p) ==
  /\ RoleExists(r) /\ p \notin role[r].perms
  /\ role' = [role EXCEPT ![r].perms = @ \cup {p}]
  /\ held' = [held EXCEPT ![r] = @ \cup {p}]

\* UPDATE ... WHERE status = 'pending'; expires_at is not looked at.
DecideMutant(t, u, v) ==
  pending' = [pending EXCEPT ![t] = [status |-> v, by |-> u]]
Decide(t, u, v) ==
  /\ pending[t].status = "pending"
  /\ pending' = [pending EXCEPT ![t] = [status |-> v, by |-> u]]

(***************************************************************************)
(* Requests and the middleware.                                            *)
(***************************************************************************)

\* Before the registration, or later: every role exists, with some permissions,
\* and the founder has a colleague with one of them.
InitFresh ==
  /\ biz = "none"
  /\ member = [u \in Users |-> NoMember]
  /\ role = [r \in Roles |-> IF IsSystem(r) THEN [exists |-> TRUE, perms |-> SystemRoles[r]]
                                            ELSE [exists |-> FALSE, perms |-> {}]]
InitEstablished ==
  /\ biz = "registered"
  /\ \E ps \in Granted :
       role = [r \in Roles |-> [exists |-> TRUE, perms |-> IF IsSystem(r) THEN SystemRoles[r] ELSE ps]]
  /\ \E u \in Users \ {Founder}, r \in Roles \ {OwnerRole} :
       member = [v \in Users |->
                   IF v \in {Founder, u}
                     THEN [state |-> "active", role |-> IF v = Founder THEN OwnerRole ELSE r]
                     ELSE NoMember]
Init ==
  /\ InitFresh \/ InitEstablished
  /\ cache = [r \in Roles |-> NotCached]
  /\ pending = [t \in Transfers |-> [status |-> "pending", by |-> "nobody"]]
  /\ call = [c \in Calls |-> [at |-> "idle", ask |-> Ask[c], key |-> OwnerRole, perms |-> {}, todo |-> {}]]
  /\ starts = 0
  /\ held = [r \in Roles |-> role[r].perms]
  /\ used = {}

At(c, op, step) == call[c].ask.op = op /\ call[c].at = step
Goto(c, step)   == call' = [call EXCEPT ![c].at = step]
Finish(c)       == call' = [call EXCEPT ![c].at = "done", ![c].key = OwnerRole,
                                        ![c].perms = {}, ![c].todo = {}]
Start(c, step) ==
  /\ call[c].at = "idle" /\ starts < MaxStarts
  /\ starts' = starts + 1
  /\ call' = [call EXCEPT ![c].at = step, ![c].todo = call[c].ask.todo]
\* A statement that succeeds moves the request on; one that does not ends it.  The
\* audit entry that comes last, its error dropped, is left out.
Try(c, statement, step) == \/ statement /\ Goto(c, step)
                           \/ Finish(c) /\ UNCHANGED <<biz, member, role, held, pending>>

\* The permission each route asks for.
Needed(op) == CASE op \in {"invite", "setrole", "remove"} -> "members"
                [] op \in {"newrole", "editrole", "droprole"} -> "roles"
                [] op \in {"approve", "reject"} -> "approve"

\* BusinessContext: an active member; what follows trusts it.
BusinessContext(c) ==
  /\ biz = "registered" /\ IsActive(call[c].ask.user)
  /\ Start(c, "permission")
  /\ UNCHANGED <<biz, member, role, cache, pending, held, used>>

\* RequireBusinessPermission lets the request through to its handler.
HasPermission(perms, p) == p \in perms
Admit(c, r, perms) ==
  IF HasPermission(perms, Needed(call[c].ask.op))
    THEN /\ Goto(c, "admitted")
         /\ used' = used \cup {<<r, Needed(call[c].ask.op)>>}
    ELSE Finish(c) /\ UNCHANGED used

\* getMemberRole: the member is read again, then the cache.
CacheKeyMutant(u) == OwnerRole
CacheKey(u) == member[u].role
GetMemberRole(c) ==
  LET u == call[c].ask.user IN
    /\ call[c].at = "permission"
    /\ IF ~ IsActive(u) THEN Finish(c) /\ UNCHANGED used
         ELSE IF cache[CacheKey(u)] # NotCached THEN Admit(c, member[u].role, cache[CacheKey(u)])
         ELSE /\ call' = [call EXCEPT ![c].at = "load", ![c].key = member[u].role]
              /\ UNCHANGED used
    /\ UNCHANGED <<biz, member, role, cache, pending, starts, held>>
\* roleRepo.GetByID: the row, and its permissions as they are at that moment.
LoadRole(c) ==
  /\ call[c].at = "load"
  /\ IF RoleExists(call[c].key)
       THEN call' = [call EXCEPT ![c].at = "fill", ![c].perms = role[call[c].key].perms]
       ELSE Finish(c)
  /\ UNCHANGED <<biz, member, role, cache, pending, starts, held, used>>
FillCache(c) ==
  /\ call[c].at = "fill"
  /\ cache' = [cache EXCEPT ![call[c].key] = call[c].perms]
  /\ Admit(c, call[c].key, call[c].perms)
  /\ UNCHANGED <<biz, member, role, pending, starts, held>>

\* InvalidateCache drops every role of the business; the time to live drops one.
InvalidateCache(c) ==
  /\ call[c].at = "invalidate"
  /\ cache' = [r \in Roles |-> NotCached]
  /\ Finish(c)
  /\ UNCHANGED <<biz, member, role, pending, starts, held, used>>
ExpireCached(r) ==
  /\ cache[r] # NotCached
  /\ cache' = [cache EXCEPT ![r] = NotCached]
  /\ UNCHANGED <<biz, member, role, pending, call, starts, held, used>>

(***************************************************************************)
(* Handlers and the service.                                               *)
(***************************************************************************)

\* RegisterBusiness: the business row, then the founder's membership.
RegisterBusiness(c) ==
  /\ biz = "none"
  /\ call[c].ask.op = "register" /\ Start(c, "business")
  /\ UNCHANGED <<biz, member, role, cache, pending, held, used>>
SaveBusiness(c) ==
  /\ At(c, "register", "business")
  /\ Try(c, biz = "none" /\ biz' = "registered" /\ UNCHANGED <<member, role, held, pending>>, "owner")
  /\ UNCHANGED <<cache, starts, used>>
SaveOwner(c) ==
  /\ At(c, "register", "owner")
  /\ Try(c, InsertMember(Founder, OwnerRole) /\ UNCHANGED <<biz, role, held, pending>>, "done")
  /\ UNCHANGED <<cache, starts, used>>

\* InviteMember: the role exists and the user is no active member, when read.
InviteMember(c) ==
  /\ At(c, "invite", "admitted")
  /\ IF RoleExists(call[c].ask.role) /\ ~ IsActive(call[c].ask.other) THEN Goto(c, "insert") ELSE Finish(c)
  /\ UNCHANGED <<biz, member, role, cache, pending, starts, held, used>>
SaveInvited(c) ==
  /\ At(c, "invite", "insert")
  /\ Try(c, InsertMember(call[c].ask.other, call[c].ask.role) /\ UNCHANGED <<biz, role, held, pending>>, "done")
  /\ UNCHANGED <<cache, starts, used>>

\* UpdateMemberRole and RemoveMember: whoever is the owner when read is left alone.
ProtectedMutant(u) == FALSE
Protected(u) == member[u].role = OwnerRole
UpdateMemberRole(c) ==
  LET u == call[c].ask.other IN
    /\ At(c, "setrole", "admitted")
    /\ IF member[u].state # "absent" /\ ~ Protected(u) /\ RoleExists(call[c].ask.role)
         THEN Goto(c, "update") ELSE Finish(c)
    /\ UNCHANGED <<biz, member, role, cache, pending, starts, held, used>>
SaveMemberRole(c) ==
  /\ At(c, "setrole", "update")
  /\ Try(c, UpdateMemberRow(call[c].ask.other, call[c].ask.role) /\ UNCHANGED <<biz, role, held, pending>>,
         "invalidate")
  /\ UNCHANGED <<cache, starts, used>>
RemoveMember(c) ==
  LET u == call[c].ask.other IN
    /\ At(c, "remove", "admitted")
    /\ IF member[u].state # "absent" /\ ~ Protected(u) THEN Goto(c, "update") ELSE Finish(c)
    /\ UNCHANGED <<biz, member, role, cache, pending, starts, held, used>>
SaveRemoved(c) ==
  /\ At(c, "remove", "update")
  /\ Try(c, RemoveMemberRow(call[c].ask.other) /\ UNCHANGED <<biz, role, held, pending>>, "done")
  /\ UNCHANGED <<cache, starts, used>>

\* CreateRole: the row, then SetPermissions.
CreateRole(c) ==
  /\ At(c, "newrole", "admitted")
  /\ Try(c, InsertRole(call[c].ask.role) /\ UNCHANGED <<biz, member, held, pending>>, "clear")
  /\ UNCHANGED <<cache, starts, used>>
\* UpdateRole: not a system role; its row is written, then SetPermissions,
\* if the request names any.
UpdateRole(c) ==
  /\ At(c, "editrole", "admitted")
  /\ IF RoleExists(call[c].ask.role) /\ ~ IsSystem(call[c].ask.role)
       THEN Goto(c, IF call[c].todo = {} THEN "invalidate" ELSE "clear") ELSE Finish(c)
  /\ UNCHANGED <<biz, member, role, cache, pending, starts, held, used>>
SetPermissions(c) ==
  /\ call[c].at = "clear"
  /\ ClearPermissions(call[c].ask.role)
  /\ Goto(c, "grant")
  /\ UNCHANGED <<biz, member, cache, pending, starts, held, used>>
GrantPermission(c) ==
  LET todo == call[c].todo  r == call[c].ask.role IN
    /\ call[c].at = "grant"
    /\ \/ todo = {} /\ Goto(c, "invalidate") /\ UNCHANGED <<role, held>>
       \/ \E p \in todo : /\ InsertPermission(r, p)
                          /\ call' = [call EXCEPT ![c].todo = todo \ {p}]
       \/ todo # {} /\ Finish(c) /\ UNCHANGED <<role, held>>
    /\ UNCHANGED <<biz, member, cache, pending, starts, used>>
\* DeleteRole: no active member has it when they are counted.
DeleteRole(c) ==
  LET r == call[c].ask.role IN
    /\ At(c, "droprole", "admitted")
    /\ IF RoleExists(r) /\ ~ IsSystem(r) /\ CountMembersByRole(r) = 0
         THEN Goto(c, "delete") ELSE Finish(c)
    /\ UNCHANGED <<biz, member, role, cache, pending, starts, held, used>>
SaveDeleted(c) ==
  /\ At(c, "droprole", "delete")
  /\ Try(c, DeleteRoleRow(call[c].ask.role) /\ UNCHANGED <<biz, member, held, pending>>, "invalidate")
  /\ UNCHANGED <<cache, starts, used>>

\* Approve reads the initiator, who may not approve; Reject reads nothing.
Approve(c) ==
  /\ At(c, "approve", "admitted")
  /\ IF Initiator[call[c].ask.transfer] # call[c].ask.user THEN Goto(c, "decide") ELSE Finish(c)
  /\ UNCHANGED <<biz, member, role, cache, pending, starts, held, used>>
SaveApproval(c) ==
  /\ At(c, "approve", "decide")
  /\ Try(c, Decide(call[c].ask.transfer, call[c].ask.user, "approved")
            /\ UNCHANGED <<biz, member, role, held>>, "done")
  /\ UNCHANGED <<cache, starts, used>>
Reject(c) ==
  /\ At(c, "reject", "admitted")
  /\ Try(c, Decide(call[c].ask.transfer, call[c].ask.user, "rejected")
            /\ UNCHANGED <<biz, member, role, held>>, "done")
  /\ UNCHANGED <<cache, starts, used>>

\* The process dies after a write.  (Dying before one is as being refused.)
Die(c) ==
  /\ call[c].at \in {"owner", "clear", "grant", "invalidate"}
  /\ Finish(c)
  /\ UNCHANGED <<biz, member, role, cache, pending, starts, held, used>>

(* The handlers decode the request, whose form is validated, and call the service. *)

ValidCreate(c) == call[c].ask.todo # {} /\ call[c].ask.todo \subseteq Permissions
ValidUpdate(c) == call[c].ask.todo \subseteq Permissions
HandleRegister(c)         == RegisterBusiness(c)
HandleInvite(c)           == call[c].ask.op = "invite" /\ BusinessContext(c)
HandleUpdateMemberRole(c) == call[c].ask.op = "setrole" /\ BusinessContext(c)
HandleRemoveMember(c)     == call[c].ask.op = "remove" /\ BusinessContext(c)
HandleCreateRole(c)       == call[c].ask.op = "newrole" /\ ValidCreate(c) /\ BusinessContext(c)
HandleUpdateRole(c)       == call[c].ask.op = "editrole" /\ ValidUpdate(c) /\ BusinessContext(c)
HandleDeleteRole(c)       == call[c].ask.op = "droprole" /\ BusinessContext(c)
HandleApprove(c)          == call[c].ask.op = "approve" /\ BusinessContext(c)
HandleReject(c)           == call[c].ask.op = "reject" /\ BusinessContext(c)

Request(c) ==
  \/ HandleRegister(c) \/ HandleInvite(c) \/ HandleUpdateMemberRole(c) \/ HandleRemoveMember(c)
  \/ HandleCreateRole(c) \/ HandleUpdateRole(c) \/ HandleDeleteRole(c)
  \/ HandleApprove(c) \/ HandleReject(c)

Step(c) ==
  \/ GetMemberRole(c) \/ LoadRole(c) \/ FillCache(c) \/ InvalidateCache(c)
  \/ SaveBusiness(c) \/ SaveOwner(c) \/ InviteMember(c) \/ SaveInvited(c)
  \/ UpdateMemberRole(c) \/ SaveMemberRole(c) \/ RemoveMember(c) \/ SaveRemoved(c)
  \/ CreateRole(c) \/ UpdateRole(c) \/ SetPermissions(c) \/ GrantPermission(c)
  \/ DeleteRole(c) \/ SaveDeleted(c) \/ Approve(c) \/ SaveApproval(c) \/ Reject(c)

\* Nobody is being served, and nobody need send another request.
Quiet == (\A c \in Calls : call[c].at \in {"idle", "done"}) /\ UNCHANGED vars

Next == \/ \E c \in Calls : Request(c) \/ Step(c) \/ Die(c)
        \/ \E r \in Roles : ExpireCached(r)
        \/ Quiet

Spec == Init /\ [][Next]_vars

(***************************************************************************)
(* Correctness.                                                            *)
(***************************************************************************)

\* The founder cannot be locked out: once the membership is there, no order of
\* invitations, role changes and removals, with decisions taken from rows read
\* earlier, takes the owner role from the founder; and whatever deletions race
\* with invitations, the role of a member is a row that exists.
FounderKeepsBusiness ==
  /\ member[Founder].state # "absent" => member[Founder] = [state |-> "active", role |-> OwnerRole]
  /\ \A u \in Users : member[u].state # "absent" => RoleExists(member[u].role)

\* A stale or half-written cache entry never invents rights: a request is let
\* through as a member of a role only with a permission the role has had in the
\* table, and what is cached for a role is made of permissions it has had.
RightsWereGranted ==
  /\ \A pair \in used : pair[2] \in held[pair[1]]
  /\ \A r \in Roles : cache[r] = NotCached \/ cache[r] \subseteq held[r]

\* A pending transfer is decided once and never approved by its initiator,
\* however approvals, rejections and repetitions of them meet.
Decision == INSTANCE Approval WITH People <- Users,
                                   verdict <- [t \in Transfers |-> pending[t].status],
                                   decider <- [t \in Transfers |-> pending[t].by]
ApprovalsKeepTheRules == Decision!Spec

(***************************************************************************)
(* The strengthening that makes these inductive.                           *)
(***************************************************************************)
Stages == {"idle", "permission", "load", "fill", "admitted", "business", "owner", "insert",
           "update", "clear", "grant", "delete", "decide", "invalidate", "done"}
Rights == Permissions \cup UNION {Ask[c].todo : c \in Calls}
CallRows == [at : Stages, ask : {Ask[c] : c \in Calls}, key : Roles,
             perms : SUBSET Rights, todo : SUBSET Rights]
TypeOK ==
  /\ biz \in {"none", "registered"}
  /\ member \in [Users -> [state : {"absent", "active", "removed"}, role : Roles]]
  /\ role \in [Roles -> [exists : BOOLEAN, perms : SUBSET Rights]]
  /\ cache \in [Roles -> (SUBSET Rights) \cup {NotCached}]
  /\ pending \in [Transfers -> [status : {"pending", "approved", "rejected"},
                               by : Users \cup {"nobody"}]]
  /\ call \in [Calls -> CallRows] /\ \A c \in Calls : call[c].ask = Ask[c]
  /\ held \in [Roles -> SUBSET Rights]
  /\ used \subseteq Roles \X Rights

\* Until the founder is a member nobody is, and only registrations are served;
\* a membership that is about to be changed is not the founder's.
FounderInv ==
  /\ FounderKeepsBusiness
  /\ member[Founder].state = "absent" =>
       /\ \A u \in Users : member[u].state = "absent"
       /\ \A c \in Calls : call[c].at \in {"idle", "business", "owner", "done"}
  /\ \A c \in Calls : call[c].at = "update" => Ask[c].other # Founder

\* What a role grants, and what was loaded of it to be cached, it has had.
RightsInv ==
  /\ RightsWereGranted
  /\ \A r \in Roles : role[r].perms \subseteq held[r]
  /\ \A c \in Calls : call[c].at = "fill" => call[c].perms \subseteq held[call[c].key]

\* Whoever is about to approve a transfer did not ask for it.
DecisionInv ==
  \A c \in Calls : call[c].at = "decide" => Initiator[Ask[c].transfer] # Ask[c].user

IInv == TypeOK /\ FounderInv /\ RightsInv /\ DecisionInv
=============================================================================
