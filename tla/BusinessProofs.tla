--------------------------- MODULE BusinessProofs ---------------------------
(***************************************************************************)
(* Proofs about Business for any users, roles, permissions, transfers and  *)
(* requests, and any number of requests served at the same time.           *)
(* Then proofs about BusinessBooks, which shares nothing with it, for any  *)
(* businesses, forms and opening tables.                                   *)
(***************************************************************************)
EXTENDS Business, BusinessBooks, SumFacts, TLAPS

\* The inductive invariant again, split into what is said of the tables and
\* what is said of one request.
TablesInv ==
  /\ FounderKeepsBusiness /\ RightsWereGranted
  /\ member[Founder].state = "absent" => \A u \in Users : member[u].state = "absent"
  /\ \A r \in Roles : role[r].perms \subseteq held[r]
CallInv(c) ==
  /\ member[Founder].state = "absent" => call[c].at \in {"idle", "business", "owner", "done"}
  /\ call[c].at = "update" => Ask[c].other # Founder
  /\ call[c].at = "fill" => call[c].perms \subseteq held[call[c].key]
  /\ call[c].at = "decide" => Initiator[Ask[c].transfer] # Ask[c].user

\* The two parts say what the inductive invariant says.
LEMMA SplitIInv == IInv <=> TypeOK /\ TablesInv /\ \A c \in Calls : CallInv(c)
BY DEF IInv, FounderInv, RightsInv, DecisionInv, TablesInv, CallInv
\* The same of the state after a step.
LEMMA JoinIInv == ASSUME TypeOK', TablesInv', \A c \in Calls : CallInv(c)' PROVE IInv'
BY DEF IInv, FounderInv, RightsInv, DecisionInv, TablesInv, CallInv

\* A step of request c leaves the other requests where they are.
Moved(c) ==
  /\ call' \in [Calls -> CallRows] /\ \A d \in Calls : call'[d].ask = Ask[d]
  /\ \A d \in Calls \ {c} : call'[d] = call[d]

\* The owner role is a seeded role, and the founder is a user.
LEMMA RolesType == OwnerRole \in Roles /\ IsSystem(OwnerRole) /\ Founder \in Users
BY BusinessAssumption DEF Roles, IsSystem

\* What is stored of a request, and that it keeps what it asks for.
LEMMA CallType ==
  ASSUME TypeOK, NEW c \in Calls
  PROVE  /\ call[c] \in CallRows /\ call[c].ask = Ask[c] /\ call[c].at \in Stages
         /\ call[c].key \in Roles /\ call[c].perms \subseteq Rights /\ call[c].todo \subseteq Rights
BY DEF TypeOK, CallRows

\* Going to the next stage changes nothing else of the request.
LEMMA GotoEffect ==
  ASSUME TypeOK, NEW c \in Calls, NEW step \in Stages, Goto(c, step)
  PROVE  /\ Moved(c) /\ call'[c].at = step
         /\ call'[c].key = call[c].key /\ call'[c].perms = call[c].perms
<1>1. call' = [call EXCEPT ![c].at = step] /\ call \in [Calls -> CallRows]
  BY DEF Goto, TypeOK
<1>2. call'[c] = [call[c] EXCEPT !.at = step] /\ \A d \in Calls \ {c} : call'[d] = call[d]
  BY <1>1
<1>3. call'[c] \in CallRows /\ call'[c].ask = Ask[c]
  BY <1>2, CallType DEF CallRows
<1>4. call' \in [Calls -> CallRows]
  BY <1>1, <1>3
<1>5. call'[c].at = step /\ call'[c].key = call[c].key /\ call'[c].perms = call[c].perms
  BY <1>2, CallType DEF CallRows
<1> QED BY <1>2, <1>3, <1>4, <1>5 DEF Moved, TypeOK

\* A request that ends leaves the others alone.
LEMMA FinishEffect ==
  ASSUME TypeOK, NEW c \in Calls, Finish(c)
  PROVE  Moved(c) /\ call'[c].at = "done"
<1>1. call' = [call EXCEPT ![c] = [call[c] EXCEPT !.at = "done", !.key = OwnerRole, !.perms = {}, !.todo = {}]]
  BY DEF Finish
<1>2. /\ call'[c] = [call[c] EXCEPT !.at = "done", !.key = OwnerRole, !.perms = {}, !.todo = {}]
      /\ \A d \in Calls \ {c} : call'[d] = call[d]
  BY <1>1 DEF TypeOK
<1>3. call'[c] \in CallRows /\ call'[c].ask = Ask[c] /\ call'[c].at = "done"
  BY <1>2, CallType, RolesType DEF CallRows, Stages
<1>4. call' \in [Calls -> CallRows]
  BY <1>1, <1>2, <1>3 DEF TypeOK
<1> QED BY <1>2, <1>3, <1>4 DEF Moved, TypeOK

\* A request that is started leaves the others alone.
LEMMA StartEffect ==
  ASSUME TypeOK, NEW c \in Calls, NEW step \in Stages, Start(c, step)
  PROVE  Moved(c) /\ call'[c].at = step
<1>1. call' = [call EXCEPT ![c] = [call[c] EXCEPT !.at = step, !.todo = Ask[c].todo]]
  BY CallType DEF Start
<1>2. /\ call'[c] = [call[c] EXCEPT !.at = step, !.todo = Ask[c].todo]
      /\ \A d \in Calls \ {c} : call'[d] = call[d]
  BY <1>1 DEF TypeOK
<1>3. call'[c] \in CallRows /\ call'[c].ask = Ask[c] /\ call'[c].at = step
  <2>1. Ask[c].todo \subseteq Rights
    BY DEF Rights
  <2> QED BY <1>2, <2>1, CallType DEF CallRows
<1>4. call' \in [Calls -> CallRows]
  BY <1>1, <1>2, <1>3 DEF TypeOK
<1> QED BY <1>2, <1>3, <1>4 DEF Moved, TypeOK

\* The requests keep their invariant when c's is kept, the founder stays a
\* member and no role loses a permission it has had.
LEMMA CallsKeep ==
  ASSUME IInv, NEW c \in Calls, Moved(c), CallInv(c)',
         member'[Founder].state = "absent" => member[Founder].state = "absent",
         \A r \in Roles : held[r] \subseteq held'[r]
  PROVE  \A d \in Calls : CallInv(d)'
<1> SUFFICES ASSUME NEW d \in Calls, d # c PROVE CallInv(d)'
  OBVIOUS
<1>1. call'[d] = call[d] /\ CallInv(d) /\ call[d].key \in Roles
  BY SplitIInv, CallType DEF Moved, IInv
<1> QED BY <1>1 DEF CallInv

\* A step that moves c and writes no table.
LEMMA NoWrite ==
  ASSUME IInv, NEW c \in Calls, Moved(c), CallInv(c)',
         UNCHANGED <<biz, member, role, cache, pending, held, used>>
  PROVE  IInv'
<1>1. \A d \in Calls : CallInv(d)'
  BY CallsKeep
<1>2. TypeOK'
  BY DEF IInv, TypeOK, Moved
<1>3. TablesInv'
  BY SplitIInv DEF TablesInv, FounderKeepsBusiness, RightsWereGranted, RoleExists
<1> QED BY <1>1, <1>2, <1>3, JoinIInv

\* A request that ends keeps its invariant.
LEMMA DoneKeeps ==
  ASSUME NEW c \in Calls, call'[c].at = "done"
  PROVE  CallInv(c)'
BY DEF CallInv

\* The route of a request asks for the permission of its operation, and the
\* request goes to its handler only with that permission.
LEMMA AdmitEffect ==
  ASSUME IInv, NEW c \in Calls, NEW r \in Roles, NEW perms, perms \subseteq held[r],
         Admit(c, r, perms), member[Founder].state # "absent", UNCHANGED <<member, held>>
  PROVE  /\ Moved(c) /\ CallInv(c)'
         /\ used' \subseteq Roles \X Rights
         /\ \A pair \in used' : pair[2] \in held[pair[1]]
<1> USE DEF IInv
<1>1. held[r] \subseteq Rights
  BY DEF TypeOK
<1>2. CASE HasPermission(perms, Needed(call[c].ask.op))
  <2> DEFINE p == Needed(call[c].ask.op)
  <2>1. p \in held[r] /\ p \in Rights
    BY <1>1, <1>2 DEF HasPermission
  <2> HIDE DEF p
  <2>2. Goto(c, "admitted") /\ used' = used \cup {<<r, p>>}
    BY <1>2 DEF Admit, p
  <2>3. Moved(c) /\ call'[c].at = "admitted"
    BY <2>2, GotoEffect DEF Stages
  <2>4. CallInv(c)'
    BY <2>3 DEF CallInv
  <2>5. used' \subseteq Roles \X Rights
    BY <2>1, <2>2 DEF TypeOK
  <2>6. \A pair \in used : pair[2] \in held[pair[1]]
    BY DEF RightsInv, RightsWereGranted
  <2> QED BY <2>1, <2>2, <2>3, <2>4, <2>5, <2>6
<1>3. CASE ~ HasPermission(perms, Needed(call[c].ask.op))
  <2>1. Finish(c) /\ used' = used
    BY <1>3 DEF Admit
  <2>2. Moved(c) /\ CallInv(c)'
    BY <2>1, FinishEffect, DoneKeeps
  <2> QED BY <2>1, <2>2 DEF TypeOK, RightsInv, RightsWereGranted
<1> QED BY <1>2, <1>3

\* A step that moves c, and changes only the cache and what was used.
LEMMA CacheWrite ==
  ASSUME IInv, NEW c \in Calls, Moved(c), CallInv(c)',
         UNCHANGED <<biz, member, role, pending, held>>,
         cache' \in [Roles -> (SUBSET Rights) \cup {NotCached}],
         \A r \in Roles : cache'[r] = NotCached \/ cache'[r] \subseteq held[r],
         used' \subseteq Roles \X Rights,
         \A pair \in used' : pair[2] \in held[pair[1]]
  PROVE  IInv'
<1>1. \A d \in Calls : CallInv(d)'
  BY CallsKeep
<1>2. TypeOK'
  BY DEF IInv, TypeOK, Moved
<1>3. TablesInv'
  BY SplitIInv DEF TablesInv, FounderKeepsBusiness, RightsWereGranted, RoleExists
<1> QED BY <1>1, <1>2, <1>3, JoinIInv

\* A step that moves c and writes memberships, so that the founder keeps the
\* owner role and every member has a role that exists.
LEMMA MemberWrite ==
  ASSUME IInv, NEW c \in Calls, Moved(c), CallInv(c)',
         UNCHANGED <<biz, role, cache, pending, held, used>>,
         member' \in [Users -> [state : {"absent", "active", "removed"}, role : Roles]],
         member'[Founder] = [state |-> "active", role |-> OwnerRole],
         \A u \in Users : member'[u].state # "absent" => role[member'[u].role].exists
  PROVE  IInv'
<1>1. member'[Founder].state # "absent"
  OBVIOUS
<1>2. \A d \in Calls : CallInv(d)'
  BY <1>1, CallsKeep
<1>3. TypeOK'
  BY DEF IInv, TypeOK, Moved
<1>4. TablesInv'
  BY <1>1, SplitIInv DEF TablesInv, FounderKeepsBusiness, RightsWereGranted, RoleExists
<1> QED BY <1>2, <1>3, <1>4, JoinIInv

\* A step that moves c and writes roles and what they have had: no role of a
\* member goes, and no role gets a permission that is not remembered.
LEMMA RoleWrite ==
  ASSUME IInv, NEW c \in Calls, Moved(c), CallInv(c)',
         UNCHANGED <<biz, member, cache, pending, used>>,
         role' \in [Roles -> [exists : BOOLEAN, perms : SUBSET Rights]],
         held' \in [Roles -> SUBSET Rights],
         \A r \in Roles : held[r] \subseteq held'[r] /\ role'[r].perms \subseteq held'[r],
         \A u \in Users : member[u].state # "absent" => role'[member[u].role].exists
  PROVE  IInv'
<1>1. \A d \in Calls : CallInv(d)'
  BY CallsKeep
<1>2. TypeOK'
  BY DEF IInv, TypeOK, Moved
<1>3. \A pair \in used : pair[2] \in held'[pair[1]]
  <2> SUFFICES ASSUME NEW pair \in used PROVE pair[2] \in held'[pair[1]]
    OBVIOUS
  <2>1. pair[1] \in Roles /\ pair[2] \in held[pair[1]]
    BY DEF IInv, TypeOK, RightsInv, RightsWereGranted
  <2> QED BY <2>1
<1>4. TablesInv'
  BY <1>3, SplitIInv DEF TablesInv, FounderKeepsBusiness, RightsWereGranted, RoleExists
<1> QED BY <1>1, <1>2, <1>4, JoinIInv

\* A step that moves c and changes only decisions or the business row.
LEMMA RowWrite ==
  ASSUME IInv, NEW c \in Calls, Moved(c), CallInv(c)',
         UNCHANGED <<member, role, cache, held, used>>,
         biz' \in {"none", "registered"},
         pending' \in [Transfers -> [status : {"pending", "approved", "rejected"},
                                     by : Users \cup {"nobody"}]]
  PROVE  IInv'
<1>1. \A d \in Calls : CallInv(d)'
  BY CallsKeep
<1>2. TypeOK'
  BY DEF IInv, TypeOK, Moved
<1>3. TablesInv'
  BY SplitIInv DEF TablesInv, FounderKeepsBusiness, RightsWereGranted, RoleExists
<1> QED BY <1>1, <1>2, <1>3, JoinIInv

\* A statement that fails ends the request and writes nothing.
LEMMA Refused ==
  ASSUME IInv, NEW c \in Calls, Finish(c), UNCHANGED <<biz, member, role, held, pending, cache, used>>
  PROVE  IInv'
BY FinishEffect, DoneKeeps, NoWrite DEF IInv

\* The initial states satisfy the inductive invariant.
LEMMA InitIInv == Init => IInv
<1> SUFFICES ASSUME Init PROVE IInv
  OBVIOUS
<1>1. /\ Permissions \subseteq Rights
      /\ \A r \in DOMAIN SystemRoles : SystemRoles[r] \subseteq Permissions
      /\ \A ps \in Granted : ps \subseteq Permissions
  BY BusinessAssumption DEF Rights, Permissions
<1>2. /\ biz \in {"none", "registered"}
      /\ member \in [Users -> [state : {"absent", "active", "removed"}, role : Roles]]
      /\ role \in [Roles -> [exists : BOOLEAN, perms : SUBSET Rights]]
      /\ FounderKeepsBusiness
      /\ member[Founder].state = "absent" => \A u \in Users : member[u].state = "absent"
  <2>1. CASE InitFresh
    BY <1>1, <2>1, BusinessAssumption, RolesType
       DEF InitFresh, NoMember, IsSystem, FounderKeepsBusiness, RoleExists
  <2>2. CASE InitEstablished
    <3>1. PICK ps \in Granted :
            role = [r \in Roles |-> [exists |-> TRUE, perms |-> IF IsSystem(r) THEN SystemRoles[r] ELSE ps]]
      BY <2>2 DEF InitEstablished
    <3>2. PICK u \in Users \ {Founder}, q \in Roles \ {OwnerRole} :
            member = [v \in Users |->
                        IF v \in {Founder, u}
                          THEN [state |-> "active", role |-> IF v = Founder THEN OwnerRole ELSE q]
                          ELSE NoMember]
      BY <2>2 DEF InitEstablished
    <3>3. /\ member \in [Users -> [state : {"absent", "active", "removed"}, role : Roles]]
          /\ member[Founder] = [state |-> "active", role |-> OwnerRole]
      BY <3>2, RolesType DEF NoMember
    <3>4. role \in [Roles -> [exists : BOOLEAN, perms : SUBSET Rights]] /\ \A r \in Roles : role[r].exists
      BY <1>1, <3>1 DEF IsSystem
    <3> QED BY <2>2, <3>3, <3>4 DEF InitEstablished, FounderKeepsBusiness, RoleExists
  <2> QED BY <2>1, <2>2 DEF Init
<1>3. /\ held \in [Roles -> SUBSET Rights] /\ \A r \in Roles : role[r].perms \subseteq held[r]
      /\ cache \in [Roles -> (SUBSET Rights) \cup {NotCached}]
      /\ pending \in [Transfers -> [status : {"pending", "approved", "rejected"},
                                    by : Users \cup {"nobody"}]]
      /\ used = {} /\ \A r \in Roles : cache[r] = NotCached
  <2>1. held = [r \in Roles |-> role[r].perms] /\ cache = [r \in Roles |-> NotCached] /\ used = {}
        /\ pending = [t \in Transfers |-> [status |-> "pending", by |-> "nobody"]]
    BY DEF Init
  <2>2. held \in [Roles -> SUBSET Rights] /\ \A r \in Roles : role[r].perms \subseteq held[r]
    BY <1>2, <2>1
  <2>3. cache \in [Roles -> (SUBSET Rights) \cup {NotCached}] /\ \A r \in Roles : cache[r] = NotCached
    BY <2>1
  <2>4. pending \in [Transfers -> [status : {"pending", "approved", "rejected"},
                                   by : Users \cup {"nobody"}]]
    BY <2>1
  <2> QED BY <2>1, <2>2, <2>3, <2>4
<1>4. \A c \in Calls : call[c] \in CallRows /\ call[c].ask = Ask[c] /\ call[c].at = "idle"
  BY RolesType DEF Init, CallRows, Stages
<1>5. call \in [Calls -> CallRows]
  BY <1>4 DEF Init
<1>6. TypeOK
  BY <1>2, <1>3, <1>4, <1>5 DEF TypeOK
<1>7. TablesInv
  BY <1>2, <1>3 DEF TablesInv, RightsWereGranted
<1> QED BY <1>4, <1>6, <1>7, SplitIInv DEF CallInv

\* What every request is and stands on while it is past the middleware.
LEMMA Admitted ==
  ASSUME IInv, NEW c \in Calls, call[c].at \notin {"idle", "business", "owner", "done"}
  PROVE  member[Founder] = [state |-> "active", role |-> OwnerRole]
BY RolesType, SplitIInv DEF CallInv, TablesInv, FounderKeepsBusiness

\* The steps of a request that write no table keep the inductive invariant.
LEMMA ReadsKeep ==
  ASSUME IInv, NEW c \in Calls,
         \/ Request(c) \/ LoadRole(c) \/ InviteMember(c) \/ UpdateMemberRole(c) \/ RemoveMember(c)
         \/ UpdateRole(c) \/ DeleteRole(c) \/ Approve(c) \/ Die(c)
  PROVE  IInv'
<1> USE DEF IInv
<1>0. call[c].ask = Ask[c] /\ call[c].key \in Roles
  BY CallType
<1>1. ASSUME Request(c) PROVE IInv'
  <2>1. UNCHANGED <<biz, member, role, cache, pending, held, used>>
    BY <1>1 DEF Request, HandleRegister, RegisterBusiness, BusinessContext, HandleInvite,
       HandleUpdateMemberRole, HandleRemoveMember, HandleCreateRole, HandleUpdateRole,
       HandleDeleteRole, HandleApprove, HandleReject
  <2>2. CASE HandleRegister(c)
    <3>1. Moved(c) /\ call'[c].at = "business"
      BY <2>2, StartEffect DEF HandleRegister, RegisterBusiness, Stages
    <3> QED BY <2>1, <3>1, NoWrite DEF CallInv
  <2>3. CASE BusinessContext(c)
    <3>1. Moved(c) /\ call'[c].at = "permission"
      BY <2>3, StartEffect DEF BusinessContext, Stages
    <3>2. member[Founder].state # "absent"
      <4>1. member[Ask[c].user].state # "absent" /\ Ask[c].user \in Users
        BY <1>0, <2>3, FormAssumption DEF BusinessContext, IsActive
      <4> QED BY <4>1 DEF FounderInv
    <3> QED BY <2>1, <3>1, <3>2, NoWrite DEF CallInv
  <2> QED BY <1>1, <2>2, <2>3 DEF Request, HandleInvite,
       HandleUpdateMemberRole, HandleRemoveMember, HandleCreateRole, HandleUpdateRole,
       HandleDeleteRole, HandleApprove, HandleReject
<1>2. ASSUME LoadRole(c) PROVE IInv'
  <2>1. call[c].at = "load" /\ UNCHANGED <<biz, member, role, cache, pending, held, used>>
    BY <1>2 DEF LoadRole
  <2>2. CASE RoleExists(call[c].key)
    <3>1. call' = [call EXCEPT ![c] = [call[c] EXCEPT !.at = "fill", !.perms = role[call[c].key].perms]]
      BY <1>2, <2>2 DEF LoadRole
    <3>2. role[call[c].key].perms \subseteq Rights /\ role[call[c].key].perms \subseteq held[call[c].key]
      BY <1>0 DEF TypeOK, RightsInv
    <3>3. /\ call'[c] = [call[c] EXCEPT !.at = "fill", !.perms = role[call[c].key].perms]
          /\ \A d \in Calls \ {c} : call'[d] = call[d]
      BY <3>1 DEF TypeOK
    <3>4. /\ call'[c] \in CallRows /\ call'[c].ask = Ask[c]
          /\ call'[c].at = "fill" /\ call'[c].key = call[c].key /\ call'[c].perms = role[call[c].key].perms
      BY <3>2, <3>3, CallType DEF CallRows, Stages
    <3>5. call' \in [Calls -> CallRows]
      BY <3>1, <3>3, <3>4 DEF TypeOK
    <3>6. Moved(c)
      BY <3>3, <3>4, <3>5 DEF Moved, TypeOK
    <3>7. CallInv(c)'
      BY <2>1, <3>2, <3>4, Admitted DEF CallInv
    <3> QED BY <2>1, <3>6, <3>7, NoWrite
  <2>3. CASE ~ RoleExists(call[c].key)
    BY <1>2, <2>1, <2>3, Refused DEF LoadRole
  <2> QED BY <2>2, <2>3
<1>3. ASSUME InviteMember(c) PROVE IInv'
  <2>1. call[c].at = "admitted" /\ UNCHANGED <<biz, member, role, cache, pending, held, used>>
    BY <1>3 DEF InviteMember, At
  <2>2. CASE Finish(c)
    BY <2>1, <2>2, Refused
  <2>3. CASE Goto(c, "insert")
    <3>1. Moved(c) /\ call'[c].at = "insert"
      BY <2>3, GotoEffect DEF Stages
    <3> QED BY <2>1, <3>1, NoWrite, Admitted DEF CallInv
  <2> QED BY <1>3, <2>2, <2>3 DEF InviteMember
<1>4. ASSUME UpdateMemberRole(c) \/ RemoveMember(c) PROVE IInv'
  <2>1. call[c].at = "admitted" /\ UNCHANGED <<biz, member, role, cache, pending, held, used>>
    BY <1>4 DEF UpdateMemberRole, RemoveMember, At
  <2>2. CASE Finish(c)
    BY <2>1, <2>2, Refused
  <2>3. CASE ~ Protected(Ask[c].other) /\ Goto(c, "update")
    <3>1. Moved(c) /\ call'[c].at = "update"
      BY <2>3, GotoEffect DEF Stages
    <3>2. Ask[c].other # Founder
      BY <2>1, <2>3, Admitted DEF Protected
    <3> QED BY <2>1, <3>1, <3>2, NoWrite, Admitted DEF CallInv
  <2> QED BY <1>0, <1>4, <2>2, <2>3 DEF UpdateMemberRole, RemoveMember
<1>5. ASSUME UpdateRole(c) PROVE IInv'
  <2>1. call[c].at = "admitted" /\ UNCHANGED <<biz, member, role, cache, pending, held, used>>
    BY <1>5 DEF UpdateRole, At
  <2>2. CASE Finish(c)
    BY <2>1, <2>2, Refused
  <2>3. ASSUME NEW step \in {"invalidate", "clear"}, Goto(c, step) PROVE IInv'
    <3>1. Moved(c) /\ call'[c].at = step
      BY <2>3, GotoEffect DEF Stages
    <3> QED BY <2>1, <3>1, NoWrite, Admitted DEF CallInv
  <2> QED BY <1>5, <2>2, <2>3 DEF UpdateRole
<1>6. ASSUME DeleteRole(c) PROVE IInv'
  <2>1. call[c].at = "admitted" /\ UNCHANGED <<biz, member, role, cache, pending, held, used>>
    BY <1>6 DEF DeleteRole, At
  <2>2. CASE Finish(c)
    BY <2>1, <2>2, Refused
  <2>3. CASE Goto(c, "delete")
    <3>1. Moved(c) /\ call'[c].at = "delete"
      BY <2>3, GotoEffect DEF Stages
    <3> QED BY <2>1, <3>1, NoWrite, Admitted DEF CallInv
  <2> QED BY <1>6, <2>2, <2>3 DEF DeleteRole
<1>7. ASSUME Approve(c) PROVE IInv'
  <2>1. call[c].at = "admitted" /\ UNCHANGED <<biz, member, role, cache, pending, held, used>>
    BY <1>7 DEF Approve, At
  <2>2. CASE Finish(c)
    BY <2>1, <2>2, Refused
  <2>3. CASE Initiator[Ask[c].transfer] # Ask[c].user /\ Goto(c, "decide")
    <3>1. Moved(c) /\ call'[c].at = "decide"
      BY <2>3, GotoEffect DEF Stages
    <3> QED BY <2>1, <2>3, <3>1, NoWrite, Admitted DEF CallInv
  <2> QED BY <1>0, <1>7, <2>2, <2>3 DEF Approve
<1>8. ASSUME Die(c) PROVE IInv'
  BY <1>8, Refused DEF Die
<1> QED BY <1>1, <1>2, <1>3, <1>4, <1>5, <1>6, <1>7, <1>8

\* The middleware keeps the inductive invariant.
LEMMA MiddlewareKeeps ==
  ASSUME IInv, NEW c \in Calls, GetMemberRole(c) \/ FillCache(c) \/ InvalidateCache(c)
  PROVE  IInv'
<1> USE DEF IInv
<1>0. call[c].ask = Ask[c] /\ call[c].key \in Roles /\ call[c].perms \subseteq Rights /\ Ask[c].user \in Users
  BY CallType, FormAssumption
<1>1. /\ cache \in [Roles -> (SUBSET Rights) \cup {NotCached}] /\ used \subseteq Roles \X Rights
      /\ \A pair \in used : pair[2] \in held[pair[1]]
      /\ \A r \in Roles : cache[r] = NotCached \/ cache[r] \subseteq held[r]
  BY DEF TypeOK, RightsInv, RightsWereGranted
<1>2. ASSUME GetMemberRole(c) PROVE IInv'
  <2>0. PICK q \in Roles : q = member[Ask[c].user].role
    BY <1>0 DEF TypeOK
  <2>1. call[c].at = "permission" /\ UNCHANGED <<biz, member, role, cache, pending, held>>
    BY <1>2 DEF GetMemberRole
  <2>2. CASE Finish(c) /\ UNCHANGED used
    BY <2>1, <2>2, Refused
  <2>3. CASE cache[q] # NotCached /\ Admit(c, q, cache[q])
    <3>1. cache[q] \subseteq held[q] /\ member[Founder].state # "absent"
      BY <1>1, <2>1, <2>3, Admitted
    <3>2. /\ Moved(c) /\ CallInv(c)' /\ used' \subseteq Roles \X Rights
          /\ \A pair \in used' : pair[2] \in held[pair[1]]
      BY <2>1, <2>3, <3>1, AdmitEffect
    <3> QED BY <1>1, <2>1, <3>2, CacheWrite
  <2>4. CASE call' = [call EXCEPT ![c].at = "load", ![c].key = q] /\ UNCHANGED used
    <3>1. call' = [call EXCEPT ![c] = [call[c] EXCEPT !.at = "load", !.key = q]]
      BY <2>4
    <3>2. /\ call'[c] = [call[c] EXCEPT !.at = "load", !.key = q]
          /\ \A d \in Calls \ {c} : call'[d] = call[d]
      BY <3>1 DEF TypeOK
    <3>3. call'[c] \in CallRows /\ call'[c].ask = Ask[c] /\ call'[c].at = "load"
      BY <3>2, CallType DEF CallRows, Stages
    <3>4. call' \in [Calls -> CallRows]
      BY <3>1, <3>2, <3>3 DEF TypeOK
    <3>5. Moved(c)
      BY <3>2, <3>3, <3>4 DEF Moved, TypeOK
    <3>6. CallInv(c)'
      BY <2>1, <3>3, Admitted DEF CallInv
    <3> QED BY <2>1, <2>4, <3>5, <3>6, NoWrite
  <2> QED BY <1>0, <1>2, <2>0, <2>2, <2>3, <2>4 DEF GetMemberRole, CacheKey
<1>3. ASSUME FillCache(c) PROVE IInv'
  <2> DEFINE k == call[c].key
             ps == call[c].perms
  <2>1. /\ call[c].at = "fill" /\ UNCHANGED <<biz, member, role, pending, held>>
        /\ cache' = [cache EXCEPT ![k] = ps] /\ Admit(c, k, ps)
    BY <1>3 DEF FillCache
  <2>2. ps \subseteq held[k] /\ member[Founder].state # "absent"
    BY <2>1, Admitted DEF RightsInv
  <2>3. /\ Moved(c) /\ CallInv(c)' /\ used' \subseteq Roles \X Rights
        /\ \A pair \in used' : pair[2] \in held[pair[1]]
    BY <1>0, <2>1, <2>2, AdmitEffect
  <2>4. /\ cache' \in [Roles -> (SUBSET Rights) \cup {NotCached}]
        /\ \A r \in Roles : cache'[r] = NotCached \/ cache'[r] \subseteq held[r]
    BY <1>0, <1>1, <2>1, <2>2
  <2> QED BY <2>1, <2>3, <2>4, CacheWrite
<1>4. ASSUME InvalidateCache(c) PROVE IInv'
  <2>1. /\ cache' = [r \in Roles |-> NotCached] /\ Finish(c)
        /\ UNCHANGED <<biz, member, role, pending, held, used>>
    BY <1>4 DEF InvalidateCache
  <2>2. Moved(c) /\ CallInv(c)'
    BY <2>1, FinishEffect, DoneKeeps
  <2>3. /\ cache' \in [Roles -> (SUBSET Rights) \cup {NotCached}]
        /\ \A r \in Roles : cache'[r] = NotCached
    BY <2>1
  <2> QED BY <1>1, <2>1, <2>2, <2>3, CacheWrite
<1> QED BY <1>2, <1>3, <1>4

\* The writes of memberships keep the inductive invariant: the founder's own
\* row is written once, by the registration.
LEMMA MembersKeep ==
  ASSUME IInv, NEW c \in Calls,
         SaveOwner(c) \/ SaveInvited(c) \/ SaveMemberRole(c) \/ SaveRemoved(c)
  PROVE  IInv'
<1> USE DEF IInv
<1>0. /\ call[c].ask = Ask[c] /\ Ask[c].other \in Users /\ Ask[c].role \in Roles
      /\ Founder \in Users /\ OwnerRole \in Roles
  BY CallType, FormAssumption, RolesType
<1>1. /\ member \in [Users -> [state : {"absent", "active", "removed"}, role : Roles]]
      /\ member[Founder].state # "absent" => member[Founder] = [state |-> "active", role |-> OwnerRole]
      /\ \A u \in Users : member[u].state # "absent" => role[member[u].role].exists
  BY DEF TypeOK, FounderInv, FounderKeepsBusiness, RoleExists
<1>2. CASE UNCHANGED <<biz, member, role, held, pending, cache, used>> /\ Finish(c)
  BY <1>2, Refused
<1>3. ASSUME SaveOwner(c), InsertMember(Founder, OwnerRole), Goto(c, "done"),
             UNCHANGED <<biz, role, held, pending, cache, used>>
      PROVE IInv'
  <2>1. Moved(c) /\ CallInv(c)'
    BY <1>3, GotoEffect, DoneKeeps DEF Stages
  <2>2. /\ role[OwnerRole].exists
        /\ member' = [member EXCEPT ![Founder] = [state |-> "active", role |-> OwnerRole]]
    BY <1>3 DEF InsertMember, RoleExists
  <2>3. /\ member' \in [Users -> [state : {"absent", "active", "removed"}, role : Roles]]
        /\ member'[Founder] = [state |-> "active", role |-> OwnerRole]
        /\ \A u \in Users : member'[u].state # "absent" => role[member'[u].role].exists
    BY <1>0, <1>1, <2>2
  <2> QED BY <1>3, <2>1, <2>3, MemberWrite
<1>4. ASSUME SaveInvited(c), InsertMember(Ask[c].other, Ask[c].role), Goto(c, "done"),
             UNCHANGED <<biz, role, held, pending, cache, used>>
      PROVE IInv'
  <2>1. Moved(c) /\ CallInv(c)'
    BY <1>4, GotoEffect, DoneKeeps DEF Stages
  <2>2. /\ role[Ask[c].role].exists /\ member[Ask[c].other].state = "absent"
        /\ member' = [member EXCEPT ![Ask[c].other] = [state |-> "active", role |-> Ask[c].role]]
    BY <1>4 DEF InsertMember, RoleExists
  <2>3. member[Founder] = [state |-> "active", role |-> OwnerRole]
    BY <1>4, Admitted DEF SaveInvited, At
  <2>4. /\ member' \in [Users -> [state : {"absent", "active", "removed"}, role : Roles]]
        /\ member'[Founder] = [state |-> "active", role |-> OwnerRole]
        /\ \A u \in Users : member'[u].state # "absent" => role[member'[u].role].exists
    BY <1>0, <1>1, <2>2, <2>3
  <2> QED BY <1>4, <2>1, <2>4, MemberWrite
<1>5. ASSUME SaveMemberRole(c), UpdateMemberRow(Ask[c].other, Ask[c].role), Goto(c, "invalidate"),
             UNCHANGED <<biz, role, held, pending, cache, used>>
      PROVE IInv'
  <2>1. Moved(c) /\ call'[c].at = "invalidate"
    BY <1>5, GotoEffect DEF Stages
  <2>2. /\ role[Ask[c].role].exists
        /\ member' = [member EXCEPT ![Ask[c].other] = [member[Ask[c].other] EXCEPT !.role = Ask[c].role]]
    BY <1>5 DEF UpdateMemberRow, RoleExists
  <2>3. member[Founder] = [state |-> "active", role |-> OwnerRole] /\ Ask[c].other # Founder
    BY <1>5, Admitted DEF SaveMemberRole, At, FounderInv
  <2>4. /\ member' \in [Users -> [state : {"absent", "active", "removed"}, role : Roles]]
        /\ member'[Founder] = [state |-> "active", role |-> OwnerRole]
        /\ \A u \in Users : member'[u].state # "absent" => role[member'[u].role].exists
    BY <1>0, <1>1, <2>2, <2>3
  <2>5. CallInv(c)'
    BY <2>1, <2>4 DEF CallInv
  <2> QED BY <1>5, <2>1, <2>4, <2>5, MemberWrite
<1>6. ASSUME SaveRemoved(c), RemoveMemberRow(Ask[c].other), Goto(c, "done"),
             UNCHANGED <<biz, role, held, pending, cache, used>>
      PROVE IInv'
  <2>1. Moved(c) /\ CallInv(c)'
    BY <1>6, GotoEffect, DoneKeeps DEF Stages
  <2>2. /\ member[Ask[c].other].state = "active"
        /\ member' = [member EXCEPT ![Ask[c].other] = [member[Ask[c].other] EXCEPT !.state = "removed"]]
    BY <1>6 DEF RemoveMemberRow, IsActive
  <2>3. member[Founder] = [state |-> "active", role |-> OwnerRole] /\ Ask[c].other # Founder
    BY <1>6, Admitted DEF SaveRemoved, At, FounderInv
  <2>4. /\ member' \in [Users -> [state : {"absent", "active", "removed"}, role : Roles]]
        /\ member'[Founder] = [state |-> "active", role |-> OwnerRole]
        /\ \A u \in Users : member'[u].state # "absent" => role[member'[u].role].exists
    BY <1>0, <1>1, <2>2, <2>3
  <2> QED BY <1>6, <2>1, <2>4, MemberWrite
<1> QED BY <1>0, <1>2, <1>3, <1>4, <1>5, <1>6 DEF SaveOwner, SaveInvited, SaveMemberRole, SaveRemoved, Try

\* The writes of roles and of their permissions keep the inductive invariant: a
\* role a row of business_members names is not deleted, and what a role is given
\* is remembered.
LEMMA RolesKeep ==
  ASSUME IInv, NEW c \in Calls,
         CreateRole(c) \/ SetPermissions(c) \/ GrantPermission(c) \/ SaveDeleted(c)
  PROVE  IInv'
<1> USE DEF IInv
<1> DEFINE r == Ask[c].role
           RoleRows == [exists : BOOLEAN, perms : SUBSET Rights]
<1>0. /\ call[c].ask = Ask[c] /\ r \in Roles /\ call[c].todo \subseteq Rights /\ call[c] \in CallRows
  BY CallType, FormAssumption
<1>1. /\ role \in [Roles -> RoleRows] /\ held \in [Roles -> SUBSET Rights]
      /\ \A q \in Roles : role[q].perms \subseteq held[q]
      /\ \A u \in Users : member[u].role \in Roles
      /\ \A u \in Users : member[u].state # "absent" => role[member[u].role].exists
  BY DEF TypeOK, FounderInv, FounderKeepsBusiness, RoleExists, RightsInv
<1> HIDE DEF r
<1>2. CASE UNCHANGED <<biz, member, role, held, pending, cache, used>> /\ Finish(c)
  BY <1>2, Refused
<1>3. ASSUME CreateRole(c), InsertRole(r), Goto(c, "clear"),
             UNCHANGED <<biz, member, held, pending, cache, used>>
      PROVE IInv'
  <2>1. Moved(c) /\ call'[c].at = "clear"
    BY <1>3, GotoEffect DEF Stages
  <2>2. role' = [role EXCEPT ![r] = [exists |-> TRUE, perms |-> {}]]
    BY <1>3 DEF InsertRole
  <2>3. /\ role' \in [Roles -> RoleRows] /\ held' \in [Roles -> SUBSET Rights]
        /\ \A q \in Roles : held[q] \subseteq held'[q] /\ role'[q].perms \subseteq held'[q]
        /\ \A u \in Users : member[u].state # "absent" => role'[member[u].role].exists
    BY <1>0, <1>1, <1>3, <2>2
  <2>4. CallInv(c)'
    BY <1>3, <2>1, Admitted DEF CallInv, CreateRole, At
  <2> QED BY <1>3, <2>1, <2>3, <2>4, RoleWrite
<1>4. ASSUME SetPermissions(c) PROVE IInv'
  <2>0. /\ call[c].at = "clear" /\ Goto(c, "grant") /\ UNCHANGED <<biz, member, held, pending, cache, used>>
        /\ role' = [role EXCEPT ![r] = [role[r] EXCEPT !.perms = {}]]
    BY <1>0, <1>4 DEF SetPermissions, ClearPermissions, r
  <2>1. Moved(c) /\ call'[c].at = "grant"
    BY <2>0, GotoEffect DEF Stages
  <2>3. /\ role' \in [Roles -> RoleRows] /\ held' \in [Roles -> SUBSET Rights]
        /\ \A q \in Roles : held[q] \subseteq held'[q] /\ role'[q].perms \subseteq held'[q]
        /\ \A u \in Users : member[u].state # "absent" => role'[member[u].role].exists
    BY <1>0, <1>1, <2>0
  <2>4. CallInv(c)'
    BY <2>0, <2>1, Admitted DEF CallInv
  <2> QED BY <2>0, <2>1, <2>3, <2>4, RoleWrite
<1>5. ASSUME GrantPermission(c) PROVE IInv'
  <2>0. call[c].at = "grant" /\ UNCHANGED <<biz, member, pending, cache, used>>
    BY <1>5 DEF GrantPermission
  <2>1. CASE Goto(c, "invalidate") /\ UNCHANGED <<role, held>>
    <3>1. Moved(c) /\ call'[c].at = "invalidate"
      BY <2>1, GotoEffect DEF Stages
    <3>2. CallInv(c)'
      BY <2>0, <3>1, Admitted DEF CallInv
    <3> QED BY <2>0, <2>1, <3>1, <3>2, NoWrite
  <2>2. CASE Finish(c) /\ UNCHANGED <<role, held>>
    BY <2>0, <2>2, <1>2
  <2>3. ASSUME NEW p \in call[c].todo, InsertPermission(r, p),
               call' = [call EXCEPT ![c].todo = call[c].todo \ {p}]
        PROVE IInv'
    <3>1. /\ p \in Rights
          /\ role' = [role EXCEPT ![r] = [role[r] EXCEPT !.perms = role[r].perms \cup {p}]]
          /\ held' = [held EXCEPT ![r] = held[r] \cup {p}]
      BY <1>0, <2>3 DEF InsertPermission
    <3>2. /\ call'[c] = [call[c] EXCEPT !.todo = call[c].todo \ {p}]
          /\ \A d \in Calls \ {c} : call'[d] = call[d]
      BY <2>3 DEF TypeOK
    <3>3. call'[c] \in CallRows /\ call'[c].ask = Ask[c] /\ call'[c].at = "grant"
      BY <1>0, <2>0, <3>2 DEF CallRows
    <3>4. call' \in [Calls -> CallRows]
      BY <2>3, <3>2, <3>3 DEF TypeOK
    <3>5. Moved(c)
      BY <3>2, <3>3, <3>4 DEF Moved, TypeOK
    <3>6. /\ role' \in [Roles -> RoleRows] /\ held' \in [Roles -> SUBSET Rights]
          /\ \A q \in Roles : held[q] \subseteq held'[q] /\ role'[q].perms \subseteq held'[q]
          /\ \A u \in Users : member[u].state # "absent" => role'[member[u].role].exists
      BY <1>0, <1>1, <3>1
    <3>7. CallInv(c)'
      BY <2>0, <3>3, Admitted DEF CallInv
    <3> QED BY <2>0, <3>5, <3>6, <3>7, RoleWrite
  <2> QED BY <1>0, <1>5, <2>1, <2>2, <2>3 DEF GrantPermission, r
<1>6. ASSUME SaveDeleted(c), DeleteRoleRow(r), Goto(c, "invalidate"),
             UNCHANGED <<biz, member, held, pending, cache, used>>
      PROVE IInv'
  <2>1. Moved(c) /\ call'[c].at = "invalidate"
    BY <1>6, GotoEffect DEF Stages
  <2>2. /\ role' = [role EXCEPT ![r] = [exists |-> FALSE, perms |-> {}]]
        /\ \A u \in Users : member[u].state # "absent" => member[u].role # r
    BY <1>6 DEF DeleteRoleRow, NotReferenced
  <2>3. /\ role' \in [Roles -> RoleRows] /\ held' \in [Roles -> SUBSET Rights]
        /\ \A q \in Roles : held[q] \subseteq held'[q] /\ role'[q].perms \subseteq held'[q]
        /\ \A u \in Users : member[u].state # "absent" => role'[member[u].role].exists
    BY <1>0, <1>1, <1>6, <2>2
  <2>4. CallInv(c)'
    BY <1>6, <2>1, Admitted DEF CallInv, SaveDeleted, At
  <2> QED BY <1>6, <2>1, <2>3, <2>4, RoleWrite
<1> QED BY <1>0, <1>2, <1>3, <1>4, <1>5, <1>6 DEF CreateRole, SaveDeleted, Try, r

\* A decision, as it is taken: of a pending transfer, and an approval by somebody
\* who did not ask for it.
Decided(t, u, v) ==
  /\ pending[t].status = "pending"
  /\ v = "approved" => u # Initiator[t]
  /\ pending' = [pending EXCEPT ![t] = [status |-> v, by |-> u]]
DecisionStep ==
  \/ UNCHANGED pending
  \/ \E t \in Transfers, u \in Users, v \in {"approved", "rejected"} : Decided(t, u, v)

\* The writes of the business row and of decisions keep the inductive invariant.
LEMMA RowsKeep ==
  ASSUME IInv, NEW c \in Calls, SaveBusiness(c) \/ SaveApproval(c) \/ Reject(c)
  PROVE  IInv' /\ DecisionStep
<1> USE DEF IInv
<1> DEFINE Rows == [status : {"pending", "approved", "rejected"}, by : Users \cup {"nobody"}]
<1>0. /\ call[c].ask = Ask[c] /\ Ask[c].user \in Users
      /\ Ask[c].op \in {"approve", "reject"} => Ask[c].transfer \in Transfers
  BY CallType, FormAssumption
<1>1. biz \in {"none", "registered"} /\ pending \in [Transfers -> Rows]
  BY DEF TypeOK
<1>2. CASE UNCHANGED <<biz, member, role, held, pending, cache, used>> /\ Finish(c)
  BY <1>2, Refused DEF DecisionStep
<1>3. ASSUME SaveBusiness(c), biz' = "registered", Goto(c, "owner"),
             UNCHANGED <<member, role, held, pending, cache, used>>
      PROVE IInv' /\ DecisionStep
  <2>1. Moved(c) /\ call'[c].at = "owner"
    BY <1>3, GotoEffect DEF Stages
  <2>2. CallInv(c)'
    BY <2>1 DEF CallInv
  <2> QED BY <1>1, <1>3, <2>1, <2>2, RowWrite DEF DecisionStep
<1>4. ASSUME NEW v \in {"approved", "rejected"}, Ask[c].op \in {"approve", "reject"},
             v = "approved" => Ask[c].user # Initiator[Ask[c].transfer],
             Decide(Ask[c].transfer, Ask[c].user, v), Goto(c, "done"),
             UNCHANGED <<biz, member, role, held, cache, used>>
      PROVE IInv' /\ DecisionStep
  <2>1. Moved(c) /\ CallInv(c)'
    BY <1>4, GotoEffect, DoneKeeps DEF Stages
  <2>2. Ask[c].transfer \in Transfers /\ Decided(Ask[c].transfer, Ask[c].user, v)
    BY <1>0, <1>4 DEF Decide, Decided
  <2>3. pending' \in [Transfers -> Rows]
    BY <1>0, <1>1, <2>2 DEF Decided
  <2> QED BY <1>0, <1>1, <1>4, <2>1, <2>2, <2>3, RowWrite DEF DecisionStep
<1>5. CASE SaveBusiness(c)
  BY <1>2, <1>3, <1>5 DEF SaveBusiness, Try
<1>6. CASE SaveApproval(c)
  <2>1. Ask[c].op = "approve" /\ Ask[c].user # Initiator[Ask[c].transfer]
    BY <1>0, <1>6 DEF SaveApproval, At, DecisionInv
  <2> QED BY <1>0, <1>2, <1>4, <1>6, <2>1 DEF SaveApproval, Try
<1>7. CASE Reject(c)
  <2>1. Ask[c].op = "reject"
    BY <1>0, <1>7 DEF Reject, At
  <2> QED BY <1>0, <1>2, <1>4, <1>7, <2>1 DEF Reject, Try
<1> QED BY <1>5, <1>6, <1>7

\* Every step keeps the inductive invariant, and decides at most one transfer.
LEMMA NextIInv == IInv /\ [Next]_vars => IInv' /\ DecisionStep
<1> SUFFICES ASSUME IInv, [Next]_vars PROVE IInv' /\ DecisionStep
  OBVIOUS
<1>1. ASSUME NEW c \in Calls, Request(c) \/ Step(c) \/ Die(c) PROVE IInv' /\ DecisionStep
  <2>1. CASE \/ Request(c) \/ LoadRole(c) \/ InviteMember(c) \/ UpdateMemberRole(c) \/ RemoveMember(c)
             \/ UpdateRole(c) \/ DeleteRole(c) \/ Approve(c) \/ Die(c)
    <3>1. UNCHANGED pending
      BY <2>1 DEF LoadRole, InviteMember, UpdateMemberRole, RemoveMember, UpdateRole, DeleteRole,
         Approve, Die, Request, HandleRegister, RegisterBusiness, BusinessContext, HandleInvite,
         HandleUpdateMemberRole, HandleRemoveMember, HandleCreateRole, HandleUpdateRole,
         HandleDeleteRole, HandleApprove, HandleReject
    <3> QED BY <2>1, <3>1, ReadsKeep DEF DecisionStep
  <2>2. CASE GetMemberRole(c) \/ FillCache(c) \/ InvalidateCache(c)
    <3>1. UNCHANGED pending
      BY <2>2 DEF GetMemberRole, FillCache, InvalidateCache
    <3> QED BY <2>2, <3>1, MiddlewareKeeps DEF DecisionStep
  <2>3. CASE SaveOwner(c) \/ SaveInvited(c) \/ SaveMemberRole(c) \/ SaveRemoved(c)
    <3>1. UNCHANGED pending
      BY <2>3 DEF SaveOwner, SaveInvited, SaveMemberRole, SaveRemoved, Try
    <3> QED BY <2>3, <3>1, MembersKeep DEF DecisionStep
  <2>4. CASE CreateRole(c) \/ SetPermissions(c) \/ GrantPermission(c) \/ SaveDeleted(c)
    <3>1. UNCHANGED pending
      BY <2>4 DEF CreateRole, SetPermissions, GrantPermission, SaveDeleted, Try
    <3> QED BY <2>4, <3>1, RolesKeep DEF DecisionStep
  <2>5. CASE SaveBusiness(c) \/ SaveApproval(c) \/ Reject(c)
    BY <2>5, RowsKeep
  <2> QED BY <1>1, <2>1, <2>2, <2>3, <2>4, <2>5 DEF Step
<1>2. ASSUME NEW r \in Roles, ExpireCached(r) PROVE IInv' /\ DecisionStep
  <2>1. /\ cache' = [cache EXCEPT ![r] = NotCached]
        /\ UNCHANGED <<biz, member, role, pending, call, held, used>>
    BY <1>2 DEF ExpireCached
  <2>2. TypeOK'
    BY <2>1 DEF IInv, TypeOK
  <2>3. TablesInv'
    BY <2>1, SplitIInv DEF TablesInv, FounderKeepsBusiness, RightsWereGranted, RoleExists, TypeOK
  <2>4. \A c \in Calls : CallInv(c)'
    BY <2>1, SplitIInv DEF CallInv
  <2> QED BY <2>1, <2>2, <2>3, <2>4, JoinIInv DEF DecisionStep
<1>3. CASE UNCHANGED vars
  <2>1. UNCHANGED <<biz, member, role, cache, pending, call, held, used>>
    BY <1>3 DEF vars
  <2>2. TypeOK'
    BY <2>1 DEF IInv, TypeOK
  <2>3. TablesInv'
    BY <2>1, SplitIInv DEF TablesInv, FounderKeepsBusiness, RightsWereGranted, RoleExists
  <2>4. \A c \in Calls : CallInv(c)'
    BY <2>1, SplitIInv DEF CallInv
  <2> QED BY <2>1, <2>2, <2>3, <2>4, JoinIInv DEF DecisionStep
<1> QED BY <1>1, <1>2, <1>3 DEF Next, Quiet

\* The inductive invariant holds in every reachable state.
THEOREM Invariance == Spec => []IInv
<1>1. Init => IInv
  BY InitIInv
<1>2. IInv /\ [Next]_vars => IInv'
  BY NextIInv
<1> QED BY <1>1, <1>2, PTL DEF Spec

\* However invitations, role changes, deletions and removals of any number of
\* requests interleave, the founder keeps the owner role and every member's role
\* is a row that exists.
THEOREM FounderIsSafe == Spec => []FounderKeepsBusiness
<1>1. IInv => FounderKeepsBusiness
  BY DEF IInv, FounderInv
<1> QED BY <1>1, Invariance, PTL

\* A request is let through, and a role is cached, only with permissions the role
\* has had in the table, whatever is loaded, cached, invalidated or half written.
THEOREM RightsAreGenuine == Spec => []RightsWereGranted
<1>1. IInv => RightsWereGranted
  BY DEF IInv, RightsInv
<1> QED BY <1>1, Invariance, PTL

\* The approval workflow implements Approval: a pending transfer is decided once,
\* and never approved by the user who asked for it.
THEOREM ApprovalIsImplemented == Spec => ApprovalsKeepTheRules
<1>1. Init => Decision!Init
  BY DEF Init, Decision!Init, Decision!Nobody
<1>2. IInv /\ [Next]_vars => [Decision!Next]_<<[t \in Transfers |-> pending[t].status],
                                               [t \in Transfers |-> pending[t].by]>>
  <2> SUFFICES ASSUME IInv, [Next]_vars
               PROVE  [Decision!Next]_<<[t \in Transfers |-> pending[t].status],
                                       [t \in Transfers |-> pending[t].by]>>
    OBVIOUS
  <2>1. DecisionStep
    BY NextIInv
  <2>2. CASE UNCHANGED pending
    BY <2>2
  <2>3. ASSUME NEW t \in Transfers, NEW u \in Users, NEW v \in {"approved", "rejected"}, Decided(t, u, v)
        PROVE  Decision!Next
    <3>1. pending \in [Transfers -> [status : {"pending", "approved", "rejected"},
                                     by : Users \cup {"nobody"}]]
      BY DEF IInv, TypeOK
    <3>2. /\ pending[t].status = "pending" /\ (v = "approved" => u # Initiator[t])
          /\ pending' = [pending EXCEPT ![t] = [status |-> v, by |-> u]]
      BY <2>3 DEF Decided
    <3>3. \A s \in Transfers : /\ pending'[s].status = IF s = t THEN v ELSE pending[s].status
                               /\ pending'[s].by = IF s = t THEN u ELSE pending[s].by
      BY <3>1, <3>2
    <3>4. /\ [s \in Transfers |-> pending'[s].status]
             = [[s \in Transfers |-> pending[s].status] EXCEPT ![t] = v]
          /\ [s \in Transfers |-> pending'[s].by]
             = [[s \in Transfers |-> pending[s].by] EXCEPT ![t] = u]
      BY <3>3
    <3>5. Decision!Decide(t, u, v)
      BY <3>2, <3>4 DEF Decision!Decide
    <3> QED BY <3>5 DEF Decision!Next
  <2> QED BY <2>1, <2>2, <2>3 DEF DecisionStep
<1> QED BY <1>1, <1>2, Invariance, PTL DEF Spec, ApprovalsKeepTheRules, Decision!Spec
-----------------------------------------------------------------------------
(***************************************************************************)
(* The books.  A step is of one request, and leaves most tables alone.     *)
(***************************************************************************)
OwnWork(c) ==
  /\ DOMAIN request' = Requests /\ \A d \in Requests : d # c => request'[d] = request[d]
  /\ DOMAIN request'[c] = {"pc", "ask", "seen", "next", "of"} /\ request'[c].ask = request[c].ask
  /\ request[c].pc \notin {"done", "failed"}
  /\ request'[c].pc \in DOMAIN BookOp \cup {"done", "failed"}
  /\ request'[c].pc \in DOMAIN BookOp => Req(c).op = BookOp[request'[c].pc]

\* It ends, and has read and counted nothing.
JustEnds(c) == OwnWork(c) /\ request'[c].pc \in {"done", "failed"} /\ request'[c].next = request[c].next

TablesBut(tables) == DOMAIN db' = BookTables /\ \A t \in BookTables \ tables : db'[t] = db[t]

LEMMA BookRequest ==
  ASSUME BookRows, NEW c \in Requests
  PROVE  /\ DOMAIN request = Requests /\ DOMAIN request[c] = {"pc", "ask", "seen", "next", "of"} /\ Req(c) = Form[c]
BY DEF BookRows, Req

LEMMA MovesFacts ==
  ASSUME BookRows, NEW c \in Requests, request[c].pc \notin {"done", "failed"}, NEW step, Moves(c, step),
         step \in DOMAIN BookOp \cup {"done", "failed"}, step \in DOMAIN BookOp => Req(c).op = BookOp[step]
  PROVE  /\ OwnWork(c) /\ request'[c].pc = step /\ request'[c].next = request[c].next
         /\ request'[c].seen = request[c].seen
<1>1. request' = [request EXCEPT ![c].pc = step] BY DEF Moves
<1>2. DOMAIN request = Requests /\ DOMAIN request[c] = {"pc", "ask", "seen", "next", "of"} BY BookRequest
<1>3. request'[c] = [request[c] EXCEPT !.pc = step] BY <1>1, <1>2
<1>4. /\ request'[c].pc = step /\ request'[c].next = request[c].next /\ request'[c].seen = request[c].seen
      /\ request'[c].ask = request[c].ask /\ DOMAIN request'[c] = {"pc", "ask", "seen", "next", "of"}
  BY <1>2, <1>3
<1>5. DOMAIN request' = Requests /\ \A d \in Requests : d # c => request'[d] = request[d] BY <1>1, <1>2
<1> QED BY <1>4, <1>5 DEF OwnWork

LEMMA EndsFacts ==
  ASSUME BookRows, NEW c \in Requests, request[c].pc \notin {"done", "failed"}, NEW ok, Ends(c, ok)
  PROVE  JustEnds(c)
<1>1. PICK step \in {"done", "failed"} : Moves(c, step) BY DEF Ends
<1>2. step \notin DOMAIN BookOp BY DEF BookOp
<1> QED BY <1>1, <1>2, MovesFacts DEF JustEnds

-----------------------------------------------------------------------------
(* What each part of the invariant does not depend on.                     *)

LEMMA RowsFrame ==
  ASSUME BookRows, NEW c \in Requests, OwnWork(c), DOMAIN db' = BookTables,
         \A i \in DOMAIN db'.invoices : DOMAIN db'.invoices[i] = InvoiceColumns,
         \A i \in DOMAIN db'.batches : DOMAIN db'.batches[i] = BatchColumns
  PROVE  BookRows'
<1>1. ASSUME NEW d \in Requests
      PROVE  /\ DOMAIN request'[d] = {"pc", "ask", "seen", "next", "of"} /\ request'[d].ask = Form[d]
             /\ request'[d].pc \in DOMAIN BookOp => Req(d)'.op = BookOp[request'[d].pc]
             /\ request'[d].pc \in {"new"} \cup DOMAIN BookOp \cup {"done", "failed"}
  <2>1. CASE d = c BY <2>1 DEF OwnWork, BookRows, Req
  <2>2. CASE d # c BY <2>2 DEF OwnWork, BookRows, Req
  <2> QED BY <2>1, <2>2
<1> QED BY <1>1 DEF BookRows, OwnWork

\* Forms never change.
LEMMA FormsStay ==
  ASSUME BookRows, NEW c \in Requests, OwnWork(c), NEW d \in Requests
  PROVE  Req(d)' = Req(d) /\ Req(d) = Form[d]
BY DEF BookRows, OwnWork, Req

LEMMA NumbersFrame ==
  ASSUME BookRows, NumbersInv, NEW c \in Requests, OwnWork(c), request'[c].pc # "insertInvoice",
         DOMAIN db'.invoices = DOMAIN db.invoices,
         \A i \in DOMAIN db.invoices : /\ db'.invoices[i].biz = db.invoices[i].biz
                                        /\ db'.invoices[i].number = db.invoices[i].number
  PROVE  NumbersInv'
<1>1. \A b : OfBusiness(db.invoices, b)' = OfBusiness(db.invoices, b) BY DEF OfBusiness
<1>2. NumbersHaveNoGap'
  <2>1. ASSUME NEW b \in Businesses
        PROVE  {db'.invoices[i].number : i \in OfBusiness(db'.invoices, b)} = 1 .. Cardinality(OfBusiness(db'.invoices, b))
    <3>1. OfBusiness(db'.invoices, b) = OfBusiness(db.invoices, b) BY <1>1
    <3>2. \A i \in OfBusiness(db.invoices, b) : db'.invoices[i].number = db.invoices[i].number BY DEF OfBusiness
    <3>3. {db'.invoices[i].number : i \in OfBusiness(db.invoices, b)} = {db.invoices[i].number : i \in OfBusiness(db.invoices, b)}
      BY <3>2
    <3> QED BY <3>1, <3>3 DEF NumbersInv, NumbersHaveNoGap
  <2> QED BY <2>1 DEF NumbersHaveNoGap
<1>3. ASSUME NEW d \in Requests
      PROVE  /\ request'[d].pc \in {"new", "insertInvoice"} => d \notin DOMAIN db'.invoices
             /\ request'[d].pc = "insertInvoice" => request'[d].seen \in 1 .. NextInvoiceNumber(Req(d).biz)'
  <2>1. CASE d = c BY <2>1 DEF OwnWork, BookOp
  <2>2. CASE d # c
    <3>1. request'[d] = request[d] /\ Req(d)' = Req(d) BY <2>2, FormsStay DEF OwnWork
    <3>2. NextInvoiceNumber(Req(d).biz)' = NextInvoiceNumber(Req(d).biz) BY <1>1, <3>1 DEF NextInvoiceNumber
    <3> QED BY <3>1, <3>2 DEF NumbersInv
  <2> QED BY <2>1, <2>2
<1> QED BY <1>2, <1>3 DEF NumbersInv

\* What payments add up to does not change: their forms do not.
PaidBy(S) == SumFunctionOnSet([c \in S |-> Form[c].cents], S)

LEMMA ExplainedAs ==
  ASSUME BookRows, NEW i, NEW paid
  PROVE  Explained(i, paid) <=> \E S \in SUBSET Over(i) : paid = PaidBy(S) + PaidAtStart(i)
<1>1. ASSUME NEW S \in SUBSET Over(i)
      PROVE  SumOf(LAMBDA c : Req(c).cents, S) = PaidBy(S)
  <2>1. [c \in S |-> Req(c).cents] = [c \in S |-> Form[c].cents] BY BookRequest DEF Over
  <2> QED BY <2>1 DEF SumOf, PaidBy
<1> QED BY <1>1 DEF Explained

\* A payment that is over stays over.
LEMMA OverGrows ==
  ASSUME BookRows, NEW c \in Requests, OwnWork(c), NEW i
  PROVE  Over(i) \subseteq Over(i)'
BY FormsStay DEF Over, OwnWork

LEMMA ExplainedNext ==
  ASSUME BookRows, NEW c \in Requests, OwnWork(c), NEW i, NEW paid,
         NEW S \in SUBSET (Over(i)'), paid = PaidBy(S) + PaidAtStart(i)
  PROVE  Explained(i, paid)'
<1>1. SumFunctionOnSet([d \in S |-> Req(d)'.cents], S) = PaidBy(S)
  <2>1. \A d \in S : d \in Requests BY DEF Over
  <2>2. [d \in S |-> Req(d)'.cents] = [d \in S |-> Form[d].cents] BY <2>1, FormsStay
  <2> QED BY <2>2 DEF PaidBy
<1>2. \E R \in SUBSET (Over(i)') : paid = SumFunctionOnSet([d \in R |-> Req(d)'.cents], R) + PaidAtStart(i)
  BY <1>1
<1> QED BY <1>2 DEF Explained, SumOf

LEMMA ExplainedStays ==
  ASSUME BookRows, NEW c \in Requests, OwnWork(c), NEW i, NEW paid, Explained(i, paid)
  PROVE  Explained(i, paid)'
<1>1. PICK S \in SUBSET Over(i) : paid = PaidBy(S) + PaidAtStart(i) BY ExplainedAs
<1>2. S \in SUBSET (Over(i)') BY OverGrows
<1> QED BY <1>1, <1>2, ExplainedNext

LEMMA PaidFrame ==
  ASSUME BookRows, PaidInv, NEW c \in Requests, OwnWork(c), request'[c].pc # "writePaid",
         DOMAIN db'.invoices = DOMAIN db.invoices,
         \A i \in DOMAIN db.invoices : db'.invoices[i].paid = db.invoices[i].paid
  PROVE  PaidInv'
<1>1. ASSUME NEW i \in DOMAIN db'.invoices PROVE Explained(i, db.invoices[i].paid)'
  <2>1. Explained(i, db.invoices[i].paid) /\ db'.invoices[i].paid = db.invoices[i].paid BY DEF PaidInv
  <2> DEFINE paid == db.invoices[i].paid
  <2> QED BY <2>1, ExplainedStays
<1>2. ASSUME NEW d \in Requests, request'[d].pc = "writePaid"
      PROVE  Has(db'.invoices, Req(d)'.id) /\ Explained(Req(d).id, request[d].seen)'
  <2>1. d # c /\ request'[d] = request[d] /\ Req(d)' = Req(d) BY <1>2, FormsStay DEF OwnWork
  <2>2. Has(db.invoices, Req(d).id) /\ Explained(Req(d).id, request[d].seen) BY <1>2, <2>1 DEF PaidInv
  <2> QED BY <2>1, <2>2, ExplainedStays DEF Has
<1> QED BY <1>1, <1>2 DEF PaidInv

LEMMA SameBatch ==
  ASSUME NEW d \in Requests, BatchOf(d), ListItems(d)' = ListItems(d), \A x \in ListItems(d) : db'.items[x] = db.items[x],
         Req(d)' = Req(d), request'[d].next = request[d].next,
         request'[d].pc = "done" => request[d].pc = "done" \/ request[d].next = Len(Req(d).items) + 1,
         d \in DOMAIN db'.batches, db'.batches[d].total = db.batches[d].total, db'.batches[d].count = db.batches[d].count
  PROVE  BatchOf(d)'
<1>2. TotalCents(Req(d).items)' = TotalCents(Req(d).items) BY DEF TotalCents, SumOf
<1>3. SumOf(LAMBDA x : db.items[x].cents, ListItems(d))' = SumOf(LAMBDA x : db.items[x].cents, ListItems(d))
  <2> DEFINE f == [x \in ListItems(d) |-> db.items[x].cents]
             g == [x \in ListItems(d) |-> db'.items[x].cents]
  <2>1. f = g OBVIOUS
  <2>2. SumFunctionOnSet(f, ListItems(d)) = SumFunctionOnSet(g, ListItems(d)) BY <2>1
  <2> QED BY <2>2 DEF SumOf
<1>4. SumOf(LAMBDA n : Req(d).items[n].cents, 1 .. request[d].next - 1)'
        = SumOf(LAMBDA n : Req(d).items[n].cents, 1 .. request[d].next - 1)
  BY DEF SumOf
<1> QED BY <1>2, <1>3, <1>4 DEF BatchOf

LEMMA BatchFrame ==
  ASSUME BookRows, BatchInv, NEW c \in Requests, OwnWork(c), db'.items = db.items,
         Req(c).op = "createBatch" =>
           /\ request[c].pc # "new" /\ request'[c].next = request[c].next
           /\ request'[c].pc = "done" => request[c].next = Len(Req(c).items) + 1,
         DOMAIN db'.batches = DOMAIN db.batches,
         \A i \in DOMAIN db.batches : /\ db'.batches[i].total = db.batches[i].total
                                       /\ db'.batches[i].count = db.batches[i].count
  PROVE  BatchInv'
<1>1. \A i : ListItems(i)' = ListItems(i) BY DEF ListItems
<1>2. ASSUME NEW d \in Requests
      PROVE  IF Req(d)'.op = "createBatch" /\ request'[d].pc # "new" THEN BatchOf(d)'
             ELSE d \notin DOMAIN db'.batches /\ ListItems(d)' = {} /\ (request'[d].pc = "new" => request'[d].next = 1)
  <2>1. Req(d)' = Req(d) /\ (Req(d).op = "createBatch" \/ d # c => request'[d].next = request[d].next)
    BY FormsStay DEF OwnWork
  <2>2. d # c => request'[d] = request[d] BY DEF OwnWork
  <2>3. CASE Req(d).op = "createBatch" /\ request'[d].pc # "new"
    <3>1. /\ request[d].pc # "new"
          /\ request'[d].pc = "done" => request[d].pc = "done" \/ request[d].next = Len(Req(d).items) + 1
      BY <2>2, <2>3
    <3>2. BatchOf(d) BY <2>3, <3>1 DEF BatchInv
    <3>3. d \in DOMAIN db.batches BY <3>2 DEF BatchOf
    <3>4. BatchOf(d)' BY <1>1, <2>1, <2>3, <3>1, <3>2, <3>3, SameBatch
    <3> QED BY <2>1, <2>3, <3>4
  <2>4. CASE ~(Req(d).op = "createBatch" /\ request'[d].pc # "new")
    <3>1. ~(Req(d).op = "createBatch" /\ request[d].pc # "new") /\ (request'[d].pc = "new" => request[d].pc = "new")
      BY <2>2, <2>4 DEF OwnWork, BookOp
    <3>2. request'[d].pc = "new" => d # c BY DEF OwnWork, BookOp
    <3> QED BY <1>1, <2>1, <2>4, <3>1, <3>2 DEF BatchInv
  <2> QED BY <2>3, <2>4
<1>3. \A i \in DOMAIN db'.batches \ Requests : Cardinality(ListItems(i)') <= db'.batches[i].count BY <1>1 DEF BatchInv
<1> QED BY <1>2, <1>3 DEF BatchInv

\* The rows that may name a category, and those that do.
Named == {"labels", "lines", "items"}
LEMMA ReferenceFrame ==
  ASSUME BookRows, ReferenceInv, NEW c \in Requests, OwnWork(c), request'[c].pc # "markProcessing",
         DOMAIN db'.batches = DOMAIN db.batches,
         \A i \in DOMAIN db.batches : /\ db'.batches[i].status = db.batches[i].status
                                       /\ db'.batches[i].approver = db.batches[i].approver,
         DOMAIN db'.categories = DOMAIN db.categories, \A t \in Named : db'[t] = db[t]
  PROVE  ReferenceInv'
<1>1. \A d \in Requests : request'[d].pc = "markProcessing" =>
        Has(db'.batches, Req(d)'.id) /\ db'.batches[Req(d)'.id].approver # None
  BY FormsStay DEF OwnWork, ReferenceInv, Has
<1>2. \A cat : CategoryKnown(cat)' <=> CategoryKnown(cat) BY DEF CategoryKnown, Has
<1>3. \A t \in Named : \A x \in DOMAIN db'[t] : CategoryKnown(db'[t][x].category)
  BY DEF ReferenceInv, RefersToWhatExists, Named
<1>4. \A t \in Named : \A x \in DOMAIN db'[t] : CategoryKnown(db[t][x].category)'
  BY <1>2, <1>3
<1>5. \A i \in DOMAIN db'.batches : db'.batches[i].status \in {"approved", "processing"} <=> db'.batches[i].approver # None
  BY DEF ReferenceInv, RefersToWhatExists
<1> QED BY <1>1, <1>4, <1>5 DEF ReferenceInv, RefersToWhatExists, Named

-----------------------------------------------------------------------------
(* The requests, one table after the other.                                *)

\* The tables that no part of the invariant speaks of.
LEMMA QuietStep ==
  ASSUME BooksInv, NEW c \in Requests, OwnWork(c), TablesBut({"taxPots", "docs", "loans"}),
         request'[c].pc \notin {"insertInvoice", "writePaid", "markProcessing"},
         request'[c].next = request[c].next,
         Req(c).op = "createBatch" =>
           request[c].pc # "new" /\ (request'[c].pc = "done" => request[c].next = Len(Req(c).items) + 1)
  PROVE  BooksInv'
<1> BookRows /\ NumbersInv /\ PaidInv /\ BatchInv /\ ReferenceInv BY DEF BooksInv
<1>1. /\ DOMAIN db' = BookTables /\ db'.invoices = db.invoices /\ db'.batches = db.batches /\ db'.items = db.items
      /\ db'.categories = db.categories /\ \A t \in Named : db'[t] = db[t]
  BY DEF TablesBut, BookTables, Named
<1>2. BookRows' BY <1>1, RowsFrame DEF BookRows
<1>3. NumbersInv' BY <1>1, NumbersFrame
<1>4. PaidInv' BY <1>1, PaidFrame
<1>5. BatchInv' BY <1>1, BatchFrame
<1>6. ReferenceInv' BY <1>1, ReferenceFrame
<1> QED BY <1>2, <1>3, <1>4, <1>5, <1>6 DEF BooksInv

\* Statements on a row of a table leave the table its other rows, and the row
\* its other columns.
LEMMA EndsQuietly ==
  ASSUME BooksInv, NEW c \in Requests, NEW op, Begins(c, op), op # "createBatch", NEW ok, Ends(c, ok),
         TablesBut({"taxPots", "docs", "loans"})
  PROVE  BooksInv'
<1>1. BookRows /\ request[c].pc = "new" /\ Req(c).op = op BY DEF BooksInv, Begins
<1>2. JustEnds(c) BY <1>1, EndsFacts
<1> QED BY <1>1, <1>2, QuietStep DEF JustEnds

LEMMA TaxAndDocumentsStep ==
  ASSUME BooksInv, NEW c \in Requests, TaxAndDocuments(c)
  PROVE  BooksInv'
<1> DOMAIN db = BookTables BY DEF BooksInv, BookRows
<1> USE DEF TablesBut, BookTables
<1>1. CASE HandleCreateTaxPot(c) BY <1>1, EndsQuietly DEF HandleCreateTaxPot
<1>2. CASE HandleUpdateTaxPot(c) BY <1>2, EndsQuietly DEF HandleUpdateTaxPot, UpdateTaxPot
<1>3. CASE HandleDeleteTaxPot(c) BY <1>3, EndsQuietly DEF HandleDeleteTaxPot
<1>4. CASE HandleCreateDocument(c) BY <1>4, EndsQuietly DEF HandleCreateDocument
<1>5. CASE HandleUpdateDocument(c) BY <1>5, EndsQuietly DEF HandleUpdateDocument, UpdateDocument
<1>6. CASE HandleArchiveDocument(c) BY <1>6, EndsQuietly DEF HandleArchiveDocument, ArchiveDocument
<1> QED BY <1>1, <1>2, <1>3, <1>4, <1>5, <1>6 DEF TaxAndDocuments

LEMMA LoansStep ==
  ASSUME BooksInv, NEW c \in Requests, Loans(c)
  PROVE  BooksInv'
<1> BookRows /\ DOMAIN db = BookTables BY DEF BooksInv, BookRows
<1> USE DEF TablesBut, BookTables
<1>1. CASE HandleApply(c)
  <2>1. request[c].pc = "new" /\ Req(c).op = "applyLoan" /\ db' = db BY <1>1 DEF HandleApply, Begins
  <2>2. CASE Moves(c, "insertLoan")
    <3>1. OwnWork(c) /\ request'[c].pc = "insertLoan" /\ request'[c].next = request[c].next
      BY <2>1, <2>2, MovesFacts DEF BookOp
    <3> QED BY <2>1, <3>1, QuietStep
  <2>3. CASE Ends(c, FALSE)
    BY <1>1, <2>1, <2>3, EndsQuietly DEF HandleApply
  <2> QED BY <1>1, <2>2, <2>3 DEF HandleApply
<1>2. CASE CreateLoan(c)
  <2>1. request[c].pc = "insertLoan" /\ TablesBut({"taxPots", "docs", "loans"}) BY <1>2 DEF CreateLoan, Reached
  <2>2. PICK ok : Ends(c, ok) BY <1>2 DEF CreateLoan
  <2>3. JustEnds(c) BY <2>1, <2>2, EndsFacts
  <2>4. Req(c).op = "applyLoan" BY <2>1 DEF BookRows, BookOp
  <2> QED BY <2>1, <2>3, <2>4, QuietStep DEF JustEnds
<1> QED BY <1>1, <1>2 DEF Loans

LEMMA DiesStep ==
  ASSUME BooksInv, NEW c \in Requests, Dies(c)
  PROVE  BooksInv'
<1>1. BookRows /\ DOMAIN db = BookTables /\ request[c].pc \notin {"new", "done", "failed"} /\ db' = db
  BY DEF BooksInv, BookRows, Dies
<1>2. Moves(c, "failed") BY DEF Dies, Ends
<1>3. OwnWork(c) /\ request'[c].pc = "failed" /\ request'[c].next = request[c].next
  BY <1>1, <1>2, MovesFacts DEF BookOp
<1> QED BY <1>1, <1>3, QuietStep DEF TablesBut

\* Statements on an invoice leave batches, items and categories alone.
LEMMA OnInvoices ==
  ASSUME BooksInv, NEW c \in Requests, OwnWork(c), TablesBut({"invoices"}), request'[c].pc # "markProcessing",
         request'[c].next = request[c].next, Req(c).op # "createBatch",
         \A i \in DOMAIN db'.invoices : DOMAIN db'.invoices[i] = InvoiceColumns,
         NumbersInv', PaidInv'
  PROVE  BooksInv'
<1> BookRows /\ BatchInv /\ ReferenceInv BY DEF BooksInv
<1>1. /\ DOMAIN db' = BookTables /\ db'.batches = db.batches /\ db'.items = db.items
      /\ db'.categories = db.categories /\ \A t \in Named : db'[t] = db[t]
  BY DEF TablesBut, BookTables, Named
<1>2. BookRows' BY <1>1, RowsFrame DEF BookRows
<1>3. BatchInv' BY <1>1, BatchFrame
<1>4. ReferenceInv' BY <1>1, ReferenceFrame
<1> QED BY <1>2, <1>3, <1>4 DEF BooksInv

\* Total and status are nobody's concern.
LEMMA InvoiceTextStep ==
  ASSUME BooksInv, NEW c \in Requests, NEW op, Begins(c, op), op # "createBatch", NEW ok, Ends(c, ok),
         NEW i, NEW f \in {"total", "status"}, NEW v, db' = db \/ db' = [db EXCEPT !.invoices[i][f] = v]
  PROVE  BooksInv'
<1> BookRows /\ NumbersInv /\ PaidInv BY DEF BooksInv
<1>1. DOMAIN db = BookTables /\ "invoices" \in BookTables
      /\ \A j \in DOMAIN db.invoices : DOMAIN db.invoices[j] = InvoiceColumns
  BY DEF BookRows, BookTables
<1>2. JustEnds(c) /\ Req(c).op # "createBatch" BY EndsFacts DEF Begins
<1>3. TablesBut({"invoices"}) /\ (db' = db \/ db'.invoices = [db.invoices EXCEPT ![i][f] = v])
  BY <1>1 DEF TablesBut
<1>4. /\ OwnWork(c) /\ request'[c].next = request[c].next
      /\ request'[c].pc \notin {"markProcessing", "insertInvoice", "writePaid"}
  BY <1>2 DEF JustEnds
<1>5. /\ DOMAIN db'.invoices = DOMAIN db.invoices
      /\ \A j \in DOMAIN db.invoices :
           /\ DOMAIN db'.invoices[j] = InvoiceColumns /\ db'.invoices[j].biz = db.invoices[j].biz
           /\ db'.invoices[j].number = db.invoices[j].number /\ db'.invoices[j].paid = db.invoices[j].paid
  <2>1. CASE db' = db BY <1>1, <2>1
  <2>2. CASE db'.invoices = [db.invoices EXCEPT ![i][f] = v]
    <3>1. \A j \in DOMAIN db.invoices : j # i => db'.invoices[j] = db.invoices[j] BY <2>2
    <3>2. i \in DOMAIN db.invoices => db'.invoices[i] = [db.invoices[i] EXCEPT ![f] = v] BY <2>2
    <3>3. f \notin {"biz", "number", "paid"} OBVIOUS
    <3> QED BY <1>1, <2>2, <3>1, <3>2, <3>3 DEF InvoiceColumns
  <2> QED BY <1>3, <2>1, <2>2
<1>6. NumbersInv' BY <1>4, <1>5, NumbersFrame
<1>7. PaidInv' BY <1>4, <1>5, PaidFrame
<1> QED BY <1>2, <1>3, <1>4, <1>5, <1>6, <1>7, OnInvoices

LEMMA InvoiceTextSteps ==
  ASSUME BooksInv, NEW c \in Requests, HandleUpdateInvoice(c) \/ HandleSendInvoice(c) \/ HandleCancelInvoice(c)
  PROVE  BooksInv'
<1>1. CASE HandleUpdateInvoice(c)
  <2>1. PICK ok : Begins(c, "updateInvoice") /\ Ends(c, ok) BY <1>1 DEF HandleUpdateInvoice
  <2>2. db' = db \/ db' = [db EXCEPT !.invoices[Req(c).id]["total"] = Req(c).total]
    BY <1>1 DEF HandleUpdateInvoice, UpdateInvoice
  <2> QED BY <2>1, <2>2, InvoiceTextStep
<1>2. CASE HandleSendInvoice(c)
  <2>1. PICK ok : Begins(c, "sendInvoice") /\ Ends(c, ok) BY <1>2 DEF HandleSendInvoice
  <2>2. db' = db \/ db' = [db EXCEPT !.invoices[Req(c).id]["status"] = "sent"]
    BY <1>2 DEF HandleSendInvoice, UpdateInvoiceStatus
  <2> QED BY <2>1, <2>2, InvoiceTextStep
<1>3. CASE HandleCancelInvoice(c)
  <2>1. PICK ok : Begins(c, "cancelInvoice") /\ Ends(c, ok) BY <1>3 DEF HandleCancelInvoice
  <2>2. db' = db \/ db' = [db EXCEPT !.invoices[Req(c).id]["status"] = "cancelled"]
    BY <1>3 DEF HandleCancelInvoice, UpdateInvoiceStatus
  <2> QED BY <2>1, <2>2, InvoiceTextStep
<1> QED BY <1>1, <1>2, <1>3

\* The number is read now: it is the next one.
LEMMA CreateInvoiceStep ==
  ASSUME BooksInv, NEW c \in Requests, HandleCreateInvoice(c)
  PROVE  BooksInv'
<1> BookRows /\ NumbersInv /\ PaidInv BY DEF BooksInv
<1>1. request[c].pc = "new" /\ Req(c).op = "createInvoice" /\ db' = db BY DEF HandleCreateInvoice, Begins
<1>2. request' = [request EXCEPT ![c].pc = "insertInvoice", ![c].seen = NextInvoiceNumber(Req(c).biz)]
  BY DEF HandleCreateInvoice
<1>3. DOMAIN request = Requests /\ DOMAIN request[c] = {"pc", "ask", "seen", "next", "of"} BY BookRequest
<1>4. request'[c] = [request[c] EXCEPT !.pc = "insertInvoice", !.seen = NextInvoiceNumber(Req(c).biz)] BY <1>2, <1>3
<1>5. /\ request'[c].pc = "insertInvoice" /\ request'[c].seen = NextInvoiceNumber(Req(c).biz)
      /\ request'[c].next = request[c].next /\ request'[c].ask = request[c].ask
      /\ DOMAIN request'[c] = {"pc", "ask", "seen", "next", "of"}
  BY <1>3, <1>4
<1>6. OwnWork(c)
  <2>1. DOMAIN request' = Requests /\ \A d \in Requests : d # c => request'[d] = request[d] BY <1>2, <1>3
  <2> QED BY <1>1, <1>5, <2>1 DEF OwnWork, BookOp
<1>7. NumbersInv'
  <2>1. \A d \in Requests : /\ Req(d)' = Req(d)
                             /\ NextInvoiceNumber(Req(d).biz)' = NextInvoiceNumber(Req(d).biz)
    BY <1>1, <1>6, FormsStay DEF NextInvoiceNumber, OfBusiness
  <2>2. NextInvoiceNumber(Req(c).biz) \in Nat \ {0}
    <3>1. IsFiniteSet(OfBusiness(db.invoices, Req(c).biz)) BY FS_Subset DEF OfBusiness, NumbersInv
    <3> QED BY <3>1, FS_CardinalityType DEF NextInvoiceNumber
  <2>3. request'[c].seen \in 1 .. NextInvoiceNumber(Req(c).biz)' BY <1>5, <2>1, <2>2
  <2>4. ASSUME NEW d \in Requests
        PROVE  /\ request'[d].pc \in {"new", "insertInvoice"} => d \notin DOMAIN db'.invoices
               /\ request'[d].pc = "insertInvoice" => request'[d].seen \in 1 .. NextInvoiceNumber(Req(d).biz)'
    <3>1. CASE d = c BY <1>1, <2>3, <3>1 DEF NumbersInv
    <3>2. CASE d # c
      <4>1. request'[d] = request[d] BY <1>6, <3>2 DEF OwnWork
      <4> QED BY <1>1, <2>1, <4>1 DEF NumbersInv
    <3> QED BY <3>1, <3>2
  <2>5. NumbersHaveNoGap' BY <1>1 DEF NumbersInv, NumbersHaveNoGap, OfBusiness
  <2> QED BY <1>1, <2>4, <2>5 DEF NumbersInv
<1>8. PaidInv' BY <1>1, <1>5, <1>6, PaidFrame
<1> QED BY <1>1, <1>5, <1>6, <1>7, <1>8, OnInvoices DEF TablesBut, BookRows

\* A number that is not taken, and at most the next one, is the next one.
LEMMA NumbersGrow ==
  ASSUME BookRows, NumbersInv, NEW c \in Requests, OwnWork(c), request[c].pc = "insertInvoice",
         request'[c].pc # "insertInvoice",
         ~NumberTaken(request[c].seen), db'.invoices = CreateInvoiceRow(c, request[c].seen)
  PROVE  NumbersInv'
<1> DEFINE n == request[c].seen
           home == Req(c).biz
<1>1. c \notin DOMAIN db.invoices /\ IsFiniteSet(DOMAIN db.invoices) BY DEF NumbersInv
<1>2. /\ DOMAIN db'.invoices = DOMAIN db.invoices \cup {c}
      /\ db'.invoices[c].biz = home /\ db'.invoices[c].number = n
      /\ \A i \in DOMAIN db.invoices : db'.invoices[i] = db.invoices[i]
  <2> DEFINE row == [biz |-> Req(c).biz, number |-> n, total |-> Req(c).total, paid |-> 0, status |-> "draft"]
  <2>1. db'.invoices = Insert(db.invoices, c, row) BY DEF CreateInvoiceRow
  <2>2. row.biz = home /\ row.number = n OBVIOUS
  <2> HIDE DEF row
  <2>3. DOMAIN db'.invoices = DOMAIN db.invoices \cup {c} /\ db'.invoices[c] = row
        /\ \A i \in DOMAIN db.invoices : db'.invoices[i] = db.invoices[i]
    BY <1>1, <2>1 DEF Insert
  <2> QED BY <2>2, <2>3
<1>3. \A b : OfBusiness(db.invoices, b)' = IF b = home THEN OfBusiness(db.invoices, b) \cup {c} ELSE OfBusiness(db.invoices, b)
  BY <1>1, <1>2 DEF OfBusiness
<1>4. \A b : /\ IsFiniteSet(OfBusiness(db.invoices, b)) /\ Cardinality(OfBusiness(db.invoices, b)) \in Nat
             /\ c \notin OfBusiness(db.invoices, b)
  BY <1>1, FS_Subset, FS_CardinalityType DEF OfBusiness
<1>5. \A b : Cardinality(OfBusiness(db.invoices, b)') = IF b = home THEN Cardinality(OfBusiness(db.invoices, b)) + 1
                                                         ELSE Cardinality(OfBusiness(db.invoices, b))
  BY <1>3, <1>4, FS_AddElement
<1>6. NumbersHaveNoGap'
  <2>1. ASSUME NEW b \in Businesses
        PROVE  {db'.invoices[i].number : i \in OfBusiness(db'.invoices, b)} = 1 .. Cardinality(OfBusiness(db'.invoices, b))
    <3> DEFINE old == OfBusiness(db.invoices, b)
    <3>1. {db.invoices[i].number : i \in old} = 1 .. Cardinality(old) BY DEF NumbersInv, NumbersHaveNoGap
    <3>2. \A i \in old : db'.invoices[i].number = db.invoices[i].number BY <1>2 DEF OfBusiness
    <3>3. CASE b # home
      <4>1. OfBusiness(db'.invoices, b) = old BY <1>3, <3>3
      <4> QED BY <3>1, <3>2, <4>1
    <3>4. CASE b = home
      <4>1. n \in 1 .. Cardinality(old) + 1 BY <3>4 DEF NumbersInv, NextInvoiceNumber
      <4>2. n \notin {db.invoices[i].number : i \in old} BY DEF NumberTaken, OfBusiness
      <4>3. n = Cardinality(old) + 1
        <5>1. PICK k : k = Cardinality(old) OBVIOUS
        <5>2. k \in Nat BY <1>4, <5>1
        <5>3. n \notin 1 .. k /\ n \in 1 .. k + 1 BY <3>1, <4>1, <4>2, <5>1
        <5> HIDE DEF old, n
        <5> QED BY <5>1, <5>2, <5>3
      <4>4. OfBusiness(db'.invoices, b) = old \cup {c} /\ Cardinality(OfBusiness(db'.invoices, b)) = Cardinality(old) + 1
        BY <1>3, <1>5, <3>4
      <4>5. {db'.invoices[i].number : i \in old \cup {c}} = {db.invoices[i].number : i \in old} \cup {n}
        BY <1>2, <3>2
      <4>6. Cardinality(old) \in Nat BY <1>4
      <4>7. 1 .. Cardinality(old) + 1 = (1 .. Cardinality(old)) \cup {Cardinality(old) + 1}
        <5> HIDE DEF old
        <5> QED BY <4>6
      <4> QED BY <3>1, <4>3, <4>4, <4>5, <4>7
    <3> QED BY <3>3, <3>4
  <2> QED BY <2>1 DEF NumbersHaveNoGap
<1>7. ASSUME NEW d \in Requests
      PROVE  /\ request'[d].pc \in {"new", "insertInvoice"} => d \notin DOMAIN db'.invoices
             /\ request'[d].pc = "insertInvoice" => request'[d].seen \in 1 .. NextInvoiceNumber(Req(d).biz)'
  <2>1. CASE d = c BY <2>1 DEF OwnWork, BookOp
  <2>2. CASE d # c
    <3>1. request'[d] = request[d] /\ Req(d)' = Req(d) BY <2>2, FormsStay DEF OwnWork
    <3>2. /\ NextInvoiceNumber(Req(d).biz) \in Nat
          /\ NextInvoiceNumber(Req(d).biz)' \in {NextInvoiceNumber(Req(d).biz), NextInvoiceNumber(Req(d).biz) + 1}
      BY <1>4, <1>5, <3>1 DEF NextInvoiceNumber
    <3>3. request[d].pc = "insertInvoice" => request[d].seen \in 1 .. NextInvoiceNumber(Req(d).biz) BY DEF NumbersInv
    <3>4. request[d].pc = "insertInvoice" => request[d].seen \in 1 .. NextInvoiceNumber(Req(d).biz)' BY <3>2, <3>3
    <3>5. request[d].pc \in {"new", "insertInvoice"} => d \notin DOMAIN db.invoices BY DEF NumbersInv
    <3> QED BY <1>2, <2>2, <3>1, <3>4, <3>5
  <2> QED BY <2>1, <2>2
<1>8. IsFiniteSet(DOMAIN db'.invoices) BY <1>1, <1>2, FS_AddElement
<1> QED BY <1>6, <1>7, <1>8 DEF NumbersInv

LEMMA InsertInvoiceStep ==
  ASSUME BooksInv, NEW c \in Requests, InsertInvoice(c)
  PROVE  BooksInv'
<1> BookRows /\ NumbersInv /\ PaidInv BY DEF BooksInv
<1>1. /\ request[c].pc = "insertInvoice" /\ Req(c).op = "createInvoice" /\ DOMAIN db = BookTables
      /\ \A i \in DOMAIN db.invoices : DOMAIN db.invoices[i] = InvoiceColumns
  BY DEF InsertInvoice, Reached, BookRows, BookOp
<1>2. CASE NumberTaken(request[c].seen)
  <2>1. JustEnds(c) /\ db' = db BY <1>1, <1>2, EndsFacts DEF InsertInvoice
  <2> QED BY <1>1, <2>1, QuietStep DEF JustEnds, TablesBut
<1>3. CASE ~NumberTaken(request[c].seen)
  <2>1. db' = [db EXCEPT !.invoices = CreateInvoiceRow(c, request[c].seen)] /\ Moves(c, "insertLine")
    BY <1>3 DEF InsertInvoice
  <2>2. OwnWork(c) /\ request'[c].pc = "insertLine" /\ request'[c].next = request[c].next
    BY <1>1, <2>1, MovesFacts DEF BookOp
  <2>3. db'.invoices = CreateInvoiceRow(c, request[c].seen) /\ TablesBut({"invoices"})
    BY <1>1, <2>1 DEF TablesBut, BookTables
  <2>4. NumbersInv' BY <1>1, <1>3, <2>2, <2>3, NumbersGrow
  <2>5. c \notin DOMAIN db.invoices BY <1>1 DEF NumbersInv
  <2>6. /\ DOMAIN db'.invoices = DOMAIN db.invoices \cup {c} /\ db'.invoices[c].paid = 0
        /\ DOMAIN db'.invoices[c] = InvoiceColumns /\ \A i \in DOMAIN db.invoices : db'.invoices[i] = db.invoices[i]
    <3> DEFINE row == [biz |-> Req(c).biz, number |-> request[c].seen, total |-> Req(c).total, paid |-> 0, status |-> "draft"]
    <3>1. db'.invoices = Insert(db.invoices, c, row) BY <2>3 DEF CreateInvoiceRow
    <3>2. row.paid = 0 /\ DOMAIN row = InvoiceColumns BY DEF InvoiceColumns
    <3> HIDE DEF row
    <3>3. DOMAIN db'.invoices = DOMAIN db.invoices \cup {c} /\ db'.invoices[c] = row
          /\ \A i \in DOMAIN db.invoices : db'.invoices[i] = db.invoices[i]
      BY <2>5, <3>1 DEF Insert
    <3> QED BY <3>2, <3>3
  <2>7. PaidInv'
    <3>1. ASSUME NEW i \in DOMAIN db'.invoices PROVE Explained(i, db.invoices[i].paid)'
      <4>1. CASE i \in DOMAIN db.invoices
        <5>1. Explained(i, db.invoices[i].paid) /\ db'.invoices[i].paid = db.invoices[i].paid
          BY <2>6, <4>1 DEF PaidInv
        <5> QED BY <2>2, <5>1, ExplainedStays
      <4>2. CASE i = c
        <5>1. PaidBy({}) = 0 /\ PaidAtStart(c) = 0 BY SumEmpty, BookFormAssumption DEF PaidBy, PaidAtStart, Has
        <5>2. {} \in SUBSET (Over(c)') /\ 0 = PaidBy({}) + PaidAtStart(c) BY <5>1
        <5>3. Explained(c, 0)' BY <2>2, <5>2, ExplainedNext
        <5> QED BY <2>6, <4>2, <5>3
      <4> QED BY <2>6, <4>1, <4>2
    <3>2. ASSUME NEW d \in Requests, request'[d].pc = "writePaid"
          PROVE  Has(db'.invoices, Req(d)'.id) /\ Explained(Req(d).id, request[d].seen)'
      <4>1. d # c /\ request'[d] = request[d] /\ Req(d)' = Req(d) BY <2>2, <3>2, FormsStay DEF OwnWork
      <4>2. Has(db.invoices, Req(d).id) /\ Explained(Req(d).id, request[d].seen) BY <3>2, <4>1 DEF PaidInv
      <4> QED BY <2>2, <2>6, <4>1, <4>2, ExplainedStays DEF Has
    <3> QED BY <3>1, <3>2 DEF PaidInv
  <2> QED BY <1>1, <2>2, <2>3, <2>4, <2>6, <2>7, OnInvoices
<1> QED BY <1>2, <1>3

\* The payment is read: what it saw is what others left.
LEMMA RecordPaymentStep ==
  ASSUME BooksInv, NEW c \in Requests, HandleRecordPayment(c)
  PROVE  BooksInv'
<1> BookRows /\ NumbersInv /\ PaidInv BY DEF BooksInv
<1> DEFINE i == Req(c).id
<1>1. request[c].pc = "new" /\ Req(c).op = "recordPayment" /\ db' = db /\ DOMAIN db = BookTables
  BY DEF HandleRecordPayment, Begins, BookRows
<1>2. CASE ~Has(db.invoices, i)
  <2>1. Ends(c, FALSE) BY <1>2 DEF HandleRecordPayment
  <2> QED BY <1>1, <2>1, EndsQuietly DEF HandleRecordPayment, TablesBut
<1>3. CASE Has(db.invoices, i)
  <2>1. request' = [request EXCEPT ![c].pc = "writePaid", ![c].seen = db.invoices[i].paid, ![c].of = db.invoices[i].total]
    BY <1>3 DEF HandleRecordPayment
  <2>2. DOMAIN request = Requests /\ DOMAIN request[c] = {"pc", "ask", "seen", "next", "of"} BY BookRequest
  <2>3. request'[c] = [request[c] EXCEPT !.pc = "writePaid", !.seen = db.invoices[i].paid, !.of = db.invoices[i].total]
    BY <2>1, <2>2
  <2>4. /\ request'[c].pc = "writePaid" /\ request'[c].seen = db.invoices[i].paid
        /\ request'[c].next = request[c].next /\ request'[c].ask = request[c].ask
        /\ DOMAIN request'[c] = {"pc", "ask", "seen", "next", "of"}
    BY <2>2, <2>3
  <2>5. OwnWork(c)
    <3>1. DOMAIN request' = Requests /\ \A d \in Requests : d # c => request'[d] = request[d] BY <2>1, <2>2
    <3> QED BY <1>1, <2>4, <3>1 DEF OwnWork, BookOp
  <2>6. \A d \in Requests : Req(d)' = Req(d) BY <2>5, FormsStay
  <2>7. \A j \in DOMAIN db.invoices : Explained(j, db.invoices[j].paid) BY DEF PaidInv
  <2>8. ASSUME NEW j \in DOMAIN db.invoices, NEW paid, paid = db.invoices[j].paid PROVE Explained(j, paid)'
    BY <2>5, <2>7, <2>8, ExplainedStays
  <2>9. ASSUME NEW d \in Requests, request'[d].pc = "writePaid"
        PROVE  Has(db'.invoices, Req(d)'.id) /\ Explained(Req(d).id, request[d].seen)'
    <3>1. CASE d = c
      <4>1. Explained(i, db.invoices[i].paid)' BY <1>1, <1>3, <2>6, <2>8 DEF Has
      <4> QED BY <1>1, <1>3, <2>4, <2>6, <3>1, <4>1
    <3>2. CASE d # c
      <4>1. request'[d] = request[d] BY <2>5, <3>2 DEF OwnWork
      <4>2. Has(db.invoices, Req(d).id) /\ Explained(Req(d).id, request[d].seen) BY <2>9, <4>1 DEF PaidInv
      <4> QED BY <1>1, <2>5, <2>6, <4>1, <4>2, ExplainedStays
    <3> QED BY <3>1, <3>2
  <2>10. PaidInv' BY <1>1, <2>8, <2>9 DEF PaidInv
  <2>11. NumbersInv' BY <1>1, <2>4, <2>5, NumbersFrame
  <2> QED BY <1>1, <2>4, <2>5, <2>10, <2>11, OnInvoices DEF TablesBut, BookRows
<1> QED BY <1>2, <1>3

LEMMA PaidByOneMore ==
  ASSUME NEW S, S \subseteq Requests, NEW c \in Requests, c \notin S,
         \A d \in S \cup {c} : Form[d].op = "recordPayment"
  PROVE  PaidBy(S \cup {c}) = PaidBy(S) + Form[c].cents
<1> DEFINE R == S \cup {c}
           f == [d \in S |-> Form[d].cents]
           g == [d \in R |-> Form[d].cents]
<1>1. IsFiniteSet(S) BY BookFormAssumption, FS_Subset
<1>2. \A d \in R : g[d] = Form[d].cents /\ g[d] \in Int BY BookFormAssumption
<1>3. SumFunctionOnSet(g, R) = SumFunctionOnSet(g, S) + g[c]
  <2> HIDE DEF g
  <2> QED BY <1>1, <1>2, SumAdd
<1>4. \A d \in S : g[d] \in Int /\ g[d] = f[d] BY <1>2
<1>5. SumFunctionOnSet(g, S) = SumFunctionOnSet(f, S)
  <2> HIDE DEF f, g
  <2> QED BY <1>1, <1>4, SumSame
<1> QED BY <1>2, <1>3, <1>5 DEF PaidBy

\* The sum is written: this payment and those it saw.
LEMMA WritePaidStep ==
  ASSUME BooksInv, NEW c \in Requests, WritePaid(c)
  PROVE  BooksInv'
<1> BookRows /\ NumbersInv /\ PaidInv BY DEF BooksInv
<1> DEFINE i == Req(c).id
           paid == request[c].seen + Req(c).cents
<1>1. /\ request[c].pc = "writePaid" /\ Req(c).op = "recordPayment" /\ DOMAIN db = BookTables
      /\ \A j \in DOMAIN db.invoices : DOMAIN db.invoices[j] = InvoiceColumns
  BY DEF WritePaid, Reached, BookRows, BookOp
<1>2. PICK v : db' = [db EXCEPT !.invoices[i].paid = paid, !.invoices[i].status = v]
  BY DEF WritePaid, UpdatePaidCents
<1>3. JustEnds(c) BY <1>1, EndsFacts DEF WritePaid
<1>4. OwnWork(c) /\ request'[c].pc \in {"done", "failed"} /\ request'[c].next = request[c].next BY <1>3 DEF JustEnds
<1>5. i \in DOMAIN db.invoices /\ Explained(i, request[c].seen) BY <1>1 DEF PaidInv, Has
<1>6. /\ TablesBut({"invoices"}) /\ DOMAIN db'.invoices = DOMAIN db.invoices
      /\ \A j \in DOMAIN db.invoices : j # i => db'.invoices[j] = db.invoices[j]
      /\ DOMAIN db'.invoices[i] = InvoiceColumns /\ db'.invoices[i].biz = db.invoices[i].biz
      /\ db'.invoices[i].number = db.invoices[i].number /\ db'.invoices[i].paid = paid
  <2> HIDE DEF i, paid
  <2>1. db'.invoices = [db.invoices EXCEPT ![i].paid = paid, ![i].status = v] /\ TablesBut({"invoices"})
    BY <1>1, <1>2 DEF TablesBut, BookTables
  <2>2. db'.invoices[i] = [db.invoices[i] EXCEPT !.paid = paid, !.status = v] BY <1>5, <2>1
  <2> QED BY <1>1, <1>5, <2>1, <2>2 DEF InvoiceColumns
<1>7. NumbersInv' BY <1>4, <1>6, NumbersFrame
<1>8. Explained(i, db.invoices[i].paid)'
  <2>1. PICK S \in SUBSET Over(i) : request[c].seen = PaidBy(S) + PaidAtStart(i) BY <1>5, ExplainedAs
  <2>2. S \subseteq Requests /\ c \notin S /\ \A d \in S \cup {c} : Form[d].op = "recordPayment"
    BY <1>1, BookRequest DEF Over
  <2>3. PaidBy(S \cup {c}) = PaidBy(S) + Form[c].cents BY <2>2, PaidByOneMore
  <2>4. c \in Over(i)' /\ S \subseteq Over(i)' /\ Req(c)' = Req(c) /\ Req(c) = Form[c]
    BY <1>1, <1>4, OverGrows, FormsStay DEF Over
  <2>5. PaidBy(S) \in Int /\ PaidAtStart(i) \in Int /\ Form[c].cents \in Int
    <3> DEFINE f == [d \in S |-> Form[d].cents]
    <3>1. IsFiniteSet(S) /\ \A d \in S : f[d] \in Int BY <2>2, BookFormAssumption, FS_Subset
    <3>2. SumFunctionOnSet(f, S) \in Int
      <4> HIDE DEF f
      <4> QED BY <3>1, SumType
    <3>3. PaidAtStart(i) \in Int BY BookOpeningAssumption DEF PaidAtStart, Has
    <3> QED BY <2>2, <3>2, <3>3, BookFormAssumption DEF PaidBy
  <2>6. db'.invoices[i].paid = PaidBy(S \cup {c}) + PaidAtStart(i) BY <1>6, <2>1, <2>3, <2>4, <2>5
  <2>7. S \cup {c} \in SUBSET (Over(i)') BY <2>4
  <2>8. \A p : p = PaidBy(S \cup {c}) + PaidAtStart(i) => Explained(Req(c).id, p)'
    <3> TAKE p
    <3> HAVE p = PaidBy(S \cup {c}) + PaidAtStart(i)
    <3>1. PICK j : j = i OBVIOUS
    <3>2. PICK R : R = S \cup {c} OBVIOUS
    <3>3. R \in SUBSET (Over(j)') BY <2>4, <2>7, <3>1, <3>2
    <3>4. p = PaidBy(R) + PaidAtStart(j) BY <3>1, <3>2
    <3>5. Explained(j, p)'
      <4> HIDE DEF i, paid
      <4> QED BY <1>4, <3>3, <3>4, ExplainedNext
    <3> QED BY <2>4, <3>1, <3>5
  <2> QED BY <2>4, <2>6, <2>8
<1>9. PaidInv'
  <2>1. ASSUME NEW j \in DOMAIN db'.invoices PROVE Explained(j, db.invoices[j].paid)'
    <3>1. CASE j = i BY <1>8, <3>1, <1>4, FormsStay
    <3>2. CASE j # i
      <4>1. Explained(j, db.invoices[j].paid) /\ db'.invoices[j].paid = db.invoices[j].paid BY <1>6, <3>2 DEF PaidInv
      <4> QED BY <1>4, <4>1, ExplainedStays
    <3> QED BY <3>1, <3>2
  <2>2. ASSUME NEW d \in Requests, request'[d].pc = "writePaid"
        PROVE  Has(db'.invoices, Req(d)'.id) /\ Explained(Req(d).id, request[d].seen)'
    <3>1. d # c /\ request'[d] = request[d] /\ Req(d)' = Req(d) BY <1>4, <2>2, FormsStay DEF OwnWork
    <3>2. Has(db.invoices, Req(d).id) /\ Explained(Req(d).id, request[d].seen) BY <2>2, <3>1 DEF PaidInv
    <3> QED BY <1>4, <1>6, <3>1, <3>2, ExplainedStays DEF Has
  <2> QED BY <2>1, <2>2 DEF PaidInv
<1>10. \A j \in DOMAIN db'.invoices : DOMAIN db'.invoices[j] = InvoiceColumns BY <1>1, <1>6
<1> QED BY <1>1, <1>4, <1>6, <1>7, <1>9, <1>10, OnInvoices

-----------------------------------------------------------------------------
(* Rows that name a category.                                              *)

LEMMA ReferenceStep ==
  ASSUME BookRows, ReferenceInv, NEW c \in Requests, OwnWork(c),
         request'[c].pc = "markProcessing" => Has(db'.batches, Req(c).id) /\ db'.batches[Req(c).id].approver # None,
         DOMAIN db.batches \subseteq DOMAIN db'.batches,
         \A i \in DOMAIN db.batches : db.batches[i].approver # None => db'.batches[i].approver # None,
         \A i \in DOMAIN db'.batches :
           db'.batches[i].status \in {"approved", "processing"} <=> db'.batches[i].approver # None,
         \A t \in Named : \A x \in DOMAIN db'[t] : CategoryKnown(db[t][x].category)'
  PROVE  ReferenceInv'
<1>1. ASSUME NEW d \in Requests, request'[d].pc = "markProcessing"
      PROVE  Has(db'.batches, Req(d)'.id) /\ db'.batches[Req(d)'.id].approver # None
  <2>1. Req(d)' = Req(d) BY FormsStay
  <2>2. CASE d = c BY <1>1, <2>1, <2>2
  <2>3. CASE d # c
    <3>1. request[d].pc = "markProcessing" BY <1>1, <2>3 DEF OwnWork
    <3>2. Has(db.batches, Req(d).id) /\ db.batches[Req(d).id].approver # None BY <3>1 DEF ReferenceInv
    <3> QED BY <2>1, <3>2 DEF Has
  <2> QED BY <2>2, <2>3
<1> QED BY <1>1 DEF ReferenceInv, RefersToWhatExists, Named

\* Categories that are not deleted are known.
LEMMA StillKnown ==
  ASSUME ReferenceInv, DOMAIN db.categories \subseteq DOMAIN db'.categories, NEW t \in Named, db'[t] = db[t]
  PROVE  \A x \in DOMAIN db'[t] : CategoryKnown(db[t][x].category)'
<1>1. \A x \in DOMAIN db[t] : CategoryKnown(db[t][x].category) BY DEF ReferenceInv, RefersToWhatExists, Named
<1> QED BY <1>1 DEF CategoryKnown, Has

LEMMA RowNamed ==
  ASSUME ReferenceInv, NEW t \in Named, TablesBut({t}), NEW key, NEW row, CategoryKnown(row.category),
         db'[t] = Insert(db[t], key, row)
  PROVE  \A s \in Named : \A x \in DOMAIN db'[s] : CategoryKnown(db[s][x].category)'
<1>1. db'.categories = db.categories /\ \A s \in Named : s # t => db'[s] = db[s] BY DEF TablesBut, BookTables, Named
<1>2. \A x \in DOMAIN db[t] : CategoryKnown(db[t][x].category) BY DEF ReferenceInv, RefersToWhatExists, Named
<1>3. /\ DOMAIN db'[t] = DOMAIN db[t] \cup {key}
      /\ \A x \in DOMAIN db'[t] : db'[t][x] = IF x = key THEN row ELSE db[t][x]
  BY DEF Insert
<1>4. \A x \in DOMAIN db'[t] : CategoryKnown(db'[t][x].category) BY <1>2, <1>3
<1>5. \A x \in DOMAIN db'[t] : CategoryKnown(db[t][x].category)' BY <1>1, <1>4 DEF CategoryKnown, Has
<1> QED BY <1>1, <1>5, StillKnown

\* A row of the list is inserted, or the handler is over.
LEMMA InsertNextRow ==
  ASSUME BookRows, NEW c \in Requests, NEW rows, NEW t \in {"lines", "items"}, NEW accepted,
         request[c].pc \in {"insertLine", "insertItem"}, InsertNext(c, rows, t, accepted)
  PROVE  \/ /\ JustEnds(c) /\ db' = db /\ TablesBut({}) /\ (request'[c].pc = "done" => request[c].next > Len(rows))
         \/ /\ OwnWork(c) /\ request'[c].pc = request[c].pc /\ request'[c].next = request[c].next + 1
            /\ ~(request[c].next > Len(rows)) /\ request[c].next \in accepted
            /\ CategoryKnown(rows[request[c].next].category) /\ TablesBut({t})
            /\ db'[t] = Insert(db[t], <<c, request[c].next>>, rows[request[c].next])
<1>1. DOMAIN db = BookTables /\ request[c].pc \notin {"done", "failed"} BY DEF BookRows
<1>2. CASE request[c].next > Len(rows)
  <2>1. Moves(c, "done") /\ db' = db BY <1>2 DEF InsertNext
  <2>2. Ends(c, TRUE) BY <2>1 DEF Ends
  <2> QED BY <1>1, <1>2, <2>1, <2>2, EndsFacts DEF TablesBut
<1>3. CASE ~(request[c].next > Len(rows)) /\ Ends(c, FALSE) /\ db' = db
  <2>1. JustEnds(c) BY <1>1, <1>3, EndsFacts
  <2>2. request'[c].pc = "failed"
    <3>1. Moves(c, "failed") BY <1>3 DEF Ends
    <3> QED BY <1>1, <3>1, MovesFacts DEF BookOp
  <2> QED BY <1>1, <1>3, <2>1, <2>2 DEF TablesBut
<1>4. CASE /\ ~(request[c].next > Len(rows)) /\ request[c].next \in accepted
           /\ CategoryKnown(rows[request[c].next].category)
           /\ db' = [db EXCEPT ![t] = Insert(db[t], <<c, request[c].next>>, rows[request[c].next])]
           /\ request' = [request EXCEPT ![c].next = @ + 1]
  <2>1. t \in BookTables BY DEF BookTables
  <2>2. TablesBut({t}) /\ db'[t] = Insert(db[t], <<c, request[c].next>>, rows[request[c].next])
    <3> DEFINE new == Insert(db[t], <<c, request[c].next>>, rows[request[c].next])
    <3> HIDE DEF new
    <3>1. db' = [db EXCEPT ![t] = new] BY <1>4 DEF new
    <3> QED BY <1>1, <2>1, <3>1 DEF TablesBut, new
  <2>3. DOMAIN request = Requests /\ DOMAIN request[c] = {"pc", "ask", "seen", "next", "of"} BY BookRequest
  <2>4. request'[c] = [request[c] EXCEPT !.next = request[c].next + 1] BY <1>4, <2>3
  <2>5. /\ request'[c].pc = request[c].pc /\ request'[c].next = request[c].next + 1
        /\ request'[c].ask = request[c].ask /\ DOMAIN request'[c] = {"pc", "ask", "seen", "next", "of"}
    BY <2>3, <2>4
  <2>6. OwnWork(c)
    <3>1. DOMAIN request' = Requests /\ \A d \in Requests : d # c => request'[d] = request[d] BY <1>4, <2>3
    <3>2. request[c].pc \in DOMAIN BookOp BY DEF BookOp
    <3>3. Req(c).op = BookOp[request[c].pc] BY <3>2 DEF BookRows
    <3> QED BY <1>1, <2>5, <3>1, <3>2, <3>3 DEF OwnWork
  <2> QED BY <1>4, <2>2, <2>5, <2>6
<1> QED BY <1>2, <1>3, <1>4 DEF InsertNext

LEMMA CreateLineItemStep ==
  ASSUME BooksInv, NEW c \in Requests, CreateLineItem(c)
  PROVE  BooksInv'
<1> BookRows /\ NumbersInv /\ PaidInv /\ BatchInv /\ ReferenceInv BY DEF BooksInv
<1>1. request[c].pc = "insertLine" /\ Req(c).op = "createInvoice" BY DEF CreateLineItem, Reached, BookRows, BookOp
<1> DEFINE rows == Req(c).lines
           accepted == DOMAIN Req(c).lines
           row == rows[request[c].next]
           key == <<c, request[c].next>>
<1>2. InsertNext(c, rows, "lines", accepted) BY DEF CreateLineItem
<1>3. CASE JustEnds(c) /\ db' = db /\ TablesBut({})
  BY <1>1, <1>3, QuietStep DEF JustEnds, TablesBut
<1>4. CASE /\ OwnWork(c) /\ request'[c].pc = request[c].pc /\ CategoryKnown(row.category) /\ TablesBut({"lines"})
           /\ db'.lines = Insert(db.lines, key, row)
  <2> HIDE DEF row, key, rows, accepted
  <2>1. /\ DOMAIN db' = BookTables /\ db'.invoices = db.invoices /\ db'.batches = db.batches /\ db'.items = db.items
        /\ db'.categories = db.categories
    BY <1>4 DEF TablesBut, BookTables
  <2>2. BookRows' BY <1>4, <2>1, RowsFrame DEF BookRows
  <2>3. NumbersInv' BY <1>1, <1>4, <2>1, NumbersFrame
  <2>4. PaidInv' BY <1>1, <1>4, <2>1, PaidFrame
  <2>5. BatchInv' BY <1>1, <1>4, <2>1, BatchFrame
  <2>6. \A s \in Named : \A x \in DOMAIN db'[s] : CategoryKnown(db[s][x].category)'
    BY <1>4, RowNamed DEF Named
  <2>7. ReferenceInv' BY <1>1, <1>4, <2>1, <2>6, ReferenceStep DEF ReferenceInv, RefersToWhatExists
  <2> QED BY <2>2, <2>3, <2>4, <2>5, <2>7 DEF BooksInv
<1> QED
  <2>1. "lines" \in {"lines", "items"} /\ request[c].pc \in {"insertLine", "insertItem"} BY <1>1
  <2> HIDE DEF rows, accepted
  <2> QED BY <1>2, <1>3, <1>4, <2>1, InsertNextRow

LEMMA InvoicesStep ==
  ASSUME BooksInv, NEW c \in Requests, Invoices(c)
  PROVE  BooksInv'
BY CreateInvoiceStep, InsertInvoiceStep, CreateLineItemStep, InvoiceTextSteps, RecordPaymentStep, WritePaidStep DEF Invoices

-----------------------------------------------------------------------------
(* Batches.                                                                *)

LEMMA SumOneMore ==
  ASSUME NEW f, NEW g, NEW S, IsFiniteSet(S), NEW e, e \notin S, \A x \in S : f[x] \in Int /\ g[x] = f[x], g[e] \in Int
  PROVE  SumFunctionOnSet(g, S \cup {e}) = SumFunctionOnSet(f, S) + g[e]
<1>1. SumFunctionOnSet(g, S \cup {e}) = SumFunctionOnSet(g, S) + g[e] BY SumAdd
<1>2. SumFunctionOnSet(f, S) = SumFunctionOnSet(g, S) BY SumSame
<1> QED BY <1>1, <1>2

LEMMA OnBatches ==
  ASSUME BooksInv, NEW c \in Requests, OwnWork(c), TablesBut({"batches", "items"}),
         request'[c].pc \notin {"insertInvoice", "writePaid"},
         \A i \in DOMAIN db'.batches : DOMAIN db'.batches[i] = BatchColumns,
         BatchInv', ReferenceInv'
  PROVE  BooksInv'
<1> BookRows /\ NumbersInv /\ PaidInv BY DEF BooksInv
<1>1. DOMAIN db' = BookTables /\ db'.invoices = db.invoices BY DEF TablesBut, BookTables
<1>2. BookRows' BY <1>1, RowsFrame DEF BookRows
<1>3. NumbersInv' BY <1>1, NumbersFrame
<1>4. PaidInv' BY <1>1, PaidFrame
<1> QED BY <1>2, <1>3, <1>4 DEF BooksInv

\* A request works on its own batch only.
LEMMA OtherBatches ==
  ASSUME BookRows, BatchInv, NEW c \in Requests, OwnWork(c), Req(c).op = "createBatch", BatchOf(c)',
         \A i : i # c => ListItems(i)' = ListItems(i),
         \A x \in DOMAIN db.items : db'.items[x] = db.items[x],
         DOMAIN db'.batches = DOMAIN db.batches \cup {c},
         \A i \in DOMAIN db.batches : i # c => db'.batches[i] = db.batches[i]
  PROVE  BatchInv'
<1>1. ASSUME NEW d \in Requests
      PROVE  IF Req(d)'.op = "createBatch" /\ request'[d].pc # "new" THEN BatchOf(d)'
             ELSE d \notin DOMAIN db'.batches /\ ListItems(d)' = {} /\ (request'[d].pc = "new" => request'[d].next = 1)
  <2>1. Req(d)' = Req(d) BY FormsStay
  <2>2. CASE d = c
    <3>1. request'[c].pc # "new" BY DEF OwnWork, BookOp
    <3> QED BY <2>1, <2>2, <3>1
  <2>3. CASE d # c
    <3>1. request'[d] = request[d] /\ ListItems(d)' = ListItems(d) BY <2>3 DEF OwnWork
    <3>2. CASE Req(d).op = "createBatch" /\ request[d].pc # "new"
      <4>1. BatchOf(d) BY <3>2 DEF BatchInv
      <4>2. d \in DOMAIN db.batches /\ \A x \in ListItems(d) : db'.items[x] = db.items[x]
        BY <4>1 DEF BatchOf, ListItems
      <4>3. BatchOf(d)' BY <2>1, <2>3, <3>1, <4>1, <4>2, SameBatch
      <4> QED BY <2>1, <3>1, <3>2, <4>3
    <3>3. CASE ~(Req(d).op = "createBatch" /\ request[d].pc # "new")
      BY <2>1, <2>3, <3>1, <3>3 DEF BatchInv
    <3> QED BY <3>2, <3>3
  <2> QED BY <2>2, <2>3
<1>2. ASSUME NEW i \in DOMAIN db'.batches \ Requests
      PROVE  Cardinality(ListItems(i)') <= db'.batches[i].count
  <2>1. i # c /\ i \in DOMAIN db.batches OBVIOUS
  <2> QED BY <2>1 DEF BatchInv
<1> QED BY <1>1, <1>2 DEF BatchInv

\* The header is inserted: there are no items yet.
LEMMA CreateBatchStep ==
  ASSUME BooksInv, NEW c \in Requests, HandleCreateBatch(c)
  PROVE  BooksInv'
<1> BookRows /\ BatchInv /\ ReferenceInv BY DEF BooksInv
<1> DEFINE items == Req(c).items
           row == [biz |-> Req(c).biz, total |-> TotalCents(items), count |-> Len(items),
                   by |-> Req(c).user, status |-> "draft", approver |-> None]
<1>1. request[c].pc = "new" /\ Req(c).op = "createBatch" /\ DOMAIN db = BookTables
  BY DEF HandleCreateBatch, Begins, BookRows
<1>2. db' = [db EXCEPT !.batches = Insert(db.batches, c, row)] /\ Moves(c, "insertItem")
  BY DEF HandleCreateBatch, CreateBatch
<1>3. OwnWork(c) /\ request'[c].pc = "insertItem" /\ request'[c].next = request[c].next
  BY <1>1, <1>2, MovesFacts DEF BookOp
<1>4. c \notin DOMAIN db.batches /\ ListItems(c) = {} /\ request[c].next = 1 BY <1>1 DEF BatchInv
<1>5. /\ row.total = TotalCents(items) /\ row.count = Len(items) /\ row.status = "draft" /\ row.approver = None
      /\ DOMAIN row = BatchColumns
  BY DEF BatchColumns
<1>6. /\ TablesBut({"batches"}) /\ DOMAIN db'.batches = DOMAIN db.batches \cup {c} /\ db'.batches[c] = row
      /\ \A i \in DOMAIN db.batches : db'.batches[i] = db.batches[i]
  <2> HIDE DEF row
  <2>1. TablesBut({"batches"}) /\ db'.batches = Insert(db.batches, c, row) BY <1>1, <1>2 DEF TablesBut, BookTables
  <2> QED BY <1>4, <2>1 DEF Insert
<1> HIDE DEF row
<1>7. db'.items = db.items /\ db'.categories = db.categories /\ \A t \in Named : db'[t] = db[t]
  BY <1>6 DEF TablesBut, BookTables, Named
<1>8. \A i : ListItems(i)' = ListItems(i) BY <1>7 DEF ListItems
<1>9. Req(c)' = Req(c) /\ Req(c) = Form[c] BY <1>3, FormsStay
<1>10. BatchOf(c)'
  <2>1. Len(items) \in Nat BY <1>1, <1>9, BookFormAssumption
  <2>2. TotalCents(items)' = TotalCents(items) BY <1>9 DEF TotalCents, SumOf
  <2>3. SumOf(LAMBDA x : db.items[x].cents, ListItems(c))' = 0 BY <1>4, <1>8, SumEmpty DEF SumOf
  <2>4. 1 .. request'[c].next - 1 = {} BY <1>3, <1>4
  <2>5. SumOf(LAMBDA n : Req(c).items[n].cents, 1 .. request[c].next - 1)' = 0
    BY <2>4, SumEmpty DEF SumOf
  <2>6. IsFiniteSet({}) /\ Cardinality({}) = 0 BY FS_EmptySet
  <2>7. request'[c].next \in 1 .. Len(items) + 1 /\ request'[c].next - 1 = 0 BY <1>3, <1>4, <2>1
  <2> QED BY <1>3, <1>4, <1>5, <1>6, <1>8, <1>9, <2>2, <2>3, <2>5, <2>6, <2>7 DEF BatchOf
<1>11. BatchInv' BY <1>1, <1>3, <1>6, <1>7, <1>8, <1>10, OtherBatches
<1>12. ReferenceInv'
  <2>1. \A t \in Named : \A x \in DOMAIN db'[t] : CategoryKnown(db[t][x].category)' BY <1>7, StillKnown
  <2>2. \A i \in DOMAIN db'.batches :
          db'.batches[i].status \in {"approved", "processing"} <=> db'.batches[i].approver # None
    <3>1. \A i \in DOMAIN db.batches :
            db.batches[i].status \in {"approved", "processing"} <=> db.batches[i].approver # None
      BY DEF ReferenceInv, RefersToWhatExists
    <3> QED BY <1>5, <1>6, <3>1
  <2> QED BY <1>3, <1>6, <2>1, <2>2, ReferenceStep
<1>13. \A i \in DOMAIN db'.batches : DOMAIN db'.batches[i] = BatchColumns BY <1>5, <1>6 DEF BookRows
<1> QED BY <1>3, <1>6, <1>11, <1>12, <1>13, OnBatches DEF TablesBut

\* One item more: the sum of the items is that of the forms so far.
LEMMA CreateItemsStep ==
  ASSUME BooksInv, NEW c \in Requests, CreateItems(c)
  PROVE  BooksInv'
<1> BookRows /\ BatchInv /\ ReferenceInv BY DEF BooksInv
<1> DEFINE items == Req(c).items
           n == request[c].next
           row == items[n]
           key == <<c, n>>
           accepted == PositiveCents(items)
<1>1. request[c].pc = "insertItem" /\ Req(c).op = "createBatch" /\ DOMAIN db = BookTables
  BY DEF CreateItems, Reached, BookRows, BookOp
<1>2. BatchOf(c) BY <1>1 DEF BatchInv
<1>3. Req(c) = Form[c] BY BookRequest
<1>4. Len(items) \in Nat /\ DOMAIN items = 1 .. Len(items) /\ \A m \in DOMAIN items : items[m].cents \in Int
  BY <1>1, <1>3, BookFormAssumption
<1>5. n \in 1 .. Len(items) + 1 BY <1>2 DEF BatchOf
<1>6. InsertNext(c, items, "items", accepted) BY DEF CreateItems
<1>7. CASE JustEnds(c) /\ db' = db /\ TablesBut({}) /\ (request'[c].pc = "done" => n > Len(items))
  <2>1. request'[c].pc = "done" => n = Len(items) + 1 BY <1>4, <1>5, <1>7
  <2> QED BY <1>1, <1>7, <2>1, QuietStep DEF JustEnds, TablesBut
<1>8. CASE /\ OwnWork(c) /\ request'[c].pc = request[c].pc /\ request'[c].next = n + 1 /\ ~(n > Len(items))
           /\ CategoryKnown(row.category) /\ TablesBut({"items"}) /\ db'.items = Insert(db.items, key, row)
  <2>1. n \in 1 .. Len(items) /\ n \in Nat /\ row.cents \in Int BY <1>4, <1>5, <1>8
  <2>2. key[1] = c /\ key[2] = n OBVIOUS
  <2>3. key \notin DOMAIN db.items
    <3>1. \A x \in ListItems(c) : x[2] \in 1 .. n - 1 BY <1>2 DEF BatchOf
    <3>2. key \notin ListItems(c) BY <2>1, <2>2, <3>1
    <3> QED BY <2>2, <3>2 DEF ListItems
  <2> HIDE DEF row, key
  <2>4. /\ DOMAIN db'.items = DOMAIN db.items \cup {key} /\ db'.items[key] = row
        /\ \A x \in DOMAIN db.items : db'.items[x] = db.items[x]
    BY <1>8, <2>3 DEF Insert
  <2>5. ListItems(c)' = ListItems(c) \cup {key} /\ key \notin ListItems(c) BY <2>2, <2>3, <2>4 DEF ListItems
  <2>6. \A i : i # c => ListItems(i)' = ListItems(i) BY <2>2, <2>4 DEF ListItems
  <2>7. Req(c)' = Req(c) BY <1>8, FormsStay
  <2>8. db'.batches = db.batches /\ db'.categories = db.categories BY <1>8 DEF TablesBut, BookTables
  <2>9. /\ \A x \in ListItems(c) : x[2] \in 1 .. n - 1 /\ db.items[x].cents \in Int
        /\ IsFiniteSet(ListItems(c)) /\ Cardinality(ListItems(c)) = n - 1
    BY <1>2 DEF BatchOf
  <2>10. IsFiniteSet(ListItems(c)') /\ Cardinality(ListItems(c)') = n
    <3>1. IsFiniteSet(ListItems(c)') /\ Cardinality(ListItems(c)') = Cardinality(ListItems(c)) + 1
      BY <2>5, <2>9, FS_AddElement
    <3> QED BY <2>1, <2>9, <3>1
  <2>11. SumFunctionOnSet([x \in ListItems(c)' |-> db'.items[x].cents], ListItems(c)')
           = SumFunctionOnSet([x \in ListItems(c) |-> db.items[x].cents], ListItems(c)) + row.cents
    <3> DEFINE f == [x \in ListItems(c) |-> db.items[x].cents]
               R == ListItems(c) \cup {key}
               g == [x \in R |-> db'.items[x].cents]
    <3>1. \A x \in ListItems(c) : f[x] \in Int /\ g[x] = f[x] BY <2>4, <2>9 DEF ListItems
    <3>2. g[key] = row.cents BY <2>4
    <3>3. SumFunctionOnSet(g, ListItems(c) \cup {key}) = SumFunctionOnSet(f, ListItems(c)) + row.cents
      <4> HIDE DEF f, g
      <4> QED BY <2>1, <2>5, <2>9, <3>1, <3>2, SumOneMore
    <3> QED BY <2>5, <3>3
  <2>12. SumFunctionOnSet([m \in 1 .. n |-> items[m].cents], 1 .. n)
           = SumFunctionOnSet([m \in 1 .. n - 1 |-> items[m].cents], 1 .. n - 1) + row.cents
    <3> DEFINE S == 1 .. n - 1
               f == [m \in S |-> items[m].cents]
               g == [m \in 1 .. n |-> items[m].cents]
    <3>1. 1 .. n = S \cup {n} /\ n \notin S /\ S \subseteq DOMAIN items BY <1>4, <2>1
    <3>2. \A m \in S : f[m] \in Int /\ g[m] = f[m] BY <1>4, <3>1
    <3>3. g[n] = row.cents BY <2>1 DEF row
    <3>4. IsFiniteSet(S)
      <4>1. 1 \in Int /\ n - 1 \in Int BY <2>1
      <4> QED BY <4>1, FS_Interval
    <3>5. SumFunctionOnSet(g, S \cup {n}) = SumFunctionOnSet(f, S) + row.cents
      <4> HIDE DEF f, g, S, n
      <4> QED BY <2>1, <3>1, <3>2, <3>3, <3>4, SumOneMore
    <3> QED BY <3>1, <3>5
  <2>13. SumFunctionOnSet([x \in ListItems(c) |-> db.items[x].cents], ListItems(c))
           = SumFunctionOnSet([m \in 1 .. n - 1 |-> items[m].cents], 1 .. n - 1)
    BY <1>2 DEF BatchOf, SumOf
  <2>14. BatchOf(c)'
    <3>1. request'[c].next - 1 = n /\ request'[c].next \in 1 .. Len(items) + 1 BY <1>4, <1>8, <2>1
    <3>2. \A x \in ListItems(c)' : x[2] \in 1 .. n /\ db'.items[x].cents \in Int
      <4>1. \A x \in ListItems(c) : x[2] \in 1 .. n /\ db'.items[x].cents \in Int
        BY <2>1, <2>4, <2>9 DEF ListItems
      <4> QED BY <2>1, <2>2, <2>4, <2>5, <4>1
    <3>3. TotalCents(items)' = TotalCents(items) BY <2>7 DEF TotalCents, SumOf
    <3>4. SumOf(LAMBDA x : db.items[x].cents, ListItems(c))' = SumFunctionOnSet([m \in 1 .. n |-> items[m].cents], 1 .. n)
      BY <2>11, <2>12, <2>13 DEF SumOf
    <3>5. SumOf(LAMBDA m : Req(c).items[m].cents, 1 .. request[c].next - 1)'
            = SumFunctionOnSet([m \in 1 .. n |-> items[m].cents], 1 .. n)
      BY <2>7, <3>1 DEF SumOf
    <3>6. c \in DOMAIN db.batches /\ db.batches[c].total = TotalCents(items) /\ db.batches[c].count = Len(items)
      BY <1>2 DEF BatchOf
    <3>7. /\ c \in DOMAIN db'.batches /\ db'.batches[c].total = TotalCents(Req(c).items)'
          /\ db'.batches[c].count = Len(Req(c)'.items)
      BY <2>7, <2>8, <3>3, <3>6
    <3>8. /\ request'[c].next \in 1 .. Len(Req(c)'.items) + 1
          /\ request'[c].pc = "done" => request'[c].next = Len(Req(c)'.items) + 1
      BY <1>1, <1>8, <2>7, <3>1
    <3>9. SumOf(LAMBDA x : db.items[x].cents, ListItems(c))'
            = SumOf(LAMBDA m : Req(c).items[m].cents, 1 .. request[c].next - 1)'
      BY <3>4, <3>5
    <3> QED BY <2>10, <3>1, <3>2, <3>7, <3>8, <3>9 DEF BatchOf, SumOf
  <2>15. c \in DOMAIN db.batches BY <1>2 DEF BatchOf
  <2>16. BatchInv' BY <1>1, <1>8, <2>4, <2>6, <2>8, <2>14, <2>15, OtherBatches
  <2>17. \A s \in Named : \A x \in DOMAIN db'[s] : CategoryKnown(db[s][x].category)' BY <1>8, RowNamed DEF Named
  <2>18. ReferenceInv' BY <1>1, <1>8, <2>8, <2>17, ReferenceStep DEF ReferenceInv, RefersToWhatExists
  <2> QED BY <1>1, <1>8, <2>8, <2>16, <2>18, OnBatches DEF TablesBut, BookRows
<1> QED
  <2>1. "items" \in {"lines", "items"} /\ request[c].pc \in {"insertLine", "insertItem"} BY <1>1
  <2>2. \/ /\ JustEnds(c) /\ db' = db /\ TablesBut({}) /\ (request'[c].pc = "done" => n > Len(items))
        \/ /\ OwnWork(c) /\ request'[c].pc = request[c].pc /\ request'[c].next = n + 1
           /\ ~(n > Len(items)) /\ n \in accepted /\ CategoryKnown(row.category) /\ TablesBut({"items"})
           /\ db'["items"] = Insert(db["items"], key, row)
    <3> HIDE DEF items, accepted
    <3> QED BY <1>6, <2>1, InsertNextRow
  <2> HIDE DEF items, accepted, key, row, n
  <2> QED BY <1>7, <1>8, <2>2

\* A batch changes its status, and has an approver from its approval on.
Stamped(i, status, user) ==
  /\ DOMAIN db'.batches = DOMAIN db.batches
  /\ \A j \in DOMAIN db.batches : db'.batches[j] =
       IF j = i THEN [db.batches[j] EXCEPT !.status = status, !.approver = user] ELSE db.batches[j]
LEMMA BatchStatusStep ==
  ASSUME BooksInv, NEW c \in Requests, JustEnds(c), Req(c).op # "createBatch", TablesBut({"batches"}),
         NEW i, NEW status \in {"approved", "processing"}, NEW user, user # None, Stamped(i, status, user)
  PROVE  BooksInv'
<1> BookRows /\ BatchInv /\ ReferenceInv BY DEF BooksInv
<1>1. OwnWork(c) /\ request'[c].pc \in {"done", "failed"} BY DEF JustEnds
<1>2. db'.items = db.items /\ db'.categories = db.categories /\ \A t \in Named : db'[t] = db[t]
  BY DEF TablesBut, BookTables, Named
<1>3. \A j \in DOMAIN db.batches : DOMAIN db.batches[j] = BatchColumns BY DEF BookRows
<1>4. \A j \in DOMAIN db.batches :
        /\ DOMAIN db'.batches[j] = BatchColumns
        /\ db'.batches[j].total = db.batches[j].total /\ db'.batches[j].count = db.batches[j].count
        /\ IF j = i THEN db'.batches[j].status = status /\ db'.batches[j].approver = user
           ELSE db'.batches[j] = db.batches[j]
  BY <1>3 DEF BatchColumns, Stamped
<1>5. BatchInv' BY <1>1, <1>2, <1>4, BatchFrame DEF Stamped
<1>6. \A j \in DOMAIN db.batches :
        db.batches[j].status \in {"approved", "processing"} <=> db.batches[j].approver # None
  BY DEF ReferenceInv, RefersToWhatExists
<1>7. \A j \in DOMAIN db'.batches :
        /\ db'.batches[j].status \in {"approved", "processing"} <=> db'.batches[j].approver # None
        /\ db.batches[j].approver # None => db'.batches[j].approver # None
  BY <1>4, <1>6 DEF Stamped
<1>8. \A t \in Named : \A x \in DOMAIN db'[t] : CategoryKnown(db[t][x].category)' BY <1>2, StillKnown
<1>9. ReferenceInv' BY <1>1, <1>7, <1>8, ReferenceStep DEF Stamped
<1> QED BY <1>1, <1>4, <1>5, <1>9, OnBatches DEF TablesBut, Stamped

LEMMA BatchesStep ==
  ASSUME BooksInv, NEW c \in Requests, Batches(c)
  PROVE  BooksInv'
<1> BookRows /\ BatchInv /\ ReferenceInv BY DEF BooksInv
<1> DEFINE i == Req(c).id
<1>1. /\ DOMAIN db = BookTables /\ \A j \in DOMAIN db.batches : DOMAIN db.batches[j] = BatchColumns
      /\ "batches" \in BookTables
  BY DEF BookRows, BookTables
<1>2. CASE HandleApproveBatch(c)
  <2>1. request[c].pc = "new" /\ Req(c).op = "approveBatch" BY <1>2 DEF HandleApproveBatch, Begins
  <2>2. JustEnds(c) BY <1>2, <2>1, EndsFacts DEF HandleApproveBatch
  <2>3. CASE db' = db BY <1>1, <2>1, <2>2, <2>3, QuietStep DEF JustEnds, TablesBut
  <2>4. CASE i \in DOMAIN db.batches
             /\ db' = [db EXCEPT !.batches[i].status = "approved", !.batches[i].approver = Req(c).user]
    <3> DEFINE user == Req(c).user
    <3>1. user # None BY <2>1, BookRequest, BookFormAssumption DEF None
    <3> HIDE DEF i, user
    <3>2. /\ TablesBut({"batches"})
          /\ db'.batches = [db.batches EXCEPT ![i].status = "approved", ![i].approver = user]
      BY <1>1, <2>4 DEF TablesBut, user
    <3>3. Stamped(i, "approved", user) BY <2>4, <3>2 DEF Stamped
    <3> QED BY <2>1, <2>2, <3>1, <3>2, <3>3, BatchStatusStep
  <2> QED BY <1>2, <2>3, <2>4 DEF HandleApproveBatch, ApproveBatch, Has
<1>3. CASE UpdateBatchStatus(c)
  <2>1. request[c].pc = "markProcessing" /\ Req(c).op = "processBatch" BY <1>3 DEF UpdateBatchStatus, Reached, BookRows, BookOp
  <2>2. JustEnds(c) BY <1>3, <2>1, EndsFacts DEF UpdateBatchStatus
  <2>3. i \in DOMAIN db.batches /\ db.batches[i].approver # None BY <2>1 DEF ReferenceInv, Has
  <2>4. db' = [db EXCEPT !.batches[i].status = "processing"] BY <1>3 DEF UpdateBatchStatus
  <2> DEFINE user == db.batches[i].approver
  <2> HIDE DEF i
  <2>5. TablesBut({"batches"}) /\ db'.batches = [db.batches EXCEPT ![i].status = "processing"]
    BY <1>1, <2>4 DEF TablesBut
  <2>6. Stamped(i, "processing", user)
    <3>1. [db.batches[i] EXCEPT !.status = "processing", !.approver = user] = [db.batches[i] EXCEPT !.status = "processing"]
      BY <1>1, <2>3 DEF BatchColumns
    <3> QED BY <2>3, <2>5, <3>1 DEF Stamped
  <2>7. user # None BY <2>3
  <2> HIDE DEF user
  <2> QED BY <2>1, <2>2, <2>5, <2>6, <2>7, BatchStatusStep
<1>4. CASE HandleProcessBatch(c)
  <2>1. request[c].pc = "new" /\ Req(c).op = "processBatch" /\ db' = db BY <1>4 DEF HandleProcessBatch, Begins
  <2>2. TablesBut({}) BY <1>1, <2>1 DEF TablesBut
  <2>3. CASE Ends(c, FALSE)
    <3>1. JustEnds(c) BY <2>1, <2>3, EndsFacts
    <3> QED BY <2>1, <2>2, <3>1, QuietStep DEF JustEnds, TablesBut
  <2>4. CASE i \in DOMAIN db.batches /\ db.batches[i].status = "approved" /\ Moves(c, "markProcessing")
    <3>1. OwnWork(c) /\ request'[c].pc = "markProcessing" /\ request'[c].next = request[c].next
      BY <2>1, <2>4, MovesFacts DEF BookOp
    <3>2. db.batches[i].approver # None BY <2>4 DEF ReferenceInv, RefersToWhatExists
    <3>3. BatchInv' BY <2>1, <3>1, BatchFrame
    <3>4. \A t \in Named : \A x \in DOMAIN db'[t] : CategoryKnown(db[t][x].category)' BY <2>1, StillKnown
    <3>5. Has(db'.batches, Req(c).id) /\ db'.batches[Req(c).id].approver # None BY <2>1, <2>4, <3>2 DEF Has
    <3>6. \A j \in DOMAIN db.batches :
            db.batches[j].status \in {"approved", "processing"} <=> db.batches[j].approver # None
      BY DEF ReferenceInv, RefersToWhatExists
    <3> HIDE DEF i
    <3>7. ReferenceInv' BY <2>1, <3>1, <3>4, <3>5, <3>6, ReferenceStep
    <3> QED BY <1>1, <2>1, <2>2, <3>1, <3>3, <3>7, OnBatches DEF TablesBut
  <2> QED BY <1>4, <2>3, <2>4 DEF HandleProcessBatch, Has
<1> QED BY <1>2, <1>3, <1>4, CreateBatchStep, CreateItemsStep DEF Batches

-----------------------------------------------------------------------------
(* Categories and labels.                                                  *)

LEMMA OnCategories ==
  ASSUME BooksInv, NEW c \in Requests, NEW op, Begins(c, op), op # "createBatch", NEW ok, Ends(c, ok),
         TablesBut({"categories", "labels"}),
         \A t \in Named : \A x \in DOMAIN db'[t] : CategoryKnown(db[t][x].category)'
  PROVE  BooksInv'
<1> BookRows /\ NumbersInv /\ PaidInv /\ BatchInv /\ ReferenceInv BY DEF BooksInv
<1>1. request[c].pc = "new" /\ Req(c).op # "createBatch" BY DEF Begins
<1>2. JustEnds(c) BY <1>1, EndsFacts
<1>3. OwnWork(c) /\ request'[c].pc \in {"done", "failed"} /\ request'[c].next = request[c].next BY <1>2 DEF JustEnds
<1>4. DOMAIN db' = BookTables /\ db'.invoices = db.invoices /\ db'.batches = db.batches /\ db'.items = db.items
  BY DEF TablesBut, BookTables
<1>5. BookRows' BY <1>3, <1>4, RowsFrame DEF BookRows
<1>6. NumbersInv' BY <1>3, <1>4, NumbersFrame
<1>7. PaidInv' BY <1>3, <1>4, PaidFrame
<1>8. BatchInv' BY <1>1, <1>3, <1>4, BatchFrame
<1>9. ReferenceInv' BY <1>3, <1>4, ReferenceStep DEF ReferenceInv, RefersToWhatExists
<1> QED BY <1>5, <1>6, <1>7, <1>8, <1>9 DEF BooksInv

LEMMA LabelsStep ==
  ASSUME BooksInv, NEW c \in Requests, Labels(c)
  PROVE  BooksInv'
<1> ReferenceInv /\ DOMAIN db = BookTables BY DEF BooksInv, BookRows
<1> DEFINE Kept == \A t \in Named : \A x \in DOMAIN db'[t] : CategoryKnown(db[t][x].category)'
           Mine == TablesBut({"categories", "labels"})
<1>1. \A t \in Named : \A x \in DOMAIN db[t] : CategoryKnown(db[t][x].category)
  BY DEF ReferenceInv, RefersToWhatExists, Named
<1>2. ASSUME db' = db PROVE Kept /\ Mine
  <2>1. Kept BY <1>2, StillKnown
  <2> QED BY <1>2, <2>1 DEF TablesBut
<1>3. CASE HandleCreateCategory(c)
  <2>1. PICK row : db' = [db EXCEPT !.categories = Insert(db.categories, c, row)] BY <1>3 DEF HandleCreateCategory
  <2>2. /\ Mine /\ DOMAIN db.categories \subseteq DOMAIN db'.categories /\ \A t \in Named : db'[t] = db[t]
    BY <2>1 DEF TablesBut, BookTables, Insert, Named
  <2>3. Kept BY <2>2, StillKnown
  <2>4. Begins(c, "createCategory") /\ Ends(c, TRUE) BY <1>3 DEF HandleCreateCategory
  <2> QED BY <2>2, <2>3, <2>4, OnCategories
<1>4. CASE HandleUpdateCategory(c)
  <2>1. Begins(c, "updateCategory") /\ Ends(c, Editable(Req(c).id)) BY <1>4 DEF HandleUpdateCategory
  <2>2. CASE db' = db BY <1>2, <2>1, <2>2, OnCategories
  <2>3. CASE db' = [db EXCEPT !.categories[Req(c).id].name = Req(c).name]
    <3>1. Mine /\ DOMAIN db.categories \subseteq DOMAIN db'.categories /\ \A t \in Named : db'[t] = db[t]
      BY <2>3 DEF TablesBut, BookTables, Named
    <3>2. Kept BY <3>1, StillKnown
    <3> QED BY <2>1, <3>1, <3>2, OnCategories
  <2> QED BY <1>4, <2>2, <2>3 DEF HandleUpdateCategory, UpdateCategory
<1>5. CASE HandleDeleteCategory(c)
  <2> DEFINE i == Req(c).id
  <2>1. PICK ok : Begins(c, "deleteCategory") /\ Ends(c, ok) BY <1>5 DEF HandleDeleteCategory
  <2>2. CASE db' = db BY <1>2, <2>1, <2>2, OnCategories
  <2>3. CASE ~Referenced(i) /\ db' = [db EXCEPT !.categories = Without(db.categories, {i})]
    <3> HIDE DEF i
    <3>1. Mine /\ DOMAIN db'.categories = DOMAIN db.categories \ {i} /\ \A t \in Named : db'[t] = db[t]
      BY <2>3 DEF TablesBut, BookTables, Named, Without, Restrict
    <3>2. \A t \in Named : \A x \in DOMAIN db[t] : db[t][x].category # i BY <2>3 DEF Referenced, Named
    <3>3. Kept BY <1>1, <3>1, <3>2 DEF CategoryKnown, Has
    <3> QED BY <2>1, <3>1, <3>3, OnCategories
  <2> QED BY <1>5, <2>2, <2>3 DEF HandleDeleteCategory, DeleteCategory
<1>6. CASE HandleLabelTransaction(c)
  <2>1. PICK ok : Begins(c, "label") /\ Ends(c, ok) BY <1>6 DEF HandleLabelTransaction
  <2>2. CASE db' = db BY <1>2, <2>1, <2>2, OnCategories
  <2>3. CASE LabelAllowed(Req(c)) /\ db' = [db EXCEPT !.labels = CreateLabel(c)]
    <3> DEFINE row == [tx |-> Req(c).tx, category |-> Req(c).category, deductible |-> Req(c).deductible]
    <3>1. CategoryKnown(row.category) BY <2>3 DEF LabelAllowed
    <3>2. TablesBut({"labels"}) /\ db'.labels = Insert(db.labels, c, row) BY <2>3 DEF TablesBut, BookTables, CreateLabel
    <3> HIDE DEF row
    <3>3. "labels" \in Named BY DEF Named
    <3>4. Kept BY <3>1, <3>2, <3>3, RowNamed
    <3>5. Mine BY <3>2 DEF TablesBut
    <3> QED BY <2>1, <3>4, <3>5, OnCategories
  <2> QED BY <1>6, <2>2, <2>3 DEF HandleLabelTransaction
<1>7. CASE HandleUpdateLabel(c)
  <2>1. PICK ok : Begins(c, "updateLabel") /\ Ends(c, ok) BY <1>7 DEF HandleUpdateLabel
  <2>2. CASE db' = db BY <1>2, <2>1, <2>2, OnCategories
  <2>3. CASE CategoryKnown(Req(c).category) /\ db' = UpdateLabels(Req(c).tx, Req(c).category, Req(c).deductible)
    <3> DEFINE row == [tx |-> Req(c).tx, category |-> Req(c).category, deductible |-> Req(c).deductible]
    <3>1. CategoryKnown(row.category) BY <2>3
    <3>2. db' = [db EXCEPT !.labels = [l \in DOMAIN db.labels |-> IF l \in LabelsOf(Req(c).tx) THEN row ELSE db.labels[l]]]
      BY <2>3 DEF UpdateLabels
    <3> HIDE DEF row
    <3>3. /\ Mine /\ db'.categories = db.categories /\ DOMAIN db'.labels = DOMAIN db.labels
          /\ \A t \in Named : t # "labels" => db'[t] = db[t]
          /\ \A l \in DOMAIN db.labels : db'.labels[l] = row \/ db'.labels[l] = db.labels[l]
      BY <3>2 DEF TablesBut, BookTables, Named
    <3>4. \A l \in DOMAIN db'.labels : CategoryKnown(db'.labels[l].category) BY <1>1, <3>1, <3>3 DEF Named
    <3>5. \A l \in DOMAIN db'.labels : CategoryKnown(db.labels[l].category)' BY <3>3, <3>4 DEF CategoryKnown, Has
    <3>6. Kept BY <3>3, <3>5, StillKnown
    <3> QED BY <2>1, <3>3, <3>6, OnCategories
  <2> QED BY <1>7, <2>2, <2>3 DEF HandleUpdateLabel
<1>8. CASE HandleDeleteLabel(c)
  <2>1. PICK ok : Begins(c, "deleteLabel") /\ Ends(c, ok) BY <1>8 DEF HandleDeleteLabel
  <2>2. PICK gone : db' = [db EXCEPT !.labels = Without(db.labels, gone)] BY <1>8 DEF HandleDeleteLabel
  <2>3. /\ Mine /\ db'.categories = db.categories /\ DOMAIN db'.labels = DOMAIN db.labels \ gone
        /\ \A t \in Named : t # "labels" => db'[t] = db[t]
        /\ \A l \in DOMAIN db'.labels : db'.labels[l] = db.labels[l]
    BY <2>2 DEF TablesBut, BookTables, Named, Without, Restrict
  <2>4. \A l \in DOMAIN db'.labels : CategoryKnown(db.labels[l].category)'
    BY <1>1, <2>3 DEF Named, CategoryKnown, Has
  <2>5. Kept BY <2>3, <2>4, StillKnown
  <2> QED BY <2>1, <2>3, <2>5, OnCategories
<1> QED BY <1>3, <1>4, <1>5, <1>6, <1>7, <1>8 DEF Labels

-----------------------------------------------------------------------------
LEMMA BooksStart == BooksInit => BooksInv
<1> SUFFICES ASSUME BooksInit PROVE BooksInv OBVIOUS
<1> USE DEF BooksInit
<1>1. \A c \in Requests : /\ DOMAIN request[c] = {"pc", "ask", "seen", "next", "of"} /\ request[c].ask = Form[c]
                          /\ request[c].pc = "new" /\ request[c].next = 1
  OBVIOUS
<1>2. db = Opening /\ DOMAIN request = Requests OBVIOUS
<1>3. BookRows
  <2>1. "new" \notin DOMAIN BookOp BY DEF BookOp
  <2> QED BY <1>1, <1>2, <2>1, BookOpeningAssumption DEF BookRows
<1>4. NumbersInv
  <2>1. IsFiniteSet(DOMAIN db.invoices) /\ \A c \in Requests : c \notin DOMAIN db.invoices
    BY <1>2, BookOpeningAssumption, BookFormAssumption
  <2> HIDE DEF BooksInit
  <2>2. ASSUME NEW b \in Businesses
        PROVE  {db.invoices[i].number : i \in OfBusiness(db.invoices, b)} = 1 .. Cardinality(OfBusiness(db.invoices, b))
    <3>1. OfBusiness(db.invoices, b) = {i \in DOMAIN Opening.invoices : Opening.invoices[i].biz = b}
      BY <1>2, Zenon DEF OfBusiness
    <3>2. b \in DOMAIN OwnerOf BY DEF Businesses
    <3>3. {Opening.invoices[i].number : i \in {j \in DOMAIN Opening.invoices : Opening.invoices[j].biz = b}}
            = 1 .. Cardinality({j \in DOMAIN Opening.invoices : Opening.invoices[j].biz = b})
      BY <3>2, BookOpeningAssumption
    <3> QED BY <3>1, <3>3, <1>2, Zenon
  <2>3. NumbersHaveNoGap BY <2>2, Zenon DEF NumbersHaveNoGap
  <2> QED BY <1>1, <2>1, <2>3 DEF NumbersInv
<1>5. PaidInv
  <2>1. ASSUME NEW i \in DOMAIN db.invoices PROVE Explained(i, db.invoices[i].paid)
    <3>1. PaidBy({}) = 0 BY SumEmpty DEF PaidBy
    <3>2. PaidAtStart(i) = db.invoices[i].paid /\ PaidAtStart(i) \in Int BY <1>2, BookOpeningAssumption DEF PaidAtStart, Has
    <3>3. db.invoices[i].paid = PaidBy({}) + PaidAtStart(i) /\ {} \in SUBSET Over(i) BY <3>1, <3>2
    <3>4. \E S \in SUBSET Over(i) : db.invoices[i].paid = PaidBy(S) + PaidAtStart(i) BY <3>3
    <3> QED BY <1>3, <3>4, ExplainedAs
  <2> QED BY <1>1, <2>1 DEF PaidInv
<1>6. BatchInv
  <2>1. \A c \in Requests : c \notin DOMAIN db.batches /\ ListItems(c) = {} BY <1>2, BookFormAssumption DEF ListItems
  <2>2. \A i \in DOMAIN db.batches : Cardinality(ListItems(i)) <= db.batches[i].count
    BY <1>2, BookOpeningAssumption DEF ListItems
  <2> QED BY <1>1, <2>1, <2>2 DEF BatchInv
<1>7. ReferenceInv
  <2>1. RefersToWhatExists BY <1>2, BookOpeningAssumption DEF RefersToWhatExists, CategoryKnown, Has, None
  <2> QED BY <1>1, <2>1 DEF ReferenceInv
<1> QED BY <1>3, <1>4, <1>5, <1>6, <1>7 DEF BooksInv

LEMMA BooksStep ==
  ASSUME BooksInv, [BooksNext]_booksVars
  PROVE  BooksInv'
<1>1. CASE BooksNext
  <2>1. PICK c \in Requests : Invoices(c) \/ Batches(c) \/ TaxAndDocuments(c) \/ Labels(c) \/ Loans(c) \/ Dies(c)
    BY <1>1 DEF BooksNext
  <2> QED BY <2>1, InvoicesStep, BatchesStep, TaxAndDocumentsStep, LabelsStep, LoansStep, DiesStep
<1>2. CASE UNCHANGED booksVars
  <2> db' = db /\ request' = request BY <1>2 DEF booksVars
  <2>1. BookRows' BY DEF BooksInv, BookRows, Req
  <2>2. NumbersInv'
    <3>1. NumbersHaveNoGap' <=> NumbersHaveNoGap BY DEF NumbersHaveNoGap, OfBusiness
    <3>2. \A c \in Requests : NextInvoiceNumber(Req(c).biz)' = NextInvoiceNumber(Req(c).biz)
      BY DEF NextInvoiceNumber, OfBusiness, Req
    <3> QED BY <3>1, <3>2 DEF BooksInv, NumbersInv
  <2>3. PaidInv'
    <3>1. ASSUME NEW i, NEW p PROVE Explained(i, p)' <=> Explained(i, p) BY Zenon DEF Explained, Over, SumOf, Req
    <3>2. \A i \in DOMAIN db.invoices : Explained(i, db.invoices[i].paid)' BY <3>1 DEF BooksInv, PaidInv
    <3>3. \A c \in Requests : request[c].pc = "writePaid" => Explained(Req(c).id, request[c].seen)'
      BY <3>1 DEF BooksInv, PaidInv, Req
    <3> QED BY <3>2, <3>3 DEF BooksInv, PaidInv, Has, Req
  <2>4. BatchInv'
    <3>1. \A i : ListItems(i)' = ListItems(i) BY DEF ListItems
    <3>2. ASSUME NEW c \in Requests PROVE BatchOf(c)' <=> BatchOf(c)
      BY Zenon DEF BatchOf, TotalCents, ListItems, SumOf, Req
    <3> QED BY <3>1, <3>2 DEF BooksInv, BatchInv, Req
  <2>5. ReferenceInv' BY DEF BooksInv, ReferenceInv, RefersToWhatExists, CategoryKnown, Has, Req
  <2> QED BY <2>1, <2>2, <2>3, <2>4, <2>5 DEF BooksInv
<1> QED BY <1>1, <1>2

\* The inductive invariant of the business books: what the overlapping handlers
\* of handlers/business (and the label handlers) have read is still good enough
\* when they write.
THEOREM BooksInvariance == BooksSpec => []BooksInv
<1>1. BooksInv /\ [BooksNext]_booksVars => BooksInv' BY BooksStep
<1> QED BY <1>1, BooksStart, PTL DEF BooksSpec

LEMMA BooksImplied == BooksInv => BooksAddUp
<1> SUFFICES ASSUME BooksInv PROVE BooksAddUp OBVIOUS
<1> BookRows /\ NumbersInv /\ PaidInv /\ BatchInv /\ ReferenceInv BY DEF BooksInv
<1>1. NumbersHaveNoGap BY DEF NumbersInv
<1>2. PaidIsSumOfPayments BY DEF PaidInv, Explained, Over, PaidIsSumOfPayments
<1>3. BatchHoldsItsItems
  <2>1. ASSUME NEW c \in DOMAIN db.batches
        PROVE  /\ Cardinality(ListItems(c)) <= db.batches[c].count
               /\ (c \in Requests /\ request[c].pc = "done") =>
                    /\ SumOf(LAMBDA x : db.items[x].cents, ListItems(c)) = db.batches[c].total
                    /\ Cardinality(ListItems(c)) = db.batches[c].count
    <3>1. CASE c \notin Requests BY <3>1 DEF BatchInv
    <3>2. CASE c \in Requests
      <4> DEFINE items == Req(c).items
      <4>1. BatchOf(c) /\ Req(c).op = "createBatch" BY <3>2 DEF BatchInv
      <4>2. Req(c) = Form[c] BY <3>2, BookRequest
      <4>3. Len(items) \in Nat /\ DOMAIN items = 1 .. Len(items) BY <3>2, <4>1, <4>2, BookFormAssumption
      <4>4. /\ db.batches[c].total = TotalCents(items) /\ db.batches[c].count = Len(items)
            /\ request[c].next \in 1 .. Len(items) + 1 /\ (request[c].pc = "done" => request[c].next = Len(items) + 1)
            /\ Cardinality(ListItems(c)) = request[c].next - 1
        BY <4>1 DEF BatchOf
      <4>5. Cardinality(ListItems(c)) <= db.batches[c].count BY <4>3, <4>4
      <4>6. ASSUME request[c].pc = "done"
            PROVE  /\ SumOf(LAMBDA x : db.items[x].cents, ListItems(c)) = db.batches[c].total
                   /\ Cardinality(ListItems(c)) = db.batches[c].count
        <5>1. request[c].next - 1 = Len(items) BY <4>3, <4>4, <4>6
        <5>2. SumFunctionOnSet([x \in ListItems(c) |-> db.items[x].cents], ListItems(c))
                = SumFunctionOnSet([n \in 1 .. request[c].next - 1 |-> items[n].cents], 1 .. request[c].next - 1)
          BY <4>1 DEF BatchOf, SumOf
        <5>3. TotalCents(items) = SumFunctionOnSet([n \in 1 .. Len(items) |-> items[n].cents], 1 .. Len(items))
          BY <4>3 DEF TotalCents, SumOf
        <5> QED BY <4>4, <5>1, <5>2, <5>3 DEF SumOf
      <4> QED BY <4>5, <4>6
    <3> QED BY <3>1, <3>2
  <2> QED BY <2>1 DEF BatchHoldsItsItems
<1>4. RefersToWhatExists BY DEF ReferenceInv
<1> QED BY <1>1, <1>2, <1>3, <1>4 DEF BooksAddUp

\* However the requests to the business handlers overlap, fail or die between two
\* statements: invoices are numbered without a gap, paid_cents is the sum of some
\* of the payments, none twice, a batch has the items and the total of its header
\* when its creation reported success, and categories in use stay.
THEOREM BooksTheorem == BooksSpec => []BooksAddUp
BY BooksInvariance, BooksImplied, PTL

-----------------------------------------------------------------------------
(***************************************************************************)
(* Payments that are kept.                                                 *)
(***************************************************************************)
\* A request notes what is over when it begins, and only then.
Notes(c) == \/ before' = before
            \/ request[c].pc = "new" /\ before' = [before EXCEPT ![c] = Answered]

\* What is over stays over, and how it overlapped stays as it was.
LEMMA OverStays ==
  ASSUME BookRows, PaymentInv, NEW c \in Requests, OwnWork(c), Notes(c)
  PROVE  /\ Answered' = IF request'[c].pc = "done" THEN Answered \cup {c} ELSE Answered
         /\ c \notin Answered
         /\ DOMAIN before' = Requests /\ \A d \in Requests : d # c => before'[d] = before[d]
         /\ request[c].pc # "new" => before' = before
         /\ \A d \in Requests : before'[d] \subseteq Answered
         /\ \A d, e \in Answered : Overlap(d, e)' <=> Overlap(d, e)
<1>1. c \notin Answered BY DEF Answered, OwnWork
<1>2. Answered' = IF request'[c].pc = "done" THEN Answered \cup {c} ELSE Answered BY DEF Answered, OwnWork
<1>3. DOMAIN before = Requests /\ \A d \in Requests : before[d] \subseteq Answered BY DEF PaymentInv
<1>4. /\ DOMAIN before' = Requests /\ \A d \in Requests : d # c => before'[d] = before[d]
      /\ \A d \in Requests : before'[d] \subseteq Answered
  <2>1. CASE before' = before BY <1>3, <2>1
  <2>2. CASE before' = [before EXCEPT ![c] = Answered] BY <1>3, <2>2
  <2> QED BY <2>1, <2>2 DEF Notes
<1>5. \A d, e \in Answered : Overlap(d, e)' <=> Overlap(d, e)
  <2>1. \A d \in Answered : d \in Requests /\ d # c BY <1>1 DEF Answered
  <2> QED BY <1>4, <2>1 DEF Overlap
<1> QED BY <1>1, <1>2, <1>4, <1>5 DEF Notes

LEMMA CountsAs ==
  ASSUME BookRows, NEW i, NEW P, P \subseteq Requests, NEW paid
  PROVE  CountsAll(i, P, paid) <=>
           \E S \in SUBSET P : /\ paid = PaidBy(S) + PaidAtStart(i)
                               /\ \A c \in P \ S : \E d \in P : Overlap(c, d)
<1>1. ASSUME NEW S \in SUBSET P PROVE SumOf(LAMBDA c : Req(c).cents, S) = PaidBy(S)
  <2>1. [c \in S |-> Req(c).cents] = [c \in S |-> Form[c].cents] BY BookRequest
  <2> QED BY <2>1 DEF SumOf, PaidBy
<1> QED BY <1>1 DEF CountsAll

LEMMA CountsNext ==
  ASSUME BookRows, NEW c \in Requests, OwnWork(c), NEW i, NEW P, P \subseteq Requests, NEW paid,
         NEW S \in SUBSET P, paid = PaidBy(S) + PaidAtStart(i),
         \A d \in P \ S : \E e \in P : Overlap(d, e)'
  PROVE  CountsAll(i, P, paid)'
<1>1. SumFunctionOnSet([d \in S |-> Req(d)'.cents], S) = PaidBy(S)
  <2>1. [d \in S |-> Req(d)'.cents] = [d \in S |-> Form[d].cents] BY FormsStay
  <2> QED BY <2>1 DEF PaidBy
<1>2. \E R \in SUBSET P : /\ paid = SumFunctionOnSet([d \in R |-> Req(d)'.cents], R) + PaidAtStart(i)
                          /\ \A d \in P \ R : \E e \in P : Overlap(d, e)'
  BY <1>1
<1> QED BY <1>2 DEF CountsAll, SumOf

LEMMA CountsStays ==
  ASSUME BookRows, PaymentInv, NEW c \in Requests, OwnWork(c), Notes(c), NEW i, NEW P, P \subseteq Answered, NEW paid,
         CountsAll(i, P, paid)
  PROVE  CountsAll(i, P, paid)'
<1>1. P \subseteq Requests BY DEF Answered
<1>2. PICK S \in SUBSET P : paid = PaidBy(S) + PaidAtStart(i) /\ \A d \in P \ S : \E e \in P : Overlap(d, e)
  BY <1>1, CountsAs
<1>3. \A d \in P \ S : \E e \in P : Overlap(d, e)' BY <1>2, OverStays
<1> QED BY <1>1, <1>2, <1>3, CountsNext

\* The payments and the edits of an invoice.
LEMMA PaymentsNext ==
  ASSUME BookRows, PaymentInv, NEW c \in Requests, OwnWork(c), Notes(c), NEW i
  PROVE  /\ Payments(i) \subseteq Answered /\ Edits(i) \subseteq Answered /\ Edits(i) \subseteq Edits(i)'
         /\ Payments(i)' = IF request'[c].pc = "done" /\ Req(c).op = "recordPayment" /\ Req(c).id = i
                             THEN Payments(i) \cup {c} ELSE Payments(i)
         /\ request'[c].pc = "done" /\ Req(c).op = "updateInvoice" /\ Req(c).id = i => c \in Edits(i)'
<1>1. \A d \in Requests : Req(d)' = Req(d) BY FormsStay
<1>2. Answered \subseteq Requests BY DEF Answered
<1> QED BY <1>1, <1>2, OverStays DEF Payments, Edits

\* A payment under way keeps what it knows, unless the total is edited.
LEMMA UnderWayStays ==
  ASSUME BookRows, PaidInv, PaymentInv, NEW c \in Requests, OwnWork(c), Notes(c),
         NEW d \in Requests, d # c, request'[d].pc = "writePaid", Has(db'.invoices, Req(d).id),
         \/ db'.invoices[Req(d).id].total = db.invoices[Req(d).id].total
         \/ request'[c].pc = "done" /\ Req(c).op = "updateInvoice" /\ Req(c).id = Req(d).id
  PROVE  ReadWell(d)'
<1>1. request'[d] = request[d] /\ Req(d)' = Req(d) /\ before'[d] = before[d]
  BY FormsStay, OverStays DEF OwnWork
<1>2. PICK i : i = Req(d).id OBVIOUS
<1>3. PICK P : P = Payments(i) \cap before[d] OBVIOUS
<1>4. PICK seen : seen = request[d].seen OBVIOUS
<1>5. before[d] \subseteq Answered BY DEF PaymentInv
<1>6. /\ CountsAll(i, P, seen)
      /\ request[d].of = db.invoices[i].total \/ \E e \in Edits(i) : e \notin before[d]
  BY <1>1, <1>2, <1>3, <1>4 DEF PaymentInv, ReadWell
<1>7. P = Payments(i)' \cap before'[d] BY <1>1, <1>3, <1>5, PaymentsNext, OverStays
<1>8. CountsAll(i, P, seen)' BY <1>3, <1>5, <1>6, CountsStays
<1>9. request'[d].of = db'.invoices[i].total \/ \E e \in Edits(i)' : e \notin before'[d]
  <2>1. CASE db'.invoices[i].total = db.invoices[i].total BY <1>1, <1>6, <2>1, PaymentsNext
  <2>2. CASE request'[c].pc = "done" /\ Req(c).op = "updateInvoice" /\ Req(c).id = i
    <3>1. c \in Edits(i)' /\ c \notin before'[d] BY <1>1, <1>5, <2>2, PaymentsNext, OverStays
    <3> QED BY <3>1
  <2> QED BY <1>2, <2>1, <2>2
<1> QED BY <1>1, <1>2, <1>4, <1>7, <1>8, <1>9 DEF ReadWell

\* A row that was there keeps its payments; so does its status, or it says
\* nothing of them.
LEMMA PaymentsFrame ==
  ASSUME BookRows, PaidInv, PaymentInv, NEW c \in Requests, OwnWork(c), Notes(c),
         request'[c].pc # "writePaid", request'[c].pc = "done" => Req(c).op # "recordPayment",
         DOMAIN db.invoices \subseteq DOMAIN db'.invoices,
         \A i \in DOMAIN db'.invoices \ DOMAIN db.invoices :
           db'.invoices[i].paid = 0 /\ db'.invoices[i].status = "draft" /\ ~Has(Opening.invoices, i),
         \A i \in DOMAIN db.invoices :
           /\ db'.invoices[i].paid = db.invoices[i].paid
           /\ \/ db'.invoices[i].total = db.invoices[i].total
              \/ request'[c].pc = "done" /\ Req(c).op = "updateInvoice" /\ Req(c).id = i
           /\ \/ db'.invoices[i] = db.invoices[i]
              \/ db'.invoices[i].status \notin {"paid", "partially_paid"}
  PROVE  PaymentInv'
<1>1. \A i : Payments(i)' = Payments(i) /\ Payments(i) \subseteq Answered BY PaymentsNext
<1>2. \A d \in Answered' : Req(d)'.op = "recordPayment" => Has(db'.invoices, Req(d)'.id)
  <2>1. \A d \in Requests : Req(d)' = Req(d) BY FormsStay
  <2>2. Answered \subseteq Requests BY DEF Answered
  <2> QED BY <2>1, <2>2, OverStays DEF PaymentInv, Has
<1>3. PaymentsAreLostToOverlapsOnly'
  <2>1. ASSUME NEW i \in DOMAIN db'.invoices PROVE CountsAll(i, Payments(i), db.invoices[i].paid)'
    <3>1. PICK paid : paid = db'.invoices[i].paid OBVIOUS
    <3>2. PICK P : P = Payments(i) OBVIOUS
    <3>3. CASE i \in DOMAIN db.invoices
      <4>1. CountsAll(i, P, paid)
        BY <3>1, <3>2, <3>3 DEF PaymentInv, PaymentsAreKept, PaymentsAreLostToOverlapsOnly
      <4>2. CountsAll(i, P, paid)' BY <1>1, <3>2, <4>1, CountsStays
      <4> QED BY <1>1, <3>1, <3>2, <4>2
    <3>4. CASE i \notin DOMAIN db.invoices
      <4>1. P = {} BY <3>2, <3>4 DEF Payments, PaymentInv, Has
      <4>2. PaidBy({}) = 0 /\ PaidAtStart(i) = 0 BY <3>4, SumEmpty DEF PaidBy, PaidAtStart
      <4>3. paid = PaidBy({}) + PaidAtStart(i) /\ {} \in SUBSET P BY <3>1, <3>4, <4>2
      <4>4. CountsAll(i, P, paid)' BY <4>1, <4>3, CountsNext
      <4> QED BY <1>1, <3>1, <3>2, <4>4
    <3> QED BY <3>3, <3>4
  <2> QED BY <2>1 DEF PaymentsAreLostToOverlapsOnly
<1>4. StatusTellsAmounts'
  <2>1. ASSUME NEW i \in DOMAIN db'.invoices, db'.invoices[i].status \in {"paid", "partially_paid"}
        PROVE  \/ db'.invoices[i].status = StatusAfter(db'.invoices[i].paid, db'.invoices[i].total)
               \/ \E d \in Payments(i)', e \in Edits(i)' : Overlap(d, e)'
    <3>1. i \in DOMAIN db.invoices /\ db'.invoices[i] = db.invoices[i] BY <2>1
    <3>2. \/ db.invoices[i].status = StatusAfter(db.invoices[i].paid, db.invoices[i].total)
          \/ \E d \in Payments(i), e \in Edits(i) : Overlap(d, e)
      BY <2>1, <3>1 DEF PaymentInv, PaymentsAreKept, StatusTellsAmounts
    <3> QED BY <1>1, <3>1, <3>2, PaymentsNext, OverStays
  <2> QED BY <2>1 DEF StatusTellsAmounts, StatusAfter
<1>5. ASSUME NEW d \in Requests, request'[d].pc = "writePaid"
      PROVE  ReadWell(d)'
  <2>1. d # c /\ request'[d] = request[d] BY <1>5 DEF OwnWork
  <2>2. Req(d).id \in DOMAIN db.invoices BY <1>5, <2>1 DEF PaidInv, Has
  <2> QED BY <1>5, <2>1, <2>2, UnderWayStays DEF Has
<1>6. DOMAIN before' = Requests /\ \A d \in Requests : before'[d] \subseteq Answered' BY OverStays
<1> QED BY <1>2, <1>3, <1>4, <1>5, <1>6 DEF PaymentInv, PaymentsAreKept

\* Invoices are left alone, and nothing is paid.
LEMMA InvoicesRest ==
  ASSUME BooksInv, PaymentInv, NEW c \in Requests, OwnWork(c), Notes(c), db'.invoices = db.invoices,
         Req(c).op # "recordPayment" \/ request'[c].pc = "failed"
  PROVE  PaymentInv'
<1>1. BookRows /\ PaidInv BY DEF BooksInv
<1>2. request'[c].pc # "writePaid" BY DEF OwnWork, BookOp
<1> QED BY <1>1, <1>2, PaymentsFrame

\* A handler of one statement, on another table.
LEMMA EndsElsewhere ==
  ASSUME BooksInv, PaymentInv, NEW c \in Requests, NEW op, Begins(c, op), op # "recordPayment", NEW ok, Ends(c, ok),
         db'.invoices = db.invoices
  PROVE  PaymentInv'
<1>1. BookRows /\ request[c].pc = "new" /\ Req(c).op = op /\ Notes(c) BY DEF BooksInv, Begins, Notes
<1>2. OwnWork(c) BY <1>1, EndsFacts DEF JustEnds
<1> QED BY <1>1, <1>2, InvoicesRest

LEMMA OtherTables ==
  ASSUME BooksInv, PaymentInv, NEW c \in Requests, TaxAndDocuments(c) \/ Labels(c)
  PROVE  PaymentInv'
<1> DOMAIN db = BookTables BY DEF BooksInv, BookRows
<1> USE DEF BookTables
<1>1. CASE HandleCreateTaxPot(c) BY <1>1, EndsElsewhere DEF HandleCreateTaxPot
<1>2. CASE HandleUpdateTaxPot(c) BY <1>2, EndsElsewhere DEF HandleUpdateTaxPot, UpdateTaxPot
<1>3. CASE HandleDeleteTaxPot(c) BY <1>3, EndsElsewhere DEF HandleDeleteTaxPot
<1>4. CASE HandleCreateDocument(c) BY <1>4, EndsElsewhere DEF HandleCreateDocument
<1>5. CASE HandleUpdateDocument(c) BY <1>5, EndsElsewhere DEF HandleUpdateDocument, UpdateDocument
<1>6. CASE HandleArchiveDocument(c) BY <1>6, EndsElsewhere DEF HandleArchiveDocument, ArchiveDocument
<1>7. CASE HandleCreateCategory(c) BY <1>7, EndsElsewhere DEF HandleCreateCategory
<1>8. CASE HandleUpdateCategory(c) BY <1>8, EndsElsewhere DEF HandleUpdateCategory, UpdateCategory
<1>9. CASE HandleDeleteCategory(c) BY <1>9, EndsElsewhere DEF HandleDeleteCategory, DeleteCategory
<1>10. CASE HandleLabelTransaction(c) BY <1>10, EndsElsewhere DEF HandleLabelTransaction
<1>11. CASE HandleUpdateLabel(c) BY <1>11, EndsElsewhere DEF HandleUpdateLabel, UpdateLabels
<1>12. CASE HandleDeleteLabel(c) BY <1>12, EndsElsewhere DEF HandleDeleteLabel
<1> QED BY <1>1, <1>2, <1>3, <1>4, <1>5, <1>6, <1>7, <1>8, <1>9, <1>10, <1>11, <1>12 DEF TaxAndDocuments, Labels

\* What InsertNext does to the invoices and to the request.
Advances(c, t) ==
  /\ \E new : db' = db \/ db' = [db EXCEPT ![t] = new]
  /\ \/ \E step \in {"done", "failed"} : Moves(c, step)
     \/ request' = [request EXCEPT ![c].next = @ + 1]

LEMMA AdvancesFacts ==
  ASSUME BookRows, NEW c \in Requests, request[c].pc \in {"insertLine", "insertItem"},
         NEW t \in {"lines", "items"}, Advances(c, t)
  PROVE  OwnWork(c) /\ db'.invoices = db.invoices
<1>1. DOMAIN request = Requests /\ DOMAIN request[c] = {"pc", "ask", "seen", "next", "of"} BY BookRequest
<1>2. db'.invoices = db.invoices BY DEF Advances, BookRows, BookTables
<1>3. ASSUME NEW step \in {"done", "failed"}, Moves(c, step) PROVE OwnWork(c)
  <2>1. step \notin DOMAIN BookOp BY DEF BookOp
  <2> QED BY <1>3, <2>1, MovesFacts
<1>4. CASE request' = [request EXCEPT ![c].next = @ + 1]
  <2>1. request'[c] = [request[c] EXCEPT !.next = request[c].next + 1] BY <1>1, <1>4
  <2>2. DOMAIN request' = Requests /\ \A d \in Requests : d # c => request'[d] = request[d] BY <1>1, <1>4
  <2>3. /\ request'[c].pc = request[c].pc /\ request'[c].ask = request[c].ask
        /\ DOMAIN request'[c] = {"pc", "ask", "seen", "next", "of"}
    BY <1>1, <2>1
  <2>4. request[c].pc \in DOMAIN BookOp /\ request[c].pc \notin {"done", "failed"} BY DEF BookOp
  <2>5. Req(c).op = BookOp[request[c].pc] BY <2>4 DEF BookRows
  <2> QED BY <1>2, <2>2, <2>3, <2>4, <2>5 DEF OwnWork
<1> QED BY <1>2, <1>3, <1>4 DEF Advances

\* Handlers of several statements on other tables, and a death.
LEMMA OtherHandlers ==
  ASSUME BooksInv, PaymentInv, NEW c \in Requests,
         Batches(c) \/ Loans(c) \/ Dies(c) \/ HandleCreateInvoice(c) \/ CreateLineItem(c)
  PROVE  PaymentInv'
<1> BookRows BY DEF BooksInv
<1>1. DOMAIN db = BookTables /\ {"invoices", "lines", "items", "batches", "loans"} \subseteq BookTables
  BY DEF BookRows, BookTables
\* A request that was on its way asks for what its step is of.
<1>2. ASSUME NEW step \in DOMAIN BookOp, BookOp[step] # "recordPayment", Reached(c, step), OwnWork(c),
             db'.invoices = db.invoices
      PROVE  PaymentInv'
  <2>1. Req(c).op # "recordPayment" /\ Notes(c) BY <1>2 DEF BookRows, Reached, Notes
  <2> QED BY <1>2, <2>1, InvoicesRest
<1>3. ASSUME NEW op, op # "recordPayment", Begins(c, op), OwnWork(c), db'.invoices = db.invoices PROVE PaymentInv'
  <2>1. Req(c).op = op /\ Notes(c) BY <1>3 DEF Begins, Notes
  <2> QED BY <1>3, <2>1, InvoicesRest
<1>4. CASE HandleApproveBatch(c)
  BY <1>1, <1>4, EndsElsewhere DEF HandleApproveBatch, ApproveBatch
<1>5. CASE HandleCreateBatch(c)
  <2>1. Begins(c, "createBatch") /\ Moves(c, "insertItem") /\ db'.invoices = db.invoices BY <1>1, <1>5 DEF HandleCreateBatch
  <2>2. OwnWork(c) BY <2>1, MovesFacts DEF BookOp, Begins
  <2> QED BY <1>3, <2>1, <2>2
<1>6. CASE HandleProcessBatch(c)
  <2>1. Begins(c, "processBatch") /\ db'.invoices = db.invoices /\ (Moves(c, "markProcessing") \/ Ends(c, FALSE))
    BY <1>6 DEF HandleProcessBatch
  <2>2. CASE Moves(c, "markProcessing")
    <3>1. OwnWork(c) BY <2>1, <2>2, MovesFacts DEF BookOp, Begins
    <3> QED BY <1>3, <2>1, <3>1
  <2> QED BY <2>1, <2>2, EndsElsewhere
<1>7. CASE UpdateBatchStatus(c)
  <2>1. Reached(c, "markProcessing") /\ Ends(c, TRUE) /\ db'.invoices = db.invoices BY <1>1, <1>7 DEF UpdateBatchStatus
  <2>2. OwnWork(c) BY <2>1, EndsFacts DEF JustEnds, Reached
  <2> QED BY <1>2, <2>1, <2>2 DEF BookOp
<1>8. CASE CreateItems(c)
  <2>1. Reached(c, "insertItem") BY <1>8 DEF CreateItems
  <2>2. Advances(c, "items") BY <1>8 DEF CreateItems, InsertNext, Advances, Ends
  <2>3. OwnWork(c) /\ db'.invoices = db.invoices BY <2>1, <2>2, AdvancesFacts DEF Reached
  <2> QED BY <1>2, <2>1, <2>3 DEF BookOp
<1>9. CASE CreateLineItem(c)
  <2>1. Reached(c, "insertLine") BY <1>9 DEF CreateLineItem
  <2>2. Advances(c, "lines") BY <1>9 DEF CreateLineItem, InsertNext, Advances, Ends
  <2>3. OwnWork(c) /\ db'.invoices = db.invoices BY <2>1, <2>2, AdvancesFacts DEF Reached
  <2> QED BY <1>2, <2>1, <2>3 DEF BookOp
<1>10. CASE HandleApply(c)
  <2>1. Begins(c, "applyLoan") /\ db'.invoices = db.invoices /\ (Moves(c, "insertLoan") \/ Ends(c, FALSE))
    BY <1>10 DEF HandleApply
  <2>2. CASE Moves(c, "insertLoan")
    <3>1. OwnWork(c) BY <2>1, <2>2, MovesFacts DEF BookOp, Begins
    <3> QED BY <1>3, <2>1, <3>1
  <2> QED BY <2>1, <2>2, EndsElsewhere
<1>11. CASE CreateLoan(c)
  <2>1. PICK ok : Reached(c, "insertLoan") /\ Ends(c, ok) BY <1>11 DEF CreateLoan
  <2>2. db'.invoices = db.invoices BY <1>1, <1>11 DEF CreateLoan
  <2>3. OwnWork(c) BY <2>1, EndsFacts DEF JustEnds, Reached
  <2> QED BY <1>2, <2>1, <2>2, <2>3 DEF BookOp
<1>12. CASE Dies(c)
  <2>1. Moves(c, "failed") /\ request[c].pc \notin {"done", "failed"} /\ Notes(c) /\ db'.invoices = db.invoices
    BY <1>12 DEF Dies, Ends, Notes
  <2>2. OwnWork(c) /\ request'[c].pc = "failed" BY <2>1, MovesFacts DEF BookOp
  <2> QED BY <2>1, <2>2, InvoicesRest
<1>13. CASE HandleCreateInvoice(c)
  <2> DEFINE number == NextInvoiceNumber(Req(c).biz)
  <2>1. /\ Begins(c, "createInvoice") /\ db'.invoices = db.invoices
        /\ request' = [request EXCEPT ![c].pc = "insertInvoice", ![c].seen = number]
    BY <1>13 DEF HandleCreateInvoice
  <2>2. DOMAIN request = Requests /\ DOMAIN request[c] = {"pc", "ask", "seen", "next", "of"} BY BookRequest
  <2> HIDE DEF number
  <2>3. request'[c] = [request[c] EXCEPT !.pc = "insertInvoice", !.seen = number] BY <2>1, <2>2
  <2>4. DOMAIN request' = Requests /\ \A d \in Requests : d # c => request'[d] = request[d] BY <2>1, <2>2
  <2>5. /\ request'[c].pc = "insertInvoice" /\ request'[c].ask = request[c].ask
        /\ DOMAIN request'[c] = {"pc", "ask", "seen", "next", "of"}
    BY <2>2, <2>3
  <2>6. OwnWork(c) BY <2>1, <2>4, <2>5 DEF OwnWork, BookOp, Begins
  <2> QED BY <1>3, <2>1, <2>6
<1> QED BY <1>4, <1>5, <1>6, <1>7, <1>8, <1>9, <1>10, <1>11, <1>12, <1>13 DEF Batches, Loans

\* A new invoice is a draft that nobody has paid.
LEMMA InsertedUnpaid ==
  ASSUME BooksInv, PaymentInv, NEW c \in Requests, InsertInvoice(c)
  PROVE  PaymentInv'
<1> BookRows /\ PaidInv /\ NumbersInv BY DEF BooksInv
<1>1. /\ request[c].pc = "insertInvoice" /\ Req(c).op = "createInvoice" /\ DOMAIN db = BookTables /\ Notes(c)
      /\ "invoices" \in BookTables
  BY DEF InsertInvoice, Reached, BookRows, BookOp, BookTables, Notes
<1>2. CASE NumberTaken(request[c].seen)
  <2>1. JustEnds(c) /\ db' = db BY <1>1, <1>2, EndsFacts DEF InsertInvoice
  <2> QED BY <1>1, <2>1, InvoicesRest DEF JustEnds
<1>3. CASE ~NumberTaken(request[c].seen)
  <2> DEFINE row == [biz |-> Req(c).biz, number |-> request[c].seen, total |-> Req(c).total, paid |-> 0, status |-> "draft"]
  <2>1. db'.invoices = Insert(db.invoices, c, row) /\ Moves(c, "insertLine")
    BY <1>1, <1>3 DEF InsertInvoice, CreateInvoiceRow
  <2>2. OwnWork(c) /\ request'[c].pc = "insertLine" BY <1>1, <2>1, MovesFacts DEF BookOp
  <2>3. c \notin DOMAIN db.invoices /\ ~Has(Opening.invoices, c) BY <1>1, BookFormAssumption DEF NumbersInv, Has
  <2>4. row.paid = 0 /\ row.status = "draft" OBVIOUS
  <2> HIDE DEF row
  <2>5. DOMAIN db'.invoices = DOMAIN db.invoices \cup {c} /\ db'.invoices[c] = row
        /\ \A i \in DOMAIN db.invoices : db'.invoices[i] = db.invoices[i]
    BY <2>1, <2>3 DEF Insert
  <2> QED BY <1>1, <2>2, <2>3, <2>4, <2>5, PaymentsFrame
<1> QED BY <1>2, <1>3

\* Sending and cancelling write a status that says nothing of payments; the total
\* changes only while the invoice is a draft.
LEMMA EditedApart ==
  ASSUME BooksInv, PaymentInv, NEW c \in Requests,
         HandleUpdateInvoice(c) \/ HandleSendInvoice(c) \/ HandleCancelInvoice(c)
  PROVE  PaymentInv'
<1> BookRows /\ PaidInv BY DEF BooksInv
<1> DEFINE i == Req(c).id
<1>1. /\ DOMAIN db = BookTables /\ "invoices" \in BookTables
      /\ \A j \in DOMAIN db.invoices : DOMAIN db.invoices[j] = InvoiceColumns
  BY DEF BookRows, BookTables
<1>2. \E op \in {"updateInvoice", "sendInvoice", "cancelInvoice"} : Begins(c, op) /\ \E ok : Ends(c, ok)
  BY DEF HandleUpdateInvoice, HandleSendInvoice, HandleCancelInvoice
<1>3. /\ JustEnds(c) /\ OwnWork(c) /\ Notes(c) /\ Req(c).op # "recordPayment" /\ request'[c].pc # "writePaid"
  BY <1>2, EndsFacts DEF Begins, JustEnds, Notes
<1>4. CASE db' = db BY <1>3, <1>4, InvoicesRest
<1>5. ASSUME HandleUpdateInvoice(c), Has(db.invoices, i), db.invoices[i].status = "draft" PROVE PaymentInv'
  <2> DEFINE total == Req(c).total
  <2>1. db' = [db EXCEPT !.invoices[i].total = total] BY <1>5 DEF HandleUpdateInvoice, UpdateInvoice
  <2>2. Req(c).op = "updateInvoice" /\ request'[c].pc = "done"
    <3>1. Moves(c, "done") /\ Req(c).op = "updateInvoice" /\ request[c].pc = "new"
      BY <1>5 DEF HandleUpdateInvoice, Ends, Begins
    <3> QED BY <3>1, MovesFacts DEF BookOp
  <2>3. Req(c).id = i OBVIOUS
  <2> HIDE DEF i, total
  <2>4. i \in DOMAIN db.invoices /\ db'.invoices = [db.invoices EXCEPT ![i].total = total] BY <1>1, <1>5, <2>1 DEF Has
  <2>5. db'.invoices[i] = [db.invoices[i] EXCEPT !.total = total] BY <2>4
  <2>6. db'.invoices[i].paid = db.invoices[i].paid /\ db'.invoices[i].status = "draft"
    BY <1>1, <1>5, <2>4, <2>5 DEF InvoiceColumns
  <2>7. DOMAIN db'.invoices = DOMAIN db.invoices /\ \A j \in DOMAIN db.invoices : j # i => db'.invoices[j] = db.invoices[j]
    BY <2>4
  <2> QED BY <1>3, <2>2, <2>3, <2>6, <2>7, PaymentsFrame
<1>6. ASSUME NEW v \in {"sent", "cancelled"}, Has(db.invoices, i), db' = [db EXCEPT !.invoices[i].status = v]
      PROVE  PaymentInv'
  <2> HIDE DEF i
  <2>1. i \in DOMAIN db.invoices /\ db'.invoices = [db.invoices EXCEPT ![i].status = v] BY <1>1, <1>6 DEF Has
  <2>2. db'.invoices[i] = [db.invoices[i] EXCEPT !.status = v] BY <2>1
  <2>3. /\ db'.invoices[i].paid = db.invoices[i].paid /\ db'.invoices[i].total = db.invoices[i].total
        /\ db'.invoices[i].status \notin {"paid", "partially_paid"}
    BY <1>1, <2>1, <2>2 DEF InvoiceColumns
  <2>4. DOMAIN db'.invoices = DOMAIN db.invoices /\ \A j \in DOMAIN db.invoices : j # i => db'.invoices[j] = db.invoices[j]
    BY <2>1
  <2> QED BY <1>3, <2>3, <2>4, PaymentsFrame
<1>7. CASE HandleUpdateInvoice(c) BY <1>4, <1>5, <1>7 DEF HandleUpdateInvoice, UpdateInvoice
<1>8. CASE HandleSendInvoice(c) BY <1>4, <1>6, <1>8 DEF HandleSendInvoice, UpdateInvoiceStatus
<1>9. CASE HandleCancelInvoice(c) BY <1>4, <1>6, <1>9 DEF HandleCancelInvoice, UpdateInvoiceStatus
<1> QED BY <1>7, <1>8, <1>9

\* A payment reads the row: it has seen all that is over.
LEMMA ReadPayment ==
  ASSUME BooksInv, PaymentInv, NEW c \in Requests, HandleRecordPayment(c)
  PROVE  PaymentInv'
<1> BookRows /\ PaidInv BY DEF BooksInv
<1>1. request[c].pc = "new" /\ Req(c).op = "recordPayment" /\ db' = db /\ Notes(c) /\ before' = [before EXCEPT ![c] = Answered]
  BY DEF HandleRecordPayment, Begins, Notes
<1>2. PICK i : i = Req(c).id OBVIOUS
<1>3. CASE ~Has(db.invoices, i)
  <2>1. Moves(c, "failed") BY <1>2, <1>3 DEF HandleRecordPayment, Ends
  <2>2. OwnWork(c) /\ request'[c].pc = "failed" BY <1>1, <2>1, MovesFacts DEF BookOp
  <2> QED BY <1>1, <2>2, InvoicesRest
<1>4. CASE Has(db.invoices, i)
  <2>1. request' = [request EXCEPT ![c].pc = "writePaid", ![c].seen = db.invoices[i].paid, ![c].of = db.invoices[i].total]
    BY <1>2, <1>4 DEF HandleRecordPayment
  <2>2. DOMAIN request = Requests /\ DOMAIN request[c] = {"pc", "ask", "seen", "next", "of"} BY BookRequest
  <2>3. request'[c] = [request[c] EXCEPT !.pc = "writePaid", !.seen = db.invoices[i].paid, !.of = db.invoices[i].total]
    BY <2>1, <2>2
  <2>4. /\ request'[c].pc = "writePaid" /\ request'[c].seen = db.invoices[i].paid /\ request'[c].of = db.invoices[i].total
        /\ request'[c].ask = request[c].ask /\ DOMAIN request'[c] = {"pc", "ask", "seen", "next", "of"}
    BY <2>2, <2>3
  <2>5. OwnWork(c)
    <3>1. DOMAIN request' = Requests /\ \A d \in Requests : d # c => request'[d] = request[d] BY <2>1, <2>2
    <3> QED BY <1>1, <2>4, <3>1 DEF OwnWork, BookOp
  <2>6. Answered' = Answered /\ before'[c] = Answered /\ DOMAIN before' = Requests
        /\ \A d \in Requests : before'[d] \subseteq Answered' /\ Req(d)' = Req(d)
    BY <1>1, <2>4, <2>5, OverStays, FormsStay DEF PaymentInv
  <2>7. \A j : Payments(j)' = Payments(j) /\ Payments(j) \subseteq Answered /\ Edits(j) \subseteq Edits(j)'
    BY <1>1, <2>4, <2>5, PaymentsNext
  <2>8. ASSUME NEW j \in DOMAIN db.invoices, NEW paid, paid = db.invoices[j].paid, NEW P, P = Payments(j)
        PROVE  CountsAll(j, P, paid)'
    <3>1. CountsAll(j, P, paid) BY <2>8 DEF PaymentInv, PaymentsAreKept, PaymentsAreLostToOverlapsOnly
    <3> QED BY <1>1, <2>5, <2>7, <2>8, <3>1, CountsStays
  <2>9. PaymentsAreLostToOverlapsOnly' BY <1>1, <2>7, <2>8 DEF PaymentsAreLostToOverlapsOnly
  <2>10. StatusTellsAmounts'
    <3>1. ASSUME NEW j \in DOMAIN db.invoices, db.invoices[j].status \in {"paid", "partially_paid"}
          PROVE  \/ db.invoices[j].status = StatusAfter(db.invoices[j].paid, db.invoices[j].total)
                 \/ \E d \in Payments(j)', e \in Edits(j)' : Overlap(d, e)'
      <4>1. \/ db.invoices[j].status = StatusAfter(db.invoices[j].paid, db.invoices[j].total)
            \/ \E d \in Payments(j), e \in Edits(j) : Overlap(d, e)
        BY <3>1 DEF PaymentInv, PaymentsAreKept, StatusTellsAmounts
      <4>2. Edits(j) \subseteq Answered BY DEF Edits
      <4> QED BY <1>1, <2>5, <2>7, <4>1, <4>2, OverStays
    <3> QED BY <1>1, <3>1 DEF StatusTellsAmounts, StatusAfter
  <2>11. ASSUME NEW d \in Requests, request'[d].pc = "writePaid" PROVE ReadWell(d)'
    <3>1. CASE d = c
      <4>1. PICK P : P = Payments(i) OBVIOUS
      <4>2. PICK paid : paid = db.invoices[i].paid OBVIOUS
      <4>3. P = Payments(i)' \cap before'[c] BY <2>6, <2>7, <4>1
      <4>4. CountsAll(i, P, paid)' BY <1>4, <2>8, <4>1, <4>2 DEF Has
      <4> QED BY <1>1, <1>2, <2>4, <2>6, <3>1, <4>2, <4>3, <4>4 DEF ReadWell
    <3>2. CASE d # c
      <4>1. Has(db'.invoices, Req(d).id) BY <1>1, <2>5, <2>11, <3>2 DEF PaidInv, OwnWork
      <4> QED BY <1>1, <2>5, <2>11, <3>2, <4>1, UnderWayStays
    <3> QED BY <3>1, <3>2
  <2>12. \A d \in Answered' : Req(d)'.op = "recordPayment" => Has(db'.invoices, Req(d)'.id)
    BY <1>1, <2>6 DEF PaymentInv, Answered
  <2> QED BY <2>6, <2>9, <2>10, <2>11, <2>12 DEF PaymentInv, PaymentsAreKept
<1> QED BY <1>3, <1>4

\* A payment writes the sum: what it has not seen overlapped it.
LEMMA WrittenPayment ==
  ASSUME BooksInv, PaymentInv, NEW c \in Requests, WritePaid(c)
  PROVE  PaymentInv'
<1> BookRows /\ PaidInv BY DEF BooksInv
<1> DEFINE paid == request[c].seen + Req(c).cents
           status == StatusAfter(paid, request[c].of)
<1>1. PICK i : i = Req(c).id OBVIOUS
<1>2. /\ request[c].pc = "writePaid" /\ Req(c).op = "recordPayment" /\ DOMAIN db = BookTables /\ before' = before /\ Notes(c)
      /\ "invoices" \in BookTables /\ \A j \in DOMAIN db.invoices : DOMAIN db.invoices[j] = InvoiceColumns
  BY DEF WritePaid, Reached, BookRows, BookOp, BookTables, Notes
<1>3. db' = [db EXCEPT !.invoices[i].paid = paid, !.invoices[i].status = status]
  BY <1>1 DEF WritePaid, UpdatePaidCents
<1>4. OwnWork(c) /\ request'[c].pc = "done"
  <2>1. Moves(c, "done") BY DEF WritePaid, Ends
  <2> QED BY <1>2, <2>1, MovesFacts DEF BookOp
<1>5. i \in DOMAIN db.invoices BY <1>1, <1>2 DEF PaidInv, Has
<1>6. ReadWell(c) BY <1>2 DEF PaymentInv
<1>7. /\ DOMAIN db'.invoices = DOMAIN db.invoices /\ \A j \in DOMAIN db.invoices : j # i => db'.invoices[j] = db.invoices[j]
      /\ db'.invoices[i].paid = paid /\ db'.invoices[i].status = status /\ db'.invoices[i].total = db.invoices[i].total
  <2> HIDE DEF paid, status
  <2>1. db'.invoices = [db.invoices EXCEPT ![i].paid = paid, ![i].status = status] BY <1>2, <1>3
  <2>2. db'.invoices[i] = [db.invoices[i] EXCEPT !.paid = paid, !.status = status] BY <1>5, <2>1
  <2> QED BY <1>2, <1>5, <2>1, <2>2 DEF InvoiceColumns
<1>8. /\ Answered' = Answered \cup {c} /\ c \notin Answered /\ \A d \in Requests : before[d] \subseteq Answered
      /\ \A d \in Requests : Req(d)' = Req(d)
      /\ \A d, e \in Answered : Overlap(d, e)' <=> Overlap(d, e)
  BY <1>2, <1>4, OverStays, FormsStay DEF PaymentInv
<1>9. /\ \A j : Payments(j) \subseteq Answered /\ Edits(j) \subseteq Answered /\ Edits(j) \subseteq Edits(j)'
      /\ Payments(i)' = Payments(i) \cup {c} /\ \A j : j # i => Payments(j)' = Payments(j)
  BY <1>1, <1>2, <1>4, PaymentsNext
\* Neither has seen the other.
<1>10. \A d \in Answered : d \notin before[c] => Overlap(c, d)' /\ Overlap(d, c)'
  BY <1>2, <1>8 DEF Overlap, Answered
<1>11. ASSUME NEW j \in DOMAIN db.invoices PROVE CountsAll(j, Payments(j), db.invoices[j].paid)'
  <2>1. PICK sum : sum = db'.invoices[j].paid OBVIOUS
  <2>2. PICK P : P = Payments(j)' OBVIOUS
  <2>3. CASE j # i
    <3>1. CountsAll(j, P, sum)
      BY <1>7, <1>9, <2>1, <2>2, <2>3 DEF PaymentInv, PaymentsAreKept, PaymentsAreLostToOverlapsOnly
    <3>2. CountsAll(j, P, sum)' BY <1>2, <1>4, <1>9, <2>2, <2>3, <3>1, CountsStays
    <3> QED BY <2>1, <2>2, <3>2
  <2>4. CASE j = i
    <3>1. PICK seen : seen = request[c].seen OBVIOUS
    <3>2. PICK Q : Q = Payments(i) \cap before[c] OBVIOUS
    <3>3. CountsAll(i, Q, seen) BY <1>1, <1>6, <3>1, <3>2 DEF ReadWell
    <3>4. Q \subseteq Requests BY <1>9, <3>2 DEF Answered
    <3>5. PICK S \in SUBSET Q : seen = PaidBy(S) + PaidAtStart(i) /\ \A d \in Q \ S : \E e \in Q : Overlap(d, e)
      BY <3>3, <3>4, CountsAs
    <3>6. S \subseteq Requests /\ c \notin S /\ \A d \in S \cup {c} : Form[d].op = "recordPayment"
      BY <1>2, <1>8, <1>9, <3>2, <3>4, BookRequest DEF Payments
    <3>7. PaidBy(S \cup {c}) = PaidBy(S) + Form[c].cents BY <3>6, PaidByOneMore
    <3>8. PaidBy(S) \in Int /\ PaidAtStart(i) \in Int /\ Form[c].cents \in Int
      <4> DEFINE f == [d \in S |-> Form[d].cents]
      <4>1. IsFiniteSet(S) /\ \A d \in S : f[d] \in Int BY <3>6, BookFormAssumption, FS_Subset
      <4>2. SumFunctionOnSet(f, S) \in Int
        <5> HIDE DEF f
        <5> QED BY <4>1, SumType
      <4>3. PaidAtStart(i) \in Int BY BookOpeningAssumption DEF PaidAtStart, Has
      <4> QED BY <3>6, <4>2, <4>3, BookFormAssumption DEF PaidBy
    <3>9. sum = PaidBy(S \cup {c}) + PaidAtStart(i)
      <4>1. sum = seen + Form[c].cents BY <1>7, <2>1, <2>4, <3>1, BookRequest
      <4> QED BY <3>5, <3>7, <3>8, <4>1
    <3>10. P = Payments(i) \cup {c} /\ P \subseteq Requests /\ S \cup {c} \in SUBSET P
      BY <1>9, <2>2, <2>4, <3>2 DEF Answered
    <3>11. ASSUME NEW d \in P \ (S \cup {c}) PROVE \E e \in P : Overlap(d, e)'
      <4>1. d \in Payments(i) /\ d \in Answered BY <1>9, <3>10, <3>11
      <4>2. CASE d \in before[c]
        <5>1. PICK e \in Q : Overlap(d, e) BY <3>2, <3>5, <3>11, <4>1, <4>2
        <5>2. e \in Answered /\ e \in P BY <1>9, <3>2, <3>10
        <5> QED BY <1>8, <4>1, <5>1, <5>2
      <4>3. CASE d \notin before[c] BY <1>10, <3>10, <4>1, <4>3
      <4> QED BY <4>2, <4>3
    <3>12. CountsAll(i, P, sum)'
      <4> DEFINE R == S \cup {c}
      <4>1. R \in SUBSET P /\ sum = PaidBy(R) + PaidAtStart(i) /\ \A d \in P \ R : \E e \in P : Overlap(d, e)'
        BY <3>9, <3>10, <3>11
      <4> HIDE DEF R
      <4> QED BY <1>4, <3>10, <4>1, CountsNext
    <3> QED BY <2>1, <2>2, <2>4, <3>12
  <2> QED BY <2>3, <2>4
<1>12. PaymentsAreLostToOverlapsOnly' BY <1>7, <1>11 DEF PaymentsAreLostToOverlapsOnly
<1>13. StatusTellsAmounts'
  <2>1. ASSUME NEW j \in DOMAIN db.invoices, db'.invoices[j].status \in {"paid", "partially_paid"}
        PROVE  \/ db'.invoices[j].status = StatusAfter(db'.invoices[j].paid, db'.invoices[j].total)
               \/ \E d \in Payments(j)', e \in Edits(j)' : Overlap(d, e)'
    <3>1. CASE j # i
      <4>1. \/ db.invoices[j].status = StatusAfter(db.invoices[j].paid, db.invoices[j].total)
            \/ \E d \in Payments(j), e \in Edits(j) : Overlap(d, e)
        BY <1>7, <2>1, <3>1 DEF PaymentInv, PaymentsAreKept, StatusTellsAmounts
      <4> QED BY <1>7, <1>8, <1>9, <3>1, <4>1
    <3>2. CASE j = i
      <4>1. CASE request[c].of = db.invoices[i].total BY <1>7, <3>2, <4>1
      <4>2. CASE \E e \in Edits(i) : e \notin before[c]
        <5>1. PICK e \in Edits(i) : e \notin before[c] BY <4>2
        <5>2. Overlap(c, e)' /\ c \in Payments(i)' /\ e \in Edits(i)' BY <1>9, <1>10, <5>1
        <5> QED BY <3>2, <5>2
      <4> QED BY <1>1, <1>6, <4>1, <4>2 DEF ReadWell
    <3> QED BY <3>1, <3>2
  <2> QED BY <1>7, <2>1 DEF StatusTellsAmounts, StatusAfter
<1>14. ASSUME NEW d \in Requests, request'[d].pc = "writePaid" PROVE ReadWell(d)'
  <2>1. d # c /\ request'[d] = request[d] BY <1>4, <1>14 DEF OwnWork
  <2>2. Req(d).id \in DOMAIN db.invoices BY <1>14, <2>1 DEF PaidInv, Has
  <2>3. db'.invoices[Req(d).id].total = db.invoices[Req(d).id].total BY <1>7, <2>2
  <2> QED BY <1>2, <1>4, <1>7, <1>14, <2>1, <2>2, <2>3, UnderWayStays DEF Has
<1>15. \A d \in Answered' : Req(d)'.op = "recordPayment" => Has(db'.invoices, Req(d)'.id)
  BY <1>1, <1>5, <1>7, <1>8 DEF PaymentInv, Has, Answered
<1>16. DOMAIN before' = Requests /\ \A d \in Requests : before'[d] \subseteq Answered' BY <1>2, <1>8 DEF PaymentInv
<1> QED BY <1>12, <1>13, <1>14, <1>15, <1>16 DEF PaymentInv, PaymentsAreKept

LEMMA PaymentStart == BooksInit => PaymentInv
<1> SUFFICES ASSUME BooksInit PROVE PaymentInv OBVIOUS
<1>1. BooksInv BY BooksStart
<1>2. BookRows BY <1>1 DEF BooksInv
<1>3. db = Opening /\ Answered = {} /\ before = [c \in Requests |-> {}] /\ \A c \in Requests : request[c].pc = "new"
  BY DEF BooksInit, Answered
<1>4. \A i : Payments(i) = {} BY <1>3 DEF Payments
<1>5. ASSUME NEW i \in DOMAIN db.invoices PROVE CountsAll(i, Payments(i), db.invoices[i].paid)
  <2>1. PaidBy({}) = 0 BY SumEmpty DEF PaidBy
  <2>2. PaidAtStart(i) = db.invoices[i].paid /\ PaidAtStart(i) \in Int BY <1>3, BookOpeningAssumption DEF PaidAtStart, Has
  <2>3. db.invoices[i].paid = PaidBy({}) + PaidAtStart(i) BY <2>1, <2>2
  <2> QED BY <1>2, <1>4, <2>3, CountsAs
<1>6. StatusTellsAmounts BY <1>3, BookOpeningAssumption DEF StatusTellsAmounts, StatusAfter
<1> QED BY <1>3, <1>5, <1>6 DEF PaymentInv, PaymentsAreKept, PaymentsAreLostToOverlapsOnly

LEMMA PaymentStep ==
  ASSUME BooksInv, PaymentInv, [BooksNext]_booksVars
  PROVE  PaymentInv'
<1>1. CASE BooksNext
  <2>1. PICK c \in Requests : Invoices(c) \/ Batches(c) \/ TaxAndDocuments(c) \/ Labels(c) \/ Loans(c) \/ Dies(c)
    BY <1>1 DEF BooksNext
  <2> QED BY <2>1, InsertedUnpaid, EditedApart, ReadPayment, WrittenPayment, OtherTables, OtherHandlers DEF Invoices
<1>2. CASE UNCHANGED booksVars
  <2> db' = db /\ request' = request /\ before' = before BY <1>2 DEF booksVars
  <2>1. Answered' = Answered BY DEF Answered
  <2>2. \A i : Payments(i)' = Payments(i) /\ Edits(i)' = Edits(i) BY <2>1 DEF Payments, Edits, Req
  <2>3. ASSUME NEW i, NEW P, NEW p PROVE CountsAll(i, P, p)' <=> CountsAll(i, P, p)
    <3>1. \A S : SumOf(LAMBDA c : Req(c).cents, S)' = SumOf(LAMBDA c : Req(c).cents, S) BY Zenon DEF SumOf, Req
    <3>2. \A d, e : Overlap(d, e)' <=> Overlap(d, e) BY DEF Overlap
    <3> QED BY <3>1, <3>2 DEF CountsAll
  <2>4. PaymentsAreLostToOverlapsOnly'
    <3>1. \A i \in DOMAIN db.invoices : CountsAll(i, Payments(i), db.invoices[i].paid)
      BY DEF PaymentInv, PaymentsAreKept, PaymentsAreLostToOverlapsOnly
    <3> QED BY <2>2, <2>3, <3>1 DEF PaymentsAreLostToOverlapsOnly
  <2>5. StatusTellsAmounts' BY <2>2 DEF PaymentInv, PaymentsAreKept, StatusTellsAmounts, StatusAfter, Overlap
  <2>6. \A c \in Requests : ReadWell(c) => ReadWell(c)' BY <2>2, <2>3 DEF ReadWell, Req
  <2> QED BY <2>1, <2>4, <2>5, <2>6 DEF PaymentInv, PaymentsAreKept, Has, Req
<1> QED BY <1>1, <1>2

\* The invariant behind PaymentsAreKept: a payment that InvoiceHandler.RecordPayment
\* has under way counts all those that were answered before it began, and the
\* total it read is good unless an edit came since.
THEOREM PaymentInvariance == BooksSpec => [](BooksInv /\ PaymentInv)
<1>1. BooksInit => BooksInv /\ PaymentInv BY BooksStart, PaymentStart
<1>2. BooksInv /\ PaymentInv /\ [BooksNext]_booksVars => BooksInv' /\ PaymentInv' BY BooksStep, PaymentStep
<1> QED BY <1>1, <1>2, PTL DEF BooksSpec

\* A payment RecordPayment answered with success stays in paid_cents unless
\* another payment of the invoice overlapped it, and a status paid or
\* partially_paid agrees with the amounts unless an edit overlapped a payment.
THEOREM PaymentsTheorem == BooksSpec => []PaymentsAreKept
<1>1. PaymentInv => PaymentsAreKept BY DEF PaymentInv
<1> QED BY <1>1, PaymentInvariance, PTL
=============================================================================
