---------------------- MODULE OfficeAndOutboundProofs ----------------------
(***************************************************************************)
(* Proofs about the two ends of a customer's account.                      *)
(*                                                                         *)
(* BackOffice (with Access and Directory), for any forms, users and        *)
(* requests in flight: first the sessions, then the records the other      *)
(* services and the staff keep.                                            *)
(*                                                                         *)
(* OutboundTransfer, for any number of users and concurrent transfers, any *)
(* amounts and any number of retries: the money, then the books.           *)
(***************************************************************************)
EXTENDS BackOffice, OutboundTransfer, SumFacts, TLAPS

(***************************************************************************)
(* Sessions.  Most steps leave the sessions alone: Kept and Own say how.   *)
(***************************************************************************)

\* Users keep their rows and have a password still if they had one; only the
\* request's own user is new.
UsersKept(c) ==
  /\ DOMAIN db.users \subseteq DOMAIN db'.users
  /\ \A u \in DOMAIN db'.users : u = c \/ u \in DOMAIN db.users
  /\ \A u \in DOMAIN db'.users : DOMAIN db'.users[u] = UserColumns
  /\ \A u \in DOMAIN db.users : db.users[u].pass # None => db'.users[u].pass # None
Kept(c) == DOMAIN db' = Tables /\ db'.sessions = db.sessions /\ UsersKept(c)

\* The step is of request c alone.
OwnStep(c) ==
  /\ DOMAIN call' = DOMAIN call
  /\ \A d \in Calls : d # c => call'[d] = call[d]
  /\ DOMAIN call'[c] = Fields /\ call'[c].ask = call[c].ask /\ call'[c].took \in BOOLEAN

\* What c has taken from others stays as it was.
NothingTaken(c) ==
  call'[c].took => /\ call[c].took /\ call'[c].user = call[c].user
                   /\ call'[c].cut = call[c].cut /\ call'[c].flying = call[c].flying

LEMMA StepToFacts ==
  ASSUME SessionRows, NEW c \in Calls, NEW step, StepTo(c, step)
  PROVE  /\ OwnStep(c) /\ call'[c].pc = step /\ call'[c].user = call[c].user /\ NothingTaken(c)
         /\ call'[c].took = call[c].took /\ call'[c].row = call[c].row
BY DEF SessionRows, StepTo, OwnStep, NothingTaken, Calls, Fields

LEMMA StepWithFacts ==
  ASSUME SessionRows, NEW c \in Calls, NEW step, NEW u, StepWith(c, step, u)
  PROVE  /\ OwnStep(c) /\ call'[c].pc = step /\ call'[c].user = u
         /\ call'[c].took = call[c].took /\ call'[c].row = call[c].row
BY DEF SessionRows, StepWith, OwnStep, Calls, Fields

LEMMA FinishFacts ==
  ASSUME SessionRows, NEW c \in Calls, NEW ok, Finish(c, ok)
  PROVE  /\ OwnStep(c) /\ call'[c].pc \in {"done", "failed"} /\ call'[c].user = call[c].user /\ NothingTaken(c)
         /\ call'[c].took = call[c].took /\ call'[c].row = call[c].row
BY StepToFacts DEF Finish

LEMMA KeptSame == ASSUME SessionRows, NEW c, db' = db PROVE Kept(c)
BY DEF SessionRows, Kept, UsersKept

LEMMA KeptOther ==
  ASSUME SessionRows, NEW c, DOMAIN db' = DOMAIN db, db'.users = db.users, db'.sessions = db.sessions
  PROVE  Kept(c)
BY DEF SessionRows, Kept, UsersKept

LEMMA KeptColumn ==
  ASSUME SessionRows, NEW c, NEW u, NEW x, NEW column \in {"frozen", "kyc", "name", "telegram", "waterfall"},
         db' = [db EXCEPT !.users[u][column] = x]
  PROVE  Kept(c)
<1>1. DOMAIN db' = DOMAIN db /\ db'.sessions = db.sessions /\ DOMAIN db'.users = DOMAIN db.users
  BY DEF SessionRows, Tables
<1>2. ASSUME NEW v \in DOMAIN db.users
      PROVE  DOMAIN db'.users[v] = UserColumns /\ db'.users[v].pass = db.users[v].pass
  BY DEF SessionRows, Tables
<1> QED BY <1>1, <1>2 DEF SessionRows, Kept, UsersKept
-----------------------------------------------------------------------------
LEMMA HasPasswordKept ==
  ASSUME SessionRows, NEW c, Kept(c), NEW u, HasPassword(u) PROVE HasPassword(u)'
BY DEF Kept, UsersKept, HasPassword

\* What a step of c does to the other requests.
LEMMA OthersKept ==
  ASSUME SessionInv, NEW c \in Calls, Kept(c), OwnStep(c), NEW d \in Calls, d # c
  PROVE  /\ SessionCall(d)' /\ (Taker(d)' <=> Taker(d)) /\ (Changer(d)' <=> Changer(d))
         /\ (Refreshing(d)' <=> Refreshing(d)) /\ call'[d] = call[d]
<1>1. call'[d] = call[d] BY DEF OwnStep
<1>2. /\ (Taker(d)' <=> Taker(d)) /\ (Changer(d)' <=> Changer(d)) /\ (Refreshing(d)' <=> Refreshing(d))
      /\ Req(d)' = Req(d)
  BY <1>1 DEF Taker, Changer, Refreshing, Req
<1>3. \A u : HasPassword(u) => HasPassword(u)'
  BY HasPasswordKept DEF SessionInv
<1>4. /\ \A s : Live(s)' <=> Live(s)
      /\ \A u : SessionsOf(u)' = SessionsOf(u)
      /\ db'.sessions = db.sessions
  BY DEF Kept, Live, SessionsOf
<1>5. d \in DOMAIN db'.users => d \in DOMAIN db.users
  BY DEF Kept, UsersKept
<1> SessionCall(d) BY DEF SessionInv, SessionCalls
<1> QED BY <1>1, <1>2, <1>3, <1>4, <1>5 DEF SessionCall, Placed

\* A step that keeps users and sessions, takes nothing and starts no refresh.
LEMMA QuietStep ==
  ASSUME SessionInv, NEW c \in Calls, Kept(c), OwnStep(c), SessionCall(c)',
         Taker(c)' => Taker(c), Changer(c)' => Changer(c) /\ NothingTaken(c),
         Refreshing(c)' => Refreshing(c)
  PROVE  SessionInv'
<1>0. Calls' = Calls /\ \A d \in Calls : Req(d)' = Req(d)
  BY DEF OwnStep, Calls, Req
<1>1. db'.sessions = db.sessions /\ (\A s : Live(s)' <=> Live(s)) /\ (\A u : SessionsOf(u)' = SessionsOf(u))
  BY DEF Kept, Live, SessionsOf
<1>2. \A d \in Calls : /\ Taker(d)' => Taker(d)
                       /\ Refreshing(d)' => Refreshing(d)
                       /\ Changer(d)' => /\ Changer(d) /\ call'[d].cut = call[d].cut
                                         /\ call'[d].flying = call[d].flying /\ call'[d].user = call[d].user
  BY OthersKept DEF NothingTaken, Changer
<1>3. SessionRows'
  <2>1. \A d \in Calls' : /\ d \in DOMAIN Ask /\ call'[d].ask = Ask[d]
                          /\ DOMAIN call'[d] = Fields /\ call'[d].took \in BOOLEAN
    BY <1>0 DEF OwnStep, SessionInv, SessionRows, Calls
  <2> QED BY <2>1, <1>1 DEF Kept, UsersKept, SessionInv, SessionRows
<1>4. SessionCalls'
  BY <1>0, OthersKept DEF SessionCalls
<1>5. OneTakerEach'
  BY <1>0, <1>2 DEF OneTakerEach, SessionInv
<1>6. CutsHold'
  <2>1. ASSUME NEW d \in Calls, Changer(d)', NEW s, Beyond(d, s) PROVE Beyond(d, s)'
    BY <2>1, <1>1, <1>2 DEF Beyond
  <2>2. ASSUME NEW d \in Calls, Changer(d)'
        PROVE  /\ \A s \in SessionsOf(call[d].user)' : Live(s)' => Beyond(d, s)'
               /\ \A e \in Calls' : Refreshing(e)' /\ e \notin call'[d].flying => Beyond(d, Req(e).token)'
    <3>1. Changer(d) /\ SessionsOf(call[d].user)' = SessionsOf(call[d].user) /\ call'[d].flying = call[d].flying
      BY <2>2, <1>1, <1>2 DEF SessionsOf
    <3>2. /\ \A s \in SessionsOf(call[d].user) : Live(s) => Beyond(d, s)
          /\ \A e \in Calls : Refreshing(e) /\ e \notin call[d].flying => Beyond(d, Req(e).token)
      BY <3>1 DEF SessionInv, CutsHold
    <3>3. ASSUME NEW e \in Calls', Refreshing(e)', e \notin call'[d].flying PROVE Beyond(d, Req(e).token)'
      <4>1. Beyond(d, Req(e).token) BY <3>1, <3>2, <3>3, <1>0, <1>2
      <4>2. Req(e)' = Req(e) BY <1>0
      <4> QED BY <4>1, <4>2, <2>1, <2>2, <1>1, <1>2 DEF Beyond
    <3> QED BY <3>1, <3>2, <3>3, <2>1, <2>2, <1>1
  <2> QED BY <2>2, <1>0 DEF CutsHold
<1>7. ChainsAreOfOneUser'
  BY <1>1 DEF SessionInv, SessionRows, ChainsAreOfOneUser, Kept, UsersKept
<1> QED BY <1>3, <1>4, <1>5, <1>6, <1>7 DEF SessionInv

\* A step of a request that is not over, takes nothing and starts no refresh.
LEMMA MovingStep ==
  ASSUME SessionInv, NEW c \in Calls, Kept(c), OwnStep(c), call[c].pc # "done", Placed(c)',
         Req(c).op \in {"refresh", "logout", "changePassword"} => NothingTaken(c),
         Refreshing(c)' => Refreshing(c) /\ call'[c].user = call[c].user
  PROVE  SessionInv'
<1>1. Req(c)' = Req(c) /\ db'.sessions = db.sessions BY DEF OwnStep, Req, Kept
<1>2. Taker(c)' => Taker(c) BY <1>1 DEF Taker, NothingTaken
<1>3. Changer(c)' => Changer(c) /\ NothingTaken(c) BY <1>1 DEF Changer, NothingTaken
<1>5. SessionCall(c)'
  <2> SessionCall(c) BY DEF SessionInv, SessionCalls
  <2>1. c \notin DOMAIN db'.sessions BY <1>1 DEF SessionCall
  <2>2. Taker(c)' => Req(c)'.token \in DOMAIN db'.sessions /\ ~Live(Req(c).token)'
    BY <1>1, <1>2 DEF SessionCall, Live
  <2>3. Changer(c)' => call'[c].cut \subseteq SessionsOf(call[c].user)' /\ \A s \in call'[c].cut : ~Live(s)'
    BY <1>1, <1>3 DEF SessionCall, Live, SessionsOf, NothingTaken, Changer
  <2>4. Refreshing(c)' => Req(c)'.token \in DOMAIN db'.sessions /\ call'[c].user = db'.sessions[Req(c)'.token].user
    BY <1>1 DEF SessionCall
  <2> QED BY <2>1, <2>2, <2>3, <2>4 DEF SessionCall
<1> QED BY <1>2, <1>3, <1>5, QuietStep

\* The steps that Placed speaks of; going to any other keeps the invariant.
Watched == {"new", "checkUsername", "createUser", "createWallet", "defaultBalance", "createSession",
            "revokeOld", "loadUser", "revoke", "updatePassword", "revokeAll", "upsert"}
LEMMA PlainStep ==
  ASSUME SessionInv, NEW c \in Calls, Kept(c), OwnStep(c), call[c].pc # "done", call'[c].pc \notin Watched,
         Req(c).op \in {"refresh", "logout", "changePassword"} => NothingTaken(c)
  PROVE  SessionInv'
<1>1. Placed(c)' BY DEF Placed, Watched
<1>2. ~Refreshing(c)' BY DEF Refreshing, Watched
<1> QED BY <1>1, <1>2, MovingStep

\* A request that ends, and one that goes on, with its user as it is.
LEMMA FinishStep ==
  ASSUME SessionInv, NEW c \in Calls, Kept(c), call[c].pc # "done", NEW ok, Finish(c, ok)
  PROVE  SessionInv'
<1> SessionRows BY DEF SessionInv
<1> QED BY FinishFacts, PlainStep DEF Watched
LEMMA StepToStep ==
  ASSUME SessionInv, NEW c \in Calls, Kept(c), call[c].pc # "done", NEW step, step \notin Watched, StepTo(c, step)
  PROVE  SessionInv'
<1> SessionRows BY DEF SessionInv
<1> QED BY StepToFacts, PlainStep
LEMMA StepWithStep ==
  ASSUME SessionInv, NEW c \in Calls, Kept(c), call[c].pc = "new", NEW step, step \notin Watched, NEW u,
         StepWith(c, step, u)
  PROVE  SessionInv'
<1> SessionRows BY DEF SessionInv
<1>1. ~call[c].took BY DEF SessionInv, SessionCalls, SessionCall, Placed
<1>2. NothingTaken(c) /\ OwnStep(c) /\ call'[c].pc = step BY <1>1, StepWithFacts DEF NothingTaken
<1> QED BY <1>2, PlainStep
-----------------------------------------------------------------------------
(* Registration. *)

LEMMA RequestOf ==
  ASSUME SessionInv, NEW c \in Calls
  PROVE  /\ SessionRows /\ SessionCall(c) /\ Placed(c)
         /\ OwnStep(c) => Req(c)' = Req(c)
         /\ call[c].pc = "new" => ~call[c].took
BY DEF SessionInv, SessionCalls, SessionCall, Placed, OwnStep, Req

LEMMA RegistersKeep ==
  ASSUME SessionInv, NEW c \in Calls, Registers(c)
  PROVE  SessionInv'
<1> USE RequestOf, KeptSame
<1>1. CASE HandleRegister(c)
  <2>1. /\ db' = db /\ call[c].pc = "new" /\ Req(c).op = "register"
        /\ (Finish(c, FALSE) \/ StepTo(c, "checkUsername"))
    BY <1>1 DEF HandleRegister, Begins, CheckPhone, customerVars
  <2>2. CASE Finish(c, FALSE) BY <2>1, <2>2, FinishStep
  <2>3. CASE StepTo(c, "checkUsername")
    <3>1. Placed(c)' /\ ~Refreshing(c)' /\ NothingTaken(c) /\ OwnStep(c)
      BY <2>1, <2>3, StepToFacts DEF Placed, Refreshing
    <3> QED BY <2>1, <3>1, MovingStep
  <2> QED BY <2>1, <2>2, <2>3
<1>2. CASE HandleOnboard(c)
  <2>1. /\ db' = db /\ call[c].pc = "new" /\ Req(c).op = "onboard"
        /\ (Finish(c, TRUE) \/ StepTo(c, "createUser"))
    BY <1>2 DEF HandleOnboard, Begins, RegisterUser, customerVars
  <2>2. CASE Finish(c, TRUE) BY <2>1, <2>2, FinishStep
  <2>3. CASE StepTo(c, "createUser")
    <3>1. Placed(c)' /\ ~Refreshing(c)' /\ NothingTaken(c) /\ OwnStep(c)
      BY <2>1, <2>3, StepToFacts DEF Placed, Refreshing
    <3> QED BY <2>1, <3>1, MovingStep
  <2> QED BY <2>1, <2>2, <2>3
<1>3. CASE CheckUsername(c)
  <2>1. /\ db' = db /\ call[c].pc = "checkUsername"
        /\ (Finish(c, FALSE) \/ StepTo(c, "createUser"))
    BY <1>3 DEF CheckUsername, At, customerVars
  <2>2. CASE Finish(c, FALSE) BY <2>1, <2>2, FinishStep
  <2>3. CASE StepTo(c, "createUser")
    <3>1. Placed(c)' /\ ~Refreshing(c)' /\ NothingTaken(c) /\ OwnStep(c)
      BY <2>1, <2>3, StepToFacts DEF Placed, Refreshing
    <3> QED BY <2>1, <3>1, MovingStep
  <2> QED BY <2>1, <2>2, <2>3
<1>4. CASE CreateUser(c)
  <2>1. call[c].pc = "createUser" BY <1>4 DEF CreateUser, At
  <2>2. CASE Taken(Req(c)) BY <1>4, <2>1, <2>2, FinishStep DEF CreateUser
  <2>3. CASE ~Taken(Req(c))
    <3>1. db' = [db EXCEPT !.users = Insert(@, c, NewUser(Req(c)))] /\ StepWith(c, "createWallet", c)
      BY <1>4, <2>3 DEF CreateUser
    <3>2. /\ DOMAIN db' = Tables /\ db'.sessions = db.sessions
          /\ db'.users = Insert(db.users, c, NewUser(Req(c)))
      BY <3>1 DEF SessionRows, Tables
    <3>3. c \notin DOMAIN db.users /\ Req(c).op \in {"register", "onboard"}
      BY <2>1 DEF Placed
    <3>4. Kept(c) /\ c \in DOMAIN db'.users /\ db'.users[c].pass = Req(c).password
      BY <3>2, <3>3 DEF Kept, UsersKept, Insert, NewUser, SessionRows, UserColumns
    <3>6. Req(c).op = "register" => HasPassword(c)'
      BY <3>4, FormAssumption DEF HasPassword, SessionRows, Req, None
    <3>7. Placed(c)' /\ ~Refreshing(c)'
      BY <3>1, <3>3, <3>6, StepWithFacts DEF Placed, Refreshing
    <3> QED BY <2>1, <3>1, <3>3, <3>4, <3>7, MovingStep, StepWithFacts
  <2> QED BY <2>2, <2>3
<1>5. CASE CreateWallet(c)
  <2>1. /\ db' = db /\ call[c].pc = "createWallet" /\ StepTo(c, "defaultBalance")
    BY <1>5 DEF CreateWallet, At
  <2>2. HasPassword(c) => HasPassword(c)' BY <2>1 DEF HasPassword
  <2>3. Placed(c)' /\ ~Refreshing(c)' /\ NothingTaken(c) /\ OwnStep(c)
    BY <2>1, <2>2, StepToFacts DEF Placed, Refreshing
  <2> QED BY <2>1, <2>3, MovingStep
<1>6. CASE CreateDefaultBalance(c)
  <2>1. /\ db' = [db EXCEPT !.balances = @ \cup {c}] /\ call[c].pc = "defaultBalance"
        /\ StepTo(c, IF Req(c).op = "register" THEN "createSession" ELSE "done")
    BY <1>6 DEF CreateDefaultBalance, At
  <2>2. Kept(c) BY <2>1, KeptOther DEF SessionRows, Tables
  <2>3. HasPassword(c) => HasPassword(c)' BY <2>2, HasPasswordKept
  <2>4. OwnStep(c) /\ NothingTaken(c) /\ call'[c].user = call[c].user
        /\ call'[c].pc = IF Req(c).op = "register" THEN "createSession" ELSE "done"
    BY <2>1, StepToFacts
  <2>5. Placed(c)' /\ ~Refreshing(c)'
    BY <2>1, <2>3, <2>4 DEF Placed, Refreshing
  <2> QED BY <2>1, <2>2, <2>4, <2>5, MovingStep
<1> QED BY <1>1, <1>2, <1>3, <1>4, <1>5, <1>6 DEF Registers
-----------------------------------------------------------------------------
(* Steps of services/auth that keep the sessions. *)

LEMMA HandleLoginKeeps ==
  ASSUME SessionInv, NEW c \in Calls, HandleLogin(c) PROVE SessionInv'
<1> USE RequestOf, KeptSame
<1> DEFINE who == Login(Req(c).identifier, Req(c).password)
<1>1. /\ db' = db /\ call[c].pc = "new" /\ Req(c).op = "login"
      /\ (Finish(c, FALSE) \/ \E u \in who : StepWith(c, "createSession", u))
  BY DEF HandleLogin, Begins, customerVars
<1>2. CASE Finish(c, FALSE) BY <1>1, <1>2, FinishStep
<1>3. ASSUME NEW u \in who, StepWith(c, "createSession", u) PROVE SessionInv'
  <2>1. HasPassword(u)
    BY DEF Login, ResolveUser, GetByPhone, GetByUsername, MatchPassword, HasPassword
  <2>2. HasPassword(u)' BY <1>1, <2>1 DEF HasPassword
  <2>3. OwnStep(c) /\ call'[c].pc = "createSession" /\ call'[c].user = u /\ ~call'[c].took
    BY <1>1, <1>3, StepWithFacts
  <2>4. Placed(c)' /\ ~Refreshing(c)' /\ NothingTaken(c)
    BY <1>1, <2>2, <2>3 DEF Placed, Refreshing, NothingTaken
  <2> QED BY <1>1, <2>3, <2>4, MovingStep
<1> QED BY <1>1, <1>2, <1>3

LEMMA LoadUserKeeps ==
  ASSUME SessionInv, NEW c \in Calls, LoadUser(c) PROVE SessionInv'
<1> USE RequestOf, KeptSame
<1>1. /\ db' = db /\ call[c].pc = "loadUser" /\ Req(c).op = "refresh"
      /\ (Finish(c, FALSE) \/ StepTo(c, "createSession"))
  BY DEF LoadUser, At, customerVars, Placed
<1>2. CASE Finish(c, FALSE) BY <1>1, <1>2, FinishStep
<1>3. CASE StepTo(c, "createSession")
  <2>1. HasPassword(call[c].user)
    BY <1>1 DEF SessionInv, SessionCall, Refreshing, ChainsAreOfOneUser, HasPassword
  <2>2. OwnStep(c) /\ call'[c].pc = "createSession" /\ call'[c].user = call[c].user /\ NothingTaken(c)
    BY <1>3, StepToFacts
  <2>3. HasPassword(call[c].user)' BY <1>1, <2>1, <2>2 DEF HasPassword
  <2>4. Placed(c)' /\ Refreshing(c) BY <1>1, <2>2, <2>3 DEF Placed, Refreshing
  <2> QED BY <1>1, <2>2, <2>4, MovingStep
<1> QED BY <1>1, <1>2, <1>3

LEMMA HandleLogoutKeeps ==
  ASSUME SessionInv, NEW c \in Calls, HandleLogout(c) PROVE SessionInv'
<1> USE RequestOf, KeptSame
<1>1. /\ db' = db /\ call[c].pc = "new" /\ Req(c).op = "logout"
      /\ (Finish(c, TRUE) \/ (Req(c).token \in DOMAIN db.sessions /\ StepTo(c, "revoke")))
  BY DEF HandleLogout, Begins, customerVars, GetByRefreshToken
<1>2. CASE Finish(c, TRUE) BY <1>1, <1>2, FinishStep
<1>3. CASE Req(c).token \in DOMAIN db.sessions /\ StepTo(c, "revoke")
  <2>1. Placed(c)' /\ ~Refreshing(c)' /\ NothingTaken(c) /\ OwnStep(c)
    BY <1>1, <1>3, StepToFacts DEF Placed, Refreshing
  <2> QED BY <1>1, <2>1, MovingStep
<1> QED BY <1>1, <1>2, <1>3

LEMMA HandleChangePasswordKeeps ==
  ASSUME SessionInv, NEW c \in Calls, HandleChangePassword(c) PROVE SessionInv'
<1> USE RequestOf, KeptSame
<1>1. /\ db' = db /\ call[c].pc = "new" /\ Req(c).op = "changePassword"
      /\ (Finish(c, FALSE) \/ StepWith(c, "updatePassword", TokenUser(c)))
  BY DEF HandleChangePassword, Begins, customerVars, ChangePassword
<1>2. CASE Finish(c, FALSE) BY <1>1, <1>2, FinishStep
<1>3. CASE StepWith(c, "updatePassword", TokenUser(c))
  <2>1. Placed(c)' /\ ~Refreshing(c)' /\ NothingTaken(c) /\ OwnStep(c)
    BY <1>1, <1>3, StepWithFacts DEF Placed, Refreshing, NothingTaken
  <2> QED BY <1>1, <2>1, MovingStep
<1> QED BY <1>1, <1>2, <1>3

LEMMA UpdatePasswordKeeps ==
  ASSUME SessionInv, NEW c \in Calls, UpdatePassword(c) PROVE SessionInv'
<1> USE RequestOf
<1>1. /\ call[c].pc = "updatePassword" /\ Req(c).op = "changePassword" /\ StepTo(c, "revokeAll")
      /\ db' = [db EXCEPT !.users[call[c].user].pass = Req(c).new]
  BY DEF UpdatePassword, At, Placed
<1>2. Req(c).new # None
  BY <1>1, FormAssumption DEF SessionRows, Req, None
<1>3. DOMAIN db' = DOMAIN db /\ db'.sessions = db.sessions /\ DOMAIN db'.users = DOMAIN db.users
  BY <1>1 DEF SessionRows, Tables
<1>4. ASSUME NEW v \in DOMAIN db.users
      PROVE  DOMAIN db'.users[v] = UserColumns /\ (db.users[v].pass # None => db'.users[v].pass # None)
  BY <1>1, <1>2 DEF SessionRows, Tables
<1>5. Kept(c) BY <1>3, <1>4 DEF Kept, UsersKept, SessionRows
<1>6. Placed(c)' /\ ~Refreshing(c)' /\ NothingTaken(c) /\ OwnStep(c)
  BY <1>1, StepToFacts DEF Placed, Refreshing
<1> QED BY <1>1, <1>5, <1>6, MovingStep
-----------------------------------------------------------------------------
(* Steps that open and close sessions. *)

\* Rows of sessions stay, but for their being revoked.
SessionsGrow(c) ==
  /\ DOMAIN db' = Tables /\ db'.users = db.users
  /\ DOMAIN db.sessions \subseteq DOMAIN db'.sessions
  /\ \A s \in DOMAIN db'.sessions : s = c \/ s \in DOMAIN db.sessions
  /\ \A s \in DOMAIN db'.sessions : /\ DOMAIN db'.sessions[s] = {"user", "revoked", "chain"}
                                    /\ db'.sessions[s].revoked \in BOOLEAN
  /\ \A s \in DOMAIN db.sessions : /\ db'.sessions[s].user = db.sessions[s].user
                                   /\ db'.sessions[s].chain = db.sessions[s].chain
                                   /\ Live(s)' => Live(s)

LEMMA OthersGrow ==
  ASSUME SessionInv, NEW c \in Calls, SessionsGrow(c), OwnStep(c), NEW d \in Calls, d # c
  PROVE  /\ SessionCall(d)' /\ (Taker(d)' <=> Taker(d)) /\ (Changer(d)' <=> Changer(d))
         /\ (Refreshing(d)' <=> Refreshing(d)) /\ call'[d] = call[d]
<1>1. call'[d] = call[d] BY DEF OwnStep
<1>2. /\ (Taker(d)' <=> Taker(d)) /\ (Changer(d)' <=> Changer(d)) /\ (Refreshing(d)' <=> Refreshing(d))
      /\ Req(d)' = Req(d)
  BY <1>1 DEF Taker, Changer, Refreshing, Req
<1>3. \A u : HasPassword(u)' <=> HasPassword(u)
  BY DEF SessionsGrow, HasPassword
<1>4. \A u : SessionsOf(u) \subseteq SessionsOf(u)'
  BY DEF SessionsGrow, SessionsOf
<1> SessionCall(d) BY DEF SessionInv, SessionCalls
<1>5. Placed(d)' BY <1>1, <1>2, <1>3 DEF SessionCall, Placed, SessionsGrow
<1>6. d \in DOMAIN db'.sessions => d \in DOMAIN db.sessions BY DEF SessionsGrow
<1>7. Refreshing(d)' => Req(d)'.token \in DOMAIN db'.sessions /\ call'[d].user = db'.sessions[Req(d)'.token].user
  BY <1>1, <1>2 DEF SessionCall, SessionsGrow
<1>8. Taker(d)' => Req(d)'.token \in DOMAIN db'.sessions /\ ~Live(Req(d).token)'
  <2> SUFFICES ASSUME Taker(d) PROVE Req(d).token \in DOMAIN db'.sessions /\ ~Live(Req(d).token)'
    BY <1>2
  <2>1. Req(d).token \in DOMAIN db.sessions /\ ~Live(Req(d).token) BY DEF SessionCall
  <2>2. ASSUME NEW s \in DOMAIN db.sessions, ~Live(s) PROVE s \in DOMAIN db'.sessions /\ ~Live(s)'
    BY <2>2 DEF SessionsGrow
  <2>3. Live(Req(d).token)' <=> ~db'.sessions[Req(d).token].revoked BY <1>2 DEF Live
  <2> QED BY <2>1, <2>2, <2>3 DEF Live
<1>9. Changer(d)' => call'[d].cut \subseteq SessionsOf(call[d].user)' /\ \A s \in call'[d].cut : ~Live(s)'
  <2> SUFFICES ASSUME Changer(d)
               PROVE  call[d].cut \subseteq SessionsOf(call[d].user)' /\ \A s \in call[d].cut : ~Live(s)'
    BY <1>1, <1>2
  <2>1. call[d].cut \subseteq SessionsOf(call[d].user) /\ \A s \in call[d].cut : ~Live(s) BY DEF SessionCall
  <2>2. call[d].cut \subseteq DOMAIN db.sessions BY <2>1 DEF SessionsOf
  <2>3. SessionsOf(call[d].user)' = {s \in DOMAIN db'.sessions : db'.sessions[s].user = call[d].user}
    BY <1>1 DEF SessionsOf
  <2> QED BY <2>1, <2>2, <2>3 DEF SessionsGrow, SessionsOf
<1> QED BY <1>1, <1>2, <1>5, <1>6, <1>7, <1>8, <1>9 DEF SessionCall

\* What a live session goes back to was not revoked, or the session was made
\* meanwhile: CutsHold for a session whose user is not known to be that of d.
LEMMA LiveBeyond ==
  ASSUME SessionInv, NEW d \in Calls, Changer(d), NEW t \in DOMAIN db.sessions, Live(t)
  PROVE  Beyond(d, t)
<1> SUFFICES ASSUME NEW x \in db.sessions[t].chain \cap call[d].cut PROVE Beyond(d, t)
  BY DEF Beyond
<1>1. x \in SessionsOf(call[d].user) BY DEF SessionInv, SessionCalls, SessionCall
<1>2. t \in SessionsOf(call[d].user) BY <1>1 DEF SessionInv, ChainsAreOfOneUser, SessionsOf
<1> QED BY <1>2 DEF SessionInv, CutsHold

\* No step of c takes a session that another request has taken.
LEMMA GrowStep ==
  ASSUME SessionInv, NEW c \in Calls, SessionsGrow(c), OwnStep(c), SessionCall(c)',
         \A s \in DOMAIN db'.sessions : db'.sessions[s].chain \subseteq DOMAIN db'.sessions,
         \A d \in Calls : d # c /\ Taker(d) /\ Taker(c)' => Req(d).token # Req(c).token,
         CutsHold', ChainsAreOfOneUser'
  PROVE  SessionInv'
<1>0. Calls' = Calls /\ \A d \in Calls : Req(d)' = Req(d)
  BY DEF OwnStep, Calls, Req
<1>1. SessionRows'
  <2>1. \A d \in Calls' : /\ d \in DOMAIN Ask /\ call'[d].ask = Ask[d]
                          /\ DOMAIN call'[d] = Fields /\ call'[d].took \in BOOLEAN
    BY <1>0 DEF OwnStep, SessionInv, SessionRows, Calls
  <2> QED BY <2>1 DEF SessionsGrow, SessionInv, SessionRows
<1>2. SessionCalls'
  BY <1>0, OthersGrow DEF SessionCalls
<1>3. OneTakerEach'
  BY <1>0, OthersGrow DEF OneTakerEach, SessionInv
<1> QED BY <1>1, <1>2, <1>3 DEF SessionInv

\* Without a new session, a new refresh or a new change of password.
LEMMA CutsKept ==
  ASSUME SessionInv, NEW c \in Calls, SessionsGrow(c), OwnStep(c), DOMAIN db'.sessions = DOMAIN db.sessions,
         ~Changer(c)', NEW d \in Calls, Changer(d)'
  PROVE  /\ \A s \in SessionsOf(call[d].user)' : Live(s)' => Beyond(d, s)'
         /\ \A e \in Calls : Refreshing(e)' /\ Refreshing(e) /\ e \notin call'[d].flying => Beyond(d, Req(e).token)'
<1>1. Changer(d) /\ call'[d] = call[d] /\ \A e \in Calls : Req(e)' = Req(e)
  BY OthersGrow DEF OwnStep, Req
<1>2. ASSUME NEW s \in DOMAIN db.sessions, Beyond(d, s) PROVE Beyond(d, s)'
  BY <1>1, <1>2 DEF Beyond, SessionsGrow
<1>3. ASSUME NEW s \in SessionsOf(call[d].user)', Live(s)' PROVE Beyond(d, s)'
  BY <1>1, <1>2, <1>3, LiveBeyond DEF SessionsGrow, SessionsOf
<1>4. ASSUME NEW e \in Calls, Refreshing(e), e \notin call'[d].flying PROVE Beyond(d, Req(e).token)'
  <2>1. Beyond(d, Req(e).token) BY <1>1, <1>4 DEF SessionInv, CutsHold
  <2>2. Req(e).token \in DOMAIN db.sessions BY <1>4 DEF SessionInv, SessionCalls, SessionCall
  <2>3. Beyond(d, Req(e).token)' <=> (db'.sessions[Req(e).token].chain \cap call[d].cut # {}
                                      => db'.sessions[Req(e).token].chain \cap call[d].flying # {})
    BY <1>1 DEF Beyond
  <2> QED BY <2>1, <2>2, <2>3 DEF SessionsGrow, Beyond
<1> QED BY <1>3, <1>4

LEMMA ChainsKept ==
  ASSUME SessionInv, NEW c \in Calls, SessionsGrow(c), DOMAIN db'.sessions = DOMAIN db.sessions
  PROVE  /\ ChainsAreOfOneUser'
         /\ \A s \in DOMAIN db'.sessions : db'.sessions[s].chain \subseteq DOMAIN db'.sessions
BY DEF SessionInv, SessionRows, ChainsAreOfOneUser, SessionsGrow

LEMMA GrowSame == ASSUME SessionRows, NEW c, db' = db PROVE SessionsGrow(c)
BY DEF SessionRows, SessionsGrow, Live

LEMMA HandleRefreshKeeps ==
  ASSUME SessionInv, NEW c \in Calls, HandleRefresh(c) PROVE SessionInv'
<1> USE RequestOf
<1> DEFINE t == Req(c).token
<1>1. /\ db' = db /\ call[c].pc = "new" /\ Req(c).op = "refresh" /\ ~call[c].took
      /\ \/ Finish(c, FALSE)
         \/ t \in DOMAIN db.sessions /\ Live(t) /\ StepWith(c, "revokeOld", db.sessions[t].user)
  BY DEF HandleRefresh, Begins, customerVars, Refresh, GetByRefreshToken, Live
<1>2. CASE Finish(c, FALSE) BY <1>1, <1>2, FinishStep, KeptSame
<1>3. CASE t \in DOMAIN db.sessions /\ Live(t) /\ StepWith(c, "revokeOld", db.sessions[t].user)
  <2>1. /\ OwnStep(c) /\ call'[c].pc = "revokeOld" /\ call'[c].user = db.sessions[t].user /\ ~call'[c].took
        /\ Req(c)' = Req(c)
    BY <1>1, <1>3, StepWithFacts
  <2>2. SessionsGrow(c) BY <1>1, GrowSame
  <2>3. ~Taker(c)' /\ ~Changer(c)' BY <2>1 DEF Taker, Changer
  <2>4. SessionCall(c)'
    <3>1. Placed(c)' BY <1>1, <2>1 DEF Placed
    <3> QED BY <1>1, <1>3, <2>1, <2>3, <3>1 DEF SessionCall
  <2>5. CutsHold'
    <3> SUFFICES ASSUME NEW d \in Calls, Changer(d)'
                 PROVE  /\ \A s \in SessionsOf(call[d].user)' : Live(s)' => Beyond(d, s)'
                        /\ \A e \in Calls : Refreshing(e)' /\ e \notin call'[d].flying => Beyond(d, Req(e).token)'
      BY <2>1 DEF CutsHold, OwnStep, Calls
    <3>1. d # c /\ Changer(d) /\ call'[d] = call[d] BY <2>2, <2>1, <2>3, OthersGrow
    <3>2. ASSUME NEW e \in Calls, Refreshing(e)', e \notin call'[d].flying PROVE Beyond(d, Req(e).token)'
      <4>1. CASE e = c
        <5>1. Beyond(d, t) BY <1>3, <3>1, LiveBeyond
        <5> QED BY <5>1, <4>1, <3>1, <2>1, <1>1 DEF Beyond
      <4>2. CASE e # c BY <4>2, <3>2, <2>1, <2>2, <2>3, <1>1, CutsKept, OthersGrow
      <4> QED BY <4>1, <4>2
    <3> QED BY <3>2, <2>1, <2>2, <2>3, <1>1, CutsKept
  <2> QED BY <1>1, <2>1, <2>2, <2>3, <2>4, <2>5, GrowStep, ChainsKept
<1> QED BY <1>1, <1>2, <1>3

\* A step that revokes the session t for c, which nobody has taken.
LEMMA RevokeFacts ==
  ASSUME SessionInv, NEW c, NEW t \in DOMAIN db.sessions, Revocable(t), db' = RevokeSession(t)
  PROVE  /\ SessionsGrow(c) /\ DOMAIN db'.sessions = DOMAIN db.sessions
         /\ db'.sessions[t].revoked /\ \A d \in Calls : Taker(d) => Req(d).token # t
<1>1. DOMAIN db' = DOMAIN db /\ db'.users = db.users /\ DOMAIN db'.sessions = DOMAIN db.sessions
  BY DEF RevokeSession, SessionInv, SessionRows, Tables
<1>2. ASSUME NEW s \in DOMAIN db.sessions
      PROVE  /\ DOMAIN db'.sessions[s] = {"user", "revoked", "chain"}
             /\ db'.sessions[s].user = db.sessions[s].user /\ db'.sessions[s].chain = db.sessions[s].chain
             /\ db'.sessions[s].revoked = (s = t \/ db.sessions[s].revoked)
  BY DEF RevokeSession, SessionInv, SessionRows, Tables
<1>3. \A d \in Calls : Taker(d) => Req(d).token # t
  BY DEF Revocable, SessionInv, SessionCalls, SessionCall, Live
<1>4. db'.sessions[t].revoked BY <1>2
<1>5. SessionsGrow(c)
  <2>1. \A s \in DOMAIN db.sessions : db'.sessions[s].revoked \in BOOLEAN /\ (Live(s)' => Live(s))
    BY <1>2 DEF Live, SessionInv, SessionRows
  <2> QED BY <1>1, <1>2, <2>1 DEF SessionsGrow, SessionInv, SessionRows
<1> QED BY <1>1, <1>3, <1>4, <1>5

LEMMA RevokeOldKeeps ==
  ASSUME SessionInv, NEW c \in Calls, RevokeOld(c) PROVE SessionInv'
<1> USE RequestOf
<1> DEFINE t == Req(c).token
<1>1. call[c].pc = "revokeOld" /\ Req(c).op = "refresh" /\ t \in DOMAIN db.sessions /\ Refreshing(c)
  BY DEF RevokeOld, At, Placed, SessionCall, Refreshing
<1>2. CASE StepTo(c, "loadUser") /\ db' = db
  <2>1. Placed(c)' /\ NothingTaken(c) /\ OwnStep(c) /\ call'[c].user = call[c].user
    BY <1>1, <1>2, StepToFacts DEF Placed
  <2> QED BY <1>1, <1>2, <2>1, MovingStep, KeptSame
<1>3. CASE /\ Revocable(t) /\ db' = RevokeSession(t)
           /\ call' = [call EXCEPT ![c].pc = "loadUser", ![c].took = TRUE]
  <2>1. /\ OwnStep(c) /\ call'[c].pc = "loadUser" /\ call'[c].user = call[c].user /\ call'[c].took
    BY <1>3 DEF OwnStep, SessionRows, Calls, Fields
  <2>2. Req(c)' = Req(c) /\ Taker(c)' /\ ~Changer(c)' /\ Refreshing(c)'
    BY <1>1, <2>1 DEF Taker, Changer, Refreshing
  <2>3. /\ SessionsGrow(c) /\ DOMAIN db'.sessions = DOMAIN db.sessions
        /\ db'.sessions[t].revoked /\ \A d \in Calls : Taker(d) => Req(d).token # t
    BY <1>1, <1>3, RevokeFacts
  <2>4. SessionCall(c)'
    <3>1. Placed(c)' BY <1>1, <2>1, <2>2 DEF Placed
    <3>2. ~Live(Req(c).token)' BY <2>2, <2>3 DEF Live
    <3>3. call[c].user = db.sessions[t].user /\ c \notin DOMAIN db.sessions BY <1>1 DEF SessionCall
    <3> QED BY <1>1, <2>1, <2>2, <2>3, <3>1, <3>2, <3>3 DEF SessionCall, SessionsGrow
  <2>5. CutsHold'
    <3> SUFFICES ASSUME NEW d \in Calls, Changer(d)'
                 PROVE  /\ \A s \in SessionsOf(call[d].user)' : Live(s)' => Beyond(d, s)'
                        /\ \A e \in Calls : Refreshing(e)' /\ e \notin call'[d].flying => Beyond(d, Req(e).token)'
      BY <2>1 DEF CutsHold, OwnStep, Calls
    <3>1. \A e \in Calls : Refreshing(e)' => Refreshing(e) BY <1>1, <2>1, <2>3, OthersGrow
    <3> QED BY <3>1, <2>1, <2>2, <2>3, CutsKept
  <2> QED BY <2>1, <2>3, <2>4, <2>5, GrowStep, ChainsKept
<1> QED BY <1>2, <1>3 DEF RevokeOld

LEMMA LogoutKeeps ==
  ASSUME SessionInv, NEW c \in Calls, Logout(c) PROVE SessionInv'
<1> USE RequestOf
<1> DEFINE t == Req(c).token
<1>1. call[c].pc = "revoke" /\ Req(c).op = "logout" /\ t \in DOMAIN db.sessions
  BY DEF Logout, At, Placed
<1>2. CASE Finish(c, FALSE) /\ db' = db BY <1>1, <1>2, FinishStep, KeptSame
<1>3. CASE /\ Revocable(t) /\ db' = RevokeSession(t)
           /\ call' = [call EXCEPT ![c].pc = "done", ![c].took = TRUE]
  <2>1. /\ OwnStep(c) /\ call'[c].pc = "done" /\ call'[c].user = call[c].user /\ call'[c].took
    BY <1>3 DEF OwnStep, SessionRows, Calls, Fields
  <2>2. Req(c)' = Req(c) /\ Taker(c)' /\ ~Changer(c)' /\ ~Refreshing(c)'
    BY <1>1, <2>1 DEF Taker, Changer, Refreshing
  <2>3. /\ SessionsGrow(c) /\ DOMAIN db'.sessions = DOMAIN db.sessions
        /\ db'.sessions[t].revoked /\ \A d \in Calls : Taker(d) => Req(d).token # t
    BY <1>1, <1>3, RevokeFacts
  <2>4. SessionCall(c)'
    <3>1. Placed(c)' BY <1>1, <2>1, <2>2 DEF Placed
    <3>2. ~Live(Req(c).token)' BY <2>2, <2>3 DEF Live
    <3> QED BY <1>1, <2>1, <2>2, <2>3, <3>1, <3>2 DEF SessionCall, SessionsGrow
  <2>5. CutsHold'
    <3> SUFFICES ASSUME NEW d \in Calls, Changer(d)'
                 PROVE  /\ \A s \in SessionsOf(call[d].user)' : Live(s)' => Beyond(d, s)'
                        /\ \A e \in Calls : Refreshing(e)' /\ e \notin call'[d].flying => Beyond(d, Req(e).token)'
      BY <2>1 DEF CutsHold, OwnStep, Calls
    <3>1. \A e \in Calls : Refreshing(e)' => Refreshing(e) BY <2>1, <2>2, <2>3, OthersGrow
    <3> QED BY <3>1, <2>1, <2>2, <2>3, CutsKept
  <2> QED BY <2>1, <2>3, <2>4, <2>5, GrowStep, ChainsKept
<1> QED BY <1>2, <1>3 DEF Logout

\* The new session goes back to c and to what the refreshed one goes back to.
LEMMA CreateSessionKeeps ==
  ASSUME SessionInv, NEW c \in Calls, CreateSession(c) PROVE SessionInv'
<1> USE RequestOf
<1> DEFINE t == Req(c).token
           before == IF Req(c).op = "refresh" THEN db.sessions[t].chain ELSE {}
           row == [user |-> call[c].user, revoked |-> FALSE, chain |-> before \cup {c}]
<1>1. /\ call[c].pc = "createSession" /\ Req(c).op \in {"register", "login", "refresh"}
      /\ HasPassword(call[c].user) /\ c \notin DOMAIN db.sessions
      /\ Req(c).op = "refresh" => t \in DOMAIN db.sessions /\ call[c].user = db.sessions[t].user
  BY DEF CreateSession, At, Placed, SessionCall, Refreshing
<1>2. db' = [db EXCEPT !.sessions = Insert(@, c, row)] /\ Finish(c, TRUE)
  BY DEF CreateSession
<1>3. /\ OwnStep(c) /\ call'[c].pc \in {"done", "failed"} /\ call'[c].user = call[c].user /\ NothingTaken(c)
      /\ call'[c].took = call[c].took /\ Req(c)' = Req(c)
  BY <1>2, FinishFacts
<1>4. call'[c].pc = "done" BY <1>2, StepToFacts DEF Finish
<1>5. DOMAIN db' = Tables /\ db'.users = db.users /\ db'.sessions = Insert(db.sessions, c, row)
  BY <1>2 DEF SessionRows, Tables
<1>6. /\ DOMAIN db'.sessions = DOMAIN db.sessions \cup {c} /\ db'.sessions[c] = row
      /\ \A s \in DOMAIN db.sessions : db'.sessions[s] = db.sessions[s]
  BY <1>1, <1>5 DEF Insert
<1>7. SessionsGrow(c)
  <2>1. DOMAIN row = {"user", "revoked", "chain"} /\ row.revoked \in BOOLEAN OBVIOUS
  <2> HIDE DEF row
  <2>2. \A s \in DOMAIN db.sessions : Live(s)' => Live(s) BY <1>6 DEF Live
  <2> QED BY <1>5, <1>6, <2>1, <2>2 DEF SessionsGrow, SessionRows
<1>8. ~Changer(c)' /\ (Taker(c)' => Taker(c)) /\ ~Refreshing(c)'
  BY <1>1, <1>3 DEF Changer, Taker, Refreshing
<1>9. SessionCall(c)'
  <2>1. Placed(c)' BY <1>4 DEF Placed
  <2>2. Taker(c)' => Req(c)'.token \in DOMAIN db'.sessions /\ ~Live(Req(c).token)'
    BY <1>3, <1>6, <1>8 DEF SessionCall, Live
  <2> QED BY <1>4, <1>8, <2>1, <2>2 DEF SessionCall
<1>10. ChainsAreOfOneUser' /\ \A s \in DOMAIN db'.sessions : db'.sessions[s].chain \subseteq DOMAIN db'.sessions
  <2>1. ASSUME NEW s \in DOMAIN db.sessions
        PROVE  /\ db'.sessions[s].user \in DOMAIN db.users /\ db.users[db'.sessions[s].user].pass # None
               /\ db'.sessions[s].chain \subseteq DOMAIN db.sessions
               /\ \A x \in db'.sessions[s].chain : db'.sessions[x].user = db'.sessions[s].user
    BY <1>6 DEF SessionInv, SessionRows, ChainsAreOfOneUser
  <2>2. /\ row.user \in DOMAIN db.users /\ db.users[row.user].pass # None
        /\ row.chain \subseteq DOMAIN db.sessions \cup {c}
        /\ \A x \in row.chain : x # c => x \in DOMAIN db.sessions /\ db.sessions[x].user = row.user
    BY <1>1 DEF HasPassword, SessionInv, SessionRows, ChainsAreOfOneUser
  <2>3. \A x \in row.chain : db'.sessions[x].user = row.user BY <1>6, <2>2
  <2> QED BY <2>1, <2>2, <2>3, <1>5, <1>6, Zenon DEF ChainsAreOfOneUser
<1>11. CutsHold'
  <2> SUFFICES ASSUME NEW d \in Calls, Changer(d)'
               PROVE  /\ \A s \in SessionsOf(call[d].user)' : Live(s)' => Beyond(d, s)'
                      /\ \A e \in Calls : Refreshing(e)' /\ e \notin call'[d].flying => Beyond(d, Req(e).token)'
    BY <1>3 DEF CutsHold, OwnStep, Calls
  <2>1. d # c /\ Changer(d) /\ call'[d] = call[d] /\ \A e \in Calls : Req(e)' = Req(e)
    BY <1>3, <1>7, <1>8, OthersGrow DEF OwnStep, Req
  <2>2. ASSUME NEW s \in DOMAIN db.sessions, Beyond(d, s) PROVE Beyond(d, s)'
    BY <2>1, <2>2, <1>6 DEF Beyond
  <2>3. Beyond(d, c)'
    <3>1. call[d].cut \subseteq DOMAIN db.sessions
      BY <2>1 DEF SessionInv, SessionCalls, SessionCall, SessionsOf
    <3>2. CASE Req(c).op # "refresh" BY <3>1, <3>2, <2>1, <1>1, <1>6 DEF Beyond
    <3>3. CASE Req(c).op = "refresh" /\ c \in call[d].flying BY <3>3, <2>1, <1>6 DEF Beyond
    <3>4. CASE Req(c).op = "refresh" /\ c \notin call[d].flying
      <4>1. Beyond(d, t) BY <3>4, <2>1, <1>1 DEF SessionInv, CutsHold, Refreshing
      <4> QED BY <4>1, <3>1, <3>4, <2>1, <1>1, <1>6 DEF Beyond
    <3> QED BY <3>2, <3>3, <3>4
  <2>4. ASSUME NEW s \in SessionsOf(call[d].user)', Live(s)' PROVE Beyond(d, s)'
    <3>1. CASE s = c BY <3>1, <2>3
    <3>2. CASE s # c
      <4>1. s \in DOMAIN db.sessions /\ Live(s) BY <2>4, <3>2, <1>6 DEF SessionsOf, Live
      <4> QED BY <4>1, <2>1, <2>2, LiveBeyond
    <3> QED BY <3>1, <3>2
  <2>5. ASSUME NEW e \in Calls, Refreshing(e)', e \notin call'[d].flying PROVE Beyond(d, Req(e).token)'
    <3>1. e # c /\ Refreshing(e) BY <2>5, <1>3, <1>7, <1>8, OthersGrow
    <3>2. Beyond(d, Req(e).token) /\ Req(e).token \in DOMAIN db.sessions
      BY <3>1, <2>1, <2>5 DEF SessionInv, CutsHold, SessionCalls, SessionCall
    <3> QED BY <3>2, <2>1, <1>6 DEF Beyond
  <2> QED BY <2>4, <2>5
<1> QED BY <1>3, <1>7, <1>8, <1>9, <1>10, <1>11, GrowStep DEF SessionInv, OneTakerEach

\* Every refresh under way is in flying, and no session of the user is live.
LEMMA RevokeAllKeeps ==
  ASSUME SessionInv, NEW c \in Calls, RevokeAll(c) PROVE SessionInv'
<1> USE RequestOf
<1> DEFINE u == call[c].user
<1>1. call[c].pc = "revokeAll" /\ Req(c).op = "changePassword" /\ c \notin DOMAIN db.sessions
  BY DEF RevokeAll, At, Placed, SessionCall
<1>2. CASE Finish(c, TRUE) /\ db' = db BY <1>1, <1>2, FinishStep, KeptSame
<1>3. CASE /\ db' = RevokeAllForUser(u)
           /\ call' = [call EXCEPT ![c].pc = "done", ![c].took = TRUE, ![c].cut = SessionsOf(u),
                                   ![c].flying = {d \in Calls : InFlight(d)}]
  <2>1. /\ OwnStep(c) /\ call'[c].pc = "done" /\ call'[c].user = u /\ call'[c].took
        /\ call'[c].cut = SessionsOf(u) /\ call'[c].flying = {d \in Calls : InFlight(d)}
    BY <1>3 DEF OwnStep, SessionRows, Calls, Fields
  <2>2. Req(c)' = Req(c) /\ ~Taker(c)' /\ Changer(c)' /\ ~Refreshing(c)'
    BY <1>1, <2>1 DEF Taker, Changer, Refreshing
  <2>3. /\ DOMAIN db' = DOMAIN db /\ db'.users = db.users
        /\ db'.sessions = [s \in DOMAIN db.sessions |-> IF s \in SessionsOf(u)
                             THEN [db.sessions[s] EXCEPT !.revoked = TRUE] ELSE db.sessions[s]]
    BY <1>3 DEF RevokeAllForUser, SessionRows, Tables
  <2>4. ASSUME NEW s \in DOMAIN db.sessions
        PROVE  /\ DOMAIN db'.sessions[s] = {"user", "revoked", "chain"}
               /\ db'.sessions[s].user = db.sessions[s].user /\ db'.sessions[s].chain = db.sessions[s].chain
               /\ db'.sessions[s].revoked = (s \in SessionsOf(u) \/ db.sessions[s].revoked)
    BY <2>3, ZenonT(40) DEF SessionRows
  <2>5. DOMAIN db'.sessions = DOMAIN db.sessions BY <2>3
  <2>6. SessionsGrow(c)
    <3>1. \A s \in DOMAIN db.sessions : db'.sessions[s].revoked \in BOOLEAN /\ (Live(s)' => Live(s))
      BY <2>4 DEF Live, SessionRows
    <3> QED BY <2>3, <2>4, <2>5, <3>1 DEF SessionsGrow, SessionRows
  <2>7. SessionsOf(u) = {s \in DOMAIN db'.sessions : db'.sessions[s].user = u} /\ \A s \in SessionsOf(u) : ~Live(s)'
    BY <2>4, <2>5 DEF SessionsOf, Live
  <2>8. SessionsOf(call[c].user)' = SessionsOf(u)
    BY <2>1, <2>7 DEF SessionsOf
  <2>9. SessionCall(c)'
    <3>1. Placed(c)' BY <2>1 DEF Placed
    <3> QED BY <1>1, <2>1, <2>2, <2>5, <2>7, <2>8, <3>1 DEF SessionCall
  <2>10. CutsHold'
    <3> SUFFICES ASSUME NEW d \in Calls, Changer(d)'
                 PROVE  /\ \A s \in SessionsOf(call[d].user)' : Live(s)' => Beyond(d, s)'
                        /\ \A e \in Calls : Refreshing(e)' /\ e \notin call'[d].flying => Beyond(d, Req(e).token)'
      BY <2>1 DEF CutsHold, OwnStep, Calls
    <3>1. \A e \in Calls : Refreshing(e)' => Refreshing(e) /\ e # c
      BY <2>1, <2>2, <2>6, OthersGrow
    <3>2. CASE d = c
      <4>1. \A e \in Calls : Refreshing(e)' => e \in call'[d].flying
        BY <3>1, <3>2, <2>1 DEF Refreshing, InFlight
      <4> QED BY <4>1, <3>2, <2>7, <2>8
    <3>3. CASE d # c
      <4>1. Changer(d) /\ call'[d] = call[d] /\ \A e \in Calls : Req(e)' = Req(e)
        BY <3>3, <2>1, <2>6, OthersGrow DEF OwnStep, Req
      <4>2. ASSUME NEW s \in DOMAIN db.sessions, Beyond(d, s) PROVE Beyond(d, s)'
        BY <4>1, <4>2, <2>4 DEF Beyond
      <4>3. ASSUME NEW s \in SessionsOf(call[d].user)', Live(s)' PROVE Beyond(d, s)'
        BY <4>1, <4>2, <4>3, <2>5, <2>6, LiveBeyond DEF SessionsGrow, SessionsOf
      <4>4. ASSUME NEW e \in Calls, Refreshing(e)', e \notin call'[d].flying PROVE Beyond(d, Req(e).token)'
        <5>1. Beyond(d, Req(e).token) /\ Req(e).token \in DOMAIN db.sessions
          BY <3>1, <4>1, <4>4 DEF SessionInv, CutsHold, SessionCalls, SessionCall
        <5> QED BY <5>1, <4>1, <2>4 DEF Beyond
      <4> QED BY <4>3, <4>4
    <3> QED BY <3>2, <3>3
  <2> QED BY <2>1, <2>2, <2>5, <2>6, <2>9, <2>10, GrowStep, ChainsKept
<1> QED BY <1>2, <1>3 DEF RevokeAll

LEMMA SessionsKeep ==
  ASSUME SessionInv, NEW c \in Calls, Sessions(c) PROVE SessionInv'
BY CreateSessionKeeps, HandleLoginKeeps, HandleRefreshKeeps, RevokeOldKeeps, LoadUserKeeps, HandleLogoutKeeps,
   LogoutKeeps, HandleChangePasswordKeeps, UpdatePasswordKeeps, RevokeAllKeeps DEF Sessions
-----------------------------------------------------------------------------
(* All other requests. *)

LEMMA IdentifiesKeep ==
  ASSUME SessionInv, NEW c \in Calls, Identifies(c) PROVE SessionInv'
<1> USE RequestOf
<1>1. CASE HandleRequestOTP(c)
  <2>1. /\ db' = db /\ call[c].pc = "new"
        /\ (Finish(c, FALSE) \/ StepWith(c, "recordKYC", TokenUser(c)))
    BY <1>1 DEF HandleRequestOTP, Begins, RequestOTP
  <2> QED BY <2>1, KeptSame, FinishStep, StepWithStep DEF Watched
<1>2. CASE CreateVerification(c)
  <2>1. /\ call[c].pc = "recordKYC" /\ Finish(c, TRUE)
        /\ \E x : db' = [db EXCEPT !.kyc = x]
    BY <1>2 DEF CreateVerification, At
  <2>2. Kept(c) BY <2>1, KeptOther DEF SessionRows, Tables
  <2> QED BY <2>1, <2>2, FinishStep
<1>3. CASE HandleVerifyOTP(c)
  <2>1. call[c].pc = "new" BY <1>3 DEF HandleVerifyOTP, Begins
  <2>2. CASE StepWith(c, "demographics", TokenUser(c)) /\ db' = db
    BY <2>1, <2>2, KeptSame, StepWithStep DEF Watched
  <2>3. CASE Finish(c, FALSE) /\ db' = UpdateKYCStatus(Req(c).tx, "failed")
    <3>1. DOMAIN db' = DOMAIN db /\ db'.users = db.users /\ db'.sessions = db.sessions
      BY <2>3 DEF UpdateKYCStatus, SessionRows, Tables
    <3> QED BY <2>1, <2>3, <3>1, KeptOther, FinishStep
  <2> QED BY <1>3, <2>2, <2>3 DEF HandleVerifyOTP, VerifyOTP
<1>4. CASE UpdateDemographics(c)
  <2>1. /\ call[c].pc = "demographics" /\ StepTo(c, "raiseLevel")
        /\ db' = [db EXCEPT !.users[call[c].user].name = Req(c).fin]
    BY <1>4 DEF UpdateDemographics, At
  <2>2. Kept(c) BY <2>1, KeptColumn
  <2> QED BY <2>1, <2>2, StepToStep DEF Watched
<1>5. CASE RaiseLevel(c)
  <2>1. /\ call[c].pc = "raiseLevel" /\ Finish(c, TRUE)
        /\ db' = [db EXCEPT !.users[call[c].user].kyc = KYCVerified]
    BY <1>5 DEF RaiseLevel, At, UpdateKYCLevel
  <2>2. Kept(c) BY <2>1, KeptColumn
  <2> QED BY <2>1, <2>2, FinishStep
<1> QED BY <1>1, <1>2, <1>3, <1>4, <1>5 DEF Identifies

LEMMA SettingsKeep ==
  ASSUME SessionInv, NEW c \in Calls, Settings(c) PROVE SessionInv'
<1> USE RequestOf
<1>1. CASE HandleDeepLink(c)
  <2>1. call[c].pc = "new" BY <1>1 DEF HandleDeepLink, Begins
  <2>2. CASE StepWith(c, "bind", db.links[Req(c).link].user) /\ db' = Consume(Req(c).link)
    <3>1. DOMAIN db' = DOMAIN db /\ db'.users = db.users /\ db'.sessions = db.sessions
      BY <2>2 DEF Consume, SessionRows, Tables
    <3> QED BY <2>1, <2>2, <3>1, KeptOther, StepWithStep DEF Watched
  <2>3. CASE Finish(c, FALSE) /\ db' = db BY <2>1, <2>3, KeptSame, FinishStep
  <2> QED BY <1>1, <2>2, <2>3 DEF HandleDeepLink
<1>2. CASE BindTelegram(c)
  <2>1. call[c].pc = "bind" BY <1>2 DEF BindTelegram, At
  <2>2. CASE Finish(c, TRUE) /\ db' = [db EXCEPT !.users[call[c].user].telegram = Req(c).telegram]
    BY <2>1, <2>2, KeptColumn, FinishStep
  <2>3. CASE Finish(c, FALSE) /\ db' = db BY <2>1, <2>3, KeptSame, FinishStep
  <2> QED BY <1>2, <2>2, <2>3 DEF BindTelegram
<1>3. CASE HandleWaterfall(c)
  <2>1. call[c].pc = "new" BY <1>3 DEF HandleWaterfall, Begins
  <2>2. CASE Finish(c, TRUE) /\ db' = [db EXCEPT !.users[TokenUser(c)].waterfall = Req(c).order]
    BY <2>1, <2>2, KeptColumn, FinishStep
  <2>3. CASE Finish(c, FALSE) /\ db' = db BY <2>1, <2>3, KeptSame, FinishStep
  <2> QED BY <1>3, <2>2, <2>3 DEF HandleWaterfall, UpdateSpendWaterfall
<1> QED BY <1>1, <1>2, <1>3 DEF Settings

LEMMA DiesKeeps ==
  ASSUME SessionInv, NEW c \in Calls, Dies(c) PROVE SessionInv'
BY RequestOf, KeptSame, FinishStep DEF Dies, InFlight

LEMMA CustomerStepKeeps ==
  ASSUME SessionInv, NEW c \in Calls, CustomerStep(c) PROVE SessionInv'
BY RegistersKeep, SessionsKeep, IdentifiesKeep, SettingsKeep, DiesKeeps DEF CustomerStep

\* A request that is none of services/auth may note what it took.
LEMMA NotedStep ==
  ASSUME SessionInv, NEW c \in Calls, Kept(c), call[c].pc # "done",
         Req(c).op \notin {"refresh", "logout", "changePassword"}, OwnStep(c),
         call'[c].pc \notin Watched \/ (call'[c].pc = "upsert" /\ Req(c).op \in {"createRecipient", "saveRecipient"})
  PROVE  SessionInv'
<1>1. Req(c)' = Req(c) BY DEF OwnStep, Req
<1>2. Placed(c)' /\ ~Refreshing(c)' BY <1>1 DEF Placed, Refreshing, Watched
<1> QED BY <1>2, MovingStep

LEMMA DirectoryStepKeeps ==
  ASSUME SessionInv, NEW c \in Calls, DirectoryStep(c) PROVE SessionInv'
<1> USE RequestOf
<1>1. CASE HandleCreateRecipient(c)
  <2>1. db' = db /\ call[c].pc = "new" /\ Req(c).op = "createRecipient"
    BY <1>1 DEF HandleCreateRecipient, Begins, customerVars
  <2>2. CASE Finish(c, FALSE) BY <2>1, <2>2, KeptSame, FinishStep
  <2>3. ASSUME NEW x, NEW y, call' = [call EXCEPT ![c].pc = "upsert", ![c].user = x, ![c].row = y]
        PROVE  SessionInv'
    <3>1. OwnStep(c) /\ call'[c].pc = "upsert" BY <2>3 DEF OwnStep, SessionRows, Calls, Fields
    <3> QED BY <2>1, <3>1, KeptSame, NotedStep
  <2> QED BY <1>1, <2>2, <2>3 DEF HandleCreateRecipient
<1>2. CASE SaveFromTransfer(c)
  <2>1. db' = db /\ call[c].pc = "new" /\ Req(c).op = "saveRecipient"
    BY <1>2 DEF SaveFromTransfer, Begins, customerVars
  <2>2. CASE Finish(c, FALSE) BY <2>1, <2>2, KeptSame, FinishStep
  <2>3. ASSUME NEW x, NEW y, call' = [call EXCEPT ![c].pc = "upsert", ![c].user = x, ![c].row = y]
        PROVE  SessionInv'
    <3>1. OwnStep(c) /\ call'[c].pc = "upsert" BY <2>3 DEF OwnStep, SessionRows, Calls, Fields
    <3> QED BY <2>1, <3>1, KeptSame, NotedStep
  <2> QED BY <1>2, <2>2, <2>3 DEF SaveFromTransfer
<1>3. CASE UpsertRecipient(c)
  <2>1. /\ call[c].pc = "upsert" /\ Req(c).op \in {"createRecipient", "saveRecipient"}
        /\ db' = Upsert(<<"recipient", c>>, call[c].row)
        /\ call' = [call EXCEPT ![c].pc = "done", ![c].took = TRUE]
    BY <1>3 DEF UpsertRecipient, At, Placed
  <2>2. DOMAIN db' = DOMAIN db /\ db'.users = db.users /\ db'.sessions = db.sessions
    BY <2>1 DEF Upsert, SessionRows, Tables
  <2>3. OwnStep(c) /\ call'[c].pc = "done" BY <2>1 DEF OwnStep, SessionRows, Calls, Fields
  <2> QED BY <2>1, <2>2, <2>3, KeptOther, NotedStep DEF Watched
<1>4. CASE HandleSetFavorite(c)
  <2>1. call[c].pc = "new" BY <1>4 DEF HandleSetFavorite, Begins
  <2>2. CASE Finish(c, FALSE) /\ db' = db BY <2>1, <2>2, KeptSame, FinishStep
  <2>3. ASSUME NEW x, db' = UpdateFavorite(x, Req(c).favorite), Finish(c, TRUE) PROVE SessionInv'
    <3>1. DOMAIN db' = DOMAIN db /\ db'.users = db.users /\ db'.sessions = db.sessions
      BY <2>3 DEF UpdateFavorite, SessionRows, Tables
    <3> QED BY <2>1, <2>3, <3>1, KeptOther, FinishStep
  <2> QED BY <1>4, <2>2, <2>3 DEF HandleSetFavorite
<1>5. CASE HandleArchive(c)
  <2>1. call[c].pc = "new" BY <1>5 DEF HandleArchive, Begins
  <2>2. CASE Finish(c, FALSE) /\ db' = db BY <2>1, <2>2, KeptSame, FinishStep
  <2>3. ASSUME NEW x, db' = ArchiveRow(x), Finish(c, TRUE) PROVE SessionInv'
    <3>1. DOMAIN db' = DOMAIN db /\ db'.users = db.users /\ db'.sessions = db.sessions
      BY <2>3 DEF ArchiveRow, SessionRows, Tables
    <3> QED BY <2>1, <2>3, <3>1, KeptOther, FinishStep
  <2> QED BY <1>5, <2>2, <2>3 DEF HandleArchive
<1>6. CASE CreateBeneficiary(c)
  <2>1. call[c].pc = "new" BY <1>6 DEF CreateBeneficiary, Begins
  <2>2. CASE Finish(c, FALSE) /\ db' = db BY <2>1, <2>2, KeptSame, FinishStep
  <2>3. ASSUME NEW x, db' = [db EXCEPT !.beneficiaries = x], Finish(c, TRUE) PROVE SessionInv'
    <3>1. DOMAIN db' = DOMAIN db /\ db'.users = db.users /\ db'.sessions = db.sessions
      BY <2>3 DEF SessionRows, Tables
    <3> QED BY <2>1, <2>3, <3>1, KeptOther, FinishStep
  <2> QED BY <1>6, <2>2, <2>3 DEF CreateBeneficiary
<1>7. CASE DeleteBeneficiary(c)
  <2>1. call[c].pc = "new" /\ Req(c).op = "deleteBeneficiary" BY <1>7 DEF DeleteBeneficiary, Begins
  <2>2. CASE Finish(c, FALSE) /\ db' = db BY <2>1, <2>2, KeptSame, FinishStep
  <2>3. ASSUME NEW b, db' = [db EXCEPT !.beneficiaries[b].deleted = TRUE],
               call' = [call EXCEPT ![c].pc = "done", ![c].took = TRUE]
        PROVE  SessionInv'
    <3>1. DOMAIN db' = DOMAIN db /\ db'.users = db.users /\ db'.sessions = db.sessions
      BY <2>3 DEF SessionRows, Tables
    <3>2. OwnStep(c) /\ call'[c].pc = "done" BY <2>3 DEF OwnStep, SessionRows, Calls, Fields
    <3> QED BY <2>1, <3>1, <3>2, KeptOther, NotedStep DEF Watched
  <2> QED BY <1>7, <2>2, <2>3 DEF DeleteBeneficiary
<1>8. CASE CreateCard(c)
  <2>1. call[c].pc = "new" BY <1>8 DEF CreateCard, Begins
  <2>2. CASE Finish(c, FALSE) /\ db' = db BY <2>1, <2>2, KeptSame, FinishStep
  <2>3. ASSUME NEW x, db' = [db EXCEPT !.cards = x], Finish(c, TRUE) PROVE SessionInv'
    <3>1. DOMAIN db' = DOMAIN db /\ db'.users = db.users /\ db'.sessions = db.sessions
      BY <2>3 DEF SessionRows, Tables
    <3> QED BY <2>1, <2>3, <3>1, KeptOther, FinishStep
  <2> QED BY <1>8, <2>2, <2>3 DEF CreateCard
<1>9. CASE HandleCard(c)
  <2>1. /\ db' = db /\ call[c].pc = "new"
        /\ (Finish(c, FALSE) \/ StepWith(c, "writeCard", TokenUser(c)))
    BY <1>9 DEF HandleCard, Begins, customerVars
  <2> QED BY <2>1, KeptSame, FinishStep, StepWithStep DEF Watched
<1>10. CASE WriteCard(c)
  <2>1. /\ call[c].pc = "writeCard" /\ Finish(c, TRUE)
        /\ db' = UpdateCard(Req(c).id, CardColumn[Req(c).op], Req(c).value)
    BY <1>10 DEF WriteCard, At
  <2>2. DOMAIN db' = DOMAIN db /\ db'.users = db.users /\ db'.sessions = db.sessions
    BY <2>1 DEF UpdateCard, SessionRows, Tables
  <2> QED BY <2>1, <2>2, KeptOther, FinishStep
<1> QED BY <1>1, <1>2, <1>3, <1>4, <1>5, <1>6, <1>7, <1>8, <1>9, <1>10 DEF DirectoryStep

LEMMA StaffKeeps ==
  ASSUME SessionInv, NEW c \in Calls, Staff(c) PROVE SessionInv'
<1> USE RequestOf, KeptSame
<1>0. CASE IssueToken(c)
  BY <1>0, FinishStep DEF IssueToken, At, customerVars
<1>1. CASE HandleAdminLogin(c)
  <2>1. db' = db /\ call[c].pc = "new" /\ Req(c).op = "adminLogin" BY <1>1 DEF HandleAdminLogin, Begins, customerVars
  <2>2. CASE Finish(c, FALSE) BY <2>1, <2>2, FinishStep
  <2>3. ASSUME NEW x, NEW row, call' = [call EXCEPT ![c].pc = "issueToken", ![c].user = x, ![c].row = row] PROVE SessionInv'
    <3>1. OwnStep(c) /\ call'[c].pc = "issueToken" BY <2>3 DEF OwnStep, SessionRows, Calls, Fields
    <3> QED BY <2>1, <3>1, NotedStep DEF Watched
  <2> QED BY <1>1, <2>2, <2>3 DEF HandleAdminLogin
<1>2. CASE HandleCreateStaff(c)
  BY <1>2, FinishStep DEF HandleCreateStaff, Admitted, Begins, customerVars
<1>3. ASSUME NEW x, NEW row, Keep(c, x, row), db' = db, call[c].pc = "new",
             Req(c).op \in {"updateStaff", "staffPassword"}
      PROVE  SessionInv'
  <2>1. OwnStep(c) /\ call'[c].pc = "writeStaff" BY <1>3 DEF Keep, OwnStep, SessionRows, Calls, Fields
  <2> QED BY <1>3, <2>1, NotedStep DEF Watched
<1>4. CASE HandleUpdateStaff(c)
  <2>1. db' = db /\ call[c].pc = "new" /\ Req(c).op = "updateStaff"
    BY <1>4 DEF HandleUpdateStaff, Admitted, Begins, customerVars
  <2>2. CASE Finish(c, FALSE) BY <2>1, <2>2, FinishStep
  <2>3. CASE Keep(c, Req(c).id, UpdatedStaff(Req(c), office.staff[Req(c).id])) BY <2>1, <2>3, <1>3
  <2> QED BY <1>4, <2>2, <2>3 DEF HandleUpdateStaff
<1>5. CASE HandleStaffPassword(c)
  <2>1. db' = db /\ call[c].pc = "new" /\ Req(c).op = "staffPassword"
    BY <1>5 DEF HandleStaffPassword, Begins, customerVars
  <2>2. CASE Finish(c, FALSE) BY <2>1, <2>2, FinishStep
  <2>3. CASE Keep(c, Holder(c), [office.staff[Holder(c)] EXCEPT !.pass = Req(c).new]) BY <2>1, <2>3, <1>3
  <2> QED BY <1>5, <2>2, <2>3 DEF HandleStaffPassword, ChangeStaffPassword
<1>6. CASE WriteStaff(c)
  BY <1>6, FinishStep DEF WriteStaff, At, customerVars
<1>7. CASE HandleDeactivateStaff(c)
  <2>1. db' = db /\ call[c].pc = "new" /\ Req(c).op = "deactivateStaff"
    BY <1>7 DEF HandleDeactivateStaff, Admitted, Begins, customerVars
  <2>2. CASE Finish(c, FALSE) BY <2>1, <2>2, FinishStep
  <2>3. CASE call' = [call EXCEPT ![c].pc = "done", ![c].took = TRUE, ![c].cut = DOMAIN office.tokens \cup LoggingIn]
    <3>1. OwnStep(c) /\ call'[c].pc = "done" BY <2>3 DEF OwnStep, SessionRows, Calls, Fields
    <3> QED BY <2>1, <3>1, NotedStep DEF Watched
  <2> QED BY <1>7, <2>2, <2>3 DEF HandleDeactivateStaff
<1>8. CASE Forbidden(c)
  BY <1>8, FinishStep DEF Forbidden, Begins, customerVars
<1> QED BY <1>0, <1>1, <1>2, <1>4, <1>5, <1>6, <1>7, <1>8 DEF Staff

LEMMA CustomersKeep ==
  ASSUME SessionInv, NEW c \in Calls, Customers(c) PROVE SessionInv'
<1> USE RequestOf, KeptSame
<1>1. CASE HandleFreeze(c)
  <2>1. /\ call[c].pc = "new" /\ Finish(c, Known(c))
        /\ (db' = db \/ db' = [db EXCEPT !.users[Req(c).id].frozen = TRUE])
    BY <1>1 DEF HandleFreeze, OnCustomer, Admitted, Begins, FreezeUser
  <2> QED BY <2>1, KeptColumn, FinishStep
<1>2. CASE HandleUnfreeze(c)
  <2>1. /\ call[c].pc = "new" /\ Finish(c, Known(c))
        /\ (db' = db \/ db' = [db EXCEPT !.users[Req(c).id].frozen = FALSE])
    BY <1>2 DEF HandleUnfreeze, OnCustomer, Admitted, Begins, UnfreezeUser
  <2> QED BY <2>1, KeptColumn, FinishStep
<1>3. CASE HandleKYCOverride(c)
  <2>1. /\ call[c].pc = "new" /\ Finish(c, Known(c))
        /\ (db' = db \/ db' = [db EXCEPT !.users[Req(c).id].kyc = Req(c).level])
    BY <1>3 DEF HandleKYCOverride, OnCustomer, Admitted, Begins, UpdateKYCLevel
  <2> QED BY <2>1, KeptColumn, FinishStep
<1>4. CASE HandleAdminCard(c)
  <2>1. /\ call[c].pc = "new" /\ Finish(c, Req(c).id \in DOMAIN db.cards)
        /\ (db' = db \/ db' = UpdateCard(Req(c).id, Req(c).column, Req(c).value))
    BY <1>4 DEF HandleAdminCard, Admitted, Begins
  <2>2. DOMAIN db' = DOMAIN db /\ db'.users = db.users /\ db'.sessions = db.sessions
    BY <2>1 DEF UpdateCard, SessionRows, Tables
  <2> QED BY <2>1, <2>2, KeptOther, FinishStep
<1>5. CASE HandleCreateFlag(c)
  BY <1>5, FinishStep DEF HandleCreateFlag, Admitted, Begins, customerVars
<1>6. CASE HandleResolveFlag(c)
  <2>1. db' = db /\ call[c].pc = "new" /\ (Finish(c, FALSE) \/ StepTo(c, "resolveFlag"))
    BY <1>6 DEF HandleResolveFlag, Admitted, Begins, customerVars
  <2> QED BY <2>1, FinishStep, StepToStep DEF Watched
<1>7. CASE ResolveFlag(c)
  BY <1>7, FinishStep DEF ResolveFlag, At, customerVars
<1> QED BY <1>1, <1>2, <1>3, <1>4, <1>5, <1>6, <1>7 DEF Customers

LEMMA ReconcilesKeep ==
  ASSUME SessionInv, NEW c \in Calls, Reconciles(c) PROVE SessionInv'
<1> USE RequestOf, KeptSame
<1>1. CASE CreateRun(c)
  <2>1. db' = db /\ call[c].pc = "new" /\ (Finish(c, FALSE) \/ StepTo(c, "openFile"))
    BY <1>1 DEF CreateRun, Begins, customerVars
  <2> QED BY <2>1, FinishStep, StepToStep DEF Watched
<1>2. CASE OpenFile(c)
  <2>1. db' = db /\ call[c].pc = "openFile" BY <1>2 DEF OpenFile, At, customerVars
  <2>2. CASE Finish(c, FALSE) BY <2>1, <2>2, FinishStep
  <2>3. ASSUME NEW x, call' = [call EXCEPT ![c].pc = "readLine", ![c].row = x] PROVE SessionInv'
    <3>1. OwnStep(c) /\ call'[c].pc = "readLine" /\ NothingTaken(c)
      BY <2>3 DEF OwnStep, NothingTaken, SessionRows, Calls, Fields
    <3> QED BY <2>1, <3>1, PlainStep DEF Watched
  <2> QED BY <1>2, <2>2, <2>3 DEF OpenFile
<1>3. CASE ReadLine(c) \/ SkipLine(c)
  <2>1. db' = db /\ call[c].pc = "readLine" BY <1>3 DEF ReadLine, SkipLine, At, customerVars
  <2>2. \/ call' = [call EXCEPT ![c].row.line = @ + 1]
        \/ call' = [call EXCEPT ![c].row.line = @ + 1, ![c].row.matched = @ + 1]
        \/ call' = [call EXCEPT ![c].row.line = @ + 1, ![c].row.exceptions = @ + 1]
    BY <1>3 DEF ReadLine, SkipLine
  <2>3. OwnStep(c) /\ call'[c].pc = "readLine" /\ NothingTaken(c)
    BY <2>1, <2>2 DEF OwnStep, NothingTaken, SessionRows, Calls, Fields
  <2> QED BY <2>1, <2>3, PlainStep DEF Watched
<1>4. CASE EndOfFile(c)
  BY <1>4, FinishStep DEF EndOfFile, At, customerVars
<1>5. ASSUME NEW op, NEW updated, OnException(c, op, updated) PROVE SessionInv'
  BY <1>5, FinishStep DEF OnException, Admitted, Begins, customerVars
<1> QED BY <1>1, <1>2, <1>3, <1>4, <1>5
        DEF Reconciles, HandleAssign, HandleInvestigate, HandleResolve, HandleEscalate

LEMMA SessionNext == ASSUME SessionInv, [BackOfficeNext]_backOfficeVars PROVE SessionInv'
<1>1. CASE UNCHANGED backOfficeVars
  <2>1. db' = db /\ call' = call BY <1>1 DEF backOfficeVars
  <2> QED BY <2>1 DEF SessionInv, SessionRows, SessionCalls, SessionCall, Placed, OneTakerEach, CutsHold, Beyond,
            ChainsAreOfOneUser, Taker, Changer, Refreshing, HasPassword, Live, SessionsOf, Calls, Req
<1>2. CASE BackOfficeNext
  BY <1>2, CustomerStepKeeps, DirectoryStepKeeps, StaffKeeps, CustomersKeep, ReconcilesKeep DEF BackOfficeNext
<1> QED BY <1>1, <1>2

LEMMA SessionStart == ASSUME BackOfficeInit PROVE SessionInv
<1>1. PICK g \in Groups :
        call = [c \in g |-> [pc |-> "new", ask |-> Ask[c], user |-> None, took |-> FALSE,
                             cut |-> {}, flying |-> {}, row |-> <<>>]]
  BY DEF BackOfficeInit, AccessInit
<1>2. db = CustomerOpening BY DEF BackOfficeInit, AccessInit
<1>3. \A c \in Calls : /\ c \in DOMAIN Ask /\ call[c].ask = Ask[c] /\ DOMAIN call[c] = Fields
                       /\ call[c].took = FALSE /\ call[c].pc = "new"
  BY <1>1, AccessAssumption DEF Calls, Fields
<1>4. SessionRows BY <1>2, <1>3, CustomersAssumption DEF SessionRows
<1>5. \A c \in Calls : ~Taker(c) /\ ~Changer(c) /\ ~Refreshing(c)
  BY <1>3 DEF Taker, Changer, Refreshing
<1>6. \A c \in Calls : c \notin DOMAIN db.users /\ c \notin DOMAIN db.sessions
  BY <1>2, <1>3, CustomersAssumption
<1>7. SessionCalls BY <1>3, <1>5, <1>6 DEF SessionCalls, SessionCall, Placed
<1>8. OneTakerEach /\ CutsHold BY <1>5 DEF OneTakerEach, CutsHold
<1>9. ChainsAreOfOneUser BY <1>2, CustomersAssumption DEF ChainsAreOfOneUser, None
<1> QED BY <1>4, <1>7, <1>8, <1>9 DEF SessionInv

\* The session invariant holds of customers, directory and staff together,
\* whatever requests there are.
THEOREM SessionInvariance == BackOfficeSpec => []SessionInv
BY SessionStart, SessionNext, PTL DEF BackOfficeSpec

\* Refresh, Logout and ChangePassword of services/auth: a session is taken away
\* by one request at most, the sessions a change of password revoked stay out,
\* and every chain of refreshes is of one user who has a password.
THEOREM SessionsTheorem == BackOfficeSpec => []SessionsAreEarned
<1>1. SessionInv => SessionsAreEarned
  <2> SUFFICES ASSUME SessionInv PROVE SessionsAreEarned OBVIOUS
  <2>1. OneTaker
    <3> SUFFICES ASSUME NEW s \in DOMAIN db.sessions
                 PROVE  Cardinality({c \in Calls : call[c].took /\ Req(c).op \in {"refresh", "logout"}
                                                   /\ Req(c).token = s}) <= 1
      BY DEF OneTaker
    <3> DEFINE takers == {c \in Calls : call[c].took /\ Req(c).op \in {"refresh", "logout"} /\ Req(c).token = s}
    <3>1. \A c, d \in takers : c = d BY DEF SessionInv, OneTakerEach, Taker
    <3> HIDE DEF takers
    <3>2. takers = {} => Cardinality(takers) <= 1 BY FS_EmptySet
    <3>3. ASSUME NEW c \in takers PROVE Cardinality(takers) <= 1
      <4>1. takers = {c} BY <3>1
      <4> QED BY <4>1, FS_Singleton
    <3>4. Cardinality(takers) <= 1 BY <3>2, <3>3
    <3> QED BY <3>4 DEF takers
  <2>2. RevokedStayOut
    BY DEF RevokedStayOut, SessionInv, SessionCalls, SessionCall, CutsHold, Changer, Beyond
  <2> QED BY <2>1, <2>2 DEF SessionsAreEarned, SessionInv
<1> QED BY <1>1, SessionInvariance, PTL

-----------------------------------------------------------------------------
(***************************************************************************)
(* The records.  What each group of requests may touch.                    *)
(***************************************************************************)

\* The tables that stay as they are are all but the given ones; so are the
\* columns of the users.
DbBut(tables) == DOMAIN db' = Tables /\ \A t \in Tables \ tables : db'[t] = db[t]
OfficeBut(tables) == DOMAIN office' = OfficeTables /\ \A t \in OfficeTables \ tables : office'[t] = office[t]
UsersBut(columns) ==
  /\ DOMAIN db'.users = DOMAIN db.users
  /\ \A u \in DOMAIN db.users : DOMAIN db'.users[u] = UserColumns
                                /\ \A f \in UserColumns \ columns : db'.users[u][f] = db.users[u][f]

\* A request that is under way and fails without having touched anything.
Fails(c) ==
  /\ OwnStep(c) /\ call[c].pc \notin {"done", "failed"} /\ call'[c].pc = "failed"
  /\ call'[c].took = call[c].took /\ call'[c].user = call[c].user
  /\ call'[c].cut = call[c].cut /\ call'[c].row = call[c].row
  /\ db' = db /\ wallets' = wallets /\ office' = office

\* The step of a request for one of ops.
Works(c, ops) == OwnStep(c) /\ call[c].pc \notin {"done", "failed"} /\ Req(c).op \in ops

RecordBase == SessionInv /\ DOMAIN office = OfficeTables /\ OpsInv

LEMMA StepToWorks ==
  ASSUME RecordBase, NEW c \in Calls, call[c].pc \notin {"done", "failed"}
  PROVE  /\ \A step : StepTo(c, step) => Works(c, {Req(c).op})
         /\ \A step, u : StepWith(c, step, u) => Works(c, {Req(c).op})
         /\ \A ok : Finish(c, ok) => Works(c, {Req(c).op})
BY StepToFacts, StepWithFacts, FinishFacts DEF Works, RecordBase, SessionInv

LEMMA NoteWorks ==
  ASSUME RecordBase, NEW c \in Calls, call[c].pc \notin {"done", "failed"},
         \/ call' = [call EXCEPT ![c].pc = "done", ![c].took = TRUE]
         \/ \E x : call' = [call EXCEPT ![c].pc = "done", ![c].took = TRUE, ![c].cut = x]
         \/ \E x, y : call' = [call EXCEPT ![c].pc = "done", ![c].took = TRUE, ![c].cut = x, ![c].flying = y]
         \/ call' = [call EXCEPT ![c].pc = "loadUser", ![c].took = TRUE]
         \/ \E x, y : call' = [call EXCEPT ![c].pc = "upsert", ![c].user = x, ![c].row = y]
         \/ \E x, y, z : call' = [call EXCEPT ![c].pc = "writeStaff", ![c].user = x, ![c].row = y, ![c].cut = z]
         \/ \E x, y : call' = [call EXCEPT ![c].pc = "issueToken", ![c].user = x, ![c].row = y]
         \/ \E x : call' = [call EXCEPT ![c].pc = "readLine", ![c].row = x]
         \/ call' = [call EXCEPT ![c].row.line = @ + 1, ![c].row.matched = @ + 1]
         \/ call' = [call EXCEPT ![c].row.line = @ + 1, ![c].row.exceptions = @ + 1]
         \/ call' = [call EXCEPT ![c].row.line = @ + 1]
  PROVE  Works(c, {Req(c).op})
<1> DOMAIN call[c] = Fields /\ call[c].took \in BOOLEAN BY Zenon DEF RecordBase, SessionInv, SessionRows
<1> {"pc", "ask", "user", "took", "cut", "flying", "row"} \subseteq DOMAIN call[c] BY Zenon DEF Fields
<1> USE DEF Works, OwnStep, Calls
<1>1. CASE call' = [call EXCEPT ![c].pc = "done", ![c].took = TRUE] BY <1>1, ZenonT(40)
<1>2. CASE \E x : call' = [call EXCEPT ![c].pc = "done", ![c].took = TRUE, ![c].cut = x] BY <1>2, ZenonT(40)
<1>3. CASE \E x, y : call' = [call EXCEPT ![c].pc = "done", ![c].took = TRUE, ![c].cut = x, ![c].flying = y]
  <2>1. PICK x, y : call' = [call EXCEPT ![c].pc = "done", ![c].took = TRUE, ![c].cut = x, ![c].flying = y]
    BY <1>3, Zenon
  <2>2. DOMAIN call' = DOMAIN call /\ \A d \in DOMAIN call : d # c => call'[d] = call[d] BY <2>1, Zenon
  <2>3. DOMAIN call'[c] = Fields BY <2>1
  <2>4. call'[c].ask = call[c].ask /\ call'[c].took = TRUE BY <2>1
  <2> QED BY <2>2, <2>3, <2>4
<1>4. CASE call' = [call EXCEPT ![c].pc = "loadUser", ![c].took = TRUE] BY <1>4
<1>5. CASE \E x, y : call' = [call EXCEPT ![c].pc = "upsert", ![c].user = x, ![c].row = y] BY <1>5
<1>6. CASE \E x, y, z : call' = [call EXCEPT ![c].pc = "writeStaff", ![c].user = x, ![c].row = y, ![c].cut = z] BY <1>6
<1>7. CASE \E x : call' = [call EXCEPT ![c].pc = "readLine", ![c].row = x] BY <1>7
<1>8. CASE call' = [call EXCEPT ![c].row.line = @ + 1, ![c].row.matched = @ + 1] BY <1>8
<1>9. CASE call' = [call EXCEPT ![c].row.line = @ + 1, ![c].row.exceptions = @ + 1] BY <1>9
<1>10. CASE \E x, y : call' = [call EXCEPT ![c].pc = "issueToken", ![c].user = x, ![c].row = y] BY <1>10
<1>11. CASE call' = [call EXCEPT ![c].row.line = @ + 1] BY <1>11
<1> QED BY <1>1, <1>2, <1>3, <1>4, <1>5, <1>6, <1>7, <1>8, <1>9, <1>10, <1>11, Zenon

LEMMA ButSame == ASSUME RecordBase PROVE /\ db' = db => DbBut({}) /\ UsersBut({})
                                         /\ office' = office => OfficeBut({})
BY DEF RecordBase, SessionInv, SessionRows, DbBut, UsersBut, OfficeBut

LEMMA ButColumn ==
  ASSUME RecordBase, NEW u, NEW x, NEW column \in UserColumns, db' = [db EXCEPT !.users[u][column] = x]
  PROVE  DbBut({"users"}) /\ UsersBut({column})
<1>1. DbBut({"users"}) /\ DOMAIN db'.users = DOMAIN db.users
  BY DEF RecordBase, SessionInv, SessionRows, DbBut, Tables
<1>2. ASSUME NEW v \in DOMAIN db.users
      PROVE  DOMAIN db'.users[v] = UserColumns /\ \A f \in UserColumns \ {column} : db'.users[v][f] = db.users[v][f]
  BY DEF RecordBase, SessionInv, SessionRows, Tables
<1> QED BY <1>1, <1>2 DEF UsersBut

LEMMA ButMore ==
  ASSUME RecordBase
  PROVE  /\ \A S, T : S \subseteq T /\ DbBut(S) => DbBut(T)
         /\ \A S, T : S \subseteq T /\ UsersBut(S) => UsersBut(T)
         /\ \A S, T : S \subseteq T /\ OfficeBut(S) => OfficeBut(T)
         /\ \A T : DbBut(T) /\ "users" \notin T => UsersBut({})
<1>1. \A S, T : S \subseteq T /\ DbBut(S) => DbBut(T) BY DEF DbBut
<1>2. \A S, T : S \subseteq T /\ UsersBut(S) => UsersBut(T) BY DEF UsersBut
<1>3. \A S, T : S \subseteq T /\ OfficeBut(S) => OfficeBut(T) BY DEF OfficeBut
<1>4. \A T : DbBut(T) /\ "users" \notin T => UsersBut({})
  BY DEF RecordBase, SessionInv, SessionRows, DbBut, UsersBut, Tables
<1> QED BY <1>1, <1>2, <1>3, <1>4

LEMMA BaseOf ==
  ASSUME RecordBase, NEW c \in Calls
  PROVE  /\ SessionInv /\ SessionRows /\ SessionCall(c) /\ Placed(c)
         /\ call[c].pc \in DOMAIN OpAt => Req(c).op \in OpAt[call[c].pc]
         /\ DOMAIN db = Tables /\ DOMAIN office = OfficeTables
BY DEF RecordBase, SessionInv, SessionRows, SessionCalls, SessionCall, OpsInv

LEMMA RegistersEffect ==
  ASSUME RecordBase, NEW c \in Calls, Registers(c)
  PROVE  Works(c, {"register", "onboard"}) /\ DbBut({"users", "balances"})
<1> USE BaseOf, StepToWorks, ButSame, ButMore DEF Works
<1>1. CASE HandleRegister(c)
  BY <1>1 DEF HandleRegister, Begins, CheckPhone, customerVars
<1>2. CASE HandleOnboard(c)
  BY <1>2 DEF HandleOnboard, Begins, RegisterUser, customerVars
<1>3. CASE CheckUsername(c)
  BY <1>3 DEF CheckUsername, At, customerVars, Placed
<1>4. CASE CreateUser(c)
  <2>1. call[c].pc = "createUser" /\ Req(c).op \in {"register", "onboard"} BY <1>4 DEF CreateUser, At, Placed
  <2>2. db' = db \/ \E x : db' = [db EXCEPT !.users = x] BY <1>4 DEF CreateUser
  <2>3. DbBut({"users", "balances"}) BY <2>2 DEF DbBut, Tables
  <2> QED BY <1>4, <2>1, <2>3 DEF CreateUser
<1>5. CASE CreateWallet(c)
  BY <1>5 DEF CreateWallet, At, Placed
<1>6. CASE CreateDefaultBalance(c)
  <2>1. call[c].pc = "defaultBalance" /\ Req(c).op \in {"register", "onboard"}
    BY <1>6 DEF CreateDefaultBalance, At, Placed
  <2>2. DbBut({"users", "balances"}) BY <1>6 DEF CreateDefaultBalance, DbBut, Tables
  <2> QED BY <1>6, <2>1, <2>2 DEF CreateDefaultBalance
<1> QED BY <1>1, <1>2, <1>3, <1>4, <1>5, <1>6 DEF Registers

LEMMA SessionsEffect ==
  ASSUME RecordBase, NEW c \in Calls, Sessions(c)
  PROVE  /\ Works(c, {"register", "login", "refresh", "logout", "changePassword"})
         /\ DbBut({"users", "sessions"}) /\ UsersBut({"pass"})
<1> USE BaseOf, StepToWorks, ButSame, ButMore DEF Works
<1>1. CASE CreateSession(c)
  <2>1. call[c].pc = "createSession" /\ Req(c).op \in {"register", "login", "refresh"}
    BY <1>1 DEF CreateSession, At, Placed
  <2>2. \E x : db' = [db EXCEPT !.sessions = x] BY <1>1 DEF CreateSession
  <2>3. DbBut({"sessions"}) BY <2>2 DEF DbBut, Tables
  <2> QED BY <1>1, <2>1, <2>3 DEF CreateSession
<1>2. CASE HandleLogin(c)
  BY <1>2 DEF HandleLogin, Begins, customerVars
<1>3. CASE HandleRefresh(c)
  BY <1>3 DEF HandleRefresh, Begins, customerVars
<1>4. CASE RevokeOld(c)
  <2>1. call[c].pc = "revokeOld" /\ Req(c).op = "refresh" BY <1>4 DEF RevokeOld, At, Placed
  <2>2. OwnStep(c) BY <1>4, <2>1, NoteWorks, Zenon DEF RevokeOld
  <2>3. db' = db \/ db' = RevokeSession(Req(c).token) BY <1>4 DEF RevokeOld
  <2>4. DbBut({"sessions"}) BY <2>3 DEF DbBut, Tables, RevokeSession
  <2> QED BY <2>1, <2>2, <2>4
<1>5. CASE LoadUser(c)
  BY <1>5 DEF LoadUser, At, customerVars, Placed
<1>6. CASE HandleLogout(c)
  BY <1>6 DEF HandleLogout, Begins, customerVars
<1>7. CASE Logout(c)
  <2>1. call[c].pc = "revoke" /\ Req(c).op = "logout" BY <1>7 DEF Logout, At, Placed
  <2>2. OwnStep(c) BY <1>7, <2>1, NoteWorks, Zenon DEF Logout
  <2>3. db' = db \/ db' = RevokeSession(Req(c).token) BY <1>7 DEF Logout
  <2>4. DbBut({"sessions"}) BY <2>3 DEF DbBut, Tables, RevokeSession
  <2> QED BY <2>1, <2>2, <2>4
<1>8. CASE HandleChangePassword(c)
  BY <1>8 DEF HandleChangePassword, Begins, customerVars, ChangePassword
<1>9. CASE UpdatePassword(c)
  <2>1. call[c].pc = "updatePassword" /\ Req(c).op = "changePassword" BY <1>9 DEF UpdatePassword, At, Placed
  <2>2. db' = [db EXCEPT !.users[call[c].user].pass = Req(c).new] BY <1>9 DEF UpdatePassword
  <2>3. DbBut({"users"}) /\ UsersBut({"pass"}) BY ONLY RecordBase, <2>2, ButColumn DEF UserColumns
  <2> QED BY <1>9, <2>1, <2>3 DEF UpdatePassword
<1>10. CASE RevokeAll(c)
  <2>1. call[c].pc = "revokeAll" /\ Req(c).op = "changePassword" BY <1>10 DEF RevokeAll, At, Placed
  <2>2. OwnStep(c) BY <1>10, <2>1, NoteWorks, Zenon DEF RevokeAll
  <2>3. db' = db \/ db' = RevokeAllForUser(call[c].user) BY <1>10 DEF RevokeAll
  <2>4. DbBut({"sessions"}) BY <2>3 DEF DbBut, Tables, RevokeAllForUser
  <2> QED BY <2>1, <2>2, <2>4
<1> QED BY <1>1, <1>2, <1>3, <1>4, <1>5, <1>6, <1>7, <1>8, <1>9, <1>10 DEF Sessions

LEMMA IdentifiesEffect ==
  ASSUME RecordBase, NEW c \in Calls, Identifies(c)
  PROVE  Works(c, {"requestOTP", "verifyOTP"}) /\ DbBut({"users", "kyc"}) /\ UsersBut({"name", "kyc"})
<1> USE BaseOf, StepToWorks, ButSame, ButMore DEF Works
<1>1. CASE HandleRequestOTP(c)
  BY <1>1 DEF HandleRequestOTP, Begins, RequestOTP
<1>2. CASE CreateVerification(c)
  <2>1. call[c].pc = "recordKYC" /\ Req(c).op = "requestOTP" BY <1>2 DEF CreateVerification, At, OpAt
  <2>2. \E x : db' = [db EXCEPT !.kyc = x] BY <1>2 DEF CreateVerification
  <2>3. DbBut({"kyc"}) BY <2>2 DEF DbBut, Tables
  <2> QED BY <1>2, <2>1, <2>3 DEF CreateVerification
<1>3. CASE HandleVerifyOTP(c)
  <2>1. db' = db \/ db' = UpdateKYCStatus(Req(c).tx, "failed") BY <1>3 DEF HandleVerifyOTP, VerifyOTP
  <2>2. DbBut({"kyc"}) BY <2>1 DEF DbBut, Tables, UpdateKYCStatus
  <2> QED BY <1>3, <2>2 DEF HandleVerifyOTP, VerifyOTP, Begins
<1>4. CASE UpdateDemographics(c)
  <2>1. call[c].pc = "demographics" /\ Req(c).op = "verifyOTP" BY <1>4 DEF UpdateDemographics, At, OpAt
  <2>2. db' = [db EXCEPT !.users[call[c].user].name = Req(c).fin] BY <1>4 DEF UpdateDemographics
  <2>3. DbBut({"users"}) /\ UsersBut({"name"}) BY ONLY RecordBase, <2>2, ButColumn DEF UserColumns
  <2> QED BY <1>4, <2>1, <2>3 DEF UpdateDemographics
<1>5. CASE RaiseLevel(c)
  <2>1. call[c].pc = "raiseLevel" /\ Req(c).op = "verifyOTP" BY <1>5 DEF RaiseLevel, At, OpAt
  <2>2. DbBut({"users"}) /\ UsersBut({"kyc"}) BY <1>5, ButColumn DEF RaiseLevel, UserColumns, UpdateKYCLevel
  <2> QED BY <1>5, <2>1, <2>2 DEF RaiseLevel
<1> QED BY <1>1, <1>2, <1>3, <1>4, <1>5 DEF Identifies

LEMMA SettingsEffect ==
  ASSUME RecordBase, NEW c \in Calls, Settings(c)
  PROVE  Works(c, {"linkTelegram", "waterfall"}) /\ DbBut({"users", "links"}) /\ UsersBut({"telegram", "waterfall"})
<1> USE BaseOf, StepToWorks, ButSame, ButMore DEF Works
<1>1. CASE HandleDeepLink(c)
  <2>1. db' = db \/ db' = Consume(Req(c).link) BY <1>1 DEF HandleDeepLink
  <2>2. DbBut({"links"}) BY <2>1 DEF DbBut, Tables, Consume
  <2> QED BY <1>1, <2>2 DEF HandleDeepLink, Begins
<1>2. CASE BindTelegram(c)
  <2>1. call[c].pc = "bind" /\ Req(c).op = "linkTelegram" BY <1>2 DEF BindTelegram, At, OpAt
  <2>2. db' = db \/ db' = [db EXCEPT !.users[call[c].user].telegram = Req(c).telegram] BY <1>2 DEF BindTelegram
  <2>3. CASE db' = [db EXCEPT !.users[call[c].user].telegram = Req(c).telegram]
    <3>1. DbBut({"users"}) /\ UsersBut({"telegram"}) BY ONLY RecordBase, <2>3, ButColumn DEF UserColumns
    <3> QED BY <1>2, <2>1, <3>1 DEF BindTelegram
  <2> QED BY <1>2, <2>1, <2>2, <2>3 DEF BindTelegram
<1>3. CASE HandleWaterfall(c)
  <2>1. db' = db \/ db' = [db EXCEPT !.users[TokenUser(c)].waterfall = Req(c).order]
    BY <1>3 DEF HandleWaterfall, UpdateSpendWaterfall
  <2>2. DbBut({"users"}) /\ UsersBut({"waterfall"}) BY <2>1, ButColumn DEF UserColumns
  <2> QED BY <1>3, <2>2 DEF HandleWaterfall, Begins
<1> QED BY <1>1, <1>2, <1>3 DEF Settings

LEMMA DiesFails ==
  ASSUME RecordBase, NEW c \in Calls, Dies(c), office' = office
  PROVE  Fails(c)
<1> SessionRows BY BaseOf
<1>1. StepTo(c, "failed") /\ call[c].pc \notin {"done", "failed"} /\ db' = db /\ wallets' = wallets
  BY DEF Dies, InFlight, Finish
<1>2. call'[c].cut = call[c].cut BY <1>1 DEF StepTo, SessionRows, Calls, Fields
<1> QED BY <1>1, <1>2, StepToFacts DEF Fails

DirectoryOps == {"createRecipient", "saveRecipient", "favorite", "archive", "addBeneficiary", "deleteBeneficiary",
                 "createCard", "cardStatus", "cardLimits", "cardToggles"}
LEMMA DirectoryEffect ==
  ASSUME RecordBase, NEW c \in Calls, DirectoryStep(c)
  PROVE  Works(c, DirectoryOps) /\ DbBut({"recipients", "beneficiaries", "cards"})
<1> USE BaseOf, StepToWorks, ButSame, ButMore DEF Works, DirectoryOps
<1>1. CASE HandleCreateRecipient(c)
  <2>1. db' = db /\ call[c].pc = "new" /\ Req(c).op = "createRecipient"
    BY <1>1 DEF HandleCreateRecipient, Begins, customerVars
  <2>2. OwnStep(c) BY <1>1, <2>1, NoteWorks, Zenon DEF HandleCreateRecipient
  <2> QED BY <2>1, <2>2
<1>2. CASE SaveFromTransfer(c)
  <2>1. db' = db /\ call[c].pc = "new" /\ Req(c).op = "saveRecipient"
    BY <1>2 DEF SaveFromTransfer, Begins, customerVars
  <2>2. OwnStep(c) BY <1>2, <2>1, NoteWorks, Zenon DEF SaveFromTransfer
  <2> QED BY <2>1, <2>2
<1>3. CASE UpsertRecipient(c)
  <2>1. call[c].pc = "upsert" /\ Req(c).op \in {"createRecipient", "saveRecipient"}
    BY <1>3 DEF UpsertRecipient, At, Placed
  <2>2. OwnStep(c) BY <1>3, <2>1, NoteWorks, Zenon DEF UpsertRecipient
  <2>3. DbBut({"recipients"}) BY <1>3 DEF UpsertRecipient, Upsert, DbBut, Tables
  <2> QED BY <2>1, <2>2, <2>3
<1>4. CASE HandleSetFavorite(c)
  <2>1. db' = db \/ \E x : db' = UpdateFavorite(x, Req(c).favorite) BY <1>4 DEF HandleSetFavorite
  <2>2. DbBut({"recipients"}) BY <2>1 DEF UpdateFavorite, DbBut, Tables
  <2> QED BY <1>4, <2>2 DEF HandleSetFavorite, Begins
<1>5. CASE HandleArchive(c)
  <2>1. db' = db \/ \E x : db' = ArchiveRow(x) BY <1>5 DEF HandleArchive
  <2>2. DbBut({"recipients"}) BY <2>1 DEF ArchiveRow, DbBut, Tables
  <2> QED BY <1>5, <2>2 DEF HandleArchive, Begins
<1>6. CASE CreateBeneficiary(c)
  <2>1. db' = db \/ \E x : db' = [db EXCEPT !.beneficiaries = x] BY <1>6 DEF CreateBeneficiary
  <2>2. DbBut({"beneficiaries"}) BY <2>1 DEF DbBut, Tables
  <2> QED BY <1>6, <2>2 DEF CreateBeneficiary, Begins
<1>7. CASE DeleteBeneficiary(c)
  <2>1. call[c].pc = "new" /\ Req(c).op = "deleteBeneficiary" BY <1>7 DEF DeleteBeneficiary, Begins
  <2>2. OwnStep(c) BY <1>7, <2>1, NoteWorks, Zenon DEF DeleteBeneficiary
  <2>3. db' = db \/ \E b : db' = [db EXCEPT !.beneficiaries[b].deleted = TRUE] BY <1>7 DEF DeleteBeneficiary
  <2>4. DbBut({"beneficiaries"}) BY <2>3 DEF DbBut, Tables
  <2> QED BY <2>1, <2>2, <2>4
<1>8. CASE CreateCard(c)
  <2>1. db' = db \/ \E x : db' = [db EXCEPT !.cards = x] BY <1>8 DEF CreateCard
  <2>2. DbBut({"cards"}) BY <2>1 DEF DbBut, Tables
  <2> QED BY <1>8, <2>2 DEF CreateCard, Begins
<1>9. CASE HandleCard(c)
  <2>1. db' = db /\ call[c].pc = "new" /\ Req(c).op \in DOMAIN CardColumn
    BY <1>9 DEF HandleCard, Begins, customerVars
  <2>2. \/ StepWith(c, "writeCard", TokenUser(c)) \/ Finish(c, FALSE) BY <1>9 DEF HandleCard
  <2>3. Works(c, {Req(c).op}) BY <2>1, <2>2
  <2>4. Req(c).op \in {"cardStatus", "cardLimits", "cardToggles"} BY <2>1 DEF CardColumn
  <2> QED BY <2>1, <2>3, <2>4
<1>10. CASE WriteCard(c)
  <2>1. call[c].pc = "writeCard" /\ Req(c).op \in DOMAIN CardColumn BY <1>10 DEF WriteCard, At, OpAt
  <2>2. DbBut({"cards"}) BY <1>10 DEF WriteCard, UpdateCard, DbBut, Tables
  <2> QED BY <1>10, <2>1, <2>2 DEF WriteCard, CardColumn
<1> QED BY <1>1, <1>2, <1>3, <1>4, <1>5, <1>6, <1>7, <1>8, <1>9, <1>10 DEF DirectoryStep

LEMMA KeepWorks ==
  ASSUME RecordBase, NEW c \in Calls, call[c].pc \notin {"done", "failed"}, NEW x, NEW row, Keep(c, x, row) PROVE OwnStep(c)
<1> PICK z : z = {d \in Calls : Wrote(d, x)} OBVIOUS
<1>1. call' = [call EXCEPT ![c].pc = "writeStaff", ![c].user = x, ![c].row = row, ![c].cut = z] BY DEF Keep
<1> QED BY <1>1, NoteWorks DEF Works

StaffOps == {"adminLogin", "createStaff", "updateStaff", "staffPassword", "deactivateStaff"}
LEMMA StaffEffect ==
  ASSUME RecordBase, NEW c \in Calls, Staff(c)
  PROVE  /\ db' = db /\ wallets' = wallets
         /\ ((Works(c, StaffOps) /\ OfficeBut({"staff", "tokens"})) \/ Fails(c))
<1> USE BaseOf, StepToWorks, ButSame, ButMore DEF Works, StaffOps
<1>0. CASE IssueToken(c)
  <2>1. call[c].pc = "issueToken" /\ Req(c).op = "adminLogin" BY <1>0 DEF IssueToken, At, OpAt
  <2>2. OfficeBut({"tokens"}) BY <1>0 DEF IssueToken, OfficeBut, OfficeTables
  <2> QED BY <1>0, <2>1, <2>2 DEF IssueToken, customerVars
<1>1. CASE HandleAdminLogin(c)
  <2>1. db' = db /\ wallets' = wallets /\ office' = office /\ call[c].pc = "new" /\ Req(c).op = "adminLogin"
    BY <1>1 DEF HandleAdminLogin, Begins, customerVars
  <2>2. OwnStep(c) BY <1>1, <2>1, NoteWorks, Zenon DEF HandleAdminLogin
  <2> QED BY <2>1, <2>2
<1>2. CASE HandleCreateStaff(c)
  <2>1. office' = office \/ \E x : office' = [office EXCEPT !.staff = x]
    BY <1>2 DEF HandleCreateStaff, CreateStaffRow
  <2>2. OfficeBut({"staff"}) BY <2>1 DEF OfficeBut, OfficeTables
  <2> QED BY <1>2, <2>2 DEF HandleCreateStaff, Admitted, Begins, customerVars
<1>3. CASE HandleUpdateStaff(c)
  <2>1. db' = db /\ wallets' = wallets /\ office' = office /\ call[c].pc = "new" /\ Req(c).op = "updateStaff"
    BY <1>3 DEF HandleUpdateStaff, Admitted, Begins, customerVars
  <2>2. OwnStep(c) BY <1>3, <2>1, KeepWorks, Zenon DEF HandleUpdateStaff
  <2> QED BY <2>1, <2>2
<1>4. CASE HandleStaffPassword(c)
  <2>1. db' = db /\ wallets' = wallets /\ office' = office /\ call[c].pc = "new" /\ Req(c).op = "staffPassword"
    BY <1>4 DEF HandleStaffPassword, Begins, customerVars
  <2>2. OwnStep(c) BY <1>4, <2>1, KeepWorks, Zenon DEF HandleStaffPassword, ChangeStaffPassword
  <2> QED BY <2>1, <2>2
<1>5. CASE WriteStaff(c)
  <2>1. call[c].pc = "writeStaff" /\ Req(c).op \in {"updateStaff", "staffPassword"}
    BY <1>5 DEF WriteStaff, At, OpAt
  <2>2. OfficeBut({"staff"}) BY <1>5 DEF WriteStaff, UpdateStaffRow, OfficeBut, OfficeTables
  <2> QED BY <1>5, <2>1, <2>2 DEF WriteStaff, customerVars
<1>6. CASE HandleDeactivateStaff(c)
  <2>1. db' = db /\ wallets' = wallets /\ call[c].pc = "new" /\ Req(c).op = "deactivateStaff"
    BY <1>6 DEF HandleDeactivateStaff, Admitted, Begins, customerVars
  <2>2. OwnStep(c) BY <1>6, <2>1, NoteWorks, Zenon DEF HandleDeactivateStaff
  <2>3. OfficeBut({"staff"}) BY <1>6 DEF HandleDeactivateStaff, Deactivate, OfficeBut, OfficeTables
  <2> QED BY <2>1, <2>2, <2>3
<1>7. CASE Forbidden(c)
  <2>1. StepTo(c, "failed") /\ call[c].pc = "new" /\ db' = db /\ wallets' = wallets /\ office' = office
    BY <1>7 DEF Forbidden, Begins, Finish, customerVars
  <2>2. call'[c].cut = call[c].cut BY <2>1 DEF StepTo, SessionRows, Calls, Fields
  <2> QED BY <2>1, <2>2, StepToFacts DEF Fails
<1> QED BY <1>0, <1>1, <1>2, <1>3, <1>4, <1>5, <1>6, <1>7 DEF Staff

CustomersOps == {"freeze", "unfreeze", "overrideKYC", "adminCard", "createFlag", "resolveFlag"}
LEMMA CustomersEffect ==
  ASSUME RecordBase, NEW c \in Calls, Customers(c)
  PROVE  /\ Works(c, CustomersOps) /\ wallets' = wallets
         /\ DbBut({"users", "cards"}) /\ UsersBut({"frozen", "kyc"}) /\ OfficeBut({"flags"})
<1> USE BaseOf, StepToWorks, ButSame, ButMore DEF Works, CustomersOps
<1>1. ASSUME NEW op \in CustomersOps, NEW perm, NEW updated, OnCustomer(c, op, perm, updated),
             db' = updated => DbBut({"users"}) /\ UsersBut({"frozen", "kyc"})
      PROVE  /\ Works(c, CustomersOps) /\ wallets' = wallets
             /\ DbBut({"users", "cards"}) /\ UsersBut({"frozen", "kyc"}) /\ OfficeBut({"flags"})
  <2>1. /\ call[c].pc = "new" /\ Req(c).op = op /\ Finish(c, Known(c)) /\ wallets' = wallets /\ office' = office
        /\ (db' = db \/ db' = updated)
    BY <1>1 DEF OnCustomer, Admitted, Begins
  <2> QED BY <1>1, <2>1
<1>2. CASE HandleFreeze(c)
  <2>1. db' = FreezeUser(Req(c).id) => DbBut({"users"}) /\ UsersBut({"frozen"})
    BY ONLY RecordBase, ButColumn DEF FreezeUser, UserColumns
  <2> QED BY <1>1, <1>2, <2>1 DEF HandleFreeze
<1>3. CASE HandleUnfreeze(c)
  <2>1. db' = UnfreezeUser(Req(c).id) => DbBut({"users"}) /\ UsersBut({"frozen"})
    BY ONLY RecordBase, ButColumn DEF UnfreezeUser, UserColumns
  <2> QED BY <1>1, <1>3, <2>1 DEF HandleUnfreeze
<1>4. CASE HandleKYCOverride(c)
  <2>1. db' = UpdateKYCLevel(Req(c).id, Req(c).level) => DbBut({"users"}) /\ UsersBut({"kyc"})
    BY ONLY RecordBase, ButColumn DEF UpdateKYCLevel, UserColumns
  <2> QED BY <1>1, <1>4, <2>1 DEF HandleKYCOverride
<1>5. CASE HandleAdminCard(c)
  <2>1. /\ call[c].pc = "new" /\ Req(c).op = "adminCard" /\ Finish(c, Req(c).id \in DOMAIN db.cards)
        /\ wallets' = wallets /\ office' = office
        /\ (db' = db \/ db' = UpdateCard(Req(c).id, Req(c).column, Req(c).value))
    BY <1>5 DEF HandleAdminCard, Admitted, Begins
  <2>2. DbBut({"cards"}) BY <2>1 DEF UpdateCard, DbBut, Tables
  <2> QED BY <2>1, <2>2
<1>6. CASE HandleCreateFlag(c)
  <2>1. /\ call[c].pc = "new" /\ Req(c).op = "createFlag" /\ Finish(c, Known(c)) /\ db' = db /\ wallets' = wallets
        /\ (office' = office \/ office' = CreateFlagRow(c))
    BY <1>6 DEF HandleCreateFlag, Admitted, Begins, customerVars
  <2>2. OfficeBut({"flags"}) BY <2>1 DEF CreateFlagRow, OfficeBut, OfficeTables
  <2> QED BY <2>1, <2>2
<1>7. CASE HandleResolveFlag(c)
  BY <1>7 DEF HandleResolveFlag, Admitted, Begins, customerVars
<1>8. CASE ResolveFlag(c)
  <2>1. call[c].pc = "resolveFlag" /\ Req(c).op = "resolveFlag" BY <1>8 DEF ResolveFlag, At, OpAt
  <2>2. OfficeBut({"flags"}) BY <1>8 DEF ResolveFlag, ResolveFlagRow, OfficeBut, OfficeTables
  <2> QED BY <1>8, <2>1, <2>2 DEF ResolveFlag, customerVars
<1> QED BY <1>2, <1>3, <1>4, <1>5, <1>6, <1>7, <1>8 DEF Customers

ReconcilesOps == {"reconcile", "assign", "investigate", "resolve", "escalate"}
LEMMA ReconcilesEffect ==
  ASSUME RecordBase, NEW c \in Calls, Reconciles(c)
  PROVE  Works(c, ReconcilesOps) /\ db' = db /\ wallets' = wallets /\ OfficeBut({"runs", "exceptions"})
<1> USE BaseOf, StepToWorks, ButSame, ButMore DEF Works, ReconcilesOps
<1>1. CASE CreateRun(c)
  <2>1. office' = office \/ \E x : office' = [office EXCEPT !.runs = x] BY <1>1 DEF CreateRun
  <2>2. OfficeBut({"runs"}) BY <2>1 DEF OfficeBut, OfficeTables
  <2> QED BY <1>1, <2>2 DEF CreateRun, Begins, customerVars
<1>2. CASE OpenFile(c)
  <2>1. call[c].pc = "openFile" /\ Req(c).op = "reconcile" /\ db' = db /\ wallets' = wallets
    BY <1>2 DEF OpenFile, At, OpAt, customerVars
  <2>2. OwnStep(c) BY <1>2, <2>1, NoteWorks, Zenon DEF OpenFile
  <2>3. OfficeBut({"runs"}) BY <1>2 DEF OpenFile, FinishRun, OfficeBut, OfficeTables
  <2> QED BY <2>1, <2>2, <2>3
<1>3. CASE ReadLine(c) \/ SkipLine(c)
  <2>1. call[c].pc = "readLine" /\ Req(c).op = "reconcile" /\ db' = db /\ wallets' = wallets
    BY <1>3 DEF ReadLine, SkipLine, At, OpAt, customerVars
  <2>2. OwnStep(c) BY <1>3, <2>1, NoteWorks, Zenon DEF ReadLine, SkipLine
  <2>3. office' = office \/ \E x : office' = [office EXCEPT !.exceptions = x] BY <1>3 DEF ReadLine, SkipLine
  <2>4. OfficeBut({"exceptions"}) BY <2>3 DEF OfficeBut, OfficeTables
  <2> QED BY <2>1, <2>2, <2>4
<1>4. CASE EndOfFile(c)
  <2>1. call[c].pc = "readLine" /\ Req(c).op = "reconcile" /\ db' = db /\ wallets' = wallets
    BY <1>4 DEF EndOfFile, At, OpAt, customerVars
  <2>2. OfficeBut({"runs"}) BY <1>4, Zenon DEF EndOfFile, FinishRun, OfficeBut, OfficeTables
  <2> QED BY <1>4, <2>1, <2>2 DEF EndOfFile
<1>5. ASSUME NEW op \in ReconcilesOps, NEW updated, OnException(c, op, updated),
             office' = updated => OfficeBut({"exceptions"})
      PROVE  Works(c, ReconcilesOps) /\ db' = db /\ wallets' = wallets /\ OfficeBut({"runs", "exceptions"})
  <2>1. /\ call[c].pc = "new" /\ Req(c).op = op /\ Finish(c, Req(c).id \in DOMAIN office.exceptions)
        /\ db' = db /\ wallets' = wallets /\ (office' = office \/ office' = updated)
    BY <1>5 DEF OnException, Admitted, Begins, customerVars
  <2> QED BY <1>5, <2>1
<1>6. CASE HandleAssign(c)
  <2>1. office' = AssignException(Req(c).id, Req(c).to) => OfficeBut({"exceptions"})
    BY DEF AssignException, OfficeBut, OfficeTables
  <2> QED BY <1>5, <1>6, <2>1 DEF HandleAssign
<1>7. CASE HandleInvestigate(c)
  <2>1. office' = UpdateExceptionStatus(Req(c).id, "investigating") => OfficeBut({"exceptions"})
    BY DEF UpdateExceptionStatus, OfficeBut, OfficeTables
  <2> QED BY <1>5, <1>7, <2>1 DEF HandleInvestigate
<1>8. CASE HandleResolve(c)
  <2>1. office' = UpdateExceptionStatus(Req(c).id, "resolved") => OfficeBut({"exceptions"})
    BY DEF UpdateExceptionStatus, OfficeBut, OfficeTables
  <2> QED BY <1>5, <1>8, <2>1 DEF HandleResolve
<1>9. CASE HandleEscalate(c)
  <2>1. office' = EscalateException(Req(c).id) => OfficeBut({"exceptions"})
    BY DEF EscalateException, OfficeBut, OfficeTables
  <2> QED BY <1>5, <1>9, <2>1 DEF HandleEscalate
<1> QED BY <1>1, <1>2, <1>3, <1>4, <1>6, <1>7, <1>8, <1>9 DEF Reconciles
-----------------------------------------------------------------------------
(* One step of one request. *)

LEMMA Solo ==
  ASSUME NEW c \in Calls, OwnStep(c)
  PROVE  /\ Calls' = Calls /\ \A d \in Calls : Req(d)' = Req(d)
         /\ \A d \in Calls : d # c => call'[d] = call[d]
BY DEF OwnStep, Calls, Req

\* A request comes to a step only if it asks for what is done there.
Lands(c) == call'[c].pc \in DOMAIN OpAt => Req(c).op \in OpAt[call'[c].pc]

LEMMA OpsLand == ASSUME RecordBase, NEW c \in Calls, OwnStep(c), Lands(c) PROVE OpsInv'
BY Solo DEF RecordBase, OpsInv, Lands

LEMMA EndsLand ==
  ASSUME RecordBase, NEW c \in Calls
  PROVE  /\ \A ok : Finish(c, ok) => Lands(c)
         /\ \A step : step \notin DOMAIN OpAt /\ StepTo(c, step) => Lands(c)
         /\ \A step, u : (step \notin DOMAIN OpAt \/ Req(c).op \in OpAt[step]) /\ StepWith(c, step, u) => Lands(c)
         /\ \A step : (step \notin DOMAIN OpAt \/ Req(c).op \in OpAt[step]) /\ StepTo(c, step) => Lands(c)
<1> SessionRows BY BaseOf
<1>1. "done" \notin DOMAIN OpAt /\ "failed" \notin DOMAIN OpAt BY DEF OpAt
<1> QED BY <1>1, StepToFacts, StepWithFacts, FinishFacts DEF Lands

\* The steps that a request comes to that no other request shares.
LEMMA FreeSteps ==
  /\ {"checkUsername", "createUser", "createWallet", "defaultBalance", "createSession", "revokeOld", "loadUser",
      "revoke", "updatePassword", "revokeAll", "upsert", "done", "failed"} \cap DOMAIN OpAt = {}
  /\ OpAt["recordKYC"] = {"requestOTP"} /\ OpAt["demographics"] = {"verifyOTP"} /\ OpAt["raiseLevel"] = {"verifyOTP"}
  /\ OpAt["bind"] = {"linkTelegram"} /\ OpAt["writeCard"] = DOMAIN CardColumn
  /\ OpAt["writeStaff"] = {"updateStaff", "staffPassword"} /\ OpAt["resolveFlag"] = {"resolveFlag"}
  /\ OpAt["openFile"] = {"reconcile"} /\ OpAt["readLine"] = {"reconcile"} /\ OpAt["issueToken"] = {"adminLogin"}
BY DEF OpAt

LEMMA NoteLands ==
  ASSUME RecordBase, NEW c \in Calls,
         \/ call' = [call EXCEPT ![c].pc = "done", ![c].took = TRUE]
         \/ \E x : call' = [call EXCEPT ![c].pc = "done", ![c].took = TRUE, ![c].cut = x]
         \/ \E x, y : call' = [call EXCEPT ![c].pc = "done", ![c].took = TRUE, ![c].cut = x, ![c].flying = y]
         \/ call' = [call EXCEPT ![c].pc = "loadUser", ![c].took = TRUE]
         \/ \E x, y : call' = [call EXCEPT ![c].pc = "upsert", ![c].user = x, ![c].row = y]
  PROVE  Lands(c)
<1> SessionRows BY BaseOf, Zenon
<1> c \in DOMAIN call /\ {"pc", "took", "cut", "flying", "user", "row"} \subseteq DOMAIN call[c]
  BY DEF SessionRows, Calls, Fields
<1>1. call'[c].pc \in {"done", "loadUser", "upsert"}
  <2>1. CASE \E x, y : call' = [call EXCEPT ![c].pc = "upsert", ![c].user = x, ![c].row = y] BY <2>1
  <2>2. CASE \E x, y : call' = [call EXCEPT ![c].pc = "done", ![c].took = TRUE, ![c].cut = x, ![c].flying = y]
    BY <2>2, ZenonT(40)
  <2>3. CASE \E x : call' = [call EXCEPT ![c].pc = "done", ![c].took = TRUE, ![c].cut = x] BY <2>3
  <2>4. CASE call' = [call EXCEPT ![c].pc = "done", ![c].took = TRUE] BY <2>4
  <2>5. CASE call' = [call EXCEPT ![c].pc = "loadUser", ![c].took = TRUE] BY <2>5
  <2> QED BY <2>1, <2>2, <2>3, <2>4, <2>5
<1> QED BY <1>1, FreeSteps DEF Lands

LEMMA RegistersLand == ASSUME RecordBase, NEW c \in Calls, Registers(c) PROVE Lands(c)
<1> USE EndsLand, FreeSteps
<1>1. CASE HandleRegister(c) BY <1>1 DEF HandleRegister, CheckPhone
<1>2. CASE HandleOnboard(c) BY <1>2 DEF HandleOnboard, RegisterUser
<1>3. CASE CheckUsername(c) BY <1>3 DEF CheckUsername
<1>4. CASE CreateUser(c) BY <1>4 DEF CreateUser
<1>5. CASE CreateWallet(c) BY <1>5 DEF CreateWallet
<1>6. CASE CreateDefaultBalance(c) BY <1>6 DEF CreateDefaultBalance
<1> QED BY <1>1, <1>2, <1>3, <1>4, <1>5, <1>6 DEF Registers

LEMMA SessionsLand == ASSUME RecordBase, NEW c \in Calls, Sessions(c) PROVE Lands(c)
<1> USE EndsLand, FreeSteps, NoteLands
<1>1. CASE CreateSession(c) BY <1>1, Zenon DEF CreateSession
<1>2. CASE HandleLogin(c) BY <1>2, Zenon DEF HandleLogin
<1>3. CASE HandleRefresh(c) BY <1>3, Zenon DEF HandleRefresh
<1>4. CASE RevokeOld(c) BY <1>4, Zenon DEF RevokeOld
<1>5. CASE LoadUser(c) BY <1>5, Zenon DEF LoadUser
<1>6. CASE HandleLogout(c) BY <1>6, Zenon DEF HandleLogout
<1>7. CASE Logout(c) BY <1>7, Zenon DEF Logout
<1>8. CASE HandleChangePassword(c) BY <1>8, Zenon DEF HandleChangePassword, ChangePassword
<1>9. CASE UpdatePassword(c) BY <1>9, Zenon DEF UpdatePassword
<1>10. CASE RevokeAll(c) BY <1>10, Zenon DEF RevokeAll
<1> QED BY <1>1, <1>2, <1>3, <1>4, <1>5, <1>6, <1>7, <1>8, <1>9, <1>10, Zenon DEF Sessions

LEMMA IdentifiesLand == ASSUME RecordBase, NEW c \in Calls, Identifies(c) PROVE Lands(c)
<1> USE EndsLand, FreeSteps
<1>1. CASE HandleRequestOTP(c) BY <1>1 DEF HandleRequestOTP, Begins, RequestOTP
<1>2. CASE CreateVerification(c) BY <1>2 DEF CreateVerification
<1>3. CASE HandleVerifyOTP(c) BY <1>3 DEF HandleVerifyOTP, Begins, VerifyOTP
<1>4. CASE UpdateDemographics(c)
  <2>1. Req(c).op = "verifyOTP" BY <1>4, BaseOf DEF UpdateDemographics, At, OpAt
  <2> QED BY <1>4, <2>1 DEF UpdateDemographics
<1>5. CASE RaiseLevel(c) BY <1>5 DEF RaiseLevel
<1> QED BY <1>1, <1>2, <1>3, <1>4, <1>5 DEF Identifies

LEMMA SettingsLand == ASSUME RecordBase, NEW c \in Calls, Settings(c) PROVE Lands(c)
BY EndsLand, FreeSteps DEF Settings, HandleDeepLink, BindTelegram, HandleWaterfall, Begins

LEMMA DirectoryLands == ASSUME RecordBase, NEW c \in Calls, DirectoryStep(c) PROVE Lands(c)
<1> USE EndsLand, FreeSteps, NoteLands
<1>1. CASE HandleCreateRecipient(c) BY <1>1, Zenon DEF HandleCreateRecipient
<1>2. CASE SaveFromTransfer(c) BY <1>2, Zenon DEF SaveFromTransfer
<1>3. CASE UpsertRecipient(c) BY <1>3, Zenon DEF UpsertRecipient
<1>4. CASE HandleSetFavorite(c) BY <1>4, Zenon DEF HandleSetFavorite
<1>5. CASE HandleArchive(c) BY <1>5, Zenon DEF HandleArchive
<1>6. CASE CreateBeneficiary(c) BY <1>6, Zenon DEF CreateBeneficiary
<1>7. CASE DeleteBeneficiary(c) BY <1>7, Zenon DEF DeleteBeneficiary
<1>8. CASE CreateCard(c) BY <1>8, Zenon DEF CreateCard
<1>9. CASE HandleCard(c)
  <2>1. Req(c).op \in DOMAIN CardColumn BY <1>9, Zenon DEF HandleCard, Begins
  <2> QED BY <1>9, <2>1, Zenon DEF HandleCard
<1>10. CASE WriteCard(c) BY <1>10, Zenon DEF WriteCard
<1> QED BY <1>1, <1>2, <1>3, <1>4, <1>5, <1>6, <1>7, <1>8, <1>9, <1>10, Zenon DEF DirectoryStep

LEMMA StaffLands == ASSUME RecordBase, NEW c \in Calls, Staff(c) PROVE Lands(c)
<1> SessionRows BY BaseOf
<1>0. \A x, row : Keep(c, x, row) /\ Req(c).op \in OpAt["writeStaff"] => Lands(c)
  <2> SUFFICES ASSUME NEW x, NEW row, Keep(c, x, row), Req(c).op \in OpAt["writeStaff"] PROVE Lands(c) OBVIOUS
  <2> c \in DOMAIN call /\ {"pc", "user", "row", "cut"} \subseteq DOMAIN call[c] BY DEF SessionRows, Calls, Fields
  <2>1. call'[c].pc = "writeStaff" BY DEF Keep
  <2> QED BY <2>1 DEF Lands
<1>00. ASSUME NEW x, NEW row, call' = [call EXCEPT ![c].pc = "issueToken", ![c].user = x, ![c].row = row], Req(c).op = "adminLogin"
       PROVE  Lands(c)
  <2>1. call'[c].pc = "issueToken" BY <1>00 DEF SessionRows, Calls, Fields
  <2> QED BY <1>00, <2>1, FreeSteps DEF Lands
<1> USE EndsLand, FreeSteps, NoteLands
<1>1. CASE HandleAdminLogin(c) BY <1>00, <1>1, Zenon DEF HandleAdminLogin, Begins
<1>8. CASE IssueToken(c) BY <1>8, Zenon DEF IssueToken
<1>2. CASE HandleCreateStaff(c) BY <1>2, Zenon DEF HandleCreateStaff
<1>3. CASE HandleUpdateStaff(c) BY <1>0, <1>3, Zenon DEF HandleUpdateStaff, Admitted, Begins
<1>4. CASE HandleStaffPassword(c) BY <1>0, <1>4, Zenon DEF HandleStaffPassword, ChangeStaffPassword, Begins
<1>5. CASE WriteStaff(c) BY <1>5, Zenon DEF WriteStaff
<1>6. CASE HandleDeactivateStaff(c) BY <1>6, Zenon DEF HandleDeactivateStaff
<1>7. CASE Forbidden(c) BY <1>7, Zenon DEF Forbidden
<1> QED BY <1>1, <1>2, <1>3, <1>4, <1>5, <1>6, <1>7, <1>8, Zenon DEF Staff

LEMMA CustomersLand == ASSUME RecordBase, NEW c \in Calls, Customers(c) PROVE Lands(c)
<1> USE EndsLand, FreeSteps
<1>1. CASE HandleFreeze(c) BY <1>1 DEF HandleFreeze, OnCustomer
<1>2. CASE HandleUnfreeze(c) BY <1>2 DEF HandleUnfreeze, OnCustomer
<1>3. CASE HandleKYCOverride(c) BY <1>3 DEF HandleKYCOverride, OnCustomer
<1>4. CASE HandleAdminCard(c) BY <1>4 DEF HandleAdminCard
<1>5. CASE HandleCreateFlag(c) BY <1>5 DEF HandleCreateFlag
<1>6. CASE HandleResolveFlag(c) BY <1>6 DEF HandleResolveFlag, Admitted, Begins
<1>7. CASE ResolveFlag(c) BY <1>7 DEF ResolveFlag
<1> QED BY <1>1, <1>2, <1>3, <1>4, <1>5, <1>6, <1>7 DEF Customers

LEMMA ReconcilesLand == ASSUME RecordBase, NEW c \in Calls, Reconciles(c) PROVE Lands(c)
<1> USE EndsLand, FreeSteps
<1> SessionRows BY BaseOf
<1>1. CASE CreateRun(c) BY <1>1 DEF CreateRun, Begins
<1>2. CASE OpenFile(c)
  <2>1. Req(c).op = "reconcile" BY <1>2, BaseOf DEF OpenFile, At, OpAt
  <2>2. CASE call' = [call EXCEPT ![c].pc = "readLine", ![c].row = [line |-> 1, matched |-> 0, exceptions |-> 0]]
    <3>1. call'[c].pc = "readLine" BY <2>2 DEF SessionRows, Calls, Fields
    <3> QED BY <2>1, <3>1 DEF Lands
  <2> QED BY <1>2, <2>2 DEF OpenFile
<1>3. CASE ReadLine(c) \/ SkipLine(c)
  <2>1. call[c].pc = "readLine" /\ Req(c).op = "reconcile" BY <1>3, BaseOf DEF ReadLine, SkipLine, At, OpAt
  <2>2. \/ call' = [call EXCEPT ![c].row.line = @ + 1]
        \/ call' = [call EXCEPT ![c].row.line = @ + 1, ![c].row.matched = @ + 1]
        \/ call' = [call EXCEPT ![c].row.line = @ + 1, ![c].row.exceptions = @ + 1]
    BY <1>3 DEF ReadLine, SkipLine
  <2>3. call'[c].pc = call[c].pc BY <2>2 DEF SessionRows, Calls, Fields
  <2> QED BY <2>1, <2>3 DEF Lands
<1>4. CASE EndOfFile(c) BY <1>4 DEF EndOfFile
<1>5. CASE HandleAssign(c) BY <1>5 DEF HandleAssign, OnException
<1>6. CASE HandleInvestigate(c) BY <1>6 DEF HandleInvestigate, OnException
<1>7. CASE HandleResolve(c) BY <1>7 DEF HandleResolve, OnException
<1>8. CASE HandleEscalate(c) BY <1>8 DEF HandleEscalate, OnException
<1> QED BY <1>1, <1>2, <1>3, <1>4, <1>5, <1>6, <1>7, <1>8 DEF Reconciles
-----------------------------------------------------------------------------
(* All of the steps together. *)

StepOf(c) == \/ (CustomerStep(c) \/ DirectoryStep(c)) /\ UNCHANGED office
             \/ Staff(c) \/ Customers(c) \/ Reconciles(c)

LEMMA StepEffect ==
  ASSUME RecordBase, NEW c \in Calls, StepOf(c)
  PROVE  \/ Registers(c) /\ Works(c, {"register", "onboard"}) /\ DbBut({"users", "balances"}) /\ office' = office
         \/ /\ Sessions(c) /\ Works(c, {"register", "login", "refresh", "logout", "changePassword"})
            /\ DbBut({"users", "sessions"}) /\ UsersBut({"pass"}) /\ office' = office
         \/ /\ Identifies(c) /\ Works(c, {"requestOTP", "verifyOTP"})
            /\ DbBut({"users", "kyc"}) /\ UsersBut({"name", "kyc"}) /\ office' = office
         \/ /\ Settings(c) /\ Works(c, {"linkTelegram", "waterfall"})
            /\ DbBut({"users", "links"}) /\ UsersBut({"telegram", "waterfall"}) /\ office' = office
         \/ /\ DirectoryStep(c) /\ Works(c, DirectoryOps) /\ DbBut({"recipients", "beneficiaries", "cards"})
            /\ UsersBut({}) /\ office' = office
         \/ Staff(c) /\ Works(c, StaffOps) /\ db' = db /\ wallets' = wallets /\ OfficeBut({"staff", "tokens"})
         \/ /\ Customers(c) /\ Works(c, CustomersOps) /\ wallets' = wallets
            /\ DbBut({"users", "cards"}) /\ UsersBut({"frozen", "kyc"}) /\ OfficeBut({"flags"})
         \/ /\ Reconciles(c) /\ Works(c, ReconcilesOps) /\ db' = db /\ wallets' = wallets
            /\ OfficeBut({"runs", "exceptions"})
         \/ Fails(c)
<1>1. CASE Registers(c) /\ office' = office BY <1>1, RegistersEffect
<1>2. CASE Sessions(c) /\ office' = office BY <1>2, SessionsEffect
<1>3. CASE Identifies(c) /\ office' = office BY <1>3, IdentifiesEffect
<1>4. CASE Settings(c) /\ office' = office BY <1>4, SettingsEffect
<1>5. CASE Dies(c) /\ office' = office BY <1>5, DiesFails
<1>6. CASE DirectoryStep(c) /\ office' = office
  <2>1. DbBut({"recipients", "beneficiaries", "cards"}) BY <1>6, DirectoryEffect
  <2>2. UsersBut({}) BY <2>1, ButMore
  <2> QED BY <1>6, <2>1, <2>2, DirectoryEffect
<1>7. CASE Staff(c) BY <1>7, StaffEffect
<1>8. CASE Customers(c) BY <1>8, CustomersEffect
<1>9. CASE Reconciles(c) BY <1>9, ReconcilesEffect
<1> QED BY <1>1, <1>2, <1>3, <1>4, <1>5, <1>6, <1>7, <1>8, <1>9 DEF StepOf, CustomerStep

\* What holds of every step.
LEMMA StepFacts ==
  ASSUME RecordBase, NEW c \in Calls, StepOf(c)
  PROVE  OwnStep(c) /\ call[c].pc \notin {"done", "failed"} /\ DOMAIN office' = OfficeTables /\ DOMAIN db' = Tables
BY StepEffect, BaseOf DEF Works, Fails, DbBut, OfficeBut

LEMMA OpsKept == ASSUME RecordBase, NEW c \in Calls, StepOf(c) PROVE OpsInv'
<1>1. Dies(c) => Lands(c) BY EndsLand DEF Dies
<1>2. Lands(c)
  BY <1>1, RegistersLand, SessionsLand, IdentifiesLand, SettingsLand, DirectoryLands, StaffLands, CustomersLand,
     ReconcilesLand DEF StepOf, CustomerStep
<1> QED BY <1>2, StepFacts, OpsLand

\* New users are those of CreateUser.
LEMMA CreatedUser ==
  ASSUME RecordBase, NEW c \in Calls, Registers(c)
  PROVE  \/ db'.users = db.users
         \/ /\ CreateUser(c) /\ c \notin DOMAIN db.users /\ ~Taken(Req(c)) /\ StepWith(c, "createWallet", c)
            /\ DOMAIN db'.users = DOMAIN db.users \cup {c} /\ db'.users[c] = NewUser(Req(c))
            /\ \A u \in DOMAIN db.users : db'.users[u] = db.users[u]
<1>1. CASE CreateUser(c) /\ ~Taken(Req(c))
  <2>1. db' = [db EXCEPT !.users = Insert(@, c, NewUser(Req(c)))] /\ StepWith(c, "createWallet", c)
    BY <1>1 DEF CreateUser
  <2>2. c \notin DOMAIN db.users BY <1>1, BaseOf DEF CreateUser, At, Placed
  <2>3. db'.users = Insert(db.users, c, NewUser(Req(c))) BY <2>1, BaseOf DEF Tables
  <2> QED BY <1>1, <2>1, <2>2, <2>3 DEF Insert
<1>2. CASE CreateDefaultBalance(c) BY <1>2, BaseOf DEF CreateDefaultBalance, Tables
<1>3. CASE ~(CreateUser(c) /\ ~Taken(Req(c))) /\ ~CreateDefaultBalance(c)
  BY <1>3 DEF Registers, HandleRegister, HandleOnboard, CheckUsername, CreateUser, CreateWallet, customerVars
<1> QED BY <1>1, <1>2, <1>3

\* Sessions are never deleted, nor given to somebody else.
SessionsLast ==
  /\ DOMAIN db.sessions \subseteq DOMAIN db'.sessions
  /\ \A s \in DOMAIN db.sessions : db'.sessions[s].user = db.sessions[s].user
NewSession(c) == call[c].pc = "createSession" /\ call'[c].pc = "done"

LEMMA CreatedSession ==
  ASSUME RecordBase, NEW c \in Calls, Sessions(c)
  PROVE  /\ SessionsLast /\ \A s \in DOMAIN db'.sessions : s \in DOMAIN db.sessions \/ (s = c /\ NewSession(c))
         /\ Req(c).op = "register" => NewSession(c)
<1> SessionRows BY BaseOf
<1>0. \A token : db' = db \/ db' = RevokeSession(token) \/ (\E u : db' = RevokeAllForUser(u))
                 \/ (\E u, x : db' = [db EXCEPT !.users[u].pass = x])
        => SessionsLast /\ DOMAIN db'.sessions = DOMAIN db.sessions
  <2>1. db' = db => SessionsLast /\ DOMAIN db'.sessions = DOMAIN db.sessions BY DEF SessionsLast
  <2>2. ASSUME NEW token, db' = RevokeSession(token)
        PROVE  SessionsLast /\ DOMAIN db'.sessions = DOMAIN db.sessions
    BY <2>2 DEF SessionsLast, RevokeSession, SessionRows, Tables
  <2>3. ASSUME NEW u, db' = RevokeAllForUser(u)
        PROVE  SessionsLast /\ DOMAIN db'.sessions = DOMAIN db.sessions
    <3>1. db'.sessions = [s \in DOMAIN db.sessions |-> IF s \in SessionsOf(u) THEN [db.sessions[s] EXCEPT !.revoked = TRUE]
                                                                             ELSE db.sessions[s]]
      BY <2>3 DEF RevokeAllForUser, SessionRows, Tables
    <3> QED BY <3>1 DEF SessionsLast, SessionRows
  <2>4. ASSUME NEW u, NEW x, db' = [db EXCEPT !.users[u].pass = x]
        PROVE  SessionsLast /\ DOMAIN db'.sessions = DOMAIN db.sessions
    BY <2>4 DEF SessionsLast, SessionRows, Tables
  <2> QED BY <2>1, <2>2, <2>3, <2>4
<1>1. CASE CreateSession(c)
  <2>1. PICK row : db' = [db EXCEPT !.sessions = Insert(@, c, row)] BY <1>1 DEF CreateSession
  <2>2. call[c].pc = "createSession" /\ call'[c].pc = "done"
    BY <1>1, StepToFacts DEF CreateSession, At, Finish
  <2>3. c \notin DOMAIN db.sessions BY <2>2, BaseOf DEF SessionCall
  <2>4. db'.sessions = Insert(db.sessions, c, row) BY <2>1 DEF SessionRows, Tables
  <2> QED BY <2>2, <2>3, <2>4 DEF Insert, SessionsLast, NewSession
<1>2. CASE ~CreateSession(c)
  <2>1. db' = db \/ db' = RevokeSession(Req(c).token) \/ (\E u : db' = RevokeAllForUser(u))
        \/ (\E u, x : db' = [db EXCEPT !.users[u].pass = x])
    BY <1>2 DEF Sessions, HandleLogin, HandleRefresh, RevokeOld, LoadUser, HandleLogout, Logout, HandleChangePassword,
                UpdatePassword, RevokeAll, customerVars
  <2>2. Req(c).op # "register"
    BY <1>2, BaseOf DEF Sessions, HandleLogin, HandleRefresh, RevokeOld, LoadUser, HandleLogout, Logout,
                HandleChangePassword, UpdatePassword, RevokeAll, Begins, At, Placed
  <2> QED BY <2>1, <2>2, <1>0
<1> QED BY <1>1, <1>2

LEMMA SessionsStay == ASSUME RecordBase, NEW c \in Calls, StepOf(c) PROVE SessionsLast
<1>1. CASE Sessions(c) BY <1>1, CreatedSession
<1>2. CASE db'.sessions = db.sessions BY <1>2 DEF SessionsLast
<1>3. Sessions(c) \/ db'.sessions = db.sessions BY StepEffect DEF DbBut, Tables, Fails
<1> QED BY <1>1, <1>2, <1>3

\* Nor are users deleted.
LEMMA UsersStay == ASSUME RecordBase, NEW c \in Calls, StepOf(c) PROVE DOMAIN db.users \subseteq DOMAIN db'.users
<1>1. CASE Registers(c) BY <1>1, CreatedUser
<1>2. CASE ~Registers(c) BY <1>2, StepEffect DEF UsersBut, Fails
<1> QED BY <1>1, <1>2
-----------------------------------------------------------------------------
(* Registration. *)

LEMMA RegistrationFrame ==
  ASSUME RecordBase, RegistrationInv, SessionInv', NEW c \in Calls, OwnStep(c), call[c].pc \notin {"done", "failed"},
         DOMAIN db'.users = DOMAIN db.users,
         \A u \in DOMAIN db.users : /\ db'.users[u].phone = db.users[u].phone
                                    /\ db'.users[u].username = db.users[u].username,
         \A s \in DOMAIN db'.sessions : s \in DOMAIN db.sessions \/ (s = c /\ NewSession(c)),
         wallets \subseteq wallets', db.balances \subseteq db'.balances,
         call'[c].pc \in {"createWallet", "defaultBalance"} => c \in DOMAIN db'.users,
         call'[c].pc = "defaultBalance" => c \in wallets',
         call'[c].pc = "createSession" /\ Req(c).op = "register" => c \in wallets' \cap db'.balances,
         Req(c).op = "onboard" /\ call'[c].pc = "done" => GetByPhone(Req(c).phone) # {}
  PROVE  RegistrationInv'
<1> USE Solo
<1>1. \A phone : GetByPhone(phone) # {} => GetByPhone(phone)' # {} BY DEF GetByPhone
<1>2. \A s \in DOMAIN db'.sessions : s \in DOMAIN db'.users => s \in wallets' \cap db'.balances
  <2>1. ASSUME c \in DOMAIN db.users, NewSession(c) PROVE c \in wallets \cap db.balances
    <3>1. Req(c).op = "register" BY <2>1, BaseOf DEF RegistrationInv, NewSession, Placed
    <3> QED BY <2>1, <3>1 DEF RegistrationInv, NewSession
  <2> QED BY <2>1 DEF RegistrationInv, RegistrationIsWhole
<1>3. \A d \in Calls : (Req(d).op = "onboard" /\ call'[d].pc = "done") => GetByPhone(Req(d).phone)' # {}
  BY <1>1 DEF RegistrationInv, RegistrationIsWhole
<1>4. RegistrationIsWhole'
  BY <1>2, <1>3 DEF RegistrationInv, RegistrationIsWhole, GetByPhone
<1>5. \A d \in Calls' :
        /\ d \in DOMAIN db'.users => Req(d)'.op \in {"register", "onboard"} /\ db'.users[d].phone = Req(d)'.phone
        /\ call'[d].pc \in {"createWallet", "defaultBalance"} => d \in DOMAIN db'.users
        /\ call'[d].pc = "defaultBalance" => d \in wallets'
        /\ call'[d].pc = "createSession" /\ Req(d)'.op = "register" => d \in wallets' \cap db'.balances
  BY DEF RegistrationInv
<1> QED BY <1>4, <1>5 DEF RegistrationInv

LEMMA RegistrationKept ==
  ASSUME RecordBase, RegistrationInv, SessionInv', NEW c \in Calls, StepOf(c)
  PROVE  RegistrationInv'
<1> USE StepFacts
<1>1. CASE CreateUser(c) /\ db'.users # db.users
  <2>1. /\ c \notin DOMAIN db.users /\ ~Taken(Req(c)) /\ StepWith(c, "createWallet", c)
        /\ DOMAIN db'.users = DOMAIN db.users \cup {c} /\ db'.users[c] = NewUser(Req(c))
        /\ \A u \in DOMAIN db.users : db'.users[u] = db.users[u]
    BY <1>1, CreatedUser DEF Registers
  <2>2. db'.sessions = db.sessions /\ db'.balances = db.balances /\ wallets' = wallets
    BY <1>1, BaseOf DEF CreateUser, Tables
  <2>3. call'[c].pc = "createWallet" /\ Req(c).op \in {"register", "onboard"} /\ c \notin DOMAIN db.sessions
    BY <1>1, <2>1, BaseOf, StepWithFacts DEF CreateUser, At, Placed, SessionCall
  <2>4. \A u \in DOMAIN db.users : db.users[u].phone # Req(c).phone
                                   /\ (Req(c).username # None => db.users[u].username # Req(c).username)
    BY <2>1 DEF Taken, GetByPhone, GetByUsername
  <2>5. db'.users[c].phone = Req(c).phone /\ db'.users[c].username = Req(c).username BY <2>1 DEF NewUser
  <2>6. \A u, v \in DOMAIN db'.users : u # v =>
           /\ db'.users[u].phone # db'.users[v].phone
           /\ db'.users[u].username # None => db'.users[u].username # db'.users[v].username
    BY <2>1, <2>4, <2>5 DEF RegistrationInv, RegistrationIsWhole
  <2>7. \A phone : GetByPhone(phone) # {} => GetByPhone(phone)' # {} BY <2>1 DEF GetByPhone
  <2>8. RegistrationIsWhole'
    <3>1. \A d \in Calls' : (Req(d)'.op = "onboard" /\ call'[d].pc = "done") => GetByPhone(Req(d).phone)' # {}
      <4>1. \A d \in Calls : (Req(d).op = "onboard" /\ call'[d].pc = "done") => GetByPhone(Req(d).phone) # {}
        BY <2>3, Solo DEF RegistrationInv, RegistrationIsWhole
      <4> QED BY <2>7, <4>1, Solo
    <3> QED BY <2>1, <2>2, <2>3, <2>6, <3>1 DEF RegistrationInv, RegistrationIsWhole, GetByPhone
  <2> QED BY <2>1, <2>2, <2>3, <2>5, <2>8, Solo DEF RegistrationInv
<1>2. CASE Registers(c) /\ db'.users = db.users
  <2>0. db'.sessions = db.sessions BY <1>2, RegistersEffect DEF DbBut, Tables
  <2>1. CASE HandleRegister(c) \/ HandleOnboard(c) \/ CheckUsername(c) \/ (CreateUser(c) /\ Taken(Req(c)))
    <3>1. wallets' = wallets /\ db' = db
      BY <2>1 DEF HandleRegister, HandleOnboard, CheckUsername, CreateUser, customerVars
    <3>2. \/ \E step \in {"checkUsername", "createUser", "failed"} : StepTo(c, step)
          \/ StepTo(c, "done") /\ GetByPhone(Req(c).phone) # {}
      <4>1. CASE HandleRegister(c) BY <4>1 DEF HandleRegister, CheckPhone, Finish
      <4>2. CASE HandleOnboard(c) BY <4>2 DEF HandleOnboard, RegisterUser, Finish
      <4>3. CASE CheckUsername(c) BY <4>3 DEF CheckUsername, Finish
      <4>4. CASE CreateUser(c) /\ Taken(Req(c)) BY <4>4 DEF CreateUser, Finish
      <4> QED BY <2>1, <4>1, <4>2, <4>3, <4>4
    <3>3. call'[c].pc \notin {"createWallet", "defaultBalance", "createSession"}
      BY <3>2, BaseOf, StepToFacts
    <3>4. call'[c].pc = "done" => GetByPhone(Req(c).phone) # {} BY <3>2, BaseOf, StepToFacts
    <3> QED BY <1>2, <2>0, <3>1, <3>3, <3>4, RegistrationFrame
  <2>2. CASE CreateUser(c) /\ ~Taken(Req(c))
    <3>1. ~Taken(Req(c)) /\ db' = [db EXCEPT !.users = Insert(@, c, NewUser(Req(c)))] /\ c \notin DOMAIN db.users
      BY <2>2, BaseOf DEF CreateUser, At, Placed
    <3>2. c \in DOMAIN db'.users BY <3>1, BaseOf DEF Insert, Tables
    <3> QED BY <1>2, <3>1, <3>2
  <2>3. CASE CreateWallet(c)
    <3>1. /\ call[c].pc = "createWallet" /\ call'[c].pc = "defaultBalance" /\ wallets' = wallets \cup {c}
          /\ db' = db
      BY <2>3, BaseOf, StepToFacts DEF CreateWallet, At
    <3>2. c \in DOMAIN db.users BY <3>1 DEF RegistrationInv
    <3> QED BY <1>2, <2>0, <3>1, <3>2, RegistrationFrame
  <2>4. CASE CreateDefaultBalance(c)
    <3>1. /\ call[c].pc = "defaultBalance" /\ wallets' = wallets /\ db'.balances = db.balances \cup {c}
          /\ StepTo(c, IF Req(c).op = "register" THEN "createSession" ELSE "done")
      BY <2>4, BaseOf DEF CreateDefaultBalance, At, Tables
    <3>2. c \in DOMAIN db.users /\ db.users[c].phone = Req(c).phone /\ c \in wallets BY <3>1 DEF RegistrationInv
    <3>3. call'[c].pc \in {"createSession", "done"} BY <3>1, BaseOf, StepToFacts
    <3>4. GetByPhone(Req(c).phone) # {} BY <3>2 DEF GetByPhone
    <3> QED BY <1>2, <2>0, <3>1, <3>2, <3>3, <3>4, RegistrationFrame
  <2> QED BY <1>2, <2>1, <2>2, <2>3, <2>4 DEF Registers
<1>3. CASE Sessions(c)
  <2>1. wallets' = wallets
    BY <1>3 DEF Sessions, CreateSession, HandleLogin, HandleRefresh, RevokeOld, LoadUser, HandleLogout, Logout,
                HandleChangePassword, UpdatePassword, RevokeAll, customerVars
  <2>2. db'.balances = db.balances /\ Req(c).op # "onboard" BY <1>3, SessionsEffect DEF DbBut, Tables, Works
  <2>3. \A u \in DOMAIN db.users : db'.users[u].phone = db.users[u].phone /\ db'.users[u].username = db.users[u].username
    BY <1>3, SessionsEffect DEF UsersBut, UserColumns
  <2>4. DOMAIN db'.users = DOMAIN db.users BY <1>3, SessionsEffect DEF UsersBut
  <2>5. call'[c].pc \notin {"createWallet", "defaultBalance"}
    <3>1. Req(c).op = "register" => call'[c].pc = "done" BY <1>3, CreatedSession DEF NewSession
    <3>2. Placed(c)' BY Solo DEF SessionInv, SessionCalls, SessionCall
    <3> QED BY <3>1, <3>2, <2>2, Solo DEF Placed
  <2>6. Req(c).op = "register" => call'[c].pc = "done" BY <1>3, CreatedSession DEF NewSession
  <2> QED BY <1>3, <2>1, <2>2, <2>3, <2>4, <2>5, <2>6, CreatedSession, RegistrationFrame
<1>4. CASE ~Registers(c) /\ ~Sessions(c)
  <2>1. \/ /\ Identifies(c) \/ Settings(c) \/ DirectoryStep(c) \/ Staff(c) \/ Customers(c) \/ Reconciles(c)
           /\ Req(c).op \notin {"register", "onboard"} /\ UsersBut({"name", "kyc", "telegram", "waterfall", "frozen"})
           /\ db'.sessions = db.sessions /\ db'.balances = db.balances
        \/ Fails(c)
    <3>1. db' = db => UsersBut({}) BY ButSame
    <3> QED BY <1>4, <3>1, StepEffect, ButMore DEF Works, DbBut, Tables, DirectoryOps, StaffOps, CustomersOps, ReconcilesOps
  <2>2. CASE Fails(c) BY <2>2, RegistrationFrame DEF Fails
  <2>3. wallets' = wallets
    <3>1. CASE Identifies(c)
      BY <3>1 DEF Identifies, HandleRequestOTP, CreateVerification, HandleVerifyOTP, UpdateDemographics, RaiseLevel
    <3>2. CASE Settings(c) BY <3>2 DEF Settings, HandleDeepLink, BindTelegram, HandleWaterfall
    <3>3. CASE DirectoryStep(c)
      BY <3>3 DEF DirectoryStep, HandleCreateRecipient, SaveFromTransfer, UpsertRecipient, HandleSetFavorite,
         HandleArchive, CreateBeneficiary, DeleteBeneficiary, CreateCard, HandleCard, WriteCard, customerVars, Rest
    <3> QED BY <2>1, <3>1, <3>2, <3>3, StaffEffect, CustomersEffect, ReconcilesEffect DEF Fails
  <2>4. CASE Req(c).op \notin {"register", "onboard"} /\ UsersBut({"name", "kyc", "telegram", "waterfall", "frozen"})
             /\ db'.sessions = db.sessions /\ db'.balances = db.balances
    <3>1. Placed(c)' BY Solo DEF SessionInv, SessionCalls, SessionCall
    <3>2. call'[c].pc \notin {"createWallet", "defaultBalance"} BY <3>1, <2>4, Solo DEF Placed
    <3>3. \A u \in DOMAIN db.users : db'.users[u].phone = db.users[u].phone /\ db'.users[u].username = db.users[u].username
      BY <2>4 DEF UsersBut, UserColumns
    <3>4. DOMAIN db'.users = DOMAIN db.users BY <2>4 DEF UsersBut
    <3> QED BY <2>3, <2>4, <3>2, <3>3, <3>4, RegistrationFrame
  <2> QED BY <2>1, <2>2, <2>4
<1>5. CASE Registers(c) /\ db'.users # db.users BY <1>1, <1>5, CreatedUser
<1> QED BY <1>2, <1>3, <1>4, <1>5
-----------------------------------------------------------------------------
(* Links. *)

LEMMA LinksFrame ==
  ASSUME RecordBase, LinksInv, NEW c \in Calls, OwnStep(c),
         db'.links = db.links, Linker(c)' => Linker(c),
         \A u \in DOMAIN db'.users : u \in DOMAIN db.users \/ db'.users[u].telegram = None,
         \A u \in DOMAIN db.users \cap DOMAIN db'.users : db'.users[u].telegram = db.users[u].telegram
  PROVE  LinksInv'
<1>1. \A d \in Calls : Linker(d)' => Linker(d) BY Solo DEF Linker
<1>2. \A d \in Calls : Req(d).op = "linkTelegram" => Req(d).telegram # None
  BY FormAssumption, BaseOf DEF SessionRows, Req, None
<1>3. \A d \in Calls : Req(d).op = "linkTelegram" => GetByTelegramID(Req(d).telegram)' \subseteq GetByTelegramID(Req(d).telegram)
  BY <1>2, Solo DEF GetByTelegramID
<1>4. \A u, v \in DOMAIN db'.users : \A d \in Calls' :
        (Req(d)'.op = "linkTelegram" /\ {u, v} \subseteq GetByTelegramID(Req(d).telegram)') => u = v
  BY <1>3, Solo DEF LinksInv, GetByTelegramID
<1> QED BY <1>1, <1>4, Solo DEF LinksInv

LEMMA LinksKept == ASSUME RecordBase, LinksInv, NEW c \in Calls, StepOf(c) PROVE LinksInv'
<1> USE StepFacts
<1>1. CASE Registers(c)
  <2>1. db'.links = db.links /\ Req(c).op # "linkTelegram" BY <1>1, RegistersEffect DEF DbBut, Tables, Works
  <2>2. ~Linker(c)' BY <2>1, Solo DEF Linker
  <2>3. \A u \in DOMAIN db'.users : u \in DOMAIN db.users \/ db'.users[u].telegram = None
    <3>1. NewUser(Req(c)).telegram = None BY DEF NewUser
    <3> QED BY <1>1, <3>1, CreatedUser
  <2>4. \A u \in DOMAIN db.users \cap DOMAIN db'.users : db'.users[u].telegram = db.users[u].telegram
    BY <1>1, CreatedUser
  <2> QED BY <2>1, <2>2, <2>3, <2>4, LinksFrame
<1>2. CASE HandleDeepLink(c)
  <2>1. /\ call[c].pc = "new" /\ Req(c).op = "linkTelegram" BY <1>2 DEF HandleDeepLink, Begins
  <2>2. CASE db' = db /\ Finish(c, FALSE)
    <3>1. Linker(c)' => Linker(c) BY <2>2, FinishFacts, BaseOf, Solo DEF Linker
    <3> QED BY <2>2, <3>1, LinksFrame
  <2>3. CASE Consumable(Req(c).link) /\ db' = Consume(Req(c).link)
    <3>1. /\ Req(c).link \in DOMAIN db.links /\ ~db.links[Req(c).link].consumed BY <2>3 DEF Consumable
    <3>2. db'.users = db.users /\ db'.links = [db.links EXCEPT ![Req(c).link].consumed = TRUE]
      BY <2>3, BaseOf DEF Consume, Tables
    <3>3. /\ DOMAIN db'.links = DOMAIN db.links
          /\ \A k \in DOMAIN db.links : DOMAIN db'.links[k] = {"user", "consumed"}
                                        /\ (k # Req(c).link => db'.links[k] = db.links[k])
          /\ db'.links[Req(c).link].consumed = TRUE
      BY <3>1, <3>2 DEF LinksInv
    <3>4. \A d \in Calls : d # c => (Linker(d)' <=> Linker(d)) BY Solo DEF Linker
    <3>5. \A d \in Calls : Linker(d) => Req(d).link # Req(c).link BY <3>1 DEF LinksInv
    <3>6. \A d \in Calls : Linker(d)' => Req(d).link \in DOMAIN db'.links /\ db'.links[Req(d).link].consumed
      BY <3>1, <3>3, <3>4 DEF LinksInv
    <3>7. \A d, e \in Calls : Linker(d)' /\ Linker(e)' /\ Req(d).link = Req(e).link => d = e
      BY <3>4, <3>5 DEF LinksInv
    <3>8. \A u, v \in DOMAIN db'.users : \A d \in Calls' :
            (Req(d)'.op = "linkTelegram" /\ {u, v} \subseteq GetByTelegramID(Req(d).telegram)') => u = v
      BY <3>2, Solo DEF LinksInv, GetByTelegramID
    <3> QED BY <3>3, <3>6, <3>7, <3>8, Solo DEF LinksInv
  <2> QED BY <1>2, <2>2, <2>3 DEF HandleDeepLink
<1>3. CASE BindTelegram(c)
  <2>1. Linker(c)' => Linker(c) BY <1>3, FinishFacts, BaseOf, Solo DEF BindTelegram, Linker
  <2>2. CASE db' = db BY <2>1, <2>2, LinksFrame
  <2>3. CASE db' # db
    <3> DEFINE me == call[c].user
               id == Req(c).telegram
    <3>1. db' = [db EXCEPT !.users[me].telegram = id] /\ GetByTelegramID(id) \ {me} = {}
      BY <1>3, <2>3 DEF BindTelegram
    <3>2. db'.links = db.links /\ DOMAIN db'.users = DOMAIN db.users BY <3>1, BaseOf DEF Tables
    <3>3. \A u \in DOMAIN db.users : db'.users[u].telegram = IF u = me THEN id ELSE db.users[u].telegram
      BY <3>1, BaseOf DEF Tables, SessionRows, UserColumns
    <3>4. \A d \in Calls : Linker(d)' => Linker(d) BY <2>1, Solo DEF Linker
    <3>5. ASSUME NEW u \in DOMAIN db.users, NEW v \in DOMAIN db.users, NEW x,
                 db'.users[u].telegram = x, db'.users[v].telegram = x,
                 db.users[u].telegram = x /\ db.users[v].telegram = x => u = v
          PROVE  u = v
      BY <3>1, <3>3, <3>5 DEF GetByTelegramID
    <3>6. \A u, v \in DOMAIN db.users : \A d \in Calls :
            (Req(d).op = "linkTelegram" /\ db.users[u].telegram = Req(d).telegram /\ db.users[v].telegram = Req(d).telegram) => u = v
      BY DEF LinksInv, GetByTelegramID
    <3>7. \A u, v \in DOMAIN db'.users : \A d \in Calls' :
            (Req(d)'.op = "linkTelegram" /\ {u, v} \subseteq GetByTelegramID(Req(d).telegram)') => u = v
      BY <3>2, <3>5, <3>6, Solo DEF GetByTelegramID
    <3> QED BY <3>2, <3>4, <3>7, Solo DEF LinksInv
  <2> QED BY <2>2, <2>3
<1>4. CASE ~Registers(c) /\ ~HandleDeepLink(c) /\ ~BindTelegram(c)
  <2>1. /\ Fails(c) \/ Req(c).op # "linkTelegram"
        /\ db'.links = db.links /\ UsersBut({"pass", "name", "kyc", "waterfall", "frozen"})
    <3>1. CASE HandleWaterfall(c)
      <4>1. Req(c).op = "waterfall" BY <3>1 DEF HandleWaterfall, Begins
      <4>2. db' = db \/ db' = [db EXCEPT !.users[TokenUser(c)].waterfall = Req(c).order]
        BY <3>1 DEF HandleWaterfall, UpdateSpendWaterfall
      <4>3. DbBut({"users"}) /\ UsersBut({"waterfall"}) BY <4>2, ButSame, ButMore, ButColumn DEF UserColumns
      <4> QED BY <4>1, <4>3, ButMore DEF DbBut, Tables
    <3>2. CASE ~HandleWaterfall(c)
      <4>1. db' = db => UsersBut({}) BY ButSame
      <4> QED BY <1>4, <3>2, <4>1, StepEffect, ButMore
              DEF Settings, Works, DbBut, Tables, DirectoryOps, StaffOps, CustomersOps, ReconcilesOps, Fails
    <3> QED BY <3>1, <3>2
  <2>2. Linker(c)' => Linker(c) BY <2>1, Solo DEF Linker, Fails
  <2>3. DOMAIN db'.users = DOMAIN db.users /\ \A u \in DOMAIN db.users : db'.users[u].telegram = db.users[u].telegram
    BY <2>1 DEF UsersBut, UserColumns
  <2> QED BY <2>1, <2>2, <2>3, LinksFrame
<1> QED BY <1>1, <1>2, <1>3, <1>4
-----------------------------------------------------------------------------
(* What staff said. *)

LEMMA WordFrame ==
  ASSUME RecordBase, WordInv, NEW c \in Calls, OwnStep(c), call[c].pc \notin {"done", "failed"},
         DOMAIN db.users \subseteq DOMAIN db'.users,
         \A u \in DOMAIN db'.users : u \in DOMAIN db.users \/ db'.users[u].kyc = KYCBasic,
         \A u \in DOMAIN db.users : db'.users[u].name = db.users[u].name \/ db'.users[u].name # None,
         \A u \in DOMAIN db.users : \/ db'.users[u].kyc = db.users[u].kyc \/ db'.users[u].name # None
                                    \/ Req(c).op = "overrideKYC" /\ Req(c).id = u /\ call'[c].pc = "done",
         \A u \in DOMAIN db.users : \/ db'.users[u].frozen = db.users[u].frozen \/ db'.users[u].frozen = TRUE
                                    \/ Req(c).op = "unfreeze" /\ Req(c).id = u /\ call'[c].pc = "done",
         Req(c).op = "freeze" /\ call'[c].pc = "done" =>
           Req(c).id \in DOMAIN db.users /\ db'.users[Req(c).id].frozen = TRUE,
         call'[c].pc \in {"demographics", "raiseLevel"} => call'[c].user \in DOMAIN db'.users,
         call'[c].pc = "raiseLevel" => db'.users[call'[c].user].name # None
  PROVE  WordInv'
<1> USE Solo
<1>1. \A d \in Calls' :
        /\ call'[d].pc \in {"demographics", "raiseLevel"} => call'[d].user \in DOMAIN db'.users
        /\ call'[d].pc = "raiseLevel" => db'.users[call'[d].user].name # None
        /\ Req(d)'.op = "freeze" /\ call'[d].pc = "done" => Req(d)'.id \in DOMAIN db'.users
  BY DEF WordInv
<1>2. ASSUME NEW u \in DOMAIN db'.users, db'.users[u].kyc > KYCBasic
      PROVE  \/ db'.users[u].name # None
             \/ \E d \in Calls : Req(d).op = "overrideKYC" /\ Req(d).id = u /\ call'[d].pc = "done"
  <2>1. u \in DOMAIN db.users BY <1>2 DEF KYCBasic
  <2>2. CASE db'.users[u].kyc = db.users[u].kyc
    <3>1. CASE db.users[u].name # None BY <2>1, <3>1
    <3>2. CASE \E d \in Calls : Req(d).op = "overrideKYC" /\ Req(d).id = u /\ call[d].pc = "done" BY <3>2
    <3> QED BY <1>2, <2>1, <2>2, <3>1, <3>2 DEF WordInv, StaffWordStands
  <2> QED BY <2>1, <2>2
<1>3. ASSUME NEW d \in Calls, Req(d).op = "freeze", call'[d].pc = "done"
      PROVE  \/ db'.users[Req(d).id].frozen
             \/ \E e \in Calls : Req(e).op = "unfreeze" /\ Req(e).id = Req(d).id /\ call'[e].pc = "done"
  <2>1. CASE d = c BY <1>3, <2>1
  <2>2. CASE d # c
    <3>1. Req(d).id \in DOMAIN db.users /\ call[d].pc = "done" BY <1>3, <2>2 DEF WordInv
    <3>2. CASE db.users[Req(d).id].frozen BY <3>1, <3>2
    <3>3. CASE \E e \in Calls : Req(e).op = "unfreeze" /\ Req(e).id = Req(d).id /\ call[e].pc = "done" BY <3>3
    <3> QED BY <1>3, <3>1, <3>2, <3>3 DEF WordInv, StaffWordStands
  <2> QED BY <2>1, <2>2
<1>4. StaffWordStands' BY <1>2, <1>3 DEF StaffWordStands
<1> QED BY <1>1, <1>4 DEF WordInv

\* A step that leaves name, level and freeze of users alone.
LEMMA WordStays ==
  ASSUME RecordBase, WordInv, NEW c \in Calls, OwnStep(c), call[c].pc \notin {"done", "failed"},
         UsersBut({"pass", "telegram", "waterfall"}),
         Req(c).op = "freeze" => call'[c].pc # "done",
         call'[c].pc = "demographics" => call'[c].user \in DOMAIN db.users,
         call'[c].pc # "raiseLevel"
  PROVE  WordInv'
<1>1. DOMAIN db'.users = DOMAIN db.users
      /\ \A u \in DOMAIN db.users : /\ db'.users[u].name = db.users[u].name /\ db'.users[u].kyc = db.users[u].kyc
                                    /\ db'.users[u].frozen = db.users[u].frozen
  BY DEF UsersBut, UserColumns
<1> QED BY <1>1, WordFrame

LEMMA OneColumn ==
  ASSUME RecordBase, NEW u \in DOMAIN db.users, NEW x, NEW column \in UserColumns, db' = [db EXCEPT !.users[u][column] = x]
  PROVE  /\ DOMAIN db'.users = DOMAIN db.users /\ db'.users[u][column] = x
         /\ \A v \in DOMAIN db.users : \A f \in UserColumns : v # u \/ f # column => db'.users[v][f] = db.users[v][f]
<1> SessionRows BY DEF RecordBase, SessionInv
<1>1. DOMAIN db'.users = DOMAIN db.users BY DEF SessionRows, Tables
<1>2. db'.users[u][column] = x BY DEF SessionRows, Tables
<1>3. ASSUME NEW v \in DOMAIN db.users, NEW f \in UserColumns, v # u \/ f # column PROVE db'.users[v][f] = db.users[v][f]
  BY <1>3 DEF SessionRows, Tables
<1> QED BY <1>1, <1>2, <1>3

LEMMA TokenUserIsUser ==
  ASSUME RecordBase, NEW c \in Calls, Authenticated(c)
  PROVE  Req(c).token \in DOMAIN db.sessions /\ TokenUser(c) \in DOMAIN db.users
BY DEF RecordBase, SessionInv, ChainsAreOfOneUser, Authenticated, GetByRefreshToken, TokenUser

LEMMA WordKept == ASSUME RecordBase, WordInv, NEW c \in Calls, StepOf(c) PROVE WordInv'
<1> USE StepFacts
<1>1. CASE Registers(c)
  <2>1. /\ DOMAIN db.users \subseteq DOMAIN db'.users
        /\ \A u \in DOMAIN db'.users : u \in DOMAIN db.users \/ db'.users[u].kyc = KYCBasic
        /\ \A u \in DOMAIN db.users : db'.users[u] = db.users[u]
    <3>1. NewUser(Req(c)).kyc = KYCBasic BY DEF NewUser
    <3> QED BY <1>1, <3>1, CreatedUser
  <2>2. Req(c).op \in {"register", "onboard"} BY <1>1, RegistersEffect DEF Works
  <2>3. call'[c].pc \notin {"demographics", "raiseLevel"}
    <3>1. Lands(c) BY <1>1, RegistersLand
    <3> QED BY <2>2, <3>1, FreeSteps DEF Lands, OpAt
  <2> QED BY <2>1, <2>2, <2>3, WordFrame
<1>2. CASE Identifies(c)
  <2>0. Req(c).op \in {"requestOTP", "verifyOTP"} BY <1>2, IdentifiesEffect DEF Works
  <2>1. CASE HandleRequestOTP(c) \/ CreateVerification(c) \/ HandleVerifyOTP(c)
    <3>1. UsersBut({"pass", "telegram", "waterfall"})
      <4>1. db'.users = db.users
        BY <2>1, BaseOf DEF HandleRequestOTP, CreateVerification, HandleVerifyOTP, VerifyOTP, UpdateKYCStatus, Tables
      <4> QED BY <4>1, BaseOf DEF UsersBut, SessionRows
    <3>2. call'[c].pc # "raiseLevel" /\ (call'[c].pc = "demographics" => call'[c].user \in DOMAIN db.users)
      <4>1. CASE HandleRequestOTP(c)
        <5>1. StepWith(c, "recordKYC", TokenUser(c)) \/ Finish(c, FALSE) BY <4>1 DEF HandleRequestOTP, RequestOTP
        <5>2. call'[c].pc \in {"recordKYC", "done", "failed"} BY <5>1, BaseOf, StepWithFacts, FinishFacts, ZenonT(40)
        <5> QED BY <5>2
      <4>2. CASE CreateVerification(c) BY <4>2, BaseOf, FinishFacts DEF CreateVerification
      <4>3. CASE HandleVerifyOTP(c)
        <5>1. TokenUser(c) \in DOMAIN db.users BY <4>3, TokenUserIsUser DEF HandleVerifyOTP
        <5>2. StepWith(c, "demographics", TokenUser(c)) \/ Finish(c, FALSE) BY <4>3 DEF HandleVerifyOTP, VerifyOTP
        <5>3. \/ call'[c].pc = "demographics" /\ call'[c].user = TokenUser(c)
              \/ call'[c].pc \in {"done", "failed"}
          <6>1. \A u : StepWith(c, "demographics", u) => call'[c].pc = "demographics" /\ call'[c].user = u
            BY BaseOf, StepWithFacts
          <6>2. Finish(c, FALSE) => call'[c].pc \in {"done", "failed"} BY BaseOf, FinishFacts
          <6> QED BY <5>2, <6>1, <6>2
        <5> QED BY <5>1, <5>3
      <4> QED BY <2>1, <4>1, <4>2, <4>3
    <3> QED BY <2>0, <3>1, <3>2, WordStays
  <2>2. CASE UpdateDemographics(c)
    <3>1. /\ call[c].pc = "demographics" /\ db' = [db EXCEPT !.users[call[c].user].name = Req(c).fin]
          /\ call'[c].pc = "raiseLevel" /\ call'[c].user = call[c].user
      BY <2>2, BaseOf, StepToFacts DEF UpdateDemographics, At
    <3>2. call[c].user \in DOMAIN db.users BY <3>1 DEF WordInv
    <3>3. Req(c).op = "verifyOTP" BY <3>1, BaseOf DEF OpAt
    <3>4. Req(c).fin # None BY <3>3, FormAssumption, BaseOf DEF SessionRows, Req, None
    <3>5. /\ DOMAIN db'.users = DOMAIN db.users /\ db'.users[call[c].user].name = Req(c).fin
          /\ \A v \in DOMAIN db.users : \A f \in UserColumns : v # call[c].user \/ f # "name" => db'.users[v][f] = db.users[v][f]
      BY ONLY RecordBase, <3>1, <3>2, OneColumn, Zenon DEF UserColumns
    <3>6. \A v \in DOMAIN db.users : /\ db'.users[v].kyc = db.users[v].kyc /\ db'.users[v].frozen = db.users[v].frozen
                                     /\ (v # call[c].user => db'.users[v].name = db.users[v].name)
      BY <3>5 DEF UserColumns
    <3> QED BY <3>1, <3>2, <3>3, <3>4, <3>5, <3>6, WordFrame
  <2>3. CASE RaiseLevel(c)
    <3>1. /\ call[c].pc = "raiseLevel" /\ db' = [db EXCEPT !.users[call[c].user].kyc = KYCVerified]
          /\ call'[c].pc \in {"done", "failed"}
      BY <2>3, BaseOf, FinishFacts DEF RaiseLevel, At, UpdateKYCLevel
    <3>2. call[c].user \in DOMAIN db.users /\ db.users[call[c].user].name # None BY <3>1 DEF WordInv
    <3>3. /\ DOMAIN db'.users = DOMAIN db.users
          /\ \A v \in DOMAIN db.users : \A f \in UserColumns : v # call[c].user \/ f # "kyc" => db'.users[v][f] = db.users[v][f]
      BY ONLY RecordBase, <3>1, <3>2, OneColumn, Zenon DEF UserColumns
    <3>4. \A v \in DOMAIN db.users : /\ db'.users[v].name = db.users[v].name /\ db'.users[v].frozen = db.users[v].frozen
                                     /\ (v # call[c].user => db'.users[v].kyc = db.users[v].kyc)
      BY <3>3 DEF UserColumns
    <3>5. \A v \in DOMAIN db.users : db'.users[v].kyc = db.users[v].kyc \/ db'.users[v].name # None
      BY <3>2, <3>4
    <3> QED BY <2>0, <3>1, <3>2, <3>3, <3>4, <3>5, WordFrame
  <2> QED BY <1>2, <2>1, <2>2, <2>3 DEF Identifies
<1>3. CASE HandleFreeze(c) \/ HandleUnfreeze(c) \/ HandleKYCOverride(c)
  <2>0. call'[c].pc \in {"done", "failed"} /\ Req(c).op \in {"freeze", "unfreeze", "overrideKYC"}
    BY <1>3, BaseOf, FinishFacts DEF HandleFreeze, HandleUnfreeze, HandleKYCOverride, OnCustomer, Admitted, Begins
  <2>1. CASE ~Known(c)
    <3>1. db' = db /\ call'[c].pc = "failed"
      BY <1>3, <2>1, BaseOf, StepToFacts DEF HandleFreeze, HandleUnfreeze, HandleKYCOverride, OnCustomer, Finish
    <3>2. UsersBut({"pass", "telegram", "waterfall"}) BY <3>1, ButSame, ButMore
    <3> QED BY <3>1, <3>2, WordStays
  <2>2. CASE Known(c)
    <3>1. Req(c).id \in DOMAIN db.users /\ call'[c].pc = "done"
      BY <1>3, <2>2, BaseOf, StepToFacts DEF HandleFreeze, HandleUnfreeze, HandleKYCOverride, OnCustomer, Finish, Known
    <3>2. CASE HandleFreeze(c) \/ HandleUnfreeze(c)
      <4>1. PICK x \in BOOLEAN : db' = [db EXCEPT !.users[Req(c).id].frozen = x] /\ Req(c).op = (IF x THEN "freeze" ELSE "unfreeze")
        BY <3>2, <2>2 DEF HandleFreeze, HandleUnfreeze, OnCustomer, Admitted, Begins, FreezeUser, UnfreezeUser
      <4>2. /\ DOMAIN db'.users = DOMAIN db.users /\ db'.users[Req(c).id].frozen = x
            /\ \A v \in DOMAIN db.users : \A f \in UserColumns : v # Req(c).id \/ f # "frozen" => db'.users[v][f] = db.users[v][f]
        BY ONLY RecordBase, <3>1, <4>1, OneColumn, Zenon DEF UserColumns
      <4>3. \A v \in DOMAIN db.users : /\ db'.users[v].name = db.users[v].name /\ db'.users[v].kyc = db.users[v].kyc
                                       /\ (v # Req(c).id => db'.users[v].frozen = db.users[v].frozen)
        BY <4>2 DEF UserColumns
      <4> QED BY <3>1, <4>1, <4>2, <4>3, WordFrame
    <3>3. CASE HandleKYCOverride(c)
      <4>1. db' = [db EXCEPT !.users[Req(c).id].kyc = Req(c).level] /\ Req(c).op = "overrideKYC"
        BY <3>3, <2>2 DEF HandleKYCOverride, OnCustomer, Admitted, Begins, UpdateKYCLevel
      <4>2. /\ DOMAIN db'.users = DOMAIN db.users
            /\ \A v \in DOMAIN db.users : \A f \in UserColumns : v # Req(c).id \/ f # "kyc" => db'.users[v][f] = db.users[v][f]
        BY ONLY RecordBase, <3>1, <4>1, OneColumn, Zenon DEF UserColumns
      <4>3. \A v \in DOMAIN db.users : /\ db'.users[v].name = db.users[v].name /\ db'.users[v].frozen = db.users[v].frozen
                                       /\ (v # Req(c).id => db'.users[v].kyc = db.users[v].kyc)
        BY <4>2 DEF UserColumns
      <4> QED BY <3>1, <4>1, <4>2, <4>3, WordFrame
    <3> QED BY <1>3, <3>2, <3>3
  <2> QED BY <2>1, <2>2
<1>4. CASE ~Registers(c) /\ ~Identifies(c) /\ ~(HandleFreeze(c) \/ HandleUnfreeze(c) \/ HandleKYCOverride(c))
  <2>1. /\ call'[c].pc = "failed" \/ Req(c).op \notin {"verifyOTP", "freeze"}
        /\ UsersBut({"pass", "telegram", "waterfall"})
    <3>1. CASE Customers(c)
      <4>1. db'.users = db.users
        BY <1>4, <3>1, BaseOf DEF Customers, HandleAdminCard, HandleCreateFlag, HandleResolveFlag, ResolveFlag, UpdateCard,
           customerVars, Tables
      <4>2. Req(c).op # "freeze"
        <5>1. CASE ResolveFlag(c)
          <6>1. Req(c).op \in OpAt["resolveFlag"] BY <5>1, BaseOf DEF ResolveFlag, At, OpAt
          <6> QED BY <6>1, FreeSteps
        <5> QED BY <1>4, <3>1, <5>1 DEF Customers, HandleAdminCard, HandleCreateFlag, HandleResolveFlag, Admitted, Begins
      <4>3. UsersBut({"pass", "telegram", "waterfall"}) BY <4>1, BaseOf DEF UsersBut, SessionRows
      <4> QED BY <3>1, <4>2, <4>3, CustomersEffect DEF Works, CustomersOps
    <3>2. CASE ~Customers(c)
      <4>1. db' = db => UsersBut({}) BY ButSame
      <4> QED BY <1>4, <3>2, <4>1, StepEffect, ButMore DEF Works, DirectoryOps, StaffOps, ReconcilesOps, Fails
    <3> QED BY <3>1, <3>2
  <2>2. call'[c].pc \notin {"demographics", "raiseLevel"}
    BY <2>1, OpsKept, Solo DEF OpsInv, OpAt
  <2> QED BY <2>1, <2>2, WordStays
<1> QED BY <1>1, <1>2, <1>3, <1>4
-----------------------------------------------------------------------------
(* Flags. *)

LEMMA FlagsFrame ==
  ASSUME RecordBase, FlagsInv, NEW c \in Calls, OwnStep(c), call[c].pc \notin {"done", "failed"},
         DOMAIN db.users \subseteq DOMAIN db'.users, office'.flags = office.flags,
         call'[c].pc = "resolveFlag" => Req(c).id \in DOMAIN office.flags,
         Req(c).op = "resolveFlag" => call'[c].pc # "done"
  PROVE  FlagsInv'
<1> USE Solo
<1>1. \A f \in DOMAIN office'.flags :
        /\ DOMAIN office'.flags[f] = {"user", "by", "resolver"} /\ office'.flags[f].user \in DOMAIN db'.users
        /\ \A d \in Calls' : office'.flags[f].resolver = d =>
             Req(d)'.op = "resolveFlag" /\ Req(d)'.id = f /\ call'[d].pc = "done"
  BY DEF FlagsInv
<1>2. \A d \in Calls' :
        /\ d \in DOMAIN office'.flags => call'[d].pc = "done"
        /\ call'[d].pc = "resolveFlag" => Req(d)'.id \in DOMAIN office'.flags
        /\ Req(d)'.op = "resolveFlag" /\ call'[d].pc = "done" =>
             Req(d)'.id \in DOMAIN office'.flags /\ office'.flags[Req(d)'.id].resolver = d
  BY DEF FlagsInv
<1> QED BY <1>1, <1>2 DEF FlagsInv

LEMMA FlagsKept == ASSUME RecordBase, FlagsInv, NEW c \in Calls, StepOf(c) PROVE FlagsInv'
<1> USE StepFacts, UsersStay
<1>1. CASE HandleCreateFlag(c)
  <2>1. /\ Req(c).op = "createFlag" /\ Finish(c, Known(c)) /\ db' = db
        /\ office' = IF Known(c) THEN CreateFlagRow(c) ELSE office
    BY <1>1 DEF HandleCreateFlag, Admitted, Begins, customerVars
  <2>2. CASE ~Known(c)
    <3>1. call'[c].pc \in {"done", "failed"} BY <2>1, BaseOf, FinishFacts
    <3> QED BY <2>1, <2>2, <3>1, FlagsFrame
  <2>3. CASE Known(c)
    <3>1. office'.flags = Insert(office.flags, c, NewFlag(c)) BY <2>1, <2>3, BaseOf DEF CreateFlagRow, OfficeTables
    <3>2. c \notin DOMAIN office.flags BY DEF FlagsInv
    <3>3. /\ DOMAIN office'.flags = DOMAIN office.flags \cup {c} /\ office'.flags[c] = NewFlag(c)
          /\ \A f \in DOMAIN office.flags : office'.flags[f] = office.flags[f]
      BY <3>1, <3>2 DEF Insert
    <3>4. /\ DOMAIN NewFlag(c) = {"user", "by", "resolver"} /\ NewFlag(c).user \in DOMAIN db.users
          /\ NewFlag(c).resolver = None
      BY <2>3 DEF NewFlag, Known
    <3>5. call'[c].pc = "done" BY <2>1, <2>3, BaseOf, StepToFacts DEF Finish
    <3>6. None \notin Calls BY FormAssumption, BaseOf DEF SessionRows, None
    <3>7. \A f \in DOMAIN office'.flags :
            /\ DOMAIN office'.flags[f] = {"user", "by", "resolver"} /\ office'.flags[f].user \in DOMAIN db'.users
            /\ \A d \in Calls' : office'.flags[f].resolver = d =>
                 Req(d)'.op = "resolveFlag" /\ Req(d)'.id = f /\ call'[d].pc = "done"
      <4> SUFFICES ASSUME NEW f \in DOMAIN office'.flags
                   PROVE  /\ DOMAIN office'.flags[f] = {"user", "by", "resolver"} /\ office'.flags[f].user \in DOMAIN db'.users
                          /\ \A d \in Calls' : office'.flags[f].resolver = d =>
                               Req(d)'.op = "resolveFlag" /\ Req(d)'.id = f /\ call'[d].pc = "done"
        OBVIOUS
      <4>1. CASE f = c BY <2>1, <3>3, <3>4, <3>6, <4>1, Solo
      <4>2. CASE f # c BY <2>1, <3>3, <3>5, <4>2, Solo DEF FlagsInv
      <4> QED BY <4>1, <4>2
    <3>8. \A d \in Calls' :
            /\ d \in DOMAIN office'.flags => call'[d].pc = "done"
            /\ call'[d].pc = "resolveFlag" => Req(d)'.id \in DOMAIN office'.flags
            /\ Req(d)'.op = "resolveFlag" /\ call'[d].pc = "done" =>
                 Req(d)'.id \in DOMAIN office'.flags /\ office'.flags[Req(d)'.id].resolver = d
      BY <2>1, <3>3, <3>5, Solo DEF FlagsInv
    <3> QED BY <3>7, <3>8 DEF FlagsInv
  <2> QED BY <2>2, <2>3
<1>2. CASE HandleResolveFlag(c)
  <2>1. \/ StepTo(c, "resolveFlag") /\ Req(c).id \in DOMAIN office.flags
        \/ StepTo(c, "failed")
    BY <1>2 DEF HandleResolveFlag, GetFlag, Finish
  <2>2. call'[c].pc \in {"resolveFlag", "failed"} /\ (call'[c].pc = "resolveFlag" => Req(c).id \in DOMAIN office.flags)
    BY <2>1, BaseOf, StepToFacts
  <2> QED BY <1>2, <2>2, FlagsFrame DEF HandleResolveFlag
<1>3. CASE ResolveFlag(c)
  <2> DEFINE f == Req(c).id
  <2>1. call[c].pc = "resolveFlag" /\ f \in DOMAIN office.flags BY <1>3 DEF ResolveFlag, At, FlagsInv
  <2>2. Req(c).op = "resolveFlag"
    <3>1. Req(c).op \in OpAt["resolveFlag"] BY <2>1, BaseOf, FreeSteps DEF OpAt
    <3> QED BY <3>1, FreeSteps
  <2>3. CASE office.flags[f].resolver # None
    <3>1. office' = office /\ StepTo(c, "failed") BY <1>3, <2>3 DEF ResolveFlag, ResolveFlagRow, Finish
    <3>2. call'[c].pc = "failed" BY <3>1, BaseOf, StepToFacts
    <3> QED BY <3>1, <3>2, FlagsFrame
  <2>4. CASE office.flags[f].resolver = None
    <3>1. /\ office' = [office EXCEPT !.flags[f].resolver = c] /\ StepTo(c, "done") /\ db' = db
      BY <1>3, <2>4 DEF ResolveFlag, ResolveFlagRow, Finish, customerVars
    <3>2. call'[c].pc = "done" BY <3>1, BaseOf, StepToFacts
    <3>3. /\ DOMAIN office'.flags = DOMAIN office.flags
          /\ \A g \in DOMAIN office.flags : g # f => office'.flags[g] = office.flags[g]
      BY <3>1, BaseOf DEF OfficeTables
    <3>4. /\ DOMAIN office'.flags[f] = {"user", "by", "resolver"}
          /\ office'.flags[f].resolver = c /\ office'.flags[f].user = office.flags[f].user
      BY <3>1, <2>1, BaseOf DEF OfficeTables, FlagsInv
    <3>5. \A d \in Calls : Req(d).op = "resolveFlag" /\ call[d].pc = "done" => Req(d).id # f
      <4>1. None \notin Calls BY FormAssumption, BaseOf DEF SessionRows, None
      <4> QED BY <2>4, <4>1 DEF FlagsInv
    <3>6. \A g \in DOMAIN office'.flags :
            /\ DOMAIN office'.flags[g] = {"user", "by", "resolver"} /\ office'.flags[g].user \in DOMAIN db'.users
            /\ \A d \in Calls' : office'.flags[g].resolver = d =>
                 Req(d)'.op = "resolveFlag" /\ Req(d)'.id = g /\ call'[d].pc = "done"
      <4> SUFFICES ASSUME NEW g \in DOMAIN office'.flags
                   PROVE  /\ DOMAIN office'.flags[g] = {"user", "by", "resolver"} /\ office'.flags[g].user \in DOMAIN db'.users
                          /\ \A d \in Calls' : office'.flags[g].resolver = d =>
                               Req(d)'.op = "resolveFlag" /\ Req(d)'.id = g /\ call'[d].pc = "done"
        OBVIOUS
      <4>1. CASE g = f BY <2>1, <2>2, <3>1, <3>2, <3>4, <4>1, Solo DEF FlagsInv
      <4>2. CASE g # f BY <3>1, <3>2, <3>3, <4>2, Solo DEF FlagsInv
      <4> QED BY <4>1, <4>2
    <3>7. \A d \in Calls' :
            /\ d \in DOMAIN office'.flags => call'[d].pc = "done"
            /\ call'[d].pc = "resolveFlag" => Req(d)'.id \in DOMAIN office'.flags
            /\ Req(d)'.op = "resolveFlag" /\ call'[d].pc = "done" =>
                 Req(d)'.id \in DOMAIN office'.flags /\ office'.flags[Req(d)'.id].resolver = d
      BY <2>1, <3>2, <3>3, <3>4, <3>5, Solo DEF FlagsInv
    <3> QED BY <3>6, <3>7 DEF FlagsInv
  <2> QED BY <2>3, <2>4
<1>4. CASE ~HandleCreateFlag(c) /\ ~HandleResolveFlag(c) /\ ~ResolveFlag(c)
  <2>1. /\ office'.flags = office.flags
        /\ Req(c).op # "resolveFlag" \/ call'[c].pc = "failed"
    <3>1. CASE Customers(c)
      BY <1>4, <3>1 DEF Customers, HandleFreeze, HandleUnfreeze, HandleKYCOverride, HandleAdminCard, OnCustomer, Admitted,
         Begins
    <3>2. CASE ~Customers(c)
      BY <3>2, StepEffect DEF Works, DirectoryOps, StaffOps, ReconcilesOps, Fails, OfficeBut, OfficeTables
    <3> QED BY <3>1, <3>2
  <2>2. call'[c].pc # "resolveFlag"
    <3>1. call'[c].pc = "resolveFlag" => Req(c).op \in OpAt["resolveFlag"]
      BY OpsKept, Solo DEF OpsInv, OpAt
    <3> QED BY <2>1, <3>1, FreeSteps
  <2> QED BY <2>1, <2>2, FlagsFrame
<1> QED BY <1>1, <1>2, <1>3, <1>4
-----------------------------------------------------------------------------
(* Staff. *)

LEMMA OneWriteStays ==
  ASSUME RecordBase, NEW c \in Calls, OwnStep(c), call[c].pc \notin {"done", "failed"}, NEW x, OneWrite(x),
         office'.staff[x].name = office.staff[x].name, office'.staff[x].role = office.staff[x].role,
         office'.staff[x].pass = office.staff[x].pass
  PROVE  OneWrite(x)'
<1>1. CASE x \in DOMAIN OfficeOpening.staff /\ Is(x, OfficeOpening.staff[x]) BY <1>1 DEF OneWrite, Is
<1>2. CASE x \in Calls /\ Is(x, [name |-> Req(x).name, role |-> Req(x).role, pass |-> Req(x).password])
  BY <1>2, Solo DEF OneWrite, Is
<1>3. CASE \E d \in Calls : call[d].user = x /\ call[d].pc = "done" /\ Is(x, call[d].row)
  <2>1. PICK d \in Calls : call[d].user = x /\ call[d].pc = "done" /\ Is(x, call[d].row) BY <1>3
  <2>2. d \in Calls' /\ call'[d] = call[d] BY <2>1, Solo
  <2> QED BY <2>1, <2>2 DEF OneWrite, Is
<1> QED BY <1>1, <1>2, <1>3 DEF OneWrite

\* A step that starts no login leaves no other login to cut.
LEMMA LoginsCutStays ==
  ASSUME StaffInv, NEW c \in Calls, OwnStep(c), call'[c].pc # "issueToken",
         \A d \in Calls : Deactivator(d)' => Deactivator(d) /\ call'[d].cut = call[d].cut
  PROVE  LoginsCut'
BY Solo DEF StaffInv, LoginsCut, Deactivator, LoggingIn

LEMMA StaffFrame ==
  ASSUME RecordBase, StaffInv, NEW c \in Calls, OwnStep(c), call[c].pc \notin {"done", "failed"},
         office'.staff = office.staff,
         \A t \in DOMAIN office'.tokens :
           \/ t \in DOMAIN office.tokens /\ office'.tokens[t] = office.tokens[t]
           \/ t = c /\ c \in LoggingIn /\ office'.tokens[t].staff = call[c].user,
         call'[c].pc = "issueToken" => office.staff[call'[c].user].active,
         Deactivator(c)' => Deactivator(c) /\ call'[c].cut = call[c].cut
  PROVE  StaffInv'
<1> USE Solo
<1>1. \A d \in Calls : Deactivator(d)' => Deactivator(d) /\ call'[d].cut = call[d].cut BY DEF Deactivator
<1>2. DeactivationSticks'
  <2> SUFFICES ASSUME NEW d \in Calls, Deactivator(d)'
               PROVE  /\ ~office'.staff[Req(d).id].active
                      /\ \A t \in DOMAIN office'.tokens : office'.tokens[t].staff = Req(d).id => t \in call'[d].cut
    BY DEF DeactivationSticks, Deactivator
  <2>1. Deactivator(d) /\ call'[d].cut = call[d].cut BY <1>1
  <2>2. /\ ~office.staff[Req(d).id].active
        /\ \A t \in DOMAIN office.tokens : office.tokens[t].staff = Req(d).id => t \in call[d].cut
        /\ c \in LoggingIn /\ call[c].user = Req(d).id => c \in call[d].cut
    BY <2>1 DEF StaffInv, DeactivationSticks, Deactivator, LoginsCut
  <2> QED BY <2>1, <2>2
<1>5. LoginsCut' BY <1>1 DEF StaffInv, LoginsCut, DeactivationSticks, Deactivator, LoggingIn
<1>3. RowsAreOfOneWrite'
  <2>1. \A x \in DOMAIN office'.staff : OneWrite(x)' BY OneWriteStays DEF StaffInv, RowsAreOfOneWrite
  <2> QED BY <2>1 DEF RowsAreOfOneWrite
<1>4. \A d \in Calls' : /\ d \in DOMAIN office'.staff => call'[d].pc = "done"
                        /\ Req(d)'.op = "deactivateStaff" /\ call'[d].took => Req(d)'.id \in DOMAIN office'.staff
  BY <1>1 DEF StaffInv, Deactivator
<1> QED BY <1>2, <1>3, <1>4, <1>5 DEF StaffInv

LEMMA StaffKept == ASSUME RecordBase, StaffInv, NEW c \in Calls, StepOf(c) PROVE StaffInv'
<1> USE StepFacts
<1>1. CASE HandleAdminLogin(c)
  <2>1. Req(c).op = "adminLogin" /\ office' = office BY <1>1 DEF HandleAdminLogin, Begins
  <2>2. ~Deactivator(c)' BY <2>1, Solo DEF Deactivator
  <2>3. call'[c].pc = "issueToken" => office.staff[call'[c].user].active
    <3>1. ASSUME NEW x \in AdminLogin(Req(c).email, Req(c).password),
                 call' = [call EXCEPT ![c].pc = "issueToken", ![c].user = x, ![c].row = office.staff[x]]
          PROVE  office.staff[call'[c].user].active
      <4> c \in DOMAIN call /\ {"pc", "user", "row"} \subseteq DOMAIN call[c] BY BaseOf DEF SessionRows, Calls, Fields
      <4>1. call'[c].user = x BY <3>1
      <4> QED BY <3>1, <4>1 DEF AdminLogin
    <3>2. Finish(c, FALSE) => call'[c].pc = "failed" BY BaseOf, StepToFacts DEF Finish
    <3> QED BY <1>1, <3>1, <3>2 DEF HandleAdminLogin
  <2> QED BY <2>1, <2>2, <2>3, StaffFrame
<1>0. CASE IssueToken(c)
  <2>0. call[c].pc = "issueToken" /\ Req(c).op = "adminLogin" BY <1>0, BaseOf DEF IssueToken, At, OpAt
  <2>1. office'.staff = office.staff /\ office'.tokens = GenerateAdminJWT(c) /\ Finish(c, TRUE)
    BY <1>0, BaseOf DEF IssueToken, OfficeTables
  <2>2. ~Deactivator(c)' /\ call'[c].pc = "done" BY <2>0, <2>1, BaseOf, StepToFacts, Solo DEF Deactivator, Finish
  <2>3. c \in LoggingIn BY <2>0 DEF LoggingIn
  <2>4. \A t \in DOMAIN office'.tokens :
          \/ t \in DOMAIN office.tokens /\ office'.tokens[t] = office.tokens[t]
          \/ t = c /\ c \in LoggingIn /\ office'.tokens[t].staff = call[c].user
    BY <2>1, <2>3 DEF GenerateAdminJWT, Insert
  <2> QED BY <2>1, <2>2, <2>4, StaffFrame
<1>2. CASE HandleCreateStaff(c)
  <2>1. /\ Req(c).op = "createStaff" /\ office' = CreateStaffRow(c)
        /\ StepTo(c, IF GetByEmail(Req(c).email) = {} THEN "done" ELSE "failed")
    BY <1>2 DEF HandleCreateStaff, Admitted, Begins, Finish
  <2>2. CASE office' = office
    <3>1. ~Deactivator(c)' /\ call'[c].pc # "issueToken" BY <2>1, BaseOf, StepToFacts, Solo DEF Deactivator
    <3> QED BY <2>2, <3>1, StaffFrame
  <2>3. CASE office' # office
    <3>1. /\ office' = [office EXCEPT !.staff = Insert(@, c, NewStaff(Req(c)))] /\ StepTo(c, "done")
      BY <2>1, <2>3 DEF CreateStaffRow
    <3>2. office'.staff = Insert(office.staff, c, NewStaff(Req(c))) /\ office'.tokens = office.tokens
      BY <3>1, BaseOf DEF OfficeTables
    <3>3. c \notin DOMAIN office.staff /\ call'[c].pc = "done" BY <3>1, BaseOf, StepToFacts DEF StaffInv
    <3>4. /\ DOMAIN office'.staff = DOMAIN office.staff \cup {c} /\ office'.staff[c] = NewStaff(Req(c))
          /\ \A x \in DOMAIN office.staff : office'.staff[x] = office.staff[x]
      BY <3>2, <3>3 DEF Insert
    <3>5. \A d \in Calls : Deactivator(d)' => Deactivator(d) /\ call'[d].cut = call[d].cut /\ Req(d).id \in DOMAIN office.staff
      BY <2>1, Solo DEF Deactivator, StaffInv
    <3>6. DeactivationSticks'
      BY <3>2, <3>4, <3>5, Solo DEF StaffInv, DeactivationSticks, Deactivator
    <3>7. OneWrite(c)'
      <4>1. NewStaff(Req(c)).name = Req(c).name /\ NewStaff(Req(c)).role = Req(c).role /\ NewStaff(Req(c)).pass = Req(c).password
        BY DEF NewStaff
      <4>2. Is(c, [name |-> Req(c).name, role |-> Req(c).role, pass |-> Req(c).password])' BY <3>4, <4>1, Solo DEF Is
      <4> QED BY <4>2, Solo DEF OneWrite
    <3>8. \A x \in DOMAIN office'.staff : OneWrite(x)'
      <4>1. \A x \in DOMAIN office.staff : OneWrite(x) BY DEF StaffInv, RowsAreOfOneWrite
      <4> QED BY <3>4, <3>7, <4>1, OneWriteStays
    <3>9. RowsAreOfOneWrite' BY <3>8 DEF RowsAreOfOneWrite
    <3>10. \A x \in DOMAIN office'.staff : DOMAIN office'.staff[x] = StaffColumns
      BY <3>4 DEF StaffInv, NewStaff, StaffColumns
    <3>11. \A d \in Calls' : /\ d \in DOMAIN office'.staff => call'[d].pc = "done"
                             /\ Req(d)'.op = "deactivateStaff" /\ call'[d].took => Req(d)'.id \in DOMAIN office'.staff
      BY <3>3, <3>4, <3>5, Solo DEF StaffInv, Deactivator
    <3>12. LoginsCut' BY <3>3, <3>5, LoginsCutStays
    <3> QED BY <3>6, <3>9, <3>10, <3>11, <3>12 DEF StaffInv
  <2> QED BY <2>2, <2>3
<1>3. CASE WriteStaff(c)
  <2> DEFINE x == call[c].user
             row == call[c].row
  <2>1. /\ Req(c).op \in {"updateStaff", "staffPassword"} /\ office' = UpdateStaffRow(x, row) /\ Finish(c, TRUE)
    <3>1. Req(c).op \in OpAt["writeStaff"] BY <1>3, BaseOf DEF WriteStaff, At, OpAt
    <3> QED BY <1>3, <3>1, FreeSteps DEF WriteStaff
  <2>2. /\ DOMAIN office'.staff = DOMAIN office.staff /\ office'.tokens = office.tokens
        /\ \A y \in DOMAIN office.staff : y # x => office'.staff[y] = office.staff[y]
    BY <2>1, BaseOf DEF UpdateStaffRow, OfficeTables
  <2>3. x \in DOMAIN office.staff =>
          office'.staff[x] = [office.staff[x] EXCEPT !.name = row.name, !.role = row.role, !.pass = row.pass]
    BY <2>1, BaseOf DEF UpdateStaffRow, OfficeTables
  <2>4. x \in DOMAIN office.staff =>
          /\ DOMAIN office'.staff[x] = StaffColumns /\ office'.staff[x].active = office.staff[x].active
          /\ office'.staff[x].name = row.name /\ office'.staff[x].role = row.role /\ office'.staff[x].pass = row.pass
    BY <2>3 DEF StaffInv, StaffColumns
  <2>5. call'[c].pc = "done" /\ call'[c].user = x /\ call'[c].row = row
    BY <2>1, BaseOf, StepToFacts DEF Finish
  <2>6. \A d \in Calls : Deactivator(d)' => Deactivator(d) /\ call'[d].cut = call[d].cut /\ Req(d).id \in DOMAIN office.staff
    BY <2>1, Solo DEF Deactivator, StaffInv
  <2>7. DeactivationSticks'
    <3>1. \A y \in DOMAIN office.staff : office'.staff[y].active = office.staff[y].active BY <2>2, <2>4
    <3> QED BY <2>2, <2>6, <3>1, Solo DEF StaffInv, DeactivationSticks, Deactivator
  <2>8. ASSUME NEW y \in DOMAIN office'.staff PROVE OneWrite(y)'
    <3>1. CASE y = x BY <2>2, <2>4, <2>5, <3>1, Solo DEF OneWrite, Is
    <3>2. CASE y # x
      <4>1. OneWrite(y) BY <2>2 DEF StaffInv, RowsAreOfOneWrite
      <4> QED BY <2>2, <3>2, <4>1, OneWriteStays
    <3> QED BY <3>1, <3>2
  <2>9. RowsAreOfOneWrite' BY <2>8 DEF RowsAreOfOneWrite
  <2>10. \A y \in DOMAIN office'.staff : DOMAIN office'.staff[y] = StaffColumns BY <2>2, <2>4 DEF StaffInv
  <2>11. \A d \in Calls' : /\ d \in DOMAIN office'.staff => call'[d].pc = "done"
                           /\ Req(d)'.op = "deactivateStaff" /\ call'[d].took => Req(d)'.id \in DOMAIN office'.staff
    BY <2>2, <2>5, <2>6, Solo DEF StaffInv, Deactivator
  <2>12. LoginsCut' BY <2>5, <2>6, LoginsCutStays
  <2> QED BY <2>7, <2>9, <2>10, <2>11, <2>12 DEF StaffInv
<1>4. CASE HandleDeactivateStaff(c)
  <2> DEFINE x == Req(c).id
  <2>0. Req(c).op = "deactivateStaff" BY <1>4 DEF HandleDeactivateStaff, Admitted, Begins
  <2>1. CASE x \notin DOMAIN office.staff
    <3>1. office' = office /\ StepTo(c, "failed") BY <1>4, <2>1 DEF HandleDeactivateStaff, Finish
    <3>2. call'[c].took = call[c].took /\ NothingTaken(c) BY <3>1, BaseOf, StepToFacts
    <3>3. Deactivator(c)' => Deactivator(c) /\ call'[c].cut = call[c].cut BY <3>2, Solo DEF Deactivator, NothingTaken
    <3>4. call'[c].pc = "failed" BY <3>1, BaseOf, StepToFacts
    <3> QED BY <3>1, <3>3, <3>4, StaffFrame
  <2>2. CASE x \in DOMAIN office.staff
    <3>1. /\ office' = Deactivate(x)
          /\ call' = [call EXCEPT ![c].pc = "done", ![c].took = TRUE, ![c].cut = DOMAIN office.tokens \cup LoggingIn]
      BY <1>4, <2>2 DEF HandleDeactivateStaff
    <3>2. /\ DOMAIN office'.staff = DOMAIN office.staff /\ office'.tokens = office.tokens
          /\ \A y \in DOMAIN office.staff : y # x => office'.staff[y] = office.staff[y]
      BY <3>1, BaseOf DEF Deactivate, OfficeTables
    <3>3. office'.staff[x] = [office.staff[x] EXCEPT !.active = FALSE]
      BY <3>1, <2>2, BaseOf DEF Deactivate, OfficeTables
    <3>4. /\ DOMAIN office'.staff[x] = StaffColumns /\ office'.staff[x].active = FALSE
          /\ office'.staff[x].name = office.staff[x].name /\ office'.staff[x].role = office.staff[x].role
          /\ office'.staff[x].pass = office.staff[x].pass
      BY <2>2, <3>3 DEF StaffInv, StaffColumns
    <3>5. call'[c].pc = "done" /\ call'[c].cut = DOMAIN office.tokens \cup LoggingIn
      <4> c \in DOMAIN call /\ {"pc", "took", "cut"} \subseteq DOMAIN call[c] BY BaseOf DEF SessionRows, Calls, Fields
      <4> QED BY <3>1
    <3>6. \A d \in Calls : Deactivator(d)' /\ d # c =>
            Deactivator(d) /\ call'[d].cut = call[d].cut /\ Req(d).id \in DOMAIN office.staff
      BY Solo DEF Deactivator, StaffInv
    <3>7. DeactivationSticks'
      <4> SUFFICES ASSUME NEW d \in Calls, Deactivator(d)'
                   PROVE  /\ ~office'.staff[Req(d).id].active
                          /\ \A t \in DOMAIN office'.tokens : office'.tokens[t].staff = Req(d).id => t \in call'[d].cut
        BY Solo DEF DeactivationSticks, Deactivator
      <4>1. CASE d = c BY <3>2, <3>4, <3>5, <4>1
      <4>2. CASE d # c
        <5>1. Deactivator(d) /\ call'[d].cut = call[d].cut /\ Req(d).id \in DOMAIN office.staff BY <3>6, <4>2
        <5>2. /\ ~office.staff[Req(d).id].active
              /\ \A t \in DOMAIN office.tokens : office.tokens[t].staff = Req(d).id => t \in call[d].cut
          BY <5>1 DEF StaffInv, DeactivationSticks, Deactivator
        <5> QED BY <3>2, <3>4, <5>1, <5>2
      <4> QED BY <4>1, <4>2
    <3>8. \A y \in DOMAIN office'.staff : OneWrite(y)'
      <4>1. \A y \in DOMAIN office.staff : OneWrite(y) BY DEF StaffInv, RowsAreOfOneWrite
      <4>2. \A y \in DOMAIN office.staff : /\ office'.staff[y].name = office.staff[y].name
                                           /\ office'.staff[y].role = office.staff[y].role
                                           /\ office'.staff[y].pass = office.staff[y].pass
        BY <3>2, <3>4
      <4> QED BY <3>2, <4>1, <4>2, OneWriteStays
    <3>9. RowsAreOfOneWrite' BY <3>8 DEF RowsAreOfOneWrite
    <3>10. \A y \in DOMAIN office'.staff : DOMAIN office'.staff[y] = StaffColumns BY <3>2, <3>4 DEF StaffInv
    <3>11. \A d \in Calls' : /\ d \in DOMAIN office'.staff => call'[d].pc = "done"
                             /\ Req(d)'.op = "deactivateStaff" /\ call'[d].took => Req(d)'.id \in DOMAIN office'.staff
      BY <2>2, <3>2, <3>5, <3>6, Solo DEF StaffInv, Deactivator
    <3>12. LoginsCut'
      <4> SUFFICES ASSUME NEW d \in Calls, NEW e \in Calls, Deactivator(d)', e \in LoggingIn', call'[e].user = Req(d).id
                   PROVE  e \in call'[d].cut
        BY Solo DEF LoginsCut
      <4>1. e # c /\ e \in LoggingIn /\ call[e].user = Req(d).id BY <3>5, Solo DEF LoggingIn
      <4>2. CASE d = c BY <3>5, <4>1, <4>2
      <4>3. CASE d # c BY <3>6, <4>1, <4>3 DEF StaffInv, LoginsCut
      <4> QED BY <4>2, <4>3
    <3> QED BY <3>7, <3>9, <3>10, <3>11, <3>12 DEF StaffInv
  <2> QED BY <2>1, <2>2
<1>5. CASE ~HandleAdminLogin(c) /\ ~IssueToken(c) /\ ~HandleCreateStaff(c) /\ ~WriteStaff(c) /\ ~HandleDeactivateStaff(c)
  <2>1. /\ office'.staff = office.staff /\ office'.tokens = office.tokens
        /\ Req(c).op \notin {"deactivateStaff", "adminLogin"} \/ Fails(c)
    <3>1. CASE Staff(c)
      <4>1. CASE Forbidden(c)
        <5>1. StepTo(c, "failed") /\ db' = db /\ wallets' = wallets /\ office' = office
          BY <4>1 DEF Forbidden, Finish, customerVars
        <5>2. call'[c].cut = call[c].cut BY <5>1, BaseOf DEF StepTo, SessionRows, Calls, Fields
        <5> QED BY <5>1, <5>2, BaseOf, StepToFacts DEF Fails
      <4>2. CASE HandleUpdateStaff(c) \/ HandleStaffPassword(c)
        BY <4>2 DEF HandleUpdateStaff, HandleStaffPassword, Admitted, Begins
      <4> QED BY <1>5, <3>1, <4>1, <4>2 DEF Staff
    <3>2. CASE ~Staff(c)
      BY <3>2, StepEffect DEF Works, DirectoryOps, CustomersOps, ReconcilesOps, OfficeBut, OfficeTables, Fails
    <3> QED BY <3>1, <3>2
  <2>2. Deactivator(c)' => Deactivator(c) /\ call'[c].cut = call[c].cut BY <2>1, Solo DEF Deactivator, Fails
  <2>3. call'[c].pc # "issueToken"
    <3>1. call'[c].pc = "issueToken" => Req(c).op \in OpAt["issueToken"] BY OpsKept, Solo DEF OpsInv, OpAt
    <3> QED BY <2>1, <3>1, FreeSteps DEF Fails
  <2> QED BY <2>1, <2>2, <2>3, StaffFrame
<1> QED BY <1>0, <1>1, <1>2, <1>3, <1>4, <1>5

\* A write once done stays done, and so does what it overwrote.
LEMMA WroteStays ==
  ASSUME NEW c \in Calls, OwnStep(c), call[c].pc \notin {"done", "failed"}
  PROVE  /\ \A x : \A d \in Calls : Wrote(d, x) => d # c /\ Wrote(d, x)'
         /\ \A d \in Calls : New(d)' = New(d)
         /\ \A x, f : \A d, e \in Calls : d # c /\ Overwrote(e, d, x, f) => Overwrote(e, d, x, f)'
<1>1. \A x : \A d \in Calls : Wrote(d, x) => d # c /\ Wrote(d, x)' BY Solo DEF Wrote
<1>2. \A d \in Calls : New(d)' = New(d) BY Solo DEF New
<1> QED BY <1>1, <1>2, Solo DEF Overwrote, Overlap

\* What a request that is about to write has in hand.
InHand(c) ==
  \A f \in Columns :
    IF New(c)[f] # None THEN call[c].row[f] = New(c)[f]
    ELSE \A d \in call[c].cut : New(d)[f] # None =>
           call[c].row[f] = New(d)[f] \/ \E e \in Calls \ {d} : Overwrote(e, d, call[c].user, f)
LEMMA WritersParts ==
  WritersInv <=> /\ \A c \in Calls : Writer(c) => call[c].user \in DOMAIN office.staff /\ DOMAIN call[c].row = StaffColumns
                                                  /\ \A d \in call[c].cut : d \in Calls /\ Wrote(d, call[c].user)
                 /\ \A c \in Calls : call[c].pc = "writeStaff" => InHand(c)
                 /\ \A c \in Calls : Wrote(c, call[c].user) => Reflects(office.staff[call[c].user], c, call[c].user)
BY DEF WritersInv, InHand, ChangesAreLostToOverlapsOnly

LEMMA AtWrite == ASSUME OpsInv PROVE \A c \in Calls : call[c].pc = "writeStaff" => Writer(c)
BY FreeSteps DEF OpsInv, OpAt, Writer

\* What another request has in hand, or has written, stays so.
LEMMA OtherInHand ==
  ASSUME OpsInv, WritersInv, NEW c \in Calls, OwnStep(c), call[c].pc \notin {"done", "failed"}, NEW d \in Calls, d # c, call[d].pc = "writeStaff"
  PROVE  InHand(d)'
<1>1. InHand(d) BY WritersParts
<1>2. \A e \in call[d].cut : e \in Calls /\ e # c BY AtWrite, WritersParts, WroteStays
<1>3. call'[d] = call[d] /\ Calls' = Calls BY Solo
<1> QED BY <1>1, <1>2, <1>3, WroteStays DEF InHand
LEMMA OtherReflects ==
  ASSUME NEW c \in Calls, OwnStep(c), call[c].pc \notin {"done", "failed"}, NEW d \in Calls, d # c, NEW x, NEW row, NEW new,
         Reflects(row, d, x), \A f \in Columns : new[f] = row[f]
  PROVE  Reflects(new, d, x)'
BY WroteStays, Solo DEF Reflects
\* The row that d wrote is as it was for all that d set.
LEMMA StillReflects ==
  ASSUME WritersInv, NEW c \in Calls, OwnStep(c), call[c].pc \notin {"done", "failed"}, NEW d \in Calls, d # c,
         Wrote(d, call[d].user),
         \A f \in Columns : office'.staff[call[d].user][f] = office.staff[call[d].user][f]
  PROVE  Reflects(office.staff[call[d].user], d, call[d].user)'
<1> PICK x, row, new : x = call[d].user /\ row = office.staff[x] /\ new = office'.staff[x] OBVIOUS
<1>1. Reflects(row, d, x) BY WritersParts
<1>2. Reflects(new, d, x)' BY <1>1, OtherReflects
<1>3. call'[d] = call[d] BY Solo
<1> QED BY <1>2, <1>3 DEF Reflects

\* Every staff row keeps name, role and password, and c comes to no write.
LEMMA WritersFrame ==
  ASSUME RecordBase, OpsInv', WritersInv, NEW c \in Calls, OwnStep(c), call[c].pc \notin {"done", "failed"}, ~Writer(c)',
         \A x \in DOMAIN office.staff : x \in DOMAIN office'.staff /\ \A f \in Columns : office'.staff[x][f] = office.staff[x][f]
  PROVE  WritersInv'
<1>0. \A d \in Calls : Writer(d)' => d # c /\ Writer(d) /\ call'[d] = call[d] BY Solo DEF Writer
<1>1. ASSUME NEW d \in Calls, Writer(d)'
      PROVE  /\ call'[d].user \in DOMAIN office'.staff /\ DOMAIN call'[d].row = StaffColumns
             /\ \A e \in call'[d].cut : e \in Calls' /\ Wrote(e, call[d].user)'
  BY <1>0, <1>1, WroteStays, WritersParts, Solo
<1>2. ASSUME NEW d \in Calls, call'[d].pc = "writeStaff" PROVE InHand(d)'
  <2>1. Writer(d)' BY <1>2, FreeSteps, Solo DEF OpsInv, OpAt, Writer
  <2> QED BY <1>0, <1>2, <2>1, OtherInHand DEF RecordBase
<1>3. ASSUME NEW d \in Calls, Wrote(d, call[d].user)' PROVE Reflects(office.staff[call[d].user], d, call[d].user)'
  <2>1. d # c /\ Writer(d) /\ call'[d] = call[d] BY <1>0, <1>3 DEF Wrote, Writer
  <2>2. Wrote(d, call[d].user) BY <1>3, <2>1, Solo DEF Wrote
  <2>3. Reflects(office.staff[call[d].user], d, call[d].user) /\ call[d].user \in DOMAIN office.staff
    BY <2>1, <2>2, WritersParts
  <2>4. \A f \in Columns : office'.staff[call[d].user][f] = office.staff[call[d].user][f] BY <2>3
  <2> QED BY <2>1, <2>2, <2>4, StillReflects
<1>4. Calls' = Calls BY Solo
<1>5. /\ \A d \in Calls' : Writer(d)' => call'[d].user \in DOMAIN office'.staff /\ DOMAIN call'[d].row = StaffColumns
                                         /\ \A e \in call'[d].cut : e \in Calls' /\ Wrote(e, call[d].user)'
      /\ \A d \in Calls' : call'[d].pc = "writeStaff" => InHand(d)'
      /\ \A d \in Calls' : Wrote(d, call[d].user)' => Reflects(office.staff[call[d].user], d, call[d].user)'
  BY <1>1, <1>2, <1>3, <1>4
<1> QED BY <1>5 DEF WritersInv, InHand, ChangesAreLostToOverlapsOnly

\* c reads a row to change it.
LEMMA WritersRead ==
  ASSUME RecordBase, StaffInv, WritersInv, NEW c \in Calls, call[c].pc = "new",
         Req(c).op \in {"updateStaff", "staffPassword"}, NEW x \in DOMAIN office.staff, NEW row, Keep(c, x, row), OwnStep(c),
         office' = office, DOMAIN row = StaffColumns,
         \A f \in Columns : row[f] = IF New(c)[f] # None THEN New(c)[f] ELSE office.staff[x][f]
  PROVE  WritersInv'
<1>0. c \in DOMAIN call /\ {"pc", "user", "row", "cut"} \subseteq DOMAIN call[c] BY BaseOf DEF SessionRows, Calls, Fields
<1>1. /\ call'[c].pc = "writeStaff" /\ call'[c].user = x /\ call'[c].row = row /\ call'[c].cut = {d \in Calls : Wrote(d, x)}
  BY <1>0 DEF Keep
<1>2. \A d \in Calls : Writer(d)' /\ d # c => Writer(d) /\ call'[d] = call[d] BY Solo DEF Writer
<1>3. ASSUME NEW d \in Calls, Writer(d)'
      PROVE  /\ call'[d].user \in DOMAIN office'.staff /\ DOMAIN call'[d].row = StaffColumns
             /\ \A e \in call'[d].cut : e \in Calls' /\ Wrote(e, call[d].user)'
  <2>1. CASE d = c BY <1>1, <2>1, WroteStays, Solo
  <2>2. CASE d # c BY <1>2, <1>3, <2>2, WroteStays, WritersParts, Solo
  <2> QED BY <2>1, <2>2
<1>4. ASSUME NEW d \in Calls, Wrote(d, call[d].user)' PROVE Reflects(office.staff[call[d].user], d, call[d].user)'
  <2>1. d # c /\ call'[d] = call[d] BY <1>1, <1>4, Solo DEF Wrote
  <2>2. Wrote(d, call[d].user) BY <1>4, <2>1, Solo DEF Wrote
  <2> QED BY <2>1, <2>2, StillReflects
<1>5. InHand(c)'
  <2> SUFFICES ASSUME NEW f \in Columns
               PROVE  IF New(c)'[f] # None THEN call'[c].row[f] = New(c)'[f]
                      ELSE \A d \in call'[c].cut : New(d)'[f] # None =>
                             call'[c].row[f] = New(d)'[f] \/ \E e \in Calls' \ {d} : Overwrote(e, d, call[c].user, f)'
    BY DEF InHand
  <2>1. New(c)' = New(c) BY WroteStays
  <2>2. CASE New(c)[f] # None BY <1>1, <2>1, <2>2
  <2>3. CASE New(c)[f] = None
    <3> SUFFICES ASSUME NEW d \in call'[c].cut, New(d)'[f] # None
                 PROVE  call'[c].row[f] = New(d)'[f] \/ \E e \in Calls' \ {d} : Overwrote(e, d, call[c].user, f)'
      BY <2>1, <2>3
    <3>1. d \in Calls /\ Wrote(d, x) /\ d # c BY <1>1, WroteStays
    <3>2. Reflects(office.staff[x], d, x) BY <3>1, WritersParts DEF Wrote
    <3> PICK was : was = office.staff[x] OBVIOUS
    <3>4. Reflects(was, d, x)' BY <3>1, <3>2, OtherReflects
    <3>3. was[f] = New(d)'[f] \/ \E e \in Calls' \ {d} : Overwrote(e, d, x, f)' BY <3>4 DEF Reflects
    <3> QED BY <1>1, <2>3, <3>3
  <2> QED BY <2>2, <2>3
<1>6. ASSUME NEW d \in Calls, call'[d].pc = "writeStaff" PROVE InHand(d)'
  BY <1>5, <1>6, OtherInHand, Solo DEF RecordBase
<1>7. /\ \A d \in Calls' : Writer(d)' => call'[d].user \in DOMAIN office'.staff /\ DOMAIN call'[d].row = StaffColumns
                                         /\ \A e \in call'[d].cut : e \in Calls' /\ Wrote(e, call[d].user)'
      /\ \A d \in Calls' : call'[d].pc = "writeStaff" => InHand(d)'
      /\ \A d \in Calls' : Wrote(d, call[d].user)' => Reflects(office.staff[call[d].user], d, call[d].user)'
  BY <1>3, <1>4, <1>6, Solo
<1> QED BY <1>7 DEF WritersInv, InHand, ChangesAreLostToOverlapsOnly

\* c writes the row it has in hand back: what it did not set is as it was when
\* c read it.
LEMMA WritersWrite ==
  ASSUME RecordBase, StaffInv, WritersInv, NEW c \in Calls, OwnStep(c), WriteStaff(c)
  PROVE  WritersInv'
<1> PICK x, row : x = call[c].user /\ row = call[c].row OBVIOUS
<1>0. c \in DOMAIN call /\ {"pc", "user", "row", "cut"} \subseteq DOMAIN call[c] BY BaseOf DEF SessionRows, Calls, Fields
<1>1. call[c].pc = "writeStaff" /\ office' = UpdateStaffRow(x, row) /\ StepTo(c, "done") BY DEF WriteStaff, At, Finish
<1>2. /\ Writer(c) /\ InHand(c) /\ x \in DOMAIN office.staff /\ DOMAIN row = StaffColumns
      /\ \A d \in call[c].cut : d \in Calls /\ Wrote(d, x)
  BY <1>1, AtWrite, WritersParts DEF RecordBase
<1>3. /\ call'[c].pc = "done" /\ call'[c].user = x /\ call'[c].row = row /\ call'[c].cut = call[c].cut
  BY <1>0, <1>1 DEF StepTo
<1>4. /\ DOMAIN office'.staff = DOMAIN office.staff
      /\ \A y \in DOMAIN office.staff : y # x => office'.staff[y] = office.staff[y]
      /\ office'.staff[x] = [office.staff[x] EXCEPT !.name = row.name, !.role = row.role, !.pass = row.pass]
  BY <1>1, <1>2, BaseOf DEF UpdateStaffRow, OfficeTables
<1>5. \A f \in Columns : office'.staff[x][f] = row[f]
  <2>1. DOMAIN office.staff[x] = StaffColumns BY <1>2 DEF StaffInv
  <2>2. office'.staff[x].name = row.name /\ office'.staff[x].role = row.role /\ office'.staff[x].pass = row.pass
    BY <1>4, <2>1 DEF StaffColumns
  <2> QED BY <2>2 DEF Columns
<1>6. \A d \in Calls : d # c => call'[d] = call[d] /\ (Writer(d)' => Writer(d)) BY Solo DEF Writer
<1>7. Wrote(c, x)' /\ c \notin call[c].cut /\ call[c].pc \notin {"done", "failed"} BY <1>1, <1>2, <1>3, Solo DEF Wrote, Writer
<1>8. ASSUME NEW d \in Calls, Writer(d)'
      PROVE  /\ call'[d].user \in DOMAIN office'.staff /\ DOMAIN call'[d].row = StaffColumns
             /\ \A e \in call'[d].cut : e \in Calls' /\ Wrote(e, call[d].user)'
  <2>1. CASE d = c BY <1>2, <1>3, <1>4, <1>7, <2>1, WroteStays, Solo
  <2>2. CASE d # c BY <1>4, <1>6, <1>7, <1>8, <2>2, WroteStays, WritersParts, Solo
  <2> QED BY <2>1, <2>2
<1>9. ASSUME NEW d \in Calls, call'[d].pc = "writeStaff" PROVE InHand(d)'
  <2>1. d # c /\ call[d].pc = "writeStaff" BY <1>3, <1>6, <1>9
  <2> QED BY <1>7, <2>1, OtherInHand DEF RecordBase
<1>10. ASSUME NEW d \in Calls, Wrote(d, call[d].user)', d # c, call[d].user = x
       PROVE  Reflects(office.staff[call[d].user], d, call[d].user)'
  <2> SUFFICES ASSUME NEW f \in Columns, New(d)'[f] # None
               PROVE  office'.staff[x][f] = New(d)'[f] \/ \E e \in Calls' \ {d} : Overwrote(e, d, x, f)'
    BY <1>6, <1>10 DEF Reflects
  <2>0. c \in Calls' \ {d} /\ New(d)' = New(d) /\ New(c)' = New(c) /\ call'[d] = call[d] BY <1>6, <1>7, <1>10, WroteStays, Solo
  <2>1. CASE d \notin call[c].cut
    <3>1. Wrote(d, x) BY <1>10, <2>0, Solo DEF Wrote
    <3>2. c \notin call[d].cut
      <4>1. Writer(d) BY <3>1 DEF Wrote, Writer
      <4>2. \A e \in call[d].cut : Wrote(e, x) BY <1>10, <4>1, WritersParts
      <4> QED BY <1>7, <4>2 DEF Wrote
    <3>3. Overwrote(c, d, x, f)' BY <1>3, <1>7, <2>0, <2>1, <3>2 DEF Overwrote, Overlap
    <3> QED BY <2>0, <3>3
  <2>2. CASE d \in call[c].cut /\ New(c)[f] # None
    <3>1. Overwrote(c, d, x, f)' BY <1>3, <1>7, <2>0, <2>2 DEF Overwrote
    <3> QED BY <2>0, <3>1
  <2>3. CASE d \in call[c].cut /\ New(c)[f] = None
    <3>1. row[f] = New(d)[f] \/ \E e \in Calls \ {d} : Overwrote(e, d, x, f)
      BY <1>2, <2>0, <2>3 DEF InHand
    <3> QED BY <1>5, <1>7, <1>10, <2>0, <3>1, WroteStays, Solo
  <2> QED BY <2>1, <2>2, <2>3
<1>11. ASSUME NEW d \in Calls, Wrote(d, call[d].user)', d # c, call[d].user # x
       PROVE  Reflects(office.staff[call[d].user], d, call[d].user)'
  <2>1. call'[d] = call[d] BY <1>6, <1>11
  <2>2. Wrote(d, call[d].user) BY <1>11, <2>1, Solo DEF Wrote
  <2>3. Reflects(office.staff[call[d].user], d, call[d].user) /\ call[d].user \in DOMAIN office.staff
    BY <2>2, WritersParts DEF Wrote, Writer
  <2>4. office'.staff[call[d].user] = office.staff[call[d].user] BY <1>4, <1>11, <2>3
  <2> QED BY <1>7, <1>11, <2>2, <2>4, StillReflects
<1>12. Reflects(office.staff[call[c].user], c, call[c].user)'
  BY <1>2, <1>3, <1>5, <1>7, WroteStays DEF Reflects, InHand
<1>13. /\ \A d \in Calls' : Writer(d)' => call'[d].user \in DOMAIN office'.staff /\ DOMAIN call'[d].row = StaffColumns
                                          /\ \A e \in call'[d].cut : e \in Calls' /\ Wrote(e, call[d].user)'
       /\ \A d \in Calls' : call'[d].pc = "writeStaff" => InHand(d)'
       /\ \A d \in Calls' : Wrote(d, call[d].user)' => Reflects(office.staff[call[d].user], d, call[d].user)'
  BY <1>8, <1>9, <1>10, <1>11, <1>12, Solo
<1> QED BY <1>13 DEF WritersInv, InHand, ChangesAreLostToOverlapsOnly

LEMMA WritersKept == ASSUME RecordBase, StaffInv, WritersInv, NEW c \in Calls, StepOf(c) PROVE WritersInv'
<1>0. OwnStep(c) /\ call[c].pc \notin {"done", "failed"} /\ OpsInv' BY StepFacts, OpsKept
<1>1. CASE WriteStaff(c) BY <1>0, <1>1, WritersWrite
<1>2. CASE HandleUpdateStaff(c)
  <2> DEFINE x == Req(c).id
  <2>1. call[c].pc = "new" /\ Req(c).op = "updateStaff" /\ office' = office BY <1>2 DEF HandleUpdateStaff, Admitted, Begins
  <2>2. CASE Finish(c, FALSE)
    <3>1. ~Writer(c)' BY <2>2, BaseOf, StepToFacts DEF Finish, Writer
    <3> QED BY <1>0, <2>1, <3>1, WritersFrame
  <2>3. CASE x \in DOMAIN office.staff /\ Keep(c, x, UpdatedStaff(Req(c), office.staff[x]))
    <3> DEFINE row == UpdatedStaff(Req(c), office.staff[x])
    <3>1. DOMAIN office.staff[x] = StaffColumns BY <2>3 DEF StaffInv
    <3>2. DOMAIN row = StaffColumns /\ row.name = Given(Req(c).name, office.staff[x].name)
          /\ row.role = Given(Req(c).role, office.staff[x].role) /\ row.pass = office.staff[x].pass
      BY <3>1 DEF UpdatedStaff, StaffColumns
    <3>3. \A f \in Columns : row[f] = IF New(c)[f] # None THEN New(c)[f] ELSE office.staff[x][f]
      BY <2>1, <3>2 DEF New, Given, Columns
    <3> HIDE DEF row, x
    <3> QED BY <1>0, <2>1, <2>3, <3>2, <3>3, WritersRead DEF row
  <2> QED BY <1>2, <2>2, <2>3 DEF HandleUpdateStaff
<1>3. CASE HandleStaffPassword(c)
  <2> DEFINE x == Holder(c)
  <2>1. call[c].pc = "new" /\ Req(c).op = "staffPassword" /\ office' = office BY <1>3 DEF HandleStaffPassword, Begins
  <2>2. CASE Finish(c, FALSE)
    <3>1. ~Writer(c)' BY <2>2, BaseOf, StepToFacts DEF Finish, Writer
    <3> QED BY <1>0, <2>1, <3>1, WritersFrame
  <2>3. CASE x \in DOMAIN office.staff /\ Keep(c, x, [office.staff[x] EXCEPT !.pass = Req(c).new])
    <3> DEFINE row == [office.staff[x] EXCEPT !.pass = Req(c).new]
    <3>1. DOMAIN office.staff[x] = StaffColumns BY <2>3 DEF StaffInv
    <3>2. DOMAIN row = StaffColumns /\ row.name = office.staff[x].name
          /\ row.role = office.staff[x].role /\ row.pass = Req(c).new
      BY <3>1 DEF StaffColumns
    <3>3. \A f \in Columns : row[f] = IF New(c)[f] # None THEN New(c)[f] ELSE office.staff[x][f]
      <4>1. Req(c).new # None BY <2>1, FormAssumption, BaseOf DEF SessionRows, Req, None
      <4>2. New(c) = [name |-> None, role |-> None, pass |-> Req(c).new] BY <2>1 DEF New
      <4>3. New(c).name = None /\ New(c).role = None /\ New(c).pass = Req(c).new BY <4>2
      <4> HIDE DEF row
      <4> QED BY <3>2, <4>1, <4>3 DEF Columns
    <3> HIDE DEF row, x
    <3> QED BY <1>0, <2>1, <2>3, <3>2, <3>3, WritersRead DEF row
  <2> QED BY <1>3, <2>2, <2>3 DEF HandleStaffPassword, ChangeStaffPassword
<1>4. CASE HandleCreateStaff(c)
  <2>1. Req(c).op = "createStaff" /\ (office' = office \/ office' = [office EXCEPT !.staff = Insert(@, c, NewStaff(Req(c)))])
    BY <1>4 DEF HandleCreateStaff, Admitted, Begins, CreateStaffRow
  <2>2. c \notin DOMAIN office.staff BY <1>0 DEF StaffInv
  <2>3. \A x \in DOMAIN office.staff : x \in DOMAIN office'.staff /\ office'.staff[x] = office.staff[x]
    BY <2>1, <2>2, BaseOf DEF Insert, OfficeTables
  <2>4. ~Writer(c)' BY <1>0, <2>1, Solo DEF Writer
  <2> QED BY <1>0, <2>3, <2>4, WritersFrame
<1>5. CASE HandleDeactivateStaff(c)
  <2>1. Req(c).op = "deactivateStaff" /\ (office' = office \/ office' = Deactivate(Req(c).id))
    BY <1>5 DEF HandleDeactivateStaff, Admitted, Begins
  <2>2. \A x \in DOMAIN office.staff : x \in DOMAIN office'.staff /\ \A f \in Columns : office'.staff[x][f] = office.staff[x][f]
    <3>1. CASE office' = office BY <3>1
    <3>2. CASE office' = Deactivate(Req(c).id)
      <4>1. office'.staff = [office.staff EXCEPT ![Req(c).id].active = FALSE] BY <3>2, BaseOf DEF Deactivate, OfficeTables
      <4>2. \A x \in DOMAIN office.staff : DOMAIN office.staff[x] = StaffColumns BY DEF StaffInv
      <4> QED BY <4>1, <4>2 DEF Columns, StaffColumns
    <3> QED BY <2>1, <3>1, <3>2
  <2>3. ~Writer(c)' BY <1>0, <2>1, Solo DEF Writer
  <2> QED BY <1>0, <2>2, <2>3, WritersFrame
<1>6. CASE HandleAdminLogin(c) \/ IssueToken(c)
  <2>0. Req(c).op = "adminLogin"
    <3>1. CASE HandleAdminLogin(c) BY <3>1 DEF HandleAdminLogin, Begins
    <3>2. CASE IssueToken(c) BY <3>2, BaseOf DEF IssueToken, At, OpAt
    <3> QED BY <1>6, <3>1, <3>2
  <2>1. Req(c).op = "adminLogin" /\ office'.staff = office.staff
    BY <1>6, <2>0, BaseOf DEF HandleAdminLogin, IssueToken, OfficeTables
  <2>2. ~Writer(c)' BY <1>0, <2>1, Solo DEF Writer
  <2> QED BY <1>0, <2>1, <2>2, WritersFrame
<1>7. CASE Forbidden(c)
  <2>1. office' = office /\ Finish(c, FALSE) BY <1>7 DEF Forbidden
  <2>2. ~Writer(c)' BY <2>1, BaseOf, StepToFacts DEF Finish, Writer
  <2> QED BY <1>0, <2>1, <2>2, WritersFrame
<1>8. CASE ~Staff(c)
  <2>1. office'.staff = office.staff /\ (Req(c).op \notin {"updateStaff", "staffPassword"} \/ call'[c].pc = "failed")
    BY <1>8, StepEffect DEF Works, DirectoryOps, CustomersOps, ReconcilesOps, OfficeBut, OfficeTables, Fails
  <2>2. ~Writer(c)' BY <1>0, <2>1, Solo DEF Writer
  <2> QED BY <1>0, <2>1, <2>2, WritersFrame
<1> QED BY <1>1, <1>2, <1>3, <1>4, <1>5, <1>6, <1>7, <1>8 DEF Staff
-----------------------------------------------------------------------------
(* Reconciliation. *)

LEMMA SoundFacts ==
  ASSUME NEW n \in Nat
  PROVE  /\ IsFiniteSet(Sound(n)) /\ Cardinality(Sound(n)) \in Nat
         /\ n > 0 => Cardinality(Sound(n - 1)) <= Cardinality(Sound(n))
         /\ n > 0 /\ n \in Sound(n) => Cardinality(Sound(n)) = Cardinality(Sound(n - 1)) + 1
<1>1. \A m \in Nat : IsFiniteSet(Sound(m))
  <2> SUFFICES ASSUME NEW m \in Nat PROVE IsFiniteSet(Sound(m)) OBVIOUS
  <2>1. IsFiniteSet(1 .. m) BY FS_Interval
  <2>2. Sound(m) \in SUBSET (1 .. m) BY DEF Sound
  <2> QED BY <2>1, <2>2, FS_Subset
<1>2. IsFiniteSet(Sound(n)) /\ Cardinality(Sound(n)) \in Nat BY <1>1, FS_CardinalityType
<1>3. ASSUME n > 0 PROVE Cardinality(Sound(n - 1)) <= Cardinality(Sound(n))
  <2>1. Sound(n - 1) \in SUBSET Sound(n) BY <1>3 DEF Sound
  <2> QED BY <1>2, <2>1, FS_Subset
<1>4. ASSUME n > 0, n \in Sound(n) PROVE Cardinality(Sound(n)) = Cardinality(Sound(n - 1)) + 1
  <2>1. Sound(n) = Sound(n - 1) \cup {n} BY <1>4 DEF Sound
  <2>2. n \notin Sound(n - 1) BY DEF Sound
  <2>3. IsFiniteSet(Sound(n - 1)) BY <1>1, <1>4
  <2> QED BY <2>1, <2>2, <2>3, FS_AddElement
<1> QED BY <1>2, <1>3, <1>4

LEMMA ReadableFacts ==
  ASSUME NEW n \in Nat
  PROVE  /\ Cardinality(Readable(n)) \in Nat /\ Cardinality(Readable(0)) = 0
         /\ n > 0 /\ File[n].ref # None => Cardinality(Readable(n)) = Cardinality(Readable(n - 1)) + 1
         /\ n > 0 /\ File[n].ref = None => Readable(n) = Readable(n - 1)
<1>1. \A m \in Nat : IsFiniteSet(Readable(m))
  <2> SUFFICES ASSUME NEW m \in Nat PROVE IsFiniteSet(Readable(m)) OBVIOUS
  <2>1. IsFiniteSet(1 .. m) BY FS_Interval
  <2>2. Readable(m) \in SUBSET (1 .. m) BY DEF Readable
  <2> QED BY <2>1, <2>2, FS_Subset
<1>2. Cardinality(Readable(n)) \in Nat BY <1>1, FS_CardinalityType
<1>3. Cardinality(Readable(0)) = 0
  <2>1. Readable(0) = {} BY DEF Readable
  <2> QED BY <2>1, FS_EmptySet
<1>4. ASSUME n > 0, File[n].ref # None PROVE Cardinality(Readable(n)) = Cardinality(Readable(n - 1)) + 1
  <2>1. Readable(n) = Readable(n - 1) \cup {n} BY <1>4 DEF Readable
  <2>2. n \notin Readable(n - 1) BY DEF Readable
  <2>3. IsFiniteSet(Readable(n - 1)) BY <1>1, <1>4
  <2> QED BY <2>1, <2>2, <2>3, FS_AddElement
<1>5. ASSUME n > 0, File[n].ref = None PROVE Readable(n) = Readable(n - 1)
  BY <1>5 DEF Readable
<1> QED BY <1>2, <1>3, <1>4, <1>5

\* One line more is counted, as matched or as an exception, or passed over.
LEMMA CountedMore ==
  ASSUME NEW f, NEW g, NEW n \in Nat \ {0}, NEW m \in Nat, NEW x \in Nat, m + x = Cardinality(Readable(n - 1)),
         Cardinality(f) \in Nat, Cardinality(g) \in Nat, Cardinality(f) <= x, m <= Cardinality(Sound(n - 1))
  PROVE  /\ n \in Sound(n) /\ File[n].ref # None /\ g = f => Counted(g, n, m + 1, x)
         /\ File[n].ref # None /\ Cardinality(g) <= Cardinality(f) + 1 => Counted(g, n, m, x + 1)
         /\ File[n].ref = None /\ g = f => Counted(g, n, m, x)
<1>1. n - 1 \in Nat /\ n > 0 OBVIOUS
<1>2. Cardinality(Sound(n)) \in Nat /\ Cardinality(Sound(n - 1)) \in Nat /\ Cardinality(Sound(n - 1)) <= Cardinality(Sound(n))
  BY <1>1, SoundFacts
<1>3. n \in Sound(n) => Cardinality(Sound(n)) = Cardinality(Sound(n - 1)) + 1 BY <1>1, SoundFacts
<1>4. /\ Cardinality(Readable(n)) \in Nat /\ Cardinality(Readable(n - 1)) \in Nat
      /\ File[n].ref # None => Cardinality(Readable(n)) = Cardinality(Readable(n - 1)) + 1
      /\ File[n].ref = None => Cardinality(Readable(n)) = Cardinality(Readable(n - 1))
  BY <1>1, ReadableFacts
<1> QED BY <1>1, <1>2, <1>3, <1>4 DEF Counted

\* The run of another request stays as it is.
LEMMA OtherRun ==
  ASSUME NEW d, ReconCall(d), call'[d] = call[d], Flagged(d)' = Flagged(d),
         d \in DOMAIN office'.runs <=> d \in DOMAIN office.runs,
         d \in DOMAIN office.runs => office'.runs[d] = office.runs[d]
  PROVE  ReconCall(d)'
BY DEF ReconCall, Counted, Req

LEMMA ReconFrame ==
  ASSUME RecordBase, ReconInv, OpsInv', NEW c \in Calls, OwnStep(c), call[c].pc \notin {"done", "failed"},
         office'.runs = office.runs, DOMAIN office'.exceptions = DOMAIN office.exceptions,
         \A e \in DOMAIN office.exceptions :
           /\ DOMAIN office'.exceptions[e] = {"ref", "type", "status", "assigned"}
           /\ office'.exceptions[e].assigned # None => office'.exceptions[e].status # "open",
         Req(c).op # "reconcile" \/ call'[c].pc = "failed"
  PROVE  ReconInv'
<1>1. \A r : Flagged(r)' = Flagged(r) BY DEF Flagged
<1>2. ReconCall(c)'
  <2>1. call'[c].pc \in {"openFile", "readLine"} => Req(c).op = "reconcile"
    BY FreeSteps, Solo DEF OpsInv, OpAt
  <2>2. ReconCall(c) BY DEF ReconInv
  <2>3. c \in DOMAIN office.runs => Req(c).op = "reconcile" /\ office.runs[c].status # "completed" BY <2>2 DEF ReconCall
  <2> QED BY <1>1, <2>1, <2>2, <2>3, Solo DEF ReconCall
<1>3. \A d \in Calls' : ReconCall(d)' BY <1>1, <1>2, OtherRun, Solo DEF ReconInv
<1> QED BY <1>3 DEF ReconInv

\* The run of c ends, or goes on.
LEMMA OwnRun ==
  ASSUME RecordBase, ReconInv, NEW c \in Calls, OwnStep(c), Req(c).op = "reconcile", call'[c].pc # "new",
         DOMAIN office'.runs = DOMAIN office.runs, c \in DOMAIN office.runs,
         \A r \in DOMAIN office.runs : /\ r # c => office'.runs[r] = office.runs[r]
                                       /\ office'.runs[r].date = office.runs[r].date,
         DOMAIN office'.runs[c] = {"date", "matched", "exceptions", "status"},
         \A e \in DOMAIN office'.exceptions :
           /\ DOMAIN office'.exceptions[e] = {"ref", "type", "status", "assigned"}
           /\ office'.exceptions[e].assigned # None => office'.exceptions[e].status # "open",
         \A d \in Calls : d # c => Flagged(d)' = Flagged(d),
         IsFiniteSet(Flagged(c)'), call'[c].pc # "openFile",
         call'[c].pc = "readLine" =>
           /\ DOMAIN call'[c].row = {"line", "matched", "exceptions"} /\ call'[c].row.line \in 1 .. Len(File) + 1
           /\ Counted(Flagged(c)', call'[c].row.line - 1, call'[c].row.matched, call'[c].row.exceptions),
         office'.runs[c].status = "completed" =>
           call'[c].pc = "done" /\ Counted(Flagged(c)', Len(File), office'.runs[c].matched, office'.runs[c].exceptions),
         office'.runs[c].status = "running" => call'[c].pc \in {"readLine", "failed"},
         call'[c].pc = "done" => office'.runs[c].status = "completed"
  PROVE  ReconInv'
<1>1. ReconCall(c)'
  <2>1. office'.runs[c].date = Today BY DEF ReconInv, ReconCall
  <2> QED BY <2>1, Solo DEF ReconCall
<1>2. \A d \in Calls' : ReconCall(d)' BY <1>1, OtherRun, Solo DEF ReconInv
<1>3. \A r, q \in DOMAIN office'.runs : office'.runs[r].date = office'.runs[q].date => r = q BY DEF ReconInv
<1> QED BY <1>2, <1>3 DEF ReconInv

LEMMA FinishedRun ==
  ASSUME RecordBase, ReconInv, NEW c \in Calls, c \in DOMAIN office.runs, NEW m, NEW x, NEW outcome,
         office' = FinishRun(c, m, x, outcome)
  PROVE  /\ office'.exceptions = office.exceptions /\ DOMAIN office'.runs = DOMAIN office.runs
         /\ \A r \in DOMAIN office.runs : /\ r # c => office'.runs[r] = office.runs[r]
                                          /\ office'.runs[r].date = office.runs[r].date
         /\ DOMAIN office'.runs[c] = {"date", "matched", "exceptions", "status"}
         /\ office'.runs[c].matched = m /\ office'.runs[c].exceptions = x /\ office'.runs[c].status = outcome
<1>1. DOMAIN office.runs[c] = {"date", "matched", "exceptions", "status"} BY DEF ReconInv, ReconCall
<1>2. /\ office'.exceptions = office.exceptions
      /\ office'.runs = [office.runs EXCEPT ![c].matched = m, ![c].exceptions = x, ![c].status = outcome]
  BY BaseOf DEF FinishRun, OfficeTables
<1>3. DOMAIN office'.runs = DOMAIN office.runs /\ \A r \in DOMAIN office.runs : r # c => office'.runs[r] = office.runs[r]
  BY <1>2
<1>4. office'.runs[c] = [office.runs[c] EXCEPT !.matched = m, !.exceptions = x, !.status = outcome] BY <1>2
<1> QED BY <1>1, <1>2, <1>3, <1>4

LEMMA ReconKept == ASSUME RecordBase, ReconInv, NEW c \in Calls, StepOf(c) PROVE ReconInv'
<1> USE StepFacts
<1>0. SessionRows /\ ReconCall(c) BY BaseOf DEF ReconInv
<1>1. CASE CreateRun(c)
  <2>0. call[c].pc = "new" /\ Req(c).op = "reconcile" /\ c \notin DOMAIN office.runs
    BY <1>0, <1>1 DEF CreateRun, Begins, ReconCall
  <2>1. CASE \E r \in DOMAIN office.runs : office.runs[r].date = Today
    <3>1. office' = office /\ StepTo(c, "failed") BY <1>1, <2>1 DEF CreateRun, Finish
    <3>2. call'[c].pc = "failed" BY <1>0, <3>1, StepToFacts
    <3> QED BY <3>1, <3>2, OpsKept, ReconFrame DEF ReconInv
  <2>2. CASE \A r \in DOMAIN office.runs : office.runs[r].date # Today
    <3> DEFINE row == [date |-> Today, matched |-> 0, exceptions |-> 0, status |-> "running"]
    <3>1. office' = [office EXCEPT !.runs = Insert(@, c, row)] /\ StepTo(c, "openFile")
      BY <1>1, <2>2 DEF CreateRun
    <3>2. call'[c].pc = "openFile" BY <1>0, <3>1, StepToFacts
    <3>3. office'.runs = Insert(office.runs, c, row) /\ office'.exceptions = office.exceptions
      BY <3>1, BaseOf DEF OfficeTables
    <3>4. /\ DOMAIN office'.runs = DOMAIN office.runs \cup {c} /\ office'.runs[c] = row
          /\ \A r \in DOMAIN office.runs : office'.runs[r] = office.runs[r]
      BY <2>0, <3>3 DEF Insert
    <3>5. \A r : Flagged(r)' = Flagged(r) BY <3>3 DEF Flagged
    <3>6. ReconCall(c)'
      <4>1. Flagged(c) = {} BY <1>0, <2>0 DEF ReconCall
      <4>2. DOMAIN row = {"date", "matched", "exceptions", "status"} /\ row.status = "running" /\ row.date = Today OBVIOUS
      <4> QED BY <1>0, <2>0, <3>2, <3>4, <3>5, <4>1, <4>2, Solo DEF ReconCall
    <3>7. \A d \in Calls' : ReconCall(d)'
      <4>1. ASSUME NEW d \in Calls, d # c PROVE ReconCall(d)'
        <5>1. ReconCall(d) BY DEF ReconInv
        <5> QED BY <3>4, <3>5, <4>1, <5>1, OtherRun, Solo
      <4> QED BY <3>6, <4>1, Solo
    <3>8. \A r, q \in DOMAIN office'.runs : office'.runs[r].date = office'.runs[q].date => r = q
      <4>1. row.date = Today OBVIOUS
      <4> QED BY <2>2, <3>4, <4>1 DEF ReconInv
    <3> QED BY <3>3, <3>7, <3>8 DEF ReconInv
  <2> QED BY <2>1, <2>2
<1>2. CASE OpenFile(c)
  <2>0. call[c].pc = "openFile" /\ Req(c).op = "reconcile" /\ c \in DOMAIN office.runs /\ Flagged(c) = {}
    BY <1>0, <1>2 DEF OpenFile, At, ReconCall
  <2>00. office.runs[c].status # "completed" /\ DOMAIN office.runs[c] = {"date", "matched", "exceptions", "status"}
    BY <1>0, <2>0 DEF ReconCall
  <2>1. CASE call' = [call EXCEPT ![c].pc = "readLine", ![c].row = [line |-> 1, matched |-> 0, exceptions |-> 0]]
             /\ office' = office
    <3>0. c \in DOMAIN call /\ {"pc", "row"} \subseteq DOMAIN call[c] BY <1>0 DEF SessionRows, Calls, Fields
    <3>1. call'[c].pc = "readLine" /\ call'[c].row = [line |-> 1, matched |-> 0, exceptions |-> 0] BY <2>1, <3>0
    <3>2. \A r : Flagged(r)' = Flagged(r) BY <2>1 DEF Flagged
    <3>3. /\ DOMAIN call'[c].row = {"line", "matched", "exceptions"} /\ call'[c].row.line = 1
          /\ call'[c].row.matched = 0 /\ call'[c].row.exceptions = 0
      BY <3>1
    <3>4. Counted(Flagged(c)', call'[c].row.line - 1, call'[c].row.matched, call'[c].row.exceptions)
      <4>1. Cardinality(Flagged(c)') = 0 BY <2>0, <3>2, FS_EmptySet
      <4>2. Cardinality(Sound(0)) \in Nat /\ Cardinality(Readable(0)) = 0 BY SoundFacts, ReadableFacts
      <4> QED BY <3>3, <4>1, <4>2 DEF Counted
    <3>5. Len(File) \in Nat BY OfficeAssumption
    <3>6. IsFiniteSet(Flagged(c)') BY <2>0, <3>2, FS_EmptySet
    <3>7. \A e \in DOMAIN office'.exceptions :
            /\ DOMAIN office'.exceptions[e] = {"ref", "type", "status", "assigned"}
            /\ office'.exceptions[e].assigned # None => office'.exceptions[e].status # "open"
      BY <2>1 DEF ReconInv
    <3>8. call'[c].row.line \in 1 .. Len(File) + 1 BY <3>3, <3>5
    <3>9. /\ office'.runs = office.runs /\ office'.runs[c].status # "completed" /\ call'[c].pc \notin {"new", "openFile", "done"}
          /\ DOMAIN office'.runs[c] = {"date", "matched", "exceptions", "status"}
      BY <2>00, <2>1, <3>1
    <3>10. OwnStep(c) OBVIOUS
    <3> QED BY ONLY <2>0, <3>1, <3>2, <3>3, <3>4, <3>6, <3>7, <3>8, <3>9, <3>10, OwnRun, RecordBase, ReconInv, c \in Calls
  <2>2. CASE Finish(c, FALSE) /\ office' = FinishRun(c, 0, 0, "failed")
    <3>1. call'[c].pc = "failed" BY <1>0, <2>2, StepToFacts DEF Finish
    <3>2. /\ office'.exceptions = office.exceptions /\ DOMAIN office'.runs = DOMAIN office.runs
          /\ \A r \in DOMAIN office.runs : /\ r # c => office'.runs[r] = office.runs[r]
                                           /\ office'.runs[r].date = office.runs[r].date
          /\ DOMAIN office'.runs[c] = {"date", "matched", "exceptions", "status"}
          /\ office'.runs[c].status = "failed"
      BY <2>0, <2>2, FinishedRun
    <3>3. \A r : Flagged(r)' = Flagged(r) BY <3>2 DEF Flagged
    <3>4. IsFiniteSet(Flagged(c)') BY <2>0, <3>3, FS_EmptySet
    <3> QED BY <2>0, <3>1, <3>2, <3>3, <3>4, OwnRun DEF ReconInv
  <2> QED BY <1>2, <2>1, <2>2 DEF OpenFile
<1>3. CASE ReadLine(c) \/ SkipLine(c)
  <2> PICK n, m, x : n = call[c].row.line /\ m = call[c].row.matched /\ x = call[c].row.exceptions OBVIOUS
  <2>0. call[c].pc = "readLine" /\ Req(c).op = "reconcile" /\ c \in DOMAIN office.runs /\ n <= Len(File)
    BY <1>0, <1>3 DEF ReadLine, SkipLine, At, ReconCall
  <2>1. /\ office.runs[c].status # "completed" /\ DOMAIN office.runs[c] = {"date", "matched", "exceptions", "status"}
        /\ DOMAIN call[c].row = {"line", "matched", "exceptions"} /\ n \in Nat \ {0} /\ Len(File) \in Nat
        /\ m \in Nat /\ x \in Nat /\ m + x = Cardinality(Readable(n - 1))
        /\ Cardinality(Flagged(c)) <= x /\ m <= Cardinality(Sound(n - 1)) /\ IsFiniteSet(Flagged(c))
    BY <1>0, <2>0, OfficeAssumption DEF ReconCall, Counted
  <2>2. n - 1 \in Nat /\ n \in 1 .. Len(File) BY <2>0, <2>1
  <2>3. Cardinality(Flagged(c)) \in Nat /\ Cardinality(Sound(n - 1)) \in Nat /\ Cardinality(Sound(n)) \in Nat
    BY <2>1, <2>2, SoundFacts, FS_CardinalityType
  <2>4. c \in DOMAIN call /\ "row" \in DOMAIN call[c] BY <1>0 DEF SessionRows, Calls, Fields
  <2>5. \/ SkipLine(c)
        \/ \E looked, posted \in BOOLEAN : \E verdict :
             /\ verdict = Verdict(File[n], looked /\ File[n].ref \in DOMAIN ReceiptOf, posted)
             /\ \/ /\ verdict = "matched" /\ office' = office /\ File[n].ref # None
                   /\ call' = [call EXCEPT ![c].row.line = @ + 1, ![c].row.matched = @ + 1]
                \/ /\ call' = [call EXCEPT ![c].row.line = @ + 1, ![c].row.exceptions = @ + 1] /\ File[n].ref # None
                   /\ \/ office' = [office EXCEPT !.exceptions = FlagException(c, n, verdict)]
                      \/ office' = office
    BY <1>3 DEF ReadLine
  <2>8. CASE SkipLine(c)
    <3>0. office' = office /\ File[n].ref = None /\ call' = [call EXCEPT ![c].row.line = @ + 1] BY <2>8 DEF SkipLine
    <3>1. /\ call'[c].pc = "readLine" /\ DOMAIN call'[c].row = {"line", "matched", "exceptions"}
          /\ call'[c].row.line = n + 1 /\ call'[c].row.matched = m /\ call'[c].row.exceptions = x
      <4>1. call'[c] = [call[c] EXCEPT !.row.line = @ + 1] BY <2>4, <3>0
      <4>2. call'[c].pc = "readLine" BY <2>0, <2>4, <4>1
      <4>3. call'[c].row = [call[c].row EXCEPT !.line = @ + 1] BY <2>4, <4>1
      <4> QED BY <2>1, <4>2, <4>3
    <3>2. \A r : Flagged(r)' = Flagged(r) BY <3>0 DEF Flagged
    <3>6. Counted(Flagged(c)', n, m, x)
      <4>1. Flagged(c)' = Flagged(c) BY <3>2
      <4> HIDE StepFacts
      <4>2. Counted(Flagged(c), n, m, x) BY <2>1, <2>3, <3>0, CountedMore
      <4> QED BY <4>1, <4>2
    <3>7. call'[c].row.line - 1 = n BY <2>1, <3>1
    <3>8. Counted(Flagged(c)', call'[c].row.line - 1, call'[c].row.matched, call'[c].row.exceptions)
      BY <3>1, <3>6, <3>7 DEF Counted
    <3>9. call'[c].row.line \in 1 .. Len(File) + 1
      <4>1. n + 1 \in 1 .. Len(File) + 1 BY ONLY <2>1, <2>2
      <4> QED BY <3>1, <4>1, Zenon
    <3> QED BY <2>0, <2>1, <3>0, <3>1, <3>2, <3>8, <3>9, OwnRun, Zenon DEF ReconInv
  <2>6. ASSUME NEW looked \in BOOLEAN, NEW posted \in BOOLEAN, File[n].ref # None,
               Verdict(File[n], looked /\ File[n].ref \in DOMAIN ReceiptOf, posted) = "matched", office' = office,
               call' = [call EXCEPT ![c].row.line = @ + 1, ![c].row.matched = @ + 1]
        PROVE  ReconInv'
    <3>1. /\ call'[c].pc = "readLine" /\ DOMAIN call'[c].row = {"line", "matched", "exceptions"}
          /\ call'[c].row.line = n + 1 /\ call'[c].row.matched = m + 1 /\ call'[c].row.exceptions = x
      <4>1. call'[c] = [call[c] EXCEPT !.row.line = @ + 1, !.row.matched = @ + 1] BY <2>4, <2>6
      <4>2. call'[c].pc = "readLine" BY <2>0, <2>4, <4>1
      <4>3. call'[c].row = [call[c].row EXCEPT !.line = @ + 1, !.matched = @ + 1] BY <2>4, <4>1
      <4> QED BY <2>1, <4>2, <4>3
    <3>2. \A r : Flagged(r)' = Flagged(r) BY <2>6 DEF Flagged
    <3>3. File[n].ref \in DOMAIN ReceiptOf /\ ReceiptOf[File[n].ref] = File[n].cents BY <2>6 DEF Verdict
    <3>4. n \in Sound(n) BY <2>2, <3>3 DEF Sound
    <3>6. Counted(Flagged(c)', n, m + 1, x)
      <4>1. Flagged(c)' = Flagged(c) BY <3>2
      <4> HIDE StepFacts
      <4>2. Counted(Flagged(c), n, m + 1, x) BY <2>1, <2>3, <2>6, <3>4, CountedMore
      <4> QED BY <4>1, <4>2
    <3>7. call'[c].row.line - 1 = n BY <2>1, <3>1
    <3>8. Counted(Flagged(c)', call'[c].row.line - 1, call'[c].row.matched, call'[c].row.exceptions)
      BY <3>1, <3>6, <3>7 DEF Counted
    <3>9. call'[c].row.line \in 1 .. Len(File) + 1
      <4>1. n + 1 \in 1 .. Len(File) + 1 BY ONLY <2>1, <2>2
      <4> QED BY <3>1, <4>1, Zenon
    <3> QED BY <2>0, <2>1, <2>6, <3>1, <3>2, <3>8, <3>9, OwnRun, Zenon DEF ReconInv
  <2>7. ASSUME NEW verdict, File[n].ref # None,
               call' = [call EXCEPT ![c].row.line = @ + 1, ![c].row.exceptions = @ + 1],
               office' = [office EXCEPT !.exceptions = FlagException(c, n, verdict)] \/ office' = office
        PROVE  ReconInv'
    <3>1. /\ call'[c].pc = "readLine" /\ DOMAIN call'[c].row = {"line", "matched", "exceptions"}
          /\ call'[c].row.line = n + 1 /\ call'[c].row.matched = m /\ call'[c].row.exceptions = x + 1
      <4>1. call'[c] = [call[c] EXCEPT !.row.line = @ + 1, !.row.exceptions = @ + 1] BY <2>4, <2>7
      <4>2. call'[c].pc = "readLine" BY <2>0, <2>4, <4>1
      <4>3. call'[c].row = [call[c].row EXCEPT !.line = @ + 1, !.exceptions = @ + 1] BY <2>4, <4>1
      <4> QED BY <2>1, <4>2, <4>3
    <3>2. /\ office'.runs = office.runs
          /\ DOMAIN office'.exceptions \subseteq DOMAIN office.exceptions \cup {<<c, n>>}
          /\ DOMAIN office.exceptions \subseteq DOMAIN office'.exceptions
          /\ \A e \in DOMAIN office'.exceptions :
               /\ DOMAIN office'.exceptions[e] = {"ref", "type", "status", "assigned"}
               /\ office'.exceptions[e].assigned # None => office'.exceptions[e].status # "open"
      <4>1. CASE office' = office BY <4>1 DEF ReconInv
      <4>2. CASE office' = [office EXCEPT !.exceptions = FlagException(c, n, verdict)]
        <5>1. office'.runs = office.runs /\ office'.exceptions = FlagException(c, n, verdict)
          BY <4>2, BaseOf DEF OfficeTables
        <5> DEFINE row == [ref |-> File[n].ref, type |-> verdict, status |-> "open", assigned |-> None]
        <5>2. office'.exceptions = Insert(office.exceptions, <<c, n>>, row) BY <5>1 DEF FlagException
        <5>3. DOMAIN row = {"ref", "type", "status", "assigned"} /\ row.assigned = None OBVIOUS
        <5> HIDE DEF row
        <5>4. /\ DOMAIN office'.exceptions = DOMAIN office.exceptions \cup {<<c, n>>}
              /\ office'.exceptions[<<c, n>>] = row
              /\ \A e \in DOMAIN office.exceptions : e # <<c, n>> => office'.exceptions[e] = office.exceptions[e]
          BY <5>2 DEF Insert
        <5> QED BY <5>1, <5>3, <5>4, Zenon DEF ReconInv
      <4> QED BY <2>7, <4>1, <4>2
    <3>3. \A d : d # c => Flagged(d)' = Flagged(d) BY <3>2 DEF Flagged
    <3>4. /\ IsFiniteSet(Flagged(c)') /\ Cardinality(Flagged(c)') \in Nat
          /\ Cardinality(Flagged(c)') <= Cardinality(Flagged(c)) + 1
      <4>1. Flagged(c)' \in SUBSET (Flagged(c) \cup {<<c, n>>}) BY <3>2 DEF Flagged
      <4>2. /\ IsFiniteSet(Flagged(c) \cup {<<c, n>>})
            /\ Cardinality(Flagged(c) \cup {<<c, n>>}) <= Cardinality(Flagged(c)) + 1
            /\ Cardinality(Flagged(c) \cup {<<c, n>>}) \in Nat
        <5>1. IsFiniteSet(Flagged(c) \cup {<<c, n>>}) BY <2>1, FS_AddElement
        <5>2. Cardinality(Flagged(c) \cup {<<c, n>>}) \in {Cardinality(Flagged(c)), Cardinality(Flagged(c)) + 1}
          BY <2>1, FS_AddElement
        <5> QED BY <2>3, <5>1, <5>2
      <4>3. /\ IsFiniteSet(Flagged(c)') /\ Cardinality(Flagged(c)') <= Cardinality(Flagged(c) \cup {<<c, n>>})
        BY <4>1, <4>2, FS_Subset
      <4>4. Cardinality(Flagged(c)') \in Nat BY <4>3, FS_CardinalityType
      <4>5. Cardinality(Flagged(c)') <= Cardinality(Flagged(c)) + 1 BY ONLY <2>3, <4>2, <4>3, <4>4
      <4> QED BY ONLY <4>3, <4>4, <4>5
    <3>6. Counted(Flagged(c)', n, m, x + 1)
      <4> HIDE StepFacts
      <4> QED BY <2>1, <2>3, <2>7, <3>4, CountedMore
    <3>7. call'[c].row.line - 1 = n BY <2>1, <3>1
    <3>8. Counted(Flagged(c)', call'[c].row.line - 1, call'[c].row.matched, call'[c].row.exceptions)
      BY <3>1, <3>6, <3>7 DEF Counted
    <3>9. call'[c].row.line \in 1 .. Len(File) + 1
      <4>1. n + 1 \in 1 .. Len(File) + 1 BY ONLY <2>1, <2>2
      <4> QED BY <3>1, <4>1, Zenon
    <3> QED BY <2>0, <2>1, <3>1, <3>2, <3>3, <3>4, <3>8, <3>9, OwnRun
  <2> QED BY <2>5, <2>6, <2>7, <2>8
<1>4. CASE EndOfFile(c)
  <2> PICK n, m, x : n = call[c].row.line /\ m = call[c].row.matched /\ x = call[c].row.exceptions OBVIOUS
  <2>0. /\ call[c].pc = "readLine" /\ Req(c).op = "reconcile" /\ c \in DOMAIN office.runs /\ n > Len(File)
        /\ office' = FinishRun(c, m, x, "completed") /\ Finish(c, TRUE)
    BY <1>0, <1>4 DEF EndOfFile, At, ReconCall
  <2>1. n \in 1 .. Len(File) + 1 /\ Len(File) \in Nat /\ Counted(Flagged(c), n - 1, m, x) /\ IsFiniteSet(Flagged(c))
    BY <1>0, <2>0, OfficeAssumption DEF ReconCall
  <2>2. n - 1 = Len(File) BY <2>0, <2>1
  <2>3. call'[c].pc = "done" BY <1>0, <2>0, StepToFacts DEF Finish
  <2>4. /\ office'.exceptions = office.exceptions /\ DOMAIN office'.runs = DOMAIN office.runs
        /\ \A r \in DOMAIN office.runs : /\ r # c => office'.runs[r] = office.runs[r]
                                         /\ office'.runs[r].date = office.runs[r].date
        /\ DOMAIN office'.runs[c] = {"date", "matched", "exceptions", "status"}
        /\ office'.runs[c].matched = m /\ office'.runs[c].exceptions = x /\ office'.runs[c].status = "completed"
    BY <2>0, FinishedRun
  <2>5. \A r : Flagged(r)' = Flagged(r) BY <2>4 DEF Flagged
  <2>6. Counted(Flagged(c)', Len(File), office'.runs[c].matched, office'.runs[c].exceptions)
    BY <2>1, <2>2, <2>4, <2>5 DEF Counted
  <2>7. \A e \in DOMAIN office'.exceptions :
          /\ DOMAIN office'.exceptions[e] = {"ref", "type", "status", "assigned"}
          /\ office'.exceptions[e].assigned # None => office'.exceptions[e].status # "open"
    BY <2>4 DEF ReconInv
  <2>8. IsFiniteSet(Flagged(c)') BY <2>1, <2>5
  <2>9. call'[c].pc \notin {"new", "openFile", "readLine"} BY <2>3
  <2>10. OwnStep(c) OBVIOUS
  <2> QED BY ONLY <2>0, <2>3, <2>4, <2>5, <2>6, <2>7, <2>8, <2>9, <2>10, OwnRun, RecordBase, ReconInv, c \in Calls
<1>5. CASE HandleAssign(c) \/ HandleInvestigate(c) \/ HandleResolve(c) \/ HandleEscalate(c)
  <2> DEFINE e == Req(c).id
  <2>0. Req(c).op # "reconcile"
    BY <1>5 DEF HandleAssign, HandleInvestigate, HandleResolve, HandleEscalate, OnException, Admitted, Begins
  <2>1. \/ office' = office
        \/ office' = [office EXCEPT !.exceptions[e].assigned = Req(c).to, !.exceptions[e].status = "investigating"]
        \/ \E outcome \in {"investigating", "resolved", "escalated"} : office' = [office EXCEPT !.exceptions[e].status = outcome]
    BY <1>5 DEF HandleAssign, HandleInvestigate, HandleResolve, HandleEscalate, OnException, AssignException,
                UpdateExceptionStatus, EscalateException
  <2>2. /\ office'.runs = office.runs /\ DOMAIN office'.exceptions = DOMAIN office.exceptions
        /\ \A y \in DOMAIN office.exceptions :
             /\ DOMAIN office'.exceptions[y] = {"ref", "type", "status", "assigned"}
             /\ office'.exceptions[y].assigned # None => office'.exceptions[y].status # "open"
    <3>1. CASE office' = office BY <3>1 DEF ReconInv
    <3>2. CASE office' = [office EXCEPT !.exceptions[e].assigned = Req(c).to, !.exceptions[e].status = "investigating"]
      <4>1. /\ office'.runs = office.runs
            /\ office'.exceptions = [office.exceptions EXCEPT ![e].assigned = Req(c).to, ![e].status = "investigating"]
        BY <3>2, BaseOf DEF OfficeTables
      <4>2. \A y \in DOMAIN office.exceptions : DOMAIN office.exceptions[y] = {"ref", "type", "status", "assigned"}
        BY DEF ReconInv
      <4>3. \A y \in DOMAIN office.exceptions : y # e => office'.exceptions[y] = office.exceptions[y] BY <4>1
      <4>4. e \in DOMAIN office.exceptions =>
              /\ DOMAIN office'.exceptions[e] = {"ref", "type", "status", "assigned"}
              /\ office'.exceptions[e].status = "investigating"
        BY <4>1, <4>2
      <4> QED BY <4>1, <4>2, <4>3, <4>4 DEF ReconInv
    <3>3. ASSUME NEW outcome \in {"investigating", "resolved", "escalated"},
                 office' = [office EXCEPT !.exceptions[e].status = outcome]
          PROVE  /\ office'.runs = office.runs /\ DOMAIN office'.exceptions = DOMAIN office.exceptions
                 /\ \A y \in DOMAIN office.exceptions :
                      /\ DOMAIN office'.exceptions[y] = {"ref", "type", "status", "assigned"}
                      /\ office'.exceptions[y].assigned # None => office'.exceptions[y].status # "open"
      <4>1. office'.runs = office.runs /\ office'.exceptions = [office.exceptions EXCEPT ![e].status = outcome]
        BY <3>3, BaseOf DEF OfficeTables
      <4>2. \A y \in DOMAIN office.exceptions : y # e => office'.exceptions[y] = office.exceptions[y] BY <4>1
      <4>3. e \in DOMAIN office.exceptions =>
              /\ DOMAIN office'.exceptions[e] = {"ref", "type", "status", "assigned"}
              /\ office'.exceptions[e].status # "open"
        BY <3>3, <4>1 DEF ReconInv
      <4> QED BY <4>1, <4>2, <4>3 DEF ReconInv
    <3> QED BY <2>1, <3>1, <3>2, <3>3
  <2> QED BY <2>0, <2>2, OpsKept, ReconFrame
<1>6. CASE ~Reconciles(c)
  <2>1. /\ office'.runs = office.runs /\ office'.exceptions = office.exceptions
        /\ Req(c).op # "reconcile" \/ call'[c].pc = "failed"
    BY <1>6, StepEffect DEF Works, DirectoryOps, CustomersOps, StaffOps, OfficeBut, OfficeTables, Fails
  <2> QED BY <2>1, OpsKept, ReconFrame DEF ReconInv
<1> QED BY <1>1, <1>2, <1>3, <1>4, <1>5, <1>6 DEF Reconciles
-----------------------------------------------------------------------------
(* Cards. *)

CardColumns == {"user", "status", "limits", "toggles"}

LEMMA AskedStays ==
  ASSUME NEW c \in Calls, OwnStep(c), call[c].pc # "done", NEW id, NEW column, CardAsAsked(id, column),
         db'.cards[id][column] = db.cards[id][column]
  PROVE  CardAsAsked(id, column)'
<1>1. CASE db.cards[id][column] = CustomerOpening.cards[id][column] BY <1>1 DEF CardAsAsked
<1>2. ASSUME NEW d \in Calls, call[d].pc = "done", ColumnOf(d) = column, Req(d).id = id, Req(d).value = db.cards[id][column],
             Req(d).op # "adminCard" => call[d].user = CustomerOpening.cards[id].user
      PROVE  CardAsAsked(id, column)'
  <2>1. d \in Calls' /\ call'[d] = call[d] /\ Req(d)' = Req(d) BY <1>2, Solo
  <2>2. ColumnOf(d)' = ColumnOf(d) BY <2>1 DEF ColumnOf
  <2> QED BY <1>2, <2>1, <2>2 DEF CardAsAsked
<1> QED BY <1>1, <1>2 DEF CardAsAsked

LEMMA CardsFrame ==
  ASSUME RecordBase, CardsInv, NEW c \in Calls, OwnStep(c), call[c].pc \notin {"done", "failed"},
         \A id \in DOMAIN CustomerOpening.cards : id \in DOMAIN db'.cards /\ db'.cards[id] = db.cards[id],
         call'[c].pc = "writeCard" =>
           \A id \in DOMAIN CustomerOpening.cards : Req(c).id = id => call'[c].user = CustomerOpening.cards[id].user
  PROVE  CardsInv'
<1>1. ASSUME NEW id \in DOMAIN CustomerOpening.cards, NEW column \in {"status", "limits", "toggles"}
      PROVE  CardAsAsked(id, column)'
  <2>1. CardAsAsked(id, column) BY DEF CardsInv, CardsAsAsked
  <2> QED BY <2>1, AskedStays
<1>2. CardsAsAsked' BY <1>1 DEF CardsAsAsked
<1>3. \A id \in DOMAIN CustomerOpening.cards :
        /\ id \in DOMAIN db'.cards /\ DOMAIN db'.cards[id] = CardColumns
        /\ db'.cards[id].user = CustomerOpening.cards[id].user
  BY DEF CardsInv, CardColumns
<1>4. \A id \in DOMAIN CustomerOpening.cards : \A d \in Calls' :
        call'[d].pc = "writeCard" /\ Req(d)'.id = id => call'[d].user = CustomerOpening.cards[id].user
  BY Solo DEF CardsInv
<1> QED BY <1>2, <1>3, <1>4 DEF CardsInv, CardColumns

\* One column of one card is written, as c asks.
LEMMA CardWritten ==
  ASSUME RecordBase, CardsInv, NEW c \in Calls, OwnStep(c), call[c].pc \notin {"done", "failed"}, call'[c].pc = "done",
         NEW column \in {"status", "limits", "toggles"}, ColumnOf(c) = column,
         db' = UpdateCard(Req(c).id, column, Req(c).value),
         \A id \in DOMAIN CustomerOpening.cards :
           Req(c).id = id /\ Req(c).op # "adminCard" => call'[c].user = CustomerOpening.cards[id].user
  PROVE  CardsInv'
<1> PICK k, v : k = Req(c).id /\ v = Req(c).value OBVIOUS
<1>1. db'.cards = [db.cards EXCEPT ![k][column] = v] BY BaseOf DEF UpdateCard, Tables
<1>2. DOMAIN db'.cards = DOMAIN db.cards /\ \A y \in DOMAIN db.cards : y # k => db'.cards[y] = db.cards[y] BY <1>1
<1>3. ASSUME k \in DOMAIN CustomerOpening.cards
      PROVE  /\ DOMAIN db'.cards[k] = CardColumns /\ db'.cards[k].user = db.cards[k].user /\ db'.cards[k][column] = v
             /\ \A f \in CardColumns : f # column => db'.cards[k][f] = db.cards[k][f]
  <2>1. k \in DOMAIN db.cards /\ DOMAIN db.cards[k] = CardColumns BY <1>3 DEF CardsInv, CardColumns
  <2>2. db'.cards[k] = [db.cards[k] EXCEPT ![column] = v] BY <1>1, <2>1
  <2>3. column \in CardColumns /\ "user" \in CardColumns /\ column # "user" BY DEF CardColumns
  <2> QED BY <2>1, <2>2, <2>3
<1>4. ASSUME NEW id \in DOMAIN CustomerOpening.cards, NEW f \in {"status", "limits", "toggles"}
      PROVE  CardAsAsked(id, f)'
  <2>1. CardAsAsked(id, f) /\ f \in CardColumns /\ id \in DOMAIN db.cards BY DEF CardsInv, CardsAsAsked, CardColumns
  <2>2. CASE id # k \/ f # column
    <3>1. db'.cards[id][f] = db.cards[id][f] BY <1>2, <1>3, <2>1, <2>2
    <3> QED BY <2>1, <3>1, AskedStays
  <2>3. CASE id = k /\ f = column
    <3>1. c \in Calls' /\ Req(c)' = Req(c) BY Solo
    <3>2. ColumnOf(c)' = column BY <3>1 DEF ColumnOf
    <3>3. Req(c)'.id = id /\ Req(c)'.value = db'.cards[id][f] BY <1>3, <2>3, <3>1
    <3>4. Req(c)'.op # "adminCard" => call'[c].user = CustomerOpening.cards[id].user BY <2>3, <3>1
    <3> QED BY <2>3, <3>1, <3>2, <3>3, <3>4, Zenon DEF CardAsAsked
  <2> QED BY <2>2, <2>3
<1>5. CardsAsAsked' BY <1>4 DEF CardsAsAsked
<1>6. \A id \in DOMAIN CustomerOpening.cards :
        /\ id \in DOMAIN db'.cards /\ DOMAIN db'.cards[id] = CardColumns
        /\ db'.cards[id].user = CustomerOpening.cards[id].user
  BY <1>2, <1>3 DEF CardsInv, CardColumns
<1>7. \A id \in DOMAIN CustomerOpening.cards : \A d \in Calls' :
        call'[d].pc = "writeCard" /\ Req(d)'.id = id => call'[d].user = CustomerOpening.cards[id].user
  BY Solo DEF CardsInv
<1> QED BY <1>5, <1>6, <1>7 DEF CardsInv, CardColumns

LEMMA CardsKept == ASSUME RecordBase, CardsInv, NEW c \in Calls, StepOf(c) PROVE CardsInv'
<1> USE StepFacts
<1>0. SessionRows /\ c \in DOMAIN Ask /\ Req(c) = Ask[c] BY BaseOf DEF SessionRows, Calls, Req
<1>1. CASE CreateCard(c)
  <2>1. CASE db' = db
    <3>1. call'[c].pc # "writeCard" BY <1>0, <1>1, StepToFacts DEF CreateCard, Finish
    <3> QED BY <2>1, <3>1, CardsFrame DEF CardsInv
  <2>2. CASE db' # db
    <3>1. PICK row : db' = [db EXCEPT !.cards = Insert(@, c, row)] BY <1>1, <2>2 DEF CreateCard
    <3>2. db'.cards = Insert(db.cards, c, row) BY <3>1, BaseOf DEF Tables
    <3>3. c \notin DOMAIN CustomerOpening.cards BY <1>0, DirectoryAssumption
    <3>4. \A id \in DOMAIN CustomerOpening.cards : id \in DOMAIN db'.cards /\ db'.cards[id] = db.cards[id]
      BY <3>2, <3>3 DEF Insert, CardsInv
    <3>5. call'[c].pc # "writeCard" BY <1>0, <1>1, StepToFacts DEF CreateCard, Finish
    <3> QED BY <3>4, <3>5, CardsFrame
  <2> QED BY <2>1, <2>2
<1>2. CASE HandleCard(c)
  <2>1. db' = db BY <1>2 DEF HandleCard, customerVars
  <2>2. ASSUME call'[c].pc = "writeCard"
        PROVE  Req(c).id \in DOMAIN db.cards /\ db.cards[Req(c).id].user = TokenUser(c) /\ call'[c].user = TokenUser(c)
    <3>1. Finish(c, FALSE) => call'[c].pc = "failed" BY <1>0, StepToFacts DEF Finish
    <3>2. /\ Req(c).id \in DOMAIN db.cards /\ db.cards[Req(c).id].user = TokenUser(c)
          /\ StepWith(c, "writeCard", TokenUser(c))
      BY <1>2, <2>2, <3>1 DEF HandleCard
    <3> QED BY <1>0, <3>2, StepWithFacts
  <2> QED BY <2>1, <2>2, CardsFrame DEF CardsInv
<1>3. CASE WriteCard(c)
  <2>1. /\ call[c].pc = "writeCard" /\ db' = UpdateCard(Req(c).id, CardColumn[Req(c).op], Req(c).value) /\ Finish(c, TRUE)
    BY <1>3 DEF WriteCard, At
  <2>2. Req(c).op \in DOMAIN CardColumn BY <2>1, BaseOf, FreeSteps DEF OpAt
  <2>3. CardColumn[Req(c).op] \in {"status", "limits", "toggles"} /\ ColumnOf(c) = CardColumn[Req(c).op]
    BY <2>2 DEF CardColumn, ColumnOf
  <2>4. call'[c].pc = "done" /\ call'[c].user = call[c].user BY <1>0, <2>1, StepToFacts DEF Finish
  <2>5. \A id \in DOMAIN CustomerOpening.cards : Req(c).id = id => call'[c].user = CustomerOpening.cards[id].user
    BY <2>1, <2>4 DEF CardsInv
  <2> QED BY <2>1, <2>3, <2>4, <2>5, CardWritten
<1>4. CASE HandleAdminCard(c)
  <2>1. Req(c).op = "adminCard" BY <1>4 DEF HandleAdminCard, Admitted, Begins
  <2>2. CASE Req(c).id \in DOMAIN db.cards
    <3>1. db' = UpdateCard(Req(c).id, Req(c).column, Req(c).value) /\ Finish(c, TRUE)
      BY <1>4, <2>2 DEF HandleAdminCard
    <3>2. call'[c].pc = "done" BY <1>0, <3>1, StepToFacts DEF Finish
    <3>3. Req(c).column \in {"status", "limits", "toggles"} BY <1>0, <2>1, DirectoryAssumption
    <3>4. ColumnOf(c) = Req(c).column BY <2>1 DEF ColumnOf, CardColumn
    <3> QED BY <2>1, <3>1, <3>2, <3>3, <3>4, CardWritten
  <2>3. CASE Req(c).id \notin DOMAIN db.cards
    <3>1. db' = db /\ StepTo(c, "failed") BY <1>4, <2>3 DEF HandleAdminCard, Finish
    <3>2. call'[c].pc = "failed" BY <1>0, <3>1, StepToFacts
    <3> QED BY <3>1, <3>2, CardsFrame DEF CardsInv
  <2> QED BY <2>2, <2>3
<1>5. CASE ~CreateCard(c) /\ ~HandleCard(c) /\ ~WriteCard(c) /\ ~HandleAdminCard(c)
  <2>1. db'.cards = db.cards
    <3>1. CASE DirectoryStep(c)
      BY <1>5, <3>1, BaseOf DEF DirectoryStep, HandleCreateRecipient, SaveFromTransfer, UpsertRecipient, Upsert,
         HandleSetFavorite, UpdateFavorite, HandleArchive, ArchiveRow, CreateBeneficiary, DeleteBeneficiary, customerVars, Tables
    <3>2. CASE Customers(c)
      BY <1>5, <3>2, BaseOf DEF Customers, HandleFreeze, HandleUnfreeze, HandleKYCOverride, OnCustomer, FreezeUser,
         UnfreezeUser, UpdateKYCLevel, HandleCreateFlag, HandleResolveFlag, ResolveFlag, customerVars, Tables
    <3>3. CASE ~DirectoryStep(c) /\ ~Customers(c) BY <3>3, StepEffect DEF DbBut, Tables, Fails
    <3> QED BY <3>1, <3>2, <3>3
  <2>2. call'[c].pc # "writeCard"
    <3>1. call'[c].pc = "writeCard" => Req(c).op \in DOMAIN CardColumn BY OpsKept, FreeSteps, Solo DEF OpsInv, OpAt
    <3>2. CASE DirectoryStep(c)
      <4>1. CASE UpsertRecipient(c)
        <5>1. call' = [call EXCEPT ![c].pc = "done", ![c].took = TRUE] BY <4>1 DEF UpsertRecipient
        <5>2. c \in DOMAIN call /\ {"pc", "took"} \subseteq DOMAIN call[c] BY <1>0 DEF SessionRows, Calls, Fields
        <5> QED BY <5>1, <5>2
      <4>2. CASE ~UpsertRecipient(c)
        <5>1. Req(c).op \in {"createRecipient", "saveRecipient", "favorite", "archive", "addBeneficiary", "deleteBeneficiary"}
          BY <1>5, <3>2, <4>2 DEF DirectoryStep, HandleCreateRecipient, SaveFromTransfer, HandleSetFavorite, HandleArchive,
             CreateBeneficiary, DeleteBeneficiary, Begins
        <5> QED BY <3>1, <5>1 DEF CardColumn
      <4> QED BY <4>1, <4>2
    <3>3. CASE ~DirectoryStep(c)
      BY <1>5, <3>1, <3>3, StepEffect DEF Works, Fails, CardColumn, StaffOps, CustomersOps, ReconcilesOps
    <3> QED BY <3>2, <3>3
  <2> QED BY <2>1, <2>2, CardsFrame DEF CardsInv
<1> QED BY <1>1, <1>2, <1>3, <1>4, <1>5
-----------------------------------------------------------------------------
(* Beneficiaries. *)

LEMMA BeneficiariesFrame ==
  ASSUME RecordBase, BeneficiariesInv, NEW c \in Calls, OwnStep(c), call[c].pc \notin {"done", "failed"}, SessionsLast,
         db'.beneficiaries = db.beneficiaries, Deleter(c)' => Deleter(c)
  PROVE  BeneficiariesInv'
<1>1. \A d \in Calls : Deleter(d)' => Deleter(d) BY Solo DEF Deleter
<1>2. \A d \in Calls' :
        /\ d \in DOMAIN db'.beneficiaries => call'[d].pc = "done"
        /\ Deleter(d)' =>
            /\ Req(d)'.token \in DOMAIN db'.sessions /\ Req(d)'.id \in DOMAIN db'.beneficiaries
            /\ db'.beneficiaries[Req(d)'.id].deleted = TRUE
            /\ db'.beneficiaries[Req(d)'.id].user = TokenUser(d)'
  BY <1>1, Solo DEF BeneficiariesInv, SessionsLast, TokenUser, GetByRefreshToken
<1>3. \A d, e \in Calls' : Deleter(d)' /\ Deleter(e)' /\ Req(d)'.id = Req(e)'.id => d = e
  BY <1>1, Solo DEF BeneficiariesInv
<1> QED BY <1>2, <1>3 DEF BeneficiariesInv

LEMMA BeneficiariesKept == ASSUME RecordBase, BeneficiariesInv, NEW c \in Calls, StepOf(c) PROVE BeneficiariesInv'
<1> USE StepFacts, SessionsStay
<1>0. SessionRows /\ c \in DOMAIN call /\ {"pc", "took"} \subseteq DOMAIN call[c] BY BaseOf DEF SessionRows, Calls, Fields
<1>1. CASE CreateBeneficiary(c)
  <2>1. Req(c).op = "addBeneficiary" /\ call[c].pc = "new" BY <1>1 DEF CreateBeneficiary, Begins
  <2>2. ~Deleter(c)' BY <2>1, Solo DEF Deleter
  <2>3. CASE db' = db BY <2>2, <2>3, BeneficiariesFrame
  <2>4. CASE db' # db
    <3>1. /\ Finish(c, TRUE)
          /\ db' = [db EXCEPT !.beneficiaries = Insert(@, c, [user |-> TokenUser(c), deleted |-> FALSE])]
      BY <1>1, <2>4 DEF CreateBeneficiary
    <3>2. PICK row : row = [user |-> TokenUser(c), deleted |-> FALSE] OBVIOUS
    <3>3. DOMAIN row = {"user", "deleted"} BY <3>2
    <3>4. db'.beneficiaries = Insert(db.beneficiaries, c, row) /\ db'.sessions = db.sessions BY <3>1, <3>2, BaseOf DEF Tables
    <3>5. c \notin DOMAIN db.beneficiaries BY <2>1 DEF BeneficiariesInv
    <3>6. /\ DOMAIN db'.beneficiaries = DOMAIN db.beneficiaries \cup {c} /\ db'.beneficiaries[c] = row
          /\ \A b \in DOMAIN db.beneficiaries : db'.beneficiaries[b] = db.beneficiaries[b]
      BY <3>4, <3>5 DEF Insert
    <3>7. call'[c].pc = "done" BY <1>0, <3>1, StepToFacts DEF Finish
    <3>8. \A d \in Calls : Deleter(d)' => Deleter(d) /\ d # c BY <2>2, Solo DEF Deleter
    <3>9. \A b \in DOMAIN db'.beneficiaries : DOMAIN db'.beneficiaries[b] = {"user", "deleted"}
      BY <3>3, <3>6 DEF BeneficiariesInv
    <3>10. \A d \in Calls' :
            /\ d \in DOMAIN db'.beneficiaries => call'[d].pc = "done"
            /\ Deleter(d)' =>
                /\ Req(d)'.token \in DOMAIN db'.sessions /\ Req(d)'.id \in DOMAIN db'.beneficiaries
                /\ db'.beneficiaries[Req(d)'.id].deleted = TRUE
                /\ db'.beneficiaries[Req(d)'.id].user = TokenUser(d)'
      BY <3>4, <3>6, <3>7, <3>8, Solo DEF BeneficiariesInv, TokenUser, GetByRefreshToken
    <3>11. \A d, e \in Calls' : Deleter(d)' /\ Deleter(e)' /\ Req(d)'.id = Req(e)'.id => d = e
      BY <3>8, Solo DEF BeneficiariesInv
    <3> QED BY <3>9, <3>10, <3>11 DEF BeneficiariesInv
  <2> QED BY <2>3, <2>4
<1>2. CASE DeleteBeneficiary(c)
  <2>1. Req(c).op = "deleteBeneficiary" /\ call[c].pc = "new" /\ Authenticated(c) BY <1>2 DEF DeleteBeneficiary, Begins
  <2>2. CASE SoftDelete(c) = {} /\ Finish(c, FALSE) /\ db' = db
    <3>1. call'[c].took = call[c].took BY <1>0, <2>2, StepToFacts DEF Finish
    <3>2. Deleter(c)' => Deleter(c) BY <3>1, Solo DEF Deleter
    <3> QED BY <2>2, <3>2, BeneficiariesFrame
  <2>3. ASSUME NEW b \in SoftDelete(c), db' = [db EXCEPT !.beneficiaries[b].deleted = TRUE],
               call' = [call EXCEPT ![c].pc = "done", ![c].took = TRUE]
        PROVE  BeneficiariesInv'
    <3>1. b \in DOMAIN db.beneficiaries /\ b = Req(c).id /\ db.beneficiaries[b] = [user |-> TokenUser(c), deleted |-> FALSE]
      BY <2>3 DEF SoftDelete
    <3>2. db.beneficiaries[b].deleted = FALSE /\ db.beneficiaries[b].user = TokenUser(c) BY <3>1
    <3>3. db'.beneficiaries = [db.beneficiaries EXCEPT ![b].deleted = TRUE] /\ db'.sessions = db.sessions
      BY <2>3, BaseOf DEF Tables
    <3>4. DOMAIN db.beneficiaries[b] = {"user", "deleted"} BY <3>1 DEF BeneficiariesInv
    <3>5. /\ DOMAIN db'.beneficiaries = DOMAIN db.beneficiaries
          /\ \A y \in DOMAIN db.beneficiaries : y # b => db'.beneficiaries[y] = db.beneficiaries[y]
          /\ db'.beneficiaries[b] = [db.beneficiaries[b] EXCEPT !.deleted = TRUE]
      BY <3>1, <3>3
    <3>6. /\ DOMAIN db'.beneficiaries[b] = {"user", "deleted"} /\ db'.beneficiaries[b].deleted = TRUE
          /\ db'.beneficiaries[b].user = TokenUser(c)
      BY <3>2, <3>4, <3>5
    <3>7. call'[c].pc = "done" /\ call'[c].took = TRUE BY <1>0, <2>3
    <3>8. \A d \in Calls : d # c => (Deleter(d)' => Deleter(d)) BY Solo DEF Deleter
    <3>9. \A d \in Calls : Deleter(d) => Req(d).id # b BY <3>2 DEF BeneficiariesInv
    <3>10. Req(c).token \in DOMAIN db.sessions BY <2>1, TokenUserIsUser
    <3>11. \A y \in DOMAIN db'.beneficiaries : DOMAIN db'.beneficiaries[y] = {"user", "deleted"}
      BY <3>5, <3>6 DEF BeneficiariesInv
    <3>12. \A d \in Calls : TokenUser(d)' = TokenUser(d) BY <3>3, Solo DEF TokenUser, GetByRefreshToken
    <3>13. \A d \in Calls' :
            /\ d \in DOMAIN db'.beneficiaries => call'[d].pc = "done"
            /\ Deleter(d)' =>
                /\ Req(d)'.token \in DOMAIN db'.sessions /\ Req(d)'.id \in DOMAIN db'.beneficiaries
                /\ db'.beneficiaries[Req(d)'.id].deleted = TRUE
                /\ db'.beneficiaries[Req(d)'.id].user = TokenUser(d)'
      <4>1. ASSUME NEW d \in Calls, d # c
            PROVE  /\ d \in DOMAIN db'.beneficiaries => call'[d].pc = "done"
                   /\ Deleter(d)' =>
                       /\ Req(d)'.token \in DOMAIN db'.sessions /\ Req(d)'.id \in DOMAIN db'.beneficiaries
                       /\ db'.beneficiaries[Req(d)'.id].deleted = TRUE
                       /\ db'.beneficiaries[Req(d)'.id].user = TokenUser(d)'
        BY <3>3, <3>5, <3>8, <3>9, <3>12, <4>1, Solo DEF BeneficiariesInv
      <4>2. /\ call'[c].pc = "done" /\ Req(c)'.token \in DOMAIN db'.sessions /\ Req(c)'.id \in DOMAIN db'.beneficiaries
            /\ db'.beneficiaries[Req(c)'.id].deleted = TRUE
            /\ db'.beneficiaries[Req(c)'.id].user = TokenUser(c)'
        BY <3>1, <3>3, <3>5, <3>6, <3>7, <3>10, <3>12, Solo
      <4> QED BY <4>1, <4>2, Solo
    <3>14. \A d, e \in Calls' : Deleter(d)' /\ Deleter(e)' /\ Req(d)'.id = Req(e)'.id => d = e
      BY <3>1, <3>8, <3>9, Solo DEF BeneficiariesInv
    <3> QED BY <3>11, <3>13, <3>14 DEF BeneficiariesInv
  <2> QED BY <1>2, <2>2, <2>3 DEF DeleteBeneficiary
<1>3. CASE ~CreateBeneficiary(c) /\ ~DeleteBeneficiary(c)
  <2>1. db'.beneficiaries = db.beneficiaries
    <3>1. CASE DirectoryStep(c)
      BY <1>3, <3>1, BaseOf DEF DirectoryStep, HandleCreateRecipient, SaveFromTransfer, UpsertRecipient, Upsert,
         HandleSetFavorite, UpdateFavorite, HandleArchive, ArchiveRow, CreateCard, HandleCard, WriteCard, UpdateCard,
         customerVars, Tables
    <3>2. CASE ~DirectoryStep(c) BY <3>2, StepEffect DEF DbBut, Tables, Fails
    <3> QED BY <3>1, <3>2
  <2>2. Deleter(c)' => Deleter(c)
    <3>1. CASE DirectoryStep(c)
      <4>1. Req(c).op # "deleteBeneficiary"
        <5>1. CASE UpsertRecipient(c) \/ WriteCard(c)
          <6>1. call[c].pc \in {"upsert", "writeCard"} BY <5>1 DEF UpsertRecipient, WriteCard, At
          <6> QED BY <6>1, BaseOf, FreeSteps DEF Placed, OpAt, CardColumn
        <5>2. CASE ~(UpsertRecipient(c) \/ WriteCard(c))
          BY <1>3, <3>1, <5>2 DEF DirectoryStep, HandleCreateRecipient, SaveFromTransfer, HandleSetFavorite, HandleArchive,
             CreateCard, HandleCard, CardColumn, Begins
        <5> QED BY <5>1, <5>2
      <4> QED BY <4>1, Solo DEF Deleter
    <3>2. CASE ~DirectoryStep(c)
      <4>1. Req(c).op # "deleteBeneficiary" \/ call'[c].took = call[c].took
        BY <3>2, StepEffect DEF Works, Fails, StaffOps, CustomersOps, ReconcilesOps
      <4> QED BY <4>1, Solo DEF Deleter
    <3> QED BY <3>1, <3>2
  <2> QED BY <2>1, <2>2, BeneficiariesFrame
<1> QED BY <1>1, <1>2, <1>3
-----------------------------------------------------------------------------
(* Recipients: a table of them, the rows and the requests of one identity. *)

Saving == {"createRecipient", "saveRecipient"}
RowsOf(table, i) == {x \in DOMAIN table : Identity(table[x]) = i}
CountsOf(table) == [x \in DOMAIN table |-> table[x].count]
TotalOf(table, i) == SumFunctionOnSet(CountsOf(table), RowsOf(table, i))
SaversOf(calls, i) == {c \in DOMAIN calls : calls[c].took /\ calls[c].ask.op \in Saving /\ Identity(calls[c].row) = i}
WholeTable(table) ==
  /\ IsFiniteSet(DOMAIN table)
  /\ \A x \in DOMAIN table : DOMAIN table[x] = RecipientColumns /\ table[x].count \in Int
DistinctTable(table) == \A x, y \in DOMAIN table : SameRecipient(table[x], table[y]) => x = y

LEMMA RowsFinite ==
  ASSUME NEW table, WholeTable(table), NEW i
  PROVE  /\ IsFiniteSet(RowsOf(table, i)) /\ TotalOf(table, i) \in Int
         /\ \A x \in RowsOf(table, i) : x \in DOMAIN table /\ CountsOf(table)[x] = table[x].count /\ table[x].count \in Int
<1>1. RowsOf(table, i) \in SUBSET DOMAIN table BY DEF RowsOf
<1>2. IsFiniteSet(RowsOf(table, i)) BY <1>1, FS_Subset DEF WholeTable
<1>3. \A x \in RowsOf(table, i) : x \in DOMAIN table /\ CountsOf(table)[x] = table[x].count /\ table[x].count \in Int
  BY <1>1 DEF WholeTable, CountsOf
<1>4. TotalOf(table, i) \in Int BY <1>2, <1>3, SumType DEF TotalOf
<1> QED BY <1>2, <1>3, <1>4

LEMMA TotalsSame ==
  ASSUME NEW old, NEW new, DOMAIN new = DOMAIN old,
         \A x \in DOMAIN old : Identity(new[x]) = Identity(old[x]) /\ new[x].count = old[x].count
  PROVE  \A i : TotalOf(new, i) = TotalOf(old, i)
<1>1. CountsOf(new) = CountsOf(old) BY DEF CountsOf
<1>2. \A i : RowsOf(new, i) = RowsOf(old, i) BY DEF RowsOf
<1> QED BY <1>1, <1>2 DEF TotalOf

LEMMA TotalsInsert ==
  ASSUME NEW old, WholeTable(old), NEW id, id \notin DOMAIN old, NEW row, row.count = 1, NEW new, new = Insert(old, id, row)
  PROVE  \A i : TotalOf(new, i) = TotalOf(old, i) + IF i = Identity(row) THEN 1 ELSE 0
<1> SUFFICES ASSUME NEW i PROVE TotalOf(new, i) = TotalOf(old, i) + IF i = Identity(row) THEN 1 ELSE 0 OBVIOUS
<1>1. /\ DOMAIN new = DOMAIN old \cup {id} /\ new[id] = row /\ \A x \in DOMAIN old : new[x] = old[x] BY DEF Insert
<1>2. /\ IsFiniteSet(RowsOf(old, i)) /\ TotalOf(old, i) \in Int
      /\ \A x \in RowsOf(old, i) : x \in DOMAIN old /\ CountsOf(old)[x] = old[x].count /\ old[x].count \in Int
  BY RowsFinite
<1>3. /\ \A x \in RowsOf(old, i) : CountsOf(old)[x] \in Int /\ CountsOf(old)[x] = CountsOf(new)[x]
      /\ CountsOf(new)[id] = 1 /\ id \notin RowsOf(old, i)
  BY <1>1, <1>2 DEF CountsOf
<1>4. SumFunctionOnSet(CountsOf(new), RowsOf(old, i)) = TotalOf(old, i) BY <1>2, <1>3, SumSame DEF TotalOf
<1>5. CASE i = Identity(row)
  <2>1. RowsOf(new, i) = RowsOf(old, i) \cup {id} BY <1>1, <1>5 DEF RowsOf
  <2>2. \A x \in RowsOf(old, i) \cup {id} : CountsOf(new)[x] \in Int BY <1>3
  <2>3. SumFunctionOnSet(CountsOf(new), RowsOf(old, i) \cup {id})
          = SumFunctionOnSet(CountsOf(new), RowsOf(old, i)) + CountsOf(new)[id]
    BY <1>2, <1>3, <2>2, SumAdd
  <2> QED BY <1>3, <1>4, <1>5, <2>1, <2>3 DEF TotalOf
<1>6. CASE i # Identity(row)
  <2>1. RowsOf(new, i) = RowsOf(old, i) BY <1>1, <1>6 DEF RowsOf
  <2> QED BY <1>2, <1>4, <1>6, <2>1 DEF TotalOf
<1> QED BY <1>5, <1>6

LEMMA TotalsUp ==
  ASSUME NEW old, WholeTable(old), NEW e \in DOMAIN old, NEW new, DOMAIN new = DOMAIN old,
         \A x \in DOMAIN old : x # e => new[x] = old[x],
         Identity(new[e]) = Identity(old[e]), new[e].count = old[e].count + 1
  PROVE  \A i : TotalOf(new, i) = TotalOf(old, i) + IF i = Identity(old[e]) THEN 1 ELSE 0
<1> SUFFICES ASSUME NEW i PROVE TotalOf(new, i) = TotalOf(old, i) + IF i = Identity(old[e]) THEN 1 ELSE 0 OBVIOUS
<1>1. /\ IsFiniteSet(RowsOf(old, i)) /\ TotalOf(old, i) \in Int
      /\ \A x \in RowsOf(old, i) : x \in DOMAIN old /\ CountsOf(old)[x] = old[x].count /\ old[x].count \in Int
  BY RowsFinite
<1>2. RowsOf(new, i) = RowsOf(old, i) BY DEF RowsOf
<1>3. \A x \in DOMAIN old : CountsOf(new)[x] = new[x].count /\ CountsOf(old)[x] = old[x].count BY DEF CountsOf
<1>4. old[e].count \in Int /\ new[e].count \in Int BY DEF WholeTable
<1>5. CASE i = Identity(old[e])
  <2>1. e \in RowsOf(old, i) BY <1>5 DEF RowsOf
  <2>2. \A x \in RowsOf(old, i) : CountsOf(old)[x] \in Int /\ CountsOf(new)[x] \in Int BY <1>1, <1>3, <1>4
  <2>3. \A x \in RowsOf(old, i) \ {e} : CountsOf(new)[x] = CountsOf(old)[x] BY <1>1, <1>3
  <2>4. SumFunctionOnSet(CountsOf(new), RowsOf(old, i))
          = SumFunctionOnSet(CountsOf(old), RowsOf(old, i)) - CountsOf(old)[e] + CountsOf(new)[e]
    BY <1>1, <2>1, <2>2, <2>3, SumChange
  <2>5. CountsOf(old)[e] \in Int /\ CountsOf(new)[e] = CountsOf(old)[e] + 1 BY <1>3, <1>4
  <2>6. TotalOf(new, i) = TotalOf(old, i) - CountsOf(old)[e] + CountsOf(new)[e] BY <1>2, <2>4 DEF TotalOf
  <2> QED BY <1>1, <1>5, <2>5, <2>6
<1>6. CASE i # Identity(old[e])
  <2>1. \A x \in RowsOf(old, i) : x # e BY <1>6 DEF RowsOf
  <2>2. \A x \in RowsOf(old, i) : CountsOf(old)[x] \in Int /\ CountsOf(old)[x] = CountsOf(new)[x] BY <1>1, <1>3, <2>1
  <2>3. SumFunctionOnSet(CountsOf(old), RowsOf(old, i)) = SumFunctionOnSet(CountsOf(new), RowsOf(old, i))
    BY <1>1, <2>2, SumSame
  <2> QED BY <1>1, <1>2, <1>6, <2>3 DEF TotalOf
<1> QED BY <1>5, <1>6

\* One request more has saved its recipient.
LEMMA SaversUp ==
  ASSUME NEW old, IsFiniteSet(DOMAIN old), NEW c \in DOMAIN old, NEW new, DOMAIN new = DOMAIN old,
         \A d \in DOMAIN old : d # c => new[d] = old[d],
         ~old[c].took, new[c].took = TRUE, new[c].ask = old[c].ask, new[c].row = old[c].row, old[c].ask.op \in Saving
  PROVE  \A i : /\ Cardinality(SaversOf(old, i)) \in Nat
                /\ Cardinality(SaversOf(new, i)) = Cardinality(SaversOf(old, i)) + IF i = Identity(old[c].row) THEN 1 ELSE 0
<1> TAKE i
<1>1. SaversOf(old, i) \in SUBSET DOMAIN old BY DEF SaversOf
<1>2. IsFiniteSet(SaversOf(old, i)) /\ Cardinality(SaversOf(old, i)) \in Nat BY <1>1, FS_Subset, FS_CardinalityType
<1>3. CASE i = Identity(old[c].row)
  <2>1. SaversOf(new, i) = SaversOf(old, i) \cup {c} BY <1>3 DEF SaversOf
  <2>2. c \notin SaversOf(old, i) BY DEF SaversOf
  <2> QED BY <1>2, <1>3, <2>1, <2>2, FS_AddElement
<1>4. CASE i # Identity(old[c].row)
  <2>1. SaversOf(new, i) = SaversOf(old, i) BY <1>4 DEF SaversOf
  <2> QED BY <1>2, <1>4, <2>1
<1> QED BY <1>3, <1>4

LEMMA SaversSame ==
  ASSUME NEW old, NEW c \in DOMAIN old, NEW new, DOMAIN new = DOMAIN old,
         \A d \in DOMAIN old : d # c => new[d] = old[d],
         old[c].ask.op \in Saving => ~old[c].took, new[c].ask.op \in Saving => ~new[c].took
  PROVE  \A i : SaversOf(new, i) = SaversOf(old, i)
BY DEF SaversOf

\* The invariant in these terms.
LEMMA RecipientsAsTable ==
  ASSUME RecipientsInv
  PROVE  /\ WholeTable(db.recipients) /\ DistinctTable(db.recipients) /\ IsFiniteSet(DOMAIN call)
         /\ \A i : TotalOf(db.recipients, i) = Cardinality(SaversOf(call, i))
<1>1. WholeTable(db.recipients) /\ DistinctTable(db.recipients) /\ IsFiniteSet(DOMAIN call)
  BY DEF RecipientsInv, RecipientsAreDistinct, WholeTable, DistinctTable, Calls
<1>2. ASSUME NEW i PROVE TotalOf(db.recipients, i) = Cardinality(SaversOf(call, i))
  <2>1. CASE RowsOf(db.recipients, i) = {}
    <3>1. SaversOf(call, i) = {}
      <4>1. \A d \in Calls : Saves(d) /\ call[d].took => Identity(call[d].row) # i
        BY <2>1 DEF RecipientsInv, RecipientCall, RowsOf
      <4> QED BY <4>1 DEF SaversOf, Saves, Saving, Req, Calls
    <3>2. TotalOf(db.recipients, i) = 0 BY <2>1, SumEmpty DEF TotalOf
    <3> QED BY <3>1, <3>2, FS_EmptySet
  <2>2. ASSUME NEW x \in RowsOf(db.recipients, i) PROVE TotalOf(db.recipients, i) = Cardinality(SaversOf(call, i))
    <3>1. x \in DOMAIN db.recipients /\ Identity(db.recipients[x]) = i BY <2>2 DEF RowsOf
    <3>2. SumFunctionOnSet(Counts, Alike(db.recipients[x])) = Cardinality(SavedAs(db.recipients[x]))
      BY <3>1 DEF RecipientsInv, RecipientsAreDistinct
    <3>3. Counts = CountsOf(db.recipients) BY DEF Counts, CountsOf
    <3>4. Alike(db.recipients[x]) = RowsOf(db.recipients, i) BY <3>1 DEF Alike, RowsOf
    <3>5. SavedAs(db.recipients[x]) = SaversOf(call, i) BY <3>1 DEF SavedAs, SaversOf, Saving, Req, Calls
    <3> QED BY <3>2, <3>3, <3>4, <3>5 DEF TotalOf
  <2> QED BY <2>1, <2>2
<1> QED BY <1>1, <1>2

LEMMA RecipientsFromTable ==
  ASSUME WholeTable(db'.recipients), DistinctTable(db'.recipients), IsFiniteSet(DOMAIN call'),
         \A i : TotalOf(db'.recipients, i) = Cardinality(SaversOf(call', i)),
         \A d \in Calls' : RecipientCall(d)'
  PROVE  RecipientsInv'
<1>1. ASSUME NEW x \in DOMAIN db'.recipients
      PROVE  SumFunctionOnSet(Counts', Alike(db.recipients[x])') = Cardinality(SavedAs(db.recipients[x])')
  <2>1. PICK i : i = Identity(db'.recipients[x]) OBVIOUS
  <2>2. Counts' = CountsOf(db'.recipients) BY DEF Counts, CountsOf
  <2>3. Alike(db.recipients[x])' = RowsOf(db'.recipients, i) BY <2>1 DEF Alike, RowsOf
  <2>4. SavedAs(db.recipients[x])' = SaversOf(call', i) BY <2>1 DEF SavedAs, SaversOf, Saving, Req, Calls
  <2>5. SumFunctionOnSet(CountsOf(db'.recipients), RowsOf(db'.recipients, i)) = Cardinality(SaversOf(call', i))
    BY DEF TotalOf
  <2> QED BY <2>2, <2>3, <2>4, <2>5
<1>2. RecipientsAreDistinct' BY <1>1 DEF RecipientsAreDistinct, DistinctTable
<1>3. /\ IsFiniteSet(DOMAIN db'.recipients)
      /\ \A x \in DOMAIN db'.recipients : DOMAIN db'.recipients[x] = RecipientColumns /\ db'.recipients[x].count \in Int
  BY DEF WholeTable
<1>4. IsFiniteSet(Calls') BY DEF Calls
<1> QED BY <1>2, <1>3, <1>4 DEF RecipientsInv

\* Identities and counts stay, and c saves nothing.
LEMMA RecipientsFrame ==
  ASSUME RecordBase, RecipientsInv, NEW c \in Calls, OwnStep(c), call[c].pc \notin {"done", "failed"},
         DOMAIN db'.recipients = DOMAIN db.recipients, DistinctTable(db'.recipients),
         \A x \in DOMAIN db.recipients :
           /\ DOMAIN db'.recipients[x] = RecipientColumns /\ db'.recipients[x].count = db.recipients[x].count
           /\ Identity(db'.recipients[x]) = Identity(db.recipients[x]),
         Saves(c) => ~call'[c].took,
         call'[c].pc = "upsert" => DOMAIN call'[c].row = RecipientColumns /\ call'[c].row.count = 1
  PROVE  RecipientsInv'
<1>0. /\ WholeTable(db.recipients) /\ IsFiniteSet(DOMAIN call)
      /\ \A i : TotalOf(db.recipients, i) = Cardinality(SaversOf(call, i))
  BY RecipientsAsTable
<1>1. WholeTable(db'.recipients) BY <1>0 DEF WholeTable
<1>2. \A i : TotalOf(db'.recipients, i) = TotalOf(db.recipients, i) BY TotalsSame
<1>3. /\ DOMAIN call' = DOMAIN call /\ \A d \in DOMAIN call : d # c => call'[d] = call[d]
      /\ call'[c].ask = call[c].ask /\ c \in DOMAIN call
  BY DEF OwnStep, Calls
<1>4. Saves(c) => ~call[c].took BY DEF RecipientsInv, RecipientCall
<1>5. \A i : SaversOf(call', i) = SaversOf(call, i) BY <1>3, <1>4, SaversSame DEF Saves, Saving, Req
<1>6. ASSUME NEW d \in Calls' PROVE RecipientCall(d)'
  <2>1. d \in Calls /\ RecipientCall(d) BY <1>3, <1>6 DEF RecipientsInv, Calls
  <2>2. CASE d = c
    <3>1. Saves(c)' => Saves(c) BY <1>3 DEF Saves, Req
    <3>2. Saves(c) => <<"recipient", c>> \notin DOMAIN db.recipients BY <2>1, <2>2 DEF RecipientCall
    <3> QED BY <2>2, <3>1, <3>2 DEF RecipientCall
  <2>3. CASE d # c
    <3>1. call'[d] = call[d] BY <1>3, <2>1, <2>3 DEF Calls
    <3>2. Saves(d)' => Saves(d) BY <3>1 DEF Saves, Req
    <3> QED BY <2>1, <3>1, <3>2 DEF RecipientCall
  <2> QED BY <2>2, <2>3
<1> QED BY <1>0, <1>1, <1>2, <1>3, <1>5, <1>6, RecipientsFromTable

\* c saves its recipient, whether its row is new or counted up.
LEMMA RecipientSaved ==
  ASSUME RecordBase, RecipientsInv, NEW c \in Calls, OwnStep(c), call[c].pc = "upsert",
         WholeTable(db'.recipients), DistinctTable(db'.recipients),
         DOMAIN db.recipients \subseteq DOMAIN db'.recipients,
         \A x \in DOMAIN db'.recipients : x \in DOMAIN db.recipients \/ x = <<"recipient", c>>,
         \A x \in DOMAIN db.recipients : Identity(db'.recipients[x]) = Identity(db.recipients[x]),
         NEW e \in DOMAIN db'.recipients, Identity(db'.recipients[e]) = Identity(call[c].row),
         \A i : TotalOf(db'.recipients, i) = TotalOf(db.recipients, i) + IF i = Identity(call[c].row) THEN 1 ELSE 0,
         call'[c].pc = "done", call'[c].took = TRUE, call'[c].row = call[c].row
  PROVE  RecipientsInv'
<1>0. /\ WholeTable(db.recipients) /\ IsFiniteSet(DOMAIN call)
      /\ \A i : TotalOf(db.recipients, i) = Cardinality(SaversOf(call, i))
  BY RecipientsAsTable
<1>1. /\ DOMAIN call' = DOMAIN call /\ \A d \in DOMAIN call : d # c => call'[d] = call[d]
      /\ call'[c].ask = call[c].ask /\ c \in DOMAIN call
  BY DEF OwnStep, Calls
<1>2. Saves(c) BY BaseOf DEF Placed, Saves
<1>3. ~call[c].took BY <1>2 DEF RecipientsInv, RecipientCall
<1>4. call[c].ask.op \in Saving BY <1>2 DEF Saves, Saving, Req
<1>5. \A i : Cardinality(SaversOf(call', i)) = Cardinality(SaversOf(call, i)) + IF i = Identity(call[c].row) THEN 1 ELSE 0
  <2>1. call'[c].took = TRUE /\ call'[c].row = call[c].row OBVIOUS
  <2>2. PICK p, q : p = call' /\ q = call OBVIOUS
  <2>3. /\ IsFiniteSet(DOMAIN q) /\ c \in DOMAIN q /\ DOMAIN p = DOMAIN q /\ \A d \in DOMAIN q : d # c => p[d] = q[d]
        /\ ~q[c].took /\ p[c].took = TRUE /\ p[c].ask = q[c].ask /\ p[c].row = q[c].row /\ q[c].ask.op \in Saving
    BY ONLY <1>0, <1>1, <1>3, <1>4, <2>1, <2>2
  <2>4. \A i : /\ Cardinality(SaversOf(q, i)) \in Nat
               /\ Cardinality(SaversOf(p, i)) = Cardinality(SaversOf(q, i)) + IF i = Identity(q[c].row) THEN 1 ELSE 0
    BY ONLY <2>3, SaversUp
  <2> QED BY ONLY <2>2, <2>4
<1>6. \A i : TotalOf(db'.recipients, i) = Cardinality(SaversOf(call', i)) BY <1>0, <1>5
<1>7. ASSUME NEW d \in Calls' PROVE RecipientCall(d)'
  <2>1. d \in Calls /\ RecipientCall(d) BY <1>1, <1>7 DEF RecipientsInv, Calls
  <2>2. CASE d = c BY <2>2 DEF RecipientCall
  <2>3. CASE d # c
    <3>1. call'[d] = call[d] BY <1>1, <2>1, <2>3 DEF Calls
    <3>2. Saves(d)' => Saves(d) BY <3>1 DEF Saves, Req
    <3>3. <<"recipient", d>> # <<"recipient", c>> BY <2>3
    <3> QED BY <2>1, <3>1, <3>2, <3>3 DEF RecipientCall
  <2> QED BY <2>2, <2>3
<1> QED BY <1>0, <1>1, <1>6, <1>7, RecipientsFromTable

LEMMA RecipientsKept == ASSUME RecordBase, SessionInv', RecipientsInv, NEW c \in Calls, StepOf(c) PROVE RecipientsInv'
<1> USE StepFacts
<1>0. /\ SessionRows /\ c \in DOMAIN call /\ {"pc", "took", "user", "row"} \subseteq DOMAIN call[c]
      /\ WholeTable(db.recipients) /\ DistinctTable(db.recipients)
  BY BaseOf, RecipientsAsTable DEF SessionRows, Calls, Fields
<1>1. CASE HandleCreateRecipient(c) \/ SaveFromTransfer(c)
  <2>1. db' = db /\ call[c].pc = "new" BY <1>1 DEF HandleCreateRecipient, SaveFromTransfer, Begins, customerVars
  <2>2. call[c].took = FALSE BY <2>1, BaseOf DEF Placed, SessionCall, SessionRows
  <2>3. CASE Finish(c, FALSE)
    <3>1. call'[c].pc = "failed" /\ call'[c].took = FALSE BY <1>0, <2>2, <2>3, StepToFacts DEF Finish
    <3> QED BY <1>0, <2>1, <3>1, RecipientsFrame DEF WholeTable
  <2>4. ASSUME NEW u, NEW type, NEW who,
               call' = [call EXCEPT ![c].pc = "upsert", ![c].user = u, ![c].row = NewRecipient(u, type, who)]
        PROVE  RecipientsInv'
    <3>1. PICK row : row = NewRecipient(u, type, who) OBVIOUS
    <3>2. DOMAIN row = RecipientColumns /\ row.count = 1 BY <3>1 DEF NewRecipient, RecipientColumns
    <3>3. call'[c].row = row BY <1>0, <2>4, <3>1
    <3>4. call'[c].took = FALSE BY <1>0, <2>2, <2>4
    <3> QED BY <1>0, <2>1, <3>2, <3>3, <3>4, RecipientsFrame DEF WholeTable
  <2> QED BY <1>1, <2>3, <2>4, Zenon DEF HandleCreateRecipient, SaveFromTransfer
<1>2. CASE UpsertRecipient(c)
  <2>0. PICK row, id : row = call[c].row /\ id = <<"recipient", c>> OBVIOUS
  <2>1. /\ call[c].pc = "upsert" /\ db' = Upsert(id, row)
        /\ call' = [call EXCEPT ![c].pc = "done", ![c].took = TRUE]
    BY <1>2, <2>0 DEF UpsertRecipient, At
  <2>2. call'[c].pc = "done" /\ call'[c].took = TRUE /\ call'[c].row = call[c].row BY <1>0, <2>1
  <2>3. DOMAIN row = RecipientColumns /\ row.count = 1 BY <2>0, <2>1 DEF RecipientsInv, RecipientCall
  <2>4. id \notin DOMAIN db.recipients
    <3>1. Saves(c) BY <2>1, BaseOf DEF Placed, Saves
    <3> QED BY <2>0, <2>1, <3>1 DEF RecipientsInv, RecipientCall
  <2>5. CASE {x \in DOMAIN db.recipients : SameRecipient(db.recipients[x], row)} = {}
    <3>1. db'.recipients = Insert(db.recipients, id, row) BY <2>1, <2>5, BaseOf DEF Upsert, Tables
    <3>2. /\ DOMAIN db'.recipients = DOMAIN db.recipients \cup {id} /\ db'.recipients[id] = row
          /\ \A x \in DOMAIN db.recipients : db'.recipients[x] = db.recipients[x]
      BY <2>4, <3>1 DEF Insert
    <3>3. WholeTable(db'.recipients)
      <4>1. IsFiniteSet(DOMAIN db'.recipients) BY <1>0, <3>2, FS_AddElement DEF WholeTable
      <4> QED BY <1>0, <2>3, <3>2, <4>1 DEF WholeTable
    <3>4. DistinctTable(db'.recipients)
      <4>1. \A x \in DOMAIN db.recipients : ~SameRecipient(db.recipients[x], row) BY <2>5
      <4>2. \A x \in DOMAIN db.recipients : ~SameRecipient(row, db.recipients[x]) BY <4>1 DEF SameRecipient
      <4> QED BY <1>0, <3>2, <4>1, <4>2 DEF DistinctTable
    <3>5. \A i : TotalOf(db'.recipients, i) = TotalOf(db.recipients, i) + IF i = Identity(row) THEN 1 ELSE 0
      <4>1. PICK old, new : old = db.recipients /\ new = db'.recipients OBVIOUS
      <4>2. WholeTable(old) /\ id \notin DOMAIN old /\ new = Insert(old, id, row) BY ONLY <1>0, <2>4, <3>1, <4>1
      <4>3. \A i : TotalOf(new, i) = TotalOf(old, i) + IF i = Identity(row) THEN 1 ELSE 0 BY ONLY <2>3, <4>2, TotalsInsert
      <4> QED BY ONLY <4>1, <4>3
    <3>6. OwnStep(c) OBVIOUS
    <3>7. /\ id \in DOMAIN db'.recipients /\ Identity(db'.recipients[id]) = Identity(call[c].row)
          /\ DOMAIN db.recipients \subseteq DOMAIN db'.recipients
          /\ \A x \in DOMAIN db'.recipients : x \in DOMAIN db.recipients \/ x = <<"recipient", c>>
          /\ \A x \in DOMAIN db.recipients : Identity(db'.recipients[x]) = Identity(db.recipients[x])
      BY <2>0, <3>2
    <3> QED BY ONLY <2>0, <2>1, <2>2, <3>3, <3>4, <3>5, <3>6, <3>7, RecipientSaved, RecordBase, RecipientsInv, c \in Calls
  <2>6. ASSUME NEW e \in DOMAIN db.recipients, SameRecipient(db.recipients[e], row) PROVE RecipientsInv'
    <3>0. \A x \in DOMAIN db.recipients : SameRecipient(db.recipients[x], row) => x = e
      <4>1. \A x \in DOMAIN db.recipients : SameRecipient(db.recipients[x], row) => SameRecipient(db.recipients[x], db.recipients[e])
        BY <2>6 DEF SameRecipient
      <4> QED BY <1>0, <4>1 DEF DistinctTable
    <3>1. {x \in DOMAIN db.recipients : SameRecipient(db.recipients[x], row)} = {e} BY <2>6, <3>0
    <3>2. db'.recipients = [x \in DOMAIN db.recipients |-> IF x \in {e} THEN CountedUp(db.recipients[x]) ELSE db.recipients[x]]
      <4>1. db' = [db EXCEPT !.recipients =
                     IF {x \in DOMAIN db.recipients : SameRecipient(db.recipients[x], row)} = {} THEN Insert(db.recipients, id, row)
                     ELSE [x \in DOMAIN db.recipients |->
                             IF x \in {y \in DOMAIN db.recipients : SameRecipient(db.recipients[y], row)}
                               THEN CountedUp(db.recipients[x]) ELSE db.recipients[x]]]
        BY <2>1 DEF Upsert
      <4>2. {e} # {} OBVIOUS
      <4> QED BY ONLY <3>1, <4>1, <4>2, BaseOf, RecordBase, c \in Calls DEF Tables
    <3>3. /\ DOMAIN db'.recipients = DOMAIN db.recipients
          /\ \A x \in DOMAIN db.recipients : x # e => db'.recipients[x] = db.recipients[x]
          /\ db'.recipients[e] = [db.recipients[e] EXCEPT !.count = @ + 1]
      BY <2>6, <3>2 DEF CountedUp
    <3>4. DOMAIN db.recipients[e] = RecipientColumns /\ db.recipients[e].count \in Int BY <1>0, <2>6 DEF WholeTable
    <3>5. /\ DOMAIN db'.recipients[e] = RecipientColumns /\ db'.recipients[e].count = db.recipients[e].count + 1
          /\ db'.recipients[e].owner = db.recipients[e].owner /\ db'.recipients[e].type = db.recipients[e].type
          /\ db'.recipients[e].who = db.recipients[e].who /\ db'.recipients[e].status = db.recipients[e].status
      BY <3>3, <3>4 DEF RecipientColumns
    <3>6. Identity(db'.recipients[e]) = Identity(db.recipients[e]) /\ Identity(db.recipients[e]) = Identity(row)
      BY <2>6, <3>5 DEF Identity, SameRecipient
    <3>7. WholeTable(db'.recipients)
      <4>1. db'.recipients[e].count \in Int BY ONLY <3>4, <3>5
      <4> QED BY ONLY <1>0, <2>6, <3>3, <3>5, <4>1 DEF WholeTable
    <3>8. DistinctTable(db'.recipients)
      <4>1. \A x, y \in DOMAIN db.recipients : SameRecipient(db'.recipients[x], db'.recipients[y])
                                                 => SameRecipient(db.recipients[x], db.recipients[y])
        BY <3>3, <3>5, Zenon DEF SameRecipient
      <4> QED BY <1>0, <3>3, <4>1 DEF DistinctTable
    <3>9. \A i : TotalOf(db'.recipients, i) = TotalOf(db.recipients, i) + IF i = Identity(row) THEN 1 ELSE 0
      <4>1. PICK old, new : old = db.recipients /\ new = db'.recipients OBVIOUS
      <4>2. /\ WholeTable(old) /\ e \in DOMAIN old /\ DOMAIN new = DOMAIN old /\ \A x \in DOMAIN old : x # e => new[x] = old[x]
            /\ Identity(new[e]) = Identity(old[e]) /\ new[e].count = old[e].count + 1 /\ Identity(old[e]) = Identity(row)
        BY ONLY <1>0, <2>6, <3>3, <3>5, <3>6, <4>1
      <4>3. \A i : TotalOf(new, i) = TotalOf(old, i) + IF i = Identity(old[e]) THEN 1 ELSE 0 BY ONLY <4>2, TotalsUp
      <4> QED BY ONLY <4>1, <4>2, <4>3
    <3>10. OwnStep(c) OBVIOUS
    <3>11. /\ e \in DOMAIN db'.recipients /\ Identity(db'.recipients[e]) = Identity(call[c].row)
           /\ DOMAIN db.recipients \subseteq DOMAIN db'.recipients
           /\ \A x \in DOMAIN db'.recipients : x \in DOMAIN db.recipients \/ x = <<"recipient", c>>
           /\ \A x \in DOMAIN db.recipients : Identity(db'.recipients[x]) = Identity(db.recipients[x])
      BY <2>0, <2>6, <3>3, <3>6
    <3> QED BY ONLY <2>0, <2>1, <2>2, <3>7, <3>8, <3>9, <3>10, <3>11, RecipientSaved, RecordBase, RecipientsInv, c \in Calls
  <2> QED BY <2>5, <2>6
<1>3. CASE HandleSetFavorite(c) \/ HandleArchive(c)
  <2>1. Req(c).op \in {"favorite", "archive"} /\ call[c].pc = "new" BY <1>3 DEF HandleSetFavorite, HandleArchive, Begins
  <2>2. ~Saves(c) BY <2>1 DEF Saves
  <2>3. call'[c].pc # "upsert" BY <1>0, <1>3, StepToFacts DEF HandleSetFavorite, HandleArchive, Finish
  <2>4. CASE db' = db BY <1>0, <2>2, <2>3, <2>4, RecipientsFrame DEF WholeTable
  <2>5. ASSUME NEW e \in DOMAIN db.recipients, db' = UpdateFavorite(e, Req(c).favorite) PROVE RecipientsInv'
    <3>1. db'.recipients = [db.recipients EXCEPT ![e].favorite = Req(c).favorite] BY <2>5, BaseOf DEF UpdateFavorite, Tables
    <3>2. DOMAIN db.recipients[e] = RecipientColumns BY <1>0, <2>5 DEF WholeTable
    <3>3. /\ DOMAIN db'.recipients = DOMAIN db.recipients
          /\ \A x \in DOMAIN db.recipients : x # e => db'.recipients[x] = db.recipients[x]
          /\ db'.recipients[e] = [db.recipients[e] EXCEPT !.favorite = Req(c).favorite]
      BY <2>5, <3>1
    <3>4. /\ DOMAIN db'.recipients[e] = RecipientColumns /\ db'.recipients[e].count = db.recipients[e].count
          /\ db'.recipients[e].owner = db.recipients[e].owner /\ db'.recipients[e].type = db.recipients[e].type
          /\ db'.recipients[e].who = db.recipients[e].who /\ db'.recipients[e].status = db.recipients[e].status
      BY <3>2, <3>3 DEF RecipientColumns
    <3>5. DistinctTable(db'.recipients)
      <4>1. \A x, y \in DOMAIN db.recipients : SameRecipient(db'.recipients[x], db'.recipients[y])
                                                 => SameRecipient(db.recipients[x], db.recipients[y])
        BY <3>3, <3>4, Zenon DEF SameRecipient
      <4> QED BY <1>0, <3>3, <4>1 DEF DistinctTable
    <3>6. \A x \in DOMAIN db.recipients :
            /\ DOMAIN db'.recipients[x] = RecipientColumns /\ db'.recipients[x].count = db.recipients[x].count
            /\ Identity(db'.recipients[x]) = Identity(db.recipients[x])
      BY <1>0, <3>3, <3>4 DEF WholeTable, Identity
    <3> QED BY <2>2, <2>3, <3>3, <3>5, <3>6, RecipientsFrame
  <2>6. ASSUME NEW e \in DOMAIN db.recipients, Archivable(e), db' = ArchiveRow(e) PROVE RecipientsInv'
    <3>1. db'.recipients = [db.recipients EXCEPT ![e].status = "archived"] BY <2>6, BaseOf DEF ArchiveRow, Tables
    <3>2. DOMAIN db.recipients[e] = RecipientColumns BY <1>0, <2>6 DEF WholeTable
    <3>3. /\ DOMAIN db'.recipients = DOMAIN db.recipients
          /\ \A x \in DOMAIN db.recipients : x # e => db'.recipients[x] = db.recipients[x]
          /\ db'.recipients[e] = [db.recipients[e] EXCEPT !.status = "archived"]
      BY <2>6, <3>1
    <3>4. /\ DOMAIN db'.recipients[e] = RecipientColumns /\ db'.recipients[e].count = db.recipients[e].count
          /\ db'.recipients[e].owner = db.recipients[e].owner /\ db'.recipients[e].type = db.recipients[e].type
          /\ db'.recipients[e].who = db.recipients[e].who
      BY <3>2, <3>3 DEF RecipientColumns
    <3>5. DistinctTable(db'.recipients)
      <4>1. \A y \in DOMAIN db.recipients : ~SameRecipient(db.recipients[y], db'.recipients[e])
        BY <2>6, <3>3 DEF Archivable
      <4>2. \A y \in DOMAIN db.recipients : ~SameRecipient(db'.recipients[e], db.recipients[y]) BY <4>1 DEF SameRecipient
      <4> QED BY <1>0, <3>3, <4>1, <4>2 DEF DistinctTable
    <3>6. \A x \in DOMAIN db.recipients :
            /\ DOMAIN db'.recipients[x] = RecipientColumns /\ db'.recipients[x].count = db.recipients[x].count
            /\ Identity(db'.recipients[x]) = Identity(db.recipients[x])
      BY <1>0, <3>3, <3>4 DEF WholeTable, Identity
    <3> QED BY <2>2, <2>3, <3>3, <3>5, <3>6, RecipientsFrame
  <2> QED BY <1>3, <2>4, <2>5, <2>6 DEF HandleSetFavorite, HandleArchive, Own
<1>4. CASE ~(HandleCreateRecipient(c) \/ SaveFromTransfer(c)) /\ ~UpsertRecipient(c) /\ ~(HandleSetFavorite(c) \/ HandleArchive(c))
  <2>1. db'.recipients = db.recipients
    <3>1. CASE DirectoryStep(c)
      BY <1>4, <3>1, BaseOf DEF DirectoryStep, CreateBeneficiary, DeleteBeneficiary, CreateCard, HandleCard, WriteCard,
         UpdateCard, customerVars, Tables
    <3>2. CASE ~DirectoryStep(c) BY <3>2, StepEffect DEF DbBut, Tables, Fails
    <3> QED BY <3>1, <3>2
  <2>2. ~Saves(c) \/ (call'[c].pc = "failed" /\ call'[c].took = call[c].took)
    <3>1. CASE DirectoryStep(c)
      <4>1. CASE WriteCard(c)
        <5>1. call[c].pc = "writeCard" BY <4>1 DEF WriteCard, At
        <5>2. Req(c).op \in DOMAIN CardColumn BY <5>1, BaseOf, FreeSteps DEF OpAt
        <5> QED BY <5>2 DEF Saves, CardColumn
      <4>2. CASE ~WriteCard(c)
        BY <1>4, <3>1, <4>2 DEF DirectoryStep, CreateBeneficiary, DeleteBeneficiary, CreateCard, HandleCard, CardColumn, Begins, Saves
      <4> QED BY <4>1, <4>2
    <3>2. CASE ~DirectoryStep(c)
      BY <3>2, StepEffect DEF Works, Fails, StaffOps, CustomersOps, ReconcilesOps, Saves
    <3> QED BY <3>1, <3>2
  <2>3. Saves(c) => ~call'[c].took BY <2>2 DEF RecipientsInv, RecipientCall
  <2>4. call'[c].pc # "upsert" \/ ~Saves(c) BY <2>2
  <2>5. call'[c].pc = "upsert" => Saves(c)
    <3>1. Placed(c)' BY Solo DEF SessionInv, SessionCalls, SessionCall
    <3> QED BY <3>1, Solo DEF Placed, Saves
  <2> QED BY <1>0, <2>1, <2>3, <2>4, <2>5, RecipientsFrame DEF WholeTable
<1> QED BY <1>1, <1>2, <1>3, <1>4
-----------------------------------------------------------------------------
(* All of the records. *)

LEMMA RecordStart == ASSUME BackOfficeInit PROVE RecordInv
<1>1. PICK g \in Groups :
        call = [c \in g |-> [pc |-> "new", ask |-> Ask[c], user |-> None, took |-> FALSE,
                             cut |-> {}, flying |-> {}, row |-> <<>>]]
  BY DEF BackOfficeInit, AccessInit
<1>2. db = CustomerOpening /\ office = OfficeOpening /\ wallets = DOMAIN db.users BY DEF BackOfficeInit, AccessInit
<1>3. \A c \in Calls : /\ c \in DOMAIN Ask /\ Req(c) = Ask[c] /\ call[c].took = FALSE /\ call[c].pc = "new" /\ call[c].user = None
  BY <1>1, AccessAssumption DEF Calls, Req
<1>4. SessionInv BY SessionStart
<1>5. DOMAIN office = OfficeTables BY <1>2, OfficeAssumption
<1>6. OpsInv BY <1>3 DEF OpsInv, OpAt
<1>7. RegistrationInv
  <2>1. RegistrationIsWhole BY <1>2, <1>3, CustomersAssumption DEF RegistrationIsWhole, None
  <2>2. \A c \in Calls : c \notin DOMAIN db.users BY <1>2, <1>3, CustomersAssumption
  <2> QED BY <1>3, <2>1, <2>2 DEF RegistrationInv
<1>8. LinksInv
  <2>1. \A c \in Calls : ~Linker(c) BY <1>3 DEF Linker
  <2>2. \A c \in Calls : Req(c).op = "linkTelegram" => Req(c).telegram # "none" BY <1>3, FormAssumption
  <2>3. \A u, v \in DOMAIN db.users : u # v /\ db.users[u].telegram # "none" => db.users[u].telegram # db.users[v].telegram
    BY <1>2, CustomersAssumption
  <2>4. \A k \in DOMAIN db.links : DOMAIN db.links[k] = {"user", "consumed"} BY <1>2, CustomersAssumption
  <2>5. \A u, v \in DOMAIN db.users : \A c \in Calls :
          (Req(c).op = "linkTelegram" /\ {u, v} \subseteq GetByTelegramID(Req(c).telegram)) => u = v
    BY <2>2, <2>3 DEF GetByTelegramID
  <2> QED BY <2>1, <2>4, <2>5 DEF LinksInv
<1>9. RecipientsInv
  <2>1. DOMAIN db.recipients = {} BY <1>2, DirectoryAssumption
  <2>2. IsFiniteSet(Calls) BY <1>1, DirectoryAssumption DEF Calls
  <2>3. RecipientsAreDistinct BY <2>1 DEF RecipientsAreDistinct
  <2>4. \A c \in Calls : RecipientCall(c) BY <1>3, <2>1 DEF RecipientCall
  <2>5. IsFiniteSet(DOMAIN db.recipients) BY <2>1, FS_EmptySet
  <2> QED BY <2>1, <2>2, <2>3, <2>4, <2>5 DEF RecipientsInv
<1>10. BeneficiariesInv BY <1>2, <1>3, DirectoryAssumption DEF BeneficiariesInv, Deleter
<1>11. CardsInv
  <2>1. CardsAsAsked BY <1>2 DEF CardsAsAsked, CardAsAsked
  <2> QED BY <1>2, <1>3, <2>1, DirectoryAssumption DEF CardsInv
<1>12. StaffInv
  <2>1. RowsAreOfOneWrite BY <1>2 DEF RowsAreOfOneWrite, OneWrite, Is
  <2>2. DeactivationSticks /\ LoginsCut BY <1>3 DEF DeactivationSticks, LoginsCut, Deactivator
  <2> QED BY <1>2, <1>3, <2>1, <2>2, OfficeAssumption DEF StaffInv
<1>16. WritersInv BY <1>3 DEF WritersInv, ChangesAreLostToOverlapsOnly, Writer, Wrote
<1>13. WordInv
  <2>1. StaffWordStands BY <1>2, <1>3, CustomersAssumption DEF StaffWordStands, None, KYCBasic
  <2> QED BY <1>3, <2>1 DEF WordInv
<1>14. FlagsInv
  <2>1. \A f \in DOMAIN office.flags :
          /\ DOMAIN office.flags[f] = {"user", "by", "resolver"} /\ office.flags[f].user \in DOMAIN db.users
          /\ office.flags[f].resolver \notin DOMAIN Ask
    BY <1>2, OfficeAssumption
  <2>2. \A c \in Calls : c \notin DOMAIN office.flags BY <1>2, <1>3, OfficeAssumption
  <2> QED BY <1>3, <2>1, <2>2 DEF FlagsInv
<1>15. ReconInv
  <2>1. \A r, q \in DOMAIN office.runs : office.runs[r].date = office.runs[q].date => r = q BY <1>2, OfficeAssumption
  <2>2. \A e \in DOMAIN office.exceptions :
          /\ DOMAIN office.exceptions[e] = {"ref", "type", "status", "assigned"} /\ e[1] \notin DOMAIN Ask
          /\ office.exceptions[e].assigned # None => office.exceptions[e].status # "open"
    BY <1>2, OfficeAssumption DEF None
  <2>3. \A c \in Calls : c \notin DOMAIN office.runs BY <1>2, <1>3, OfficeAssumption
  <2>4. \A c \in Calls : Flagged(c) = {} BY <1>3, <2>2 DEF Flagged
  <2>5. \A c \in Calls : ReconCall(c) BY <1>3, <2>3, <2>4, FS_EmptySet DEF ReconCall
  <2> QED BY <2>1, <2>2, <2>5 DEF ReconInv
<1> QED BY <1>4, <1>5, <1>6, <1>7, <1>8, <1>9, <1>10, <1>11, <1>12, <1>13, <1>14, <1>15, <1>16 DEF RecordInv

LEMMA RecordStutter == ASSUME RecordInv, UNCHANGED backOfficeVars PROVE RecordInv'
<1>1. db' = db /\ wallets' = wallets /\ call' = call /\ office' = office BY DEF backOfficeVars
<1>2. SessionInv' BY SessionNext DEF RecordInv
<1>3. Calls' = Calls /\ \A c \in Calls : Req(c)' = Req(c) BY <1>1 DEF Calls, Req
<1>4. DOMAIN office' = OfficeTables /\ OpsInv' BY <1>1, <1>3 DEF RecordInv, OpsInv
<1>5. RegistrationInv' BY <1>1, <1>3 DEF RecordInv, RegistrationInv, RegistrationIsWhole, GetByPhone
<1>6. LinksInv' BY <1>1, <1>3 DEF RecordInv, LinksInv, Linker, GetByTelegramID
<1>7. RecipientsInv'
  <2>1. /\ WholeTable(db'.recipients) /\ DistinctTable(db'.recipients) /\ IsFiniteSet(DOMAIN call')
        /\ \A i : TotalOf(db'.recipients, i) = Cardinality(SaversOf(call', i))
    BY <1>1, RecipientsAsTable DEF RecordInv
  <2>2. \A c \in Calls' : RecipientCall(c)' BY <1>1, <1>3 DEF RecordInv, RecipientsInv, RecipientCall, Saves
  <2> QED BY <2>1, <2>2, RecipientsFromTable
<1>8. BeneficiariesInv' BY <1>1, <1>3 DEF RecordInv, BeneficiariesInv, Deleter, TokenUser
<1>9. CardsInv'
  <2>1. \A c \in Calls : ColumnOf(c)' = ColumnOf(c) BY <1>3 DEF ColumnOf
  <2>2. CardsAsAsked' BY <1>1, <1>3, <2>1 DEF RecordInv, CardsInv, CardsAsAsked, CardAsAsked
  <2> QED BY <1>1, <1>3, <2>2 DEF RecordInv, CardsInv
<1>10. StaffInv'
  BY <1>1, <1>3 DEF RecordInv, StaffInv, DeactivationSticks, LoginsCut, Deactivator, LoggingIn, RowsAreOfOneWrite, OneWrite, Is
<1>14. WritersInv'
  <2>1. \A c, x : c \in Calls => (Wrote(c, x)' <=> Wrote(c, x)) /\ (Writer(c)' <=> Writer(c)) /\ New(c)' = New(c)
    BY <1>1, <1>3 DEF Wrote, Writer, New
  <2>2. \A d, c, x, f : d \in Calls /\ c \in Calls => (Overwrote(d, c, x, f)' <=> Overwrote(d, c, x, f))
    BY <1>1, <1>3, <2>1 DEF Overwrote, Overlap
  <2>3. ChangesAreLostToOverlapsOnly'
    BY <1>1, <1>3, <2>1, <2>2 DEF RecordInv, WritersInv, ChangesAreLostToOverlapsOnly, Reflects
  <2>4. (\A c \in Calls : Writer(c) =>
           /\ call[c].user \in DOMAIN office.staff /\ DOMAIN call[c].row = StaffColumns
           /\ \A d \in call[c].cut : d \in Calls /\ Wrote(d, call[c].user))'
    BY <1>1, <1>3, <2>1 DEF RecordInv, WritersInv
  <2>5. (\A c \in Calls : call[c].pc = "writeStaff" => \A f \in Columns :
           IF New(c)[f] # None THEN call[c].row[f] = New(c)[f]
           ELSE \A d \in call[c].cut : New(d)[f] # None =>
                  call[c].row[f] = New(d)[f] \/ \E e \in Calls \ {d} : Overwrote(e, d, call[c].user, f))'
    <3>1. \A c \in Calls : Writer(c) => \A d \in call[c].cut : d \in Calls BY DEF RecordInv, WritersInv
    <3>2. \A c \in Calls : call[c].pc = "writeStaff" => Writer(c) BY DEF RecordInv, OpsInv, OpAt, Writer
    <3> QED BY <1>1, <1>3, <2>1, <2>2, <3>1, <3>2 DEF RecordInv, WritersInv
  <2> QED BY <1>1, <1>3, <2>1, <2>3, <2>4, <2>5 DEF WritersInv
<1>11. WordInv' BY <1>1, <1>3 DEF RecordInv, WordInv, StaffWordStands
<1>12. FlagsInv' BY <1>1, <1>3 DEF RecordInv, FlagsInv
<1>13. ReconInv'
  <2>1. \A c : Flagged(c)' = Flagged(c) BY <1>1 DEF Flagged
  <2>2. \A c \in Calls' : ReconCall(c)' BY <1>1, <1>3, <2>1, OtherRun DEF RecordInv, ReconInv
  <2> QED BY <1>1, <2>2 DEF RecordInv, ReconInv
<1> QED BY <1>2, <1>4, <1>5, <1>6, <1>7, <1>8, <1>9, <1>10, <1>11, <1>12, <1>13, <1>14 DEF RecordInv

\* The record invariant: what every registration, link, recipient, beneficiary,
\* card, staff member, flag and run rests on between any two steps.
THEOREM RecordInvariance == BackOfficeSpec => []RecordInv
<1>1. ASSUME RecordInv, [BackOfficeNext]_backOfficeVars PROVE RecordInv'
  <2>1. CASE UNCHANGED backOfficeVars BY <1>1, <2>1, RecordStutter
  <2>2. ASSUME NEW c \in Calls, StepOf(c) PROVE RecordInv'
    <3>1. BackOfficeNext BY <2>2 DEF BackOfficeNext, StepOf
    <3>2. SessionInv' BY <1>1, <3>1, SessionNext DEF RecordInv
    <3>3. RecordBase BY <1>1 DEF RecordBase, RecordInv
    <3>4. OpsInv' /\ DOMAIN office' = OfficeTables BY <2>2, <3>3, OpsKept, StepFacts
    <3>5. RegistrationInv' /\ LinksInv' BY <1>1, <2>2, <3>2, <3>3, RegistrationKept, LinksKept DEF RecordInv
    <3>6. RecipientsInv' /\ BeneficiariesInv' /\ CardsInv'
      BY <1>1, <2>2, <3>2, <3>3, RecipientsKept, BeneficiariesKept, CardsKept DEF RecordInv
    <3>7. StaffInv' /\ WritersInv' /\ WordInv' /\ FlagsInv' /\ ReconInv'
      BY <1>1, <2>2, <3>3, StaffKept, WritersKept, WordKept, FlagsKept, ReconKept DEF RecordInv
    <3> QED BY <3>2, <3>4, <3>5, <3>6, <3>7 DEF RecordInv
  <2> QED BY <1>1, <2>1, <2>2 DEF BackOfficeNext, StepOf
<1> QED BY <1>1, RecordStart, PTL DEF BackOfficeSpec

LEMMA AtMostOne == ASSUME NEW S, \A x, y \in S : x = y PROVE Cardinality(S) <= 1
<1>1. S = {} => Cardinality(S) <= 1 BY FS_EmptySet
<1>2. ASSUME NEW x \in S PROVE Cardinality(S) <= 1
  <2>1. S = {x} BY <1>2
  <2> QED BY <2>1, FS_Singleton
<1> QED BY <1>1, <1>2

\* The unique indexes and the guarded UPDATEs of the repositories: whatever
\* requests of customers and staff overlap, fail or die, registrations are
\* whole, links bind once, recipients are counted, owners decide, staff rows
\* are of one write, lose changes to overlapping writes only and stay
\* deactivated, flags have one resolver and a completed run counts every line
\* that parses.
THEOREM RecordsTheorem == BackOfficeSpec => []RecordsAreKept
<1>1. RecordInv => RecordsAreKept
  <2> SUFFICES ASSUME RecordInv PROVE RecordsAreKept OBVIOUS
  <2>1. /\ RegistrationIsWhole /\ RecipientsAreDistinct /\ DeactivationSticks /\ RowsAreOfOneWrite
        /\ ChangesAreLostToOverlapsOnly /\ StaffWordStands
    BY DEF RecordInv, RegistrationInv, RecipientsInv, StaffInv, WritersInv, WordInv
  <2>2. LinksBindOnce
    <3>1. ASSUME NEW d \in Calls, Req(d).op = "linkTelegram" PROVE Cardinality(GetByTelegramID(Req(d).telegram)) <= 1
      <4>1. \A u, v \in GetByTelegramID(Req(d).telegram) : u = v
        <5>1. \A u \in GetByTelegramID(Req(d).telegram) : u \in DOMAIN db.users BY DEF GetByTelegramID
        <5> QED BY <3>1, <5>1 DEF RecordInv, LinksInv
      <4> QED BY <4>1, AtMostOne
    <3>2. ASSUME NEW k \in DOMAIN db.links
          PROVE  Cardinality({c \in Calls : Req(c).op = "linkTelegram" /\ Req(c).link = k /\ call[c].user # None}) <= 1
      <4> DEFINE binders == {c \in Calls : Req(c).op = "linkTelegram" /\ Req(c).link = k /\ call[c].user # None}
      <4>1. \A c, d \in binders : c = d BY DEF RecordInv, LinksInv, Linker
      <4> HIDE DEF binders
      <4>2. Cardinality(binders) <= 1 BY <4>1, AtMostOne
      <4> QED BY <4>2 DEF binders
    <3> QED BY <3>1, <3>2 DEF LinksBindOnce
  <2>3. OwnersDecide
    <3>1. ASSUME NEW b \in DOMAIN db.beneficiaries
          PROVE  LET deleters == {c \in Calls : call[c].took /\ Req(c).op = "deleteBeneficiary" /\ Req(c).id = b}
                 IN Cardinality(deleters) <= 1 /\ \A c \in deleters : TokenUser(c) = db.beneficiaries[b].user
      <4> DEFINE who == {c \in Calls : call[c].took /\ Req(c).op = "deleteBeneficiary" /\ Req(c).id = b}
      <4>1. \A c, d \in who : c = d BY DEF RecordInv, BeneficiariesInv, Deleter
      <4>2. \A c \in who : TokenUser(c) = db.beneficiaries[b].user BY DEF RecordInv, BeneficiariesInv, Deleter
      <4> HIDE DEF who
      <4>3. Cardinality(who) <= 1 BY <4>1, AtMostOne
      <4> QED BY <4>2, <4>3 DEF who
    <3>2. CardsAsAsked BY DEF RecordInv, CardsInv
    <3> QED BY <3>1, <3>2 DEF OwnersDecide
  <2>4. FlagsHaveOneResolver
    <3>1. \A c \in Calls : Req(c).op = "resolveFlag" =>
            (call[c].pc = "done" <=> Req(c).id \in DOMAIN office.flags /\ office.flags[Req(c).id].resolver = c)
      BY DEF RecordInv, FlagsInv
    <3>2. {f \in DOMAIN office.flags : office.flags[f].resolver = None} = ListFlags(DOMAIN db.users, {FALSE})
      BY DEF RecordInv, FlagsInv, ListFlags
    <3>3. CountOpen = Cardinality(ListFlags(DOMAIN db.users, {FALSE})) BY <3>2 DEF CountOpen
    <3> QED BY <3>1, <3>3 DEF FlagsHaveOneResolver
  <2>5. RunsCountEveryLine
    <3>1. \A r, q \in DOMAIN office.runs : office.runs[r].date = office.runs[q].date => r = q BY DEF RecordInv, ReconInv
    <3>2. ASSUME NEW r \in DOMAIN office.runs \cap Calls, office.runs[r].status = "completed"
          PROVE  /\ office.runs[r].matched + office.runs[r].exceptions = Cardinality(Readable(Len(File)))
                 /\ Cardinality({e \in DOMAIN office.exceptions : e[1] = r}) <= office.runs[r].exceptions
                 /\ office.runs[r].matched <= Cardinality({n \in 1 .. Len(File) :
                      File[n].ref \in DOMAIN ReceiptOf /\ ReceiptOf[File[n].ref] = File[n].cents})
      <4>1. ReconCall(r) BY <3>2 DEF RecordInv, ReconInv
      <4>2. Counted(Flagged(r), Len(File), office.runs[r].matched, office.runs[r].exceptions) BY <3>2, <4>1 DEF ReconCall
      <4> QED BY <4>2 DEF Counted, Flagged, Sound
    <3>3. \A e \in ListOpenExceptions : office.exceptions[e].assigned # None => office.exceptions[e].status # "open"
      BY DEF RecordInv, ReconInv, ListOpenExceptions
    <3>4. ASSUME NEW r \in DOMAIN office.runs \cap Calls, office.runs[r].status # "completed"
          PROVE  /\ office.runs[r].status = "running" => call[r].pc \in {"openFile", "readLine", "failed"}
                 /\ \A d \in Calls : Req(d).op = "reconcile" => call[d].pc # "done"
      <4>1. /\ office.runs[r].date = Today /\ call[r].pc # "done"
            /\ office.runs[r].status = "running" => call[r].pc \in {"openFile", "readLine", "failed"}
        BY <3>4 DEF RecordInv, ReconInv, ReconCall
      <4>2. \A d \in Calls : Req(d).op = "reconcile" /\ call[d].pc = "done" => d \in DOMAIN office.runs /\ office.runs[d].date = Today
        BY DEF RecordInv, ReconInv, ReconCall
      <4> QED BY <3>1, <3>4, <4>1, <4>2
    <3> QED BY <3>1, <3>2, <3>3, <3>4 DEF RunsCountEveryLine
  <2> QED BY <2>1, <2>2, <2>3, <2>4, <2>5 DEF RecordsAreKept
<1> QED BY <1>1, RecordInvariance, PTL

-----------------------------------------------------------------------------
(***************************************************************************)
(* Outbound transfers.                                                     *)
(***************************************************************************)
USE OwnerAssumption, AmountAssumption, OpeningAssumption, AttemptsAssumption

\* The kinds of account are disjoint and their addresses tell owners apart.
LEMMA Addresses ==
  /\ \A u \in Users : Main(u) \in Accounts /\ Main(u) # World
  /\ \A t \in Transfers : Hold(t) \in Accounts
  /\ TransitEthSwitch \in Accounts
  /\ \A t \in Transfers : Hold(t) # TransitEthSwitch
  /\ \A u \in Users : Main(u) # TransitEthSwitch
  /\ \A u \in Users, t \in Transfers : Main(u) # Hold(t)
  /\ \A s, t \in Transfers : s # t => Hold(s) # Hold(t)
  /\ \A v, u \in Users : u # v => Main(u) # Main(v)
BY DEF Accounts, Main, Hold, TransitEthSwitch, World

\* The three postings of the cycle move money between a wallet, its hold and
\* the transit account and leave the other holds alone.
LEMMA HoldEffect ==
  ASSUME TypeOK, WalletsCovered, NEW t \in Transfers,
         Covers(bal, Main(Owner[t]), Amount[t]),
         bal' = HoldFunds(bal, Owner[t], t, Amount[t])
  PROVE  /\ bal' \in [Accounts -> Int]
         /\ WalletsCovered'
         /\ bal'[Hold(t)] = bal[Hold(t)] + Amount[t]
         /\ \A s \in Transfers \ {t} : bal'[Hold(s)] = bal[Hold(s)]
<1>1. /\ Owner[t] \in Users /\ Amount[t] \in Int
      /\ bal \in [Accounts -> Int]
      /\ Main(Owner[t]) \in Accounts /\ Hold(t) \in Accounts /\ Main(Owner[t]) # Hold(t)
  BY Addresses DEF TypeOK
<1>2. /\ bal' \in [Accounts -> Int]
      /\ bal'[Main(Owner[t])] = bal[Main(Owner[t])] - Amount[t]
      /\ bal'[Hold(t)] = bal[Hold(t)] + Amount[t]
      /\ \A a \in Accounts \ {Main(Owner[t]), Hold(t)} : bal'[a] = bal[a]
  BY <1>1 DEF HoldFunds, Send
<1>3. bal[Main(Owner[t])] >= Amount[t]
  BY <1>1, Addresses DEF Covers
<1>4. WalletsCovered'
  <2> SUFFICES ASSUME NEW u \in Users PROVE bal'[Main(u)] >= 0
    BY DEF WalletsCovered
  <2>1. bal[Main(u)] >= 0 /\ bal[Main(u)] \in Int
    BY <1>1, Addresses DEF WalletsCovered
  <2>2. u # Owner[t] => bal'[Main(u)] = bal[Main(u)]
    BY <1>1, <1>2, Addresses
  <2> QED BY <1>1, <1>2, <1>3, <2>1, <2>2
<1>5. \A s \in Transfers \ {t} : bal'[Hold(s)] = bal[Hold(s)]
  BY <1>1, <1>2, Addresses
<1> QED BY <1>2, <1>4, <1>5

\* Settling empties the hold towards the transit account; no wallet changes.
LEMMA SettleEffect ==
  ASSUME TypeOK, WalletsCovered, NEW t \in Transfers,
         bal' = SettleHold(bal, t, TransitEthSwitch)
  PROVE  /\ bal' \in [Accounts -> Int]
         /\ WalletsCovered'
         /\ bal'[Hold(t)] = 0
         /\ \A s \in Transfers \ {t} : bal'[Hold(s)] = bal[Hold(s)]
<1>1. /\ bal \in [Accounts -> Int]
      /\ TransitEthSwitch \in Accounts /\ Hold(t) \in Accounts /\ Hold(t) # TransitEthSwitch
  BY Addresses DEF TypeOK
<1>2. /\ bal' \in [Accounts -> Int]
      /\ bal'[Hold(t)] = 0
      /\ \A a \in Accounts \ {Hold(t), TransitEthSwitch} : bal'[a] = bal[a]
  BY <1>1 DEF SettleHold, Send
<1>3. WalletsCovered'
  <2>1. \A u \in Users : bal'[Main(u)] = bal[Main(u)]
    BY <1>1, <1>2, Addresses
  <2> QED BY <2>1 DEF WalletsCovered
<1>4. \A s \in Transfers \ {t} : bal'[Hold(s)] = bal[Hold(s)]
  BY <1>1, <1>2, Addresses
<1> QED BY <1>2, <1>3, <1>4

\* Voiding empties the hold towards the wallet of its owner; no other changes.
LEMMA VoidEffect ==
  ASSUME TypeOK, WalletsCovered, NEW t \in Transfers,
         bal[Hold(t)] = Amount[t],
         bal' = VoidHold(bal, t, Owner[t], Amount[t])
  PROVE  /\ bal' \in [Accounts -> Int]
         /\ WalletsCovered'
         /\ bal'[Hold(t)] = 0
         /\ \A s \in Transfers \ {t} : bal'[Hold(s)] = bal[Hold(s)]
<1>1. /\ Owner[t] \in Users /\ Amount[t] \in Nat
      /\ bal \in [Accounts -> Int]
      /\ Main(Owner[t]) \in Accounts /\ Hold(t) \in Accounts /\ Main(Owner[t]) # Hold(t)
  BY Addresses DEF TypeOK
<1>2. /\ bal' \in [Accounts -> Int]
      /\ bal'[Hold(t)] = 0
      /\ bal'[Main(Owner[t])] = bal[Main(Owner[t])] + Amount[t]
      /\ \A a \in Accounts \ {Hold(t), Main(Owner[t])} : bal'[a] = bal[a]
  BY <1>1 DEF VoidHold, Send
<1>3. WalletsCovered'
  <2> SUFFICES ASSUME NEW u \in Users PROVE bal'[Main(u)] >= 0
    BY DEF WalletsCovered
  <2>1. bal[Main(u)] >= 0 /\ bal[Main(u)] \in Int
    BY <1>1, Addresses DEF WalletsCovered
  <2>2. u # Owner[t] => bal'[Main(u)] = bal[Main(u)]
    BY <1>1, <1>2, Addresses
  <2> QED BY <1>1, <1>2, <2>1, <2>2
<1>4. \A s \in Transfers \ {t} : bal'[Hold(s)] = bal[Hold(s)]
  BY <1>1, <1>2, Addresses
<1> QED BY <1>2, <1>3, <1>4

\* The initial states satisfy the inductive invariant.
LEMMA InitIInv == Init => IInv
<1> SUFFICES ASSUME Init PROVE IInv
  OBVIOUS
<1>1. \A u \in Users : bal[Main(u)] = Opening[u]
  <2> TAKE u \in Users
  <2>1. Main(u) \in Accounts /\ Main(u)[2] = u
    BY Addresses DEF Main
  <2> QED BY <2>1 DEF Init
<1>2. \A t \in Transfers : bal[Hold(t)] = 0
  BY Addresses DEF Init
<1>3. bal[TransitEthSwitch] = 0
  BY Addresses DEF Init
<1>4. TypeOK
  <2>1. \A a \in Accounts : bal[a] \in Int
    BY <1>1, <1>2, <1>3 DEF Accounts
  <2> QED BY <2>1 DEF Init, TypeOK, Steps, Replies, Statuses
<1>5. WalletsCovered
  BY <1>1 DEF WalletsCovered
<1>6. ASSUME NEW t \in Transfers PROVE TransferInv(t)
  BY <1>2 DEF Init, TransferInv, HoldSpent, FollowsNetwork, TrueReply, StepHistory,
              OnHold, Held, Settled, Voided
<1> QED BY <1>4, <1>5, <1>6 DEF IInv

\* A step that touches nothing of a transfer keeps what is known about it.
Frame(s) == /\ bal'[Hold(s)] = bal[Hold(s)]
            /\ txlog'[s] = txlog[s] /\ network'[s] = network[s] /\ status'[s] = status[s]
            /\ pc'[s] = pc[s] /\ tries'[s] = tries[s] /\ reply'[s] = reply[s]
            /\ s \in receipts' <=> s \in receipts

\* A step that leaves a transfer alone keeps what the invariant says of it.
LEMMA FrameKeeps ==
  ASSUME NEW s \in Transfers, TransferInv(s), Frame(s)
  PROVE  TransferInv(s)'
BY Zenon DEF Frame, TransferInv, HoldSpent, FollowsNetwork, TrueReply, StepHistory,
       OnHold, Held, Settled, Voided

\* Every step of the system keeps the inductive invariant.
LEMMA NextIInv == IInv /\ [Next]_vars => IInv'
<1> SUFFICES ASSUME IInv, [Next]_vars PROVE IInv'
  OBVIOUS
<1> USE DEF IInv, Goto, Answer
<1>1. ASSUME NEW t \in Transfers, Begin(t) PROVE IInv'
  <2>1. TypeOK' /\ WalletsCovered'
    BY <1>1 DEF Begin, TypeOK, WalletsCovered, Steps, Replies
  <2>2. \A s \in Transfers \ {t} : Frame(s)
    BY <1>1 DEF Begin, TypeOK, Frame
  <2>3. TransferInv(t)'
    BY <1>1 DEF Begin, TypeOK, TransferInv, HoldSpent, FollowsNetwork, TrueReply, StepHistory,
                OnHold, Held, Settled, Voided
  <2> QED BY <2>1, <2>2, <2>3, FrameKeeps
<1>2. ASSUME NEW t \in Transfers, HoldPhase(t) PROVE IInv'
  <2> DEFINE Posted == /\ Covers(bal, Main(Owner[t]), Amount[t])
                       /\ bal' = HoldFunds(bal, Owner[t], t, Amount[t])
                       /\ txlog' = [txlog EXCEPT ![t] = @ \cup {"hold"}]
  <2>1. \/ Posted /\ Goto(t, "transmit") /\ UNCHANGED reply
        \/ Posted /\ Answer(t, "hold_error")
        \/ UNCHANGED <<bal, txlog>> /\ Answer(t, "hold_error")
    BY <1>2 DEF HoldPhase, CallOutcomes, Applied, Confirmed
  <2>2. CASE Posted
    <3>1. /\ bal' \in [Accounts -> Int]
          /\ WalletsCovered'
          /\ bal'[Hold(t)] = bal[Hold(t)] + Amount[t]
          /\ \A s \in Transfers \ {t} : bal'[Hold(s)] = bal[Hold(s)]
      BY <2>2, HoldEffect
    <3>2. TypeOK'
      BY <1>2, <2>1, <2>2, <3>1 DEF HoldPhase, TypeOK, Steps, Replies, Tags
    <3>3. \A s \in Transfers \ {t} : Frame(s)
      BY <1>2, <2>1, <2>2, <3>1 DEF HoldPhase, TypeOK, Frame
    <3>4. txlog[t] = {} /\ txlog'[t] = {"hold"} /\ bal'[Hold(t)] = Amount[t]
      BY <1>2, <2>2, <3>1 DEF HoldPhase, TypeOK, TransferInv, HoldSpent, StepHistory,
                              OnHold, Held
    <3>5. TransferInv(t)'
      BY <1>2, <2>1, <3>4 DEF HoldPhase, TypeOK, TransferInv, HoldSpent, FollowsNetwork, TrueReply,
                              StepHistory, OnHold, Held, Settled, Voided
    <3> QED BY <3>1, <3>2, <3>3, <3>5, FrameKeeps
  <2>3. CASE UNCHANGED <<bal, txlog>> /\ Answer(t, "hold_error")
    <3>1. TypeOK' /\ WalletsCovered'
      BY <1>2, <2>3 DEF HoldPhase, TypeOK, WalletsCovered, Steps, Replies
    <3>2. \A s \in Transfers \ {t} : Frame(s)
      BY <1>2, <2>3 DEF HoldPhase, TypeOK, Frame
    <3>3. TransferInv(t)'
      BY <1>2, <2>3 DEF HoldPhase, TypeOK, TransferInv, HoldSpent, FollowsNetwork, TrueReply,
                        StepHistory, OnHold, Held, Settled, Voided
    <3> QED BY <3>1, <3>2, <3>3, FrameKeeps
  <2> QED BY <2>1, <2>2, <2>3
<1>3. ASSUME NEW t \in Transfers, Transmit(t) PROVE IInv'
  <2>1. TypeOK' /\ WalletsCovered'
    BY <1>3 DEF Transmit, TypeOK, WalletsCovered, Steps
  <2>2. \A s \in Transfers \ {t} : Frame(s)
    BY <1>3 DEF Transmit, TypeOK, Frame
  <2>3. TransferInv(t)'
    BY <1>3 DEF Transmit, TypeOK, TransferInv, HoldSpent, FollowsNetwork, TrueReply, StepHistory,
                OnHold, Held, Settled, Voided
  <2> QED BY <2>1, <2>2, <2>3, FrameKeeps
<1>4. ASSUME NEW t \in Transfers, Response(t) PROVE IInv'
  <2> PICK s \in Answers(network[t]) :
           /\ status' = [status EXCEPT ![t] = s]
           /\ Goto(t, IF s = "SUCCESS" THEN "settle" ELSE "void")
    BY <1>4 DEF Response, PhaseThree
  <2>1. /\ s \in Statuses \ {"none"}
        /\ s = "SUCCESS" => network[t] = "executed"
        /\ s = "FAILED" => network[t] = "rejected"
    BY DEF Answers, Statuses
  <2>2. TypeOK' /\ WalletsCovered'
    <3>1. status' \in [Transfers -> Statuses] /\ pc' \in [Transfers -> Steps]
      BY <2>1 DEF TypeOK, Steps
    <3> QED BY <1>4, <3>1 DEF Response, PhaseThree, TypeOK, WalletsCovered
  <2>3. \A r \in Transfers \ {t} : Frame(r)
    BY <1>4 DEF Response, TypeOK, Frame
  <2>4. TransferInv(t)'
    <3>1. status'[t] = s /\ pc'[t] = IF s = "SUCCESS" THEN "settle" ELSE "void"
      BY DEF TypeOK
    <3>2. pc[t] = "await" /\ TransferInv(t)
      BY <1>4 DEF Response
    <3>3. /\ OnHold(t) /\ tries[t] = 0 /\ reply[t] = "none"
          /\ UNCHANGED <<bal, txlog, network, receipts, tries, reply>>
      BY <1>4, <3>2 DEF Response, TransferInv, StepHistory
    <3>4. HoldSpent(t)' /\ FollowsNetwork(t)' /\ TrueReply(t)'
      BY <3>2, <3>3 DEF TransferInv, HoldSpent, FollowsNetwork, TrueReply, OnHold, Held,
                        Settled, Voided
    <3>5. Held(t)' /\ ~Settled(t)' /\ ~Voided(t)' /\ tries'[t] < Attempts /\ t \notin receipts'
      BY <3>2, <3>3 DEF TransferInv, StepHistory, OnHold, Held, Settled, Voided
    <3>6. CASE s = "SUCCESS"
      BY <2>1, <3>1, <3>3, <3>4, <3>5, <3>6 DEF StepHistory, TransferInv
    <3>7. CASE s # "SUCCESS"
      BY <2>1, <3>1, <3>3, <3>4, <3>5, <3>7 DEF StepHistory, TransferInv
    <3> QED BY <3>6, <3>7
  <2> QED BY <2>2, <2>3, <2>4, FrameKeeps
<1>5. ASSUME NEW t \in Transfers, NoResponse(t) PROVE IInv'
  <2>1. TypeOK' /\ WalletsCovered'
    BY <1>5 DEF NoResponse, TypeOK, WalletsCovered, Steps, Replies
  <2>2. \A s \in Transfers \ {t} : Frame(s)
    BY <1>5 DEF NoResponse, TypeOK, Frame
  <2>3. TransferInv(t)'
    BY <1>5 DEF NoResponse, TypeOK, TransferInv, HoldSpent, FollowsNetwork, TrueReply, StepHistory,
                OnHold, Held, Settled, Voided
  <2> QED BY <2>1, <2>2, <2>3, FrameKeeps
<1>6. ASSUME NEW t \in Transfers, SettlePhase(t) PROVE IInv'
  <2> DEFINE Posted == /\ HoldOpen(bal, t)
                       /\ bal' = SettleHold(bal, t, TransitEthSwitch)
                       /\ txlog' = [txlog EXCEPT ![t] = @ \cup {"settle_hold"}]
             Failed == /\ tries' = [tries EXCEPT ![t] = @ + 1]
                       /\ \/ tries'[t] < Attempts /\ UNCHANGED <<pc, reply>>
                          \/ Answer(t, "settle_error")
             Done == /\ Goto(t, "receipt")
                     /\ reply' = [reply EXCEPT ![t] = "none"]
                     /\ UNCHANGED tries
  <2>1. /\ \/ Posted /\ (Done \/ Failed)
           \/ UNCHANGED <<bal, txlog>> /\ Failed
        /\ UNCHANGED <<network, status, frozen, totals, receipts>>
    BY <1>6 DEF SettlePhase, Attempt, MayRetry, CallOutcomes, Applied, Confirmed
  <2>2. /\ pc[t] = "settle" /\ TransferInv(t)
        /\ tries[t] \in Nat /\ tries[t] < Attempts
    BY <1>6 DEF SettlePhase, TransferInv, StepHistory, TypeOK
  <2>3. /\ pc' \in [Transfers -> Steps] /\ reply' \in [Transfers -> Replies]
        /\ tries' \in [Transfers -> 0 .. Attempts]
    <3>1. CASE Done BY <3>1 DEF TypeOK, Steps, Replies
    <3>2. CASE Failed BY <3>2, <2>2 DEF TypeOK, Steps, Replies
    <3> QED BY <2>1, <3>1, <3>2
  <2>4. \A s \in Transfers \ {t} : /\ pc'[s] = pc[s] /\ reply'[s] = reply[s]
                                     /\ tries'[s] = tries[s]
    BY <2>1 DEF TypeOK
  <2>5. CASE Posted
    <3>1. OnHold(t) /\ bal[Hold(t)] = Amount[t]
      BY <2>2, <2>5 DEF TransferInv, HoldSpent, HoldOpen
    <3>2. /\ bal' \in [Accounts -> Int]
          /\ WalletsCovered'
          /\ bal'[Hold(t)] = 0
          /\ \A s \in Transfers \ {t} : bal'[Hold(s)] = bal[Hold(s)]
      BY <2>5, <3>1, SettleEffect
    <3>3. TypeOK'
      BY <2>1, <2>3, <2>5, <3>2 DEF TypeOK, Tags
    <3>4. \A s \in Transfers \ {t} : Frame(s)
      BY <2>1, <2>4, <2>5, <3>2 DEF TypeOK, Frame
    <3>5. Held(t)' /\ Settled(t)' /\ ~Voided(t)'
      BY <2>5, <3>1 DEF TypeOK, OnHold, Held, Settled, Voided
    <3>6. HoldSpent(t)' /\ FollowsNetwork(t)'
      BY <2>1, <2>2, <3>2, <3>5 DEF TypeOK, TransferInv, StepHistory, HoldSpent, FollowsNetwork, OnHold, Statuses
    <3>7. TrueReply(t)' /\ StepHistory(t)'
      BY <2>1, <2>2, <3>5 DEF TypeOK, TransferInv, TrueReply, StepHistory
    <3> QED BY <3>2, <3>3, <3>4, <3>6, <3>7, FrameKeeps DEF TransferInv
  <2>6. CASE UNCHANGED <<bal, txlog>> /\ Failed
    <3>1. TypeOK' /\ WalletsCovered'
      BY <2>1, <2>3, <2>6 DEF TypeOK, WalletsCovered
    <3>2. \A s \in Transfers \ {t} : Frame(s)
      BY <2>1, <2>4, <2>6 DEF Frame
    <3>3. TransferInv(t)'
      BY <2>1, <2>2, <2>6 DEF TypeOK, TransferInv, HoldSpent, FollowsNetwork, TrueReply,
                              StepHistory, OnHold, Held, Settled, Voided
    <3> QED BY <3>1, <3>2, <3>3, FrameKeeps
  <2> QED BY <2>1, <2>5, <2>6
<1>7. ASSUME NEW t \in Transfers, VoidPhase(t) PROVE IInv'
  <2> DEFINE Posted == /\ HoldOpen(bal, t)
                       /\ bal' = VoidHold(bal, t, Owner[t], Amount[t])
                       /\ txlog' = [txlog EXCEPT ![t] = @ \cup {"void_hold"}]
             Failed == /\ tries' = [tries EXCEPT ![t] = @ + 1]
                       /\ \/ tries'[t] < Attempts /\ UNCHANGED <<pc, reply>>
                          \/ Answer(t, "void_error")
             Done == /\ Goto(t, "done")
                     /\ reply' = [reply EXCEPT ![t] = "failed"]
                     /\ UNCHANGED tries
  <2>1. /\ \/ Posted /\ (Done \/ Failed)
           \/ UNCHANGED <<bal, txlog>> /\ Failed
        /\ UNCHANGED <<network, status, frozen, totals, receipts>>
    BY <1>7 DEF VoidPhase, Attempt, MayRetry, CallOutcomes, Applied, Confirmed
  <2>2. /\ pc[t] = "void" /\ TransferInv(t)
        /\ tries[t] \in Nat /\ tries[t] < Attempts
    BY <1>7 DEF VoidPhase, TransferInv, StepHistory, TypeOK
  <2>3. /\ pc' \in [Transfers -> Steps] /\ reply' \in [Transfers -> Replies]
        /\ tries' \in [Transfers -> 0 .. Attempts]
    <3>1. CASE Done BY <3>1 DEF TypeOK, Steps, Replies
    <3>2. CASE Failed BY <3>2, <2>2 DEF TypeOK, Steps, Replies
    <3> QED BY <2>1, <3>1, <3>2
  <2>4. \A s \in Transfers \ {t} : /\ pc'[s] = pc[s] /\ reply'[s] = reply[s]
                                     /\ tries'[s] = tries[s]
    BY <2>1 DEF TypeOK
  <2>5. CASE Posted
    <3>1. OnHold(t) /\ bal[Hold(t)] = Amount[t]
      BY <2>2, <2>5 DEF TransferInv, HoldSpent, HoldOpen
    <3>2. /\ bal' \in [Accounts -> Int]
          /\ WalletsCovered'
          /\ bal'[Hold(t)] = 0
          /\ \A s \in Transfers \ {t} : bal'[Hold(s)] = bal[Hold(s)]
      BY <2>5, <3>1, VoidEffect
    <3>3. TypeOK'
      BY <2>1, <2>3, <2>5, <3>2 DEF TypeOK, Tags
    <3>4. \A s \in Transfers \ {t} : Frame(s)
      BY <2>1, <2>4, <2>5, <3>2 DEF TypeOK, Frame
    <3>5. Held(t)' /\ Voided(t)' /\ ~Settled(t)'
      BY <2>5, <3>1 DEF TypeOK, OnHold, Held, Settled, Voided
    <3>6. HoldSpent(t)' /\ FollowsNetwork(t)'
      BY <2>1, <2>2, <3>2, <3>5 DEF TypeOK, TransferInv, StepHistory, HoldSpent, FollowsNetwork, OnHold, Statuses
    <3>7. TrueReply(t)' /\ StepHistory(t)'
      BY <2>1, <2>2, <3>5 DEF TypeOK, TransferInv, TrueReply, StepHistory
    <3> QED BY <3>2, <3>3, <3>4, <3>6, <3>7, FrameKeeps DEF TransferInv
  <2>6. CASE UNCHANGED <<bal, txlog>> /\ Failed
    <3>1. TypeOK' /\ WalletsCovered'
      BY <2>1, <2>3, <2>6 DEF TypeOK, WalletsCovered
    <3>2. \A s \in Transfers \ {t} : Frame(s)
      BY <2>1, <2>4, <2>6 DEF Frame
    <3>3. TransferInv(t)'
      BY <2>1, <2>2, <2>6 DEF TypeOK, TransferInv, HoldSpent, FollowsNetwork, TrueReply,
                              StepHistory, OnHold, Held, Settled, Voided
    <3> QED BY <3>1, <3>2, <3>3, FrameKeeps
  <2> QED BY <2>1, <2>5, <2>6
<1>8. ASSUME NEW t \in Transfers, SaveReceipt(t) PROVE IInv'
  <2>1. TypeOK' /\ WalletsCovered'
    BY <1>8 DEF SaveReceipt, TypeOK, WalletsCovered, Steps
  <2>2. \A s \in Transfers \ {t} : Frame(s)
    BY <1>8 DEF SaveReceipt, TypeOK, Frame
  <2>3. TransferInv(t)'
    BY <1>8 DEF SaveReceipt, TypeOK, TransferInv, HoldSpent, FollowsNetwork, TrueReply, StepHistory,
                OnHold, Held, Settled, Voided
  <2> QED BY <2>1, <2>2, <2>3, FrameKeeps
<1>9. ASSUME NEW t \in Transfers, IncrementTotals(t) PROVE IInv'
  <2>1. totals' \in [Users -> Nat]
    BY <1>9 DEF IncrementTotals, TypeOK
  <2>2. TypeOK' /\ WalletsCovered'
    BY <1>9, <2>1 DEF IncrementTotals, TypeOK, WalletsCovered, Steps, Replies
  <2>3. \A s \in Transfers \ {t} : Frame(s)
    BY <1>9 DEF IncrementTotals, TypeOK, Frame
  <2>4. TransferInv(t)'
    BY <1>9 DEF IncrementTotals, TypeOK, TransferInv, HoldSpent, FollowsNetwork, TrueReply,
                StepHistory, OnHold, Held, Settled, Voided
  <2> QED BY <2>2, <2>3, <2>4, FrameKeeps
<1>10. ASSUME NEW t \in Transfers, EthSwitchDecides(t) PROVE IInv'
  <2> PICK v \in Verdicts : network' = [network EXCEPT ![t] = v]
    BY <1>10 DEF EthSwitchDecides, Verdicts
  <2>1. TypeOK' /\ WalletsCovered'
    BY <1>10 DEF EthSwitchDecides, TypeOK, WalletsCovered
  <2>2. \A s \in Transfers \ {t} : Frame(s)
    BY <1>10 DEF EthSwitchDecides, TypeOK, Frame
  <2>3. network[t] \in {"asked", "pending"} /\ network'[t] # "unasked"
    BY <1>10 DEF EthSwitchDecides, TypeOK, Verdicts
  <2>4. TransferInv(t)'
    BY <1>10, <2>3 DEF EthSwitchDecides, TransferInv, HoldSpent, FollowsNetwork, TrueReply,
                       StepHistory, OnHold, Held, Settled, Voided
  <2> QED BY <2>1, <2>2, <2>4, FrameKeeps
<1>11. ASSUME NEW t \in Transfers, Crash(t) PROVE IInv'
  <2>1. TypeOK' /\ WalletsCovered'
    BY <1>11 DEF Crash, TypeOK, WalletsCovered, Steps
  <2>2. \A s \in Transfers \ {t} : Frame(s)
    BY <1>11 DEF Crash, TypeOK, Frame
  <2>3. TransferInv(t)'
    BY <1>11 DEF Crash, TypeOK, TransferInv, HoldSpent, FollowsNetwork, TrueReply, StepHistory,
                 OnHold, Held, Settled, Voided
  <2> QED BY <2>1, <2>2, <2>3, FrameKeeps
<1>12. ASSUME NEW u \in Users, Freeze(u) \/ Unfreeze(u) PROVE IInv'
  <2>1. TypeOK' /\ WalletsCovered'
    BY <1>12 DEF Freeze, Unfreeze, TypeOK, WalletsCovered
  <2>2. \A s \in Transfers : Frame(s)
    BY <1>12 DEF Freeze, Unfreeze, Frame
  <2> QED BY <2>1, <2>2, FrameKeeps
<1>13. CASE UNCHANGED vars
  <2>1. TypeOK' /\ WalletsCovered'
    BY <1>13 DEF vars, TypeOK, WalletsCovered
  <2>2. \A s \in Transfers : Frame(s)
    BY <1>13 DEF vars, Frame
  <2> QED BY <2>1, <2>2, FrameKeeps
<1> QED BY <1>1, <1>2, <1>3, <1>4, <1>5, <1>6, <1>7, <1>8, <1>9, <1>10, <1>11, <1>12, <1>13
        DEF Next, Serve, Proceed

\* The inductive invariant holds in every reachable state.
THEOREM Invariance == Spec => []IInv
BY InitIInv, NextIInv, PTL DEF Spec

\* Type correctness, for every number of users, transfers and attempts.
THEOREM TypeCorrect == Spec => []TypeOK
BY Invariance, PTL DEF IInv

\* SettleHold and VoidHold, retried and unconfirmed as they may be, spend a
\* hold exactly once, in full and in one direction.
THEOREM HoldsAreSpentOnce == Spec => []HoldSpentOnce
<1>1. IInv => HoldSpentOnce
  BY DEF IInv, TransferInv, HoldSpentOnce
<1> QED BY Invariance, <1>1, PTL

\* ProcessOutboundTransfer settles only what EthSwitch executed, and refunds
\* only what EthSwitch rejected or left undecided.
THEOREM LedgerAgreesWithNetwork == Spec => []LedgerFollowsNetwork
<1>1. IInv => LedgerFollowsNetwork
  BY DEF IInv, TransferInv, LedgerFollowsNetwork
<1> QED BY Invariance, <1>1, PTL

\* What ProcessOutboundTransfer tells its caller is true and stays true.
THEOREM RepliesAreTrue == Spec => []ReplyIsTrue
<1>1. IInv => ReplyIsTrue
  BY DEF IInv, TransferInv, ReplyIsTrue
<1> QED BY Invariance, <1>1, PTL

\* Concurrent holds never overdraw a wallet.
THEOREM NoWalletOverdrawn == Spec => []WalletsCovered
BY Invariance, PTL DEF IInv

\* A step that posts nothing on a hold leaves the escrow as it is.
LEMMA SameEscrow == ASSUME UNCHANGED txlog PROVE UNCHANGED EscrowState
BY DEF EscrowState, Held, Settled, Voided

\* Every step of the detailed system is a step of Escrow or leaves it alone.
LEMMA EscrowStep ==
  ASSUME IInv, [Next]_vars
  PROVE  [Abstract!Next]_(Abstract!vars)
<1> USE DEF IInv, Abstract!vars
<1>2. ASSUME NEW t \in Transfers, HoldPhase(t) PROVE [Abstract!Next]_(Abstract!vars)
  <2>1. CASE UNCHANGED txlog
    BY <1>2, <2>1, SameEscrow DEF HoldPhase
  <2>2. CASE txlog' = [txlog EXCEPT ![t] = @ \cup {"hold"}]
    <3>1. txlog[t] = {} /\ txlog \in [Transfers -> SUBSET Tags]
      BY <1>2 DEF HoldPhase, TransferInv, StepHistory, TypeOK
    <3>2. EscrowState[t] = "none" /\ EscrowState' = [EscrowState EXCEPT ![t] = "held"]
      BY <2>2, <3>1 DEF EscrowState, Held, Settled, Voided
    <3> QED BY <1>2, <3>2 DEF HoldPhase, Abstract!Next, Abstract!Take
  <2> QED BY <1>2, <2>1, <2>2 DEF HoldPhase
<1>3. ASSUME NEW t \in Transfers, Transmit(t) PROVE [Abstract!Next]_(Abstract!vars)
  <2>1. EscrowState[t] = "held" /\ network[t] = "unasked"
    BY <1>3 DEF Transmit, TransferInv, StepHistory, EscrowState, OnHold
  <2> QED BY <1>3, <2>1, SameEscrow DEF Transmit, Abstract!Next, Abstract!Ask
<1>4. ASSUME NEW t \in Transfers, Response(t) PROVE [Abstract!Next]_(Abstract!vars)
  <2>1. status[t] = "none"
    BY <1>4 DEF Response, TransferInv, StepHistory
  <2>2. \E s \in Abstract!Audible(network[t]) : status' = [status EXCEPT ![t] = s]
    BY <1>4 DEF Response, Answers, Abstract!Audible
  <2> QED BY <1>4, <2>1, <2>2, SameEscrow DEF Response, Abstract!Next, Abstract!Hear
<1>5. ASSUME NEW t \in Transfers, SettlePhase(t) PROVE [Abstract!Next]_(Abstract!vars)
  <2>1. CASE UNCHANGED txlog
    BY <1>5, <2>1, SameEscrow DEF SettlePhase, Attempt
  <2>2. CASE HoldOpen(bal, t) /\ txlog' = [txlog EXCEPT ![t] = @ \cup {"settle_hold"}]
    <3>1. OnHold(t) /\ status[t] = "SUCCESS" /\ txlog \in [Transfers -> SUBSET Tags]
      BY <1>5, <2>2 DEF SettlePhase, HoldOpen, TransferInv, HoldSpent, StepHistory, TypeOK
    <3>2. EscrowState[t] = "held" /\ EscrowState' = [EscrowState EXCEPT ![t] = "settled"]
      BY <2>2, <3>1 DEF EscrowState, OnHold, Held, Settled, Voided
    <3> QED BY <1>5, <3>1, <3>2 DEF SettlePhase, Attempt, Abstract!Next, Abstract!Settle
  <2> QED BY <1>5, <2>1, <2>2 DEF SettlePhase, Attempt
<1>6. ASSUME NEW t \in Transfers, VoidPhase(t) PROVE [Abstract!Next]_(Abstract!vars)
  <2>1. CASE UNCHANGED txlog
    BY <1>6, <2>1, SameEscrow DEF VoidPhase, Attempt
  <2>2. CASE HoldOpen(bal, t) /\ txlog' = [txlog EXCEPT ![t] = @ \cup {"void_hold"}]
    <3>1. /\ OnHold(t) /\ status[t] \notin {"none", "SUCCESS"}
          /\ txlog \in [Transfers -> SUBSET Tags]
      BY <1>6, <2>2 DEF VoidPhase, HoldOpen, TransferInv, HoldSpent, StepHistory, TypeOK
    <3>2. EscrowState[t] = "held" /\ EscrowState' = [EscrowState EXCEPT ![t] = "released"]
      BY <2>2, <3>1 DEF EscrowState, OnHold, Held, Settled, Voided
    <3> QED BY <1>6, <3>1, <3>2 DEF VoidPhase, Attempt, Abstract!Next, Abstract!Release
  <2> QED BY <1>6, <2>1, <2>2 DEF VoidPhase, Attempt
<1>7. ASSUME NEW t \in Transfers, EthSwitchDecides(t) PROVE [Abstract!Next]_(Abstract!vars)
  BY <1>7, SameEscrow DEF EthSwitchDecides, Abstract!Next, Abstract!Decide,
                          Abstract!Immediate, Abstract!Late
<1>8. ASSUME NEW t \in Transfers,
             \/ Begin(t) \/ NoResponse(t) \/ SaveReceipt(t) \/ IncrementTotals(t) \/ Crash(t)
      PROVE  UNCHANGED Abstract!vars
  BY <1>8, SameEscrow DEF Begin, NoResponse, SaveReceipt, IncrementTotals, Crash
<1>9. ASSUME NEW u \in Users, Freeze(u) \/ Unfreeze(u) PROVE UNCHANGED Abstract!vars
  BY <1>9, SameEscrow DEF Freeze, Unfreeze
<1>10. CASE UNCHANGED vars
  BY <1>10, SameEscrow DEF vars
<1> QED BY <1>2, <1>3, <1>4, <1>5, <1>6, <1>7, <1>8, <1>9, <1>10 DEF Next, Serve, Proceed

\* The detailed cycle implements the abstract escrow: at most one settle or
\* void takes effect per transfer, in the direction of the status received.
THEOREM Refinement == Spec => ImplementsEscrow
<1>1. Init => Abstract!Init
  BY DEF Init, Abstract!Init, EscrowState, Held, Settled, Voided
<1>2. IInv /\ [Next]_vars => [Abstract!Next]_(Abstract!vars)
  BY EscrowStep
<1> QED BY Invariance, <1>1, <1>2, PTL DEF Spec, ImplementsEscrow, Abstract!Spec

(***************************************************************************)
(* The money, as sums over the transfers.                                  *)
(***************************************************************************)
USE FiniteAssumption

\* What the sums are taken over: finite sets, and amounts that are naturals.
LEMMA FiniteSums ==
  /\ \A t \in Transfers : Amount[t] \in Nat
  /\ \A S \in SUBSET Transfers : IsFiniteSet(S) /\ SumFunctionOnSet(Amount, S) \in Int
<1>1. \A t \in Transfers : Amount[t] \in Nat
  OBVIOUS
<1>2. ASSUME NEW S \in SUBSET Transfers PROVE IsFiniteSet(S) /\ SumFunctionOnSet(Amount, S) \in Int
  <2>1. IsFiniteSet(S)
    BY FS_Subset
  <2> QED BY <1>1, <2>1, SumType
<1> QED BY <1>1, <1>2

\* Sums over the same transfers are the same, whatever else a step does.
LEMMA SameSums ==
  ASSUME UNCHANGED txlog
  PROVE  /\ \A u \in Users : TakenFrom(u)' = TakenFrom(u) /\ SettledOf(u)' = SettledOf(u)
         /\ {t \in Transfers : Settled(t)}' = {t \in Transfers : Settled(t)}
BY DEF TakenFrom, SettledOf, Held, Settled, Voided

\* Every step keeps the money accounted for: a hold takes one transfer's
\* amount out of one wallet, a settle brings it to the transit account, a void
\* brings it back, and nothing else posts.
LEMMA NextMoney == IInv /\ IInv' /\ MoneyAccountedFor /\ [Next]_vars => MoneyAccountedFor'
<1> SUFFICES ASSUME IInv, IInv', MoneyAccountedFor, [Next]_vars PROVE MoneyAccountedFor'
  OBVIOUS
<1> DEFINE Gone == {t \in Transfers : Settled(t)}
<1>1. WalletsCovered' /\ TypeOK /\ bal \in [Accounts -> Int] /\ txlog \in [Transfers -> SUBSET Tags]
  BY DEF IInv, TypeOK
<1>2. /\ \A u \in Users : bal[Main(u)] = Opening[u] - SumFunctionOnSet(Amount, TakenFrom(u))
      /\ bal[TransitEthSwitch] = SumFunctionOnSet(Amount, Gone)
  BY DEF MoneyAccountedFor
<1>3. SUFFICES /\ \A u \in Users : bal'[Main(u)] = Opening[u] - SumFunctionOnSet(Amount, TakenFrom(u)')
               /\ bal'[TransitEthSwitch] = SumFunctionOnSet(Amount, Gone')
  BY <1>1 DEF MoneyAccountedFor
<1>4. CASE UNCHANGED <<bal, txlog>>
  <2>1. \A u \in Users : TakenFrom(u)' = TakenFrom(u)
    BY <1>4, SameSums
  <2>2. Gone' = Gone
    BY <1>4, SameSums
  <2> HIDE DEF Gone
  <2> QED BY <1>2, <1>4, <2>1, <2>2
<1>5. ASSUME NEW t \in Transfers, HoldPhase(t), bal' = HoldFunds(bal, Owner[t], t, Amount[t]),
             txlog' = [txlog EXCEPT ![t] = @ \cup {"hold"}]
      PROVE  /\ \A u \in Users : bal'[Main(u)] = Opening[u] - SumFunctionOnSet(Amount, TakenFrom(u)')
             /\ bal'[TransitEthSwitch] = SumFunctionOnSet(Amount, Gone')
  <2>1. /\ bal'[Main(Owner[t])] = bal[Main(Owner[t])] - Amount[t]
        /\ \A a \in Accounts \ {Main(Owner[t]), Hold(t)} : bal'[a] = bal[a]
    BY <1>1, <1>5, Addresses DEF HoldFunds, Send
  <2>2. txlog[t] = {} /\ txlog'[t] = {"hold"}
    BY <1>1, <1>5 DEF IInv, TransferInv, StepHistory, HoldPhase
  <2>3. Gone' = Gone
    BY <1>1, <1>5 DEF Settled
  <2>4. t \notin TakenFrom(Owner[t]) /\ TakenFrom(Owner[t])' = TakenFrom(Owner[t]) \cup {t}
    BY <1>1, <1>5, <2>2 DEF TakenFrom, Held, Voided
  <2>5. \A u \in Users \ {Owner[t]} : TakenFrom(u)' = TakenFrom(u)
    BY <1>1, <1>5 DEF TakenFrom, Held, Voided
  <2>6. \A u \in Users : TakenFrom(u) \in SUBSET Transfers
    BY DEF TakenFrom
  <2>7. Owner[t] \in Users /\ Opening[Owner[t]] \in Int
    OBVIOUS
  <2>8. SumFunctionOnSet(Amount, TakenFrom(Owner[t])') = SumFunctionOnSet(Amount, TakenFrom(Owner[t])) + Amount[t]
    <3>1. IsFiniteSet(TakenFrom(Owner[t])) /\ \A x \in TakenFrom(Owner[t]) \cup {t} : Amount[x] \in Int
      BY <2>6, <2>7, FiniteSums
    <3> QED BY <3>1, <2>4, SumAdd
  <2>9. bal'[Main(Owner[t])] = Opening[Owner[t]] - SumFunctionOnSet(Amount, TakenFrom(Owner[t])')
    BY <1>2, <2>1, <2>6, <2>7, <2>8, FiniteSums
  <2>10. ASSUME NEW u \in Users, u # Owner[t]
         PROVE  bal'[Main(u)] = Opening[u] - SumFunctionOnSet(Amount, TakenFrom(u)')
    BY <2>10, <1>2, <2>1, <2>5, <2>7, Addresses
  <2>11. bal'[TransitEthSwitch] = SumFunctionOnSet(Amount, Gone')
    <3> HIDE DEF Gone
    <3> QED BY <1>2, <2>1, <2>3, <2>7, Addresses
  <2> QED BY <2>9, <2>10, <2>11
<1>6. ASSUME NEW t \in Transfers, HoldOpen(bal, t), bal' = SettleHold(bal, t, TransitEthSwitch),
             txlog' = [txlog EXCEPT ![t] = @ \cup {"settle_hold"}]
      PROVE  /\ \A u \in Users : bal'[Main(u)] = Opening[u] - SumFunctionOnSet(Amount, TakenFrom(u)')
             /\ bal'[TransitEthSwitch] = SumFunctionOnSet(Amount, Gone')
  <2>1. OnHold(t) /\ bal[Hold(t)] = Amount[t]
    BY <1>6 DEF IInv, TransferInv, HoldSpent, HoldOpen
  <2>2. /\ bal'[TransitEthSwitch] = bal[TransitEthSwitch] + Amount[t]
        /\ \A a \in Accounts \ {TransitEthSwitch, Hold(t)} : bal'[a] = bal[a]
    BY <1>1, <1>6, <2>1, Addresses DEF SettleHold, Send
  <2>3. \A u \in Users : TakenFrom(u)' = TakenFrom(u)
    BY <1>1, <1>6 DEF TakenFrom, Held, Voided
  <2>4. t \notin Gone /\ Gone' = Gone \cup {t}
    BY <1>1, <1>6, <2>1 DEF OnHold, Settled
  <2>5. Gone \in SUBSET Transfers
    OBVIOUS
  <2> HIDE DEF Gone
  <2>6. SumFunctionOnSet(Amount, Gone') = SumFunctionOnSet(Amount, Gone) + Amount[t]
    <3>1. IsFiniteSet(Gone) /\ \A x \in Gone \cup {t} : Amount[x] \in Int
      BY <2>5, FiniteSums
    <3> QED BY <3>1, <2>4, SumAdd
  <2>7. \A u \in Users : bal'[Main(u)] = bal[Main(u)]
    BY <2>2, Addresses
  <2> QED BY <1>2, <2>2, <2>3, <2>6, <2>7
<1>7. ASSUME NEW t \in Transfers, HoldOpen(bal, t), bal' = VoidHold(bal, t, Owner[t], Amount[t]),
             txlog' = [txlog EXCEPT ![t] = @ \cup {"void_hold"}]
      PROVE  /\ \A u \in Users : bal'[Main(u)] = Opening[u] - SumFunctionOnSet(Amount, TakenFrom(u)')
             /\ bal'[TransitEthSwitch] = SumFunctionOnSet(Amount, Gone')
  <2>1. OnHold(t) /\ bal[Hold(t)] = Amount[t]
    BY <1>7 DEF IInv, TransferInv, HoldSpent, HoldOpen
  <2>2. /\ bal'[Main(Owner[t])] = bal[Main(Owner[t])] + Amount[t]
        /\ \A a \in Accounts \ {Main(Owner[t]), Hold(t)} : bal'[a] = bal[a]
    BY <1>1, <1>7, <2>1, Addresses DEF VoidHold, Send
  <2>3. Gone' = Gone
    BY <1>1, <1>7 DEF Settled
  <2>4. t \in TakenFrom(Owner[t]) /\ TakenFrom(Owner[t])' = TakenFrom(Owner[t]) \ {t}
    BY <1>1, <1>7, <2>1 DEF TakenFrom, OnHold, Held, Voided
  <2>5. \A u \in Users \ {Owner[t]} : TakenFrom(u)' = TakenFrom(u)
    BY <1>1, <1>7 DEF TakenFrom, Held, Voided
  <2>6. \A u \in Users : TakenFrom(u) \in SUBSET Transfers
    BY DEF TakenFrom
  <2>7. Owner[t] \in Users /\ Opening[Owner[t]] \in Int
    OBVIOUS
  <2>8. SumFunctionOnSet(Amount, TakenFrom(Owner[t])) = Amount[t] + SumFunctionOnSet(Amount, TakenFrom(Owner[t])')
    <3>1. IsFiniteSet(TakenFrom(Owner[t])) /\ \A x \in TakenFrom(Owner[t]) : Amount[x] \in Int
      BY <2>6, <2>7, FiniteSums
    <3> QED BY <3>1, <2>4, SumRemove
  <2>9. bal'[Main(Owner[t])] = Opening[Owner[t]] - SumFunctionOnSet(Amount, TakenFrom(Owner[t])')
    <3>1. TakenFrom(Owner[t])' \in SUBSET Transfers
      BY <2>4, <2>6, <2>7
    <3> QED BY <1>2, <2>2, <2>6, <2>7, <2>8, <3>1, FiniteSums
  <2>10. ASSUME NEW u \in Users, u # Owner[t]
         PROVE  bal'[Main(u)] = Opening[u] - SumFunctionOnSet(Amount, TakenFrom(u)')
    BY <2>10, <1>2, <2>2, <2>5, <2>7, Addresses
  <2>11. bal'[TransitEthSwitch] = SumFunctionOnSet(Amount, Gone')
    <3> HIDE DEF Gone
    <3> QED BY <1>2, <2>2, <2>3, <2>7, Addresses
  <2> QED BY <2>9, <2>10, <2>11
<1>8. \/ UNCHANGED <<bal, txlog>>
      \/ \E t \in Transfers :
           \/ HoldPhase(t) /\ bal' = HoldFunds(bal, Owner[t], t, Amount[t])
                /\ txlog' = [txlog EXCEPT ![t] = @ \cup {"hold"}]
           \/ HoldOpen(bal, t) /\ bal' = SettleHold(bal, t, TransitEthSwitch)
                /\ txlog' = [txlog EXCEPT ![t] = @ \cup {"settle_hold"}]
           \/ HoldOpen(bal, t) /\ bal' = VoidHold(bal, t, Owner[t], Amount[t])
                /\ txlog' = [txlog EXCEPT ![t] = @ \cup {"void_hold"}]
  <2>1. ASSUME NEW t \in Transfers, HoldPhase(t)
        PROVE  \/ UNCHANGED <<bal, txlog>>
               \/ bal' = HoldFunds(bal, Owner[t], t, Amount[t])
                    /\ txlog' = [txlog EXCEPT ![t] = @ \cup {"hold"}]
    BY <2>1 DEF HoldPhase
  <2>2. ASSUME NEW t \in Transfers, SettlePhase(t)
        PROVE  \/ UNCHANGED <<bal, txlog>>
               \/ HoldOpen(bal, t) /\ bal' = SettleHold(bal, t, TransitEthSwitch)
                    /\ txlog' = [txlog EXCEPT ![t] = @ \cup {"settle_hold"}]
    BY <2>2 DEF SettlePhase, Attempt
  <2>3. ASSUME NEW t \in Transfers, VoidPhase(t)
        PROVE  \/ UNCHANGED <<bal, txlog>>
               \/ HoldOpen(bal, t) /\ bal' = VoidHold(bal, t, Owner[t], Amount[t])
                    /\ txlog' = [txlog EXCEPT ![t] = @ \cup {"void_hold"}]
    BY <2>3 DEF VoidPhase, Attempt
  <2>4. ASSUME NEW t \in Transfers,
               \/ Begin(t) \/ Transmit(t) \/ Response(t) \/ NoResponse(t) \/ SaveReceipt(t)
               \/ IncrementTotals(t) \/ EthSwitchDecides(t) \/ Crash(t)
        PROVE  UNCHANGED <<bal, txlog>>
    BY <2>4 DEF Begin, Transmit, Response, NoResponse, SaveReceipt, IncrementTotals,
                EthSwitchDecides, Crash
  <2>5. ASSUME NEW u \in Users, Freeze(u) \/ Unfreeze(u) PROVE UNCHANGED <<bal, txlog>>
    BY <2>5 DEF Freeze, Unfreeze
  <2> QED BY <2>1, <2>2, <2>3, <2>4, <2>5 DEF Next, Serve, Proceed, vars
<1> QED BY <1>4, <1>5, <1>6, <1>7, <1>8

\* Every cent a user had is in the wallet, on a hold or with EthSwitch, for
\* any number of concurrent transfers.
THEOREM MoneyIsAccountedFor == Spec => []MoneyAccountedFor
<1>1. Init => MoneyAccountedFor
  <2> SUFFICES ASSUME Init PROVE MoneyAccountedFor
    OBVIOUS
  <2>1. WalletsCovered
    BY InitIInv DEF IInv
  <2>2. \A u \in Users : TakenFrom(u) = {}
    BY DEF Init, TakenFrom, Held
  <2>3. {t \in Transfers : Settled(t)} = {}
    BY DEF Init, Settled
  <2>4. bal[TransitEthSwitch] = 0
    BY Addresses DEF Init
  <2>5. ASSUME NEW u \in Users PROVE bal[Main(u)] = Opening[u] - 0
    <3>1. Main(u) \in Accounts /\ Main(u)[2] = u /\ Opening[u] \in Nat
      BY Addresses DEF Main
    <3> QED BY <3>1 DEF Init
  <2> QED BY <2>1, <2>2, <2>3, <2>4, <2>5, SumEmpty DEF MoneyAccountedFor
<1> QED BY Invariance, <1>1, NextMoney, PTL DEF Spec

\* A daily total grows only with the answer "ok" to the transfer it counts.
LEMMA NextTotals == IInv /\ TotalsCountAnswered /\ [Next]_vars => TotalsCountAnswered'
<1> SUFFICES ASSUME IInv, TotalsCountAnswered, [Next]_vars, NEW u \in Users
             PROVE  totals'[u] <= SumFunctionOnSet(Amount, Answered(u)')
  BY DEF TotalsCountAnswered
<1>1. /\ totals \in [Users -> Nat] /\ reply \in [Transfers -> Replies]
      /\ totals[u] <= SumFunctionOnSet(Amount, Answered(u))
      /\ \A t \in Transfers : pc[t] # "done" => reply[t] = "none"
  BY DEF IInv, TypeOK, TotalsCountAnswered, TransferInv, StepHistory
<1>2. Answered(u) \in SUBSET Transfers
  BY DEF Answered
<1>3. ASSUME totals' = totals, Answered(u)' = Answered(u)
      PROVE  totals'[u] <= SumFunctionOnSet(Amount, Answered(u)')
  BY <1>1, <1>3
<1>4. ASSUME NEW t \in Transfers, IncrementTotals(t)
      PROVE  totals'[u] <= SumFunctionOnSet(Amount, Answered(u)')
  <2>1. reply[t] = "none" /\ reply' = [reply EXCEPT ![t] = "ok"]
    BY <1>1, <1>4 DEF IncrementTotals, Answer
  <2>2. CASE Owner[t] = u
    <3>1. t \notin Answered(u) /\ Answered(u)' = Answered(u) \cup {t}
      BY <1>1, <2>1, <2>2 DEF Answered
    <3>2. IsFiniteSet(Answered(u)) /\ \A x \in Answered(u) \cup {t} : Amount[x] \in Int
      BY <1>2, FiniteSums
    <3>3. SumFunctionOnSet(Amount, Answered(u)') = SumFunctionOnSet(Amount, Answered(u)) + Amount[t]
      BY <3>1, <3>2, SumAdd
    <3>4. totals'[u] = totals[u] \/ totals'[u] = totals[u] + Amount[t]
      BY <1>1, <1>4, <2>2 DEF IncrementTotals
    <3>5. totals[u] \in Nat /\ Amount[t] \in Nat /\ SumFunctionOnSet(Amount, Answered(u)) \in Int
      BY <1>1, <1>2, FiniteSums
    <3> QED BY <1>1, <3>3, <3>4, <3>5
  <2>3. CASE Owner[t] # u
    <3>1. Answered(u)' = Answered(u)
      BY <1>1, <2>1, <2>3 DEF Answered
    <3>2. totals'[u] = totals[u]
      BY <1>1, <1>4, <2>3 DEF IncrementTotals
    <3> QED BY <1>1, <3>1, <3>2
  <2> QED BY <2>2, <2>3
<1>5. ASSUME NEW t \in Transfers, UNCHANGED totals,
             \/ UNCHANGED reply
             \/ \E r \in Replies \ {"ok"} : reply' = [reply EXCEPT ![t] = r],
             reply[t] # "ok"
      PROVE  totals' = totals /\ Answered(u)' = Answered(u)
  BY <1>1, <1>5 DEF Answered
<1>6. ASSUME NEW t \in Transfers,
             \/ Begin(t) \/ HoldPhase(t) \/ Transmit(t) \/ Response(t) \/ NoResponse(t)
             \/ SettlePhase(t) \/ VoidPhase(t) \/ SaveReceipt(t)
      PROVE  totals' = totals /\ Answered(u)' = Answered(u)
  <2>1. reply[t] # "ok"
    BY <1>1, <1>6 DEF Begin, HoldPhase, Transmit, Response, NoResponse, SettlePhase, VoidPhase,
                      SaveReceipt
  <2>2. UNCHANGED totals
    BY <1>6 DEF Begin, HoldPhase, Transmit, Response, NoResponse, SettlePhase, VoidPhase,
                SaveReceipt, Attempt
  <2>3. \/ UNCHANGED reply
        \/ \E r \in Replies \ {"ok"} : reply' = [reply EXCEPT ![t] = r]
    BY <1>6 DEF Begin, HoldPhase, Transmit, Response, NoResponse, SettlePhase, VoidPhase,
                SaveReceipt, Attempt, Answer, Replies
  <2> QED BY <1>5, <2>1, <2>2, <2>3
<1>7. ASSUME NEW t \in Transfers, EthSwitchDecides(t) \/ Crash(t)
      PROVE  totals' = totals /\ Answered(u)' = Answered(u)
  BY <1>7 DEF EthSwitchDecides, Crash, Answered
<1>8. ASSUME NEW v \in Users, Freeze(v) \/ Unfreeze(v)
      PROVE  totals' = totals /\ Answered(u)' = Answered(u)
  BY <1>8 DEF Freeze, Unfreeze, Answered
<1>9. ASSUME UNCHANGED vars PROVE totals' = totals /\ Answered(u)' = Answered(u)
  BY <1>9 DEF vars, Answered
<1> QED BY <1>3, <1>4, <1>6, <1>7, <1>8, <1>9 DEF Next, Serve, Proceed

\* Receipts and daily totals never claim more than the ledger settled.
THEOREM BooksAreHonest == Spec => []BooksNeverOverstate
<1>1. Init => TotalsCountAnswered
  <2> SUFFICES ASSUME Init, NEW u \in Users PROVE totals[u] <= SumFunctionOnSet(Amount, Answered(u))
    BY DEF TotalsCountAnswered
  <2>1. Answered(u) = {} /\ totals[u] = 0
    BY DEF Init, Answered
  <2> QED BY <2>1, SumEmpty
<1>2. ASSUME IInv, TotalsCountAnswered PROVE BooksNeverOverstate
  <2>1. \A t \in receipts : Settled(t)
    BY <1>2 DEF IInv, TypeOK, TransferInv, StepHistory
  <2>2. ASSUME NEW u \in Users PROVE totals[u] <= SumFunctionOnSet(Amount, SettledOf(u))
    <3>1. Answered(u) \in SUBSET SettledOf(u) /\ SettledOf(u) \in SUBSET Transfers
      BY <1>2 DEF Answered, SettledOf, IInv, TransferInv, TrueReply
    <3>2. SumFunctionOnSet(Amount, Answered(u)) <= SumFunctionOnSet(Amount, SettledOf(u))
      BY <3>1, FiniteSums, SumPart
    <3>3. /\ totals[u] \in Nat /\ totals[u] <= SumFunctionOnSet(Amount, Answered(u))
          /\ SumFunctionOnSet(Amount, Answered(u)) \in Int
          /\ SumFunctionOnSet(Amount, SettledOf(u)) \in Int
      BY <1>2, <3>1, FiniteSums DEF IInv, TypeOK, TotalsCountAnswered
    <3> QED BY <3>2, <3>3
  <2> QED BY <2>1, <2>2 DEF BooksNeverOverstate
<1>3. Spec => []TotalsCountAnswered
  BY Invariance, <1>1, NextTotals, PTL DEF Spec
<1> QED BY Invariance, <1>2, <1>3, PTL
=============================================================================
