------------------------------- MODULE Access -------------------------------
(***************************************************************************)
(* Customers' accounts: registration, login, refresh, logout and password  *)
(* change, identity checks with Fayda, linking of a Telegram account and   *)
(* the order of currencies to spend from.                                  *)
(*                                                                         *)
(* A request runs one SQL statement or one call of a service per step; no  *)
(* transaction spans two of them, so other requests, a failure or a death  *)
(* may come in between.  Rows and tokens are named after the request that  *)
(* made them.  Time is left out: wherever the code compares a time, both   *)
(* answers are possible.                                                   *)
(***************************************************************************)
EXTENDS Integers, Sequences, FiniteSetsExt

CONSTANTS
  Ask,        \* Ask[c]: what request c asks for; it is sent at most once
  Groups,     \* sets of requests: a behaviour sends those of one of them
  CustomerOpening, \* the customers' tables when the model starts
  Currencies, \* codes that money.LookupCurrency knows
  MaxStarts   \* bound: requests served

ASSUME AccessAssumption == MaxStarts \in Nat /\ "ETB" \in Currencies
                           /\ \A g \in Groups : g \subseteq DOMAIN Ask

\* The forms of requests: passwords, the FIN and the Telegram account are required.
ASSUME FormAssumption ==
  \A c \in DOMAIN Ask :
    /\ c # "none"
    /\ Ask[c].op = "register" => Ask[c].password # "none"
    /\ Ask[c].op \in {"changePassword", "staffPassword"} => Ask[c].new # "none"
    /\ Ask[c].op = "verifyOTP" => Ask[c].fin # "none"
    /\ Ask[c].op = "linkTelegram" => Ask[c].telegram # "none"

Tables == {"users", "sessions", "recipients", "beneficiaries", "cards", "kyc", "balances", "links"}
UserColumns == {"phone", "username", "pass", "frozen", "kyc", "name", "telegram", "waterfall"}

\* The tables at the start are such as the code leaves them, and the ids of
\* new rows are new.
ASSUME CustomersAssumption ==
  LET users == CustomerOpening.users
      sessions == CustomerOpening.sessions
  IN  /\ DOMAIN CustomerOpening = Tables
      /\ DOMAIN Ask \cap (DOMAIN users \cup DOMAIN sessions) = {}
      /\ \A u \in DOMAIN users : DOMAIN users[u] = UserColumns /\ (users[u].kyc > 1 => users[u].name # "none")
      /\ \A u, v \in DOMAIN users : u # v =>
           /\ users[u].phone # users[v].phone
           /\ users[u].username # "none" => users[u].username # users[v].username
           /\ users[u].telegram # "none" => users[u].telegram # users[v].telegram
      /\ \A s \in DOMAIN sessions :
           /\ DOMAIN sessions[s] = {"user", "revoked", "chain"} /\ sessions[s].revoked \in BOOLEAN
           /\ sessions[s].user \in DOMAIN users /\ users[sessions[s].user].pass # "none"
           /\ \A t \in sessions[s].chain : t \in DOMAIN sessions /\ sessions[t].user = sessions[s].user
           /\ s \in DOMAIN users => s \in CustomerOpening.balances
      /\ \A k \in DOMAIN CustomerOpening.links : DOMAIN CustomerOpening.links[k] = {"user", "consumed"}

VARIABLES
  db,      \* tables users, sessions, kyc and links
  wallets, \* accounts of users in the ledger
  fayda,   \* <<fin, transaction>> that Fayda has sent an OTP for
  call,    \* call[c]: where request c is and what it has read
  starts   \* requests started

customerVars == <<db, wallets, fayda>>

None == "none"   \* SQL NULL
KYCBasic == 1
KYCVerified == 2

AccessInit ==
  /\ db = CustomerOpening
  /\ wallets = DOMAIN CustomerOpening.users
  /\ fayda = {}
  /\ \E g \in Groups :
       call = [c \in g |-> [pc |-> "new", ask |-> Ask[c], user |-> None, took |-> FALSE,
                            cut |-> {}, flying |-> {}, row |-> <<>>]]
  /\ starts = 0

Calls == DOMAIN call
Req(c) == call[c].ask
InFlight(c) == call[c].pc \notin {"new", "done", "failed"}
Begins(c, op) == /\ call[c].pc = "new" /\ Req(c).op = op
                 /\ starts < MaxStarts /\ starts' = starts + 1
At(c, step) == call[c].pc = step /\ UNCHANGED starts
StepTo(c, step) == call' = [call EXCEPT ![c].pc = step]
StepWith(c, step, u) == call' = [call EXCEPT ![c].pc = step, ![c].user = u]
Finish(c, ok) == StepTo(c, IF ok THEN "done" ELSE "failed")
Insert(table, id, row) == [x \in DOMAIN table \cup {id} |-> IF x = id THEN row ELSE table[x]]

GetByPhone(phone) == {u \in DOMAIN db.users : db.users[u].phone = phone}
GetByUsername(name) == {u \in DOMAIN db.users : db.users[u].username = name}
GetByTelegramID(id) == {u \in DOMAIN db.users : db.users[u].telegram = id}
-----------------------------------------------------------------------------
(* Registration, with a password (services/auth) or without (onboarding).  *)

\* Register takes a lookup that fails for "the phone is free".
CheckPhone(c) ==
  \/ GetByPhone(Req(c).phone) # {} /\ Finish(c, FALSE)
  \/ StepTo(c, "checkUsername")
HandleRegister(c) == Begins(c, "register") /\ CheckPhone(c) /\ UNCHANGED customerVars
CheckUsername(c) ==
  /\ At(c, "checkUsername")
  /\ \/ GetByUsername(Req(c).username) # {} /\ Finish(c, FALSE)
     \/ StepTo(c, "createUser")
  /\ UNCHANGED customerVars

\* RegisterUser answers with the user that has the phone already.
RegisterUser(c) == IF GetByPhone(Req(c).phone) # {} THEN Finish(c, TRUE) ELSE StepTo(c, "createUser")
HandleOnboard(c) == Begins(c, "onboard") /\ RegisterUser(c) /\ UNCHANGED customerVars

\* UNIQUE (country_code, number) and UNIQUE (username).
Taken(r) == GetByPhone(r.phone) # {} \/ (r.username # None /\ GetByUsername(r.username) # {})
NewUser(r) ==
  [phone |-> r.phone, username |-> r.username, pass |-> r.password, frozen |-> FALSE,
   kyc |-> KYCBasic, name |-> None, telegram |-> None, waterfall |-> <<>>]
CreateUser(c) ==
  /\ At(c, "createUser")
  /\ IF Taken(Req(c)) THEN Finish(c, FALSE) /\ UNCHANGED db
                      ELSE /\ db' = [db EXCEPT !.users = Insert(@, c, NewUser(Req(c)))]
                           /\ StepWith(c, "createWallet", c)
  /\ UNCHANGED <<wallets, fayda>>

CreateWallet(c) ==
  /\ At(c, "createWallet")
  /\ wallets' = wallets \cup {c}
  /\ StepTo(c, "defaultBalance")
  /\ UNCHANGED <<db, fayda>>

\* CreateDefaultBalance: module Wallets has its steps.
CreateDefaultBalance(c) ==
  /\ At(c, "defaultBalance")
  /\ db' = [db EXCEPT !.balances = @ \cup {c}]
  /\ StepTo(c, IF Req(c).op = "register" THEN "createSession" ELSE "done")
  /\ UNCHANGED <<wallets, fayda>>
-----------------------------------------------------------------------------
(* Sessions.                                                               *)

\* chain: the requests that led to the session, from the login on.
CreateSession(c) ==
  LET before == IF Req(c).op = "refresh" THEN db.sessions[Req(c).token].chain ELSE {}
      row == [user |-> call[c].user, revoked |-> FALSE, chain |-> before \cup {c}]
  IN  /\ At(c, "createSession")
      /\ db' = [db EXCEPT !.sessions = Insert(@, c, row)]
      /\ Finish(c, TRUE)
      /\ UNCHANGED <<wallets, fayda>>

ResolveUser(identifier) == GetByPhone(identifier) \cup GetByUsername(identifier)
MatchPassword(u, password) == db.users[u].pass # None /\ db.users[u].pass = password

Login(identifier, password) ==
  {u \in ResolveUser(identifier) : MatchPassword(u, password) /\ ~db.users[u].frozen}
HandleLogin(c) ==
  LET who == Login(Req(c).identifier, Req(c).password) IN
  /\ Begins(c, "login")
  /\ \/ \E u \in who : StepWith(c, "createSession", u)
     \/ who = {} /\ Finish(c, FALSE)
  /\ UNCHANGED customerVars

GetByRefreshToken(token) == DOMAIN db.sessions \cap {token}

\* A session that is unknown, revoked or expired is refused.
RefreshMutant(token) == token \in DOMAIN db.sessions
Refresh(token) == \E s \in GetByRefreshToken(token) : ~db.sessions[s].revoked
HandleRefresh(c) ==
  /\ Begins(c, "refresh")
  /\ \/ Refresh(Req(c).token) /\ StepWith(c, "revokeOld", db.sessions[Req(c).token].user)
     \/ Finish(c, FALSE)
  /\ UNCHANGED customerVars

\* WHERE id = $1 AND revoked_at IS NULL: of two, one gets no row.
Revocable(token) == ~db.sessions[token].revoked
RevokeSession(token) == [db EXCEPT !.sessions[token].revoked = TRUE]

\* Refresh ignores what Revoke answers, be it an error or no row.
RevokeOld(c) ==
  /\ At(c, "revokeOld")
  /\ \/ /\ Revocable(Req(c).token)
        /\ db' = RevokeSession(Req(c).token)
        /\ call' = [call EXCEPT ![c].pc = "loadUser", ![c].took = TRUE]
     \/ StepTo(c, "loadUser") /\ UNCHANGED db
  /\ UNCHANGED <<wallets, fayda>>
LoadUser(c) ==
  /\ At(c, "loadUser")
  /\ IF db.users[call[c].user].frozen THEN Finish(c, FALSE) ELSE StepTo(c, "createSession")
  /\ UNCHANGED customerVars

\* An access token stands for the user it was made for, whatever has become of
\* its session; it may be found expired.
TokenUser(c) == db.sessions[Req(c).token].user
Authenticated(c) == GetByRefreshToken(Req(c).token) # {}

HandleLogout(c) ==
  /\ Begins(c, "logout")
  /\ IF GetByRefreshToken(Req(c).token) = {} THEN Finish(c, TRUE) ELSE StepTo(c, "revoke")
  /\ UNCHANGED customerVars
Logout(c) ==
  /\ At(c, "revoke")
  /\ IF Revocable(Req(c).token)
       THEN /\ db' = RevokeSession(Req(c).token)
            /\ call' = [call EXCEPT ![c].pc = "done", ![c].took = TRUE]
       ELSE Finish(c, FALSE) /\ UNCHANGED db
  /\ UNCHANGED <<wallets, fayda>>

\* The password is compared with a row read before, then written over
\* whatever the row holds.
ChangePassword(c, u) ==
  IF MatchPassword(u, Req(c).password) THEN StepWith(c, "updatePassword", u) ELSE Finish(c, FALSE)
HandleChangePassword(c) ==
  /\ Begins(c, "changePassword") /\ Authenticated(c)
  /\ ChangePassword(c, TokenUser(c))
  /\ UNCHANGED customerVars
UpdatePassword(c) ==
  /\ At(c, "updatePassword")
  /\ db' = [db EXCEPT !.users[call[c].user].pass = Req(c).new]
  /\ StepTo(c, "revokeAll")
  /\ UNCHANGED <<wallets, fayda>>

SessionsOf(u) == {s \in DOMAIN db.sessions : db.sessions[s].user = u}
RevokeAllForUser(u) ==
  [db EXCEPT !.sessions = [s \in DOMAIN @ |-> IF s \in SessionsOf(u) THEN [@[s] EXCEPT !.revoked = TRUE] ELSE @[s]]]

\* An error is ignored.  cut and flying record what there was at the time.
RevokeAll(c) ==
  /\ At(c, "revokeAll")
  /\ \/ /\ db' = RevokeAllForUser(call[c].user)
        /\ call' = [call EXCEPT ![c].pc = "done", ![c].took = TRUE, ![c].cut = SessionsOf(call[c].user),
                                ![c].flying = {d \in Calls : InFlight(d)}]
     \/ Finish(c, TRUE) /\ UNCHANGED db
  /\ UNCHANGED <<wallets, fayda>>
-----------------------------------------------------------------------------
(* Identity checks.                                                        *)

\* What Fayda does when the client reaches it.
SendsOTP(fin, tx) == fayda \cup {<<fin, tx>>}
VerifyAndFetchKYC(fin, tx) == <<fin, tx>> \in fayda

RequestOTP(c) ==
  \/ fayda' = SendsOTP(Req(c).fin, <<"tx", c>>) /\ StepWith(c, "recordKYC", TokenUser(c))
  \/ Finish(c, FALSE) /\ UNCHANGED fayda
HandleRequestOTP(c) ==
  Begins(c, "requestOTP") /\ Authenticated(c) /\ RequestOTP(c) /\ UNCHANGED <<db, wallets>>
CreateVerification(c) ==
  /\ At(c, "recordKYC")
  /\ db' = [db EXCEPT !.kyc = Insert(@, <<"row", c>>, [user |-> call[c].user, tx |-> <<"tx", c>>, status |-> "pending"])]
  /\ Finish(c, TRUE)
  /\ UNCHANGED <<wallets, fayda>>

\* UpdateStatus goes by the id of the row.
UpdateKYCStatus(id, status) ==
  IF id \in DOMAIN db.kyc THEN [db EXCEPT !.kyc[id].status = status] ELSE db

\* Fayda confirms only what it has sent an OTP for.  After a refusal VerifyOTP
\* passes UpdateStatus the transaction, which is no row's id.
VerifyOTP(c) ==
  \/ /\ VerifyAndFetchKYC(Req(c).fin, Req(c).tx)
     /\ StepWith(c, "demographics", TokenUser(c)) /\ UNCHANGED db
  \/ Finish(c, FALSE) /\ db' = UpdateKYCStatus(Req(c).tx, "failed")
HandleVerifyOTP(c) ==
  Begins(c, "verifyOTP") /\ Authenticated(c) /\ VerifyOTP(c) /\ UNCHANGED <<wallets, fayda>>

\* COALESCE: the answer's full name becomes the first name.
UpdateDemographics(c) ==
  /\ At(c, "demographics")
  /\ db' = [db EXCEPT !.users[call[c].user].name = Req(c).fin]
  /\ StepTo(c, "raiseLevel")
  /\ UNCHANGED <<wallets, fayda>>
UpdateKYCLevel(u, level) == [db EXCEPT !.users[u].kyc = level]
RaiseLevel(c) ==
  /\ At(c, "raiseLevel")
  /\ db' = UpdateKYCLevel(call[c].user, KYCVerified)
  /\ Finish(c, TRUE)
  /\ UNCHANGED <<wallets, fayda>>
-----------------------------------------------------------------------------
(* Telegram and the spending order.                                        *)

\* One UPDATE: a token that is unknown, consumed or expired has no row.
Consumable(link) == link \in DOMAIN db.links /\ ~db.links[link].consumed
Consume(link) == [db EXCEPT !.links[link].consumed = TRUE]
\* HandleUpdate answers the chat in either case.
HandleDeepLink(c) ==
  /\ Begins(c, "linkTelegram")
  /\ \/ /\ Consumable(Req(c).link)
        /\ db' = Consume(Req(c).link)
        /\ StepWith(c, "bind", db.links[Req(c).link].user)
     \/ Finish(c, FALSE) /\ UNCHANGED db
  /\ UNCHANGED <<wallets, fayda>>
\* telegram_id is unique.
BindTelegram(c) ==
  /\ At(c, "bind")
  /\ IF GetByTelegramID(Req(c).telegram) \ {call[c].user} = {}
       THEN db' = [db EXCEPT !.users[call[c].user].telegram = Req(c).telegram] /\ Finish(c, TRUE)
       ELSE Finish(c, FALSE) /\ UNCHANGED db
  /\ UNCHANGED <<wallets, fayda>>

ValidWaterfall(order) ==
  /\ order # <<>> /\ order[Len(order)] = "ETB"
  /\ \A i \in 1 .. Len(order) : order[i] \in Currencies \cup {"merchant_currency"}
UpdateSpendWaterfall(u, order) == [db EXCEPT !.users[u].waterfall = order]
HandleWaterfall(c) ==
  /\ Begins(c, "waterfall") /\ Authenticated(c)
  /\ IF ValidWaterfall(Req(c).order)
       THEN db' = UpdateSpendWaterfall(TokenUser(c), Req(c).order) /\ Finish(c, TRUE)
       ELSE Finish(c, FALSE) /\ UNCHANGED db
  /\ UNCHANGED <<wallets, fayda>>
-----------------------------------------------------------------------------
\* A statement or a service fails, or the process dies.
Dies(c) == InFlight(c) /\ Finish(c, FALSE) /\ UNCHANGED <<db, wallets, fayda, starts>>

Registers(c) == \/ HandleRegister(c) \/ CheckUsername(c) \/ HandleOnboard(c) \/ CreateUser(c)
                \/ CreateWallet(c) \/ CreateDefaultBalance(c)
Sessions(c) == \/ CreateSession(c) \/ HandleLogin(c) \/ HandleRefresh(c) \/ RevokeOld(c) \/ LoadUser(c)
               \/ HandleLogout(c) \/ Logout(c)
               \/ HandleChangePassword(c) \/ UpdatePassword(c) \/ RevokeAll(c)
Identifies(c) == \/ HandleRequestOTP(c) \/ CreateVerification(c) \/ HandleVerifyOTP(c)
                 \/ UpdateDemographics(c) \/ RaiseLevel(c)
Settings(c) == HandleDeepLink(c) \/ BindTelegram(c) \/ HandleWaterfall(c)

CustomerStep(c) == Registers(c) \/ Sessions(c) \/ Identifies(c) \/ Settings(c) \/ Dies(c)
-----------------------------------------------------------------------------
(* Properties.                                                             *)

Live(s) == ~db.sessions[s].revoked

\* One request at most takes a session away: a refresh or a logout.  Two
\* refreshes of one token may both answer with a session, but then one of them
\* went on although its Revoke had changed nothing.
OneTaker ==
  \A s \in DOMAIN db.sessions :
    Cardinality({c \in Calls : call[c].took /\ Req(c).op \in {"refresh", "logout"} /\ Req(c).token = s}) <= 1

\* ChangePassword revokes the sessions of its user: none of them lives again,
\* and a live session that goes back to one of them was already under way when
\* they were revoked.
RevokedStayOut ==
  \A c \in Calls : (Req(c).op = "changePassword" /\ call[c].took) =>
    \A s \in SessionsOf(call[c].user) : Live(s) =>
      /\ s \notin call[c].cut
      /\ db.sessions[s].chain \cap call[c].cut # {} => db.sessions[s].chain \cap call[c].flying # {}

\* All requests of a chain are of one user, who could log in when it began.
ChainsAreOfOneUser ==
  \A s \in DOMAIN db.sessions :
    /\ db.sessions[s].user \in DOMAIN db.users /\ db.users[db.sessions[s].user].pass # None
    /\ \A c \in db.sessions[s].chain : db.sessions[c].user = db.sessions[s].user

\* Sessions come from logins and refreshes as the code of services/auth
\* intends, however its requests overlap and fail.
SessionsAreEarned == OneTaker /\ RevokedStayOut /\ ChainsAreOfOneUser

\* Registration checks, creates and provisions in separate steps: no two users
\* share a phone or a username, and a registration that answered yes has left
\* a user with a wallet and a balance.
RegistrationIsWhole ==
  /\ \A u, v \in DOMAIN db.users : u # v =>
       /\ db.users[u].phone # db.users[v].phone
       /\ db.users[u].username # None => db.users[u].username # db.users[v].username
  /\ \A s \in DOMAIN db.sessions : s \in DOMAIN db.users => s \in wallets \cap db.balances
  /\ \A c \in Calls : (Req(c).op = "onboard" /\ call[c].pc = "done") => GetByPhone(Req(c).phone) # {}

\* A link token binds one account at most, and one Telegram account speaks for
\* one user at most.
LinksBindOnce ==
  /\ \A id \in {Req(c).telegram : c \in {d \in Calls : Req(d).op = "linkTelegram"}} :
       Cardinality(GetByTelegramID(id)) <= 1
  /\ \A k \in DOMAIN db.links :
       Cardinality({c \in Calls : Req(c).op = "linkTelegram" /\ Req(c).link = k /\ call[c].user # None}) <= 1
-----------------------------------------------------------------------------
(* The inductive invariant of the sessions.                                *)

Fields == {"pc", "ask", "user", "took", "cut", "flying", "row"}
SessionRows ==
  /\ DOMAIN db = Tables
  /\ \A u \in DOMAIN db.users : DOMAIN db.users[u] = UserColumns
  /\ \A s \in DOMAIN db.sessions : /\ DOMAIN db.sessions[s] = {"user", "revoked", "chain"}
                                    /\ db.sessions[s].revoked \in BOOLEAN
                                    /\ db.sessions[s].chain \subseteq DOMAIN db.sessions
  /\ \A c \in Calls : /\ c \in DOMAIN Ask /\ call[c].ask = Ask[c]
                       /\ DOMAIN call[c] = Fields /\ call[c].took \in BOOLEAN

\* Who may have a session.
HasPassword(u) == u \in DOMAIN db.users /\ db.users[u].pass # None
Refreshing(c) == Req(c).op = "refresh" /\ call[c].pc \in {"revokeOld", "loadUser", "createSession"}
\* c has taken a session away, or all those of its user.
Taker(c) == Req(c).op \in {"refresh", "logout"} /\ call[c].took
Changer(c) == Req(c).op = "changePassword" /\ call[c].took

\* What a request has been through, from the step it is at.
Placed(c) ==
  LET at(steps) == call[c].pc \in steps IN
  /\ at({"checkUsername", "createUser", "createWallet", "defaultBalance"}) => Req(c).op \in {"register", "onboard"}
  /\ at({"createWallet", "defaultBalance"}) => call[c].user = c /\ (Req(c).op = "register" => HasPassword(c))
  /\ at({"createSession"}) => Req(c).op \in {"register", "login", "refresh"} /\ HasPassword(call[c].user)
  /\ at({"revokeOld", "loadUser"}) => Req(c).op = "refresh"
  /\ at({"revoke"}) => Req(c).op = "logout" /\ Req(c).token \in DOMAIN db.sessions
  /\ at({"updatePassword", "revokeAll"}) => Req(c).op = "changePassword"
  /\ at({"upsert"}) => Req(c).op \in {"createRecipient", "saveRecipient"}
  /\ at({"new"}) => ~call[c].took
  /\ at({"new", "checkUsername", "createUser"}) => c \notin DOMAIN db.users
SessionCall(c) ==
  /\ Placed(c)
  /\ c \in DOMAIN db.sessions => call[c].pc = "done"
  /\ Refreshing(c) => Req(c).token \in DOMAIN db.sessions /\ call[c].user = db.sessions[Req(c).token].user
  /\ Taker(c) => Req(c).token \in DOMAIN db.sessions /\ ~Live(Req(c).token)
  /\ Changer(c) => call[c].cut \subseteq SessionsOf(call[c].user) /\ \A s \in call[c].cut : ~Live(s)
SessionCalls == \A c \in Calls : SessionCall(c)

OneTakerEach == \A c, d \in Calls : Taker(c) /\ Taker(d) /\ Req(c).token = Req(d).token => c = d

\* s does not go back to what c revoked, or came about meanwhile.
Beyond(c, s) == db.sessions[s].chain \cap call[c].cut # {} => db.sessions[s].chain \cap call[c].flying # {}
CutsHold ==
  \A c \in Calls : Changer(c) =>
    /\ \A s \in SessionsOf(call[c].user) : Live(s) => Beyond(c, s)
    /\ \A d \in Calls : Refreshing(d) /\ d \notin call[c].flying => Beyond(c, Req(d).token)

SessionInv == SessionRows /\ SessionCalls /\ OneTakerEach /\ CutsHold /\ ChainsAreOfOneUser
-----------------------------------------------------------------------------
(* The inductive invariants of registration and of links.                  *)

RegistrationInv ==
  /\ RegistrationIsWhole
  /\ \A c \in Calls :
       /\ c \in DOMAIN db.users => Req(c).op \in {"register", "onboard"} /\ db.users[c].phone = Req(c).phone
       /\ call[c].pc \in {"createWallet", "defaultBalance"} => c \in DOMAIN db.users
       /\ call[c].pc = "defaultBalance" => c \in wallets
       /\ call[c].pc = "createSession" /\ Req(c).op = "register" => c \in wallets \cap db.balances

Linker(c) == Req(c).op = "linkTelegram" /\ call[c].user # None
LinksInv ==
  /\ \A k \in DOMAIN db.links : DOMAIN db.links[k] = {"user", "consumed"}
  /\ \A u, v \in DOMAIN db.users : \A c \in Calls :
       (Req(c).op = "linkTelegram" /\ {u, v} \subseteq GetByTelegramID(Req(c).telegram)) => u = v
  /\ \A c \in Calls : Linker(c) => Req(c).link \in DOMAIN db.links /\ db.links[Req(c).link].consumed
  /\ \A c, d \in Calls : Linker(c) /\ Linker(d) /\ Req(c).link = Req(d).link => c = d
=============================================================================
