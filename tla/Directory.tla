------------------------------ MODULE Directory ------------------------------
(***************************************************************************)
(* What a customer of module Access keeps: recipients, beneficiaries and   *)
(* cards.  Rows are named after the request that made them; a card's three *)
(* limits, and its four switches, are written together and stand as one    *)
(* value each.                                                             *)
(***************************************************************************)
EXTENDS Access

\* No recipient is there at the start; ids of new rows are new.
ASSUME DirectoryAssumption ==
  LET beneficiaries == CustomerOpening.beneficiaries
      cards == CustomerOpening.cards
  IN  /\ DOMAIN CustomerOpening.recipients = {}
      /\ DOMAIN Ask \cap (DOMAIN beneficiaries \cup DOMAIN cards) = {}
      /\ \A b \in DOMAIN beneficiaries : DOMAIN beneficiaries[b] = {"user", "deleted"}
      /\ \A k \in DOMAIN cards : DOMAIN cards[k] = {"user", "status", "limits", "toggles"}
      /\ \A c \in DOMAIN Ask : Ask[c].op = "adminCard" => Ask[c].column \in {"status", "limits"}
      /\ \A g \in Groups : IsFiniteSet(g)

\* db has the tables recipients, beneficiaries and cards beside those of Access.
Rest == <<wallets, fayda>>
-----------------------------------------------------------------------------
(* Recipients: Neo users and bank accounts that a customer pays.           *)

\* The unique indexes: owner, identity and status; a bank account without a
\* number is in none of them.
SameRecipient(a, b) == a.owner = b.owner /\ a.type = b.type /\ a.who = b.who /\ a.status = b.status /\ a.who # None
NewRecipient(owner, type, who) ==
  [owner |-> owner, type |-> type, who |-> who, favorite |-> FALSE, count |-> 1, status |-> "active"]
\* INSERT ... ON CONFLICT DO UPDATE counts the row up.
CountedUp(row) == [row EXCEPT !.count = @ + 1]
Upsert(id, row) ==
  LET table == db.recipients
      there == {x \in DOMAIN table : SameRecipient(table[x], row)}
  IN [db EXCEPT !.recipients = IF there = {} THEN Insert(table, id, row)
                               ELSE [x \in DOMAIN table |-> IF x \in there THEN CountedUp(table[x]) ELSE table[x]]]

\* Create: a Neo user must be somebody else who is known by phone or username.
ResolvesTo(c) == IF Req(c).type = "neo_user" THEN ResolveUser(Req(c).identifier) \ {TokenUser(c)} ELSE {Req(c).identifier}
KnownBank(c) == Req(c).type = "bank_account" => Req(c).bank # None
HandleCreateRecipient(c) ==
  /\ Begins(c, "createRecipient") /\ Authenticated(c) /\ UNCHANGED customerVars
  /\ \/ \E who \in ResolvesTo(c) :
          KnownBank(c) /\ call' = [call EXCEPT ![c].pc = "upsert", ![c].user = TokenUser(c),
                                               ![c].row = NewRecipient(TokenUser(c), Req(c).type, who)]
     \/ (ResolvesTo(c) = {} \/ ~KnownBank(c)) /\ Finish(c, FALSE)
\* SaveFromTransfer: after a payment, its counterparty; the payment has ended
\* whatever becomes of it.
SaveFromTransfer(c) ==
  /\ Begins(c, "saveRecipient") /\ UNCHANGED customerVars
  /\ IF KnownBank(c) THEN call' = [call EXCEPT ![c].pc = "upsert", ![c].user = Req(c).owner,
                                               ![c].row = NewRecipient(Req(c).owner, Req(c).type, Req(c).identifier)]
                     ELSE Finish(c, FALSE)
UpsertRecipient(c) ==
  /\ At(c, "upsert") /\ db' = Upsert(<<"recipient", c>>, call[c].row)
  /\ call' = [call EXCEPT ![c].pc = "done", ![c].took = TRUE] /\ UNCHANGED Rest

\* WHERE id = $1 AND owner_user_id = $2 AND status = 'active'
Own(c) == {x \in DOMAIN db.recipients : x = Req(c).id /\ db.recipients[x].owner = TokenUser(c) /\ db.recipients[x].status = "active"}
UpdateFavorite(x, favorite) == [db EXCEPT !.recipients[x].favorite = favorite]
HandleSetFavorite(c) ==
  /\ Begins(c, "favorite") /\ Authenticated(c) /\ UNCHANGED Rest
  /\ \/ \E x \in Own(c) : db' = UpdateFavorite(x, Req(c).favorite) /\ Finish(c, TRUE)
     \/ Own(c) = {} /\ Finish(c, FALSE) /\ UNCHANGED db
\* The index has room for one archived row of an identity: a second one fails.
ArchiveRow(x) == [db EXCEPT !.recipients[x].status = "archived"]
Archivable(x) == \A y \in DOMAIN db.recipients : ~SameRecipient(db.recipients[y], [db.recipients[x] EXCEPT !.status = "archived"])
HandleArchive(c) ==
  /\ Begins(c, "archive") /\ Authenticated(c) /\ UNCHANGED Rest
  /\ \/ \E x \in Own(c) : Archivable(x) /\ db' = ArchiveRow(x) /\ Finish(c, TRUE)
     \/ (\A x \in Own(c) : ~Archivable(x)) /\ Finish(c, FALSE) /\ UNCHANGED db
-----------------------------------------------------------------------------
(* Beneficiaries.                                                          *)

ValidBeneficiary(r) == r.relationship \in {"spouse", "child", "parent"}
CreateBeneficiary(c) ==
  /\ Begins(c, "addBeneficiary") /\ Authenticated(c) /\ UNCHANGED Rest
  /\ \/ /\ ValidBeneficiary(Req(c)) /\ Finish(c, TRUE)
        /\ db' = [db EXCEPT !.beneficiaries = Insert(@, c, [user |-> TokenUser(c), deleted |-> FALSE])]
     \/ Finish(c, FALSE) /\ UNCHANGED db
\* WHERE id = $1 AND user_id = $2 AND deleted_at IS NULL
SoftDelete(c) == {b \in DOMAIN db.beneficiaries : b = Req(c).id /\ db.beneficiaries[b] = [user |-> TokenUser(c), deleted |-> FALSE]}
DeleteBeneficiary(c) ==
  /\ Begins(c, "deleteBeneficiary") /\ Authenticated(c) /\ UNCHANGED Rest
  /\ \/ \E b \in SoftDelete(c) : /\ db' = [db EXCEPT !.beneficiaries[b].deleted = TRUE]
                                 /\ call' = [call EXCEPT ![c].pc = "done", ![c].took = TRUE]
     \/ SoftDelete(c) = {} /\ Finish(c, FALSE) /\ UNCHANGED db
-----------------------------------------------------------------------------
(* Cards.                                                                  *)

CardTypes == {"virtual", "physical", "ephemeral"}
DefaultLimit == 5
CreateCard(c) ==
  /\ Begins(c, "createCard") /\ Authenticated(c) /\ UNCHANGED Rest
  /\ IF Req(c).type \in CardTypes \cup {None}
     THEN /\ db' = [db EXCEPT !.cards = Insert(@, c, [user |-> TokenUser(c), status |-> "active", toggles |-> Req(c).toggles,
                                                      limits |-> IF Req(c).limits = 0 THEN DefaultLimit ELSE Req(c).limits])]
          /\ Finish(c, TRUE)
     ELSE Finish(c, FALSE) /\ UNCHANGED db

\* UpdateStatus, UpdateLimits and UpdateToggles look at the owner, then write
\* one column whatever it holds by then.
CardColumn == [cardStatus |-> "status", cardLimits |-> "limits", cardToggles |-> "toggles"]
HandleCard(c) ==
  /\ \E op \in DOMAIN CardColumn : Begins(c, op)
  /\ Authenticated(c) /\ UNCHANGED customerVars
  /\ IF Req(c).id \in DOMAIN db.cards /\ db.cards[Req(c).id].user = TokenUser(c)
     THEN StepWith(c, "writeCard", TokenUser(c)) ELSE Finish(c, FALSE)
UpdateCard(id, column, value) == [db EXCEPT !.cards[id][column] = value]
WriteCard(c) ==
  At(c, "writeCard") /\ db' = UpdateCard(Req(c).id, CardColumn[Req(c).op], Req(c).value) /\ Finish(c, TRUE) /\ UNCHANGED Rest

DirectoryStep(c) ==
  \/ HandleCreateRecipient(c) \/ SaveFromTransfer(c) \/ UpsertRecipient(c) \/ HandleSetFavorite(c) \/ HandleArchive(c)
  \/ CreateBeneficiary(c) \/ DeleteBeneficiary(c) \/ CreateCard(c) \/ HandleCard(c) \/ WriteCard(c)
-----------------------------------------------------------------------------
(* Properties.                                                             *)

\* The rows of the same owner and identity, and the requests that saved it.
Identity(row) == <<row.owner, row.type, row.who>>
Alike(row) == {x \in DOMAIN db.recipients : Identity(db.recipients[x]) = Identity(row)}
Counts == [x \in DOMAIN db.recipients |-> db.recipients[x].count]
SavedAs(row) ==
  {c \in Calls : call[c].took /\ Req(c).op \in {"createRecipient", "saveRecipient"} /\ Identity(call[c].row) = Identity(row)}

\* "One active recipient per owner + Neo user identity", and per bank account
\* with a number; its count is that of the requests that saved it.
RecipientsAreDistinct ==
  /\ \A x, y \in DOMAIN db.recipients : SameRecipient(db.recipients[x], db.recipients[y]) => x = y
  /\ \A x \in DOMAIN db.recipients :
       SumFunctionOnSet(Counts, Alike(db.recipients[x])) = Cardinality(SavedAs(db.recipients[x]))

ColumnOf(c) == IF Req(c).op \in DOMAIN CardColumn THEN CardColumn[Req(c).op] ELSE IF Req(c).op = "adminCard" THEN Req(c).column ELSE None
CardAsAsked(id, column) ==
  \/ db.cards[id][column] = CustomerOpening.cards[id][column]
  \/ \E c \in Calls : /\ call[c].pc = "done" /\ ColumnOf(c) = column
                      /\ Req(c).id = id /\ Req(c).value = db.cards[id][column]
                      /\ (Req(c).op # "adminCard" => call[c].user = CustomerOpening.cards[id].user)
CardsAsAsked == \A id \in DOMAIN CustomerOpening.cards : \A column \in {"status", "limits", "toggles"} : CardAsAsked(id, column)
\* A beneficiary is deleted once, by its user; what a card says comes from its
\* opening, or was asked for by its owner or by staff, and it keeps its owner.
OwnersDecide ==
  /\ \A b \in DOMAIN db.beneficiaries :
       LET deleters == {c \in Calls : call[c].took /\ Req(c).op = "deleteBeneficiary" /\ Req(c).id = b}
       IN Cardinality(deleters) <= 1 /\ \A c \in deleters : TokenUser(c) = db.beneficiaries[b].user
  /\ CardsAsAsked
-----------------------------------------------------------------------------
(* The inductive invariants.                                               *)

RecipientColumns == {"owner", "type", "who", "favorite", "count", "status"}
Saves(c) == Req(c).op \in {"createRecipient", "saveRecipient"}
RecipientCall(c) ==
  /\ call[c].pc = "upsert" => DOMAIN call[c].row = RecipientColumns /\ call[c].row.count = 1
  /\ Saves(c) /\ (call[c].took \/ <<"recipient", c>> \in DOMAIN db.recipients) => call[c].pc = "done"
  /\ Saves(c) /\ call[c].took => \E x \in DOMAIN db.recipients : Identity(db.recipients[x]) = Identity(call[c].row)
RecipientsInv ==
  /\ RecipientsAreDistinct
  /\ IsFiniteSet(DOMAIN db.recipients) /\ IsFiniteSet(Calls)
  /\ \A x \in DOMAIN db.recipients : DOMAIN db.recipients[x] = RecipientColumns /\ db.recipients[x].count \in Int
  /\ \A c \in Calls : RecipientCall(c)

Deleter(c) == Req(c).op = "deleteBeneficiary" /\ call[c].took
BeneficiariesInv ==
  /\ \A b \in DOMAIN db.beneficiaries : DOMAIN db.beneficiaries[b] = {"user", "deleted"}
  /\ \A c \in Calls :
       /\ c \in DOMAIN db.beneficiaries => call[c].pc = "done"
       /\ Deleter(c) =>
            /\ Req(c).token \in DOMAIN db.sessions /\ Req(c).id \in DOMAIN db.beneficiaries
            /\ db.beneficiaries[Req(c).id].deleted = TRUE
            /\ db.beneficiaries[Req(c).id].user = TokenUser(c)
  /\ \A c, d \in Calls : Deleter(c) /\ Deleter(d) /\ Req(c).id = Req(d).id => c = d

CardsInv ==
  /\ \A id \in DOMAIN CustomerOpening.cards :
       /\ id \in DOMAIN db.cards /\ DOMAIN db.cards[id] = {"user", "status", "limits", "toggles"}
       /\ db.cards[id].user = CustomerOpening.cards[id].user
       /\ \A c \in Calls : call[c].pc = "writeCard" /\ Req(c).id = id => call[c].user = CustomerOpening.cards[id].user
  /\ CardsAsAsked
=============================================================================
