---------------------------- MODULE MCBackOffice ----------------------------
(* An instance of BackOffice for TLC: two customers, one of them logged in,  *)
(* an administrator and an analyst with tokens, and requests of every kind,  *)
(* any four of a group overlap.                                              *)
EXTENDS BackOffice

User(phone, username, pass) ==
  [phone |-> phone, username |-> username, pass |-> pass, frozen |-> FALSE, kyc |-> 1,
   name |-> "none", telegram |-> "none", waterfall |-> <<>>]
MCOpening ==
  [users |-> [ann |-> User("+1", "ann_", "pw"), bob |-> User("+2", "none", "none")],
   sessions |-> [home |-> [user |-> "ann", revoked |-> FALSE, chain |-> {"home"}]],
   recipients |-> <<>>,
   beneficiaries |-> [kin |-> [user |-> "ann", deleted |-> FALSE], other |-> [user |-> "bob", deleted |-> FALSE]],
   cards |-> [card |-> [user |-> "ann", status |-> "active", limits |-> 5, toggles |-> 0],
              bobs |-> [user |-> "bob", status |-> "active", limits |-> 5, toggles |-> 0]],
   kyc |-> [x \in {} |-> 0], balances |-> {"ann", "bob"},
   links |-> [link |-> [user |-> "ann", consumed |-> FALSE], link2 |-> [user |-> "bob", consumed |-> FALSE]]]

MCOffice ==
  [staff |-> [root |-> [email |-> "root@", name |-> "Root", role |-> "super_admin", pass |-> "rp", active |-> TRUE],
              rae |-> [email |-> "rae@", name |-> "Rae", role |-> "reconciliation_analyst", pass |-> "ap", active |-> TRUE]],
   tokens |-> [rootT |-> [staff |-> "root", role |-> "super_admin"],
               raeT |-> [staff |-> "rae", role |-> "reconciliation_analyst"]],
   flags |-> [flag |-> [user |-> "ann", by |-> "root", resolver |-> "none"]],
   exceptions |-> [x \in {<<"old", 1>>} |-> [ref |-> "r0", type |-> "status_mismatch", status |-> "open", assigned |-> "none"]],
   runs |-> [old |-> [date |-> 1, matched |-> 2, exceptions |-> 1, status |-> "completed"]]]
MCFile == <<[ref |-> "r1", cents |-> 5], [ref |-> "r2", cents |-> 6], [ref |-> "none", cents |-> 0], [ref |-> "r3", cents |-> 7]>>
MCReceiptOf == [r1 |-> 5, r2 |-> 9]

Reg(phone, name) == [op |-> "register", phone |-> phone, username |-> name, password |-> "pw"]
On(op, token) == [op |-> op, token |-> token]
Recipient(type, identifier, bank) ==
  [op |-> "createRecipient", token |-> "home", type |-> type, identifier |-> identifier, bank |-> bank]
Saved(type, identifier, bank) == [op |-> "saveRecipient", owner |-> "ann", type |-> type, identifier |-> identifier, bank |-> bank]
Card(op, id, value) == [op |-> op, token |-> "home", id |-> id, value |-> value]
Staffs(op, token, id) == [op |-> op, token |-> token, id |-> id]
MCAsk ==
  [reg |-> Reg("+3", "cy"), regToo |-> Reg("+3", "di"), regName |-> Reg("+4", "cy"),
   walkIn |-> [op |-> "onboard", phone |-> "+3", username |-> "none", password |-> "none"],
   login |-> [op |-> "login", identifier |-> "+1", password |-> "pw"],
   loginNew |-> [op |-> "login", identifier |-> "cy", password |-> "pw"],
   loginBob |-> [op |-> "login", identifier |-> "+2", password |-> "none"],
   more |-> On("refresh", "home"), moreToo |-> On("refresh", "home"), evenMore |-> On("refresh", "more"),
   leave |-> On("logout", "home"), leaveMore |-> On("logout", "more"),
   change |-> [op |-> "changePassword", token |-> "home", password |-> "pw", new |-> "pw2"],
   changeToo |-> [op |-> "changePassword", token |-> "home", password |-> "pw", new |-> "pw3"],
   otp |-> [op |-> "requestOTP", token |-> "home", fin |-> "F1"],
   verify |-> [op |-> "verifyOTP", token |-> "home", fin |-> "F1", tx |-> <<"tx", "otp">>],
   link1 |-> [op |-> "linkTelegram", link |-> "link", telegram |-> "t1"],
   link1too |-> [op |-> "linkTelegram", link |-> "link", telegram |-> "t2"],
   linkBob |-> [op |-> "linkTelegram", link |-> "link2", telegram |-> "t1"],
   order |-> [op |-> "waterfall", token |-> "home", order |-> <<"USD", "ETB">>],
   orderBad |-> [op |-> "waterfall", token |-> "home", order |-> <<"ETB", "USD">>],
   rootIn |-> [op |-> "adminLogin", email |-> "root@", password |-> "rp"],
   raeIn |-> [op |-> "adminLogin", email |-> "rae@", password |-> "ap"],
   hire |-> [op |-> "createStaff", token |-> "rootT", email |-> "new@", name |-> "New", role |-> "auditor", password |-> "np"],
   hireRae |-> [op |-> "createStaff", token |-> "rootT", email |-> "rae@", name |-> "Rae", role |-> "auditor", password |-> "np"],
   promote |-> [op |-> "updateStaff", token |-> "rootT", id |-> "rae", name |-> "none", role |-> "auditor"],
   rename |-> [op |-> "updateStaff", token |-> "rootT", id |-> "rae", name |-> "Ray", role |-> "none"],
   raePass |-> [op |-> "staffPassword", token |-> "raeT", password |-> "ap", new |-> "ap2"],
   fire |-> Staffs("deactivateStaff", "rootT", "rae"), fireRoot |-> Staffs("deactivateStaff", "raeT", "root"),
   fireNobody |-> Staffs("deactivateStaff", "rootT", "nobody"),
   renameNobody |-> [op |-> "updateStaff", token |-> "rootT", id |-> "nobody", name |-> "X", role |-> "none"],
   freeze |-> Staffs("freeze", "rootT", "ann"), unfreeze |-> Staffs("unfreeze", "rootT", "ann"),
   override |-> [op |-> "overrideKYC", token |-> "rootT", id |-> "ann", level |-> 3],
   flagBob |-> Staffs("createFlag", "rootT", "bob"),
   clear |-> Staffs("resolveFlag", "rootT", "flag"), clearToo |-> Staffs("resolveFlag", "rootT", "flag"),
   toBob |-> Recipient("neo_user", "+2", "none"), toSelf |-> Recipient("neo_user", "ann_", "none"),
   toBank |-> Recipient("bank_account", "acct", "cbe"), toNoBank |-> Recipient("bank_account", "acct", "none"),
   paidBob |-> Saved("neo_user", "bob", "none"), paidBank |-> Saved("bank_account", "acct", "cbe"),
   paidNoBank |-> Saved("bank_account", "acct", "none"), paidOpen |-> Saved("bank_account", "none", "cbe"),
   paidOpenToo |-> Saved("bank_account", "none", "cbe"),
   star |-> [op |-> "favorite", token |-> "home", id |-> <<"recipient", "paidBob">>, favorite |-> TRUE],
   drop |-> [op |-> "archive", token |-> "home", id |-> <<"recipient", "toBob">>],
   dropToo |-> [op |-> "archive", token |-> "home", id |-> <<"recipient", "paidBob">>],
   addKin |-> [op |-> "addBeneficiary", token |-> "home", relationship |-> "child"],
   addFriend |-> [op |-> "addBeneficiary", token |-> "home", relationship |-> "friend"],
   dropKin |-> [op |-> "deleteBeneficiary", token |-> "home", id |-> "kin"],
   dropKinToo |-> [op |-> "deleteBeneficiary", token |-> "home", id |-> "kin"],
   dropOther |-> [op |-> "deleteBeneficiary", token |-> "home", id |-> "other"],
   newCard |-> [op |-> "createCard", token |-> "home", type |-> "none", limits |-> 0, toggles |-> 1],
   badCard |-> [op |-> "createCard", token |-> "home", type |-> "gold", limits |-> 1, toggles |-> 1],
   useCard |-> Card("cardStatus", "card", "active"), capCard |-> Card("cardLimits", "card", 2),
   switchCard |-> Card("cardToggles", "card", 3), bobsCard |-> Card("cardLimits", "bobs", 9),
   endCard |-> [op |-> "adminCard", token |-> "rootT", id |-> "card", column |-> "status", value |-> "cancelled"],
   limitCard |-> [op |-> "adminCard", token |-> "rootT", id |-> "card", column |-> "limits", value |-> 7],
   raeCard |-> [op |-> "adminCard", token |-> "raeT", id |-> "card", column |-> "limits", value |-> 8],
   recon |-> [op |-> "reconcile"], reconToo |-> [op |-> "reconcile"],
   assign |-> [op |-> "assign", token |-> "raeT", id |-> <<"recon", 2>>, to |-> "rae"],
   look |-> Staffs("investigate", "raeT", <<"old", 1>>), settle |-> Staffs("resolve", "raeT", <<"recon", 2>>),
   raise |-> Staffs("escalate", "raeT", <<"old", 1>>)]
MCGroups ==
  {{"reg", "regToo", "regName", "walkIn", "loginNew"},
   {"login", "more", "moreToo", "evenMore", "leave", "leaveMore", "change", "changeToo", "freeze", "unfreeze"},
   {"otp", "verify", "override", "order", "orderBad", "freeze"},
   {"link1", "link1too", "linkBob", "loginBob"},
   {"rootIn", "raeIn", "hire", "hireRae", "promote", "rename", "raePass", "fire", "fireRoot"},
   {"flagBob", "clear", "clearToo", "fireRoot", "fireNobody", "renameNobody"},
   {"toBob", "toSelf", "paidBob", "star", "drop", "dropToo"}, {"toBank", "toNoBank", "paidBank", "paidNoBank", "paidOpen", "paidOpenToo"},
   {"addKin", "addFriend", "dropKin", "dropKinToo", "dropOther"},
   {"newCard", "badCard", "useCard", "capCard", "switchCard", "bobsCard", "endCard", "limitCard", "raeCard"},
   {"recon", "reconToo", "assign", "look", "settle", "raise"}}
=============================================================================
