----------------------------- MODULE MCBusiness -----------------------------
(* An instance of Business for TLC: the founder Ann, her colleague Bob, the  *)
(* seeded owner and viewer roles, one role of their own, and a transfer Bob  *)
(* asked for.  Any three of the requests below overlap in any way.           *)
EXTENDS Business

CONSTANTS ann, bob, transfer

MCSystemRoles == [r \in {"owner", "viewer"} |->
                    IF r = "owner" THEN {"members", "roles", "approve"} ELSE {}]
MCGranted == {{"members", "approve"}}
MCInitiator == [t \in Transfers |-> bob]

Req(op, user, other, role_, todo) ==
  [op |-> op, user |-> user, other |-> other, role |-> role_, todo |-> todo, transfer |-> transfer]
MCAsk ==
  [register |-> Req("register", ann, ann, "owner", {}),
   inviteBob |-> Req("invite", ann, bob, "clerk", {}),
   promoteBob |-> Req("setrole", ann, bob, "owner", {}),
   demoteAnn |-> Req("setrole", bob, ann, "viewer", {}),
   removeAnn |-> Req("remove", bob, ann, "owner", {}),
   removeBob |-> Req("remove", ann, bob, "owner", {}),
   newRole |-> Req("newrole", ann, ann, "clerk", {"approve"}),
   editRole |-> Req("editrole", ann, ann, "clerk", {"roles"}),
   editAgain |-> Req("editrole", bob, ann, "clerk", {"roles", "approve"}),
   dropRole |-> Req("droprole", ann, ann, "clerk", {}),
   annApproves |-> Req("approve", ann, ann, "owner", {}),
   bobRejects |-> Req("reject", bob, ann, "owner", {})]
=============================================================================
