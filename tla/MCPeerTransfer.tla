--------------------------- MODULE MCPeerTransfer ---------------------------
(* Instances of PeerTransfer for TLC.  Alice opens with 2 and may overdraw 3; *)
(* she sends more than she has, to one and to several, while she receives and *)
(* repays, and while the facility is opened and closed.  The batch names Bob  *)
(* twice, by phone number and by user name, which its validation lets pass.   *)
EXTENDS PeerTransfer

CONSTANTS alice, bob, optin, send, batch, inflow, repay, optout

To(u, n) == [to |-> u, amount |-> n]

MCKind == [r \in Requests |->
             CASE r \in {send, inflow} -> "p2p"
               [] r = batch -> "batch"
               [] r = repay -> "repay"
               [] r = optin -> "optin"
               [] r = optout -> "optout"]
MCActor == [r \in Requests |-> IF r = inflow THEN bob ELSE alice]
MCItems == [r \in Requests |->
              CASE r = send -> <<To(bob, 4)>>
                [] r = batch -> <<To(bob, 1), To(bob, 2)>>
                [] r = inflow -> <<To(alice, 2)>>
                [] OTHER -> <<>>]
MCRepayment == [r \in Requests |-> IF r = repay THEN 1 ELSE 0]
MCOpening == [u \in Users |-> 2]
MCProfile == [u \in Users |-> [blacklisted |-> FALSE, approved |-> 30,
                               trust |-> IF u = alice THEN 700 ELSE 500]]
=============================================================================
