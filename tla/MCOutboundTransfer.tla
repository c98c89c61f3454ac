------------------------- MODULE MCOutboundTransfer -------------------------
(* An instance of OutboundTransfer for TLC: Alice sends t1 and t2 at the same *)
(* time.  Her wallet covers either and not both, and so does the daily limit. *)
EXTENDS OutboundTransfer

CONSTANTS alice, t1, t2

MCOwner   == [t \in Transfers |-> alice]
MCAmount  == [t \in Transfers |-> IF t = t1 THEN 2 ELSE 3]
MCOpening == [u \in Users |-> 4]
=============================================================================
