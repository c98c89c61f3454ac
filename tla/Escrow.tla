------------------------------- MODULE Escrow -------------------------------
(***************************************************************************)
(* What the Hold -> Transmit -> Settle/Void cycle of an outbound transfer  *)
(* promises, with no ledger, retry, crash or lost confirmation in sight:   *)
(* money is put in escrow, the network is asked, and the escrow is opened  *)
(* at most once: towards the network if it was heard to have executed the  *)
(* transfer, towards the sender if it was heard to say anything else.      *)
(***************************************************************************)
CONSTANT Transfers

VARIABLES
  escrow,   \* escrow[t]: "none", "held", "settled" or "released"
  network,  \* network[t]: how far EthSwitch is with t
  status    \* status[t]: the status heard from it, "none" until then

vars == <<escrow, network, status>>

\* EthSwitch decides at once, or answers PENDING_ASYNC and decides later.
Immediate == {"executed", "rejected", "pending"}
Late == {"executed_late", "rejected_late"}

Init == /\ escrow = [t \in Transfers |-> "none"]
        /\ network = [t \in Transfers |-> "unasked"]
        /\ status = [t \in Transfers |-> "none"]

Take(t) == /\ escrow[t] = "none"
           /\ escrow' = [escrow EXCEPT ![t] = "held"]
           /\ UNCHANGED <<network, status>>

Ask(t) == /\ escrow[t] = "held"
          /\ network[t] = "unasked"
          /\ network' = [network EXCEPT ![t] = "asked"]
          /\ UNCHANGED <<escrow, status>>

Decide(t, verdict) ==
  /\ \/ network[t] = "asked" /\ verdict \in Immediate
     \/ network[t] = "pending" /\ verdict \in Late
  /\ network' = [network EXCEPT ![t] = verdict]
  /\ UNCHANGED <<escrow, status>>

\* What may be heard of a transfer the network is at stage n with; "" is an
\* answer that carries no status.
Audible(n) == CASE n = "executed" -> {"SUCCESS", ""}
                [] n = "rejected" -> {"FAILED", ""}
                [] n = "asked"    -> {""}
                [] n = "unasked"  -> {}
                [] OTHER          -> {"PENDING_ASYNC", ""}

Hear(t) == /\ status[t] = "none"
           /\ \E s \in Audible(network[t]) : status' = [status EXCEPT ![t] = s]
           /\ UNCHANGED <<escrow, network>>

Settle(t) == /\ escrow[t] = "held"
             /\ status[t] = "SUCCESS"
             /\ escrow' = [escrow EXCEPT ![t] = "settled"]
             /\ UNCHANGED <<network, status>>

Release(t) == /\ escrow[t] = "held"
              /\ status[t] \notin {"none", "SUCCESS"}
              /\ escrow' = [escrow EXCEPT ![t] = "released"]
              /\ UNCHANGED <<network, status>>

Next == \E t \in Transfers :
          \/ Take(t) \/ Ask(t) \/ Hear(t) \/ Settle(t) \/ Release(t)
          \/ \E verdict \in Immediate \cup Late : Decide(t, verdict)

Spec == Init /\ [][Next]_vars
=============================================================================
