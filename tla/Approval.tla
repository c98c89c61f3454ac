------------------------------ MODULE Approval ------------------------------
(***************************************************************************)
(* What the approval workflow of a business promises: a transfer waits     *)
(* until it is approved by somebody other than its initiator, or rejected, *)
(* and whatever was decided stays decided.                                 *)
(***************************************************************************)
CONSTANTS Transfers, People, Initiator

VARIABLES verdict, decider

Nobody == "nobody"

Init == /\ verdict = [t \in Transfers |-> "pending"]
        /\ decider = [t \in Transfers |-> Nobody]

Decide(t, u, v) ==
  /\ verdict[t] = "pending"
  /\ v = "approved" => u # Initiator[t]
  /\ verdict' = [verdict EXCEPT ![t] = v]
  /\ decider' = [decider EXCEPT ![t] = u]

Next == \E t \in Transfers, u \in People, v \in {"approved", "rejected"} : Decide(t, u, v)

Spec == Init /\ [][Next]_<<verdict, decider>>
=============================================================================
