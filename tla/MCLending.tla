----------------------------- MODULE MCLending -----------------------------
(* One borrower.  20 cents for 60 days are repaid as 10 + 11; 1 cent for 60 *)
(* days cannot be split.                                                   *)
EXTENDS Lending, TLC

CONSTANTS U, A, B, P, Q

TheBy        == A :> U @@ B :> U @@ P :> U @@ Q :> U
ThePrincipal == A :> 20 @@ B :> 1
TheDays      == A :> 60 @@ B :> 60
TheAsked     == P :> 10 @@ Q :> 30
TheLimit     == U :> 20
TheOpening   == U :> 6
=============================================================================
