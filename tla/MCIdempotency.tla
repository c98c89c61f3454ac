---------------------------- MODULE MCIdempotency ----------------------------
(* An instance of Idempotency for TLC: two clients repeat the same request    *)
(* under one key, a third reuses the key with another body and a fourth sends *)
(* to a public endpoint, which the middleware lets pass.                      *)
EXTENDS Idempotency

CONSTANTS c1, c2, c3, c4, k1, pay50, pay500

MCKeyOf  == [c \in Clients |-> k1]
MCBodyOf == [c \in Clients |-> IF c = c3 THEN pay500 ELSE pay50]
=============================================================================
