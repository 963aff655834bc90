--------------------------- MODULE MCGreetingEcho ---------------------------
(***************************************************************************)
(* A small instance of GreetingEcho for TLC.                               *)
(***************************************************************************)
EXTENDS GreetingEcho

CONSTANTS c1, c2, c3

(* Bound: two lines typed into c1, one into c2, none into c3.              *)
LessAndLess == [c \in Clients |-> IF c = c1 THEN 2 ELSE IF c = c2 THEN 1 ELSE 0]
=============================================================================
