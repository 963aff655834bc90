--------------------------- MODULE MCMultiThread ----------------------------
(***************************************************************************)
(* A small instance of MultiThread for TLC.                                *)
(***************************************************************************)
EXTENDS MultiThread

CONSTANTS c1, c2, c3

(* c1 and c2 are threads of one client process, c3 is another process.     *)
TwoProcesses == [c \in Clients |-> IF c = c3 THEN 2 ELSE 1]

(* Bound: c3 types a second line.                                          *)
OneOrTwo == [c \in Clients |-> IF c = c3 THEN 2 ELSE 1]
=============================================================================
