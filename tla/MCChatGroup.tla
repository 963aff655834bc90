---------------------------- MODULE MCChatGroup ----------------------------
(***************************************************************************)
(* Small instances of ChatGroup for TLC.                                   *)
(***************************************************************************)
EXTENDS ChatGroup, TLC

CONSTANTS c1, c2, c3

(* Bounds on what users type: bytes, those of the name among them.        *)
OneTalker == [c \in Clients |-> IF c = c1 THEN 3 ELSE 1]
Dialogue == [c \in Clients |-> IF c = c1 THEN 4 ELSE 3]

OneByte == [c \in Clients |-> 1]
OneAndTwo == [c \in Clients |-> IF c = c1 THEN 1 ELSE 2]

(* Clients that type equally much can be exchanged.                        *)
Listeners == Permutations({c2, c3})
=============================================================================
