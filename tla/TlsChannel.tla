----------------------------- MODULE TlsChannel -----------------------------
(***************************************************************************)
(* What the memory-BIO examples promise to their two users: the lines      *)
(* typed at one end are printed at the other, each of them once and in     *)
(* order, and nothing else is.                                             *)
(***************************************************************************)
EXTENDS Integers, Sequences

CONSTANTS Ends, Peer(_)

VARIABLES
  typed,     \* typed[e]: how many lines have been typed at e
  printed,   \* printed[e]: the lines of its peer that e has printed
  up         \* up[e]: the program at e runs

channel == <<typed, printed, up>>

Init ==
  /\ typed = [e \in Ends |-> 0]
  /\ printed = [e \in Ends |-> << >>]
  /\ up = [e \in Ends |-> TRUE]

Type(e) ==
  /\ up[e]
  /\ typed' = [typed EXCEPT ![e] = @ + 1]
  /\ UNCHANGED <<printed, up>>

Show(e) ==
  /\ up[e]
  /\ \E n \in Len(printed[e]) + 1 .. typed[Peer(e)] :
       printed' = [printed EXCEPT ![e] = [i \in 1 .. n |-> i]]
  /\ UNCHANGED <<typed, up>>

Leave(e) ==
  /\ up[e]
  /\ up' = [up EXCEPT ![e] = FALSE]
  /\ UNCHANGED <<typed, printed>>

Next == \E e \in Ends : Type(e) \/ Show(e) \/ Leave(e)

Spec == Init /\ [][Next]_channel

=============================================================================
