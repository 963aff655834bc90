---------------------------- MODULE EchoService -----------------------------
(***************************************************************************)
(* What an echo server promises to its clients: line by line, a client is  *)
(* shown the line it has typed, and it is shown it in the end unless       *)
(* something has ended the server's duty to it.                            *)
(***************************************************************************)
EXTENDS Integers

CONSTANT Clients

VARIABLES
  asked,      \* asked[c]: how many lines have been typed into c
  answered,   \* answered[c]: the number of the line that c has printed last
  waits,      \* waits[c]: c has asked and waits for the answer
  owed        \* owed[c]: nothing has ended the duty to answer c

service == <<asked, answered, waits, owed>>

Init ==
  /\ asked = [c \in Clients |-> 0]
  /\ answered = [c \in Clients |-> 0]
  /\ waits = [c \in Clients |-> FALSE]
  /\ owed = [c \in Clients |-> TRUE]

(* The last line, "exit", has no answer.                                   *)
Ask(c) ==
  /\ ~waits[c]
  /\ asked' = [asked EXCEPT ![c] = @ + 1]
  /\ \/ waits' = [waits EXCEPT ![c] = TRUE] /\ UNCHANGED owed
     \/ owed' = [owed EXCEPT ![c] = FALSE] /\ UNCHANGED waits
  /\ UNCHANGED answered

(* Never another line than the one that was asked.                         *)
Answer(c) ==
  /\ waits[c]
  /\ waits' = [waits EXCEPT ![c] = FALSE]
  /\ answered' = [answered EXCEPT ![c] = asked[c]]
  /\ UNCHANGED <<asked, owed>>

(* Clients leave, or are lost to the service, several at a time when it is *)
(* a process that goes.                                                    *)
Release ==
  /\ \E gone \in SUBSET Clients :
       owed' = [c \in Clients |-> owed[c] /\ c \notin gone]
  /\ UNCHANGED <<asked, answered, waits>>

Next == Release \/ \E c \in Clients : Ask(c) \/ Answer(c)

Spec == Init /\ [][Next]_service

FairSpec == Spec /\ \A c \in Clients : WF_service(owed[c] /\ Answer(c))

=============================================================================
