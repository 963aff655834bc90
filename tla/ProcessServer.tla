--------------------------- MODULE ProcessServer ----------------------------
(***************************************************************************)
(* Multi_client/multi-process/server.c: the parent forks a child for each  *)
(* of MAX_CLIENTS connections, closes none of them, waits for no child and *)
(* returns.  A child inherits the listening socket and every connection    *)
(* accepted so far.  Here `server' is running as long as some process has  *)
(* the listening socket.                                                   *)
(***************************************************************************)
EXTENDS EchoRecords, FiniteSets

CONSTANTS
  MAX_CLIENTS,
  FdReserve,     \* so many descriptors are there for sure
  ForkReserve,   \* so many processes are there for sure
  Overrun        \* what a zero at buffer[BUFFER_SIZE] does to its process

ASSUME ProcessServerAssumption ==
  /\ MAX_CLIENTS \in Nat \ {0}
  /\ FdReserve \in Nat
  /\ ForkReserve \in Nat
  /\ Overrun \subseteq {"harmless", "fatal"}

VARIABLES
  parent,     \* where the parent is
  accepted,   \* the connections it has accepted, in order
  pc,         \* pc[k]: where the child of the k-th connection is
  buffer      \* its buffer

serverVars == <<parent, accepted, pc, buffer>>

Children == 1 .. MAX_CLIENTS

ParentStates == {"accept", "fork", "exited"}
ChildStates == {"none", "recv", "send", "exited", "crashed"}

ServerInit ==
  /\ parent = "accept"
  /\ accepted = << >>
  /\ pc = [k \in Children |-> "none"]
  /\ buffer = [k \in Children |-> Uninitialised]

Alive(k) == pc[k] \in {"recv", "send"}

(* The client_socket of child k, a copy of the parent's at the fork().     *)
client_socket(k) == accepted[k]

(* The k-th connection is open in the parent and in all the children that  *)
(* were forked with it or after it.                                        *)
Held(k) == parent # "exited" \/ \E j \in k .. MAX_CLIENTS : Alive(j)

(* The server's end of c is closed.                                        *)
Hungup(c) ==
  \/ ~Running
  \/ \E k \in DOMAIN accepted : accepted[k] = c /\ ~Held(k)

Goto(k, place) == pc' = [pc EXCEPT ![k] = place]

(* The listening socket goes with the last process that has it.            *)
ServerWith(left, states) ==
  IF left = "exited" /\ \A k \in Children : states[k] \notin {"recv", "send"}
  THEN "exited" ELSE server

-----------------------------------------------------------------------------
(* The parent *)

TakeConnection ==
  /\ parent = "accept"
  /\ backlog # << >>
  /\ accepted' = Append(accepted, Head(backlog))
  /\ backlog' = Tail(backlog)
  /\ parent' = "fork"
  /\ UNCHANGED <<server, conn, sent, taken, stream, shown, sockerr, clientVars, pc, buffer>>

(* Mutant: MAX_CLIENTS is not looked at.                                   *)
Accept_NoLimit == TakeConnection

Accept == Len(accepted) < MAX_CLIENTS /\ TakeConnection

Fork ==
  /\ parent = "fork"
  /\ Goto(Len(accepted), "recv")
  /\ parent' = "accept"
  /\ UNCHANGED <<netVars, clientVars, accepted, buffer>>

(* -1 is not 0: the parent goes on.                                        *)
ForkFails ==
  /\ parent = "fork"
  /\ Len(accepted) > ForkReserve
  /\ parent' = "accept"
  /\ UNCHANGED <<netVars, clientVars, accepted, pc, buffer>>

(* Return after MAX_CLIENTS connections, or exit() when accept() fails.    *)
ParentEnds ==
  /\ parent = "accept"
  /\ Len(accepted) \in FdReserve .. MAX_CLIENTS
  /\ parent' = "exited"
  /\ server' = ServerWith("exited", pc)
  /\ UNCHANGED <<conn, backlog, sent, taken, stream, shown, sockerr, clientVars,
                 accepted, pc, buffer>>

-----------------------------------------------------------------------------
(* handle_client, in child k *)

ChildEnds(k, state) ==
  /\ Goto(k, state)
  /\ server' = ServerWith(parent, pc')
  /\ UNCHANGED <<conn, backlog, sent, stream, shown, clientVars, parent, accepted>>

(* When the buffer is full the terminator is written behind it.            *)
Recv(k) ==
  LET s == client_socket(k)
  IN  /\ pc[k] = "recv"
      /\ \E run \in Arrived(s, BUFFER_SIZE) :
           /\ s \in Whole => Size(run) = BUFFER_SIZE
           /\ taken' = [taken EXCEPT ![s] = run.hi]
           /\ buffer' = [buffer EXCEPT ![k] = Filled(@, run)]
           /\ \/ /\ ~IsExit(Byte(s, run.lo))
                 /\ Size(run) = BUFFER_SIZE => "harmless" \in Overrun
                 /\ Goto(k, "send")
                 /\ UNCHANGED <<server, conn, backlog, sent, stream, shown, clientVars,
                                parent, accepted>>
              \/ IsExit(Byte(s, run.lo)) /\ ChildEnds(k, "exited")
              \/ /\ Size(run) = BUFFER_SIZE /\ "fatal" \in Overrun
                 /\ ChildEnds(k, "crashed")
      /\ UNCHANGED sockerr

EndOfStream(k) == pc[k] = "recv" /\ AtEnd(client_socket(k))

(* Mutant: recv() is called again when it has returned 0.                  *)
RecvEnd_Retry(k) ==
  /\ EndOfStream(k)
  /\ sockerr[client_socket(k)] = "reset"
  /\ ChildEnds(k, "exited")
  /\ UNCHANGED <<taken, sockerr, buffer>>

(* recv() returned 0 or -1: break or exit().                               *)
RecvEnd(k) ==
  /\ EndOfStream(k)
  /\ ChildEnds(k, "exited")
  /\ UNCHANGED <<taken, sockerr, buffer>>

Sends(k, s) ==
  /\ pc[k] = "send"
  /\ sockerr[s] # "reset"
  /\ Send(s, buffer[k])
  /\ UNCHANGED <<server, conn, backlog, sent, taken, shown, clientVars, parent, accepted, buffer>>

(* Mutants: to the connection that was accepted last; without recv().      *)
Echo_Shared(k) == Sends(k, accepted[Len(accepted)]) /\ Goto(k, "recv")
Echo_Again(k) == Sends(k, client_socket(k)) /\ (Goto(k, "recv") \/ UNCHANGED pc)

(* The whole buffer, however much was received.                            *)
Echo(k) == Sends(k, client_socket(k)) /\ Goto(k, "recv")

(* -1, or SIGPIPE: the end of this child, and of no other process.         *)
EchoFails(k) ==
  /\ pc[k] = "send"
  /\ sockerr[client_socket(k)] = "reset" \/ RaisesSigpipe(client_socket(k))
  /\ ChildEnds(k, "exited")
  /\ UNCHANGED <<taken, sockerr, buffer>>

-----------------------------------------------------------------------------
Parent == Accept \/ Fork \/ ForkFails \/ ParentEnds

Child(k) == Recv(k) \/ RecvEnd(k) \/ Echo(k) \/ EchoFails(k)

ServerNext == Parent \/ \E k \in Children : Child(k)

=============================================================================
