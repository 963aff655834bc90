---------------------------- MODULE MultiThread -----------------------------
(***************************************************************************)
(* Multi_client/multi-thread: the server of ThreadServer and the client    *)
(* threads of EchoClient, over the connections of Sockets.                 *)
(***************************************************************************)
EXTENDS ThreadServer

vars == <<netVars, clientVars, serverVars>>

(* client.c starts its threads in a loop, script.sh the clients; connect() *)
(* is called at any time.                                                  *)
ClientStep(c) ==
  \/ Connect(c)
  \/ ConnectRefused(c)
  \/ EnterMessage(c)
  \/ EnterExit(c)
  \/ Exit(c)
  \/ SendFails(c, ~Running)
  \/ ReceiveEcho(c)
  \/ ReceiveNothing(c, ~Running)
  \/ conn[c] = "open" /\ EndProcess(c)   \* by the user, at any moment

Init == NetInit /\ ClientInit /\ ServerInit

Next ==
  \/ ServerNext
  \/ \E c \in Clients : ClientStep(c) /\ UNCHANGED serverVars

Spec == Init /\ [][Next]_vars

(* Threads of the server and of the clients are scheduled for ever; users  *)
(* need not type, connect or leave.                                        *)
Fairness ==
  /\ WF_vars(MainThread)
  /\ \A t \in Threads : WF_vars(Handler(t))
  /\ \A c \in Clients :
       WF_vars((ReceiveEcho(c) \/ ReceiveNothing(c, ~Running) \/ Exit(c))
               /\ UNCHANGED serverVars)

FairSpec == Spec /\ Fairness

-----------------------------------------------------------------------------
TypeOK ==
  /\ server \in ServerStates
  /\ conn \in [Clients -> ConnStates]
  /\ backlog \in Seq(Clients)
  /\ sent \in [Clients -> Nat]
  /\ taken \in [Clients -> Nat]
  /\ stream \in [Clients -> Seq(ByteValue)]
  /\ shown \in [Clients -> Nat]
  /\ sockerr \in [Clients -> SockErrors]
  /\ at \in [Clients -> Places]
  /\ quit \in [Clients -> BOOLEAN]
  /\ screen \in [Clients -> ByteValue]
  /\ main \in MainStates
  /\ client_socket \in Clients \cup {NoSocket}
  /\ thread_count \in 0 .. MAX_CLIENTS
  /\ pc \in [Threads -> ThreadStates]
  /\ socket \in [Threads -> Clients \cup {NoSocket}]
  /\ buffer \in [Threads -> Buffer]

(* However connections race and records are cut, nothing that somebody     *)
(* else typed is ever sent to c: it gets its own text, zeros, or what the  *)
(* server's stack held (server.c:20-30).                                   *)
OnlyOwnText ==
  \A c \in Clients : \A k \in 1 .. Len(stream[c]) :
    stream[c][k].from \in {c, NoSocket}

(* As long as its records arrive whole, what a client printed last is the  *)
(* line it sent last, even when two threads serve it (client.c:37-49): no  *)
(* reply is left over from an earlier line.                                *)
EchoInStep ==
  \A c \in Whole :
    at[c] = "enter" /\ sent[c] > 0 => screen[c] = Text(c, Sent(c))

-----------------------------------------------------------------------------
(* Liveness *)

InBacklog(c) == \E k \in 1 .. Len(backlog) : backlog[k] = c

Open(c) == conn[c] = "open"

Waits(c) == Open(c) /\ at[c] = "reply"

(* A client that waits for its echo, and that some thread serves, gets     *)
(* one, unless it leaves or the server dies, however its record is cut,    *)
(* how many threads serve it and whatever other clients do                 *)
(* (server.c:19-36).                                                       *)
Answered ==
  \A c \in Clients :
    (Waits(c) /\ \E t \in Threads : socket[t] = c) ~> (~Running \/ ~Waits(c))

(* server.c:105-112: when MAX_CLIENTS connections have been accepted and   *)
(* all of these clients have left, the server comes to its end, whichever  *)
(* thread served which of them.                                            *)
ServerReturns ==
  (thread_count = MAX_CLIENTS /\ \A c \in Clients : Open(c) => InBacklog(c)) ~> ~Running

=============================================================================
