---------------------------- MODULE MultiProcess ----------------------------
(***************************************************************************)
(* Multi_client/multi-process: the server of ProcessServer and the client  *)
(* threads of EchoClient, over the connections of Sockets.                 *)
(***************************************************************************)
EXTENDS ProcessServer

vars == <<netVars, clientVars, serverVars>>

Init == NetInit /\ ClientInit /\ ServerInit

ClientStep(c) ==
  \/ Connect(c)
  \/ ConnectRefused(c)
  \/ EnterMessage(c)
  \/ EnterExit(c)
  \/ Exit(c)
  \/ SendFails(c, Hungup(c))
  \/ ReceiveEcho(c)
  \/ ReceiveNothing(c, Hungup(c))
  \/ conn[c] = "open" /\ EndProcess(c)   \* by the user, at any moment

Next ==
  \/ ServerNext
  \/ \E c \in Clients : ClientStep(c) /\ UNCHANGED serverVars

Spec == Init /\ [][Next]_vars

(* Processes are scheduled for ever; users need not type, connect or       *)
(* leave.                                                                  *)
Fairness ==
  /\ WF_vars(Parent)
  /\ \A k \in Children : WF_vars(Child(k))
  /\ \A c \in Clients :
       WF_vars((ReceiveEcho(c) \/ ReceiveNothing(c, Hungup(c)) \/ Exit(c))
               /\ UNCHANGED serverVars)

FairSpec == Spec /\ Fairness

-----------------------------------------------------------------------------
TypeOK ==
  /\ server \in {"running", "exited"}
  /\ conn \in [Clients -> ConnStates]
  /\ backlog \in Seq(Clients)
  /\ sent \in [Clients -> Nat]
  /\ taken \in [Clients -> Nat]
  /\ stream \in [Clients -> Seq(ByteValue)]
  /\ shown \in [Clients -> Nat]
  /\ sockerr \in [Clients -> SockErrors]
  /\ at \in [Clients -> Places]
  /\ quit \in [Clients -> BOOLEAN]
  /\ screen \in [Clients -> ByteValue]
  /\ parent \in ParentStates
  /\ accepted \in Seq(Clients)
  /\ Len(accepted) <= MAX_CLIENTS
  /\ pc \in [Children -> ChildStates]
  /\ buffer \in [Children -> Buffer]

(* Whatever pieces its records arrive in, and whoever connects, crashes or *)
(* leaves meanwhile, a client is sent its own text, zeros, or what the     *)
(* child's stack held (server.c:101-115).                                  *)
OnlyOwnText ==
  \A c \in Clients : \A n \in 1 .. Len(stream[c]) :
    stream[c][n].from \in {c, NoSocket}

(* The clients that nobody serves, or will serve: the parent has ended     *)
(* without them, fork() failed for them, or their child has crashed.       *)
Deserted(c) ==
  \/ parent = "exited" /\ \A k \in DOMAIN accepted : accepted[k] # c
  \/ \E k \in DOMAIN accepted :
       /\ accepted[k] = c
       /\ \/ pc[k] = "crashed"
          \/ pc[k] = "none" /\ ~(parent = "fork" /\ k = Len(accepted))

(* server.c:57-90: connections are made at any time and nobody waits for   *)
(* anybody, and still each client is shown the line it typed, every time,  *)
(* also when the parent has returned, fork() has failed and other children *)
(* are gone, as long as its own child lives: for the clients whose records *)
(* arrive whole, MultiProcess implements EchoService.                      *)
Service == INSTANCE EchoService WITH
  Clients <- Whole,
  asked <- [c \in Whole |-> Sent(c)],
  answered <- [c \in Whole |-> IF screen[c].from = c THEN screen[c].record ELSE 0],
  waits <- [c \in Whole |-> at[c] = "reply"],
  owed <- [c \in Whole |-> conn[c] # "closed" /\ ~quit[c] /\ ~Deserted(c)]

ImplementsService == Service!FairSpec

(* A client may be the last to hold up the others: those that the server   *)
(* never accepted are told so (and print, or stop) when all the children   *)
(* have ended, and these end when their clients have left (server.c:81-90, *)
(* 102-110).                                                               *)
LastOneOut ==
  (/\ Len(accepted) = MAX_CLIENTS
   /\ \A k \in DOMAIN accepted : conn[accepted[k]] = "closed") ~> ~Running

=============================================================================
