---------------------------- MODULE GreetingEcho -----------------------------
(***************************************************************************)
(* Tai_lieu_tham_khao/multi_thread: a server that greets each client and   *)
(* echoes what it sends, with a thread for each; a client that waits for   *)
(* the server's words before each line it asks its user for.               *)
(*                                                                         *)
(* What a thread sends is a run of bytes it has received, or the greeting. *)
(* "exit" is a line of one byte.                                           *)
(***************************************************************************)
EXTENDS Sockets, FiniteSets

CONSTANTS
  MaxThreads,   \* server.c:55-56, 100
  MsgSize,      \* bytes one recv() of the server takes, 100
  FdReserve,    \* so many connections can be accepted for sure
  Reserve,      \* so many threads can be created for sure
  LineSizes,    \* bytes of a line
  Lines         \* bound: Lines[c] is how many are typed into c

ASSUME GreetingEchoAssumption ==
  /\ {MaxThreads, MsgSize} \subseteq Nat \ {0}
  /\ {FdReserve, Reserve} \subseteq Nat
  /\ LineSizes \subseteq Nat
  /\ Lines \in [Clients -> Nat]

VARIABLES
  main,            \* where main is
  client_socket,   \* main's variable
  no_threads,      \* how many threads it has counted
  pc,              \* pc[t]: where thread t is
  socket,          \* socket[t]: its copy of client_socket
  client_msg,      \* client_msg[t]: the run it has to send back
  at,              \* at[c]: where client c is
  typed,           \* typed[c]: how many lines have been typed into c
  quit             \* quit[c]: the last of them was "exit"

threadVars == <<pc, socket, client_msg>>
mainVars == <<main, client_socket, no_threads>>
clientVars == <<at, typed, quit>>
vars == <<netVars, mainVars, threadVars, clientVars>>

Threads == 1 .. MaxThreads

Greeting == NoRun(NoSocket)

Init ==
  /\ NetInit
  /\ main = "accept" /\ client_socket = NoSocket /\ no_threads = 0
  /\ pc = [t \in Threads |-> "none"]
  /\ socket = [t \in Threads |-> NoSocket]
  /\ client_msg = [t \in Threads |-> Greeting]
  /\ at = [c \in Clients |-> "recv"]
  /\ typed = [c \in Clients |-> 0]
  /\ quit = [c \in Clients |-> FALSE]

-----------------------------------------------------------------------------
(* main *)

TakeConnection ==
  /\ main = "accept"
  /\ backlog # << >>
  /\ client_socket' = Head(backlog)
  /\ backlog' = Tail(backlog)
  /\ main' = "create"
  /\ UNCHANGED <<server, conn, sent, taken, stream, shown, sockerr, no_threads,
                 threadVars, clientVars>>

(* Mutant: the bound of threads is not looked at.                          *)
Accept_NoLimit == TakeConnection

Accept == no_threads < MaxThreads /\ TakeConnection

Ends(state) ==
  /\ server' = state
  /\ UNCHANGED <<conn, backlog, sent, taken, stream, shown, sockerr, mainVars,
                 threadVars, clientVars>>

(* A thread for the descriptor -1, which does nothing; then exit(0).       *)
AcceptFails ==
  /\ main = "accept"
  /\ no_threads \in FdReserve .. MaxThreads - 1
  /\ Ends("exited")

Counts ==
  /\ main = "create"
  /\ main' = "accept"
  /\ no_threads' = no_threads + 1
  /\ UNCHANGED <<netVars, client_socket, socket, client_msg, clientVars>>

CreateThread == Counts /\ pc' = [pc EXCEPT ![no_threads'] = "start"]

(* pthread_create() fails with a positive number, and nobody notices.      *)
CreateFails == Counts /\ no_threads >= Reserve /\ UNCHANGED pc

(* A thread that was never created has no valid name to be joined by.      *)
JoinAll ==
  /\ main = "accept"
  /\ no_threads = MaxThreads
  /\ \/ (\A t \in Threads : pc[t] = "ended") /\ Ends("exited")
     \/ /\ \E t \in Threads : pc[t] = "none" /\ \A u \in 1 .. t - 1 : pc[u] = "ended"
        /\ Ends("undefined")

-----------------------------------------------------------------------------
(* connectionHandler, in thread t *)

Goto(t, place) == pc' = [pc EXCEPT ![t] = place]

(* client_socket belongs to the body of main's loop (server.c:59), and its *)
(* address is read when that turn of the loop may be over, which C leaves  *)
(* undefined.  The place on main's stack is the same in every turn and has *)
(* no other use, so that what is found is the descriptor accepted last.    *)
StartFrom(t, next) ==
  /\ pc[t] = "start"
  /\ socket' = [socket EXCEPT ![t] = client_socket]
  /\ Goto(t, next)
  /\ UNCHANGED <<netVars, mainVars, client_msg, clientVars>>

(* Mutant: the greeting is left out.                                       *)
Start_Silent(t) == StartFrom(t, "recv")

Start(t) == StartFrom(t, "send")

(* send() of what is in client_msg, the greeting at first; -1 is ignored.  *)
SendTo(t, s) ==
  /\ pc[t] = "send"
  /\ IF sockerr[s] = "reset" THEN ReportEnd(s) /\ UNCHANGED stream
                             ELSE Send(s, <<client_msg[t]>>)
  /\ UNCHANGED <<server, conn, backlog, sent, taken, shown, mainVars, socket,
                 client_msg, clientVars>>

(* Mutants: to the client that came last; without another recv().          *)
Echo_Shared(t) == SendTo(t, client_socket) /\ Goto(t, "recv")
Echo_Again(t) == SendTo(t, socket[t]) /\ (Goto(t, "recv") \/ UNCHANGED pc)

Echo(t) == SendTo(t, socket[t]) /\ Goto(t, "recv")

EchoKills(t) == pc[t] = "send" /\ RaisesSigpipe(socket[t]) /\ Ends("killed")

IsExit(run) == quit[run.from] /\ run.lo = run.hi /\ run.hi = sent[run.from]

(* When client_msg is full the terminator is written behind it.            *)
Recv(t) ==
  /\ pc[t] = "recv"
  /\ \E run \in Arrived(socket[t], MsgSize) :
       /\ taken' = [taken EXCEPT ![socket[t]] = run.hi]
       /\ client_msg' = [client_msg EXCEPT ![t] = run]
       /\ Goto(t, IF IsExit(run) THEN "ended" ELSE "send")
       /\ \/ UNCHANGED server
          \/ Size(run) = MsgSize /\ server' = "undefined"
  /\ UNCHANGED <<conn, backlog, sent, stream, shown, sockerr, mainVars, socket, clientVars>>

RecvEnd(t) ==
  /\ pc[t] = "recv"
  /\ AtEnd(socket[t])
  /\ ReportEnd(socket[t])
  /\ Goto(t, "ended")
  /\ UNCHANGED <<server, conn, backlog, sent, taken, stream, shown, mainVars,
                 socket, client_msg, clientVars>>

-----------------------------------------------------------------------------
(* The client *)

Connect(c) ==
  /\ Establish(c)
  /\ UNCHANGED <<server, sent, taken, stream, shown, sockerr, clientVars>>

Waits(c) == conn[c] = "open" /\ at[c] = "recv"

(* Whatever recv() returns; 0 when the server has gone.                    *)
Response(c) ==
  /\ Waits(c)
  /\ \/ \E n \in shown[c] + 1 .. Len(stream[c]) : shown' = [shown EXCEPT ![c] = n]
     \/ shown[c] = Len(stream[c]) /\ ~Running /\ UNCHANGED shown
  /\ at' = [at EXCEPT ![c] = "gets"]
  /\ UNCHANGED <<server, conn, backlog, sent, taken, stream, sockerr, typed, quit>>

Types(c, size) ==
  /\ conn[c] = "open"
  /\ at[c] = "gets"
  /\ typed[c] < Lines[c]
  /\ typed' = [typed EXCEPT ![c] = @ + 1]
  /\ Transmit(c, size)

(* A line is sent, without a terminator, and printed as its own echo.      *)
EnterLine(c) ==
  /\ \E size \in LineSizes : Types(c, size)
  /\ at' = [at EXCEPT ![c] = "recv"]
  /\ UNCHANGED <<server, conn, backlog, taken, stream, shown, sockerr, quit>>

EnterExit(c) ==
  /\ Types(c, 1)
  /\ CloseEnds({c})
  /\ quit' = [quit EXCEPT ![c] = TRUE]
  /\ UNCHANGED <<server, backlog, taken, stream, shown, at>>

(* connect() failed; by the user at any moment, or by SIGPIPE.             *)
Leave(c) ==
  /\ conn[c] = "open" \/ (conn[c] = "none" /\ ~Running)
  /\ CloseEnds({c})
  /\ UNCHANGED <<server, backlog, sent, taken, stream, shown, clientVars>>

-----------------------------------------------------------------------------
MainThread == Accept \/ AcceptFails \/ CreateThread \/ CreateFails \/ JoinAll

Handler(t) == Start(t) \/ Echo(t) \/ EchoKills(t) \/ Recv(t) \/ RecvEnd(t)

ClientStep(c) == Connect(c) \/ Response(c) \/ EnterLine(c) \/ EnterExit(c) \/ Leave(c)

Next ==
  \/ Running /\ (MainThread \/ \E t \in Threads : Handler(t))
  \/ \E c \in Clients : ClientStep(c) /\ UNCHANGED <<mainVars, threadVars>>

Spec == Init /\ [][Next]_vars

(* Threads and clients are scheduled for ever; users need not type.        *)
FairSpec ==
  /\ Spec
  /\ WF_vars(Running /\ MainThread)
  /\ \A t \in Threads : WF_vars(Running /\ Handler(t))
  /\ \A c \in Clients : WF_vars(Response(c) /\ UNCHANGED <<mainVars, threadVars>>)

-----------------------------------------------------------------------------
TypeOK ==
  /\ server \in ServerStates
  /\ conn \in [Clients -> ConnStates]
  /\ backlog \in Seq(Clients)
  /\ {sent, taken, shown, typed} \subseteq [Clients -> Nat]
  /\ stream \in [Clients -> Seq(Run)]
  /\ sockerr \in [Clients -> SockErrors]
  /\ main \in {"accept", "create"}
  /\ client_socket \in Clients \cup {NoSocket}
  /\ no_threads \in 0 .. MaxThreads
  /\ main = "create" => no_threads < MaxThreads
  /\ pc \in [Threads -> {"none", "start", "send", "recv", "ended"}]
  /\ socket \in [Threads -> Clients \cup {NoSocket}]
  /\ client_msg \in [Threads -> Run]
  /\ at \in [Clients -> {"recv", "gets"}]
  /\ quit \in [Clients -> BOOLEAN]

(* However connections race, and although two threads may read one socket, *)
(* a client is sent none but its own bytes, and none of them twice         *)
(* (server.c:93-108).                                                      *)
EachByteOnce ==
  \A c \in Clients : \A i \in DOMAIN stream[c] :
    LET run == stream[c][i]
    IN  run # Greeting =>
          /\ run.from = c
          /\ \A j \in 1 .. i - 1 : stream[c][j] # Greeting =>
               stream[c][j].hi < run.lo \/ run.hi < stream[c][j].lo

ServedBy(c) == {t \in Threads : socket[t] = c}

(* A client that has not fallen to two threads is greeted once, first of   *)
(* all, and then sent back its bytes in the order in which it sent them,   *)
(* with none left out, however many threads fall to others                 *)
(* (server.c:93-108).                                                      *)
GreetedThenEchoed ==
  \A c \in Clients : Cardinality(ServedBy(c)) <= 1 =>
    \A i \in DOMAIN stream[c] :
      LET run == stream[c][i]
      IN  IF i = 1 THEN run = Greeting
          ELSE run.from = c /\ run.lo = stream[c][i - 1].hi + 1

(* As long as its lines are not empty, a client that a thread serves comes *)
(* back to its user for the next line, whatever others do, unless it       *)
(* leaves (client.c:26-35).                                                *)
Prompted == \A c \in Clients : Waits(c) /\ ServedBy(c) # {} ~> ~Waits(c)

=============================================================================
