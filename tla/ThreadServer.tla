---------------------------- MODULE ThreadServer ----------------------------
(***************************************************************************)
(* Multi_client/multi-thread/server.c: a thread for each of MAX_CLIENTS    *)
(* connections echoes what it receives; when the last thread has returned  *)
(* so does main.  As in the chat, every thread is given the address of     *)
(* main's one variable client_socket.                                      *)
(***************************************************************************)
EXTENDS EchoRecords

CONSTANTS
  MAX_CLIENTS,
  FdReserve,      \* so many descriptors are there for sure
  ThreadReserve   \* so many threads are there for sure

ASSUME ThreadServerAssumption ==
  /\ MAX_CLIENTS \in Nat \ {0}
  /\ FdReserve \in Nat
  /\ ThreadReserve \in Nat

VARIABLES
  main,           \* where the main thread is
  client_socket,  \* main's local, shared with every thread
  thread_count,
  pc,             \* pc[t]: where thread t is
  socket,         \* its copy of a descriptor
  buffer          \* its buffer

serverVars == <<main, client_socket, thread_count, pc, socket, buffer>>

Threads == 1 .. MAX_CLIENTS   \* t has its id in threads[t - 1]

MainStates == {"accept", "dispatch"}
ThreadStates == {"none", "start", "recv", "send", "done"}

ServerInit ==
  /\ main = "accept"
  /\ client_socket = NoSocket
  /\ thread_count = 0
  /\ pc = [t \in Threads |-> "none"]
  /\ socket = [t \in Threads |-> NoSocket]
  /\ buffer = [t \in Threads |-> Uninitialised]

At(t, place) == Running /\ pc[t] = place

Goto(t, place) == pc' = [pc EXCEPT ![t] = place]

ServerEnds(state) ==
  /\ server' = state
  /\ UNCHANGED <<conn, backlog, sent, taken, stream, shown, sockerr, clientVars, serverVars>>

-----------------------------------------------------------------------------
(* The main thread *)

TakeConnection ==
  /\ Running
  /\ main = "accept"
  /\ backlog # << >>
  /\ client_socket' = Head(backlog)
  /\ backlog' = Tail(backlog)
  /\ main' = "dispatch"
  /\ UNCHANGED <<server, conn, sent, taken, stream, shown, sockerr, clientVars,
                 thread_count, pc, socket, buffer>>

(* Mutant: accepts for ever.                                               *)
Accept_NoLimit == TakeConnection

Accept == thread_count < MAX_CLIENTS /\ TakeConnection

AcceptFails ==
  /\ Running
  /\ main = "accept"
  /\ thread_count \in FdReserve .. MAX_CLIENTS - 1
  /\ ServerEnds("exited")

(* thread_count is main's own: no thread can tell that it is incremented   *)
(* after pthread_create().                                                 *)
Dispatch ==
  /\ Running
  /\ main = "dispatch"
  /\ Goto(thread_count + 1, "start")
  /\ thread_count' = thread_count + 1
  /\ main' = "accept"
  /\ UNCHANGED <<netVars, clientVars, client_socket, socket, buffer>>

CreateFails ==
  /\ Running
  /\ main = "dispatch"
  /\ thread_count >= ThreadReserve
  /\ ServerEnds("exited")

(* The loop of pthread_join() gets to its end, and main returns.           *)
JoinAll ==
  /\ Running
  /\ main = "accept"
  /\ thread_count = MAX_CLIENTS
  /\ \A t \in Threads : pc[t] = "done"
  /\ ServerEnds("exited")

-----------------------------------------------------------------------------
(* connection_handle, in thread t *)

Start(t) ==
  /\ At(t, "start")
  /\ socket' = [socket EXCEPT ![t] = client_socket]
  /\ Goto(t, "recv")
  /\ UNCHANGED <<netVars, clientVars, main, client_socket, thread_count, buffer>>

Recv(t) ==
  LET s == socket[t]
  IN  /\ At(t, "recv")
      /\ \E run \in Arrived(s, BUFFER_SIZE) :
           /\ s \in Whole => Size(run) = BUFFER_SIZE
           /\ taken' = [taken EXCEPT ![s] = run.hi]
           /\ buffer' = [buffer EXCEPT ![t] = Filled(@, run)]
           /\ Goto(t, IF IsExit(Byte(s, run.lo)) THEN "done" ELSE "send")
           /\ \/ UNCHANGED server
              \/ Size(run) = BUFFER_SIZE /\ server' = "undefined"
      /\ UNCHANGED <<conn, backlog, sent, stream, shown, sockerr, clientVars,
                     main, client_socket, thread_count, socket>>

(* recv() returned 0.                                                      *)
PeerClosed(t) ==
  /\ At(t, "recv")
  /\ AtEnd(socket[t])
  /\ sockerr[socket[t]] # "reset"
  /\ UNCHANGED <<netVars, clientVars, main, client_socket, thread_count, socket, buffer>>

(* Mutant: recv() is called again.                                         *)
RecvEnd_Retry(t) == PeerClosed(t) /\ UNCHANGED pc

RecvEnd(t) == PeerClosed(t) /\ Goto(t, "done")

(* recv() returned -1: buffer[-1] is written, and the loop goes on with    *)
(* the send().                                                             *)
RecvFails(t) ==
  /\ At(t, "recv")
  /\ AtEnd(socket[t])
  /\ sockerr[socket[t]] = "reset"
  /\ ReportEnd(socket[t])
  /\ \/ UNCHANGED server
     \/ server' = "undefined"
  /\ Goto(t, "send")
  /\ UNCHANGED <<conn, backlog, sent, taken, stream, shown, clientVars,
                 main, client_socket, thread_count, socket, buffer>>

(* The whole buffer, however much was received.                            *)
SendBuffer(t, s) ==
  /\ At(t, "send")
  /\ sockerr[s] # "reset"
  /\ Send(s, buffer[t])
  /\ UNCHANGED <<server, conn, backlog, sent, taken, shown, clientVars,
                 main, client_socket, thread_count, socket, buffer>>

(* Mutants: sent to main's variable; sent more than once.                  *)
Echo_Shared(t) == SendBuffer(t, client_socket) /\ Goto(t, "recv")

Echo_Again(t) == SendBuffer(t, socket[t]) /\ (Goto(t, "recv") \/ UNCHANGED pc)

Echo(t) == SendBuffer(t, socket[t]) /\ Goto(t, "recv")

(* send() returned -1: exit(), of all threads.                             *)
EchoFails(t) ==
  /\ At(t, "send")
  /\ sockerr[socket[t]] = "reset"
  /\ ServerEnds("exited")

EchoKills(t) ==
  /\ At(t, "send")
  /\ RaisesSigpipe(socket[t])
  /\ ServerEnds("killed")

-----------------------------------------------------------------------------
MainThread == Accept \/ AcceptFails \/ Dispatch \/ CreateFails \/ JoinAll

Handler(t) ==
  \/ Start(t)
  \/ Recv(t)
  \/ RecvEnd(t)
  \/ RecvFails(t)
  \/ Echo(t)
  \/ EchoFails(t)
  \/ EchoKills(t)

ServerNext == MainThread \/ \E t \in Threads : Handler(t)

=============================================================================
