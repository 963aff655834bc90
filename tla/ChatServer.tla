----------------------------- MODULE ChatServer -----------------------------
(***************************************************************************)
(* chat_group/server.c: a main thread that accepts, and one thread per     *)
(* accepted connection that reads a name, then passes every message on to  *)
(* the other named clients.  The threads share the array clients with no   *)
(* lock, and every thread is given the address of main's one variable      *)
(* client_sockfd.                                                          *)
(***************************************************************************)
EXTENDS Sockets

CONSTANTS
  MAX_CLIENTS,
  BUFFER_SIZE,
  FdReserve,      \* so many descriptors are there for sure; none is ever closed
  ThreadReserve,  \* so many threads are there for sure; none is ever joined
  StackMax,       \* bound: bytes of the stack that follow a name up to a zero
  Patient         \* assumption on TCP: what they send first is not cut

ASSUME ChatServerAssumption ==
  /\ MAX_CLIENTS \in Nat \ {0}
  /\ BUFFER_SIZE \in Nat \ {0}
  /\ FdReserve \in Nat
  /\ ThreadReserve \in Nat
  /\ StackMax \in Nat
  /\ Patient \subseteq Clients

VARIABLES
  main,           \* where the main thread is
  client_sockfd,  \* main's local, shared with every thread through its address
  client_number,
  clients,
  pc,             \* pc[t]: where thread t is
  socket,         \* its local copy of a descriptor
  client_name,    \* its local copy of the name
  buffer,         \* what the last recv() put there
  cursor,         \* the loop variable i of the broadcast
  target          \* the socket that the test at i saw, while t is in send()

serverVars == <<main, client_sockfd, client_number, clients,
                pc, socket, client_name, buffer, cursor, target>>

locals == <<socket, client_name, buffer, cursor, target>>

(* clients[0 .. MAX_CLIENTS - 1]; thread t is the one whose id main stores *)
(* in threads[t], after the increment: it is created for slot t - 1.       *)
Slots == 0 .. MAX_CLIENTS - 1
Threads == 1 .. MAX_CLIENTS

(* Nothing reads a stored name: only whether the pointer is NULL matters.  *)
Client == [sockfd : Clients \cup {NoSocket}, named : BOOLEAN]

(* A name is what strlen() found in a buffer that recv() does not          *)
(* terminate: a run of bytes, then tail bytes that were on the stack.      *)
Name == [from : Clients \cup {NoSocket}, lo : Nat, hi : Nat, tail : Nat]

Unterminated(run, n) == [from |-> run.from, lo |-> run.lo, hi |-> run.hi, tail |-> n]

NoName == Unterminated(NoRun(NoSocket), 0)

MainStates == {"accept", "dispatch"}

ThreadStates == {"none", "start", "name", "lookup", "recv", "test", "send", "remove", "done"}

ServerInit ==
  /\ main = "accept"
  /\ client_sockfd = NoSocket
  /\ client_number = 0
  /\ clients = [j \in Slots |-> [sockfd |-> NoSocket, named |-> FALSE]]
  /\ pc = [t \in Threads |-> "none"]
  /\ socket = [t \in Threads |-> NoSocket]
  /\ client_name = [t \in Threads |-> NoName]
  /\ buffer = [t \in Threads |-> NoRun(NoSocket)]
  /\ cursor = [t \in Threads |-> 0]
  /\ target = [t \in Threads |-> NoSocket]

At(t, place) == Running /\ pc[t] = place

Goto(t, place) == pc' = [pc EXCEPT ![t] = place]

-----------------------------------------------------------------------------
(* The main thread *)

Accept ==
  /\ Running
  /\ main = "accept"
  /\ backlog # << >>
  /\ client_sockfd' = Head(backlog)
  /\ backlog' = Tail(backlog)
  /\ main' = "dispatch"
  /\ UNCHANGED <<server, conn, sent, taken, stream, shown, sockerr,
                 client_number, clients, pc, locals>>

(* accept() takes a descriptor before it waits, and fails when the process *)
(* or the system has none left: the server has closed none.                *)
AcceptFails ==
  /\ Running
  /\ main = "accept"
  /\ client_number >= FdReserve
  /\ server' = "exited"
  /\ UNCHANGED <<conn, backlog, sent, taken, stream, shown, sockerr, serverVars>>

Register ==
  /\ Running
  /\ main = "dispatch"
  /\ client_number < MAX_CLIENTS
  /\ clients' = [clients EXCEPT ![client_number].sockfd = client_sockfd]
  /\ client_number' = client_number + 1

(* One step: of what main writes between accept() and the new thread's     *)
(* first instruction, the other threads see only the slot, which they skip *)
(* until it has a name.                                                    *)
Dispatch ==
  /\ Register
  /\ Goto(client_number + 1, "start")
  /\ main' = "accept"
  /\ UNCHANGED <<netVars, client_sockfd, locals>>

(* The id of the new thread goes to threads[client_number] after the       *)
(* increment, and main never tests client_number: connection MAX_CLIENTS   *)
(* writes past the end of threads, the one after it past clients too.      *)
DispatchPastEnd ==
  /\ Running
  /\ main = "dispatch"
  /\ client_number + 1 >= MAX_CLIENTS
  /\ server' = "undefined"
  /\ UNCHANGED <<conn, backlog, sent, taken, stream, shown, sockerr, serverVars>>

CreateFails ==
  /\ Register
  /\ client_number >= ThreadReserve
  /\ server' = "exited"
  /\ UNCHANGED <<conn, backlog, sent, taken, stream, shown, sockerr,
                 main, client_sockfd, pc, locals>>

-----------------------------------------------------------------------------
(* connection_handle, in thread t *)

(* int socket = *(int * )client_sockfd: whatever main's variable holds by now. *)
Start(t) ==
  /\ At(t, "start")
  /\ socket' = [socket EXCEPT ![t] = client_sockfd]
  /\ Goto(t, "name")
  /\ UNCHANGED <<netVars, main, client_sockfd, client_number, clients,
                 client_name, buffer, cursor, target>>

(* The result of this recv() is not looked at: a client that left without  *)
(* a name leaves the buffer as it was.                                     *)
RecvNameFrom(t, s) ==
  /\ At(t, "name")
  /\ \/ \E run \in Arrived(s, BUFFER_SIZE) :
          /\ s \in Patient /\ taken[s] = 0 => run.hi = sent[s]
          /\ buffer' = [buffer EXCEPT ![t] = run]
          /\ taken' = [taken EXCEPT ![s] = run.hi]
          /\ UNCHANGED sockerr
     \/ /\ AtEnd(s)
        /\ buffer' = [buffer EXCEPT ![t] = NoRun(s)]
        /\ ReportEnd(s)
        /\ UNCHANGED taken
  /\ Goto(t, "lookup")
  /\ UNCHANGED <<server, conn, backlog, sent, stream, shown, main, client_sockfd,
                 client_number, clients, client_name, cursor, target>>

(* Mutant: the descriptor is copied after the first recv(), not before.    *)
RecvName_LateCopy(t) ==
  RecvNameFrom(t, client_sockfd) /\ socket' = [socket EXCEPT ![t] = client_sockfd]

RecvName(t) == RecvNameFrom(t, socket[t]) /\ UNCHANGED socket

Registered(s) == \E j \in Slots : clients[j].sockfd = s

FirstSlot(j, s) ==
  /\ clients[j].sockfd = s
  /\ \A k \in Slots : k < j => clients[k].sockfd # s

(* The slot of this socket gets the name, and the thread its own copy.     *)
(* strlen() and strcpy() read on behind what was received to the first     *)
(* zero byte on the stack; there need not be one in the buffer.            *)
Lookup(t) ==
  /\ At(t, "lookup")
  /\ \E j \in Slots :
       /\ FirstSlot(j, socket[t])
       /\ clients' = [clients EXCEPT ![j].named = TRUE]
  /\ \E n \in 0 .. StackMax :
       client_name' = [client_name EXCEPT ![t] = Unterminated(buffer[t], n)]
  /\ UNCHANGED server \/ server' = "undefined"
  /\ Goto(t, "recv")
  /\ UNCHANGED <<conn, backlog, sent, taken, stream, shown, sockerr, main,
                 client_sockfd, client_number, socket, buffer, cursor, target>>

(* No slot has this socket: client_name is an uninitialised pointer, which *)
(* printf and every later strcpy follow.                                   *)
LookupFails(t) ==
  /\ At(t, "lookup")
  /\ ~Registered(socket[t])
  /\ \/ server' = "undefined"
     \/ UNCHANGED server
  /\ client_name' = [client_name EXCEPT ![t] = NoName]
  /\ Goto(t, "recv")
  /\ UNCHANGED <<conn, backlog, sent, taken, stream, shown, sockerr, main,
                 client_sockfd, client_number, clients, socket, buffer, cursor, target>>

(* name ": " text and the terminator, in temp[BUFFER_SIZE]; the terminator *)
(* of the text itself, in buffer[BUFFER_SIZE].                             *)
Overflows(name, text) ==
  \/ Size(text) = BUFFER_SIZE
  \/ Size(name) + name.tail + 2 + Size(text) + 1 > BUFFER_SIZE

Recv(t) ==
  LET s == socket[t] IN
  /\ At(t, "recv")
  /\ \E run \in Arrived(s, BUFFER_SIZE) :
       /\ buffer' = [buffer EXCEPT ![t] = run]
       /\ taken' = [taken EXCEPT ![s] = run.hi]
       /\ \/ UNCHANGED server
          \/ Overflows(client_name[t], run) /\ server' = "undefined"
  /\ cursor' = [cursor EXCEPT ![t] = 0]
  /\ Goto(t, "test")
  /\ UNCHANGED <<conn, backlog, sent, stream, shown, sockerr, main, client_sockfd,
                 client_number, clients, socket, client_name, target>>

StopServing(t) ==
  LET s == socket[t] IN
  /\ ReportEnd(s)
  /\ \/ UNCHANGED server
     \/ sockerr[s] = "reset" /\ server' = "undefined"
  /\ Goto(t, "remove")
  /\ UNCHANGED <<conn, backlog, sent, taken, stream, shown, main, client_sockfd,
                 client_number, clients, locals>>

(* Mutant: the thread stops when the peer has closed, whatever is unread.  *)
RecvEnd_Hasty(t) == At(t, "recv") /\ conn[socket[t]] = "closed" /\ StopServing(t)

(* recv() returned 0, or -1 and buffer[-1] was written.                    *)
RecvEnd(t) == At(t, "recv") /\ AtEnd(socket[t]) /\ StopServing(t)

(* Mutants of the test that picks the recipients: no test of the name, and *)
(* the sender compared with main's variable.                               *)
Recipient_Unnamed(t) ==
  clients[cursor[t]].sockfd \notin {socket[t], NoSocket}

Recipient_Shared(t) ==
  clients[cursor[t]].sockfd \notin {client_sockfd, NoSocket} /\ clients[cursor[t]].named

Recipient(t) ==
  /\ clients[cursor[t]].sockfd # socket[t]
  /\ clients[cursor[t]].sockfd # NoSocket
  /\ clients[cursor[t]].named

StepTo(t, last, place) ==
  /\ cursor' = [cursor EXCEPT ![t] = @ + 1]
  /\ target' = [target EXCEPT ![t] = NoSocket]
  /\ Goto(t, IF cursor[t] = last THEN place ELSE "test")

(* Mutant: the loop runs to i <= MAX_CLIENTS.                              *)
Advance_PastEnd(t) == StepTo(t, MAX_CLIENTS, "recv")

Advance(t) == StepTo(t, MAX_CLIENTS - 1, "recv")

SkipSlot(t) ==
  /\ At(t, "test")
  /\ ~Recipient(t)
  /\ Advance(t)
  /\ UNCHANGED <<netVars, main, client_sockfd, client_number, clients,
                 socket, client_name, buffer>>

PickSlot(t) ==
  /\ At(t, "test")
  /\ Recipient(t)
  /\ target' = [target EXCEPT ![t] = clients[cursor[t]].sockfd]
  /\ Goto(t, "send")
  /\ UNCHANGED <<netVars, main, client_sockfd, client_number, clients,
                 socket, client_name, buffer, cursor>>

SendLine(t, name) ==
  /\ At(t, "send")
  /\ Send(target[t], <<[name |-> name, text |-> buffer[t]]>>)
  /\ Advance(t)
  /\ UNCHANGED <<server, conn, backlog, sent, taken, shown, main, client_sockfd,
                 client_number, clients, socket, client_name, buffer>>

(* Mutant: the name is that of slot i, the recipient's.                    *)
SendToSlot_NameOfSlot(t) == SendLine(t, client_name[cursor[t] + 1])

(* The slot may have been cleared since the test: the argument of send()   *)
(* is then the socket the test saw, when the compiler kept it ...          *)
SendToSlot(t) == SendLine(t, client_name[t])

GiveUpSlot(t) ==
  /\ At(t, "send")
  /\ Advance(t)
  /\ UNCHANGED <<netVars, main, client_sockfd, client_number, clients,
                 socket, client_name, buffer>>

(* Mutant: a send() that would block is given up.                          *)
SendToCleared_DontWait(t) ==
  GiveUpSlot(t) /\ (~CanSend(target[t]) \/ clients[cursor[t]].sockfd = NoSocket)

(* ... or -1, when it is read again.                                       *)
SendToCleared(t) == GiveUpSlot(t) /\ clients[cursor[t]].sockfd = NoSocket

(* No handler for SIGPIPE, no MSG_NOSIGNAL: the whole server dies.         *)
SendKills(t) ==
  /\ At(t, "send")
  /\ RaisesSigpipe(target[t])
  /\ server' = "killed"
  /\ UNCHANGED <<conn, backlog, sent, taken, stream, shown, sockerr, serverVars>>

ClearSlot(s) ==
  \/ \E j \in Slots :
       /\ FirstSlot(j, s)
       /\ clients' = [clients EXCEPT ![j].sockfd = NoSocket]
  \/ ~Registered(s) /\ UNCHANGED clients

RemoveEntry(t, s) ==
  /\ At(t, "remove")
  /\ ClearSlot(s)
  /\ Goto(t, "done")
  /\ UNCHANGED <<netVars, main, client_sockfd, client_number, locals>>

(* Mutant: the slot is looked up through the pointer to main's variable.   *)
Remove_Shared(t) == RemoveEntry(t, client_sockfd)

(* The first slot with this socket is cleared, and the thread returns; the *)
(* socket stays open and the slot stays behind client_number.              *)
Remove(t) == RemoveEntry(t, socket[t])

-----------------------------------------------------------------------------
MainThread == Accept \/ AcceptFails \/ Dispatch \/ DispatchPastEnd \/ CreateFails

Handler(t) ==
  \/ Start(t)
  \/ RecvName(t)
  \/ Lookup(t)
  \/ LookupFails(t)
  \/ Recv(t)
  \/ RecvEnd(t)
  \/ SkipSlot(t)
  \/ PickSlot(t)
  \/ SendToSlot(t)
  \/ SendToCleared(t)
  \/ SendKills(t)
  \/ Remove(t)

ServerNext == MainThread \/ \E t \in Threads : Handler(t)

=============================================================================
