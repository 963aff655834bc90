-------------------------- MODULE ChatGroupProofs ---------------------------
(***************************************************************************)
(* What holds of ChatGroup for every set of clients, every MAX_CLIENTS,    *)
(* every BUFFER_SIZE and every bound on what users type: first, whether or *)
(* not connections race; then, when users join one at a time, so that each *)
(* connection is handed to one thread and every line carries a name of its *)
(* sender's, the one it entered if the sender is patient.                  *)
(***************************************************************************)
EXTENDS ChatGroup, SequenceTheorems, TLAPS

-----------------------------------------------------------------------------
(* The inductive invariant *)

(* The array grows at the end: behind client_number it is as main's first  *)
(* loop left it, and a thread exists only for a slot in front of it.       *)
SlotsInOrder ==
  /\ \A j \in Slots :
       j >= client_number => clients[j].sockfd = NoSocket /\ ~clients[j].named
  /\ \A t \in Threads : pc[t] # "none" => t <= client_number

(* Nobody reads main's variable before the first accept().                 *)
HandedOver ==
  /\ client_number > 0 \/ main = "dispatch" => client_sockfd \in Clients
  /\ \A t \in Threads : pc[t] \notin {"none", "start"} => socket[t] \in Clients

(* A thread removes only a client that has left.                           *)
RemovesLeavers ==
  \A t \in Threads : pc[t] = "remove" => conn[socket[t]] = "closed"

(* What a thread broadcasts came from its own socket, and goes to another. *)
BroadcastsOwn ==
  \A t \in Threads :
    /\ pc[t] \in {"test", "send"} => buffer[t].from = socket[t]
    /\ pc[t] = "send" => target[t] \in Clients \ {socket[t]}

(* A name is there only after its client sent one, or left.                *)
Introduced(c) == taken[c] > 0 \/ conn[c] = "closed"

NamesAreRead ==
  /\ \A t \in Threads : pc[t] = "lookup" => Introduced(socket[t])
  /\ \A t \in Threads : pc[t] = "send" => Introduced(target[t])
  /\ \A j \in Slots :
       clients[j].named /\ clients[j].sockfd # NoSocket => Introduced(clients[j].sockfd)

IInv ==
  /\ TypeOK
  /\ SlotsInOrder
  /\ HandedOver
  /\ RemovesLeavers
  /\ BroadcastsOwn
  /\ NamesAreRead
  /\ NoLiveClientDropped
  /\ NeverEchoed
  /\ SilentUntilNamed

-----------------------------------------------------------------------------
(* What the operations on slots and on the stream return *)

(* Storing or clearing the socket of a slot leaves a slot.                 *)
LEMMA SetSockfd ==
  ASSUME NEW f \in [Slots -> Client], NEW j \in Slots, NEW s \in Clients \cup {NoSocket}
  PROVE  [f EXCEPT ![j].sockfd = s] \in [Slots -> Client]
<1>1. [f[j] EXCEPT !.sockfd = s] \in Client
  BY DEF Client
<1> QED
  BY <1>1

(* So does naming it.                                                      *)
LEMMA SetNamed ==
  ASSUME NEW f \in [Slots -> Client], NEW j \in Slots
  PROVE  [f EXCEPT ![j].named = TRUE] \in [Slots -> Client]
<1>1. [f[j] EXCEPT !.named = TRUE] \in Client
  BY DEF Client
<1> QED
  BY <1>1

(* What recv() returns is a run of the bytes of that client, and the last  *)
(* of them comes after everything read before.                             *)
LEMMA ArrivedRun ==
  ASSUME TypeOK, NEW s \in Clients, NEW run \in Arrived(s, BUFFER_SIZE)
  PROVE  run \in Run /\ run.from = s /\ run.hi \in Nat /\ run.hi > 0
<1>1. PICK n \in 1 .. BUFFER_SIZE :
        run = [from |-> s, lo |-> taken[s] + 1, hi |-> taken[s] + n]
  BY DEF Arrived
<1>2. taken[s] \in Nat /\ n \in Nat /\ n > 0
  BY ChatServerAssumption DEF TypeOK
<1>3. taken[s] + 1 \in Nat /\ taken[s] + n \in Nat /\ taken[s] + n > 0
  BY <1>2
<1> QED
  BY <1>1, <1>3 DEF Run

(* The broadcast loop stays inside the array.                              *)
LEMMA AdvanceInSlots ==
  ASSUME TypeOK, NEW t \in Threads, pc[t] \in {"test", "send"}, Advance(t)
  PROVE  /\ cursor' \in [Threads -> Nat]
         /\ target' \in [Threads -> Clients \cup {NoSocket}]
         /\ pc' \in [Threads -> ThreadStates]
         /\ pc'[t] \in {"test", "recv"}
         /\ \A u \in Threads : u # t => pc'[u] = pc[u] /\ target'[u] = target[u]
         /\ \A u \in Threads : pc'[u] \in {"test", "send"} => cursor'[u] \in Slots
<1>1. cursor[t] \in Nat /\ cursor[t] \in 0 .. MAX_CLIENTS - 1 /\ MAX_CLIENTS \in Nat
  BY ChatServerAssumption DEF TypeOK, Slots
<1>2. cursor[t] # MAX_CLIENTS - 1 => cursor[t] + 1 \in Slots
  BY <1>1 DEF Slots
<1> QED
  BY <1>1, <1>2 DEF TypeOK, Advance, StepTo, Goto, ThreadStates

(* A thread that runs connection_handle has its descriptor from accept().  *)
LEMMA SocketIsClient ==
  ASSUME TypeOK, HandedOver, NEW t \in Threads, pc[t] \notin {"none", "start"}
  PROVE  socket[t] \in Clients
  BY DEF HandedOver

-----------------------------------------------------------------------------
(* Each conjunct of the invariant is preserved by every step *)

(* Every step keeps the types, given where sockets come from.              *)
LEMMA TypeStep == IInv /\ [Next]_vars => TypeOK'
<1> SUFFICES ASSUME IInv, [Next]_vars PROVE TypeOK'
  OBVIOUS
<1>t. TypeOK /\ HandedOver /\ BroadcastsOwn
  BY DEF IInv
<1>1. CASE Accept
  <2>1. client_sockfd' \in Clients /\ backlog' \in Seq(Clients)
    BY <1>t, <1>1, HeadTailProperties DEF TypeOK, Accept
  <2> QED
    BY <1>t, <1>1, <2>1 DEF TypeOK, Accept, locals, MainStates, Running
<1>2. CASE AcceptFails
  BY <1>t, <1>2 DEF TypeOK, AcceptFails, serverVars, ServerStates
<1>3. ASSUME Register PROVE clients' \in [Slots -> Client] /\ client_number' \in 0 .. MAX_CLIENTS
                            /\ client_number + 1 \in Threads
  <2>1. client_number \in Slots /\ client_number' \in 0 .. MAX_CLIENTS /\ client_number + 1 \in Threads
    BY <1>t, <1>3, ChatServerAssumption DEF TypeOK, Register, Slots, Threads
  <2>2. clients' \in [Slots -> Client]
    BY <1>t, <1>3, <2>1, SetSockfd DEF TypeOK, Register
  <2> QED
    BY <2>1, <2>2
<1>4. CASE Dispatch
  <2>1. pc' \in [Threads -> ThreadStates] /\ main' \in MainStates
    BY <1>t, <1>3, <1>4 DEF TypeOK, Dispatch, Goto, ThreadStates, MainStates
  <2>2. \A t \in Threads : pc'[t] \in {"test", "send"} => cursor'[t] \in Slots
    BY <1>t, <1>3, <1>4 DEF TypeOK, Dispatch, Goto, locals
  <2> QED
    BY <1>t, <1>3, <1>4, <2>1, <2>2 DEF TypeOK, Dispatch, netVars, locals
<1>5. CASE DispatchPastEnd
  BY <1>t, <1>5 DEF TypeOK, DispatchPastEnd, serverVars, ServerStates
<1>6. CASE CreateFails
  BY <1>t, <1>3, <1>6 DEF TypeOK, CreateFails, locals, ServerStates
<1>7. ASSUME NEW t \in Threads, Start(t) PROVE TypeOK'
  BY <1>t, <1>7 DEF TypeOK, Start, At, Goto, netVars, ThreadStates
<1>8. ASSUME NEW t \in Threads, RecvName(t) PROVE TypeOK'
  <2>1. socket[t] \in Clients
    BY <1>t, <1>8, SocketIsClient DEF RecvName, RecvNameFrom, At
  <2>2. pc' \in [Threads -> ThreadStates]
        /\ \A u \in Threads : pc'[u] \in {"test", "send"} => cursor'[u] \in Slots
    BY <1>t, <1>8 DEF TypeOK, RecvName, RecvNameFrom, Goto, ThreadStates
  <2>3. /\ buffer' \in [Threads -> Run]
        /\ taken' \in [Clients -> Nat]
        /\ sockerr' \in [Clients -> SockErrors]
    <3>1. CASE \E run \in Arrived(socket[t], BUFFER_SIZE) :
                 /\ buffer' = [buffer EXCEPT ![t] = run]
                 /\ taken' = [taken EXCEPT ![socket[t]] = run.hi]
                 /\ UNCHANGED sockerr
      BY <1>t, <2>1, <3>1, ArrivedRun DEF TypeOK
    <3>2. CASE /\ buffer' = [buffer EXCEPT ![t] = NoRun(socket[t])]
               /\ ReportEnd(socket[t])
               /\ UNCHANGED taken
      <4>1. NoRun(socket[t]) \in Run
        BY <2>1 DEF NoRun, Run
      <4> QED
        BY <1>t, <3>2, <4>1 DEF TypeOK, ReportEnd, SockErrors
    <3> QED
      BY <1>8, <3>1, <3>2 DEF RecvName, RecvNameFrom
  <2> QED
    BY <1>t, <1>8, <2>2, <2>3 DEF TypeOK, RecvName, RecvNameFrom
<1>9. ASSUME NEW t \in Threads, Lookup(t) PROVE TypeOK'
  <2>1. PICK j \in Slots : clients' = [clients EXCEPT ![j].named = TRUE]
    BY <1>9 DEF Lookup
  <2>2. clients' \in [Slots -> Client]
    BY <1>t, <2>1, SetNamed DEF TypeOK
  <2>3. /\ server' \in ServerStates
        /\ pc' \in [Threads -> ThreadStates]
        /\ \A u \in Threads : pc'[u] \in {"test", "send"} => cursor'[u] \in Slots
    BY <1>t, <1>9 DEF TypeOK, Lookup, Goto, ServerStates, ThreadStates
  <2>4. client_name' \in [Threads -> Name]
    <3>1. PICK n \in 0 .. StackMax :
            client_name' = [client_name EXCEPT ![t] = Unterminated(buffer[t], n)]
      BY <1>9 DEF Lookup
    <3>2. buffer[t] \in Run /\ n \in Nat
      BY <1>t, ChatServerAssumption DEF TypeOK
    <3>3. Unterminated(buffer[t], n) \in Name
      BY <3>2 DEF Unterminated, Name, Run
    <3> QED
      BY <1>t, <3>1, <3>3 DEF TypeOK
  <2> QED
    BY <1>t, <1>9, <2>2, <2>3, <2>4 DEF TypeOK, Lookup
<1>10. ASSUME NEW t \in Threads, LookupFails(t) PROVE TypeOK'
  <2>1. NoName \in Name
    BY DEF NoName, Unterminated, NoRun, Name
  <2> QED
    BY <1>t, <1>10, <2>1 DEF TypeOK, LookupFails, Goto, ServerStates, ThreadStates
<1>11. ASSUME NEW t \in Threads, Recv(t) PROVE TypeOK'
  <2>1. socket[t] \in Clients
    BY <1>t, <1>11, SocketIsClient DEF Recv, At
  <2>2. PICK run \in Arrived(socket[t], BUFFER_SIZE) :
          /\ buffer' = [buffer EXCEPT ![t] = run]
          /\ taken' = [taken EXCEPT ![socket[t]] = run.hi]
          /\ UNCHANGED server \/ server' = "undefined"
    BY <1>11 DEF Recv
  <2>3. 0 \in Slots /\ 0 \in Nat
    BY ChatServerAssumption DEF Slots
  <2>4. /\ pc' \in [Threads -> ThreadStates]
        /\ cursor' \in [Threads -> Nat]
        /\ \A u \in Threads : pc'[u] \in {"test", "send"} => cursor'[u] \in Slots
    BY <1>t, <1>11, <2>3 DEF TypeOK, Recv, Goto, ThreadStates
  <2>5. buffer' \in [Threads -> Run] /\ taken' \in [Clients -> Nat] /\ server' \in ServerStates
    BY <1>t, <2>1, <2>2, ArrivedRun DEF TypeOK, ServerStates
  <2> QED
    BY <1>t, <1>11, <2>4, <2>5 DEF TypeOK, Recv
<1>12. ASSUME NEW t \in Threads, RecvEnd(t) PROVE TypeOK'
  BY <1>t, <1>12 DEF TypeOK, RecvEnd, StopServing, ReportEnd, Goto, locals, ServerStates, SockErrors, ThreadStates
<1>13. ASSUME NEW t \in Threads, SkipSlot(t) PROVE TypeOK'
  BY <1>t, <1>13, AdvanceInSlots DEF TypeOK, SkipSlot, At, netVars
<1>14. ASSUME NEW t \in Threads, PickSlot(t) PROVE TypeOK'
  <2>1. clients[cursor[t]].sockfd \in Clients \cup {NoSocket}
    BY <1>t, <1>14 DEF TypeOK, PickSlot, At, Client
  <2> QED
    BY <1>t, <1>14, <2>1 DEF TypeOK, PickSlot, At, Goto, netVars, ThreadStates
<1>15. ASSUME NEW t \in Threads, SendToSlot(t) PROVE TypeOK'
  <2>1. [name |-> client_name[t], text |-> buffer[t]] \in Line
    BY <1>t DEF TypeOK, Line
  <2>2. stream' \in [Clients -> Seq(Line)]
    <3>1. target[t] \in Clients
      BY <1>t, <1>15 DEF BroadcastsOwn, SendToSlot, SendLine, At
    <3>2. stream[target[t]] \o <<[name |-> client_name[t], text |-> buffer[t]]>> \in Seq(Line)
      BY <1>t, <2>1, <3>1 DEF TypeOK
    <3> QED
      BY <1>t, <1>15, <3>2 DEF TypeOK, SendToSlot, SendLine, Send
  <2>3. sockerr' \in [Clients -> SockErrors]
    BY <1>t, <1>15 DEF TypeOK, SendToSlot, SendLine, Send, SockErrors
  <2> QED
    BY <1>t, <1>15, <2>2, <2>3, AdvanceInSlots DEF TypeOK, SendToSlot, SendLine, At
<1>16. ASSUME NEW t \in Threads, SendToCleared(t) PROVE TypeOK'
  BY <1>t, <1>16, AdvanceInSlots DEF TypeOK, SendToCleared, GiveUpSlot, At, netVars
<1>17. ASSUME NEW t \in Threads, SendKills(t) PROVE TypeOK'
  BY <1>t, <1>17 DEF TypeOK, SendKills, serverVars, ServerStates
<1>18. ASSUME NEW t \in Threads, Remove(t) PROVE TypeOK'
  <2>1. clients' \in [Slots -> Client]
    <3>1. CASE UNCHANGED clients
      BY <1>t, <3>1 DEF TypeOK
    <3>2. ASSUME NEW j \in Slots, clients' = [clients EXCEPT ![j].sockfd = NoSocket]
          PROVE  clients' \in [Slots -> Client]
      BY <1>t, <3>2, SetSockfd DEF TypeOK
    <3> QED
      BY <1>18, <3>1, <3>2 DEF Remove, RemoveEntry, ClearSlot
  <2>2. /\ pc' \in [Threads -> ThreadStates]
        /\ \A u \in Threads : pc'[u] \in {"test", "send"} => cursor'[u] \in Slots
    BY <1>t, <1>18 DEF TypeOK, Remove, RemoveEntry, Goto, locals, ThreadStates
  <2> QED
    BY <1>t, <1>18, <2>1, <2>2 DEF TypeOK, Remove, RemoveEntry, netVars, locals
<1>19. ASSUME NEW c \in Clients, Joins(c) PROVE TypeOK'
  <2>1. backlog' \in Seq(Clients)
    BY <1>t, <1>19, AppendProperties DEF TypeOK, Joins, Connect, Establish
  <2> QED
    BY <1>t, <1>19, <2>1 DEF TypeOK, Joins, Connect, Establish, serverVars, ConnStates
<1>20. ASSUME NEW c \in Clients, ClientStep(c) PROVE TypeOK'
  <2>1. CASE ConnectRefused(c) \/ ServerDisconnected(c)
    BY <1>t, <1>20, <2>1
    DEF TypeOK, ClientStep, ConnectRefused, ServerDisconnected, serverVars, ConnStates
  <2>2. CASE EnterName(c) \/ Speaks(c)
    <3>1. sent' \in [Clients -> Nat]
      <4>1. PICK n \in 1 .. LineMax : sent' = [sent EXCEPT ![c] = @ + n]
        BY <2>2, ChatClientAssumption DEF EnterName, Speaks, EnterMessage, EnterLine, Transmit
      <4>2. n \in Nat
        BY ChatClientAssumption
      <4> QED
        BY <1>t, <4>1, <4>2 DEF TypeOK
    <3>2. UNCHANGED <<server, conn, backlog, taken, stream, shown, sockerr, serverVars>>
      BY <1>20, <2>2 DEF ClientStep, EnterName, Speaks, EnterMessage, EnterLine
    <3> QED
      BY <1>t, <3>1, <3>2 DEF TypeOK, serverVars
  <2>3. CASE ShowLine(c)
    BY <1>t, <1>20, <2>3 DEF TypeOK, ClientStep, ShowLine, serverVars
  <2>4. CASE Leave(c)
    BY <1>t, <1>20, <2>4 DEF TypeOK, ClientStep, Leave, CloseEnds, serverVars, ConnStates, SockErrors
  <2> QED
    BY <1>20, <2>1, <2>2, <2>3, <2>4 DEF ClientStep
<1>21. CASE UNCHANGED vars
  BY <1>t, <1>21 DEF TypeOK, vars, netVars, serverVars
<1> QED
  BY <1>1, <1>2, <1>4, <1>5, <1>6, <1>7, <1>8, <1>9, <1>10, <1>11, <1>12, <1>13, <1>14,
     <1>15, <1>16, <1>17, <1>18, <1>19, <1>20, <1>21
  DEF Next, ServerNext, MainThread, Handler

-----------------------------------------------------------------------------
(* What the steps of each actor leave alone *)

(* Main leaves the streams and the threads' own variables alone.           *)
LEMMA MainFrame ==
  ASSUME TypeOK, MainThread
  PROVE  /\ Running
         /\ UNCHANGED <<conn, sent, taken, stream, shown, socket, buffer, target>>
  BY DEF MainThread, Accept, AcceptFails, Dispatch, DispatchPastEnd, CreateFails, Register,
         netVars, serverVars, locals

(* A thread changes its own variables, and of others' only the slots.      *)
LEMMA HandlerFrame ==
  ASSUME TypeOK, NEW t \in Threads, Handler(t)
  PROVE  /\ Running
         /\ UNCHANGED <<main, client_sockfd, client_number, conn, backlog, sent, shown>>
         /\ pc[t] # "none" /\ pc'[t] \notin {"none", "start"}
         /\ pc[t] # "start" => socket'[t] = socket[t]
         /\ pc[t] = "start" => socket'[t] = client_sockfd
         /\ \A u \in Threads \ {t} :
              /\ pc'[u] = pc[u] /\ socket'[u] = socket[u]
              /\ buffer'[u] = buffer[u] /\ target'[u] = target[u]
<1> USE DEF TypeOK, At, Goto, netVars, serverVars, locals
<1>1. CASE Start(t)
  BY <1>1 DEF Start
<1>2. CASE RecvName(t)
  BY <1>2 DEF RecvName, RecvNameFrom
<1>3. CASE Lookup(t) \/ LookupFails(t)
  BY <1>3 DEF Lookup, LookupFails
<1>4. CASE Recv(t) \/ RecvEnd(t)
  BY <1>4 DEF Recv, RecvEnd, StopServing
<1>5. CASE SkipSlot(t) \/ PickSlot(t)
  BY <1>5 DEF SkipSlot, PickSlot, Advance, StepTo
<1>6. CASE SendToSlot(t) \/ SendToCleared(t)
  BY <1>6 DEF SendToSlot, SendLine, SendToCleared, GiveUpSlot, Advance, StepTo
<1>7. CASE SendKills(t)
  BY <1>7 DEF SendKills
<1>8. CASE Remove(t)
  BY <1>8 DEF Remove, RemoveEntry
<1> QED
  BY <1>1, <1>2, <1>3, <1>4, <1>5, <1>6, <1>7, <1>8 DEF Handler

(* Clients do not touch the server, and a closed one stays closed.         *)
LEMMA ClientFrame ==
  ASSUME TypeOK, NEW c \in Clients, Joins(c) \/ ClientStep(c)
  PROVE  /\ UNCHANGED <<serverVars, server, taken, stream>>
         /\ \A d \in Clients : conn[d] = "closed" => conn'[d] = "closed"
<1>1. CASE Joins(c)
  BY <1>1 DEF TypeOK, Joins, Connect, Establish
<1>2. CASE ConnectRefused(c) \/ ServerDisconnected(c) \/ Leave(c)
  BY <1>2 DEF TypeOK, Joins, ClientStep, Connect, Establish, ConnectRefused, ServerDisconnected,
      Leave, CloseEnds, EnterName, Speaks, EnterMessage, EnterLine, ShowLine
<1>3. CASE ClientStep(c) /\ (EnterName(c) \/ Speaks(c) \/ ShowLine(c))
  BY <1>3 DEF ClientStep, EnterName, Speaks, EnterMessage, EnterLine, ShowLine
<1> QED
  BY <1>1, <1>2, <1>3 DEF ClientStep

(* Who has left, was read from or was introduced remains so.               *)
LEMMA Monotone ==
  ASSUME IInv, [Next]_vars, NEW c \in Clients
  PROVE  /\ conn[c] = "closed" => conn'[c] = "closed"
         /\ taken[c] > 0 => taken'[c] > 0
         /\ Introduced(c) => Introduced(c)'
<1>t. TypeOK /\ HandedOver
  BY DEF IInv
<1>1. CASE MainThread
  BY <1>t, <1>1, MainFrame DEF Introduced
<1>2. ASSUME NEW t \in Threads, Handler(t)
      PROVE  conn' = conn /\ (taken[c] > 0 => taken'[c] > 0)
  <2>1. CASE RecvName(t)
    <3>1. socket[t] \in Clients
      BY <1>t, <2>1, SocketIsClient DEF RecvName, RecvNameFrom, At
    <3> QED
      BY <1>t, <2>1, <3>1, ArrivedRun DEF TypeOK, RecvName, RecvNameFrom
  <2>2. CASE Recv(t)
    <3>1. socket[t] \in Clients
      BY <1>t, <2>2, SocketIsClient DEF Recv, At
    <3> QED
      BY <1>t, <2>2, <3>1, ArrivedRun DEF TypeOK, Recv
  <2>3. CASE \/ Start(t) \/ Lookup(t) \/ LookupFails(t) \/ RecvEnd(t) \/ SkipSlot(t) \/ PickSlot(t)
             \/ SendToSlot(t) \/ SendToCleared(t) \/ SendKills(t) \/ Remove(t)
    BY <2>3 DEF Start, Lookup, LookupFails, RecvEnd, StopServing, SkipSlot, PickSlot, SendToSlot, SendLine,
                SendToCleared, GiveUpSlot, SendKills, Remove, RemoveEntry, netVars
  <2> QED
    BY <1>2, <2>1, <2>2, <2>3 DEF Handler
<1>3. ASSUME NEW d \in Clients, Joins(d) \/ ClientStep(d)
      PROVE  taken' = taken /\ (conn[c] = "closed" => conn'[c] = "closed")
  BY <1>t, <1>3, ClientFrame
<1>4. CASE UNCHANGED vars
  BY <1>4 DEF vars, netVars, Introduced
<1> QED
  BY <1>1, <1>2, <1>3, <1>4 DEF Next, ServerNext, Introduced

-----------------------------------------------------------------------------
(* A slot is filled by main alone, at client_number (server.c:145-148).    *)
LEMMA OrderStep == IInv /\ [Next]_vars => SlotsInOrder'
<1> SUFFICES ASSUME IInv, [Next]_vars PROVE SlotsInOrder'
  OBVIOUS
<1>t. TypeOK /\ SlotsInOrder /\ HandedOver
  BY DEF IInv
<1>n. client_number \in Nat /\ Slots \subseteq Int /\ Threads \subseteq Int
  BY <1>t DEF TypeOK, Slots, Threads
<1>1. CASE Accept \/ AcceptFails \/ DispatchPastEnd
  BY <1>t, <1>1 DEF SlotsInOrder, Accept, AcceptFails, DispatchPastEnd, serverVars
<1>2. CASE Dispatch \/ CreateFails
  <2>1. /\ client_number' = client_number + 1
        /\ clients' = [clients EXCEPT ![client_number].sockfd = client_sockfd]
        /\ pc' = pc \/ pc' = [pc EXCEPT ![client_number + 1] = "start"]
    BY <1>2 DEF Dispatch, CreateFails, Register, Goto
  <2>2. ASSUME NEW j \in Slots, j >= client_number + 1
        PROVE  clients'[j] = clients[j] /\ j >= client_number
    BY <1>t, <1>n, <2>1, <2>2 DEF TypeOK
  <2>3. ASSUME NEW t \in Threads, pc'[t] # "none" PROVE t <= client_number + 1
    <3>1. pc[t] # "none" \/ t = client_number + 1
      BY <1>t, <2>1, <2>3 DEF TypeOK
    <3>2. t \in Int
      BY <1>n
    <3> QED
      BY <1>t, <1>n, <3>1, <3>2 DEF SlotsInOrder
  <2> QED
    BY <1>t, <2>1, <2>2, <2>3 DEF SlotsInOrder
<1>3. ASSUME NEW t \in Threads, Handler(t) PROVE SlotsInOrder'
  <2>1. client_number' = client_number /\ \A u \in Threads : pc'[u] # "none" => pc[u] # "none"
    BY <1>t, <1>3, HandlerFrame
  <2>2. ASSUME NEW j \in Slots, j >= client_number
        PROVE  clients'[j].sockfd = NoSocket /\ ~clients'[j].named
    <3>0. clients[j].sockfd = NoSocket /\ ~clients[j].named
      BY <1>t, <2>2 DEF SlotsInOrder
    <3>1. CASE Lookup(t)
      <4>1. socket[t] # NoSocket
        BY <1>t, <3>1, SocketIsClient, SocketsAssumption DEF Lookup, At
      <4>2. PICK k \in Slots : FirstSlot(k, socket[t]) /\ clients' = [clients EXCEPT ![k].named = TRUE]
        BY <3>1 DEF Lookup
      <4> QED
        BY <1>t, <3>0, <4>1, <4>2 DEF FirstSlot, TypeOK
    <3>2. CASE Remove(t)
      <4>1. ASSUME NEW k \in Slots, clients' = [clients EXCEPT ![k].sockfd = NoSocket]
            PROVE  clients'[j].sockfd = NoSocket /\ ~clients'[j].named
        BY <1>t, <3>0, <4>1 DEF TypeOK, Client
      <4> QED
        BY <3>0, <3>2, <4>1 DEF Remove, RemoveEntry, ClearSlot
    <3>3. CASE UNCHANGED clients
      BY <3>0, <3>3
    <3>4. CASE ~Lookup(t) /\ ~Remove(t)
      BY <1>3, <3>3, <3>4
      DEF Handler, Start, RecvName, RecvNameFrom, LookupFails, Recv, RecvEnd, StopServing, SkipSlot, PickSlot,
          SendToSlot, SendLine, SendToCleared, GiveUpSlot, SendKills, serverVars
    <3> QED
      BY <3>1, <3>2, <3>4
  <2> QED
    BY <1>t, <2>1, <2>2 DEF SlotsInOrder
<1>4. ASSUME NEW c \in Clients, Joins(c) \/ ClientStep(c) PROVE SlotsInOrder'
  BY <1>t, <1>4, ClientFrame DEF SlotsInOrder, serverVars
<1>5. CASE UNCHANGED vars
  BY <1>t, <1>5 DEF SlotsInOrder, vars, serverVars
<1> QED
  BY <1>1, <1>2, <1>3, <1>4, <1>5 DEF Next, ServerNext, MainThread

(* A thread gets its socket from the variable accept() wrote.              *)
LEMMA HandedStep == IInv /\ [Next]_vars => HandedOver'
<1> SUFFICES ASSUME IInv, [Next]_vars PROVE HandedOver'
  OBVIOUS
<1>t. TypeOK /\ SlotsInOrder /\ HandedOver
  BY DEF IInv
<1>1. CASE MainThread
  <2>1. client_number' > 0 \/ main' = "dispatch" => client_sockfd' \in Clients
    <3>1. CASE Accept
      BY <1>t, <3>1, HeadTailProperties DEF TypeOK, Accept
    <3>2. CASE AcceptFails \/ DispatchPastEnd
      BY <1>t, <3>2 DEF HandedOver, AcceptFails, DispatchPastEnd, serverVars
    <3>3. CASE Dispatch \/ CreateFails
      BY <1>t, <3>3 DEF HandedOver, Dispatch, CreateFails, Register
    <3> QED
      BY <1>1, <3>1, <3>2, <3>3 DEF MainThread
  <2>2. \A t \in Threads : pc'[t] \notin {"none", "start"} => pc'[t] = pc[t]
    BY <1>t, <1>1
    DEF TypeOK, MainThread, Accept, AcceptFails, Dispatch, DispatchPastEnd, CreateFails, Goto, serverVars
  <2> QED
    BY <1>t, <1>1, <2>1, <2>2, MainFrame DEF HandedOver
<1>2. ASSUME NEW t \in Threads, Handler(t) PROVE HandedOver'
  <2>1. client_number \in Nat /\ t \in Int /\ t > 0
    BY <1>t DEF TypeOK, Threads
  <2>2. pc[t] # "none"
    BY <1>t, <1>2, HandlerFrame
  <2>3. client_sockfd \in Clients
    BY <1>t, <2>1, <2>2 DEF SlotsInOrder, HandedOver
  <2>4. socket'[t] \in Clients
    BY <1>t, <1>2, <2>2, <2>3, HandlerFrame DEF HandedOver
  <2> QED
    BY <1>t, <1>2, <2>3, <2>4, HandlerFrame DEF HandedOver
<1>3. ASSUME NEW c \in Clients, Joins(c) \/ ClientStep(c) PROVE HandedOver'
  BY <1>t, <1>3, ClientFrame DEF HandedOver, serverVars
<1>4. CASE UNCHANGED vars
  BY <1>t, <1>4 DEF HandedOver, vars, serverVars
<1> QED
  BY <1>1, <1>2, <1>3, <1>4 DEF Next, ServerNext

(* A thread removes a socket only after recv() gave 0 or -1 for it.        *)
LEMMA RemovesStep == IInv /\ [Next]_vars => RemovesLeavers'
<1> SUFFICES ASSUME IInv, [Next]_vars PROVE RemovesLeavers'
  OBVIOUS
<1>t. TypeOK /\ SlotsInOrder /\ HandedOver /\ RemovesLeavers
  BY DEF IInv
<1>1. CASE MainThread
  <2>1. \A t \in Threads : pc'[t] = "remove" => pc[t] = "remove"
    BY <1>t, <1>1
    DEF TypeOK, MainThread, Accept, AcceptFails, Dispatch, DispatchPastEnd, CreateFails, Goto, serverVars
  <2> QED
    BY <1>t, <1>1, <2>1, MainFrame DEF RemovesLeavers
<1>2. ASSUME NEW t \in Threads, Handler(t) PROVE RemovesLeavers'
  <2>1. pc'[t] = "remove" => RecvEnd(t)
    BY <1>t, <1>2
    DEF TypeOK, Handler, Start, RecvName, RecvNameFrom, Lookup, LookupFails, Recv, SkipSlot, PickSlot,
        SendToSlot, SendLine, SendToCleared, GiveUpSlot, Advance, StepTo, SendKills, Remove,
        RemoveEntry, At, Goto, serverVars
  <2>2. pc'[t] = "remove" => conn'[socket'[t]] = "closed"
    BY <2>1 DEF RecvEnd, StopServing, AtEnd, locals
  <2> QED
    BY <1>t, <1>2, <2>2, HandlerFrame DEF RemovesLeavers
<1>3. ASSUME NEW c \in Clients, Joins(c) \/ ClientStep(c) PROVE RemovesLeavers'
  <2>1. \A t \in Threads : pc[t] = "remove" => socket[t] \in Clients
    BY <1>t, SocketIsClient
  <2> QED
    BY <1>t, <1>3, <2>1, ClientFrame DEF RemovesLeavers, serverVars
<1>4. CASE UNCHANGED vars
  BY <1>t, <1>4 DEF RemovesLeavers, vars, serverVars, netVars
<1> QED
  BY <1>1, <1>2, <1>3, <1>4 DEF Next, ServerNext

(* The test at server.c:60 chooses sockets of others only.                 *)
LEMMA BroadcastStep == IInv /\ [Next]_vars => BroadcastsOwn'
<1> SUFFICES ASSUME IInv, [Next]_vars PROVE BroadcastsOwn'
  OBVIOUS
<1>t. TypeOK /\ HandedOver /\ BroadcastsOwn
  BY DEF IInv
<1>1. CASE MainThread
  <2>1. \A t \in Threads : pc'[t] \in {"test", "send"} => pc[t] = pc'[t]
    BY <1>t, <1>1
    DEF TypeOK, MainThread, Accept, AcceptFails, Dispatch, DispatchPastEnd, CreateFails, Goto, serverVars
  <2> QED
    BY <1>t, <1>1, <2>1, MainFrame DEF BroadcastsOwn
<1>2. ASSUME NEW t \in Threads, Handler(t) PROVE BroadcastsOwn'
  <2> DEFINE Own == /\ pc[t] \in {"test", "send"} => buffer[t].from = socket[t]
                    /\ pc[t] = "send" => target[t] \in Clients \ {socket[t]}
  <2>0. Own
    BY <1>t DEF BroadcastsOwn
  <2>1. ASSUME Recv(t) PROVE Own'
    <3>1. PICK run \in Arrived(socket[t], BUFFER_SIZE) : buffer' = [buffer EXCEPT ![t] = run]
      BY <2>1 DEF Recv
    <3>2. run.from = socket[t]
      BY <1>t, <2>1, <3>1, SocketIsClient, ArrivedRun DEF Recv, At
    <3> QED
      BY <1>t, <2>1, <3>1, <3>2 DEF TypeOK, Recv, Goto
  <2>2. ASSUME PickSlot(t) PROVE Own'
    <3>1. clients[cursor[t]].sockfd \in Clients \ {socket[t]}
      BY <1>t, <2>2 DEF TypeOK, PickSlot, Recipient, At, Client
    <3> QED
      BY <1>t, <2>0, <2>2, <3>1 DEF TypeOK, PickSlot, At, Goto
  <2>3. ASSUME SkipSlot(t) PROVE Own'
    BY <1>t, <2>0, <2>3, AdvanceInSlots DEF SkipSlot, At
  <2>4. ASSUME SendToSlot(t) \/ SendToCleared(t) PROVE Own'
    BY <1>t, <2>0, <2>4, AdvanceInSlots DEF SendToSlot, SendLine, SendToCleared, GiveUpSlot, At
  <2>5. ASSUME SendKills(t) PROVE Own'
    BY <2>0, <2>5 DEF SendKills, serverVars
  <2>6. ASSUME Start(t) \/ RecvName(t) \/ Lookup(t) \/ LookupFails(t) \/ RecvEnd(t) \/ Remove(t)
        PROVE  Own'
    <3>1. pc'[t] \in {"name", "lookup", "recv", "remove", "done"}
      BY <1>t, <2>6
      DEF TypeOK, Start, RecvName, RecvNameFrom, Lookup, LookupFails, RecvEnd, StopServing, Remove, RemoveEntry, Goto
    <3> QED
      BY <3>1
  <2>7. Own'
    BY <1>2, <2>1, <2>2, <2>3, <2>4, <2>5, <2>6 DEF Handler
  <2>8. \A u \in Threads \ {t} :
          /\ pc'[u] = pc[u] /\ socket'[u] = socket[u]
          /\ buffer'[u] = buffer[u] /\ target'[u] = target[u]
    BY <1>t, <1>2, HandlerFrame
  <2> QED
    BY <1>t, <2>7, <2>8 DEF BroadcastsOwn
<1>3. ASSUME NEW c \in Clients, Joins(c) \/ ClientStep(c) PROVE BroadcastsOwn'
  BY <1>t, <1>3, ClientFrame DEF BroadcastsOwn, serverVars
<1>4. CASE UNCHANGED vars
  BY <1>t, <1>4 DEF BroadcastsOwn, vars, serverVars
<1> QED
  BY <1>1, <1>2, <1>3, <1>4 DEF Next, ServerNext

(* A name is stored after the first recv() (server.c:30-37).               *)
LEMMA NamesStep == IInv /\ [Next]_vars => NamesAreRead'
<1> SUFFICES ASSUME IInv, [Next]_vars PROVE NamesAreRead'
  OBVIOUS
<1>t. TypeOK /\ SlotsInOrder /\ HandedOver /\ BroadcastsOwn /\ NamesAreRead
  BY DEF IInv
<1>i. \A c \in Clients : Introduced(c) => Introduced(c)'
  BY Monotone
<1>1. CASE MainThread
  <2>1. \A t \in Threads : pc'[t] \in {"lookup", "send"} => pc[t] = pc'[t]
    BY <1>t, <1>1
    DEF TypeOK, MainThread, Accept, AcceptFails, Dispatch, DispatchPastEnd, CreateFails, Goto, serverVars
  <2>2. ASSUME NEW t \in Threads
        PROVE  /\ pc'[t] = "lookup" => Introduced(socket[t])'
               /\ pc'[t] = "send" => Introduced(target[t])'
    <3>1. /\ pc[t] = "lookup" => socket[t] \in Clients
          /\ pc[t] = "send" => target[t] \in Clients
          /\ socket'[t] = socket[t] /\ target'[t] = target[t]
      BY <1>t, <1>1, SocketIsClient, MainFrame DEF BroadcastsOwn
    <3> QED
      BY <1>t, <1>i, <2>1, <3>1 DEF NamesAreRead, Introduced
  <2>3. ASSUME NEW j \in Slots, clients'[j].named, clients'[j].sockfd # NoSocket
        PROVE  clients'[j] = clients[j]
    <3>1. CASE Register
      BY <1>t, <2>3, <3>1 DEF TypeOK, SlotsInOrder, Register, Client, Slots
    <3>2. CASE UNCHANGED clients
      BY <3>2
    <3> QED
      BY <1>1, <3>1, <3>2
      DEF MainThread, Accept, AcceptFails, Dispatch, DispatchPastEnd, CreateFails, serverVars
  <2>4. ASSUME NEW j \in Slots, clients'[j].named, clients'[j].sockfd # NoSocket
        PROVE  Introduced(clients[j].sockfd)'
    <3>1. clients[j].sockfd \in Clients
      BY <1>t, <2>3, <2>4 DEF TypeOK, Client
    <3> QED
      BY <1>t, <1>i, <2>3, <2>4, <3>1 DEF NamesAreRead, Introduced
  <2> QED
    BY <2>2, <2>4 DEF NamesAreRead
<1>2. ASSUME NEW t \in Threads, Handler(t) PROVE NamesAreRead'
  <2>1. pc[t] \notin {"none", "start"} => socket[t] \in Clients
    BY <1>t, SocketIsClient
  <2>2. pc'[t] = "lookup" => Introduced(socket[t])' /\ socket'[t] = socket[t]
    <3>1. ASSUME pc'[t] = "lookup" PROVE RecvName(t)
      BY <1>t, <1>2, <3>1, AdvanceInSlots
      DEF TypeOK, Handler, Start, Lookup, LookupFails, Recv, RecvEnd, StopServing, SkipSlot, PickSlot, SendToSlot,
          SendLine, SendToCleared, GiveUpSlot, SendKills, Remove, RemoveEntry, At, Goto, serverVars
    <3>2. ASSUME RecvName(t) PROVE Introduced(socket[t])' /\ socket'[t] = socket[t]
      <4>1. CASE AtEnd(socket[t])
        BY <2>1, <3>2, <4>1 DEF RecvName, RecvNameFrom, AtEnd, Introduced
      <4>2. CASE \E run \in Arrived(socket[t], BUFFER_SIZE) : taken' = [taken EXCEPT ![socket[t]] = run.hi]
        BY <1>t, <2>1, <3>2, <4>2, ArrivedRun DEF TypeOK, RecvName, RecvNameFrom, At, Introduced
      <4> QED
        BY <3>2, <4>1, <4>2 DEF RecvName, RecvNameFrom
    <3> QED
      BY <3>1, <3>2
  <2>3. pc'[t] = "send" => target'[t] \in Clients /\ Introduced(target'[t])
    <3>1. ASSUME pc'[t] = "send" PROVE PickSlot(t) \/ SendKills(t)
      BY <1>t, <1>2, <3>1, AdvanceInSlots
      DEF TypeOK, Handler, Start, RecvName, RecvNameFrom, Lookup, LookupFails, Recv, RecvEnd, StopServing, SkipSlot,
          SendToSlot, SendLine, SendToCleared, GiveUpSlot, Remove, RemoveEntry, At, Goto
    <3>2. ASSUME PickSlot(t) PROVE target'[t] \in Clients /\ Introduced(target'[t])
      BY <1>t, <3>2 DEF TypeOK, NamesAreRead, PickSlot, Recipient, At, Client
    <3>3. ASSUME SendKills(t) PROVE target'[t] \in Clients /\ Introduced(target'[t])
      BY <1>t, <3>3 DEF NamesAreRead, BroadcastsOwn, SendKills, At, serverVars
    <3> QED
      BY <3>1, <3>2, <3>3
  <2>4. ASSUME NEW u \in Threads
        PROVE  /\ pc'[u] = "lookup" => Introduced(socket[u])'
               /\ pc'[u] = "send" => Introduced(target[u])'
    <3>1. CASE u = t
      BY <1>i, <2>2, <2>3, <3>1 DEF Introduced
    <3>2. CASE u # t
      <4>1. pc'[u] = pc[u] /\ socket'[u] = socket[u] /\ target'[u] = target[u]
        BY <1>t, <1>2, <3>2, HandlerFrame
      <4>2. /\ pc[u] = "lookup" => socket[u] \in Clients
            /\ pc[u] = "send" => target[u] \in Clients
        BY <1>t, SocketIsClient DEF BroadcastsOwn
      <4> QED
        BY <1>t, <1>i, <4>1, <4>2 DEF NamesAreRead, Introduced
    <3> QED
      BY <3>1, <3>2
  <2>5. ASSUME NEW j \in Slots, clients'[j].named, clients'[j].sockfd # NoSocket
        PROVE  /\ clients'[j].sockfd = clients[j].sockfd /\ clients[j].sockfd \in Clients
               /\ Introduced(clients[j].sockfd)
    <3>1. CASE Lookup(t)
      <4>1. PICK k \in Slots : FirstSlot(k, socket[t]) /\ clients' = [clients EXCEPT ![k].named = TRUE]
        BY <3>1 DEF Lookup
      <4>2. clients'[j].sockfd = clients[j].sockfd /\ clients[j].sockfd \in Clients
        BY <1>t, <2>5, <4>1 DEF TypeOK, Client
      <4>3. CASE j = k
        BY <1>t, <3>1, <4>1, <4>2, <4>3 DEF NamesAreRead, Lookup, At, FirstSlot
      <4>4. CASE j # k
        BY <1>t, <2>5, <4>1, <4>2, <4>4 DEF TypeOK, NamesAreRead
      <4> QED
        BY <4>2, <4>3, <4>4
    <3>2. CASE Remove(t)
      <4>1. ASSUME NEW k \in Slots, clients' = [clients EXCEPT ![k].sockfd = NoSocket]
            PROVE  clients'[j] = clients[j]
        BY <1>t, <2>5, <4>1 DEF TypeOK, Client
      <4>2. clients'[j] = clients[j]
        BY <3>2, <4>1 DEF Remove, RemoveEntry, ClearSlot
      <4> QED
        BY <1>t, <2>5, <4>2 DEF TypeOK, NamesAreRead, Client
    <3>3. CASE UNCHANGED clients
      BY <1>t, <2>5, <3>3 DEF TypeOK, NamesAreRead, Client
    <3>4. CASE ~Lookup(t) /\ ~Remove(t)
      BY <1>2, <3>3, <3>4
      DEF Handler, Start, RecvName, RecvNameFrom, LookupFails, Recv, RecvEnd, StopServing, SkipSlot, PickSlot,
          SendToSlot, SendLine, SendToCleared, GiveUpSlot, SendKills, serverVars
    <3> QED
      BY <3>1, <3>2, <3>4
  <2>6. ASSUME NEW j \in Slots, clients'[j].named, clients'[j].sockfd # NoSocket
        PROVE  Introduced(clients[j].sockfd)'
    BY <1>i, <2>5, <2>6 DEF Introduced
  <2> QED
    BY <2>4, <2>6 DEF NamesAreRead
<1>3. CASE UNCHANGED serverVars
  <2>1. \A t \in Threads :
          /\ pc[t] = "lookup" => socket[t] \in Clients
          /\ pc[t] = "send" => target[t] \in Clients
    BY <1>t, SocketIsClient DEF BroadcastsOwn
  <2>2. \A j \in Slots : clients[j].sockfd # NoSocket => clients[j].sockfd \in Clients
    BY <1>t DEF TypeOK, Client
  <2> QED
    BY <1>t, <1>i, <1>3, <2>1, <2>2 DEF NamesAreRead, Introduced, serverVars
<1>4. ASSUME NEW c \in Clients, Joins(c) \/ ClientStep(c) PROVE UNCHANGED serverVars
  BY <1>t, <1>4, ClientFrame
<1> QED
  BY <1>1, <1>2, <1>3, <1>4 DEF Next, ServerNext, vars

(* A slot is cleared only when its client has left (server.c:69-76).       *)
LEMMA KeptStep == IInv /\ [Next]_vars => NoLiveClientDropped'
<1> SUFFICES ASSUME IInv, [Next]_vars, Running', NEW c \in Clients,
                    conn'[c] = "open", ~InBacklog(c)', ~InHand(c)'
             PROVE  Registered(c)'
  BY DEF NoLiveClientDropped
<1>t. TypeOK /\ SlotsInOrder /\ HandedOver /\ RemovesLeavers /\ NoLiveClientDropped
  BY DEF IInv
<1>1. CASE Accept
  <2>1. Running /\ conn[c] = "open" /\ ~InHand(c)
    BY <1>1 DEF Accept, InHand
  <2>2. ~InBacklog(c)
    <3>1. backlog \in Seq(Clients) /\ backlog # << >>
      BY <1>t, <1>1 DEF TypeOK, Accept
    <3>2. c # Head(backlog) /\ \A k \in 1 .. Len(Tail(backlog)) : Tail(backlog)[k] # c
      BY <1>1 DEF Accept, InHand, InBacklog
    <3>3. ASSUME NEW k \in 1 .. Len(backlog) PROVE backlog[k] # c
      <4>1. CASE k = 1
        BY <3>1, <3>2, <4>1
      <4>2. CASE k # 1
        <5>1. k - 1 \in 1 .. Len(Tail(backlog)) /\ Tail(backlog)[k - 1] = backlog[k]
          BY <3>1, <4>2
        <5> QED
          BY <3>2, <5>1
      <4> QED
        BY <4>1, <4>2
    <3> QED
      BY <3>3 DEF InBacklog
  <2>3. Registered(c)
    BY <1>t, <2>1, <2>2 DEF NoLiveClientDropped
  <2> QED
    BY <1>1, <2>3 DEF Accept, Registered
<1>2. CASE Dispatch
  <2>1. /\ client_number \in Slots /\ clients[client_number].sockfd = NoSocket
        /\ clients' = [clients EXCEPT ![client_number].sockfd = client_sockfd]
    BY <1>t, <1>2, ChatServerAssumption DEF TypeOK, SlotsInOrder, Dispatch, Register, Slots
  <2>2. CASE c = client_sockfd
    BY <1>t, <2>1, <2>2 DEF TypeOK, Registered
  <2>3. CASE c # client_sockfd
    <3>1. Registered(c)
      BY <1>t, <1>2, <2>3
      DEF NoLiveClientDropped, Dispatch, Register, InBacklog, InHand, netVars
    <3> QED
      BY <1>t, <2>1, <3>1, SocketsAssumption DEF TypeOK, Registered
  <2> QED
    BY <2>2, <2>3
<1>3. CASE AcceptFails \/ DispatchPastEnd \/ CreateFails
  BY <1>3 DEF AcceptFails, DispatchPastEnd, CreateFails, Running
<1>4. ASSUME NEW t \in Threads, Handler(t) PROVE Registered(c)'
  <2>1. Registered(c)
    BY <1>t, <1>4, HandlerFrame DEF NoLiveClientDropped, InBacklog, InHand
  <2>2. CASE Lookup(t)
    BY <1>t, <2>1, <2>2 DEF TypeOK, Lookup, Registered
  <2>3. CASE Remove(t)
    <3>1. socket[t] # c
      BY <1>t, <1>4, <2>3, HandlerFrame DEF RemovesLeavers, Remove, RemoveEntry, At
    <3> QED
      BY <1>t, <2>1, <2>3, <3>1 DEF TypeOK, Remove, RemoveEntry, ClearSlot, FirstSlot, Registered
  <2>4. CASE ~Lookup(t) /\ ~Remove(t)
    <3>1. UNCHANGED clients
      BY <1>4, <2>4
      DEF Handler, Start, RecvName, RecvNameFrom, LookupFails, Recv, RecvEnd, StopServing, SkipSlot, PickSlot,
          SendToSlot, SendLine, SendToCleared, GiveUpSlot, SendKills, serverVars
    <3> QED
      BY <2>1, <3>1 DEF Registered
  <2> QED
    BY <2>2, <2>3, <2>4
<1>5. ASSUME NEW d \in Clients, Joins(d) \/ ClientStep(d) PROVE Registered(c)'
  <2>1. /\ Running /\ ~InHand(c) /\ UNCHANGED clients
    BY <1>t, <1>5, ClientFrame DEF Running, InHand, serverVars
  <2>2. conn[c] = "open" /\ ~InBacklog(c)
    <3>1. CASE Joins(d)
      <4>1. /\ backlog' = Append(backlog, d) /\ conn' = [conn EXCEPT ![d] = "open"]
            /\ backlog \in Seq(Clients)
        BY <1>t, <3>1 DEF TypeOK, Joins, Connect, Establish
      <4>2. Len(backlog') = Len(backlog) + 1 /\ backlog'[Len(backlog) + 1] = d
            /\ \A k \in 1 .. Len(backlog) : backlog'[k] = backlog[k]
        BY <4>1
      <4>3. d # c
        BY <4>1, <4>2 DEF InBacklog
      <4>4. conn[c] = "open"
        BY <1>t, <4>1, <4>3 DEF TypeOK
      <4>5. Len(backlog) \in Nat
        BY <4>1
      <4> QED
        BY <4>2, <4>4, <4>5 DEF InBacklog
    <3>2. CASE ClientStep(d)
      BY <1>t, <3>2
      DEF TypeOK, ClientStep, ConnectRefused, EnterName, Speaks, EnterMessage, EnterLine, ShowLine,
          ServerDisconnected, Leave, CloseEnds, InBacklog
    <3> QED
      BY <1>5, <3>1, <3>2
  <2> QED
    BY <1>t, <2>1, <2>2 DEF NoLiveClientDropped, Registered
<1>6. CASE UNCHANGED vars
  BY <1>t, <1>6
  DEF NoLiveClientDropped, Registered, InBacklog, InHand, Running, vars, netVars, serverVars
<1> QED
  BY <1>1, <1>2, <1>3, <1>4, <1>5, <1>6 DEF Next, ServerNext, MainThread

(* Only one action adds to what a client is sent.                          *)
LEMMA StreamGrows ==
  ASSUME IInv, [Next]_vars, NEW c \in Clients
  PROVE  \/ stream'[c] = stream[c]
         \/ \E t \in Threads :
              /\ SendToSlot(t)
              /\ target[t] = c /\ conn[c] = "open"
              /\ stream'[c] = Append(stream[c], [name |-> client_name[t], text |-> buffer[t]])
<1>t. TypeOK
  BY DEF IInv
<1>1. CASE MainThread
  BY <1>t, <1>1, MainFrame
<1>2. ASSUME NEW t \in Threads, SendToSlot(t)
      PROVE  \/ stream'[c] = stream[c]
             \/ /\ target[t] = c /\ conn[c] = "open"
                /\ stream'[c] = Append(stream[c], [name |-> client_name[t], text |-> buffer[t]])
  BY <1>t, <1>2 DEF TypeOK, SendToSlot, SendLine, Send
<1>3. ASSUME NEW t \in Threads, Handler(t), ~SendToSlot(t) PROVE stream' = stream
  BY <1>3
  DEF Handler, Start, RecvName, RecvNameFrom, Lookup, LookupFails, Recv, RecvEnd, StopServing, SkipSlot, PickSlot,
      SendToCleared, GiveUpSlot, SendKills, Remove, RemoveEntry, netVars
<1>4. ASSUME NEW d \in Clients, Joins(d) \/ ClientStep(d) PROVE stream' = stream
  BY <1>t, <1>4, ClientFrame
<1>5. CASE UNCHANGED vars
  BY <1>5 DEF vars, netVars
<1> QED
  BY <1>1, <1>2, <1>3, <1>4, <1>5 DEF Next, ServerNext

(* What is sent to a client was read from another (server.c:58-62).        *)
LEMMA EchoStep == IInv /\ [Next]_vars => NeverEchoed'
<1> SUFFICES ASSUME IInv, [Next]_vars, NEW c \in Clients, NEW k \in 1 .. Len(stream'[c])
             PROVE  stream'[c][k].text.from # c
  BY DEF NeverEchoed
<1>t. TypeOK /\ BroadcastsOwn /\ NeverEchoed
  BY DEF IInv
<1>1. CASE stream'[c] = stream[c]
  BY <1>t, <1>1 DEF NeverEchoed
<1>2. ASSUME NEW t \in Threads, SendToSlot(t), target[t] = c,
             stream'[c] = Append(stream[c], [name |-> client_name[t], text |-> buffer[t]])
      PROVE  stream'[c][k].text.from # c
  <2>1. buffer[t].from # c
    BY <1>t, <1>2 DEF BroadcastsOwn, SendToSlot, SendLine, At
  <2>2. stream[c] \in Seq(Line) /\ Len(stream[c]) \in Nat
    BY <1>t DEF TypeOK
  <2>3. [name |-> client_name[t], text |-> buffer[t]] \in Line
    BY <1>t DEF TypeOK, Line
  <2>4. CASE k = Len(stream[c]) + 1
    BY <1>2, <2>1, <2>2, <2>3, <2>4, AppendProperties
  <2>5. CASE k \in 1 .. Len(stream[c])
    BY <1>t, <1>2, <2>2, <2>3, <2>5, AppendProperties DEF NeverEchoed
  <2> QED
    BY <1>2, <2>2, <2>3, <2>4, <2>5, AppendProperties
<1> QED
  BY <1>1, <1>2, StreamGrows

(* Nothing is sent to a slot without a name (server.c:60).                 *)
LEMMA SilentStep == IInv /\ [Next]_vars => SilentUntilNamed'
<1> SUFFICES ASSUME IInv, [Next]_vars, NEW c \in Clients, stream'[c] # << >>
             PROVE  taken'[c] > 0
  BY DEF SilentUntilNamed
<1>t. TypeOK /\ HandedOver /\ NamesAreRead /\ SilentUntilNamed
  BY DEF IInv
<1>m. taken[c] > 0 => taken'[c] > 0
  BY Monotone
<1>1. CASE stream'[c] = stream[c]
  BY <1>t, <1>m, <1>1 DEF SilentUntilNamed
<1>2. ASSUME NEW t \in Threads, SendToSlot(t), target[t] = c, conn[c] = "open"
      PROVE  taken[c] > 0
  BY <1>t, <1>2 DEF NamesAreRead, Introduced, SendToSlot, SendLine, At
<1> QED
  BY <1>m, <1>1, <1>2, StreamGrows

-----------------------------------------------------------------------------
(* The theorems *)

(* The server starts without clients, slots or threads.                    *)
LEMMA InvInit == Init => IInv
<1> SUFFICES ASSUME Init PROVE IInv
  OBVIOUS
<1>1. TypeOK
  BY SocketsAssumption, ChatServerAssumption
  DEF Init, NetInit, ServerInit, TypeOK, ServerStates, ConnStates, SockErrors, Run, NoRun,
      Name, NoName, Unterminated, Line, MainStates, ThreadStates, Client, Slots, Threads
<1>2. SlotsInOrder /\ HandedOver /\ RemovesLeavers /\ BroadcastsOwn /\ NamesAreRead
  BY DEF Init, NetInit, ServerInit, SlotsInOrder, HandedOver, RemovesLeavers, BroadcastsOwn, NamesAreRead
<1>3. NoLiveClientDropped /\ NeverEchoed /\ SilentUntilNamed
  BY DEF Init, NetInit, ServerInit, NoLiveClientDropped, NeverEchoed, SilentUntilNamed
<1> QED
  BY <1>1, <1>2, <1>3 DEF IInv

(* The parts together are inductive.                                       *)
LEMMA InvStep == IInv /\ [Next]_vars => IInv'
  BY TypeStep, OrderStep, HandedStep, RemovesStep, BroadcastStep, NamesStep, KeptStep, EchoStep,
     SilentStep
  DEF IInv

(* The invariant holds in every state the chat reaches.                    *)
THEOREM Invariance == Spec => []IInv
  BY InvInit, InvStep, PTL DEF Spec

(* Every variable keeps its type; in particular no broadcast loop reads    *)
(* past the array of clients.                                              *)
THEOREM TypeCorrect == Spec => []TypeOK
<1>1. IInv => TypeOK
  BY DEF IInv
<1> QED
  BY Invariance, <1>1, PTL

(* However connections race, only a client that has left loses its slot.   *)
THEOREM LiveClientsKept == Spec => []NoLiveClientDropped
<1>1. IInv => NoLiveClientDropped
  BY DEF IInv
<1> QED
  BY Invariance, <1>1, PTL

(* However connections race, no message comes back to the client that      *)
(* wrote it.                                                               *)
THEOREM NoEcho == Spec => []NeverEchoed
<1>1. IInv => NeverEchoed
  BY DEF IInv
<1> QED
  BY Invariance, <1>1, PTL

(* However connections race, the server sends nothing to a client whose    *)
(* name it has not read.                                                   *)
THEOREM NamedBeforeServed == Spec => []SilentUntilNamed
<1>1. IInv => SilentUntilNamed
  BY DEF IInv
<1> QED
  BY Invariance, <1>1, PTL

-----------------------------------------------------------------------------
(* Users who join one at a time: every connection has reached its thread   *)
(* before the next one is made, so the slot of a new thread still belongs  *)
(* to the connection that main's variable holds.                           *)

OneAtATime ==
  /\ Len(backlog) <= 1
  /\ backlog # << >> => main = "accept" /\ \A t \in Threads : pc[t] # "start"
  /\ main = "dispatch" => \A t \in Threads : pc[t] # "start"
  /\ \A t \in Threads :
       /\ pc[t] = "start" => clients[t - 1].sockfd \in {client_sockfd, NoSocket}
       /\ pc[t] \notin {"none", "start"} => clients[t - 1].sockfd \in {socket[t], NoSocket}

HInv == IInv /\ OneAtATime

(* At the start no connection is being handed over.                        *)
LEMMA HandoffInit == Init => OneAtATime
  BY DEF Init, NetInit, ServerInit, OneAtATime

(* A connection is made when the previous one has its thread.              *)
LEMMA HandoffStep == Paced /\ HInv /\ [Next]_vars => OneAtATime'
<1> SUFFICES ASSUME Paced, HInv, [Next]_vars PROVE OneAtATime'
  OBVIOUS
<1>t. TypeOK /\ SlotsInOrder /\ OneAtATime
  BY DEF HInv, IInv
<1>s. /\ backlog \in Seq(Clients)
      /\ client_number \in Nat
      /\ \A t \in Threads : t \in Int /\ t - 1 \in Slots
  BY <1>t, ChatServerAssumption DEF TypeOK, Slots, Threads
<1>1. CASE Accept
  <2>1. backlog' = << >>
    BY <1>t, <1>s, <1>1 DEF OneAtATime, Accept
  <2>2. \A t \in Threads : pc[t] # "start"
    BY <1>t, <1>1 DEF OneAtATime, Accept
  <2>3. UNCHANGED <<pc, clients, socket>>
    BY <1>1 DEF Accept, locals
  <2> QED
    BY <1>t, <2>1, <2>2, <2>3 DEF OneAtATime
<1>2. CASE AcceptFails \/ DispatchPastEnd
  BY <1>t, <1>2 DEF OneAtATime, AcceptFails, DispatchPastEnd, serverVars
<1>3. CASE Dispatch \/ CreateFails
  <2>1. /\ main = "dispatch" /\ client_number \in Slots
        /\ clients' = [clients EXCEPT ![client_number].sockfd = client_sockfd]
        /\ UNCHANGED <<backlog, client_sockfd, socket>>
    BY <1>s, <1>3, ChatServerAssumption
    DEF Dispatch, CreateFails, Register, Slots, netVars, locals
  <2>2. backlog = << >> /\ \A t \in Threads : pc[t] # "start"
    BY <1>t, <2>1 DEF OneAtATime
  <2>3. \A t \in Threads : pc'[t] \notin {"none", "start"} => pc[t] = pc'[t] /\ t - 1 # client_number
    BY <1>t, <1>s, <1>3, <2>2 DEF TypeOK, SlotsInOrder, Dispatch, CreateFails, Goto
  <2>4. ASSUME NEW t \in Threads, pc'[t] = "start"
        PROVE  main' = "accept" /\ clients'[t - 1].sockfd = client_sockfd
    <3>1. main' = "accept" /\ t = client_number + 1
      BY <1>t, <1>3, <2>2, <2>4 DEF TypeOK, Dispatch, CreateFails, Goto
    <3> QED
      BY <1>t, <1>s, <2>1, <3>1 DEF TypeOK
  <2>5. ASSUME NEW t \in Threads, pc'[t] \notin {"none", "start"}
        PROVE  clients'[t - 1].sockfd \in {socket'[t], NoSocket}
    BY <1>t, <1>s, <2>1, <2>3, <2>5 DEF OneAtATime, TypeOK
  <2>6. main' = "dispatch" => \A t \in Threads : pc'[t] # "start"
    BY <2>4
  <2> QED
    BY <1>t, <2>1, <2>2, <2>4, <2>5, <2>6 DEF OneAtATime
<1>4. ASSUME NEW t \in Threads, Handler(t) PROVE OneAtATime'
  <2>1. \A j \in Slots : clients'[j].sockfd \in {clients[j].sockfd, NoSocket}
    <3>1. CASE Lookup(t)
      BY <1>t, <3>1 DEF TypeOK, Lookup
    <3>2. CASE Remove(t)
      <4>1. ASSUME NEW k \in Slots, clients' = [clients EXCEPT ![k].sockfd = NoSocket]
            PROVE  \A j \in Slots : clients'[j].sockfd \in {clients[j].sockfd, NoSocket}
        BY <1>t, <4>1 DEF TypeOK, Client
      <4> QED
        BY <3>2, <4>1 DEF Remove, RemoveEntry, ClearSlot
    <3>3. CASE ~Lookup(t) /\ ~Remove(t)
      BY <1>4, <3>3
      DEF Handler, Start, RecvName, RecvNameFrom, LookupFails, Recv, RecvEnd, StopServing, SkipSlot, PickSlot,
          SendToSlot, SendLine, SendToCleared, GiveUpSlot, SendKills, serverVars
    <3> QED
      BY <3>1, <3>2, <3>3
  <2>2. clients'[t - 1].sockfd \in {socket'[t], NoSocket}
    BY <1>t, <1>s, <1>4, <2>1, HandlerFrame DEF OneAtATime
  <2>3. UNCHANGED <<main, client_sockfd, backlog>> /\ pc'[t] # "start"
        /\ \A u \in Threads \ {t} : pc'[u] = pc[u] /\ socket'[u] = socket[u]
    BY <1>t, <1>4, HandlerFrame
  <2> QED
    BY <1>t, <1>s, <2>1, <2>2, <2>3 DEF OneAtATime
<1>5. ASSUME NEW c \in Clients, Joins(c) PROVE OneAtATime'
  <2>1. Quiet /\ backlog' = Append(backlog, c) /\ UNCHANGED serverVars
    BY <1>5 DEF Joins, Connect, Establish
  <2>2. Len(backlog') = 1
    BY <2>1 DEF Quiet
  <2> QED
    BY <1>t, <2>1, <2>2 DEF Quiet, OneAtATime, serverVars
<1>6. ASSUME NEW c \in Clients, ClientStep(c) PROVE UNCHANGED <<backlog, serverVars>>
  BY <1>6
  DEF ClientStep, ConnectRefused, EnterName, Speaks, EnterMessage, EnterLine, ShowLine, ServerDisconnected,
      Leave, CloseEnds
<1>7. CASE UNCHANGED <<backlog, serverVars>>
  BY <1>t, <1>7 DEF OneAtATime, serverVars
<1> QED
  BY <1>1, <1>2, <1>3, <1>4, <1>5, <1>6, <1>7 DEF Next, ServerNext, MainThread, vars, netVars

(* When users join one at a time, each thread serves the client of the     *)
(* slot it was created for.                                                *)
THEOREM PacedHandoff == Paced => (Spec => []EachThreadServesItsSlot)
<1> SUFFICES ASSUME Paced PROVE Spec => []EachThreadServesItsSlot
  OBVIOUS
<1>1. Init => HInv
  BY InvInit, HandoffInit DEF HInv
<1>2. HInv /\ [Next]_vars => HInv'
  BY InvStep, HandoffStep DEF HInv
<1>3. HInv => EachThreadServesItsSlot
  BY DEF HInv, OneAtATime, EachThreadServesItsSlot
<1> QED
  BY <1>1, <1>2, <1>3, PTL DEF Spec

-----------------------------------------------------------------------------
(* Users who join one at a time: one connection, one thread, one name      *)

Unserved(c) == \A u \in Threads : socket[u] # c

(* A connection goes from the backlog to main's variable and from there to *)
(* one thread.                                                             *)
HandedOnce ==
  /\ \A c \in Clients : conn[c] = "none" => c # client_sockfd /\ Unserved(c)
  /\ \A k \in 1 .. Len(backlog) :
       conn[backlog[k]] # "none" /\ backlog[k] # client_sockfd /\ Unserved(backlog[k])
  /\ main = "dispatch" => Unserved(client_sockfd)
  /\ \A t \in Threads : pc[t] = "start" => Unserved(client_sockfd)
  /\ \A t, u \in Threads : pc[t] = "start" /\ pc[u] = "start" => t = u
  /\ \A t \in Threads : pc[t] \in {"none", "start"} => socket[t] = NoSocket
  /\ \A t, u \in Threads : socket[t] = socket[u] /\ socket[t] # NoSocket => t = u

(* The slot of a thread is its client's until the thread clears it.        *)
OwnSlots ==
  /\ \A t \in Threads : pc[t] = "start" => clients[t - 1].sockfd = client_sockfd
  /\ \A t \in Threads :
       pc[t] \notin {"none", "start", "done"} => clients[t - 1].sockfd = socket[t]

(* Nothing but a name comes from a patient client until it is read.        *)
Patience == \A c \in Patient : taken[c] = 0 => sent[c] \in {0, NameSize[c]}

(* Its name is the first bytes its client sent, all of them if the client  *)
(* is patient, unless the client left without saying any.                  *)
GoesBy(t, name) ==
  /\ name.from = socket[t]
  /\ name.lo = 1
  /\ name.hi <= taken[socket[t]]
  /\ socket[t] \in Patient => name.hi = NameSize[socket[t]] \/ AtEnd(socket[t])

(* What a thread broadcasts comes behind the name it goes by.              *)
OwnNames ==
  /\ \A c \in Clients : Unserved(c) => taken[c] = 0
  /\ \A t \in Threads :
       /\ pc[t] = "name" => taken[socket[t]] = 0
       /\ pc[t] = "lookup" => GoesBy(t, buffer[t])
       /\ pc[t] \in {"recv", "test", "send"} => GoesBy(t, client_name[t])
       /\ pc[t] \in {"test", "send"} => Signed([name |-> client_name[t], text |-> buffer[t]])

PInv == HInv /\ HandedOnce /\ OwnSlots /\ Patience /\ OwnNames

LinesSigned == \A c \in Clients : \A k \in 1 .. Len(stream[c]) : Signed(stream[c][k])

-----------------------------------------------------------------------------
(* What the steps of a thread change, by the place where it is.            *)
LEMMA HandlerSteps ==
  ASSUME TypeOK, NEW t \in Threads, Handler(t)
  PROVE  /\ Running
         /\ \A u \in Threads \ {t} : client_name'[u] = client_name[u] /\ cursor'[u] = cursor[u]
         /\ pc[t] # "lookup" => client_name' = client_name
         /\ \/ pc[t] = "start" /\ pc'[t] = "name" /\ UNCHANGED <<taken, clients>>
            \/ /\ pc[t] = "name" /\ pc'[t] = "lookup" /\ UNCHANGED clients
               /\ RecvNameFrom(t, socket[t])
            \/ /\ pc[t] = "lookup" /\ pc'[t] = "recv" /\ UNCHANGED <<taken, buffer>>
               /\ Lookup(t) \/ LookupFails(t)
            \/ /\ pc[t] = "recv" /\ pc'[t] \in {"test", "remove"} /\ UNCHANGED clients
               /\ Recv(t) \/ RecvEnd(t)
            \/ /\ pc[t] \in {"test", "send"} /\ pc'[t] \in {"test", "send", "recv"}
               /\ UNCHANGED <<taken, clients, buffer>>
            \/ /\ pc[t] = "remove" /\ pc'[t] = "done" /\ UNCHANGED <<taken, buffer>>
               /\ Remove(t)
<1> USE DEF TypeOK, At, Goto, netVars, serverVars, locals
<1>1. CASE Start(t)
  BY <1>1 DEF Start
<1>2. CASE RecvName(t)
  BY <1>2 DEF RecvName, RecvNameFrom
<1>3. CASE Lookup(t) \/ LookupFails(t)
  BY <1>3 DEF Lookup, LookupFails
<1>4. CASE Recv(t) \/ RecvEnd(t)
  BY <1>4 DEF Recv, RecvEnd, StopServing
<1>5. CASE SkipSlot(t) \/ PickSlot(t)
  BY <1>5 DEF SkipSlot, PickSlot, Advance, StepTo
<1>6. CASE SendToSlot(t) \/ SendToCleared(t)
  BY <1>6 DEF SendToSlot, SendLine, SendToCleared, GiveUpSlot, Advance, StepTo
<1>7. CASE SendKills(t)
  BY <1>7 DEF SendKills
<1>8. CASE Remove(t)
  BY <1>8 DEF Remove, RemoveEntry
<1> QED
  BY <1>1, <1>2, <1>3, <1>4, <1>5, <1>6, <1>7, <1>8 DEF Handler

(* What clients do to connections.                                         *)
LEMMA ClientSteps ==
  ASSUME TypeOK, NEW c \in Clients, Joins(c) \/ ClientStep(c)
  PROVE  /\ UNCHANGED <<main, client_sockfd, client_number, clients, pc, socket, client_name,
                        buffer, cursor, target, taken, stream, server>>
         /\ \A d \in Clients : conn'[d] = "none" => conn[d] = "none"
         /\ \/ UNCHANGED backlog
            \/ /\ Joins(c) /\ conn[c] = "none" /\ backlog' = Append(backlog, c)
               /\ conn'[c] = "open" /\ (Paced => backlog = << >>)
<1>1. CASE Joins(c)
  BY <1>1 DEF TypeOK, Joins, Quiet, Connect, Establish, serverVars
<1>2. CASE ClientStep(c) /\ (ConnectRefused(c) \/ ServerDisconnected(c) \/ Leave(c))
  BY <1>2 DEF TypeOK, ClientStep, ConnectRefused, ServerDisconnected, Leave, CloseEnds, serverVars
<1>3. CASE ClientStep(c) /\ (EnterName(c) \/ Speaks(c) \/ ShowLine(c))
  BY <1>3 DEF ClientStep, EnterName, Speaks, EnterMessage, EnterLine, ShowLine, serverVars
<1> QED
  BY <1>1, <1>2, <1>3 DEF ClientStep

-----------------------------------------------------------------------------
(* A client that nobody has accepted has no thread, and accept() gives it  *)
(* to one.                                                                 *)
LEMMA HandedOnceStep == Paced /\ PInv /\ [Next]_vars => HandedOnce'
<1> SUFFICES ASSUME Paced, PInv, [Next]_vars PROVE HandedOnce'
  OBVIOUS
<1>t. TypeOK /\ SlotsInOrder /\ HandedOver /\ OneAtATime /\ HandedOnce
  BY DEF PInv, HInv, IInv
<1>s. /\ backlog \in Seq(Clients)
      /\ client_number \in Nat
      /\ socket \in [Threads -> Clients \cup {NoSocket}]
      /\ NoSocket \notin Clients
  BY <1>t, SocketsAssumption DEF TypeOK
<1>1. CASE Accept
  <2>1. /\ backlog # << >> /\ client_sockfd' = backlog[1] /\ backlog' = << >>
        /\ UNCHANGED <<conn, pc, socket>>
    BY <1>t, <1>s, <1>1 DEF Accept, OneAtATime, locals
  <2>2. /\ 1 \in 1 .. Len(backlog)
        /\ backlog[1] \in Clients
    BY <1>s, <2>1
  <2>3. conn[backlog[1]] # "none" /\ Unserved(backlog[1])
    BY <1>t, <2>2 DEF HandedOnce
  <2>4. \A t \in Threads : pc[t] # "start"
    BY <1>t, <2>1 DEF OneAtATime
  <2> QED
    BY <1>t, <2>1, <2>3, <2>4 DEF HandedOnce, Unserved
<1>2. CASE AcceptFails \/ DispatchPastEnd
  BY <1>t, <1>2 DEF AcceptFails, DispatchPastEnd, HandedOnce, Unserved, serverVars
<1>3. CASE CreateFails
  BY <1>t, <1>3 DEF CreateFails, Register, HandedOnce, Unserved, locals
<1>4. CASE Dispatch
  <2>1. /\ main = "dispatch" /\ main' = "accept"
        /\ pc' = [pc EXCEPT ![client_number + 1] = "start"]
        /\ UNCHANGED <<backlog, conn, client_sockfd, socket>>
    BY <1>4 DEF Dispatch, Register, Goto, netVars, locals
  <2>2. Unserved(client_sockfd) /\ \A t \in Threads : pc[t] # "start"
    BY <1>t, <2>1 DEF HandedOnce, OneAtATime
  <2>3. \A t \in Threads : pc'[t] = "start" => t = client_number + 1
    BY <1>t, <2>1, <2>2 DEF TypeOK
  <2>4. \A t \in Threads : pc'[t] \in {"none", "start"} => pc[t] = "none"
    BY <1>t, <1>s, <2>1, <2>2 DEF TypeOK, SlotsInOrder, Threads
  <2> QED
    BY <1>t, <2>1, <2>2, <2>3, <2>4 DEF HandedOnce, Unserved
<1>5. ASSUME NEW t \in Threads, Handler(t) PROVE HandedOnce'
  <2>1. /\ UNCHANGED <<main, client_sockfd, conn, backlog>>
        /\ \A u \in Threads \ {t} : pc'[u] = pc[u] /\ socket'[u] = socket[u]
        /\ pc'[t] \notin {"none", "start"}
    BY <1>t, <1>5, HandlerFrame
  <2>2. CASE pc[t] # "start"
    <3>1. \A u \in Threads : socket'[u] = socket[u]
      BY <1>t, <1>5, <2>1, <2>2, HandlerFrame
    <3> QED
      BY <1>t, <2>1, <3>1 DEF HandedOnce, Unserved
  <2>3. CASE pc[t] = "start"
    <3>1. socket'[t] = client_sockfd
      BY <1>t, <1>5, <2>3, HandlerFrame
    <3>2. Unserved(client_sockfd) /\ \A u \in Threads \ {t} : pc[u] # "start"
      BY <1>t, <2>3 DEF HandedOnce
    <3>3. main # "dispatch" /\ backlog = << >>
      BY <1>t, <2>3 DEF OneAtATime
    <3> QED
      BY <1>t, <1>s, <2>1, <3>1, <3>2, <3>3 DEF HandedOnce, Unserved
  <2> QED
    BY <2>2, <2>3
<1>6. ASSUME NEW c \in Clients, Joins(c) \/ ClientStep(c) PROVE HandedOnce'
  <2>1. /\ UNCHANGED <<main, client_sockfd, pc, socket>>
        /\ \A d \in Clients : conn'[d] = "none" => conn[d] = "none"
    BY <1>t, <1>6, ClientSteps
  <2>2. \A k \in 1 .. Len(backlog') :
          /\ conn'[backlog'[k]] # "none" /\ backlog'[k] # client_sockfd
          /\ Unserved(backlog'[k])
    <3>1. CASE UNCHANGED backlog
      <4>1. \A k \in 1 .. Len(backlog) : backlog[k] \in Clients
        BY <1>s
      <4> QED
        BY <1>t, <2>1, <3>1, <4>1 DEF HandedOnce
    <3>2. CASE conn[c] = "none" /\ backlog' = Append(backlog, c) /\ conn'[c] = "open" /\ backlog = << >>
      <4>1. Len(backlog') = 1 /\ backlog'[1] = c
        BY <1>s, <3>2
      <4> QED
        BY <1>t, <3>2, <4>1 DEF HandedOnce
    <3> QED
      BY <1>t, <1>6, <3>1, <3>2, ClientSteps
  <2> QED
    BY <1>t, <2>1, <2>2 DEF HandedOnce, Unserved
<1>7. CASE UNCHANGED vars
  BY <1>t, <1>7 DEF HandedOnce, Unserved, vars, netVars, serverVars
<1> QED
  BY <1>1, <1>2, <1>3, <1>4, <1>5, <1>6, <1>7 DEF Next, ServerNext, MainThread

(* Main fills the slot of the thread it creates; a thread clears its own.  *)
LEMMA OwnSlotsStep == Paced /\ PInv /\ [Next]_vars => OwnSlots'
<1> SUFFICES ASSUME Paced, PInv, [Next]_vars PROVE OwnSlots'
  OBVIOUS
<1>t. TypeOK /\ SlotsInOrder /\ HandedOver /\ OneAtATime /\ HandedOnce /\ OwnSlots
  BY DEF PInv, HInv, IInv
<1>s. /\ client_number \in Nat
      /\ \A t \in Threads : t \in Int /\ t - 1 \in Slots
      /\ NoSocket \notin Clients
  BY <1>t, ChatServerAssumption, SocketsAssumption DEF TypeOK, Slots, Threads
<1>1. CASE Accept
  <2>1. UNCHANGED <<pc, clients, socket>> /\ \A t \in Threads : pc[t] # "start"
    BY <1>t, <1>1 DEF Accept, OneAtATime, locals
  <2> QED
    BY <1>t, <2>1 DEF OwnSlots
<1>2. CASE AcceptFails \/ DispatchPastEnd
  BY <1>t, <1>2 DEF AcceptFails, DispatchPastEnd, OwnSlots, serverVars
<1>3. CASE Dispatch \/ CreateFails
  <2>1. /\ main = "dispatch" /\ client_number \in Slots
        /\ clients' = [clients EXCEPT ![client_number].sockfd = client_sockfd]
        /\ UNCHANGED <<client_sockfd, socket>>
        /\ pc' = pc \/ pc' = [pc EXCEPT ![client_number + 1] = "start"]
    BY <1>s, <1>3, ChatServerAssumption
    DEF Dispatch, CreateFails, Register, Goto, Slots, netVars, locals
  <2>2. \A t \in Threads : pc[t] # "start"
    BY <1>t, <2>1 DEF OneAtATime
  <2>3. ASSUME NEW t \in Threads, pc'[t] = "start" PROVE clients'[t - 1].sockfd = client_sockfd
    <3>1. t = client_number + 1
      BY <1>t, <2>1, <2>2, <2>3 DEF TypeOK
    <3> QED
      BY <1>t, <1>s, <2>1, <3>1 DEF TypeOK
  <2>4. ASSUME NEW t \in Threads, pc'[t] \notin {"none", "start", "done"}
        PROVE  clients'[t - 1].sockfd = socket[t]
    <3>1. pc[t] = pc'[t] /\ t <= client_number
      BY <1>t, <2>1, <2>4 DEF TypeOK, SlotsInOrder
    <3>2. clients'[t - 1] = clients[t - 1]
      BY <1>t, <1>s, <2>1, <3>1 DEF TypeOK
    <3> QED
      BY <1>t, <2>4, <3>1, <3>2 DEF OwnSlots
  <2> QED
    BY <2>1, <2>3, <2>4 DEF OwnSlots
<1>4. ASSUME NEW t \in Threads, Handler(t) PROVE OwnSlots'
  <2>1. /\ UNCHANGED client_sockfd
        /\ \A u \in Threads \ {t} : pc'[u] = pc[u] /\ socket'[u] = socket[u]
        /\ pc'[t] # "start" /\ pc[t] # "none"
        /\ pc[t] # "start" => socket'[t] = socket[t]
        /\ pc[t] = "start" => socket'[t] = client_sockfd
    BY <1>t, <1>4, HandlerFrame
  <2>2. CASE pc[t] # "remove"
    <3>1. \A j \in Slots : clients'[j].sockfd = clients[j].sockfd
      <4>1. CASE pc[t] # "lookup"
        BY <1>t, <1>4, <2>2, <4>1, HandlerSteps
      <4>2. CASE pc[t] = "lookup"
        <5>1. UNCHANGED clients \/ \E j \in Slots : clients' = [clients EXCEPT ![j].named = TRUE]
          BY <1>t, <1>4, <4>2, HandlerSteps DEF Lookup, LookupFails
        <5>2. ASSUME NEW k \in Slots, clients' = [clients EXCEPT ![k].named = TRUE], NEW j \in Slots
              PROVE  clients'[j].sockfd = clients[j].sockfd
          BY <1>t, <5>2 DEF TypeOK, Client
        <5> QED
          BY <5>1, <5>2
      <4> QED
        BY <4>1, <4>2
    <3>2. pc[t] # "done"
      BY <1>t, <1>4, HandlerSteps
    <3> QED
      BY <1>t, <1>s, <2>1, <2>2, <3>1, <3>2 DEF OwnSlots
  <2>3. CASE pc[t] = "remove"
    <3>1. pc'[t] = "done" /\ (UNCHANGED clients
            \/ \E j \in Slots : clients[j].sockfd = socket[t]
                 /\ clients' = [clients EXCEPT ![j].sockfd = NoSocket])
      BY <1>t, <1>4, <2>3, HandlerSteps DEF Remove, RemoveEntry, ClearSlot, FirstSlot
    <3>2. \A j \in Slots : clients[j].sockfd # socket[t] => clients'[j] = clients[j]
      BY <1>t, <3>1 DEF TypeOK
    <3>3. socket[t] \in Clients
      BY <1>t, <2>3 DEF HandedOver
    <3>4. ASSUME NEW u \in Threads, pc'[u] = "start"
          PROVE  clients'[u - 1].sockfd = client_sockfd
      <4>1. u # t /\ pc[u] = "start" /\ clients[u - 1].sockfd = client_sockfd
        BY <1>t, <2>1, <3>1, <3>4 DEF OwnSlots
      <4>2. socket[t] # client_sockfd
        BY <1>t, <4>1 DEF HandedOnce, Unserved
      <4> QED
        BY <1>s, <3>2, <4>1, <4>2
    <3>5. ASSUME NEW u \in Threads, pc'[u] \notin {"none", "start", "done"}
          PROVE  clients'[u - 1].sockfd = socket'[u]
      <4>1. u # t /\ pc[u] \notin {"none", "start", "done"} /\ clients[u - 1].sockfd = socket[u]
        BY <1>t, <2>1, <3>1, <3>5 DEF OwnSlots
      <4>2. socket[t] # socket[u]
        BY <1>t, <1>s, <3>3, <4>1 DEF HandedOnce
      <4> QED
        BY <1>s, <2>1, <3>2, <4>1, <4>2
    <3> QED
      BY <2>1, <3>4, <3>5 DEF OwnSlots
  <2> QED
    BY <2>2, <2>3
<1>5. ASSUME NEW c \in Clients, Joins(c) \/ ClientStep(c) PROVE OwnSlots'
  BY <1>t, <1>5, ClientSteps DEF OwnSlots
<1>6. CASE UNCHANGED vars
  BY <1>t, <1>6 DEF OwnSlots, vars, serverVars
<1> QED
  BY <1>1, <1>2, <1>3, <1>4, <1>5, <1>6 DEF Next, ServerNext, MainThread

(* Clients alone add to what is sent, and only while they are there.       *)
LEMMA SentSteps ==
  ASSUME TypeOK, [Next]_vars, NEW c \in Clients
  PROVE  \/ sent'[c] = sent[c]
         \/ /\ conn[c] = "open" /\ UNCHANGED taken
            /\ \/ sent[c] = 0 /\ sent'[c] = NameSize[c]
               \/ c \in Patient => taken[c] > 0
<1>1. CASE MainThread
  BY <1>1, MainFrame
<1>2. ASSUME NEW t \in Threads, Handler(t) PROVE sent' = sent
  BY <1>2
  DEF Handler, Start, RecvName, RecvNameFrom, Lookup, LookupFails, Recv, RecvEnd, StopServing,
      SkipSlot, PickSlot, SendToSlot, SendLine, SendToCleared, GiveUpSlot, SendKills, Remove,
      RemoveEntry, netVars
<1>3. ASSUME NEW d \in Clients, Joins(d) PROVE sent' = sent
  BY <1>3 DEF Joins, Connect
<1>4. ASSUME NEW d \in Clients, ClientStep(d), ~EnterName(d), ~Speaks(d) PROVE sent' = sent
  BY <1>4 DEF ClientStep, ConnectRefused, ShowLine, ServerDisconnected, Leave
<1>5. ASSUME NEW d \in Clients, EnterName(d)
      PROVE  \/ sent'[c] = sent[c]
             \/ conn[c] = "open" /\ UNCHANGED taken /\ sent[c] = 0 /\ sent'[c] = NameSize[c]
  <2>1. NameSize[d] \in 1 .. LineMax /\ LineMax \in Nat
    BY ChatClientAssumption
  <2>2. sent[d] = 0 /\ conn[d] = "open" /\ UNCHANGED taken /\ sent' = [sent EXCEPT ![d] = @ + NameSize[d]]
    BY <1>5 DEF EnterName, EnterLine, Transmit
  <2>3. sent'[d] = NameSize[d]
    BY <2>1, <2>2 DEF TypeOK
  <2>4. c # d => sent'[c] = sent[c]
    BY <2>2 DEF TypeOK
  <2> QED
    BY <2>2, <2>3, <2>4
<1>6. ASSUME NEW d \in Clients, Speaks(d)
      PROVE  \/ sent'[c] = sent[c]
             \/ conn[c] = "open" /\ UNCHANGED taken /\ (c \in Patient => taken[c] > 0)
  BY <1>6 DEF TypeOK, Speaks, EnterMessage, EnterLine, Transmit
<1>7. CASE UNCHANGED vars
  BY <1>7 DEF vars, netVars
<1> QED
  BY <1>1, <1>2, <1>3, <1>4, <1>5, <1>6, <1>7 DEF Next, ServerNext

(* recv() goes forward in what was sent, and a stream that is at its end   *)
(* stays there.                                                            *)
LEMMA ReadSteps ==
  ASSUME IInv, [Next]_vars, NEW c \in Clients
  PROVE  taken[c] <= taken'[c] /\ (AtEnd(c) => AtEnd(c)')
<1>t. TypeOK /\ taken[c] \in Nat /\ sent[c] \in Nat
  BY DEF IInv, TypeOK
<1>1. ASSUME NEW s \in Clients, NEW run \in Arrived(s, BUFFER_SIZE),
             taken' = [taken EXCEPT ![s] = run.hi]
      PROVE  taken[c] <= taken'[c] /\ (AtEnd(c) => taken'[c] = taken[c])
  <2>1. PICK n \in 1 .. BUFFER_SIZE : n <= Unread(s) /\ run.hi = taken[s] + n
    BY DEF Arrived
  <2>2. n \in Nat /\ n > 0 /\ taken[s] \in Nat /\ sent[s] \in Nat
    BY <1>t, ChatServerAssumption DEF TypeOK
  <2>3. taken[s] <= run.hi /\ (AtEnd(s) => FALSE)
    BY <2>1, <2>2 DEF AtEnd, Unread
  <2> QED
    BY <1>t, <1>1, <2>3 DEF TypeOK
<1>2. ASSUME NEW t \in Threads, Handler(t)
      PROVE  /\ taken[c] <= taken'[c] /\ (AtEnd(c) => taken'[c] = taken[c])
             /\ conn' = conn
  <2>1. CASE RecvName(t)
    <3>1. socket[t] \in Clients
      BY <1>t, <2>1, SocketIsClient DEF IInv, RecvName, RecvNameFrom, At
    <3> QED
      BY <1>t, <1>1, <2>1, <3>1 DEF RecvName, RecvNameFrom
  <2>2. CASE Recv(t)
    <3>1. socket[t] \in Clients
      BY <1>t, <2>2, SocketIsClient DEF IInv, Recv, At
    <3> QED
      BY <1>t, <1>1, <2>2, <3>1 DEF Recv
  <2>3. CASE \/ Start(t) \/ Lookup(t) \/ LookupFails(t) \/ RecvEnd(t) \/ SkipSlot(t) \/ PickSlot(t)
             \/ SendToSlot(t) \/ SendToCleared(t) \/ SendKills(t) \/ Remove(t)
    BY <1>t, <2>3 DEF Start, Lookup, LookupFails, RecvEnd, StopServing, SkipSlot, PickSlot, SendToSlot,
                SendLine, SendToCleared, GiveUpSlot, SendKills, Remove, RemoveEntry, netVars
  <2> QED
    BY <1>2, <2>1, <2>2, <2>3 DEF Handler
<1>3. taken[c] <= taken'[c] /\ (AtEnd(c) => taken'[c] = taken[c])
  <2>1. CASE MainThread
    BY <1>t, <2>1, MainFrame
  <2>2. ASSUME NEW d \in Clients, Joins(d) \/ ClientStep(d) PROVE taken' = taken
    BY <1>t, <2>2, ClientFrame
  <2>3. CASE UNCHANGED vars
    BY <1>t, <2>3 DEF vars, netVars
  <2> QED
    BY <1>t, <1>2, <2>1, <2>2, <2>3 DEF Next, ServerNext
<1>4. AtEnd(c) => AtEnd(c)'
  <2> SUFFICES ASSUME AtEnd(c) PROVE AtEnd(c)'
    OBVIOUS
  <2>1. conn[c] = "closed" /\ conn'[c] = "closed"
    BY Monotone DEF AtEnd
  <2>2. sent'[c] = sent[c]
    BY <1>t, <2>1, SentSteps
  <2> QED
    BY <1>3, <2>1, <2>2 DEF AtEnd, Unread
<1> QED
  BY <1>3, <1>4

(* A patient user waits.                                                   *)
LEMMA PatienceStep == IInv /\ Patience /\ [Next]_vars => Patience'
<1> SUFFICES ASSUME IInv, Patience, [Next]_vars, NEW c \in Patient, taken'[c] = 0
             PROVE  sent'[c] \in {0, NameSize[c]}
  BY DEF Patience
<1>1. c \in Clients /\ TypeOK
  BY ChatServerAssumption DEF IInv
<1>2. taken[c] = 0
  BY <1>1, ReadSteps DEF TypeOK
<1> QED
  BY <1>1, <1>2, SentSteps DEF Patience

(* A name that a thread goes by remains so.                                *)
LEMMA NameStays ==
  ASSUME IInv, [Next]_vars, NEW t \in Threads, socket[t] \in Clients, socket'[t] = socket[t],
         NEW name, name.hi \in Nat, GoesBy(t, name)
  PROVE  /\ name.from = socket'[t]
         /\ name.lo = 1
         /\ name.hi <= taken'[socket'[t]]
         /\ socket'[t] \in Patient => name.hi = NameSize[socket'[t]] \/ AtEnd(socket[t])'
<1>1. PICK s \in Clients : s = socket[t]
  OBVIOUS
<1>2. taken[s] <= taken'[s] /\ (AtEnd(s) => AtEnd(s)')
  BY ReadSteps
<1>3. taken[s] \in Nat /\ taken'[s] \in Nat
  BY TypeStep DEF IInv, TypeOK
<1>4. name.hi <= taken'[s]
  BY <1>1, <1>2, <1>3 DEF GoesBy
<1> QED
  BY <1>1, <1>2, <1>4 DEF GoesBy, AtEnd, Unread

(* The first recv() takes the name a patient user entered, and no more.    *)
LEMMA FirstName ==
  ASSUME IInv, Patience, NEW t \in Threads, NEW s \in Clients, socket[t] = s, socket'[t] = s,
         taken[s] = 0, RecvNameFrom(t, s)
  PROVE  GoesBy(t, buffer[t])'
<1>t. TypeOK /\ sent[s] \in Nat
  BY DEF IInv, TypeOK
<1>1. CASE \E run \in Arrived(s, BUFFER_SIZE) :
             /\ s \in Patient /\ taken[s] = 0 => run.hi = sent[s]
             /\ buffer' = [buffer EXCEPT ![t] = run]
             /\ taken' = [taken EXCEPT ![s] = run.hi]
  <2>1. PICK n \in 1 .. BUFFER_SIZE :
          /\ n <= Unread(s)
          /\ s \in Patient => n = sent[s]
          /\ buffer'[t] = [from |-> s, lo |-> taken[s] + 1, hi |-> n]
          /\ taken'[s] = n
    BY <1>t, <1>1, ChatServerAssumption DEF Arrived, TypeOK
  <2>2. s \in Patient => n = NameSize[s]
    BY <1>t, <2>1, ChatServerAssumption DEF Patience, Unread
  <2> QED
    BY <2>1, <2>2, ChatServerAssumption DEF GoesBy
<1>2. CASE AtEnd(s) /\ buffer' = [buffer EXCEPT ![t] = NoRun(s)] /\ UNCHANGED taken
  BY <1>t, <1>2 DEF TypeOK, GoesBy, NoRun, AtEnd, Unread, RecvNameFrom
<1> QED
  BY <1>1, <1>2 DEF RecvNameFrom

(* What is read next comes behind the name.                                *)
LEMMA NextText ==
  ASSUME IInv, NEW t \in Threads, socket[t] \in Clients, pc[t] = "recv", pc'[t] = "test",
         Recv(t) \/ RecvEnd(t), client_name'[t] = client_name[t], GoesBy(t, client_name[t])
  PROVE  Signed([name |-> client_name[t], text |-> buffer[t]])'
<1>t. TypeOK
  BY DEF IInv
<1>1. Recv(t)
  BY <1>t DEF TypeOK, RecvEnd, StopServing, Goto
<1>2. PICK s \in Clients : s = socket[t]
  OBVIOUS
<1>3. PICK n \in 1 .. BUFFER_SIZE :
        n <= Unread(s) /\ buffer'[t] = [from |-> s, lo |-> taken[s] + 1, hi |-> taken[s] + n]
  BY <1>t, <1>1, <1>2 DEF Recv, Arrived, TypeOK
<1>4. ~AtEnd(s)
  BY <1>3, ChatServerAssumption DEF AtEnd
<1>5. client_name[t].hi \in Nat /\ taken[s] \in Nat
  BY <1>t DEF TypeOK, Name
<1>6. client_name[t].hi < taken[s] + 1
  BY <1>2, <1>5 DEF GoesBy
<1> QED
  BY <1>2, <1>3, <1>4, <1>6 DEF GoesBy, Signed

(* The first recv() of a client's only thread takes its first bytes.       *)
LEMMA OwnNamesStep == Paced /\ PInv /\ [Next]_vars => OwnNames'
<1> SUFFICES ASSUME Paced, PInv, [Next]_vars PROVE OwnNames'
  OBVIOUS
<1>t. /\ IInv /\ TypeOK /\ SlotsInOrder /\ HandedOver /\ HandedOnce /\ OwnSlots /\ OwnNames
      /\ Patience
  BY DEF PInv, HInv, IInv
<1>n. \A t \in Threads : client_name[t].hi \in Nat /\ buffer[t].lo \in Nat /\ buffer[t].hi \in Nat
  BY <1>t DEF TypeOK, Name, Run
<1>s. /\ \A t \in Threads : t \in Int /\ t > 0 /\ t - 1 \in Slots
      /\ NoSocket \notin Clients /\ client_number \in Nat
  BY <1>t, ChatServerAssumption, SocketsAssumption DEF TypeOK, Slots, Threads
<1>1. CASE MainThread
  <2>1. UNCHANGED <<conn, sent, taken, socket, buffer, client_name>>
        /\ \A t \in Threads : pc'[t] \in {pc[t], "start"}
    BY <1>t, <1>1
    DEF TypeOK, MainThread, Accept, AcceptFails, Dispatch, DispatchPastEnd, CreateFails, Register,
        Goto, netVars, serverVars, locals
  <2> QED
    BY <1>t, <2>1 DEF OwnNames, Unserved, GoesBy, Signed, AtEnd, Unread
<1>2. ASSUME NEW t \in Threads, Handler(t) PROVE OwnNames'
  <2>1. /\ pc[t] # "start" => socket'[t] = socket[t]
        /\ pc[t] = "start" => socket'[t] = client_sockfd
        /\ pc[t] # "none" /\ pc'[t] # "start"
        /\ \A u \in Threads \ {t} :
             /\ pc'[u] = pc[u] /\ socket'[u] = socket[u] /\ buffer'[u] = buffer[u]
             /\ client_name'[u] = client_name[u]
    BY <1>t, <1>2, HandlerFrame, HandlerSteps
  <2>o. \A u \in Threads \ {t} :
          /\ pc'[u] = "lookup" => GoesBy(u, buffer[u])'
          /\ pc'[u] \in {"recv", "test", "send"} => GoesBy(u, client_name[u])'
          /\ pc'[u] \in {"test", "send"} => Signed([name |-> client_name[u], text |-> buffer[u]])'
    <3> SUFFICES ASSUME NEW u \in Threads \ {t}
                 PROVE  /\ pc'[u] = "lookup" => GoesBy(u, buffer[u])'
                        /\ pc'[u] \in {"recv", "test", "send"} => GoesBy(u, client_name[u])'
                        /\ pc'[u] \in {"test", "send"}
                             => Signed([name |-> client_name[u], text |-> buffer[u]])'
      OBVIOUS
    <3>1. pc[u] \in {"lookup", "recv", "test", "send"} => socket[u] \in Clients
      BY <1>t DEF HandedOver
    <3>2. CASE pc[u] = "lookup"
      BY <1>t, <1>n, <2>1, <3>1, <3>2, NameStays DEF OwnNames, GoesBy
    <3>3. CASE pc[u] \in {"recv", "test", "send"}
      <4>0. GoesBy(u, client_name[u])
        BY <1>t, <3>3 DEF OwnNames
      <4>1. GoesBy(u, client_name[u])'
        BY <1>t, <1>n, <2>1, <3>1, <3>3, <4>0, NameStays DEF GoesBy
      <4> QED
        BY <1>t, <2>1, <3>3, <4>1 DEF OwnNames, Signed
    <3> QED
      BY <2>1, <3>2, <3>3
  <2>2. CASE pc[t] = "start"
    <3>1. UNCHANGED taken /\ pc'[t] = "name" /\ socket[t] = NoSocket /\ Unserved(client_sockfd)
      BY <1>t, <1>2, <2>2, HandlerSteps DEF HandedOnce
    <3>2. client_sockfd \in Clients
      <4>1. t <= client_number
        BY <1>t, <2>2 DEF SlotsInOrder
      <4> QED
        BY <1>t, <1>s, <4>1 DEF HandedOver
    <3>3. taken[client_sockfd] = 0
      BY <1>t, <3>1, <3>2 DEF OwnNames
    <3>4. \A c \in Clients : Unserved(c)' => Unserved(c)
      BY <1>s, <2>1, <3>1 DEF Unserved
    <3> QED
      BY <1>t, <2>1, <2>o, <2>2, <3>1, <3>3, <3>4 DEF OwnNames
  <2>3. CASE pc[t] \in {"name", "recv"}
    <3> DEFINE s == socket[t]
    <3>1. s \in Clients /\ \A u \in Threads : socket'[u] = socket[u]
      BY <1>t, <2>1, <2>3 DEF HandedOver
    <3>2. \A d \in Clients : d # s => taken'[d] = taken[d]
      <4>1. UNCHANGED taken \/ \E n : taken' = [taken EXCEPT ![s] = n]
        BY <1>t, <1>2, <2>3, HandlerSteps DEF RecvNameFrom, Recv, RecvEnd, StopServing
      <4> QED
        BY <1>t, <3>1, <4>1 DEF TypeOK
    <3>3. \A c \in Clients : Unserved(c)' => taken'[c] = 0
      BY <1>t, <3>1, <3>2 DEF OwnNames, Unserved
    <3>4. \A u \in Threads \ {t} : pc[u] = "name" => taken'[socket[u]] = taken[socket[u]]
      BY <1>t, <1>s, <3>1, <3>2 DEF HandedOnce, HandedOver
    <3>5. CASE pc[t] = "name"
      <4>1. taken[s] = 0 /\ pc'[t] = "lookup" /\ RecvNameFrom(t, s)
        BY <1>t, <1>2, <3>5, HandlerSteps DEF OwnNames
      <4>2. GoesBy(t, buffer[t])'
        BY <1>t, <3>1, <4>1, FirstName
      <4> QED
        BY <1>t, <2>1, <2>o, <3>1, <3>3, <3>4, <4>1, <4>2 DEF OwnNames
    <3>6. CASE pc[t] = "recv"
      <4>1. pc'[t] \in {"test", "remove"} /\ client_name' = client_name
        BY <1>t, <1>2, <3>6, HandlerSteps
      <4>0. GoesBy(t, client_name[t]) /\ client_name[t].hi \in Nat /\ client_name'[t] = client_name[t]
            /\ socket[t] \in Clients /\ socket'[t] = socket[t]
        BY <1>t, <1>n, <3>1, <3>6, <4>1 DEF OwnNames
      <4>2. GoesBy(t, client_name[t])'
        BY <1>t, <4>0, NameStays DEF GoesBy
      <4>3. pc'[t] = "test" => Signed([name |-> client_name[t], text |-> buffer[t]])'
        <5>1. Recv(t) \/ RecvEnd(t)
          BY <1>t, <1>2, <3>6, HandlerSteps
        <5> QED
          BY <1>t, <3>6, <4>0, <5>1, NextText
      <4> QED
        BY <1>t, <2>1, <2>o, <3>1, <3>3, <3>4, <3>6, <4>1, <4>2, <4>3 DEF OwnNames
    <3> QED
      BY <2>3, <3>5, <3>6
  <2>4. CASE pc[t] = "lookup"
    <3>1. Registered(socket[t])
      BY <1>t, <1>s, <2>4 DEF OwnSlots, Registered
    <3>2. pc'[t] = "recv" /\ UNCHANGED <<taken, buffer>> /\ Lookup(t)
      BY <1>t, <1>2, <2>4, <3>1, HandlerSteps DEF LookupFails
    <3>3. /\ client_name'[t].from = buffer[t].from /\ client_name'[t].lo = buffer[t].lo
          /\ client_name'[t].hi = buffer[t].hi /\ socket' = socket
      BY <1>t, <3>2 DEF Lookup, Unterminated, TypeOK
    <3>4. socket[t] \in Clients
      BY <1>t, <2>4 DEF HandedOver
    <3>5. GoesBy(t, client_name[t])'
      BY <1>t, <1>n, <2>4, <3>3, <3>4, NameStays DEF OwnNames, GoesBy
    <3> QED
      BY <1>t, <2>1, <2>o, <2>4, <3>2, <3>3, <3>5 DEF OwnNames, Unserved
  <2>5. CASE pc[t] \in {"test", "send", "remove"}
    <3>1. /\ UNCHANGED <<taken, buffer>> /\ client_name' = client_name
          /\ pc[t] = "remove" => pc'[t] = "done"
          /\ pc[t] # "remove" => pc'[t] \in {"test", "send", "recv"}
      BY <1>t, <1>2, <2>5, HandlerSteps
    <3>2. \A u \in Threads : socket'[u] = socket[u]
      BY <2>1, <2>5
    <3>3. CASE pc[t] = "remove"
      BY <1>t, <2>1, <2>o, <3>1, <3>2, <3>3 DEF OwnNames, Unserved
    <3>4. CASE pc[t] \in {"test", "send"}
      <4>1. socket[t] \in Clients
        BY <1>t, <3>4 DEF HandedOver
      <4>2. GoesBy(t, client_name[t])'
        BY <1>t, <1>n, <3>1, <3>2, <3>4, <4>1, NameStays DEF OwnNames, GoesBy
      <4>3. Signed([name |-> client_name[t], text |-> buffer[t]])'
        BY <1>t, <3>1, <3>4 DEF OwnNames, Signed
      <4> QED
        BY <1>t, <2>1, <2>o, <3>1, <3>2, <3>4, <4>2, <4>3 DEF OwnNames, Unserved
    <3> QED
      BY <2>5, <3>3, <3>4
  <2> QED
    BY <1>t, <1>2, <2>2, <2>3, <2>4, <2>5, HandlerSteps
<1>3. ASSUME UNCHANGED <<pc, socket, client_name, buffer, taken>> PROVE OwnNames'
  <2> SUFFICES ASSUME NEW t \in Threads
               PROVE  /\ pc[t] = "lookup" => GoesBy(t, buffer[t])'
                      /\ pc[t] \in {"recv", "test", "send"} => GoesBy(t, client_name[t])'
    BY <1>t, <1>3 DEF OwnNames, Unserved, Signed
  <2>1. pc[t] \in {"lookup", "recv", "test", "send"} => socket[t] \in Clients
    BY <1>t DEF HandedOver
  <2> QED
    BY <1>t, <1>n, <1>3, <2>1, NameStays DEF OwnNames, GoesBy
<1>4. ASSUME NEW c \in Clients, Joins(c) \/ ClientStep(c)
      PROVE  UNCHANGED <<pc, socket, client_name, buffer, taken>>
  BY <1>t, <1>4, ClientSteps
<1>5. CASE UNCHANGED vars
  BY <1>3, <1>5 DEF vars, netVars, serverVars
<1> QED
  BY <1>1, <1>2, <1>3, <1>4, <1>5 DEF Next, ServerNext

(* What a thread sends goes by the name it has.                            *)
LEMMA SignedStep == PInv /\ LinesSigned /\ [Next]_vars => LinesSigned'
<1> SUFFICES ASSUME PInv, LinesSigned, [Next]_vars,
                    NEW c \in Clients, NEW k \in 1 .. Len(stream'[c])
             PROVE  Signed(stream'[c][k])
  BY DEF LinesSigned, Signed
<1>t. IInv /\ TypeOK /\ OwnNames
  BY DEF PInv, HInv, IInv
<1>1. CASE stream'[c] = stream[c]
  BY <1>1 DEF LinesSigned
<1>2. ASSUME NEW t \in Threads, SendToSlot(t),
             stream'[c] = Append(stream[c], [name |-> client_name[t], text |-> buffer[t]])
      PROVE  Signed(stream'[c][k])
  <2> DEFINE line == [name |-> client_name[t], text |-> buffer[t]]
  <2>1. Signed(line)
    BY <1>t, <1>2 DEF OwnNames, SendToSlot, SendLine, At
  <2>2. stream[c] \in Seq(Line) /\ Len(stream[c]) \in Nat /\ line \in Line
    <3>1. stream[c] \in Seq(Line)
      BY <1>t DEF TypeOK
    <3>2. line \in Line
      BY <1>t DEF TypeOK, Line
    <3> QED
      BY <3>1, <3>2
  <2>3. CASE k = Len(stream[c]) + 1
    <3>1. stream'[c][k] = line
      BY <1>2, <2>2, <2>3, AppendProperties
    <3> QED
      BY <2>1, <3>1
  <2>4. CASE k \in 1 .. Len(stream[c])
    <3>1. stream'[c][k] = stream[c][k]
      BY <1>2, <2>2, <2>4, AppendProperties
    <3> QED
      BY <2>4, <3>1 DEF LinesSigned
  <2> QED
    BY <1>2, <2>2, <2>3, <2>4, AppendProperties
<1> QED
  BY <1>t, <1>1, <1>2, StreamGrows

-----------------------------------------------------------------------------
(* Nobody has been accepted at the start.                                  *)
LEMMA PacedInit == Init => PInv /\ LinesSigned
<1> SUFFICES ASSUME Init PROVE PInv /\ LinesSigned
  OBVIOUS
<1>1. HInv
  BY InvInit, HandoffInit DEF HInv
<1>2. HandedOnce /\ OwnSlots /\ Patience /\ OwnNames
  BY SocketsAssumption, ChatServerAssumption
  DEF Init, NetInit, ServerInit, HandedOnce, OwnSlots, Patience, OwnNames, Unserved
<1>3. LinesSigned
  BY DEF Init, NetInit, LinesSigned
<1> QED
  BY <1>1, <1>2, <1>3 DEF PInv

(* Lines arrive without a gap and under one name.  A client that hears     *)
(* anything sits in one slot under its name until it leaves, so no         *)
(* broadcast leaves it out; and a thread keeps the name it has.            *)

Unlisted(c) == \A j \in Slots : clients[j].sockfd # c

(* A client has one slot, filled when main is done with it.                *)
SlotsApart ==
  /\ \A j, k \in Slots :
       clients[j].sockfd = clients[k].sockfd /\ clients[j].sockfd # NoSocket => j = k
  /\ Running /\ main = "dispatch" => Unlisted(client_sockfd)
  /\ \A k \in 1 .. Len(backlog) : Unlisted(backlog[k])
  /\ \A c \in Clients : conn[c] = "none" => Unlisted(c)

(* The slot that the test saw is still the target's, or the target left.   *)
Aimed ==
  \A t \in Threads : pc[t] = "send" =>
    /\ clients[cursor[t]].named
    /\ \/ clients[cursor[t]].sockfd = target[t]
       \/ clients[cursor[t]].sockfd = NoSocket /\ conn[target[t]] = "closed"

(* Who was sent anything has a name, until it leaves.                      *)
Heard ==
  \A c \in Clients : stream[c] # << >> /\ conn[c] = "open" =>
    \E j \in Slots : clients[j].sockfd = c /\ clients[j].named

(* Who is quoted has a thread that has its name.                           *)
Quotes(u, line) ==
  /\ socket[u] = line.text.from
  /\ pc[u] \notin {"none", "start", "name", "lookup"}
  /\ client_name[u] = line.name

Spoken ==
  \A c \in Clients : \A i \in 1 .. Len(stream[c]) :
    \E u \in Threads : Quotes(u, stream[c][i])

(* A broadcast is of the bytes read last.                                  *)
LastRead ==
  \A t \in Threads : pc[t] \in {"test", "send"} => buffer[t].hi = taken[socket[t]]

(* The i-th line of s is its last one from d.                              *)
LastFrom(s, i, d) ==
  /\ i \in 1 .. Len(s)
  /\ s[i].text.from = d
  /\ \A k \in i + 1 .. Len(s) : s[k].text.from # d

(* The broadcast of t is past the slot of c.                               *)
Passed(t, c) == \E j \in Slots : clients[j].sockfd = c /\ j < cursor[t]

(* How far c has been sent what t reads.                                   *)
Reached(t, c) ==
  IF pc[t] \in {"test", "send"} /\ ~Passed(t, c) THEN buffer[t].lo - 1 ELSE taken[socket[t]]

UpToDate ==
  \A t \in Threads, c \in Clients : \A i \in 1 .. Len(stream[c]) :
    conn[c] = "open" /\ LastFrom(stream[c], i, socket[t])
      => stream[c][i].text.hi = Reached(t, c)

GInv ==
  /\ PInv
  /\ LinesSigned
  /\ SlotsApart
  /\ Aimed
  /\ Heard
  /\ Spoken
  /\ LastRead
  /\ UpToDate
  /\ NoGapNoRepeat

-----------------------------------------------------------------------------
(* What a step does to the slots.                                          *)
LEMMA SlotSteps ==
  ASSUME GInv, [Next]_vars
  PROVE  \/ /\ \A j \in Slots : clients'[j].sockfd = clients[j].sockfd
            /\ \A j \in Slots : clients[j].named => clients'[j].named
            /\ main' = "dispatch" => main = "dispatch" \/ Accept
         \/ /\ Running /\ main = "dispatch" /\ client_number \in Slots
            /\ clients' = [clients EXCEPT ![client_number].sockfd = client_sockfd]
            /\ clients[client_number].sockfd = NoSocket /\ ~clients[client_number].named
            /\ main' = "accept" \/ server' = "exited"
            /\ UNCHANGED <<client_sockfd, backlog, conn, stream, taken, socket, buffer,
                           cursor, target>>
            /\ \A t \in Threads : pc'[t] = pc[t] \/ (pc[t] = "none" /\ pc'[t] = "start")
         \/ \E k \in Slots :
            /\ clients[k].sockfd \in Clients /\ conn[clients[k].sockfd] = "closed"
            /\ clients' = [clients EXCEPT ![k].sockfd = NoSocket]
            /\ UNCHANGED main
<1>t. /\ IInv /\ TypeOK /\ SlotsInOrder /\ HandedOver /\ RemovesLeavers /\ OneAtATime
      /\ client_number \in Nat
  BY DEF GInv, PInv, HInv, IInv, TypeOK
<1>1. CASE Accept \/ AcceptFails \/ DispatchPastEnd
  BY <1>1 DEF Accept, AcceptFails, DispatchPastEnd, serverVars
<1>2. CASE Dispatch \/ CreateFails
  <2>1. /\ Running /\ main = "dispatch" /\ client_number \in Slots
        /\ clients' = [clients EXCEPT ![client_number].sockfd = client_sockfd]
        /\ main' = "accept" \/ server' = "exited"
        /\ UNCHANGED <<client_sockfd, backlog, conn, stream, taken, socket, buffer,
                       cursor, target>>
        /\ pc' = pc \/ pc' = [pc EXCEPT ![client_number + 1] = "start"]
    BY <1>t, <1>2, ChatServerAssumption
    DEF Dispatch, CreateFails, Register, Goto, Slots, netVars, locals
  <2>2. clients[client_number].sockfd = NoSocket /\ ~clients[client_number].named
    BY <1>t, <2>1 DEF SlotsInOrder
  <2>3. ASSUME NEW t \in Threads, t = client_number + 1
        PROVE  pc[t] = "none"
    BY <1>t, <2>3 DEF SlotsInOrder
  <2>4. \A t \in Threads : pc'[t] = pc[t] \/ (pc[t] = "none" /\ pc'[t] = "start")
    BY <1>t, <2>1, <2>3 DEF TypeOK
  <2> QED
    BY <2>1, <2>2, <2>4
<1>3. ASSUME NEW t \in Threads, Handler(t), pc[t] # "remove"
      PROVE  /\ \A j \in Slots : clients'[j].sockfd = clients[j].sockfd
             /\ \A j \in Slots : clients[j].named => clients'[j].named
             /\ UNCHANGED main
  <2>0. UNCHANGED main
    BY <1>t, <1>3, HandlerFrame
  <2>1. CASE pc[t] # "lookup"
    BY <1>t, <1>3, <2>0, <2>1, HandlerSteps
  <2>2. CASE pc[t] = "lookup"
    <3>1. UNCHANGED clients \/ \E j \in Slots : clients' = [clients EXCEPT ![j].named = TRUE]
      BY <1>t, <1>3, <2>2, HandlerSteps DEF Lookup, LookupFails
    <3>2. ASSUME NEW k \in Slots, clients' = [clients EXCEPT ![k].named = TRUE], NEW j \in Slots
          PROVE  clients'[j].sockfd = clients[j].sockfd /\ (clients[j].named => clients'[j].named)
      BY <1>t, <3>2 DEF TypeOK, Client
    <3> QED
      BY <2>0, <3>1, <3>2
  <2> QED
    BY <2>1, <2>2
<1>4. ASSUME NEW t \in Threads, Handler(t), pc[t] = "remove"
      PROVE  \/ UNCHANGED <<clients, main>>
             \/ \E k \in Slots :
                /\ clients[k].sockfd \in Clients /\ conn[clients[k].sockfd] = "closed"
                /\ clients' = [clients EXCEPT ![k].sockfd = NoSocket]
                /\ UNCHANGED main
  <2>1. socket[t] \in Clients /\ conn[socket[t]] = "closed"
    BY <1>t, <1>4 DEF HandedOver, RemovesLeavers
  <2> QED
    BY <1>t, <1>4, <2>1, HandlerSteps DEF Remove, RemoveEntry, ClearSlot, FirstSlot
<1>5. ASSUME NEW c \in Clients, Joins(c) \/ ClientStep(c)
      PROVE  UNCHANGED <<clients, main>>
  BY <1>t, <1>5, ClientSteps
<1>6. CASE UNCHANGED vars
  BY <1>6 DEF vars, serverVars
<1> QED
  BY <1>1, <1>2, <1>3, <1>4, <1>5, <1>6 DEF Next, ServerNext, MainThread

(* What a step does to connections that wait.                              *)
LEMMA QueueSteps ==
  ASSUME Paced, GInv, [Next]_vars
  PROVE  /\ \A c \in Clients : conn'[c] = "none" => conn[c] = "none"
         /\ \A c \in Clients : conn[c] = "closed" => conn'[c] = "closed"
         /\ \A c \in Clients : conn'[c] = "open" => conn[c] = "open" \/ stream[c] = << >>
         /\ \A k \in 1 .. Len(backlog') :
              \/ \E l \in 1 .. Len(backlog) : backlog'[k] = backlog[l]
              \/ backlog'[k] \in Clients /\ conn[backlog'[k]] = "none"
         /\ \/ main' = "dispatch" => main = "dispatch" /\ UNCHANGED client_sockfd
            \/ /\ Accept /\ 1 \in 1 .. Len(backlog) /\ client_sockfd' = backlog[1]
               /\ backlog' = << >> /\ UNCHANGED <<conn, clients>>
         /\ server' = "running" => Running
<1>t. /\ IInv /\ TypeOK /\ OneAtATime /\ HandedOnce /\ OwnNames /\ SilentUntilNamed
      /\ backlog \in Seq(Clients)
  BY DEF GInv, PInv, HInv, IInv, TypeOK
<1>1. CASE Accept
  <2>1. /\ backlog # << >> /\ client_sockfd' = backlog[1] /\ backlog' = << >>
        /\ UNCHANGED <<conn, clients, server>>
    BY <1>t, <1>1 DEF Accept, OneAtATime
  <2>2. 1 \in 1 .. Len(backlog)
    BY <1>t, <2>1
  <2> QED
    BY <1>1, <2>1, <2>2 DEF Running
<1>2. CASE AcceptFails \/ DispatchPastEnd \/ CreateFails \/ Dispatch
  <2>1. /\ UNCHANGED <<conn, backlog, client_sockfd>> /\ Running
        /\ main' = "dispatch" => main = "dispatch"
    BY <1>2 DEF AcceptFails, DispatchPastEnd, CreateFails, Dispatch, Register, serverVars, netVars
  <2> QED
    BY <2>1
<1>3. ASSUME NEW t \in Threads, Handler(t)
      PROVE  UNCHANGED <<conn, backlog, client_sockfd, main>> /\ Running
  BY <1>t, <1>3, HandlerFrame
<1>4. ASSUME NEW c \in Clients, Joins(c) \/ ClientStep(c)
      PROVE  /\ \A d \in Clients : conn'[d] = "open" => conn[d] = "open" \/ stream[d] = << >>
             /\ \A k \in 1 .. Len(backlog') :
                  \/ \E l \in 1 .. Len(backlog) : backlog'[k] = backlog[l]
                  \/ backlog'[k] \in Clients /\ conn[backlog'[k]] = "none"
  <2>1. CASE Joins(c)
    <3>1. /\ conn[c] = "none" /\ backlog = << >> /\ backlog' = Append(backlog, c)
          /\ conn' = [conn EXCEPT ![c] = "open"]
      BY <2>1 DEF Joins, Quiet, Connect, Establish
    <3>2. taken[c] = 0
      BY <1>t, <3>1 DEF HandedOnce, OwnNames
    <3>3. stream[c] = << >>
      BY <1>t, <3>2 DEF SilentUntilNamed
    <3>4. Len(backlog') = 1 /\ backlog'[1] = c
      BY <1>t, <3>1
    <3> QED
      BY <1>t, <3>1, <3>3, <3>4 DEF TypeOK
  <2>2. CASE ClientStep(c)
    <3>1. UNCHANGED backlog
      BY <2>2 DEF ClientStep, ConnectRefused, EnterName, Speaks, EnterMessage, EnterLine, ShowLine,
                  ServerDisconnected, Leave, CloseEnds
    <3>2. \A d \in Clients : conn'[d] = "open" => conn[d] = "open"
      <4>1. conn' = [conn EXCEPT ![c] = "closed"] \/ UNCHANGED conn
            \/ conn' = [d \in Clients |-> IF d \in {c} THEN "closed" ELSE conn[d]]
        BY <2>2 DEF ClientStep, ConnectRefused, EnterName, Speaks, EnterMessage, EnterLine, ShowLine,
                  ServerDisconnected, Leave, CloseEnds
      <4> QED
        BY <1>t, <4>1 DEF TypeOK
    <3> QED
      BY <3>1, <3>2
  <2> QED
    BY <1>4, <2>1, <2>2
<1>5. ASSUME NEW c \in Clients, Joins(c) \/ ClientStep(c)
      PROVE  /\ \A d \in Clients : conn'[d] = "none" => conn[d] = "none"
             /\ \A d \in Clients : conn[d] = "closed" => conn'[d] = "closed"
             /\ UNCHANGED <<main, client_sockfd, server>>
  BY <1>t, <1>5, ClientSteps, ClientFrame
<1>6. CASE UNCHANGED vars
  BY <1>6 DEF vars, netVars, serverVars, Running
<1> QED
  BY <1>1, <1>2, <1>3, <1>4, <1>5, <1>6 DEF Next, ServerNext, MainThread, Running

(* A connection enters the array from main's variable, once.               *)
LEMMA SlotsApartStep == Paced /\ GInv /\ [Next]_vars => SlotsApart'
<1> SUFFICES ASSUME Paced, GInv, [Next]_vars PROVE SlotsApart'
  OBVIOUS
<1>t. TypeOK /\ HandedOver /\ HandedOnce /\ SlotsApart /\ OneAtATime
  BY DEF GInv, PInv, HInv, IInv
<1>s. NoSocket \notin Clients /\ \A k \in 1 .. Len(backlog) : backlog[k] \in Clients
  BY <1>t, SocketsAssumption DEF TypeOK
<1>1. CASE /\ Running /\ main = "dispatch" /\ client_number \in Slots
           /\ clients' = [clients EXCEPT ![client_number].sockfd = client_sockfd]
           /\ main' = "accept" \/ server' = "exited"
           /\ UNCHANGED <<client_sockfd, backlog, conn>>
  <2>1. Unlisted(client_sockfd) /\ backlog = << >> /\ client_sockfd \in Clients
    BY <1>t, <1>1 DEF SlotsApart, OneAtATime, HandedOver
  <2>2. \A j \in Slots : clients'[j].sockfd =
          IF j = client_number THEN client_sockfd ELSE clients[j].sockfd
    BY <1>t, <1>1 DEF TypeOK, Client
  <2>3. \A j, k \in Slots :
          clients'[j].sockfd = clients'[k].sockfd /\ clients'[j].sockfd # NoSocket => j = k
    BY <1>t, <2>1, <2>2 DEF SlotsApart, Unlisted
  <2>4. \A c \in Clients : conn[c] = "none" => Unlisted(c)'
    BY <1>t, <2>2 DEF SlotsApart, HandedOnce, Unlisted
  <2>5. ~(Running' /\ main' = "dispatch")
    BY <1>1 DEF Running
  <2> QED
    BY <1>1, <2>1, <2>3, <2>4, <2>5 DEF SlotsApart
<1>2. CASE \A j \in Slots : clients'[j].sockfd \in {clients[j].sockfd, NoSocket}
  <2>1. \A c \in Clients : Unlisted(c) => Unlisted(c)'
    BY <1>s, <1>2 DEF Unlisted
  <2>2. \A j, k \in Slots :
          clients'[j].sockfd = clients'[k].sockfd /\ clients'[j].sockfd # NoSocket => j = k
    BY <1>t, <1>2 DEF SlotsApart
  <2>3. ASSUME NEW k \in 1 .. Len(backlog')
        PROVE  \A j \in Slots : clients'[j].sockfd # backlog'[k]
    <3>1. CASE \E l \in 1 .. Len(backlog) : backlog'[k] = backlog[l]
      BY <1>t, <1>s, <2>1, <3>1 DEF SlotsApart, Unlisted
    <3>2. CASE backlog'[k] \in Clients /\ conn[backlog'[k]] = "none"
      BY <1>t, <1>s, <1>2, <3>2 DEF SlotsApart, Unlisted
    <3> QED
      BY <3>1, <3>2, QueueSteps
  <2>4. \A c \in Clients : conn'[c] = "none" => Unlisted(c)'
    BY <1>t, <2>1, QueueSteps DEF SlotsApart
  <2>5. ASSUME Running', main' = "dispatch"
        PROVE  \A j \in Slots : clients'[j].sockfd # client_sockfd'
    <3>1. CASE main = "dispatch" /\ UNCHANGED client_sockfd
      <4>1. Running /\ client_sockfd \in Clients
        BY <1>t, <2>5, <3>1, QueueSteps DEF HandedOver, Running
      <4> QED
        BY <1>t, <1>s, <1>2, <3>1, <4>1 DEF SlotsApart, Unlisted
    <3>2. CASE 1 \in 1 .. Len(backlog) /\ client_sockfd' = backlog[1]
      BY <1>t, <1>s, <1>2, <3>2 DEF SlotsApart, Unlisted
    <3> QED
      BY <2>5, <3>1, <3>2, QueueSteps
  <2> QED
    BY <2>2, <2>3, <2>4, <2>5 DEF SlotsApart, Unlisted
<1>3. ASSUME NEW k \in Slots, clients' = [clients EXCEPT ![k].sockfd = NoSocket]
      PROVE  \A j \in Slots : clients'[j].sockfd \in {clients[j].sockfd, NoSocket}
  BY <1>t, <1>3 DEF TypeOK, Client
<1> QED
  BY <1>1, <1>2, <1>3, SlotSteps

-----------------------------------------------------------------------------
(* The steps of a broadcast.                                               *)
LEMMA LoopSteps ==
  ASSUME TypeOK, BroadcastsOwn, NEW t \in Threads, Handler(t), pc[t] \in {"test", "send"}
  PROVE  /\ UNCHANGED <<clients, conn, taken, buffer, socket>>
         /\ \A u \in Threads \ {t} :
              pc'[u] = pc[u] /\ cursor'[u] = cursor[u] /\ target'[u] = target[u]
         /\ \/ /\ pc[t] = "test" /\ Recipient(t) /\ UNCHANGED <<cursor, stream>>
               /\ pc'[t] = "send" /\ target'[t] = clients[cursor[t]].sockfd
            \/ /\ \/ pc[t] = "test" /\ ~Recipient(t) /\ UNCHANGED stream
                  \/ pc[t] = "send" /\ clients[cursor[t]].sockfd = NoSocket /\ UNCHANGED stream
                  \/ pc[t] = "send" /\ SendToSlot(t)
               /\ cursor'[t] = cursor[t] + 1
               /\ IF cursor[t] = MAX_CLIENTS - 1 THEN pc'[t] = "recv" ELSE pc'[t] = "test"
            \/ UNCHANGED <<pc, cursor, target, stream>>
<1> USE DEF TypeOK, At, Goto, netVars, serverVars, locals
<1>1. CASE SkipSlot(t)
  BY <1>1 DEF SkipSlot, Advance, StepTo
<1>2. CASE PickSlot(t)
  BY <1>2 DEF PickSlot
<1>3. CASE SendToSlot(t)
  BY <1>3 DEF SendToSlot, SendLine, Advance, StepTo
<1>4. CASE SendToCleared(t)
  BY <1>4 DEF SendToCleared, GiveUpSlot, Advance, StepTo
<1>5. CASE SendKills(t)
  BY <1>5 DEF SendKills
<1>6. SkipSlot(t) \/ PickSlot(t) \/ SendToSlot(t) \/ SendToCleared(t) \/ SendKills(t)
  BY DEF Handler, Start, RecvName, RecvNameFrom, Lookup, LookupFails, Recv, RecvEnd, Remove,
         RemoveEntry
<1> QED
  BY <1>1, <1>2, <1>3, <1>4, <1>5, <1>6

(* Steps at other places leave loop variables and streams alone.           *)
LEMMA OtherSteps ==
  ASSUME TypeOK, NEW t \in Threads, Handler(t), pc[t] \notin {"test", "send"}
  PROVE  /\ UNCHANGED <<stream, target, conn>>
         /\ \A u \in Threads \ {t} : cursor'[u] = cursor[u]
         /\ pc'[t] # "send"
         /\ pc'[t] = "test" => pc[t] = "recv" /\ cursor'[t] = 0
<1> USE DEF TypeOK, At, Goto, netVars, serverVars, locals
<1>1. CASE Start(t)
  BY <1>1 DEF Start
<1>2. CASE RecvName(t)
  BY <1>2 DEF RecvName, RecvNameFrom
<1>3. CASE Lookup(t) \/ LookupFails(t)
  BY <1>3 DEF Lookup, LookupFails
<1>4. CASE Recv(t) \/ RecvEnd(t)
  BY <1>4 DEF Recv, RecvEnd, StopServing
<1>5. CASE Remove(t)
  BY <1>5 DEF Remove, RemoveEntry
<1> QED
  BY <1>1, <1>2, <1>3, <1>4, <1>5
  DEF Handler, SkipSlot, PickSlot, SendToSlot, SendLine, SendToCleared, GiveUpSlot, SendKills

(* A slot is cleared when its client has left, and nobody else gets it.    *)
LEMMA AimedStep == Paced /\ GInv /\ [Next]_vars => Aimed'
<1> SUFFICES ASSUME Paced, GInv, [Next]_vars, NEW t \in Threads, pc'[t] = "send"
             PROVE  /\ clients'[cursor'[t]].named
                    /\ \/ clients'[cursor'[t]].sockfd = target'[t]
                       \/ /\ clients'[cursor'[t]].sockfd = NoSocket
                          /\ conn'[target'[t]] = "closed"
  BY DEF Aimed
<1>t. TypeOK /\ BroadcastsOwn /\ Aimed
  BY DEF GInv, PInv, HInv, IInv
<1>s. \A u \in Threads : pc[u] \in {"test", "send"} => cursor[u] \in Slots
  BY <1>t DEF TypeOK
<1>1. ASSUME pc[t] = "send", UNCHANGED target, cursor'[t] = cursor[t]
      PROVE  /\ clients'[cursor'[t]].named
             /\ \/ clients'[cursor'[t]].sockfd = target'[t]
                \/ /\ clients'[cursor'[t]].sockfd = NoSocket
                   /\ conn'[target'[t]] = "closed"
  <2> DEFINE k == cursor[t]
  <2>1. /\ k \in Slots /\ clients[k].named /\ target[t] \in Clients
        /\ \/ clients[k].sockfd = target[t]
           \/ clients[k].sockfd = NoSocket /\ conn[target[t]] = "closed"
    BY <1>t, <1>s, <1>1 DEF Aimed, BroadcastsOwn
  <2>2. conn[target[t]] = "closed" => conn'[target[t]] = "closed"
    BY <2>1, QueueSteps
  <2>3. CASE /\ \A j \in Slots : clients'[j].sockfd = clients[j].sockfd
             /\ \A j \in Slots : clients[j].named => clients'[j].named
    BY <1>1, <2>1, <2>2, <2>3
  <2>4. CASE /\ clients' = [clients EXCEPT ![client_number].sockfd = client_sockfd]
             /\ ~clients[client_number].named
    <3>1. k # client_number
      BY <2>1, <2>4
    <3>2. clients'[k] = clients[k]
      BY <1>t, <2>1, <2>4, <3>1 DEF TypeOK
    <3> QED
      BY <1>1, <2>1, <2>2, <3>2
  <2>5. ASSUME NEW j \in Slots, conn[clients[j].sockfd] = "closed",
               clients' = [clients EXCEPT ![j].sockfd = NoSocket]
        PROVE  /\ clients'[k].named
               /\ \/ clients'[k].sockfd = target[t]
                  \/ clients'[k].sockfd = NoSocket /\ conn'[target[t]] = "closed"
    <3>1. CASE j # k
      <4>1. clients'[k] = clients[k]
        BY <1>t, <2>1, <2>5, <3>1 DEF TypeOK
      <4> QED
        BY <2>1, <2>2, <4>1
    <3>2. CASE j = k
      <4>1. clients'[k].sockfd = NoSocket /\ clients'[k].named = clients[k].named
        BY <1>t, <2>1, <2>5, <3>2 DEF TypeOK, Client
      <4> QED
        BY <2>1, <2>2, <2>5, <3>2, <4>1
    <3> QED
      BY <3>1, <3>2
  <2> QED
    BY <1>1, <2>3, <2>4, <2>5, SlotSteps
<1>2. CASE MainThread
  <2>1. UNCHANGED <<target, cursor>> /\ pc[t] = "send"
    BY <1>t, <1>2
    DEF TypeOK, MainThread, Accept, AcceptFails, Dispatch, DispatchPastEnd, CreateFails, Register,
        Goto, netVars, serverVars, locals
  <2> QED
    BY <1>1, <2>1
<1>3. ASSUME NEW u \in Threads, Handler(u), pc[u] \notin {"test", "send"}
      PROVE  pc[t] = "send" /\ UNCHANGED target /\ cursor'[t] = cursor[t]
  BY <1>t, <1>3, OtherSteps, HandlerFrame
<1>4. ASSUME NEW u \in Threads, Handler(u), pc[u] \in {"test", "send"}
      PROVE  /\ clients'[cursor'[t]].named
             /\ \/ clients'[cursor'[t]].sockfd = target'[t]
                \/ /\ clients'[cursor'[t]].sockfd = NoSocket
                   /\ conn'[target'[t]] = "closed"
  <2>1. CASE t # u \/ UNCHANGED <<pc, cursor, target>>
    <3>1. /\ UNCHANGED <<clients, conn>> /\ pc[t] = "send"
          /\ cursor'[t] = cursor[t] /\ target'[t] = target[t]
      BY <1>t, <1>4, <2>1, LoopSteps
    <3> QED
      BY <1>t, <3>1 DEF Aimed
  <2>2. CASE t = u /\ ~UNCHANGED <<pc, cursor, target>>
    <3>1. /\ UNCHANGED <<clients, cursor>> /\ Recipient(t)
          /\ target'[t] = clients[cursor[t]].sockfd
      BY <1>t, <1>4, <2>2, LoopSteps
    <3> QED
      BY <3>1 DEF Recipient
  <2> QED
    BY <2>1, <2>2
<1>5. ASSUME NEW c \in Clients, Joins(c) \/ ClientStep(c)
      PROVE  UNCHANGED <<pc, target, cursor>>
  BY <1>t, <1>5, ClientSteps
<1>6. CASE UNCHANGED <<pc, target, cursor>>
  BY <1>1, <1>6
<1> QED
  BY <1>1, <1>2, <1>3, <1>4, <1>5, <1>6 DEF Next, ServerNext, vars, serverVars

(* The slot of a named client stays its own, and no other is, as long as   *)
(* it is there.                                                            *)
LEMMA SlotStays ==
  ASSUME Paced, GInv, [Next]_vars, NEW c \in Clients, conn[c] = "open",
         NEW j \in Slots, clients[j].sockfd = c, clients[j].named
  PROVE  /\ clients'[j].sockfd = c /\ clients'[j].named
         /\ \A t \in Threads : Passed(t, c) <=> j < cursor[t]
         /\ \A t \in Threads : Passed(t, c)' <=> j < cursor'[t]
<1>t. TypeOK /\ SlotsApart
  BY DEF GInv, PInv, HInv, IInv
<1>s. c # NoSocket
  BY SocketsAssumption
<1>1. clients'[j].sockfd = c /\ clients'[j].named
  <2>1. CASE /\ \A k \in Slots : clients'[k].sockfd = clients[k].sockfd
             /\ \A k \in Slots : clients[k].named => clients'[k].named
    BY <2>1
  <2>2. CASE /\ clients' = [clients EXCEPT ![client_number].sockfd = client_sockfd]
             /\ ~clients[client_number].named
    <3>1. clients'[j] = clients[j]
      BY <1>t, <2>2 DEF TypeOK
    <3> QED
      BY <3>1
  <2>3. ASSUME NEW k \in Slots, conn[clients[k].sockfd] = "closed",
               clients' = [clients EXCEPT ![k].sockfd = NoSocket]
        PROVE  clients'[j] = clients[j]
    <3>1. j # k
      BY <2>3
    <3> QED
      BY <1>t, <2>3, <3>1 DEF TypeOK
  <2> QED
    BY <2>1, <2>2, <2>3, SlotSteps
<1>2. \A k \in Slots : clients[k].sockfd = c <=> k = j
  BY <1>t, <1>s DEF SlotsApart
<1>3. \A k \in Slots : clients'[k].sockfd = c <=> k = j
  <2>1. SlotsApart'
    BY SlotsApartStep
  <2> QED
    BY <1>s, <1>1, <2>1 DEF SlotsApart
<1>4. \A t \in Threads : Passed(t, c) <=> j < cursor[t]
  BY <1>2 DEF Passed
<1>5. \A t \in Threads : Passed(t, c)' <=> j < cursor'[t]
  BY <1>3 DEF Passed
<1> QED
  BY <1>1, <1>4, <1>5

(* What is sent next, when the client is still there, goes to its slot.    *)
LEMMA TargetSlot ==
  ASSUME GInv, NEW t \in Threads, SendToSlot(t), conn[target[t]] = "open"
  PROVE  /\ pc[t] = "send" /\ cursor[t] \in Slots
         /\ clients[cursor[t]].sockfd = target[t] /\ clients[cursor[t]].named
<1>t. TypeOK /\ Aimed
  BY DEF GInv, PInv, HInv, IInv
<1>1. pc[t] = "send"
  BY DEF SendToSlot, SendLine, At
<1>2. cursor[t] \in Slots
  BY <1>t, <1>1 DEF TypeOK
<1>3. /\ clients[cursor[t]].named
      /\ \/ clients[cursor[t]].sockfd = target[t]
         \/ clients[cursor[t]].sockfd = NoSocket /\ conn[target[t]] = "closed"
  BY <1>t, <1>1 DEF Aimed
<1> QED
  BY <1>1, <1>2, <1>3

(* Nothing is sent but to named slots.                                     *)
LEMMA HeardStep == Paced /\ GInv /\ [Next]_vars => Heard'
<1> SUFFICES ASSUME Paced, GInv, [Next]_vars,
                    NEW c \in Clients, stream'[c] # << >>, conn'[c] = "open"
             PROVE  \E j \in Slots : clients'[j].sockfd = c /\ clients'[j].named
  BY DEF Heard
<1>t. IInv /\ Heard
  BY DEF GInv, PInv, HInv
<1>1. CASE stream'[c] = stream[c]
  <2>1. conn[c] = "open"
    BY <1>1, QueueSteps
  <2> QED
    BY <1>t, <1>1, <2>1, SlotStays DEF Heard
<1>2. ASSUME NEW t \in Threads, SendToSlot(t), target[t] = c, conn[c] = "open"
      PROVE  \E j \in Slots : clients'[j].sockfd = c /\ clients'[j].named
  BY <1>2, TargetSlot, SlotStays
<1> QED
  BY <1>t, <1>1, <1>2, StreamGrows

(* A thread that has read a name keeps its socket, and the name.           *)
LEMMA Settled ==
  ASSUME IInv, [Next]_vars, NEW t \in Threads, pc[t] \notin {"none", "start", "name"}
  PROVE  /\ pc'[t] \notin {"none", "start", "name"} /\ socket'[t] = socket[t]
         /\ pc[t] # "lookup" => pc'[t] # "lookup" /\ client_name'[t] = client_name[t]
<1>t. TypeOK /\ SlotsInOrder /\ client_number \in Nat
  BY DEF IInv, TypeOK
<1>1. CASE MainThread
  <2>1. UNCHANGED <<socket, client_name>>
    BY <1>1
    DEF MainThread, Accept, AcceptFails, Dispatch, DispatchPastEnd, CreateFails, serverVars, locals
  <2>2. UNCHANGED pc \/ pc' = [pc EXCEPT ![client_number + 1] = "start"]
    BY <1>1
    DEF MainThread, Accept, AcceptFails, Dispatch, DispatchPastEnd, CreateFails, Goto, serverVars
  <2>3. t # client_number + 1
    BY <1>t DEF SlotsInOrder
  <2> QED
    BY <1>t, <2>1, <2>2, <2>3 DEF TypeOK
<1>2. ASSUME NEW u \in Threads, Handler(u)
      PROVE  /\ pc'[t] \notin {"none", "start", "name"} /\ socket'[t] = socket[t]
             /\ pc[t] # "lookup" => pc'[t] # "lookup" /\ client_name'[t] = client_name[t]
  BY <1>t, <1>2, HandlerFrame, HandlerSteps
<1>3. ASSUME NEW c \in Clients, Joins(c) \/ ClientStep(c)
      PROVE  UNCHANGED <<pc, socket, client_name>>
  BY <1>t, <1>3, ClientSteps
<1>4. CASE UNCHANGED vars
  BY <1>4 DEF vars, serverVars
<1> QED
  BY <1>1, <1>2, <1>3, <1>4 DEF Next, ServerNext

(* The lines of a stream after a step, by whether they were there before.  *)
LEMMA LinesAfter ==
  ASSUME IInv, [Next]_vars, NEW c \in Clients
  PROVE  \/ stream'[c] = stream[c]
         \/ \E t \in Threads :
            /\ SendToSlot(t) /\ pc[t] = "send" /\ target[t] = c /\ conn[c] = "open"
            /\ Len(stream[c]) \in Nat /\ Len(stream'[c]) = Len(stream[c]) + 1
            /\ \A i \in 1 .. Len(stream[c]) : stream'[c][i] = stream[c][i]
            /\ stream'[c][Len(stream[c]) + 1].text = buffer[t]
            /\ stream'[c][Len(stream[c]) + 1].name = client_name[t]
<1>t. TypeOK
  BY DEF IInv
<1>1. ASSUME NEW t \in Threads, SendToSlot(t),
             stream'[c] = Append(stream[c], [name |-> client_name[t], text |-> buffer[t]])
      PROVE  /\ pc[t] = "send" /\ Len(stream[c]) \in Nat
             /\ Len(stream'[c]) = Len(stream[c]) + 1
             /\ \A i \in 1 .. Len(stream[c]) : stream'[c][i] = stream[c][i]
             /\ stream'[c][Len(stream[c]) + 1].text = buffer[t]
             /\ stream'[c][Len(stream[c]) + 1].name = client_name[t]
  <2> DEFINE line == [name |-> client_name[t], text |-> buffer[t]]
  <2>1. stream[c] \in Seq(Line)
    BY <1>t DEF TypeOK
  <2>2. line \in Line
    BY <1>t DEF TypeOK, Line
  <2>3. /\ Len(stream[c]) \in Nat /\ Len(stream'[c]) = Len(stream[c]) + 1
        /\ \A i \in 1 .. Len(stream[c]) : stream'[c][i] = stream[c][i]
        /\ stream'[c][Len(stream[c]) + 1] = line
    BY <1>1, <2>1, <2>2, AppendProperties
  <2> QED
    BY <1>1, <2>3 DEF SendToSlot, SendLine, At
<1> QED
  BY <1>1, StreamGrows

(* Who is quoted was read by the thread that quotes it.                    *)
LEMMA SpokenStep == GInv /\ [Next]_vars => Spoken'
<1> SUFFICES ASSUME GInv, [Next]_vars, NEW c \in Clients, NEW i \in 1 .. Len(stream'[c])
             PROVE  \E u \in Threads :
                      /\ socket'[u] = stream'[c][i].text.from
                      /\ pc'[u] \notin {"none", "start", "name", "lookup"}
                      /\ client_name'[u] = stream'[c][i].name
  BY DEF Spoken, Quotes
<1>t. IInv /\ BroadcastsOwn /\ Spoken
  BY DEF GInv, PInv, HInv, IInv
<1>1. ASSUME NEW line, NEW u \in Threads, Quotes(u, line)
      PROVE  /\ socket'[u] = line.text.from
             /\ pc'[u] \notin {"none", "start", "name", "lookup"}
             /\ client_name'[u] = line.name
  BY <1>t, <1>1, Settled DEF Quotes
<1>2. CASE i \in 1 .. Len(stream[c]) /\ stream'[c][i] = stream[c][i]
  <2>1. PICK u \in Threads : Quotes(u, stream[c][i])
    BY <1>t, <1>2 DEF Spoken
  <2> QED
    BY <1>1, <1>2, <2>1
<1>3. ASSUME NEW t \in Threads, pc[t] = "send",
             stream'[c][i].text = buffer[t], stream'[c][i].name = client_name[t]
      PROVE  Quotes(t, stream'[c][i])
  BY <1>t, <1>3 DEF BroadcastsOwn, Quotes
<1>4. CASE stream'[c] = stream[c]
  BY <1>2, <1>4
<1>5. ASSUME NEW t \in Threads, pc[t] = "send", Len(stream[c]) \in Nat,
             Len(stream'[c]) = Len(stream[c]) + 1,
             \A k \in 1 .. Len(stream[c]) : stream'[c][k] = stream[c][k],
             stream'[c][Len(stream[c]) + 1].text = buffer[t],
             stream'[c][Len(stream[c]) + 1].name = client_name[t]
      PROVE  \E u \in Threads :
               /\ socket'[u] = stream'[c][i].text.from
               /\ pc'[u] \notin {"none", "start", "name", "lookup"}
               /\ client_name'[u] = stream'[c][i].name
  <2>1. i \in 1 .. Len(stream[c]) \/ i = Len(stream[c]) + 1
    BY <1>5
  <2>2. CASE i = Len(stream[c]) + 1
    <3>1. Quotes(t, stream'[c][i])
      BY <1>3, <1>5, <2>2
    <3> QED
      BY <1>1, <3>1
  <2> QED
    BY <1>2, <1>5, <2>1, <2>2
<1> QED
  BY <1>t, <1>4, <1>5, LinesAfter

(* Only the thread that has a socket reads from it.                        *)
LEMMA OthersRead ==
  ASSUME PInv, NEW t \in Threads, NEW u \in Threads, Handler(u), u # t, socket[t] \in Clients
  PROVE  taken'[socket[t]] = taken[socket[t]]
<1>t. TypeOK /\ HandedOver /\ HandedOnce
  BY DEF PInv, HInv, IInv
<1>1. CASE pc[u] \notin {"name", "recv"}
  BY <1>t, <1>1, HandlerSteps
<1>2. CASE pc[u] \in {"name", "recv"}
  <2>1. socket[u] # socket[t]
    BY <1>t, SocketsAssumption DEF HandedOnce
  <2>2. UNCHANGED taken \/ \E n : taken' = [taken EXCEPT ![socket[u]] = n]
    BY <1>t, <1>2, HandlerSteps DEF RecvNameFrom, Recv, RecvEnd, StopServing
  <2> QED
    BY <1>t, <2>1, <2>2 DEF TypeOK
<1> QED
  BY <1>1, <1>2

(* Steps of others than threads, and of other threads.                     *)
LEMMA Elsewhere ==
  ASSUME PInv, [Next]_vars, NEW t \in Threads, socket[t] \in Clients,
         pc[t] \notin {"none", "start", "name"}
  PROVE  \/ Handler(t)
         \/ /\ pc'[t] = pc[t] /\ cursor'[t] = cursor[t]
            /\ buffer'[t] = buffer[t] /\ socket'[t] = socket[t]
            /\ taken'[socket[t]] = taken[socket[t]]
<1>t. IInv /\ TypeOK /\ SlotsInOrder /\ client_number \in Nat
  <2>1. IInv /\ TypeOK /\ SlotsInOrder
    BY DEF PInv, HInv, IInv
  <2>2. client_number \in 0 .. MAX_CLIENTS
    BY <2>1 DEF TypeOK
  <2> QED
    BY <2>1, <2>2, ChatServerAssumption
<1>1. CASE MainThread
  <2>1. UNCHANGED <<taken, socket, buffer, cursor>>
    BY <1>1 DEF MainThread, Accept, AcceptFails, Dispatch, DispatchPastEnd, CreateFails, Register,
                netVars, serverVars, locals
  <2>2. UNCHANGED pc \/ pc' = [pc EXCEPT ![client_number + 1] = "start"]
    BY <1>1
    DEF MainThread, Accept, AcceptFails, Dispatch, DispatchPastEnd, CreateFails, Goto, serverVars
  <2>3. t # client_number + 1
    BY <1>t DEF SlotsInOrder
  <2> QED
    BY <1>t, <2>1, <2>2, <2>3 DEF TypeOK
<1>2. ASSUME NEW u \in Threads, Handler(u), u # t
      PROVE  /\ pc'[t] = pc[t] /\ cursor'[t] = cursor[t]
             /\ buffer'[t] = buffer[t] /\ socket'[t] = socket[t]
             /\ taken'[socket[t]] = taken[socket[t]]
  BY <1>t, <1>2, HandlerFrame, HandlerSteps, OthersRead
<1>3. ASSUME NEW c \in Clients, Joins(c) \/ ClientStep(c)
      PROVE  UNCHANGED <<pc, cursor, buffer, socket, taken>>
  BY <1>t, <1>3, ClientSteps
<1>4. CASE UNCHANGED vars
  BY <1>4 DEF vars, netVars, serverVars
<1> QED
  BY <1>1, <1>2, <1>3, <1>4 DEF Next, ServerNext

(* A thread reads its name before anything else.                           *)
LEMMA NameFirst ==
  ASSUME IInv, [Next]_vars, NEW t \in Threads, pc[t] \in {"none", "start", "name"}
  PROVE  \/ pc'[t] \in {"none", "start", "name"}
         \/ pc[t] = "name" /\ pc'[t] = "lookup" /\ Handler(t)
<1>t. TypeOK /\ client_number \in Nat
  BY DEF IInv, TypeOK
<1>1. CASE MainThread
  <2>1. UNCHANGED pc \/ pc' = [pc EXCEPT ![client_number + 1] = "start"]
    BY <1>1
    DEF MainThread, Accept, AcceptFails, Dispatch, DispatchPastEnd, CreateFails, Goto, serverVars
  <2> QED
    BY <1>t, <2>1 DEF TypeOK
<1>2. ASSUME NEW u \in Threads, Handler(u), u # t
      PROVE  pc'[t] = pc[t]
  BY <1>t, <1>2, HandlerFrame
<1>3. CASE Handler(t)
  BY <1>t, <1>3, HandlerSteps
<1>4. ASSUME NEW c \in Clients, Joins(c) \/ ClientStep(c)
      PROVE  UNCHANGED pc
  BY <1>t, <1>4, ClientSteps
<1>5. CASE UNCHANGED vars
  BY <1>5 DEF vars, serverVars
<1> QED
  BY <1>1, <1>2, <1>3, <1>4, <1>5 DEF Next, ServerNext

(* Recv leaves in the buffer the bytes up to the last one taken.           *)
LEMMA LastReadStep == PInv /\ LastRead /\ [Next]_vars => LastRead'
<1> SUFFICES ASSUME PInv, LastRead, [Next]_vars, NEW t \in Threads, pc'[t] \in {"test", "send"}
             PROVE  buffer'[t].hi = taken'[socket'[t]]
  BY DEF LastRead
<1>t. IInv /\ TypeOK /\ HandedOver /\ BroadcastsOwn
  BY DEF PInv, HInv, IInv
<1>1. pc[t] \notin {"none", "start", "name"}
  BY <1>t, NameFirst
<1>2. socket[t] \in Clients
  BY <1>t, <1>1 DEF HandedOver
<1>3. CASE /\ pc'[t] = pc[t] /\ buffer'[t] = buffer[t] /\ socket'[t] = socket[t]
           /\ taken'[socket[t]] = taken[socket[t]]
  BY <1>3 DEF LastRead
<1>4. CASE Handler(t)
  <2>1. CASE pc[t] \in {"test", "send"}
    BY <1>t, <1>4, <2>1, LoopSteps DEF LastRead
  <2>2. CASE pc[t] \notin {"test", "send"}
    <3>1. pc[t] = "recv" /\ pc'[t] = "test" /\ socket'[t] = socket[t]
      BY <1>t, <1>1, <1>4, <2>2, OtherSteps, HandlerFrame
    <3>2. Recv(t)
      BY <1>t, <1>4, <3>1, HandlerSteps DEF RecvEnd, StopServing, Goto, TypeOK
    <3>3. \E run : buffer'[t] = run /\ taken'[socket[t]] = run.hi
      BY <1>t, <1>2, <3>2 DEF TypeOK, Recv
    <3> QED
      BY <3>1, <3>3
  <2> QED
    BY <2>1, <2>2
<1> QED
  BY <1>1, <1>2, <1>3, <1>4, Elsewhere

(* A last line from the client of t after a step was its last before it,   *)
(* or is what t sends in it.                                               *)
LEMMA LastLine ==
  ASSUME PInv, [Next]_vars, NEW t \in Threads, socket[t] \in Clients,
         NEW c \in Clients, NEW i, LastFrom(stream'[c], i, socket[t])
  PROVE  \/ /\ LastFrom(stream[c], i, socket[t]) /\ stream'[c][i] = stream[c][i]
            /\ stream'[c] = stream[c] \/ ~Handler(t)
         \/ /\ SendToSlot(t) /\ pc[t] = "send" /\ target[t] = c /\ conn[c] = "open"
            /\ stream'[c][i].text = buffer[t]
<1>t. IInv /\ TypeOK /\ BroadcastsOwn /\ HandedOnce
  BY DEF PInv, HInv, IInv
<1>1. CASE stream'[c] = stream[c]
  BY <1>1
<1>2. ASSUME NEW u \in Threads,
             SendToSlot(u), pc[u] = "send", target[u] = c, conn[c] = "open",
             Len(stream[c]) \in Nat, Len(stream'[c]) = Len(stream[c]) + 1,
             \A k \in 1 .. Len(stream[c]) : stream'[c][k] = stream[c][k],
             stream'[c][Len(stream[c]) + 1].text = buffer[u]
      PROVE  \/ /\ LastFrom(stream[c], i, socket[t]) /\ stream'[c][i] = stream[c][i]
                /\ ~Handler(t)
             \/ /\ SendToSlot(t) /\ pc[t] = "send" /\ target[t] = c /\ conn[c] = "open"
                /\ stream'[c][i].text = buffer[t]
  <2>1. buffer[u].from = socket[u]
    BY <1>t, <1>2 DEF BroadcastsOwn
  <2>2. CASE u = t
    <3>1. i = Len(stream[c]) + 1
      BY <1>2, <2>1, <2>2 DEF LastFrom
    <3> QED
      BY <1>2, <2>2, <3>1
  <2>3. CASE u # t
    <3>1. socket[u] # socket[t]
      BY <1>t, <2>3, SocketsAssumption DEF HandedOnce
    <3>2. i # Len(stream[c]) + 1
      BY <1>2, <2>1, <3>1 DEF LastFrom
    <3>3. LastFrom(stream[c], i, socket[t]) /\ stream'[c][i] = stream[c][i]
      BY <1>2, <3>2 DEF LastFrom
    <3>4. ~Handler(t)
      <4>1. Handler(u) /\ pc'[u] # pc[u]
        BY <1>t, <1>2 DEF Handler, SendToSlot, SendLine, Advance, StepTo, Goto, TypeOK
      <4> QED
        BY <1>t, <2>3, <4>1, HandlerFrame
    <3> QED
      BY <3>3, <3>4
  <2> QED
    BY <2>2, <2>3
<1> QED
  BY <1>t, <1>1, <1>2, LinesAfter

(* A broadcast passes the slot of a client that is there only by sending.  *)
LEMMA ReachedStep ==
  ASSUME Paced, GInv, [Next]_vars, NEW t \in Threads,
         pc[t] \notin {"none", "start", "name"},
         NEW c \in Clients, conn[c] = "open", NEW i, LastFrom(stream[c], i, socket[t]),
         stream'[c] = stream[c] \/ ~Handler(t)
  PROVE  Reached(t, c)' = Reached(t, c)
<1>t. /\ PInv /\ TypeOK /\ HandedOver /\ BroadcastsOwn /\ NeverEchoed /\ Aimed /\ Heard
      /\ stream[c] \in Seq(Line)
  BY DEF GInv, PInv, HInv, IInv, TypeOK
<1>s. socket[t] \in Clients /\ \A k \in Slots : k \in 0 .. MAX_CLIENTS - 1
  BY <1>t DEF HandedOver, Slots
<1>n. MAX_CLIENTS \in Nat
  BY ChatServerAssumption
<1>1. PICK j \in Slots : clients[j].sockfd = c /\ clients[j].named
  <2>1. stream[c] # << >>
    BY <1>t DEF LastFrom
  <2> QED
    BY <1>t, <2>1 DEF Heard
<1>2. /\ Passed(t, c) <=> j < cursor[t]
      /\ Passed(t, c)' <=> j < cursor'[t]
  BY <1>1, SlotStays
<1>3. CASE /\ pc'[t] = pc[t] /\ cursor'[t] = cursor[t]
           /\ buffer'[t] = buffer[t] /\ socket'[t] = socket[t]
           /\ taken'[socket[t]] = taken[socket[t]]
  BY <1>2, <1>3 DEF Reached
<1>4. CASE Handler(t) /\ pc[t] \notin {"test", "send"}
  <2>1. socket'[t] = socket[t]
    BY <1>t, <1>4, HandlerFrame
  <2>2. CASE pc[t] \in {"lookup", "remove"}
    <3>1. UNCHANGED taken /\ pc'[t] \in {"recv", "done"}
      BY <1>t, <1>4, <2>2, HandlerSteps
    <3> QED
      BY <2>1, <2>2, <3>1 DEF Reached
  <2>3. CASE pc[t] = "recv" /\ Recv(t)
    <3>1. /\ pc'[t] = "test" /\ cursor'[t] = 0
          /\ buffer'[t].lo = taken[socket[t]] + 1 /\ taken[socket[t]] \in Nat
      BY <1>t, <1>s, <2>3 DEF TypeOK, Recv, Goto, Arrived
    <3>2. ~(Passed(t, c)')
      BY <1>2, <1>s, <3>1
    <3> QED
      BY <2>1, <2>3, <3>1, <3>2 DEF Reached
  <2>4. CASE pc[t] = "recv" /\ RecvEnd(t)
    <3>1. UNCHANGED taken /\ pc'[t] = "remove"
      BY <1>t, <2>4 DEF TypeOK, RecvEnd, StopServing, Goto
    <3> QED
      BY <2>1, <2>4, <3>1 DEF Reached
  <2> QED
    BY <1>t, <1>4, <2>2, <2>3, <2>4, HandlerSteps
<1>5. CASE Handler(t) /\ pc[t] \in {"test", "send"}
  <2>1. /\ UNCHANGED <<taken, buffer, socket>>
        /\ \/ UNCHANGED cursor /\ pc'[t] \in {"test", "send"}
           \/ /\ \/ pc[t] = "test" /\ ~Recipient(t)
                 \/ pc[t] = "send" /\ clients[cursor[t]].sockfd = NoSocket
                 \/ pc[t] = "send" /\ SendToSlot(t)
              /\ cursor'[t] = cursor[t] + 1
              /\ IF cursor[t] = MAX_CLIENTS - 1 THEN pc'[t] = "recv" ELSE pc'[t] = "test"
    BY <1>t, <1>5, LoopSteps
  <2>2. CASE UNCHANGED cursor /\ pc'[t] \in {"test", "send"}
    BY <1>2, <1>5, <2>1, <2>2 DEF Reached
  <2>3. CASE /\ \/ pc[t] = "test" /\ ~Recipient(t)
                \/ pc[t] = "send" /\ clients[cursor[t]].sockfd = NoSocket
                \/ pc[t] = "send" /\ SendToSlot(t)
             /\ cursor'[t] = cursor[t] + 1
             /\ IF cursor[t] = MAX_CLIENTS - 1 THEN pc'[t] = "recv" ELSE pc'[t] = "test"
    <3>1. cursor[t] \in Slots
      BY <1>t, <1>5 DEF TypeOK
    <3>2. j # cursor[t]
      <4>1. CASE pc[t] = "test" /\ ~Recipient(t)
        <5>1. c # socket[t]
          BY <1>t DEF NeverEchoed, LastFrom
        <5> QED
          BY <1>1, <4>1, <5>1, SocketsAssumption DEF Recipient
      <4>2. CASE clients[cursor[t]].sockfd = NoSocket
        BY <1>1, <4>2, SocketsAssumption
      <4>3. CASE pc[t] = "send" /\ SendToSlot(t)
        <5>1. target[t] # c
          <6>1. SUFFICES ASSUME target[t] = c PROVE FALSE
            OBVIOUS
          <6>2. stream'[c] = stream[c] \o <<[name |-> client_name[t], text |-> buffer[t]]>>
            BY <1>t, <4>3, <6>1 DEF TypeOK, SendToSlot, SendLine, Send
          <6>3. [name |-> client_name[t], text |-> buffer[t]] \in Line
            BY <1>t DEF TypeOK, Line
          <6>4. Len(stream'[c]) = Len(stream[c]) + 1
            BY <1>t, <6>2, <6>3
          <6> QED
            BY <1>t, <1>5, <6>4
        <5> QED
          BY <1>t, <1>1, <4>3, <5>1, SocketsAssumption DEF Aimed
      <4> QED
        BY <2>3, <4>1, <4>2, <4>3
    <3>3. CASE j < cursor[t]
      BY <1>2, <1>s, <2>1, <2>3, <3>1, <3>3, <1>n DEF Reached
    <3>4. CASE j > cursor[t]
      <4>1. cursor[t] # MAX_CLIENTS - 1 /\ ~(j < cursor'[t])
        BY <1>s, <1>n, <2>3, <3>1, <3>4
      <4>2. ~(j < cursor[t])
        BY <1>s, <1>n, <3>1, <3>4
      <4> QED
        BY <1>2, <1>5, <2>1, <2>3, <4>1, <4>2 DEF Reached
    <3> QED
      BY <1>s, <1>n, <3>1, <3>2, <3>3, <3>4
  <2> QED
    BY <2>1, <2>2, <2>3
<1> QED
  BY <1>t, <1>s, <1>3, <1>4, <1>5, Elsewhere

(* A thread reads on when it has sent to every slot, and a client that is  *)
(* sent a line is sent all that follow.                                    *)
LEMMA UpToDateStep == Paced /\ GInv /\ [Next]_vars => UpToDate'
<1> SUFFICES ASSUME Paced, GInv, [Next]_vars,
                    NEW t \in Threads, NEW c \in Clients, NEW i \in 1 .. Len(stream'[c]),
                    conn'[c] = "open", LastFrom(stream'[c], i, socket'[t])
             PROVE  stream'[c][i].text.hi = Reached(t, c)'
  BY DEF UpToDate
<1>t. /\ PInv /\ IInv /\ TypeOK /\ HandedOver /\ BroadcastsOwn /\ HandedOnce
      /\ Spoken /\ LastRead /\ UpToDate
  BY DEF GInv, PInv, HInv, IInv
<1>1. PICK u \in Threads : socket'[u] = socket'[t] /\ pc'[u] \notin {"none", "start", "name"}
  <2>1. Spoken'
    BY SpokenStep
  <2> QED
    BY <2>1 DEF Spoken, Quotes, LastFrom
<1>2. u = t
  <2>1. IInv' /\ HandedOnce'
    BY <1>t, InvStep, HandedOnceStep DEF GInv
  <2>2. socket'[u] \in Clients
    BY <1>1, <2>1 DEF IInv, HandedOver
  <2> QED
    BY <1>1, <2>1, <2>2, SocketsAssumption DEF HandedOnce
<1>3. pc[t] \notin {"none", "start", "name"}
  <2> SUFFICES ASSUME pc[t] \in {"none", "start", "name"} PROVE FALSE
    OBVIOUS
  <2>1. pc[t] = "name" /\ Handler(t)
    BY <1>t, <1>1, <1>2, NameFirst
  <2>2. UNCHANGED stream /\ socket'[t] = socket[t] /\ socket[t] \in Clients
    BY <1>t, <2>1, OtherSteps, HandlerFrame DEF HandedOver
  <2>3. PICK v \in Threads : socket[v] = socket[t] /\ pc[v] \notin {"none", "start", "name"}
    BY <1>t, <2>2 DEF Spoken, Quotes, LastFrom
  <2> QED
    BY <1>t, <2>1, <2>2, <2>3, SocketsAssumption DEF HandedOnce
<1>4. socket'[t] = socket[t] /\ socket[t] \in Clients
  BY <1>t, <1>3, Settled DEF HandedOver
<1>5. CASE /\ LastFrom(stream[c], i, socket[t]) /\ stream'[c][i] = stream[c][i]
           /\ stream'[c] = stream[c] \/ ~Handler(t)
  <2>1. conn[c] = "open"
    <3>1. stream[c] # << >>
      <4>1. stream[c] \in Seq(Line)
        BY <1>t DEF TypeOK
      <4> QED
        BY <1>5, <4>1 DEF LastFrom
    <3> QED
      BY <3>1, QueueSteps
  <2>2. stream[c][i].text.hi = Reached(t, c)
    BY <1>t, <1>5, <2>1 DEF UpToDate, LastFrom
  <2> QED
    BY <1>3, <1>5, <2>1, <2>2, ReachedStep
<1>6. CASE /\ SendToSlot(t) /\ pc[t] = "send" /\ target[t] = c /\ conn[c] = "open"
           /\ stream'[c][i].text = buffer[t]
  <2> DEFINE j == cursor[t]
  <2>1. j \in Slots /\ clients[j].sockfd = c /\ clients[j].named
    BY <1>6, TargetSlot
  <2>2. cursor'[t] = j + 1 /\ UNCHANGED taken /\ j \in Int
    BY <1>t, <1>6, <2>1, ChatServerAssumption
    DEF TypeOK, SendToSlot, SendLine, Advance, StepTo, Slots
  <2>3. Passed(t, c)' <=> j < cursor'[t]
    BY <1>6, <2>1, SlotStays
  <2>4. Passed(t, c)'
    BY <2>2, <2>3
  <2>5. Reached(t, c)' = taken[socket[t]]
    BY <1>4, <2>2, <2>4 DEF Reached
  <2> QED
    BY <1>t, <1>6, <2>5 DEF LastRead
<1> QED
  BY <1>t, <1>4, <1>5, <1>6, LastLine

(* What is sent next of a client goes on where it left off.                *)
LEMMA GapStep == Paced /\ GInv /\ [Next]_vars => NoGapNoRepeat'
<1> SUFFICES ASSUME Paced, GInv, [Next]_vars, NEW c \in Clients,
                    NEW i \in 1 .. Len(stream'[c]), NEW j \in 1 .. Len(stream'[c]),
                    NextFrom(c, i, j)'
             PROVE  stream'[c][j].text.lo = stream'[c][i].text.hi + 1
  BY DEF NoGapNoRepeat
<1>t. IInv /\ TypeOK /\ BroadcastsOwn /\ UpToDate /\ NoGapNoRepeat
  BY DEF GInv, PInv, HInv, IInv
<1>1. CASE stream'[c] = stream[c]
  BY <1>t, <1>1 DEF NoGapNoRepeat, NextFrom
<1>2. ASSUME NEW t \in Threads,
             SendToSlot(t), pc[t] = "send", target[t] = c, conn[c] = "open",
             Len(stream[c]) \in Nat, Len(stream'[c]) = Len(stream[c]) + 1,
             \A k \in 1 .. Len(stream[c]) : stream'[c][k] = stream[c][k],
             stream'[c][Len(stream[c]) + 1].text = buffer[t]
      PROVE  stream'[c][j].text.lo = stream'[c][i].text.hi + 1
  <2>1. i < j /\ i \in 1 .. Len(stream[c])
    BY <1>2 DEF NextFrom
  <2>2. CASE j \in 1 .. Len(stream[c])
    <3>1. NextFrom(c, i, j)
      <4>1. \A k \in i + 1 .. j - 1 : k \in 1 .. Len(stream[c])
        BY <2>1, <2>2
      <4>2. \A k \in i + 1 .. j - 1 : stream'[c][k] = stream[c][k]
        BY <1>2, <4>1
      <4>3. stream'[c][i] = stream[c][i] /\ stream'[c][j] = stream[c][j]
        BY <1>2, <2>1, <2>2
      <4> QED
        BY <2>1, <4>2, <4>3 DEF NextFrom
    <3> QED
      BY <1>t, <1>2, <2>1, <2>2, <3>1 DEF NoGapNoRepeat
  <2>3. CASE j = Len(stream[c]) + 1
    <3>1. stream'[c][j].text = buffer[t] /\ buffer[t].from = socket[t]
      BY <1>t, <1>2, <2>3 DEF BroadcastsOwn
    <3>2. LastFrom(stream[c], i, socket[t])
      <4>1. stream'[c][i] = stream[c][i] /\ stream[c][i].text.from = socket[t]
        BY <1>2, <2>1, <3>1 DEF NextFrom
      <4>2. \A k \in i + 1 .. Len(stream[c]) :
              k \in i + 1 .. j - 1 /\ stream'[c][k] = stream[c][k]
        BY <1>2, <2>1, <2>3
      <4> QED
        BY <2>1, <4>1, <4>2 DEF NextFrom, LastFrom
    <3>3. stream[c][i].text.hi = Reached(t, c)
      BY <1>t, <1>2, <2>1, <3>2 DEF UpToDate
    <3>4. Reached(t, c) = buffer[t].lo - 1
      <4>1. /\ cursor[t] \in Slots /\ clients[cursor[t]].sockfd = c
            /\ clients[cursor[t]].named
        BY <1>2, TargetSlot
      <4>2. Passed(t, c) <=> cursor[t] < cursor[t]
        BY <1>2, <4>1, SlotStays
      <4>3. ~(cursor[t] < cursor[t])
        BY <4>1, ChatServerAssumption DEF Slots
      <4> QED
        BY <1>2, <4>2, <4>3 DEF Reached
    <3>5. buffer[t].lo \in Nat
      BY <1>t DEF TypeOK, Run
    <3>6. stream'[c][i].text.hi = buffer[t].lo - 1
      BY <1>2, <2>1, <3>3, <3>4
    <3> QED
      BY <3>1, <3>5, <3>6
  <2> QED
    BY <1>2, <2>2, <2>3
<1> QED
  BY <1>t, <1>1, <1>2, LinesAfter

(* Nothing has been sent at the start.                                     *)
LEMMA GapInit == Init => GInv
<1> SUFFICES ASSUME Init PROVE GInv
  OBVIOUS
<1>1. PInv /\ LinesSigned
  BY PacedInit
<1>2. /\ stream = [c \in Clients |-> << >>]
      /\ pc = [t \in Threads |-> "none"]
      /\ clients = [j \in Slots |-> [sockfd |-> NoSocket, named |-> FALSE]]
      /\ main = "accept" /\ backlog = << >>
  BY DEF Init, NetInit, ServerInit
<1>3. SlotsApart
  BY <1>2, SocketsAssumption DEF SlotsApart, Unlisted
<1>4. Aimed /\ Heard /\ Spoken /\ LastRead /\ UpToDate /\ NoGapNoRepeat
  BY <1>2 DEF Aimed, Heard, Spoken, LastRead, UpToDate, NoGapNoRepeat
<1> QED
  BY <1>1, <1>3, <1>4 DEF GInv

(* With users who join one at a time, a client that has been sent a line   *)
(* of another stays in its slot under its name, and every thread knows how *)
(* far it has been sent (server.c:47-64).                                  *)
THEOREM ChatInvariance == Paced => (Spec => []GInv)
<1> SUFFICES ASSUME Paced PROVE Spec => []GInv
  OBVIOUS
<1>1. GInv /\ [Next]_vars => GInv'
  <2> SUFFICES ASSUME GInv, [Next]_vars PROVE GInv'
    OBVIOUS
  <2>1. PInv'
    BY InvStep, HandoffStep, HandedOnceStep, OwnSlotsStep, PatienceStep, OwnNamesStep
    DEF GInv, PInv, HInv
  <2>2. LinesSigned'
    BY SignedStep DEF GInv
  <2> QED
    BY <2>1, <2>2, SlotsApartStep, AimedStep, HeardStep, SpokenStep, LastReadStep, UpToDateStep, GapStep
    DEF GInv
<1> QED
  BY GapInit, <1>1, PTL DEF Spec

(* With users who join one at a time, what a client is sent of another is  *)
(* a piece of what the other typed, with nothing twice and nothing left    *)
(* out, however the broadcasts interleave and whoever comes and goes       *)
(* (server.c:47-64).                                                       *)
THEOREM NothingSkipped == Paced => (Spec => []NoGapNoRepeat)
<1> SUFFICES ASSUME Paced PROVE Spec => []NoGapNoRepeat
  OBVIOUS
<1>1. GInv => NoGapNoRepeat
  BY DEF GInv
<1> QED
  BY ChatInvariance, <1>1, PTL

(* With users who join one at a time, each line goes by a name of its own  *)
(* sender, which comes in front of the text in what the sender typed and   *)
(* is the same on all its lines to everybody; a user who waits for the     *)
(* server goes by the name entered, with what the stack held behind it     *)
(* (server.c:30-43, 52-62).                                                *)
THEOREM LinesAreSigned == Paced => (Spec => []SignedBySender)
<1> SUFFICES ASSUME Paced PROVE Spec => []SignedBySender
  OBVIOUS
<1>1. GInv => SignedBySender
  <2> SUFFICES ASSUME GInv,
                      NEW c \in Clients, NEW k \in 1 .. Len(stream[c]),
                      NEW b \in Clients, NEW i \in 1 .. Len(stream[b]),
                      stream[b][i].text.from = stream[c][k].text.from
               PROVE  stream[b][i].name = stream[c][k].name
    BY DEF GInv, LinesSigned, SignedBySender
  <2>1. HandedOver /\ HandedOnce /\ Spoken
    BY DEF GInv, PInv, HInv, IInv
  <2>2. PICK u \in Threads : Quotes(u, stream[b][i])
    BY <2>1 DEF Spoken
  <2>3. PICK v \in Threads : Quotes(v, stream[c][k])
    BY <2>1 DEF Spoken
  <2>4. socket[u] = socket[v] /\ socket[u] # NoSocket
    BY <2>1, <2>2, <2>3, SocketsAssumption DEF Quotes, HandedOver
  <2>5. u = v
    BY <2>1, <2>4 DEF HandedOnce
  <2> QED
    BY <2>2, <2>3, <2>5 DEF Quotes
<1> QED
  BY ChatInvariance, <1>1, PTL

=============================================================================
