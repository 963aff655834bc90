------------------------- MODULE MultiThreadProofs --------------------------
(***************************************************************************)
(* Theorems about MultiThread for any number of clients, processes, threads *)
(* and lines, any size of records and any way of cutting them: its type    *)
(* invariant, that no client is sent what another one typed, and that one  *)
(* whose records are whole is shown its last line and never an older one.  *)
(***************************************************************************)
EXTENDS MultiThread, EchoRecordsProofs

(* Threads are created in order, and those that run have a real socket.    *)
Serving ==
  /\ main = "dispatch" => client_socket \in Clients /\ thread_count < MAX_CLIENTS
  /\ \A t \in Threads :
       /\ t > thread_count => pc[t] = "none"
       /\ pc[t] = "start" => client_socket \in Clients
       /\ pc[t] \notin {"none", "start"} => socket[t] \in Clients

(* A buffer holds what came from the thread's own socket, or nothing yet.  *)
OwnBuffers ==
  \A t \in Threads :
    IF pc[t] \in {"none", "start"}
    THEN buffer[t] = Uninitialised
    ELSE OwnBytes(socket[t], buffer[t])

IInv == TypeOK /\ Serving /\ OwnBuffers /\ OwnStreams

-----------------------------------------------------------------------------
(* The variables of the server alone.                                      *)
ServerTypeOK ==
  /\ main \in MainStates
  /\ client_socket \in Clients \cup {NoSocket}
  /\ thread_count \in 0 .. MAX_CLIENTS
  /\ pc \in [Threads -> ThreadStates]
  /\ socket \in [Threads -> Clients \cup {NoSocket}]
  /\ buffer \in [Threads -> Buffer]

(* TypeOK, in the parts that steps change separately.                      *)
LEMMA TypeParts == TypeOK <=> server \in ServerStates /\ EchoTypeOK /\ ServerTypeOK
  BY DEF TypeOK, EchoTypeOK, ServerTypeOK

(* The same of the next state.                                             *)
LEMMA TypePartsNext == (server \in ServerStates /\ EchoTypeOK /\ ServerTypeOK)' => TypeOK'
  BY DEF TypeOK, EchoTypeOK, ServerTypeOK

(* OnlyOwnText is OwnStreams.                                              *)
LEMMA OwnText == EchoTypeOK => (OwnStreams <=> OnlyOwnText)
<1> SUFFICES ASSUME EchoTypeOK PROVE OwnStreams <=> OnlyOwnText
  OBVIOUS
<1>1. \A c \in Clients : DOMAIN stream[c] = 1 .. Len(stream[c])
  BY DEF EchoTypeOK
<1> QED BY <1>1 DEF OwnStreams, OwnBytes, OnlyOwnText

(* The initial state is one of the invariant.                              *)
LEMMA InitIInv == Init => IInv
<1> SUFFICES ASSUME Init PROVE IInv
  OBVIOUS
<1> USE DEF Init, NetInit, ClientInit, ServerInit
<1>1. EchoTypeOK
  BY ZeroType DEF EchoTypeOK, ConnStates, SockErrors, Places
<1>2. ServerTypeOK
  BY ThreadServerAssumption, UninitialisedType
  DEF ServerTypeOK, MainStates, ThreadStates
<1>3. Serving /\ OwnBuffers /\ OwnStreams
  BY DEF Serving, OwnBuffers, OwnStreams, OwnBytes, Threads
<1> QED BY <1>1, <1>2, <1>3, TypeParts DEF IInv, ServerStates

-----------------------------------------------------------------------------
(* The clients *)

(* Client threads change neither the server nor what it has sent.          *)
LEMMA ClientKeepsIInv ==
  ASSUME IInv, NEW c \in Clients, ClientStep(c), UNCHANGED serverVars
  PROVE  IInv'
<1>1. EchoTypeOK
  BY TypeParts DEF IInv
<1>2. EchoTypeOK' /\ UNCHANGED <<server, taken, stream>>
  BY <1>1, ConnectTypes, EndProcessTypes, EnterTypes, SendFailsTypes, ReceiveEchoTypes,
     ReceiveNothingTypes DEF ClientStep, ConnectRefused, Exit
<1>3. TypeOK'
  BY <1>1, <1>2, TypeParts, TypePartsNext DEF IInv, ServerTypeOK, serverVars
<1>4. Serving' /\ OwnBuffers'
  BY DEF IInv, Serving, OwnBuffers, serverVars
<1>5. OwnStreams'
  BY <1>2 DEF IInv, OwnStreams
<1> QED BY <1>3, <1>4, <1>5 DEF IInv

-----------------------------------------------------------------------------
(* The main thread *)

(* A thread is created with a real socket waiting in client_socket.        *)
LEMMA MainKeepsIInv ==
  ASSUME IInv, MainThread
  PROVE  IInv'
<1>t. server \in ServerStates /\ EchoTypeOK /\ ServerTypeOK /\ Serving /\ OwnBuffers /\ OwnStreams
  BY TypeParts DEF IInv
<1>m. MAX_CLIENTS \in Nat
  BY ThreadServerAssumption
<1>1. CASE Accept
  <2>1. client_socket' \in Clients /\ backlog' \in Seq(Clients)
    BY <1>t, <1>1, HeadTailProperties DEF Accept, TakeConnection, EchoTypeOK
  <2>2. EchoTypeOK' /\ OwnStreams' /\ server' \in ServerStates
    BY <1>t, <1>1, <2>1 DEF Accept, TakeConnection, EchoTypeOK, clientVars, OwnStreams
  <2>3. ServerTypeOK'
    BY <1>t, <1>1, <2>1 DEF Accept, TakeConnection, ServerTypeOK, MainStates
  <2>4. Serving' /\ OwnBuffers'
    BY <1>t, <1>1, <2>1 DEF Accept, TakeConnection, Serving, OwnBuffers
  <2> QED BY <2>2, <2>3, <2>4, TypePartsNext DEF IInv
<1>2. CASE Dispatch
  <2>1. thread_count + 1 \in Threads /\ thread_count \in 0 .. MAX_CLIENTS
        /\ client_socket \in Clients /\ pc[thread_count + 1] = "none"
    BY <1>t, <1>m, <1>2 DEF Dispatch, Serving, ServerTypeOK, Threads
  <2>2. EchoTypeOK' /\ OwnStreams' /\ server' \in ServerStates
    BY <1>t, <1>2 DEF Dispatch, netVars, clientVars, EchoTypeOK, OwnStreams
  <2>3. ServerTypeOK'
    BY <1>t, <1>m, <1>2, <2>1 DEF Dispatch, Goto, ServerTypeOK, MainStates, ThreadStates, Threads
  <2>4. Serving'
    <3>1. main' = "accept" /\ UNCHANGED <<client_socket, socket>>
          /\ thread_count' = thread_count + 1
          /\ pc' = [pc EXCEPT ![thread_count + 1] = "start"]
      BY <1>2 DEF Dispatch, Goto
    <3>2. ASSUME NEW t \in Threads
          PROVE  /\ t > thread_count' => pc'[t] = "none"
                 /\ pc'[t] = "start" => client_socket' \in Clients
                 /\ pc'[t] \notin {"none", "start"} => socket'[t] \in Clients
      BY <1>t, <1>m, <2>1, <3>1 DEF Serving, ServerTypeOK, Threads
    <3> QED BY <3>1, <3>2 DEF Serving
  <2>5. OwnBuffers'
    BY <1>t, <1>2, <2>1 DEF Dispatch, Goto, OwnBuffers, ServerTypeOK
  <2> QED BY <2>2, <2>3, <2>4, <2>5, TypePartsNext DEF IInv
<1>3. CASE AcceptFails \/ CreateFails \/ JoinAll
  <2>1. server' = "exited" /\ UNCHANGED <<conn, backlog, sent, taken, stream, shown, sockerr, clientVars, serverVars>>
    BY <1>3 DEF AcceptFails, CreateFails, JoinAll, ServerEnds
  <2>2. TypeOK'
    BY <1>t, <2>1, TypePartsNext DEF EchoTypeOK, ServerTypeOK, ServerStates, clientVars, serverVars
  <2> QED BY <1>t, <2>1, <2>2 DEF IInv, Serving, OwnBuffers, OwnStreams, serverVars
<1> QED BY <1>1, <1>2, <1>3 DEF MainThread

-----------------------------------------------------------------------------
(* The threads *)

(* Whichever socket a thread picks up, its buffer is still untouched.      *)
LEMMA StartKeepsIInv ==
  ASSUME IInv, NEW t \in Threads, Start(t)
  PROVE  IInv'
<1>t. server \in ServerStates /\ EchoTypeOK /\ ServerTypeOK /\ Serving /\ OwnBuffers /\ OwnStreams
  BY TypeParts DEF IInv
<1>1. pc[t] = "start" /\ client_socket \in Clients /\ buffer[t] = Uninitialised
  BY <1>t DEF Start, At, Serving, OwnBuffers
<1>2. EchoTypeOK' /\ OwnStreams' /\ server' \in ServerStates
  BY <1>t DEF Start, netVars, clientVars, EchoTypeOK, OwnStreams
<1>3. ServerTypeOK'
  BY <1>t, <1>1 DEF Start, Goto, ServerTypeOK, ThreadStates
<1>4. Serving'
  BY <1>t, <1>1 DEF Start, Goto, Serving, ServerTypeOK
<1>5. OwnBuffers'
  <2>1. OwnBytes(client_socket, Uninitialised)
    BY UninitialisedType
  <2> QED BY <1>t, <1>1, <2>1 DEF Start, Goto, OwnBuffers, ServerTypeOK
<1> QED BY <1>2, <1>3, <1>4, <1>5, TypePartsNext DEF IInv

(* recv() fills the buffer from the thread's own socket.                   *)
LEMMA RecvKeepsIInv ==
  ASSUME IInv, NEW t \in Threads, Recv(t)
  PROVE  IInv'
<1>t. server \in ServerStates /\ EchoTypeOK /\ ServerTypeOK /\ Serving /\ OwnBuffers /\ OwnStreams
  BY TypeParts DEF IInv
<1> DEFINE s == socket[t]
<1>1. pc[t] = "recv" /\ s \in Clients /\ OwnBytes(s, buffer[t]) /\ buffer[t] \in Buffer
  BY <1>t DEF Recv, At, Serving, OwnBuffers, ServerTypeOK
<1>2. PICK run \in Arrived(s, BUFFER_SIZE), place \in {"done", "send"} :
        /\ taken' = [taken EXCEPT ![s] = run.hi]
        /\ buffer' = [buffer EXCEPT ![t] = Filled(@, run)]
        /\ pc' = [pc EXCEPT ![t] = place]
        /\ server' \in {server, "undefined"}
  BY DEF Recv, Goto
<1>3. UNCHANGED <<conn, backlog, sent, stream, shown, sockerr, at, quit, screen,
                  main, client_socket, thread_count, socket>>
  BY DEF Recv, clientVars
<1>4. run.hi \in Nat
  BY <1>t, <1>1, <1>2, ArrivedRun
<1>5. Filled(buffer[t], run) \in Buffer /\ OwnBytes(s, Filled(buffer[t], run))
  BY <1>t, <1>1, <1>2, FilledOwn
<1>6. EchoTypeOK' /\ OwnStreams' /\ server' \in ServerStates
  BY <1>t, <1>2, <1>3, <1>4 DEF EchoTypeOK, OwnStreams, ServerStates
<1>7. ServerTypeOK'
  BY <1>t, <1>2, <1>3, <1>5 DEF ServerTypeOK, ThreadStates
<1>8. Serving'
  BY <1>t, <1>1, <1>2, <1>3 DEF Serving, ServerTypeOK
<1>9. OwnBuffers'
  BY <1>t, <1>1, <1>2, <1>3, <1>5 DEF OwnBuffers, ServerTypeOK
<1> QED BY <1>6, <1>7, <1>8, <1>9, TypePartsNext DEF IInv

(* No bytes, and the buffer stays as it is.                                *)
LEMMA RecvEndKeepsIInv ==
  ASSUME IInv, NEW t \in Threads, RecvEnd(t) \/ RecvFails(t)
  PROVE  IInv'
<1>t. server \in ServerStates /\ EchoTypeOK /\ ServerTypeOK /\ Serving /\ OwnBuffers /\ OwnStreams
  BY TypeParts DEF IInv
<1>1. pc[t] = "recv"
  BY DEF RecvEnd, PeerClosed, RecvFails, At
<1>2. PICK place \in {"done", "send"} : pc' = [pc EXCEPT ![t] = place]
  BY DEF RecvEnd, RecvFails, Goto
<1>3. UNCHANGED <<conn, backlog, sent, taken, stream, shown, at, quit, screen,
                  main, client_socket, thread_count, socket, buffer>>
  BY DEF RecvEnd, PeerClosed, RecvFails, netVars, clientVars
<1>4. server' \in ServerStates /\ sockerr' \in [Clients -> SockErrors]
  BY <1>t DEF RecvEnd, PeerClosed, RecvFails, ReportEnd, netVars, EchoTypeOK, ServerStates,
              SockErrors
<1>5. EchoTypeOK' /\ OwnStreams'
  BY <1>t, <1>3, <1>4 DEF EchoTypeOK, OwnStreams
<1>6. ServerTypeOK'
  BY <1>t, <1>2, <1>3 DEF ServerTypeOK, ThreadStates
<1>7. Serving' /\ OwnBuffers'
  BY <1>t, <1>1, <1>2, <1>3 DEF Serving, OwnBuffers, ServerTypeOK
<1> QED BY <1>4, <1>5, <1>6, <1>7, TypePartsNext DEF IInv

(* The buffer goes to the client it came from.                             *)
LEMMA EchoKeepsIInv ==
  ASSUME IInv, NEW t \in Threads, Echo(t)
  PROVE  IInv'
<1>t. server \in ServerStates /\ EchoTypeOK /\ ServerTypeOK /\ Serving /\ OwnBuffers /\ OwnStreams
  BY TypeParts DEF IInv
<1>1. /\ pc[t] = "send" /\ socket[t] \in Clients
      /\ OwnBytes(socket[t], buffer[t]) /\ buffer[t] \in Buffer
  BY <1>t DEF Echo, SendBuffer, At, Serving, OwnBuffers, ServerTypeOK
<1>2. Send(socket[t], buffer[t])
  BY DEF Echo, SendBuffer
<1>3. /\ pc' = [pc EXCEPT ![t] = "recv"]
      /\ UNCHANGED <<server, conn, backlog, sent, taken, shown, at, quit, screen,
                     main, client_socket, thread_count, socket, buffer>>
  BY DEF Echo, SendBuffer, Goto, clientVars
<1>4. /\ stream' \in [Clients -> Seq(ByteValue)]
      /\ sockerr' \in [Clients -> SockErrors]
      /\ OwnStreams'
  BY <1>t, <1>1, <1>2, SendOwn
<1>5. EchoTypeOK' /\ server' \in ServerStates
  BY <1>t, <1>3, <1>4 DEF EchoTypeOK
<1>6. ServerTypeOK'
  BY <1>t, <1>3 DEF ServerTypeOK, ThreadStates
<1>7. Serving' /\ OwnBuffers'
  BY <1>t, <1>1, <1>3 DEF Serving, OwnBuffers, ServerTypeOK
<1> QED BY <1>4, <1>5, <1>6, <1>7, TypePartsNext DEF IInv

(* exit() or SIGPIPE ends the server, and changes nothing else.            *)
LEMMA EchoEndsKeepsIInv ==
  ASSUME IInv, NEW t \in Threads, EchoFails(t) \/ EchoKills(t)
  PROVE  IInv'
<1>1. /\ server' \in ServerStates
      /\ UNCHANGED <<conn, backlog, sent, taken, stream, shown, sockerr, clientVars, serverVars>>
  BY DEF EchoFails, EchoKills, ServerEnds, ServerStates
<1> QED BY <1>1 DEF IInv, TypeOK, Serving, OwnBuffers, OwnStreams, clientVars, serverVars

-----------------------------------------------------------------------------
(* The inductive invariant: threads are created in order and have real     *)
(* sockets, their buffers and what they have sent is their clients' own.   *)
THEOREM Invariance == Spec => []IInv
<1>1. IInv /\ [Next]_vars => IInv'
  <2> SUFFICES ASSUME IInv, [Next]_vars PROVE IInv'
    OBVIOUS
  <2>1. CASE MainThread
    BY <2>1, MainKeepsIInv
  <2>2. ASSUME NEW t \in Threads, Handler(t) PROVE IInv'
    BY <2>2, StartKeepsIInv, RecvKeepsIInv, RecvEndKeepsIInv, EchoKeepsIInv,
       EchoEndsKeepsIInv DEF Handler
  <2>3. ASSUME NEW c \in Clients, ClientStep(c), UNCHANGED serverVars PROVE IInv'
    BY <2>3, ClientKeepsIInv
  <2>4. CASE UNCHANGED vars
    BY <2>4 DEF vars, netVars, clientVars, serverVars, IInv, TypeOK, Serving, OwnBuffers,
                OwnStreams
  <2> QED BY <2>1, <2>2, <2>3, <2>4 DEF Next, ServerNext
<1> QED BY InitIInv, <1>1, PTL DEF Spec

(* Every variable keeps its type, and never more threads are created than  *)
(* threads[] holds (server.c:84).                                          *)
THEOREM TypeCorrect == Spec => []TypeOK
  BY Invariance, PTL DEF IInv

(* However connections race and records are cut, whichever threads serve   *)
(* it, a client is sent its own text, zeros, or what the stack held        *)
(* (server.c:20-30).                                                       *)
THEOREM OwnTextOnly == Spec => []OnlyOwnText
<1>1. IInv => OnlyOwnText
  BY TypeParts, OwnText DEF IInv
<1> QED BY Invariance, <1>1, PTL

-----------------------------------------------------------------------------
(* Clients whose records are whole *)

(* The first bytes of what is to be sent to c, each with its thread.       *)
Holders(c) == {<<t, buffer[t][1]>> : t \in {u \in Threads : pc[u] = "send" /\ socket[u] = c}}

(* The last line of such a client is in one place until the server ends;   *)
(* when it is the client's turn, that place is its screen.                 *)
InStep ==
  \A c \in Whole : LinesShown(c) /\ InTurn(c, Holders(c), Running)

(* The initial state is one of those.                                      *)
LEMMA InitInStep == Init => InStep
<1> SUFFICES ASSUME Init, NEW c \in Whole PROVE LinesShown(c) /\ InTurn(c, Holders(c), Running)
  BY DEF InStep
<1>1. c \in Clients /\ BUFFER_SIZE \in Nat /\ BUFFER_SIZE > 1
  BY EchoClientAssumption
<1>2. sent[c] = 0 /\ taken[c] = 0 /\ stream[c] = << >> /\ shown[c] = 0 /\ Holders(c) = {}
  BY <1>1 DEF Init, NetInit, ServerInit, Holders
<1>3. LinesShown(c)
  <2>1. 0 % BUFFER_SIZE = 0
    BY <1>1
  <2> QED BY <1>2, <2>1 DEF LinesShown
<1> QED BY <1>2, <1>3 DEF InTurn, Turn, OnePlace, Shown

(* A step that neither sends nor receives on a socket that is open.        *)
LEMMA InStepFrame ==
  ASSUME InStep, UNCHANGED <<conn, sent, taken, stream, shown, at, screen>>,
         \A c \in Whole : conn[c] # "closed" => Holders(c)' = Holders(c),
         Running' => Running
  PROVE  InStep'
<1> SUFFICES ASSUME NEW c \in Whole PROVE LinesShown(c)' /\ InTurn(c, Holders(c), Running)'
  BY DEF InStep
<1>1. LinesShown(c)'
  BY DEF InStep, LinesShown, Sent
<1>2. ASSUME conn'[c] # "closed"
      PROVE  Turn(c, at'[c], sent'[c], taken'[c], stream'[c], shown'[c], Holders(c)', Running')
  <2>1. Turn(c, at[c], sent[c], taken[c], stream[c], shown[c], Holders(c), Running)
        /\ Holders(c)' = Holders(c)
    BY <1>2 DEF InStep, InTurn
  <2> QED BY <2>1 DEF Turn
<1> QED BY <1>1, <1>2 DEF InTurn

(* Clients type, are shown what was sent to them, and leave.               *)
LEMMA ClientKeepsInStep ==
  ASSUME IInv, InStep, NEW d \in Clients, ClientStep(d), UNCHANGED serverVars
  PROVE  InStep'
<1> SUFFICES ASSUME NEW c \in Whole PROVE LinesShown(c)' /\ InTurn(c, Holders(c), Running)'
  BY DEF InStep
<1>1. EchoTypeOK
  BY TypeParts DEF IInv
<1>2. UNCHANGED <<server, taken, stream>>
  BY <1>1, ConnectTypes, EndProcessTypes, EnterTypes, SendFailsTypes, ReceiveEchoTypes,
     ReceiveNothingTypes DEF ClientStep, ConnectRefused, Exit
<1>3. Holders(c)' = Holders(c) /\ Running' = Running
  BY <1>2 DEF Holders, serverVars, Running
<1>4. LinesShown(c) /\ InTurn(c, Holders(c), Running)
  BY DEF InStep
<1>5. \/ Connect(d) \/ EndProcess(d) \/ EnterMessage(d) \/ EnterExit(d)
      \/ SendFails(d, ~Running) \/ ReceiveEcho(d) \/ ReceiveNothing(d, ~Running)
  BY DEF ClientStep, ConnectRefused, Exit
<1>6. /\ LinesShown(c)'
      /\ conn'[c] # "closed" =>
           Turn(c, at'[c], sent'[c], taken'[c], stream'[c], shown'[c], Holders(c), Running)
  BY <1>1, <1>4, <1>5, ClientsKeepTurn DEF Running
<1> QED BY <1>3, <1>6 DEF InTurn

(* A step of a thread that has nothing to send before or after it.         *)
LEMMA SameHolders ==
  ASSUME NEW t \in Threads, NEW c, NEW place \in ThreadStates,
         TypeOK, pc' = [pc EXCEPT ![t] = place], pc[t] # "send" \/ socket[t] # c,
         place # "send" \/ socket[t] # c,
         \A u \in Threads : u # t => socket'[u] = socket[u] /\ buffer'[u] = buffer[u],
         socket'[t] = socket[t] \/ place # "send"
  PROVE  Holders(c)' = Holders(c)
<1>1. \A u \in Threads : pc'[u] = IF u = t THEN place ELSE pc[u]
  BY DEF TypeOK
<1>2. \A u \in Threads : pc'[u] = "send" /\ socket'[u] = c <=> pc[u] = "send" /\ socket[u] = c
  BY <1>1
<1>3. \A u \in Threads : pc[u] = "send" /\ socket[u] = c => buffer'[u] = buffer[u]
  BY <1>1
<1> QED BY <1>2, <1>3 DEF Holders

(* The main thread creates threads that have nothing to send.              *)
LEMMA MainKeepsInStep ==
  ASSUME IInv, InStep, MainThread
  PROVE  InStep'
<1>t. TypeOK /\ Serving
  BY DEF IInv
<1>1. UNCHANGED <<conn, sent, taken, stream, shown, at, screen, buffer, socket>>
  BY DEF MainThread, Accept, TakeConnection, AcceptFails, Dispatch, CreateFails, JoinAll,
         ServerEnds, netVars, clientVars, serverVars
<1>2. Running
  BY DEF MainThread, Accept, TakeConnection, AcceptFails, Dispatch, CreateFails, JoinAll
<1>3. \A t \in Threads : pc'[t] = "send" <=> pc[t] = "send"
  <2>1. CASE Dispatch
    <3>1. thread_count + 1 \in Threads /\ pc[thread_count + 1] = "none"
      BY <1>t, <2>1, ThreadServerAssumption DEF Dispatch, Serving, TypeOK, Threads
    <3> QED BY <1>t, <2>1, <3>1 DEF Dispatch, Goto, TypeOK
  <2>2. CASE ~Dispatch
    BY <2>2 DEF MainThread, Accept, TakeConnection, AcceptFails, CreateFails, JoinAll,
                ServerEnds, serverVars
  <2> QED BY <2>1, <2>2
<1>4. \A c \in Whole : Holders(c)' = Holders(c)
  BY <1>1, <1>3 DEF Holders
<1> QED BY <1>1, <1>2, <1>4, InStepFrame

(* So do threads that start, see the end of a client, or end the server.   *)
LEMMA OthersKeepInStep ==
  ASSUME IInv, InStep, NEW t \in Threads,
         Start(t) \/ RecvEnd(t) \/ RecvFails(t) \/ EchoFails(t) \/ EchoKills(t)
  PROVE  InStep'
<1>t. TypeOK /\ Serving
  BY DEF IInv
<1>1. UNCHANGED <<conn, sent, taken, stream, shown, at, screen, buffer>> /\ Running
  BY DEF Start, RecvEnd, PeerClosed, RecvFails, EchoFails, EchoKills, ServerEnds, At, netVars,
         clientVars, serverVars
<1>2. ASSUME NEW c \in Whole, conn[c] # "closed" PROVE Holders(c)' = Holders(c)
  <2>1. CASE Start(t)
    <3>1. /\ pc[t] = "start" /\ pc' = [pc EXCEPT ![t] = "recv"]
          /\ \A u \in Threads : u # t => socket'[u] = socket[u]
      BY <1>t, <2>1 DEF Start, At, Goto, TypeOK
    <3> QED BY <1>t, <1>1, <3>1, SameHolders DEF ThreadStates
  <2>2. CASE RecvEnd(t) \/ RecvFails(t)
    <3>1. /\ pc[t] = "recv" /\ conn[socket[t]] = "closed"
          /\ \E place \in {"done", "send"} : pc' = [pc EXCEPT ![t] = place]
          /\ socket' = socket
      BY <2>2 DEF RecvEnd, PeerClosed, RecvFails, At, AtEnd, Goto
    <3>2. socket[t] # c
      BY <1>2, <3>1
    <3> QED BY <1>t, <1>1, <3>1, <3>2, SameHolders DEF ThreadStates
  <2>3. CASE EchoFails(t) \/ EchoKills(t)
    BY <2>3 DEF EchoFails, EchoKills, ServerEnds, serverVars, Holders
  <2> QED BY <2>1, <2>2, <2>3
<1> QED BY <1>1, <1>2, InStepFrame

(* What recv() returns is the last line of a client that waits for it.     *)
LEMMA RecvKeepsInStep ==
  ASSUME IInv, InStep, NEW t \in Threads, Recv(t)
  PROVE  InStep'
<1> SUFFICES ASSUME NEW c \in Whole PROVE LinesShown(c)' /\ InTurn(c, Holders(c), Running)'
  BY DEF InStep
<1>t. TypeOK /\ Serving /\ c \in Clients
  BY EchoClientAssumption DEF IInv
<1> DEFINE s == socket[t]
<1>1. /\ Running /\ pc[t] = "recv" /\ s \in Clients
      /\ UNCHANGED <<conn, sent, stream, shown, at, screen, socket>>
  BY <1>t DEF Recv, At, Serving, clientVars
<1>2. PICK run \in Arrived(s, BUFFER_SIZE), place \in {"done", "send"} :
        /\ s \in Whole => Size(run) = BUFFER_SIZE
        /\ taken' = [taken EXCEPT ![s] = run.hi]
        /\ buffer' = [buffer EXCEPT ![t] = Filled(@, run)]
        /\ pc' = [pc EXCEPT ![t] = place]
  BY DEF Recv, Goto
<1>3. LinesShown(c)' /\ LinesShown(c) /\ InTurn(c, Holders(c), TRUE)
  BY <1>1 DEF InStep, LinesShown, Sent
<1>4. CASE conn[c] = "closed"
  BY <1>1, <1>3, <1>4 DEF InTurn
<1>5. CASE c # s
  <2>1. taken'[c] = taken[c]
    BY <1>t, <1>2, <1>5 DEF TypeOK
  <2>2. Holders(c)' = Holders(c)
    <3>1. \A u \in Threads : u # t => buffer'[u] = buffer[u]
      BY <1>t, <1>2 DEF TypeOK
    <3> QED BY <1>t, <1>1, <1>2, <1>5, <3>1, SameHolders DEF ThreadStates
  <2> QED BY <1>1, <1>3, <2>1, <2>2 DEF InTurn, Turn
<1>6. CASE c = s /\ conn[c] # "closed"
  <2>1. Turn(c, at[c], sent[c], taken[c], stream[c], shown[c], Holders(c), TRUE)
    BY <1>3, <1>6 DEF InTurn
  <2>2. /\ run.from = c /\ run.lo = taken[c] + 1 /\ run.hi = taken[c] + BUFFER_SIZE
        /\ taken[c] + BUFFER_SIZE <= sent[c] /\ taken[c] \in Nat /\ sent[c] \in Nat
        /\ Size(run) = BUFFER_SIZE
    BY <1>t, <1>2, <1>6, TypeParts, WholeRun
  <2>3. buffer'[t][1] = Byte(c, taken[c] + 1)
    <3>1. buffer'[t] = Filled(buffer[t], run)
      BY <1>t, <1>2 DEF TypeOK
    <3>2. Size(run) \in Nat \ {0} /\ run.lo + 1 - 1 = taken[c] + 1
      BY <2>2, BufferSize
    <3>3. Filled(buffer[t], run)[1] = Byte(c, run.lo + 1 - 1)
      BY <2>2, <3>2, FilledFirst
    <3> QED BY <3>1, <3>2, <3>3
  <2>4. taken'[c] = taken[c] + BUFFER_SIZE
    BY <1>t, <1>2, <1>6, <2>2 DEF TypeOK
  <2>5. CASE at[c] \notin {"enter", "reply"}
    BY <1>1, <1>3, <2>5 DEF InTurn, Turn
  <2>6. CASE at[c] \in {"enter", "reply"}
    <3>1. Holders(c) = {}
      <4>1. {} = {} \/ {} = {<<t, Byte(c, taken[c] + 1)>>}
        OBVIOUS
      <4> QED BY <2>1, <2>2, <2>6, <4>1, <1>3, TurnArrives DEF LinesShown
    <3>2. Holders(c)' = {} \/ Holders(c)' = {<<t, Byte(c, taken[c] + 1)>>}
      <4>1. \A u \in Threads : pc[u] = "send" => socket[u] # c
        BY <3>1 DEF Holders
      <4>2. \A u \in Threads : pc'[u] = "send" /\ socket'[u] = c => u = t
        BY <1>t, <1>1, <1>2, <4>1 DEF TypeOK
      <4>3. CASE pc'[t] = "send"
        <5>1. \A u \in Threads : pc'[u] = "send" /\ socket'[u] = c <=> u = t
          BY <1>1, <1>6, <4>2, <4>3
        <5> QED BY <2>3, <5>1 DEF Holders
      <4>4. CASE pc'[t] # "send"
        BY <4>2, <4>4 DEF Holders
      <4> QED BY <4>3, <4>4
    <3>3. Turn(c, at[c], sent[c], taken[c] + BUFFER_SIZE, stream[c], shown[c], Holders(c)',
               Running')
      BY <2>1, <2>2, <3>2, <1>3, TurnArrives DEF LinesShown
    <3> QED BY <1>1, <1>3, <2>4, <3>3 DEF InTurn
  <2> QED BY <2>5, <2>6
<1> QED BY <1>4, <1>5, <1>6

(* What is sent to a client that is there is its last line.                *)
LEMMA EchoKeepsInStep ==
  ASSUME IInv, InStep, NEW t \in Threads, Echo(t)
  PROVE  InStep'
<1> SUFFICES ASSUME NEW c \in Whole PROVE LinesShown(c)' /\ InTurn(c, Holders(c), Running)'
  BY DEF InStep
<1>t. TypeOK /\ Serving /\ c \in Clients
  BY EchoClientAssumption DEF IInv
<1> DEFINE s == socket[t]
<1>1. /\ Running /\ pc[t] = "send" /\ s \in Clients /\ Send(s, buffer[t])
      /\ pc' = [pc EXCEPT ![t] = "recv"]
      /\ UNCHANGED <<server, conn, sent, taken, shown, at, screen, socket, buffer>>
  BY <1>t DEF Echo, SendBuffer, Goto, At, Serving, clientVars
<1>2. LinesShown(c)' /\ LinesShown(c) /\ InTurn(c, Holders(c), TRUE)
  BY <1>1 DEF InStep, LinesShown, Sent
<1>3. CASE conn[c] = "closed"
  BY <1>1, <1>2, <1>3 DEF InTurn
<1>4. CASE c # s
  <2>1. stream'[c] = stream[c]
    BY <1>t, <1>1, <1>4 DEF Send, TypeOK
  <2>2. Holders(c)' = Holders(c)
    BY <1>t, <1>1, <1>4, SameHolders DEF ThreadStates
  <2> QED BY <1>1, <1>2, <2>1, <2>2 DEF InTurn, Turn
<1>5. CASE c = s /\ conn[c] # "closed"
  <2>1. Turn(c, at[c], sent[c], taken[c], stream[c], shown[c], Holders(c), TRUE)
    BY <1>2, <1>5 DEF InTurn
  <2>2. stream'[c] = stream[c] \o buffer[t]
    BY <1>t, <1>1, <1>5 DEF Send, CanSend, TypeOK
  <2>3. <<t, buffer[t][1]>> \in Holders(c)
    BY <1>1, <1>5 DEF Holders
  <2>4. Holders(c)' = Holders(c) \ {<<t, buffer[t][1]>>}
    <3>1. \A u \in Threads : pc'[u] = "send" /\ socket'[u] = c
                              <=> pc[u] = "send" /\ socket[u] = c /\ u # t
      BY <1>t, <1>1 DEF TypeOK
    <3> QED BY <1>1, <3>1 DEF Holders
  <2>5. Turn(c, at[c], sent[c], taken[c], stream[c] \o buffer[t], shown[c],
             Holders(c) \ {<<t, buffer[t][1]>>}, Running')
    BY <1>t, <2>1, <2>3, TurnSends DEF TypeOK
  <2> QED BY <1>1, <1>2, <2>2, <2>4, <2>5 DEF InTurn
<1> QED BY <1>3, <1>4, <1>5

(* Whatever two threads on one socket do, and whoever comes, leaves or has *)
(* its records cut: a client whose records arrive whole, and that is to    *)
(* enter a line, has printed the one before, and no reply is left over     *)
(* (client.c:37-49, server.c:19-36).                                       *)
THEOREM RepliesInStep == Spec => []EchoInStep
<1>1. IInv /\ InStep /\ [Next]_vars => InStep'
  <2> SUFFICES ASSUME IInv, InStep, [Next]_vars PROVE InStep'
    OBVIOUS
  <2>1. CASE MainThread
    BY <2>1, MainKeepsInStep
  <2>2. ASSUME NEW t \in Threads, Handler(t) PROVE InStep'
    BY <2>2, OthersKeepInStep, RecvKeepsInStep, EchoKeepsInStep DEF Handler
  <2>3. ASSUME NEW c \in Clients, ClientStep(c), UNCHANGED serverVars PROVE InStep'
    BY <2>3, ClientKeepsInStep
  <2>4. CASE UNCHANGED vars
    BY <2>4, InStepFrame DEF vars, netVars, clientVars, serverVars, Holders, Running
  <2> QED BY <2>1, <2>2, <2>3, <2>4 DEF Next, ServerNext
<1>2. InStep => EchoInStep
  BY DEF InStep, LinesShown, EchoInStep
<1> QED BY InitInStep, Invariance, <1>1, <1>2, PTL DEF Spec

=============================================================================
