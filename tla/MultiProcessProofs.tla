------------------------- MODULE MultiProcessProofs -------------------------
(***************************************************************************)
(* Theorems about MultiProcess for any number of clients, processes,       *)
(* children and lines, any size of records and any way of cutting them:    *)
(* its type invariant, that no client is sent what another one typed, and  *)
(* that it implements the safety part of EchoService.                      *)
(***************************************************************************)
EXTENDS MultiProcess, EchoRecordsProofs

(* Child k has the k-th connection, and none is forked without one.        *)
Forked ==
  /\ parent = "fork" => Len(accepted) > 0 /\ pc[Len(accepted)] = "none"
  /\ \A k \in Children : pc[k] # "none" => k <= Len(accepted)

(* A buffer holds what came over the child's own connection, or nothing    *)
(* yet.                                                                    *)
OwnBuffers ==
  \A k \in Children :
    IF pc[k] = "none" THEN buffer[k] = Uninitialised
                      ELSE OwnBytes(accepted[k], buffer[k])

IInv == TypeOK /\ Forked /\ OwnBuffers /\ OwnStreams

-----------------------------------------------------------------------------
(* The variables of the server alone.                                      *)
ServerTypeOK ==
  /\ server \in {"running", "exited"}
  /\ parent \in ParentStates
  /\ accepted \in Seq(Clients)
  /\ Len(accepted) <= MAX_CLIENTS
  /\ pc \in [Children -> ChildStates]
  /\ buffer \in [Children -> Buffer]

(* TypeOK, in the two parts that steps change separately.                  *)
LEMMA TypeParts == TypeOK <=> EchoTypeOK /\ ServerTypeOK
  BY DEF TypeOK, EchoTypeOK, ServerTypeOK

(* The same of the next state.                                             *)
LEMMA TypePartsNext == (EchoTypeOK /\ ServerTypeOK)' => TypeOK'
  BY DEF TypeOK, EchoTypeOK, ServerTypeOK

(* OnlyOwnText is OwnStreams.                                              *)
LEMMA OwnText == EchoTypeOK => (OwnStreams <=> OnlyOwnText)
<1> SUFFICES ASSUME EchoTypeOK PROVE OwnStreams <=> OnlyOwnText
  OBVIOUS
<1>1. \A c \in Clients : DOMAIN stream[c] = 1 .. Len(stream[c])
  BY DEF EchoTypeOK
<1> QED BY <1>1 DEF OwnStreams, OwnBytes, OnlyOwnText

(* A child that runs has a connection.                                     *)
LEMMA ChildHasConnection ==
  ASSUME IInv, NEW k \in Children, pc[k] # "none"
  PROVE  k \in DOMAIN accepted /\ client_socket(k) \in Clients
<1>1. k \in 1 .. Len(accepted) /\ accepted \in Seq(Clients)
  BY ProcessServerAssumption DEF IInv, TypeOK, Forked, Children
<1> QED BY <1>1 DEF client_socket

(* The initial state is one of the invariant.                              *)
LEMMA InitIInv == Init => IInv
<1> SUFFICES ASSUME Init PROVE IInv
  OBVIOUS
<1> USE DEF Init, NetInit, ClientInit, ServerInit
<1>1. EchoTypeOK
  BY ZeroType DEF EchoTypeOK, ConnStates, SockErrors, Places
<1>2. ServerTypeOK
  BY ProcessServerAssumption, UninitialisedType DEF ServerTypeOK, ParentStates, ChildStates
<1>3. Forked /\ OwnBuffers /\ OwnStreams
  BY DEF Forked, OwnBuffers, OwnStreams, OwnBytes
<1> QED BY <1>1, <1>2, <1>3, TypeParts DEF IInv

-----------------------------------------------------------------------------
(* The clients *)

(* Client threads change neither the children nor what has been sent.      *)
LEMMA ClientKeepsIInv ==
  ASSUME IInv, NEW c \in Clients, ClientStep(c), UNCHANGED serverVars
  PROVE  IInv'
<1>1. EchoTypeOK
  BY TypeParts DEF IInv
<1>2. EchoTypeOK' /\ UNCHANGED <<server, taken, stream>>
  BY <1>1, ConnectTypes, EndProcessTypes, EnterTypes, SendFailsTypes, ReceiveEchoTypes,
     ReceiveNothingTypes DEF ClientStep, ConnectRefused, Exit
<1>3. TypeOK'
  BY <1>1, <1>2, TypeParts, TypePartsNext DEF IInv, ServerTypeOK, serverVars
<1>4. Forked' /\ OwnBuffers'
  BY DEF IInv, Forked, OwnBuffers, serverVars
<1>5. OwnStreams'
  BY <1>2 DEF IInv, OwnStreams
<1> QED BY <1>3, <1>4, <1>5 DEF IInv

-----------------------------------------------------------------------------
(* The parent *)

(* A connection is accepted for the next child, which does not run yet.    *)
LEMMA AcceptKeepsIInv ==
  ASSUME IInv, Accept
  PROVE  IInv'
<1>t. EchoTypeOK /\ ServerTypeOK /\ Forked /\ OwnBuffers /\ OwnStreams
  BY TypeParts DEF IInv
<1>1. /\ Len(accepted) < MAX_CLIENTS
      /\ backlog # << >>
      /\ accepted' = Append(accepted, Head(backlog))
      /\ backlog' = Tail(backlog)
      /\ parent' = "fork"
      /\ UNCHANGED <<server, conn, sent, taken, stream, shown, sockerr, clientVars, pc, buffer>>
  BY DEF Accept, TakeConnection
<1>2. Head(backlog) \in Clients /\ Tail(backlog) \in Seq(Clients)
  BY <1>t, <1>1, HeadTailProperties DEF EchoTypeOK
<1>3. /\ accepted' \in Seq(Clients)
      /\ Len(accepted') = Len(accepted) + 1
      /\ \A k \in 1 .. Len(accepted) : accepted'[k] = accepted[k]
  BY <1>t, <1>1, <1>2 DEF ServerTypeOK
<1>4. Len(accepted) \in Nat /\ MAX_CLIENTS \in Nat
  BY <1>t, ProcessServerAssumption DEF ServerTypeOK
<1>5. Len(accepted') \in Children /\ pc[Len(accepted')] = "none"
  BY <1>t, <1>1, <1>3, <1>4 DEF Forked, Children
<1>6. EchoTypeOK' /\ OwnStreams'
  BY <1>t, <1>1, <1>2 DEF EchoTypeOK, clientVars, OwnStreams
<1>7. ServerTypeOK'
  BY <1>t, <1>1, <1>3, <1>4 DEF ServerTypeOK, ParentStates
<1>8. Forked'
  BY <1>t, <1>1, <1>3, <1>4, <1>5 DEF Forked, Children
<1>9. OwnBuffers'
  <2> SUFFICES ASSUME NEW k \in Children, pc[k] # "none"
               PROVE  OwnBytes(accepted'[k], buffer[k])
    BY <1>t, <1>1 DEF OwnBuffers
  <2>1. k \in 1 .. Len(accepted)
    BY <1>t, <1>4 DEF Forked, Children
  <2> QED BY <1>t, <1>3, <2>1 DEF OwnBuffers
<1> QED BY <1>6, <1>7, <1>8, <1>9, TypePartsNext DEF IInv

(* A child starts with a buffer nothing has been received into.            *)
LEMMA ForkKeepsIInv ==
  ASSUME IInv, Fork
  PROVE  IInv'
<1>t. EchoTypeOK /\ ServerTypeOK /\ Forked /\ OwnBuffers /\ OwnStreams
  BY TypeParts DEF IInv
<1> DEFINE n == Len(accepted)
<1>1. /\ pc' = [pc EXCEPT ![n] = "recv"]
      /\ parent' = "accept"
      /\ UNCHANGED <<netVars, clientVars, accepted, buffer>>
  BY DEF Fork, Goto
<1>2. n \in Children /\ pc[n] = "none" /\ n \in Nat
  BY <1>t, ProcessServerAssumption DEF Fork, Forked, ServerTypeOK, Children
<1>3. EchoTypeOK' /\ OwnStreams'
  BY <1>t, <1>1 DEF EchoTypeOK, netVars, clientVars, OwnStreams
<1>4. ServerTypeOK'
  BY <1>t, <1>1, <1>2 DEF ServerTypeOK, ParentStates, ChildStates, netVars
<1>5. Forked'
  BY <1>t, <1>1, <1>2 DEF Forked, ServerTypeOK
<1>6. OwnBuffers'
  BY <1>t, <1>1, <1>2, UninitialisedType DEF OwnBuffers, ServerTypeOK
<1> QED BY <1>3, <1>4, <1>5, <1>6, TypePartsNext DEF IInv

(* fork() fails, or the parent ends: the children go on as they are.       *)
LEMMA ParentLeavesKeepsIInv ==
  ASSUME IInv, ForkFails \/ ParentEnds
  PROVE  IInv'
<1>1. /\ parent' \in {"accept", "exited"}
      /\ server' \in {server, "exited"}
      /\ UNCHANGED <<conn, backlog, sent, taken, stream, shown, sockerr, clientVars,
                     accepted, pc, buffer>>
  BY DEF ForkFails, ParentEnds, ServerWith, netVars
<1> QED BY <1>1 DEF IInv, TypeOK, Forked, OwnBuffers, OwnStreams, ParentStates, clientVars

-----------------------------------------------------------------------------
(* The children *)

(* Whether it goes on to send, ends or crashes, a child has received bytes *)
(* of its own client.                                                      *)
LEMMA RecvKeepsIInv ==
  ASSUME IInv, NEW k \in Children, Recv(k)
  PROVE  IInv'
<1>t. EchoTypeOK /\ ServerTypeOK /\ Forked /\ OwnBuffers /\ OwnStreams
  BY TypeParts DEF IInv
<1> DEFINE s == client_socket(k)
<1>1. pc[k] = "recv"
  BY DEF Recv
<1>2. s \in Clients /\ OwnBytes(s, buffer[k]) /\ buffer[k] \in Buffer
  BY <1>t, <1>1, ChildHasConnection DEF OwnBuffers, ServerTypeOK, client_socket
<1>3. PICK run \in Arrived(s, BUFFER_SIZE), place \in {"send", "exited", "crashed"} :
        /\ taken' = [taken EXCEPT ![s] = run.hi]
        /\ buffer' = [buffer EXCEPT ![k] = Filled(@, run)]
        /\ pc' = [pc EXCEPT ![k] = place]
        /\ server' \in {server, "exited"}
        /\ UNCHANGED <<conn, backlog, sent, stream, shown, clientVars, parent, accepted>>
  BY DEF Recv, Goto, ChildEnds, ServerWith
<1>4. UNCHANGED sockerr
  BY DEF Recv
<1>5. run.hi \in Nat
  BY <1>t, <1>2, <1>3, ArrivedRun
<1>6. Filled(buffer[k], run) \in Buffer /\ OwnBytes(s, Filled(buffer[k], run))
  BY <1>t, <1>2, <1>3, FilledOwn
<1>7. EchoTypeOK' /\ OwnStreams'
  BY <1>t, <1>3, <1>4, <1>5 DEF EchoTypeOK, OwnStreams, clientVars
<1>8. ServerTypeOK'
  BY <1>t, <1>3, <1>6 DEF ServerTypeOK, ChildStates
<1>9. Forked'
  BY <1>t, <1>1, <1>3 DEF Forked, ServerTypeOK
<1>10. OwnBuffers'
  BY <1>t, <1>1, <1>3, <1>6 DEF OwnBuffers, ServerTypeOK, client_socket
<1> QED BY <1>7, <1>8, <1>9, <1>10, TypePartsNext DEF IInv

(* A child that ends leaves everything else as it is.                      *)
LEMMA ChildEndsKeepsIInv ==
  ASSUME IInv, NEW k \in Children, RecvEnd(k) \/ EchoFails(k)
  PROVE  IInv'
<1>1. pc[k] # "none"
  BY DEF RecvEnd, EndOfStream, EchoFails
<1>2. /\ pc' = [pc EXCEPT ![k] = "exited"]
      /\ server' \in {server, "exited"}
      /\ UNCHANGED <<conn, backlog, sent, taken, stream, shown, sockerr, clientVars,
                     parent, accepted, buffer>>
  BY DEF RecvEnd, EchoFails, ChildEnds, Goto, ServerWith
<1>3. TypeOK'
  BY <1>2 DEF IInv, TypeOK, ChildStates, clientVars
<1>4. Forked' /\ OwnBuffers'
  BY <1>1, <1>2 DEF IInv, TypeOK, Forked, OwnBuffers
<1> QED BY <1>2, <1>3, <1>4 DEF IInv, OwnStreams

(* The buffer goes to the client it came from.                             *)
LEMMA EchoKeepsIInv ==
  ASSUME IInv, NEW k \in Children, Echo(k)
  PROVE  IInv'
<1>t. EchoTypeOK /\ ServerTypeOK /\ Forked /\ OwnBuffers /\ OwnStreams
  BY TypeParts DEF IInv
<1> DEFINE s == client_socket(k)
<1>1. pc[k] = "send" /\ Send(s, buffer[k])
  BY DEF Echo, Sends
<1>2. s \in Clients /\ OwnBytes(s, buffer[k]) /\ buffer[k] \in Buffer
  BY <1>t, <1>1, ChildHasConnection DEF OwnBuffers, ServerTypeOK, client_socket
<1>3. /\ pc' = [pc EXCEPT ![k] = "recv"]
      /\ UNCHANGED <<server, conn, backlog, sent, taken, shown, clientVars, parent,
                     accepted, buffer>>
  BY DEF Echo, Sends, Goto
<1>4. /\ stream' \in [Clients -> Seq(ByteValue)]
      /\ sockerr' \in [Clients -> SockErrors]
      /\ OwnStreams'
  BY <1>t, <1>1, <1>2, SendOwn
<1>5. EchoTypeOK'
  BY <1>t, <1>3, <1>4 DEF EchoTypeOK, clientVars
<1>6. ServerTypeOK'
  BY <1>t, <1>3 DEF ServerTypeOK, ChildStates
<1>7. Forked' /\ OwnBuffers'
  BY <1>t, <1>1, <1>3 DEF Forked, OwnBuffers, ServerTypeOK
<1> QED BY <1>4, <1>5, <1>6, <1>7, TypePartsNext DEF IInv

-----------------------------------------------------------------------------
(* The inductive invariant: the k-th child has the k-th connection, and    *)
(* its buffer and what it has sent are its client's own (server.c:57-115). *)
THEOREM Invariance == Spec => []IInv
<1>1. IInv /\ [Next]_vars => IInv'
  <2> SUFFICES ASSUME IInv, [Next]_vars PROVE IInv'
    OBVIOUS
  <2>1. CASE Parent
    BY <2>1, AcceptKeepsIInv, ForkKeepsIInv, ParentLeavesKeepsIInv DEF Parent
  <2>2. ASSUME NEW k \in Children, Child(k) PROVE IInv'
    BY <2>2, RecvKeepsIInv, ChildEndsKeepsIInv, EchoKeepsIInv DEF Child
  <2>3. ASSUME NEW c \in Clients, ClientStep(c), UNCHANGED serverVars PROVE IInv'
    BY <2>3, ClientKeepsIInv
  <2>4. CASE UNCHANGED vars
    BY <2>4 DEF vars, netVars, clientVars, serverVars, IInv, TypeOK, Forked, OwnBuffers,
                OwnStreams
  <2> QED BY <2>1, <2>2, <2>3, <2>4 DEF Next, ServerNext
<1> QED BY InitIInv, <1>1, PTL DEF Spec

(* Every variable keeps its type, and the parent never accepts more than   *)
(* MAX_CLIENTS connections (server.c:57).                                  *)
THEOREM TypeCorrect == Spec => []TypeOK
  BY Invariance, PTL DEF IInv

(* Whatever the children inherit and whoever crashes, leaves or is served  *)
(* late, a client is sent its own text, zeros, or what the child's stack   *)
(* held (server.c:101-115).                                                *)
THEOREM OwnTextOnly == Spec => []OnlyOwnText
<1>1. IInv => OnlyOwnText
  BY TypeParts, OwnText DEF IInv
<1> QED BY Invariance, <1>1, PTL

-----------------------------------------------------------------------------
(* Connections and processes *)

(* A connection is accepted once, by the parent, for one child.            *)
HandedOnce ==
  /\ \A i, j \in 1 .. Len(accepted) : accepted[i] = accepted[j] => i = j
  /\ \A i, j \in 1 .. Len(backlog) : backlog[i] = backlog[j] => i = j
  /\ \A i \in 1 .. Len(accepted), j \in 1 .. Len(backlog) : accepted[i] # backlog[j]
  /\ \A i \in 1 .. Len(accepted) : conn[accepted[i]] # "none"
  /\ \A j \in 1 .. Len(backlog) : conn[backlog[j]] # "none"

(* When the last process has gone there is none.                           *)
LastHasGone == ~Running => parent = "exited" /\ \A k \in Children : ~Alive(k)

(* Nothing of that yet.                                                    *)
LEMMA InitHanded == Init => HandedOnce /\ LastHasGone
  BY DEF Init, NetInit, ServerInit, HandedOnce, LastHasGone, Running

(* A connection is made, goes from the backlog to the parent, and nowhere  *)
(* else.                                                                   *)
LEMMA StepKeepsHanded ==
  ASSUME IInv, HandedOnce, [Next]_vars
  PROVE  HandedOnce'
<1>t. /\ accepted \in Seq(Clients) /\ backlog \in Seq(Clients)
      /\ conn \in [Clients -> ConnStates]
  BY DEF IInv, TypeOK
<1>1. CASE UNCHANGED <<accepted, backlog>> /\ \A c \in Clients : conn[c] # "none" => conn'[c] # "none"
  <2>1. /\ \A i \in 1 .. Len(accepted) : accepted[i] \in Clients
        /\ \A j \in 1 .. Len(backlog) : backlog[j] \in Clients
    BY <1>t
  <2> QED BY <1>1, <2>1 DEF HandedOnce
<1>2. CASE Accept
  <2>1. /\ backlog # << >> /\ backlog' = Tail(backlog)
        /\ accepted' = Append(accepted, Head(backlog)) /\ conn' = conn
    BY <1>2 DEF Accept, TakeConnection
  <2>2. /\ Len(backlog') = Len(backlog) - 1 /\ Len(backlog) \in Nat /\ Len(backlog) > 0
        /\ Head(backlog) = backlog[1]
        /\ \A j \in 1 .. Len(backlog') : backlog'[j] = backlog[j + 1]
    BY <1>t, <2>1, HeadTailProperties
  <2>3. /\ Len(accepted') = Len(accepted) + 1 /\ Len(accepted) \in Nat
        /\ \A i \in 1 .. Len(accepted') :
             accepted'[i] = IF i <= Len(accepted) THEN accepted[i] ELSE backlog[1]
    BY <1>t, <2>1, <2>2, AppendProperties
  <2>4. \A i \in 1 .. Len(accepted) : accepted[i] # backlog[1]
    BY <2>2 DEF HandedOnce
  <2>5. \A i, j \in 1 .. Len(accepted') : accepted'[i] = accepted'[j] => i = j
    BY <2>3, <2>4 DEF HandedOnce
  <2>6. \A i, j \in 1 .. Len(backlog') : backlog'[i] = backlog'[j] => i = j
    BY <2>2 DEF HandedOnce
  <2>7. \A j \in 1 .. Len(backlog') : backlog'[j] # backlog[1] /\ conn'[backlog'[j]] # "none"
    BY <2>1, <2>2 DEF HandedOnce
  <2>8. \A i \in 1 .. Len(accepted'), j \in 1 .. Len(backlog') : accepted'[i] # backlog'[j]
    BY <2>2, <2>3, <2>7 DEF HandedOnce
  <2>9. \A i \in 1 .. Len(accepted') : conn'[accepted'[i]] # "none"
    BY <2>1, <2>2, <2>3 DEF HandedOnce
  <2> QED BY <2>5, <2>6, <2>7, <2>8, <2>9 DEF HandedOnce
<1>3. ASSUME NEW c \in Clients, Connect(c), UNCHANGED serverVars PROVE HandedOnce'
  <2>1. /\ conn[c] = "none" /\ conn' = [conn EXCEPT ![c] = "open"]
        /\ backlog' = Append(backlog, c) /\ accepted' = accepted
    BY <1>3 DEF Connect, Establish, serverVars
  <2>2. /\ Len(backlog') = Len(backlog) + 1 /\ Len(backlog) \in Nat
        /\ \A j \in 1 .. Len(backlog') : backlog'[j] = IF j <= Len(backlog) THEN backlog[j] ELSE c
    BY <1>t, <2>1, AppendProperties
  <2>3. /\ \A j \in 1 .. Len(backlog) : backlog[j] # c
        /\ \A i \in 1 .. Len(accepted) : accepted[i] # c
    BY <2>1 DEF HandedOnce
  <2>4. \A d \in Clients : conn[d] # "none" \/ d = c => conn'[d] # "none"
    BY <1>t, <2>1
  <2>5. \A i, j \in 1 .. Len(backlog') : backlog'[i] = backlog'[j] => i = j
    BY <2>2, <2>3 DEF HandedOnce
  <2>6. \A i \in 1 .. Len(accepted'), j \in 1 .. Len(backlog') : accepted'[i] # backlog'[j]
    BY <2>1, <2>2, <2>3 DEF HandedOnce
  <2>7. \A j \in 1 .. Len(backlog') : conn'[backlog'[j]] # "none"
    BY <1>t, <2>2, <2>4 DEF HandedOnce
  <2>8. \A i \in 1 .. Len(accepted') : conn'[accepted'[i]] # "none"
    BY <1>t, <2>1, <2>4 DEF HandedOnce
  <2> QED BY <2>1, <2>5, <2>6, <2>7, <2>8 DEF HandedOnce
<1>4. ASSUME NEW c \in Clients, ClientStep(c), ~Connect(c), UNCHANGED serverVars PROVE HandedOnce'
  <2>1. UNCHANGED <<accepted, backlog>>
    BY <1>4 DEF ClientStep, ConnectRefused, EndProcess, EnterMessage, EnterExit, EnterLine, Exit,
                SendFails, ReceiveEcho, ReceiveNothing, Prints, netVars, serverVars
  <2>2. \A d \in Clients : conn[d] # "none" => conn'[d] # "none"
    BY <1>4 DEF ClientStep, ConnectRefused, EndProcess, CloseEnds, EnterMessage, EnterExit,
                EnterLine, Exit, SendFails, ReceiveEcho, ReceiveNothing, Prints, netVars
  <2> QED BY <1>1, <2>1, <2>2
<1>5. CASE ServerNext /\ ~Accept
  <2>1. UNCHANGED <<accepted, backlog, conn>>
    BY <1>5 DEF ServerNext, Parent, Fork, ForkFails, ParentEnds, Child, Recv, RecvEnd, Echo,
                Sends, EchoFails, ChildEnds, netVars
  <2> QED BY <1>1, <2>1
<1>6. CASE UNCHANGED vars
  BY <1>1, <1>6 DEF vars, netVars, serverVars
<1> QED BY <1>2, <1>3, <1>4, <1>5, <1>6 DEF Next

(* The listening socket goes with the last process, and no process comes   *)
(* when there is no parent.                                                *)
LEMMA StepKeepsLast ==
  ASSUME IInv, LastHasGone, [Next]_vars
  PROVE  LastHasGone'
<1>t. pc \in [Children -> ChildStates] /\ Forked
  BY DEF IInv, TypeOK
<1>1. CASE UNCHANGED <<server, parent, pc>>
  BY <1>1 DEF LastHasGone, Running, Alive
<1>2. CASE Accept \/ Fork \/ ForkFails
  <2>1. Running /\ server' = server
    BY <1>2 DEF Accept, TakeConnection, Fork, ForkFails, LastHasGone, netVars
  <2> QED BY <2>1 DEF LastHasGone, Running
<1>3. CASE ParentEnds
  BY <1>3 DEF ParentEnds, ServerWith, LastHasGone, Running, Alive
<1>4. ASSUME NEW k \in Children, NEW state, state \notin {"recv", "send"}, ChildEnds(k, state)
      PROVE  LastHasGone'
  <2>1. parent' = parent /\ server' = ServerWith(parent, pc')
        /\ pc' = [pc EXCEPT ![k] = state]
    BY <1>4 DEF ChildEnds, Goto
  <2>2. \A j \in Children : Alive(j)' => Alive(j)
    BY <1>t, <1>4, <2>1 DEF Alive
  <2>3. CASE Running
    BY <2>1, <2>3 DEF ServerWith, LastHasGone, Running, Alive
  <2>4. CASE ~Running
    BY <2>1, <2>2, <2>4 DEF LastHasGone
  <2> QED BY <2>3, <2>4
<1>5. ASSUME NEW k \in Children, Alive(k), UNCHANGED server PROVE LastHasGone'
  <2>1. Running
    BY <1>5 DEF LastHasGone
  <2> QED BY <1>5, <2>1 DEF LastHasGone, Running
<1>6. ASSUME NEW k \in Children, Child(k) PROVE LastHasGone'
  <2>1. Alive(k)
    BY <1>6 DEF Child, Recv, RecvEnd, EndOfStream, Echo, Sends, EchoFails, Alive
  <2>2. \/ UNCHANGED server
        \/ \E state \in {"exited", "crashed"} : ChildEnds(k, state)
    BY <1>6 DEF Child, Recv, RecvEnd, Echo, Sends, EchoFails
  <2> QED BY <1>4, <1>5, <2>1, <2>2
<1>7. ASSUME NEW c \in Clients, ClientStep(c), UNCHANGED serverVars PROVE LastHasGone'
  <2>1. UNCHANGED server
    BY <1>7 DEF ClientStep, Connect, ConnectRefused, EndProcess, EnterMessage, EnterExit,
                EnterLine, Exit, SendFails, ReceiveEcho, ReceiveNothing, Prints, netVars
  <2> QED BY <1>1, <1>7, <2>1 DEF serverVars
<1>8. CASE UNCHANGED vars
  BY <1>1, <1>8 DEF vars, netVars, serverVars
<1> QED BY <1>2, <1>3, <1>6, <1>7, <1>8 DEF Next, ServerNext, Parent

(* Once the server's end of a connection is closed it stays so.            *)
LEMMA HungupStays ==
  ASSUME IInv, [Next]_vars, NEW c, Hungup(c)
  PROVE  Hungup(c)'
<1>t. /\ accepted \in Seq(Clients) /\ pc \in [Children -> ChildStates]
      /\ server \in {"running", "exited"}
  BY DEF IInv, TypeOK
<1>1. \A k \in DOMAIN accepted : k \in DOMAIN accepted' /\ accepted'[k] = accepted[k]
  <2>1. CASE Accept
    <3>1. accepted' = Append(accepted, Head(backlog)) /\ Head(backlog) \in Clients
      BY <2>1, HeadTailProperties DEF Accept, TakeConnection, IInv, TypeOK
    <3> QED BY <1>t, <3>1, AppendProperties
  <2>2. CASE ~Accept
    BY <2>2 DEF Next, ServerNext, Parent, Fork, ForkFails, ParentEnds, Child, Recv, RecvEnd,
                Echo, Sends, EchoFails, ChildEnds, serverVars, vars
  <2> QED BY <2>1, <2>2
<1>2. ~Running => ~Running'
  BY <1>t DEF Running, Next, ServerNext, Parent, Accept, TakeConnection, Fork, ForkFails,
              ParentEnds, ServerWith, Child, Recv, RecvEnd, Echo, Sends, EchoFails, ChildEnds,
              ClientStep, Connect, ConnectRefused, EndProcess, EnterMessage, EnterExit,
              EnterLine, Exit, SendFails, ReceiveEcho, ReceiveNothing, Prints, netVars, vars
<1>3. parent = "exited" => parent' = "exited" /\ \A k \in Children : Alive(k)' => Alive(k)
  <2> SUFFICES ASSUME parent = "exited"
               PROVE  parent' = "exited" /\ \A k \in Children : Alive(k)' => Alive(k)
    OBVIOUS
  <2>1. CASE Parent
    BY <2>1 DEF Parent, Accept, TakeConnection, Fork, ForkFails, ParentEnds
  <2>2. ASSUME NEW k \in Children, Child(k)
        PROVE  parent' = "exited" /\ \A j \in Children : Alive(j)' => Alive(j)
    <3>1. Alive(k) /\ UNCHANGED parent
      BY <2>2 DEF Child, Recv, RecvEnd, EndOfStream, Echo, Sends, EchoFails, ChildEnds, Alive
    <3>2. \E state : pc' = [pc EXCEPT ![k] = state]
      BY <2>2 DEF Child, Recv, RecvEnd, Echo, EchoFails, ChildEnds, Goto
    <3>3. \A j \in Children : j # k => pc'[j] = pc[j]
      BY <1>t, <3>2
    <3> QED BY <3>1, <3>3 DEF Alive
  <2>3. CASE UNCHANGED serverVars
    BY <2>3 DEF serverVars, Alive
  <2> QED BY <2>1, <2>2, <2>3 DEF Next, ServerNext, vars
<1>4. \A k \in DOMAIN accepted : ~Held(k) => ~Held(k)'
  <2> SUFFICES ASSUME NEW k \in DOMAIN accepted, ~Held(k) PROVE ~Held(k)'
    OBVIOUS
  <2>1. k \in Nat \ {0}
    BY <1>t
  <2>2. \A j \in k .. MAX_CLIENTS : j \in Children
    BY <2>1, ProcessServerAssumption DEF Children
  <2> QED BY <1>3, <2>2 DEF Held
<1> QED BY <1>1, <1>2, <1>4 DEF Hungup

(* A child that runs holds the connection of its client open.              *)
LEMMA ServedIsHeld ==
  ASSUME IInv, HandedOnce, LastHasGone, NEW k \in Children, Alive(k)
  PROVE  ~Hungup(client_socket(k))
<1>1. k \in DOMAIN accepted /\ DOMAIN accepted = 1 .. Len(accepted)
  BY ChildHasConnection DEF Alive, IInv, TypeOK
<1>2. Running
  BY DEF LastHasGone
<1>3. \A i \in DOMAIN accepted : accepted[i] = accepted[k] => i = k
  BY <1>1 DEF HandedOnce
<1>4. Held(k)
  BY ProcessServerAssumption DEF Held, Children
<1> QED BY <1>1, <1>2, <1>3, <1>4 DEF Hungup, client_socket

-----------------------------------------------------------------------------
(* Clients whose records are whole *)

(* The first bytes of what is to be sent to c, each with its child.        *)
Holders(c) ==
  {<<k, buffer[k][1]>> : k \in {j \in Children : pc[j] = "send" /\ accepted[j] = c}}

(* The last line of such a client is in one place as long as the server's  *)
(* end is open.                                                            *)
InStep ==
  \A c \in Whole : LinesShown(c) /\ InTurn(c, Holders(c), ~Hungup(c))

(* The initial state is one of those.                                      *)
LEMMA InitInStep == Init => InStep
<1> SUFFICES ASSUME Init, NEW c \in Whole
             PROVE  LinesShown(c) /\ InTurn(c, Holders(c), ~Hungup(c))
  BY DEF InStep
<1>1. c \in Clients /\ BUFFER_SIZE \in Nat /\ BUFFER_SIZE > 1
  BY EchoClientAssumption
<1>2. sent[c] = 0 /\ taken[c] = 0 /\ stream[c] = << >> /\ shown[c] = 0 /\ Holders(c) = {}
  BY <1>1 DEF Init, NetInit, ServerInit, Holders
<1>3. LinesShown(c)
  <2>1. 0 % BUFFER_SIZE = 0
    BY <1>1
  <2> QED BY <1>2, <2>1 DEF LinesShown
<1> QED BY <1>2, <1>3 DEF InTurn, Turn, OnePlace, Shown

(* What is known of c when nothing was received from it or sent to it.     *)
LEMMA InStepFrame ==
  ASSUME InStep, NEW c \in Whole, Hungup(c) => Hungup(c)',
         UNCHANGED <<conn, sent, shown, at, screen>>, taken'[c] = taken[c], stream'[c] = stream[c],
         Holders(c)' \subseteq Holders(c)
  PROVE  LinesShown(c)' /\ InTurn(c, Holders(c), ~Hungup(c))'
<1>1. LinesShown(c)'
  BY DEF InStep, LinesShown, Sent
<1>2. ASSUME conn'[c] # "closed"
      PROVE  Turn(c, at'[c], sent'[c], taken'[c], stream'[c], shown'[c], Holders(c)', ~Hungup(c)')
  <2>1. Turn(c, at[c], sent[c], taken[c], stream[c], shown[c], Holders(c), ~Hungup(c))
    BY <1>2 DEF InStep, InTurn
  <2>2. Turn(c, at[c], sent[c], taken[c], stream[c], shown[c], Holders(c)', ~Hungup(c)')
    BY <2>1, TurnDrops
  <2> QED BY <2>2
<1> QED BY <1>1, <1>2 DEF InTurn

(* Clients type, are shown what was sent to them, or that nothing will be, *)
(* and leave.                                                              *)
LEMMA ClientKeepsInStep ==
  ASSUME IInv, InStep, NEW d \in Clients, ClientStep(d), UNCHANGED serverVars
  PROVE  InStep'
<1> SUFFICES ASSUME NEW c \in Whole PROVE LinesShown(c)' /\ InTurn(c, Holders(c), ~Hungup(c))'
  BY DEF InStep
<1>1. EchoTypeOK
  BY TypeParts DEF IInv
<1>2. UNCHANGED <<server, taken, stream>>
  BY <1>1, ConnectTypes, EndProcessTypes, EnterTypes, SendFailsTypes, ReceiveEchoTypes,
     ReceiveNothingTypes DEF ClientStep, ConnectRefused, Exit
<1>3. Holders(c)' = Holders(c) /\ Hungup(c)' = Hungup(c)
  BY <1>2 DEF Holders, serverVars, Running, Hungup, Held, Alive
<1> DEFINE gone == Hungup(d)
           served == ~Hungup(c)
           H == Holders(c)
<1>4. LinesShown(c) /\ InTurn(c, H, served) /\ (d = c /\ gone => ~served)
  BY DEF InStep
<1>5. \/ Connect(d) \/ EndProcess(d) \/ EnterMessage(d) \/ EnterExit(d)
      \/ SendFails(d, gone) \/ ReceiveEcho(d) \/ ReceiveNothing(d, gone)
  BY DEF ClientStep, ConnectRefused, Exit
<1> HIDE DEF gone, served, H
<1>6. /\ LinesShown(c)'
      /\ conn'[c] # "closed" =>
           Turn(c, at'[c], sent'[c], taken'[c], stream'[c], shown'[c], H, served)
  BY <1>1, <1>4, <1>5, ClientsKeepTurn
<1> USE DEF served, H
<1> QED BY <1>3, <1>6 DEF InTurn

(* The parent forks children that have nothing to send yet.                *)
LEMMA ParentKeepsInStep ==
  ASSUME IInv, InStep, Parent
  PROVE  InStep'
<1> SUFFICES ASSUME NEW c \in Whole PROVE LinesShown(c)' /\ InTurn(c, Holders(c), ~Hungup(c))'
  BY DEF InStep
<1>t. /\ accepted \in Seq(Clients) /\ pc \in [Children -> ChildStates]
      /\ MAX_CLIENTS \in Nat /\ Forked /\ backlog \in Seq(Clients)
  BY ProcessServerAssumption DEF IInv, TypeOK
<1>1. UNCHANGED <<conn, sent, taken, stream, shown, at, screen, buffer>>
  BY DEF Parent, Accept, TakeConnection, Fork, ForkFails, ParentEnds, netVars, clientVars
<1>2. Hungup(c) => Hungup(c)'
  BY HungupStays DEF Next, ServerNext
<1>3. \A k \in Children : pc'[k] = "send" => pc[k] = "send" /\ accepted'[k] = accepted[k]
  <2> SUFFICES ASSUME NEW k \in Children, pc'[k] = "send"
               PROVE  pc[k] = "send" /\ accepted'[k] = accepted[k]
    OBVIOUS
  <2>1. CASE Accept
    <3>1. /\ pc' = pc /\ accepted' = Append(accepted, Head(backlog))
          /\ Head(backlog) \in Clients
      BY <1>t, <2>1, HeadTailProperties DEF Accept, TakeConnection
    <3>2. k \in 1 .. Len(accepted)
      BY <1>t, <3>1 DEF Forked, Children
    <3> QED BY <1>t, <3>1, <3>2, AppendProperties
  <2>2. CASE Fork
    BY <1>t, <2>2 DEF Fork, Goto
  <2>3. CASE ForkFails \/ ParentEnds
    BY <2>3 DEF ForkFails, ParentEnds
  <2> QED BY <2>1, <2>2, <2>3 DEF Parent
<1>4. Holders(c)' \subseteq Holders(c)
  BY <1>1, <1>3 DEF Holders
<1> QED BY <1>1, <1>2, <1>4, InStepFrame

(* A child that ends sends nothing any more.                               *)
LEMMA ChildEndsKeepsInStep ==
  ASSUME IInv, InStep, NEW k \in Children, RecvEnd(k) \/ EchoFails(k)
  PROVE  InStep'
<1> SUFFICES ASSUME NEW c \in Whole PROVE LinesShown(c)' /\ InTurn(c, Holders(c), ~Hungup(c))'
  BY DEF InStep
<1>1. /\ pc' = [pc EXCEPT ![k] = "exited"] /\ pc \in [Children -> ChildStates]
      /\ UNCHANGED <<conn, sent, taken, stream, shown, at, screen, accepted, buffer>>
  BY DEF RecvEnd, EchoFails, ChildEnds, Goto, clientVars, IInv, TypeOK
<1>2. Hungup(c) => Hungup(c)'
  BY HungupStays DEF Next, ServerNext, Child
<1>3. \A j \in Children : pc'[j] = "send" => pc[j] = "send"
  BY <1>1
<1>4. Holders(c)' \subseteq Holders(c)
  BY <1>1, <1>3 DEF Holders
<1> QED BY <1>1, <1>2, <1>4, InStepFrame

(* What recv() returns is the last line of a client that waits for it,     *)
(* whether the child sends it back, ends or crashes.                       *)
LEMMA RecvKeepsInStep ==
  ASSUME IInv, HandedOnce, LastHasGone, InStep, NEW k \in Children, Recv(k)
  PROVE  InStep'
<1> SUFFICES ASSUME NEW c \in Whole PROVE LinesShown(c)' /\ InTurn(c, Holders(c), ~Hungup(c))'
  BY DEF InStep
<1>t. TypeOK /\ c \in Clients
  BY EchoClientAssumption DEF IInv
<1> DEFINE s == client_socket(k)
<1>1. /\ pc[k] = "recv" /\ s \in Clients /\ s = accepted[k]
      /\ UNCHANGED <<conn, sent, stream, shown, at, screen, accepted>>
  BY ChildHasConnection DEF Recv, ChildEnds, clientVars, client_socket
<1>2. PICK run \in Arrived(s, BUFFER_SIZE), place \in {"send", "exited", "crashed"} :
        /\ s \in Whole => Size(run) = BUFFER_SIZE
        /\ taken' = [taken EXCEPT ![s] = run.hi]
        /\ buffer' = [buffer EXCEPT ![k] = Filled(@, run)]
        /\ pc' = [pc EXCEPT ![k] = place]
  BY DEF Recv, Goto, ChildEnds
<1>3. LinesShown(c)' /\ LinesShown(c) /\ InTurn(c, Holders(c), ~Hungup(c))
  BY <1>1 DEF InStep, LinesShown, Sent
<1>4. \A j \in Children : j # k => pc'[j] = pc[j] /\ buffer'[j] = buffer[j]
  BY <1>t, <1>2 DEF TypeOK
<1>5. CASE conn[c] = "closed"
  BY <1>1, <1>3, <1>5 DEF InTurn
<1>6. CASE c # s
  <2>1. taken'[c] = taken[c]
    BY <1>t, <1>2, <1>6 DEF TypeOK
  <2>2. Hungup(c) => Hungup(c)'
    BY HungupStays DEF Next, ServerNext, Child
  <2>3. Holders(c)' \subseteq Holders(c)
    <3>1. \A j \in Children : pc'[j] = "send" /\ accepted'[j] = c =>
            pc[j] = "send" /\ accepted[j] = c /\ buffer'[j] = buffer[j]
      BY <1>1, <1>4, <1>6
    <3> QED BY <3>1 DEF Holders
  <2> QED BY <1>1, <2>1, <2>2, <2>3, InStepFrame
<1>7. CASE c = s /\ conn[c] # "closed"
  <2>1. Turn(c, at[c], sent[c], taken[c], stream[c], shown[c], Holders(c), TRUE)
    <3>1. ~Hungup(c)
      BY <1>1, <1>7, ServedIsHeld DEF Alive
    <3> QED BY <1>3, <1>7, <3>1 DEF InTurn, Turn
  <2>2. /\ run.from = c /\ run.lo = taken[c] + 1 /\ run.hi = taken[c] + BUFFER_SIZE
        /\ taken[c] + BUFFER_SIZE <= sent[c] /\ taken[c] \in Nat /\ sent[c] \in Nat
        /\ Size(run) = BUFFER_SIZE
    BY <1>t, <1>2, <1>7, TypeParts, WholeRun
  <2>3. buffer'[k][1] = Byte(c, taken[c] + 1)
    <3>1. buffer'[k] = Filled(buffer[k], run)
      BY <1>t, <1>2 DEF TypeOK
    <3>2. Size(run) \in Nat \ {0} /\ run.lo + 1 - 1 = taken[c] + 1
      BY <2>2, BufferSize
    <3> QED BY <2>2, <3>1, <3>2, FilledFirst
  <2>4. taken'[c] = taken[c] + BUFFER_SIZE
    BY <1>t, <1>2, <1>7, <2>2 DEF TypeOK
  <2>5. CASE at[c] \notin {"enter", "reply"}
    BY <1>1, <1>3, <2>5 DEF InTurn, Turn
  <2>6. CASE at[c] \in {"enter", "reply"}
    <3>1. Holders(c) = {}
      <4>1. {} = {} \/ {} = {<<k, Byte(c, taken[c] + 1)>>}
        OBVIOUS
      <4> QED BY <2>1, <2>2, <2>6, <4>1, <1>3, TurnArrives DEF LinesShown
    <3>2. Holders(c)' = {} \/ Holders(c)' = {<<k, Byte(c, taken[c] + 1)>>}
      <4>1. \A j \in Children : pc[j] = "send" => accepted[j] # c
        BY <3>1 DEF Holders
      <4>2. \A j \in Children : pc'[j] = "send" /\ accepted'[j] = c => j = k
        BY <1>1, <1>4, <4>1
      <4>3. CASE pc'[k] = "send"
        <5>1. \A j \in Children : pc'[j] = "send" /\ accepted'[j] = c <=> j = k
          BY <1>1, <1>7, <4>2, <4>3
        <5> QED BY <2>3, <5>1 DEF Holders
      <4>4. CASE pc'[k] # "send"
        BY <4>2, <4>4 DEF Holders
      <4> QED BY <4>3, <4>4
    <3>3. Turn(c, at[c], sent[c], taken[c] + BUFFER_SIZE, stream[c], shown[c], Holders(c)',
               ~Hungup(c)')
      BY <2>1, <2>2, <3>2, <1>3, TurnArrives DEF LinesShown
    <3> QED BY <1>1, <1>3, <2>4, <3>3 DEF InTurn
  <2> QED BY <2>5, <2>6
<1> QED BY <1>5, <1>6, <1>7

(* What is sent to a client that is there is its last line.                *)
LEMMA EchoKeepsInStep ==
  ASSUME IInv, HandedOnce, LastHasGone, InStep, NEW k \in Children, Echo(k)
  PROVE  InStep'
<1> SUFFICES ASSUME NEW c \in Whole PROVE LinesShown(c)' /\ InTurn(c, Holders(c), ~Hungup(c))'
  BY DEF InStep
<1>t. TypeOK /\ c \in Clients
  BY EchoClientAssumption DEF IInv
<1> DEFINE s == client_socket(k)
<1>1. /\ pc[k] = "send" /\ s \in Clients /\ s = accepted[k] /\ Send(s, buffer[k])
      /\ pc' = [pc EXCEPT ![k] = "recv"]
      /\ UNCHANGED <<conn, sent, taken, shown, at, screen, accepted, buffer>>
  BY ChildHasConnection DEF Echo, Sends, Goto, clientVars, client_socket
<1>2. LinesShown(c)' /\ LinesShown(c) /\ InTurn(c, Holders(c), ~Hungup(c))
  BY <1>1 DEF InStep, LinesShown, Sent
<1>3. \A j \in Children : pc'[j] = IF j = k THEN "recv" ELSE pc[j]
  BY <1>t, <1>1 DEF TypeOK
<1>4. CASE conn[c] = "closed"
  BY <1>1, <1>2, <1>4 DEF InTurn
<1>5. CASE c # s
  <2>1. stream'[c] = stream[c]
    BY <1>t, <1>1, <1>5 DEF Send, TypeOK
  <2>2. Hungup(c) => Hungup(c)'
    BY HungupStays DEF Next, ServerNext, Child
  <2>3. Holders(c)' \subseteq Holders(c)
    BY <1>1, <1>3, <1>5 DEF Holders
  <2> QED BY <1>1, <2>1, <2>2, <2>3, InStepFrame
<1>6. CASE c = s /\ conn[c] # "closed"
  <2>1. Turn(c, at[c], sent[c], taken[c], stream[c], shown[c], Holders(c), TRUE)
    <3>1. ~Hungup(c)
      BY <1>1, <1>6, ServedIsHeld DEF Alive
    <3> QED BY <1>2, <1>6, <3>1 DEF InTurn, Turn
  <2>2. stream'[c] = stream[c] \o buffer[k]
    BY <1>t, <1>1, <1>6 DEF Send, CanSend, TypeOK
  <2>3. <<k, buffer[k][1]>> \in Holders(c)
    BY <1>1, <1>6 DEF Holders
  <2>4. Holders(c)' = Holders(c) \ {<<k, buffer[k][1]>>}
    BY <1>1, <1>3 DEF Holders
  <2>5. Turn(c, at[c], sent[c], taken[c], stream[c] \o buffer[k], shown[c],
             Holders(c) \ {<<k, buffer[k][1]>>}, ~Hungup(c)')
    BY <1>t, <2>1, <2>3, TurnSends DEF TypeOK
  <2> QED BY <1>1, <1>2, <2>2, <2>4, <2>5 DEF InTurn
<1> QED BY <1>4, <1>5, <1>6

(* Nobody's line is lost, doubled or mixed up while its child runs.        *)
LEMMA StepKeepsInStep ==
  ASSUME IInv, HandedOnce, LastHasGone, InStep, [Next]_vars
  PROVE  InStep'
<1>1. CASE Parent
  BY <1>1, ParentKeepsInStep
<1>2. ASSUME NEW k \in Children, Child(k) PROVE InStep'
  BY <1>2, RecvKeepsInStep, ChildEndsKeepsInStep, EchoKeepsInStep DEF Child
<1>3. ASSUME NEW c \in Clients, ClientStep(c), UNCHANGED serverVars PROVE InStep'
  BY <1>3, ClientKeepsInStep
<1>4. CASE UNCHANGED vars
  <2> SUFFICES ASSUME NEW c \in Whole PROVE LinesShown(c)' /\ InTurn(c, Holders(c), ~Hungup(c))'
    BY DEF InStep
  <2>1. Hungup(c) => Hungup(c)'
    BY HungupStays
  <2>2. Holders(c)' \subseteq Holders(c)
    BY <1>4 DEF vars, serverVars, Holders
  <2> QED BY <1>4, <2>1, <2>2, InStepFrame DEF vars, netVars, clientVars
<1> QED BY <1>1, <1>2, <1>3, <1>4 DEF Next, ServerNext

-----------------------------------------------------------------------------
(* The refinement *)

(* What Service!owed[c] is.                                                *)
Owed(c) == conn[c] # "closed" /\ ~quit[c] /\ ~Deserted(c)

(* A client that has no child, and will have none, has none later.         *)
LEMMA DesertedStays ==
  ASSUME IInv, [Next]_vars, NEW c, Deserted(c)
  PROVE  Deserted(c)'
<1>t. /\ accepted \in Seq(Clients) /\ pc \in [Children -> ChildStates]
      /\ backlog \in Seq(Clients) /\ Len(accepted) \in Nat
  BY DEF IInv, TypeOK
<1>d. DOMAIN accepted = 1 .. Len(accepted)
  BY <1>t
<1>p. \A k \in DOMAIN accepted : k \in Children
  BY <1>d, ProcessServerAssumption DEF Children, IInv, TypeOK
<1>1. CASE Accept
  <2>1. /\ accepted' = Append(accepted, Head(backlog)) /\ Head(backlog) \in Clients
        /\ parent = "accept" /\ parent' = "fork" /\ pc' = pc
    BY <1>t, <1>1, HeadTailProperties DEF Accept, TakeConnection
  <2>2. /\ Len(accepted') = Len(accepted) + 1 /\ DOMAIN accepted' = 1 .. Len(accepted')
        /\ \A k \in DOMAIN accepted : accepted'[k] = accepted[k]
    BY <1>t, <2>1, AppendProperties
  <2>3. PICK k \in DOMAIN accepted : accepted[k] = c /\ pc[k] \in {"crashed", "none"}
    BY <2>1 DEF Deserted
  <2>4. k \in DOMAIN accepted' /\ k # Len(accepted')
    BY <1>t, <1>d, <2>2
  <2> QED BY <2>1, <2>2, <2>3, <2>4 DEF Deserted
<1>2. CASE Fork
  <2>1. /\ pc' = [pc EXCEPT ![Len(accepted)] = "recv"] /\ parent = "fork"
        /\ parent' = "accept" /\ accepted' = accepted /\ pc[Len(accepted)] = "none"
    BY <1>2 DEF Fork, Goto, IInv, Forked
  <2>2. PICK k \in DOMAIN accepted : /\ accepted[k] = c
                                     /\ pc[k] \in {"crashed", "none"} /\ k # Len(accepted)
    BY <2>1 DEF Deserted
  <2>3. pc'[k] = pc[k]
    BY <1>t, <1>p, <2>1, <2>2
  <2> QED BY <2>1, <2>2, <2>3 DEF Deserted
<1>3. CASE ForkFails \/ ParentEnds
  <2>1. /\ UNCHANGED <<accepted, pc>> /\ parent # "exited" /\ parent' # "fork"
    BY <1>3 DEF ForkFails, ParentEnds
  <2> QED BY <2>1 DEF Deserted
<1>4. ASSUME NEW j \in Children, Child(j) PROVE Deserted(c)'
  <2>1. UNCHANGED <<accepted, parent>> /\ pc[j] \in {"recv", "send"}
    BY <1>4 DEF Child, Recv, RecvEnd, EndOfStream, Echo, Sends, EchoFails, ChildEnds
  <2>2. \E state : pc' = [pc EXCEPT ![j] = state]
    BY <1>4 DEF Child, Recv, RecvEnd, Echo, EchoFails, ChildEnds, Goto
  <2>3. \A k \in Children : pc[k] \in {"crashed", "none"} => pc'[k] = pc[k]
    BY <1>t, <2>1, <2>2
  <2> QED BY <1>p, <2>1, <2>3 DEF Deserted
<1>5. CASE UNCHANGED serverVars
  BY <1>5 DEF serverVars, Deserted
<1> QED BY <1>1, <1>2, <1>3, <1>4, <1>5 DEF Next, ServerNext, Parent, vars

(* Who has left, said goodbye or lost its child is never served again.     *)
LEMMA OwedStays ==
  ASSUME IInv, [Next]_vars, NEW c \in Whole, Owed(c)'
  PROVE  Owed(c)
<1>t. EchoTypeOK /\ c \in Clients
  BY TypeParts, EchoClientAssumption DEF IInv
<1>1. ~Deserted(c)
  BY DesertedStays DEF Owed
<1>2. CASE UNCHANGED <<conn, quit>>
  BY <1>1, <1>2 DEF Owed
<1>3. CASE ServerNext
  <2>1. UNCHANGED <<conn, quit>>
    BY <1>3 DEF ServerNext, Parent, Accept, TakeConnection, Fork, ForkFails, ParentEnds, Child,
                Recv, RecvEnd, Echo, Sends, EchoFails, ChildEnds, netVars, clientVars
  <2> QED BY <1>2, <2>1
<1>4. ASSUME NEW d \in Clients, ClientStep(d) PROVE Owed(c)
  <2>1. (conn[c] = "closed" => conn'[c] = "closed") /\ (quit[c] => quit'[c])
    <3>1. CASE Connect(d)
      BY <1>t, <3>1 DEF Connect, Establish, clientVars, EchoTypeOK
    <3>2. CASE EndProcess(d)
      BY <1>t, <3>2 DEF EndProcess, CloseEnds, clientVars
    <3>3. CASE EnterMessage(d) \/ EnterExit(d)
      BY <1>t, <3>3 DEF EnterMessage, EnterExit, EnterLine, EchoTypeOK
    <3>4. CASE SendFails(d, Hungup(d)) \/ ReceiveEcho(d) \/ ReceiveNothing(d, Hungup(d))
      BY <3>4 DEF SendFails, ReceiveEcho, ReceiveNothing, Prints, netVars
    <3> QED BY <1>4, <3>1, <3>2, <3>3, <3>4 DEF ClientStep, ConnectRefused, Exit
  <2> QED BY <1>1, <2>1 DEF Owed
<1> QED BY <1>2, <1>3, <1>4 DEF Next, vars, netVars, clientVars

(* Of whom the service says nothing new is owed as much as before, or      *)
(* nothing any more.                                                       *)
LEMMA ReleaseStep ==
  ASSUME \A c \in Whole : /\ Sent(c)' = Sent(c) /\ screen'[c] = screen[c]
                          /\ at'[c] = "reply" <=> at[c] = "reply"
                          /\ Owed(c)' => Owed(c)
  PROVE  Service!Release
<1> DEFINE gone == {c \in Whole : ~Owed(c)'}
<1>1. gone \in SUBSET Whole
  OBVIOUS
<1>2. \A c \in Whole : Owed(c)' = (Owed(c) /\ c \notin gone)
  <2> SUFFICES ASSUME NEW c \in Whole PROVE Owed(c)' = (Owed(c) /\ c \notin gone)
    OBVIOUS
  <2>1. Owed(c)' <=> Owed(c) /\ c \notin gone
    OBVIOUS
  <2> HIDE DEF gone
  <2> QED BY <2>1, Zenon DEF Owed
<1>3. [c \in Whole |-> Owed(c)'] = [c \in Whole |-> [d \in Whole |-> Owed(d)][c] /\ c \notin gone]
  BY <1>2, Zenon
<1>4. \A c \in Whole : (at'[c] = "reply") = (at[c] = "reply")
  BY Zenon
<1>5. [c \in Whole |-> at'[c] = "reply"] = [c \in Whole |-> at[c] = "reply"]
  BY <1>4, Zenon
<1> HIDE DEF gone
<1> QED BY <1>1, <1>3, <1>5 DEF Service!Release, Owed

(* Nothing asked, nothing answered, everything owed.                       *)
LEMMA InitService == Init => Service!Init
<1> SUFFICES ASSUME Init PROVE Service!Init
  OBVIOUS
<1>1. \A c \in Whole : c \in Clients /\ c # NoSocket
  BY EchoClientAssumption, SocketsAssumption
<1>2. \A c \in Whole : Sent(c) = 0
  <2>1. 0 \div BUFFER_SIZE = 0
    BY BufferSize
  <2> QED BY <1>1, <2>1 DEF Init, NetInit, Sent
<1>3. \A c \in Whole : screen[c].from # c
  BY <1>1 DEF Init, ClientInit, Zero
<1>4. \A c \in Whole : ~(at[c] = "reply")
  BY <1>1 DEF Init, ClientInit
<1>5. \A c \in Whole : Owed(c)
  <2>1. DOMAIN accepted = {} /\ parent = "accept"
    BY DEF Init, ServerInit
  <2>2. \A c : ~Deserted(c)
    BY <2>1 DEF Deserted
  <2> QED BY <1>1, <2>2 DEF Init, NetInit, ClientInit, Owed
<1>6. [c \in Whole |-> at[c] = "reply"] = [c \in Whole |-> FALSE]
  BY <1>4, Zenon
<1>7. [c \in Whole |-> conn[c] # "closed" /\ ~quit[c] /\ ~Deserted(c)] = [c \in Whole |-> TRUE]
  BY <1>5, Zenon DEF Owed
<1> QED BY <1>2, <1>3, <1>6, <1>7 DEF Service!Init

(* A line that is typed is asked for, but for "exit".                      *)
LEMMA EnterAsks ==
  ASSUME IInv, InStep, NEW d \in Whole, EnterMessage(d) \/ EnterExit(d), UNCHANGED serverVars
  PROVE  Service!Ask(d)
<1>t. EchoTypeOK /\ d \in Clients /\ LinesShown(d) /\ sent[d] \in Nat
  BY TypeParts, EchoClientAssumption DEF IInv, EchoTypeOK, InStep
<1> DEFINE asked == [c \in Whole |-> Sent(c)]
           waits == [c \in Whole |-> at[c] = "reply"]
           owed == [c \in Whole |-> conn[c] # "closed" /\ ~quit[c] /\ ~Deserted(c)]
<1>1. /\ at[d] = "enter" /\ sent' = [sent EXCEPT ![d] = @ + BUFFER_SIZE]
      /\ UNCHANGED <<conn, screen, serverVars>>
  BY DEF EnterMessage, EnterExit, EnterLine, AtPlace, Transmit
<1>2. ~waits[d]
  BY <1>1
<1>3. asked' = [asked EXCEPT ![d] = @ + 1]
  <2>1. sent'[d] = sent[d] + BUFFER_SIZE /\ \A c \in Whole : c # d => sent'[c] = sent[c]
    BY <1>t, <1>1, EchoClientAssumption DEF EchoTypeOK
  <2>2. Sent(d)' = Sent(d) + 1
    BY <1>t, <2>1, NextRecord DEF Sent, LinesShown
  <2>3. \A c \in Whole : c # d => Sent(c)' = Sent(c)
    BY <2>1 DEF Sent
  <2> QED BY <2>2, <2>3
<1>4. [c \in Whole |-> IF screen[c].from = c THEN screen[c].record ELSE 0]'
        = [c \in Whole |-> IF screen[c].from = c THEN screen[c].record ELSE 0]
  BY <1>1
<1>5. \A c : Deserted(c)' = Deserted(c)
  BY <1>1 DEF serverVars, Deserted
<1>6. CASE EnterMessage(d)
  <2>1. at' = [at EXCEPT ![d] = "reply"] /\ quit' = quit
    BY <1>6 DEF EnterMessage, EnterLine, Moves
  <2>2. waits' = [waits EXCEPT ![d] = TRUE]
    BY <1>t, <2>1, EchoClientAssumption DEF EchoTypeOK
  <2>3. owed' = owed
    BY <1>1, <1>5, <2>1
  <2> HIDE DEF asked, waits, owed
  <2>4. \/ waits' = [waits EXCEPT ![d] = TRUE] /\ UNCHANGED owed
        \/ owed' = [owed EXCEPT ![d] = FALSE] /\ UNCHANGED waits
    BY <2>2, <2>3
  <2> USE DEF asked, waits, owed
  <2> QED BY <1>2, <1>3, <1>4, <2>4 DEF Service!Ask
<1>7. CASE EnterExit(d)
  <2>1. at' = [at EXCEPT ![d] = "exit"] /\ quit' = [quit EXCEPT ![d] = TRUE]
    BY <1>7 DEF EnterExit, EnterLine, Moves
  <2>2. waits' = waits
    <3>1. \A c \in Whole : (at'[c] = "reply") = (at[c] = "reply")
      BY <1>t, <1>1, <2>1, EchoClientAssumption DEF EchoTypeOK
    <3> QED BY <3>1, Zenon
  <2>3. owed' = [owed EXCEPT ![d] = FALSE]
    <3>1. quit'[d] /\ \A c \in Whole : c # d => quit'[c] = quit[c]
      BY <1>t, <2>1, EchoClientAssumption DEF EchoTypeOK
    <3> QED BY <1>1, <1>5, <3>1
  <2> HIDE DEF asked, waits, owed
  <2>4. \/ waits' = [waits EXCEPT ![d] = TRUE] /\ UNCHANGED owed
        \/ owed' = [owed EXCEPT ![d] = FALSE] /\ UNCHANGED waits
    BY <2>2, <2>3
  <2> USE DEF asked, waits, owed
  <2> QED BY <1>2, <1>3, <1>4, <2>4 DEF Service!Ask
<1> QED BY <1>6, <1>7

(* A reply, or the news that there is none, answers with the line that was *)
(* asked for.                                                              *)
LEMMA PrintAnswers ==
  ASSUME IInv, InStep, NEW d \in Whole, ReceiveEcho(d) \/ ReceiveNothing(d, Hungup(d)),
         UNCHANGED serverVars
  PROVE  Service!Answer(d)
<1>t. EchoTypeOK /\ d \in Clients /\ InTurn(d, Holders(d), ~Hungup(d))
  BY TypeParts, EchoClientAssumption DEF IInv, InStep
<1> DEFINE asked == [c \in Whole |-> Sent(c)]
           answered == [c \in Whole |-> IF screen[c].from = c THEN screen[c].record ELSE 0]
           waits == [c \in Whole |-> at[c] = "reply"]
           owed == [c \in Whole |-> conn[c] # "closed" /\ ~quit[c] /\ ~Deserted(c)]
<1>1. /\ at[d] = "reply" /\ at' = [at EXCEPT ![d] = "enter"]
      /\ UNCHANGED <<sent, conn, quit, serverVars>>
  BY DEF ReceiveEcho, ReceiveNothing, Prints, AtPlace, Moves
<1>2. waits[d]
  BY <1>1
<1>3. waits' = [waits EXCEPT ![d] = FALSE]
  BY <1>t, <1>1, EchoClientAssumption DEF EchoTypeOK
<1>4. answered' = [answered EXCEPT ![d] = asked[d]]
  <2>1. screen' = [screen EXCEPT ![d] = Text(d, Sent(d))]
    BY <1>t, PrintsOwnLine
  <2>2. screen'[d].from = d /\ screen'[d].record = Sent(d)
    BY <1>t, <2>1 DEF EchoTypeOK, Text
  <2>3. \A c \in Whole : c # d => screen'[c] = screen[c]
    BY <1>t, <2>1, EchoClientAssumption DEF EchoTypeOK
  <2> QED BY <2>2, <2>3
<1>5. asked' = asked
  BY <1>1 DEF Sent
<1>6. owed' = owed
  BY <1>1 DEF serverVars, Deserted
<1> QED BY <1>2, <1>3, <1>4, <1>5, <1>6 DEF Service!Answer

(* Whatever else happens says nothing new to a client, and may release the *)
(* service of its duty.                                                    *)
LEMMA StepService ==
  ASSUME IInv, InStep, [Next]_vars
  PROVE  Service!Next
<1>t. EchoTypeOK
  BY TypeParts DEF IInv
<1>w. \A c \in Whole : c \in Clients
  BY EchoClientAssumption
<1>o. \A c \in Whole : Owed(c)' => Owed(c)
  BY OwedStays
<1>1. CASE \A c \in Whole : /\ sent'[c] = sent[c] /\ screen'[c] = screen[c]
                            /\ at'[c] = "reply" <=> at[c] = "reply"
  <2>1. \A c \in Whole : Sent(c)' = Sent(c)
    BY <1>1 DEF Sent
  <2> QED BY <1>o, <1>1, <2>1, ReleaseStep DEF Service!Next
<1>2. CASE UNCHANGED <<sent, screen, at>>
  BY <1>1, <1>2
<1>3. CASE ServerNext
  BY <1>2, <1>3 DEF ServerNext, Parent, Accept, TakeConnection, Fork, ForkFails, ParentEnds, Child,
                    Recv, RecvEnd, Echo, Sends, EchoFails, ChildEnds, netVars, clientVars
<1>4. ASSUME NEW d \in Clients, ClientStep(d), UNCHANGED serverVars PROVE Service!Next
  <2>1. CASE Connect(d) \/ EndProcess(d)
    BY <1>2, <2>1 DEF Connect, EndProcess, clientVars
  <2>2. CASE SendFails(d, Hungup(d))
    <3>1. /\ UNCHANGED <<sent, screen>> /\ at[d] = "enter"
          /\ at' = [at EXCEPT ![d] = "done"]
      BY <2>2 DEF SendFails, AtPlace, Moves, netVars
    <3>2. \A c \in Whole : at'[c] = "reply" <=> at[c] = "reply"
      BY <1>t, <1>w, <3>1 DEF EchoTypeOK
    <3> QED BY <1>1, <3>1, <3>2
  <2>3. CASE d \notin Whole
    <3>1. /\ \A c \in Clients : c # d => sent'[c] = sent[c] /\ screen'[c] = screen[c] /\ at'[c] = at[c]
      BY <1>4, <1>t DEF ClientStep, Connect, ConnectRefused, EndProcess, EnterMessage, EnterExit,
                        EnterLine, Transmit, Exit, SendFails, ReceiveEcho, ReceiveNothing, Prints,
                        Moves, netVars, clientVars, EchoTypeOK
    <3> QED BY <1>1, <1>w, <2>3, <3>1
  <2>4. CASE d \in Whole /\ (EnterMessage(d) \/ EnterExit(d))
    BY <1>4, <2>4, EnterAsks DEF Service!Next
  <2>5. CASE d \in Whole /\ (ReceiveEcho(d) \/ ReceiveNothing(d, Hungup(d)))
    BY <1>4, <2>5, PrintAnswers DEF Service!Next
  <2> QED BY <1>4, <2>1, <2>2, <2>3, <2>4, <2>5 DEF ClientStep, ConnectRefused, Exit
<1> QED BY <1>2, <1>3, <1>4 DEF Next, vars, netVars, clientVars

(* Whoever connects, forks, fails or leaves, and in whatever order: the    *)
(* only line a client whose records are whole is ever shown is the one it  *)
(* typed last, and whom the server has once lost it never serves again:    *)
(* MultiProcess implements the safety part of EchoService                  *)
(* (server.c:57-115, client.c:37-49).                                      *)
THEOREM ImplementsServiceSafety == Spec => Service!Spec
<1>1. IInv /\ HandedOnce /\ LastHasGone /\ InStep /\ [Next]_vars
        => (HandedOnce /\ LastHasGone /\ InStep)'
  BY StepKeepsHanded, StepKeepsLast, StepKeepsInStep
<1>2. Spec => [](IInv /\ InStep)
  BY InitHanded, InitInStep, Invariance, <1>1, PTL DEF Spec
<1>3. IInv /\ InStep /\ [Next]_vars => [Service!Next]_(Service!service)
  BY StepService
<1> QED BY <1>2, <1>3, InitService, PTL DEF Spec, Service!Spec

=============================================================================
