------------------------- MODULE GreetingEchoProofs -------------------------
(***************************************************************************)
(* Theorems about GreetingEcho for any number of clients, threads and      *)
(* lines of any size: its type invariant, that no byte is sent to the      *)
(* wrong client, or twice to the right one, and that a client with a       *)
(* thread of its own is greeted first and then echoed in order.            *)
(***************************************************************************)
EXTENDS GreetingEcho, SequenceTheorems, FiniteSetTheorems, TLAPS

(* Threads are created in order, start with the greeting, and have a real  *)
(* socket once they run.                                                   *)
Serving ==
  /\ main = "create" => client_socket \in Clients
  /\ \A t \in Threads :
       /\ t > no_threads => pc[t] = "none"
       /\ pc[t] = "start" => client_socket \in Clients
       /\ pc[t] \in {"none", "start"} => client_msg[t] = Greeting
       /\ pc[t] \notin {"none", "start"} => socket[t] \in Clients

(* run is the greeting, or bytes of c that recv() has returned.            *)
ReadFrom(c, run) == run = Greeting \/ (run.from = c /\ run.hi <= taken[c])

(* Nothing but the greeting is in both.                                    *)
Apart(r, s) ==
  \/ r = Greeting
  \/ s = Greeting
  \/ r.hi < s.lo
  \/ s.hi < r.lo

Sending(t) == pc[t] = "send"

(* What a thread is about to send, and what is sent, was read from the     *)
(* client that gets it.                                                    *)
OwnRuns ==
  /\ \A t \in Threads : Sending(t) => ReadFrom(socket[t], client_msg[t])
  /\ \A c \in Clients : \A i \in DOMAIN stream[c] : ReadFrom(c, stream[c][i])

(* No byte is with two threads, with a thread and sent, or sent twice.     *)
Once ==
  /\ \A t, u \in Threads :
       Sending(t) /\ Sending(u) /\ t # u /\ socket[t] = socket[u]
         => Apart(client_msg[t], client_msg[u])
  /\ \A t \in Threads : \A i \in DOMAIN stream[socket[t]] :
       Sending(t) => Apart(stream[socket[t]][i], client_msg[t])
  /\ \A c \in Clients : \A i \in DOMAIN stream[c] : \A j \in 1 .. i - 1 :
       Apart(stream[c][j], stream[c][i])

IInv == TypeOK /\ Serving /\ OwnRuns /\ Once

-----------------------------------------------------------------------------
(* The greeting is a run of nobody's bytes.                                *)
LEMMA GreetingType == Greeting \in Run
  BY DEF Greeting, NoRun, Run

(* What recv() returns begins behind everything read so far.               *)
LEMMA ArrivedRun ==
  ASSUME TypeOK, NEW c \in Clients, NEW run \in Arrived(c, MsgSize)
  PROVE  /\ run \in Run
         /\ run.from = c
         /\ run.lo = taken[c] + 1
         /\ run.hi >= run.lo
<1>1. PICK n \in 1 .. MsgSize : run = [from |-> c, lo |-> taken[c] + 1, hi |-> taken[c] + n]
  BY DEF Arrived
<1>2. taken[c] \in Nat /\ MsgSize \in Nat
  BY GreetingEchoAssumption DEF TypeOK
<1> QED BY <1>1, <1>2 DEF Run

(* A step that sends and reads nothing, and makes no thread send.          *)
LEMMA RunsFrame ==
  ASSUME OwnRuns, Once, UNCHANGED <<taken, stream, socket, client_msg>>,
         \A t \in Threads : pc'[t] = "send" => pc[t] = "send"
  PROVE  OwnRuns' /\ Once'
  BY DEF OwnRuns, Once, Sending, ReadFrom, Apart

(* The initial state is one of the invariant.                              *)
LEMMA InitIInv == Init => IInv
<1> SUFFICES ASSUME Init PROVE IInv
  OBVIOUS
<1> USE DEF Init, NetInit
<1>1. TypeOK
  BY GreetingEchoAssumption, GreetingType DEF TypeOK, ServerStates, ConnStates, SockErrors
<1>2. Serving /\ OwnRuns /\ Once
  BY DEF Serving, OwnRuns, Once, Sending
<1> QED BY <1>1, <1>2 DEF IInv

-----------------------------------------------------------------------------
(* The clients *)

(* What a client does to the types of the variables it may change.         *)
LEMMA ClientTypes ==
  ASSUME TypeOK, NEW c \in Clients, ClientStep(c)
  PROVE  /\ UNCHANGED <<server, taken, stream>>
         /\ conn' \in [Clients -> ConnStates]
         /\ backlog' \in Seq(Clients)
         /\ shown' \in [Clients -> Nat]
         /\ sent' \in [Clients -> Nat]
         /\ sockerr' \in [Clients -> SockErrors]
         /\ at' \in [Clients -> {"recv", "gets"}]
         /\ typed' \in [Clients -> Nat]
         /\ quit' \in [Clients -> BOOLEAN]
<1>t. /\ sent \in [Clients -> Nat] /\ taken \in [Clients -> Nat]
      /\ shown \in [Clients -> Nat] /\ typed \in [Clients -> Nat]
      /\ conn \in [Clients -> ConnStates] /\ backlog \in Seq(Clients)
      /\ stream \in [Clients -> Seq(Run)] /\ sockerr \in [Clients -> SockErrors]
      /\ at \in [Clients -> {"recv", "gets"}] /\ quit \in [Clients -> BOOLEAN]
  BY DEF TypeOK
<1>1. CASE Connect(c)
  <2>1. Append(backlog, c) \in Seq(Clients)
    BY <1>t
  <2> QED BY <1>t, <1>1, <2>1 DEF Connect, Establish, clientVars, ConnStates
<1>2. CASE Response(c)
  <2>1. shown[c] \in Nat /\ Len(stream[c]) \in Nat
    BY <1>t
  <2>2. ASSUME NEW n \in shown[c] + 1 .. Len(stream[c]), shown' = [shown EXCEPT ![c] = n]
        PROVE  shown' \in [Clients -> Nat]
    <3>1. n \in Nat
      BY <2>1
    <3> QED BY <1>t, <2>2, <3>1
  <2>3. shown' \in [Clients -> Nat]
    BY <1>t, <1>2, <2>2 DEF Response
  <2> QED BY <1>t, <1>2, <2>3 DEF Response
<1>3. ASSUME NEW size \in Nat, Types(c, size)
      PROVE  sent' \in [Clients -> Nat] /\ typed' \in [Clients -> Nat]
  BY <1>t, <1>3 DEF Types, Transmit
<1>4. CASE EnterLine(c)
  BY <1>t, <1>3, <1>4, GreetingEchoAssumption DEF EnterLine
<1>5. ASSUME CloseEnds({c})
      PROVE  conn' \in [Clients -> ConnStates] /\ sockerr' \in [Clients -> SockErrors]
  BY <1>t, <1>5 DEF CloseEnds, ConnStates, SockErrors
<1>6. CASE EnterExit(c)
  BY <1>t, <1>3, <1>5, <1>6 DEF EnterExit
<1>7. CASE Leave(c)
  BY <1>t, <1>5, <1>7 DEF Leave, clientVars
<1> QED BY <1>1, <1>2, <1>4, <1>6, <1>7 DEF ClientStep

(* Clients type, print and leave; what was read and sent stays.            *)
LEMMA ClientKeepsIInv ==
  ASSUME IInv, NEW c \in Clients, ClientStep(c), UNCHANGED <<mainVars, threadVars>>
  PROVE  IInv'
<1>1. TypeOK /\ Serving /\ OwnRuns /\ Once
  BY DEF IInv
<1>2. TypeOK'
  BY <1>1, ClientTypes DEF TypeOK, mainVars, threadVars
<1>3. Serving'
  BY <1>1 DEF Serving, mainVars, threadVars
<1>4. OwnRuns' /\ Once'
  BY <1>1, ClientTypes, RunsFrame DEF threadVars
<1> QED BY <1>2, <1>3, <1>4 DEF IInv

-----------------------------------------------------------------------------
(* Main *)

(* A real socket waits for the next thread.                                *)
LEMMA AcceptKeepsIInv ==
  ASSUME IInv, Accept
  PROVE  IInv'
<1> USE DEF IInv, Accept, TakeConnection
<1>1. Head(backlog) \in Clients /\ Tail(backlog) \in Seq(Clients)
  BY HeadTailProperties DEF TypeOK
<1>2. TypeOK'
  BY <1>1, GreetingEchoAssumption DEF TypeOK, threadVars, clientVars
<1>3. Serving'
  BY <1>1 DEF Serving, threadVars
<1>4. OwnRuns' /\ Once'
  BY RunsFrame DEF threadVars
<1> QED BY <1>2, <1>3, <1>4

(* The thread that is created has sent nothing before; one that is not     *)
(* created leaves a gap.                                                   *)
LEMMA CreateKeepsIInv ==
  ASSUME IInv, CreateThread \/ CreateFails
  PROVE  IInv'
<1>t. TypeOK /\ Serving /\ OwnRuns /\ Once
  BY DEF IInv
<1> DEFINE new == no_threads + 1
<1>1. /\ main = "create" /\ main' = "accept" /\ no_threads' = new
      /\ UNCHANGED <<server, conn, backlog, sent, taken, stream, shown, sockerr,
                     client_socket, socket, client_msg, at, typed, quit>>
  BY DEF CreateThread, CreateFails, Counts, netVars, clientVars
<1>2. new \in Threads /\ no_threads \in Nat /\ pc[new] = "none"
  BY <1>t, <1>1, GreetingEchoAssumption DEF TypeOK, Serving, Threads
<1>3. pc' = [pc EXCEPT ![new] = "start"] \/ pc' = pc
  BY <1>1 DEF CreateThread, CreateFails
<1>4. pc' \in [Threads -> {"none", "start", "send", "recv", "ended"}]
  BY <1>t, <1>3 DEF TypeOK
<1>5. TypeOK'
  BY <1>t, <1>1, <1>2, <1>4 DEF TypeOK, Threads
<1>6. Serving'
  <2>1. ASSUME NEW t \in Threads, t > new PROVE pc'[t] = "none"
    <3>1. t > no_threads /\ t # new
      BY <1>2, <2>1 DEF Threads
    <3>2. pc[t] = "none"
      BY <1>t, <3>1 DEF Serving
    <3> QED BY <1>t, <1>3, <3>1, <3>2 DEF TypeOK
  <2>2. \A t \in Threads :
          /\ pc'[t] = "start" => client_socket \in Clients
          /\ pc'[t] \in {"none", "start"} => client_msg[t] = Greeting
          /\ pc'[t] \notin {"none", "start"} => socket[t] \in Clients
    BY <1>t, <1>1, <1>2, <1>3 DEF Serving, TypeOK
  <2> QED BY <1>1, <2>1, <2>2 DEF Serving
<1>7. \A t \in Threads : pc'[t] = "send" => pc[t] = "send"
  BY <1>t, <1>3 DEF TypeOK
<1>8. OwnRuns' /\ Once'
  BY <1>t, <1>1, <1>7, RunsFrame
<1> QED BY <1>5, <1>6, <1>8 DEF IInv

(* The end of the server changes nothing else.                             *)
LEMMA EndsKeepsIInv ==
  ASSUME IInv, NEW state \in ServerStates, Ends(state)
  PROVE  IInv'
<1>1. /\ server' = state
      /\ UNCHANGED <<conn, backlog, sent, taken, stream, shown, sockerr, mainVars,
                     threadVars, clientVars>>
  BY DEF Ends
<1>2. TypeOK' /\ Serving'
  BY <1>1 DEF IInv, TypeOK, Serving, mainVars, threadVars, clientVars
<1>3. OwnRuns' /\ Once'
  BY <1>1, RunsFrame DEF IInv, threadVars
<1> QED BY <1>2, <1>3 DEF IInv

-----------------------------------------------------------------------------
(* The threads *)

(* Whichever socket it picks up, a thread first has the greeting to send.  *)
LEMMA StartKeepsIInv ==
  ASSUME IInv, NEW t \in Threads, Start(t)
  PROVE  IInv'
<1>t. TypeOK /\ Serving /\ OwnRuns /\ Once
  BY DEF IInv
<1>1. /\ pc[t] = "start"
      /\ socket' = [socket EXCEPT ![t] = client_socket]
      /\ pc' = [pc EXCEPT ![t] = "send"]
      /\ UNCHANGED <<netVars, mainVars, client_msg, clientVars>>
  BY DEF Start, StartFrom, Goto
<1>2. client_socket \in Clients /\ client_msg[t] = Greeting
  BY <1>t, <1>1 DEF Serving
<1>3. TypeOK'
  BY <1>t, <1>1 DEF TypeOK, netVars, mainVars, clientVars
<1>4. Serving'
  BY <1>t, <1>1, <1>2 DEF Serving, TypeOK, mainVars
<1>5. UNCHANGED <<taken, stream, client_msg>>
  BY <1>1 DEF netVars
<1>6. \A u \in Threads : u # t => pc'[u] = pc[u] /\ socket'[u] = socket[u]
  BY <1>t, <1>1 DEF TypeOK
<1>7. OwnRuns'
  BY <1>t, <1>2, <1>5, <1>6 DEF OwnRuns, Sending, ReadFrom
<1>8. Once'
  BY <1>t, <1>2, <1>5, <1>6 DEF Once, Sending, Apart
<1> QED BY <1>3, <1>4, <1>7, <1>8 DEF IInv

(* What was with the thread alone is now in the stream alone.              *)
LEMMA EchoKeepsIInv ==
  ASSUME IInv, NEW t \in Threads, Echo(t)
  PROVE  IInv'
<1>t. TypeOK /\ Serving /\ OwnRuns /\ Once
  BY DEF IInv
<1> DEFINE s == socket[t]
<1>1. /\ pc[t] = "send"
      /\ pc' = [pc EXCEPT ![t] = "recv"]
      /\ UNCHANGED <<server, conn, backlog, sent, taken, shown, mainVars, socket,
                     client_msg, clientVars>>
  BY DEF Echo, SendTo, Goto
<1>2. s \in Clients
  BY <1>t, <1>1 DEF Serving
<1>3. sockerr' \in [Clients -> SockErrors]
  BY <1>t, <1>2 DEF Echo, SendTo, Send, ReportEnd, TypeOK, SockErrors
<1>4. stream' = stream \/ stream' = [stream EXCEPT ![s] = @ \o <<client_msg[t]>>]
  BY DEF Echo, SendTo, Send
<1>5. \A u \in Threads : u # t => pc'[u] = pc[u]
  BY <1>t, <1>1 DEF TypeOK
<1>6. pc'[t] = "recv"
  BY <1>t, <1>1 DEF TypeOK
<1>7. client_msg[t] \in Run /\ ReadFrom(s, client_msg[t])
  BY <1>t, <1>1 DEF TypeOK, OwnRuns, Sending
<1>8. Serving'
  BY <1>t, <1>1, <1>2 DEF Serving, TypeOK, mainVars
<1>9. CASE stream' = stream
  <2>1. TypeOK'
    BY <1>t, <1>1, <1>3, <1>9 DEF TypeOK, mainVars, clientVars
  <2>2. OwnRuns' /\ Once'
    BY <1>t, <1>1, <1>5, <1>6, <1>9, RunsFrame
  <2> QED BY <1>8, <2>1, <2>2 DEF IInv
<1>10. CASE stream' = [stream EXCEPT ![s] = @ \o <<client_msg[t]>>]
  <2> DEFINE n == Len(stream[s])
  <2>1. stream[s] \in Seq(Run) /\ n \in Nat
    BY <1>t, <1>2 DEF TypeOK
  <2>2. /\ stream'[s] \in Seq(Run)
        /\ DOMAIN stream'[s] = 1 .. n + 1
        /\ DOMAIN stream[s] = 1 .. n
        /\ stream'[s][n + 1] = client_msg[t]
        /\ \A i \in 1 .. n : stream'[s][i] = stream[s][i]
    BY <1>t, <1>2, <1>7, <1>10, <2>1 DEF TypeOK
  <2>3. \A c \in Clients : c # s => stream'[c] = stream[c]
    BY <1>t, <1>10 DEF TypeOK
  <2>4. stream' \in [Clients -> Seq(Run)]
    BY <1>t, <1>10, <2>2 DEF TypeOK
  <2>5. TypeOK'
    BY <1>t, <1>1, <1>3, <2>4 DEF TypeOK, mainVars, clientVars
  <2>6. OwnRuns'
    <3>1. \A u \in Threads : Sending(u)' => ReadFrom(socket[u], client_msg[u])'
      BY <1>t, <1>1, <1>5, <1>6 DEF OwnRuns, Sending, ReadFrom
    <3>2. \A i \in DOMAIN stream'[s] : ReadFrom(s, stream'[s][i])
      BY <1>t, <1>2, <1>7, <2>1, <2>2 DEF OwnRuns
    <3>3. \A c \in Clients : \A i \in DOMAIN stream'[c] : ReadFrom(c, stream'[c][i])
      BY <1>t, <2>3, <3>2 DEF OwnRuns
    <3> QED BY <1>1, <3>1, <3>3 DEF OwnRuns, ReadFrom
  <2>7. Once'
    <3>1. \A u \in Threads : Sending(u)' => u # t /\ Sending(u)
      BY <1>5, <1>6 DEF Sending
    <3>2. \A u \in Threads : Sending(u)' => \A i \in DOMAIN stream'[socket[u]] :
            Apart(stream'[socket[u]][i], client_msg[u])
      <4> SUFFICES ASSUME NEW u \in Threads, Sending(u)', NEW i \in DOMAIN stream'[socket[u]]
                   PROVE  Apart(stream'[socket[u]][i], client_msg[u])
        OBVIOUS
      <4>1. u # t /\ Sending(u) /\ socket[u] \in Clients
        BY <1>t, <3>1 DEF Sending, Serving
      <4>2. CASE socket[u] = s /\ i = n + 1
        BY <1>t, <1>1, <2>2, <4>1, <4>2 DEF Once, Sending
      <4>3. CASE socket[u] = s /\ i # n + 1
        <5>1. i \in 1 .. n /\ stream'[socket[u]][i] = stream[socket[u]][i]
          BY <2>1, <2>2, <4>3
        <5> QED BY <1>t, <2>2, <4>1, <4>3, <5>1 DEF Once
      <4>4. CASE socket[u] # s
        BY <1>t, <2>3, <4>1, <4>4 DEF Once
      <4> QED BY <4>2, <4>3, <4>4
    <3>3. \A c \in Clients : \A i \in DOMAIN stream'[c] : \A j \in 1 .. i - 1 :
            Apart(stream'[c][j], stream'[c][i])
      <4> SUFFICES ASSUME NEW c \in Clients, NEW i \in DOMAIN stream'[c], NEW j \in 1 .. i - 1
                   PROVE  Apart(stream'[c][j], stream'[c][i])
        OBVIOUS
      <4>1. CASE c = s /\ i = n + 1
        <5>1. j \in 1 .. n /\ stream'[c][j] = stream[s][j] /\ stream'[c][i] = client_msg[t]
          BY <2>1, <2>2, <4>1
        <5>2. Apart(stream[s][j], client_msg[t])
          BY <1>t, <1>1, <2>2, <5>1 DEF Once, Sending
        <5> QED BY <5>1, <5>2
      <4>2. CASE c = s /\ i # n + 1
        <5>1. i \in 1 .. n /\ j \in 1 .. n
          BY <2>1, <2>2, <4>2
        <5> QED BY <1>t, <2>2, <4>2, <5>1 DEF Once
      <4>3. CASE c # s
        BY <1>t, <2>3, <4>3 DEF Once
      <4> QED BY <4>1, <4>2, <4>3
    <3>4. \A u, v \in Threads :
            Sending(u)' /\ Sending(v)' /\ u # v /\ socket[u] = socket[v]
              => Apart(client_msg[u], client_msg[v])
      BY <1>t, <3>1 DEF Once
    <3> QED BY <1>1, <3>2, <3>3, <3>4 DEF Once, Apart, Sending
  <2> QED BY <1>8, <2>5, <2>6, <2>7 DEF IInv
<1> QED BY <1>4, <1>9, <1>10

(* The bytes that recv() returns are behind all that are sent, or with     *)
(* another thread.                                                         *)
LEMMA RecvKeepsIInv ==
  ASSUME IInv, NEW t \in Threads, Recv(t)
  PROVE  IInv'
<1>t. TypeOK /\ Serving /\ OwnRuns /\ Once
  BY DEF IInv
<1> DEFINE s == socket[t]
<1>1. pc[t] = "recv" /\ s \in Clients
  BY <1>t DEF Recv, Serving
<1>2. PICK run \in Arrived(s, MsgSize), place \in {"ended", "send"} :
        /\ taken' = [taken EXCEPT ![s] = run.hi]
        /\ client_msg' = [client_msg EXCEPT ![t] = run]
        /\ pc' = [pc EXCEPT ![t] = place]
        /\ server' \in {server, "undefined"}
  BY DEF Recv, Goto
<1>3. UNCHANGED <<conn, backlog, sent, stream, shown, sockerr, mainVars, socket, clientVars>>
  BY DEF Recv
<1>4. run \in Run /\ run.from = s /\ run.lo = taken[s] + 1 /\ run.hi >= run.lo
  BY <1>t, <1>1, <1>2, ArrivedRun
<1>5. taken[s] \in Nat /\ run.hi \in Nat /\ run.lo \in Nat
  BY <1>t, <1>1, <1>4 DEF TypeOK, Run
<1>6. TypeOK'
  <2>1. taken' \in [Clients -> Nat] /\ client_msg' \in [Threads -> Run]
    BY <1>t, <1>2, <1>4, <1>5 DEF TypeOK
  <2>2. pc' \in [Threads -> {"none", "start", "send", "recv", "ended"}]
    BY <1>t, <1>2 DEF TypeOK
  <2>3. server' \in ServerStates
    BY <1>t, <1>2 DEF TypeOK, ServerStates
  <2> QED BY <1>t, <1>3, <2>1, <2>2, <2>3 DEF TypeOK, mainVars, clientVars
<1>7. Serving'
  BY <1>t, <1>1, <1>2, <1>3 DEF Serving, TypeOK, mainVars
<1>8. /\ taken'[s] = run.hi /\ client_msg'[t] = run
      /\ \A c \in Clients : c # s => taken'[c] = taken[c]
      /\ \A u \in Threads : u # t => client_msg'[u] = client_msg[u] /\ pc'[u] = pc[u]
  BY <1>t, <1>1, <1>2 DEF TypeOK
<1>9. \A r \in Run, c \in Clients :
        ReadFrom(c, r) => /\ ReadFrom(c, r)'
                          /\ c = s => Apart(r, run)
  <2> SUFFICES ASSUME NEW r \in Run, NEW c \in Clients, ReadFrom(c, r)
               PROVE  ReadFrom(c, r)' /\ (c = s => Apart(r, run))
    OBVIOUS
  <2>1. r.hi \in Nat
    BY DEF Run
  <2>2. CASE c = s
    BY <1>4, <1>5, <1>8, <2>1, <2>2 DEF ReadFrom, Apart
  <2>3. CASE c # s
    BY <1>8, <2>3 DEF ReadFrom
  <2> QED BY <2>2, <2>3
<1>10. /\ \A u \in Threads : client_msg[u] \in Run
       /\ \A c \in Clients : \A i \in DOMAIN stream[c] : stream[c][i] \in Run
  BY <1>t DEF TypeOK
<1>11. \A u \in Threads : Sending(u)' => socket[u] \in Clients /\ (u # t => Sending(u))
  BY <1>t, <1>1, <1>8 DEF Sending, Serving
<1>12. run.from = s /\ run.hi <= taken'[s]
  BY <1>4, <1>5, <1>8
<1>13. OwnRuns'
  <2>1. \A u \in Threads : Sending(u)' => ReadFrom(socket[u], client_msg[u])'
    <3> SUFFICES ASSUME NEW u \in Threads, Sending(u)'
                 PROVE  ReadFrom(socket[u], client_msg[u])'
      OBVIOUS
    <3>1. CASE u = t
      BY <1>3, <1>8, <1>12, <3>1 DEF ReadFrom
    <3>2. CASE u # t
      <4>1. ReadFrom(socket[u], client_msg[u])
        BY <1>t, <1>11, <3>2 DEF OwnRuns
      <4> QED BY <1>3, <1>8, <1>9, <1>10, <1>11, <3>2, <4>1 DEF ReadFrom
    <3> QED BY <3>1, <3>2
  <2>2. \A c \in Clients : \A i \in DOMAIN stream[c] : ReadFrom(c, stream[c][i])'
    <3> SUFFICES ASSUME NEW c \in Clients, NEW i \in DOMAIN stream[c]
                 PROVE  ReadFrom(c, stream[c][i])'
      OBVIOUS
    <3>1. ReadFrom(c, stream[c][i])
      BY <1>t DEF OwnRuns
    <3> QED BY <1>3, <1>9, <1>10, <3>1 DEF ReadFrom
  <2> QED BY <1>3, <2>1, <2>2 DEF OwnRuns, Sending
<1>14. Once'
  <2>1. \A u, v \in Threads :
          Sending(u)' /\ Sending(v)' /\ u # v /\ socket[u] = socket[v]
            => Apart(client_msg'[u], client_msg'[v])
    <3> SUFFICES ASSUME NEW u \in Threads, NEW v \in Threads, Sending(u)', Sending(v)',
                        u # v, socket[u] = socket[v]
                 PROVE  Apart(client_msg'[u], client_msg'[v])
      OBVIOUS
    <3>1. CASE u = t
      <4>1. Sending(v) /\ socket[v] = s /\ ReadFrom(s, client_msg[v])
        BY <1>t, <1>11, <3>1 DEF OwnRuns
      <4>2. Apart(client_msg[v], run)
        BY <1>1, <1>9, <1>10, <4>1
      <4> QED BY <1>8, <3>1, <4>2 DEF Apart
    <3>2. CASE v = t
      <4>1. Sending(u) /\ socket[u] = s /\ ReadFrom(s, client_msg[u])
        BY <1>t, <1>11, <3>2 DEF OwnRuns
      <4> QED BY <1>1, <1>8, <1>9, <1>10, <3>2, <4>1
    <3>3. CASE u # t /\ v # t
      BY <1>t, <1>8, <1>11, <3>3 DEF Once
    <3> QED BY <3>1, <3>2, <3>3
  <2>2. \A u \in Threads : \A i \in DOMAIN stream[socket[u]] :
          Sending(u)' => Apart(stream[socket[u]][i], client_msg'[u])
    <3> SUFFICES ASSUME NEW u \in Threads, NEW i \in DOMAIN stream[socket[u]], Sending(u)'
                 PROVE  Apart(stream[socket[u]][i], client_msg'[u])
      OBVIOUS
    <3>1. CASE u = t
      <4>1. ReadFrom(s, stream[s][i]) /\ stream[s][i] \in Run
        BY <1>t, <1>1, <1>10, <3>1 DEF OwnRuns
      <4> QED BY <1>1, <1>8, <1>9, <3>1, <4>1
    <3>2. CASE u # t
      BY <1>t, <1>8, <1>11, <3>2 DEF Once
    <3> QED BY <3>1, <3>2
  <2>3. UNCHANGED <<stream, socket>>
    BY <1>3
  <2> QED BY <1>t, <2>1, <2>2, <2>3 DEF Once, Sending, Apart
<1> QED BY <1>6, <1>7, <1>13, <1>14 DEF IInv

(* A thread that has read the end sends no more.                           *)
LEMMA RecvEndKeepsIInv ==
  ASSUME IInv, NEW t \in Threads, RecvEnd(t)
  PROVE  IInv'
<1>t. TypeOK /\ Serving /\ OwnRuns /\ Once
  BY DEF IInv
<1>1. /\ pc[t] = "recv"
      /\ pc' = [pc EXCEPT ![t] = "ended"]
      /\ UNCHANGED <<server, conn, backlog, sent, taken, stream, shown, mainVars,
                     socket, client_msg, clientVars>>
  BY DEF RecvEnd, Goto
<1>2. sockerr' \in [Clients -> SockErrors]
  BY <1>t DEF RecvEnd, ReportEnd, TypeOK, SockErrors
<1>3. TypeOK'
  BY <1>t, <1>1, <1>2 DEF TypeOK, mainVars, clientVars
<1>4. Serving'
  BY <1>t, <1>1 DEF Serving, TypeOK, mainVars
<1>5. OwnRuns' /\ Once'
  <2>1. \A u \in Threads : pc'[u] = "send" => pc[u] = "send"
    BY <1>t, <1>1 DEF TypeOK
  <2> QED BY <1>t, <1>1, <2>1, RunsFrame
<1> QED BY <1>3, <1>4, <1>5 DEF IInv

-----------------------------------------------------------------------------
(* The inductive invariant: every byte that was read is with one thread,   *)
(* or sent to its client, or neither, and never in two places              *)
(* (server.c:93-108).                                                      *)
THEOREM Invariance == Spec => []IInv
<1>1. IInv /\ [Next]_vars => IInv'
  <2> SUFFICES ASSUME IInv, [Next]_vars PROVE IInv'
    OBVIOUS
  <2>1. CASE MainThread
    BY <2>1, AcceptKeepsIInv, CreateKeepsIInv, EndsKeepsIInv
    DEF MainThread, AcceptFails, JoinAll, ServerStates
  <2>2. ASSUME NEW t \in Threads, Handler(t) PROVE IInv'
    BY <2>2, StartKeepsIInv, EchoKeepsIInv, RecvKeepsIInv, RecvEndKeepsIInv, EndsKeepsIInv
    DEF Handler, EchoKills, ServerStates
  <2>3. ASSUME NEW c \in Clients, ClientStep(c), UNCHANGED <<mainVars, threadVars>>
        PROVE  IInv'
    BY <2>3, ClientKeepsIInv
  <2>4. CASE UNCHANGED vars
    <3>1. TypeOK' /\ Serving'
      BY <2>4 DEF vars, netVars, mainVars, threadVars, clientVars, IInv, TypeOK, Serving
    <3>2. OwnRuns' /\ Once'
      BY <2>4, RunsFrame DEF vars, netVars, threadVars, IInv
    <3> QED BY <3>1, <3>2 DEF IInv
  <2> QED BY <2>1, <2>2, <2>3, <2>4 DEF Next
<1> QED BY InitIInv, <1>1, PTL DEF Spec

(* Every variable keeps its type, and main counts no thread for which it   *)
(* has no room (server.c:55-56).                                           *)
THEOREM TypeCorrect == Spec => []TypeOK
  BY Invariance, PTL DEF IInv

(* However connections race, and however many threads read one socket, a   *)
(* client is sent none but its own bytes, and none of them twice           *)
(* (server.c:93-108).                                                      *)
THEOREM NothingSentTwice == Spec => []EachByteOnce
<1>1. IInv => EachByteOnce
  BY DEF IInv, OwnRuns, Once, ReadFrom, Apart, EachByteOnce
<1> QED BY Invariance, <1>1, PTL

-----------------------------------------------------------------------------
(* Clients with a thread of their own *)

(* The greeting, and then bytes of c, each run behind the one before.      *)
InOrder(c) ==
  \A i \in DOMAIN stream[c] :
    LET run == stream[c][i]
    IN  IF i = 1 THEN run = Greeting
        ELSE run.from = c /\ run.lo = stream[c][i - 1].hi + 1

Unserved(c) == \A t \in Threads : socket[t] # c

(* t shares its client with no other thread.                               *)
Alone(t) == \A u \in Threads : socket[u] = socket[t] => u = t

(* A client whose end is there has been sent everything its thread has     *)
(* read, but for the run that the thread is about to send.                 *)
UpToDate(t) ==
  LET c == socket[t]
      n == Len(stream[c])
  IN  /\ Sending(t) =>
           /\ client_msg[t].hi = taken[c]
           /\ n = 0 => client_msg[t] = Greeting
           /\ n # 0 => client_msg[t].from = c /\ client_msg[t].lo = stream[c][n].hi + 1
      /\ pc[t] = "recv" => n # 0 /\ stream[c][n].hi = taken[c]

(* A thread has its socket when it runs and not before; nothing is read    *)
(* from a client that no thread serves, and nothing sent to it; an error   *)
(* is pending for none but a client that has gone.                         *)
InStep ==
  /\ \A t \in Threads : pc[t] \in {"none", "start"} => socket[t] = NoSocket
  /\ \A c \in Clients :
       /\ conn[c] # "closed" => sockerr[c] = "none"
       /\ Unserved(c) => stream[c] = << >> /\ taken[c] = 0
  /\ \A t \in Threads : socket[t] \in Clients /\ Alone(t) =>
       /\ InOrder(socket[t])
       /\ conn[socket[t]] # "closed" => UpToDate(t)

(* Nobody has a thread yet.                                                *)
LEMMA InitInStep == Init => InStep
<1> SUFFICES ASSUME Init PROVE InStep
  OBVIOUS
<1>1. \A t \in Threads : socket[t] = NoSocket
  BY DEF Init
<1>2. \A c \in Clients : sockerr[c] = "none" /\ stream[c] = << >> /\ taken[c] = 0
  BY DEF Init, NetInit
<1> QED BY <1>1, <1>2, SocketsAssumption DEF InStep

(* A step that sends and reads nothing, lets no thread send or read, and   *)
(* lets no error be pending for a client that is there.                    *)
LEMMA InStepFrame ==
  ASSUME InStep, UNCHANGED <<taken, stream, socket, client_msg>>,
         \A t \in Threads :
           /\ pc'[t] \in {"send", "recv"} => pc'[t] = pc[t]
           /\ pc'[t] \in {"none", "start"} => pc[t] \in {"none", "start"},
         \A c \in Clients : conn'[c] # "closed" => conn[c] # "closed" /\ sockerr'[c] = "none"
  PROVE  InStep'
<1>1. \A t \in Threads : pc'[t] \in {"none", "start"} => socket'[t] = NoSocket
  BY DEF InStep
<1>2. \A c \in Clients :
        /\ conn'[c] # "closed" => sockerr'[c] = "none"
        /\ Unserved(c)' => stream'[c] = << >> /\ taken'[c] = 0
  BY DEF InStep, Unserved
<1>3. ASSUME NEW t \in Threads, socket'[t] \in Clients, Alone(t)'
      PROVE  InOrder(socket[t])' /\ (conn'[socket'[t]] # "closed" => UpToDate(t)')
  <2>1. socket[t] \in Clients /\ Alone(t)
    BY <1>3 DEF Alone
  <2>2. InOrder(socket[t])'
    BY <2>1 DEF InStep, InOrder
  <2>3. ASSUME conn'[socket'[t]] # "closed" PROVE UpToDate(t)'
    <3>1. UpToDate(t)
      BY <2>1, <2>3 DEF InStep
    <3> QED BY <3>1 DEF UpToDate, Sending
  <2> QED BY <2>2, <2>3
<1> QED BY <1>1, <1>2, <1>3 DEF InStep

(* A client types, receives or leaves: of no thread or stream is anything  *)
(* different, and who leaves need no longer be up to date.                 *)
LEMMA ClientKeepsInStep ==
  ASSUME IInv, InStep, NEW c \in Clients, ClientStep(c), UNCHANGED <<mainVars, threadVars>>
  PROVE  InStep'
<1>t. TypeOK /\ UNCHANGED <<taken, stream>>
  BY ClientTypes DEF IInv
<1>1. \A d \in Clients : conn'[d] # "closed" => conn[d] # "closed" /\ sockerr'[d] = sockerr[d]
  <2>1. CASE Connect(c)
    BY <1>t, <2>1 DEF Connect, Establish, TypeOK
  <2>2. CASE Response(c)
    BY <2>2 DEF Response
  <2>3. CASE EnterLine(c)
    BY <2>3 DEF EnterLine, Types
  <2>4. CASE EnterExit(c) \/ Leave(c)
    BY <2>4 DEF EnterExit, Leave, CloseEnds
  <2> QED BY <2>1, <2>2, <2>3, <2>4 DEF ClientStep
<1>2. \A d \in Clients : conn'[d] # "closed" => conn[d] # "closed" /\ sockerr'[d] = "none"
  BY <1>1 DEF InStep
<1> QED BY <1>t, <1>2, InStepFrame DEF threadVars

(* A new connection, or a thread that has not started, has no socket yet.  *)
LEMMA MainKeepsInStep ==
  ASSUME IInv, InStep, MainThread
  PROVE  InStep'
<1>t. TypeOK /\ Serving
  BY DEF IInv
<1>1. UNCHANGED <<taken, stream, socket, client_msg, conn, sockerr>>
  BY DEF MainThread, Accept, TakeConnection, AcceptFails, CreateThread, CreateFails, Counts,
         JoinAll, Ends, netVars, threadVars
<1>2. CASE CreateThread
  <2>1. /\ no_threads' = no_threads + 1 /\ main = "create"
        /\ pc' = [pc EXCEPT ![no_threads + 1] = "start"]
    BY <1>2 DEF CreateThread, Counts
  <2>2. no_threads + 1 \in Threads /\ no_threads + 1 > no_threads
    BY <1>t, <2>1, GreetingEchoAssumption DEF TypeOK, Threads
  <2>3. pc[no_threads + 1] = "none"
    BY <1>t, <2>2 DEF Serving
  <2>4. \A t \in Threads : pc'[t] = pc[t] \/ (pc'[t] = "start" /\ pc[t] = "none")
    BY <1>t, <2>1, <2>3 DEF TypeOK
  <2> QED BY <1>1, <2>4, InStepFrame DEF InStep
<1>3. CASE ~CreateThread
  <2>1. UNCHANGED pc
    BY <1>3 DEF MainThread, Accept, TakeConnection, AcceptFails, CreateFails, JoinAll, Ends,
                threadVars
  <2> QED BY <1>1, <2>1, InStepFrame DEF InStep
<1> QED BY <1>2, <1>3

(* Only the new thread changes what is known of its client, and that only  *)
(* when the client had none: it has the greeting to send, first of all.    *)
LEMMA StartKeepsInStep ==
  ASSUME IInv, InStep, NEW t \in Threads, Start(t)
  PROVE  InStep'
<1>t. TypeOK /\ Serving
  BY DEF IInv
<1> DEFINE s == client_socket
<1>1. /\ pc[t] = "start"
      /\ socket' = [socket EXCEPT ![t] = s]
      /\ pc' = [pc EXCEPT ![t] = "send"]
      /\ UNCHANGED <<conn, taken, stream, sockerr, client_msg>>
  BY DEF Start, StartFrom, Goto, netVars
<1>2. s \in Clients /\ client_msg[t] = Greeting /\ socket[t] = NoSocket
  BY <1>t, <1>1 DEF Serving, InStep
<1>3. /\ socket'[t] = s /\ pc'[t] = "send"
      /\ \A u \in Threads : u # t => socket'[u] = socket[u] /\ pc'[u] = pc[u]
  BY <1>t, <1>1 DEF TypeOK
<1>4. \A u \in Threads : pc'[u] \in {"none", "start"} => socket'[u] = NoSocket
  BY <1>3 DEF InStep
<1>5. \A c \in Clients :
        /\ conn'[c] # "closed" => sockerr'[c] = "none"
        /\ Unserved(c)' => stream'[c] = << >> /\ taken'[c] = 0
  <2>1. \A c \in Clients : Unserved(c)' => Unserved(c)
    BY <1>2, <1>3, SocketsAssumption DEF Unserved
  <2> QED BY <1>1, <2>1 DEF InStep
<1>6. ASSUME NEW u \in Threads, socket'[u] \in Clients, Alone(u)'
      PROVE  InOrder(socket[u])' /\ (conn'[socket'[u]] # "closed" => UpToDate(u)')
  <2>1. CASE u = t
    <3>1. Unserved(s)
      BY <1>2, <1>3, <1>6, <2>1, SocketsAssumption DEF Unserved, Alone
    <3>2. stream'[s] = << >> /\ taken'[s] = 0
      BY <1>1, <1>2, <3>1 DEF InStep
    <3>3. InOrder(socket[u])'
      BY <1>3, <2>1, <3>2 DEF InOrder
    <3>4. UpToDate(u)'
      BY <1>1, <1>2, <1>3, <2>1, <3>2 DEF UpToDate, Sending, Greeting, NoRun
    <3> QED BY <3>3, <3>4
  <2>2. CASE u # t
    <3>1. socket'[u] = socket[u] /\ pc'[u] = pc[u] /\ socket[u] \in Clients
      BY <1>3, <1>6, <2>2
    <3>2. Alone(u)
      BY <1>2, <1>3, <1>6, <3>1, SocketsAssumption DEF Alone
    <3>3. InOrder(socket[u]) /\ (conn[socket[u]] # "closed" => UpToDate(u))
      BY <3>1, <3>2 DEF InStep
    <3>4. InOrder(socket[u])'
      BY <1>1, <3>1, <3>3 DEF InOrder
    <3>5. conn'[socket'[u]] # "closed" => UpToDate(u)'
      BY <1>1, <3>1, <3>3 DEF UpToDate, Sending
    <3> QED BY <3>4, <3>5
  <2> QED BY <2>1, <2>2
<1> QED BY <1>4, <1>5, <1>6 DEF InStep

(* What a thread sends to a client that is there comes behind all it sent  *)
(* before; to one that has gone nothing is sent any more.                  *)
LEMMA EchoKeepsInStep ==
  ASSUME IInv, InStep, NEW t \in Threads, Echo(t)
  PROVE  InStep'
<1>t. TypeOK /\ Serving
  BY DEF IInv
<1> DEFINE s == socket[t]
           n == Len(stream[s])
<1>1. /\ pc[t] = "send"
      /\ pc' = [pc EXCEPT ![t] = "recv"]
      /\ UNCHANGED <<conn, taken, socket, client_msg>>
  BY DEF Echo, SendTo, Goto
<1>2. s \in Clients
  BY <1>t, <1>1 DEF Serving
<1>3. /\ pc'[t] = "recv"
      /\ \A u \in Threads : u # t => pc'[u] = pc[u]
  BY <1>t, <1>1 DEF TypeOK
<1>4. \A u \in Threads : pc'[u] \in {"none", "start"} => pc[u] \in {"none", "start"}
  BY <1>3
<1>5. CASE conn[s] = "closed"
  <2>1. /\ stream' = stream
        /\ \A c \in Clients : c # s => sockerr'[c] = sockerr[c]
    BY <1>t, <1>5 DEF Echo, SendTo, Send, ReportEnd, TypeOK
  <2>2. \A u \in Threads : pc'[u] \in {"none", "start"} => socket'[u] = NoSocket
    BY <1>1, <1>4 DEF InStep
  <2>3. \A c \in Clients :
          /\ conn'[c] # "closed" => sockerr'[c] = "none"
          /\ Unserved(c)' => stream'[c] = << >> /\ taken'[c] = 0
    BY <1>1, <1>5, <2>1 DEF InStep, Unserved
  <2>4. ASSUME NEW u \in Threads, socket'[u] \in Clients, Alone(u)'
        PROVE  InOrder(socket[u])' /\ (conn'[socket'[u]] # "closed" => UpToDate(u)')
    <3>1. Alone(u) /\ socket[u] \in Clients
      BY <1>1, <2>4 DEF Alone
    <3>2. InOrder(socket[u])'
      BY <1>1, <2>1, <3>1 DEF InStep, InOrder
    <3>3. ASSUME conn'[socket'[u]] # "closed" PROVE UpToDate(u)'
      <4>1. u # t /\ UpToDate(u)
        BY <1>1, <1>5, <3>1, <3>3 DEF InStep
      <4> QED BY <1>1, <1>3, <2>1, <4>1 DEF UpToDate, Sending
    <3> QED BY <3>2, <3>3
  <2> QED BY <2>2, <2>3, <2>4 DEF InStep
<1>6. CASE conn[s] # "closed"
  <2>1. /\ sockerr[s] = "none"
        /\ stream' = [stream EXCEPT ![s] = @ \o <<client_msg[t]>>]
        /\ UNCHANGED sockerr
    BY <1>2, <1>6 DEF InStep, Echo, SendTo, Send, CanSend
  <2>2. /\ stream[s] \in Seq(Run) /\ n \in Nat /\ client_msg[t] \in Run
        /\ \A i \in 1 .. n : stream[s][i] \in Run
    BY <1>t, <1>2 DEF TypeOK
  <2>3. /\ Len(stream'[s]) = n + 1
        /\ DOMAIN stream'[s] = 1 .. n + 1
        /\ DOMAIN stream[s] = 1 .. n
        /\ stream'[s][n + 1] = client_msg[t]
        /\ \A i \in 1 .. n : stream'[s][i] = stream[s][i]
    BY <1>t, <1>2, <2>1, <2>2 DEF TypeOK
  <2>4. \A c \in Clients : c # s => stream'[c] = stream[c]
    BY <1>t, <2>1 DEF TypeOK
  <2>5. \A u \in Threads : pc'[u] \in {"none", "start"} => socket'[u] = NoSocket
    BY <1>1, <1>4 DEF InStep
  <2>6. \A c \in Clients :
          /\ conn'[c] # "closed" => sockerr'[c] = "none"
          /\ Unserved(c)' => stream'[c] = << >> /\ taken'[c] = 0
    BY <1>1, <2>1, <2>4 DEF InStep, Unserved
  <2>7. ASSUME NEW u \in Threads, socket'[u] \in Clients, Alone(u)'
        PROVE  InOrder(socket[u])' /\ (conn'[socket'[u]] # "closed" => UpToDate(u)')
    <3>1. Alone(u) /\ socket[u] \in Clients /\ InOrder(socket[u])
      BY <1>1, <2>7 DEF Alone, InStep
    <3>2. CASE u = t
      <4>1. UpToDate(t)
        BY <1>6, <3>1, <3>2 DEF InStep
      <4>2. /\ client_msg[t].hi = taken[s]
            /\ n = 0 => client_msg[t] = Greeting
            /\ n # 0 => client_msg[t].from = s /\ client_msg[t].lo = stream[s][n].hi + 1
        BY <1>1, <4>1 DEF UpToDate, Sending
      <4>3. ASSUME NEW i \in 1 .. n + 1
            PROVE  IF i = 1 THEN stream'[s][i] = Greeting
                   ELSE /\ stream'[s][i].from = s
                        /\ stream'[s][i].lo = stream'[s][i - 1].hi + 1
        <5>1. CASE i = n + 1
          <6>1. CASE n = 0
            BY <2>3, <4>2, <5>1, <6>1
          <6>2. CASE n # 0
            <7>1. i # 1 /\ i - 1 = n /\ n \in 1 .. n
              BY <2>2, <5>1, <6>2
            <7> QED BY <2>3, <4>2, <5>1, <6>2, <7>1
          <6> QED BY <6>1, <6>2
        <5>2. CASE i # n + 1
          <6>1. i \in 1 .. n /\ (i # 1 => i - 1 \in 1 .. n)
            BY <2>2, <5>2
          <6> QED BY <2>3, <3>1, <3>2, <6>1 DEF InOrder
        <5> QED BY <5>1, <5>2
      <4>4. InOrder(socket[u])'
        BY <1>1, <2>3, <3>2, <4>3 DEF InOrder
      <4>5. UpToDate(u)'
        BY <1>1, <1>3, <2>2, <2>3, <3>2, <4>2 DEF UpToDate, Sending
      <4> QED BY <4>4, <4>5
    <3>3. CASE u # t
      <4>1. socket[u] # s /\ stream'[socket[u]] = stream[socket[u]]
        BY <2>4, <3>1, <3>3 DEF Alone
      <4>2. InOrder(socket[u])'
        BY <1>1, <3>1, <4>1 DEF InOrder
      <4>3. conn'[socket'[u]] # "closed" => UpToDate(u)'
        BY <1>1, <1>3, <3>1, <3>3, <4>1 DEF InStep, UpToDate, Sending
      <4> QED BY <4>2, <4>3
    <3> QED BY <3>2, <3>3
  <2> QED BY <2>5, <2>6, <2>7 DEF InStep
<1> QED BY <1>5, <1>6

(* What recv() returns follows what was sent last.                         *)
LEMMA RecvKeepsInStep ==
  ASSUME IInv, InStep, NEW t \in Threads, Recv(t)
  PROVE  InStep'
<1>t. TypeOK /\ Serving
  BY DEF IInv
<1> DEFINE s == socket[t]
           n == Len(stream[s])
<1>1. pc[t] = "recv" /\ s \in Clients
  BY <1>t DEF Recv, Serving
<1>2. PICK run \in Arrived(s, MsgSize), place \in {"ended", "send"} :
        /\ taken' = [taken EXCEPT ![s] = run.hi]
        /\ client_msg' = [client_msg EXCEPT ![t] = run]
        /\ pc' = [pc EXCEPT ![t] = place]
  BY DEF Recv, Goto
<1>3. UNCHANGED <<conn, stream, sockerr, socket>>
  BY DEF Recv
<1>4. run.from = s /\ run.lo = taken[s] + 1
  BY <1>t, <1>1, <1>2, ArrivedRun
<1>5. /\ taken'[s] = run.hi /\ client_msg'[t] = run /\ pc'[t] = place
      /\ \A c \in Clients : c # s => taken'[c] = taken[c]
      /\ \A u \in Threads : u # t => client_msg'[u] = client_msg[u] /\ pc'[u] = pc[u]
  BY <1>t, <1>1, <1>2 DEF TypeOK
<1>6. \A u \in Threads : pc'[u] \in {"none", "start"} => socket'[u] = NoSocket
  BY <1>3, <1>5 DEF InStep
<1>7. \A c \in Clients :
        /\ conn'[c] # "closed" => sockerr'[c] = "none"
        /\ Unserved(c)' => stream'[c] = << >> /\ taken'[c] = 0
  BY <1>3, <1>5 DEF InStep, Unserved
<1>8. ASSUME NEW u \in Threads, socket'[u] \in Clients, Alone(u)'
      PROVE  InOrder(socket[u])' /\ (conn'[socket'[u]] # "closed" => UpToDate(u)')
  <2>1. Alone(u) /\ socket[u] \in Clients /\ InOrder(socket[u])
    BY <1>3, <1>8 DEF Alone, InStep
  <2>2. InOrder(socket[u])'
    BY <1>3, <2>1 DEF InOrder
  <2>3. ASSUME conn'[socket'[u]] # "closed" PROVE UpToDate(u)'
    <3>1. UpToDate(u)
      BY <1>3, <2>1, <2>3 DEF InStep
    <3>2. CASE u = t
      <4>1. n # 0 /\ stream[s][n].hi = taken[s]
        BY <1>1, <3>1, <3>2 DEF UpToDate, Sending
      <4> QED BY <1>2, <1>3, <1>4, <1>5, <3>2, <4>1 DEF UpToDate, Sending
    <3>3. CASE u # t
      <4>1. socket[u] # s
        BY <2>1, <3>3 DEF Alone
      <4> QED BY <1>3, <1>5, <2>1, <3>1, <3>3, <4>1 DEF UpToDate, Sending
    <3> QED BY <3>2, <3>3
  <2> QED BY <2>2, <2>3
<1> QED BY <1>6, <1>7, <1>8 DEF InStep

(* A thread that stops has no more to send.                                *)
LEMMA EndsKeepInStep ==
  ASSUME IInv, InStep, NEW t \in Threads, RecvEnd(t) \/ EchoKills(t)
  PROVE  InStep'
<1>t. TypeOK
  BY DEF IInv
<1>1. UNCHANGED <<conn, taken, stream, socket, client_msg>>
  BY DEF RecvEnd, EchoKills, Ends, threadVars
<1>2. \A u \in Threads : pc'[u] = pc[u] \/ pc'[u] = "ended"
  BY <1>t DEF RecvEnd, EchoKills, Ends, Goto, threadVars, TypeOK
<1>3. \A c \in Clients : sockerr'[c] = sockerr[c] \/ sockerr[c] = "reset"
  BY <1>t DEF RecvEnd, EchoKills, Ends, ReportEnd, TypeOK
<1>4. \A c \in Clients : conn'[c] # "closed" => conn[c] # "closed" /\ sockerr'[c] = "none"
  BY <1>1, <1>3 DEF InStep
<1> QED BY <1>1, <1>2, <1>4, InStepFrame

(* A client that no two threads serve is in step with the one that does,   *)
(* and one that none serves has been sent nothing.                         *)
LEMMA InStepGreets ==
  ASSUME IInv, InStep
  PROVE  GreetedThenEchoed
<1> SUFFICES ASSUME NEW c \in Clients, Cardinality(ServedBy(c)) <= 1
             PROVE  InOrder(c)
  BY DEF GreetedThenEchoed, InOrder
<1>1. IsFiniteSet(ServedBy(c))
  <2>1. IsFiniteSet(Threads)
    BY FS_Interval, GreetingEchoAssumption DEF Threads
  <2> QED BY <2>1, FS_Subset DEF ServedBy
<1>2. CASE ServedBy(c) = {}
  <2>1. stream[c] = << >>
    BY <1>2 DEF ServedBy, Unserved, InStep
  <2> QED BY <2>1 DEF InOrder
<1>3. CASE ServedBy(c) # {}
  <2>1. Cardinality(ServedBy(c)) = 1
    BY <1>1, <1>3, FS_EmptySet, FS_CardinalityType
  <2>2. PICK t : ServedBy(c) = {t}
    BY <1>1, <2>1, FS_Singleton
  <2>3. t \in Threads /\ socket[t] = c /\ Alone(t)
    BY <2>2 DEF ServedBy, Alone
  <2> QED BY <2>3 DEF InStep
<1> QED BY <1>2, <1>3

(* A client that one thread serves, or none, is greeted once, first of     *)
(* all, and then sent back its bytes in the order in which it sent them,   *)
(* with none left out, whatever the others do (server.c:93-108).           *)
THEOREM GreetedInOrder == Spec => []GreetedThenEchoed
<1>1. IInv /\ InStep /\ [Next]_vars => InStep'
  <2> SUFFICES ASSUME IInv, InStep, [Next]_vars PROVE InStep'
    OBVIOUS
  <2>1. CASE MainThread
    BY <2>1, MainKeepsInStep
  <2>2. ASSUME NEW t \in Threads, Handler(t) PROVE InStep'
    BY <2>2, StartKeepsInStep, EchoKeepsInStep, RecvKeepsInStep, EndsKeepInStep DEF Handler
  <2>3. ASSUME NEW c \in Clients, ClientStep(c), UNCHANGED <<mainVars, threadVars>>
        PROVE  InStep'
    BY <2>3, ClientKeepsInStep
  <2>4. CASE UNCHANGED vars
    <3>1. UNCHANGED <<taken, stream, socket, client_msg, conn, sockerr, pc>>
      BY <2>4 DEF vars, netVars, threadVars
    <3> QED BY <3>1, InStepFrame DEF InStep
  <2> QED BY <2>1, <2>2, <2>3, <2>4 DEF Next
<1>2. IInv /\ InStep => GreetedThenEchoed
  BY InStepGreets
<1> QED BY InitInStep, Invariance, <1>1, <1>2, PTL DEF Spec

=============================================================================
