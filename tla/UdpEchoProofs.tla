--------------------------- MODULE UdpEchoProofs ----------------------------
(***************************************************************************)
(* Theorems about UdpEcho for any number of clients, lines and repeated    *)
(* datagrams: its type invariant, that nobody is shown another's line, and *)
(* that it implements the safety part of EchoService.                      *)
(***************************************************************************)
EXTENDS UdpEcho, FiniteSetTheorems, TLAPS

UnderWay == requests \cup mesg \cup replies

(* If the network does not repeat it, a datagram is in one place, its      *)
(* client waits for it, and it holds the line that was typed last.         *)
OneUnderWay ==
  /\ \A d \in requests \cap mesg : d.client \notin Once
  /\ \A d \in requests \cap replies : d.client \notin Once
  /\ \A d \in mesg \cap replies : d.client \notin Once
  /\ \A d \in UnderWay : d.client \in Once => waits[d.client] /\ d.line = typed[d.client]

(* Repeated or not, it goes to the client whose line it holds.             *)
OwnUnderWay ==
  \A d \in UnderWay : d.from = d.client /\ d.line <= typed[d.client]

IInv == TypeOK /\ OneUnderWay /\ OwnUnderWay /\ OwnLines

-----------------------------------------------------------------------------
(* Nothing is under way at the start.                                      *)
LEMMA InitIInv == Init => IInv
  BY UdpEchoAssumption, FS_EmptySet
  DEF Init, IInv, TypeOK, OneUnderWay, OwnUnderWay, UnderWay, OwnLines

(* The network keeps a datagram it delivers only if it may repeat it.      *)
LEMMA DeliverRequest ==
  ASSUME TypeOK, NEW d \in requests, Deliver(requests, d)
  PROVE  /\ requests' \subseteq requests
         /\ d.client \in Once => requests' = requests \ {d}
         /\ copies' \in 0 .. Copies
  BY UdpEchoAssumption DEF Deliver, TypeOK

LEMMA DeliverReply ==
  ASSUME TypeOK, NEW d \in replies, Deliver(replies, d)
  PROVE  /\ replies' \subseteq replies
         /\ d.client \in Once => replies' = replies \ {d}
         /\ copies' \in 0 .. Copies
  BY UdpEchoAssumption DEF Deliver, TypeOK

(* A request moves into the server's buffer.                               *)
LEMMA RecvKeepsIInv == IInv /\ Recv => IInv'
<1> SUFFICES ASSUME IInv, NEW d \in requests, mesg = {}, mesg' = {d}, Deliver(requests, d),
                    server' \in {"running", "undefined"},
                    UNCHANGED <<replies, clientVars, lost>>
             PROVE  IInv'
  BY DEF Recv, ReadNext
<1> USE DEF IInv, clientVars
<1>1. /\ requests' \subseteq requests
      /\ d.client \in Once => requests' = requests \ {d}
      /\ copies' \in 0 .. Copies
  BY DeliverRequest
<1>2. TypeOK'
  <2>1. Cardinality(mesg') <= 1
    <3>1. Cardinality({d}) = 1
      BY FS_Singleton
    <3> QED BY <3>1
  <2>2. mesg' \subseteq Datagram /\ requests' \subseteq Datagram
    BY <1>1 DEF TypeOK
  <2> QED BY <1>1, <2>1, <2>2 DEF TypeOK
<1>3. OneUnderWay'
  BY <1>1 DEF OneUnderWay, UnderWay
<1>4. OwnUnderWay' /\ OwnLines'
  BY <1>1 DEF OwnUnderWay, UnderWay, OwnLines
<1> QED BY <1>2, <1>3, <1>4

(* And from there to the replies.                                          *)
LEMMA ReturnKeepsIInv == IInv /\ Return => IInv'
<1> SUFFICES ASSUME IInv, Return PROVE IInv'
  OBVIOUS
<1> USE DEF IInv, Return, clientVars
<1>1. TypeOK'
  BY FS_EmptySet DEF TypeOK
<1>2. OneUnderWay'
  BY DEF OneUnderWay, UnderWay
<1>3. OwnUnderWay' /\ OwnLines'
  BY DEF OwnUnderWay, UnderWay, OwnLines
<1> QED BY <1>1, <1>2, <1>3

(* A client that types did not wait: its datagram is the only one, unless  *)
(* the network has repeated another.                                       *)
LEMMA SendLineKeepsIInv == \A c \in Clients : IInv /\ SendLine(c) => IInv'
<1> SUFFICES ASSUME NEW c \in Clients, IInv, SendLine(c) PROVE IInv'
  OBVIOUS
<1> USE DEF IInv, SendLine, Send
<1> DEFINE new == [client |-> c, from |-> c, line |-> typed[c] + 1]
<1>1. typed[c] + 1 \in 0 .. Lines /\ typed[c] \in Nat
  BY UdpEchoAssumption DEF TypeOK
<1>2. new \in Datagram
  BY <1>1 DEF Datagram
<1>3. TypeOK'
  BY <1>1, <1>2 DEF TypeOK
<1>4. \A d \in UnderWay : d.client \in Clients /\ d.line \in Nat
  BY DEF TypeOK, UnderWay, Datagram
<1>5. \A d \in UnderWay : d.client \in Once => d.client # c
  BY DEF OneUnderWay
<1>6. \A d \in UnderWay : d.client = c => d.line <= typed'[c]
  BY <1>1, <1>4 DEF OwnUnderWay, TypeOK
<1>7. OneUnderWay'
  <2>1. \A d \in UnderWay : d.client \in Once => waits'[d.client] /\ d.line = typed'[d.client]
    BY <1>4, <1>5 DEF OneUnderWay, TypeOK
  <2>2. waits'[c] /\ new.line = typed'[c]
    BY DEF TypeOK
  <2> QED BY <1>5, <2>1, <2>2 DEF OneUnderWay, UnderWay
<1>8. OwnUnderWay'
  <2>1. \A d \in UnderWay : d.from = d.client /\ d.line <= typed'[d.client]
    BY <1>4, <1>6 DEF OwnUnderWay, TypeOK
  <2>2. new.line <= typed'[c]
    BY <1>1 DEF TypeOK
  <2> QED BY <2>1, <2>2 DEF OwnUnderWay, UnderWay
<1>9. OwnLines'
  BY <1>1 DEF OwnLines, TypeOK
<1> QED BY <1>3, <1>7, <1>8, <1>9

(* With the reply the last datagram of a client is gone that is not        *)
(* repeated.                                                               *)
LEMMA PrintReplyKeepsIInv == \A c \in Clients : IInv /\ PrintReply(c) => IInv'
<1> SUFFICES ASSUME NEW c \in Clients, IInv, waits[c],
                    NEW d \in replies, d.client = c, Deliver(replies, d),
                    recvline' = [recvline EXCEPT ![c] = [from |-> d.from, line |-> d.line]],
                    waits' = [waits EXCEPT ![c] = FALSE],
                    UNCHANGED <<server, requests, mesg, typed, lost>>
             PROVE  IInv'
  BY DEF PrintReply
<1>1. /\ replies' \subseteq replies
      /\ d.client \in Once => replies' = replies \ {d}
      /\ copies' \in 0 .. Copies
  BY DeliverReply DEF IInv
<1>2. d.from = c /\ d.line <= typed[c] /\ d \in Datagram
  BY DEF IInv, TypeOK, OwnUnderWay, UnderWay
<1>3. [from |-> d.from, line |-> d.line] \in [from : Clients, line : 0 .. Lines]
  BY <1>2, UdpEchoAssumption DEF IInv, TypeOK, Datagram
<1>4. TypeOK'
  BY <1>1, <1>3 DEF IInv, TypeOK
<1>5. \A e \in UnderWay' : c \in Once => e.client # c
  <2> SUFFICES ASSUME NEW e \in UnderWay', c \in Once, e.client = c PROVE FALSE
    OBVIOUS
  <2>1. e \in UnderWay /\ e \in Datagram /\ d \in UnderWay
    BY <1>1 DEF IInv, TypeOK, UnderWay
  <2>2. e.from = d.from /\ e.line = d.line
    BY <1>2, <2>1 DEF IInv, OneUnderWay, OwnUnderWay
  <2>3. e = d
    BY <1>2, <2>1, <2>2 DEF Datagram
  <2> QED BY <1>1, <2>3 DEF IInv, OneUnderWay, UnderWay
<1>6. \A e \in UnderWay' : e \in UnderWay /\ e.client \in Clients
  BY <1>1 DEF IInv, TypeOK, UnderWay, Datagram
<1>7. OneUnderWay'
  <2>1. \A e \in UnderWay' : e.client \in Once => waits'[e.client] /\ e.line = typed'[e.client]
    BY <1>5, <1>6 DEF IInv, OneUnderWay, TypeOK
  <2> QED BY <1>1, <2>1 DEF IInv, OneUnderWay
<1>8. OwnUnderWay'
  BY <1>6 DEF IInv, OwnUnderWay
<1>9. OwnLines'
  BY <1>2 DEF IInv, OwnLines, TypeOK
<1> QED BY <1>4, <1>7, <1>8, <1>9 DEF IInv

(* A loss takes a datagram away and leaves the client waiting.             *)
LEMMA LoseKeepsIInv == IInv /\ Lose => IInv'
<1> SUFFICES ASSUME IInv, NEW d \in requests \cup replies,
                    requests' \subseteq requests, replies' \subseteq replies,
                    lost' = lost \cup {d.client},
                    UNCHANGED <<server, mesg, clientVars, copies>>
             PROVE  IInv'
  BY DEF Lose
<1> USE DEF IInv, clientVars
<1>1. TypeOK'
  BY DEF TypeOK, Datagram
<1>2. OneUnderWay'
  BY DEF OneUnderWay, UnderWay
<1>3. OwnUnderWay' /\ OwnLines'
  BY DEF OwnUnderWay, UnderWay, OwnLines
<1> QED BY <1>1, <1>2, <1>3

(* Whatever is lost, repeated or overtaken, every datagram holds a line of *)
(* the client it goes to, and there is at most one of each client that is  *)
(* not repeated, the one it waits for.                                     *)
THEOREM Invariance == Spec => []IInv
<1>1. IInv /\ [Next]_vars => IInv'
  <2> SUFFICES ASSUME IInv, [Next]_vars PROVE IInv'
    OBVIOUS
  <2>1. CASE Server
    BY <2>1, RecvKeepsIInv, ReturnKeepsIInv DEF Server
  <2>2. CASE Lose
    BY <2>2, LoseKeepsIInv
  <2>3. CASE \E c \in Clients : SendLine(c) \/ PrintReply(c)
    BY <2>3, SendLineKeepsIInv, PrintReplyKeepsIInv
  <2>4. CASE UNCHANGED vars
    BY <2>4 DEF vars, clientVars, IInv, TypeOK, OneUnderWay, OwnUnderWay, UnderWay, OwnLines
  <2> QED BY <2>1, <2>2, <2>3, <2>4 DEF Next
<1> QED BY InitIInv, <1>1, PTL DEF Spec

(* Every variable keeps its type, and the server has one datagram at a     *)
(* time in its buffer (server.c:30-37).                                    *)
THEOREM TypeCorrect == Spec => []TypeOK
  BY Invariance, PTL DEF IInv

(* Whatever the network repeats, and to whom, nobody is shown a line of    *)
(* another client or one it has not typed (server.c:33-36).                *)
THEOREM OwnLinesOnly == Spec => []OwnLines
  BY Invariance, PTL DEF IInv

-----------------------------------------------------------------------------
(* The refinement *)

(* Nothing asked, nothing answered, everything owed.                       *)
LEMMA InitService == Init => Service!Init
<1> SUFFICES ASSUME Init PROVE Service!Init
  OBVIOUS
<1>1. [c \in Once |-> Running /\ c \notin lost] = [c \in Once |-> TRUE]
  BY Zenon DEF Init, Running
<1>2. /\ [c \in Once |-> typed[c]] = [c \in Once |-> 0]
      /\ [c \in Once |-> recvline[c].line] = [c \in Once |-> 0]
      /\ [c \in Once |-> waits[c]] = [c \in Once |-> FALSE]
  BY UdpEchoAssumption DEF Init
<1> QED BY <1>1, <1>2 DEF Service!Init

(* A step that neither types nor prints anything takes at most clients off *)
(* the service: those who lost a datagram, or all when the server ends.    *)
LEMMA ReleaseService ==
  ASSUME UNCHANGED clientVars, NEW gone \in SUBSET Once,
         \A c \in Once :
           Running' /\ c \notin lost' <=> Running /\ c \notin lost /\ c \notin gone
  PROVE  Service!Next
<1> DEFINE owed == [c \in Once |-> Running /\ c \notin lost]
<1>1. owed' = [c \in Once |-> (Running /\ c \notin lost) /\ c \notin gone]
  OBVIOUS
<1>2. [c \in Once |-> owed[c] /\ c \notin gone] = [c \in Once |-> (Running /\ c \notin lost) /\ c \notin gone]
  OBVIOUS
<1>3. owed' = [c \in Once |-> owed[c] /\ c \notin gone]
  BY <1>1, <1>2
<1>4. UNCHANGED <<[c \in Once |-> typed[c]], [c \in Once |-> recvline[c].line], [c \in Once |-> waits[c]]>>
  BY DEF clientVars
<1>5. Service!Release
  BY <1>3, <1>4 DEF Service!Release
<1> QED BY <1>5 DEF Service!Next

(* Typing is asking, printing is answering, a loss or the end of the       *)
(* server releases the service, and everything else is a stutter.          *)
LEMMA StepService == IInv /\ [Next]_vars => [Service!Next]_Service!service
<1> SUFFICES ASSUME IInv, Next PROVE Service!Next \/ UNCHANGED Service!service
  BY DEF vars, clientVars, Running, Service!service
<1>1. CASE Server
  <2>1. UNCHANGED <<clientVars, lost>> /\ Running
    BY <1>1 DEF Server, Recv, ReadNext, Return
  <2>2. CASE Running'
    BY <2>1, <2>2 DEF clientVars, Service!service
  <2>3. CASE ~Running'
    BY <2>1, <2>3, ReleaseService DEF Running
  <2> QED BY <2>2, <2>3
<1>2. CASE Lose
  <2>1. PICK d \in requests \cup replies : lost' = lost \cup {d.client}
    BY <1>2 DEF Lose
  <2>2. UNCHANGED <<clientVars, server>>
    BY <1>2 DEF Lose
  <2> DEFINE gone == {d.client} \cap Once
  <2>3. gone \in SUBSET Once /\ (Running' <=> Running)
    BY <2>2 DEF Running
  <2>4. \A c \in Once : Running' /\ c \notin lost' <=> Running /\ c \notin lost /\ c \notin gone
    BY <2>1, <2>3
  <2> QED BY <2>2, <2>3, <2>4, ReleaseService
<1>3. ASSUME NEW c \in Clients, SendLine(c) PROVE Service!Next \/ UNCHANGED Service!service
  <2>1. CASE c \in Once
    <3>1. UNCHANGED [b \in Once |-> Running /\ b \notin lost]
      BY <1>3, Zenon DEF SendLine, Send, Running
    <3>2. UNCHANGED [b \in Once |-> recvline[b].line]
      BY <1>3 DEF SendLine, Send
    <3>3. /\ [b \in Once |-> typed[b]]' = [[b \in Once |-> typed[b]] EXCEPT ![c] = @ + 1]
          /\ [b \in Once |-> waits[b]]' = [[b \in Once |-> waits[b]] EXCEPT ![c] = TRUE]
      BY <1>3, <2>1, UdpEchoAssumption DEF SendLine, Send, IInv, TypeOK
    <3>4. ~[b \in Once |-> waits[b]][c]
      BY <1>3, <2>1 DEF SendLine
    <3>5. Service!Ask(c)
      BY <3>1, <3>2, <3>3, <3>4 DEF Service!Ask
    <3> QED BY <2>1, <3>5 DEF Service!Next
  <2>2. CASE c \notin Once
    BY <1>3, <2>2, UdpEchoAssumption
    DEF SendLine, Send, Service!service, Running, IInv, TypeOK
  <2> QED BY <2>1, <2>2
<1>4. ASSUME NEW c \in Clients, PrintReply(c) PROVE Service!Next \/ UNCHANGED Service!service
  <2>1. PICK d \in replies :
          /\ d.client = c
          /\ recvline' = [recvline EXCEPT ![c] = [from |-> d.from, line |-> d.line]]
    BY <1>4 DEF PrintReply
  <2>2. waits[c] /\ waits' = [waits EXCEPT ![c] = FALSE] /\ UNCHANGED <<typed, server, lost>>
    BY <1>4 DEF PrintReply
  <2>3. CASE c \in Once
    <3>1. d.line = typed[c]
      BY <2>1, <2>3 DEF IInv, OneUnderWay, UnderWay
    <3>2. UNCHANGED [b \in Once |-> Running /\ b \notin lost]
      BY <2>2, Zenon DEF Running
    <3>3. UNCHANGED [b \in Once |-> typed[b]]
      BY <2>2
    <3>4. /\ [b \in Once |-> recvline[b].line]'
               = [[b \in Once |-> recvline[b].line] EXCEPT ![c] = [b \in Once |-> typed[b]][c]]
          /\ [b \in Once |-> waits[b]]' = [[b \in Once |-> waits[b]] EXCEPT ![c] = FALSE]
      BY <2>1, <2>2, <2>3, <3>1, UdpEchoAssumption DEF IInv, TypeOK
    <3>5. [b \in Once |-> waits[b]][c]
      BY <2>2, <2>3
    <3>6. Service!Answer(c)
      BY <3>2, <3>3, <3>4, <3>5 DEF Service!Answer
    <3> QED BY <2>3, <3>6 DEF Service!Next
  <2>4. CASE c \notin Once
    <3>1. /\ UNCHANGED [b \in Once |-> typed[b]]
          /\ UNCHANGED [b \in Once |-> recvline[b].line]
          /\ UNCHANGED [b \in Once |-> waits[b]]
      BY <2>1, <2>2, <2>4, UdpEchoAssumption DEF IInv, TypeOK
    <3>2. UNCHANGED [b \in Once |-> Running /\ b \notin lost]
      BY <2>2, Zenon DEF Running
    <3> QED BY <3>1, <3>2 DEF Service!service
  <2> QED BY <2>3, <2>4
<1> QED BY <1>1, <1>2, <1>3, <1>4 DEF Next

(* Whatever is lost, overtaken or repeated to others, the only answer that *)
(* a client is given whose datagrams the network does not repeat is the    *)
(* line it sent last: for these clients UdpEcho implements the safety part *)
(* of EchoService (client.c:25-32).                                        *)
THEOREM ImplementsServiceSafety == Spec => Service!Spec
  BY Invariance, InitService, StepService, PTL DEF Spec, Service!Spec

=============================================================================
