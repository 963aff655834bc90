------------------------------ MODULE UdpEcho -------------------------------
(***************************************************************************)
(* Tai_lieu_tham_khao/UDP: a server that returns each datagram to where it *)
(* came from, and clients that send a line and wait for the answer, for as *)
(* long as it takes.  Datagrams overtake one another and may be lost, and  *)
(* those of some clients may be delivered more than once.                  *)
(***************************************************************************)
EXTENDS Integers, FiniteSets

CONSTANTS
  Clients,
  Once,       \* assumption on the network: whose datagrams it never repeats
  Lines,      \* bound: the lines typed into one client
  Copies      \* bound: how often the network repeats one in all

ASSUME UdpEchoAssumption ==
  /\ Once \subseteq Clients
  /\ Lines \in Nat
  /\ Copies \in Nat

VARIABLES
  server,     \* "running", or "undefined" once it has read past mesg
  requests,   \* datagrams under way to the server
  replies,    \* datagrams under way to the clients
  mesg,       \* what the server has received and not yet returned
  typed,      \* typed[c]: how many lines have been typed into c
  waits,      \* waits[c]: c is in recvfrom()
  recvline,   \* recvline[c]: the line that c printed last
  copies,     \* how often the network has repeated one
  lost        \* history: the clients of the datagrams the network has lost

clientVars == <<typed, waits, recvline>>
vars == <<server, requests, replies, mesg, clientVars, copies, lost>>

(* The address of a client, and a line that some client typed.             *)
Datagram == [client : Clients, from : Clients, line : Nat]

Running == server = "running"

Init ==
  /\ server = "running"
  /\ requests = {}
  /\ replies = {}
  /\ mesg = {}
  /\ typed = [c \in Clients |-> 0]
  /\ waits = [c \in Clients |-> FALSE]
  /\ recvline = [c \in Clients |-> [from |-> c, line |-> 0]]
  /\ copies = 0
  /\ lost = {}

(* Datagram d of box is delivered, perhaps not for the last time.          *)
Deliver(box, d) ==
  \/ box' = box \ {d} /\ UNCHANGED copies
  \/ /\ d.client \notin Once
     /\ copies < Copies
     /\ copies' = copies + 1
     /\ UNCHANGED box

-----------------------------------------------------------------------------
(* The server *)

ReadNext ==
  /\ Running
  /\ \E d \in requests : mesg' = mesg \cup {d} /\ Deliver(requests, d)
  /\ server' \in {"running", "undefined"}
  /\ UNCHANGED <<replies, clientVars, lost>>

(* Mutant: one more datagram is read before the first is returned.         *)
Recv_More == ReadNext

(* mesg is printed as a string and has no terminator.                      *)
Recv == mesg = {} /\ ReadNext

(* Mutant: the answer goes to whoever sent the next datagram.              *)
Return_Shared ==
  /\ Running
  /\ mesg # {}
  /\ \E d \in mesg, e \in requests \cup mesg :
       replies' = replies \cup {[d EXCEPT !.client = e.client]}
  /\ mesg' = {}
  /\ UNCHANGED <<server, requests, clientVars, copies, lost>>

(* recvfrom() has left the sender's address in cliaddr.                    *)
Return ==
  /\ Running
  /\ mesg # {}
  /\ replies' = replies \cup mesg
  /\ mesg' = {}
  /\ UNCHANGED <<server, requests, clientVars, copies, lost>>

-----------------------------------------------------------------------------
(* A client *)

Send(c) ==
  /\ typed[c] < Lines
  /\ typed' = [typed EXCEPT ![c] = @ + 1]
  /\ requests' = requests \cup {[client |-> c, from |-> c, line |-> typed[c] + 1]}
  /\ waits' = [waits EXCEPT ![c] = TRUE]
  /\ UNCHANGED <<server, replies, mesg, recvline, copies, lost>>

(* Mutant: the next line is sent before the answer has come.               *)
SendLine_NoWait(c) == Send(c)

SendLine(c) == ~waits[c] /\ Send(c)

(* Whatever arrives is taken for the answer: a reply that is repeated, to  *)
(* an earlier line as well.                                                *)
PrintReply(c) ==
  /\ waits[c]
  /\ \E d \in replies :
       /\ d.client = c
       /\ Deliver(replies, d)
       /\ recvline' = [recvline EXCEPT ![c] = [from |-> d.from, line |-> d.line]]
  /\ waits' = [waits EXCEPT ![c] = FALSE]
  /\ UNCHANGED <<server, requests, mesg, typed, lost>>

Lose ==
  /\ \/ \E d \in requests :
          /\ requests' = requests \ {d}
          /\ lost' = lost \cup {d.client}
          /\ UNCHANGED replies
     \/ \E d \in replies :
          /\ replies' = replies \ {d}
          /\ lost' = lost \cup {d.client}
          /\ UNCHANGED requests
  /\ UNCHANGED <<server, mesg, clientVars, copies>>

-----------------------------------------------------------------------------
Server == Recv \/ Return

Next == Server \/ Lose \/ \E c \in Clients : SendLine(c) \/ PrintReply(c)

Spec == Init /\ [][Next]_vars

(* Programs are scheduled for ever; users need not type.                   *)
FairSpec == Spec /\ WF_vars(Server) /\ \A c \in Clients : WF_vars(PrintReply(c))

-----------------------------------------------------------------------------
TypeOK ==
  /\ server \in {"running", "undefined"}
  /\ requests \subseteq Datagram
  /\ replies \subseteq Datagram
  /\ mesg \subseteq Datagram
  /\ Cardinality(mesg) <= 1
  /\ typed \in [Clients -> 0 .. Lines]
  /\ waits \in [Clients -> BOOLEAN]
  /\ recvline \in [Clients -> [from : Clients, line : 0 .. Lines]]
  /\ copies \in 0 .. Copies
  /\ lost \subseteq Clients

(* However datagrams are repeated and overtake one another, nobody is      *)
(* shown another client's line, or one that it has not typed yet: what is  *)
(* in mesg goes to the address that came with it (server.c:33-36).         *)
OwnLines ==
  \A c \in Clients : recvline[c].from = c /\ recvline[c].line <= typed[c]

(* The clients wait without a timeout and never send a line again.  For    *)
(* one whose datagrams the network does not repeat there is at most one of *)
(* them anywhere, so that what it prints is the line it sent last; and     *)
(* nothing keeps it waiting but a loss of its own or the end of the        *)
(* server, whatever is repeated to others (client.c:25-32, server.c:30-37).*)
(* Of a client that is repeated to this is not true: the second copy of an *)
(* answer is printed as the answer to the next line.                       *)
Service == INSTANCE EchoService WITH
  Clients <- Once,
  asked <- [c \in Once |-> typed[c]],
  answered <- [c \in Once |-> recvline[c].line],
  waits <- [c \in Once |-> waits[c]],
  owed <- [c \in Once |-> Running /\ c \notin lost]

ImplementsService == Service!FairSpec

(* A client that is repeated to does not wait for ever either, while       *)
(* nothing of its own is lost and the server goes on: repeats come on top  *)
(* of the answers, and take up none of the turns of others.                *)
Answered ==
  \A c \in Clients : waits[c] ~> (~waits[c] \/ c \in lost \/ ~Running)

=============================================================================
