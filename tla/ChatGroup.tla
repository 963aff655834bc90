----------------------------- MODULE ChatGroup ------------------------------
(***************************************************************************)
(* The chat: the server of ChatServer and one ChatClient process per       *)
(* element of Clients, over the connections of Sockets.                    *)
(***************************************************************************)
EXTENDS ChatServer, ChatClient

CONSTANT Paced   \* assumption on the users, see Joins

ASSUME ChatGroupAssumption ==
  /\ Paced \in BOOLEAN
  /\ \A c \in Patient : NameSize[c] <= BUFFER_SIZE

vars == <<netVars, serverVars>>

(* Every thread that was created has taken its copy of client_sockfd, and  *)
(* main is back in accept().                                               *)
Quiet ==
  /\ backlog = << >>
  /\ main = "accept"
  /\ \A t \in Threads : pc[t] # "start"

(* A client process is started by hand in a terminal of its own.  With     *)
(* Paced, users do so far enough apart for the server to hand the last     *)
(* connection over; without it, connections may come at any time.          *)
Joins(c) ==
  /\ Paced => Quiet
  /\ Connect(c)
  /\ UNCHANGED serverVars

(* The other assumption on users: a patient one types the first message    *)
(* when the server has read the name.  The rest may do so at once.         *)
Speaks(c) ==
  /\ c \in Patient => taken[c] > 0
  /\ EnterMessage(c)

ClientStep(c) ==
  /\ \/ ConnectRefused(c)
     \/ EnterName(c)
     \/ Speaks(c)
     \/ ShowLine(c)
     \/ ServerDisconnected(c)
     \/ Leave(c)
  /\ UNCHANGED serverVars

Init == NetInit /\ ServerInit

Next == ServerNext \/ \E c \in Clients : Joins(c) \/ ClientStep(c)

Spec == Init /\ [][Next]_vars

(* Every thread of the server and the receiving thread of every client is  *)
(* scheduled for ever; what a user types, and when one leaves, is not.     *)
Fairness ==
  /\ WF_vars(MainThread)
  /\ \A t \in Threads : WF_vars(Handler(t))
  /\ \A c \in Clients : WF_vars((ShowLine(c) \/ ServerDisconnected(c)) /\ UNCHANGED serverVars)

FairSpec == Spec /\ Fairness

-----------------------------------------------------------------------------
Line == [name : Name, text : Run]

TypeOK ==
  /\ server \in ServerStates
  /\ conn \in [Clients -> ConnStates]
  /\ backlog \in Seq(Clients)
  /\ sent \in [Clients -> Nat]
  /\ taken \in [Clients -> Nat]
  /\ stream \in [Clients -> Seq(Line)]
  /\ shown \in [Clients -> Nat]
  /\ sockerr \in [Clients -> SockErrors]
  /\ main \in MainStates
  /\ client_sockfd \in Clients \cup {NoSocket}
  /\ client_number \in 0 .. MAX_CLIENTS
  /\ clients \in [Slots -> Client]
  /\ pc \in [Threads -> ThreadStates]
  /\ socket \in [Threads -> Clients \cup {NoSocket}]
  /\ client_name \in [Threads -> Name]
  /\ buffer \in [Threads -> Run]
  /\ cursor \in [Threads -> Nat]
  /\ target \in [Threads -> Clients \cup {NoSocket}]
  /\ \A t \in Threads : pc[t] \in {"test", "send"} => cursor[t] \in Slots

InBacklog(c) == \E k \in 1 .. Len(backlog) : backlog[k] = c

(* Accepted, and main has not reached the store into clients yet.          *)
InHand(c) == main = "dispatch" /\ client_sockfd = c

(* However connections race: a client that is connected and has been       *)
(* accepted keeps its slot until it leaves, whichever threads serve it     *)
(* and whichever other clients come and go (server.c:69-77).               *)
NoLiveClientDropped ==
  Running =>
    \A c \in Clients :
      conn[c] = "open" /\ ~InBacklog(c) /\ ~InHand(c) => Registered(c)

(* No client is ever sent a message of its own (server.c:60), whichever    *)
(* thread read that message.                                               *)
NeverEchoed ==
  \A c \in Clients : \A k \in 1 .. Len(stream[c]) : stream[c][k].text.from # c

(* A client is sent nothing before the server has read its name            *)
(* (server.c:60, name != NULL).                                            *)
SilentUntilNamed ==
  \A c \in Clients : stream[c] # << >> => taken[c] > 0

-----------------------------------------------------------------------------
(* Properties of the chat when users join one at a time                    *)

(* chat_group/Readme.md:13: a new thread is created to handle this         *)
(* connection.  The thread created for a slot serves the client that main  *)
(* stored in that slot, so no two threads read from one client and no      *)
(* client is left without a thread.                                        *)
EachThreadServesItsSlot ==
  Running =>
    \A t \in Threads :
      pc[t] \notin {"none", "start"} => clients[t - 1].sockfd \in {socket[t], NoSocket}

(* The name begins with the first byte that the sender of the text sent    *)
(* and ends in front of the text; and what a patient client sent of it is  *)
(* the name its user entered.                                              *)
Signed(line) ==
  LET d == line.text.from
  IN  /\ line.name.from = d
      /\ line.name.lo = 1
      /\ line.name.hi < line.text.lo
      /\ d \in Patient => line.name.hi = NameSize[d]

(* Every line goes by a name of its own sender and no one else's, nobody   *)
(* is shown a byte both as name and as text, and a sender has one name, on *)
(* all its lines and for everybody (server.c:30-43, 52-57).  It is not     *)
(* always the name that was entered: behind it comes what was on the       *)
(* stack, and when the user does not wait or TCP cuts, it is a part of     *)
(* what was entered, or that and the next message.                         *)
SignedBySender ==
  \A c \in Clients : \A k \in 1 .. Len(stream[c]) :
    /\ Signed(stream[c][k])
    /\ \A b \in Clients : \A i \in 1 .. Len(stream[b]) :
         stream[b][i].text.from = stream[c][k].text.from => stream[b][i].name = stream[c][k].name

(* In what c is sent, the j-th line is the next of the i-th one's sender.  *)
NextFrom(c, i, j) ==
  /\ i < j
  /\ stream[c][j].text.from = stream[c][i].text.from
  /\ \A k \in i + 1 .. j - 1 : stream[c][k].text.from # stream[c][i].text.from

(* What c is sent of what d typed is a piece of the stream of d: in order, *)
(* nothing twice, and from its first line on nothing left out, whoever     *)
(* else talks, joins or leaves meanwhile (server.c:47-64).                 *)
NoGapNoRepeat ==
  \A c \in Clients : \A i, j \in 1 .. Len(stream[c]) :
    NextFrom(c, i, j) => stream[c][j].text.lo = stream[c][i].text.hi + 1

-----------------------------------------------------------------------------
(* What the documentation says, and the code does not do                   *)

(* chat_group/Readme.md:11: the server listens for ever.  A client that    *)
(* leaves must not end it.                                                 *)
SurvivesLeavers == server # "killed"

-----------------------------------------------------------------------------
(* Liveness *)

Gone(c) == conn[c] = "closed"

(* A thread is about to send out the bytes of d from the n-th on.          *)
PassingOn(d, n) ==
  \E t \in Threads :
    At(t, "test") /\ cursor[t] = 0 /\ socket[t] = d /\ buffer[t].lo = n

Named(c) == \E j \in Slots : clients[j].sockfd = c /\ clients[j].named

Shown(c, d, n) ==
  \E k \in 1 .. shown[c] : stream[c][k].text.from = d /\ stream[c][k].text.lo = n

(* A message that a thread starts to pass on is shown to every other       *)
(* client that has a name by then, unless that client leaves or the server *)
(* dies: no client that stops typing, leaves or is slow holds it up for    *)
(* ever (server.c:58-64, client.c:51-66).                                  *)
Delivered ==
  \A d \in Clients : \A c \in Clients \ {d}, n \in 2 .. Typed[d] :
    (PassingOn(d, n) /\ Named(c)) ~> (~Running \/ Gone(c) \/ Shown(c, d, n))

(* However often a client speaks, and even when it leaves at once, there   *)
(* comes a time when the server has read all it sent, although the thread  *)
(* that reads it waits for every client it sends to (server.c:47, 62).     *)
EverythingRead ==
  \A c \in Clients : []<>(~Running \/ Unread(c) = 0)

(* A client that leaves is taken off the list.                             *)
LeaversRemoved ==
  \A c \in Clients : (Running /\ Gone(c)) ~> (~Running \/ ~Registered(c))

=============================================================================
