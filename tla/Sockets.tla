------------------------------ MODULE Sockets ------------------------------
(***************************************************************************)
(* The stream sockets of the kernel, as the chat and echo programs use     *)
(* them: one listening socket, and for each client process the one         *)
(* connection it makes.  The kernel is not in the repository; this module  *)
(* says what socket, listen, connect, recv, send and the end of a process  *)
(* do to the two byte streams of a connection.                             *)
(*                                                                         *)
(* No server of the repository but the forked children of multi-process    *)
(* ever calls close() on an accepted socket, so a descriptor number is     *)
(* never given out twice, and a connection, its descriptor in the server   *)
(* and the client process that made it are one value of Clients.           *)
(*                                                                         *)
(* Bytes are numbered: the n-th byte that client c ever sends is the pair  *)
(* (c, n), so a run of consecutive bytes is an interval, and its text is   *)
(* nothing but its place in the stream.                                    *)
(***************************************************************************)
EXTENDS Integers, Sequences

CONSTANTS
  Clients,    \* the client processes
  NoSocket,   \* the descriptor -1
  Window      \* pieces of data a connection holds before send() blocks

ASSUME SocketsAssumption ==
  /\ NoSocket \notin Clients
  /\ Window \in Nat \ {0}

VARIABLES
  server,   \* the server process
  conn,     \* conn[c]: the client's end of the connection of c
  backlog,  \* connections made and not yet accepted, oldest first
  sent,     \* sent[c]: how many bytes c has sent
  taken,    \* taken[c]: how many of them recv() has returned to the server
  stream,   \* stream[c]: everything the server's send() has queued for c
  shown,    \* shown[c]: how many entries of stream[c] the client has received
  sockerr   \* sockerr[c]: the error pending on the server's end

netVars == <<server, conn, backlog, sent, taken, stream, shown, sockerr>>

-----------------------------------------------------------------------------
(* "exited" is exit() or a return from main, "killed" is death by SIGPIPE, *)
(* and in "undefined" the server has run into undefined behaviour of C and *)
(* nothing more is said of it.                                             *)
ServerStates == {"running", "exited", "killed", "undefined"}

ConnStates == {"none", "open", "closed"}

(* "reset": a RST came from a peer that closed with unread data, the next  *)
(* call on the socket fails with ECONNRESET.  "broken": a RST answered     *)
(* data sent after the peer's FIN, or ECONNRESET has been reported: the    *)
(* next send() raises SIGPIPE.                                             *)
SockErrors == {"none", "reset", "broken"}

Run == [from : Clients \cup {NoSocket}, lo : Nat, hi : Nat]

Size(r) == r.hi - r.lo + 1

Running == server = "running"

Unread(c) == sent[c] - taken[c]

(* The peer is gone and everything it sent has been read: recv() returns 0 *)
(* or fails.                                                               *)
AtEnd(c) == conn[c] = "closed" /\ Unread(c) = 0

(* The bytes recv(c, ., size) returns: any non-empty prefix of what has    *)
(* arrived that fits in size.                                              *)
Arrived(c, size) ==
  {[from |-> c, lo |-> taken[c] + 1, hi |-> taken[c] + n] :
      n \in {k \in 1 .. size : k <= Unread(c)}}

NoRun(c) == [from |-> c, lo |-> 1, hi |-> 0]

NetInit ==
  /\ server = "running"
  /\ conn = [c \in Clients |-> "none"]
  /\ backlog = << >>
  /\ sent = [c \in Clients |-> 0]
  /\ taken = [c \in Clients |-> 0]
  /\ stream = [c \in Clients |-> << >>]
  /\ shown = [c \in Clients |-> 0]
  /\ sockerr = [c \in Clients |-> "none"]

-----------------------------------------------------------------------------
(* The server's calls *)

(* recv() returns 0, or -1 while "reset" is pending; either way a later    *)
(* recv() returns 0.                                                       *)
ReportEnd(c) ==
  sockerr' = [sockerr EXCEPT ![c] = IF @ = "reset" THEN "broken" ELSE @]

(* send(): queued for a peer that is there, and blocked while the window   *)
(* is full; to a peer that is gone it is lost, and leaves the socket       *)
(* broken.                                                                 *)
CanSend(c) ==
  \/ conn[c] = "open" /\ Len(stream[c]) - shown[c] < Window
  \/ conn[c] = "closed" /\ sockerr[c] # "broken"

Send(c, data) ==
  /\ CanSend(c)
  /\ IF conn[c] = "open"
     THEN /\ stream' = [stream EXCEPT ![c] = @ \o data]
          /\ UNCHANGED sockerr
     ELSE /\ sockerr' = [sockerr EXCEPT ![c] = "broken"]
          /\ UNCHANGED stream

RaisesSigpipe(c) == conn[c] = "closed" /\ sockerr[c] = "broken"

-----------------------------------------------------------------------------
(* The client's end *)

(* connect(): completed by the kernel as soon as the server listens, long  *)
(* before it accepts.                                                      *)
Establish(c) ==
  /\ conn[c] = "none"
  /\ Running
  /\ conn' = [conn EXCEPT ![c] = "open"]
  /\ backlog' = Append(backlog, c)

(* A client process ends, with the sockets of S: a close with unread data  *)
(* resets the connection, any other sends a FIN.                           *)
CloseEnds(S) ==
  /\ conn' = [c \in Clients |-> IF c \in S THEN "closed" ELSE conn[c]]
  /\ sockerr' = [c \in Clients |->
                   IF c \in S /\ conn[c] = "open" /\ shown[c] < Len(stream[c])
                   THEN "reset" ELSE sockerr[c]]

Transmit(c, n) == sent' = [sent EXCEPT ![c] = @ + n]

=============================================================================
