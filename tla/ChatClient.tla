----------------------------- MODULE ChatClient -----------------------------
(***************************************************************************)
(* chat_group/client.c: after connect() one thread sends what the user     *)
(* types, first a name and then messages, and another prints what arrives. *)
(* The two share nothing but the socket.                                   *)
(***************************************************************************)
EXTENDS Sockets

CONSTANTS
  LineMax,   \* the longest line fgets(message, 1024, stdin) leaves
  NameSize,  \* NameSize[c]: how long the name is that the user of c types
  Typed      \* bound: Typed[c] is how many bytes the user of c types in all

ASSUME ChatClientAssumption ==
  /\ LineMax \in Nat
  /\ NameSize \in [Clients -> 1 .. LineMax]
  /\ Typed \in [Clients -> Nat]

-----------------------------------------------------------------------------
Connect(c) ==
  /\ Establish(c)
  /\ UNCHANGED <<server, sent, taken, stream, shown, sockerr>>

ConnectRefused(c) ==
  /\ conn[c] = "none"
  /\ ~Running
  /\ conn' = [conn EXCEPT ![c] = "closed"]
  /\ UNCHANGED <<server, backlog, sent, taken, stream, shown, sockerr>>

(* Both loops of send_message skip empty lines.  A send() after the server *)
(* has gone loses the line or ends the process, as Leave does.             *)
EnterLine(c, n) ==
  /\ conn[c] = "open"
  /\ sent[c] + n <= Typed[c]
  /\ Transmit(c, n)
  /\ UNCHANGED <<server, conn, backlog, taken, stream, shown, sockerr>>

(* The first thread's loop for the name, and its loop for the messages.    *)
EnterName(c) == sent[c] = 0 /\ EnterLine(c, NameSize[c])
EnterMessage(c) == sent[c] > 0 /\ \E n \in 1 .. LineMax : EnterLine(c, n)

(* recv_message prints what came.                                          *)
ShowLine(c) ==
  /\ conn[c] = "open"
  /\ shown[c] < Len(stream[c])
  /\ shown' = [shown EXCEPT ![c] = @ + 1]
  /\ UNCHANGED <<server, conn, backlog, sent, taken, stream, sockerr>>

(* recv() returned 0 or -1: exit(1).                                       *)
ServerDisconnected(c) ==
  /\ conn[c] = "open"
  /\ ~Running
  /\ shown[c] = Len(stream[c])
  /\ conn' = [conn EXCEPT ![c] = "closed"]
  /\ UNCHANGED <<server, backlog, sent, taken, stream, shown, sockerr>>

(* The user ends the process, at any moment.                               *)
Leave(c) ==
  /\ conn[c] = "open"
  /\ CloseEnds({c})
  /\ UNCHANGED <<server, backlog, sent, taken, stream, shown>>

=============================================================================
