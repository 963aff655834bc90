--------------------------- MODULE DtlsHandshake ----------------------------
(***************************************************************************)
(* DTLS/Code: client.c and server.c, one of each.  After a datagram that   *)
(* tells the server that there is a client, both turn a loop around        *)
(* SSL_do_handshake() until it returns 1.                                  *)
(*                                                                         *)
(* The SSL objects sit on two datagram BIOs of one socket, readBIO and     *)
(* writeBIO (BIO_s_datagram, which is not in the repository).  Such a BIO  *)
(* sends to the peer it knows, and learns it from the first datagram that  *)
(* is read through this BIO; the lines that would tell it are commented    *)
(* out.  Without a peer sendto() fails with EINVAL.  Reading blocks.       *)
(* Timers for lost flights run inside a read through such a BIO only, and  *)
(* only once a flight has been sent.                                       *)
(*                                                                         *)
(* SSL_do_handshake() returns 1 or -1.  The programs compare this with     *)
(* SSL_ERROR_WANT_READ and SSL_ERROR_WANT_WRITE, 2 and 3, and never enter  *)
(* these branches.                                                         *)
(***************************************************************************)
EXTENDS Integers, Sequences

VARIABLES
  pc,        \* pc[e]: where e is
  socket,    \* socket[e]: datagrams that have arrived at e, 0 for a text
  flights,   \* flights[e]: how many flights of the four e has sent or read
  peer,      \* peer[e]: those BIOs of e that know the peer
  ret        \* ret[e]: what SSL_do_handshake() has returned last

vars == <<pc, socket, flights, peer, ret>>

Ends == {"client", "server"}

Peer(e) == IF e = "client" THEN "server" ELSE "client"

Init ==
  /\ pc = [client |-> "hello", server |-> "recvfrom"]
  /\ socket = [e \in Ends |-> << >>]
  /\ flights = [e \in Ends |-> 0]
  /\ peer = [e \in Ends |-> {}]
  /\ ret = [e \in Ends |-> 0]

Moves(e, from, to) == pc[e] = from /\ pc' = [pc EXCEPT ![e] = to]

Sends(e, datagram) == socket' = [socket EXCEPT ![Peer(e)] = Append(@, datagram)]

Reads(e) == socket[e] # << >> /\ socket' = [socket EXCEPT ![e] = Tail(@)]

-----------------------------------------------------------------------------
(* client.c:40-48: the hello, in plain text; server.c:85-94 waits for it.  *)
SendHello ==
  /\ Moves("client", "hello", "handshake")
  /\ Sends("client", 0)
  /\ UNCHANGED <<flights, peer, ret>>

RecvHello ==
  /\ Moves("server", "recvfrom", "handshake")
  /\ Reads("server")
  /\ UNCHANGED <<flights, peer, ret>>

-----------------------------------------------------------------------------
(* SSL_do_handshake() *)

Returns(e, value) ==
  /\ ret' = [ret EXCEPT ![e] = value]
  /\ Moves(e, "handshake", "returned")

Continues(e) == pc[e] = "handshake" /\ UNCHANGED <<pc, ret>>

Advances(e) ==
  /\ flights' = [flights EXCEPT ![e] = @ + 1]
  /\ IF flights[e] = 3 THEN Returns(e, 1) ELSE Continues(e)

MyTurn(e) == flights[e] % 2 = IF e = "client" THEN 0 ELSE 1

SendFlight(e) ==
  /\ MyTurn(e)
  /\ "writeBIO" \in peer[e]
  /\ Sends(e, flights[e] + 1)
  /\ Advances(e)
  /\ UNCHANGED peer

SendFails(e) ==
  /\ MyTurn(e)
  /\ "writeBIO" \notin peer[e]
  /\ Returns(e, -1)
  /\ UNCHANGED <<socket, flights, peer>>

(* What is not the next flight is dropped.                                 *)
ReadFlight(e) ==
  /\ ~MyTurn(e)
  /\ Reads(e)
  /\ peer' = [peer EXCEPT ![e] = @ \cup {"readBIO"}]
  /\ IF Head(socket[e]) = flights[e] + 1
     THEN Advances(e)
     ELSE Continues(e) /\ UNCHANGED flights

-----------------------------------------------------------------------------
(* The loops *)

LoopTest(e, from) ==
  Moves(e, from, IF ret[e] = 1 THEN "complete" ELSE "handshake")

(* server.c:119-128 asks writeBIO for output only after WANT_WRITE.        *)
ServerAfter ==
  /\ LoopTest("server", "returned")
  /\ UNCHANGED <<socket, flights, peer, ret>>

(* client.c:118-130 always does; but what BIO_read() of a datagram BIO     *)
(* reads is the socket, and it is sent to the server.                      *)
ClientAfter ==
  /\ socket["client"] # << >>
  /\ socket' = [client |-> Tail(socket["client"]),
                server |-> Append(socket["server"], Head(socket["client"]))]
  /\ peer' = [peer EXCEPT !["client"] = @ \cup {"writeBIO"}]
  /\ LoopTest("client", "returned")
  /\ UNCHANGED <<flights, ret>>

SSL_do_handshake(e) == SendFlight(e) \/ SendFails(e) \/ ReadFlight(e)

Client == SendHello \/ SSL_do_handshake("client") \/ ClientAfter

Server == RecvHello \/ SSL_do_handshake("server") \/ ServerAfter

Next == Client \/ Server

FairSpec == Init /\ [][Next]_vars /\ WF_vars(Client) /\ WF_vars(Server)

-----------------------------------------------------------------------------
(* client.c:118: "if there is encrypted data to send, send it to the       *)
(* server"; client.c:133 and server.c:138: "SSL handshake complete".  When *)
(* no datagram is lost, both loops end.                                    *)
HandshakeCompletes == <>(\A e \in Ends : pc[e] = "complete")

=============================================================================
