----------------------------- MODULE TlsLibrary -----------------------------
(***************************************************************************)
(* Not in the repository: one TLS session between a client and a server,   *)
(* as the two memory-BIO examples use it (libssl and the kernel).  An SSL  *)
(* object takes ciphertext out of rbio and puts ciphertext into wbio; what *)
(* the program has written to its socket waits in net for the peer.        *)
(*                                                                         *)
(* An end produces messages: the flights of the handshake, and a record    *)
(* for each SSL_write.  The i-th piece of ciphertext of its k-th message   *)
(* is the pair <<k, i>>.  A message is of use when all of it has arrived.  *)
(*                                                                         *)
(* Flights 1 and 3 are the client's, 2 and 4 the server's.  In TLS 1.3 the *)
(* client is done when it has made flight 3, and flight 4 is the tickets   *)
(* that SSL_read takes silently; in TLS 1.2 it has to take flight 4.       *)
(***************************************************************************)
EXTENDS Integers, Sequences

CONSTANTS
  FlightSize,   \* pieces of a flight
  ClientDone    \* flights that finish the client's handshake

ASSUME TlsLibraryAssumption ==
  /\ FlightSize \in Nat \ {0}
  /\ ClientDone \in {3, 4}

VARIABLES
  flights,    \* flights[e]: how many flights e has made or taken
  messages,   \* messages[e]: all that e has made, in order
  rbio,       \* rbio[e]: pieces of the peer's that e's SSL has to read
  wbio,       \* wbio[e]: pieces e's SSL has made
  net,        \* net[e]: pieces e has written and its peer has not read
  broken      \* broken[e]: the peer's RST has come

tlsVars == <<flights, messages, rbio, wbio, net, broken>>

Ends == {"client", "server"}

Peer(e) == IF e = "client" THEN "server" ELSE "client"

Piece == Nat \X Nat

Message == [flight : 0 .. 4, lines : Seq(Nat), size : Nat \ {0}]

Least(m, n) == IF m < n THEN m ELSE n

After(s, n) == SubSeq(s, n + 1, Len(s))

TlsInit ==
  /\ flights = [e \in Ends |-> 0]
  /\ messages = [e \in Ends |-> << >>]
  /\ rbio = [e \in Ends |-> << >>]
  /\ wbio = [e \in Ends |-> << >>]
  /\ net = [e \in Ends |-> << >>]
  /\ broken = [e \in Ends |-> FALSE]

-----------------------------------------------------------------------------
(* The SSL object *)

SSL_is_init_finished(e) ==
  flights[e] >= IF e = "client" THEN ClientDone ELSE 4

(* The message of the peer that is next in rbio, the pieces of it that are *)
(* there or still to come, and whether they are all there.                 *)
Front(e) == messages[Peer(e)][rbio[e][1][1]]
Due(e) == Front(e).size - rbio[e][1][2] + 1
Whole(e) == rbio[e] # << >> /\ Due(e) <= Len(rbio[e])

Makes(e, flight, lines, size) ==
  /\ messages' = [messages EXCEPT ![e] =
                    Append(@, [flight |-> flight, lines |-> lines, size |-> size])]
  /\ wbio' = [wbio EXCEPT ![e] =
                @ \o [i \in 1 .. size |-> <<Len(messages[e]) + 1, i>>]]

Takes(e, n) == rbio' = [rbio EXCEPT ![e] = After(@, n)]

MakesFlight(e, f) ==
  /\ flights' = [flights EXCEPT ![e] = f]
  /\ Makes(e, f, << >>, FlightSize)

ClientHello(e) == e = "client" /\ flights[e] = 0

SSL_do_handshake(e) ==
  \/ ClientHello(e) /\ MakesFlight(e, 1) /\ UNCHANGED rbio
  \/ /\ ~ClientHello(e) /\ Whole(e)
     /\ Takes(e, FlightSize)
     /\ IF flights[e] = 3
        THEN flights' = [flights EXCEPT ![e] = 4] /\ UNCHANGED <<messages, wbio>>
        ELSE MakesFlight(e, flights[e] + 2)
  \/ ~ClientHello(e) /\ ~Whole(e) /\ UNCHANGED <<flights, messages, rbio, wbio>>

(* At most n pieces of a whole message, plaintext being counted like the   *)
(* ciphertext it comes from.                                               *)
SSL_read(e, n) ==
  /\ Whole(e)
  /\ Takes(e, Least(n, Due(e)))
  /\ flights' = [flights EXCEPT ![e] = IF Front(e).flight = 4 THEN 4 ELSE @]
  /\ UNCHANGED <<messages, wbio>>

(* The lines of a record are out when its last piece is.                   *)
LinesRead(e, n) == IF Due(e) <= n THEN Front(e).lines ELSE << >>

SSL_write(e, lines, size) ==
  Makes(e, 0, lines, size) /\ UNCHANGED <<flights, rbio>>

-----------------------------------------------------------------------------
(* The connection *)

(* read() into rbio.                                                       *)
Receive(e, size) ==
  \E n \in 1 .. Least(size, Len(net[Peer(e)])) :
    /\ rbio' = [rbio EXCEPT ![e] = @ \o SubSeq(net[Peer(e)], 1, n)]
    /\ net' = [net EXCEPT ![Peer(e)] = After(@, n)]

(* What has not been read when a program ends is answered with an RST.     *)
(* The kernel reports such an RST to the first write() or read() after it  *)
(* (ECONNRESET), and the write() after that raises SIGPIPE: for a program  *)
(* that ignores the first error, broken means both of them at once, since  *)
(* nothing it does between them reaches the peer.                          *)
Disconnect(e) ==
  /\ net' = [net EXCEPT ![Peer(e)] = << >>]
  /\ broken' = [broken EXCEPT ![Peer(e)] = @ \/ net[Peer(e)] # << >>]

-----------------------------------------------------------------------------
TlsTypeOK ==
  /\ flights \in [Ends -> 0 .. 4]
  /\ messages \in [Ends -> Seq(Message)]
  /\ {rbio, wbio, net} \subseteq [Ends -> Seq(Piece)]
  /\ broken \in [Ends -> BOOLEAN]

(* The pieces of s follow one another in the stream of e, up to its end.   *)
RunsToTheEnd(e, s) ==
  LET last == Len(messages[e])
  IN  \A i \in 1 .. Len(s) :
        LET k == s[i][1]
            next == IF s[i][2] < messages[e][k].size
                    THEN <<k, s[i][2] + 1>> ELSE <<k + 1, 1>>
        IN  IF i < Len(s) THEN s[i + 1] = next ELSE next = <<last + 1, 1>>

=============================================================================
