---------------------------- MODULE BioExchange -----------------------------
(***************************************************************************)
(* Tai_lieu_tham_khao/OpenSSL-Client-Server-with-BIO: a client whose user  *)
(* types lines and a server that prints them, over blocking sockets.       *)
(***************************************************************************)
EXTENDS TlsLibrary

CONSTANTS
  BUFFER_SIZE,   \* pieces that one read() or BIO_read() takes
  LineSizes,     \* pieces of the record of a line
  Lines          \* bound: the lines typed

ASSUME BioExchangeAssumption ==
  /\ BUFFER_SIZE \in Nat \ {0}
  /\ FlightSize <= BUFFER_SIZE
  /\ LineSizes \subseteq Nat \ {0}
  /\ Lines \in Nat

VARIABLES
  pc,              \* pc[e]: where e is
  receivedBytes,   \* what the server's last read() returned, in pieces
  typed,           \* lines typed at the client
  printed,         \* what the server has printed: lines, and parts of lines
  orderly          \* never changes: what was written arrives whole, lines
                   \* are short, and wait for the one before to be printed

bioVars == <<pc, receivedBytes, typed, printed, orderly>>
vars == <<tlsVars, bioVars>>

Places == {"handshake", "output", "talk", "decrypt", "flush", "closed"}

(* The client is connected, and the server has accepted it.                *)
Init ==
  /\ TlsInit
  /\ pc = [e \in Ends |-> "handshake"]
  /\ receivedBytes = 0
  /\ typed = 0
  /\ printed = << >>
  /\ orderly \in BOOLEAN

Up(e) == pc[e] # "closed"

Goto(e, place) == pc' = [pc EXCEPT ![e] = place]

(* What read() finds when the connection has come to its end.              *)
NoMore(e) == net[Peer(e)] = << >> /\ ~Up(Peer(e))

ReadsUpTo(e, size) ==
  /\ Receive(e, size)
  /\ UNCHANGED <<flights, messages, wbio, broken, typed, printed, orderly>>

(* Mutants: read() may overrun buffer; its size is too small.              *)
Reads_TooMuch(e) == ReadsUpTo(e, BUFFER_SIZE + FlightSize)
Reads_TooLittle(e) == ReadsUpTo(e, 1)

Reads(e) ==
  /\ ReadsUpTo(e, BUFFER_SIZE)
  /\ orderly => net'[Peer(e)] = << >> \/ Len(rbio'[e]) - Len(rbio[e]) = BUFFER_SIZE

End(e) ==
  /\ Disconnect(e)
  /\ Goto(e, "closed")
  /\ UNCHANGED <<flights, messages, rbio, wbio, receivedBytes, typed, printed, orderly>>

-----------------------------------------------------------------------------
(* doSSLHandshake *)

HandshakeDone(e) ==
  /\ pc[e] = "handshake"
  /\ SSL_is_init_finished(e)
  /\ Goto(e, "talk")
  /\ UNCHANGED <<tlsVars, receivedBytes, typed, printed, orderly>>

Handshake(e) ==
  /\ pc[e] = "handshake"
  /\ ~SSL_is_init_finished(e)
  /\ SSL_do_handshake(e)
  /\ Goto(e, "output")
  /\ UNCHANGED <<net, broken, receivedBytes, typed, printed, orderly>>

(* One BIO_read() and one write(); a peer that has closed answers with RST *)
Outputs(e, from, to) ==
  LET n == Least(BUFFER_SIZE, Len(wbio[e]))
  IN  /\ pc[e] = from
      /\ n > 0
      /\ ~broken[e]
      /\ wbio' = [wbio EXCEPT ![e] = After(@, n)]
      /\ IF Up(Peer(e))
         THEN net' = [net EXCEPT ![e] = @ \o SubSeq(wbio[e], 1, n)] /\ UNCHANGED broken
         ELSE broken' = [broken EXCEPT ![e] = TRUE] /\ UNCHANGED net
      /\ Goto(e, to)
      /\ UNCHANGED <<flights, messages, rbio, receivedBytes, typed, printed, orderly>>

(* Mutant: every write() is followed by a read().                          *)
Output_ThenInput(e) == Outputs(e, "output", "output")

Output(e) == Outputs(e, "output", "handshake")

(* SIGPIPE.                                                                *)
OutputKills(e) ==
  /\ pc[e] \in {"output", "flush"}
  /\ wbio[e] # << >>
  /\ broken[e]
  /\ End(e)

Input(e) ==
  /\ pc[e] = "output"
  /\ wbio[e] = << >>
  /\ \/ Reads(e)
     \/ NoMore(e) /\ UNCHANGED <<tlsVars, typed, printed, orderly>>
  /\ Goto(e, "handshake")
  /\ UNCHANGED receivedBytes

-----------------------------------------------------------------------------
(* The server *)

Recv ==
  /\ pc["server"] = "talk"
  /\ \/ Reads("server") /\ receivedBytes' = Len(rbio'["server"]) - Len(rbio["server"])
     \/ /\ NoMore("server") /\ ~broken["server"]
        /\ receivedBytes' = 0
        /\ UNCHANGED <<tlsVars, typed, printed, orderly>>
  /\ Goto("server", "decrypt")

(* The client ends each of its messages with '\0' (Client.cpp:81, 87): one *)
(* that SSL_read() returns whole, in one call, is printed as its line.     *)
InOneCall == rbio["server"][1][2] = 1 /\ Due("server") <= receivedBytes

(* Anything else that SSL_read() returns is printed as a message too: some *)
(* bytes of a line, or none when receivedBytes is 0, followed by what is   *)
(* in memory behind msg, unless the '\0' is among them.  Parts printed one *)
(* after the other are recorded once.                                      *)
Part == 0

PartAfter(lines) ==
  IF lines # << >> /\ lines[Len(lines)] = Part THEN << >> ELSE <<Part>>

PrintMessage(lines) ==
  /\ pc["server"] = "decrypt"
  /\ SSL_read("server", receivedBytes)
  /\ printed' = printed \o lines
  /\ Goto("server", "talk")
  /\ UNCHANGED <<net, broken, receivedBytes, typed, orderly>>

(* Mutant: a message is taken to be whole whenever SSL_read() returns.     *)
Message_Early == PrintMessage(Front("server").lines)

PrintLine ==
  PrintMessage(IF InOneCall THEN Front("server").lines ELSE PartAfter(printed))

(* printf() goes on behind a msg that has no '\0': that may end the program *)
OverRead ==
  /\ pc["server"] = "decrypt"
  /\ Whole("server")
  /\ Due("server") > receivedBytes
  /\ End("server")

(* exit(): SSL_read() found no whole record, or read() failed.             *)
ServerExits ==
  /\ \/ pc["server"] = "decrypt" /\ ~Whole("server")
     \/ pc["server"] = "talk" /\ NoMore("server") /\ broken["server"]
  /\ End("server")

-----------------------------------------------------------------------------
(* The client *)

Printed(n) == \E i \in 1 .. Len(printed) : printed[i] = n

Writes(to) ==
  /\ pc["client"] = "talk"
  /\ typed < Lines
  /\ orderly => pc["server"] = "talk" /\ (typed = 0 \/ Printed(typed))
  /\ typed' = typed + 1
  /\ \E size \in LineSizes :
       /\ orderly => size <= BUFFER_SIZE
       /\ SSL_write("client", <<typed'>>, size)
  /\ Goto("client", to)
  /\ UNCHANGED <<net, broken, receivedBytes, printed, orderly>>

(* Mutant: nothing is taken out of the BIO.                                *)
WriteToSocket_NoFlush == Writes("talk")

WriteToSocket == Writes("flush")

(* What does not fit in buffer waits in the BIO for the next line.         *)
Flush == Outputs("client", "flush", "talk")

Leave(e) == Up(e) /\ End(e)

-----------------------------------------------------------------------------
HandshakeStep(e) ==
  \/ HandshakeDone(e)
  \/ Handshake(e)
  \/ Output(e)
  \/ OutputKills(e)
  \/ Input(e)

ServerStep ==
  HandshakeStep("server") \/ Recv \/ PrintLine \/ OverRead \/ ServerExits

ClientStep == HandshakeStep("client") \/ Flush

Next ==
  \/ ServerStep
  \/ ClientStep
  \/ WriteToSocket
  \/ \E e \in Ends : Leave(e)

Spec == Init /\ [][Next]_vars

(* Both programs are scheduled for ever; users need not type or leave.     *)
FairSpec == Spec /\ WF_vars(ServerStep) /\ WF_vars(ClientStep)

-----------------------------------------------------------------------------
TypeOK ==
  /\ TlsTypeOK
  /\ pc \in [Ends -> Places]
  /\ receivedBytes \in 0 .. BUFFER_SIZE
  /\ typed \in Nat
  /\ printed \in Seq(Nat)

InOrder(lines, n) ==
  \A i \in 1 .. Len(lines) :
    lines[i] # Part =>
      /\ lines[i] <= n
      /\ \A j \in 1 .. i - 1 : lines[j] < lines[i]
      /\ i = 1 => lines[i] = 1
      /\ i > 1 => lines[i - 1] \in {Part, lines[i] - 1}

(* However reads cut and join what was written, and although a record may  *)
(* be returned in parts and another one stay in the BIO behind it: a line  *)
(* that the server prints as a line was typed, it is printed once and      *)
(* after the lines typed before it, and where a line is left out the       *)
(* server has printed a part (OpenSSL_BIO_Server.cpp:96-117).              *)
LinesInOrder == InOrder(printed, typed)

(* Client and server take turns at writing and reading: none of the two    *)
(* loops ends in a read() while its own output, or a flight it has already *)
(* read, is what the peer waits for (doSSLHandshake).                      *)
HandshakeCompletes ==
  <>(\/ \A e \in Ends : pc[e] \in {"talk", "decrypt", "flush"}
     \/ \E e \in Ends : ~Up(e))

(* README.md:14: "try sending a message by typing into the console of the  *)
(* client".  In an orderly exchange a line that was typed is printed as a  *)
(* line, unless a program ends.                                            *)
Delivered ==
  \A n \in 1 .. Lines :
    orderly /\ typed = n ~> (Printed(n) \/ \E e \in Ends : ~Up(e))

(* In an orderly exchange the server is there as long as its client is: it *)
(* neither exits for what it has read nor prints what has no '\0'          *)
(* (OpenSSL_BIO_Server.cpp:100-116, Main.cpp:29-30).                       *)
ServerStays == [][orderly /\ (ServerExits \/ OverRead) => ~Up("client")]_vars

=============================================================================
