------------------------------ MODULE SslPump -------------------------------
(***************************************************************************)
(* Tai_lieu_tham_khao/openssl_examples: ssl_client_nonblock.c and          *)
(* ssl_server_nonblock.c, connected to each other.  Both turn the poll()   *)
(* loop around the functions of common.h that pump bytes:                  *)
(*                                                                         *)
(*   stdin -> encrypt_buf -> SSL -> wbio -> write_buf -> write()           *)
(*   read() -> rbio -> SSL -> stdout                                       *)
(*                                                                         *)
(* This is the life of one connection; the server would go on to accept    *)
(* another one with everything reset (ssl_server_nonblock.c:98-99).        *)
(***************************************************************************)
EXTENDS TlsLibrary

CONSTANTS
  DEFAULT_BUF_SIZE,   \* pieces that one read() takes
  NetMax,             \* pieces that the kernel holds for a direction
  RdHup,              \* the build defines POLLRDHUP
  Lines               \* bound: the lines typed at each end

ASSUME SslPumpAssumption ==
  /\ DEFAULT_BUF_SIZE \in Nat \ {0}
  /\ NetMax \in Nat \ {0}
  /\ RdHup \in BOOLEAN
  /\ Lines \in [Ends -> Nat]

VARIABLES
  pc,            \* pc[e]: the function e is in
  revents,       \* revents[e]: what poll() said and e has not handled yet
  encrypt_buf,   \* lines read from stdin
  write_buf,     \* pieces taken out of wbio
  typed,         \* typed[e]: lines typed at e,
  entered,       \* ... and how many of them e has read
  printed        \* printed[e]: the lines e has printed

pumpVars == <<pc, revents, encrypt_buf, write_buf, typed, entered, printed>>
vars == <<tlsVars, pumpVars>>

Functions == {"handshake", "decrypt", "drain", "loop", "closed"}
Events == {"in", "out", "hup", "key"}

(* The client handshakes once before its loop.                             *)
Init ==
  /\ TlsInit
  /\ pc = [e \in Ends |-> IF e = "client" THEN "handshake" ELSE "loop"]
  /\ revents = [e \in Ends |-> {}]
  /\ encrypt_buf = [e \in Ends |-> << >>]
  /\ write_buf = [e \in Ends |-> << >>]
  /\ typed = [e \in Ends |-> 0]
  /\ entered = [e \in Ends |-> 0]
  /\ printed = [e \in Ends |-> << >>]

Up(e) == pc[e] # "closed"

Goto(e, f) == pc' = [pc EXCEPT ![e] = f]

-----------------------------------------------------------------------------
(* common.h *)

ssl_client_want_write(e) == write_buf[e] # << >>

send_unencrypted_bytes(e, line) ==
  encrypt_buf' = [encrypt_buf EXCEPT ![e] = Append(@, line)]

queue_encrypted_bytes(e, pieces) ==
  write_buf' = [write_buf EXCEPT ![e] = @ \o pieces]

Handshake(e) ==
  /\ pc[e] = "handshake"
  /\ SSL_do_handshake(e)
  /\ Goto(e, IF SSL_is_init_finished(e)' THEN "decrypt" ELSE "drain")
  /\ UNCHANGED <<net, broken, revents, encrypt_buf, write_buf, typed, entered, printed>>

(* print_unencrypted_data() of what SSL_read() returned.                   *)
Reads(e) ==
  /\ pc[e] = "decrypt"
  /\ SSL_read(e, DEFAULT_BUF_SIZE)
  /\ printed' = [printed EXCEPT ![e] = @ \o LinesRead(e, DEFAULT_BUF_SIZE)]
  /\ UNCHANGED <<net, broken, revents, encrypt_buf, write_buf, typed, entered>>

(* Mutant: one SSL_read() for each read() of the socket.                   *)
Decrypt_Once(e) == Reads(e) /\ Goto(e, "drain")

Decrypt(e) == Reads(e) /\ UNCHANGED pc

Decrypted(e, f) ==
  /\ pc[e] = "decrypt"
  /\ ~Whole(e)
  /\ Goto(e, f)
  /\ UNCHANGED <<tlsVars, revents, encrypt_buf, write_buf, typed, entered, printed>>

(* Mutant: on_read_cb does not look at wbio after SSL_read().              *)
WantIO_NoDrain(e) == Decrypted(e, "loop")

WantIO(e) == Decrypted(e, "drain")

(* Until BIO_read() finds nothing more.                                    *)
Drain(e) ==
  /\ pc[e] = "drain"
  /\ queue_encrypted_bytes(e, wbio[e])
  /\ wbio' = [wbio EXCEPT ![e] = << >>]
  /\ Goto(e, "loop")
  /\ UNCHANGED <<flights, messages, rbio, net, broken, revents, encrypt_buf,
                 typed, entered, printed>>

-----------------------------------------------------------------------------
(* The loop of main *)

Bottom(e) == pc[e] = "loop" /\ revents[e] = {}

Encrypts(e, left) ==
  /\ Bottom(e)
  /\ encrypt_buf[e] # << >>
  /\ SSL_is_init_finished(e)
  /\ SSL_write(e, encrypt_buf[e], Len(encrypt_buf[e]) + 1)
  /\ encrypt_buf' = [encrypt_buf EXCEPT ![e] = left]
  /\ Goto(e, "drain")
  /\ UNCHANGED <<net, broken, revents, write_buf, typed, entered, printed>>

(* Mutant: only one line of what SSL_write() has taken leaves encrypt_buf. *)
Encrypt_Twice(e) == Encrypts(e, After(encrypt_buf[e], 1))

Encrypt(e) == Encrypts(e, << >>)

Ready(e) ==
  {x \in Events :
     \/ x = "in" /\ (net[Peer(e)] # << >> \/ ~Up(Peer(e)))
     \/ x = "out" /\ ssl_client_want_write(e) /\ Len(net[e]) < NetMax
     \/ x = "hup" /\ ~Up(Peer(e)) /\ (RdHup \/ broken[e])
     \/ x = "key" /\ entered[e] < typed[e]}

Poll(e) ==
  /\ Bottom(e)
  /\ SSL_is_init_finished(e) => encrypt_buf[e] = << >>
  /\ Ready(e) # {}
  /\ revents' = [revents EXCEPT ![e] = Ready(e)]
  /\ UNCHANGED <<tlsVars, pc, encrypt_buf, write_buf, typed, entered, printed>>

(* The first of the events that are left is x: the tests are in this order *)
Handles(e, x) ==
  /\ pc[e] = "loop"
  /\ x \in revents[e]
  /\ CASE x = "in" -> TRUE
       [] x = "out" -> "in" \notin revents[e]
       [] x = "hup" -> revents[e] \cap {"in", "out"} = {}
       [] x = "key" -> revents[e] = {"key"}

Handled(e, x) == revents' = [revents EXCEPT ![e] = @ \ {x}]

(* The bytes are in rbio: what on_read_cb() does next.                     *)
on_read_cb(e) ==
  Goto(e, IF SSL_is_init_finished(e) THEN "decrypt" ELSE "handshake")

SockRead(e) ==
  /\ Handles(e, "in")
  /\ Receive(e, DEFAULT_BUF_SIZE)
  /\ Handled(e, "in")
  /\ on_read_cb(e)
  /\ UNCHANGED <<flights, messages, wbio, broken, encrypt_buf, write_buf, typed, entered, printed>>

(* write() blocks until the kernel has taken all of write_buf: nothing     *)
(* puts the socket into non-blocking mode.                                 *)
Writes(e, n, left) ==
  /\ Handles(e, "out")
  /\ Up(Peer(e))
  /\ n > 0
  /\ net' = [net EXCEPT ![e] = @ \o SubSeq(write_buf[e], 1, n)]
  /\ write_buf' = [write_buf EXCEPT ![e] = left]
  /\ IF left = << >> THEN Handled(e, "out") ELSE UNCHANGED revents
  /\ UNCHANGED <<flights, messages, rbio, wbio, broken, pc, encrypt_buf, typed, entered, printed>>

Room(e) == Least(NetMax - Len(net[e]), Len(write_buf[e]))

(* The kernel's buffer is full before all of write_buf is in it.           *)
Blocked(e) == Handles(e, "out") /\ Up(Peer(e)) /\ Room(e) = 0

(* Mutant: as if write() always took everything.                           *)
SockWrite_Short(e) == Writes(e, Room(e), << >>)

SockWrite(e) == Writes(e, Room(e), After(write_buf[e], Room(e)))

(* The peer has closed: lost, and answered by a RST.                       *)
SockWriteLost(e) ==
  /\ Handles(e, "out")
  /\ ~Up(Peer(e))
  /\ ~broken[e]
  /\ broken' = [broken EXCEPT ![e] = TRUE]
  /\ write_buf' = [write_buf EXCEPT ![e] = << >>]
  /\ Handled(e, "out")
  /\ UNCHANGED <<flights, messages, rbio, wbio, net, pc, encrypt_buf, typed, entered, printed>>

Enters(e) ==
  /\ Handles(e, "key")
  /\ entered' = [entered EXCEPT ![e] = @ + 1]
  /\ send_unencrypted_bytes(e, entered'[e])
  /\ UNCHANGED <<tlsVars, pc, write_buf, typed, printed>>

(* Mutant: stdin is read again without another poll().                     *)
StdinRead_Again(e) == Enters(e) /\ UNCHANGED revents

StdinRead(e) == Enters(e) /\ Handled(e, "key")

Close(e) ==
  /\ Disconnect(e)
  /\ Goto(e, "closed")
  /\ UNCHANGED <<flights, messages, rbio, wbio, revents, encrypt_buf, write_buf,
                 typed, entered, printed>>

(* read() returns 0 or -1; write() raises SIGPIPE; one of the other bits.  *)
Break(e) ==
  \/ Handles(e, "in") /\ net[Peer(e)] = << >> /\ Close(e)
  \/ Handles(e, "out") /\ ~Up(Peer(e)) /\ broken[e] /\ Close(e)
  \/ Handles(e, "hup") /\ Close(e)

-----------------------------------------------------------------------------
(* The user *)

Type(e) ==
  /\ Up(e)
  /\ typed[e] < Lines[e]
  /\ typed' = [typed EXCEPT ![e] = @ + 1]
  /\ UNCHANGED <<tlsVars, pc, revents, encrypt_buf, write_buf, entered, printed>>

Leave(e) == Up(e) /\ Close(e)

Step(e) ==
  \/ Handshake(e)
  \/ Decrypt(e)
  \/ WantIO(e)
  \/ Drain(e)
  \/ Encrypt(e)
  \/ Poll(e)
  \/ SockRead(e)
  \/ SockWrite(e)
  \/ SockWriteLost(e)
  \/ StdinRead(e)
  \/ Break(e)

Next == \E e \in Ends : Step(e) \/ Type(e) \/ Leave(e)

Spec == Init /\ [][Next]_vars

(* Both programs are scheduled for ever; users need not type or leave.     *)
FairSpec == Spec /\ \A e \in Ends : WF_vars(Step(e))

-----------------------------------------------------------------------------
TypeOK ==
  /\ TlsTypeOK
  /\ pc \in [Ends -> Functions]
  /\ revents \in [Ends -> SUBSET Events]
  /\ encrypt_buf \in [Ends -> Seq(Nat)]
  /\ write_buf \in [Ends -> Seq(Piece)]
  /\ \A e \in Ends : typed[e] \in 0 .. Lines[e] /\ entered[e] \in 0 .. typed[e]
  /\ printed \in [Ends -> Seq(Nat)]

(* Between one SSL object and the other, over two BIOs, write_buf and the  *)
(* kernel, no piece of ciphertext is lost, repeated or overtaken           *)
(* (common.h:149-154, 190-198, 238-247, 279-286, 309-335).                 *)
NoPieceLost ==
  (\A e \in Ends : Up(e)) =>
    \A e \in Ends : RunsToTheEnd(e, rbio[Peer(e)] \o net[e] \o write_buf[e] \o wbio[e])

(* A program that waits in poll() has left nothing behind where poll()     *)
(* cannot see it: no ciphertext in wbio, also when the SSL object had      *)
(* output that nobody asked for (the last flight of a handshake), and no   *)
(* whole message in rbio (common.h:190-198, 230-247, 279-286).             *)
NothingLeftBehind ==
  \A e \in Ends : Bottom(e) => wbio[e] = << >> /\ ~Whole(e)

(* README.md:10-13: what one user types the other sees, once and in order, *)
(* however ciphertext is cut and buffered: the pump implements TlsChannel. *)
Channel == INSTANCE TlsChannel WITH up <- [e \in Ends |-> Up(e)]

ImplementsChannel == Channel!Spec

(* Each end waits in write() for the other to read (common.h:325).         *)
BothBlocked == \A e \in Ends : Blocked(e)

(* A line that is typed is seen, whatever was under way when and whichever *)
(* events poll() reports, unless a program ends or both ends have come to  *)
(* stand in write().  One end that waits there does not hold it up         *)
(* (common.h:180-201, 238-247, 265-291).                                   *)
Shown ==
  \A e \in Ends : \A n \in 1 .. Lines[e] :
    typed[e] = n ~> (\/ Len(printed[Peer(e)]) >= n
                    \/ BothBlocked
                    \/ \E x \in Ends : ~Up(x))

(* Whatever poll() reports in which order, and however the flights are     *)
(* cut, both handshakes come to their end, unless somebody leaves          *)
(* (common.h:180-201, 220-225).                                            *)
HandshakeCompletes ==
  <>(\/ \A e \in Ends : SSL_is_init_finished(e)
     \/ \E e \in Ends : ~Up(e))

-----------------------------------------------------------------------------
(* README.md:10-13: reads and writes of the socket do not block.  Then the *)
(* two ends could not wait in write() for each other.                      *)
NeverBothBlocked == ~BothBlocked

=============================================================================
