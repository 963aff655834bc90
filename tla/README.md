# Verification of VCS-Programming

TLA+ models of the socket programs of this repository, model-checked with TLC
on small instances and, where it matters most, proved with TLAPS for every
instance.  Line numbers are those of the C sources.

## The system

The repository is a set of small C programs, most of them a server and a
client, built and run by hand in terminals.

| Part | State | Operations | How the parts interact | Hard behaviour | What makes it correct |
|---|---|---|---|---|---|
| chat server, `chat_group/server.c` | `clients[MAX_CLIENTS]` (descriptor, name), `client_number`, main's `client_sockfd`; per thread `socket`, `client_name`, `buffer`, loop index | main: accept, store, create thread; thread: read name, read message, broadcast, clear slot | threads share `clients` without a lock and get the address of `client_sockfd` | hand-over race; SIGPIPE; slots, descriptors and threads never given back; buffer ends; a name that is not terminated | each client is served by one thread, its messages reach all others in order, under its name, never itself; leavers are removed and harm nobody |
| chat client, `chat_group/client.c` | the socket | connect; thread that sends name and lines; thread that prints | one TCP connection | user leaves at any moment; server dies; end of stdin | prints what the server sent until the server goes |
| multi-thread echo, `Multi_client/multi-thread` | main's `client_socket`, `threads`, `thread_count` | accept, create thread, echo records of 1024 bytes, join | as the chat server | same hand-over race, pieces of records, `exit()` from a thread | every record comes back to its sender |
| multi-process echo, `Multi_client/multi-process` | `client_count`; descriptor tables of parent and children | accept, fork, echo in the child | inherited descriptors | no FIN while another process holds the socket; fork() failing unnoticed; a child that dies | every record comes back to its sender, and one client's or child's end does not touch another |
| DTLS handshake, `DTLS/Code`, `DTLS/test2` | SSL object, two datagram BIOs on one socket | loop of SSL_do_handshake, recvfrom, BIO_read, sendto | UDP | the return value is compared with error codes it never takes; both ends wait | both ends finish the handshake |
| DTLS echo, `DTLS/test` | SSL object | DTLS accept/connect, echo | UDP | loss | records come back |
| TLS pump, `Tai_lieu_tham_khao/openssl_examples` | `encrypt_buf`, `write_buf`, memory BIOs, `revents` | poll loop, handshake, encrypt, decrypt, socket read and write | TCP, stdin | partial writes; output left in a BIO that poll() cannot see; hang-up | every line typed at one end is printed at the other, once, in order |
| TLS over memory BIOs, `Tai_lieu_tham_khao/OpenSSL-Client-Server-with-BIO` | memory BIOs, `receivedBytes` | blocking handshake loop, one read per message | TCP | both ends in read(); records joined or cut, and printed without a terminator; peer gone | the handshake ends; a line printed whole is one that was typed, in order |
| reference thread echo, `Tai_lieu_tham_khao/multi_thread` | main's `client_socket`, `no_threads`; `client_msg` | greet, echo what was received | as the chat server | hand-over race; thread creation failing unnoticed; turns that depend on the greeting | a client gets the greeting and its own bytes, once |
| reference UDP echo, `Tai_lieu_tham_khao/UDP` | one buffer, one address | recvfrom, sendto | UDP | lost, repeated and overtaken datagrams, no timeout | nobody is shown another's line; unless datagrams are repeated, an answer is the answer to the last line |

`Tai_lieu_tham_khao` is material the authors studied; the three directories
`chat_group`, `Multi_client` and `DTLS` are their own programs.

## Modules

    Sockets          the kernel: connections, byte streams, errors, SIGPIPE (external)
      ChatServer     chat_group/server.c
      ChatClient     chat_group/client.c
        ChatGroup    both together; properties; fairness
          MCChatGroup       instances for TLC
          ChatGroupProofs   theorems
      EchoClient     Multi_client/*/client.c
        EchoRecords     what both echo servers find in their buffers
          EchoRecordsProofs   lemmas for both
          ThreadServer    Multi_client/multi-thread/server.c
            MultiThread     server and clients; properties; fairness
              MCMultiThread   an instance for TLC
              MultiThreadProofs   theorems
          ProcessServer   Multi_client/multi-process/server.c
            MultiProcess    server and clients; implements EchoService
              MCMultiProcess  an instance for TLC
              MultiProcessProofs  theorems
      GreetingEcho   Tai_lieu_tham_khao/multi_thread, server and clients
        MCGreetingEcho  an instance for TLC
        GreetingEchoProofs  theorems
    TlsLibrary       SSL objects over memory BIOs, and a connection (external)
      SslPump        Tai_lieu_tham_khao/openssl_examples; implements TlsChannel
        MCSslPump       an instance for TLC
        SslPumpProofs   theorems
      BioExchange    Tai_lieu_tham_khao/OpenSSL-Client-Server-with-BIO
        BioExchangeProofs  theorems
    UdpEcho          Tai_lieu_tham_khao/UDP; implements EchoService
      UdpEchoProofs    theorems
    DtlsHandshake    DTLS/Code
    EchoService      what an echo server promises (abstract)
    TlsChannel       what a TLS connection between two users promises (abstract)

**Sockets.**  A client process, its connection and the server's descriptor for
it are one value of `Clients`: no server that uses this module closes an
accepted socket and goes on accepting, so no descriptor number comes back.  The n-th byte a client
sends is the pair (client, n), so what recv() returns is an interval of that
stream, `Run`: any non-empty prefix of what has arrived and fits.  In the other
direction `stream[c]` is everything queued for `c`, one entry per send(), and
`shown[c]` a read position in it.  Messages that TCP runs together on the way
to the client stay separate entries: the client prints them either way, and no
property is about line breaks.  Connections are on the loopback
interface (`SERVER_IP`), so a reset is in place before the next call.  `sockerr`
follows Linux: a close with unread data resets the connection (the next call of
the server fails with ECONNRESET and clears the error); data sent after a FIN is
answered by a RST; any later send() raises SIGPIPE.

**ChatServer.**  One action per call that others can tell apart:

| Action | Lines | |
|---|---|---|
| Accept, AcceptFails | 139-144 | takes the oldest pending connection into the shared `client_sockfd`; failure ends the process |
| Dispatch, CreateFails, DispatchPastEnd | 145-154 | store in `clients`, increment, create the thread; thread t is `threads[t]`, for slot t-1; past the ends of the arrays the outcome is undefined |
| Start | 24 | copies whatever `client_sockfd` holds by now |
| RecvName | 30 | result ignored |
| Lookup, LookupFails | 31-43 | names the slot of its socket; the name is what strlen() finds, so up to `StackMax` bytes of the stack follow what recv() stored, and reading or copying them may also be the end of what is defined; with no such slot `client_name` is uninitialised |
| Recv, RecvEnd | 47-57, 66-68 | data, or 0 / -1; with writes outside `buffer` and `temp` as undefined outcomes |
| SkipSlot, PickSlot | 58-60 | the test at index `cursor` |
| SendToSlot, SendToCleared, SendKills | 62 | the send, for the socket the test saw or for -1 if the slot was cleared in between; SIGPIPE |
| Remove | 69-82 | clears the first slot with its socket; the thread ends, the socket stays open |

The scan for a socket in Lookup and Remove is one step: a socket is in at most
one slot, which is set once and cleared once, so the scan sees what a look at
that slot alone at one moment would see.  Likewise the store, the
increment and pthread_create are one step, since a slot without a name is
skipped by everybody.  `server = "undefined"` ends what the model says of the
process, and the alternative in which the write happens to do no harm stays
possible, so that nothing after it is lost.

**ChatClient.**  Connect, ConnectRefused, EnterName, EnterMessage (lines are
non-empty, their length at most `LineMax`, and a name has `NameSize[c]` bytes),
ShowLine, ServerDisconnected, and Leave: the user may end the process at any
moment.

**ChatGroup.**  The composition, with two assumptions on users that a run can
switch.  With `Paced = TRUE` a client connects only when the previous connection
has been handed to its thread (terminals opened by hand, as in Readme.md:3);
with `Paced = FALSE` at any time.  A client in `Patient` types its first message
only when the server has read its name, and TCP does not cut the name (`Speaks`,
`RecvName`): only then is what the server takes for the name what was entered.
The others type when they like, so their name may have run together with their
first message, or be a part of itself.

**EchoClient.**  A process (`Process[c]`) has several threads with a connection
each.  A record has BUFFER_SIZE bytes: the text, here one byte, and zeros.  The
n-th byte of the stream is therefore the text of a line or zero.  Actions:
Connect, ConnectRefused (exit of the whole process, lines 21-25), EnterMessage,
EnterExit and Exit (33-45), SendFails (38-42), ReceiveEcho and ReceiveNothing
(47-49, the result of recv() is not looked at), and EndProcess, which takes all
threads of the process with it: after "exit", or by the user at any moment.
`screen` is the first byte of what a thread printed last.

**ThreadServer.**  Main: Accept, AcceptFails (88-93), Dispatch, CreateFails
(96-102), JoinAll (105-112).  A thread: Start (15); Recv (20-29), which keeps
the part of `buffer` behind the terminator, writes the terminator behind a full
buffer (undefined, or harmless), and ends the thread when the text is "exit";
RecvEnd (recv() returned 0); RecvFails (-1: `buffer[-1]` is written and the loop
goes on to send()); Echo, which sends the whole buffer; EchoFails (a pending
reset makes send() return -1 and the thread call exit()); EchoKills (SIGPIPE).
"exit" is one byte, so it is never cut in two; a cut "exit" is a message whose
sender has left, which EnterMessage and EndProcess give as well.

**MultiThread.**  The composition.  Connections are made at any time.  `Whole` is
an assumption on TCP for some of the clients: their records are neither cut nor
joined; the other clients' recv() and the server's return any piece.

**ProcessServer, MultiProcess.**  The parent: Accept (57-70), Fork and ForkFails
(72-88; -1 is not 0, so the parent goes on), ParentEnds (after MAX_CLIENTS
connections, or exit() when accept() fails).  Child k serves the k-th accepted
connection: Recv (99-114), with the terminator behind a full buffer harmless or
fatal (`Overrun`), RecvEnd, Echo, EchoFails (-1 or SIGPIPE, the end of this child
only).  Nobody closes a connection while the parent runs, so what a client can
see of its server's end depends on who still holds a descriptor: `Held(k)` is the
parent or a live child forked at or after k, and `Hungup(c)` tells the client's
thread.  The listening socket goes with the last process (`ServerWith`).

**GreetingEcho.**  As ThreadServer, with a greeting before the first recv(); what
is sent back are the bytes received, a `Run`.  CreateFails counts a thread that
does not exist (61, a positive result), and JoinAll reaches it (83, undefined).
The variable whose address the threads get is local to the loop's body (59); it is
modelled as one that lives on, which is what the build makes of it.
The client waits for the server before each line, the greeting being the first
answer.

**UdpEcho.**  Datagrams are elements of sets, so they overtake one another; `Lose`
drops one, and the history variable `lost` remembers whose it was.  `Deliver`
may leave a datagram where it is, to be delivered again, `Copies` times in all
and only for clients that are not in `Once`: the client takes the server's address
from its command line and the server binds INADDR_ANY, so the network may be one
that repeats.  The client takes whatever arrives for the answer.  The server
prints what it received without a terminator (34), which may go well or not
(`server = "undefined"`).

**TlsLibrary.**  External.  A message (a handshake flight, or the record of an
SSL_write) is a number of pieces of ciphertext, and is of use when all of its
pieces have arrived.  Flights 1 to 4 alternate; `ClientDone` is 3 for TLS 1.3,
where the client is done when it has made flight 3 and the server's last flight
is taken silently by SSL_read, and 4 for TLS 1.2.  SSL_read() counts a record in
plaintext, and the model in pieces of its ciphertext; only whether a record fits
in one call matters.  `Disconnect` is the end of a process and of its side of the
connection; a peer that writes after a RST is gone at once in the models, although
the code's first write() only returns ECONNRESET, is not looked at, and the next
raises SIGPIPE.

**SslPump.**  `pc` is the function an end is in, `revents` what poll() reported
and has not been handled: "in" before "out" before hang-up before stdin
(ssl_server_nonblock.c:80-93).  Handshake (common.h:180-201), Decrypt and WantIO
(230-236), Drain (238-247), Encrypt (256-296), SockRead (309-319), SockWrite,
which blocks until all of write_buf is taken and otherwise writes what fits
(322-335), StdinRead, Break.  `NetMax` pieces fit in the kernel per direction;
an end that has more to write than that is `Blocked`, and with it `BothBlocked`
the other one too, for ever: neither reads while it is in write().

**BioExchange.**  The two doSSLHandshake() loops (Handshake, Output, Input,
HandshakeDone), the server's one read() and one SSL_read() per message (Recv,
PrintLine, ServerExits) and the client's WriteToSocket and Flush, which takes at
most BUFFER_SIZE out of the BIO.  The client sends the '\0' of each line with it
(Client.cpp:81, 87), so a line that one SSL_read() returns whole, from its first
byte (`InOneCall`), is printed as it was typed.  Whatever else SSL_read() returns is
copied to `new char[size]` and printed as a message as well, without a
terminator (server.cpp:107-116, Main.cpp:30): `printed` gets a `Part`, which stands
for any number of them, and `OverRead` is the end of a process that has read too
far behind msg.  `orderly` is chosen at the start and never changes: in an orderly
exchange what was written arrives whole, lines are short, and the user waits for
each to be printed.

**DtlsHandshake.**  The hello, and both loops around SSL_do_handshake().  A
datagram BIO sends only to a peer it has learned from a datagram read through
this very BIO; BIO_read() reads the socket and blocks.  The results 1 and -1 are
compared with 2 and 3 and so never match.

**Abstract specifications.**  `EchoService`: a client asks, and the only answer it
can be given is the line it asked with; while the service owes it an answer, the
answer comes.  UdpEcho implements it for the clients in `Once`, with `owed` = the
server runs and nothing of this client's was lost; of the others it keeps only
OwnLines and Answered.  MultiProcess implements it for the clients in `Whole`, with
`owed` = the client is there, has not said "exit", and is not `Deserted` (the parent
ended without accepting it, fork() failed for it, or its child crashed).
`TlsChannel`: what one user types is shown to the other, once and in order.  SslPump
implements it; that a line is shown in the end is `Shown`, which is weaker than a
channel's liveness would be, because both ends may come to stand in write().
BioExchange does not implement it, since it prints what nobody typed; what it does
keep is LinesInOrder.  The mappings are the `Service` and `Channel` instances in
these modules.

## Properties

| Property | Claim | Hazard |
|---|---|---|
| TypeOK | one for each module; in the chat also that the broadcast stays inside `clients` | |
| NoLiveClientDropped | a connected, accepted client keeps its slot, whichever threads serve it | clearing somebody else's slot |
| NeverEchoed | nobody is sent his own message, whichever thread read it | the sender compared with the wrong socket |
| SilentUntilNamed | nothing is sent before the name was read | slots used half initialised |
| EachThreadServesItsSlot | the thread created for a slot serves the client in it | hand-over through a pointer |
| SignedBySender | the name on a line begins with the first byte its sender sent and ends before the text; it is the same on all lines of a sender; what a patient sender sent of it is the name it entered, no more and no less | two threads on one socket; a name run together with a message, or cut |
| NoGapNoRepeat | what c is sent of d's typing is contiguous from the first line on | concurrent broadcasts, leavers, full windows |
| Delivered | a broadcast message is shown to every named client that stays | slow or leaving clients |
| EverythingRead | everything typed is read, even when the client leaves at once | data before FIN and RST; a thread that waits in send() |
| LeaversRemoved | a client that leaves is taken off the list | recv returning 0 or -1 |
| SurvivesLeavers | documentation claim the code does not keep | SIGPIPE |
| OnlyOwnText (MultiThread, MultiProcess) | nobody is sent what another typed | shared descriptor, stale buffers, pieces |
| EchoInStep | with whole records, the line printed is the line sent last | two threads on one socket; replies left over |
| Answered | a client that waits and is served is answered | pieces, full windows, several threads, other clients leaving |
| ServerReturns | after MAX_CLIENTS clients have left, main returns | join on a thread that never ends |
| ImplementsService (MultiProcess, UdpEcho) | refinement of EchoService | fork() failing, dying children, late or lost answers, what is repeated to others |
| OwnLines | nobody is shown another client's line, or one not typed yet | repeated and overtaken datagrams, one shared buffer |
| Answered (UdpEcho) | who waits is answered, unless something of its own is lost or the server ends | repeated datagrams taking the turns of others |
| LastOneOut | when the accepted clients have left, the last process ends and frees the listening socket | descriptors held by other processes |
| EachByteOnce | nobody is sent another's bytes, or any byte twice | two threads on one socket |
| GreetedThenEchoed | a client with one thread gets one greeting, then its bytes without a gap | hand-over race of others |
| Prompted | a served client comes back to its user | turns: everybody waits in recv() |
| NoPieceLost | ciphertext is neither lost, repeated nor overtaken between the two SSL objects | partial write(), copies between buffers |
| NothingLeftBehind | nobody waits in poll() with output in wbio or a whole message in rbio | output that the library makes unasked |
| HandshakeCompletes (SslPump, BioExchange) | both handshakes end | both ends waiting for the other |
| ImplementsChannel | refinement of TlsChannel | lines lost, doubled, out of order |
| Shown | a line is shown, unless a program ends or both ends block in write(); one blocked end does not hold it up | lines held back in a buffer; write() that blocks |
| NeverBothBlocked | documentation claim the code does not keep | both ends in write() |
| LinesInOrder | what the server prints as a line was typed, each at most once, in order, whatever is printed between them | records cut and joined by read(), and printed in parts |
| Delivered, ServerStays (BioExchange) | in an orderly exchange lines are printed, and the server neither exits nor reads past a message | one read() per message |
| HandshakeCompletes (DtlsHandshake) | documentation claim the code does not keep | both ends in a read |

## Runs

| Run | Instance | Result |
|---|---|---|
| chat_race | 3 clients typing 3, 1, 1 bytes, 3 slots, BUFFER_SIZE 3, `Paced = FALSE` | TypeOK, NoLiveClientDropped, NeverEchoed, SilentUntilNamed hold (4.6 million states) |
| chat_paced | 2 clients typing 4 and 3 bytes, names of 1 and 2, lines up to 2, c2 patient, `Window` 1, 3 slots, BUFFER_SIZE 16, a byte of the stack behind a name or none, thread creation may fail from the second on, `Paced = TRUE`, `FairSpec` | EachThreadServesItsSlot, SignedBySender, NoGapNoRepeat, Delivered, EverythingRead, LeaversRemoved hold (241 000 states) |
| chat_handoff | 2 clients, `Paced = FALSE` | EachThreadServesItsSlot violated |
| chat_sigpipe | 2 clients, `Paced = TRUE` | SurvivesLeavers violated |
| echo_race | 3 client threads in 2 processes typing 1, 1, 2 lines, MAX_CLIENTS 2, records of 2 bytes, whole for two clients and cut anywhere for one, accept() and pthread_create() may fail from the second on, `FairSpec` | TypeOK, OnlyOwnText, EchoInStep, Answered, ServerReturns hold (421 000 states) |
| process_race | the same clients, whole for c1 and c3, fork() may fail from the second on, accept() too, overruns harmless or fatal, `FairSpec` | TypeOK, OnlyOwnText, ImplementsService, LastOneOut hold (153 000 states) |
| udp_service | 3 clients, 3 lines each, losses, 2 repetitions of datagrams of c3, `FairSpec` | TypeOK, OwnLines, ImplementsService, Answered hold (186 000 states) |
| pump | 2 lines at each end, flights of 2 pieces, reads of 2, 2 pieces in the kernel, TLS 1.2, POLLRDHUP, `FairSpec` | TypeOK, NoPieceLost, NothingLeftBehind, ImplementsChannel, Shown, HandshakeCompletes hold (77 000 states) |
| pump_blocked | the same, TLS 1.3 | NeverBothBlocked violated |
| bio | 4 lines of 1 to 3 pieces, BUFFER_SIZE 2, flights of 2, TLS 1.3, `FairSpec` | TypeOK, LinesInOrder, HandshakeCompletes, Delivered, ServerStays hold (35 000 states) |
| greet | 3 clients typing 2, 1, 0 lines of 2 bytes, MaxThreads 2, recv() of 2 bytes, failures from the second on | TypeOK, EachByteOnce, GreetedThenEchoed, Prompted hold (790 000 states) |
| dtls_deadlock | one client, one server, nothing lost | HandshakeCompletes violated |

Bounds.  In chat_race, three clients are a sender, a receiver and one that leaves or
races with either.  A name and two messages of one byte each are what is needed
for a message to follow another; recv() may return bytes typed separately
together.  Three bytes together fill BUFFER_SIZE = 3; a name, ": " and a message
never fit in three bytes, so there every message also has the undefined
outcome, next to the one in which nothing breaks.  With three slots the third
connection overruns `threads`.  `Window` = 1 makes
send() block as soon as a client has one message it has not read.

In chat_paced both clients talk and each is slow for the other: c1 has three bytes
for messages and c2 one, `Window` is 1, so the thread of c1 does wait in send() with
a line in the buffer, another unread behind it, and c2's thread wanting to send the
other way, and either client may leave then.  Four bytes also leave room for a
message to be lost between two others.  c2 is patient, with a name of two bytes, which
must be all of its name on every line; c1 is not, so that its name does run
together with what follows.  With a third client that run is too large for
liveness.  What needs three clients is two talkers with one recipient, whom two
threads send to at a time: in chat_race only two threads that share a talker do
so.  For that case NoGapNoRepeat and SignedBySender rest on the theorems
NothingSkipped and LinesAreSigned, which hold for any number of clients.
`FdReserve` and `ThreadReserve` say how many descriptors and threads are certain
to be there: beyond them accept() and pthread_create() may fail or not.

For the echo: two connections race, the third stays in the backlog for ever
when MAX_CLIENTS is 2; two client threads share a process and one does not, so
that the end of a process takes a connection with it that is in another state.
With 2 bytes to a record a first piece leaves room for the terminator and what
nobody has written; the second line of a client meets a reply left over.  Bytes of
an earlier record that stay behind a terminator take longer records: they are
in the model (`Filled`), and the theorems OwnTextOnly hold for any BUFFER_SIZE, but
these runs do not reach them.

For UDP: of three clients two are never repeated to, so that one of them waits while the
other is answered, and what the third is repeated comes between; two
repetitions make three copies of one datagram, or two of a request and of its answer.

For TLS: flights of two pieces can be cut.  A record of the pump has more pieces than
the kernel holds (two), so write() takes a part only and waits for the rest; with
both ends waiting this is the end of `pump_blocked`, and in the run `pump` an
outcome that Shown has to name.  A flight does fit, which HandshakeCompletes needs:
an end that waits in write() during the handshake is waiting for one that reads.
Of the two versions of TLS, `pump` runs with the one of four flights at the client
and pump_blocked with the other; the theorems are about both.  At the bio example,
lines of three pieces do not fit in the buffer of two, and the fourth line comes
after the parts of a third.

CHECK_DEADLOCK is off because the programs may stop: when everybody has typed
what the bound allows and has left, the servers wait in accept() or poll() for ever.

Fairness (`FairSpec`): weak fairness of main, of each thread, and of each
client's receiving thread.  The operating system schedules runnable threads,
and a call that can return stays able to until it does, except a
send() on a window that fills again, and only the client's own reading thread
makes room, which is fair too.  The echo client's thread does not read while
its user thinks, so Answered only speaks of clients that wait.  Forked children are
processes and fair each by itself; a TLS end is one thread, so one weak fairness
condition for all its steps; the UDP server and each UDP client likewise, and the
network owes nothing: an answer that is under way can be received at any time, and
repetitions are no part of a fairness condition.  Nothing is
assumed of users: typing, joining and leaving may or may not happen.

## What the code does against its documentation

* `chat_handoff`: Readme.md:13 gives each connection a thread of its own.  All
  threads get the address of one variable (server.c:150); of two connections in
  quick succession the first may be served by no thread and the second by two.
* `chat_sigpipe`: Readme.md:11 has the server listen for ever.  A client that
  leaves between the test and the second send() kills it.
* `dtls_deadlock`: client.c:118 sends "encrypted data to the server if there is
  any".  writeBIO never learns the peer's address (93 and 103 are commented out),
  SSL_do_handshake() cannot send, and BIO_read() of a datagram BIO reads the
  socket: the client waits in it, and the server for the client.
* `pump_blocked`: openssl_examples/README.md:12-13 has the program use "non-blocking
  socket writes".  Nothing puts the socket into non-blocking mode; when each end
  has more to write than the kernel holds, both wait in write() (common.h:325),
  and neither reads any more.

The models contain more of what the documentation denies.  No run singles these
out, but the actions named show them:

* chat_group/Readme.md:12 adds every client to the array; slots are never reused
  and `threads` is indexed after the increment, so connection number MAX_CLIENTS,
  counted over the server's life, is written past the array (DispatchPastEnd).
* "create thread for each client" (multi-thread/server.c:96): same hand-over by
  address as in the chat (Start after a second Accept); Answered therefore speaks
  of clients that some thread serves.
* A record that arrives in two pieces is answered by two records (Recv, Echo), and
  the client's next "Echo message from the server" (client.c:49) is left over from
  the first; EchoInStep therefore speaks of clients in `Whole`.
* "receive message from server" (client.c:47): the result is not looked at, and
  once the server is gone a client prints its own line (ReceiveNothing).
* "create child process to handle new connection" (multi-process/server.c:72):
  ForkFails leaves an accepted client without a child, and not told.
* The name of a chat client (server.c:30-38, 52): the buffer is not terminated, so
  bytes of the stack may follow every name; and a first message typed before the
  name is read belongs to the name, and is shown to nobody as a message
  (RecvName, Lookup).
* "From server:" (UDP/client.c:29-31): the client prints whatever arrives.  When the
  network repeats an answer, the second copy is printed as the answer to the
  next line, and each answer after it is one line late (Deliver, PrintReply);
  ImplementsService therefore speaks of clients in `Once`.
* "Message:" (Main.cpp:30 of the bio server): a record that SSL_read() returns in
  parts is printed as as many messages, each from a buffer that is not terminated
  (OpenSSL_BIO_Server.cpp:107-116); so is an empty one when the client has left
  (PrintLine, OverRead); LinesInOrder therefore speaks of lines printed whole.
* The bio example prints no line that the last read() of the handshake brought
  along (Input takes it into the BIO, Recv waits for another); Delivered
  therefore speaks of orderly exchanges.
* "Handler assigned!" (multi_thread/server.c:75) is printed also when no thread was
  created (CreateFails); its client prints what it typed as "Echo message from
  the server" (client.c:34, EnterLine); an empty line makes both ends wait
  (LineSizes with 0).

## Proofs

From the ASSUMEs of the modules only, and for all values of the constants: any set
of clients, any number of threads, children and lines, any size of buffers.

| Module | Theorems (`Spec => []...`, or `Spec =>` the formula for a refinement or an action property) |
|---|---|
| ChatGroupProofs | TypeCorrect (TypeOK), LiveClientsKept (NoLiveClientDropped), NoEcho (NeverEchoed), NamedBeforeServed (SilentUntilNamed), whether or not connections race; PacedHandoff (EachThreadServesItsSlot), LinesAreSigned (SignedBySender), NothingSkipped (NoGapNoRepeat), with `Paced` |
| MultiThreadProofs | TypeCorrect (TypeOK), OwnTextOnly (OnlyOwnText), RepliesInStep (EchoInStep), with any hand-over race and any cutting of the records of clients not in `Whole` |
| MultiProcessProofs | TypeCorrect (TypeOK), OwnTextOnly (OnlyOwnText), ImplementsServiceSafety (Service!Spec), with forks and children failing |
| GreetingEchoProofs | TypeCorrect (TypeOK), NothingSentTwice (EachByteOnce), with two threads on a socket; GreetedInOrder (GreetedThenEchoed) |
| UdpEchoProofs | TypeCorrect (TypeOK), OwnLinesOnly (OwnLines), whatever is repeated; ImplementsServiceSafety (Service!Spec), for the clients in `Once` |
| SslPumpProofs | TypeCorrect (TypeOK), NothingLost (NoPieceLost), NothingHeldBack (NothingLeftBehind), ShowsInOrder (ImplementsChannel) |
| BioExchangeProofs | TypeCorrect (TypeOK), ServerDoesNotExit (ServerStays), LinesComeInOrder (LinesInOrder) |

Each module proves an invariant inductive (`Invariance`, `Spec => []IInv`, in
most) and takes the other theorems from it.  None of the properties is inductive
as it stands; what has to be added says how the parts of a state belong together.

**ChatGroup.**  A thread that has stale values could break each of them, so `IInv`
adds what ties a thread to the rest: `SlotsInOrder` (slots behind `client_number`
are empty and have no thread), `HandedOver` (a running thread's socket came from
accept(), although perhaps for another thread), `RemovesLeavers` (a thread about
to clear a slot has seen the end of that very client), `BroadcastsOwn` (what it
broadcasts came from its socket and goes to another), `NamesAreRead` (a name, or
the intent to send, means that the name was read or the client left).
`PacedHandoff` adds `OneAtATime`: at most one connection is between connect() and
the first instruction of its thread, and the slot of that thread is the one main's
variable still refers to.  Each conjunct has a lemma with one step per action, or
per group of actions that leave it alone; `HandlerFrame`, `MainFrame`,
`ClientFrame`, `Monotone` and `StreamGrows` say what steps leave alone.

**The chat when users join one at a time.**  `PInv` adds what goes wrong when
connections race: `HandedOnce` (a connection goes from the backlog to main's
variable and from there to one thread), `OwnSlots` (the slot of a thread is its
client's until it clears it, so that the lookup at server.c:37-43 finds it) and
`OwnNames` (a client without a thread has been read nothing of, so the first
recv() of its thread returns the first bytes it sent, and the name the thread
goes by, `GoesBy`, is these and ends before all it reads later).  For a patient
client these are its name and no more, since until they are read it has sent nothing
else (`Patience`).  With these each line carries a name of its sender's
(`LinesSigned`); that all lines of a sender carry the same one needs a thread to
remember it for as long as there is a line, which is `Spoken`: who is quoted
anywhere has a thread that has read its name and keeps it (`Quotes`), and no
second one.
That nothing is left out of what a client is sent takes
`GInv`.  `UpToDate` says where a broadcast stands: for each thread and each client
that is there and has been sent a line of that thread's client, the last such line
ends where the text in the buffer begins while the broadcast is before the
client's slot, and where recv() has got to after it.  That the broadcast does not
pass the slot without sending needs `Heard` (a client that was sent anything has a
named slot until it leaves), `SlotsApart` (it has no second one), `Aimed` (the
target of a send() is still in the slot, or has left, so `SendToCleared` skips
nobody who is there) and `NeverEchoed`; that the next line continues the last
needs `LastRead` (a broadcast is of the bytes read last) and `Spoken`.

**MultiThread, MultiProcess.**  OnlyOwnText is about what was sent, and the next
thing sent is a buffer, so `OwnBuffers` says of each buffer that it holds bytes of
the client its thread serves, or zeros, or what was on the stack.  That needs to
know whom it serves: `Serving` (threads are created in order, and a thread past
pthread_create() has, or will copy, a descriptor from accept(), although perhaps
one that another thread has too) and `Forked` (the k-th child has the k-th
connection, and there are no children beyond those).  The lemmas about buffers,
that a piece or a record stored over old bytes keeps a buffer its owner's, are
shared, in `EchoRecordsProofs`.

EchoInStep and the refinement of EchoService speak of clients in `Whole`, whose
records are neither cut nor joined.  `InStep` follows the last line of each:
`LinesShown` says that when its user is to type, that line is on its screen;
`InTurn` that until then it is in one place, in the kernel on the way to the
server, in the buffer of one thread or child (`Holders`), or in the kernel on the
way back, and that no reply is left over when the next line comes.  This holds
even when two threads serve one socket, since only one of them can receive the one
record.  Both servers share the lemmas; what differs is how long a client is
served: until the process ends (MultiThread), or while some process has its
connection open (MultiProcess, `Hungup`).  The latter needs `HandedOnce` (a
connection is accepted once, so no two children share a client) and `LastHasGone`
(the last process leaves no child behind).  The refinement goes step by step:
EnterMessage and EnterExit are Ask; ReceiveEcho and ReceiveNothing are Answer, the
latter because a client that is told nothing prints its own line; the end of a
client, a child or the parent is Release, and `DesertedStays` says that nobody
comes back; the other steps are stutters, or Release of nobody.

**GreetingEcho.**  `OwnRuns` places every run, in a buffer or sent, among the bytes
of its client that recv() has returned; `Once` keeps any two of them apart: in two
buffers, in a buffer and in what was sent, or both sent.  A new run begins behind
all that was read, which is why it is apart from every other.  GreetedThenEchoed
is about clients that one thread serves.  Since a second thread may still take
such a client's socket, `InStep` says what is so while there is none: a client no
thread serves has been sent and read nothing; if one thread serves it, then its
stream is the greeting and then its bytes without a gap, and the thread has sent
all it has read but for the run it is about to send (`UpToDate`).  No send() in
between fails, because errors are pending only for clients that have left.

**UdpEcho.**  `OwnUnderWay`: every datagram, in one of three places and however often it is
repeated, goes to the client whose line it holds, one that was typed; OwnLines
follows.  `OneUnderWay`: of a client in `Once` there is at most one datagram, in one
place, only while the client waits, and with the line it asked with.  The
refinement is proved step by step: SendLine is Ask, PrintReply is Answer; Lose, and a
Recv that is the end of the server, are Release; Recv, Return and everything that
clients outside `Once` do are stutters.

**SslPump.**  Pieces of ciphertext are numbered by message and position, and a
stream is in order when each piece is the successor of the one before it and the
last one is the last of what the SSL object has made.  `Chained` says so of the
four places one after the other.  `AllMade` says that every piece is one of a
message that was made, without which a further message could change the successor
of an old piece; it also holds when an end has left and `Chained` says nothing any
more.  `Handshaking` says that flights alternate and that SSL_do_handshake() is
called only before its end, so that there is no fifth flight.  `Keys` ties what
poll() reported to stdin.  There is one lemma for each way a piece can move: from
one place to the next (SockRead, SockWrite, Drain), out of the first (a flight or
a record is taken), and into the last (a message is made).

Where a piece is says nothing of what it means; that is `Talk`.  `Script`: the
first two messages of an end are its flights, the others records.  `Told`: the
records hold the lines that were typed, each beginning where the one before it
ended, and `encrypt_buf` the rest.  `Turns`: no end is more than a flight ahead.
`Heard` is about the other side: the message whose piece an SSL object awaits
(`Awaited`) is the one behind the flights it has taken, and exactly the lines of
the records before it are printed.  `Quiet` is what NothingLeftBehind needs:
between the steps of do_sock_read(), and when the loop comes to poll(), no whole
message is in rbio, and in poll() nothing is in wbio.  In the refinement Type is
Type, a Decrypt that prints is Show, Break and Leave are Leave, and the rest are
stutters.  Where a fact needs induction over the messages (the lines told so far
only grow), it is one about a set of numbers, which WellFoundedInduction gives
without an operator as parameter.

**BioExchange.**  Here the reads cut and join messages at will, and the server
exits on what it cannot use, so only the direction to the server matters, and only
while the server is up.  The pieces of a stream are numbered by how many come
before them: `Layout` gives the number at which each message starts, and `Laid`
says that what is in a place are consecutive numbers.  So the three places need
not be put together in one sequence, and moving pieces from one to the next is a
matter of adding lengths.  `Reading` says where the server is: it has taken `gone`
pieces, the next is one of message `at`, and the lines 1 to `at` - 3 are printed.
`Script` says that the client's first two messages are flights and that the k-th
carries line k - 2; `Silent`, that nothing comes from a server that has not
answered, so the client does not go on by itself.  ServerStays is about orderly
exchanges, and `OneAtATime` says why it holds: one message is on the way, it is
whole and all of it is in one place, so a read() brings a whole record and
BIO_write(), SSL_read() find what they want.  `Keeps` is
what LinesInOrder needs to go on: what was printed is in order, and its last
entry is line `at` - 3 or a part, so that the next line may follow it; a part may
always follow (`PartAfter`), and a line is printed only when SSL_read() has returned
all of it in one call, so none comes twice.

Every invariant and every action property that a run checks is proved, but for
those of runs that expect a violation.  Only model-checked are the liveness
properties: Delivered, EverythingRead and LeaversRemoved (chat), Answered,
ServerReturns, LastOneOut, Prompted, Answered (UdpEcho), Shown, HandshakeCompletes,
Delivered (BioExchange), and the fairness of EchoService in ImplementsService,
whose safety part is the theorem ImplementsServiceSafety of either module.  They
rest on ENABLED and on fairness, which are out of the prover's reach.

## Not modelled

The text of messages and of printf; what lies in memory after an overflow, or behind
a string without a terminator: the models say only that something is there
(`tail`, `Part`) or that the outcome is undefined; failing socket/bind/listen at
start; the end of stdin of the clients, after which they send what their buffers
happen to hold, and the chat client's `message[1024]` (client.c:64); what is between
text and the end of a record, beyond being zero.  Of the TLS programs: set-up of
the library, keys and certificates, failing allocations, renegotiation; the pump's
server goes on to the next connection with everything reset, the model ends with
the first.

Assumptions on what is outside the programs are constants, and each property that
rests on one says so: `Paced` and `Patient` (users of the chat, and TCP not cutting
what a patient one sends first), `Whole` (TCP keeping records together), `Once` (a
network that does not repeat a client's datagrams).  Bounds on it are `Copies`,
`StackMax`, and how much is typed.

`DTLS/test2` is the handshake of `DTLS/Code` with connect() and MSG_PEEK in place of
the hello; what its BIOs know of the peer depends on the version of the
library, so no faithful model can be fixed.  `DTLS/test` calls BIO_f_dtls, which no
version of the library has: there is no program to model.  Makefiles, script.sh,
keys and compiled programs have no behaviour of their own.

## Plan

Left: `ChatRoom`, the chat as its Readme promises it (members, posts, one inbox
per member), with ChatGroup under `Paced` shown to implement it, on top of
NothingSkipped; the end of stdin.
