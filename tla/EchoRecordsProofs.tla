------------------------- MODULE EchoRecordsProofs --------------------------
(***************************************************************************)
(* What the client threads and the buffers of the two echo servers of      *)
(* Multi_client do to the types of the state, to whose text is where, and  *)
(* to the one place where the last line of a client is that has its        *)
(* records sent whole: the lemmas that MultiThreadProofs and               *)
(* MultiProcessProofs share.                                               *)
(***************************************************************************)
EXTENDS EchoRecords, SequenceTheorems, TLAPS

(* The state that connections and client threads have in both programs.    *)
EchoTypeOK ==
  /\ conn \in [Clients -> ConnStates]
  /\ backlog \in Seq(Clients)
  /\ sent \in [Clients -> Nat]
  /\ taken \in [Clients -> Nat]
  /\ stream \in [Clients -> Seq(ByteValue)]
  /\ shown \in [Clients -> Nat]
  /\ sockerr \in [Clients -> SockErrors]
  /\ at \in [Clients -> Places]
  /\ quit \in [Clients -> BOOLEAN]
  /\ screen \in [Clients -> ByteValue]

(* The bytes of s are c's own, or nobody's.                                *)
OwnBytes(c, s) == \A j \in DOMAIN s : s[j].from \in {c, NoSocket}

OwnStreams == \A c \in Clients : OwnBytes(c, stream[c])

-----------------------------------------------------------------------------
(* Bytes and buffers *)

(* A record has at least a text byte and a zero.                           *)
LEMMA BufferSize == BUFFER_SIZE \in Nat \ {0, 1}
  BY EchoClientAssumption

(* A text byte is its client's.                                            *)
LEMMA TextType == ASSUME NEW c \in Clients, NEW r \in Nat
                  PROVE  Text(c, r) \in ByteValue /\ Text(c, r).from = c
  BY DEF Text, ByteValue

(* Zeros and what the stack held are nobody's.                             *)
LEMMA ZeroType == Zero \in ByteValue /\ Garbage \in ByteValue
                  /\ Zero.from = NoSocket /\ Garbage.from = NoSocket
  BY DEF Zero, Garbage, ByteValue

(* The number of whole records in n bytes.                                 *)
LEMMA QuotientType == ASSUME NEW n \in Nat PROVE n \div BUFFER_SIZE \in Nat
  BY BufferSize

(* A byte of the stream is its sender's text, or zero.                     *)
LEMMA ByteType == ASSUME NEW c \in Clients, NEW n \in Nat
                  PROVE  Byte(c, n) \in ByteValue /\ Byte(c, n).from \in {c, NoSocket}
<1>1. n \div BUFFER_SIZE + 1 \in Nat
  BY QuotientType
<1> QED BY <1>1, TextType, ZeroType DEF Byte

(* An untouched buffer is nobody's.                                        *)
LEMMA UninitialisedType == Uninitialised \in Buffer /\ \A c : OwnBytes(c, Uninitialised)
  BY ZeroType DEF Uninitialised, Buffer, OwnBytes

(* What recv() returns is a run of bytes of that client.                   *)
LEMMA ArrivedRun ==
  ASSUME EchoTypeOK, NEW c \in Clients, NEW run \in Arrived(c, BUFFER_SIZE)
  PROVE  run.from = c /\ run.lo \in Nat /\ run.hi \in Nat
<1>1. PICK n \in 1 .. BUFFER_SIZE :
        run = [from |-> c, lo |-> taken[c] + 1, hi |-> taken[c] + n]
  BY DEF Arrived
<1>2. taken[c] \in Nat /\ n \in Nat
  BY BufferSize DEF EchoTypeOK
<1> QED BY <1>1, <1>2

(* A buffer with bytes of c, or of nobody, is one after a recv() from c.   *)
LEMMA FilledOwn ==
  ASSUME EchoTypeOK, NEW c \in Clients, NEW run \in Arrived(c, BUFFER_SIZE),
         NEW old \in Buffer, OwnBytes(c, old)
  PROVE  Filled(old, run) \in Buffer /\ OwnBytes(c, Filled(old, run))
<1> DEFINE value(j) == CASE j <= Size(run) -> Byte(run.from, run.lo + j - 1)
                         [] j = Size(run) + 1 -> Zero
                         [] OTHER -> old[j]
<1>1. ASSUME NEW j \in 1 .. BUFFER_SIZE
      PROVE  value(j) \in ByteValue /\ value(j).from \in {c, NoSocket}
  <2>1. run.from = c /\ run.lo + j - 1 \in Nat /\ Size(run) \in Int
    BY ArrivedRun, BufferSize DEF Size
  <2>2. Byte(c, run.lo + j - 1) \in ByteValue
        /\ Byte(c, run.lo + j - 1).from \in {c, NoSocket}
    BY <2>1, ByteType
  <2>3. old[j] \in ByteValue /\ old[j].from \in {c, NoSocket}
    BY DEF OwnBytes, Buffer
  <2> QED BY <2>1, <2>2, <2>3, ZeroType
<1>2. Filled(old, run) = [j \in 1 .. BUFFER_SIZE |-> value(j)]
  BY DEF Filled
<1> HIDE DEF value
<1> QED BY <1>1, <1>2 DEF Buffer, OwnBytes

(* Its first byte is the first that was received.                          *)
LEMMA FilledFirst ==
  ASSUME NEW old, NEW run, Size(run) \in Nat \ {0}
  PROVE  Filled(old, run)[1] = Byte(run.from, run.lo + 1 - 1)
<1> DEFINE value(j) == CASE j <= Size(run) -> Byte(run.from, run.lo + j - 1)
                         [] j = Size(run) + 1 -> Zero
                         [] OTHER -> old[j]
<1>1. value(1) = Byte(run.from, run.lo + 1 - 1)
  <2>1. 1 <= Size(run) /\ 1 # Size(run) + 1
    OBVIOUS
  <2> QED BY <2>1
<1>2. Filled(old, run) = [j \in 1 .. BUFFER_SIZE |-> value(j)]
  BY DEF Filled
<1>3. 1 \in 1 .. BUFFER_SIZE
  BY BufferSize
<1> HIDE DEF value
<1> QED BY <1>1, <1>2, <1>3

-----------------------------------------------------------------------------
(* send() *)

(* What is sent to c, when it is c's own, keeps streams and errors in      *)
(* order.                                                                  *)
LEMMA SendOwn ==
  ASSUME EchoTypeOK, OwnStreams, NEW c \in Clients,
         NEW data \in Buffer, OwnBytes(c, data), Send(c, data)
  PROVE  /\ stream' \in [Clients -> Seq(ByteValue)]
         /\ sockerr' \in [Clients -> SockErrors]
         /\ OwnStreams'
<1>1. data \in Seq(ByteValue) /\ Len(data) = BUFFER_SIZE
  BY BufferSize, IsASeq DEF Buffer
<1>2. CASE conn[c] = "open"
  <2>1. stream' = [stream EXCEPT ![c] = @ \o data] /\ UNCHANGED sockerr
    BY <1>2 DEF Send
  <2>2. stream[c] \o data \in Seq(ByteValue)
    BY <1>1 DEF EchoTypeOK
  <2>3. OwnBytes(c, stream[c] \o data)
    <3>1. stream[c] \in Seq(ByteValue)
      BY DEF EchoTypeOK
    <3> QED BY <3>1, <1>1 DEF OwnBytes, OwnStreams
  <2> QED BY <2>1, <2>2, <2>3 DEF EchoTypeOK, OwnStreams
<1>3. CASE conn[c] # "open"
  BY <1>3 DEF Send, EchoTypeOK, OwnStreams, SockErrors
<1> QED BY <1>2, <1>3

-----------------------------------------------------------------------------
(* The client threads *)

(* The end of a process.                                                   *)
LEMMA EndProcessTypes ==
  ASSUME EchoTypeOK, NEW c \in Clients, EndProcess(c)
  PROVE  EchoTypeOK' /\ UNCHANGED <<server, taken, stream>>
  BY DEF EndProcess, CloseEnds, netVars, clientVars, EchoTypeOK, ConnStates, SockErrors

(* connect().                                                              *)
LEMMA ConnectTypes ==
  ASSUME EchoTypeOK, NEW c \in Clients, Connect(c)
  PROVE  EchoTypeOK' /\ UNCHANGED <<server, taken, stream>>
<1>1. backlog' \in Seq(Clients)
  BY DEF Connect, Establish, EchoTypeOK
<1> QED BY <1>1 DEF Connect, Establish, clientVars, EchoTypeOK, ConnStates

(* A line is sent.                                                         *)
LEMMA EnterTypes ==
  ASSUME EchoTypeOK, NEW c \in Clients, EnterMessage(c) \/ EnterExit(c)
  PROVE  EchoTypeOK' /\ UNCHANGED <<server, taken, stream>>
<1>1. sent' \in [Clients -> Nat]
  <2>1. sent' = [sent EXCEPT ![c] = @ + BUFFER_SIZE]
    BY DEF EnterMessage, EnterExit, EnterLine, Transmit
  <2>2. sent[c] + BUFFER_SIZE \in Nat
    BY BufferSize DEF EchoTypeOK
  <2> QED BY <2>1, <2>2 DEF EchoTypeOK
<1>2. at' \in [Clients -> Places]
  BY DEF EnterMessage, EnterExit, EnterLine, Moves, Places, EchoTypeOK
<1>3. quit' \in [Clients -> BOOLEAN]
  BY DEF EnterMessage, EnterExit, EchoTypeOK
<1> QED BY <1>1, <1>2, <1>3 DEF EnterMessage, EnterExit, EnterLine, EchoTypeOK

(* A line cannot be sent.                                                  *)
LEMMA SendFailsTypes ==
  ASSUME EchoTypeOK, NEW c \in Clients, NEW gone, SendFails(c, gone)
  PROVE  EchoTypeOK' /\ UNCHANGED <<server, taken, stream>>
  BY DEF SendFails, Moves, netVars, EchoTypeOK, Places

(* Something is printed.                                                   *)
LEMMA PrintsTypes ==
  ASSUME EchoTypeOK, NEW c \in Clients, NEW byte \in ByteValue, Prints(c, byte),
         shown' \in [Clients -> Nat], UNCHANGED taken
  PROVE  EchoTypeOK' /\ UNCHANGED <<server, taken, stream>>
  BY DEF Prints, Moves, EchoTypeOK, Places

(* What recv() returned is printed.                                        *)
LEMMA ReceiveEchoTypes ==
  ASSUME EchoTypeOK, NEW c \in Clients, ReceiveEcho(c)
  PROVE  EchoTypeOK' /\ UNCHANGED <<server, taken, stream>>
<1>1. PICK n \in 1 .. BUFFER_SIZE :
        /\ shown[c] + n <= Len(stream[c])
        /\ shown' = [shown EXCEPT ![c] = @ + n]
        /\ Prints(c, stream[c][shown[c] + 1])
  BY DEF ReceiveEcho
<1>2. n \in Nat /\ n > 0 /\ shown[c] \in Nat /\ stream[c] \in Seq(ByteValue)
  BY BufferSize DEF EchoTypeOK
<1>3. shown' \in [Clients -> Nat]
  BY <1>1, <1>2 DEF EchoTypeOK
<1>4. stream[c][shown[c] + 1] \in ByteValue
  BY <1>1, <1>2
<1> QED BY <1>1, <1>3, <1>4, PrintsTypes DEF Prints

(* Nothing was received, and the thread's own line is printed.             *)
LEMMA ReceiveNothingTypes ==
  ASSUME EchoTypeOK, NEW c \in Clients, NEW gone, ReceiveNothing(c, gone)
  PROVE  EchoTypeOK' /\ UNCHANGED <<server, taken, stream>>
<1>1. Sent(c) \in Nat
  BY QuotientType DEF Sent, EchoTypeOK
<1>2. Text(c, Sent(c)) \in ByteValue
  BY <1>1, TextType
<1>3. shown' \in [Clients -> Nat]
  BY DEF ReceiveNothing, EchoTypeOK
<1> QED BY <1>2, <1>3, PrintsTypes DEF ReceiveNothing, Prints

-----------------------------------------------------------------------------
(* Whole records *)

(* Division by the size of records.                                        *)
LEMMA DivisionUnique ==
  ASSUME NEW q \in Nat, NEW r \in 0 .. BUFFER_SIZE - 1
  PROVE  /\ (q * BUFFER_SIZE + r) \div BUFFER_SIZE = q
         /\ (q * BUFFER_SIZE + r) % BUFFER_SIZE = r
<1> DEFINE n == q * BUFFER_SIZE + r
           d == n \div BUFFER_SIZE
           m == n % BUFFER_SIZE
<1>1. BUFFER_SIZE \in Nat /\ BUFFER_SIZE > 1 /\ r \in Nat /\ r < BUFFER_SIZE
  BY BufferSize
<1>2. n \in Nat
  BY <1>1
<1>3. d \in Nat /\ m \in 0 .. BUFFER_SIZE - 1 /\ n = d * BUFFER_SIZE + m
  BY <1>1, <1>2
<1>4. (q - d) * BUFFER_SIZE = m - r
  BY <1>1, <1>3
<1> HIDE DEF n, d, m
<1>5. q = d
  <2>1. CASE q > d
    <3>1. (q - d) * BUFFER_SIZE >= BUFFER_SIZE
      BY <1>1, <1>3, <2>1
    <3> QED BY <1>1, <1>3, <1>4, <3>1
  <2>2. CASE q < d
    <3>1. (d - q) * BUFFER_SIZE >= BUFFER_SIZE
      BY <1>1, <1>3, <2>2
    <3>2. (q - d) * BUFFER_SIZE = 0 - ((d - q) * BUFFER_SIZE)
      BY <1>1, <1>3
    <3> QED BY <1>1, <1>3, <1>4, <3>1, <3>2
  <2> QED BY <1>3, <2>1, <2>2
<1> QED BY <1>1, <1>3, <1>4, <1>5 DEF n, d, m

(* One more record.                                                        *)
LEMMA NextRecord ==
  ASSUME NEW n \in Nat, n % BUFFER_SIZE = 0
  PROVE  /\ (n + BUFFER_SIZE) % BUFFER_SIZE = 0
         /\ (n + BUFFER_SIZE) \div BUFFER_SIZE = n \div BUFFER_SIZE + 1
         /\ n \div BUFFER_SIZE \in Nat
<1> DEFINE q == n \div BUFFER_SIZE
<1>1. BUFFER_SIZE \in Nat /\ BUFFER_SIZE > 1
  BY BufferSize
<1>2. q \in Nat /\ n = q * BUFFER_SIZE + 0
  BY <1>1
<1> HIDE DEF q
<1>3. n + BUFFER_SIZE = (q + 1) * BUFFER_SIZE + 0
  BY <1>1, <1>2
<1>4. 0 \in 0 .. BUFFER_SIZE - 1 /\ q + 1 \in Nat
  BY <1>1, <1>2
<1>5. /\ ((q + 1) * BUFFER_SIZE + 0) \div BUFFER_SIZE = q + 1
      /\ ((q + 1) * BUFFER_SIZE + 0) % BUFFER_SIZE = 0
  BY <1>4, DivisionUnique
<1> QED BY <1>2, <1>3, <1>5 DEF q

(* The first byte of the last of n bytes' records is its text.             *)
LEMMA FirstByte ==
  ASSUME NEW c, NEW k \in Nat, (k + BUFFER_SIZE) % BUFFER_SIZE = 0
  PROVE  Byte(c, k + 1) = Text(c, (k + BUFFER_SIZE) \div BUFFER_SIZE)
<1> DEFINE q == (k + BUFFER_SIZE) \div BUFFER_SIZE
<1>1. BUFFER_SIZE \in Nat /\ BUFFER_SIZE > 1
  BY BufferSize
<1>2. q \in Nat /\ k + BUFFER_SIZE = q * BUFFER_SIZE
  BY <1>1
<1> HIDE DEF q
<1>3. q # 0
  BY <1>1, <1>2
<1>4. q - 1 \in Nat /\ 1 \in 0 .. BUFFER_SIZE - 1
  BY <1>1, <1>2, <1>3
<1>5. k + 1 = (q - 1) * BUFFER_SIZE + 1
  BY <1>1, <1>2
<1>6. /\ ((q - 1) * BUFFER_SIZE + 1) \div BUFFER_SIZE = q - 1
      /\ ((q - 1) * BUFFER_SIZE + 1) % BUFFER_SIZE = 1
  BY <1>4, DivisionUnique
<1>7. q - 1 + 1 = q
  BY <1>2
<1> QED BY <1>5, <1>6, <1>7 DEF Byte, q

(* A recv() that returns a whole record returns the next one.              *)
LEMMA WholeRun ==
  ASSUME EchoTypeOK, NEW c \in Clients, NEW run \in Arrived(c, BUFFER_SIZE),
         Size(run) = BUFFER_SIZE
  PROVE  /\ run.from = c /\ run.lo = taken[c] + 1 /\ run.hi = taken[c] + BUFFER_SIZE
         /\ taken[c] + BUFFER_SIZE <= sent[c] /\ taken[c] \in Nat /\ sent[c] \in Nat
<1>1. PICK n \in 1 .. BUFFER_SIZE :
        n <= Unread(c) /\ run = [from |-> c, lo |-> taken[c] + 1, hi |-> taken[c] + n]
  BY DEF Arrived
<1>2. taken[c] \in Nat /\ sent[c] \in Nat /\ n \in Nat
  BY BufferSize DEF EchoTypeOK
<1>3. run.from = c /\ run.lo = taken[c] + 1 /\ run.hi = taken[c] + n
  BY <1>1
<1>4. n = BUFFER_SIZE
  BY <1>2, <1>3, BufferSize DEF Size
<1> QED BY <1>1, <1>2, <1>3, <1>4 DEF Unread

-----------------------------------------------------------------------------
(* A client whose records are whole, as the values that are known of it: a *)
(* where it is, s what it has sent, k what has been taken of it, st and sh *)
(* what was sent to it and what of that it has been shown, H the first     *)
(* bytes in the buffers that are about to be sent to it, each with its     *)
(* server.                                                                 *)

(* All it has been sent it has seen, ...                                   *)
Shown(st, sh) == Len(st) = sh

(* ... or all but a record that starts with its last line.                 *)
Replied(c, s, st, sh) ==
  /\ Len(st) = sh + BUFFER_SIZE
  /\ st[sh + 1] = Text(c, s \div BUFFER_SIZE)

(* Its last line is in one place: with the client, on its way to the       *)
(* server, in one buffer, or on its way back.                              *)
OnePlace(c, a, s, k, st, sh, H) ==
  \/ k = s /\ Shown(st, sh) /\ H = {}
  \/ a = "reply" /\ k + BUFFER_SIZE = s /\ Shown(st, sh) /\ H = {}
  \/ a = "reply" /\ k = s /\ Shown(st, sh) /\ \E t : H = {<<t, Text(c, s \div BUFFER_SIZE)>>}
  \/ a = "reply" /\ k = s /\ Replied(c, s, st, sh) /\ H = {}

(* As long as anything serves it; and no reply is left over for a line     *)
(* that comes.                                                             *)
Turn(c, a, s, k, st, sh, H, served) ==
  /\ a = "enter" => Shown(st, sh)
  /\ a = "reply" => Shown(st, sh) \/ Replied(c, s, st, sh)
  /\ served /\ a \in {"enter", "reply"} => OnePlace(c, a, s, k, st, sh, H)

(* It types a line and waits, or says goodbye.                             *)
LEMMA TurnEnters ==
  ASSUME NEW c, NEW s \in Nat, NEW k \in Nat, NEW st, NEW sh, NEW H, NEW served,
         Turn(c, "enter", s, k, st, sh, H, served),
         NEW a \in {"reply", "exit"}
  PROVE  Turn(c, a, s + BUFFER_SIZE, k, st, sh, H, served)
<1>1. Shown(st, sh) /\ (served => k = s /\ H = {})
  BY DEF Turn, OnePlace
<1> QED BY <1>1 DEF Turn, OnePlace

(* It is shown its own line, and nothing is left over.                     *)
LEMMA TurnShows ==
  ASSUME NEW c, NEW s \in Nat, NEW k \in Nat, NEW st \in Seq(ByteValue), NEW sh \in Nat,
         NEW H, NEW served,
         Turn(c, "reply", s, k, st, sh, H, served), sh + BUFFER_SIZE <= Len(st)
  PROVE  /\ st[sh + 1] = Text(c, s \div BUFFER_SIZE)
         /\ Turn(c, "enter", s, k, st, sh + BUFFER_SIZE, H, served)
<1>1. ~Shown(st, sh)
  BY BufferSize DEF Shown
<1>2. Replied(c, s, st, sh) /\ (served => k = s /\ H = {})
  BY <1>1 DEF Turn, OnePlace
<1>3. Shown(st, sh + BUFFER_SIZE)
  BY <1>2 DEF Replied, Shown
<1> QED BY <1>2, <1>3 DEF Turn, OnePlace, Replied

(* When recv() returns it a record, that record is its last line.          *)
LEMMA TurnArrives ==
  ASSUME NEW c, NEW a, NEW s \in Nat, NEW k \in Nat, NEW st, NEW sh, NEW H,
         Turn(c, a, s, k, st, sh, H, TRUE), s % BUFFER_SIZE = 0, k + BUFFER_SIZE <= s,
         NEW t, NEW G, G = {} \/ G = {<<t, Byte(c, k + 1)>>},
         NEW served
  PROVE  /\ a \in {"enter", "reply"} => H = {}
         /\ Turn(c, a, s, k + BUFFER_SIZE, st, sh, G, served)
<1>1. BUFFER_SIZE \in Nat /\ BUFFER_SIZE > 1 /\ k # s
  BY BufferSize
<1>2. CASE a \in {"enter", "reply"}
  <2>1. a = "reply" /\ k + BUFFER_SIZE = s /\ Shown(st, sh) /\ H = {}
    BY <1>1, <1>2 DEF Turn, OnePlace
  <2>2. Byte(c, k + 1) = Text(c, s \div BUFFER_SIZE)
    BY <2>1, FirstByte
  <2> QED BY <2>1, <2>2 DEF Turn, OnePlace
<1>3. CASE a \notin {"enter", "reply"}
  BY <1>3 DEF Turn
<1> QED BY <1>2, <1>3

(* When a buffer is sent to it, there was but this one.                    *)
LEMMA TurnSends ==
  ASSUME NEW c, NEW a, NEW s \in Nat, NEW k \in Nat, NEW st \in Seq(ByteValue), NEW sh \in Nat,
         NEW H, Turn(c, a, s, k, st, sh, H, TRUE),
         NEW t, NEW data \in Buffer, <<t, data[1]>> \in H, NEW served
  PROVE  Turn(c, a, s, k, st \o data, sh, H \ {<<t, data[1]>>}, served)
<1>1. data \in Seq(ByteValue) /\ Len(data) = BUFFER_SIZE
  BY BufferSize, IsASeq DEF Buffer
<1>2. CASE a \in {"enter", "reply"}
  <2>1. PICK u : /\ a = "reply" /\ k = s /\ Shown(st, sh)
                 /\ H = {<<u, Text(c, s \div BUFFER_SIZE)>>}
    BY <1>2 DEF Turn, OnePlace
  <2>2. data[1] = Text(c, s \div BUFFER_SIZE) /\ H \ {<<t, data[1]>>} = {}
    BY <2>1
  <2>3. Len(st \o data) = sh + BUFFER_SIZE /\ (st \o data)[sh + 1] = data[1]
    BY <1>1, <2>1, BufferSize DEF Shown
  <2> QED BY <2>1, <2>2, <2>3 DEF Turn, OnePlace, Replied
<1>3. CASE a \notin {"enter", "reply"}
  BY <1>3 DEF Turn
<1> QED BY <1>2, <1>3

(* A buffer is dropped, or nobody serves it any more.                      *)
LEMMA TurnDrops ==
  ASSUME NEW c, NEW a, NEW s, NEW k, NEW st, NEW sh, NEW H, NEW served,
         Turn(c, a, s, k, st, sh, H, served),
         NEW G, G \subseteq H, NEW still, still => served
  PROVE  Turn(c, a, s, k, st, sh, G, still)
<1>1. H = {} => G = {}
  OBVIOUS
<1>2. \A x : H = {x} => G = {} \/ G = {x}
  OBVIOUS
<1> QED BY <1>1, <1>2 DEF Turn, OnePlace

-----------------------------------------------------------------------------
(* Its records are whole, and while it is to enter a line its last one is  *)
(* on its screen.                                                          *)
LinesShown(c) ==
  /\ sent[c] % BUFFER_SIZE = 0
  /\ at[c] = "enter" /\ sent[c] > 0 => screen[c] = Text(c, Sent(c))

(* Until the end of its process.                                           *)
InTurn(c, H, served) ==
  conn[c] # "closed" =>
    Turn(c, at[c], sent[c], taken[c], stream[c], shown[c], H, served)

(* What any client thread d does, and the end of any process, as long as a *)
(* client is served when it is not told that it is not.                    *)
LEMMA ClientsKeepTurn ==
  ASSUME EchoTypeOK, NEW c \in Whole, LinesShown(c), NEW H, NEW served,
         InTurn(c, H, served), NEW d \in Clients, NEW gone, d = c /\ gone => ~served,
         \/ Connect(d) \/ EndProcess(d) \/ EnterMessage(d) \/ EnterExit(d)
         \/ SendFails(d, gone) \/ ReceiveEcho(d) \/ ReceiveNothing(d, gone)
  PROVE  /\ LinesShown(c)'
         /\ conn'[c] # "closed" =>
              Turn(c, at'[c], sent'[c], taken'[c], stream'[c], shown'[c], H, served)
<1>c. c \in Clients
  BY EchoClientAssumption
<1>t. /\ sent[c] \in Nat /\ taken[c] \in Nat /\ shown[c] \in Nat
      /\ stream[c] \in Seq(ByteValue)
  BY <1>c DEF EchoTypeOK
<1>s. UNCHANGED <<taken, stream>>
  BY ConnectTypes, EndProcessTypes, EnterTypes, SendFailsTypes, ReceiveEchoTypes,
     ReceiveNothingTypes
<1>1. CASE UNCHANGED <<at[c], sent[c], shown[c], screen[c]>>
           /\ (conn'[c] # "closed" => conn[c] # "closed")
  BY <1>s, <1>1 DEF LinesShown, Sent, InTurn
<1>2. CASE Connect(d)
  BY <1>1, <1>2 DEF Connect, Establish, clientVars
<1>3. CASE EndProcess(d)
  BY <1>c, <1>1, <1>3 DEF EndProcess, CloseEnds, clientVars
<1>4. CASE d # c /\ ~Connect(d) /\ ~EndProcess(d)
  <2>1. UNCHANGED conn
    BY <1>4 DEF EnterMessage, EnterExit, EnterLine, SendFails, netVars, ReceiveEcho,
                ReceiveNothing, Prints
  <2>2. UNCHANGED <<at[c], sent[c], shown[c], screen[c]>>
    BY <1>c, <1>4 DEF EnterMessage, EnterExit, EnterLine, Transmit, SendFails, netVars,
                ReceiveEcho, ReceiveNothing, Prints, Moves, EchoTypeOK
  <2> QED BY <1>1, <2>1, <2>2
<1>5. CASE EnterMessage(c) \/ EnterExit(c)
  <2>1. PICK a \in {"reply", "exit"} :
          /\ conn[c] = "open" /\ at[c] = "enter" /\ at'[c] = a
          /\ sent'[c] = sent[c] + BUFFER_SIZE
          /\ UNCHANGED <<conn, shown>>
    BY <1>c, <1>5 DEF EnterMessage, EnterExit, EnterLine, AtPlace, Moves, Transmit, EchoTypeOK
  <2>2. LinesShown(c)'
    BY <1>t, <2>1, NextRecord DEF LinesShown
  <2>3. Turn(c, a, sent[c] + BUFFER_SIZE, taken[c], stream[c], shown[c], H, served)
    BY <1>t, <2>1, TurnEnters DEF InTurn
  <2> QED BY <1>s, <2>1, <2>2, <2>3
<1>6. CASE SendFails(c, gone)
  <2>1. at'[c] = "done" /\ UNCHANGED sent
    BY <1>c, <1>6 DEF SendFails, Moves, netVars, EchoTypeOK
  <2> QED BY <2>1, <1>6 DEF LinesShown, Turn
<1>7. CASE ReceiveEcho(c)
  <2>1. /\ conn[c] = "open" /\ at[c] = "reply" /\ at'[c] = "enter"
        /\ shown[c] + BUFFER_SIZE <= Len(stream[c])
        /\ shown'[c] = shown[c] + BUFFER_SIZE
        /\ screen'[c] = stream[c][shown[c] + 1]
        /\ UNCHANGED <<conn, sent>>
    BY <1>c, <1>7 DEF ReceiveEcho, Prints, AtPlace, Moves, EchoTypeOK
  <2>2. /\ stream[c][shown[c] + 1] = Text(c, sent[c] \div BUFFER_SIZE)
        /\ Turn(c, "enter", sent[c], taken[c], stream[c], shown[c] + BUFFER_SIZE, H, served)
    BY <1>t, <2>1, TurnShows DEF InTurn
  <2>3. LinesShown(c)'
    BY <2>1, <2>2 DEF LinesShown, Sent
  <2> QED BY <1>s, <2>1, <2>2, <2>3
<1>8. CASE d = c /\ ReceiveNothing(c, gone)
  <2>1. /\ conn[c] = "open" /\ at[c] = "reply" /\ at'[c] = "enter" /\ gone
        /\ shown[c] = Len(stream[c])
        /\ screen'[c] = Text(c, Sent(c))
        /\ UNCHANGED <<conn, sent, shown>>
    BY <1>c, <1>8 DEF ReceiveNothing, Prints, AtPlace, Moves, EchoTypeOK
  <2>2. ~served
    BY <1>8, <2>1
  <2>3. LinesShown(c)'
    BY <2>1 DEF LinesShown, Sent
  <2>4. Turn(c, "enter", sent[c], taken[c], stream[c], shown[c], H, served)
    BY <2>1, <2>2 DEF Turn, Shown
  <2> QED BY <1>s, <2>1, <2>3, <2>4
<1> QED BY <1>2, <1>3, <1>4, <1>5, <1>6, <1>7, <1>8

(* What such a client prints is the line it typed last, whatever recv()    *)
(* returned.                                                               *)
LEMMA PrintsOwnLine ==
  ASSUME EchoTypeOK, NEW c \in Whole, NEW H, NEW served, InTurn(c, H, served), NEW gone,
         ReceiveEcho(c) \/ ReceiveNothing(c, gone)
  PROVE  screen' = [screen EXCEPT ![c] = Text(c, Sent(c))]
<1>t. /\ c \in Clients /\ sent[c] \in Nat /\ taken[c] \in Nat /\ shown[c] \in Nat
      /\ stream[c] \in Seq(ByteValue)
  BY EchoClientAssumption DEF EchoTypeOK
<1>1. CASE ReceiveEcho(c)
  <2>1. /\ conn[c] = "open" /\ at[c] = "reply" /\ shown[c] + BUFFER_SIZE <= Len(stream[c])
        /\ screen' = [screen EXCEPT ![c] = stream[c][shown[c] + 1]]
    BY <1>1 DEF ReceiveEcho, Prints, AtPlace
  <2>2. stream[c][shown[c] + 1] = Text(c, sent[c] \div BUFFER_SIZE)
    BY <1>t, <2>1, TurnShows DEF InTurn
  <2> QED BY <2>1, <2>2 DEF Sent
<1>2. CASE ReceiveNothing(c, gone)
  BY <1>2 DEF ReceiveNothing, Prints
<1> QED BY <1>1, <1>2

=============================================================================
