---------------------------- MODULE EchoRecords -----------------------------
(***************************************************************************)
(* What the two echo servers of Multi_client find in their buffers: the    *)
(* records of EchoClient, in the pieces that recv() makes of them.         *)
(***************************************************************************)
EXTENDS EchoClient

Buffer == [1 .. BUFFER_SIZE -> ByteValue]

Uninitialised == [j \in 1 .. BUFFER_SIZE |-> Garbage]

(* The n-th byte that c has sent.                                          *)
Byte(c, n) ==
  IF n % BUFFER_SIZE = 1 THEN Text(c, n \div BUFFER_SIZE + 1) ELSE Zero

IsExit(byte) ==
  \E c \in Clients : quit[c] /\ byte = Text(c, Sent(c))

(* The bytes of run, a terminator, and what was there before; when run     *)
(* fills the buffer the terminator is written behind it.                   *)
Filled(old, run) ==
  [j \in 1 .. BUFFER_SIZE |->
     CASE j <= Size(run) -> Byte(run.from, run.lo + j - 1)
       [] j = Size(run) + 1 -> Zero
       [] OTHER -> old[j]]

=============================================================================
