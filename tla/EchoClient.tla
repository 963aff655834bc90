----------------------------- MODULE EchoClient -----------------------------
(***************************************************************************)
(* Multi_client/multi-thread/client.c and multi-process/client.c: one      *)
(* process opens many connections, each with a thread of its own that      *)
(* sends a line as a record of BUFFER_SIZE bytes, then takes whatever one  *)
(* recv() returns for the echo.                                            *)
(*                                                                         *)
(* The text of a line is the first byte of its record, the rest is zero.   *)
(***************************************************************************)
EXTENDS Sockets

CONSTANTS
  BUFFER_SIZE,
  Process,   \* Process[c]: the process that thread c belongs to
  Whole,     \* assumption on TCP: their records are neither cut nor joined
  Records    \* bound: Records[c] is how many lines are typed into thread c

ASSUME EchoClientAssumption ==
  /\ BUFFER_SIZE \in Nat \ {0, 1}
  /\ DOMAIN Process = Clients
  /\ Whole \subseteq Clients
  /\ Records \in [Clients -> Nat]

VARIABLES
  at,      \* at[c]: where client thread c is
  quit,    \* quit[c]: the last line typed into c was "exit"
  screen   \* screen[c]: what c printed last, by its first byte

clientVars == <<at, quit, screen>>

Places == {"enter", "reply", "exit", "done"}

Text(c, r) == [from |-> c, record |-> r]   \* the r-th line typed into c
Zero == [from |-> NoSocket, record |-> 0]
Garbage == [from |-> NoSocket, record |-> 1]   \* what the stack held

ByteValue == [from : Clients \cup {NoSocket}, record : Nat]

Sent(c) == sent[c] \div BUFFER_SIZE   \* records

ClientInit ==
  /\ at = [c \in Clients |-> "enter"]
  /\ quit = [c \in Clients |-> FALSE]
  /\ screen = [c \in Clients |-> Zero]

AtPlace(c, place) == conn[c] = "open" /\ at[c] = place

Moves(c, place) == at' = [at EXCEPT ![c] = place]

-----------------------------------------------------------------------------
Connect(c) ==
  /\ Establish(c)
  /\ UNCHANGED <<server, sent, taken, stream, shown, sockerr, clientVars>>

(* exit(), a signal or a return from main takes all threads with it.       *)
EndProcess(c) ==
  /\ CloseEnds({d \in Clients : Process[d] = Process[c]})
  /\ UNCHANGED <<server, backlog, sent, taken, stream, shown, clientVars>>

ConnectRefused(c) == conn[c] = "none" /\ ~Running /\ EndProcess(c)

EnterLine(c, place) ==
  /\ AtPlace(c, "enter")
  /\ Sent(c) < Records[c]
  /\ Transmit(c, BUFFER_SIZE)
  /\ Moves(c, place)
  /\ UNCHANGED <<server, conn, backlog, taken, stream, shown, sockerr, screen>>

EnterMessage(c) == EnterLine(c, "reply") /\ UNCHANGED quit
EnterExit(c) == EnterLine(c, "exit") /\ quit' = [quit EXCEPT ![c] = TRUE]

Exit(c) == AtPlace(c, "exit") /\ EndProcess(c)

(* The thread stops, and leaves its socket open.                           *)
SendFails(c, gone) ==
  /\ AtPlace(c, "enter")
  /\ gone
  /\ Moves(c, "done")
  /\ UNCHANGED <<netVars, quit, screen>>

Prints(c, byte) ==
  /\ AtPlace(c, "reply")
  /\ screen' = [screen EXCEPT ![c] = byte]
  /\ Moves(c, "enter")
  /\ UNCHANGED <<server, conn, backlog, sent, taken, stream, sockerr, quit>>

ReceiveEcho(c) ==
  \E n \in 1 .. BUFFER_SIZE :
    /\ c \in Whole => n = BUFFER_SIZE
    /\ shown[c] + n <= Len(stream[c])
    /\ shown' = [shown EXCEPT ![c] = @ + n]
    /\ Prints(c, stream[c][shown[c] + 1])

(* recv() returned 0 or -1, which is not looked at: the buffer is printed  *)
(* as the thread has sent it.                                              *)
ReceiveNothing(c, gone) ==
  /\ gone
  /\ shown[c] = Len(stream[c])
  /\ Prints(c, Text(c, Sent(c)))
  /\ UNCHANGED shown

=============================================================================
