--------------------------- MODULE SslPumpProofs ----------------------------
(***************************************************************************)
(* Theorems about SslPump for any number of lines, any size of flights, of *)
(* reads and of the kernel's buffer, and both versions of TLS: its type    *)
(* invariant; that no ciphertext is lost, repeated or overtaken, and that  *)
(* nothing is left behind when an end waits for poll(); and that it        *)
(* implements TlsChannel.                                                  *)
(***************************************************************************)
EXTENDS SslPump, SequenceTheorems, WellFoundedInduction, TLAPS

(* The piece that follows p in a stream of the messages ms.                *)
NextPiece(ms, p) ==
  IF p[2] < ms[p[1]].size THEN <<p[1], p[2] + 1>> ELSE <<p[1] + 1, 1>>

InOrder(ms, s) ==
  \A i \in 1 .. Len(s) :
    NextPiece(ms, s[i]) = IF i < Len(s) THEN s[i + 1] ELSE <<Len(ms) + 1, 1>>

(* Every piece of s is one of ms.                                          *)
PiecesOf(ms, s) ==
  \A i \in 1 .. Len(s) :
    s[i][1] \in 1 .. Len(ms) /\ s[i][2] \in 1 .. ms[s[i][1]].size

(* What is in the four places on the way from one SSL object to the other. *)
AllOf(ms, r, n, w, b) ==
  PiecesOf(ms, r) /\ PiecesOf(ms, n) /\ PiecesOf(ms, w) /\ PiecesOf(ms, b)

OneAfterTheOther(r, n, w, b) == r \o n \o w \o b

Chain(ms, r, n, w, b) == InOrder(ms, OneAfterTheOther(r, n, w, b))

AllMade ==
  \A e \in Ends : AllOf(messages[e], rbio[Peer(e)], net[e], write_buf[e], wbio[e])

InChain(e) == Chain(messages[e], rbio[Peer(e)], net[e], write_buf[e], wbio[e])

(* Flights alternate, and a handshake that is called has not finished.     *)
Handshaking ==
  /\ flights["client"] \in {0, 1, 3, 4}
  /\ flights["server"] \in {0, 2, 4}
  /\ \A e \in Ends : pc[e] = "handshake" => ~SSL_is_init_finished(e)

(* What NoPieceLost says, of every program that runs, and with the four    *)
(* places named: also what a peer has left behind arrives in order.        *)
Chained == \A e \in Ends : Up(Peer(e)) => InChain(e)

(* TypeOK, of the places where pieces are and of the rest.                 *)
BioTypeOK ==
  /\ messages \in [Ends -> Seq(Message)]
  /\ rbio \in [Ends -> Seq(Piece)]
  /\ wbio \in [Ends -> Seq(Piece)]
  /\ net \in [Ends -> Seq(Piece)]
  /\ write_buf \in [Ends -> Seq(Piece)]

PumpTypeOK ==
  /\ flights \in [Ends -> 0 .. 4]
  /\ broken \in [Ends -> BOOLEAN]
  /\ pc \in [Ends -> Functions]
  /\ revents \in [Ends -> SUBSET Events]
  /\ encrypt_buf \in [Ends -> Seq(Nat)]
  /\ typed \in [Ends -> Nat]
  /\ entered \in [Ends -> Nat]
  /\ \A e \in Ends : typed[e] <= Lines[e] /\ entered[e] <= typed[e]
  /\ printed \in [Ends -> Seq(Nat)]

Flow == BioTypeOK /\ PumpTypeOK /\ Handshaking /\ AllMade /\ Chained

(* What poll() has said of stdin still holds when stdin is read.           *)
Keys == \A e \in Ends : "key" \in revents[e] => entered[e] < typed[e]

-----------------------------------------------------------------------------
(* Sequences of pieces *)

(* RunsToTheEnd, of the messages as a value.                               *)
LEMMA RunsInOrder ==
  \A e, s : RunsToTheEnd(e, s) <=> InOrder(messages[e], s)
  BY DEF RunsToTheEnd, InOrder, NextPiece

(* What After() keeps.                                                     *)
LEMMA AfterType ==
  ASSUME NEW S, NEW s \in Seq(S), NEW n \in Nat
  PROVE  /\ After(s, n) \in Seq(S)
         /\ Len(After(s, n)) = IF n < Len(s) THEN Len(s) - n ELSE 0
         /\ \A i \in 1 .. Len(After(s, n)) : i + n \in 1 .. Len(s) /\ After(s, n)[i] = s[i + n]
  BY SubSeqProperties DEF After

(* The end of a stream without its first pieces is the end of that stream. *)
LEMMA InOrderTail ==
  ASSUME NEW ms, NEW s \in Seq(Piece), NEW t \in Seq(Piece), InOrder(ms, s \o t)
  PROVE  InOrder(ms, t)
<1> DEFINE all == s \o t
<1>1. /\ Len(all) = Len(s) + Len(t) /\ Len(s) \in Nat /\ Len(t) \in Nat
      /\ \A i \in 1 .. Len(t) : all[Len(s) + i] = t[i]
  BY ConcatProperties
<1> HIDE DEF all
<1>2. ASSUME NEW i \in 1 .. Len(t)
      PROVE  NextPiece(ms, t[i]) = IF i < Len(t) THEN t[i + 1] ELSE <<Len(ms) + 1, 1>>
  <2> DEFINE j == Len(s) + i
  <2>1. /\ j \in 1 .. Len(all) /\ (i < Len(t) <=> j < Len(all))
        /\ t[i] = all[j]
    <3>1. j \in 1 .. Len(all) /\ (i < Len(t) <=> j < Len(all))
      BY <1>1
    <3>2. t[i] = all[j]
      BY <1>1
    <3> QED BY <3>1, <3>2
  <2>2. NextPiece(ms, all[j]) = IF j < Len(all) THEN all[j + 1] ELSE <<Len(ms) + 1, 1>>
    BY <2>1 DEF InOrder, all
  <2>3. CASE i < Len(t)
    <3>1. i + 1 \in 1 .. Len(t) /\ j + 1 = Len(s) + (i + 1)
      BY <1>1, <2>3
    <3> QED BY <1>1, <2>1, <2>2, <2>3, <3>1
  <2>4. CASE ~(i < Len(t))
    BY <2>1, <2>2, <2>4
  <2> QED BY <2>3, <2>4
<1> QED BY <1>2 DEF InOrder

(* A part of pieces of ms.                                                 *)
LEMMA PiecesOfAfter ==
  ASSUME NEW ms, NEW s \in Seq(Piece), NEW n \in Nat, PiecesOf(ms, s)
  PROVE  PiecesOf(ms, After(s, n))
<1> DEFINE t == After(s, n)
<1>1. \A i \in 1 .. Len(t) : i + n \in 1 .. Len(s) /\ t[i] = s[i + n]
  BY AfterType
<1> HIDE DEF t
<1>2. PiecesOf(ms, t)
  BY <1>1 DEF PiecesOf
<1> QED BY <1>2 DEF t

(* Two of them together.                                                   *)
LEMMA PiecesOfConcat ==
  ASSUME NEW ms, NEW s \in Seq(Piece), NEW t \in Seq(Piece), PiecesOf(ms, s), PiecesOf(ms, t)
  PROVE  PiecesOf(ms, s \o t)
<1> SUFFICES ASSUME NEW i \in 1 .. Len(s \o t)
             PROVE  (s \o t)[i][1] \in 1 .. Len(ms)
                    /\ (s \o t)[i][2] \in 1 .. ms[(s \o t)[i][1]].size
  BY DEF PiecesOf
<1>1. i \in 1 .. Len(s) + Len(t) /\ Len(s) \in Nat /\ Len(t) \in Nat
  OBVIOUS
<1>2. CASE i <= Len(s)
  <2>1. (s \o t)[i] = s[i] /\ i \in 1 .. Len(s)
    BY <1>1, <1>2
  <2> QED BY <2>1 DEF PiecesOf
<1>3. CASE i > Len(s)
  <2>1. (s \o t)[i] = t[i - Len(s)] /\ i - Len(s) \in 1 .. Len(t)
    BY <1>1, <1>3
  <2> QED BY <2>1 DEF PiecesOf
<1> QED BY <1>1, <1>2, <1>3

(* The first n and the rest.                                               *)
LEMMA Cut ==
  ASSUME NEW s \in Seq(Piece), NEW n \in 0 .. Len(s)
  PROVE  /\ SubSeq(s, 1, n) \in Seq(Piece)
         /\ After(s, n) \in Seq(Piece)
         /\ s = SubSeq(s, 1, n) \o After(s, n)
         /\ \A ms : PiecesOf(ms, s) => PiecesOf(ms, SubSeq(s, 1, n)) /\ PiecesOf(ms, After(s, n))
<1>1. SubSeq(s, 1, n) \in Seq(Piece) /\ Len(SubSeq(s, 1, n)) = n
      /\ \A i \in 1 .. n : SubSeq(s, 1, n)[i] = s[i]
  BY SubSeqProperties
<1>2. After(s, n) \in Seq(Piece)
  BY AfterType
<1>3. SubSeq(s, 1, n) \o SubSeq(s, n + 1, Len(s)) = SubSeq(s, 1, Len(s))
  <2>1. /\ 1 \in 1 .. Len(s) + 1
        /\ n \in 1 - 1 .. Len(s)
        /\ Len(s) \in n .. Len(s)
    BY LenProperties
  <2> QED BY <2>1, ConcatAdjacentSubSeq
<1>4. SubSeq(s, 1, Len(s)) = s
  BY SubSeqFull
<1>5. \A ms : PiecesOf(ms, s) => PiecesOf(ms, SubSeq(s, 1, n))
  BY <1>1 DEF PiecesOf
<1>6. \A ms : PiecesOf(ms, s) => PiecesOf(ms, After(s, n))
  <2>1. n \in Nat
    OBVIOUS
  <2> QED BY <2>1, PiecesOfAfter
<1>7. s = SubSeq(s, 1, n) \o After(s, n)
  BY <1>3, <1>4 DEF After
<1> QED BY <1>1, <1>2, <1>5, <1>6, <1>7

-----------------------------------------------------------------------------
(* A new message *)

Pieces(k, size) == [i \in 1 .. size |-> <<k, i>>]

(* All its pieces follow one another.                                      *)
LEMMA PiecesType ==
  ASSUME NEW k \in Nat, NEW size \in Nat
  PROVE  /\ Pieces(k, size) \in Seq(Piece)
         /\ Len(Pieces(k, size)) = size
         /\ \A i \in 1 .. size : Pieces(k, size)[i] = <<k, i>>
  BY DEF Pieces, Piece

(* Pieces of the messages there were are pieces of those there are.        *)
LEMMA PiecesOfMore ==
  ASSUME NEW ms \in Seq(Message), NEW m \in Message, NEW s \in Seq(Piece), PiecesOf(ms, s)
  PROVE  PiecesOf(Append(ms, m), s)
<1> SUFFICES ASSUME NEW i \in 1 .. Len(s)
             PROVE  s[i][1] \in 1 .. Len(Append(ms, m))
                    /\ s[i][2] \in 1 .. Append(ms, m)[s[i][1]].size
  BY DEF PiecesOf
<1>1. s[i][1] \in 1 .. Len(ms) /\ s[i][2] \in 1 .. ms[s[i][1]].size
  BY DEF PiecesOf
<1>2. Len(Append(ms, m)) = Len(ms) + 1 /\ \A k \in 1 .. Len(ms) : Append(ms, m)[k] = ms[k]
  BY AppendProperties
<1>3. Len(ms) \in Nat
  OBVIOUS
<1> QED BY <1>1, <1>2, <1>3

(* So are those of the new message.                                        *)
LEMMA PiecesOfNew ==
  ASSUME NEW ms \in Seq(Message), NEW m \in Message
  PROVE  PiecesOf(Append(ms, m), Pieces(Len(ms) + 1, m.size))
<1>1. Len(ms) \in Nat /\ m.size \in Nat
  BY DEF Message
<1>2. Len(Append(ms, m)) = Len(ms) + 1 /\ Append(ms, m)[Len(ms) + 1] = m
  BY AppendProperties
<1>3. Len(ms) + 1 \in Nat
  BY <1>1
<1> DEFINE new == Pieces(Len(ms) + 1, m.size)
<1>4. Len(new) = m.size /\ \A i \in 1 .. m.size : new[i] = <<Len(ms) + 1, i>>
  BY <1>1, <1>3, PiecesType
<1> HIDE DEF new
<1>5. PiecesOf(Append(ms, m), new)
  BY <1>1, <1>2, <1>4 DEF PiecesOf
<1> QED BY <1>5 DEF new

(* A stream that ends with the last message goes on with the new one.      *)
LEMMA InOrderMore ==
  ASSUME NEW ms \in Seq(Message), NEW m \in Message, NEW s \in Seq(Piece),
         PiecesOf(ms, s), InOrder(ms, s)
  PROVE  InOrder(Append(ms, m), s \o Pieces(Len(ms) + 1, m.size))
<1> DEFINE more == Append(ms, m)
           new == Pieces(Len(ms) + 1, m.size)
           all == s \o new
<1>1. Len(ms) \in Nat /\ m.size \in Nat \ {0} /\ Len(s) \in Nat
  BY DEF Message
<1>2. /\ Len(more) = Len(ms) + 1 /\ more[Len(ms) + 1] = m
      /\ \A k \in 1 .. Len(ms) : more[k] = ms[k]
  BY AppendProperties
<1>3. /\ new \in Seq(Piece) /\ Len(new) = m.size
      /\ \A i \in 1 .. m.size : new[i] = <<Len(ms) + 1, i>>
  <2>1. Len(ms) + 1 \in Nat /\ m.size \in Nat
    BY <1>1
  <2> QED BY <2>1, PiecesType
<1>4. /\ Len(all) = Len(s) + m.size
      /\ \A i \in 1 .. Len(s) : all[i] = s[i]
      /\ \A i \in 1 .. m.size : all[Len(s) + i] = <<Len(ms) + 1, i>>
  BY <1>1, <1>3, ConcatProperties
<1> HIDE DEF more, new, all
<1>5. ASSUME NEW i \in 1 .. Len(all)
      PROVE  NextPiece(more, all[i]) = IF i < Len(all) THEN all[i + 1] ELSE <<Len(more) + 1, 1>>
  <2>1. CASE i <= Len(s)
    <3>1. i \in 1 .. Len(s) /\ all[i] = s[i] /\ i < Len(all)
      BY <1>1, <1>4, <2>1
    <3>2. s[i][1] \in 1 .. Len(ms)
      BY <3>1 DEF PiecesOf
    <3>3. NextPiece(more, all[i]) = NextPiece(ms, s[i])
      BY <1>2, <3>1, <3>2 DEF NextPiece
    <3>4. NextPiece(ms, s[i]) = IF i < Len(s) THEN s[i + 1] ELSE <<Len(ms) + 1, 1>>
      BY <3>1 DEF InOrder
    <3>5. CASE i < Len(s)
      BY <1>1, <1>4, <3>1, <3>3, <3>4, <3>5
    <3>6. CASE i = Len(s)
      <4>1. all[Len(s) + 1] = <<Len(ms) + 1, 1>>
        BY <1>1, <1>4
      <4> QED BY <3>1, <3>3, <3>4, <3>6, <4>1
    <3> QED BY <1>1, <2>1, <3>5, <3>6
  <2>2. CASE i > Len(s)
    <3> DEFINE j == i - Len(s)
    <3>1. j \in 1 .. m.size /\ i = Len(s) + j
      BY <1>1, <1>4, <2>2
    <3>2. all[i] = <<Len(ms) + 1, j>>
      BY <1>4, <3>1
    <3>3. NextPiece(more, all[i])
            = IF j < m.size THEN <<Len(ms) + 1, j + 1>> ELSE <<Len(ms) + 2, 1>>
      BY <1>1, <1>2, <3>2 DEF NextPiece
    <3>4. CASE j < m.size
      <4>1. j + 1 \in 1 .. m.size /\ Len(s) + (j + 1) = i + 1 /\ i < Len(all)
        BY <1>1, <1>4, <3>1, <3>4
      <4>2. all[Len(s) + (j + 1)] = <<Len(ms) + 1, j + 1>>
        BY <1>4, <4>1
      <4> QED BY <3>3, <3>4, <4>1, <4>2
    <3>5. CASE j = m.size
      BY <1>1, <1>2, <1>4, <3>1, <3>3, <3>5
    <3> QED BY <1>1, <3>1, <3>4, <3>5
  <2> QED BY <1>1, <1>4, <2>1, <2>2
<1>6. InOrder(more, all)
  BY <1>5 DEF InOrder
<1> QED BY <1>6 DEF more, new, all

-----------------------------------------------------------------------------
(* The four places *)

(* s \o t, where an equation must not be taken apart, and s with the first *)
(* k of t.                                                                 *)
Joined(s, t) == s \o t
Moved(s, t, k) == s \o SubSeq(t, 1, k)

(* Concatenation of pieces, for the terms below.                           *)
LEMMA Concat ==
  ASSUME NEW s \in Seq(Piece), NEW t \in Seq(Piece)
  PROVE  s \o t \in Seq(Piece)
  OBVIOUS

(* Which two are put together first makes no difference.                   *)
LEMMA Associates ==
  ASSUME NEW s \in Seq(Piece), NEW t \in Seq(Piece), NEW u \in Seq(Piece)
  PROVE  (s \o t) \o u = s \o (t \o u)
  BY ConcatAssociative

(* What is put in front of the first place is in front of everything.      *)
LEMMA ConcatFirst ==
  ASSUME NEW x \in Seq(Piece), NEW r \in Seq(Piece), NEW n \in Seq(Piece),
         NEW w \in Seq(Piece), NEW b \in Seq(Piece)
  PROVE  OneAfterTheOther(Joined(x, r), n, w, b) = Joined(x, OneAfterTheOther(r, n, w, b))
<1> DEFINE rn == r \o n
           rnw == rn \o w
<1>1. rn \in Seq(Piece)
  BY Concat
<1>2. (x \o r) \o n = x \o rn
  BY Associates
<1> HIDE DEF rn
<1>3. rnw \in Seq(Piece)
  BY <1>1, Concat
<1>4. (x \o rn) \o w = x \o rnw
  BY <1>1, Associates
<1> HIDE DEF rnw
<1>5. (x \o rnw) \o b = x \o (rnw \o b)
  BY <1>3, Associates
<1> QED BY <1>2, <1>4, <1>5 DEF rn, rnw, OneAfterTheOther, Joined

(* What leaves the third place for the second changes nothing.             *)
LEMMA ConcatMiddle ==
  ASSUME NEW x \in Seq(Piece), NEW r \in Seq(Piece), NEW n \in Seq(Piece),
         NEW w \in Seq(Piece), NEW b \in Seq(Piece)
  PROVE  OneAfterTheOther(r, n \o x, w, b) = OneAfterTheOther(r, n, x \o w, b)
<1> DEFINE rn == r \o n
<1>1. rn \in Seq(Piece)
  BY Concat
<1>2. rn \o x = r \o (n \o x)
  BY Associates
<1> HIDE DEF rn
<1>3. (rn \o x) \o w = rn \o (x \o w)
  BY <1>1, Associates
<1> QED BY <1>2, <1>3 DEF rn, OneAfterTheOther

(* Nor does what leaves the last for the third.                            *)
LEMMA ConcatEmptied ==
  ASSUME NEW r \in Seq(Piece), NEW n \in Seq(Piece), NEW w \in Seq(Piece), NEW b \in Seq(Piece)
  PROVE  OneAfterTheOther(r, n, w \o b, << >>) = OneAfterTheOther(r, n, w, b)
<1> DEFINE rn == r \o n
           wb == w \o b
           rnwb == rn \o wb
<1>1. rn \in Seq(Piece) /\ wb \in Seq(Piece)
  BY Concat
<1> HIDE DEF rn
<1>2. (rn \o w) \o b = rn \o wb
  BY <1>1, Associates
<1> HIDE DEF wb
<1>3. rnwb \in Seq(Piece)
  BY <1>1, Concat
<1> HIDE DEF rnwb
<1>4. rnwb \o << >> = rnwb
  BY <1>3, ConcatEmptySeq
<1> QED BY <1>2, <1>4 DEF rn, wb, rnwb, OneAfterTheOther

(* What is put behind the last is behind everything.                       *)
LEMMA ConcatLast ==
  ASSUME NEW x \in Seq(Piece), NEW r \in Seq(Piece), NEW n \in Seq(Piece),
         NEW w \in Seq(Piece), NEW b \in Seq(Piece)
  PROVE  OneAfterTheOther(r, n, w, Joined(b, x)) = Joined(OneAfterTheOther(r, n, w, b), x)
<1> DEFINE rn == r \o n
           rnw == rn \o w
<1>1. rn \in Seq(Piece)
  BY Concat
<1> HIDE DEF rn
<1>2. rnw \in Seq(Piece)
  BY <1>1, Concat
<1> HIDE DEF rnw
<1>3. (rnw \o b) \o x = rnw \o (b \o x)
  BY <1>2, Associates
<1> QED BY <1>3 DEF rn, rnw, OneAfterTheOther, Joined

(* All four places hold pieces, of the messages that each of them is of.   *)
LEMMA ConcatPieces ==
  ASSUME NEW ms, NEW r \in Seq(Piece), NEW n \in Seq(Piece), NEW w \in Seq(Piece),
         NEW b \in Seq(Piece)
  PROVE  /\ OneAfterTheOther(r, n, w, b) \in Seq(Piece)
         /\ AllOf(ms, r, n, w, b) => PiecesOf(ms, OneAfterTheOther(r, n, w, b))
<1> DEFINE rn == r \o n
           rnw == rn \o w
<1>1. rn \in Seq(Piece) /\ (AllOf(ms, r, n, w, b) => PiecesOf(ms, rn))
  BY Concat, PiecesOfConcat DEF AllOf
<1> HIDE DEF rn
<1>2. rnw \in Seq(Piece) /\ (AllOf(ms, r, n, w, b) => PiecesOf(ms, rnw))
  BY <1>1, Concat, PiecesOfConcat DEF AllOf
<1> HIDE DEF rnw
<1>3. rnw \o b \in Seq(Piece) /\ (AllOf(ms, r, n, w, b) => PiecesOf(ms, rnw \o b))
  BY <1>2, Concat, PiecesOfConcat DEF AllOf
<1> QED BY <1>3 DEF rn, rnw, OneAfterTheOther

(* s is what precedes After(s, k), and After(s, k).                        *)
LEMMA Rest ==
  ASSUME NEW s \in Seq(Piece), NEW k \in Nat
  PROVE  /\ After(s, k) \in Seq(Piece)
         /\ \E x \in Seq(Piece) : s = x \o After(s, k)
<1>1. CASE k <= Len(s)
  <2>1. k \in 0 .. Len(s)
    BY <1>1
  <2>2. /\ SubSeq(s, 1, k) \in Seq(Piece) /\ After(s, k) \in Seq(Piece)
        /\ s = SubSeq(s, 1, k) \o After(s, k)
    BY <2>1, Cut
  <2> QED BY <2>2
<1>2. CASE k > Len(s)
  <2>1. Len(s) \in Nat /\ Len(s) < k + 1
    BY <1>2
  <2>2. After(s, k) = << >>
    BY <2>1, SubSeqEmpty DEF After
  <2>3. s = s \o << >> /\ << >> \in Seq(Piece)
    BY ConcatEmptySeq
  <2> QED BY <2>2, <2>3
<1> QED BY <1>1, <1>2

(* SSL_read() and SSL_do_handshake() take pieces from rbio.                *)
LEMMA ChainTakes ==
  ASSUME NEW ms, NEW r \in Seq(Piece), NEW n \in Seq(Piece), NEW w \in Seq(Piece),
         NEW b \in Seq(Piece), NEW k \in Nat, AllOf(ms, r, n, w, b)
  PROVE  /\ AllOf(ms, After(r, k), n, w, b)
         /\ Chain(ms, r, n, w, b) => Chain(ms, After(r, k), n, w, b)
<1> DEFINE rest == After(r, k)
<1>1. PICK x \in Seq(Piece) : r = Joined(x, rest)
  BY Rest DEF Joined
<1>2. rest \in Seq(Piece)
  BY Rest
<1>3. PiecesOf(ms, rest)
  BY PiecesOfAfter DEF AllOf
<1> HIDE DEF rest
<1>4. OneAfterTheOther(r, n, w, b) = Joined(x, OneAfterTheOther(rest, n, w, b))
  BY <1>1, <1>2, ConcatFirst
<1>5. OneAfterTheOther(rest, n, w, b) \in Seq(Piece)
  BY <1>2, ConcatPieces
<1>6. Chain(ms, r, n, w, b) => Chain(ms, rest, n, w, b)
  <2>1. ASSUME InOrder(ms, Joined(x, OneAfterTheOther(rest, n, w, b)))
        PROVE  InOrder(ms, OneAfterTheOther(rest, n, w, b))
    BY <1>5, <2>1, InOrderTail DEF Joined
  <2> QED BY <1>4, <2>1 DEF Chain
<1> QED BY <1>3, <1>6 DEF AllOf, rest

(* read() moves pieces from the connection to rbio,                        *)
LEMMA ConcatReceives ==
  ASSUME NEW r \in Seq(Piece), NEW n \in Seq(Piece), NEW w \in Seq(Piece),
         NEW b \in Seq(Piece), NEW k \in 0 .. Len(n)
  PROVE  OneAfterTheOther(Moved(r, n, k), After(n, k), w, b) = OneAfterTheOther(r, n, w, b)
<1> DEFINE first == SubSeq(n, 1, k)
           rest == After(n, k)
<1>1. first \in Seq(Piece) /\ rest \in Seq(Piece) /\ n = first \o rest
  BY Cut
<1> HIDE DEF first, rest
<1>2. (r \o first) \o rest = r \o (first \o rest)
  BY <1>1, Associates
<1>3. OneAfterTheOther(r \o first, rest, w, b) = OneAfterTheOther(r, n, w, b)
  BY <1>1, <1>2 DEF OneAfterTheOther
<1> QED BY <1>3 DEF first, rest, Moved

(* ... and write() from write_buf to the connection:                       *)
LEMMA ConcatWrites ==
  ASSUME NEW r \in Seq(Piece), NEW n \in Seq(Piece), NEW w \in Seq(Piece),
         NEW b \in Seq(Piece), NEW k \in 0 .. Len(w)
  PROVE  OneAfterTheOther(r, Moved(n, w, k), After(w, k), b) = OneAfterTheOther(r, n, w, b)
<1> DEFINE first == SubSeq(w, 1, k)
           rest == After(w, k)
<1>1. first \in Seq(Piece) /\ rest \in Seq(Piece) /\ w = first \o rest
  BY Cut
<1> HIDE DEF first, rest
<1>2. OneAfterTheOther(r, n \o first, rest, b) = OneAfterTheOther(r, n, w, b)
  BY <1>1, ConcatMiddle
<1> QED BY <1>2 DEF first, rest, Moved

(* a part of one sequence behind another one.                              *)
LEMMA MovedPieces ==
  ASSUME NEW ms, NEW s \in Seq(Piece), NEW t \in Seq(Piece), NEW k \in 0 .. Len(t),
         PiecesOf(ms, s), PiecesOf(ms, t)
  PROVE  /\ Moved(s, t, k) \in Seq(Piece) /\ PiecesOf(ms, Moved(s, t, k))
         /\ After(t, k) \in Seq(Piece) /\ PiecesOf(ms, After(t, k))
<1> DEFINE first == SubSeq(t, 1, k)
<1>1. /\ first \in Seq(Piece) /\ After(t, k) \in Seq(Piece)
      /\ PiecesOf(ms, first) /\ PiecesOf(ms, After(t, k))
  BY Cut
<1> HIDE DEF first
<1>2. s \o first \in Seq(Piece) /\ PiecesOf(ms, s \o first)
  BY <1>1, Concat, PiecesOfConcat
<1> QED BY <1>1, <1>2 DEF first, Moved

(* BIO_read() moves them from wbio to write_buf.                           *)
LEMMA ChainDrains ==
  ASSUME NEW ms, NEW r \in Seq(Piece), NEW n \in Seq(Piece), NEW w \in Seq(Piece),
         NEW b \in Seq(Piece), AllOf(ms, r, n, w, b)
  PROVE  /\ w \o b \in Seq(Piece)
         /\ AllOf(ms, r, n, w \o b, << >>)
         /\ OneAfterTheOther(r, n, w \o b, << >>) = OneAfterTheOther(r, n, w, b)
<1>1. w \o b \in Seq(Piece) /\ PiecesOf(ms, w \o b)
  BY Concat, PiecesOfConcat DEF AllOf
<1>2. PiecesOf(ms, << >>)
  BY DEF PiecesOf
<1>3. AllOf(ms, r, n, w \o b, << >>)
  BY <1>1, <1>2 DEF AllOf
<1>4. OneAfterTheOther(r, n, w \o b, << >>) = OneAfterTheOther(r, n, w, b)
  BY ConcatEmptied
<1> QED BY <1>1, <1>3, <1>4

(* The SSL object puts a new message into wbio.                            *)
LEMMA ChainMakes ==
  ASSUME NEW ms \in Seq(Message), NEW m \in Message,
         NEW r \in Seq(Piece), NEW n \in Seq(Piece), NEW w \in Seq(Piece),
         NEW b \in Seq(Piece), AllOf(ms, r, n, w, b)
  PROVE  /\ b \o Pieces(Len(ms) + 1, m.size) \in Seq(Piece)
         /\ AllOf(Append(ms, m), r, n, w, b \o Pieces(Len(ms) + 1, m.size))
         /\ OneAfterTheOther(r, n, w, b \o Pieces(Len(ms) + 1, m.size))
              = Joined(OneAfterTheOther(r, n, w, b), Pieces(Len(ms) + 1, m.size))
         /\ Chain(ms, r, n, w, b)
              => Chain(Append(ms, m), r, n, w, b \o Pieces(Len(ms) + 1, m.size))
<1> DEFINE new == Pieces(Len(ms) + 1, m.size)
           all == OneAfterTheOther(r, n, w, b)
           more == Append(ms, m)
<1>1. new \in Seq(Piece)
  <2>1. Len(ms) + 1 \in Nat /\ m.size \in Nat
    BY DEF Message
  <2> QED BY <2>1, PiecesType
<1>2. PiecesOf(more, new)
  BY PiecesOfNew
<1>3. PiecesOf(more, r) /\ PiecesOf(more, n) /\ PiecesOf(more, w) /\ PiecesOf(more, b)
  BY PiecesOfMore DEF AllOf
<1>4. all \in Seq(Piece) /\ PiecesOf(ms, all)
  BY ConcatPieces
<1>5. InOrder(ms, all) => InOrder(more, all \o new)
  BY <1>4, InOrderMore
<1> HIDE DEF new, more
<1>6. OneAfterTheOther(r, n, w, Joined(b, new)) = Joined(all, new)
  BY <1>1, ConcatLast
<1>7. b \o new \in Seq(Piece) /\ PiecesOf(more, b \o new)
  BY <1>1, <1>2, <1>3, Concat, PiecesOfConcat
<1>8. AllOf(more, r, n, w, b \o new)
  BY <1>3, <1>7 DEF AllOf
<1>9. Chain(ms, r, n, w, b) => Chain(more, r, n, w, b \o new)
  BY <1>5, <1>6 DEF Chain, Joined
<1>10. OneAfterTheOther(r, n, w, b \o new) = Joined(all, new)
  BY <1>6 DEF Joined
<1> QED BY <1>7, <1>8, <1>9, <1>10 DEF new, more

-----------------------------------------------------------------------------
(* Steps *)

(* What e has made and its peer has not taken.                             *)
Stream(e) == OneAfterTheOther(rbio[Peer(e)], net[e], write_buf[e], wbio[e])

(* A step that takes nothing from it: it is as it was, or one message      *)
(* longer.                                                                 *)
GoesOn(e) ==
  \/ messages'[e] = messages[e] /\ Stream(e)' = Stream(e)
  \/ \E m \in Message :
       /\ messages'[e] = Append(messages[e], m)
       /\ Stream(e)' = Joined(Stream(e), Pieces(Len(messages[e]) + 1, m.size))

(* What a step has to show of the pieces that e has made.                  *)
KeepsChain(e) ==
  /\ AllOf(messages'[e], rbio'[Peer(e)], net'[e], write_buf'[e], wbio'[e])
  /\ InChain(e) => Chain(messages'[e], rbio'[Peer(e)], net'[e], write_buf'[e], wbio'[e])

(* There are two ends.                                                     *)
LEMMA TwoEnds ==
  ASSUME NEW e \in Ends
  PROVE  /\ Peer(e) \in Ends /\ Peer(e) # e /\ Peer(Peer(e)) = e
         /\ Ends = {e, Peer(e)}
  BY DEF Ends, Peer

(* The types of Flow are those of TypeOK.                                  *)
LEMMA Types == BioTypeOK /\ PumpTypeOK => TypeOK
<1> SUFFICES ASSUME BioTypeOK, PumpTypeOK PROVE TypeOK
  OBVIOUS
<1>1. TlsTypeOK
  BY DEF BioTypeOK, PumpTypeOK, TlsTypeOK
<1>2. \A e \in Ends : typed[e] \in 0 .. Lines[e] /\ entered[e] \in 0 .. typed[e]
  BY SslPumpAssumption DEF PumpTypeOK
<1> QED BY <1>1, <1>2 DEF TypeOK, BioTypeOK, PumpTypeOK

(* A step that keeps the pieces of both ends together.                     *)
LEMMA Chains ==
  ASSUME Chained, NEW x \in Ends, KeepsChain(x), KeepsChain(Peer(x)),
         \A e \in Ends : Up(e)' => Up(e)
  PROVE  AllMade' /\ Chained'
<1>1. \A e \in Ends : KeepsChain(e)
  BY TwoEnds
<1> QED BY <1>1, TwoEnds DEF AllMade, Chained, InChain, KeepsChain

(* A step that touches none of the pieces of e.                            *)
LEMMA SameChain ==
  ASSUME AllMade, NEW e \in Ends,
         messages'[e] = messages[e], rbio'[Peer(e)] = rbio[Peer(e)], net'[e] = net[e],
         write_buf'[e] = write_buf[e], wbio'[e] = wbio[e]
  PROVE  KeepsChain(e) /\ GoesOn(e)
<1>1. Stream(e)' = Stream(e)
  BY DEF Stream
<1> QED BY <1>1 DEF AllMade, InChain, KeepsChain, GoesOn

(* Events, typing and changes of place touch no pieces at all.             *)
LEMMA FrameChains ==
  ASSUME AllMade, Chained, UNCHANGED <<messages, rbio, wbio, net, write_buf>>,
         \A e \in Ends : Up(e)' => Up(e)
  PROVE  AllMade' /\ Chained' /\ \A e \in Ends : GoesOn(e)
<1>1. \A e \in Ends : KeepsChain(e) /\ GoesOn(e)
  BY SameChain
<1> QED BY <1>1, TwoEnds DEF AllMade, Chained, InChain, KeepsChain

(* Taken from rbio.                                                        *)
LEMMA TakesChain ==
  ASSUME BioTypeOK, AllMade, NEW x \in Ends, NEW k \in Nat,
         rbio'[x] = After(rbio[x], k), messages'[Peer(x)] = messages[Peer(x)],
         net'[Peer(x)] = net[Peer(x)], write_buf'[Peer(x)] = write_buf[Peer(x)],
         wbio'[Peer(x)] = wbio[Peer(x)]
  PROVE  KeepsChain(Peer(x))
<1> DEFINE e == Peer(x)
<1>1. e \in Ends /\ Peer(e) = x
  BY TwoEnds
<1>2. /\ rbio[x] \in Seq(Piece) /\ net[e] \in Seq(Piece)
      /\ write_buf[e] \in Seq(Piece) /\ wbio[e] \in Seq(Piece)
  BY <1>1 DEF BioTypeOK
<1>3. AllOf(messages[e], rbio[x], net[e], write_buf[e], wbio[e])
  BY <1>1 DEF AllMade
<1>4. /\ AllOf(messages[e], After(rbio[x], k), net[e], write_buf[e], wbio[e])
      /\ Chain(messages[e], rbio[x], net[e], write_buf[e], wbio[e])
           => Chain(messages[e], After(rbio[x], k), net[e], write_buf[e], wbio[e])
  BY <1>2, <1>3, ChainTakes
<1> QED BY <1>1, <1>4 DEF KeepsChain, InChain

(* Made.                                                                   *)
LEMMA MakesChain ==
  ASSUME BioTypeOK, AllMade, NEW x \in Ends, NEW m \in Message,
         messages'[x] = Append(messages[x], m),
         wbio'[x] = wbio[x] \o Pieces(Len(messages[x]) + 1, m.size),
         rbio'[Peer(x)] = rbio[Peer(x)], net'[x] = net[x], write_buf'[x] = write_buf[x]
  PROVE  KeepsChain(x) /\ GoesOn(x) /\ wbio'[x] \in Seq(Piece)
<1>1. Peer(x) \in Ends
  BY TwoEnds
<1>2. /\ messages[x] \in Seq(Message) /\ rbio[Peer(x)] \in Seq(Piece) /\ net[x] \in Seq(Piece)
      /\ write_buf[x] \in Seq(Piece) /\ wbio[x] \in Seq(Piece)
  BY <1>1 DEF BioTypeOK
<1>3. AllOf(messages[x], rbio[Peer(x)], net[x], write_buf[x], wbio[x])
  BY DEF AllMade
<1> DEFINE b == wbio[x] \o Pieces(Len(messages[x]) + 1, m.size)
<1>4. /\ b \in Seq(Piece)
      /\ AllOf(Append(messages[x], m), rbio[Peer(x)], net[x], write_buf[x], b)
      /\ OneAfterTheOther(rbio[Peer(x)], net[x], write_buf[x], b)
           = Joined(Stream(x), Pieces(Len(messages[x]) + 1, m.size))
      /\ Chain(messages[x], rbio[Peer(x)], net[x], write_buf[x], wbio[x])
           => Chain(Append(messages[x], m), rbio[Peer(x)], net[x], write_buf[x], b)
  BY <1>2, <1>3, ChainMakes DEF Stream
<1>5. wbio'[x] = b
  OBVIOUS
<1> HIDE DEF b
<1>6. Stream(x)' = OneAfterTheOther(rbio[Peer(x)], net[x], write_buf[x], b)
  BY <1>5 DEF Stream
<1> QED BY <1>4, <1>5, <1>6 DEF KeepsChain, InChain, GoesOn

(* Moved by read().                                                        *)
LEMMA ReceivesChain ==
  ASSUME BioTypeOK, AllMade, NEW e \in Ends, NEW k \in 0 .. Len(net[e]),
         rbio'[Peer(e)] = Moved(rbio[Peer(e)], net[e], k),
         net'[e] = After(net[e], k),
         messages'[e] = messages[e], write_buf'[e] = write_buf[e], wbio'[e] = wbio[e]
  PROVE  KeepsChain(e) /\ GoesOn(e) /\ rbio'[Peer(e)] \in Seq(Piece) /\ net'[e] \in Seq(Piece)
<1>1. Peer(e) \in Ends
  BY TwoEnds
<1>2. /\ rbio[Peer(e)] \in Seq(Piece) /\ net[e] \in Seq(Piece)
      /\ write_buf[e] \in Seq(Piece) /\ wbio[e] \in Seq(Piece)
  BY <1>1 DEF BioTypeOK
<1>3. AllOf(messages[e], rbio[Peer(e)], net[e], write_buf[e], wbio[e])
  BY DEF AllMade
<1> DEFINE r == Moved(rbio[Peer(e)], net[e], k)
           n == After(net[e], k)
<1>4. /\ r \in Seq(Piece) /\ n \in Seq(Piece)
      /\ AllOf(messages[e], r, n, write_buf[e], wbio[e])
  BY <1>2, <1>3, MovedPieces DEF AllOf
<1>5. OneAfterTheOther(r, n, write_buf[e], wbio[e])
        = OneAfterTheOther(rbio[Peer(e)], net[e], write_buf[e], wbio[e])
  BY <1>2, ConcatReceives
<1>6. rbio'[Peer(e)] = r /\ net'[e] = n
  OBVIOUS
<1> HIDE DEF r, n
<1>7. Stream(e)' = Stream(e)
  BY <1>5, <1>6 DEF Stream
<1>8. InChain(e) => Chain(messages[e], r, n, write_buf[e], wbio[e])
  BY <1>5 DEF InChain, Chain
<1> QED BY <1>4, <1>6, <1>7, <1>8 DEF KeepsChain, GoesOn

(* Moved by write().                                                       *)
LEMMA WritesChain ==
  ASSUME BioTypeOK, AllMade, NEW e \in Ends, NEW k \in 0 .. Len(write_buf[e]),
         net'[e] = Moved(net[e], write_buf[e], k),
         write_buf'[e] = After(write_buf[e], k),
         messages'[e] = messages[e], rbio'[Peer(e)] = rbio[Peer(e)], wbio'[e] = wbio[e]
  PROVE  KeepsChain(e) /\ GoesOn(e) /\ net'[e] \in Seq(Piece) /\ write_buf'[e] \in Seq(Piece)
<1>1. Peer(e) \in Ends
  BY TwoEnds
<1>2. /\ rbio[Peer(e)] \in Seq(Piece) /\ net[e] \in Seq(Piece)
      /\ write_buf[e] \in Seq(Piece) /\ wbio[e] \in Seq(Piece)
  BY <1>1 DEF BioTypeOK
<1>3. AllOf(messages[e], rbio[Peer(e)], net[e], write_buf[e], wbio[e])
  BY DEF AllMade
<1> DEFINE n == Moved(net[e], write_buf[e], k)
           w == After(write_buf[e], k)
<1>4. /\ n \in Seq(Piece) /\ w \in Seq(Piece)
      /\ AllOf(messages[e], rbio[Peer(e)], n, w, wbio[e])
  BY <1>2, <1>3, MovedPieces DEF AllOf
<1>5. OneAfterTheOther(rbio[Peer(e)], n, w, wbio[e])
        = OneAfterTheOther(rbio[Peer(e)], net[e], write_buf[e], wbio[e])
  BY <1>2, ConcatWrites
<1>6. net'[e] = n /\ write_buf'[e] = w
  OBVIOUS
<1> HIDE DEF n, w
<1>7. Stream(e)' = Stream(e)
  BY <1>5, <1>6 DEF Stream
<1>8. InChain(e) => Chain(messages[e], rbio[Peer(e)], n, w, wbio[e])
  BY <1>5 DEF InChain, Chain
<1> QED BY <1>4, <1>6, <1>7, <1>8 DEF KeepsChain, GoesOn

(* Moved by BIO_read().                                                    *)
LEMMA DrainsChain ==
  ASSUME BioTypeOK, AllMade, NEW e \in Ends,
         write_buf'[e] = write_buf[e] \o wbio[e], wbio'[e] = << >>,
         messages'[e] = messages[e], rbio'[Peer(e)] = rbio[Peer(e)], net'[e] = net[e]
  PROVE  KeepsChain(e) /\ GoesOn(e) /\ write_buf'[e] \in Seq(Piece)
<1>1. Peer(e) \in Ends
  BY TwoEnds
<1>2. /\ rbio[Peer(e)] \in Seq(Piece) /\ net[e] \in Seq(Piece)
      /\ write_buf[e] \in Seq(Piece) /\ wbio[e] \in Seq(Piece)
  BY <1>1 DEF BioTypeOK
<1>3. AllOf(messages[e], rbio[Peer(e)], net[e], write_buf[e], wbio[e])
  BY DEF AllMade
<1> DEFINE w == write_buf[e] \o wbio[e]
<1>4. /\ w \in Seq(Piece)
      /\ AllOf(messages[e], rbio[Peer(e)], net[e], w, << >>)
      /\ OneAfterTheOther(rbio[Peer(e)], net[e], w, << >>)
           = OneAfterTheOther(rbio[Peer(e)], net[e], write_buf[e], wbio[e])
  BY <1>2, <1>3, ChainDrains
<1>5. write_buf'[e] = w
  OBVIOUS
<1> HIDE DEF w
<1>6. Stream(e)' = Stream(e)
  BY <1>4, <1>5 DEF Stream
<1>7. InChain(e) => Chain(messages[e], rbio[Peer(e)], net[e], w, << >>)
  BY <1>4 DEF InChain, Chain
<1> QED BY <1>4, <1>5, <1>6, <1>7 DEF KeepsChain, GoesOn

-----------------------------------------------------------------------------
(* The SSL object *)

(* A whole message is one that was made.                                   *)
LEMMA WholeMessage ==
  ASSUME BioTypeOK, AllMade, NEW x \in Ends, Whole(x)
  PROVE  Front(x) \in Message /\ Due(x) \in Nat
<1>1. Peer(x) \in Ends /\ Peer(Peer(x)) = x
  BY TwoEnds
<1>2. rbio[x] \in Seq(Piece) /\ rbio[x] # << >> /\ messages[Peer(x)] \in Seq(Message)
  BY <1>1 DEF BioTypeOK, Whole
<1>3. 1 \in 1 .. Len(rbio[x])
  BY <1>2
<1>4. PiecesOf(messages[Peer(x)], rbio[x])
  BY <1>1 DEF AllMade, AllOf
<1>5. /\ rbio[x][1][1] \in 1 .. Len(messages[Peer(x)])
      /\ rbio[x][1][2] \in 1 .. messages[Peer(x)][rbio[x][1][1]].size
  BY <1>3, <1>4 DEF PiecesOf
<1>6. Front(x) \in Message
  BY <1>2, <1>5 DEF Front
<1>7. Front(x).size \in Nat
  BY <1>6 DEF Message
<1>8. rbio[x][1][2] \in 1 .. Front(x).size
  BY <1>5 DEF Front
<1> QED BY <1>6, <1>7, <1>8 DEF Due

(* A message of its own.                                                   *)
LEMMA MakesKeeps ==
  ASSUME BioTypeOK, AllMade, NEW x \in Ends, NEW flight \in 0 .. 4, NEW lines \in Seq(Nat),
         NEW size \in Nat \ {0}, Makes(x, flight, lines, size),
         rbio'[Peer(x)] = rbio[Peer(x)], UNCHANGED <<net, write_buf>>
  PROVE  /\ KeepsChain(x) /\ GoesOn(x)
         /\ messages' \in [Ends -> Seq(Message)] /\ wbio' \in [Ends -> Seq(Piece)]
         /\ messages'[Peer(x)] = messages[Peer(x)] /\ wbio'[Peer(x)] = wbio[Peer(x)]
<1> DEFINE m == [flight |-> flight, lines |-> lines, size |-> size]
<1>1. m \in Message /\ m.size = size
  BY DEF Message
<1> HIDE DEF m
<1>2. /\ messages' = [messages EXCEPT ![x] = Append(@, m)]
      /\ wbio' = [wbio EXCEPT ![x] = @ \o Pieces(Len(messages[x]) + 1, m.size)]
  BY <1>1 DEF Makes, Pieces, m
<1>3. messages \in [Ends -> Seq(Message)] /\ wbio \in [Ends -> Seq(Piece)]
  BY DEF BioTypeOK
<1>4. messages'[x] = Append(messages[x], m)
      /\ wbio'[x] = wbio[x] \o Pieces(Len(messages[x]) + 1, m.size)
  BY <1>2, <1>3
<1>5. net'[x] = net[x] /\ write_buf'[x] = write_buf[x]
  OBVIOUS
<1>6. KeepsChain(x) /\ GoesOn(x) /\ wbio'[x] \in Seq(Piece)
  BY <1>1, <1>4, <1>5, MakesChain
<1>7. messages' \in [Ends -> Seq(Message)]
  BY <1>1, <1>2, <1>3, AppendProperties
<1>8. \A e \in Ends : e # x => messages'[e] = messages[e] /\ wbio'[e] = wbio[e]
  BY <1>2, <1>3
<1>9. wbio' \in [Ends -> Seq(Piece)]
  BY <1>2, <1>3, <1>6, <1>8
<1> QED BY <1>6, <1>7, <1>8, <1>9, TwoEnds

(* Pieces taken by it.                                                     *)
LEMMA TakesKeeps ==
  ASSUME BioTypeOK, AllMade, NEW x \in Ends, NEW k \in Nat, Takes(x, k),
         messages'[Peer(x)] = messages[Peer(x)], wbio'[Peer(x)] = wbio[Peer(x)],
         UNCHANGED <<net, write_buf>>
  PROVE  /\ KeepsChain(Peer(x))
         /\ rbio' \in [Ends -> Seq(Piece)]
         /\ rbio'[Peer(x)] = rbio[Peer(x)]
<1>1. /\ rbio \in [Ends -> Seq(Piece)] /\ rbio' = [rbio EXCEPT ![x] = After(rbio[x], k)]
      /\ Peer(x) \in Ends /\ Peer(x) # x
  BY TwoEnds DEF BioTypeOK, Takes
<1>2. rbio'[x] = After(rbio[x], k) /\ rbio'[Peer(x)] = rbio[Peer(x)]
  BY <1>1
<1>3. After(rbio[x], k) \in Seq(Piece)
  BY <1>1, Rest
<1>4. KeepsChain(Peer(x))
  BY <1>2, TakesChain
<1> QED BY <1>1, <1>2, <1>3, <1>4

(* SSL_do_handshake(): a flight is taken, and another one made, or not.    *)
LEMMA HandshakeKeepsFlow ==
  ASSUME Flow, NEW x \in Ends, Handshake(x)
  PROVE  Flow' /\ GoesOn(x) /\ (rbio' = rbio => GoesOn(Peer(x)))
<1>t. BioTypeOK /\ PumpTypeOK /\ Handshaking /\ AllMade /\ Chained
  BY DEF Flow
<1> DEFINE p == Peer(x)
<1>p. p \in Ends /\ p # x /\ Peer(p) = x /\ Ends = {x, p}
  BY TwoEnds
<1>1. /\ pc[x] = "handshake"
      /\ SSL_do_handshake(x)
      /\ UNCHANGED <<net, broken, revents, encrypt_buf, write_buf, typed, entered, printed>>
  BY DEF Handshake
<1>2. PICK function \in {"decrypt", "drain"} : pc' = [pc EXCEPT ![x] = function]
  BY DEF Handshake, Goto
<1>3. FlightSize \in Nat \ {0} /\ << >> \in Seq(Nat)
  BY TlsLibraryAssumption
<1>4. flights[x] \in IF x = "client" THEN {0, 1, 3} ELSE {0, 2}
  BY <1>t, <1>1, TlsLibraryAssumption DEF Handshaking, SSL_is_init_finished, Ends
<1>5. /\ flights' = flights
         \/ \E f \in (IF x = "client" THEN {1, 3, 4} ELSE {2, 4}) :
              flights' = [flights EXCEPT ![x] = f]
  BY <1>1, <1>4 DEF SSL_do_handshake, MakesFlight, ClientHello, Ends
<1>6. /\ KeepsChain(x) /\ KeepsChain(p) /\ GoesOn(x) /\ (rbio' = rbio => GoesOn(p))
      /\ messages' \in [Ends -> Seq(Message)]
      /\ rbio' \in [Ends -> Seq(Piece)]
      /\ wbio' \in [Ends -> Seq(Piece)]
  <2>1. CASE rbio' = rbio /\ messages' = messages /\ wbio' = wbio
    BY <1>t, <1>1, <1>p, <2>1, SameChain DEF BioTypeOK
  <2>2. CASE \E flight \in 0 .. 4 : Makes(x, flight, << >>, FlightSize) /\ rbio' = rbio
    <3>1. PICK flight \in 0 .. 4 : Makes(x, flight, << >>, FlightSize)
      BY <2>2
    <3>2. /\ KeepsChain(x) /\ GoesOn(x)
          /\ messages' \in [Ends -> Seq(Message)] /\ wbio' \in [Ends -> Seq(Piece)]
          /\ messages'[p] = messages[p] /\ wbio'[p] = wbio[p]
      BY <1>t, <1>1, <1>3, <2>2, <3>1, MakesKeeps
    <3>3. KeepsChain(p) /\ GoesOn(p)
      BY <1>t, <1>1, <1>p, <2>2, <3>2, SameChain
    <3> QED BY <1>t, <2>2, <3>2, <3>3 DEF BioTypeOK
  <2>3. CASE Takes(x, FlightSize) /\ messages' = messages /\ wbio' = wbio
    <3>1. KeepsChain(p) /\ rbio' \in [Ends -> Seq(Piece)] /\ rbio'[p] = rbio[p]
      BY <1>t, <1>1, <1>3, <2>3, TakesKeeps
    <3>2. KeepsChain(x) /\ GoesOn(x)
      BY <1>t, <1>1, <2>3, <3>1, SameChain
    <3>3. rbio' = rbio => GoesOn(p)
      BY <1>t, <1>1, <1>p, <2>3, SameChain
    <3> QED BY <1>t, <2>3, <3>1, <3>2, <3>3 DEF BioTypeOK
  <2>4. CASE \E flight \in 0 .. 4 : Makes(x, flight, << >>, FlightSize) /\ Takes(x, FlightSize)
    <3>1. PICK flight \in 0 .. 4 : Makes(x, flight, << >>, FlightSize)
      BY <2>4
    <3>2. rbio'[p] = rbio[p]
      BY <1>t, <1>p, <2>4 DEF Takes, BioTypeOK
    <3>3. /\ KeepsChain(x) /\ GoesOn(x)
          /\ messages' \in [Ends -> Seq(Message)] /\ wbio' \in [Ends -> Seq(Piece)]
          /\ messages'[p] = messages[p] /\ wbio'[p] = wbio[p]
      BY <1>t, <1>1, <1>3, <3>1, <3>2, MakesKeeps
    <3>4. KeepsChain(p) /\ rbio' \in [Ends -> Seq(Piece)]
      BY <1>t, <1>1, <1>3, <2>4, <3>3, TakesKeeps
    <3>5. rbio' = rbio => GoesOn(p)
      BY <1>t, <1>1, <1>p, <3>3, SameChain
    <3> QED BY <3>3, <3>4, <3>5
  <2>5. \/ rbio' = rbio /\ messages' = messages /\ wbio' = wbio
        \/ \E flight \in 0 .. 4 : Makes(x, flight, << >>, FlightSize) /\ rbio' = rbio
        \/ Takes(x, FlightSize) /\ messages' = messages /\ wbio' = wbio
        \/ \E flight \in 0 .. 4 : Makes(x, flight, << >>, FlightSize) /\ Takes(x, FlightSize)
    <3>1. flights[x] # 3 => flights[x] + 2 \in 0 .. 4
      BY <1>4
    <3> QED BY <1>1, <3>1 DEF SSL_do_handshake, MakesFlight
  <2> QED BY <2>1, <2>2, <2>3, <2>4, <2>5
<1>7. BioTypeOK'
  BY <1>t, <1>1, <1>6 DEF BioTypeOK
<1>8. PumpTypeOK' /\ Handshaking'
  <2>1. flights' \in [Ends -> 0 .. 4] /\ pc' \in [Ends -> Functions]
    <3>1. flights' = flights \/ \E f \in 0 .. 4 : flights' = [flights EXCEPT ![x] = f]
      BY <1>5
    <3>2. flights' \in [Ends -> 0 .. 4]
      BY <1>t, <3>1 DEF PumpTypeOK
    <3>3. pc' \in [Ends -> Functions]
      BY <1>t, <1>2 DEF PumpTypeOK, Functions
    <3> QED BY <3>2, <3>3
  <2>2. PumpTypeOK'
    BY <1>t, <1>1, <2>1 DEF PumpTypeOK
  <2>3. flights'["client"] \in {0, 1, 3, 4} /\ flights'["server"] \in {0, 2, 4}
    BY <1>t, <1>5 DEF Handshaking, PumpTypeOK, Ends
  <2>4. \A e \in Ends : pc'[e] = "handshake" =>
          e = p /\ pc[e] = "handshake" /\ flights'[e] = flights[e]
    BY <1>t, <1>p, <1>2, <1>5 DEF PumpTypeOK
  <2> QED BY <1>t, <2>2, <2>3, <2>4 DEF Handshaking, SSL_is_init_finished
<1>9. AllMade' /\ Chained'
  <2>1. \A e \in Ends : Up(e)' => Up(e)
    BY <1>t, <1>1, <1>2 DEF Up, PumpTypeOK
  <2> QED BY <1>t, <1>6, <2>1, Chains
<1> QED BY <1>6, <1>7, <1>8, <1>9 DEF Flow

(* SSL_read(): the lines of a record are printed with its last piece.      *)
LEMMA DecryptKeepsFlow ==
  ASSUME Flow, NEW x \in Ends, Decrypt(x)
  PROVE  Flow' /\ GoesOn(x)
<1>t. BioTypeOK /\ PumpTypeOK /\ Handshaking /\ AllMade /\ Chained
  BY DEF Flow
<1> DEFINE p == Peer(x)
           k == Least(DEFAULT_BUF_SIZE, Due(x))
<1>p. p \in Ends /\ p # x /\ Peer(p) = x /\ Ends = {x, p}
  BY TwoEnds
<1>1. /\ pc[x] = "decrypt"
      /\ Whole(x)
      /\ Takes(x, k)
      /\ flights' = [flights EXCEPT ![x] = IF Front(x).flight = 4 THEN 4 ELSE @]
      /\ UNCHANGED <<messages, wbio>>
      /\ printed' = [printed EXCEPT ![x] = @ \o LinesRead(x, DEFAULT_BUF_SIZE)]
      /\ UNCHANGED <<net, broken, pc, revents, encrypt_buf, write_buf, typed, entered>>
  BY DEF Decrypt, Reads, SSL_read
<1>2. Front(x) \in Message /\ Due(x) \in Nat
  BY <1>t, <1>1, WholeMessage
<1>3. k \in Nat
  BY <1>2, SslPumpAssumption DEF Least
<1>4. KeepsChain(p) /\ rbio' \in [Ends -> Seq(Piece)] /\ rbio'[p] = rbio[p]
  BY <1>t, <1>1, <1>3, TakesKeeps
<1>5. KeepsChain(x) /\ GoesOn(x)
  BY <1>t, <1>1, <1>4, SameChain
<1>6. BioTypeOK'
  BY <1>t, <1>1, <1>4 DEF BioTypeOK
<1>7. PumpTypeOK'
  <2>1. LinesRead(x, DEFAULT_BUF_SIZE) \in Seq(Nat)
    BY <1>2 DEF LinesRead, Message
  <2>2. printed' \in [Ends -> Seq(Nat)]
    BY <1>t, <1>1, <2>1 DEF PumpTypeOK
  <2>3. flights' \in [Ends -> 0 .. 4]
    BY <1>t, <1>1 DEF PumpTypeOK
  <2> QED BY <1>t, <1>1, <2>2, <2>3 DEF PumpTypeOK
<1>8. Handshaking'
  <2>1. flights'["client"] \in {0, 1, 3, 4} /\ flights'["server"] \in {0, 2, 4}
    BY <1>t, <1>1 DEF Handshaking, PumpTypeOK, Ends
  <2>2. \A e \in Ends : pc'[e] = "handshake" => pc[e] = "handshake" /\ flights'[e] = flights[e]
    BY <1>t, <1>1 DEF PumpTypeOK
  <2> QED BY <1>t, <2>1, <2>2 DEF Handshaking, SSL_is_init_finished
<1>9. AllMade' /\ Chained'
  <2>1. \A e \in Ends : Up(e)' => Up(e)
    BY <1>1 DEF Up
  <2> QED BY <1>t, <1>4, <1>5, <2>1, Chains
<1> QED BY <1>5, <1>6, <1>7, <1>8, <1>9 DEF Flow

(* SSL_write(): a record of the lines in encrypt_buf.                      *)
LEMMA EncryptKeepsFlow ==
  ASSUME Flow, NEW x \in Ends, Encrypt(x)
  PROVE  Flow' /\ GoesOn(x) /\ GoesOn(Peer(x))
<1>t. BioTypeOK /\ PumpTypeOK /\ Handshaking /\ AllMade /\ Chained
  BY DEF Flow
<1> DEFINE p == Peer(x)
<1>p. p \in Ends /\ p # x /\ Peer(p) = x
  BY TwoEnds
<1>1. /\ pc[x] = "loop"
      /\ Makes(x, 0, encrypt_buf[x], Len(encrypt_buf[x]) + 1)
      /\ UNCHANGED <<flights, rbio>>
      /\ encrypt_buf' = [encrypt_buf EXCEPT ![x] = << >>]
      /\ pc' = [pc EXCEPT ![x] = "drain"]
      /\ UNCHANGED <<net, broken, revents, write_buf, typed, entered, printed>>
  BY DEF Encrypt, Encrypts, Bottom, SSL_write, Goto
<1>2. /\ encrypt_buf[x] \in Seq(Nat) /\ Len(encrypt_buf[x]) + 1 \in Nat \ {0}
      /\ << >> \in Seq(Nat) /\ 0 \in 0 .. 4
  BY <1>t DEF PumpTypeOK
<1>3. /\ KeepsChain(x) /\ GoesOn(x)
      /\ messages' \in [Ends -> Seq(Message)] /\ wbio' \in [Ends -> Seq(Piece)]
      /\ messages'[p] = messages[p] /\ wbio'[p] = wbio[p]
  BY <1>t, <1>1, <1>2, MakesKeeps
<1>4. KeepsChain(p) /\ GoesOn(p)
  BY <1>t, <1>1, <1>p, <1>3, SameChain
<1>5. BioTypeOK'
  BY <1>t, <1>1, <1>3 DEF BioTypeOK
<1>6. PumpTypeOK' /\ Handshaking'
  BY <1>t, <1>1, <1>2 DEF PumpTypeOK, Functions, Handshaking, SSL_is_init_finished
<1>7. AllMade' /\ Chained'
  <2>1. \A e \in Ends : Up(e)' => Up(e)
    BY <1>t, <1>1 DEF Up, PumpTypeOK
  <2> QED BY <1>t, <1>3, <1>4, <2>1, Chains
<1> QED BY <1>3, <1>4, <1>5, <1>6, <1>7 DEF Flow

-----------------------------------------------------------------------------
(* The loop *)

(* BIO_read() until wbio is empty.                                         *)
LEMMA DrainKeepsFlow ==
  ASSUME Flow, NEW x \in Ends, Drain(x)
  PROVE  Flow' /\ GoesOn(x) /\ GoesOn(Peer(x))
<1>t. BioTypeOK /\ PumpTypeOK /\ Handshaking /\ AllMade /\ Chained
  BY DEF Flow
<1> DEFINE p == Peer(x)
<1>p. p \in Ends /\ p # x /\ Peer(p) = x /\ Ends = {x, p}
  BY TwoEnds
<1>1. /\ pc[x] = "drain"
      /\ write_buf' = [write_buf EXCEPT ![x] = @ \o wbio[x]]
      /\ wbio' = [wbio EXCEPT ![x] = << >>]
      /\ pc' = [pc EXCEPT ![x] = "loop"]
      /\ UNCHANGED <<flights, messages, rbio, net, broken, revents, encrypt_buf,
                     typed, entered, printed>>
  BY DEF Drain, queue_encrypted_bytes, Goto
<1>2. /\ write_buf'[x] = write_buf[x] \o wbio[x] /\ wbio'[x] = << >>
      /\ write_buf'[p] = write_buf[p] /\ wbio'[p] = wbio[p]
  BY <1>t, <1>1, <1>p DEF BioTypeOK
<1>3. KeepsChain(x) /\ GoesOn(x) /\ write_buf'[x] \in Seq(Piece)
  BY <1>t, <1>1, <1>2, DrainsChain
<1>4. KeepsChain(p) /\ GoesOn(p)
  BY <1>t, <1>1, <1>p, <1>2, SameChain
<1>5. BioTypeOK'
  <2>1. write_buf' \in [Ends -> Seq(Piece)]
    BY <1>t, <1>1, <1>p, <1>2, <1>3 DEF BioTypeOK
  <2>2. wbio' \in [Ends -> Seq(Piece)]
    BY <1>t, <1>1 DEF BioTypeOK
  <2> QED BY <1>t, <1>1, <2>1, <2>2 DEF BioTypeOK
<1>6. PumpTypeOK' /\ Handshaking'
  BY <1>t, <1>1 DEF PumpTypeOK, Functions, Handshaking, SSL_is_init_finished
<1>7. AllMade' /\ Chained'
  <2>1. \A e \in Ends : Up(e)' => Up(e)
    BY <1>t, <1>1 DEF Up, PumpTypeOK
  <2> QED BY <1>t, <1>3, <1>4, <2>1, Chains
<1> QED BY <1>3, <1>4, <1>5, <1>6, <1>7 DEF Flow

(* read() into rbio.                                                       *)
LEMMA SockReadKeepsFlow ==
  ASSUME Flow, NEW x \in Ends, SockRead(x)
  PROVE  Flow' /\ GoesOn(x) /\ GoesOn(Peer(x))
<1>t. BioTypeOK /\ PumpTypeOK /\ Handshaking /\ AllMade /\ Chained
  BY DEF Flow
<1> DEFINE p == Peer(x)
<1>p. p \in Ends /\ p # x /\ Peer(p) = x /\ Ends = {x, p}
  BY TwoEnds
<1>1. /\ pc[x] = "loop"
      /\ revents' = [revents EXCEPT ![x] = @ \ {"in"}]
      /\ pc' = [pc EXCEPT ![x] = IF SSL_is_init_finished(x) THEN "decrypt" ELSE "handshake"]
      /\ UNCHANGED <<flights, messages, wbio, broken, encrypt_buf, write_buf, typed,
                     entered, printed>>
  BY DEF SockRead, Handles, Handled, on_read_cb, Goto
<1>2. PICK n \in 1 .. Least(DEFAULT_BUF_SIZE, Len(net[p])) :
        /\ rbio' = [rbio EXCEPT ![x] = @ \o SubSeq(net[p], 1, n)]
        /\ net' = [net EXCEPT ![p] = After(@, n)]
  BY DEF SockRead, Receive
<1>3. n \in 0 .. Len(net[p])
  <2>1. Len(net[p]) \in Nat /\ DEFAULT_BUF_SIZE \in Nat
    BY <1>t, <1>p, SslPumpAssumption DEF BioTypeOK
  <2> QED BY <2>1 DEF Least
<1>4. /\ rbio'[x] = rbio[x] \o SubSeq(net[p], 1, n) /\ net'[p] = After(net[p], n)
      /\ rbio'[p] = rbio[p] /\ net'[x] = net[x]
  BY <1>t, <1>2, <1>p DEF BioTypeOK
<1>5. KeepsChain(p) /\ GoesOn(p) /\ rbio'[x] \in Seq(Piece) /\ net'[p] \in Seq(Piece)
  <2>1. /\ rbio'[Peer(p)] = rbio[Peer(p)] \o SubSeq(net[p], 1, n)
        /\ messages'[p] = messages[p] /\ write_buf'[p] = write_buf[p] /\ wbio'[p] = wbio[p]
    BY <1>1, <1>p, <1>4
  <2> HIDE DEF p
  <2>2. KeepsChain(p) /\ GoesOn(p) /\ rbio'[Peer(p)] \in Seq(Piece) /\ net'[p] \in Seq(Piece)
    BY <1>t, <1>p, <1>3, <1>4, <2>1, ReceivesChain DEF Moved
  <2> QED BY <1>p, <2>2
<1>6. KeepsChain(x) /\ GoesOn(x)
  BY <1>t, <1>1, <1>4, SameChain
<1>7. BioTypeOK'
  <2>1. rbio' \in [Ends -> Seq(Piece)] /\ net' \in [Ends -> Seq(Piece)]
    BY <1>t, <1>2, <1>4, <1>5 DEF BioTypeOK
  <2> QED BY <1>t, <1>1, <2>1 DEF BioTypeOK
<1>8. PumpTypeOK'
  BY <1>t, <1>1 DEF PumpTypeOK, Functions
<1>9. Handshaking'
  <2>1. \A e \in Ends : pc'[e] = "handshake" => ~SSL_is_init_finished(e)
    BY <1>t, <1>1 DEF Handshaking, PumpTypeOK
  <2> QED BY <1>t, <1>1, <2>1 DEF Handshaking, SSL_is_init_finished
<1>10. AllMade' /\ Chained'
  <2>1. \A e \in Ends : Up(e)' => Up(e)
    BY <1>t, <1>1 DEF Up, PumpTypeOK
  <2> QED BY <1>t, <1>5, <1>6, <2>1, Chains
<1> QED BY <1>5, <1>6, <1>7, <1>8, <1>9, <1>10 DEF Flow

(* write() of what the kernel has room for.                                *)
LEMMA SockWriteKeepsFlow ==
  ASSUME Flow, NEW x \in Ends, SockWrite(x)
  PROVE  Flow' /\ GoesOn(x) /\ GoesOn(Peer(x))
<1>t. BioTypeOK /\ PumpTypeOK /\ Handshaking /\ AllMade /\ Chained
  BY DEF Flow
<1> DEFINE p == Peer(x)
           n == Room(x)
<1>p. p \in Ends /\ p # x /\ Peer(p) = x /\ Ends = {x, p}
  BY TwoEnds
<1>1. /\ n > 0
      /\ net' = [net EXCEPT ![x] = @ \o SubSeq(write_buf[x], 1, n)]
      /\ write_buf' = [write_buf EXCEPT ![x] = After(write_buf[x], n)]
      /\ revents' \in {revents, [revents EXCEPT ![x] = @ \ {"out"}]}
      /\ UNCHANGED <<flights, messages, rbio, wbio, broken, pc, encrypt_buf, typed,
                     entered, printed>>
  BY DEF SockWrite, Writes, Handled
<1>2. n \in 0 .. Len(write_buf[x])
  <2>1. Len(write_buf[x]) \in Nat /\ Len(net[x]) \in Nat /\ NetMax \in Nat
    BY <1>t, SslPumpAssumption DEF BioTypeOK
  <2> QED BY <1>1, <2>1 DEF Room, Least
<1> HIDE DEF n
<1>3. /\ net'[x] = net[x] \o SubSeq(write_buf[x], 1, n)
      /\ write_buf'[x] = After(write_buf[x], n)
      /\ net'[p] = net[p] /\ write_buf'[p] = write_buf[p]
  BY <1>t, <1>1, <1>p DEF BioTypeOK
<1>4. KeepsChain(x) /\ GoesOn(x) /\ net'[x] \in Seq(Piece) /\ write_buf'[x] \in Seq(Piece)
  BY <1>t, <1>1, <1>2, <1>3, WritesChain DEF Moved
<1>5. KeepsChain(p) /\ GoesOn(p)
  BY <1>t, <1>1, <1>p, <1>3, SameChain
<1>6. BioTypeOK'
  <2>1. net' \in [Ends -> Seq(Piece)] /\ write_buf' \in [Ends -> Seq(Piece)]
    BY <1>t, <1>1, <1>3, <1>4 DEF BioTypeOK
  <2> QED BY <1>t, <1>1, <2>1 DEF BioTypeOK
<1>7. PumpTypeOK'
  BY <1>t, <1>1 DEF PumpTypeOK
<1>8. Handshaking'
  BY <1>t, <1>1 DEF Handshaking, SSL_is_init_finished
<1>9. AllMade' /\ Chained'
  <2>1. \A e \in Ends : Up(e)' => Up(e)
    BY <1>1 DEF Up
  <2> QED BY <1>t, <1>4, <1>5, <2>1, Chains
<1> QED BY <1>4, <1>5, <1>6, <1>7, <1>8, <1>9 DEF Flow

(* Ciphertext is lost only when an end has gone.                           *)
LEMMA LossKeepsFlow ==
  ASSUME Flow, NEW x \in Ends, SockWriteLost(x) \/ Close(x)
  PROVE  Flow' /\ \A e \in Ends : Up(Peer(e))' => GoesOn(e)
<1>t. BioTypeOK /\ PumpTypeOK /\ Handshaking /\ AllMade /\ Chained
  BY DEF Flow
<1>p. Peer(x) \in Ends
  BY TwoEnds
<1>1. /\ UNCHANGED <<flights, messages, rbio, wbio, encrypt_buf, typed, entered, printed>>
      /\ \/ /\ ~Up(Peer(x)) /\ write_buf' = [write_buf EXCEPT ![x] = << >>]
            /\ UNCHANGED <<net, pc>>
         \/ /\ pc' = [pc EXCEPT ![x] = "closed"] /\ net' = [net EXCEPT ![Peer(x)] = << >>]
            /\ UNCHANGED write_buf
  BY DEF SockWriteLost, Close, Disconnect, Goto
<1>2. broken' \in [Ends -> BOOLEAN]
  BY <1>t, <1>p DEF SockWriteLost, Close, Disconnect, PumpTypeOK
<1>3. revents' \in [Ends -> SUBSET Events]
  BY <1>t DEF SockWriteLost, Close, Handled, PumpTypeOK
<1>4. BioTypeOK'
  <2>1. << >> \in Seq(Piece)
    OBVIOUS
  <2>2. write_buf' \in [Ends -> Seq(Piece)]
    BY <1>t, <1>1, <2>1 DEF BioTypeOK
  <2>3. net' \in [Ends -> Seq(Piece)]
    BY <1>t, <1>1, <2>1 DEF BioTypeOK
  <2> QED BY <1>t, <1>1, <2>2, <2>3 DEF BioTypeOK
<1>5. PumpTypeOK'
  <2>1. pc' \in [Ends -> Functions]
    BY <1>t, <1>1 DEF PumpTypeOK, Functions
  <2> QED BY <1>t, <1>1, <1>2, <1>3, <2>1 DEF PumpTypeOK
<1>6. Handshaking'
  <2>1. \A e \in Ends : pc'[e] = "handshake" => pc[e] = "handshake"
    BY <1>t, <1>1 DEF PumpTypeOK
  <2> QED BY <1>t, <1>1, <2>1 DEF Handshaking, SSL_is_init_finished
<1>7. AllMade'
  <2> SUFFICES ASSUME NEW e \in Ends
               PROVE  AllOf(messages'[e], rbio'[Peer(e)], net'[e], write_buf'[e], wbio'[e])
    BY DEF AllMade
  <2>1. AllOf(messages[e], rbio[Peer(e)], net[e], write_buf[e], wbio[e])
    BY <1>t DEF AllMade
  <2>2. net'[e] \in {net[e], << >>} /\ write_buf'[e] \in {write_buf[e], << >>}
    BY <1>t, <1>1 DEF BioTypeOK
  <2>3. PiecesOf(messages[e], << >>)
    BY DEF PiecesOf
  <2> QED BY <1>1, <2>1, <2>2, <2>3 DEF AllOf
<1>8. ASSUME NEW e \in Ends, Up(Peer(e))'
      PROVE  Up(Peer(e)) /\ net'[e] = net[e] /\ write_buf'[e] = write_buf[e]
  <2>1. Peer(e) \in Ends /\ Peer(Peer(x)) = x
    BY TwoEnds
  <2>2. CASE UNCHANGED <<net, pc>>
    BY <1>t, <1>1, <1>8, <2>1, <2>2 DEF Up, BioTypeOK, PumpTypeOK
  <2>3. CASE pc' = [pc EXCEPT ![x] = "closed"] /\ net' = [net EXCEPT ![Peer(x)] = << >>]
             /\ UNCHANGED write_buf
    <3>1. Peer(e) # x
      BY <1>t, <1>8, <2>1, <2>3 DEF Up, PumpTypeOK
    <3> QED BY <1>t, <1>8, <2>1, <2>3, <3>1 DEF Up, BioTypeOK, PumpTypeOK
  <2> QED BY <1>1, <2>2, <2>3
<1>9. \A e \in Ends : Up(Peer(e))' => KeepsChain(e) /\ GoesOn(e)
  BY <1>t, <1>1, <1>8, SameChain
<1>10. Chained'
  BY <1>t, <1>8, <1>9 DEF Chained, InChain, KeepsChain
<1> QED BY <1>4, <1>5, <1>6, <1>7, <1>9, <1>10 DEF Flow

(* Events, stdin and the user.                                             *)
LEMMA OthersKeepFlow ==
  ASSUME Flow, Keys, NEW x \in Ends, WantIO(x) \/ Poll(x) \/ StdinRead(x) \/ Type(x)
  PROVE  Flow' /\ \A e \in Ends : GoesOn(e)
<1>t. BioTypeOK /\ PumpTypeOK /\ Handshaking /\ AllMade /\ Chained
  BY DEF Flow
<1>1. UNCHANGED <<tlsVars, write_buf, printed>>
  BY DEF WantIO, Decrypted, Poll, StdinRead, Enters, Type
<1>2. \/ pc' = pc
      \/ pc[x] = "decrypt" /\ pc' = [pc EXCEPT ![x] = "drain"]
  <2>1. CASE WantIO(x)
    BY <2>1 DEF WantIO, Decrypted, Goto
  <2>2. CASE Poll(x) \/ StdinRead(x) \/ Type(x)
    BY <2>2 DEF Poll, StdinRead, Enters, Type
  <2> QED BY <2>1, <2>2
<1>3. BioTypeOK'
  BY <1>t, <1>1 DEF BioTypeOK, tlsVars
<1>4. pc' \in [Ends -> Functions]
  BY <1>t, <1>2 DEF PumpTypeOK, Functions
<1>5. revents' \in [Ends -> SUBSET Events]
  <2>1. Ready(x) \in SUBSET Events
    BY DEF Ready
  <2> QED BY <1>t, <2>1 DEF WantIO, Decrypted, Poll, StdinRead, Enters, Handled, Type, PumpTypeOK
<1>6. /\ typed' \in [Ends -> Nat] /\ entered' \in [Ends -> Nat]
      /\ encrypt_buf' \in [Ends -> Seq(Nat)]
      /\ \A e \in Ends : typed'[e] <= Lines[e] /\ entered'[e] <= typed'[e]
  <2>1. CASE WantIO(x) \/ Poll(x)
    BY <1>t, <2>1 DEF WantIO, Decrypted, Poll, PumpTypeOK
  <2>2. CASE Type(x)
    <3>1. typed[x] \in Nat /\ Lines[x] \in Nat /\ typed[x] < Lines[x]
      BY <1>t, <2>2, SslPumpAssumption DEF Type, PumpTypeOK
    <3> QED BY <1>t, <2>2, <3>1 DEF Type, PumpTypeOK
  <2>3. CASE StdinRead(x)
    <3>1. entered' = [entered EXCEPT ![x] = @ + 1] /\ UNCHANGED typed
          /\ encrypt_buf' = [encrypt_buf EXCEPT ![x] = Append(@, entered'[x])]
      BY <2>3 DEF StdinRead, Enters, send_unencrypted_bytes
    <3>2. entered[x] < typed[x]
      BY <2>3 DEF StdinRead, Enters, Handles, Keys
    <3> QED BY <1>t, <3>1, <3>2 DEF PumpTypeOK
  <2> QED BY <2>1, <2>2, <2>3
<1>7. PumpTypeOK'
  BY <1>t, <1>1, <1>4, <1>5, <1>6 DEF PumpTypeOK, tlsVars
<1>8. Handshaking'
  <2>1. \A e \in Ends : pc'[e] = "handshake" => pc[e] = "handshake"
    BY <1>t, <1>2 DEF PumpTypeOK
  <2> QED BY <1>t, <1>1, <2>1 DEF Handshaking, SSL_is_init_finished, tlsVars
<1>9. AllMade' /\ Chained' /\ \A e \in Ends : GoesOn(e)
  <2>1. \A e \in Ends : Up(e)' => Up(e)
    BY <1>t, <1>2 DEF Up, PumpTypeOK
  <2>2. UNCHANGED <<messages, rbio, wbio, net, write_buf>>
    BY <1>1 DEF tlsVars
  <2> QED BY <1>t, <2>1, <2>2, FrameChains
<1> QED BY <1>3, <1>7, <1>8, <1>9 DEF Flow

(* An event is handled once; a key is typed before poll() reports it.      *)
LEMMA StepKeepsKeys ==
  ASSUME PumpTypeOK, Keys, [Next]_vars
  PROVE  Keys'
<1> SUFFICES ASSUME NEW e \in Ends, "key" \in revents'[e]
             PROVE  entered'[e] < typed'[e]
  BY DEF Keys
<1>t. /\ revents \in [Ends -> SUBSET Events]
      /\ \A d \in Ends : typed[d] \in Nat /\ entered[d] \in Nat
      /\ typed \in [Ends -> Nat] /\ entered \in [Ends -> Nat]
  BY DEF PumpTypeOK
<1>k. "key" \in revents[e] => entered[e] < typed[e]
  BY DEF Keys
<1>1. CASE UNCHANGED vars
  BY <1>1, <1>k DEF vars, pumpVars
<1>2. ASSUME NEW x \in Ends, Poll(x)
      PROVE  entered'[e] < typed'[e]
  <2>1. revents' = [revents EXCEPT ![x] = Ready(x)] /\ UNCHANGED <<typed, entered>>
    BY <1>2 DEF Poll
  <2>2. CASE e = x
    BY <1>t, <2>1, <2>2 DEF Ready
  <2>3. CASE e # x
    BY <1>t, <1>k, <2>1, <2>3
  <2> QED BY <2>2, <2>3
<1>3. ASSUME NEW x \in Ends, StdinRead(x)
      PROVE  entered'[e] < typed'[e]
  <2>1. /\ revents' = [revents EXCEPT ![x] = @ \ {"key"}]
        /\ entered' = [entered EXCEPT ![x] = @ + 1]
        /\ UNCHANGED typed
    BY <1>3 DEF StdinRead, Enters, Handled
  <2> QED BY <1>t, <1>k, <2>1
<1>4. ASSUME NEW x \in Ends, Type(x)
      PROVE  entered'[e] < typed'[e]
  <2>1. typed' = [typed EXCEPT ![x] = @ + 1] /\ UNCHANGED <<revents, entered>>
    BY <1>4 DEF Type
  <2> QED BY <1>t, <1>k, <2>1
<1>5. ASSUME NEW x \in Ends, SockRead(x) \/ SockWrite(x) \/ SockWriteLost(x)
      PROVE  entered'[e] < typed'[e]
  <2>1. /\ revents' = revents \/ \E y : revents' = [revents EXCEPT ![x] = @ \ {y}]
        /\ UNCHANGED <<typed, entered>>
    BY <1>5 DEF SockRead, SockWrite, Writes, SockWriteLost, Handled
  <2>2. "key" \in revents[e]
    BY <1>t, <2>1
  <2> QED BY <1>k, <2>1, <2>2
<1>6. ASSUME NEW x \in Ends,
             \/ Handshake(x) \/ Decrypt(x) \/ WantIO(x) \/ Drain(x) \/ Encrypt(x)
             \/ Close(x)
      PROVE  entered'[e] < typed'[e]
  <2>1. UNCHANGED <<revents, typed, entered>>
    BY <1>6 DEF Handshake, Decrypt, Reads, WantIO, Decrypted, Drain, Encrypt, Encrypts, Close
  <2> QED BY <1>k, <2>1
<1> QED BY <1>1, <1>2, <1>3, <1>4, <1>5, <1>6 DEF Next, Step, Break, Leave

-----------------------------------------------------------------------------
(* The next piece of a stream *)

(* The piece that the one who takes from the stream s of ms gets next.     *)
NextUp(ms, s) == IF s = << >> THEN <<Len(ms) + 1, 1>> ELSE s[1]

(* The piece that the SSL object of e takes next.                          *)
Awaited(e) == NextUp(messages[Peer(e)], Stream(Peer(e)))

(* Induction over the natural numbers, of sets.                            *)
LEMMA SetInduction ==
  ASSUME NEW S, 0 \in S, \A n \in Nat : n \in S => n + 1 \in S
  PROVE  Nat \subseteq S
<1> DEFINE T == Nat \ S
<1> SUFFICES ASSUME T # {}
             PROVE  FALSE
  OBVIOUS
<1>1. PICK x \in T : \A y \in T : <<y, x>> \notin OpToRel(<, Nat)
  <2>1. IsWellFoundedOn(OpToRel(<, Nat), Nat)
    BY NatLessThanWellFounded
  <2> QED BY <2>1, WFMin
<1>2. \A y \in T : ~(y < x)
  BY <1>1 DEF OpToRel
<1>3. x \in Nat /\ x # 0
  OBVIOUS
<1>4. x - 1 \in Nat /\ x - 1 < x
  BY <1>3
<1>5. x - 1 \in S
  BY <1>2, <1>4
<1> QED BY <1>4, <1>5

(* As long as a message lasts, its pieces are counted up.                  *)
LEMMA RunOn ==
  ASSUME NEW ms \in Seq(Message), NEW s \in Seq(Piece), s # << >>,
         PiecesOf(ms, s), InOrder(ms, s), NEW n \in Nat,
         n < Len(s), s[1][2] + n <= ms[s[1][1]].size
  PROVE  s[1 + n] = <<s[1][1], s[1][2] + n>>
<1> DEFINE k == s[1][1]
           i == s[1][2]
           S == {j \in Nat : j < Len(s) /\ i + j <= ms[k].size => s[1 + j] = <<k, i + j>>}
<1>1. /\ Len(s) \in Nat /\ 1 \in 1 .. Len(s)
      /\ s[1] = <<k, i>> /\ k \in Nat /\ i \in Nat
  <2>1. Len(s) \in Nat /\ 1 \in 1 .. Len(s)
    OBVIOUS
  <2>2. s[1] \in Piece
    BY <2>1
  <2> QED BY <2>1, <2>2 DEF Piece
<1>2. k \in 1 .. Len(ms) /\ ms[k].size \in Nat
  <2>1. k \in 1 .. Len(ms)
    BY <1>1 DEF PiecesOf
  <2>2. ms[k] \in Message
    BY <2>1
  <2> QED BY <2>1, <2>2 DEF Message
<1> HIDE DEF k, i
<1>3. 0 \in S
  BY <1>1
<1>4. ASSUME NEW j \in Nat, j \in S, j + 1 < Len(s), i + (j + 1) <= ms[k].size
      PROVE  s[1 + (j + 1)] = <<k, i + (j + 1)>>
  <2>1. j < Len(s) /\ i + j < ms[k].size /\ 1 + j \in 1 .. Len(s) /\ 1 + j < Len(s)
    BY <1>1, <1>2, <1>4
  <2>2. s[1 + j] = <<k, i + j>>
    BY <1>1, <1>2, <1>4, <2>1
  <2>3. NextPiece(ms, s[1 + j]) = s[(1 + j) + 1]
    BY <2>1 DEF InOrder
  <2>4. NextPiece(ms, s[1 + j]) = <<k, (i + j) + 1>>
    BY <2>1, <2>2 DEF NextPiece
  <2>5. (1 + j) + 1 = 1 + (j + 1) /\ (i + j) + 1 = i + (j + 1)
    BY <1>1
  <2> QED BY <2>3, <2>4, <2>5
<1>5. Nat \subseteq S
  <2>1. \A j \in Nat : j \in S => j + 1 \in S
    BY <1>4
  <2> HIDE DEF S
  <2> QED BY <1>3, <2>1, SetInduction
<1>6. s[1 + n] = <<k, i + n>>
  BY <1>5 DEF k, i
<1> QED BY <1>6 DEF k, i

(* When x has been taken, not more than the rest of one message.           *)
LEMMA NextUpTakes ==
  ASSUME NEW ms \in Seq(Message), NEW x \in Seq(Piece), NEW t \in Seq(Piece), x # << >>,
         PiecesOf(ms, Joined(x, t)), InOrder(ms, Joined(x, t)),
         Len(x) <= ms[x[1][1]].size - x[1][2] + 1
  PROVE  NextUp(ms, t) = IF Len(x) = ms[x[1][1]].size - x[1][2] + 1
                         THEN <<x[1][1] + 1, 1>> ELSE <<x[1][1], x[1][2] + Len(x)>>
<1> DEFINE all == Joined(x, t)
           k == x[1][1]
           i == x[1][2]
           n == Len(x)
<1>1. /\ n \in Nat \ {0} /\ Len(t) \in Nat
      /\ all \in Seq(Piece) /\ Len(all) = n + Len(t)
      /\ \A j \in 1 .. n : all[j] = x[j]
      /\ Len(t) > 0 => all[n + 1] = t[1]
  BY ConcatProperties DEF Joined
<1>2. all # << >> /\ all[1] = x[1] /\ 1 \in 1 .. n
  <2>1. 1 \in 1 .. n /\ Len(all) # 0
    BY <1>1
  <2>2. Len(<< >>) = 0
    OBVIOUS
  <2> QED BY <1>1, <2>1, <2>2
<1>3. x[1] = <<k, i>> /\ k \in Nat /\ i \in Nat
  <2>1. x[1] \in Piece
    BY <1>2
  <2> QED BY <2>1 DEF Piece
<1>4. k \in 1 .. Len(ms) /\ ms[k].size \in Nat
  <2>1. 1 \in 1 .. Len(all)
    BY <1>1
  <2>2. k \in 1 .. Len(ms)
    BY <1>2, <2>1 DEF PiecesOf
  <2>3. ms[k] \in Message
    BY <2>2
  <2> QED BY <2>2, <2>3 DEF Message
<1> HIDE DEF all, k, i, n
<1>5. all[n] = <<k, i + (n - 1)>>
  <2>1. n - 1 \in Nat /\ n - 1 < Len(all) /\ 1 + (n - 1) = n
    BY <1>1
  <2>2. i + (n - 1) <= ms[k].size
    BY <1>1, <1>3, <1>4 DEF n, k, i
  <2>3. all[1][1] = k /\ all[1][2] = i
    BY <1>2, <1>3
  <2>4. PiecesOf(ms, all) /\ InOrder(ms, all)
    BY DEF all
  <2>5. all[1 + (n - 1)] = <<all[1][1], all[1][2] + (n - 1)>>
    BY <1>1, <1>2, <2>1, <2>2, <2>3, <2>4, RunOn
  <2> QED BY <2>1, <2>3, <2>5
<1>6. NextPiece(ms, all[n]) = IF n < Len(all) THEN all[n + 1] ELSE <<Len(ms) + 1, 1>>
  <2>1. InOrder(ms, all) /\ n \in 1 .. Len(all)
    BY <1>1 DEF all
  <2> QED BY <2>1 DEF InOrder
<1>7. NextPiece(ms, all[n]) = NextUp(ms, t)
  <2>1. CASE t = << >>
    <3>1. ~(n < Len(all))
      BY <1>1, <2>1
    <3> QED BY <1>6, <2>1, <3>1 DEF NextUp
  <2>2. CASE t # << >>
    <3>1. n < Len(all) /\ Len(t) > 0
      BY <1>1, <2>2
    <3> QED BY <1>1, <1>6, <2>2, <3>1 DEF NextUp
  <2> QED BY <2>1, <2>2
<1>8. NextPiece(ms, all[n])
        = IF i + (n - 1) < ms[k].size THEN <<k, (i + (n - 1)) + 1>> ELSE <<k + 1, 1>>
  BY <1>5 DEF NextPiece
<1>9. (i + (n - 1)) + 1 = i + n /\ (i + (n - 1) < ms[k].size <=> n # ms[k].size - i + 1)
  <2> DEFINE z == ms[k].size
  <2>1. n <= z - i + 1
    BY DEF n, k, i
  <2>2. z \in Nat
    BY <1>4
  <2> HIDE DEF z
  <2>3. (i + (n - 1)) + 1 = i + n /\ (i + (n - 1) < z <=> n # z - i + 1)
    BY <1>1, <1>3, <2>1, <2>2
  <2> QED BY <2>3 DEF z
<1>10. NextUp(ms, t) = IF n = ms[k].size - i + 1 THEN <<k + 1, 1>> ELSE <<k, i + n>>
  BY <1>7, <1>8, <1>9
<1> QED BY <1>10 DEF n, k, i

(* A message more.                                                         *)
LEMMA NextUpMakes ==
  ASSUME NEW ms \in Seq(Message), NEW m \in Message, NEW s \in Seq(Piece)
  PROVE  NextUp(Append(ms, m), Joined(s, Pieces(Len(ms) + 1, m.size))) = NextUp(ms, s)
<1> DEFINE new == Pieces(Len(ms) + 1, m.size)
           all == Joined(s, new)
<1>1. Len(ms) + 1 \in Nat /\ m.size \in Nat \ {0} /\ Len(s) \in Nat
  BY DEF Message
<1>2. new \in Seq(Piece) /\ Len(new) = m.size /\ new[1] = <<Len(ms) + 1, 1>>
  <2>1. 1 \in 1 .. m.size /\ m.size \in Nat
    BY <1>1
  <2> QED BY <1>1, <2>1, PiecesType
<1> HIDE DEF new
<1>3. /\ Len(all) = Len(s) + Len(new)
      /\ \A j \in 1 .. Len(s) : all[j] = s[j]
      /\ \A j \in 1 .. Len(new) : all[Len(s) + j] = new[j]
  BY <1>2, ConcatProperties DEF Joined
<1>4. all # << >>
  <2>1. Len(all) # 0 /\ Len(<< >>) = 0
    BY <1>1, <1>2, <1>3
  <2> QED BY <2>1
<1> HIDE DEF all
<1>5. CASE s = << >>
  <2>1. Len(s) = 0 /\ 1 \in 1 .. Len(new)
    BY <1>1, <1>2, <1>5
  <2>2. all[Len(s) + 1] = new[1] /\ Len(s) + 1 = 1
    BY <1>3, <2>1
  <2>3. all[1] = <<Len(ms) + 1, 1>>
    BY <1>2, <2>2
  <2>4. NextUp(Append(ms, m), all) = all[1]
    BY <1>4 DEF NextUp
  <2> QED BY <1>5, <2>3, <2>4 DEF NextUp, all, new
<1>6. CASE s # << >>
  <2>1. 1 \in 1 .. Len(s)
    BY <1>6
  <2>2. all[1] = s[1]
    BY <1>3, <2>1
  <2>3. NextUp(Append(ms, m), all) = all[1]
    BY <1>4 DEF NextUp
  <2> QED BY <1>6, <2>2, <2>3 DEF NextUp, all, new
<1> QED BY <1>5, <1>6

(* What is known of the stream of an end.                                  *)
LEMMA StreamOf ==
  ASSUME Flow, NEW e \in Ends
  PROVE  /\ messages[e] \in Seq(Message) /\ Stream(e) \in Seq(Piece)
         /\ PiecesOf(messages[e], Stream(e))
         /\ Up(Peer(e)) => InOrder(messages[e], Stream(e))
<1>1. BioTypeOK /\ AllMade /\ Chained /\ Peer(e) \in Ends
  BY TwoEnds DEF Flow
<1>2. /\ messages[e] \in Seq(Message) /\ rbio[Peer(e)] \in Seq(Piece) /\ net[e] \in Seq(Piece)
      /\ write_buf[e] \in Seq(Piece) /\ wbio[e] \in Seq(Piece)
  BY <1>1 DEF BioTypeOK
<1>3. AllOf(messages[e], rbio[Peer(e)], net[e], write_buf[e], wbio[e])
  BY <1>1 DEF AllMade
<1>4. Stream(e) \in Seq(Piece) /\ PiecesOf(messages[e], Stream(e))
  BY <1>2, <1>3, ConcatPieces DEF Stream
<1>5. Up(Peer(e)) => InOrder(messages[e], Stream(e))
  BY <1>1 DEF Chained, InChain, Chain, Stream
<1> QED BY <1>2, <1>4, <1>5

(* The first k pieces of rbio are the first of the peer's stream.          *)
LEMMA StreamFirst ==
  ASSUME Flow, NEW e \in Ends, NEW k \in 1 .. Len(rbio[e])
  PROVE  LET p == Peer(e)
             x == SubSeq(rbio[e], 1, k)
         IN  /\ x \in Seq(Piece) /\ x # << >> /\ Len(x) = k /\ x[1] = rbio[e][1]
             /\ Stream(p) = Joined(x, OneAfterTheOther(After(rbio[e], k), net[p],
                                                       write_buf[p], wbio[p]))
<1> DEFINE p == Peer(e)
           x == SubSeq(rbio[e], 1, k)
           rest == After(rbio[e], k)
<1>1. BioTypeOK /\ p \in Ends /\ Peer(p) = e
  BY TwoEnds DEF Flow
<1>2. /\ rbio[e] \in Seq(Piece) /\ net[p] \in Seq(Piece)
      /\ write_buf[p] \in Seq(Piece) /\ wbio[p] \in Seq(Piece)
  BY <1>1 DEF BioTypeOK
<1>3. Len(x) = k /\ x[1] = rbio[e][1]
  <2>1. Len(x) = k /\ \A i \in 1 .. k : x[i] = rbio[e][i]
    BY <1>2, SubSeqProperties
  <2> QED BY <2>1
<1>4. x \in Seq(Piece) /\ rest \in Seq(Piece) /\ rbio[e] = Joined(x, rest)
  BY <1>2, Cut DEF Joined
<1>5. x # << >>
  <2>1. Len(x) # 0 /\ Len(<< >>) = 0
    BY <1>3
  <2> QED BY <2>1
<1> HIDE DEF x, rest
<1>6. OneAfterTheOther(Joined(x, rest), net[p], write_buf[p], wbio[p])
        = Joined(x, OneAfterTheOther(rest, net[p], write_buf[p], wbio[p]))
  BY <1>2, <1>4, ConcatFirst
<1>7. Stream(p) = OneAfterTheOther(rbio[e], net[p], write_buf[p], wbio[p])
  BY <1>1 DEF Stream
<1> QED BY <1>3, <1>4, <1>5, <1>6, <1>7 DEF x, rest

(* The first piece of rbio is the one that is awaited.                     *)
LEMMA AwaitedFirst ==
  ASSUME Flow, NEW e \in Ends, rbio[e] # << >>
  PROVE  /\ Awaited(e) = rbio[e][1]
         /\ rbio[e][1][1] \in 1 .. Len(messages[Peer(e)])
         /\ rbio[e][1][2] \in 1 .. Front(e).size
         /\ Front(e) \in Message
<1> DEFINE p == Peer(e)
           s == Stream(p)
           x == SubSeq(rbio[e], 1, 1)
<1>1. p \in Ends /\ messages[p] \in Seq(Message) /\ PiecesOf(messages[p], s) /\ s \in Seq(Piece)
  BY TwoEnds, StreamOf
<1>2. 1 \in 1 .. Len(rbio[e])
  BY TwoEnds DEF Flow, BioTypeOK
<1>3. PICK t \in Seq(Piece) : /\ x \in Seq(Piece) /\ x # << >> /\ x[1] = rbio[e][1]
                              /\ s = Joined(x, t)
  <2> DEFINE t == OneAfterTheOther(After(rbio[e], 1), net[p], write_buf[p], wbio[p])
  <2>1. BioTypeOK
    BY DEF Flow
  <2>2. /\ rbio[e] \in Seq(Piece) /\ net[p] \in Seq(Piece)
        /\ write_buf[p] \in Seq(Piece) /\ wbio[p] \in Seq(Piece)
    BY <1>1, <2>1 DEF BioTypeOK
  <2>3. After(rbio[e], 1) \in Seq(Piece)
    BY <2>2, Rest
  <2>4. t \in Seq(Piece)
    BY <2>2, <2>3, ConcatPieces
  <2>5. x \in Seq(Piece) /\ x # << >> /\ x[1] = rbio[e][1] /\ s = Joined(x, t)
    BY <1>2, StreamFirst
  <2> QED BY <2>4, <2>5
<1> HIDE DEF x
<1>4. Len(x) \in Nat \ {0} /\ Len(s) = Len(x) + Len(t) /\ s[1] = x[1] /\ Len(t) \in Nat
  BY <1>3, ConcatProperties DEF Joined
<1> HIDE DEF s, p
<1>5. 1 \in 1 .. Len(s) /\ s # << >>
  <2>1. Len(s) # 0 /\ Len(<< >>) = 0 /\ 1 <= Len(s) /\ Len(s) \in Nat
    BY <1>4
  <2> QED BY <2>1
<1>6. s[1] = rbio[e][1]
  BY <1>3, <1>4
<1>7. Awaited(e) = rbio[e][1]
  BY <1>5, <1>6 DEF Awaited, NextUp, s, p
<1>8. rbio[e][1][1] \in 1 .. Len(messages[p]) /\ rbio[e][1][2] \in 1 .. messages[p][rbio[e][1][1]].size
  BY <1>1, <1>5, <1>6 DEF PiecesOf
<1>9. Front(e) = messages[p][rbio[e][1][1]] /\ Front(e) \in Message
  BY <1>1, <1>8 DEF Front, p
<1> QED BY <1>7, <1>8, <1>9 DEF p

(* The same of all ends, in this state or in the next.                     *)
FirstIsAwaited ==
  \A e \in Ends : rbio[e] # << >> =>
    Awaited(e) = rbio[e][1] /\ rbio[e][1][1] \in 1 .. Len(messages[Peer(e)])

(* The first piece of each rbio is the awaited one.                        *)
LEMMA FlowAwaits == Flow => FirstIsAwaited
  BY AwaitedFirst DEF FirstIsAwaited

(* The awaited piece is of a message that has been made, or will be next.  *)
LEMMA AwaitedRange ==
  ASSUME Flow, NEW e \in Ends
  PROVE  Awaited(e)[1] \in 1 .. Len(messages[Peer(e)]) + 1
<1> DEFINE p == Peer(e)
<1>1. p \in Ends /\ messages[p] \in Seq(Message) /\ PiecesOf(messages[p], Stream(p))
      /\ Stream(p) \in Seq(Piece)
  BY TwoEnds, StreamOf
<1>2. Len(messages[p]) \in Nat
  BY <1>1
<1>3. CASE Stream(p) = << >>
  BY <1>2, <1>3 DEF Awaited, NextUp
<1>4. CASE Stream(p) # << >>
  <2>1. 1 \in 1 .. Len(Stream(p))
    BY <1>1, <1>4
  <2>2. Stream(p)[1][1] \in 1 .. Len(messages[p])
    BY <1>1, <2>1 DEF PiecesOf
  <2> QED BY <1>2, <1>4, <2>2 DEF Awaited, NextUp
<1> QED BY <1>3, <1>4

(* The same of all ends, in this state or in the next.                     *)
RangeOfAwaited == \A e \in Ends : Awaited(e)[1] \in 1 .. Len(messages[Peer(e)]) + 1

(* No end awaits a message beyond the next that will be made.              *)
LEMMA FlowRange == Flow => RangeOfAwaited
  BY AwaitedRange DEF RangeOfAwaited

(* Nothing that is not taken changes what is awaited.                      *)
LEMMA AwaitedKept ==
  ASSUME Flow, NEW e \in Ends, GoesOn(Peer(e))
  PROVE  /\ Awaited(e)' = Awaited(e)
         /\ Len(messages'[Peer(e)]) >= Len(messages[Peer(e)])
<1> DEFINE p == Peer(e)
<1>1. p \in Ends /\ messages[p] \in Seq(Message) /\ Stream(p) \in Seq(Piece)
  BY TwoEnds, StreamOf
<1>2. Len(messages[p]) \in Nat
  BY <1>1
<1>3. Awaited(e)' = NextUp(messages'[p], Stream(p)')
  BY DEF Awaited
<1> HIDE DEF p
<1>4. CASE messages'[p] = messages[p] /\ Stream(p)' = Stream(p)
  BY <1>2, <1>3, <1>4 DEF Awaited, p
<1>5. ASSUME NEW m \in Message, messages'[p] = Append(messages[p], m),
             Stream(p)' = Joined(Stream(p), Pieces(Len(messages[p]) + 1, m.size))
      PROVE  Awaited(e)' = Awaited(e) /\ Len(messages'[p]) >= Len(messages[p])
  <2>1. NextUp(messages'[p], Stream(p)') = NextUp(messages[p], Stream(p))
    BY <1>1, <1>5, NextUpMakes
  <2>2. Len(messages'[p]) = Len(messages[p]) + 1
    BY <1>1, <1>5
  <2> QED BY <1>2, <1>3, <2>1, <2>2 DEF Awaited, p
<1>6. GoesOn(p)
  BY DEF p
<1> QED BY <1>4, <1>5, <1>6 DEF GoesOn, p

(* What is awaited when k pieces of a message have been taken.             *)
LEMMA AwaitedTakes ==
  ASSUME Flow, NEW e \in Ends, Up(e), Whole(e), NEW k \in 1 .. Due(e), Takes(e, k),
         UNCHANGED <<net, write_buf>>, messages'[Peer(e)] = messages[Peer(e)],
         wbio'[Peer(e)] = wbio[Peer(e)]
  PROVE  Awaited(e)' = IF k = Due(e) THEN <<rbio[e][1][1] + 1, 1>>
                       ELSE <<rbio[e][1][1], rbio[e][1][2] + k>>
<1> DEFINE p == Peer(e)
           x == SubSeq(rbio[e], 1, k)
           t == OneAfterTheOther(After(rbio[e], k), net[p], write_buf[p], wbio[p])
<1>1. /\ p \in Ends /\ Peer(p) = e /\ messages[p] \in Seq(Message)
      /\ PiecesOf(messages[p], Stream(p)) /\ InOrder(messages[p], Stream(p))
  BY TwoEnds, StreamOf
<1>2. BioTypeOK /\ rbio[e] # << >>
  BY DEF Flow, Whole
<1>3. /\ rbio[e] \in Seq(Piece) /\ net[p] \in Seq(Piece)
      /\ write_buf[p] \in Seq(Piece) /\ wbio[p] \in Seq(Piece)
  BY <1>1, <1>2 DEF BioTypeOK
<1>4. Front(e) \in Message /\ rbio[e][1][2] \in 1 .. Front(e).size
  BY <1>2, AwaitedFirst
<1>5. k \in 1 .. Len(rbio[e]) /\ k \in Nat
  <2>1. Due(e) \in Nat /\ Len(rbio[e]) \in Nat /\ Due(e) <= Len(rbio[e])
    BY <1>3, <1>4 DEF Due, Message, Whole
  <2> QED BY <2>1
<1>6. /\ x \in Seq(Piece) /\ x # << >> /\ Len(x) = k /\ x[1] = rbio[e][1]
      /\ Stream(p) = Joined(x, t)
  BY <1>5, StreamFirst
<1>7. t \in Seq(Piece)
  <2>1. After(rbio[e], k) \in Seq(Piece)
    BY <1>3, <1>5, Rest
  <2> QED BY <1>3, <2>1, ConcatPieces
<1>8. Stream(p)' = t
  <2>1. rbio'[e] = After(rbio[e], k)
    BY <1>2 DEF Takes, BioTypeOK
  <2> QED BY <1>1, <2>1 DEF Stream
<1> HIDE DEF x, t, p
<1>9. messages[p][x[1][1]].size - x[1][2] + 1 = Due(e)
  BY <1>6 DEF Due, Front, p
<1>10. Len(x) <= messages[p][x[1][1]].size - x[1][2] + 1
  <2>1. k <= Due(e)
    BY <1>4 DEF Due, Message
  <2> QED BY <1>6, <1>9, <2>1
<1>11. NextUp(messages[p], t) = IF Len(x) = messages[p][x[1][1]].size - x[1][2] + 1
                                THEN <<x[1][1] + 1, 1>> ELSE <<x[1][1], x[1][2] + Len(x)>>
  BY <1>1, <1>6, <1>7, <1>10, NextUpTakes
<1>12. Awaited(e)' = NextUp(messages[p], t)
  BY <1>8 DEF Awaited, p
<1> QED BY <1>6, <1>9, <1>11, <1>12

-----------------------------------------------------------------------------
(* What the messages of an end say *)

(* The lines a + 1, ..., a + n.                                            *)
From(a, n) == [i \in 1 .. n |-> a + i]

(* The number of lines in the first k messages ms.                         *)
Upto(ms, k) == IF k <= 2 THEN 0 ELSE ms[k].lines[Len(ms[k].lines)]

(* The records of ms hold the first of the n lines that were entered, the  *)
(* next one where the last one ended, and buf the rest.                    *)
Tells(ms, n, buf) ==
  /\ \A k \in 3 .. Len(ms) :
       ms[k].lines # << >> /\ ms[k].lines = From(Upto(ms, k - 1), Len(ms[k].lines))
  /\ \A k \in 0 .. Len(ms) : Upto(ms, k) \in 0 .. n
  /\ buf = From(Upto(ms, Len(ms)), Len(buf))
  /\ Upto(ms, Len(ms)) + Len(buf) = n

(* The first two messages are the flights of an end, and only they.        *)
FlightOf(e, k) == IF e = "client" THEN 2 * k - 1 ELSE 2 * k

Scripted(e, k, m) ==
  IF k <= 2 THEN m = [flight |-> FlightOf(e, k), lines |-> << >>, size |-> FlightSize]
            ELSE m.flight = 0

Script == \A e \in Ends : \A k \in 1 .. Len(messages[e]) : Scripted(e, k, messages[e][k])

Told == \A e \in Ends : Tells(messages[e], entered[e], encrypt_buf[e])

(* How many flights an end has made, and taken, that has come to f.        *)
FlightsMade(f) == IF f = 0 THEN 0 ELSE IF f <= 2 THEN 1 ELSE 2

FlightsTaken(e) ==
  IF e = "client" THEN (IF flights[e] < 3 THEN 0 ELSE IF flights[e] = 3 THEN 1 ELSE 2)
                  ELSE (IF flights[e] < 2 THEN 0 ELSE IF flights[e] = 2 THEN 1 ELSE 2)

(* No end is more than a flight ahead of the other.                        *)
Turns ==
  /\ \A e \in Ends :
       /\ Len(messages[e]) >= FlightsMade(flights[e])
       /\ ~SSL_is_init_finished(e) => Len(messages[e]) = FlightsMade(flights[e])
  /\ flights["server"] >= 2 => flights["client"] >= 1
  /\ flights["server"] = 4 => flights["client"] >= 3
  /\ flights["client"] >= 3 => flights["server"] >= 2
  /\ flights["client"] = 4 => flights["server"] = 4

Talk == Script /\ Told /\ Turns

(* Up to the message that it awaits an SSL object has taken the flights,   *)
(* and the program has printed the lines.                                  *)
HeardBy(e) ==
  Up(e) =>
    /\ ~SSL_is_init_finished(e) => Awaited(e) = <<FlightsTaken(e) + 1, 1>>
    /\ printed[e] = From(0, Upto(messages[Peer(e)], Awaited(e)[1] - 1))

Heard == \A e \in Ends : HeardBy(e)

(* Nothing is left in rbio that SSL_read() could take, nor, at the top of  *)
(* the loop, in wbio what has to be sent.                                  *)
QuietAt(e) ==
  /\ pc[e] \in {"drain", "loop"} => ~Whole(e)
  /\ pc[e] = "loop" => wbio[e] = << >>
  /\ pc[e] = "decrypt" => SSL_is_init_finished(e)

Quiet == \A e \in Ends : QuietAt(e)

(* A sequence of lines counted from a.                                     *)
LEMMA FromType ==
  ASSUME NEW a \in Nat, NEW n \in Nat
  PROVE  /\ From(a, n) \in Seq(Nat) /\ Len(From(a, n)) = n
         /\ \A i \in 1 .. n : From(a, n)[i] = a + i
  BY DEF From

(* Two of them, one after the other.                                       *)
LEMMA FromConcat ==
  ASSUME NEW a \in Nat, NEW n \in Nat
  PROVE  From(0, a) \o From(a, n) = From(0, a + n)
<1> DEFINE s == From(0, a)
           t == From(a, n)
           u == From(0, a + n)
<1>1. /\ s \in Seq(Nat) /\ Len(s) = a /\ \A i \in 1 .. a : s[i] = 0 + i
      /\ t \in Seq(Nat) /\ Len(t) = n /\ \A i \in 1 .. n : t[i] = a + i
      /\ u \in Seq(Nat) /\ Len(u) = a + n /\ \A i \in 1 .. a + n : u[i] = 0 + i
  <2>1. 0 \in Nat /\ a + n \in Nat
    OBVIOUS
  <2>2. s \in Seq(Nat) /\ Len(s) = a /\ \A i \in 1 .. a : s[i] = 0 + i
    BY <2>1, FromType
  <2>3. t \in Seq(Nat) /\ Len(t) = n /\ \A i \in 1 .. n : t[i] = a + i
    BY FromType
  <2>4. u \in Seq(Nat) /\ Len(u) = a + n /\ \A i \in 1 .. a + n : u[i] = 0 + i
    BY <2>1, FromType
  <2> QED BY <2>2, <2>3, <2>4
<1> HIDE DEF s, t, u
<1>2. s \o t \in Seq(Nat) /\ Len(s \o t) = a + n
  BY <1>1
<1>3. ASSUME NEW i \in 1 .. a + n
      PROVE  (s \o t)[i] = u[i]
  <2>1. CASE i <= a
    <3>1. i \in 1 .. a /\ (s \o t)[i] = s[i]
      BY <1>1, <2>1
    <3>2. s[i] = 0 + i /\ u[i] = 0 + i
      BY <1>1, <3>1
    <3> QED BY <3>1, <3>2
  <2>2. CASE i > a
    <3>1. i - a \in 1 .. n /\ (s \o t)[i] = t[i - a]
      BY <1>1, <2>2
    <3>2. t[i - a] = a + (i - a) /\ u[i] = 0 + i
      BY <1>1, <3>1
    <3>3. a + (i - a) = 0 + i
      OBVIOUS
    <3> QED BY <3>1, <3>2, <3>3
  <2>3. i <= a \/ i > a
    OBVIOUS
  <2> QED BY <2>1, <2>2, <2>3, Zenon
<1>4. s \o t = u
  BY <1>1, <1>2, <1>3, SeqEqual
<1> QED BY <1>4 DEF s, t, u

(* One more line.                                                          *)
LEMMA FromAppend ==
  ASSUME NEW a \in Nat, NEW n \in Nat
  PROVE  Append(From(a, n), (a + n) + 1) = From(a, n + 1)
<1> DEFINE s == From(a, n)
           t == Append(s, (a + n) + 1)
           u == From(a, n + 1)
<1>1. /\ s \in Seq(Nat) /\ Len(s) = n /\ \A i \in 1 .. n : s[i] = a + i
      /\ u \in Seq(Nat) /\ Len(u) = n + 1 /\ \A i \in 1 .. n + 1 : u[i] = a + i
  <2>1. n + 1 \in Nat
    OBVIOUS
  <2> QED BY <2>1, FromType
<1> HIDE DEF s, u
<1>2. /\ t \in Seq(Nat) /\ Len(t) = n + 1
      /\ \A i \in 1 .. n : t[i] = s[i]
      /\ t[n + 1] = (a + n) + 1
  BY <1>1, AppendProperties
<1> HIDE DEF t
<1>3. \A i \in 1 .. n + 1 : t[i] = u[i]
  <2> SUFFICES ASSUME NEW i \in 1 .. n + 1
               PROVE  t[i] = u[i]
    OBVIOUS
  <2>1. CASE i \in 1 .. n
    BY <1>1, <1>2, <2>1
  <2>2. CASE i = n + 1
    BY <1>1, <1>2, <2>2
  <2> QED BY <2>1, <2>2
<1>4. t = u
  BY <1>1, <1>2, <1>3, SeqEqual
<1> QED BY <1>4 DEF s, t, u

(* A new message changes nothing of the ones before.                       *)
LEMMA UptoMore ==
  ASSUME NEW ms \in Seq(Message), NEW m \in Message, NEW k \in 0 .. Len(ms)
  PROVE  Upto(Append(ms, m), k) = Upto(ms, k)
<1>1. CASE k <= 2
  BY <1>1 DEF Upto
<1>2. CASE k > 2
  <2>1. k \in 1 .. Len(ms)
    BY <1>2
  <2>2. Append(ms, m)[k] = ms[k]
    BY <2>1, AppendProperties
  <2> QED BY <2>2 DEF Upto
<1> QED BY <1>1, <1>2

(* A flight says nothing.                                                  *)
LEMMA TellsFlight ==
  ASSUME NEW ms \in Seq(Message), NEW m \in Message, NEW n \in Nat, NEW buf \in Seq(Nat),
         Len(ms) < 2, Tells(ms, n, buf)
  PROVE  Tells(Append(ms, m), n, buf)
<1> DEFINE more == Append(ms, m)
<1>1. Len(ms) \in Nat /\ Len(more) = Len(ms) + 1
  BY AppendProperties
<1> HIDE DEF more
<1>2. \A k \in 0 .. Len(more) : Upto(more, k) = 0
  BY <1>1 DEF Upto
<1>3. Upto(ms, Len(ms)) = 0
  BY <1>1 DEF Upto
<1>4. Upto(more, Len(more)) = 0
  BY <1>1, <1>2
<1>5. \A k \in 3 .. Len(more) : FALSE
  BY <1>1
<1>6. Tells(more, n, buf)
  BY <1>2, <1>3, <1>4, <1>5 DEF Tells
<1> QED BY <1>6 DEF more

(* A record says what is in the buffer.                                    *)
LEMMA TellsRecord ==
  ASSUME NEW ms \in Seq(Message), NEW m \in Message, NEW n \in Nat, NEW buf \in Seq(Nat),
         Len(ms) >= 2, Tells(ms, n, buf), m.lines = buf, buf # << >>
  PROVE  Tells(Append(ms, m), n, << >>)
<1> DEFINE more == Append(ms, m)
           last == Len(ms) + 1
           a == Upto(ms, Len(ms))
           b == Len(buf)
<1>1. /\ Len(ms) \in Nat /\ Len(more) = last /\ more[last] = m
      /\ \A k \in 1 .. Len(ms) : more[k] = ms[k]
  BY AppendProperties
<1>2. \A k \in 0 .. Len(ms) : Upto(more, k) = Upto(ms, k)
  BY UptoMore
<1>3. /\ \A k \in 3 .. Len(ms) :
           ms[k].lines # << >> /\ ms[k].lines = From(Upto(ms, k - 1), Len(ms[k].lines))
      /\ \A k \in 0 .. Len(ms) : Upto(ms, k) \in 0 .. n
      /\ buf = From(a, b)
      /\ a + b = n
  BY DEF Tells
<1>4. b \in Nat \ {0} /\ a \in Nat
  <2>1. b \in Nat \ {0}
    OBVIOUS
  <2>2. a \in 0 .. n
    BY <1>1, <1>3
  <2> QED BY <2>1, <2>2
<1> HIDE DEF more
<1>5. Upto(more, last) = n
  <2>1. Upto(more, last) = buf[b]
    BY <1>1 DEF Upto
  <2>2. b \in 1 .. b
    BY <1>4
  <2> HIDE DEF a, b
  <2>3. From(a, b)[b] = a + b
    BY <1>4, <2>2, FromType
  <2> QED BY <1>3, <2>1, <2>3
<1>6. ASSUME NEW k \in 3 .. Len(more)
      PROVE  more[k].lines # << >>
             /\ more[k].lines = From(Upto(more, k - 1), Len(more[k].lines))
  <2>1. k - 1 \in 0 .. Len(ms)
    BY <1>1
  <2>2. Upto(more, k - 1) = Upto(ms, k - 1)
    BY <1>2, <2>1
  <2>3. CASE k \in 3 .. Len(ms)
    <3>1. more[k] = ms[k]
      BY <1>1, <2>3
    <3> QED BY <1>3, <2>2, <2>3, <3>1
  <2>4. CASE k = last
    <3>1. k - 1 = Len(ms) /\ more[k].lines = buf
      BY <1>1, <2>4
    <3> QED BY <1>3, <2>2, <3>1
  <2> QED BY <1>1, <2>3, <2>4
<1>7. \A k \in 0 .. Len(more) : Upto(more, k) \in 0 .. n
  <2> SUFFICES ASSUME NEW k \in 0 .. Len(more)
               PROVE  Upto(more, k) \in 0 .. n
    OBVIOUS
  <2>1. CASE k \in 0 .. Len(ms)
    BY <1>2, <1>3, <2>1
  <2>2. CASE k = last
    BY <1>5, <2>2
  <2> QED BY <1>1, <2>1, <2>2
<1>8. << >> = From(n, Len(<< >>)) /\ n + Len(<< >>) = n
  <2>1. Len(<< >>) = 0 /\ << >> \in Seq(Nat)
    OBVIOUS
  <2>2. From(n, 0) \in Seq(Nat) /\ Len(From(n, 0)) = 0
    BY FromType
  <2>3. From(n, 0) = << >>
    BY <2>2
  <2> QED BY <2>1, <2>3
<1>9. Tells(more, n, << >>)
  BY <1>1, <1>5, <1>6, <1>7, <1>8 DEF Tells
<1> QED BY <1>9 DEF more

(* A line that is read comes last.                                         *)
LEMMA TellsEntered ==
  ASSUME NEW ms \in Seq(Message), NEW n \in Nat, NEW buf \in Seq(Nat), Tells(ms, n, buf)
  PROVE  Tells(ms, n + 1, Append(buf, n + 1))
<1> DEFINE a == Upto(ms, Len(ms))
           b == Len(buf)
           more == Append(buf, n + 1)
<1>1. Len(ms) \in Nat /\ b \in Nat /\ Len(more) = b + 1
  OBVIOUS
<1>2. /\ \A k \in 3 .. Len(ms) :
           ms[k].lines # << >> /\ ms[k].lines = From(Upto(ms, k - 1), Len(ms[k].lines))
      /\ \A k \in 0 .. Len(ms) : Upto(ms, k) \in 0 .. n
      /\ buf = From(a, b) /\ a + b = n
  BY DEF Tells
<1>3. a \in Nat
  <2>1. a \in 0 .. n
    BY <1>1, <1>2
  <2> QED BY <2>1
<1>4. more = From(a, b + 1)
  <2>1. Append(From(a, b), (a + b) + 1) = From(a, b + 1)
    BY <1>1, <1>3, FromAppend
  <2> QED BY <1>2, <2>1
<1>5. \A k \in 0 .. Len(ms) : Upto(ms, k) \in 0 .. n + 1
  BY <1>2
<1>6. a + (b + 1) = n + 1
  <2> HIDE DEF a, b
  <2> QED BY <1>1, <1>2, <1>3
<1> HIDE DEF more
<1>7. Tells(ms, n + 1, more)
  BY <1>1, <1>2, <1>4, <1>5, <1>6 DEF Tells
<1> QED BY <1>7 DEF more

-----------------------------------------------------------------------------
(* What a step leaves of what was said and heard *)

Grows(e) ==
  \/ messages'[e] = messages[e]
  \/ \E m \in Message : messages'[e] = Append(messages[e], m)

(* A new message of the peer changes nothing of what is in rbio,           *)
LEMMA WholeKept ==
  ASSUME Flow, NEW e \in Ends, rbio'[e] = rbio[e], Grows(Peer(e))
  PROVE  Whole(e)' <=> Whole(e)
<1> DEFINE p == Peer(e)
<1>1. CASE rbio[e] = << >>
  BY <1>1 DEF Whole
<1>2. CASE rbio[e] # << >>
  <2>1. rbio[e][1][1] \in 1 .. Len(messages[p])
    BY <1>2, AwaitedFirst
  <2>2. messages[p] \in Seq(Message)
    BY TwoEnds, StreamOf
  <2>3. messages'[p][rbio[e][1][1]] = messages[p][rbio[e][1][1]]
    <3>1. ASSUME NEW m \in Message, messages'[p] = Append(messages[p], m)
          PROVE  messages'[p][rbio[e][1][1]] = messages[p][rbio[e][1][1]]
      BY <2>1, <2>2, <3>1, AppendProperties
    <3> QED BY <3>1 DEF Grows
  <2>4. Front(e)' = Front(e)
    BY <2>3 DEF Front
  <2> QED BY <2>4 DEF Whole, Due
<1> QED BY <1>1, <1>2

(* nor of what has been heard.                                             *)
LEMMA HeardKept ==
  ASSUME Flow, NEW e \in Ends, HeardBy(e), Up(e)' => Up(e) /\ GoesOn(Peer(e)),
         flights'[e] = flights[e], printed'[e] = printed[e]
  PROVE  HeardBy(e)'
<1> SUFFICES ASSUME Up(e)'
             PROVE  HeardBy(e)'
  BY DEF HeardBy
<1> DEFINE p == Peer(e)
           k == Awaited(e)[1] - 1
<1>1. Up(e) /\ GoesOn(p)
  OBVIOUS
<1>2. Awaited(e)' = Awaited(e)
  BY <1>1, AwaitedKept
<1>3. messages[p] \in Seq(Message) /\ Len(messages[p]) \in Nat
  BY TwoEnds, StreamOf
<1>4. k \in 0 .. Len(messages[p])
  <2>1. Awaited(e)[1] \in 1 .. Len(messages[p]) + 1
    BY AwaitedRange
  <2> QED BY <1>3, <2>1
<1> HIDE DEF k
<1>5. Upto(messages'[p], k) = Upto(messages[p], k)
  <2>1. ASSUME NEW m \in Message, messages'[p] = Append(messages[p], m)
        PROVE  Upto(messages'[p], k) = Upto(messages[p], k)
    BY <1>3, <1>4, <2>1, UptoMore
  <2>2. ASSUME messages'[p] = messages[p]
        PROVE  Upto(messages'[p], k) = Upto(messages[p], k)
    BY <2>2
  <2> QED BY <1>1, <2>1, <2>2 DEF GoesOn
<1>6. printed'[e] = From(0, Upto(messages'[p], k))
  BY <1>1, <1>5 DEF HeardBy, k
<1>7. SSL_is_init_finished(e)' <=> SSL_is_init_finished(e)
  BY DEF SSL_is_init_finished
<1>8. FlightsTaken(e)' = FlightsTaken(e)
  BY DEF FlightsTaken
<1> QED BY <1>1, <1>2, <1>6, <1>7, <1>8 DEF HeardBy, k

(* An end that does not move.                                              *)
LEMMA QuietKept ==
  ASSUME Flow, NEW e \in Ends, QuietAt(e), Grows(Peer(e)), rbio'[e] = rbio[e],
         wbio'[e] = wbio[e], pc'[e] = pc[e], flights'[e] = flights[e]
  PROVE  QuietAt(e)'
  BY WholeKept DEF QuietAt, SSL_is_init_finished

(* Steps that neither make a message nor read a line.                      *)
LEMMA TalkKept ==
  ASSUME Talk, UNCHANGED <<flights, messages, entered, encrypt_buf>>
  PROVE  Talk'
  BY DEF Talk, Script, Told, Turns, SSL_is_init_finished

-----------------------------------------------------------------------------
(* The handshake *)

(* A flight is there to be taken only when it is its turn.                 *)
LEMMA FlightDue ==
  ASSUME Flow, Talk, Heard, NEW x \in Ends, pc[x] = "handshake", Whole(x)
  PROVE  /\ Due(x) = FlightSize
         /\ rbio[x][1] = <<FlightsTaken(x) + 1, 1>>
         /\ IF x = "client"
            THEN \/ flights[x] = 1 /\ flights["server"] = 2 /\ Len(messages["server"]) = 1
                 \/ flights[x] = 3 /\ flights["server"] = 4 /\ ClientDone = 4
            ELSE \/ flights[x] = 0 /\ flights["client"] = 1 /\ Len(messages["client"]) = 1
                 \/ flights[x] = 2 /\ flights["client"] >= 3
<1> DEFINE p == Peer(x)
<1>1. /\ p \in Ends /\ Handshaking /\ Turns /\ Script /\ HeardBy(x) /\ rbio[x] # << >>
      /\ messages[p] \in Seq(Message) /\ Len(messages[p]) \in Nat
  BY TwoEnds, StreamOf DEF Flow, Talk, Heard, Whole
<1>2. ~SSL_is_init_finished(x) /\ Up(x)
  BY <1>1 DEF Handshaking, Up
<1>3. Awaited(x) = <<FlightsTaken(x) + 1, 1>>
  BY <1>1, <1>2 DEF HeardBy
<1>4. rbio[x][1] = Awaited(x) /\ Awaited(x)[1] \in 1 .. Len(messages[p])
  BY <1>1, AwaitedFirst
<1>5. FlightsTaken(x) \in {0, 1}
  BY <1>1, <1>2, TlsLibraryAssumption DEF Handshaking, SSL_is_init_finished, FlightsTaken, Ends
<1>6. FlightsTaken(x) + 1 <= Len(messages[p])
  BY <1>1, <1>3, <1>4
<1>7. Due(x) = FlightSize
  <2> DEFINE k == FlightsTaken(x) + 1
  <2>1. k \in 1 .. Len(messages[p]) /\ k <= 2
    BY <1>1, <1>5, <1>6
  <2>2. messages[p][k].size = FlightSize
    <3>1. Scripted(p, k, messages[p][k])
      BY <1>1, <2>1 DEF Script
    <3> QED BY <2>1, <3>1 DEF Scripted
  <2>3. rbio[x][1][1] = k /\ rbio[x][1][2] = 1
    BY <1>3, <1>4
  <2> HIDE DEF k
  <2>4. Front(x).size = FlightSize /\ FlightSize \in Nat
    BY <2>2, <2>3, TlsLibraryAssumption DEF Front
  <2> QED BY <2>3, <2>4 DEF Due
<1>8. CASE x = "client"
  <2>1. p = "server"
    BY <1>8 DEF Peer
  <2>2. /\ flights[x] \in {0, 1, 3} /\ (flights[x] = 3 => ClientDone = 4)
        /\ flights[p] \in {0, 2, 4}
    BY <1>1, <1>2, <1>8, <2>1, TlsLibraryAssumption DEF Handshaking, SSL_is_init_finished
  <2>3. flights[p] < 4 => Len(messages[p]) = FlightsMade(flights[p])
    BY <1>1, <2>1, <2>2 DEF Turns, SSL_is_init_finished
  <2>4. /\ flights[p] >= 2 => flights[x] >= 1
        /\ flights[p] = 4 => flights[x] >= 3
        /\ flights[x] >= 3 => flights[p] >= 2
    BY <1>1, <1>8, <2>1 DEF Turns
  <2>5. FlightsTaken(x) = IF flights[x] < 3 THEN 0 ELSE 1
    BY <1>8, <2>2 DEF FlightsTaken
  <2>6. CASE flights[x] = 0
    BY <1>6, <2>2, <2>3, <2>4, <2>5, <2>6 DEF FlightsMade
  <2>7. CASE flights[x] = 1
    <3>1. flights[p] = 2
      BY <1>6, <2>2, <2>3, <2>4, <2>5, <2>7 DEF FlightsMade
    <3>2. Len(messages[p]) = 1
      BY <2>3, <3>1 DEF FlightsMade
    <3> QED BY <1>3, <1>4, <1>7, <1>8, <2>1, <2>7, <3>1, <3>2
  <2>8. CASE flights[x] = 3
    <3>1. flights[p] = 4
      BY <1>6, <2>2, <2>3, <2>4, <2>5, <2>8 DEF FlightsMade
    <3> QED BY <1>3, <1>4, <1>7, <1>8, <2>1, <2>2, <2>8, <3>1
  <2> QED BY <2>2, <2>6, <2>7, <2>8
<1>9. CASE x = "server"
  <2>1. p = "client" /\ x # "client"
    BY <1>9 DEF Peer
  <2>2. flights[x] \in {0, 2} /\ flights[p] \in {0, 1, 3, 4}
    BY <1>1, <1>2, <1>9, <2>1 DEF Handshaking, SSL_is_init_finished
  <2>3. flights[p] < 3 => Len(messages[p]) = FlightsMade(flights[p])
    BY <1>1, <2>1, <2>2, TlsLibraryAssumption DEF Turns, SSL_is_init_finished
  <2>4. flights[p] >= 3 => flights[x] >= 2
    BY <1>1, <1>9, <2>1 DEF Turns
  <2>5. FlightsTaken(x) = IF flights[x] < 2 THEN 0 ELSE 1
    BY <2>1, <2>2 DEF FlightsTaken
  <2>6. CASE flights[x] = 0
    <3>1. flights[p] = 1
      BY <1>6, <2>2, <2>3, <2>4, <2>5, <2>6 DEF FlightsMade
    <3>2. Len(messages[p]) = 1
      BY <2>3, <3>1 DEF FlightsMade
    <3> QED BY <1>3, <1>4, <1>7, <2>1, <2>6, <3>1, <3>2
  <2>7. CASE flights[x] = 2
    <3>1. flights[p] >= 3
      BY <1>6, <2>2, <2>3, <2>4, <2>5, <2>7 DEF FlightsMade
    <3> QED BY <1>3, <1>4, <1>7, <2>1, <2>7, <3>1
  <2> QED BY <2>2, <2>6, <2>7
<1> QED BY <1>8, <1>9 DEF Ends

(* What SSL_do_handshake() does: the client hello,                         *)
Greets(x) ==
  /\ x = "client" /\ flights[x] = 0
  /\ flights' = [flights EXCEPT ![x] = 1]
  /\ Makes(x, 1, << >>, FlightSize)
  /\ rbio' = rbio

(* ... a flight for a flight,                                              *)
Answers(x) ==
  /\ Whole(x)
  /\ Takes(x, FlightSize)
  /\ flights[x] # 3
  /\ flights' = [flights EXCEPT ![x] = flights[x] + 2]
  /\ Makes(x, flights[x] + 2, << >>, FlightSize)

(* ... the last one,                                                       *)
Finishes(x) ==
  /\ Whole(x)
  /\ Takes(x, FlightSize)
  /\ flights[x] = 3
  /\ flights' = [flights EXCEPT ![x] = 4]
  /\ messages' = messages /\ wbio' = wbio

(* ... or nothing.                                                         *)
Waits(x) ==
  /\ ~Whole(x)
  /\ flights' = flights /\ messages' = messages /\ rbio' = rbio /\ wbio' = wbio

(* A call of do_ssl_handshake() is one of these four (common.h:175-199).   *)
LEMMA HandshakeCases ==
  ASSUME NEW x \in Ends, Handshake(x)
  PROVE  /\ Greets(x) \/ Answers(x) \/ Finishes(x) \/ Waits(x)
         /\ pc[x] = "handshake"
         /\ pc' = [pc EXCEPT ![x] = IF SSL_is_init_finished(x)' THEN "decrypt" ELSE "drain"]
         /\ UNCHANGED <<net, broken, revents, encrypt_buf, write_buf, typed, entered, printed>>
  BY DEF Handshake, SSL_do_handshake, MakesFlight, ClientHello, Goto, Greets, Answers,
         Finishes, Waits

(* The flight that is made is the next of the script.                      *)
LEMMA FlightKeepsScript ==
  ASSUME Flow, Script, Told, NEW x \in Ends, NEW f \in 0 .. 4,
         Makes(x, f, << >>, FlightSize), Len(messages[x]) < 2,
         f = FlightOf(x, Len(messages[x]) + 1), UNCHANGED <<entered, encrypt_buf>>
  PROVE  /\ Script' /\ Told'
         /\ Len(messages'[x]) = Len(messages[x]) + 1
         /\ messages'[Peer(x)] = messages[Peer(x)]
<1> DEFINE m == [flight |-> f, lines |-> << >>, size |-> FlightSize]
           ms == messages[x]
<1>1. m \in Message
  BY TlsLibraryAssumption DEF Message
<1>2. /\ BioTypeOK /\ PumpTypeOK /\ ms \in Seq(Message) /\ Len(ms) \in Nat
  BY DEF Flow, BioTypeOK
<1>3. messages' = [messages EXCEPT ![x] = Append(ms, m)]
  BY DEF Makes
<1>4. messages'[x] = Append(ms, m) /\ \A e \in Ends : e # x => messages'[e] = messages[e]
  BY <1>2, <1>3 DEF BioTypeOK
<1>5. /\ Len(Append(ms, m)) = Len(ms) + 1 /\ Append(ms, m)[Len(ms) + 1] = m
      /\ \A k \in 1 .. Len(ms) : Append(ms, m)[k] = ms[k]
  BY <1>1, <1>2, AppendProperties
<1>6. Scripted(x, Len(ms) + 1, m)
  BY <1>2 DEF Scripted
<1> HIDE DEF m
<1>7. \A k \in 1 .. Len(messages'[x]) : Scripted(x, k, messages'[x][k])
  <2> SUFFICES ASSUME NEW k \in 1 .. Len(messages'[x])
               PROVE  Scripted(x, k, messages'[x][k])
    OBVIOUS
  <2>1. CASE k \in 1 .. Len(ms)
    <3>1. messages'[x][k] = ms[k]
      BY <1>4, <1>5, <2>1
    <3> QED BY <2>1, <3>1 DEF Script
  <2>2. CASE k = Len(ms) + 1
    BY <1>4, <1>5, <1>6, <2>2
  <2> QED BY <1>2, <1>4, <1>5, <2>1, <2>2
<1>8. Script'
  <2> SUFFICES ASSUME NEW e \in Ends, NEW k \in 1 .. Len(messages'[e])
               PROVE  Scripted(e, k, messages'[e][k])
    BY DEF Script, Scripted
  <2>1. CASE e = x
    BY <1>7, <2>1
  <2>2. CASE e # x
    BY <1>4, <2>2 DEF Script
  <2> QED BY <2>1, <2>2
<1>9. Told'
  <2> SUFFICES ASSUME NEW e \in Ends
               PROVE  Tells(messages'[e], entered[e], encrypt_buf[e])
    BY DEF Told
  <2>1. Tells(messages[e], entered[e], encrypt_buf[e])
    BY DEF Told
  <2>2. entered[e] \in Nat /\ encrypt_buf[e] \in Seq(Nat)
    BY <1>2 DEF PumpTypeOK
  <2>3. CASE e = x
    BY <1>1, <1>2, <1>4, <2>1, <2>2, <2>3, TellsFlight
  <2>4. CASE e # x
    BY <1>4, <2>1, <2>4
  <2> QED BY <2>3, <2>4
<1>10. messages'[Peer(x)] = messages[Peer(x)]
  BY <1>4, TwoEnds
<1> QED BY <1>4, <1>5, <1>8, <1>9, <1>10

(* Where a step of an end takes the two of them.                           *)
LEMMA TurnsThen ==
  ASSUME Turns, NEW x \in Ends, NEW p \in Ends, p # x,
         messages'[p] = messages[p], flights'[p] = flights[p],
         Len(messages'[x]) = FlightsMade(flights'[x]),
         flights'["server"] \in 0 .. 4, flights'["client"] \in 0 .. 4,
         flights'["server"] >= 2 => flights'["client"] >= 1,
         flights'["server"] = 4 => flights'["client"] >= 3,
         flights'["client"] >= 3 => flights'["server"] >= 2,
         flights'["client"] = 4 => flights'["server"] = 4
  PROVE  Turns'
<1>1. FlightsMade(flights'[x]) \in Nat
  BY DEF FlightsMade
<1>2. \A e \in Ends : e = x \/ e = p
  BY DEF Ends
<1>3. SSL_is_init_finished(p)' <=> SSL_is_init_finished(p)
  BY DEF SSL_is_init_finished
<1>4. ASSUME NEW e \in Ends
      PROVE  /\ Len(messages'[e]) >= FlightsMade(flights'[e])
             /\ ~SSL_is_init_finished(e)' => Len(messages'[e]) = FlightsMade(flights'[e])
  BY <1>1, <1>2, <1>3 DEF Turns
<1> QED BY <1>4 DEF Turns

(* The flights alternate.                                                  *)
LEMMA HandshakeKeepsTalk ==
  ASSUME Flow, Talk, Heard, NEW x \in Ends, Handshake(x)
  PROVE  Talk'
<1> DEFINE p == Peer(x)
<1>1. /\ Greets(x) \/ Answers(x) \/ Finishes(x) \/ Waits(x)
      /\ pc[x] = "handshake"
      /\ UNCHANGED <<entered, encrypt_buf>>
  BY HandshakeCases
<1>2. /\ p \in Ends /\ p # x /\ Ends = {x, p} /\ PumpTypeOK /\ Handshaking
      /\ Script /\ Told /\ Turns
  BY TwoEnds DEF Flow, Talk
<1>3. ~SSL_is_init_finished(x) /\ Len(messages[x]) = FlightsMade(flights[x])
  BY <1>1, <1>2 DEF Handshaking, Turns
<1>4. flights[x] \in IF x = "client" THEN {0, 1, 3} ELSE {0, 2}
  BY <1>2, <1>3, TlsLibraryAssumption DEF Handshaking, SSL_is_init_finished, Ends
<1>5. CASE Waits(x)
  BY <1>1, <1>5, TalkKept DEF Waits
<1>6. CASE Greets(x)
  <2>1. /\ x = "client" /\ p = "server" /\ flights[x] = 0 /\ flights'[x] = 1
        /\ flights'[p] = flights[p]
    BY <1>2, <1>6 DEF Greets, PumpTypeOK, Peer
  <2>2. Len(messages[x]) = 0
    BY <1>3, <2>1 DEF FlightsMade
  <2>3. /\ Script' /\ Told' /\ Len(messages'[x]) = 1 /\ messages'[p] = messages[p]
    <3>1. 1 = FlightOf(x, Len(messages[x]) + 1) /\ Len(messages[x]) < 2
      BY <2>1, <2>2 DEF FlightOf
    <3>2. Makes(x, 1, << >>, FlightSize) /\ 1 \in 0 .. 4
      BY <1>6 DEF Greets
    <3>3. /\ Script' /\ Told' /\ Len(messages'[x]) = Len(messages[x]) + 1
          /\ messages'[p] = messages[p]
      BY <1>1, <1>2, <3>1, <3>2, FlightKeepsScript
    <3> QED BY <2>2, <3>3
  <2>4. Turns'
    <3>1. Len(messages'[x]) = FlightsMade(flights'[x])
      BY <2>1, <2>3 DEF FlightsMade
    <3>2. flights[p] = 0
      BY <1>2, <2>1 DEF Turns, Handshaking
    <3> QED BY <1>2, <2>1, <2>3, <3>1, <3>2, TurnsThen
  <2> QED BY <2>3, <2>4 DEF Talk
<1>7. CASE Finishes(x)
  <2>1. /\ flights[x] = 3 /\ flights'[x] = 4 /\ flights'[p] = flights[p] /\ Whole(x)
        /\ messages' = messages
    BY <1>2, <1>7 DEF Finishes, PumpTypeOK
  <2>2. x = "client" /\ p = "server"
    BY <1>2, <1>4, <2>1 DEF Peer
  <2>3. flights[p] = 4
    BY <1>1, <2>1, <2>2, FlightDue
  <2>4. Script' /\ Told'
    BY <1>1, <1>2, <2>1 DEF Script, Told
  <2>5. Turns'
    <3>1. Len(messages'[x]) = FlightsMade(flights'[x])
      BY <1>3, <2>1 DEF FlightsMade
    <3> QED BY <1>2, <2>1, <2>2, <2>3, <3>1, TurnsThen
  <2> QED BY <2>4, <2>5 DEF Talk
<1>8. CASE Answers(x)
  <2>1. /\ flights[x] # 3 /\ flights'[x] = flights[x] + 2 /\ flights'[p] = flights[p] /\ Whole(x)
        /\ Makes(x, flights[x] + 2, << >>, FlightSize)
    BY <1>2, <1>8 DEF Answers, PumpTypeOK
  <2>2. /\ Len(messages[x]) < 2 /\ flights[x] + 2 \in 0 .. 4
        /\ flights[x] # 0 \/ x # "client" =>
             flights[x] + 2 = FlightOf(x, Len(messages[x]) + 1)
    BY <1>3, <1>4, <2>1 DEF FlightsMade, FlightOf
  <2>3. IF x = "client"
        THEN flights[x] = 1 /\ p = "server" /\ flights[p] = 2
        ELSE \/ flights[x] = 0 /\ p = "client" /\ flights[p] = 1
             \/ flights[x] = 2 /\ p = "client" /\ flights[p] >= 3
    BY <1>1, <2>1, FlightDue DEF Peer
  <2>4. Script' /\ Told' /\ Len(messages'[x]) = Len(messages[x]) + 1 /\ messages'[p] = messages[p]
    <3>1. flights[x] + 2 = FlightOf(x, Len(messages[x]) + 1)
      BY <2>2, <2>3
    <3> QED BY <1>1, <1>2, <2>1, <2>2, <3>1, FlightKeepsScript
  <2>5. Len(messages'[x]) = FlightsMade(flights'[x])
    BY <1>3, <1>4, <2>1, <2>3, <2>4 DEF FlightsMade
  <2>6. CASE x = "client"
    <3>1. Turns'
      BY <1>2, <2>1, <2>3, <2>4, <2>5, <2>6, TurnsThen
    <3> QED BY <2>4, <3>1 DEF Talk
  <2>7. CASE x = "server"
    <3>1. /\ flights[p] \in {1, 3, 4} /\ x # "client"
          /\ flights[x] = 2 => flights[p] >= 3
          /\ flights[x] = 0 => flights[p] = 1
      BY <1>2, <2>3, <2>7 DEF Handshaking
    <3>2. flights[p] = 4 => flights[x] = 4
      BY <1>2, <2>3, <2>7 DEF Turns
    <3>3. flights'[p] # 4
      BY <1>4, <2>1, <3>1, <3>2
    <3>4. Turns'
      BY <1>2, <2>1, <2>3, <2>4, <2>5, <2>7, <3>1, <3>3, TurnsThen
    <3> QED BY <2>4, <3>4 DEF Talk
  <2> QED BY <2>6, <2>7 DEF Ends
<1> QED BY <1>1, <1>5, <1>6, <1>7, <1>8

(* Whoever has not finished has taken all there was.                       *)
LEMMA HandshakeKeepsHeard ==
  ASSUME Flow, Flow', Talk, Heard, Quiet, NEW x \in Ends, Handshake(x)
  PROVE  Heard' /\ Quiet'
<1> DEFINE p == Peer(x)
<1>1. /\ Greets(x) \/ Answers(x) \/ Finishes(x) \/ Waits(x)
      /\ pc[x] = "handshake"
      /\ pc' = [pc EXCEPT ![x] = IF SSL_is_init_finished(x)' THEN "decrypt" ELSE "drain"]
      /\ UNCHANGED <<net, write_buf, printed>>
  BY HandshakeCases
<1>2. /\ p \in Ends /\ p # x /\ Ends = {x, p} /\ Peer(p) = x /\ BioTypeOK /\ PumpTypeOK
      /\ Handshaking /\ HeardBy(x) /\ HeardBy(p) /\ QuietAt(p)
      /\ messages[p] \in Seq(Message) /\ Len(messages[p]) \in Nat
  BY TwoEnds, StreamOf DEF Flow, Heard, Quiet
<1>3. ~SSL_is_init_finished(x) /\ Up(x)
  BY <1>1, <1>2 DEF Handshaking, Up
<1>4. GoesOn(x) /\ (rbio' = rbio => GoesOn(p))
  BY HandshakeKeepsFlow
<1>5. /\ flights'[p] = flights[p] /\ rbio'[p] = rbio[p] /\ wbio'[p] = wbio[p]
      /\ pc'[p] = pc[p] /\ messages'[p] = messages[p]
      /\ pc'[x] = IF SSL_is_init_finished(x)' THEN "decrypt" ELSE "drain"
  BY <1>1, <1>2 DEF Greets, Answers, Finishes, Waits, Makes, Takes, PumpTypeOK, BioTypeOK
<1>6. HeardBy(p)' /\ QuietAt(p)'
  <2>1. Up(p)' => Up(p)
    BY <1>5 DEF Up
  <2>2. HeardBy(p)'
    BY <1>1, <1>2, <1>4, <1>5, <2>1, HeardKept
  <2>3. Grows(x)
    BY <1>4 DEF GoesOn, Grows
  <2>4. QuietAt(p)'
    BY <1>2, <1>5, <2>3, QuietKept
  <2> QED BY <2>2, <2>4
<1>7. CASE Whole(x) /\ ~Greets(x)
  <2>1. Takes(x, FlightSize) /\ (flights'[x] = 4 \/ Answers(x))
    BY <1>1, <1>2, <1>7 DEF Answers, Finishes, Waits, PumpTypeOK
  <2>2. /\ Due(x) = FlightSize
        /\ rbio[x][1] = <<FlightsTaken(x) + 1, 1>>
        /\ IF x = "client"
           THEN \/ flights[x] = 1 /\ flights["server"] = 2 /\ Len(messages["server"]) = 1
                \/ flights[x] = 3 /\ flights["server"] = 4 /\ ClientDone = 4
           ELSE \/ flights[x] = 0 /\ flights["client"] = 1 /\ Len(messages["client"]) = 1
                \/ flights[x] = 2 /\ flights["client"] >= 3
    BY <1>1, <1>7, FlightDue
  <2>3. Awaited(x)' = <<rbio[x][1][1] + 1, 1>>
    <3>1. FlightSize \in 1 .. Due(x)
      BY <2>2, TlsLibraryAssumption
    <3> QED BY <1>1, <1>3, <1>5, <1>7, <2>1, <2>2, <3>1, AwaitedTakes
  <2>4. Awaited(x) = rbio[x][1]
    BY <1>7, AwaitedFirst DEF Whole
  <2>5. /\ flights[x] = 3 => flights'[x] = 4
        /\ flights[x] # 3 => flights'[x] = flights[x] + 2
    BY <1>1, <1>2, <1>7 DEF Answers, Finishes, Waits, PumpTypeOK
  <2>6. /\ FlightsTaken(x) \in {0, 1} /\ FlightsTaken(x)' = FlightsTaken(x) + 1
        /\ ~SSL_is_init_finished(x)' => FlightsTaken(x) = 0 /\ Len(messages[p]) = 1
    <3>1. CASE x = "client"
      <4>1. p = "server"
        BY <3>1 DEF Peer
      <4>2. CASE flights[x] = 1
        BY <2>2, <2>5, <3>1, <4>1, <4>2 DEF FlightsTaken
      <4>3. CASE flights[x] = 3
        BY <2>2, <2>5, <3>1, <4>1, <4>3 DEF FlightsTaken, SSL_is_init_finished
      <4> QED BY <2>2, <3>1, <4>2, <4>3
    <3>2. CASE x = "server"
      <4>1. p = "client" /\ x # "client"
        BY <3>2 DEF Peer
      <4>2. CASE flights[x] = 0
        BY <2>2, <2>5, <3>2, <4>1, <4>2 DEF FlightsTaken
      <4>3. CASE flights[x] = 2
        BY <2>2, <2>5, <3>2, <4>1, <4>3 DEF FlightsTaken, SSL_is_init_finished
      <4> QED BY <2>2, <4>1, <4>2, <4>3
    <3> QED BY <3>1, <3>2 DEF Ends
  <2>7. HeardBy(x)'
    <3>1. printed[x] = From(0, Upto(messages[p], Awaited(x)[1] - 1))
      BY <1>2, <1>3 DEF HeardBy
    <3>2. Upto(messages[p], Awaited(x)[1] - 1) = 0
      BY <2>2, <2>4, <2>6 DEF Upto
    <3>3. Upto(messages[p], Awaited(x)'[1] - 1) = 0
      BY <2>2, <2>3, <2>6 DEF Upto
    <3>4. printed'[x] = From(0, Upto(messages'[p], Awaited(x)'[1] - 1))
      BY <1>1, <1>5, <3>1, <3>2, <3>3
    <3>5. Awaited(x)' = <<FlightsTaken(x)' + 1, 1>>
      BY <2>2, <2>3, <2>6
    <3> QED BY <3>4, <3>5 DEF HeardBy
  <2>8. ~SSL_is_init_finished(x)' => ~Whole(x)'
    <3> SUFFICES ASSUME ~SSL_is_init_finished(x)', rbio'[x] # << >>
                 PROVE  FALSE
      BY DEF Whole
    <3>1. Awaited(x)' = rbio'[x][1] /\ rbio'[x][1][1] \in 1 .. Len(messages'[p])
      <4>1. FirstIsAwaited'
        BY FlowAwaits, PTL
      <4> QED BY <4>1 DEF FirstIsAwaited
    <3>2. rbio'[x][1][1] = 2 /\ Len(messages'[p]) = 1
      BY <1>5, <2>2, <2>3, <2>6, <3>1
    <3> QED BY <3>1, <3>2
  <2>9. QuietAt(x)'
    BY <1>5, <2>8 DEF QuietAt
  <2> QED BY <1>2, <1>6, <2>7, <2>9 DEF Heard, Quiet
<1>8. CASE Waits(x)
  <2>1. flights' = flights /\ rbio' = rbio /\ messages' = messages /\ ~Whole(x)
    BY <1>8 DEF Waits
  <2>2. HeardBy(x)'
    BY <1>1, <1>2, <1>3, <1>4, <2>1, HeardKept
  <2>3. ~Whole(x)'
    BY <2>1 DEF Whole, Due, Front
  <2>4. QuietAt(x)'
    BY <1>5, <2>1, <2>3 DEF QuietAt, SSL_is_init_finished
  <2> QED BY <1>2, <1>6, <2>2, <2>4 DEF Heard, Quiet
<1>9. CASE Greets(x)
  <2>1. /\ x = "client" /\ p = "server" /\ flights[x] = 0 /\ flights'[x] = 1 /\ rbio' = rbio
    BY <1>2, <1>9 DEF Greets, PumpTypeOK, Peer
  <2>2. Awaited(x)' = Awaited(x)
    BY <1>4, <2>1, AwaitedKept
  <2>3. FlightsTaken(x)' = FlightsTaken(x)
    BY <2>1 DEF FlightsTaken
  <2>4. HeardBy(x)'
    BY <1>1, <1>2, <1>3, <1>5, <2>2, <2>3 DEF HeardBy
  <2>5. ~Whole(x)
    BY <1>1, <2>1, FlightDue
  <2>6. ~Whole(x)'
    BY <1>5, <2>1, <2>5 DEF Whole, Due, Front
  <2>7. ~SSL_is_init_finished(x)'
    BY <2>1, TlsLibraryAssumption DEF SSL_is_init_finished
  <2>8. QuietAt(x)'
    BY <1>5, <2>6, <2>7 DEF QuietAt
  <2> QED BY <1>2, <1>6, <2>4, <2>8 DEF Heard, Quiet
<1>10. (Whole(x) /\ ~Greets(x)) \/ Waits(x) \/ Greets(x)
  BY <1>1 DEF Answers, Finishes
<1> QED BY <1>7, <1>8, <1>9, <1>10

-----------------------------------------------------------------------------
(* Records *)

(* With a message more, the lines of that message more.                    *)
LEMMA LinesUpto ==
  ASSUME NEW ms \in Seq(Message), NEW n \in Nat, NEW buf, Tells(ms, n, buf),
         NEW k \in 1 .. Len(ms), k <= 2 => ms[k].lines = << >>
  PROVE  From(0, Upto(ms, k - 1)) \o ms[k].lines = From(0, Upto(ms, k))
<1> DEFINE a == Upto(ms, k - 1)
           b == Len(ms[k].lines)
<1>1. ms[k].lines \in Seq(Nat) /\ b \in Nat
  <2>1. ms[k] \in Message
    OBVIOUS
  <2> QED BY <2>1 DEF Message
<1>2. a \in Nat
  <2>1. k - 1 \in 0 .. Len(ms)
    OBVIOUS
  <2>2. a \in 0 .. n
    BY <2>1 DEF Tells
  <2> QED BY <2>2
<1>3. CASE k <= 2
  <2>1. a = 0 /\ Upto(ms, k) = 0 /\ ms[k].lines = << >>
    BY <1>3 DEF Upto
  <2>2. From(0, 0) \in Seq(Nat)
    BY FromType
  <2>3. From(0, 0) \o << >> = From(0, 0)
    BY <2>2, ConcatEmptySeq
  <2> QED BY <2>1, <2>3
<1>4. CASE k > 2
  <2>1. k \in 3 .. Len(ms)
    BY <1>4
  <2>2. ms[k].lines # << >> /\ ms[k].lines = From(a, b)
    BY <2>1 DEF Tells
  <2>3. b \in 1 .. b
    BY <1>1, <2>2
  <2>4. Upto(ms, k) = ms[k].lines[b]
    BY <1>4 DEF Upto
  <2> HIDE DEF a, b
  <2>5. From(a, b)[b] = a + b
    BY <1>1, <1>2, <2>3, FromType
  <2>6. Upto(ms, k) = a + b
    BY <2>2, <2>4, <2>5
  <2>7. From(0, a) \o From(a, b) = From(0, a + b)
    BY <1>1, <1>2, FromConcat
  <2>8. From(0, a) \o ms[k].lines = From(0, Upto(ms, k))
    BY <2>2, <2>6, <2>7
  <2> QED BY <2>8 DEF a
<1>5. k <= 2 \/ k > 2
  OBVIOUS
<1> QED BY <1>3, <1>4, <1>5, Zenon

(* What SSL_read() takes, SSL_write() has put there.                       *)
LEMMA DecryptKeepsHeard ==
  ASSUME Flow, Talk, Heard, Quiet, NEW x \in Ends, Decrypt(x)
  PROVE  Talk' /\ Heard' /\ Quiet'
<1> DEFINE p == Peer(x)
           k == rbio[x][1][1]
           n == Least(DEFAULT_BUF_SIZE, Due(x))
           ms == messages[p]
<1>1. /\ pc[x] = "decrypt" /\ Whole(x)
      /\ Takes(x, n)
      /\ flights' = [flights EXCEPT ![x] = IF Front(x).flight = 4 THEN 4 ELSE @]
      /\ printed' = [printed EXCEPT ![x] = @ \o LinesRead(x, DEFAULT_BUF_SIZE)]
      /\ UNCHANGED <<messages, wbio, net, pc, encrypt_buf, write_buf, entered>>
  BY DEF Decrypt, Reads, SSL_read
<1>2. /\ p \in Ends /\ p # x /\ Ends = {x, p} /\ Peer(p) = x /\ BioTypeOK /\ PumpTypeOK
      /\ Handshaking /\ HeardBy(x) /\ HeardBy(p) /\ QuietAt(x) /\ QuietAt(p)
      /\ Script /\ Told /\ Turns
      /\ ms \in Seq(Message) /\ Len(ms) \in Nat
  BY TwoEnds, StreamOf DEF Flow, Heard, Quiet, Talk
<1>3. SSL_is_init_finished(x) /\ Up(x) /\ rbio[x] # << >>
  BY <1>1, <1>2 DEF QuietAt, Up, Whole
<1>4. /\ Awaited(x) = rbio[x][1] /\ k \in 1 .. Len(ms)
      /\ Front(x) = ms[k] /\ Front(x) \in Message
      /\ Due(x) \in Nat \ {0}
  <2>1. /\ Awaited(x) = rbio[x][1] /\ k \in 1 .. Len(ms) /\ Front(x) \in Message
        /\ rbio[x][1][2] \in 1 .. Front(x).size
    BY <1>3, AwaitedFirst
  <2>2. Front(x) = ms[k]
    BY DEF Front
  <2>3. Due(x) \in Nat \ {0}
    <3>1. Front(x).size \in Nat
      BY <2>1 DEF Message
    <3> QED BY <2>1, <3>1 DEF Due
  <2> QED BY <2>1, <2>2, <2>3
<1>5. n \in 1 .. Due(x) /\ (n = Due(x) <=> Due(x) <= DEFAULT_BUF_SIZE)
  BY <1>4, SslPumpAssumption DEF Least
<1>6. Awaited(x)' = IF n = Due(x) THEN <<k + 1, 1>> ELSE <<k, rbio[x][1][2] + n>>
  BY <1>1, <1>3, <1>5, AwaitedTakes
<1>7. /\ flights'[p] = flights[p] /\ rbio'[p] = rbio[p] /\ printed'[p] = printed[p]
      /\ printed'[x] = printed[x] \o LinesRead(x, DEFAULT_BUF_SIZE)
      /\ flights'[x] = IF Front(x).flight = 4 THEN 4 ELSE flights[x]
  BY <1>1, <1>2 DEF Takes, PumpTypeOK, BioTypeOK
<1>8. SSL_is_init_finished(x)' /\ (SSL_is_init_finished(p)' <=> SSL_is_init_finished(p))
  BY <1>2, <1>3, <1>7, TlsLibraryAssumption DEF SSL_is_init_finished
<1>9. GoesOn(x)
  BY DecryptKeepsFlow
<1>10. HeardBy(p)' /\ QuietAt(p)'
  <2>1. HeardBy(p)'
    BY <1>1, <1>2, <1>7, <1>9, HeardKept DEF Up
  <2>2. Grows(x)
    BY <1>9 DEF GoesOn, Grows
  <2>3. QuietAt(p)'
    BY <1>1, <1>2, <1>7, <2>2, QuietKept
  <2> QED BY <2>1, <2>3
<1>11. printed[x] = From(0, Upto(ms, k - 1))
  BY <1>2, <1>3, <1>4 DEF HeardBy
<1>12. HeardBy(x)'
  <2>1. printed'[x] = From(0, Upto(ms, Awaited(x)'[1] - 1))
    <3>1. CASE n = Due(x)
      <4>1. LinesRead(x, DEFAULT_BUF_SIZE) = ms[k].lines
        BY <1>4, <1>5, <3>1 DEF LinesRead
      <4>2. Awaited(x)'[1] - 1 = k
        BY <1>4, <1>6, <3>1
      <4>3. entered[p] \in Nat /\ Tells(ms, entered[p], encrypt_buf[p])
        BY <1>2 DEF Told, PumpTypeOK
      <4>4. k <= 2 => ms[k].lines = << >>
        <5>1. Scripted(p, k, ms[k])
          BY <1>2, <1>4 DEF Script
        <5> QED BY <5>1 DEF Scripted
      <4> HIDE DEF ms, k
      <4>5. From(0, Upto(ms, k - 1)) \o ms[k].lines = From(0, Upto(ms, k))
        BY <1>2, <1>4, <4>3, <4>4, LinesUpto
      <4> QED BY <1>7, <1>11, <4>1, <4>2, <4>5
    <3>2. CASE n # Due(x)
      <4>1. LinesRead(x, DEFAULT_BUF_SIZE) = << >>
        BY <1>5, <3>2 DEF LinesRead
      <4>2. Awaited(x)'[1] = k
        BY <1>6, <3>2
      <4>3. printed[x] \in Seq(Nat)
        BY <1>2 DEF PumpTypeOK
      <4>4. printed[x] \o << >> = printed[x]
        BY <4>3, ConcatEmptySeq
      <4> QED BY <1>7, <1>11, <4>1, <4>2, <4>4
    <3> QED BY <3>1, <3>2
  <2> QED BY <1>1, <1>8, <2>1 DEF HeardBy
<1>13. QuietAt(x)'
  BY <1>1, <1>8 DEF QuietAt
<1>14. Talk'
  <2>1. Script' /\ Told'
    BY <1>1, <1>2 DEF Script, Told
  <2>2. CASE flights'[x] = flights[x]
    <3>1. flights' = flights
      BY <1>1, <1>2, <2>2 DEF PumpTypeOK
    <3> QED BY <1>1, <3>1, TalkKept
  <2>3. CASE flights'[x] # flights[x]
    <3>1. ms[k].flight = 4 /\ flights'[x] = 4
      BY <1>4, <1>7, <2>3
    <3>2. x = "client" /\ p = "server" /\ k = 2
      <4>1. Scripted(p, k, ms[k])
        BY <1>2, <1>4 DEF Script
      <4>2. k <= 2 /\ FlightOf(p, k) = 4
        BY <1>4, <3>1, <4>1 DEF Scripted
      <4>3. p # "client"
        BY <1>4, <4>2 DEF FlightOf
      <4>4. p = "server" /\ k = 2
        BY <1>2, <1>4, <4>2, <4>3 DEF FlightOf, Ends
      <4> QED BY <1>2, <4>4 DEF Ends
    <3>3. flights[p] = 4
      <4>1. Len(ms) >= 2
        BY <1>2, <1>4, <3>2
      <4>2. flights[p] \in {0, 2, 4}
        BY <1>2, <3>2 DEF Handshaking
      <4>3. flights[p] # 4 => Len(ms) = FlightsMade(flights[p])
        BY <1>2, <3>2, <4>2 DEF Turns, SSL_is_init_finished
      <4> QED BY <4>1, <4>2, <4>3 DEF FlightsMade
    <3>4. flights[x] >= 3 /\ flights[x] \in {0, 1, 3, 4}
      BY <1>2, <3>2, <3>3 DEF Turns, Handshaking
    <3>5. FlightsMade(flights[x]) = 2 /\ FlightsMade(flights'[x]) = 2
      BY <3>1, <3>4 DEF FlightsMade
    <3>6. \A e \in Ends :
            /\ Len(messages'[e]) >= FlightsMade(flights'[e])
            /\ ~SSL_is_init_finished(e)' => Len(messages'[e]) = FlightsMade(flights'[e])
      <4>1. /\ Len(messages'[x]) >= FlightsMade(flights'[x])
            /\ ~SSL_is_init_finished(x)' => Len(messages'[x]) = FlightsMade(flights'[x])
        BY <1>1, <1>2, <1>8, <3>5 DEF Turns
      <4>2. /\ Len(messages'[p]) >= FlightsMade(flights'[p])
            /\ ~SSL_is_init_finished(p)' => Len(messages'[p]) = FlightsMade(flights'[p])
        BY <1>1, <1>2, <1>7, <1>8 DEF Turns
      <4> QED BY <1>2, <4>1, <4>2
    <3>7. Turns'
      BY <1>7, <3>1, <3>2, <3>3, <3>6 DEF Turns
    <3> QED BY <2>1, <3>7 DEF Talk
  <2> QED BY <2>2, <2>3
<1> QED BY <1>2, <1>10, <1>12, <1>13, <1>14 DEF Heard, Quiet

(* A record is made of all the lines there are, after the handshake.       *)
LEMMA EncryptKeepsHeard ==
  ASSUME Flow, Talk, Heard, Quiet, NEW x \in Ends, Encrypt(x)
  PROVE  Talk' /\ Heard' /\ Quiet'
<1> DEFINE p == Peer(x)
           ms == messages[x]
           buf == encrypt_buf[x]
           m == [flight |-> 0, lines |-> buf, size |-> Len(buf) + 1]
<1>1. /\ pc[x] = "loop" /\ SSL_is_init_finished(x) /\ buf # << >>
      /\ Makes(x, 0, buf, Len(buf) + 1)
      /\ UNCHANGED <<flights, rbio>>
      /\ encrypt_buf' = [encrypt_buf EXCEPT ![x] = << >>]
      /\ pc' = [pc EXCEPT ![x] = "drain"]
      /\ UNCHANGED <<net, write_buf, entered, printed>>
  BY DEF Encrypt, Encrypts, Bottom, SSL_write, Goto
<1>2. /\ p \in Ends /\ p # x /\ Ends = {x, p} /\ Peer(p) = x /\ BioTypeOK /\ PumpTypeOK
      /\ Handshaking /\ HeardBy(x) /\ HeardBy(p) /\ QuietAt(x) /\ QuietAt(p)
      /\ Script /\ Told /\ Turns
      /\ ms \in Seq(Message) /\ Len(ms) \in Nat
  BY TwoEnds, StreamOf DEF Flow, Heard, Quiet, Talk
<1>3. /\ GoesOn(x) /\ GoesOn(p)
  BY EncryptKeepsFlow
<1>4. buf \in Seq(Nat) /\ m \in Message /\ entered[x] \in Nat
  <2>1. buf \in Seq(Nat) /\ entered[x] \in Nat
    BY <1>2 DEF PumpTypeOK
  <2>2. Len(buf) + 1 \in Nat \ {0}
    BY <2>1
  <2> QED BY <2>1, <2>2 DEF Message
<1>5. /\ messages' = [messages EXCEPT ![x] = Append(ms, m)]
      /\ wbio'[p] = wbio[p] /\ messages'[x] = Append(ms, m) /\ messages'[p] = messages[p]
      /\ pc'[x] = "drain" /\ pc'[p] = pc[p]
      /\ encrypt_buf'[x] = << >> /\ encrypt_buf'[p] = encrypt_buf[p]
  BY <1>1, <1>2 DEF Makes, BioTypeOK, PumpTypeOK
<1>6. Len(ms) >= 2
  <2>1. flights[x] \in 3 .. 4
    BY <1>1, <1>2, TlsLibraryAssumption DEF PumpTypeOK, SSL_is_init_finished
  <2> QED BY <1>2, <2>1 DEF Turns, FlightsMade
<1>7. /\ Len(Append(ms, m)) = Len(ms) + 1 /\ Append(ms, m)[Len(ms) + 1] = m
      /\ \A k \in 1 .. Len(ms) : Append(ms, m)[k] = ms[k]
      /\ m.flight = 0 /\ m.lines = buf
  BY <1>2, <1>4, AppendProperties
<1> HIDE DEF m
<1>8. Script'
  <2>1. \A k \in 1 .. Len(messages'[x]) : Scripted(x, k, messages'[x][k])
    <3> SUFFICES ASSUME NEW k \in 1 .. Len(messages'[x])
                 PROVE  Scripted(x, k, messages'[x][k])
      OBVIOUS
    <3>1. CASE k \in 1 .. Len(ms)
      <4>1. messages'[x][k] = ms[k]
        BY <1>5, <1>7, <3>1
      <4> QED BY <1>2, <3>1, <4>1 DEF Script
    <3>2. CASE k = Len(ms) + 1
      BY <1>2, <1>5, <1>6, <1>7, <3>2 DEF Scripted
    <3> QED BY <1>2, <1>5, <1>7, <3>1, <3>2
  <2>2. \A k \in 1 .. Len(messages'[p]) : Scripted(p, k, messages'[p][k])
    BY <1>2, <1>5 DEF Script
  <2> QED BY <1>2, <2>1, <2>2 DEF Script, Scripted
<1>9. Told'
  <2>1. Tells(Append(ms, m), entered[x], << >>)
    <3>1. Tells(ms, entered[x], buf)
      BY <1>2 DEF Told
    <3> HIDE DEF ms, buf
    <3> QED BY <1>1, <1>2, <1>4, <1>6, <1>7, <3>1, TellsRecord
  <2>2. Tells(messages[p], entered[p], encrypt_buf[p])
    BY <1>2 DEF Told
  <2> QED BY <1>1, <1>2, <1>5, <2>1, <2>2 DEF Told
<1>10. Turns'
  <2>1. \A e \in Ends : SSL_is_init_finished(e)' <=> SSL_is_init_finished(e)
    BY <1>1 DEF SSL_is_init_finished
  <2>2. /\ Len(messages'[x]) >= FlightsMade(flights'[x])
        /\ ~SSL_is_init_finished(x)' => Len(messages'[x]) = FlightsMade(flights'[x])
    <3>1. Len(ms) >= FlightsMade(flights[x]) /\ FlightsMade(flights[x]) \in Nat
      BY <1>2 DEF Turns, FlightsMade
    <3> QED BY <1>1, <1>2, <1>5, <1>7, <2>1, <3>1
  <2>3. /\ Len(messages'[p]) >= FlightsMade(flights'[p])
        /\ ~SSL_is_init_finished(p)' => Len(messages'[p]) = FlightsMade(flights'[p])
    BY <1>1, <1>2, <1>5, <2>1 DEF Turns
  <2> QED BY <1>1, <1>2, <2>2, <2>3 DEF Turns
<1>11. Heard'
  <2>1. Up(x) /\ (Up(p)' => Up(p))
    BY <1>1, <1>5 DEF Up
  <2>2. HeardBy(x)' /\ HeardBy(p)'
    BY <1>1, <1>2, <1>3, <2>1, HeardKept
  <2> QED BY <1>2, <2>2 DEF Heard
<1>12. Quiet'
  <2>1. Grows(x) /\ Grows(p)
    BY <1>3 DEF GoesOn, Grows
  <2>2. QuietAt(p)'
    BY <1>1, <1>2, <1>5, <2>1, QuietKept
  <2>3. ~Whole(x)'
    BY <1>1, <1>2, <2>1, WholeKept DEF QuietAt
  <2>4. QuietAt(x)'
    BY <1>5, <2>3 DEF QuietAt
  <2> QED BY <1>2, <2>2, <2>4 DEF Quiet
<1> QED BY <1>8, <1>9, <1>10, <1>11, <1>12 DEF Talk

-----------------------------------------------------------------------------
(* The loop and the user *)

(* Nothing is said or heard by what only moves pieces, or an end away.     *)
LEMMA MovesKeepHeard ==
  ASSUME Flow, Talk, Heard, Quiet, NEW x \in Ends,
         \/ WantIO(x) \/ Drain(x) \/ Poll(x) \/ SockRead(x) \/ SockWrite(x)
         \/ SockWriteLost(x) \/ Close(x) \/ Type(x),
         Keys
  PROVE  Talk' /\ Heard' /\ Quiet'
<1> DEFINE p == Peer(x)
<1>1. UNCHANGED <<flights, messages, entered, encrypt_buf, printed>>
  BY DEF WantIO, Decrypted, Drain, Poll, SockRead, SockWrite, Writes, SockWriteLost, Close,
         Type, tlsVars
<1>2. /\ p \in Ends /\ p # x /\ Ends = {x, p} /\ Peer(p) = x /\ BioTypeOK /\ PumpTypeOK
      /\ HeardBy(x) /\ HeardBy(p) /\ QuietAt(x) /\ QuietAt(p)
  BY TwoEnds DEF Flow, Heard, Quiet
<1>3. Talk'
  BY <1>1, TalkKept
<1>4. pc'[p] = pc[p] /\ wbio'[p] = wbio[p] /\ rbio'[p] = rbio[p]
  BY <1>2 DEF WantIO, Decrypted, Drain, Poll, SockRead, Receive, SockWrite, Writes,
              SockWriteLost, Close, Type, tlsVars, Goto, on_read_cb, BioTypeOK, PumpTypeOK
<1>5. \A e \in Ends : Grows(e)
  BY <1>1 DEF Grows
<1>6. QuietAt(p)'
  BY <1>1, <1>2, <1>4, <1>5, QuietKept
<1>7. QuietAt(x)'
  <2>1. CASE SockRead(x)
    <3>1. pc'[x] = IF SSL_is_init_finished(x) THEN "decrypt" ELSE "handshake"
      BY <1>2, <2>1 DEF SockRead, on_read_cb, Goto, PumpTypeOK
    <3> QED BY <1>1, <3>1 DEF QuietAt, SSL_is_init_finished
  <2>2. CASE Close(x)
    <3>1. pc'[x] = "closed"
      BY <1>2, <2>2 DEF Close, Goto, PumpTypeOK
    <3> QED BY <3>1 DEF QuietAt
  <2>3. CASE WantIO(x)
    <3>1. pc'[x] = "drain" /\ ~Whole(x) /\ rbio' = rbio
      BY <1>2, <2>3 DEF WantIO, Decrypted, Goto, PumpTypeOK, tlsVars
    <3>2. ~Whole(x)'
      BY <1>2, <1>5, <3>1, WholeKept
    <3> QED BY <3>1, <3>2 DEF QuietAt
  <2>4. CASE Drain(x)
    <3>1. pc[x] = "drain" /\ pc'[x] = "loop" /\ rbio' = rbio /\ wbio'[x] = << >>
      BY <1>2, <2>4 DEF Drain, Goto, PumpTypeOK, BioTypeOK
    <3>2. ~Whole(x)'
      BY <1>2, <1>5, <3>1, WholeKept DEF QuietAt
    <3> QED BY <3>1, <3>2 DEF QuietAt
  <2>5. CASE Poll(x) \/ SockWrite(x) \/ SockWriteLost(x) \/ Type(x)
    <3>1. pc' = pc /\ rbio' = rbio /\ wbio' = wbio
      BY <2>5 DEF Poll, SockWrite, Writes, SockWriteLost, Type, tlsVars
    <3> QED BY <1>1, <1>2, <1>5, <3>1, QuietKept
  <2> QED BY <2>1, <2>2, <2>3, <2>4, <2>5
<1>8. \A e \in Ends : Up(e)' => Up(e) /\ GoesOn(Peer(e))
  <2>1. \A e \in Ends : Up(e)' => Up(e)
    <3>1. Up(p)' => Up(p)
      BY <1>4 DEF Up
    <3>2. Up(x)' => Up(x)
      BY <1>2 DEF WantIO, Decrypted, Drain, Poll, SockRead, Handles, SockWrite, Writes,
                  SockWriteLost, Close, Type, Goto, Up, PumpTypeOK
    <3> QED BY <1>2, <3>1, <3>2
  <2>2. CASE Drain(x) \/ SockRead(x) \/ SockWrite(x)
    <3>1. GoesOn(x) /\ GoesOn(p)
      BY <2>2, DrainKeepsFlow, SockReadKeepsFlow, SockWriteKeepsFlow
    <3> QED BY <1>2, <2>1, <3>1
  <2>3. CASE WantIO(x) \/ Poll(x) \/ Type(x)
    <3>1. \A e \in Ends : GoesOn(e)
      BY <2>3, OthersKeepFlow
    <3> QED BY <1>2, <2>1, <3>1
  <2>4. CASE SockWriteLost(x) \/ Close(x)
    <3>1. \A e \in Ends : Up(Peer(e))' => GoesOn(e)
      BY <2>4, LossKeepsFlow
    <3>2. /\ Up(x)' => GoesOn(p)
          /\ Up(p)' => GoesOn(x)
      BY <1>2, <3>1
    <3> QED BY <1>2, <2>1, <3>2
  <2> QED BY <2>2, <2>3, <2>4
<1>9. HeardBy(x)' /\ HeardBy(p)'
  BY <1>1, <1>2, <1>8, HeardKept
<1> QED BY <1>2, <1>3, <1>6, <1>7, <1>9 DEF Heard, Quiet

(* A line that is read is one that is still to be said.                    *)
LEMMA StdinReadKeepsHeard ==
  ASSUME Flow, Talk, Heard, Quiet, NEW x \in Ends, StdinRead(x), Keys
  PROVE  Talk' /\ Heard' /\ Quiet'
<1> DEFINE p == Peer(x)
<1>1. /\ UNCHANGED <<flights, messages, rbio, wbio, pc, printed>>
      /\ entered' = [entered EXCEPT ![x] = @ + 1]
      /\ encrypt_buf' = [encrypt_buf EXCEPT ![x] = Append(@, entered'[x])]
  BY DEF StdinRead, Enters, send_unencrypted_bytes, tlsVars
<1>2. /\ BioTypeOK /\ PumpTypeOK /\ Script /\ Told /\ Turns
  BY DEF Flow, Talk
<1>3. Told'
  <2> SUFFICES ASSUME NEW e \in Ends
               PROVE  Tells(messages[e], entered'[e], encrypt_buf'[e])
    BY <1>1 DEF Told
  <2>1. /\ Tells(messages[e], entered[e], encrypt_buf[e])
        /\ messages[e] \in Seq(Message) /\ entered[e] \in Nat /\ encrypt_buf[e] \in Seq(Nat)
    BY <1>2 DEF Told, BioTypeOK, PumpTypeOK
  <2>2. CASE e = x
    <3>1. entered'[e] = entered[e] + 1 /\ encrypt_buf'[e] = Append(encrypt_buf[e], entered[e] + 1)
      BY <1>1, <1>2, <2>2 DEF PumpTypeOK
    <3>2. Tells(messages[e], entered[e] + 1, Append(encrypt_buf[e], entered[e] + 1))
      BY <2>1, TellsEntered
    <3> QED BY <3>1, <3>2
  <2>3. CASE e # x
    BY <1>1, <1>2, <2>1, <2>3 DEF PumpTypeOK
  <2> QED BY <2>2, <2>3
<1>4. Script' /\ Turns'
  BY <1>1, <1>2 DEF Script, Turns, SSL_is_init_finished
<1>5. \A e \in Ends : GoesOn(e) /\ Grows(e)
  BY <1>1, OthersKeepFlow DEF Grows
<1>6. Quiet'
  BY <1>1, <1>5, TwoEnds, QuietKept DEF Quiet
<1>7. Heard'
  BY <1>1, <1>5, TwoEnds, HeardKept DEF Heard, Up
<1> QED BY <1>3, <1>4, <1>6, <1>7 DEF Talk

-----------------------------------------------------------------------------
(* The invariant *)

IInv == Flow /\ Keys /\ Talk /\ Heard /\ Quiet

(* Steps that change none of the variables change no part of it.           *)
LEMMA StutterKeepsIInv ==
  ASSUME IInv, UNCHANGED vars
  PROVE  IInv'
<1>1. UNCHANGED <<flights, messages, rbio, wbio, net, broken>>
  BY DEF vars, tlsVars
<1>2. UNCHANGED <<pc, revents, encrypt_buf, write_buf, typed, entered, printed>>
  BY DEF vars, pumpVars
<1>3. UNCHANGED <<BioTypeOK, PumpTypeOK>>
  BY <1>1, <1>2 DEF BioTypeOK, PumpTypeOK
<1>4. UNCHANGED <<Handshaking, Keys>>
  BY <1>1, <1>2 DEF Handshaking, SSL_is_init_finished, Keys
<1>5. UNCHANGED <<AllMade, Chained>>
  BY <1>1, <1>2 DEF AllMade, Chained, InChain, Up
<1>6. UNCHANGED <<Script, Told, Turns>>
  BY <1>1, <1>2 DEF Script, Told, Turns, SSL_is_init_finished
<1>7. UNCHANGED Heard
  BY <1>1, <1>2 DEF Heard, HeardBy, Up, SSL_is_init_finished, Awaited, Stream, FlightsTaken
<1>8. UNCHANGED Quiet
  BY <1>1, <1>2 DEF Quiet, QuietAt, Whole, Due, Front, SSL_is_init_finished
<1> QED BY <1>3, <1>4, <1>5, <1>6, <1>7, <1>8 DEF IInv, Flow, Talk

(* Every action keeps every part.                                          *)
LEMMA StepKeepsIInv ==
  ASSUME IInv, [Next]_vars
  PROVE  IInv'
<1>t. Flow /\ Keys /\ Talk /\ Heard /\ Quiet /\ PumpTypeOK
  BY DEF IInv, Flow
<1>k. Keys'
  BY <1>t, StepKeepsKeys
<1>1. CASE UNCHANGED vars
  BY <1>1, StutterKeepsIInv
<1>2. ASSUME NEW x \in Ends, Step(x) \/ Type(x) \/ Leave(x)
      PROVE  Flow' /\ Talk' /\ Heard' /\ Quiet'
  <2>1. CASE Handshake(x)
    <3>1. Flow'
      BY <1>t, <2>1, HandshakeKeepsFlow
    <3> QED BY <1>t, <2>1, <3>1, HandshakeKeepsTalk, HandshakeKeepsHeard
  <2>2. CASE Decrypt(x)
    BY <1>t, <2>2, DecryptKeepsFlow, DecryptKeepsHeard
  <2>3. CASE Encrypt(x)
    BY <1>t, <2>3, EncryptKeepsFlow, EncryptKeepsHeard
  <2>4. CASE Drain(x)
    BY <1>t, <2>4, DrainKeepsFlow, MovesKeepHeard
  <2>5. CASE SockRead(x)
    BY <1>t, <2>5, SockReadKeepsFlow, MovesKeepHeard
  <2>6. CASE SockWrite(x)
    BY <1>t, <2>6, SockWriteKeepsFlow, MovesKeepHeard
  <2>7. CASE SockWriteLost(x) \/ Break(x) \/ Leave(x)
    <3>1. SockWriteLost(x) \/ Close(x)
      BY <2>7 DEF Break, Leave
    <3> QED BY <1>t, <3>1, LossKeepsFlow, MovesKeepHeard
  <2>8. CASE WantIO(x) \/ Poll(x) \/ Type(x)
    BY <1>t, <2>8, OthersKeepFlow, MovesKeepHeard
  <2>9. CASE StdinRead(x)
    BY <1>t, <2>9, OthersKeepFlow, StdinReadKeepsHeard
  <2> QED BY <1>2, <2>1, <2>2, <2>3, <2>4, <2>5, <2>6, <2>7, <2>8, <2>9 DEF Step
<1> QED BY <1>k, <1>1, <1>2 DEF Next, IInv

(* Nothing is under way at the beginning.                                  *)
LEMMA InitIInv == Init => IInv
<1> SUFFICES ASSUME Init
             PROVE  IInv
  OBVIOUS
<1>1. /\ flights = [e \in Ends |-> 0]
      /\ messages = [e \in Ends |-> << >>]
      /\ rbio = [e \in Ends |-> << >>]
      /\ wbio = [e \in Ends |-> << >>]
      /\ net = [e \in Ends |-> << >>]
      /\ write_buf = [e \in Ends |-> << >>]
  BY DEF Init, TlsInit
<1>2. << >> \in Seq(Message) /\ << >> \in Seq(Piece) /\ << >> \in Seq(Nat)
  OBVIOUS
<1>3. BioTypeOK
  BY <1>1, <1>2 DEF BioTypeOK
<1>4. PumpTypeOK /\ Keys
  BY <1>1, <1>2, SslPumpAssumption DEF Init, TlsInit, PumpTypeOK, Keys, Functions, Events
<1>5. Handshaking
  BY <1>1, TlsLibraryAssumption DEF Handshaking, SSL_is_init_finished, Ends
<1>6. AllMade /\ Chained
  <2>1. \A e \in Ends : /\ messages[e] = << >> /\ rbio[Peer(e)] = << >> /\ net[e] = << >>
                        /\ write_buf[e] = << >> /\ wbio[e] = << >>
    BY <1>1, TwoEnds
  <2>2. PiecesOf(<< >>, << >>)
    BY DEF PiecesOf
  <2>3. Chain(<< >>, << >>, << >>, << >>, << >>)
    <3>1. OneAfterTheOther(<< >>, << >>, << >>, << >>) = << >>
      BY <1>2, ConcatProperties DEF OneAfterTheOther
    <3> QED BY <3>1 DEF Chain, InOrder
  <2> QED BY <2>1, <2>2, <2>3 DEF AllMade, AllOf, Chained, InChain
<1>7. Flow
  BY <1>3, <1>4, <1>5, <1>6 DEF Flow
<1>8. Talk
  <2>1. Script
    BY <1>1 DEF Script
  <2>2. Told
    <3>1. << >> = From(0, 0)
      BY FromType
    <3>2. Tells(<< >>, 0, << >>)
      BY <3>1 DEF Tells, Upto
    <3> QED BY <1>1, <3>2 DEF Told, Init
  <2>3. Turns
    BY <1>1, TlsLibraryAssumption DEF Turns, FlightsMade, SSL_is_init_finished, Ends
  <2> QED BY <2>1, <2>2, <2>3 DEF Talk
<1>9. Heard
  <2> SUFFICES ASSUME NEW e \in Ends
               PROVE  HeardBy(e)
    BY DEF Heard
  <2>1. Peer(e) \in Ends /\ Peer(Peer(e)) = e
    BY TwoEnds
  <2>2. Stream(Peer(e)) = << >>
    <3>1. OneAfterTheOther(<< >>, << >>, << >>, << >>) = << >>
      BY <1>2, ConcatProperties DEF OneAfterTheOther
    <3> QED BY <1>1, <2>1, <3>1 DEF Stream
  <2>3. Awaited(e) = <<1, 1>>
    BY <1>1, <2>1, <2>2 DEF Awaited, NextUp
  <2>4. FlightsTaken(e) = 0
    BY <1>1 DEF FlightsTaken
  <2>5. printed[e] = << >> /\ From(0, 0) = << >>
    BY FromType DEF Init
  <2> QED BY <2>3, <2>4, <2>5 DEF HeardBy, Upto
<1>10. Quiet
  BY <1>1 DEF Quiet, QuietAt, Whole, Init
<1> QED BY <1>4, <1>7, <1>8, <1>9, <1>10 DEF IInv

-----------------------------------------------------------------------------
(* The parts of the invariant together hold in every state.                *)
THEOREM Invariance == Spec => []IInv
<1>1. Init => IInv
  BY InitIInv
<1>2. IInv /\ [Next]_vars => IInv'
  BY StepKeepsIInv
<1> QED BY <1>1, <1>2, PTL DEF Spec

(* The buffers of both programs hold pieces and lines, and no program has  *)
(* read more lines than were typed (common.h:46-75, 300-319).              *)
THEOREM TypeCorrect == Spec => []TypeOK
<1>1. IInv => TypeOK
  BY Types DEF IInv, Flow
<1> QED BY <1>1, Invariance, PTL

(* Whatever read() and write() take at once, however many flights and      *)
(* messages there are: while both programs run, what is in rbio, in the    *)
(* kernel, in write_buf and in wbio is the rest of what the peer's SSL     *)
(* object made, in order, without a gap and without a repetition           *)
(* (common.h:149-154, 190-198, 238-247, 279-286, 309-335).                 *)
THEOREM NothingLost == Spec => []NoPieceLost
<1>1. IInv => NoPieceLost
  <2> SUFFICES ASSUME IInv, \A e \in Ends : Up(e), NEW e \in Ends
               PROVE  RunsToTheEnd(e, rbio[Peer(e)] \o net[e] \o write_buf[e] \o wbio[e])
    BY DEF NoPieceLost
  <2>1. InChain(e)
    BY TwoEnds DEF IInv, Flow, Chained
  <2> QED BY <2>1, RunsInOrder DEF InChain, Chain, OneAfterTheOther
<1> QED BY <1>1, Invariance, PTL

(* However flights and records are cut and whatever the peer has sent with *)
(* them: an end that looks for what poll() has to tell has neither output  *)
(* of its SSL object in wbio, nor a message that is complete in rbio; so   *)
(* there is something to be told when it has to move on                    *)
(* (common.h:190-198, 230-247, 279-286).                                   *)
THEOREM NothingHeldBack == Spec => []NothingLeftBehind
<1>1. IInv => NothingLeftBehind
  BY DEF IInv, Quiet, QuietAt, NothingLeftBehind, Bottom
<1> QED BY <1>1, Invariance, PTL

-----------------------------------------------------------------------------
(* The refinement *)

(* Nothing typed, nothing printed, both ends up.                           *)
LEMMA InitChannel == Init => Channel!Init
  BY DEF Init, Channel!Init, Up, Ends

(* A step that stays in its program changes nothing of who is up.          *)
LEMMA StaysUp ==
  ASSUME PumpTypeOK, NEW x \in Ends, pc[x] # "closed", NEW f, f # "closed",
         pc' = [pc EXCEPT ![x] = f]
  PROVE  [e \in Ends |-> Up(e)]' = [e \in Ends |-> Up(e)]
  BY DEF PumpTypeOK, Up

(* The lines of a record that is complete are printed, and they are the    *)
(* ones that come next.                                                    *)
LEMMA DecryptShows ==
  ASSUME IInv, IInv', NEW x \in Ends, Decrypt(x)
  PROVE  Channel!Show(x) \/ UNCHANGED Channel!channel
<1> DEFINE p == Peer(x)
           n == Upto(messages'[p], Awaited(x)'[1] - 1)
           new == LinesRead(x, DEFAULT_BUF_SIZE)
<1>1. /\ pc[x] = "decrypt" /\ Whole(x)
      /\ printed' = [printed EXCEPT ![x] = @ \o new]
      /\ UNCHANGED <<pc, typed, entered, messages>>
  BY DEF Decrypt, Reads, SSL_read
<1>2. /\ p \in Ends /\ Flow /\ Flow' /\ BioTypeOK /\ AllMade /\ PumpTypeOK
      /\ HeardBy(x)' /\ Told'
  BY TwoEnds DEF IInv, Flow, Heard, Talk
<1>3. UNCHANGED <<typed, [e \in Ends |-> Up(e)]>>
  BY <1>1 DEF Up
<1>4. printed \in [Ends -> Seq(Nat)] /\ new \in Seq(Nat)
  <2>1. Front(x) \in Message
    BY <1>1, <1>2, WholeMessage
  <2> QED BY <1>2, <2>1 DEF PumpTypeOK, LinesRead, Message
<1>5. printed'[x] = printed[x] \o new
  BY <1>1, <1>4
<1>6. CASE new = << >>
  <2>1. printed' = printed
    BY <1>1, <1>4, <1>6, ConcatEmptySeq
  <2> QED BY <1>3, <2>1 DEF Channel!channel
<1>7. CASE new # << >>
  <2>1. printed'[x] = From(0, n)
    BY <1>1, <1>2 DEF HeardBy, Up
  <2>2. n \in 0 .. entered[p]
    <3>1. Tells(messages'[p], entered'[p], encrypt_buf'[p])
      BY <1>2 DEF Told
    <3>2. Awaited(x)'[1] \in 1 .. Len(messages'[p]) + 1
      <4>1. RangeOfAwaited'
        BY <1>2, FlowRange, PTL
      <4> QED BY <4>1 DEF RangeOfAwaited
    <3>3. messages[p] \in Seq(Message)
      BY <1>2 DEF BioTypeOK
    <3>4. Awaited(x)'[1] - 1 \in 0 .. Len(messages'[p])
      BY <1>1, <3>2, <3>3
    <3> QED BY <1>1, <3>1, <3>4 DEF Tells
  <2>3. entered[p] \in Nat /\ typed[p] \in Nat /\ entered[p] <= typed[p]
    BY <1>2 DEF PumpTypeOK
  <2>4. n \in Nat /\ n <= typed[p]
    BY <2>2, <2>3
  <2> HIDE DEF n, new
  <2>5. Len(From(0, n)) = n /\ From(0, n) = [i \in 1 .. n |-> i]
    <3>1. Len(From(0, n)) = n
      BY <2>4, FromType
    <3> QED BY <2>4, <3>1 DEF From
  <2>6. Len(printed[x]) + 1 <= n
    <3>1. Len(new) \in Nat \ {0} /\ Len(printed[x]) \in Nat
      BY <1>4, <1>7
    <3>2. Len(printed'[x]) = Len(printed[x]) + Len(new)
      BY <1>4, <1>5, ConcatProperties
    <3> QED BY <2>1, <2>5, <3>1, <3>2
  <2>7. n \in Len(printed[x]) + 1 .. typed[p]
    BY <1>4, <2>3, <2>4, <2>6
  <2>8. printed' = [printed EXCEPT ![x] = [i \in 1 .. n |-> i]]
    BY <1>1, <1>4, <1>5, <2>1, <2>5
  <2>9. Up(x)
    BY <1>1 DEF Up
  <2> QED BY <1>3, <2>7, <2>8, <2>9 DEF Channel!Show
<1> QED BY <1>6, <1>7

(* Typing is typing, the last piece of a record shows it, closing is       *)
(* leaving, and everything else is a stutter.                              *)
LEMMA StepChannel ==
  ASSUME IInv, IInv', [Next]_vars
  PROVE  [Channel!Next]_Channel!channel
<1> SUFFICES Channel!Next \/ UNCHANGED Channel!channel
  OBVIOUS
<1>t. PumpTypeOK
  BY DEF IInv, Flow
<1>1. CASE UNCHANGED vars
  BY <1>1 DEF vars, pumpVars, Channel!channel, Up
<1>2. ASSUME NEW x \in Ends, Step(x) \/ Type(x) \/ Leave(x)
      PROVE  Channel!Next \/ UNCHANGED Channel!channel
  <2>1. CASE Type(x)
    <3>1. Channel!Type(x)
      BY <2>1 DEF Type, Channel!Type, Up
    <3> QED BY <3>1 DEF Channel!Next
  <2>2. CASE Decrypt(x)
    BY <2>2, DecryptShows DEF Channel!Next
  <2>3. CASE Break(x) \/ Leave(x)
    <3>1. Close(x) /\ Up(x)
      BY <2>3 DEF Break, Leave, Handles, Up
    <3>2. pc' = [pc EXCEPT ![x] = "closed"] /\ UNCHANGED <<typed, printed>>
      BY <3>1 DEF Close, Goto
    <3>3. [e \in Ends |-> Up(e)]' = [[e \in Ends |-> Up(e)] EXCEPT ![x] = FALSE]
      BY <1>t, <3>2 DEF Up, PumpTypeOK
    <3>4. Channel!Leave(x)
      BY <3>1, <3>2, <3>3 DEF Channel!Leave
    <3> QED BY <3>4 DEF Channel!Next
  <2>4. CASE Handshake(x) \/ WantIO(x) \/ Drain(x) \/ Encrypt(x) \/ SockRead(x)
    <3>1. UNCHANGED <<typed, printed>>
      BY <2>4 DEF Handshake, WantIO, Decrypted, Drain, Encrypt, Encrypts, SockRead
    <3>2. pc[x] # "closed" /\ \E f \in {"handshake", "decrypt", "drain", "loop"} :
                                pc' = [pc EXCEPT ![x] = f]
      BY <2>4 DEF Handshake, WantIO, Decrypted, Drain, Encrypt, Encrypts, Bottom, SockRead,
                  Handles, on_read_cb, Goto
    <3>3. [e \in Ends |-> Up(e)]' = [e \in Ends |-> Up(e)]
      BY <1>t, <3>2, StaysUp
    <3> QED BY <3>1, <3>3 DEF Channel!channel
  <2>5. CASE Poll(x) \/ SockWrite(x) \/ SockWriteLost(x) \/ StdinRead(x)
    <3>1. UNCHANGED <<typed, printed, pc>>
      BY <2>5 DEF Poll, SockWrite, Writes, SockWriteLost, StdinRead, Enters
    <3> QED BY <3>1 DEF Channel!channel, Up
  <2> QED BY <1>2, <2>1, <2>2, <2>3, <2>4, <2>5 DEF Step
<1> QED BY <1>1, <1>2 DEF Next

(* Two BIOs, two buffers and a kernel that takes what it has room for, and *)
(* still what one user types the other sees, each line once and in the     *)
(* order it was typed in: the pump implements TlsChannel (README.md:10-13, *)
(* common.h:46-75, 175-335).                                               *)
THEOREM ShowsInOrder == Spec => ImplementsChannel
<1>1. IInv /\ IInv' /\ [Next]_vars => [Channel!Next]_Channel!channel
  BY StepChannel
<1> QED BY <1>1, Invariance, InitChannel, PTL DEF Spec, Channel!Spec, ImplementsChannel

=============================================================================
