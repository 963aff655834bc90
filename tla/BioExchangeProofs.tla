------------------------- MODULE BioExchangeProofs --------------------------
(***************************************************************************)
(* Theorems about BioExchange for any number of lines, any sizes of        *)
(* records and of buffer, and both versions of TLS: its type invariant;    *)
(* that the lines it prints keep the order of those typed, with a part in  *)
(* the place of each one missing; and that in an orderly exchange the      *)
(* server neither exits for what it has read nor prints past its end.      *)
(***************************************************************************)
EXTENDS BioExchange, SequenceTheorems, TLAPS

(* start[k] pieces come before the k-th of the messages ms.                *)
Layout(ms, start) ==
  /\ start \in [Nat -> Nat]
  /\ \A k \in 1 .. Len(ms) : start[k + 1] = start[k] + ms[k].size
  /\ \A j, k \in 1 .. Len(ms) + 1 : j <= k => start[j] <= start[k]

(* s is what comes in the stream of ms after its first pieces.             *)
Laid(ms, start, s, first) ==
  \A j \in 1 .. Len(s) :
    /\ s[j][1] \in 1 .. Len(ms)
    /\ s[j][2] \in 1 .. ms[s[j][1]].size
    /\ start[s[j][1]] + s[j][2] = first + j

(* The reader has taken the first gone pieces, and the next one is of      *)
(* message at; r, n and w are all that is still to come.                   *)
OnTheWay(ms, r, n, w, start, gone) ==
  /\ Layout(ms, start)
  /\ Laid(ms, start, r, gone)
  /\ Laid(ms, start, n, gone + Len(r))
  /\ Laid(ms, start, w, gone + Len(r) + Len(n))
  /\ start[Len(ms) + 1] = gone + Len(r) + Len(n) + Len(w)

IsAt(ms, start, gone, at) ==
  /\ at \in 1 .. Len(ms) + 1
  /\ start[at] <= gone
  /\ at <= Len(ms) => gone < start[at + 1]

(* What is shown of n lines: the next one has to follow it.                *)
Keeps(shown, n) ==
  /\ shown \in Seq(Nat)
  /\ InOrder(shown, n)
  /\ shown = << >> => n = 0
  /\ shown # << >> => shown[Len(shown)] \in {Part, n}

(* The flights are taken whole, and then lines are shown.                  *)
Progress(start, gone, at, made, shown) ==
  /\ made = 0 => at = 1 /\ gone = start[1] /\ shown = << >>
  /\ made = 2 => at = 2 /\ gone = start[2] /\ shown = << >>
  /\ made = 4 => at >= 3 /\ Keeps(shown, at - 3)

Reading(ms, r, n, w, made, shown) ==
  \E start, gone, at :
    /\ gone \in Nat /\ at \in Nat
    /\ OnTheWay(ms, r, n, w, start, gone)
    /\ IsAt(ms, start, gone, at)
    /\ Progress(start, gone, at, made, shown)

(* The client's first two messages are its flights, the others its lines.  *)
FlightsMade(f) == IF f = 0 THEN 0 ELSE IF f = 1 THEN 1 ELSE 2

Scripted(ms) ==
  \A k \in 1 .. Len(ms) :
    IF k <= 2 THEN ms[k].lines = << >> /\ ms[k].size = FlightSize
              ELSE ms[k].lines = <<k - 2>>

Script ==
  /\ flights["client"] \in {0, 1, 3, 4}
  /\ flights["server"] \in {0, 2, 4}
  /\ pc["client"] \in {"handshake", "output", "talk", "flush", "closed"}
  /\ pc["server"] \in {"handshake", "output", "talk", "decrypt", "closed"}
  /\ pc["client"] \in {"talk", "flush"} => flights["client"] >= 3
  /\ pc["server"] \in {"talk", "decrypt"} => flights["server"] = 4
  /\ Len(messages["client"]) = FlightsMade(flights["client"]) + typed
  /\ typed > 0 => flights["client"] >= 3
  /\ Scripted(messages["client"])

(* Nothing comes from a server that has not answered.                      *)
Silent ==
  flights["server"] = 0 =>
    wbio["server"] = << >> /\ net["server"] = << >> /\ rbio["client"] = << >>

Stream ==
  Up("server") =>
    Reading(messages["client"], rbio["server"], net["client"], wbio["client"],
            flights["server"], printed)

(* In an orderly exchange no more than one message is on the way, whole    *)
(* and in one place.                                                       *)
Alone(ms, r, n, w) ==
  /\ r # << >> => n = << >> /\ w = << >>
  /\ n # << >> => w = << >>
  /\ \/ Len(r) + Len(n) + Len(w) = 0
     \/ /\ Len(ms) > 0
        /\ Len(r) + Len(n) + Len(w) = ms[Len(ms)].size
        /\ Len(r) + Len(n) + Len(w) <= BUFFER_SIZE

OneAtATime ==
  orderly /\ Up("client") /\ Up("server") =>
    /\ Alone(messages["client"], rbio["server"], net["client"], wbio["client"])
    /\ pc["server"] = "decrypt" =>
         rbio["server"] # << >> /\ receivedBytes = Len(rbio["server"])

(* TypeOK, place by place.                                                 *)
Types ==
  /\ flights \in [Ends -> 0 .. 4]
  /\ messages \in [Ends -> Seq(Message)]
  /\ rbio \in [Ends -> Seq(Piece)]
  /\ wbio \in [Ends -> Seq(Piece)]
  /\ net \in [Ends -> Seq(Piece)]
  /\ broken \in [Ends -> BOOLEAN]
  /\ pc \in [Ends -> Places]
  /\ receivedBytes \in 0 .. BUFFER_SIZE
  /\ typed \in Nat
  /\ printed \in Seq(Nat)

IInv == Types /\ Script /\ Silent /\ Stream /\ OneAtATime

(* TypeOK states the three places where pieces are as one set.             *)
LEMMA TypesAre == TypeOK <=> Types
  BY DEF TypeOK, Types, TlsTypeOK

-----------------------------------------------------------------------------
(* Sequences of pieces *)

(* What After() and a first part keep.                                     *)
LEMMA Parts ==
  ASSUME NEW S, NEW s \in Seq(S), NEW n \in 0 .. Len(s)
  PROVE  /\ After(s, n) \in Seq(S)
         /\ Len(After(s, n)) = Len(s) - n
         /\ \A i \in 1 .. Len(s) - n : After(s, n)[i] = s[i + n]
         /\ SubSeq(s, 1, n) \in Seq(S)
         /\ Len(SubSeq(s, 1, n)) = n
         /\ \A i \in 1 .. n : SubSeq(s, 1, n)[i] = s[i]
<1>1. Len(s) \in Nat /\ n \in Nat /\ n <= Len(s)
  OBVIOUS
<1>2. /\ After(s, n) \in Seq(S)
      /\ Len(After(s, n)) = Len(s) - n
      /\ \A i \in 1 .. Len(s) - n : After(s, n)[i] = s[i + n]
  <2>1. CASE n + 1 <= Len(s) + 1
    BY <1>1, <2>1, SubSeqProperties DEF After
  <2> QED BY <1>1, <2>1
<1>3. /\ SubSeq(s, 1, n) \in Seq(S)
      /\ Len(SubSeq(s, 1, n)) = n
      /\ \A i \in 1 .. n : SubSeq(s, 1, n)[i] = s[i]
  BY <1>1, SubSeqProperties
<1> QED BY <1>2, <1>3

(* Any After() is a sequence of the same pieces.                           *)
LEMMA AfterSeq ==
  ASSUME NEW S, NEW s \in Seq(S), NEW n \in Nat
  PROVE  After(s, n) \in Seq(S)
  BY SubSeqProperties DEF After

(* What is laid out stays so without its first pieces, ...                 *)
LEMMA LaidAfter ==
  ASSUME NEW ms, NEW start, NEW s \in Seq(Piece), NEW first \in Nat,
         NEW n \in 0 .. Len(s), Laid(ms, start, s, first)
  PROVE  Laid(ms, start, After(s, n), first + n)
<1> DEFINE t == After(s, n)
<1>1. /\ Len(t) = Len(s) - n
      /\ \A i \in 1 .. Len(s) - n : t[i] = s[i + n]
  BY Parts
<1>0. Len(s) \in Nat
  OBVIOUS
<1> HIDE DEF t
<1> SUFFICES ASSUME NEW j \in 1 .. Len(t)
             PROVE  /\ t[j][1] \in 1 .. Len(ms)
                    /\ t[j][2] \in 1 .. ms[t[j][1]].size
                    /\ start[t[j][1]] + t[j][2] = first + n + j
  BY DEF Laid, t
<1>2. j + n \in 1 .. Len(s) /\ t[j] = s[j + n] /\ first + n + j = first + (j + n)
  BY <1>0, <1>1
<1> QED BY <1>2 DEF Laid

(* ... without its last ones, ...                                          *)
LEMMA LaidFirst ==
  ASSUME NEW ms, NEW start, NEW s \in Seq(Piece), NEW first \in Nat,
         NEW n \in 0 .. Len(s), Laid(ms, start, s, first)
  PROVE  Laid(ms, start, SubSeq(s, 1, n), first)
<1>1. /\ Len(SubSeq(s, 1, n)) = n /\ Len(s) \in Nat
      /\ \A i \in 1 .. n : SubSeq(s, 1, n)[i] = s[i]
  BY Parts
<1> DEFINE t == SubSeq(s, 1, n)
<1> HIDE DEF t
<1>2. \A j \in 1 .. Len(t) : j \in 1 .. Len(s) /\ t[j] = s[j]
  BY <1>1 DEF t
<1>3. Laid(ms, start, t, first)
  BY <1>2 DEF Laid
<1> QED BY <1>3 DEF t

(* ... and together with what comes next.                                  *)
LEMMA LaidConcat ==
  ASSUME NEW ms, NEW start, NEW s \in Seq(Piece), NEW t \in Seq(Piece), NEW first \in Nat,
         Laid(ms, start, s, first), Laid(ms, start, t, first + Len(s))
  PROVE  Laid(ms, start, s \o t, first)
<1>1. /\ Len(s \o t) = Len(s) + Len(t) /\ Len(s) \in Nat /\ Len(t) \in Nat
      /\ \A i \in 1 .. Len(s) : (s \o t)[i] = s[i]
      /\ \A i \in 1 .. Len(t) : (s \o t)[Len(s) + i] = t[i]
  BY ConcatProperties
<1> DEFINE u == s \o t
<1> HIDE DEF u
<1> SUFFICES ASSUME NEW j \in 1 .. Len(u)
             PROVE  /\ u[j][1] \in 1 .. Len(ms)
                    /\ u[j][2] \in 1 .. ms[u[j][1]].size
                    /\ start[u[j][1]] + u[j][2] = first + j
  BY DEF Laid, u
<1>2. CASE j <= Len(s)
  <2>1. j \in 1 .. Len(s) /\ u[j] = s[j]
    BY <1>1, <1>2 DEF u
  <2> QED BY <2>1 DEF Laid
<1>3. CASE j > Len(s)
  <2>1. /\ j - Len(s) \in 1 .. Len(t) /\ u[j] = t[j - Len(s)]
        /\ first + Len(s) + (j - Len(s)) = first + j
    <3>1. j - Len(s) \in 1 .. Len(t) /\ j = Len(s) + (j - Len(s))
      BY <1>1, <1>3 DEF u
    <3> QED BY <1>1, <3>1 DEF u
  <2> QED BY <2>1 DEF Laid
<1> QED BY <1>1, <1>2, <1>3

-----------------------------------------------------------------------------
(* What is on the way *)

Pieces(k, size) == [i \in 1 .. size |-> <<k, i>>]

(* The pieces of a message are pieces, as many as its size.                *)
LEMMA PiecesType ==
  ASSUME NEW k \in Nat, NEW size \in Nat
  PROVE  /\ Pieces(k, size) \in Seq(Piece)
         /\ Len(Pieces(k, size)) = size
         /\ \A i \in 1 .. size : Pieces(k, size)[i] = <<k, i>>
  BY DEF Pieces, Piece

(* Where the message after the last one begins.                            *)
LEMMA LayoutMore ==
  ASSUME NEW ms \in Seq(Message), NEW m \in Message, NEW start, Layout(ms, start)
  PROVE  \E more :
           /\ Layout(Append(ms, m), more)
           /\ \A k \in 1 .. Len(ms) + 1 : more[k] = start[k]
           /\ more[Len(ms) + 2] = start[Len(ms) + 1] + m.size
<1> DEFINE L == Len(ms)
           size == m.size
           more == [start EXCEPT ![L + 2] = start[L + 1] + size]
           all == Append(ms, m)
<1>1. L \in Nat
  OBVIOUS
<1>2. size \in Nat
  BY DEF Message
<1>3. /\ start \in [Nat -> Nat]
      /\ \A k \in 1 .. L : start[k + 1] = start[k] + ms[k].size
      /\ \A j, k \in 1 .. L + 1 : j <= k => start[j] <= start[k]
  BY DEF Layout
<1>4. Len(all) = L + 1 /\ all[L + 1].size = size /\ \A k \in 1 .. L : all[k] = ms[k]
  BY AppendProperties
<1> HIDE DEF L, size, all
<1>5. start[L + 1] \in Nat
  BY <1>1, <1>3
<1>6. start[L + 1] + size \in Nat
  BY <1>2, <1>5
<1>7. more \in [Nat -> Nat]
  BY <1>1, <1>3, <1>6
<1>8. more[L + 2] = start[L + 1] + size
  BY <1>1, <1>3
<1>9. \A k \in 1 .. L + 1 : more[k] = start[k] /\ start[k] \in Nat /\ start[k] <= start[L + 1]
  <2> SUFFICES ASSUME NEW k \in 1 .. L + 1
               PROVE  more[k] = start[k] /\ start[k] \in Nat /\ start[k] <= start[L + 1]
    OBVIOUS
  <2>1. k \in Nat /\ k # L + 2 /\ L + 1 \in 1 .. L + 1 /\ k <= L + 1
    BY <1>1
  <2> QED BY <1>3, <2>1
<1> HIDE DEF more
<1>10. \A k \in 1 .. L + 1 : more[k + 1] = more[k] + all[k].size
  <2> SUFFICES ASSUME NEW k \in 1 .. L + 1 PROVE more[k + 1] = more[k] + all[k].size
    OBVIOUS
  <2>1. CASE k = L + 1
    <3>1. k + 1 = L + 2
      BY <1>1, <2>1
    <3> QED BY <1>4, <1>8, <1>9, <2>1, <3>1
  <2>2. CASE k # L + 1
    <3>1. k \in 1 .. L /\ k + 1 \in 1 .. L + 1
      BY <1>1, <2>2
    <3> QED BY <1>3, <1>4, <1>9, <3>1
  <2> QED BY <2>1, <2>2
<1>11. \A j, k \in 1 .. L + 2 : j <= k => more[j] <= more[k]
  <2> SUFFICES ASSUME NEW j \in 1 .. L + 2, NEW k \in 1 .. L + 2, j <= k
               PROVE  more[j] <= more[k]
    OBVIOUS
  <2>1. \A i \in 1 .. L + 1 : more[i] <= more[L + 2]
    BY <1>2, <1>5, <1>8, <1>9
  <2>2. more[L + 2] <= more[L + 2]
    BY <1>6, <1>8
  <2>3. j = L + 2 \/ j \in 1 .. L + 1
    BY <1>1
  <2>4. CASE k = L + 2
    BY <2>1, <2>2, <2>3, <2>4
  <2>5. CASE k # L + 2
    <3>1. j \in 1 .. L + 1 /\ k \in 1 .. L + 1
      BY <1>1, <2>5
    <3> QED BY <1>3, <1>9, <3>1
  <2> QED BY <2>4, <2>5
<1>12. Layout(all, more)
  <2>1. Len(all) + 1 = L + 2
    BY <1>1, <1>4
  <2> QED BY <1>4, <1>7, <1>10, <1>11, <2>1 DEF Layout
<1> QED BY <1>7, <1>8, <1>9, <1>12 DEF L, size, all

(* A message that is made is all behind what was there.                    *)
LEMMA MakesOnTheWay ==
  ASSUME NEW ms \in Seq(Message), NEW r \in Seq(Piece), NEW n \in Seq(Piece), NEW w \in Seq(Piece),
         NEW m \in Message, NEW start, NEW gone \in Nat,
         OnTheWay(ms, r, n, w, start, gone)
  PROVE  \E more :
           /\ OnTheWay(Append(ms, m), r, n, w \o Pieces(Len(ms) + 1, m.size), more, gone)
           /\ \A k \in 1 .. Len(ms) + 1 : more[k] = start[k]
           /\ more[Len(ms) + 2] = start[Len(ms) + 1] + m.size
<1>0. Len(r) \in Nat /\ Len(n) \in Nat /\ Len(w) \in Nat
  OBVIOUS
<1> DEFINE L == Len(ms)
           size == m.size
           all == Append(ms, m)
           new == Pieces(L + 1, size)
           longer == w \o new
<1>1. PICK more :
        /\ Layout(all, more)
        /\ \A k \in 1 .. L + 1 : more[k] = start[k]
        /\ more[L + 2] = start[L + 1] + size
  BY LayoutMore DEF OnTheWay
<1>2. L \in Nat
  OBVIOUS
<1>3. size \in Nat
  BY DEF Message
<1>4. Len(all) = L + 1 /\ all[L + 1].size = size /\ \A k \in 1 .. L : all[k] = ms[k]
  BY AppendProperties
<1>5. new \in Seq(Piece) /\ Len(new) = size /\ \A i \in 1 .. size : new[i] = <<L + 1, i>>
  <2>1. L + 1 \in Nat
    BY <1>2
  <2> QED BY <1>3, <2>1, PiecesType
<1>6. Len(longer) = Len(w) + size
  <2> HIDE DEF new, size
  <2> QED BY <1>5, ConcatProperties
<1>7. start[L + 1] = gone + Len(r) + Len(n) + Len(w)
  BY DEF OnTheWay
<1>8. L = Len(ms)
  OBVIOUS
<1> HIDE DEF L, size, all, new
<1>9. ASSUME NEW s, NEW first, Laid(ms, start, s, first)
      PROVE  Laid(all, more, s, first)
  <2> SUFFICES ASSUME NEW j \in 1 .. Len(s)
               PROVE  /\ s[j][1] \in 1 .. L + 1
                      /\ s[j][2] \in 1 .. all[s[j][1]].size
                      /\ more[s[j][1]] + s[j][2] = first + j
    BY <1>4 DEF Laid
  <2> DEFINE k == s[j][1]
  <2>1. k \in 1 .. L /\ s[j][2] \in 1 .. ms[k].size /\ start[k] + s[j][2] = first + j
    BY <1>8, <1>9 DEF Laid
  <2> HIDE DEF k
  <2>2. k \in 1 .. L + 1
    BY <1>2, <2>1
  <2>3. all[k] = ms[k] /\ more[k] = start[k]
    BY <1>1, <1>4, <2>1, <2>2
  <2>4. /\ k \in 1 .. L + 1 /\ s[j][2] \in 1 .. all[k].size
        /\ more[k] + s[j][2] = first + j
    BY <2>1, <2>2, <2>3
  <2> QED BY <2>4 DEF k
<1> DEFINE before == gone + Len(r) + Len(n) + Len(w)
<1>11. L + 1 \in 1 .. L + 1
  BY <1>2
<1>12. more[L + 1] = before
  BY <1>1, <1>7, <1>11
<1>13. Laid(all, more, new, before)
  <2> HIDE DEF before
  <2> SUFFICES ASSUME NEW j \in 1 .. size
               PROVE  /\ new[j][1] \in 1 .. Len(all)
                      /\ new[j][2] \in 1 .. all[new[j][1]].size
                      /\ more[new[j][1]] + new[j][2] = before + j
    BY <1>5 DEF Laid
  <2>0. new[j] = <<L + 1, j>>
    BY <1>5
  <2>1. new[j][1] = L + 1 /\ new[j][2] = j
    BY <1>2, <2>0
  <2> QED BY <1>4, <1>11, <1>12, <2>1
<1>14. Laid(all, more, longer, gone + Len(r) + Len(n))
  BY <1>5, <1>0, <1>9, <1>13, LaidConcat DEF OnTheWay
<1>15. more[Len(all) + 1] = gone + Len(r) + Len(n) + Len(longer)
  <2>1. Len(all) + 1 = L + 2
    BY <1>2, <1>4
  <2> HIDE DEF longer
  <2>2. more[L + 2] = gone + Len(r) + Len(n) + Len(w) + size
    BY <1>1, <1>7
  <2> QED BY <1>0, <1>3, <1>6, <2>1, <2>2
<1> HIDE DEF longer
<1>16. OnTheWay(all, r, n, longer, more, gone)
  BY <1>1, <1>9, <1>14, <1>15 DEF OnTheWay
<1> QED BY <1>1, <1>16 DEF L, size, all, longer, new

(* write(): pieces move from wbio to the connection.                       *)
LEMMA WriteOnTheWay ==
  ASSUME NEW ms \in Seq(Message), NEW r \in Seq(Piece), NEW n \in Seq(Piece), NEW w \in Seq(Piece),
         NEW start, NEW gone \in Nat, NEW k \in 0 .. Len(w),
         OnTheWay(ms, r, n, w, start, gone)
  PROVE  OnTheWay(ms, r, n \o SubSeq(w, 1, k), After(w, k), start, gone)
<1> DEFINE u == SubSeq(w, 1, k)
           v == After(w, k)
           x == n \o u
<1>1. u \in Seq(Piece) /\ Len(u) = k /\ v \in Seq(Piece) /\ Len(v) = Len(w) - k
  BY Parts
<1>2. Len(r) \in Nat /\ Len(n) \in Nat /\ Len(w) \in Nat
  OBVIOUS
<1>3. Laid(ms, start, u, gone + Len(r) + Len(n))
  BY <1>2, LaidFirst DEF OnTheWay
<1>4. Laid(ms, start, v, gone + Len(r) + Len(n) + k)
  <2>1. gone + Len(r) + Len(n) \in Nat
    BY <1>2
  <2> QED BY <2>1, LaidAfter DEF OnTheWay
<1>5. Len(x) = Len(n) + k
  BY <1>1, ConcatProperties
<1> HIDE DEF u, v
<1>6. Laid(ms, start, x, gone + Len(r))
  BY <1>1, <1>2, <1>3, LaidConcat DEF OnTheWay
<1> HIDE DEF x
<1>7. /\ gone + Len(r) + Len(x) = gone + Len(r) + Len(n) + k
      /\ gone + Len(r) + Len(x) + Len(v) = gone + Len(r) + Len(n) + Len(w)
  BY <1>1, <1>2, <1>5
<1>8. OnTheWay(ms, r, x, v, start, gone)
  BY <1>4, <1>6, <1>7 DEF OnTheWay
<1> QED BY <1>8 DEF x, u, v

(* read(): pieces move from the connection to rbio.                        *)
LEMMA ReadOnTheWay ==
  ASSUME NEW ms \in Seq(Message), NEW r \in Seq(Piece), NEW n \in Seq(Piece), NEW w \in Seq(Piece),
         NEW start, NEW gone \in Nat, NEW k \in 0 .. Len(n),
         OnTheWay(ms, r, n, w, start, gone)
  PROVE  OnTheWay(ms, r \o SubSeq(n, 1, k), After(n, k), w, start, gone)
<1> DEFINE u == SubSeq(n, 1, k)
           v == After(n, k)
           x == r \o u
<1>1. u \in Seq(Piece) /\ Len(u) = k /\ v \in Seq(Piece) /\ Len(v) = Len(n) - k
  BY Parts
<1>2. Len(r) \in Nat /\ Len(n) \in Nat /\ Len(w) \in Nat
  OBVIOUS
<1>3. Laid(ms, start, u, gone + Len(r))
  BY <1>2, LaidFirst DEF OnTheWay
<1>4. Laid(ms, start, v, gone + Len(r) + k)
  <2>1. gone + Len(r) \in Nat
    BY <1>2
  <2> QED BY <2>1, LaidAfter DEF OnTheWay
<1>5. Len(x) = Len(r) + k
  BY <1>1, ConcatProperties
<1> HIDE DEF u, v
<1>6. Laid(ms, start, x, gone)
  BY <1>1, <1>2, <1>3, LaidConcat DEF OnTheWay
<1> HIDE DEF x
<1>7. /\ gone + Len(x) = gone + Len(r) + k
      /\ gone + Len(x) + Len(v) = gone + Len(r) + Len(n)
      /\ gone + Len(x) + Len(v) + Len(w) = gone + Len(r) + Len(n) + Len(w)
  BY <1>1, <1>2, <1>5
<1>8. OnTheWay(ms, x, v, w, start, gone)
  BY <1>4, <1>6, <1>7 DEF OnTheWay
<1> QED BY <1>8 DEF x, u, v

(* The SSL object takes pieces out of rbio.                                *)
LEMMA TakeOnTheWay ==
  ASSUME NEW ms \in Seq(Message), NEW r \in Seq(Piece), NEW n \in Seq(Piece), NEW w \in Seq(Piece),
         NEW start, NEW gone \in Nat, NEW k \in 0 .. Len(r),
         OnTheWay(ms, r, n, w, start, gone)
  PROVE  OnTheWay(ms, After(r, k), n, w, start, gone + k)
<1> DEFINE v == After(r, k)
<1>1. v \in Seq(Piece) /\ Len(v) = Len(r) - k
  BY Parts
<1>2. Len(r) \in Nat /\ Len(n) \in Nat /\ Len(w) \in Nat
  OBVIOUS
<1>3. Laid(ms, start, v, gone + k)
  BY LaidAfter DEF OnTheWay
<1> HIDE DEF v
<1>4. /\ gone + k + Len(v) = gone + Len(r)
      /\ gone + k + Len(v) + Len(n) = gone + Len(r) + Len(n)
      /\ gone + k + Len(v) + Len(n) + Len(w) = gone + Len(r) + Len(n) + Len(w)
  BY <1>1, <1>2
<1>5. OnTheWay(ms, v, n, w, start, gone + k)
  BY <1>3, <1>4 DEF OnTheWay
<1> QED BY <1>5 DEF v

(* The first piece of rbio is the next one of the message the reader is    *)
(* at, and the rest of that message is what is due.                        *)
LEMMA FirstPiece ==
  ASSUME NEW ms \in Seq(Message), NEW r \in Seq(Piece), NEW n \in Seq(Piece), NEW w \in Seq(Piece),
         NEW start, NEW gone \in Nat, NEW at \in Nat,
         OnTheWay(ms, r, n, w, start, gone), IsAt(ms, start, gone, at), r # << >>
  PROVE  /\ at \in 1 .. Len(ms)
         /\ r[1][1] = at
         /\ ms[at].size - r[1][2] + 1 = start[at + 1] - gone
         /\ start[at + 1] - gone \in Nat \ {0}
         /\ start[at] \in Nat /\ start[at + 1] \in Nat
         /\ start[at + 1] = start[at] + ms[at].size
<1> DEFINE L == Len(ms)
           k == r[1][1]
           i == r[1][2]
<1>1. /\ L \in Nat /\ Len(r) \in Nat /\ Len(n) \in Nat /\ Len(w) \in Nat
      /\ 1 \in 1 .. Len(r) /\ Len(r) > 0
  BY EmptySeq
<1>2. k \in 1 .. L /\ i \in 1 .. ms[k].size /\ start[k] + i = gone + 1
  BY <1>1 DEF OnTheWay, Laid
<1>3. \A j \in 1 .. L : ms[j].size \in Nat
  <2> SUFFICES ASSUME NEW j \in 1 .. L PROVE ms[j].size \in Nat
    OBVIOUS
  <2>1. ms[j] \in Message
    OBVIOUS
  <2> QED BY <2>1 DEF Message
<1>4. /\ \A j \in 1 .. L + 1 : start[j] \in Nat
      /\ \A j \in 1 .. L : start[j + 1] = start[j] + ms[j].size
      /\ \A j, l \in 1 .. L + 1 : j <= l => start[j] <= start[l]
  <2>1. /\ start \in [Nat -> Nat]
        /\ \A j \in 1 .. L : start[j + 1] = start[j] + ms[j].size
        /\ \A j, l \in 1 .. L + 1 : j <= l => start[j] <= start[l]
    BY DEF OnTheWay, Layout
  <2> HIDE DEF L
  <2>2. \A j \in 1 .. L + 1 : j \in Nat
    BY <1>1
  <2> QED BY <2>1, <2>2
<1>5. at \in 1 .. L + 1 /\ start[at] <= gone /\ (at <= L => gone < start[at + 1])
  BY DEF IsAt
<1>6. start[L + 1] = gone + Len(r) + Len(n) + Len(w)
  BY DEF OnTheWay
<1> HIDE DEF L, k, i
<1>7. at # L + 1
  BY <1>1, <1>4, <1>5, <1>6, <1>2
<1>8. at \in 1 .. L
  BY <1>1, <1>5, <1>7
<1>9. /\ k \in 1 .. L + 1 /\ k + 1 \in 1 .. L + 1 /\ at \in 1 .. L + 1 /\ at + 1 \in 1 .. L + 1
      /\ k \in Nat /\ at \in Nat
  BY <1>1, <1>2, <1>8
<1>10. start[k + 1] = start[k] + ms[k].size /\ start[at + 1] = start[at] + ms[at].size
  BY <1>2, <1>4, <1>8
<1>11. start[k] \in Nat /\ start[k + 1] \in Nat /\ start[at] \in Nat /\ start[at + 1] \in Nat
  BY <1>4, <1>9
<1>12. ms[k].size \in Nat /\ ms[at].size \in Nat
  BY <1>2, <1>3, <1>8
<1>13. i \in Nat /\ i <= ms[k].size /\ i >= 1
  BY <1>2, <1>12
<1>14. ~(k < at)
  <2> SUFFICES ASSUME k < at PROVE FALSE
    OBVIOUS
  <2>1. start[k + 1] <= start[at]
    <3>1. k + 1 <= at
      BY <1>9
    <3> QED BY <1>4, <1>9, <3>1
  <2>2. gone + 1 <= start[k + 1]
    <3> DEFINE a == start[k]
               b == start[k + 1]
               size == ms[k].size
    <3>1. a \in Nat /\ b \in Nat /\ size \in Nat /\ a + i = gone + 1 /\ b = a + size
      BY <1>2, <1>10, <1>11, <1>12
    <3>2. i <= size
      BY <1>13
    <3> HIDE DEF a, b, size
    <3>3. gone + 1 <= b
      BY <1>13, <3>1, <3>2
    <3> QED BY <3>3 DEF b
  <2>3. start[at] <= gone
    BY <1>5
  <2> QED BY <1>11, <2>1, <2>2, <2>3
<1>15. ~(at < k)
  <2> SUFFICES ASSUME at < k PROVE FALSE
    OBVIOUS
  <2>1. start[at + 1] <= start[k]
    <3>1. at + 1 <= k
      BY <1>9
    <3> QED BY <1>4, <1>9, <3>1
  <2>2. gone < start[at + 1]
    BY <1>1, <1>5, <1>8
  <2> QED BY <1>2, <1>11, <1>13, <2>1, <2>2
<1>16. k = at
  BY <1>9, <1>14, <1>15
<1>17. gone < start[at + 1]
  BY <1>1, <1>5, <1>8
<1>18. ms[at].size - i + 1 = start[at + 1] - gone
  <2>1. start[at] + i = gone + 1
    BY <1>2, <1>16
  <2>2. start[at + 1] = start[at] + ms[at].size
    BY <1>10
  <2> DEFINE a == start[at]
             b == start[at + 1]
             size == ms[at].size
  <2>3. a \in Nat /\ b \in Nat /\ size \in Nat /\ i \in Nat /\ a + i = gone + 1 /\ b = a + size
    BY <1>11, <1>12, <1>13, <2>1, <2>2
  <2> HIDE DEF a, b, size
  <2>4. size - i + 1 = b - gone
    BY <2>3
  <2> QED BY <2>4 DEF a, b, size
<1> QED BY <1>8, <1>10, <1>11, <1>16, <1>17, <1>18 DEF L, k, i

-----------------------------------------------------------------------------
(* What the reader has taken and what it shows *)

(* What moves from wbio to the connection is still to come, ...            *)
LEMMA WriteReading ==
  ASSUME NEW ms \in Seq(Message), NEW r \in Seq(Piece), NEW n \in Seq(Piece), NEW w \in Seq(Piece),
         NEW made, NEW shown, NEW k \in 0 .. Len(w), Reading(ms, r, n, w, made, shown)
  PROVE  Reading(ms, r, n \o SubSeq(w, 1, k), After(w, k), made, shown)
<1> PICK start, gone, at :
      /\ gone \in Nat /\ at \in Nat
      /\ OnTheWay(ms, r, n, w, start, gone)
      /\ IsAt(ms, start, gone, at)
      /\ Progress(start, gone, at, made, shown)
  BY DEF Reading
<1>1. OnTheWay(ms, r, n \o SubSeq(w, 1, k), After(w, k), start, gone)
  BY WriteOnTheWay
<1> QED BY <1>1 DEF Reading

(* ... and so is what moves from there to rbio.                            *)
LEMMA ReadReading ==
  ASSUME NEW ms \in Seq(Message), NEW r \in Seq(Piece), NEW n \in Seq(Piece), NEW w \in Seq(Piece),
         NEW made, NEW shown, NEW k \in 0 .. Len(n), Reading(ms, r, n, w, made, shown)
  PROVE  Reading(ms, r \o SubSeq(n, 1, k), After(n, k), w, made, shown)
<1> PICK start, gone, at :
      /\ gone \in Nat /\ at \in Nat
      /\ OnTheWay(ms, r, n, w, start, gone)
      /\ IsAt(ms, start, gone, at)
      /\ Progress(start, gone, at, made, shown)
  BY DEF Reading
<1>1. OnTheWay(ms, r \o SubSeq(n, 1, k), After(n, k), w, start, gone)
  BY ReadOnTheWay
<1> QED BY <1>1 DEF Reading

(* A reader at the end of the stream is at the message that comes.         *)
LEMMA MakesReading ==
  ASSUME NEW ms \in Seq(Message), NEW r \in Seq(Piece), NEW n \in Seq(Piece), NEW w \in Seq(Piece),
         NEW made, NEW shown, NEW m \in Message, Reading(ms, r, n, w, made, shown)
  PROVE  Reading(Append(ms, m), r, n, w \o Pieces(Len(ms) + 1, m.size), made, shown)
<1> PICK start, gone, at :
      /\ gone \in Nat /\ at \in Nat
      /\ OnTheWay(ms, r, n, w, start, gone)
      /\ IsAt(ms, start, gone, at)
      /\ Progress(start, gone, at, made, shown)
  BY DEF Reading
<1> DEFINE L == Len(ms)
           size == m.size
           all == Append(ms, m)
           longer == w \o Pieces(L + 1, size)
<1>1. PICK more :
        /\ OnTheWay(all, r, n, longer, more, gone)
        /\ \A k \in 1 .. L + 1 : more[k] = start[k]
        /\ more[L + 2] = start[L + 1] + size
  BY MakesOnTheWay
<1>2. L \in Nat /\ Len(r) \in Nat /\ Len(n) \in Nat /\ Len(w) \in Nat
  OBVIOUS
<1>3. size \in Nat \ {0}
  BY DEF Message
<1>4. Len(all) = L + 1
  BY AppendProperties
<1>5. start[L + 1] = gone + Len(r) + Len(n) + Len(w)
  BY DEF OnTheWay
<1>6. at \in 1 .. L + 1 /\ start[at] <= gone /\ (at <= L => gone < start[at + 1])
  BY DEF IsAt
<1> HIDE DEF L, size, all, longer
<1>7. more[at] = start[at]
  BY <1>1, <1>6
<1>8. at <= L + 1 => gone < more[at + 1]
  <2>1. CASE at = L + 1
    <3>1. at + 1 = L + 2 /\ gone < start[L + 1] + size
      BY <1>2, <1>3, <1>5, <2>1
    <3> QED BY <1>1, <3>1
  <2>2. CASE at # L + 1
    <3>1. at <= L /\ at + 1 \in 1 .. L + 1
      BY <1>2, <1>6, <2>2
    <3> QED BY <1>1, <1>6, <3>1
  <2> QED BY <2>1, <2>2
<1>9. IsAt(all, more, gone, at)
  <2>1. at \in 1 .. L + 2
    BY <1>2, <1>6
  <2>2. Len(all) + 1 = L + 2
    BY <1>2, <1>4
  <2> QED BY <1>4, <1>6, <1>7, <1>8, <2>1, <2>2 DEF IsAt
<1>10. Progress(more, gone, at, made, shown)
  BY <1>7 DEF Progress
<1>11. Reading(all, r, n, longer, made, shown)
  BY <1>1, <1>9, <1>10 DEF Reading
<1> QED BY <1>11 DEF L, size, all, longer

(* The reader that has taken the rest of a message is at the next one.     *)
LEMMA NextIsAt ==
  ASSUME NEW ms \in Seq(Message), NEW r \in Seq(Piece), NEW n \in Seq(Piece), NEW w \in Seq(Piece),
         NEW start, NEW gone \in Nat, NEW at \in 1 .. Len(ms),
         OnTheWay(ms, r, n, w, start, gone)
  PROVE  IsAt(ms, start, start[at + 1], at + 1)
<1> DEFINE L == Len(ms)
<1>1. L \in Nat
  OBVIOUS
<1>2. /\ start \in [Nat -> Nat]
      /\ \A k \in 1 .. L : start[k + 1] = start[k] + ms[k].size
  BY DEF OnTheWay, Layout
<1>3. ASSUME at + 1 <= L PROVE start[at + 1] < start[at + 1 + 1]
  <2>1. at + 1 \in 1 .. L
    BY <1>1, <1>3
  <2>2. ms[at + 1] \in Message
    BY <2>1
  <2>3. ms[at + 1].size \in Nat \ {0}
    BY <2>2 DEF Message
  <2>4. start[at + 1] \in Nat
    BY <1>2
  <2>5. start[at + 1 + 1] = start[at + 1] + ms[at + 1].size
    BY <1>2, <2>1
  <2> QED BY <2>3, <2>4, <2>5
<1>4. start[at + 1] \in Nat /\ at + 1 \in 1 .. L + 1
  BY <1>1, <1>2
<1> QED BY <1>3, <1>4 DEF IsAt

(* Nothing is shown of no lines.                                           *)
LEMMA KeepsNothing == Keeps(<< >>, 0)
  BY DEF Keeps, InOrder

(* The server takes a flight.                                              *)
LEMMA FlightReading ==
  ASSUME NEW ms \in Seq(Message), NEW r \in Seq(Piece), NEW n \in Seq(Piece), NEW w \in Seq(Piece),
         NEW made \in {0, 2}, NEW shown, Reading(ms, r, n, w, made, shown), Scripted(ms), r # << >>
  PROVE  /\ ms[r[1][1]].size - r[1][2] + 1 = FlightSize
         /\ FlightSize <= Len(r) =>
              Reading(ms, After(r, FlightSize), n, w, made + 2, shown)
<1> PICK start, gone, at :
      /\ gone \in Nat /\ at \in Nat
      /\ OnTheWay(ms, r, n, w, start, gone)
      /\ IsAt(ms, start, gone, at)
      /\ Progress(start, gone, at, made, shown)
  BY DEF Reading
<1>1. /\ at \in 1 .. Len(ms)
      /\ r[1][1] = at
      /\ ms[at].size - r[1][2] + 1 = start[at + 1] - gone
      /\ start[at] \in Nat /\ start[at + 1] = start[at] + ms[at].size
  BY FirstPiece
<1>2. at \in {1, 2} /\ gone = start[at] /\ (made = 0 => at = 1) /\ (made = 2 => at = 2)
  BY DEF Progress
<1>3. ms[at].size = FlightSize
  BY <1>1, <1>2 DEF Scripted
<1>4. FlightSize \in Nat
  BY TlsLibraryAssumption
<1>5. start[at + 1] = gone + FlightSize
  BY <1>1, <1>2, <1>3
<1>6. ms[r[1][1]].size - r[1][2] + 1 = FlightSize
  BY <1>1, <1>4, <1>5
<1>7. ASSUME FlightSize <= Len(r)
      PROVE  Reading(ms, After(r, FlightSize), n, w, made + 2, shown)
  <2>1. FlightSize \in 0 .. Len(r)
    BY <1>4, <1>7
  <2>2. OnTheWay(ms, After(r, FlightSize), n, w, start, gone + FlightSize)
    BY <2>1, TakeOnTheWay
  <2>3. IsAt(ms, start, gone + FlightSize, at + 1)
    BY <1>1, <1>5, NextIsAt
  <2>4. Progress(start, gone + FlightSize, at + 1, made + 2, shown)
    <3>1. shown = << >>
      BY DEF Progress
    <3>2. Keeps(shown, 0)
      BY <3>1, KeepsNothing
    <3> QED BY <1>2, <1>5, <3>1, <3>2 DEF Progress
  <2>5. gone + FlightSize \in Nat /\ at + 1 \in Nat
    BY <1>4
  <2> QED BY <2>2, <2>3, <2>4, <2>5 DEF Reading
<1> QED BY <1>6, <1>7

(* A line that follows what is shown of those before it.                   *)
LEMMA KeepsLine ==
  ASSUME NEW shown, NEW n \in Nat, Keeps(shown, n)
  PROVE  Keeps(shown \o <<n + 1>>, n + 1)
<1> DEFINE more == shown \o <<n + 1>>
           L == Len(shown)
<1>1. /\ shown \in Seq(Nat) /\ L \in Nat /\ \A i \in 1 .. L : shown[i] \in Nat
      /\ InOrder(shown, n)
      /\ shown = << >> => n = 0
      /\ shown # << >> => shown[L] \in {Part, n}
  BY DEF Keeps
<1>2. /\ more \in Seq(Nat) /\ Len(more) = L + 1 /\ more[L + 1] = n + 1
      /\ \A i \in 1 .. L : more[i] = shown[i]
  BY <1>1
<1>3. \A i \in 1 .. L : shown[i] < n + 1
  <2> SUFFICES ASSUME NEW i \in 1 .. L PROVE shown[i] < n + 1
    OBVIOUS
  <2>1. CASE shown[i] = Part
    BY <2>1 DEF Part
  <2>2. CASE shown[i] # Part
    BY <1>1, <2>2 DEF InOrder
  <2> QED BY <2>1, <2>2
<1>4. L > 0 => shown # << >>
  OBVIOUS
<1>5. L = 0 => shown = << >>
  BY <1>1
<1> HIDE DEF more, L
<1>6. InOrder(more, n + 1)
  <2> SUFFICES ASSUME NEW i \in 1 .. L + 1, more[i] # Part
               PROVE  /\ more[i] <= n + 1
                      /\ \A j \in 1 .. i - 1 : more[j] < more[i]
                      /\ i = 1 => more[i] = 1
                      /\ i > 1 => more[i - 1] \in {Part, more[i] - 1}
    BY <1>2 DEF InOrder
  <2>1. CASE i = L + 1
    <3>1. \A j \in 1 .. i - 1 : j \in 1 .. L
      BY <1>1, <2>1
    <3>2. i = 1 => n = 0
      BY <1>1, <1>5, <2>1
    <3>3. i > 1 => i - 1 \in 1 .. L /\ i - 1 = L /\ shown # << >>
      BY <1>1, <1>4, <2>1
    <3>4. more[i] = n + 1 /\ more[i] - 1 = n
      BY <1>2, <2>1
    <3> QED BY <1>1, <1>2, <1>3, <3>1, <3>2, <3>3, <3>4
  <2>2. CASE i # L + 1
    <3>1. i \in 1 .. L /\ more[i] = shown[i]
      BY <1>1, <1>2, <2>2
    <3>2. /\ shown[i] <= n
          /\ \A j \in 1 .. i - 1 : shown[j] < shown[i]
          /\ i = 1 => shown[i] = 1
          /\ i > 1 => shown[i - 1] \in {Part, shown[i] - 1}
      BY <1>1, <3>1 DEF InOrder, L
    <3>3. \A j \in 1 .. i - 1 : j \in 1 .. L
      BY <1>1, <3>1
    <3>4. i > 1 => i - 1 \in 1 .. L
      BY <1>1, <3>1
    <3>5. shown[i] \in Nat
      BY <1>1, <3>1
    <3> QED BY <1>2, <3>1, <3>2, <3>3, <3>4, <3>5
  <2> QED BY <2>1, <2>2
<1>7. more # << >> /\ more[Len(more)] = n + 1
  BY <1>1, <1>2
<1>8. Keeps(more, n + 1)
  BY <1>2, <1>6, <1>7 DEF Keeps
<1> QED BY <1>8 DEF more

(* A part, which stands for the next line as well.                         *)
LEMMA KeepsPart ==
  ASSUME NEW shown, NEW n \in Nat, Keeps(shown, n), NEW m \in {n, n + 1}
  PROVE  Keeps(shown \o PartAfter(shown), m)
<1> DEFINE more == shown \o PartAfter(shown)
           L == Len(shown)
<1>1. /\ shown \in Seq(Nat) /\ L \in Nat /\ \A i \in 1 .. L : shown[i] \in Nat
      /\ InOrder(shown, n)
  BY DEF Keeps
<1>2. InOrder(shown, m)
  BY <1>1 DEF InOrder
<1>3. CASE shown # << >> /\ shown[L] = Part
  <2>1. more = shown
    BY <1>1, <1>3 DEF PartAfter
  <2> QED BY <1>1, <1>2, <1>3, <2>1 DEF Keeps
<1>4. CASE ~(shown # << >> /\ shown[L] = Part)
  <2>1. more = shown \o <<Part>> /\ Part \in Nat
    BY <1>4 DEF PartAfter, Part
  <2>2. /\ more \in Seq(Nat) /\ Len(more) = L + 1 /\ more[L + 1] = Part
        /\ \A i \in 1 .. L : more[i] = shown[i]
    BY <1>1, <2>1
  <2> HIDE DEF more, L
  <2>3. InOrder(more, m)
    <3> SUFFICES ASSUME NEW i \in 1 .. L + 1, more[i] # Part
                 PROVE  /\ more[i] <= m
                        /\ \A j \in 1 .. i - 1 : more[j] < more[i]
                        /\ i = 1 => more[i] = 1
                        /\ i > 1 => more[i - 1] \in {Part, more[i] - 1}
      BY <2>2 DEF InOrder
    <3>1. i \in 1 .. L /\ more[i] = shown[i]
      BY <1>1, <2>2
    <3>2. /\ shown[i] <= m
          /\ \A j \in 1 .. i - 1 : shown[j] < shown[i]
          /\ i = 1 => shown[i] = 1
          /\ i > 1 => shown[i - 1] \in {Part, shown[i] - 1}
      BY <1>2, <3>1 DEF InOrder, L
    <3>3. \A j \in 1 .. i - 1 : j \in 1 .. L
      BY <1>1, <3>1
    <3>4. i > 1 => i - 1 \in 1 .. L
      BY <1>1, <3>1
    <3> QED BY <2>2, <3>1, <3>2, <3>3, <3>4
  <2>4. more # << >> /\ more[Len(more)] = Part
    BY <1>1, <2>2
  <2>5. Keeps(more, m)
    BY <2>2, <2>3, <2>4 DEF Keeps
  <2> QED BY <2>5 DEF more
<1> QED BY <1>3, <1>4

(* What is shown of the record that r begins with, of which due pieces are *)
(* still to take.                                                          *)
Shows(ms, r, due, k, shown) ==
  IF r[1][2] = 1 /\ due <= k THEN ms[r[1][1]].lines ELSE PartAfter(shown)

(* The server takes up to k pieces of a record; it shows a line when that  *)
(* is all of one, and otherwise a part.                                    *)
LEMMA RecordReading ==
  ASSUME NEW ms \in Seq(Message), NEW r \in Seq(Piece), NEW n \in Seq(Piece), NEW w \in Seq(Piece),
         NEW shown, NEW k \in Nat, Reading(ms, r, n, w, 4, shown), Scripted(ms), r # << >>,
         NEW due, due = ms[r[1][1]].size - r[1][2] + 1, due <= Len(r)
  PROVE  due \in Nat /\ Reading(ms, After(r, Least(k, due)), n, w, 4, shown \o Shows(ms, r, due, k, shown))
<1> DEFINE new == Shows(ms, r, due, k, shown)
<1> PICK start, gone, at :
      /\ gone \in Nat /\ at \in Nat
      /\ OnTheWay(ms, r, n, w, start, gone)
      /\ IsAt(ms, start, gone, at)
      /\ Progress(start, gone, at, 4, shown)
  BY DEF Reading
<1>1. /\ at \in 1 .. Len(ms)
      /\ r[1][1] = at
      /\ ms[at].size - r[1][2] + 1 = start[at + 1] - gone
      /\ start[at + 1] - gone \in Nat \ {0}
      /\ start[at] \in Nat /\ start[at + 1] \in Nat
  BY FirstPiece
<1>2. due \in Nat /\ start[at + 1] = gone + due
  BY <1>1
<1>3. at >= 3 /\ at - 3 \in Nat /\ at + 1 - 3 = at - 3 + 1 /\ Keeps(shown, at - 3)
  <2>1. at >= 3 /\ Keeps(shown, at - 3)
    BY DEF Progress
  <2> QED BY <2>1
<1>4. ms[at].lines = <<at - 3 + 1>>
  <2>1. ms[at].lines = <<at - 2>>
    BY <1>1, <1>3 DEF Scripted
  <2> QED BY <1>3, <2>1
<1>5. CASE due <= k
  <2>1. Least(k, due) = due /\ due \in 0 .. Len(r)
    BY <1>2, <1>5 DEF Least
  <2>2. OnTheWay(ms, After(r, due), n, w, start, gone + due)
    BY <2>1, TakeOnTheWay
  <2>3. IsAt(ms, start, gone + due, at + 1)
    BY <1>1, <1>2, NextIsAt
  <2>4. Keeps(shown \o new, at - 3 + 1)
    <3>1. CASE r[1][2] = 1
      BY <1>1, <1>3, <1>4, <1>5, <3>1, KeepsLine DEF Shows
    <3>2. CASE r[1][2] # 1
      BY <1>3, <3>2, KeepsPart DEF Shows
    <3> QED BY <3>1, <3>2
  <2>5. Progress(start, gone + due, at + 1, 4, shown \o new)
    <3> DEFINE next == at + 1
               more == shown \o new
    <3>1. next >= 3 /\ next - 3 = at - 3 + 1
      BY <1>3
    <3>3. Keeps(more, next - 3)
      BY <2>4, <3>1
    <3> HIDE DEF next, more
    <3>2. Progress(start, gone + due, next, 4, more)
      BY <3>1, <3>3 DEF Progress
    <3> QED BY <3>2 DEF next, more
  <2>6. gone + due \in Nat /\ at + 1 \in Nat
    BY <1>2
  <2>7. Reading(ms, After(r, due), n, w, 4, shown \o new)
    BY <2>2, <2>3, <2>5, <2>6 DEF Reading
  <2> QED BY <1>2, <2>1, <2>7
<1>6. CASE ~(due <= k)
  <2>1. Least(k, due) = k /\ k \in 0 .. Len(r) /\ k < due
    BY <1>2, <1>6 DEF Least
  <2>2. OnTheWay(ms, After(r, k), n, w, start, gone + k)
    BY <2>1, TakeOnTheWay
  <2>3. IsAt(ms, start, gone + k, at)
    <3>1. at \in 1 .. Len(ms) + 1 /\ start[at] <= gone
      BY DEF IsAt
    <3>2. start[at] <= gone + k
      BY <1>1, <3>1
    <3>4. gone + k < start[at + 1]
      BY <1>2, <2>1
    <3> QED BY <3>1, <3>2, <3>4 DEF IsAt
  <2>4. Keeps(shown \o new, at - 3)
    BY <1>3, <1>6, KeepsPart DEF Shows
  <2>5. Progress(start, gone + k, at, 4, shown \o new)
    <3> DEFINE more == shown \o new
    <3>1. Keeps(more, at - 3)
      BY <2>4
    <3> HIDE DEF more
    <3>2. Progress(start, gone + k, at, 4, more)
      BY <1>3, <3>1 DEF Progress
    <3> QED BY <3>2 DEF more
  <2>6. gone + k \in Nat
    OBVIOUS
  <2>7. Reading(ms, After(r, k), n, w, 4, shown \o new)
    BY <2>2, <2>3, <2>5, <2>6 DEF Reading
  <2> QED BY <1>2, <2>1, <2>7
<1> QED BY <1>5, <1>6

(* What has been shown is in the order of the script.                      *)
LEMMA ShownLines ==
  ASSUME NEW ms \in Seq(Message), NEW r \in Seq(Piece), NEW n \in Seq(Piece), NEW w \in Seq(Piece),
         NEW made \in {0, 2, 4}, NEW shown, Reading(ms, r, n, w, made, shown),
         NEW t \in Nat, Len(ms) <= t + 2
  PROVE  shown \in Seq(Nat) /\ InOrder(shown, t)
<1> PICK start, gone, at :
      /\ gone \in Nat /\ at \in Nat
      /\ OnTheWay(ms, r, n, w, start, gone)
      /\ IsAt(ms, start, gone, at)
      /\ Progress(start, gone, at, made, shown)
  BY DEF Reading
<1>1. CASE made = 4
  <2>1. shown \in Seq(Nat) /\ InOrder(shown, at - 3)
    BY <1>1 DEF Progress, Keeps
  <2>2. at \in Nat /\ at - 3 <= t
    <3>1. Len(ms) \in Nat /\ at <= Len(ms) + 1
      BY DEF IsAt
    <3> QED BY <3>1
  <2>3. \A i \in 1 .. Len(shown) : shown[i] \in Nat
    BY <2>1
  <2> QED BY <2>1, <2>2, <2>3 DEF InOrder
<1>2. CASE made # 4
  <2>1. shown = << >>
    BY <1>2 DEF Progress
  <2> QED BY <2>1 DEF InOrder
<1> QED BY <1>1, <1>2

-----------------------------------------------------------------------------
(* One message at a time *)

(* When rbio holds it, it is what is due.                                  *)
LEMMA AloneDue ==
  ASSUME NEW ms \in Seq(Message), NEW r \in Seq(Piece), NEW n \in Seq(Piece), NEW w \in Seq(Piece),
         NEW made, NEW shown, Reading(ms, r, n, w, made, shown), Alone(ms, r, n, w), r # << >>
  PROVE  n = << >> /\ w = << >> /\ ms[r[1][1]].size - r[1][2] + 1 = Len(r)
<1> PICK start, gone, at :
      /\ gone \in Nat /\ at \in Nat
      /\ OnTheWay(ms, r, n, w, start, gone)
      /\ IsAt(ms, start, gone, at)
      /\ Progress(start, gone, at, made, shown)
  BY DEF Reading
<1> DEFINE L == Len(ms)
<1>1. /\ at \in 1 .. L
      /\ r[1][1] = at
      /\ ms[at].size - r[1][2] + 1 = start[at + 1] - gone
      /\ start[at + 1] - gone \in Nat \ {0}
      /\ start[at + 1] \in Nat
  BY FirstPiece
<1>2. n = << >> /\ w = << >>
  BY DEF Alone
<1>3. Len(n) = 0 /\ Len(w) = 0 /\ Len(r) \in Nat /\ Len(r) > 0 /\ L \in Nat
  BY <1>2, EmptySeq
<1>4. L > 0 /\ Len(r) = ms[L].size
  BY <1>3 DEF Alone
<1>5. start[L + 1] = gone + Len(r)
  BY <1>3 DEF OnTheWay
<1>6. /\ start[L + 1] = start[L] + ms[L].size
      /\ at + 1 <= L => start[at + 1] <= start[L]
      /\ start[L] \in Nat
  <2>1. L \in 1 .. L
    BY <1>3, <1>4
  <2>2. L \in 1 .. L + 1 /\ at + 1 \in 1 .. L + 1
    BY <1>1, <1>3, <1>4
  <2>3. /\ start \in [Nat -> Nat]
        /\ \A k \in 1 .. L : start[k + 1] = start[k] + ms[k].size
        /\ \A j, k \in 1 .. L + 1 : j <= k => start[j] <= start[k]
    BY DEF OnTheWay, Layout
  <2> HIDE DEF L
  <2>4. start[L + 1] = start[L] + ms[L].size
    BY <2>1, <2>3
  <2>5. at + 1 <= L => start[at + 1] <= start[L]
    BY <2>2, <2>3
  <2>6. start[L] \in Nat
    BY <1>3, <2>3
  <2> QED BY <2>4, <2>5, <2>6
<1> HIDE DEF L
<1>7. start[L] = gone
  BY <1>3, <1>4, <1>5, <1>6
<1>8. ~(at + 1 <= L)
  BY <1>1, <1>6, <1>7
<1>9. at = L
  BY <1>1, <1>3, <1>8
<1>10. ms[at].size - r[1][2] + 1 = Len(r)
  BY <1>1, <1>3, <1>5, <1>9
<1> QED BY <1>1, <1>2, <1>10

(* When the last line made has been shown, nothing is on the way; so it is    *)
(* when the server has answered the only message made.                     *)
LEMMA NothingOnTheWay ==
  ASSUME NEW ms \in Seq(Message), NEW r \in Seq(Piece), NEW n \in Seq(Piece), NEW w \in Seq(Piece),
         NEW made \in {0, 2, 4}, NEW shown, Reading(ms, r, n, w, made, shown),
         \/ Len(ms) = 0
         \/ Len(ms) = 1 /\ made # 0
         \/ made = 4 /\ Len(ms) = 2
         \/ made = 4 /\ Len(ms) > 2 /\ \E i \in 1 .. Len(shown) : shown[i] = Len(ms) - 2
  PROVE  Len(r) + Len(n) + Len(w) = 0
<1> PICK start, gone, at :
      /\ gone \in Nat /\ at \in Nat
      /\ OnTheWay(ms, r, n, w, start, gone)
      /\ IsAt(ms, start, gone, at)
      /\ Progress(start, gone, at, made, shown)
  BY DEF Reading
<1> DEFINE L == Len(ms)
<1>1. L \in Nat /\ Len(r) \in Nat /\ Len(n) \in Nat /\ Len(w) \in Nat
  OBVIOUS
<1>2. at \in 1 .. L + 1 /\ start[at] <= gone
  BY DEF IsAt
<1>3. start[L + 1] = gone + Len(r) + Len(n) + Len(w)
  BY DEF OnTheWay
<1>4. at = L + 1
  <2>1. CASE L = 0
    BY <1>2, <2>1
  <2>2. CASE L = 1 /\ made # 0
    <3>1. made = 2 \/ made = 4
      BY <2>2
    <3>2. at >= 2
      BY <3>1 DEF Progress
    <3> QED BY <1>2, <2>2, <3>2
  <2>3. CASE made = 4 /\ L = 2
    <3>1. at >= 3
      BY <2>3 DEF Progress
    <3> QED BY <1>2, <2>3, <3>1
  <2>4. CASE made = 4 /\ L > 2 /\ \E i \in 1 .. Len(shown) : shown[i] = L - 2
    <3>1. PICK i \in 1 .. Len(shown) : shown[i] = L - 2
      BY <2>4
    <3>2. at >= 3 /\ InOrder(shown, at - 3)
      BY <2>4 DEF Progress, Keeps
    <3> HIDE DEF L
    <3>3. shown[i] # Part
      BY <1>1, <2>4, <3>1 DEF Part
    <3>4. L - 2 <= at - 3
      BY <3>1, <3>2, <3>3 DEF InOrder
    <3> QED BY <1>1, <1>2, <3>4
  <2> QED BY <2>1, <2>2, <2>3, <2>4
<1> HIDE DEF L
<1> QED BY <1>1, <1>2, <1>3, <1>4

(* A message that is made when nothing is on the way is alone.             *)
LEMMA MakesAlone ==
  ASSUME NEW ms \in Seq(Message), NEW r \in Seq(Piece), NEW n \in Seq(Piece), NEW w \in Seq(Piece),
         NEW m \in Message, Len(r) + Len(n) + Len(w) = 0, m.size <= BUFFER_SIZE
  PROVE  Alone(Append(ms, m), r, n, w \o Pieces(Len(ms) + 1, m.size))
<1> DEFINE L == Len(ms)
           size == m.size
           new == Pieces(L + 1, size)
           all == Append(ms, m)
           longer == w \o new
<1>1. L \in Nat /\ Len(r) = 0 /\ Len(n) = 0 /\ Len(w) = 0
  OBVIOUS
<1>2. size \in Nat
  BY DEF Message
<1>3. new \in Seq(Piece) /\ Len(new) = size
  <2>1. L + 1 \in Nat
    BY <1>1
  <2> QED BY <1>2, <2>1, PiecesType
<1>4. Len(longer) = size
  <2> HIDE DEF new
  <2>1. Len(longer) = Len(w) + Len(new)
    BY <1>3, ConcatProperties
  <2> QED BY <1>1, <1>2, <1>3, <2>1
<1>5. Len(all) = L + 1 /\ all[Len(all)].size = size
  BY AppendProperties
<1>6. r = << >> /\ n = << >>
  BY <1>1, EmptySeq
<1>7. size <= BUFFER_SIZE
  OBVIOUS
<1> HIDE DEF L, size, new, all, longer
<1>8. Alone(all, r, n, longer)
  BY <1>1, <1>2, <1>4, <1>5, <1>6, <1>7 DEF Alone
<1> QED BY <1>8 DEF L, size, new, all, longer

(* One write() takes all of it, and leaves it alone.                       *)
LEMMA WriteAlone ==
  ASSUME NEW ms \in Seq(Message), NEW r \in Seq(Piece), NEW n \in Seq(Piece), NEW w \in Seq(Piece),
         Alone(ms, r, n, w), w # << >>
  PROVE  LET k == Least(BUFFER_SIZE, Len(w))
         IN  Alone(ms, r, n \o SubSeq(w, 1, k), After(w, k))
<1> DEFINE k == Least(BUFFER_SIZE, Len(w))
           v == After(w, k)
           x == n \o SubSeq(w, 1, k)
<1>1. r = << >> /\ n = << >>
  BY DEF Alone
<1>2. Len(r) = 0 /\ Len(n) = 0 /\ Len(w) \in Nat /\ Len(w) > 0
  BY <1>1, EmptySeq
<1>3. Len(ms) > 0 /\ Len(w) = ms[Len(ms)].size /\ Len(w) <= BUFFER_SIZE
  BY <1>2 DEF Alone
<1>4. k = Len(w)
  BY <1>2, <1>3, BioExchangeAssumption DEF Least
<1>5. /\ v \in Seq(Piece) /\ Len(v) = 0
      /\ SubSeq(w, 1, k) \in Seq(Piece) /\ Len(SubSeq(w, 1, k)) = Len(w)
  BY <1>2, <1>4, Parts
<1>6. v = << >>
  BY <1>5, EmptySeq
<1>7. Len(x) = Len(w)
  <2> DEFINE u == SubSeq(w, 1, k)
  <2>1. u \in Seq(Piece) /\ Len(u) = Len(w)
    BY <1>5
  <2> HIDE DEF u
  <2>2. Len(n \o u) = Len(n) + Len(u)
    BY <2>1, ConcatProperties
  <2> QED BY <1>2, <2>1, <2>2 DEF u
<1> HIDE DEF k, v, x
<1>8. Alone(ms, r, x, v)
  BY <1>1, <1>2, <1>3, <1>5, <1>6, <1>7 DEF Alone
<1> QED BY <1>8 DEF k, v, x

(* So does one read().                                                     *)
LEMMA ReadAlone ==
  ASSUME NEW ms \in Seq(Message), NEW r \in Seq(Piece), NEW n \in Seq(Piece), NEW w \in Seq(Piece),
         NEW k \in 0 .. Len(n), Alone(ms, r, n, w), n # << >>,
         After(n, k) = << >> \/ k = BUFFER_SIZE
  PROVE  /\ r = << >>
         /\ k = Len(n)
         /\ Alone(ms, r \o SubSeq(n, 1, k), After(n, k), w)
<1> DEFINE v == After(n, k)
           x == r \o SubSeq(n, 1, k)
<1>1. r = << >> /\ w = << >>
  BY DEF Alone
<1>2. Len(r) = 0 /\ Len(w) = 0 /\ Len(n) \in Nat /\ Len(n) > 0
  BY <1>1, EmptySeq
<1>3. Len(ms) > 0 /\ Len(n) = ms[Len(ms)].size /\ Len(n) <= BUFFER_SIZE
  BY <1>2 DEF Alone
<1>4. /\ v \in Seq(Piece) /\ Len(v) = Len(n) - k
      /\ SubSeq(n, 1, k) \in Seq(Piece) /\ Len(SubSeq(n, 1, k)) = k
  BY Parts
<1>5. k = Len(n)
  <2>1. CASE v = << >>
    <3>1. Len(v) = 0
      BY <2>1
    <3> HIDE DEF v
    <3> QED BY <1>2, <1>4, <3>1
  <2>2. CASE k = BUFFER_SIZE
    BY <1>2, <1>3, <2>2, BioExchangeAssumption
  <2> QED BY <2>1, <2>2
<1>6. Len(v) = 0 /\ v = << >>
  <2> HIDE DEF v
  <2> QED BY <1>2, <1>4, <1>5, EmptySeq
<1>7. Len(x) = Len(n)
  <2> DEFINE u == SubSeq(n, 1, k)
  <2>1. u \in Seq(Piece) /\ Len(u) = Len(n)
    BY <1>4, <1>5
  <2> HIDE DEF u
  <2>2. Len(r \o u) = Len(r) + Len(u)
    BY <2>1, ConcatProperties
  <2> QED BY <1>2, <2>1, <2>2 DEF u
<1> HIDE DEF v, x
<1>8. Alone(ms, x, v, w)
  BY <1>1, <1>2, <1>3, <1>6, <1>7 DEF Alone
<1> QED BY <1>1, <1>5, <1>8 DEF v, x

(* SSL_read and SSL_do_handshake take all of it.                           *)
LEMMA TakeAlone ==
  ASSUME NEW ms \in Seq(Message), NEW r \in Seq(Piece), NEW n \in Seq(Piece), NEW w \in Seq(Piece),
         Alone(ms, r, n, w), r # << >>
  PROVE  Alone(ms, After(r, Len(r)), n, w)
<1>1. n = << >> /\ w = << >>
  BY DEF Alone
<1>2. Len(r) \in Nat /\ Len(r) \in 0 .. Len(r)
  OBVIOUS
<1> DEFINE v == After(r, Len(r))
<1>3. v \in Seq(Piece) /\ Len(v) = 0
  BY <1>2, Parts
<1> HIDE DEF v
<1>4. v = << >> /\ Len(n) = 0 /\ Len(w) = 0
  BY <1>1, <1>3, EmptySeq
<1>5. Alone(ms, v, n, w)
  BY <1>1, <1>3, <1>4 DEF Alone
<1> QED BY <1>5 DEF v

-----------------------------------------------------------------------------
(* The inductive invariant *)

(* Each end is the peer of the other.                                      *)
LEMMA BothEnds ==
  /\ Ends = {"client", "server"}
  /\ "client" \in Ends /\ "server" \in Ends
  /\ Peer("client") = "server" /\ Peer("server") = "client"
  /\ \A e \in Ends : Peer(e) \in Ends
  BY DEF Ends, Peer

(* At the start nothing has been made.                                     *)
LEMMA InitIInv == Init => IInv
<1> SUFFICES ASSUME Init PROVE IInv
  OBVIOUS
<1>1. Types
  <2>1. /\ << >> \in Seq(Message) /\ << >> \in Seq(Piece) /\ << >> \in Seq(Nat)
        /\ 0 \in 0 .. 4 /\ 0 \in Nat /\ 0 \in 0 .. BUFFER_SIZE /\ "handshake" \in Places
    BY BioExchangeAssumption DEF Places
  <2> QED BY <2>1 DEF Init, TlsInit, Types
<1>2. Script
  BY BothEnds DEF Init, TlsInit, Script, FlightsMade, Scripted
<1>3. Silent
  BY BothEnds DEF Init, TlsInit, Silent
<1>4. Reading(<< >>, << >>, << >>, << >>, 0, << >>)
  <2> DEFINE start == [k \in Nat |-> 0]
  <2>1. Layout(<< >>, start)
    BY DEF Layout
  <2>2. start[1] = 0
    OBVIOUS
  <2> HIDE DEF start
  <2>3. OnTheWay(<< >>, << >>, << >>, << >>, start, 0)
    BY <2>1, <2>2 DEF OnTheWay, Laid
  <2>4. IsAt(<< >>, start, 0, 1)
    BY <2>2 DEF IsAt
  <2>5. Progress(start, 0, 1, 0, << >>)
    BY <2>2 DEF Progress
  <2> QED BY <2>3, <2>4, <2>5 DEF Reading
<1>5. Stream
  BY <1>4, BothEnds DEF Stream, Init, TlsInit
<1>6. OneAtATime
  BY BothEnds DEF OneAtATime, Init, TlsInit, Alone
<1> QED BY <1>1, <1>2, <1>3, <1>5, <1>6 DEF IInv

(* The handshake's loop ends.                                              *)
LEMMA HandshakeDoneKeepsIInv == \A e \in Ends : IInv /\ HandshakeDone(e) => IInv'
<1> SUFFICES ASSUME NEW e \in Ends, IInv, HandshakeDone(e) PROVE IInv'
  OBVIOUS
<1>1. /\ UNCHANGED <<flights, messages, rbio, wbio, net, broken, receivedBytes, typed, printed, orderly>>
      /\ pc[e] = "handshake" /\ pc' = [pc EXCEPT ![e] = "talk"]
      /\ flights[e] >= IF e = "client" THEN ClientDone ELSE 4
  BY DEF HandshakeDone, Goto, tlsVars, SSL_is_init_finished
<1>2. Types'
  BY <1>1 DEF IInv, Types, Places
<1>3. Script'
  <2>1. e = "client" => flights[e] >= 3
    <3>0. flights[e] \in 0 .. 4
      BY DEF IInv, Types
    <3>1. flights[e] \in Nat
      BY <3>0
    <3>2. CASE e = "client"
      <4>1. flights[e] >= ClientDone
        BY <1>1, <3>2
      <4> QED BY <3>1, <4>1, TlsLibraryAssumption
    <3> QED BY <3>2
  <2>2. e = "server" => flights[e] = 4
    BY <1>1 DEF IInv, Script
  <2> QED BY <1>1, <2>1, <2>2, BothEnds DEF IInv, Script, Types
<1>4. Silent' /\ Stream' /\ OneAtATime'
  <2>1. Silent'
    BY <1>1 DEF IInv, Silent
  <2>2. /\ (pc'["server"] = "decrypt" => pc["server"] = "decrypt")
        /\ \A x \in Ends : Up(x)' => Up(x)
    BY <1>1, BothEnds DEF IInv, Types, Up
  <2>3. Stream'
    BY <1>1, <2>2, BothEnds DEF IInv, Stream
  <2>4. OneAtATime'
    BY <1>1, <2>2, BothEnds DEF IInv, OneAtATime
  <2> QED BY <2>1, <2>3, <2>4
<1> QED BY <1>2, <1>3, <1>4 DEF IInv

(* A program ends, and what it has not read is gone.                       *)
LEMMA EndKeepsIInv == \A e \in Ends : IInv /\ End(e) => IInv'
<1> SUFFICES ASSUME NEW e \in Ends, IInv, End(e) PROVE IInv'
  OBVIOUS
<1>1. /\ UNCHANGED <<flights, messages, rbio, wbio, receivedBytes, typed, printed, orderly>>
      /\ pc' = [pc EXCEPT ![e] = "closed"]
      /\ net' = [net EXCEPT ![Peer(e)] = << >>]
      /\ broken' = [broken EXCEPT ![Peer(e)] = @ \/ net[Peer(e)] # << >>]
  BY DEF End, Disconnect, Goto
<1>2. Types'
  <2>1. broken' \in [Ends -> BOOLEAN]
    BY <1>1, BothEnds DEF IInv, Types
  <2>2. net' \in [Ends -> Seq(Piece)]
    BY <1>1, BothEnds DEF IInv, Types
  <2> QED BY <1>1, <2>1, <2>2 DEF IInv, Types, Places
<1>3. Script'
  BY <1>1, BothEnds DEF IInv, Script, Types
<1>4. Silent'
  BY <1>1, BothEnds DEF IInv, Silent, Types
<1>5. ~Up(e)'
  BY <1>1 DEF IInv, Types, Up
<1>6. OneAtATime'
  BY <1>5, BothEnds DEF OneAtATime
<1>7. Stream'
  <2>1. CASE e = "server"
    BY <1>5, <2>1 DEF Stream
  <2>2. CASE e = "client"
    <3>1. net'["client"] = net["client"] /\ (Up("server")' => Up("server"))
      BY <1>1, <2>2, BothEnds DEF IInv, Types, Up
    <3> QED BY <1>1, <3>1 DEF IInv, Stream
  <2> QED BY <2>1, <2>2, BothEnds
<1> QED BY <1>2, <1>3, <1>4, <1>6, <1>7 DEF IInv

-----------------------------------------------------------------------------
(* The client makes a message *)

(* What the client makes next follows the script.                          *)
LEMMA ScriptedMore ==
  ASSUME NEW ms \in Seq(Message), NEW m \in Message, Scripted(ms),
         IF Len(ms) < 2 THEN m.lines = << >> /\ m.size = FlightSize
                        ELSE m.lines = <<Len(ms) - 1>>
  PROVE  Scripted(Append(ms, m))
<1> DEFINE L == Len(ms)
           all == Append(ms, m)
<1>1. L \in Nat
  OBVIOUS
<1>2. Len(all) = L + 1 /\ all[L + 1] = m /\ \A k \in 1 .. L : all[k] = ms[k]
  BY AppendProperties
<1>3. IF L < 2 THEN m.lines = << >> /\ m.size = FlightSize ELSE m.lines = <<L - 1>>
  OBVIOUS
<1>4. \A k \in 1 .. L : IF k <= 2 THEN ms[k].lines = << >> /\ ms[k].size = FlightSize
                                  ELSE ms[k].lines = <<k - 2>>
  BY DEF Scripted
<1> HIDE DEF L, all
<1>5. ASSUME NEW k \in 1 .. L + 1
      PROVE  IF k <= 2 THEN all[k].lines = << >> /\ all[k].size = FlightSize
                       ELSE all[k].lines = <<k - 2>>
  <2>1. CASE k = L + 1
    <3>1. (k <= 2 <=> L < 2) /\ k - 2 = L - 1
      BY <1>1, <2>1
    <3> QED BY <1>2, <1>3, <2>1, <3>1
  <2>2. CASE k # L + 1
    <3>1. k \in 1 .. L
      BY <1>1, <2>2
    <3> QED BY <1>2, <1>4, <3>1
  <2> QED BY <2>1, <2>2
<1>6. Scripted(all)
  BY <1>2, <1>5 DEF Scripted
<1> QED BY <1>6 DEF all

(* Whatever it makes is behind all it has made before.                     *)
LEMMA ClientMakes ==
  ASSUME IInv, NEW m \in Message,
         messages' = [messages EXCEPT !["client"] = Append(@, m)],
         wbio' = [wbio EXCEPT !["client"] = @ \o Pieces(Len(messages["client"]) + 1, m.size)],
         rbio'["server"] = rbio["server"], flights'["server"] = flights["server"],
         pc'["server"] = pc["server"], UNCHANGED <<net, receivedBytes, printed, orderly>>,
         Up("client"),
         orderly =>
           /\ m.size <= BUFFER_SIZE
           /\ \/ Len(messages["client"]) = 0
              \/ Len(messages["client"]) = 1 /\ flights["server"] # 0
              \/ flights["server"] = 4 /\ Len(messages["client"]) = 2
              \/ /\ flights["server"] = 4 /\ Len(messages["client"]) > 2
                 /\ Printed(Len(messages["client"]) - 2)
  PROVE  /\ messages' \in [Ends -> Seq(Message)]
         /\ wbio' \in [Ends -> Seq(Piece)]
         /\ messages'["client"] = Append(messages["client"], m)
         /\ wbio'["server"] = wbio["server"]
         /\ Stream'
         /\ OneAtATime'
<1> DEFINE ms == messages["client"]
           w == wbio["client"]
           new == Pieces(Len(ms) + 1, m.size)
<1>1. /\ messages \in [Ends -> Seq(Message)] /\ wbio \in [Ends -> Seq(Piece)]
      /\ rbio \in [Ends -> Seq(Piece)] /\ net \in [Ends -> Seq(Piece)]
  BY DEF IInv, Types
<1>2. /\ ms \in Seq(Message) /\ w \in Seq(Piece)
      /\ rbio["server"] \in Seq(Piece) /\ net["client"] \in Seq(Piece)
  BY <1>1, BothEnds
<1>3. new \in Seq(Piece)
  <2>1. Len(ms) + 1 \in Nat
    BY <1>2
  <2>2. m.size \in Nat
    BY DEF Message
  <2> QED BY <2>1, <2>2, PiecesType
<1>4. Append(ms, m) \in Seq(Message) /\ w \o new \in Seq(Piece)
  BY <1>2, <1>3, AppendProperties, ConcatProperties
<1>5. /\ messages' = [messages EXCEPT !["client"] = Append(ms, m)]
      /\ wbio' = [wbio EXCEPT !["client"] = w \o new]
  OBVIOUS
<1> HIDE DEF ms, w, new
<1>6. messages' \in [Ends -> Seq(Message)] /\ wbio' \in [Ends -> Seq(Piece)]
  BY <1>1, <1>4, <1>5
<1>7. /\ messages'["client"] = Append(ms, m) /\ wbio'["client"] = w \o new
      /\ wbio'["server"] = wbio["server"]
  BY <1>1, <1>5, BothEnds
<1>8. Up("server")' => Up("server")
  BY DEF Up
<1>9. Up("server") => Reading(ms, rbio["server"], net["client"], w, flights["server"], printed)
  BY DEF IInv, Stream, ms, w
<1>10. Stream'
  <2> SUFFICES ASSUME Up("server")
               PROVE  Reading(Append(ms, m), rbio["server"], net["client"], w \o new,
                              flights["server"], printed)
    BY <1>7, <1>8 DEF Stream
  <2> QED BY <1>2, <1>9, MakesReading DEF new
<1>11. ASSUME orderly, Up("server")
       PROVE  Alone(Append(ms, m), rbio["server"], net["client"], w \o new)
  <2>1. flights["server"] \in {0, 2, 4}
    BY DEF IInv, Script
  <2>2. Len(rbio["server"]) + Len(net["client"]) + Len(w) = 0
    <3>1. \/ Len(ms) = 0
          \/ Len(ms) = 1 /\ flights["server"] # 0
          \/ flights["server"] = 4 /\ Len(ms) = 2
          \/ /\ flights["server"] = 4 /\ Len(ms) > 2
             /\ \E i \in 1 .. Len(printed) : printed[i] = Len(ms) - 2
      BY <1>11 DEF Printed, ms
    <3> QED BY <1>2, <1>9, <1>11, <2>1, <3>1, NothingOnTheWay
  <2> QED BY <1>2, <1>11, <2>2, MakesAlone DEF new
<1>12. OneAtATime'
  BY <1>7, <1>8, <1>11 DEF IInv, OneAtATime
<1> QED BY <1>6, <1>7, <1>10, <1>12 DEF ms

(* The client's flights: the second one answers the server's.              *)
LEMMA ClientHandshakeKeepsIInv == IInv /\ Handshake("client") => IInv'
<1> SUFFICES ASSUME IInv, Handshake("client") PROVE IInv'
  OBVIOUS
<1> DEFINE f == flights["client"]
           ms == messages["client"]
<1>1. /\ pc["client"] = "handshake" /\ pc' = [pc EXCEPT !["client"] = "output"]
      /\ ~SSL_is_init_finished("client") /\ SSL_do_handshake("client")
      /\ UNCHANGED <<net, broken, receivedBytes, typed, printed, orderly>>
  BY DEF Handshake, Goto
<1>2. /\ pc' \in [Ends -> Places] /\ pc'["client"] = "output" /\ pc'["server"] = pc["server"]
      /\ Up("client")
  BY <1>1, BothEnds DEF IInv, Types, Places, Up
<1>3. f \in {0, 1, 3} /\ (f = 3 => ClientDone = 4)
  BY <1>1, TlsLibraryAssumption DEF IInv, Script, SSL_is_init_finished
<1>4. /\ typed \in Nat /\ Len(ms) = FlightsMade(f) + typed
      /\ f < 3 => typed = 0
  <2>1. typed \in Nat
    BY BothEnds DEF IInv, Types
  <2> QED BY <1>3, <2>1 DEF IInv, Script
<1>5. ASSUME NEW g \in {1, 3}, g = 1 => f = 0, g = 3 => f = 1 /\ flights["server"] # 0,
             MakesFlight("client", g), rbio'["server"] = rbio["server"]
      PROVE  /\ flights' \in [Ends -> 0 .. 4] /\ messages' \in [Ends -> Seq(Message)]
             /\ wbio' \in [Ends -> Seq(Piece)]
             /\ wbio'["server"] = wbio["server"] /\ flights'["server"] = flights["server"]
             /\ Script' /\ Stream' /\ OneAtATime'
  <2> DEFINE m == [flight |-> g, lines |-> << >>, size |-> FlightSize]
  <2>1. /\ flights' = [flights EXCEPT !["client"] = g]
        /\ messages' = [messages EXCEPT !["client"] = Append(@, m)]
        /\ wbio' = [wbio EXCEPT !["client"] = @ \o Pieces(Len(messages["client"]) + 1, m.size)]
    BY <1>5 DEF MakesFlight, Makes, Pieces
  <2>2. m \in Message /\ m.size = FlightSize /\ m.lines = << >>
    BY TlsLibraryAssumption DEF Message
  <2>3. /\ flights' \in [Ends -> 0 .. 4]
        /\ flights'["client"] = g /\ flights'["server"] = flights["server"]
    BY <2>1, BothEnds DEF IInv, Types
  <2> HIDE DEF m
  <2>4. Len(ms) = IF g = 1 THEN 0 ELSE 1
    <3>1. CASE g = 1
      <4>1. FlightsMade(f) = 0 /\ typed = 0
        BY <1>4, <1>5, <3>1 DEF FlightsMade
      <4> QED BY <1>4, <3>1, <4>1
    <3>2. CASE g = 3
      <4>1. FlightsMade(f) = 1 /\ typed = 0
        BY <1>4, <1>5, <3>2 DEF FlightsMade
      <4> QED BY <1>4, <3>2, <4>1
    <3> QED BY <3>1, <3>2
  <2>5. /\ messages' \in [Ends -> Seq(Message)]
        /\ wbio' \in [Ends -> Seq(Piece)]
        /\ messages'["client"] = Append(ms, m)
        /\ wbio'["server"] = wbio["server"]
        /\ Stream'
        /\ OneAtATime'
    <3>1. m.size <= BUFFER_SIZE
      BY <2>2, BioExchangeAssumption
    <3>2. Len(ms) = 0 \/ (Len(ms) = 1 /\ flights["server"] # 0)
      BY <1>5, <2>4
    <3> QED BY <1>1, <1>2, <1>5, <2>1, <2>2, <2>3, <3>1, <3>2, ClientMakes
  <2>6. Script'
    <3>1. ms \in Seq(Message)
      BY BothEnds DEF IInv, Types
    <3>2. Len(Append(ms, m)) = FlightsMade(g) + typed
      <4>1. Len(Append(ms, m)) = Len(ms) + 1
        BY <3>1, AppendProperties
      <4> QED BY <1>4, <1>5, <2>4, <4>1 DEF FlightsMade
    <3>3. Scripted(Append(ms, m))
      <4>1. Scripted(ms)
        BY DEF IInv, Script
      <4> QED BY <2>2, <2>4, <3>1, <4>1, ScriptedMore
    <3>4. typed = 0
      BY <1>4, <1>5
    <3> QED BY <1>1, <1>2, <2>3, <2>5, <3>2, <3>3, <3>4 DEF IInv, Script
  <2> QED BY <2>1, <2>3, <2>5, <2>6
<1>6. CASE ClientHello("client") /\ MakesFlight("client", 1) /\ UNCHANGED rbio
  <2>1. /\ flights' \in [Ends -> 0 .. 4] /\ messages' \in [Ends -> Seq(Message)]
        /\ wbio' \in [Ends -> Seq(Piece)]
        /\ wbio'["server"] = wbio["server"] /\ flights'["server"] = flights["server"]
        /\ Script' /\ Stream' /\ OneAtATime'
    BY <1>5, <1>6 DEF ClientHello
  <2>2. Types'
    BY <1>1, <1>2, <1>6, <2>1 DEF IInv, Types
  <2>3. Silent'
    BY <1>1, <1>6, <2>1 DEF IInv, Silent
  <2> QED BY <2>1, <2>2, <2>3 DEF IInv
<1>7. CASE /\ ~ClientHello("client") /\ Whole("client")
           /\ Takes("client", FlightSize)
           /\ IF f = 3
              THEN flights' = [flights EXCEPT !["client"] = 4] /\ UNCHANGED <<messages, wbio>>
              ELSE MakesFlight("client", f + 2)
  <2>1. rbio["client"] # << >>
    BY <1>7 DEF Whole
  <2>2. flights["server"] # 0
    BY <2>1 DEF IInv, Silent
  <2>3. rbio' \in [Ends -> Seq(Piece)] /\ rbio'["server"] = rbio["server"]
    <3>1. FlightSize \in Nat /\ rbio \in [Ends -> Seq(Piece)]
      BY TlsLibraryAssumption DEF IInv, Types
    <3>2. After(rbio["client"], FlightSize) \in Seq(Piece)
      BY <3>1, AfterSeq, BothEnds
    <3> QED BY <1>7, <3>1, <3>2, BothEnds DEF Takes
  <2>4. f # 0
    BY <1>7 DEF ClientHello
  <2>5. CASE f = 1
    <3>1. MakesFlight("client", 3)
      BY <1>7, <2>5
    <3>2. /\ flights' \in [Ends -> 0 .. 4] /\ messages' \in [Ends -> Seq(Message)]
          /\ wbio' \in [Ends -> Seq(Piece)]
          /\ wbio'["server"] = wbio["server"] /\ flights'["server"] = flights["server"]
          /\ Script' /\ Stream' /\ OneAtATime'
      BY <1>5, <2>2, <2>3, <2>5, <3>1
    <3>3. Types'
      BY <1>1, <1>2, <2>3, <3>2 DEF IInv, Types
    <3>4. Silent'
      BY <2>2, <3>2 DEF Silent
    <3> QED BY <3>2, <3>3, <3>4 DEF IInv
  <2>6. CASE f = 3
    <3>1. flights' = [flights EXCEPT !["client"] = 4] /\ UNCHANGED <<messages, wbio>>
      BY <1>7, <2>6
    <3>2. /\ flights' \in [Ends -> 0 .. 4]
          /\ flights'["client"] = 4 /\ flights'["server"] = flights["server"]
      BY <3>1, BothEnds DEF IInv, Types
    <3>3. Types'
      BY <1>1, <1>2, <2>3, <3>1, <3>2 DEF IInv, Types
    <3>4. Silent'
      BY <2>2, <3>2 DEF Silent
    <3>5. Script'
      BY <1>1, <1>2, <1>4, <2>6, <3>1, <3>2 DEF IInv, Script, FlightsMade
    <3>6. Up("server")' => Up("server")
      BY <1>2 DEF Up
    <3>7. Stream'
      BY <1>1, <2>3, <3>1, <3>2, <3>6 DEF IInv, Stream
    <3>8. OneAtATime'
      BY <1>1, <1>2, <2>3, <3>1, <3>6 DEF IInv, OneAtATime
    <3> QED BY <3>3, <3>4, <3>5, <3>7, <3>8 DEF IInv
  <2> QED BY <1>3, <2>4, <2>5, <2>6
<1>8. CASE UNCHANGED <<flights, messages, rbio, wbio>>
  <2>1. Types'
    BY <1>1, <1>2, <1>8 DEF IInv, Types
  <2>2. Script'
    BY <1>1, <1>2, <1>8 DEF IInv, Script
  <2>3. Silent'
    BY <1>1, <1>8 DEF IInv, Silent
  <2>4. Up("server")' => Up("server")
    BY <1>2 DEF Up
  <2>5. Stream'
    BY <1>1, <1>8, <2>4 DEF IInv, Stream
  <2>6. OneAtATime'
    BY <1>1, <1>2, <1>8, <2>4 DEF IInv, OneAtATime
  <2> QED BY <2>1, <2>2, <2>3, <2>5, <2>6 DEF IInv
<1> QED BY <1>1, <1>6, <1>7, <1>8 DEF SSL_do_handshake

(* The client types a line.                                                *)
LEMMA WriteToSocketKeepsIInv == IInv /\ WriteToSocket => IInv'
<1> SUFFICES ASSUME IInv, WriteToSocket PROVE IInv'
  OBVIOUS
<1> DEFINE ms == messages["client"]
           t == typed
<1>1. PICK size \in LineSizes :
        (orderly => size <= BUFFER_SIZE) /\ SSL_write("client", <<typed'>>, size)
  BY DEF WriteToSocket, Writes
<1>2. /\ pc["client"] = "talk" /\ pc' = [pc EXCEPT !["client"] = "flush"]
      /\ orderly => pc["server"] = "talk" /\ (t = 0 \/ Printed(t))
      /\ typed' = t + 1
      /\ UNCHANGED <<net, broken, receivedBytes, printed, orderly, flights, rbio>>
  BY <1>1 DEF WriteToSocket, Writes, Goto, SSL_write
<1>3. t \in Nat /\ typed' \in Nat /\ typed' = t + 1
  <2>1. t \in Nat
    BY DEF IInv, Types
  <2> QED BY <1>2, <2>1
<1>4. /\ pc' \in [Ends -> Places] /\ pc'["client"] = "flush" /\ pc'["server"] = pc["server"]
      /\ Up("client")
  BY <1>2, BothEnds DEF IInv, Types, Places, Up
<1>5. flights["client"] \in {3, 4} /\ Len(ms) = t + 2
  <2>1. flights["client"] \in {3, 4} /\ Len(ms) = FlightsMade(flights["client"]) + t
    BY <1>2 DEF IInv, Script
  <2>2. FlightsMade(flights["client"]) = 2
    BY <2>1 DEF FlightsMade
  <2> QED BY <1>3, <2>1, <2>2
<1>6. size \in Nat \ {0}
  BY BioExchangeAssumption
<1> DEFINE m == [flight |-> 0, lines |-> <<t + 1>>, size |-> size]
<1>7. m \in Message /\ m.size = size /\ m.lines = <<t + 1>>
  <2>1. <<t + 1>> \in Seq(Nat)
    BY <1>3
  <2> QED BY <1>6, <2>1 DEF Message
<1>8. /\ messages' = [messages EXCEPT !["client"] = Append(@, m)]
      /\ wbio' = [wbio EXCEPT !["client"] = @ \o Pieces(Len(messages["client"]) + 1, m.size)]
  BY <1>1, <1>3 DEF SSL_write, Makes, Pieces
<1> HIDE DEF m
<1>9. /\ messages' \in [Ends -> Seq(Message)]
      /\ wbio' \in [Ends -> Seq(Piece)]
      /\ messages'["client"] = Append(ms, m)
      /\ wbio'["server"] = wbio["server"]
      /\ Stream'
      /\ OneAtATime'
  <2>1. ASSUME orderly
        PROVE  /\ m.size <= BUFFER_SIZE /\ flights["server"] = 4
               /\ \/ Len(ms) = 2
                  \/ Len(ms) > 2 /\ Printed(Len(ms) - 2)
    <3>1. m.size <= BUFFER_SIZE /\ flights["server"] = 4
      BY <1>1, <1>2, <1>7, <2>1 DEF IInv, Script
    <3>2. t = Len(ms) - 2 /\ (t = 0 \/ Printed(t))
      BY <1>2, <1>3, <1>5, <2>1
    <3>3. CASE t = 0
      <4>1. Len(ms) = 2
        BY <1>5, <3>3
      <4> QED BY <3>1, <4>1
    <3>4. CASE t # 0
      <4>1. Len(ms) > 2
        BY <1>3, <1>5, <3>4
      <4> QED BY <3>1, <3>2, <3>4, <4>1
    <3> QED BY <3>3, <3>4
  <2> QED BY <1>2, <1>4, <1>7, <1>8, <2>1, ClientMakes
<1>10. Script'
  <2>1. ms \in Seq(Message)
    BY BothEnds DEF IInv, Types
  <2>2. Len(Append(ms, m)) = Len(ms) + 1
    BY <2>1, AppendProperties
  <2>3. Scripted(Append(ms, m))
    <3>1. Scripted(ms)
      BY DEF IInv, Script
    <3>2. ~(Len(ms) < 2) /\ Len(ms) - 1 = t + 1
      BY <1>3, <1>5
    <3> QED BY <1>7, <2>1, <3>1, <3>2, ScriptedMore
  <2>4. Len(messages'["client"]) = FlightsMade(flights'["client"]) + typed'
    BY <1>2, <1>3, <1>5, <1>9, <2>2 DEF FlightsMade
  <2> QED BY <1>2, <1>4, <1>5, <1>9, <2>3, <2>4 DEF IInv, Script
<1>11. Types'
  BY <1>2, <1>3, <1>4, <1>9 DEF IInv, Types
<1>12. Silent'
  BY <1>2, <1>9 DEF IInv, Silent
<1> QED BY <1>9, <1>10, <1>11, <1>12 DEF IInv

-----------------------------------------------------------------------------
(* The server takes what has come *)

(* What the SSL object of the server finds in rbio.                        *)
LEMMA ServerFront ==
  /\ Front("server") = messages["client"][rbio["server"][1][1]]
  /\ Due("server") = Front("server").size - rbio["server"][1][2] + 1
  /\ Whole("server") <=> rbio["server"] # << >> /\ Due("server") <= Len(rbio["server"])
  BY BothEnds DEF Front, Due, Whole

(* When one message is on the way, no read leaves a part of it.            *)
LEMMA ServerDue ==
  ASSUME IInv, orderly, Up("client"), Up("server"), rbio["server"] # << >>
  PROVE  Due("server") = Len(rbio["server"])
<1>1. /\ messages["client"] \in Seq(Message) /\ rbio["server"] \in Seq(Piece)
      /\ net["client"] \in Seq(Piece) /\ wbio["client"] \in Seq(Piece)
  BY BothEnds DEF IInv, Types
<1>2. /\ Reading(messages["client"], rbio["server"], net["client"], wbio["client"],
                 flights["server"], printed)
      /\ Alone(messages["client"], rbio["server"], net["client"], wbio["client"])
  BY DEF IInv, Stream, OneAtATime
<1> QED BY <1>1, <1>2, AloneDue, ServerFront

(* The server's flights answer the client's.                               *)
LEMMA ServerHandshakeKeepsIInv == IInv /\ Handshake("server") => IInv'
<1> SUFFICES ASSUME IInv, Handshake("server") PROVE IInv'
  OBVIOUS
<1> DEFINE f == flights["server"]
           r == rbio["server"]
           ms == messages["client"]
           n == net["client"]
           w == wbio["client"]
           shown == printed
<1>1. /\ pc["server"] = "handshake" /\ pc' = [pc EXCEPT !["server"] = "output"]
      /\ ~SSL_is_init_finished("server") /\ SSL_do_handshake("server")
      /\ UNCHANGED <<net, broken, receivedBytes, typed, printed, orderly>>
  BY DEF Handshake, Goto
<1>2. /\ pc' \in [Ends -> Places] /\ pc'["server"] = "output" /\ pc'["client"] = pc["client"]
      /\ Up("server") /\ (Up("client")' => Up("client"))
  BY <1>1, BothEnds DEF IInv, Types, Places, Up
<1>3. f \in {0, 2}
  BY <1>1 DEF IInv, Script, SSL_is_init_finished
<1>4. ~ClientHello("server")
  BY DEF ClientHello
<1>5. /\ ms \in Seq(Message) /\ r \in Seq(Piece) /\ n \in Seq(Piece) /\ w \in Seq(Piece)
      /\ rbio \in [Ends -> Seq(Piece)] /\ wbio \in [Ends -> Seq(Piece)]
      /\ messages \in [Ends -> Seq(Message)]
  BY BothEnds DEF IInv, Types
<1>6. Reading(ms, r, n, w, f, shown)
  BY <1>2 DEF IInv, Stream
<1>7. CASE Whole("server") /\ Takes("server", FlightSize) /\ MakesFlight("server", f + 2)
  <2> DEFINE m == [flight |-> f + 2, lines |-> << >>, size |-> FlightSize]
             new == Pieces(Len(messages["server"]) + 1, FlightSize)
  <2>1. /\ flights' = [flights EXCEPT !["server"] = f + 2]
        /\ messages' = [messages EXCEPT !["server"] = Append(@, m)]
        /\ wbio' = [wbio EXCEPT !["server"] = @ \o new]
        /\ rbio' = [rbio EXCEPT !["server"] = After(r, FlightSize)]
    BY <1>7 DEF MakesFlight, Makes, Pieces, Takes
  <2>2. m \in Message
    <3>1. f + 2 \in 0 .. 4
      BY <1>3
    <3> QED BY <3>1, TlsLibraryAssumption DEF Message
  <2>3. FlightSize \in Nat /\ new \in Seq(Piece)
    <3>1. FlightSize \in Nat /\ Len(messages["server"]) + 1 \in Nat
      BY <1>5, TlsLibraryAssumption, BothEnds
    <3> QED BY <3>1, PiecesType
  <2> HIDE DEF m, new
  <2>4. /\ Append(messages["server"], m) \in Seq(Message)
        /\ wbio["server"] \o new \in Seq(Piece)
        /\ After(r, FlightSize) \in Seq(Piece)
    BY <1>5, <2>2, <2>3, AfterSeq, AppendProperties, ConcatProperties, BothEnds
  <2>5. /\ messages' \in [Ends -> Seq(Message)] /\ messages'["client"] = ms
        /\ wbio' \in [Ends -> Seq(Piece)] /\ wbio'["client"] = w
        /\ rbio' \in [Ends -> Seq(Piece)] /\ rbio'["client"] = rbio["client"]
        /\ rbio'["server"] = After(r, FlightSize)
    BY <1>5, <2>1, <2>4, BothEnds
  <2>6. /\ flights' \in [Ends -> 0 .. 4]
        /\ flights'["client"] = flights["client"] /\ flights'["server"] = f + 2
    BY <1>3, <2>1, BothEnds DEF IInv, Types
  <2>7. r # << >> /\ Due("server") <= Len(r)
    BY <1>7, ServerFront
  <2>8. Due("server") = FlightSize /\ Reading(ms, After(r, FlightSize), n, w, f + 2, shown)
    <3>1. Scripted(ms)
      BY DEF IInv, Script
    <3>2. Due("server") = ms[r[1][1]].size - r[1][2] + 1
      BY ServerFront
    <3> HIDE DEF f, r, ms, n, w, shown
    <3>3. /\ ms[r[1][1]].size - r[1][2] + 1 = FlightSize
          /\ FlightSize <= Len(r) =>
               Reading(ms, After(r, FlightSize), n, w, f + 2, shown)
      BY <1>3, <1>5, <1>6, <2>7, <3>1, FlightReading
    <3> QED BY <2>7, <3>2, <3>3
  <2>9. Types'
    BY <1>1, <1>2, <2>5, <2>6 DEF IInv, Types
  <2>10. Script'
    BY <1>1, <1>2, <1>3, <2>5, <2>6 DEF IInv, Script
  <2>11. Silent'
    BY <1>3, <2>6 DEF Silent
  <2>12. Stream'
    BY <1>1, <2>5, <2>6, <2>8 DEF Stream
  <2>13. OneAtATime'
    <3> SUFFICES ASSUME orderly, Up("client")
                 PROVE  Alone(ms, After(r, FlightSize), n, w)
      BY <1>1, <1>2, <2>5 DEF OneAtATime
    <3>1. Alone(ms, r, n, w)
      BY <1>2 DEF IInv, OneAtATime
    <3>2. FlightSize = Len(r)
      BY <1>2, <2>7, <2>8, ServerDue
    <3> QED BY <1>5, <2>7, <3>1, <3>2, TakeAlone
  <2> QED BY <2>9, <2>10, <2>11, <2>12, <2>13 DEF IInv
<1>8. CASE UNCHANGED <<flights, messages, rbio, wbio>>
  <2>1. Types'
    BY <1>1, <1>2, <1>8 DEF IInv, Types
  <2>2. Script'
    BY <1>1, <1>2, <1>8 DEF IInv, Script
  <2>3. Silent'
    BY <1>1, <1>8 DEF IInv, Silent
  <2>4. Stream'
    BY <1>1, <1>2, <1>8 DEF IInv, Stream
  <2>5. OneAtATime'
    BY <1>1, <1>2, <1>8 DEF IInv, OneAtATime
  <2> QED BY <2>1, <2>2, <2>3, <2>4, <2>5 DEF IInv
<1>9. f # 3
  BY <1>3
<1> QED BY <1>1, <1>4, <1>7, <1>8, <1>9 DEF SSL_do_handshake

(* A record that is there: what SSL_read takes of it, and what it returns. *)
LEMMA ServerTakes ==
  ASSUME IInv, pc["server"] = "decrypt", Whole("server")
  PROVE  /\ rbio["server"] # << >>
         /\ Due("server") \in Nat
         /\ Reading(messages["client"],
                    After(rbio["server"], Least(receivedBytes, Due("server"))),
                    net["client"], wbio["client"], 4,
                    printed \o (IF InOneCall THEN Front("server").lines ELSE PartAfter(printed)))
<1> DEFINE r == rbio["server"]
           ms == messages["client"]
           n == net["client"]
           w == wbio["client"]
           due == Due("server")
           new == IF InOneCall THEN Front("server").lines ELSE PartAfter(printed)
           k == Least(receivedBytes, due)
<1>1. Up("server") /\ flights["server"] = 4
  BY DEF IInv, Script, Up
<1>2. /\ ms \in Seq(Message) /\ r \in Seq(Piece) /\ n \in Seq(Piece) /\ w \in Seq(Piece)
      /\ receivedBytes \in Nat
  BY BothEnds, BioExchangeAssumption DEF IInv, Types
<1>3. /\ r # << >> /\ due <= Len(r) /\ due = ms[r[1][1]].size - r[1][2] + 1
      /\ new = Shows(ms, r, due, receivedBytes, printed)
  BY ServerFront DEF InOneCall, Shows
<1>4. Reading(ms, r, n, w, 4, printed) /\ Scripted(ms)
  BY <1>1 DEF IInv, Stream, Script
<1> HIDE DEF r, ms, n, w, due, new
<1>5. due \in Nat /\ Reading(ms, After(r, k), n, w, 4, printed \o new)
  BY <1>2, <1>3, <1>4, RecordReading
<1>6. r # << >>
  BY <1>3
<1> HIDE DEF k
<1>7. r # << >> /\ due \in Nat /\ Reading(ms, After(r, k), n, w, 4, printed \o new)
  BY <1>5, <1>6
<1> QED BY <1>7 DEF r, ms, n, w, due, new, k

(* A record is taken, or a part of it, and printed.                        *)
LEMMA PrintLineKeepsIInv == IInv /\ PrintLine => IInv'
<1> SUFFICES ASSUME IInv, PrintLine PROVE IInv'
  OBVIOUS
<1> DEFINE r == rbio["server"]
           ms == messages["client"]
           n == net["client"]
           w == wbio["client"]
           due == Due("server")
           new == IF InOneCall THEN Front("server").lines ELSE PartAfter(printed)
           k == Least(receivedBytes, due)
<1>1. /\ pc["server"] = "decrypt" /\ pc' = [pc EXCEPT !["server"] = "talk"]
      /\ Whole("server")
      /\ rbio' = [rbio EXCEPT !["server"] = After(r, k)]
      /\ flights' = [flights EXCEPT !["server"] = IF Front("server").flight = 4 THEN 4 ELSE @]
      /\ printed' = printed \o new
      /\ UNCHANGED <<messages, wbio, net, broken, receivedBytes, typed, orderly>>
  BY DEF PrintLine, PrintMessage, Goto, SSL_read, Takes
<1>2. /\ pc' \in [Ends -> Places] /\ pc'["server"] = "talk" /\ pc'["client"] = pc["client"]
      /\ Up("server") /\ (Up("client")' => Up("client"))
  BY <1>1, BothEnds DEF IInv, Types, Places, Up
<1>3. flights["server"] = 4 /\ flights' = flights
  <2>1. flights["server"] = 4
    BY <1>1 DEF IInv, Script
  <2>2. flights \in [Ends -> 0 .. 4]
    BY DEF IInv, Types
  <2> QED BY <1>1, <2>1, <2>2
<1>4. /\ ms \in Seq(Message) /\ r \in Seq(Piece) /\ n \in Seq(Piece) /\ w \in Seq(Piece)
      /\ rbio \in [Ends -> Seq(Piece)] /\ receivedBytes \in Nat
  BY BothEnds, BioExchangeAssumption DEF IInv, Types
<1>7. r # << >> /\ due \in Nat /\ Reading(ms, After(r, k), n, w, 4, printed \o new)
  BY <1>1, ServerTakes
<1>8. printed \o new \in Seq(Nat) /\ After(r, k) \in Seq(Piece)
  <2>3. Len(ms) \in Nat /\ Len(ms) <= Len(ms) + 2
    BY <1>4
  <2>1. k \in Nat
    BY <1>4, <1>7 DEF Least
  <2> HIDE DEF r, ms, n, w, due, new, k
  <2>2. After(r, k) \in Seq(Piece)
    BY <1>4, <2>1, AfterSeq
  <2> QED BY <1>4, <1>7, <2>2, <2>3, ShownLines
<1>9. /\ rbio' \in [Ends -> Seq(Piece)] /\ rbio'["client"] = rbio["client"]
      /\ rbio'["server"] = After(r, k)
      /\ printed' \in Seq(Nat)
  <2> HIDE DEF new, k
  <2> QED BY <1>1, <1>4, <1>8, BothEnds
<1>10. Types'
  BY <1>1, <1>2, <1>3, <1>9 DEF IInv, Types
<1>11. Script'
  BY <1>1, <1>2, <1>3 DEF IInv, Script
<1>12. Silent'
  BY <1>3 DEF Silent
<1>13. Stream'
  BY <1>1, <1>3, <1>7, <1>9 DEF Stream
<1>14. OneAtATime'
  <2> SUFFICES ASSUME orderly, Up("client")
               PROVE  Alone(ms, After(r, k), n, w)
    BY <1>1, <1>2, <1>9 DEF OneAtATime
  <2>1. Alone(ms, r, n, w) /\ receivedBytes = Len(r)
    BY <1>1, <1>2 DEF IInv, OneAtATime
  <2>2. due = Len(r)
    BY <1>2, <1>7, ServerDue
  <2>3. k = Len(r)
    BY <2>1, <2>2 DEF Least
  <2> HIDE DEF k
  <2> QED BY <1>4, <1>7, <2>1, <2>3, TakeAlone
<1> QED BY <1>10, <1>11, <1>12, <1>13, <1>14 DEF IInv

-----------------------------------------------------------------------------
(* The sockets *)

(* The client's write().                                                   *)
LEMMA ClientOutputsKeepsIInv ==
  ASSUME IInv, NEW from \in {"output", "flush"},
         NEW to, to = (IF from = "output" THEN "handshake" ELSE "talk"),
         Outputs("client", from, to)
  PROVE  IInv'
<1> DEFINE w == wbio["client"]
           n == net["client"]
           k == Least(BUFFER_SIZE, Len(w))
<1>1. /\ pc["client"] = from /\ pc' = [pc EXCEPT !["client"] = to]
      /\ k > 0
      /\ wbio' = [wbio EXCEPT !["client"] = After(w, k)]
      /\ IF Up("server")
         THEN net' = [net EXCEPT !["client"] = n \o SubSeq(w, 1, k)] /\ UNCHANGED broken
         ELSE broken' = [broken EXCEPT !["client"] = TRUE] /\ UNCHANGED net
      /\ UNCHANGED <<flights, messages, rbio, receivedBytes, typed, printed, orderly>>
  BY BothEnds DEF Outputs, Goto
<1>2. /\ pc' \in [Ends -> Places] /\ pc'["client"] = to /\ pc'["server"] = pc["server"]
      /\ Up("client") /\ (Up("server")' <=> Up("server"))
  BY <1>1, BothEnds DEF IInv, Types, Places, Up
<1>3. /\ messages["client"] \in Seq(Message) /\ rbio["server"] \in Seq(Piece)
      /\ n \in Seq(Piece) /\ w \in Seq(Piece)
      /\ net \in [Ends -> Seq(Piece)] /\ wbio \in [Ends -> Seq(Piece)]
      /\ broken \in [Ends -> BOOLEAN]
  BY BothEnds DEF IInv, Types
<1>4. k \in 0 .. Len(w) /\ w # << >>
  <2>1. Len(w) \in Nat
    BY <1>3
  <2> HIDE DEF w
  <2>2. k \in 0 .. Len(w) /\ Len(w) > 0
    BY <1>1, <2>1, BioExchangeAssumption DEF Least
  <2> QED BY <2>2, EmptySeq
<1>5. /\ After(w, k) \in Seq(Piece) /\ SubSeq(w, 1, k) \in Seq(Piece)
      /\ n \o SubSeq(w, 1, k) \in Seq(Piece)
  <2> HIDE DEF w, k, n
  <2>1. After(w, k) \in Seq(Piece) /\ SubSeq(w, 1, k) \in Seq(Piece)
    BY <1>3, <1>4, Parts
  <2> QED BY <1>3, <2>1, ConcatProperties
<1>6. /\ wbio' \in [Ends -> Seq(Piece)] /\ wbio'["client"] = After(w, k)
      /\ wbio'["server"] = wbio["server"]
      /\ net' \in [Ends -> Seq(Piece)] /\ net'["server"] = net["server"]
      /\ Up("server") => net'["client"] = n \o SubSeq(w, 1, k)
      /\ broken' \in [Ends -> BOOLEAN]
  <2> HIDE DEF w, k, n
  <2> QED BY <1>1, <1>3, <1>5, BothEnds
<1>7. Types'
  BY <1>1, <1>2, <1>6 DEF IInv, Types
<1>8. Script'
  BY <1>1, <1>2 DEF IInv, Script
<1>9. Silent'
  BY <1>1, <1>6 DEF IInv, Silent
<1>10. Stream'
  <2> SUFFICES ASSUME Up("server")
               PROVE  Reading(messages["client"], rbio["server"], n \o SubSeq(w, 1, k), After(w, k),
                              flights["server"], printed)
    BY <1>1, <1>2, <1>6 DEF Stream
  <2>1. Reading(messages["client"], rbio["server"], n, w, flights["server"], printed)
    BY DEF IInv, Stream
  <2> HIDE DEF w, k, n
  <2> QED BY <1>3, <1>4, <2>1, WriteReading
<1>11. OneAtATime'
  <2> SUFFICES ASSUME orderly, Up("server")
               PROVE  Alone(messages["client"], rbio["server"], n \o SubSeq(w, 1, k), After(w, k))
    BY <1>1, <1>2, <1>6 DEF IInv, OneAtATime
  <2>1. Alone(messages["client"], rbio["server"], n, w)
    BY <1>2 DEF IInv, OneAtATime
  <2> HIDE DEF w, n
  <2> QED BY <1>3, <1>4, <2>1, WriteAlone
<1> QED BY <1>7, <1>8, <1>9, <1>10, <1>11 DEF IInv

(* The server's.                                                           *)
LEMMA ServerOutputKeepsIInv == IInv /\ Output("server") => IInv'
<1> SUFFICES ASSUME IInv, Output("server") PROVE IInv'
  OBVIOUS
<1> DEFINE w == wbio["server"]
           n == net["server"]
           k == Least(BUFFER_SIZE, Len(w))
<1>1. /\ pc["server"] = "output" /\ pc' = [pc EXCEPT !["server"] = "handshake"]
      /\ k > 0
      /\ wbio' = [wbio EXCEPT !["server"] = After(w, k)]
      /\ IF Up("client")
         THEN net' = [net EXCEPT !["server"] = n \o SubSeq(w, 1, k)] /\ UNCHANGED broken
         ELSE broken' = [broken EXCEPT !["server"] = TRUE] /\ UNCHANGED net
      /\ UNCHANGED <<flights, messages, rbio, receivedBytes, typed, printed, orderly>>
  BY BothEnds DEF Output, Outputs, Goto
<1>2. /\ pc' \in [Ends -> Places] /\ pc'["server"] = "handshake" /\ pc'["client"] = pc["client"]
      /\ Up("server") /\ (Up("client")' => Up("client"))
  BY <1>1, BothEnds DEF IInv, Types, Places, Up
<1>3. /\ n \in Seq(Piece) /\ w \in Seq(Piece)
      /\ net \in [Ends -> Seq(Piece)] /\ wbio \in [Ends -> Seq(Piece)]
      /\ broken \in [Ends -> BOOLEAN]
  BY BothEnds DEF IInv, Types
<1>4. k \in 0 .. Len(w) /\ w # << >>
  <2>1. Len(w) \in Nat
    BY <1>3
  <2> HIDE DEF w
  <2>2. k \in 0 .. Len(w) /\ Len(w) > 0
    BY <1>1, <2>1, BioExchangeAssumption DEF Least
  <2> QED BY <2>2, EmptySeq
<1>5. After(w, k) \in Seq(Piece) /\ n \o SubSeq(w, 1, k) \in Seq(Piece)
  <2> HIDE DEF w, k, n
  <2>1. After(w, k) \in Seq(Piece) /\ SubSeq(w, 1, k) \in Seq(Piece)
    BY <1>3, <1>4, Parts
  <2> QED BY <1>3, <2>1, ConcatProperties
<1>6. /\ wbio' \in [Ends -> Seq(Piece)] /\ wbio'["client"] = wbio["client"]
      /\ net' \in [Ends -> Seq(Piece)] /\ net'["client"] = net["client"]
      /\ broken' \in [Ends -> BOOLEAN]
  <2> HIDE DEF w, k, n
  <2> QED BY <1>1, <1>3, <1>5, BothEnds
<1>7. Types'
  BY <1>1, <1>2, <1>6 DEF IInv, Types
<1>8. Script'
  BY <1>1, <1>2 DEF IInv, Script
<1>9. Silent'
  <2>1. flights["server"] # 0
    BY <1>4 DEF IInv, Silent
  <2> QED BY <1>1, <2>1 DEF Silent
<1>10. Stream'
  BY <1>1, <1>2, <1>6 DEF IInv, Stream
<1>11. OneAtATime'
  BY <1>1, <1>2, <1>6 DEF IInv, OneAtATime
<1> QED BY <1>7, <1>8, <1>9, <1>10, <1>11 DEF IInv

(* What a read() does to the places where pieces are.                      *)
LEMMA ReadsPieces ==
  ASSUME IInv, NEW e \in Ends, Reads(e)
  PROVE  \E k \in 1 .. Len(net[Peer(e)]) :
           /\ k <= BUFFER_SIZE
           /\ rbio' = [rbio EXCEPT ![e] = @ \o SubSeq(net[Peer(e)], 1, k)]
           /\ net' = [net EXCEPT ![Peer(e)] = After(@, k)]
           /\ rbio' \in [Ends -> Seq(Piece)] /\ net' \in [Ends -> Seq(Piece)]
           /\ Len(rbio'[e]) - Len(rbio[e]) = k
           /\ orderly => net'[Peer(e)] = << >> \/ k = BUFFER_SIZE
           /\ UNCHANGED <<flights, messages, wbio, broken, typed, printed, orderly>>
<1> DEFINE n == net[Peer(e)]
           r == rbio[e]
<1>1. PICK k \in 1 .. Least(BUFFER_SIZE, Len(n)) :
        /\ rbio' = [rbio EXCEPT ![e] = r \o SubSeq(n, 1, k)]
        /\ net' = [net EXCEPT ![Peer(e)] = After(n, k)]
        /\ orderly => net'[Peer(e)] = << >> \/ Len(rbio'[e]) - Len(rbio[e]) = BUFFER_SIZE
        /\ UNCHANGED <<flights, messages, wbio, broken, typed, printed, orderly>>
  BY DEF Reads, ReadsUpTo, Receive
<1>2. /\ n \in Seq(Piece) /\ r \in Seq(Piece) /\ Peer(e) \in Ends
      /\ net \in [Ends -> Seq(Piece)] /\ rbio \in [Ends -> Seq(Piece)]
  BY BothEnds DEF IInv, Types
<1>3. Len(n) \in Nat /\ Len(r) \in Nat
  BY <1>2
<1> DEFINE u == SubSeq(n, 1, k)
           v == After(n, k)
<1> HIDE DEF n, r
<1>4. k \in 1 .. Len(n) /\ k \in 0 .. Len(n) /\ k <= BUFFER_SIZE /\ k \in Nat
  BY <1>3, BioExchangeAssumption DEF Least
<1>5. v \in Seq(Piece) /\ u \in Seq(Piece) /\ Len(u) = k
  BY <1>2, <1>4, Parts
<1>6. rbio' = [rbio EXCEPT ![e] = r \o u] /\ net' = [net EXCEPT ![Peer(e)] = v]
  BY <1>1
<1> HIDE DEF u, v
<1>7. r \o u \in Seq(Piece) /\ Len(r \o u) = Len(r) + k
  BY <1>2, <1>5, ConcatProperties
<1>8. rbio' \in [Ends -> Seq(Piece)] /\ net' \in [Ends -> Seq(Piece)] /\ rbio'[e] = r \o u
  BY <1>2, <1>5, <1>6, <1>7
<1>9. Len(rbio'[e]) - Len(rbio[e]) = k
  BY <1>3, <1>4, <1>7, <1>8 DEF r
<1> QED BY <1>1, <1>4, <1>8, <1>9 DEF n, r

(* The server's read(), in the handshake or after it.                      *)
LEMMA ServerReadsKeepsIInv ==
  ASSUME IInv, Reads("server"), pc["server"] \in {"output", "talk"},
         NEW to, to = (IF pc["server"] = "output" THEN "handshake" ELSE "decrypt"),
         Goto("server", to),
         \/ to = "handshake" /\ receivedBytes' = receivedBytes
         \/ to = "decrypt" /\ receivedBytes' = Len(rbio'["server"]) - Len(rbio["server"])
  PROVE  IInv'
<1> DEFINE n == net["client"]
           r == rbio["server"]
           ms == messages["client"]
           w == wbio["client"]
<1>1. PICK k \in 1 .. Len(n) :
        /\ k <= BUFFER_SIZE
        /\ rbio' = [rbio EXCEPT !["server"] = r \o SubSeq(n, 1, k)]
        /\ net' = [net EXCEPT !["client"] = After(n, k)]
        /\ rbio' \in [Ends -> Seq(Piece)] /\ net' \in [Ends -> Seq(Piece)]
        /\ Len(rbio'["server"]) - Len(rbio["server"]) = k
        /\ orderly => net'["client"] = << >> \/ k = BUFFER_SIZE
        /\ UNCHANGED <<flights, messages, wbio, broken, typed, printed, orderly>>
  BY ReadsPieces, BothEnds
<1>2. /\ pc' \in [Ends -> Places] /\ pc'["server"] = to /\ pc'["client"] = pc["client"]
      /\ Up("server") /\ (Up("client")' => Up("client"))
  BY BothEnds DEF IInv, Types, Places, Up, Goto
<1>3. /\ ms \in Seq(Message) /\ r \in Seq(Piece) /\ n \in Seq(Piece) /\ w \in Seq(Piece)
      /\ rbio \in [Ends -> Seq(Piece)] /\ net \in [Ends -> Seq(Piece)]
      /\ receivedBytes \in 0 .. BUFFER_SIZE
  BY BothEnds DEF IInv, Types
<1>4. /\ rbio'["server"] = r \o SubSeq(n, 1, k) /\ rbio'["client"] = rbio["client"]
      /\ net'["client"] = After(n, k) /\ net'["server"] = net["server"]
  <2> HIDE DEF n, r
  <2> QED BY <1>1, <1>3, BothEnds
<1>5. k \in 0 .. Len(n) /\ Len(n) \in Nat /\ k \in 0 .. BUFFER_SIZE
  <2>1. Len(n) \in Nat
    BY <1>3
  <2> HIDE DEF n
  <2> QED BY <1>1, <2>1, BioExchangeAssumption
<1>6. receivedBytes' \in 0 .. BUFFER_SIZE /\ (to = "decrypt" => receivedBytes' = k)
  BY <1>1, <1>3, <1>5
<1>7. Types'
  BY <1>1, <1>2, <1>6 DEF IInv, Types
<1>8. Script'
  BY <1>1, <1>2 DEF IInv, Script
<1>9. Silent'
  BY <1>1, <1>4 DEF IInv, Silent
<1>10. Stream'
  <2>1. Reading(ms, r, n, w, flights["server"], printed)
    BY <1>2 DEF IInv, Stream
  <2>2. Reading(ms, r \o SubSeq(n, 1, k), After(n, k), w, flights["server"], printed)
    <3> HIDE DEF ms, r, n, w
    <3> QED BY <1>3, <1>5, <2>1, ReadReading
  <2> QED BY <1>1, <1>4, <2>2 DEF Stream
<1>11. OneAtATime'
  <2> SUFFICES ASSUME orderly, Up("client")
               PROVE  /\ Alone(ms, r \o SubSeq(n, 1, k), After(n, k), w)
                      /\ to = "decrypt" =>
                           rbio'["server"] # << >> /\ receivedBytes' = Len(rbio'["server"])
    BY <1>1, <1>2, <1>4 DEF OneAtATime
  <2>1. Alone(ms, r, n, w)
    BY <1>2 DEF IInv, OneAtATime
  <2>2. After(n, k) = << >> \/ k = BUFFER_SIZE
    BY <1>1, <1>4
  <2>3. n # << >>
    <3>1. Len(n) > 0
      <4> HIDE DEF n
      <4> QED BY <1>1, <1>5
    <3> QED BY <3>1
  <2>4. /\ r = << >> /\ k = Len(n)
        /\ Alone(ms, r \o SubSeq(n, 1, k), After(n, k), w)
    <3> HIDE DEF ms, r, n, w
    <3> QED BY <1>3, <1>5, <2>1, <2>2, <2>3, ReadAlone
  <2>5. Len(r) = 0
    BY <2>4
  <2>6. Len(rbio'["server"]) = k
    <3>1. Len(rbio'["server"]) - Len(r) = k /\ Len(rbio'["server"]) \in Nat
      BY <1>1, BothEnds
    <3> HIDE DEF r
    <3> QED BY <2>5, <3>1
  <2>7. rbio'["server"] # << >>
    <3>1. k > 0
      BY <1>1, <1>5
    <3> QED BY <2>6, <3>1
  <2> QED BY <1>6, <2>4, <2>6, <2>7
<1> QED BY <1>7, <1>8, <1>9, <1>10, <1>11 DEF IInv

(* The client's: what comes is the server's.                               *)
LEMMA ClientReadsKeepsIInv ==
  ASSUME IInv, Reads("client"), pc["client"] = "output", Goto("client", "handshake"),
         receivedBytes' = receivedBytes
  PROVE  IInv'
<1>1. PICK k \in 1 .. Len(net["server"]) :
        /\ rbio' = [rbio EXCEPT !["client"] = @ \o SubSeq(net["server"], 1, k)]
        /\ net' = [net EXCEPT !["server"] = After(@, k)]
        /\ rbio' \in [Ends -> Seq(Piece)] /\ net' \in [Ends -> Seq(Piece)]
        /\ UNCHANGED <<flights, messages, wbio, broken, typed, printed, orderly>>
  BY ReadsPieces, BothEnds
<1>2. /\ pc' \in [Ends -> Places] /\ pc'["client"] = "handshake" /\ pc'["server"] = pc["server"]
      /\ Up("client") /\ (Up("server")' => Up("server"))
  BY BothEnds DEF IInv, Types, Places, Up, Goto
<1>3. rbio'["server"] = rbio["server"] /\ net'["client"] = net["client"]
  BY <1>1, BothEnds DEF IInv, Types
<1>4. flights["server"] # 0
  <2>1. Len(net["server"]) # 0
    BY <1>1
  <2>2. net["server"] # << >>
    BY <2>1
  <2> QED BY <2>2 DEF IInv, Silent
<1>5. Types'
  BY <1>1, <1>2 DEF IInv, Types
<1>6. Script'
  BY <1>1, <1>2 DEF IInv, Script
<1>7. Silent'
  BY <1>1, <1>4 DEF Silent
<1>8. Stream'
  BY <1>1, <1>2, <1>3 DEF IInv, Stream
<1>9. OneAtATime'
  BY <1>1, <1>2, <1>3 DEF IInv, OneAtATime
<1> QED BY <1>5, <1>6, <1>7, <1>8, <1>9 DEF IInv

(* read() in the handshake, where a connection at its end says nothing.    *)
LEMMA InputKeepsIInv == \A e \in Ends : IInv /\ Input(e) => IInv'
<1> SUFFICES ASSUME NEW e \in Ends, IInv, Input(e) PROVE IInv'
  OBVIOUS
<1>1. pc[e] = "output" /\ Goto(e, "handshake") /\ receivedBytes' = receivedBytes
  BY DEF Input
<1>2. CASE Reads(e)
  <2>1. CASE e = "server"
    BY <1>1, <1>2, <2>1, ServerReadsKeepsIInv
  <2>2. CASE e = "client"
    BY <1>1, <1>2, <2>2, ClientReadsKeepsIInv
  <2> QED BY <2>1, <2>2, BothEnds
<1>3. CASE UNCHANGED <<tlsVars, typed, printed, orderly>>
  <2>1. UNCHANGED <<flights, messages, rbio, wbio, net, broken, receivedBytes, typed, printed, orderly>>
    BY <1>1, <1>3 DEF tlsVars
  <2>2. /\ pc' \in [Ends -> Places] /\ pc'[e] = "handshake"
        /\ \A x \in Ends : x # e => pc'[x] = pc[x]
        /\ \A x \in Ends : Up(x)' => Up(x)
        /\ (pc'["server"] = "decrypt" => pc["server"] = "decrypt")
    BY <1>1, BothEnds DEF IInv, Types, Places, Up, Goto
  <2>3. Types'
    BY <2>1, <2>2 DEF IInv, Types
  <2>4. Script'
    BY <2>1, <2>2, BothEnds DEF IInv, Script
  <2>5. Silent'
    BY <2>1 DEF IInv, Silent
  <2>6. Stream'
    BY <2>1, <2>2, BothEnds DEF IInv, Stream
  <2>7. OneAtATime'
    BY <2>1, <2>2, BothEnds DEF IInv, OneAtATime
  <2> QED BY <2>3, <2>4, <2>5, <2>6, <2>7 DEF IInv
<1> QED BY <1>2, <1>3 DEF Input

(* read() after the handshake: at its end the connection returns 0.        *)
LEMMA RecvKeepsIInv == IInv /\ Recv => IInv'
<1> SUFFICES ASSUME IInv, Recv PROVE IInv'
  OBVIOUS
<1>1. pc["server"] = "talk" /\ Goto("server", "decrypt")
  BY DEF Recv
<1>2. CASE Reads("server") /\ receivedBytes' = Len(rbio'["server"]) - Len(rbio["server"])
  BY <1>1, <1>2, ServerReadsKeepsIInv
<1>3. CASE NoMore("server") /\ receivedBytes' = 0 /\ UNCHANGED <<tlsVars, typed, printed, orderly>>
  <2>1. UNCHANGED <<flights, messages, rbio, wbio, net, broken, typed, printed, orderly>>
    BY <1>3 DEF tlsVars
  <2>2. /\ pc' \in [Ends -> Places] /\ pc'["server"] = "decrypt" /\ pc'["client"] = pc["client"]
        /\ Up("server") /\ ~Up("client")'
    BY <1>1, <1>3, BothEnds DEF IInv, Types, Places, Up, Goto, NoMore
  <2>3. Types'
    BY <1>3, <2>1, <2>2, BioExchangeAssumption DEF IInv, Types
  <2>4. Script'
    BY <1>1, <2>1, <2>2 DEF IInv, Script
  <2>5. Silent'
    BY <2>1 DEF IInv, Silent
  <2>6. Stream'
    BY <2>1, <2>2 DEF IInv, Stream
  <2>7. OneAtATime'
    BY <2>2 DEF OneAtATime
  <2> QED BY <2>3, <2>4, <2>5, <2>6, <2>7 DEF IInv
<1> QED BY <1>2, <1>3 DEF Recv

(* Output of either end.                                                   *)
LEMMA OutputKeepsIInv == \A e \in Ends : IInv /\ Output(e) => IInv'
<1> SUFFICES ASSUME NEW e \in Ends, IInv, Output(e) PROVE IInv'
  OBVIOUS
<1>1. CASE e = "client"
  BY <1>1, ClientOutputsKeepsIInv DEF Output
<1>2. CASE e = "server"
  BY <1>2, ServerOutputKeepsIInv
<1> QED BY <1>1, <1>2, BothEnds

(* The client writes what it has encrypted.                                *)
LEMMA FlushKeepsIInv == IInv /\ Flush => IInv'
  BY ClientOutputsKeepsIInv DEF Flush

(* A turn of the handshake's loop, or the signal that ends it.             *)
LEMMA HandshakeStepKeepsIInv == \A e \in Ends : IInv /\ HandshakeStep(e) => IInv'
<1> SUFFICES ASSUME NEW e \in Ends, IInv, HandshakeStep(e) PROVE IInv'
  OBVIOUS
<1>1. CASE HandshakeDone(e)
  BY <1>1, HandshakeDoneKeepsIInv
<1>2. CASE Handshake(e)
  BY <1>2, ClientHandshakeKeepsIInv, ServerHandshakeKeepsIInv, BothEnds
<1>3. CASE Output(e)
  BY <1>3, OutputKeepsIInv
<1>4. CASE OutputKills(e)
  BY <1>4, EndKeepsIInv DEF OutputKills
<1>5. CASE Input(e)
  BY <1>5, InputKeepsIInv
<1> QED BY <1>1, <1>2, <1>3, <1>4, <1>5 DEF HandshakeStep

(* What is on the way to the server is the end of the client's stream, in  *)
(* order; and in an orderly exchange it is one message, in one place.      *)
THEOREM Invariance == Spec => []IInv
<1>1. IInv /\ [Next]_vars => IInv'
  <2> SUFFICES ASSUME IInv, [Next]_vars PROVE IInv'
    OBVIOUS
  <2>1. CASE \E e \in Ends : HandshakeStep(e)
    BY <2>1, HandshakeStepKeepsIInv
  <2>2. CASE Recv
    BY <2>2, RecvKeepsIInv
  <2>3. CASE PrintLine
    BY <2>3, PrintLineKeepsIInv
  <2>4. CASE ServerExits \/ OverRead
    BY <2>4, EndKeepsIInv, BothEnds DEF ServerExits, OverRead
  <2>5. CASE Flush
    BY <2>5, FlushKeepsIInv
  <2>6. CASE WriteToSocket
    BY <2>6, WriteToSocketKeepsIInv
  <2>7. CASE \E e \in Ends : Leave(e)
    BY <2>7, EndKeepsIInv DEF Leave
  <2>8. CASE UNCHANGED vars
    BY <2>8 DEF vars, tlsVars, bioVars, IInv, Types, Script, Silent, Stream, OneAtATime, Up
  <2> QED BY <2>1, <2>2, <2>3, <2>4, <2>5, <2>6, <2>7, <2>8, BothEnds
          DEF Next, ServerStep, ClientStep
<1> QED BY InitIInv, <1>1, PTL DEF Spec

(* Every variable keeps its type: read() and BIO_read() never return more  *)
(* than fits in buffer (OpenSSL_BIO_Server.cpp:85-103).                     *)
THEOREM TypeCorrect == Spec => []TypeOK
<1>1. IInv => TypeOK
  BY TypesAre DEF IInv
<1> QED BY <1>1, Invariance, PTL

-----------------------------------------------------------------------------
(* The server stays *)

(* With one message on the way at a time every read() of the server ends   *)
(* with a whole record in rbio: while the client runs SSL_read never fails *)
(* and returns all of it (OpenSSL_BIO_Server.cpp:100-116).                 *)
THEOREM ServerDoesNotExit == Spec => ServerStays
<1>1. IInv /\ [Next]_vars => [orderly /\ (ServerExits \/ OverRead) => ~Up("client")]_vars
  <2> SUFFICES ASSUME IInv, orderly, ServerExits \/ OverRead, Up("client") PROVE FALSE
    OBVIOUS
  <2>1. CASE pc["server"] = "decrypt"
    <3>1. Up("server")
      BY <2>1 DEF Up
    <3>2. rbio["server"] # << >> /\ receivedBytes = Len(rbio["server"])
      BY <2>1, <3>1 DEF IInv, OneAtATime
    <3>3. Due("server") = Len(rbio["server"])
      BY <3>1, <3>2, ServerDue
    <3>4. Len(rbio["server"]) \in Nat
      BY BothEnds DEF IInv, Types
    <3>5. ~Whole("server") \/ Due("server") > receivedBytes
      BY <2>1 DEF ServerExits, OverRead
    <3> QED BY <3>2, <3>3, <3>4, <3>5, ServerFront
  <2>2. CASE NoMore("server")
    BY <2>2, BothEnds DEF NoMore
  <2> QED BY <2>1, <2>2 DEF ServerExits, OverRead
<1> QED BY <1>1, Invariance, PTL DEF Spec, ServerStays

-----------------------------------------------------------------------------
(* The order of the lines *)

(* While the server runs, what it has printed keeps the order.             *)
LEMMA PrintedLines == IInv /\ Up("server") => LinesInOrder
<1> SUFFICES ASSUME IInv, Up("server") PROVE LinesInOrder
  OBVIOUS
<1>1. /\ messages["client"] \in Seq(Message) /\ rbio["server"] \in Seq(Piece)
      /\ net["client"] \in Seq(Piece) /\ wbio["client"] \in Seq(Piece)
      /\ typed \in Nat
  BY BothEnds DEF IInv, Types
<1>2. Reading(messages["client"], rbio["server"], net["client"], wbio["client"],
              flights["server"], printed)
  BY DEF IInv, Stream
<1>3. flights["server"] \in {0, 2, 4} /\ Len(messages["client"]) <= typed + 2
  BY <1>1 DEF IInv, Script, FlightsMade
<1> QED BY <1>1, <1>2, <1>3, ShownLines DEF LinesInOrder

(* What is printed stays in order when another line is typed.              *)
LEMMA MoreTyped ==
  ASSUME IInv, LinesInOrder, UNCHANGED printed, typed' = typed \/ typed' = typed + 1
  PROVE  LinesInOrder'
<1>1. typed \in Nat /\ \A i \in 1 .. Len(printed) : printed[i] \in Nat
  BY DEF IInv, Types
<1> QED BY <1>1 DEF LinesInOrder, InOrder

(* However reads cut and join what was written: the lines the server       *)
(* prints as lines are in the order in which they were typed, each of them *)
(* once, and a line that is left out has been printed as a part            *)
(* (OpenSSL_BIO_Server.cpp:96-117).                                        *)
THEOREM LinesComeInOrder == Spec => []LinesInOrder
<1>1. Init => LinesInOrder
  BY DEF Init, LinesInOrder, InOrder
<1>2. IInv /\ IInv' /\ LinesInOrder /\ [Next]_vars => LinesInOrder'
  <2> SUFFICES ASSUME IInv, IInv', LinesInOrder, [Next]_vars PROVE LinesInOrder'
    OBVIOUS
  <2>1. CASE PrintLine
    <3>1. Up("server")'
      BY <2>1, BothEnds DEF PrintLine, PrintMessage, Goto, Up, IInv, Types
    <3>2. (IInv /\ Up("server"))' => LinesInOrder'
      BY PrintedLines, PTL
    <3> QED BY <3>1, <3>2
  <2>2. CASE ~PrintLine
    <3>1. UNCHANGED printed /\ (typed' = typed \/ typed' = typed + 1)
      BY <2>2 DEF Next, ServerStep, ClientStep, HandshakeStep, HandshakeDone, Handshake, Output,
                  Outputs, OutputKills, Input, Reads, ReadsUpTo, Recv, OverRead, ServerExits,
                  WriteToSocket, Writes, Flush, Leave, End, vars, bioVars
    <3> QED BY <3>1, MoreTyped
  <2> QED BY <2>1, <2>2
<1> QED BY <1>1, <1>2, Invariance, PTL DEF Spec

=============================================================================
