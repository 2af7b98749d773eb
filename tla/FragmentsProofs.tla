--------------------------- MODULE FragmentsProofs ---------------------------
(***************************************************************************)
(* Fragments keeps ArgumentsIntact and ErrorsJustified, for arguments of   *)
(* any length, any fragment size that holds two chunk headers and a byte,  *)
(* and any number of fragments on the way, when the application reads every*)
(* argument until io.EOF (ToEOF).                                          *)
(*                                                                         *)
(* The three arguments are one stream of bytes.  The invariant says where  *)
(* in it the writer, each fragment on the way, the chunks the reader holds *)
(* and what it handed out begin and end, and that each begins where the one*)
(* before it in the chain ended.  A fragment that was damaged keeps its    *)
(* place in the stream but not its bytes: its checksum, which is over the  *)
(* stream, then differs from the reader's.                                 *)
(***************************************************************************)
EXTENDS Fragments, TLAPS
-----------------------------------------------------------------------------
(* The arguments as one stream of bytes *)

\* A byte of an argument: the argument and its place there (Damage makes it <<0, 0>>)
Bytes == Nat \X Nat

\* Bytes before argument i of lengths l
Start(l, i) == IF i = 1 THEN 0 ELSE IF i = 2 THEN l[1] ELSE IF i = 3 THEN l[1] + l[2] ELSE l[1] + l[2] + l[3]
\* Byte q of the three arguments, one after the other
Stream(l, q) == IF q <= Start(l, 2) THEN <<1, q>>
                ELSE IF q <= Start(l, 3) THEN <<2, q - Start(l, 2)>> ELSE <<3, q - Start(l, 3)>>

\* The bytes s are those after the first o.
At(l, s, o) == \A j \in 1..Len(s) : s[j] = Stream(l, o + j)

\* The first of the chunks cs belongs to argument a and follows the first o bytes, each next
\* one belongs to the next argument.  Where chunk k begins
Offset(l, a, o, k) == IF k = 1 THEN o ELSE Start(l, a + k - 1)
\* Where the chunks end
End(l, cs, a, o) == Offset(l, a, o, Len(cs)) + Len(cs[Len(cs)])
\* The chunks are cut where arguments end (fragmentingWriter begins a chunk for each
\* argument), and the last one may be anywhere in its argument.
Layout(l, cs, a, o) ==
    /\ a \in Args /\ Len(cs) \in 1..3 /\ a + Len(cs) <= 4
    /\ o \in Nat /\ Start(l, a) <= o
    /\ \A k \in 1..Len(cs) - 1 : Offset(l, a, o, k) + Len(cs[k]) = Start(l, a + k)
    /\ End(l, cs, a, o) <= Start(l, a + Len(cs))
\* The chunks hold the bytes of the stream.
Contents(l, cs, a, o) == \A k \in 1..Len(cs) : At(l, cs[k], Offset(l, a, o, k))
-----------------------------------------------------------------------------
(* The inductive invariant *)

\* A fragment on the way
Fragment == [chunks : Seq(Seq(Bytes)), more : BOOLEAN, sum : Seq(Bytes), error : BOOLEAN]

\* States of the fragmenting writer and of the fragmenting reader
States == {"start", "in", "inLast", "waiting", "complete"}
\* A writer
Writer == [arg : 1..4, state : States, err : BOOLEAN, open : BOOLEAN,
           chunks : Seq(Seq(Bytes)), pos : Nat, buf : Nat, flush : BOOLEAN]
\* A reader that reads to the end: Close never waits, and no error of the framing is among
\* its errors.
Reader == [arg : 1..4, state : States, err : {"", "mex", "peer", "order", "checksum"}, cur : Seq(Bytes),
           rest : Seq(Seq(Bytes)), more : BOOLEAN, pc : {"idle", "begin", "read", "recv"}, want : Nat,
           eof : BOOLEAN, done : Nat]

\* Types
FragTypeOK ==
    /\ lens \in [Args -> Nat] /\ w \in Writer /\ r \in Reader
    /\ sum \in Seq(Bytes) /\ rsum \in Seq(Bytes)
    /\ net \in Seq(Fragment)
    /\ out \in [Args -> Seq(Bytes)]
    /\ damaged \in BOOLEAN

\* What the writer can still send
Live == ~w.err /\ "w" \notin failed

\* A writer's fragment has a chunk for each argument it goes on with, fits, and has room for
\* a chunk header between two arguments; what is to be written is part of the argument.
WriterOK ==
    /\ Len(w.chunks) <= w.arg - 1
    /\ w.state = "start" => w.chunks = <<>>
    /\ w.state \in {"in", "inLast", "waiting"} => w.arg > 1 /\ Len(w.chunks) > 0
    /\ w.state \in {"inLast", "complete"} => w.arg = 4
    /\ isWritingArgument => BytesRemaining >= 0
    /\ w.state = "waiting" => BytesRemaining > Header
    /\ w.buf > 0 => ~w.err /\ isWritingArgument /\ w.pos + w.buf <= lens[w.arg - 1]
    /\ w.flush => w.buf > 0

\* The checksum of a writer is over the stream, up to where it is.
SumOK ==
    Live => /\ At(lens, sum, 0)
            /\ w.state = "start" => w.arg = 1 /\ sum = <<>>
            /\ w.state = "in" => w.arg < 4
            /\ isWritingArgument => w.pos <= lens[w.arg - 1] /\ Len(sum) = Start(lens, w.arg - 1) + w.pos
            /\ w.state = "waiting" => w.arg < 4 /\ Len(sum) = Start(lens, w.arg)
            /\ w.state # "complete"

\* The argument that the reader's current chunk belongs to
ReadArg == IF r.state = "waiting" THEN r.arg ELSE r.arg - 1
\* The chunks the reader holds
Fetched == <<r.cur>> \o r.rest
\* Where they begin in the stream
FetchedAt == Start(lens, ReadArg) + Len(out[ReadArg])
\* The argument that the next fragment goes on with
NextArg == IF r.state = "start" THEN 1 ELSE ReadArg + Len(r.rest)

\* Where the reader is, and what it does there; an argument's end is seen only with its last
\* chunk read.
ControlOK ==
    /\ r.state = "start" <=> r.arg = 1
    /\ r.state \in {"in", "waiting"} => r.arg \in {2, 3}
    /\ r.state \in {"inLast", "complete"} => r.arg = 4
    /\ r.pc = "begin" => r.state = "start"
    /\ r.pc \in {"read", "recv"} => isReadingArgument /\ ~r.eof
    /\ r.pc # "idle" => r.err = ""
    /\ r.pc = "recv" => r.cur = <<>> /\ r.rest = <<>> /\ r.more
    /\ isReadingArgument /\ r.eof => r.cur = <<>> /\ (r.rest # <<>> \/ ~r.more)
    /\ r.done = (IF r.state = "complete" \/ r.err = "peer" THEN 1 ELSE 0)

\* What was handed out of an argument is the beginning of it, and all of it once it is
\* closed.
OutOK ==
    \A i \in Args :
        /\ At(lens, out[i], Start(lens, i)) /\ Len(out[i]) <= lens[i]
        /\ i < r.arg - 1 \/ (i < r.arg /\ ~isReadingArgument) => Len(out[i]) = lens[i]
        /\ i >= r.arg => out[i] = <<>>

\* The reader's checksum is over the stream, up to the end of the chunks it holds; with the
\* last fragment, that is all of the stream.
FetchedOK ==
    /\ At(lens, rsum, 0)
    /\ r.state = "start" => rsum = <<>>
    /\ r.state \in {"in", "inLast", "waiting"} =>
         /\ Layout(lens, Fetched, ReadArg, FetchedAt) /\ Contents(lens, Fetched, ReadArg, FetchedAt)
         /\ End(lens, Fetched, ReadArg, FetchedAt) = Len(rsum)
         /\ ~r.more => NextArg = 3 /\ Len(rsum) = Start(lens, 4)

\* Bytes before fragment i of net
Before(i) == IF i = 1 THEN Len(rsum) ELSE Len(net[i - 1].sum)

\* Fragment f goes on with argument a, after n bytes; the next one with argument x.
FragOK(f, a, n, x) ==
    \/ f.error /\ "w" \in failed
    \/ /\ ~f.error
       /\ Layout(lens, f.chunks, a, n) /\ End(lens, f.chunks, a, n) = Len(f.sum)
       /\ At(lens, f.sum, 0)
       /\ damaged \/ Contents(lens, f.chunks, a, n)
       /\ x = a + Len(f.chunks) - 1
       /\ ~f.more => x = 3 /\ Len(f.sum) = Start(lens, 4)

\* The fragment that is being written goes on with argument a, after n bytes.
Writing(a, n) ==
    IF w.state = "start" THEN a = 1 /\ n = 0
    ELSE /\ Layout(lens, w.chunks, a, n) /\ Contents(lens, w.chunks, a, n)
         /\ End(lens, w.chunks, a, n) = Len(sum)
         /\ w.arg = a + Len(w.chunks)

\* A[i] is the argument that fragment i of net goes on with, the last one the writer's: each
\* fragment begins where the one before it ended.
Chain(A) ==
    /\ A[1] = NextArg
    /\ \A i \in 1..Len(net) : FragOK(net[i], A[i], Before(i), A[i + 1])
    /\ Live => Writing(A[Len(net) + 1], Before(Len(net) + 1))

\* A reader that found a wrong checksum was given a damaged fragment.
BlameOK == r.err = "checksum" => damaged

\* Reader, fragments on the way and writer make one stream.
ChainOK == r.err = "" /\ r.state # "complete" => \E A \in [1..Len(net) + 1 -> Args] : Chain(A)

\* The inductive invariant, for an application that reads every argument until io.EOF
FragInv ==
    /\ ToEOF
    /\ FragTypeOK /\ WriterOK /\ SumOK /\ ControlOK /\ OutOK /\ FetchedOK /\ BlameOK /\ ChainOK
-----------------------------------------------------------------------------
(* Streams *)

\* Where arguments start
LEMMA Starts ==
    ASSUME NEW l \in [Args -> Nat]
    PROVE  /\ Start(l, 1) = 0 /\ \A i \in 1..4 : Start(l, i) \in Nat
           /\ \A i \in Args : Start(l, i + 1) = Start(l, i) + l[i]
<1>1. l[1] \in Nat /\ l[2] \in Nat /\ l[3] \in Nat BY DEF Args
<1>2. /\ Start(l, 1) = 0 /\ Start(l, 2) = l[1] /\ Start(l, 3) = l[1] + l[2] /\ Start(l, 4) = l[1] + l[2] + l[3]
  BY DEF Start
<1>3. \A i \in 1..4 : Start(l, i) \in Nat BY <1>1, <1>2
<1>4. Start(l, 1 + 1) = Start(l, 1) + l[1] /\ Start(l, 2 + 1) = Start(l, 2) + l[2] /\ Start(l, 3 + 1) = Start(l, 3) + l[3]
  BY <1>1, <1>2
<1>5. \A i \in Args : i = 1 \/ i = 2 \/ i = 3 BY DEF Args
<1> QED BY <1>2, <1>3, <1>4, <1>5, Zenon

\* The bytes of an argument are in the stream from where it starts.
LEMMA StreamArg ==
    ASSUME NEW l \in [Args -> Nat], NEW i \in Args, NEW j \in 1..l[i]
    PROVE  Stream(l, Start(l, i) + j) = <<i, j>>
<1>1. l[1] \in Nat /\ l[2] \in Nat /\ l[3] \in Nat BY DEF Args
<1>2. /\ Start(l, 1) = 0 /\ Start(l, 2) = l[1] /\ Start(l, 3) = l[1] + l[2] BY DEF Start
<1>3. CASE i = 1 
  <2>1. 0 + j = j /\ j <= l[1] BY <1>3, <1>1
  <2> QED BY <1>2, <1>3, <2>1 DEF Stream
<1>4. CASE i = 2
  <2> DEFINE q == Start(l, 2) + j
  <2>1. ~(q <= Start(l, 2)) /\ q <= Start(l, 3) /\ q - Start(l, 2) = j
    BY <1>1, <1>2, <1>4
  <2> HIDE DEF q
  <2>2. Stream(l, q) = <<2, j>> BY <2>1 DEF Stream
  <2> QED BY <1>4, <2>2, Zenon DEF q
<1>5. CASE i = 3
  <2> DEFINE q == Start(l, 3) + j
  <2>1. ~(q <= Start(l, 2)) /\ ~(q <= Start(l, 3)) /\ q - Start(l, 3) = j
    BY <1>1, <1>2, <1>5
  <2> HIDE DEF q
  <2>2. Stream(l, q) = <<3, j>> BY <2>1 DEF Stream
  <2> QED BY <1>5, <2>2, Zenon DEF q
<1> QED BY <1>3, <1>4, <1>5 DEF Args

\* No bytes are anywhere.
LEMMA AtNone == ASSUME NEW l, NEW o PROVE At(l, <<>>, o)
BY DEF At

\* Bytes from the same place of the stream are the same.
LEMMA AtSame ==
    ASSUME NEW l, NEW o, NEW s \in Seq(Bytes), NEW t \in Seq(Bytes), Len(s) = Len(t), At(l, s, o), At(l, t, o)
    PROVE  s = t
<1>1. \A j \in 1..Len(s) : s[j] = t[j] BY DEF At
<1> QED BY <1>1

\* Bytes and the ones that follow them
LEMMA AtConcat ==
    ASSUME NEW l, NEW o \in Nat, NEW s \in Seq(Bytes), NEW t \in Seq(Bytes)
    PROVE  /\ s \o t \in Seq(Bytes) /\ Len(s \o t) = Len(s) + Len(t)
           /\ At(l, s \o t, o) <=> At(l, s, o) /\ At(l, t, o + Len(s))
<1>1. s \o t \in Seq(Bytes) /\ Len(s \o t) = Len(s) + Len(t) /\ Len(s) \in Nat /\ Len(t) \in Nat OBVIOUS
<1>2. /\ \A j \in 1..Len(s) : j \in 1..Len(s \o t) /\ (s \o t)[j] = s[j]
      /\ \A j \in 1..Len(t) : Len(s) + j \in 1..Len(s \o t) /\ (s \o t)[Len(s) + j] = t[j]
                              /\ o + Len(s) + j = o + (Len(s) + j)
  OBVIOUS
<1>3. \A j \in 1..Len(s \o t) : j \in 1..Len(s) \/ \E i \in 1..Len(t) : j = Len(s) + i
  <2> SUFFICES ASSUME NEW j \in 1..Len(s \o t), j \notin 1..Len(s) PROVE \E i \in 1..Len(t) : j = Len(s) + i
    OBVIOUS
  <2>1. j - Len(s) \in 1..Len(t) /\ j = Len(s) + (j - Len(s)) BY <1>1
  <2> QED BY <2>1, Zenon
<1>4. At(l, s \o t, o) => At(l, s, o) /\ At(l, t, o + Len(s))
  <2> SUFFICES ASSUME At(l, s \o t, o) PROVE At(l, s, o) /\ At(l, t, o + Len(s)) OBVIOUS
  <2>1. At(l, s, o) BY <1>2, Zenon DEF At
  <2>2. \A j \in 1..Len(t) : t[j] = Stream(l, o + (Len(s) + j)) BY <1>2, Zenon DEF At
  <2>3. \A j \in 1..Len(t) : t[j] = Stream(l, o + Len(s) + j) BY <1>2, <2>2
  <2> QED BY <2>1, <2>3 DEF At
<1>5. ASSUME At(l, s, o), At(l, t, o + Len(s)) PROVE At(l, s \o t, o)
  <2> SUFFICES ASSUME NEW j \in 1..Len(s \o t) PROVE (s \o t)[j] = Stream(l, o + j) BY DEF At
  <2>1. CASE j \in 1..Len(s) BY <1>2, <1>5, <2>1 DEF At
  <2>2. CASE j \notin 1..Len(s)
    <3>1. PICK i \in 1..Len(t) : j = Len(s) + i BY <1>3, <2>2
    <3>2. (s \o t)[j] = t[i] /\ t[i] = Stream(l, o + Len(s) + i) BY <1>2, <1>5, <3>1 DEF At
    <3>3. o + Len(s) + i = o + j BY <1>1, <3>1
    <3> QED BY <3>2, <3>3
  <2> QED BY <2>1, <2>2
<1> QED BY <1>1, <1>4, <1>5

\* Bytes, cut in two
LEMMA AtCut ==
    ASSUME NEW l, NEW o \in Nat, NEW s \in Seq(Bytes), NEW n \in 0..Len(s), At(l, s, o)
    PROVE  LET head == SubSeq(s, 1, n)
               tail == SubSeq(s, n + 1, Len(s)) IN
           /\ head \in Seq(Bytes) /\ Len(head) = n /\ At(l, head, o)
           /\ tail \in Seq(Bytes) /\ Len(tail) = Len(s) - n /\ At(l, tail, o + n)
<1> DEFINE head == SubSeq(s, 1, n)
           tail == SubSeq(s, n + 1, Len(s))
<1>1. head \in Seq(Bytes) /\ Len(head) = n /\ tail \in Seq(Bytes) /\ Len(tail) = Len(s) - n OBVIOUS
<1>2. \A j \in 1..n : head[j] = s[j] /\ j \in 1..Len(s) OBVIOUS
<1>3. \A j \in 1..Len(s) - n : tail[j] = s[n + j] /\ n + j \in 1..Len(s) /\ o + n + j = o + (n + j) OBVIOUS
<1> HIDE DEF head, tail
<1>4. At(l, head, o) BY <1>1, <1>2 DEF At
<1>5. At(l, tail, o + n) BY <1>1, <1>3 DEF At
<1> QED BY <1>1, <1>4, <1>5 DEF head, tail
-----------------------------------------------------------------------------
(* Fragments *)

\* The chunks of a fragment, put together one by one
LEMMA JoinedIs ==
    ASSUME NEW c \in Seq(Seq(Bytes)), NEW g,
           g = [k \in 0..Len(c) |-> IF k = 0 THEN <<>> ELSE g[k - 1] \o c[k]]
    PROVE  \E f : /\ Joined(c) = f[Len(c)] /\ f[0] = <<>>
                  /\ \A k \in 1..Len(c) : f[k] = f[k - 1] \o c[k]
<1> DEFINE F(h) == [k \in 0..Len(c) |-> IF k = 0 THEN <<>> ELSE h[k - 1] \o c[k]]
           f == CHOOSE h : h = F(h)
<1>1. \E h : h = F(h) BY Zenon
<1>2. f = F(f) BY <1>1, Zenon
<1>3. Joined(c) = f[Len(c)] BY Zenon DEF Joined, f
<1> HIDE DEF f
<1>4. 0 \in 0..Len(c) /\ \A k \in 1..Len(c) : k \in 0..Len(c) /\ k # 0 OBVIOUS
<1>5. \A k \in 0..Len(c) : f[k] = IF k = 0 THEN <<>> ELSE f[k - 1] \o c[k] BY <1>2, Zenon
<1>6. f[0] = <<>> /\ \A k \in 1..Len(c) : f[k] = f[k - 1] \o c[k] BY <1>4, <1>5, Zenon
<1> QED BY <1>3, <1>6, Zenon

\* No chunk
LEMMA Joined0 == ASSUME NEW c \in Seq(Seq(Bytes)), Len(c) = 0 PROVE Joined(c) = c
<1> DEFINE g == [k \in 0..0 |-> <<>>]
<1>1. g = [k \in 0..Len(c) |-> IF k = 0 THEN <<>> ELSE g[k - 1] \o c[k]] OBVIOUS
<1> HIDE DEF g
<1>2. PICK f : Joined(c) = f[Len(c)] /\ f[0] = <<>> BY <1>1, JoinedIs, Zenon
<1>3. c = <<>> OBVIOUS
<1> QED BY <1>2, <1>3, Zenon

\* One chunk
LEMMA Joined1 == ASSUME NEW c \in Seq(Seq(Bytes)), Len(c) = 1 PROVE Joined(c) = c[1]
<1> DEFINE g == [k \in 0..1 |-> IF k = 0 THEN <<>> ELSE <<>> \o c[1]]
<1>1. g = [k \in 0..Len(c) |-> IF k = 0 THEN <<>> ELSE g[k - 1] \o c[k]] OBVIOUS
<1> HIDE DEF g
<1>3. PICK f : /\ Joined(c) = f[Len(c)] /\ f[0] = <<>>
               /\ \A k \in 1..Len(c) : f[k] = f[k - 1] \o c[k]
  BY <1>1, JoinedIs, Zenon
<1>4. 1 \in 1..Len(c) /\ 1 - 1 = 0 /\ <<>> \o c[1] = c[1] OBVIOUS
<1>5. f[1] = f[1 - 1] \o c[1] BY <1>3, <1>4, Zenon
<1> QED BY <1>3, <1>4, <1>5, Zenon

\* Two chunks
LEMMA Joined2 == ASSUME NEW c \in Seq(Seq(Bytes)), Len(c) = 2 PROVE Joined(c) = c[1] \o c[2]
<1> DEFINE g == [k \in 0..2 |-> IF k = 0 THEN <<>> ELSE IF k = 1 THEN <<>> \o c[1] ELSE (<<>> \o c[1]) \o c[2]]
<1>1. g = [k \in 0..Len(c) |-> IF k = 0 THEN <<>> ELSE g[k - 1] \o c[k]] OBVIOUS
<1> HIDE DEF g
<1>3. PICK f : /\ Joined(c) = f[Len(c)] /\ f[0] = <<>>
               /\ \A k \in 1..Len(c) : f[k] = f[k - 1] \o c[k]
  BY <1>1, JoinedIs, Zenon
<1>4. 1 \in 1..Len(c) /\ 2 \in 1..Len(c) /\ 1 - 1 = 0 /\ 2 - 1 = 1 /\ <<>> \o c[1] = c[1] OBVIOUS
<1>5. f[1] = f[1 - 1] \o c[1] /\ f[2] = f[2 - 1] \o c[2] BY <1>3, <1>4, Zenon
<1>6. f[1] = c[1] BY <1>3, <1>4, <1>5, Zenon
<1> QED BY <1>3, <1>4, <1>5, <1>6, Zenon

\* Three chunks, the most a fragment has
LEMMA Joined3 == ASSUME NEW c \in Seq(Seq(Bytes)), Len(c) = 3 PROVE Joined(c) = (c[1] \o c[2]) \o c[3]
<1> DEFINE d == <<>> \o c[1]
           g == [k \in 0..3 |-> IF k = 0 THEN <<>> ELSE IF k = 1 THEN d ELSE IF k = 2 THEN d \o c[2] ELSE (d \o c[2]) \o c[3]]
<1>1. g = [k \in 0..Len(c) |-> IF k = 0 THEN <<>> ELSE g[k - 1] \o c[k]] OBVIOUS
<1> HIDE DEF g
<1>3. PICK f : /\ Joined(c) = f[Len(c)] /\ f[0] = <<>>
               /\ \A k \in 1..Len(c) : f[k] = f[k - 1] \o c[k]
  BY <1>1, JoinedIs, Zenon
<1>4. /\ 1 \in 1..Len(c) /\ 2 \in 1..Len(c) /\ 3 \in 1..Len(c) /\ 1 - 1 = 0 /\ 2 - 1 = 1 /\ 3 - 1 = 2
      /\ <<>> \o c[1] = c[1]
  OBVIOUS
<1>5. f[1] = f[1 - 1] \o c[1] /\ f[2] = f[2 - 1] \o c[2] /\ f[3] = f[3 - 1] \o c[3] BY <1>3, <1>4, Zenon
<1>6. f[1] = c[1] BY <1>3, <1>4, <1>5, Zenon
<1>7. f[2] = c[1] \o c[2] BY <1>4, <1>5, <1>6, Zenon
<1> QED BY <1>3, <1>4, <1>5, <1>7, Zenon

\* Where chunks begin and end is a number.
LEMMA Offsets ==
    ASSUME NEW l \in [Args -> Nat], NEW cs \in Seq(Seq(Bytes)), NEW a, NEW o, Layout(l, cs, a, o)
    PROVE  /\ \A k \in 1..Len(cs) : Offset(l, a, o, k) \in Nat /\ Len(cs[k]) \in Nat /\ cs[k] \in Seq(Bytes)
           /\ End(l, cs, a, o) \in Nat /\ Len(cs) \in 1..3
<1>1. \A k \in 1..Len(cs) : a + k - 1 \in 1..4 /\ cs[k] \in Seq(Bytes)
  <2>1. a \in Args /\ Len(cs) \in 1..3 /\ a + Len(cs) <= 4 BY Zenon DEF Layout
  <2>2. \A k \in 1..Len(cs) : a + k - 1 \in 1..4 BY <2>1 DEF Args
  <2>3. \A k \in 1..Len(cs) : cs[k] \in Seq(Bytes) OBVIOUS
  <2> QED BY <2>2, <2>3, Zenon
<1>2. \A k \in 1..Len(cs) : Offset(l, a, o, k) \in Nat BY <1>1, Starts, Zenon DEF Offset, Layout
<1>0. Len(cs) \in 1..3 BY Zenon DEF Layout
<1>3. Len(cs) \in 1..Len(cs)
  <2>1. \A n \in 1..3 : n \in 1..n BY SMT
  <2> QED BY <1>0, <2>1, Zenon
<1>4. Offset(l, a, o, Len(cs)) \in Nat /\ Len(cs[Len(cs)]) \in Nat BY <1>1, <1>2, <1>3
<1>5. End(l, cs, a, o) \in Nat
  <2>1. \A x, y \in Nat : x + y \in Nat OBVIOUS
  <2> QED BY <1>4, <2>1, Zenon DEF End
<1> QED BY <1>1, <1>2, <1>5 DEF Layout

\* The chunks of a fragment, put together, are where the fragment is.
LEMMA JoinedAt ==
    ASSUME NEW l \in [Args -> Nat], NEW cs \in Seq(Seq(Bytes)), NEW a, NEW o, Layout(l, cs, a, o)
    PROVE  /\ Joined(cs) \in Seq(Bytes) /\ o + Len(Joined(cs)) = End(l, cs, a, o)
           /\ At(l, Joined(cs), o) <=> Contents(l, cs, a, o)
<1>1. /\ \A k \in 1..Len(cs) : Offset(l, a, o, k) \in Nat /\ Len(cs[k]) \in Nat /\ cs[k] \in Seq(Bytes)
      /\ Len(cs) \in 1..3 /\ o \in Nat
  BY Offsets, Zenon DEF Layout
<1>2. Offset(l, a, o, 1) = o BY DEF Offset
<1>3. CASE Len(cs) = 1
  <2>1. Joined(cs) = cs[1] BY <1>3, Joined1
  <2>2. End(l, cs, a, o) = o + Len(cs[1]) BY <1>2, <1>3 DEF End
  <2>3. Contents(l, cs, a, o) <=> At(l, cs[1], o)
    <3>1. \A k : k \in 1..Len(cs) <=> k = 1 BY <1>3
    <3>2. Contents(l, cs, a, o) <=> At(l, cs[1], Offset(l, a, o, 1)) BY <3>1, Zenon DEF Contents
    <3> QED BY <1>2, <3>2, Zenon
  <2> QED BY <1>1, <1>3, <2>1, <2>2, <2>3
<1>4. CASE Len(cs) = 2
  <2> DEFINE c1 == cs[1]
             c2 == cs[2]
  <2>1. Joined(cs) = c1 \o c2 BY <1>4, Joined2, Zenon
  <2>2. c1 \in Seq(Bytes) /\ c2 \in Seq(Bytes) /\ Len(c1) \in Nat /\ Len(c2) \in Nat BY <1>1, <1>4
  <2>3. Offset(l, a, o, 2) = Start(l, a + 1) /\ o + Len(c1) = Start(l, a + 1)
    <3>1. 1 \in 1..Len(cs) - 1 /\ a + 2 - 1 = a + 1 BY <1>4 DEF Layout, Args
    <3> QED BY <1>2, <3>1 DEF Offset, Layout
  <2>4. End(l, cs, a, o) = o + Len(c1) + Len(c2) BY <1>4, <2>3 DEF End
  <2>5. Contents(l, cs, a, o) <=> At(l, c1, o) /\ At(l, c2, o + Len(c1))
    <3>1. \A k : k \in 1..Len(cs) <=> k = 1 \/ k = 2 BY <1>4
    <3>2. Contents(l, cs, a, o) <=> At(l, c1, Offset(l, a, o, 1)) /\ At(l, c2, Offset(l, a, o, 2))
      BY <3>1, Zenon DEF Contents
    <3> QED BY <1>2, <2>3, <3>2, Zenon
  <2> HIDE DEF c1, c2
  <2>6. /\ c1 \o c2 \in Seq(Bytes) /\ Len(c1 \o c2) = Len(c1) + Len(c2)
        /\ At(l, c1 \o c2, o) <=> At(l, c1, o) /\ At(l, c2, o + Len(c1))
    BY <1>1, <2>2, AtConcat
  <2>7. o + (Len(c1) + Len(c2)) = o + Len(c1) + Len(c2) BY <1>1, <2>2
  <2> QED BY <2>1, <2>4, <2>5, <2>6, <2>7, Zenon
<1>5. CASE Len(cs) = 3
  <2> DEFINE c1 == cs[1]
             c2 == cs[2]
             c3 == cs[3]
  <2>1. Joined(cs) = (c1 \o c2) \o c3 BY <1>5, Joined3, Zenon
  <2>2. /\ c1 \in Seq(Bytes) /\ c2 \in Seq(Bytes) /\ c3 \in Seq(Bytes)
        /\ Len(c1) \in Nat /\ Len(c2) \in Nat /\ Len(c3) \in Nat
    BY <1>1, <1>5
  <2>3. Offset(l, a, o, 2) = Start(l, a + 1) /\ o + Len(c1) = Start(l, a + 1)
    <3>1. 1 \in 1..Len(cs) - 1 /\ a + 2 - 1 = a + 1 BY <1>5 DEF Layout, Args
    <3> QED BY <1>2, <3>1 DEF Offset, Layout
  <2>4. Offset(l, a, o, 3) = Start(l, a + 2) /\ o + Len(c1) + Len(c2) = Start(l, a + 2)
    <3>1. 2 \in 1..Len(cs) - 1 /\ a + 3 - 1 = a + 2 BY <1>5 DEF Layout, Args
    <3>2. Offset(l, a, o, 2) + Len(c2) = Start(l, a + 2) BY <3>1 DEF Layout
    <3>3. Offset(l, a, o, 3) = Start(l, a + 2) BY <3>1 DEF Offset
    <3> QED BY <2>3, <3>2, <3>3
  <2>5. End(l, cs, a, o) = o + Len(c1) + Len(c2) + Len(c3) BY <1>5, <2>4 DEF End
  <2>6. Contents(l, cs, a, o) <=> At(l, c1, o) /\ At(l, c2, o + Len(c1)) /\ At(l, c3, o + Len(c1) + Len(c2))
    <3>1. \A k : k \in 1..Len(cs) <=> k = 1 \/ k = 2 \/ k = 3 BY <1>5
    <3>2. Contents(l, cs, a, o) <=> /\ At(l, c1, Offset(l, a, o, 1)) /\ At(l, c2, Offset(l, a, o, 2))
                                    /\ At(l, c3, Offset(l, a, o, 3))
      BY <3>1, Zenon DEF Contents
    <3> QED BY <1>2, <2>3, <2>4, <3>2, Zenon
  <2> HIDE DEF c1, c2, c3
  <2> DEFINE d == c1 \o c2
  <2>7. /\ d \in Seq(Bytes) /\ Len(d) = Len(c1) + Len(c2)
        /\ At(l, d, o) <=> At(l, c1, o) /\ At(l, c2, o + Len(c1))
    BY <1>1, <2>2, AtConcat
  <2> HIDE DEF d
  <2>8. /\ d \o c3 \in Seq(Bytes) /\ Len(d \o c3) = Len(d) + Len(c3)
        /\ At(l, d \o c3, o) <=> At(l, d, o) /\ At(l, c3, o + Len(d))
    BY <1>1, <2>2, <2>7, AtConcat, Zenon
  <2>9. o + Len(d) = o + Len(c1) + Len(c2) /\ o + (Len(d) + Len(c3)) = o + Len(c1) + Len(c2) + Len(c3)
    BY <1>1, <2>2, <2>7
  <2>10. Joined(cs) = d \o c3 BY <2>1 DEF d
  <2> QED BY <2>5, <2>6, <2>7, <2>8, <2>9, <2>10, Zenon
<1> QED BY <1>1, <1>3, <1>4, <1>5

\* The comparison of recvAndParseNextFragment: the checksum of a fragment is right exactly
\* when its chunks hold the bytes of the stream.
LEMMA ChecksumTells ==
    ASSUME NEW l \in [Args -> Nat], NEW cs \in Seq(Seq(Bytes)), NEW a, NEW s \in Seq(Bytes), NEW t \in Seq(Bytes),
           Layout(l, cs, a, Len(s)), End(l, cs, a, Len(s)) = Len(t), At(l, s, 0), At(l, t, 0)
    PROVE  /\ s \o Joined(cs) \in Seq(Bytes)
           /\ t = s \o Joined(cs) <=> Contents(l, cs, a, Len(s))
<1> DEFINE f == Joined(cs)
<1>1. f \in Seq(Bytes) /\ Len(s) + Len(f) = Len(t) /\ (At(l, f, Len(s)) <=> Contents(l, cs, a, Len(s)))
  BY JoinedAt
<1> HIDE DEF f
<1>2. /\ s \o f \in Seq(Bytes) /\ Len(s \o f) = Len(s) + Len(f)
      /\ At(l, s \o f, 0) <=> At(l, s, 0) /\ At(l, f, 0 + Len(s))
  BY <1>1, AtConcat
<1>3. 0 + Len(s) = Len(s) OBVIOUS
<1>4. t = s \o f => Contents(l, cs, a, Len(s)) BY <1>1, <1>2, <1>3, Zenon
<1>5. ASSUME Contents(l, cs, a, Len(s)) PROVE t = s \o f
  <2>1. At(l, s \o f, 0) BY <1>1, <1>2, <1>3, <1>5, Zenon
  <2>2. Len(s \o f) = Len(t) BY <1>1, <1>2
  <2> QED BY <1>2, <2>1, <2>2, AtSame, Zenon
<1> QED BY <1>2, <1>4, <1>5 DEF f

\* A new fragment, before something is written into it
LEMMA LayoutNew ==
    ASSUME NEW l \in [Args -> Nat], NEW a \in Args, NEW o \in Nat, Start(l, a) <= o, o <= Start(l, a + 1)
    PROVE  Layout(l, <<<<>>>>, a, o) /\ Contents(l, <<<<>>>>, a, o) /\ End(l, <<<<>>>>, a, o) = o
<1> DEFINE cs == <<<<>>>>
<1>1. Len(cs) = 1 /\ cs[1] = <<>> /\ Len(<<>>) = 0 OBVIOUS
<1> HIDE DEF cs
<1>2. Offset(l, a, o, 1) = o BY DEF Offset
<1>3. End(l, cs, a, o) = o BY <1>1, <1>2 DEF End
<1>4. a + Len(cs) <= 4 /\ a + Len(cs) = a + 1 /\ 1..Len(cs) - 1 = {} /\ 1..Len(cs) = {1} BY <1>1 DEF Args
<1>5. Layout(l, cs, a, o) BY <1>1, <1>3, <1>4 DEF Layout
<1>6. Contents(l, cs, a, o) BY <1>1, <1>4, AtNone DEF Contents
<1> QED BY <1>3, <1>5, <1>6 DEF cs

\* The next argument begins in the fragment.
LEMMA LayoutAppend ==
    ASSUME NEW l \in [Args -> Nat], NEW cs \in Seq(Seq(Bytes)), NEW a, NEW o, Layout(l, cs, a, o),
           Contents(l, cs, a, o), End(l, cs, a, o) = Start(l, a + Len(cs)), a + Len(cs) <= 3
    PROVE  LET ds == Append(cs, <<>>) IN
           /\ ds \in Seq(Seq(Bytes)) /\ Len(ds) = Len(cs) + 1
           /\ Layout(l, ds, a, o) /\ Contents(l, ds, a, o) /\ End(l, ds, a, o) = End(l, cs, a, o)
<1> DEFINE ds == Append(cs, <<>>)
           n == Len(cs)
<1>1. ds \in Seq(Seq(Bytes)) /\ Len(ds) = n + 1 /\ ds[n + 1] = <<>> /\ \A k \in 1..n : ds[k] = cs[k] OBVIOUS
<1>2. /\ n \in 1..3 /\ a \in Args /\ o \in Nat /\ Start(l, a) <= o
      /\ \A k \in 1..n - 1 : Offset(l, a, o, k) + Len(cs[k]) = Start(l, a + k)
      /\ \A k \in 1..n : At(l, cs[k], Offset(l, a, o, k))
      /\ Offset(l, a, o, n) + Len(cs[n]) = Start(l, a + n)
  BY Zenon DEF Layout, Contents, End
<1>a. n \in 1..3 /\ a \in 1..3 /\ a + n <= 3 BY <1>2, Zenon DEF Args
<1> HIDE DEF ds, n
<1>3. a \in Nat /\ a + n \in 1..3 /\ a + (n + 1) \in 1..4 /\ a + (n + 1) - 1 = a + n /\ n + 1 # 1 /\ a + n + 1 = a + (n + 1)
      /\ n + 1 \in 1..3
  BY <1>a
<1>4. Offset(l, a, o, n + 1) = Start(l, a + n) BY <1>3 DEF Offset
<1>5. Start(l, a + n) \in Nat /\ Start(l, a + n) <= Start(l, a + n + 1)
  <2>1. l[a + n] \in Nat /\ a + n \in Args BY <1>3 DEF Args
  <2>2. Start(l, a + n + 1) = Start(l, a + n) + l[a + n] /\ Start(l, a + n) \in Nat
    <3>1. a + n \in 1..4 BY <1>3
    <3> QED BY <2>1, <3>1, Starts, Zenon
  <2> QED BY <2>1, <2>2
<1>6. End(l, ds, a, o) = Start(l, a + n) BY <1>1, <1>4, <1>5 DEF End
<1>7. \A k \in 1..(n + 1) - 1 : Offset(l, a, o, k) + Len(ds[k]) = Start(l, a + k)
  <2> SUFFICES ASSUME NEW k \in 1..(n + 1) - 1 PROVE Offset(l, a, o, k) + Len(ds[k]) = Start(l, a + k) OBVIOUS
  <2>1. k \in 1..n - 1 \/ k = n BY <1>2
  <2>2. k \in 1..n BY <1>2
  <2> QED BY <1>1, <1>2, <2>1, <2>2, Zenon
<1>8. Layout(l, ds, a, o) BY <1>1, <1>2, <1>3, <1>5, <1>6, <1>7 DEF Layout
<1>9. Contents(l, ds, a, o)
  <2> SUFFICES ASSUME NEW k \in 1..(n + 1) PROVE At(l, ds[k], Offset(l, a, o, k)) BY <1>1, Zenon DEF Contents
  <2>1. k \in 1..n \/ k = n + 1 BY <1>2
  <2> QED BY <1>1, <1>2, <2>1, AtNone, Zenon
<1> QED BY <1>1, <1>6, <1>8, <1>9 DEF ds, n, End

\* Bytes are written to the last chunk.
\* ds are the chunks cs with the bytes b added to the last one.
Grown(cs, b, ds) == ds = [cs EXCEPT ![Len(cs)] = @ \o b]

\* The last chunk takes bytes that follow it in its argument.
LEMMA LayoutGrow ==
    ASSUME NEW l \in [Args -> Nat], NEW cs \in Seq(Seq(Bytes)), NEW a, NEW o, Layout(l, cs, a, o),
           Contents(l, cs, a, o), NEW b \in Seq(Bytes), At(l, b, End(l, cs, a, o)),
           End(l, cs, a, o) + Len(b) <= Start(l, a + Len(cs)), NEW ds, Grown(cs, b, ds)
    PROVE  /\ ds \in Seq(Seq(Bytes)) /\ Len(ds) = Len(cs)
           /\ Layout(l, ds, a, o) /\ Contents(l, ds, a, o) /\ End(l, ds, a, o) = End(l, cs, a, o) + Len(b)
<1> DEFINE n == Len(cs)
           last == cs[n] \o b
<1>0. /\ \A k \in 1..n : Offset(l, a, o, k) \in Nat /\ Len(cs[k]) \in Nat /\ cs[k] \in Seq(Bytes)
      /\ n \in 1..3 /\ n \in 1..n
  <2>1. \A k \in 1..3 : k \in 1..k BY SMT
  <2> QED BY <2>1, Offsets, Zenon
<1>1. last \in Seq(Bytes) /\ Len(last) = Len(cs[n]) + Len(b) BY <1>0
<1>2. ds \in Seq(Seq(Bytes)) /\ Len(ds) = n /\ ds[n] = last /\ \A k \in 1..n : k # n => ds[k] = cs[k] BY <1>0, <1>1 DEF Grown
<1>3. /\ n \in 1..3 /\ a \in Args /\ o \in Nat /\ Start(l, a) <= o /\ a + n <= 4
      /\ \A k \in 1..n - 1 : Offset(l, a, o, k) + Len(cs[k]) = Start(l, a + k)
      /\ \A k \in 1..n : At(l, cs[k], Offset(l, a, o, k))
      /\ End(l, cs, a, o) = Offset(l, a, o, n) + Len(cs[n])
  BY Zenon DEF Layout, Contents, End
<1>4. At(l, last, Offset(l, a, o, n))
  <2>1. At(l, b, Offset(l, a, o, n) + Len(cs[n])) BY <1>3, Zenon
  <2>2. Offset(l, a, o, n) \in Nat /\ cs[n] \in Seq(Bytes) /\ At(l, cs[n], Offset(l, a, o, n)) BY <1>0, <1>3, Zenon
  <2> QED BY <2>1, <2>2, AtConcat, Zenon
<1> HIDE DEF n, last
<1>5. End(l, ds, a, o) = End(l, cs, a, o) + Len(b)
  <2>1. End(l, ds, a, o) = Offset(l, a, o, n) + Len(last) BY <1>2, Zenon DEF End
  <2>2. Offset(l, a, o, n) \in Nat /\ Len(cs[n]) \in Nat /\ Len(b) \in Nat BY <1>0
  <2> QED BY <1>1, <1>3, <2>1, <2>2
<1>6. \A k \in 1..n - 1 : ds[k] = cs[k]
  <2>1. \A k \in 1..n - 1 : k \in 1..n /\ k # n BY <1>0
  <2> QED BY <1>2, <2>1, Zenon
<1>7. Layout(l, ds, a, o)
  <2>1. End(l, ds, a, o) <= Start(l, a + n) BY <1>5 DEF n
  <2> QED BY <1>2, <1>3, <1>6, <2>1, Zenon DEF Layout
<1>8. Contents(l, ds, a, o) BY <1>2, <1>3, <1>4, Zenon DEF Contents
<1> QED BY <1>2, <1>5, <1>7, <1>8, Zenon DEF n

\* Elements of a concatenation
LEMMA ConcatIs ==
    ASSUME NEW S, NEW h \in Seq(S), NEW t \in Seq(S)
    PROVE  /\ h \o t \in Seq(S) /\ Len(h \o t) = Len(h) + Len(t) /\ Len(h) \in Nat /\ Len(t) \in Nat
           /\ \A k \in 1..Len(h) : (h \o t)[k] = h[k]
           /\ \A k \in 1..Len(t) : (h \o t)[Len(h) + k] = t[k]
OBVIOUS

\* A chunk in front of others
LEMMA ConsChunk ==
    ASSUME NEW x \in Seq(Bytes), NEW t \in Seq(Seq(Bytes))
    PROVE  LET s == <<x>> \o t IN
           /\ s \in Seq(Seq(Bytes)) /\ Len(s) = Len(t) + 1 /\ s[1] = x /\ Len(t) \in Nat
           /\ \A k \in 1..Len(t) : s[k + 1] = t[k]
<1> DEFINE h == <<x>>
<1>1. h \in Seq(Seq(Bytes)) /\ Len(h) = 1 /\ h[1] = x OBVIOUS
<1> HIDE DEF h
<1>a. /\ h \o t \in Seq(Seq(Bytes)) /\ Len(h \o t) = Len(h) + Len(t) /\ Len(t) \in Nat
      /\ \A k \in 1..Len(h) : (h \o t)[k] = h[k]
      /\ \A k \in 1..Len(t) : (h \o t)[Len(h) + k] = t[k]
  <2> DEFINE S == Seq(Bytes)
  <2>1. h \in Seq(S) /\ t \in Seq(S) BY <1>1
  <2> HIDE DEF S
  <2>2. h \o t \in Seq(S) /\ Len(h \o t) = Len(h) + Len(t) /\ Len(t) \in Nat BY <2>1, ConcatIs
  <2>3. /\ \A k \in 1..Len(h) : (h \o t)[k] = h[k]
        /\ \A k \in 1..Len(t) : (h \o t)[Len(h) + k] = t[k]
    BY <2>1, ConcatIs
  <2> QED BY <2>2, <2>3, Zenon DEF S
<1>b. 1 \in 1..1 /\ \A k \in 1..Len(t) : 1 + k = k + 1 BY <1>a
<1>2. h \o t \in Seq(Seq(Bytes)) /\ (h \o t)[1] = x /\ Len(t) \in Nat BY <1>1, <1>a, <1>b, Zenon
<1>3. Len(h \o t) = Len(t) + 1 BY <1>1, <1>a
<1>4. \A k \in 1..Len(t) : (h \o t)[k + 1] = t[k] BY <1>1, <1>a, <1>b, Zenon
<1> QED BY <1>2, <1>3, <1>4, Zenon DEF h

\* Sequences with the same elements
LEMMA SeqSame ==
    ASSUME NEW S, NEW s \in Seq(S), NEW t \in Seq(S), Len(s) = Len(t), \A k \in 1..Len(s) : s[k] = t[k]
    PROVE  s = t
OBVIOUS

\* The first chunk and the others
LEMMA HeadTail ==
    ASSUME NEW s \in Seq(Seq(Bytes)), Len(s) > 0
    PROVE  /\ Head(s) \in Seq(Bytes) /\ Tail(s) \in Seq(Seq(Bytes)) /\ Len(Tail(s)) = Len(s) - 1
           /\ <<Head(s)>> \o Tail(s) = s
<1>1. /\ Head(s) \in Seq(Bytes) /\ Tail(s) \in Seq(Seq(Bytes)) /\ Len(Tail(s)) = Len(s) - 1 /\ Head(s) = s[1]
      /\ \A k \in 1..Len(s) - 1 : Tail(s)[k] = s[k + 1]
  OBVIOUS
<1> DEFINE t == Tail(s)
           d == <<Head(s)>> \o Tail(s)
<1>2. /\ d \in Seq(Seq(Bytes)) /\ Len(d) = Len(t) + 1 /\ d[1] = Head(s)
      /\ \A k \in 1..Len(t) : d[k + 1] = t[k]
  BY <1>1, ConsChunk, Zenon
<1> HIDE DEF d
<1>3. Len(d) = Len(s) BY <1>1, <1>2
<1>4. \A k \in 1..Len(s) : d[k] = s[k]
  <2> SUFFICES ASSUME NEW k \in 1..Len(s), k # 1 PROVE d[k] = s[k] BY <1>1, <1>2
  <2>1. k - 1 \in 1..Len(s) - 1 /\ (k - 1) + 1 = k OBVIOUS
  <2> HIDE DEF t
  <2>2. Len(t) = Len(s) - 1 BY <1>1 DEF t
  <2>3. d[(k - 1) + 1] = t[k - 1] BY <1>2, <2>1, <2>2, Zenon
  <2>4. t[k - 1] = s[(k - 1) + 1] BY <1>1, <2>1, Zenon DEF t
  <2> QED BY <2>1, <2>3, <2>4, Zenon
<1>5. d = s
  <2>1. \A k \in 1..Len(d) : d[k] = s[k] BY <1>3, <1>4
  <2> QED BY <1>2, <1>3, <2>1, SeqSame, Zenon
<1> QED BY <1>1, <1>5 DEF d

\* Bytes are read from the first chunk.
Laid(l, x, t, a, o) ==
    /\ l \in [Args -> Nat] /\ x \in Seq(Bytes) /\ t \in Seq(Seq(Bytes))
    /\ Layout(l, <<x>> \o t, a, o) /\ Contents(l, <<x>> \o t, a, o)
\* n bytes h of chunk x, and the others
Cut(x, n, h, y) == n \in 0..Len(x) /\ h = SubSeq(x, 1, n) /\ y = SubSeq(x, n + 1, Len(x))
\* What is known of the chunks once n bytes are read
Left(l, x, t, a, o, n, h, y) ==
    /\ Layout(l, <<y>> \o t, a, o + n) /\ Contents(l, <<y>> \o t, a, o + n)
    /\ End(l, <<y>> \o t, a, o + n) = End(l, <<x>> \o t, a, o)
    /\ o \in Nat /\ o + Len(x) <= Start(l, a + 1) /\ At(l, h, o)
    /\ h \in Seq(Bytes) /\ Len(h) = n /\ y \in Seq(Bytes) /\ Len(y) = Len(x) - n

\* The chunks that are left begin n bytes further in the stream.
LEMMA LayoutDrop ==
    ASSUME NEW l, NEW x, NEW t, NEW a, NEW o, Laid(l, x, t, a, o), NEW n, NEW h, NEW y, Cut(x, n, h, y)
    PROVE  Left(l, x, t, a, o, n, h, y)
<1>0. /\ l \in [Args -> Nat] /\ x \in Seq(Bytes) /\ t \in Seq(Seq(Bytes)) /\ n \in 0..Len(x)
      /\ Layout(l, <<x>> \o t, a, o) /\ Contents(l, <<x>> \o t, a, o)
      /\ h = SubSeq(x, 1, n) /\ y = SubSeq(x, n + 1, Len(x))
  BY Zenon DEF Laid, Cut
<1> DEFINE cs == <<x>> \o t
           ds == <<y>> \o t
           m == Len(t) + 1
<1>1. /\ cs \in Seq(Seq(Bytes)) /\ Len(cs) = m /\ cs[1] = x /\ Len(t) \in Nat
      /\ \A k \in 1..Len(t) : cs[k + 1] = t[k]
  BY <1>0, ConsChunk, Zenon
<1>2. h \in Seq(Bytes) /\ Len(h) = n /\ y \in Seq(Bytes) /\ Len(y) = Len(x) - n BY <1>0
<1>3. /\ ds \in Seq(Seq(Bytes)) /\ Len(ds) = m /\ ds[1] = y
      /\ \A k \in 1..Len(t) : ds[k + 1] = t[k]
  BY <1>0, <1>2, ConsChunk, Zenon
<1> HIDE DEF cs, ds
<1>4. \A k \in 2..m : k \in 1..m /\ ds[k] = cs[k] /\ k # 1
  <2> SUFFICES ASSUME NEW k \in 2..m PROVE k \in 1..m /\ ds[k] = cs[k] /\ k # 1 OBVIOUS
  <2>1. k - 1 \in 1..Len(t) /\ (k - 1) + 1 = k /\ k \in 1..m /\ k # 1 BY <1>1
  <2>2. ds[(k - 1) + 1] = cs[(k - 1) + 1] BY <1>1, <1>3, <2>1, Zenon
  <2> QED BY <2>1, <2>2, Zenon
<1>5. Layout(l, cs, a, o) /\ Contents(l, cs, a, o) BY <1>0, Zenon DEF cs
<1>6. /\ a \in Args /\ m \in 1..3 /\ a + m <= 4 /\ o \in Nat /\ Start(l, a) <= o
      /\ \A k \in 1..m - 1 : Offset(l, a, o, k) + Len(cs[k]) = Start(l, a + k)
      /\ End(l, cs, a, o) <= Start(l, a + m)
      /\ End(l, cs, a, o) = Offset(l, a, o, m) + Len(cs[m])
      /\ \A k \in 1..m : At(l, cs[k], Offset(l, a, o, k))
  BY <1>1, <1>5, Zenon DEF Layout, Contents, End
<1>7. /\ Offset(l, a, o, 1) = o /\ Offset(l, a, o + n, 1) = o + n
      /\ \A k \in 2..m : Offset(l, a, o + n, k) = Offset(l, a, o, k)
  BY <1>4, Zenon DEF Offset
<1>8. o + n + Len(y) = o + Len(x) /\ o + n \in Nat
  <2>1. \A p, u, v \in Nat : v \in 0..u => p + v + (u - v) = p + u /\ p + v \in Nat BY SMT
  <2>2. Len(x) \in Nat /\ n \in Nat BY <1>0
  <2>3. o + n + (Len(x) - n) = o + Len(x) /\ o + n \in Nat
    <3>1. PICK p, u, v \in Nat : p = o /\ u = Len(x) /\ v = n BY <1>6, <2>2, Zenon
    <3>2. v \in 0..u BY <1>0, <3>1, Zenon
    <3>3. p + v + (u - v) = p + u /\ p + v \in Nat BY <2>1, <3>2, Zenon
    <3> QED BY <3>1, <3>3, Zenon
  <2> QED BY <1>2, <2>3, Zenon
<1>9. At(l, h, o) /\ At(l, y, o + n)
  <2>1. At(l, x, o)
    <3>1. 1 \in 1..m BY <1>6
    <3> QED BY <1>1, <1>6, <1>7, <3>1, Zenon
  <2>2. LET head == SubSeq(x, 1, n)
            tail == SubSeq(x, n + 1, Len(x)) IN
        /\ head \in Seq(Bytes) /\ Len(head) = n /\ At(l, head, o)
        /\ tail \in Seq(Bytes) /\ Len(tail) = Len(x) - n /\ At(l, tail, o + n)
    BY <1>0, <1>6, <2>1, AtCut, Zenon
  <2> QED BY <1>0, <2>2, Zenon
<1>10. Offset(l, a, o + n, m) + Len(ds[m]) = Offset(l, a, o, m) + Len(cs[m])
  <2>1. CASE m = 1 BY <1>1, <1>3, <1>7, <1>8, <2>1, Zenon
  <2>2. CASE m # 1
    <3>1. m \in 2..m BY <1>6, <2>2
    <3> QED BY <1>4, <1>7, <3>1, Zenon
  <2> QED BY <2>1, <2>2
<1>11. \A k \in 1..m - 1 : Offset(l, a, o + n, k) + Len(ds[k]) = Start(l, a + k)
  <2> SUFFICES ASSUME NEW k \in 1..m - 1 PROVE Offset(l, a, o + n, k) + Len(ds[k]) = Start(l, a + k) OBVIOUS
  <2>1. k = 1 \/ k \in 2..m BY <1>6
  <2>2. CASE k = 1 BY <1>1, <1>3, <1>6, <1>7, <1>8, <2>2, Zenon
  <2>3. CASE k \in 2..m BY <1>4, <1>6, <1>7, <2>3, Zenon
  <2> QED BY <2>1, <2>2, <2>3
<1>12. \A k \in 1..m : At(l, ds[k], Offset(l, a, o + n, k))
  <2> SUFFICES ASSUME NEW k \in 1..m PROVE At(l, ds[k], Offset(l, a, o + n, k)) OBVIOUS
  <2>1. k = 1 \/ k \in 2..m BY <1>6
  <2> QED BY <1>3, <1>4, <1>6, <1>7, <1>9, <2>1, Zenon
<1>13. End(l, ds, a, o + n) = End(l, cs, a, o) BY <1>3, <1>6, <1>10, Zenon DEF End
<1>14. Start(l, a) <= o + n
  <2>1. Start(l, a) \in Nat /\ a \in 1..4
    <3>1. a \in 1..4 BY <1>6 DEF Args
    <3> QED BY <1>0, <3>1, Starts, Zenon
  <2> QED BY <1>0, <1>6, <2>1
<1>15. Layout(l, ds, a, o + n) BY <1>3, <1>6, <1>8, <1>11, <1>13, <1>14, Zenon DEF Layout
<1>16. Contents(l, ds, a, o + n) BY <1>3, <1>12, Zenon DEF Contents
<1>17. o + Len(x) <= Start(l, a + 1)
  <2>1. CASE m = 1 BY <1>0, <1>1, <1>6, <1>7, <2>1
  <2>2. CASE m # 1
    <3>1. 1 \in 1..m - 1 BY <1>6, <2>2
    <3>2. o + Len(x) = Start(l, a + 1) BY <1>1, <1>6, <1>7, <3>1, Zenon
    <3>3. o + Len(x) \in Nat BY <1>0, <1>6
    <3> QED BY <3>2, <3>3
  <2> QED BY <2>1, <2>2
<1> QED BY <1>2, <1>6, <1>9, <1>13, <1>15, <1>16, <1>17, Zenon DEF cs, ds, Left

\* The reader turns to the next chunk.
Rest(l, x, t, a, o) ==
    /\ o + Len(x) = Start(l, a + 1) /\ a + 1 \in Args
    /\ Layout(l, t, a + 1, Start(l, a + 1)) /\ Contents(l, t, a + 1, Start(l, a + 1))
    /\ End(l, t, a + 1, Start(l, a + 1)) = End(l, <<x>> \o t, a, o)

\* The chunks after the first one begin where the next argument does.
LEMMA LayoutRest == ASSUME NEW l, NEW x, NEW t, NEW a, NEW o, Laid(l, x, t, a, o), Len(t) > 0 PROVE Rest(l, x, t, a, o)
<1>0. /\ l \in [Args -> Nat] /\ x \in Seq(Bytes) /\ t \in Seq(Seq(Bytes))
      /\ Layout(l, <<x>> \o t, a, o) /\ Contents(l, <<x>> \o t, a, o)
  BY Zenon DEF Laid
<1> DEFINE cs == <<x>> \o t
           n == Len(t)
           p == Start(l, a + 1)
<1>1. /\ cs \in Seq(Seq(Bytes)) /\ Len(cs) = n + 1 /\ cs[1] = x /\ n \in Nat
      /\ \A k \in 1..n : cs[k + 1] = t[k]
  BY <1>0, ConsChunk, Zenon
<1> HIDE DEF cs
<1>2. Layout(l, cs, a, o) /\ Contents(l, cs, a, o) BY <1>0, Zenon DEF cs
<1>3. /\ a \in Args /\ n + 1 \in 1..3 /\ a + (n + 1) <= 4 /\ o \in Nat
      /\ \A k \in 1..(n + 1) - 1 : Offset(l, a, o, k) + Len(cs[k]) = Start(l, a + k)
      /\ End(l, cs, a, o) <= Start(l, a + (n + 1))
      /\ End(l, cs, a, o) = Offset(l, a, o, n + 1) + Len(cs[n + 1])
      /\ \A k \in 1..n + 1 : At(l, cs[k], Offset(l, a, o, k))
  BY <1>1, <1>2, Zenon DEF Layout, Contents, End
<1>a. n > 0 OBVIOUS
<1> HIDE DEF n
<1>4. /\ a + 1 \in Args /\ n \in 1..3 /\ a + 1 + n <= 4 /\ a + 1 + n = a + (n + 1) /\ n \in 1..n
      /\ 1 \in 1..(n + 1) - 1 /\ a \in Nat /\ a + 1 \in 1..4
  <2>1. a \in 1..3 /\ n \in Nat /\ a + (n + 1) <= 4 BY <1>1, <1>3, Zenon DEF Args
  <2>2. \A i \in 1..3 : \A j \in Nat : i + (j + 1) <= 4 /\ j > 0 =>
          /\ i + 1 \in 1..3 /\ j \in 1..3 /\ i + 1 + j <= 4 /\ i + 1 + j = i + (j + 1) /\ j \in 1..j
          /\ 1 \in 1..(j + 1) - 1 /\ i \in Nat /\ i + 1 \in 1..4
    BY SMT
  <2> QED BY <1>a, <2>1, <2>2, Zenon DEF Args
<1>5. \A k \in 1..n : k + 1 \in 1..n + 1 /\ k + 1 # 1 /\ a + (k + 1) - 1 = a + k /\ a + 1 + k - 1 = a + k
                      /\ a + 1 + k = a + (k + 1)
  BY <1>4
<1>6. \A k \in 1..n : Offset(l, a + 1, p, k) = Offset(l, a, o, k + 1)
  <2> SUFFICES ASSUME NEW k \in 1..n PROVE Offset(l, a + 1, p, k) = Offset(l, a, o, k + 1) OBVIOUS
  <2>1. Offset(l, a, o, k + 1) = Start(l, a + k) BY <1>5, Zenon DEF Offset
  <2>2. Offset(l, a + 1, p, k) = Start(l, a + k)
    <3>1. CASE k = 1 BY <3>1 DEF Offset
    <3>2. CASE k # 1 BY <1>5, <3>2, Zenon DEF Offset
    <3> QED BY <3>1, <3>2
  <2> QED BY <2>1, <2>2
<1>7. o + Len(x) = p
  <2>1. Offset(l, a, o, 1) = o BY DEF Offset
  <2> QED BY <1>1, <1>3, <1>4, <2>1, Zenon
<1>8. End(l, t, a + 1, p) = End(l, cs, a, o)
  <2>1. End(l, t, a + 1, p) = Offset(l, a + 1, p, n) + Len(t[n]) BY DEF End, n
  <2> QED BY <1>1, <1>3, <1>4, <1>6, <2>1, Zenon
<1>9. \A k \in 1..n - 1 : Offset(l, a + 1, p, k) + Len(t[k]) = Start(l, a + 1 + k)
  <2> SUFFICES ASSUME NEW k \in 1..n - 1 PROVE Offset(l, a + 1, p, k) + Len(t[k]) = Start(l, a + 1 + k) OBVIOUS
  <2>1. k \in 1..n /\ k + 1 \in 1..(n + 1) - 1 BY <1>4
  <2> QED BY <1>1, <1>3, <1>5, <1>6, <2>1, Zenon
<1>10. \A k \in 1..n : At(l, t[k], Offset(l, a + 1, p, k)) BY <1>1, <1>3, <1>5, <1>6, Zenon
<1>11. p \in Nat /\ p <= p
  <2>1. p \in Nat BY <1>0, <1>4, Starts, Zenon
  <2> HIDE DEF p
  <2> QED BY <2>1
<1> HIDE DEF p
<1>12. Layout(l, t, a + 1, p)
  <2>1. End(l, t, a + 1, p) <= Start(l, a + 1 + n) BY <1>3, <1>4, <1>8, Zenon
  <2>2. Start(l, a + 1) <= p BY <1>11 DEF p
  <2> QED BY <1>4, <1>9, <1>11, <2>1, <2>2, Zenon DEF Layout, n
<1>13. Contents(l, t, a + 1, p) BY <1>10, Zenon DEF Contents, n
<1> QED BY <1>4, <1>7, <1>8, <1>12, <1>13, Zenon DEF p, cs, Rest
-----------------------------------------------------------------------------
(* Room in a fragment *)

\* Elements of a sequence
LEMMA ElementIs == ASSUME NEW S, NEW s \in Seq(S), NEW k \in 1..Len(s) PROVE s[k] \in S
OBVIOUS

\* Lengths of sequences
LEMMA LenNat == ASSUME NEW S, NEW s \in Seq(S) PROVE Len(s) \in Nat
OBVIOUS

\* Length of a concatenation
LEMMA ConcatLen == \A s, t \in Seq(Bytes) : s \o t \in Seq(Bytes) /\ Len(s \o t) = Len(s) + Len(t)
BY SMT

\* The lengths of chunks are numbers.
LEMMA ChunkIs ==
    ASSUME NEW cs \in Seq(Seq(Bytes)), NEW k \in 1..Len(cs) PROVE cs[k] \in Seq(Bytes) /\ Len(cs[k]) \in Nat
<1>1. cs[k] \in Seq(Bytes) BY ElementIs, Zenon
<1> QED BY <1>1, LenNat, Zenon

\* Arithmetic of at most three chunks
LEMMA FewChunks ==
    /\ 1 \in 1..1 /\ 1 \in 1..2 /\ 2 \in 1..2 /\ 1 \in 1..3 /\ 2 \in 1..3 /\ 3 \in 1..3
    /\ \A n \in Nat : n <= 3 => n = 0 \/ n = 1 \/ n = 2 \/ n = 3
    /\ \A x \in Nat : 2 * 1 + x = 2 + x /\ 2 + x \in Nat
    /\ \A x, y \in Nat : 2 * 2 + (x + y) = 4 + x + y /\ 4 + x + y \in Nat
    /\ \A x, y, z \in Nat : 2 * 3 + ((x + y) + z) = 6 + x + y + z /\ 6 + x + y + z \in Nat
BY SMT

\* Header and length of each chunk
LEMMA UsedIs ==
    ASSUME NEW cs \in Seq(Seq(Bytes))
    PROVE  /\ Len(cs) = 0 => Used(cs) = 0
           /\ Len(cs) = 1 => Used(cs) = 2 + Len(cs[1])
           /\ Len(cs) = 2 => Used(cs) = 4 + Len(cs[1]) + Len(cs[2])
           /\ Len(cs) = 3 => Used(cs) = 6 + Len(cs[1]) + Len(cs[2]) + Len(cs[3])
<1>1. ASSUME Len(cs) = 0 PROVE Used(cs) = 0
  <2>1. Joined(cs) = cs BY <1>1, Joined0, Zenon
  <2>2. 2 * 0 + 0 = 0 BY SMT
  <2> QED BY <1>1, <2>1, <2>2, Zenon DEF Used, Header
<1>2. ASSUME Len(cs) = 1 PROVE Used(cs) = 2 + Len(cs[1])
  <2>1. Joined(cs) = cs[1] BY <1>2, Joined1, Zenon
  <2>2. Len(cs[1]) \in Nat BY <1>2, ChunkIs, FewChunks, Zenon
  <2>3. Used(cs) = 2 * 1 + Len(cs[1]) BY <1>2, <2>1, Zenon DEF Used, Header
  <2> QED BY <2>2, <2>3, FewChunks, Zenon
<1>3. ASSUME Len(cs) = 2 PROVE Used(cs) = 4 + Len(cs[1]) + Len(cs[2])
  <2>1. Joined(cs) = cs[1] \o cs[2] BY <1>3, Joined2, Zenon
  <2>2. cs[1] \in Seq(Bytes) /\ cs[2] \in Seq(Bytes) /\ Len(cs[1]) \in Nat /\ Len(cs[2]) \in Nat
    BY <1>3, ChunkIs, FewChunks, Zenon
  <2>3. Len(cs[1] \o cs[2]) = Len(cs[1]) + Len(cs[2]) BY <2>2, ConcatLen, Zenon
  <2>4. Used(cs) = 2 * 2 + (Len(cs[1]) + Len(cs[2])) BY <1>3, <2>1, <2>3, Zenon DEF Used, Header
  <2> QED BY <2>2, <2>4, FewChunks, Zenon
<1>4. ASSUME Len(cs) = 3 PROVE Used(cs) = 6 + Len(cs[1]) + Len(cs[2]) + Len(cs[3])
  <2>1. Joined(cs) = (cs[1] \o cs[2]) \o cs[3] BY <1>4, Joined3, Zenon
  <2>2. /\ cs[1] \in Seq(Bytes) /\ cs[2] \in Seq(Bytes) /\ cs[3] \in Seq(Bytes)
        /\ Len(cs[1]) \in Nat /\ Len(cs[2]) \in Nat /\ Len(cs[3]) \in Nat
    BY <1>4, ChunkIs, FewChunks, Zenon
  <2>3. cs[1] \o cs[2] \in Seq(Bytes) /\ Len(cs[1] \o cs[2]) = Len(cs[1]) + Len(cs[2]) BY <2>2, ConcatLen, Zenon
  <2>4. Len((cs[1] \o cs[2]) \o cs[3]) = Len(cs[1] \o cs[2]) + Len(cs[3]) BY <2>2, <2>3, ConcatLen, Zenon
  <2>5. Used(cs) = 2 * 3 + ((Len(cs[1]) + Len(cs[2])) + Len(cs[3]))
    BY <1>4, <2>1, <2>3, <2>4, Zenon DEF Used, Header
  <2>6. PICK x, y, z \in Nat : x = Len(cs[1]) /\ y = Len(cs[2]) /\ z = Len(cs[3]) BY <2>2, Zenon
  <2>7. 2 * 3 + ((x + y) + z) = 6 + x + y + z BY SMT
  <2> QED BY <2>5, <2>6, <2>7, Zenon
<1> QED BY <1>1, <1>2, <1>3, <1>4, Zenon

\* The bytes a fragment holds are a number.
LEMMA UsedNat == ASSUME NEW cs \in Seq(Seq(Bytes)), Len(cs) <= 3 PROVE Used(cs) \in Nat
<1>1. Len(cs) = 0 \/ Len(cs) = 1 \/ Len(cs) = 2 \/ Len(cs) = 3 BY LenNat, FewChunks, Zenon
<1>2. CASE Len(cs) = 0
  <2>1. 0 \in Nat BY SMT
  <2> QED BY <1>2, <2>1, UsedIs, Zenon
<1>3. CASE Len(cs) = 1
  <2>1. Len(cs[1]) \in Nat BY <1>3, ChunkIs, FewChunks, Zenon
  <2> QED BY <1>3, <2>1, UsedIs, FewChunks, Zenon
<1>4. CASE Len(cs) = 2
  <2>1. Len(cs[1]) \in Nat /\ Len(cs[2]) \in Nat BY <1>4, ChunkIs, FewChunks, Zenon
  <2>2. Used(cs) = 4 + Len(cs[1]) + Len(cs[2]) BY <1>4, UsedIs, Zenon
  <2> DEFINE x == Len(cs[1])
             y == Len(cs[2])
  <2> HIDE DEF x, y
  <2>3. x \in Nat /\ y \in Nat => 4 + x + y \in Nat BY SMT
  <2> QED BY <2>1, <2>2, <2>3, Zenon DEF x, y
<1>5. CASE Len(cs) = 3
  <2>1. Len(cs[1]) \in Nat /\ Len(cs[2]) \in Nat /\ Len(cs[3]) \in Nat BY <1>5, ChunkIs, FewChunks, Zenon
  <2>2. Used(cs) = 6 + Len(cs[1]) + Len(cs[2]) + Len(cs[3]) BY <1>5, UsedIs, Zenon
  <2> DEFINE x == Len(cs[1])
             y == Len(cs[2])
             z == Len(cs[3])
  <2> HIDE DEF x, y, z
  <2>3. x \in Nat /\ y \in Nat /\ z \in Nat => 6 + x + y + z \in Nat BY SMT
  <2> QED BY <2>1, <2>2, <2>3, Zenon DEF x, y, z
<1> QED BY <1>1, <1>2, <1>3, <1>4, <1>5, Zenon

\* A new fragment's bytes: one chunk header
LEMMA UsedNew == Used(<<<<>>>>) = 2 /\ <<<<>>>> \in Seq(Seq(Bytes)) /\ Len(<<<<>>>>) = 1
<1> DEFINE cs == <<<<>>>>
<1>1. cs \in Seq(Seq(Bytes)) /\ Len(cs) = 1 /\ Len(cs[1]) = 0 OBVIOUS
<1> HIDE DEF cs
<1>2. Used(cs) = 2 + 0 BY <1>1, UsedIs, Zenon
<1>3. Used(cs) = 2 BY <1>2
<1> QED BY <1>1, <1>3 DEF cs

\* A chunk more is a header more.
LEMMA UsedAppend ==
    ASSUME NEW cs \in Seq(Seq(Bytes)), Len(cs) <= 2
    PROVE  /\ Used(Append(cs, <<>>)) = Used(cs) + 2
           /\ Append(cs, <<>>) \in Seq(Seq(Bytes)) /\ Len(Append(cs, <<>>)) = Len(cs) + 1
<1> DEFINE ds == Append(cs, <<>>)
           x == Len(cs[1])
           y == Len(cs[2])
<1>1. ds \in Seq(Seq(Bytes)) /\ Len(ds) = Len(cs) + 1 /\ Len(ds[Len(cs) + 1]) = 0 /\ \A k \in 1..Len(cs) : ds[k] = cs[k]
  OBVIOUS
<1>2. Len(cs) = 0 \/ Len(cs) = 1 \/ Len(cs) = 2
  <2>1. \A n \in Nat : n <= 2 => n = 0 \/ n = 1 \/ n = 2 BY SMT
  <2> QED BY <2>1, LenNat, Zenon
<1>3. 0 + 1 = 1 /\ 1 + 1 = 2 /\ 2 + 1 = 3 /\ 2 + 0 = 0 + 2 BY SMT
<1>4. \A i, j \in Nat : 4 + i + 0 = 2 + i + 2 /\ 6 + i + j + 0 = 4 + i + j + 2 BY SMT
<1> HIDE DEF ds
<1>5. CASE Len(cs) = 0
  <2>a. Len(cs) + 1 = 1 BY <1>3, <1>5, Zenon
  <2>1. Len(ds) = 1 /\ Len(ds[1]) = 0 BY <1>1, <2>a, Zenon
  <2> QED BY <1>1, <1>3, <1>5, <2>1, UsedIs, Zenon DEF ds
<1>6. CASE Len(cs) = 1
  <2>a. Len(cs) + 1 = 2 BY <1>3, <1>6, Zenon
  <2>1. Len(ds) = 2 /\ Len(ds[2]) = 0 /\ Len(ds[1]) = x /\ x \in Nat
    BY <1>1, <1>6, <2>a, ChunkIs, FewChunks, Zenon
  <2>2. Used(ds) = 4 + x + 0 BY <1>1, <2>1, UsedIs, Zenon
  <2>3. Used(cs) = 2 + x BY <1>6, UsedIs, Zenon
  <2> HIDE DEF x
  <2> QED BY <1>1, <1>4, <2>1, <2>2, <2>3, Zenon DEF ds
<1>7. CASE Len(cs) = 2
  <2>a. Len(cs) + 1 = 3 BY <1>3, <1>7, Zenon
  <2>1. Len(ds) = 3 /\ Len(ds[3]) = 0 BY <1>1, <2>a, Zenon
  <2>2. Len(ds[1]) = x /\ x \in Nat /\ Len(ds[2]) = y /\ y \in Nat
    BY <1>1, <1>7, ChunkIs, FewChunks, Zenon
  <2>3. Used(ds) = 6 + x + y + 0 BY <1>1, <2>1, <2>2, UsedIs, Zenon
  <2>4. Used(cs) = 4 + x + y BY <1>7, UsedIs, Zenon
  <2> HIDE DEF x, y
  <2> QED BY <1>1, <1>4, <2>2, <2>3, <2>4, Zenon DEF ds
<1> QED BY <1>2, <1>5, <1>6, <1>7, Zenon

\* Bytes written to the last chunk
LEMMA UsedGrow ==
    ASSUME NEW cs \in Seq(Seq(Bytes)), Len(cs) \in 1..3, NEW b \in Seq(Bytes)
    PROVE  LET ds == [cs EXCEPT ![Len(cs)] = @ \o b] IN
           Used(ds) = Used(cs) + Len(b) /\ ds \in Seq(Seq(Bytes)) /\ Len(ds) = Len(cs)
<1> DEFINE n == Len(cs)
           last == cs[n] \o b
           ds == [cs EXCEPT ![Len(cs)] = @ \o b]
           x == Len(cs[1])
           y == Len(cs[2])
           z == Len(cs[3])
<1>1. n \in 1..n
  <2>1. \A k \in 1..3 : k \in 1..k BY SMT
  <2> QED BY <2>1, Zenon
<1>2. last \in Seq(Bytes) /\ Len(last) = Len(cs[n]) + Len(b) BY <1>1, ChunkIs, ConcatLen, Zenon
<1>3. ds \in Seq(Seq(Bytes)) /\ Len(ds) = n /\ ds[n] = last /\ \A k \in 1..n : k # n => ds[k] = cs[k] BY <1>1, <1>2
<1>4. n = 1 \/ n = 2 \/ n = 3 OBVIOUS
<1>6. Len(b) \in Nat BY LenNat, Zenon
<1>a. 1 # 2 /\ 1 # 3 /\ 2 # 3 BY SMT
<1> HIDE DEF ds, last
<1>7. CASE n = 1
  <2>1. Len(ds) = 1 /\ Len(ds[1]) = x + Len(b) BY <1>2, <1>3, <1>7, Zenon
  <2>2. x \in Nat BY <1>1, <1>7, ChunkIs, Zenon
  <2>3. Used(ds) = 2 + (x + Len(b)) BY <1>3, <2>1, UsedIs, Zenon
  <2>4. Used(cs) = 2 + x BY <1>7, UsedIs, Zenon
  <2> DEFINE m == Len(b)
  <2> HIDE DEF x, m
  <2>5. x \in Nat /\ m \in Nat => 2 + (x + m) = 2 + x + m BY SMT
  <2> QED BY <1>3, <1>6, <2>2, <2>3, <2>4, <2>5, Zenon DEF ds, m
<1>8. CASE n = 2
  <2>1. Len(ds) = 2 /\ Len(ds[2]) = y + Len(b) BY <1>2, <1>3, <1>8, Zenon
  <2>2. Len(ds[1]) = x BY <1>3, <1>8, <1>a, FewChunks, Zenon
  <2>3. x \in Nat /\ y \in Nat BY <1>8, ChunkIs, FewChunks, Zenon
  <2>4. Used(ds) = 4 + x + (y + Len(b)) BY <1>3, <2>1, <2>2, UsedIs, Zenon
  <2>5. Used(cs) = 4 + x + y BY <1>8, UsedIs, Zenon
  <2> DEFINE m == Len(b)
  <2> HIDE DEF x, y, m
  <2>6. x \in Nat /\ y \in Nat /\ m \in Nat => 4 + x + (y + m) = 4 + x + y + m BY SMT
  <2> QED BY <1>3, <1>6, <2>3, <2>4, <2>5, <2>6, Zenon DEF ds, m
<1>9. CASE n = 3
  <2>1. Len(ds) = 3 /\ Len(ds[3]) = z + Len(b) BY <1>2, <1>3, <1>9, Zenon
  <2>2. Len(ds[1]) = x /\ Len(ds[2]) = y BY <1>3, <1>9, <1>a, FewChunks, Zenon
  <2>3. x \in Nat /\ y \in Nat /\ z \in Nat BY <1>9, ChunkIs, FewChunks, Zenon
  <2>4. Used(ds) = 6 + x + y + (z + Len(b)) BY <1>3, <2>1, <2>2, UsedIs, Zenon
  <2>5. Used(cs) = 6 + x + y + z BY <1>9, UsedIs, Zenon
  <2> DEFINE m == Len(b)
  <2> HIDE DEF x, y, z, m
  <2>6. x \in Nat /\ y \in Nat /\ z \in Nat /\ m \in Nat => 6 + x + y + (z + m) = 6 + x + y + z + m BY SMT
  <2> QED BY <1>3, <1>6, <2>3, <2>4, <2>5, <2>6, Zenon DEF ds, m
<1> QED BY <1>4, <1>7, <1>8, <1>9, Zenon
-----------------------------------------------------------------------------
(* Frames *)

\* Arithmetic of places in a sequence
LEMMA Counting ==
    /\ \A n \in Nat : n + 1 \in 1..n + 1 /\ 1 \in 1..n + 1 /\ n + 1 \in Nat
    /\ \A n \in Nat : \A i \in 1..n : i \in 1..n + 1 /\ i + 1 \in 1..n + 1 /\ i # n + 1
    /\ \A n \in Nat : \A i \in 1..n + 1 : (i # n + 1 => i \in 1..n) /\ (i # 1 => i - 1 \in 1..n)
    /\ \A n \in Nat : n + 1 + 1 # 1 /\ (n + 1 + 1) - 1 = n + 1
BY SMT

\* Arithmetic of places in a sequence that lost its first element
LEMMA Shifting ==
    /\ 1 + 1 = 2 /\ (1 + 1) - 1 = 1
    /\ \A n \in Nat : \A i \in 1..n + 1 : i + 1 # 1 /\ (i + 1) - 1 = i /\ (i # 1 => i - 1 \in 1..n /\ (i - 1) + 1 = i)
BY SMT

\* A fragment sent
LEMMA AppendIs ==
    ASSUME NEW s \in Seq(Fragment), NEW e \in Fragment
    PROVE  /\ Append(s, e) \in Seq(Fragment) /\ Len(Append(s, e)) = Len(s) + 1 /\ Append(s, e)[Len(s) + 1] = e
           /\ \A i \in 1..Len(s) : Append(s, e)[i] = s[i]
OBVIOUS

\* A fragment received
LEMMA TailIs ==
    ASSUME NEW s \in Seq(Fragment), s # <<>>
    PROVE  /\ Tail(s) \in Seq(Fragment) /\ Len(Tail(s)) + 1 = Len(s) /\ Head(s) = s[1] /\ s[1] \in Fragment
           /\ \A i \in 1..Len(Tail(s)) : Tail(s)[i] = s[i + 1]
OBVIOUS

\* Steps that leave the reader as it was
LEMMA ReaderSame ==
    ASSUME FragInv, lens' = lens, r' = r, rsum' = rsum, out' = out
    PROVE  ControlOK' /\ OutOK' /\ FetchedOK' /\ NextArg' = NextArg
<1>1. ControlOK' BY Zenon DEF FragInv, ControlOK, isReadingArgument
<1>2. OutOK' BY Zenon DEF FragInv, OutOK, isReadingArgument
<1>3. FetchedOK' BY Zenon DEF FragInv, FetchedOK, Fetched, FetchedAt, ReadArg, NextArg
<1>4. NextArg' = NextArg BY Zenon DEF NextArg, ReadArg
<1> QED BY <1>1, <1>2, <1>3, <1>4

\* Steps that leave the writer as it was
LEMMA WriterSame ==
    ASSUME FragInv, lens' = lens, w' = w, sum' = sum, "w" \in failed => "w" \in failed'
    PROVE  /\ WriterOK' /\ SumOK' /\ (Live' => Live)
           /\ \A a, n : Writing(a, n) => Writing(a, n)'
<1>1. WriterOK' BY Zenon DEF FragInv, WriterOK, isWritingArgument, BytesRemaining
<1>2. Live' => Live BY Zenon DEF Live
<1>3. SumOK' BY <1>2, Zenon DEF FragInv, SumOK, isWritingArgument
<1>4. \A a, n : Writing(a, n) => Writing(a, n)' BY Zenon DEF Writing
<1> QED BY <1>1, <1>2, <1>3, <1>4

\* Steps that leave the stream as it was
LEMMA FragSame ==
    ASSUME lens' = lens, "w" \in failed => "w" \in failed', damaged => damaged'
    PROVE  \A f, a, n, x : FragOK(f, a, n, x) => FragOK(f, a, n, x)'
<1> SUFFICES ASSUME NEW f, NEW a, NEW n, NEW x, FragOK(f, a, n, x) PROVE FragOK(f, a, n, x)' BY Zenon
<1>1. CASE f.error /\ "w" \in failed BY <1>1, Zenon DEF FragOK
<1>2. CASE ~(f.error /\ "w" \in failed)
  <2>1. /\ ~f.error
        /\ Layout(lens, f.chunks, a, n) /\ End(lens, f.chunks, a, n) = Len(f.sum)
        /\ At(lens, f.sum, 0)
        /\ damaged \/ Contents(lens, f.chunks, a, n)
        /\ x = a + Len(f.chunks) - 1
        /\ ~f.more => x = 3 /\ Len(f.sum) = Start(lens, 4)
    BY <1>2, Zenon DEF FragOK
  <2> QED BY <2>1, Zenon DEF FragOK
<1> QED BY <1>1, <1>2

\* The number of bytes before a fragment
LEMMA BeforeNat == ASSUME FragTypeOK, NEW i \in 1..Len(net) + 1 PROVE Before(i) \in Nat
<1>1. rsum \in Seq(Bytes) /\ net \in Seq(Fragment) BY Zenon DEF FragTypeOK
<1>2. CASE i = 1 BY <1>1, <1>2, LenNat, Zenon DEF Before
<1>3. CASE i # 1
  <2>1. i - 1 \in 1..Len(net)
    <3>1. Len(net) \in Nat BY <1>1, LenNat, Zenon
    <3> QED BY <1>3, <3>1
  <2>2. net[i - 1] \in Fragment BY <1>1, <2>1, ElementIs, Zenon
  <2>3. net[i - 1].sum \in Seq(Bytes) BY <2>2 DEF Fragment
  <2> QED BY <1>3, <2>3, LenNat, Zenon DEF Before
<1> QED BY <1>2, <1>3

\* Where a fragment of net begins
LEMMA BeforeIs ==
    /\ \A i, j : i # 1 /\ j = i - 1 => Before(i) = Len(net[j].sum) /\ Before(i)' = Len(net'[j].sum)
    /\ Before(1) = Len(rsum) /\ Before(1)' = Len(rsum')
BY Zenon DEF Before

\* The writer changes and sends nothing.
LEMMA ChainWrites ==
    ASSUME FragInv, lens' = lens, r' = r, rsum' = rsum, out' = out, net' = net, damaged' = damaged,
           "w" \in failed => "w" \in failed', Live' => Live,
           \A a \in Args : \A n \in Nat : Live' /\ Writing(a, n) => Writing(a, n)'
    PROVE  ChainOK'
<1> SUFFICES ASSUME (r.err = "" /\ r.state # "complete")' PROVE (\E A \in [1..Len(net) + 1 -> Args] : Chain(A))'
  BY Zenon DEF ChainOK
<1>1. PICK A \in [1..Len(net) + 1 -> Args] : Chain(A) BY Zenon DEF FragInv, ChainOK
<1>2. NextArg' = NextArg BY ReaderSame, Zenon
<1>3. \A i : Before(i)' = Before(i) BY Zenon DEF Before
<1>4. \A f, a, n, x : FragOK(f, a, n, x) => FragOK(f, a, n, x)' BY FragSame, Zenon
<1>5. (\A i \in 1..Len(net) : FragOK(net[i], A[i], Before(i), A[i + 1]))'
  BY <1>1, <1>3, <1>4, Zenon DEF Chain
<1>6. Live' => Writing(A[Len(net) + 1], Before(Len(net) + 1))'
  <2>1. Len(net) + 1 \in 1..Len(net) + 1
    <3>1. Len(net) \in Nat BY LenNat, Zenon DEF FragInv, FragTypeOK
    <3> QED BY <3>1, Counting, Zenon
  <2>2. A[Len(net) + 1] \in Args BY <2>1, Zenon
  <2>3. Before(Len(net) + 1) \in Nat BY <2>1, BeforeNat, Zenon DEF FragInv
  <2> QED BY <1>1, <1>3, <2>2, <2>3, Zenon DEF Chain
<1>7. Chain(A)' BY <1>1, <1>2, <1>5, <1>6, <1>3, Zenon DEF Chain
<1> QED BY <1>7, Zenon

\* The writer sends fragment f.
LEMMA ChainSends ==
    ASSUME FragInv, lens' = lens, r' = r, rsum' = rsum, out' = out, damaged' = damaged,
           "w" \in failed => "w" \in failed', NEW f \in Fragment, net' = Append(net, f),
           \A a \in Args : \A n \in Nat : (Live => Writing(a, n)) =>
               \E x \in Args : FragOK(f, a, n, x)' /\ (Live' => Writing(x, Len(f.sum))')
    PROVE  ChainOK'
<1> SUFFICES ASSUME (r.err = "" /\ r.state # "complete")' PROVE (\E A \in [1..Len(net) + 1 -> Args] : Chain(A))'
  BY Zenon DEF ChainOK
<1>1. PICK A \in [1..Len(net) + 1 -> Args] : Chain(A) BY Zenon DEF FragInv, ChainOK
<1>2. NextArg' = NextArg BY ReaderSame, Zenon
<1>3. Len(net) \in Nat /\ net \in Seq(Fragment) BY LenNat, Zenon DEF FragInv, FragTypeOK
<1>4. PICK N \in Nat : N = Len(net) BY <1>3, Zenon
<1>5. net' \in Seq(Fragment) /\ Len(net') = N + 1 /\ net'[N + 1] = f /\ \A i \in 1..N : net'[i] = net[i]
  <2>1. /\ Append(net, f) \in Seq(Fragment) /\ Len(Append(net, f)) = Len(net) + 1 /\ Append(net, f)[Len(net) + 1] = f
        /\ \A i \in 1..Len(net) : Append(net, f)[i] = net[i]
    BY <1>3, AppendIs, Zenon
  <2> QED BY <1>4, <2>1, Zenon
<1>6. A[N + 1] \in Args /\ Before(N + 1) \in Nat BY <1>3, <1>4, Counting, BeforeNat, Zenon DEF FragInv
<1>7. PICK n \in Nat : n = Before(N + 1) BY <1>6, Zenon
<1>8. Live => Writing(A[N + 1], n) BY <1>1, <1>4, <1>7, Zenon DEF Chain
<1>9. PICK x \in Args : FragOK(f, A[N + 1], n, x)' /\ (Live' => Writing(x, Len(f.sum))')
  BY <1>6, <1>8, Zenon
<1> DEFINE B == [i \in 1..N + 1 + 1 |-> IF i = N + 1 + 1 THEN x ELSE A[i]]
<1>10. B \in [1..N + 1 + 1 -> Args] /\ B[N + 1 + 1] = x /\ \A i \in 1..N + 1 : B[i] = A[i]
  <2>1. \A i \in 1..N + 1 + 1 : i # N + 1 + 1 => i \in 1..N + 1 BY Counting, Zenon
  <2>2. \A i \in 1..N + 1 : i \in 1..N + 1 + 1 /\ i # N + 1 + 1 BY Counting, Zenon
  <2>3. N + 1 + 1 \in 1..N + 1 + 1 BY Counting, Zenon
  <2> QED BY <1>4, <2>1, <2>2, <2>3, Zenon
<1> HIDE DEF B
<1>11. /\ \A i \in 1..N + 1 : Before(i)' = Before(i)
       /\ Before(N + 1 + 1)' = Len(f.sum)
  <2>1. \A i \in 1..N + 1 : i # 1 => i - 1 \in 1..N BY Counting, Zenon
  <2>2. N + 1 + 1 # 1 /\ (N + 1 + 1) - 1 = N + 1 BY Counting, Zenon
  <2>3. \A i \in 1..N + 1 : Before(i)' = Before(i) BY <1>5, <2>1, Zenon DEF Before
  <2>a. PICK m, k : m = N + 1 + 1 /\ k = N + 1 BY Zenon
  <2>b. m # 1 /\ k = m - 1 BY <2>2, <2>a, Zenon
  <2>c. Before(m)' = Len(net'[k].sum) BY <2>b, BeforeIs, Zenon
  <2>4. Before(N + 1 + 1)' = Len(net'[N + 1].sum) BY <2>a, <2>c, Zenon
  <2>5. net'[N + 1] = f BY <1>5, Zenon
  <2> QED BY <2>3, <2>4, <2>5, Zenon
<1>12. \A g, a, b, y : FragOK(g, a, b, y) => FragOK(g, a, b, y)' BY FragSame, Zenon
<1>13. (\A i \in 1..Len(net) : FragOK(net[i], B[i], Before(i), B[i + 1]))'
  <2> SUFFICES ASSUME NEW i \in 1..N + 1 PROVE FragOK(net[i], B[i], Before(i), B[i + 1])' BY <1>5, Zenon
  <2>1. CASE i = N + 1 BY <1>5, <1>7, <1>9, <1>10, <1>11, <2>1, Zenon
  <2>2. CASE i # N + 1
    <3>1. i \in 1..N /\ i + 1 \in 1..N + 1 BY <2>2, Counting, Zenon
    <3>2. FragOK(net[i], A[i], Before(i), A[i + 1]) BY <1>1, <1>4, <3>1, Zenon DEF Chain
    <3>3. PICK g, b : g = net[i] /\ b = Before(i) BY Zenon
    <3>4. FragOK(g, A[i], b, A[i + 1])' BY <1>12, <3>2, <3>3, Zenon
    <3> QED BY <1>5, <1>10, <1>11, <3>1, <3>3, <3>4, Zenon
  <2> QED BY <2>1, <2>2, Zenon
<1>14. (Live => Writing(B[Len(net) + 1], Before(Len(net) + 1)))' BY <1>5, <1>9, <1>10, <1>11, Zenon
<1>15. B[1] = A[1] BY <1>4, <1>10, Counting, Zenon
<1>16. Chain(B)' BY <1>1, <1>2, <1>13, <1>14, <1>15, Zenon DEF Chain
<1> QED BY <1>5, <1>10, <1>16, Zenon

\* The reader has taken the first fragment from net, and its checksum was right.
LEMMA ChainReceives ==
    ASSUME FragInv, lens' = lens, w' = w, sum' = sum, failed' = failed, damaged' = damaged,
           net # <<>>, net' = Tail(net), rsum' = net[1].sum,
           NEW A \in [1..Len(net) + 1 -> Args], Chain(A), NextArg' = A[2]
    PROVE  ChainOK'
<1> SUFFICES (\E B \in [1..Len(net) + 1 -> Args] : Chain(B))' BY Zenon DEF ChainOK
<1>1. net \in Seq(Fragment) BY Zenon DEF FragInv, FragTypeOK
<1>2. /\ net' \in Seq(Fragment) /\ Len(net') + 1 = Len(net) /\ Len(net') \in Nat
      /\ \A i \in 1..Len(net') : net'[i] = net[i + 1]
  <2>1. /\ Tail(net) \in Seq(Fragment) /\ Len(Tail(net)) + 1 = Len(net)
        /\ \A i \in 1..Len(Tail(net)) : Tail(net)[i] = net[i + 1]
    BY <1>1, TailIs, Zenon
  <2>2. Len(Tail(net)) \in Nat BY <2>1, LenNat, Zenon
  <2> QED BY <2>1, <2>2, Zenon
<1>3. PICK N \in Nat : N = Len(net') BY <1>2, Zenon
<1>4. Len(net) = N + 1 BY <1>2, <1>3, Zenon
<1> DEFINE B == [i \in 1..N + 1 |-> A[i + 1]]
<1>5. B \in [1..N + 1 -> Args] /\ \A i \in 1..N + 1 : B[i] = A[i + 1]
  <2>1. \A i \in 1..N + 1 : i + 1 \in 1..N + 1 + 1 BY Counting, Zenon
  <2> QED BY <1>4, <2>1, Zenon
<1> HIDE DEF B
<1>6. \A i \in 1..N + 1 : Before(i)' = Before(i + 1)
  <2> SUFFICES ASSUME NEW i \in 1..N + 1 PROVE Before(i)' = Before(i + 1) BY Zenon
  <2>1. i + 1 # 1 /\ (i + 1) - 1 = i /\ (1 + 1) - 1 = 1 /\ (i # 1 => i - 1 \in 1..N /\ (i - 1) + 1 = i) BY Shifting, Zenon
  <2>2. Before(i + 1) = Len(net[i].sum)
    <3>1. PICK m : m = i + 1 BY Zenon
    <3>2. m # 1 /\ i = m - 1 BY <2>1, <3>1, Zenon
    <3>3. Before(m) = Len(net[i].sum) BY <3>2, BeforeIs, Zenon
    <3> QED BY <3>1, <3>3, Zenon
  <2>3. CASE i = 1 BY <2>2, <2>3, BeforeIs, Zenon
  <2>4. CASE i # 1
    <3>1. Before(i)' = Len(net'[i - 1].sum) BY <2>4, BeforeIs, Zenon
    <3>2. net'[i - 1] = net[(i - 1) + 1] BY <1>2, <1>3, <2>1, <2>4, Zenon
    <3> QED BY <2>1, <2>2, <2>4, <3>1, <3>2, Zenon
  <2> QED BY <2>3, <2>4, Zenon
<1>7. \A g, a, b, y : FragOK(g, a, b, y) => FragOK(g, a, b, y)' BY FragSame, Zenon
<1>8. (\A i \in 1..Len(net) : FragOK(net[i], B[i], Before(i), B[i + 1]))'
  <2> SUFFICES ASSUME NEW i \in 1..N PROVE FragOK(net[i], B[i], Before(i), B[i + 1])' BY <1>3, Zenon
  <2>1. i + 1 \in 1..N + 1 /\ i \in 1..N + 1 BY Counting, Zenon
  <2>2. FragOK(net[i + 1], A[i + 1], Before(i + 1), A[i + 1 + 1]) BY <1>4, <2>1, Zenon DEF Chain
  <2>3. PICK g, b : g = net[i + 1] /\ b = Before(i + 1) BY Zenon
  <2>4. FragOK(g, A[i + 1], b, A[i + 1 + 1])' BY <1>7, <2>2, <2>3, Zenon
  <2>5. g = net'[i] /\ b = Before(i)' /\ B[i] = A[i + 1] /\ B[i + 1] = A[i + 1 + 1]
    BY <1>2, <1>3, <1>5, <1>6, <2>1, <2>3, Zenon
  <2> QED BY <2>4, <2>5, Zenon
<1>9. (Live => Writing(B[Len(net) + 1], Before(Len(net) + 1)))'
  <2>1. (Live' => Live) /\ \A a, n : Writing(a, n) => Writing(a, n)' BY WriterSame, Zenon
  <2>2. Live => Writing(A[N + 1 + 1], Before(N + 1 + 1)) BY <1>4, Zenon DEF Chain
  <2>3. PICK b : b = Before(N + 1 + 1) BY Zenon
  <2>4. N + 1 \in 1..N + 1 BY Counting, Zenon
  <2>5. b = Before(N + 1)' /\ B[N + 1] = A[N + 1 + 1] BY <1>5, <1>6, <2>3, <2>4, Zenon
  <2>6. Live' => Writing(A[N + 1 + 1], b)' BY <2>1, <2>2, <2>3, Zenon
  <2> QED BY <1>3, <2>5, <2>6, Zenon
<1>10. B[1] = NextArg'
  <2>1. 1 \in 1..N + 1 /\ 1 + 1 = 2 BY Counting, Shifting, Zenon
  <2> QED BY <1>5, <2>1, Zenon
<1>11. Chain(B)' BY <1>8, <1>9, <1>10, Zenon DEF Chain
<1> QED BY <1>3, <1>5, <1>11, Zenon

\* The reader changes and takes nothing from net.
LEMMA ChainReads ==
    ASSUME FragInv, lens' = lens, w' = w, sum' = sum, failed' = failed, damaged' = damaged, net' = net,
           rsum' = rsum, r'.err = "" /\ r'.state # "complete" => r.err = "" /\ r.state # "complete" /\ NextArg' = NextArg
    PROVE  ChainOK'
<1> SUFFICES ASSUME (r.err = "" /\ r.state # "complete")' PROVE (\E A \in [1..Len(net) + 1 -> Args] : Chain(A))'
  BY Zenon DEF ChainOK
<1>1. PICK A \in [1..Len(net) + 1 -> Args] : Chain(A) BY Zenon DEF FragInv, ChainOK
<1>2. NextArg' = NextArg BY Zenon
<1>3. \A i : Before(i)' = Before(i) BY Zenon DEF Before
<1>4. \A f, a, n, x : FragOK(f, a, n, x) => FragOK(f, a, n, x)' BY FragSame, Zenon
<1>5. (\A i \in 1..Len(net) : FragOK(net[i], A[i], Before(i), A[i + 1]))' BY <1>1, <1>3, <1>4, Zenon DEF Chain
<1>6. (Live => Writing(A[Len(net) + 1], Before(Len(net) + 1)))'
  <2>1. (Live' => Live) /\ \A a, n : Writing(a, n) => Writing(a, n)' BY WriterSame, Zenon
  <2> QED BY <1>1, <1>3, <2>1, Zenon DEF Chain
<1>7. Chain(A)' BY <1>1, <1>2, <1>5, <1>6, Zenon DEF Chain
<1> QED BY <1>7, Zenon

\* Steps of the network
LEMMA TypesSame ==
    ASSUME FragTypeOK, lens' = lens, w' = w, sum' = sum, r' = r, rsum' = rsum, out' = out,
           net' \in Seq(Fragment), damaged' \in BOOLEAN
    PROVE  FragTypeOK'
BY Zenon DEF FragTypeOK

\* A fragment in the place of another
LEMMA ReplaceIs ==
    ASSUME NEW s \in Seq(Fragment), NEW i \in 1..Len(s), NEW e \in Fragment
    PROVE  LET t == [s EXCEPT ![i] = e] IN
           t \in Seq(Fragment) /\ Len(t) = Len(s) /\ t[i] = e /\ \A k \in 1..Len(s) : k # i => t[k] = s[k]
OBVIOUS

\* Two sequences of chunks of the same lengths
SameLens(cs, ds) == Len(ds) = Len(cs) /\ \A k \in 1..Len(cs) : Len(ds[k]) = Len(cs[k])

\* Chunks of the same lengths are cut in the same places.
LEMMA LayoutLens ==
    ASSUME NEW l, NEW cs, NEW ds, NEW a, NEW o, SameLens(cs, ds), Layout(l, cs, a, o)
    PROVE  Layout(l, ds, a, o) /\ End(l, ds, a, o) = End(l, cs, a, o)
<1>0. Len(ds) = Len(cs) /\ \A k \in 1..Len(cs) : Len(ds[k]) = Len(cs[k]) BY Zenon DEF SameLens
<1>1. Len(cs) \in 1..3 BY Zenon DEF Layout
<1>2. Len(cs) \in 1..Len(cs) /\ \A k \in 1..Len(cs) - 1 : k \in 1..Len(cs) BY <1>1, SMT
<1>3. End(l, ds, a, o) = End(l, cs, a, o)
  <2>1. PICK n : n = Len(cs) BY Zenon
  <2>2. Len(ds[n]) = Len(cs[n]) BY <1>0, <1>2, <2>1, Zenon
  <2> QED BY <1>0, <2>1, <2>2, Zenon DEF End
<1>4. \A k \in 1..Len(cs) - 1 : Offset(l, a, o, k) + Len(ds[k]) = Start(l, a + k) BY <1>0, <1>2, Zenon DEF Layout
<1> QED BY <1>0, <1>3, <1>4, Zenon DEF Layout

\* Damaging a byte leaves everything but that byte.
LEMMA DamagedIs ==
    ASSUME NEW f \in Fragment, NEW c \in DOMAIN f.chunks, f.chunks[c] # <<>>
    PROVE  LET g == [f EXCEPT !.chunks[c][1] = <<0, 0>>] IN
           /\ g \in Fragment /\ g.error = f.error /\ g.more = f.more /\ g.sum = f.sum
           /\ Len(g.chunks) = Len(f.chunks) /\ \A k \in 1..Len(f.chunks) : Len(g.chunks[k]) = Len(f.chunks[k])
<1> DEFINE cs == f.chunks
           x == cs[c]
           y == [x EXCEPT ![1] = <<0, 0>>]
           ds == [cs EXCEPT ![c] = y]
<1>1. cs \in Seq(Seq(Bytes)) BY Zenon DEF Fragment
<1>2. x \in Seq(Bytes) BY <1>1
<1>3. <<0, 0>> \in Bytes BY DEF Bytes
<1>4. y \in Seq(Bytes) /\ Len(y) = Len(x) BY <1>2, <1>3
<1>5. ds \in Seq(Seq(Bytes)) /\ Len(ds) = Len(cs) /\ \A k \in 1..Len(cs) : Len(ds[k]) = Len(cs[k])
  <2> HIDE DEF y
  <2> QED BY <1>1, <1>4
<1> HIDE DEF ds
<1>6. [f EXCEPT !.chunks = ds] \in Fragment BY <1>5, Zenon DEF Fragment
<1>7. [f EXCEPT !.chunks[c][1] = <<0, 0>>] = [f EXCEPT !.chunks = ds] BY Zenon DEF ds
<1>8. LET g == [f EXCEPT !.chunks = ds] IN g.error = f.error /\ g.more = f.more /\ g.sum = f.sum /\ g.chunks = ds
  BY DEF Fragment
<1> QED BY <1>5, <1>6, <1>7, <1>8, Zenon

\* A damaged fragment is still cut where it was.
LEMMA FragDamaged ==
    ASSUME NEW f, NEW g, NEW a, NEW n, NEW x, FragOK(f, a, n, x), SameLens(f.chunks, g.chunks),
           g.error = f.error, g.more = f.more, g.sum = f.sum, lens' = lens, failed' = failed, damaged' = TRUE
    PROVE  FragOK(g, a, n, x)'
<1>1. PICK cs, ds : cs = f.chunks /\ ds = g.chunks BY Zenon
<1>2. Len(ds) = Len(cs) BY <1>1, Zenon DEF SameLens
<1>3. CASE f.error BY <1>3, Zenon DEF FragOK
<1>4. CASE ~f.error
  <2>1. Layout(lens, cs, a, n) /\ SameLens(cs, ds) BY <1>1, <1>4, Zenon DEF FragOK
  <2>2. Layout(lens, ds, a, n) /\ End(lens, ds, a, n) = End(lens, cs, a, n) BY <2>1, LayoutLens
  <2> QED BY <1>1, <1>2, <1>4, <2>2, Zenon DEF FragOK
<1> QED BY <1>3, <1>4, Zenon

\* A byte of a fragment on the way is damaged.
LEMMA DamageKeeps == ASSUME FragInv, Damage PROVE FragInv'
<1>0. /\ lens' = lens /\ w' = w /\ sum' = sum /\ r' = r /\ rsum' = rsum /\ out' = out /\ failed' = failed
      /\ damaged' = TRUE
  BY Zenon DEF Damage, wVars, rVars
<1>a. PICK j \in DOMAIN net : \E c \in DOMAIN net[j].chunks :
         net[j].chunks[c] # <<>> /\ net' = [net EXCEPT ![j].chunks[c][1] = <<0, 0>>]
  BY Zenon DEF Damage
<1>1. PICK c \in DOMAIN net[j].chunks : net[j].chunks[c] # <<>> /\ net' = [net EXCEPT ![j].chunks[c][1] = <<0, 0>>]
  BY <1>a, Zenon
<1>2. net \in Seq(Fragment) /\ Len(net) \in Nat /\ j \in 1..Len(net)
  <2>1. net \in Seq(Fragment) BY Zenon DEF FragInv, FragTypeOK
  <2> QED BY <2>1
<1>3. net[j] \in Fragment BY <1>2, ElementIs, Zenon
<1>4. PICK g \in Fragment :
        /\ g.error = net[j].error /\ g.more = net[j].more /\ g.sum = net[j].sum
        /\ Len(g.chunks) = Len(net[j].chunks)
        /\ \A k \in 1..Len(net[j].chunks) : Len(g.chunks[k]) = Len(net[j].chunks[k])
        /\ net' = [net EXCEPT ![j] = g]
  <2> DEFINE g == [net[j] EXCEPT !.chunks[c][1] = <<0, 0>>]
  <2>1. /\ g \in Fragment /\ g.error = net[j].error /\ g.more = net[j].more /\ g.sum = net[j].sum
        /\ Len(g.chunks) = Len(net[j].chunks)
        /\ \A k \in 1..Len(net[j].chunks) : Len(g.chunks[k]) = Len(net[j].chunks[k])
    BY <1>1, <1>3, DamagedIs, Zenon
  <2>2. net' = [net EXCEPT ![j] = g] BY <1>1, Zenon
  <2> HIDE DEF g
  <2> QED BY <2>1, <2>2, Zenon
<1>6. net' \in Seq(Fragment) /\ Len(net') = Len(net) /\ net'[j] = g /\ \A i \in 1..Len(net) : i # j => net'[i] = net[i]
  <2>1. LET t == [net EXCEPT ![j] = g] IN
        t \in Seq(Fragment) /\ Len(t) = Len(net) /\ t[j] = g /\ \A k \in 1..Len(net) : k # j => t[k] = net[k]
    BY <1>2, ReplaceIs
  <2>2. net' = [net EXCEPT ![j] = g] BY <1>4, Zenon
  <2> QED BY <2>1, <2>2, Zenon
<1>7. FragTypeOK'
  <2>1. net' \in Seq(Fragment) /\ damaged' \in BOOLEAN BY <1>0, <1>6, Zenon
  <2> QED BY <1>0, <2>1, TypesSame, Zenon DEF FragInv
<1>8. WriterOK' /\ SumOK' /\ ControlOK' /\ OutOK' /\ FetchedOK' BY <1>0, WriterSame, ReaderSame, Zenon
<1>9. ChainOK'
  <2> SUFFICES ASSUME (r.err = "" /\ r.state # "complete")' PROVE (\E A \in [1..Len(net) + 1 -> Args] : Chain(A))'
    BY Zenon DEF ChainOK
  <2>1. PICK A \in [1..Len(net) + 1 -> Args] : Chain(A) BY <1>0, Zenon DEF FragInv, ChainOK
  <2>2. NextArg' = NextArg BY <1>0, ReaderSame, Zenon
  <2>3. PICK N \in Nat : N = Len(net) BY <1>2, Zenon
  <2>4. \A i \in 1..N : net'[i].sum = net[i].sum BY <1>4, <1>6, <2>3, Zenon
  <2>5. \A i \in 1..N + 1 : Before(i)' = Before(i)
    <3> SUFFICES ASSUME NEW i \in 1..N + 1 PROVE Before(i)' = Before(i) BY Zenon
    <3>1. CASE i = 1 BY <1>0, <3>1, Zenon DEF Before
    <3>2. CASE i # 1
      <4>1. PICK k \in 1..N : k = i - 1 BY <3>2, Counting, Zenon
      <4>2. Before(i)' = Len(net'[k].sum) /\ Before(i) = Len(net[k].sum) BY <3>2, <4>1, BeforeIs, Zenon
      <4> QED BY <2>4, <4>2, Zenon
    <3> QED BY <3>1, <3>2, Zenon
  <2>6. \A f, a, n, x : FragOK(f, a, n, x) => FragOK(f, a, n, x)' BY <1>0, FragSame, Zenon
  <2>7. (\A i \in 1..Len(net) : FragOK(net[i], A[i], Before(i), A[i + 1]))'
    <3> SUFFICES ASSUME NEW i \in 1..N PROVE FragOK(net[i], A[i], Before(i), A[i + 1])' BY <1>6, <2>3, Zenon
    <3>1. PICK f, b : f = net[i] /\ b = Before(i) BY Zenon
    <3>2. b = Before(i)' BY <2>5, <3>1, Counting, Zenon
    <3>3. FragOK(f, A[i], b, A[i + 1]) BY <2>1, <2>3, <3>1, Zenon DEF Chain
    <3>4. CASE i # j
      <4>1. net'[i] = f BY <1>6, <2>3, <3>1, <3>4, Zenon
      <4>2. FragOK(f, A[i], b, A[i + 1])' BY <2>6, <3>3, Zenon
      <4> QED BY <3>2, <4>1, <4>2, Zenon
    <3>5. CASE i = j
      <4>1. net'[i] = g /\ f = net[j] BY <1>6, <3>1, <3>5, Zenon
      <4>2. SameLens(f.chunks, g.chunks) BY <1>4, <4>1, Zenon DEF SameLens
      <4>3. FragOK(g, A[i], b, A[i + 1])' BY <1>0, <1>4, <3>3, <4>1, <4>2, FragDamaged, Zenon
      <4> QED BY <3>2, <4>1, <4>3, Zenon
    <3> QED BY <3>4, <3>5, Zenon
  <2>8. (Live => Writing(A[Len(net) + 1], Before(Len(net) + 1)))'
    <3>1. (Live' => Live) /\ \A a, n : Writing(a, n) => Writing(a, n)' BY <1>0, WriterSame, Zenon
    <3>2. PICK b : b = Before(N + 1) BY Zenon
    <3>3. b = Before(N + 1)' BY <2>5, <3>2, Counting, Zenon
    <3>4. Live => Writing(A[N + 1], b) BY <2>1, <2>3, <3>2, Zenon DEF Chain
    <3> QED BY <1>6, <2>3, <3>1, <3>3, <3>4, Zenon
  <2>9. Chain(A)' BY <2>1, <2>2, <2>7, <2>8, Zenon DEF Chain
  <2> QED BY <1>6, <2>9, Zenon
<1>10. BlameOK' BY <1>0, Zenon DEF BlameOK
<1> QED BY <1>7, <1>8, <1>9, <1>10, Zenon DEF FragInv
-----------------------------------------------------------------------------
(* The writer *)

\* A step of the writer keeps the invariant if it keeps the writer's part of it.
LEMMA WriterStep ==
    ASSUME FragInv, lens' = lens, UNCHANGED rVars, damaged' = damaged, WriterOK', SumOK', ChainOK',
           w' \in Writer, sum' \in Seq(Bytes), net' \in Seq(Fragment)
    PROVE  FragInv'
<1>1. r' = r /\ rsum' = rsum /\ out' = out BY Zenon DEF rVars
<1>2. ControlOK' /\ OutOK' /\ FetchedOK' BY <1>1, ReaderSame, Zenon
<1>3. FragTypeOK' BY <1>1, Zenon DEF FragInv, FragTypeOK
<1>4. BlameOK' BY <1>1, Zenon DEF FragInv, BlameOK
<1> QED BY <1>2, <1>3, <1>4, Zenon DEF FragInv

\* The writer fails (reqResWriter.failed).
LEMMA WFailKeeps ==
    ASSUME FragInv, WFail, lens' = lens, UNCHANGED rVars, damaged' = damaged, "w" \in failed => "w" \in failed'
    PROVE  FragInv'
<1>1. w \in Writer /\ sum \in Seq(Bytes) /\ net \in Seq(Fragment) BY Zenon DEF FragInv, FragTypeOK
<1>2. sum' = sum /\ net' = net
      /\ w' = [w EXCEPT !.err = TRUE, !.buf = 0, !.flush = FALSE, !.state = IF @ = "inLast" THEN "complete" ELSE @]
  BY Zenon DEF WFail
<1>3. w' \in Writer BY <1>1, <1>2, Zenon DEF Writer, States
<1>4. /\ w'.err /\ w'.buf = 0 /\ ~w'.flush /\ w'.state = IF w.state = "inLast" THEN "complete" ELSE w.state
      /\ w'.arg = w.arg /\ w'.chunks = w.chunks /\ w'.pos = w.pos
  BY <1>1, <1>2 DEF Writer
<1>5. BytesRemaining' = BytesRemaining BY <1>4, Zenon DEF BytesRemaining
<1>6. ~(w'.buf > 0) BY <1>4
<1>7. WriterOK' BY <1>4, <1>5, <1>6, Zenon DEF FragInv, WriterOK, isWritingArgument
<1>8. ~Live' BY <1>4, Zenon DEF Live
<1>9. SumOK' BY <1>8, Zenon DEF SumOK
<1>10. ChainOK'
  <2>1. r' = r /\ rsum' = rsum /\ out' = out BY Zenon DEF rVars
  <2> QED BY <1>2, <1>8, <2>1, ChainWrites, Zenon
<1> QED BY <1>1, <1>2, <1>3, <1>7, <1>9, <1>10, WriterStep, Zenon

\* Where arguments start is a number.
LEMMA StartNat == \A l \in [Args -> Nat] : \A i \in Args : Start(l, i) \in Nat /\ Start(l, i + 1) \in Nat
<1> SUFFICES ASSUME NEW l \in [Args -> Nat], NEW i \in Args PROVE Start(l, i) \in Nat /\ Start(l, i + 1) \in Nat BY Zenon
<1>1. \A j \in 1..4 : Start(l, j) \in Nat BY Starts, Zenon
<1>2. i \in 1..4 /\ i + 1 \in 1..4 BY DEF Args
<1> QED BY <1>1, <1>2, Zenon

\* An empty fragment
LEMMA UsedNone == Used(<<>>) = 0
<1>1. <<>> \in Seq(Seq(Bytes)) /\ Len(<<>>) = 0 OBVIOUS
<1> QED BY <1>1, UsedIs, Zenon

\* The chunks that BeginArgument leaves go on with the stream.
LEMMA BeginWriting ==
    ASSUME FragInv, NEW i \in Args, w.arg = i, ~isWritingArgument, Live, NEW a \in Args, NEW n \in Nat, Writing(a, n)
    PROVE  LET ds == Append(w.chunks, <<>>) IN
           Layout(lens, ds, a, n) /\ Contents(lens, ds, a, n) /\ End(lens, ds, a, n) = Len(sum) /\ i + 1 = a + Len(ds)
<1> DEFINE ds == Append(w.chunks, <<>>)
<1>1. w \in Writer /\ sum \in Seq(Bytes) /\ net \in Seq(Fragment) /\ lens \in [Args -> Nat] /\ WriterOK /\ SumOK
  BY Zenon DEF FragInv, FragTypeOK
<1>2. w.chunks \in Seq(Seq(Bytes)) /\ w.state \in States BY <1>1, Zenon DEF Writer
<1>3. w.state = "start" \/ w.state = "waiting"
  <2>1. w.state # "complete" BY <1>1, Zenon DEF SumOK
  <2> QED BY <1>2, <2>1, Zenon DEF isWritingArgument, States
<1>4. CASE w.state = "start"
  <2>1. a = 1 /\ n = 0 /\ i = 1 /\ sum = <<>> BY <1>1, <1>4, Zenon DEF Writing, SumOK
  <2>2. w.chunks = <<>> BY <1>1, <1>4, Zenon DEF WriterOK
  <2>3. ds = <<<<>>>> /\ Len(ds) = 1 BY <2>2
  <2>4. Start(lens, 1) <= 0 /\ 0 <= Start(lens, 1 + 1) BY <1>1, Starts DEF Args
  <2>5. Layout(lens, <<<<>>>>, 1, 0) /\ Contents(lens, <<<<>>>>, 1, 0) /\ End(lens, <<<<>>>>, 1, 0) = 0
    BY <1>1, <2>4, LayoutNew DEF Args
  <2>6. Len(sum) = 0 BY <2>1
  <2> QED BY <2>1, <2>3, <2>5, <2>6, Zenon
<1>5. CASE w.state = "waiting"
  <2>1. /\ Layout(lens, w.chunks, a, n) /\ Contents(lens, w.chunks, a, n)
        /\ End(lens, w.chunks, a, n) = Len(sum) /\ i = a + Len(w.chunks)
    BY <1>5, Zenon DEF Writing
  <2>2. Len(sum) = Start(lens, i) BY <1>1, <1>5, Zenon DEF SumOK
  <2>3. a + Len(w.chunks) <= 3 BY <2>1 DEF Args
  <2>4. End(lens, w.chunks, a, n) = Start(lens, a + Len(w.chunks)) BY <2>1, <2>2, Zenon
  <2>5. PICK cs \in Seq(Seq(Bytes)) : cs = w.chunks BY <1>2, Zenon
  <2>6. PICK l \in [Args -> Nat] : l = lens BY <1>1, Zenon
  <2>7. Layout(l, cs, a, n) /\ Contents(l, cs, a, n) BY <2>1, <2>5, <2>6, Zenon
  <2>8. End(l, cs, a, n) = Start(l, a + Len(cs)) /\ a + Len(cs) <= 3 BY <2>3, <2>4, <2>5, <2>6, Zenon
  <2>9. LET es == Append(cs, <<>>) IN
        /\ Len(es) = Len(cs) + 1 /\ Layout(l, es, a, n) /\ Contents(l, es, a, n) /\ End(l, es, a, n) = End(l, cs, a, n)
    BY <2>7, <2>8, LayoutAppend
  <2>10. i + 1 = a + (Len(w.chunks) + 1)
    <3>1. Len(w.chunks) \in Nat BY <1>2, LenNat, Zenon
    <3> QED BY <2>1, <3>1 DEF Args
  <2> QED BY <2>1, <2>5, <2>6, <2>9, <2>10, Zenon
<1> QED BY <1>3, <1>4, <1>5, Zenon

\* Arithmetic
LEMMA FewerChunks == \A n \in Nat : n <= 2 => n <= 3
BY SMT

\* BeginArgument of the writer opens argument i and adds an empty chunk.
LEMMA BeginKeeps ==
    ASSUME FragInv, NEW i \in Args, w.arg = i, ~isWritingArgument, ~w.err,
           w' = [w EXCEPT !.arg = i + 1, !.state = IF i = 3 THEN "inLast" ELSE "in",
                          !.open = TRUE, !.chunks = Append(@, <<>>), !.pos = 0],
           UNCHANGED <<lens, sum, net, rVars, failed, damaged>>
    PROVE  FragInv'
<1>1. w \in Writer /\ sum \in Seq(Bytes) /\ net \in Seq(Fragment) /\ lens \in [Args -> Nat] /\ WriterOK /\ SumOK
  BY Zenon DEF FragInv, FragTypeOK
<1>2. w.chunks \in Seq(Seq(Bytes)) /\ w.buf \in Nat /\ w.pos \in Nat /\ w.state \in States BY <1>1, Zenon DEF Writer
<1>3. sum' = sum /\ net' = net /\ lens' = lens /\ failed' = failed /\ damaged' = damaged /\ UNCHANGED rVars BY Zenon
<1>4. w.state = "start" \/ w.state = "waiting"
  <2>1. w.state # "complete" BY <1>1 DEF WriterOK, Args
  <2> QED BY <1>2, <2>1, Zenon DEF isWritingArgument, States
<1>5. /\ w'.arg = i + 1 /\ w'.state = (IF i = 3 THEN "inLast" ELSE "in") /\ w'.chunks = Append(w.chunks, <<>>)
      /\ w'.pos = 0 /\ w'.buf = w.buf /\ w'.flush = w.flush /\ w'.err = w.err
  BY <1>1, Zenon DEF Writer
<1>6. Len(w.chunks) \in Nat /\ Len(w.chunks) <= i - 1 /\ Len(w.chunks) <= 2
  <2>1. Len(w.chunks) \in Nat BY <1>2, LenNat, Zenon
  <2>2. Len(w.chunks) <= i - 1 BY <1>1, Zenon DEF WriterOK
  <2> QED BY <2>1, <2>2 DEF Args
<1>7. /\ Used(w'.chunks) = Used(w.chunks) + 2 /\ w'.chunks \in Seq(Seq(Bytes)) /\ Len(w'.chunks) = Len(w.chunks) + 1
      /\ Used(w.chunks) \in Nat
  BY <1>2, <1>5, <1>6, UsedAppend, UsedNat, FewerChunks, Zenon
<1>8. w' \in Writer
  <2>1. i + 1 \in 1..4 BY DEF Args
  <2>2. Append(w.chunks, <<>>) \in Seq(Seq(Bytes)) BY <1>5, <1>7, Zenon
  <2> QED BY <1>1, <2>1, <2>2, Zenon DEF Writer, States
<1>9. WriterOK'
  <2>1. Len(w'.chunks) <= w'.arg - 1 /\ w'.arg > 1 /\ Len(w'.chunks) > 0 BY <1>5, <1>6, <1>7 DEF Args
  <2>2. w'.state = "inLast" => w'.arg = 4 BY <1>5 DEF Args
  <2>3. w'.state \in {"in", "inLast"} BY <1>5, Zenon
  <2>4. ~(w'.buf > 0) /\ ~w'.flush BY <1>1, <1>5, Zenon DEF WriterOK
  <2>5. BytesRemaining' >= 0
    <3>1. Room - Used(w.chunks) >= 2
      <4>1. CASE w.state = "start"
        <5>1. w.chunks = <<>> BY <1>1, <4>1, Zenon DEF WriterOK
        <5>2. Used(w.chunks) = 0 BY <1>2, <5>1, UsedNone, Zenon
        <5> QED BY <5>2, FragmentsAssumption DEF Header
      <4>2. CASE w.state = "waiting"
        <5>1. BytesRemaining > Header BY <1>1, <4>2, Zenon DEF WriterOK
        <5> QED BY <1>7, <5>1, FragmentsAssumption DEF BytesRemaining, Header
      <4> QED BY <1>4, <4>1, <4>2, Zenon
    <3>2. Room - (Used(w.chunks) + 2) >= 0 BY <1>7, <3>1, FragmentsAssumption
    <3> QED BY <1>7, <3>2, Zenon DEF BytesRemaining
  <2> QED BY <2>1, <2>2, <2>3, <2>4, <2>5, Zenon DEF WriterOK, isWritingArgument
<1>a. Start(lens, i) \in Nat /\ Start(lens, i) + 0 = Start(lens, i)
  <2>1. Start(lens, i) \in Nat BY <1>1, StartNat, Zenon
  <2> QED BY <2>1
<1>b. w'.state # "start" /\ w'.state # "waiting" /\ w'.state # "complete" /\ (w'.state = "in" => i # 3) BY <1>5
<1>10. SumOK'
  <2> SUFFICES ASSUME Live' PROVE SumOK' BY Zenon DEF SumOK
  <2>1. Live BY <1>3, <1>5, Zenon DEF Live
  <2>2. At(lens, sum, 0)' BY <1>1, <1>3, <2>1, Zenon DEF SumOK
  <2>3. (i + 1) - 1 = i /\ 0 <= lens[i] /\ (i # 3 => i + 1 < 4) BY <1>1 DEF Args
  <2>4. Len(sum) = Start(lens, i)
    <3>1. CASE w.state = "start"
      <4>1. i = 1 /\ sum = <<>> BY <1>1, <2>1, <3>1, Zenon DEF SumOK
      <4> QED BY <4>1 DEF Start
    <3>2. CASE w.state = "waiting" BY <1>1, <2>1, <3>2, Zenon DEF SumOK
    <3> QED BY <1>4, <3>1, <3>2, Zenon
  <2>5. w'.arg - 1 = i BY <1>5, <2>3, Zenon
  <2>6. w'.pos <= lens'[w'.arg - 1] /\ Len(sum') = Start(lens', w'.arg - 1) + w'.pos
    BY <1>3, <1>5, <1>a, <2>3, <2>4, <2>5, Zenon
  <2>7. w'.state = "in" => w'.arg < 4 BY <1>5, <1>b, <2>3, Zenon
  <2> QED BY <1>b, <2>2, <2>6, <2>7, Zenon DEF SumOK
<1>11. \A a \in Args : \A n \in Nat : Live' /\ Writing(a, n) => Writing(a, n)'
  <2> SUFFICES ASSUME NEW a \in Args, NEW n \in Nat, Live', Writing(a, n) PROVE Writing(a, n)' BY Zenon
  <2>1. Live BY <1>3, <1>5, Zenon DEF Live
  <2> DEFINE ds == Append(w.chunks, <<>>)
  <2>2. Layout(lens, ds, a, n) /\ Contents(lens, ds, a, n) /\ End(lens, ds, a, n) = Len(sum) /\ i + 1 = a + Len(ds)
    BY <2>1, BeginWriting, Zenon
  <2> QED BY <1>3, <1>5, <1>b, <2>2, Zenon DEF Writing
<1>12. ChainOK'
  <2>1. r' = r /\ rsum' = rsum /\ out' = out BY Zenon DEF rVars
  <2>2. Live' => Live BY <1>3, <1>5, Zenon DEF Live
  <2> QED BY <1>3, <1>11, <2>1, <2>2, ChainWrites, Zenon
<1> QED BY <1>1, <1>3, <1>8, <1>9, <1>10, <1>12, WriterStep, Zenon

\* argWriter, in turn or not
LEMMA ArgWriterKeeps == ASSUME FragInv, NEW i \in Args, argWriter(i) PROVE FragInv'
<1>1. ~w.err /\ UNCHANGED <<lens, rVars, failed, damaged>> BY Zenon DEF argWriter
<1>2. CASE WFail BY <1>1, <1>2, WFailKeeps, Zenon
<1>3. CASE ~WFail
  <2>1. w.arg = i /\ BeginArgument(i) BY <1>3, Zenon DEF argWriter
  <2>2. /\ ~isWritingArgument /\ UNCHANGED <<sum, net>>
        /\ w' = [w EXCEPT !.arg = i + 1, !.state = IF i = 3 THEN "inLast" ELSE "in",
                          !.open = TRUE, !.chunks = Append(@, <<>>), !.pos = 0]
    BY <1>3, <2>1, Zenon DEF BeginArgument
  <2> QED BY <1>1, <2>1, <2>2, BeginKeeps, Zenon
<1> QED BY <1>2, <1>3, Zenon

\* The application writes n bytes more.
LEMMA WriteKeeps == ASSUME FragInv, NEW n \in Nat, Write(n) PROVE FragInv'
<1>1. w \in Writer /\ sum \in Seq(Bytes) /\ net \in Seq(Fragment) /\ lens \in [Args -> Nat] /\ WriterOK /\ SumOK
  BY Zenon DEF FragInv, FragTypeOK
<1>2. /\ sum' = sum /\ net' = net /\ lens' = lens /\ failed' = failed /\ damaged' = damaged /\ UNCHANGED rVars
      /\ ~w.err /\ isWritingArgument /\ ~w.flush /\ n \in 1..lens[w.arg - 1] - w.pos /\ w' = [w EXCEPT !.buf = n]
  BY Zenon DEF Write
<1>3. w' \in Writer BY <1>1, <1>2, Zenon DEF Writer
<1>4. /\ w'.arg = w.arg /\ w'.state = w.state /\ w'.chunks = w.chunks /\ w'.pos = w.pos /\ w'.err = w.err
      /\ w'.flush = w.flush /\ w'.buf = n
  BY <1>1, <1>2, Zenon DEF Writer
<1>5. w.pos + n <= lens[w.arg - 1]
  <2>1. w.arg \in 1..4 /\ w.pos \in Nat BY <1>1, Zenon DEF Writer
  <2>2. w.arg > 1 BY <1>1, <1>2, Zenon DEF WriterOK, isWritingArgument
  <2>3. lens[w.arg - 1] \in Nat BY <1>1, <2>1, <2>2 DEF Args
  <2> QED BY <1>2, <2>1, <2>3
<1>6. WriterOK'
  <2>1. BytesRemaining' = BytesRemaining BY <1>4, Zenon DEF BytesRemaining
  <2> QED BY <1>1, <1>2, <1>4, <1>5, <2>1, Zenon DEF WriterOK, isWritingArgument
<1>7. Live' => Live BY <1>2, <1>4, Zenon DEF Live
<1>8. SumOK' BY <1>1, <1>2, <1>4, <1>7, Zenon DEF SumOK, isWritingArgument
<1>9. \A a, m : Writing(a, m) => Writing(a, m)' BY <1>2, <1>4, Zenon DEF Writing
<1>10. ChainOK'
  <2>1. r' = r /\ rsum' = rsum /\ out' = out BY <1>2, Zenon DEF rVars
  <2> QED BY <1>2, <1>7, <1>9, <2>1, ChainWrites, Zenon
<1> QED BY <1>1, <1>2, <1>3, <1>6, <1>8, <1>10, WriterStep, Zenon

\* Some bytes of argument i, after the first p
LEMMA ArgBytes ==
    ASSUME FragTypeOK, NEW i \in Args, NEW p \in Nat, NEW n \in Nat, p + n <= lens[i]
    PROVE  LET b == SubSeq(Arg(i), p + 1, p + n) IN
           b \in Seq(Bytes) /\ Len(b) = n /\ At(lens, b, Start(lens, i) + p)
<1> DEFINE b == SubSeq(Arg(i), p + 1, p + n)
<1>1. lens \in [Args -> Nat] BY Zenon DEF FragTypeOK
<1>2. lens[i] \in Nat /\ Start(lens, i) \in Nat BY <1>1, StartNat, Zenon
<1>3. \A j \in 1..lens[i] : <<i, j>> \in Bytes BY <1>2 DEF Bytes, Args
<1>4. Arg(i) \in Seq(Bytes) /\ Len(Arg(i)) = lens[i] /\ \A j \in 1..lens[i] : Arg(i)[j] = <<i, j>>
  BY <1>2, <1>3 DEF Arg
<1>5. b \in Seq(Bytes) /\ Len(b) = n /\ \A j \in 1..n : b[j] = Arg(i)[p + j]
  <2>1. PICK s \in Seq(Bytes) : s = Arg(i) BY <1>4, Zenon
  <2>2. Len(s) = lens[i] BY <1>4, <2>1, Zenon
  <2>3. PICK c : c = SubSeq(s, p + 1, p + n) BY Zenon
  <2>4. p + n <= Len(s) BY <2>2, Zenon
  <2>5. c \in Seq(Bytes) /\ Len(c) = n /\ \A j \in 1..n : c[j] = s[p + j]
    <3>1. c \in Seq(Bytes) BY <2>3, <2>4
    <3>2. Len(c) = n BY <2>3, <2>4
    <3>3. \A j \in 1..n : c[j] = s[p + j] BY <2>3, <2>4, SMTT(30)
    <3> QED BY <3>1, <3>2, <3>3, Zenon
  <2> QED BY <2>1, <2>3, <2>5, Zenon
<1>6. \A j \in 1..n : p + j \in 1..lens[i] /\ Start(lens, i) + (p + j) = Start(lens, i) + p + j BY <1>2
<1>7. \A j \in 1..n : b[j] = Stream(lens, Start(lens, i) + p + j)
  <2> SUFFICES ASSUME NEW j \in 1..n PROVE b[j] = Stream(lens, Start(lens, i) + p + j) BY Zenon
  <2>1. PICK k \in 1..lens[i] : k = p + j BY <1>6, Zenon
  <2>2. Stream(lens, Start(lens, i) + k) = <<i, k>> BY <1>1, StreamArg, Zenon
  <2>3. b[j] = <<i, k>> BY <1>4, <1>5, <2>1, Zenon
  <2>4. Start(lens, i) + k = Start(lens, i) + p + j BY <1>6, <2>1, Zenon
  <2> QED BY <2>2, <2>3, <2>4, Zenon
<1> HIDE DEF b
<1>8. At(lens, b, Start(lens, i) + p) BY <1>5, <1>7, Zenon DEF At
<1> QED BY <1>5, <1>8, Zenon DEF b

\* Arithmetic of a write
LEMMA Fits ==
    /\ \A c \in Nat : \A a \in 1..4 : c > 0 /\ a > 1 /\ c <= a - 1 => c \in 1..3 /\ c <= 3 /\ a - 1 \in Args
    /\ \A p, b, n, m \in Nat : p + b <= m /\ n <= b =>
         /\ (p + n) + (b - n) <= m /\ p + n \in Nat /\ b - n \in Nat /\ (n < b => b - n > 0) /\ p + n <= m
BY SMT DEF Args

\* What a writer with bytes to write can add to its chunk
LEMMA Fitting ==
    ASSUME FragInv, w.buf > 0, NEW n, NEW b,
           n = IF w.buf < BytesRemaining THEN w.buf ELSE BytesRemaining,
           b = SubSeq(Arg(w.arg - 1), w.pos + 1, w.pos + n)
    PROVE  /\ ~w.err /\ isWritingArgument /\ Len(w.chunks) \in 1..3 /\ w.arg - 1 \in Args
           /\ n \in Nat /\ n <= w.buf /\ b \in Seq(Bytes) /\ Len(b) = n
           /\ (w.pos + n) + (w.buf - n) <= lens[w.arg - 1] /\ w.pos + n \in Nat /\ w.buf - n \in Nat
           /\ (n < w.buf => w.buf - n > 0) /\ w.pos + n <= lens[w.arg - 1]
           /\ Room - (Used(w.chunks) + n) >= 0
           /\ Live => At(lens, b, Len(sum)) /\ Len(sum) + n = Start(lens, w.arg - 1) + (w.pos + n)
<1>1. /\ w \in Writer /\ sum \in Seq(Bytes) /\ lens \in [Args -> Nat] /\ WriterOK /\ SumOK /\ FragTypeOK
  BY Zenon DEF FragInv, FragTypeOK
<1>2. w.chunks \in Seq(Seq(Bytes)) /\ w.buf \in Nat /\ w.pos \in Nat /\ w.arg \in 1..4 BY <1>1, Zenon DEF Writer
<1>3. ~w.err /\ isWritingArgument /\ w.pos + w.buf <= lens[w.arg - 1] BY <1>1, Zenon DEF WriterOK
<1>4. w.arg > 1 /\ Len(w.chunks) > 0 /\ Len(w.chunks) <= w.arg - 1 /\ BytesRemaining >= 0
  BY <1>1, <1>3, Zenon DEF WriterOK, isWritingArgument
<1>5. Len(w.chunks) \in Nat BY <1>2, LenNat, Zenon
<1>a. w.arg \in 1..4 /\ w.buf \in Nat /\ w.pos \in Nat BY <1>2, Zenon
<1>6. Len(w.chunks) \in 1..3 /\ Len(w.chunks) <= 3 /\ w.arg - 1 \in Args BY <1>a, <1>4, <1>5, Fits, Zenon
<1>7. Used(w.chunks) \in Nat BY <1>2, <1>6, UsedNat, Zenon
<1>8. lens[w.arg - 1] \in Nat /\ Start(lens, w.arg - 1) \in Nat BY <1>1, <1>6, StartNat, Zenon
<1>9. BytesRemaining \in Nat /\ BytesRemaining = Room - Used(w.chunks)
  BY <1>4, <1>7, FragmentsAssumption DEF BytesRemaining
<1>10. n \in Nat /\ n <= w.buf /\ n <= BytesRemaining BY <1>2, <1>9
<1>11. /\ (w.pos + n) + (w.buf - n) <= lens[w.arg - 1] /\ w.pos + n \in Nat /\ w.buf - n \in Nat
       /\ (n < w.buf => w.buf - n > 0) /\ w.pos + n <= lens[w.arg - 1]
  <2>1. \A m \in Nat : w.pos + w.buf <= m =>
          /\ (w.pos + n) + (w.buf - n) <= m /\ w.pos + n \in Nat /\ w.buf - n \in Nat
          /\ (n < w.buf => w.buf - n > 0) /\ w.pos + n <= m
    BY <1>a, <1>10, Fits, Zenon
  <2> QED BY <1>3, <1>8, <2>1, Zenon
<1>12. Room - (Used(w.chunks) + n) >= 0 BY <1>7, <1>9, <1>10, FragmentsAssumption
<1>13. b \in Seq(Bytes) /\ Len(b) = n /\ At(lens, b, Start(lens, w.arg - 1) + w.pos)
  <2>1. PICK i \in Args : i = w.arg - 1 BY <1>6, Zenon
  <2>2. LET c == SubSeq(Arg(i), w.pos + 1, w.pos + n) IN
        c \in Seq(Bytes) /\ Len(c) = n /\ At(lens, c, Start(lens, i) + w.pos)
    <3>1. PICK p \in Nat : p = w.pos BY <1>2, Zenon
    <3>2. p + n <= lens[i] BY <1>11, <2>1, <3>1, Zenon
    <3>3. LET c == SubSeq(Arg(i), p + 1, p + n) IN c \in Seq(Bytes) /\ Len(c) = n /\ At(lens, c, Start(lens, i) + p)
      BY <1>1, <1>10, <3>2, ArgBytes, Zenon
    <3> QED BY <3>1, <3>3, Zenon
  <2> QED BY <2>1, <2>2, Zenon
<1>14. Live => Len(sum) = Start(lens, w.arg - 1) + w.pos BY <1>1, <1>3, Zenon DEF SumOK
<1>15. Live => At(lens, b, Len(sum)) BY <1>13, <1>14, Zenon
<1>16. Start(lens, w.arg - 1) + w.pos + n = Start(lens, w.arg - 1) + (w.pos + n) BY <1>2, <1>8, <1>10
<1>17. Live => Len(sum) + n = Start(lens, w.arg - 1) + (w.pos + n) BY <1>14, <1>16, Zenon
<1> QED BY <1>3, <1>6, <1>10, <1>11, <1>12, <1>13, <1>15, <1>17, Zenon

\* The fragment with those bytes goes on with the stream.
LEMMA FitsWriting ==
    ASSUME FragInv, w.buf > 0, NEW a \in Args, NEW n \in Nat, Writing(a, n), Live, isWritingArgument,
           NEW b \in Seq(Bytes), At(lens, b, Len(sum)),
           Len(sum) + Len(b) = Start(lens, w.arg - 1) + (w.pos + Len(b)), w.pos + Len(b) <= lens[w.arg - 1], w.arg - 1 \in Args
    PROVE  LET ds == [w.chunks EXCEPT ![Len(w.chunks)] = @ \o b] IN
           Layout(lens, ds, a, n) /\ Contents(lens, ds, a, n) /\ End(lens, ds, a, n) = Len(sum) + Len(b)
           /\ w.arg = a + Len(ds)
<1>1. w \in Writer /\ sum \in Seq(Bytes) /\ lens \in [Args -> Nat] BY Zenon DEF FragInv, FragTypeOK
<1>2. w.chunks \in Seq(Seq(Bytes)) /\ w.arg \in 1..4 /\ w.pos \in Nat BY <1>1, Zenon DEF Writer
<1>3. w.state # "start" BY DEF isWritingArgument
<1>4. /\ Layout(lens, w.chunks, a, n) /\ Contents(lens, w.chunks, a, n) /\ End(lens, w.chunks, a, n) = Len(sum)
      /\ w.arg = a + Len(w.chunks)
  BY <1>3, Zenon DEF Writing
<1>5. Start(lens, (w.arg - 1) + 1) = Start(lens, w.arg - 1) + lens[w.arg - 1] /\ Start(lens, w.arg - 1) \in Nat
      /\ lens[w.arg - 1] \in Nat
  BY <1>1, Starts, StartNat, Zenon
<1>6. (w.arg - 1) + 1 = w.arg BY <1>2
<1>7. Len(sum) + Len(b) <= Start(lens, w.arg)
  <2>1. Len(b) \in Nat /\ Len(sum) \in Nat BY <1>1
  <2>2. Start(lens, w.arg) = Start(lens, w.arg - 1) + lens[w.arg - 1] BY <1>5, <1>6, Zenon
  <2> QED BY <1>2, <1>5, <2>1, <2>2
<1>8. PICK cs \in Seq(Seq(Bytes)) : cs = w.chunks BY <1>2, Zenon
<1>9. PICK l \in [Args -> Nat] : l = lens BY <1>1, Zenon
<1>10. Layout(l, cs, a, n) /\ Contents(l, cs, a, n) /\ At(l, b, End(l, cs, a, n)) BY <1>4, <1>8, <1>9, Zenon
<1>11. End(l, cs, a, n) + Len(b) <= Start(l, a + Len(cs)) BY <1>4, <1>7, <1>8, <1>9, Zenon
<1>12. PICK ds : ds = [w.chunks EXCEPT ![Len(w.chunks)] = @ \o b] BY Zenon
<1>13. Grown(cs, b, ds) BY <1>8, <1>12, Zenon DEF Grown
<1>14. Len(ds) = Len(cs) /\ Layout(l, ds, a, n) /\ Contents(l, ds, a, n) /\ End(l, ds, a, n) = End(l, cs, a, n) + Len(b)
  BY <1>10, <1>11, <1>13, LayoutGrow, SMTT(30)
<1>15. Len(ds) = Len(w.chunks) /\ Layout(lens, ds, a, n) /\ Contents(lens, ds, a, n) /\ End(lens, ds, a, n) = Len(sum) + Len(b)
  <2>1. End(l, cs, a, n) = Len(sum) BY <1>4, <1>8, <1>9, Zenon
  <2>2. End(l, ds, a, n) = Len(sum) + Len(b) BY <1>14, <2>1, Zenon
  <2>3. Len(ds) = Len(w.chunks) BY <1>8, <1>14, Zenon
  <2> QED BY <1>9, <1>14, <2>2, <2>3, Zenon
<1> QED BY <1>4, <1>12, <1>15, Zenon

\* writeAsFits adds what fits to the last chunk.
LEMMA FitsKeeps == ASSUME FragInv, writeAsFits PROVE FragInv'
<1>1. /\ w \in Writer /\ sum \in Seq(Bytes) /\ net \in Seq(Fragment) /\ lens \in [Args -> Nat] /\ WriterOK /\ SumOK
  BY Zenon DEF FragInv, FragTypeOK
<1>2. w.chunks \in Seq(Seq(Bytes)) /\ w.arg \in 1..4 BY <1>1, Zenon DEF Writer
<1>3. PICK n : n = IF w.buf < BytesRemaining THEN w.buf ELSE BytesRemaining BY Zenon
<1>4. PICK b : b = SubSeq(Arg(w.arg - 1), w.pos + 1, w.pos + n) BY Zenon
<1>5. /\ w.buf > 0 /\ ~w.flush /\ sum' = sum \o b
      /\ w' = [w EXCEPT !.chunks[Len(w.chunks)] = @ \o b, !.pos = @ + n, !.buf = @ - n, !.flush = n < w.buf]
      /\ lens' = lens /\ net' = net /\ failed' = failed /\ damaged' = damaged /\ UNCHANGED rVars
  BY <1>3, <1>4, Zenon DEF writeAsFits
<1>6. /\ ~w.err /\ isWritingArgument /\ Len(w.chunks) \in 1..3 /\ w.arg - 1 \in Args
      /\ n \in Nat /\ n <= w.buf /\ b \in Seq(Bytes) /\ Len(b) = n
      /\ (w.pos + n) + (w.buf - n) <= lens[w.arg - 1] /\ w.pos + n \in Nat /\ w.buf - n \in Nat
      /\ (n < w.buf => w.buf - n > 0) /\ w.pos + n <= lens[w.arg - 1]
      /\ Room - (Used(w.chunks) + n) >= 0
      /\ Live => At(lens, b, Len(sum)) /\ Len(sum) + n = Start(lens, w.arg - 1) + (w.pos + n)
  BY <1>3, <1>4, <1>5, Fitting, Zenon
<1>7. PICK ds : ds = [w.chunks EXCEPT ![Len(w.chunks)] = @ \o b] BY Zenon
<1>8. Used(ds) = Used(w.chunks) + n /\ ds \in Seq(Seq(Bytes)) /\ Len(ds) = Len(w.chunks)
  <2>1. LET es == [w.chunks EXCEPT ![Len(w.chunks)] = @ \o b] IN
        Used(es) = Used(w.chunks) + Len(b) /\ es \in Seq(Seq(Bytes)) /\ Len(es) = Len(w.chunks)
    BY <1>2, <1>6, UsedGrow, Zenon
  <2> QED BY <1>6, <1>7, <2>1, Zenon
<1>9. w' = [w EXCEPT !.chunks = ds, !.pos = w.pos + n, !.buf = w.buf - n, !.flush = n < w.buf]
  BY <1>5, <1>7, Zenon
<1>10. w' \in Writer
  <2>1. \A x, y \in Nat : (x < y) \in BOOLEAN BY SMT
  <2>2. n \in Nat /\ w.buf \in Nat BY <1>1, <1>6, Zenon DEF Writer
  <2>3. (n < w.buf) \in BOOLEAN BY <2>1, <2>2, Zenon
  <2> QED BY <1>1, <1>6, <1>8, <1>9, <2>3, Zenon DEF Writer
<1>11. /\ w'.arg = w.arg /\ w'.state = w.state /\ w'.chunks = ds /\ w'.pos = w.pos + n /\ w'.buf = w.buf - n
       /\ w'.flush = (n < w.buf) /\ w'.err = w.err
  BY <1>1, <1>9, Zenon DEF Writer
<1>12. sum' \in Seq(Bytes) /\ Len(sum') = Len(sum) + n BY <1>1, <1>5, <1>6, ConcatLen, Zenon
<1>13. w.state \in {"in", "inLast"} BY <1>6, Zenon DEF isWritingArgument
<1>14. WriterOK'
  <2>1. BytesRemaining' >= 0 BY <1>6, <1>8, <1>11, Zenon DEF BytesRemaining
  <2> QED BY <1>1, <1>5, <1>6, <1>8, <1>11, <1>13, <2>1, Zenon DEF WriterOK, isWritingArgument
<1>15. Live' => Live BY <1>5, <1>11, Zenon DEF Live
<1>16. SumOK'
  <2>1. Live => At(lens, sum \o b, 0)
    <3>1. Live => At(lens, sum, 0) /\ At(lens, b, 0 + Len(sum))
      <4>1. 0 + Len(sum) = Len(sum) BY <1>1
      <4> QED BY <1>1, <1>6, <4>1, Zenon DEF SumOK
    <3>2. At(lens, sum, 0) /\ At(lens, b, 0 + Len(sum)) => At(lens, sum \o b, 0) BY <1>1, <1>6, AtConcat
    <3> QED BY <3>1, <3>2, Zenon
  <2> QED BY <1>1, <1>5, <1>6, <1>11, <1>12, <1>13, <1>15, <2>1, Zenon DEF SumOK, isWritingArgument
<1>17. \A a \in Args : \A m \in Nat : Live' /\ Writing(a, m) => Writing(a, m)'
  <2> SUFFICES ASSUME NEW a \in Args, NEW m \in Nat, Live', Writing(a, m) PROVE Writing(a, m)' BY Zenon
  <2>1. Layout(lens, ds, a, m) /\ Contents(lens, ds, a, m) /\ End(lens, ds, a, m) = Len(sum) + n
        /\ w.arg = a + Len(ds)
    BY <1>5, <1>6, <1>7, <1>15, FitsWriting, Zenon
  <2>2. w'.state # "start" BY <1>11, <1>13, Zenon
  <2> QED BY <1>5, <1>11, <1>12, <2>1, <2>2, Zenon DEF Writing
<1>18. ChainOK'
  <2>1. r' = r /\ rsum' = rsum /\ out' = out BY <1>5, Zenon DEF rVars
  <2> QED BY <1>5, <1>15, <1>17, <2>1, ChainWrites, Zenon
<1> QED BY <1>1, <1>5, <1>10, <1>12, <1>14, <1>16, <1>18, WriterStep, Zenon

\* The fragment that a writer sends
Sent(more) == [chunks |-> w.chunks, more |-> more, sum |-> sum, error |-> FALSE]

\* A new fragment has one chunk.
LEMMA OneChunk == Len(<<<<>>>>) = 1
OBVIOUS

\* The fragment that is sent goes on with what the one before it ended with, and the next
\* one with what it ends with.
LEMMA Sending ==
    ASSUME FragInv, Live, isWritingArgument, NEW more \in BOOLEAN, ~more => w.arg = 4 /\ w.pos = lens[w.arg - 1],
           NEW a \in Args, NEW n \in Nat, Writing(a, n)
    PROVE  \E x \in Args :
             /\ FragOK(Sent(more), a, n, x) /\ w.arg = x + 1
             /\ Layout(lens, <<<<>>>>, x, Len(sum)) /\ Contents(lens, <<<<>>>>, x, Len(sum))
             /\ End(lens, <<<<>>>>, x, Len(sum)) = Len(sum)
<1>1. w \in Writer /\ sum \in Seq(Bytes) /\ lens \in [Args -> Nat] /\ WriterOK /\ SumOK
  BY Zenon DEF FragInv, FragTypeOK
<1>2. w.chunks \in Seq(Seq(Bytes)) /\ w.arg \in 1..4 /\ w.pos \in Nat BY <1>1, Zenon DEF Writer
<1>3. w.state # "start" BY DEF isWritingArgument
<1>4. /\ Layout(lens, w.chunks, a, n) /\ Contents(lens, w.chunks, a, n) /\ End(lens, w.chunks, a, n) = Len(sum)
      /\ w.arg = a + Len(w.chunks)
  BY <1>3, Zenon DEF Writing
<1>5. w.arg > 1 BY <1>1, Zenon DEF WriterOK, isWritingArgument
<1>6. PICK x : x = w.arg - 1 BY Zenon
<1>7. x \in Args /\ w.arg = x + 1
  <2>1. w.arg \in 1..4 BY <1>2, Zenon
  <2> QED BY <1>5, <1>6, <2>1 DEF Args
<1>8. x = a + Len(w.chunks) - 1
  <2>1. Len(w.chunks) \in Nat BY <1>2, LenNat, Zenon
  <2>2. a \in Int /\ w.arg = a + Len(w.chunks) /\ x = w.arg - 1 BY <1>4, <1>6 DEF Args
  <2> QED BY <2>1, <2>2, SMT
<1>9. /\ Len(sum) = Start(lens, x) + w.pos /\ w.pos <= lens[x] /\ At(lens, sum, 0)
  BY <1>1, <1>6, Zenon DEF SumOK
<1>10. Start(lens, x + 1) = Start(lens, x) + lens[x] /\ Start(lens, x) \in Nat /\ lens[x] \in Nat
  BY <1>1, <1>7, Starts, StartNat, Zenon
<1>11. /\ Len(sum) \in Nat /\ Start(lens, x) <= Len(sum) /\ Len(sum) <= Start(lens, x + 1)
       /\ w.pos = lens[x] => Len(sum) = Start(lens, x + 1)
  <2>1. w.pos \in Nat BY <1>2, Zenon
  <2>2. \A s, p, m \in Nat : p <= m => s + p \in Nat /\ s <= s + p /\ s + p <= s + m BY SMT
  <2>3. /\ Start(lens, x) + w.pos \in Nat /\ Start(lens, x) <= Start(lens, x) + w.pos
        /\ Start(lens, x) + w.pos <= Start(lens, x) + lens[x]
    BY <1>9, <1>10, <2>1, <2>2, Zenon
  <2>4. Len(sum) \in Nat /\ Start(lens, x) <= Len(sum) BY <1>9, <2>3, Zenon
  <2>5. Len(sum) <= Start(lens, x + 1) BY <1>9, <1>10, <2>3, Zenon
  <2>6. w.pos = lens[x] => Len(sum) = Start(lens, x + 1) BY <1>9, <1>10, Zenon
  <2> QED BY <2>4, <2>5, <2>6, Zenon
<1>12. /\ Layout(lens, <<<<>>>>, x, Len(sum)) /\ Contents(lens, <<<<>>>>, x, Len(sum))
       /\ End(lens, <<<<>>>>, x, Len(sum)) = Len(sum)
  BY <1>1, <1>7, <1>11, LayoutNew, Zenon
<1>13. ~more => x = 3 /\ Len(sum) = Start(lens, 4)
  <2> SUFFICES ASSUME ~more PROVE x = 3 /\ Len(sum) = Start(lens, 4) BY Zenon
  <2>1. w.arg = 4 /\ w.pos = lens[x] BY <1>6, Zenon
  <2>2. x = 3 /\ x + 1 = 4 BY <1>6, <2>1
  <2> QED BY <1>11, <2>1, <2>2, Zenon
<1>14. FragOK(Sent(more), a, n, x)
  <2>1. PICK f : f = Sent(more) BY Zenon
  <2>2. f.chunks = w.chunks /\ f.more = more /\ f.sum = sum /\ f.error = FALSE BY <2>1, Zenon DEF Sent
  <2>3. FragOK(f, a, n, x) BY <1>4, <1>8, <1>9, <1>13, <2>2, Zenon DEF FragOK
  <2> QED BY <2>1, <2>3, Zenon
<1> QED BY <1>7, <1>12, <1>14, Zenon

\* Sending keeps the chain.
LEMMA SendKeeps ==
    ASSUME FragInv, Live, isWritingArgument, NEW more \in BOOLEAN, ~more => w.arg = 4 /\ w.pos = lens[w.arg - 1],
           net' = Append(net, Sent(more)), lens' = lens, UNCHANGED rVars, damaged' = damaged,
           "w" \in failed => "w" \in failed',
           Live' => w'.chunks = <<<<>>>> /\ w'.state # "start" /\ w'.arg = w.arg /\ sum' = sum
    PROVE  ChainOK' /\ net' \in Seq(Fragment)
<1>1. w \in Writer /\ sum \in Seq(Bytes) /\ net \in Seq(Fragment) BY Zenon DEF FragInv, FragTypeOK
<1>2. w.chunks \in Seq(Seq(Bytes)) BY <1>1, Zenon DEF Writer
<1>3. PICK f \in Fragment : f = Sent(more) BY <1>1, <1>2, Zenon DEF Sent, Fragment
<1>4. net' = Append(net, f) /\ f.sum = sum BY <1>3, Zenon DEF Sent
<1>5. net' \in Seq(Fragment)
  <2>1. Append(net, f) \in Seq(Fragment) BY <1>1, AppendIs, Zenon
  <2> QED BY <1>4, <2>1, Zenon
<1>6. r' = r /\ rsum' = rsum /\ out' = out BY Zenon DEF rVars
<1>7. \A a \in Args : \A n \in Nat : (Live => Writing(a, n)) =>
         \E x \in Args : FragOK(f, a, n, x)' /\ (Live' => Writing(x, Len(f.sum))')
  <2> SUFFICES ASSUME NEW a \in Args, NEW n \in Nat, Writing(a, n)
               PROVE  \E x \in Args : FragOK(f, a, n, x)' /\ (Live' => Writing(x, Len(f.sum))')
    BY Zenon
  <2>1. PICK x \in Args :
             /\ FragOK(Sent(more), a, n, x) /\ w.arg = x + 1
             /\ Layout(lens, <<<<>>>>, x, Len(sum)) /\ Contents(lens, <<<<>>>>, x, Len(sum))
             /\ End(lens, <<<<>>>>, x, Len(sum)) = Len(sum)
    BY Sending, Zenon
  <2>2. FragOK(f, a, n, x)' BY <1>3, <2>1, FragSame, Zenon
  <2>3. PICK m : m = Len(f.sum) BY Zenon
  <2>4. m = Len(sum) BY <1>4, <2>3, Zenon
  <2>5. Live' => Writing(x, m)' BY <2>1, <2>4, OneChunk, Zenon DEF Writing
  <2> QED BY <2>2, <2>3, <2>5, Zenon
<1>8. ChainOK' BY <1>4, <1>6, <1>7, ChainSends, Zenon
<1> QED BY <1>5, <1>8, Zenon

\* A writer that sends, in Flush or at the end of an argument
LEMMA SentKeeps ==
    ASSUME FragInv, ~w.err, isWritingArgument, NEW more \in BOOLEAN, Send(more),
           ~more => w.arg = 4 /\ w.pos = lens[w.arg - 1],
           sum' = sum, lens' = lens, UNCHANGED rVars, damaged' = damaged, "w" \in failed => "w" \in failed',
           w' \in Writer, w'.arg = w.arg, WriterOK', SumOK',
           Live' => w'.chunks = <<<<>>>> /\ w'.state # "start"
    PROVE  FragInv'
<1>1. Live /\ net' = Append(net, Sent(more)) BY Zenon DEF Send, Sent, Live
<1>2. ChainOK' /\ net' \in Seq(Fragment) BY <1>1, SendKeeps, Zenon
<1>3. sum' \in Seq(Bytes) BY Zenon DEF FragInv, FragTypeOK
<1> QED BY <1>2, <1>3, WriterStep, Zenon

\* What a writer in an argument is like
LEMMA InArgument ==
    ASSUME FragInv, isWritingArgument
    PROVE  /\ w.arg \in 1..4 /\ w.pos \in Nat /\ w.buf \in Nat /\ w.arg > 1 /\ 1 <= w.arg - 1 /\ 0 <= w.arg - 1
           /\ Room - 2 > 2 /\ Room - 2 >= 0 /\ ~(0 > 0)
           /\ Live => /\ w.state = "in" => w.arg < 4
                      /\ w.pos = lens[w.arg - 1] => Len(sum) = Start(lens, w.arg)
<1>1. w \in Writer /\ lens \in [Args -> Nat] /\ WriterOK /\ SumOK BY Zenon DEF FragInv, FragTypeOK
<1>2. w.arg \in 1..4 /\ w.pos \in Nat /\ w.buf \in Nat BY <1>1, Zenon DEF Writer
<1>3. w.arg > 1 BY <1>1, Zenon DEF WriterOK, isWritingArgument
<1>4. 1 <= w.arg - 1 /\ 0 <= w.arg - 1 /\ w.arg - 1 \in Args /\ (w.arg - 1) + 1 = w.arg BY <1>2, <1>3 DEF Args
<1>5. Room - 2 > 2 /\ Room - 2 >= 0 /\ ~(0 > 0) BY FragmentsAssumption DEF Header
<1>6. Start(lens, (w.arg - 1) + 1) = Start(lens, w.arg - 1) + lens[w.arg - 1] BY <1>1, <1>4, Starts, Zenon
<1>7. Live => Len(sum) = Start(lens, w.arg - 1) + w.pos /\ (w.state = "in" => w.arg < 4) BY <1>1, Zenon DEF SumOK
<1> QED BY <1>2, <1>3, <1>4, <1>5, <1>6, <1>7, Zenon

\* Flush sends the fragment and starts a new one.
LEMMA FlushKeeps == ASSUME FragInv, Flush PROVE FragInv'
<1>1. ~w.err /\ isWritingArgument /\ (w.flush \/ w.buf = 0) /\ UNCHANGED <<lens, rVars, failed, damaged>> BY Zenon DEF Flush
<1>2. CASE WFail BY <1>1, <1>2, WFailKeeps, Zenon
<1>3. CASE ~WFail
  <2>1. Send(TRUE) /\ w' = [w EXCEPT !.chunks = <<<<>>>>, !.flush = FALSE] /\ sum' = sum BY <1>3, Zenon DEF Flush
  <2>2. w \in Writer /\ WriterOK /\ SumOK BY Zenon DEF FragInv, FragTypeOK
  <2>3. Used(<<<<>>>>) = 2 /\ <<<<>>>> \in Seq(Seq(Bytes)) /\ Len(<<<<>>>>) = 1 /\ 1 > 0 BY UsedNew
  <2>4. w' \in Writer BY <2>1, <2>2, <2>3, Zenon DEF Writer
  <2>5. /\ w'.arg = w.arg /\ w'.state = w.state /\ w'.chunks = <<<<>>>> /\ w'.pos = w.pos /\ w'.buf = w.buf
        /\ ~w'.flush /\ w'.err = w.err
    BY <2>1, <2>2, Zenon DEF Writer
  <2>6. w.state \in {"in", "inLast"} BY <1>1, Zenon DEF isWritingArgument
  <2>7. WriterOK'
    <3>1. BytesRemaining' >= 0 BY <1>1, <2>3, <2>5, InArgument, Zenon DEF BytesRemaining
    <3>2. Len(w'.chunks) <= w'.arg - 1 /\ Len(w'.chunks) > 0 /\ w'.arg > 1 BY <1>1, <2>3, <2>5, InArgument, Zenon
    <3> QED BY <1>1, <2>2, <2>5, <2>6, <3>1, <3>2, Zenon DEF WriterOK, isWritingArgument
  <2>8. Live' => Live BY <1>1, <2>5, Zenon DEF Live
  <2>9. SumOK' BY <1>1, <2>1, <2>2, <2>5, <2>8, Zenon DEF SumOK, isWritingArgument
  <2>10. w'.state # "start" BY <2>5, <2>6, Zenon
  <2> QED BY <1>1, <2>1, <2>4, <2>5, <2>7, <2>9, <2>10, SentKeeps, Zenon
<1> QED BY <1>2, <1>3, Zenon

\* Arithmetic
LEMMA Zero == 0 \in Nat
OBVIOUS

\* Close of an argument whose fragment has room for the next one
LEMMA CloseInPlaceKeeps ==
    ASSUME FragInv, ~w.err, isWritingArgument, w.buf = 0, ~w.flush, w.pos = lens[w.arg - 1], w.state # "inLast", ~Full,
           w' = [w EXCEPT !.state = "waiting", !.pos = 0], UNCHANGED <<sum, net, failed, lens, rVars, damaged>>
    PROVE  FragInv'
<1>1. w \in Writer /\ sum \in Seq(Bytes) /\ net \in Seq(Fragment) /\ WriterOK /\ SumOK BY Zenon DEF FragInv, FragTypeOK
<1>2. w' \in Writer BY <1>1, Zero, Zenon DEF Writer, States
<1>3. /\ w'.arg = w.arg /\ w'.state = "waiting" /\ w'.chunks = w.chunks /\ w'.pos = 0 /\ w'.buf = w.buf
      /\ w'.flush = w.flush /\ w'.err = w.err
  BY <1>1, Zenon DEF Writer
<1>4. w.state = "in" BY Zenon DEF isWritingArgument
<1>5. BytesRemaining > Header /\ BytesRemaining' = BytesRemaining
  <2>1. BytesRemaining \in Int
    <3>1. Len(w.chunks) <= w.arg - 1 /\ w.arg \in 1..4 /\ w.chunks \in Seq(Seq(Bytes))
      BY <1>1, Zenon DEF WriterOK, Writer
    <3>2. Len(w.chunks) \in Nat BY <3>1, LenNat, Zenon
    <3>3. \A c \in Nat : \A a \in 1..4 : c <= a - 1 => c <= 3 BY SMT
    <3>4. Used(w.chunks) \in Nat BY <3>1, <3>2, <3>3, UsedNat, Zenon
    <3> QED BY <3>4, FragmentsAssumption DEF BytesRemaining
  <2>2. BytesRemaining > Header BY <2>1 DEF Full, Header
  <2>3. BytesRemaining' = BytesRemaining BY <1>3, Zenon DEF BytesRemaining
  <2> QED BY <2>2, <2>3, Zenon
<1>6. WriterOK'
  <2>1. ~(w'.buf > 0) BY <1>3, InArgument, Zenon
  <2> QED BY <1>1, <1>3, <1>4, <1>5, <2>1, Zenon DEF WriterOK, isWritingArgument
<1>7. Live' => Live BY <1>3, Zenon DEF Live
<1>8. Live => w.arg < 4 /\ Len(sum) = Start(lens, w.arg) BY <1>4, InArgument, Zenon
<1>9. SumOK' BY <1>1, <1>3, <1>7, <1>8, Zenon DEF SumOK, isWritingArgument
<1>10. \A a, n : Writing(a, n) => Writing(a, n)' BY <1>3, <1>4, Zenon DEF Writing
<1>11. ChainOK'
  <2>1. r' = r /\ rsum' = rsum /\ out' = out BY Zenon DEF rVars
  <2> QED BY <1>7, <1>10, <2>1, ChainWrites, Zenon
<1> QED BY <1>1, <1>2, <1>6, <1>9, <1>11, WriterStep, Zenon

\* Close of an argument that sends the fragment
LEMMA CloseSendsKeeps ==
    ASSUME FragInv, ~w.err, isWritingArgument, w.buf = 0, ~w.flush, w.pos = lens[w.arg - 1],
           NEW last, last = (w.state = "inLast"), Send(~last),
           w' = [w EXCEPT !.state = IF last THEN "complete" ELSE "waiting",
                          !.chunks = IF last THEN <<>> ELSE EndOfArgument, !.pos = 0],
           sum' = sum, failed' = IF last THEN failed \cup {"w"} ELSE failed, UNCHANGED <<lens, rVars, damaged>>
    PROVE  FragInv'
<1>1. w \in Writer /\ WriterOK /\ SumOK BY Zenon DEF FragInv, FragTypeOK
<1>2. /\ Used(<<<<>>>>) = 2 /\ <<<<>>>> \in Seq(Seq(Bytes)) /\ Len(<<<<>>>>) = 1 /\ 1 > 0
      /\ <<>> \in Seq(Seq(Bytes)) /\ Len(<<>>) = 0
  BY UsedNew
<1>3. w'.arg = w.arg /\ w'.pos = 0 /\ w'.buf = w.buf /\ ~w'.flush /\ w'.err = w.err
      /\ w'.state = (IF last THEN "complete" ELSE "waiting") /\ w'.chunks = IF last THEN <<>> ELSE <<<<>>>>
  BY <1>1, Zenon DEF Writer, EndOfArgument
<1>4. w' \in Writer
  <2>1. (IF last THEN "complete" ELSE "waiting") \in States /\ (IF last THEN <<>> ELSE EndOfArgument) \in Seq(Seq(Bytes))
    BY <1>2, Zenon DEF States, EndOfArgument
  <2> QED BY <1>1, <2>1, Zero, Zenon DEF Writer
<1>5. w.state = "inLast" => w.arg = 4 BY <1>1, Zenon DEF WriterOK
<1>6. ~(w'.buf > 0) /\ w.arg > 1 /\ 1 <= w.arg - 1 /\ 0 <= w.arg - 1 BY <1>3, InArgument, Zenon
<1>7. "w" \in failed => "w" \in failed' BY Zenon
<1>8. CASE last
  <2>1. ~Live' BY <1>8, Zenon DEF Live
  <2>2. SumOK' BY <2>1, Zenon DEF SumOK
  <2>a. w'.chunks = <<>> /\ w'.state = "complete" BY <1>3, <1>8, Zenon
  <2>b. Len(w'.chunks) <= w'.arg - 1 /\ w'.arg = 4 BY <1>2, <1>3, <1>5, <1>6, <1>8, <2>a, Zenon
  <2>3. WriterOK' BY <1>3, <1>6, <2>a, <2>b, Zenon DEF WriterOK, isWritingArgument
  <2> QED BY <1>3, <1>4, <1>5, <1>7, <1>8, <2>1, <2>2, <2>3, SentKeeps, Zenon
<1>9. CASE ~last
  <2>1. w'.state = "waiting" /\ w'.chunks = <<<<>>>> /\ failed' = failed BY <1>3, <1>9, Zenon
  <2>2. w.state = "in" BY <1>9, Zenon DEF isWritingArgument
  <2>3. BytesRemaining' > Header
    <3>1. Room - 2 > 2 BY InArgument, Zenon
    <3> QED BY <1>2, <2>1, <3>1, Zenon DEF BytesRemaining, Header
  <2>4. WriterOK' BY <1>2, <1>3, <1>6, <2>1, <2>3, Zenon DEF WriterOK, isWritingArgument
  <2>5. Live' => Live BY <1>3, <2>1, Zenon DEF Live
  <2>6. Live => w.arg < 4 /\ Len(sum) = Start(lens, w.arg) BY <2>2, InArgument, Zenon
  <2>7. SumOK' BY <1>1, <1>3, <2>1, <2>5, <2>6, Zenon DEF SumOK, isWritingArgument
  <2> QED BY <1>3, <1>4, <1>7, <1>9, <2>1, <2>4, <2>7, SentKeeps, Zenon
<1> QED BY <1>8, <1>9, Zenon

\* Close of an argument writer
LEMMA CloseWriterKeeps == ASSUME FragInv, closeWriter PROVE FragInv'
<1>1. PICK last : last = (w.state = "inLast") BY Zenon
<1>2. /\ ~w.err /\ isWritingArgument /\ w.buf = 0 /\ ~w.flush /\ w.pos = lens[w.arg - 1]
      /\ UNCHANGED <<lens, rVars, damaged>>
  BY Zenon DEF closeWriter
<1>3. \/ /\ ~last /\ ~Full /\ w' = [w EXCEPT !.state = "waiting", !.pos = 0] /\ UNCHANGED <<sum, net, failed>>
      \/ /\ \/ "w" \in failed /\ WFail
            \/ /\ Send(~last) /\ sum' = sum
               /\ w' = [w EXCEPT !.state = IF last THEN "complete" ELSE "waiting",
                                 !.chunks = IF last THEN <<>> ELSE EndOfArgument, !.pos = 0]
         /\ failed' = IF last THEN failed \cup {"w"} ELSE failed
  BY <1>1, Zenon DEF closeWriter
<1>4. CASE /\ ~last /\ ~Full /\ w' = [w EXCEPT !.state = "waiting", !.pos = 0] /\ UNCHANGED <<sum, net, failed>>
  BY <1>1, <1>2, <1>4, CloseInPlaceKeeps, Zenon
<1>5. CASE WFail /\ failed' = IF last THEN failed \cup {"w"} ELSE failed
  <2>1. "w" \in failed => "w" \in failed' BY <1>5, Zenon
  <2> QED BY <1>2, <1>5, <2>1, WFailKeeps, Zenon
<1>6. CASE /\ Send(~last) /\ sum' = sum
           /\ w' = [w EXCEPT !.state = IF last THEN "complete" ELSE "waiting",
                             !.chunks = IF last THEN <<>> ELSE EndOfArgument, !.pos = 0]
           /\ failed' = IF last THEN failed \cup {"w"} ELSE failed
  BY <1>1, <1>2, <1>6, CloseSendsKeeps, Zenon
<1> QED BY <1>3, <1>4, <1>5, <1>6, Zenon

\* Write or Close with no argument open
LEMMA WriterNotOpenKeeps == ASSUME FragInv, writerNotOpen PROVE FragInv'
<1>1. WFail /\ UNCHANGED <<lens, rVars, failed, damaged>> BY Zenon DEF writerNotOpen
<1> QED BY <1>1, WFailKeeps, Zenon

\* SendSystemError ends what can be written.
LEMMA SystemErrorKeeps == ASSUME FragInv, ResponseSystemError PROVE FragInv'
<1>1. /\ ~w.err /\ w.arg # 4 /\ w.buf = 0 /\ w' = [w EXCEPT !.arg = 4] /\ failed' = failed \cup {"w"}
      /\ lens' = lens /\ sum' = sum /\ damaged' = damaged /\ UNCHANGED rVars
      /\ net' = IF Len(net) < NetCap
                THEN Append(net, [chunks |-> <<>>, more |-> FALSE, sum |-> <<>>, error |-> TRUE]) ELSE net
  BY Zenon DEF ResponseSystemError
<1>2. w \in Writer /\ sum \in Seq(Bytes) /\ net \in Seq(Fragment) /\ WriterOK /\ SumOK BY Zenon DEF FragInv, FragTypeOK
<1>3. r' = r /\ rsum' = rsum /\ out' = out BY <1>1, Zenon DEF rVars
<1>4. w' \in Writer
  <2>1. 4 \in 1..4 OBVIOUS
  <2> QED BY <1>1, <1>2, <2>1, Zenon DEF Writer
<1>5. /\ w'.arg = 4 /\ w'.state = w.state /\ w'.chunks = w.chunks /\ w'.pos = w.pos /\ w'.buf = 0
      /\ w'.flush = w.flush /\ w'.err = w.err
  BY <1>1, <1>2, Zenon DEF Writer
<1>6. WriterOK'
  <2>1. Len(w.chunks) <= 4 - 1 /\ 4 > 1 /\ ~(0 > 0)
    <3>1. Len(w.chunks) <= w.arg - 1 /\ w.arg \in 1..4 /\ w.chunks \in Seq(Seq(Bytes))
      BY <1>2, Zenon DEF WriterOK, Writer
    <3>2. Len(w.chunks) \in Nat BY <3>1, LenNat, Zenon
    <3>3. \A c \in Nat : \A a \in 1..4 : c <= a - 1 => c <= 4 - 1 BY SMT
    <3>4. 4 > 1 /\ ~(0 > 0) BY SMT
    <3> QED BY <3>1, <3>2, <3>3, <3>4, Zenon
  <2>2. BytesRemaining' = BytesRemaining BY <1>5, Zenon DEF BytesRemaining
  <2>3. ~w.flush BY <1>1, <1>2, <2>1, Zenon DEF WriterOK
  <2> QED BY <1>2, <1>5, <2>1, <2>2, <2>3, Zenon DEF WriterOK, isWritingArgument
<1>7. ~Live' BY <1>1, Zenon DEF Live
<1>8. SumOK' BY <1>7, Zenon DEF SumOK
<1>9. CASE net' = net
  <2>1. ChainOK' BY <1>1, <1>3, <1>7, <1>9, ChainWrites, Zenon
  <2> QED BY <1>1, <1>2, <1>4, <1>6, <1>8, <1>9, <2>1, WriterStep, Zenon
<1>10. CASE net' # net
  <2>1. PICK f : f = [chunks |-> <<>>, more |-> FALSE, sum |-> <<>>, error |-> TRUE] BY Zenon
  <2>2. f \in Fragment /\ f.error
    <3>1. <<>> \in Seq(Seq(Bytes)) /\ <<>> \in Seq(Bytes) OBVIOUS
    <3> QED BY <2>1, <3>1, Zenon DEF Fragment
  <2>3. net' = Append(net, f) BY <1>1, <1>10, <2>1, Zenon
  <2>4. \A a, n, x : FragOK(f, a, n, x)' BY <1>1, <2>2, Zenon DEF FragOK
  <2>5. ChainOK' BY <1>1, <1>3, <1>7, <2>2, <2>3, <2>4, ChainSends, Zenon
  <2>6. net' \in Seq(Fragment)
    <3>1. Append(net, f) \in Seq(Fragment) BY <1>2, <2>2, AppendIs, Zenon
    <3> QED BY <2>3, <3>1, Zenon
  <2> QED BY <1>1, <1>2, <1>4, <1>6, <1>8, <2>5, <2>6, WriterStep, Zenon
<1> QED BY <1>9, <1>10, Zenon

\* The exchange of a side fails.
LEMMA ExchangeFailsKeeps == ASSUME FragInv, NEW side, ExchangeFails(side) PROVE FragInv'
<1>1. /\ "w" \in failed => "w" \in failed'
      /\ w' = w /\ sum' = sum /\ net' = net /\ lens' = lens /\ damaged' = damaged /\ UNCHANGED rVars
  BY Zenon DEF ExchangeFails, wVars
<1>2. WriterOK' /\ SumOK' /\ (Live' => Live) /\ \A a, n : Writing(a, n) => Writing(a, n)' BY <1>1, WriterSame, Zenon
<1>3. r' = r /\ rsum' = rsum /\ out' = out BY <1>1, Zenon DEF rVars
<1>4. ChainOK' BY <1>1, <1>2, <1>3, ChainWrites, Zenon
<1>5. w' \in Writer /\ sum' \in Seq(Bytes) /\ net' \in Seq(Fragment) BY <1>1, Zenon DEF FragInv, FragTypeOK
<1> QED BY <1>1, <1>2, <1>4, <1>5, WriterStep, Zenon
-----------------------------------------------------------------------------
(* The reader *)

\* A step of the reader keeps the invariant if it keeps the reader's part of it.
LEMMA ReaderStep ==
    ASSUME FragInv, UNCHANGED <<lens, wVars, failed, damaged>>, ControlOK', OutOK', FetchedOK', BlameOK', ChainOK',
           r' \in Reader, rsum' \in Seq(Bytes), net' \in Seq(Fragment), out' \in [Args -> Seq(Bytes)]
    PROVE  FragInv'
<1>1. w' = w /\ sum' = sum /\ lens' = lens /\ failed' = failed /\ damaged' = damaged BY Zenon DEF wVars
<1>2. WriterOK' /\ SumOK' BY <1>1, WriterSame, Zenon
<1>3. FragTypeOK' BY <1>1, Zenon DEF FragInv, FragTypeOK
<1> QED BY <1>2, <1>3, Zenon DEF FragInv

\* The reader fails.
LEMMA RFailKeeps ==
    ASSUME FragInv, r.err = "", NEW e \in {"mex", "order", "checksum"}, RFail(e), e = "checksum" => damaged,
           UNCHANGED <<lens, wVars, failed, damaged>>, net' \in Seq(Fragment)
    PROVE  FragInv'
<1>1. r \in Reader /\ rsum \in Seq(Bytes) /\ out \in [Args -> Seq(Bytes)] /\ ControlOK /\ OutOK /\ FetchedOK
  BY Zenon DEF FragInv, FragTypeOK
<1>2. r' = [r EXCEPT !.err = e, !.pc = "idle"] /\ rsum' = rsum /\ out' = out /\ lens' = lens BY Zenon DEF RFail
<1>3. r' \in Reader BY <1>1, <1>2, Zenon DEF Reader
<1>4. /\ r'.arg = r.arg /\ r'.state = r.state /\ r'.err = e /\ r'.cur = r.cur /\ r'.rest = r.rest /\ r'.more = r.more
      /\ r'.pc = "idle" /\ r'.eof = r.eof /\ r'.done = r.done
  BY <1>1, <1>2, Zenon DEF Reader
<1>5. e # "" /\ e # "peer" BY Zenon
<1>6. isReadingArgument' = isReadingArgument BY <1>4, Zenon DEF isReadingArgument
<1>7. ControlOK' BY <1>1, <1>4, <1>5, <1>6, Zenon DEF ControlOK
<1>8. OutOK' BY <1>1, <1>2, <1>4, <1>6, Zenon DEF OutOK
<1>9. ReadArg' = ReadArg /\ Fetched' = Fetched /\ NextArg' = NextArg BY <1>4, Zenon DEF ReadArg, Fetched, NextArg
<1>10. FetchedAt' = FetchedAt BY <1>2, <1>9, Zenon DEF FetchedAt
<1>11. FetchedOK' BY <1>1, <1>2, <1>4, <1>9, <1>10, Zenon DEF FetchedOK
<1>12. BlameOK' BY <1>4, Zenon DEF BlameOK
<1>13. ChainOK' BY <1>4, <1>5, Zenon DEF ChainOK
<1> QED BY <1>1, <1>2, <1>3, <1>7, <1>8, <1>11, <1>12, <1>13, ReaderStep, Zenon

\* An error frame ends the call.
LEMMA ErrorFrameKeeps ==
    ASSUME FragInv, r.pc # "idle", ErrorFrame, UNCHANGED <<lens, wVars, failed, damaged>>, net' \in Seq(Fragment)
    PROVE  FragInv'
<1>1. r \in Reader /\ rsum \in Seq(Bytes) /\ out \in [Args -> Seq(Bytes)] /\ ControlOK /\ OutOK /\ FetchedOK
  BY Zenon DEF FragInv, FragTypeOK
<1>2. r' = [r EXCEPT !.err = "peer", !.pc = "idle", !.done = @ + 1] /\ rsum' = rsum /\ out' = out /\ lens' = lens
  BY Zenon DEF ErrorFrame
<1>a. r.state # "complete" /\ r.err = ""
  <2>1. r.pc \in {"begin", "read", "recv"} BY <1>1, Zenon DEF Reader
  <2> QED BY <1>1, <2>1, Zenon DEF ControlOK, isReadingArgument
<1>b. r.done = 0 BY <1>1, <1>a, Zenon DEF ControlOK
<1>c. 0 + 1 = 1 /\ 1 \in Nat OBVIOUS
<1>3. r' \in Reader BY <1>1, <1>2, <1>b, <1>c, Zenon DEF Reader
<1>4. /\ r'.arg = r.arg /\ r'.state = r.state /\ r'.err = "peer" /\ r'.cur = r.cur /\ r'.rest = r.rest /\ r'.more = r.more
      /\ r'.pc = "idle" /\ r'.eof = r.eof /\ r'.done = 1
  BY <1>1, <1>2, <1>b, <1>c, Zenon DEF Reader
<1>6. isReadingArgument' = isReadingArgument BY <1>4, Zenon DEF isReadingArgument
<1>7. ControlOK' BY <1>1, <1>4, <1>6, Zenon DEF ControlOK
<1>8. OutOK' BY <1>1, <1>2, <1>4, <1>6, Zenon DEF OutOK
<1>9. ReadArg' = ReadArg /\ Fetched' = Fetched /\ NextArg' = NextArg BY <1>4, Zenon DEF ReadArg, Fetched, NextArg
<1>10. FetchedAt' = FetchedAt BY <1>2, <1>9, Zenon DEF FetchedAt
<1>11. FetchedOK' BY <1>1, <1>2, <1>4, <1>9, <1>10, Zenon DEF FetchedOK
<1>12. BlameOK' BY <1>4, Zenon DEF BlameOK
<1>13. ChainOK' BY <1>4, Zenon DEF ChainOK
<1> QED BY <1>1, <1>2, <1>3, <1>7, <1>8, <1>11, <1>12, <1>13, ReaderStep, Zenon

\* The first argument waits for a fragment.
LEMMA WaitKeeps ==
    ASSUME FragInv, r.err = "", r.state = "start", r' = [r EXCEPT !.pc = "begin"],
           UNCHANGED <<rsum, out, lens, wVars, net, failed, damaged>>
    PROVE  FragInv'
<1>1. /\ r \in Reader /\ rsum \in Seq(Bytes) /\ net \in Seq(Fragment) /\ out \in [Args -> Seq(Bytes)]
      /\ ControlOK /\ OutOK /\ FetchedOK
  BY Zenon DEF FragInv, FragTypeOK
<1>2. rsum' = rsum /\ out' = out /\ lens' = lens /\ net' = net /\ w' = w /\ sum' = sum /\ failed' = failed
      /\ damaged' = damaged
  BY Zenon DEF wVars
<1>3. r' \in Reader BY <1>1, Zenon DEF Reader
<1>4. /\ r'.arg = r.arg /\ r'.state = r.state /\ r'.err = r.err /\ r'.cur = r.cur /\ r'.rest = r.rest /\ r'.more = r.more
      /\ r'.pc = "begin" /\ r'.eof = r.eof /\ r'.done = r.done
  BY <1>1, Zenon DEF Reader
<1>6. isReadingArgument' = isReadingArgument BY <1>4, Zenon DEF isReadingArgument
<1>7. ControlOK' BY <1>1, <1>4, <1>6, Zenon DEF ControlOK
<1>8. OutOK' BY <1>1, <1>2, <1>4, <1>6, Zenon DEF OutOK
<1>9. ReadArg' = ReadArg /\ Fetched' = Fetched /\ NextArg' = NextArg
  <2>a. r.state # "waiting" /\ r'.state # "waiting" BY <1>4, Zenon
  <2>b. ReadArg' = r'.arg - 1 /\ ReadArg = r.arg - 1 BY <2>a, Zenon DEF ReadArg
  <2>1. ReadArg' = ReadArg BY <1>4, <2>b, Zenon
  <2>2. Fetched' = Fetched BY <1>4, Zenon DEF Fetched
  <2>3. NextArg' = NextArg BY <1>4, <2>1, Zenon DEF NextArg
  <2> QED BY <2>1, <2>2, <2>3, Zenon
<1>10. FetchedAt' = FetchedAt BY <1>2, <1>9, Zenon DEF FetchedAt
<1>11. FetchedOK' BY <1>1, <1>2, <1>4, <1>9, <1>10, Zenon DEF FetchedOK
<1>12. BlameOK' BY <1>4, Zenon DEF BlameOK
<1>13. ChainOK' BY <1>2, <1>4, <1>9, ChainReads, Zenon
<1> QED BY <1>1, <1>2, <1>3, <1>7, <1>8, <1>11, <1>12, <1>13, ReaderStep, Zenon

\* Arithmetic of arguments
LEMMA NextArgument ==
    /\ \A k \in {2, 3} :
         /\ k + 1 \in 1..4 /\ (k + 1) - 1 = k /\ k + 1 # 1 /\ (k # 3 => k + 1 \in {2, 3}) /\ (k = 3 => k + 1 = 4)
         /\ \A j \in Args : j >= k + 1 => j >= k
    /\ \A j \in Args : j # 4
BY SMT DEF Args

\* BeginArgument of the reader, with the chunk of argument i at hand
LEMMA BeginReadingKeeps ==
    ASSUME FragInv, NEW i \in Args, r.arg = i, r.err = "", r.pc = "idle", ~isReadingArgument, r.state # "start",
           r' = [r EXCEPT !.arg = i + 1, !.state = Begun(i), !.eof = FALSE],
           UNCHANGED <<rsum, out, lens, wVars, net, failed, damaged>>
    PROVE  FragInv'
<1>1. /\ r \in Reader /\ rsum \in Seq(Bytes) /\ net \in Seq(Fragment) /\ out \in [Args -> Seq(Bytes)]
      /\ ControlOK /\ OutOK /\ FetchedOK
  BY Zenon DEF FragInv, FragTypeOK
<1>2. rsum' = rsum /\ out' = out /\ lens' = lens /\ net' = net /\ w' = w /\ sum' = sum /\ failed' = failed
      /\ damaged' = damaged
  BY Zenon DEF wVars
<1>3. r.state = "waiting" /\ i \in {2, 3}
  <2>1. i # 4 /\ r.state \in States BY <1>1, NextArgument, Zenon DEF Reader
  <2>2. r.state # "complete" BY <1>1, <2>1, Zenon DEF ControlOK
  <2>3. r.state = "waiting" BY <2>1, <2>2, Zenon DEF States, isReadingArgument
  <2> QED BY <1>1, <2>3, Zenon DEF ControlOK
<1>a. /\ i + 1 \in 1..4 /\ (i + 1) - 1 = i /\ i + 1 # 1 /\ (i # 3 => i + 1 \in {2, 3}) /\ (i = 3 => i + 1 = 4)
      /\ \A j \in Args : j >= i + 1 => j >= i
  BY <1>3, NextArgument, Zenon
<1>b. Begun(i) \in States /\ (i = 3 => Begun(i) = "inLast") /\ (i # 3 => Begun(i) = "in") BY Zenon DEF Begun, States
<1>c. r' \in Reader BY <1>1, <1>a, <1>b, Zenon DEF Reader
<1>4. /\ r'.arg = i + 1 /\ r'.state = Begun(i) /\ r'.err = r.err /\ r'.cur = r.cur /\ r'.rest = r.rest /\ r'.more = r.more
      /\ r'.pc = r.pc /\ ~r'.eof /\ r'.done = r.done
  BY <1>1, Zenon DEF Reader
<1>5. (r'.state = "in" /\ i # 3) \/ (r'.state = "inLast" /\ i = 3) BY <1>4, <1>b, Zenon
<1>6. isReadingArgument' BY <1>5, Zenon DEF isReadingArgument
<1>7. ControlOK'
  <2>1. r.done = 0 BY <1>1, <1>3, Zenon DEF ControlOK
  <2> QED BY <1>4, <1>5, <1>6, <1>a, <2>1, Zenon DEF ControlOK
<1>8. OutOK'
  <2> SUFFICES ASSUME NEW j \in Args
               PROVE  (/\ At(lens, out[j], Start(lens, j)) /\ Len(out[j]) <= lens[j]
                       /\ (j < r.arg - 1 \/ (j < r.arg /\ ~isReadingArgument)) => Len(out[j]) = lens[j]
                       /\ j >= r.arg => out[j] = <<>>)'
    BY Zenon DEF OutOK
  <2>1. /\ At(lens, out[j], Start(lens, j)) /\ Len(out[j]) <= lens[j]
        /\ j < i => Len(out[j]) = lens[j]
        /\ j >= i => out[j] = <<>>
    BY <1>1, Zenon DEF OutOK
  <2> QED BY <1>2, <1>4, <1>6, <1>a, <2>1, Zenon
<1>9. ReadArg' = ReadArg /\ Fetched' = Fetched /\ NextArg' = NextArg
  <2>1. ReadArg' = i /\ ReadArg = i BY <1>3, <1>4, <1>5, <1>a, Zenon DEF ReadArg
  <2>2. Fetched' = Fetched BY <1>4, Zenon DEF Fetched
  <2>3. r.state # "start" /\ r'.state # "start" BY <1>3, <1>5, Zenon
  <2>4. NextArg' = ReadArg' + Len(r'.rest) /\ NextArg = ReadArg + Len(r.rest) BY <2>3, Zenon DEF NextArg
  <2> QED BY <1>4, <2>1, <2>2, <2>4, Zenon
<1>10. FetchedAt' = FetchedAt BY <1>2, <1>9, Zenon DEF FetchedAt
<1>11. FetchedOK' BY <1>1, <1>2, <1>3, <1>4, <1>5, <1>9, <1>10, Zenon DEF FetchedOK
<1>12. BlameOK' BY <1>4, Zenon DEF BlameOK
<1>13. ChainOK' BY <1>2, <1>3, <1>4, <1>9, ChainReads, Zenon
<1> QED BY <1>1, <1>2, <1>c, <1>7, <1>8, <1>11, <1>12, <1>13, ReaderStep, Zenon

\* argReader, in turn or not
LEMMA ArgReaderKeeps == ASSUME FragInv, NEW i \in Args, argReader(i) PROVE FragInv'
<1>1. r.err = "" /\ r.pc = "idle" /\ UNCHANGED <<lens, wVars, net, failed, damaged>> BY Zenon DEF argReader
<1>2. CASE RFail("order")
  <2>1. net' \in Seq(Fragment) BY <1>1, Zenon DEF FragInv, FragTypeOK
  <2> QED BY <1>1, <1>2, <2>1, RFailKeeps, Zenon
<1>3. CASE ~RFail("order")
  <2>1. r.arg = i /\ BeginReading(i) BY <1>3, Zenon DEF argReader
  <2>2. /\ ~isReadingArgument /\ UNCHANGED <<rsum, out>>
        /\ r' = IF r.state = "start" THEN [r EXCEPT !.pc = "begin"]
                ELSE [r EXCEPT !.arg = i + 1, !.state = Begun(i), !.eof = FALSE]
    BY <1>3, <2>1, Zenon DEF BeginReading
  <2>3. CASE r.state = "start" BY <1>1, <2>2, <2>3, WaitKeeps, Zenon
  <2>4. CASE r.state # "start" BY <1>1, <2>1, <2>2, <2>4, BeginReadingKeeps, Zenon
  <2> QED BY <2>3, <2>4, Zenon
<1> QED BY <1>2, <1>3, Zenon

\* Read or Close with no argument open
LEMMA ReaderNotOpenKeeps == ASSUME FragInv, readerNotOpen PROVE FragInv'
<1>1. r.err = "" /\ RFail("order") /\ UNCHANGED <<lens, wVars, net, failed, damaged>> BY Zenon DEF readerNotOpen
<1>2. net' \in Seq(Fragment) BY <1>1, Zenon DEF FragInv, FragTypeOK
<1> QED BY <1>1, <1>2, RFailKeeps, Zenon

\* The first fragment of net
LEMMA NotEmpty == ASSUME NEW s \in Seq(Fragment), s # <<>> PROVE 1 \in 1..Len(s)
OBVIOUS

\* Arithmetic of lengths
LEMMA LenZero == Len(<<>>) = 0 /\ ~(0 > 0) /\ \A n \in 1..3 : n > 0
OBVIOUS

\* The fragment that arrives next: where it is cut, and what its checksum tells
LEMMA Arriving ==
    ASSUME FragInv, r.err = "", r.state # "complete", net # <<>>, ~net[1].error
    PROVE  LET f == net[1]
               s == rsum \o Joined(f.chunks) IN
           /\ f \in Fragment /\ f.chunks \in Seq(Seq(Bytes)) /\ Len(f.chunks) > 0 /\ f.chunks # <<>>
           /\ f.sum # s => damaged
           /\ f.sum = s => /\ Layout(lens, f.chunks, NextArg, Len(rsum)) /\ Contents(lens, f.chunks, NextArg, Len(rsum))
                           /\ End(lens, f.chunks, NextArg, Len(rsum)) = Len(f.sum)
                           /\ At(lens, f.sum, 0) /\ f.sum \in Seq(Bytes)
                           /\ ~f.more => NextArg + Len(f.chunks) - 1 = 3 /\ Len(f.sum) = Start(lens, 4)
                           /\ \E A \in [1..Len(net) + 1 -> Args] : Chain(A) /\ A[2] = NextArg + Len(f.chunks) - 1
<1>1. lens \in [Args -> Nat] /\ net \in Seq(Fragment) /\ rsum \in Seq(Bytes) /\ FetchedOK
  BY Zenon DEF FragInv, FragTypeOK
<1>2. PICK f : f = net[1] BY Zenon
<1>3. f \in Fragment /\ 1 \in 1..Len(net)
  <2>1. 1 \in 1..Len(net) BY <1>1, NotEmpty, Zenon
  <2> QED BY <1>1, <1>2, <2>1, ElementIs, Zenon
<1>4. f.chunks \in Seq(Seq(Bytes)) /\ f.sum \in Seq(Bytes) /\ ~f.error BY <1>2, <1>3, Zenon DEF Fragment
<1>5. PICK A \in [1..Len(net) + 1 -> Args] : Chain(A) BY Zenon DEF FragInv, ChainOK
<1>6. FragOK(f, NextArg, Len(rsum), A[2])
  <2>1. FragOK(net[1], A[1], Before(1), A[1 + 1]) BY <1>3, <1>5, Zenon DEF Chain
  <2>2. A[1] = NextArg BY <1>5, Zenon DEF Chain
  <2>3. Before(1) = Len(rsum) BY Zenon DEF Before
  <2> QED BY <1>2, <2>1, <2>2, <2>3, Shifting, Zenon
<1>7. /\ Layout(lens, f.chunks, NextArg, Len(rsum)) /\ End(lens, f.chunks, NextArg, Len(rsum)) = Len(f.sum)
      /\ At(lens, f.sum, 0) /\ (damaged \/ Contents(lens, f.chunks, NextArg, Len(rsum)))
      /\ A[2] = NextArg + Len(f.chunks) - 1
      /\ ~f.more => A[2] = 3 /\ Len(f.sum) = Start(lens, 4)
  BY <1>4, <1>6, Zenon DEF FragOK
<1>8. Len(f.chunks) > 0 /\ f.chunks # <<>>
  <2>1. Len(f.chunks) \in 1..3 BY <1>7, Zenon DEF Layout
  <2>2. Len(f.chunks) > 0 BY <2>1, LenZero, Zenon
  <2> QED BY <2>2, LenZero, Zenon
<1>9. f.sum = rsum \o Joined(f.chunks) <=> Contents(lens, f.chunks, NextArg, Len(rsum))
  <2>1. At(lens, rsum, 0) BY <1>1, Zenon DEF FetchedOK
  <2>a. PICK a : a = NextArg BY Zenon
  <2>2. PICK cs \in Seq(Seq(Bytes)), t \in Seq(Bytes) : cs = f.chunks /\ t = f.sum BY <1>4, Zenon
  <2>3. Layout(lens, cs, a, Len(rsum)) /\ End(lens, cs, a, Len(rsum)) = Len(t) /\ At(lens, t, 0) BY <1>7, <2>a, <2>2, Zenon
  <2>4. t = rsum \o Joined(cs) <=> Contents(lens, cs, a, Len(rsum)) BY <1>1, <2>1, <2>3, ChecksumTells, Zenon
  <2> QED BY <2>a, <2>2, <2>4, Zenon
<1>10. f.sum # rsum \o Joined(f.chunks) => damaged BY <1>7, <1>9, Zenon
<1> QED BY <1>2, <1>3, <1>4, <1>5, <1>7, <1>8, <1>9, <1>10, Zenon

\* The reader fails or is told of an error while it waits for a fragment, or has one that is right.
LEMMA ReceiveKeeps ==
    ASSUME FragInv, r.pc # "idle", NEW next, recvAndParseNextFragment(next), UNCHANGED <<lens, wVars, failed, damaged>>,
           /\ net # <<>> /\ net' = Tail(net) /\ net' \in Seq(Fragment) /\ out' = out /\ rsum' = net[1].sum
           /\ r' = [next EXCEPT !.cur = Head(net[1].chunks), !.rest = Tail(net[1].chunks), !.more = net[1].more]
           /\ ~net[1].error /\ net[1].sum = rsum \o Joined(net[1].chunks)
           => FragInv'
    PROVE  FragInv'
<1>1. net \in Seq(Fragment) /\ r \in Reader /\ ControlOK BY Zenon DEF FragInv, FragTypeOK
<1>2. r.err = "" /\ r.state # "complete"
  <2>1. r.pc \in {"begin", "read", "recv"} BY <1>1, Zenon DEF Reader
  <2> QED BY <1>1, <2>1, Zenon DEF ControlOK, isReadingArgument
<1>3. CASE "r" \in failed /\ RFail("mex") /\ UNCHANGED net
  <2>1. net' \in Seq(Fragment) BY <1>1, <1>3, Zenon
  <2> QED BY <1>2, <1>3, <2>1, RFailKeeps, Zenon
<1>4. CASE ~("r" \in failed /\ RFail("mex") /\ UNCHANGED net)
  <2>1. /\ net # <<>> /\ net' = Tail(net)
        /\ LET f == Head(net)
               s == rsum \o Joined(f.chunks) IN
           IF f.error THEN ErrorFrame
           ELSE IF f.sum # s THEN RFail("checksum")
           ELSE IF f.chunks = <<>> THEN RFail("empty")
           ELSE rsum' = s /\ Chunks(f, next)
    BY <1>4, Zenon DEF recvAndParseNextFragment, recvNextFragment
  <2>2. net' \in Seq(Fragment) /\ Head(net) = net[1]
    <3>1. Tail(net) \in Seq(Fragment) /\ Head(net) = net[1] BY <1>1, <2>1, TailIs, Zenon
    <3> QED BY <2>1, <3>1, Zenon
  <2>3. PICK f : f = net[1] BY Zenon
  <2>4. IF f.error THEN ErrorFrame
        ELSE IF f.sum # rsum \o Joined(f.chunks) THEN RFail("checksum")
        ELSE IF f.chunks = <<>> THEN RFail("empty")
        ELSE rsum' = rsum \o Joined(f.chunks) /\ Chunks(f, next)
    BY <2>1, <2>2, <2>3, Zenon
  <2>5. CASE f.error BY <2>2, <2>4, <2>5, ErrorFrameKeeps, Zenon
  <2>6. CASE ~f.error
    <3>1. f.chunks # <<>> /\ (f.sum # rsum \o Joined(f.chunks) => damaged)
      BY <1>2, <2>1, <2>3, <2>6, Arriving, Zenon
    <3>2. CASE f.sum # rsum \o Joined(f.chunks)
      <4>1. RFail("checksum") /\ damaged BY <2>4, <2>6, <3>1, <3>2, Zenon
      <4> QED BY <1>2, <2>2, <4>1, RFailKeeps, Zenon
    <3>3. CASE f.sum = rsum \o Joined(f.chunks)
      <4>1. rsum' = f.sum /\ Chunks(f, next) BY <2>4, <2>6, <3>1, <3>3, Zenon
      <4>2. r' = [next EXCEPT !.cur = Head(f.chunks), !.rest = Tail(f.chunks), !.more = f.more] /\ out' = out
        BY <4>1, Zenon DEF Chunks
      <4> QED BY <2>1, <2>2, <2>3, <2>6, <3>3, <4>1, <4>2, Zenon
    <3> QED BY <3>2, <3>3, Zenon
  <2> QED BY <2>5, <2>6, Zenon
<1> QED BY <1>3, <1>4, Zenon

\* Arithmetic of the first argument
LEMMA Twos ==
    /\ 2 \in 1..4 /\ 1 \in Args /\ 2 # 1 /\ 2 - 1 = 1 /\ 0 + 0 = 0 /\ 1 >= 1
    /\ \A j \in Args : j >= 1 /\ ~(j < 2 - 1)
BY SMT DEF Args

\* The chunks of the fragment that arrived, as the reader keeps them
LEMMA Arrived ==
    ASSUME FragInv, r.err = "", r.state # "complete", net # <<>>, ~net[1].error,
           net[1].sum = rsum \o Joined(net[1].chunks), NEW a, a = NextArg, NEW o, o = Len(rsum)
    PROVE  LET f == net[1]
               cs == <<Head(f.chunks)>> \o Tail(f.chunks) IN
           /\ Head(f.chunks) \in Seq(Bytes) /\ Tail(f.chunks) \in Seq(Seq(Bytes)) /\ f.more \in BOOLEAN
           /\ Layout(lens, cs, a, o) /\ Contents(lens, cs, a, o) /\ End(lens, cs, a, o) = Len(f.sum)
           /\ At(lens, f.sum, 0) /\ f.sum \in Seq(Bytes)
           /\ ~f.more => a + Len(Tail(f.chunks)) = 3 /\ Len(f.sum) = Start(lens, 4)
           /\ \E A \in [1..Len(net) + 1 -> Args] : Chain(A) /\ A[2] = a + Len(Tail(f.chunks))
<1>1. PICK f, s : f = net[1] /\ s = rsum \o Joined(net[1].chunks) BY Zenon
<1>2. /\ f \in Fragment /\ f.chunks \in Seq(Seq(Bytes)) /\ Len(f.chunks) > 0
      /\ Layout(lens, f.chunks, a, o) /\ Contents(lens, f.chunks, a, o)
      /\ End(lens, f.chunks, a, o) = Len(f.sum)
      /\ At(lens, f.sum, 0) /\ f.sum \in Seq(Bytes)
      /\ ~f.more => a + Len(f.chunks) - 1 = 3 /\ Len(f.sum) = Start(lens, 4)
      /\ \E A \in [1..Len(net) + 1 -> Args] : Chain(A) /\ A[2] = a + Len(f.chunks) - 1
  BY <1>1, Arriving, Zenon
<1>3. /\ Head(f.chunks) \in Seq(Bytes) /\ Tail(f.chunks) \in Seq(Seq(Bytes)) /\ Len(Tail(f.chunks)) = Len(f.chunks) - 1
      /\ <<Head(f.chunks)>> \o Tail(f.chunks) = f.chunks
  BY <1>2, HeadTail, Zenon
<1>4. a + Len(f.chunks) - 1 = a + Len(Tail(f.chunks)) BY <1>3, Zenon
<1>5. f.more \in BOOLEAN BY <1>2, Zenon DEF Fragment
<1> QED BY <1>1, <1>2, <1>3, <1>4, <1>5, Zenon

\* The first fragment has arrived, and argument 1 begins.
LEMMA BegunKeeps ==
    ASSUME FragInv, r.pc = "begin", UNCHANGED <<lens, wVars, failed, damaged>>,
           net # <<>>, net' = Tail(net), net' \in Seq(Fragment), out' = out, rsum' = net[1].sum,
           NEW next, next = [r EXCEPT !.pc = "idle", !.arg = 2, !.state = "in", !.eof = FALSE],
           r' = [next EXCEPT !.cur = Head(net[1].chunks), !.rest = Tail(net[1].chunks), !.more = net[1].more],
           ~net[1].error, net[1].sum = rsum \o Joined(net[1].chunks)
    PROVE  FragInv'
<1>1. /\ r \in Reader /\ rsum \in Seq(Bytes) /\ out \in [Args -> Seq(Bytes)] /\ lens \in [Args -> Nat]
      /\ ControlOK /\ OutOK /\ FetchedOK
  BY Zenon DEF FragInv, FragTypeOK
<1>2. lens' = lens /\ w' = w /\ sum' = sum /\ failed' = failed /\ damaged' = damaged BY Zenon DEF wVars
<1>3. r.err = "" /\ r.state = "start" /\ r.arg = 1 /\ r.done = 0 BY <1>1, Zenon DEF ControlOK
<1>4. PICK f, h, t : f = net[1] /\ h = Head(f.chunks) /\ t = Tail(f.chunks) BY Zenon
<1>5. NextArg = 1 /\ Len(rsum) = 0
  <2>1. rsum = <<>> BY <1>1, <1>3, Zenon DEF FetchedOK
  <2> QED BY <1>3, <2>1, LenZero, Zenon DEF NextArg
<1>6. /\ h \in Seq(Bytes) /\ t \in Seq(Seq(Bytes)) /\ f.more \in BOOLEAN
      /\ Layout(lens, <<h>> \o t, 1, 0) /\ Contents(lens, <<h>> \o t, 1, 0) /\ End(lens, <<h>> \o t, 1, 0) = Len(f.sum)
      /\ At(lens, f.sum, 0) /\ f.sum \in Seq(Bytes)
      /\ ~f.more => 1 + Len(t) = 3 /\ Len(f.sum) = Start(lens, 4)
      /\ \E A \in [1..Len(net) + 1 -> Args] : Chain(A) /\ A[2] = 1 + Len(t)
  BY <1>3, <1>4, <1>5, Arrived, Zenon
<1>7. r' = [r EXCEPT !.pc = "idle", !.arg = 2, !.state = "in", !.eof = FALSE, !.cur = h, !.rest = t, !.more = f.more]
  BY <1>4, Zenon
<1>8. r' \in Reader
  <2>1. 2 \in 1..4 BY Twos, Zenon
  <2> QED BY <1>1, <1>6, <1>7, <2>1, Zenon DEF Reader, States
<1>9. /\ r'.arg = 2 /\ r'.state = "in" /\ r'.err = "" /\ r'.cur = h /\ r'.rest = t /\ r'.more = f.more
      /\ r'.pc = "idle" /\ ~r'.eof /\ r'.done = 0
  BY <1>1, <1>3, <1>7, Zenon DEF Reader
<1>10. isReadingArgument' BY <1>9, Zenon DEF isReadingArgument
<1>11. ControlOK' BY <1>9, <1>10, Twos, Zenon DEF ControlOK
<1>12. OutOK'
  <2> SUFFICES ASSUME NEW j \in Args
               PROVE  (/\ At(lens, out[j], Start(lens, j)) /\ Len(out[j]) <= lens[j]
                       /\ (j < r.arg - 1 \/ (j < r.arg /\ ~isReadingArgument)) => Len(out[j]) = lens[j]
                       /\ j >= r.arg => out[j] = <<>>)'
    BY Zenon DEF OutOK
  <2>1. At(lens, out[j], Start(lens, j)) /\ Len(out[j]) <= lens[j] /\ out[j] = <<>> BY <1>1, <1>3, Twos, Zenon DEF OutOK
  <2>2. ~(j < 2 - 1) BY Twos, Zenon
  <2> QED BY <1>2, <1>9, <1>10, <2>1, <2>2, Zenon
<1>13. ReadArg' = 1 /\ NextArg' = 1 + Len(t) BY <1>9, Twos, Zenon DEF ReadArg, NextArg
<1>14. Fetched' = <<h>> \o t BY <1>9, Zenon DEF Fetched
<1>15. FetchedAt' = 0
  <2>1. out[1] = <<>> BY <1>1, <1>3, Twos, Zenon DEF OutOK
  <2>2. Start(lens, 1) = 0 BY Zenon DEF Start
  <2> QED BY <1>2, <1>13, <2>1, <2>2, LenZero, Twos, Zenon DEF FetchedAt
<1>16. FetchedOK' BY <1>2, <1>4, <1>6, <1>9, <1>13, <1>14, <1>15, Zenon DEF FetchedOK
<1>17. BlameOK' BY <1>9, Zenon DEF BlameOK
<1>18. ChainOK' BY <1>2, <1>6, <1>13, ChainReceives, Zenon
<1>19. rsum' \in Seq(Bytes) /\ out' \in [Args -> Seq(Bytes)] BY <1>1, <1>4, <1>6, Zenon
<1> QED BY <1>8, <1>11, <1>12, <1>16, <1>17, <1>18, <1>19, ReaderStep, Zenon

\* The first fragment is received (BeginArgument).
LEMMA BeginRecvKeeps == ASSUME FragInv, BeginRecv PROVE FragInv'
<1>1. PICK next : next = [r EXCEPT !.pc = "idle", !.arg = 2, !.state = "in", !.eof = FALSE] BY Zenon
<1>2. r.pc = "begin" /\ recvAndParseNextFragment(next) /\ UNCHANGED <<lens, wVars, failed, damaged>>
  BY <1>1, Zenon DEF BeginRecv
<1>3. r.pc # "idle" BY <1>2, Zenon
<1>4. /\ net # <<>> /\ net' = Tail(net) /\ net' \in Seq(Fragment) /\ out' = out /\ rsum' = net[1].sum
      /\ r' = [next EXCEPT !.cur = Head(net[1].chunks), !.rest = Tail(net[1].chunks), !.more = net[1].more]
      /\ ~net[1].error /\ net[1].sum = rsum \o Joined(net[1].chunks)
      => FragInv'
  BY <1>1, <1>2, BegunKeeps, Zenon
<1> QED BY <1>2, <1>3, <1>4, ReceiveKeeps, Zenon

\* A chunk that has been read leaves the rest of the argument to the next fragment.
LEMMA Drained ==
    ASSUME FragInv, r.pc = "recv"
    PROVE  /\ isReadingArgument /\ r.err = "" /\ ~r.eof /\ r.done = 0
           /\ NextArg = ReadArg /\ ReadArg = r.arg - 1 /\ FetchedAt = Len(rsum)
<1>1. /\ r \in Reader /\ rsum \in Seq(Bytes) /\ out \in [Args -> Seq(Bytes)] /\ lens \in [Args -> Nat]
      /\ ControlOK /\ FetchedOK
  BY Zenon DEF FragInv, FragTypeOK
<1>2. r.err = "" /\ isReadingArgument /\ ~r.eof /\ r.cur = <<>> /\ r.rest = <<>> BY <1>1, Zenon DEF ControlOK
<1>3. r.state \in {"in", "inLast"} BY <1>2, Zenon DEF isReadingArgument
<1>4. r.done = 0 BY <1>1, <1>2, <1>3, Zenon DEF ControlOK
<1>5. ReadArg = r.arg - 1 /\ NextArg = ReadArg + Len(<<>>) BY <1>2, <1>3, Zenon DEF ReadArg, NextArg
<1>6. PICK a, o : a = ReadArg /\ o = FetchedAt BY Zenon
<1>7. Fetched = <<<<>>>>
  <2>1. <<<<>>>> \o <<>> = <<<<>>>> OBVIOUS
  <2> QED BY <1>2, <2>1, Zenon DEF Fetched
<1>8. Layout(lens, <<<<>>>>, a, o) /\ End(lens, <<<<>>>>, a, o) = Len(rsum)
  BY <1>1, <1>3, <1>6, <1>7, Zenon DEF FetchedOK
<1>9. a \in Args /\ o \in Nat BY <1>8, Zenon DEF Layout
<1>10. End(lens, <<<<>>>>, a, o) = o
  <2>1. End(lens, <<<<>>>>, a, o) = o + Len(<<>>)
    <3>1. Len(<<<<>>>>) = 1 /\ <<<<>>>>[1] = <<>> OBVIOUS
    <3> QED BY <3>1, Zenon DEF End, Offset
  <2>2. o + 0 = o BY <1>9
  <2> QED BY <2>1, <2>2, LenZero, Zenon
<1>11. a + 0 = a BY <1>9 DEF Args
<1> QED BY <1>2, <1>4, <1>5, <1>6, <1>8, <1>10, <1>11, LenZero, Zenon

\* The next fragment of the argument has arrived.
LEMMA ContinuedKeeps ==
    ASSUME FragInv, r.pc = "recv", UNCHANGED <<lens, wVars, failed, damaged>>,
           net # <<>>, net' = Tail(net), net' \in Seq(Fragment), out' = out, rsum' = net[1].sum,
           NEW next, next = [r EXCEPT !.pc = "read"],
           r' = [next EXCEPT !.cur = Head(net[1].chunks), !.rest = Tail(net[1].chunks), !.more = net[1].more],
           ~net[1].error, net[1].sum = rsum \o Joined(net[1].chunks)
    PROVE  FragInv'
<1>1. /\ r \in Reader /\ rsum \in Seq(Bytes) /\ out \in [Args -> Seq(Bytes)] /\ lens \in [Args -> Nat]
      /\ ControlOK /\ OutOK /\ FetchedOK
  BY Zenon DEF FragInv, FragTypeOK
<1>2. lens' = lens /\ w' = w /\ sum' = sum /\ failed' = failed /\ damaged' = damaged BY Zenon DEF wVars
<1>3. isReadingArgument /\ r.err = "" /\ ~r.eof /\ r.done = 0 /\ NextArg = ReadArg /\ ReadArg = r.arg - 1
      /\ FetchedAt = Len(rsum)
  BY Drained, Zenon
<1>a. r.state \in {"in", "inLast"} BY <1>3, Zenon DEF isReadingArgument
<1>4. PICK f, h, t : f = net[1] /\ h = Head(f.chunks) /\ t = Tail(f.chunks) BY Zenon
<1>5. PICK a, o : a = ReadArg /\ o = FetchedAt BY Zenon
<1>6. /\ h \in Seq(Bytes) /\ t \in Seq(Seq(Bytes)) /\ f.more \in BOOLEAN
      /\ Layout(lens, <<h>> \o t, a, o) /\ Contents(lens, <<h>> \o t, a, o) /\ End(lens, <<h>> \o t, a, o) = Len(f.sum)
      /\ At(lens, f.sum, 0) /\ f.sum \in Seq(Bytes)
      /\ ~f.more => a + Len(t) = 3 /\ Len(f.sum) = Start(lens, 4)
      /\ \E A \in [1..Len(net) + 1 -> Args] : Chain(A) /\ A[2] = a + Len(t)
  <2>1. a = NextArg /\ o = Len(rsum) /\ r.state # "complete" BY <1>3, <1>5, <1>a, Zenon
  <2> QED BY <1>3, <1>4, <2>1, Arrived, Zenon
<1>7. r' = [r EXCEPT !.pc = "read", !.cur = h, !.rest = t, !.more = f.more] BY <1>4, Zenon
<1>8. r' \in Reader BY <1>1, <1>6, <1>7, Zenon DEF Reader
<1>9. /\ r'.arg = r.arg /\ r'.state = r.state /\ r'.err = "" /\ r'.cur = h /\ r'.rest = t /\ r'.more = f.more
      /\ r'.pc = "read" /\ ~r'.eof /\ r'.done = 0
  BY <1>1, <1>3, <1>7, Zenon DEF Reader
<1>10. isReadingArgument' BY <1>3, <1>9, Zenon DEF isReadingArgument
<1>11. ControlOK' BY <1>1, <1>a, <1>9, <1>10, Zenon DEF ControlOK
<1>12. OutOK'
  <2>1. isReadingArgument' = isReadingArgument BY <1>3, <1>9, Zenon DEF isReadingArgument
  <2> QED BY <1>1, <1>2, <1>9, <2>1, Zenon DEF OutOK
<1>13. ReadArg' = a /\ NextArg' = a + Len(t)
  <2>a. r'.state # "waiting" BY <1>9, <1>a, Zenon
  <2>b. ReadArg' = r'.arg - 1 BY <2>a, Zenon DEF ReadArg
  <2>1. ReadArg' = a BY <1>3, <1>5, <1>9, <2>b, Zenon
  <2>2. r'.state # "start" BY <1>9, <1>a, Zenon
  <2> QED BY <1>9, <2>1, <2>2, Zenon DEF NextArg
<1>14. Fetched' = <<h>> \o t BY <1>9, Zenon DEF Fetched
<1>15. FetchedAt' = o BY <1>2, <1>5, <1>13, Zenon DEF FetchedAt
<1>16. FetchedOK' BY <1>2, <1>4, <1>6, <1>9, <1>a, <1>13, <1>14, <1>15, Zenon DEF FetchedOK
<1>17. BlameOK' BY <1>9, Zenon DEF BlameOK
<1>18. ChainOK' BY <1>2, <1>6, <1>13, ChainReceives, Zenon
<1>19. rsum' \in Seq(Bytes) /\ out' \in [Args -> Seq(Bytes)] BY <1>1, <1>4, <1>6, Zenon
<1> QED BY <1>8, <1>11, <1>12, <1>16, <1>17, <1>18, <1>19, ReaderStep, Zenon

\* The next fragment of an argument is received (Read).
LEMMA ReadRecvKeeps == ASSUME FragInv, ReadRecv PROVE FragInv'
<1>1. PICK next : next = [r EXCEPT !.pc = "read"] BY Zenon
<1>2. r.pc = "recv" /\ recvAndParseNextFragment(next) /\ UNCHANGED <<lens, wVars, failed, damaged>>
  BY <1>1, Zenon DEF ReadRecv
<1>3. r.pc # "idle" BY <1>2, Zenon
<1>4. /\ net # <<>> /\ net' = Tail(net) /\ net' \in Seq(Fragment) /\ out' = out /\ rsum' = net[1].sum
      /\ r' = [next EXCEPT !.cur = Head(net[1].chunks), !.rest = Tail(net[1].chunks), !.more = net[1].more]
      /\ ~net[1].error /\ net[1].sum = rsum \o Joined(net[1].chunks)
      => FragInv'
  BY <1>1, <1>2, ContinuedKeeps, Zenon
<1> QED BY <1>2, <1>3, <1>4, ReceiveKeeps, Zenon

\* What a reader in an argument is like
LEMMA InReading ==
    ASSUME FragInv, isReadingArgument
    PROVE  /\ r.state \in {"in", "inLast"} /\ ReadArg = r.arg - 1 /\ NextArg = ReadArg + Len(r.rest)
           /\ r.arg \in 2..4 /\ ReadArg \in Args /\ (r.state = "in" => r.arg \in {2, 3}) /\ (r.state = "inLast" => r.arg = 4)
           /\ r.cur \in Seq(Bytes) /\ r.rest \in Seq(Seq(Bytes)) /\ out[ReadArg] \in Seq(Bytes)
           /\ Layout(lens, <<r.cur>> \o r.rest, ReadArg, FetchedAt) /\ Contents(lens, <<r.cur>> \o r.rest, ReadArg, FetchedAt)
           /\ End(lens, <<r.cur>> \o r.rest, ReadArg, FetchedAt) = Len(rsum)
<1>1. r \in Reader /\ out \in [Args -> Seq(Bytes)] /\ ControlOK /\ FetchedOK BY Zenon DEF FragInv, FragTypeOK
<1>2. r.state \in {"in", "inLast"} BY Zenon DEF isReadingArgument
<1>3. r.state # "waiting" /\ r.state # "start" BY <1>2, Zenon
<1>4. ReadArg = r.arg - 1 /\ NextArg = ReadArg + Len(r.rest) BY <1>3, Zenon DEF ReadArg, NextArg
<1>5. (r.state = "in" => r.arg \in {2, 3}) /\ (r.state = "inLast" => r.arg = 4) BY <1>1, Zenon DEF ControlOK
<1>6. r.arg \in 2..4 /\ r.arg - 1 \in Args BY <1>2, <1>5 DEF Args
<1>7. r.cur \in Seq(Bytes) /\ r.rest \in Seq(Seq(Bytes)) BY <1>1, Zenon DEF Reader
<1>8. out[ReadArg] \in Seq(Bytes) BY <1>1, <1>4, <1>6, Zenon
<1>9. /\ Layout(lens, Fetched, ReadArg, FetchedAt) /\ Contents(lens, Fetched, ReadArg, FetchedAt)
      /\ End(lens, Fetched, ReadArg, FetchedAt) = Len(rsum)
  BY <1>1, <1>2, Zenon DEF FetchedOK
<1>10. Fetched = <<r.cur>> \o r.rest BY Zenon DEF Fetched
<1> QED BY <1>2, <1>4, <1>5, <1>6, <1>7, <1>8, <1>9, <1>10, Zenon

\* The application reads.
LEMMA ReadKeeps == ASSUME FragInv, NEW n \in Nat, Read(n) PROVE FragInv'
<1>1. /\ r \in Reader /\ rsum \in Seq(Bytes) /\ net \in Seq(Fragment) /\ out \in [Args -> Seq(Bytes)]
      /\ ControlOK /\ OutOK /\ FetchedOK
  BY Zenon DEF FragInv, FragTypeOK
<1>2. /\ rsum' = rsum /\ out' = out /\ lens' = lens /\ net' = net /\ w' = w /\ sum' = sum /\ failed' = failed
      /\ damaged' = damaged /\ UNCHANGED <<lens, wVars, failed, damaged>>
      /\ r.err = "" /\ r.pc = "idle" /\ isReadingArgument /\ ~r.eof /\ r' = [r EXCEPT !.pc = "read", !.want = n]
  BY Zenon DEF Read, wVars
<1>3. r' \in Reader BY <1>1, <1>2, Zenon DEF Reader
<1>4. /\ r'.arg = r.arg /\ r'.state = r.state /\ r'.err = r.err /\ r'.cur = r.cur /\ r'.rest = r.rest /\ r'.more = r.more
      /\ r'.pc = "read" /\ r'.eof = r.eof /\ r'.done = r.done
  BY <1>1, <1>2, Zenon DEF Reader
<1>5. isReadingArgument' = isReadingArgument BY <1>4, Zenon DEF isReadingArgument
<1>6. ControlOK' BY <1>1, <1>2, <1>4, <1>5, Zenon DEF ControlOK
<1>7. OutOK' BY <1>1, <1>2, <1>4, <1>5, Zenon DEF OutOK
<1>8. ReadArg' = ReadArg /\ Fetched' = Fetched /\ NextArg' = NextArg
  <2>1. ReadArg' = ReadArg BY <1>4, Zenon DEF ReadArg
  <2>2. Fetched' = Fetched BY <1>4, Zenon DEF Fetched
  <2>3. NextArg' = NextArg BY <1>4, <2>1, Zenon DEF NextArg
  <2> QED BY <2>1, <2>2, <2>3, Zenon
<1>9. FetchedAt' = FetchedAt BY <1>2, <1>8, Zenon DEF FetchedAt
<1>10. FetchedOK' BY <1>1, <1>2, <1>4, <1>8, <1>9, Zenon DEF FetchedOK
<1>11. BlameOK' BY <1>2, <1>4, Zenon DEF BlameOK
<1>12. ChainOK' BY <1>2, <1>4, <1>8, ChainReads, Zenon
<1> QED BY <1>1, <1>2, <1>3, <1>6, <1>7, <1>10, <1>11, <1>12, ReaderStep, Zenon

\* No bytes
LEMMA EmptyBytes == ASSUME NEW s \in Seq(Bytes), Len(s) = 0 PROVE s = <<>>
OBVIOUS

\* What one round of Read takes from the current chunk
LEMMA Taking ==
    ASSUME FragInv, r.pc = "read", NEW n, n = IF r.want < Len(r.cur) THEN r.want ELSE Len(r.cur),
           NEW c, c = SubSeq(r.cur, n + 1, Len(r.cur)), NEW d, d = out[ReadArg] \o SubSeq(r.cur, 1, n)
    PROVE  /\ c \in Seq(Bytes) /\ d \in Seq(Bytes) /\ (n < r.want => c = <<>>) /\ r.want - n \in Nat
           /\ (n < r.want) \in BOOLEAN
           /\ At(lens, d, Start(lens, ReadArg)) /\ Len(d) <= lens[ReadArg]
           /\ Start(lens, ReadArg) + Len(d) = FetchedAt + n
           /\ Layout(lens, <<c>> \o r.rest, ReadArg, FetchedAt + n) /\ Contents(lens, <<c>> \o r.rest, ReadArg, FetchedAt + n)
           /\ End(lens, <<c>> \o r.rest, ReadArg, FetchedAt + n) = Len(rsum)
<1>1. r \in Reader /\ lens \in [Args -> Nat] /\ ControlOK /\ OutOK BY Zenon DEF FragInv, FragTypeOK
<1>2. isReadingArgument BY <1>1, Zenon DEF ControlOK
<1>3. PICK a : a = ReadArg BY Zenon
<1>4. PICK o : o = FetchedAt BY Zenon
<1>5. /\ a \in Args /\ r.cur \in Seq(Bytes) /\ r.rest \in Seq(Seq(Bytes)) /\ out[a] \in Seq(Bytes)
      /\ Layout(lens, <<r.cur>> \o r.rest, a, o) /\ Contents(lens, <<r.cur>> \o r.rest, a, o)
      /\ End(lens, <<r.cur>> \o r.rest, a, o) = Len(rsum)
  BY <1>2, <1>3, <1>4, InReading, Zenon
<1>6. r.want \in Nat /\ Len(r.cur) \in Nat BY <1>1, <1>5, LenNat, Zenon DEF Reader
<1>7. /\ n \in 0..Len(r.cur) /\ n \in Nat /\ r.want - n \in Nat /\ (n < r.want => n = Len(r.cur))
      /\ (n < r.want) \in BOOLEAN
  <2>1. \A x, y \in Nat : LET m == IF x < y THEN x ELSE y IN
          m \in 0..y /\ m \in Nat /\ x - m \in Nat /\ (m < x => m = y) /\ (m < x) \in BOOLEAN
    BY SMT
  <2> QED BY <1>6, <2>1, Zenon
<1>8. PICK h : h = SubSeq(r.cur, 1, n) BY Zenon
<1>9. PICK x \in Seq(Bytes) : x = r.cur BY <1>5, Zenon
<1>10. /\ Layout(lens, <<c>> \o r.rest, a, o + n) /\ Contents(lens, <<c>> \o r.rest, a, o + n)
       /\ End(lens, <<c>> \o r.rest, a, o + n) = Len(rsum)
       /\ o \in Nat /\ o + Len(x) <= Start(lens, a + 1) /\ At(lens, h, o)
       /\ h \in Seq(Bytes) /\ Len(h) = n /\ c \in Seq(Bytes) /\ Len(c) = Len(x) - n
  <2>1. PICK t \in Seq(Seq(Bytes)) : t = r.rest BY <1>5, Zenon
  <2>2. Layout(lens, <<x>> \o t, a, o) /\ Contents(lens, <<x>> \o t, a, o) /\ End(lens, <<x>> \o t, a, o) = Len(rsum)
    BY <1>5, <1>9, <2>1, Zenon
  <2>3. n \in 0..Len(x) BY <1>7, <1>9, Zenon
  <2>4. c = SubSeq(x, n + 1, Len(x)) /\ h = SubSeq(x, 1, n) BY <1>8, <1>9, Zenon
  <2>5. /\ Layout(lens, <<c>> \o t, a, o + n) /\ Contents(lens, <<c>> \o t, a, o + n)
        /\ End(lens, <<c>> \o t, a, o + n) = End(lens, <<x>> \o t, a, o)
        /\ o \in Nat /\ o + Len(x) <= Start(lens, a + 1) /\ At(lens, h, o)
        /\ h \in Seq(Bytes) /\ Len(h) = n /\ c \in Seq(Bytes) /\ Len(c) = Len(x) - n
    <3>1. Laid(lens, x, t, a, o) BY <1>1, <2>2, Zenon DEF Laid
    <3>2. Cut(x, n, h, c) BY <2>3, <2>4, Zenon DEF Cut
    <3>3. Left(lens, x, t, a, o, n, h, c) BY <3>1, <3>2, LayoutDrop, Zenon
    <3> QED BY <3>3, Zenon DEF Left
  <2> QED BY <2>1, <2>2, <2>5, Zenon
<1>11. h \in Seq(Bytes) /\ Len(h) = n /\ c \in Seq(Bytes) /\ Len(c) = Len(x) - n BY <1>10, Zenon
<1>12. n < r.want => c = <<>>
  <2> SUFFICES ASSUME n < r.want PROVE c = <<>> BY Zenon
  <2>1. Len(c) = 0
    <3>1. Len(x) - n = 0 BY <1>6, <1>7, <1>9
    <3> QED BY <1>11, <3>1, Zenon
  <2> QED BY <1>11, <2>1, EmptyBytes, Zenon
<1>13. At(lens, out[a], Start(lens, a)) /\ Len(out[a]) <= lens[a] BY <1>1, <1>5, Zenon DEF OutOK
<1>14. o = Start(lens, a) + Len(out[a]) BY <1>3, <1>4, Zenon DEF FetchedAt
<1>15. d = out[a] \o h BY <1>3, <1>8, Zenon
<1>16. Start(lens, a) \in Nat /\ lens[a] \in Nat /\ Start(lens, a + 1) = Start(lens, a) + lens[a]
  BY <1>1, <1>5, Starts, StartNat, Zenon
<1>17. d \in Seq(Bytes) /\ Len(d) = Len(out[a]) + n /\ At(lens, d, Start(lens, a))
  <2>1. PICK y \in Seq(Bytes), s \in Nat : y = out[a] /\ s = Start(lens, a) BY <1>5, <1>16, Zenon
  <2>2. At(lens, y, s) /\ At(lens, h, s + Len(y)) BY <1>10, <1>13, <1>14, <2>1, Zenon
  <2>3. y \o h \in Seq(Bytes) /\ Len(y \o h) = Len(y) + Len(h) /\ At(lens, y \o h, s) 
    <3>1. At(lens, y \o h, s) <=> At(lens, y, s) /\ At(lens, h, s + Len(y)) BY <1>11, AtConcat, Zenon
    <3> QED BY <1>11, <2>2, <3>1, AtConcat, Zenon
  <2> QED BY <1>11, <1>15, <2>1, <2>3, Zenon
<1>18. Len(d) <= lens[a] /\ Start(lens, a) + Len(d) = o + n
  <2>1. \A s, p, m, k, l \in Nat : m \in 0..k /\ s + p + k <= s + l => p + m <= l /\ s + (p + m) = s + p + m BY SMT
  <2>2. Len(out[a]) \in Nat BY <1>5, LenNat, Zenon
  <2>3. n \in 0..Len(x) /\ Len(x) \in Nat BY <1>6, <1>7, <1>9, Zenon
  <2>4. Start(lens, a) + Len(out[a]) + Len(x) <= Start(lens, a) + lens[a] BY <1>10, <1>14, <1>16, Zenon
  <2>5. Len(out[a]) + n <= lens[a] /\ Start(lens, a) + (Len(out[a]) + n) = Start(lens, a) + Len(out[a]) + n
    <3>1. PICK s, p, m, k, l \in Nat : s = Start(lens, a) /\ p = Len(out[a]) /\ m = n /\ k = Len(x) /\ l = lens[a]
      BY <1>7, <1>16, <2>2, <2>3, Zenon
    <3>2. m \in 0..k /\ s + p + k <= s + l BY <2>3, <2>4, <3>1, Zenon
    <3>3. p + m <= l /\ s + (p + m) = s + p + m BY <3>2, SMT
    <3> QED BY <3>1, <3>3, Zenon
  <2> QED BY <1>14, <1>17, <2>5, Zenon
<1> QED BY <1>3, <1>4, <1>7, <1>10, <1>11, <1>12, <1>17, <1>18, Zenon

\* Arithmetic of the argument that is read
LEMMA Before1 == \A k \in 2..4 : ~(k - 1 < k - 1) /\ ~(k - 1 >= k)
BY SMT

\* One round of Read's loop
LEMMA ReadChunkKeeps == ASSUME FragInv, ReadChunk PROVE FragInv'
<1>1. /\ r \in Reader /\ rsum \in Seq(Bytes) /\ net \in Seq(Fragment) /\ out \in [Args -> Seq(Bytes)]
      /\ ControlOK /\ OutOK /\ FetchedOK /\ r.pc = "read"
  BY Zenon DEF FragInv, FragTypeOK, ReadChunk
<1>2. isReadingArgument /\ ~r.eof /\ r.err = "" BY <1>1, Zenon DEF ControlOK
<1>3. PICK a : a = ReadArg BY Zenon
<1>4. /\ a = r.arg - 1 /\ a \in Args /\ r.arg \in 2..4 /\ r.state \in {"in", "inLast"} /\ NextArg = a + Len(r.rest)
      /\ (r.state = "in" => r.arg \in {2, 3}) /\ (r.state = "inLast" => r.arg = 4)
  BY <1>2, <1>3, InReading, Zenon
<1>5. PICK n : n = IF r.want < Len(r.cur) THEN r.want ELSE Len(r.cur) BY Zenon
<1>6. PICK c : c = SubSeq(r.cur, n + 1, Len(r.cur)) BY Zenon
<1>7. PICK d : d = out[a] \o SubSeq(r.cur, 1, n) BY Zenon
<1>8. PICK o : o = FetchedAt BY Zenon
<1>9. /\ c \in Seq(Bytes) /\ d \in Seq(Bytes) /\ (n < r.want => c = <<>>) /\ r.want - n \in Nat
      /\ (n < r.want) \in BOOLEAN
      /\ At(lens, d, Start(lens, a)) /\ Len(d) <= lens[a]
      /\ Start(lens, a) + Len(d) = o + n
      /\ Layout(lens, <<c>> \o r.rest, a, o + n) /\ Contents(lens, <<c>> \o r.rest, a, o + n)
      /\ End(lens, <<c>> \o r.rest, a, o + n) = Len(rsum)
  <2>1. d = out[ReadArg] \o SubSeq(r.cur, 1, n) BY <1>3, <1>7, Zenon
  <2> QED BY <1>1, <1>3, <1>5, <1>6, <1>8, <2>1, Taking, Zenon
<1>10. PICK end : end = (r.rest # <<>> \/ ~r.more) BY Zenon
<1>11. PICK short : short = (n < r.want) BY Zenon
<1>12. PICK p : p = IF short /\ ~end THEN "recv" ELSE "idle" BY Zenon
<1>13. PICK v : v = IF short /\ ~end THEN r.want - n ELSE 0 BY Zenon
<1>14. /\ out' = [out EXCEPT ![a] = d]
       /\ r' = [r EXCEPT !.cur = c, !.want = v, !.pc = p, !.eof = (short /\ end)]
       /\ UNCHANGED <<lens, wVars, failed, damaged>> /\ net' = net /\ rsum' = rsum
       /\ lens' = lens /\ w' = w /\ sum' = sum /\ failed' = failed /\ damaged' = damaged
  BY <1>4, <1>5, <1>6, <1>7, <1>10, <1>11, <1>12, <1>13, Zenon DEF ReadChunk, wVars
<1>15. short \in BOOLEAN /\ end \in BOOLEAN /\ p \in {"recv", "idle"} /\ v \in Nat
  <2>1. short \in BOOLEAN BY <1>9, <1>11, Zenon
  <2>2. end \in BOOLEAN BY <1>10, Zenon
  <2>3. p \in {"recv", "idle"} BY <1>12, Zenon
  <2>4. 0 \in Nat BY Zero, Zenon
  <2>5. v \in Nat BY <1>9, <1>13, <2>4, Zenon
  <2> QED BY <2>1, <2>2, <2>3, <2>5, Zenon
<1>16. r' \in Reader BY <1>1, <1>9, <1>14, <1>15, Zenon DEF Reader
<1>17. /\ r'.arg = r.arg /\ r'.state = r.state /\ r'.err = r.err /\ r'.cur = c /\ r'.rest = r.rest /\ r'.more = r.more
       /\ r'.pc = p /\ r'.eof = (short /\ end) /\ r'.done = r.done
  BY <1>1, <1>14, Zenon DEF Reader
<1>18. /\ out' \in [Args -> Seq(Bytes)] /\ out'[a] = d /\ \A i \in Args : i # a => out'[i] = out[i]
  BY <1>1, <1>4, <1>9, <1>14, Zenon
<1>19. isReadingArgument' = isReadingArgument BY <1>17, Zenon DEF isReadingArgument
<1>20. ControlOK'
  <2>1. r'.pc = "recv" => short /\ ~end BY <1>12, <1>17, Zenon
  <2>2. short => c = <<>> BY <1>9, <1>11, Zenon
  <2>3. r'.pc = "recv" => ~r'.eof /\ r'.cur = <<>> /\ r'.rest = <<>> /\ r'.more
    <3>1. r.more \in BOOLEAN BY <1>1, Zenon DEF Reader
    <3> QED BY <1>10, <1>17, <2>1, <2>2, <3>1, Zenon
  <2>4. r'.eof => r'.cur = <<>> /\ (r'.rest # <<>> \/ ~r'.more) BY <1>10, <1>17, <2>2, Zenon
  <2>5. r'.pc # "begin" /\ r'.pc # "read" BY <1>15, <1>17, Zenon
  <2>6. (r.state = "start" <=> r.arg = 1) /\ r.done = (IF r.state = "complete" \/ r.err = "peer" THEN 1 ELSE 0)
        /\ (r.state \in {"in", "waiting"} => r.arg \in {2, 3}) /\ (r.state \in {"inLast", "complete"} => r.arg = 4)
    BY <1>1, Zenon DEF ControlOK
  <2> QED BY <1>2, <1>17, <1>19, <2>3, <2>4, <2>5, <2>6, Zenon DEF ControlOK
<1>21. OutOK'
  <2> SUFFICES ASSUME NEW i \in Args
               PROVE  (/\ At(lens, out[i], Start(lens, i)) /\ Len(out[i]) <= lens[i]
                       /\ i < r.arg - 1 \/ (i < r.arg /\ ~isReadingArgument) => Len(out[i]) = lens[i]
                       /\ i >= r.arg => out[i] = <<>>)'
    BY Zenon DEF OutOK
  <2>1. CASE i # a
    <3>1. out'[i] = out[i] BY <1>18, <2>1, Zenon
    <3>2. /\ At(lens, out[i], Start(lens, i)) /\ Len(out[i]) <= lens[i]
          /\ i < r.arg - 1 \/ (i < r.arg /\ ~isReadingArgument) => Len(out[i]) = lens[i]
          /\ i >= r.arg => out[i] = <<>>
      BY <1>1, Zenon DEF OutOK
    <3> QED BY <1>14, <1>17, <1>19, <3>1, <3>2, Zenon
  <2>2. CASE i = a
    <3>1. ~(i < r.arg - 1) /\ ~(i >= r.arg) BY <1>4, <2>2, Before1, Zenon
    <3> QED BY <1>2, <1>9, <1>14, <1>17, <1>18, <1>19, <2>2, <3>1, Zenon
  <2> QED BY <2>1, <2>2
<1>22. ReadArg' = a /\ NextArg' = NextArg
  <2>0. r'.state # "waiting" /\ r'.state # "start" BY <1>4, <1>17, Zenon
  <2>1. ReadArg' = r'.arg - 1 BY <2>0, Zenon DEF ReadArg
  <2>2. ReadArg' = a BY <1>4, <1>17, <2>1, Zenon
  <2>3. NextArg' = ReadArg' + Len(r'.rest) BY <2>0, Zenon DEF NextArg
  <2> QED BY <1>4, <1>17, <2>2, <2>3, Zenon
<1>23. FetchedAt' = o + n
  <2>1. FetchedAt' = Start(lens', ReadArg') + Len(out'[ReadArg']) BY Zenon DEF FetchedAt, Start
  <2> QED BY <1>9, <1>14, <1>18, <1>22, <2>1, Zenon
<1>24. Fetched' = <<c>> \o r.rest BY <1>17, Zenon DEF Fetched
<1>25. FetchedOK'
  <2>1. At(lens, rsum, 0) /\ r.state # "start" /\ (~r.more => NextArg = 3 /\ Len(rsum) = Start(lens, 4))
    BY <1>1, <1>4, Zenon DEF FetchedOK
  <2> QED BY <1>9, <1>14, <1>17, <1>22, <1>23, <1>24, <2>1, Zenon DEF FetchedOK
<1>26. BlameOK' BY <1>2, <1>17, Zenon DEF BlameOK
<1>27. ChainOK' BY <1>14, <1>17, <1>22, ChainReads, Zenon
<1> QED BY <1>1, <1>14, <1>16, <1>18, <1>20, <1>21, <1>25, <1>26, <1>27, ReaderStep, Zenon

\* A fragment's only chunk, empty, ends where it starts.
LEMMA OnlyChunk ==
    ASSUME NEW l, NEW a, NEW o, Layout(l, <<<<>>>> \o <<>>, a, o) PROVE End(l, <<<<>>>> \o <<>>, a, o) = o
<1>1. <<<<>>>> \o <<>> = <<<<>>>> /\ Len(<<<<>>>>) = 1 /\ <<<<>>>>[1] = <<>> /\ Len(<<>>) = 0 OBVIOUS
<1>2. o \in Nat BY <1>1, Zenon DEF Layout
<1>3. Offset(l, a, o, 1) = o BY Zenon DEF Offset
<1>4. End(l, <<<<>>>>, a, o) = o + 0 BY <1>1, <1>3, Zenon DEF End
<1>5. o + 0 = o BY <1>2
<1> QED BY <1>1, <1>4, <1>5, Zenon

\* No chunks
LEMMA NoChunks == ASSUME NEW s \in Seq(Seq(Bytes)) PROVE (s # <<>> => Len(s) > 0) /\ (Len(s) = 0 => s = <<>>)
OBVIOUS

\* Arithmetic of an argument's end
LEMMA Sums ==
    /\ \A s, n, l \in Nat : s + n = s + l => n = l
    /\ \A s, n, l \in Nat : (s + n) + 0 = s + l => n = l
    /\ \A n \in Nat : 3 + (n + 1) <= 4 => n = 0
    /\ 4 - 1 = 3 /\ 2 - 1 + 0 # 3 /\ 3 - 1 + 0 # 3
BY SMT

\* A reader that has seen the end of an argument: it handed out all of it, and the chunks that
\* are left start with the next one's.
LEMMA Closing ==
    ASSUME FragInv, isReadingArgument, r.eof, NEW a, a = ReadArg
    PROVE  /\ r.cur = <<>> /\ Len(out[a]) = lens[a]
           /\ r.state = "inLast" => r.rest = <<>> /\ ~r.more
           /\ r.state # "inLast" => Len(r.rest) > 0
           /\ Len(r.rest) > 0 => /\ a + 1 \in Args
                                 /\ Layout(lens, r.rest, a + 1, Start(lens, a + 1))
                                 /\ Contents(lens, r.rest, a + 1, Start(lens, a + 1))
                                 /\ End(lens, r.rest, a + 1, Start(lens, a + 1)) = Len(rsum)
<1>1. /\ lens \in [Args -> Nat] /\ r \in Reader /\ out \in [Args -> Seq(Bytes)] /\ ControlOK /\ FetchedOK
  BY Zenon DEF FragInv, FragTypeOK
<1>2. r.cur = <<>> /\ (r.rest # <<>> \/ ~r.more) BY <1>1, Zenon DEF ControlOK
<1>3. PICK o : o = FetchedAt BY Zenon
<1>4. /\ a = r.arg - 1 /\ a \in Args /\ r.state \in {"in", "inLast"} /\ NextArg = a + Len(r.rest)
      /\ (r.state = "in" => r.arg \in {2, 3}) /\ (r.state = "inLast" => r.arg = 4)
      /\ r.cur \in Seq(Bytes) /\ r.rest \in Seq(Seq(Bytes)) /\ out[a] \in Seq(Bytes)
      /\ Layout(lens, <<r.cur>> \o r.rest, a, o) /\ Contents(lens, <<r.cur>> \o r.rest, a, o)
      /\ End(lens, <<r.cur>> \o r.rest, a, o) = Len(rsum)
  BY <1>3, InReading, Zenon
<1>5. PICK x \in Seq(Bytes), t \in Seq(Seq(Bytes)) : x = r.cur /\ t = r.rest BY <1>4, Zenon
<1>6. /\ Layout(lens, <<x>> \o t, a, o) /\ Contents(lens, <<x>> \o t, a, o) /\ End(lens, <<x>> \o t, a, o) = Len(rsum)
      /\ x = <<>> /\ Len(t) \in Nat
  BY <1>2, <1>4, <1>5, LenNat, Zenon
<1>7. PICK s, n, l \in Nat : s = Start(lens, a) /\ n = Len(out[a]) /\ l = lens[a]
  BY <1>1, <1>4, LenNat, StartNat, Zenon
<1>8. o = s + n /\ Start(lens, a + 1) = s + l
  <2>1. Start(lens, a + 1) = Start(lens, a) + lens[a] BY <1>1, <1>4, Starts, Zenon
  <2> QED BY <1>3, <1>7, <2>1, Zenon DEF FetchedAt
<1>9. r.state = "inLast" => t = <<>>
  <2> SUFFICES ASSUME r.state = "inLast" PROVE t = <<>> BY Zenon
  <2>1. a = 3 BY <1>4, Sums, Zenon
  <2>2. Len(<<x>> \o t) = Len(t) + 1 OBVIOUS
  <2>3. a + Len(<<x>> \o t) <= 4 BY <1>6, Zenon DEF Layout
  <2>4. 3 + (Len(t) + 1) <= 4 BY <2>1, <2>2, <2>3, Zenon
  <2> QED BY <1>6, <2>4, Sums, NoChunks, Zenon
<1>10. Len(t) = 0 \/ Len(t) > 0 BY <1>6
<1>11. CASE Len(t) > 0
  <2>1. /\ o + Len(x) = Start(lens, a + 1) /\ a + 1 \in Args
        /\ Layout(lens, t, a + 1, Start(lens, a + 1)) /\ Contents(lens, t, a + 1, Start(lens, a + 1))
        /\ End(lens, t, a + 1, Start(lens, a + 1)) = End(lens, <<x>> \o t, a, o)
    <3>1. Laid(lens, x, t, a, o) BY <1>1, <1>6, Zenon DEF Laid
    <3>2. Rest(lens, x, t, a, o) BY <1>11, <3>1, LayoutRest, Zenon
    <3> QED BY <3>2, Zenon DEF Rest
  <2>2. n = l
    <3>1. (s + n) + 0 = s + l BY <1>6, <1>8, <2>1, LenZero, Zenon
    <3> QED BY <3>1, Sums, Zenon
  <2>3. t # <<>>
    <3>1. t = <<>> => Len(t) = 0 BY LenZero, Zenon
    <3>2. Len(t) # 0 BY <1>6, <1>11
    <3> QED BY <3>1, <3>2, Zenon
  <2> QED BY <1>2, <1>5, <1>6, <1>7, <1>9, <1>11, <2>1, <2>2, <2>3, Zenon
<1>12. CASE Len(t) = 0
  <2>1. t = <<>> BY <1>12, NoChunks, Zenon
  <2>2. ~r.more BY <1>2, <1>5, <2>1, Zenon
  <2>3. NextArg = 3 /\ Len(rsum) = Start(lens, 4) BY <1>1, <1>4, <2>2, Zenon DEF FetchedOK
  <2>4. r.state = "inLast"
    <3> SUFFICES ASSUME r.state = "in" PROVE FALSE BY <1>4, Zenon
    <3>1. r.arg \in {2, 3} /\ r.arg - 1 + 0 = 3 BY <1>4, <1>5, <1>12, <2>3, Zenon
    <3> QED BY <3>1
  <2>5. a = 3 BY <1>4, <2>4, Sums, Zenon
  <2>6. End(lens, <<x>> \o t, a, o) = o
    <3>1. Layout(lens, <<<<>>>> \o <<>>, a, o) BY <1>6, <2>1, Zenon
    <3>2. End(lens, <<<<>>>> \o <<>>, a, o) = o BY <3>1, OnlyChunk, Zenon
    <3> QED BY <1>6, <2>1, <3>2, Zenon
  <2>7. 3 + 1 = 4 OBVIOUS
  <2>8. s + n = s + l BY <1>6, <1>8, <2>3, <2>5, <2>6, <2>7, Zenon
  <2>9. n = l BY <2>8, Sums, Zenon
  <2>10. ~(Len(r.rest) > 0) BY <1>5, <1>12, LenZero, Zenon
  <2> QED BY <1>2, <1>5, <1>7, <2>1, <2>2, <2>4, <2>9, <2>10, Zenon
<1> QED BY <1>10, <1>11, <1>12, Zenon

\* Arithmetic of the last argument
LEMMA LastRead ==
    /\ 0 + 1 = 1 /\ 0 + 1 \in Nat /\ 4 # 1 /\ \A k \in {2, 3} : k # 1
    /\ \A i \in Args : (i < 4 - 1 \/ i = 3) /\ ~(i >= 4)
BY SMT DEF Args

\* Close of the last argument
LEMMA CompleteKeeps ==
    ASSUME FragInv, r.err = "", r.pc = "idle", isReadingArgument, r.eof, r.state = "inLast",
           r' = [r EXCEPT !.state = "complete", !.done = @ + 1], UNCHANGED <<rsum, out>>,
           UNCHANGED <<lens, wVars, net, failed, damaged>>
    PROVE  FragInv'
<1>1. /\ r \in Reader /\ rsum \in Seq(Bytes) /\ net \in Seq(Fragment) /\ out \in [Args -> Seq(Bytes)]
      /\ ControlOK /\ OutOK /\ FetchedOK
  BY Zenon DEF FragInv, FragTypeOK
<1>2. /\ lens' = lens /\ w' = w /\ sum' = sum /\ net' = net /\ failed' = failed /\ damaged' = damaged /\ rsum' = rsum
      /\ out' = out /\ UNCHANGED <<lens, wVars, failed, damaged>>
  BY Zenon DEF wVars
<1>3. r.done = 0 /\ r.arg = 4 BY <1>1, Zenon DEF ControlOK
<1>4. /\ r'.arg = 4 /\ r'.state = "complete" /\ r'.err = "" /\ r'.pc = "idle" /\ r'.done = 0 + 1
  BY <1>1, <1>3, Zenon DEF Reader
<1>5. 0 + 1 = 1 /\ 0 + 1 \in Nat /\ 4 # 1 BY LastRead, Zenon
<1>6. r' \in Reader BY <1>1, <1>3, <1>5, Zenon DEF Reader, States
<1>7. ~isReadingArgument' BY <1>4, Zenon DEF isReadingArgument
<1>8. ControlOK' BY <1>4, <1>5, <1>7, Zenon DEF ControlOK
<1>9. OutOK'
  <2> SUFFICES ASSUME NEW i \in Args
               PROVE  (/\ At(lens, out[i], Start(lens, i)) /\ Len(out[i]) <= lens[i]
                       /\ i < r.arg - 1 \/ (i < r.arg /\ ~isReadingArgument) => Len(out[i]) = lens[i]
                       /\ i >= r.arg => out[i] = <<>>)'
    BY Zenon DEF OutOK
  <2>1. /\ At(lens, out[i], Start(lens, i)) /\ Len(out[i]) <= lens[i]
        /\ i < r.arg - 1 => Len(out[i]) = lens[i]
    BY <1>1, Zenon DEF OutOK
  <2>2. i < 4 - 1 \/ i = 3 BY LastRead, Zenon
  <2>3. ~(i >= 4) BY LastRead, Zenon
  <2>4. Len(out[i]) = lens[i]
    <3>1. CASE i < 4 - 1 BY <1>3, <2>1, <3>1, Zenon
    <3>2. CASE i = 3
      <4>1. ReadArg = 3 BY <1>3, InReading, Sums, Zenon
      <4> QED BY <3>2, <4>1, Closing, Zenon
    <3> QED BY <2>2, <3>1, <3>2, Zenon
  <2> QED BY <1>2, <1>4, <2>1, <2>3, <2>4, Zenon
<1>10. FetchedOK'
  <2>1. At(lens, rsum, 0) BY <1>1, Zenon DEF FetchedOK
  <2> QED BY <1>2, <1>4, <2>1, Zenon DEF FetchedOK
<1>11. BlameOK' BY <1>4, Zenon DEF BlameOK
<1>12. ChainOK' BY <1>4, Zenon DEF ChainOK
<1> QED BY <1>1, <1>2, <1>6, <1>8, <1>9, <1>10, <1>11, <1>12, ReaderStep, Zenon

\* Arithmetic of the argument after the one that is closed
LEMMA NextRead ==
    /\ \A k \in {2, 3} : /\ (k - 1) + 1 = k /\ k \in Args /\ k >= k /\ \A n \in Nat : n > 0 => k + (n - 1) = (k - 1) + n
                         /\ \A i \in Args : i < k => i < k - 1 \/ i = k - 1
                         /\ \A i \in Args : i < k - 1 => i < k
    /\ \A n \in Nat : n + 0 = n
BY SMT DEF Args

\* Close of an argument with chunks left in the fragment: the next argument begins.
LEMMA NextKeeps ==
    ASSUME FragInv, r.err = "", r.pc = "idle", isReadingArgument, r.eof, r.state # "inLast",
           r' = [r EXCEPT !.state = "waiting", !.cur = Head(r.rest), !.rest = Tail(r.rest)], UNCHANGED <<rsum, out>>,
           UNCHANGED <<lens, wVars, net, failed, damaged>>
    PROVE  FragInv'
<1>1. /\ r \in Reader /\ rsum \in Seq(Bytes) /\ net \in Seq(Fragment) /\ out \in [Args -> Seq(Bytes)]
      /\ lens \in [Args -> Nat] /\ ControlOK /\ OutOK /\ FetchedOK
  BY Zenon DEF FragInv, FragTypeOK
<1>2. /\ lens' = lens /\ w' = w /\ sum' = sum /\ net' = net /\ failed' = failed /\ damaged' = damaged /\ rsum' = rsum
      /\ out' = out /\ UNCHANGED <<lens, wVars, failed, damaged>>
  BY Zenon DEF wVars
<1>3. PICK a : a = ReadArg BY Zenon
<1>4. r.state = "in" /\ r.arg \in {2, 3} /\ a = r.arg - 1 /\ NextArg = a + Len(r.rest) /\ r.rest \in Seq(Seq(Bytes))
  BY <1>3, InReading, Zenon
<1>5. a + 1 = r.arg /\ r.arg \in Args /\ r.arg >= r.arg BY <1>4, NextRead, Zenon
<1>6. PICK t \in Seq(Seq(Bytes)), k \in {2, 3} : t = r.rest /\ k = r.arg BY <1>4, Zenon
<1>7. /\ Len(out[a]) = lens[a] /\ Len(t) > 0
      /\ Layout(lens, t, k, Start(lens, k)) /\ Contents(lens, t, k, Start(lens, k))
      /\ End(lens, t, k, Start(lens, k)) = Len(rsum)
  BY <1>3, <1>4, <1>5, <1>6, Closing, Zenon
<1>8. PICK c, u : c = Head(t) /\ u = Tail(t) BY Zenon
<1>9. c \in Seq(Bytes) /\ u \in Seq(Seq(Bytes)) /\ Len(u) = Len(t) - 1 /\ <<c>> \o u = t BY <1>7, <1>8, HeadTail, Zenon
<1>10. r' = [r EXCEPT !.state = "waiting", !.cur = c, !.rest = u] BY <1>6, <1>8, Zenon
<1>11. r' \in Reader BY <1>1, <1>9, <1>10, Zenon DEF Reader, States
<1>12. /\ r'.arg = k /\ r'.state = "waiting" /\ r'.err = "" /\ r'.cur = c /\ r'.rest = u /\ r'.more = r.more
       /\ r'.pc = "idle" /\ r'.eof = r.eof /\ r'.done = r.done
  BY <1>1, <1>6, <1>10, Zenon DEF Reader
<1>13. ~isReadingArgument' BY <1>12, Zenon DEF isReadingArgument
<1>14. ControlOK'
  <2>1. r.done = 0 /\ k # 1
    <3>1. k # 1 BY LastRead, Zenon
    <3> QED BY <1>1, <1>4, <3>1, Zenon DEF ControlOK
  <2> QED BY <1>12, <1>13, <2>1, Zenon DEF ControlOK
<1>15. OutOK'
  <2> SUFFICES ASSUME NEW i \in Args
               PROVE  (/\ At(lens, out[i], Start(lens, i)) /\ Len(out[i]) <= lens[i]
                       /\ i < r.arg - 1 \/ (i < r.arg /\ ~isReadingArgument) => Len(out[i]) = lens[i]
                       /\ i >= r.arg => out[i] = <<>>)'
    BY Zenon DEF OutOK
  <2>1. /\ At(lens, out[i], Start(lens, i)) /\ Len(out[i]) <= lens[i]
        /\ i < k - 1 => Len(out[i]) = lens[i]
        /\ i >= k => out[i] = <<>>
    BY <1>1, <1>6, Zenon DEF OutOK
  <2>2. i < k => i < k - 1 \/ i = k - 1 BY NextRead, Zenon
  <2>3. i = k - 1 => Len(out[i]) = lens[i] BY <1>4, <1>6, <1>7, Zenon
  <2>4. i < k - 1 \/ (i < k /\ ~isReadingArgument') => Len(out[i]) = lens[i] BY <2>1, <2>2, <2>3, Zenon
  <2> QED BY <1>2, <1>12, <2>1, <2>4, Zenon
<1>16. ReadArg' = k BY <1>12, Zenon DEF ReadArg
<1>17. NextArg' = NextArg
  <2>1. NextArg' = ReadArg' + Len(r'.rest) BY <1>12, Zenon DEF NextArg
  <2>2. NextArg' = k + (Len(t) - 1) BY <1>9, <1>12, <1>16, <2>1, Zenon
  <2>3. Len(t) \in Nat BY LenNat, Zenon
  <2>4. k + (Len(t) - 1) = (k - 1) + Len(t) BY <1>7, <2>3, NextRead, Zenon
  <2> QED BY <1>4, <1>6, <2>2, <2>4, Zenon
<1>18. FetchedAt' = Start(lens, k)
  <2>1. out[k] = <<>> BY <1>1, <1>5, <1>6, Zenon DEF OutOK
  <2>2. FetchedAt' = Start(lens', ReadArg') + Len(out'[ReadArg']) BY Zenon DEF FetchedAt, Start
  <2>3. FetchedAt' = Start(lens, k) + 0 BY <1>2, <1>16, <2>1, <2>2, LenZero, Zenon
  <2>4. Start(lens, k) \in Nat BY <1>1, <1>5, <1>6, StartNat, Zenon
  <2> QED BY <2>3, <2>4, NextRead, Zenon
<1>19. Fetched' = t BY <1>9, <1>12, Zenon DEF Fetched
<1>20. FetchedOK'
  <2>1. At(lens, rsum, 0) /\ (~r.more => NextArg = 3 /\ Len(rsum) = Start(lens, 4)) BY <1>1, <1>4, Zenon DEF FetchedOK
  <2> QED BY <1>2, <1>7, <1>12, <1>16, <1>17, <1>18, <1>19, <2>1, Zenon DEF FetchedOK
<1>21. BlameOK' BY <1>12, Zenon DEF BlameOK
<1>22. ChainOK' BY <1>2, <1>4, <1>12, <1>17, ChainReads, Zenon
<1> QED BY <1>1, <1>2, <1>11, <1>14, <1>15, <1>20, <1>21, <1>22, ReaderStep, Zenon

\* Close of an argument reader, which finds neither bytes left over nor chunks missing
LEMMA CloseReaderKeeps == ASSUME FragInv, closeReader PROVE FragInv'
<1>1. (r.eof \/ ~ToEOF) /\ UNCHANGED <<lens, wVars, net, failed, damaged>>
  BY Zenon DEF closeReader
<1>2. r.eof BY <1>1, Zenon DEF FragInv, closeReader
<1>3. /\ r.err = "" /\ r.pc = "idle" /\ isReadingArgument BY Zenon DEF closeReader
<1>4. r.cur = <<>> /\ (r.state = "inLast" => r.rest = <<>> /\ ~r.more) /\ (r.state # "inLast" => Len(r.rest) > 0)
  BY <1>2, <1>3, Closing, Zenon
<1>5. r.state # "inLast" => r.rest # <<>> BY <1>4, LenZero, Zenon
<1>6. CASE r.state = "inLast"
  <2>1. r' = [r EXCEPT !.state = "complete", !.done = @ + 1] /\ UNCHANGED <<rsum, out>>
    BY <1>4, <1>6, Zenon DEF closeReader
  <2> QED BY <1>1, <1>2, <1>3, <1>6, <2>1, CompleteKeeps, Zenon
<1>7. CASE r.state # "inLast"
  <2>1. r' = [r EXCEPT !.state = "waiting", !.cur = Head(r.rest), !.rest = Tail(r.rest)] /\ UNCHANGED <<rsum, out>>
    BY <1>4, <1>5, <1>7, Zenon DEF closeReader
  <2> QED BY <1>1, <1>2, <1>3, <1>7, <2>1, NextKeeps, Zenon
<1> QED BY <1>6, <1>7, Zenon

\* A reader that reads to the end never asks for a fragment when it closes an argument.
LEMMA CloseRecvKeeps == ASSUME FragInv, CloseRecv PROVE FragInv'
<1>1. r \in Reader /\ r.pc = "close" BY Zenon DEF FragInv, FragTypeOK, CloseRecv
<1>2. r.pc \in {"idle", "begin", "read", "recv"} BY <1>1, Zenon DEF Reader
<1> QED BY <1>1, <1>2, Zenon

\* The invariant holds when the call begins.
LEMMA FragInvInit == ASSUME ToEOF, FragInit PROVE FragInv
<1> USE FragmentsAssumption
<1>1. lens \in [Args -> Nat]
  <2>1. lens \in [Args -> 0..MaxLen] BY Zenon DEF FragInit
  <2>2. 0..MaxLen \subseteq Nat OBVIOUS
  <2> QED BY <2>1, <2>2, Zenon
<1>2. /\ w.arg = 1 /\ w.state = "start" /\ w.err = FALSE /\ w.open = FALSE /\ w.chunks = <<>> /\ w.pos = 0 /\ w.buf = 0
      /\ w.flush = FALSE
  BY Zenon DEF FragInit
<1>3. /\ r.arg = 1 /\ r.state = "start" /\ r.err = "" /\ r.cur = <<>> /\ r.rest = <<>> /\ r.more = TRUE /\ r.pc = "idle"
      /\ r.want = 0 /\ r.eof = FALSE /\ r.done = 0
  BY Zenon DEF FragInit
<1>4. /\ sum = <<>> /\ rsum = <<>> /\ net = <<>> /\ failed = {} /\ damaged = FALSE /\ out = [i \in Args |-> <<>>]
  BY Zenon DEF FragInit
<1>5. /\ <<>> \in Seq(Bytes) /\ <<>> \in Seq(Seq(Bytes)) /\ <<>> \in Seq(Fragment) /\ 1 \in 1..4 /\ 0 \in Nat
      /\ Len(<<>>) = 0 /\ 1 \in Args /\ ~(0 > 0) /\ 0 <= 1 - 1 /\ \A i \in Args : ~(i < 1 - 1) /\ ~(i < 1)
  <2>1. <<>> \in Seq(Bytes) /\ <<>> \in Seq(Seq(Bytes)) /\ <<>> \in Seq(Fragment) OBVIOUS
  <2>2. 1 \in 1..4 /\ 0 \in Nat /\ 1 \in Args /\ ~(0 > 0) /\ 0 <= 1 - 1 /\ \A i \in Args : ~(i < 1 - 1) /\ ~(i < 1)
    BY DEF Args
  <2> QED BY <2>1, <2>2, LenZero, Zenon
<1>6. w \in Writer /\ r \in Reader
  <2>1. w = [arg |-> 1, state |-> "start", err |-> FALSE, open |-> FALSE, chunks |-> <<>>,
             pos |-> 0, buf |-> 0, flush |-> FALSE]
    BY Zenon DEF FragInit
  <2>2. r = [arg |-> 1, state |-> "start", err |-> "", cur |-> <<>>, rest |-> <<>>,
             more |-> TRUE, pc |-> "idle", want |-> 0, eof |-> FALSE, done |-> 0]
    BY Zenon DEF FragInit
  <2>3. w \in Writer BY <1>5, <2>1, Zenon DEF Writer, States
  <2>4. r \in Reader BY <1>5, <2>2, Zenon DEF Reader, States
  <2> QED BY <2>3, <2>4
<1>7. \A i \in Args : out[i] = <<>> BY <1>4, Zenon
<1>8. out \in [Args -> Seq(Bytes)] BY <1>4, <1>5, Zenon
<1>9. FragTypeOK BY <1>1, <1>4, <1>5, <1>6, <1>8, Zenon DEF FragTypeOK
<1>10. WriterOK BY <1>2, <1>5, Zenon DEF WriterOK, isWritingArgument
<1>11. \A o : At(lens, <<>>, o) BY DEF At
<1>12. SumOK BY <1>2, <1>4, <1>11, Zenon DEF SumOK, isWritingArgument
<1>13. ControlOK BY <1>3, Zenon DEF ControlOK, isReadingArgument
<1>14. OutOK
  <2>1. \A i \in Args : 0 <= lens[i] BY <1>1
  <2> QED BY <1>3, <1>5, <1>7, <1>11, <2>1, Zenon DEF OutOK
<1>15. FetchedOK BY <1>3, <1>4, <1>11, Zenon DEF FetchedOK
<1>16. BlameOK BY <1>3, Zenon DEF BlameOK
<1>17. ChainOK
  <2>1. NextArg = 1 BY <1>3, Zenon DEF NextArg
  <2>2. Len(net) = 0 BY <1>4, <1>5, Zenon
  <2>3. 0 + 1 = 1 /\ 1..0 = {} /\ 1 \in 1..1 OBVIOUS
  <2>4. Before(1) = 0 BY <1>4, <1>5, Zenon DEF Before
  <2>5. PICK A : A = [i \in 1..1 |-> 1] BY Zenon
  <2>6. A \in [1..Len(net) + 1 -> Args] /\ A[1] = 1 BY <1>5, <2>2, <2>3, <2>5, Zenon
  <2>7. Writing(1, 0) BY <1>2, Zenon DEF Writing
  <2>8. Chain(A) BY <2>1, <2>2, <2>3, <2>4, <2>6, <2>7, Zenon DEF Chain
  <2> QED BY <2>6, <2>8, Zenon DEF ChainOK
<1> QED BY <1>9, <1>10, <1>12, <1>13, <1>14, <1>15, <1>16, <1>17, Zenon DEF FragInv

\* The arguments that can be begun
LEMMA Arguments == \A k \in 1..4 : k < 4 => k \in Args
BY SMT DEF Args

\* Writes and buffers are of some length.
LEMMA Lengths == \A n \in 1..MaxLen : n \in Nat
BY FragmentsAssumption

\* Every call of the two applications, every fragment received and every failure keeps the
\* invariant.
LEMMA FragInvNext == ASSUME FragInv, [FragNext]_fragVars PROVE FragInv'
<1>1. w \in Writer /\ r \in Reader BY Zenon DEF FragInv, FragTypeOK
<1>2. /\ w.arg \in 1..4 /\ r.arg \in 1..4 BY <1>1, Zenon DEF Writer, Reader
<1>3. (w.arg < 4 => w.arg \in Args) /\ (r.arg < 4 => r.arg \in Args) BY <1>2, Arguments, Zenon
<1>4. \A n \in 1..MaxLen : n \in Nat BY Lengths, Zenon
<1>5. ASSUME WriterCall PROVE FragInv'
  BY <1>3, <1>4, <1>5, WriteKeeps, FitsKeeps, CloseWriterKeeps, FlushKeeps, ArgWriterKeeps, Zenon DEF WriterCall
<1>6. ASSUME ReaderCall PROVE FragInv'
  BY <1>3, <1>4, <1>6, BeginRecvKeeps, ReadKeeps, ReadChunkKeeps, ReadRecvKeeps, CloseReaderKeeps, CloseRecvKeeps,
     ArgReaderKeeps, Zenon DEF ReaderCall
<1>7. ASSUME Misuse PROVE FragInv'
  BY <1>7, WriterNotOpenKeeps, ReaderNotOpenKeeps, ArgWriterKeeps, ArgReaderKeeps, Zenon DEF Misuse
<1>8. ASSUME UNCHANGED fragVars PROVE FragInv'
  <2>1. /\ lens' = lens /\ w' = w /\ sum' = sum /\ net' = net /\ r' = r /\ rsum' = rsum /\ out' = out
        /\ failed' = failed /\ damaged' = damaged
    BY <1>8, Zenon DEF fragVars
  <2>2. UNCHANGED <<lens, wVars, failed, damaged>> BY <2>1, Zenon DEF wVars
  <2>3. /\ rsum \in Seq(Bytes) /\ net \in Seq(Fragment) /\ out \in [Args -> Seq(Bytes)]
        /\ ControlOK /\ OutOK /\ FetchedOK /\ BlameOK
    BY Zenon DEF FragInv, FragTypeOK
  <2>4. isReadingArgument' = isReadingArgument /\ ReadArg' = ReadArg /\ Fetched' = Fetched
    BY <2>1, Zenon DEF isReadingArgument, ReadArg, Fetched
  <2>5. NextArg' = NextArg BY <2>1, <2>4, Zenon DEF NextArg
  <2>6. FetchedAt' = FetchedAt BY <2>1, <2>4, Zenon DEF FetchedAt
  <2>7. ControlOK' BY <2>1, <2>3, <2>4, Zenon DEF ControlOK
  <2>8. OutOK' BY <2>1, <2>3, <2>4, Zenon DEF OutOK
  <2>9. FetchedOK' BY <2>1, <2>3, <2>4, <2>5, <2>6, Zenon DEF FetchedOK
  <2>10. BlameOK' BY <2>1, <2>3, Zenon DEF BlameOK
  <2>11. ChainOK' BY <2>1, <2>5, ChainReads, Zenon
  <2> QED BY <1>1, <2>1, <2>2, <2>3, <2>7, <2>8, <2>9, <2>10, <2>11, ReaderStep, Zenon
<1> QED
  BY <1>5, <1>6, <1>7, <1>8, FlushKeeps, SystemErrorKeeps, ExchangeFailsKeeps, DamageKeeps, Zenon DEF FragNext

\* The invariant holds, for an application that reads every argument until io.EOF.
LEMMA FragInvariant == ToEOF /\ FragSpec => []FragInv
<1>1. ToEOF /\ FragInit => FragInv BY FragInvInit, Zenon
<1>2. FragInv /\ [FragNext]_fragVars => FragInv' BY FragInvNext, Zenon
<1> QED BY <1>1, <1>2, PTL DEF FragSpec

\* The bytes of a stream at an argument's place are the argument's.
LEMMA StreamIsArg ==
    ASSUME FragInv, NEW i \in Args
    PROVE  /\ \E n \in 0..lens[i] : out[i] = SubSeq(Arg(i), 1, n)
           /\ Len(out[i]) = lens[i] => out[i] = Arg(i)
<1>1. lens \in [Args -> Nat] /\ out[i] \in Seq(Bytes) /\ At(lens, out[i], Start(lens, i)) /\ Len(out[i]) <= lens[i]
  BY Zenon DEF FragInv, FragTypeOK, OutOK
<1>2. PICK s \in Seq(Bytes), l \in Nat : s = out[i] /\ l = lens[i] BY <1>1, Zenon
<1>3. Arg(i) = [j \in 1..l |-> <<i, j>>] BY <1>2, Zenon DEF Arg
<1>4. PICK g : g = Arg(i) BY Zenon
<1>5. Len(s) \in Nat /\ Len(s) <= l /\ \A j \in 1..Len(s) : j \in 1..l BY <1>1, <1>2
<1>6. \A j \in 1..Len(s) : s[j] = g[j]
  <2> SUFFICES ASSUME NEW j \in 1..Len(s) PROVE s[j] = g[j] BY Zenon
  <2>1. s[j] = Stream(lens, Start(lens, i) + j) BY <1>1, <1>2, Zenon DEF At
  <2>2. j \in 1..lens[i] BY <1>2, <1>5, Zenon
  <2>3. Stream(lens, Start(lens, i) + j) = <<i, j>> BY <1>1, <2>2, StreamArg, Zenon
  <2>4. g[j] = <<i, j>> BY <1>3, <1>4, <1>5, Zenon
  <2> QED BY <2>1, <2>3, <2>4, Zenon
<1>7. g \in Seq(Bytes) /\ Len(g) = l
  <2>1. g = [j \in 1..l |-> <<i, j>>] BY <1>3, <1>4, Zenon
  <2>2. \A j \in 1..l : <<i, j>> \in Bytes BY DEF Bytes, Args
  <2> QED BY <2>1, <2>2
<1>8. Len(s) \in 0..l /\ s = SubSeq(g, 1, Len(s)) BY <1>5, <1>6, <1>7
<1>9. Len(s) = l => s = g BY <1>5, <1>6, <1>7
<1> QED BY <1>2, <1>4, <1>8, <1>9, Zenon

\* Whatever fragments the writer cut, whatever buffers the reader used and whatever was damaged,
\* what argReader hands out of an argument is what was written of it, in order, and all of it
\* once the argument is closed (fragmentingWriter, fragmentingReader), for every length of the
\* arguments and every fragment size, when the application reads each argument to its end.
THEOREM ArgumentsArriveIntact == ToEOF /\ FragSpec => []ArgumentsIntact
<1>1. FragInv => ArgumentsIntact
  <2> SUFFICES ASSUME FragInv PROVE ArgumentsIntact OBVIOUS
  <2>1. \A i \in Args : i < r.arg - 1 \/ (i < r.arg /\ ~isReadingArgument) => Len(out[i]) = lens[i]
    BY Zenon DEF FragInv, OutOK
  <2> QED BY <2>1, StreamIsArg, Zenon DEF ArgumentsIntact
<1> QED BY <1>1, FragInvariant, PTL

\* Such a reader fails only for the exchange, an error frame, a damaged fragment or a call out
\* of turn, and doneReading runs once, at the end or for an error frame.
THEOREM FailuresJustified == ToEOF /\ FragSpec => []ErrorsJustified
<1>1. FragInv => ErrorsJustified
  <2> SUFFICES ASSUME FragInv PROVE ErrorsJustified OBVIOUS
  <2>1. r \in Reader BY Zenon DEF FragInv, FragTypeOK
  <2>2. r.err \in {"", "mex", "peer", "order", "checksum"} BY <2>1, Zenon DEF Reader
  <2> QED BY <2>2, Zenon DEF FragInv, BlameOK, WriterOK, ControlOK, ErrorsJustified
<1> QED BY <1>1, FragInvariant, PTL
=============================================================================
