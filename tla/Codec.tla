------------------------------- MODULE Codec -------------------------------
(***************************************************************************)
(* Frames and messages on the wire: the typed buffers, the messages, and   *)
(* the second parser of call requests that the relay has, which reads them *)
(* by their offsets, appends headers to arg2 and forwards them (typed/,    *)
(* frame.go, messages.go, relay_messages.go, relay.go, thrift/headers.go,  *)
(* thrift/arg2).                                                           *)
(*                                                                         *)
(* A byte is a digit to the base Base, which is 256 in the code, so that   *)
(* one-byte and two-byte lengths reach their limits in small messages.     *)
(***************************************************************************)
EXTENDS Integers, Sequences, SequencesExt

CONSTANTS Base,             \* 256
          FrameHeaderSize,  \* 16
          TtlLen,           \* 4
          SpanLen,          \* 25
          CsumLen,          \* 4
          MaxHeaders        \* bound on the transport headers of a request

ASSUME CodecAssumption == Base \in 8..256 /\ FrameHeaderSize \in 1..Base /\ MaxHeaders \in Nat

Uint8 == Base
Uint16 == Base * Base
MaxFrameSize == Uint16 - 1
MaxFramePayloadSize == MaxFrameSize - FrameHeaderSize

(***************************************************************************)
(* typed.ReadBuffer and typed.WriteBuffer.  After the first error nothing  *)
(* more is read or written, and values read are empty.                     *)
(***************************************************************************)
\* Big-endian numbers
Put(n, w) == [i \in 1..w |-> (n \div Base^(w - i)) % Base]
Num(bs) == FoldLeft(LAMBDA n, b : n * Base + b, 0, bs)

\* A reader: what remains, and the values that were read
NewReadBuffer(bs) == [rem |-> bs, ok |-> TRUE, vals |-> <<>>]
Fail(r) == [r EXCEPT !.ok = FALSE, !.vals = Append(@, <<>>)]
ReadBytes(r, n) ==
    IF r.ok /\ n <= Len(r.rem)
    THEN [rem |-> SubSeq(r.rem, n + 1, Len(r.rem)), ok |-> TRUE, vals |-> Append(r.vals, SubSeq(r.rem, 1, n))]
    ELSE Fail(r)
\* ReadLen8String (w = 1) and ReadLen16String (w = 2)
ReadLen(r, w) ==
    IF r.ok /\ w <= Len(r.rem)
    THEN ReadBytes([r EXCEPT !.rem = SubSeq(@, w + 1, Len(@))], Num(SubSeq(r.rem, 1, w)))
    ELSE Fail(r)

\* Pairs of strings with lengths of w bytes, after their number of w bytes
ReadPairs(r, w) ==
    LET n == ReadBytes(r, w)
        strings == FoldLeft(LAMBDA x, i : ReadLen(x, w), [n EXCEPT !.vals = <<>>],
                            [i \in 1..2 * Num(Last(n.vals)) |-> i])
    IN [strings EXCEPT !.vals =
          Append(r.vals, [i \in 1..Len(@) \div 2 |-> <<@[2 * i - 1], @[2 * i]>>])]

NewWriteBuffer(cap) == [cap |-> cap, out |-> <<>>, ok |-> TRUE]
WriteBytes(b, bs) ==
    IF b.ok /\ Len(b.out) + Len(bs) <= b.cap THEN [b EXCEPT !.out = @ \o bs] ELSE [b EXCEPT !.ok = FALSE]
WriteNum(b, n, w) == WriteBytes(b, Put(n, w))

\* mutant: the length is not checked before it is cut to its width
WriteLen_Wraps(b, s, w) == WriteBytes(WriteNum(b, Len(s), w), s)

\* WriteLen8String and WriteLen16String
WriteLen(b, s, w) ==
    WriteBytes(WriteNum([b EXCEPT !.ok = @ /\ Len(s) < Base^w], Len(s), w), s)

WritePairs(b, pairs, w) == FoldLeft(LAMBDA x, kv : WriteLen(WriteLen(x, kv[1], w), kv[2], w), b, pairs)

\* transportHeaders.write
WriteHeaders8(b, pairs) == WritePairs(WriteNum(b, Len(pairs), 1), pairs, 1)

\* A map read from pairs: of two with the same key the later stays.
Value(pairs, k) ==
    LET S == {i \in DOMAIN pairs : pairs[i][1] = k} IN
    IF S = {} THEN <<>> ELSE pairs[CHOOSE i \in S : \A j \in S : j <= i][2]

\* The type of a checksum and the checksum: none, crc32, farmhash, crc32C
ChecksumSize(t) == IF t \in 1..3 THEN CsumLen ELSE 0
ReadChecksum(r) ==
    LET type == ReadBytes(r, 1) IN ReadBytes(type, ChecksumSize(Num(Last(type.vals))))

\* The fields of a message in the order they are read
ReadField(r, f) ==
    CASE f[1] = "bytes" -> ReadBytes(r, f[2])
      [] f[1] = "string" -> ReadLen(r, f[2])
      [] f[1] = "pairs" -> ReadPairs(r, f[2])
      [] f[1] = "checksum" -> ReadChecksum(r)
Read(r, fields) == FoldLeft(ReadField, r, fields)

(***************************************************************************)
(* messages.go                                                             *)
(***************************************************************************)
\* callReq.read and write
ReadCallReq(r) ==
    Read(r, <<<<"bytes", TtlLen>>, <<"bytes", SpanLen>>, <<"string", 1>>, <<"pairs", 1>>>>)
CallReq(v) == [ttl |-> Num(v[1]), span |-> v[2], service |-> v[3], headers |-> v[4]]
WriteCallReq(b, m) ==
    WriteHeaders8(WriteLen(WriteBytes(WriteNum(b, m.ttl, TtlLen), m.span), m.service, 1), m.headers)

\* callRes.read and write
ReadCallRes(r) == Read(r, <<<<"bytes", 1>>, <<"bytes", SpanLen>>, <<"pairs", 1>>>>)
CallRes(v) == [code |-> Num(v[1]), span |-> v[2], headers |-> v[3]]
WriteCallRes(b, m) == WriteHeaders8(WriteBytes(WriteNum(b, m.code, 1), m.span), m.headers)

\* errorMessage.read and write
ReadError(r) == Read(r, <<<<"bytes", 1>>, <<"bytes", SpanLen>>, <<"string", 2>>>>)
ErrorMessage(v) == [code |-> Num(v[1]), span |-> v[2], message |-> v[3]]
WriteError(b, m) == WriteLen(WriteBytes(WriteNum(b, m.code, 1), m.span), m.message, 2)

\* initMessage.read and write
ReadInit(r) == Read(r, <<<<"bytes", 2>>, <<"pairs", 2>>>>)
InitMessage(v) == [version |-> Num(v[1]), params |-> v[2]]
WriteInit(b, m) == WritePairs(WriteNum(WriteNum(b, m.version, 2), Len(m.params), 2), m.params, 2)

(***************************************************************************)
(* thrift/headers.go and thrift/arg2: two readers of the headers in arg2   *)
(***************************************************************************)
WriteHeaders(pairs) == Put(Len(pairs), 2) \o WritePairs(NewWriteBuffer(Uint16), pairs, 2).out
ReadHeaders(bs) == LET r == ReadPairs(NewReadBuffer(bs), 2) IN [ok |-> r.ok, val |-> Last(r.vals)]

\* The pairs that KeyValIterator.Next returns before an error, which is io.EOF at the end
RECURSIVE Iterate(_, _, _)
Iterate(left, rem, pairs) ==
    IF left = 0 THEN pairs
    ELSE LET kv == Read(NewReadBuffer(rem), <<<<"string", 2>>, <<"string", 2>>>>) IN
         IF ~kv.ok THEN pairs ELSE Iterate(left - 1, kv.rem, Append(pairs, kv.vals))
NewKeyValIterator(bs) ==
    IF Len(bs) < 2 THEN <<>> ELSE Iterate(Num(SubSeq(bs, 1, 2)), SubSeq(bs, 3, Len(bs)), <<>>)
=============================================================================
