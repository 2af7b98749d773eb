---------------------------- MODULE RelayFrames ----------------------------
(***************************************************************************)
(* A call request, in one or two frames, that a peer sends, the relay looks *)
(* at and forwards, with or without headers appended to arg2, and the       *)
(* destination reads (frame.go, relay_messages.go, relay.go, reqres.go,     *)
(* fragmenting_reader.go).  The peer may be of another implementation: it   *)
(* repeats headers, cuts the arguments anywhere, uses any checksum type and *)
(* may send a wrong size in the frame header.                               *)
(***************************************************************************)
EXTENDS Codec

CONSTANTS MaxTimeout    \* Relayer.maxTimeout

VARIABLES req,      \* the call request: message, checksum type, chunks of its frames
          size,     \* the size field in the header of the first frame
          appends   \* lazyCallReq.arg2Appends

frameVars == <<req, size, appends>>

ArgScheme == <<1>>
CallerName == <<2>>
RoutingDelegate == <<3>>
RoutingKey == <<4>>
Thrift == <<5>>

(***************************************************************************)
(* Checksums of type 0 none, 1 crc32, 2 farmhash, 3 crc32C                  *)
(***************************************************************************)
valid(t) == t < 4
\* ChecksumType.New: there is no farmhash, its checksum is the null one.
NewChecksum(t) == IF t = 2 THEN 0 ELSE t
\* The hash is external; it depends on every byte and their order.
Hash(bs) == FoldLeft(LAMBDA h, b : (3 * h + b + 1) % Base^CsumLen, 0, bs)
Sum(t, bs) == IF t \in {1, 3} THEN Put(Hash(bs), CsumLen) ELSE <<>>

(***************************************************************************)
(* The frames of the peer                                                   *)
(***************************************************************************)
MoreFlag(more) == IF more THEN 1 ELSE 0
Chunks(cs) == FoldLeft(LAMBDA bs, c : bs \o Put(Len(c), 2) \o c, <<>>, cs)

\* The payload of the first frame, and of the frame that continues it
Initial(q) ==
    <<MoreFlag(q.more)>> \o WriteCallReq(NewWriteBuffer(MaxFramePayloadSize), q.msg).out
    \o <<q.csum>> \o Sum(q.csum, FlattenSeq(q.chunks))
    \o (IF q.csum = 2 THEN Put(0, CsumLen) ELSE <<>>) \o Chunks(q.chunks)
Continued(q) ==
    <<0, q.csum>> \o Sum(q.csum, FlattenSeq(q.chunks) \o q.rest)
    \o (IF q.csum = 2 THEN Put(0, CsumLen) ELSE <<>>) \o Chunks(<<q.rest>>)

\* FrameHeader.PayloadSize, of 16 bits
PayloadSize(n) == (n - FrameHeaderSize + Uint16) % Uint16

\* Frame.ReadBody: the payload of the first frame, unless the size is invalid or the stream
\* has no more
ReadBody ==
    LET n == PayloadSize(size) IN
    IF n > MaxFramePayloadSize \/ n > Len(Initial(req)) THEN [ok |-> FALSE, payload |-> <<>>]
    ELSE [ok |-> TRUE, payload |-> IF n > 0 THEN SubSeq(Initial(req), 1, n) ELSE <<>>]

(***************************************************************************)
(* The destination: parseInboundFragment and recvAndParseNextFragment       *)
(***************************************************************************)
RECURSIVE ReadChunks(_, _)
ReadChunks(r, cs) ==
    IF r.rem = <<>> \/ ~r.ok THEN [ok |-> r.ok, chunks |-> cs]
    ELSE LET c == ReadLen(r, 2) IN ReadChunks(c, IF c.ok THEN Append(cs, Last(c.vals)) ELSE cs)

\* A fragment, read up to its checksum by r, that continues a call with checksum type was
\* (-1 for the first) and the bytes seen
Fragment(r, was, seen) ==
    LET t == Num(r.vals[Len(r.vals) - 1])
        cs == ReadChunks(r, <<>>) IN
    [ok |-> /\ r.ok /\ valid(t) /\ cs.ok /\ cs.chunks # <<>>
            /\ was \in {-1, t}
            /\ Last(r.vals) = Sum(NewChecksum(t), seen \o FlattenSeq(cs.chunks)),
     csum |-> NewChecksum(t), chunks |-> cs.chunks]

\* What the destination makes of the first frame's payload
Receive(payload) ==
    LET r == Read(ReadCallReq(ReadBytes(NewReadBuffer(payload), 1)), <<<<"checksum">>>>)
        f == Fragment(r, -1, <<>>) IN
    [ok |-> f.ok, msg |-> CallReq(Tail(r.vals)), more |-> Num(r.vals[1]) % 2 = 1,
     csum |-> f.csum, chunks |-> f.chunks]

\* And of the frame that continues it
ReceiveMore(first, payload) ==
    Fragment(Read(NewReadBuffer(payload), <<<<"bytes", 1>>, <<"checksum">>>>), first.csum,
             FlattenSeq(first.chunks))

(***************************************************************************)
(* The relay: newLazyCallReq                                                *)
(***************************************************************************)
\* mutant: the first of two equal headers is taken
Header_First(pairs, k) ==
    LET S == {i \in DOMAIN pairs : pairs[i][1] = k} IN
    IF S = {} THEN <<>> ELSE pairs[CHOOSE i \in S : \A j \in S : j >= i][2]

\* The value the loop over the headers leaves for key k
Header(pairs, k) == Value(pairs, k)

serviceLenIndex == 1 + TtlLen + SpanLen
BytesRead(payload, r) == Len(payload) - Len(r.rem)

newLazyCallReq(payload) ==
    LET headers == Read(NewReadBuffer(payload), <<<<"bytes", serviceLenIndex>>, <<"string", 1>>, <<"pairs", 1>>>>)
        arg2 == Read([headers EXCEPT !.vals = <<>>], <<<<"checksum">>, <<"string", 2>>, <<"string", 2>>>>)
        t == Num(arg2.vals[1])
        arg2Start == BytesRead(payload, arg2) - Len(arg2.vals[4])
        fragmented == arg2.rem = <<>> /\ payload[1] % 2 = 1
        arg3 == IF fragmented THEN arg2 ELSE ReadBytes(arg2, 2)
        header(k) == Header(headers.vals[3], k)
    IN [ok |-> arg3.ok /\ valid(t), csum |-> t, csumOffset |-> BytesRead(payload, headers),
        caller |-> header(CallerName), delegate |-> header(RoutingDelegate), key |-> header(RoutingKey),
        as |-> header(ArgScheme), method |-> arg2.vals[3], arg2Start |-> arg2Start,
        arg2End |-> (arg2Start + Len(arg2.vals[4])) % Uint16,
        fragmented |-> fragmented, arg3Start |-> BytesRead(payload, arg3)]

Slice(payload, from, to) == SubSeq(payload, from + 1, to)
Service(payload) ==
    Slice(payload, serviceLenIndex + 1, serviceLenIndex + 1 + payload[serviceLenIndex + 1])
Arg2(payload, lazy) == Slice(payload, lazy.arg2Start, lazy.arg2End)
Arg3(payload, lazy) == Slice(payload, lazy.arg3Start, Len(payload))
TTL(payload) == Num(Slice(payload, 1, 1 + TtlLen))
SetTTL(payload, ttl) == SubSeq(payload, 1, 1) \o Put(ttl, TtlLen) \o SubSeq(payload, 2 + TtlLen, Len(payload))

\* The relay's limit on the time to live
Limited(payload) == IF TTL(payload) > MaxTimeout THEN SetTTL(payload, MaxTimeout) ELSE payload

writeArg2WithAppends(arg2) ==
    Put(Num(SubSeq(arg2, 1, 2)) + Len(appends), 2) \o SubSeq(arg2, 3, Len(arg2))
    \o WritePairs(NewWriteBuffer(Uint16), appends, 2).out

\* handleCallReq up to the forwarding: the payload, in one frame when there is room for the
\* appends (Fragments has the case that there is not), and the running checksum for what
\* follows
fragmentingSend(payload, lazy) ==
    IF lazy.fragmented \/ lazy.as # Thrift \/ Len(Arg2(payload, lazy)) < 2
    THEN [ok |-> FALSE, payload |-> <<>>, csum |-> 0, seen |-> <<>>]
    ELSE LET t == NewChecksum(lazy.csum)
             chunks == <<lazy.method, writeArg2WithAppends(Arg2(payload, lazy)), Arg3(payload, lazy)>> IN
         [ok |-> TRUE, csum |-> t, seen |-> FlattenSeq(chunks),
          payload |-> SubSeq(payload, 1, lazy.csumOffset) \o <<t>> \o Sum(t, FlattenSeq(chunks)) \o Chunks(chunks)]

\* mutant: the checksum of a continued frame is left as the peer computed it
updateMutatedCallReqContinueChecksum_Skip(payload, sent) == payload

updateMutatedCallReqContinueChecksum(payload, sent) ==
    LET sum == Read(NewReadBuffer(payload), <<<<"bytes", 2>>, <<"bytes", ChecksumSize(sent.csum)>>>>)
        chunk == ReadLen(sum, 2) IN
    SubSeq(payload, 1, 2) \o Sum(sent.csum, sent.seen \o Last(chunk.vals)) \o sum.rem

(***************************************************************************)
(* Requests                                                                 *)
(***************************************************************************)
Kv == {<<<<6>>, <<7>>>>, <<<<6>>, <<>>>>}
Arg2s == {<<>>, <<0>>, <<0, 0>>} \cup {WriteHeaders(<<kv>>) : kv \in Kv}
         \cup {WriteHeaders(<<<<<<6>>, <<7>>>>, <<<<6>>, <<>>>>>>)}
         \cup {<<0, 2>> \o SubSeq(WriteHeaders(<<kv>>), 3, 7) : kv \in Kv}
Layouts == {<<<<1>>>>} \cup {<<<<1>>, a>> : a \in Arg2s} \cup {<<<<1>>, a, <<2>>>> : a \in Arg2s}

FrameInit ==
    /\ \E more \in BOOLEAN, csum \in {0, 1, 2, 4}, chunks \in Layouts :
          req = [msg |-> [ttl |-> IF more THEN MaxTimeout ELSE MaxTimeout + 1, span |-> Put(7, SpanLen),
                          service |-> <<6, 7>>, headers |-> <<>>],
                 more |-> more, csum |-> csum, chunks |-> chunks, rest |-> <<3, 3>>]
    /\ size = FrameHeaderSize + Len(Initial(req))
    /\ appends = <<>>

Whole == size = FrameHeaderSize + Len(Initial(req))

AddHeader(k, v) ==
    /\ Len(req.msg.headers) < MaxHeaders /\ Whole /\ appends = <<>>
    /\ req' = [req EXCEPT !.msg.headers = Append(@, <<k, v>>)]
    /\ size' = FrameHeaderSize + Len(Initial(req'))
    /\ UNCHANGED appends

\* The frame header has another size.
Resize(n) ==
    /\ Len(req.msg.headers) < MaxHeaders /\ Whole /\ appends = <<>>
    /\ size' = n
    /\ UNCHANGED <<req, appends>>

\* The relay host appends a header.
Arg2Append(kv) == Whole /\ Len(appends) < 2 /\ appends' = Append(appends, kv) /\ UNCHANGED <<req, size>>

FrameNext ==
    \/ \E kv \in {<<ArgScheme, Thrift>>, <<ArgScheme, <<>>>>, <<CallerName, <<6>>>>} : AddHeader(kv[1], kv[2])
    \/ \E n \in 0..size - 1 : Resize(n)
    \/ \E kv \in Kv : Arg2Append(kv)

FrameSpec == FrameInit /\ [][FrameNext]_frameVars

(***************************************************************************)
(* Properties                                                               *)
(***************************************************************************)
\* The relay and the destination agree on every call request that reaches arg2 in its first
\* frame: the relay reads the same service, time to live, caller, routing headers, argument
\* scheme, method and arguments by offsets as the destination by messages and chunks, and
\* takes arg2 for fragmented exactly if arg3 does not begin in the frame.  The relay host's
\* iterator over arg2 and the destination's ReadHeaders return the same pairs.  Both see the
\* payload that was sent, whatever size the frame header has: the subtraction of the header's
\* size in 16 bits (PayloadSize) never makes a small size a large payload.
ParsersAgree ==
    /\ ReadBody.ok => /\ size >= FrameHeaderSize
                      /\ ReadBody.payload = SubSeq(Initial(req), 1, size - FrameHeaderSize)
    /\ \A i \in DOMAIN req.chunks :
         LET h == ReadHeaders(req.chunks[i]) IN h.ok => NewKeyValIterator(req.chunks[i]) = h.val
    /\ ReadBody.ok =>
       \A payload \in {ReadBody.payload} : \A full \in {Receive(payload)} :
       full.ok /\ Len(full.chunks) >= 2 /\ (full.more \/ Len(full.chunks) = 3) =>
       \A lazy \in {newLazyCallReq(payload)} :
         /\ lazy.ok
         /\ Service(payload) = full.msg.service /\ TTL(payload) = full.msg.ttl
         /\ lazy.caller = Value(full.msg.headers, CallerName)
         /\ lazy.as = Value(full.msg.headers, ArgScheme)
         /\ lazy.method = full.chunks[1] /\ Arg2(payload, lazy) = full.chunks[2]
         /\ lazy.fragmented = (Len(full.chunks) = 2)
         /\ ~lazy.fragmented => Arg3(payload, lazy) = full.chunks[3]

\* A call the destination would accept from the peer is accepted from the relay, checksums
\* of all frames included: with the time to live limited and the appends after the headers
\* that were there, and nothing else changed, also in the frame that continues the request.
HopIntact ==
    Len(req.chunks) > 1 /\ Whole =>
    \A direct \in {Receive(Initial(req))}, payload \in {Limited(Initial(req))} :
    \A lazy \in {newLazyCallReq(payload)} :
    \A sent \in {IF appends = <<>> THEN [ok |-> TRUE, payload |-> payload] ELSE fragmentingSend(payload, lazy)},
       h \in {ReadHeaders(req.chunks[2])} :
    direct.ok /\ lazy.ok /\ sent.ok /\ (appends # <<>> => h.ok) =>
    \A hop \in {Receive(sent.payload)} :
       /\ hop.ok
       /\ hop.msg = [direct.msg EXCEPT !.ttl = IF @ > MaxTimeout THEN MaxTimeout ELSE @]
       /\ hop.more = direct.more
       /\ IF appends = <<>> THEN hop.chunks = direct.chunks
          ELSE /\ hop.chunks[1] = direct.chunks[1] /\ hop.chunks[3] = direct.chunks[3]
               /\ ReadHeaders(hop.chunks[2]) = [ok |-> TRUE, val |-> h.val \o appends]
       /\ direct.more /\ ReceiveMore(direct, Continued(req)).ok =>
            \A more \in {IF appends = <<>> THEN Continued(req)
                         ELSE updateMutatedCallReqContinueChecksum(Continued(req), sent)} :
              ReceiveMore(hop, more).ok /\ ReceiveMore(hop, more).chunks = <<req.rest>>

\* Every message that is written without an error is read back as it was, to the last byte:
\* no length or count is cut to its width.
MessagesReadBack ==
    LET strings == {<<>>, <<1>>, [i \in 1..Uint8 - 1 |-> 2], [i \in 1..Uint8 |-> 3]}
        buffer == NewWriteBuffer(size)
        same(w, m, r, Message(_)) == w.ok => r.ok /\ r.rem = <<>> /\ Message(r.vals) = m IN
    Len(req.chunks) = 1 /\ req.csum = 0 /\ appends = <<>> => \A s \in strings :
      /\ LET m == [req.msg EXCEPT !.service = s]
             w == WriteCallReq(buffer, m) IN same(w, m, ReadCallReq(NewReadBuffer(w.out)), CallReq)
      /\ LET m == [code |-> 1, span |-> req.msg.span, headers |-> Append(req.msg.headers, <<<<4>>, s>>)]
             w == WriteCallRes(buffer, m) IN same(w, m, ReadCallRes(NewReadBuffer(w.out)), CallRes)
      /\ LET m == [code |-> 5, span |-> req.msg.span, message |-> s]
             w == WriteError(buffer, m) IN same(w, m, ReadError(NewReadBuffer(w.out)), ErrorMessage)
      /\ LET m == [version |-> 2, params |-> Append(req.msg.headers, <<<<1>>, s>>)]
             w == WriteInit(buffer, m) IN same(w, m, ReadInit(NewReadBuffer(w.out)), InitMessage)
=============================================================================
