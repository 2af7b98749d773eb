------------------------------ MODULE Fragments ------------------------------
(***************************************************************************)
(* The three arguments of a call on their way from a reqResWriter to a      *)
(* reqResReader: fragmentingWriter cuts them into chunks of fragments,      *)
(* fragmentingReader puts them together (fragmenting_writer.go,             *)
(* fragmenting_reader.go, reqres.go).  The application on either side calls *)
(* the writer and the reader in any order; a message exchange may fail at   *)
(* any time; a fragment may be damaged on the way.                          *)
(*                                                                         *)
(* Byte j of argument i is <<i, j>>.  A checksum is the sequence of bytes   *)
(* it was given, which stands for a checksum that tells them apart.         *)
(***************************************************************************)
EXTENDS Integers, Sequences

CONSTANTS MaxLen,    \* bound on the length of an argument
          Room,      \* bytes of a fragment for chunks (65519 less the message header)
          NetCap,    \* fragments between writer and reader (sendCh and recvCh)
          ToEOF      \* the application reads every argument until io.EOF

\* A chunk header is an uint16 (chunkHeaderSize).
Header == 2

ASSUME FragmentsAssumption ==
    MaxLen \in Nat /\ Room \in Nat /\ Room > 2 * Header /\ NetCap \in Nat \ {0} /\ ToEOF \in BOOLEAN

VARIABLES lens,     \* the length of each argument
          w,        \* the writer
          sum,      \* the writer's running checksum
          net,      \* fragments on the way
          r,        \* the reader
          rsum,     \* the reader's running checksum
          out,      \* what Read returned of each argument
          failed,   \* sides whose exchange failed, timed out or was cancelled
          damaged   \* a fragment was damaged

fragVars == <<lens, w, sum, net, r, rsum, out, failed, damaged>>
wVars == <<w, sum>>
rVars == <<r, rsum, out>>

Args == 1..3
Arg(i) == [j \in 1..lens[i] |-> <<i, j>>]

\* The bytes of a fragment's chunks.  (With SequencesExt and what it extends in the context of
\* every obligation, the proofs about this module would take three times as long.)
Joined(chunks) ==
    LET join[k \in 0..Len(chunks)] == IF k = 0 THEN <<>> ELSE join[k - 1] \o chunks[k] IN join[Len(chunks)]

\* Bytes a fragment holds, and the room left in it
Used(chunks) == Header * Len(chunks) + Len(Joined(chunks))
BytesRemaining == Room - Used(w.chunks)

FragInit ==
    /\ lens \in [Args -> 0..MaxLen]
    /\ w = [arg |-> 1, state |-> "start", err |-> FALSE, open |-> FALSE, chunks |-> <<>>,
            pos |-> 0, buf |-> 0, flush |-> FALSE]
    /\ r = [arg |-> 1, state |-> "start", err |-> "", cur |-> <<>>, rest |-> <<>>,
            more |-> TRUE, pc |-> "idle", want |-> 0, eof |-> FALSE, done |-> 0]
    /\ sum = <<>> /\ rsum = <<>>
    /\ net = <<>>
    /\ out = [i \in Args |-> <<>>]
    /\ failed = {} /\ damaged = FALSE

(***************************************************************************)
(* The writer.  w.arg is the reqResWriter's state: the argument it expects  *)
(* next, 4 when complete.                                                   *)
(***************************************************************************)
isWritingArgument == w.state \in {"in", "inLast"}

\* reqResWriter.failed
WFail == w' = [w EXCEPT !.err = TRUE, !.buf = 0, !.flush = FALSE,
                              !.state = IF @ = "inLast" THEN "complete" ELSE @] /\ UNCHANGED <<sum, net>>

\* flushFragment: the exchange failed, or sendCh has room for the frame
Send(more) ==
    /\ "w" \notin failed /\ Len(net) < NetCap
    /\ net' = Append(net, [chunks |-> w.chunks, more |-> more, sum |-> sum, error |-> FALSE])

\* BeginArgument: the first one gets a fragment from newFragment
BeginArgument(i) ==
    IF isWritingArgument \/ (~w.open /\ "w" \in failed) THEN WFail
    ELSE /\ w' = [w EXCEPT !.arg = i + 1, !.state = IF i = 3 THEN "inLast" ELSE "in",
                           !.open = TRUE, !.chunks = Append(@, <<>>), !.pos = 0]
         /\ UNCHANGED <<sum, net>>

\* argWriter, called for argument i in turn or not
argWriter(i) ==
    /\ ~w.err
    /\ IF w.arg # i THEN WFail ELSE BeginArgument(i)
    /\ UNCHANGED <<lens, rVars, failed, damaged>>

\* The application writes the next n bytes of the argument.
Write(n) ==
    /\ ~w.err /\ isWritingArgument /\ w.buf = 0 /\ ~w.flush
    /\ n \in 1..lens[w.arg - 1] - w.pos
    /\ w' = [w EXCEPT !.buf = n]
    /\ UNCHANGED <<lens, sum, net, rVars, failed, damaged>>

\* writeAsFits; with bytes left over, Write flushes and continues
writeAsFits ==
    LET n == IF w.buf < BytesRemaining THEN w.buf ELSE BytesRemaining
        b == SubSeq(Arg(w.arg - 1), w.pos + 1, w.pos + n) IN
    /\ w.buf > 0 /\ ~w.flush
    /\ w' = [w EXCEPT !.chunks[Len(w.chunks)] = @ \o b, !.pos = @ + n, !.buf = @ - n, !.flush = n < w.buf]
    /\ sum' = sum \o b
    /\ UNCHANGED <<lens, net, rVars, failed, damaged>>

\* Flush, from Write or from the application: the fragment goes out and a new one
\* starts with a chunk of the same argument.
Flush ==
    /\ ~w.err /\ isWritingArgument /\ (w.flush \/ w.buf = 0)
    /\ \/ "w" \in failed /\ WFail
       \/ /\ Send(TRUE)
          /\ w' = [w EXCEPT !.chunks = <<<<>>>>, !.flush = FALSE]
          /\ UNCHANGED sum
    /\ UNCHANGED <<lens, rVars, failed, damaged>>

\* Whether the fragment has no room for the next argument's first chunk
Full == BytesRemaining <= Header

\* mutant: no empty chunk says that the argument ended with the fragment
EndOfArgument_NoEmptyChunk == <<>>

\* The chunks a new fragment starts with after the end of an argument
EndOfArgument == <<<<>>>>

\* Close of an argument writer; the last one ends the exchange (doneSending)
closeWriter ==
    LET last == w.state = "inLast" IN
    /\ ~w.err /\ isWritingArgument /\ w.buf = 0 /\ ~w.flush /\ w.pos = lens[w.arg - 1]
    /\ \/ /\ ~last /\ ~Full
          /\ w' = [w EXCEPT !.state = "waiting", !.pos = 0]
          /\ UNCHANGED <<sum, net, failed>>
       \/ /\ last \/ Full
          /\ \/ "w" \in failed /\ WFail
             \/ /\ Send(~last)
                /\ w' = [w EXCEPT !.state = IF last THEN "complete" ELSE "waiting",
                                  !.chunks = IF last THEN <<>> ELSE EndOfArgument, !.pos = 0]
                /\ UNCHANGED sum
          /\ failed' = IF last THEN failed \cup {"w"} ELSE failed
    /\ UNCHANGED <<lens, rVars, damaged>>

\* Write or Close with no argument open
writerNotOpen ==
    /\ ~w.err /\ ~isWritingArgument
    /\ WFail
    /\ UNCHANGED <<lens, rVars, failed, damaged>>

\* InboundCallResponse.SendSystemError: no more can be written; the error frame is lost when sendCh is full
ResponseSystemError ==
    /\ ~w.err /\ w.arg # 4 /\ w.buf = 0
    /\ w' = [w EXCEPT !.arg = 4]
    /\ failed' = failed \cup {"w"}
    /\ net' = IF Len(net) < NetCap
              THEN Append(net, [chunks |-> <<>>, more |-> FALSE, sum |-> <<>>, error |-> TRUE])
              ELSE net
    /\ UNCHANGED <<lens, sum, rVars, damaged>>

(***************************************************************************)
(* The reader.  pc is "idle" between calls and names the call that is under *)
(* way otherwise.                                                           *)
(***************************************************************************)
isReadingArgument == r.state \in {"in", "inLast"}
\* State after argReader(i)
Begun(i) == IF i = 3 THEN "inLast" ELSE "in"

RFail(e) == r' = [r EXCEPT !.err = e, !.pc = "idle"] /\ UNCHANGED <<rsum, out>>

\* BeginArgument of the reader, which waits for the first fragment
BeginReading(i) ==
    IF isReadingArgument THEN RFail("order")
    ELSE /\ r' = IF r.state = "start" THEN [r EXCEPT !.pc = "begin"]
                 ELSE [r EXCEPT !.arg = i + 1, !.state = Begun(i), !.eof = FALSE]
         /\ UNCHANGED <<rsum, out>>

\* argReader, called for argument i in turn or not
argReader(i) ==
    /\ r.err = "" /\ r.pc = "idle"
    /\ IF r.arg # i THEN RFail("order") ELSE BeginReading(i)
    /\ UNCHANGED <<lens, wVars, net, failed, damaged>>

\* recvNextFragment: a frame from the exchange, parsed into a fragment
recvNextFragment == net # <<>> /\ net' = Tail(net)

\* An error frame ends the call: doneReading with the error
ErrorFrame ==
    /\ r' = [r EXCEPT !.err = "peer", !.pc = "idle", !.done = @ + 1]
    /\ UNCHANGED <<rsum, out>>

\* mutant: hasMoreFragments is not cleared by the last fragment
Chunks_MoreSticky(f, next) ==
    /\ r' = [next EXCEPT !.cur = Head(f.chunks), !.rest = Tail(f.chunks)]
    /\ UNCHANGED out

\* The chunks of fragment f, the first of which is the current one
Chunks(f, next) ==
    /\ r' = [next EXCEPT !.cur = Head(f.chunks), !.rest = Tail(f.chunks), !.more = f.more]
    /\ UNCHANGED out

\* mutant: chunks are handed out whatever their checksum
recvAndParseNextFragment_NoChecksum(next) ==
    \/ "r" \in failed /\ RFail("mex") /\ UNCHANGED net
    \/ /\ recvNextFragment
       /\ LET f == Head(net) IN
          IF f.error THEN ErrorFrame ELSE rsum' = f.sum /\ Chunks(f, next)

\* recvAndParseNextFragment: the next fragment is parsed into chunks and its checksum
\* compared.  next is the reader that continues with it.
recvAndParseNextFragment(next) ==
    \/ "r" \in failed /\ RFail("mex") /\ UNCHANGED net
    \/ /\ recvNextFragment
       /\ LET f == Head(net)
              s == rsum \o Joined(f.chunks) IN
          IF f.error THEN ErrorFrame
          ELSE IF f.sum # s THEN RFail("checksum")
          ELSE IF f.chunks = <<>> THEN RFail("empty")
          ELSE rsum' = s /\ Chunks(f, next)

\* The first fragment arrives.
BeginRecv ==
    /\ r.pc = "begin"
    /\ recvAndParseNextFragment([r EXCEPT !.pc = "idle", !.arg = 2, !.state = "in", !.eof = FALSE])
    /\ UNCHANGED <<lens, wVars, failed, damaged>>

\* The application reads into a buffer of n bytes.
Read(n) ==
    /\ r.err = "" /\ r.pc = "idle" /\ isReadingArgument /\ ~r.eof
    /\ r' = [r EXCEPT !.pc = "read", !.want = n]
    /\ UNCHANGED <<lens, wVars, net, rsum, out, failed, damaged>>

\* One round of Read's loop
ReadChunk ==
    LET n == IF r.want < Len(r.cur) THEN r.want ELSE Len(r.cur)
        short == n < r.want
        end == r.rest # <<>> \/ ~r.more IN
    /\ r.pc = "read"
    /\ out' = [out EXCEPT ![r.arg - 1] = @ \o SubSeq(r.cur, 1, n)]
    /\ r' = [r EXCEPT !.cur = SubSeq(@, n + 1, Len(@)),
                      !.want = IF short /\ ~end THEN @ - n ELSE 0,
                      !.pc = IF short /\ ~end THEN "recv" ELSE "idle",
                      !.eof = short /\ end]
    /\ UNCHANGED <<lens, wVars, net, rsum, failed, damaged>>

ReadRecv ==
    /\ r.pc = "recv"
    /\ recvAndParseNextFragment([r EXCEPT !.pc = "read"])
    /\ UNCHANGED <<lens, wVars, failed, damaged>>

\* Close of an argument reader: the application has seen the end of the argument, or has
\* read all of its bytes.
closeReader ==
    LET last == r.state = "inLast" IN
    /\ r.err = "" /\ r.pc = "idle" /\ isReadingArgument
    /\ r.eof \/ (~ToEOF /\ Len(out[r.arg - 1]) = lens[r.arg - 1])
    /\ CASE r.cur # <<>> -> RFail("moreData")
         [] r.cur = <<>> /\ last /\ (r.rest # <<>> \/ r.more) -> RFail("expectedMore")
         [] r.cur = <<>> /\ last /\ r.rest = <<>> /\ ~r.more ->
               r' = [r EXCEPT !.state = "complete", !.done = @ + 1] /\ UNCHANGED <<rsum, out>>
         [] r.cur = <<>> /\ ~last /\ r.rest # <<>> ->
               /\ r' = [r EXCEPT !.state = "waiting", !.cur = Head(r.rest), !.rest = Tail(r.rest)]
               /\ UNCHANGED <<rsum, out>>
         [] r.cur = <<>> /\ ~last /\ r.rest = <<>> /\ ~r.more -> RFail("noMore")
         [] OTHER -> r' = [r EXCEPT !.state = "waiting", !.pc = "close"] /\ UNCHANGED <<rsum, out>>
    /\ UNCHANGED <<lens, wVars, net, failed, damaged>>

CloseRecv ==
    /\ r.pc = "close"
    /\ recvAndParseNextFragment([r EXCEPT !.pc = "idle"])
    /\ UNCHANGED <<lens, wVars, failed, damaged>>

\* Read or Close with no argument open
readerNotOpen ==
    /\ r.err = "" /\ r.pc = "idle" /\ ~isReadingArgument /\ r.state # "complete"
    /\ RFail("order")
    /\ UNCHANGED <<lens, wVars, net, failed, damaged>>

(***************************************************************************)
(* The environment                                                          *)
(***************************************************************************)
\* The exchange of one side fails: deadline, cancellation or connection error
ExchangeFails(side) ==
    /\ failed' = failed \cup {side}
    /\ side \notin failed
    /\ UNCHANGED <<lens, wVars, net, rVars, damaged>>

\* A byte of a fragment on the way is damaged.
Damage ==
    /\ ~damaged
    /\ \E i \in DOMAIN net : \E c \in DOMAIN net[i].chunks :
         /\ net[i].chunks[c] # <<>>
         /\ net' = [net EXCEPT ![i].chunks[c][1] = <<0, 0>>]
    /\ damaged' = TRUE
    /\ UNCHANGED <<lens, wVars, rVars, failed>>

WriterCall == (\E n \in 1..MaxLen : Write(n)) \/ writeAsFits \/ closeWriter
              \/ (w.flush /\ Flush) \/ (w.arg < 4 /\ ~isWritingArgument /\ argWriter(w.arg))
ReaderCall == BeginRecv \/ (\E n \in 1..MaxLen : Read(n)) \/ ReadChunk \/ ReadRecv \/ closeReader
              \/ CloseRecv \/ (r.arg < 4 /\ ~isReadingArgument /\ argReader(r.arg))

\* Calls an application makes out of turn
Misuse == writerNotOpen \/ readerNotOpen
          \/ (\E i \in Args : (i # w.arg \/ isWritingArgument) /\ argWriter(i))
          \/ (\E i \in Args : (i # r.arg \/ isReadingArgument) /\ argReader(i))

FragNext == WriterCall \/ ReaderCall \/ Flush \/ Misuse \/ ResponseSystemError
        \/ (\E side \in {"w", "r"} : ExchangeFails(side)) \/ Damage

FragSpec == FragInit /\ [][FragNext]_fragVars
\* Both applications go on with what they started.
FragFairSpec == FragSpec /\ WF_fragVars(WriterCall) /\ WF_fragVars(ReaderCall)

(***************************************************************************)
(* Properties                                                               *)
(***************************************************************************)
\* What the reader hands out of an argument is what was written of it, in order, and all of
\* it once the reader has closed the argument: wherever the fragments were cut, whatever
\* buffers were used, and even if a fragment was damaged.
ArgumentsIntact ==
    \A i \in Args :
        /\ \E n \in 0..lens[i] : out[i] = SubSeq(Arg(i), 1, n)
        /\ (i < r.arg - 1 \/ (i < r.arg /\ ~isReadingArgument)) => out[i] = Arg(i)

\* A reader that reads to the end of every argument fails only for a reason outside it: the
\* exchange, an error frame, a damaged fragment or a call out of turn.  Where the writer cut
\* the fragments never makes Close or Read fail, nor BeginArgument panic: a writer between two
\* arguments has room for a chunk header and more.  doneReading, which releases the checksum
\* and ends the exchange, has run once by the time the reader is complete or has seen an error
\* frame, and not before.
ErrorsJustified ==
    /\ r.err \in {"", "mex", "peer", "order", "checksum"}
    /\ r.err = "checksum" => damaged
    /\ w.state = "waiting" => BytesRemaining > Header
    /\ r.done = (IF r.state = "complete" \/ r.err = "peer" THEN 1 ELSE 0)

\* A response that was written completely is read completely, or the reader has failed.
ResponseRead == (w.state = "complete" /\ ~w.err) ~> (r.state = "complete" \/ r.err # "")
=============================================================================
