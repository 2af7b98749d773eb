------------------------------ MODULE Connection ------------------------------
(***************************************************************************)
(* One tchannel.Connection: its close state machine, the two message       *)
(* exchange sets, and the goroutines that race on them (readFrames,        *)
(* writeFrames, the handler and the expiry watcher of every inbound call,  *)
(* the callers of outbound calls and pings, the relayer's pending calls,   *)
(* callers of Close).  A step is one lock section, one atomic operation or *)
(* one channel operation of the Go code; pc says where a goroutine is, and *)
(* ret / after say where checkExchanges and connectionError return to.     *)
(***************************************************************************)
EXTENDS Naturals, Sequences, FiniteSets

CONSTANTS
  InCalls,        \* message ids of the call reqs the peer sends
  OutCalls,       \* message ids of the calls made on this side
  Pings,          \* message ids of the pings sent by this side
  RelayCalls,     \* calls relayed over this connection
  Closers,        \* goroutines that call Connection.Close
  SendBufferSize, \* capacity of sendCh
  Events          \* the optional events a model enables

EventKinds == {"readError", "writeError", "errorFrame", "pingReq", "duplicateId",
               "badResponse", "blackhole"}

ASSUME CallsAssumption ==
  /\ IsFiniteSet(InCalls) /\ IsFiniteSet(OutCalls) /\ IsFiniteSet(Pings)
  /\ InCalls \cap OutCalls = {} /\ InCalls \cap Pings = {} /\ OutCalls \cap Pings = {}
ASSUME RelayAssumption == IsFiniteSet(RelayCalls)
ASSUME BufferAssumption == SendBufferSize \in Nat \ {0}
ASSUME EventsAssumption == Events \subseteq EventKinds

Outbound  == OutCalls \cup Pings
Exchanges == InCalls \cup Outbound

connectionActive        == 1
connectionStartClose    == 2
connectionInboundClosed == 3
connectionClosed        == 4
ConnectionState         == {1, 2, 3, 4}
NoState                 == 0

Reader  == <<"reader", "io">>
Writer  == <<"writer", "io">>
Handler(i) == <<"handler", i>>
Watcher(i) == <<"watcher", i>>
Caller(o)  == <<"caller", o>>
Pinger(p)  == <<"pinger", p>>
Relay(r)   == <<"relay", r>>
Closer(c)  == <<"closer", c>>

Handlers == {Handler(i) : i \in InCalls}
Watchers == {Watcher(i) : i \in InCalls}
Callers  == {Caller(o) : o \in OutCalls}
Pingers  == {Pinger(p) : p \in Pings}
Relays   == {Relay(r) : r \in RelayCalls}
Goroutines == {Reader, Writer} \cup Handlers \cup Watchers \cup Callers
                \cup Pingers \cup Relays \cup {Closer(c) : c \in Closers}

VARIABLES
  state,     \* Connection.state
  stopped,   \* Connection.stoppedExchanges
  stopCh,    \* how often close(stopCh) ran; a second time panics
  mexes,     \* exchanges of both messageExchangeSets
  expired,   \* expiredExchanges of the inbound set
  setShut,   \* which messageExchangeSets have shutdown = true
  shut,      \* exchanges whose shutdownAtomic is set
  errCh,     \* exchanges whose errCh is closed
  ctx,       \* context of every exchange: live, past its deadline, cancelled
  recv,      \* outbound exchanges with a frame from the peer in recvCh
  pending,   \* Relayer.pending
  sendCh,    \* frames queued for writeFrames
  wire,      \* frames written to the network
  netClosed, \* conn.Close ran, closeNetworkCalled is set
  seen,      \* inbound call ids read so far; the peer uses an id once
  silent,    \* error frames that were not sent, with the reason
  pc, ret, after,
  cur, orig, \* curState and origState of checkExchanges
  rcall      \* the id of the frame readFrames is handling

connVars == <<state, stopped, stopCh>>
mexVars  == <<mexes, expired, setShut, shut, errCh, ctx, recv>>
netVars  == <<sendCh, wire, netClosed, seen, silent>>
locals   == <<cur, orig, rcall>>
vars == <<connVars, mexVars, pending, netVars, pc, ret, after, locals>>

\* Where connectionError, and where checkExchanges and shutdown, may return to.
AfterLabels  == {"done", "read", "pingDone"}
ReturnLabels == AfterLabels \cup {"rejected", "errStop", "perrStop", "cancel", "sysSend"}
\* The steps of checkExchanges.
CheckLabels  == {"ce_read", "ce_stopped", "ce_in", "ce_inMove", "ce_out", "ce_outMove", "ce_done"}
Labels == CheckLabels \cup ReturnLabels \cup
          {"idle", "write", "closing", "reqReject", "reqAdd", "reqRecheck",
           "protocolError", "perrClose", "perrOut", "perrIn",
           "connectionError", "errOut", "errIn", "shutdown", "remove", "expire",
           "start", "handle", "flush", "doneSending", "watch",
           "begin", "add", "recheck", "checkError", "wait",
           "pingAdd", "pingSend", "pingWait", "relay", "relaying", "close"}

\* The id of the peer's ping requests.
PeerPing == "peerPing"
FrameIds == Exchanges \cup {PeerPing}
Frames   == {"callReq", "callRes", "error", "ping", "pong"} \X FrameIds

\* The exchange a goroutine is working on.
Mex(g) == IF g = Reader THEN rcall ELSE g[2]

Start(g) == CASE g[1] = "reader" -> "read"     [] g[1] = "writer" -> "write"
              [] g[1] = "caller" -> "begin"    [] g[1] = "pinger" -> "pingAdd"
              [] g[1] = "relay"  -> "relay"    [] g[1] = "closer" -> "close"
              [] OTHER           -> "idle"

Init ==
  /\ state = connectionActive /\ stopped = FALSE /\ stopCh = 0
  /\ mexes = {} /\ expired = {} /\ setShut = {} /\ shut = {} /\ errCh = {} /\ recv = {}
  /\ ctx = [m \in Exchanges |-> "live"]
  /\ pending = 0
  /\ sendCh = <<>> /\ wire = {} /\ netClosed = FALSE /\ seen = {} /\ silent = {}
  /\ pc = [g \in Goroutines |-> Start(g)]
  /\ ret = [g \in Goroutines |-> "done"] /\ after = [g \in Goroutines |-> "done"]
  /\ cur = [g \in Goroutines |-> NoState] /\ orig = [g \in Goroutines |-> NoState]
  /\ rcall = PeerPing

Goto(g, l) == pc' = [pc EXCEPT ![g] = l]
At(g, l) == pc[g] = l
Call(g, l, next) == Goto(g, l) /\ ret' = [ret EXCEPT ![g] = next]
Fail(g, next) == Goto(g, "connectionError") /\ after' = [after EXCEPT ![g] = next]

-----------------------------------------------------------------------------
(* checkExchanges *)

\* Mutant: the state is written without comparing it with the one read before.
moveState_NoCompare(g, from, to) == state' = to /\ cur' = [cur EXCEPT ![g] = to]

\* moveState compares and swaps under stateMut.
moveState(g, from, to) ==
  IF state = from THEN state' = to /\ cur' = [cur EXCEPT ![g] = to]
                  ELSE UNCHANGED <<state, cur>>

CheckReturn(g) ==
  /\ pc' = [pc EXCEPT ![g] = ret[g]]
  /\ ret' = [ret EXCEPT ![g] = "done"]
  /\ cur' = [cur EXCEPT ![g] = NoState] /\ orig' = [orig EXCEPT ![g] = NoState]

\* curState = Active ends here: stoppedExchanges is set only after the state
\* left Active, so the moveState that a later stoppedExchanges asks for fails.
CheckRead(g) ==
  /\ At(g, "ce_read")
  /\ IF state \in {connectionActive, connectionClosed}
     THEN CheckReturn(g)
     ELSE /\ cur' = [cur EXCEPT ![g] = state] /\ orig' = [orig EXCEPT ![g] = state]
          /\ Goto(g, "ce_stopped") /\ UNCHANGED ret
  /\ UNCHANGED <<connVars, mexVars, pending, netVars, after, rcall>>

NextCheck(s) == CASE s = connectionStartClose    -> "ce_in"
                  [] s = connectionInboundClosed -> "ce_out"
                  [] s = connectionClosed        -> "ce_done"

CheckStopped(g) ==
  /\ At(g, "ce_stopped")
  /\ IF stopped THEN moveState(g, cur[g], connectionClosed) ELSE UNCHANGED <<state, cur>>
  /\ Goto(g, NextCheck(cur'[g]))
  /\ UNCHANGED <<stopped, stopCh, mexVars, pending, netVars, ret, after, orig, rcall>>

\* Mutant: the relayer is not asked whether it can close.
CheckCount_NoRelay(g, at, calls, next) ==
  /\ At(g, at)
  /\ IF mexes \cap calls = {}
     THEN Goto(g, next) /\ UNCHANGED <<ret, cur, orig>>
     ELSE CheckReturn(g)
  /\ UNCHANGED <<connVars, mexVars, pending, netVars, after, rcall>>

\* relay.canClose and the count of exchanges.  One step: pending does not grow
\* once the state has left Active, so a 0 read before the count is still 0 then.
\* Returns, or ends without a change of state, unless both are 0.
CheckCount(g, at, calls, next) ==
  /\ At(g, at)
  /\ IF pending = 0 /\ mexes \cap calls = {}
     THEN Goto(g, next) /\ UNCHANGED <<ret, cur, orig>>
     ELSE IF pending = 0 /\ cur[g] # orig[g]
     THEN Goto(g, "ce_done") /\ UNCHANGED <<ret, cur, orig>>
     ELSE CheckReturn(g)
  /\ UNCHANGED <<connVars, mexVars, pending, netVars, after, rcall>>

CheckInbound(g)  == CheckCount(g, "ce_in", InCalls, "ce_inMove")
CheckOutbound(g) == CheckCount(g, "ce_out", Outbound, "ce_outMove")

Move(g, at, from, to, next) ==
  /\ At(g, at)
  /\ IF state = from
     THEN moveState(g, from, to) /\ Goto(g, next) /\ UNCHANGED <<ret, orig>>
     ELSE IF cur[g] # orig[g]
     THEN Goto(g, "ce_done") /\ UNCHANGED <<state, ret, cur, orig>>
     ELSE CheckReturn(g) /\ UNCHANGED state
  /\ UNCHANGED <<stopped, stopCh, mexVars, pending, netVars, after, rcall>>

MoveInboundClosed(g) ==
  Move(g, "ce_inMove", connectionStartClose, connectionInboundClosed, "ce_out")
MoveClosed(g) ==
  Move(g, "ce_outMove", connectionInboundClosed, connectionClosed, "ce_done")

\* Mutant: nobody closes stopCh.
CheckDone_NoStop(g) ==
  /\ At(g, "ce_done") /\ CheckReturn(g)
  /\ UNCHANGED <<connVars, mexVars, pending, netVars, after, rcall>>

\* The state changed: tell writeFrames when it is Closed.
CheckDone(g) ==
  /\ At(g, "ce_done")
  /\ stopCh' = IF cur[g] = connectionClosed THEN stopCh + 1 ELSE stopCh
  /\ CheckReturn(g)
  /\ UNCHANGED <<state, stopped, mexVars, pending, netVars, after, rcall>>

checkExchanges(g) ==
  \/ CheckRead(g)     \/ CheckStopped(g) \/ CheckInbound(g) \/ MoveInboundClosed(g)
  \/ CheckOutbound(g) \/ MoveClosed(g)   \/ CheckDone(g)

-----------------------------------------------------------------------------
(* close, connectionError, protocolError *)

\* close: only an Active connection starts to close.
CloseThen(g, next) ==
  IF state = connectionActive
  THEN state' = connectionStartClose /\ Call(g, "ce_read", next)
  ELSE Goto(g, next) /\ UNCHANGED <<state, ret>>

Close(c) ==
  /\ At(Closer(c), "close")
  /\ CloseThen(Closer(c), "done")
  /\ UNCHANGED <<stopped, stopCh, mexVars, pending, netVars, after, locals>>

connectionError(g) ==
  /\ At(g, "connectionError")
  /\ CloseThen(g, "errStop")
  /\ UNCHANGED <<stopped, stopCh, mexVars, pending, netVars, after, locals>>

\* stoppedExchanges.CAS(false, true); the loser goes on to checkExchanges.
ErrorStop(g) ==
  /\ At(g, "errStop")
  /\ stopped' = TRUE
  /\ IF stopped
     THEN Call(g, "ce_read", after[g]) /\ after' = [after EXCEPT ![g] = "done"]
     ELSE Goto(g, "errOut") /\ UNCHANGED <<ret, after>>
  /\ UNCHANGED <<state, stopCh, mexVars, pending, netVars, locals>>

\* stopExchanges: shut the set and notify every exchange in it.
stopExchanges(set, calls) ==
  /\ setShut' = setShut \cup {set}
  /\ errCh' = errCh \cup (mexes \cap calls)
  /\ UNCHANGED <<mexes, expired, shut, ctx, recv>>

ErrorStopOutbound(g) ==
  /\ At(g, "errOut") /\ stopExchanges("out", Outbound) /\ Goto(g, "errIn")
  /\ UNCHANGED <<connVars, pending, netVars, ret, after, locals>>

ErrorStopInbound(g) ==
  /\ At(g, "errIn") /\ stopExchanges("in", InCalls)
  /\ Call(g, "ce_read", after[g]) /\ after' = [after EXCEPT ![g] = "done"]
  /\ UNCHANGED <<connVars, pending, netVars, locals>>

\* SendSystemError: refused once Closed, dropped when sendCh is full.
SendSystemError(m) ==
  LET refused == IF state = connectionClosed THEN "closed"
                 ELSE IF Len(sendCh) >= SendBufferSize THEN "full" ELSE "no"
  IN  IF refused = "no"
      THEN sendCh' = Append(sendCh, <<"error", m>>) /\ UNCHANGED silent
      ELSE silent' = silent \cup {<<m, refused>>} /\ UNCHANGED sendCh

protocolError ==
  /\ At(Reader, "protocolError")
  /\ SendSystemError(rcall)
  /\ Goto(Reader, "perrClose")
  /\ UNCHANGED <<connVars, mexVars, pending, wire, netClosed, seen, ret, after, locals>>

ProtocolClose ==
  /\ At(Reader, "perrClose") /\ CloseThen(Reader, "perrStop")
  /\ UNCHANGED <<stopped, stopCh, mexVars, pending, netVars, after, locals>>

\* No checkExchanges follows: the exchanges' own shutdowns close the connection.
ProtocolStop ==
  /\ At(Reader, "perrStop") /\ stopped' = TRUE
  /\ Goto(Reader, IF stopped THEN "read" ELSE "perrOut")
  /\ UNCHANGED <<state, stopCh, mexVars, pending, netVars, ret, after, locals>>

ProtocolStopOutbound ==
  /\ At(Reader, "perrOut") /\ stopExchanges("out", Outbound) /\ Goto(Reader, "perrIn")
  /\ UNCHANGED <<connVars, pending, netVars, ret, after, locals>>

ProtocolStopInbound ==
  /\ At(Reader, "perrIn") /\ stopExchanges("in", InCalls) /\ Goto(Reader, "read")
  /\ UNCHANGED <<connVars, pending, netVars, ret, after, locals>>

ErrorSteps(g) == connectionError(g) \/ ErrorStop(g) \/ ErrorStopOutbound(g) \/ ErrorStopInbound(g)
ProtocolSteps == protocolError \/ ProtocolClose \/ ProtocolStop
                   \/ ProtocolStopOutbound \/ ProtocolStopInbound

-----------------------------------------------------------------------------
(* messageExchange.shutdown, removeExchange, expireExchange *)

Return(g) == pc' = [pc EXCEPT ![g] = ret[g]] /\ ret' = [ret EXCEPT ![g] = "done"]

\* shutdownAtomic.CAS; the errCh is notified when nobody did so before.
Shutdown(g) ==
  /\ At(g, "shutdown")
  /\ IF Mex(g) \in shut
     THEN Return(g) /\ UNCHANGED <<shut, errCh>>
     ELSE /\ shut' = shut \cup {Mex(g)} /\ errCh' = errCh \cup {Mex(g)}
          /\ Goto(g, "remove") /\ UNCHANGED ret
  /\ UNCHANGED <<connVars, mexes, expired, setShut, ctx, recv, pending, netVars, after, locals>>

\* Mutant: the id of an expired exchange is never deleted.
RemoveExchange_Keep(g) ==
  /\ At(g, "remove")
  /\ IF Mex(g) \in mexes \cup expired THEN Goto(g, "ce_read") /\ UNCHANGED ret ELSE Return(g)
  /\ mexes' = mexes \ {Mex(g)}
  /\ UNCHANGED <<connVars, expired, setShut, shut, errCh, ctx, recv, pending, netVars, after, locals>>

\* Neither live nor expired: nothing was removed, so no checkExchanges.
RemoveExchange(g) ==
  /\ At(g, "remove")
  /\ IF Mex(g) \in mexes \cup expired
     THEN Goto(g, "ce_read") /\ UNCHANGED ret
     ELSE Return(g)
  /\ mexes' = mexes \ {Mex(g)}
  /\ expired' = IF Mex(g) \in mexes THEN expired ELSE expired \ {Mex(g)}
  /\ UNCHANGED <<connVars, setShut, shut, errCh, ctx, recv, pending, netVars, after, locals>>

\* Mutant: the id is deleted without being recorded as expired.
ExpireExchange_Forget(g) ==
  /\ At(g, "expire")
  /\ mexes' = mexes \ {Mex(g)} /\ Goto(g, "ce_read")
  /\ UNCHANGED <<connVars, expired, setShut, shut, errCh, ctx, recv, pending, netVars, ret, after, locals>>

\* Mutant: the id is recorded as expired and stays in the set.
ExpireExchange_Keep(g) ==
  /\ At(g, "expire")
  /\ expired' = expired \cup {Mex(g)} /\ Goto(g, "ce_read")
  /\ UNCHANGED <<connVars, mexes, setShut, shut, errCh, ctx, recv, pending, netVars, ret, after, locals>>

ExpireExchange(g) ==
  /\ At(g, "expire")
  /\ expired' = IF Mex(g) \in mexes THEN expired \cup {Mex(g)} ELSE expired
  /\ mexes' = mexes \ {Mex(g)}
  /\ Goto(g, "ce_read")
  /\ UNCHANGED <<connVars, setShut, shut, errCh, ctx, recv, pending, netVars, ret, after, locals>>

ExchangeSteps(g) == Shutdown(g) \/ RemoveExchange(g) \/ ExpireExchange(g)

-----------------------------------------------------------------------------
(* readFrames *)

\* handleCallReq up to newExchange.
ReadCallReq(i) ==
  /\ At(Reader, "read") /\ ~netClosed /\ i \notin seen
  /\ seen' = seen \cup {i} /\ rcall' = i
  /\ Goto(Reader, IF state = connectionActive THEN "reqAdd" ELSE "reqReject")
  /\ UNCHANGED <<connVars, mexVars, pending, sendCh, wire, netClosed, silent, ret, after, cur, orig>>

RejectCallReq ==
  /\ At(Reader, "reqReject") /\ SendSystemError(rcall) /\ Goto(Reader, "read")
  /\ UNCHANGED <<connVars, mexVars, pending, wire, netClosed, seen, ret, after, locals>>

AddInbound ==
  /\ At(Reader, "reqAdd")
  /\ IF "in" \in setShut
     THEN Goto(Reader, "protocolError") /\ UNCHANGED mexes
     ELSE Goto(Reader, "reqRecheck") /\ mexes' = mexes \cup {rcall}
  /\ UNCHANGED <<connVars, expired, setShut, shut, errCh, ctx, recv, pending, netVars,
                 ret, after, locals>>

\* errDuplicateMex: the id of a call that is still active.
ReadDuplicate(i) ==
  /\ "duplicateId" \in Events
  /\ At(Reader, "read") /\ ~netClosed /\ state = connectionActive /\ i \in mexes
  /\ rcall' = i /\ Goto(Reader, "protocolError")
  /\ UNCHANGED <<connVars, mexVars, pending, netVars, ret, after, cur, orig>>

\* Mutant: the call is dispatched whatever happened since the first check.
RecheckInbound_Skip ==
  /\ At(Reader, "reqRecheck")
  /\ pc' = [pc EXCEPT ![Reader] = "read", ![Handler(rcall)] = "start"]
  /\ UNCHANGED <<connVars, mexVars, pending, netVars, ret, after, locals>>

\* Close may have been called since the state was checked; no error frame is sent.
RecheckInbound ==
  /\ At(Reader, "reqRecheck")
  /\ IF state # connectionActive
     THEN Call(Reader, "shutdown", "read")
     ELSE /\ pc' = [pc EXCEPT ![Reader] = "read", ![Handler(rcall)] = "start"]
          /\ UNCHANGED ret
  /\ UNCHANGED <<connVars, mexVars, pending, netVars, after, locals>>

\* A call res, error or ping res for an exchange of ours: forwardPeerFrame.
ReadResponse(m) ==
  /\ At(Reader, "read") /\ ~netClosed
  /\ <<"callReq", m>> \in wire \/ <<"ping", m>> \in wire
  /\ m \in mexes \ recv
  /\ recv' = recv \cup {m}
  /\ UNCHANGED <<connVars, mexes, expired, setShut, shut, errCh, ctx, pending, netVars,
                 pc, ret, after, locals>>

\* Mutant: the capacity of sendCh is ignored.
sendMessage_Unbounded(g, frame, next, failed) ==
  sendCh' = Append(sendCh, frame) /\ Goto(g, next) /\ UNCHANGED after

\* sendMessage does not block; a full sendCh is a connection error.
sendMessage(g, frame, next, failed) ==
  IF Len(sendCh) < SendBufferSize
  THEN sendCh' = Append(sendCh, frame) /\ Goto(g, next) /\ UNCHANGED after
  ELSE Fail(g, failed) /\ UNCHANGED sendCh

HandlePingReq ==
  /\ "pingReq" \in Events
  /\ At(Reader, "read") /\ ~netClosed
  /\ rcall' = PeerPing
  /\ \/ /\ state # connectionActive
        /\ Goto(Reader, "protocolError") /\ UNCHANGED <<sendCh, after>>
     \/ /\ state = connectionActive
        /\ sendMessage(Reader, <<"pong", PeerPing>>, "read", "read")
  /\ UNCHANGED <<connVars, mexVars, pending, wire, netClosed, seen, silent, ret, cur, orig>>

\* handleError: an error frame with a protocol error is a connection error.
HandleErrorFrame ==
  /\ "errorFrame" \in Events
  /\ At(Reader, "read") /\ ~netClosed
  /\ Fail(Reader, "read")
  /\ UNCHANGED <<connVars, mexVars, pending, netVars, ret, locals>>

\* The loop ends; closeNetworkCalled makes the error an expected one.
ReadError ==
  /\ At(Reader, "read")
  /\ \/ netClosed /\ Goto(Reader, "done") /\ UNCHANGED after
     \/ ~netClosed /\ "readError" \in Events /\ Fail(Reader, "done")
  /\ UNCHANGED <<connVars, mexVars, pending, netVars, ret, locals>>

readFrames ==
  \/ \E i \in InCalls : ReadCallReq(i) \/ ReadDuplicate(i)
  \/ \E m \in Outbound : ReadResponse(m)
  \/ HandlePingReq \/ HandleErrorFrame \/ ReadError

ReaderSteps == RejectCallReq \/ AddInbound \/ RecheckInbound \/ ProtocolSteps

-----------------------------------------------------------------------------
(* writeFrames *)

WriteFrame ==
  /\ At(Writer, "write") /\ sendCh # <<>>
  /\ wire' = wire \cup {Head(sendCh)} /\ sendCh' = Tail(sendCh)
  /\ UNCHANGED <<connVars, mexVars, pending, netClosed, seen, silent, pc, ret, after, locals>>

\* The loop returns; only connectionError runs, not closeNetwork.
WriteError ==
  /\ "writeError" \in Events
  /\ At(Writer, "write") /\ sendCh # <<>>
  /\ sendCh' = Tail(sendCh)
  /\ Fail(Writer, "done")
  /\ UNCHANGED <<connVars, mexVars, pending, wire, netClosed, seen, silent, ret, locals>>

\* Mutant: the loop ends on stopCh without draining sendCh.
WriterStop_NoDrain ==
  /\ At(Writer, "write") /\ stopCh > 0
  /\ Goto(Writer, "closing")
  /\ UNCHANGED <<connVars, mexVars, pending, netVars, ret, after, locals>>

\* stopCh is closed and sendCh is drained.
WriterStop ==
  /\ At(Writer, "write") /\ stopCh > 0 /\ sendCh = <<>>
  /\ Goto(Writer, "closing")
  /\ UNCHANGED <<connVars, mexVars, pending, netVars, ret, after, locals>>

closeNetwork ==
  /\ At(Writer, "closing")
  /\ netClosed' = TRUE /\ Goto(Writer, "done")
  /\ UNCHANGED <<connVars, mexVars, pending, sendCh, wire, seen, silent, ret, after, locals>>

writeFrames == WriteFrame \/ WriterStop \/ closeNetwork

-----------------------------------------------------------------------------
(* dispatchInbound and the InboundCallResponse *)

\* readMethod; a failure shuts the exchange down, otherwise the watcher starts.
ReadMethod(i) ==
  /\ At(Handler(i), "start")
  /\ \/ /\ pc' = [pc EXCEPT ![Handler(i)] = "handle", ![Watcher(i)] = "watch"]
        /\ UNCHANGED ret
     \/ Call(Handler(i), "shutdown", "done")
  /\ UNCHANGED <<connVars, mexVars, pending, netVars, after, locals>>

Failed(m) == ctx[m] # "live" \/ m \in errCh

\* checkError of newFragment and flushFragment.  A failed newFragment ends the
\* response, a failed flushFragment is followed by doneSending (cancel).
Respond(i) ==
  /\ At(Handler(i), "handle")
  /\ IF Failed(i)
     THEN \E next \in {"done", "cancel"} : Call(Handler(i), "shutdown", next)
     ELSE Goto(Handler(i), "flush") /\ UNCHANGED ret
  /\ UNCHANGED <<connVars, mexVars, pending, netVars, after, locals>>

\* The select of flushFragment.
Flush(g, frame, sent, aborted) ==
  /\ At(g, "flush")
  /\ \/ /\ Len(sendCh) < SendBufferSize
        /\ sendCh' = Append(sendCh, frame)
        /\ Goto(g, sent) /\ UNCHANGED ret
     \/ /\ Failed(Mex(g))
        /\ Call(g, "shutdown", aborted) /\ UNCHANGED sendCh
  /\ UNCHANGED <<connVars, mexVars, pending, wire, netClosed, seen, silent, after, locals>>

FlushResponse(i) == Flush(Handler(i), <<"callRes", i>>, "doneSending", "cancel")

Cancelled(m) == ctx' = [ctx EXCEPT ![m] = IF @ = "live" THEN "cancelled" ELSE @]

\* Cancels the context, then shuts the exchange down.
DoneSending(i) ==
  /\ At(Handler(i), "doneSending")
  /\ Cancelled(i) /\ Call(Handler(i), "shutdown", "done")
  /\ UNCHANGED <<connVars, mexes, expired, setShut, shut, errCh, recv, pending, netVars, after, locals>>

CancelResponse(i) ==
  /\ At(Handler(i), "cancel")
  /\ Cancelled(i) /\ Goto(Handler(i), "done")
  /\ UNCHANGED <<connVars, mexes, expired, setShut, shut, errCh, recv, pending, netVars,
                 ret, after, locals>>

\* InboundCallResponse.SendSystemError: doneSending first, the frame afterwards.
RespondSystemError(i) ==
  /\ At(Handler(i), "handle")
  /\ Cancelled(i) /\ Call(Handler(i), "shutdown", "sysSend")
  /\ UNCHANGED <<connVars, mexes, expired, setShut, shut, errCh, recv, pending, netVars, after, locals>>

SendResponseError(i) ==
  /\ At(Handler(i), "sysSend") /\ SendSystemError(i) /\ Goto(Handler(i), "done")
  /\ UNCHANGED <<connVars, mexVars, pending, wire, netClosed, seen, ret, after, locals>>

Blackhole(i) ==
  /\ "blackhole" \in Events
  /\ At(Handler(i), "handle")
  /\ Cancelled(i) /\ Goto(Handler(i), "done")
  /\ UNCHANGED <<connVars, mexes, expired, setShut, shut, errCh, recv, pending, netVars,
                 ret, after, locals>>

\* The goroutine that waits for the context or for an error of the exchange.
Watch(i) ==
  /\ At(Watcher(i), "watch") /\ Failed(i)
  /\ IF i \in errCh THEN Cancelled(i) ELSE UNCHANGED ctx
  /\ Call(Watcher(i), "expire", "done")
  /\ UNCHANGED <<connVars, mexes, expired, setShut, shut, errCh, recv, pending, netVars, after, locals>>

HandlerChoice(i) == Respond(i) \/ RespondSystemError(i) \/ Blackhole(i)
HandlerSteps(i) == ReadMethod(i) \/ FlushResponse(i) \/ DoneSending(i)
                     \/ CancelResponse(i) \/ SendResponseError(i)

-----------------------------------------------------------------------------
(* beginCall and the OutboundCallResponse; ping; the relayer; deadlines *)

BeginCall(o) ==
  /\ At(Caller(o), "begin")
  /\ Goto(Caller(o), IF state = connectionActive THEN "add" ELSE "done")
  /\ UNCHANGED <<connVars, mexVars, pending, netVars, ret, after, locals>>

AddOutbound(o) ==
  /\ At(Caller(o), "add")
  /\ IF "out" \in setShut
     THEN Goto(Caller(o), "done") /\ UNCHANGED mexes
     ELSE Goto(Caller(o), "recheck") /\ mexes' = mexes \cup {o}
  /\ UNCHANGED <<connVars, expired, setShut, shut, errCh, ctx, recv, pending, netVars,
                 ret, after, locals>>

\* Mutant: the request is written whatever happened since the first check.
RecheckOutbound_Skip(o) ==
  /\ At(Caller(o), "recheck") /\ Goto(Caller(o), "checkError")
  /\ UNCHANGED <<connVars, mexVars, pending, netVars, ret, after, locals>>

RecheckOutbound(o) ==
  /\ At(Caller(o), "recheck")
  /\ IF state # connectionActive
     THEN Call(Caller(o), "shutdown", "rejected")
     ELSE Goto(Caller(o), "checkError") /\ UNCHANGED ret
  /\ UNCHANGED <<connVars, mexVars, pending, netVars, after, locals>>

WriteRequest(o) ==
  /\ At(Caller(o), "checkError")
  /\ IF Failed(o) THEN Call(Caller(o), "shutdown", "done")
                  ELSE Goto(Caller(o), "flush") /\ UNCHANGED ret
  /\ UNCHANGED <<connVars, mexVars, pending, netVars, after, locals>>

FlushRequest(o) == Flush(Caller(o), <<"callReq", o>>, "wait", "done")

\* recvPeerFrame, then doneReading or failed, which both shut the exchange down.
AwaitResponse(o) ==
  /\ At(Caller(o), "wait") /\ (o \in recv \/ Failed(o))
  /\ Call(Caller(o), "shutdown", "done")
  /\ UNCHANGED <<connVars, mexVars, pending, netVars, after, locals>>

\* The fragmentingReader meets a bad checksum, a bad chunk or left-over data:
\* it keeps the error and neither doneReading nor failed is called.
BadResponse(o) ==
  /\ "badResponse" \in Events
  /\ At(Caller(o), "wait") /\ o \in recv /\ ctx[o] = "live"
  /\ Goto(Caller(o), "done")
  /\ UNCHANGED <<connVars, mexVars, pending, netVars, ret, after, locals>>

PingAdd(p) ==
  /\ At(Pinger(p), "pingAdd")
  /\ IF "out" \in setShut
     THEN Fail(Pinger(p), "done") /\ UNCHANGED mexes
     ELSE Goto(Pinger(p), "pingSend") /\ mexes' = mexes \cup {p} /\ UNCHANGED after
  /\ UNCHANGED <<connVars, expired, setShut, shut, errCh, ctx, recv, pending, netVars, ret, locals>>

\* Every return past newExchange runs the deferred removeExchange ("pingDone").
PingSend(p) ==
  /\ At(Pinger(p), "pingSend")
  /\ sendMessage(Pinger(p), <<"ping", p>>, "pingWait", "pingDone")
  /\ UNCHANGED <<connVars, mexVars, pending, wire, netClosed, seen, silent, ret, locals>>

PingDone(p) ==
  /\ \/ At(Pinger(p), "pingWait") /\ (p \in recv \/ Failed(p))
     \/ At(Pinger(p), "pingDone")
  /\ Call(Pinger(p), "remove", "done")
  /\ UNCHANGED <<connVars, mexVars, pending, netVars, after, locals>>

\* Mutant: the call is counted without looking at the state.
RelayCall_AnyState(r) ==
  /\ At(Relay(r), "relay")
  /\ pending' = pending + 1 /\ Goto(Relay(r), "relaying")
  /\ UNCHANGED <<connVars, mexVars, netVars, ret, after, locals>>

\* canHandleNewCall counts the call under the state lock, if Active.
RelayCall(r) ==
  /\ At(Relay(r), "relay")
  /\ IF state = connectionActive
     THEN pending' = pending + 1 /\ Goto(Relay(r), "relaying")
     ELSE Goto(Relay(r), "done") /\ UNCHANGED pending
  /\ UNCHANGED <<connVars, mexVars, netVars, ret, after, locals>>

\* Mutant: the connection is not told that the relayed call is over.
decrementPending_NoCheck(r) ==
  /\ At(Relay(r), "relaying")
  /\ pending' = pending - 1 /\ Goto(Relay(r), "done")
  /\ UNCHANGED <<connVars, mexVars, netVars, ret, after, locals>>

decrementPending(r) ==
  /\ At(Relay(r), "relaying")
  /\ pending' = pending - 1 /\ Call(Relay(r), "ce_read", "done")
  /\ UNCHANGED <<connVars, mexVars, netVars, after, locals>>

Timeout(m) ==
  /\ m \in mexes /\ ctx[m] = "live"
  /\ ctx' = [ctx EXCEPT ![m] = "deadline"]
  /\ UNCHANGED <<connVars, mexes, expired, setShut, shut, errCh, recv, pending, netVars,
                 pc, ret, after, locals>>

CallerSteps(o) == AddOutbound(o) \/ RecheckOutbound(o) \/ WriteRequest(o)
                    \/ FlushRequest(o) \/ AwaitResponse(o)
PingerSteps(p) == PingSend(p) \/ PingDone(p)

-----------------------------------------------------------------------------

\* What a goroutine does on its own once it is scheduled.
Step(g) == checkExchanges(g) \/ ErrorSteps(g) \/ ExchangeSteps(g)

\* What peers, the network and the application decide.
Environment ==
  \/ readFrames \/ WriteError
  \/ \E i \in InCalls : HandlerChoice(i)
  \/ \E o \in OutCalls : BeginCall(o) \/ BadResponse(o)
  \/ \E p \in Pings : PingAdd(p)
  \/ \E r \in RelayCalls : RelayCall(r)
  \/ \E c \in Closers : Close(c)

Program ==
  \/ \E g \in Goroutines : Step(g)
  \/ ReaderSteps \/ writeFrames
  \/ \E i \in InCalls : HandlerSteps(i) \/ Watch(i)
  \/ \E o \in OutCalls : CallerSteps(o)
  \/ \E p \in Pings : PingerSteps(p)
  \/ \E r \in RelayCalls : decrementPending(r)
  \/ \E m \in Exchanges : Timeout(m)

Next == Environment \/ Program
Spec == Init /\ [][Next]_vars

\* Goroutines get scheduled, deadlines pass, relay items time out.  Nothing is
\* assumed of the peer, of the application's handlers or of callers of Close.
Fairness ==
  /\ WF_vars(Step(Reader) \/ ReaderSteps) /\ WF_vars(Step(Writer) \/ writeFrames)
  /\ \A i \in InCalls : /\ WF_vars(Step(Handler(i)) \/ HandlerSteps(i))
                        /\ WF_vars(Step(Watcher(i)) \/ Watch(i))
  /\ \A o \in OutCalls : WF_vars(Step(Caller(o)) \/ CallerSteps(o))
  /\ \A p \in Pings : WF_vars(Step(Pinger(p)) \/ PingerSteps(p))
  /\ \A r \in RelayCalls : WF_vars(Step(Relay(r)) \/ decrementPending(r))
  /\ \A c \in Closers : WF_vars(Step(Closer(c)))
  /\ \A m \in Exchanges : WF_vars(Timeout(m))

FairSpec == Spec /\ Fairness

-----------------------------------------------------------------------------
(* Properties *)

TypeConn == state \in ConnectionState /\ stopped \in BOOLEAN /\ stopCh \in Nat
TypeMex ==
  /\ mexes \subseteq Exchanges /\ expired \subseteq InCalls
  /\ setShut \subseteq {"in", "out"}
  /\ shut \subseteq Exchanges /\ errCh \subseteq Exchanges /\ recv \subseteq Outbound
  /\ ctx \in [Exchanges -> {"live", "deadline", "cancelled"}]
TypeSend == sendCh \in Seq(Frames) /\ Len(sendCh) <= SendBufferSize
TypeNet ==
  /\ TypeSend
  /\ wire \subseteq Frames /\ netClosed \in BOOLEAN /\ seen \subseteq InCalls
  /\ silent \subseteq FrameIds \X {"closed", "full"}
TypePc  == pc \in [Goroutines -> Labels]
TypeRet == ret \in [Goroutines -> ReturnLabels] /\ after \in [Goroutines -> AfterLabels]
TypeCur ==
  /\ cur \in [Goroutines -> {NoState} \cup ConnectionState]
  /\ orig \in [Goroutines -> {NoState} \cup ConnectionState]
  /\ rcall \in InCalls \cup {PeerPing}

\* Every variable has its type; no goroutine returns into the middle of a routine.
TypeOK == /\ TypeConn /\ TypeMex /\ pending \in Nat /\ TypeNet
          /\ TypePc /\ TypeRet /\ TypeCur

\* checkExchanges runs in many goroutines at once, on stale copies of the state,
\* and still close(stopCh) happens at most once (a second one panics).
StopChClosedOnce == stopCh <= 1

\* Calls past the recheck that follows newExchange, until removed from the set.
OpenInbound  == {i \in InCalls \cap mexes : ~At(Handler(i), "idle")}
OpenOutbound == {o \in OutCalls \cap mexes :
                   ~At(Caller(o), "recheck") /\ ret[Caller(o)] # "rejected"}

\* A connection reports InboundClosed only when every inbound call it accepted
\* is over and, unless it failed, Closed only when the outbound ones are too.
Drained ==
  /\ state = connectionInboundClosed => OpenInbound = {}
  /\ state = connectionClosed /\ ~stopped => OpenInbound = {} /\ OpenOutbound = {}

\* The branch of checkExchanges that "should never happen": a relayed call is
\* never pending once a goroutine acts on InboundClosed.
RelayCannotBePending == \A g \in Goroutines : At(g, "ce_out") => pending = 0

\* removeExchange is never asked for an exchange that is already gone
\* ("Tried to remove exchange multiple times").
RemovedOnce == \A g \in Goroutines : At(g, "remove") => Mex(g) \in mexes \cup expired

\* When a connection that did not fail closes its socket, the frames it leaves
\* behind are pongs, pings, or responses to calls whose deadline had passed.
NoFrameStranded ==
  netClosed /\ ~stopped =>
    \A k \in 1..Len(sendCh) :
      \/ sendCh[k][1] \in {"pong", "ping"}
      \/ sendCh[k][1] = "callRes" /\ ctx[sendCh[k][2]] = "deadline"

\* A call that was answered or failed leaves nothing behind: its id is not kept
\* in expiredExchanges once its handler and its watcher are done.
ExpiredReclaimed ==
  \A i \in InCalls : At(Handler(i), "done") /\ At(Watcher(i), "done") => i \notin expired

\* InboundCallResponse.SendSystemError gets its error to the peer, unless the
\* connection failed or the send buffer is full.
SystemErrorsSent ==
  \A i \in InCalls : <<i, "closed">> \in silent /\ ~At(Handler(i), "idle") => stopped

\* The promise of Connection.Close: see ConnectionLifecycle.
Lifecycle == INSTANCE ConnectionLifecycle WITH
  phase <- state, failed <- stopped, socketClosed <- netClosed,
  inbound <- OpenInbound, outbound <- OpenOutbound, relayed <- pending

\* The connection with all its goroutines implements the graceful close.
ImplementsLifecycle == Lifecycle!Spec

\* A connection that starts to close, gracefully or not, becomes Closed: calls
\* finish or reach their deadline, and the last one out moves the state.
CloseCompletes == (state = connectionStartClose) ~> (state = connectionClosed)

\* A Closed connection closes its socket (stopCh reaches writeFrames).
SocketCloses == (state = connectionClosed) ~> netClosed

\* An exchange is not kept for ever: it leaves its set on completion or expiry.
ExchangesReclaimed == \A m \in Exchanges : (m \in mexes) ~> (m \notin mexes)

=============================================================================
