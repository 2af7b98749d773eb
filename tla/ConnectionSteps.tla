--------------------------- MODULE ConnectionSteps --------------------------
(***************************************************************************)
(* Proofs about Connection, first part: what each step does.  It moves one *)
(* goroutine and keeps the types, the dispatch of inbound calls            *)
(* (DispatchInv), checkExchanges (CurInv, WinnerInv, PendingInv), the      *)
(* exchanges (ExchangeInv) and the outbound calls (CallerInv); it keeps    *)
(* the invariant of draining (DrainInv) and moves the state only forwards, *)
(* past calls that are over; an exchange is removed once, by its owner, and *)
(* an expired one is not kept (PingInv, LifeInv); and unless the connection *)
(* failed, writeFrames closes the socket on nothing that anybody waits for *)
(* (NotifyInv, ContextInv, StrandInv).                                     *)
(***************************************************************************)
EXTENDS ConnectionInv, TLAPS

\* Who the goroutines are, and that they are all different.
LEMMA Members ==
  /\ Reader \in Goroutines /\ Writer \in Goroutines
  /\ \A i \in InCalls : Handler(i) \in Goroutines /\ Watcher(i) \in Goroutines
  /\ \A o \in OutCalls : Caller(o) \in Goroutines
  /\ \A p \in Pings : Pinger(p) \in Goroutines
  /\ \A r \in RelayCalls : Relay(r) \in Goroutines
  /\ \A c \in Closers : Closer(c) \in Goroutines
BY Zenon DEF Goroutines, Handlers, Watchers, Callers, Pingers, Relays

\* Goroutines of different kinds, or of different calls, are different.
LEMMA Distinct ==
  /\ Reader # Writer
  /\ \A x : /\ Handler(x) # Reader /\ Watcher(x) # Reader /\ Caller(x) # Reader
            /\ Pinger(x) # Reader /\ Relay(x) # Reader /\ Closer(x) # Reader
            /\ Handler(x) # Writer /\ Watcher(x) # Writer /\ Caller(x) # Writer
            /\ Pinger(x) # Writer /\ Relay(x) # Writer /\ Closer(x) # Writer
  /\ \A x, y : /\ Handler(x) # Watcher(y) /\ Handler(x) # Caller(y) /\ Handler(x) # Pinger(y)
               /\ Handler(x) # Relay(y) /\ Handler(x) # Closer(y)
               /\ Watcher(x) # Caller(y) /\ Watcher(x) # Pinger(y)
               /\ Watcher(x) # Relay(y) /\ Watcher(x) # Closer(y)
               /\ Caller(x) # Pinger(y) /\ Caller(x) # Relay(y) /\ Caller(x) # Closer(y)
               /\ Pinger(x) # Relay(y) /\ Pinger(x) # Closer(y) /\ Relay(x) # Closer(y)
  /\ \A x, y : /\ Handler(x) = Handler(y) => x = y
               /\ Watcher(x) = Watcher(y) => x = y
               /\ Caller(x) = Caller(y) => x = y
               /\ Relay(x) = Relay(y) => x = y
BY Zenon DEF Reader, Writer, Handler, Watcher, Caller, Pinger, Relay, Closer

\* Reader is no other goroutine.
LEMMA ReaderAlone ==
  /\ Reader \in Goroutines /\ Writer # Reader
  /\ \A x : /\ Handler(x) # Reader /\ Watcher(x) # Reader /\ Caller(x) # Reader
            /\ Pinger(x) # Reader /\ Relay(x) # Reader /\ Closer(x) # Reader
BY Members, Distinct, Zenon

\* The callers of outbound calls are no other goroutines.
LEMMA CallersAlone ==
  \A o \in OutCalls :
    /\ Caller(o) \in Goroutines /\ Caller(o) # Reader /\ Caller(o) # Writer
    /\ \A x : /\ Caller(o) # Handler(x) /\ Caller(o) # Watcher(x)
              /\ Caller(o) # Pinger(x) /\ Caller(o) # Relay(x) /\ Caller(o) # Closer(x)
    /\ \A x : Caller(o) = Caller(x) => o = x
BY Members, Distinct, Zenon

\* The handlers of inbound calls are no other goroutines.
LEMMA HandlersAlone ==
  \A i \in InCalls :
    /\ Handler(i) \in Goroutines /\ Handler(i) # Reader /\ Handler(i) # Writer
    /\ \A x : /\ Handler(i) # Watcher(x) /\ Handler(i) # Caller(x)
              /\ Handler(i) # Pinger(x) /\ Handler(i) # Relay(x) /\ Handler(i) # Closer(x)
    /\ \A x : Handler(i) = Handler(x) => i = x
BY Members, Distinct, Zenon

-----------------------------------------------------------------------------
(* What the routines shared by all goroutines do to the program counter. *)

ExchangeLabels == {"shutdown", "remove", "expire"}
ErrorLabels    == {"connectionError", "errStop", "errOut", "errIn"}

MovesTo(g, to) == \E l \in to : pc' = [pc EXCEPT ![g] = l]

\* A step of checkExchanges moves one goroutine, within it or back to its caller,
\* and touches neither the exchanges nor the network.
LEMMA CheckMoves ==
  ASSUME TypeOK, CurInv, NEW g \in Goroutines, checkExchanges(g)
  PROVE  /\ pc[g] \in CheckLabels /\ MovesTo(g, CheckLabels \cup ReturnLabels)
         /\ UNCHANGED <<stopped, mexVars, pending, netVars, after, rcall>>
<1>1. CASE CheckRead(g)
  BY <1>1, Zenon
     DEF TypeOK, TypePc, TypeRet, TypeCur, CheckRead, CheckReturn, Goto, At, MovesTo, CheckLabels, connVars
<1>2. CASE CheckStopped(g)
  BY <1>2, Zenon
     DEF TypeOK, TypePc, TypeRet, TypeCur, CurInv, CurAt, CheckStopped, moveState, NextCheck, Goto, At, MovesTo, CheckLabels,
    connectionStartClose, connectionInboundClosed, connectionClosed
<1>3. CASE CheckInbound(g)
  BY <1>3, Zenon
     DEF TypeOK, TypePc, TypeRet, TypeCur, CheckInbound, CheckCount, CheckReturn, Goto, At, MovesTo, CheckLabels, connVars
<1>4. CASE MoveInboundClosed(g)
  BY <1>4, Zenon
     DEF TypeOK, TypePc, TypeRet, TypeCur, MoveInboundClosed, Move, CheckReturn, Goto, At, MovesTo, CheckLabels
<1>5. CASE CheckOutbound(g)
  BY <1>5, Zenon
     DEF TypeOK, TypePc, TypeRet, TypeCur, CheckOutbound, CheckCount, CheckReturn, Goto, At, MovesTo, CheckLabels, connVars
<1>6. CASE MoveClosed(g)
  BY <1>6, Zenon
     DEF TypeOK, TypePc, TypeRet, TypeCur, MoveClosed, Move, CheckReturn, Goto, At, MovesTo, CheckLabels
<1>7. CASE CheckDone(g)
  BY <1>7, Zenon DEF TypeOK, TypePc, TypeRet, TypeCur, CheckDone, CheckReturn, Goto, At, MovesTo, CheckLabels
<1> QED
  BY <1>1, <1>2, <1>3, <1>4, <1>5, <1>6, <1>7, Zenon DEF checkExchanges

\* A step of connectionError moves one goroutine and removes no exchange.
LEMMA ErrorMoves ==
  ASSUME TypeOK, NEW g \in Goroutines, ErrorSteps(g)
  PROVE  /\ pc[g] \in ErrorLabels /\ MovesTo(g, ErrorLabels \cup {"ce_read"})
         /\ UNCHANGED <<stopCh, mexes, expired, shut, ctx, recv, pending, netVars, locals>>
<1>1. CASE connectionError(g)
  BY <1>1, Zenon DEF connectionError, CloseThen, Call, Goto, At, MovesTo, ErrorLabels, mexVars
<1>2. CASE ErrorStop(g)
  BY <1>2, Zenon DEF ErrorStop, Call, Goto, At, MovesTo, ErrorLabels, mexVars
<1>3. CASE ErrorStopOutbound(g)
  BY <1>3, Zenon DEF ErrorStopOutbound, stopExchanges, Goto, At, MovesTo, ErrorLabels, connVars
<1>4. CASE ErrorStopInbound(g)
  BY <1>4, Zenon DEF ErrorStopInbound, stopExchanges, Call, Goto, At, MovesTo, ErrorLabels, connVars
<1> QED
  BY <1>1, <1>2, <1>3, <1>4, Zenon DEF ErrorSteps

\* A step of shutdown, removeExchange or expireExchange moves one goroutine and
\* leaves the connection state alone.
LEMMA ExchangeMoves ==
  ASSUME TypeOK, NEW g \in Goroutines, ExchangeSteps(g)
  PROVE  /\ pc[g] \in ExchangeLabels /\ MovesTo(g, {"remove", "ce_read"} \cup ReturnLabels)
         /\ UNCHANGED <<connVars, setShut, ctx, recv, pending, netVars, after, locals>>
<1>1. CASE Shutdown(g)
  BY <1>1, Zenon DEF TypeOK, TypePc, TypeRet, TypeCur, Shutdown, Return, Goto, At, MovesTo, ExchangeLabels
<1>2. CASE RemoveExchange(g)
  BY <1>2, Zenon DEF TypeOK, TypePc, TypeRet, TypeCur, RemoveExchange, Return, Goto, At, MovesTo, ExchangeLabels
<1>3. CASE ExpireExchange(g)
  BY <1>3, Zenon DEF TypeOK, TypePc, TypeRet, TypeCur, ExpireExchange, Goto, At, MovesTo, ExchangeLabels
<1> QED
  BY <1>1, <1>2, <1>3, Zenon DEF ExchangeSteps

\* The labels at which a goroutine registers or begins a call, or counts a
\* relayed one.  The shared routines neither start from nor lead to them.
OwnLabels  == {"idle", "start", "reqReject", "reqAdd", "reqRecheck", "relaying",
               "begin", "add", "recheck", "checkError", "flush", "wait"}
StepLabels == CheckLabels \cup ErrorLabels \cup ExchangeLabels
StepTargets == CheckLabels \cup ErrorLabels \cup ReturnLabels \cup {"remove"}

\* The shared routines stay clear of the labels of the calls themselves.
LEMMA StepLabelSets ==
  /\ StepTargets \subseteq Labels
  /\ StepTargets \cap OwnLabels = {} /\ StepLabels \cap OwnLabels = {}
  /\ "shutdown" \notin StepTargets /\ "expire" \notin StepTargets
BY Zenon DEF StepTargets, StepLabels, Labels, OwnLabels, CheckLabels, ErrorLabels, ExchangeLabels,
  ReturnLabels, AfterLabels

\* What every step of the shared routines has in common.
LEMMA StepMoves ==
  ASSUME TypeOK, CurInv, NEW g \in Goroutines, Step(g)
  PROVE  /\ pc[g] \in StepLabels /\ MovesTo(g, StepTargets)
         /\ UNCHANGED <<pending, netVars, rcall>>
<1>0. "ce_read" \in CheckLabels
  BY Zenon DEF CheckLabels
<1>1. CASE checkExchanges(g)
  BY <1>1, CheckMoves, Zenon DEF MovesTo, StepTargets, StepLabels
<1>2. CASE ErrorSteps(g)
  BY <1>0, <1>2, ErrorMoves, Zenon DEF MovesTo, StepTargets, StepLabels, locals
<1>3. CASE ExchangeSteps(g)
  BY <1>0, <1>3, ExchangeMoves, Zenon DEF MovesTo, StepTargets, StepLabels, locals
<1> QED
  BY <1>1, <1>2, <1>3, Zenon DEF Step

-----------------------------------------------------------------------------
(* DispatchInv *)

DispatchLabels == {"idle", "start", "reqReject", "reqAdd", "reqRecheck"}

\* Steps that stay clear of the labels the invariant speaks of.
LEMMA DispatchKept ==
  ASSUME TypeOK, DispatchInv, NEW g \in Goroutines, NEW l \in Labels,
         pc' = [pc EXCEPT ![g] = l],
         pc[g] \notin DispatchLabels, l \notin DispatchLabels,
         UNCHANGED <<seen, rcall>>
  PROVE  DispatchInv'
BY Members DEF TypeOK, TypePc, DispatchInv, At, DispatchLabels

\* Steps of goroutines that are neither readFrames nor a handler nor a watcher.
LEMMA DispatchOthers ==
  ASSUME TypeOK, DispatchInv, NEW g \in Goroutines, NEW l,
         pc' = [pc EXCEPT ![g] = l], g # Reader,
         \A i \in InCalls : g # Handler(i) /\ g # Watcher(i),
         UNCHANGED <<seen, rcall>>
  PROVE  DispatchInv'
BY Members, Zenon DEF TypeOK, TypePc, TypeNet, DispatchInv, At

\* Every step preserves DispatchInv: readFrames starts the handler of a call, and
\* only readMethod starts its watcher.
LEMMA DispatchStep == ASSUME TypeOK, CurInv, DispatchInv, [Next]_vars PROVE DispatchInv'
<1>1. ASSUME NEW g \in Goroutines, Step(g) PROVE DispatchInv'
  <2>1. PICK l \in StepTargets : pc' = [pc EXCEPT ![g] = l]
    BY <1>1, StepMoves, Zenon DEF MovesTo
  <2>2. pc[g] \notin DispatchLabels /\ l \notin DispatchLabels /\ l \in Labels
    BY <1>1, <2>1, StepMoves, StepLabelSets, Zenon DEF OwnLabels, DispatchLabels
  <2> QED
    BY <1>1, <2>1, <2>2, StepMoves, DispatchKept, Zenon DEF netVars
<1>2. ASSUME NEW i \in InCalls, ReadCallReq(i) PROVE DispatchInv'
  BY <1>2, Members, Distinct, Zenon DEF TypeOK, TypePc, TypeNet, DispatchInv, ReadCallReq, Goto, At
<1>3. ASSUME NEW i \in InCalls, ReadDuplicate(i) PROVE DispatchInv'
  BY <1>3, Members, Distinct, Zenon DEF TypeOK, TypePc, TypeNet, DispatchInv, ReadDuplicate, Goto, At, netVars
<1>4. CASE HandlePingReq
  BY <1>4, Members, Distinct, Zenon
     DEF TypeOK, TypePc, TypeNet, DispatchInv, HandlePingReq, sendMessage, Fail, Goto, At
<1>5. CASE HandleErrorFrame \/ ReadError
  BY <1>5, Members, Distinct, Zenon
  DEF TypeOK, TypePc, TypeNet, DispatchInv, HandleErrorFrame, ReadError, Fail, Goto, At, netVars, locals
<1>6. CASE RejectCallReq \/ AddInbound
  BY <1>6, Members, Distinct, Zenon
  DEF TypeOK, TypePc, TypeNet, DispatchInv, RejectCallReq, AddInbound, Goto, At, netVars, locals
<1>7. CASE RecheckInbound
  BY <1>7, Members, Distinct, SMTT(60)
     DEF TypeOK, TypePc, TypeNet, DispatchInv, RecheckInbound, Call, Goto, At, netVars, locals
<1>8. CASE ProtocolSteps
  BY <1>8, Members, Distinct, Zenon
     DEF TypeOK, TypePc, TypeNet, DispatchInv, ProtocolSteps, protocolError, ProtocolClose,
    ProtocolStop, ProtocolStopOutbound, ProtocolStopInbound, CloseThen, Call, Goto, At, netVars, locals
<1>9. CASE writeFrames \/ WriteError
  BY <1>9, Members, Distinct DEF TypeOK, TypePc, TypeNet, DispatchInv, writeFrames, WriteFrame, WriterStop,
    closeNetwork, WriteError, Fail, Goto, At, netVars, locals
<1>10. ASSUME NEW i \in InCalls, ReadMethod(i) PROVE DispatchInv'
  BY <1>10, Members, Distinct, SMTT(60)
     DEF TypeOK, TypePc, TypeNet, DispatchInv, ReadMethod, Call, Goto, At, netVars, locals
<1>11. ASSUME NEW i \in InCalls, Respond(i) \/ RespondSystemError(i) \/ Blackhole(i) PROVE DispatchInv'
  BY <1>11, Members, Distinct DEF TypeOK, TypePc, TypeNet, DispatchInv, Respond, RespondSystemError, Blackhole,
    Call, Goto, At, netVars, locals
<1>12. ASSUME NEW i \in InCalls, FlushResponse(i) PROVE DispatchInv'
  BY <1>12, Members, Distinct, Zenon
     DEF TypeOK, TypePc, TypeNet, DispatchInv, FlushResponse, Flush, Call, Goto, At, locals
<1>13. ASSUME NEW i \in InCalls, DoneSending(i) \/ CancelResponse(i) \/ SendResponseError(i)
       PROVE DispatchInv'
  BY <1>13, Members, Distinct DEF TypeOK, TypePc, TypeNet, DispatchInv, DoneSending, CancelResponse,
    SendResponseError, Call, Goto, At, netVars, locals
<1>14. ASSUME NEW i \in InCalls, Watch(i) PROVE DispatchInv'
  BY <1>14, Members, Distinct DEF TypeOK, TypePc, DispatchInv, Watch, Call, Goto, At, netVars, locals
<1>15. ASSUME NEW o \in OutCalls,
              BeginCall(o) \/ BadResponse(o) \/ AddOutbound(o) \/ RecheckOutbound(o)
                \/ WriteRequest(o) \/ AwaitResponse(o) \/ FlushRequest(o)
       PROVE DispatchInv'
  <2>1. PICK l : pc' = [pc EXCEPT ![Caller(o)] = l]
    BY <1>15, Zenon DEF BeginCall, BadResponse, AddOutbound, RecheckOutbound, WriteRequest,
      AwaitResponse, FlushRequest, Flush, Call, Goto
  <2>2. UNCHANGED <<seen, rcall>>
    BY <1>15, Zenon DEF BeginCall, BadResponse, AddOutbound, RecheckOutbound, WriteRequest,
      AwaitResponse, FlushRequest, Flush, netVars, locals
  <2>3. /\ Caller(o) \in Goroutines /\ Caller(o) # Reader
        /\ \A i \in InCalls : Caller(o) # Handler(i) /\ Caller(o) # Watcher(i)
    BY Members, Distinct, Zenon
  <2> QED
    BY <2>1, <2>2, <2>3, DispatchOthers, Zenon
<1>16. ASSUME NEW p \in Pings, PingAdd(p) \/ PingSend(p) \/ PingDone(p) PROVE DispatchInv'
  <2>1. PICK l : pc' = [pc EXCEPT ![Pinger(p)] = l]
    BY <1>16, Zenon DEF PingAdd, PingSend, PingDone, sendMessage, Fail, Call, Goto
  <2>2. UNCHANGED <<seen, rcall>>
    BY <1>16, Zenon DEF PingAdd, PingSend, PingDone, netVars, locals
  <2>3. /\ Pinger(p) \in Goroutines /\ Pinger(p) # Reader
        /\ \A i \in InCalls : Pinger(p) # Handler(i) /\ Pinger(p) # Watcher(i)
    BY Members, Distinct, Zenon
  <2> QED
    BY <2>1, <2>2, <2>3, DispatchOthers, Zenon
<1>17. ASSUME NEW r \in RelayCalls, RelayCall(r) \/ decrementPending(r) PROVE DispatchInv'
  <2>1. PICK l : pc' = [pc EXCEPT ![Relay(r)] = l]
    BY <1>17, Zenon DEF RelayCall, decrementPending, Call, Goto
  <2>2. UNCHANGED <<seen, rcall>>
    BY <1>17, Zenon DEF RelayCall, decrementPending, netVars, locals
  <2>3. /\ Relay(r) \in Goroutines /\ Relay(r) # Reader
        /\ \A i \in InCalls : Relay(r) # Handler(i) /\ Relay(r) # Watcher(i)
    BY Members, Distinct, Zenon
  <2> QED
    BY <2>1, <2>2, <2>3, DispatchOthers, Zenon
<1>18. ASSUME NEW c \in Closers, Close(c) PROVE DispatchInv'
  <2>1. PICK l : pc' = [pc EXCEPT ![Closer(c)] = l]
    BY <1>18, Zenon DEF Close, CloseThen, Call, Goto
  <2>2. UNCHANGED <<seen, rcall>>
    BY <1>18, Zenon DEF Close, netVars, locals
  <2>3. /\ Closer(c) \in Goroutines /\ Closer(c) # Reader
        /\ \A i \in InCalls : Closer(c) # Handler(i) /\ Closer(c) # Watcher(i)
    BY Members, Distinct, Zenon
  <2> QED
    BY <2>1, <2>2, <2>3, DispatchOthers, Zenon
<1>19. ASSUME \/ \E m \in Outbound : ReadResponse(m)
              \/ \E m \in Exchanges : Timeout(m)
              \/ UNCHANGED vars
       PROVE DispatchInv'
  BY <1>19, Zenon DEF DispatchInv, At, ReadResponse, Timeout, vars, netVars, locals
<1> QED
  BY <1>1, <1>2, <1>3, <1>4, <1>5, <1>6, <1>7, <1>8, <1>9, <1>10, <1>11, <1>12, <1>13, <1>14,
     <1>15, <1>16, <1>17, <1>18, <1>19, Zenon
  DEF Next, Environment, Program, readFrames, ReaderSteps, HandlerChoice, HandlerSteps,
    CallerSteps, PingerSteps

-----------------------------------------------------------------------------
(* CurInv, WinnerInv and PendingInv *)

\* The labels between the read of the state and the return of checkExchanges.
InCheck == CheckLabels \ {"ce_read"}

\* A step outside checkExchanges and the relayer: the state may start to close.
PlainLabel(l) == l \notin InCheck /\ l # "relaying"
PlainStep ==
  /\ \A h \in Goroutines : pc'[h] = pc[h] \/ (PlainLabel(pc[h]) /\ PlainLabel(pc'[h]))
  /\ UNCHANGED <<cur, stopCh, pending>>
  /\ state' = state \/ (state = connectionActive /\ state' = connectionStartClose)

\* A plain step preserves the invariants of checkExchanges: the state only grows.
LEMMA PlainKept ==
  ASSUME TypeOK, CurInv, WinnerInv, PendingInv, PlainStep
  PROVE  CurInv' /\ WinnerInv' /\ PendingInv'
<1> USE DEF connectionActive, connectionStartClose, connectionInboundClosed, connectionClosed
<1>1. CurInv'
  BY DEF TypeOK, TypePc, TypeRet, TypeCur, TypeConn, CurInv, CurAt, PlainStep, PlainLabel, InCheck, CheckLabels, At, ConnectionState, NoState
<1>2. WinnerInv'
  BY DEF TypeOK, TypePc, TypeRet, TypeCur, WinnerInv, PlainStep
<1>3. Relaying' = Relaying
  BY Members, Zenon DEF PlainStep, PlainLabel, Relaying, At
<1>4. PendingInv'
  BY <1>3 DEF TypeOK, TypePc, TypeRet, TypeCur, PendingInv, PlainStep, PlainLabel, InCheck, CheckLabels, At
<1> HIDE DEF connectionActive, connectionStartClose, connectionInboundClosed, connectionClosed
<1> QED
  BY <1>1, <1>2, <1>4, Zenon

\* The usual case: one goroutine moves.
LEMMA OneMove ==
  ASSUME TypeOK, NEW g \in Goroutines, NEW l, pc' = [pc EXCEPT ![g] = l],
         PlainLabel(pc[g]), PlainLabel(l)
  PROVE  \A h \in Goroutines : pc'[h] = pc[h] \/ (PlainLabel(pc[h]) /\ PlainLabel(pc'[h]))
BY Zenon DEF TypeOK, TypePc, TypeRet, TypeCur

\* The stale curState of the goroutines that do not move stays below the state.
LEMMA CurOthers ==
  ASSUME TypeOK, CurInv, NEW h \in Goroutines, pc'[h] = pc[h], cur'[h] = cur[h],
         state' \in {1, 2, 3, 4}, state' >= state
  PROVE  CurAt(h)'
<1>1. cur[h] \in Nat /\ state \in Nat /\ cur[h] <= state
  BY DEF TypeOK, TypePc, TypeRet, TypeCur, TypeConn, ConnectionState, NoState, CurInv, CurAt
<1>2. cur'[h] <= state'
  BY <1>1
<1> QED
  BY <1>2, Zenon DEF CurInv, CurAt, At

\* The steps of checkExchanges themselves.
LEMMA CheckKept ==
  ASSUME TypeOK, CurInv, WinnerInv, PendingInv, NEW g \in Goroutines, checkExchanges(g)
  PROVE  CurInv' /\ WinnerInv' /\ PendingInv'
<1> USE DEF connectionActive, connectionStartClose, connectionInboundClosed, connectionClosed, NoState
<1>0. /\ pending' = pending /\ Relaying' = Relaying
      /\ pending \in Nat /\ state \in {1, 2, 3, 4} /\ stopCh \in Nat
      /\ ret[g] \notin InCheck
  <2>1. PICK l \in CheckLabels \cup ReturnLabels : pc' = [pc EXCEPT ![g] = l]
    BY CheckMoves, Zenon DEF MovesTo
  <2>2. pc[g] # "relaying" /\ l # "relaying"
    BY <2>1, CheckMoves, Zenon DEF CheckLabels, ReturnLabels, AfterLabels
  <2>3. Relaying' = Relaying
    BY <2>1, <2>2, Members, Zenon DEF TypeOK, TypePc, TypeRet, TypeCur, Relaying, At
  <2> QED
    BY <2>3, CheckMoves
       DEF TypeOK, TypePc, TypeRet, TypeCur, TypeConn, ConnectionState, InCheck, CheckLabels, ReturnLabels, AfterLabels
<1>1. CASE CheckRead(g)
  <2>1. CurInv'
    BY <1>0, <1>1
       DEF TypeOK, TypePc, TypeRet, TypeCur, CurInv, CurAt, CheckRead, CheckReturn, Goto, At, connVars, InCheck, CheckLabels
  <2>2. WinnerInv'
    BY <1>1 DEF TypeOK, TypePc, TypeRet, TypeCur, WinnerInv, CheckRead, CheckReturn, connVars
  <2>3. PendingInv'
    BY <1>0, <1>1
       DEF TypeOK, TypePc, TypeRet, TypeCur, PendingInv, CheckRead, CheckReturn, Goto, At, connVars, InCheck, CheckLabels
  <2> QED
    BY <2>1, <2>2, <2>3, Zenon
<1>2. CASE CheckStopped(g)
  <2>0. state' \in {1, 2, 3, 4} /\ state' >= state
    BY <1>0, <1>2 DEF CurInv, CurAt, CheckStopped, moveState, NextCheck, At
  <2>a. CurAt(g)'
    BY <1>0, <1>2
       DEF TypeOK, TypePc, TypeRet, TypeCur, TypeConn, ConnectionState, CurInv, CurAt, CheckStopped, moveState, NextCheck, Goto, At, CheckReturn, InCheck, CheckLabels
  <2>b. ASSUME NEW h \in Goroutines, h # g PROVE CurAt(h)'
    <3>1. cur'[h] = cur[h] /\ pc'[h] = pc[h]
      BY <1>2, <2>b, Zenon
         DEF TypeOK, TypePc, TypeRet, TypeCur, CheckStopped, moveState, NextCheck, Goto, CheckReturn
    <3> QED
      BY <2>0, <3>1, CurOthers, Zenon
  <2>1. CurInv'
    BY <2>a, <2>b, Zenon DEF CurInv
  <2>2. WinnerInv'
    BY <1>0, <1>2 DEF TypeOK, TypePc, TypeRet, TypeCur, CurInv, CurAt, WinnerInv, CheckStopped, moveState, At
  <2>3. PendingInv'
    BY <1>0, <1>2, SMTT(60)
       DEF TypeOK, TypePc, TypeRet, TypeCur, CurInv, CurAt, PendingInv, CheckStopped, moveState, NextCheck, Goto, At
  <2> QED
    BY <2>1, <2>2, <2>3
<1>3. CASE CheckInbound(g) \/ CheckOutbound(g)
  <2>1. CurInv'
    BY <1>0, <1>3
       DEF TypeOK, TypePc, TypeRet, TypeCur, CurInv, CurAt, CheckInbound, CheckOutbound, CheckCount, CheckReturn,
      Goto, At, connVars, InCheck, CheckLabels
  <2>2. WinnerInv'
    BY <1>3
       DEF TypeOK, TypePc, TypeRet, TypeCur, WinnerInv, CheckInbound, CheckOutbound, CheckCount, CheckReturn, connVars
  <2>3. PendingInv'
    BY <1>0, <1>3, SMTT(60)
       DEF TypeOK, TypePc, TypeRet, TypeCur, PendingInv, CheckInbound, CheckOutbound, CheckCount, CheckReturn,
      Goto, At, connVars, InCheck, CheckLabels
  <2> QED
    BY <2>1, <2>2, <2>3
<1>4. CASE MoveInboundClosed(g)
  <2>0. state' \in {1, 2, 3, 4} /\ state' >= state
    BY <1>0, <1>4 DEF CurInv, CurAt, MoveInboundClosed, Move, moveState, At
  <2>a. CurAt(g)'
    BY <1>0, <1>4
       DEF TypeOK, TypePc, TypeRet, TypeCur, TypeConn, ConnectionState, CurInv, CurAt, MoveInboundClosed, Move, moveState, Goto, At, CheckReturn, InCheck, CheckLabels
  <2>b. ASSUME NEW h \in Goroutines, h # g PROVE CurAt(h)'
    <3>1. cur'[h] = cur[h] /\ pc'[h] = pc[h]
      BY <1>4, <2>b, Zenon
         DEF TypeOK, TypePc, TypeRet, TypeCur, MoveInboundClosed, Move, moveState, Goto, CheckReturn
    <3> QED
      BY <2>0, <3>1, CurOthers
  <2>1. CurInv'
    BY <2>a, <2>b DEF CurInv
  <2>2. WinnerInv'
    BY <1>0, <1>4
       DEF TypeOK, TypePc, TypeRet, TypeCur, CurInv, CurAt, WinnerInv, MoveInboundClosed, Move, moveState, CheckReturn, At
  <2>3. PendingInv'
    BY <1>0, <1>4, Zenon
       DEF TypeOK, TypePc, TypeRet, TypeCur, CurInv, CurAt, PendingInv, MoveInboundClosed, Move, moveState, CheckReturn,
      Goto, At, InCheck, CheckLabels
  <2> QED
    BY <2>1, <2>2, <2>3
<1>5. CASE MoveClosed(g)
  <2>0. state' \in {1, 2, 3, 4} /\ state' >= state
    BY <1>0, <1>5 DEF CurInv, CurAt, MoveClosed, Move, moveState, At
  <2>a. CurAt(g)'
    BY <1>0, <1>5
       DEF TypeOK, TypePc, TypeRet, TypeCur, TypeConn, ConnectionState, CurInv, CurAt, MoveClosed, Move, moveState, Goto, At, CheckReturn, InCheck, CheckLabels
  <2>b. ASSUME NEW h \in Goroutines, h # g PROVE CurAt(h)'
    <3>1. cur'[h] = cur[h] /\ pc'[h] = pc[h]
      BY <1>5, <2>b, Zenon DEF TypeOK, TypePc, TypeRet, TypeCur, MoveClosed, Move, moveState, Goto, CheckReturn
    <3> QED
      BY <2>0, <3>1, CurOthers
  <2>1. CurInv'
    BY <2>a, <2>b DEF CurInv
  <2>2. WinnerInv'
    BY <1>0, <1>5
       DEF TypeOK, TypePc, TypeRet, TypeCur, CurInv, CurAt, WinnerInv, MoveClosed, Move, moveState, CheckReturn, At
  <2>3. PendingInv'
    BY <1>0, <1>5, Zenon
       DEF TypeOK, TypePc, TypeRet, TypeCur, CurInv, CurAt, PendingInv, MoveClosed, Move, moveState, CheckReturn,
      Goto, At, InCheck, CheckLabels
  <2> QED
    BY <2>1, <2>2, <2>3
<1>6. CASE CheckDone(g)
  <2>1. CurInv'
    BY <1>0, <1>6
       DEF TypeOK, TypePc, TypeRet, TypeCur, CurInv, CurAt, CheckDone, CheckReturn, At, InCheck, CheckLabels
  <2>2. WinnerInv'
    BY <1>0, <1>6 DEF TypeOK, TypePc, TypeRet, TypeCur, WinnerInv, CheckDone, CheckReturn
  <2>3. PendingInv'
    BY <1>0, <1>6
       DEF TypeOK, TypePc, TypeRet, TypeCur, PendingInv, CheckDone, CheckReturn, Goto, At, InCheck, CheckLabels
  <2> QED
    BY <2>1, <2>2, <2>3
<1> HIDE DEF connectionActive, connectionStartClose, connectionInboundClosed, connectionClosed, NoState
<1> QED
  BY <1>1, <1>2, <1>3, <1>4, <1>5, <1>6, Zenon DEF checkExchanges

\* connectionError, shutdown, removeExchange and expireExchange are plain steps.
LEMMA PlainError ==
  ASSUME TypeOK, NEW g \in Goroutines, ErrorSteps(g) \/ ExchangeSteps(g)
  PROVE  PlainStep
<1> USE DEF PlainLabel, InCheck, CheckLabels, PlainStep
<1>1. CASE ErrorSteps(g)
  <2>1. state' = state \/ (state = connectionActive /\ state' = connectionStartClose)
    BY <1>1, Zenon DEF ErrorSteps, connectionError, ErrorStop, ErrorStopOutbound, ErrorStopInbound,
      CloseThen, connVars
  <2>2. PICK l \in ErrorLabels \cup {"ce_read"} : pc' = [pc EXCEPT ![g] = l]
    BY <1>1, ErrorMoves, Zenon DEF MovesTo
  <2>3. PlainLabel(pc[g]) /\ PlainLabel(l)
    BY <1>1, <2>2, ErrorMoves, Zenon DEF ErrorLabels
  <2> QED
    BY <1>1, <2>1, <2>2, <2>3, ErrorMoves, OneMove, Zenon DEF locals
<1>2. CASE ExchangeSteps(g)
  <2>1. PICK l \in {"remove", "ce_read"} \cup ReturnLabels : pc' = [pc EXCEPT ![g] = l]
    BY <1>2, ExchangeMoves, Zenon DEF MovesTo
  <2>2. PlainLabel(pc[g]) /\ PlainLabel(l)
    BY <1>2, <2>1, ExchangeMoves, Zenon DEF ExchangeLabels, ReturnLabels, AfterLabels
  <2> QED
    BY <1>2, <2>1, <2>2, ExchangeMoves, OneMove, Zenon DEF locals, connVars
<1> HIDE DEF PlainLabel, InCheck, CheckLabels, PlainStep
<1> QED
  BY <1>1, <1>2, Zenon

\* The steps of readFrames are plain steps.
LEMMA PlainReader ==
  ASSUME TypeOK, DispatchInv, readFrames \/ ReaderSteps PROVE PlainStep
<1> USE Members, Distinct
<1> USE DEF PlainLabel, InCheck, CheckLabels, PlainStep, TypeOK, TypePc, TypeRet, TypeCur, At, Goto, connVars, locals
<1>1. ASSUME NEW i \in InCalls, ReadCallReq(i) \/ ReadDuplicate(i) PROVE PlainStep
  BY <1>1, Zenon DEF ReadCallReq, ReadDuplicate
<1>2. ASSUME NEW m \in Outbound, ReadResponse(m) PROVE PlainStep
  BY <1>2, Zenon DEF ReadResponse
<1>3. CASE HandlePingReq \/ HandleErrorFrame \/ ReadError
  BY <1>3, SMTT(60) DEF HandlePingReq, HandleErrorFrame, ReadError, sendMessage, Fail
<1>4. CASE RejectCallReq \/ AddInbound
  BY <1>4, SMTT(60) DEF RejectCallReq, AddInbound
<1>5. CASE RecheckInbound
  BY <1>5, SMTT(60) DEF RecheckInbound, DispatchInv, Call
<1>6. CASE ProtocolSteps
  BY <1>6, SMTT(60) DEF ProtocolSteps, protocolError, ProtocolClose, ProtocolStop, ProtocolStopOutbound,
    ProtocolStopInbound, CloseThen, Call
<1> HIDE Members, Distinct
<1> HIDE DEF PlainLabel, InCheck, CheckLabels, PlainStep, TypeOK, TypePc, TypeRet, TypeCur, At, Goto, connVars, locals
<1> QED
  BY <1>1, <1>2, <1>3, <1>4, <1>5, <1>6, Zenon DEF readFrames, ReaderSteps

\* The steps of handlers and watchers are plain steps.
LEMMA PlainHandler ==
  ASSUME TypeOK, DispatchInv, NEW i \in InCalls,
         HandlerChoice(i) \/ HandlerSteps(i) \/ Watch(i)
  PROVE  PlainStep
<1> USE Members, Distinct
<1> USE DEF PlainLabel, InCheck, CheckLabels, PlainStep, TypeOK, TypePc, TypeRet, TypeCur, At, Goto, Call, connVars, locals
<1>1. CASE ReadMethod(i)
  BY <1>1, SMTT(60) DEF ReadMethod, DispatchInv
<1>2. CASE Respond(i) \/ RespondSystemError(i) \/ Blackhole(i)
  BY <1>2, SMTT(60) DEF Respond, RespondSystemError, Blackhole
<1>3. CASE FlushResponse(i)
  BY <1>3, Zenon DEF FlushResponse, Flush
<1>4. CASE DoneSending(i) \/ CancelResponse(i) \/ SendResponseError(i)
  BY <1>4, Zenon DEF DoneSending, CancelResponse, SendResponseError
<1>5. CASE Watch(i)
  BY <1>5, Zenon DEF Watch
<1> HIDE Members, Distinct
<1> HIDE DEF PlainLabel, InCheck, CheckLabels, PlainStep, TypeOK, TypePc, TypeRet, TypeCur, At, Goto, Call, connVars, locals
<1> QED
  BY <1>1, <1>2, <1>3, <1>4, <1>5, Zenon DEF HandlerChoice, HandlerSteps

\* The steps of callers are plain steps.
LEMMA PlainCaller ==
  ASSUME TypeOK, NEW o \in OutCalls, BeginCall(o) \/ BadResponse(o) \/ CallerSteps(o)
  PROVE  PlainStep
<1> USE Members
<1> USE DEF PlainLabel, InCheck, CheckLabels, PlainStep, TypeOK, TypePc, TypeRet, TypeCur, At, Goto, Call, connVars, locals
<1>1. CASE BeginCall(o) \/ BadResponse(o) \/ AddOutbound(o)
  BY <1>1, Zenon DEF BeginCall, BadResponse, AddOutbound
<1>2. CASE RecheckOutbound(o) \/ WriteRequest(o) \/ AwaitResponse(o)
  BY <1>2, Zenon DEF RecheckOutbound, WriteRequest, AwaitResponse
<1>3. CASE FlushRequest(o)
  BY <1>3, Zenon DEF FlushRequest, Flush
<1> HIDE Members
<1> HIDE DEF PlainLabel, InCheck, CheckLabels, PlainStep, TypeOK, TypePc, TypeRet, TypeCur, At, Goto, Call, connVars, locals
<1> QED
  BY <1>1, <1>2, <1>3, Zenon DEF CallerSteps

\* So are those of writeFrames, pings, Close and deadlines.
LEMMA PlainOthers ==
  ASSUME TypeOK,
         \/ writeFrames \/ WriteError
         \/ \E p \in Pings : PingAdd(p) \/ PingerSteps(p)
         \/ \E c \in Closers : Close(c)
         \/ \E m \in Exchanges : Timeout(m)
         \/ UNCHANGED vars
  PROVE  PlainStep
<1> USE Members
<1> USE DEF PlainLabel, InCheck, CheckLabels, PlainStep, TypeOK, TypePc, TypeRet, TypeCur, At, Goto, Call, connVars, locals
<1>1. CASE writeFrames \/ WriteError
  BY <1>1, SMTT(60) DEF writeFrames, WriteFrame, WriterStop, closeNetwork, WriteError, Fail
<1>2. ASSUME NEW p \in Pings, PingAdd(p) \/ PingerSteps(p) PROVE PlainStep
  BY <1>2, ZenonT(60) DEF PingAdd, PingerSteps, PingSend, PingDone, sendMessage, Fail
<1>3. ASSUME NEW c \in Closers, Close(c) PROVE PlainStep
  BY <1>3, SMTT(60) DEF Close, CloseThen
<1>4. CASE (\E m \in Exchanges : Timeout(m)) \/ UNCHANGED vars
  BY <1>4, Zenon DEF Timeout, vars
<1> HIDE Members
<1> HIDE DEF PlainLabel, InCheck, CheckLabels, PlainStep, TypeOK, TypePc, TypeRet, TypeCur, At, Goto, Call, connVars, locals
<1> QED
  BY <1>1, <1>2, <1>3, <1>4, Zenon

-----------------------------------------------------------------------------
(* ExchangeInv *)

\* A step that takes one goroutine to a label other than the three.
LEMMA ExchangeKept ==
  ASSUME TypeOK, ExchangeInv, NEW g \in Goroutines, NEW l,
         pc' = [pc EXCEPT ![g] = l], l \notin ExchangeLabels, rcall' = rcall \/ g = Reader
  PROVE  ExchangeInv'
BY Members, Zenon DEF TypeOK, TypePc, TypeRet, TypeCur, ExchangeInv, ExchangeLabels, At

\* Every step preserves ExchangeInv: each routine works on its own exchange.
LEMMA ExchangeStep ==
  ASSUME TypeOK, CurInv, DispatchInv, ExchangeInv, [Next]_vars PROVE ExchangeInv'
<1> USE Members, ReaderAlone
<1> USE DEF Call, Goto, At
<1>1. ASSUME NEW g \in Goroutines, checkExchanges(g) PROVE ExchangeInv'
  <2>1. PICK l \in CheckLabels \cup ReturnLabels : pc' = [pc EXCEPT ![g] = l]
    BY <1>1, CheckMoves, Zenon DEF MovesTo
  <2>2. l \notin ExchangeLabels
    BY <2>1, Zenon DEF CheckLabels, ReturnLabels, AfterLabels, ExchangeLabels
  <2> QED
    BY <1>1, <2>1, <2>2, CheckMoves, ExchangeKept, Zenon
<1>2. ASSUME NEW g \in Goroutines, ErrorSteps(g) PROVE ExchangeInv'
  <2>1. PICK l \in ErrorLabels \cup {"ce_read"} : pc' = [pc EXCEPT ![g] = l]
    BY <1>2, ErrorMoves, Zenon DEF MovesTo
  <2>2. l \notin ExchangeLabels
    BY <2>1, Zenon DEF ErrorLabels, ExchangeLabels
  <2> QED
    BY <1>2, <2>1, <2>2, ErrorMoves, ExchangeKept, Zenon DEF locals
<1>3. ASSUME NEW g \in Goroutines, ExchangeSteps(g) PROVE ExchangeInv'
  <2>1. PICK l \in {"remove", "ce_read"} \cup ReturnLabels : pc' = [pc EXCEPT ![g] = l]
    BY <1>3, ExchangeMoves, Zenon DEF MovesTo
  <2>2. rcall' = rcall
    BY <1>3, ExchangeMoves DEF locals
  <2>3. CASE l \notin ExchangeLabels
    BY <2>1, <2>2, <2>3, ExchangeKept, Zenon
  <2>4. CASE l \in ExchangeLabels
    <3>1. l = "remove"
      BY <2>1, <2>4 DEF ReturnLabels, AfterLabels, ExchangeLabels
    <3>2. pc[g] = "shutdown"
      BY <1>3, <2>1, <3>1 DEF TypeOK, TypePc, TypeRet, ExchangeSteps, Shutdown, RemoveExchange, ExpireExchange,
        Return, ReturnLabels, AfterLabels
    <3> QED
      BY <2>1, <2>2, <3>1, <3>2, Zenon DEF TypeOK, TypePc, ExchangeInv
  <2> QED
    BY <2>3, <2>4, Zenon
<1>4. CASE readFrames
  <2>1. ASSUME NEW i \in InCalls, ReadCallReq(i) \/ ReadDuplicate(i) PROVE ExchangeInv'
    BY <2>1, Zenon DEF TypeOK, TypePc, ExchangeInv, ReadCallReq, ReadDuplicate
  <2>2. ASSUME NEW m \in Outbound, ReadResponse(m) PROVE ExchangeInv'
    BY <2>2, Zenon DEF TypeOK, TypePc, ExchangeInv, ReadResponse, locals
  <2>3. CASE HandlePingReq
    BY <2>3, Zenon DEF TypeOK, TypePc, ExchangeInv, HandlePingReq, sendMessage, Fail
  <2>4. CASE HandleErrorFrame \/ ReadError
    BY <2>4, Zenon DEF TypeOK, TypePc, ExchangeInv, HandleErrorFrame, ReadError, Fail, locals
  <2> QED
    BY <1>4, <2>1, <2>2, <2>3, <2>4, Zenon DEF readFrames
<1>5. CASE RejectCallReq \/ AddInbound \/ ProtocolSteps
  BY <1>5, Zenon DEF TypeOK, TypePc, ExchangeInv, RejectCallReq, AddInbound, ProtocolSteps, protocolError,
    ProtocolClose, ProtocolStop, ProtocolStopOutbound, ProtocolStopInbound, CloseThen, locals
<1>6. CASE RecheckInbound
  <2>1. rcall \in InCalls
    BY <1>6, Zenon DEF RecheckInbound, DispatchInv, TypeOK, TypeNet
  <2> QED
    BY <1>6, <2>1 DEF TypeOK, TypePc, ExchangeInv, RecheckInbound, locals
<1>7. ASSUME NEW i \in InCalls, HandlerChoice(i) \/ HandlerSteps(i) PROVE ExchangeInv'
  <2>1. Handler(i) \in Handlers /\ Handler(i) \notin Watchers
    BY Distinct, Zenon DEF Handlers, Watchers
  <2>2. CASE HandlerChoice(i)
    BY <2>1, <2>2 DEF TypeOK, TypePc, ExchangeInv, HandlerChoice, Respond, RespondSystemError, Blackhole, locals
  <2>3. CASE FlushResponse(i)
    BY <2>1, <2>3, Zenon DEF TypeOK, TypePc, ExchangeInv, FlushResponse, Flush, locals
  <2>4. CASE ReadMethod(i)
    BY <2>1, <2>4 DEF TypeOK, TypePc, ExchangeInv, ReadMethod, locals
  <2>5. CASE DoneSending(i) \/ CancelResponse(i) \/ SendResponseError(i)
    BY <2>1, <2>5, Zenon DEF TypeOK, TypePc, ExchangeInv, DoneSending, CancelResponse, SendResponseError, locals
  <2> QED
    BY <1>7, <2>2, <2>3, <2>4, <2>5, Zenon DEF HandlerSteps
<1>8. ASSUME NEW i \in InCalls, Watch(i) PROVE ExchangeInv'
  BY <1>8 DEF TypeOK, TypePc, ExchangeInv, Watch, Watchers, locals
<1>9. ASSUME NEW o \in OutCalls, BeginCall(o) \/ BadResponse(o) \/ CallerSteps(o) PROVE ExchangeInv'
  <2>1. Caller(o) \in Callers
    BY Zenon DEF Callers
  <2>2. CASE BeginCall(o) \/ BadResponse(o) \/ AddOutbound(o)
    BY <2>2, Zenon DEF TypeOK, TypePc, ExchangeInv, BeginCall, BadResponse, AddOutbound, locals
  <2>3. CASE RecheckOutbound(o) \/ WriteRequest(o) \/ AwaitResponse(o)
    BY <2>1, <2>3 DEF TypeOK, TypePc, ExchangeInv, RecheckOutbound, WriteRequest, AwaitResponse, locals
  <2>4. CASE FlushRequest(o)
    BY <2>1, <2>4 DEF TypeOK, TypePc, ExchangeInv, FlushRequest, Flush, locals
  <2> QED
    BY <1>9, <2>2, <2>3, <2>4, Zenon DEF CallerSteps
<1>10. ASSUME NEW p \in Pings, PingAdd(p) \/ PingerSteps(p) PROVE ExchangeInv'
  BY <1>10 DEF TypeOK, TypePc, ExchangeInv, PingAdd, PingerSteps, PingSend, PingDone, sendMessage, Fail,
    Pingers, locals
<1>11. ASSUME NEW r \in RelayCalls, RelayCall(r) \/ decrementPending(r) PROVE ExchangeInv'
  BY <1>11, Zenon DEF TypeOK, TypePc, ExchangeInv, RelayCall, decrementPending, locals
<1>12. CASE writeFrames \/ WriteError
  BY <1>12 DEF TypeOK, TypePc, ExchangeInv, writeFrames, WriteFrame, WriterStop, closeNetwork, WriteError,
    Fail, locals
<1>14. ASSUME NEW c \in Closers, Close(c) PROVE ExchangeInv'
  BY <1>14, Zenon DEF TypeOK, TypePc, ExchangeInv, Close, CloseThen, locals
<1>13. CASE (\E m \in Exchanges : Timeout(m)) \/ UNCHANGED vars
  BY <1>13, Zenon DEF ExchangeInv, Timeout, vars, locals
<1> QED
  BY <1>1, <1>2, <1>3, <1>4, <1>5, <1>6, <1>7, <1>8, <1>9, <1>10, <1>11, <1>12, <1>13, <1>14, Zenon
  DEF Next, Environment, Program, Step, ReaderSteps

-----------------------------------------------------------------------------
(* CallerInv *)

\* Only Caller(o) moves itself; nobody else adds o to the exchanges or to the
\* exchanges that are shut down.
LEMMA CallerKept ==
  ASSUME CallerInv,
         \A o \in OutCalls :
           /\ pc'[Caller(o)] = pc[Caller(o)] /\ ret'[Caller(o)] = ret[Caller(o)]
           /\ o \in mexes' => o \in mexes
           /\ o \in shut' => o \in shut
  PROVE  CallerInv'
BY Zenon DEF CallerInv, At

\* The exchange a goroutine other than Caller(o) removes is not o.
LEMMA OwnExchange ==
  ASSUME TypeOK, ExchangeInv, NEW g \in Goroutines, pc[g] \in ExchangeLabels,
         NEW o \in OutCalls, g # Caller(o)
  PROVE  Mex(g) # o
<1>1. CASE g = Reader
  BY <1>1, CallsAssumption DEF ExchangeInv, ExchangeLabels, At, Mex, Watchers, Watcher, Reader
<1>2. CASE g # Reader
  <2>1. g \in Handlers \cup Callers \cup Pingers \cup Watchers
    BY <1>2, Zenon DEF ExchangeInv, ExchangeLabels, At
  <2> QED
    BY <1>2, <2>1, CallsAssumption
    DEF Mex, Handlers, Callers, Pingers, Watchers, Handler, Caller, Pinger, Watcher
<1> QED
  BY <1>1, <1>2, Zenon

\* Every step preserves CallerInv: the exchange of a call belongs to its caller.
LEMMA CallerStep ==
  ASSUME TypeOK, CurInv, DispatchInv, ExchangeInv, CallerInv, [Next]_vars PROVE CallerInv'
<1> USE CallersAlone
<1> USE DEF Call, Goto, At
<1>1. ASSUME NEW g \in Goroutines, checkExchanges(g) PROVE CallerInv'
  <2>1. PICK l \in CheckLabels \cup ReturnLabels : pc' = [pc EXCEPT ![g] = l]
    BY <1>1, CheckMoves, Zenon DEF MovesTo
  <2>2. pc[g] \in CheckLabels /\ UNCHANGED <<mexes, shut>>
    BY <1>1, CheckMoves DEF mexVars
  <2>3. \/ ret' = ret /\ l \in CheckLabels
        \/ l = ret[g] /\ ret' = [ret EXCEPT ![g] = "done"]
    <3>1. CASE CheckRead(g)
      BY <2>1, <3>1 DEF TypeOK, TypePc, TypeRet, CheckRead, CheckReturn, CheckLabels
    <3>2. CASE CheckStopped(g)
      <4>1. cur'[g] \in {connectionStartClose, connectionInboundClosed, connectionClosed}
        BY <3>2, Zenon DEF TypeOK, TypePc, TypeCur, CurInv, CurAt, CheckStopped, moveState
      <4> QED
        BY <2>1, <3>2, <4>1, Zenon DEF TypeOK, TypePc, TypeRet, CheckStopped, NextCheck, CheckLabels
    <3>3. CASE CheckInbound(g) \/ CheckOutbound(g)
      BY <2>1, <3>3, SMTT(60)
         DEF TypeOK, TypePc, TypeRet, CheckInbound, CheckOutbound, CheckCount, CheckReturn, CheckLabels
    <3>4. CASE MoveInboundClosed(g) \/ MoveClosed(g)
      BY <2>1, <3>4 DEF TypeOK, TypePc, TypeRet, MoveInboundClosed, MoveClosed, Move, CheckReturn, CheckLabels
    <3>5. CASE CheckDone(g)
      BY <2>1, <3>5, Zenon DEF TypeOK, TypePc, TypeRet, CheckDone, CheckReturn
    <3> QED
      BY <1>1, <3>1, <3>2, <3>3, <3>4, <3>5, Zenon DEF checkExchanges
  <2> QED
    BY <2>1, <2>2, <2>3 DEF TypeOK, TypePc, TypeRet, CallerInv, CheckLabels, ReturnLabels, AfterLabels
<1>2. ASSUME NEW g \in Goroutines, ErrorSteps(g) PROVE CallerInv'
  <2>1. PICK l \in ErrorLabels \cup {"ce_read"} : pc' = [pc EXCEPT ![g] = l]
    BY <1>2, ErrorMoves DEF MovesTo
  <2>2. pc[g] \in ErrorLabels /\ UNCHANGED <<mexes, shut>>
    BY <1>2, ErrorMoves
  <2>3. ret' = ret \/ \E x \in ReturnLabels : x # "rejected" /\ ret' = [ret EXCEPT ![g] = x]
    BY <1>2, Zenon
       DEF TypeOK, TypePc, TypeRet, ErrorSteps, connectionError, ErrorStop, ErrorStopOutbound, ErrorStopInbound,
      CloseThen, ReturnLabels, AfterLabels
  <2> QED
    BY <2>1, <2>2, <2>3 DEF TypeOK, TypePc, TypeRet, CallerInv, ErrorLabels
<1>3. ASSUME NEW g \in Goroutines, ExchangeSteps(g) PROVE CallerInv'
  <2>0. PICK l \in {"remove", "ce_read"} \cup ReturnLabels : pc' = [pc EXCEPT ![g] = l]
    BY <1>3, ExchangeMoves, Zenon DEF MovesTo
  <2>1. /\ mexes' \subseteq mexes /\ shut' \subseteq shut \cup {Mex(g)} /\ pc[g] \in ExchangeLabels
        /\ ret' = ret \/ ret' = [ret EXCEPT ![g] = "done"]
    BY <1>3, ExchangeMoves, Zenon DEF ExchangeSteps, Shutdown, RemoveExchange, ExpireExchange, Return
  <2>2. ASSUME NEW o \in OutCalls, g # Caller(o)
        PROVE  /\ pc'[Caller(o)] = pc[Caller(o)] /\ ret'[Caller(o)] = ret[Caller(o)]
               /\ o \in mexes' => o \in mexes
               /\ o \in shut' => o \in shut
    BY <2>0, <2>1, <2>2, OwnExchange, Zenon DEF TypeOK, TypePc, TypeRet
  <2>3. CASE \A o \in OutCalls : g # Caller(o)
    BY <2>2, <2>3, CallerKept, Zenon
  <2>4. ASSUME NEW o \in OutCalls, g = Caller(o) PROVE CallerInv'
    <3>1. Mex(g) = o /\ g # Reader /\ g \notin Watchers
      BY <2>4, SMTT(60) DEF Mex, Caller, Reader, Watchers, Watcher
    <3>2. \/ At(g, "shutdown") /\ l = "remove" /\ ret' = ret
          \/ At(g, "remove") /\ o \notin mexes'
      BY <1>3, <2>0, <2>4, <3>1
      DEF TypeOK, TypePc, TypeRet, ExchangeSteps, Shutdown, RemoveExchange, ExpireExchange, ExchangeInv, CallerInv
    <3>3. l \notin {"begin", "add", "recheck", "checkError", "flush", "wait", "shutdown"}
      BY <2>0, Zenon DEF ReturnLabels, AfterLabels
    <3>4. ASSUME NEW x \in OutCalls, x # o
          PROVE  /\ pc'[Caller(x)] = pc[Caller(x)] /\ ret'[Caller(x)] = ret[Caller(x)]
                 /\ x \in mexes' => x \in mexes
                 /\ x \in shut' => x \in shut
      BY <2>2, <2>4, <3>4, Zenon
    <3>5. pc'[Caller(o)] = l
      BY <2>0, <2>4, SMTT(60) DEF TypeOK, TypePc, TypeRet
    <3>6. CASE At(g, "shutdown") /\ l = "remove" /\ ret' = ret
      BY <2>4, <3>4, <3>5, <3>6, SMTT(60) DEF CallerInv
    <3>7. CASE o \notin mexes'
      BY <3>3, <3>4, <3>5, <3>7, Zenon DEF CallerInv
    <3> QED
      BY <3>2, <3>6, <3>7, Zenon
  <2> QED
    BY <2>3, <2>4, Zenon
<1>4. CASE readFrames
  BY <1>4, CallerKept, ZenonT(60)
     DEF TypeOK, TypePc, TypeRet, readFrames, ReadCallReq, ReadDuplicate, ReadResponse,
    HandlePingReq, HandleErrorFrame, ReadError, sendMessage, Fail, mexVars
<1>5. CASE RejectCallReq \/ ProtocolSteps
  BY <1>5, CallerKept, Zenon
     DEF TypeOK, TypePc, TypeRet, RejectCallReq, ProtocolSteps, protocolError, ProtocolClose,
    ProtocolStop, ProtocolStopOutbound, ProtocolStopInbound, stopExchanges, CloseThen, mexVars
<1>6. CASE AddInbound \/ RecheckInbound
  <2>1. rcall \in InCalls
    BY <1>6, Zenon DEF AddInbound, RecheckInbound, DispatchInv, TypeOK, TypeNet
  <2> QED
    BY <1>6, <2>1, CallerKept, CallsAssumption DEF TypeOK, TypePc, TypeRet, AddInbound, RecheckInbound, mexVars
<1>7. ASSUME NEW i \in InCalls, HandlerChoice(i) \/ HandlerSteps(i) \/ Watch(i) PROVE CallerInv'
  <2>1. CASE HandlerChoice(i)
    BY <2>1, CallerKept, Zenon
       DEF TypeOK, TypePc, TypeRet, HandlerChoice, Respond, RespondSystemError, Blackhole, mexVars
  <2>2. CASE FlushResponse(i)
    BY <2>2, CallerKept DEF TypeOK, TypePc, TypeRet, FlushResponse, Flush, mexVars
  <2>3. CASE ReadMethod(i)
    BY <2>3, CallerKept, SMTT(60) DEF TypeOK, TypePc, TypeRet, ReadMethod, mexVars
  <2>4. CASE DoneSending(i) \/ CancelResponse(i) \/ SendResponseError(i) \/ Watch(i)
    BY <2>4, CallerKept, Zenon
       DEF TypeOK, TypePc, TypeRet, DoneSending, CancelResponse, SendResponseError, Watch, mexVars
  <2> QED
    BY <1>7, <2>1, <2>2, <2>3, <2>4, Zenon DEF HandlerSteps
<1>8. ASSUME NEW o \in OutCalls, BeginCall(o) \/ BadResponse(o) \/ CallerSteps(o) PROVE CallerInv'
  <2>1. CASE BeginCall(o) \/ BadResponse(o) \/ AddOutbound(o)
    BY <2>1, SMTT(60) DEF TypeOK, TypePc, TypeRet, CallerInv, BeginCall, BadResponse, AddOutbound, mexVars
  <2>2. CASE RecheckOutbound(o) \/ WriteRequest(o) \/ AwaitResponse(o)
    BY <2>2, SMTT(60) DEF TypeOK, TypePc, TypeRet, CallerInv, RecheckOutbound, WriteRequest, AwaitResponse, mexVars
  <2>3. CASE FlushRequest(o)
    BY <2>3, SMTT(60) DEF TypeOK, TypePc, TypeRet, CallerInv, FlushRequest, Flush, mexVars
  <2> QED
    BY <1>8, <2>1, <2>2, <2>3, Zenon DEF CallerSteps
<1>9. ASSUME NEW p \in Pings, PingAdd(p) \/ PingerSteps(p) PROVE CallerInv'
  BY <1>9, CallerKept, CallsAssumption DEF TypeOK, TypePc, TypeRet, PingAdd, PingerSteps, PingSend, PingDone,
    sendMessage, Fail, mexVars
<1>10. ASSUME NEW r \in RelayCalls, RelayCall(r) \/ decrementPending(r) PROVE CallerInv'
  BY <1>10, CallerKept, Zenon DEF TypeOK, TypePc, TypeRet, RelayCall, decrementPending, mexVars
<1>11. CASE writeFrames \/ WriteError
  BY <1>11, CallerKept DEF TypeOK, TypePc, TypeRet, writeFrames, WriteFrame, WriterStop, closeNetwork, WriteError,
    Fail, mexVars
<1>12. ASSUME NEW c \in Closers, Close(c) PROVE CallerInv'
  BY <1>12, CallerKept, SMTT(60) DEF TypeOK, TypePc, TypeRet, Close, CloseThen, mexVars
<1>13. CASE (\E m \in Exchanges : Timeout(m)) \/ UNCHANGED vars
  BY <1>13, Zenon DEF CallerInv, Timeout, vars, mexVars
<1> QED
  BY <1>1, <1>2, <1>3, <1>4, <1>5, <1>6, <1>7, <1>8, <1>9, <1>10, <1>11, <1>12, <1>13, Zenon
  DEF Next, Environment, Program, Step, ReaderSteps

-----------------------------------------------------------------------------
(* TypeOK *)

\* A step that leaves a group of variables alone keeps their types.
LEMMA TypeSame ==
  ASSUME TypeOK
  PROVE  /\ UNCHANGED connVars => TypeConn'
         /\ UNCHANGED mexVars => TypeMex'
         /\ UNCHANGED netVars => TypeNet'
         /\ UNCHANGED pc => TypePc'
         /\ UNCHANGED <<ret, after>> => TypeRet'
         /\ UNCHANGED locals => TypeCur'
BY Zenon DEF TypeOK, TypeConn, TypeMex, TypeSend, TypeNet, TypePc, TypeRet, TypeCur, connVars, mexVars, netVars,
  locals

\* The type of state, stoppedExchanges and stopCh.
LEMMA TypeConnStep == ASSUME TypeOK, CurInv, [Next]_vars PROVE TypeConn'
<1> USE TypeSame
<1> USE DEF TypeConn, TypeOK, ConnectionState, connectionStartClose, connectionInboundClosed,
  connectionClosed, CloseThen
<1>1. ASSUME NEW g \in Goroutines, Step(g) PROVE TypeConn'
  <2>1. CASE CheckRead(g) \/ CheckInbound(g) \/ CheckOutbound(g) \/ ExchangeSteps(g)
    BY <2>1, ExchangeMoves, Zenon DEF CheckRead, CheckInbound, CheckOutbound, CheckCount
  <2>2. CASE CheckStopped(g)
    BY <2>2 DEF CheckStopped, moveState
  <2>3. CASE MoveInboundClosed(g) \/ MoveClosed(g)
    BY <2>3, Zenon DEF MoveInboundClosed, MoveClosed, Move, moveState
  <2>4. CASE CheckDone(g)
    BY <2>4 DEF CheckDone
  <2>5. CASE ErrorSteps(g)
    BY <2>5, Zenon DEF ErrorSteps, connectionError, ErrorStop, ErrorStopOutbound, ErrorStopInbound
  <2> QED
    BY <1>1, <2>1, <2>2, <2>3, <2>4, <2>5, Zenon DEF Step, checkExchanges
<1>2. CASE readFrames
  BY <1>2, Zenon DEF readFrames, ReadCallReq, ReadDuplicate, ReadResponse, HandlePingReq, HandleErrorFrame,
    ReadError
<1>3. CASE ReaderSteps
  BY <1>3, ZenonT(60) DEF ReaderSteps, RejectCallReq, AddInbound, RecheckInbound, ProtocolSteps, protocolError,
    ProtocolClose, ProtocolStop, ProtocolStopOutbound, ProtocolStopInbound
<1>4. ASSUME NEW i \in InCalls, HandlerChoice(i) \/ HandlerSteps(i) \/ Watch(i) PROVE TypeConn'
  BY <1>4, Zenon DEF HandlerChoice, Respond, RespondSystemError, Blackhole, HandlerSteps, ReadMethod,
    FlushResponse, Flush, DoneSending, CancelResponse, SendResponseError, Watch
<1>5. ASSUME NEW o \in OutCalls, BeginCall(o) \/ BadResponse(o) \/ CallerSteps(o) PROVE TypeConn'
  BY <1>5, Zenon DEF BeginCall, BadResponse, CallerSteps, AddOutbound, RecheckOutbound, WriteRequest,
    FlushRequest, Flush, AwaitResponse
<1>6. CASE \/ writeFrames \/ WriteError
           \/ \E p \in Pings : PingAdd(p) \/ PingerSteps(p)
           \/ \E r \in RelayCalls : RelayCall(r) \/ decrementPending(r)
           \/ \E c \in Closers : Close(c)
           \/ \E m \in Exchanges : Timeout(m)
           \/ UNCHANGED vars
  BY <1>6, Zenon DEF writeFrames, WriteFrame, WriterStop, closeNetwork, WriteError, PingAdd, PingerSteps,
    PingSend, PingDone, RelayCall, decrementPending, Close, Timeout, vars
<1> QED
  BY <1>1, <1>2, <1>3, <1>4, <1>5, <1>6, Zenon DEF Next, Environment, Program

\* The exchange of a goroutine that shuts one down, or expires one.
LEMMA OwnMex ==
  ASSUME TypeOK, ExchangeInv, NEW g \in Goroutines
  PROVE  /\ At(g, "shutdown") => Mex(g) \in Exchanges
         /\ At(g, "expire") => Mex(g) \in InCalls
<1>1. At(g, "shutdown") => Mex(g) \in Exchanges
  <2>1. CASE g = Reader
    BY <2>1, Zenon DEF ExchangeInv, At, Mex, Exchanges
  <2>2. CASE g # Reader
    BY <2>2 DEF ExchangeInv, Mex, Exchanges, Outbound, Handlers, Callers, Handler, Caller
  <2> QED
    BY <2>1, <2>2, Zenon
<1>2. At(g, "expire") => Mex(g) \in InCalls
  BY Distinct, SMTT(60) DEF ExchangeInv, Mex, Watchers, Watcher
<1> QED
  BY <1>1, <1>2, Zenon

\* The types of the exchange sets.
LEMMA TypeMexStep == ASSUME TypeOK, CurInv, DispatchInv, ExchangeInv, [Next]_vars PROVE TypeMex'
<1> USE TypeSame
<1>0. /\ InCalls \subseteq Exchanges /\ Outbound \subseteq Exchanges
      /\ OutCalls \subseteq Outbound /\ Pings \subseteq Outbound
  BY Zenon DEF Exchanges, Outbound
<1> USE DEF TypeMex, TypeOK, mexVars, Cancelled, stopExchanges
<1>1. ASSUME NEW g \in Goroutines, Step(g) PROVE TypeMex'
  <2>1. CASE checkExchanges(g)
    BY <2>1, CheckMoves, Zenon
  <2>2. CASE ErrorSteps(g)
    BY <2>2, Zenon DEF ErrorSteps, connectionError, ErrorStop, ErrorStopOutbound, ErrorStopInbound
  <2>3. CASE Shutdown(g)
    BY <2>3, OwnMex, Zenon DEF Shutdown
  <2>4. CASE RemoveExchange(g)
    BY <2>4, Zenon DEF RemoveExchange
  <2>5. CASE ExpireExchange(g)
    BY <2>5, OwnMex, Zenon DEF ExpireExchange
  <2> QED
    BY <1>1, <2>1, <2>2, <2>3, <2>4, <2>5 DEF Step, ExchangeSteps
<1>2. CASE readFrames
  BY <1>2, Zenon DEF readFrames, ReadCallReq, ReadDuplicate, ReadResponse, HandlePingReq, HandleErrorFrame,
    ReadError
<1>3. CASE ReaderSteps
  <2>1. CASE AddInbound
    BY <1>0, <2>1, Zenon DEF AddInbound, DispatchInv, TypeNet, At
  <2>2. CASE RejectCallReq \/ RecheckInbound \/ ProtocolSteps
    BY <2>2, Zenon DEF RejectCallReq, RecheckInbound, ProtocolSteps, protocolError, ProtocolClose, ProtocolStop,
      ProtocolStopOutbound, ProtocolStopInbound
  <2> QED
    BY <1>3, <2>1, <2>2, Zenon DEF ReaderSteps
<1>4. ASSUME NEW i \in InCalls, HandlerChoice(i) \/ HandlerSteps(i) \/ Watch(i) PROVE TypeMex'
  <2>1. CASE RespondSystemError(i) \/ Blackhole(i) \/ DoneSending(i) \/ CancelResponse(i)
    BY <1>0, <2>1, Zenon DEF RespondSystemError, Blackhole, DoneSending, CancelResponse
  <2>2. CASE Watch(i)
    BY <1>0, <2>2, Zenon DEF Watch
  <2>3. CASE Respond(i) \/ ReadMethod(i) \/ FlushResponse(i) \/ SendResponseError(i)
    BY <2>3, Zenon DEF Respond, ReadMethod, FlushResponse, Flush, SendResponseError
  <2> QED
    BY <1>4, <2>1, <2>2, <2>3, Zenon DEF HandlerChoice, HandlerSteps
<1>5. ASSUME NEW o \in OutCalls, BeginCall(o) \/ BadResponse(o) \/ CallerSteps(o) PROVE TypeMex'
  <2>1. CASE AddOutbound(o)
    BY <1>0, <2>1, Zenon DEF AddOutbound
  <2>2. CASE \/ BeginCall(o) \/ BadResponse(o) \/ RecheckOutbound(o) \/ WriteRequest(o)
             \/ FlushRequest(o) \/ AwaitResponse(o)
    BY <2>2, SMTT(60) DEF BeginCall, BadResponse, RecheckOutbound, WriteRequest, FlushRequest, Flush, AwaitResponse
  <2> QED
    BY <1>5, <2>1, <2>2, Zenon DEF CallerSteps
<1>6. CASE \/ writeFrames \/ WriteError
           \/ \E p \in Pings : PingerSteps(p)
           \/ \E r \in RelayCalls : RelayCall(r) \/ decrementPending(r)
           \/ \E c \in Closers : Close(c)
           \/ UNCHANGED vars
  BY <1>6, Zenon DEF writeFrames, WriteFrame, WriterStop, closeNetwork, WriteError, PingerSteps,
    PingSend, PingDone, RelayCall, decrementPending, Close, vars
<1>8. ASSUME NEW p \in Pings, PingAdd(p) PROVE TypeMex'
  BY <1>0, <1>8 DEF PingAdd
<1>7. ASSUME NEW m \in Exchanges, Timeout(m) PROVE TypeMex'
  BY <1>7, Zenon DEF Timeout
<1> QED
  BY <1>1, <1>2, <1>3, <1>4, <1>5, <1>6, <1>7, <1>8, Zenon DEF Next, Environment, Program

\* What goes into sendCh, by each of the three ways to queue a frame.
LEMMA SendAppend ==
  ASSUME TypeOK, Len(sendCh) < SendBufferSize, NEW f \in Frames, sendCh' = Append(sendCh, f)
  PROVE  TypeSend'
BY BufferAssumption DEF TypeOK, TypeNet, TypeSend

\* SendSystemError queues an error frame or records why it did not.
LEMMA SendError ==
  ASSUME TypeOK, NEW m \in FrameIds, SendSystemError(m), UNCHANGED <<wire, netClosed, seen>>
  PROVE  TypeNet'
<1>1. <<"error", m>> \in Frames
  BY Zenon DEF Frames
<1>2. Len(sendCh) \in Nat /\ SendBufferSize \in Nat
  BY BufferAssumption DEF TypeOK, TypeNet, TypeSend
<1>3. TypeSend'
  <2>1. \/ sendCh' = sendCh
        \/ Len(sendCh) < SendBufferSize /\ sendCh' = Append(sendCh, <<"error", m>>)
    BY <1>2 DEF SendSystemError
  <2> QED
    BY <1>1, <2>1, SendAppend, Zenon DEF TypeOK, TypeNet, TypeSend
<1>4. (silent \subseteq FrameIds \X {"closed", "full"})'
  <2>1. silent' = silent \/ \E x \in {"closed", "full"} : silent' = silent \cup {<<m, x>>}
    BY Zenon DEF SendSystemError
  <2> QED
    BY <2>1 DEF TypeOK, TypeNet, TypeSend
<1> QED
  BY <1>3, <1>4, Zenon DEF TypeOK, TypeNet

\* The types of sendCh and of what was written; sendCh never exceeds its capacity.
LEMMA TypeNetStep == ASSUME TypeOK, CurInv, DispatchInv, [Next]_vars PROVE TypeNet'
<1> USE TypeSame
<1>0. /\ InCalls \subseteq FrameIds /\ Outbound \subseteq FrameIds /\ PeerPing \in FrameIds
      /\ OutCalls \subseteq FrameIds /\ Pings \subseteq FrameIds
  BY Zenon DEF FrameIds, Exchanges, Outbound
<1>1. ASSUME NEW g \in Goroutines, Step(g) PROVE TypeNet'
  BY <1>1, StepMoves, Zenon
<1>2. CASE readFrames
  <2>1. ASSUME NEW i \in InCalls, ReadCallReq(i) \/ ReadDuplicate(i) PROVE TypeNet'
    BY <2>1, Zenon DEF TypeOK, TypeNet, TypeSend, ReadCallReq, ReadDuplicate
  <2>2. CASE HandlePingReq
    <3>1. <<"pong", PeerPing>> \in Frames
      BY <1>0, Zenon DEF Frames
    <3>2. \/ Len(sendCh) < SendBufferSize /\ sendCh' = Append(sendCh, <<"pong", PeerPing>>)
          \/ sendCh' = sendCh
      BY <2>2, Zenon DEF HandlePingReq, sendMessage
    <3>3. TypeSend'
      BY <3>1, <3>2, SendAppend DEF TypeOK, TypeNet, TypeSend
    <3> QED
      BY <2>2, <3>3, Zenon DEF HandlePingReq, TypeOK, TypeNet
  <2>3. CASE HandleErrorFrame \/ ReadError \/ \E m \in Outbound : ReadResponse(m)
    BY <2>3, Zenon DEF HandleErrorFrame, ReadError, ReadResponse
  <2> QED
    BY <1>2, <2>1, <2>2, <2>3, Zenon DEF readFrames
<1>3. CASE ReaderSteps
  <2>0. rcall \in FrameIds
    BY <1>0, Zenon DEF TypeOK, TypeCur
  <2>1. CASE RejectCallReq \/ protocolError
    BY <2>0, <2>1, SendError DEF RejectCallReq, protocolError
  <2>2. CASE RecheckInbound
    BY <2>0, <2>2, Zenon DEF RecheckInbound, TypeOK, TypeNet, TypeSend
  <2>3. CASE \/ AddInbound \/ ProtocolClose \/ ProtocolStop \/ ProtocolStopOutbound
             \/ ProtocolStopInbound
    BY <2>3, Zenon DEF AddInbound, ProtocolClose, ProtocolStop, ProtocolStopOutbound, ProtocolStopInbound
  <2> QED
    BY <1>3, <2>1, <2>2, <2>3, Zenon DEF ReaderSteps, ProtocolSteps
<1>4. ASSUME NEW i \in InCalls, HandlerChoice(i) \/ HandlerSteps(i) \/ Watch(i) PROVE TypeNet'
  <2>1. CASE SendResponseError(i)
    BY <1>0, <2>1, SendError, Zenon DEF SendResponseError
  <2>2. CASE FlushResponse(i)
    <3>1. <<"callRes", i>> \in Frames
      BY <1>0, Zenon DEF Frames
    <3>2. TypeSend'
      BY <2>2, <3>1, SendAppend, ZenonT(60) DEF FlushResponse, Flush, TypeOK, TypeNet, TypeSend
    <3> QED
      BY <2>2, <3>2, Zenon DEF FlushResponse, Flush, TypeOK, TypeNet
  <2>3. CASE HandlerChoice(i) \/ ReadMethod(i) \/ DoneSending(i) \/ CancelResponse(i) \/ Watch(i)
    BY <2>3, Zenon DEF HandlerChoice, Respond, RespondSystemError, Blackhole, ReadMethod, DoneSending,
      CancelResponse, Watch
  <2> QED
    BY <1>4, <2>1, <2>2, <2>3 DEF HandlerSteps
<1>5. ASSUME NEW o \in OutCalls, BeginCall(o) \/ BadResponse(o) \/ CallerSteps(o) PROVE TypeNet'
  <2>1. CASE FlushRequest(o)
    <3>1. <<"callReq", o>> \in Frames
      BY <1>0, Zenon DEF Frames
    <3>2. TypeSend'
      BY <2>1, <3>1, SendAppend, Zenon DEF FlushRequest, Flush, TypeOK, TypeNet, TypeSend
    <3> QED
      BY <2>1, <3>2 DEF FlushRequest, Flush, TypeOK, TypeNet
  <2>2. CASE \/ BeginCall(o) \/ BadResponse(o) \/ AddOutbound(o) \/ RecheckOutbound(o)
             \/ WriteRequest(o) \/ AwaitResponse(o)
    BY <2>2, Zenon DEF BeginCall, BadResponse, AddOutbound, RecheckOutbound, WriteRequest, AwaitResponse
  <2> QED
    BY <1>5, <2>1, <2>2, Zenon DEF CallerSteps
<1>6. ASSUME NEW p \in Pings, PingAdd(p) \/ PingerSteps(p) PROVE TypeNet'
  <2>1. CASE PingSend(p)
    <3>1. <<"ping", p>> \in Frames
      BY <1>0, Zenon DEF Frames
    <3>2. TypeSend'
      BY <2>1, <3>1, SendAppend, Zenon DEF PingSend, sendMessage, TypeOK, TypeNet, TypeSend
    <3> QED
      BY <2>1, <3>2 DEF PingSend, TypeOK, TypeNet
  <2>2. CASE PingAdd(p) \/ PingDone(p)
    BY <2>2, Zenon DEF PingAdd, PingDone
  <2> QED
    BY <1>6, <2>1, <2>2, Zenon DEF PingerSteps
<1>7. CASE writeFrames \/ WriteError
  <2>1. CASE WriteFrame \/ WriteError
    <3>1. Head(sendCh) \in Frames /\ Tail(sendCh) \in Seq(Frames)
          /\ Len(Tail(sendCh)) <= SendBufferSize
      BY <2>1, BufferAssumption DEF WriteFrame, WriteError, TypeOK, TypeNet, TypeSend
    <3> QED
      BY <2>1, <3>1, SMTT(60) DEF WriteFrame, WriteError, TypeOK, TypeNet, TypeSend
  <2>2. CASE WriterStop \/ closeNetwork
    BY <2>2, Zenon DEF WriterStop, closeNetwork, TypeOK, TypeNet, TypeSend
  <2> QED
    BY <1>7, <2>1, <2>2, Zenon DEF writeFrames
<1>8. CASE \/ \E r \in RelayCalls : RelayCall(r) \/ decrementPending(r)
           \/ \E c \in Closers : Close(c)
           \/ \E m \in Exchanges : Timeout(m)
           \/ UNCHANGED vars
  BY <1>8, Zenon DEF RelayCall, decrementPending, Close, Timeout, vars
<1> QED
  BY <1>1, <1>2, <1>3, <1>4, <1>5, <1>6, <1>7, <1>8, Zenon DEF Next, Environment, Program

\* Goroutines stay at known labels.
LEMMA TypePcStep == ASSUME TypeOK, CurInv, DispatchInv, [Next]_vars PROVE TypePc'
<1>1. ASSUME NEW g \in Goroutines, Step(g) PROVE TypePc'
  <2>1. PICK l \in StepTargets : pc' = [pc EXCEPT ![g] = l]
    BY <1>1, StepMoves, Zenon DEF MovesTo
  <2>2. l \in Labels
    BY <2>1, StepLabelSets, Zenon
  <2> QED
    BY <2>1, <2>2, Zenon DEF TypeOK, TypePc
<1>2. {"read", "done", "cancel", "rejected", "pingDone", "ce_read", "perrStop", "sysSend"} \subseteq Labels
  BY DEF Labels, ReturnLabels, AfterLabels, CheckLabels
<1>3. {"write", "closing", "reqReject", "reqAdd", "reqRecheck", "protocolError", "perrClose", "perrOut",
       "perrIn", "connectionError", "shutdown", "remove", "expire", "start", "handle", "flush",
       "doneSending", "watch", "add", "recheck", "checkError", "wait", "pingSend", "pingWait",
       "relaying"} \subseteq Labels
  BY DEF Labels
<1> USE <1>2, <1>3 DEF TypePc, Call, Goto, Fail, CloseThen, sendMessage
<1>4. CASE readFrames
  BY <1>4, Zenon DEF TypeOK, readFrames, ReadCallReq, ReadDuplicate, ReadResponse, HandlePingReq,
    HandleErrorFrame, ReadError
<1>5. CASE ReaderSteps
  <2>1. CASE RecheckInbound
    BY <2>1 DEF TypeOK, RecheckInbound
  <2>2. CASE RejectCallReq \/ AddInbound
    BY <2>2, Zenon DEF TypeOK, RejectCallReq, AddInbound
  <2>3. CASE ProtocolSteps
    BY <2>3, Zenon DEF TypeOK, ProtocolSteps, protocolError, ProtocolClose, ProtocolStop, ProtocolStopOutbound,
      ProtocolStopInbound
  <2> QED
    BY <1>5, <2>1, <2>2, <2>3, Zenon DEF ReaderSteps
<1>6. ASSUME NEW i \in InCalls, HandlerChoice(i) \/ HandlerSteps(i) \/ Watch(i) PROVE TypePc'
  <2>1. CASE HandlerChoice(i) \/ Watch(i)
    BY <2>1, Zenon DEF TypeOK, HandlerChoice, Respond, RespondSystemError, Blackhole, Watch
  <2>2. CASE HandlerSteps(i)
    <3>1. CASE ReadMethod(i) \/ FlushResponse(i)
      BY <3>1, SMTT(30) DEF TypeOK, ReadMethod, FlushResponse, Flush
    <3>2. CASE DoneSending(i) \/ CancelResponse(i) \/ SendResponseError(i)
      BY <3>2, SMTT(30) DEF TypeOK, DoneSending, CancelResponse, SendResponseError
    <3> QED
      BY <2>2, <3>1, <3>2, Zenon DEF HandlerSteps
  <2> QED
    BY <1>6, <2>1, <2>2, Zenon
<1>7. ASSUME NEW o \in OutCalls, BeginCall(o) \/ BadResponse(o) \/ CallerSteps(o) PROVE TypePc'
  <2>1. CASE BeginCall(o) \/ BadResponse(o)
    BY <2>1, SMTT(30) DEF TypeOK, BeginCall, BadResponse
  <2>2. CASE AddOutbound(o) \/ RecheckOutbound(o)
    BY <2>2, SMTT(30) DEF TypeOK, AddOutbound, RecheckOutbound
  <2>3. CASE WriteRequest(o) \/ FlushRequest(o) \/ AwaitResponse(o)
    BY <2>3, SMTT(30) DEF TypeOK, WriteRequest, FlushRequest, Flush, AwaitResponse
  <2> QED
    BY <1>7, <2>1, <2>2, <2>3, Zenon DEF CallerSteps
<1>8. CASE \/ writeFrames \/ WriteError
           \/ \E p \in Pings : PingAdd(p) \/ PingerSteps(p)
  BY <1>8 DEF TypeOK, writeFrames, WriteFrame, WriterStop, closeNetwork, WriteError, PingAdd,
    PingerSteps, PingSend, PingDone
<1>9. CASE \/ \E r \in RelayCalls : RelayCall(r) \/ decrementPending(r)
           \/ \E c \in Closers : Close(c)
           \/ \E m \in Exchanges : Timeout(m)
           \/ UNCHANGED vars
  BY <1>9, Zenon DEF TypeOK, RelayCall, decrementPending, Close, Timeout, vars
<1> QED
  BY <1>1, <1>4, <1>5, <1>6, <1>7, <1>8, <1>9, Zenon DEF Next, Environment, Program

\* checkExchanges and connectionError have somewhere to return to.
LEMMA TypeRetStep == ASSUME TypeOK, [Next]_vars PROVE TypeRet'
<1>1. AfterLabels \subseteq ReturnLabels /\ {"done", "read", "pingDone"} \subseteq AfterLabels
      /\ {"rejected", "errStop", "perrStop", "cancel", "sysSend"} \subseteq ReturnLabels
  BY Zenon DEF ReturnLabels, AfterLabels
<1> USE <1>1, TypeSame DEF TypeRet, Call, Goto, Fail, CloseThen, sendMessage
<1>2. ASSUME NEW g \in Goroutines, Step(g) PROVE TypeRet'
  <2>1. CASE checkExchanges(g)
    <3>1. after' = after /\ (ret' = ret \/ ret' = [ret EXCEPT ![g] = "done"])
      BY <2>1, Zenon DEF checkExchanges, CheckRead, CheckStopped, CheckInbound, CheckOutbound, CheckCount,
        MoveInboundClosed, MoveClosed, Move, CheckDone, CheckReturn
    <3> QED
      BY <3>1, SMTT(60) DEF TypeOK
  <2>2. CASE connectionError(g) \/ ErrorStopOutbound(g)
    BY <2>2, Zenon DEF TypeOK, connectionError, ErrorStopOutbound
  <2>3. CASE ErrorStop(g) \/ ErrorStopInbound(g)
    BY <2>3, SMTT(60) DEF TypeOK, ErrorStop, ErrorStopInbound
  <2>4. CASE ExchangeSteps(g)
    BY <2>4, Zenon DEF TypeOK, ExchangeSteps, Shutdown, RemoveExchange, ExpireExchange, Return
  <2> QED
    BY <1>2, <2>1, <2>2, <2>3, <2>4, Zenon DEF Step, ErrorSteps
<1>3. CASE readFrames
  <2>1. ret' = ret /\ (after' = after \/ \E l \in {"read", "done"} : after' = [after EXCEPT ![Reader] = l])
    BY <1>3, ZenonT(60) DEF readFrames, ReadCallReq, ReadDuplicate, ReadResponse, HandlePingReq, HandleErrorFrame,
      ReadError
  <2> QED
    BY <2>1 DEF TypeOK
<1>4. CASE ReaderSteps
  BY <1>4 DEF TypeOK, ReaderSteps, RejectCallReq, AddInbound, RecheckInbound, ProtocolSteps,
    protocolError, ProtocolClose, ProtocolStop, ProtocolStopOutbound, ProtocolStopInbound
<1>5. ASSUME NEW i \in InCalls, HandlerChoice(i) \/ HandlerSteps(i) \/ Watch(i) PROVE TypeRet'
  BY <1>5, ZenonT(60) DEF TypeOK, HandlerChoice, Respond, RespondSystemError, Blackhole, Watch, HandlerSteps,
    ReadMethod, FlushResponse, Flush, DoneSending, CancelResponse, SendResponseError
<1>6. ASSUME NEW o \in OutCalls, BeginCall(o) \/ BadResponse(o) \/ CallerSteps(o) PROVE TypeRet'
  BY <1>6, Zenon DEF TypeOK, BeginCall, BadResponse, CallerSteps, AddOutbound, RecheckOutbound, WriteRequest,
    FlushRequest, Flush, AwaitResponse
<1>7. CASE \/ writeFrames \/ WriteError
           \/ \E p \in Pings : PingAdd(p) \/ PingerSteps(p)
  BY <1>7, SMTT(60) DEF TypeOK, writeFrames, WriteFrame, WriterStop, closeNetwork, WriteError, PingAdd,
    PingerSteps, PingSend, PingDone
<1>8. CASE \/ \E r \in RelayCalls : RelayCall(r) \/ decrementPending(r)
           \/ \E c \in Closers : Close(c)
           \/ \E m \in Exchanges : Timeout(m)
           \/ UNCHANGED vars
  BY <1>8, Zenon DEF TypeOK, RelayCall, decrementPending, Close, Timeout, vars
<1> QED
  BY <1>2, <1>3, <1>4, <1>5, <1>6, <1>7, <1>8, Zenon DEF Next, Environment, Program

\* The types of the local variables of checkExchanges and readFrames.
LEMMA TypeCurStep == ASSUME TypeOK, [Next]_vars PROVE TypeCur'
<1> USE TypeSame
<1>1. ASSUME NEW g \in Goroutines, Step(g) PROVE TypeCur'
  <2>1. CASE checkExchanges(g)
    <3>1. /\ \/ cur' = cur
             \/ \E x \in {NoState, state, connectionInboundClosed, connectionClosed} :
                  cur' = [cur EXCEPT ![g] = x]
          /\ orig' = orig \/ \E x \in {NoState, state} : orig' = [orig EXCEPT ![g] = x]
          /\ rcall' = rcall
      BY <2>1, Zenon DEF checkExchanges, CheckRead, CheckStopped, CheckInbound, CheckOutbound, CheckCount,
        MoveInboundClosed, MoveClosed, Move, moveState, CheckDone, CheckReturn
    <3>2. {state, connectionInboundClosed, connectionClosed} \subseteq ConnectionState
      BY Zenon DEF TypeOK, TypeConn, ConnectionState, connectionInboundClosed, connectionClosed
    <3> QED
      BY <3>1, <3>2, SMTT(60) DEF TypeOK, TypeCur
  <2>2. CASE ErrorSteps(g) \/ ExchangeSteps(g)
    BY <2>2, ErrorMoves, ExchangeMoves, Zenon
  <2> QED
    BY <1>1, <2>1, <2>2, Zenon DEF Step
<1>2. CASE readFrames
  BY <1>2, Zenon DEF TypeOK, TypeCur, readFrames, ReadCallReq, ReadDuplicate, ReadResponse, HandlePingReq,
    HandleErrorFrame, ReadError
<1>6. CASE ReaderSteps
  BY <1>6, Zenon DEF ReaderSteps, RejectCallReq, AddInbound, RecheckInbound, ProtocolSteps,
    protocolError, ProtocolClose, ProtocolStop, ProtocolStopOutbound, ProtocolStopInbound
<1>3. ASSUME NEW i \in InCalls, HandlerChoice(i) \/ HandlerSteps(i) \/ Watch(i) PROVE TypeCur'
  BY <1>3, Zenon DEF HandlerChoice, Respond, RespondSystemError, Blackhole, HandlerSteps, ReadMethod,
    FlushResponse, Flush, DoneSending, CancelResponse, SendResponseError, Watch
<1>4. ASSUME NEW o \in OutCalls, BeginCall(o) \/ BadResponse(o) \/ CallerSteps(o) PROVE TypeCur'
  BY <1>4, Zenon DEF BeginCall, BadResponse, CallerSteps, AddOutbound, RecheckOutbound, WriteRequest,
    FlushRequest, Flush, AwaitResponse
<1>5. CASE \/ writeFrames \/ WriteError
           \/ \E p \in Pings : PingAdd(p) \/ PingerSteps(p)
           \/ \E r \in RelayCalls : RelayCall(r) \/ decrementPending(r)
           \/ \E c \in Closers : Close(c)
           \/ \E m \in Exchanges : Timeout(m)
           \/ UNCHANGED vars
  BY <1>5, Zenon DEF writeFrames, WriteFrame, WriterStop, closeNetwork, WriteError, PingAdd, PingerSteps,
    PingSend, PingDone, RelayCall, decrementPending, Close, Timeout, vars
<1> QED
  BY <1>1, <1>2, <1>3, <1>4, <1>5, <1>6, Zenon DEF Next, Environment, Program

-----------------------------------------------------------------------------
(* What calls leave behind *)

(* DrainInv *)

\* Outside checkExchanges: a call opens only while the state is Active.
OpensNone ==
  /\ \A i \in InCalls :
       i \in mexes' /\ pc'[Handler(i)] # "idle" => i \in mexes /\ pc[Handler(i)] # "idle"
  /\ \A o \in OutCalls :
       o \in mexes' /\ pc'[Caller(o)] # "recheck" /\ ret'[Caller(o)] # "rejected"
         => o \in mexes /\ pc[Caller(o)] # "recheck" /\ ret[Caller(o)] # "rejected"

Opens == state = connectionActive \/ OpensNone

\* The sets of open calls do not grow in a step that opens none.
LEMMA OpenSubsets ==
  ASSUME OpensNone
  PROVE  OpenInbound' \subseteq OpenInbound /\ OpenOutbound' \subseteq OpenOutbound
<1>1. OpenInbound' \subseteq OpenInbound
  BY Zenon DEF OpensNone, OpenInbound, At
<1>2. OpenOutbound' \subseteq OpenOutbound
  BY Zenon DEF OpensNone, OpenOutbound, At
<1> QED
  BY <1>1, <1>2, Zenon

\* A step that adds no exchange and starts no handler opens no call.
LEMMA OpenSame ==
  ASSUME mexes' \subseteq mexes,
         \A i \in InCalls : pc[Handler(i)] = "idle" => pc'[Handler(i)] = "idle",
         \A o \in OutCalls : pc'[Caller(o)] = pc[Caller(o)] /\ ret'[Caller(o)] = ret[Caller(o)]
  PROVE  Opens
BY Zenon DEF Opens, OpensNone

\* No step of a shared routine opens a call.
LEMMA OpenStep ==
  ASSUME TypeOK, CurInv, CallerInv, NEW g \in Goroutines, Step(g)
  PROVE  OpensNone
<1>1. PICK l \in StepTargets : pc' = [pc EXCEPT ![g] = l]
  BY StepMoves, Zenon DEF MovesTo
<1>2. pc[g] \notin {"idle", "recheck"}
  BY StepMoves, StepLabelSets, Zenon DEF OwnLabels
<1>3. mexes' \subseteq mexes
  BY CheckMoves, ErrorMoves, Zenon
  DEF Step, mexVars, ExchangeSteps, Shutdown, RemoveExchange, ExpireExchange
<1>4. \A h \in Goroutines : h # g => ret'[h] = ret[h]
  BY Zenon
     DEF TypeOK, TypePc, TypeRet, TypeCur, Step, checkExchanges, CheckRead, CheckStopped, CheckInbound, CheckOutbound, CheckCount,
    MoveInboundClosed, MoveClosed, Move, CheckDone, CheckReturn, ErrorSteps, connectionError, ErrorStop,
    ErrorStopOutbound, ErrorStopInbound, CloseThen, Call, ExchangeSteps, Shutdown, RemoveExchange,
    ExpireExchange, Return
<1>5. ASSUME NEW i \in InCalls, i \in mexes', pc'[Handler(i)] # "idle"
      PROVE  i \in mexes /\ pc[Handler(i)] # "idle"
  BY <1>1, <1>2, <1>3, <1>5, Members, Zenon DEF TypeOK, TypePc, TypeRet, TypeCur
<1>6. ASSUME NEW o \in OutCalls, o \in mexes', pc'[Caller(o)] # "recheck", ret'[Caller(o)] # "rejected"
      PROVE  o \in mexes /\ pc[Caller(o)] # "recheck" /\ ret[Caller(o)] # "rejected"
  <2>1. pc[Caller(o)] # "recheck" /\ o \in mexes
    BY <1>1, <1>2, <1>3, <1>6, Members, Zenon DEF TypeOK, TypePc, TypeRet, TypeCur
  <2>2. ASSUME ret[Caller(o)] = "rejected" PROVE FALSE
    <3>1. g = Caller(o) /\ pc[g] \in {"shutdown", "remove"}
      BY <1>4, <1>6, <2>1, <2>2, Members, Zenon DEF CallerInv
    <3>2. pc[g] \notin CheckLabels /\ pc[g] \notin ErrorLabels
      BY <3>1, Zenon DEF CheckLabels, ErrorLabels
    <3>3. ExchangeSteps(g)
      BY <3>2, CheckMoves, ErrorMoves, Zenon DEF Step
    <3>4. Mex(g) = o
      BY <3>1, Distinct, Zenon DEF Mex, Caller
    <3> QED
      BY <1>6, <2>2, <3>1, <3>3, <3>4, Zenon
      DEF CallerInv, ExchangeSteps, Shutdown, RemoveExchange, ExpireExchange, At
  <2> QED
    BY <2>1, <2>2, Zenon
<1> QED
  BY <1>5, <1>6, Zenon DEF OpensNone

\* A plain step preserves DrainInv: calls open only while the state is Active.
LEMMA DrainKept ==
  ASSUME TypeOK, CurInv, DrainInv, PlainStep, Opens, stopped => stopped'
  PROVE  DrainInv'
<1> USE DEF connectionActive, connectionStartClose, connectionInboundClosed, connectionClosed
<1>1. \A g \in Goroutines : /\ At(g, "ce_inMove")' => At(g, "ce_inMove")
                            /\ At(g, "ce_outMove")' => At(g, "ce_outMove")
  BY Zenon DEF PlainStep, PlainLabel, InCheck, CheckLabels, At
<1>2. CASE state = connectionActive
  <2>1. \A g \in Goroutines : ~At(g, "ce_inMove") /\ ~At(g, "ce_outMove")
    BY <1>2 DEF CurInv, CurAt, At
  <2>2. state' \in {1, 2}
    BY <1>2, Zenon DEF PlainStep
  <2> QED
    BY <1>1, <2>1, <2>2 DEF DrainInv, Drained
<1>3. CASE OpensNone
  <2>0. (state' = 3 => state = 3) /\ (state' = 4 => state = 4)
    BY DEF PlainStep
  <2>1. Drained'
    BY <1>3, <2>0, OpenSubsets, Zenon DEF DrainInv, Drained
  <2> QED
    BY <1>1, <1>3, <2>1, OpenSubsets, Zenon DEF DrainInv
<1> QED
  BY <1>2, <1>3, Zenon DEF Opens

\* The steps of checkExchanges move the state only past calls that are over.
LEMMA DrainCheck ==
  ASSUME TypeOK, CurInv, CallerInv, DrainInv, NEW g \in Goroutines, checkExchanges(g)
  PROVE  DrainInv'
<1> USE DEF connectionActive, connectionStartClose, connectionInboundClosed, connectionClosed
<1>0. /\ OpenInbound' \subseteq OpenInbound /\ OpenOutbound' \subseteq OpenOutbound
      /\ stopped' = stopped /\ mexes' = mexes
      /\ ret[g] \notin {"ce_inMove", "ce_outMove"}
  BY OpenStep, OpenSubsets, CheckMoves, Zenon
     DEF Step, mexVars, TypeOK, TypePc, TypeRet, TypeCur, ReturnLabels, AfterLabels
<1>1. PICK l : pc' = [pc EXCEPT ![g] = l]
  BY CheckMoves, Zenon DEF MovesTo
<1>2. ASSUME NEW h \in Goroutines, h # g
      PROVE  /\ At(h, "ce_inMove")' => OpenInbound' = {}
             /\ At(h, "ce_outMove")' => OpenOutbound' = {}
  BY <1>0, <1>1, <1>2, Zenon DEF TypeOK, TypePc, TypeRet, TypeCur, DrainInv, At
<1>3. pc'[g] = l
  BY <1>1, Zenon DEF TypeOK, TypePc, TypeRet, TypeCur
<1>4. CASE CheckRead(g) \/ CheckDone(g)
  <2>1. state' = state /\ l \notin {"ce_inMove", "ce_outMove"}
    BY <1>0, <1>3, <1>4, Zenon
       DEF TypeOK, TypePc, TypeRet, TypeCur, CheckRead, CheckDone, CheckReturn, Goto, connVars
  <2> QED
    BY <1>0, <1>2, <1>3, <2>1, Zenon DEF DrainInv, Drained, At
<1>5. CASE CheckStopped(g)
  <2>1. l \notin {"ce_inMove", "ce_outMove"}
    <3>1. cur'[g] \in {2, 3, 4}
      BY <1>5, Zenon DEF TypeOK, TypePc, TypeRet, TypeCur, CurInv, CurAt, CheckStopped, moveState, At
    <3> QED
      BY <1>3, <1>5, <3>1, Zenon DEF TypeOK, TypePc, TypeRet, TypeCur, CheckStopped, NextCheck, Goto
  <2>2. state' = state \/ (stopped /\ state' = 4)
    BY <1>5, Zenon DEF CheckStopped, moveState
  <2> QED
    BY <1>0, <1>2, <1>3, <2>1, <2>2 DEF DrainInv, Drained, At
<1>6. CASE CheckInbound(g)
  <2>1. state' = state /\ l # "ce_outMove" /\ (l = "ce_inMove" => mexes \cap InCalls = {})
    BY <1>0, <1>3, <1>6, Zenon
       DEF TypeOK, TypePc, TypeRet, TypeCur, CheckInbound, CheckCount, CheckReturn, Goto, connVars
  <2>2. l = "ce_inMove" => OpenInbound' = {}
    BY <1>0, <2>1, Zenon DEF OpenInbound
  <2> QED
    BY <1>0, <1>2, <1>3, <2>1, <2>2, Zenon DEF DrainInv, Drained, At
<1>7. CASE CheckOutbound(g)
  <2>1. state' = state /\ l # "ce_inMove" /\ (l = "ce_outMove" => mexes \cap Outbound = {})
    BY <1>0, <1>3, <1>7, Zenon
       DEF TypeOK, TypePc, TypeRet, TypeCur, CheckOutbound, CheckCount, CheckReturn, Goto, connVars
  <2>2. l = "ce_outMove" => OpenOutbound' = {}
    BY <1>0, <2>1, Zenon DEF OpenOutbound, Outbound
  <2> QED
    BY <1>0, <1>2, <1>3, <2>1, <2>2, Zenon DEF DrainInv, Drained, At
<1>8. CASE MoveInboundClosed(g)
  <2>1. /\ l \notin {"ce_inMove", "ce_outMove"}
        /\ state' = state \/ (state' = 3 /\ OpenInbound = {})
    BY <1>0, <1>3, <1>8, Zenon
       DEF TypeOK, TypePc, TypeRet, TypeCur, MoveInboundClosed, Move, moveState, CheckReturn, Goto, DrainInv, At
  <2> QED
    BY <1>0, <1>2, <1>3, <2>1, SMTT(60) DEF DrainInv, Drained, At
<1>9. CASE MoveClosed(g)
  <2>1. /\ l \notin {"ce_inMove", "ce_outMove"}
        /\ state' = state \/ (state = 3 /\ state' = 4 /\ OpenOutbound = {})
    BY <1>0, <1>3, <1>9, Zenon
       DEF TypeOK, TypePc, TypeRet, TypeCur, MoveClosed, Move, moveState, CheckReturn, Goto, DrainInv, At
  <2> QED
    BY <1>0, <1>2, <1>3, <2>1, Zenon DEF DrainInv, Drained, At
<1> QED
  BY <1>4, <1>5, <1>6, <1>7, <1>8, <1>9, Zenon DEF checkExchanges

\* Every step preserves DrainInv.
LEMMA DrainStep ==
  ASSUME TypeOK, DispatchInv, ExchangeInv, CurInv, CallerInv, DrainInv, [Next]_vars
  PROVE  DrainInv'
<1> USE CallersAlone, HandlersAlone
<1> USE DEF Call, Goto, At
<1>1. ASSUME NEW g \in Goroutines, Step(g) PROVE DrainInv'
  <2>1. CASE checkExchanges(g)
    BY <2>1, DrainCheck, Zenon
  <2>2. CASE ErrorSteps(g) \/ ExchangeSteps(g)
    <3>1. stopped => stopped'
      BY <2>2, ExchangeMoves, ZenonT(60)
      DEF ErrorSteps, connectionError, ErrorStop, ErrorStopOutbound, ErrorStopInbound, connVars
    <3> QED
      BY <1>1, <2>2, <3>1, PlainError, OpenStep, DrainKept, Zenon DEF Opens
  <2> QED
    BY <1>1, <2>1, <2>2, Zenon DEF Step
<1>2. CASE readFrames \/ ReaderSteps
  <2>1. stopped => stopped'
    BY <1>2, ZenonT(60) DEF readFrames, ReadCallReq, ReadDuplicate, ReadResponse, HandlePingReq, HandleErrorFrame,
      ReadError, ReaderSteps, RejectCallReq, AddInbound, RecheckInbound, ProtocolSteps, protocolError,
      ProtocolClose, ProtocolStop, ProtocolStopOutbound, ProtocolStopInbound, connVars
  <2>2. ASSUME NEW i \in InCalls, ReadCallReq(i) \/ ReadDuplicate(i) PROVE Opens
    BY <2>2, OpenSame, Zenon DEF TypeOK, TypePc, TypeRet, ReadCallReq, ReadDuplicate, mexVars
  <2>3. ASSUME NEW m \in Outbound, ReadResponse(m) PROVE Opens
    BY <2>3, OpenSame, ZenonT(60) DEF ReadResponse
  <2>4. ASSUME HandlePingReq \/ HandleErrorFrame \/ ReadError PROVE Opens
    BY <2>4, OpenSame, Zenon
       DEF TypeOK, TypePc, TypeRet, HandlePingReq, HandleErrorFrame, ReadError, sendMessage, Fail, mexVars
  <2>5. ASSUME RejectCallReq \/ ProtocolSteps PROVE Opens
    <3>1. CASE RejectCallReq \/ protocolError \/ ProtocolClose
      BY <3>1, OpenSame, Zenon
         DEF TypeOK, TypePc, TypeRet, RejectCallReq, protocolError, ProtocolClose, CloseThen, mexVars
    <3>2. CASE ProtocolStop \/ ProtocolStopOutbound \/ ProtocolStopInbound
      BY <3>2, OpenSame, Zenon
         DEF TypeOK, TypePc, TypeRet, ProtocolStop, ProtocolStopOutbound, ProtocolStopInbound,
        stopExchanges, mexVars
    <3> QED
      BY <2>5, <3>1, <3>2, Zenon DEF ProtocolSteps
  <2>6. ASSUME AddInbound PROVE Opens
    <3>1. rcall \in InCalls /\ pc[Handler(rcall)] = "idle"
      BY <2>6, Zenon DEF TypeOK, TypeNet, AddInbound, DispatchInv
    <3>2. /\ \A i \in InCalls : pc'[Handler(i)] = pc[Handler(i)]
          /\ \A o \in OutCalls : pc'[Caller(o)] = pc[Caller(o)]
          /\ mexes' \subseteq mexes \cup {rcall} /\ ret' = ret
      BY <2>6, Zenon DEF TypeOK, TypePc, TypeRet, AddInbound
    <3> QED
      BY <3>1, <3>2, CallsAssumption, ZenonT(60) DEF Opens, OpensNone
  <2>7. ASSUME RecheckInbound PROVE Opens
    BY <2>7, OpenSame, SMTT(60) DEF TypeOK, TypePc, TypeRet, Opens, RecheckInbound, mexVars
  <2> QED
    BY <1>2, <2>1, <2>2, <2>3, <2>4, <2>5, <2>6, <2>7, PlainReader, DrainKept, Zenon
    DEF readFrames, ReaderSteps
<1>3. ASSUME NEW i \in InCalls, HandlerChoice(i) \/ HandlerSteps(i) \/ Watch(i) PROVE DrainInv'
  <2>1. stopped' = stopped
    BY <1>3, ZenonT(60) DEF HandlerChoice, Respond, RespondSystemError, Blackhole, HandlerSteps, ReadMethod,
      FlushResponse, Flush, DoneSending, CancelResponse, SendResponseError, Watch, connVars
  <2>2. ASSUME HandlerChoice(i) \/ Watch(i) PROVE Opens
    BY <2>2, OpenSame, SMTT(60)
       DEF TypeOK, TypePc, TypeRet, HandlerChoice, Respond, RespondSystemError, Blackhole, Watch, mexVars
  <2>3. ASSUME HandlerSteps(i) PROVE Opens
    BY <2>3, OpenSame, ZenonT(60)
       DEF TypeOK, TypePc, TypeRet, HandlerSteps, ReadMethod, FlushResponse, Flush, DoneSending,
      CancelResponse, SendResponseError, mexVars
  <2> QED
    BY <1>3, <2>1, <2>2, <2>3, PlainHandler, DrainKept, Zenon
<1>4. ASSUME NEW o \in OutCalls, BeginCall(o) \/ BadResponse(o) \/ CallerSteps(o) PROVE DrainInv'
  <2>1. stopped' = stopped
    BY <1>4, ZenonT(60) DEF BeginCall, BadResponse, CallerSteps, AddOutbound, RecheckOutbound, WriteRequest,
      FlushRequest, Flush, AwaitResponse, connVars
  <2>2. ASSUME BeginCall(o) \/ BadResponse(o) PROVE Opens
    BY <2>2, Zenon DEF TypeOK, TypePc, TypeRet, CallerInv, Opens, OpensNone, BeginCall, BadResponse, mexVars
  <2>3. ASSUME AddOutbound(o) PROVE Opens
    BY <2>3, CallsAssumption, SMTT(60) DEF TypeOK, TypePc, TypeRet, CallerInv, Opens, OpensNone, AddOutbound
  <2>4. ASSUME RecheckOutbound(o) PROVE Opens
    BY <2>4, SMTT(60) DEF TypeOK, TypePc, TypeRet, Opens, OpensNone, RecheckOutbound, mexVars
  <2>5. ASSUME WriteRequest(o) \/ AwaitResponse(o) PROVE Opens
    BY <2>5, SMTT(60)
       DEF TypeOK, TypePc, TypeRet, CallerInv, Opens, OpensNone, WriteRequest, AwaitResponse, mexVars
  <2>6. ASSUME FlushRequest(o) PROVE Opens
    BY <2>6, Zenon DEF TypeOK, TypePc, TypeRet, CallerInv, Opens, OpensNone, FlushRequest, Flush, mexVars
  <2> QED
    BY <1>4, <2>1, <2>2, <2>3, <2>4, <2>5, <2>6, PlainCaller, DrainKept, Zenon DEF CallerSteps
<1>5. CASE \/ writeFrames \/ WriteError
           \/ \E p \in Pings : PingAdd(p) \/ PingerSteps(p)
           \/ \E c \in Closers : Close(c)
           \/ \E m \in Exchanges : Timeout(m)
           \/ UNCHANGED vars
  <2>1. stopped' = stopped
    BY <1>5, Zenon DEF writeFrames, WriteFrame, WriterStop, closeNetwork, WriteError, PingAdd, PingerSteps,
      PingSend, PingDone, Close, Timeout, vars, connVars
  <2>2. ASSUME writeFrames \/ WriteError PROVE Opens
    BY <2>2, OpenSame, ZenonT(60)
       DEF TypeOK, TypePc, TypeRet, writeFrames, WriteFrame, WriterStop, closeNetwork, WriteError, Fail,
      mexVars
  <2>3. ASSUME NEW p \in Pings, PingAdd(p) \/ PingerSteps(p) PROVE Opens
    <3>1. CASE PingAdd(p)
      BY <3>1, CallsAssumption, SMTT(60) DEF TypeOK, TypePc, TypeRet, Opens, OpensNone, PingAdd, Fail
    <3>2. CASE PingSend(p) \/ PingDone(p)
      BY <3>2, CallsAssumption, SMTT(60)
         DEF TypeOK, TypePc, TypeRet, Opens, OpensNone, PingSend, PingDone, sendMessage, Fail, mexVars
    <3> QED
      BY <2>3, <3>1, <3>2, Zenon DEF PingerSteps
  <2>4. ASSUME NEW c \in Closers, Close(c) PROVE Opens
    BY <2>4, OpenSame DEF TypeOK, TypePc, TypeRet, Close, CloseThen, mexVars
  <2>5. ASSUME (\E m \in Exchanges : Timeout(m)) \/ UNCHANGED vars PROVE Opens
    BY <2>5, OpenSame, ZenonT(60) DEF Timeout, vars, mexVars
  <2> QED
    BY <1>5, <2>1, <2>2, <2>3, <2>4, <2>5, PlainOthers, DrainKept, Zenon
<1>6. ASSUME NEW r \in RelayCalls, RelayCall(r) \/ decrementPending(r) PROVE DrainInv'
  <2>1. state' = state /\ stopped' = stopped /\ OpensNone
    BY <1>6, Zenon DEF TypeOK, TypePc, TypeRet, OpensNone, RelayCall, decrementPending, connVars, mexVars
  <2>2. \A g \in Goroutines : /\ pc'[g] = "ce_inMove" => pc[g] = "ce_inMove"
                              /\ pc'[g] = "ce_outMove" => pc[g] = "ce_outMove"
    BY <1>6, Zenon DEF TypeOK, TypePc, TypeRet, RelayCall, decrementPending
  <2>3. OpenInbound' \subseteq OpenInbound /\ OpenOutbound' \subseteq OpenOutbound
    BY <2>1, OpenSubsets, Zenon
  <2>4. Drained'
    BY <2>1, <2>3, Zenon DEF DrainInv, Drained
  <2>5. ASSUME NEW g \in Goroutines
        PROVE  /\ At(g, "ce_inMove")' => OpenInbound' = {}
               /\ At(g, "ce_outMove")' => OpenOutbound' = {}
    BY <2>2, <2>3, Zenon DEF DrainInv
  <2> QED
    BY <2>4, <2>5, Zenon DEF DrainInv
<1> QED
  BY <1>1, <1>2, <1>3, <1>4, <1>5, <1>6, Zenon DEF Next, Environment, Program

-----------------------------------------------------------------------------
(* The state *)

\* checkExchanges moves the state upwards, past calls that are over, or to
\* Closed after a failure.
Advances ==
  \/ state = connectionStartClose /\ OpenInbound = {} /\ pending = 0
     /\ state' = connectionInboundClosed
  \/ state = connectionInboundClosed /\ OpenOutbound = {} /\ state' = connectionClosed
  \/ state \in {connectionStartClose, connectionInboundClosed} /\ stopped
     /\ state' = connectionClosed

\* What a step of checkExchanges may do to the state.
LEMMA CheckAdvances ==
  ASSUME IInv, NEW g \in Goroutines, checkExchanges(g)
  PROVE  state' = state \/ Advances
<1> USE DEF connectionActive, connectionStartClose, connectionInboundClosed, connectionClosed
<1>1. CASE CheckStopped(g)
  BY <1>1, Zenon DEF IInv, CurInv, CurAt, CheckStopped, moveState, At, Advances
<1>2. CASE MoveInboundClosed(g)
  BY <1>2, Zenon DEF IInv, PendingInv, DrainInv, MoveInboundClosed, Move, moveState, At, Advances
<1>3. CASE MoveClosed(g)
  BY <1>3, Zenon DEF IInv, DrainInv, MoveClosed, Move, moveState, At, Advances
<1>4. CASE CheckRead(g) \/ CheckInbound(g) \/ CheckOutbound(g) \/ CheckDone(g)
  BY <1>4, Zenon DEF CheckRead, CheckInbound, CheckOutbound, CheckCount, CheckDone, connVars
<1> QED
  BY <1>1, <1>2, <1>3, <1>4, Zenon DEF checkExchanges

\* The state leaves Active once and stays Closed.
LEMMA StateMonotone ==
  ASSUME IInv, [Next]_vars
  PROVE  /\ state' = connectionActive => state = connectionActive
         /\ state = connectionClosed => state' = connectionClosed
<1> USE DEF connectionActive, connectionStartClose, connectionInboundClosed, connectionClosed
<1> DEFINE Grows == /\ state' = connectionActive => state = connectionActive
                    /\ state = connectionClosed => state' = connectionClosed
<1> SUFFICES Grows
  OBVIOUS
<1>1. ASSUME PlainStep PROVE Grows
  BY <1>1 DEF PlainStep
<1>2. ASSUME NEW g \in Goroutines, checkExchanges(g) PROVE Grows
  BY <1>2, CheckAdvances DEF Advances
<1>3. ASSUME NEW r \in RelayCalls, RelayCall(r) \/ decrementPending(r) PROVE Grows
  BY <1>3, Zenon DEF RelayCall, decrementPending, connVars
<1> HIDE DEF Grows
<1>4. ASSUME NEW g \in Goroutines, Step(g) PROVE Grows
  BY <1>1, <1>2, <1>4, PlainError, Zenon DEF IInv, Step
<1>5. CASE readFrames \/ ReaderSteps
  BY <1>1, <1>5, PlainReader, Zenon DEF IInv
<1>6. ASSUME NEW i \in InCalls, HandlerChoice(i) \/ HandlerSteps(i) \/ Watch(i) PROVE Grows
  BY <1>1, <1>6, PlainHandler, Zenon DEF IInv
<1>7. ASSUME NEW o \in OutCalls, BeginCall(o) \/ BadResponse(o) \/ CallerSteps(o) PROVE Grows
  BY <1>1, <1>7, PlainCaller, Zenon DEF IInv
<1>8. CASE \/ writeFrames \/ WriteError
           \/ \E p \in Pings : PingAdd(p) \/ PingerSteps(p)
           \/ \E c \in Closers : Close(c)
           \/ \E m \in Exchanges : Timeout(m)
           \/ UNCHANGED vars
  BY <1>1, <1>8, PlainOthers, Zenon DEF IInv
<1> QED
  BY <1>3, <1>4, <1>5, <1>6, <1>7, <1>8, Zenon DEF Next, Environment, Program

-----------------------------------------------------------------------------
(* PingInv *)

\* A step of checkExchanges stays in it or returns.
LEMMA CheckTarget ==
  ASSUME TypeOK, CurInv, NEW g \in Goroutines, checkExchanges(g)
  PROVE  /\ pc[g] \in CheckLabels /\ after' = after
         /\ \E l \in CheckLabels \cup ReturnLabels :
              /\ pc' = [pc EXCEPT ![g] = l]
              /\ \/ l \in CheckLabels /\ ret' = ret
                 \/ l = ret[g] /\ ret' = [ret EXCEPT ![g] = "done"]
<1> USE DEF Goto
<1>1. PICK l \in CheckLabels \cup ReturnLabels : pc' = [pc EXCEPT ![g] = l]
  BY CheckMoves, Zenon DEF MovesTo
<1>2. \/ ret' = ret /\ l \in CheckLabels
      \/ l = ret[g] /\ ret' = [ret EXCEPT ![g] = "done"]
  <2>1. CASE CheckRead(g)
    BY <1>1, <2>1, Zenon DEF TypeOK, TypePc, TypeRet, CheckRead, CheckReturn, CheckLabels
  <2>2. CASE CheckStopped(g)
    <3>1. cur'[g] \in {connectionStartClose, connectionInboundClosed, connectionClosed}
      BY <2>2, Zenon DEF TypeOK, TypePc, TypeCur, CurInv, CurAt, CheckStopped, moveState, At
    <3> QED
      BY <1>1, <2>2, <3>1, Zenon DEF TypeOK, TypePc, TypeRet, CheckStopped, NextCheck, CheckLabels
  <2>3. CASE CheckInbound(g) \/ CheckOutbound(g)
    BY <1>1, <2>3, Zenon
       DEF TypeOK, TypePc, TypeRet, CheckInbound, CheckOutbound, CheckCount, CheckReturn, CheckLabels
  <2>4. CASE MoveInboundClosed(g) \/ MoveClosed(g)
    BY <1>1, <2>4, Zenon DEF TypeOK, TypePc, TypeRet, MoveInboundClosed, MoveClosed, Move, CheckReturn, CheckLabels
  <2>5. CASE CheckDone(g)
    BY <1>1, <2>5, Zenon DEF TypeOK, TypePc, TypeRet, CheckDone, CheckReturn
  <2> QED
    BY <2>1, <2>2, <2>3, <2>4, <2>5, Zenon DEF checkExchanges
<1> QED
  BY <1>1, <1>2, CheckMoves, Zenon

\* Whose exchange a goroutine shuts down, removes or expires.
LEMMA WhoseExchange ==
  ASSUME TypeOK, ExchangeInv, NEW g \in Goroutines, pc[g] \in ExchangeLabels
  PROVE  \/ g = Reader /\ Mex(g) = rcall /\ rcall \in InCalls /\ pc[g] # "expire"
         \/ \E i \in InCalls : g = Handler(i) /\ Mex(g) = i /\ pc[g] # "expire"
         \/ \E i \in InCalls : g = Watcher(i) /\ Mex(g) = i /\ pc[g] = "expire"
         \/ \E o \in OutCalls : g = Caller(o) /\ Mex(g) = o /\ pc[g] # "expire"
         \/ \E p \in Pings : g = Pinger(p) /\ Mex(g) = p /\ pc[g] = "remove"
<1> USE DEF ExchangeInv, ExchangeLabels, At, Mex
<1>1. CASE g = Reader
  BY <1>1, ReaderAlone, Zenon DEF Watchers
<1>2. CASE g \in Handlers
  <2>1. PICK i \in InCalls : g = Handler(i)
    BY <1>2, Zenon DEF Handlers
  <2>2. Handler(i)[2] = i
    BY DEF Handler
  <2>3. g # Reader /\ g \notin Watchers
    BY <2>1, Distinct, Zenon DEF Watchers
  <2> QED
    BY <2>1, <2>2, <2>3, Zenon
<1>3. CASE g \in Watchers
  <2>1. PICK i \in InCalls : g = Watcher(i)
    BY <1>3, Zenon DEF Watchers
  <2>2. Watcher(i)[2] = i
    BY DEF Watcher
  <2>3. g # Reader /\ g \notin Handlers /\ g \notin Callers /\ g \notin Pingers
    BY <2>1, Distinct, Zenon DEF Handlers, Callers, Pingers
  <2> QED
    BY <2>1, <2>2, <2>3, Zenon
<1>4. CASE g \in Callers
  <2>1. PICK o \in OutCalls : g = Caller(o)
    BY <1>4, Zenon DEF Callers
  <2>2. Caller(o)[2] = o
    BY DEF Caller
  <2>3. g # Reader /\ g \notin Watchers
    BY <2>1, Distinct, Zenon DEF Watchers
  <2> QED
    BY <2>1, <2>2, <2>3, Zenon
<1>5. CASE g \in Pingers
  <2>1. PICK p \in Pings : g = Pinger(p)
    BY <1>5, Zenon DEF Pingers
  <2>2. Pinger(p)[2] = p
    BY DEF Pinger
  <2>3. g # Reader /\ g \notin Handlers /\ g \notin Callers /\ g \notin Watchers
    BY <2>1, Distinct, Zenon DEF Handlers, Callers, Watchers
  <2> QED
    BY <2>1, <2>2, <2>3, Zenon
<1> QED
  BY <1>1, <1>2, <1>3, <1>4, <1>5, Zenon

\* The goroutines of pings stay where they are, and so do their exchanges.
PingersStay ==
  \A p \in Pings :
    /\ pc'[Pinger(p)] = pc[Pinger(p)] /\ ret'[Pinger(p)] = ret[Pinger(p)]
    /\ after'[Pinger(p)] = after[Pinger(p)] /\ (p \in mexes => p \in mexes')

\* A step of other goroutines preserves PingInv.
LEMMA PingKept == ASSUME PingInv, PingersStay PROVE PingInv'
BY Zenon DEF PingInv, PingersStay, PingHolds, At

\* The goroutines of pings are no other goroutines.
LEMMA PingersAlone ==
  \A p \in Pings :
    /\ Pinger(p) \in Goroutines /\ Pinger(p) # Reader /\ Pinger(p) # Writer
    /\ \A x : /\ Pinger(p) # Handler(x) /\ Pinger(p) # Watcher(x)
              /\ Pinger(p) # Caller(x) /\ Pinger(p) # Relay(x) /\ Pinger(p) # Closer(x)
    /\ \A x : Pinger(p) = Pinger(x) => p = x
BY Members, Distinct, Zenon DEF Pinger

\* Every step preserves PingInv: ping adds its exchange before it sends, and only
\* its own removeExchange takes it out.
LEMMA PingStep ==
  ASSUME TypeOK, CurInv, DispatchInv, ExchangeInv, PingInv, [Next]_vars PROVE PingInv'
<1> USE PingersAlone
<1> USE DEF Call, Goto, At
<1>1. ASSUME NEW g \in Goroutines, checkExchanges(g) PROVE PingInv'
  <2>1. mexes' = mexes
    BY <1>1, CheckMoves, Zenon DEF mexVars
  <2>2. PICK l \in CheckLabels \cup ReturnLabels :
          /\ pc' = [pc EXCEPT ![g] = l] /\ pc[g] \in CheckLabels /\ after' = after
          /\ \/ l \in CheckLabels /\ ret' = ret
             \/ l = ret[g] /\ ret' = [ret EXCEPT ![g] = "done"]
    BY <1>1, CheckTarget, Zenon
  <2> QED
    BY <2>1, <2>2, SMTT(30) DEF TypeOK, TypePc, TypeRet, PingInv, PingHolds, CheckLabels, ReturnLabels, AfterLabels
<1>2. ASSUME NEW g \in Goroutines, ErrorSteps(g) PROVE PingInv'
  <2>1. mexes' = mexes /\ pc[g] \in ErrorLabels
    BY <1>2, ErrorMoves, Zenon
  <2> USE DEF TypeOK, TypePc, TypeRet, PingInv, PingHolds, CheckLabels
  <2>2. CASE connectionError(g)
    BY <2>1, <2>2, SMTT(30) DEF connectionError, CloseThen
  <2>3. CASE ErrorStop(g)
    BY <2>1, <2>3, SMTT(30) DEF ErrorStop, AfterLabels
  <2>4. CASE ErrorStopOutbound(g)
    BY <2>1, <2>4, Zenon DEF ErrorStopOutbound
  <2>5. CASE ErrorStopInbound(g)
    BY <2>1, <2>5, Zenon DEF ErrorStopInbound, AfterLabels
  <2> QED
    BY <1>2, <2>2, <2>3, <2>4, <2>5, Zenon DEF ErrorSteps
<1>3. ASSUME NEW g \in Goroutines, ExchangeSteps(g) PROVE PingInv'
  <2>0. PICK l \in {"remove", "ce_read"} \cup ReturnLabels : pc' = [pc EXCEPT ![g] = l]
    BY <1>3, ExchangeMoves, Zenon DEF MovesTo
  <2>1. /\ mexes \ {Mex(g)} \subseteq mexes' /\ pc[g] \in ExchangeLabels /\ after' = after
        /\ ret' = ret \/ ret' = [ret EXCEPT ![g] = "done"]
    BY <1>3, ExchangeMoves, Zenon DEF ExchangeSteps, Shutdown, RemoveExchange, ExpireExchange, Return
  <2>2. ASSUME NEW p \in Pings, g # Pinger(p)
        PROVE  /\ pc'[Pinger(p)] = pc[Pinger(p)] /\ ret'[Pinger(p)] = ret[Pinger(p)]
               /\ after'[Pinger(p)] = after[Pinger(p)] /\ (p \in mexes => p \in mexes')
    <3>1. Mex(g) # p
      BY <2>1, <2>2, WhoseExchange, CallsAssumption
    <3> QED
      BY <2>0, <2>1, <2>2, <3>1, Zenon DEF TypeOK, TypePc, TypeRet
  <2>3. CASE \A p \in Pings : g # Pinger(p)
    BY <2>2, <2>3, PingKept, Zenon DEF PingersStay
  <2>4. ASSUME NEW p \in Pings, g = Pinger(p) PROVE PingInv'
    <3>1. At(g, "remove") /\ Mex(g) = p
      BY <2>1, <2>4, WhoseExchange, Zenon
    <3>2. ret[g] = "done"
      BY <2>4, <3>1, Zenon DEF PingInv
    <3>3. RemoveExchange(g)
      BY <1>3, <3>1, Zenon DEF ExchangeSteps, Shutdown, ExpireExchange
    <3>4. l \in {"ce_read", "done"} /\ ret'[g] = "done" /\ pc'[g] = l
      BY <2>0, <3>2, <3>3, Zenon DEF TypeOK, TypePc, TypeRet, RemoveExchange, Return
    <3> QED
      BY <2>2, <2>4, <3>4, Zenon DEF PingInv, PingHolds, CheckLabels
  <2> QED
    BY <2>3, <2>4, Zenon
<1>4. CASE readFrames
  BY <1>4, PingKept, Zenon DEF TypeOK, TypePc, TypeRet, PingersStay, readFrames, ReadCallReq, ReadDuplicate,
    ReadResponse, HandlePingReq, HandleErrorFrame, ReadError, sendMessage, Fail, mexVars
<1>5. CASE RejectCallReq \/ ProtocolSteps
  BY <1>5, PingKept, Zenon DEF TypeOK, TypePc, TypeRet, PingersStay, RejectCallReq, ProtocolSteps, protocolError,
    ProtocolClose, ProtocolStop, ProtocolStopOutbound, ProtocolStopInbound, stopExchanges, CloseThen, mexVars
<1>6. CASE AddInbound \/ RecheckInbound
  BY <1>6, PingKept, Zenon DEF TypeOK, TypePc, TypeRet, PingersStay, AddInbound, RecheckInbound, mexVars
<1>7. ASSUME NEW i \in InCalls, HandlerChoice(i) \/ HandlerSteps(i) \/ Watch(i) PROVE PingInv'
  <2> USE DEF TypeOK, TypePc, TypeRet, PingersStay, mexVars
  <2>1. CASE HandlerChoice(i)
    BY <2>1, PingKept, Zenon DEF HandlerChoice, Respond, RespondSystemError, Blackhole
  <2>2. CASE FlushResponse(i)
    BY <2>2, PingKept, Zenon DEF FlushResponse, Flush
  <2>3. CASE ReadMethod(i)
    BY <2>3, PingKept, Zenon DEF ReadMethod
  <2>4. CASE DoneSending(i) \/ CancelResponse(i) \/ SendResponseError(i) \/ Watch(i)
    BY <2>4, PingKept, Zenon DEF DoneSending, CancelResponse, SendResponseError, Watch
  <2> QED
    BY <1>7, <2>1, <2>2, <2>3, <2>4, Zenon DEF HandlerSteps
<1>8. ASSUME NEW o \in OutCalls, BeginCall(o) \/ BadResponse(o) \/ CallerSteps(o) PROVE PingInv'
  <2> USE DEF TypeOK, TypePc, TypeRet, PingersStay, mexVars
  <2>1. CASE BeginCall(o) \/ BadResponse(o) \/ AddOutbound(o)
    BY <2>1, PingKept, Zenon DEF BeginCall, BadResponse, AddOutbound
  <2>2. CASE RecheckOutbound(o) \/ WriteRequest(o) \/ AwaitResponse(o)
    BY <2>2, PingKept, Zenon DEF RecheckOutbound, WriteRequest, AwaitResponse
  <2>3. CASE FlushRequest(o)
    BY <2>3, PingKept, Zenon DEF FlushRequest, Flush
  <2> QED
    BY <1>8, <2>1, <2>2, <2>3, Zenon DEF CallerSteps
<1>9. ASSUME NEW p \in Pings, PingAdd(p) \/ PingSend(p) \/ PingDone(p) PROVE PingInv'
  <2> USE DEF TypeOK, TypePc, TypeRet, PingInv, PingHolds, CheckLabels, mexVars
  <2>1. CASE PingAdd(p)
    BY <2>1, SMTT(30) DEF PingAdd, Fail
  <2>2. CASE PingSend(p)
    BY <2>2, Zenon DEF PingSend, sendMessage, Fail
  <2>3. CASE PingDone(p)
    BY <2>3, Zenon DEF PingDone
  <2> QED
    BY <1>9, <2>1, <2>2, <2>3, Zenon
<1>10. ASSUME NEW r \in RelayCalls, RelayCall(r) \/ decrementPending(r) PROVE PingInv'
  BY <1>10, PingKept, Zenon DEF TypeOK, TypePc, TypeRet, PingersStay, RelayCall, decrementPending, mexVars
<1>11. CASE writeFrames \/ WriteError
  BY <1>11, PingKept, Zenon
     DEF TypeOK, TypePc, TypeRet, PingersStay, writeFrames, WriteFrame, WriterStop, closeNetwork,
    WriteError, Fail, mexVars
<1>12. ASSUME NEW c \in Closers, Close(c) PROVE PingInv'
  BY <1>12, PingKept, Zenon DEF TypeOK, TypePc, TypeRet, PingersStay, Close, CloseThen, mexVars
<1>13. CASE (\E m \in Exchanges : Timeout(m)) \/ UNCHANGED vars
  BY <1>13, Zenon DEF PingInv, PingHolds, Timeout, vars, mexVars
<1> QED
  BY <1>1, <1>2, <1>3, <1>4, <1>5, <1>6, <1>7, <1>8, <1>9, <1>10, <1>11, <1>12, <1>13, Zenon
  DEF Next, Environment, Program, Step, ReaderSteps, PingerSteps

-----------------------------------------------------------------------------
(* LifeInv *)

\* A handler goes from one label to another, short of shutdown and removeExchange.
HandlerGoes(from, to) ==
  /\ from \notin {"idle", "remove"} /\ to \notin {"idle", "remove"}
  /\ to \in ServeLabels => from \in ServeLabels
  /\ "blackhole" \notin Events => (from \in ServeLabels => to \in ServeLabels)

\* A step of one goroutine that takes no exchange away.
LEMMA LifeMove ==
  ASSUME TypeOK, ExchangeInv, LifeInv, NEW g \in Goroutines, NEW l, pc' = [pc EXCEPT ![g] = l],
         seen' = seen, expired' = expired, shut' = shut,
         mexes \subseteq mexes', mexes' \cap InCalls = mexes \cap InCalls,
         g = Reader => l \notin {"reqAdd", "reqRecheck", "shutdown", "remove"}, g # Reader => rcall' = rcall,
         \A o \in OutCalls : g = Caller(o) /\ l \in CallLabels => pc[g] \in CallLabels \/ o \in mexes',
         \A i \in InCalls : g = Handler(i) => HandlerGoes(pc[g], l)
  PROVE  LifeInv'
<1> USE ReaderAlone, HandlersAlone, CallersAlone
<1>1. mexes' \cap expired' = {}
  BY Zenon DEF LifeInv, TypeOK, TypeMex
<1>2. ASSUME NEW i \in InCalls PROVE HandlerLife(i)'
  <2>1. HandlerLife(i) /\ (i \in mexes' <=> i \in mexes) /\ Handler(i) \in DOMAIN pc
    BY Zenon DEF LifeInv, TypeOK, TypePc
  <2>2. CASE g = Handler(i)
    <3>1. pc'[Handler(i)] = l /\ HandlerGoes(pc[Handler(i)], l)
      BY <2>1, <2>2, Zenon
    <3> QED
      BY <2>1, <3>1, Zenon DEF HandlerLife, HandlerGoes, At
  <2>3. CASE g # Handler(i)
    <3>1. pc'[Handler(i)] = pc[Handler(i)]
      BY <2>1, <2>3, Zenon
    <3> QED
      BY <2>1, <3>1, Zenon DEF HandlerLife, At
  <2> QED
    BY <2>2, <2>3, Zenon
<1>3. ASSUME NEW o \in OutCalls, pc'[Caller(o)] \in CallLabels PROVE o \in mexes'
  <2>1. pc[Caller(o)] \in CallLabels \/ o \in mexes'
    <3>1. CASE g = Caller(o)
      BY <1>3, <3>1, Zenon DEF TypeOK, TypePc
    <3>2. CASE g # Caller(o)
      BY <1>3, <3>2, Zenon DEF TypeOK, TypePc
    <3> QED
      BY <3>1, <3>2, Zenon
  <2> QED
    BY <2>1, Zenon DEF LifeInv
<1>4. /\ (pc[Reader] \in {"reqRecheck", "shutdown", "remove"} => rcall \in mexes \cup expired)'
      /\ (pc[Reader] \in {"shutdown", "remove"} => At(Handler(rcall), "idle"))'
      /\ (pc[Reader] \in {"reqAdd", "reqRecheck"} => rcall \notin shut)'
  <2>1. CASE g = Reader
    <3>1. pc'[Reader] = l
      BY <2>1, Zenon DEF TypeOK, TypePc
    <3> QED
      BY <2>1, <3>1, Zenon
  <2>2. CASE g # Reader
    <3>1. pc'[Reader] = pc[Reader] /\ rcall' = rcall
      BY <2>2, Zenon DEF TypeOK, TypePc
    <3>2. pc[Reader] \in {"shutdown", "remove"} => pc'[Handler(rcall)] = "idle"
      <4> SUFFICES ASSUME pc[Reader] \in {"shutdown", "remove"} PROVE pc'[Handler(rcall)] = "idle"
        BY Zenon
      <4>1. rcall \in InCalls /\ pc[Handler(rcall)] = "idle"
        BY Zenon DEF LifeInv, ExchangeInv, At
      <4>2. g # Handler(rcall)
        BY <4>1, Zenon DEF HandlerGoes
      <4> QED
        BY <4>1, <4>2, Zenon DEF TypeOK, TypePc
    <3> QED
      BY <3>1, <3>2, Zenon DEF LifeInv, At
  <2> QED
    BY <2>1, <2>2, Zenon
<1> QED
  BY <1>1, <1>2, <1>3, <1>4, Zenon DEF LifeInv

\* shutdown: the first to shut the exchange down goes on to remove it.
LEMMA LifeShutdown ==
  ASSUME TypeOK, DispatchInv, ExchangeInv, LifeInv, NEW g \in Goroutines, Shutdown(g)
  PROVE  LifeInv'
<1> USE ReaderAlone, HandlersAlone, CallersAlone
<1>1. /\ pc[g] = "shutdown" /\ pc[g] \in ExchangeLabels
      /\ UNCHANGED <<mexes, expired, seen, rcall>> /\ shut \subseteq shut' /\ shut' \subseteq shut \cup {Mex(g)}
  BY Zenon DEF Shutdown, At, ExchangeLabels, netVars, locals
<1>2. PICK l \in {"remove"} \cup ReturnLabels : pc' = [pc EXCEPT ![g] = l] /\ (Mex(g) \notin shut => l = "remove")
  BY Zenon DEF Shutdown, Return, Goto, TypeOK, TypeRet
<1>3. l \notin ServeLabels /\ l # "idle" /\ l \notin {"reqAdd", "reqRecheck", "shutdown"} /\ "shutdown" \in ServeLabels
      /\ "shutdown" \in CallLabels
  BY <1>2, Zenon DEF ReturnLabels, AfterLabels, ServeLabels, CallLabels
<1>4. ASSUME NEW i \in InCalls PROVE HandlerLife(i)'
  <2>1. HandlerLife(i) /\ Handler(i) \in DOMAIN pc
    BY Zenon DEF LifeInv, TypeOK, TypePc
  <2>2. CASE g = Handler(i)
    <3>1. Mex(g) = i /\ i \notin shut /\ i \in mexes \cup expired /\ i \in seen
      BY <1>1, <1>3, <2>1, <2>2, Zenon DEF Mex, Handler, HandlerLife, DispatchInv, At
    <3>2. pc'[Handler(i)] = "remove"
      BY <1>2, <2>1, <2>2, <3>1, Zenon
    <3> QED
      BY <1>1, <3>1, <3>2, Zenon DEF HandlerLife, At, ServeLabels
  <2>3. CASE g # Handler(i)
    <3>1. pc'[Handler(i)] = pc[Handler(i)]
      BY <1>2, <2>1, <2>3, Zenon
    <3>2. Mex(g) = i => pc[Handler(i)] = "idle" /\ i \in mexes \cup expired
      <4> SUFFICES ASSUME Mex(g) = i PROVE pc[Handler(i)] = "idle" /\ i \in mexes \cup expired
        BY Zenon
      <4>1. g = Reader /\ rcall = i
        BY <1>1, <2>3, WhoseExchange, CallsAssumption
      <4> QED
        BY <1>1, <4>1, Zenon DEF LifeInv, At
    <3>3. "idle" \notin ServeLabels
      BY Zenon DEF ServeLabels
    <3> QED
      BY <1>1, <2>1, <3>1, <3>2, <3>3, Zenon DEF HandlerLife, At
  <2> QED
    BY <2>2, <2>3, Zenon
<1>5. ASSUME NEW o \in OutCalls, pc'[Caller(o)] \in CallLabels PROVE o \in mexes'
  <2>1. pc[Caller(o)] \in CallLabels
    <3>1. CASE g = Caller(o)
      BY <1>1, <1>3, <3>1, Zenon
    <3>2. CASE g # Caller(o)
      BY <1>2, <1>5, <3>2, Zenon DEF TypeOK, TypePc
    <3> QED
      BY <3>1, <3>2, Zenon
  <2> QED
    BY <1>1, <2>1, Zenon DEF LifeInv
<1>6. pc'[Reader] \in {"shutdown", "remove"} => pc[Reader] \in {"shutdown", "remove"}
  <2>1. CASE g = Reader
    BY <1>1, <2>1, Zenon
  <2>2. CASE g # Reader
    BY <1>2, <2>2, Zenon DEF TypeOK, TypePc
  <2> QED
    BY <2>1, <2>2, Zenon
<1>7. pc'[Reader] \in {"reqAdd", "reqRecheck"} => pc'[Reader] = pc[Reader] /\ g # Reader
  <2>1. CASE g = Reader
    BY <1>2, <1>3, <2>1, Zenon DEF TypeOK, TypePc
  <2>2. CASE g # Reader
    BY <1>2, <2>2, Zenon DEF TypeOK, TypePc
  <2> QED
    BY <2>1, <2>2, Zenon
<1>8. (pc[Reader] \in {"reqRecheck", "shutdown", "remove"} => rcall \in mexes \cup expired)'
  BY <1>1, <1>6, <1>7, Zenon DEF LifeInv
<1>9. (pc[Reader] \in {"shutdown", "remove"} => At(Handler(rcall), "idle"))'
  <2> SUFFICES ASSUME pc'[Reader] \in {"shutdown", "remove"} PROVE pc'[Handler(rcall)] = "idle"
    BY <1>1, Zenon DEF At
  <2>1. rcall \in InCalls /\ pc[Handler(rcall)] = "idle"
    BY <1>6, Zenon DEF LifeInv, ExchangeInv, At
  <2>2. g # Handler(rcall)
    BY <1>1, <2>1, Zenon
  <2> QED
    BY <1>2, <2>1, <2>2, Zenon DEF TypeOK, TypePc
<1>10. (pc[Reader] \in {"reqAdd", "reqRecheck"} => rcall \notin shut)'
  <2> SUFFICES ASSUME pc'[Reader] \in {"reqAdd", "reqRecheck"} PROVE rcall \notin shut'
    BY <1>1, Zenon
  <2>1. pc[Reader] \in {"reqAdd", "reqRecheck"} /\ g # Reader /\ rcall \notin shut
    BY <1>7, Zenon DEF LifeInv
  <2>2. pc[Handler(rcall)] = "idle" /\ rcall \in InCalls
    BY <2>1, Zenon DEF DispatchInv, At, TypeOK, TypeNet
  <2>3. Mex(g) # rcall
    <3>1. g # Handler(rcall)
      BY <1>1, <2>2, Zenon
    <3>2. rcall \notin OutCalls /\ rcall \notin Pings
      BY <2>2, CallsAssumption, Zenon
    <3>3. pc[g] # "expire"
      BY <1>1, Zenon
    <3> QED
      BY <1>1, <2>1, <2>2, <3>1, <3>2, <3>3, WhoseExchange, Zenon
  <2> QED
    BY <1>1, <2>1, <2>3, Zenon
<1>11. mexes' \cap expired' = {}
  BY <1>1, Zenon DEF LifeInv
<1> QED
  BY <1>4, <1>5, <1>8, <1>9, <1>10, <1>11, Zenon DEF LifeInv

\* removeExchange takes out the exchange of the goroutine that runs it, for good.
LEMMA LifeRemove ==
  ASSUME TypeOK, DispatchInv, ExchangeInv, LifeInv, NEW g \in Goroutines, RemoveExchange(g)
  PROVE  LifeInv'
<1> USE ReaderAlone, HandlersAlone, CallersAlone
<1>1. pc[g] = "remove" /\ pc[g] \in ExchangeLabels /\ UNCHANGED <<shut, seen, rcall>>
  BY Zenon DEF RemoveExchange, At, ExchangeLabels, netVars, locals
<1>2. /\ mexes' = mexes \ {Mex(g)} /\ expired' \subseteq expired
      /\ expired \ {Mex(g)} \subseteq expired' /\ Mex(g) \notin mexes' \cup expired'
  BY Zenon DEF RemoveExchange, LifeInv
<1>3. PICK l \in {"ce_read"} \cup ReturnLabels : pc' = [pc EXCEPT ![g] = l]
  BY Zenon DEF RemoveExchange, Return, Goto, TypeOK, TypeRet
<1>4. /\ l \notin ServeLabels \cup CallLabels \cup {"idle", "remove", "reqAdd", "reqRecheck", "shutdown"}
      /\ "remove" \notin ServeLabels
  BY <1>3, Zenon DEF ReturnLabels, AfterLabels, ServeLabels, CallLabels
<1>5. ASSUME NEW i \in InCalls PROVE HandlerLife(i)'
  <2>1. HandlerLife(i) /\ Handler(i) \in DOMAIN pc
    BY Zenon DEF LifeInv, TypeOK, TypePc
  <2>2. CASE g = Handler(i)
    <3>1. Mex(g) = i /\ i \in seen /\ pc'[Handler(i)] = l
      BY <1>1, <1>3, <2>1, <2>2, Zenon DEF Mex, Handler, DispatchInv, At
    <3> QED
      BY <1>1, <1>2, <1>4, <3>1, Zenon DEF HandlerLife, At
  <2>3. CASE g # Handler(i)
    <3>1. pc'[Handler(i)] = pc[Handler(i)]
      BY <1>3, <2>1, <2>3, Zenon
    <3>2. Mex(g) = i => pc[Handler(i)] = "idle"
      <4> SUFFICES ASSUME Mex(g) = i PROVE pc[Handler(i)] = "idle"
        BY Zenon
      <4>1. g = Reader /\ rcall = i
        BY <1>1, <2>3, WhoseExchange, CallsAssumption
      <4> QED
        BY <1>1, <4>1, Zenon DEF LifeInv, At
    <3>3. "idle" \notin ServeLabels \cup {"remove"}
      BY Zenon DEF ServeLabels
    <3> QED
      BY <1>1, <1>2, <2>1, <3>1, <3>2, <3>3, Zenon DEF HandlerLife, At
  <2> QED
    BY <2>2, <2>3, Zenon
<1>6. ASSUME NEW o \in OutCalls, pc'[Caller(o)] \in CallLabels PROVE o \in mexes'
  <2>1. g # Caller(o) /\ pc[Caller(o)] \in CallLabels
    <3>1. g # Caller(o)
      BY <1>3, <1>4, <1>6, Zenon DEF TypeOK, TypePc
    <3> QED
      BY <1>3, <1>6, <3>1, Zenon DEF TypeOK, TypePc
  <2> QED
    BY <1>1, <1>2, <2>1, OwnExchange, Zenon DEF LifeInv
<1>7. ASSUME pc'[Reader] \in {"reqAdd", "reqRecheck", "shutdown", "remove"}
      PROVE  pc'[Reader] = pc[Reader] /\ Mex(g) # rcall /\ rcall \in InCalls /\ pc'[Handler(rcall)] = "idle"
  <2>1. g # Reader
    BY <1>3, <1>4, <1>7, Zenon DEF TypeOK, TypePc
  <2>2. pc'[Reader] = pc[Reader]
    BY <1>3, <2>1, Zenon DEF TypeOK, TypePc
  <2>3. rcall \in InCalls /\ pc[Handler(rcall)] = "idle"
    BY <1>7, <2>2, Zenon DEF DispatchInv, ExchangeInv, LifeInv, TypeOK, TypeNet, At
  <2>4. g # Handler(rcall)
    BY <1>1, <2>3, Zenon
  <2>5. Mex(g) # rcall
    BY <1>1, <2>1, <2>3, <2>4, WhoseExchange, CallsAssumption
  <2> QED
    BY <1>3, <2>2, <2>3, <2>4, <2>5, Zenon DEF TypeOK, TypePc
<1>8. (pc[Reader] \in {"reqRecheck", "shutdown", "remove"} => rcall \in mexes \cup expired)'
  BY <1>1, <1>2, <1>7, Zenon DEF LifeInv
<1>9. (pc[Reader] \in {"shutdown", "remove"} => At(Handler(rcall), "idle"))'
  BY <1>1, <1>7, Zenon DEF At
<1>10. (pc[Reader] \in {"reqAdd", "reqRecheck"} => rcall \notin shut)'
  BY <1>1, <1>7, Zenon DEF LifeInv
<1>11. mexes' \cap expired' = {}
  BY <1>2, Zenon DEF LifeInv
<1> QED
  BY <1>5, <1>6, <1>8, <1>9, <1>10, <1>11, Zenon DEF LifeInv

\* expireExchange moves the exchange of a dispatched call from one set to the other.
LEMMA LifeExpire ==
  ASSUME TypeOK, DispatchInv, ExchangeInv, LifeInv, NEW g \in Goroutines, ExpireExchange(g)
  PROVE  LifeInv'
<1> USE ReaderAlone, HandlersAlone, CallersAlone
<1>1. pc[g] = "expire" /\ pc[g] \in ExchangeLabels /\ UNCHANGED <<shut, seen, rcall>>
  BY Zenon DEF ExpireExchange, At, ExchangeLabels, netVars, locals
<1>2. PICK i \in InCalls : g = Watcher(i) /\ Mex(g) = i
  BY <1>1, WhoseExchange
<1>3. /\ pc' = [pc EXCEPT ![g] = "ce_read"] /\ mexes' = mexes \ {i} /\ mexes' \cup expired' = mexes \cup expired
      /\ expired \subseteq expired' /\ expired' \subseteq expired \cup {i} /\ (i \in mexes => i \in expired')
  BY <1>2 DEF ExpireExchange, Goto
<1>4. /\ pc'[Reader] = pc[Reader]
      /\ \A x \in InCalls : pc'[Handler(x)] = pc[Handler(x)]
      /\ \A o \in OutCalls : pc'[Caller(o)] = pc[Caller(o)] /\ o # i
  BY <1>2, <1>3, CallsAssumption, Zenon DEF TypeOK, TypePc
<1>5. pc[Handler(i)] # "idle"
  BY <1>1, <1>2, Zenon DEF DispatchInv, At
<1>6. ASSUME NEW x \in InCalls PROVE HandlerLife(x)'
  <2>1. HandlerLife(x) /\ (x \in mexes' \cup expired' <=> x \in mexes \cup expired)
    BY <1>3, Zenon DEF LifeInv
  <2>2. pc'[Handler(x)] = "idle" => x \notin expired'
    BY <1>3, <1>4, <1>5, <2>1, Zenon DEF HandlerLife, At
  <2> QED
    BY <1>1, <1>4, <2>1, <2>2, Zenon DEF HandlerLife, At
<1>7. mexes' \cap expired' = {}
  BY <1>3, Zenon DEF LifeInv
<1>8. \A o \in OutCalls : pc'[Caller(o)] \in CallLabels => o \in mexes'
  BY <1>3, <1>4, Zenon DEF LifeInv
<1>9. (pc[Reader] \in {"shutdown", "remove"} => At(Handler(rcall), "idle"))'
  BY <1>1, <1>4, Zenon DEF LifeInv, ExchangeInv, At
<1> QED
  BY <1>1, <1>3, <1>4, <1>6, <1>7, <1>8, <1>9, Zenon DEF LifeInv

\* readFrames registers a call whose id it has not seen, and dispatches it or
\* gives it up.
LEMMA LifeReader ==
  ASSUME TypeOK, DispatchInv, ExchangeInv, LifeInv,
         readFrames \/ RejectCallReq \/ AddInbound \/ RecheckInbound \/ ProtocolSteps
  PROVE  LifeInv'
<1> USE ReaderAlone, HandlersAlone, CallersAlone
<1> USE DEF Call, Goto, At, mexVars
<1>1. ASSUME NEW l, pc' = [pc EXCEPT ![Reader] = l], UNCHANGED <<mexes, expired, shut, seen>>,
             l \notin {"reqAdd", "reqRecheck", "shutdown", "remove"}
      PROVE  LifeInv'
  BY <1>1, LifeMove, Zenon
<1>2. ASSUME NEW i \in InCalls, ReadCallReq(i) PROVE LifeInv'
  <2>1. /\ i \notin seen /\ seen' = seen \cup {i} /\ rcall' = i /\ UNCHANGED <<mexes, expired, shut>>
        /\ pc'[Reader] \in {"reqAdd", "reqReject"}
        /\ \A h \in Goroutines : h # Reader => pc'[h] = pc[h]
    BY <1>2, Zenon DEF ReadCallReq, TypeOK, TypePc
  <2>2. ASSUME NEW x \in InCalls PROVE HandlerLife(x)'
    BY <2>1, Zenon DEF LifeInv, HandlerLife
  <2>3. pc'[Reader] \notin {"reqRecheck", "shutdown", "remove"}
    BY <2>1, Zenon
  <2>4. i \notin shut'
    BY <2>1, Zenon DEF LifeInv, HandlerLife
  <2>5. \A o \in OutCalls : pc'[Caller(o)] \in CallLabels => o \in mexes'
    BY <2>1, Zenon DEF LifeInv
  <2>6. mexes' \cap expired' = {}
    BY <2>1, Zenon DEF LifeInv
  <2> QED
    BY <2>1, <2>2, <2>3, <2>4, <2>5, <2>6, Zenon DEF LifeInv
<1>3. CASE AddInbound
  <2>1. CASE "in" \in setShut
    BY <1>1, <1>3, <2>1, Zenon DEF AddInbound, netVars
  <2>2. CASE "in" \notin setShut
    <3>1. /\ mexes' = mexes \cup {rcall} /\ UNCHANGED <<expired, shut, seen, rcall>>
          /\ pc[Reader] = "reqAdd" /\ pc'[Reader] = "reqRecheck"
          /\ \A h \in Goroutines : h # Reader => pc'[h] = pc[h]
      BY <1>3, <2>2, Zenon DEF AddInbound, TypeOK, TypePc, netVars, locals
    <3>2. rcall \in seen /\ rcall \in InCalls /\ pc[Handler(rcall)] = "idle" /\ rcall \notin shut
      BY <3>1, Zenon DEF DispatchInv, TypeOK, TypeNet, LifeInv
    <3>3. rcall \notin expired
      BY <3>2, Zenon DEF LifeInv, HandlerLife
    <3>4. ASSUME NEW x \in InCalls PROVE HandlerLife(x)'
      BY <3>1, <3>2, Zenon DEF LifeInv, HandlerLife, ServeLabels
    <3>5. \A o \in OutCalls : pc'[Caller(o)] \in CallLabels => o \in mexes'
      BY <3>1, Zenon DEF LifeInv
    <3>6. mexes' \cap expired' = {}
      BY <3>1, <3>3, Zenon DEF LifeInv
    <3> QED
      BY <3>1, <3>2, <3>4, <3>5, <3>6, Zenon DEF LifeInv
  <2> QED
    BY <2>1, <2>2, Zenon
<1>4. CASE RecheckInbound
  <2>1. UNCHANGED <<mexes, expired, shut, seen, rcall>> /\ pc[Reader] = "reqRecheck"
    BY <1>4, Zenon DEF RecheckInbound, netVars, locals
  <2>2. /\ rcall \in seen /\ rcall \in InCalls /\ pc[Handler(rcall)] = "idle"
        /\ rcall \notin shut /\ rcall \in mexes \cup expired
    BY <2>1, Zenon DEF DispatchInv, TypeOK, TypeNet, LifeInv
  <2>3. mexes' \cap expired' = {}
    BY <2>1, Zenon DEF LifeInv
  <2>4. CASE pc' = [pc EXCEPT ![Reader] = "shutdown"]
    <3>1. pc'[Reader] = "shutdown" /\ \A h \in Goroutines : h # Reader => pc'[h] = pc[h]
      BY <2>4, Zenon DEF TypeOK, TypePc
    <3>2. ASSUME NEW x \in InCalls PROVE HandlerLife(x)'
      BY <2>1, <3>1, Zenon DEF LifeInv, HandlerLife
    <3>3. \A o \in OutCalls : pc'[Caller(o)] \in CallLabels => o \in mexes'
      BY <2>1, <3>1, Zenon DEF LifeInv
    <3>4. pc'[Handler(rcall)] = "idle"
      BY <2>2, <3>1, Zenon
    <3> QED
      BY <2>1, <2>2, <2>3, <3>1, <3>2, <3>3, <3>4, Zenon DEF LifeInv
  <2>5. CASE pc' = [pc EXCEPT ![Reader] = "read", ![Handler(rcall)] = "start"]
    <3>1. /\ pc'[Reader] = "read" /\ pc'[Handler(rcall)] = "start"
          /\ \A h \in Goroutines : h # Reader /\ h # Handler(rcall) => pc'[h] = pc[h]
      BY <2>2, <2>5 DEF TypeOK, TypePc
    <3>2. ASSUME NEW x \in InCalls PROVE HandlerLife(x)'
      <4>1. CASE x = rcall
        BY <2>1, <2>2, <3>1, <4>1, Zenon DEF LifeInv, HandlerLife, ServeLabels
      <4>2. CASE x # rcall
        <5>1. pc'[Handler(x)] = pc[Handler(x)]
          BY <3>1, <4>2, Zenon
        <5> QED
          BY <2>1, <5>1, Zenon DEF LifeInv, HandlerLife
      <4> QED
        BY <4>1, <4>2, Zenon
    <3>3. \A o \in OutCalls : pc'[Caller(o)] \in CallLabels => o \in mexes'
      BY <2>1, <3>1, Zenon DEF LifeInv
    <3> QED
      BY <2>3, <3>1, <3>2, <3>3, Zenon DEF LifeInv
  <2> QED
    BY <1>4, <2>4, <2>5, Zenon DEF RecheckInbound
<1>5. ASSUME NEW i \in InCalls, ReadDuplicate(i) PROVE LifeInv'
  BY <1>1, <1>5, Zenon DEF ReadDuplicate, netVars
<1>6. ASSUME NEW m \in Outbound, ReadResponse(m) PROVE LifeInv'
  BY <1>6, Zenon DEF LifeInv, HandlerLife, ReadResponse, netVars, locals
<1>7. CASE HandlePingReq
  BY <1>1, <1>7, Zenon DEF HandlePingReq, sendMessage, Fail
<1>8. CASE HandleErrorFrame \/ ReadError \/ RejectCallReq
  BY <1>1, <1>8, Zenon DEF HandleErrorFrame, ReadError, RejectCallReq, Fail, netVars
<1>9. CASE ProtocolSteps
  <2>1. UNCHANGED <<mexes, expired, shut, seen>>
    BY <1>9, Zenon DEF ProtocolSteps, protocolError, ProtocolClose, ProtocolStop, ProtocolStopOutbound,
      ProtocolStopInbound, stopExchanges, netVars
  <2>2. \E l \in {"perrClose", "ce_read", "perrStop", "read", "perrOut", "perrIn"} : pc' = [pc EXCEPT ![Reader] = l]
    BY <1>9, Zenon DEF ProtocolSteps, protocolError, ProtocolClose, ProtocolStop, ProtocolStopOutbound,
      ProtocolStopInbound, CloseThen
  <2> QED
    BY <1>1, <2>1, <2>2, Zenon
<1> QED
  BY <1>2, <1>3, <1>4, <1>5, <1>6, <1>7, <1>8, <1>9, Zenon DEF readFrames

\* Every step preserves LifeInv.
LEMMA LifeStep ==
  ASSUME TypeOK, CurInv, DispatchInv, ExchangeInv, LifeInv, [Next]_vars PROVE LifeInv'
<1> USE DEF Call, Goto, At, mexVars
<1>1. ASSUME NEW g \in Goroutines, checkExchanges(g) \/ ErrorSteps(g) PROVE LifeInv'
  <2>1. UNCHANGED <<mexes, expired, shut, seen, rcall>>
    BY <1>1, CheckMoves, ErrorMoves, Zenon DEF netVars, locals
  <2>2. PICK l \in CheckLabels \cup ErrorLabels \cup ReturnLabels : pc' = [pc EXCEPT ![g] = l]
    <3>1. "ce_read" \in CheckLabels
      BY Zenon DEF CheckLabels
    <3> QED
      BY <1>1, <3>1, CheckMoves, ErrorMoves, Zenon DEF MovesTo
  <2>3. pc[g] \in CheckLabels \cup ErrorLabels
    BY <1>1, CheckMoves, ErrorMoves, Zenon
  <2>4. /\ l \notin ServeLabels \cup CallLabels \cup {"idle", "remove", "reqAdd", "reqRecheck", "shutdown"}
        /\ pc[g] \notin ServeLabels \cup {"idle", "remove"}
    BY <2>2, <2>3, Zenon DEF CheckLabels, ErrorLabels, ReturnLabels, AfterLabels, ServeLabels, CallLabels
  <2> QED
    BY <2>1, <2>2, <2>4, LifeMove, Zenon DEF HandlerGoes
<1>2. ASSUME NEW g \in Goroutines, ExchangeSteps(g) PROVE LifeInv'
  BY <1>2, LifeShutdown, LifeRemove, LifeExpire, Zenon DEF ExchangeSteps
<1>3. CASE readFrames \/ ReaderSteps
  BY <1>3, LifeReader, Zenon DEF ReaderSteps
<1>4. ASSUME NEW i \in InCalls, NEW l, pc' = [pc EXCEPT ![Handler(i)] = l], HandlerGoes(pc[Handler(i)], l),
             UNCHANGED <<mexes, expired, shut, seen, rcall>>
      PROVE  LifeInv'
  BY <1>4, HandlersAlone, LifeMove, Zenon
<1>5. ASSUME NEW i \in InCalls, HandlerChoice(i) \/ HandlerSteps(i) PROVE LifeInv'
  <2>1. UNCHANGED <<mexes, expired, shut, seen, rcall>>
    BY <1>5, Zenon
       DEF HandlerChoice, HandlerSteps, Respond, RespondSystemError, Blackhole, ReadMethod, FlushResponse,
      Flush, DoneSending, CancelResponse, SendResponseError, netVars, locals
  <2>0. /\ HandlerGoes("start", "shutdown") /\ HandlerGoes("handle", "flush") /\ HandlerGoes("handle", "shutdown")
        /\ HandlerGoes("flush", "doneSending") /\ HandlerGoes("flush", "shutdown") /\ HandlerGoes("doneSending", "shutdown")
        /\ HandlerGoes("cancel", "done") /\ HandlerGoes("sysSend", "done")
        /\ "blackhole" \in Events => HandlerGoes("handle", "done")
    BY DEF HandlerGoes, ServeLabels
  <2>2. CASE Respond(i) \/ RespondSystemError(i)
    BY <1>4, <2>0, <2>1, <2>2, Zenon DEF Respond, RespondSystemError
  <2>3. CASE Blackhole(i)
    BY <1>4, <2>0, <2>1, <2>3, Zenon DEF Blackhole
  <2>4. CASE FlushResponse(i)
    BY <1>4, <2>0, <2>1, <2>4, Zenon DEF FlushResponse, Flush
  <2>5. CASE DoneSending(i)
    BY <1>4, <2>0, <2>1, <2>5, Zenon DEF DoneSending
  <2>6. CASE CancelResponse(i) \/ SendResponseError(i)
    BY <1>4, <2>0, <2>1, <2>6, Zenon DEF CancelResponse, SendResponseError
  <2>7. CASE ReadMethod(i)
    <3>1. pc[Handler(i)] = "start"
      BY <2>7, Zenon DEF ReadMethod
    <3>2. CASE pc' = [pc EXCEPT ![Handler(i)] = "shutdown"]
      BY <1>4, <2>0, <2>1, <3>1, <3>2, Zenon
    <3>3. CASE pc' = [pc EXCEPT ![Handler(i)] = "handle", ![Watcher(i)] = "watch"]
      <4>1. /\ pc'[Handler(i)] = "handle" /\ pc'[Reader] = pc[Reader]
            /\ \A x \in InCalls : x # i => pc'[Handler(x)] = pc[Handler(x)]
            /\ \A o \in OutCalls : pc'[Caller(o)] = pc[Caller(o)]
        BY <3>3, Members, Distinct, SMTT(30) DEF TypeOK, TypePc
      <4>2. ASSUME NEW x \in InCalls PROVE HandlerLife(x)'
        <5>1. HandlerLife(x)
          BY Zenon DEF LifeInv
        <5>2. CASE x = i
          BY <2>1, <3>1, <4>1, <5>1, <5>2, Zenon DEF HandlerLife, ServeLabels
        <5>3. CASE x # i
          BY <2>1, <4>1, <5>1, <5>3, Zenon DEF HandlerLife
        <5> QED
          BY <5>2, <5>3, Zenon
      <4>3. pc[Reader] \in {"shutdown", "remove"} => pc'[Handler(rcall)] = "idle"
        BY <3>1, <4>1, Zenon DEF LifeInv, ExchangeInv
      <4> QED
        BY <2>1, <4>1, <4>2, <4>3, Zenon DEF LifeInv
    <3> QED
      BY <2>7, <3>2, <3>3, Zenon DEF ReadMethod
  <2> QED
    BY <1>5, <2>2, <2>3, <2>4, <2>5, <2>6, <2>7, Zenon DEF HandlerChoice, HandlerSteps
<1>6. ASSUME NEW o \in OutCalls, NEW l, pc' = [pc EXCEPT ![Caller(o)] = l],
             l \in CallLabels => pc[Caller(o)] \in CallLabels, UNCHANGED <<mexes, expired, shut, seen, rcall>>
      PROVE  LifeInv'
  <2>1. Caller(o) \in Goroutines /\ Caller(o) # Reader /\ \A x : Caller(o) # Handler(x)
    BY CallersAlone, Zenon
  <2>2. mexes \subseteq mexes' /\ mexes' \cap InCalls = mexes \cap InCalls
    BY <1>6, Zenon
  <2> QED
    BY <1>6, <2>1, <2>2, LifeMove, Zenon
<1>7. ASSUME NEW o \in OutCalls, BeginCall(o) \/ BadResponse(o) \/ CallerSteps(o) PROVE LifeInv'
  <2> USE DEF CallLabels, netVars, locals
  <2>1. CASE BeginCall(o) \/ BadResponse(o)
    BY <1>6, <2>1, Zenon DEF BeginCall, BadResponse
  <2>2. CASE RecheckOutbound(o) \/ WriteRequest(o) \/ AwaitResponse(o)
    BY <1>6, <2>2, Zenon DEF RecheckOutbound, WriteRequest, AwaitResponse
  <2>3. CASE FlushRequest(o)
    BY <1>6, <2>3, Zenon DEF FlushRequest, Flush
  <2>4. CASE AddOutbound(o)
    <3>1. CASE "out" \in setShut
      BY <1>6, <2>4, <3>1, Zenon DEF AddOutbound
    <3>2. CASE "out" \notin setShut
      <4>1. mexes' = mexes \cup {o} /\ pc' = [pc EXCEPT ![Caller(o)] = "recheck"]
            /\ UNCHANGED <<expired, shut, seen, rcall>>
        BY <2>4, <3>2, Zenon DEF AddOutbound
      <4>2. mexes \subseteq mexes' /\ mexes' \cap InCalls = mexes \cap InCalls /\ o \in mexes'
        BY <4>1, CallsAssumption
      <4>3. /\ Caller(o) \in Goroutines /\ Caller(o) # Reader /\ \A x : Caller(o) # Handler(x)
            /\ \A x : Caller(o) = Caller(x) => x = o
        BY CallersAlone, Zenon
      <4> QED
        BY <4>1, <4>2, <4>3, LifeMove, Zenon
    <3> QED
      BY <3>1, <3>2, Zenon
  <2> QED
    BY <1>7, <2>1, <2>2, <2>3, <2>4, Zenon DEF CallerSteps
<1>8. ASSUME NEW g \in Goroutines, NEW l, pc' = [pc EXCEPT ![g] = l], g # Reader,
             \A x : g # Handler(x) /\ g # Caller(x), UNCHANGED <<mexes, expired, shut, seen, rcall>>
      PROVE  LifeInv'
  BY <1>8, LifeMove, Zenon
<1>9. ASSUME NEW i \in InCalls, Watch(i) PROVE LifeInv'
  BY <1>8, <1>9, Members, Distinct, Zenon DEF Watch, netVars, locals
<1>10. ASSUME NEW p \in Pings, PingAdd(p) \/ PingerSteps(p) PROVE LifeInv'
  <2>1. UNCHANGED <<expired, shut, seen, rcall>> /\ \E l : pc' = [pc EXCEPT ![Pinger(p)] = l]
    BY <1>10, Zenon DEF PingAdd, PingerSteps, PingSend, PingDone, sendMessage, Fail, netVars, locals
  <2>2. mexes' = mexes \/ mexes' = mexes \cup {p}
    BY <1>10, Zenon DEF PingAdd, PingerSteps, PingSend, PingDone
  <2>3. mexes \subseteq mexes' /\ mexes' \cap InCalls = mexes \cap InCalls
    BY <2>2, CallsAssumption
  <2> QED
    <3>1. /\ Pinger(p) \in Goroutines /\ Pinger(p) # Reader
          /\ \A x : Pinger(p) # Handler(x) /\ Pinger(p) # Caller(x)
      BY PingersAlone, Zenon
    <3> QED
      BY <2>1, <2>3, <3>1, LifeMove, Zenon
<1>11. ASSUME NEW r \in RelayCalls, RelayCall(r) \/ decrementPending(r) PROVE LifeInv'
  BY <1>8, <1>11, Members, Distinct, Zenon DEF RelayCall, decrementPending, netVars, locals
<1>12. CASE writeFrames \/ WriteError
  <2>1. UNCHANGED <<mexes, expired, shut, seen, rcall>>
    BY <1>12, Zenon DEF writeFrames, WriteFrame, WriterStop, closeNetwork, WriteError, netVars, locals
  <2>2. CASE WriteFrame
    BY <2>1, <2>2, Zenon DEF WriteFrame, LifeInv, HandlerLife
  <2>3. CASE WriterStop \/ closeNetwork \/ WriteError
    BY <1>8, <2>1, <2>3, Members, Distinct, Zenon DEF WriterStop, closeNetwork, WriteError, Fail
  <2> QED
    BY <1>12, <2>2, <2>3, Zenon DEF writeFrames
<1>13. ASSUME NEW c \in Closers, Close(c) PROVE LifeInv'
  BY <1>8, <1>13, Members, Distinct, Zenon DEF Close, CloseThen, netVars, locals
<1>14. CASE (\E m \in Exchanges : Timeout(m)) \/ UNCHANGED vars
  BY <1>14, Zenon DEF LifeInv, HandlerLife, Timeout, vars, netVars, locals
<1> QED
  BY <1>1, <1>2, <1>3, <1>5, <1>7, <1>9, <1>10, <1>11, <1>12, <1>13, <1>14, Zenon
  DEF Next, Environment, Program, Step

\* Whoever runs removeExchange finds the exchange, and whoever is done left none.
LEMMA LifeSafe ==
  ASSUME TypeOK, ExchangeInv, PingInv, LifeInv
  PROVE  RemovedOnce /\ ("blackhole" \notin Events => ExpiredReclaimed)
<1>1. RemovedOnce
  <2> SUFFICES ASSUME NEW g \in Goroutines, pc[g] = "remove" PROVE Mex(g) \in mexes \cup expired
    BY Zenon DEF RemovedOnce, At
  <2>1. pc[g] \in ExchangeLabels /\ "remove" \in CallLabels
    BY Zenon DEF ExchangeLabels, CallLabels
  <2>2. CASE g = Reader
    BY <2>1, <2>2, Zenon DEF LifeInv, Mex
  <2>3. ASSUME NEW i \in InCalls, g = Handler(i), Mex(g) = i PROVE i \in mexes \cup expired
    BY <2>3, Zenon DEF LifeInv, HandlerLife
  <2>4. ASSUME NEW o \in OutCalls, g = Caller(o), Mex(g) = o PROVE o \in mexes
    BY <2>1, <2>4, Zenon DEF LifeInv
  <2>5. ASSUME NEW p \in Pings, g = Pinger(p), Mex(g) = p PROVE p \in mexes
    BY <2>5, Zenon DEF PingInv, PingHolds
  <2>6. pc[g] # "expire"
    OBVIOUS
  <2> QED
    BY <2>1, <2>2, <2>3, <2>4, <2>5, <2>6, WhoseExchange, Zenon
<1>2. "blackhole" \notin Events => ExpiredReclaimed
  BY Zenon DEF LifeInv, HandlerLife, ExpiredReclaimed, At, ServeLabels
<1> QED
  BY <1>1, <1>2, Zenon

-----------------------------------------------------------------------------
(* writeFrames *)

\* writeFrames is no other goroutine.
LEMMA WriterAlone ==
  /\ Writer \in Goroutines /\ Reader # Writer
  /\ \A x : /\ Handler(x) # Writer /\ Watcher(x) # Writer /\ Caller(x) # Writer
            /\ Pinger(x) # Writer /\ Relay(x) # Writer /\ Closer(x) # Writer
BY Members, Distinct, Zenon

\* What any goroutine but writeFrames does to the socket, and writeFrames itself
\* until its last step.
WriterStays ==
  /\ netClosed' = netClosed
  /\ pc[Writer] = "done" => pc'[Writer] = "done"
  /\ pc'[Writer] = "closing" =>
       pc[Writer] = "closing" \/ (state = connectionClosed /\ sendCh' = <<>>)

\* A goroutine that moves on and is not writeFrames.
Elsewhere(g) ==
  /\ g # Writer /\ netClosed' = netClosed
  /\ pc' = pc \/ \E l : pc' = [pc EXCEPT ![g] = l]

\* It leaves writeFrames and the socket alone.
LEMMA ElsewhereStays == ASSUME TypeOK, NEW g, Elsewhere(g) PROVE WriterStays
<1>1. pc \in [Goroutines -> Labels] /\ Writer \in Goroutines
  BY Members, Zenon DEF TypeOK, TypePc
<1>2. pc'[Writer] = pc[Writer]
  BY <1>1, Zenon DEF Elsewhere
<1> QED
  BY <1>2, Zenon DEF WriterStays, Elsewhere

\* Only closeNetwork touches the socket.
LEMMA WriterStep ==
  ASSUME IInv, [Next]_vars PROVE closeNetwork \/ WriterStays
<1>0. TypeOK /\ CurInv /\ pc \in [Goroutines -> Labels]
  BY Zenon DEF IInv, TypeOK, TypePc
<1>1. ASSUME NEW g \in Goroutines, Step(g) PROVE WriterStays
  <2>0. pc[g] \in StepLabels /\ MovesTo(g, StepTargets) /\ netClosed' = netClosed
    BY <1>0, <1>1, StepMoves, Zenon DEF netVars
  <2>1. PICK l \in StepTargets : pc' = [pc EXCEPT ![g] = l]
    BY <2>0, Zenon DEF MovesTo
  <2>2. pc[g] # "done" /\ l # "closing" /\ netClosed' = netClosed
    BY <2>0, Zenon
    DEF StepLabels, StepTargets, CheckLabels, ErrorLabels, ExchangeLabels, ReturnLabels, AfterLabels
  <2> QED
    BY <1>0, <2>1, <2>2, WriterAlone, Zenon DEF WriterStays
<1> USE WriterAlone
<1> USE DEF Elsewhere, Call, Goto
<1>2. ASSUME NEW i \in InCalls, ReadCallReq(i) \/ ReadDuplicate(i) PROVE Elsewhere(Reader)
  BY <1>2, Zenon DEF ReadCallReq, ReadDuplicate, netVars
<1>3. ASSUME NEW m \in Outbound, ReadResponse(m) PROVE Elsewhere(Reader)
  BY <1>3, Zenon DEF ReadResponse, netVars
<1>4. ASSUME HandlePingReq \/ HandleErrorFrame \/ ReadError PROVE Elsewhere(Reader)
  BY <1>4, Zenon DEF HandlePingReq, HandleErrorFrame, ReadError, sendMessage, Fail, netVars
<1>5. ASSUME RejectCallReq \/ AddInbound PROVE Elsewhere(Reader)
  BY <1>5, Zenon DEF RejectCallReq, AddInbound, netVars
<1>6. ASSUME ProtocolSteps PROVE Elsewhere(Reader)
  BY <1>6, Zenon DEF ProtocolSteps, protocolError, ProtocolClose, ProtocolStop, ProtocolStopOutbound,
    ProtocolStopInbound, CloseThen, netVars
<1>7. ASSUME NEW i \in InCalls, HandlerChoice(i) PROVE Elsewhere(Handler(i))
  BY <1>7, Zenon DEF HandlerChoice, Respond, RespondSystemError, Blackhole, netVars
<1>8. ASSUME NEW i \in InCalls, FlushResponse(i) \/ SendResponseError(i) PROVE Elsewhere(Handler(i))
  BY <1>8, Zenon DEF FlushResponse, Flush, SendResponseError, netVars
<1>9. ASSUME NEW i \in InCalls, DoneSending(i) \/ CancelResponse(i) PROVE Elsewhere(Handler(i))
  BY <1>9, Zenon DEF DoneSending, CancelResponse, netVars
<1>10. ASSUME NEW i \in InCalls, Watch(i) PROVE Elsewhere(Watcher(i))
  BY <1>10, Zenon DEF Watch, netVars
<1>11. ASSUME NEW o \in OutCalls, BeginCall(o) \/ BadResponse(o) \/ AddOutbound(o) \/ RecheckOutbound(o)
       PROVE  Elsewhere(Caller(o))
  BY <1>11, Zenon DEF BeginCall, BadResponse, AddOutbound, RecheckOutbound, netVars
<1>12. ASSUME NEW o \in OutCalls, WriteRequest(o) \/ FlushRequest(o) \/ AwaitResponse(o)
       PROVE  Elsewhere(Caller(o))
  BY <1>12, Zenon DEF WriteRequest, FlushRequest, Flush, AwaitResponse, netVars
<1>13. ASSUME NEW p \in Pings, PingAdd(p) \/ PingerSteps(p) PROVE Elsewhere(Pinger(p))
  BY <1>13, Zenon DEF PingAdd, PingerSteps, PingSend, PingDone, sendMessage, Fail, netVars
<1>14. ASSUME NEW r \in RelayCalls, RelayCall(r) \/ decrementPending(r) PROVE Elsewhere(Relay(r))
  BY <1>14, Zenon DEF RelayCall, decrementPending, netVars
<1>15. ASSUME NEW c \in Closers, Close(c) PROVE Elsewhere(Closer(c))
  BY <1>15, Zenon DEF Close, CloseThen, netVars
<1>16. ASSUME (\E m \in Exchanges : Timeout(m)) \/ UNCHANGED vars PROVE Elsewhere(Reader)
  BY <1>16, Zenon DEF Timeout, vars, netVars
<1> HIDE WriterAlone
<1> HIDE DEF Elsewhere, Call
<1>17. CASE WriteFrame \/ WriteError
  <2>1. netClosed' = netClosed /\ pc[Writer] = "write"
        /\ (pc' = pc \/ pc' = [pc EXCEPT ![Writer] = "connectionError"])
    BY <1>17, Zenon DEF WriteFrame, WriteError, Fail, At
  <2> QED
    BY <1>0, <2>1, WriterAlone, Zenon DEF WriterStays
<1>18. CASE WriterStop
  <2>1. stopCh = 1
    BY <1>18 DEF IInv, WriterStop, WinnerInv, TypeOK, TypeConn
  <2>2. state = connectionClosed /\ sendCh' = <<>> /\ netClosed' = netClosed /\ pc[Writer] = "write"
    BY <1>18, <2>1, Zenon DEF IInv, WriterStop, WinnerInv, netVars, At
  <2> QED
    BY <2>2, Zenon DEF WriterStays
<1>19. CASE RecheckInbound
  <2>1. pc'[Writer] = pc[Writer]
    BY <1>0, <1>19, WriterAlone, Zenon DEF RecheckInbound, Call
  <2> QED
    BY <1>19, <2>1, Zenon DEF WriterStays, RecheckInbound, netVars
<1>20. ASSUME NEW i \in InCalls, ReadMethod(i) PROVE WriterStays
  <2>1. pc'[Writer] = pc[Writer]
    BY <1>0, <1>20, WriterAlone, Zenon DEF ReadMethod, Call
  <2> QED
    BY <1>20, <2>1, Zenon DEF WriterStays, ReadMethod, netVars
<1> HIDE DEF Goto
<1>21. ASSUME NEW i \in InCalls, HandlerSteps(i) PROVE WriterStays
  BY <1>0, <1>8, <1>9, <1>20, <1>21, ElsewhereStays, Zenon DEF HandlerSteps
<1>22. ASSUME NEW o \in OutCalls, CallerSteps(o) PROVE WriterStays
  BY <1>0, <1>11, <1>12, <1>22, ElsewhereStays, Zenon DEF CallerSteps
<1>23. CASE readFrames \/ ReaderSteps
  BY <1>0, <1>2, <1>3, <1>4, <1>5, <1>6, <1>19, <1>23, ElsewhereStays, Zenon DEF readFrames, ReaderSteps
<1>24. CASE Environment \/ UNCHANGED vars
  BY <1>0, <1>4, <1>7, <1>11, <1>13, <1>14, <1>15, <1>16, <1>17, <1>23, <1>24, ElsewhereStays, Zenon
  DEF Environment, readFrames
<1> QED
  BY <1>0, <1>1, <1>10, <1>13, <1>14, <1>15, <1>16, <1>17, <1>18, <1>21, <1>22, <1>23, <1>24, ElsewhereStays, Zenon
  DEF Next, Program, writeFrames

-----------------------------------------------------------------------------
(* NotifyInv, ContextInv, StrandInv *)

\* A goroutine that moves on, and is not about to notify exchanges.
LEMMA NotifyMove ==
  ASSUME TypeOK, NotifyInv, NEW g \in Goroutines, NEW l, pc' = [pc EXCEPT ![g] = l],
         l \notin NotifyLabels, stopped' = stopped, errCh \subseteq shut => errCh' \subseteq shut'
  PROVE  NotifyInv'
<1>1. ASSUME NEW h \in Goroutines, pc'[h] \in NotifyLabels PROVE pc[h] \in NotifyLabels
  BY <1>1, Zenon DEF TypeOK, TypePc
<1> QED
  BY <1>1, Zenon DEF NotifyInv

\* Every step preserves NotifyInv: stoppedExchanges is set before the exchanges are
\* notified, and is never reset.
LEMMA NotifyStep ==
  ASSUME TypeOK, CurInv, DispatchInv, NotifyInv, [Next]_vars
  PROVE  NotifyInv' /\ (stopped => stopped')
<1> DEFINE Goal == NotifyInv' /\ (stopped => stopped')
<1> SUFFICES Goal
  OBVIOUS
<1> USE DEF Call, Goto, At, mexVars, connVars
<1>1. ASSUME stopped' = TRUE PROVE Goal
  BY <1>1, Zenon DEF NotifyInv
<1>2. ASSUME NEW g \in Goroutines, NEW l, pc' = [pc EXCEPT ![g] = l], l \notin NotifyLabels,
             UNCHANGED <<stopped, errCh, shut>>
      PROVE  Goal
  BY <1>2, NotifyMove, Zenon
<1>3. ASSUME \A g \in Goroutines : pc'[g] = pc[g] \/ pc'[g] \notin NotifyLabels, UNCHANGED <<stopped, errCh, shut>>
      PROVE  Goal
  BY <1>3, Zenon DEF NotifyInv
<1> HIDE DEF Goal
<1>4. ASSUME NEW g \in Goroutines, checkExchanges(g) PROVE Goal
  <2>1. PICK l \in CheckLabels \cup ReturnLabels : pc' = [pc EXCEPT ![g] = l]
    BY <1>4, CheckMoves, Zenon DEF MovesTo
  <2>2. l \notin NotifyLabels
    BY <2>1, Zenon DEF CheckLabels, ReturnLabels, AfterLabels, NotifyLabels
  <2> QED
    BY <1>2, <1>4, <2>1, <2>2, CheckMoves, Zenon
<1>5. ASSUME NEW g \in Goroutines, ErrorSteps(g) PROVE Goal
  <2>1. CASE connectionError(g)
    BY <1>2, <2>1, Zenon DEF connectionError, CloseThen, NotifyLabels
  <2>2. CASE ErrorStop(g)
    BY <1>1, <2>2, Zenon DEF ErrorStop
  <2>3. CASE ErrorStopOutbound(g) \/ ErrorStopInbound(g)
    BY <1>1, <2>3, Zenon DEF ErrorStopOutbound, ErrorStopInbound, NotifyInv, NotifyLabels
  <2> QED
    BY <1>5, <2>1, <2>2, <2>3, Zenon DEF ErrorSteps
<1>6. ASSUME NEW g \in Goroutines, ExchangeSteps(g) PROVE Goal
  <2>1. PICK l \in {"remove", "ce_read"} \cup ReturnLabels : pc' = [pc EXCEPT ![g] = l]
    BY <1>6, ExchangeMoves, Zenon DEF MovesTo
  <2>2. l \notin NotifyLabels
    BY <2>1, Zenon DEF ReturnLabels, AfterLabels, NotifyLabels
  <2>3. stopped' = stopped /\ (errCh \subseteq shut => errCh' \subseteq shut')
    BY <1>6, Zenon DEF ExchangeSteps, Shutdown, RemoveExchange, ExpireExchange
  <2> QED
    BY <2>1, <2>2, <2>3, NotifyMove, Zenon DEF Goal
<1>7. CASE readFrames
  <2>1. UNCHANGED <<stopped, errCh, shut>>
    BY <1>7, Zenon
       DEF readFrames, ReadCallReq, ReadDuplicate, ReadResponse, HandlePingReq, HandleErrorFrame, ReadError
  <2>2. pc' = pc \/ \E l \in {"reqAdd", "reqReject", "protocolError", "read", "connectionError", "done"} :
                      pc' = [pc EXCEPT ![Reader] = l]
    BY <1>7, Zenon DEF readFrames, ReadCallReq, ReadDuplicate, ReadResponse, HandlePingReq, HandleErrorFrame,
      ReadError, sendMessage, Fail
  <2> QED
    BY <1>2, <1>3, <2>1, <2>2, ReaderAlone, Zenon DEF NotifyLabels
<1>8. CASE RejectCallReq \/ AddInbound
  BY <1>2, <1>8, ReaderAlone, Zenon DEF RejectCallReq, AddInbound, NotifyLabels
<1>9. CASE RecheckInbound
  <2>1. pc[Reader] = "reqRecheck" /\ UNCHANGED <<stopped, errCh, shut>>
    BY <1>9, Zenon DEF RecheckInbound
  <2>2. rcall \in InCalls
    BY <2>1, Zenon DEF DispatchInv, TypeOK, TypeNet
  <2>3. \A g \in Goroutines : pc'[g] = pc[g] \/ pc'[g] \in {"shutdown", "read", "start"}
    BY <1>9, <2>2, Zenon DEF RecheckInbound, TypeOK, TypePc
  <2> QED
    BY <1>3, <2>1, <2>3, Zenon DEF NotifyLabels
<1>10. CASE ProtocolSteps
  <2>1. CASE protocolError \/ ProtocolClose
    BY <1>2, <2>1, ReaderAlone, Zenon DEF protocolError, ProtocolClose, CloseThen, NotifyLabels
  <2>2. CASE ProtocolStop
    BY <1>1, <2>2, Zenon DEF ProtocolStop
  <2>3. CASE ProtocolStopOutbound \/ ProtocolStopInbound
    BY <1>1, <2>3, ReaderAlone, Zenon DEF ProtocolStopOutbound, ProtocolStopInbound, NotifyInv, NotifyLabels
  <2> QED
    BY <1>10, <2>1, <2>2, <2>3, Zenon DEF ProtocolSteps
<1>11. ASSUME NEW i \in InCalls, HandlerChoice(i) \/ HandlerSteps(i) PROVE Goal
  <2>1. UNCHANGED <<stopped, errCh, shut>>
    BY <1>11, Zenon DEF HandlerChoice, HandlerSteps, Respond, RespondSystemError, Blackhole, ReadMethod,
      FlushResponse, Flush, DoneSending, CancelResponse, SendResponseError
  <2>2. CASE ReadMethod(i)
    <3>1. \A g \in Goroutines : pc'[g] = pc[g] \/ pc'[g] \in {"shutdown", "handle", "watch"}
      BY <2>2, Zenon DEF ReadMethod, TypeOK, TypePc
    <3> QED
      BY <1>3, <2>1, <3>1, Zenon DEF NotifyLabels
  <2>3. CASE ~ReadMethod(i)
    <3>1. \E l \in {"flush", "shutdown", "done", "doneSending"} : pc' = [pc EXCEPT ![Handler(i)] = l]
      BY <1>11, <2>3, Zenon DEF HandlerChoice, HandlerSteps, Respond, RespondSystemError, Blackhole,
        FlushResponse, Flush, DoneSending, CancelResponse, SendResponseError
    <3> QED
      BY <1>2, <2>1, <3>1, HandlersAlone, Zenon DEF NotifyLabels
  <2> QED
    BY <2>2, <2>3, Zenon
<1>12. ASSUME NEW i \in InCalls, Watch(i) PROVE Goal
  BY <1>2, <1>12, Members, Zenon DEF Watch, NotifyLabels
<1>13. ASSUME NEW o \in OutCalls, BeginCall(o) \/ BadResponse(o) \/ CallerSteps(o) PROVE Goal
  <2>1. UNCHANGED <<stopped, errCh, shut>>
    BY <1>13, Zenon DEF BeginCall, BadResponse, CallerSteps, AddOutbound, RecheckOutbound, WriteRequest,
      FlushRequest, Flush, AwaitResponse
  <2>2. \E l \in {"add", "done", "recheck", "shutdown", "checkError", "flush", "wait"} :
          pc' = [pc EXCEPT ![Caller(o)] = l]
    BY <1>13, Zenon DEF BeginCall, BadResponse, CallerSteps, AddOutbound, RecheckOutbound, WriteRequest,
      FlushRequest, Flush, AwaitResponse
  <2> QED
    BY <1>2, <2>1, <2>2, CallersAlone, Zenon DEF NotifyLabels
<1>14. ASSUME NEW p \in Pings, PingAdd(p) \/ PingerSteps(p) PROVE Goal
  BY <1>2, <1>14, PingersAlone, Zenon DEF PingAdd, PingerSteps, PingSend, PingDone, sendMessage, Fail, NotifyLabels
<1>15. ASSUME NEW r \in RelayCalls, RelayCall(r) \/ decrementPending(r) PROVE Goal
  BY <1>2, <1>15, Members, Zenon DEF RelayCall, decrementPending, NotifyLabels
<1>16. CASE writeFrames \/ WriteError
  <2>1. CASE WriteFrame
    BY <1>3, <2>1, Zenon DEF WriteFrame
  <2>2. CASE WriterStop \/ closeNetwork \/ WriteError
    BY <1>2, <2>2, WriterAlone, Zenon DEF WriterStop, closeNetwork, WriteError, Fail, NotifyLabels
  <2> QED
    BY <1>16, <2>1, <2>2, Zenon DEF writeFrames
<1>17. ASSUME NEW c \in Closers, Close(c) PROVE Goal
  BY <1>2, <1>17, Members, Zenon DEF Close, CloseThen, NotifyLabels
<1>18. CASE (\E m \in Exchanges : Timeout(m)) \/ UNCHANGED vars
  BY <1>3, <1>18, Zenon DEF Timeout, vars
<1> QED
  BY <1>4, <1>5, <1>6, <1>7, <1>8, <1>9, <1>10, <1>11, <1>12, <1>13, <1>14, <1>15, <1>16, <1>17, <1>18, Zenon
  DEF Next, Environment, Program, Step, ReaderSteps

\* A goroutine that moves on, leaves the contexts alone and expires no exchange.
LEMMA ContextMove ==
  ASSUME TypeOK, ContextInv, NEW g \in Goroutines, NEW l, pc' = [pc EXCEPT ![g] = l],
         ctx' = ctx, expired' \subseteq expired, stopped => stopped',
         \A i \in InCalls : g = Handler(i) /\ l \in {"idle"} \cup AnswerLabels => pc[g] \in AnswerLabels,
         \A i \in InCalls : g = Watcher(i) => l # "expire"
  PROVE  ContextInv'
<1> SUFFICES ASSUME ~stopped', NEW i \in InCalls PROVE ContextLife(i)'
  BY Zenon DEF ContextInv
<1>1. ContextLife(i)
  BY Zenon DEF ContextInv
<1>2. Handler(i) \in Goroutines /\ Watcher(i) \in Goroutines
  BY Members, Zenon
<1>3. pc'[Handler(i)] = pc[Handler(i)] \/ (g = Handler(i) /\ pc'[Handler(i)] = l)
  BY <1>2, Zenon DEF TypeOK, TypePc
<1>4. pc'[Watcher(i)] = pc[Watcher(i)] \/ pc'[Watcher(i)] # "expire"
  BY <1>2, Zenon DEF TypeOK, TypePc
<1>5. pc'[Handler(i)] \in {"idle"} \cup AnswerLabels => pc[Handler(i)] \in {"idle"} \cup AnswerLabels
  BY <1>3, Zenon
<1>6. pc'[Handler(i)] \in AnswerLabels => pc[Handler(i)] \in AnswerLabels
  BY <1>3, Zenon
<1> QED
  BY <1>1, <1>4, <1>5, <1>6, Zenon DEF ContextLife, At

\* A handler that has its response no longer to send may cancel its context.
LEMMA ContextLeave ==
  ASSUME TypeOK, ContextInv, NEW i \in InCalls, NEW l, pc' = [pc EXCEPT ![Handler(i)] = l],
         l \notin {"idle"} \cup AnswerLabels, Cancelled(i), UNCHANGED <<stopped, expired>>
  PROVE  ContextInv'
<1> SUFFICES ASSUME ~stopped, NEW x \in InCalls PROVE ContextLife(x)'
  BY Zenon DEF ContextInv
<1>1. ContextLife(x)
  BY Zenon DEF ContextInv
<1>2. Handler(x) \in Goroutines /\ Watcher(x) \in Goroutines /\ x \in Exchanges
  BY Members, Zenon DEF Exchanges
<1>3. CASE x = i
  <2>1. pc'[Handler(x)] = l
    BY <1>2, <1>3, Zenon DEF TypeOK, TypePc
  <2> QED
    BY <2>1, Zenon DEF ContextLife
<1>4. CASE x # i
  <2>1. pc'[Handler(x)] = pc[Handler(x)] /\ pc'[Watcher(x)] = pc[Watcher(x)]
    BY <1>2, <1>4, HandlersAlone, Zenon DEF TypeOK, TypePc
  <2>2. ctx'[x] = ctx[x]
    BY <1>2, <1>4, Zenon DEF Cancelled, TypeOK, TypeMex
  <2> QED
    BY <1>1, <2>1, <2>2, Zenon DEF ContextLife, At
<1> QED
  BY <1>3, <1>4, Zenon

\* The watcher of a call that has its response still to send sees its deadline.
LEMMA ContextWatch ==
  ASSUME TypeOK, DispatchInv, LifeInv, NotifyInv, ContextInv, NEW i \in InCalls, Watch(i)
  PROVE  ContextInv'
<1> SUFFICES ASSUME ~stopped, NEW x \in InCalls PROVE ContextLife(x)'
  BY Zenon DEF ContextInv, Watch, connVars
<1>1. ContextLife(x) /\ ContextLife(i)
  BY Zenon DEF ContextInv
<1>2. Handler(x) \in Goroutines /\ Watcher(x) \in Goroutines /\ x \in Exchanges /\ i \in Exchanges
  BY Members, Zenon DEF Exchanges
<1>3. pc' = [pc EXCEPT ![Watcher(i)] = "expire"] /\ expired' = expired /\ pc[Watcher(i)] = "watch"
  BY Zenon DEF Watch, Call, Goto, At
<1>4. pc'[Handler(x)] = pc[Handler(x)]
  BY <1>2, <1>3, HandlersAlone, Zenon DEF TypeOK, TypePc
<1>5. CASE x # i
  <2>1. pc'[Watcher(x)] = pc[Watcher(x)]
    BY <1>2, <1>3, <1>5, Distinct, Zenon DEF TypeOK, TypePc
  <2>2. ctx'[x] = ctx[x]
    BY <1>2, <1>5, Zenon DEF Watch, Cancelled, TypeOK, TypeMex
  <2> QED
    BY <1>1, <1>3, <1>4, <2>1, <2>2, Zenon DEF ContextLife, At
<1>6. CASE x = i
  <2>1. pc[Handler(i)] # "idle"
    BY <1>3, Zenon DEF DispatchInv, At
  <2>2. ASSUME pc[Handler(i)] \in AnswerLabels PROVE ctx'[i] = "deadline"
    <3>1. i \notin errCh
      <4>1. pc[Handler(i)] \in ServeLabels
        BY <2>2, Zenon DEF AnswerLabels, ServeLabels
      <4> QED
        BY <4>1, Zenon DEF LifeInv, HandlerLife, NotifyInv
    <3>2. ctx' = ctx /\ ctx[i] # "live"
      BY <3>1, Zenon DEF Watch, Failed
    <3> QED
      BY <1>1, <1>2, <2>2, <3>2, Zenon DEF ContextLife, TypeOK, TypeMex
  <2> QED
    BY <1>4, <1>6, <2>1, <2>2, Zenon DEF ContextLife, At
<1> QED
  BY <1>5, <1>6, Zenon

\* A call is dispatched, and its watcher started, with a context that is not
\* cancelled.
LEMMA ContextDispatch ==
  ASSUME TypeOK, DispatchInv, LifeInv, ContextInv,
         RecheckInbound \/ \E i \in InCalls : ReadMethod(i)
  PROVE  ContextInv'
<1> USE DEF Call, Goto, At, mexVars, connVars
<1>1. UNCHANGED <<stopped, ctx, expired>>
  BY Zenon DEF RecheckInbound, ReadMethod
<1>2. CASE RecheckInbound
  <2>1. CASE state # connectionActive
    <3>1. pc' = [pc EXCEPT ![Reader] = "shutdown"]
      BY <1>2, <2>1, Zenon DEF RecheckInbound
    <3> QED
      BY <1>1, <3>1, ReaderAlone, ContextMove, Zenon
  <2>2. CASE state = connectionActive
    <3>1. pc[Reader] = "reqRecheck" /\ pc' = [pc EXCEPT ![Reader] = "read", ![Handler(rcall)] = "start"]
      BY <1>2, <2>2, Zenon DEF RecheckInbound
    <3>2. rcall \in InCalls /\ pc[Handler(rcall)] = "idle"
      BY <3>1, Zenon DEF DispatchInv, TypeOK, TypeNet
    <3>3. /\ \A x \in InCalls : pc'[Watcher(x)] = pc[Watcher(x)]
          /\ \A x \in InCalls : x # rcall => pc'[Handler(x)] = pc[Handler(x)]
          /\ pc'[Handler(rcall)] = "start"
      BY <3>1, <3>2, Members, Distinct, SMTT(30) DEF TypeOK, TypePc
    <3>4. pc[Watcher(rcall)] = "idle" /\ rcall \notin expired
      BY <3>2, Zenon DEF DispatchInv, LifeInv, HandlerLife
    <3>5. ASSUME ~stopped, NEW x \in InCalls PROVE ContextLife(x)'
      <4>1. ContextLife(x)
        BY <3>5, Zenon DEF ContextInv
      <4> QED
        BY <1>1, <3>2, <3>3, <3>4, <4>1, Zenon DEF ContextLife
    <3> QED
      BY <1>1, <3>5, Zenon DEF ContextInv
  <2> QED
    BY <2>1, <2>2, Zenon
<1>3. ASSUME NEW i \in InCalls, ReadMethod(i) PROVE ContextInv'
  <2>0. "start" \in AnswerLabels /\ "handle" \in AnswerLabels /\ "shutdown" \notin {"idle"} \cup AnswerLabels
    BY Zenon DEF AnswerLabels
  <2>1. CASE pc' = [pc EXCEPT ![Handler(i)] = "shutdown"]
    <3>1. Handler(i) \in Goroutines /\ \A x : Handler(i) # Watcher(x)
      BY HandlersAlone, Zenon
    <3> QED
      BY <1>1, <2>0, <2>1, <3>1, ContextMove, Zenon
  <2>2. CASE pc' = [pc EXCEPT ![Handler(i)] = "handle", ![Watcher(i)] = "watch"]
    <3>1. /\ \A x \in InCalls : pc'[Watcher(x)] = pc[Watcher(x)] \/ pc'[Watcher(x)] # "expire"
          /\ \A x \in InCalls : x # i => pc'[Handler(x)] = pc[Handler(x)]
          /\ pc'[Handler(i)] = "handle"
      <4>1. Handler(i) \in Goroutines /\ Watcher(i) \in Goroutines /\ Handler(i) # Watcher(i)
        BY Members, Distinct, Zenon
      <4>2. /\ pc'[Handler(i)] = "handle" /\ pc'[Watcher(i)] = "watch"
            /\ \A h \in Goroutines : h # Handler(i) /\ h # Watcher(i) => pc'[h] = pc[h]
        BY <2>2, <4>1, Zenon DEF TypeOK, TypePc
      <4>3. \A x \in InCalls : /\ Handler(x) \in Goroutines /\ Handler(x) # Watcher(i)
                               /\ x # i => Handler(x) # Handler(i)
        BY Members, Distinct, Zenon
      <4>4. \A x \in InCalls : /\ Watcher(x) \in Goroutines /\ Watcher(x) # Handler(i)
                               /\ x # i => Watcher(x) # Watcher(i)
        BY Members, Distinct, Zenon
      <4>5. "watch" # "expire"
        OBVIOUS
      <4> QED
        BY <4>2, <4>3, <4>4, <4>5, Zenon
    <3>2. pc[Handler(i)] = "start"
      BY <1>3, Zenon DEF ReadMethod
    <3>3. ASSUME ~stopped, NEW x \in InCalls PROVE ContextLife(x)'
      <4>1. ContextLife(x)
        BY <3>3, Zenon DEF ContextInv
      <4> QED
        BY <1>1, <2>0, <3>1, <3>2, <4>1, Zenon DEF ContextLife
    <3> QED
      BY <1>1, <3>3, Zenon DEF ContextInv
  <2> QED
    BY <1>3, <2>1, <2>2, Zenon DEF ReadMethod
<1> QED
  BY <1>2, <1>3, Zenon

\* Every step preserves ContextInv.
LEMMA ContextStep ==
  ASSUME TypeOK, CurInv, DispatchInv, ExchangeInv, LifeInv, NotifyInv, ContextInv, [Next]_vars
  PROVE  ContextInv'
<1> USE DEF Call, Goto, At, mexVars, connVars
<1>0. stopped => stopped'
  BY NotifyStep, Zenon
<1>1. ASSUME NEW g \in Goroutines, NEW l, pc' = [pc EXCEPT ![g] = l],
             l \notin {"idle", "expire"} \cup AnswerLabels, ctx' = ctx, expired' \subseteq expired
      PROVE  ContextInv'
  BY <1>0, <1>1, ContextMove, Zenon
<1>2. ASSUME NEW g \in Goroutines, checkExchanges(g) \/ ErrorSteps(g) PROVE ContextInv'
  <2>1. UNCHANGED <<ctx, expired>>
    BY <1>2, CheckMoves, ErrorMoves, Zenon
  <2>2. PICK l \in CheckLabels \cup ErrorLabels \cup ReturnLabels : pc' = [pc EXCEPT ![g] = l]
    <3>1. "ce_read" \in CheckLabels
      BY Zenon DEF CheckLabels
    <3> QED
      BY <1>2, <3>1, CheckMoves, ErrorMoves, Zenon DEF MovesTo
  <2>3. l \notin {"idle", "expire"} \cup AnswerLabels
    BY <2>2, Zenon DEF CheckLabels, ErrorLabels, ReturnLabels, AfterLabels, AnswerLabels
  <2> QED
    BY <1>1, <2>1, <2>2, <2>3, Zenon
<1>3. ASSUME NEW g \in Goroutines, ExchangeSteps(g) PROVE ContextInv'
  <2>1. PICK l \in {"remove", "ce_read"} \cup ReturnLabels : pc' = [pc EXCEPT ![g] = l]
    BY <1>3, ExchangeMoves, Zenon DEF MovesTo
  <2>2. l \notin {"idle", "expire"} \cup AnswerLabels
    BY <2>1, Zenon DEF ReturnLabels, AfterLabels, AnswerLabels
  <2>3. ctx' = ctx
    BY <1>3, ExchangeMoves, Zenon
  <2>4. CASE Shutdown(g) \/ RemoveExchange(g)
    <3>1. expired' \subseteq expired
      BY <2>4, Zenon DEF Shutdown, RemoveExchange
    <3> QED
      BY <1>1, <2>1, <2>2, <2>3, <3>1, Zenon
  <2>5. CASE ExpireExchange(g)
    <3>1. pc[g] = "expire" /\ pc[g] \in ExchangeLabels /\ pc' = [pc EXCEPT ![g] = "ce_read"]
      BY <2>5, Zenon DEF ExpireExchange, ExchangeLabels
    <3>2. PICK i \in InCalls : g = Watcher(i) /\ Mex(g) = i
      BY <3>1, WhoseExchange
    <3>3. expired' \subseteq expired \cup {i}
      BY <2>5, <3>2, Zenon DEF ExpireExchange
    <3>4. ASSUME ~stopped', NEW x \in InCalls PROVE ContextLife(x)'
      <4>1. ContextLife(x)
        BY <1>0, <3>4, Zenon DEF ContextInv
      <4>2. pc'[Handler(x)] = pc[Handler(x)]
        BY <3>1, <3>2, HandlersAlone, Zenon DEF TypeOK, TypePc
      <4>3. pc'[Watcher(x)] = "expire" => pc[Watcher(x)] = "expire"
        BY <3>1, <3>2, Members, Zenon DEF TypeOK, TypePc
      <4>4. x \in expired' => x \in expired \/ pc[Watcher(x)] = "expire"
        BY <3>1, <3>2, <3>3, Zenon
      <4> QED
        BY <2>3, <4>1, <4>2, <4>3, <4>4, Zenon DEF ContextLife
    <3> QED
      BY <3>4, Zenon DEF ContextInv
  <2> QED
    BY <1>3, <2>4, <2>5, Zenon DEF ExchangeSteps
<1>4. CASE readFrames \/ RejectCallReq \/ AddInbound \/ ProtocolSteps
  <2>1. UNCHANGED <<ctx, expired>>
    BY <1>4, Zenon
       DEF readFrames, ReadCallReq, ReadDuplicate, ReadResponse, HandlePingReq, HandleErrorFrame, ReadError,
      RejectCallReq, AddInbound, ProtocolSteps, protocolError, ProtocolClose, ProtocolStop, ProtocolStopOutbound,
      ProtocolStopInbound, stopExchanges
  <2>2. pc' = pc \/ \E l : pc' = [pc EXCEPT ![Reader] = l]
    BY <1>4, Zenon
       DEF readFrames, ReadCallReq, ReadDuplicate, ReadResponse, HandlePingReq, HandleErrorFrame, ReadError,
      RejectCallReq, AddInbound, ProtocolSteps, protocolError, ProtocolClose, ProtocolStop, ProtocolStopOutbound,
      ProtocolStopInbound, CloseThen, sendMessage, Fail
  <2>3. CASE pc' = pc
    BY <1>0, <2>1, <2>3, Zenon DEF ContextInv, ContextLife
  <2> QED
    BY <1>0, <2>1, <2>2, <2>3, ReaderAlone, ContextMove, Zenon
<1>5. CASE RecheckInbound \/ \E i \in InCalls : ReadMethod(i)
  BY <1>5, ContextDispatch, Zenon
<1>6. ASSUME NEW i \in InCalls, HandlerChoice(i) \/ (HandlerSteps(i) /\ ~ReadMethod(i)) PROVE ContextInv'
  <2>0. /\ {"handle", "flush", "doneSending"} \subseteq AnswerLabels
        /\ {"shutdown", "done"} \cap ({"idle", "expire"} \cup AnswerLabels) = {}
    BY Zenon DEF AnswerLabels
  <2>1. UNCHANGED <<stopped, expired>> /\ Handler(i) \in Goroutines /\ \A x : Handler(i) # Watcher(x)
    BY <1>6, HandlersAlone, Zenon DEF HandlerChoice, HandlerSteps, Respond, RespondSystemError, Blackhole,
      FlushResponse, Flush, DoneSending, CancelResponse, SendResponseError
  <2>2. CASE Respond(i)
    <3>1. ctx' = ctx /\ pc[Handler(i)] = "handle" /\ \E l : pc' = [pc EXCEPT ![Handler(i)] = l]
      BY <2>2, Zenon DEF Respond
    <3> QED
      BY <2>0, <2>1, <3>1, ContextMove, Zenon
  <2>3. CASE FlushResponse(i)
    <3>1. ctx' = ctx /\ pc[Handler(i)] = "flush" /\ \E l : pc' = [pc EXCEPT ![Handler(i)] = l]
      BY <2>3, Zenon DEF FlushResponse, Flush
    <3> QED
      BY <2>0, <2>1, <3>1, ContextMove, Zenon
  <2>4. CASE SendResponseError(i)
    BY <1>1, <2>0, <2>1, <2>4, Zenon DEF SendResponseError
  <2>5. CASE RespondSystemError(i) \/ Blackhole(i) \/ DoneSending(i) \/ CancelResponse(i)
    <3>1. Cancelled(i) /\ \E l \in {"shutdown", "done"} : pc' = [pc EXCEPT ![Handler(i)] = l]
      BY <2>5, Zenon DEF RespondSystemError, Blackhole, DoneSending, CancelResponse
    <3> QED
      BY <2>0, <2>1, <3>1, ContextLeave, Zenon
  <2> QED
    BY <1>6, <2>2, <2>3, <2>4, <2>5, Zenon DEF HandlerChoice, HandlerSteps
<1>7. ASSUME NEW i \in InCalls, Watch(i) PROVE ContextInv'
  BY <1>7, ContextWatch, Zenon
<1>8. ASSUME NEW g \in Goroutines, NEW l, pc' = [pc EXCEPT ![g] = l], \A x : g # Handler(x) /\ g # Watcher(x),
             UNCHANGED <<ctx, expired>>
      PROVE  ContextInv'
  BY <1>0, <1>8, ContextMove, Zenon
<1>9. ASSUME NEW o \in OutCalls, BeginCall(o) \/ BadResponse(o) \/ CallerSteps(o) PROVE ContextInv'
  <2>1. UNCHANGED <<ctx, expired>>
    BY <1>9, Zenon DEF BeginCall, BadResponse, CallerSteps, AddOutbound, RecheckOutbound, WriteRequest,
      FlushRequest, Flush, AwaitResponse
  <2>2. \E l : pc' = [pc EXCEPT ![Caller(o)] = l]
    BY <1>9, Zenon DEF BeginCall, BadResponse, CallerSteps, AddOutbound, RecheckOutbound, WriteRequest,
      FlushRequest, Flush, AwaitResponse
  <2> QED
    BY <1>8, <2>1, <2>2, CallersAlone, Zenon
<1>10. ASSUME NEW p \in Pings, PingAdd(p) \/ PingerSteps(p) PROVE ContextInv'
  BY <1>8, <1>10, PingersAlone, Zenon DEF PingAdd, PingerSteps, PingSend, PingDone, sendMessage, Fail
<1>11. ASSUME NEW r \in RelayCalls, RelayCall(r) \/ decrementPending(r) PROVE ContextInv'
  BY <1>8, <1>11, Members, Distinct, Zenon DEF RelayCall, decrementPending
<1>12. CASE writeFrames \/ WriteError
  <2>1. CASE WriteFrame
    BY <1>0, <2>1, Zenon DEF WriteFrame, ContextInv, ContextLife
  <2>2. CASE WriterStop \/ closeNetwork \/ WriteError
    BY <1>8, <2>2, WriterAlone, Zenon DEF WriterStop, closeNetwork, WriteError, Fail
  <2> QED
    BY <1>12, <2>1, <2>2, Zenon DEF writeFrames
<1>13. ASSUME NEW c \in Closers, Close(c) PROVE ContextInv'
  BY <1>8, <1>13, Members, Distinct, Zenon DEF Close, CloseThen
<1>14. ASSUME NEW m \in Exchanges, Timeout(m) PROVE ContextInv'
  <2>1. \A x \in InCalls : ctx'[x] = ctx[x] \/ ctx'[x] = "deadline"
    BY <1>14, Zenon DEF Timeout, Exchanges, TypeOK, TypeMex
  <2> QED
    BY <1>14, <2>1, Zenon DEF Timeout, ContextInv, ContextLife
<1>15. CASE UNCHANGED vars
  BY <1>15, Zenon DEF vars, ContextInv, ContextLife
<1> QED
  BY <1>2, <1>3, <1>4, <1>5, <1>6, <1>7, <1>9, <1>10, <1>11, <1>12, <1>13, <1>14, <1>15, Zenon
  DEF Next, Environment, Program, Step, ReaderSteps

\* What a step does once writeFrames has drained sendCh for the last time, unless
\* the connection failed: a frame that comes late is one that may be left behind,
\* and a deadline that has passed stays so.
LEMMA StrandSend ==
  ASSUME IInv, SocketInv, LifeInv, ContextInv, [Next]_vars,
         At(Writer, "closing") \/ netClosed, state = connectionClosed, ~stopped
  PROVE  /\ \A i \in InCalls : ctx[i] = "deadline" => ctx'[i] = "deadline"
         /\ sendCh' = sendCh \/ \E f : sendCh' = Append(sendCh, f) /\ LeftBehind(f)
<1> DEFINE Goal == /\ \A i \in InCalls : ctx[i] = "deadline" => ctx'[i] = "deadline"
                   /\ sendCh' = sendCh \/ \E f : sendCh' = Append(sendCh, f) /\ LeftBehind(f)
<1> SUFFICES Goal
  OBVIOUS
<1>0. /\ TypeOK /\ CurInv /\ pc[Writer] # "write" /\ OpenInbound = {} /\ OpenOutbound = {}
      /\ ctx \in [Exchanges -> {"live", "deadline", "cancelled"}]
  BY Zenon DEF IInv, DrainInv, Drained, SocketInv, TypeOK, TypeMex, At
<1>a. ASSUME UNCHANGED <<ctx, sendCh>> PROVE Goal
  BY <1>a, Zenon
<1>b. ASSUME NEW i \in Exchanges, Cancelled(i) \/ ctx' = [ctx EXCEPT ![i] = "deadline"], sendCh' = sendCh PROVE Goal
  BY <1>0, <1>b, Zenon DEF Cancelled, Exchanges
<1>c. ASSUME ctx' = ctx, NEW f, sendCh' = sendCh \/ sendCh' = Append(sendCh, f), LeftBehind(f) PROVE Goal
  BY <1>c, Zenon
<1> HIDE DEF Goal
<1> USE DEF mexVars, netVars
<1>d. ASSUME NEW m, SendSystemError(m) PROVE sendCh' = sendCh
  BY <1>d, Zenon DEF SendSystemError
<1>1. ASSUME NEW g \in Goroutines, Step(g) PROVE Goal
  BY <1>0, <1>1, <1>a, CheckMoves, ErrorMoves, ExchangeMoves, Zenon DEF Step
<1>2. CASE readFrames
  <2>1. connectionClosed # connectionActive
    BY DEF connectionClosed, connectionActive
  <2> QED
    BY <1>2, <1>a, <2>1, Zenon
       DEF readFrames, ReadCallReq, ReadDuplicate, ReadResponse, HandlePingReq, HandleErrorFrame, ReadError
<1>3. CASE ReaderSteps
  BY <1>3, <1>a, <1>d, Zenon
     DEF ReaderSteps, RejectCallReq, AddInbound, RecheckInbound, ProtocolSteps, protocolError,
    ProtocolClose, ProtocolStop, ProtocolStopOutbound, ProtocolStopInbound, stopExchanges
<1>4. CASE writeFrames \/ WriteError
  BY <1>0, <1>4, <1>a, Zenon DEF writeFrames, WriteFrame, WriterStop, closeNetwork, WriteError, At
<1>5. ASSUME NEW i \in InCalls, HandlerChoice(i) \/ HandlerSteps(i) \/ Watch(i) PROVE Goal
  <2>0. i \in Exchanges
    BY Zenon DEF Exchanges
  <2>1. CASE HandlerChoice(i) \/ Watch(i)
    BY <1>a, <1>b, <2>0, <2>1, Zenon DEF HandlerChoice, Respond, RespondSystemError, Blackhole, Watch
  <2>2. CASE ReadMethod(i) \/ SendResponseError(i)
    BY <1>a, <1>d, <2>2, Zenon DEF ReadMethod, SendResponseError
  <2>3. CASE DoneSending(i) \/ CancelResponse(i)
    BY <1>b, <2>0, <2>3, Zenon DEF DoneSending, CancelResponse
  <2>4. CASE FlushResponse(i)
    <3>1. /\ pc[Handler(i)] = "flush" /\ ctx' = ctx
          /\ sendCh' = sendCh \/ sendCh' = Append(sendCh, <<"callRes", i>>)
      BY <2>4, Zenon DEF FlushResponse, Flush, At
    <3>2. i \in expired
      <4>1. i \in mexes \cup expired
        BY <3>1, Zenon DEF LifeInv, HandlerLife, ServeLabels
      <4> QED
        BY <1>0, <3>1, <4>1, Zenon DEF OpenInbound, At
    <3>3. ctx[i] = "deadline"
      BY <3>1, <3>2, Zenon DEF ContextInv, ContextLife, AnswerLabels
    <3>4. LeftBehind(<<"callRes", i>>)
      BY <3>3 DEF LeftBehind
    <3> QED
      BY <1>c, <3>1, <3>4, Zenon
  <2> QED
    BY <1>5, <2>1, <2>2, <2>3, <2>4, Zenon DEF HandlerSteps
<1>6. ASSUME NEW o \in OutCalls, BeginCall(o) \/ BadResponse(o) \/ CallerSteps(o) PROVE Goal
  <2>1. CASE FlushRequest(o)
    <3>1. pc[Caller(o)] = "flush"
      BY <2>1, Zenon DEF FlushRequest, Flush, At
    <3>2. o \in mexes /\ ret[Caller(o)] # "rejected"
      BY <3>1, Zenon DEF LifeInv, CallLabels, IInv, CallerInv
    <3> QED
      BY <1>0, <3>1, <3>2, Zenon DEF OpenOutbound, At
  <2> QED
    BY <1>6, <1>a, <2>1, Zenon DEF BeginCall, BadResponse, CallerSteps, AddOutbound, RecheckOutbound, WriteRequest,
      AwaitResponse
<1>7. ASSUME NEW p \in Pings, PingAdd(p) \/ PingerSteps(p) PROVE Goal
  <2>1. ctx' = ctx /\ (sendCh' = sendCh \/ sendCh' = Append(sendCh, <<"ping", p>>))
    BY <1>7, Zenon DEF PingAdd, PingerSteps, PingSend, PingDone, sendMessage
  <2>2. LeftBehind(<<"ping", p>>)
    BY DEF LeftBehind
  <2> QED
    BY <1>c, <2>1, <2>2, Zenon
<1>8. CASE \/ \E r \in RelayCalls : RelayCall(r) \/ decrementPending(r)
           \/ \E c \in Closers : Close(c)
           \/ UNCHANGED vars
  BY <1>8, <1>a, Zenon DEF RelayCall, decrementPending, Close, vars
<1>9. ASSUME NEW m \in Exchanges, Timeout(m) PROVE Goal
  BY <1>9, <1>b, Zenon DEF Timeout
<1> QED
  BY <1>1, <1>2, <1>3, <1>4, <1>5, <1>6, <1>7, <1>8, <1>9, Zenon DEF Next, Environment, Program

\* Every step preserves StrandInv.
LEMMA StrandStep ==
  ASSUME IInv, SocketInv, LifeInv, NotifyInv, ContextInv, StrandInv, [Next]_vars
  PROVE  StrandInv'
<1> DEFINE Ended == At(Writer, "closing") \/ netClosed
<1>0. stopped => stopped'
  BY NotifyStep, Zenon DEF IInv
<1>1. CASE Ended /\ Ended'
  <2>1. state = connectionClosed /\ state' = connectionClosed
    BY <1>1, StateMonotone, Zenon DEF StrandInv
  <2>2. ASSUME ~stopped' PROVE \A k \in 1..Len(sendCh') : LeftBehind(sendCh[k])'
    <3>1. ~stopped
      BY <1>0, <2>2, Zenon
    <3>2. /\ \A i \in InCalls : ctx[i] = "deadline" => ctx'[i] = "deadline"
          /\ sendCh' = sendCh \/ \E f : sendCh' = Append(sendCh, f) /\ LeftBehind(f)
      BY <1>1, <2>1, <3>1, StrandSend, Zenon
    <3>3. \A f : LeftBehind(f) => LeftBehind(f)'
      BY <3>2, Zenon DEF LeftBehind
    <3>4. \A k \in 1..Len(sendCh) : LeftBehind(sendCh[k])
      BY <1>1, <3>1, Zenon DEF StrandInv
    <3>5. CASE sendCh' = sendCh
      BY <3>3, <3>4, <3>5, Zenon
    <3>6. ASSUME NEW f, sendCh' = Append(sendCh, f), LeftBehind(f)
          PROVE  \A k \in 1..Len(sendCh') : LeftBehind(sendCh[k])'
      <4>1. sendCh \in Seq(Frames)
        BY Zenon DEF IInv, TypeOK, TypeNet, TypeSend
      <4>2. \A k \in 1..Len(sendCh') : (k \in 1..Len(sendCh) /\ sendCh'[k] = sendCh[k]) \/ sendCh'[k] = f
        BY <3>6, <4>1
      <4> QED
        BY <3>3, <3>4, <3>6, <4>2, Zenon
    <3> QED
      BY <3>2, <3>5, <3>6, Zenon
  <2> QED
    BY <2>1, <2>2, Zenon DEF StrandInv
<1>2. CASE ~Ended /\ Ended'
  <2>1. WriterStays
    BY <1>2, WriterStep, Zenon DEF closeNetwork
  <2>2. state = connectionClosed /\ sendCh' = <<>>
    BY <1>2, <2>1, Zenon DEF WriterStays, At
  <2>3. state' = connectionClosed /\ \A k \in 1..Len(sendCh') : LeftBehind(sendCh[k])'
    BY <2>2, StateMonotone
  <2> QED
    BY <2>3, Zenon DEF StrandInv
<1>3. CASE ~Ended'
  BY <1>3, Zenon DEF StrandInv
<1> QED
  BY <1>1, <1>2, <1>3, Zenon
=============================================================================
