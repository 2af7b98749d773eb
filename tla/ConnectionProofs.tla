-------------------------- MODULE ConnectionProofs --------------------------
(***************************************************************************)
(* Proofs about Connection, last part: the refinement of                   *)
(* ConnectionLifecycle, step by step, and the theorems.  IInv holds in     *)
(* every reachable state, for any calls, any buffer size and any events,   *)
(* and the safety properties follow from it.  RInv adds what the           *)
(* refinement needs: FailInv and SocketInv say what those that stop the    *)
(* exchanges and close the socket know.  LInv adds the life of the         *)
(* exchanges and of the frames still to be sent.                           *)
(***************************************************************************)
EXTENDS ConnectionSteps, FiniteSetTheorems

(* Every step is a step of ConnectionLifecycle or a stutter *)

Refined == [Lifecycle!Next]_(Lifecycle!vars)

\* The calls that are open stay so, except those that leave their set.
CallsStay ==
  /\ OpenInbound' = OpenInbound \cap mexes'
  /\ OpenOutbound' = OpenOutbound \cap mexes'

\* A step that only lets one exchange go, or none, finishes a call or stutters.
LEMMA Finishes ==
  ASSUME CallsStay, NEW m, mexes' = mexes \/ mexes' = mexes \ {m},
         UNCHANGED <<state, stopped, pending, netClosed>>
  PROVE  Refined
<1> USE DEF Refined, Lifecycle!Next, Lifecycle!Finish, Lifecycle!vars
<1>1. OpenInbound \subseteq mexes \cap InCalls /\ OpenOutbound \subseteq mexes \cap OutCalls
  BY Zenon DEF OpenInbound, OpenOutbound
<1>2. CASE mexes' = mexes
  <2>1. OpenInbound' = OpenInbound /\ OpenOutbound' = OpenOutbound
    BY <1>1, <1>2, Zenon DEF CallsStay
  <2> QED
    BY <2>1, Zenon
<1>3. CASE mexes' = mexes \ {m}
  <2>1. OpenInbound' = OpenInbound \ {m} /\ OpenOutbound' = OpenOutbound \ {m}
    BY <1>1, <1>3, Zenon DEF CallsStay
  <2>2. CASE m \in OpenInbound
    <3>1. OpenOutbound' = OpenOutbound
      BY <1>1, <2>1, <2>2, CallsAssumption, Zenon
    <3> QED
      BY <2>1, <2>2, <3>1, Zenon
  <2>3. CASE m \in OpenOutbound
    <3>1. OpenInbound' = OpenInbound
      BY <1>1, <2>1, <2>3, CallsAssumption, Zenon
    <3> QED
      BY <2>1, <2>3, <3>1, Zenon
  <2>4. CASE m \notin OpenInbound /\ m \notin OpenOutbound
    <3>1. OpenInbound' = OpenInbound /\ OpenOutbound' = OpenOutbound
      BY <2>1, <2>4, Zenon
    <3> QED
      BY <3>1
  <2> QED
    BY <2>2, <2>3, <2>4, Zenon
<1> QED
  BY <1>2, <1>3, Zenon

\* A step that changes no call stutters.
LEMMA Stutters ==
  ASSUME UNCHANGED <<OpenInbound, OpenOutbound, state, stopped, pending, netClosed>>
  PROVE  Refined
BY Zenon DEF Refined, Lifecycle!vars

\* A step that moves the state, or sets stoppedExchanges, and changes no call.
LEMMA Closes ==
  ASSUME UNCHANGED <<OpenInbound, OpenOutbound, pending, netClosed>>,
         \/ /\ stopped' = stopped
            /\ \/ state' = state \/ Advances
               \/ state = connectionActive /\ state' = connectionStartClose
         \/ state' = state /\ state # connectionActive /\ stopped' = TRUE /\ stopped \in BOOLEAN
  PROVE  Refined
<1> USE DEF Refined, Lifecycle!Next, Lifecycle!vars, Lifecycle!Advance, Lifecycle!Fail, Lifecycle!Active,
  Lifecycle!StartClose, Lifecycle!InboundClosed, Lifecycle!Closed,
  connectionActive, connectionStartClose, connectionInboundClosed, connectionClosed
<1>1. CASE stopped' = stopped /\ state' = state
  BY <1>1, Zenon
<1>2. CASE stopped' = stopped /\ Advances
  BY <1>2, Zenon DEF Advances
<1>3. CASE stopped' = stopped /\ state = connectionActive /\ state' = connectionStartClose
  BY <1>3, Zenon
<1>4. CASE state' = state /\ state # connectionActive /\ stopped' = TRUE /\ stopped \in BOOLEAN
  <2>1. CASE stopped = TRUE
    BY <1>4, <2>1, Zenon
  <2>2. CASE stopped = FALSE
    BY <1>4, <2>2, Zenon
  <2> QED
    BY <1>4, <2>1, <2>2, Zenon
<1> QED
  BY <1>1, <1>2, <1>3, <1>4, Zenon

\* No step of a shared routine hides an open call either.
LEMMA StepStays ==
  ASSUME IInv, NEW g \in Goroutines, Step(g) PROVE CallsStay
<1> USE DEF IInv
<1>0. OpenInbound' \subseteq OpenInbound /\ OpenOutbound' \subseteq OpenOutbound
  BY OpenStep, OpenSubsets, Zenon
<1>1. PICK l \in StepTargets : pc' = [pc EXCEPT ![g] = l]
  BY StepMoves, Zenon DEF MovesTo
<1>2. l \notin {"idle", "recheck"}
  BY <1>1, StepLabelSets, Zenon DEF OwnLabels
<1>3. \A h \in Goroutines : ret'[h] = "rejected" => ret[h] = "rejected"
  <2>1. ASSUME checkExchanges(g) PROVE ret' = ret \/ ret' = [ret EXCEPT ![g] = "done"]
    BY <2>1, Zenon DEF checkExchanges, CheckRead, CheckStopped, CheckInbound, CheckOutbound, CheckCount,
      MoveInboundClosed, MoveClosed, Move, CheckDone, CheckReturn
  <2>2. ASSUME ErrorSteps(g)
        PROVE  ret' = ret \/ \E b \in {after[g], "errStop"} : ret' = [ret EXCEPT ![g] = b]
    BY <2>2, Zenon DEF ErrorSteps, connectionError, ErrorStop, ErrorStopOutbound, ErrorStopInbound, CloseThen, Call
  <2>3. ASSUME ExchangeSteps(g) PROVE ret' = ret \/ ret' = [ret EXCEPT ![g] = "done"]
    BY <2>3, Zenon DEF ExchangeSteps, Shutdown, RemoveExchange, ExpireExchange, Return
  <2>4. ret \in [Goroutines -> ReturnLabels] /\ after[g] # "rejected"
    BY Zenon DEF TypeOK, TypeRet, AfterLabels
  <2>5. ret' = ret \/ \E b \in {"done", after[g], "errStop"} : ret' = [ret EXCEPT ![g] = b]
    BY <2>1, <2>2, <2>3, Zenon DEF Step
  <2> QED
    BY <2>4, <2>5, Zenon
<1>4. \A h \in Goroutines : pc'[h] \in {"idle", "recheck"} => pc'[h] = pc[h]
  BY <1>1, <1>2, Zenon DEF TypeOK, TypePc
<1>5. OpenInbound \cap mexes' \subseteq OpenInbound'
  BY <1>4, Members, Zenon DEF OpenInbound, At
<1>6. OpenOutbound \cap mexes' \subseteq OpenOutbound'
  BY <1>3, <1>4, Members, Zenon DEF OpenOutbound, At
<1>7. OpenInbound' \subseteq mexes' /\ OpenOutbound' \subseteq mexes'
  BY Zenon DEF OpenInbound, OpenOutbound
<1> QED
  BY <1>0, <1>5, <1>6, <1>7, Zenon DEF CallsStay

\* The shared routines implement the lifecycle.
LEMMA StepRefines ==
  ASSUME RInv, NEW g \in Goroutines, Step(g) PROVE Refined
<1> USE DEF RInv, IInv
<1>1. CASE ExchangeSteps(g)
  <2>1. mexes' = mexes \/ mexes' = mexes \ {Mex(g)}
    BY <1>1, Zenon DEF ExchangeSteps, Shutdown, RemoveExchange, ExpireExchange
  <2>2. UNCHANGED <<state, stopped, pending, netClosed>>
    BY <1>1, ExchangeMoves, Zenon DEF connVars, netVars
  <2> QED
    BY <2>1, <2>2, StepStays, Finishes, Zenon
<1>2. ASSUME mexes' = mexes PROVE UNCHANGED <<OpenInbound, OpenOutbound>>
  BY <1>2, StepStays, Zenon DEF CallsStay, OpenInbound, OpenOutbound
<1>3. CASE checkExchanges(g)
  <2>1. UNCHANGED <<mexes, stopped, pending, netClosed>>
    BY <1>3, CheckMoves, Zenon DEF mexVars, netVars
  <2> QED
    BY <1>2, <1>3, <2>1, CheckAdvances, Closes, Zenon
<1>4. CASE ErrorSteps(g)
  <2>1. UNCHANGED <<mexes, pending, netClosed>>
    BY <1>4, ErrorMoves DEF netVars
  <2>2. \/ /\ stopped' = stopped
           /\ state' = state \/ (state = connectionActive /\ state' = connectionStartClose)
        \/ state' = state /\ state # connectionActive /\ stopped' = TRUE /\ stopped \in BOOLEAN
    BY <1>4, SMTT(60) DEF FailInv, StopLabels, TypeOK, TypeConn, ErrorSteps, connectionError, ErrorStop,
      ErrorStopOutbound, ErrorStopInbound, CloseThen, At, connVars
  <2> QED
    BY <1>2, <2>1, <2>2, Closes, Zenon
<1> QED
  BY <1>1, <1>3, <1>4, Zenon DEF Step

-----------------------------------------------------------------------------
(* The steps of the goroutines themselves *)

\* Goroutine g, which is running, moves on; only its own return label may change.
Moves(g) ==
  /\ pc[g] # "idle"
  /\ \E l : l # "idle" /\ pc' = [pc EXCEPT ![g] = l]
  /\ ret' = ret \/ \E r : ret' = [ret EXCEPT ![g] = r]

\* The calls neither join nor leave their sets.
CallsKept == \A m \in InCalls \cup OutCalls : m \in mexes' <=> m \in mexes

\* A goroutine other than a caller opens and hides no call by moving on.
LEMMA MoveOpen ==
  ASSUME TypeOK, NEW g \in Goroutines, Moves(g), CallsKept, \A o \in OutCalls : g # Caller(o)
  PROVE  UNCHANGED <<OpenInbound, OpenOutbound>>
<1>1. /\ \A h \in Goroutines : h # g => pc'[h] = pc[h] /\ ret'[h] = ret[h]
      /\ pc'[g] # "idle"
  BY Zenon DEF TypeOK, TypePc, TypeRet, Moves
<1>2. OpenInbound' = OpenInbound
  BY <1>1, Members, Zenon DEF Moves, CallsKept, OpenInbound, At
<1>3. OpenOutbound' = OpenOutbound
  BY <1>1, Members, Zenon DEF CallsKept, OpenOutbound, At
<1> QED
  BY <1>2, <1>3, Zenon

\* Moving on with no change of what the lifecycle speaks of.
Quiet(g) == Moves(g) /\ CallsKept /\ UNCHANGED <<state, stopped, pending, netClosed>>

\* Such a step stutters.
LEMMA QuietMove ==
  ASSUME TypeOK, NEW g \in Goroutines, Quiet(g), \A o \in OutCalls : g # Caller(o)
  PROVE  Refined
BY MoveOpen, Stutters, Zenon DEF Quiet

\* A step that admits a call adds it to one of the two sets.
LEMMA Admits ==
  ASSUME state = connectionActive, UNCHANGED <<state, stopped, pending, netClosed>>,
         NEW m,
         \/ OpenInbound' = OpenInbound \cup {m} /\ m \in InCalls \ OpenInbound /\ OpenOutbound' = OpenOutbound
         \/ OpenOutbound' = OpenOutbound \cup {m} /\ m \in OutCalls \ OpenOutbound /\ OpenInbound' = OpenInbound
  PROVE  Refined
BY Zenon DEF Refined, Lifecycle!Next, Lifecycle!Admit, Lifecycle!Active, connectionActive

\* RecheckInbound admits the call readFrames has registered, if it is still there.
LEMMA InboundRefines ==
  ASSUME RInv, RecheckInbound, state = connectionActive PROVE Refined
<1>1. /\ UNCHANGED <<state, stopped, pending, netClosed>> /\ mexes' = mexes /\ ret' = ret
      /\ pc' = [pc EXCEPT ![Reader] = "read", ![Handler(rcall)] = "start"]
  BY Zenon DEF RecheckInbound, mexVars, connVars, netVars
<1>2. rcall \in InCalls /\ pc[Handler(rcall)] = "idle"
  BY Zenon DEF RInv, IInv, TypeOK, TypeNet, RecheckInbound, DispatchInv, At
<1>3. pc \in [Goroutines -> Labels]
  BY Zenon DEF RInv, IInv, TypeOK, TypePc
<1>4. /\ pc'[Handler(rcall)] = "start"
      /\ \A i \in InCalls : i # rcall => pc'[Handler(i)] = pc[Handler(i)]
      /\ \A o \in OutCalls : pc'[Caller(o)] = pc[Caller(o)]
  BY <1>1, <1>2, <1>3, HandlersAlone, CallersAlone, Zenon
<1>5. OpenOutbound' = OpenOutbound
  BY <1>1, <1>4, Zenon DEF OpenOutbound, At
<1>6. mexes' = mexes
  BY <1>1
<1>7. CASE rcall \in mexes
  <2>1. OpenInbound' = OpenInbound \cup {rcall} /\ rcall \notin OpenInbound
    <3>1. \A i \in InCalls : i \in mexes' /\ pc'[Handler(i)] # "idle"
                               <=> (i \in mexes /\ pc[Handler(i)] # "idle") \/ i = rcall
      BY <1>2, <1>4, <1>7, <1>6, Zenon
    <3> QED
      BY <1>2, <3>1, Zenon DEF OpenInbound, At
  <2> QED
    BY <1>1, <1>2, <1>5, <2>1, Admits, Zenon
<1>8. CASE rcall \notin mexes
  <2>1. OpenInbound' = OpenInbound
    <3>1. \A i \in InCalls : i \in mexes' /\ pc'[Handler(i)] # "idle"
                               <=> i \in mexes /\ pc[Handler(i)] # "idle"
      BY <1>2, <1>4, <1>8, <1>6, Zenon
    <3> QED
      BY <3>1, Zenon DEF OpenInbound, At
  <2> QED
    BY <1>1, <1>5, <2>1, Stutters, Zenon
<1> QED
  BY <1>7, <1>8

\* The call readFrames registers is not open yet.
LEMMA AddRefines ==
  ASSUME RInv, AddInbound PROVE Refined
<1>1. /\ UNCHANGED <<state, stopped, pending, netClosed>> /\ ret' = ret
      /\ mexes' = mexes \/ mexes' = mexes \cup {rcall}
      /\ \E l : pc' = [pc EXCEPT ![Reader] = l]
  BY Zenon DEF AddInbound, Goto, connVars, netVars
<1>2. rcall \in InCalls /\ pc[Handler(rcall)] = "idle"
  BY Zenon DEF RInv, IInv, TypeOK, TypeNet, AddInbound, DispatchInv, At
<1>3. pc \in [Goroutines -> Labels]
  BY Zenon DEF RInv, IInv, TypeOK, TypePc
<1>4. /\ \A i \in InCalls : pc'[Handler(i)] = pc[Handler(i)]
      /\ \A o \in OutCalls : pc'[Caller(o)] = pc[Caller(o)]
  BY <1>1, <1>3, Members, ReaderAlone
<1>5. rcall \notin OutCalls
  BY <1>2, CallsAssumption
<1>6. OpenInbound' = OpenInbound
  BY <1>1, <1>2, <1>4, Zenon DEF OpenInbound, At
<1>7. OpenOutbound' = OpenOutbound
  BY <1>1, <1>4, <1>5, Zenon DEF OpenOutbound, At
<1> QED
  BY <1>1, <1>6, <1>7, Stutters, Zenon

\* readFrames implements the lifecycle: a protocol error closes the connection and
\* stops its exchanges; all else, but the admission of a call, stutters.
LEMMA ReaderRefines ==
  ASSUME RInv, readFrames \/ ReaderSteps PROVE Refined
<1>0. TypeOK /\ Reader \in Goroutines /\ \A o \in OutCalls : Reader # Caller(o)
  BY ReaderAlone, Zenon DEF RInv, IInv
<1> USE DEF Quiet, Moves, CallsKept, Call, Goto, Fail, At
<1>1. ASSUME NEW i \in InCalls, ReadCallReq(i) \/ ReadDuplicate(i) PROVE Quiet(Reader)
  BY <1>1 DEF ReadCallReq, ReadDuplicate, mexVars, connVars, netVars
<1>2. ASSUME NEW m \in Outbound, ReadResponse(m) PROVE Refined
  <2>1. UNCHANGED <<OpenInbound, OpenOutbound>>
    BY <1>2, Zenon DEF ReadResponse, OpenInbound, OpenOutbound
  <2> QED
    BY <1>2, <2>1, Stutters, Zenon DEF ReadResponse, connVars, netVars
<1>3. ASSUME HandlePingReq \/ HandleErrorFrame \/ ReadError PROVE Quiet(Reader)
  BY <1>3, Zenon DEF HandlePingReq, HandleErrorFrame, ReadError, sendMessage, mexVars, connVars, netVars
<1>4. ASSUME RejectCallReq \/ protocolError PROVE Quiet(Reader)
  BY <1>4 DEF RejectCallReq, protocolError, mexVars, connVars
<1>5. ASSUME ProtocolStopOutbound \/ ProtocolStopInbound PROVE Quiet(Reader)
  BY <1>5 DEF ProtocolStopOutbound, ProtocolStopInbound, stopExchanges, connVars, netVars
<1>6. ASSUME RecheckInbound, state # connectionActive PROVE Quiet(Reader)
  BY <1>6 DEF RecheckInbound, mexVars, connVars, netVars
<1>7. ASSUME ProtocolClose PROVE Refined
  <2>1. /\ Moves(Reader) /\ CallsKept /\ UNCHANGED <<stopped, pending, netClosed>>
        /\ state' = state \/ (state = connectionActive /\ state' = connectionStartClose)
    BY <1>7 DEF ProtocolClose, CloseThen, mexVars, netVars
  <2> QED
    BY <1>0, <2>1, MoveOpen, Closes, Zenon
<1>8. ASSUME ProtocolStop PROVE Refined
  <2>1. /\ Moves(Reader) /\ CallsKept /\ UNCHANGED <<state, pending, netClosed>> /\ stopped' = TRUE
    BY <1>8, Zenon DEF ProtocolStop, mexVars, netVars
  <2>2. state # connectionActive /\ stopped \in BOOLEAN
    BY <1>0, <1>8, Zenon DEF RInv, ProtocolStop, FailInv, StopLabels, TypeOK, TypeConn
  <2> QED
    BY <1>0, <2>1, <2>2, MoveOpen, Closes, Zenon
<1> HIDE DEF Quiet, Moves, CallsKept, Call, Goto, Fail, At
<1>9. ASSUME Quiet(Reader) PROVE Refined
  BY <1>0, <1>9, QuietMove, Zenon
<1> QED
  BY <1>1, <1>2, <1>3, <1>4, <1>5, <1>6, <1>7, <1>8, <1>9, AddRefines, InboundRefines, Zenon
  DEF readFrames, ReaderSteps, ProtocolSteps

\* Handlers and watchers are past the admission of their call: no step of theirs
\* changes what the lifecycle speaks of.
LEMMA HandlerRefines ==
  ASSUME RInv, NEW i \in InCalls, HandlerChoice(i) \/ HandlerSteps(i) \/ Watch(i)
  PROVE  Refined
<1>0. /\ TypeOK /\ Handler(i) \in Goroutines /\ Watcher(i) \in Goroutines
      /\ \A o \in OutCalls : Handler(i) # Caller(o) /\ Watcher(i) # Caller(o)
  BY Members, CallersAlone, Zenon DEF RInv, IInv
<1>1. CASE ReadMethod(i)
  <2>1. /\ UNCHANGED <<mexes, state, stopped, pending, netClosed>> /\ pc[Handler(i)] = "start"
        /\ \/ ret' = ret /\ pc' = [pc EXCEPT ![Handler(i)] = "handle", ![Watcher(i)] = "watch"]
           \/ Moves(Handler(i))
    BY <1>1, Zenon DEF ReadMethod, Moves, Call, Goto, At, mexVars, connVars, netVars
  <2>2. CASE Moves(Handler(i))
    BY <1>0, <2>1, <2>2, QuietMove, Zenon DEF Quiet, CallsKept
  <2>3. CASE ret' = ret /\ pc' = [pc EXCEPT ![Handler(i)] = "handle", ![Watcher(i)] = "watch"]
    <3>1. pc \in [Goroutines -> Labels]
      BY <1>0, Zenon DEF TypeOK, TypePc
    <3>2. /\ \A j \in InCalls : pc'[Handler(j)] = "idle" <=> pc[Handler(j)] = "idle"
          /\ \A o \in OutCalls : pc'[Caller(o)] = pc[Caller(o)]
      BY <2>1, <2>3, <3>1, HandlersAlone, CallersAlone
    <3>3. OpenInbound' = OpenInbound
      BY <2>1, <3>2, Zenon DEF OpenInbound, At
    <3>4. OpenOutbound' = OpenOutbound
      BY <2>1, <2>3, <3>2, Zenon DEF OpenOutbound, At
    <3> QED
      BY <2>1, <3>3, <3>4, Stutters, Zenon
  <2> QED
    BY <2>1, <2>2, <2>3, Zenon
<1> USE DEF Quiet, Moves, CallsKept, Call, Goto, At
<1>2. ASSUME HandlerChoice(i) PROVE Quiet(Handler(i))
  BY <1>2, Zenon DEF HandlerChoice, Respond, RespondSystemError, Blackhole, mexVars, connVars, netVars
<1>3. ASSUME FlushResponse(i) \/ SendResponseError(i) PROVE Quiet(Handler(i))
  BY <1>3, Zenon DEF FlushResponse, Flush, SendResponseError, mexVars, connVars
<1>4. ASSUME DoneSending(i) \/ CancelResponse(i) PROVE Quiet(Handler(i))
  BY <1>4, Zenon DEF DoneSending, CancelResponse, connVars, netVars
<1>5. ASSUME Watch(i) PROVE Quiet(Watcher(i))
  BY <1>5, Zenon DEF Watch, connVars, netVars
<1> HIDE DEF Quiet, Moves, CallsKept, Call, Goto, At
<1> QED
  BY <1>0, <1>1, <1>2, <1>3, <1>4, <1>5, QuietMove, Zenon DEF HandlerSteps

\* Caller(o) moves on, past the admission of its call or before it.
CallerMoves(o) ==
  /\ pc[Caller(o)] \in {"begin", "checkError", "flush", "wait"}
  /\ \E l \in {"add", "flush", "shutdown", "wait", "done"} : pc' = [pc EXCEPT ![Caller(o)] = l]
  /\ ret' = ret \/ ret' = [ret EXCEPT ![Caller(o)] = "done"]
  /\ UNCHANGED <<mexes, state, stopped, pending, netClosed>>

\* Such a step opens and hides no call.
LEMMA CallerQuiet ==
  ASSUME RInv, NEW o \in OutCalls, CallerMoves(o) PROVE Refined
<1>0. pc[Caller(o)] # "recheck" /\ ret[Caller(o)] # "rejected"
  BY Zenon DEF RInv, IInv, CallerInv, CallerMoves
<1>1. pc \in [Goroutines -> Labels] /\ ret \in [Goroutines -> ReturnLabels]
  BY Zenon DEF RInv, IInv, TypeOK, TypePc, TypeRet
<1>2. PICK l \in {"add", "flush", "shutdown", "wait", "done"} : pc' = [pc EXCEPT ![Caller(o)] = l]
  BY Zenon DEF CallerMoves
<1>3. \A i \in InCalls : pc'[Handler(i)] = pc[Handler(i)]
  BY <1>1, <1>2, HandlersAlone
<1>4. \A p \in OutCalls : p # o => pc'[Caller(p)] = pc[Caller(p)] /\ ret'[Caller(p)] = ret[Caller(p)]
  BY <1>1, <1>2, CallersAlone DEF CallerMoves
<1>5. pc'[Caller(o)] # "recheck" /\ ret'[Caller(o)] # "rejected"
  BY <1>0, <1>1, <1>2, CallersAlone DEF CallerMoves
<1>6. OpenInbound' = OpenInbound
  BY <1>3, Zenon DEF CallerMoves, OpenInbound, At
<1>7. OpenOutbound' = OpenOutbound
  <2>1. \A p \in OutCalls : /\ pc'[Caller(p)] # "recheck" /\ ret'[Caller(p)] # "rejected"
                              <=> pc[Caller(p)] # "recheck" /\ ret[Caller(p)] # "rejected"
    BY <1>0, <1>4, <1>5, Zenon
  <2> QED
    BY <2>1, Zenon DEF CallerMoves, OpenOutbound, At
<1> QED
  BY <1>6, <1>7, Stutters, Zenon DEF CallerMoves

\* AddOutbound registers a call that is not open yet.
LEMMA AddOutboundRefines ==
  ASSUME RInv, NEW o \in OutCalls, AddOutbound(o) PROVE Refined
<1>1. /\ UNCHANGED <<state, stopped, pending, netClosed>> /\ ret' = ret /\ pc[Caller(o)] = "add"
      /\ \/ mexes' = mexes /\ pc' = [pc EXCEPT ![Caller(o)] = "done"]
         \/ mexes' = mexes \cup {o} /\ pc' = [pc EXCEPT ![Caller(o)] = "recheck"]
  BY Zenon DEF AddOutbound, Goto, At, connVars, netVars
<1>2. o \notin mexes /\ o \notin InCalls
  BY <1>1, CallsAssumption, Zenon DEF RInv, IInv, CallerInv
<1>3. pc \in [Goroutines -> Labels]
  BY Zenon DEF RInv, IInv, TypeOK, TypePc
<1>4. \A i \in InCalls : pc'[Handler(i)] = pc[Handler(i)]
  BY <1>1, <1>3, HandlersAlone, Zenon
<1>5. \A p \in OutCalls : p # o => pc'[Caller(p)] = pc[Caller(p)]
  BY <1>1, <1>3, CallersAlone, Zenon
<1>6. o \in mexes' => pc'[Caller(o)] = "recheck"
  BY <1>1, <1>2, <1>3, CallersAlone, Zenon
<1>7. mexes' = mexes \/ mexes' = mexes \cup {o}
  BY <1>1, Zenon
<1>8. OpenInbound' = OpenInbound
  BY <1>2, <1>4, <1>7, Zenon DEF OpenInbound, At
<1>9. OpenOutbound' = OpenOutbound
  <2>1. \A p \in OutCalls :
          p \in mexes' /\ pc'[Caller(p)] # "recheck" <=> p \in mexes /\ pc[Caller(p)] # "recheck"
    BY <1>2, <1>5, <1>6, <1>7, Zenon
  <2> QED
    BY <1>1, <2>1, Zenon DEF OpenOutbound, At
<1> QED
  BY <1>1, <1>8, <1>9, Stutters, Zenon

\* RecheckOutbound admits the call, or rejects it.
LEMMA OutboundRefines ==
  ASSUME RInv, NEW o \in OutCalls, RecheckOutbound(o) PROVE Refined
<1>1. /\ UNCHANGED <<state, stopped, pending, netClosed>> /\ mexes' = mexes /\ pc[Caller(o)] = "recheck"
      /\ \/ /\ state = connectionActive
            /\ pc' = [pc EXCEPT ![Caller(o)] = "checkError"] /\ ret' = ret
         \/ /\ pc' = [pc EXCEPT ![Caller(o)] = "shutdown"]
            /\ ret' = [ret EXCEPT ![Caller(o)] = "rejected"]
  BY Zenon DEF RecheckOutbound, Call, Goto, At, mexVars, connVars, netVars
<1>2. pc \in [Goroutines -> Labels] /\ ret \in [Goroutines -> ReturnLabels]
  BY Zenon DEF RInv, IInv, TypeOK, TypePc, TypeRet
<1>3. \A i \in InCalls : pc'[Handler(i)] = pc[Handler(i)]
  BY <1>1, <1>2, HandlersAlone, Zenon
<1>4. \A p \in OutCalls : p # o => pc'[Caller(p)] = pc[Caller(p)] /\ ret'[Caller(p)] = ret[Caller(p)]
  BY <1>1, <1>2, CallersAlone, Zenon
<1>5. mexes' = mexes
  BY <1>1, Zenon
<1>6. OpenInbound' = OpenInbound
  BY <1>3, <1>5, Zenon DEF OpenInbound, At
<1>7. CASE /\ state = connectionActive
           /\ pc' = [pc EXCEPT ![Caller(o)] = "checkError"] /\ ret' = ret
  <2>1. pc'[Caller(o)] # "recheck" /\ ret'[Caller(o)] # "rejected"
    BY <1>1, <1>2, <1>7, CallersAlone, Zenon DEF RInv, IInv, CallerInv
  <2>2. \A p \in OutCalls :
          pc'[Caller(p)] # "recheck" /\ ret'[Caller(p)] # "rejected"
            <=> (pc[Caller(p)] # "recheck" /\ ret[Caller(p)] # "rejected") \/ p = o
    BY <1>4, <2>1, Zenon
  <2>3. CASE o \in mexes
    <3>1. OpenOutbound' = OpenOutbound \cup {o}
      BY <1>5, <2>2, <2>3, Zenon DEF OpenOutbound, At
    <3>2. o \notin OpenOutbound
      BY <1>1, Zenon DEF OpenOutbound, At
    <3> QED
      BY <1>1, <1>6, <1>7, <3>1, <3>2, Admits, Zenon
  <2>4. CASE o \notin mexes
    <3>1. OpenOutbound' = OpenOutbound
      BY <1>5, <2>2, <2>4, Zenon DEF OpenOutbound, At
    <3> QED
      BY <1>1, <1>6, <3>1, Stutters, Zenon
  <2> QED
    BY <2>3, <2>4, Zenon
<1>8. CASE /\ pc' = [pc EXCEPT ![Caller(o)] = "shutdown"]
           /\ ret' = [ret EXCEPT ![Caller(o)] = "rejected"]
  <2>1. ret'[Caller(o)] = "rejected"
    BY <1>2, <1>8, CallersAlone, Zenon
  <2>2. OpenOutbound' = OpenOutbound
    BY <1>1, <1>4, <1>5, <2>1, Zenon DEF OpenOutbound, At
  <2> QED
    BY <1>1, <1>6, <2>2, Stutters, Zenon
<1> QED
  BY <1>1, <1>7, <1>8, Zenon

\* The other steps of a caller change nothing that is open.
LEMMA CallerRefines ==
  ASSUME RInv, NEW o \in OutCalls, BeginCall(o) \/ BadResponse(o) \/ CallerSteps(o)
  PROVE  Refined
<1>1. ASSUME BeginCall(o) \/ BadResponse(o) PROVE CallerMoves(o)
  BY <1>1, Zenon DEF BeginCall, BadResponse, CallerMoves, Goto, At, mexVars, connVars, netVars
<1>2. ASSUME WriteRequest(o) \/ AwaitResponse(o) PROVE CallerMoves(o)
  BY <1>2, Zenon DEF WriteRequest, AwaitResponse, CallerMoves, Call, Goto, At, mexVars, connVars, netVars
<1>3. ASSUME FlushRequest(o) PROVE CallerMoves(o)
  BY <1>3, Zenon DEF FlushRequest, Flush, CallerMoves, Call, Goto, At, mexVars, connVars
<1> QED
  BY <1>1, <1>2, <1>3, CallerQuiet, AddOutboundRefines, OutboundRefines, Zenon DEF CallerSteps

\* writeFrames closes the socket once; pings are no calls; Close starts the close.
LEMMA OthersRefine ==
  ASSUME RInv,
         \/ writeFrames \/ WriteError
         \/ \E p \in Pings : PingAdd(p) \/ PingerSteps(p)
         \/ \E c \in Closers : Close(c)
         \/ \E m \in Exchanges : Timeout(m)
         \/ UNCHANGED vars
  PROVE  Refined
<1>0. /\ TypeOK /\ Writer \in Goroutines
      /\ \A o \in OutCalls : Writer # Caller(o)
      /\ \A p \in Pings, o \in OutCalls : Pinger(p) # Caller(o)
      /\ \A c \in Closers, o \in OutCalls : Closer(c) # Caller(o)
      /\ \A p \in Pings : Pinger(p) \in Goroutines
      /\ \A c \in Closers : Closer(c) \in Goroutines
  BY Members, CallersAlone, Zenon DEF RInv, IInv
<1>1. ASSUME WriterStop \/ WriteError PROVE Quiet(Writer)
  BY <1>1, Zenon
  DEF Quiet, Moves, CallsKept, Goto, At, WriterStop, WriteError, Fail, mexVars, connVars, netVars
<1>2. CASE WriteFrame \/ (\E m \in Exchanges : Timeout(m)) \/ UNCHANGED vars
  <2>1. UNCHANGED <<state, stopped, pending, netClosed, mexes, pc, ret>>
    BY <1>2, Zenon DEF WriteFrame, Timeout, vars, mexVars, connVars, netVars
  <2> QED
    BY <2>1, Stutters, Zenon DEF OpenInbound, OpenOutbound, At
<1>3. CASE closeNetwork
  <2>1. Moves(Writer) /\ CallsKept /\ UNCHANGED <<state, stopped, pending>>
    BY <1>3, Zenon DEF Moves, CallsKept, Goto, At, closeNetwork, mexVars, connVars
  <2>2. state = connectionClosed /\ ~netClosed /\ netClosed' = TRUE
    BY <1>3, Members, Zenon DEF RInv, closeNetwork, SocketInv, At
  <2>3. UNCHANGED <<OpenInbound, OpenOutbound>>
    BY <1>0, <2>1, MoveOpen, Zenon
  <2> QED
    BY <2>1, <2>2, <2>3, Zenon
    DEF Refined, Lifecycle!Next, Lifecycle!CloseSocket, Lifecycle!Closed, connectionClosed
<1>4. ASSUME NEW p \in Pings, PingAdd(p) PROVE Quiet(Pinger(p))
  <2>1. mexes' = mexes \/ mexes' = mexes \cup {p}
    BY <1>4, Zenon DEF PingAdd
  <2>2. CallsKept
    BY <2>1, CallsAssumption, Zenon DEF CallsKept
  <2> QED
    BY <1>4, <2>2, Zenon DEF Quiet, Moves, Goto, At, PingAdd, Fail, connVars, netVars
<1>5. ASSUME NEW p \in Pings, PingerSteps(p) PROVE Quiet(Pinger(p))
  BY <1>5, Zenon DEF Quiet, Moves, CallsKept, Call, Goto, At, PingerSteps, PingSend, PingDone, sendMessage, Fail,
    mexVars, connVars, netVars
<1>6. ASSUME NEW c \in Closers, Close(c) PROVE Refined
  <2>1. /\ Moves(Closer(c)) /\ CallsKept /\ UNCHANGED <<stopped, pending, netClosed>>
        /\ state' = state \/ (state = connectionActive /\ state' = connectionStartClose)
    BY <1>6, Zenon DEF Moves, CallsKept, Call, Goto, At, Close, CloseThen, mexVars, netVars
  <2>2. UNCHANGED <<OpenInbound, OpenOutbound>>
    BY <1>0, <2>1, MoveOpen, Zenon
  <2> QED
    BY <2>1, <2>2, Closes, Zenon
<1> QED
  BY <1>0, <1>1, <1>2, <1>3, <1>4, <1>5, <1>6, QuietMove, Zenon DEF writeFrames

\* The relayer admits a call, counting it, while the state is Active, and
\* finishes one that was counted.
LEMMA RelayRefines ==
  ASSUME RInv, NEW r \in RelayCalls, RelayCall(r) \/ decrementPending(r),
         pc[Relay(r)] = "relaying" => pending > 0
  PROVE  Refined
<1>1. Moves(Relay(r)) /\ CallsKept /\ UNCHANGED <<state, stopped, netClosed>>
  BY Zenon DEF RelayCall, decrementPending, Moves, CallsKept, Call, Goto, At, mexVars, connVars, netVars
<1>2. UNCHANGED <<OpenInbound, OpenOutbound>>
  <2>1. TypeOK /\ Relay(r) \in Goroutines /\ \A o \in OutCalls : Relay(r) # Caller(o)
    BY Members, CallersAlone, Zenon DEF RInv, IInv
  <2> QED
    BY <1>1, <2>1, MoveOpen, Zenon
<1>3. CASE RelayCall(r) /\ state = connectionActive
  BY <1>1, <1>2, <1>3, Zenon
  DEF RelayCall, Refined, Lifecycle!Next, Lifecycle!Admit, Lifecycle!Active, connectionActive
<1>4. CASE RelayCall(r) /\ state # connectionActive
  BY <1>1, <1>2, <1>4, Stutters, Zenon DEF RelayCall
<1>5. CASE decrementPending(r)
  <2>1. pending > 0 /\ pending' = pending - 1
    BY <1>5, Zenon DEF decrementPending, At
  <2> QED
    BY <1>1, <1>2, <2>1, Zenon DEF Refined, Lifecycle!Next, Lifecycle!Finish
<1> QED
  BY <1>3, <1>4, <1>5, Zenon

-----------------------------------------------------------------------------
(* FailInv *)

\* FailInv is kept by a step that reaches StopLabels only past close.
StopsLate ==
  /\ \A h \in Goroutines :
       pc'[h] \in StopLabels => pc[h] \in StopLabels \/ ret[h] \in StopLabels \/ state # connectionActive
  /\ \A h \in Goroutines :
       ret'[h] \in StopLabels => ret[h] \in StopLabels \/ state' # connectionActive

\* Only close, which leaves Active, and a return from checkExchanges lead there.
LEMMA StopsLateStep ==
  ASSUME TypeOK, CurInv, DispatchInv, [Next]_vars PROVE StopsLate
<1> USE Members
<1> USE DEF StopsLate, StopLabels, TypeOK, TypePc, TypeRet, Call, Goto, At, connectionActive, connectionStartClose
<1>1. ASSUME NEW g \in Goroutines, checkExchanges(g) PROVE StopsLate
  <2>1. CASE CheckRead(g) \/ CheckInbound(g) \/ CheckOutbound(g) \/ CheckDone(g)
    BY <2>1, SMTT(60) DEF CheckRead, CheckInbound, CheckOutbound, CheckCount, CheckDone, CheckReturn
  <2>2. CASE CheckStopped(g)
    BY <2>2, CheckMoves, <1>1, SMTT(60) DEF CheckStopped, MovesTo, NextCheck, moveState, CurInv, CurAt,
      connectionInboundClosed, connectionClosed
  <2>3. CASE MoveInboundClosed(g) \/ MoveClosed(g)
    BY <2>3, Zenon DEF MoveInboundClosed, MoveClosed, Move, CheckReturn
  <2> QED
    BY <1>1, <2>1, <2>2, <2>3, Zenon DEF checkExchanges
<1>2. ASSUME NEW g \in Goroutines, ErrorSteps(g) PROVE StopsLate
  BY <1>2, SMTT(60) DEF ErrorSteps, connectionError, ErrorStop, ErrorStopOutbound, ErrorStopInbound, CloseThen,
    AfterLabels
<1>3. ASSUME NEW g \in Goroutines, ExchangeSteps(g) PROVE StopsLate
  BY <1>3, SMTT(60) DEF ExchangeSteps, Shutdown, RemoveExchange, ExpireExchange, Return
<1>4. ASSUME NEW i \in InCalls, ReadCallReq(i) \/ ReadDuplicate(i) PROVE StopsLate
  BY <1>4, Zenon DEF ReadCallReq, ReadDuplicate
<1>5. ASSUME NEW m \in Outbound, ReadResponse(m) PROVE StopsLate
  BY <1>5, Zenon DEF ReadResponse
<1>6. CASE HandlePingReq \/ HandleErrorFrame \/ ReadError
  BY <1>6, Zenon DEF HandlePingReq, HandleErrorFrame, ReadError, sendMessage, Fail
<1>7. CASE RejectCallReq \/ AddInbound
  BY <1>7, Zenon DEF RejectCallReq, AddInbound
<1>8. CASE RecheckInbound
  BY <1>8, HandlersAlone, Zenon DEF RecheckInbound, DispatchInv
<1>9. CASE ProtocolSteps
  BY <1>9, SMTT(60) DEF ProtocolSteps, protocolError, ProtocolClose, ProtocolStop, ProtocolStopOutbound,
    ProtocolStopInbound, CloseThen
<1>10. CASE writeFrames \/ WriteError
  BY <1>10, Zenon DEF writeFrames, WriteFrame, WriterStop, closeNetwork, WriteError, Fail
<1>11. ASSUME NEW i \in InCalls, HandlerChoice(i) \/ Watch(i) PROVE StopsLate
  BY <1>11, Zenon DEF HandlerChoice, Respond, RespondSystemError, Blackhole, Watch
<1>12. ASSUME NEW i \in InCalls, HandlerSteps(i) PROVE StopsLate
  <2>1. CASE ReadMethod(i)
    BY <2>1, Zenon DEF ReadMethod
  <2>2. CASE FlushResponse(i) \/ DoneSending(i) \/ CancelResponse(i) \/ SendResponseError(i)
    BY <2>2, Zenon DEF FlushResponse, Flush, DoneSending, CancelResponse, SendResponseError
  <2> QED
    BY <1>12, <2>1, <2>2, Zenon DEF HandlerSteps
<1>13. ASSUME NEW o \in OutCalls, BeginCall(o) \/ BadResponse(o) \/ CallerSteps(o) PROVE StopsLate
  BY <1>13, Zenon DEF BeginCall, BadResponse, CallerSteps, AddOutbound, RecheckOutbound, WriteRequest,
    FlushRequest, Flush, AwaitResponse
<1>14. ASSUME NEW p \in Pings, PingAdd(p) \/ PingerSteps(p) PROVE StopsLate
  BY <1>14, Zenon DEF PingAdd, PingerSteps, PingSend, PingDone, sendMessage, Fail
<1>15. ASSUME NEW r \in RelayCalls, RelayCall(r) \/ decrementPending(r) PROVE StopsLate
  BY <1>15, Zenon DEF RelayCall, decrementPending
<1>16. ASSUME NEW c \in Closers, Close(c) PROVE StopsLate
  BY <1>16, Zenon DEF Close, CloseThen
<1>17. CASE (\E m \in Exchanges : Timeout(m)) \/ UNCHANGED vars
  BY <1>17, Zenon DEF Timeout, vars
<1> HIDE Members
<1> HIDE DEF StopsLate, StopLabels, TypeOK, TypePc, TypeRet, Call, Goto, At, connectionActive, connectionStartClose
<1> QED
  BY <1>1, <1>2, <1>3, <1>4, <1>5, <1>6, <1>7, <1>8, <1>9, <1>10, <1>11, <1>12, <1>13, <1>14, <1>15,
     <1>16, <1>17, Zenon
  DEF Next, Environment, Program, Step, readFrames, ReaderSteps

-----------------------------------------------------------------------------
(* The relayer's count, and the theorems *)

\* The relayer counts a call in, and counts it out.
LEMMA RelayKept ==
  ASSUME TypeOK, CurInv, WinnerInv, PendingInv,
         NEW r \in RelayCalls, RelayCall(r) \/ decrementPending(r)
  PROVE  CurInv' /\ WinnerInv' /\ PendingInv'
<1> USE Members
<1> USE DEF connectionActive, connectionStartClose, connectionInboundClosed, connectionClosed
<1>1. CurInv' /\ WinnerInv'
  BY DEF TypeOK, TypePc, TypeRet, TypeCur, CurInv, CurAt, WinnerInv, RelayCall, decrementPending, Call, Goto, At, connVars, locals
<1>2. IsFiniteSet(Relaying)
  BY RelayAssumption, FS_Subset, Zenon DEF Relaying
<1>3. ASSUME NEW h \in Goroutines
      PROVE  pc'[h] \in {"ce_inMove", "ce_in"} => pc'[h] = pc[h]
  BY <1>3, Zenon DEF TypeOK, TypePc, TypeRet, TypeCur, RelayCall, decrementPending, Call, Goto
<1>4. CASE RelayCall(r) /\ state = connectionActive
  <2>1. Relaying' = Relaying \cup {r} /\ r \notin Relaying
    BY <1>4, Distinct DEF TypeOK, TypePc, TypeRet, TypeCur, RelayCall, Relaying, Goto, At
  <2>2. pending' = Cardinality(Relaying')
    BY <1>2, <1>4, <2>1, FS_AddElement, ZenonT(60) DEF PendingInv, RelayCall
  <2>3. \A g \in Goroutines : ~At(g, "ce_inMove")' /\ cur'[g] # connectionInboundClosed
    BY <1>3, <1>4 DEF RelayCall, CurInv, CurAt, At, locals
  <2> QED
    BY <1>1, <1>4, <2>2, <2>3, SMTT(60) DEF PendingInv, RelayCall, connVars
<1>5. CASE RelayCall(r) /\ state # connectionActive
  <2>1. Relaying' = Relaying
    BY <1>5, Distinct, Zenon DEF TypeOK, TypePc, TypeRet, TypeCur, RelayCall, Relaying, Goto, At
  <2> QED
    BY <1>1, <1>3, <1>5, <2>1, Zenon DEF PendingInv, RelayCall, At, connVars, locals
<1>6. CASE decrementPending(r)
  <2>1. Relaying' = Relaying \ {r} /\ r \in Relaying
    BY <1>6, Distinct, Zenon DEF TypeOK, TypePc, TypeRet, TypeCur, decrementPending, Relaying, Call, Goto, At
  <2>2. pending' = Cardinality(Relaying') /\ pending # 0
    BY <1>2, <1>6, <2>1, FS_RemoveElement, FS_EmptySet, Zenon DEF PendingInv, decrementPending
  <2> QED
    BY <1>1, <1>3, <1>6, <2>2, Zenon DEF PendingInv, decrementPending, At, connVars, locals
<1> QED
  BY <1>4, <1>5, <1>6, Zenon

\* Every step preserves the invariants of checkExchanges.
LEMMA CheckStep ==
  ASSUME TypeOK, DispatchInv, CurInv, WinnerInv, PendingInv, [Next]_vars
  PROVE  CurInv' /\ WinnerInv' /\ PendingInv'
<1>1. ASSUME NEW g \in Goroutines, Step(g) PROVE CurInv' /\ WinnerInv' /\ PendingInv'
  BY <1>1, CheckKept, PlainError, PlainKept, Zenon DEF Step
<1>2. CASE readFrames \/ ReaderSteps
  BY <1>2, PlainReader, PlainKept, Zenon
<1>3. ASSUME NEW i \in InCalls, HandlerChoice(i) \/ HandlerSteps(i) \/ Watch(i)
      PROVE  CurInv' /\ WinnerInv' /\ PendingInv'
  BY <1>3, PlainHandler, PlainKept, Zenon
<1>4. ASSUME NEW o \in OutCalls, BeginCall(o) \/ BadResponse(o) \/ CallerSteps(o)
      PROVE  CurInv' /\ WinnerInv' /\ PendingInv'
  BY <1>4, PlainCaller, PlainKept, Zenon
<1>5. ASSUME NEW r \in RelayCalls, RelayCall(r) \/ decrementPending(r)
      PROVE  CurInv' /\ WinnerInv' /\ PendingInv'
  BY <1>5, RelayKept, Zenon
<1>6. CASE \/ writeFrames \/ WriteError
           \/ \E p \in Pings : PingAdd(p) \/ PingerSteps(p)
           \/ \E c \in Closers : Close(c)
           \/ \E m \in Exchanges : Timeout(m)
           \/ UNCHANGED vars
  BY <1>6, PlainOthers, PlainKept, Zenon
<1> QED
  BY <1>1, <1>2, <1>3, <1>4, <1>5, <1>6, Zenon DEF Next, Environment, Program

-----------------------------------------------------------------------------
(* The theorems *)

\* The connection starts Active, with no exchange and every goroutine at rest.
LEMMA InitInv == Init => IInv
<1> SUFFICES ASSUME Init PROVE IInv
  OBVIOUS
<1> USE DEF Init, connectionActive, connectionStartClose, connectionInboundClosed, connectionClosed,
  ConnectionState, NoState
<1>1. \A g \in Goroutines : Start(g) \in {"read", "write", "begin", "pingAdd", "relay", "close", "idle"}
  BY Zenon DEF Start
<1>2. /\ Start(Reader) = "read"
      /\ \A i \in InCalls : Start(Handler(i)) = "idle" /\ Start(Watcher(i)) = "idle"
  BY Zenon DEF Start, Reader, Handler, Watcher
<1>3. TypeOK
  <2>1. {"read", "write", "begin", "pingAdd", "relay", "close", "idle"} \subseteq Labels
    BY Zenon DEF Labels, ReturnLabels, AfterLabels
  <2>2. "done" \in ReturnLabels /\ "done" \in AfterLabels
    BY Zenon DEF ReturnLabels, AfterLabels
  <2>3. sendCh \in Seq(Frames) /\ Len(sendCh) <= SendBufferSize
    BY BufferAssumption
  <2> QED
    BY <1>1, <2>1, <2>2, <2>3, ZenonT(60)
       DEF TypeOK, TypeConn, TypeMex, TypeSend, TypeNet, TypePc, TypeRet, TypeCur
<1>4. DispatchInv /\ ExchangeInv
  BY <1>1, <1>2, Members, Zenon DEF DispatchInv, ExchangeInv, At
<1>5. CurInv /\ WinnerInv
  BY <1>1 DEF CurInv, CurAt, WinnerInv, At
<1>6. PendingInv
  <2>1. Relaying = {}
    BY <1>1, Members, Zenon DEF Relaying, At
  <2> QED
    BY <2>1, <1>1, FS_EmptySet, Zenon DEF PendingInv, At
<1>7. CallerInv /\ DrainInv
  BY <1>1, Members DEF CallerInv, DrainInv, Drained, At
<1> QED
  BY <1>3, <1>4, <1>5, <1>6, <1>7, Zenon DEF IInv

\* Every step of the connection preserves IInv.
LEMMA StepInv == IInv /\ [Next]_vars => IInv'
<1> SUFFICES ASSUME IInv, [Next]_vars PROVE IInv'
  OBVIOUS
<1> USE DEF IInv
<1>1. CurInv' /\ WinnerInv' /\ PendingInv'
  BY CheckStep, Zenon
<1>2. DispatchInv' /\ ExchangeInv' /\ CallerInv' /\ DrainInv'
  BY DispatchStep, ExchangeStep, CallerStep, DrainStep, Zenon
<1>3. pending' \in Nat
  <2>1. IsFiniteSet(Relaying')
    BY RelayAssumption, FS_Subset, Zenon DEF Relaying
  <2> QED
    BY <1>1, <2>1, FS_CardinalityType, Zenon DEF PendingInv
<1>4. TypeOK'
  <2>1. TypeConn' /\ TypeMex' /\ TypeNet' /\ TypePc' /\ TypeRet' /\ TypeCur'
    BY TypeConnStep, TypeMexStep, TypeNetStep, TypePcStep, TypeRetStep, TypeCurStep, Zenon
  <2> QED
    BY <1>3, <2>1, Zenon DEF TypeOK, TypeConn, TypeMex, TypeSend, TypeNet, TypePc, TypeRet, TypeCur
<1> QED
  BY <1>1, <1>2, <1>4, Zenon

\* IInv holds in every reachable state, whatever the calls, the buffer size and
\* the events that happen.
THEOREM Invariant == Spec => []IInv
BY InitInv, StepInv, PTL DEF Spec

\* Type correctness of the connection.
THEOREM TypeCorrect == Spec => []TypeOK
<1>1. IInv => TypeOK
  BY Zenon DEF IInv
<1> QED
  BY <1>1, Invariant, PTL

\* However many goroutines run checkExchanges at once, close(stopCh) runs once.
THEOREM StopChOnce == Spec => []StopChClosedOnce
<1>1. IInv => StopChClosedOnce
  BY Zenon DEF IInv, WinnerInv, StopChClosedOnce
<1> QED
  BY <1>1, Invariant, PTL

\* InboundClosed and Closed are reached only when the calls they wait for are over.
THEOREM DrainsFirst == Spec => []Drained
<1>1. IInv => Drained
  BY Zenon DEF IInv, DrainInv
<1> QED
  BY <1>1, Invariant, PTL

\* The branch of checkExchanges its comment calls impossible is impossible.
THEOREM NeverPending == Spec => []RelayCannotBePending
<1>1. IInv => RelayCannotBePending
  BY Zenon DEF IInv, PendingInv, CurInv, CurAt, RelayCannotBePending, At
<1> QED
  BY <1>1, Invariant, PTL

-----------------------------------------------------------------------------
(* The refinement *)

\* RInv holds in every reachable state.
LEMMA RefinementInvariant == Spec => []RInv
<1>1. Init => FailInv /\ SocketInv
  <2> SUFFICES ASSUME Init PROVE FailInv /\ SocketInv
    OBVIOUS
  <2>1. \A g \in Goroutines : Start(g) \in {"read", "write", "begin", "pingAdd", "relay", "close", "idle"}
    BY Zenon DEF Start
  <2> QED
    BY <2>1, Members, Zenon DEF Init, FailInv, SocketInv, StopLabels, At
<1>2. IInv /\ FailInv /\ [Next]_vars => FailInv'
  BY StopsLateStep, StateMonotone, Zenon DEF IInv, FailInv, StopsLate
<1>3. IInv /\ SocketInv /\ [Next]_vars => SocketInv'
  <2> SUFFICES ASSUME IInv, SocketInv, [Next]_vars PROVE SocketInv'
    OBVIOUS
  <2>1. CASE closeNetwork
    BY <2>1, Members, StateMonotone, Zenon DEF IInv, TypeOK, TypePc, SocketInv, closeNetwork, Goto, At
  <2>2. CASE WriterStays
    BY <2>2, StateMonotone, Zenon DEF SocketInv, WriterStays, At
  <2> QED
    BY <2>1, <2>2, WriterStep, Zenon
<1> QED
  BY <1>1, <1>2, <1>3, InitInv, StepInv, PTL DEF Spec, RInv

\* Every step is a step of the lifecycle or leaves its variables unchanged.
LEMMA NextRefines == ASSUME RInv, [Next]_vars PROVE Refined
<1>1. ASSUME NEW g \in Goroutines, Step(g) PROVE Refined
  BY <1>1, StepRefines, Zenon
<1>2. CASE readFrames \/ ReaderSteps
  BY <1>2, ReaderRefines, Zenon
<1>3. ASSUME NEW i \in InCalls, HandlerChoice(i) \/ HandlerSteps(i) \/ Watch(i) PROVE Refined
  BY <1>3, HandlerRefines, Zenon
<1>4. ASSUME NEW o \in OutCalls, BeginCall(o) \/ BadResponse(o) \/ CallerSteps(o) PROVE Refined
  BY <1>4, CallerRefines, Zenon
<1>5. CASE \/ writeFrames \/ WriteError
           \/ \E p \in Pings : PingAdd(p) \/ PingerSteps(p)
           \/ \E c \in Closers : Close(c)
           \/ \E m \in Exchanges : Timeout(m)
           \/ UNCHANGED vars
  BY <1>5, OthersRefine, Zenon
<1>6. ASSUME NEW r \in RelayCalls, RelayCall(r) \/ decrementPending(r) PROVE Refined
  <2>1. ASSUME pc[Relay(r)] = "relaying" PROVE pending > 0
    <3>1. r \in Relaying
      BY <2>1, Zenon DEF Relaying, At
    <3>2. IsFiniteSet(Relaying)
      BY RelayAssumption, FS_Subset, Zenon DEF Relaying
    <3>3. pending = Cardinality(Relaying)
      BY Zenon DEF RInv, IInv, PendingInv
    <3> QED
      BY <3>1, <3>2, <3>3, FS_EmptySet, FS_CardinalityType
  <2> QED
    BY <1>6, <2>1, RelayRefines, Zenon
<1> QED
  BY <1>1, <1>2, <1>3, <1>4, <1>5, <1>6, Zenon DEF Next, Environment, Program

\* The connection, with all its goroutines, implements the graceful close that
\* ConnectionLifecycle specifies, whatever the calls, the buffer and the events.
THEOREM Implements == Spec => ImplementsLifecycle
<1>1. Init => Lifecycle!Init
  BY Zenon DEF Init, Lifecycle!Init, Lifecycle!Active, OpenInbound, OpenOutbound, connectionActive
<1>2. RInv /\ [Next]_vars => [Lifecycle!Next]_(Lifecycle!vars)
  BY NextRefines, Zenon DEF Refined
<1> QED
  BY <1>1, <1>2, RefinementInvariant, PTL DEF Spec, ImplementsLifecycle, Lifecycle!Spec

-----------------------------------------------------------------------------
(* What calls leave behind *)

\* LInv holds in every reachable state.
LEMMA LifeInvariant == Spec => []LInv
<1>1. Init => PingInv /\ LifeInv /\ NotifyInv /\ ContextInv /\ StrandInv
  <2> SUFFICES ASSUME Init PROVE PingInv /\ LifeInv /\ NotifyInv /\ ContextInv /\ StrandInv
    OBVIOUS
  <2>1. /\ Start(Reader) = "read" /\ Start(Writer) = "write"
        /\ \A i \in InCalls : Start(Handler(i)) = "idle" /\ Start(Watcher(i)) = "idle"
        /\ \A o \in OutCalls : Start(Caller(o)) = "begin"
        /\ \A p \in Pings : Start(Pinger(p)) = "pingAdd"
    BY Zenon DEF Start, Reader, Writer, Handler, Watcher, Caller, Pinger
  <2>2. \A g \in Goroutines : Start(g) \in {"read", "write", "begin", "pingAdd", "relay", "close", "idle"}
    BY Zenon DEF Start
  <2>3. /\ pc[Reader] = "read" /\ pc[Writer] = "write"
        /\ \A i \in InCalls : pc[Handler(i)] = "idle" /\ pc[Watcher(i)] = "idle"
        /\ \A o \in OutCalls : pc[Caller(o)] = "begin"
        /\ \A p \in Pings : pc[Pinger(p)] = "pingAdd"
    BY <2>1, Members, Zenon DEF Init
  <2>4. mexes = {} /\ expired = {} /\ shut = {} /\ errCh = {} /\ netClosed = FALSE
        /\ \A i \in InCalls : ctx[i] = "live"
    BY Zenon DEF Init, Exchanges
  <2>5. PingInv
    BY <2>3, Zenon DEF PingInv, PingHolds, CheckLabels, At
  <2>6. LifeInv
    BY <2>3, <2>4, Zenon DEF LifeInv, HandlerLife, CallLabels, ServeLabels, At
  <2>7. NotifyInv
    BY <2>2, <2>4, Zenon DEF Init, NotifyInv, NotifyLabels
  <2>8. ContextInv /\ StrandInv
    BY <2>3, <2>4, Zenon DEF ContextInv, ContextLife, AnswerLabels, StrandInv, At
  <2> QED
    BY <2>5, <2>6, <2>7, <2>8, Zenon
<1>2. LInv /\ [Next]_vars => PingInv' /\ LifeInv' /\ NotifyInv'
  BY PingStep, LifeStep, NotifyStep, Zenon DEF LInv, RInv, IInv
<1>3. LInv /\ [Next]_vars => ContextInv' /\ StrandInv'
  <2>1. LInv /\ [Next]_vars => ContextInv'
    BY ContextStep, Zenon DEF LInv, RInv, IInv
  <2>2. LInv /\ [Next]_vars => StrandInv'
    BY StrandStep, Zenon DEF LInv, RInv
  <2> QED
    BY <2>1, <2>2, Zenon
<1> QED
  BY <1>1, <1>2, <1>3, RefinementInvariant, PTL DEF Spec, LInv

\* removeExchange is never asked for an exchange that is already gone: neither the
\* expiry of a call nor the error path of a ping takes it away from its owner.
THEOREM RemovesOnce == Spec => []RemovedOnce
<1>1. LInv => RemovedOnce
  BY LifeSafe, Zenon DEF LInv, RInv, IInv
<1> QED
  BY <1>1, LifeInvariant, PTL

\* Where no handler blackholes its call, expiredExchanges keeps no id of a call
\* whose handler and watcher are done.
THEOREM ReclaimsExpired ==
  ASSUME "blackhole" \notin Events
  PROVE  Spec => []ExpiredReclaimed
<1>1. LInv => ExpiredReclaimed
  BY LifeSafe, Zenon DEF LInv, RInv, IInv
<1> QED
  BY <1>1, LifeInvariant, PTL

\* Unless the connection failed, writeFrames closes the socket on pongs, pings and
\* responses that came after their deadline, and on nothing else.
THEOREM StrandsNothing == Spec => []NoFrameStranded
<1>1. LInv => NoFrameStranded
  BY Zenon DEF LInv, StrandInv, LeftBehind, NoFrameStranded
<1> QED
  BY <1>1, LifeInvariant, PTL

=============================================================================
