------------------------------- MODULE Channel -------------------------------
(***************************************************************************)
(* A channel: its state, its listener, the connections it tracks, its idle *)
(* sweep, and the graceful close that spans all of them (channel.go,       *)
(* idle_sweep.go).  Connections move as ConnectionLifecycle allows, which  *)
(* module Connection implements; what matters here is which goroutine runs *)
(* the callback connectionCloseStateChange, and when.                      *)
(*                                                                         *)
(* One process per goroutine: the callers of Channel.Close, the goroutine  *)
(* that opens each connection (Connect, or the goroutine that serve starts *)
(* per accepted connection), the goroutines that end calls on a connection *)
(* or see it fail, and the idle poller.  Every step is one critical section*)
(* of ch.mutable, one move of a connection's state, or one read.           *)
(***************************************************************************)
EXTENDS Naturals, Sequences

CONSTANTS Conns,      \* the connections that may be opened
          Outbound,   \* those opened by Connect; the others are accepted
          Closers,    \* goroutines that call Channel.Close
          Workers,    \* goroutines working on behalf of each connection
          IdleCheck   \* idleCheckInterval > 0

ASSUME ChannelAssumption == Outbound \subseteq Conns /\ IdleCheck \in BOOLEAN

VARIABLES
  state,      \* ch.mutable.state
  listener,   \* ch.mutable.l
  serving,    \* the goroutine running serve was started
  conns,      \* ch.mutable.conns
  sweeping,   \* ch.mutable.idleSweep.started
  closedChan, \* number of times ch.closed was closed
  connState,  \* state of each connection, NotOpen before newConnection
  stopped,    \* connections whose stoppedExchanges is set
  inCalls,    \* connections with inbound (or relayed) calls that are not over
  outCalls,   \* connections with outbound calls that are not over
  pc,         \* where each goroutine is
  ret,        \* where it continues, innermost call first
  conn,       \* the connection it works on, at most one
  chState,    \* local chState of connectionCloseStateChange
  minState,   \* local minState of getMinConnectionState
  unread,     \* connections getMinConnectionState has not come to yet
  todo        \* connections it copied under the lock and has not come to yet

chanVars == <<state, listener, serving, conns, sweeping, closedChan>>
linkVars == <<connState, stopped, inCalls, outCalls>>
locals   == <<conn, chState, minState, unread, todo>>
vars     == <<chanVars, linkVars, pc, ret, locals>>

\* ChannelState
ChannelClient == 1
ChannelListening == 2
ChannelStartClose == 3
ChannelInboundClosed == 4
ChannelClosed == 5

\* connectionState
NotOpen == 0
Active == 1
StartClose == 2
InboundClosed == 3
Closed == 4

Opener(c) == <<"opener", c>>
Worker(c, w) == <<"worker", c, w>>
Closer(k) == <<"closer", k>>
Sweeper == <<"sweeper">>
Procs == {Opener(c) : c \in Conns} \cup {Worker(c, w) : c \in Conns, w \in Workers}
           \cup {Closer(k) : k \in Closers} \cup {Sweeper}

Init ==
  /\ state = ChannelClient /\ listener = "none" /\ serving = FALSE
  /\ conns = {} /\ sweeping = IdleCheck /\ closedChan = 0
  /\ connState = [c \in Conns |-> NotOpen]
  /\ stopped = {} /\ inCalls = {} /\ outCalls = {}
  /\ pc = [p \in Procs |-> IF p = Sweeper /\ ~IdleCheck THEN "done" ELSE "idle"]
  /\ ret = [p \in Procs |-> <<>>]
  /\ conn = [p \in Procs |-> IF p[1] \in {"opener", "worker"} THEN {p[2]} ELSE {}]
  /\ chState = [p \in Procs |-> 0] /\ minState = [p \in Procs |-> 0]
  /\ unread = [p \in Procs |-> {}] /\ todo = [p \in Procs |-> {}]

Goto(p, l) == pc' = [pc EXCEPT ![p] = l] /\ UNCHANGED ret
CallThen(p, l, rs) == pc' = [pc EXCEPT ![p] = l] /\ ret' = [ret EXCEPT ![p] = rs \o @]
Return(p) == pc' = [pc EXCEPT ![p] = Head(ret[p])] /\ ret' = [ret EXCEPT ![p] = Tail(@)]

SetConn(c, s) == connState' = [connState EXCEPT ![c] = s]

\* ch.mutable.Lock() waits for the goroutines that hold the read lock while
\* they range over the connections.
CanLock == \A p \in Procs : pc[p] # "min"

-----------------------------------------------------------------------------
\* Serve stores the listener before it looks at the state.
Serve ==
  /\ CanLock /\ listener = "none"
  /\ listener' = "open"
  /\ IF state = ChannelClient
     THEN state' = ChannelListening /\ serving' = TRUE
     ELSE UNCHANGED <<state, serving>>
  /\ UNCHANGED <<conns, sweeping, closedChan, linkVars, pc, ret, locals>>

\* Connect starts from a channel that is not closing; serve accepts as long as
\* the listener is open.
Open(c) ==
  /\ pc[Opener(c)] = "idle"
  /\ IF c \in Outbound THEN state \in {ChannelClient, ChannelListening}
                       ELSE serving /\ listener = "open"
  /\ Goto(Opener(c), "handshake")
  /\ UNCHANGED <<chanVars, linkVars, locals>>

\* A dial or a handshake that fails leaves no connection.
HandshakeFails(c) ==
  /\ pc[Opener(c)] = "handshake"
  /\ Goto(Opener(c), "done")
  /\ UNCHANGED <<chanVars, linkVars, locals>>

newConnection(c) ==
  /\ pc[Opener(c)] = "handshake"
  /\ SetConn(c, Active)
  /\ Goto(Opener(c), "add")
  /\ UNCHANGED <<chanVars, stopped, inCalls, outCalls, locals>>

\* connectionActive: a connection the channel does not take is closed.
addConnection(c) ==
  /\ pc[Opener(c)] = "add" /\ CanLock
  /\ IF connState[c] = Active /\ state \in {ChannelClient, ChannelListening}
     THEN conns' = conns \cup {c} /\ Goto(Opener(c), "done")
     ELSE UNCHANGED conns /\ CallThen(Opener(c), "close", <<"done">>)
  /\ UNCHANGED <<state, listener, serving, sweeping, closedChan, linkVars, locals>>

-----------------------------------------------------------------------------
\* What the goroutines of a connection do: calls begin while it is active, and
\* each call that ends runs checkExchanges (messageExchangeSet.onRemoved).
BeginCalls(c) ==
  /\ connState[c] = Active /\ c \in conns
  /\ \/ /\ pc[Opener(c)] = "done" /\ c \notin inCalls
        /\ inCalls' = inCalls \cup {c} /\ UNCHANGED outCalls
     \/ c \notin outCalls /\ outCalls' = outCalls \cup {c} /\ UNCHANGED inCalls
  /\ UNCHANGED <<chanVars, connState, stopped, pc, ret, locals>>

EndCalls(p, c) ==
  /\ pc[p] = "idle" /\ conn[p] = {c}
  /\ \/ c \in inCalls /\ inCalls' = inCalls \ {c} /\ UNCHANGED outCalls
     \/ c \in outCalls /\ outCalls' = outCalls \ {c} /\ UNCHANGED inCalls
  /\ CallThen(p, "check", <<"idle">>)
  /\ UNCHANGED <<chanVars, connState, stopped, locals>>

\* Connection.Close, and connectionError in readFrames or writeFrames.
CloseConn(p, c) ==
  /\ pc[p] = "idle" /\ conn[p] = {c}
  /\ \/ connState[c] = Active /\ c \in conns /\ CallThen(p, "close", <<"idle">>)
     \/ /\ connState[c] # NotOpen /\ c \notin stopped /\ pc[Opener(c)] = "done"
        /\ CallThen(p, "close", <<"stop", "idle">>)
  /\ UNCHANGED <<chanVars, linkVars, locals>>

stopExchanges(p, c) ==
  /\ pc[p] = "stop" /\ conn[p] = {c}
  /\ stopped' = stopped \cup {c}
  /\ Goto(p, "check")
  /\ UNCHANGED <<chanVars, connState, inCalls, outCalls, locals>>

\* Connection.close.
close(p, c) ==
  /\ pc[p] = "close" /\ conn[p] = {c}
  /\ IF connState[c] = Active
     THEN SetConn(c, StartClose) /\ CallThen(p, "remove", <<"check">>)
     ELSE UNCHANGED connState /\ Return(p)
  /\ UNCHANGED <<chanVars, stopped, inCalls, outCalls, locals>>

\* checkExchanges makes at most one move from the state it reads, except that
\* the move to InboundClosed is followed by a look at the outbound calls.  Only
\* a goroutine that moved the state runs the callback.
checkExchanges(p, c) ==
  LET s == connState[c] IN
  /\ pc[p] = "check" /\ conn[p] = {c}
  /\ \/ s # Closed /\ c \in stopped /\ SetConn(c, Closed) /\ Goto(p, "remove")
     \/ /\ s = StartClose /\ c \notin stopped \cup inCalls
        /\ SetConn(c, InboundClosed) /\ Goto(p, "check2")
     \/ /\ s = InboundClosed /\ c \notin stopped \cup outCalls
        /\ SetConn(c, Closed) /\ Goto(p, "remove")
     \/ /\ \/ s = Closed
           \/ /\ c \notin stopped
              /\ s = Active \/ (s = StartClose /\ c \in inCalls) \/ (s = InboundClosed /\ c \in outCalls)
        /\ UNCHANGED connState /\ Return(p)
  /\ UNCHANGED <<chanVars, stopped, inCalls, outCalls, locals>>

checkOutbound(p, c) ==
  /\ pc[p] = "check2" /\ conn[p] = {c}
  /\ IF connState[c] = InboundClosed /\ c \notin outCalls
     THEN SetConn(c, Closed) ELSE UNCHANGED connState
  /\ Goto(p, "remove")
  /\ UNCHANGED <<chanVars, stopped, inCalls, outCalls, locals>>

-----------------------------------------------------------------------------
\* mutants: a connection is removed as soon as it closes, or never
removeClosedConn_Early(p, c) ==
  /\ pc[p] = "remove" /\ conn[p] = {c}
  /\ CanLock /\ conns' = conns \ {c}
  /\ Goto(p, "state")
  /\ UNCHANGED <<state, listener, serving, sweeping, closedChan, linkVars, locals>>

removeClosedConn_Keep(p, c) ==
  /\ pc[p] = "remove" /\ conn[p] = {c}
  /\ Goto(p, "state")
  /\ UNCHANGED <<chanVars, linkVars, locals>>

\* connectionCloseStateChange: removeClosedConn, then the state of the channel,
\* the least state of its connections, and the update.  What it does to the
\* peers is module Peers.
removeClosedConn(p, c) ==
  /\ pc[p] = "remove" /\ conn[p] = {c}
  /\ IF connState[c] = Closed THEN CanLock /\ conns' = conns \ {c} ELSE UNCHANGED conns
  /\ Goto(p, "state")
  /\ UNCHANGED <<state, listener, serving, sweeping, closedChan, linkVars, locals>>

ReadState(p) ==
  /\ pc[p] = "state"
  /\ IF state \in {ChannelStartClose, ChannelInboundClosed}
     THEN /\ Goto(p, "rlock")
          /\ chState' = [chState EXCEPT ![p] = state]
     ELSE Return(p) /\ UNCHANGED chState
  /\ UNCHANGED <<chanVars, linkVars, conn, minState, unread, todo>>

RLockConns(p) ==
  /\ pc[p] = "rlock"
  /\ minState' = [minState EXCEPT ![p] = Closed]
  /\ unread' = [unread EXCEPT ![p] = conns]
  /\ Goto(p, "min")
  /\ UNCHANGED <<chanVars, linkVars, conn, chState, todo>>

getMinConnectionState(p) ==
  /\ pc[p] = "min"
  /\ \/ \E c \in unread[p] :
          /\ minState' = [minState EXCEPT ![p] = IF connState[c] < @ THEN connState[c] ELSE @]
          /\ unread' = [unread EXCEPT ![p] = @ \ {c}]
          /\ UNCHANGED <<pc, ret>>
     \/ unread[p] = {} /\ Goto(p, "update") /\ UNCHANGED <<minState, unread>>
  /\ UNCHANGED <<chanVars, linkVars, conn, chState, todo>>

\* 0 when there is nothing to update.
updateTo(p) == IF minState[p] >= Closed THEN ChannelClosed
               ELSE IF minState[p] >= InboundClosed /\ chState[p] = ChannelStartClose
               THEN ChannelInboundClosed ELSE 0

\* mutant: the state is not compared with the one read before the lock
UpdateState_NoCompare(p) ==
  /\ pc[p] = "update" /\ (updateTo(p) > 0 => CanLock)
  /\ IF updateTo(p) > 0
     THEN /\ state' = updateTo(p)
          /\ IF updateTo(p) = ChannelClosed THEN Goto(p, "onClosed") ELSE Return(p)
     ELSE UNCHANGED state /\ Return(p)
  /\ chState' = [chState EXCEPT ![p] = 0] /\ minState' = [minState EXCEPT ![p] = 0]
  /\ UNCHANGED <<listener, serving, conns, sweeping, closedChan, linkVars, conn, unread, todo>>

UpdateState(p) ==
  /\ pc[p] = "update" /\ (updateTo(p) > 0 => CanLock)
  /\ IF updateTo(p) > 0 /\ state = chState[p]
     THEN /\ state' = updateTo(p)
          /\ IF updateTo(p) = ChannelClosed THEN Goto(p, "onClosed") ELSE Return(p)
     ELSE UNCHANGED state /\ Return(p)
  /\ chState' = [chState EXCEPT ![p] = 0] /\ minState' = [minState EXCEPT ![p] = 0]
  /\ UNCHANGED <<listener, serving, conns, sweeping, closedChan, linkVars, conn, unread, todo>>

onClosed(p) ==
  /\ pc[p] = "onClosed"
  /\ closedChan' = closedChan + 1
  /\ Return(p)
  /\ UNCHANGED <<state, listener, serving, conns, sweeping, linkVars, locals>>

-----------------------------------------------------------------------------
\* Channel.Close.
Close(k) ==
  LET p == Closer(k) IN
  /\ pc[p] = "idle" /\ CanLock
  /\ IF state = ChannelClosed
     THEN Goto(p, "done") /\ UNCHANGED <<state, listener, sweeping, todo>>
     ELSE /\ listener' = IF listener = "open" THEN "closed" ELSE listener
          /\ sweeping' = FALSE
          /\ state' = IF conns = {} THEN ChannelClosed ELSE ChannelStartClose
          /\ todo' = [todo EXCEPT ![p] = conns]
          /\ IF conns = {} THEN CallThen(p, "onClosed", <<"done">>) ELSE Goto(p, "loop")
  /\ UNCHANGED <<serving, conns, closedChan, linkVars, conn, chState, minState, unread>>

CloseNext(p) ==
  /\ pc[p] = "loop" /\ p[1] = "closer"
  /\ IF todo[p] = {}
     THEN Goto(p, "done") /\ conn' = [conn EXCEPT ![p] = {}] /\ UNCHANGED todo
     ELSE \E c \in todo[p] :
            /\ conn' = [conn EXCEPT ![p] = {c}]
            /\ todo' = [todo EXCEPT ![p] = @ \ {c}]
            /\ CallThen(p, "close", <<"loop">>)
  /\ UNCHANGED <<chanVars, linkVars, chState, minState, unread>>

-----------------------------------------------------------------------------
\* The idle poller: a tick finds the connections that have been idle for
\* maxIdleTime, and closes those that are still active and have no calls.
checkIdleConnections ==
  /\ pc[Sweeper] = "idle"
  /\ \E idle \in SUBSET conns \ {{}} : todo' = [todo EXCEPT ![Sweeper] = idle]
  /\ Goto(Sweeper, "loop")
  /\ UNCHANGED <<chanVars, linkVars, conn, chState, minState, unread>>

SweepNext ==
  LET p == Sweeper IN
  /\ pc[p] = "loop"
  /\ IF todo[p] = {}
     THEN Goto(p, "idle") /\ conn' = [conn EXCEPT ![p] = {}] /\ UNCHANGED todo
     ELSE \E c \in todo[p] :
            /\ todo' = [todo EXCEPT ![p] = @ \ {c}]
            /\ IF connState[c] = Active /\ c \notin inCalls \cup outCalls
               THEN conn' = [conn EXCEPT ![p] = {c}] /\ CallThen(p, "close", <<"loop">>)
               ELSE UNCHANGED <<conn, pc, ret>>
  /\ UNCHANGED <<chanVars, linkVars, chState, minState, unread>>

SweepStops ==
  /\ pc[Sweeper] = "idle" /\ ~sweeping
  /\ Goto(Sweeper, "done")
  /\ UNCHANGED <<chanVars, linkVars, locals>>

-----------------------------------------------------------------------------
Handshake(c) == HandshakeFails(c) \/ newConnection(c) \/ addConnection(c)

\* What a goroutine does without waiting for its environment.
Step(p) ==
  \/ \E c \in Conns : \/ close(p, c) \/ stopExchanges(p, c) \/ checkExchanges(p, c)
                      \/ checkOutbound(p, c) \/ removeClosedConn(p, c)
  \/ ReadState(p) \/ RLockConns(p) \/ getMinConnectionState(p) \/ UpdateState(p) \/ onClosed(p)
  \/ CloseNext(p)
  \/ \E c \in Conns : p = Opener(c) /\ Handshake(c)
  \/ p = Sweeper /\ (SweepNext \/ SweepStops)

Next ==
  \/ Serve
  \/ \E c \in Conns : Open(c) \/ BeginCalls(c)
  \/ \E p \in Procs, c \in Conns : EndCalls(p, c) \/ CloseConn(p, c)
  \/ \E p \in Procs : Step(p)
  \/ \E k \in Closers : Close(k)
  \/ checkIdleConnections

Spec == Init /\ [][Next]_vars

\* Goroutines are scheduled, handshakes have a deadline (setInitDeadline) and
\* calls end, by their timeout at the latest.  Nobody has to call Close.
Fairness ==
  /\ \A p \in Procs : WF_vars(Step(p))
  /\ \A c \in Conns, w \in Workers : WF_vars(EndCalls(Worker(c, w), c))

FairSpec == Spec /\ Fairness

-----------------------------------------------------------------------------
\* A connection that is up is in ch.mutable.conns until it is Closed: a
\* connection the map missed would not be closed by Close, nor waited for.
Tracked ==
  \A c \in Conns : pc[Opener(c)] = "done" /\ connState[c] \in Active..InboundClosed => c \in conns

\* The channel reports InboundClosed, or Closed, only when every connection that is
\* up has come that far (getMinConnectionState, and its use after the unlock); and
\* ch.closed is closed once, by the goroutine that has found the channel drained: a
\* second close of it in onClosed would panic.
ClosedAfterConns ==
  /\ closedChan <= 1 /\ (closedChan = 1 => state = ChannelClosed)
  /\ \A c \in Conns : pc[Opener(c)] = "done" /\ connState[c] # NotOpen =>
       /\ state = ChannelInboundClosed => connState[c] >= InboundClosed
       /\ state = ChannelClosed => connState[c] = Closed

\* Once Close was called every connection is drained and leaves the map.
ConnsDrain == state >= ChannelStartClose ~> conns = {}

=============================================================================
