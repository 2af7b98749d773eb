---------------------------- MODULE ChannelProofs ---------------------------
(***************************************************************************)
(* Proofs about Channel, for any number of connections, calls and          *)
(* goroutines that close: the map of connections has every connection that *)
(* is up, the channel is InboundClosed or Closed only after all of them,   *)
(* ch.closed is closed once, and a channel that closes only drains.        *)
(* The hard part is what connectionCloseStateChange has read and uses after *)
(* it has unlocked: it stays true because connections only move forwards   *)
(* and a closing channel takes no more (MinInv), and because a connection  *)
(* that is refused is its opener's alone until it is Closed (OpenerInv).   *)
(* And about its Listener, for any number of accept loops and closers.     *)
(***************************************************************************)
EXTENDS Channel, Listener, TLAPS

\* The opening of connection c has ended: addConnection has put it in the map, or has closed
\* it, or there was no connection.
Done(c) == pc[Opener(c)] = "done"

\* Where a goroutine is in no call of the close path
Resting == {"idle", "handshake", "add", "loop", "done"}
\* Where a goroutine is in the callback connectionCloseStateChange, or in the onClosed it
\* ends with
Notifying == {"remove", "state", "rlock", "min", "update", "onClosed"}
\* All of the places
Labels == Resting \cup {"close", "stop", "check", "check2"} \cup Notifying

\* Where the calls under way return to, for a goroutine in close, in checkExchanges or in a
\* callback of checkExchanges
Short == {<<"idle">>, <<"loop">>, <<"done">>, <<"stop", "idle">>}
\* The same for the callback of close, after which close goes on with checkExchanges
Long == {<<"check", "idle">>, <<"check", "loop">>, <<"check", "done">>, <<"check", "stop", "idle">>}

\* Where the goroutines are
ControlOK == pc \in [Procs -> Labels] /\ ret \in [Procs -> {<<>>} \cup Short \cup Long]

\* The type of each variable
ChannelTypeOK ==
  /\ ControlOK
  /\ state \in 1..5 /\ closedChan \in Nat /\ conns \in SUBSET Conns
  /\ connState \in [Conns -> 0..4]
  /\ conn \in [Procs -> SUBSET Conns] /\ chState \in [Procs -> 0..4]
  /\ minState \in [Procs -> 0..4]
  /\ unread \in [Procs -> SUBSET Conns] /\ todo \in [Procs -> SUBSET Conns]

\* The returns that goroutine p has before it fit the place it is at.
StackOf(p) ==
  /\ pc[p] \in Resting => ret[p] = <<>>
  /\ pc[p] \in {"close", "check", "check2"} => ret[p] \in Short
  /\ pc[p] = "stop" => ret[p] = <<"idle">>
  /\ pc[p] \in Notifying => ret[p] \in Short \cup Long

\* They do for every goroutine: a return always has a place to go to.
StackInv == \A p \in Procs : StackOf(p)

\* Close may also call onClosed, when it finds no connections.
Working(p) == pc[p] \notin Resting /\ ~(pc[p] = "onClosed" /\ ret[p] = <<"done">>)

\* Only the goroutine that opens a connection works on it until its opening ends: what
\* Close, the idle sweep and the calls take from the map of connections has been added to
\* it.
TouchInv ==
  /\ \A c \in Conns : conn[Opener(c)] = {c}
  /\ \A p \in Procs : \A c \in Conns : conn[p] = {c} /\ Working(p) /\ p # Opener(c) => Done(c)
  /\ \A p \in Procs : todo[p] \subseteq {c \in Conns : Done(c)}
  /\ conns \cup inCalls \cup outCalls \cup stopped \subseteq {c \in Conns : Done(c)}

\* What the goroutine that opens c knows of its state: Active up to addConnection, and,
\* where addConnection refused it, on the way from Active to Closed. Once the goroutine is
\* done, c is in the map or Closed.
OpenerOf(c) ==
  LET o == Opener(c) IN
    /\ pc[o] \in {"idle", "handshake"} => connState[c] = NotOpen
    /\ pc[o] = "add" => connState[c] = Active
    /\ pc[o] = "close" => connState[c] = Active /\ ret[o] = <<"done">>
    /\ pc[o] = "check" => connState[c] = StartClose /\ ret[o] = <<"done">>
    /\ pc[o] = "check2" => connState[c] = InboundClosed /\ ret[o] = <<"done">>
    /\ pc[o] \in Notifying => \/ connState[c] = StartClose /\ ret[o] = <<"check", "done">>
                              \/ connState[c] = Closed /\ ret[o] = <<"done">>
    /\ pc[o] = "done" => c \in conns \/ connState[c] \in {NotOpen, Closed}
    /\ pc[o] \notin {"loop", "stop"}

\* It does for every connection.
OpenerInv == \A c \in Conns : OpenerOf(c)

\* Where a callback reads the states of the connections, under the read lock and after it
Reading == {"rlock", "min", "update"}

\* A callback of p that reads the connections saw the channel closing; the least state it
\* has found is no more than that of any connection in the map that it has read, also when
\* they have moved on since.
MinOf(p) ==
  /\ pc[p] \in Reading => state >= ChannelStartClose /\ chState[p] \in {ChannelStartClose, ChannelInboundClosed}
  /\ pc[p] \in {"min", "update"} => \A c \in conns : c \in unread[p] \/ minState[p] <= connState[c]
  /\ pc[p] = "update" => unread[p] = {}

\* It is so for every goroutine.
MinInv == \A p \in Procs : MinOf(p)

\* ch.closed is closed at most once: only a goroutine that made the channel Closed goes to
\* onClosed, and there is only one.
OnceInv ==
  /\ state # ChannelClosed => closedChan = 0
  /\ closedChan <= 1
  /\ \A p \in Procs : pc[p] = "onClosed" => state = ChannelClosed /\ closedChan = 0
  /\ \A p, q \in Procs : pc[p] = "onClosed" /\ pc[q] = "onClosed" => p = q

\* The inductive invariant
ChannelInv == ChannelTypeOK /\ StackInv /\ TouchInv /\ OpenerInv /\ Tracked /\ MinInv /\ OnceInv /\ ClosedAfterConns

\* The goroutines of the model are different.
LEMMA Names ==
  /\ \A c \in Conns : Opener(c) \in Procs /\ Opener(c) # Sweeper /\ Opener(c)[1] = "opener" /\ Opener(c)[2] = c
  /\ \A c, d \in Conns : Opener(c) = Opener(d) => c = d
  /\ \A c \in Conns, k \in Closers : Opener(c) # Closer(k)
  /\ \A k \in Closers : Closer(k) \in Procs
  /\ Sweeper \in Procs
<1>1. \A c \in Conns : Opener(c) \in Procs BY DEF Procs
<1>2. \A k \in Closers : Closer(k) \in Procs BY DEF Procs
<1>3. Sweeper \in Procs BY DEF Procs
<1>4. \A c \in Conns : Opener(c) # Sweeper /\ Opener(c)[1] = "opener" /\ Opener(c)[2] = c BY DEF Opener, Sweeper
<1>5. \A c, d \in Conns : Opener(c) = Opener(d) => c = d BY DEF Opener
<1>6. \A c \in Conns, k \in Closers : Opener(c) # Closer(k) BY DEF Opener, Closer
<1> QED BY <1>1, <1>2, <1>3, <1>4, <1>5, <1>6, Zenon

\* Sequences of two and of three
LEMMA Two == ASSUME NEW a, NEW b PROVE <<a>> \o <<b>> = <<a, b>>
<1> DEFINE s == <<a>> \o <<b>>
<1>1. s \in Seq({a, b}) /\ Len(s) = 2 /\ s[1] = a /\ s[2] = b OBVIOUS
<1> HIDE DEF s
<1>2. s = <<a, b>> BY <1>1
<1> QED BY <1>2 DEF s

\* A return is put before two others.
LEMMA Three == ASSUME NEW a, NEW b, NEW d PROVE <<a>> \o <<b, d>> = <<a, b, d>>
<1> DEFINE s == <<a>> \o <<b, d>>
<1>1. s \in Seq({a, b, d}) /\ Len(s) = 3 /\ s[1] = a /\ s[2] = b /\ s[3] = d OBVIOUS
<1> HIDE DEF s
<1>2. s = <<a, b, d>> BY <1>1
<1> QED BY <1>2 DEF s

\* What calls and returns do to the places to return to
LEMMA Stacks ==
  /\ \A r \in Short :
       /\ <<"check">> \o r \in Long
       /\ \/ Head(r) \in {"idle", "loop", "done"} /\ Tail(r) = <<>>
          \/ Head(r) = "stop" /\ Tail(r) = <<"idle">>
  /\ \A r \in Long : Head(r) = "check" /\ Tail(r) \in Short
  /\ <<"idle">> \o <<>> = <<"idle">> /\ <<"loop">> \o <<>> = <<"loop">> /\ <<"done">> \o <<>> = <<"done">>
  /\ <<"stop", "idle">> \o <<>> = <<"stop", "idle">>
<1>1. /\ <<"idle">> \o <<>> = <<"idle">> /\ <<"loop">> \o <<>> = <<"loop">>
      /\ <<"done">> \o <<>> = <<"done">> /\ <<"stop", "idle">> \o <<>> = <<"stop", "idle">>
  OBVIOUS
<1>2. \A r \in Short : <<"check">> \o r \in Long BY Two, Three, Zenon DEF Short, Long
<1>3. \A r \in Short : \/ Head(r) \in {"idle", "loop", "done"} /\ Tail(r) = <<>>
                       \/ Head(r) = "stop" /\ Tail(r) = <<"idle">>
  <2>1. /\ Head(<<"idle">>) = "idle" /\ Head(<<"loop">>) = "loop" /\ Head(<<"done">>) = "done"
        /\ Head(<<"stop", "idle">>) = "stop"
    OBVIOUS
  <2>2. Tail(<<"idle">>) = <<>> /\ Tail(<<"loop">>) = <<>> /\ Tail(<<"done">>) = <<>> OBVIOUS
  <2>3. Tail(<<"stop", "idle">>) = <<"idle">> OBVIOUS
  <2> QED BY <2>1, <2>2, <2>3, Zenon DEF Short
<1>4. \A r \in Long : Head(r) = "check" /\ Tail(r) \in Short
  <2>1. /\ Head(<<"check", "idle">>) = "check" /\ Head(<<"check", "loop">>) = "check"
        /\ Head(<<"check", "done">>) = "check" /\ Head(<<"check", "stop", "idle">>) = "check"
    OBVIOUS
  <2>2. /\ Tail(<<"check", "idle">>) = <<"idle">> /\ Tail(<<"check", "loop">>) = <<"loop">>
        /\ Tail(<<"check", "done">>) = <<"done">>
    OBVIOUS
  <2>3. Tail(<<"check", "stop", "idle">>) = <<"stop", "idle">> OBVIOUS
  <2> QED BY <2>1, <2>2, <2>3, Zenon DEF Short, Long
<1> QED BY <1>1, <1>2, <1>3, <1>4, Zenon
-----------------------------------------------------------------------------
\* Goto, CallThen and Return move one goroutine.

\* The goroutines other than p stay where they are.
OthersStay(p) == \A q \in Procs : q # p => pc'[q] = pc[q] /\ ret'[q] = ret[q]

\* A step within a function
LEMMA GotoMoves ==
  ASSUME ControlOK, NEW p \in Procs, NEW l \in Labels, Goto(p, l)
  PROVE  ControlOK' /\ pc'[p] = l /\ ret'[p] = ret[p] /\ OthersStay(p)
BY Zenon DEF ControlOK, Goto, OthersStay

\* A call
LEMMA CallMoves ==
  ASSUME ControlOK, NEW p \in Procs, NEW l \in Labels, NEW rs, rs \o ret[p] \in Short \cup Long, CallThen(p, l, rs)
  PROVE  ControlOK' /\ pc'[p] = l /\ ret'[p] = rs \o ret[p] /\ OthersStay(p)
BY Zenon DEF ControlOK, CallThen, OthersStay

\* A return goes to a place where the rest of the returns fit.
LEMMA ReturnMoves ==
  ASSUME ControlOK, NEW p \in Procs, ret[p] \in Short \cup Long, Return(p)
  PROVE  /\ ControlOK' /\ pc'[p] = Head(ret[p]) /\ ret'[p] = Tail(ret[p]) /\ OthersStay(p)
         /\ StackOf(p)' /\ pc'[p] \in {"idle", "loop", "done", "stop", "check"}
         /\ ret[p] \in Short => pc'[p] # "check"
<1>1. \/ Head(ret[p]) \in {"idle", "loop", "done"} /\ Tail(ret[p]) = <<>>
      \/ Head(ret[p]) = "stop" /\ Tail(ret[p]) = <<"idle">>
      \/ Head(ret[p]) = "check" /\ Tail(ret[p]) \in Short /\ ret[p] \in Long
  BY Stacks, Zenon
<1>2. Head(ret[p]) \in Labels /\ Tail(ret[p]) \in {<<>>} \cup Short \cup Long
  BY <1>1, Zenon DEF Labels, Resting, Short
<1>3. ControlOK' /\ pc'[p] = Head(ret[p]) /\ ret'[p] = Tail(ret[p]) /\ OthersStay(p)
  BY <1>2, Zenon DEF ControlOK, Return, OthersStay
<1>4. ret[p] \in Short => pc'[p] # "check" BY <1>3, Stacks, Zenon
<1>5. pc'[p] \in {"idle", "loop", "done", "stop", "check"} BY <1>1, <1>3, Zenon
<1>6. StackOf(p)' BY <1>1, <1>3, Zenon DEF StackOf, Resting, Notifying
<1> QED BY <1>3, <1>4, <1>5, <1>6, Zenon

\* A step of one goroutine leaves the returns of the others.
LEMMA OneStack ==
  ASSUME StackInv, NEW p \in Procs, OthersStay(p), StackOf(p)'
  PROVE  StackInv'
BY Zenon DEF StackInv, StackOf, OthersStay
-----------------------------------------------------------------------------
\* What each step does to the goroutine that takes it

\* Only p has moved, to a place that its returns fit.
Moved(p) == ControlOK' /\ OthersStay(p) /\ StackOf(p)'

\* A step of a goroutine that is in no call
LEMMA GotoRests ==
  ASSUME ControlOK, StackInv, NEW p \in Procs, pc[p] \in Resting, NEW l \in Resting, Goto(p, l)
  PROVE  Moved(p) /\ pc'[p] = l
<1>1. l \in Labels BY Zenon DEF Labels
<1>2. ControlOK' /\ pc'[p] = l /\ ret'[p] = ret[p] /\ OthersStay(p) BY <1>1, GotoMoves, Zenon
<1>3. ret[p] = <<>> BY Zenon DEF StackInv, StackOf
<1> QED BY <1>2, <1>3, Zenon DEF Moved, StackOf, Resting, Notifying

\* From a checkExchanges or a callback to a callback
LEMMA GotoNotifies ==
  ASSUME ControlOK, StackInv, NEW p \in Procs, pc[p] \in Notifying \cup {"check", "check2"},
         NEW l \in Notifying \cup {"check2"}, l = "check2" => pc[p] = "check", Goto(p, l)
  PROVE  Moved(p) /\ pc'[p] = l /\ ret'[p] = ret[p] /\ ret[p] \in Short \cup Long
<1>1. l \in Labels BY Zenon DEF Labels
<1>2. ControlOK' /\ pc'[p] = l /\ ret'[p] = ret[p] /\ OthersStay(p) BY <1>1, GotoMoves, Zenon
<1>3. ret[p] \in Short \cup Long /\ (l = "check2" => ret[p] \in Short)
  BY Zenon DEF StackInv, StackOf, Notifying
<1> QED BY <1>2, <1>3, Zenon DEF Moved, StackOf, Resting, Notifying

\* A goroutine that rests calls Connection.close or checkExchanges.
LEMMA CallStarts ==
  ASSUME ControlOK, StackInv, NEW p \in Procs, pc[p] \in Resting, NEW l \in {"close", "check", "onClosed"},
         NEW rs \in Short, CallThen(p, l, rs)
  PROVE  Moved(p) /\ pc'[p] = l /\ ret'[p] = rs
<1>1. l \in Labels BY Zenon DEF Labels, Notifying
<1>2. ret[p] = <<>> BY Zenon DEF StackInv, StackOf
<1>3. rs \o ret[p] = rs BY <1>2, Stacks, Zenon DEF Short
<1>4. rs \o ret[p] \in Short \cup Long BY <1>3, Zenon
<1>5. ControlOK' /\ pc'[p] = l /\ ret'[p] = rs \o ret[p] /\ OthersStay(p) BY <1>1, <1>4, CallMoves, Zenon
<1> QED BY <1>3, <1>5, Zenon DEF Moved, StackOf, Resting, Notifying

\* The return of close, checkExchanges or a callback
LEMMA Returns ==
  ASSUME ControlOK, StackInv, NEW p \in Procs, pc[p] \in Notifying \cup {"close", "check"}, Return(p)
  PROVE  /\ Moved(p) /\ pc'[p] \in {"idle", "loop", "done", "stop", "check"}
         /\ pc'[p] = Head(ret[p]) /\ ret'[p] = Tail(ret[p])
<1>1. ret[p] \in Short \cup Long BY Zenon DEF StackInv, StackOf
<1> QED BY <1>1, ReturnMoves, Zenon DEF Moved

\* close goes to its callback when the connection is Active, else it returns.
LEMMA closeMoves ==
  ASSUME ControlOK, StackInv, NEW p \in Procs, NEW c \in Conns, close(p, c)
  PROVE  /\ Moved(p)
         /\ \/ connState[c] = Active /\ pc'[p] = "remove" /\ ret'[p] = <<"check">> \o ret[p]
            \/ /\ connState[c] # Active /\ pc'[p] \in {"idle", "loop", "done", "stop", "check"}
               /\ pc'[p] = Head(ret[p]) /\ ret'[p] = Tail(ret[p])
<1>1. pc[p] = "close" BY DEF close
<1>2. CASE connState[c] = Active
  <2>1. CallThen(p, "remove", <<"check">>) BY <1>2, Zenon DEF close
  <2>2. ret[p] \in Short BY <1>1, Zenon DEF StackInv, StackOf
  <2>3. <<"check">> \o ret[p] \in Long BY <2>2, Stacks, Zenon
  <2>4. <<"check">> \o ret[p] \in Short \cup Long BY <2>3, Zenon
  <2>5. "remove" \in Labels BY Zenon DEF Labels, Notifying
  <2>6. ControlOK' /\ pc'[p] = "remove" /\ ret'[p] = <<"check">> \o ret[p] /\ OthersStay(p)
    BY <2>1, <2>4, <2>5, CallMoves, Zenon
  <2>7. StackOf(p)' BY <2>3, <2>6, Zenon DEF StackOf, Resting, Notifying
  <2> QED BY <1>2, <2>6, <2>7, Zenon DEF Moved
<1>3. CASE connState[c] # Active
  <2>1. Return(p) BY <1>3, Zenon DEF close
  <2> QED BY <1>1, <1>3, <2>1, Returns, Zenon
<1> QED BY <1>2, <1>3, Zenon

\* After stopExchanges the exchanges are checked.
LEMMA stopMoves ==
  ASSUME ControlOK, StackInv, NEW p \in Procs, NEW c \in Conns, stopExchanges(p, c)
  PROVE  Moved(p) /\ pc[p] = "stop" /\ pc'[p] = "check"
<1>1. pc[p] = "stop" /\ Goto(p, "check") BY Zenon DEF stopExchanges
<1>2. "check" \in Labels BY Zenon DEF Labels
<1>3. ControlOK' /\ pc'[p] = "check" /\ ret'[p] = ret[p] /\ OthersStay(p) BY <1>1, <1>2, GotoMoves, Zenon
<1>4. ret[p] \in Short BY <1>1, Zenon DEF StackInv, StackOf, Short
<1> QED BY <1>1, <1>3, <1>4, Zenon DEF Moved, StackOf, Resting, Notifying

\* checkExchanges makes the connection Closed or InboundClosed, or leaves it and returns.
LEMMA checkMoves ==
  ASSUME ControlOK, StackInv, NEW p \in Procs, NEW c \in Conns, checkExchanges(p, c)
  PROVE  /\ Moved(p) /\ pc[p] = "check"
         /\ \/ SetConn(c, Closed) /\ pc'[p] = "remove" /\ ret'[p] = ret[p]
            \/ /\ connState[c] = StartClose /\ SetConn(c, InboundClosed)
               /\ pc'[p] = "check2" /\ ret'[p] = ret[p]
            \/ /\ connState' = connState /\ (connState[c] = StartClose => c \in inCalls)
               /\ pc'[p] = Head(ret[p]) /\ ret'[p] = Tail(ret[p])
               /\ pc'[p] \in {"idle", "loop", "done", "stop", "check"}
<1>1. pc[p] = "check" BY Zenon DEF checkExchanges
<1>2. /\ pc[p] \in Notifying \cup {"check", "check2"} /\ pc[p] \in Notifying \cup {"close", "check"}
      /\ "remove" \in Notifying \cup {"check2"} /\ "check2" \in Notifying \cup {"check2"}
  BY <1>1, Zenon DEF Notifying
<1>3. CASE SetConn(c, Closed) /\ Goto(p, "remove") BY <1>1, <1>2, <1>3, GotoNotifies, Zenon
<1>4. CASE connState[c] = StartClose /\ SetConn(c, InboundClosed) /\ Goto(p, "check2")
  BY <1>1, <1>2, <1>4, GotoNotifies, Zenon
<1>5. CASE /\ UNCHANGED connState /\ Return(p)
           /\ \/ connState[c] \in {Closed, Active}
              \/ (connState[c] = StartClose /\ c \in inCalls) \/ connState[c] = InboundClosed
  <2>1. connState[c] = StartClose => c \in inCalls BY <1>5 DEF StartClose, Active, InboundClosed, Closed
  <2> QED BY <1>1, <1>2, <1>5, <2>1, Returns, Zenon
<1> QED BY <1>3, <1>4, <1>5, Zenon DEF checkExchanges

\* The second look of checkExchanges, for the outbound calls, ends in the callback.
LEMMA check2Moves ==
  ASSUME ControlOK, StackInv, NEW p \in Procs, NEW c \in Conns, checkOutbound(p, c)
  PROVE  Moved(p) /\ pc[p] = "check2" /\ pc'[p] = "remove" /\ ret'[p] = ret[p]
<1>1. pc[p] = "check2" /\ Goto(p, "remove") BY Zenon DEF checkOutbound
<1>2. pc[p] \in Notifying \cup {"check", "check2"} /\ "remove" \in Notifying \cup {"check2"} BY <1>1, Zenon DEF Notifying
<1> QED BY <1>1, <1>2, GotoNotifies, Zenon

\* The callback connectionCloseStateChange
LEMMA removeMoves ==
  ASSUME ControlOK, StackInv, NEW p \in Procs, NEW c \in Conns, removeClosedConn(p, c)
  PROVE  Moved(p) /\ pc[p] = "remove" /\ pc'[p] = "state" /\ ret'[p] = ret[p]
<1>1. pc[p] = "remove" /\ Goto(p, "state") BY Zenon DEF removeClosedConn
<1>2. pc[p] \in Notifying \cup {"check", "check2"} /\ "state" \in Notifying \cup {"check2"} BY <1>1, Zenon DEF Notifying
<1> QED BY <1>1, <1>2, GotoNotifies, Zenon

\* A callback goes on, or it returns.
Onward(p, l) ==
  \/ pc'[p] = l /\ ret'[p] = ret[p]
  \/ /\ pc'[p] \in {"idle", "loop", "done", "stop", "check"}
     /\ pc'[p] = Head(ret[p]) /\ ret'[p] = Tail(ret[p])

\* connectionCloseStateChange returns when the channel is not closing, or goes on to the
\* read lock.
LEMMA ReadMoves ==
  ASSUME ControlOK, StackInv, NEW p \in Procs, ReadState(p)
  PROVE  Moved(p) /\ pc[p] = "state" /\ Onward(p, "rlock")
<1>1. pc[p] = "state" /\ (Goto(p, "rlock") \/ Return(p)) BY Zenon DEF ReadState
<1>2. /\ pc[p] \in Notifying \cup {"check", "check2"} /\ pc[p] \in Notifying \cup {"close", "check"}
      /\ "rlock" \in Notifying \cup {"check2"}
  BY <1>1, Zenon DEF Notifying
<1>3. CASE Goto(p, "rlock") BY <1>1, <1>2, <1>3, GotoNotifies, Zenon DEF Onward
<1>4. CASE Return(p) BY <1>1, <1>2, <1>4, Returns, Zenon DEF Onward
<1> QED BY <1>1, <1>3, <1>4, Zenon

\* It takes the read lock.
LEMMA RLockMoves ==
  ASSUME ControlOK, StackInv, NEW p \in Procs, RLockConns(p)
  PROVE  Moved(p) /\ pc[p] = "rlock" /\ pc'[p] = "min" /\ ret'[p] = ret[p]
<1>1. pc[p] = "rlock" /\ Goto(p, "min") BY Zenon DEF RLockConns
<1>2. pc[p] \in Notifying \cup {"check", "check2"} /\ "min" \in Notifying \cup {"check2"} BY <1>1, Zenon DEF Notifying
<1> QED BY <1>1, <1>2, GotoNotifies, Zenon

\* It reads the connections one by one.
LEMMA minMoves ==
  ASSUME ControlOK, StackInv, NEW p \in Procs, getMinConnectionState(p)
  PROVE  Moved(p) /\ pc[p] = "min" /\ pc'[p] \in {"min", "update"} /\ ret'[p] = ret[p]
<1>1. pc[p] = "min" BY Zenon DEF getMinConnectionState
<1>2. pc[p] \in Notifying \cup {"check", "check2"} /\ "update" \in Notifying \cup {"check2"} BY <1>1, Zenon DEF Notifying
<1>3. CASE Goto(p, "update") BY <1>1, <1>2, <1>3, GotoNotifies, Zenon
<1>4. CASE UNCHANGED <<pc, ret>>
  BY <1>1, <1>4, Zenon DEF Moved, ControlOK, OthersStay, StackInv, StackOf
<1> QED BY <1>3, <1>4, Zenon DEF getMinConnectionState

\* It writes the state of the channel, and goes to onClosed if that is now Closed.
LEMMA UpdateMoves ==
  ASSUME ControlOK, StackInv, NEW p \in Procs, UpdateState(p)
  PROVE  Moved(p) /\ pc[p] = "update" /\ Onward(p, "onClosed")
<1>1. pc[p] = "update" /\ (Goto(p, "onClosed") \/ Return(p)) BY Zenon DEF UpdateState
<1>2. /\ pc[p] \in Notifying \cup {"check", "check2"} /\ pc[p] \in Notifying \cup {"close", "check"}
      /\ "onClosed" \in Notifying \cup {"check2"}
  BY <1>1, Zenon DEF Notifying
<1>3. CASE Goto(p, "onClosed") BY <1>1, <1>2, <1>3, GotoNotifies, Zenon DEF Onward
<1>4. CASE Return(p) BY <1>1, <1>2, <1>4, Returns, Zenon DEF Onward
<1> QED BY <1>1, <1>3, <1>4, Zenon

\* onClosed returns.
LEMMA onClosedMoves ==
  ASSUME ControlOK, StackInv, NEW p \in Procs, onClosed(p)
  PROVE  /\ Moved(p) /\ pc[p] = "onClosed" /\ pc'[p] \in {"idle", "loop", "done", "stop", "check"}
         /\ pc'[p] = Head(ret[p]) /\ ret'[p] = Tail(ret[p])
<1>1. pc[p] = "onClosed" /\ Return(p) BY Zenon DEF onClosed
<1>2. pc[p] \in Notifying \cup {"close", "check"} BY <1>1, Zenon DEF Notifying
<1> QED BY <1>1, <1>2, Returns, Zenon

\* The goroutines that open connections, and those of the calls
LEMMA OpenMoves ==
  ASSUME ControlOK, StackInv, NEW c \in Conns
  PROVE  LET o == Opener(c) IN
         /\ Open(c) => Moved(o) /\ pc[o] = "idle" /\ pc'[o] = "handshake"
         /\ HandshakeFails(c) => Moved(o) /\ pc[o] = "handshake" /\ pc'[o] = "done"
         /\ newConnection(c) => Moved(o) /\ pc[o] = "handshake" /\ pc'[o] = "add"
<1> DEFINE o == Opener(c)
<1>1. o \in Procs BY Names, Zenon
<1>2. "idle" \in Resting /\ "handshake" \in Resting /\ "done" \in Resting /\ "add" \in Resting
  BY Zenon DEF Resting
<1>3. ASSUME Open(c) PROVE Moved(o) /\ pc[o] = "idle" /\ pc'[o] = "handshake"
  <2>1. pc[o] = "idle" /\ Goto(o, "handshake") BY <1>3, Zenon DEF Open
  <2> QED BY <1>1, <1>2, <2>1, GotoRests, Zenon
<1>4. ASSUME HandshakeFails(c) PROVE Moved(o) /\ pc[o] = "handshake" /\ pc'[o] = "done"
  <2>1. pc[o] = "handshake" /\ Goto(o, "done") BY <1>4, Zenon DEF HandshakeFails
  <2> QED BY <1>1, <1>2, <2>1, GotoRests, Zenon
<1>5. ASSUME newConnection(c) PROVE Moved(o) /\ pc[o] = "handshake" /\ pc'[o] = "add"
  <2>1. pc[o] = "handshake" /\ Goto(o, "add") BY <1>5, Zenon DEF newConnection
  <2> QED BY <1>1, <1>2, <2>1, GotoRests, Zenon
<1> QED BY <1>3, <1>4, <1>5, Zenon

\* addConnection adds the connection to a channel that is not closing; else it closes it.
LEMMA addMoves ==
  ASSUME ControlOK, StackInv, NEW c \in Conns, addConnection(c)
  PROVE  LET o == Opener(c) IN
         /\ Moved(o) /\ pc[o] = "add"
         /\ \/ /\ pc'[o] = "done" /\ conns' = conns \cup {c} /\ connState[c] = Active
               /\ state \in {ChannelClient, ChannelListening}
            \/ pc'[o] = "close" /\ ret'[o] = <<"done">> /\ conns' = conns
<1> DEFINE o == Opener(c)
<1>1. o \in Procs /\ pc[o] = "add" BY Names, Zenon DEF addConnection
<1>2. "done" \in Resting /\ pc[o] \in Resting /\ <<"done">> \in Short /\ "close" \in {"close", "check", "onClosed"}
  BY <1>1, Zenon DEF Resting, Short
<1>3. CASE conns' = conns \cup {c} /\ Goto(o, "done")
  <2>1. (connState[c] = Active /\ state \in {ChannelClient, ChannelListening}) \/ CallThen(o, "close", <<"done">>)
    BY Zenon DEF addConnection
  <2>2. Moved(o) /\ pc'[o] = "done" BY <1>1, <1>2, <1>3, GotoRests, Zenon
  <2>3. CASE CallThen(o, "close", <<"done">>)
    <3>1. pc'[o] = "close" BY <1>1, <1>2, <2>3, CallStarts, Zenon
    <3> QED BY <2>2, <3>1, Zenon
  <2> QED BY <1>1, <1>3, <2>1, <2>2, <2>3, Zenon
<1>4. CASE UNCHANGED conns /\ CallThen(o, "close", <<"done">>)
  BY <1>1, <1>2, <1>4, CallStarts, Zenon
<1> QED BY <1>3, <1>4, Zenon DEF addConnection

\* The last call of a connection ends, and the exchanges are checked.
LEMMA EndMoves ==
  ASSUME ControlOK, StackInv, NEW p \in Procs, NEW c \in Conns, EndCalls(p, c)
  PROVE  Moved(p) /\ pc[p] = "idle" /\ pc'[p] = "check" /\ c \in inCalls \cup outCalls
<1>1. pc[p] = "idle" /\ CallThen(p, "check", <<"idle">>) /\ c \in inCalls \cup outCalls BY Zenon DEF EndCalls
<1>2. pc[p] \in Resting /\ <<"idle">> \in Short /\ "check" \in {"close", "check", "onClosed"}
  BY <1>1, Zenon DEF Resting, Short
<1> QED BY <1>1, <1>2, CallStarts, Zenon

\* A connection that has failed, or that the other side closes, is closed.
LEMMA CloseConnMoves ==
  ASSUME ControlOK, StackInv, NEW p \in Procs, NEW c \in Conns, CloseConn(p, c)
  PROVE  Moved(p) /\ pc[p] = "idle" /\ pc'[p] = "close" /\ (c \in conns \/ Done(c))
<1>1. /\ pc[p] = "idle" /\ (c \in conns \/ Done(c))
      /\ CallThen(p, "close", <<"idle">>) \/ CallThen(p, "close", <<"stop", "idle">>)
  BY Zenon DEF CloseConn, Done
<1>2. /\ pc[p] \in Resting /\ <<"idle">> \in Short /\ <<"stop", "idle">> \in Short
      /\ "close" \in {"close", "check", "onClosed"}
  BY <1>1, Zenon DEF Resting, Short
<1> QED BY <1>1, <1>2, CallStarts, Zenon

\* Channel.Close and the idle poller
LEMMA CloseMoves ==
  ASSUME ControlOK, StackInv, NEW k \in Closers, Close(k)
  PROVE  LET p == Closer(k) IN
         /\ p \in Procs /\ Moved(p) /\ pc[p] = "idle"
         /\ \/ pc'[p] = "done" /\ state = ChannelClosed /\ state' = state /\ todo' = todo
            \/ /\ state # ChannelClosed /\ conns = {} /\ state' = ChannelClosed
               /\ pc'[p] = "onClosed" /\ todo' = [todo EXCEPT ![p] = conns]
            \/ /\ state # ChannelClosed /\ conns # {} /\ state' = ChannelStartClose
               /\ pc'[p] = "loop" /\ todo' = [todo EXCEPT ![p] = conns]
<1> DEFINE p == Closer(k)
<1>1. p \in Procs /\ pc[p] = "idle" BY Names, Zenon DEF Close
<1>2. /\ pc[p] \in Resting /\ "done" \in Resting /\ "loop" \in Resting /\ <<"done">> \in Short
      /\ "onClosed" \in {"close", "check", "onClosed"}
  BY <1>1, Zenon DEF Resting, Short
<1>3. CASE state = ChannelClosed
  <2>1. Goto(p, "done") /\ state' = state /\ todo' = todo BY <1>3, Zenon DEF Close
  <2> QED BY <1>1, <1>2, <1>3, <2>1, GotoRests, Zenon
<1>4. CASE state # ChannelClosed /\ conns = {}
  <2>1. /\ CallThen(p, "onClosed", <<"done">>) /\ state' = ChannelClosed
        /\ todo' = [todo EXCEPT ![p] = conns]
    BY <1>4, Zenon DEF Close
  <2> QED BY <1>1, <1>2, <1>4, <2>1, CallStarts, Zenon
<1>5. CASE state # ChannelClosed /\ conns # {}
  <2>1. Goto(p, "loop") /\ state' = ChannelStartClose /\ todo' = [todo EXCEPT ![p] = conns]
    BY <1>5, Zenon DEF Close
  <2> QED BY <1>1, <1>2, <1>5, <2>1, GotoRests, Zenon
<1> QED BY <1>3, <1>4, <1>5, Zenon

\* One connection of the loop: the goroutine works on it, or it passes it over.
Takes(p) ==
  \/ pc'[p] \in {"done", "idle"} /\ conn' = [conn EXCEPT ![p] = {}] /\ todo' = todo
  \/ \E c \in todo[p] : /\ todo' = [todo EXCEPT ![p] = @ \ {c}]
                        /\ \/ pc'[p] = "close" /\ conn' = [conn EXCEPT ![p] = {c}]
                           \/ pc'[p] = "loop" /\ conn' = conn

\* The loop of Close
LEMMA CloseNextMoves ==
  ASSUME ControlOK, StackInv, NEW p \in Procs, CloseNext(p)
  PROVE  Moved(p) /\ pc[p] = "loop" /\ p[1] = "closer" /\ Takes(p)
<1>1. pc[p] = "loop" /\ p[1] = "closer" BY Zenon DEF CloseNext
<1>2. /\ pc[p] \in Resting /\ "done" \in Resting /\ <<"loop">> \in Short /\ "close" \in {"close", "check", "onClosed"}
  BY <1>1, Zenon DEF Resting, Short
<1>3. CASE todo[p] = {}
  <2>1. Goto(p, "done") /\ conn' = [conn EXCEPT ![p] = {}] /\ todo' = todo BY <1>3, Zenon DEF CloseNext
  <2> QED BY <1>1, <1>2, <2>1, GotoRests, Zenon DEF Takes
<1>4. CASE todo[p] # {}
  <2>1. PICK c \in todo[p] : /\ conn' = [conn EXCEPT ![p] = {c}] /\ todo' = [todo EXCEPT ![p] = @ \ {c}]
                             /\ CallThen(p, "close", <<"loop">>)
    BY <1>4, Zenon DEF CloseNext
  <2> QED BY <1>1, <1>2, <2>1, CallStarts, Zenon DEF Takes
<1> QED BY <1>3, <1>4, Zenon

\* The loop of the idle sweep
LEMMA SweepMoves ==
  ASSUME ControlOK, StackInv, SweepNext
  PROVE  Moved(Sweeper) /\ pc[Sweeper] = "loop" /\ Takes(Sweeper)
<1> DEFINE p == Sweeper
<1>1. p \in Procs /\ pc[p] = "loop" BY Names, Zenon DEF SweepNext
<1>2. /\ pc[p] \in Resting /\ "idle" \in Resting /\ <<"loop">> \in Short /\ "close" \in {"close", "check", "onClosed"}
  BY <1>1, Zenon DEF Resting, Short
<1>3. CASE todo[p] = {}
  <2>1. Goto(p, "idle") /\ conn' = [conn EXCEPT ![p] = {}] /\ todo' = todo BY <1>3, Zenon DEF SweepNext
  <2> QED BY <1>1, <1>2, <2>1, GotoRests, Zenon DEF Takes
<1>4. CASE todo[p] # {}
  <2>1. PICK c \in todo[p] :
          /\ todo' = [todo EXCEPT ![p] = @ \ {c}]
          /\ \/ conn' = [conn EXCEPT ![p] = {c}] /\ CallThen(p, "close", <<"loop">>)
             \/ UNCHANGED <<conn, pc, ret>>
    BY <1>4, Zenon DEF SweepNext
  <2>2. CASE CallThen(p, "close", <<"loop">>) /\ conn' = [conn EXCEPT ![p] = {c}]
    BY <1>1, <1>2, <2>1, <2>2, CallStarts, Zenon DEF Takes
  <2>3. CASE UNCHANGED <<conn, pc, ret>>
    <3>1. Moved(p) BY <1>1, <2>3, Zenon DEF Moved, ControlOK, OthersStay, StackInv, StackOf
    <3> QED BY <1>1, <2>1, <2>3, <3>1, Zenon DEF Takes
  <2> QED BY <2>1, <2>2, <2>3, Zenon
<1> QED BY <1>3, <1>4, Zenon

\* The idle sweep begins a round, or ends.
LEMMA SweeperMoves ==
  ASSUME ControlOK, StackInv, checkIdleConnections \/ SweepStops
  PROVE  Moved(Sweeper) /\ pc[Sweeper] = "idle" /\ pc'[Sweeper] \in {"loop", "done"}
<1>1. Sweeper \in Procs /\ pc[Sweeper] = "idle" /\ (Goto(Sweeper, "loop") \/ Goto(Sweeper, "done"))
  BY Names, Zenon DEF checkIdleConnections, SweepStops
<1>2. pc[Sweeper] \in Resting /\ "loop" \in Resting /\ "done" \in Resting BY <1>1, Zenon DEF Resting
<1> QED BY <1>1, <1>2, GotoRests, Zenon

\* Every step keeps the returns fitting.
LEMMA StackStep ==
  ASSUME ControlOK, StackInv, [Next]_vars
  PROVE  ControlOK' /\ StackInv'
<1>1. ASSUME NEW p \in Procs, Moved(p) PROVE ControlOK' /\ StackInv' BY <1>1, OneStack, Zenon DEF Moved
<1>2. CASE UNCHANGED <<pc, ret>> BY <1>2, Zenon DEF ControlOK, StackInv, StackOf
<1>3. ASSUME NEW p \in Procs, NEW c \in Conns,
             \/ close(p, c) \/ stopExchanges(p, c) \/ checkExchanges(p, c) \/ checkOutbound(p, c)
             \/ removeClosedConn(p, c) \/ EndCalls(p, c) \/ CloseConn(p, c)
      PROVE  ControlOK' /\ StackInv'
  BY <1>1, <1>3, closeMoves, stopMoves, checkMoves, check2Moves, removeMoves, EndMoves, CloseConnMoves, Zenon
<1>4. ASSUME NEW p \in Procs,
             \/ ReadState(p) \/ RLockConns(p) \/ getMinConnectionState(p) \/ UpdateState(p) \/ onClosed(p)
             \/ CloseNext(p)
      PROVE  ControlOK' /\ StackInv'
  BY <1>1, <1>4, ReadMoves, RLockMoves, minMoves, UpdateMoves, onClosedMoves, CloseNextMoves, Zenon
<1>5. ASSUME NEW c \in Conns, Open(c) \/ HandshakeFails(c) \/ newConnection(c) \/ addConnection(c)
      PROVE  ControlOK' /\ StackInv'
  BY <1>1, <1>5, Names, OpenMoves, addMoves, Zenon
<1>6. ASSUME SweepNext \/ checkIdleConnections \/ SweepStops PROVE ControlOK' /\ StackInv'
  BY <1>1, <1>6, Names, SweepMoves, SweeperMoves, Zenon
<1>7. ASSUME NEW k \in Closers, Close(k) PROVE ControlOK' /\ StackInv'
  BY <1>1, <1>7, CloseMoves, Zenon
<1>8. CASE Serve \/ \E c \in Conns : BeginCalls(c) BY <1>2, <1>8, Zenon DEF Serve, BeginCalls
<1>9. CASE UNCHANGED vars BY <1>2, <1>9, Zenon DEF vars
<1> QED BY <1>3, <1>4, <1>5, <1>6, <1>7, <1>8, <1>9, Zenon DEF Next, Step, Handshake
-----------------------------------------------------------------------------
\* What every step leaves as it is

\* A goroutine that is done stays so.
LEMMA DoneStays ==
  ASSUME ControlOK, StackInv, [Next]_vars, NEW q \in Procs, pc[q] = "done"
  PROVE  pc'[q] = "done"
<1>1. ASSUME NEW p \in Procs, Moved(p), pc[p] # "done" PROVE pc'[q] = "done"
  BY <1>1, Zenon DEF Moved, OthersStay
<1>2. ASSUME NEW p \in Procs, NEW c \in Conns,
             \/ close(p, c) \/ stopExchanges(p, c) \/ checkExchanges(p, c) \/ checkOutbound(p, c)
             \/ removeClosedConn(p, c) \/ EndCalls(p, c) \/ CloseConn(p, c)
      PROVE  pc'[q] = "done"
  <2>1. pc[p] # "done"
    BY <1>2, Zenon DEF close, stopExchanges, checkExchanges, checkOutbound, removeClosedConn, EndCalls, CloseConn
  <2> QED
    BY <1>1, <1>2, <2>1, closeMoves, stopMoves, checkMoves, check2Moves, removeMoves, EndMoves, CloseConnMoves, Zenon
<1>3. ASSUME NEW p \in Procs,
             \/ ReadState(p) \/ RLockConns(p) \/ getMinConnectionState(p) \/ UpdateState(p) \/ onClosed(p)
             \/ CloseNext(p)
      PROVE  pc'[q] = "done"
  <2>1. pc[p] # "done"
    BY <1>3, Zenon DEF ReadState, RLockConns, getMinConnectionState, UpdateState, onClosed, CloseNext
  <2> QED
    BY <1>1, <1>3, <2>1, ReadMoves, RLockMoves, minMoves, UpdateMoves, onClosedMoves, CloseNextMoves, Zenon
<1>4. ASSUME NEW c \in Conns, Open(c) \/ HandshakeFails(c) \/ newConnection(c) \/ addConnection(c)
      PROVE  pc'[q] = "done"
  <2>1. pc[Opener(c)] # "done" BY <1>4, Zenon DEF Open, HandshakeFails, newConnection, addConnection
  <2> QED BY <1>1, <1>4, <2>1, Names, OpenMoves, addMoves, Zenon
<1>5. ASSUME SweepNext \/ checkIdleConnections \/ SweepStops PROVE pc'[q] = "done"
  <2>1. pc[Sweeper] # "done" BY <1>5, Zenon DEF SweepNext, checkIdleConnections, SweepStops
  <2> QED BY <1>1, <1>5, <2>1, Names, SweepMoves, SweeperMoves, Zenon
<1>6. ASSUME NEW k \in Closers, Close(k) PROVE pc'[q] = "done"
  <2>1. pc[Closer(k)] # "done" BY <1>6, Zenon DEF Close
  <2> QED BY <1>1, <1>6, <2>1, CloseMoves, Zenon
<1>7. CASE Serve \/ (\E c \in Conns : BeginCalls(c)) \/ UNCHANGED vars BY <1>7, Zenon DEF Serve, BeginCalls, vars
<1> QED BY <1>2, <1>3, <1>4, <1>5, <1>6, <1>7, Zenon DEF Next, Step, Handshake

\* Only newConnection, close and checkExchanges move the state of a connection.
LinkStep(c) ==
  \/ newConnection(c)
  \/ \E p \in Procs : close(p, c) \/ checkExchanges(p, c) \/ checkOutbound(p, c)

\* Only the steps of LinkStep change the state of a connection.
LEMMA LinkUnmoved ==
  ASSUME [Next]_vars, ~\E c \in Conns : LinkStep(c)
  PROVE  connState' = connState
<1>1. \A p \in Procs, c \in Conns :
        stopExchanges(p, c) \/ removeClosedConn(p, c) \/ EndCalls(p, c) \/ CloseConn(p, c) => connState' = connState
  BY Zenon DEF stopExchanges, removeClosedConn, EndCalls, CloseConn, linkVars
<1>2. \A p \in Procs : ReadState(p) \/ RLockConns(p) \/ getMinConnectionState(p) => connState' = connState
  BY Zenon DEF ReadState, RLockConns, getMinConnectionState, linkVars
<1>3. \A p \in Procs : UpdateState(p) \/ onClosed(p) \/ CloseNext(p) => connState' = connState
  BY Zenon DEF UpdateState, onClosed, CloseNext, linkVars
<1>4. \A c \in Conns : Open(c) \/ HandshakeFails(c) \/ addConnection(c) \/ BeginCalls(c) => connState' = connState
  BY Zenon DEF Open, HandshakeFails, addConnection, BeginCalls, linkVars
<1>5. SweepNext \/ checkIdleConnections \/ SweepStops \/ Serve \/ UNCHANGED vars => connState' = connState
  BY Zenon DEF SweepNext, checkIdleConnections, SweepStops, Serve, linkVars, vars
<1>6. \A k \in Closers : Close(k) => connState' = connState BY Zenon DEF Close, linkVars
<1> QED BY <1>1, <1>2, <1>3, <1>4, <1>5, <1>6, Zenon DEF Next, Step, Handshake, LinkStep

\* They change that of one connection, and never turn it back.
LEMMA LinkMoves ==
  ASSUME connState \in [Conns -> 0..4], OpenerInv, NEW c \in Conns, LinkStep(c)
  PROVE  /\ connState' \in [Conns -> 0..4] /\ connState[c] <= connState'[c]
         /\ \A d \in Conns : d # c => connState'[d] = connState[d]
<1>1. ASSUME NEW s \in 0..4, SetConn(c, s), connState[c] <= s
      PROVE  /\ connState' \in [Conns -> 0..4] /\ connState[c] <= connState'[c]
             /\ \A d \in Conns : d # c => connState'[d] = connState[d]
  <2>1. connState' \in [Conns -> 0..4] /\ connState'[c] = s BY <1>1, Zenon DEF SetConn
  <2>2. \A d \in Conns : d # c => connState'[d] = connState[d] BY <1>1, Zenon DEF SetConn
  <2> QED BY <1>1, <2>1, <2>2, Zenon
<1>2. connState[c] \in 0..4 BY Zenon
<1>3. connState' = connState => /\ connState' \in [Conns -> 0..4] /\ connState[c] <= connState'[c]
                                /\ \A d \in Conns : d # c => connState'[d] = connState[d]
  BY <1>2
<1>4. CASE newConnection(c)
  <2>1. SetConn(c, 1) /\ connState[c] = 0
    BY <1>4, Zenon DEF newConnection, OpenerInv, OpenerOf, Active, NotOpen
  <2> QED BY <1>1, <2>1
<1>5. ASSUME NEW p \in Procs, close(p, c)
      PROVE  (SetConn(c, 2) /\ connState[c] = 1) \/ connState' = connState
  BY <1>5, Zenon DEF close, StartClose, Active
<1>6. ASSUME NEW p \in Procs, checkExchanges(p, c)
      PROVE  SetConn(c, 4) \/ (SetConn(c, 3) /\ connState[c] = 2) \/ connState' = connState
  BY <1>6, Zenon DEF checkExchanges, StartClose, InboundClosed, Closed
<1>7. ASSUME NEW p \in Procs, checkOutbound(p, c) PROVE SetConn(c, 4) \/ connState' = connState
  BY <1>7, Zenon DEF checkOutbound, Closed
<1>8. CASE SetConn(c, 2) /\ connState[c] = 1 BY <1>1, <1>8
<1>9. CASE SetConn(c, 3) /\ connState[c] = 2 BY <1>1, <1>9
<1>10. CASE SetConn(c, 4) BY <1>1, <1>2, <1>10
<1> QED BY <1>3, <1>4, <1>5, <1>6, <1>7, <1>8, <1>9, <1>10, Zenon DEF LinkStep

\* No step turns the state of a connection back.
LEMMA LinkGrows ==
  ASSUME connState \in [Conns -> 0..4], OpenerInv, [Next]_vars
  PROVE  connState' \in [Conns -> 0..4] /\ \A c \in Conns : connState[c] <= connState'[c]
<1>1. \A c \in Conns : connState[c] <= connState[c] OBVIOUS
<1>2. CASE ~\E c \in Conns : LinkStep(c) BY <1>1, <1>2, LinkUnmoved, Zenon
<1>3. ASSUME NEW c \in Conns, LinkStep(c) PROVE connState' \in [Conns -> 0..4] /\ \A d \in Conns : connState[d] <= connState'[d]
  BY <1>1, <1>3, LinkMoves, Zenon
<1> QED BY <1>2, <1>3, Zenon

\* A connection leaves the map when it is Closed, and comes into it by addConnection.
LEMMA ConnsMove ==
  ASSUME conns \in SUBSET Conns, [Next]_vars
  PROVE  /\ conns' \in SUBSET Conns
         /\ \A c \in conns : c \in conns' \/ connState[c] = Closed
         /\ \A c \in conns' : c \in conns \/ addConnection(c)
<1>1. CASE conns' = conns BY <1>1, Zenon
<1>2. ASSUME NEW p \in Procs, NEW c \in Conns, removeClosedConn(p, c)
      PROVE  conns' = conns \/ (conns' = conns \ {c} /\ connState[c] = Closed)
  BY <1>2, Zenon DEF removeClosedConn
<1>3. ASSUME NEW c \in Conns, addConnection(c) PROVE conns' = conns \cup {c} \/ conns' = conns
  BY <1>3, Zenon DEF addConnection
<1>4. \A p \in Procs, c \in Conns :
        close(p, c) \/ stopExchanges(p, c) \/ checkExchanges(p, c) \/ checkOutbound(p, c)
          \/ EndCalls(p, c) \/ CloseConn(p, c) => conns' = conns
  <2>1. \A p \in Procs, c \in Conns : close(p, c) \/ stopExchanges(p, c) => conns' = conns
    BY Zenon DEF close, stopExchanges, chanVars
  <2>2. \A p \in Procs, c \in Conns : checkExchanges(p, c) \/ checkOutbound(p, c) => conns' = conns
    BY Zenon DEF checkExchanges, checkOutbound, chanVars
  <2>3. \A p \in Procs, c \in Conns : EndCalls(p, c) \/ CloseConn(p, c) => conns' = conns
    BY Zenon DEF EndCalls, CloseConn, chanVars
  <2> QED BY <2>1, <2>2, <2>3, Zenon
<1>5. \A p \in Procs :
        ReadState(p) \/ RLockConns(p) \/ getMinConnectionState(p) \/ UpdateState(p) => conns' = conns
  BY Zenon DEF ReadState, RLockConns, getMinConnectionState, UpdateState, chanVars
<1>6. \A p \in Procs : onClosed(p) \/ CloseNext(p) => conns' = conns BY Zenon DEF onClosed, CloseNext, chanVars
<1>7. \A c \in Conns : Open(c) \/ HandshakeFails(c) \/ newConnection(c) \/ BeginCalls(c) => conns' = conns
  BY Zenon DEF Open, HandshakeFails, newConnection, BeginCalls, chanVars
<1>8. SweepNext \/ checkIdleConnections \/ SweepStops \/ Serve \/ UNCHANGED vars => conns' = conns
  BY Zenon DEF SweepNext, checkIdleConnections, SweepStops, Serve, chanVars, vars
<1>9. \A k \in Closers : Close(k) => conns' = conns BY Zenon DEF Close
<1>10. CASE \E p \in Procs, c \in Conns : removeClosedConn(p, c) BY <1>1, <1>2, <1>10, Zenon
<1>11. CASE \E c \in Conns : addConnection(c) BY <1>1, <1>3, <1>11, Zenon
<1> QED BY <1>1, <1>4, <1>5, <1>6, <1>7, <1>8, <1>9, <1>10, <1>11, Zenon DEF Next, Step, Handshake
-----------------------------------------------------------------------------
\* A connection belongs to the goroutine that opens it until that one is done.

\* Until the opening of c ends, only its opener changes the state of c.
LEMMA OpenerAlone ==
  ASSUME OpenerInv, TouchInv, connState \in [Conns -> 0..4], [Next]_vars, NEW c \in Conns, ~Done(c)
  PROVE  /\ c \notin conns \cup inCalls \cup outCalls \cup stopped
         /\ \A p \in Procs : close(p, c) \/ checkExchanges(p, c) \/ checkOutbound(p, c) => p = Opener(c)
         /\ \/ connState'[c] = connState[c] \/ newConnection(c)
            \/ close(Opener(c), c) \/ checkExchanges(Opener(c), c) \/ checkOutbound(Opener(c), c)
<1>1. c \notin conns \cup inCalls \cup outCalls \cup stopped BY Zenon DEF TouchInv
<1>2. ASSUME NEW p \in Procs, close(p, c) \/ checkExchanges(p, c) \/ checkOutbound(p, c) PROVE p = Opener(c)
  <2>1. conn[p] = {c} /\ pc[p] \in {"close", "check", "check2"}
    BY <1>2, Zenon DEF close, checkExchanges, checkOutbound
  <2>2. Working(p) BY <2>1, Zenon DEF Working, Resting
  <2> QED BY <2>1, <2>2, Zenon DEF TouchInv
<1>3. CASE LinkStep(c) BY <1>1, <1>2, <1>3, Zenon DEF LinkStep
<1>4. CASE ~LinkStep(c)
  <2>1. CASE \E d \in Conns : LinkStep(d) BY <1>1, <1>2, <1>4, <2>1, LinkMoves, Zenon
  <2>2. CASE ~\E d \in Conns : LinkStep(d) BY <1>1, <1>2, <2>2, LinkUnmoved, Zenon
  <2> QED BY <2>1, <2>2, Zenon
<1> QED BY <1>1, <1>2, <1>3, <1>4, Zenon

\* connState after SetConn
LEMMA SetDoes ==
  ASSUME connState \in [Conns -> 0..4], NEW c \in Conns, NEW s, SetConn(c, s) PROVE connState'[c] = s
BY Zenon DEF SetConn

\* A connection that never opened, or is Closed, and that nobody is opening stays so.
LEMMA ClosedStays ==
  ASSUME connState \in [Conns -> 0..4], OpenerInv, [Next]_vars, NEW c \in Conns, Done(c),
         connState[c] \in {NotOpen, Closed}
  PROVE  connState'[c] \in {NotOpen, Closed}
<1>1. CASE ~LinkStep(c)
  <2>1. CASE \E d \in Conns : LinkStep(d) BY <1>1, <2>1, LinkMoves, Zenon
  <2>2. CASE ~\E d \in Conns : LinkStep(d) BY <2>2, LinkUnmoved, Zenon
  <2> QED BY <2>1, <2>2, Zenon
<1>2. connState[c] # Active /\ connState[c] # StartClose /\ connState[c] # InboundClosed
  BY DEF NotOpen, Active, StartClose, InboundClosed, Closed
<1>3. CASE newConnection(c) BY <1>3, Zenon DEF newConnection, Done
<1>4. ASSUME NEW p \in Procs, close(p, c) \/ checkExchanges(p, c) \/ checkOutbound(p, c)
      PROVE  connState'[c] \in {NotOpen, Closed}
  <2>1. connState' = connState \/ SetConn(c, Closed)
    BY <1>2, <1>4, Zenon DEF close, checkExchanges, checkOutbound
  <2> QED BY <2>1, SetDoes, Zenon
<1> QED BY <1>1, <1>3, <1>4, Zenon DEF LinkStep

\* The callback, run by the goroutine that opens the connection
LEMMA OpenerNotifies ==
  ASSUME NEW c \in Conns, OpenerOf(c), connState'[c] = connState[c], pc[Opener(c)] \in Notifying,
         \E l \in Notifying : Onward(Opener(c), l)
  PROVE  OpenerOf(c)'
<1> DEFINE o == Opener(c)
<1>1. PICK l \in Notifying : Onward(o, l) OBVIOUS
<1>2. \/ connState[c] = StartClose /\ ret[o] = <<"check", "done">>
      \/ connState[c] = Closed /\ ret[o] = <<"done">>
  BY Zenon DEF OpenerOf
<1>3. CASE pc'[o] \in Notifying /\ ret'[o] = ret[o]
  BY <1>2, <1>3, Zenon DEF OpenerOf, Notifying
<1>4. CASE pc'[o] = Head(ret[o]) /\ ret'[o] = Tail(ret[o])
  <2>1. /\ Head(<<"check", "done">>) = "check" /\ Head(<<"done">>) = "done"
        /\ Tail(<<"check", "done">>) = <<"done">>
    OBVIOUS
  <2>2. CASE connState[c] = StartClose /\ ret[o] = <<"check", "done">>
    <3>1. pc'[o] = "check" /\ ret'[o] = <<"done">> /\ connState'[c] = StartClose BY <1>4, <2>1, <2>2, Zenon
    <3> QED BY <3>1, Zenon DEF OpenerOf, Notifying
  <2>3. CASE connState[c] = Closed /\ ret[o] = <<"done">>
    <3>1. pc'[o] = "done" BY <1>4, <2>1, <2>3, Zenon
    <3>2. connState'[c] = Closed BY <2>3, Zenon
    <3> QED BY <3>1, <3>2, Zenon DEF OpenerOf, Notifying
  <2> QED BY <1>2, <2>2, <2>3, Zenon
<1> QED BY <1>1, <1>3, <1>4, Zenon DEF Onward

\* Every step keeps what the openers know.
LEMMA OpenerStep ==
  ASSUME ControlOK, StackInv, OpenerInv, TouchInv, connState \in [Conns -> 0..4], conns \in SUBSET Conns, [Next]_vars
  PROVE  OpenerInv'
<1> SUFFICES ASSUME NEW c \in Conns PROVE OpenerOf(c)' BY Zenon DEF OpenerInv
<1> DEFINE o == Opener(c)
<1>1. o \in Procs /\ OpenerOf(c) /\ conn[o] = {c} BY Names, Zenon DEF OpenerInv, TouchInv
<1>2. CASE Done(c)
  <2>1. pc'[o] = "done" BY <1>1, <1>2, DoneStays, Zenon DEF Done
  <2>2. c \in conns \/ connState[c] \in {NotOpen, Closed} BY <1>1, <1>2, Zenon DEF OpenerOf, Done
  <2>3. c \in conns' \/ connState[c] \in {NotOpen, Closed} BY <2>2, ConnsMove, Zenon
  <2>4. connState[c] \in {NotOpen, Closed} => connState'[c] \in {NotOpen, Closed}
    BY <1>1, <1>2, ClosedStays, Zenon
  <2> QED BY <2>1, <2>3, <2>4, Zenon DEF OpenerOf, Notifying
<1> SUFFICES ASSUME ~Done(c) PROVE OpenerOf(c)' BY <1>2, Zenon
<1>3. c \notin conns \cup inCalls \cup outCalls \cup stopped BY OpenerAlone, Zenon
<1>4. ASSUME pc'[o] = pc[o], ret'[o] = ret[o], connState'[c] = connState[c] PROVE OpenerOf(c)'
  BY <1>1, <1>4, Zenon DEF OpenerOf, Done
<1>5. /\ \A p \in Procs : close(p, c) \/ checkExchanges(p, c) \/ checkOutbound(p, c) => p = o
      /\ \/ connState'[c] = connState[c] \/ newConnection(c)
         \/ close(o, c) \/ checkExchanges(o, c) \/ checkOutbound(o, c)
  BY OpenerAlone, Zenon
<1>6. pc[o] \notin {"loop", "stop"} BY <1>1, Zenon DEF OpenerOf
<1>7. CASE newConnection(c)
  <2>1. pc'[o] = "add" /\ SetConn(c, Active) BY <1>7, OpenMoves, Zenon DEF newConnection
  <2> QED BY <2>1, SetDoes, Zenon DEF OpenerOf, Notifying
<1>8. CASE close(o, c)
  <2>1. connState[c] = Active /\ ret[o] = <<"done">> BY <1>1, <1>8, Zenon DEF OpenerOf, close
  <2>2. pc'[o] = "remove" /\ ret'[o] = <<"check">> \o ret[o] BY <1>1, <1>8, <2>1, closeMoves, Zenon
  <2>3. ret'[o] = <<"check", "done">> BY <2>1, <2>2, Two, Zenon
  <2>4. connState'[c] = StartClose BY <1>8, <2>1, SetDoes, Zenon DEF close
  <2> QED BY <2>2, <2>3, <2>4, Zenon DEF OpenerOf, Notifying
<1>9. CASE checkExchanges(o, c)
  <2>1. pc[o] = "check" BY <1>9, Zenon DEF checkExchanges
  <2>2. connState[c] = StartClose /\ ret[o] = <<"done">> BY <1>1, <2>1, Zenon DEF OpenerOf
  <2>3. \/ SetConn(c, Closed) /\ pc'[o] = "remove" /\ ret'[o] = ret[o]
        \/ SetConn(c, InboundClosed) /\ pc'[o] = "check2" /\ ret'[o] = ret[o]
    BY <1>1, <1>3, <1>9, <2>2, checkMoves, Zenon
  <2> QED BY <2>2, <2>3, SetDoes, Zenon DEF OpenerOf, Notifying
<1>10. CASE checkOutbound(o, c)
  <2>1. pc[o] = "check2" /\ pc'[o] = "remove" /\ ret'[o] = ret[o] BY <1>1, <1>10, check2Moves, Zenon
  <2>2. connState[c] = InboundClosed /\ ret[o] = <<"done">> BY <1>1, <2>1, Zenon DEF OpenerOf
  <2>3. SetConn(c, Closed) BY <1>3, <1>10, <2>2, Zenon DEF checkOutbound
  <2> QED BY <2>1, <2>2, <2>3, SetDoes, Zenon DEF OpenerOf, Notifying
<1> SUFFICES ASSUME connState'[c] = connState[c], ~newConnection(c), ~close(o, c), ~checkExchanges(o, c), ~checkOutbound(o, c)
             PROVE  OpenerOf(c)'
  BY <1>5, <1>7, <1>8, <1>9, <1>10, Zenon
<1>11. ASSUME NEW p \in Procs, p # o, Moved(p) PROVE OpenerOf(c)'
  BY <1>1, <1>4, <1>11, Zenon DEF Moved, OthersStay
<1>12. ASSUME NEW l \in Notifying, pc[o] \in Notifying, Onward(o, l) PROVE OpenerOf(c)'
  BY <1>1, <1>12, OpenerNotifies, Zenon
<1>13. ASSUME NEW p \in Procs, NEW d \in Conns,
              \/ close(p, d) \/ stopExchanges(p, d) \/ checkExchanges(p, d) \/ checkOutbound(p, d)
              \/ EndCalls(p, d) \/ CloseConn(p, d)
       PROVE  OpenerOf(c)'
  <2>1. CASE p # o
    BY <1>11, <1>13, <2>1, closeMoves, stopMoves, checkMoves, check2Moves, EndMoves, CloseConnMoves, Zenon
  <2>2. CASE p = o
    <3>1. d = c
      BY <1>1, <1>13, <2>2, Zenon DEF close, stopExchanges, checkExchanges, checkOutbound, EndCalls, CloseConn
    <3>2. stopExchanges(o, c) \/ EndCalls(o, c) \/ CloseConn(o, c) BY <1>13, <2>2, <3>1, Zenon
    <3> QED BY <1>1, <1>3, <1>6, <3>2, Zenon DEF stopExchanges, EndCalls, CloseConn, Done
  <2> QED BY <2>1, <2>2, Zenon
<1>14. ASSUME NEW p \in Procs, NEW d \in Conns, removeClosedConn(p, d) PROVE OpenerOf(c)'
  <2>1. Moved(p) /\ pc[p] = "remove" /\ Onward(p, "state") BY <1>14, removeMoves, Zenon DEF Onward
  <2>2. "remove" \in Notifying /\ "state" \in Notifying BY Zenon DEF Notifying
  <2> QED BY <1>11, <1>12, <2>1, <2>2, Zenon
<1>15. ASSUME NEW p \in Procs, ReadState(p) \/ RLockConns(p) \/ getMinConnectionState(p) \/ UpdateState(p) \/ onClosed(p)
       PROVE  OpenerOf(c)'
  <2>1. Moved(p) /\ pc[p] \in {"state", "rlock", "min", "update", "onClosed"}
    BY <1>15, ReadMoves, RLockMoves, minMoves, UpdateMoves, onClosedMoves, Zenon
  <2>2. Onward(p, "rlock") \/ Onward(p, "min") \/ Onward(p, "update") \/ Onward(p, "onClosed")
    BY <1>15, ReadMoves, RLockMoves, minMoves, UpdateMoves, onClosedMoves, Zenon DEF Onward
  <2>3. pc[p] \in Notifying /\ "rlock" \in Notifying /\ "min" \in Notifying /\ "update" \in Notifying /\ "onClosed" \in Notifying
    BY <2>1, Zenon DEF Notifying
  <2> QED BY <1>11, <1>12, <2>1, <2>2, <2>3, Zenon
<1>16. ASSUME NEW p \in Procs, CloseNext(p) PROVE OpenerOf(c)'
  BY <1>6, <1>11, <1>16, CloseNextMoves, Zenon
<1>17. ASSUME NEW d \in Conns, Open(d) \/ HandshakeFails(d) \/ newConnection(d) \/ addConnection(d)
       PROVE  OpenerOf(c)'
  <2>1. CASE d # c
    <3>1. Opener(d) # o /\ Opener(d) \in Procs BY <2>1, Names, Zenon
    <3> QED BY <1>11, <1>17, <3>1, OpenMoves, addMoves, Zenon
  <2>2. CASE Open(c)
    <3>1. pc[o] = "idle" /\ pc'[o] = "handshake" BY <2>2, OpenMoves, Zenon
    <3> QED BY <1>1, <3>1, Zenon DEF OpenerOf, Notifying
  <2>3. CASE HandshakeFails(c)
    <3>1. pc[o] = "handshake" /\ pc'[o] = "done" BY <2>3, OpenMoves, Zenon
    <3>2. connState'[c] = NotOpen BY <1>1, <3>1, Zenon DEF OpenerOf
    <3> QED BY <3>1, <3>2, Zenon DEF OpenerOf, Notifying
  <2>4. CASE addConnection(c)
    <3>1. /\ pc[o] = "add"
          /\ (pc'[o] = "done" /\ conns' = conns \cup {c}) \/ (pc'[o] = "close" /\ ret'[o] = <<"done">>)
      BY <2>4, addMoves, Zenon
    <3>2. connState[c] = Active BY <1>1, <3>1, Zenon DEF OpenerOf
    <3> QED BY <3>1, <3>2, Zenon DEF OpenerOf, Notifying
  <2> QED BY <1>17, <2>1, <2>2, <2>3, <2>4, Zenon
<1>18. ASSUME SweepNext \/ checkIdleConnections \/ SweepStops PROVE OpenerOf(c)'
  BY <1>11, <1>18, Names, SweepMoves, SweeperMoves, Zenon
<1>19. ASSUME NEW k \in Closers, Close(k) PROVE OpenerOf(c)'
  BY <1>11, <1>19, Names, CloseMoves, Zenon
<1>20. CASE Serve \/ (\E d \in Conns : BeginCalls(d)) \/ UNCHANGED vars
  BY <1>4, <1>20, Zenon DEF Serve, BeginCalls, vars
<1> QED BY <1>13, <1>14, <1>15, <1>16, <1>17, <1>18, <1>19, <1>20, Zenon DEF Next, Step, Handshake
-----------------------------------------------------------------------------
\* Nobody else touches a connection before the goroutine that opens it is done.

\* A call begins on a connection in the map; exchanges are stopped only by stopExchanges.
LEMMA CallsMove ==
  ASSUME [Next]_vars
  PROVE  \/ inCalls' \subseteq inCalls /\ outCalls' \subseteq outCalls /\ stopped' = stopped
         \/ /\ \E c \in conns : inCalls' \subseteq inCalls \cup {c} /\ outCalls' \subseteq outCalls \cup {c}
            /\ stopped' = stopped
         \/ /\ inCalls' = inCalls /\ outCalls' = outCalls
            /\ \E p \in Procs, c \in Conns : stopExchanges(p, c) /\ stopped' = stopped \cup {c}
<1> DEFINE Same == inCalls' = inCalls /\ outCalls' = outCalls /\ stopped' = stopped
<1>1. \A p \in Procs, c \in Conns : stopExchanges(p, c) =>
        inCalls' = inCalls /\ outCalls' = outCalls /\ stopped' = stopped \cup {c}
  BY Zenon DEF stopExchanges
<1>2. \A c \in Conns : BeginCalls(c) =>
        c \in conns /\ inCalls' \subseteq inCalls \cup {c} /\ outCalls' \subseteq outCalls \cup {c} /\ stopped' = stopped
  BY Zenon DEF BeginCalls
<1>3. \A p \in Procs, c \in Conns : EndCalls(p, c) =>
        inCalls' \subseteq inCalls /\ outCalls' \subseteq outCalls /\ stopped' = stopped
  BY Zenon DEF EndCalls
<1>4. \A p \in Procs, c \in Conns :
        close(p, c) \/ checkExchanges(p, c) \/ checkOutbound(p, c) \/ removeClosedConn(p, c) \/ CloseConn(p, c) => Same
  <2>1. \A p \in Procs, c \in Conns : close(p, c) \/ removeClosedConn(p, c) \/ CloseConn(p, c) => Same
    BY Zenon DEF close, removeClosedConn, CloseConn, linkVars
  <2>2. \A p \in Procs, c \in Conns : checkExchanges(p, c) \/ checkOutbound(p, c) => Same
    BY Zenon DEF checkExchanges, checkOutbound, linkVars
  <2> QED BY <2>1, <2>2, Zenon
<1>5. \A p \in Procs : ReadState(p) \/ RLockConns(p) \/ getMinConnectionState(p) => Same
  BY Zenon DEF ReadState, RLockConns, getMinConnectionState, linkVars
<1>6. \A p \in Procs : UpdateState(p) \/ onClosed(p) \/ CloseNext(p) => Same
  BY Zenon DEF UpdateState, onClosed, CloseNext, linkVars
<1>7. \A c \in Conns : Open(c) \/ HandshakeFails(c) \/ newConnection(c) \/ addConnection(c) => Same
  BY Zenon DEF Open, HandshakeFails, newConnection, addConnection, linkVars
<1>8. SweepNext \/ checkIdleConnections \/ SweepStops \/ Serve \/ UNCHANGED vars => Same
  BY Zenon DEF SweepNext, checkIdleConnections, SweepStops, Serve, linkVars, vars
<1>9. \A k \in Closers : Close(k) => Same BY Zenon DEF Close, linkVars
<1> HIDE DEF Same
<1>10. \/ Same \/ (\E p \in Procs, c \in Conns : stopExchanges(p, c)) \/ (\E c \in Conns : BeginCalls(c))
       \/ \E p \in Procs, c \in Conns : EndCalls(p, c)
  BY <1>4, <1>5, <1>6, <1>7, <1>8, <1>9, Zenon DEF Next, Step, Handshake
<1> QED BY <1>1, <1>2, <1>3, <1>10, Zenon DEF Same

\* What the channel has of connections after a step are connections whose opening has ended.
LEMMA TouchedSets ==
  ASSUME ControlOK, StackInv, OpenerInv, TouchInv, conns \in SUBSET Conns, [Next]_vars
  PROVE  conns' \cup inCalls' \cup outCalls' \cup stopped' \subseteq {c \in Conns : Done(c)'}
<1>1. \A c \in Conns : Done(c) => Done(c)' BY Names, DoneStays, Zenon DEF Done
<1>2. conns \cup inCalls \cup outCalls \cup stopped \subseteq {c \in Conns : Done(c)} BY Zenon DEF TouchInv
<1>3. \A c \in conns' : c \in Conns /\ Done(c)'
  <2>1. \A c \in conns' : c \in Conns /\ (c \in conns \/ addConnection(c)) BY ConnsMove, Zenon
  <2>2. ASSUME NEW c \in conns', c \notin conns PROVE Done(c)'
    <3>1. c \in Conns /\ addConnection(c) BY <2>1, <2>2, Zenon
    <3> QED BY <2>2, <3>1, addMoves, Zenon DEF Done
  <2> QED BY <1>1, <1>2, <2>1, <2>2, Zenon
<1>4. ASSUME NEW p \in Procs, NEW c \in Conns, stopExchanges(p, c) PROVE Done(c)
  <2>1. conn[p] = {c} /\ pc[p] = "stop" BY <1>4, Zenon DEF stopExchanges
  <2>2. Working(p) BY <2>1, Zenon DEF Working, Resting
  <2>3. p # Opener(c) BY <2>1, Zenon DEF OpenerInv, OpenerOf
  <2> QED BY <2>1, <2>2, <2>3, Zenon DEF TouchInv
<1>5. inCalls' \cup outCalls' \cup stopped' \subseteq {c \in Conns : Done(c)}
  BY <1>2, <1>4, CallsMove, Zenon
<1> QED BY <1>1, <1>3, <1>5, Zenon

\* A step that takes no connection from the map keeps TouchInv, if p goes on with the
\* connection it has.
LEMMA TouchKeeps ==
  ASSUME ControlOK, StackInv, OpenerInv, TouchInv, conns \in SUBSET Conns, [Next]_vars,
         NEW p \in Procs, Moved(p), conn' = conn, todo' = todo,
         \A c \in Conns : conn[p] = {c} /\ Working(p)' /\ p # Opener(c) => Done(c)
  PROVE  TouchInv'
<1>1. \A c \in Conns : Done(c) => Done(c)' BY Names, DoneStays, Zenon DEF Done
<1>2. conns' \cup inCalls' \cup outCalls' \cup stopped' \subseteq {c \in Conns : Done(c)'} BY TouchedSets, Zenon
<1>3. \A c \in Conns : conn'[Opener(c)] = {c} BY Zenon DEF TouchInv
<1>4. \A q \in Procs : q # p => (Working(q)' => Working(q)) BY Zenon DEF Moved, OthersStay, Working
<1>5. \A q \in Procs : \A c \in Conns : conn'[q] = {c} /\ Working(q)' /\ q # Opener(c) => Done(c)'
  BY <1>1, <1>4, Zenon DEF TouchInv
<1>6. \A q \in Procs : todo'[q] \subseteq {c \in Conns : Done(c)'} BY <1>1, Zenon DEF TouchInv
<1> QED BY <1>2, <1>3, <1>5, <1>6, Zenon DEF TouchInv

\* A goroutine takes connections from its list, or begins with a list of connections of the map.
LEMMA TouchTakes ==
  ASSUME ControlOK, StackInv, OpenerInv, TouchInv, conns \in SUBSET Conns, [Next]_vars,
         conn \in [Procs -> SUBSET Conns], todo \in [Procs -> SUBSET Conns],
         NEW p \in Procs, Moved(p), \A c \in Conns : p # Opener(c),
         NEW left \in SUBSET (todo[p] \cup conns), todo' = [todo EXCEPT ![p] = left],
         \/ ~Working(p)' /\ (conn' = conn \/ conn' = [conn EXCEPT ![p] = {}])
         \/ \E c \in todo[p] : conn' = [conn EXCEPT ![p] = {c}]
  PROVE  TouchInv'
<1>1. \A c \in Conns : Done(c) => Done(c)' BY Names, DoneStays, Zenon DEF Done
<1>2. conns' \cup inCalls' \cup outCalls' \cup stopped' \subseteq {c \in Conns : Done(c)'} BY TouchedSets, Zenon
<1>3. \A q \in Procs : q # p => conn'[q] = conn[q] BY Zenon
<1>4. \A c \in Conns : conn'[Opener(c)] = {c} BY <1>3, Names, Zenon DEF TouchInv
<1>5. \A q \in Procs : q # p => (Working(q)' => Working(q)) BY Zenon DEF Moved, OthersStay, Working
<1>6. ASSUME NEW c \in Conns, conn'[p] = {c}, Working(p)' PROVE Done(c)
  <2>1. PICK d \in todo[p] : conn' = [conn EXCEPT ![p] = {d}] BY <1>6, Zenon
  <2>2. d = c BY <1>6, <2>1, Zenon
  <2> QED BY <2>2, Zenon DEF TouchInv
<1>7. \A q \in Procs : \A c \in Conns : conn'[q] = {c} /\ Working(q)' /\ q # Opener(c) => Done(c)'
  BY <1>1, <1>3, <1>5, <1>6, Zenon DEF TouchInv
<1>8. todo'[p] = left /\ \A q \in Procs : q # p => todo'[q] = todo[q] BY Zenon
<1>9. \A q \in Procs : todo'[q] \subseteq {c \in Conns : Done(c)'}
  BY <1>1, <1>8, Zenon DEF TouchInv
<1> QED BY <1>2, <1>4, <1>7, <1>9, Zenon DEF TouchInv

\* Every step keeps TouchInv.
LEMMA TouchStep ==
  ASSUME ControlOK, StackInv, OpenerInv, TouchInv, conns \in SUBSET Conns,
         conn \in [Procs -> SUBSET Conns], todo \in [Procs -> SUBSET Conns], [Next]_vars
  PROVE  TouchInv'
<1>1. ASSUME NEW p \in Procs, Moved(p), conn' = conn, todo' = todo, Working(p)' => Working(p) PROVE TouchInv'
  <2>1. \A c \in Conns : conn[p] = {c} /\ Working(p)' /\ p # Opener(c) => Done(c) BY <1>1, Zenon DEF TouchInv
  <2> QED BY <1>1, <2>1, TouchKeeps, Zenon
<1>2. ASSUME NEW p \in Procs, NEW c \in Conns,
             \/ close(p, c) \/ stopExchanges(p, c) \/ checkExchanges(p, c) \/ checkOutbound(p, c)
             \/ removeClosedConn(p, c)
      PROVE  TouchInv'
  <2>1. conn' = conn /\ todo' = todo
    BY <1>2, Zenon DEF close, stopExchanges, checkExchanges, checkOutbound, removeClosedConn, locals
  <2>2. Working(p)
    BY <1>2, Zenon DEF close, stopExchanges, checkExchanges, checkOutbound, removeClosedConn, Working, Resting
  <2> QED BY <1>1, <1>2, <2>1, <2>2, closeMoves, stopMoves, checkMoves, check2Moves, removeMoves, Zenon
<1>3. ASSUME NEW p \in Procs, ReadState(p) \/ RLockConns(p) \/ getMinConnectionState(p) \/ UpdateState(p)
      PROVE  TouchInv'
  <2>1. conn' = conn /\ todo' = todo
    BY <1>3, Zenon DEF ReadState, RLockConns, getMinConnectionState, UpdateState
  <2>2. Working(p)
    BY <1>3, Zenon DEF ReadState, RLockConns, getMinConnectionState, UpdateState, Working, Resting
  <2> QED BY <1>1, <1>3, <2>1, <2>2, ReadMoves, RLockMoves, minMoves, UpdateMoves, Zenon
<1>4. ASSUME NEW p \in Procs, onClosed(p) PROVE TouchInv'
  <2>1. conn' = conn /\ todo' = todo BY <1>4, Zenon DEF onClosed, locals
  <2>2. Moved(p) /\ pc[p] = "onClosed" /\ pc'[p] = Head(ret[p]) BY <1>4, onClosedMoves, Zenon
  <2>3. Head(<<"done">>) = "done" OBVIOUS
  <2>4. Working(p)' => Working(p) BY <2>2, <2>3, Zenon DEF Working, Resting
  <2> QED BY <1>1, <2>1, <2>2, <2>4, Zenon
<1>5. ASSUME NEW p \in Procs, NEW c \in Conns, EndCalls(p, c) \/ CloseConn(p, c) PROVE TouchInv'
  <2>1. conn' = conn /\ todo' = todo /\ conn[p] = {c} BY <1>5, Zenon DEF EndCalls, CloseConn, locals
  <2>2. c \in conns \cup inCalls \cup outCalls \/ Done(c) BY <1>5, EndMoves, CloseConnMoves, Zenon
  <2>3. Moved(p) BY <1>5, EndMoves, CloseConnMoves, Zenon
  <2>4. Done(c) BY <2>2, Zenon DEF TouchInv
  <2>5. \A d \in Conns : conn[p] = {d} => d = c BY <2>1, Zenon
  <2> QED BY <2>1, <2>3, <2>4, <2>5, TouchKeeps, Zenon
<1>6. ASSUME NEW c \in Conns, Open(c) \/ HandshakeFails(c) \/ newConnection(c) \/ addConnection(c) PROVE TouchInv'
  <2>1. conn' = conn /\ todo' = todo BY <1>6, Zenon DEF Open, HandshakeFails, newConnection, addConnection, locals
  <2>2. Moved(Opener(c)) /\ Opener(c) \in Procs BY <1>6, Names, OpenMoves, addMoves, Zenon
  <2>3. \A d \in Conns : conn[Opener(c)] = {d} => d = c BY Zenon DEF TouchInv
  <2> QED BY <2>1, <2>2, <2>3, TouchKeeps, Zenon
<1>7. ASSUME NEW p \in Procs, Moved(p), Takes(p), \A c \in Conns : p # Opener(c) PROVE TouchInv'
  <2>1. CASE pc'[p] \in {"done", "idle"} /\ conn' = [conn EXCEPT ![p] = {}] /\ todo' = todo
    <3>1. ~Working(p)' BY <2>1, Zenon DEF Working, Resting
    <3>2. todo' = [todo EXCEPT ![p] = todo[p]] /\ todo[p] \in SUBSET (todo[p] \cup conns) BY <2>1, Zenon
    <3> QED BY <1>7, <2>1, <3>1, <3>2, TouchTakes, Zenon
  <2>2. ASSUME NEW c \in todo[p], todo' = [todo EXCEPT ![p] = @ \ {c}],
               \/ pc'[p] = "close" /\ conn' = [conn EXCEPT ![p] = {c}]
               \/ pc'[p] = "loop" /\ conn' = conn
        PROVE  TouchInv'
    <3>1. todo' = [todo EXCEPT ![p] = todo[p] \ {c}] /\ todo[p] \ {c} \in SUBSET (todo[p] \cup conns) BY <2>2, Zenon
    <3>2. pc'[p] = "loop" => ~Working(p)' BY Zenon DEF Working, Resting
    <3> QED BY <1>7, <2>2, <3>1, <3>2, TouchTakes, Zenon
  <2> QED BY <1>7, <2>1, <2>2, Zenon DEF Takes
<1>8. ASSUME NEW p \in Procs, CloseNext(p) PROVE TouchInv'
  <2>1. \A c \in Conns : p # Opener(c) BY <1>8, CloseNextMoves, Names, Zenon
  <2> QED BY <1>7, <1>8, <2>1, CloseNextMoves, Zenon
<1>9. CASE SweepNext BY <1>7, <1>9, Names, SweepMoves, Zenon
<1>10. CASE checkIdleConnections
  <2>1. PICK idle \in SUBSET conns \ {{}} : todo' = [todo EXCEPT ![Sweeper] = idle]
    BY <1>10, Zenon DEF checkIdleConnections
  <2>2. conn' = conn /\ idle \in SUBSET (todo[Sweeper] \cup conns) BY <1>10, Zenon DEF checkIdleConnections
  <2>3. Sweeper \in Procs /\ \A c \in Conns : Sweeper # Opener(c) BY Names, Zenon
  <2>4. Moved(Sweeper) /\ pc'[Sweeper] \in {"loop", "done"} BY <1>10, SweeperMoves, Zenon
  <2>5. ~Working(Sweeper)' BY <2>4, Zenon DEF Working, Resting
  <2> QED BY <2>1, <2>2, <2>3, <2>4, <2>5, TouchTakes, Zenon
<1>11. CASE SweepStops
  <2>1. conn' = conn /\ todo' = todo BY <1>11, Zenon DEF SweepStops, locals
  <2>2. Moved(Sweeper) /\ pc'[Sweeper] \in {"loop", "done"} BY <1>11, SweeperMoves, Zenon
  <2>3. ~Working(Sweeper)' BY <2>2, Zenon DEF Working, Resting
  <2> QED BY <1>1, <2>1, <2>2, <2>3, Names, Zenon
<1>12. ASSUME NEW k \in Closers, Close(k) PROVE TouchInv'
  <2> DEFINE p == Closer(k)
  <2>1. p \in Procs /\ Moved(p) /\ pc'[p] \in {"done", "onClosed", "loop"} BY <1>12, CloseMoves, Zenon
  <2>2. \A c \in Conns : p # Opener(c) BY Names, Zenon
  <2>3. conn' = conn BY <1>12, Zenon DEF Close
  <2>4. ~Working(p)'
    <3>1. pc[p] \in Resting /\ <<"done">> \in Short /\ "onClosed" \in {"close", "check", "onClosed"}
      BY <1>12, CloseMoves, Zenon DEF Resting, Short
    <3>2. Goto(p, "done") \/ Goto(p, "loop") \/ CallThen(p, "onClosed", <<"done">>) BY <1>12, Zenon DEF Close
    <3>3. CASE CallThen(p, "onClosed", <<"done">>)
      <4>1. pc'[p] = "onClosed" /\ ret'[p] = <<"done">> BY <2>1, <3>1, <3>3, CallStarts, Zenon
      <4> QED BY <4>1, Zenon DEF Working
    <3>4. CASE Goto(p, "done") \/ Goto(p, "loop")
      <4>1. "done" \in Resting /\ "loop" \in Resting BY Zenon DEF Resting
      <4>2. pc'[p] \in Resting BY <2>1, <3>1, <3>4, <4>1, GotoRests, Zenon
      <4> QED BY <4>2, Zenon DEF Working
    <3> QED BY <3>2, <3>3, <3>4, Zenon
  <2>5. CASE todo' = todo BY <1>1, <2>1, <2>3, <2>4, <2>5, Zenon
  <2>6. CASE todo' = [todo EXCEPT ![p] = conns]
    <3>1. conns \in SUBSET (todo[p] \cup conns) BY Zenon
    <3> QED BY <2>1, <2>2, <2>3, <2>4, <2>6, <3>1, TouchTakes, Zenon
  <2> QED BY <1>12, <2>5, <2>6, CloseMoves, Zenon
<1>13. CASE Serve \/ (\E d \in Conns : BeginCalls(d)) \/ UNCHANGED vars
  <2>1. UNCHANGED <<pc, ret, conn, todo>> BY <1>13, Zenon DEF Serve, BeginCalls, vars, locals
  <2>2. Sweeper \in Procs BY Names, Zenon
  <2>3. Moved(Sweeper) BY <2>1, <2>2, Zenon DEF Moved, ControlOK, OthersStay, StackInv, StackOf
  <2>4. Working(Sweeper)' => Working(Sweeper) BY <2>1, Zenon DEF Working
  <2> QED BY <1>1, <2>1, <2>2, <2>3, <2>4, Zenon
<1> QED BY <1>2, <1>3, <1>4, <1>5, <1>6, <1>8, <1>9, <1>10, <1>11, <1>12, <1>13, Zenon DEF Next, Step, Handshake
-----------------------------------------------------------------------------
\* The state of the channel, and what a goroutine in the callback has read

\* The state of the channel changes in Serve, in the callback and in Close, and nowhere
\* else.
LEMMA StateMoves ==
  ASSUME state \in 1..5, [Next]_vars
  PROVE  \/ state' = state
         \/ Serve /\ state = ChannelClient /\ state' = ChannelListening
         \/ \E p \in Procs : UpdateState(p) /\ updateTo(p) > 0 /\ state = chState[p] /\ state' = updateTo(p)
         \/ \E k \in Closers : /\ Close(k) /\ state # ChannelClosed
                               /\ state' = IF conns = {} THEN ChannelClosed ELSE ChannelStartClose
<1>1. Serve => state' = state \/ (state = ChannelClient /\ state' = ChannelListening) BY Zenon DEF Serve
<1>2. \A p \in Procs : UpdateState(p) => \/ state' = state
                                         \/ updateTo(p) > 0 /\ state = chState[p] /\ state' = updateTo(p)
  BY Zenon DEF UpdateState
<1>3. \A k \in Closers : Close(k) => \/ state' = state
                                     \/ /\ state # ChannelClosed
                                        /\ state' = IF conns = {} THEN ChannelClosed ELSE ChannelStartClose
  BY Zenon DEF Close
<1>4. \A p \in Procs, c \in Conns :
        close(p, c) \/ stopExchanges(p, c) \/ checkExchanges(p, c) \/ checkOutbound(p, c)
          \/ removeClosedConn(p, c) \/ EndCalls(p, c) \/ CloseConn(p, c) => state' = state
  <2> SUFFICES ASSUME NEW p \in Procs, NEW c \in Conns
               PROVE  close(p, c) \/ stopExchanges(p, c) \/ checkExchanges(p, c) \/ checkOutbound(p, c)
                        \/ removeClosedConn(p, c) \/ EndCalls(p, c) \/ CloseConn(p, c) => state' = state
    BY Zenon
  <2>1. close(p, c) \/ stopExchanges(p, c) => state' = state BY Zenon DEF close, stopExchanges, chanVars
  <2>2. checkExchanges(p, c) => state' = state BY Zenon DEF checkExchanges, chanVars
  <2>3. checkOutbound(p, c) \/ removeClosedConn(p, c) => state' = state BY Zenon DEF checkOutbound, removeClosedConn, chanVars
  <2>4. EndCalls(p, c) \/ CloseConn(p, c) => state' = state BY Zenon DEF EndCalls, CloseConn, chanVars
  <2> QED BY <2>1, <2>2, <2>3, <2>4, Zenon
<1>5. \A p \in Procs :
        ReadState(p) \/ RLockConns(p) \/ getMinConnectionState(p) \/ onClosed(p) \/ CloseNext(p) => state' = state
  BY Zenon DEF ReadState, RLockConns, getMinConnectionState, onClosed, CloseNext, chanVars
<1>6. \A c \in Conns :
        Open(c) \/ HandshakeFails(c) \/ newConnection(c) \/ addConnection(c) \/ BeginCalls(c) => state' = state
  BY Zenon DEF Open, HandshakeFails, newConnection, addConnection, BeginCalls, chanVars
<1>7. SweepNext \/ checkIdleConnections \/ SweepStops \/ UNCHANGED vars => state' = state
  BY Zenon DEF SweepNext, checkIdleConnections, SweepStops, chanVars, vars
<1> QED BY <1>1, <1>2, <1>3, <1>4, <1>5, <1>6, <1>7, Zenon DEF Next, Step, Handshake

\* updateTo is one of three values.
LEMMA Updates ==
  ASSUME NEW p
  PROVE  /\ updateTo(p) \in {0, ChannelInboundClosed, ChannelClosed}
         /\ updateTo(p) = ChannelClosed => minState[p] >= Closed
         /\ updateTo(p) = ChannelInboundClosed => minState[p] >= InboundClosed
BY DEF updateTo, ChannelInboundClosed, ChannelClosed

\* A channel that is closing does not open again, and a Closed one stays so.
LEMMA StateGrows ==
  ASSUME state \in 1..5, MinInv, [Next]_vars
  PROVE  /\ state' \in 1..5
         /\ state >= ChannelStartClose => state' >= ChannelStartClose
         /\ state = ChannelClosed => state' = ChannelClosed
<1> USE DEF ChannelClient, ChannelListening, ChannelStartClose, ChannelInboundClosed, ChannelClosed
<1>1. CASE state' = state BY <1>1
<1>2. CASE state = ChannelClient /\ state' = ChannelListening BY <1>2
<1>3. ASSUME NEW p \in Procs, UpdateState(p), updateTo(p) > 0, state = chState[p], state' = updateTo(p)
      PROVE  state' \in {ChannelInboundClosed, ChannelClosed} /\ state # ChannelClosed
  <2>1. updateTo(p) \in {ChannelInboundClosed, ChannelClosed} BY <1>3, Updates
  <2>2. pc[p] = "update" BY <1>3, Zenon DEF UpdateState
  <2>3. chState[p] \in {3, 4} BY <2>2, Zenon DEF MinInv, MinOf, Reading
  <2> QED BY <1>3, <2>1, <2>3
<1>4. CASE state' \in {ChannelInboundClosed, ChannelClosed} /\ state # ChannelClosed BY <1>4
<1>5. CASE state # ChannelClosed /\ state' \in {ChannelClosed, ChannelStartClose} BY <1>5
<1> HIDE DEF ChannelClient, ChannelListening, ChannelStartClose, ChannelInboundClosed, ChannelClosed
<1> QED BY <1>1, <1>2, <1>3, <1>4, <1>5, StateMoves, Zenon

\* Who comes to the later labels of the callback
LEMMA Enters ==
  ASSUME ControlOK, StackInv, [Next]_vars, NEW q \in Procs, pc'[q] \in {"rlock", "min", "update", "onClosed"}
  PROVE  \/ pc'[q] = pc[q] \/ ReadState(q) \/ RLockConns(q) \/ getMinConnectionState(q) \/ UpdateState(q)
         \/ \E k \in Closers : Close(k) /\ q = Closer(k)
<1>1. ASSUME NEW p \in Procs, Moved(p), pc'[p] \notin {"rlock", "min", "update", "onClosed"} PROVE pc'[q] = pc[q]
  BY <1>1, Zenon DEF Moved, OthersStay
<1>2. ASSUME NEW p \in Procs, Moved(p), p # q PROVE pc'[q] = pc[q] BY <1>2, Zenon DEF Moved, OthersStay
<1>3. ASSUME NEW p \in Procs, NEW c \in Conns,
             \/ close(p, c) \/ stopExchanges(p, c) \/ checkExchanges(p, c) \/ checkOutbound(p, c)
             \/ removeClosedConn(p, c) \/ EndCalls(p, c) \/ CloseConn(p, c)
      PROVE  pc'[q] = pc[q]
  <2>1. Moved(p)
    BY <1>3, closeMoves, stopMoves, checkMoves, check2Moves, removeMoves, EndMoves, CloseConnMoves, Zenon
  <2>2. pc'[p] \in {"remove", "idle", "loop", "done", "stop", "check", "check2", "state", "close"}
    BY <1>3, closeMoves, stopMoves, checkMoves, check2Moves, removeMoves, EndMoves, CloseConnMoves, Zenon
  <2> QED BY <1>1, <2>1, <2>2, Zenon
<1>4. ASSUME NEW p \in Procs,
             ReadState(p) \/ RLockConns(p) \/ getMinConnectionState(p) \/ UpdateState(p)
      PROVE  p = q \/ pc'[q] = pc[q]
  BY <1>2, <1>4, ReadMoves, RLockMoves, minMoves, UpdateMoves, Zenon
<1>5. ASSUME NEW p \in Procs, onClosed(p) \/ CloseNext(p) PROVE pc'[q] = pc[q]
  <2>1. Moved(p) /\ pc'[p] \in {"idle", "loop", "done", "stop", "check", "close"}
    BY <1>5, onClosedMoves, CloseNextMoves, Zenon DEF Takes
  <2> QED BY <1>1, <2>1, Zenon
<1>6. ASSUME NEW c \in Conns, Open(c) \/ HandshakeFails(c) \/ newConnection(c) \/ addConnection(c)
      PROVE  pc'[q] = pc[q]
  <2>1. Moved(Opener(c)) /\ pc'[Opener(c)] \in {"handshake", "done", "add", "close"}
    BY <1>6, OpenMoves, addMoves, Zenon
  <2> QED BY <1>1, <2>1, Names, Zenon
<1>7. ASSUME SweepNext \/ checkIdleConnections \/ SweepStops PROVE pc'[q] = pc[q]
  <2>1. Moved(Sweeper) /\ pc'[Sweeper] \in {"idle", "loop", "done", "close"}
    BY <1>7, SweepMoves, SweeperMoves, Zenon DEF Takes
  <2> QED BY <1>1, <2>1, Names, Zenon
<1>8. ASSUME NEW k \in Closers, Close(k) PROVE q = Closer(k) \/ pc'[q] = pc[q]
  BY <1>2, <1>8, CloseMoves, Zenon
<1>9. CASE Serve \/ (\E d \in Conns : BeginCalls(d)) \/ UNCHANGED vars BY <1>9, Zenon DEF Serve, BeginCalls, vars
<1> QED BY <1>3, <1>4, <1>5, <1>6, <1>7, <1>8, <1>9, Zenon DEF Next, Step, Handshake

\* The locals of the callback belong to one goroutine.
LocalsStay(q) == chState'[q] = chState[q] /\ minState'[q] = minState[q] /\ unread'[q] = unread[q]
\* The types of the local variables of connectionCloseStateChange
LocalTypes ==
  /\ chState \in [Procs -> 0..4] /\ minState \in [Procs -> 0..4] /\ unread \in [Procs -> SUBSET Conns]

\* A step of one callback leaves the local variables of the others.
LEMMA CallbackLocals ==
  ASSUME LocalTypes, state \in 1..5, conns \in SUBSET Conns, connState \in [Conns -> 0..4], NEW p \in Procs,
         ReadState(p) \/ RLockConns(p) \/ getMinConnectionState(p) \/ UpdateState(p)
  PROVE  LocalTypes' /\ \A q \in Procs : q # p => LocalsStay(q)
<1>1. CASE ReadState(p)
  <2>1. ChannelStartClose \in 0..4 /\ ChannelInboundClosed \in 0..4 BY DEF ChannelStartClose, ChannelInboundClosed
  <2>2. CASE UNCHANGED chState BY <1>1, <2>2, Zenon DEF ReadState, LocalTypes, LocalsStay
  <2>3. CASE state \in {ChannelStartClose, ChannelInboundClosed} /\ chState' = [chState EXCEPT ![p] = state]
    BY <1>1, <2>1, <2>3, Zenon DEF ReadState, LocalTypes, LocalsStay
  <2> QED BY <1>1, <2>2, <2>3, Zenon DEF ReadState
<1>2. CASE RLockConns(p)
  <2>1. Closed \in 0..4 BY DEF Closed
  <2> QED BY <1>2, <2>1, Zenon DEF RLockConns, LocalTypes, LocalsStay
<1>3. CASE getMinConnectionState(p)
  <2>1. CASE UNCHANGED <<minState, unread>> BY <1>3, <2>1, Zenon DEF getMinConnectionState, LocalTypes, LocalsStay
  <2>2. ASSUME NEW c \in unread[p],
               minState' = [minState EXCEPT ![p] = IF connState[c] < @ THEN connState[c] ELSE @],
               unread' = [unread EXCEPT ![p] = @ \ {c}], UNCHANGED chState
        PROVE  LocalTypes' /\ \A q \in Procs : q # p => LocalsStay(q)
    <3>1. c \in Conns /\ connState[c] \in 0..4 BY <2>2, Zenon DEF LocalTypes
    <3> QED BY <2>2, <3>1, Zenon DEF LocalTypes, LocalsStay
  <2> QED BY <1>3, <2>1, <2>2, Zenon DEF getMinConnectionState
<1>4. CASE UpdateState(p)
  <2>1. 0 \in 0..4 OBVIOUS
  <2> QED BY <1>4, <2>1, Zenon DEF UpdateState, LocalTypes, LocalsStay
<1> QED BY <1>1, <1>2, <1>3, <1>4, Zenon

\* No other step changes them.
LEMMA OtherLocals ==
  ASSUME [Next]_vars,
         ~\E p \in Procs : ReadState(p) \/ RLockConns(p) \/ getMinConnectionState(p) \/ UpdateState(p)
  PROVE  UNCHANGED <<chState, minState, unread>>
<1> DEFINE Same == UNCHANGED <<chState, minState, unread>>
<1>1. \A p \in Procs, c \in Conns :
        close(p, c) \/ stopExchanges(p, c) \/ checkExchanges(p, c) \/ checkOutbound(p, c)
          \/ removeClosedConn(p, c) \/ EndCalls(p, c) \/ CloseConn(p, c) => Same
  <2> SUFFICES ASSUME NEW p \in Procs, NEW c \in Conns
               PROVE  close(p, c) \/ stopExchanges(p, c) \/ checkExchanges(p, c) \/ checkOutbound(p, c)
                        \/ removeClosedConn(p, c) \/ EndCalls(p, c) \/ CloseConn(p, c) => Same
    BY Zenon
  <2>1. close(p, c) \/ stopExchanges(p, c) => Same BY Zenon DEF close, stopExchanges, locals
  <2>2. checkExchanges(p, c) => Same BY Zenon DEF checkExchanges, locals
  <2>3. checkOutbound(p, c) \/ removeClosedConn(p, c) => Same BY Zenon DEF checkOutbound, removeClosedConn, locals
  <2>4. EndCalls(p, c) \/ CloseConn(p, c) => Same BY Zenon DEF EndCalls, CloseConn, locals
  <2> QED BY <2>1, <2>2, <2>3, <2>4, Zenon
<1>2. \A p \in Procs : onClosed(p) \/ CloseNext(p) => Same BY Zenon DEF onClosed, CloseNext, locals
<1>3. \A c \in Conns :
        Open(c) \/ HandshakeFails(c) \/ newConnection(c) \/ addConnection(c) \/ BeginCalls(c) => Same
  BY Zenon DEF Open, HandshakeFails, newConnection, addConnection, BeginCalls, locals
<1>4. SweepNext \/ checkIdleConnections \/ SweepStops \/ Serve \/ UNCHANGED vars => Same
  BY Zenon DEF SweepNext, checkIdleConnections, SweepStops, Serve, locals, vars
<1>5. \A k \in Closers : Close(k) => Same BY Zenon DEF Close
<1> HIDE DEF Same
<1>6. Same BY <1>1, <1>2, <1>3, <1>4, <1>5, Zenon DEF Next, Step, Handshake
<1> QED BY <1>6, Zenon DEF Same

\* Both together
LEMMA LocalsMove ==
  ASSUME LocalTypes, state \in 1..5, conns \in SUBSET Conns, connState \in [Conns -> 0..4], [Next]_vars
  PROVE  /\ LocalTypes'
         /\ \A q \in Procs : ReadState(q) \/ RLockConns(q) \/ getMinConnectionState(q) \/ UpdateState(q) \/ LocalsStay(q)
<1>1. CASE \E p \in Procs : ReadState(p) \/ RLockConns(p) \/ getMinConnectionState(p) \/ UpdateState(p)
  BY <1>1, CallbackLocals, Zenon
<1>2. CASE ~\E p \in Procs : ReadState(p) \/ RLockConns(p) \/ getMinConnectionState(p) \/ UpdateState(p)
  BY <1>2, OtherLocals, Zenon DEF LocalTypes, LocalsStay
<1> QED BY <1>1, <1>2, Zenon

\* A channel that is closing takes no more connections.
LEMMA ConnsShrink ==
  ASSUME ControlOK, StackInv, conns \in SUBSET Conns, state \in 1..5, state >= ChannelStartClose, [Next]_vars
  PROVE  conns' \subseteq conns
<1>1. ASSUME NEW c \in conns', c \notin conns PROVE FALSE
  <2>1. c \in Conns /\ addConnection(c) BY <1>1, ConnsMove, Zenon
  <2>2. conns' = conns \/ state \in {ChannelClient, ChannelListening} BY <2>1, addMoves, Zenon
  <2>3. state \notin {ChannelClient, ChannelListening} BY DEF ChannelClient, ChannelListening, ChannelStartClose
  <2> QED BY <1>1, <2>2, <2>3, Zenon
<1> QED BY <1>1, Zenon

\* What a goroutine has found of the least state stays true while others move.
LEMMA MinStays ==
  ASSUME connState \in [Conns -> 0..4], connState' \in [Conns -> 0..4], conns \in SUBSET Conns,
         minState \in [Procs -> 0..4], NEW q \in Procs, MinOf(q), pc'[q] = pc[q], LocalsStay(q),
         state >= ChannelStartClose => state' >= ChannelStartClose /\ conns' \subseteq conns,
         \A c \in Conns : connState[c] <= connState'[c]
  PROVE  MinOf(q)'
<1>1. CASE pc[q] \notin Reading
  <2>1. pc[q] \notin {"min", "update"} BY <1>1, Zenon DEF Reading
  <2> QED BY <1>1, <2>1, Zenon DEF MinOf
<1>2. CASE pc[q] \in Reading
  <2>1. state' >= ChannelStartClose /\ conns' \subseteq conns BY <1>2, Zenon DEF MinOf
  <2>2. \A c \in Conns : minState[q] <= connState[c] => minState[q] <= connState'[c]
    <3>1. TAKE c \in Conns
    <3>2. connState[c] \in 0..4 /\ connState'[c] \in 0..4 /\ minState[q] \in 0..4 BY Zenon
    <3>3. connState[c] <= connState'[c] BY Zenon
    <3> QED BY <3>2, <3>3
  <2> QED BY <1>2, <2>1, <2>2, Zenon DEF MinOf, LocalsStay
<1> QED BY <1>1, <1>2, Zenon

\* The reads of the callback
LEMMA MinReads ==
  ASSUME ControlOK, StackInv, LocalTypes, state \in 1..5, conns \in SUBSET Conns, connState \in [Conns -> 0..4],
         NEW p \in Procs, MinOf(p), ReadState(p) \/ RLockConns(p) \/ getMinConnectionState(p) \/ UpdateState(p)
  PROVE  MinOf(p)'
<1>1. CASE ReadState(p)
  <2>1. Onward(p, "rlock") BY <1>1, ReadMoves, Zenon
  <2>2. CASE pc'[p] # "rlock"
    <3>1. pc'[p] \notin Reading /\ pc'[p] \notin {"min", "update"} BY <2>1, <2>2, Zenon DEF Onward, Reading
    <3> QED BY <3>1, Zenon DEF MinOf
  <2>3. CASE pc'[p] = "rlock"
    <3>1. Head(ret[p]) # "rlock"
      <4>1. pc[p] \in Notifying BY <1>1, Zenon DEF ReadState, Notifying
      <4>2. ret[p] \in Short \cup Long BY <4>1, Zenon DEF StackInv, StackOf
      <4> QED BY <4>2, Stacks, Zenon
    <3>2. state \in {ChannelStartClose, ChannelInboundClosed} /\ chState' = [chState EXCEPT ![p] = state] /\ state' = state
      BY <1>1, <2>3, <3>1, Zenon DEF ReadState, Return, ControlOK, chanVars
    <3>3. chState'[p] = state BY <3>2, Zenon DEF LocalTypes
    <3>4. state' >= ChannelStartClose BY <3>2 DEF ChannelStartClose, ChannelInboundClosed
    <3> QED BY <2>3, <3>2, <3>3, <3>4, Zenon DEF MinOf
  <2> QED BY <2>2, <2>3, Zenon
<1>2. CASE RLockConns(p)
  <2>1. pc[p] = "rlock" /\ pc'[p] = "min" BY <1>2, RLockMoves, Zenon
  <2>2. state' = state /\ conns' = conns /\ chState' = chState /\ unread'[p] = conns
    BY <1>2, Zenon DEF RLockConns, chanVars, LocalTypes
  <2> QED BY <2>1, <2>2, Zenon DEF MinOf, Reading
<1>3. CASE getMinConnectionState(p)
  <2>1. pc[p] = "min" /\ pc'[p] \in {"min", "update"} BY <1>3, minMoves, Zenon
  <2>2. state' = state /\ conns' = conns /\ chState' = chState /\ connState' = connState
    BY <1>3, Zenon DEF getMinConnectionState, chanVars, linkVars
  <2>3. state >= ChannelStartClose /\ chState[p] \in {ChannelStartClose, ChannelInboundClosed}
    BY <2>1, Zenon DEF MinOf, Reading
  <2>4. \A c \in conns : c \in unread[p] \/ minState[p] <= connState[c] BY <2>1, Zenon DEF MinOf
  <2>5. CASE unread[p] = {} /\ UNCHANGED <<minState, unread>> BY <2>1, <2>2, <2>3, <2>4, <2>5, Zenon DEF MinOf
  <2>6. ASSUME NEW c \in unread[p],
               minState' = [minState EXCEPT ![p] = IF connState[c] < @ THEN connState[c] ELSE @],
               unread' = [unread EXCEPT ![p] = @ \ {c}], pc' = pc
        PROVE  MinOf(p)'
    <3>1. c \in Conns BY <2>6, Zenon DEF LocalTypes
    <3>2. minState'[p] = IF connState[c] < minState[p] THEN connState[c] ELSE minState[p]
      BY <2>6, Zenon DEF LocalTypes
    <3>3. unread'[p] = unread[p] \ {c} BY <2>6, Zenon DEF LocalTypes
    <3>4. minState[p] \in 0..4 /\ connState[c] \in 0..4 BY <3>1, Zenon DEF LocalTypes
    <3>5. minState'[p] <= minState[p] /\ minState'[p] <= connState[c] /\ minState'[p] \in 0..4 BY <3>2, <3>4
    <3>6. \A d \in conns : d \in unread'[p] \/ minState'[p] <= connState[d]
      <4>1. TAKE d \in conns
      <4>2. connState[d] \in 0..4 BY Zenon
      <4>3. CASE d \in unread[p] BY <3>3, <3>5, <4>3, Zenon
      <4>4. CASE minState[p] <= connState[d]
        <5>1. minState'[p] <= connState[d] BY <3>4, <3>5, <4>2, <4>4
        <5> QED BY <5>1, Zenon
      <4> QED BY <2>4, <4>3, <4>4, Zenon
    <3> QED BY <2>1, <2>2, <2>3, <2>6, <3>6, Zenon DEF MinOf
  <2> QED BY <1>3, <2>5, <2>6, Zenon DEF getMinConnectionState
<1>4. CASE UpdateState(p)
  <2>1. Onward(p, "onClosed") BY <1>4, UpdateMoves, Zenon
  <2>2. pc'[p] \notin Reading /\ pc'[p] \notin {"min", "update"} BY <2>1, Zenon DEF Onward, Reading
  <2> QED BY <2>2, Zenon DEF MinOf
<1> QED BY <1>1, <1>2, <1>3, <1>4, Zenon

\* Every step keeps what the callbacks have read.
LEMMA MinStep ==
  ASSUME ControlOK, StackInv, OpenerInv, MinInv, LocalTypes, state \in 1..5, conns \in SUBSET Conns,
         connState \in [Conns -> 0..4], [Next]_vars
  PROVE  MinInv'
<1> SUFFICES ASSUME NEW q \in Procs PROVE MinOf(q)' BY Zenon DEF MinInv
<1>1. MinOf(q) BY Zenon DEF MinInv
<1>2. CASE ReadState(q) \/ RLockConns(q) \/ getMinConnectionState(q) \/ UpdateState(q) BY <1>1, <1>2, MinReads, Zenon
<1>3. CASE LocalsStay(q) /\ pc'[q] = pc[q]
  <2>1. connState' \in [Conns -> 0..4] /\ \A c \in Conns : connState[c] <= connState'[c] BY LinkGrows, Zenon
  <2>2. state >= ChannelStartClose => state' >= ChannelStartClose /\ conns' \subseteq conns
    BY StateGrows, ConnsShrink, Zenon
  <2> QED BY <1>1, <1>3, <2>1, <2>2, MinStays, Zenon DEF LocalTypes
<1>4. CASE pc'[q] \notin Reading
  <2>1. pc'[q] \notin {"min", "update"} BY <1>4, Zenon DEF Reading
  <2> QED BY <1>4, <2>1, Zenon DEF MinOf
<1>5. ASSUME pc'[q] \in Reading, NEW k \in Closers, Close(k), q = Closer(k) PROVE FALSE
  <2>1. pc'[q] \in {"done", "onClosed", "loop"} BY <1>5, CloseMoves, Zenon
  <2> QED BY <1>5, <2>1, Zenon DEF Reading
<1>6. pc'[q] \in Reading => pc'[q] \in {"rlock", "min", "update", "onClosed"} BY Zenon DEF Reading
<1> QED BY <1>2, <1>3, <1>4, <1>5, <1>6, Enters, LocalsMove, Zenon

\* Only onClosed closes ch.closed.
LEMMA ClosedMoves ==
  ASSUME [Next]_vars, ~\E p \in Procs : onClosed(p)
  PROVE  closedChan' = closedChan
<1> DEFINE Same == closedChan' = closedChan
<1>1. \A p \in Procs, c \in Conns :
        close(p, c) \/ stopExchanges(p, c) \/ checkExchanges(p, c) \/ checkOutbound(p, c)
          \/ removeClosedConn(p, c) \/ EndCalls(p, c) \/ CloseConn(p, c) => Same
  <2>1. TAKE p \in Procs, c \in Conns
  <2>2. checkExchanges(p, c) => Same BY Zenon DEF checkExchanges, chanVars
  <2>3. close(p, c) \/ checkOutbound(p, c) => Same BY Zenon DEF close, checkOutbound, chanVars
  <2>4. stopExchanges(p, c) \/ removeClosedConn(p, c) => Same BY Zenon DEF stopExchanges, removeClosedConn, chanVars
  <2>5. EndCalls(p, c) \/ CloseConn(p, c) => Same BY Zenon DEF EndCalls, CloseConn, chanVars
  <2> QED BY <2>2, <2>3, <2>4, <2>5, Zenon DEF Same
<1>2. \A p \in Procs : ReadState(p) \/ RLockConns(p) \/ getMinConnectionState(p) => Same
  BY Zenon DEF ReadState, RLockConns, getMinConnectionState, chanVars
<1>8. \A p \in Procs : CloseNext(p) => Same BY Zenon DEF CloseNext, chanVars
<1>7. \A p \in Procs : UpdateState(p) => Same BY Zenon DEF UpdateState
<1>3. \A c \in Conns :
        Open(c) \/ HandshakeFails(c) \/ newConnection(c) \/ addConnection(c) \/ BeginCalls(c) => Same
  BY Zenon DEF Open, HandshakeFails, newConnection, addConnection, BeginCalls, chanVars
<1>4. SweepNext \/ checkIdleConnections \/ SweepStops \/ Serve \/ UNCHANGED vars => Same
  BY Zenon DEF SweepNext, checkIdleConnections, SweepStops, Serve, chanVars, vars
<1>5. \A k \in Closers : Close(k) => Same BY Zenon DEF Close
<1> HIDE DEF Same
<1>6. Same BY <1>1, <1>2, <1>3, <1>4, <1>5, <1>7, <1>8, Zenon DEF Next, Step, Handshake
<1> QED BY <1>6, Zenon DEF Same

\* The goroutine that finds the channel drained is the only one.
LEMMA OnceFound ==
  ASSUME OnceInv, state # ChannelClosed, state' = ChannelClosed, closedChan' = closedChan,
         NEW p \in Procs, OthersStay(p)
  PROVE  OnceInv'
<1>1. closedChan = 0 /\ \A q \in Procs : pc[q] # "onClosed" BY Zenon DEF OnceInv
<1>2. \A q \in Procs : pc'[q] = "onClosed" => q = p BY <1>1, Zenon DEF OthersStay
<1> QED BY <1>1, <1>2, Zenon DEF OnceInv

\* Every step keeps ch.closed closed at most once.
LEMMA OnceStep ==
  ASSUME ControlOK, StackInv, MinInv, OnceInv, state \in 1..5, closedChan \in Nat, [Next]_vars
  PROVE  OnceInv' /\ closedChan' \in Nat
<1>1. ASSUME NEW p \in Procs, onClosed(p) PROVE OnceInv' /\ closedChan' \in Nat
  <2>1. /\ pc[p] = "onClosed" /\ OthersStay(p)
        /\ pc'[p] \in {"idle", "loop", "done", "stop", "check"}
    BY <1>1, onClosedMoves, Zenon DEF Moved
  <2>2. state' = state /\ closedChan' = closedChan + 1 BY <1>1, Zenon DEF onClosed
  <2>3. state = ChannelClosed /\ closedChan = 0 BY <2>1, Zenon DEF OnceInv
  <2>4. closedChan' = 1 BY <2>2, <2>3
  <2>5. \A q \in Procs : pc'[q] # "onClosed" BY <2>1, Zenon DEF OnceInv, OthersStay
  <2>6. 1 <= 1 /\ 1 \in Nat OBVIOUS
  <2> QED BY <2>2, <2>3, <2>4, <2>5, <2>6, Zenon DEF OnceInv
<1>2. CASE ~\E p \in Procs : onClosed(p)
  <2>1. closedChan' = closedChan BY <1>2, ClosedMoves, Zenon
  <2>2. state = ChannelClosed => state' = ChannelClosed BY StateGrows, Zenon
  <2>3. ASSUME NEW p \in Procs, UpdateState(p), pc'[p] = "onClosed" PROVE OnceInv'
    <3>1. pc[p] = "update" /\ OthersStay(p) BY <2>3, UpdateMoves, Zenon DEF Moved
    <3>2. Head(ret[p]) # "onClosed"
      <4>1. pc[p] \in Notifying BY <3>1, Zenon DEF Notifying
      <4>2. ret[p] \in Short \cup Long BY <4>1, Zenon DEF StackInv, StackOf
      <4> QED BY <4>2, Stacks, Zenon
    <3>3. ~Return(p) BY <2>3, <3>2, Zenon DEF Return, ControlOK
    <3>4. state = chState[p] /\ state' = ChannelClosed BY <2>3, <3>3, Zenon DEF UpdateState
    <3>5. chState[p] \in {ChannelStartClose, ChannelInboundClosed} BY <3>1, Zenon DEF MinInv, MinOf, Reading
    <3>6. state # ChannelClosed BY <3>4, <3>5 DEF ChannelStartClose, ChannelInboundClosed, ChannelClosed
    <3> QED BY <2>1, <3>1, <3>4, <3>6, OnceFound, Zenon
  <2>4. ASSUME NEW k \in Closers, Close(k), pc'[Closer(k)] = "onClosed" PROVE OnceInv'
    <3>1. /\ Closer(k) \in Procs /\ OthersStay(Closer(k)) /\ state # ChannelClosed /\ state' = ChannelClosed
      BY <2>4, CloseMoves, Zenon DEF Moved
    <3> QED BY <2>1, <3>1, OnceFound, Zenon
  <2>5. CASE \A q \in Procs : pc'[q] = "onClosed" => pc[q] = "onClosed"
    BY <2>1, <2>2, <2>5, Zenon DEF OnceInv
  <2>6. ASSUME NEW q \in Procs, pc'[q] = "onClosed", pc[q] # "onClosed" PROVE OnceInv'
    <3>1. ReadState(q) => FALSE BY <2>6, ReadMoves, Zenon DEF Onward
    <3>2. RLockConns(q) => FALSE BY <2>6, RLockMoves, Zenon
    <3>3. getMinConnectionState(q) => FALSE BY <2>6, minMoves, Zenon
    <3>4. UpdateState(q) \/ \E k \in Closers : Close(k) /\ q = Closer(k)
      BY <2>6, <3>1, <3>2, <3>3, Enters, Zenon
    <3> QED BY <2>3, <2>4, <2>6, <3>4, Zenon
  <2> QED BY <2>1, <2>5, <2>6, Zenon
<1> QED BY <1>1, <1>2, Zenon

\* Every connection the goroutine came to, or found gone, has come as far as the
\* least state it computed.
LEMMA LeastState ==
  ASSUME OpenerInv, MinInv, LocalTypes, connState \in [Conns -> 0..4], NEW p \in Procs, pc[p] = "update",
         NEW c \in Conns, Done(c), connState[c] # NotOpen
  PROVE  minState[p] <= connState[c]
<1>1. connState[c] \in 0..4 /\ minState[p] \in 0..4 BY Zenon DEF LocalTypes
<1>2. CASE c \in conns BY <1>2, Zenon DEF MinInv, MinOf
<1>3. CASE c \notin conns
  <2>1. connState[c] = Closed BY <1>3, Zenon DEF OpenerInv, OpenerOf, Done
  <2> QED BY <1>1, <2>1 DEF Closed
<1> QED BY <1>2, <1>3, Zenon

\* Connection c has come as far as the state of the channel says.
ComeSoFar(c) ==
  /\ state = ChannelInboundClosed => connState[c] >= InboundClosed
  /\ state = ChannelClosed => connState[c] = Closed

\* A connection whose opening ends
LEMMA ClosedOpens ==
  ASSUME ControlOK, StackInv, TouchInv, OpenerInv', conns \in SUBSET Conns, [Next]_vars,
         NEW c \in Conns, ~Done(c), Done(c)', connState'[c] # NotOpen
  PROVE  ComeSoFar(c)'
<1>1. c \in conns' \/ connState'[c] = Closed BY Zenon DEF OpenerInv, OpenerOf, Done
<1>2. CASE connState'[c] = Closed
  <2>1. Closed >= InboundClosed BY DEF Closed, InboundClosed
  <2> QED BY <1>2, <2>1, Zenon DEF ComeSoFar
<1>3. CASE c \in conns'
  <2>1. c \notin conns BY Zenon DEF TouchInv
  <2>2. addConnection(c) BY <1>3, <2>1, ConnsMove, Zenon
  <2>3. state' = state /\ state \in {ChannelClient, ChannelListening}
    <3>1. state' = state BY <2>2, Zenon DEF addConnection
    <3>2. state \in {ChannelClient, ChannelListening} BY <1>3, <2>1, <2>2, addMoves, Zenon
    <3> QED BY <3>1, <3>2, Zenon
  <2>4. state' # ChannelInboundClosed /\ state' # ChannelClosed
    BY <2>3 DEF ChannelClient, ChannelListening, ChannelInboundClosed, ChannelClosed
  <2> QED BY <2>4, Zenon DEF ComeSoFar
<1> QED BY <1>1, <1>2, <1>3, Zenon

\* Every step keeps ClosedAfterConns: where the callback makes the channel InboundClosed or
\* Closed, every connection had come that far when it was read (MinInv), has not turned back
\* (LinkGrows), and none was added (ConnsShrink).
LEMMA ClosedStep ==
  ASSUME ControlOK, StackInv, TouchInv, OpenerInv, MinInv, OnceInv, ClosedAfterConns, LocalTypes,
         OpenerInv', OnceInv',
         state \in 1..5, closedChan' \in Nat, conns \in SUBSET Conns, connState \in [Conns -> 0..4], [Next]_vars
  PROVE  ClosedAfterConns'
<1>1. closedChan' <= 1 /\ (closedChan' = 1 => state' = ChannelClosed)
  <2>1. 1 # 0 OBVIOUS
  <2> QED BY <2>1, Zenon DEF OnceInv
<1>2. ASSUME NEW c \in Conns, Done(c)', connState'[c] # NotOpen PROVE ComeSoFar(c)'
  <2>1. CASE ~Done(c) BY <1>2, <2>1, ClosedOpens, Zenon
  <2>2. CASE Done(c) /\ connState[c] \in {NotOpen, Closed}
    <3>1. connState'[c] = Closed BY <1>2, <2>2, ClosedStays, Zenon
    <3>2. Closed >= InboundClosed BY DEF Closed, InboundClosed
    <3> QED BY <3>1, <3>2, Zenon DEF ComeSoFar
  <2>3. CASE Done(c) /\ connState[c] # NotOpen
    <3>1. connState[c] \in 0..4 /\ connState'[c] \in 0..4 /\ connState[c] <= connState'[c] BY LinkGrows, Zenon
    <3>2. CASE state' = state
      <4>1. ComeSoFar(c) BY <2>3, Zenon DEF ClosedAfterConns, ComeSoFar, Done
      <4> QED BY <3>1, <3>2, <4>1 DEF ComeSoFar, InboundClosed, Closed
    <3>3. CASE state' = ChannelListening \/ state' = ChannelStartClose
      BY <3>3 DEF ComeSoFar, ChannelListening, ChannelStartClose, ChannelInboundClosed, ChannelClosed
    <3>4. ASSUME NEW p \in Procs, UpdateState(p), state' = updateTo(p) PROVE ComeSoFar(c)'
      <4>1. pc[p] = "update" BY <3>4, Zenon DEF UpdateState
      <4>2. minState[p] <= connState[c] /\ minState[p] \in 0..4 BY <2>3, <4>1, LeastState, Zenon DEF LocalTypes
      <4>3. /\ state' = ChannelClosed => minState[p] >= Closed
            /\ state' = ChannelInboundClosed => minState[p] >= InboundClosed
        BY <3>4, Updates, Zenon
      <4> QED BY <3>1, <4>2, <4>3 DEF ComeSoFar, InboundClosed, Closed
    <3>5. ASSUME conns = {} PROVE ComeSoFar(c)'
      <4>1. connState[c] = Closed BY <2>3, <3>5, Zenon DEF OpenerInv, OpenerOf, Done
      <4> QED BY <3>1, <4>1 DEF ComeSoFar, InboundClosed, Closed
    <3> QED BY <3>2, <3>3, <3>4, <3>5, StateMoves, Zenon
  <2> QED BY <2>1, <2>2, <2>3, Zenon
<1> QED BY <1>1, <1>2, Zenon DEF ClosedAfterConns, ComeSoFar, Done

\* What the loops work on
LEMMA LoopTypes ==
  ASSUME ControlOK, StackInv, conns \in SUBSET Conns, conn \in [Procs -> SUBSET Conns],
         todo \in [Procs -> SUBSET Conns], [Next]_vars
  PROVE  conn' \in [Procs -> SUBSET Conns] /\ todo' \in [Procs -> SUBSET Conns]
<1> DEFINE Good == conn' \in [Procs -> SUBSET Conns] /\ todo' \in [Procs -> SUBSET Conns]
<1>1. UNCHANGED <<conn, todo>> => Good BY Zenon
<1>2. \A p \in Procs : Takes(p) => Good
  <2>1. TAKE p \in Procs
  <2>2. CASE conn' = [conn EXCEPT ![p] = {}] /\ todo' = todo BY <2>2, Zenon
  <2>3. ASSUME NEW c \in todo[p], todo' = [todo EXCEPT ![p] = @ \ {c}],
               conn' = [conn EXCEPT ![p] = {c}] \/ conn' = conn
        PROVE  Good
    <3>1. c \in Conns BY <2>3, Zenon
    <3> QED BY <2>3, <3>1, Zenon
  <2> QED BY <2>2, <2>3, Zenon DEF Takes
<1>3. \A p \in Procs : \A S \in SUBSET Conns : conn' = conn /\ todo' = [todo EXCEPT ![p] = S] => Good BY Zenon
<1> HIDE DEF Good
<1>4. \A p \in Procs, c \in Conns :
        close(p, c) \/ stopExchanges(p, c) \/ checkExchanges(p, c) \/ checkOutbound(p, c)
          \/ removeClosedConn(p, c) \/ EndCalls(p, c) \/ CloseConn(p, c) => Good
  <2>1. TAKE p \in Procs, c \in Conns
  <2>2. checkExchanges(p, c) => Good BY <1>1, Zenon DEF checkExchanges, locals
  <2>3. close(p, c) \/ checkOutbound(p, c) => Good BY <1>1, Zenon DEF close, checkOutbound, locals
  <2>4. stopExchanges(p, c) \/ removeClosedConn(p, c) => Good BY <1>1, Zenon DEF stopExchanges, removeClosedConn, locals
  <2>5. EndCalls(p, c) \/ CloseConn(p, c) => Good BY <1>1, Zenon DEF EndCalls, CloseConn, locals
  <2> QED BY <2>2, <2>3, <2>4, <2>5, Zenon
<1>5. \A p \in Procs : ReadState(p) \/ RLockConns(p) \/ getMinConnectionState(p) \/ onClosed(p) => Good
  BY <1>1, Zenon DEF ReadState, RLockConns, getMinConnectionState, onClosed, locals
<1>6. \A p \in Procs : UpdateState(p) => Good BY <1>1, Zenon DEF UpdateState
<1>7. \A p \in Procs : CloseNext(p) => Good BY <1>2, CloseNextMoves, Zenon
<1>8. \A c \in Conns :
        Open(c) \/ HandshakeFails(c) \/ newConnection(c) \/ addConnection(c) \/ BeginCalls(c) => Good
  BY <1>1, Zenon DEF Open, HandshakeFails, newConnection, addConnection, BeginCalls, locals
<1>9. SweepNext => Good BY <1>2, SweepMoves, Names, Zenon
<1>10. checkIdleConnections => Good
  <2>1. ASSUME checkIdleConnections
        PROVE  \E S \in SUBSET Conns : conn' = conn /\ todo' = [todo EXCEPT ![Sweeper] = S]
    BY <2>1, Zenon DEF checkIdleConnections
  <2> QED BY <1>3, <2>1, Names, Zenon
<1>11. SweepStops \/ Serve \/ UNCHANGED vars => Good BY <1>1, Zenon DEF SweepStops, Serve, locals, vars
<1>12. \A k \in Closers : Close(k) => Good
  <2>1. TAKE k \in Closers
  <2>2. Close(k) => conn' = conn BY Zenon DEF Close
  <2>3. Close(k) => Closer(k) \in Procs /\ (todo' = todo \/ todo' = [todo EXCEPT ![Closer(k)] = conns])
    BY CloseMoves, Zenon
  <2> QED BY <1>1, <1>3, <2>2, <2>3, Zenon
<1>13. Good
  BY <1>4, <1>5, <1>6, <1>7, <1>8, <1>9, <1>10, <1>11, <1>12, Zenon DEF Next, Step, Handshake
<1> QED BY <1>13, Zenon DEF Good

\* The invariant holds in the initial state.
LEMMA ChannelInit == Init => ChannelInv
<1> SUFFICES ASSUME Init PROVE ChannelInv OBVIOUS
<1>1. ControlOK
  <2>1. \A p \in Procs : pc[p] \in {"idle", "done"} BY Zenon DEF Init
  <2>2. "idle" \in Labels /\ "done" \in Labels BY Zenon DEF Labels, Resting
  <2>3. pc \in [Procs -> Labels]
    <3>1. pc = [p \in Procs |-> pc[p]] BY Zenon DEF Init
    <3> QED BY <2>1, <2>2, <3>1, Zenon
  <2>4. ret \in [Procs -> {<<>>} \cup Short \cup Long] BY Zenon DEF Init
  <2> QED BY <2>3, <2>4, Zenon DEF ControlOK
<1>2. \A p \in Procs : pc[p] \in {"idle", "done"} /\ ret[p] = <<>> BY Zenon DEF Init
<1>3. \A c \in Conns : pc[Opener(c)] = "idle" /\ conn[Opener(c)] = {c} /\ connState[c] = NotOpen
  BY Names, Zenon DEF Init
<1>4. conn \in [Procs -> SUBSET Conns]
  <2>1. \A p \in Procs : p[1] \in {"opener", "worker"} => p[2] \in Conns BY DEF Procs, Opener, Worker, Closer, Sweeper
  <2>2. \A p \in Procs : (IF p[1] \in {"opener", "worker"} THEN {p[2]} ELSE {}) \in SUBSET Conns BY <2>1, Zenon
  <2> QED BY <2>2, Zenon DEF Init
<1>5. 0 \in 0..4 /\ ChannelClient \in 1..5 /\ NotOpen \in 0..4 /\ 0 \in Nat /\ 0 <= 1 /\ ChannelClient # ChannelClosed
  BY DEF ChannelClient, NotOpen, ChannelClosed
<1>6. ChannelTypeOK BY <1>1, <1>4, <1>5, Zenon DEF ChannelTypeOK, Init
<1>7. StackInv BY <1>2, Zenon DEF StackInv, StackOf, Resting, Notifying
<1>8. \A p \in Procs : ~Working(p) BY <1>2, Zenon DEF Working, Resting
<1>9. TouchInv BY <1>3, <1>8, Zenon DEF TouchInv, Init
<1>10. OpenerInv BY <1>3, Zenon DEF OpenerInv, OpenerOf, Notifying
<1>11. Tracked BY <1>3, Zenon DEF Tracked
<1>12. MinInv BY <1>2, Zenon DEF MinInv, MinOf, Reading
<1>13. OnceInv BY <1>2, <1>5, Zenon DEF OnceInv, Init
<1>14. ClosedAfterConns
  <2>1. closedChan = 0 /\ 0 # 1 BY DEF Init
  <2> QED BY <1>3, <1>5, <2>1, Zenon DEF ClosedAfterConns
<1> QED BY <1>6, <1>7, <1>9, <1>10, <1>11, <1>12, <1>13, <1>14, Zenon DEF ChannelInv

\* Every step keeps the invariant.
LEMMA ChannelStep == ChannelInv /\ [Next]_vars => ChannelInv'
<1> SUFFICES ASSUME ChannelInv, [Next]_vars PROVE ChannelInv' OBVIOUS
<1>1. /\ ControlOK /\ StackInv /\ TouchInv /\ OpenerInv /\ MinInv /\ OnceInv /\ ClosedAfterConns
      /\ state \in 1..5 /\ closedChan \in Nat /\ conns \in SUBSET Conns /\ connState \in [Conns -> 0..4]
      /\ conn \in [Procs -> SUBSET Conns] /\ todo \in [Procs -> SUBSET Conns] /\ LocalTypes
  BY Zenon DEF ChannelInv, ChannelTypeOK, LocalTypes
<1>2. ControlOK' /\ StackInv' BY <1>1, StackStep, Zenon
<1>3. OpenerInv' BY <1>1, OpenerStep, Zenon
<1>4. TouchInv' BY <1>1, TouchStep, Zenon
<1>5. MinInv' BY <1>1, MinStep, Zenon
<1>6. OnceInv' /\ closedChan' \in Nat BY <1>1, OnceStep, Zenon
<1>7. ClosedAfterConns' BY <1>1, <1>3, <1>6, ClosedStep, Zenon
<1>8. Tracked'
  <2>1. \A s : s \in Active..InboundClosed => s # NotOpen /\ s # Closed BY DEF Active, InboundClosed, NotOpen, Closed
  <2> QED BY <1>3, <2>1, Zenon DEF Tracked, OpenerInv, OpenerOf
<1>9. LocalTypes' BY <1>1, LocalsMove, Zenon
<1>10. conn' \in [Procs -> SUBSET Conns] /\ todo' \in [Procs -> SUBSET Conns] BY <1>1, LoopTypes, Zenon
<1>11. state' \in 1..5 /\ conns' \in SUBSET Conns /\ connState' \in [Conns -> 0..4]
  BY <1>1, StateGrows, ConnsMove, LinkGrows, Zenon
<1>12. ChannelTypeOK' BY <1>2, <1>6, <1>9, <1>10, <1>11, Zenon DEF ChannelTypeOK, LocalTypes
<1> QED BY <1>2, <1>3, <1>4, <1>5, <1>6, <1>7, <1>8, <1>12, Zenon DEF ChannelInv

\* The invariant always holds.
LEMMA ChannelInvariant == Spec => []ChannelInv
BY ChannelInit, ChannelStep, PTL DEF Spec

\* For any number of connections, calls and goroutines that close: a connection that is up
\* is in ch.mutable.conns until it is Closed (addConnection, removeClosedConn).
THEOREM TracksConns == Spec => []Tracked
<1>1. ChannelInv => Tracked BY Zenon DEF ChannelInv
<1> QED BY <1>1, ChannelInvariant, PTL

\* For any number of connections, calls and goroutines that close: the channel reports
\* InboundClosed, or Closed, only when every connection that is up has come that far, though
\* connectionCloseStateChange uses the states after it has unlocked; and ch.closed is closed
\* at most once.
THEOREM ClosesAfterConns == Spec => []ClosedAfterConns
<1>1. ChannelInv => ClosedAfterConns BY Zenon DEF ChannelInv
<1> QED BY <1>1, ChannelInvariant, PTL

\* A step of a channel that is closing never reopens it and never gives it another
\* connection, a Closed channel stays Closed, and a connection only leaves the map
\* once it is Closed: addConnection refuses, and connectionCloseStateChange and a
\* second Close only write closing states.
OnlyDrains ==
  /\ state >= ChannelStartClose => state' >= ChannelStartClose /\ conns' \subseteq conns
  /\ state = ChannelClosed => state' = ChannelClosed
  /\ \A c \in conns : c \in conns' \/ connState[c] = Closed

\* A channel that closes only drains, whatever Close, the callbacks and new connections do
\* in between.
THEOREM DrainsOnly == Spec => [][OnlyDrains]_vars
<1>1. ChannelInv /\ [Next]_vars => [OnlyDrains]_vars
  <2>1. SUFFICES ASSUME ChannelInv, [Next]_vars PROVE OnlyDrains BY Zenon
  <2>2. ControlOK /\ StackInv /\ MinInv /\ state \in 1..5 /\ conns \in SUBSET Conns
    BY <2>1, Zenon DEF ChannelInv, ChannelTypeOK
  <2> QED BY <2>1, <2>2, StateGrows, ConnsShrink, ConnsMove, Zenon DEF OnlyDrains
<1> QED BY <1>1, ChannelInvariant, PTL DEF Spec

-----------------------------------------------------------------------------
(* The listener *)

\* The goroutines that serve are finitely many.
LEMMA ServersListed == \E seq \in Seq(Servers) : \A s \in Servers : \E n \in 1..Len(seq) : seq[n] = s
BY ListenerBounds, Zenon DEF IsFiniteSet

\* Only the listener counts; above, these facts would be in the way of every obligation.
LOCAL INSTANCE FiniteSetTheorems

\* The same in the terms of these facts
LEMMA FiniteServers == IsFiniteSet(Servers)
BY ServersListed, Zenon DEF IsFiniteSet

\* Close of the listener keeps its promise for any number of goroutines.
\* The count is what makes it true: refs is the number of Accept calls in
\* progress, so that a Close that finds it zero on a closed listener knows
\* that none of them can still return a connection.

\* The goroutines between incRef and decRef
Holding == {s \in Servers : server[s] \in {"call", "accepting", "fails", "accepted", "closed"}}

\* The type of each variable of the listener
ListenerTypeOK ==
    /\ refs \in Nat /\ open \in BOOLEAN /\ accepted \in Nat
    /\ server \in [Servers -> {"loop", "call", "accepting", "fails", "accepted", "closed",
                               "signal", "lastSignal", "end"}]
    /\ closer \in [ListenClosers -> {"idle", "check", "wait", "closed", "failed"}]

\* The inductive invariant: refs counts the goroutines that hold a reference; a Close past its
\* first step has closed the listener; one that returned has left no Accept that may succeed.
ListenerInv ==
    /\ ListenerTypeOK
    /\ refs = Cardinality(Holding)
    /\ \A c \in ListenClosers : closer[c] # "idle" => ~open
    /\ \A c \in ListenClosers : closer[c] = "closed" => \A s \in Servers : server[s] # "accepting"

\* A goroutine that takes a reference raises the count by one.
LEMMA HoldMore ==
    ASSUME ListenerTypeOK, NEW s \in Servers, s \notin Holding, Holding' = Holding \cup {s}
    PROVE  Cardinality(Holding') = Cardinality(Holding) + 1
<1>1. IsFiniteSet(Holding) BY FS_Subset, FiniteServers DEF Holding
<1> QED BY <1>1, FS_AddElement, Zenon

\* A goroutine that gives its reference back lowers it by one.
LEMMA HoldLess ==
    ASSUME ListenerTypeOK, NEW s \in Servers, s \in Holding, Holding' = Holding \ {s}
    PROVE  /\ Cardinality(Holding) \in Nat \ {0}
           /\ Cardinality(Holding') = Cardinality(Holding) - 1
<1>1. IsFiniteSet(Holding) BY FS_Subset, FiniteServers DEF Holding
<1>2. Cardinality(Holding) # 0 BY <1>1, FS_EmptySet
<1> QED BY <1>1, <1>2, FS_RemoveElement, FS_CardinalityType

\* ListenerInv holds when Wrap returns.
LEMMA ListenerInvInit == ListenerInit => ListenerInv
<1> SUFFICES ASSUME ListenerInit PROVE ListenerInv OBVIOUS
<1>1. Holding = {} BY DEF ListenerInit, Holding
<1> QED BY <1>1, FS_EmptySet DEF ListenerInit, ListenerInv, ListenerTypeOK

\* Every step of a serve or a Close keeps ListenerInv.
LEMMA ListenerInvNext == ListenerInv /\ [ListenerNext]_listenerVars => ListenerInv'
<1> SUFFICES ASSUME ListenerInv, [ListenerNext]_listenerVars PROVE ListenerInv' OBVIOUS
<1> USE DEF ListenerInv
<1>1. ASSUME NEW s \in Servers, incRef(s) PROVE ListenerInv'
  <2>1. s \notin Holding /\ Holding' = Holding \cup {s}
    BY <1>1 DEF incRef, Holding, ListenerTypeOK
  <2>2. Cardinality(Holding') = Cardinality(Holding) + 1 BY <2>1, HoldMore
  <2> QED BY <1>1, <2>2 DEF incRef, ListenerTypeOK
<1>2. ASSUME NEW s \in Servers, BeginAccept(s) PROVE ListenerInv'
  <2>1. Holding' = Holding BY <1>2 DEF BeginAccept, Holding, ListenerTypeOK
  <2>2. ASSUME NEW c \in ListenClosers, closer[c] = "closed" PROVE ~open
    BY <2>2
  <2> QED BY <1>2, <2>1, <2>2 DEF BeginAccept, ListenerTypeOK
<1>3. ASSUME NEW s \in Servers, Accepts(s) PROVE ListenerInv'
  <2>1. Holding' = Holding BY <1>3 DEF Accepts, Holding, ListenerTypeOK
  <2> QED BY <1>3, <2>1 DEF Accepts, ListenerTypeOK
<1>4. ASSUME NEW s \in Servers, AcceptFails(s) PROVE ListenerInv'
  <2>1. Holding' = Holding BY <1>4 DEF AcceptFails, Holding, ListenerTypeOK
  <2> QED BY <1>4, <2>1 DEF AcceptFails, ListenerTypeOK
<1>5. ASSUME NEW s \in Servers, decRef(s) PROVE ListenerInv'
  <2>1. s \in Holding /\ Holding' = Holding \ {s}
    BY <1>5 DEF decRef, ServeThen, Holding, ListenerTypeOK
  <2>2. Cardinality(Holding) \in Nat \ {0} /\ Cardinality(Holding') = Cardinality(Holding) - 1
    BY <2>1, HoldLess
  <2> QED BY <1>5, <2>2 DEF decRef, ServeThen, ListenerTypeOK
<1>6. ASSUME NEW s \in Servers, Broadcast(s) PROVE ListenerInv'
  <2>1. Holding' = Holding BY <1>6 DEF Broadcast, Holding, ListenerTypeOK
  <2> QED BY <1>6, <2>1 DEF Broadcast, ListenerTypeOK
<1>7. ASSUME NEW c \in ListenClosers, ListenerClose(c) PROVE ListenerInv'
  <2>1. Holding' = Holding BY <1>7 DEF ListenerClose, Holding
  <2> QED BY <1>7, <2>1, Zenon DEF ListenerClose, ListenerTypeOK
<1>8. ASSUME NEW c \in ListenClosers, WaitForRefs(c) PROVE ListenerInv'
  <2>1. Holding' = Holding BY <1>8 DEF WaitForRefs, Holding
  <2>2. ASSUME refs = 0, NEW s \in Servers PROVE server[s] # "accepting"
    <3>1. IsFiniteSet(Holding) BY FS_Subset, FiniteServers DEF Holding
    <3>2. Holding = {} BY <2>2, <3>1, FS_EmptySet, Zenon
    <3> QED BY <3>2 DEF Holding
  <2>3. ASSUME NEW d \in ListenClosers, closer'[d] = "closed", NEW s \in Servers
        PROVE  server'[s] # "accepting"
    <3>1. CASE closer[d] = "closed" BY <1>8, <2>3, <3>1 DEF WaitForRefs
    <3>2. CASE closer[d] # "closed"
      <4>1. refs = 0 BY <1>8, <2>3, <3>2 DEF WaitForRefs, ListenerTypeOK
      <4> QED BY <1>8, <2>2, <4>1 DEF WaitForRefs
    <3> QED BY <3>1, <3>2
  <2> QED BY <1>8, <2>1, <2>3 DEF WaitForRefs, ListenerTypeOK
<1>9. CASE UNCHANGED listenerVars
  BY <1>9 DEF listenerVars, Holding, ListenerTypeOK
<1> QED BY <1>1, <1>2, <1>3, <1>4, <1>5, <1>6, <1>7, <1>8, <1>9, Zenon
       DEF ListenerNext, ListenerStep, ServerStep

\* refs is the number of Accept calls in progress, whatever the order of incRef, decRef and
\* Close.
THEOREM ListenerCounts == ListenerSpec => []ListenerInv
BY ListenerInvInit, ListenerInvNext, PTL DEF ListenerSpec

\* After a Close that succeeded no Accept returns a connection.
THEOREM NoLateAccept == ListenerSpec => NoAcceptAfterClose
<1>1. ListenerInv /\ [ListenerNext]_listenerVars
      => [(\E c \in ListenClosers : closer[c] = "closed") => accepted' = accepted]_listenerVars
  BY DEF ListenerInv, ListenerTypeOK, ListenerNext, ListenerStep, ServerStep, incRef, BeginAccept, Accepts,
         AcceptFails, decRef, Broadcast, ListenerClose, WaitForRefs, listenerVars
<1> QED BY <1>1, ListenerCounts, PTL DEF ListenerSpec, NoAcceptAfterClose
=============================================================================
