---------------------------- MODULE ConnectionInv ----------------------------
(***************************************************************************)
(* The inductive invariant behind the safety properties of Connection.     *)
(* The properties speak of the shared state; the invariant adds what each  *)
(* goroutine knows from the steps it has already taken, and why that       *)
(* knowledge, though stale, cannot have become wrong.                      *)
(***************************************************************************)
EXTENDS Connection

\* A handler runs only for a call id readFrames has seen, and its watcher only
\* after readMethod; the call being registered has neither.
DispatchInv ==
  /\ \A i \in InCalls : i \notin seen => At(Handler(i), "idle")
  /\ pc[Reader] \in {"reqReject", "reqAdd", "reqRecheck"} =>
       rcall \in seen /\ At(Handler(rcall), "idle")
  /\ \A i \in InCalls : pc[Handler(i)] \in {"idle", "start"} => At(Watcher(i), "idle")

\* Only the goroutines that own an exchange shut it down, remove or expire it.
ExchangeInv ==
  /\ \A g \in Goroutines :
       /\ At(g, "shutdown") => g \in {Reader} \cup Handlers \cup Callers
       /\ At(g, "remove") => g \in {Reader} \cup Handlers \cup Callers \cup Pingers
       /\ At(g, "expire") => g \in Watchers
  /\ pc[Reader] \in {"shutdown", "remove"} => rcall \in InCalls

\* What curState can be at each step of checkExchanges.
CurAt(g) ==
  /\ At(g, "ce_stopped") => cur[g] \in {connectionStartClose, connectionInboundClosed}
  /\ pc[g] \in {"ce_in", "ce_inMove"} => cur[g] = connectionStartClose
  /\ pc[g] \in {"ce_out", "ce_outMove"} => cur[g] = connectionInboundClosed
  /\ cur[g] = connectionClosed => At(g, "ce_done")
  /\ cur[g] <= state

CurInv == \A g \in Goroutines : CurAt(g)

\* At most one goroutine has moved the state to Closed and not yet said so.
WinnerInv ==
  /\ \A g \in Goroutines : cur[g] = connectionClosed => state = connectionClosed /\ stopCh = 0
  /\ \A g, h \in Goroutines :
       cur[g] = connectionClosed /\ cur[h] = connectionClosed => g = h
  /\ stopCh <= 1
  /\ stopCh = 1 => state = connectionClosed

Relaying == {r \in RelayCalls : At(Relay(r), "relaying")}

\* pending counts the relayed calls; it is 0 for whoever is past canClose.
PendingInv ==
  /\ pending = Cardinality(Relaying)
  /\ state = connectionInboundClosed => pending = 0
  /\ \A g \in Goroutines :
       At(g, "ce_inMove") \/ cur[g] = connectionInboundClosed => pending = 0

\* An outbound call is shut down by its caller only, once.
CallerInv ==
  \A o \in OutCalls :
    /\ pc[Caller(o)] \in {"begin", "add", "recheck", "checkError", "flush", "wait"}
         => o \notin shut /\ ret[Caller(o)] # "rejected"
    /\ At(Caller(o), "shutdown") => o \notin shut
    /\ ret[Caller(o)] = "rejected" =>
         pc[Caller(o)] \in {"shutdown", "remove"} \/ o \notin mexes
    /\ pc[Caller(o)] \in {"begin", "add", "rejected"} => o \notin mexes

\* No call is open for whoever is about to move the state.
DrainInv ==
  /\ Drained
  /\ \A g \in Goroutines :
       /\ At(g, "ce_inMove") => OpenInbound = {}
       /\ At(g, "ce_outMove") => OpenOutbound = {}

IInv == /\ TypeOK /\ DispatchInv /\ ExchangeInv /\ CurInv /\ WinnerInv
        /\ PendingInv /\ CallerInv /\ DrainInv

\* The exchanges are stopped only after close has been called.
StopLabels == {"errStop", "perrStop"}
FailInv ==
  \A g \in Goroutines :
    pc[g] \in StopLabels \/ ret[g] \in StopLabels => state # connectionActive

\* writeFrames closes the socket of a Closed connection, as its last step.
SocketInv ==
  /\ netClosed => At(Writer, "done")
  /\ At(Writer, "closing") => state = connectionClosed

RInv == IInv /\ FailInv /\ SocketInv

\* The exchange of a ping is in use until removeExchange, which runs even when
\* ping goes through connectionError first.
PingHolds(g) ==
  \/ pc[g] \in {"pingSend", "pingWait", "pingDone", "remove"}
  \/ pc[g] \in CheckLabels /\ ret[g] = "pingDone"
  \/ pc[g] \in CheckLabels /\ ret[g] = "errStop" /\ after[g] = "pingDone"
  \/ pc[g] \in {"connectionError", "errStop", "errOut", "errIn"} /\ after[g] = "pingDone"

PingInv ==
  \A p \in Pings :
    /\ PingHolds(Pinger(p)) => p \in mexes
    /\ At(Pinger(p), "remove") => ret[Pinger(p)] = "done"

\* The labels at which a caller relies on the exchange of its call, and those at
\* which a handler still has its exchange to shut down.
CallLabels  == {"recheck", "checkError", "flush", "wait", "shutdown", "remove"}
ServeLabels == {"start", "handle", "flush", "doneSending", "shutdown"}

\* The exchange of an inbound call is shut down once, and from its dispatch on it
\* is in the set, or expired, exactly until its handler has removed it.  Only
\* Blackhole leaves it there: it shuts nothing down.
HandlerLife(i) ==
  /\ i \notin seen => i \notin mexes \cup expired \cup shut
  /\ At(Handler(i), "idle") => i \notin expired
  /\ pc[Handler(i)] \in ServeLabels => i \notin shut
  /\ pc[Handler(i)] \in ServeLabels \cup {"remove"} => i \in mexes \cup expired
  /\ "blackhole" \notin Events =>
       pc[Handler(i)] \in ServeLabels \cup {"idle", "remove"} \/ i \notin mexes \cup expired

\* Whoever still has to remove the exchange of a call finds it; the one that
\* readFrames gives up has no handler that would remove it too.
LifeInv ==
  /\ mexes \cap expired = {}
  /\ pc[Reader] \in {"reqRecheck", "shutdown", "remove"} => rcall \in mexes \cup expired
  /\ pc[Reader] \in {"shutdown", "remove"} => At(Handler(rcall), "idle")
  /\ pc[Reader] \in {"reqAdd", "reqRecheck"} => rcall \notin shut
  /\ \A o \in OutCalls : pc[Caller(o)] \in CallLabels => o \in mexes
  /\ \A i \in InCalls : HandlerLife(i)

\* The labels at which a handler has its response still to send.
AnswerLabels == {"start", "handle", "flush", "doneSending"}

\* Exchanges are notified of an error when they are shut down, or all of them
\* after stoppedExchanges was set.
NotifyLabels == {"errOut", "errIn", "perrOut", "perrIn"}
NotifyInv ==
  /\ \A g \in Goroutines : pc[g] \in NotifyLabels => stopped
  /\ ~stopped => errCh \subseteq shut

\* Unless the connection failed, the context of a call whose response is not sent
\* yet is not cancelled, and the call expires only by its deadline.
ContextLife(i) ==
  /\ pc[Handler(i)] \in {"idle"} \cup AnswerLabels => ctx[i] # "cancelled"
  /\ pc[Handler(i)] \in AnswerLabels /\ (At(Watcher(i), "expire") \/ i \in expired)
       => ctx[i] = "deadline"
ContextInv == ~stopped => \A i \in InCalls : ContextLife(i)

\* What may be left in sendCh when writeFrames has drained it for the last time.
LeftBehind(f) ==
  \/ f[1] \in {"pong", "ping"}
  \/ f[1] = "callRes" /\ f[2] \in InCalls /\ ctx[f[2]] = "deadline"
StrandInv ==
  At(Writer, "closing") \/ netClosed =>
    /\ state = connectionClosed
    /\ ~stopped => \A k \in 1..Len(sendCh) : LeftBehind(sendCh[k])

LInv == RInv /\ PingInv /\ LifeInv /\ NotifyInv /\ ContextInv /\ StrandInv

=============================================================================
