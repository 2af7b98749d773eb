------------------------------- MODULE Relay -------------------------------
(***************************************************************************)
(* The relay of one pair of connections (relay.go, relay_timer_pool.go):    *)
(* calls that arrive on the source connection are forwarded to the         *)
(* destination connection, responses the other way.  Each connection has a *)
(* reader goroutine that runs Relay for every frame it reads, and every    *)
(* relay item has a timer whose callback runs on a goroutine of its own.   *)
(*                                                                         *)
(* items["src"] is the source relayer's outbound map, items["dst"] the     *)
(* destination relayer's inbound map, both indexed by the relayed call      *)
(* (the map of message IDs, remapID, is one-to-one).  A step ends wherever  *)
(* another goroutine can see the difference: at each lock of a relayItems   *)
(* and at each update of pending.                                          *)
(***************************************************************************)
EXTENDS Integers, FiniteSets, Sequences, TLC

CONSTANTS
    Calls,      \* the relayed calls, standing for their message IDs
    SendCap,    \* capacity of a connection's sendCh (SendBufferSize)
    MaxTombs,   \* maxTombs of relayItems (RelayMaxTombs)
    MaxFrags    \* bound: fragments a call req with arg2 appends is sent in

ASSUME RelayBounds == /\ IsFiniteSet(Calls) /\ Calls # {}
                      /\ SendCap \in Nat \ {0}
                      /\ MaxTombs \in Nat
                      /\ MaxFrags \in Nat \ {0}

VARIABLES
    items,      \* side -> call -> "none", "live" or "tomb"
    timer,      \* side -> call -> state of the item's relayTimer
    fire,       \* side -> call -> where the timer's goroutine stands
    gc,         \* side -> the calls with a time.AfterFunc(Delete) scheduled
    pending,    \* side -> Relayer.pending
    connActive, \* side -> the connection is in connectionActive
    sendCh,     \* side -> the frames queued for the writer
    job,        \* side -> what the reader goroutine of the connection runs
    client,     \* call -> what the calling peer sends next
    server,     \* call -> what the called peer sends next
    ends,       \* call -> how often RelayCall.End was called
    answers,    \* call -> what was put on the source's sendCh to end the call
    panicked    \* some relayTimer method panicked

relayVars == <<items, timer, fire, gc, pending, connActive, sendCh, job, client,
          server, ends, answers, panicked>>
timerVars == <<timer, panicked>>
itemVars == <<items, timerVars, gc>>
envVars == <<connActive, client, server>>

Sides == {"src", "dst"}
Other(s) == IF s = "src" THEN "dst" ELSE "src"

Idle == [step |-> "idle", at |-> "own", call |-> CHOOSE k \in Calls : TRUE,
         type |-> "callReq", more |-> FALSE, left |-> 0]
Goto(s, step) == job' = [job EXCEPT ![s].step = step]
GotoAt(s, at, step) == job' = [job EXCEPT ![s].step = step, ![s].at = at]

\* The relayItems the running procedure of reader s works on: its own relayer's
\* in handleNonCallReq and handleCallReq, the destination's in Receive.
SideOf(s) == IF job[s].at = "own" THEN s ELSE Other(s)

\* finishesCall: the last frame expected of a call.
finishesCall(j) == j.type = "error" \/ (j.type \in {"callRes", "callResContinue"} /\ ~j.more)

(***************************************************************************)
(* The relay timer.  "firing": the Go timer expired and OnTimer is due to   *)
(* run; "ran": OnTimer marked it inactive.  Stop is called with the read     *)
(* lock of the items held, which does not exclude another Stop: the flag     *)
(* rt.stopped is read in one step and the Go timer stopped in the next.     *)
(***************************************************************************)
\* A timer is "none", "new", "active", "firing", "ran", "stopped" or "released".

\* relayTimer.Release, called once the item left the map
Release(s, k) ==
    /\ panicked' = (panicked \/ timer[s][k] \notin {"new", "ran", "stopped"})
    /\ timer' = [timer EXCEPT ![s][k] = "released"]

\* relayTimer.Start
Start(s, k) ==
    /\ panicked' = (panicked \/ timer[s][k] # "new")
    /\ timer' = [timer EXCEPT ![s][k] = "active"]

(***************************************************************************)
(* relayItems.                                                             *)
(***************************************************************************)
\* A reader between the two steps of relayItems.Get holds the read lock.
ReadLocked(s) == \E p \in Sides : job[p].step \in {"stop", "failStop"} /\ SideOf(p) = s

\* r.tombs > r.maxTombs: others is the number of tombstones that calls outside
\* Calls have left, which may be anything.
TooManyTombs(s, others) == Cardinality({k \in Calls : items[s][k] = "tomb"}) + others > MaxTombs

\* relayItems.Delete
Delete(s, k) ==
    /\ ~ReadLocked(s)
    /\ items' = [items EXCEPT ![s][k] = "none"]
    /\ IF items[s][k] = "none" THEN UNCHANGED timerVars ELSE Release(s, k)
    /\ UNCHANGED gc

\* relayItems.Entomb of a live item when there is room for the tombstone
Entomb(s, k) ==
    /\ ~ReadLocked(s)
    /\ items' = [items EXCEPT ![s][k] = "tomb"]
    /\ gc' = [gc EXCEPT ![s] = @ \cup {k}]
    /\ UNCHANGED timerVars

\* The function time.AfterFunc runs _relayTombTTL after an Entomb
DeleteTomb(s, k) ==
    /\ k \in gc[s]
    /\ ~ReadLocked(s)
    /\ gc' = [gc EXCEPT ![s] = @ \ {k}]
    /\ items' = [items EXCEPT ![s][k] = "none"]
    /\ IF items[s][k] = "none" THEN UNCHANGED timerVars ELSE Release(s, k)
    /\ UNCHANGED <<fire, pending, sendCh, job, ends, answers, envVars>>

(***************************************************************************)
(* Effects on the source connection.                                       *)
(***************************************************************************)
End(k) == ends' = [ends EXCEPT ![k] = @ + 1]

\* SendSystemError: dropped (and logged) when sendCh is full.
SendSystemError(k) ==
    IF Len(sendCh["src"]) < SendCap
    THEN sendCh' = [sendCh EXCEPT !["src"] = Append(@, <<k, "error">>)]
    ELSE UNCHANGED sendCh

Dec(s) == pending' = [pending EXCEPT ![s] = @ - 1]

(***************************************************************************)
(* handleCallReq, on the source's reader.                                  *)
(***************************************************************************)
Reads(k, type, more) ==
    /\ job["src"] = Idle
    /\ client' = [client EXCEPT ![k] = IF more THEN "cont" ELSE "done"]
    /\ job' = [job EXCEPT !["src"] = [Idle EXCEPT !.call = k, !.type = type, !.more = more,
                                      !.step = IF type = "callReq" THEN "admit" ELSE "get"]]

\* relayHost.Start accepts the call.
StartCall(k, more) ==
    /\ client[k] = "start"
    /\ Reads(k, "callReq", more)
    /\ UNCHANGED <<itemVars, fire, pending, connActive, sendCh, server, ends, answers>>

\* relayHost.Start returns an error: a RateLimitDropError is not answered, a
\* protocol error also closes the connection.
RefuseCall(k, drop, protocol) ==
    /\ client[k] = "start" /\ job["src"] = Idle
    /\ drop => ~protocol
    /\ client' = [client EXCEPT ![k] = "done"]
    /\ End(k)
    /\ IF drop THEN UNCHANGED sendCh ELSE SendSystemError(k)
    /\ connActive' = [connActive EXCEPT !["src"] = @ /\ ~protocol]
    /\ UNCHANGED <<itemVars, fire, pending, job, server, answers>>

\* A second call req with the ID of an item that is still in the map: getDestination
\* fails the new RelayCall, which is not one of Calls.
DuplicateCallReq(k) ==
    /\ client[k] = "cont" /\ items["src"][k] # "none" /\ connActive["src"]
    /\ job["src"] = Idle
    /\ client' = [client EXCEPT ![k] = "done"]
    /\ pending' = [pending EXCEPT !["src"] = @ + 1]
    /\ job' = [job EXCEPT !["src"] = [Idle EXCEPT !.call = k, !.step = "undoDuplicate"]]
    /\ UNCHANGED <<itemVars, fire, connActive, sendCh, server, ends, answers>>

undoDuplicate ==
    /\ job["src"].step = "undoDuplicate"
    /\ Dec("src")
    /\ job' = [job EXCEPT !["src"] = Idle]
    /\ UNCHANGED <<itemVars, fire, sendCh, ends, answers, envVars>>

\* canHandleNewCall of the source, then of the destination connection
canHandleNewCall(s) ==
    LET k == job["src"].call IN
    /\ job["src"].step = (IF s = "src" THEN "admit" ELSE "admitRemote")
    /\ IF connActive[s]
       THEN /\ pending' = [pending EXCEPT ![s] = @ + 1]
            /\ Goto("src", IF s = "src" THEN "destination" ELSE "addRemote")
            /\ UNCHANGED <<sendCh, ends>>
       ELSE /\ SendSystemError(k)
            /\ IF s = "src" THEN End(k) /\ job' = [job EXCEPT !["src"] = Idle]
                            ELSE Goto("src", "undo") /\ UNCHANGED ends
            /\ UNCHANGED pending
    /\ UNCHANGED <<itemVars, fire, answers, envVars>>

\* getDestination of an ID that is not in use: the relay host has no peer, the
\* peer has no connection, or there is one.
getDestination ==
    /\ job["src"].step = "destination"
    /\ \/ Goto("src", "admitRemote") /\ UNCHANGED sendCh
       \/ Goto("src", "undo") /\ SendSystemError(job["src"].call)
    /\ UNCHANGED <<itemVars, fire, pending, ends, answers, envVars>>

\* mutant: the source's pending count is left incremented
undo_KeepsPending ==
    /\ job["src"].step = "undo"
    /\ End(job["src"].call)
    /\ job' = [job EXCEPT !["src"] = Idle]
    /\ UNCHANGED <<itemVars, fire, pending, sendCh, answers, envVars>>

undo ==
    /\ job["src"].step = "undo"
    /\ Dec("src") /\ End(job["src"].call)
    /\ job' = [job EXCEPT !["src"] = Idle]
    /\ UNCHANGED <<itemVars, fire, sendCh, answers, envVars>>

\* addRelayItem: takes a timer and adds the item, then starts the timer.
addRelayItem(s) ==
    LET k == job["src"].call IN
    /\ UNCHANGED <<fire, gc, pending, sendCh, ends, answers, envVars>>
    /\ \/ /\ job["src"].step = (IF s = "dst" THEN "addRemote" ELSE "addOwn")
          /\ ~ReadLocked(s)
          /\ items' = [items EXCEPT ![s][k] = "live"]
          /\ timer' = [timer EXCEPT ![s][k] = "new"]
          /\ Goto("src", IF s = "dst" THEN "startRemote" ELSE "startOwn")
          /\ UNCHANGED panicked
       \/ /\ job["src"].step = (IF s = "dst" THEN "startRemote" ELSE "startOwn")
          /\ Start(s, k)
          /\ IF s = "dst" THEN Goto("src", "addOwn") ELSE Goto("src", "modify")
          /\ UNCHANGED items

\* The call req goes out as it is, or fragmentingSend sends it in up to MaxFrags
\* frames, or the arg2 appends cannot be written.
forwardCallReq ==
    /\ job["src"].step = "modify"
    /\ \/ GotoAt("src", "own", "failGet")
       \/ \E n \in 1..MaxFrags :
             job' = [job EXCEPT !["src"].step = "get", !["src"].at = "recv", !["src"].left = n - 1]
    /\ UNCHANGED <<itemVars, fire, pending, sendCh, ends, answers, envVars>>

\* handleLocalCallReq: a call for the relay's own channel is handled there when it
\* is not fragmented.
handleLocalCallReq(k, more) ==
    /\ client[k] = "start" /\ job["src"] = Idle
    /\ client' = [client EXCEPT ![k] = "local"]
    /\ IF more THEN SendSystemError(k) ELSE UNCHANGED sendCh
    /\ UNCHANGED <<itemVars, fire, pending, job, connActive, server, ends, answers>>

(***************************************************************************)
(* handleNonCallReq and Receive.  A job at "own" runs on the reader's own   *)
(* relayer, at "recv" inside Receive on the other connection's relayer.     *)
(***************************************************************************)
\* The caller continues after Receive or after the last step on its own items:
\* the next fragment of a call req, or the next frame.
Done(s) ==
    [job EXCEPT ![s] = IF job[s].left > 0
                       THEN [job[s] EXCEPT !.step = "get", !.at = "recv", !.left = job[s].left - 1]
                       ELSE Idle]
ReceiveSent(s) == IF finishesCall(job[s]) THEN GotoAt(s, "own", "finish") ELSE job' = Done(s)
ReceiveNotSent(s) == GotoAt(s, "own", "failGet")

ReadReqContinue(k) ==
    /\ client[k] = "cont"
    /\ Reads(k, "callReqContinue", FALSE)
    /\ UNCHANGED <<itemVars, fire, pending, connActive, sendCh, server, ends, answers>>

\* The called peer answers with an error, or a response of one or two frames.
ReadResponse(k, type, more) ==
    /\ job["dst"] = Idle
    /\ server[k] = (IF type = "callResContinue" THEN "cont" ELSE "called")
        \/ (server[k] = "cont" /\ type = "error")
    /\ more => type = "callRes"
    /\ server' = [server EXCEPT ![k] = IF more THEN "cont" ELSE "done"]
    /\ job' = [job EXCEPT !["dst"] = [Idle EXCEPT !.call = k, !.type = type, !.more = more, !.step = "get"]]
    /\ UNCHANGED <<itemVars, fire, pending, connActive, client, sendCh, ends, answers>>

\* mutant: the result of Stop is not looked at
Found_IgnoresStop(s, tomb, stopped) ==
    IF tomb THEN IF job[s].at = "own" THEN job' = Done(s) ELSE ReceiveSent(s)
    ELSE IF job[s].at = "own" THEN GotoAt(s, "recv", "get") ELSE Goto(s, "push")

\* What follows relayItems.Get when the item was found.
Found(s, tomb, stopped) ==
    IF tomb \/ (finishesCall(job[s]) /\ ~stopped)
    THEN IF job[s].at = "own" THEN job' = Done(s) ELSE ReceiveSent(s)
    ELSE IF job[s].at = "own" THEN GotoAt(s, "recv", "get") ELSE Goto(s, "push")

\* relayItems.Get, with stopTimeout for the last frame of a call
Get(s) ==
    LET i == SideOf(s)  k == job[s].call IN
    /\ job[s].step = "get"
    /\ IF items[i][k] = "none"
       THEN IF job[s].at = "own" THEN job' = Done(s) ELSE ReceiveNotSent(s)
       ELSE IF finishesCall(job[s]) /\ timer[i][k] # "stopped"
            THEN Goto(s, "stop")
            ELSE Found(s, items[i][k] = "tomb", TRUE)
    /\ UNCHANGED <<itemVars, fire, pending, sendCh, ends, answers, envVars>>

\* mutant: a timer that has run counts as stopped
Stop_AlwaysTrue(i, k, got) ==
    /\ got
    /\ timer' = [timer EXCEPT ![i][k] = IF @ = "active" THEN "stopped" ELSE @]
    /\ UNCHANGED panicked

\* relayTimer.Stop after rt.stopped was read as false: only an active Go timer is
\* stopped.  got is what it returns.
Stop(i, k, got) ==
    /\ got = (timer[i][k] = "active")
    /\ timer' = [timer EXCEPT ![i][k] = IF got THEN "stopped" ELSE @]
    /\ panicked' = (panicked \/ timer[i][k] \in {"new", "released"})

StopTimeout(s) ==
    LET i == SideOf(s)  k == job[s].call IN
    /\ job[s].step = "stop"
    /\ \E got \in BOOLEAN : Stop(i, k, got) /\ Found(s, items[i][k] = "tomb", got)
    /\ UNCHANGED <<items, gc, fire, pending, sendCh, ends, answers, envVars>>

\* Receive queues the frame, or cancels the call when sendCh is full.
push(s) ==
    LET i == SideOf(s)  j == job[s] IN
    /\ j.step = "push"
    /\ IF Len(sendCh[i]) < SendCap
       THEN /\ sendCh' = [sendCh EXCEPT ![i] = Append(@, <<j.call, j.type>>)]
            /\ answers' = IF finishesCall(j) THEN [answers EXCEPT ![j.call] = @ \cup {"response"}]
                                             ELSE answers
            /\ IF finishesCall(j) THEN Goto(s, "finish") ELSE ReceiveSent(s)
       ELSE Goto(s, "failGet") /\ UNCHANGED <<sendCh, answers>>
    /\ UNCHANGED <<itemVars, fire, pending, ends, envVars>>

\* finishRelayItem: Delete, and for a live item End and decrementPending
AfterFinish(s) == IF job[s].at = "recv" THEN ReceiveSent(s) ELSE job' = Done(s)
\* mutant: a tombstone is settled again
finishRelayItem_Tomb(s) ==
    LET i == SideOf(s)  k == job[s].call IN
    /\ job[s].step = "finish"
    /\ Delete(i, k)
    /\ IF items[i][k] # "none" THEN Goto(s, "finishSettle") ELSE AfterFinish(s)
    /\ UNCHANGED <<fire, pending, sendCh, ends, answers, envVars>>

finishRelayItem(s) ==
    LET i == SideOf(s)  k == job[s].call IN
    /\ job[s].step = "finish"
    /\ Delete(i, k)
    /\ IF items[i][k] = "live" THEN Goto(s, "finishSettle") ELSE AfterFinish(s)
    /\ UNCHANGED <<fire, pending, sendCh, ends, answers, envVars>>

finishSettle(s) ==
    LET i == SideOf(s) IN
    /\ job[s].step = "finishSettle"
    /\ IF i = "src" THEN End(job[s].call) ELSE UNCHANGED ends
    /\ Dec(i)
    /\ AfterFinish(s)
    /\ UNCHANGED <<itemVars, fire, sendCh, answers, envVars>>

(***************************************************************************)
(* failRelayItem.                                                          *)
(***************************************************************************)
AfterFail(s) == IF job[s].at = "recv" THEN ReceiveNotSent(s) ELSE job' = Done(s)

\* relayItems.Get(id, true): a timer that was stopped before counts as stopped.
failRelayItem(s) ==
    LET i == SideOf(s)  k == job[s].call IN
    /\ job[s].step = "failGet"
    /\ IF items[i][k] = "none" THEN AfterFail(s)
       ELSE Goto(s, IF timer[i][k] = "stopped" THEN "entomb" ELSE "failStop")
    /\ UNCHANGED <<itemVars, fire, pending, sendCh, ends, answers, envVars>>

failStop(s) ==
    /\ job[s].step = "failStop"
    /\ \E got \in BOOLEAN :
          /\ Stop(SideOf(s), job[s].call, got)
          /\ IF got THEN Goto(s, "entomb") ELSE AfterFail(s)
    /\ UNCHANGED <<items, gc, fire, pending, sendCh, ends, answers, envVars>>

\* mutant: a tombstone is entombed again
failEntomb_Again(s, others) ==
    LET i == SideOf(s)  k == job[s].call IN
    /\ job[s].step = "entomb"
    /\ Entomb(i, k) /\ Goto(s, "failSettle")
    /\ UNCHANGED <<fire, pending, sendCh, ends, answers, envVars>>

\* Entomb: with too many tombstones the item is deleted at once instead.
failEntomb(s, others) ==
    LET i == SideOf(s)  k == job[s].call IN
    /\ job[s].step = "entomb"
    /\ IF TooManyTombs(i, others) THEN Goto(s, "delete") /\ ~ReadLocked(i) /\ UNCHANGED itemVars
       ELSE IF items[i][k] = "live" THEN Entomb(i, k) /\ Goto(s, "failSettle")
       ELSE AfterFail(s) /\ ~ReadLocked(i) /\ UNCHANGED itemVars
    /\ UNCHANGED <<fire, pending, sendCh, ends, answers, envVars>>

failDelete(s) ==
    LET i == SideOf(s)  k == job[s].call IN
    /\ job[s].step = "delete"
    /\ Delete(i, k)
    /\ IF items[i][k] = "live" THEN Goto(s, "failSettle") ELSE AfterFail(s)
    /\ UNCHANGED <<fire, pending, sendCh, ends, answers, envVars>>

\* The originator reports the failure, unless it is the source that is slow (the
\* call was cancelled by a Receive on the source).
failSettle(s) ==
    LET i == SideOf(s)  k == job[s].call IN
    /\ job[s].step = "failSettle"
    /\ IF i = "src" /\ s = "src" THEN SendSystemError(k) ELSE UNCHANGED sendCh
    /\ IF i = "src" THEN End(k) ELSE UNCHANGED ends
    /\ Dec(i)
    /\ AfterFail(s)
    /\ UNCHANGED <<itemVars, fire, answers, envVars>>

(***************************************************************************)
(* The timeout goroutine of a relay item.                                  *)
(***************************************************************************)
\* The Go timer expires and starts a goroutine that calls OnTimer.
Expire(s, k) ==
    /\ timer[s][k] = "active"
    /\ timer' = [timer EXCEPT ![s][k] = "firing"]
    /\ UNCHANGED <<items, gc, panicked, fire, pending, sendCh, job, ends, answers, envVars>>

OnTimer(s, k) ==
    /\ timer[s][k] = "firing"
    /\ timer' = [timer EXCEPT ![s][k] = "ran"]
    /\ fire' = [fire EXCEPT ![s][k] = "entomb"]
    /\ UNCHANGED <<items, gc, panicked, pending, sendCh, job, ends, answers, envVars>>

\* timeoutRelayItem up to the result of Entomb
timeoutRelayItem(s, k, others) ==
    /\ \/ /\ fire[s][k] = "entomb" /\ TooManyTombs(s, others) /\ ~ReadLocked(s)
          /\ fire' = [fire EXCEPT ![s][k] = "delete"]
          /\ UNCHANGED itemVars
       \/ /\ fire[s][k] = "entomb" /\ ~TooManyTombs(s, others)
          /\ IF items[s][k] = "live" THEN Entomb(s, k) ELSE ~ReadLocked(s) /\ UNCHANGED itemVars
          /\ fire' = [fire EXCEPT ![s][k] = IF items[s][k] = "live" THEN "settle" ELSE "off"]
       \/ /\ fire[s][k] = "delete"
          /\ Delete(s, k)
          /\ fire' = [fire EXCEPT ![s][k] = IF items[s][k] = "live" THEN "settle" ELSE "off"]
    /\ UNCHANGED <<pending, sendCh, job, ends, answers, envVars>>

timeoutSettle(s, k) ==
    /\ fire[s][k] = "settle"
    /\ fire' = [fire EXCEPT ![s][k] = "off"]
    /\ IF s = "src" THEN SendSystemError(k) /\ End(k) /\ answers' = [answers EXCEPT ![k] = @ \cup {"timeout"}]
                    ELSE UNCHANGED <<sendCh, answers, ends>>
    /\ Dec(s)
    /\ UNCHANGED <<itemVars, job, envVars>>

(***************************************************************************)
(* The rest of the two connections.                                        *)
(***************************************************************************)
\* writeFrames sends the head of sendCh; the called peer sees the call req.
writeFrames(s) ==
    /\ sendCh[s] # <<>>
    /\ sendCh' = [sendCh EXCEPT ![s] = Tail(@)]
    /\ server' = [server EXCEPT ![Head(sendCh[s])[1]] =
                    IF s = "dst" /\ @ = "none" THEN "called" ELSE @]
    /\ UNCHANGED <<itemVars, fire, pending, connActive, job, client, ends, answers>>

\* The connection leaves connectionActive (close or connectionError).
CloseConn(s) ==
    /\ connActive[s]
    /\ connActive' = [connActive EXCEPT ![s] = FALSE]
    /\ UNCHANGED <<itemVars, fire, pending, sendCh, job, client, server, ends, answers>>

RelayInit ==
    /\ items = [s \in Sides |-> [k \in Calls |-> "none"]]
    /\ timer = [s \in Sides |-> [k \in Calls |-> "none"]]
    /\ fire = [s \in Sides |-> [k \in Calls |-> "off"]]
    /\ gc = [s \in Sides |-> {}]
    /\ pending = [s \in Sides |-> 0]
    /\ connActive = [s \in Sides |-> TRUE]
    /\ sendCh = [s \in Sides |-> <<>>]
    /\ job = [s \in Sides |-> Idle]
    /\ client = [k \in Calls |-> "start"]
    /\ server = [k \in Calls |-> "none"]
    /\ ends = [k \in Calls |-> 0]
    /\ answers = [k \in Calls |-> {}]
    /\ panicked = FALSE

\* A step of a goroutine of the relay that runs on its own
ReaderStep(s) ==
    \/ Get(s) \/ StopTimeout(s) \/ push(s)
    \/ finishRelayItem(s) \/ finishSettle(s)
    \/ failRelayItem(s) \/ failStop(s) \/ failDelete(s) \/ failSettle(s)
    \/ \E others \in 0..MaxTombs + 1 : failEntomb(s, others)

CallReqStep ==
    \/ undoDuplicate \/ getDestination \/ undo \/ forwardCallReq
    \/ \E s \in Sides : canHandleNewCall(s) \/ addRelayItem(s)

TimerStep(s, k) ==
    \/ Expire(s, k) \/ OnTimer(s, k) \/ timeoutSettle(s, k)
    \/ \E others \in 0..MaxTombs + 1 : timeoutRelayItem(s, k, others)
    \/ DeleteTomb(s, k)

Arrives(k) ==
    \/ \E more \in BOOLEAN : StartCall(k, more) \/ handleLocalCallReq(k, more)
    \/ \E drop, protocol \in BOOLEAN : RefuseCall(k, drop, protocol)
    \/ DuplicateCallReq(k)
    \/ ReadReqContinue(k)
    \/ \E type \in {"callRes", "callResContinue", "error"}, more \in BOOLEAN : ReadResponse(k, type, more)

RelayNext ==
    \/ \E k \in Calls : Arrives(k)
    \/ CallReqStep
    \/ \E s \in Sides : ReaderStep(s) \/ writeFrames(s) \/ CloseConn(s)
    \/ \E s \in Sides, k \in Calls : TimerStep(s, k)

RelaySpec == RelayInit /\ [][RelayNext]_relayVars

\* A goroutine that can run does run, a Go timer expires, an AfterFunc runs.  That
\* peers send or read anything, or that sendCh is ever drained, is not assumed.
RelayFairness ==
    /\ WF_relayVars(CallReqStep)
    /\ \A s \in Sides : WF_relayVars(ReaderStep(s))
    /\ \A s \in Sides, k \in Calls : WF_relayVars(TimerStep(s, k))

RelayFairSpec == RelaySpec /\ RelayFairness

-----------------------------------------------------------------------------
\* Goroutines that hold a reference on the relayer of side s outside an item: an
\* admitted call without an item yet, or an item taken out and not yet settled.
InHand(s) ==
    (IF job["src"].step \in (IF s = "dst" THEN {"addRemote"}
                             ELSE {"destination", "admitRemote", "addRemote", "startRemote",
                                   "addOwn", "undo", "undoDuplicate"})
     THEN 1 ELSE 0)
    + Cardinality({p \in Sides : job[p].step \in {"failSettle", "finishSettle"} /\ SideOf(p) = s})
    + Cardinality({k \in Calls : fire[s][k] = "settle"})

\* The pending count of a relayer, which decides whether its connection may close
\* (canClose), is the number of its live items plus the calls in a goroutine's
\* hands: no order of timeouts, failures, last frames and tombstone overflow
\* decrements it twice or forgets it.
PendingBalanced ==
    \A s \in Sides : pending[s] = Cardinality({k \in Calls : items[s][k] = "live"}) + InHand(s)

\* RelayCall.End is called at most once ("Will be called exactly once", the doc
\* of RelayCall), whoever of the two readers and the timeout ends the call.
EndOnce == \A k \in Calls : ends[k] <= 1

\* No relayTimer is started twice, released while active, or used after it went
\* back to the pool: none of the panics of relay_timer_pool.go is reachable.
TimerSafe == ~panicked

\* A call that was answered with a timeout error is not also answered with its
\* response: Get stops the timer before the last frame is forwarded.
TimeoutExcludesResponse == \A k \in Calls : ~({"timeout", "response"} \subseteq answers[k])

\* Every call the relay host started is ended; and with no more calls the items,
\* the tombstones and pending of both relayers go back to nothing, even if neither
\* peer answers and sendCh is never drained.
RelayDrains ==
    /\ \A k \in Calls : client[k] \in {"cont", "done"} ~> ends[k] = 1
    /\ <>[](\A s \in Sides : pending[s] = 0 /\ \A k \in Calls : items[s][k] = "none")
=============================================================================
