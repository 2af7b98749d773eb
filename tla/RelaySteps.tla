----------------------------- MODULE RelaySteps -----------------------------
(***************************************************************************)
(* Proofs about Relay, first part: what each step does.  Delete, Entomb,   *)
(* Stop, addRelayItem and the timeout goroutine keep every item consistent *)
(* with its timer (ItemInv), and a reader knows the item it works on from  *)
(* one step of its procedure to the next (JobInv).  The readers, the       *)
(* timeout goroutines and handleCallReq keep the order in which calls are  *)
(* opened (OpenInv, StartInv), let either the response or the timeout win  *)
(* the race for an item (AnswerInv) and pass on the duty to call End       *)
(* (EndInv).                                                               *)
(***************************************************************************)
EXTENDS RelayInv, TLAPS

\* A reader between two frames has a well-typed job.
LEMMA IdleJob ==
    /\ Idle \in Jobs /\ Idle.step = "idle" /\ Idle.at = "own" /\ Idle.left = 0
    /\ Idle.type = "callReq" /\ Idle.more = FALSE
BY RelayBounds, Zenon DEF Idle, Jobs, Steps, Opening, Requests

\* Writing one cell of a map of maps, items[s][k] or timer[s][k], leaves the other cells alone.
LEMMA Nested ==
    ASSUME NEW V, NEW f \in [Sides -> [Calls -> V]], NEW s \in Sides, NEW k \in Calls, NEW v \in V
    PROVE  LET g == [f EXCEPT ![s][k] = v] IN
           /\ g \in [Sides -> [Calls -> V]] /\ g[s][k] = v
           /\ \A t \in Sides, l \in Calls : t # s \/ l # k => g[t][l] = f[t][l]
OBVIOUS

ReaderSteps == {"get", "stop", "push", "finish", "finishSettle", "failGet", "failStop", "entomb", "delete",
                "failSettle"}

\* A step of reader s
JobMoves(s) ==
    /\ job[s].step \in ReaderSteps
    /\ \A p \in Sides : p # s => job'[p] = job[p]
    /\ \/ job'[s] = Idle
       \/ /\ job'[s] \in Jobs
          /\ job'[s].step \in ReaderSteps
          /\ job'[s].call = job[s].call /\ job'[s].type = job[s].type /\ job'[s].more = job[s].more
          /\ job'[s].left <= job[s].left
    /\ job' \in [Sides -> Jobs]
    /\ job'[s].at = "recv" => job[s].at = "recv" \/ job[s].left > 0 \/ items[SideOf(s)][job[s].call] # "none"

\* A reader that goes on in the same procedure keeps its job but for the step.
LEMMA GotoMoves ==
    ASSUME job \in [Sides -> Jobs], NEW s \in Sides, job[s].step \in ReaderSteps, NEW l \in ReaderSteps, Goto(s, l)
    PROVE  JobMoves(s) /\ job'[s].step = l /\ job'[s].at = job[s].at
<1>1. job'[s] = [job[s] EXCEPT !.step = l] BY Zenon DEF Goto
<1>2. job[s] \in Jobs OBVIOUS
<1>3. \A p \in Sides : p # s => job'[p] = job[p] BY Zenon DEF Goto
<1>4. job'[s] \in Jobs /\ job'[s].step = l /\ job'[s].at = job[s].at
      /\ job'[s].call = job[s].call /\ job'[s].type = job[s].type /\ job'[s].more = job[s].more
      /\ job'[s].left <= job[s].left
  <2>1. l \in Steps BY DEF ReaderSteps, Steps
  <2>2. job'[s] \in Jobs BY <1>1, <1>2, <2>1, Zenon DEF Jobs
  <2> QED BY <1>1, <1>2, <2>1, <2>2 DEF Jobs
<1>5. job' \in [Sides -> Jobs]
  <2>1. job' = [job EXCEPT ![s] = [job[s] EXCEPT !.step = l]] BY DEF Goto
  <2> QED BY <1>1, <1>4, <2>1
<1> QED BY <1>3, <1>4, <1>5, Zenon DEF JobMoves

\* The same for a reader that enters Receive or comes back from it.
LEMMA GotoAtMoves ==
    ASSUME job \in [Sides -> Jobs], NEW s \in Sides, job[s].step \in ReaderSteps, NEW l \in ReaderSteps,
           NEW a \in {"own", "recv"}, GotoAt(s, a, l), a = "own" \/ items[SideOf(s)][job[s].call] # "none"
    PROVE  JobMoves(s) /\ job'[s].step = l /\ job'[s].at = a
<1>1. job'[s] = [job[s] EXCEPT !.step = l, !.at = a] BY Zenon DEF GotoAt
<1>2. job[s] \in Jobs OBVIOUS
<1>3. \A p \in Sides : p # s => job'[p] = job[p] BY Zenon DEF GotoAt
<1>4. job'[s] \in Jobs /\ job'[s].step = l /\ job'[s].at = a
      /\ job'[s].call = job[s].call /\ job'[s].type = job[s].type /\ job'[s].more = job[s].more
      /\ job'[s].left <= job[s].left
  <2>1. l \in Steps BY DEF ReaderSteps, Steps
  <2>2. job'[s] \in Jobs BY <1>1, <1>2, <2>1, Zenon DEF Jobs
  <2> QED BY <1>1, <1>2, <2>1, <2>2 DEF Jobs
<1>5. job' \in [Sides -> Jobs]
  <2>1. job' = [job EXCEPT ![s] = [job[s] EXCEPT !.step = l, !.at = a]] BY Zenon DEF GotoAt
  <2> QED BY <1>1, <1>4, <2>1, Zenon
<1> QED BY <1>3, <1>4, <1>5 DEF JobMoves

\* The end of a frame leaves the reader idle, or with the next fragment of the call req.
LEMMA DoneMoves ==
    ASSUME job \in [Sides -> Jobs], NEW s \in Sides, job[s].step \in ReaderSteps, job' = Done(s)
    PROVE  /\ JobMoves(s)
           /\ \/ job'[s] = Idle
              \/ job'[s].step = "get" /\ job'[s].at = "recv" /\ job[s].left > 0
<1>1. job[s] \in Jobs OBVIOUS
<1>2. \A p \in Sides : p # s => job'[p] = job[p] BY Zenon DEF Done
<1>3. CASE job[s].left > 0
  <2>1. job'[s] = [job[s] EXCEPT !.step = "get", !.at = "recv", !.left = job[s].left - 1]
    BY <1>3, Zenon DEF Done
  <2>2. /\ job'[s] \in Jobs /\ job'[s].step = "get" /\ job'[s].at = "recv"
        /\ job'[s].call = job[s].call /\ job'[s].type = job[s].type /\ job'[s].more = job[s].more
        /\ job'[s].left <= job[s].left
    <3>1. "get" \in Steps BY Zenon DEF Steps
    <3>2. job[s].left \in Nat /\ job[s].left - 1 \in Nat BY <1>1, <1>3 DEF Jobs
    <3>3. job'[s] \in Jobs BY <1>1, <2>1, <3>1, <3>2, Zenon DEF Jobs
    <3> QED BY <1>1, <2>1, <3>1, <3>2, <3>3 DEF Jobs
  <2>3. job' \in [Sides -> Jobs]
    <3>1. job' = [job EXCEPT ![s] = job'[s]] BY Zenon DEF Done
    <3> QED BY <2>2, <3>1
  <2> QED BY <1>2, <1>3, <2>2, <2>3, Zenon DEF JobMoves, ReaderSteps
<1>4. CASE ~(job[s].left > 0)
  <2>1. job'[s] = Idle BY <1>4, Zenon DEF Done
  <2>2. job' \in [Sides -> Jobs] BY <1>4, IdleJob, Zenon DEF Done
  <2>3. job'[s].at = "own" BY <2>1, IdleJob, Zenon
  <2> QED BY <1>2, <2>1, <2>2, <2>3, Zenon DEF JobMoves
<1> QED BY <1>3, <1>4, Zenon

\* Where a procedure of reader s goes on
To(s, l, a) == JobMoves(s) /\ job'[s].step = l /\ job'[s].at = a
Ends(s) ==
    /\ JobMoves(s)
    /\ job'[s] = Idle \/ (job'[s].step = "get" /\ job'[s].at = "recv" /\ job[s].left > 0)
Sent(s) == IF finishesCall(job[s]) THEN To(s, "finish", "own") ELSE Ends(s)

-----------------------------------------------------------------------------
ItemTypes ==
    /\ items \in [Sides -> [Calls -> {"none", "live", "tomb"}]]
    /\ timer \in [Sides -> [Calls -> Timers]]
    /\ gc \in [Sides -> SUBSET Calls]
    /\ panicked \in BOOLEAN

\* The step leaves every item but (s, k) alone.
Only(s, k) ==
    \A t \in Sides, l \in Calls : t # s \/ l # k =>
      /\ items'[t][l] = items[t][l] /\ timer'[t][l] = timer[t][l]
      /\ l \in gc'[t] <=> l \in gc[t]

\* relayTimer.Release puts one timer back and panics unless it was inactive.
LEMMA ReleaseItem ==
    ASSUME ItemTypes, NEW s \in Sides, NEW k \in Calls, Release(s, k)
    PROVE  /\ timer' \in [Sides -> [Calls -> Timers]] /\ panicked' \in BOOLEAN
           /\ timer'[s][k] = "released"
           /\ \A t \in Sides, l \in Calls : t # s \/ l # k => timer'[t][l] = timer[t][l]
           /\ panicked' = (panicked \/ timer[s][k] \notin {"new", "ran", "stopped"})
<1>1. "released" \in Timers BY Zenon DEF Timers
<1> QED BY <1>1, Nested DEF Release, ItemTypes

\* relayItems.Delete removes one item, releases its timer and needs the write lock.
LEMMA DeleteItem ==
    ASSUME ItemTypes, NEW s \in Sides, NEW k \in Calls, Delete(s, k)
    PROVE  /\ ItemTypes' /\ Only(s, k) /\ ~ReadLocked(s) /\ items'[s][k] = "none" /\ (k \in gc'[s] <=> k \in gc[s])
           /\ timer'[s][k] = IF items[s][k] = "none" THEN timer[s][k] ELSE "released"
           /\ panicked' = (panicked \/ (items[s][k] # "none" /\ timer[s][k] \notin {"new", "ran", "stopped"}))
<1>1. /\ items' \in [Sides -> [Calls -> {"none", "live", "tomb"}]] /\ items'[s][k] = "none"
      /\ \A t \in Sides, l \in Calls : t # s \/ l # k => items'[t][l] = items[t][l]
  BY Nested DEF Delete, ItemTypes
<1>2. CASE items[s][k] = "none"
  BY <1>1, <1>2, Zenon DEF Delete, ItemTypes, Only, timerVars
<1>3. CASE items[s][k] # "none"
  <2>1. Release(s, k) /\ gc' = gc /\ ~ReadLocked(s) BY <1>3, Zenon DEF Delete
  <2> QED BY <1>1, <1>3, <2>1, ReleaseItem DEF ItemTypes, Only
<1> QED BY <1>2, <1>3, Zenon

\* relayItems.Entomb turns one item into a tombstone whose deletion is scheduled.
LEMMA EntombItem ==
    ASSUME ItemTypes, NEW s \in Sides, NEW k \in Calls, Entomb(s, k)
    PROVE  /\ ItemTypes' /\ Only(s, k) /\ ~ReadLocked(s) /\ items'[s][k] = "tomb" /\ k \in gc'[s]
           /\ timer' = timer /\ panicked' = panicked
<1>1. /\ items' \in [Sides -> [Calls -> {"none", "live", "tomb"}]] /\ items'[s][k] = "tomb"
      /\ \A t \in Sides, l \in Calls : t # s \/ l # k => items'[t][l] = items[t][l]
  BY Nested DEF Entomb, ItemTypes
<1>2. /\ gc' \in [Sides -> SUBSET Calls] /\ k \in gc'[s]
      /\ \A t \in Sides, l \in Calls : t # s \/ l # k => (l \in gc'[t] <=> l \in gc[t])
  BY Zenon DEF Entomb, ItemTypes
<1>3. timer' = timer /\ panicked' = panicked /\ ~ReadLocked(s) BY Zenon DEF Entomb, timerVars
<1> QED BY <1>1, <1>2, <1>3, Zenon DEF ItemTypes, Only

\* relayTimer.Stop reports true exactly when it stopped an active timer.
LEMMA StopItem ==
    ASSUME ItemTypes, NEW s \in Sides, NEW k \in Calls, NEW got \in BOOLEAN, Stop(s, k, got), UNCHANGED <<items, gc>>
    PROVE  /\ ItemTypes' /\ Only(s, k) /\ got = (timer[s][k] = "active")
           /\ timer'[s][k] = IF timer[s][k] = "active" THEN "stopped" ELSE timer[s][k]
           /\ panicked' = (panicked \/ timer[s][k] \in {"new", "released"})
<1>1. (IF got THEN "stopped" ELSE timer[s][k]) \in Timers BY Zenon DEF Timers, ItemTypes
<1>2. timer' = [timer EXCEPT ![s][k] = IF got THEN "stopped" ELSE timer[s][k]]
  BY Zenon DEF Stop, ItemTypes
<1>3. /\ timer' \in [Sides -> [Calls -> Timers]]
      /\ timer'[s][k] = IF got THEN "stopped" ELSE timer[s][k]
      /\ \A t \in Sides, l \in Calls : t # s \/ l # k => timer'[t][l] = timer[t][l]
  BY <1>1, <1>2, Nested DEF ItemTypes
<1>4. /\ got = (timer[s][k] = "active")
      /\ panicked' = (panicked \/ timer[s][k] \in {"new", "released"})
  BY Zenon DEF Stop
<1>5. panicked' \in BOOLEAN BY <1>4, Zenon DEF ItemTypes
<1>6. Only(s, k) BY <1>3, Zenon DEF Only
<1> QED BY <1>3, <1>4, <1>5, <1>6, Zenon DEF ItemTypes

\* A step that only writes a timer: addRelayItem's Start, Expire, OnTimer
LEMMA TimerItem ==
    ASSUME ItemTypes, NEW s \in Sides, NEW k \in Calls, NEW v \in Timers,
           timer' = [timer EXCEPT ![s][k] = v], UNCHANGED <<items, gc>>
    PROVE  /\ timer' \in [Sides -> [Calls -> Timers]] /\ Only(s, k) /\ timer'[s][k] = v
<1>1. /\ timer' \in [Sides -> [Calls -> Timers]] /\ timer'[s][k] = v
      /\ \A t \in Sides, l \in Calls : t # s \/ l # k => timer'[t][l] = timer[t][l]
  BY Nested DEF ItemTypes
<1> QED BY <1>1, Zenon DEF Only

-----------------------------------------------------------------------------
\* What the steps of a reader do to its job

\* After Receive reported the frame as sent, the last frame of a call is followed by finishRelayItem.
LEMMA ReceiveSentMoves ==
    ASSUME job \in [Sides -> Jobs], NEW s \in Sides, job[s].step \in ReaderSteps, ReceiveSent(s)
    PROVE  Sent(s)
<1>1. "finish" \in ReaderSteps BY Zenon DEF ReaderSteps
<1> QED BY <1>1, GotoAtMoves, DoneMoves, Zenon DEF ReceiveSent, Sent, To, Ends

\* After Receive did not send the frame, the sender fails its own item.
LEMMA ReceiveNotSentMoves ==
    ASSUME job \in [Sides -> Jobs], NEW s \in Sides, job[s].step \in ReaderSteps, ReceiveNotSent(s)
    PROVE  To(s, "failGet", "own")
<1>1. "failGet" \in ReaderSteps BY Zenon DEF ReaderSteps
<1> QED BY <1>1, GotoAtMoves, Zenon DEF ReceiveNotSent, To

\* failRelayItem returns to the Receive it was called from, or ends the frame.
LEMMA AfterFailMoves ==
    ASSUME job \in [Sides -> Jobs], NEW s \in Sides, job[s].step \in ReaderSteps, AfterFail(s)
    PROVE  IF job[s].at = "recv" THEN To(s, "failGet", "own") ELSE Ends(s)
BY ReceiveNotSentMoves, DoneMoves, Zenon DEF AfterFail, Ends

\* finishRelayItem returns to the Receive it was called from, or ends the frame.
LEMMA AfterFinishMoves ==
    ASSUME job \in [Sides -> Jobs], NEW s \in Sides, job[s].step \in ReaderSteps, AfterFinish(s)
    PROVE  IF job[s].at = "recv" THEN Sent(s) ELSE Ends(s)
BY ReceiveSentMoves, DoneMoves, Zenon DEF AfterFinish, Ends

\* With an item found, the frame is passed on unless it is a tombstone or its timer was not stopped.
LEMMA FoundMoves ==
    ASSUME job \in [Sides -> Jobs], NEW s \in Sides, job[s].step \in ReaderSteps,
           NEW tomb \in BOOLEAN, NEW stopped \in BOOLEAN, Found(s, tomb, stopped),
           items[SideOf(s)][job[s].call] # "none"
    PROVE  IF tomb \/ (finishesCall(job[s]) /\ ~stopped)
           THEN IF job[s].at = "own" THEN Ends(s) ELSE Sent(s)
           ELSE IF job[s].at = "own" THEN To(s, "get", "recv") ELSE To(s, "push", job[s].at)
<1>1. "get" \in ReaderSteps /\ "push" \in ReaderSteps BY Zenon DEF ReaderSteps
<1> QED BY <1>1, ReceiveSentMoves, DoneMoves, GotoAtMoves, GotoMoves, Zenon DEF Found, Ends, To

-----------------------------------------------------------------------------
Kept == UNCHANGED <<itemVars, fire>>

\* What a step of reader s does to the item it works on
Touches(s) ==
    LET i == SideOf(s)  k == job[s].call IN
    /\ fire' = fire
    /\ \/ Kept
       \/ job[s].step \in {"finish", "delete"} /\ Delete(i, k)
       \/ job[s].step = "entomb" /\ items[i][k] = "live" /\ Entomb(i, k)
       \/ job[s].step \in {"stop", "failStop"} /\ UNCHANGED <<items, gc>> /\ \E got \in BOOLEAN : Stop(i, k, got)

\* Every step of a reader writes at most the item it works on, by Delete, Entomb or Stop.
LEMMA ReaderTouches ==
    ASSUME NEW s \in Sides, ReaderStep(s)
    PROVE  /\ Touches(s) /\ job[s].step \in ReaderSteps
           /\ UNCHANGED envVars
<1>1. ASSUME Get(s) PROVE Kept /\ job[s].step = "get" /\ UNCHANGED envVars BY <1>1, Zenon DEF Get, Kept
<1>2. ASSUME push(s) PROVE Kept /\ job[s].step = "push" /\ UNCHANGED envVars BY <1>2, Zenon DEF push, Kept
<1>3. ASSUME finishSettle(s) PROVE Kept /\ job[s].step = "finishSettle" /\ UNCHANGED envVars
  BY <1>3, Zenon DEF finishSettle, Kept
<1>4. ASSUME failRelayItem(s) PROVE Kept /\ job[s].step = "failGet" /\ UNCHANGED envVars
  BY <1>4, Zenon DEF failRelayItem, Kept
<1>5. ASSUME failSettle(s) PROVE Kept /\ job[s].step = "failSettle" /\ UNCHANGED envVars
  BY <1>5, Zenon DEF failSettle, Kept
<1>6. ASSUME StopTimeout(s)
      PROVE  /\ job[s].step = "stop" /\ UNCHANGED <<items, gc, fire, envVars>>
             /\ \E got \in BOOLEAN : Stop(SideOf(s), job[s].call, got)
  BY <1>6, Zenon DEF StopTimeout
<1>7. ASSUME failStop(s)
      PROVE  /\ job[s].step = "failStop" /\ UNCHANGED <<items, gc, fire, envVars>>
             /\ \E got \in BOOLEAN : Stop(SideOf(s), job[s].call, got)
  BY <1>7, Zenon DEF failStop
<1>8. ASSUME finishRelayItem(s)
      PROVE  job[s].step = "finish" /\ Delete(SideOf(s), job[s].call) /\ UNCHANGED <<fire, envVars>>
  BY <1>8, Zenon DEF finishRelayItem
<1>9. ASSUME failDelete(s)
      PROVE  job[s].step = "delete" /\ Delete(SideOf(s), job[s].call) /\ UNCHANGED <<fire, envVars>>
  BY <1>9, Zenon DEF failDelete
<1>10. ASSUME NEW others, failEntomb(s, others)
       PROVE  /\ job[s].step = "entomb" /\ UNCHANGED <<fire, envVars>>
              /\ Kept \/ (items[SideOf(s)][job[s].call] = "live" /\ Entomb(SideOf(s), job[s].call))
  BY <1>10, Zenon DEF failEntomb, Kept
<1>11. Kept => fire' = fire BY Zenon DEF Kept
<1> USE DEF Touches, ReaderSteps
<1>12. CASE Get(s) \/ push(s) \/ finishSettle(s) \/ failRelayItem(s) \/ failSettle(s)
  BY <1>1, <1>2, <1>3, <1>4, <1>5, <1>11, <1>12, Zenon
<1>13. CASE StopTimeout(s) \/ failStop(s)
  BY <1>6, <1>7, <1>13, Zenon
<1>14. CASE finishRelayItem(s) \/ failDelete(s)
  BY <1>8, <1>9, <1>14, Zenon
<1>15. CASE \E others \in 0..MaxTombs + 1 : failEntomb(s, others)
  BY <1>10, <1>15, Zenon
<1> QED BY <1>12, <1>13, <1>14, <1>15, Zenon DEF ReaderStep

\* Timers only go forward, an item is not taken out under a reader's lock, and the first two
\* states of a timer are left in addRelayItem only.
Forward ==
    \A t \in Sides, l \in Calls :
      /\ timer[t][l] \in Over => timer'[t][l] \in Over
      /\ timer[t][l] \in {"ran", "released"} => timer'[t][l] \in {"ran", "released"}
      /\ timer[t][l] \notin {"none", "new"} => timer'[t][l] \notin {"none", "new"}
      /\ items[t][l] # "none" /\ ReadLocked(t) => items'[t][l] # "none"
Late == \A t \in Sides, l \in Calls : timer'[t][l] = timer[t][l] \/ timer[t][l] \notin {"none", "new"}
AllItems == \A t \in Sides, l \in Calls : ItemInv(t, l)

\* A reader works on the items of its own relayer, or inside Receive on those of the other.
LEMMA SideFacts ==
    ASSUME NEW s \in Sides
    PROVE  SideOf(s) \in Sides /\ Other(s) \in Sides /\ Other(s) # s /\ (job[s].at = "own" => SideOf(s) = s)
           /\ (job[s].at # "own" => SideOf(s) = Other(s))
BY Zenon DEF SideOf, Other, Sides

\* A step of a reader keeps every item consistent with its timer, and none of the panics happens.
LEMMA ReaderItems ==
    ASSUME RelayTypeOK, AllItems, TimerSafe, StartInv, \A t \in Sides, l \in Calls : OpenInv(t, l),
           NEW s \in Sides, JobInv(s), ReaderStep(s), NEW i, i = SideOf(s), NEW k, k = job[s].call
    PROVE  ItemTypes' /\ Forward /\ Late /\ AllItems' /\ TimerSafe'
<1>1. ItemTypes /\ i \in Sides /\ k \in Calls /\ Touches(s) /\ job[s].step \in ReaderSteps
  <2>1. ItemTypes BY Zenon DEF RelayTypeOK, ItemTypes
  <2>2. job \in [Sides -> Jobs] BY Zenon DEF RelayTypeOK
  <2>3. k \in Calls BY <2>2, Zenon DEF Jobs
  <2> QED BY <2>1, <2>3, ReaderTouches, SideFacts, Zenon
<1>2. fire' = fire BY <1>1, Zenon DEF Touches
<1>3. ASSUME Kept PROVE ItemTypes' /\ Forward /\ Late /\ AllItems' /\ TimerSafe'
  <2>1. items' = items /\ timer' = timer /\ gc' = gc /\ panicked' = panicked
    BY <1>3 DEF Kept, itemVars, timerVars
  <2> QED BY <1>1, <1>2, <2>1, Zenon DEF ItemTypes, Forward, Late, AllItems, ItemInv, TimerSafe
<1>4. ASSUME job[s].step \in {"finish", "delete"}, Delete(i, k)
      PROVE ItemTypes' /\ Forward /\ Late /\ AllItems' /\ TimerSafe'
  <2>1. timer[i][k] \in Over BY <1>4, Zenon DEF JobInv
  <2>2. /\ ItemTypes' /\ Only(i, k) /\ ~ReadLocked(i) /\ items'[i][k] = "none" /\ (k \in gc'[i] <=> k \in gc[i])
        /\ timer'[i][k] = IF items[i][k] = "none" THEN timer[i][k] ELSE "released"
        /\ panicked' = (panicked \/ (items[i][k] # "none" /\ timer[i][k] \notin {"new", "ran", "stopped"}))
    BY <1>1, <1>4, DeleteItem
  <2>3. ItemInv(i, k) BY <1>1, Zenon DEF AllItems
  <2>4. Forward BY <2>1, <2>2 DEF Forward, Only, Over
  <2>5. Late BY <2>1, <2>2, Zenon DEF Late, Only, Over
  <2>6. ~panicked'
    <3>1. items[i][k] # "none" => timer[i][k] \in {"new", "ran", "stopped"}
      BY <1>1, <2>1, <2>3, Zenon DEF ItemInv, ItemTypes, Over
    <3> QED BY <2>2, <3>1, Zenon DEF TimerSafe
  <2>7. ItemInv(i, k)' BY <1>2, <2>1, <2>2, <2>3, Zenon DEF ItemInv, Over
  <2>8. ASSUME NEW t \in Sides, NEW l \in Calls PROVE ItemInv(t, l)'
    BY <1>2, <2>2, <2>7 DEF ItemInv, Only, AllItems
  <2> QED BY <2>2, <2>4, <2>5, <2>6, <2>8, Zenon DEF AllItems, TimerSafe
<1>5. ASSUME items[i][k] = "live", job[s].step = "entomb", Entomb(i, k)
      PROVE ItemTypes' /\ Forward /\ Late /\ AllItems' /\ TimerSafe'
  <2>1. timer[i][k] \in Over BY <1>5, Zenon DEF JobInv
  <2>2. /\ ItemTypes' /\ Only(i, k) /\ ~ReadLocked(i) /\ items'[i][k] = "tomb" /\ k \in gc'[i]
        /\ timer' = timer /\ panicked' = panicked
    BY <1>1, <1>5, EntombItem, Zenon
  <2>3. ItemInv(i, k) BY <1>1 DEF AllItems
  <2>4. Forward BY <2>2, Zenon DEF Forward, Only
  <2>5. Late BY <2>2, Zenon DEF Late
  <2>7. ItemInv(i, k)' BY <1>2, <1>5, <2>1, <2>2, <2>3, Zenon DEF ItemInv, Over
  <2>8. ASSUME NEW t \in Sides, NEW l \in Calls PROVE ItemInv(t, l)'
    BY <1>2, <2>2, <2>7 DEF ItemInv, Only, AllItems
  <2> QED BY <2>2, <2>4, <2>5, <2>8, Zenon DEF AllItems, TimerSafe
<1>6. ASSUME job[s].step \in {"stop", "failStop"}, UNCHANGED <<items, gc>>, NEW got \in BOOLEAN, Stop(i, k, got)
      PROVE ItemTypes' /\ Forward /\ Late /\ AllItems' /\ TimerSafe'
  <2>1. ItemInv(i, k) /\ OpenInv(i, k) BY <1>1, Zenon DEF AllItems
  <2>2. timer[i][k] \notin {"none", "released", "new"}
    <3>1. items[i][k] # "none" BY <1>6, Zenon DEF JobInv
    <3>2. timer[i][k] \notin {"none", "released"} BY <3>1, <2>1, <1>1, Zenon DEF ItemInv, ItemTypes
    <3>3. CASE s = "src"
      BY <3>2, <3>3, <2>1, <1>6, Zenon DEF OpenInv, StartStep
    <3>4. CASE s = "dst"
      <4>1. Started(k) BY <1>6, <3>4, Zenon DEF StartInv, JobsStarted
      <4> QED BY <4>1, <3>2, <1>1, Zenon DEF StartInv, StartOrder, Started, Sides
    <3> QED BY <3>3, <3>4, Zenon DEF Sides
  <2>3. /\ ItemTypes' /\ Only(i, k)
        /\ timer'[i][k] = IF timer[i][k] = "active" THEN "stopped" ELSE timer[i][k]
        /\ panicked' = (panicked \/ timer[i][k] \in {"new", "released"})
    BY <1>1, <1>6, StopItem
  <2>4. Forward BY <1>6, <2>3 DEF Forward, Only, Over
  <2>5. Late BY <2>2, <2>3, Zenon DEF Late, Only
  <2>6. ~panicked'
    <3>1. timer[i][k] \notin {"new", "released"} BY <2>2, Zenon
    <3> QED BY <2>3, <3>1, Zenon DEF TimerSafe
  <2>7. ItemInv(i, k)' BY <1>2, <1>6, <2>1, <2>2, <2>3, Zenon DEF ItemInv
  <2>8. ASSUME NEW t \in Sides, NEW l \in Calls PROVE ItemInv(t, l)'
    BY <1>2, <2>3, <2>7 DEF ItemInv, Only, AllItems
  <2> QED BY <2>3, <2>4, <2>5, <2>6, <2>8, Zenon DEF AllItems, TimerSafe
<1> QED BY <1>1, <1>3, <1>4, <1>5, <1>6, Zenon DEF Touches

-----------------------------------------------------------------------------
\* The steps of timers and of their goroutines

Fires == {"off", "entomb", "delete", "settle"}
FireType == fire \in [Sides -> [Calls -> Fires]]

\* A step of the timer of (s, k) writes no other cell of fire.
FireOnly(s, k, v) ==
    /\ fire' \in [Sides -> [Calls -> Fires]] /\ fire'[s][k] = v
    /\ \A t \in Sides, l \in Calls : t # s \/ l # k => fire'[t][l] = fire[t][l]

\* A timeout goroutine writes its own place only.
LEMMA FireCell ==
    ASSUME FireType, NEW s \in Sides, NEW k \in Calls, NEW v \in Fires, fire' = [fire EXCEPT ![s][k] = v]
    PROVE  FireOnly(s, k, v)
BY Nested DEF FireType, FireOnly

\* What one of these steps does to the item of (s, k)
TimerTouches(s, k) ==
    \/ /\ timer[s][k] = "active" /\ UNCHANGED <<items, gc, panicked, fire>>
       /\ timer' = [timer EXCEPT ![s][k] = "firing"]
    \/ /\ timer[s][k] = "firing" /\ UNCHANGED <<items, gc, panicked>>
       /\ timer' = [timer EXCEPT ![s][k] = "ran"] /\ FireOnly(s, k, "entomb")
    \/ fire[s][k] # "off" /\ UNCHANGED itemVars /\ \E v \in Fires : FireOnly(s, k, v)
    \/ fire[s][k] # "off" /\ items[s][k] = "live" /\ Entomb(s, k) /\ FireOnly(s, k, "settle")
    \/ fire[s][k] # "off" /\ Delete(s, k) /\ \E v \in Fires : FireOnly(s, k, v)
    \/ /\ k \in gc[s] /\ ~ReadLocked(s) /\ fire' = fire
       /\ gc' = [gc EXCEPT ![s] = @ \ {k}] /\ items' = [items EXCEPT ![s][k] = "none"]
       /\ IF items[s][k] = "none" THEN UNCHANGED timerVars ELSE Release(s, k)

\* A timer and its goroutine write the item they belong to, and neither reader.
LEMMA TimerStepTouches ==
    ASSUME FireType, NEW s \in Sides, NEW k \in Calls, TimerStep(s, k)
    PROVE  TimerTouches(s, k) /\ UNCHANGED <<job, envVars>>
<1>1. ASSUME Expire(s, k) PROVE TimerTouches(s, k) /\ UNCHANGED <<job, envVars>>
  BY <1>1, Zenon DEF Expire, TimerTouches
<1>2. ASSUME OnTimer(s, k) PROVE TimerTouches(s, k) /\ UNCHANGED <<job, envVars>>
  <2>1. FireOnly(s, k, "entomb") BY <1>2, FireCell, Zenon DEF OnTimer, Fires
  <2> QED BY <1>2, <2>1, Zenon DEF OnTimer, TimerTouches
<1>3. ASSUME timeoutSettle(s, k) PROVE TimerTouches(s, k) /\ UNCHANGED <<job, envVars>>
  <2>1. fire[s][k] = "settle" /\ fire' = [fire EXCEPT ![s][k] = "off"] /\ UNCHANGED <<itemVars, job, envVars>>
    BY <1>3, Zenon DEF timeoutSettle
  <2>2. "off" \in Fires /\ FireOnly(s, k, "off") BY <2>1, FireCell, Zenon DEF Fires
  <2>3. fire[s][k] # "off" BY <2>1, Zenon
  <2> QED BY <2>1, <2>2, <2>3, Zenon DEF TimerTouches
<1>4. ASSUME NEW others, timeoutRelayItem(s, k, others) PROVE TimerTouches(s, k) /\ UNCHANGED <<job, envVars>>
  <2>1. UNCHANGED <<job, envVars>> BY <1>4, Zenon DEF timeoutRelayItem
  <2>2. \A v \in Fires : fire' = [fire EXCEPT ![s][k] = v] => FireOnly(s, k, v) BY FireCell, Zenon
  <2>3. "off" \in Fires /\ "delete" \in Fires /\ "settle" \in Fires /\ "entomb" # "off" /\ "delete" # "off"
    BY Zenon DEF Fires
  <2>4. (IF items[s][k] = "live" THEN "settle" ELSE "off") \in Fires BY <2>3, Zenon
  <2>5. CASE fire[s][k] = "entomb" /\ UNCHANGED itemVars /\ fire' = [fire EXCEPT ![s][k] = "delete"]
    BY <2>1, <2>2, <2>3, <2>5, Zenon DEF TimerTouches
  <2>6. CASE /\ fire[s][k] = "entomb" /\ items[s][k] = "live" /\ Entomb(s, k)
             /\ fire' = [fire EXCEPT ![s][k] = "settle"]
    BY <2>1, <2>2, <2>3, <2>6, Zenon DEF TimerTouches
  <2>7. CASE fire[s][k] = "entomb" /\ UNCHANGED itemVars /\ fire' = [fire EXCEPT ![s][k] = "off"]
    BY <2>1, <2>2, <2>3, <2>7, Zenon DEF TimerTouches
  <2>8. CASE /\ fire[s][k] = "delete" /\ Delete(s, k)
             /\ fire' = [fire EXCEPT ![s][k] = IF items[s][k] = "live" THEN "settle" ELSE "off"]
    BY <2>1, <2>2, <2>3, <2>4, <2>8, Zenon DEF TimerTouches
  <2> QED BY <1>4, <2>5, <2>6, <2>7, <2>8, Zenon DEF timeoutRelayItem
<1>5. ASSUME DeleteTomb(s, k) PROVE TimerTouches(s, k) /\ UNCHANGED <<job, envVars>>
  BY <1>5, Zenon DEF DeleteTomb, TimerTouches
<1> QED BY <1>1, <1>2, <1>3, <1>4, <1>5, Zenon DEF TimerStep

\* A step of a timer or of its goroutine keeps every item consistent with its timer, without a panic.
LEMMA TimerItems ==
    ASSUME ItemTypes, FireType, AllItems, TimerSafe, NEW s \in Sides, NEW k \in Calls, TimerTouches(s, k)
    PROVE  ItemTypes' /\ FireType' /\ Forward /\ Late /\ AllItems' /\ TimerSafe'
<1>1. ItemInv(s, k) BY Zenon DEF AllItems
<1>2. \A v : FireOnly(s, k, v) => FireType' BY Zenon DEF FireOnly, FireType
<1>3. CASE /\ timer[s][k] = "active" /\ UNCHANGED <<items, gc, panicked, fire>>
           /\ timer' = [timer EXCEPT ![s][k] = "firing"]
  <2>1. "firing" \in Timers BY Zenon DEF Timers
  <2>2. timer' \in [Sides -> [Calls -> Timers]] /\ Only(s, k) /\ timer'[s][k] = "firing"
    BY <1>3, <2>1, TimerItem, Zenon
  <2>3. Forward BY <1>3, <2>2 DEF Forward, Only, Over
  <2>4. Late BY <1>3, <2>2, Zenon DEF Late, Only
  <2>5. ItemInv(s, k)' BY <1>1, <1>3, <2>2, Zenon DEF ItemInv
  <2>6. ASSUME NEW t \in Sides, NEW l \in Calls PROVE ItemInv(t, l)'
    BY <1>3, <2>2, <2>5 DEF ItemInv, Only, AllItems
  <2> QED BY <1>3, <2>2, <2>3, <2>4, <2>6, Zenon DEF AllItems, TimerSafe, ItemTypes, FireType
<1>4. CASE /\ timer[s][k] = "firing" /\ UNCHANGED <<items, gc, panicked>>
           /\ timer' = [timer EXCEPT ![s][k] = "ran"] /\ FireOnly(s, k, "entomb")
  <2>1. "ran" \in Timers BY Zenon DEF Timers
  <2>2. timer' \in [Sides -> [Calls -> Timers]] /\ Only(s, k) /\ timer'[s][k] = "ran"
    BY <1>4, <2>1, TimerItem, Zenon
  <2>3. Forward BY <1>4, <2>2 DEF Forward, Only, Over
  <2>4. Late BY <1>4, <2>2, Zenon DEF Late, Only
  <2>5. ItemInv(s, k)' BY <1>1, <1>4, <2>2, Zenon DEF ItemInv, FireOnly
  <2>6. ASSUME NEW t \in Sides, NEW l \in Calls PROVE ItemInv(t, l)'
    BY <1>4, <2>2, <2>5 DEF ItemInv, Only, AllItems, FireOnly
  <2> QED BY <1>2, <1>4, <2>2, <2>3, <2>4, <2>6, Zenon DEF AllItems, TimerSafe, ItemTypes
<1>5. ASSUME fire[s][k] # "off", UNCHANGED itemVars, NEW v \in Fires, FireOnly(s, k, v)
      PROVE ItemTypes' /\ FireType' /\ Forward /\ Late /\ AllItems' /\ TimerSafe'
  <2>1. items' = items /\ timer' = timer /\ gc' = gc /\ panicked' = panicked
    BY <1>5, Zenon DEF itemVars, timerVars
  <2>2. ASSUME NEW t \in Sides, NEW l \in Calls PROVE ItemInv(t, l)'
    BY <1>1, <1>5, <2>1, Zenon DEF ItemInv, AllItems, FireOnly
  <2> QED BY <1>2, <1>5, <2>1, <2>2, Zenon DEF ItemTypes, Forward, Late, AllItems, TimerSafe
<1>6. CASE fire[s][k] # "off" /\ items[s][k] = "live" /\ Entomb(s, k) /\ FireOnly(s, k, "settle")
  <2>1. timer[s][k] = "ran" BY <1>1, <1>6, Zenon DEF ItemInv
  <2>2. /\ ItemTypes' /\ Only(s, k) /\ ~ReadLocked(s) /\ items'[s][k] = "tomb" /\ k \in gc'[s]
        /\ timer' = timer /\ panicked' = panicked
    BY <1>6, EntombItem, Zenon
  <2>3. Forward BY <2>2, Zenon DEF Forward, Only
  <2>4. Late BY <2>2, Zenon DEF Late
  <2>5. ItemInv(s, k)' BY <2>1, <2>2, Zenon DEF ItemInv
  <2>6. ASSUME NEW t \in Sides, NEW l \in Calls PROVE ItemInv(t, l)'
    BY <1>6, <2>2, <2>5 DEF ItemInv, Only, AllItems, FireOnly
  <2> QED BY <1>2, <1>6, <2>2, <2>3, <2>4, <2>6, Zenon DEF AllItems, TimerSafe
<1>7. ASSUME fire[s][k] # "off", Delete(s, k), NEW v \in Fires, FireOnly(s, k, v)
      PROVE ItemTypes' /\ FireType' /\ Forward /\ Late /\ AllItems' /\ TimerSafe'
  <2>1. timer[s][k] \in {"ran", "released"} BY <1>1, <1>7, Zenon DEF ItemInv
  <2>2. /\ ItemTypes' /\ Only(s, k) /\ ~ReadLocked(s) /\ items'[s][k] = "none" /\ (k \in gc'[s] <=> k \in gc[s])
        /\ timer'[s][k] = IF items[s][k] = "none" THEN timer[s][k] ELSE "released"
        /\ panicked' = (panicked \/ (items[s][k] # "none" /\ timer[s][k] \notin {"new", "ran", "stopped"}))
    BY <1>7, DeleteItem, Zenon
  <2>3. Forward BY <2>1, <2>2 DEF Forward, Only, Over
  <2>4. Late BY <2>1, <2>2, Zenon DEF Late, Only
  <2>5. ItemInv(s, k)' BY <1>1, <2>1, <2>2, Zenon DEF ItemInv
  <2>6. ASSUME NEW t \in Sides, NEW l \in Calls PROVE ItemInv(t, l)'
    BY <1>7, <2>2, <2>5 DEF ItemInv, Only, AllItems, FireOnly
  <2>7. ~panicked'
    <3>1. items[s][k] # "none" => timer[s][k] \in {"new", "ran", "stopped"}
      BY <1>1, <2>1, Zenon DEF ItemInv, ItemTypes
    <3> QED BY <2>2, <3>1, Zenon DEF TimerSafe
  <2> QED BY <1>2, <1>7, <2>2, <2>3, <2>4, <2>6, <2>7, Zenon DEF AllItems, TimerSafe
<1>8. CASE /\ k \in gc[s] /\ ~ReadLocked(s) /\ fire' = fire
           /\ gc' = [gc EXCEPT ![s] = @ \ {k}] /\ items' = [items EXCEPT ![s][k] = "none"]
           /\ IF items[s][k] = "none" THEN UNCHANGED timerVars ELSE Release(s, k)
  <2>1. timer[s][k] \in {"ran", "stopped", "released"} BY <1>1, <1>8, Zenon DEF ItemInv
  <2>2. /\ items' \in [Sides -> [Calls -> {"none", "live", "tomb"}]] /\ items'[s][k] = "none"
        /\ \A t \in Sides, l \in Calls : t # s \/ l # k => items'[t][l] = items[t][l]
    BY <1>8, Nested DEF ItemTypes
  <2>3. /\ gc' \in [Sides -> SUBSET Calls] /\ k \notin gc'[s]
        /\ \A t \in Sides, l \in Calls : t # s \/ l # k => (l \in gc'[t] <=> l \in gc[t])
    BY <1>8, Zenon DEF ItemTypes
  <2>4. /\ timer' \in [Sides -> [Calls -> Timers]] /\ panicked' \in BOOLEAN /\ ~panicked'
        /\ timer'[s][k] = IF items[s][k] = "none" THEN timer[s][k] ELSE "released"
        /\ \A t \in Sides, l \in Calls : t # s \/ l # k => timer'[t][l] = timer[t][l]
    <3>1. CASE items[s][k] = "none" BY <1>8, <3>1, Zenon DEF timerVars, ItemTypes, TimerSafe
    <3>2. CASE items[s][k] # "none"
      <4>1. Release(s, k) BY <1>8, <3>2, Zenon
      <4>2. timer[s][k] \in {"new", "ran", "stopped"} BY <1>1, <2>1, <3>2, Zenon DEF ItemInv, ItemTypes
      <4>3. ~panicked' BY <4>1, <4>2, ReleaseItem, Zenon DEF TimerSafe
      <4> QED BY <3>2, <4>1, <4>3, ReleaseItem
    <3> QED BY <3>1, <3>2, Zenon
  <2>5. Only(s, k) BY <2>2, <2>3, <2>4, Zenon DEF Only
  <2>6. Forward BY <1>8, <2>1, <2>2, <2>4 DEF Forward, Over
  <2>7. Late BY <2>1, <2>4, Zenon DEF Late
  <2>8. ItemInv(s, k)' BY <1>1, <1>8, <2>1, <2>2, <2>3, <2>4, Zenon DEF ItemInv
  <2>9. ASSUME NEW t \in Sides, NEW l \in Calls PROVE ItemInv(t, l)'
    BY <1>8, <2>5, <2>8 DEF ItemInv, Only, AllItems
  <2> QED BY <1>8, <2>2, <2>3, <2>4, <2>6, <2>7, <2>9, Zenon DEF AllItems, TimerSafe, ItemTypes, FireType
<1> QED BY <1>3, <1>4, <1>5, <1>6, <1>7, <1>8, Zenon DEF TimerTouches

-----------------------------------------------------------------------------
\* addRelayItem

\* addRelayItem adds an item that was never there, then starts its new timer once.
LEMMA AddItems ==
    ASSUME ItemTypes, AllItems, TimerSafe, \A t \in Sides, l \in Calls : OpenInv(t, l),
           NEW s \in Sides, NEW k \in Calls, k = job["src"].call, addRelayItem(s)
    PROVE  ItemTypes' /\ Forward /\ AllItems' /\ TimerSafe' /\ Only(s, k)
           /\ \/ /\ timer[s][k] = "none" /\ items[s][k] = "none" /\ fire[s][k] = "off"
                 /\ timer'[s][k] = "new" /\ items'[s][k] = "live"
              \/ timer[s][k] = "new" /\ timer'[s][k] = "active" /\ items' = items
<1>1. ItemInv(s, k) /\ OpenInv(s, k) BY Zenon DEF AllItems
<1>2. fire' = fire /\ gc' = gc BY Zenon DEF addRelayItem
<1>3. CASE /\ job["src"].step = (IF s = "dst" THEN "addRemote" ELSE "addOwn")
           /\ items' = [items EXCEPT ![s][k] = "live"]
           /\ timer' = [timer EXCEPT ![s][k] = "new"]
           /\ UNCHANGED panicked
  <2>1. timer[s][k] = "none" BY <1>1, <1>3, Zenon DEF OpenInv, BeforeItem, Opening
  <2>2. fire[s][k] = "off" /\ k \notin gc[s] BY <1>1, <2>1, Zenon DEF ItemInv
  <2>3. items[s][k] = "none" BY <1>1, <2>1, Zenon DEF ItemInv, ItemTypes
  <2>4. ItemTypes' /\ Only(s, k) /\ items'[s][k] = "live" /\ timer'[s][k] = "new"
    <3>1. /\ items' \in [Sides -> [Calls -> {"none", "live", "tomb"}]] /\ items'[s][k] = "live"
          /\ \A t \in Sides, l \in Calls : t # s \/ l # k => items'[t][l] = items[t][l]
      BY <1>3, Nested DEF ItemTypes
    <3>2. "new" \in Timers BY Zenon DEF Timers
    <3>3. /\ timer' \in [Sides -> [Calls -> Timers]] /\ timer'[s][k] = "new"
          /\ \A t \in Sides, l \in Calls : t # s \/ l # k => timer'[t][l] = timer[t][l]
      BY <1>3, <3>2, Nested DEF ItemTypes
    <3>4. gc' = gc /\ panicked' = panicked BY <1>2, <1>3, Zenon
    <3> QED BY <3>1, <3>3, <3>4 DEF ItemTypes, Only
  <2>5. Forward BY <2>1, <2>3, <2>4 DEF Forward, Only, Over
  <2>6. ItemInv(s, k)' BY <1>2, <2>2, <2>4, Zenon DEF ItemInv
  <2>7. ASSUME NEW t \in Sides, NEW l \in Calls PROVE ItemInv(t, l)'
    BY <1>2, <2>4, <2>6 DEF ItemInv, Only, AllItems
  <2> QED BY <1>3, <2>1, <2>2, <2>3, <2>4, <2>5, <2>7, Zenon DEF AllItems, TimerSafe
<1>4. CASE job["src"].step = (IF s = "dst" THEN "startRemote" ELSE "startOwn") /\ Start(s, k) /\ UNCHANGED items
  <2>1. timer[s][k] = "new" BY <1>1, <1>4, Zenon DEF OpenInv, StartStep
  <2>2. "active" \in Timers BY Zenon DEF Timers
  <2>3. timer' = [timer EXCEPT ![s][k] = "active"] /\ panicked' = panicked
    <3>1. timer' = [timer EXCEPT ![s][k] = "active"] /\ panicked' = (panicked \/ timer[s][k] # "new")
      BY <1>4, Zenon DEF Start
    <3>2. panicked' = panicked BY <2>1, <3>1, Zenon DEF ItemTypes
    <3> QED BY <3>1, <3>2, Zenon
  <2>4. timer' \in [Sides -> [Calls -> Timers]] /\ Only(s, k) /\ timer'[s][k] = "active"
    BY <1>2, <1>4, <2>2, <2>3, TimerItem, ZenonT(40)
  <2>5. Forward BY <1>4, <2>1, <2>4 DEF Forward, Only, Over
  <2>6. ItemInv(s, k)' BY <1>1, <1>2, <1>4, <2>1, <2>4 DEF ItemInv
  <2>7. ASSUME NEW t \in Sides, NEW l \in Calls PROVE ItemInv(t, l)'
    BY <1>2, <1>4, <2>4, <2>6 DEF ItemInv, Only, AllItems
  <2>8. ItemTypes' BY <1>2, <1>4, <2>3, <2>4, Zenon DEF ItemTypes
  <2> QED BY <1>4, <2>1, <2>3, <2>4, <2>5, <2>7, <2>8, Zenon DEF AllItems, TimerSafe
<1> QED BY <1>3, <1>4, Zenon DEF addRelayItem

-----------------------------------------------------------------------------
\* What a reader knows when its procedure goes on

\* What a reader must know on entering a step, it knows if the step before has established it.
LEMMA JobLands ==
    ASSUME job \in [Sides -> Jobs], NEW s \in Sides, JobInv(s), NEW l \in ReaderSteps, NEW a \in {"own", "recv"},
           To(s, l, a), NEW i, i = (IF a = "own" THEN s ELSE Other(s)), NEW k, k = job[s].call,
           l \in {"stop", "failStop"} => items'[i][k] # "none",
           l \in {"entomb", "delete", "failSettle", "finish", "finishSettle"} => timer'[i][k] \in Over,
           l = "push" => a = "recv" /\ (finishesCall(job[s]) => timer'[i][k] \in Over),
           finishesCall(job[s]) /\ a = "recv" => timer'[s][k] \in Over
    PROVE  JobInv(s)'
<1>1. job'[s] # Idle BY IdleJob, Zenon DEF To, ReaderSteps
<1>2. /\ job'[s].step = l /\ job'[s].at = a /\ job'[s].call = k /\ job'[s].type = job[s].type
      /\ job'[s].more = job[s].more /\ job'[s].left <= job[s].left /\ job'[s].left \in Nat
  BY <1>1, Zenon DEF To, JobMoves, Jobs
<1>3. SideOf(s)' = i BY <1>2, Zenon DEF SideOf
<1>4. finishesCall(job[s])' = finishesCall(job[s]) BY <1>2, Zenon DEF finishesCall
<1>5. l \notin Opening \cup {"undoDuplicate", "startOwn", "modify"} BY Zenon DEF ReaderSteps, Opening
<1>6. s = "dst" => job'[s].left = 0 BY <1>2 DEF JobInv
<1>7. s = "src" => job'[s].type \in Requests BY <1>2, Zenon DEF JobInv
<1> QED BY <1>2, <1>3, <1>4, <1>5, <1>6, <1>7, Zenon DEF JobInv

\* A reader that is done with its frame knows what the next fragment needs.
LEMMA EndsLands ==
    ASSUME job \in [Sides -> Jobs], NEW s \in Sides, JobInv(s), job[s].step \in ReaderSteps, Ends(s)
    PROVE  JobInv(s)'
<1>1. CASE job'[s] = Idle
  BY <1>1, IdleJob, Zenon DEF JobInv, Opening, Requests
<1>2. CASE job'[s] # Idle
  <2>1. To(s, "get", "recv") /\ job[s].left > 0 BY <1>2, Zenon DEF Ends, To
  <2>2. ~finishesCall(job[s])
    <3>1. s = "src" BY <2>1 DEF JobInv, Sides
    <3> QED BY <3>1, Zenon DEF JobInv, Requests, finishesCall
  <2>3. "get" \in ReaderSteps BY Zenon DEF ReaderSteps
  <2> QED BY <2>1, <2>2, <2>3, JobLands, Zenon
<1> QED BY <1>1, <1>2, Zenon

\* A reader that comes back from Receive with the last frame has stopped its own timer.
LEMMA SentLands ==
    ASSUME job \in [Sides -> Jobs], NEW s \in Sides, JobInv(s), job[s].step \in ReaderSteps, Sent(s), Forward,
           job[s].at = "recv"
    PROVE  JobInv(s)'
<1>1. CASE ~finishesCall(job[s]) BY <1>1, EndsLands, Zenon DEF Sent
<1>2. CASE finishesCall(job[s])
  <2>1. To(s, "finish", "own") BY <1>2, Zenon DEF Sent
  <2>2. timer[s][job[s].call] \in Over BY <1>2, Zenon DEF JobInv
  <2>3. job[s].call \in Calls BY Zenon DEF Jobs
  <2>4. timer'[s][job[s].call] \in Over BY <2>2, <2>3, Zenon DEF Forward
  <2>5. "finish" \in ReaderSteps BY Zenon DEF ReaderSteps
  <2> QED BY <2>1, <2>4, <2>5, JobLands, Zenon
<1> QED BY <1>1, <1>2, Zenon

\* Get: an item that is there is worked on; when the frame is the last one, with its timer stopped.
LEMMA GetLands ==
    ASSUME job \in [Sides -> Jobs], NEW s \in Sides, JobInv(s), Forward, Get(s)
    PROVE  /\ JobMoves(s) /\ JobInv(s)'
           /\ job'[s] = Idle \/ job'[s].step \in {"get", "stop", "push", "failGet", "finish"}
<1> DEFINE i == SideOf(s)  k == job[s].call
<1>1. job[s].step = "get" /\ job[s].step \in ReaderSteps BY Zenon DEF Get, ReaderSteps
<1>2. i \in Sides /\ k \in Calls /\ job[s].at \in {"own", "recv"} BY SideFacts, Zenon DEF Jobs
<1>3. items' = items /\ timer' = timer BY Zenon DEF Get, itemVars, timerVars
<1>4. i = IF job[s].at = "own" THEN s ELSE Other(s) BY Zenon DEF SideOf
<1>5. ASSUME Ends(s) PROVE JobMoves(s) /\ JobInv(s)' /\ (job'[s] = Idle \/ job'[s].step = "get")
  BY <1>1, <1>5, EndsLands, Zenon DEF Ends
<1>6. CASE items[i][k] = "none" /\ job[s].at = "own"
  <2>1. job' = Done(s) BY <1>6, Zenon DEF Get
  <2>2. Ends(s) BY <1>1, <2>1, DoneMoves, Zenon DEF Ends
  <2> QED BY <1>5, <2>2, Zenon
<1>7. CASE items[i][k] = "none" /\ job[s].at # "own"
  <2>1. ReceiveNotSent(s) BY <1>7, Zenon DEF Get
  <2>2. To(s, "failGet", "own") BY <1>1, <2>1, ReceiveNotSentMoves, Zenon
  <2>3. "failGet" \in ReaderSteps BY Zenon DEF ReaderSteps
  <2>4. JobInv(s)' BY <2>2, <2>3, JobLands, Zenon
  <2> QED BY <2>2, <2>4, Zenon DEF To
<1>8. CASE items[i][k] # "none" /\ finishesCall(job[s]) /\ timer[i][k] # "stopped"
  <2>1. Goto(s, "stop") BY <1>8, Zenon DEF Get
  <2>2. "stop" \in ReaderSteps BY Zenon DEF ReaderSteps
  <2>3. To(s, "stop", job[s].at) BY <1>1, <2>1, <2>2, GotoMoves, Zenon DEF To
  <2>4. finishesCall(job[s]) /\ job[s].at = "recv" => timer'[s][k] \in Over BY <1>3, Zenon DEF JobInv
  <2>5. items'[i][k] # "none" BY <1>3, <1>8, Zenon
  <2>6. JobInv(s)' BY <1>2, <1>4, <2>2, <2>3, <2>4, <2>5, JobLands
  <2> QED BY <2>3, <2>6, Zenon DEF To
<1>9. CASE items[i][k] # "none" /\ ~(finishesCall(job[s]) /\ timer[i][k] # "stopped")
  <2>1. Found(s, items[i][k] = "tomb", TRUE) BY <1>9, Zenon DEF Get
  <2>2. \/ Ends(s)
        \/ job[s].at # "own" /\ Sent(s)
        \/ job[s].at = "own" /\ To(s, "get", "recv")
        \/ job[s].at # "own" /\ To(s, "push", job[s].at)
    BY <1>1, <1>9, <2>1, FoundMoves, Zenon
  <2>3. finishesCall(job[s]) => timer'[i][k] \in Over BY <1>3, <1>9, Zenon DEF Over
  <2>4. CASE job[s].at # "own" /\ Sent(s)
    <3>1. job[s].at = "recv" BY <1>2, <2>4, Zenon
    <3>2. JobInv(s)' BY <1>1, <2>4, <3>1, SentLands, Zenon
    <3>3. "finish" # "idle" /\ JobMoves(s) BY <2>4, Zenon DEF Sent, To, Ends
    <3> QED BY <2>4, <3>2, <3>3, Zenon DEF Sent, To, Ends
  <2>5. CASE job[s].at = "own" /\ To(s, "get", "recv")
    <3>1. "get" \in ReaderSteps BY Zenon DEF ReaderSteps
    <3>2. i = s BY <1>4, <2>5, Zenon
    <3>3. finishesCall(job[s]) => timer'[s][k] \in Over BY <2>3, <3>2, Zenon
    <3>4. JobInv(s)' BY <2>5, <3>1, <3>3, JobLands, Zenon
    <3> QED BY <2>5, <3>4, Zenon DEF To
  <2>6. CASE job[s].at # "own" /\ To(s, "push", job[s].at)
    <3>1. "push" \in ReaderSteps BY Zenon DEF ReaderSteps
    <3>2. job[s].at = "recv" /\ i = Other(s) BY <1>2, <1>4, <2>6
    <3>3. finishesCall(job[s]) => timer'[s][k] \in Over BY <1>3, <3>2, Zenon DEF JobInv
    <3>4. JobInv(s)' BY <2>3, <2>6, <3>1, <3>2, <3>3, JobLands
    <3> QED BY <2>6, <3>4, Zenon DEF To
  <2> QED BY <1>5, <2>2, <2>4, <2>5, <2>6, Zenon
<1> QED BY <1>6, <1>7, <1>8, <1>9, Zenon

\* Get goes on to forward the last frame only with the timer stopped.
LEMMA GetPush ==
    ASSUME job \in [Sides -> Jobs], NEW s \in Sides, Get(s), finishesCall(job[s]), job'[s].step = "push"
    PROVE  timer[SideOf(s)][job[s].call] = "stopped" /\ job[s].at # "own"
<1> DEFINE i == SideOf(s)  k == job[s].call
<1>1. job[s].step \in ReaderSteps BY Zenon DEF Get, ReaderSteps
<1>2. CASE items[i][k] = "none" /\ job[s].at = "own"
  <2>1. job' = Done(s) BY <1>2, Zenon DEF Get
  <2> QED BY <1>1, <2>1, DoneMoves, IdleJob, Zenon
<1>3. CASE items[i][k] = "none" /\ job[s].at # "own"
  <2>1. ReceiveNotSent(s) BY <1>3, Zenon DEF Get
  <2>2. To(s, "failGet", "own") BY <1>1, <2>1, ReceiveNotSentMoves, Zenon
  <2> QED BY <2>2, Zenon DEF To
<1>4. CASE items[i][k] # "none" /\ timer[i][k] # "stopped"
  <2>1. Goto(s, "stop") BY <1>4, Zenon DEF Get
  <2>2. "stop" \in ReaderSteps BY Zenon DEF ReaderSteps
  <2> QED BY <1>1, <2>1, <2>2, GotoMoves, Zenon
<1>5. CASE items[i][k] # "none" /\ timer[i][k] = "stopped"
  <2>1. Found(s, items[i][k] = "tomb", TRUE) BY <1>5, Zenon DEF Get
  <2>2. \/ Ends(s)
        \/ job[s].at # "own" /\ Sent(s)
        \/ job[s].at = "own" /\ To(s, "get", "recv")
        \/ job[s].at # "own" /\ To(s, "push", job[s].at)
    BY <1>1, <1>5, <2>1, FoundMoves, Zenon
  <2>3. ~Ends(s) BY IdleJob, Zenon DEF Ends
  <2>4. ~To(s, "get", "recv") BY Zenon DEF To
  <2> QED BY <1>5, <2>2, <2>3, <2>4, Zenon
<1> QED BY <1>2, <1>3, <1>4, <1>5, Zenon

\* After relayTimer.Stop the last frame goes on only with the timer stopped.
LEMMA StopTimeoutLands ==
    ASSUME job \in [Sides -> Jobs], ItemTypes, NEW s \in Sides, JobInv(s), Forward, StopTimeout(s)
    PROVE  /\ JobMoves(s) /\ JobInv(s)'
           /\ job'[s] = Idle \/ job'[s].step \in {"get", "push", "finish"}
           /\ job'[s].step = "push" /\ finishesCall(job[s])
                => timer'[SideOf(s)][job[s].call] = "stopped" /\ job[s].at # "own"
<1> DEFINE i == SideOf(s)  k == job[s].call
<1>1. job[s].step = "stop" /\ job[s].step \in ReaderSteps BY Zenon DEF StopTimeout, ReaderSteps
<1>2. i \in Sides /\ k \in Calls /\ job[s].at \in {"own", "recv"} BY SideFacts, Zenon DEF Jobs
<1>3. PICK got \in BOOLEAN : Stop(i, k, got) /\ Found(s, items[i][k] = "tomb", got) BY Zenon DEF StopTimeout
<1>4. i = IF job[s].at = "own" THEN s ELSE Other(s) BY Zenon DEF SideOf
<1>5. UNCHANGED <<items, gc>> BY Zenon DEF StopTimeout
<1>6. got => timer'[i][k] = "stopped" BY <1>2, <1>3, <1>5, StopItem, Zenon
<1>7. \/ Ends(s)
      \/ job[s].at # "own" /\ Sent(s)
      \/ job[s].at = "own" /\ To(s, "get", "recv") /\ (finishesCall(job[s]) => got)
      \/ job[s].at # "own" /\ To(s, "push", job[s].at) /\ (finishesCall(job[s]) => got)
  <2>1. items[i][k] # "none" BY <1>1, Zenon DEF JobInv
  <2> QED BY <1>1, <1>3, <2>1, FoundMoves, Zenon
<1>8. CASE Ends(s)
  BY <1>1, <1>8, EndsLands, IdleJob, Zenon DEF Ends
<1>9. CASE job[s].at # "own" /\ Sent(s)
  <2>1. job[s].at = "recv" BY <1>2, <1>9, Zenon
  <2>2. JobInv(s)' BY <1>1, <1>9, <2>1, SentLands, Zenon
  <2> QED BY <1>9, <2>2, IdleJob, Zenon DEF Sent, To, Ends
<1>10. CASE job[s].at = "own" /\ To(s, "get", "recv") /\ (finishesCall(job[s]) => got)
  <2>1. "get" \in ReaderSteps BY Zenon DEF ReaderSteps
  <2>2. finishesCall(job[s]) => timer'[s][k] \in Over BY <1>4, <1>6, <1>10, Zenon DEF Over
  <2>3. JobInv(s)' BY <1>10, <2>1, <2>2, JobLands, Zenon
  <2> QED BY <1>10, <2>3, Zenon DEF To
<1>11. CASE job[s].at # "own" /\ To(s, "push", job[s].at) /\ (finishesCall(job[s]) => got)
  <2>1. "push" \in ReaderSteps BY Zenon DEF ReaderSteps
  <2>2. job[s].at = "recv" /\ i = Other(s) BY <1>2, <1>4, <1>11, Zenon
  <2>3. finishesCall(job[s]) => timer'[s][k] \in Over BY <1>2, <2>2, Zenon DEF JobInv, Forward
  <2>4. finishesCall(job[s]) => timer'[i][k] \in Over BY <1>6, <1>11, Zenon DEF Over
  <2>5. JobInv(s)' BY <1>11, <2>1, <2>2, <2>3, <2>4, JobLands, Zenon
  <2> QED BY <1>6, <1>11, <2>5, Zenon DEF To
<1> QED BY <1>7, <1>8, <1>9, <1>10, <1>11, Zenon

\* push: the last frame of a call is out, or the item is failed.
LEMMA PushLands ==
    ASSUME job \in [Sides -> Jobs], NEW s \in Sides, JobInv(s), Forward, push(s)
    PROVE  /\ JobMoves(s) /\ JobInv(s)'
           /\ job'[s] = Idle \/ job'[s].step \in {"get", "finish", "failGet"}
<1> DEFINE i == SideOf(s)  k == job[s].call
<1>1. job[s].step = "push" /\ job[s].step \in ReaderSteps BY Zenon DEF push, ReaderSteps
<1>2. i \in Sides /\ k \in Calls BY SideFacts, Zenon DEF Jobs
<1>3. job[s].at = "recv" /\ i = Other(s) BY <1>1, SideFacts, Zenon DEF JobInv
<1>4. finishesCall(job[s]) => timer'[s][k] \in Over BY <1>2, <1>3, Zenon DEF JobInv, Forward
<1>5. CASE Goto(s, "finish") /\ finishesCall(job[s])
  <2>1. "finish" \in ReaderSteps BY Zenon DEF ReaderSteps
  <2>2. To(s, "finish", "recv") BY <1>1, <1>3, <1>5, <2>1, GotoMoves, Zenon DEF To
  <2>3. timer'[i][k] \in Over BY <1>1, <1>2, <1>5, Zenon DEF JobInv, Forward
  <2>4. JobInv(s)' BY <1>3, <1>4, <2>1, <2>2, <2>3, JobLands, Zenon
  <2> QED BY <2>2, <2>4, Zenon DEF To
<1>6. CASE ReceiveSent(s)
  <2>1. Sent(s) BY <1>1, <1>6, ReceiveSentMoves, Zenon
  <2>2. JobInv(s)' BY <1>1, <1>3, <2>1, SentLands, Zenon
  <2> QED BY <2>1, <2>2, Zenon DEF Sent, To, Ends
<1>7. CASE Goto(s, "failGet")
  <2>1. "failGet" \in ReaderSteps BY DEF ReaderSteps
  <2>2. To(s, "failGet", "recv") BY <1>1, <1>3, <1>7, <2>1, GotoMoves, Zenon DEF To
  <2>3. JobInv(s)' BY <1>3, <1>4, <2>1, <2>2, JobLands, Zenon
  <2> QED BY <2>2, <2>3, Zenon DEF To
<1> QED BY <1>5, <1>6, <1>7, Zenon DEF push

Settling == {"failSettle", "finishSettle"}

\* The reader takes the item out while it is live, and then settles it.
Takes(s, l) ==
    LET i == SideOf(s)  k == job[s].call IN
    items[i][k] = "live" /\ items'[i][k] # "live" /\ To(s, l, job[s].at)
\* It goes on without having touched a live item.
Leaves(s) ==
    LET i == SideOf(s)  k == job[s].call IN
    /\ items[i][k] = "live" <=> items'[i][k] = "live"
    /\ job'[s].step \notin Settling \cup {"push"}

\* finishRelayItem takes a live item out and goes on to settle it, or leaves nothing to settle.
LEMMA FinishLands ==
    ASSUME job \in [Sides -> Jobs], ItemTypes, NEW s \in Sides, JobInv(s), Forward, finishRelayItem(s)
    PROVE  JobMoves(s) /\ JobInv(s)' /\ (Takes(s, "finishSettle") \/ Leaves(s))
<1> DEFINE i == SideOf(s)  k == job[s].call
<1>1. job[s].step = "finish" /\ job[s].step \in ReaderSteps BY Zenon DEF finishRelayItem, ReaderSteps
<1>2. i \in Sides /\ k \in Calls /\ job[s].at \in {"own", "recv"} BY SideFacts DEF Jobs
<1>3. Delete(i, k) BY Zenon DEF finishRelayItem
<1>4. items'[i][k] = "none" BY <1>2, <1>3, DeleteItem, Zenon
<1>5. i = IF job[s].at = "own" THEN s ELSE Other(s) BY DEF SideOf
<1>6. timer'[i][k] \in Over BY <1>1, <1>2 DEF JobInv, Forward
<1>7. finishesCall(job[s]) /\ job[s].at = "recv" => timer'[s][k] \in Over BY <1>2, Zenon DEF JobInv, Forward
<1>8. CASE items[i][k] = "live"
  <2>1. Goto(s, "finishSettle") BY <1>8, Zenon DEF finishRelayItem
  <2>2. "finishSettle" \in ReaderSteps BY Zenon DEF ReaderSteps
  <2>3. To(s, "finishSettle", job[s].at) BY <1>1, <2>1, <2>2, GotoMoves, Zenon DEF To
  <2>4. JobInv(s)' BY <1>2, <1>5, <1>6, <1>7, <2>2, <2>3, JobLands, Zenon
  <2> QED BY <1>4, <1>8, <2>3, <2>4, Zenon DEF Takes, To
<1>9. CASE items[i][k] # "live"
  <2>1. AfterFinish(s) BY <1>9, Zenon DEF finishRelayItem
  <2>2. IF job[s].at = "recv" THEN Sent(s) ELSE Ends(s) BY <1>1, <2>1, AfterFinishMoves, Zenon
  <2>3. JobInv(s)' BY <1>1, <2>2, SentLands, EndsLands, Zenon
  <2>4. JobMoves(s) /\ job'[s].step \notin Settling \cup {"push"}
    BY <2>2, IdleJob, Zenon DEF Sent, Ends, To, Settling
  <2> QED BY <1>4, <1>9, <2>3, <2>4, Zenon DEF Leaves
<1> QED BY <1>8, <1>9, Zenon

\* A reader that comes back from failRelayItem has nothing more to settle.
LEMMA AfterFailLands ==
    ASSUME job \in [Sides -> Jobs], NEW s \in Sides, job[s].step \in ReaderSteps, JobInv(s), AfterFail(s)
    PROVE  JobMoves(s) /\ JobInv(s)' /\ job'[s].step \notin Settling \cup {"push"}
<1>1. IF job[s].at = "recv" THEN To(s, "failGet", "own") ELSE Ends(s) BY AfterFailMoves, Zenon
<1>2. CASE job[s].at = "recv"
  <2>1. "failGet" \in ReaderSteps BY Zenon DEF ReaderSteps
  <2>2. JobInv(s)' BY <1>1, <1>2, <2>1, JobLands, Zenon
  <2> QED BY <1>1, <1>2, <2>2, Zenon DEF To, Settling
<1>3. CASE job[s].at # "recv"
  <2>1. JobInv(s)' BY <1>1, <1>3, EndsLands, Zenon
  <2> QED BY <1>1, <1>3, <2>1, IdleJob, Zenon DEF Ends, Settling
<1> QED BY <1>2, <1>3, Zenon

\* A reader that has called decrementPending has nothing more to settle.
LEMMA SettleLands ==
    ASSUME job \in [Sides -> Jobs], NEW s \in Sides, JobInv(s), Forward, finishSettle(s) \/ failSettle(s)
    PROVE  JobMoves(s) /\ JobInv(s)' /\ job'[s].step \notin Settling \cup {"push"}
<1>1. CASE finishSettle(s)
  <2>1. job[s].step = "finishSettle" /\ AfterFinish(s) BY <1>1, Zenon DEF finishSettle
  <2>2. job[s].step \in ReaderSteps BY <2>1, Zenon DEF ReaderSteps
  <2>3. IF job[s].at = "recv" THEN Sent(s) ELSE Ends(s) BY <2>1, <2>2, AfterFinishMoves, Zenon
  <2>4. JobInv(s)' BY <2>2, <2>3, SentLands, EndsLands, Zenon
  <2> QED BY <2>3, <2>4, IdleJob, Zenon DEF Sent, Ends, To, Settling
<1>2. CASE failSettle(s)
  <2>1. job[s].step = "failSettle" /\ AfterFail(s) BY <1>2, Zenon DEF failSettle
  <2>2. job[s].step \in ReaderSteps BY <2>1, Zenon DEF ReaderSteps
  <2> QED BY <2>1, <2>2, AfterFailLands, Zenon
<1> QED BY <1>1, <1>2, Zenon

\* failRelayItem reaches Entomb only with the timer stopped.
LEMMA FailLands ==
    ASSUME job \in [Sides -> Jobs], ItemTypes, NEW s \in Sides, JobInv(s), Forward,
           failRelayItem(s) \/ failStop(s)
    PROVE  JobMoves(s) /\ JobInv(s)' /\ Leaves(s)
<1> DEFINE i == SideOf(s)  k == job[s].call
<1>1. job[s].step \in ReaderSteps BY Zenon DEF failRelayItem, failStop, ReaderSteps
<1>2. i \in Sides /\ k \in Calls /\ job[s].at \in {"own", "recv"} BY SideFacts, Zenon DEF Jobs
<1>3. items' = items BY Zenon DEF failRelayItem, failStop, itemVars
<1>4. i = IF job[s].at = "own" THEN s ELSE Other(s) BY Zenon DEF SideOf
<1>5. finishesCall(job[s]) /\ job[s].at = "recv" => timer'[s][k] \in Over BY <1>2, Zenon DEF JobInv, Forward
<1>6. ASSUME NEW l \in {"entomb", "failStop"}, Goto(s, l), l = "entomb" => timer'[i][k] \in Over,
             items[i][k] # "none" \/ l = "entomb"
      PROVE  JobMoves(s) /\ JobInv(s)' /\ Leaves(s)
  <2>1. l \in ReaderSteps BY Zenon DEF ReaderSteps
  <2>2. To(s, l, job[s].at) BY <1>1, <1>6, <2>1, GotoMoves, Zenon DEF To
  <2>3. JobInv(s)' BY <1>2, <1>3, <1>4, <1>5, <1>6, <2>1, <2>2, JobLands
  <2> QED BY <1>3, <2>2, <2>3, Zenon DEF To, Leaves, Settling
<1>7. ASSUME AfterFail(s) PROVE JobMoves(s) /\ JobInv(s)' /\ Leaves(s)
  BY <1>1, <1>3, <1>7, AfterFailLands, Zenon DEF Leaves
<1>8. CASE failRelayItem(s)
  <2>1. timer' = timer BY <1>8, Zenon DEF failRelayItem, itemVars, timerVars
  <2>2. CASE items[i][k] = "none" BY <1>7, <1>8, <2>2, Zenon DEF failRelayItem
  <2>3. CASE items[i][k] # "none" /\ timer[i][k] = "stopped"
    <3>1. Goto(s, "entomb") BY <1>8, <2>3, Zenon DEF failRelayItem
    <3>2. timer'[i][k] \in Over BY <2>1, <2>3, Zenon DEF Over
    <3> QED BY <1>6, <3>1, <3>2
  <2>4. CASE items[i][k] # "none" /\ timer[i][k] # "stopped"
    <3>1. Goto(s, "failStop") BY <1>8, <2>4, Zenon DEF failRelayItem
    <3> QED BY <1>6, <2>4, <3>1, Zenon
  <2> QED BY <2>2, <2>3, <2>4, Zenon
<1>9. CASE failStop(s)
  <2>1. PICK got \in BOOLEAN : Stop(i, k, got) /\ IF got THEN Goto(s, "entomb") ELSE AfterFail(s)
    BY <1>9, Zenon DEF failStop
  <2>2. CASE got
    <3>1. UNCHANGED <<items, gc>> BY <1>9, Zenon DEF failStop
    <3>2. timer'[i][k] = "stopped" BY <1>2, <2>1, <2>2, <3>1, StopItem, Zenon
    <3> QED BY <1>6, <2>1, <2>2, <3>2, Zenon DEF Over
  <2>3. CASE ~got BY <1>7, <2>1, <2>3, Zenon
  <2> QED BY <2>2, <2>3, Zenon
<1> QED BY <1>8, <1>9, Zenon

-----------------------------------------------------------------------------
(* The steps of the two readers and of the timeout goroutines *)

\* Entomb, or Delete when there are too many tombstones, takes a live item out and goes on to settle it.
LEMMA EntombLands ==
    ASSUME job \in [Sides -> Jobs], ItemTypes, NEW s \in Sides, JobInv(s), Forward,
           failDelete(s) \/ \E others \in 0..MaxTombs + 1 : failEntomb(s, others)
    PROVE  JobMoves(s) /\ JobInv(s)' /\ (Takes(s, "failSettle") \/ Leaves(s))
<1> DEFINE i == SideOf(s)  k == job[s].call
<1>1. job[s].step \in ReaderSteps /\ job[s].step \in {"entomb", "delete"}
  BY Zenon DEF failDelete, failEntomb, ReaderSteps
<1>2. i \in Sides /\ k \in Calls /\ job[s].at \in {"own", "recv"} BY SideFacts, Zenon DEF Jobs
<1>4. i = IF job[s].at = "own" THEN s ELSE Other(s) BY Zenon DEF SideOf
<1>5. finishesCall(job[s]) /\ job[s].at = "recv" => timer'[s][k] \in Over BY <1>2, Zenon DEF JobInv, Forward
<1>6. timer'[i][k] \in Over BY <1>1, <1>2, Zenon DEF JobInv, Forward
<1>7. ASSUME NEW l \in {"delete", "failSettle"}, Goto(s, l)
      PROVE  JobMoves(s) /\ JobInv(s)' /\ To(s, l, job[s].at)
  <2>1. l \in ReaderSteps BY Zenon DEF ReaderSteps
  <2>2. To(s, l, job[s].at) BY <1>1, <1>7, <2>1, GotoMoves, Zenon DEF To
  <2>3. JobInv(s)' BY <1>2, <1>4, <1>5, <1>6, <2>1, <2>2, JobLands, Zenon
  <2> QED BY <2>2, <2>3, Zenon DEF To
<1>8. CASE failDelete(s)
  <2>1. Delete(i, k) /\ IF items[i][k] = "live" THEN Goto(s, "failSettle") ELSE AfterFail(s)
    BY <1>8, Zenon DEF failDelete
  <2>2. items'[i][k] = "none" BY <1>2, <2>1, DeleteItem, Zenon
  <2>3. CASE items[i][k] = "live" BY <1>7, <2>1, <2>2, <2>3 DEF Takes
  <2>4. CASE items[i][k] # "live" BY <1>1, <2>1, <2>2, <2>4, AfterFailLands, Zenon DEF Leaves
  <2> QED BY <2>3, <2>4, Zenon
<1>9. ASSUME NEW others, failEntomb(s, others)
      PROVE  JobMoves(s) /\ JobInv(s)' /\ (Takes(s, "failSettle") \/ Leaves(s))
  <2>1. \/ Goto(s, "delete") /\ UNCHANGED itemVars
        \/ items[i][k] = "live" /\ Entomb(i, k) /\ Goto(s, "failSettle")
        \/ AfterFail(s) /\ UNCHANGED itemVars
    BY <1>9, Zenon DEF failEntomb
  <2>2. UNCHANGED itemVars => items' = items BY Zenon DEF itemVars
  <2>3. CASE Goto(s, "delete") /\ UNCHANGED itemVars
    BY <1>7, <2>2, <2>3, Zenon DEF Leaves, To, Settling
  <2>4. CASE items[i][k] = "live" /\ Entomb(i, k) /\ Goto(s, "failSettle")
    <3>1. items'[i][k] = "tomb" BY <1>2, <2>4, EntombItem, Zenon
    <3> QED BY <1>7, <2>4, <3>1, Zenon DEF Takes
  <2>5. CASE AfterFail(s) /\ UNCHANGED itemVars
    BY <1>1, <2>2, <2>5, AfterFailLands, Zenon DEF Leaves
  <2> QED BY <2>1, <2>3, <2>4, <2>5, Zenon
<1> QED BY <1>8, <1>9, Zenon

-----------------------------------------------------------------------------
\* The steps of handleCallReq, and the frames that arrive

\* A reader that does not move keeps what it knows.
LEMMA OtherJob ==
    ASSUME job \in [Sides -> Jobs], NEW p \in Sides, JobInv(p), job'[p] = job[p], Forward
    PROVE  JobInv(p)'
<1>1. p \in Sides /\ SideOf(p) \in Sides /\ job[p].call \in Calls BY SideFacts, Zenon DEF Jobs
<1>2. SideOf(p)' = SideOf(p) BY Zenon DEF SideOf
<1>3. finishesCall(job[p])' = finishesCall(job[p]) BY DEF finishesCall
<1>4. job[p].step \in {"stop", "failStop"} => items'[SideOf(p)][job[p].call] # "none"
  <2>1. job[p].step \in {"stop", "failStop"} => ReadLocked(SideOf(p)) BY Zenon DEF ReadLocked
  <2> QED BY <1>1, <2>1, Zenon DEF JobInv, Forward
<1>5. \A t \in Sides : timer[t][job[p].call] \in Over => timer'[t][job[p].call] \in Over
  BY <1>1, Zenon DEF Forward
<1> QED BY <1>1, <1>2, <1>3, <1>4, <1>5, Zenon DEF JobInv

\* A job that starts, or that is in handleCallReq before the call req is forwarded
LEMMA FreshJob ==
    ASSUME NEW p \in Sides, job'[p].step \notin ReaderSteps \ {"get", "failGet"},
           job'[p].at = "own" \/ p = "src", p = "src" => job'[p].type \in Requests,
           p = "dst" => job'[p].left = 0 /\ job'[p].step \in {"idle", "get"}
    PROVE  JobInv(p)'
<1>1. p = "src" => ~finishesCall(job[p])' BY Zenon DEF finishesCall, Requests
<1>2. job'[p].step \notin {"stop", "failStop", "entomb", "delete", "failSettle", "finish", "finishSettle", "push"}
  BY Zenon DEF ReaderSteps
<1>3. p = "dst" => job'[p].step \notin Opening \cup {"undoDuplicate", "startOwn", "modify"}
  BY Zenon DEF Opening
<1>4. finishesCall(job[p])' => job'[p].at # "recv" BY <1>1, Zenon DEF Sides
<1> QED BY <1>2, <1>3, <1>4, Zenon DEF JobInv

-----------------------------------------------------------------------------
\* The rest of the types

RestTypes ==
    /\ pending \in [Sides -> Int]
    /\ connActive \in [Sides -> BOOLEAN]
    /\ sendCh \in [Sides -> Seq(Calls \X (Requests \cup Responses))]
    /\ client \in [Calls -> {"start", "cont", "done", "local"}]
    /\ server \in [Calls -> {"none", "called", "cont", "done"}]
    /\ ends \in [Calls -> Nat]
    /\ answers \in [Calls -> SUBSET {"response", "timeout"}]

Frames == Calls \X (Requests \cup Responses)
QueueType == sendCh \in [Sides -> Seq(Frames)]

\* A frame that is queued keeps the queues well-typed and the other queue as it is.
LEMMA Queued ==
    ASSUME QueueType, NEW s \in Sides, NEW f \in Frames, sendCh' = [sendCh EXCEPT ![s] = Append(@, f)]
    PROVE  /\ QueueType' /\ sendCh'[s] = Append(sendCh[s], f)
           /\ \A t \in Sides : t # s => sendCh'[t] = sendCh[t]
<1>1. Append(sendCh[s], f) \in Seq(Frames) BY DEF QueueType
<1> QED BY <1>1, Zenon DEF QueueType

\* SendSystemError never queues anything for the destination.
LEMMA ErrorQueued ==
    ASSUME QueueType, NEW k \in Calls, SendSystemError(k)
    PROVE  QueueType' /\ sendCh'["dst"] = sendCh["dst"]
<1>1. <<k, "error">> \in Frames /\ "src" \in Sides /\ "dst" \in Sides BY Zenon DEF Frames, Responses, Sides
<1>2. CASE sendCh' = sendCh BY <1>2, Zenon DEF QueueType
<1>3. CASE sendCh' = [sendCh EXCEPT !["src"] = Append(@, <<k, "error">>)]
  BY <1>1, <1>3, Queued, Zenon
<1> QED BY <1>2, <1>3, Zenon DEF SendSystemError

\* Counters and answers
LEMMA EndType == ASSUME ends \in [Calls -> Nat], NEW k \in Calls, End(k) PROVE ends' \in [Calls -> Nat]
BY DEF End
\* decrementPending lowers one counter.
LEMMA DecType == ASSUME pending \in [Sides -> Int], NEW s \in Sides, Dec(s) PROVE pending' \in [Sides -> Int]
BY DEF Dec

\* What every step of a reader, and of a timer, does to the queues
LEMMA ReaderTypes ==
    ASSUME RestTypes, job \in [Sides -> Jobs], NEW s \in Sides, ReaderStep(s),
           s = "dst" \/ ~finishesCall(job[s]), job[s].step = "push" => job[s].at = "recv"
    PROVE  /\ pending' \in [Sides -> Int] /\ QueueType' /\ ends' \in [Calls -> Nat]
           /\ answers' \in [Calls -> SUBSET {"response", "timeout"}]
           /\ sendCh'["dst"] = sendCh["dst"]
              \/ /\ s = "src" /\ job[s].step = "push"
                 /\ sendCh'["dst"] = Append(sendCh["dst"], <<job[s].call, job[s].type>>)
           /\ answers' = answers
              \/ /\ s = "dst" /\ job[s].step = "push" /\ finishesCall(job[s])
                 /\ answers' = [answers EXCEPT ![job[s].call] = @ \cup {"response"}]
<1> DEFINE k == job[s].call
<1>1. k \in Calls /\ <<k, job[s].type>> \in Frames /\ SideOf(s) \in Sides
  BY SideFacts, Zenon DEF Jobs, Frames
<1>2. QueueType BY Zenon DEF RestTypes, QueueType, Frames
<1>3. CASE push(s)
  <2>1. pending' = pending /\ ends' = ends /\ job[s].step = "push" BY <1>3, Zenon DEF push
  <2>2. SideOf(s) = Other(s) BY <2>1, SideFacts, Zenon
  <2>3. CASE UNCHANGED <<sendCh, answers>> BY <1>2, <2>1, <2>3, Zenon DEF RestTypes, QueueType
  <2>4. CASE /\ sendCh' = [sendCh EXCEPT ![SideOf(s)] = Append(@, <<k, job[s].type>>)]
             /\ answers' = IF finishesCall(job[s]) THEN [answers EXCEPT ![k] = @ \cup {"response"}] ELSE answers
    <3>1. /\ QueueType' /\ sendCh'[SideOf(s)] = Append(sendCh[SideOf(s)], <<k, job[s].type>>)
          /\ \A t \in Sides : t # SideOf(s) => sendCh'[t] = sendCh[t]
      BY <1>1, <1>2, <2>4, Queued, Zenon
    <3>2. \/ s = "src" /\ SideOf(s) = "dst"
          \/ s = "dst" /\ SideOf(s) = "src" BY <2>2, Zenon DEF Sides, Other
    <3>3. "dst" \in Sides BY Zenon DEF Sides
    <3>4. sendCh'["dst"] = sendCh["dst"] \/ (s = "src" /\ sendCh'["dst"] = Append(sendCh["dst"], <<k, job[s].type>>))
      BY <3>1, <3>2, <3>3, Zenon
    <3>5. CASE finishesCall(job[s])
      <4>1. s = "dst" BY <3>5, Zenon DEF Sides
      <4>2. answers' = [answers EXCEPT ![k] = @ \cup {"response"}] BY <2>4, <3>5, Zenon
      <4>3. answers' \in [Calls -> SUBSET {"response", "timeout"}] BY <1>1, <4>2, Zenon DEF RestTypes
      <4> QED BY <2>1, <3>1, <3>4, <3>5, <4>1, <4>2, <4>3, Zenon DEF RestTypes
    <3>6. CASE ~finishesCall(job[s])
      <4>1. answers' = answers BY <2>4, <3>6, Zenon
      <4> QED BY <2>1, <3>1, <3>4, <4>1, Zenon DEF RestTypes
    <3> QED BY <3>5, <3>6, Zenon
  <2> QED BY <1>3, <2>3, <2>4, Zenon DEF push
<1>4. CASE finishSettle(s) \/ failSettle(s)
  <2>1. answers' = answers BY <1>4, Zenon DEF finishSettle, failSettle
  <2>2. ends' = ends \/ End(k) BY <1>4, Zenon DEF finishSettle, failSettle
  <2>3. Dec(SideOf(s)) BY <1>4, Zenon DEF finishSettle, failSettle
  <2>4. sendCh' = sendCh \/ SendSystemError(k) BY <1>4, Zenon DEF finishSettle, failSettle
  <2>5. QueueType' /\ sendCh'["dst"] = sendCh["dst"]
    <3>1. CASE sendCh' = sendCh BY <1>2, <3>1, Zenon DEF QueueType
    <3>2. CASE SendSystemError(k) BY <1>1, <1>2, <3>2, ErrorQueued, Zenon
    <3> QED BY <2>4, <3>1, <3>2, Zenon
  <2>6. ends' \in [Calls -> Nat] BY <1>1, <2>2, EndType, Zenon DEF RestTypes
  <2>7. pending' \in [Sides -> Int] BY <1>1, <2>3, DecType, Zenon DEF RestTypes
  <2> QED BY <2>1, <2>5, <2>6, <2>7, Zenon DEF RestTypes
<1>5. CASE UNCHANGED <<pending, sendCh, ends, answers>>
  BY <1>2, <1>5, Zenon DEF RestTypes, QueueType
<1>6. ~push(s) /\ ~finishSettle(s) /\ ~failSettle(s) => UNCHANGED <<pending, sendCh, ends, answers>>
  BY Zenon DEF ReaderStep, Get, StopTimeout, finishRelayItem, failRelayItem, failStop, failDelete, failEntomb
<1> QED BY <1>3, <1>4, <1>5, <1>6, Zenon

-----------------------------------------------------------------------------
\* The three ways in which a step of reader s bears on pending and End: it takes a live item
\* out, it settles one it had taken, or neither.

OthersLive(i, k) ==
    \A t \in Sides, l \in Calls : t # i \/ l # k => (items'[t][l] = "live" <=> items[t][l] = "live")
ReaderTakes(s) ==
    LET i == SideOf(s)  k == job[s].call IN
    /\ items[i][k] = "live" /\ items'[i][k] # "live"
    /\ job[s].step \notin Settling /\ job'[s].step \in Settling /\ job'[s].at = job[s].at /\ job'[s].call = k
    /\ pending' = pending /\ ends' = ends
ReaderSettles(s) ==
    LET i == SideOf(s)  k == job[s].call IN
    /\ items[i][k] = "live" <=> items'[i][k] = "live"
    /\ job[s].step \in Settling /\ job'[s].step \notin Settling
    /\ Dec(i) /\ IF i = "src" THEN End(k) ELSE ends' = ends
ReaderQuiet(s) ==
    LET i == SideOf(s)  k == job[s].call IN
    /\ items[i][k] = "live" <=> items'[i][k] = "live"
    /\ job[s].step \notin Settling /\ job'[s].step \notin Settling
    /\ pending' = pending /\ ends' = ends

\* Each step of a reader takes its live item out, settles the one it had taken, or does neither.
LEMMA ReaderWays ==
    ASSUME job \in [Sides -> Jobs], ItemTypes, NEW s \in Sides, JobInv(s), Forward, ReaderStep(s)
    PROVE  /\ JobMoves(s) /\ JobInv(s)'
           /\ ReaderTakes(s) \/ ReaderSettles(s) \/ ReaderQuiet(s)
           /\ job'[s].step = "push" /\ finishesCall(job[s])
                => timer'[SideOf(s)][job[s].call] = "stopped" /\ job[s].at # "own"
<1> DEFINE i == SideOf(s)  k == job[s].call
<1>1. "idle" \notin Settling \cup {"push"} /\ Idle.step = "idle" BY IdleJob, Zenon DEF Settling
<1>2. ASSUME Get(s) \/ StopTimeout(s) \/ push(s)
      PROVE  items' = items /\ pending' = pending /\ ends' = ends /\ job[s].step \in {"get", "stop", "push"}
  BY <1>2, Zenon DEF Get, StopTimeout, push, itemVars
<1>3. CASE Get(s)
  <2>1. timer' = timer BY <1>3, Zenon DEF Get, itemVars, timerVars
  <2>2. /\ JobMoves(s) /\ JobInv(s)'
        /\ job'[s] = Idle \/ job'[s].step \in {"get", "stop", "push", "failGet", "finish"}
    BY <1>3, GetLands, Zenon
  <2>3. job'[s].step = "push" /\ finishesCall(job[s]) => timer'[i][k] = "stopped" /\ job[s].at # "own"
    BY <1>3, <2>1, GetPush, Zenon
  <2>4. job'[s].step \notin Settling BY <1>1, <2>2, Zenon DEF Settling
  <2> QED BY <1>2, <1>3, <2>2, <2>3, <2>4, Zenon DEF ReaderQuiet, Settling
<1>4. CASE StopTimeout(s)
  <2>1. /\ JobMoves(s) /\ JobInv(s)'
        /\ job'[s] = Idle \/ job'[s].step \in {"get", "push", "finish"}
        /\ job'[s].step = "push" /\ finishesCall(job[s]) => timer'[i][k] = "stopped" /\ job[s].at # "own"
    BY <1>4, StopTimeoutLands, Zenon
  <2>2. job'[s].step \notin Settling BY <1>1, <2>1, Zenon DEF Settling
  <2> QED BY <1>2, <1>4, <2>1, <2>2, Zenon DEF ReaderQuiet, Settling
<1>5. CASE push(s)
  <2>1. JobMoves(s) /\ JobInv(s)' /\ (job'[s] = Idle \/ job'[s].step \in {"get", "finish", "failGet"})
    BY <1>5, PushLands, Zenon
  <2>2. job'[s].step \notin Settling \cup {"push"} BY <1>1, <2>1, Zenon DEF Settling
  <2> QED BY <1>2, <1>5, <2>1, <2>2, Zenon DEF ReaderQuiet, Settling
<1>6. ASSUME NEW l \in Settling, Takes(s, l), pending' = pending, ends' = ends, job[s].step \notin Settling
      PROVE  ReaderTakes(s) /\ job'[s].step # "push"
  <2>1. To(s, l, job[s].at) /\ items[i][k] = "live" /\ items'[i][k] # "live" BY <1>6, Zenon DEF Takes
  <2>2. job'[s] # Idle BY <1>1, <2>1, Zenon DEF To
  <2>3. job'[s].call = k BY <2>1, <2>2, Zenon DEF To, JobMoves
  <2> QED BY <1>6, <2>1, <2>3, Zenon DEF ReaderTakes, To, Settling
<1>7. ASSUME Leaves(s), pending' = pending, ends' = ends, job[s].step \notin Settling
      PROVE  ReaderQuiet(s) /\ job'[s].step # "push"
  BY <1>7, Zenon DEF Leaves, ReaderQuiet
<1>8. CASE finishRelayItem(s)
  <2>1. job[s].step = "finish" /\ pending' = pending /\ ends' = ends BY <1>8, Zenon DEF finishRelayItem
  <2>2. JobMoves(s) /\ JobInv(s)' /\ (Takes(s, "finishSettle") \/ Leaves(s)) BY <1>8, FinishLands, Zenon
  <2>3. "finishSettle" \in Settling /\ "finish" \notin Settling BY Zenon DEF Settling
  <2> QED BY <1>6, <1>7, <2>1, <2>2, <2>3, Zenon
<1>9. CASE failRelayItem(s) \/ failStop(s)
  <2>1. job[s].step \in {"failGet", "failStop"} /\ pending' = pending /\ ends' = ends
    BY <1>9, Zenon DEF failRelayItem, failStop
  <2>2. JobMoves(s) /\ JobInv(s)' /\ Leaves(s) BY <1>9, FailLands, Zenon
  <2>3. job[s].step \notin Settling BY <2>1, Zenon DEF Settling
  <2> QED BY <1>7, <2>1, <2>2, <2>3, Zenon
<1>10. CASE failDelete(s) \/ \E others \in 0..MaxTombs + 1 : failEntomb(s, others)
  <2>1. job[s].step \in {"delete", "entomb"} /\ pending' = pending /\ ends' = ends
    BY <1>10, Zenon DEF failDelete, failEntomb
  <2>2. JobMoves(s) /\ JobInv(s)' /\ (Takes(s, "failSettle") \/ Leaves(s)) BY <1>10, EntombLands, Zenon
  <2>3. job[s].step \notin Settling /\ "failSettle" \in Settling BY <2>1, Zenon DEF Settling
  <2> QED BY <1>6, <1>7, <2>1, <2>2, <2>3, Zenon
<1>11. CASE finishSettle(s) \/ failSettle(s)
  <2>1. JobMoves(s) /\ JobInv(s)' /\ job'[s].step \notin Settling \cup {"push"} BY <1>11, SettleLands, Zenon
  <2>2. items' = items /\ Dec(i) /\ (IF i = "src" THEN End(k) ELSE ends' = ends)
    BY <1>11, Zenon DEF finishSettle, failSettle, itemVars
  <2>3. job[s].step \in Settling BY <1>11, Zenon DEF finishSettle, failSettle, Settling
  <2> QED BY <2>1, <2>2, <2>3, Zenon DEF ReaderSettles
<1> QED BY <1>3, <1>4, <1>5, <1>8, <1>9, <1>10, <1>11, Zenon DEF ReaderStep

\* A reader works on one item.
LEMMA ReaderOthers ==
    ASSUME job \in [Sides -> Jobs], ItemTypes, NEW s \in Sides, Touches(s)
    PROVE  OthersLive(SideOf(s), job[s].call)
<1> DEFINE i == SideOf(s)  k == job[s].call
<1>1. i \in Sides /\ k \in Calls BY SideFacts, Zenon DEF Jobs
<1>2. CASE items' = items BY <1>2, Zenon DEF OthersLive
<1>3. CASE Delete(i, k)
  <2>1. Only(i, k) BY <1>1, <1>3, DeleteItem, Zenon
  <2> QED BY <2>1, Zenon DEF Only, OthersLive
<1>4. CASE Entomb(i, k)
  <2>1. Only(i, k) BY <1>1, <1>4, EntombItem, Zenon
  <2> QED BY <2>1 DEF Only, OthersLive
<1>5. items' = items \/ Delete(i, k) \/ Entomb(i, k) BY Zenon DEF Touches, Kept, itemVars
<1> QED BY <1>2, <1>3, <1>4, <1>5, Zenon

-----------------------------------------------------------------------------
\* OpenInv and StartInv where addRelayItem and the steps before it are not at work

Handling == Opening \cup {"undoDuplicate", "startOwn", "modify"}

\* The source's reader keeps its place in handleCallReq, or was not in it and is not.
SrcAside ==
    \/ job'["src"] = job["src"]
    \/ job["src"].step \notin Opening \cup {"startOwn"} /\ job'["src"].step \notin Opening \cup {"startOwn"}

\* A timer is new only while addRelayItem is between adding the item and starting the timer.
LEMMA OpenKept ==
    ASSUME Late, Forward, SrcAside, NEW s \in Sides, NEW k \in Calls, OpenInv(s, k),
           client'[k] \in {"start", "local"} => client[k] \in {"start", "local"}
    PROVE  OpenInv(s, k)'
<1>1. timer[s][k] \in {"none", "new"} => timer'[s][k] = timer[s][k] BY Zenon DEF Late
<1>2. timer[s][k] \notin {"none", "new"} => timer'[s][k] \notin {"none", "new"} BY Zenon DEF Forward
<1>3. timer'[s][k] = "new" <=> timer[s][k] = "new" BY <1>1, <1>2, Zenon
<1>4. timer[s][k] = "none" => timer'[s][k] = "none" BY <1>1, Zenon
<1>5. StartStep(s) \in Opening \cup {"startOwn"} /\ BeforeItem(s) \subseteq Opening
  BY Zenon DEF StartStep, Opening, BeforeItem
<1>6. /\ job'["src"].step = StartStep(s) /\ job'["src"].call = k <=> job["src"].step = StartStep(s) /\ job["src"].call = k
      /\ job'["src"].step \in BeforeItem(s) /\ job'["src"].call = k
           => job["src"].step \in BeforeItem(s) /\ job["src"].call = k
  BY <1>5, Zenon DEF SrcAside
<1>7. (timer[s][k] = "new")' <=> (job["src"].step = StartStep(s) /\ job["src"].call = k)'
  BY <1>3, <1>6, Zenon DEF OpenInv, StartStep
<1>8. (client[k] \in {"start", "local"})' => timer'[s][k] = "none" BY <1>4, Zenon DEF OpenInv
<1>9. (job["src"].step \in BeforeItem(s) /\ job["src"].call = k)' => timer'[s][k] = "none"
  BY <1>4, <1>6, Zenon DEF OpenInv, BeforeItem
<1> QED BY <1>7, <1>8, <1>9, Zenon DEF OpenInv

\* The destination's timer runs before the source has an item: timers only go forward.
LEMMA OrderKept ==
    ASSUME Late, Forward, NEW k \in Calls, StartOrder(k)
    PROVE  StartOrder(k)'
<1>1. "src" \in Sides /\ "dst" \in Sides BY Zenon DEF Sides
<1> QED BY <1>1, Zenon DEF Late, Forward, StartOrder

\* A call whose timers run stays so.
LEMMA StartedKept == ASSUME Forward, NEW k \in Calls, Started(k) PROVE Started(k)'
<1>1. "src" \in Sides BY Zenon DEF Sides
<1> QED BY <1>1, Zenon DEF Forward, Started

\* Only calls whose timers run are on their way to the destination.
LEMMA SentKept ==
    ASSUME QueueType, Forward, SentStarted, server' = server, sendCh'["dst"] = sendCh["dst"]
    PROVE  SentStarted'
<1>1. \A n \in 1..Len(sendCh["dst"]) : sendCh["dst"][n][1] \in Calls
  <2>1. sendCh["dst"] \in Seq(Frames) BY Zenon DEF QueueType, Sides
  <2> QED BY <2>1 DEF Frames
<1>2. \A k \in Calls : Started(k) => Started(k)' BY StartedKept, Zenon
<1>3. \A n \in 1..Len(sendCh'["dst"]) : Started(sendCh["dst"][n][1])'
  BY <1>1, <1>2, Zenon DEF SentStarted, Started
<1>4. \A k \in Calls : server'[k] # "none" => Started(k)' BY <1>2, Zenon DEF SentStarted
<1> QED BY <1>3, <1>4, Zenon DEF SentStarted

\* The same when a frame of such a call is queued.
LEMMA SentPushed ==
    ASSUME QueueType, Forward, SentStarted, server' = server, NEW f \in Frames, Started(f[1]),
           sendCh'["dst"] = Append(sendCh["dst"], f)
    PROVE  SentStarted'
<1>1. sendCh["dst"] \in Seq(Frames) BY Zenon DEF QueueType, Sides
<1>2. \A k \in Calls : Started(k) => Started(k)' BY StartedKept, Zenon
<1>3. \A g \in Frames : g[1] \in Calls BY Zenon DEF Frames
<1>4. ASSUME NEW n \in 1..Len(sendCh'["dst"]) PROVE Started(sendCh["dst"][n][1])'
  <2>1. sendCh'["dst"][n] = f \/ (n \in 1..Len(sendCh["dst"]) /\ sendCh'["dst"][n] = sendCh["dst"][n])
    BY <1>1
  <2>2. CASE sendCh'["dst"][n] = f BY <1>2, <1>3, <2>2, Zenon DEF Started
  <2>3. CASE n \in 1..Len(sendCh["dst"]) /\ sendCh'["dst"][n] = sendCh["dst"][n]
    <3>1. sendCh["dst"][n] \in Frames BY <1>1, <2>3
    <3> QED BY <1>2, <1>3, <2>3, <3>1, Zenon DEF SentStarted, Started
  <2> QED BY <2>1, <2>2, <2>3, Zenon
<1>5. \A k \in Calls : server'[k] # "none" => Started(k)' BY <1>2, Zenon DEF SentStarted
<1> QED BY <1>4, <1>5, Zenon DEF SentStarted

\* The same when writeFrames hands the head of the queue to the called peer.
LEMMA SentWritten ==
    ASSUME QueueType, Forward, SentStarted, server \in [Calls -> {"none", "called", "cont", "done"}],
           NEW s \in Sides, writeFrames(s)
    PROVE  SentStarted' /\ QueueType' /\ server' \in [Calls -> {"none", "called", "cont", "done"}]
<1>1. sendCh[s] \in Seq(Frames) /\ sendCh[s] # <<>> BY Zenon DEF QueueType, writeFrames
<1>2. Head(sendCh[s]) = sendCh[s][1] /\ 1 \in 1..Len(sendCh[s]) /\ sendCh[s][1] \in Frames
      /\ Tail(sendCh[s]) \in Seq(Frames)
  BY <1>1
<1>3. sendCh[s][1][1] \in Calls BY <1>2, Zenon DEF Frames
<1>4. QueueType' BY <1>2, Zenon DEF QueueType, writeFrames
<1>5. server' = [server EXCEPT ![sendCh[s][1][1]] = IF s = "dst" /\ @ = "none" THEN "called" ELSE @]
  BY <1>2, Zenon DEF writeFrames
<1>6. server' \in [Calls -> {"none", "called", "cont", "done"}] BY <1>3, <1>5, Zenon
<1>7. \A k \in Calls : Started(k) => Started(k)' BY StartedKept, Zenon
<1>8. ASSUME NEW k \in Calls, server'[k] # "none" PROVE Started(k)'
  <2>1. CASE server[k] # "none" BY <1>7, <2>1, Zenon DEF SentStarted
  <2>2. CASE server[k] = "none"
    <3>1. k = sendCh["dst"][1][1] /\ s = "dst" BY <1>3, <1>5, <1>8, <2>2, Zenon
    <3> QED BY <1>2, <1>7, <3>1, Zenon DEF SentStarted
  <2> QED BY <2>1, <2>2, Zenon
<1>9. sendCh'["dst"] = sendCh["dst"] \/ (s = "dst" /\ sendCh'["dst"] = Tail(sendCh["dst"]))
  BY Zenon DEF writeFrames, QueueType, Sides
<1>10. sendCh["dst"] \in Seq(Frames) BY Zenon DEF QueueType, Sides
<1>11. ASSUME NEW n \in 1..Len(sendCh'["dst"]) PROVE Started(sendCh["dst"][n][1])'
  <2>1. \E m \in 1..Len(sendCh["dst"]) : sendCh'["dst"][n] = sendCh["dst"][m]
    <3>1. CASE sendCh'["dst"] = sendCh["dst"] BY <3>1, Zenon
    <3>2. CASE s = "dst" /\ sendCh'["dst"] = Tail(sendCh["dst"])
      <4>1. sendCh["dst"] # <<>> BY <1>1, <3>2, Zenon
      <4>2. n + 1 \in 1..Len(sendCh["dst"]) /\ Tail(sendCh["dst"])[n] = sendCh["dst"][n + 1]
        BY <1>10, <3>2, <4>1
      <4> QED BY <3>2, <4>2, Zenon
    <3> QED BY <1>9, <3>1, <3>2, Zenon
  <2>2. PICK m \in 1..Len(sendCh["dst"]) : sendCh'["dst"][n] = sendCh["dst"][m] BY <2>1, Zenon
  <2>3. sendCh["dst"][m][1] \in Calls BY <1>10 DEF Frames
  <2> QED BY <1>7, <2>2, <2>3, Zenon DEF SentStarted, Started
<1> QED BY <1>4, <1>6, <1>8, <1>11, Zenon DEF SentStarted

-----------------------------------------------------------------------------
\* A step of a reader keeps OpenInv, StartInv, AnswerInv and EndInv

\* A step of a reader moves one reader, and not the source's while it is in handleCallReq.
LEMMA ReaderSrc ==
    ASSUME NEW s \in Sides, JobMoves(s)
    PROVE  /\ job["dst"].step \in ReaderSteps \/ s = "src"
           /\ \/ job'["src"] = job["src"] /\ s = "dst"
              \/ /\ s = "src" /\ job'["dst"] = job["dst"]
                 /\ job["src"].step \notin Handling /\ job'["src"].step \notin Handling
<1>1. CASE s = "dst" BY <1>1, Zenon DEF JobMoves, Sides
<1>2. CASE s = "src"
  <2>1. "idle" \notin Handling /\ \A l \in ReaderSteps : l \notin Handling
    BY Zenon DEF Handling, Opening, ReaderSteps
  <2>2. job["src"].step \in ReaderSteps /\ (job'["src"] = Idle \/ job'["src"].step \in ReaderSteps) /\ job'["dst"] = job["dst"]
    BY <1>2, Zenon DEF JobMoves, Sides
  <2> QED BY <1>2, <2>1, <2>2, IdleJob, Zenon
<1> QED BY <1>1, <1>2, Zenon DEF Sides

\* A step of a reader is no step of handleCallReq.
LEMMA ReaderAside ==
    ASSUME NEW s \in Sides, JobMoves(s)
    PROVE  SrcAside
BY ReaderSrc, Zenon DEF SrcAside, Handling

\* A reader goes on to Receive only with a call whose timers run.
LEMMA ReaderJobsStarted ==
    ASSUME job \in [Sides -> Jobs], ItemTypes, AllItems, JobsStarted, \A k \in Calls : OpenInv("src", k),
           Forward, NEW s \in Sides, JobMoves(s)
    PROVE  JobsStarted'
<1>1. job[s].call \in Calls /\ "src" \in Sides /\ "dst" \in Sides /\ job["src"].call \in Calls /\ job["dst"].call \in Calls
  BY Zenon DEF Jobs, Sides
<1>2. \A k \in Calls : Started(k) => Started(k)' BY StartedKept, Zenon
<1>3. CASE s = "dst"
  <2>1. job'["src"] = job["src"] /\ job["dst"].step # "idle" BY <1>3, ReaderSrc, Zenon DEF ReaderSteps
  <2>2. job'["dst"] = Idle \/ job'["dst"].call = job["dst"].call BY <1>3, Zenon DEF JobMoves
  <2>3. (job["dst"].step # "idle" => Started(job["dst"].call))'
    BY <1>1, <1>2, <2>1, <2>2, IdleJob, Zenon DEF JobsStarted, Started
  <2> QED BY <1>1, <1>2, <2>1, <2>3, Zenon DEF JobsStarted, Started
<1>4. CASE s = "src"
  <2>1. job'["dst"] = job["dst"] /\ job'["src"].step # "modify" BY <1>4, ReaderSrc, Zenon DEF Handling
  <2>2. CASE job'["src"] = Idle
    BY <1>1, <1>2, <2>1, <2>2, IdleJob DEF JobsStarted, Started
  <2>3. CASE job'["src"] # Idle
    <3>1. job'["src"].call = job["src"].call /\ job'["src"].left <= job["src"].left
      BY <1>4, <2>3, Zenon DEF JobMoves
    <3>2. job'["src"].left \in Nat /\ job["src"].left \in Nat BY <1>1, <1>4, Zenon DEF JobMoves, Jobs
    <3>3. CASE job["src"].at = "recv" \/ job["src"].left > 0
      <4>1. Started(job["src"].call)' BY <1>1, <1>2, <3>1, <3>3, Zenon DEF JobsStarted, Started
      <4> QED BY <1>1, <1>2, <2>1, <4>1, Zenon DEF JobsStarted, Started
    <3>4. CASE ~(job["src"].at = "recv" \/ job["src"].left > 0)
      <4>1. job["src"].at = "own" BY <1>1, <3>4, Zenon DEF Jobs
      <4>2. SideOf("src") = "src" BY <4>1, Zenon DEF SideOf
      <4>3. ASSUME job'["src"].at = "recv" PROVE Started(job["src"].call)'
        <5>1. items["src"][job["src"].call] # "none" BY <1>4, <3>4, <4>2, <4>3, Zenon DEF JobMoves
        <5>2. timer["src"][job["src"].call] # "none"
          <6>1. ItemInv("src", job["src"].call) BY <1>1, Zenon DEF AllItems
          <6>2. items["src"][job["src"].call] \in {"live", "tomb"} BY <1>1, <5>1 DEF ItemTypes
          <6> QED BY <6>1, <6>2, Zenon DEF ItemInv
        <5>3. timer["src"][job["src"].call] # "new"
          <6>1. job["src"].step # "startOwn" BY <1>4, ReaderSrc, Zenon DEF Handling
          <6> QED BY <1>1, <6>1, Zenon DEF OpenInv, StartStep
        <5>4. Started(job["src"].call) BY <5>2, <5>3, Zenon DEF Started
        <5> QED BY <1>1, <1>2, <3>1, <5>4, Zenon DEF Started
      <4>4. ~(job'["src"].left > 0) BY <3>1, <3>2, <3>4
      <4> QED BY <1>1, <1>2, <2>1, <4>3, <4>4, Zenon DEF JobsStarted, Started
    <3> QED BY <3>3, <3>4, Zenon
  <2> QED BY <2>2, <2>3, Zenon
<1> QED BY <1>3, <1>4, Zenon DEF Sides

\* The duties of an unchanged place in handleCallReq
LEMMA OpenedKept ==
    ASSUME job \in [Sides -> Jobs], Forward, Opened, SrcAside,
           \A k \in Calls : client[k] \in {"cont", "done"} => client'[k] \in {"cont", "done"}
    PROVE  Opened'
<1>1. job["src"].call \in Calls /\ "dst" \in Sides BY Zenon DEF Jobs, Sides
<1>2. CASE job'["src"] = job["src"]
  BY <1>1, <1>2 DEF Opened, Forward
<1>3. CASE job'["src"].step \notin Opening \cup {"startOwn"}
  BY <1>3, Zenon DEF Opened, Opening
<1> QED BY <1>2, <1>3, Zenon DEF SrcAside

\* The response wins by stopping the timer, the timeout by running it: never both.
LEMMA AnswerKept ==
    ASSUME Forward, NEW k \in Calls, AnswerInv(k),
           Won(k)' => Won(k) \/ timer'["src"][k] = "stopped",
           Fired(k)' => Fired(k) \/ (timer["src"][k] = "firing" /\ timer'["src"][k] = "ran")
    PROVE  AnswerInv(k)'
<1>1. "src" \in Sides BY Zenon DEF Sides
<1>2. /\ timer["src"][k] \in Over => timer'["src"][k] \in Over
      /\ timer["src"][k] \in {"ran", "released"} => timer'["src"][k] \in {"ran", "released"}
  BY <1>1, Zenon DEF Forward
<1>3. Won(k)' => timer'["src"][k] \in Over BY <1>2, Zenon DEF AnswerInv, Over
<1>4. Fired(k)' => timer'["src"][k] \in {"ran", "released"} BY <1>2, Zenon DEF AnswerInv
<1>5. ~(Won(k)' /\ Fired(k)')
  <2>1. Won(k) => timer["src"][k] \notin {"firing"} BY Zenon DEF AnswerInv, Over
  <2> QED BY <1>4, <2>1 DEF AnswerInv
<1> QED BY <1>3, <1>4, <1>5, Zenon DEF AnswerInv

\* A reader queues the last frame of a response only with the timer of the source stopped.
LEMMA ReaderAnswers ==
    ASSUME job \in [Sides -> Jobs], answers \in [Calls -> SUBSET {"response", "timeout"}],
           NEW s \in Sides, JobMoves(s), Forward, fire' = fire,
           \/ answers' = answers
           \/ /\ s = "dst" /\ job[s].step = "push" /\ finishesCall(job[s])
              /\ answers' = [answers EXCEPT ![job[s].call] = @ \cup {"response"}],
           job'[s].step = "push" /\ finishesCall(job[s])
             => timer'[SideOf(s)][job[s].call] = "stopped" /\ job[s].at # "own",
           NEW k \in Calls, AnswerInv(k)
    PROVE  AnswerInv(k)'
<1>1. Fired(k)' => Fired(k) BY DEF Fired
<1>2. "response" \in answers'[k] => Won(k) BY Zenon DEF Won
<1>3. ASSUME job'["dst"].step = "push", job'["dst"].call = k, finishesCall(job["dst"])'
      PROVE  Won(k) \/ timer'["src"][k] = "stopped"
  <2>1. CASE s = "src"
    <3>1. job'["dst"] = job["dst"] BY <2>1 DEF JobMoves, Sides
    <3> QED BY <1>3, <3>1, Zenon DEF Won, finishesCall
  <2>2. CASE s = "dst"
    <3>1. job'["dst"] # Idle BY <1>3, IdleJob, Zenon
    <3>2. job["dst"].call = k /\ job'["dst"].type = job["dst"].type /\ job'["dst"].more = job["dst"].more
      BY <1>3, <2>2, <3>1, Zenon DEF JobMoves
    <3>3. finishesCall(job["dst"]) BY <1>3, <3>2 DEF finishesCall
    <3>4. SideOf("dst") = "src" BY <1>3, <2>2, <3>3 DEF SideOf, Other
    <3> QED BY <1>3, <2>2, <3>2, <3>3, <3>4, Zenon
  <2> QED BY <2>1, <2>2, Zenon DEF Sides
<1>4. Won(k)' => Won(k) \/ timer'["src"][k] = "stopped" BY <1>2, <1>3, Zenon DEF Won
<1> QED BY <1>1, <1>4, AnswerKept, Zenon

\* The reader p has the duty to call End of k.
EndsNext(p, k) == Settles(p, "src") /\ job[p].call = k

\* EndInv with the duties of the two readers named.
LEMMA EndTokens ==
    ASSUME NEW k \in Calls
    PROVE  EndInv(k) <=>
             ends[k] + One(items["src"][k] = "live") + One(fire["src"][k] = "settle") + One(Opens(k))
               + One(EndsNext("src", k)) + One(EndsNext("dst", k)) = One(client[k] \notin {"start", "local"})
BY Zenon DEF EndInv, EndsNext

\* A reader that takes an item out takes its duty to call End, and does it once.
LEMMA ReaderEnds ==
    ASSUME job \in [Sides -> Jobs], ends \in [Calls -> Nat], NEW s \in Sides, JobMoves(s),
           OthersLive(SideOf(s), job[s].call), fire' = fire, client' = client,
           ReaderTakes(s) \/ ReaderSettles(s) \/ ReaderQuiet(s), NEW k \in Calls, EndInv(k)
    PROVE  EndInv(k)'
<1> DEFINE L == items["src"][k] = "live"
           M == EndsNext(s, k)
<1>1. \A p \in Sides : p # s => (EndsNext(p, k)' <=> EndsNext(p, k))
  BY Zenon DEF JobMoves, EndsNext, Settles, SideOf
<1>2. Opens(k)' <=> Opens(k) BY ReaderSrc, Zenon DEF Opens, Handling
<1>3. ends[k] \in Nat /\ "src" \in Sides /\ "dst" \in Sides BY Zenon DEF Sides
<1>4. ends'[k] + One(L') + One(M') = ends[k] + One(L) + One(M)
  <2>1. CASE ReaderTakes(s)
    <3>1. ends' = ends /\ ~M BY <2>1, Zenon DEF ReaderTakes, EndsNext, Settles, Settling
    <3>2. SideOf(s)' = SideOf(s) BY <2>1, Zenon DEF ReaderTakes, SideOf
    <3>3. CASE SideOf(s) = "src" /\ job[s].call = k
      <4>1. M' BY <2>1, <3>2, <3>3, Zenon DEF ReaderTakes, EndsNext, Settles, Settling
      <4>2. L /\ ~L' BY <2>1, <3>3, Zenon DEF ReaderTakes
      <4> QED BY <1>3, <3>1, <4>1, <4>2 DEF One
    <3>4. CASE ~(SideOf(s) = "src" /\ job[s].call = k)
      <4>1. ~M' BY <2>1, <3>2, <3>4, Zenon DEF ReaderTakes, EndsNext, Settles
      <4>2. L' <=> L BY <1>3, <3>4, Zenon DEF OthersLive
      <4> QED BY <1>3, <3>1, <4>1, <4>2, Zenon DEF One
    <3> QED BY <3>3, <3>4, Zenon
  <2>2. CASE ReaderSettles(s)
    <3>1. ~M' BY <2>2, Zenon DEF ReaderSettles, EndsNext, Settles, Settling
    <3>2. L' <=> L
      BY <1>3, <2>2, Zenon DEF ReaderSettles, OthersLive
    <3>3. M <=> SideOf(s) = "src" /\ job[s].call = k
      BY <2>2, Zenon DEF ReaderSettles, EndsNext, Settles, Settling
    <3>4. ends'[k] = ends[k] + One(M)
      <4>1. job[s].call \in Calls BY Zenon DEF Jobs
      <4>2. CASE SideOf(s) = "src" BY <1>3, <2>2, <3>3, <4>1, <4>2 DEF ReaderSettles, End, One
      <4>3. CASE SideOf(s) # "src" BY <1>3, <2>2, <3>3, <4>3 DEF ReaderSettles, One
      <4> QED BY <4>2, <4>3, Zenon
    <3> QED BY <1>3, <3>1, <3>2, <3>4 DEF One
  <2>3. CASE ReaderQuiet(s)
    <3>1. ~M /\ ~M' /\ ends' = ends BY <2>3, Zenon DEF ReaderQuiet, EndsNext, Settles, Settling
    <3>2. L' <=> L BY <1>3, <2>3, Zenon DEF ReaderQuiet, OthersLive
    <3> QED BY <1>3, <3>1, <3>2, Zenon DEF One
  <2> QED BY <2>1, <2>2, <2>3, Zenon
<1>5. ends'[k] \in Int
  <2>1. job[s].call \in Calls BY DEF Jobs
  <2> QED BY <1>3, <2>1 DEF ReaderTakes, ReaderSettles, ReaderQuiet, End
<1>6. One(Opens(k)') = One(Opens(k)) /\ \A p \in Sides : p # s => One(EndsNext(p, k)') = One(EndsNext(p, k))
  BY <1>1, <1>2, Zenon DEF One
<1>7. /\ ends'[k] + One(L') + One(fire'["src"][k] = "settle") + One(Opens(k)')
         + One(EndsNext("src", k)') + One(EndsNext("dst", k)') = One(client'[k] \notin {"start", "local"})
  <2>1. \A b : One(b) \in Int BY DEF One
  <2>2. CASE s = "src" BY <1>3, <1>4, <1>5, <1>6, <2>1, <2>2, EndTokens
  <2>3. CASE s = "dst" BY <1>3, <1>4, <1>5, <1>6, <2>1, <2>3, EndTokens
  <2> QED BY <2>2, <2>3 DEF Sides
<1> QED BY <1>7, Zenon DEF EndInv, EndsNext, One

-----------------------------------------------------------------------------
\* The same for the goroutines of a timer

TimerTakes(s, k) ==
    /\ items[s][k] = "live" /\ items'[s][k] # "live" /\ fire[s][k] # "settle" /\ fire'[s][k] = "settle"
    /\ pending' = pending /\ ends' = ends
TimerSettles(s, k) ==
    /\ items'[s][k] = "live" <=> items[s][k] = "live"
    /\ fire[s][k] = "settle" /\ fire'[s][k] # "settle"
    /\ Dec(s) /\ IF s = "src" THEN End(k) ELSE ends' = ends
TimerQuiet(s, k) ==
    /\ items'[s][k] = "live" <=> items[s][k] = "live"
    /\ fire'[s][k] = "settle" <=> fire[s][k] = "settle"
    /\ pending' = pending /\ ends' = ends
OthersFire(s, k) == \A t \in Sides, l \in Calls : t # s \/ l # k => fire'[t][l] = fire[t][l]
FiresAfter(s, k) == fire'[s][k] # "off" => fire[s][k] # "off" \/ (timer[s][k] = "firing" /\ timer'[s][k] = "ran")
Answers(s, k) ==
    \/ answers' = answers
    \/ s = "src" /\ fire[s][k] # "off" /\ answers' = [answers EXCEPT ![k] = @ \cup {"timeout"}]

\* Each step of a timer goroutine takes the live item out, settles the one it had taken, or does neither.
LEMMA TimerWays ==
    ASSUME ItemTypes, FireType, AllItems, NEW s \in Sides, NEW k \in Calls, TimerStep(s, k)
    PROVE  /\ OthersLive(s, k) /\ OthersFire(s, k) /\ FiresAfter(s, k) /\ Answers(s, k)
           /\ TimerTakes(s, k) \/ TimerSettles(s, k) \/ TimerQuiet(s, k)
           /\ sendCh' = sendCh \/ SendSystemError(k)
<1>1. ItemInv(s, k) BY Zenon DEF AllItems
<1>2. ASSUME fire' = fire PROVE OthersFire(s, k) /\ FiresAfter(s, k)
  BY <1>2, Zenon DEF OthersFire, FiresAfter
<1>3. ASSUME NEW v, FireOnly(s, k, v) PROVE OthersFire(s, k) /\ fire'[s][k] = v
  BY <1>3, Zenon DEF FireOnly, OthersFire
<1>4. ASSUME items' = items PROVE OthersLive(s, k) /\ (items'[s][k] = "live" <=> items[s][k] = "live")
  BY <1>4 DEF OthersLive
<1>5. ASSUME Only(s, k) PROVE OthersLive(s, k) BY <1>5 DEF Only, OthersLive
<1>6. CASE Expire(s, k)
  <2>1. UNCHANGED <<items, fire, pending, sendCh, ends, answers>> BY <1>6, Zenon DEF Expire
  <2> QED BY <1>2, <1>4, <2>1, Zenon DEF TimerQuiet, Answers
<1>7. CASE OnTimer(s, k)
  <2>1. UNCHANGED <<items, pending, sendCh, ends, answers>> /\ timer[s][k] = "firing"
        /\ timer' = [timer EXCEPT ![s][k] = "ran"] /\ fire' = [fire EXCEPT ![s][k] = "entomb"]
    BY <1>7, Zenon DEF OnTimer
  <2>2. FireOnly(s, k, "entomb") BY <2>1, FireCell, Zenon DEF Fires
  <2>3. timer'[s][k] = "ran" BY <2>1 DEF ItemTypes
  <2>4. fire[s][k] = "off" BY <1>1, <2>1, Zenon DEF ItemInv
  <2>5. OthersFire(s, k) /\ fire'[s][k] = "entomb" BY <1>3, <2>2, Zenon
  <2> QED BY <1>4, <2>1, <2>3, <2>4, <2>5, Zenon DEF TimerQuiet, Answers, FiresAfter
<1>8. CASE timeoutSettle(s, k)
  <2>1. /\ fire[s][k] = "settle" /\ fire' = [fire EXCEPT ![s][k] = "off"] /\ UNCHANGED itemVars /\ Dec(s)
        /\ IF s = "src" THEN SendSystemError(k) /\ End(k) /\ answers' = [answers EXCEPT ![k] = @ \cup {"timeout"}]
                        ELSE UNCHANGED <<sendCh, answers, ends>>
    BY <1>8, Zenon DEF timeoutSettle
  <2>2. items' = items BY <2>1, Zenon DEF itemVars
  <2>3. FireOnly(s, k, "off") BY <2>1, FireCell, Zenon DEF Fires
  <2>4. OthersFire(s, k) /\ fire'[s][k] = "off" BY <1>3, <2>3, Zenon
  <2>5. CASE s = "src" BY <1>4, <2>1, <2>2, <2>4, <2>5, Zenon DEF TimerSettles, Answers, FiresAfter
  <2>6. CASE s # "src" BY <1>4, <2>1, <2>2, <2>4, <2>6, Zenon DEF TimerSettles, Answers, FiresAfter
  <2> QED BY <2>5, <2>6, Zenon
<1>9. ASSUME NEW others, timeoutRelayItem(s, k, others)
      PROVE  /\ OthersLive(s, k) /\ OthersFire(s, k) /\ FiresAfter(s, k) /\ Answers(s, k)
             /\ TimerTakes(s, k) \/ TimerQuiet(s, k)
             /\ sendCh' = sendCh
  <2>1. UNCHANGED <<pending, sendCh, ends, answers>> BY <1>9, Zenon DEF timeoutRelayItem
  <2>2. \A v \in Fires : fire' = [fire EXCEPT ![s][k] = v] => FireOnly(s, k, v) BY FireCell, Zenon
  <2>3. "off" \in Fires /\ "delete" \in Fires /\ "settle" \in Fires BY Zenon DEF Fires
  <2>4. UNCHANGED itemVars => items' = items BY Zenon DEF itemVars
  <2>5. CASE fire[s][k] = "entomb" /\ UNCHANGED itemVars /\ fire' = [fire EXCEPT ![s][k] = "delete"]
    <3>1. OthersFire(s, k) /\ fire'[s][k] = "delete" BY <1>3, <2>2, <2>3, <2>5, Zenon
    <3> QED BY <1>4, <2>1, <2>4, <2>5, <3>1, Zenon DEF TimerQuiet, Answers, FiresAfter
  <2>6. CASE /\ fire[s][k] = "entomb" /\ items[s][k] = "live" /\ Entomb(s, k)
             /\ fire' = [fire EXCEPT ![s][k] = "settle"]
    <3>1. OthersFire(s, k) /\ fire'[s][k] = "settle" BY <1>3, <2>2, <2>3, <2>6, Zenon
    <3>2. Only(s, k) /\ items'[s][k] = "tomb" BY <2>6, EntombItem
    <3> QED BY <1>5, <2>1, <2>6, <3>1, <3>2, Zenon DEF TimerTakes, Answers, FiresAfter
  <2>7. CASE fire[s][k] = "entomb" /\ UNCHANGED itemVars /\ fire' = [fire EXCEPT ![s][k] = "off"]
    <3>1. OthersFire(s, k) /\ fire'[s][k] = "off" BY <1>3, <2>2, <2>3, <2>7, Zenon
    <3> QED BY <1>4, <2>1, <2>4, <2>7, <3>1, Zenon DEF TimerQuiet, Answers, FiresAfter
  <2>8. CASE /\ fire[s][k] = "delete" /\ Delete(s, k)
             /\ fire' = [fire EXCEPT ![s][k] = IF items[s][k] = "live" THEN "settle" ELSE "off"]
    <3>1. Only(s, k) /\ items'[s][k] = "none" BY <2>8, DeleteItem, Zenon
    <3>2. CASE items[s][k] = "live"
      <4>1. OthersFire(s, k) /\ fire'[s][k] = "settle" BY <1>3, <2>2, <2>3, <2>8, <3>2, Zenon
      <4> QED BY <1>5, <2>1, <2>8, <3>1, <3>2, <4>1, Zenon DEF TimerTakes, Answers, FiresAfter
    <3>3. CASE items[s][k] # "live"
      <4>1. OthersFire(s, k) /\ fire'[s][k] = "off" BY <1>3, <2>2, <2>3, <2>8, <3>3, Zenon
      <4> QED BY <1>5, <2>1, <2>8, <3>1, <3>3, <4>1 DEF TimerQuiet, Answers, FiresAfter
    <3> QED BY <3>2, <3>3, Zenon
  <2> QED BY <1>9, <2>5, <2>6, <2>7, <2>8, Zenon DEF timeoutRelayItem
<1>10. CASE DeleteTomb(s, k)
  <2>1. k \in gc[s] /\ items' = [items EXCEPT ![s][k] = "none"] /\ UNCHANGED <<fire, pending, sendCh, ends, answers>>
    BY <1>10, Zenon DEF DeleteTomb
  <2>2. items[s][k] # "live" BY <1>1, <2>1, Zenon DEF ItemInv
  <2>3. items'[s][k] = "none" /\ OthersLive(s, k) BY <2>1, Nested DEF ItemTypes, OthersLive
  <2> QED BY <1>2, <2>1, <2>2, <2>3, Zenon DEF TimerQuiet, Answers
<1> QED BY <1>6, <1>7, <1>8, <1>9, <1>10, Zenon DEF TimerStep

\* A timeout is answered only by a timer that ran.
LEMMA TimerAnswers ==
    ASSUME answers \in [Calls -> SUBSET {"response", "timeout"}], Forward, job' = job,
           NEW s \in Sides, NEW l \in Calls, OthersFire(s, l), FiresAfter(s, l), Answers(s, l),
           NEW k \in Calls, AnswerInv(k)
    PROVE  AnswerInv(k)'
<1>1. "response" \in answers'[k] => "response" \in answers[k] BY DEF Answers
<1>2. Won(k)' => Won(k) BY <1>1, Zenon DEF Won, finishesCall
<1>3. "timeout" \in answers'[k] => "timeout" \in answers[k] \/ fire["src"][k] # "off" BY Zenon DEF Answers
<1>4. fire'["src"][k] # "off" => fire["src"][k] # "off" \/ (timer["src"][k] = "firing" /\ timer'["src"][k] = "ran")
  <2>1. "src" \in Sides BY Zenon DEF Sides
  <2> QED BY <2>1, Zenon DEF OthersFire, FiresAfter
<1>5. Fired(k)' => Fired(k) \/ (timer["src"][k] = "firing" /\ timer'["src"][k] = "ran")
  BY <1>3, <1>4, Zenon DEF Fired
<1> QED BY <1>2, <1>5, AnswerKept, Zenon

\* A timer goroutine that takes an item out takes its duty to call End, and does it once.
LEMMA TimerEnds ==
    ASSUME ends \in [Calls -> Nat], job' = job, client' = client, NEW s \in Sides, NEW l \in Calls,
           OthersLive(s, l), OthersFire(s, l), TimerTakes(s, l) \/ TimerSettles(s, l) \/ TimerQuiet(s, l),
           NEW k \in Calls, EndInv(k)
    PROVE  EndInv(k)'
<1> DEFINE L == items["src"][k] = "live"
           M == fire["src"][k] = "settle"
<1>1. ends[k] \in Nat /\ "src" \in Sides BY Zenon DEF Sides
<1>2. ends'[k] \in Int /\ ends'[k] + One(L') + One(M') = ends[k] + One(L) + One(M)
  <2>1. CASE s = "src" /\ l = k
    BY <1>1, <2>1 DEF TimerTakes, TimerSettles, TimerQuiet, End, One
  <2>2. CASE s # "src" \/ l # k
    <3>1. (L' <=> L) /\ (M' <=> M) BY <1>1, <2>2, Zenon DEF OthersLive, OthersFire
    <3>2. ends'[k] = ends[k] BY <1>1, <2>2, Zenon DEF TimerTakes, TimerSettles, TimerQuiet, End
    <3> QED BY <1>1, <3>1, <3>2 DEF One
  <2> QED BY <2>1, <2>2, Zenon
<1>3. /\ Opens(k)' = Opens(k) /\ EndsNext("src", k)' = EndsNext("src", k) /\ EndsNext("dst", k)' = EndsNext("dst", k)
  BY Zenon DEF Opens, EndsNext, Settles, SideOf
<1>4. /\ ends'[k] + One(L') + One(M') + One(Opens(k)')
         + One(EndsNext("src", k)') + One(EndsNext("dst", k)') = One(client'[k] \notin {"start", "local"})
  <2>1. \A b : One(b) \in Int BY DEF One
  <2> QED BY <1>1, <1>2, <1>3, <2>1, EndTokens
<1> QED BY <1>4, Zenon DEF EndInv, EndsNext, One

-----------------------------------------------------------------------------
\* All of the invariant but PendingBalanced

RelayCore ==
    /\ ItemTypes /\ FireType /\ job \in [Sides -> Jobs] /\ RestTypes /\ TimerSafe /\ AllItems /\ StartInv
    /\ (\A t \in Sides, l \in Calls : OpenInv(t, l)) /\ (\A p \in Sides : JobInv(p))
    /\ \A l \in Calls : AnswerInv(l) /\ EndInv(l)

\* The types, sorted by what writes them.
LEMMA CoreTypes == ItemTypes /\ FireType /\ job \in [Sides -> Jobs] /\ RestTypes <=> RelayTypeOK
BY Zenon DEF ItemTypes, FireType, Fires, RestTypes, RelayTypeOK

\* Every step of a reader keeps the invariant but for PendingBalanced.
LEMMA ReaderCore ==
    ASSUME RelayCore, NEW s \in Sides, ReaderStep(s)
    PROVE  /\ RelayCore' /\ JobMoves(s) /\ OthersLive(SideOf(s), job[s].call) /\ fire' = fire
           /\ ReaderTakes(s) \/ ReaderSettles(s) \/ ReaderQuiet(s)
<1>1. /\ job \in [Sides -> Jobs] /\ ItemTypes /\ FireType /\ RestTypes /\ TimerSafe /\ AllItems /\ StartInv /\ JobInv(s)
      /\ (\A t \in Sides, l \in Calls : OpenInv(t, l)) /\ RelayTypeOK
  BY CoreTypes, Zenon DEF RelayCore
<1>2. Touches(s) /\ UNCHANGED envVars /\ fire' = fire
  <2>1. Touches(s) /\ UNCHANGED envVars BY ReaderTouches, Zenon
  <2> QED BY <2>1, Zenon DEF Touches
<1>3. client' = client /\ server' = server /\ connActive' = connActive BY <1>2, Zenon DEF envVars
<1>4. ItemTypes' /\ Forward /\ Late /\ AllItems' /\ TimerSafe' BY <1>1, ReaderItems, Zenon
<1>5. /\ JobMoves(s) /\ JobInv(s)' /\ (ReaderTakes(s) \/ ReaderSettles(s) \/ ReaderQuiet(s))
      /\ job'[s].step = "push" /\ finishesCall(job[s])
           => timer'[SideOf(s)][job[s].call] = "stopped" /\ job[s].at # "own"
  BY <1>1, <1>4, ReaderWays, Zenon
<1>6. s = "dst" \/ ~finishesCall(job[s]) BY <1>1, Zenon DEF Sides, JobInv, finishesCall, Requests
<1>7. job[s].step = "push" => job[s].at = "recv" BY <1>1, Zenon DEF JobInv
<1>8. /\ pending' \in [Sides -> Int] /\ QueueType' /\ ends' \in [Calls -> Nat]
      /\ answers' \in [Calls -> SUBSET {"response", "timeout"}]
      /\ sendCh'["dst"] = sendCh["dst"]
         \/ /\ s = "src" /\ job[s].step = "push"
            /\ sendCh'["dst"] = Append(sendCh["dst"], <<job[s].call, job[s].type>>)
      /\ answers' = answers
         \/ /\ s = "dst" /\ job[s].step = "push" /\ finishesCall(job[s])
            /\ answers' = [answers EXCEPT ![job[s].call] = @ \cup {"response"}]
  BY <1>1, <1>6, <1>7, ReaderTypes, Zenon
<1>9. OthersLive(SideOf(s), job[s].call) BY <1>1, <1>2, ReaderOthers, Zenon
<1>10. FireType' BY <1>1, <1>2, Zenon DEF FireType
<1>11. job' \in [Sides -> Jobs] BY <1>5, Zenon DEF JobMoves
<1>12. RestTypes' BY <1>1, <1>3, <1>8, Zenon DEF RestTypes, QueueType, Frames
<1>13. ASSUME NEW p \in Sides PROVE JobInv(p)'
  <2>1. CASE p = s BY <1>5, <2>1, Zenon
  <2>2. CASE p # s
    <3>1. job'[p] = job[p] /\ JobInv(p) BY <1>5, <2>2, Zenon DEF JobMoves, RelayCore
    <3> QED BY <1>1, <1>4, <3>1, OtherJob, Zenon
  <2> QED BY <2>1, <2>2, Zenon
<1>14. SrcAside BY <1>5, ReaderAside, Zenon
<1>15. ASSUME NEW t \in Sides, NEW l \in Calls PROVE OpenInv(t, l)'
  BY <1>1, <1>3, <1>4, <1>14, OpenKept, Zenon
<1>16. StartInv'
  <2>1. \A l \in Calls : StartOrder(l)' BY <1>1, <1>4, OrderKept, Zenon DEF StartInv
  <2>2. Opened' BY <1>1, <1>3, <1>4, <1>14, OpenedKept, Zenon DEF StartInv
  <2>3. JobsStarted' BY <1>1, <1>4, <1>5, ReaderJobsStarted, Zenon DEF StartInv, Sides
  <2>4. QueueType /\ SentStarted BY <1>1, Zenon DEF RestTypes, QueueType, Frames, StartInv
  <2>5. SentStarted'
    <3>1. CASE sendCh'["dst"] = sendCh["dst"] BY <1>3, <1>4, <2>4, <3>1, SentKept, Zenon
    <3>2. CASE /\ s = "src" /\ job[s].step = "push"
               /\ sendCh'["dst"] = Append(sendCh["dst"], <<job[s].call, job[s].type>>)
      <4>1. <<job[s].call, job[s].type>> \in Frames BY <1>1, Zenon DEF Jobs, Frames
      <4>2. Started(job[s].call) BY <1>1, <1>7, <3>2, Zenon DEF StartInv, JobsStarted
      <4> QED BY <1>3, <1>4, <2>4, <3>2, <4>1, <4>2, SentPushed, Zenon
    <3> QED BY <1>8, <3>1, <3>2, Zenon
  <2> QED BY <2>1, <2>2, <2>3, <2>5, Zenon DEF StartInv
<1>17. ASSUME NEW l \in Calls PROVE AnswerInv(l)' /\ EndInv(l)'
  <2>1. AnswerInv(l) /\ EndInv(l) BY Zenon DEF RelayCore
  <2>2. answers \in [Calls -> SUBSET {"response", "timeout"}] /\ ends \in [Calls -> Nat]
    BY <1>1, Zenon DEF RestTypes
  <2>3. AnswerInv(l)' BY <1>1, <1>2, <1>4, <1>5, <1>8, <2>1, <2>2, ReaderAnswers, Zenon
  <2>4. EndInv(l)' BY <1>1, <1>2, <1>3, <1>5, <1>9, <2>1, <2>2, ReaderEnds, Zenon
  <2> QED BY <2>3, <2>4, Zenon
<1>18. RelayCore' BY <1>4, <1>10, <1>11, <1>12, <1>13, <1>15, <1>16, <1>17, Zenon DEF RelayCore
<1> QED BY <1>2, <1>5, <1>9, <1>18, Zenon

\* Every step of a timer or its goroutine does.
LEMMA TimerCore ==
    ASSUME RelayCore, NEW s \in Sides, NEW k \in Calls, TimerStep(s, k)
    PROVE  /\ RelayCore' /\ job' = job /\ OthersLive(s, k) /\ OthersFire(s, k)
           /\ TimerTakes(s, k) \/ TimerSettles(s, k) \/ TimerQuiet(s, k)
<1>1. /\ job \in [Sides -> Jobs] /\ ItemTypes /\ FireType /\ RestTypes /\ TimerSafe /\ AllItems /\ StartInv
      /\ (\A t \in Sides, l \in Calls : OpenInv(t, l))
  BY Zenon DEF RelayCore
<1>2. TimerTouches(s, k) /\ UNCHANGED <<job, envVars>> BY <1>1, TimerStepTouches, Zenon
<1>3. client' = client /\ server' = server /\ connActive' = connActive /\ job' = job
  BY <1>2, Zenon DEF envVars
<1>4. ItemTypes' /\ FireType' /\ Forward /\ Late /\ AllItems' /\ TimerSafe' BY <1>1, <1>2, TimerItems, Zenon
<1>5. /\ OthersLive(s, k) /\ OthersFire(s, k) /\ FiresAfter(s, k) /\ Answers(s, k)
      /\ TimerTakes(s, k) \/ TimerSettles(s, k) \/ TimerQuiet(s, k)
      /\ sendCh' = sendCh \/ SendSystemError(k)
  BY <1>1, TimerWays, Zenon
<1>6. QueueType BY <1>1, Zenon DEF RestTypes, QueueType, Frames
<1>7. QueueType' /\ sendCh'["dst"] = sendCh["dst"] BY <1>5, <1>6, ErrorQueued, Zenon DEF QueueType
<1>8. pending' \in [Sides -> Int] /\ ends' \in [Calls -> Nat]
  <2>1. CASE TimerSettles(s, k)
    <3>1. Dec(s) /\ (End(k) \/ ends' = ends) BY <2>1, Zenon DEF TimerSettles
    <3> QED BY <1>1, <3>1, DecType, EndType, Zenon DEF RestTypes
  <2>2. CASE pending' = pending /\ ends' = ends BY <1>1, <2>2, Zenon DEF RestTypes
  <2> QED BY <1>5, <2>1, <2>2, Zenon DEF TimerTakes, TimerQuiet
<1>9. answers' \in [Calls -> SUBSET {"response", "timeout"}]
  <2>1. answers \in [Calls -> SUBSET {"response", "timeout"}] BY <1>1, Zenon DEF RestTypes
  <2>2. CASE answers' = answers BY <2>1, <2>2, Zenon
  <2>3. CASE answers' = [answers EXCEPT ![k] = @ \cup {"timeout"}] BY <2>1, <2>3, Zenon
  <2> QED BY <1>5, <2>2, <2>3, Zenon DEF Answers
<1>10. RestTypes' BY <1>1, <1>3, <1>7, <1>8, <1>9, Zenon DEF RestTypes, QueueType, Frames
<1>11. ASSUME NEW p \in Sides PROVE JobInv(p)' BY <1>1, <1>3, <1>4, OtherJob, Zenon DEF RelayCore
<1>12. SrcAside BY <1>3, Zenon DEF SrcAside
<1>13. ASSUME NEW t \in Sides, NEW l \in Calls PROVE OpenInv(t, l)'
  BY <1>1, <1>3, <1>4, <1>12, OpenKept, Zenon
<1>14. StartInv'
  <2>1. \A l \in Calls : StartOrder(l)' BY <1>1, <1>4, OrderKept, Zenon DEF StartInv
  <2>2. Opened' BY <1>1, <1>3, <1>4, <1>12, OpenedKept, Zenon DEF StartInv
  <2>3. SentStarted' BY <1>1, <1>3, <1>4, <1>6, <1>7, SentKept, Zenon DEF StartInv
  <2>4. JobsStarted'
    <3>1. job["src"].call \in Calls /\ job["dst"].call \in Calls BY <1>1, Zenon DEF Jobs, Sides
    <3>2. \A l \in Calls : Started(l) => Started(l)' BY <1>4, StartedKept, Zenon
    <3> QED BY <1>1, <1>3, <3>1, <3>2, Zenon DEF StartInv, JobsStarted, Started
  <2> QED BY <2>1, <2>2, <2>3, <2>4, Zenon DEF StartInv
<1>15. ASSUME NEW l \in Calls PROVE AnswerInv(l)' /\ EndInv(l)'
  <2>1. AnswerInv(l) /\ EndInv(l) BY Zenon DEF RelayCore
  <2>2. answers \in [Calls -> SUBSET {"response", "timeout"}] /\ ends \in [Calls -> Nat]
    BY <1>1, Zenon DEF RestTypes
  <2>3. AnswerInv(l)' BY <1>3, <1>4, <1>5, <2>1, <2>2, TimerAnswers, Zenon
  <2>4. EndInv(l)' BY <1>3, <1>5, <2>1, <2>2, TimerEnds, Zenon
  <2> QED BY <2>3, <2>4, Zenon
<1>16. RelayCore' BY <1>1, <1>3, <1>4, <1>10, <1>11, <1>13, <1>14, <1>15, Zenon DEF RelayCore
<1> QED BY <1>3, <1>5, <1>16, Zenon

-----------------------------------------------------------------------------
(* handleCallReq, the frames that arrive, the writers and the closing connections *)

\* A step of handleCallReq or of a frame that arrives at the source
SrcStep ==
    /\ job' \in [Sides -> Jobs] /\ job'["dst"] = job["dst"]
    /\ job["src"].step \notin ReaderSteps /\ job'["src"].step \notin ReaderSteps \ {"get", "failGet"}
    /\ job'["src"].type \in Requests
\* The reader stays with its call and goes to step l.
SrcGoes(l) ==
    /\ job'["src"].step = l /\ job'["src"].call = job["src"].call
    /\ job'["src"].at = job["src"].at /\ job'["src"].left = job["src"].left
\* It takes up a frame of call k.
SrcReads(k, l) ==
    job'["src"].step = l /\ job'["src"].call = k /\ job'["src"].at = "own" /\ job'["src"].left = 0

\* handleCallReq goes on with the same call.
LEMMA SrcGoto ==
    ASSUME job \in [Sides -> Jobs], JobInv("src"), job["src"].step \notin ReaderSteps, NEW l \in Handling, Goto("src", l)
    PROVE  SrcStep /\ SrcGoes(l)
<1>1. "src" \in Sides /\ job["src"] \in Jobs /\ job["src"].type \in Requests BY Zenon DEF Sides, JobInv
<1>2. l \in Steps /\ l \notin ReaderSteps BY Zenon DEF Handling, Steps, ReaderSteps, Opening
<1>3. job'["src"] = [job["src"] EXCEPT !.step = l] /\ job' = [job EXCEPT !["src"] = [job["src"] EXCEPT !.step = l]]
  BY <1>1, Zenon DEF Goto
<1>4. job'["src"] \in Jobs BY <1>1, <1>2, <1>3, Zenon DEF Jobs
<1>5. job' \in [Sides -> Jobs] /\ job'["dst"] = job["dst"] BY <1>1, <1>3, <1>4, Zenon DEF Sides
<1>6. SrcGoes(l) /\ job'["src"].type = job["src"].type BY <1>1, <1>3, Zenon DEF SrcGoes, Jobs
<1>7. job'["src"].step = l BY <1>6, Zenon DEF SrcGoes
<1> QED BY <1>1, <1>2, <1>5, <1>6, <1>7, Zenon DEF SrcStep

\* handleCallReq returns.
LEMMA SrcIdles ==
    ASSUME job \in [Sides -> Jobs], job["src"].step \notin ReaderSteps, job' = [job EXCEPT !["src"] = Idle]
    PROVE  SrcStep /\ job'["src"] = Idle
<1>1. job'["src"] = Idle /\ job'["dst"] = job["dst"] /\ job' \in [Sides -> Jobs] BY IdleJob, Zenon DEF Sides
<1>2. "idle" \notin ReaderSteps /\ "callReq" \in Requests BY Zenon DEF ReaderSteps, Requests
<1> QED BY <1>1, <1>2, IdleJob, Zenon DEF SrcStep

\* The fields of a job that has just been read
Read(k, type, more, l) == [Idle EXCEPT !.call = k, !.type = type, !.more = more, !.step = l]

\* The fields of a job that has just been read.
LEMMA ReadJob ==
    ASSUME NEW k \in Calls, NEW l \in Steps, NEW type \in Requests \cup Responses, NEW more \in BOOLEAN
    PROVE  /\ Read(k, type, more, l) \in Jobs /\ Read(k, type, more, l).step = l /\ Read(k, type, more, l).call = k
           /\ Read(k, type, more, l).type = type /\ Read(k, type, more, l).at = "own" /\ Read(k, type, more, l).left = 0
<1> DEFINE j == Read(k, type, more, l)
<1>1. ASSUME NEW S, NEW A, NEW C, NEW T, NEW N, NEW d \in [step : S, at : A, call : C, type : T, more : BOOLEAN, left : N],
             l \in S, k \in C, type \in T
      PROVE  LET e == [d EXCEPT !.call = k, !.type = type, !.more = more, !.step = l] IN
             /\ e \in [step : S, at : A, call : C, type : T, more : BOOLEAN, left : N]
             /\ e.step = l /\ e.call = k /\ e.type = type /\ e.at = d.at /\ e.left = d.left
  <2> DEFINE e == [d EXCEPT !.call = k, !.type = type, !.more = more, !.step = l]
  <2>1. e \in [step : S, at : A, call : C, type : T, more : BOOLEAN, left : N] BY <1>1, Zenon
  <2>2. e.step = l /\ e.call = k /\ e.type = type /\ e.at = d.at /\ e.left = d.left OBVIOUS
  <2> QED BY <2>1, <2>2, Zenon
<1>2. Idle \in [step : Steps, at : {"own", "recv"}, call : Calls, type : Requests \cup Responses,
                 more : BOOLEAN, left : Nat]
  BY IdleJob, Zenon DEF Jobs
<1>3. /\ j \in [step : Steps, at : {"own", "recv"}, call : Calls, type : Requests \cup Responses,
                 more : BOOLEAN, left : Nat]
      /\ j.step = l /\ j.call = k /\ j.type = type /\ j.at = Idle.at /\ j.left = Idle.left
  BY <1>1, <1>2, Zenon DEF Read
<1> QED BY <1>3, IdleJob, Zenon DEF Jobs

\* An idle reader takes up a frame.
LEMMA SrcFrame ==
    ASSUME job \in [Sides -> Jobs], job["src"] = Idle, NEW k \in Calls, NEW l \in {"admit", "get", "undoDuplicate"},
           NEW type \in Requests, NEW more \in BOOLEAN,
           job' = [job EXCEPT !["src"] = Read(k, type, more, l)]
    PROVE  SrcStep /\ SrcReads(k, l)
<1>1. job'["src"] = Read(k, type, more, l) /\ job'["dst"] = job["dst"] BY Zenon DEF Sides
<1>2. l \in Steps /\ type \in Requests \cup Responses BY Zenon DEF Steps, Opening
<1>3. /\ job'["src"] \in Jobs /\ job'["src"].step = l /\ job'["src"].call = k /\ job'["src"].type = type
      /\ job'["src"].at = "own" /\ job'["src"].left = 0
  BY <1>1, <1>2, ReadJob
<1>6. l \notin ReaderSteps \ {"get", "failGet"} /\ "idle" \notin ReaderSteps BY Zenon DEF ReaderSteps
<1>7. job' \in [Sides -> Jobs] BY <1>2, ReadJob, Zenon
<1> QED BY <1>1, <1>3, <1>6, <1>7, IdleJob, Zenon DEF SrcStep, SrcReads

\* Nothing happens to the items: all that is said of them stays.
LEMMA KeptItems ==
    ASSUME ItemTypes, FireType, AllItems, TimerSafe, Kept
    PROVE  ItemTypes' /\ FireType' /\ Forward /\ Late /\ AllItems' /\ TimerSafe'
<1>1. items' = items /\ timer' = timer /\ gc' = gc /\ panicked' = panicked /\ fire' = fire
  BY Zenon DEF Kept, itemVars, timerVars
<1>2. Forward /\ Late BY <1>1, Zenon DEF Forward, Late
<1>3. ASSUME NEW t \in Sides, NEW l \in Calls PROVE ItemInv(t, l)' BY <1>1, Zenon DEF ItemInv, AllItems
<1> QED BY <1>1, <1>2, <1>3, Zenon DEF ItemTypes, FireType, AllItems, TimerSafe

\* A step of handleCallReq leaves what the readers know of their items.
LEMMA SrcJobs ==
    ASSUME job \in [Sides -> Jobs], \A p \in Sides : JobInv(p), Forward, SrcStep
    PROVE  \A p \in Sides : JobInv(p)'
<1>1. "src" \in Sides /\ "dst" \in Sides BY Zenon DEF Sides
<1>2. JobInv("src")' BY <1>1, FreshJob, Zenon DEF SrcStep
<1>3. JobInv("dst")' BY <1>1, OtherJob, Zenon DEF SrcStep
<1> QED BY <1>2, <1>3, Zenon DEF Sides

\* A step of handleCallReq decides no race between response and timeout.
LEMMA SrcAnswers ==
    ASSUME Forward, SrcStep, fire' = fire, answers' = answers, NEW k \in Calls, AnswerInv(k)
    PROVE  AnswerInv(k)'
<1>1. Won(k)' => Won(k) BY Zenon DEF Won, SrcStep, finishesCall
<1>2. Fired(k)' => Fired(k) BY Zenon DEF Fired
<1> QED BY <1>1, <1>2, AnswerKept, Zenon

\* Who has the duty to call End, but for the readers and the timers
Duty(k) ==
    ends[k] + One(items["src"][k] = "live") + One(Opens(k)) - One(client[k] \notin {"start", "local"})

\* A step of handleCallReq leaves the duty to call End, or hands it to the item.
LEMMA SrcEnds ==
    ASSUME SrcStep, fire' = fire, NEW k \in Calls, ends[k] \in Int, ends'[k] \in Int, EndInv(k), Duty(k)' = Duty(k)
    PROVE  EndInv(k)'
<1>1. ~EndsNext("src", k) /\ ~EndsNext("src", k)'
  BY Zenon DEF EndsNext, Settles, SrcStep, ReaderSteps
<1>2. EndsNext("dst", k)' <=> EndsNext("dst", k) BY Zenon DEF EndsNext, Settles, SideOf, SrcStep
<1>3. One(EndsNext("src", k)') = One(EndsNext("src", k)) /\ One(EndsNext("dst", k)') = One(EndsNext("dst", k))
  BY <1>1, <1>2, Zenon DEF One
<1>4. ends'[k] + One(items'["src"][k] = "live") + One(Opens(k)') - One(client'[k] \notin {"start", "local"})
      = ends[k] + One(items["src"][k] = "live") + One(Opens(k)) - One(client[k] \notin {"start", "local"})
  BY Zenon DEF Duty, One
<1>5. /\ ends'[k] + One(items'["src"][k] = "live") + One(fire'["src"][k] = "settle") + One(Opens(k)')
         + One(EndsNext("src", k)') + One(EndsNext("dst", k)') = One(client'[k] \notin {"start", "local"})
  <2>1. \A b : One(b) \in Int BY DEF One
  <2>2. ends[k] + One(items["src"][k] = "live") + One(fire["src"][k] = "settle") + One(Opens(k))
          + One(EndsNext("src", k)) + One(EndsNext("dst", k)) = One(client[k] \notin {"start", "local"})
    BY EndTokens, Zenon
  <2>3. One(fire'["src"][k] = "settle") = One(fire["src"][k] = "settle") OBVIOUS
  <2> QED BY <1>3, <1>4, <2>1, <2>2, <2>3
<1> QED BY <1>5, Zenon DEF EndInv, EndsNext, One

\* What the steps of handleCallReq rest on
CallState ==
    /\ job \in [Sides -> Jobs] /\ ItemTypes /\ RestTypes /\ AllItems /\ StartInv
    /\ (\A t \in Sides, l \in Calls : OpenInv(t, l)) /\ (\A p \in Sides : JobInv(p))
CallStep ==
    /\ SrcStep /\ (\A t \in Sides, l \in Calls : OpenInv(t, l)')
    /\ (\A l \in Calls : StartOrder(l)') /\ JobsStarted' /\ Opened'
    /\ \A l \in Calls : ends'[l] \in Nat /\ Duty(l)' = Duty(l)

\* Before the items of the call
Early == {"admit", "destination", "admitRemote", "addRemote", "undo"}
EarlyMove ==
    /\ job["src"].step \in Early
    /\ SrcStep /\ (job'["src"] = Idle \/ \E l \in Early : SrcGoes(l))

\* Before the items are added handleCallReq goes on, or gives up and calls End.
LEMMA EarlyMoves ==
    ASSUME CallState, undo \/ getDestination \/ \E s \in Sides : canHandleNewCall(s)
    PROVE  /\ EarlyMove
           /\ IF job'["src"] = Idle THEN End(job["src"].call) ELSE ends' = ends
<1>1. job \in [Sides -> Jobs] /\ JobInv("src") /\ "idle" \notin Early BY Zenon DEF CallState, Sides, Early
<1>2. ASSUME job["src"].step \in Early PROVE job["src"].step \notin ReaderSteps
  BY <1>2, Zenon DEF Early, ReaderSteps
<1>3. ASSUME NEW l \in Early, job["src"].step \in Early, Goto("src", l), ends' = ends
      PROVE  EarlyMove /\ IF job'["src"] = Idle THEN End(job["src"].call) ELSE ends' = ends
  <2>1. l \in Handling BY Zenon DEF Early, Handling, Opening
  <2>2. SrcStep /\ SrcGoes(l) BY <1>1, <1>2, <1>3, <2>1, SrcGoto, Zenon
  <2>3. job'["src"] # Idle BY <1>1, <2>2, IdleJob, Zenon DEF SrcGoes
  <2> QED BY <1>3, <2>2, <2>3, Zenon DEF EarlyMove
<1>4. ASSUME job["src"].step \in Early, job' = [job EXCEPT !["src"] = Idle], End(job["src"].call)
      PROVE  EarlyMove /\ IF job'["src"] = Idle THEN End(job["src"].call) ELSE ends' = ends
  <2>1. SrcStep /\ job'["src"] = Idle BY <1>1, <1>2, <1>4, SrcIdles, Zenon
  <2> QED BY <1>4, <2>1, Zenon DEF EarlyMove
<1>5. {"undo", "destination", "admitRemote", "addRemote", "admit"} \subseteq Early BY Zenon DEF Early
<1>6. CASE undo
  <2>1. job["src"].step = "undo" /\ End(job["src"].call) /\ job' = [job EXCEPT !["src"] = Idle]
    BY <1>6, Zenon DEF undo
  <2> QED BY <1>4, <1>5, <2>1, Zenon
<1>7. CASE getDestination
  <2>1. job["src"].step = "destination" /\ ends' = ends /\ (Goto("src", "admitRemote") \/ Goto("src", "undo"))
    BY <1>7, Zenon DEF getDestination
  <2> QED BY <1>3, <1>5, <2>1, Zenon
<1>8. ASSUME NEW s \in Sides, canHandleNewCall(s)
      PROVE  EarlyMove /\ IF job'["src"] = Idle THEN End(job["src"].call) ELSE ends' = ends
  <2>1. job["src"].step \in Early BY <1>5, <1>8, Zenon DEF canHandleNewCall
  <2>2. \/ ends' = ends /\ Goto("src", IF s = "src" THEN "destination" ELSE "addRemote")
        \/ End(job["src"].call) /\ job' = [job EXCEPT !["src"] = Idle]
        \/ Goto("src", "undo") /\ ends' = ends
    BY <1>8, Zenon DEF canHandleNewCall
  <2>3. (IF s = "src" THEN "destination" ELSE "addRemote") \in Early BY <1>5, Zenon
  <2> QED BY <1>3, <1>4, <1>5, <2>1, <2>2, <2>3, Zenon
<1> QED BY <1>6, <1>7, <1>8, Zenon

\* Those steps keep the invariant of handleCallReq.
LEMMA EarlySteps ==
    ASSUME CallState, Forward, Late, EarlyMove, timer' = timer, items' = items, client' = client,
           IF job'["src"] = Idle THEN End(job["src"].call) ELSE ends' = ends
    PROVE  CallStep
<1>1. job["src"].call \in Calls /\ job["src"].left \in Nat BY Zenon DEF CallState, Jobs, Sides
<1>2. \/ job'["src"] = Idle
      \/ /\ job'["src"].step \in Early /\ job'["src"].call = job["src"].call
         /\ job'["src"].at = job["src"].at /\ job'["src"].left = job["src"].left
  BY Zenon DEF EarlyMove, SrcGoes
<1>3. Early \subseteq Opening /\ "idle" \notin Opening /\ "addOwn" \notin Early /\ "modify" \notin Early /\ "startOwn" \notin Opening
  BY Zenon DEF Early, Opening
<1>4. ASSUME NEW t \in Sides, NEW l \in Calls PROVE OpenInv(t, l)'
  <2>1. OpenInv(t, l) BY Zenon DEF CallState
  <2>2. job["src"].step \in BeforeItem(t) /\ StartStep(t) \notin Early \cup {"idle"} /\ "idle" \notin BeforeItem(t)
    BY Zenon DEF EarlyMove, Early, BeforeItem, Opening, StartStep
  <2>3. job'["src"].step \in Early \cup {"idle"} BY <1>2, IdleJob, Zenon
  <2>4. timer[t][l] # "new" BY <2>1, <2>2, Zenon DEF OpenInv, EarlyMove
  <2>5. (job["src"].step \in BeforeItem(t) /\ job["src"].call = l)' => timer[t][l] = "none"
    BY <1>2, <2>1, <2>2, IdleJob, Zenon DEF OpenInv, BeforeItem
  <2>6. (client[l] \in {"start", "local"})' => timer[t][l] = "none" BY <2>1, Zenon DEF OpenInv
  <2>7. ~(job["src"].step = StartStep(t))' BY <2>2, <2>3, Zenon DEF StartStep
  <2> QED BY <2>4, <2>5, <2>6, <2>7, Zenon DEF OpenInv
<1>5. \A l \in Calls : StartOrder(l)' BY OrderKept, Zenon DEF CallState, StartInv
<1>6. JobsStarted'
  <2>1. JobsStarted /\ job'["dst"] = job["dst"] BY Zenon DEF CallState, StartInv, EarlyMove, SrcStep
  <2>2. (job["dst"].step # "idle" => Started(job["dst"].call))' BY <2>1, Zenon DEF JobsStarted, Started
  <2>3. (job["src"].step = "modify" \/ job["src"].at = "recv" \/ job["src"].left > 0 => Started(job["src"].call))'
    <3>1. CASE job'["src"] = Idle BY <3>1, IdleJob
    <3>2. CASE job'["src"] # Idle BY <1>2, <1>3, <2>1, <3>2 DEF JobsStarted, Started
    <3> QED BY <3>1, <3>2, Zenon
  <2> QED BY <2>2, <2>3, Zenon DEF JobsStarted
<1>7. Opened'
  <2>1. Opened BY Zenon DEF CallState, StartInv
  <2>2. client[job["src"].call] \in {"cont", "done"} BY <1>3, <2>1, Zenon DEF Opened, EarlyMove
  <2>3. job'["src"].step # "addOwn" BY <1>2, <1>3, IdleJob, Zenon DEF Opening
  <2>4. job'["src"].step \in Opening \cup {"startOwn"} => job'["src"].call = job["src"].call
    BY <1>2, <1>3, IdleJob
  <2> QED BY <2>2, <2>3, <2>4, Zenon DEF Opened
<1>8. ASSUME NEW l \in Calls PROVE ends'[l] \in Nat /\ Duty(l)' = Duty(l)
  <2>1. ends \in [Calls -> Nat] BY Zenon DEF CallState, RestTypes
  <2>2. Opens(l) <=> l = job["src"].call BY <1>3, Zenon DEF Opens, EarlyMove
  <2>3. CASE job'["src"] = Idle
    <3>1. ~Opens(l)' BY <1>3, <2>3, IdleJob DEF Opens
    <3>2. ends'[l] = ends[l] + One(Opens(l)) BY <1>1, <2>1, <2>2, <2>3 DEF End, One
    <3> QED BY <2>1, <3>1, <3>2 DEF Duty, One
  <2>4. CASE job'["src"] # Idle
    <3>1. Opens(l)' <=> Opens(l) BY <1>2, <1>3, <2>2, <2>4, Zenon DEF Opens
    <3> QED BY <2>1, <2>4, <3>1, Zenon DEF Duty, One
  <2> QED BY <2>3, <2>4, Zenon
<1> QED BY <1>4, <1>5, <1>6, <1>7, <1>8, Zenon DEF CallStep, EarlyMove

\* addRelayItem: in each of its steps one timer moves on, and the reader with it.
AddMove(s, from, to, t, u) ==
    LET k == job["src"].call IN
    /\ job["src"].step = from /\ SrcStep /\ SrcGoes(to) /\ Only(s, k)
    /\ timer[s][k] = t /\ timer'[s][k] = u
    /\ items[s][k] = "live" <=> t = "new"
    /\ items'[s][k] = "live"

\* The four steps in which the two items are added and their timers started.
LEMMA AddMoves ==
    ASSUME CallState, TimerSafe, NEW s \in Sides, addRelayItem(s)
    PROVE  \/ s = "dst" /\ AddMove(s, "addRemote", "startRemote", "none", "new")
           \/ s = "dst" /\ AddMove(s, "startRemote", "addOwn", "new", "active")
           \/ s = "src" /\ AddMove(s, "addOwn", "startOwn", "none", "new")
           \/ s = "src" /\ AddMove(s, "startOwn", "modify", "new", "active")
<1> DEFINE k == job["src"].call
<1>1. job \in [Sides -> Jobs] /\ JobInv("src") /\ k \in Calls BY Zenon DEF CallState, Sides, Jobs
<1>2. ASSUME job["src"].step \in {"addRemote", "addOwn", "startRemote", "startOwn"},
             NEW l \in {"startRemote", "addOwn", "startOwn", "modify"}, Goto("src", l)
      PROVE  SrcStep /\ SrcGoes(l)
  <2>1. job["src"].step \notin ReaderSteps /\ l \in Handling
    BY <1>2, Zenon DEF ReaderSteps, Handling, Opening
  <2> QED BY <1>1, <1>2, <2>1, SrcGoto, Zenon
<1>3. /\ Only(s, k)
      /\ \/ /\ timer[s][k] = "none" /\ items[s][k] = "none" /\ fire[s][k] = "off"
            /\ timer'[s][k] = "new" /\ items'[s][k] = "live"
         \/ timer[s][k] = "new" /\ timer'[s][k] = "active" /\ items' = items
  BY <1>1, AddItems, Zenon DEF CallState
<1>4. OpenInv(s, k) /\ ItemInv(s, k) BY <1>1, Zenon DEF CallState, AllItems
<1>5. \/ /\ job["src"].step = (IF s = "dst" THEN "addRemote" ELSE "addOwn")
         /\ Goto("src", IF s = "dst" THEN "startRemote" ELSE "startOwn")
      \/ /\ job["src"].step = (IF s = "dst" THEN "startRemote" ELSE "startOwn")
         /\ IF s = "dst" THEN Goto("src", "addOwn") ELSE Goto("src", "modify")
  BY Zenon DEF addRelayItem
<1>6. timer[s][k] = "new" => job["src"].step = StartStep(s) BY <1>4, Zenon DEF OpenInv
<1>7. timer[s][k] = "none" => job["src"].step # StartStep(s) BY <1>4 DEF OpenInv
<1>8. timer[s][k] = "new" => items[s][k] = "live"
  <2>1. items[s][k] \in {"none", "live", "tomb"} BY <1>1, Zenon DEF CallState, ItemTypes
  <2> QED BY <1>4, <2>1, Zenon DEF ItemInv
<1>9. CASE s = "dst"
  <2>1. CASE job["src"].step = "addRemote"
    <3>1. SrcStep /\ SrcGoes("startRemote") BY <1>2, <1>5, <1>9, <2>1
    <3>2. timer[s][k] = "none" /\ items[s][k] = "none" /\ timer'[s][k] = "new" /\ items'[s][k] = "live"
      BY <1>3, <1>6, <1>9, <2>1, Zenon DEF StartStep
    <3> QED BY <1>3, <1>9, <2>1, <3>1, <3>2, Zenon DEF AddMove
  <2>2. CASE job["src"].step = "startRemote"
    <3>1. SrcStep /\ SrcGoes("addOwn") BY <1>2, <1>5, <1>9, <2>2, Zenon
    <3>2. timer[s][k] = "new" /\ timer'[s][k] = "active" /\ items' = items
      BY <1>3, <1>7, <1>9, <2>2 DEF StartStep
    <3> QED BY <1>3, <1>8, <1>9, <2>2, <3>1, <3>2, Zenon DEF AddMove
  <2> QED BY <1>5, <1>9, <2>1, <2>2, Zenon
<1>10. CASE s = "src"
  <2>1. CASE job["src"].step = "addOwn"
    <3>1. SrcStep /\ SrcGoes("startOwn") BY <1>2, <1>5, <1>10, <2>1, Zenon
    <3>2. timer[s][k] = "none" /\ items[s][k] = "none" /\ timer'[s][k] = "new" /\ items'[s][k] = "live"
      BY <1>3, <1>6, <1>10, <2>1 DEF StartStep
    <3> QED BY <1>3, <1>10, <2>1, <3>1, <3>2 DEF AddMove
  <2>2. CASE job["src"].step = "startOwn"
    <3>1. SrcStep /\ SrcGoes("modify") BY <1>2, <1>5, <1>10, <2>2, Zenon
    <3>2. timer[s][k] = "new" /\ timer'[s][k] = "active" /\ items' = items
      BY <1>3, <1>7, <1>10, <2>2 DEF StartStep
    <3> QED BY <1>3, <1>8, <1>10, <2>2, <3>1, <3>2 DEF AddMove
  <2> QED BY <1>5, <1>10, <2>1, <2>2
<1> QED BY <1>9, <1>10 DEF Sides

\* They keep the invariant of handleCallReq, which hands its duty to call End to the own item.
LEMMA AddSteps ==
    ASSUME CallState, Forward, client' = client, ends' = ends, NEW s \in Sides,
           \/ s = "dst" /\ AddMove(s, "addRemote", "startRemote", "none", "new")
           \/ s = "dst" /\ AddMove(s, "startRemote", "addOwn", "new", "active")
           \/ s = "src" /\ AddMove(s, "addOwn", "startOwn", "none", "new")
           \/ s = "src" /\ AddMove(s, "startOwn", "modify", "new", "active")
    PROVE  CallStep
<1> DEFINE k == job["src"].call  from == job["src"].step  to == job'["src"].step
<1>1. k \in Calls BY Zenon DEF CallState, Jobs, Sides
<1>2. /\ SrcStep /\ Only(s, k) /\ job'["src"].call = k
      /\ job'["src"].at = job["src"].at /\ job'["src"].left = job["src"].left
  BY Zenon DEF AddMove, SrcGoes
<1>3. \/ s = "dst" /\ from = "addRemote" /\ to = "startRemote" /\ timer[s][k] = "none" /\ timer'[s][k] = "new"
      \/ s = "dst" /\ from = "startRemote" /\ to = "addOwn" /\ timer[s][k] = "new" /\ timer'[s][k] = "active"
      \/ s = "src" /\ from = "addOwn" /\ to = "startOwn" /\ timer[s][k] = "none" /\ timer'[s][k] = "new"
      \/ s = "src" /\ from = "startOwn" /\ to = "modify" /\ timer[s][k] = "new" /\ timer'[s][k] = "active"
  BY Zenon DEF AddMove, SrcGoes
<1>4. Opened /\ (\A l \in Calls : StartOrder(l)) /\ JobsStarted BY Zenon DEF CallState, StartInv
<1>5. client[k] \in {"cont", "done"} BY <1>3, <1>4 DEF Opened, Opening
<1>6. ASSUME NEW t \in Sides, NEW l \in Calls PROVE OpenInv(t, l)'
  <2>1. OpenInv(t, l) BY Zenon DEF CallState
  <2>2. CASE l # k
    <3>1. timer'[t][l] = timer[t][l] BY <1>2, <2>2, Zenon DEF Only
    <3>2. timer'[t][l] # "new" BY <2>1, <2>2, <3>1, Zenon DEF OpenInv
    <3>3. (client[l] \in {"start", "local"})' => timer'[t][l] = "none" BY <2>1, <3>1 DEF OpenInv
    <3> QED BY <1>2, <2>2, <3>2, <3>3, Zenon DEF OpenInv
  <2>3. CASE l = k /\ t = s
    <3>1. timer'[t][l] = "new" <=> to = StartStep(t) BY <1>3, <2>3 DEF StartStep
    <3>2. to \notin BeforeItem(t) BY <1>3, <2>3, Zenon DEF BeforeItem, Opening
    <3>3. ~(job["src"].step \in BeforeItem(t))' BY <3>2, Zenon DEF BeforeItem
    <3>4. (timer[t][l] = "new" <=> job["src"].step = StartStep(t))' BY <3>1, Zenon DEF StartStep
    <3> QED BY <1>2, <1>5, <2>3, <3>3, <3>4 DEF OpenInv
  <2>4. CASE l = k /\ t # s
    <3>1. timer'[t][l] = timer[t][l] BY <1>1, <1>2, <2>4, Zenon DEF Only
    <3>2. to # StartStep(t) /\ from # StartStep(t) /\ (to \in BeforeItem(t) => from \in BeforeItem(t))
      BY <1>3, <2>4 DEF StartStep, BeforeItem, Opening, Sides
    <3>3. timer'[t][l] # "new" BY <2>1, <3>1, <3>2, Zenon DEF OpenInv
    <3>4. to \in BeforeItem(t) => timer'[t][l] = "none" BY <2>1, <2>4, <3>1, <3>2 DEF OpenInv
    <3>5. (job["src"].step \in BeforeItem(t))' => timer'[t][l] = "none" BY <3>4 DEF BeforeItem
    <3>6. ~(job["src"].step = StartStep(t))' BY <3>2 DEF StartStep
    <3> QED BY <1>2, <1>5, <2>4, <3>3, <3>5, <3>6, Zenon DEF OpenInv
  <2> QED BY <2>2, <2>3, <2>4, Zenon
<1>7. ASSUME NEW l \in Calls PROVE StartOrder(l)'
  <2>1. "src" \in Sides /\ "dst" \in Sides BY Zenon DEF Sides
  <2>2. CASE l # k \/ s # "src"
    <3>1. timer'["src"][l] = timer["src"][l] BY <1>2, <2>1, <2>2, Zenon DEF Only
    <3> QED BY <1>4, <2>1, <3>1, Zenon DEF StartOrder, Forward
  <2>3. CASE l = k /\ s = "src"
    <3>1. timer["dst"][l] \notin {"none", "new"} BY <1>3, <1>4, <2>3, Zenon DEF Opened, StartOrder
    <3> QED BY <2>1, <3>1 DEF StartOrder, Forward
  <2> QED BY <2>2, <2>3
<1>8. JobsStarted'
  <2>1. job'["dst"] = job["dst"] /\ job["dst"].call \in Calls
    BY <1>2, Zenon DEF SrcStep, CallState, Jobs, Sides
  <2>2. \A l \in Calls : Started(l) => Started(l)' BY StartedKept, Zenon
  <2>3. (job["dst"].step # "idle" => Started(job["dst"].call))' BY <1>4, <2>1, <2>2 DEF JobsStarted, Started
  <2>4. to = "modify" => Started(k)' BY <1>2, <1>3 DEF Started
  <2>5. (job["src"].step = "modify" \/ job["src"].at = "recv" \/ job["src"].left > 0 => Started(job["src"].call))'
    BY <1>1, <1>2, <1>4, <2>2, <2>4, Zenon DEF JobsStarted, Started
  <2> QED BY <2>3, <2>5, Zenon DEF JobsStarted
<1>9. Opened' BY <1>2, <1>3, <1>5, Zenon DEF Opened, Opening
<1>10. ASSUME NEW l \in Calls PROVE ends'[l] \in Nat /\ Duty(l)' = Duty(l)
  <2>1. ends[l] \in Nat /\ "src" \in Sides BY Zenon DEF CallState, RestTypes, Sides
  <2>2. CASE l # k
    <3>1. ~Opens(l) /\ ~Opens(l)' /\ items'["src"][l] = items["src"][l]
      BY <1>2, <2>1, <2>2, Zenon DEF Opens, Only
    <3> QED BY <2>1, <3>1 DEF Duty, One
  <2>3. CASE l = k /\ s = "dst"
    <3>1. Opens(l) /\ Opens(l)' BY <1>2, <1>3, <2>3 DEF Opens, Opening
    <3>2. items'["src"][l] = items["src"][l] BY <1>1, <1>2, <2>1, <2>3, Zenon DEF Only
    <3> QED BY <2>1, <3>1, <3>2 DEF Duty, One
  <2>4. CASE l = k /\ s = "src"
    <3>1. (Opens(l) <=> timer["src"][k] = "none") /\ ~Opens(l)'
      BY <1>2, <1>3, <2>4, Zenon DEF Opens, Opening
    <3>2. (items["src"][l] = "live" <=> timer["src"][k] = "new") /\ items'["src"][l] = "live"
      BY <2>4, Zenon DEF AddMove
    <3>3. (items["src"][l] = "live" <=> ~Opens(l)) BY <1>3, <2>4, <3>1, <3>2
    <3>4. One(items["src"][l] = "live") + One(Opens(l)) = 1 /\ One(items'["src"][l] = "live") + One(Opens(l)') = 1
      BY <3>1, <3>2, <3>3 DEF One
    <3> QED BY <2>1, <3>4 DEF Duty, One
  <2> QED BY <2>2, <2>3, <2>4 DEF Sides
<1> QED BY <1>2, <1>6, <1>7, <1>8, <1>9, <1>10, Zenon DEF CallStep

\* The other steps of the source's reader: it is not before or in addRelayItem.
LEMMA AsideSteps ==
    ASSUME CallState, Forward, Late, SrcStep, SrcAside,
           job["src"].step \notin Opening, job'["src"].step \notin Opening,
           \A l \in Calls : /\ client'[l] \in {"start", "local"} => client[l] \in {"start", "local"}
                            /\ client[l] \in {"cont", "done"} => client'[l] \in {"cont", "done"},
           job'["src"].step = "modify" \/ job'["src"].at = "recv" \/ job'["src"].left > 0 => Started(job'["src"].call),
           items' = items,
           \A l \in Calls : /\ ends'[l] \in Nat
                            /\ ends'[l] - One(client'[l] \notin {"start", "local"})
                                = ends[l] - One(client[l] \notin {"start", "local"})
    PROVE  CallStep
<1>1. ASSUME NEW t \in Sides, NEW l \in Calls PROVE OpenInv(t, l)' BY OpenKept DEF CallState
<1>2. \A l \in Calls : StartOrder(l)' BY OrderKept, Zenon DEF CallState, StartInv
<1>3. Opened' BY OpenedKept, Zenon DEF CallState, StartInv
<1>4. JobsStarted'
  <2>1. job'["dst"] = job["dst"] /\ job["dst"].call \in Calls /\ JobsStarted
    BY Zenon DEF SrcStep, CallState, Jobs, Sides, StartInv
  <2>2. \A l \in Calls : Started(l) => Started(l)' BY StartedKept
  <2>3. (job["dst"].step # "idle" => Started(job["dst"].call))' BY <2>1, <2>2 DEF JobsStarted, Started
  <2>4. job'["src"].call \in Calls BY Zenon DEF SrcStep, Jobs, Sides
  <2>5. (job["src"].step = "modify" \/ job["src"].at = "recv" \/ job["src"].left > 0 => Started(job["src"].call))'
    BY <2>2, <2>4 DEF Started
  <2> QED BY <2>3, <2>5 DEF JobsStarted
<1>5. ASSUME NEW l \in Calls PROVE ends'[l] \in Nat /\ Duty(l)' = Duty(l)
  <2>1. ~Opens(l) /\ ~Opens(l)' BY Zenon DEF Opens
  <2>2. One(Opens(l)) = One(Opens(l)') /\ \A b : One(b) \in Int BY <2>1 DEF One
  <2>3. ends[l] \in Nat BY Zenon DEF CallState, RestTypes
  <2>4. /\ ends'[l] \in Nat
        /\ ends'[l] - One(client'[l] \notin {"start", "local"}) = ends[l] - One(client[l] \notin {"start", "local"})
    OBVIOUS
  <2>5. Duty(l)' = ends'[l] + One(items'["src"][l] = "live") + One(Opens(l)') - One(client'[l] \notin {"start", "local"})
    BY Zenon DEF Duty, One
  <2>6. Duty(l) = ends[l] + One(items["src"][l] = "live") + One(Opens(l)) - One(client[l] \notin {"start", "local"})
    BY Zenon DEF Duty
  <2> QED BY <2>2, <2>3, <2>4, <2>5, <2>6
<1> QED BY <1>1, <1>2, <1>3, <1>4, <1>5, Zenon DEF CallStep

\* Idle readers and the frames they take up
LEMMA IdleSrc ==
    ASSUME CallState, job["src"] = Idle
    PROVE  /\ job["src"].step \notin ReaderSteps \cup Opening \cup {"startOwn"}
           /\ job["src"].step = "idle" /\ ~(job["src"].at = "recv" \/ job["src"].left > 0)
           /\ job' = job => SrcStep
<1>1. "idle" \notin ReaderSteps \cup Opening \cup {"startOwn"} /\ "callReq" \in Requests
  BY Zenon DEF ReaderSteps, Opening, Requests
<1>2. job["src"].step = "idle" /\ job["src"].at = "own" /\ job["src"].left = 0 /\ job["src"].type = "callReq"
  BY IdleJob, Zenon
<1>3. job \in [Sides -> Jobs] BY Zenon DEF CallState
<1> QED BY <1>1, <1>2, <1>3 DEF SrcStep

\* So does a frame that starts no call.
LEMMA FrameSteps ==
    ASSUME CallState, Forward, Late, items' = items, NEW k \in Calls,
           \/ ReadReqContinue(k) \/ DuplicateCallReq(k)
           \/ \E more \in BOOLEAN : handleLocalCallReq(k, more)
           \/ \E drop, protocol \in BOOLEAN : RefuseCall(k, drop, protocol)
    PROVE  CallStep /\ client' \in [Calls -> {"start", "cont", "done", "local"}]
<1>1. job["src"] = Idle
  BY Zenon DEF ReadReqContinue, Reads, DuplicateCallReq, handleLocalCallReq, RefuseCall
<1>2. job \in [Sides -> Jobs] /\ client \in [Calls -> {"start", "cont", "done", "local"}] /\ ends \in [Calls -> Nat]
  BY Zenon DEF CallState, RestTypes
<1>3. CASE ReadReqContinue(k) \/ DuplicateCallReq(k)
  <2>1. /\ client[k] = "cont" /\ client' = [client EXCEPT ![k] = "done"] /\ ends' = ends
        /\ \/ job' = [job EXCEPT !["src"] = Read(k, "callReqContinue", FALSE, "get")]
           \/ job' = [job EXCEPT !["src"] = [Idle EXCEPT !.call = k, !.step = "undoDuplicate"]]
    BY <1>3, Zenon DEF ReadReqContinue, Reads, DuplicateCallReq, Read
  <2>2. [Idle EXCEPT !.call = k, !.step = "undoDuplicate"] = Read(k, "callReq", FALSE, "undoDuplicate")
    <3>1. [Idle EXCEPT !.call = k, !.step = "undoDuplicate"]
          = [Idle EXCEPT !.call = k, !.type = Idle.type, !.more = Idle.more, !.step = "undoDuplicate"]
      BY IdleJob, Zenon DEF Jobs
    <3> QED BY <3>1, IdleJob, Zenon DEF Read
  <2>3. "callReq" \in Requests /\ "callReqContinue" \in Requests /\ FALSE \in BOOLEAN
        /\ "get" \in {"admit", "get", "undoDuplicate"} /\ "undoDuplicate" \in {"admit", "get", "undoDuplicate"}
    BY Zenon DEF Requests
  <2>4. SrcStep /\ (SrcReads(k, "get") \/ SrcReads(k, "undoDuplicate"))
    BY <1>1, <1>2, <2>1, <2>2, <2>3, SrcFrame, Zenon
  <2>5. job'["src"].step \notin Opening \cup {"startOwn"} /\ job'["src"].step # "modify"
        /\ ~(job'["src"].at = "recv") /\ ~(job'["src"].left > 0)
    BY <2>4 DEF SrcReads, Opening
  <2>6. SrcAside BY <1>1, <2>5, IdleSrc, Zenon DEF SrcAside
  <2>7. \A l \in Calls : (client'[l] \in {"start", "local"} <=> client[l] \in {"start", "local"})
                         /\ (client[l] \in {"cont", "done"} => client'[l] \in {"cont", "done"})
    BY <1>2, <2>1, Zenon
  <2>8. \A l \in Calls : /\ ends'[l] \in Nat
                         /\ ends'[l] - One(client'[l] \notin {"start", "local"})
                             = ends[l] - One(client[l] \notin {"start", "local"})
    BY <1>2, <2>1, <2>7, Zenon DEF One
  <2>9. CallStep BY <1>1, <2>4, <2>5, <2>6, <2>7, <2>8, IdleSrc, AsideSteps, Zenon
  <2> QED BY <1>2, <2>1, <2>9, Zenon
<1>4. CASE \E more \in BOOLEAN : handleLocalCallReq(k, more)
  <2>1. client[k] = "start" /\ client' = [client EXCEPT ![k] = "local"] /\ ends' = ends /\ job' = job
    BY <1>4, Zenon DEF handleLocalCallReq
  <2>2. \A l \in Calls : (client'[l] \in {"start", "local"} <=> client[l] \in {"start", "local"})
                         /\ (client[l] \in {"cont", "done"} => client'[l] \in {"cont", "done"})
    BY <1>2, <2>1, Zenon
  <2>3. \A l \in Calls : /\ ends'[l] \in Nat
                         /\ ends'[l] - One(client'[l] \notin {"start", "local"})
                             = ends[l] - One(client[l] \notin {"start", "local"})
    BY <1>2, <2>1, <2>2, Zenon DEF One
  <2>4. CallStep BY <1>1, <2>1, <2>2, <2>3, IdleSrc, AsideSteps, Zenon DEF SrcAside
  <2> QED BY <1>2, <2>1, <2>4, Zenon
<1>5. CASE \E drop, protocol \in BOOLEAN : RefuseCall(k, drop, protocol)
  <2>1. client[k] = "start" /\ client' = [client EXCEPT ![k] = "done"] /\ End(k) /\ job' = job
    BY <1>5, Zenon DEF RefuseCall
  <2>2. \A l \in Calls : (client'[l] \in {"start", "local"} => client[l] \in {"start", "local"})
                         /\ (client[l] \in {"cont", "done"} => client'[l] \in {"cont", "done"})
    BY <1>2, <2>1, Zenon
  <2>3. ASSUME NEW l \in Calls
        PROVE  /\ ends'[l] \in Nat
               /\ ends'[l] - One(client'[l] \notin {"start", "local"}) = ends[l] - One(client[l] \notin {"start", "local"})
    <3>1. CASE l = k BY <1>2, <2>1, <3>1 DEF End, One
    <3>2. CASE l # k BY <1>2, <2>1, <3>2, Zenon DEF End, One
    <3> QED BY <3>1, <3>2, Zenon
  <2>4. CallStep BY <1>1, <2>1, <2>2, <2>3, IdleSrc, AsideSteps, Zenon DEF SrcAside
  <2> QED BY <1>2, <2>1, <2>4, Zenon
<1> QED BY <1>3, <1>4, <1>5, Zenon

\* The call req is refused or forwarded: handleCallReq is over.
LEMMA CallReqSteps ==
    ASSUME CallState, Forward, Late, items' = items, undoDuplicate \/ forwardCallReq
    PROVE  CallStep
<1>1. job \in [Sides -> Jobs] /\ JobInv("src") /\ ends \in [Calls -> Nat] /\ JobsStarted
      /\ job["src"] \in Jobs /\ "src" \in Sides
  BY Zenon DEF CallState, RestTypes, StartInv, Sides
<1>2. ends' = ends /\ client' = client /\ job["src"].step \in {"undoDuplicate", "modify"}
  BY Zenon DEF undoDuplicate, forwardCallReq, envVars
<1>3. \A l \in Calls : /\ ends'[l] \in Nat
                       /\ ends'[l] - One(client'[l] \notin {"start", "local"})
                           = ends[l] - One(client[l] \notin {"start", "local"})
  BY <1>1, <1>2, Zenon
<1>4. job["src"].step \notin ReaderSteps \cup Opening \cup {"startOwn"}
  BY <1>2, Zenon DEF ReaderSteps, Opening
<1>5. ASSUME SrcStep, job'["src"].step \in {"idle", "failGet", "get"},
             job'["src"].at = "recv" \/ job'["src"].left > 0 => Started(job'["src"].call)
      PROVE  CallStep
  <2>1. job'["src"].step \notin Opening \cup {"startOwn", "modify"} BY <1>5, Zenon DEF Opening
  <2>2. SrcAside BY <1>4, <2>1 DEF SrcAside
  <2> QED BY <1>2, <1>3, <1>4, <1>5, <2>1, <2>2, AsideSteps, Zenon
<1>6. CASE undoDuplicate
  <2>1. job' = [job EXCEPT !["src"] = Idle] BY <1>6, Zenon DEF undoDuplicate
  <2>2. SrcStep /\ job'["src"] = Idle BY <1>1, <1>4, <2>1, SrcIdles, Zenon
  <2> QED BY <1>5, <2>2, IdleJob
<1>7. CASE forwardCallReq
  <2>0. job["src"].step = "modify" BY <1>7, Zenon DEF forwardCallReq
  <2>1. Started(job["src"].call) BY <1>1, <2>0, Zenon DEF JobsStarted
  <2>2. job["src"].type \in Requests BY <1>1, Zenon DEF JobInv
  <2>3. "failGet" \in Steps /\ "get" \in Steps BY Zenon DEF Steps
  <2>4. \/ job'["src"] = [job["src"] EXCEPT !.step = "failGet", !.at = "own"]
           /\ job' = [job EXCEPT !["src"] = [job["src"] EXCEPT !.step = "failGet", !.at = "own"]]
        \/ \E n \in 1..MaxFrags :
             /\ job'["src"] = [job["src"] EXCEPT !.step = "get", !.at = "recv", !.left = n - 1]
             /\ job' = [job EXCEPT !["src"] = [job["src"] EXCEPT !.step = "get", !.at = "recv", !.left = n - 1]]
    BY <1>1, <1>7, Zenon DEF forwardCallReq, GotoAt
  <2>5. CASE job'["src"] = [job["src"] EXCEPT !.step = "failGet", !.at = "own"]
             /\ job' = [job EXCEPT !["src"] = [job["src"] EXCEPT !.step = "failGet", !.at = "own"]]
    <3>1. "own" \in {"own", "recv"} OBVIOUS
    <3>2. job'["src"] \in Jobs BY <1>1, <2>3, <2>5, <3>1, Zenon DEF Jobs
    <3>3. job'["src"].step = "failGet" /\ job'["src"].type = job["src"].type /\ job'["src"].call = job["src"].call
      BY <1>1, <2>5, Zenon DEF Jobs
    <3>4. job' \in [Sides -> Jobs] /\ job'["dst"] = job["dst"] BY <1>1, <2>5, <3>2, Zenon DEF Sides
    <3>5. SrcStep BY <1>4, <2>2, <3>3, <3>4, Zenon DEF SrcStep
    <3> QED BY <1>5, <2>1, <3>3, <3>5, Zenon
  <2>6. ASSUME NEW n \in 1..MaxFrags,
               job'["src"] = [job["src"] EXCEPT !.step = "get", !.at = "recv", !.left = n - 1],
               job' = [job EXCEPT !["src"] = [job["src"] EXCEPT !.step = "get", !.at = "recv", !.left = n - 1]]
        PROVE  CallStep
    <3>1. "recv" \in {"own", "recv"} /\ n - 1 \in Nat BY RelayBounds
    <3>2. job'["src"] \in Jobs BY <1>1, <2>3, <2>6, <3>1, Zenon DEF Jobs
    <3>3. job'["src"].step = "get" /\ job'["src"].type = job["src"].type /\ job'["src"].call = job["src"].call
      BY <1>1, <2>6, Zenon DEF Jobs
    <3>4. job' \in [Sides -> Jobs] /\ job'["dst"] = job["dst"] BY <1>1, <2>6, <3>2, Zenon DEF Sides
    <3>5. SrcStep BY <1>4, <2>2, <3>3, <3>4, Zenon DEF SrcStep
    <3> QED BY <1>5, <2>1, <3>3, <3>5, Zenon
  <2> QED BY <2>4, <2>5, <2>6, Zenon
<1> QED BY <1>6, <1>7, Zenon

\* A new call
LEMMA StartSteps ==
    ASSUME CallState, Forward, Late, items' = items, timer' = timer, NEW k \in Calls, NEW more \in BOOLEAN, StartCall(k, more)
    PROVE  CallStep /\ client' \in [Calls -> {"start", "cont", "done", "local"}]
<1>1. /\ job \in [Sides -> Jobs] /\ ends \in [Calls -> Nat] /\ client \in [Calls -> {"start", "cont", "done", "local"}]
      /\ JobsStarted
  BY Zenon DEF CallState, RestTypes, StartInv
<1>2. /\ client[k] = "start" /\ job["src"] = Idle /\ ends' = ends
      /\ client' = [client EXCEPT ![k] = IF more THEN "cont" ELSE "done"]
      /\ job' = [job EXCEPT !["src"] = Read(k, "callReq", more, "admit")]
  BY Zenon DEF StartCall, Reads, Read
<1>3. SrcStep /\ SrcReads(k, "admit")
  <2>1. "callReq" \in Requests /\ "admit" \in {"admit", "get", "undoDuplicate"} BY Zenon DEF Requests
  <2> QED BY <1>1, <1>2, <2>1, SrcFrame, Zenon
<1>4. client'[k] \in {"cont", "done"} /\ \A l \in Calls : l # k => client'[l] = client[l]
  BY <1>1, <1>2, Zenon
<1>5. job["src"].step = "idle" BY <1>2, IdleJob, Zenon
<1>6. job'["src"].step = "admit" /\ job'["src"].call = k BY <1>3, Zenon DEF SrcReads
<1>7. ASSUME NEW t \in Sides, NEW l \in Calls PROVE OpenInv(t, l)'
  <2>1. OpenInv(t, l) /\ OpenInv(t, k) BY Zenon DEF CallState
  <2>2. StartStep(t) \notin {"admit", "idle"} BY Zenon DEF StartStep
  <2>3. timer'[t][l] # "new" /\ ~(job["src"].step = StartStep(t))'
    BY <1>5, <1>6, <2>1, <2>2, Zenon DEF OpenInv, StartStep
  <2>4. timer[t][k] = "none" BY <1>2, <2>1, Zenon DEF OpenInv
  <2>5. (client[l] \in {"start", "local"})' => timer'[t][l] = "none" BY <1>4, <2>1, Zenon DEF OpenInv
  <2>6. (job["src"].call = l)' => timer'[t][l] = "none" BY <1>6, <2>4, Zenon
  <2> QED BY <2>3, <2>5, <2>6, Zenon DEF OpenInv
<1>8. \A l \in Calls : StartOrder(l)' BY OrderKept, Zenon DEF CallState, StartInv
<1>9. JobsStarted'
  <2>1. job'["dst"] = job["dst"] BY <1>3, Zenon DEF SrcStep
  <2>2. (job["dst"].step # "idle" => Started(job["dst"].call))'
    BY <1>1, <2>1, Zenon DEF JobsStarted, Started
  <2>3. ~(job["src"].step = "modify" \/ job["src"].at = "recv" \/ job["src"].left > 0)'
    BY <1>3 DEF SrcReads
  <2> QED BY <2>2, <2>3, Zenon DEF JobsStarted
<1>10. Opened' BY <1>4, <1>6, Zenon DEF Opened
<1>11. ASSUME NEW l \in Calls PROVE ends'[l] \in Nat /\ Duty(l)' = Duty(l)
  <2>1. ~Opens(l) BY <1>5, Zenon DEF Opens, Opening
  <2>2. Opens(l)' <=> l = k BY <1>6, Zenon DEF Opens, Opening
  <2>3. One(Opens(l)') - One(client'[l] \notin {"start", "local"})
        = One(Opens(l)) - One(client[l] \notin {"start", "local"})
    BY <1>2, <1>4, <2>1, <2>2 DEF One
  <2>4. \A b : One(b) \in Int BY DEF One
  <2>5. Duty(l)' = ends'[l] + One(items'["src"][l] = "live") + One(Opens(l)') - One(client'[l] \notin {"start", "local"})
    BY Zenon DEF Duty, One
  <2>6. Duty(l) = ends[l] + One(items["src"][l] = "live") + One(Opens(l)) - One(client[l] \notin {"start", "local"})
    BY Zenon DEF Duty
  <2> QED BY <1>1, <1>2, <2>3, <2>4, <2>5, <2>6, Zenon
<1>12. client' \in [Calls -> {"start", "cont", "done", "local"}] BY <1>1, <1>2, Zenon
<1> QED BY <1>3, <1>7, <1>8, <1>9, <1>10, <1>11, <1>12, Zenon DEF CallStep

\* A frame of the called peer
LEMMA ResponseSteps ==
    ASSUME CallState, Forward, Late, items' = items, fire' = fire, NEW k \in Calls, NEW type \in Responses,
           NEW more \in BOOLEAN, ReadResponse(k, type, more), \A l \in Calls : AnswerInv(l) /\ EndInv(l)
    PROVE  /\ job' \in [Sides -> Jobs] /\ (\A p \in Sides : JobInv(p)')
           /\ (\A t \in Sides, l \in Calls : OpenInv(t, l)') /\ StartInv'
           /\ (\A l \in Calls : AnswerInv(l)' /\ EndInv(l)')
           /\ server' \in [Calls -> {"none", "called", "cont", "done"}]
<1>1. /\ job \in [Sides -> Jobs] /\ server \in [Calls -> {"none", "called", "cont", "done"}] /\ ends \in [Calls -> Nat]
      /\ QueueType /\ StartInv /\ "src" \in Sides /\ "dst" \in Sides
  BY Zenon DEF CallState, RestTypes, QueueType, Frames, Sides
<1>2. /\ job["dst"] = Idle /\ server[k] # "none" /\ sendCh' = sendCh /\ client' = client /\ ends' = ends /\ answers' = answers
      /\ server' = [server EXCEPT ![k] = IF more THEN "cont" ELSE "done"]
      /\ job' = [job EXCEPT !["dst"] = Read(k, type, more, "get")]
  BY Zenon DEF ReadResponse, Read
<1>3. /\ job' \in [Sides -> Jobs] /\ job'["src"] = job["src"]
      /\ job'["dst"].step = "get" /\ job'["dst"].call = k /\ job'["dst"].at = "own" /\ job'["dst"].left = 0
  <2>1. "get" \in Steps /\ type \in Requests \cup Responses BY Zenon DEF Steps
  <2>2. /\ Read(k, type, more, "get") \in Jobs /\ Read(k, type, more, "get").step = "get"
        /\ Read(k, type, more, "get").call = k
        /\ Read(k, type, more, "get").at = "own" /\ Read(k, type, more, "get").left = 0
    BY <2>1, ReadJob
  <2>3. job'["dst"] = Read(k, type, more, "get") /\ job'["src"] = job["src"] BY <1>1, <1>2, Zenon
  <2>4. job' \in [Sides -> Jobs] BY <1>1, <1>2, <2>2, Zenon
  <2> QED BY <2>2, <2>3, <2>4, Zenon
<1>4. JobInv("dst")'
  <2>1. "get" \notin ReaderSteps \ {"get", "failGet"} OBVIOUS
  <2> QED BY <1>1, <1>3, <2>1, FreshJob, Zenon
<1>5. JobInv("src")' BY <1>1, <1>3, OtherJob, Zenon DEF CallState
<1>6. ASSUME NEW t \in Sides, NEW l \in Calls PROVE OpenInv(t, l)'
  BY <1>2, <1>3, OpenKept, Zenon DEF CallState, SrcAside
<1>7. StartInv'
  <2>1. \A l \in Calls : StartOrder(l)' BY <1>1, OrderKept, Zenon DEF StartInv
  <2>2. Opened' BY <1>1, <1>2, <1>3, OpenedKept, Zenon DEF StartInv, SrcAside
  <2>3. \A l \in Calls : Started(l) => Started(l)' BY StartedKept, Zenon
  <2>4. SentStarted /\ JobsStarted BY <1>1, Zenon DEF StartInv
  <2>5. Started(k) BY <1>2, <2>4, Zenon DEF SentStarted
  <2>6. SentStarted'
    <3>1. sendCh["dst"] \in Seq(Frames) BY <1>1, Zenon DEF QueueType
    <3>2. \A n \in 1..Len(sendCh["dst"]) : sendCh["dst"][n][1] \in Calls BY <3>1 DEF Frames
    <3>3. \A n \in 1..Len(sendCh'["dst"]) : Started(sendCh["dst"][n][1])'
      BY <1>2, <2>3, <2>4, <3>2, Zenon DEF SentStarted, Started
    <3>4. \A l \in Calls : server'[l] # "none" => Started(l)'
      BY <1>1, <1>2, <2>3, <2>4, <2>5, Zenon DEF SentStarted
    <3> QED BY <3>3, <3>4, Zenon DEF SentStarted
  <2>7. JobsStarted'
    <3>1. job["src"].call \in Calls BY <1>1, Zenon DEF Jobs
    <3> QED BY <1>3, <2>3, <2>4, <2>5, <3>1, Zenon DEF JobsStarted, Started
  <2> QED BY <2>1, <2>2, <2>6, <2>7, Zenon DEF StartInv
<1>8. ASSUME NEW l \in Calls PROVE AnswerInv(l)'
  <2>1. Won(l)' => Won(l) BY <1>2, <1>3, Zenon DEF Won
  <2>2. Fired(l)' => Fired(l) BY <1>2, Zenon DEF Fired
  <2> QED BY <2>1, <2>2, AnswerKept, Zenon
<1>9. ASSUME NEW l \in Calls PROVE EndInv(l)'
  <2>1. ~Settles("dst", "src") /\ ~Settles("dst", "src")' BY <1>2, <1>3, IdleJob, Zenon DEF Settles
  <2>2. Opens(l)' <=> Opens(l) BY <1>3, Zenon DEF Opens
  <2>3. EndsNext("src", l)' <=> EndsNext("src", l) BY <1>3, Zenon DEF EndsNext, Settles, SideOf
  <2>4. ~EndsNext("dst", l) /\ ~EndsNext("dst", l)' BY <2>1, Zenon DEF EndsNext
  <2>5. /\ ends'[l] + One(items'["src"][l] = "live") + One(fire'["src"][l] = "settle") + One(Opens(l)')
           + One(EndsNext("src", l)') + One(EndsNext("dst", l)') = One(client'[l] \notin {"start", "local"})
    <3>1. One(Opens(l)') = One(Opens(l)) /\ One(EndsNext("src", l)') = One(EndsNext("src", l))
          /\ One(EndsNext("dst", l)') = One(EndsNext("dst", l))
      BY <2>2, <2>3, <2>4, Zenon DEF One
    <3> QED BY <1>2, <3>1, EndTokens
  <2> QED BY <2>5, Zenon DEF EndInv, EndsNext, One
<1>10. server' \in [Calls -> {"none", "called", "cont", "done"}] BY <1>1, <1>2, Zenon
<1> QED BY <1>3, <1>4, <1>5, <1>6, <1>7, <1>8, <1>9, <1>10, Zenon DEF Sides

-----------------------------------------------------------------------------
\* So does every step of handleCallReq, from what was shown of each.
LEMMA CallStepCore ==
    ASSUME RelayCore, CallStep, ItemTypes', Forward, AllItems', TimerSafe', fire' = fire, answers' = answers,
           server' = server, QueueType', sendCh'["dst"] = sendCh["dst"], pending' \in [Sides -> Int],
           connActive' \in [Sides -> BOOLEAN], client' \in [Calls -> {"start", "cont", "done", "local"}],
           ends' \in [Calls -> Nat]
    PROVE  RelayCore'
<1>1. /\ job \in [Sides -> Jobs] /\ FireType /\ RestTypes /\ StartInv /\ (\A p \in Sides : JobInv(p))
      /\ \A l \in Calls : AnswerInv(l) /\ EndInv(l)
  BY Zenon DEF RelayCore
<1>2. /\ SrcStep /\ (\A t \in Sides, l \in Calls : OpenInv(t, l)')
      /\ (\A l \in Calls : StartOrder(l)') /\ JobsStarted' /\ Opened'
      /\ \A l \in Calls : ends'[l] \in Nat /\ Duty(l)' = Duty(l)
  BY Zenon DEF CallStep
<1>3. FireType' /\ job' \in [Sides -> Jobs] BY <1>1, <1>2, Zenon DEF FireType, SrcStep
<1>4. RestTypes' BY <1>1, Zenon DEF RestTypes, QueueType, Frames
<1>5. \A p \in Sides : JobInv(p)' BY <1>1, <1>2, SrcJobs, Zenon
<1>6. QueueType /\ SentStarted BY <1>1, Zenon DEF RestTypes, QueueType, Frames, StartInv
<1>7. SentStarted' BY <1>6, SentKept, Zenon
<1>8. StartInv' BY <1>2, <1>7, Zenon DEF StartInv
<1>9. ASSUME NEW l \in Calls PROVE AnswerInv(l)' BY <1>1, <1>2, SrcAnswers, Zenon
<1>10. ASSUME NEW l \in Calls PROVE EndInv(l)'
  <2>1. ends[l] \in Int /\ ends'[l] \in Int BY <1>1, <1>2 DEF RestTypes
  <2> QED BY <1>1, <1>2, <2>1, SrcEnds, Zenon
<1> QED BY <1>2, <1>3, <1>4, <1>5, <1>8, <1>9, <1>10, Zenon DEF RelayCore

\* What the steps of handleCallReq need of the invariant.
LEMMA CoreCall == ASSUME RelayCore PROVE CallState /\ QueueType
BY Zenon DEF RelayCore, CallState, RestTypes, QueueType, Frames

\* pending goes up or down by one, or stays
Inc(s) == pending' = [pending EXCEPT ![s] = @ + 1]
\* A counter that goes up or down by one, or stays, is an integer.
LEMMA PendingType ==
    ASSUME pending \in [Sides -> Int], pending' = pending \/ \E s \in Sides : Inc(s) \/ Dec(s)
    PROVE  pending' \in [Sides -> Int]
BY DEF Inc, Dec

\* Every step of handleCallReq keeps the invariant but for PendingBalanced.
LEMMA CallReqCore ==
    ASSUME RelayCore, CallReqStep
    PROVE  RelayCore' /\ CallStep /\ fire' = fire
<1>1. CallState /\ QueueType /\ "src" \in Sides BY CoreCall, Zenon DEF Sides
<1>2. /\ ItemTypes /\ FireType /\ AllItems /\ TimerSafe /\ RestTypes
      /\ job["src"].call \in Calls /\ ends \in [Calls -> Nat] /\ pending \in [Sides -> Int]
  BY <1>1, Zenon DEF RelayCore, RestTypes, Jobs
<1>3. UNCHANGED envVars /\ fire' = fire /\ answers' = answers
  BY Zenon DEF CallReqStep, undoDuplicate, getDestination, undo, forwardCallReq, canHandleNewCall, addRelayItem
<1>4. client' = client /\ server' = server /\ connActive' = connActive BY <1>3, Zenon DEF envVars
<1>5. sendCh' = sendCh \/ SendSystemError(job["src"].call)
  BY Zenon DEF CallReqStep, undoDuplicate, getDestination, undo, forwardCallReq, canHandleNewCall, addRelayItem
<1>6. QueueType' /\ sendCh'["dst"] = sendCh["dst"]
  <2>1. CASE sendCh' = sendCh BY <1>1, <2>1, Zenon DEF QueueType
  <2>2. CASE SendSystemError(job["src"].call) BY <1>1, <1>2, <2>2, ErrorQueued, Zenon
  <2> QED BY <1>5, <2>1, <2>2, Zenon
<1>7. pending' \in [Sides -> Int]
  <2>1. pending' = pending \/ \E s \in Sides : Inc(s) \/ Dec(s)
    BY <1>1, Zenon
       DEF CallReqStep, undoDuplicate, getDestination, undo, forwardCallReq, canHandleNewCall, addRelayItem, Inc
  <2> QED BY <1>2, <2>1, PendingType, Zenon
<1>8. ends' \in [Calls -> Nat]
  <2>1. ends' = ends \/ End(job["src"].call)
    BY Zenon DEF CallReqStep, undoDuplicate, getDestination, undo, forwardCallReq, canHandleNewCall, addRelayItem
  <2> QED BY <1>2, <2>1, EndType, Zenon
<1>9. client' \in [Calls -> {"start", "cont", "done", "local"}] /\ connActive' \in [Sides -> BOOLEAN]
  BY <1>2, <1>4, Zenon DEF RestTypes
<1>10. ASSUME CallStep, ItemTypes', Forward, AllItems', TimerSafe' PROVE RelayCore' /\ CallStep /\ fire' = fire
  BY <1>3, <1>4, <1>6, <1>7, <1>8, <1>9, <1>10, CallStepCore, Zenon
<1>11. ASSUME Kept PROVE ItemTypes' /\ Forward /\ Late /\ AllItems' /\ TimerSafe' /\ items' = items /\ timer' = timer
  <2>1. ItemTypes' /\ Forward /\ Late /\ AllItems' /\ TimerSafe' BY <1>2, <1>11, KeptItems, Zenon
  <2>2. items' = items /\ timer' = timer BY <1>11, Zenon DEF Kept, itemVars, timerVars
  <2> QED BY <2>1, <2>2, Zenon
<1>12. CASE undoDuplicate \/ forwardCallReq
  <2>1. Kept BY <1>12, Zenon DEF undoDuplicate, forwardCallReq, Kept
  <2>2. CallStep BY <1>1, <1>11, <1>12, <2>1, CallReqSteps, Zenon
  <2> QED BY <1>10, <1>11, <2>1, <2>2, Zenon
<1>13. CASE undo \/ getDestination \/ \E s \in Sides : canHandleNewCall(s)
  <2>1. Kept BY <1>13, Zenon DEF undo, getDestination, canHandleNewCall, Kept
  <2>2. EarlyMove /\ IF job'["src"] = Idle THEN End(job["src"].call) ELSE ends' = ends
    BY <1>1, <1>13, EarlyMoves, Zenon
  <2>3. CallStep BY <1>1, <1>4, <1>11, <2>1, <2>2, EarlySteps, Zenon
  <2> QED BY <1>10, <1>11, <2>1, <2>3
<1>14. ASSUME NEW s \in Sides, addRelayItem(s) PROVE RelayCore' /\ CallStep /\ fire' = fire
  <2>1. ends' = ends BY <1>14, Zenon DEF addRelayItem
  <2>2. ItemTypes' /\ Forward /\ AllItems' /\ TimerSafe' BY <1>1, <1>2, <1>14, AddItems, Zenon DEF CallState
  <2>3. \/ s = "dst" /\ AddMove(s, "addRemote", "startRemote", "none", "new")
        \/ s = "dst" /\ AddMove(s, "startRemote", "addOwn", "new", "active")
        \/ s = "src" /\ AddMove(s, "addOwn", "startOwn", "none", "new")
        \/ s = "src" /\ AddMove(s, "startOwn", "modify", "new", "active")
    BY <1>1, <1>2, <1>14, AddMoves, Zenon
  <2>4. CallStep BY <1>1, <1>4, <2>1, <2>2, <2>3, AddSteps, Zenon
  <2> QED BY <1>10, <2>2, <2>4, Zenon
<1> QED BY <1>12, <1>13, <1>14, Zenon DEF CallReqStep

\* So does every frame that arrives.
LEMMA ArrivesCore ==
    ASSUME RelayCore, NEW k \in Calls, Arrives(k)
    PROVE  RelayCore' /\ Kept
<1>1. CallState /\ QueueType /\ "src" \in Sides BY CoreCall, Zenon DEF Sides
<1>2. /\ ItemTypes /\ FireType /\ AllItems /\ TimerSafe /\ RestTypes /\ connActive \in [Sides -> BOOLEAN]
      /\ ends \in [Calls -> Nat] /\ pending \in [Sides -> Int]
  BY <1>1, Zenon DEF RelayCore, RestTypes
<1>3. Kept /\ answers' = answers
  BY Zenon
     DEF Arrives, StartCall, Reads, handleLocalCallReq, RefuseCall, DuplicateCallReq, ReadReqContinue, ReadResponse, Kept
<1>4. items' = items /\ timer' = timer /\ fire' = fire BY <1>3, Zenon DEF Kept, itemVars, timerVars
<1>5. ItemTypes' /\ FireType' /\ Forward /\ Late /\ AllItems' /\ TimerSafe' BY <1>2, <1>3, KeptItems, Zenon
<1>6. pending' \in [Sides -> Int]
  <2>1. pending' = pending \/ Inc("src")
    BY Zenon
       DEF Arrives, StartCall, Reads, handleLocalCallReq, RefuseCall, DuplicateCallReq, ReadReqContinue, ReadResponse, Inc
  <2> QED BY <1>1, <1>2, <2>1, PendingType, Zenon
<1>7. connActive' \in [Sides -> BOOLEAN]
  <2>1. connActive' = connActive \/ \E protocol \in BOOLEAN : connActive' = [connActive EXCEPT !["src"] = @ /\ ~protocol]
    BY Zenon
       DEF Arrives, StartCall, Reads, handleLocalCallReq, RefuseCall, DuplicateCallReq, ReadReqContinue, ReadResponse
  <2> QED BY <1>2, <2>1, Zenon
<1>8. sendCh' = sendCh \/ SendSystemError(k)
  BY Zenon
     DEF Arrives, StartCall, Reads, handleLocalCallReq, RefuseCall, DuplicateCallReq, ReadReqContinue, ReadResponse
<1>9. QueueType' /\ sendCh'["dst"] = sendCh["dst"]
  <2>1. CASE sendCh' = sendCh BY <1>1, <2>1, Zenon DEF QueueType
  <2>2. CASE SendSystemError(k) BY <1>1, <2>2, ErrorQueued, Zenon
  <2> QED BY <1>8, <2>1, <2>2, Zenon
<1>10. ends' \in [Calls -> Nat]
  <2>1. ends' = ends \/ End(k)
    BY Zenon
       DEF Arrives, StartCall, Reads, handleLocalCallReq, RefuseCall, DuplicateCallReq, ReadReqContinue, ReadResponse
  <2> QED BY <1>2, <2>1, EndType, Zenon
<1>11. ASSUME CallStep, client' \in [Calls -> {"start", "cont", "done", "local"}], server' = server PROVE RelayCore'
  BY <1>3, <1>4, <1>5, <1>6, <1>7, <1>9, <1>10, <1>11, CallStepCore, Zenon
<1>12. CASE \E more \in BOOLEAN : StartCall(k, more)
  <2>1. server' = server BY <1>12, Zenon DEF StartCall
  <2>2. CallStep /\ client' \in [Calls -> {"start", "cont", "done", "local"}]
    BY <1>1, <1>4, <1>5, <1>12, StartSteps, Zenon
  <2> QED BY <1>3, <1>11, <2>1, <2>2, Zenon
<1>13. CASE \/ ReadReqContinue(k) \/ DuplicateCallReq(k)
            \/ \E more \in BOOLEAN : handleLocalCallReq(k, more)
            \/ \E drop, protocol \in BOOLEAN : RefuseCall(k, drop, protocol)
  <2>1. server' = server
    BY <1>13, Zenon DEF ReadReqContinue, DuplicateCallReq, handleLocalCallReq, RefuseCall
  <2>2. CallStep /\ client' \in [Calls -> {"start", "cont", "done", "local"}]
    BY <1>1, <1>4, <1>5, <1>13, FrameSteps, Zenon
  <2> QED BY <1>3, <1>11, <2>1, <2>2
<1>14. ASSUME NEW type \in Responses, NEW more \in BOOLEAN, ReadResponse(k, type, more) PROVE RelayCore'
  <2>1. \A l \in Calls : AnswerInv(l) /\ EndInv(l) BY Zenon DEF RelayCore
  <2>2. /\ job' \in [Sides -> Jobs] /\ (\A p \in Sides : JobInv(p)')
        /\ (\A t \in Sides, l \in Calls : OpenInv(t, l)') /\ StartInv'
        /\ (\A l \in Calls : AnswerInv(l)' /\ EndInv(l)')
        /\ server' \in [Calls -> {"none", "called", "cont", "done"}]
    BY <1>1, <1>4, <1>5, <1>14, <2>1, ResponseSteps, Zenon
  <2>3. client' = client BY <1>14, Zenon DEF ReadResponse
  <2>4. RestTypes'
    BY <1>2, <1>3, <1>6, <1>7, <1>9, <1>10, <2>2, <2>3, Zenon DEF RestTypes, QueueType, Frames
  <2> QED BY <1>5, <2>2, <2>4, Zenon DEF RelayCore
<1> QED BY <1>3, <1>12, <1>13, <1>14, Zenon DEF Arrives, Responses

\* So does a write to the network, and a connection that stops being active.
LEMMA WriteCore ==
    ASSUME RelayCore, NEW s \in Sides, writeFrames(s) \/ CloseConn(s)
    PROVE  RelayCore' /\ Kept /\ job' = job /\ pending' = pending
<1>1. CallState /\ QueueType /\ "src" \in Sides /\ "dst" \in Sides BY CoreCall, Zenon DEF Sides
<1>2. /\ ItemTypes /\ FireType /\ AllItems /\ TimerSafe /\ RestTypes /\ connActive \in [Sides -> BOOLEAN] /\ StartInv
      /\ job \in [Sides -> Jobs] /\ server \in [Calls -> {"none", "called", "cont", "done"}]
      /\ (\A t \in Sides, l \in Calls : OpenInv(t, l)) /\ (\A p \in Sides : JobInv(p))
      /\ \A l \in Calls : AnswerInv(l) /\ EndInv(l)
  BY <1>1, Zenon DEF RelayCore, RestTypes
<1>3. /\ Kept /\ answers' = answers /\ job' = job /\ client' = client /\ ends' = ends /\ pending' = pending
  BY Zenon DEF writeFrames, CloseConn, Kept
<1>4. items' = items /\ fire' = fire BY <1>3, Zenon DEF Kept, itemVars
<1>5. ItemTypes' /\ FireType' /\ Forward /\ Late /\ AllItems' /\ TimerSafe' BY <1>2, <1>3, KeptItems, Zenon
<1>6. /\ SentStarted' /\ QueueType' /\ server' \in [Calls -> {"none", "called", "cont", "done"}]
      /\ connActive' \in [Sides -> BOOLEAN]
  <2>1. SentStarted BY <1>2, Zenon DEF StartInv
  <2>2. CASE writeFrames(s)
    <3>1. connActive' = connActive BY <2>2, Zenon DEF writeFrames
    <3> QED BY <1>1, <1>2, <1>5, <2>1, <2>2, <3>1, SentWritten, Zenon
  <2>3. CASE CloseConn(s)
    <3>1. sendCh' = sendCh /\ server' = server /\ connActive' = [connActive EXCEPT ![s] = FALSE]
      BY <2>3, Zenon DEF CloseConn
    <3>2. SentStarted' BY <1>1, <1>5, <2>1, <3>1, SentKept, Zenon
    <3> QED BY <1>1, <1>2, <3>1, <3>2, Zenon DEF QueueType
  <2> QED BY <2>2, <2>3, Zenon
<1>7. RestTypes' BY <1>2, <1>3, <1>6, Zenon DEF RestTypes, QueueType, Frames
<1>8. ASSUME NEW p \in Sides PROVE JobInv(p)' BY <1>2, <1>3, <1>5, OtherJob, Zenon
<1>9. SrcAside BY <1>3, Zenon DEF SrcAside
<1>10. ASSUME NEW t \in Sides, NEW l \in Calls PROVE OpenInv(t, l)'
  BY <1>2, <1>3, <1>5, <1>9, OpenKept, Zenon
<1>11. StartInv'
  <2>1. \A l \in Calls : StartOrder(l)' BY <1>2, <1>5, OrderKept, Zenon DEF StartInv
  <2>2. Opened' BY <1>2, <1>3, <1>5, <1>9, OpenedKept, Zenon DEF StartInv
  <2>3. JobsStarted'
    <3>1. job["src"].call \in Calls /\ job["dst"].call \in Calls BY <1>1, <1>2, Zenon DEF Jobs
    <3>2. \A l \in Calls : Started(l) => Started(l)' BY <1>5, StartedKept, Zenon
    <3> QED BY <1>2, <1>3, <3>1, <3>2, Zenon DEF StartInv, JobsStarted, Started
  <2> QED BY <1>6, <2>1, <2>2, <2>3, Zenon DEF StartInv
<1>12. ASSUME NEW l \in Calls PROVE AnswerInv(l)' /\ EndInv(l)'
  <2>1. Won(l)' => Won(l) BY <1>3, Zenon DEF Won, finishesCall
  <2>2. Fired(l)' => Fired(l) BY <1>3, <1>4, Zenon DEF Fired
  <2>3. AnswerInv(l)' BY <1>2, <1>5, <2>1, <2>2, AnswerKept, Zenon
  <2>4. EndInv(l)' BY <1>2, <1>3, <1>4 DEF EndInv, Opens, Settles, SideOf, One
  <2> QED BY <2>3, <2>4, Zenon
<1>13. RelayCore' BY <1>2, <1>3, <1>5, <1>7, <1>8, <1>10, <1>11, <1>12, Zenon DEF RelayCore
<1> QED BY <1>3, <1>13, Zenon

\* It holds of a relay without calls.
LEMMA InitCore == ASSUME RelayInit PROVE RelayCore
<1>1. /\ items = [s \in Sides |-> [k \in Calls |-> "none"]] /\ timer = [s \in Sides |-> [k \in Calls |-> "none"]]
      /\ gc = [s \in Sides |-> {}] /\ panicked = FALSE
  BY Zenon DEF RelayInit
<1>2. /\ fire = [s \in Sides |-> [k \in Calls |-> "off"]] /\ job = [s \in Sides |-> Idle]
      /\ client = [k \in Calls |-> "start"] /\ server = [k \in Calls |-> "none"] /\ ends = [k \in Calls |-> 0]
      /\ answers = [k \in Calls |-> {}] /\ sendCh = [s \in Sides |-> <<>>]
  BY Zenon DEF RelayInit
<1>3. pending = [s \in Sides |-> 0] /\ connActive = [s \in Sides |-> TRUE] BY Zenon DEF RelayInit
<1>4. ItemTypes BY <1>1, Zenon DEF ItemTypes, Timers
<1>5. FireType BY <1>2, Zenon DEF FireType, Fires
<1>6. RestTypes BY <1>2, <1>3 DEF RestTypes
<1>7. job \in [Sides -> Jobs] BY <1>2, IdleJob, Zenon
<1>8. \A s \in Sides, k \in Calls : items[s][k] = "none" /\ timer[s][k] = "none" /\ fire[s][k] = "off" /\ k \notin gc[s]
  BY <1>1, <1>2, Zenon
<1>9. AllItems BY <1>8, Zenon DEF AllItems, ItemInv
<1>10. \A s \in Sides : job[s] = Idle BY <1>2, Zenon
<1>11. "src" \in Sides /\ "dst" \in Sides BY Zenon DEF Sides
<1>12. /\ job["src"].step = "idle" /\ job["dst"].step = "idle" /\ job["src"].at = "own" /\ job["src"].left = 0
  BY <1>10, <1>11, IdleJob, Zenon
<1>13. StartInv
  <2>1. \A k \in Calls : StartOrder(k) BY <1>8, <1>11, Zenon DEF StartOrder
  <2>2. SentStarted BY <1>2, <1>11 DEF SentStarted
  <2>3. JobsStarted BY <1>12 DEF JobsStarted
  <2>4. Opened BY <1>12, Zenon DEF Opened, Opening
  <2> QED BY <2>1, <2>2, <2>3, <2>4, Zenon DEF StartInv
<1>14. ASSUME NEW s \in Sides, NEW k \in Calls PROVE OpenInv(s, k)
  BY <1>8, <1>12, Zenon DEF OpenInv, StartStep
<1>15. ASSUME NEW p \in Sides PROVE JobInv(p)
  <2>1. job[p].step = "idle" /\ job[p].at = "own" /\ job[p].left = 0 /\ job[p].type = "callReq"
    BY <1>10, IdleJob, Zenon
  <2> QED BY <2>1, Zenon DEF JobInv, Requests, Opening
<1>16. ASSUME NEW k \in Calls PROVE AnswerInv(k) /\ EndInv(k)
  <2>1. ~Won(k) /\ ~Fired(k) BY <1>2, <1>8, <1>11, <1>12, Zenon DEF Won, Fired
  <2>2. ~Opens(k) /\ ~Settles("src", "src") /\ ~Settles("dst", "src")
    BY <1>12, Zenon DEF Opens, Opening, Settles
  <2>3. ends[k] = 0 /\ client[k] = "start" BY <1>2, Zenon
  <2>4. EndInv(k) BY <1>8, <1>11, <2>2, <2>3 DEF EndInv, One
  <2> QED BY <2>1, <2>4, Zenon DEF AnswerInv
<1>17. TimerSafe BY <1>1, Zenon DEF TimerSafe
<1> QED BY <1>4, <1>5, <1>6, <1>7, <1>9, <1>13, <1>14, <1>15, <1>16, <1>17, Zenon DEF RelayCore
=============================================================================
