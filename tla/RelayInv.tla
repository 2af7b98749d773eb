------------------------------ MODULE RelayInv ------------------------------
(***************************************************************************)
(* The inductive invariant behind the safety properties of Relay.  The     *)
(* properties count references, calls of End and answers; the invariant    *)
(* adds why the counts cannot drift: a timer decides, once, which          *)
(* goroutine takes an item out, and what a goroutine learned from Get,     *)
(* Stop or Delete still holds when it acts on it.                          *)
(***************************************************************************)
EXTENDS Relay

\* The steps of handleCallReq up to the call's own item, and those after it
Opening == {"admit", "destination", "admitRemote", "addRemote", "startRemote", "addOwn", "undo"}
Steps == Opening \cup {"idle", "undoDuplicate", "startOwn", "modify", "get", "stop", "push",
           "finish", "finishSettle", "failGet", "failStop", "entomb", "delete", "failSettle"}
Requests == {"callReq", "callReqContinue"}
Responses == {"callRes", "callResContinue", "error"}
Jobs == [step : Steps, at : {"own", "recv"}, call : Calls, type : Requests \cup Responses,
         more : BOOLEAN, left : Nat]
Timers == {"none", "new", "active", "firing", "ran", "stopped", "released"}

\* Every variable has its type.
RelayTypeOK ==
    /\ items \in [Sides -> [Calls -> {"none", "live", "tomb"}]]
    /\ timer \in [Sides -> [Calls -> Timers]]
    /\ fire \in [Sides -> [Calls -> {"off", "entomb", "delete", "settle"}]]
    /\ gc \in [Sides -> SUBSET Calls]
    /\ pending \in [Sides -> Int]
    /\ connActive \in [Sides -> BOOLEAN]
    /\ sendCh \in [Sides -> Seq(Calls \X (Requests \cup Responses))]
    /\ job \in [Sides -> Jobs]
    /\ client \in [Calls -> {"start", "cont", "done", "local"}]
    /\ server \in [Calls -> {"none", "called", "cont", "done"}]
    /\ ends \in [Calls -> Nat]
    /\ answers \in [Calls -> SUBSET {"response", "timeout"}]
    /\ panicked \in BOOLEAN

\* A timer that was stopped, or went back to the pool
Over == {"stopped", "released"}

\* The item of a call and its timer
ItemInv(s, k) ==
    /\ items[s][k] = "none" => timer[s][k] \in {"none", "released"}
    /\ items[s][k] = "live" => timer[s][k] \notin {"none", "released"}
    /\ items[s][k] = "tomb" => timer[s][k] \in {"ran", "stopped"}
    /\ fire[s][k] # "off" => timer[s][k] \in {"ran", "released"}
    /\ k \in gc[s] => timer[s][k] \in {"ran", "stopped", "released"} /\ items[s][k] # "live"

\* A call gets its items from handleCallReq, once, the one of the destination first.
StartStep(s) == IF s = "dst" THEN "startRemote" ELSE "startOwn"
BeforeItem(s) == IF s = "dst" THEN {"admit", "destination", "admitRemote", "addRemote", "undo"} ELSE Opening
OpenInv(s, k) ==
    /\ timer[s][k] = "new" <=> job["src"].step = StartStep(s) /\ job["src"].call = k
    /\ client[k] \in {"start", "local"} => timer[s][k] = "none"
    /\ job["src"].step \in BeforeItem(s) /\ job["src"].call = k => timer[s][k] = "none"

\* Nothing of a call reaches the destination, nor comes back, before both timers run.
Started(k) == timer["src"][k] \notin {"none", "new"}
StartOrder(k) == timer["src"][k] # "none" => timer["dst"][k] \notin {"none", "new"}
SentStarted ==
    /\ \A k \in Calls : server[k] # "none" => Started(k)
    /\ \A n \in 1..Len(sendCh["dst"]) : Started(sendCh["dst"][n][1])
JobsStarted ==
    /\ job["dst"].step # "idle" => Started(job["dst"].call)
    /\ job["src"].step = "modify" \/ job["src"].at = "recv" \/ job["src"].left > 0 => Started(job["src"].call)
Opened ==
    /\ job["src"].step = "addOwn" => timer["dst"][job["src"].call] \notin {"none", "new"}
    /\ job["src"].step \in Opening \cup {"startOwn"} => client[job["src"].call] \in {"cont", "done"}
StartInv == (\A k \in Calls : StartOrder(k)) /\ SentStarted /\ JobsStarted /\ Opened

\* What reader p knows of the timer of the item it works on, and of its own
JobInv(p) ==
    LET k == job[p].call  t == timer[SideOf(p)][k] IN
    /\ p = "src" => job[p].type \in Requests
    /\ p = "dst" => job[p].left = 0 /\ job[p].step \notin Opening \cup {"undoDuplicate", "startOwn", "modify"}
    /\ job[p].step \in {"stop", "failStop"} => items[SideOf(p)][k] # "none"
    /\ job[p].step \in {"entomb", "delete", "failSettle", "finish", "finishSettle"} => t \in Over
    /\ job[p].step = "push" => job[p].at = "recv"
    /\ finishesCall(job[p]) /\ job[p].step = "push" => t \in Over
    /\ finishesCall(job[p]) /\ job[p].at = "recv" => timer[p][k] \in Over

\* The timer of the source's item decides between the response and the timeout.
Won(k) == "response" \in answers[k] \/ (job["dst"].step = "push" /\ job["dst"].call = k /\ finishesCall(job["dst"]))
Fired(k) == fire["src"][k] # "off" \/ "timeout" \in answers[k]
AnswerInv(k) ==
    /\ Won(k) => timer["src"][k] \in Over
    /\ Fired(k) => timer["src"][k] \in {"ran", "released"}
    /\ ~(Won(k) /\ Fired(k))

\* The duty to call End is in one place: with handleCallReq, in the source's item, or with
\* the goroutine that took the item out, until it is done.
One(b) == IF b THEN 1 ELSE 0
Settles(p, s) == job[p].step \in {"failSettle", "finishSettle"} /\ SideOf(p) = s
Opens(k) == job["src"].step \in Opening /\ job["src"].call = k
EndInv(k) ==
    ends[k] + One(items["src"][k] = "live") + One(fire["src"][k] = "settle") + One(Opens(k))
      + One(Settles("src", "src") /\ job["src"].call = k) + One(Settles("dst", "src") /\ job["dst"].call = k)
    = One(client[k] \notin {"start", "local"})

\* The whole invariant: what each action of the relay preserves
RelayInv ==
    /\ RelayTypeOK /\ StartInv /\ PendingBalanced /\ TimerSafe
    /\ \A s \in Sides, k \in Calls : ItemInv(s, k) /\ OpenInv(s, k)
    /\ \A p \in Sides : JobInv(p)
    /\ \A k \in Calls : AnswerInv(k) /\ EndInv(k)
=============================================================================
