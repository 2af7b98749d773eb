----------------------------- MODULE HealthCheck -----------------------------
(***************************************************************************)
(* The health check of a connection: a goroutine that pings, closes the    *)
(* connection after several failures in a row, and is stopped by whoever   *)
(* tears the connection down (health.go, connection.go).  The ping itself  *)
(* is in Connection; here it is its outcome.                               *)
(***************************************************************************)
EXTENDS Naturals, Sequences

CONSTANTS FailuresToClose, \* HealthCheckOptions
          HistorySize,     \* 256
          MaxPings,        \* bound on the pings
          Stoppers         \* goroutines in connectionError or closeNetwork

ASSUME HealthBounds == FailuresToClose \in Nat \ {0} /\ HistorySize \in Nat \ {0} /\ MaxPings \in Nat

VARIABLES checker,   \* where healthCheck is
          failures,  \* consecutiveFailures
          history,   \* healthHistory: states, insertAt and total
          pings,     \* the results of all pings, which the code does not keep
          quit,      \* healthCheckCtx is cancelled
          stopper,   \* where each stopHealthCheck is
          unhealthy  \* healthCheck has closed the connection

healthVars == <<checker, failures, history, pings, quit, stopper, unhealthy>>

HealthInit ==
    /\ checker = "wait" /\ failures = 0 /\ pings = <<>>
    /\ history = [states |-> [i \in 1..HistorySize |-> FALSE], insertAt |-> 0, total |-> 0]
    /\ quit = FALSE /\ unhealthy = FALSE
    /\ stopper = [s \in Stoppers |-> "idle"]

\* healthHistory.add
add(h, b) ==
    [states |-> [h.states EXCEPT ![h.insertAt + 1] = b],
     insertAt |-> (h.insertAt + 1) % HistorySize, total |-> h.total + 1]

\* healthHistory.asBools
asBools(h) ==
    IF h.total < HistorySize THEN SubSeq(h.states, 1, h.total)
    ELSE SubSeq(h.states, h.insertAt + 1, HistorySize) \o SubSeq(h.states, 1, h.insertAt)

\* The select of healthCheck: the ticker, or the context; either when both are ready
Tick ==
    /\ checker = "wait" /\ Len(pings) < MaxPings
    /\ checker' = "ping"
    /\ UNCHANGED <<failures, history, pings, quit, stopper, unhealthy>>
CheckerQuits ==
    /\ checker = "wait" /\ quit
    /\ checker' = "done"
    /\ UNCHANGED <<failures, history, pings, quit, stopper, unhealthy>>

\* mutant: a success does not end a row of failures
Failures_Kept(ok) == IF ok THEN failures ELSE failures + 1

Failures(ok) == IF ok THEN 0 ELSE failures + 1

\* mutant: healthCheckDone stays open when the health check closes the connection
Checked_NotDone(ok, stops) ==
    /\ history' = add(history, ok) /\ pings' = Append(pings, ok)
    /\ failures' = IF stops THEN failures ELSE Failures(ok)
    /\ unhealthy' = (failures' >= FailuresToClose)
    /\ checker' = IF stops THEN "done" ELSE IF unhealthy' THEN "gone" ELSE "wait"

\* What healthCheck does with the result of a ping; one that was cancelled stops it.
Checked(ok, stops) ==
    /\ history' = add(history, ok) /\ pings' = Append(pings, ok)
    /\ failures' = IF stops THEN failures ELSE Failures(ok)
    /\ unhealthy' = (failures' >= FailuresToClose)
    /\ checker' = IF stops \/ unhealthy' THEN "done" ELSE "wait"

\* A ping is answered; fails, by its timeout or with its exchange; is cancelled, by the context
\* or an error frame that says so; or cannot be sent, which is a connection error.
Ping(result) ==
    /\ checker = "ping"
    /\ IF result = "error" THEN checker' = "stop" /\ UNCHANGED <<failures, history, pings, unhealthy>>
       ELSE Checked(result = "ok", result = "cancelled")
    /\ UNCHANGED <<quit, stopper>>

\* connectionError in ping calls stopHealthCheck in the goroutine of the health check.  It
\* returns if the check was stopped before; else it waits for itself.
StopSelf ==
    /\ checker = "stop"
    /\ quit' = TRUE
    /\ IF quit THEN Checked(FALSE, FALSE)
       ELSE checker' = "stuck" /\ UNCHANGED <<failures, history, pings, unhealthy>>
    /\ UNCHANGED stopper

\* stopHealthCheck: the best effort check
stopHealthCheck(s) ==
    /\ stopper[s] = "idle"
    /\ stopper' = [stopper EXCEPT ![s] = IF quit THEN "returned" ELSE "quit"]
    /\ UNCHANGED <<checker, failures, history, pings, quit, unhealthy>>

\* healthCheckQuit, and the wait for healthCheckDone
StopQuit(s) ==
    /\ stopper[s] = "quit"
    /\ quit' = TRUE
    /\ stopper' = [stopper EXCEPT ![s] = "wait"]
    /\ UNCHANGED <<checker, failures, history, pings, unhealthy>>
StopReturns(s) ==
    /\ stopper[s] = "wait" /\ checker = "done"
    /\ stopper' = [stopper EXCEPT ![s] = "returned"]
    /\ UNCHANGED <<checker, failures, history, pings, quit, unhealthy>>

HealthStep ==
    \/ CheckerQuits \/ StopSelf \/ \E result \in {"ok", "failed", "cancelled", "error"} : Ping(result)
    \/ \E s \in Stoppers : StopQuit(s) \/ StopReturns(s)
HealthNext == HealthStep \/ Tick \/ \E s \in Stoppers : stopHealthCheck(s)

\* Goroutines are scheduled and a ping has a timeout.
HealthSpec == HealthInit /\ [][HealthNext]_healthVars /\ WF_healthVars(HealthStep)

(***************************************************************************)
(* Properties                                                              *)
(***************************************************************************)
\* The connection is closed for its health only by FailuresToClose failures in a row ("the
\* number of consecutive health check failures", health.go:50); and the history that is
\* reported is the last results in the order of the pings, also when the ring has come around.
HealthFollowsPings ==
    /\ unhealthy => /\ Len(pings) >= FailuresToClose
                    /\ \A i \in Len(pings) - FailuresToClose + 1..Len(pings) : ~pings[i]
    /\ asBools(history) =
         SubSeq(pings, IF Len(pings) > HistorySize THEN Len(pings) - HistorySize + 1 ELSE 1, Len(pings))

\* stopHealthCheck returns, whatever the ping does meanwhile, unless the health check's own
\* ping fails to be sent and it waits for itself: then it hangs, and with it every stopper that
\* found the context not yet cancelled.
HealthStops == \A s \in Stoppers : stopper[s] = "quit" ~> stopper[s] = "returned" \/ checker = "stuck"
=============================================================================
