------------------------------ MODULE Advertise ------------------------------
(***************************************************************************)
(* The Hyperbahn client: Advertise, the goroutine that advertises again and *)
(* again, and Close (hyperbahn/advertise.go, client.go, call.go).  An       *)
(* interval is its base; the code sleeps a random part of it.               *)
(***************************************************************************)
EXTENDS Naturals, Sequences

CONSTANTS maxAdvertiseFailures,  \* 5
          MaxSends               \* bound on the advertise calls of the loop

ASSUME AdvertiseBounds == maxAdvertiseFailures \in Nat \ {0, 1} /\ MaxSends \in Nat

\* pc is where Advertise, and then its goroutine, is; attempt is of initialAdvertise and failures
\* of advertiseLoop (consecutiveFailures); sleepFor is 0 for advertiseInterval, else a multiple
\* of advertiseRetryInterval; fatal is FailStrategyFatal; event is the last of the handler.
VARIABLES client,
          sends,      \* the results of the calls in the loop, which the code does not keep
          closedAt    \* 0, or one more than the number of calls begun when quit was closed

adVars == <<client, sends, closedAt>>

AdInit ==
    /\ \E fatal \in BOOLEAN :
         client = [pc |-> "initial", attempt |-> 0, failures |-> 0, sleepFor |-> 0, fatal |-> fatal,
                   event |-> "none"]
    /\ sends = <<>> /\ closedAt = 0

\* initialAdvertise: one attempt, and the sleep after a failure.  It ends with a success, on a
\* channel that does not listen (errEphemeralPeer), and after the last attempt.
initialAdvertise(result) ==
    /\ client.pc = "initial"
    /\ client' = IF result = "ok" THEN [client EXCEPT !.pc = "sleep", !.event = "Advertised"]
                 ELSE IF result = "ephemeral" \/ client.attempt + 1 = maxAdvertiseFailures
                 THEN [client EXCEPT !.pc = "failed"]
                 ELSE [client EXCEPT !.attempt = @ + 1]
    /\ UNCHANGED <<sends, closedAt>>

\* The sleep ends, by time or by quit, and the loop looks at quit.
WakeUp ==
    /\ client.pc = "sleep" /\ Len(sends) < MaxSends
    /\ client' = [client EXCEPT !.pc = IF closedAt > 0 THEN "end" ELSE "send"]
    /\ UNCHANGED <<sends, closedAt>>

\* mutant: the interval is doubled after any failure
Backoff_Uncapped(c) == 2^c.failures

\* "Even after many failures, cap backoff."
Backoff(c) == IF c.failures < maxAdvertiseFailures THEN 2^c.failures ELSE c.sleepFor

Succeeded == [client EXCEPT !.pc = "sleep", !.sleepFor = 0, !.event = "Readvertised", !.failures = 0]

\* sendAdvertise has returned.  Fatal of the logger ends the process.
advertiseLoop(ok) ==
    /\ client.pc = "send"
    /\ sends' = Append(sends, ok)
    /\ LET c == [client EXCEPT !.failures = @ + 1] IN
       client' = IF ok THEN Succeeded
                 ELSE IF c.failures >= maxAdvertiseFailures /\ c.fatal
                 THEN [c EXCEPT !.pc = "exit", !.event = "ErrorNoRetry"]
                 ELSE [c EXCEPT !.pc = "sleep", !.event = "ErrorRetry", !.sleepFor = Backoff(c)]
    /\ UNCHANGED closedAt

\* Client.Close by one goroutine; two may both find quit open, and the second close panics.
ClientClose ==
    /\ closedAt = 0
    /\ closedAt' = Len(sends) + (IF client.pc = "send" THEN 2 ELSE 1)
    /\ UNCHANGED <<client, sends>>

AdNext ==
    \/ \E result \in {"ok", "ephemeral", "error"} : initialAdvertise(result)
    \/ WakeUp \/ ClientClose \/ \E ok \in BOOLEAN : advertiseLoop(ok)

AdSpec == AdInit /\ [][AdNext]_adVars

(***************************************************************************)
(* Properties                                                              *)
(***************************************************************************)
\* The last calls of the loop that failed
InRow == {n \in 0..Len(sends) : \A i \in Len(sends) - n + 1..Len(sends) : ~sends[i]}
FailedInRow == CHOOSE n \in InRow : \A k \in InRow : k <= n

\* The client gives up, ends the process and says so (WillRetry false) exactly when
\* maxAdvertiseFailures calls in a row have failed and the strategy is fatal; else it goes on,
\* and sleeps twice as long after each failure up to the cap, and the usual time after a success.
\* Close "stops any background re-advertisements" (hyperbahn/client.go:204): after it at most the
\* call that was in progress is made.
AdvertisesAsPromised ==
    /\ (client.event = "ErrorNoRetry") = (client.fatal /\ FailedInRow >= maxAdvertiseFailures)
    /\ client.event = "ErrorNoRetry" => client.pc = "exit"
    /\ client.pc = "sleep" =>
         client.sleepFor = IF FailedInRow = 0 THEN 0
                           ELSE 2^(IF FailedInRow < maxAdvertiseFailures THEN FailedInRow
                                   ELSE maxAdvertiseFailures - 1)
    /\ closedAt > 0 => Len(sends) < closedAt
=============================================================================
