------------------------- MODULE ConnectionLifecycle -------------------------
(***************************************************************************)
(* What closing a connection promises to its users, without goroutines,    *)
(* locks or stale reads: calls are admitted only while Active; the state   *)
(* moves Active -> StartClose -> InboundClosed -> Closed, each move only   *)
(* when the calls it waits for are over, and straight to Closed only after *)
(* a failure; the socket is closed once, after the state is Closed.        *)
(***************************************************************************)
EXTENDS Naturals

CONSTANTS InCalls, OutCalls

VARIABLES phase,        \* the connection state
          failed,       \* a connection or protocol error stopped the exchanges
          inbound,      \* admitted inbound calls that are not over
          outbound,     \* admitted outbound calls that are not over
          relayed,      \* number of relayed calls that are not over
          socketClosed

vars == <<phase, failed, inbound, outbound, relayed, socketClosed>>

Active == 1
StartClose == 2
InboundClosed == 3
Closed == 4

Init == /\ phase = Active /\ failed = FALSE /\ socketClosed = FALSE
        /\ inbound = {} /\ outbound = {} /\ relayed = 0

Admit ==
  /\ phase = Active
  /\ \/ \E i \in InCalls \ inbound : inbound' = inbound \cup {i} /\ UNCHANGED <<outbound, relayed>>
     \/ \E o \in OutCalls \ outbound : outbound' = outbound \cup {o} /\ UNCHANGED <<inbound, relayed>>
     \/ relayed' = relayed + 1 /\ UNCHANGED <<inbound, outbound>>
  /\ UNCHANGED <<phase, failed, socketClosed>>

Finish ==
  /\ \/ \E i \in inbound : inbound' = inbound \ {i} /\ UNCHANGED <<outbound, relayed>>
     \/ \E o \in outbound : outbound' = outbound \ {o} /\ UNCHANGED <<inbound, relayed>>
     \/ relayed > 0 /\ relayed' = relayed - 1 /\ UNCHANGED <<inbound, outbound>>
  /\ UNCHANGED <<phase, failed, socketClosed>>

Fail ==
  /\ phase # Active /\ ~failed /\ failed' = TRUE
  /\ UNCHANGED <<phase, inbound, outbound, relayed, socketClosed>>

Advance ==
  /\ \/ phase = Active /\ phase' = StartClose
     \/ phase = StartClose /\ inbound = {} /\ relayed = 0 /\ phase' = InboundClosed
     \/ phase = InboundClosed /\ outbound = {} /\ phase' = Closed
     \/ phase \in {StartClose, InboundClosed} /\ failed /\ phase' = Closed
  /\ UNCHANGED <<failed, inbound, outbound, relayed, socketClosed>>

CloseSocket ==
  /\ phase = Closed /\ ~socketClosed /\ socketClosed' = TRUE
  /\ UNCHANGED <<phase, failed, inbound, outbound, relayed>>

Next == Admit \/ Finish \/ Fail \/ Advance \/ CloseSocket
Spec == Init /\ [][Next]_vars

=============================================================================
