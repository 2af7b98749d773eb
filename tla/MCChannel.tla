------------------------------ MODULE MCChannel ------------------------------
EXTENDS Channel
CONSTANTS c1, c2, k1, k2, w1

\* Three questions in one state space: the first connection meets a listener with
\* a second connection, or the idle sweep, or a second caller of Close, one at a
\* time.  The second connection carries no calls and does not fail: it is there to
\* be opened, closed and waited for.
Sweeps == pc[Sweeper] \notin {"idle", "done"}
ClosesTwice == k2 \in Closers /\ pc[Closer(k2)] # "idle"
TwoConns == listener # "none" \/ (c2 \in Conns /\ pc[Opener(c2)] # "idle")

OneAtATime == /\ c2 \notin inCalls \cup outCalls
              /\ c2 \in Conns => pc[Worker(c2, w1)] = "idle"
              /\ ~(Sweeps /\ TwoConns) /\ ~(ClosesTwice /\ TwoConns) /\ ~(ClosesTwice /\ Sweeps)

Explored == OneAtATime'
=============================================================================
