------------------------------- MODULE MCRelay -------------------------------
EXTENDS Relay

CONSTANT k1

\* A connection of the relay is closed only while a call may still be refused for it; the
\* other closes change nothing the relay looks at.
CloseMatters ==
    connActive' # connActive =>
      \E k \in Calls : client[k] = "start" \/ job["src"].step \in {"admit", "destination", "admitRemote"}
=============================================================================
