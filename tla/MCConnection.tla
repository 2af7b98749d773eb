----------------------------- MODULE MCConnection -----------------------------
(* Instances of Connection for TLC. *)
EXTENDS ConnectionInv

CONSTANTS i1, o1, p1, r1, c1

Begun == seen \cup {o \in OutCalls : ~At(Caller(o), "begin")}
              \cup {p \in Pings : ~At(Pinger(p), "pingAdd")}
              \cup {r \in RelayCalls : ~At(Relay(r), "relay")}

\* The environment begins one call, of any kind.  No fairness is assumed of the
\* actions this rules out, so liveness is still checked on complete behaviours.
OneCall == Cardinality(Begun) <= 1

\* The deadline of one call passes, whichever.
OneDeadline == Cardinality({m \in Exchanges : ctx[m] = "deadline"}) <= 1

=============================================================================
