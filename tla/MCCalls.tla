------------------------------ MODULE MCCalls ------------------------------
(***************************************************************************)
(* Two views of one call in one run: its arguments in fragments            *)
(* (Fragments) and the attempts of a Thrift client (ThriftCalls).  A       *)
(* behaviour belongs to one of the two; the other stays where it begins.   *)
(***************************************************************************)
EXTENDS Fragments, ThriftCalls

VARIABLE part

FragPark == FragInit /\ lens = [i \in Args |-> 0]
CallsPark ==
    CallsInit /\ via = "processor" /\ m = (CHOOSE x \in Processors : TRUE) /\ skew = "none"

InFragments(A) == part = "fragments" /\ A /\ UNCHANGED <<callVars, part>>
InCalls(A) == part = "calls" /\ A /\ UNCHANGED <<fragVars, part>>

\* The first argument, the method, is at most one byte.
MCInit == \/ part = "fragments" /\ FragInit /\ lens[1] <= 1 /\ CallsPark
          \/ part = "calls" /\ FragPark /\ CallsInit

MCNext == InFragments(FragNext) \/ InCalls(CallsNext)

\* The fairness of the two specifications.  A part has no step of the other, so one formula
\* can stand for a fair action of each.
MCFairness ==
    /\ WF_<<fragVars, callVars>>(InFragments(WriterCall) \/ InCalls(ClientStep))
    /\ WF_fragVars(InFragments(ReaderCall))

MCSpec == MCInit /\ [][MCNext]_<<fragVars, callVars, part>> /\ MCFairness
=============================================================================
