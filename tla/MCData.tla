------------------------------- MODULE MCData -------------------------------
(***************************************************************************)
(* Three data structures in one run: frames (RelayFrames), structs         *)
(* (ThriftWires) and the heap of a peer list (PeerHeap).  A behaviour      *)
(* belongs to one of them.                                                 *)
(***************************************************************************)
EXTENDS RelayFrames, ThriftWires, PeerHeap

CONSTANTS p1, p2, p3

VARIABLE data

\* Two peers on one host
MCHostOf == [p \in HostPorts |-> IF p = p3 THEN "b" ELSE "a"]

\* The two are alike: no definition but the choice from one element tells peers apart.
SameHost == Permutations({p1, p2})

\* No request and no struct
NoFrame ==
    /\ req = [msg |-> [ttl |-> 0, span |-> Put(0, SpanLen), service |-> <<>>, headers |-> <<>>],
              more |-> FALSE, csum |-> 0, chunks |-> <<>>, rest |-> <<>>]
    /\ size = 0 /\ appends = <<>>
NoWire == struct = "InvalidKey" /\ wire = <<>>

MCInit ==
    /\ HeapInit
    /\ \/ data = "frames" /\ FrameInit /\ NoWire
       \/ data = "structs" /\ NoFrame /\ WireInit
       \/ data = "heap" /\ NoFrame /\ NoWire

MCNext ==
    /\ \/ data = "frames" /\ FrameNext /\ UNCHANGED <<wireVars, heapVars>>
       \/ data = "structs" /\ AddField /\ UNCHANGED <<frameVars, heapVars>>
       \/ data = "heap" /\ HeapNext /\ UNCHANGED <<frameVars, wireVars>>
    /\ UNCHANGED data

MCSpec == MCInit /\ [][MCNext]_<<frameVars, wireVars, heapVars, data>>
=============================================================================
