------------------------------- MODULE MCPeers -------------------------------
(***************************************************************************)
(* How a channel gets its connections and keeps them, in one run: the      *)
(* peers that share them (Peers), the listener (Listener), the handshake   *)
(* (Handshake), the health check (HealthCheck), and the Hyperbahn client   *)
(* that advertises the channel (Advertise).  A behaviour belongs to one of *)
(* them; the others stay where they begin.                                 *)
(***************************************************************************)
EXTENDS Peers, Listener, Handshake, HealthCheck, Advertise

CONSTANTS t1, t2, a, b, d

VARIABLE part

HandPark == HandInit /\ version = [e \in Ends |-> 2] /\ complete = [e \in Ends |-> TRUE] /\ sameId
AdPark == AdInit /\ client.fatal

InPeers(A) == part = "peers" /\ A /\ UNCHANGED <<listenerVars, handVars, healthVars, adVars, part>>
InListener(A) == part = "listener" /\ A /\ UNCHANGED <<peersVars, handVars, healthVars, adVars, part>>
InHandshake(A) == part = "handshake" /\ A /\ UNCHANGED <<peersVars, listenerVars, healthVars, adVars, part>>
InHealth(A) == part = "health" /\ A /\ UNCHANGED <<peersVars, listenerVars, handVars, adVars, part>>
InAdvertise(A) == part = "advertise" /\ A /\ UNCHANGED <<peersVars, listenerVars, handVars, healthVars, part>>

MCInit ==
    /\ PeersInit /\ ListenerInit /\ HealthInit
    /\ \/ part \in {"peers", "listener", "health"} /\ HandPark /\ AdPark
       \/ part = "handshake" /\ HandInit /\ AdPark
       \/ part = "advertise" /\ HandPark /\ AdInit

MCNext == InPeers(PeersNext) \/ InListener(ListenerNext) \/ InHandshake(HandNext)
          \/ InHealth(HealthNext) \/ InAdvertise(AdNext)

\* The fairness of the specifications
MCFairness ==
    /\ \A t \in Procs : /\ WF_peersVars(InPeers(PeerStep(t)))
                        /\ t \in Callers => SF_peersVars(InPeers(lockNewConn(t)))
    /\ WF_<<listenerVars, healthVars>>(InListener(ListenerStep) \/ InHealth(HealthStep))

MCSpec == /\ MCInit /\ MCFairness
          /\ [][MCNext]_<<peersVars, listenerVars, handVars, healthVars, adVars, part>>

\* The accepted connection and the second dialled one are not both used.
Explored == cstate'[a] = "new" \/ cstate'[d] = "new"
=============================================================================
