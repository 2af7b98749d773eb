------------------------------ MODULE Handshake ------------------------------
(***************************************************************************)
(* The handshake of a connection (preinit_connection.go): outboundHandshake *)
(* at the end that dialled and inboundHandshake at the end that accepted,   *)
(* over a socket with a deadline at each end.  The ends may be of different *)
(* versions of the library, or of other implementations that leave out      *)
(* parameters or answer with the wrong id.                                  *)
(***************************************************************************)
EXTENDS Naturals, Sequences

CONSTANT Versions    \* values of CurrentProtocolVersion

Ends == {"out", "in"}
Peer(e) == IF e = "out" THEN "in" ELSE "out"

VARIABLES version,   \* CurrentProtocolVersion of each end
          complete,  \* whether an end sends the required parameters
          sameId,    \* whether the accepting end answers with the id of the request
          at,        \* where the handshake of each end is
          channel,   \* messages on the way to each end
          closed,    \* ends that have closed the socket
          deadline   \* the deadline of the socket at each end: "init", "close" or none

handVars == <<version, complete, sameId, at, channel, closed, deadline>>
fixed == <<version, complete, sameId>>

HandInit ==
    /\ version \in [Ends -> Versions] /\ complete \in [Ends -> BOOLEAN] /\ sameId \in BOOLEAN
    /\ at = [out |-> "writeReq", in |-> "readReq"]
    /\ channel = [e \in Ends |-> <<>>]
    /\ closed = {}
    /\ deadline = [e \in Ends |-> "init"]    \* setInitDeadline

InitMessage(e, type) ==
    [type |-> type, version |-> version[e], params |-> complete[e], id |-> e = "out" \/ sameId]
ErrorMessage == [type |-> "error"]

\* A write reaches the peer, or is lost with a socket the peer has closed.
Send(e, msg) == channel' = IF Peer(e) \in closed THEN channel ELSE [channel EXCEPT ![Peer(e)] = Append(@, msg)]

\* The deferred initError: the error is written and the socket closed.  (The deadline is reset
\* on a closed socket.)
initError(e) ==
    /\ at[e] = "error"
    /\ Send(e, ErrorMessage)
    /\ closed' = closed \cup {e}
    /\ at' = [at EXCEPT ![e] = "failed"]
    /\ UNCHANGED <<fixed, deadline>>

\* A read or write fails: by the deadline, or because the socket is broken.
IOFails(e) ==
    /\ at[e] \in {"writeReq", "readReq", "writeRes", "readRes"}
    /\ at' = [at EXCEPT ![e] = "error"]
    /\ UNCHANGED <<fixed, channel, closed, deadline>>

writeInitReq ==
    /\ at["out"] = "writeReq"
    /\ Send("out", InitMessage("out", "initReq"))
    /\ at' = [at EXCEPT !["out"] = "readRes"]
    /\ UNCHANGED <<fixed, closed, deadline>>

\* inboundHandshake: the version of the peer may be higher
AcceptsReq(msg) == msg.type = "initReq" /\ msg.version >= version["in"] /\ msg.params

\* mutant: only inboundHandshake looks at the version
AcceptsRes_AnyVersion(msg) == msg.type = "initRes" /\ msg.id /\ msg.params

\* outboundHandshake: it may not
AcceptsRes(msg) == msg.type = "initRes" /\ msg.id /\ msg.version = version["out"] /\ msg.params

\* readMessage and the checks after it
readMessage(e) ==
    /\ at[e] = (IF e = "out" THEN "readRes" ELSE "readReq") /\ channel[e] # <<>>
    /\ LET msg == Head(channel[e]) IN
       at' = [at EXCEPT ![e] = IF e = "out" THEN IF AcceptsRes(msg) THEN "create" ELSE "error"
                               ELSE IF AcceptsReq(msg) THEN "writeRes" ELSE "error"]
    /\ channel' = [channel EXCEPT ![e] = Tail(@)]
    /\ UNCHANGED <<fixed, closed, deadline>>

writeInitRes ==
    /\ at["in"] = "writeRes"
    /\ Send("in", InitMessage("in", "initRes"))
    /\ at' = [at EXCEPT !["in"] = "create"]
    /\ UNCHANGED <<fixed, closed, deadline>>

\* newConnection starts readFrames and writeFrames.
newConnection(e) ==
    /\ at[e] = "create"
    /\ at' = [at EXCEPT ![e] = "created"]
    /\ UNCHANGED <<fixed, channel, closed, deadline>>

\* The function setInitDeadline returned runs when the handshake returns.
ResetDeadline(e) ==
    /\ at[e] = "created"
    /\ deadline' = [deadline EXCEPT ![e] = "none"]
    /\ at' = [at EXCEPT ![e] = "connected"]
    /\ UNCHANGED <<fixed, channel, closed>>

\* Connection.close, which sets the read deadline to MaxCloseTime
CloseConnection(e) ==
    /\ at[e] \in {"created", "connected"} /\ deadline[e] # "close"
    /\ deadline' = [deadline EXCEPT ![e] = "close"]
    /\ UNCHANGED <<fixed, at, channel, closed>>

HandNext ==
    \/ writeInitReq \/ writeInitRes
    \/ \E e \in Ends : \/ readMessage(e) \/ IOFails(e) \/ initError(e)
                       \/ newConnection(e) \/ ResetDeadline(e) \/ CloseConnection(e)

HandSpec == HandInit /\ [][HandNext]_handVars

(***************************************************************************)
(* Properties                                                              *)
(***************************************************************************)
\* If the end that dialled has a connection, both ends speak the same version, both have named
\* themselves, and the other end has one too or is about to: whatever fails or times out on the
\* way, there is no connection with one end.  A handshake that failed has closed its socket;
\* one that has returned a connection has left no deadline of its own, which would end the
\* connection after a few seconds.
HandshakeAgrees ==
    /\ at["out"] \in {"create", "created", "connected"} =>
           /\ version["out"] = version["in"] /\ complete["out"] /\ complete["in"]
           /\ at["in"] \in {"create", "created", "connected"}
    /\ \A e \in Ends : /\ at[e] = "failed" => e \in closed
                       /\ at[e] = "connected" => e \notin closed /\ deadline[e] # "init"
=============================================================================
