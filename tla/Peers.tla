-------------------------------- MODULE Peers --------------------------------
(***************************************************************************)
(* The Peer objects of one host:port: the root peer list that makes them, a *)
(* PeerList that refers to them, the connections they hold, and callers     *)
(* that ask a peer for a connection (peer.go, root_peer_list.go, and the    *)
(* parts of channel.go that tell peers about connections).                  *)
(*                                                                          *)
(* A Peer object is a number, in the order the root list made them; 0 is    *)
(* "no peer".  A step is one critical section of the root list, the peer    *)
(* list or a peer, or one read of a connection's state.                     *)
(***************************************************************************)
EXTENDS Naturals

CONSTANTS Callers,    \* goroutines that call GetConnection on the listed peer
          Dialled,    \* connections that Connect can make
          Accepted,   \* connections that the remote peer opens
          MaxPeers,   \* bound on the Peer objects made
          MaxListOps  \* bound on the calls of Add and Remove of the peer list

ASSUME PeersAssumption == /\ Dialled \cap Accepted = {}
                          /\ MaxPeers \in Nat \ {0} /\ MaxListOps \in Nat

VARIABLES
  root,      \* RootPeerList.peersByHostPort
  made,      \* Peer objects made so far
  entry,     \* PeerList.peersByHostPort
  scCount,   \* Peer.scCount
  conns,     \* Peer.inboundConnections and outboundConnections
  newConn,   \* Peer.newConnLock: the caller that holds it
  cstate,    \* connections: "new", "active", or "closing" for any later state
  dials,     \* for each Peer: connections made because a caller asked it
  listOps,   \* calls of the peer list so far
  pc, obj, link   \* of each goroutine: where it is, its peer, its connection

rootVars == <<root, made>>
peersVars == <<rootVars, entry, scCount, conns, newConn, cstate, dials, listOps, pc, obj, link>>
local == <<pc, obj, link>>

Conns == Dialled \cup Accepted
PeerIds == 1..MaxPeers
None == "none"
Closer(c) == <<"close", c>>
Acceptor(c) == <<"accept", c>>
Lister == <<"list">>
Adders == Callers \cup {Acceptor(c) : c \in Accepted}
Procs == Adders \cup {Closer(c) : c \in Conns} \cup {Lister}

\* Callers are goroutines of their own: neither the one that edits the list, nor nobody.
ASSUME CallersAssumption == Lister \notin Callers /\ None \notin Callers

PeersInit ==
  /\ root = 0 /\ made = 0 /\ entry = 0
  /\ scCount = [p \in PeerIds |-> 0] /\ conns = [p \in PeerIds |-> {}]
  /\ newConn = [p \in PeerIds |-> None]
  /\ cstate = [c \in Conns |-> "new"] /\ dials = [p \in PeerIds |-> {}]
  /\ listOps = 0
  /\ pc = [t \in Procs |-> "idle"] /\ obj = [t \in Procs |-> 0] /\ link = [t \in Procs |-> None]

Goto(t, l) == pc' = [pc EXCEPT ![t] = l]
Finish(t) == /\ pc' = [pc EXCEPT ![t] = "idle"]
             /\ obj' = [obj EXCEPT ![t] = 0] /\ link' = [link EXCEPT ![t] = None]

-----------------------------------------------------------------------------
\* RootPeerList.Get
RootGet(t, l) == /\ obj' = [obj EXCEPT ![t] = root]
                 /\ Goto(t, l)
                 /\ UNCHANGED rootVars

\* RootPeerList.Add, under the write lock: it looks again before it makes a peer.
RootAdd(t, l) ==
  /\ IF root # 0 THEN UNCHANGED rootVars
     ELSE made < MaxPeers /\ made' = made + 1 /\ root' = made + 1
  /\ obj' = [obj EXCEPT ![t] = root']
  /\ Goto(t, l)

\* addConnectionToPeer: GetOrAdd, then Peer.addConnection, which reads the state of
\* the connection before it takes the peer's lock.
GetOrAdd(t) ==
  /\ \/ pc[t] = "get" /\ RootGet(t, IF root = 0 THEN "add" ELSE "active")
     \/ pc[t] = "add" /\ RootAdd(t, "active")
  /\ UNCHANGED <<entry, scCount, conns, newConn, cstate, dials, listOps, link>>

AfterAdd(t) == IF t \in Callers THEN Goto(t, "unlock") /\ UNCHANGED <<obj, link>> ELSE Finish(t)

addConnection(t) ==
  /\ \/ /\ pc[t] = "active"
        /\ IF cstate[link[t]] = "active" THEN Goto(t, "append") /\ UNCHANGED <<obj, link>> ELSE AfterAdd(t)
        /\ UNCHANGED conns
     \/ /\ pc[t] = "append"
        /\ conns' = [conns EXCEPT ![obj[t]] = @ \cup {link[t]}]
        /\ AfterAdd(t)
  /\ UNCHANGED <<rootVars, entry, scCount, newConn, cstate, dials, listOps>>

\* An accepted connection becomes active (connectionActive).
Accept(c) ==
  /\ pc[Acceptor(c)] = "idle" /\ cstate[c] = "new"
  /\ cstate' = [cstate EXCEPT ![c] = "active"]
  /\ Goto(Acceptor(c), "get")
  /\ link' = [link EXCEPT ![Acceptor(c)] = c]
  /\ UNCHANGED <<rootVars, entry, scCount, conns, newConn, dials, listOps, obj>>

-----------------------------------------------------------------------------
\* Peer.getActiveConn: some connection that is active while the peer is read-locked
Active(p) == {c \in conns[p] : cstate[c] = "active"}

\* GetConnection and getConnectionRelay: look, take newConnLock, look again, connect.
GetConnection(t) ==
  /\ pc[t] = "idle" /\ entry # 0
  /\ obj' = [obj EXCEPT ![t] = entry]
  /\ Goto(t, "look")
  /\ UNCHANGED <<rootVars, entry, scCount, conns, newConn, cstate, dials, listOps, link>>

getActiveConn(t) ==
  /\ pc[t] = "look"
  /\ IF Active(obj[t]) # {} THEN Finish(t) ELSE Goto(t, "lock") /\ UNCHANGED <<obj, link>>
  /\ UNCHANGED <<rootVars, entry, scCount, conns, newConn, cstate, dials, listOps>>

lockNewConn(t) ==
  /\ pc[t] = "lock" /\ newConn[obj[t]] = None
  /\ newConn' = [newConn EXCEPT ![obj[t]] = t]
  /\ Goto(t, "again")
  /\ UNCHANGED <<rootVars, entry, scCount, conns, cstate, dials, listOps, obj, link>>

\* mutant: the second look is missing
lookAgain_Skip(t) ==
  /\ pc[t] = "again"
  /\ Goto(t, "connect")
  /\ UNCHANGED <<rootVars, entry, scCount, conns, newConn, cstate, dials, listOps, obj, link>>

lookAgain(t) ==
  /\ pc[t] = "again"
  /\ Goto(t, IF Active(obj[t]) # {} THEN "unlock" ELSE "connect")
  /\ UNCHANGED <<rootVars, entry, scCount, conns, newConn, cstate, dials, listOps, obj, link>>

\* Peer.Connect: the dial or the handshake fails, or there is a new active
\* connection, which connectionActive adds to the peer of its host:port.  While a
\* caller is in Connect the Peer it asked is the one whose newConnLock it holds.
Connect(t) ==
  /\ pc[t] = "connect"
  /\ \/ Goto(t, "unlock") /\ UNCHANGED <<cstate, dials, link>>
     \/ \E c \in Dialled : /\ cstate[c] = "new"
                           /\ cstate' = [cstate EXCEPT ![c] = "active"]
                           /\ link' = [link EXCEPT ![t] = c]
                           /\ dials' = [dials EXCEPT ![obj[t]] = @ \cup {c}]
                           /\ Goto(t, "get")
  /\ UNCHANGED <<rootVars, entry, scCount, conns, newConn, listOps, obj>>

\* mutant: newConnLock stays locked when a connection was found
unlockNewConn_Forget(t) ==
  /\ pc[t] = "unlock"
  /\ newConn' = [p \in PeerIds |-> IF newConn[p] = t /\ Active(p) = {} THEN None ELSE newConn[p]]
  /\ Finish(t)
  /\ UNCHANGED <<rootVars, entry, scCount, conns, cstate, dials, listOps>>

unlockNewConn(t) ==
  /\ pc[t] = "unlock"
  /\ newConn' = [p \in PeerIds |-> IF newConn[p] = t THEN None ELSE newConn[p]]
  /\ Finish(t)
  /\ UNCHANGED <<rootVars, entry, scCount, conns, cstate, dials, listOps>>

-----------------------------------------------------------------------------
\* A connection leaves connectionActive, and each later move of its state runs
\* connectionCloseStateChange once more.
CloseState(c) ==
  /\ pc[Closer(c)] = "idle" /\ cstate[c] # "new"
  /\ cstate' = [cstate EXCEPT ![c] = "closing"]
  /\ Goto(Closer(c), "cbGet")
  /\ link' = [link EXCEPT ![Closer(c)] = c]
  /\ UNCHANGED <<rootVars, entry, scCount, conns, newConn, dials, listOps, obj>>

FindPeer(t) ==
  /\ pc[t] = "cbGet"
  /\ IF root = 0 THEN Finish(t) /\ UNCHANGED rootVars
                 ELSE RootGet(t, "cbRemove") /\ UNCHANGED link
  /\ UNCHANGED <<entry, scCount, conns, newConn, cstate, dials, listOps>>

\* Peer.connectionCloseStateChange and removeConnection
connectionCloseStateChange(t) ==
  /\ pc[t] = "cbRemove"
  /\ conns' = [conns EXCEPT ![obj[t]] = @ \ {link[t]}]
  /\ IF link[t] \in conns[obj[t]] THEN Goto(t, "rmGet") /\ UNCHANGED <<obj, link>> ELSE Finish(t)
  /\ UNCHANGED <<rootVars, entry, scCount, newConn, cstate, dials, listOps>>

canRemove(p) == conns[p] = {} /\ scCount[p] = 0

\* RootPeerList.onClosedConnRemoved looks the peer up, asks it, and deletes whatever
\* the host:port maps to by then, in three critical sections.
onClosedConnRemoved(t) ==
  /\ \/ /\ pc[t] = "rmGet"
        /\ IF root = 0 THEN Finish(t) /\ UNCHANGED rootVars
                       ELSE RootGet(t, "rmCan") /\ UNCHANGED link
     \/ /\ pc[t] = "rmCan"
        /\ IF canRemove(obj[t]) THEN Goto(t, "rmDelete") /\ UNCHANGED <<obj, link>> ELSE Finish(t)
        /\ UNCHANGED rootVars
     \/ /\ pc[t] = "rmDelete"
        /\ root' = 0
        /\ Finish(t)
        /\ UNCHANGED made
  /\ UNCHANGED <<entry, scCount, conns, newConn, cstate, dials, listOps>>

-----------------------------------------------------------------------------
\* PeerList.Add holds the lock of the list while it asks the root list, counts its
\* reference and stores the peer.
ListAdd ==
  /\ \/ /\ pc[Lister] = "idle" /\ entry = 0 /\ listOps < MaxListOps
        /\ listOps' = listOps + 1
        /\ RootGet(Lister, IF root = 0 THEN "add" ELSE "addSC")
        /\ UNCHANGED <<entry, scCount, link>>
     \/ /\ pc[Lister] = "add"
        /\ RootAdd(Lister, "addSC")
        /\ UNCHANGED <<entry, scCount, listOps, link>>
     \/ /\ pc[Lister] = "addSC"
        /\ scCount' = [scCount EXCEPT ![obj[Lister]] = @ + 1]
        /\ entry' = obj[Lister]
        /\ Finish(Lister)
        /\ UNCHANGED <<rootVars, listOps>>
  /\ UNCHANGED <<conns, newConn, cstate, dials>>

ListRemove ==
  /\ pc[Lister] = "idle" /\ entry # 0 /\ listOps < MaxListOps
  /\ scCount' = [scCount EXCEPT ![entry] = @ - 1]
  /\ entry' = 0 /\ listOps' = listOps + 1
  /\ UNCHANGED <<rootVars, conns, newConn, cstate, dials, local>>

PeerStep(t) ==
  \/ t \in Adders /\ (GetOrAdd(t) \/ addConnection(t))
  \/ getActiveConn(t) \/ lockNewConn(t) \/ lookAgain(t) \/ Connect(t) \/ unlockNewConn(t)
  \/ FindPeer(t) \/ connectionCloseStateChange(t) \/ onClosedConnRemoved(t)

PeersNext ==
  \/ \E t \in Procs : PeerStep(t)
  \/ \E t \in Callers : GetConnection(t)
  \/ \E c \in Accepted : Accept(c)
  \/ \E c \in Conns : CloseState(c)
  \/ ListAdd \/ ListRemove

PeersSpec == PeersInit /\ [][PeersNext]_peersVars

\* Goroutines are scheduled; Connect ends by the deadline of its context.  sync.Mutex
\* hands newConnLock to a waiter that has waited long (its starvation mode).
PeersFairness ==
  \A t \in Procs : /\ WF_peersVars(PeerStep(t))
                   /\ t \in Callers => SF_peersVars(lockNewConn(t))

PeersFairSpec == PeersSpec /\ PeersFairness

-----------------------------------------------------------------------------
\* Callers that ask the same Peer share a connection: of the connections made for it
\* at most one is active and in use, as long as the root list has that Peer
\* ("restrict new connection creation attempts to one goroutine").
OneDial ==
  \A p \in PeerIds : root = p =>
    \A c, d \in dials[p] : cstate[c] = "active" /\ cstate[d] = "active" => c = d

\* A caller that asks for a connection gets an answer: newConnLock is always freed.
CallersReturn == \A t \in Callers : pc[t] = "look" ~> pc[t] = "idle"
=============================================================================
