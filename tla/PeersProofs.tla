----------------------------- MODULE PeersProofs ----------------------------
(***************************************************************************)
(* What the peers, the health check and the handshake promise, for any     *)
(* number of goroutines, connections and pings, any sizes and any versions. *)
(***************************************************************************)
EXTENDS Peers, HealthCheck, Handshake, Integers, TLAPS

-----------------------------------------------------------------------------
(* The peers *)

\* Callers of the same Peer share a connection, for any number of callers,
\* connections and Peer objects.

\* Where a goroutine may be
PeerLabels ==
    {"idle", "look", "lock", "again", "connect", "unlock", "get", "add", "active", "append",
     "cbGet", "cbRemove", "rmGet", "rmCan", "rmDelete", "addSC"}

\* The type of each variable
PeersTypeOK ==
    /\ made \in 0..MaxPeers /\ root \in {0, made} /\ entry \in 0..made
    /\ conns \in [PeerIds -> SUBSET Conns] /\ dials \in [PeerIds -> SUBSET Dialled]
    /\ newConn \in [PeerIds -> Callers \cup {None}]
    /\ cstate \in [Conns -> {"new", "active", "closing"}]
    /\ pc \in [Procs -> PeerLabels]
    /\ obj \in [Procs -> 0..MaxPeers] /\ link \in [Procs -> Conns \cup {None}]

\* The connections made for a Peer that are in use
InUse(p) == {c \in dials[p] : cstate[c] = "active"}

\* A Peer that the root list has yet to make was never asked; a connection made for
\* a Peer is past its handshake.
DialsMade ==
    /\ \A p \in PeerIds : p > made => dials[p] = {}
    /\ \A p \in PeerIds : \A c \in dials[p] : cstate[c] # "new"

\* What a goroutine knows: in GetConnection its Peer is one the root list made, and
\* from the second look on it holds the newConnLock of that Peer, which has no
\* connection in use when Connect begins.
GoroutineOK(t) ==
    /\ obj[t] <= made
    /\ pc[t] \in {"look", "lock", "again", "connect", "unlock"} => t \in Callers
    /\ pc[t] \in {"look", "lock", "again", "connect"} => obj[t] # 0
    /\ pc[t] \in {"again", "connect"} => newConn[obj[t]] = t
    /\ pc[t] = "connect" /\ root = obj[t] => InUse(obj[t]) = {}
    /\ pc[t] \in {"cbGet", "cbRemove"} => link[t] \in Conns /\ cstate[link[t]] = "closing"
    /\ t \in Adders /\ pc[t] \in {"get", "add", "active", "append"} => link[t] \in Conns

\* The caller that made c, on its way to add it to the Peer of the root list, still
\* holds the newConnLock.
OnItsWay(t, c) ==
    /\ newConn[root] = t /\ link[t] = c
    /\ pc[t] \in {"get", "add"} \/ (pc[t] \in {"active", "append"} /\ obj[t] = root)

\* The connection in use for the Peer of the root list is one of its connections,
\* where the next caller finds it, or on its way there; and there is only one.
SharedInv ==
    root # 0 => /\ \A c \in InUse(root) : c \in conns[root] \/ \E t \in Callers : OnItsWay(t, c)
                /\ \A c, d \in InUse(root) : c = d

\* The inductive invariant
PeersInv == PeersTypeOK /\ DialsMade /\ (\A t \in Procs : GoroutineOK(t)) /\ SharedInv

\* The goroutines of the model are different.
LEMMA PeersNames ==
    /\ \A t \in Callers : t \in Procs /\ t \in Adders
    /\ \A c \in Accepted : Acceptor(c) \in Procs
    /\ \A c \in Conns : Closer(c) \in Procs
    /\ Lister \in Procs /\ Lister \notin Adders /\ Lister \notin Callers /\ None \notin Callers
<1>1. \A c \in Accepted : Acceptor(c) # Lister BY DEF Acceptor, Lister
<1>2. Lister \notin Adders BY <1>1, CallersAssumption, Zenon DEF Adders
<1> QED BY <1>2, CallersAssumption, Zenon DEF Procs, Adders

\* Goroutine t moves, the others stay.
PeerMoves(t) ==
    /\ pc' \in [Procs -> PeerLabels] /\ obj' \in [Procs -> 0..MaxPeers] /\ link' \in [Procs -> Conns \cup {None}]
    /\ \A q \in Procs : q # t => pc'[q] = pc[q] /\ obj'[q] = obj[q] /\ link'[q] = link[q]

\* A step that keeps the Peer and the connection at hand
LEMMA PeerGoto ==
    ASSUME PeersTypeOK, NEW t \in Procs, NEW l \in PeerLabels, Goto(t, l), UNCHANGED <<obj, link>>
    PROVE  PeerMoves(t) /\ pc'[t] = l /\ obj'[t] = obj[t] /\ link'[t] = link[t]
BY Zenon DEF PeersTypeOK, Goto, PeerMoves

\* A goroutine that is done has no Peer and no connection at hand.
LEMMA PeerFinish ==
    ASSUME PeersTypeOK, NEW t \in Procs, Finish(t)
    PROVE  PeerMoves(t) /\ pc'[t] = "idle" /\ obj'[t] = 0 /\ link'[t] = None
<1>1. "idle" \in PeerLabels BY Zenon DEF PeerLabels
<1>2. 0 \in 0..MaxPeers BY PeersAssumption
<1> QED BY <1>1, <1>2, Zenon DEF PeersTypeOK, Finish, PeerMoves

\* A step that takes a Peer
LEMMA PeerTakes ==
    ASSUME PeersTypeOK, NEW t \in Procs, NEW l \in PeerLabels, NEW p \in 0..MaxPeers,
           Goto(t, l), obj' = [obj EXCEPT ![t] = p], UNCHANGED link
    PROVE  PeerMoves(t) /\ pc'[t] = l /\ obj'[t] = p /\ link'[t] = link[t]
BY Zenon DEF PeersTypeOK, Goto, PeerMoves

\* A step that takes a connection
LEMMA PeerLinks ==
    ASSUME PeersTypeOK, NEW t \in Procs, NEW l \in PeerLabels, NEW c \in Conns,
           Goto(t, l), link' = [link EXCEPT ![t] = c], UNCHANGED obj
    PROVE  PeerMoves(t) /\ pc'[t] = l /\ obj'[t] = obj[t] /\ link'[t] = c
BY Zenon DEF PeersTypeOK, Goto, PeerMoves

\* A goroutine that is idle or looks a Peer up knows nothing that could be wrong.
LEMMA IdleGoroutine ==
    ASSUME PeersTypeOK', NEW t \in Procs,
           pc'[t] \in {"idle", "rmGet", "rmCan", "rmDelete", "addSC"}, obj'[t] <= made'
    PROVE  GoroutineOK(t)'
BY Zenon DEF GoroutineOK

\* What a goroutine knows stays true when another one moves.
LEMMA OtherGoroutine ==
    ASSUME PeersTypeOK, NEW q \in Procs, GoroutineOK(q),
           pc'[q] = pc[q], obj'[q] = obj[q], link'[q] = link[q], made \in 0..MaxPeers, made' \in 0..MaxPeers, made <= made',
           q \in Callers /\ obj[q] \in PeerIds /\ newConn[obj[q]] = q => newConn'[obj[q]] = q,
           pc[q] = "connect" /\ root' = obj[q] => root = obj[q] /\ InUse(obj[q])' \subseteq InUse(obj[q]),
           \A c \in Conns : cstate[c] = "closing" => cstate'[c] = "closing"
    PROVE  GoroutineOK(q)'
<1>1. obj[q] \in 0..MaxPeers BY Zenon DEF PeersTypeOK
<1>2. obj'[q] <= made'
  <2>1. obj[q] <= made BY Zenon DEF GoroutineOK
  <2> QED BY <1>1, <2>1
<1>3. obj[q] # 0 => obj[q] \in PeerIds BY <1>1 DEF PeerIds
<1>4. pc[q] \in {"again", "connect"} => newConn'[obj[q]] = q BY <1>3, Zenon DEF GoroutineOK
<1>5. pc[q] = "connect" /\ root' = obj[q] => InUse(obj[q])' = {} BY Zenon DEF GoroutineOK
<1> QED BY <1>2, <1>4, <1>5, Zenon DEF GoroutineOK

\* The root list keeps its Peer, drops it, or makes the next one.
RootMoves ==
    \/ root' = root /\ made' = made
    \/ root' = 0 /\ made' = made
    \/ made' = made + 1 /\ root' = made' /\ made < MaxPeers

\* The steps that open or close no connection and leave the newConnLocks alone
LEMMA PeersCalm ==
    ASSUME PeersInv, NEW t \in Procs, PeerMoves(t), UNCHANGED <<newConn, cstate, dials>>, RootMoves,
           entry' \in 0..made', conns' \in [PeerIds -> SUBSET Conns],
           \A p \in PeerIds : \A c \in conns[p] : c \in conns'[p] \/ cstate[c] # "active",
           PeersTypeOK' => GoroutineOK(t)',
           \A c \in Conns : root # 0 /\ root' = root /\ t \in Callers /\ OnItsWay(t, c) /\ cstate[c] = "active"
                           => OnItsWay(t, c)' \/ c \in conns'[root]
    PROVE  PeersInv'
<1> USE PeersAssumption
<1>1. PeersTypeOK /\ DialsMade /\ SharedInv /\ \A q \in Procs : GoroutineOK(q) BY Zenon DEF PeersInv
<1>2. made \in 0..MaxPeers /\ root \in {0, made} BY <1>1, Zenon DEF PeersTypeOK
<1>3. made' \in 0..MaxPeers /\ root' \in {0, made'} /\ made <= made' BY <1>2 DEF RootMoves
<1>4. PeersTypeOK' BY <1>1, <1>3, Zenon DEF PeersTypeOK, PeerMoves
<1>5. DialsMade'
  <2>1. \A p \in PeerIds : p > made' => p > made BY <1>2, <1>3 DEF PeerIds
  <2> QED BY <1>1, <2>1, Zenon DEF DialsMade
<1>7. ASSUME root' # root, root' # 0 PROVE root' \in PeerIds /\ root' > made BY <1>2, <1>7 DEF RootMoves, PeerIds
<1>8. ASSUME NEW q \in Procs, q # t PROVE GoroutineOK(q)'
  <2>1. pc'[q] = pc[q] /\ obj'[q] = obj[q] /\ link'[q] = link[q] BY <1>8, Zenon DEF PeerMoves
  <2>2. obj[q] <= made /\ obj[q] \in 0..MaxPeers BY <1>1, Zenon DEF GoroutineOK, PeersTypeOK
  <2>3. pc[q] = "connect" => obj[q] # 0 BY <1>1, Zenon DEF GoroutineOK
  <2>4. pc[q] = "connect" /\ root' = obj[q] => root = obj[q] BY <1>2, <1>7, <2>2, <2>3
  <2>6. pc[q] = "connect" => InUse(obj[q])' \subseteq InUse(obj[q]) BY <2>1, Zenon DEF InUse
  <2> QED BY <1>1, <1>2, <1>3, <2>1, <2>4, <2>6, OtherGoroutine, Zenon
<1>9. SharedInv'
  <2>1. CASE root' = 0 BY <2>1, Zenon DEF SharedInv
  <2>2. CASE root' # root /\ root' # 0
    <3>1. InUse(root)' = {} BY <1>1, <1>7, <2>2, Zenon DEF DialsMade, InUse
    <3> QED BY <3>1, Zenon DEF SharedInv, InUse
  <2>3. CASE root' = root /\ root # 0
    <3>1. root \in PeerIds BY <1>2, <2>3 DEF PeerIds
    <3>2. InUse(root)' = InUse(root) BY <2>3, Zenon DEF InUse
    <3>3. \A c \in InUse(root) : c \in Conns /\ cstate[c] = "active"
      BY <1>1, <3>1, Zenon DEF InUse, PeersTypeOK, Conns
    <3>4. ASSUME NEW c \in InUse(root) PROVE c \in conns'[root] \/ \E q \in Callers : OnItsWay(q, c)'
      <4>1. CASE c \in conns[root] BY <3>1, <3>3, <3>4, <4>1, Zenon
      <4>2. ASSUME NEW q \in Callers, OnItsWay(q, c) PROVE c \in conns'[root] \/ \E r \in Callers : OnItsWay(r, c)'
        <5>1. CASE q = t BY <2>3, <3>3, <3>4, <4>2, <5>1, Zenon
        <5>2. CASE q # t
          <6>1. q \in Procs BY <4>2, PeersNames, Zenon
          <6>2. OnItsWay(q, c)' BY <2>3, <4>2, <5>2, <6>1, Zenon DEF OnItsWay, PeerMoves
          <6> QED BY <4>2, <6>2, Zenon
        <5> QED BY <5>1, <5>2, Zenon
      <4> QED BY <1>1, <2>3, <3>4, <4>1, <4>2, Zenon DEF SharedInv
    <3> QED BY <1>1, <2>3, <3>2, <3>4, Zenon DEF SharedInv
  <2> QED BY <2>1, <2>2, <2>3, Zenon
<1> QED BY <1>4, <1>5, <1>8, <1>9, Zenon DEF PeersInv

\* The same for a goroutine that is not adding a connection and leaves those of the peers alone
LEMMA PeersQuiet ==
    ASSUME PeersInv, NEW t \in Procs, PeerMoves(t), UNCHANGED <<newConn, cstate, dials, conns>>, RootMoves,
           entry' \in 0..made', PeersTypeOK' => GoroutineOK(t)',
           t \notin Callers \/ pc[t] \notin {"get", "add", "active", "append"}
    PROVE  PeersInv'
<1>1. conns' \in [PeerIds -> SUBSET Conns] BY Zenon DEF PeersInv, PeersTypeOK
<1>2. \A c \in Conns : t \in Callers => ~OnItsWay(t, c) BY Zenon DEF OnItsWay
<1> QED BY <1>1, <1>2, PeersCalm, Zenon

\* GetConnection and its first look for an active connection keep the invariant.
LEMMA LooksKeep ==
    ASSUME PeersInv, NEW t \in Procs, getActiveConn(t) \/ (t \in Callers /\ GetConnection(t))
    PROVE  PeersInv'
<1> USE PeersAssumption
<1>1. PeersTypeOK /\ GoroutineOK(t) /\ entry \in 0..made /\ made \in 0..MaxPeers /\ obj[t] \in 0..MaxPeers
  BY Zenon DEF PeersInv, PeersTypeOK
<1>2. /\ UNCHANGED <<newConn, cstate, dials, conns>> /\ entry' \in 0..made' /\ RootMoves /\ made' = made
  BY <1>1, Zenon DEF getActiveConn, GetConnection, RootMoves, rootVars
<1>3. "lock" \in PeerLabels /\ "look" \in PeerLabels BY Zenon DEF PeerLabels
<1>4. CASE getActiveConn(t)
  <2>1. pc[t] = "look" BY <1>4, Zenon DEF getActiveConn
  <2>2. CASE Finish(t)
    <3>1. PeerMoves(t) /\ pc'[t] = "idle" /\ obj'[t] = 0 BY <1>1, <2>2, PeerFinish, Zenon
    <3>2. obj'[t] <= made' BY <1>1, <1>2, <3>1
    <3> QED BY <1>2, <2>1, <3>1, <3>2, PeersQuiet, IdleGoroutine, Zenon
  <2>3. CASE Goto(t, "lock") /\ UNCHANGED <<obj, link>>
    <3>1. PeerMoves(t) /\ pc'[t] = "lock" /\ obj'[t] = obj[t] BY <1>1, <1>3, <2>3, PeerGoto, Zenon
    <3>2. t \in Callers /\ obj[t] # 0 /\ obj[t] <= made BY <1>1, <2>1, Zenon DEF GoroutineOK
    <3>3. GoroutineOK(t)' BY <1>2, <3>1, <3>2, Zenon DEF GoroutineOK
    <3> QED BY <1>2, <2>1, <3>1, <3>3, PeersQuiet, Zenon
  <2> QED BY <1>4, <2>2, <2>3, Zenon DEF getActiveConn
<1>5. CASE t \in Callers /\ GetConnection(t)
  <2>1. pc[t] = "idle" /\ entry # 0 BY <1>5, Zenon DEF GetConnection
  <2>2. entry \in 0..MaxPeers /\ entry <= made BY <1>1
  <2>3. PeerMoves(t) /\ pc'[t] = "look" /\ obj'[t] = entry BY <1>1, <1>3, <1>5, <2>2, PeerTakes, Zenon DEF GetConnection
  <2>4. GoroutineOK(t)' BY <1>2, <1>5, <2>1, <2>2, <2>3, Zenon DEF GoroutineOK
  <2> QED BY <1>2, <2>1, <2>3, <2>4, PeersQuiet, Zenon
<1> QED BY <1>4, <1>5, Zenon

\* The second look finds the connection of another caller of the Peer, which is no
\* longer on its way: this caller holds the newConnLock.
LEMMA lookAgainKeeps ==
    ASSUME PeersInv, NEW t \in Procs, lookAgain(t)
    PROVE  PeersInv'
<1>1. PeersTypeOK /\ GoroutineOK(t) /\ SharedInv /\ entry \in 0..made BY Zenon DEF PeersInv, PeersTypeOK
<1>2. /\ UNCHANGED <<newConn, cstate, dials, conns>> /\ entry' \in 0..made' /\ RootMoves /\ made' = made /\ root' = root
  BY <1>1, Zenon DEF lookAgain, RootMoves, rootVars
<1>3. pc[t] = "again" BY Zenon DEF lookAgain
<1>4. t \in Callers /\ obj[t] # 0 /\ newConn[obj[t]] = t /\ obj[t] <= made BY <1>1, <1>3, Zenon DEF GoroutineOK
<1>5. "unlock" \in PeerLabels /\ "connect" \in PeerLabels BY Zenon DEF PeerLabels
<1>6. CASE Goto(t, "unlock") /\ UNCHANGED <<obj, link>>
  <2>1. PeerMoves(t) /\ pc'[t] = "unlock" /\ obj'[t] = obj[t] BY <1>1, <1>5, <1>6, PeerGoto, Zenon
  <2>2. GoroutineOK(t)' BY <1>2, <1>4, <2>1, Zenon DEF GoroutineOK
  <2> QED BY <1>2, <1>3, <2>1, <2>2, PeersQuiet, Zenon
<1>7. CASE Goto(t, "connect") /\ Active(obj[t]) = {} /\ UNCHANGED <<obj, link>>
  <2>1. PeerMoves(t) /\ pc'[t] = "connect" /\ obj'[t] = obj[t] BY <1>1, <1>5, <1>7, PeerGoto, Zenon
  <2>2. ASSUME root = obj[t] PROVE InUse(root) = {}
    <3>1. ASSUME NEW c \in InUse(root) PROVE FALSE
      <4>1. cstate[c] = "active" BY <3>1, Zenon DEF InUse
      <4>2. c \notin conns[root] BY <1>7, <2>2, <4>1, Zenon DEF Active
      <4>3. PICK q \in Callers : OnItsWay(q, c) BY <1>1, <1>4, <2>2, <3>1, <4>2, Zenon DEF SharedInv
      <4>4. q = t /\ pc[q] \in {"get", "add", "active", "append"} BY <1>4, <2>2, <4>3, Zenon DEF OnItsWay
      <4> QED BY <1>3, <4>4, Zenon
    <3> QED BY <3>1, Zenon
  <2>3. root' = obj'[t] => InUse(obj[t])' = {} BY <1>2, <2>1, <2>2, Zenon DEF InUse
  <2>4. GoroutineOK(t)' BY <1>2, <1>4, <2>1, <2>3, Zenon DEF GoroutineOK
  <2> QED BY <1>2, <1>3, <2>1, <2>4, PeersQuiet, Zenon
<1> QED BY <1>6, <1>7, Zenon DEF lookAgain

\* RootPeerList.Add gives the Peer it has, or a new one.
LEMMA RootAddMoves ==
    ASSUME PeersTypeOK, NEW t \in Procs, NEW l \in PeerLabels, RootAdd(t, l), UNCHANGED link
    PROVE  /\ RootMoves /\ root' # 0 /\ (root # 0 => root' = root) /\ made' \in 0..MaxPeers /\ made <= made'
           /\ PeerMoves(t) /\ pc'[t] = l /\ obj'[t] = root' /\ link'[t] = link[t] /\ obj'[t] <= made'
<1> USE PeersAssumption
<1>1. made \in 0..MaxPeers /\ root \in {0, made} BY Zenon DEF PeersTypeOK
<1>2. RootMoves /\ root' # 0 /\ (root # 0 => root' = root) BY <1>1 DEF RootAdd, RootMoves, rootVars
<1>3. made' \in 0..MaxPeers /\ made <= made' /\ root' \in 0..MaxPeers /\ root' <= made' BY <1>1, <1>2 DEF RootMoves
<1>4. PeerMoves(t) /\ pc'[t] = l /\ obj'[t] = root' /\ link'[t] = link[t]
  BY <1>3, Zenon DEF PeersTypeOK, RootAdd, Goto, PeerMoves
<1> QED BY <1>2, <1>3, <1>4, Zenon

\* RootPeerList.Get gives the Peer it has, or none.
LEMMA RootGetMoves ==
    ASSUME PeersTypeOK, NEW t \in Procs, NEW l \in PeerLabels, RootGet(t, l), UNCHANGED link
    PROVE  /\ RootMoves /\ root' = root /\ made' = made
           /\ PeerMoves(t) /\ pc'[t] = l /\ obj'[t] = root /\ link'[t] = link[t] /\ obj'[t] <= made'
<1> USE PeersAssumption
<1>1. made \in 0..MaxPeers /\ root \in {0, made} BY Zenon DEF PeersTypeOK
<1>2. root \in 0..MaxPeers /\ root <= made BY <1>1
<1>3. RootMoves /\ root' = root /\ made' = made BY Zenon DEF RootGet, RootMoves, rootVars
<1>4. PeerMoves(t) /\ pc'[t] = l /\ obj'[t] = root /\ link'[t] = link[t] BY <1>2, PeerTakes, Zenon DEF RootGet
<1> QED BY <1>2, <1>3, <1>4, Zenon

\* Getting or adding the Peer keeps the invariant.
LEMMA GetOrAddKeeps ==
    ASSUME PeersInv, NEW t \in Adders, GetOrAdd(t)
    PROVE  PeersInv'
<1> USE PeersAssumption
<1>1. t \in Procs BY Zenon DEF Procs
<1>2. PeersTypeOK /\ GoroutineOK(t) /\ entry \in 0..made /\ made \in 0..MaxPeers /\ conns \in [PeerIds -> SUBSET Conns]
  BY <1>1, Zenon DEF PeersInv, PeersTypeOK
<1>3. UNCHANGED <<newConn, cstate, dials, conns, entry, link>> BY Zenon DEF GetOrAdd
<1>4. "add" \in PeerLabels /\ "active" \in PeerLabels BY Zenon DEF PeerLabels
<1>5. pc[t] \in {"get", "add"} /\ link[t] \in Conns BY <1>2, Zenon DEF GetOrAdd, GoroutineOK
<1>6. /\ RootMoves /\ PeerMoves(t) /\ obj'[t] <= made' /\ made <= made' /\ made' \in 0..MaxPeers
      /\ \/ pc'[t] = "add" /\ root' = 0
         \/ pc'[t] = "active" /\ obj'[t] = root'
  <2>1. CASE pc[t] = "get" /\ RootGet(t, IF root = 0 THEN "add" ELSE "active")
    <3>1. CASE root = 0
      <4>1. RootGet(t, "add") BY <2>1, <3>1, Zenon
      <4> QED BY <1>1, <1>2, <1>3, <1>4, <3>1, <4>1, RootGetMoves
    <3>2. CASE root # 0
      <4>1. RootGet(t, "active") BY <2>1, <3>2, Zenon
      <4> QED BY <1>1, <1>2, <1>3, <1>4, <4>1, RootGetMoves
    <3> QED BY <3>1, <3>2, Zenon
  <2>2. CASE RootAdd(t, "active") BY <1>1, <1>2, <1>3, <1>4, <2>2, RootAddMoves, Zenon
  <2> QED BY <2>1, <2>2, Zenon DEF GetOrAdd
<1>7. entry' \in 0..made' BY <1>2, <1>3, <1>6
<1>8. GoroutineOK(t)' BY <1>3, <1>5, <1>6, Zenon DEF GoroutineOK
<1>9. \A c \in Conns : root # 0 /\ root' = root /\ t \in Callers /\ OnItsWay(t, c) => OnItsWay(t, c)'
  BY <1>3, <1>6, Zenon DEF OnItsWay
<1> QED BY <1>1, <1>2, <1>3, <1>6, <1>7, <1>8, <1>9, PeersCalm, Zenon

\* Peer.addConnection, which looks at the state of the connection and appends it, keeps the
\* invariant.
LEMMA addConnectionKeeps ==
    ASSUME PeersInv, NEW t \in Adders, addConnection(t)
    PROVE  PeersInv'
<1> USE PeersAssumption
<1>1. t \in Procs BY Zenon DEF Procs
<1>2. PeersTypeOK /\ GoroutineOK(t) /\ entry \in 0..made /\ made \in 0..MaxPeers /\ conns \in [PeerIds -> SUBSET Conns]
  BY <1>1, Zenon DEF PeersInv, PeersTypeOK
<1>3. UNCHANGED <<newConn, cstate, dials, entry, root, made>> /\ RootMoves BY Zenon DEF addConnection, RootMoves, rootVars
<1>4. "unlock" \in PeerLabels /\ "append" \in PeerLabels BY Zenon DEF PeerLabels
<1>5. pc[t] \in {"active", "append"} /\ link[t] \in Conns /\ obj[t] <= made
  BY <1>2, Zenon DEF addConnection, GoroutineOK
<1>6. ASSUME AfterAdd(t) PROVE PeerMoves(t) /\ GoroutineOK(t)'
  <2>1. CASE t \in Callers
    <3>1. PeerMoves(t) /\ pc'[t] = "unlock" /\ obj'[t] = obj[t] BY <1>1, <1>2, <1>4, <1>6, <2>1, PeerGoto, Zenon DEF AfterAdd
    <3>2. GoroutineOK(t)' BY <1>3, <1>5, <2>1, <3>1, Zenon DEF GoroutineOK
    <3> QED BY <3>1, <3>2, Zenon
  <2>2. CASE t \notin Callers
    <3>1. PeerMoves(t) /\ pc'[t] = "idle" /\ obj'[t] = 0 BY <1>1, <1>2, <1>6, <2>2, PeerFinish, Zenon DEF AfterAdd
    <3>2. obj'[t] <= made' BY <1>2, <1>3, <3>1
    <3>3. GoroutineOK(t)' BY <3>1, <3>2, Zenon DEF GoroutineOK
    <3> QED BY <3>1, <3>3, Zenon
  <2> QED BY <2>1, <2>2, Zenon
<1>7. CASE pc[t] = "active" /\ cstate[link[t]] = "active" /\ Goto(t, "append") /\ UNCHANGED <<obj, link, conns>>
  <2>1. PeerMoves(t) /\ pc'[t] = "append" /\ obj'[t] = obj[t] /\ link'[t] = link[t] BY <1>1, <1>2, <1>4, <1>7, PeerGoto, Zenon
  <2>2. GoroutineOK(t)' BY <1>3, <1>5, <2>1, Zenon DEF GoroutineOK
  <2>3. \A c \in Conns : OnItsWay(t, c) => OnItsWay(t, c)' BY <1>3, <1>7, <2>1, Zenon DEF OnItsWay
  <2> QED BY <1>1, <1>2, <1>3, <1>7, <2>1, <2>2, <2>3, PeersCalm, Zenon
<1>8. CASE pc[t] = "active" /\ cstate[link[t]] # "active" /\ AfterAdd(t) /\ UNCHANGED conns
  <2>1. \A c \in Conns : OnItsWay(t, c) => cstate[c] # "active" BY <1>8, Zenon DEF OnItsWay
  <2> QED BY <1>1, <1>2, <1>3, <1>6, <1>8, <2>1, PeersCalm, Zenon
<1>9. CASE pc[t] = "append" /\ AfterAdd(t) /\ conns' = [conns EXCEPT ![obj[t]] = @ \cup {link[t]}]
  <2>1. conns' \in [PeerIds -> SUBSET Conns] /\ \A p \in PeerIds : \A c \in conns[p] : c \in conns'[p]
    BY <1>2, <1>5, <1>9, Zenon
  <2>2. ASSUME NEW c \in Conns, root # 0, OnItsWay(t, c) PROVE c \in conns'[root]
    <3>1. obj[t] = root /\ link[t] = c BY <1>9, <2>2, Zenon DEF OnItsWay
    <3>2. root \in {0, made} BY <1>2, Zenon DEF PeersTypeOK
    <3>3. root \in PeerIds BY <1>2, <2>2, <3>2 DEF PeerIds
    <3> QED BY <1>2, <1>9, <3>1, <3>3, Zenon
  <2> QED BY <1>1, <1>2, <1>3, <1>6, <1>9, <2>1, <2>2, PeersCalm, Zenon
<1> QED BY <1>7, <1>8, <1>9, Zenon DEF addConnection

\* The callback for a connection that closes, which may remove the Peer, keeps the
\* invariant.
LEMMA ClosersKeep ==
    ASSUME PeersInv, NEW t \in Procs, FindPeer(t) \/ connectionCloseStateChange(t) \/ onClosedConnRemoved(t)
    PROVE  PeersInv'
<1> USE PeersAssumption
<1>1. /\ PeersTypeOK /\ GoroutineOK(t) /\ entry \in 0..made /\ made \in 0..MaxPeers
      /\ conns \in [PeerIds -> SUBSET Conns] /\ obj[t] <= made
  BY Zenon DEF PeersInv, PeersTypeOK, GoroutineOK
<1>2. UNCHANGED <<newConn, cstate, dials, entry, made>>
  BY Zenon DEF FindPeer, connectionCloseStateChange, onClosedConnRemoved, rootVars, RootGet
<1>3. pc[t] \in {"cbGet", "cbRemove", "rmGet", "rmCan", "rmDelete"}
  BY Zenon DEF FindPeer, connectionCloseStateChange, onClosedConnRemoved
<1>4. "cbRemove" \in PeerLabels /\ "rmGet" \in PeerLabels /\ "rmCan" \in PeerLabels /\ "rmDelete" \in PeerLabels
  BY Zenon DEF PeerLabels
<1>5. ASSUME Finish(t) PROVE PeerMoves(t) /\ GoroutineOK(t)'
  <2>1. PeerMoves(t) /\ pc'[t] = "idle" /\ obj'[t] = 0 BY <1>1, <1>5, PeerFinish, Zenon
  <2>2. obj'[t] <= made' BY <1>1, <1>2, <2>1
  <2> QED BY <2>1, <2>2, Zenon DEF GoroutineOK
<1>6. ASSUME NEW l \in {"rmGet", "rmCan", "rmDelete"}, Goto(t, l), UNCHANGED <<obj, link>> PROVE PeerMoves(t) /\ GoroutineOK(t)'
  <2>1. PeerMoves(t) /\ pc'[t] = l /\ obj'[t] = obj[t] BY <1>1, <1>4, <1>6, PeerGoto, Zenon
  <2> QED BY <1>1, <1>2, <1>6, <2>1, Zenon DEF GoroutineOK
<1>7. \A c \in Conns : ~OnItsWay(t, c) BY <1>3, Zenon DEF OnItsWay
<1>8. UNCHANGED rootVars \/ (root' = 0 /\ made' = made) => RootMoves BY Zenon DEF RootMoves, rootVars
<1>9. CASE FindPeer(t)
  <2>1. conns' = conns BY <1>9, Zenon DEF FindPeer
  <2>2. CASE Finish(t) /\ UNCHANGED rootVars BY <1>1, <1>2, <1>3, <1>5, <1>8, <2>1, <2>2, PeersQuiet, Zenon
  <2>3. CASE RootGet(t, "cbRemove") /\ UNCHANGED link
    <3>1. RootMoves /\ PeerMoves(t) /\ pc'[t] = "cbRemove" /\ link'[t] = link[t] /\ obj'[t] <= made'
      BY <1>1, <1>4, <2>3, RootGetMoves, Zenon
    <3>2. pc[t] = "cbGet" BY <1>9, Zenon DEF FindPeer
    <3>3. GoroutineOK(t)' BY <1>1, <1>2, <3>1, <3>2, Zenon DEF GoroutineOK
    <3> QED BY <1>1, <1>2, <1>3, <2>1, <3>1, <3>3, PeersQuiet, Zenon
  <2> QED BY <1>9, <2>2, <2>3, Zenon DEF FindPeer
<1>10. CASE connectionCloseStateChange(t)
  <2>1. pc[t] = "cbRemove" /\ conns' = [conns EXCEPT ![obj[t]] = @ \ {link[t]}] /\ UNCHANGED rootVars
    BY <1>10, Zenon DEF connectionCloseStateChange
  <2>2. cstate[link[t]] # "active"
    <3>1. "closing" # "active" OBVIOUS
    <3> QED BY <1>1, <2>1, <3>1, Zenon DEF GoroutineOK
  <2>3. conns' \in [PeerIds -> SUBSET Conns] BY <1>1, <2>1, Zenon
  <2>4. \A p \in PeerIds : \A c \in conns[p] : c \in conns'[p] \/ cstate[c] # "active" BY <1>1, <2>1, <2>2, Zenon
  <2>5. PeerMoves(t) /\ GoroutineOK(t)' BY <1>5, <1>6, <1>10, Zenon DEF connectionCloseStateChange
  <2> QED BY <1>1, <1>2, <1>7, <1>8, <2>1, <2>3, <2>4, <2>5, PeersCalm, Zenon
<1>11. CASE onClosedConnRemoved(t)
  <2>1. conns' = conns BY <1>11, Zenon DEF onClosedConnRemoved
  <2>2. CASE Finish(t) /\ (UNCHANGED rootVars \/ (root' = 0 /\ made' = made))
    BY <1>1, <1>2, <1>3, <1>5, <1>8, <2>1, <2>2, PeersQuiet, Zenon
  <2>3. CASE RootGet(t, "rmCan") /\ UNCHANGED link
    <3>1. RootMoves /\ PeerMoves(t) /\ pc'[t] = "rmCan" /\ link'[t] = link[t] /\ obj'[t] <= made'
      BY <1>1, <1>4, <2>3, RootGetMoves, Zenon
    <3>2. GoroutineOK(t)' BY <3>1, Zenon DEF GoroutineOK
    <3> QED BY <1>1, <1>2, <1>3, <2>1, <3>1, <3>2, PeersQuiet, Zenon
  <2>4. CASE Goto(t, "rmDelete") /\ UNCHANGED <<obj, link>> /\ UNCHANGED rootVars
    BY <1>1, <1>2, <1>3, <1>6, <1>8, <2>1, <2>4, PeersQuiet, Zenon
  <2> QED BY <1>11, <2>2, <2>3, <2>4, Zenon DEF onClosedConnRemoved
<1> QED BY <1>9, <1>10, <1>11, Zenon

\* Adding the Peer to a PeerList, or removing it, keeps the invariant.
LEMMA ListKeeps ==
    ASSUME PeersInv, ListAdd \/ ListRemove
    PROVE  PeersInv'
<1> USE PeersAssumption
<1>1. Lister \in Procs /\ Lister \notin Adders /\ Lister \notin Callers BY PeersNames, Zenon
<1>2. /\ PeersTypeOK /\ GoroutineOK(Lister) /\ entry \in 0..made /\ made \in 0..MaxPeers
      /\ obj[Lister] <= made /\ obj[Lister] \in 0..MaxPeers
  BY <1>1, Zenon DEF PeersInv, PeersTypeOK, GoroutineOK
<1>3. UNCHANGED <<newConn, cstate, dials, conns>> BY Zenon DEF ListAdd, ListRemove
<1>4. "add" \in PeerLabels /\ "addSC" \in PeerLabels BY Zenon DEF PeerLabels
<1>5. ASSUME PeerMoves(Lister), RootMoves, obj'[Lister] <= made', entry' \in 0..made', pc'[Lister] \in {"idle", "add", "addSC"}
      PROVE  PeersInv'
  <2>1. GoroutineOK(Lister)' BY <1>1, <1>5, Zenon DEF GoroutineOK
  <2> QED BY <1>1, <1>3, <1>5, <2>1, PeersQuiet, Zenon
<1>6. CASE RootGet(Lister, IF root = 0 THEN "add" ELSE "addSC") /\ UNCHANGED <<entry, link>>
  <2>1. PICK l \in {"add", "addSC"} : RootGet(Lister, l) BY <1>6, Zenon
  <2>2. RootMoves /\ PeerMoves(Lister) /\ pc'[Lister] = l /\ obj'[Lister] <= made' /\ made' = made
    BY <1>1, <1>2, <1>4, <1>6, <2>1, RootGetMoves, Zenon
  <2> QED BY <1>2, <1>5, <1>6, <2>2, Zenon
<1>7. CASE RootAdd(Lister, "addSC") /\ UNCHANGED <<entry, link>>
  <2>1. /\ RootMoves /\ PeerMoves(Lister) /\ pc'[Lister] = "addSC" /\ obj'[Lister] <= made'
        /\ made <= made' /\ made' \in 0..MaxPeers
    BY <1>1, <1>2, <1>4, <1>7, RootAddMoves, Zenon
  <2>2. entry' \in 0..made' BY <1>2, <1>7, <2>1
  <2> QED BY <1>5, <2>1, <2>2, Zenon
<1>8. CASE entry' = obj[Lister] /\ Finish(Lister) /\ UNCHANGED rootVars
  <2>1. PeerMoves(Lister) /\ pc'[Lister] = "idle" /\ obj'[Lister] = 0 BY <1>1, <1>2, <1>8, PeerFinish, Zenon
  <2>2. RootMoves /\ made' = made BY <1>8, Zenon DEF RootMoves, rootVars
  <2>3. entry' \in 0..made' /\ obj'[Lister] <= made' BY <1>2, <1>8, <2>1, <2>2
  <2> QED BY <1>5, <2>1, <2>2, <2>3, Zenon
<1>9. CASE ListRemove
  <2>1. pc[Lister] = "idle" /\ entry' = 0 /\ UNCHANGED rootVars /\ UNCHANGED local BY <1>9, Zenon DEF ListRemove
  <2>2. RootMoves /\ made' = made BY <2>1, Zenon DEF RootMoves, rootVars
  <2>3. PeerMoves(Lister) /\ pc'[Lister] = "idle" /\ obj'[Lister] = obj[Lister]
    BY <1>2, <2>1, Zenon DEF PeerMoves, local, PeersTypeOK
  <2>4. entry' \in 0..made' BY <1>2, <2>1, <2>2
  <2> QED BY <1>2, <1>5, <2>2, <2>3, <2>4, Zenon
<1> QED BY <1>6, <1>7, <1>8, <1>9, Zenon DEF ListAdd

\* The steps on a newConnLock or on the state of a connection
LEMMA PeersOpen ==
    ASSUME PeersInv, NEW t \in Procs, PeerMoves(t), UNCHANGED <<root, made, entry, conns>>,
           dials' \in [PeerIds -> SUBSET Dialled], newConn' \in [PeerIds -> Callers \cup {None}],
           cstate' \in [Conns -> {"new", "active", "closing"}],
           DialsMade', SharedInv', PeersTypeOK' => GoroutineOK(t)',
           \A q \in Callers : \A p \in PeerIds : q # t /\ newConn[p] = q => newConn'[p] = q,
           \A q \in Procs : q # t /\ pc[q] = "connect" /\ root = obj[q] => InUse(obj[q])' \subseteq InUse(obj[q]),
           \A c \in Conns : cstate[c] = "closing" => cstate'[c] = "closing"
    PROVE  PeersInv'
<1>1. PeersTypeOK /\ \A q \in Procs : GoroutineOK(q) BY Zenon DEF PeersInv
<1>2. PeersTypeOK' BY <1>1, Zenon DEF PeersTypeOK, PeerMoves
<1>3. made \in 0..MaxPeers /\ made <= made
  <2>1. made \in 0..MaxPeers BY <1>1, Zenon DEF PeersTypeOK
  <2>2. \A i \in 0..MaxPeers : i <= i OBVIOUS
  <2> QED BY <2>1, <2>2, Zenon
<1>4. ASSUME NEW q \in Procs, q # t PROVE GoroutineOK(q)'
  <2>1. pc'[q] = pc[q] /\ obj'[q] = obj[q] /\ link'[q] = link[q] BY <1>4, Zenon DEF PeerMoves
  <2> QED BY <1>1, <1>3, <1>4, <2>1, OtherGoroutine, Zenon
<1> QED BY <1>2, <1>4, Zenon DEF PeersInv

\* Taking and giving back newConnLock keep the invariant.
LEMMA LocksKeep ==
    ASSUME PeersInv, NEW t \in Procs, lockNewConn(t) \/ unlockNewConn(t)
    PROVE  PeersInv'
<1> USE PeersAssumption
<1>1. /\ PeersTypeOK /\ GoroutineOK(t) /\ DialsMade /\ SharedInv /\ made \in 0..MaxPeers /\ root \in {0, made}
      /\ newConn \in [PeerIds -> Callers \cup {None}] /\ obj[t] \in 0..MaxPeers /\ obj[t] <= made
  BY Zenon DEF PeersInv, PeersTypeOK, GoroutineOK
<1>2. UNCHANGED <<root, made, entry, conns, dials, cstate>> BY Zenon DEF lockNewConn, unlockNewConn, rootVars
<1>3. pc[t] \in {"lock", "unlock"} /\ t \in Callers BY <1>1, Zenon DEF lockNewConn, unlockNewConn, GoroutineOK
<1>4. DialsMade' BY <1>1, <1>2, Zenon DEF DialsMade
<1>5. ASSUME PeerMoves(t), newConn' \in [PeerIds -> Callers \cup {None}], GoroutineOK(t)',
             \A q \in Callers : \A p \in PeerIds : q # t /\ newConn[p] = q => newConn'[p] = q
      PROVE  PeersInv'
  <2>1. InUse(root)' = InUse(root) BY <1>2, Zenon DEF InUse
  <2>2. ASSUME root # 0, NEW q \in Callers, NEW c, OnItsWay(q, c) PROVE OnItsWay(q, c)'
    <3>1. q # t /\ q \in Procs BY <1>3, <2>2, PeersNames, Zenon DEF OnItsWay
    <3>2. root \in PeerIds BY <1>1, <2>2 DEF PeerIds
    <3>3. newConn'[root] = q BY <1>5, <2>2, <3>1, <3>2, Zenon DEF OnItsWay
    <3> QED BY <1>2, <1>5, <2>2, <3>1, <3>3, Zenon DEF OnItsWay, PeerMoves
  <2>3. SharedInv' BY <1>1, <1>2, <2>1, <2>2, Zenon DEF SharedInv
  <2>4. \A q \in Procs : q # t => InUse(obj[q])' \subseteq InUse(obj[q]) BY <1>2, <1>5, Zenon DEF InUse, PeerMoves
  <2> QED BY <1>1, <1>2, <1>4, <1>5, <2>3, <2>4, PeersOpen, Zenon DEF PeersTypeOK
<1>6. CASE lockNewConn(t)
  <2>1. pc[t] = "lock" /\ newConn[obj[t]] = None /\ newConn' = [newConn EXCEPT ![obj[t]] = t] /\ obj[t] # 0
    BY <1>1, <1>6, Zenon DEF lockNewConn, GoroutineOK
  <2>2. obj[t] \in PeerIds BY <1>1, <2>1 DEF PeerIds
  <2>3. "again" \in PeerLabels BY Zenon DEF PeerLabels
  <2>4. PeerMoves(t) /\ pc'[t] = "again" /\ obj'[t] = obj[t] BY <1>1, <1>6, <2>3, PeerGoto, Zenon DEF lockNewConn
  <2>5. newConn' \in [PeerIds -> Callers \cup {None}] /\ newConn'[obj[t]] = t BY <1>1, <1>3, <2>1, <2>2, Zenon
  <2>6. \A q \in Callers : q # None BY PeersNames, Zenon
  <2>7. ASSUME NEW q \in Callers, NEW p \in PeerIds, q # t, newConn[p] = q PROVE newConn'[p] = q
    <3>1. CASE p # obj[t] BY <1>1, <2>1, <2>7, <3>1, Zenon
    <3>2. CASE p = obj[t]
      <4>1. q = None BY <2>1, <2>7, <3>2, Zenon
      <4> QED BY <2>6, <2>7, <4>1, Zenon
    <3> QED BY <3>1, <3>2, Zenon
  <2>8. GoroutineOK(t)' BY <1>1, <1>2, <1>3, <2>1, <2>4, <2>5, Zenon DEF GoroutineOK
  <2> QED BY <1>5, <2>4, <2>5, <2>7, <2>8, Zenon
<1>7. CASE unlockNewConn(t)
  <2>1. newConn' = [p \in PeerIds |-> IF newConn[p] = t THEN None ELSE newConn[p]] BY <1>7, Zenon DEF unlockNewConn
  <2>2. newConn' \in [PeerIds -> Callers \cup {None}] BY <1>1, <2>1, Zenon
  <2>3. \A q \in Callers : \A p \in PeerIds : q # t /\ newConn[p] = q => newConn'[p] = q BY <2>1, Zenon
  <2>4. PeerMoves(t) /\ pc'[t] = "idle" /\ obj'[t] = 0 BY <1>1, <1>7, PeerFinish, Zenon DEF unlockNewConn
  <2>5. obj'[t] <= made' BY <1>1, <1>2, <2>4
  <2>6. GoroutineOK(t)' BY <2>4, <2>5, Zenon DEF GoroutineOK
  <2> QED BY <1>5, <2>2, <2>3, <2>4, <2>6, Zenon
<1> QED BY <1>6, <1>7, Zenon

\* A connection from the other side keeps the invariant.
LEMMA AcceptKeeps ==
    ASSUME PeersInv, NEW a \in Accepted, Accept(a)
    PROVE  PeersInv'
<1> DEFINE t == Acceptor(a)
<1>1. t \in Procs /\ a \in Conns BY PeersNames, Zenon DEF Conns
<1>2. /\ PeersTypeOK /\ GoroutineOK(t) /\ DialsMade /\ SharedInv /\ made \in 0..MaxPeers /\ root \in {0, made}
      /\ cstate \in [Conns -> {"new", "active", "closing"}] /\ obj[t] <= made
  BY <1>1, Zenon DEF PeersInv, PeersTypeOK, GoroutineOK
<1>3. UNCHANGED <<root, made, entry, conns, dials, newConn>> BY Zenon DEF Accept, rootVars
<1>4. pc[t] = "idle" /\ cstate[a] = "new" /\ cstate' = [cstate EXCEPT ![a] = "active"] BY Zenon DEF Accept
<1>5. "get" \in PeerLabels BY Zenon DEF PeerLabels
<1>6. PeerMoves(t) /\ pc'[t] = "get" /\ obj'[t] = obj[t] /\ link'[t] = a BY <1>1, <1>2, <1>5, PeerLinks, Zenon DEF Accept
<1> HIDE DEF t
<1>7. /\ cstate' \in [Conns -> {"new", "active", "closing"}] /\ cstate'[a] = "active"
      /\ \A c \in Conns : c # a => cstate'[c] = cstate[c]
  BY <1>1, <1>2, <1>4, Zenon
<1>8. \A p \in PeerIds : \A c \in dials[p] : c # a /\ c \in Conns BY <1>2, <1>4, Zenon DEF DialsMade, PeersTypeOK, Conns
<1>9. DialsMade' BY <1>2, <1>3, <1>7, <1>8, Zenon DEF DialsMade
<1>10. ASSUME NEW p \in PeerIds PROVE {c \in dials[p] : cstate'[c] = "active"} = {c \in dials[p] : cstate[c] = "active"}
  BY <1>7, <1>8, Zenon
<1>11. SharedInv'
  <2>1. SUFFICES ASSUME root # 0
                 PROVE  /\ \A c \in InUse(root)' : c \in conns[root] \/ \E q \in Callers : OnItsWay(q, c)'
                        /\ \A c, d \in InUse(root)' : c = d
    BY <1>3, Zenon DEF SharedInv
  <2>2. root \in PeerIds BY PeersAssumption, <1>2, <2>1 DEF PeerIds
  <2>3. InUse(root)' = InUse(root) BY <1>3, <1>10, <2>2, Zenon DEF InUse
  <2>4. ASSUME NEW q \in Callers, NEW c, OnItsWay(q, c) PROVE OnItsWay(q, c)'
    <3>1. q # t /\ q \in Procs BY <1>4, <2>4, PeersNames, Zenon DEF OnItsWay
    <3> QED BY <1>3, <1>6, <2>4, <3>1, Zenon DEF OnItsWay, PeerMoves
  <2> QED BY <1>2, <2>1, <2>3, <2>4, Zenon DEF SharedInv
<1>12. ASSUME NEW q \in Procs, q # t, pc[q] = "connect", root = obj[q] PROVE InUse(obj[q])' \subseteq InUse(obj[q])
  <2>1. obj'[q] = obj[q] /\ obj[q] # 0 /\ obj[q] \in 0..MaxPeers
    BY <1>6, <1>12, Zenon DEF PeerMoves, PeersInv, GoroutineOK, PeersTypeOK
  <2>2. obj[q] \in PeerIds BY <2>1 DEF PeerIds
  <2> QED BY <1>3, <1>10, <2>1, <2>2, Zenon DEF InUse
<1>13. GoroutineOK(t)' BY <1>1, <1>2, <1>3, <1>6, Zenon DEF GoroutineOK
<1>14. \A c \in Conns : cstate[c] = "closing" => cstate'[c] = "closing"
  <2>1. "new" # "closing" OBVIOUS
  <2> QED BY <1>4, <1>7, <2>1, Zenon
<1> QED BY <1>1, <1>2, <1>3, <1>6, <1>7, <1>9, <1>11, <1>12, <1>13, <1>14, PeersOpen, Zenon DEF PeersTypeOK

\* A connection that leaves the state Active keeps the invariant.
LEMMA CloseStateKeeps ==
    ASSUME PeersInv, NEW a \in Conns, CloseState(a)
    PROVE  PeersInv'
<1> DEFINE t == Closer(a)
<1>1. t \in Procs BY PeersNames, Zenon
<1>2. /\ PeersTypeOK /\ GoroutineOK(t) /\ DialsMade /\ SharedInv /\ made \in 0..MaxPeers /\ root \in {0, made}
      /\ cstate \in [Conns -> {"new", "active", "closing"}] /\ obj[t] <= made /\ dials \in [PeerIds -> SUBSET Dialled]
  BY <1>1, Zenon DEF PeersInv, PeersTypeOK, GoroutineOK
<1>3. UNCHANGED <<root, made, entry, conns, dials, newConn>> BY Zenon DEF CloseState, rootVars
<1>4. pc[t] = "idle" /\ cstate' = [cstate EXCEPT ![a] = "closing"] BY Zenon DEF CloseState
<1>5. "cbGet" \in PeerLabels BY Zenon DEF PeerLabels
<1>6. PeerMoves(t) /\ pc'[t] = "cbGet" /\ obj'[t] = obj[t] /\ link'[t] = a BY <1>1, <1>2, <1>5, PeerLinks, Zenon DEF CloseState
<1> HIDE DEF t
<1>7. /\ cstate' \in [Conns -> {"new", "active", "closing"}] /\ cstate'[a] = "closing"
      /\ \A c \in Conns : c # a => cstate'[c] = cstate[c]
  BY <1>2, <1>4, Zenon
<1>8. \A p \in PeerIds : dials[p] \subseteq Conns BY <1>2, Zenon DEF Conns
<1>9. DialsMade'
  <2>1. "closing" # "new" OBVIOUS
  <2> QED BY <1>2, <1>3, <1>7, <1>8, <2>1, Zenon DEF DialsMade
<1>10. ASSUME NEW p \in PeerIds
       PROVE  {c \in dials[p] : cstate'[c] = "active"} \subseteq {c \in dials[p] : cstate[c] = "active"}
  <2>1. "closing" # "active" OBVIOUS
  <2> QED BY <1>7, <1>8, <2>1, Zenon
<1>11. SharedInv'
  <2>1. SUFFICES ASSUME root # 0
                 PROVE  /\ \A c \in InUse(root)' : c \in conns[root] \/ \E q \in Callers : OnItsWay(q, c)'
                        /\ \A c, d \in InUse(root)' : c = d
    BY <1>3, Zenon DEF SharedInv
  <2>2. root \in PeerIds BY PeersAssumption, <1>2, <2>1 DEF PeerIds
  <2>3. InUse(root)' \subseteq InUse(root) BY <1>3, <1>10, <2>2, Zenon DEF InUse
  <2>4. ASSUME NEW q \in Callers, NEW c, OnItsWay(q, c) PROVE OnItsWay(q, c)'
    <3>1. q # t /\ q \in Procs BY <1>4, <2>4, PeersNames, Zenon DEF OnItsWay
    <3> QED BY <1>3, <1>6, <2>4, <3>1, Zenon DEF OnItsWay, PeerMoves
  <2> QED BY <1>2, <2>1, <2>3, <2>4, Zenon DEF SharedInv
<1>12. ASSUME NEW q \in Procs, q # t, pc[q] = "connect", root = obj[q] PROVE InUse(obj[q])' \subseteq InUse(obj[q])
  <2>1. obj'[q] = obj[q] /\ obj[q] # 0 /\ obj[q] \in 0..MaxPeers
    BY <1>6, <1>12, Zenon DEF PeerMoves, PeersInv, GoroutineOK, PeersTypeOK
  <2>2. obj[q] \in PeerIds BY <2>1 DEF PeerIds
  <2> QED BY <1>3, <1>10, <2>1, <2>2, Zenon DEF InUse
<1>13. GoroutineOK(t)' BY <1>2, <1>3, <1>6, <1>7, Zenon DEF GoroutineOK
<1>14. \A c \in Conns : cstate[c] = "closing" => cstate'[c] = "closing" BY <1>7, Zenon
<1> QED BY <1>1, <1>2, <1>3, <1>6, <1>7, <1>9, <1>11, <1>12, <1>13, <1>14, PeersOpen, Zenon DEF PeersTypeOK

\* Connect adds a connection when the Peer has none in use: the caller holds the lock.
LEMMA ConnectKeeps ==
    ASSUME PeersInv, NEW t \in Procs, Connect(t)
    PROVE  PeersInv'
<1> USE PeersAssumption
<1>1. /\ PeersTypeOK /\ GoroutineOK(t) /\ DialsMade /\ SharedInv /\ made \in 0..MaxPeers /\ root \in {0, made}
      /\ cstate \in [Conns -> {"new", "active", "closing"}] /\ dials \in [PeerIds -> SUBSET Dialled]
      /\ obj[t] \in 0..MaxPeers /\ entry \in 0..made
  BY Zenon DEF PeersInv, PeersTypeOK, GoroutineOK
<1>2. UNCHANGED <<root, made, entry, conns, newConn>> /\ RootMoves /\ pc[t] = "connect" BY Zenon DEF Connect, rootVars, RootMoves
<1>3. t \in Callers /\ obj[t] # 0 /\ newConn[obj[t]] = t /\ obj[t] <= made /\ (root = obj[t] => InUse(obj[t]) = {})
  BY <1>1, <1>2, Zenon DEF GoroutineOK
<1>4. obj[t] \in PeerIds /\ ~(obj[t] > made) BY <1>1, <1>3 DEF PeerIds
<1>5. "unlock" \in PeerLabels /\ "get" \in PeerLabels BY Zenon DEF PeerLabels
<1>6. CASE Goto(t, "unlock") /\ UNCHANGED <<cstate, dials, link>>
  <2>1. UNCHANGED obj BY Zenon DEF Connect
  <2>2. PeerMoves(t) /\ pc'[t] = "unlock" /\ obj'[t] = obj[t] BY <1>1, <1>5, <1>6, <2>1, PeerGoto, Zenon
  <2>3. GoroutineOK(t)' BY <1>2, <1>3, <2>2, Zenon DEF GoroutineOK
  <2> QED BY <1>1, <1>2, <1>6, <2>2, <2>3, PeersQuiet, Zenon
<1>7. ASSUME NEW a \in Dialled, cstate[a] = "new", cstate' = [cstate EXCEPT ![a] = "active"],
             link' = [link EXCEPT ![t] = a], dials' = [dials EXCEPT ![obj[t]] = @ \cup {a}], Goto(t, "get"), UNCHANGED obj
      PROVE  PeersInv'
  <2>1. a \in Conns BY Zenon DEF Conns
  <2>2. PeerMoves(t) /\ pc'[t] = "get" /\ obj'[t] = obj[t] /\ link'[t] = a BY <1>1, <1>5, <1>7, <2>1, PeerLinks, Zenon
  <2>3. /\ cstate' \in [Conns -> {"new", "active", "closing"}] /\ cstate'[a] = "active"
        /\ \A c \in Conns : c # a => cstate'[c] = cstate[c]
    BY <1>1, <1>7, <2>1, Zenon
  <2>4. \A p \in PeerIds : \A c \in dials[p] : c # a /\ c \in Conns BY <1>1, <1>7, Zenon DEF DialsMade, Conns
  <2>5. /\ dials' \in [PeerIds -> SUBSET Dialled] /\ dials'[obj[t]] = dials[obj[t]] \cup {a}
        /\ \A p \in PeerIds : p # obj[t] => dials'[p] = dials[p]
    BY <1>1, <1>4, <1>7, Zenon
  <2>6. DialsMade'
    <3>1. \A p \in PeerIds : p > made => dials'[p] = {} BY <1>1, <1>4, <2>5, Zenon DEF DialsMade
    <3>2. "active" # "new" OBVIOUS
    <3>3. \A p \in PeerIds : \A c \in dials'[p] : cstate'[c] # "new" BY <1>1, <2>3, <2>4, <2>5, <3>2, Zenon DEF DialsMade
    <3> QED BY <1>2, <3>1, <3>3, Zenon DEF DialsMade
  <2>7. ASSUME NEW p \in PeerIds, p # obj[t]
        PROVE  {c \in dials'[p] : cstate'[c] = "active"} = {c \in dials[p] : cstate[c] = "active"}
    BY <2>3, <2>4, <2>5, <2>7, Zenon
  <2>8. SharedInv'
    <3>1. SUFFICES ASSUME root # 0
                   PROVE  /\ \A c \in InUse(root)' : c \in conns[root] \/ \E q \in Callers : OnItsWay(q, c)'
                          /\ \A c, d \in InUse(root)' : c = d
      BY <1>2, Zenon DEF SharedInv
    <3>2. root \in PeerIds BY <1>1, <3>1 DEF PeerIds
    <3>3. CASE root = obj[t]
      <4>1. \A c \in InUse(root)' : c = a BY <1>2, <1>3, <2>3, <2>4, <2>5, <3>2, <3>3, Zenon DEF InUse
      <4>2. OnItsWay(t, a)' BY <1>2, <1>3, <2>2, <3>3, Zenon DEF OnItsWay
      <4> QED BY <1>3, <4>1, <4>2, Zenon
    <3>4. CASE root # obj[t]
      <4>1. InUse(root)' = InUse(root) BY <1>2, <2>7, <3>2, <3>4, Zenon DEF InUse
      <4>2. ASSUME NEW q \in Callers, NEW c, OnItsWay(q, c) PROVE OnItsWay(q, c)'
        <5>1. q # t /\ q \in Procs BY <1>2, <4>2, PeersNames, Zenon DEF OnItsWay
        <5> QED BY <1>2, <2>2, <4>2, <5>1, Zenon DEF OnItsWay, PeerMoves
      <4> QED BY <1>1, <3>1, <4>1, <4>2, Zenon DEF SharedInv
    <3> QED BY <3>3, <3>4, Zenon
  <2>9. ASSUME NEW q \in Procs, q # t, pc[q] = "connect", root = obj[q] PROVE InUse(obj[q])' \subseteq InUse(obj[q])
    <3>1. obj'[q] = obj[q] /\ obj[q] # 0 /\ obj[q] \in 0..MaxPeers /\ newConn[obj[q]] = q
      BY <2>2, <2>9, Zenon DEF PeerMoves, PeersInv, GoroutineOK, PeersTypeOK
    <3>2. obj[q] \in PeerIds BY <3>1 DEF PeerIds
    <3>3. obj[q] # obj[t] BY <1>3, <2>9, <3>1, Zenon
    <3> QED BY <2>7, <3>1, <3>2, <3>3, Zenon DEF InUse
  <2>10. GoroutineOK(t)' BY <1>2, <1>3, <2>1, <2>2, Zenon DEF GoroutineOK
  <2>11. \A c \in Conns : cstate[c] = "closing" => cstate'[c] = "closing"
    <3>1. "new" # "closing" OBVIOUS
    <3> QED BY <1>7, <2>3, <3>1, Zenon
  <2> QED BY <1>1, <1>2, <2>2, <2>3, <2>5, <2>6, <2>8, <2>9, <2>10, <2>11, PeersOpen, Zenon DEF PeersTypeOK
<1> QED BY <1>6, <1>7, Zenon DEF Connect

\* The invariant holds in the initial state.
LEMMA PeersInvInit == PeersInit => PeersInv
<1> SUFFICES ASSUME PeersInit PROVE PeersInv OBVIOUS
<1>1. 0 \in 0..MaxPeers /\ 0 \in 0..0 /\ 0 <= 0 BY PeersAssumption
<1>2. "idle" \in PeerLabels BY Zenon DEF PeerLabels
<1>3. PeersTypeOK BY <1>1, <1>2, Zenon DEF PeersInit, PeersTypeOK
<1>4. DialsMade BY Zenon DEF PeersInit, DialsMade
<1>5. \A t \in Procs : GoroutineOK(t) BY <1>1, Zenon DEF PeersInit, GoroutineOK
<1>6. SharedInv BY Zenon DEF PeersInit, SharedInv
<1> QED BY <1>3, <1>4, <1>5, <1>6, Zenon DEF PeersInv

\* Every step keeps the invariant.
LEMMA PeersInvNext == PeersInv /\ [PeersNext]_peersVars => PeersInv'
<1> SUFFICES ASSUME PeersInv, [PeersNext]_peersVars PROVE PeersInv' OBVIOUS
<1>1. CASE UNCHANGED peersVars
  <2>1. UNCHANGED <<root, made, entry, conns, newConn, cstate, dials, pc, obj, link>> BY <1>1, Zenon DEF peersVars, rootVars
  <2>2. PeersTypeOK' BY <2>1, Zenon DEF PeersInv, PeersTypeOK
  <2>3. DialsMade' BY <2>1, Zenon DEF PeersInv, DialsMade
  <2>4. \A t \in Procs : GoroutineOK(t)' BY <2>1, Zenon DEF PeersInv, GoroutineOK, InUse
  <2>5. SharedInv'
    <3>1. InUse(root)' = InUse(root) BY <2>1, Zenon DEF InUse
    <3>2. ASSUME NEW q, NEW c, OnItsWay(q, c) PROVE OnItsWay(q, c)' BY <2>1, <3>2, Zenon DEF OnItsWay
    <3> QED BY <2>1, <3>1, <3>2, Zenon DEF PeersInv, SharedInv
  <2> QED BY <2>2, <2>3, <2>4, <2>5, Zenon DEF PeersInv
<1>2. ASSUME NEW t \in Procs, PeerStep(t) PROVE PeersInv'
  BY <1>2, GetOrAddKeeps, addConnectionKeeps, LooksKeep, LocksKeep, lookAgainKeeps, ConnectKeeps, ClosersKeep, Zenon
  DEF PeerStep
<1>3. ASSUME NEW t \in Callers, GetConnection(t) PROVE PeersInv' BY <1>3, LooksKeep, PeersNames, Zenon
<1> QED BY <1>1, <1>2, <1>3, AcceptKeeps, CloseStateKeeps, ListKeeps, Zenon DEF PeersNext

\* At most one of the connections that callers of a Peer made is in use: callers that
\* ask the same Peer at the same time share it (newConnLock, and the second look in
\* getConnectionRelay and GetConnection).
THEOREM OneDialPerPeer == PeersSpec => []OneDial
<1>1. PeersInv => OneDial
  <2> SUFFICES ASSUME PeersInv, NEW p \in PeerIds, root = p PROVE \A c, d \in InUse(p) : c = d
    BY Zenon DEF OneDial, InUse
  <2>1. root # 0 BY PeersAssumption DEF PeerIds
  <2> QED BY <2>1, Zenon DEF PeersInv, SharedInv
<1> QED BY <1>1, PeersInvInit, PeersInvNext, PTL DEF PeersSpec

-----------------------------------------------------------------------------
(* Sequences *)

\* The length and the elements of a sequence
LEMMA SeqLen ==
    ASSUME NEW S, NEW s \in Seq(S)
    PROVE  Len(s) \in Nat /\ \A k \in 1..Len(s) : s[k] \in S
OBVIOUS

\* What SubSeq takes out
LEMMA SeqPart ==
    ASSUME NEW S, NEW s, NEW m \in Int, NEW n \in Int, \A i \in m..n : s[i] \in S
    PROVE  /\ SubSeq(s, m, n) \in Seq(S)
           /\ Len(SubSeq(s, m, n)) = IF m <= n THEN n - m + 1 ELSE 0
           /\ \A i \in 1..n - m + 1 : SubSeq(s, m, n)[i] = s[m + i - 1]
<1> DEFINE c == SubSeq(s, m, n)
<1>1. Len(c) = IF m <= n THEN n - m + 1 ELSE 0 BY SMTT(30)
<1>2. \A i \in 1..n - m + 1 : c[i] = s[m + i - 1] BY SMTT(30)
<1>3. c \in Seq(S) BY SMTT(30)
<1> QED BY <1>1, <1>2, <1>3, Zenon

\* What \o puts together
LEMMA SeqJoin ==
    ASSUME NEW S, NEW s \in Seq(S), NEW t \in Seq(S)
    PROVE  /\ s \o t \in Seq(S) /\ Len(s \o t) = Len(s) + Len(t)
           /\ \A i \in 1..Len(s) + Len(t) : (s \o t)[i] = IF i <= Len(s) THEN s[i] ELSE t[i - Len(s)]
OBVIOUS

\* Sequences with the same elements are equal.
LEMMA SeqSame ==
    ASSUME NEW S, NEW s \in Seq(S), NEW t \in Seq(S), Len(s) = Len(t), \A i \in 1..Len(s) : s[i] = t[i]
    PROVE  s = t
OBVIOUS

\* What Append adds
LEMMA SeqAppend ==
    ASSUME NEW S, NEW s \in Seq(S), NEW x \in S
    PROVE  /\ Len(Append(s, x)) = Len(s) + 1 /\ Append(s, x)[Len(s) + 1] = x
           /\ \A i \in 1..Len(s) : Append(s, x)[i] = s[i]
OBVIOUS

-----------------------------------------------------------------------------
(* The health check *)

\* What the health check does and tells follows from the last pings, for
\* any number of failures to close, size of the history and number of
\* pings.  The history is a ring; Ring says which ping each cell holds.

\* The ring h holds the last of the results p: from its first cell while it has not come
\* around, and then from insertAt.
Ring(h, p) ==
    /\ h.insertAt \in 0..HistorySize - 1 /\ h.total = Len(p)
    /\ h.total < HistorySize => h.insertAt = h.total /\ \A k \in 1..h.total : h.states[k] = p[k]
    /\ h.total >= HistorySize =>
         /\ \A k \in 1..HistorySize - h.insertAt :
              h.states[h.insertAt + k] = p[h.total - HistorySize + k]
         /\ \A k \in 1..h.insertAt : h.states[k] = p[h.total - h.insertAt + k]

Histories(S) == [states : [1..HistorySize -> S], insertAt : 0..HistorySize - 1, total : Nat]

\* insertAt goes around: (insertAt + 1) % _healthHistorySize.
LEMMA Around ==
    ASSUME NEW i \in 0..HistorySize - 1
    PROVE  (i + 1) % HistorySize = IF i + 1 = HistorySize THEN 0 ELSE i + 1
<1>1. HistorySize \in Nat \ {0} BY HealthBounds
<1>2. CASE i + 1 = HistorySize BY <1>1, <1>2, SMT
<1>3. CASE i + 1 # HistorySize BY <1>1, <1>3, SMT
<1> QED BY <1>2, <1>3

\* healthHistory.add keeps the ring.
LEMMA RingAdd ==
    ASSUME NEW S, NEW h \in Histories(S), NEW p \in Seq(S), NEW b \in S, Ring(h, p)
    PROVE  add(h, b) \in Histories(S) /\ Ring(add(h, b), Append(p, b))
<1> DEFINE H == HistorySize
           g == add(h, b)
           q == Append(p, b)
           n == Len(p)
           pos == h.insertAt
<1>1. H \in Nat \ {0} BY HealthBounds
<1>2. n \in Nat /\ Len(q) = n + 1 /\ q[n + 1] = b /\ \A k \in 1..n : q[k] = p[k]
  BY SeqLen, SeqAppend
<1>3. pos \in 0..H - 1 /\ h.total = n BY DEF Ring
<1>4. g.insertAt = IF pos + 1 = H THEN 0 ELSE pos + 1 BY <1>3, Around DEF add
<1>5. /\ g.total = n + 1
      /\ g.states[pos + 1] = b
      /\ \A k \in 1..H : k # pos + 1 => g.states[k] = h.states[k]
      /\ g.states \in [1..H -> S]
  BY <1>1, <1>3 DEF add, Histories
<1>6. g \in Histories(S) BY <1>1, <1>2, <1>3, <1>4, <1>5 DEF add, Histories
<1> SUFFICES Ring(g, q) BY <1>6
<1> HIDE DEF H, g, q, n, pos
<1>7. CASE n < H
  <2>1. pos = n /\ \A k \in 1..n : h.states[k] = p[k] BY <1>3, <1>7 DEF Ring, H, n, pos
  <2>2. ASSUME NEW k \in 1..n + 1 PROVE g.states[k] = q[k]
    <3>1. CASE k = n + 1 BY <1>2, <1>5, <2>1, <3>1
    <3>2. CASE k # n + 1
      <4>1. k \in 1..n /\ k \in 1..H /\ k # pos + 1 BY <1>1, <1>2, <1>7, <2>1, <3>2
      <4> QED BY <1>2, <1>5, <2>1, <4>1
    <3> QED BY <3>1, <3>2
  <2>3. CASE n + 1 < H
    <3>1. g.insertAt = n + 1 BY <1>1, <1>2, <1>4, <2>1, <2>3
    <3>2. g.insertAt \in 0..H - 1 /\ ~(g.total >= H) BY <1>1, <1>2, <1>5, <2>3, <3>1
    <3> QED BY <1>2, <1>5, <2>2, <3>1, <3>2 DEF Ring, H
  <2>4. CASE n + 1 = H
    <3>1. g.insertAt = 0 BY <1>4, <2>1, <2>4
    <3>2. g.insertAt \in 0..H - 1 /\ ~(g.total < H) BY <1>1, <1>2, <1>5, <2>4, <3>1
    <3>3. ASSUME NEW k \in 1..H - 0 PROVE g.states[0 + k] = q[g.total - H + k]
      <4>1. 0 + k = k /\ g.total - H + k = k /\ k \in 1..n + 1 BY <1>1, <1>2, <1>5, <2>4
      <4> QED BY <2>2, <4>1
    <3>4. 1..0 = {} OBVIOUS
    <3> QED BY <1>2, <1>5, <3>1, <3>2, <3>3, <3>4 DEF Ring, H
  <2> QED BY <1>1, <1>2, <1>7, <2>3, <2>4
<1>8. CASE n >= H
  <2>1. /\ \A k \in 1..H - pos : h.states[pos + k] = p[n - H + k]
        /\ \A k \in 1..pos : h.states[k] = p[n - pos + k]
    BY <1>3, <1>8 DEF Ring, H, n, pos
  <2>2. CASE pos + 1 = H
    <3>1. ASSUME NEW k \in 1..H PROVE g.states[k] = q[n + 1 - H + k]
      <4>1. CASE k = H
        <5>1. n + 1 - H + k = n + 1 BY <1>1, <1>2, <4>1
        <5> QED BY <1>2, <1>5, <2>2, <4>1, <5>1
      <4>2. CASE k # H
        <5>1. k \in 1..pos /\ k # pos + 1 BY <1>1, <1>3, <2>2, <4>2
        <5>2. n - pos + k = n + 1 - H + k /\ n - pos + k \in 1..n BY <1>1, <1>2, <1>3, <1>8, <2>2, <5>1
        <5> QED BY <1>2, <1>5, <2>1, <5>1, <5>2
      <4> QED BY <4>1, <4>2
    <3>2. g.insertAt = 0 BY <1>4, <2>2
    <3>3. g.insertAt \in 0..H - 1 /\ ~(g.total < H) BY <1>1, <1>2, <1>5, <1>8, <3>2
    <3>4. ASSUME NEW k \in 1..H - 0 PROVE g.states[0 + k] = q[g.total - H + k]
      <4>1. 0 + k = k /\ k \in 1..H BY <1>1
      <4>2. g.total = n + 1 BY <1>5
      <4>3. g.states[k] = q[n + 1 - H + k] BY <3>1, <4>1
      <4>4. q[g.total - H + k] = q[n + 1 - H + k] BY <1>1, <1>2, <4>2
      <4>5. g.states[0 + k] = g.states[k] BY <4>1, Zenon
      <4> QED BY <4>3, <4>4, <4>5, Zenon
    <3>5. 1..0 = {} OBVIOUS
    <3> QED BY <1>2, <1>5, <3>2, <3>3, <3>4, <3>5 DEF Ring, H
  <2>3. CASE pos + 1 # H
    <3>1. ASSUME NEW k \in 1..H - (pos + 1) PROVE g.states[pos + 1 + k] = q[n + 1 - H + k]
      <4> DEFINE i == k + 1
      <4>1. /\ i \in 1..H - pos /\ pos + i = pos + 1 + k /\ n - H + i = n + 1 - H + k
            /\ pos + i \in 1..H /\ pos + i # pos + 1 /\ n - H + i \in 1..n
        BY <1>1, <1>2, <1>3, <1>8
      <4> HIDE DEF i
      <4>2. h.states[pos + i] = p[n - H + i] BY <2>1, <4>1
      <4>3. g.states[pos + i] = h.states[pos + i] BY <1>5, <4>1
      <4>4. q[n - H + i] = p[n - H + i] BY <1>2, <4>1
      <4> QED BY <4>1, <4>2, <4>3, <4>4
    <3>2. ASSUME NEW k \in 1..pos + 1 PROVE g.states[k] = q[n + 1 - (pos + 1) + k]
      <4>1. CASE k = pos + 1
        <5>1. n + 1 - (pos + 1) + k = n + 1 BY <1>2, <1>3, <4>1
        <5> QED BY <1>2, <1>5, <4>1, <5>1
      <4>2. CASE k # pos + 1
        <5>1. /\ k \in 1..pos /\ k \in 1..H /\ n - pos + k = n + 1 - (pos + 1) + k
              /\ n - pos + k \in 1..n
          BY <1>1, <1>2, <1>3, <1>8, <4>2
        <5>2. h.states[k] = p[n - pos + k] BY <2>1, <5>1
        <5>3. g.states[k] = h.states[k] BY <1>5, <4>2, <5>1
        <5>4. q[n - pos + k] = p[n - pos + k] BY <1>2, <5>1
        <5> QED BY <5>1, <5>2, <5>3, <5>4
      <4> QED BY <4>1, <4>2
    <3>3. g.insertAt = pos + 1 BY <1>4, <2>3
    <3>4. g.insertAt \in 0..H - 1 /\ ~(g.total < H) BY <1>1, <1>2, <1>3, <1>5, <1>8, <2>3, <3>3
    <3>5. g.total = n + 1 /\ g.total = Len(q) BY <1>2, <1>5
    <3>6. \A k \in 1..H - g.insertAt : g.states[g.insertAt + k] = q[g.total - H + k]
      <4> SUFFICES ASSUME NEW k \in 1..H - g.insertAt
                   PROVE  g.states[g.insertAt + k] = q[g.total - H + k]
        OBVIOUS
      <4>1. k \in 1..H - (pos + 1) BY <3>3, Zenon
      <4>2. g.states[pos + 1 + k] = q[n + 1 - H + k] BY <3>1, <4>1
      <4>3. g.states[g.insertAt + k] = g.states[pos + 1 + k] BY <3>3, Zenon
      <4>4. q[g.total - H + k] = q[n + 1 - H + k] BY <1>1, <1>2, <3>5
      <4> QED BY <4>2, <4>3, <4>4, Zenon
    <3>7. \A k \in 1..g.insertAt : g.states[k] = q[g.total - g.insertAt + k]
      <4> SUFFICES ASSUME NEW k \in 1..g.insertAt
                   PROVE  g.states[k] = q[g.total - g.insertAt + k]
        OBVIOUS
      <4>1. k \in 1..pos + 1 BY <3>3, Zenon
      <4>2. g.states[k] = q[n + 1 - (pos + 1) + k] BY <3>2, <4>1
      <4>3. g.total - g.insertAt = n + 1 - (pos + 1) BY <1>2, <1>3, <3>3, <3>5
      <4>4. q[g.total - g.insertAt + k] = q[n + 1 - (pos + 1) + k] BY <4>3, Zenon
      <4> QED BY <4>2, <4>4, Zenon
    <3> QED BY <3>4, <3>5, <3>6, <3>7, Zenon DEF Ring, H
  <2> QED BY <2>2, <2>3
<1> QED BY <1>1, <1>2, <1>7, <1>8

\* healthHistory.asBools reads the last results in their order.
LEMMA RingRead ==
    ASSUME NEW S, NEW h \in Histories(S), NEW p \in Seq(S), Ring(h, p)
    PROVE  asBools(h) = SubSeq(p, IF Len(p) > HistorySize THEN Len(p) - HistorySize + 1 ELSE 1, Len(p))
<1> DEFINE H == HistorySize
           n == Len(p)
           pos == h.insertAt
           from == IF n > H THEN n - H + 1 ELSE 1
           last == SubSeq(p, from, n)
<1>1. H \in Nat \ {0} BY HealthBounds
<1>2. n \in Nat /\ \A k \in 1..n : p[k] \in S BY SeqLen
<1>3. pos \in 0..H - 1 /\ h.total = n /\ h.states \in [1..H -> S] BY DEF Ring, Histories
<1>4. /\ last \in Seq(S) /\ Len(last) = n - from + 1
      /\ \A k \in 1..n - from + 1 : last[k] = p[from + k - 1]
  <2>1. from \in Int /\ n \in Int /\ from >= 1 BY <1>1, <1>2
  <2>2. \A k \in from..n : p[k] \in S BY <1>2, <2>1
  <2>3. from <= n + 1 BY <1>1, <1>2
  <2>4. /\ last \in Seq(S)
        /\ Len(last) = IF from <= n THEN n - from + 1 ELSE 0
        /\ \A k \in 1..n - from + 1 : last[k] = p[from + k - 1]
    BY <2>1, <2>2, SeqPart
  <2> QED BY <2>1, <2>3, <2>4
<1> HIDE DEF last, from, H, n, pos
<1>5. CASE n < H
  <2>1. pos = n /\ \A k \in 1..n : h.states[k] = p[k] BY <1>3, <1>5 DEF Ring, H, n, pos
  <2>2. asBools(h) = SubSeq(h.states, 1, n) BY <1>3, <1>5 DEF asBools, H, n, pos
  <2>3. \A k \in 1..n : h.states[k] \in S BY <1>1, <1>2, <1>3, <1>5
  <2>4. /\ SubSeq(h.states, 1, n) \in Seq(S) /\ Len(SubSeq(h.states, 1, n)) = n
        /\ \A k \in 1..n : SubSeq(h.states, 1, n)[k] = h.states[k]
    BY <1>2, <2>3, SeqPart
  <2>5. from = 1 BY <1>1, <1>2, <1>5 DEF from
  <2> DEFINE read == SubSeq(h.states, 1, n)
  <2> HIDE DEF read
  <2>6. read \in Seq(S) /\ Len(read) = n /\ \A k \in 1..n : read[k] = h.states[k]
    BY <2>4 DEF read
  <2>7. Len(last) = n /\ \A k \in 1..n : last[k] = p[k]
    <3>1. n - from + 1 = n BY <1>2, <2>5
    <3>2. ASSUME NEW k \in 1..n PROVE last[k] = p[k]
      <4>1. from + k - 1 = k BY <2>5
      <4> QED BY <1>4, <3>1, <4>1
    <3> QED BY <1>4, <3>1, <3>2
  <2>8. read = last BY <1>4, <2>1, <2>6, <2>7, SeqSame
  <2> QED BY <2>2, <2>8, Zenon DEF read, last, from, n, H
<1>6. CASE n >= H
  <2> DEFINE old == SubSeq(h.states, pos + 1, H)
             new == SubSeq(h.states, 1, pos)
  <2>1. /\ \A k \in 1..H - pos : h.states[pos + k] = p[n - H + k]
        /\ \A k \in 1..pos : h.states[k] = p[n - pos + k]
    BY <1>3, <1>6 DEF Ring, H, n, pos
  <2>2. asBools(h) = old \o new
    <3>1. ~(h.total < HistorySize) BY <1>1, <1>2, <1>3, <1>6 DEF H
    <3> QED BY <3>1, Zenon DEF asBools, H, pos
  <2>3. old \in Seq(S) /\ Len(old) = H - pos /\ \A k \in 1..H - pos : old[k] = h.states[pos + k]
    <3>1. \A k \in pos + 1..H : h.states[k] \in S BY <1>1, <1>3
    <3>2. pos + 1 \in Int /\ H \in Int /\ pos + 1 <= H BY <1>1, <1>3
    <3>3. /\ old \in Seq(S)
          /\ Len(old) = IF pos + 1 <= H THEN H - (pos + 1) + 1 ELSE 0
          /\ \A k \in 1..H - (pos + 1) + 1 : old[k] = h.states[pos + 1 + k - 1]
      BY <3>1, <3>2, SeqPart
    <3>4. H - (pos + 1) + 1 = H - pos /\ \A k \in 1..H - pos : pos + 1 + k - 1 = pos + k BY <1>1, <1>3
    <3> HIDE DEF old
    <3> QED BY <3>2, <3>3, <3>4, Zenon
  <2>4. new \in Seq(S) /\ Len(new) = pos /\ \A k \in 1..pos : new[k] = h.states[k]
    <3>1. \A k \in 1..pos : h.states[k] \in S BY <1>1, <1>3
    <3>2. /\ new \in Seq(S) /\ Len(new) = IF 1 <= pos THEN pos - 1 + 1 ELSE 0
          /\ \A k \in 1..pos - 1 + 1 : new[k] = h.states[1 + k - 1]
      BY <1>3, <3>1, SeqPart
    <3> QED BY <1>3, <3>2
  <2> DEFINE read == old \o new
  <2> HIDE DEF old, new
  <2>5. /\ read \in Seq(S) /\ Len(read) = Len(old) + Len(new)
        /\ \A k \in 1..Len(old) + Len(new) : read[k] = IF k <= Len(old) THEN old[k] ELSE new[k - Len(old)]
    BY <2>3, <2>4, SeqJoin, Zenon
  <2> HIDE DEF read
  <2>6. from = n - H + 1 BY <1>1, <1>2, <1>6 DEF from
  <2>7. Len(read) = H /\ Len(last) = H
    <3>1. Len(read) = (H - pos) + pos /\ Len(last) = n - from + 1 BY <1>4, <2>3, <2>4, <2>5, Zenon
    <3>2. H \in Nat /\ n \in Nat /\ pos \in Nat BY <1>1, <1>2, <1>3
    <3> QED BY <2>6, <3>1, <3>2
  <2>8. ASSUME NEW k \in 1..H PROVE read[k] = last[k]
    <3>1. last[k] = p[n - H + k]
      <4>1. from + k - 1 = n - H + k /\ k \in 1..n - from + 1 BY <1>1, <1>2, <1>6, <2>6
      <4> QED BY <1>4, <4>1
    <3>2. CASE k <= H - pos
      <4>1. k \in 1..H - pos /\ k \in 1..Len(old) + Len(new) /\ k <= Len(old)
        BY <1>1, <1>3, <2>3, <2>4, <3>2
      <4> QED BY <2>1, <2>3, <2>5, <3>1, <4>1, Zenon
    <3>3. CASE ~(k <= H - pos)
      <4> DEFINE j == k - Len(old)
      <4>1. /\ j \in 1..pos /\ n - pos + j = n - H + k /\ k \in 1..Len(old) + Len(new)
            /\ ~(k <= Len(old))
        BY <1>1, <1>2, <1>3, <2>3, <2>4, <3>3
      <4>2. read[k] = new[j] BY <2>5, <4>1
      <4> HIDE DEF j
      <4>3. new[j] = h.states[j] /\ h.states[j] = p[n - pos + j] BY <2>1, <2>4, <4>1
      <4> QED BY <3>1, <4>1, <4>2, <4>3
    <3> QED BY <3>2, <3>3
  <2>9. read = last BY <1>4, <2>5, <2>7, <2>8, SeqSame
  <2> QED BY <2>2, <2>9 DEF read, last, from, n, H
<1> QED BY <1>1, <1>2, <1>5, <1>6

\* The last n of the results p are all r.
Row(p, n, r) == n \in 0..Len(p) /\ \A i \in Len(p) - n + 1..Len(p) : p[i] = r

\* One more result r, and a row of r is longer by one; or as long, or shorter, if one likes.
LEMMA RowMore ==
    ASSUME NEW S, NEW p \in Seq(S), NEW r \in S, NEW n \in Nat, Row(p, n, r), NEW m \in 0..n + 1
    PROVE  Row(Append(p, r), m, r)
<1> DEFINE q == Append(p, r)
           N == Len(p)
<1>1. /\ N \in Nat /\ Len(q) = N + 1 /\ q[N + 1] = r
      /\ \A i \in 1..N : q[i] = p[i]
  OBVIOUS
<1>2. n \in 0..N /\ \A i \in N - n + 1..N : p[i] = r BY DEF Row
<1> SUFFICES Row(q, m, r) OBVIOUS
<1> HIDE DEF q, N
<1>3. m \in 0..Len(q) BY <1>1, <1>2
<1>4. ASSUME NEW i \in Len(q) - m + 1..Len(q) PROVE q[i] = r
  <2>1. CASE i = N + 1 BY <1>1, <2>1
  <2>2. CASE i # N + 1
    <3>1. i \in 1..N /\ i \in N - n + 1..N BY <1>1, <1>2, <2>2
    <3> QED BY <1>1, <1>2, <3>1
  <2> QED BY <2>1, <2>2
<1> QED BY <1>3, <1>4 DEF Row

\* The inductive invariant: consecutiveFailures counts failures at the end of the pings, the
\* connection is closed once they are enough, and the ring holds the last pings.
HealthInv ==
    /\ pings \in Seq(BOOLEAN) /\ history \in Histories(BOOLEAN) /\ failures \in Nat
    /\ Row(pings, failures, FALSE)
    /\ unhealthy => failures >= FailuresToClose
    /\ Ring(history, pings)

\* The invariant of the health check holds in the initial state.
LEMMA HealthInvInit == HealthInit => HealthInv
<1> SUFFICES ASSUME HealthInit PROVE HealthInv OBVIOUS
<1>1. HistorySize \in Nat \ {0} BY HealthBounds
<1>2. pings = <<>> /\ failures = 0 /\ unhealthy = FALSE BY DEF HealthInit
<1>3. pings \in Seq(BOOLEAN) /\ Len(pings) = 0 BY <1>2
<1>4. history.insertAt = 0 /\ history.total = 0 /\ history \in Histories(BOOLEAN)
  BY <1>1 DEF HealthInit, Histories
<1>5. Row(pings, failures, FALSE) BY <1>2, <1>3 DEF Row
<1>6. Ring(history, pings)
  <2>1. 0 \in 0..HistorySize - 1 /\ 0 < HistorySize /\ ~(0 >= HistorySize) BY <1>1
  <2>2. 1..0 = {} OBVIOUS
  <2> QED BY <1>3, <1>4, <2>1, <2>2, Zenon DEF Ring
<1>7. failures \in Nat BY <1>2
<1> QED BY <1>2, <1>3, <1>4, <1>5, <1>6, <1>7, Zenon DEF HealthInv

\* The result of a ping keeps it.
LEMMA HealthInvChecked ==
    ASSUME HealthInv, NEW ok \in BOOLEAN, NEW stops \in BOOLEAN, Checked(ok, stops), stops => ~ok
    PROVE  HealthInv'
<1>1. /\ pings \in Seq(BOOLEAN) /\ history \in Histories(BOOLEAN) /\ failures \in Nat
      /\ Row(pings, failures, FALSE) /\ Ring(history, pings)
  BY Zenon DEF HealthInv
<1>2. history' = add(history, ok) /\ pings' = Append(pings, ok) /\ unhealthy' = (failures' >= FailuresToClose)
  BY DEF Checked
<1>3. pings' \in Seq(BOOLEAN) BY <1>1, <1>2
<1>4. history' \in Histories(BOOLEAN) /\ Ring(history', pings') BY <1>1, <1>2, RingAdd, Zenon
<1>5. failures' \in Nat /\ Row(pings', failures', FALSE)
  <2>1. CASE ok
    <3>1. failures' = 0 BY <2>1 DEF Checked, Failures
    <3> QED BY <1>3, <3>1 DEF Row
  <2>2. CASE ~ok
    <3>1. failures' \in {failures, failures + 1} BY <2>2 DEF Checked, Failures
    <3>2. failures' \in Nat /\ failures' \in 0..failures + 1 BY <1>1, <3>1
    <3>3. ok = FALSE BY <2>2
    <3>4. FALSE \in BOOLEAN OBVIOUS
    <3>5. Row(Append(pings, FALSE), failures', FALSE) BY <1>1, <3>2, <3>4, RowMore, Zenon
    <3> QED BY <1>2, <3>2, <3>3, <3>5, Zenon
  <2> QED BY <2>1, <2>2, Zenon
<1>6. unhealthy' => failures' >= FailuresToClose BY <1>2, Zenon
<1>7. HealthInv' = (/\ pings' \in Seq(BOOLEAN) /\ history' \in Histories(BOOLEAN) /\ failures' \in Nat
                   /\ Row(pings', failures', FALSE)
                   /\ (unhealthy' => failures' >= FailuresToClose)
                   /\ Ring(history', pings'))
  BY Zenon DEF HealthInv
<1> QED BY <1>3, <1>4, <1>5, <1>6, <1>7, Zenon

\* Every step keeps the invariant of the health check.
LEMMA HealthInvNext == HealthInv /\ [HealthNext]_healthVars => HealthInv'
<1> SUFFICES ASSUME HealthInv, [HealthNext]_healthVars PROVE HealthInv' OBVIOUS
<1>1. ASSUME UNCHANGED <<failures, history, pings, unhealthy>> PROVE HealthInv'
  BY <1>1, Zenon DEF HealthInv
<1>2. CASE Tick BY <1>1, <1>2 DEF Tick
<1>3. CASE CheckerQuits BY <1>1, <1>3 DEF CheckerQuits
<1>4. ASSUME NEW result \in {"ok", "failed", "cancelled", "error"}, Ping(result) PROVE HealthInv'
  <2>1. CASE result = "error" BY <1>1, <1>4, <2>1 DEF Ping
  <2>2. CASE result # "error"
    <3>1. Checked(result = "ok", result = "cancelled") BY <1>4, <2>2 DEF Ping
    <3>2. (result = "ok") \in BOOLEAN /\ (result = "cancelled") \in BOOLEAN OBVIOUS
    <3>3. result = "cancelled" => ~(result = "ok") OBVIOUS
    <3> QED BY <3>1, <3>2, <3>3, HealthInvChecked, Zenon
  <2> QED BY <2>1, <2>2
<1>5. CASE StopSelf
  <2>1. CASE quit
    <3>1. Checked(FALSE, FALSE) BY <1>5, <2>1, Zenon DEF StopSelf
    <3> QED BY <3>1, HealthInvChecked, Zenon
  <2>2. CASE ~quit BY <1>1, <1>5, <2>2 DEF StopSelf
  <2> QED BY <2>1, <2>2
<1>6. ASSUME NEW s \in Stoppers, stopHealthCheck(s) \/ StopQuit(s) \/ StopReturns(s) PROVE HealthInv'
  BY <1>1, <1>6 DEF stopHealthCheck, StopQuit, StopReturns
<1>7. CASE UNCHANGED healthVars BY <1>1, <1>7 DEF healthVars
<1> QED BY <1>2, <1>3, <1>4, <1>5, <1>6, <1>7 DEF HealthNext, HealthStep

\* The invariant implies the property: the health check closes the connection after as many
\* failures in a row as it should, and not before.
LEMMA HealthInvFollows == HealthInv => HealthFollowsPings
<1> SUFFICES ASSUME HealthInv PROVE HealthFollowsPings OBVIOUS
<1>1. /\ pings \in Seq(BOOLEAN) /\ history \in Histories(BOOLEAN) /\ failures \in Nat
      /\ Row(pings, failures, FALSE) /\ Ring(history, pings)
      /\ unhealthy => failures >= FailuresToClose
  BY Zenon DEF HealthInv
<1>2. asBools(history) =
        SubSeq(pings, IF Len(pings) > HistorySize THEN Len(pings) - HistorySize + 1 ELSE 1, Len(pings))
  BY <1>1, RingRead, Zenon
<1>3. ASSUME unhealthy
      PROVE  /\ Len(pings) >= FailuresToClose
             /\ \A i \in Len(pings) - FailuresToClose + 1..Len(pings) : ~pings[i]
  <2>1. failures >= FailuresToClose /\ FailuresToClose \in Nat /\ Len(pings) \in Nat
    BY <1>1, <1>3, HealthBounds
  <2>2. failures \in 0..Len(pings) /\ \A i \in Len(pings) - failures + 1..Len(pings) : pings[i] = FALSE
    BY <1>1, Zenon DEF Row
  <2>3. ASSUME NEW i \in Len(pings) - FailuresToClose + 1..Len(pings) PROVE ~pings[i]
    <3>1. i \in Len(pings) - failures + 1..Len(pings) BY <1>1, <2>1
    <3> QED BY <2>2, <3>1, Zenon
  <2>4. Len(pings) >= FailuresToClose BY <1>1, <2>1, <2>2
  <2> QED BY <2>3, <2>4, Zenon
<1> QED BY <1>2, <1>3, Zenon DEF HealthFollowsPings

\* For every number of failures, size of the history and number of pings: healthCheck closes
\* the connection only after FailuresToClose failures in a row, and healthHistory.asBools
\* returns the last HistorySize results in the order of the pings.
THEOREM HealthFollows == HealthSpec => []HealthFollowsPings
<1>1. HealthSpec => []HealthInv BY HealthInvInit, HealthInvNext, PTL DEF HealthSpec
<1> QED BY <1>1, HealthInvFollows, PTL

-----------------------------------------------------------------------------
(* The handshake *)

\* No connection has one end, for any versions of the library, any order
\* of steps and any failures.  What an end may conclude from a message
\* depends on what can be on the way to it, so the invariant says that.

Places == {"writeReq", "readReq", "writeRes", "readRes", "error", "failed", "create", "created", "connected"}
HasConnection == {"create", "created", "connected"}

Request == InitMessage("out", "initReq")
Response == InitMessage("in", "initRes")

\* The inductive invariant.  The dialling end is sent no response before the accepting end has
\* accepted its request, and what is sent is what the ends are.
HandInv ==
    /\ at \in [Ends -> Places] /\ closed \subseteq Ends
    /\ channel \in [Ends -> Seq({ErrorMessage, Request, Response})]
    /\ deadline \in [Ends -> {"init", "close", "none"}] /\ complete \in [Ends -> BOOLEAN]
    /\ channel["in"] \in Seq({ErrorMessage, Request})
    /\ channel["out"] \in Seq(IF at["in"] \in HasConnection THEN {ErrorMessage, Response} ELSE {ErrorMessage})
    /\ at["in"] \in HasConnection \cup {"writeRes"} => complete["out"] = TRUE
    /\ at["out"] \in HasConnection =>
         /\ version["out"] = version["in"] /\ complete["out"] = TRUE /\ complete["in"] = TRUE
         /\ at["in"] \in HasConnection
    /\ \A e \in Ends : /\ at[e] = "failed" <=> e \in closed
                       /\ at[e] = "connected" => deadline[e] # "init"

\* Taking a message off a connection and putting one on it
LEMMA SeqSteps ==
    ASSUME NEW S, NEW s \in Seq(S)
    PROVE  /\ s # <<>> => Head(s) \in S /\ Tail(s) \in Seq(S)
           /\ \A x \in S : Append(s, x) \in Seq(S)
           /\ \A T : S \subseteq T => s \in Seq(T)
OBVIOUS

\* The invariant of the handshake holds in the initial state.
LEMMA HandInvInit == HandInit => HandInv
<1> SUFFICES ASSUME HandInit PROVE HandInv OBVIOUS
<1>1. \A S : <<>> \in Seq(S) OBVIOUS
<1>2. channel["in"] = <<>> /\ channel["out"] = <<>> BY DEF HandInit, Ends
<1>3. channel \in [Ends -> Seq({ErrorMessage, Request, Response})] BY <1>1 DEF HandInit
<1>4. at["in"] = "readReq" /\ at["out"] = "writeReq" /\ at \in [Ends -> Places]
  BY DEF HandInit, Ends, Places
<1>5. /\ closed \subseteq Ends /\ closed = {} /\ deadline \in [Ends -> {"init", "close", "none"}]
      /\ complete \in [Ends -> BOOLEAN]
  BY DEF HandInit
<1>6. \A e \in Ends : at[e] \in {"readReq", "writeReq"} BY <1>4 DEF Ends
<1> QED BY <1>1, <1>2, <1>3, <1>4, <1>5, <1>6 DEF HandInv, HasConnection

\* What Send does to the two channels.
LEMMA Sent ==
    ASSUME HandInv, NEW e \in Ends, NEW msg, Send(e, msg)
    PROVE  /\ channel'[e] = channel[e]
           /\ channel'[Peer(e)] \in {channel[Peer(e)], Append(channel[Peer(e)], msg)}
           /\ msg \in {ErrorMessage, Request, Response} =>
                channel' \in [Ends -> Seq({ErrorMessage, Request, Response})]
<1>1. channel \in [Ends -> Seq({ErrorMessage, Request, Response})] BY DEF HandInv
<1>2. Peer(e) \in Ends /\ Peer(e) # e BY DEF Ends, Peer
<1>3. CASE channel' = channel BY <1>1, <1>2, <1>3
<1>4. CASE channel' = [channel EXCEPT ![Peer(e)] = Append(channel[Peer(e)], msg)]
  <2>1. channel'[e] = channel[e] /\ channel'[Peer(e)] = Append(channel[Peer(e)], msg)
    BY <1>1, <1>2, <1>4, Zenon
  <2>2. ASSUME msg \in {ErrorMessage, Request, Response}
        PROVE  Append(channel[Peer(e)], msg) \in Seq({ErrorMessage, Request, Response})
    BY <1>1, <1>2, <2>2, SeqSteps, Zenon
  <2> QED BY <1>1, <1>2, <1>4, <2>1, <2>2, Zenon
<1> QED BY <1>3, <1>4, Zenon DEF Send

\* The messages say what the ends are, and their types tell them apart.
LEMMA Messages ==
    /\ Request.type = "initReq" /\ Request.params = complete["out"]
    /\ Response.type = "initRes" /\ Response.params = complete["in"] /\ Response.version = version["in"]
    /\ ErrorMessage.type = "error"
BY Zenon DEF Request, Response, InitMessage, ErrorMessage

\* Within one step of HandNext the ends stay what they are.
LEMMA FixedMessages ==
    ASSUME UNCHANGED fixed
    PROVE  Request' = Request /\ Response' = Response /\ ErrorMessage' = ErrorMessage
           /\ complete' = complete /\ version' = version
BY Zenon DEF fixed, Request, Response, InitMessage, ErrorMessage

\* Every step keeps the invariant of the handshake.
LEMMA HandInvNext == HandInv /\ [HandNext]_handVars => HandInv'
<1> SUFFICES ASSUME HandInv, [HandNext]_handVars PROVE HandInv' OBVIOUS
<1> DEFINE All == {ErrorMessage, Request, Response}
           ToIn == {ErrorMessage, Request}
           ToOut(b) == IF b THEN {ErrorMessage, Response} ELSE {ErrorMessage}
<1>1. /\ at \in [Ends -> Places] /\ closed \subseteq Ends /\ channel \in [Ends -> Seq(All)]
      /\ deadline \in [Ends -> {"init", "close", "none"}] /\ complete \in [Ends -> BOOLEAN]
      /\ channel["in"] \in Seq(ToIn) /\ channel["out"] \in Seq(ToOut(at["in"] \in HasConnection))
      /\ at["in"] \in HasConnection \cup {"writeRes"} => complete["out"] = TRUE
      /\ at["out"] \in HasConnection =>
           /\ version["out"] = version["in"] /\ complete["out"] = TRUE /\ complete["in"] = TRUE
           /\ at["in"] \in HasConnection
      /\ \A e \in Ends : (at[e] = "failed" <=> e \in closed) /\ (at[e] = "connected" => deadline[e] # "init")
  BY Zenon DEF HandInv
<1>2. /\ Ends = {"in", "out"} /\ "in" \in Ends /\ "out" \in Ends
      /\ Peer("in") = "out" /\ Peer("out") = "in"
  BY DEF Ends, Peer
<1>3. UNCHANGED fixed
  BY DEF HandNext, handVars, fixed, writeInitReq, writeInitRes, readMessage, IOFails, initError, newConnection,
         ResetDeadline, CloseConnection
<1>4. Request' = Request /\ Response' = Response /\ ErrorMessage' = ErrorMessage
      /\ complete' = complete /\ version' = version
  BY <1>3, FixedMessages, Zenon

\* What is left to show of each step
<1> DEFINE Kept ==
        /\ at' \in [Ends -> Places] /\ closed' \subseteq Ends /\ channel' \in [Ends -> Seq(All)]
        /\ deadline' \in [Ends -> {"init", "close", "none"}]
        /\ channel'["in"] \in Seq(ToIn) /\ channel'["out"] \in Seq(ToOut(at'["in"] \in HasConnection))
        /\ at'["in"] \in HasConnection \cup {"writeRes"} => complete["out"] = TRUE
        /\ at'["out"] \in HasConnection =>
             /\ version["out"] = version["in"] /\ complete["out"] = TRUE /\ complete["in"] = TRUE
             /\ at'["in"] \in HasConnection
        /\ \A e \in Ends : (at'[e] = "failed" <=> e \in closed') /\ (at'[e] = "connected" => deadline'[e] # "init")
<1>5. SUFFICES Kept
  BY <1>1, <1>4, Zenon DEF HandInv
<1>6. /\ \A x \in ToIn : x \in All
      /\ \A b : ErrorMessage \in ToOut(b) /\ ErrorMessage \in ToIn /\ ErrorMessage \in All
      /\ Request \in ToIn /\ Response \in ToOut(TRUE) /\ Request \in All /\ Response \in All
  OBVIOUS
<1> HIDE DEF All, ToIn, ToOut
<1>7. CASE writeInitReq
  <2>1. /\ at["out"] = "writeReq" /\ at' = [at EXCEPT !["out"] = "readRes"]
        /\ Send("out", Request) /\ closed' = closed /\ deadline' = deadline
    BY <1>7, Zenon DEF writeInitReq, Request
  <2>2. channel'["out"] = channel["out"] /\ channel'["in"] \in {channel["in"], Append(channel["in"], Request)}
        /\ channel' \in [Ends -> Seq(All)]
    BY <1>2, <2>1, Sent, Zenon DEF Ends, All
  <2>3. channel'["in"] \in Seq(ToIn)
    <3>1. channel["in"] \in Seq(ToIn) /\ Request \in ToIn BY <1>1, <1>6
    <3>2. Append(channel["in"], Request) \in Seq(ToIn) BY <3>1, SeqSteps, Zenon
    <3> QED BY <2>2, <3>1, <3>2, Zenon
  <2>4. at'["out"] = "readRes" /\ at'["in"] = at["in"] /\ at' \in [Ends -> Places]
    BY <1>1, <1>2, <2>1 DEF Places
  <2>5. "readRes" \notin HasConnection BY DEF HasConnection
  <2>6. \A e \in Ends : (at'[e] = "failed" <=> e \in closed') /\ (at'[e] = "connected" => deadline'[e] # "init")
    BY <1>1, <1>2, <2>1, <2>4
  <2> QED BY <1>1, <2>1, <2>2, <2>3, <2>4, <2>5, <2>6, Zenon
<1>8. CASE writeInitRes
  <2>1. /\ at["in"] = "writeRes" /\ at' = [at EXCEPT !["in"] = "create"]
        /\ Send("in", Response) /\ closed' = closed /\ deadline' = deadline
    BY <1>8, Zenon DEF writeInitRes, Response
  <2>2. channel'["in"] = channel["in"] /\ channel'["out"] \in {channel["out"], Append(channel["out"], Response)}
        /\ channel' \in [Ends -> Seq(All)]
    BY <1>2, <2>1, Sent, Zenon DEF Ends, All
  <2>3. "writeRes" \notin HasConnection /\ "create" \in HasConnection BY DEF HasConnection
  <2>4. at'["in"] = "create" /\ at'["out"] = at["out"] /\ at' \in [Ends -> Places]
    BY <1>1, <1>2, <2>1 DEF Places
  <2>5. channel'["out"] \in Seq(ToOut(TRUE))
    <3>1. ToOut(at["in"] \in HasConnection) \subseteq ToOut(TRUE) BY DEF ToOut
    <3>2. channel["out"] \in Seq(ToOut(TRUE)) BY <1>1, <3>1, SeqSteps, Zenon
    <3> QED BY <1>6, <2>2, <3>2, SeqSteps, Zenon
  <2>6. channel'["out"] \in Seq(ToOut(at'["in"] \in HasConnection))
    <3>1. ToOut(at'["in"] \in HasConnection) = ToOut(TRUE) BY <2>3, <2>4 DEF ToOut
    <3> QED BY <2>5, <3>1, Zenon
  <2>7. at["out"] \notin HasConnection BY <1>1, <2>1, <2>3, Zenon
  <2>8. \A e \in Ends : (at'[e] = "failed" <=> e \in closed') /\ (at'[e] = "connected" => deadline'[e] # "init")
    BY <1>1, <1>2, <2>1, <2>4
  <2>9. complete["out"] = TRUE BY <1>1, <2>1, Zenon
  <2> QED BY <1>1, <2>1, <2>2, <2>4, <2>6, <2>7, <2>8, <2>9, Zenon
<1>9. CASE readMessage("out")
  <2> DEFINE msg == Head(channel["out"])
  <2>1. /\ at["out"] = "readRes" /\ channel["out"] # <<>> /\ closed' = closed /\ deadline' = deadline
        /\ at' = [at EXCEPT !["out"] = IF AcceptsRes(msg) THEN "create" ELSE "error"]
        /\ channel' = [channel EXCEPT !["out"] = Tail(channel["out"])]
    BY <1>9 DEF readMessage
  <2>2. at'["in"] = at["in"] /\ at'["out"] = (IF AcceptsRes(msg) THEN "create" ELSE "error") /\ at' \in [Ends -> Places]
    BY <1>1, <1>2, <2>1 DEF Places
  <2>3. msg \in ToOut(at["in"] \in HasConnection) /\ Tail(channel["out"]) \in Seq(ToOut(at["in"] \in HasConnection))
        /\ Tail(channel["out"]) \in Seq(All)
    BY <1>1, <1>2, <2>1, SeqSteps, Zenon
  <2> HIDE DEF msg
  <2>4. channel'["in"] = channel["in"] /\ channel'["out"] = Tail(channel["out"]) /\ channel' \in [Ends -> Seq(All)]
    BY <1>1, <1>2, <2>1, <2>3, Zenon
  <2>5. ASSUME AcceptsRes(msg)
        PROVE  /\ version["out"] = version["in"] /\ complete["out"] = TRUE /\ complete["in"] = TRUE
               /\ at["in"] \in HasConnection
    <3>1. msg.type = "initRes" /\ msg.version = version["out"] /\ msg.params BY <2>5 DEF AcceptsRes
    <3>2. msg # ErrorMessage BY <3>1, Messages
    <3>3. at["in"] \in HasConnection /\ msg = Response BY <2>3, <3>2 DEF ToOut
    <3>4. complete["out"] = TRUE BY <1>1, <3>3, Zenon
    <3>5. version["in"] = version["out"] BY <3>1, <3>3, Messages, Zenon
    <3>6. Response.params BY <3>1, <3>3, Zenon
    <3>7. complete["in"] BY <3>6, Messages, Zenon
    <3>8. complete["in"] = TRUE BY <1>1, <1>2, <3>7, Zenon
    <3> QED BY <3>3, <3>4, <3>5, <3>8, Zenon
  <2>6. "error" \notin HasConnection BY DEF HasConnection
  <2>7. at'["out"] \in HasConnection => AcceptsRes(msg) BY <2>2, <2>6, Zenon
  <2>8. \A e \in Ends : (at'[e] = "failed" <=> e \in closed') /\ (at'[e] = "connected" => deadline'[e] # "init")
    BY <1>1, <1>2, <2>1, <2>2
  <2> QED BY <1>1, <2>1, <2>2, <2>3, <2>4, <2>5, <2>7, <2>8, Zenon
<1>10. CASE readMessage("in")
  <2> DEFINE msg == Head(channel["in"])
  <2>1. /\ at["in"] = "readReq" /\ channel["in"] # <<>> /\ closed' = closed /\ deadline' = deadline
        /\ at' = [at EXCEPT !["in"] = IF AcceptsReq(msg) THEN "writeRes" ELSE "error"]
        /\ channel' = [channel EXCEPT !["in"] = Tail(channel["in"])]
    BY <1>10 DEF readMessage
  <2>2. at'["out"] = at["out"] /\ at'["in"] = (IF AcceptsReq(msg) THEN "writeRes" ELSE "error") /\ at' \in [Ends -> Places]
    BY <1>1, <1>2, <2>1 DEF Places
  <2>3. msg \in ToIn /\ Tail(channel["in"]) \in Seq(ToIn) /\ Tail(channel["in"]) \in Seq(All)
    BY <1>1, <1>2, <2>1, SeqSteps, Zenon
  <2> HIDE DEF msg
  <2>4. channel'["out"] = channel["out"] /\ channel'["in"] = Tail(channel["in"]) /\ channel' \in [Ends -> Seq(All)]
    BY <1>1, <1>2, <2>1, <2>3, Zenon
  <2>5. ASSUME AcceptsReq(msg) PROVE complete["out"] = TRUE
    <3>1. msg.type = "initReq" /\ msg.params BY <2>5 DEF AcceptsReq
    <3>2. msg # ErrorMessage BY <3>1, Messages
    <3>3. msg = Request BY <2>3, <3>2 DEF ToIn
    <3>4. Request.params BY <3>1, <3>3, Zenon
    <3>5. complete["out"] BY <3>4, Messages, Zenon
    <3> QED BY <1>1, <1>2, <3>5, Zenon
  <2>6. /\ at["in"] \notin HasConnection /\ at'["in"] \notin HasConnection
        /\ (at'["in"] = "writeRes" => AcceptsReq(msg))
    BY <2>1, <2>2 DEF HasConnection
  <2>7. ToOut(at'["in"] \in HasConnection) = ToOut(at["in"] \in HasConnection) BY <2>6 DEF ToOut
  <2>8. \A e \in Ends : (at'[e] = "failed" <=> e \in closed') /\ (at'[e] = "connected" => deadline'[e] # "init")
    BY <1>1, <1>2, <2>1, <2>2
  <2>9. channel'["out"] \in Seq(ToOut(at'["in"] \in HasConnection)) BY <1>1, <2>4, <2>7, Zenon
  <2>10. at'["out"] \notin HasConnection BY <1>1, <2>2, <2>6, Zenon
  <2> QED BY <1>1, <2>1, <2>2, <2>3, <2>4, <2>5, <2>6, <2>8, <2>9, <2>10, Zenon

\* A step that sends nothing, closes nothing and moves no end to or from having a connection
<1>11. ASSUME channel' = channel, closed' = closed, at' \in [Ends -> Places],
              deadline' \in [Ends -> {"init", "close", "none"}],
              \A e \in Ends : /\ at'[e] \in HasConnection <=> at[e] \in HasConnection
                              /\ at'[e] = "failed" <=> at[e] = "failed"
                              /\ at'[e] = "connected" => deadline'[e] # "init"
                              /\ at'[e] = "writeRes" => at[e] = "writeRes"
       PROVE  Kept
  <2>1. /\ at'["in"] \in HasConnection <=> at["in"] \in HasConnection
        /\ at'["in"] = "writeRes" => at["in"] = "writeRes"
        /\ at'["out"] \in HasConnection <=> at["out"] \in HasConnection
    <3>1. "in" \in Ends /\ "out" \in Ends BY <1>2
    <3> QED BY ONLY <1>11, <3>1
  <2>2. ToOut(at'["in"] \in HasConnection) = ToOut(at["in"] \in HasConnection) BY <2>1 DEF ToOut
  <2>3. channel'["out"] \in Seq(ToOut(at'["in"] \in HasConnection)) BY <1>1, <1>11, <2>2, Zenon
  <2>4. \A e \in Ends : at'[e] = "failed" <=> e \in closed' BY <1>1, <1>11
  <2> QED BY <1>1, <1>11, <2>1, <2>3, <2>4, Zenon
<1>12. ASSUME NEW e \in Ends, initError(e) PROVE Kept
  <2>1. /\ at[e] = "error" /\ at' = [at EXCEPT ![e] = "failed"] /\ Send(e, ErrorMessage)
        /\ closed' = closed \cup {e} /\ deadline' = deadline
    BY <1>12 DEF initError
  <2>2. /\ channel'[e] = channel[e] /\ channel' \in [Ends -> Seq(All)]
        /\ channel'[Peer(e)] \in {channel[Peer(e)], Append(channel[Peer(e)], ErrorMessage)}
    BY <2>1, Sent, Zenon DEF All
  <2>3. at' \in [Ends -> Places] /\ at'[e] = "failed" /\ \A d \in Ends \ {e} : at'[d] = at[d]
    BY <1>1, <2>1 DEF Places
  <2>4. "failed" \notin HasConnection /\ "error" \notin HasConnection BY DEF HasConnection
  <2>5. \A d \in Ends : /\ at'[d] \in HasConnection <=> at[d] \in HasConnection
                        /\ at'[d] = "writeRes" => at[d] = "writeRes"
    BY <2>1, <2>3, <2>4
  <2>6. \A d \in Ends : (at'[d] = "failed" <=> d \in closed') /\ (at'[d] = "connected" => deadline'[d] # "init")
    BY <1>1, <2>1, <2>3
  <2>7. /\ at'["in"] \in HasConnection <=> at["in"] \in HasConnection
        /\ at'["in"] = "writeRes" => at["in"] = "writeRes"
        /\ at'["out"] \in HasConnection <=> at["out"] \in HasConnection
        /\ ToOut(at'["in"] \in HasConnection) = ToOut(at["in"] \in HasConnection)
    <3>1. "in" \in Ends /\ "out" \in Ends BY <1>2
    <3> QED BY ONLY <2>5, <3>1 DEF ToOut
  <2>8. channel'["in"] \in Seq(ToIn) /\ channel'["out"] \in Seq(ToOut(at["in"] \in HasConnection))
    <3>1. CASE e = "out"
      <4>1. channel'["in"] \in {channel["in"], Append(channel["in"], ErrorMessage)} /\ channel'["out"] = channel["out"]
        BY <1>2, <2>2, <3>1, Zenon
      <4>2. channel["in"] \in Seq(ToIn) /\ ErrorMessage \in ToIn BY <1>1, <1>6
      <4>3. Append(channel["in"], ErrorMessage) \in Seq(ToIn) BY <4>2, SeqSteps, Zenon
      <4> QED BY <1>1, <4>1, <4>2, <4>3, Zenon
    <3>2. CASE e = "in"
      <4>1. channel'["out"] \in {channel["out"], Append(channel["out"], ErrorMessage)} /\ channel'["in"] = channel["in"]
        BY <1>2, <2>2, <3>2, Zenon
      <4> DEFINE S == ToOut(at["in"] \in HasConnection)
      <4>2. channel["out"] \in Seq(S) /\ ErrorMessage \in S BY <1>1, <1>6, Zenon
      <4> HIDE DEF S
      <4>3. Append(channel["out"], ErrorMessage) \in Seq(S) BY <4>2, SeqSteps, Zenon
      <4>4. channel'["out"] \in Seq(S) BY <4>1, <4>2, <4>3, Zenon
      <4> QED BY <1>1, <4>1, <4>4, Zenon DEF S
    <3> QED BY <1>2, <3>1, <3>2
  <2>9. closed' \subseteq Ends BY <1>1, <2>1
  <2>10. channel'["out"] \in Seq(ToOut(at'["in"] \in HasConnection)) BY <2>7, <2>8, Zenon
  <2> QED BY <1>1, <2>1, <2>2, <2>3, <2>6, <2>7, <2>8, <2>9, <2>10, Zenon
<1>13. ASSUME NEW e \in Ends, IOFails(e) PROVE Kept
  <2>1. /\ at[e] \in {"writeReq", "readReq", "writeRes", "readRes"} /\ at' = [at EXCEPT ![e] = "error"]
        /\ UNCHANGED <<channel, closed, deadline>>
    BY <1>13 DEF IOFails
  <2> QED BY <1>1, <1>11, <2>1 DEF Places, HasConnection
<1>14. ASSUME NEW e \in Ends, newConnection(e) PROVE Kept
  <2>1. at[e] = "create" /\ at' = [at EXCEPT ![e] = "created"] /\ UNCHANGED <<channel, closed, deadline>>
    BY <1>14 DEF newConnection
  <2> QED BY <1>1, <1>11, <2>1 DEF Places, HasConnection
<1>15. ASSUME NEW e \in Ends, ResetDeadline(e) PROVE Kept
  <2>1. /\ at[e] = "created" /\ at' = [at EXCEPT ![e] = "connected"]
        /\ deadline' = [deadline EXCEPT ![e] = "none"] /\ UNCHANGED <<channel, closed>>
    BY <1>15 DEF ResetDeadline
  <2> QED BY <1>1, <1>11, <2>1 DEF Places, HasConnection
<1>16. ASSUME NEW e \in Ends, CloseConnection(e) PROVE Kept
  <2>1. deadline' = [deadline EXCEPT ![e] = "close"] /\ UNCHANGED <<at, channel, closed>>
    BY <1>16 DEF CloseConnection
  <2> QED BY <1>1, <1>11, <2>1
<1>17. CASE UNCHANGED handVars BY <1>1, <1>11, <1>17 DEF handVars
<1> QED BY <1>2, <1>7, <1>8, <1>9, <1>10, <1>12, <1>13, <1>14, <1>15, <1>16, <1>17, Zenon DEF HandNext

\* For all versions of the library at the two ends, whatever one leaves out, fails or times out:
\* an end has a connection only together with the other.
THEOREM HandshakeNeverHalf == HandSpec => []HandshakeAgrees
<1>1. HandSpec => []HandInv BY HandInvInit, HandInvNext, PTL DEF HandSpec
<1>2. HandInv => HandshakeAgrees
  <2> SUFFICES ASSUME HandInv PROVE HandshakeAgrees OBVIOUS
  <2>1. /\ at["out"] \in HasConnection =>
             /\ version["out"] = version["in"] /\ complete["out"] = TRUE /\ complete["in"] = TRUE
             /\ at["in"] \in HasConnection
        /\ \A e \in Ends : (at[e] = "failed" <=> e \in closed) /\ (at[e] = "connected" => deadline[e] # "init")
    BY Zenon DEF HandInv
  <2>2. \A e \in Ends : at[e] = "connected" => e \notin closed BY <2>1
  <2> QED BY <2>1, <2>2, Zenon DEF HandshakeAgrees, HasConnection
<1> QED BY <1>1, <1>2, PTL
=============================================================================
