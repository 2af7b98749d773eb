------------------------------ MODULE PeerHeap ------------------------------
(***************************************************************************)
(* A PeerList under its lock: the map of peers, the heap the next peer is  *)
(* chosen from, and the scores (peer.go, peer_heap.go, peer_strategies.go). *)
(* Every action is one critical section of the list.                       *)
(*                                                                         *)
(* A heap value is a record: at, the slice of peers; score, order and      *)
(* index, the fields of each peerScore; and next, peerHeap.order.          *)
(***************************************************************************)
EXTENDS Integers, Sequences, FiniteSets

CONSTANTS HostPorts,  \* the peers that may be added
          HostOf,     \* HostPorts -> the host of each
          MaxOrder,   \* bound on peerHeap.order
          MaxPending, \* bound on the pending outbound calls of a peer
          Updaters    \* goroutines that call onPeerChange

ASSUME HeapBounds == MaxOrder \in Nat /\ MaxPending \in Nat

VARIABLES heap,       \* peerHeap, with the peerScores in it
          listed,     \* PeerList.peersByHostPort
          strategy,   \* PeerList.scoreCalculator
          load,       \* what a score is computed from: connections and pending calls
          update,     \* onPeerChange calls between their two critical sections
          retrying,   \* a Get between its two critical sections
          chosen      \* the peer the last Get returned, and those it may choose from

heapVars == <<heap, listed, strategy, load, update, retrying, chosen>>

Idle == [peer |-> "none", score |-> 0]
NoChoice == [peer |-> {}, among |-> {}]

Len0(H) == Len(H.at)
At(H, i) == H.at[i + 1]
\* The peers in a heap
Members(H) == {H.at[i] : i \in DOMAIN H.at}

(***************************************************************************)
(* peer_strategies.go.  The two largest constants keep their order only.   *)
(***************************************************************************)
MaxInt32 == MaxPending + 1
MaxUint64 == 2 * MaxInt32 + MaxPending
\* conns: no connections, only outbound ones, or inbound ones
Loads == [conns : {"none", "outbound", "inbound"}, pending : 0..MaxPending]
GetScore(sc, l) ==
    CASE sc = "zero" -> 0
      [] sc # "zero" /\ l.conns = "none" -> MaxUint64
      [] sc = "preferIncoming" /\ l.conns = "outbound" -> MaxInt32 + l.pending
      [] OTHER -> l.pending

(***************************************************************************)
(* peer_heap.go and container/heap.                                        *)
(***************************************************************************)
Less(H, i, j) ==
    LET p == At(H, i)  q == At(H, j) IN
    IF H.score[p] = H.score[q] THEN H.order[p] < H.order[q] ELSE H.score[p] < H.score[q]

\* mutant: only the first index is updated
Swap_OneIndex(H, i, j) ==
    LET p == At(H, i)  q == At(H, j) IN
    [H EXCEPT !.at[i + 1] = q, !.at[j + 1] = p, !.index[q] = i]

Swap(H, i, j) ==
    LET p == At(H, i)  q == At(H, j) IN
    [H EXCEPT !.at[i + 1] = q, !.at[j + 1] = p, !.index = [@ EXCEPT ![q] = i, ![p] = j]]

RECURSIVE up(_, _)
up(H, j) ==
    LET i == IF j = 0 THEN 0 ELSE (j - 1) \div 2 IN
    IF i = j \/ ~Less(H, j, i) THEN H ELSE up(Swap(H, i, j), i)

RECURSIVE down(_, _, _)
down(H, i, n) ==
    LET j1 == 2 * i + 1
        j == IF j1 + 1 < n /\ Less(H, j1 + 1, j1) THEN j1 + 1 ELSE j1
    IN IF j1 >= n \/ ~Less(H, j, i) THEN H ELSE down(Swap(H, i, j), j, n)

\* heap.Fix: down, and up when that moved nothing
Fix(H, i) == LET D == down(H, i, Len0(H)) IN IF D # H THEN D ELSE up(H, i)

\* heap.Push
HeapPush(H, p) ==
    up([H EXCEPT !.at = Append(@, p), !.index[p] = Len0(H)], Len0(H))

\* peerHeap.Pop: the last element leaves the slice
DropLast(H) ==
    [H EXCEPT !.at = SubSeq(@, 1, Len(@) - 1), !.index[H.at[Len(H.at)]] = -1]

\* heap.Pop
popPeer(H) ==
    LET n == Len0(H) - 1 IN [peer |-> At(H, 0), heap |-> DropLast(down(Swap(H, 0, n), 0, n))]

\* heap.Remove at the peer's index
removePeer(H, p) ==
    LET n == Len0(H) - 1
        i == H.index[p]
        S == Swap(H, i, n)
        D == down(S, i, n)
    IN DropLast(IF n = i THEN H ELSE IF D # S THEN D ELSE up(S, i))

\* pushPeer: r is the random offset, below Len/2 + 1
Offsets(H) == 0..Len0(H) \div 2
pushPeer(H, p, r) ==
    HeapPush([H EXCEPT !.next = @ + 1, !.order[p] = H.next + 1 + r], p)

swapOrder(H, i, j) ==
    LET p == At(H, i)  q == At(H, j) IN
    IF i = j THEN H
    ELSE Fix(Fix([H EXCEPT !.order = [@ EXCEPT ![p] = H.order[q], ![q] = H.order[p]]], i), j)

\* addPeer: pushPeer, then the order is swapped with the peer at the random index k
addPeer(H, p, r, k) == LET P == pushPeer(H, p, r) IN swapOrder(P, P.index[p], k)

updatePeer(H, p, score) ==
    IF H.score[p] = score THEN H ELSE LET S == [H EXCEPT !.score[p] = score] IN Fix(S, S.index[p])

(***************************************************************************)
(* PeerList.                                                               *)
(***************************************************************************)
HeapInit ==
    /\ heap = [at |-> <<>>, score |-> [p \in HostPorts |-> 0], order |-> [p \in HostPorts |-> 0],
               index |-> [p \in HostPorts |-> -1], next |-> 0]
    /\ listed = {}
    /\ strategy = "preferIncoming"
    /\ load = [p \in HostPorts |-> [conns |-> "none", pending |-> 0]]
    /\ update = [u \in Updaters |-> Idle]
    /\ retrying = FALSE
    /\ chosen = NoChoice

\* PeerList.Add of a peer that is not in the list
PeerListAdd(p) ==
    /\ p \notin listed /\ heap.next < MaxOrder
    /\ LET H == [heap EXCEPT !.score[p] = GetScore(strategy, load[p])] IN
       \E r \in Offsets(H), k \in 0..Len0(H) : heap' = addPeer(H, p, r, k)
    /\ listed' = listed \cup {p}
    /\ chosen' = NoChoice
    /\ UNCHANGED <<strategy, load, update, retrying>>

\* The peerScore leaves the list.  An onPeerChange that still has it writes to an object
\* outside the heap, with index -1, which moves nothing.
PeerListRemove(p) ==
    /\ p \in listed
    /\ heap' = removePeer(heap, p)
    /\ listed' = listed \ {p}
    /\ update' = [u \in Updaters |-> IF update[u].peer = p THEN Idle ELSE update[u]]
    /\ chosen' = NoChoice
    /\ UNCHANGED <<strategy, load, retrying>>

\* canChoosePeer for a set of selected host:ports, whose hosts are selected too
\* (RequestState.AddSelectedPeer)
canChoosePeer(p, prev, avoidHost) ==
    p \notin prev /\ (avoidHost => HostOf[p] \notin {HostOf[q] : q \in prev})

\* The peers GetNew may return: those not selected on hosts not selected, else those not
\* selected
Candidates(prev) ==
    LET new(h) == {p \in listed : canChoosePeer(p, prev, h)} IN
    IF new(TRUE) # {} THEN new(TRUE) ELSE new(FALSE)

\* The peers popped before, and the peer chosen when there is one
RECURSIVE popUntil(_, _, _, _, _)
popUntil(H, prev, avoidHost, popped, n) ==
    IF n = 0 THEN [heap |-> H, popped |-> popped, peer |-> {}]
    ELSE LET x == popPeer(H) IN
         IF canChoosePeer(x.peer, prev, avoidHost)
         THEN [heap |-> x.heap, popped |-> popped, peer |-> {x.peer}]
         ELSE popUntil(x.heap, prev, avoidHost, Append(popped, x.peer), n - 1)

RECURSIVE PushAll(_, _)
PushAll(H, ps) == IF ps = <<>> THEN H ELSE PushAll(HeapPush(H, Head(ps)), Tail(ps))

choosePeer(H, prev, avoidHost, r) ==
    LET x == popUntil(H, prev, avoidHost, <<>>, Len0(H))
        P == PushAll(x.heap, x.popped)
    IN [peer |-> x.peer,
        heap |-> IF x.peer = {} THEN P ELSE pushPeer(P, CHOOSE p \in x.peer : TRUE, r)]

\* mutant: the host is never avoided
GetNew_AnyHost(H, prev, r) == choosePeer(H, prev, FALSE, r)

\* PeerList.GetNew on a list with peers
GetNew(H, prev, r) ==
    LET x == choosePeer(H, prev, TRUE, r) IN
    IF x.peer # {} THEN x ELSE choosePeer(x.heap, prev, FALSE, r)

\* The first critical section of PeerList.Get.  An empty list is ErrNoPeers; without a new
\* peer it goes on to the second.
Get(prev) ==
    /\ ~retrying /\ heap.next < MaxOrder
    /\ \E r \in Offsets(heap) :
          LET x == GetNew(heap, prev, r) IN
          /\ heap' = x.heap
          /\ chosen' = [peer |-> x.peer, among |-> Candidates(prev)]
    /\ retrying' = (chosen'.peer = {} /\ listed # {})
    /\ UNCHANGED <<listed, strategy, load, update>>

\* The second: any peer
GetAny ==
    /\ retrying /\ heap.next < MaxOrder
    /\ \E r \in Offsets(heap) :
          LET x == choosePeer(heap, {}, FALSE, r) IN
          heap' = x.heap /\ chosen' = [peer |-> x.peer, among |-> listed]
    /\ retrying' = FALSE
    /\ UNCHANGED <<listed, strategy, load, update>>

\* The connections or the pending calls of peer p change and onPeerChange reads the peer's
\* score and computes the new one.
onPeerChange(u, p, l) ==
    /\ update[u] = Idle
    /\ load' = [load EXCEPT ![p] = l]
    /\ update' = IF p \in listed /\ GetScore(strategy, l) # heap.score[p]
                 THEN [update EXCEPT ![u] = [peer |-> p, score |-> GetScore(strategy, l)]] ELSE update
    /\ chosen' = NoChoice
    /\ UNCHANGED <<heap, listed, strategy, retrying>>

\* onPeerChange has the lock: the score is written, whatever happened since.
WriteScore(u) ==
    /\ update[u] # Idle
    /\ heap' = updatePeer(heap, update[u].peer, update[u].score)
    /\ update' = [update EXCEPT ![u] = Idle]
    /\ chosen' = NoChoice
    /\ UNCHANGED <<listed, strategy, load, retrying>>

\* updatePeer for each peer of ps, a sequence
RECURSIVE Rescore(_, _, _)
Rescore(H, sc, ps) ==
    IF ps = <<>> THEN H
    ELSE Rescore(updatePeer(H, Head(ps), GetScore(sc, load[Head(ps)])), sc, Tail(ps))

\* SetStrategy computes every score again, in the random order of a map.
SetStrategy(sc) ==
    /\ strategy' = sc
    /\ \E ps \in [1..Cardinality(listed) -> listed] :
          listed = {ps[i] : i \in DOMAIN ps} /\ heap' = Rescore(heap, sc, ps)
    /\ chosen' = NoChoice
    /\ UNCHANGED <<listed, load, update, retrying>>

HeapNext ==
    \/ \E p \in HostPorts : PeerListAdd(p) \/ PeerListRemove(p)
    \/ \E u \in Updaters : WriteScore(u) \/ \E p \in HostPorts, l \in Loads : onPeerChange(u, p, l)
    \/ (\E prev \in SUBSET HostPorts : Get(prev)) \/ GetAny
    \/ \E sc \in {"zero", "leastPending", "preferIncoming"} : SetStrategy(sc)

HeapSpec == HeapInit /\ [][HeapNext]_heapVars

-----------------------------------------------------------------------------
\* The heap holds exactly the peers of the map, each knows its own index, and no
\* peer is Less than its parent: what Fix, Remove and the pops of choosePeer
\* need, and leave, whatever peers and scores have done in between.
HeapConsistent ==
    /\ Members(heap) = listed /\ Len0(heap) = Cardinality(listed)
    /\ \A i \in 0..Len0(heap) - 1 : heap.index[At(heap, i)] = i
    /\ \A p \in HostPorts \ listed : heap.index[p] = -1
    /\ \A i \in 1..Len0(heap) - 1 : ~Less(heap, i, (i - 1) \div 2)

\* A Get returns a peer of the best kind there is, with the least score of its kind, and
\* reports that there is none only if there is none (choosePeer pops past the peers it may
\* not choose and puts them back, while scores change between the two critical sections).
ChosenIsBest ==
    /\ chosen.peer \subseteq chosen.among /\ (chosen.peer = {} => chosen.among = {})
    /\ \A p \in chosen.peer, q \in chosen.among : heap.score[p] <= heap.score[q]
=============================================================================
