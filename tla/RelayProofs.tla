----------------------------- MODULE RelayProofs ----------------------------
(***************************************************************************)
(* Proofs about Relay, last part: each pending count is the number of      *)
(* references that are held, the invariant of the relay is inductive, and  *)
(* with it the safety properties of Relay hold for any number of calls and *)
(* any bounds.                                                             *)
(***************************************************************************)
EXTENDS RelaySteps, FiniteSetTheorems

\* The calls of which the relayer of s holds a live item, or of which a timeout of its has
\* taken the item out
Lives(s) == {k \in Calls : items[s][k] = "live"}
Firing(s) == {k \in Calls : fire[s][k] = "settle"}
\* handleCallReq holds the reference.
Hand(s) ==
    job["src"].step \in (IF s = "dst" THEN {"addRemote"}
                         ELSE {"destination", "admitRemote", "addRemote", "startRemote", "addOwn", "undo", "undoDuplicate"})
Tally(s) ==
    Cardinality(Lives(s)) + One(Hand(s)) + One(Settles("src", s)) + One(Settles("dst", s)) + Cardinality(Firing(s))

\* Sets of calls are finite and can be counted.
LEMMA Counts ==
    ASSUME NEW S \in SUBSET Calls
    PROVE  Cardinality(S) \in Nat /\ IsFiniteSet(S)
           /\ \A k \in Calls : k \notin S => Cardinality(S \cup {k}) = Cardinality(S) + 1
<1>1. IsFiniteSet(S) BY RelayBounds, FS_Subset, Zenon
<1> QED BY <1>1, FS_CardinalityType, FS_AddElement, Zenon

\* Of a set that changes at most in one element
LEMMA CountMoves ==
    ASSUME NEW S \in SUBSET Calls, NEW T \in SUBSET Calls, NEW k \in Calls, \A l \in Calls : l # k => (l \in S <=> l \in T)
    PROVE  Cardinality(T) + One(k \in S) = Cardinality(S) + One(k \in T)
<1>1. Cardinality(S) \in Nat /\ Cardinality(T) \in Nat BY Counts, Zenon
<1>2. CASE k \in S <=> k \in T
  <2>1. S = T BY <1>2
  <2> QED BY <2>1, Zenon
<1>3. CASE k \in S /\ k \notin T
  <2>1. S = T \cup {k} BY <1>3
  <2>2. Cardinality(S) = Cardinality(T) + 1 BY <1>3, <2>1, Counts, Zenon
  <2> QED BY <1>1, <1>3, <2>2 DEF One
<1>4. CASE k \notin S /\ k \in T
  <2>1. T = S \cup {k} BY <1>4, Zenon
  <2>2. Cardinality(T) = Cardinality(S) + 1 BY <1>4, <2>1, Counts, Zenon
  <2> QED BY <1>1, <1>4, <2>2 DEF One
<1> QED BY <1>2, <1>3, <1>4, Zenon

\* The readers that have an item to settle, counted one by one.
LEMMA Holders ==
    ASSUME NEW s
    PROVE  Cardinality({p \in Sides : job[p].step \in {"failSettle", "finishSettle"} /\ SideOf(p) = s})
             = One(Settles("src", s)) + One(Settles("dst", s))
<1> DEFINE H == {p \in Sides : Settles(p, s)}
<1>1. {p \in Sides : job[p].step \in {"failSettle", "finishSettle"} /\ SideOf(p) = s} = H
  BY Zenon DEF Settles
<1>2. CASE Settles("src", s) /\ Settles("dst", s)
  <2>1. H = {"src"} \cup {"dst"} /\ "dst" \notin {"src"} BY <1>2 DEF Sides
  <2>2. Cardinality({"src"}) = 1 /\ IsFiniteSet({"src"}) BY FS_Singleton, Zenon
  <2>3. Cardinality(H) = 2 BY <2>1, <2>2, FS_AddElement
  <2> QED BY <1>1, <1>2, <2>3 DEF One
<1>3. CASE Settles("src", s) /\ ~Settles("dst", s)
  <2>1. H = {"src"} BY <1>3, Zenon DEF Sides
  <2>2. Cardinality({"src"}) = 1 BY FS_Singleton
  <2> QED BY <1>1, <1>3, <2>1, <2>2 DEF One
<1>4. CASE ~Settles("src", s) /\ Settles("dst", s)
  <2>1. H = {"dst"} BY <1>4 DEF Sides
  <2>2. Cardinality({"dst"}) = 1 BY FS_Singleton, Zenon
  <2> QED BY <1>1, <1>4, <2>1, <2>2 DEF One
<1>5. CASE ~Settles("src", s) /\ ~Settles("dst", s)
  <2>1. H = {} BY <1>5, Zenon DEF Sides
  <2>2. Cardinality({}) = 0 BY FS_EmptySet
  <2> QED BY <1>1, <1>5, <2>1, <2>2 DEF One
<1> QED BY <1>2, <1>3, <1>4, <1>5, Zenon

Tallied == \A s \in Sides : pending[s] = Tally(s)

\* PendingBalanced with its terms counted one by one.
LEMMA TallyIs == PendingBalanced <=> Tallied
<1>1. ASSUME NEW s \in Sides PROVE Cardinality({k \in Calls : items[s][k] = "live"}) + InHand(s) = Tally(s)
  <2>1. Cardinality(Lives(s)) \in Nat /\ Cardinality(Firing(s)) \in Nat BY Counts DEF Lives, Firing
  <2>2. \A b : One(b) \in Nat BY Zenon DEF One
  <2>3. InHand(s) = One(Hand(s)) + (One(Settles("src", s)) + One(Settles("dst", s))) + Cardinality(Firing(s))
    BY Holders, Zenon DEF InHand, Hand, One, Firing
  <2>4. Cardinality({k \in Calls : items[s][k] = "live"}) = Cardinality(Lives(s)) BY Zenon DEF Lives
  <2> QED BY <2>1, <2>2, <2>3, <2>4 DEF Tally
<1> QED BY <1>1, Zenon DEF PendingBalanced, Tallied

\* The live items of both sides when only that of (i, k) may change, and likewise the timeouts
LEMMA LiveMoves ==
    ASSUME NEW i \in Sides, NEW k \in Calls, OthersLive(i, k), NEW t \in Sides
    PROVE  Cardinality(Lives(t)') + One(t = i /\ items[i][k] = "live") = Cardinality(Lives(t)) + One(t = i /\ items'[i][k] = "live")
<1>1. Lives(t) \in SUBSET Calls /\ Lives(t)' \in SUBSET Calls BY Zenon DEF Lives
<1>2. Cardinality(Lives(t)) \in Nat /\ Cardinality(Lives(t)') \in Nat BY <1>1, Counts
<1>3. CASE t = i
  <2>1. \A l \in Calls : l # k => (l \in Lives(t) <=> l \in Lives(t)') BY DEF OthersLive, Lives
  <2>2. (k \in Lives(t) <=> items[i][k] = "live") /\ (k \in Lives(t)' <=> items'[i][k] = "live")
    BY <1>3 DEF Lives
  <2>3. Cardinality(Lives(t)') + One(k \in Lives(t)) = Cardinality(Lives(t)) + One(k \in Lives(t)')
    BY <1>1, <2>1, CountMoves
  <2> QED BY <1>2, <1>3, <2>2, <2>3 DEF One
<1>4. CASE t # i
  <2>1. Lives(t)' = Lives(t) BY <1>4 DEF OthersLive, Lives
  <2> QED BY <1>2, <1>4, <2>1, Zenon DEF One
<1> QED BY <1>3, <1>4, Zenon

\* The same for the timeouts that have an item to settle.
LEMMA FiringMoves ==
    ASSUME NEW i \in Sides, NEW k \in Calls, OthersFire(i, k), NEW t \in Sides
    PROVE  Cardinality(Firing(t)') + One(t = i /\ fire[i][k] = "settle") = Cardinality(Firing(t)) + One(t = i /\ fire'[i][k] = "settle")
<1>1. Firing(t) \in SUBSET Calls /\ Firing(t)' \in SUBSET Calls BY DEF Firing
<1>2. Cardinality(Firing(t)) \in Nat /\ Cardinality(Firing(t)') \in Nat BY <1>1, Counts
<1>3. CASE t = i
  <2>1. \A l \in Calls : l # k => (l \in Firing(t) <=> l \in Firing(t)') BY DEF OthersFire, Firing
  <2>2. (k \in Firing(t) <=> fire[i][k] = "settle") /\ (k \in Firing(t)' <=> fire'[i][k] = "settle")
    BY <1>3 DEF Firing
  <2>3. Cardinality(Firing(t)') + One(k \in Firing(t)) = Cardinality(Firing(t)) + One(k \in Firing(t)')
    BY <1>1, <2>1, CountMoves
  <2> QED BY <1>2, <1>3, <2>2, <2>3 DEF One
<1>4. CASE t # i
  <2>1. Firing(t)' = Firing(t) BY <1>4, Zenon DEF OthersFire, Firing
  <2> QED BY <1>2, <1>4, <2>1, Zenon DEF One
<1> QED BY <1>3, <1>4

-----------------------------------------------------------------------------
\* The terms of the tally are numbers.
LEMMA Numbers ==
    ASSUME NEW s \in Sides
    PROVE  /\ Cardinality(Lives(s)) \in Int /\ Cardinality(Firing(s)) \in Int
           /\ Cardinality(Lives(s)') \in Int /\ Cardinality(Firing(s)') \in Int
           /\ \A b : One(b) \in Int
<1>1. /\ Lives(s) \in SUBSET Calls /\ Firing(s) \in SUBSET Calls
      /\ Lives(s)' \in SUBSET Calls /\ Firing(s)' \in SUBSET Calls
  BY DEF Lives, Firing
<1> QED BY <1>1, Counts DEF One

\* A reader moves the reference from the item to its hand, or gives it up.
LEMMA ReaderPending ==
    ASSUME job \in [Sides -> Jobs], pending \in [Sides -> Int], NEW s \in Sides, JobMoves(s), fire' = fire,
           OthersLive(SideOf(s), job[s].call), ReaderTakes(s) \/ ReaderSettles(s) \/ ReaderQuiet(s),
           NEW t \in Sides, pending[t] = Tally(t)
    PROVE  pending'[t] = Tally(t)'
<1> DEFINE i == SideOf(s)  k == job[s].call
<1>1. i \in Sides /\ k \in Calls BY SideFacts DEF Jobs
<1>2. Cardinality(Lives(t)') + One(t = i /\ items[i][k] = "live") = Cardinality(Lives(t)) + One(t = i /\ items'[i][k] = "live")
  BY <1>1, LiveMoves, Zenon
<1>3. Cardinality(Firing(t)') = Cardinality(Firing(t)) BY Zenon DEF Firing
<1>4. One(Hand(t)') = One(Hand(t))
  <2>1. Hand(t)' <=> Hand(t) BY ReaderSrc, Zenon DEF Hand, Handling, Opening
  <2> QED BY <2>1, Zenon DEF One
<1>5. \A p \in Sides : p # s => One(Settles(p, t)') = One(Settles(p, t))
  <2>1. \A p \in Sides : p # s => (Settles(p, t)' <=> Settles(p, t)) BY DEF JobMoves, Settles, SideOf
  <2> QED BY <2>1, Zenon DEF One
<1>6. /\ pending'[t] \in Int
      /\ pending'[t] - One(Settles(s, t)') - One(t = i /\ items'[i][k] = "live")
         = pending[t] - One(Settles(s, t)) - One(t = i /\ items[i][k] = "live")
  <2>1. CASE ReaderTakes(s)
    <3>1. items[i][k] = "live" /\ items'[i][k] # "live" /\ pending' = pending BY <2>1, Zenon DEF ReaderTakes
    <3>2. SideOf(s)' = SideOf(s) BY <2>1, Zenon DEF ReaderTakes, SideOf
    <3>3. ~Settles(s, t) /\ (Settles(s, t)' <=> t = i) BY <2>1, <3>2 DEF ReaderTakes, Settles, Settling
    <3> QED BY <3>1, <3>3 DEF One
  <2>2. CASE ReaderSettles(s)
    <3>1. (items[i][k] = "live" <=> items'[i][k] = "live") /\ Dec(i) BY <2>2 DEF ReaderSettles
    <3>2. (Settles(s, t) <=> t = i) /\ ~Settles(s, t)' BY <2>2, Zenon DEF ReaderSettles, Settles, Settling
    <3>3. pending'[t] = pending[t] - One(t = i) BY <1>1, <3>1 DEF Dec, One
    <3> QED BY <3>1, <3>2, <3>3 DEF One
  <2>3. CASE ReaderQuiet(s)
    <3>1. (items[i][k] = "live" <=> items'[i][k] = "live") /\ pending' = pending BY <2>3 DEF ReaderQuiet
    <3>2. ~Settles(s, t) /\ ~Settles(s, t)' BY <2>3, Zenon DEF ReaderQuiet, Settles, Settling
    <3> QED BY <3>1, <3>2 DEF One
  <2> QED BY <2>1, <2>2, <2>3, Zenon
<1>7. Tally(t) = Cardinality(Lives(t)) + One(Hand(t)) + One(Settles("src", t)) + One(Settles("dst", t)) + Cardinality(Firing(t))
  BY Zenon DEF Tally
<1>8. Tally(t)' = Cardinality(Lives(t)') + One(Hand(t)') + One(Settles("src", t)') + One(Settles("dst", t)') + Cardinality(Firing(t)')
  BY DEF Tally, One
<1>9. "src" \in Sides /\ "dst" \in Sides /\ s \in {"src", "dst"} BY DEF Sides
<1>10. CASE s = "src" BY <1>2, <1>3, <1>4, <1>5, <1>6, <1>7, <1>8, <1>9, <1>10, Numbers
<1>11. CASE s = "dst"
  <2>1. One(Settles("src", t)') = One(Settles("src", t)) BY <1>5, <1>9, <1>11, Zenon
  <2> DEFINE a == One(t = i /\ items[i][k] = "live")  b == One(t = i /\ items'[i][k] = "live")
             c == One(Settles("dst", t))  d == One(Settles("dst", t)')
  <2>2. a \in Int /\ b \in Int /\ c \in Int /\ d \in Int BY DEF One
  <2>3. pending'[t] - d - b = pending[t] - c - a BY <1>6, <1>11, Zenon
  <2>4. Cardinality(Lives(t)') + a = Cardinality(Lives(t)) + b BY <1>2, Zenon
  <2>5. Tally(t) = Cardinality(Lives(t)) + One(Hand(t)) + One(Settles("src", t)) + c + Cardinality(Firing(t))
    BY <1>7
  <2>6. Tally(t)' = Cardinality(Lives(t)') + One(Hand(t)') + One(Settles("src", t)') + d + Cardinality(Firing(t)')
    BY <1>8
  <2>7. pending[t] \in Int /\ pending'[t] \in Int BY <1>6
  <2>8. One(Hand(t)) \in Int /\ One(Settles("src", t)) \in Int BY DEF One
  <2>9. Cardinality(Lives(t)) \in Int /\ Cardinality(Firing(t)) \in Int /\ Cardinality(Lives(t)') \in Int
    BY Numbers, Zenon
  <2> HIDE DEF a, b, c, d
  <2> QED BY <1>3, <1>4, <2>1, <2>2, <2>3, <2>4, <2>5, <2>6, <2>7, <2>8, <2>9
<1> QED BY <1>9, <1>10, <1>11

\* A timeout goroutine moves the reference from the item to its hand, or gives it up.
LEMMA TimerPending ==
    ASSUME pending \in [Sides -> Int], NEW s \in Sides, NEW k \in Calls, job' = job, OthersLive(s, k), OthersFire(s, k),
           TimerTakes(s, k) \/ TimerSettles(s, k) \/ TimerQuiet(s, k), NEW t \in Sides, pending[t] = Tally(t)
    PROVE  pending'[t] = Tally(t)'
<1>1. Cardinality(Lives(t)') + One(t = s /\ items[s][k] = "live") = Cardinality(Lives(t)) + One(t = s /\ items'[s][k] = "live")
  BY LiveMoves, Zenon
<1>2. Cardinality(Firing(t)') + One(t = s /\ fire[s][k] = "settle") = Cardinality(Firing(t)) + One(t = s /\ fire'[s][k] = "settle")
  BY FiringMoves
<1>3. /\ pending'[t] \in Int
      /\ pending'[t] - One(t = s /\ fire'[s][k] = "settle") - One(t = s /\ items'[s][k] = "live")
         = pending[t] - One(t = s /\ fire[s][k] = "settle") - One(t = s /\ items[s][k] = "live")
  <2>1. CASE TimerTakes(s, k) BY <2>1 DEF TimerTakes, One
  <2>2. CASE TimerSettles(s, k) BY <2>2 DEF TimerSettles, Dec, One
  <2>3. CASE TimerQuiet(s, k) BY <2>3 DEF TimerQuiet, One
  <2> QED BY <2>1, <2>2, <2>3
<1>4. /\ One(Hand(t)') = One(Hand(t)) /\ One(Settles("src", t)') = One(Settles("src", t))
      /\ One(Settles("dst", t)') = One(Settles("dst", t))
  BY DEF Hand, Settles, SideOf, One
<1>5. Tally(t) = Cardinality(Lives(t)) + One(Hand(t)) + One(Settles("src", t)) + One(Settles("dst", t)) + Cardinality(Firing(t))
  BY DEF Tally
<1>6. Tally(t)' = Cardinality(Lives(t)') + One(Hand(t)') + One(Settles("src", t)') + One(Settles("dst", t)') + Cardinality(Firing(t)')
  BY DEF Tally, One
<1> QED BY <1>1, <1>2, <1>3, <1>4, <1>5, <1>6, Numbers

\* A step of handleCallReq, or a frame that arrives
LEMMA SrcPending ==
    ASSUME SrcStep, fire' = fire, NEW t \in Sides, pending[t] = Tally(t), pending[t] \in Int, pending'[t] \in Int,
           pending'[t] - Cardinality(Lives(t)') - One(Hand(t)') = pending[t] - Cardinality(Lives(t)) - One(Hand(t))
    PROVE  pending'[t] = Tally(t)'
<1>1. /\ One(Settles("src", t)) = 0 /\ One(Settles("src", t)') = 0
      /\ One(Settles("dst", t)') = One(Settles("dst", t))
  <2>1. ~Settles("src", t) /\ ~Settles("src", t)' BY DEF SrcStep, Settles, ReaderSteps
  <2>2. Settles("dst", t)' <=> Settles("dst", t) BY DEF SrcStep, Settles, SideOf
  <2> QED BY <2>1, <2>2 DEF One
<1>2. Cardinality(Firing(t)') = Cardinality(Firing(t)) BY DEF Firing
<1>3. Tally(t) = Cardinality(Lives(t)) + One(Hand(t)) + One(Settles("src", t)) + One(Settles("dst", t)) + Cardinality(Firing(t))
  BY DEF Tally
<1>4. Tally(t)' = Cardinality(Lives(t)') + One(Hand(t)') + One(Settles("src", t)') + One(Settles("dst", t)') + Cardinality(Firing(t)')
  BY DEF Tally, One
<1> DEFINE a == One(Hand(t))  b == One(Hand(t)')  c == One(Settles("dst", t))
           m == Cardinality(Lives(t))  n == Cardinality(Lives(t)')  f == Cardinality(Firing(t))
<1>5. a \in Int /\ b \in Int /\ c \in Int /\ m \in Int /\ n \in Int /\ f \in Int BY Numbers DEF One
<1>6. Tally(t) = m + a + 0 + c + f BY <1>1, <1>3
<1>7. Tally(t)' = n + b + 0 + c + f BY <1>1, <1>2, <1>4
<1>8. pending'[t] - n - b = pending[t] - m - a OBVIOUS
<1> HIDE DEF a, b, c, m, n, f
<1> QED BY <1>5, <1>6, <1>7, <1>8

\* Of those, the ones that leave the items alone
LEMMA KeptPending ==
    ASSUME SrcStep, Kept, pending \in [Sides -> Int], NEW t \in Sides, pending[t] = Tally(t),
           pending'[t] = pending[t] + One(Hand(t)') - One(Hand(t))
    PROVE  pending'[t] = Tally(t)'
<1>1. items' = items /\ fire' = fire BY Zenon DEF Kept, itemVars
<1>2. Cardinality(Lives(t)') = Cardinality(Lives(t)) BY <1>1, Zenon DEF Lives
<1>3. One(Hand(t)) \in Int /\ One(Hand(t)') \in Int /\ Cardinality(Lives(t)) \in Int BY Numbers DEF One
<1>4. pending[t] \in Int OBVIOUS
<1> DEFINE a == One(Hand(t))  b == One(Hand(t)')  m == Cardinality(Lives(t))
<1>5. pending'[t] \in Int /\ pending'[t] - m - b = pending[t] - m - a
  <2>1. a \in Int /\ b \in Int /\ m \in Int BY <1>3, Zenon
  <2>2. pending'[t] = pending[t] + b - a OBVIOUS
  <2> HIDE DEF a, b, m
  <2> QED BY <1>4, <2>1, <2>2
<1> QED BY <1>1, <1>2, <1>4, <1>5, SrcPending

\* handleCallReq takes a reference, keeps it and gives it back.
LEMMA HandMoves ==
    ASSUME job \in [Sides -> Jobs], pending \in [Sides -> Int], NEW t \in Sides,
           undoDuplicate \/ undo \/ getDestination \/ forwardCallReq \/ \E s \in Sides : canHandleNewCall(s)
    PROVE  pending'[t] = pending[t] + One(Hand(t)') - One(Hand(t))
<1>1. "src" \in Sides /\ pending[t] \in Int /\ Idle.step = "idle" BY Zenon DEF Sides, Idle
<1>2. ASSUME NEW l, Goto("src", l) PROVE job'["src"].step = l BY <1>1, <1>2, Zenon DEF Goto, Jobs
<1>3. ASSUME job' = [job EXCEPT !["src"] = Idle] PROVE job'["src"].step = "idle" BY <1>1, <1>3, Zenon
<1>4. CASE undoDuplicate \/ undo
  <2>1. Dec("src") /\ job["src"].step \in {"undo", "undoDuplicate"} /\ job'["src"].step = "idle"
    BY <1>3, <1>4, Zenon DEF undoDuplicate, undo
  <2>2. (Hand(t) <=> t = "src") /\ ~Hand(t)' BY <2>1 DEF Hand, Sides
  <2>3. pending'[t] = pending[t] - One(t = "src") BY <1>1, <2>1 DEF Dec, One
  <2> QED BY <1>1, <2>2, <2>3 DEF One
<1>5. CASE getDestination
  <2>1. pending' = pending /\ job["src"].step = "destination" /\ job'["src"].step \in {"admitRemote", "undo"}
    BY <1>2, <1>5 DEF getDestination
  <2>2. (Hand(t) <=> t = "src") /\ (Hand(t)' <=> t = "src") BY <2>1, Zenon DEF Hand, Sides
  <2> QED BY <1>1, <2>1, <2>2 DEF One
<1>6. CASE forwardCallReq
  <2>1. pending' = pending /\ job["src"].step = "modify" BY <1>6, Zenon DEF forwardCallReq
  <2>2. job'["src"].step \in {"failGet", "get"} BY <1>1, <1>6 DEF forwardCallReq, GotoAt, Jobs
  <2>3. One(Hand(t)) = 0 /\ One(Hand(t)') = 0 BY <2>1, <2>2, Zenon DEF Hand, One
  <2> QED BY <1>1, <2>1, <2>3
<1>7. ASSUME NEW s \in Sides, canHandleNewCall(s) PROVE pending'[t] = pending[t] + One(Hand(t)') - One(Hand(t))
  <2>1. job["src"].step = (IF s = "src" THEN "admit" ELSE "admitRemote") BY <1>7, Zenon DEF canHandleNewCall
  <2>2. CASE connActive[s]
    <3>1. Inc(s) BY <1>7, <2>2 DEF canHandleNewCall, Inc
    <3>2. job'["src"].step = IF s = "src" THEN "destination" ELSE "addRemote"
      BY <1>2, <1>7, <2>2, Zenon DEF canHandleNewCall
    <3>3. pending'[t] = pending[t] + One(t = s) BY <1>1, <3>1 DEF Inc, One
    <3>4. One(Hand(t)') = One(Hand(t)) + One(t = s) BY <2>1, <3>2 DEF Hand, One, Sides
    <3> QED BY <1>1, <3>3, <3>4 DEF One
  <2>3. CASE ~connActive[s]
    <3>1. pending' = pending BY <1>7, <2>3, Zenon DEF canHandleNewCall
    <3>2. job'["src"].step = IF s = "src" THEN "idle" ELSE "undo"
      BY <1>2, <1>3, <1>7, <2>3, Zenon DEF canHandleNewCall
    <3>3. One(Hand(t)') = One(Hand(t)) BY <2>1, <3>2, Zenon DEF Hand, One, Sides
    <3> QED BY <1>1, <3>1, <3>3 DEF One
  <2> QED BY <2>2, <2>3, Zenon
<1> QED BY <1>4, <1>5, <1>6, <1>7, Zenon

\* Every step of handleCallReq keeps the tally: addRelayItem moves the reference to the item.
LEMMA CallReqPending ==
    ASSUME RelayCore, CallReqStep, SrcStep, fire' = fire, NEW t \in Sides, pending[t] = Tally(t)
    PROVE  pending'[t] = Tally(t)'
<1>1. job \in [Sides -> Jobs] /\ pending \in [Sides -> Int] /\ TimerSafe /\ CallState /\ ItemTypes
  BY CoreCall, Zenon DEF RelayCore, RestTypes
<1>2. CASE undoDuplicate \/ undo \/ getDestination \/ forwardCallReq \/ \E s \in Sides : canHandleNewCall(s)
  <2>1. Kept BY <1>2, Zenon DEF undoDuplicate, undo, getDestination, forwardCallReq, canHandleNewCall, Kept
  <2>2. pending'[t] = pending[t] + One(Hand(t)') - One(Hand(t)) BY <1>1, <1>2, HandMoves, Zenon
  <2> QED BY <1>1, <2>1, <2>2, KeptPending, Zenon
<1>3. ASSUME NEW s \in Sides, addRelayItem(s) PROVE pending'[t] = Tally(t)'
  <2> DEFINE k == job["src"].call
  <2>1. k \in Calls /\ pending' = pending /\ pending[t] \in Int
    BY <1>1, <1>3, Zenon DEF addRelayItem, Sides, Jobs
  <2>2. \/ s = "dst" /\ AddMove(s, "addRemote", "startRemote", "none", "new")
        \/ s = "dst" /\ AddMove(s, "startRemote", "addOwn", "new", "active")
        \/ s = "src" /\ AddMove(s, "addOwn", "startOwn", "none", "new")
        \/ s = "src" /\ AddMove(s, "startOwn", "modify", "new", "active")
    BY <1>1, <1>3, AddMoves, Zenon
  <2>3. Only(s, k) BY <2>2, Zenon DEF AddMove
  <2>4. OthersLive(s, k) BY <1>1, <2>1, <2>3, Zenon DEF Only, OthersLive
  <2>5. Cardinality(Lives(t)') + One(t = s /\ items[s][k] = "live") = Cardinality(Lives(t)) + One(t = s /\ items'[s][k] = "live")
    BY <2>1, <2>4, LiveMoves, Zenon
  <2>6. One(t = s /\ items'[s][k] = "live") + One(Hand(t)') = One(t = s /\ items[s][k] = "live") + One(Hand(t))
    <3>1. CASE AddMove(s, "addRemote", "startRemote", "none", "new") /\ s = "dst"
      BY <3>1 DEF AddMove, SrcGoes, Hand, One, Sides
    <3>2. CASE AddMove(s, "startRemote", "addOwn", "new", "active") /\ s = "dst"
      BY <3>2, Zenon DEF AddMove, SrcGoes, Hand, One, Sides
    <3>3. CASE AddMove(s, "addOwn", "startOwn", "none", "new") /\ s = "src"
      BY <3>3 DEF AddMove, SrcGoes, Hand, One, Sides
    <3>4. CASE AddMove(s, "startOwn", "modify", "new", "active") /\ s = "src"
      BY <3>4, Zenon DEF AddMove, SrcGoes, Hand, One, Sides
    <3> QED BY <2>2, <3>1, <3>2, <3>3, <3>4, Zenon
  <2> DEFINE a == One(t = s /\ items[s][k] = "live")  b == One(t = s /\ items'[s][k] = "live")
             c == One(Hand(t))  d == One(Hand(t)')  m == Cardinality(Lives(t))  n == Cardinality(Lives(t)')
  <2>7. a \in Int /\ b \in Int /\ c \in Int /\ d \in Int /\ m \in Int /\ n \in Int BY Numbers, Zenon DEF One
  <2>8. pending'[t] - n - d = pending[t] - m - c
    <3>1. n + a = m + b /\ b + d = a + c /\ pending'[t] = pending[t] BY <2>1, <2>5, <2>6, Zenon
    <3> HIDE DEF a, b, c, d, m, n
    <3> QED BY <2>1, <2>7, <3>1
  <2> QED BY <2>1, <2>8, SrcPending, Zenon
<1> QED BY <1>2, <1>3, Zenon DEF CallReqStep

\* A step that leaves the items, the readers' places and pending alone
LEMMA IdlePending ==
    ASSUME Kept, pending' = pending, NEW t \in Sides, pending[t] = Tally(t), job'["src"] = job["src"],
           job'["dst"] = job["dst"] \/ (job["dst"].step = "idle" /\ job'["dst"].step = "get")
    PROVE  pending'[t] = Tally(t)'
<1>1. items' = items /\ fire' = fire BY Zenon DEF Kept, itemVars
<1>2. Lives(t)' = Lives(t) /\ Firing(t)' = Firing(t) BY <1>1, Zenon DEF Lives, Firing
<1>3. Hand(t)' <=> Hand(t) BY Zenon DEF Hand
<1>4. Settles("src", t)' <=> Settles("src", t) BY Zenon DEF Settles, SideOf
<1>5. Settles("dst", t)' <=> Settles("dst", t) BY Zenon DEF Settles, SideOf
<1>6. One(Hand(t)') = One(Hand(t)) /\ One(Settles("src", t)') = One(Settles("src", t))
      /\ One(Settles("dst", t)') = One(Settles("dst", t))
  BY <1>3, <1>4, <1>5, Zenon DEF One
<1>7. Tally(t)' = Cardinality(Lives(t)') + One(Hand(t)') + One(Settles("src", t)') + One(Settles("dst", t)') + Cardinality(Firing(t)')
  BY Zenon DEF Tally, One
<1>8. Tally(t)' = Tally(t) BY <1>2, <1>6, <1>7, Zenon DEF Tally
<1> QED BY <1>8, Zenon

\* So does every frame that arrives.
LEMMA ArrivesPending ==
    ASSUME RelayCore, RelayCore', NEW k \in Calls, Arrives(k), Kept, NEW t \in Sides, pending[t] = Tally(t)
    PROVE  pending'[t] = Tally(t)'
<1>1. /\ job \in [Sides -> Jobs] /\ pending \in [Sides -> Int] /\ "src" \in Sides /\ "dst" \in Sides /\ pending[t] \in Int
      /\ job' \in [Sides -> Jobs]
  BY Zenon DEF RelayCore, RestTypes, Sides
<1>2. Idle.step = "idle" /\ job'["src"].type \in Requests
  <2>1. JobInv("src")' BY <1>1, Zenon DEF RelayCore
  <2> QED BY <2>1, Zenon DEF Idle, JobInv
<1>3. ASSUME job'["dst"] = job["dst"], job["src"] = Idle, NEW l \in {"admit", "get", "undoDuplicate"},
             job'["src"].step = l, pending'[t] = pending[t] + One(l = "undoDuplicate" /\ t = "src")
      PROVE  pending'[t] = Tally(t)'
  <2>1. SrcStep BY <1>1, <1>2, <1>3, Zenon DEF SrcStep, ReaderSteps
  <2>2. (Hand(t)' <=> l = "undoDuplicate" /\ t = "src") /\ ~Hand(t) BY <1>2, <1>3, Zenon DEF Hand, Sides
  <2>3. pending'[t] = pending[t] + One(Hand(t)') - One(Hand(t)) BY <1>1, <1>3, <2>2 DEF One
  <2> QED BY <1>1, <2>1, <2>3, KeptPending, Zenon
<1>4. ASSUME NEW type, NEW more, Reads(k, type, more), pending' = pending PROVE pending'[t] = Tally(t)'
  <2> DEFINE j == [Idle EXCEPT !.call = k, !.type = type, !.more = more, !.step = IF type = "callReq" THEN "admit" ELSE "get"]
  <2>1. job' = [job EXCEPT !["src"] = j] /\ job["src"] = Idle BY <1>4, Zenon DEF Reads
  <2>2. j.step \in {"admit", "get"} BY Zenon DEF Idle
  <2>3. job'["src"] = j /\ job'["dst"] = job["dst"] BY <1>1, <2>1, Zenon
  <2>4. pending'[t] = pending[t] + One(j.step = "undoDuplicate" /\ t = "src") BY <1>1, <1>4, <2>2 DEF One
  <2> QED BY <1>3, <2>1, <2>2, <2>3, <2>4, Zenon
<1>5. CASE (\E more \in BOOLEAN : StartCall(k, more)) \/ ReadReqContinue(k)
  BY <1>4, <1>5, Zenon DEF StartCall, ReadReqContinue
<1>6. CASE DuplicateCallReq(k)
  <2> DEFINE j == [Idle EXCEPT !.call = k, !.step = "undoDuplicate"]
  <2>1. job' = [job EXCEPT !["src"] = j] /\ job["src"] = Idle /\ Inc("src")
    BY <1>6, Zenon DEF DuplicateCallReq, Inc
  <2>2. j.step = "undoDuplicate" BY Zenon DEF Idle
  <2>3. job'["src"] = j /\ job'["dst"] = job["dst"] BY <1>1, <2>1, Zenon
  <2>4. pending'[t] = pending[t] + One(t = "src") BY <1>1, <2>1 DEF Inc, One
  <2> QED BY <1>3, <2>1, <2>2, <2>3, <2>4, Zenon
<1>7. CASE (\E more \in BOOLEAN : handleLocalCallReq(k, more)) \/ \E drop, protocol \in BOOLEAN : RefuseCall(k, drop, protocol)
  <2>1. job' = job /\ pending' = pending BY <1>7, Zenon DEF handleLocalCallReq, RefuseCall
  <2> QED BY <2>1, IdlePending, Zenon
<1>8. ASSUME NEW type \in {"callRes", "callResContinue", "error"}, NEW more \in BOOLEAN, ReadResponse(k, type, more)
      PROVE  pending'[t] = Tally(t)'
  <2> DEFINE j == [Idle EXCEPT !.call = k, !.type = type, !.more = more, !.step = "get"]
  <2>1. job' = [job EXCEPT !["dst"] = j] /\ job["dst"] = Idle /\ pending' = pending
    BY <1>8, Zenon DEF ReadResponse
  <2>2. j.step = "get" BY Zenon DEF Idle
  <2>3. job'["dst"] = j /\ job'["src"] = job["src"] BY <1>1, <2>1, Zenon
  <2> QED BY <1>2, <2>1, <2>2, <2>3, IdlePending, Zenon
<1> QED BY <1>5, <1>6, <1>7, <1>8, Zenon DEF Arrives

-----------------------------------------------------------------------------
\* The invariant is its core and PendingBalanced.
LEMMA InvCore == RelayInv <=> RelayCore /\ PendingBalanced
BY CoreTypes, Zenon DEF RelayInv, RelayCore, AllItems

\* The invariant holds of a relay without calls.
LEMMA InitInv == RelayInit => RelayInv
<1> SUFFICES ASSUME RelayInit PROVE RelayInv OBVIOUS
<1>1. RelayCore BY InitCore, Zenon
<1>2. ASSUME NEW t \in Sides PROVE pending[t] = Tally(t)
  <2>1. Lives(t) = {} /\ Firing(t) = {} /\ pending[t] = 0 BY Zenon DEF RelayInit, Lives, Firing
  <2>2. job["src"].step = "idle" /\ job["dst"].step = "idle" BY Zenon DEF RelayInit, Idle, Sides
  <2>3. One(Hand(t)) = 0 /\ One(Settles("src", t)) = 0 /\ One(Settles("dst", t)) = 0
    BY <2>2, Zenon DEF Hand, Settles, One
  <2>4. Cardinality({}) = 0 BY FS_EmptySet, Zenon
  <2> QED BY <2>1, <2>3, <2>4 DEF Tally
<1> QED BY <1>1, <1>2, TallyIs, InvCore, Zenon DEF Tallied

\* Every step of the relay preserves the invariant.
LEMMA StepInv == RelayInv /\ [RelayNext]_relayVars => RelayInv'
<1> SUFFICES ASSUME RelayInv, [RelayNext]_relayVars PROVE RelayInv' OBVIOUS
<1>1. RelayCore /\ \A t \in Sides : pending[t] = Tally(t) BY InvCore, TallyIs, Zenon DEF Tallied
<1>2. job \in [Sides -> Jobs] /\ pending \in [Sides -> Int] BY <1>1, Zenon DEF RelayCore, RestTypes
<1>3. ASSUME RelayCore', \A t \in Sides : pending'[t] = Tally(t)' PROVE RelayInv'
  <2>1. PendingBalanced' <=> Tallied' BY TallyIs, PTL
  <2>2. RelayInv' <=> RelayCore' /\ PendingBalanced' BY InvCore, PTL
  <2>3. Tallied' BY <1>3, Zenon DEF Tallied
  <2> QED BY <1>3, <2>1, <2>2, <2>3, Zenon
<1>4. ASSUME NEW k \in Calls, Arrives(k) PROVE RelayInv'
  <2>1. RelayCore' /\ Kept BY <1>1, <1>4, ArrivesCore, Zenon
  <2>2. \A t \in Sides : pending'[t] = Tally(t)' BY <1>1, <1>4, <2>1, ArrivesPending, Zenon
  <2> QED BY <1>3, <2>1, <2>2, Zenon
<1>5. CASE CallReqStep
  <2>1. RelayCore' /\ CallStep /\ fire' = fire BY <1>1, <1>5, CallReqCore, Zenon
  <2>2. SrcStep BY <2>1, Zenon DEF CallStep
  <2>3. \A t \in Sides : pending'[t] = Tally(t)' BY <1>1, <1>5, <2>1, <2>2, CallReqPending, Zenon
  <2> QED BY <1>3, <2>1, <2>3, Zenon
<1>6. ASSUME NEW s \in Sides, ReaderStep(s) PROVE RelayInv'
  <2>1. /\ RelayCore' /\ JobMoves(s) /\ OthersLive(SideOf(s), job[s].call) /\ fire' = fire
        /\ ReaderTakes(s) \/ ReaderSettles(s) \/ ReaderQuiet(s)
    BY <1>1, <1>6, ReaderCore, Zenon
  <2>2. \A t \in Sides : pending'[t] = Tally(t)' BY <1>1, <1>2, <2>1, ReaderPending, Zenon
  <2> QED BY <1>3, <2>1, <2>2, Zenon
<1>7. ASSUME NEW s \in Sides, writeFrames(s) \/ CloseConn(s) PROVE RelayInv'
  <2>1. RelayCore' /\ Kept /\ job' = job /\ pending' = pending BY <1>1, <1>7, WriteCore, Zenon
  <2>2. \A t \in Sides : pending'[t] = Tally(t)' BY <1>1, <2>1, IdlePending, Zenon
  <2> QED BY <1>3, <2>1, <2>2, Zenon
<1>8. ASSUME NEW s \in Sides, NEW k \in Calls, TimerStep(s, k) PROVE RelayInv'
  <2>1. /\ RelayCore' /\ job' = job /\ OthersLive(s, k) /\ OthersFire(s, k)
        /\ TimerTakes(s, k) \/ TimerSettles(s, k) \/ TimerQuiet(s, k)
    BY <1>1, <1>8, TimerCore, Zenon
  <2>2. \A t \in Sides : pending'[t] = Tally(t)' BY <1>1, <1>2, <2>1, TimerPending, Zenon
  <2> QED BY <1>3, <2>1, <2>2, Zenon
<1>9. CASE UNCHANGED relayVars
  <2>1. /\ items' = items /\ timer' = timer /\ fire' = fire /\ gc' = gc /\ pending' = pending /\ connActive' = connActive
        /\ sendCh' = sendCh /\ job' = job /\ client' = client /\ server' = server /\ ends' = ends /\ answers' = answers
        /\ panicked' = panicked
    BY <1>9, Zenon DEF relayVars
  <2>2. RelayTypeOK' <=> RelayTypeOK BY <2>1, Zenon DEF RelayTypeOK
  <2>3. StartInv' <=> StartInv
    BY <2>1, Zenon DEF StartInv, StartOrder, SentStarted, JobsStarted, Opened, Started
  <2>4. PendingBalanced' <=> PendingBalanced BY <2>1, Zenon DEF PendingBalanced, InHand, SideOf
  <2>5. ASSUME NEW s \in Sides, NEW k \in Calls PROVE (ItemInv(s, k)' <=> ItemInv(s, k)) /\ (OpenInv(s, k)' <=> OpenInv(s, k))
    BY <2>1, Zenon DEF ItemInv, OpenInv
  <2>6. ASSUME NEW p \in Sides PROVE JobInv(p)' <=> JobInv(p)
    BY <2>1, Zenon DEF JobInv, SideOf, finishesCall
  <2>7. ASSUME NEW k \in Calls PROVE AnswerInv(k)' <=> AnswerInv(k)
    BY <2>1, Zenon DEF AnswerInv, Won, Fired, finishesCall
  <2>8. ASSUME NEW k \in Calls PROVE EndInv(k)' <=> EndInv(k)
    BY <2>1 DEF EndInv, Settles, Opens, SideOf, One
  <2> QED BY <2>1, <2>2, <2>3, <2>4, <2>5, <2>6, <2>7, <2>8, Zenon DEF RelayInv, TimerSafe
<1> QED BY <1>4, <1>5, <1>6, <1>7, <1>8, <1>9, Zenon DEF RelayNext

\* The inductive invariant of the relay.
THEOREM RelayInvariant == RelaySpec => []RelayInv
BY InitInv, StepInv, PTL DEF RelaySpec

\* For any number of calls, and any bound on tombstones, queued frames and fragments: the
\* pending count of each relayer is the number of its live items and of the references that
\* goroutines hold, so that canClose neither waits forever nor closes under a call.
THEOREM RelayPendingBalanced == RelaySpec => []PendingBalanced
<1>1. RelayInv => PendingBalanced BY Zenon DEF RelayInv
<1> QED BY <1>1, RelayInvariant, PTL

\* No order of Get, Stop, Entomb, Delete and OnTimer makes relay_timer_pool.go panic.
THEOREM RelayTimerSafe == RelaySpec => []TimerSafe
<1>1. RelayInv => TimerSafe BY Zenon DEF RelayInv
<1> QED BY <1>1, RelayInvariant, PTL

\* RelayCall.End is called at most once for every call the relay host started.
THEOREM RelayEndOnce == RelaySpec => []EndOnce
<1>1. RelayInv => EndOnce
  <2> SUFFICES ASSUME RelayInv, NEW k \in Calls PROVE ends[k] <= 1 BY Zenon DEF EndOnce
  <2>1. EndInv(k) /\ ends[k] \in Nat BY Zenon DEF RelayInv, RelayTypeOK
  <2> QED BY <2>1 DEF EndInv, One
<1> QED BY <1>1, RelayInvariant, PTL

\* A call answered with a timeout error is never also answered with its response.
THEOREM RelayTimeoutExcludesResponse == RelaySpec => []TimeoutExcludesResponse
<1>1. RelayInv => TimeoutExcludesResponse
  <2> SUFFICES ASSUME RelayInv, NEW k \in Calls PROVE ~({"timeout", "response"} \subseteq answers[k])
    BY Zenon DEF TimeoutExcludesResponse
  <2>1. AnswerInv(k) BY DEF RelayInv
  <2> QED BY <2>1, Zenon DEF AnswerInv, Won, Fired
<1> QED BY <1>1, RelayInvariant, PTL
=============================================================================
