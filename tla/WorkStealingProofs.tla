--------------------------- MODULE WorkStealingProofs ---------------------------
(* What the worker pool never does to a task, for any number of workers, tasks,   *)
(* retries and places in a deque, and that it implements the TaskPool; and what   *)
(* the keys by which worker processes share the symbols say of a worker.          *)
EXTENDS MCWorkers, FiniteSetTheorems, FunctionTheorems, WellFoundedInduction, TLAPS

-------------------------------------------------------------------------------
(* Sorting.                                                                      *)

\* Of two places one comes first, and the order is transitive.
LEMMA BeforeIsAnOrder ==
    ASSUME NEW at, NEW D \in SUBSET (Int \X Int), at \in [D -> Tasks],
           NEW p \in D, NEW q \in D
    PROVE  /\ Before(at, p, p)
           /\ Before(at, p, q) \/ Before(at, q, p)
           /\ Before(at, p, q) /\ Before(at, q, p) => p = q
           /\ \A r \in D : Before(at, r, p) /\ Before(at, p, q) => Before(at, r, q)
  <1>1. \A r \in D : /\ Priority[at[r]] \in Int /\ r[1] \in Int /\ r[2] \in Int
                     /\ r = <<r[1], r[2]>>
    BY PoolAssumption
  <1> QED BY <1>1 DEF Before

\* s lists what at holds at the places D, each place once.
Arranges(s, at, D) ==
    /\ Cardinality(D) \in Nat
    /\ s \in [1 .. Cardinality(D) -> Tasks]
    /\ \E place \in [1 .. Cardinality(D) -> D] :
          /\ \A k \in 1 .. Cardinality(D) : s[k] = at[place[k]]
          /\ \A k, l \in 1 .. Cardinality(D) : place[k] = place[l] => k = l
          /\ \A p \in D : \E k \in 1 .. Cardinality(D) : place[k] = p

\* Sorting puts what was gathered in some order and loses and repeats nothing.
LEMMA SortedIsPermutation ==
    ASSUME NEW at, NEW D \in SUBSET (Int \X Int), at \in [D -> Tasks], IsFiniteSet(D)
    PROVE  Arranges(Sorted(at), at, D)
  <1> DEFINE n == Cardinality(D)
             rank == [p \in D |-> Rank(at, p)]
             Upto(p) == {q \in D : Before(at, q, p)}
  <1>0. n \in Nat /\ DOMAIN at = D
    BY FS_CardinalityType
  <1>1. ASSUME NEW p \in D
        PROVE  /\ IsFiniteSet(Upto(p)) /\ rank[p] = Cardinality(Upto(p)) /\ rank[p] \in 1 .. n
               /\ \A T \in SUBSET Upto(p) : IsFiniteSet(T) /\ Cardinality(T) \in Nat
    <2>1. p \in Upto(p)
      BY BeforeIsAnOrder
    <2>2. IsFiniteSet(Upto(p)) /\ Cardinality(Upto(p)) <= n
      BY FS_Subset
    <2>3. Cardinality(Upto(p)) \in Nat /\ Cardinality(Upto(p)) # 0
      BY <2>1, <2>2, FS_CardinalityType, FS_EmptySet
    <2>4. rank[p] = Cardinality(Upto(p))
      BY <1>0 DEF Rank
    <2>5. \A T \in SUBSET Upto(p) : IsFiniteSet(T) /\ Cardinality(T) \in Nat
      BY <2>2, FS_Subset, FS_CardinalityType
    <2> QED BY <1>0, <2>2, <2>3, <2>4, <2>5
  <1>2. ASSUME NEW p \in D, NEW q \in D, p # q, Before(at, p, q)
        PROVE  rank[p] # rank[q]
    <2>1. Upto(p) \in SUBSET Upto(q)
      BY <1>2, BeforeIsAnOrder
    <2>2. q \in Upto(q) /\ q \notin Upto(p)
      BY <1>2, BeforeIsAnOrder
    <2> QED BY <1>1, <2>1, <2>2, FS_Subset
  <1>3. \A p, q \in D : rank[p] = rank[q] => p = q
    BY <1>2, BeforeIsAnOrder
  <1>4. rank \in Injection(D, 1 .. n)
    <2>1. rank \in [D -> 1 .. n]
      BY <1>1
    <2> QED BY <2>1, <1>3, Fun_IsInj
  <1>5. IsFiniteSet(1 .. n) /\ Cardinality(1 .. n) = n
    BY <1>0, FS_Interval
  <1>6. rank \in Surjection(D, 1 .. n)
    BY <1>4, <1>5, FS_Injection
  <1>7. \A k \in 1 .. n : \E p \in D : rank[p] = k
    BY <1>6 DEF Surjection
  <1> DEFINE place == [k \in 1 .. n |-> CHOOSE p \in D : Rank(at, p) = k]
  <1>8. ASSUME NEW k \in 1 .. n
        PROVE  place[k] \in D /\ Rank(at, place[k]) = k
    BY <1>7
  <1>9. Sorted(at) = [k \in 1 .. n |-> at[place[k]]]
    BY <1>0 DEF Sorted
  <1>10. \A p \in D : Rank(at, p) \in 1 .. n /\ place[Rank(at, p)] = p
    <2>1. \A p \in D : Rank(at, p) \in 1 .. n
      BY <1>1
    <2> QED BY <2>1, <1>3, <1>8
  <1> HIDE DEF place, rank
  <1> QED
    <2>1. place \in [1 .. n -> D]
      BY <1>8 DEF place
    <2>2. \A k \in 1 .. n : at[place[k]] \in Tasks
      BY <1>8
    <2>3. Sorted(at) \in [1 .. n -> Tasks]
      BY <1>9, <2>2
    <2>4. \A k \in 1 .. n : Sorted(at)[k] = at[place[k]]
      BY <1>9
    <2>5. \A k, l \in 1 .. n : place[k] = place[l] => k = l
      BY <1>8
    <2>6. \A p \in D : \E k \in 1 .. n : place[k] = p
      BY <1>10
    <2> QED BY <1>0, <2>1, <2>3, <2>4, <2>5, <2>6 DEF Arranges

-------------------------------------------------------------------------------
(* Deques, as values.                                                            *)

\* A task waits in at most one place.
Once(q) ==
    \A w, v \in Workers : \A i \in 1 .. Len(q[w]), j \in 1 .. Len(q[v]) :
        q[w][i] = q[v][j] => w = v /\ i = j

IsDeques(q) ==
    /\ q \in [Workers -> Seq(Tasks)]
    /\ \A w \in Workers : Len(q[w]) <= LocalQueueLimit
    /\ Once(q)

\* The task t waits in q.
In(q, t) == \E w \in Workers : \E i \in 1 .. Len(q[w]) : q[w][i] = t

\* A new task at either end of a deque with room.
LEMMA PushedDeques ==
    ASSUME NEW q, IsDeques(q), NEW w \in Workers, NEW t \in Tasks, ~In(q, t), HasRoom(q[w])
    PROVE  LET r == [q EXCEPT ![w] = Pushed(@, t)]
           IN  IsDeques(r) /\ \A u \in Tasks : In(r, u) <=> In(q, u) \/ u = t
  <1> DEFINE r == [q EXCEPT ![w] = Pushed(@, t)]
             s == q[w]
  <1>1. s \in Seq(Tasks) /\ q \in [Workers -> Seq(Tasks)]
    BY DEF IsDeques
  <1>2. /\ Pushed(s, t) \in Seq(Tasks)
        /\ Len(Pushed(s, t)) = Len(s) + 1
        /\ \/ \A i \in 1 .. Len(s) + 1 : Pushed(s, t)[i] = IF i = 1 THEN t ELSE s[i - 1]
           \/ \A i \in 1 .. Len(s) + 1 : Pushed(s, t)[i] = IF i = Len(s) + 1 THEN t ELSE s[i]
    BY <1>1 DEF Pushed
  <1>2a. PICK end \in {1, Len(s) + 1}, d \in {0, 1} :
            /\ d = 0 => end = Len(s) + 1
            /\ d = 1 => end = 1
            /\ \A i \in 1 .. Len(s) + 1 : Pushed(s, t)[i] = IF i = end THEN t ELSE s[i - d]
    BY <1>1, <1>2
  <1>3. /\ r \in [Workers -> Seq(Tasks)] /\ r[w] = Pushed(s, t)
        /\ \A v \in Workers \ {w} : r[v] = q[v]
    BY <1>1, <1>2
  <1>4. \A v \in Workers : Len(r[v]) <= LocalQueueLimit
    BY <1>1, <1>2, <1>3, PoolAssumption DEF IsDeques, HasRoom
  <1>5. \A v \in Workers : \A i \in 1 .. Len(q[v]) : q[v][i] # t
    BY DEF In
  <1>6. \A u, v \in Workers : \A i \in 1 .. Len(q[u]), j \in 1 .. Len(q[v]) :
            q[u][i] = q[v][j] => u = v /\ i = j
    BY DEF IsDeques, Once
  <1>7. \A v \in Workers : Len(q[v]) \in Nat
    BY <1>1
  <1> HIDE DEF r
  <1>8. ASSUME NEW v \in Workers, NEW i \in 1 .. Len(r[v])
        PROVE  \/ v = w /\ i = end /\ r[v][i] = t
               \/ /\ ~(v = w /\ i = end) /\ r[v][i] # t
                  /\ \E j \in 1 .. Len(q[v]) :
                        r[v][i] = q[v][j] /\ j = IF v = w THEN i - d ELSE i
    <2>1. CASE v = w /\ i = end
      BY <2>1, <1>2, <1>2a, <1>3
    <2>2. CASE v = w /\ i # end
      <3>1. i - d \in 1 .. Len(q[v]) /\ i \in 1 .. Len(s) + 1
        BY <2>2, <1>2, <1>2a, <1>3, <1>7
      <3>2. r[v][i] = q[v][i - d]
        BY <2>2, <3>1, <1>2a, <1>3
      <3> QED BY <2>2, <3>1, <3>2, <1>5
    <2>3. CASE v # w
      BY <2>3, <1>3, <1>5
    <2> QED BY <2>1, <2>2, <2>3
  <1>9. Once(r)
    <2> SUFFICES ASSUME NEW u \in Workers, NEW v \in Workers,
                        NEW i \in 1 .. Len(r[u]), NEW j \in 1 .. Len(r[v]), r[u][i] = r[v][j]
                 PROVE  u = v /\ i = j
      BY DEF Once
    <2>1. CASE r[u][i] = t
      BY <2>1, <1>8
    <2>2. CASE r[u][i] # t
      <3>1. PICK k \in 1 .. Len(q[u]) : r[u][i] = q[u][k] /\ k = IF u = w THEN i - d ELSE i
        BY <2>2, <1>8
      <3>2. PICK l \in 1 .. Len(q[v]) : r[v][j] = q[v][l] /\ l = IF v = w THEN j - d ELSE j
        BY <2>2, <1>8
      <3>3. q[u][k] = q[v][l]
        BY <3>1, <3>2
      <3>4. u = v /\ k = l
        BY <3>1, <3>2, <3>3, <1>6
      <3> QED BY <3>1, <3>2, <3>4
    <2> QED BY <2>1, <2>2
  <1>10. ASSUME NEW u \in Tasks PROVE In(r, u) <=> In(q, u) \/ u = t
    <2>1. In(r, u) => In(q, u) \/ u = t
      BY <1>8 DEF In
    <2>2. end \in 1 .. Len(r[w]) /\ r[w][end] = t
      BY <1>2, <1>2a, <1>3, <1>7
    <2>3. In(r, t)
      BY <2>2 DEF In
    <2>4. ASSUME NEW v \in Workers, NEW i \in 1 .. Len(q[v])
          PROVE  In(r, q[v][i])
      <3>1. CASE v # w
        BY <3>1, <1>3 DEF In
      <3>2. CASE v = w
        <4>1. i + d \in 1 .. Len(s) + 1 /\ i + d # end /\ (i + d) - d = i
          BY <3>2, <1>2a, <1>7
        <4>2. r[v][i + d] = q[v][i] /\ i + d \in 1 .. Len(r[v])
          BY <4>1, <3>2, <1>2, <1>2a, <1>3
        <4> QED BY <4>2 DEF In
      <3> QED BY <3>1, <3>2
    <2>5. In(q, u) => In(r, u)
      <3> SUFFICES ASSUME In(q, u) PROVE In(r, u)
        OBVIOUS
      <3>1. PICK v \in Workers : \E i \in 1 .. Len(q[v]) : q[v][i] = u
        BY DEF In
      <3> QED BY <3>1, <2>4
    <2> QED BY <2>1, <2>3, <2>5
  <1> QED BY <1>3, <1>4, <1>9, <1>10 DEF IsDeques, r

\* The first task of a deque is taken.
LEMMA PoppedDeques ==
    ASSUME NEW q, IsDeques(q), NEW w \in Workers, q[w] # <<>>
    PROVE  LET r == [q EXCEPT ![w] = Tail(@)]
           IN  /\ IsDeques(r)
               /\ Head(q[w]) \in Tasks /\ In(q, Head(q[w]))
               /\ \A u \in Tasks : In(r, u) <=> In(q, u) /\ u # Head(q[w])
  <1> DEFINE r == [q EXCEPT ![w] = Tail(@)]
             s == q[w]
  <1>1. s \in Seq(Tasks) /\ q \in [Workers -> Seq(Tasks)] /\ s # <<>>
    BY DEF IsDeques
  <1>2. /\ Tail(s) \in Seq(Tasks) /\ Len(s) \in Nat /\ Len(s) > 0
        /\ Len(Tail(s)) = Len(s) - 1
        /\ \A i \in 1 .. Len(s) - 1 : Tail(s)[i] = s[i + 1]
        /\ Head(s) = s[1] /\ Head(s) \in Tasks
    BY <1>1
  <1>3. /\ r \in [Workers -> Seq(Tasks)] /\ r[w] = Tail(s)
        /\ \A v \in Workers \ {w} : r[v] = q[v]
    BY <1>1, <1>2
  <1>4. \A v \in Workers : Len(r[v]) <= LocalQueueLimit
    BY <1>1, <1>2, <1>3, PoolAssumption DEF IsDeques
  <1>5. \A u, v \in Workers : \A i \in 1 .. Len(q[u]), j \in 1 .. Len(q[v]) :
            q[u][i] = q[v][j] => u = v /\ i = j
    BY DEF IsDeques, Once
  <1> HIDE DEF r
  <1>6. ASSUME NEW v \in Workers, NEW i \in 1 .. Len(r[v])
        PROVE  /\ r[v][i] # s[1]
               /\ \E j \in 1 .. Len(q[v]) :
                     r[v][i] = q[v][j] /\ j = IF v = w THEN i + 1 ELSE i
    <2>1. CASE v = w
      <3>1. i + 1 \in 1 .. Len(s) /\ r[v][i] = s[i + 1] /\ 1 \in 1 .. Len(s) /\ i + 1 # 1
        BY <2>1, <1>2, <1>3
      <3>2. s[i + 1] # s[1]
        BY <3>1, <1>5
      <3> QED BY <2>1, <3>1, <3>2
    <2>2. CASE v # w
      <3>1. i \in 1 .. Len(q[v]) /\ r[v][i] = q[v][i] /\ 1 \in 1 .. Len(s)
        BY <2>2, <1>2, <1>3
      <3>2. q[v][i] # s[1]
        BY <2>2, <3>1, <1>5
      <3> QED BY <2>2, <3>1, <3>2
    <2> QED BY <2>1, <2>2
  <1>7. Once(r)
    <2> SUFFICES ASSUME NEW u \in Workers, NEW v \in Workers,
                        NEW i \in 1 .. Len(r[u]), NEW j \in 1 .. Len(r[v]), r[u][i] = r[v][j]
                 PROVE  u = v /\ i = j
      BY DEF Once
    <2>1. PICK k \in 1 .. Len(q[u]) : r[u][i] = q[u][k] /\ k = IF u = w THEN i + 1 ELSE i
      BY <1>6
    <2>2. PICK l \in 1 .. Len(q[v]) : r[v][j] = q[v][l] /\ l = IF v = w THEN j + 1 ELSE j
      BY <1>6
    <2>3. q[u][k] = q[v][l]
      BY <2>1, <2>2
    <2>4. u = v /\ k = l
      BY <2>1, <2>2, <2>3, <1>5
    <2> QED BY <2>1, <2>2, <2>4
  <1>8. ASSUME NEW u \in Tasks PROVE In(r, u) <=> In(q, u) /\ u # s[1]
    <2>1. In(r, u) => In(q, u) /\ u # s[1]
      BY <1>6 DEF In
    <2>2. ASSUME NEW v \in Workers, NEW i \in 1 .. Len(q[v]), q[v][i] # s[1]
          PROVE  \E j \in 1 .. Len(r[v]) : r[v][j] = q[v][i]
      <3>1. CASE v # w
        BY <3>1, <1>3
      <3>2. CASE v = w
        <4>1. i \in 1 .. Len(s) /\ s[i] # s[1]
          BY <3>2, <2>2
        <4>2. i - 1 \in 1 .. Len(s) - 1 /\ (i - 1) + 1 = i
          BY <4>1, <1>2
        <4>3. Tail(s)[i - 1] = s[i]
          BY <4>2, <1>2
        <4> QED BY <4>2, <4>3, <3>2, <1>2, <1>3
      <3> QED BY <3>1, <3>2
    <2> QED BY <2>1, <2>2 DEF In
  <1>9. In(q, s[1])
    BY <1>2 DEF In
  <1> QED BY <1>2, <1>3, <1>4, <1>7, <1>8, <1>9 DEF IsDeques, r

\* How many tasks a thief gets of a deque it found stealable.
LEMMA StealCountBounds ==
    ASSUME NEW len \in Nat, len > StealThreshold
    PROVE  StealCount(len) \in 1 .. len /\ StealCount(len) <= len \div 2
  BY PoolAssumption, StealAssumption DEF StealCount

\* The deques q once w took the last n tasks of v, reversed into stolen.
Robbed(q, w, v, n, stolen) ==
    [q EXCEPT ![v] = SubSeq(@, 1, Len(q[v]) - n), ![w] = @ \o Tail(stolen)]

\* The back of a deque moves to the thief, but for the last task, which it takes.
LEMMA StolenDeques ==
    ASSUME NEW q, IsDeques(q), NEW w \in Workers, NEW v \in Workers, v # w, q[w] = <<>>,
           NEW n \in 1 .. Len(q[v]),
           NEW stolen, stolen = Reverse(SubSeq(q[v], Len(q[v]) - n + 1, Len(q[v])))
    PROVE  /\ IsDeques(Robbed(q, w, v, n, stolen))
           /\ Head(stolen) \in Tasks /\ In(q, Head(stolen))
           /\ \A u \in Tasks : In(Robbed(q, w, v, n, stolen), u) <=>
                                  In(q, u) /\ u # Head(stolen)
  <1> DEFINE s == q[v]
             len == Len(s)
             r == Robbed(q, w, v, n, stolen)
  <1>1. s \in Seq(Tasks) /\ q \in [Workers -> Seq(Tasks)] /\ len \in Nat /\ n \in 1 .. len
    BY DEF IsDeques
  <1>2. /\ SubSeq(s, 1, len - n) \in Seq(Tasks)
        /\ Len(SubSeq(s, 1, len - n)) = len - n
        /\ \A i \in 1 .. len - n : SubSeq(s, 1, len - n)[i] = s[i]
    BY <1>1
  <1>3. /\ stolen \in Seq(Tasks) /\ Len(stolen) = n
        /\ \A i \in 1 .. n : stolen[i] = s[len - i + 1]
    <2> DEFINE b == SubSeq(s, len - n + 1, len)
    <2>1. /\ b \in Seq(Tasks) /\ Len(b) = n
          /\ \A i \in 1 .. n : b[i] = s[len - n + i]
      BY <1>1
    <2>2. stolen = [i \in 1 .. n |-> b[n - i + 1]]
      BY <2>1 DEF Reverse
    <2>3. \A i \in 1 .. n : n - i + 1 \in 1 .. n
      BY <1>1
    <2>4. \A i \in 1 .. n : b[n - i + 1] \in Tasks /\ b[n - i + 1] = s[len - i + 1]
      <3> SUFFICES ASSUME NEW i \in 1 .. n
                   PROVE  b[n - i + 1] \in Tasks /\ b[n - i + 1] = s[len - i + 1]
        OBVIOUS
      <3> HIDE DEF b
      <3>1. n - i + 1 \in 1 .. n /\ len - n + (n - i + 1) = len - i + 1
        BY <1>1
      <3>2. b[n - i + 1] = s[len - n + (n - i + 1)]
        BY <3>1, <2>1
      <3> QED BY <3>1, <3>2, <2>1
    <2>5. stolen \in [1 .. n -> Tasks]
      BY <2>2, <2>4
    <2>6. stolen \in Seq(Tasks) /\ Len(stolen) = n
      BY <1>1, <2>5
    <2> QED BY <2>2, <2>4, <2>6
  <1>4. /\ Tail(stolen) \in Seq(Tasks) /\ Len(Tail(stolen)) = n - 1
        /\ \A i \in 1 .. n - 1 : Tail(stolen)[i] = s[len - i]
        /\ Head(stolen) = s[len] /\ s[len] \in Tasks /\ len \in 1 .. len
    <2>1. Tail(stolen) \in Seq(Tasks) /\ Len(Tail(stolen)) = n - 1 /\ Head(stolen) = stolen[1]
      BY <1>1, <1>3
    <2>2. \A i \in 1 .. n - 1 : Tail(stolen)[i] = stolen[i + 1]
      BY <1>1, <1>3
    <2>3. ASSUME NEW i \in 1 .. n - 1 PROVE Tail(stolen)[i] = s[len - i]
      <3>1. i + 1 \in 1 .. n /\ len - (i + 1) + 1 = len - i
        BY <1>1
      <3> QED BY <3>1, <2>2, <1>3
    <2>4. stolen[1] = s[len] /\ len \in 1 .. len
      <3>1. 1 \in 1 .. n /\ len - 1 + 1 = len
        BY <1>1
      <3> QED BY <3>1, <1>1, <1>3
    <2> QED BY <2>1, <2>3, <2>4, <1>1
  <1>5. /\ r \in [Workers -> Seq(Tasks)]
        /\ r[v] = SubSeq(s, 1, len - n) /\ r[w] = Tail(stolen)
        /\ \A x \in Workers \ {v, w} : r[x] = q[x]
    <2>1. q[w] \o Tail(stolen) = Tail(stolen)
      BY <1>4
    <2> QED BY <1>1, <1>2, <1>4, <2>1 DEF Robbed
  <1>6. \A x \in Workers : Len(r[x]) <= LocalQueueLimit /\ Len(q[x]) \in Nat
    <2>1. \A x \in Workers : Len(q[x]) <= LocalQueueLimit /\ Len(q[x]) \in Nat
      BY <1>1 DEF IsDeques
    <2>2. Len(r[v]) <= len /\ Len(r[w]) <= len
      <3>1. Len(r[v]) = len - n
        BY <1>2, <1>5
      <3>2. Len(r[w]) = n - 1
        BY <1>4, <1>5
      <3> HIDE DEF len, r
      <3> QED BY <3>1, <3>2, <1>1
    <2>3. len <= LocalQueueLimit /\ LocalQueueLimit \in Nat
      BY <2>1, PoolAssumption
    <2>4. Len(r[v]) \in Nat /\ Len(r[w]) \in Nat
      BY <1>5
    <2>5. Len(r[v]) <= LocalQueueLimit /\ Len(r[w]) <= LocalQueueLimit
      BY <2>2, <2>3, <2>4, <1>1
    <2> HIDE DEF r
    <2> QED BY <1>5, <2>1, <2>5
  <1>7. \A x, y \in Workers : \A i \in 1 .. Len(q[x]), j \in 1 .. Len(q[y]) :
            q[x][i] = q[y][j] => x = y /\ i = j
    BY DEF IsDeques, Once
  <1>7a. \A i, j \in 1 .. len : s[i] = s[j] => i = j
    BY <1>7
  <1> HIDE DEF r
  <1>8. ASSUME NEW x \in Workers, NEW i \in 1 .. Len(r[x])
        PROVE  /\ r[x][i] # s[len]
               /\ \E y \in Workers : \E j \in 1 .. Len(q[y]) :
                     /\ r[x][i] = q[y][j]
                     /\ x = w => y = v /\ j = len - i
                     /\ x # w => y = x /\ j = i
                     /\ x = v => i <= len - n
                     /\ x = w => len - i > len - n
    <2>1. CASE x = w
      <3>1. i \in 1 .. n - 1 /\ len - i \in 1 .. len /\ len - i # len /\ len - i > len - n
        <4>1. i \in 1 .. n - 1
          BY <2>1, <1>4, <1>5
        <4> QED BY <4>1, <1>1
      <3>2. r[x][i] = s[len - i]
        BY <2>1, <3>1, <1>4, <1>5
      <3>3. s[len - i] # s[len]
        BY <3>1, <1>4, <1>7a
      <3> QED BY <2>1, <3>1, <3>2, <3>3
    <2>2. CASE x = v
      <3>1. i \in 1 .. len - n /\ i \in 1 .. len /\ i # len
        BY <2>2, <1>1, <1>2, <1>5
      <3>2. r[x][i] = s[i]
        BY <2>2, <3>1, <1>2, <1>5
      <3>3. s[i] # s[len]
        BY <3>1, <1>4, <1>7a
      <3> QED BY <2>2, <3>1, <3>2, <3>3
    <2>3. CASE x # v /\ x # w
      <3>1. i \in 1 .. Len(q[x]) /\ r[x][i] = q[x][i]
        BY <2>3, <1>5
      <3>2. q[x][i] # s[len]
        BY <2>3, <3>1, <1>4, <1>7
      <3> QED BY <2>3, <3>1, <3>2
    <2> QED BY <2>1, <2>2, <2>3
  <1>9. Once(r)
    <2> SUFFICES ASSUME NEW x \in Workers, NEW y \in Workers,
                        NEW i \in 1 .. Len(r[x]), NEW j \in 1 .. Len(r[y]), r[x][i] = r[y][j]
                 PROVE  x = y /\ i = j
      BY DEF Once
    <2>1. PICK a \in Workers : \E k \in 1 .. Len(q[a]) :
                     /\ r[x][i] = q[a][k]
                     /\ x = w => a = v /\ k = len - i
                     /\ x # w => a = x /\ k = i
                     /\ x = v => i <= len - n
                     /\ x = w => len - i > len - n
      BY <1>8
    <2>2. PICK k \in 1 .. Len(q[a]) :
                     /\ r[x][i] = q[a][k]
                     /\ x = w => a = v /\ k = len - i
                     /\ x # w => a = x /\ k = i
                     /\ x = v => i <= len - n
                     /\ x = w => len - i > len - n
      BY <2>1
    <2>3. PICK b \in Workers : \E l \in 1 .. Len(q[b]) :
                     /\ r[y][j] = q[b][l]
                     /\ y = w => b = v /\ l = len - j
                     /\ y # w => b = y /\ l = j
                     /\ y = v => j <= len - n
                     /\ y = w => len - j > len - n
      BY <1>8
    <2>4. PICK l \in 1 .. Len(q[b]) :
                     /\ r[y][j] = q[b][l]
                     /\ y = w => b = v /\ l = len - j
                     /\ y # w => b = y /\ l = j
                     /\ y = v => j <= len - n
                     /\ y = w => len - j > len - n
      BY <2>3
    <2>5. q[a][k] = q[b][l]
      BY <2>2, <2>4
    <2>6. a = b /\ k = l
      BY <2>1, <2>2, <2>3, <2>4, <2>5, <1>7
    <2>7. i \in Int /\ j \in Int /\ len \in Int
      BY <1>1
    <2> HIDE DEF len
    <2>8. x = y
      BY <2>2, <2>4, <2>6, <2>7
    <2> QED BY <2>2, <2>4, <2>6, <2>7, <2>8
  <1>10. ASSUME NEW u \in Tasks PROVE In(r, u) <=> In(q, u) /\ u # s[len]
    <2>1. In(r, u) => In(q, u) /\ u # s[len]
      <3> SUFFICES ASSUME NEW x \in Workers, NEW i \in 1 .. Len(r[x]), u = r[x][i]
                   PROVE  In(q, u) /\ u # s[len]
        BY DEF In
      <3>1. u # s[len] /\ \E y \in Workers : \E j \in 1 .. Len(q[y]) : u = q[y][j]
        BY <1>8
      <3> QED BY <3>1 DEF In
    <2>2. ASSUME NEW x \in Workers, NEW i \in 1 .. Len(q[x]), q[x][i] # s[len]
          PROVE  In(r, q[x][i])
      <3>1. CASE x = w
        <4>1. Len(q[x]) = 0
          BY <3>1
        <4> QED BY <4>1
      <3>2. CASE x = v /\ i <= len - n
        <4>1. i \in 1 .. len - n
          BY <3>2, <1>1
        <4>2. i \in 1 .. Len(r[x]) /\ r[x][i] = q[x][i]
          BY <4>1, <3>2, <1>2, <1>5
        <4> QED BY <4>2 DEF In
      <3>3. CASE x = v /\ i > len - n
        <4>1. len - i \in 1 .. n - 1 /\ len - (len - i) = i
          BY <3>3, <2>2, <1>1
        <4>2. len - i \in 1 .. Len(r[w]) /\ r[w][len - i] = q[x][i]
          BY <4>1, <3>3, <1>4, <1>5
        <4> QED BY <4>2 DEF In
      <3>4. CASE x # v /\ x # w
        BY <3>4, <1>5 DEF In
      <3> QED BY <3>1, <3>2, <3>3, <3>4, <1>1
    <2>3. In(q, u) /\ u # s[len] => In(r, u)
      <3> SUFFICES ASSUME In(q, u), u # s[len] PROVE In(r, u)
        OBVIOUS
      <3>1. PICK x \in Workers : \E i \in 1 .. Len(q[x]) : q[x][i] = u
        BY DEF In
      <3> QED BY <3>1, <2>2
    <2> QED BY <2>1, <2>3
  <1>11. In(q, s[len])
    BY <1>4 DEF In
  <1> QED BY <1>4, <1>5, <1>6, <1>9, <1>10, <1>11 DEF IsDeques, r

-------------------------------------------------------------------------------
(* Batches and the rebalance.                                                    *)

LEMMA WorkersAreFinite ==
    Workers \subseteq Int /\ IsFiniteSet(Workers) /\ Cardinality(Workers) = NumWorkers
  BY PoolAssumption, FS_Interval DEF Workers

\* What a deque accepts of a batch: tasks of the batch that are its own, each once.
LEMMA FittingFacts ==
    ASSUME NEW batch \in Batches, NEW w \in Workers,
           queue[w] \in Seq(Tasks), Len(queue[w]) <= LocalQueueLimit
    PROVE  /\ Fitting(batch, w) \in Seq(Tasks)
           /\ Len(queue[w]) + Len(Fitting(batch, w)) <= LocalQueueLimit
           /\ \A i \in 1 .. Len(Fitting(batch, w)) :
                 /\ HashOf[Fitting(batch, w)[i]] = w
                 /\ \E j \in DOMAIN batch : Fitting(batch, w)[i] = batch[j]
           /\ \A i, j \in 1 .. Len(Fitting(batch, w)) :
                 Fitting(batch, w)[i] = Fitting(batch, w)[j] => i = j
  <1> DEFINE D == {p \in {w} \X DOMAIN batch : HashOf[batch[p[2]]] = w}
             at == [p \in D |-> batch[p[2]]]
             m == Cardinality(D)
             room == LocalQueueLimit - Len(queue[w])
             fits == IF room < m THEN room ELSE m
  <1>1. PICK n \in 1 .. MaxBatch : batch \in [1 .. n -> Tasks] /\ IsInjective(batch)
    BY DEF Batches
  <1>2. D \in SUBSET (Int \X Int) /\ at \in [D -> Tasks]
    BY <1>1, WorkersAreFinite
  <1>3. IsFiniteSet(D)
    <2>0. n \in Int /\ 1 \in Int
      BY <1>1, PoolAssumption
    <2>1. IsFiniteSet({w}) /\ IsFiniteSet(1 .. n)
      BY <2>0, FS_Singleton, FS_Interval
    <2>2. IsFiniteSet({w} \X (1 .. n))
      BY <2>1, FS_Product
    <2>3. D \in SUBSET ({w} \X (1 .. n))
      BY <1>1
    <2> QED BY <2>2, <2>3, FS_Subset
  <1>3a. \A p \in D : /\ p[2] \in DOMAIN batch /\ p = <<w, p[2]>>
                     /\ at[p] = batch[p[2]] /\ HashOf[at[p]] = w
    OBVIOUS
  <1> HIDE DEF at, D
  <1>4. /\ m \in Nat /\ Sorted(at) \in [1 .. m -> Tasks]
        /\ \E place \in [1 .. m -> D] :
              /\ \A k \in 1 .. m : Sorted(at)[k] = at[place[k]]
              /\ \A k, l \in 1 .. m : place[k] = place[l] => k = l
              /\ \A p \in D : \E k \in 1 .. m : place[k] = p
    <2>1. Arranges(Sorted(at), at, D)
      BY <1>2, <1>3, SortedIsPermutation
    <2> QED BY <2>1 DEF Arranges
  <1> HIDE DEF m
  <1>5. PICK place \in [1 .. m -> D] :
              /\ \A k \in 1 .. m : Sorted(at)[k] = at[place[k]]
              /\ \A k, l \in 1 .. m : place[k] = place[l] => k = l
    BY <1>4
  <1>6. ASSUME NEW k \in 1 .. m
        PROVE  /\ place[k][2] \in DOMAIN batch /\ place[k] = <<w, place[k][2]>>
               /\ Sorted(at)[k] = batch[place[k][2]]
               /\ HashOf[Sorted(at)[k]] = w
    <2>1. place[k] \in D /\ Sorted(at)[k] = at[place[k]]
      BY <1>5
    <2> QED BY <2>1, <1>3a
  <1>7. ASSUME NEW k \in 1 .. m, NEW l \in 1 .. m, Sorted(at)[k] = Sorted(at)[l]
        PROVE  k = l
    <2>1. place[k][2] = place[l][2]
      BY <1>1, <1>6, <1>7 DEF IsInjective
    <2> QED BY <2>1, <1>5, <1>6
  <1>8. Group(batch, w) = Sorted(at)
    BY DEF Group, at, D
  <1>9. Sorted(at) \in Seq(Tasks) /\ Len(Sorted(at)) = m
    BY <1>4
  <1>10. /\ room \in Nat /\ Len(queue[w]) \in Nat /\ fits \in 0 .. m
         /\ Len(queue[w]) + fits <= LocalQueueLimit
    <2>1. room \in Nat /\ Len(queue[w]) \in Nat
      BY PoolAssumption
    <2>2. Len(queue[w]) + room = LocalQueueLimit
      BY PoolAssumption, <2>1
    <2>3. m \in Nat /\ LocalQueueLimit \in Nat
      BY <1>4, PoolAssumption
    <2> HIDE DEF room
    <2>4. CASE room < m
      BY <2>1, <2>2, <2>3, <2>4
    <2>5. CASE ~(room < m)
      BY <2>1, <2>2, <2>3, <2>5
    <2> QED BY <2>4, <2>5
  <1>11. Fitting(batch, w) = SubSeq(Sorted(at), 1, fits)
    BY <1>8, <1>9 DEF Fitting
  <1> HIDE DEF fits
  <1>12. /\ Fitting(batch, w) \in Seq(Tasks) /\ Len(Fitting(batch, w)) = fits
         /\ \A i \in 1 .. fits : i \in 1 .. m /\ Fitting(batch, w)[i] = Sorted(at)[i]
    BY <1>4, <1>9, <1>10, <1>11
  <1>13. ASSUME NEW i \in 1 .. fits
         PROVE  /\ HashOf[Fitting(batch, w)[i]] = w
                /\ \E j \in DOMAIN batch : Fitting(batch, w)[i] = batch[j]
    BY <1>6, <1>12
  <1>14. ASSUME NEW i \in 1 .. fits, NEW j \in 1 .. fits,
                Fitting(batch, w)[i] = Fitting(batch, w)[j]
         PROVE  i = j
    BY <1>7, <1>12, <1>14
  <1> QED BY <1>10, <1>12, <1>13, <1>14

\* Deques with new tasks, each of them once, behind what they held.
LEMMA JoinedDeques ==
    ASSUME NEW q, IsDeques(q), NEW f \in [Workers -> Seq(Tasks)], Once(f),
           \A w \in Workers : Len(q[w]) + Len(f[w]) <= LocalQueueLimit,
           \A t \in Tasks : ~(In(q, t) /\ In(f, t))
    PROVE  LET r == [w \in Workers |-> q[w] \o f[w]]
           IN  IsDeques(r) /\ \A t \in Tasks : In(r, t) <=> In(q, t) \/ In(f, t)
  <1> DEFINE r == [w \in Workers |-> q[w] \o f[w]]
  <1>1. /\ q \in [Workers -> Seq(Tasks)]
        /\ \A w \in Workers : q[w] \in Seq(Tasks) /\ f[w] \in Seq(Tasks)
        /\ \A w \in Workers : Len(q[w]) \in Nat /\ Len(f[w]) \in Nat
    BY DEF IsDeques
  <1>2. ASSUME NEW w \in Workers
        PROVE  /\ r[w] \in Seq(Tasks)
               /\ Len(r[w]) = Len(q[w]) + Len(f[w])
               /\ \A i \in 1 .. Len(q[w]) : r[w][i] = q[w][i]
               /\ \A i \in 1 .. Len(f[w]) : r[w][Len(q[w]) + i] = f[w][i]
    BY <1>1
  <1>3. r \in [Workers -> Seq(Tasks)]
    BY <1>2
  <1> HIDE DEF r
  <1>4. \A w \in Workers : Len(r[w]) <= LocalQueueLimit
    BY <1>2
  <1>5. ASSUME NEW w \in Workers, NEW i \in 1 .. Len(r[w])
        PROVE  \/ i \in 1 .. Len(q[w]) /\ r[w][i] = q[w][i]
               \/ /\ i - Len(q[w]) \in 1 .. Len(f[w])
                  /\ r[w][i] = f[w][i - Len(q[w])]
    <2>1. Len(r[w]) = Len(q[w]) + Len(f[w]) /\ Len(q[w]) \in Nat /\ Len(f[w]) \in Nat
      BY <1>1, <1>2
    <2>2. CASE i <= Len(q[w])
      BY <2>1, <2>2, <1>2
    <2>3. CASE i > Len(q[w])
      <3>1. i - Len(q[w]) \in 1 .. Len(f[w]) /\ Len(q[w]) + (i - Len(q[w])) = i
        BY <2>1, <2>3
      <3> QED BY <3>1, <1>2
    <2> QED BY <2>1, <2>2, <2>3
  <1>6. ASSUME NEW w \in Workers, NEW i \in 1 .. Len(q[w]),
               NEW v \in Workers, NEW j \in 1 .. Len(f[v])
        PROVE  q[w][i] # f[v][j]
    <2>1. f[v][j] \in Tasks
      BY <1>1
    <2> QED BY <2>1 DEF In
  <1>6a. \A w, v \in Workers : \A i \in 1 .. Len(q[w]), j \in 1 .. Len(q[v]) :
            q[w][i] = q[v][j] => w = v /\ i = j
    BY DEF IsDeques, Once
  <1>6b. \A w, v \in Workers : \A i \in 1 .. Len(f[w]), j \in 1 .. Len(f[v]) :
            f[w][i] = f[v][j] => w = v /\ i = j
    BY DEF Once
  <1>7. Once(r)
    <2> SUFFICES ASSUME NEW w \in Workers, NEW v \in Workers,
                        NEW i \in 1 .. Len(r[w]), NEW j \in 1 .. Len(r[v]), r[w][i] = r[v][j]
                 PROVE  w = v /\ i = j
      BY DEF Once
    <2> DEFINE a == Len(q[w])
               b == Len(q[v])
    <2>0. a \in Nat /\ b \in Nat /\ i \in Int /\ j \in Int /\ (w = v => a = b)
      BY <1>1
    <2>1. CASE /\ i \in 1 .. a /\ r[w][i] = q[w][i]
               /\ j \in 1 .. b /\ r[v][j] = q[v][j]
      <3>1. i \in 1 .. Len(q[w]) /\ j \in 1 .. Len(q[v]) /\ q[w][i] = q[v][j]
        BY <2>1
      <3> QED BY <3>1, <1>6a
    <2>2. CASE /\ i - a \in 1 .. Len(f[w]) /\ r[w][i] = f[w][i - a]
               /\ j - b \in 1 .. Len(f[v]) /\ r[v][j] = f[v][j - b]
      <3> DEFINE k == i - a
                 l == j - b
      <3>0. k \in 1 .. Len(f[w]) /\ l \in 1 .. Len(f[v]) /\ f[w][k] = f[v][l]
        BY <2>2
      <3>1. w = v /\ k = l
        <4> HIDE DEF k, l
        <4> QED BY <3>0, <1>6b
      <3> HIDE DEF a, b
      <3> QED BY <3>1, <2>0
    <2>3. CASE \/ /\ i \in 1 .. a /\ r[w][i] = q[w][i]
                  /\ j - b \in 1 .. Len(f[v]) /\ r[v][j] = f[v][j - b]
               \/ /\ i - a \in 1 .. Len(f[w]) /\ r[w][i] = f[w][i - a]
                  /\ j \in 1 .. b /\ r[v][j] = q[v][j]
      BY <2>3, <1>6
    <2> QED BY <2>1, <2>2, <2>3, <1>5
  <1>8. ASSUME NEW t \in Tasks PROVE In(r, t) <=> In(q, t) \/ In(f, t)
    <2>1. In(r, t) => In(q, t) \/ In(f, t)
      <3> SUFFICES ASSUME NEW w \in Workers, NEW i \in 1 .. Len(r[w]), r[w][i] = t
                   PROVE  In(q, t) \/ In(f, t)
        BY DEF In
      <3> QED BY <1>5 DEF In
    <2>2. In(q, t) => In(r, t)
      <3> SUFFICES ASSUME NEW w \in Workers, NEW i \in 1 .. Len(q[w]), q[w][i] = t
                   PROVE  In(r, t)
        BY DEF In
      <3>1. i \in 1 .. Len(r[w]) /\ r[w][i] = t
        BY <1>1, <1>2
      <3> QED BY <3>1 DEF In
    <2>3. In(f, t) => In(r, t)
      <3> SUFFICES ASSUME NEW w \in Workers, NEW i \in 1 .. Len(f[w]), f[w][i] = t
                   PROVE  In(r, t)
        BY DEF In
      <3>1. Len(q[w]) + i \in 1 .. Len(r[w]) /\ r[w][Len(q[w]) + i] = t
        BY <1>1, <1>2
      <3> QED BY <3>1 DEF In
    <2> QED BY <2>1, <2>2, <2>3
  <1> QED BY <1>3, <1>4, <1>7, <1>8 DEF IsDeques, r

\* What submit_batch pushes.
LEMMA BatchDeques ==
    ASSUME IsDeques(queue), NEW batch \in Batches, \A i \in DOMAIN batch : ~In(queue, batch[i])
    PROVE  LET r == [w \in Workers |-> queue[w] \o Fitting(batch, w)]
               pushed == UNION {ToSet(Fitting(batch, w)) : w \in Workers}
           IN  /\ IsDeques(r)
               /\ pushed \subseteq ToSet(batch)
               /\ \A t \in Tasks : In(r, t) <=> In(queue, t) \/ t \in pushed
  <1> DEFINE f == [w \in Workers |-> Fitting(batch, w)]
             pushed == UNION {ToSet(Fitting(batch, w)) : w \in Workers}
  <1>1. \A w \in Workers : queue[w] \in Seq(Tasks) /\ Len(queue[w]) <= LocalQueueLimit
    BY DEF IsDeques
  <1>2. ASSUME NEW w \in Workers
        PROVE  /\ f[w] = Fitting(batch, w) /\ f[w] \in Seq(Tasks)
               /\ Len(queue[w]) + Len(f[w]) <= LocalQueueLimit
               /\ \A i \in 1 .. Len(f[w]) :
                     HashOf[f[w][i]] = w /\ \E j \in DOMAIN batch : f[w][i] = batch[j]
               /\ \A i, j \in 1 .. Len(f[w]) : f[w][i] = f[w][j] => i = j
    BY <1>1, FittingFacts
  <1>3. f \in [Workers -> Seq(Tasks)]
    BY <1>2
  <1>4. \A w \in Workers : DOMAIN f[w] = 1 .. Len(f[w])
    BY <1>2
  <1>5. pushed = UNION {ToSet(f[w]) : w \in Workers}
    BY <1>2
  <1>6. [w \in Workers |-> queue[w] \o Fitting(batch, w)] = [w \in Workers |-> queue[w] \o f[w]]
    BY <1>2
  <1> HIDE DEF f, pushed
  <1>7. Once(f)
    <2> SUFFICES ASSUME NEW w \in Workers, NEW v \in Workers,
                        NEW i \in 1 .. Len(f[w]), NEW j \in 1 .. Len(f[v]), f[w][i] = f[v][j]
                 PROVE  w = v /\ i = j
      BY DEF Once
    <2>1. HashOf[f[w][i]] = w /\ HashOf[f[v][j]] = v
      BY <1>2
    <2>2. w = v
      BY <2>1
    <2> QED BY <2>2, <1>2
  <1>8. \A t : t \in pushed <=> In(f, t)
    BY <1>4, <1>5 DEF ToSet, In
  <1>9. ASSUME NEW t, In(f, t) PROVE \E j \in DOMAIN batch : t = batch[j]
    <2>1. PICK w \in Workers : \E i \in 1 .. Len(f[w]) : f[w][i] = t
      BY <1>9 DEF In
    <2>2. PICK i \in 1 .. Len(f[w]) : f[w][i] = t
      BY <2>1
    <2>3. \E j \in DOMAIN batch : f[w][i] = batch[j]
      BY <2>2, <1>2
    <2> QED BY <2>2, <2>3
  <1>10. pushed \subseteq ToSet(batch)
    BY <1>8, <1>9 DEF ToSet
  <1>11. \A t \in Tasks : ~(In(queue, t) /\ In(f, t))
    BY <1>9
  <1>12. LET r == [w \in Workers |-> queue[w] \o f[w]]
         IN  IsDeques(r) /\ \A t \in Tasks : In(r, t) <=> In(queue, t) \/ In(f, t)
    BY <1>2, <1>3, <1>7, <1>11, JoinedDeques
  <1> QED BY <1>6, <1>8, <1>10, <1>12 DEF pushed

\* Division, and order under a factor.
LEMMA Division ==
    ASSUME NEW a \in Nat, NEW n \in Nat \ {0}
    PROVE  /\ a \div n \in Nat
           /\ (a \div n) * n <= a
           /\ a < (a \div n) * n + n
  OBVIOUS

LEMMA Multiples ==
    ASSUME NEW i \in Int, NEW j \in Int, NEW n \in Nat
    PROVE  /\ i < j => i * n + n <= j * n
           /\ i <= j => i * n <= j * n
           /\ i * n \in Int /\ j * n \in Int
           /\ n # 0 /\ i * n < j * n + n => i <= j
  <1>1. /\ i < j => i * n + n <= j * n
        /\ i <= j => i * n <= j * n
        /\ i * n \in Int /\ j * n \in Int
    OBVIOUS
  <1>2. ASSUME n # 0, i * n < j * n + n PROVE i <= j
    BY <1>2
  <1> QED BY <1>1, <1>2

\* The place of the i-th card of player w when cards are dealt in turn.
Card(w, i) == (i - 1) * NumWorkers + w + 1
CardsOf(w, n) == (n - w + NumWorkers - 1) \div NumWorkers

\* Every card is dealt, to one player, once.
LEMMA Dealing ==
    ASSUME NEW n \in Nat
    PROVE  /\ \A w \in Workers : CardsOf(w, n) \in Nat
           /\ \A w \in Workers : \A i \in 1 .. CardsOf(w, n) : Card(w, i) \in 1 .. n
           /\ \A w, v \in Workers : \A i \in 1 .. CardsOf(w, n), j \in 1 .. CardsOf(v, n) :
                 Card(w, i) = Card(v, j) => w = v /\ i = j
           /\ \A k \in 1 .. n : \E w \in Workers : \E i \in 1 .. CardsOf(w, n) : Card(w, i) = k
           /\ \A limit \in Nat : n <= NumWorkers * limit =>
                 \A w \in Workers : CardsOf(w, n) <= limit
  <1> DEFINE N == NumWorkers
  <1>0. N \in Nat \ {0} /\ \A w \in Workers : w \in Nat /\ w < N
    BY PoolAssumption DEF Workers
  <1> HIDE DEF N
  <1>1. ASSUME NEW w \in Workers
        PROVE  /\ CardsOf(w, n) \in Nat
               /\ CardsOf(w, n) * N \in Int
               /\ CardsOf(w, n) * N <= n - w + N - 1
               /\ n - w + N - 1 < CardsOf(w, n) * N + N
    <2>1. n - w + N - 1 \in Nat
      BY <1>0
    <2>2. CardsOf(w, n) = (n - w + N - 1) \div N
      BY DEF CardsOf, N
    <2>3. CardsOf(w, n) \in Nat
      BY <1>0, <2>1, <2>2, Division
    <2>4. CardsOf(w, n) * N \in Int
      BY <1>0, <2>3, Multiples
    <2> QED BY <1>0, <2>1, <2>2, <2>3, <2>4, Division
  <1>2. ASSUME NEW w \in Workers, NEW i \in Int
        PROVE  /\ Card(w, i) = (i - 1) * N + w + 1
               /\ (i - 1) * N \in Int
    BY <1>0, Multiples DEF Card, N
  <1>3. ASSUME NEW w \in Workers, NEW i \in 1 .. CardsOf(w, n)
        PROVE  Card(w, i) \in 1 .. n
    <2>1. i \in Int /\ i - 1 \in Int /\ CardsOf(w, n) \in Int
      BY <1>1
    <2>2. (i - 1) * N + N <= CardsOf(w, n) * N
      BY <1>0, <2>1, Multiples
    <2>3. 0 * N <= (i - 1) * N /\ 0 * N = 0
      BY <1>0, <2>1, Multiples
    <2> DEFINE a == (i - 1) * N
               b == CardsOf(w, n) * N
    <2>4. /\ a \in Int /\ b \in Int /\ N \in Nat /\ w \in Nat
          /\ a + N <= b /\ 0 <= a /\ b <= n - w + N - 1
      BY <1>0, <1>1, <1>2, <2>1, <2>2, <2>3
    <2>5. Card(w, i) = a + w + 1
      BY <1>2, <2>1
    <2> HIDE DEF a, b
    <2> QED BY <2>4, <2>5
  <1>4. ASSUME NEW w \in Workers, NEW v \in Workers, NEW i \in Int, NEW j \in Int,
               Card(w, i) = Card(v, j)
        PROVE  i <= j
    <2> DEFINE a == (i - 1) * N
               b == (j - 1) * N
    <2>1. a \in Int /\ b \in Int /\ Card(w, i) = a + w + 1 /\ Card(v, j) = b + v + 1
      BY <1>2
    <2>2. CASE j < i
      <3>1. b + N <= a
        <4>1. j - 1 \in Int /\ i - 1 \in Int /\ j - 1 < i - 1
          BY <2>2
        <4> QED BY <4>1, <1>0, Multiples
      <3> HIDE DEF a, b
      <3> QED BY <3>1, <2>1, <1>0, <1>4
    <2> QED BY <2>2
  <1>5. ASSUME NEW w \in Workers, NEW v \in Workers, NEW i \in Int, NEW j \in Int,
               Card(w, i) = Card(v, j)
        PROVE  w = v /\ i = j
    <2>1. i = j
      <3>1. i <= j /\ j <= i
        BY <1>4, <1>5
      <3> QED BY <3>1
    <2> DEFINE a == (i - 1) * N
    <2>2. a \in Int /\ Card(w, i) = a + w + 1 /\ Card(v, j) = a + v + 1
      BY <1>2, <2>1
    <2> HIDE DEF a
    <2> QED BY <1>0, <1>5, <2>1, <2>2
  <1>6. ASSUME NEW k \in 1 .. n
        PROVE  \E w \in Workers : \E i \in 1 .. CardsOf(w, n) : Card(w, i) = k
    <2> DEFINE d == (k - 1) \div N
               a == d * N
               w == k - 1 - a
    <2>1. k - 1 \in Nat
      OBVIOUS
    <2>2. d \in Nat /\ a \in Int /\ a <= k - 1 /\ k - 1 < a + N
      BY <2>1, <1>0, Division, Multiples
    <2>3. w \in Workers
      <3> HIDE DEF d, a
      <3>1. w \in Nat /\ w < N
        BY <2>1, <2>2, <1>0
      <3> QED BY <3>1, <1>0 DEF Workers, N
    <2>4. Card(w, d + 1) = k
      <3>1. d + 1 \in Int /\ (d + 1) - 1 = d
        BY <2>2
      <3>2. Card(w, d + 1) = a + w + 1
        BY <1>2, <2>3, <3>1
      <3> HIDE DEF d, a
      <3> QED BY <3>2, <2>2
    <2>5. d + 1 <= CardsOf(w, n)
      <3> DEFINE c == CardsOf(w, n)
                 b == c * N
      <3>1. c \in Nat /\ b \in Int /\ n - w + N - 1 < b + N
        BY <1>1, <2>3
      <3>2. a + N < b + N
        <4> HIDE DEF a, b
        <4>1. w = k - 1 - a
          OBVIOUS
        <4> HIDE DEF w
        <4> QED BY <3>1, <4>1, <2>2, <1>0
      <3>3. c < d + 1 => b <= a
        <4>1. c \in Int /\ d \in Int /\ (c < d + 1 => c <= d)
          BY <3>1, <2>2
        <4> QED BY <4>1, <1>0, Multiples
      <3> HIDE DEF a, b, c
      <3>4. ~(c < d + 1)
        BY <3>1, <3>2, <3>3, <2>2, <1>0
      <3>5. d + 1 <= c
        <4> HIDE DEF d
        <4> QED BY <3>4, <3>1, <2>2
      <3> QED BY <3>5 DEF c
    <2>6. d + 1 \in 1 .. CardsOf(w, n)
      <3>1. CardsOf(w, n) \in Nat
        BY <1>1, <2>3
      <3> HIDE DEF d, w
      <3> QED BY <3>1, <2>2, <2>5
    <2> HIDE DEF d, a, w
    <2> QED BY <2>3, <2>4, <2>6
  <1>7. ASSUME NEW limit \in Nat, n <= N * limit, NEW w \in Workers
        PROVE  CardsOf(w, n) <= limit
    <2> DEFINE c == CardsOf(w, n)
               b == c * N
               a == limit * N
    <2>1. c \in Nat /\ b \in Int /\ b <= n - w + N - 1
      BY <1>1
    <2>2. n <= a /\ a \in Int
      BY <1>0, <1>7
    <2>3. b < a + N
      <3> HIDE DEF a, b
      <3> QED BY <2>1, <2>2, <1>0
    <2> QED BY <2>1, <2>3, <1>0, Multiples
  <1> QED
    <2>1. \A w \in Workers : CardsOf(w, n) \in Nat
      BY <1>1
    <2>2. \A w, v \in Workers : \A i \in 1 .. CardsOf(w, n), j \in 1 .. CardsOf(v, n) :
                 Card(w, i) = Card(v, j) => w = v /\ i = j
      BY <2>1, <1>5
    <2>3. \A limit \in Nat : n <= NumWorkers * limit =>
                 \A w \in Workers : CardsOf(w, n) <= limit
      BY <1>7 DEF N
    <2> QED BY <2>1, <1>3, <2>2, <1>6, <2>3

\* Different tasks, no more than the deques have places, dealt out in turn.
LEMMA DealtDeques ==
    ASSUME NEW s \in Seq(Tasks), \A i, j \in 1 .. Len(s) : s[i] = s[j] => i = j,
           Len(s) <= NumWorkers * LocalQueueLimit
    PROVE  LET r == [w \in Workers |-> Dealt(s, w)]
           IN  IsDeques(r) /\ \A t \in Tasks : In(r, t) <=> \E k \in 1 .. Len(s) : s[k] = t
  <1> DEFINE r == [w \in Workers |-> Dealt(s, w)]
             n == Len(s)
  <1>1. n \in Nat
    OBVIOUS
  <1>2. /\ \A w \in Workers : CardsOf(w, n) \in Nat
        /\ \A w \in Workers : \A i \in 1 .. CardsOf(w, n) : Card(w, i) \in 1 .. n
        /\ \A w, v \in Workers : \A i \in 1 .. CardsOf(w, n), j \in 1 .. CardsOf(v, n) :
              Card(w, i) = Card(v, j) => w = v /\ i = j
        /\ \A k \in 1 .. n : \E w \in Workers : \E i \in 1 .. CardsOf(w, n) : Card(w, i) = k
        /\ \A limit \in Nat : n <= NumWorkers * limit =>
              \A w \in Workers : CardsOf(w, n) <= limit
    BY <1>1, Dealing
  <1>3. \A k \in 1 .. n : s[k] \in Tasks
    OBVIOUS
  <1>4. ASSUME NEW w \in Workers
        PROVE  /\ r[w] = [i \in 1 .. CardsOf(w, n) |-> s[Card(w, i)]]
               /\ r[w] \in Seq(Tasks)
               /\ Len(r[w]) = CardsOf(w, n)
               /\ \A i \in 1 .. CardsOf(w, n) : r[w][i] = s[Card(w, i)]
    <2>1. r[w] = [i \in 1 .. CardsOf(w, n) |-> s[Card(w, i)]]
      BY DEF Dealt, Card, CardsOf
    <2> HIDE DEF r, n
    <2>2. r[w] \in [1 .. CardsOf(w, n) -> Tasks]
      BY <2>1, <1>2, <1>3
    <2>3. CardsOf(w, n) \in Nat
      BY <1>2
    <2> QED BY <2>1, <2>2, <2>3
  <1>5. r \in [Workers -> Seq(Tasks)]
    BY <1>4
  <1>6. \A i, j \in 1 .. n : s[i] = s[j] => i = j
    OBVIOUS
  <1>7. \A w \in Workers : CardsOf(w, n) <= LocalQueueLimit
    BY <1>2, PoolAssumption
  <1> HIDE DEF r, n
  <1>8. \A w \in Workers : Len(r[w]) <= LocalQueueLimit
    BY <1>4, <1>7
  <1>9. Once(r)
    <2> SUFFICES ASSUME NEW w \in Workers, NEW v \in Workers,
                        NEW i \in 1 .. Len(r[w]), NEW j \in 1 .. Len(r[v]), r[w][i] = r[v][j]
                 PROVE  w = v /\ i = j
      BY DEF Once
    <2>1. /\ i \in 1 .. CardsOf(w, n) /\ r[w][i] = s[Card(w, i)] /\ Card(w, i) \in 1 .. n
          /\ j \in 1 .. CardsOf(v, n) /\ r[v][j] = s[Card(v, j)] /\ Card(v, j) \in 1 .. n
      BY <1>2, <1>4
    <2>2. Card(w, i) = Card(v, j)
      BY <2>1, <1>6
    <2> QED BY <2>1, <2>2, <1>2
  <1>10. ASSUME NEW t \in Tasks PROVE In(r, t) <=> \E k \in 1 .. n : s[k] = t
    <2>1. ASSUME NEW w \in Workers, NEW i \in 1 .. Len(r[w]), r[w][i] = t
          PROVE  \E k \in 1 .. n : s[k] = t
      <3>1. r[w][i] = s[Card(w, i)] /\ Card(w, i) \in 1 .. n
        BY <1>2, <1>4
      <3> QED BY <2>1, <3>1
    <2>2. ASSUME NEW k \in 1 .. n, s[k] = t PROVE In(r, t)
      <3>1. PICK w \in Workers : \E i \in 1 .. CardsOf(w, n) : Card(w, i) = k
        BY <1>2
      <3>2. PICK i \in 1 .. CardsOf(w, n) : Card(w, i) = k
        BY <3>1
      <3>3. i \in 1 .. Len(r[w]) /\ r[w][i] = t
        BY <2>2, <3>1, <3>2, <1>4
      <3> QED BY <3>1, <3>3 DEF In
    <2> QED BY <2>1, <2>2 DEF In
  <1> QED BY <1>5, <1>8, <1>9, <1>10 DEF IsDeques, r, n

\* A rebalance moves every waiting task and keeps the deques within their limit.
LEMMA RebalancedDeques ==
    ASSUME IsDeques(queue)
    PROVE  LET r == [w \in Workers |-> Dealt(Sorted(AllQueued), w)]
           IN  IsDeques(r) /\ \A t \in Tasks : In(r, t) <=> In(queue, t)
  <1> DEFINE s == Sorted(AllQueued)
             n == Cardinality(QueuePlaces)
  <1>1. /\ \A w \in Workers : /\ queue[w] \in Seq(Tasks)
                              /\ Len(queue[w]) \in Nat /\ Len(queue[w]) <= LocalQueueLimit
        /\ \A w, v \in Workers : \A i \in 1 .. Len(queue[w]), j \in 1 .. Len(queue[v]) :
              queue[w][i] = queue[v][j] => w = v /\ i = j
    BY DEF IsDeques, Once
  <1>2. /\ \A p \in QueuePlaces : /\ p[1] \in Workers /\ p[2] \in 1 .. Len(queue[p[1]])
                                 /\ p = <<p[1], p[2]>>
        /\ \A w \in Workers : \A i \in 1 .. Len(queue[w]) : <<w, i>> \in QueuePlaces
    BY DEF QueuePlaces
  <1>3. QueuePlaces \subseteq Workers \X (1 .. LocalQueueLimit)
    <2> SUFFICES ASSUME NEW p \in QueuePlaces PROVE p \in Workers \X (1 .. LocalQueueLimit)
      OBVIOUS
    <2>1. p[1] \in Workers /\ p[2] \in 1 .. LocalQueueLimit /\ p = <<p[1], p[2]>>
      BY <1>1, <1>2, PoolAssumption
    <2> QED BY <2>1
  <1>4. /\ IsFiniteSet(QueuePlaces) /\ n \in Nat
        /\ n <= NumWorkers * LocalQueueLimit
    <2>0. 1 \in Int /\ LocalQueueLimit \in Nat /\ NumWorkers \in Nat
      BY PoolAssumption
    <2>1. IsFiniteSet(1 .. LocalQueueLimit)
      BY <2>0, FS_Interval
    <2>1a. Cardinality(1 .. LocalQueueLimit) = LocalQueueLimit
      BY <2>0, FS_Interval, PoolAssumption
    <2>2. /\ IsFiniteSet(Workers \X (1 .. LocalQueueLimit))
          /\ Cardinality(Workers \X (1 .. LocalQueueLimit)) = NumWorkers * LocalQueueLimit
      BY <2>1, <2>1a, WorkersAreFinite, FS_Product
    <2> QED BY <2>2, <1>3, FS_Subset, FS_CardinalityType
  <1>5. QueuePlaces \in SUBSET (Int \X Int)
    <2>1. \A p \in Workers \X (1 .. LocalQueueLimit) : p \in Int \X Int
      <3>1. \A i \in 1 .. LocalQueueLimit : i \in Int
        BY PoolAssumption
      <3>2. \A w \in Workers : w \in Int
        BY WorkersAreFinite
      <3> QED BY <3>1, <3>2
    <2> QED BY <1>3, <2>1
  <1>6. ASSUME NEW p \in QueuePlaces
        PROVE  AllQueued[p] = queue[p[1]][p[2]] /\ AllQueued[p] \in Tasks
    BY <1>1, <1>2 DEF AllQueued
  <1>7. AllQueued \in [QueuePlaces -> Tasks]
    BY <1>6 DEF AllQueued
  <1>8. Arranges(s, AllQueued, QueuePlaces)
    BY <1>4, <1>5, <1>7, SortedIsPermutation
  <1>9. PICK place \in [1 .. n -> QueuePlaces] :
          /\ \A k \in 1 .. n : s[k] = AllQueued[place[k]]
          /\ \A k, l \in 1 .. n : place[k] = place[l] => k = l
          /\ \A p \in QueuePlaces : \E k \in 1 .. n : place[k] = p
    BY <1>8 DEF Arranges
  <1>10. s \in Seq(Tasks) /\ Len(s) = n
    <2>1. s \in [1 .. n -> Tasks]
      BY <1>8 DEF Arranges
    <2> HIDE DEF s, n
    <2> QED BY <2>1, <1>4
  <1> HIDE DEF s, n
  <1>11. ASSUME NEW k \in 1 .. n, NEW l \in 1 .. n, s[k] = s[l] PROVE k = l
    <2>1. place[k] \in QueuePlaces /\ place[l] \in QueuePlaces
      BY <1>9
    <2>2. AllQueued[place[k]] = AllQueued[place[l]]
      BY <1>9, <1>11
    <2>3. place[k][1] = place[l][1] /\ place[k][2] = place[l][2]
      BY <2>1, <2>2, <1>1, <1>2, <1>6
    <2>4. place[k] = place[l]
      BY <2>1, <2>3, <1>2
    <2> QED BY <2>4, <1>9
  <1>12. ASSUME NEW t \in Tasks PROVE (\E k \in 1 .. n : s[k] = t) <=> In(queue, t)
    <2>1. ASSUME NEW k \in 1 .. n, s[k] = t PROVE In(queue, t)
      <3>1. place[k] \in QueuePlaces /\ AllQueued[place[k]] = t
        BY <2>1, <1>9
      <3> QED BY <3>1, <1>2, <1>6 DEF In
    <2>2. ASSUME NEW w \in Workers, NEW i \in 1 .. Len(queue[w]), queue[w][i] = t
          PROVE  \E k \in 1 .. n : s[k] = t
      <3>1. <<w, i>> \in QueuePlaces /\ AllQueued[<<w, i>>] = t
        BY <2>2, <1>2, <1>6
      <3>2. PICK k \in 1 .. n : place[k] = <<w, i>>
        BY <3>1, <1>9
      <3> QED BY <3>1, <3>2, <1>9
    <2> QED BY <2>1, <2>2 DEF In
  <1>13. LET r == [w \in Workers |-> Dealt(s, w)]
         IN  IsDeques(r) /\ \A t \in Tasks : In(r, t) <=> \E k \in 1 .. Len(s) : s[k] = t
    BY <1>4, <1>10, <1>11, DealtDeques
  <1> QED BY <1>10, <1>12, <1>13 DEF s

-------------------------------------------------------------------------------
(* The inductive invariant: a task waits in one place or is held by one worker,  *)
(* as long as it is live, and what it was attempted agrees with its retries.     *)

HeldOnce == \A w, v \in Workers : held[w] \in Tasks /\ held[w] = held[v] => w = v

Apart == \A t \in Tasks : ~(In(queue, t) /\ Held(t))

LiveArePlaced == \A t \in Tasks : fate[t] = "live" <=> In(queue, t) \/ Held(t)

Counted == \A t \in Tasks :
    /\ fate[t] = "new" => attempts[t] = 0 /\ retries[t] = 0
    /\ In(queue, t) => attempts[t] = retries[t]
    /\ Held(t) => attempts[t] = retries[t] + 1

Inv ==
    /\ TypeOK
    /\ IsDeques(queue)
    /\ HeldOnce
    /\ Apart
    /\ LiveArePlaced
    /\ Counted

LEMMA Initially == Init => Inv
  <1> SUFFICES ASSUME Init PROVE Inv
    OBVIOUS
  <1>1. /\ queue = [w \in Workers |-> <<>>] /\ held = [w \in Workers |-> None]
        /\ running = [w \in Workers |-> TRUE] /\ retries = [t \in Tasks |-> 0]
        /\ fate = [t \in Tasks |-> "new"] /\ attempts = [t \in Tasks |-> 0]
    BY DEF Init
  <1>2. \A w \in Workers : queue[w] = <<>> /\ Len(queue[w]) = 0 /\ held[w] = None
    BY <1>1
  <1>3. IsDeques(queue)
    BY <1>1, <1>2, PoolAssumption DEF IsDeques, Once
  <1>4. \A t \in Tasks : ~In(queue, t) /\ ~Held(t)
    BY <1>2, PoolAssumption DEF In, Held
  <1>5. TypeOK
    BY <1>1, <1>3, PoolAssumption DEF TypeOK, IsDeques
  <1>6. HeldOnce
    BY <1>2, PoolAssumption DEF HeldOnce
  <1> QED BY <1>1, <1>3, <1>4, <1>5, <1>6 DEF Inv, Apart, LiveArePlaced, Counted

\* There is a shortest deque to submit to.
LEMMA LeastLoadedIsAWorker ==
    ASSUME IsDeques(queue)
    PROVE  LeastLoaded \in Workers
  <1> DEFINE lt == OpToRel(<, Nat)
             Lens == {Len(queue[w]) : w \in Workers}
  <1>1. /\ \A w \in Workers : Len(queue[w]) \in Nat
        /\ \A w \in Workers : w \in Nat
        /\ 0 \in Workers
    BY PoolAssumption DEF IsDeques, Workers
  <1>2. IsWellFoundedOn(lt, Nat)
    BY NatLessThanWellFounded
  <1>3. \A x, y \in Nat : x < y => <<x, y>> \in lt
    BY DEF OpToRel
  <1> HIDE DEF lt
  <1>4. \A S \in SUBSET Nat : S # {} => \E x \in S : \A y \in S : x <= y
    <2> SUFFICES ASSUME NEW S \in SUBSET Nat, S # {} PROVE \E x \in S : \A y \in S : x <= y
      OBVIOUS
    <2>1. PICK x \in S : \A y \in S : ~(<<y, x>> \in lt)
      BY <1>2, WFMin
    <2>2. \A y \in S : ~(y < x)
      BY <2>1, <1>3
    <2> QED BY <2>2
  <1>5. Lens \in SUBSET Nat /\ Lens # {}
    BY <1>1
  <1>6. PICK m \in Lens : \A y \in Lens : m <= y
    BY <1>4, <1>5
  <1> DEFINE Shortest == {w \in Workers : Len(queue[w]) = m}
  <1>7. Shortest \in SUBSET Nat /\ Shortest # {}
    BY <1>1, <1>6
  <1>8. PICK w \in Shortest : \A v \in Shortest : w <= v
    BY <1>4, <1>7
  <1>9. w \in Workers /\ Len(queue[w]) = m
    BY <1>8
  <1>10. ASSUME NEW v \in Workers
         PROVE  \/ Len(queue[w]) < Len(queue[v])
                \/ Len(queue[w]) = Len(queue[v]) /\ w <= v
    <2>1. m <= Len(queue[v]) /\ m \in Nat /\ Len(queue[v]) \in Nat
      BY <1>1, <1>5, <1>6
    <2> QED BY <2>1, <1>8, <1>9
  <1> QED BY <1>9, <1>10 DEF LeastLoaded

\* A step that leaves the hands of the workers alone.
LEMMA SameHands == held' = held => /\ \A t : Held(t)' <=> Held(t)
                                   /\ HeldOnce => HeldOnce'
  BY DEF Held, HeldOnce

LEMMA SubmitTaskPreserves ==
    ASSUME Inv, NEW t \in Tasks, SubmitTask(t)
    PROVE  Inv'
  <1>0. TypeOK /\ IsDeques(queue) /\ HeldOnce /\ Apart /\ LiveArePlaced /\ Counted
    BY DEF Inv
  <1>1. /\ fate[t] = "new" /\ fate \in [Tasks -> {"new", "live", "done", "refused", "dropped"}]
        /\ held' = held /\ running' = running /\ retries' = retries /\ attempts' = attempts
    BY <1>0 DEF SubmitTask, TypeOK
  <1>2. HeldOnce' /\ \A u \in Tasks : Held(u)' <=> Held(u)
    BY <1>0, <1>1, SameHands
  <1>3. ~In(queue, t) /\ ~Held(t)
    BY <1>0, <1>1 DEF LiveArePlaced
  <1>4. LeastLoaded \in Workers
    BY <1>0, LeastLoadedIsAWorker
  <1>5. CASE HasRoom(queue[LeastLoaded])
    <2>1. /\ queue' = [queue EXCEPT ![LeastLoaded] = Pushed(@, t)]
          /\ fate' = [fate EXCEPT ![t] = "live"]
      BY <1>5 DEF SubmitTask
    <2>2. IsDeques(queue') /\ \A u \in Tasks : In(queue', u) <=> In(queue, u) \/ u = t
      BY <2>1, <1>0, <1>3, <1>4, <1>5, PushedDeques
    <2>3. TypeOK'
      BY <2>1, <2>2, <1>0, <1>1 DEF TypeOK, IsDeques
    <2>4. /\ fate'[t] = "live"
          /\ \A u \in Tasks \ {t} : fate'[u] = fate[u]
      BY <2>1, <1>1
    <2>5. Apart' /\ LiveArePlaced'
      BY <2>2, <2>4, <1>0, <1>2, <1>3 DEF Apart, LiveArePlaced
    <2>6. Counted'
      BY <2>2, <2>4, <1>0, <1>1, <1>2, <1>3 DEF Counted
    <2> QED BY <2>2, <2>3, <2>5, <2>6, <1>2 DEF Inv
  <1>6. CASE ~HasRoom(queue[LeastLoaded])
    <2>1. queue' = queue /\ fate' = [fate EXCEPT ![t] = "refused"]
      BY <1>6 DEF SubmitTask
    <2>2. IsDeques(queue') /\ TypeOK'
      BY <2>1, <1>0, <1>1 DEF TypeOK
    <2>4. /\ fate'[t] = "refused"
          /\ \A u \in Tasks \ {t} : fate'[u] = fate[u]
      BY <2>1, <1>1
    <2>5. Apart' /\ LiveArePlaced'
      BY <2>1, <2>4, <1>0, <1>2, <1>3 DEF Apart, LiveArePlaced
    <2>6. Counted'
      BY <2>1, <2>4, <1>0, <1>1, <1>2 DEF Counted
    <2> QED BY <2>2, <2>5, <2>6, <1>2 DEF Inv
  <1> QED BY <1>5, <1>6

LEMMA SubmitBatchPreserves ==
    ASSUME Inv, NEW batch \in Batches, SubmitBatch(batch)
    PROVE  Inv'
  <1> DEFINE pushed == UNION {ToSet(Fitting(batch, w)) : w \in Workers}
  <1>0. TypeOK /\ IsDeques(queue) /\ HeldOnce /\ Apart /\ LiveArePlaced /\ Counted
    BY DEF Inv
  <1>1. /\ fate \in [Tasks -> {"new", "live", "done", "refused", "dropped"}]
        /\ held' = held /\ running' = running /\ retries' = retries /\ attempts' = attempts
        /\ \A i \in DOMAIN batch : fate[batch[i]] = "new"
        /\ queue' = [w \in Workers |-> queue[w] \o Fitting(batch, w)]
        /\ fate' = [u \in Tasks |-> IF u \in pushed THEN "live"
                                    ELSE IF u \in ToSet(batch) THEN "refused" ELSE fate[u]]
    BY <1>0 DEF SubmitBatch, TypeOK
  <1>2. HeldOnce' /\ \A u \in Tasks : Held(u)' <=> Held(u)
    BY <1>0, <1>1, SameHands
  <1>3. \A i \in DOMAIN batch : batch[i] \in Tasks
    BY DEF Batches
  <1>4. \A i \in DOMAIN batch : ~In(queue, batch[i])
    BY <1>0, <1>1, <1>3 DEF LiveArePlaced
  <1>5. /\ IsDeques(queue')
        /\ pushed \subseteq ToSet(batch)
        /\ \A u \in Tasks : In(queue', u) <=> In(queue, u) \/ u \in pushed
    BY <1>0, <1>1, <1>4, BatchDeques
  <1>6. \A u \in ToSet(batch) : fate[u] = "new"
    BY <1>1 DEF ToSet
  <1> HIDE DEF pushed
  <1>7. ASSUME NEW u \in Tasks
        PROVE  \/ u \in pushed /\ fate[u] = "new" /\ fate'[u] = "live"
               \/ u \notin pushed /\ fate[u] = "new" /\ fate'[u] = "refused"
               \/ u \notin pushed /\ fate'[u] = fate[u]
    BY <1>1, <1>5, <1>6
  <1>8. TypeOK'
    BY <1>0, <1>1, <1>5, <1>7 DEF TypeOK, IsDeques
  <1>9. Apart' /\ LiveArePlaced'
    BY <1>0, <1>2, <1>5, <1>7 DEF Apart, LiveArePlaced
  <1>10. Counted'
    BY <1>0, <1>1, <1>2, <1>5, <1>7 DEF Counted, LiveArePlaced
  <1> QED BY <1>2, <1>5, <1>8, <1>9, <1>10 DEF Inv

\* A waiting task goes from its deque into the hands of an idle worker.
LEMMA TakingPreserves ==
    ASSUME Inv, NEW w \in Workers, Idle(w), NEW t \in Tasks, In(queue, t), Take(w, t),
           IsDeques(queue'), \A u \in Tasks : In(queue', u) <=> In(queue, u) /\ u # t,
           running' = running, retries' = retries, fate' = fate
    PROVE  Inv'
  <1>0. TypeOK /\ IsDeques(queue) /\ HeldOnce /\ Apart /\ LiveArePlaced /\ Counted
    BY DEF Inv
  <1>1. /\ held \in [Workers -> Tasks \cup {None}] /\ attempts \in [Tasks -> 0 .. MaxRetries + 1]
        /\ retries \in [Tasks -> 0 .. MaxRetries]
        /\ held[w] = None
        /\ held' = [held EXCEPT ![w] = t] /\ attempts' = [attempts EXCEPT ![t] = @ + 1]
    BY <1>0 DEF TypeOK, Idle, Take
  <1>2. /\ ~Held(t) /\ fate[t] = "live" /\ attempts[t] = retries[t]
        /\ \A v \in Workers : held[v] # t
    BY <1>0 DEF Apart, LiveArePlaced, Counted, Held
  <1>3. /\ held'[w] = t /\ \A v \in Workers \ {w} : held'[v] = held[v]
        /\ held' \in [Workers -> Tasks \cup {None}]
    BY <1>1
  <1>4. ASSUME NEW u \in Tasks PROVE Held(u)' <=> Held(u) \/ u = t
    <2>1. Held(u)' <=> \E v \in Workers : held'[v] = u
      BY DEF Held
    <2>2. CASE u = t
      BY <2>1, <2>2, <1>3
    <2>3. CASE u # t
      <3>1. u # None
        BY PoolAssumption
      <3> QED BY <3>1, <2>1, <2>3, <1>1, <1>3 DEF Held
    <2> QED BY <2>2, <2>3
  <1>5. HeldOnce'
    <2>1. \A x, y \in Workers : held[x] \in Tasks /\ held[x] = held[y] => x = y
      BY <1>0 DEF HeldOnce
    <2>2. \A x, y \in Workers : held'[x] \in Tasks /\ held'[x] = held'[y] => x = y
      BY <2>1, <1>2, <1>3
    <2> QED BY <2>2 DEF HeldOnce
  <1>6. /\ attempts'[t] = attempts[t] + 1 /\ \A u \in Tasks \ {t} : attempts'[u] = attempts[u]
        /\ attempts' \in [Tasks -> 0 .. MaxRetries + 1]
    <2>1. attempts[t] + 1 \in 0 .. MaxRetries + 1
      BY <1>1, <1>2, PoolAssumption
    <2> QED BY <2>1, <1>1
  <1>7. TypeOK'
    BY <1>0, <1>3, <1>6 DEF TypeOK, IsDeques
  <1>8. Apart' /\ LiveArePlaced'
    BY <1>0, <1>2, <1>4 DEF Apart, LiveArePlaced
  <1>9. Counted'
    BY <1>0, <1>2, <1>4, <1>6 DEF Counted
  <1> QED BY <1>5, <1>7, <1>8, <1>9 DEF Inv

LEMMA PopLocalPreserves ==
    ASSUME Inv, NEW w \in Workers, PopLocal(w)
    PROVE  Inv' /\ Head(queue[w]) \in Tasks /\ In(queue, Head(queue[w]))
  <1>1. /\ Idle(w) /\ queue[w] # <<>> /\ Take(w, Head(queue[w]))
        /\ queue' = [queue EXCEPT ![w] = Tail(@)]
        /\ running' = running /\ retries' = retries /\ fate' = fate
    BY DEF PopLocal
  <1>2. IsDeques(queue)
    BY DEF Inv
  <1>3. /\ IsDeques(queue')
        /\ Head(queue[w]) \in Tasks /\ In(queue, Head(queue[w]))
        /\ \A u \in Tasks : In(queue', u) <=> In(queue, u) /\ u # Head(queue[w])
    BY <1>1, <1>2, PoppedDeques
  <1> QED BY <1>1, <1>3, TakingPreserves

\* What a thief takes, and from where.
LEMMA StealTakes ==
    ASSUME Inv, NEW w \in Workers, NEW v \in Workers, Steal(w, v)
    PROVE  \E t \in Tasks :
              /\ In(queue, t) /\ Idle(w) /\ Take(w, t) /\ IsDeques(queue')
              /\ \A u \in Tasks : In(queue', u) <=> In(queue, u) /\ u # t
              /\ running' = running /\ retries' = retries /\ fate' = fate
  <1> DEFINE len == Len(queue[v])
             n == StealCount(len)
             stolen == Reverse(SubSeq(queue[v], len - n + 1, len))
  <1>1. /\ Idle(w) /\ queue[w] = <<>> /\ v # w /\ len > Len(queue[w]) + StealThreshold
        /\ Take(w, Head(stolen))
        /\ queue' = [queue EXCEPT ![v] = SubSeq(@, 1, len - n), ![w] = @ \o Tail(stolen)]
        /\ running' = running /\ retries' = retries /\ fate' = fate
    BY DEF Steal
  <1>2. IsDeques(queue)
    BY DEF Inv
  <1>3. len \in Nat /\ len > StealThreshold
    <2>1. len \in Nat /\ Len(queue[w]) = 0
      BY <1>1, <1>2 DEF IsDeques
    <2> HIDE DEF len
    <2> QED BY <2>1, <1>1, PoolAssumption
  <1>4. n \in 1 .. len
    BY <1>3, StealCountBounds
  <1> HIDE DEF n
  <1>4a. stolen = Reverse(SubSeq(queue[v], Len(queue[v]) - n + 1, Len(queue[v])))
    OBVIOUS
  <1> HIDE DEF stolen
  <1>5. queue' = Robbed(queue, w, v, n, stolen)
    BY <1>1 DEF Robbed
  <1>6. /\ IsDeques(queue')
        /\ Head(stolen) \in Tasks /\ In(queue, Head(stolen))
        /\ \A u \in Tasks : In(queue', u) <=> In(queue, u) /\ u # Head(stolen)
    <2>1. queue[w] = <<>> /\ v # w /\ n \in 1 .. Len(queue[v])
      BY <1>1, <1>4
    <2>2. /\ IsDeques(Robbed(queue, w, v, n, stolen))
          /\ Head(stolen) \in Tasks /\ In(queue, Head(stolen))
          /\ \A u \in Tasks : In(Robbed(queue, w, v, n, stolen), u) <=>
                                 In(queue, u) /\ u # Head(stolen)
      BY <2>1, <1>2, <1>4a, StolenDeques
    <2> QED BY <2>2, <1>5
  <1> QED BY <1>1, <1>6

\* A worker puts down the task in its hands, for good or into its own deque.
LEMMA PuttingDownPreserves ==
    ASSUME Inv, NEW w \in Workers, NEW t \in Tasks, held[w] = t,
           held' = [held EXCEPT ![w] = None], running' = running, attempts' = attempts,
           retries' \in [Tasks -> 0 .. MaxRetries],
           fate' \in [Tasks -> {"new", "live", "done", "refused", "dropped"}],
           \A u \in Tasks \ {t} : retries'[u] = retries[u] /\ fate'[u] = fate[u],
           IsDeques(queue'),
           \/ /\ fate'[t] = "live" /\ retries'[t] = retries[t] + 1
              /\ \A u \in Tasks : In(queue', u) <=> In(queue, u) \/ u = t
           \/ /\ fate'[t] \in {"done", "dropped"}
              /\ \A u \in Tasks : In(queue', u) <=> In(queue, u)
    PROVE  Inv'
  <1>0. TypeOK /\ IsDeques(queue) /\ HeldOnce /\ Apart /\ LiveArePlaced /\ Counted
    BY DEF Inv
  <1>1. held \in [Workers -> Tasks \cup {None}]
    BY <1>0 DEF TypeOK
  <1>2. Held(t) /\ ~In(queue, t) /\ attempts[t] = retries[t] + 1
    BY <1>0 DEF Held, Apart, Counted
  <1>3. /\ held'[w] = None /\ \A v \in Workers \ {w} : held'[v] = held[v]
        /\ held' \in [Workers -> Tasks \cup {None}]
    BY <1>1
  <1>4. \A x, y \in Workers : held[x] \in Tasks /\ held[x] = held[y] => x = y
    BY <1>0 DEF HeldOnce
  <1>5. HeldOnce'
    <2>1. \A x, y \in Workers : held'[x] \in Tasks /\ held'[x] = held'[y] => x = y
      BY <1>3, <1>4, PoolAssumption
    <2> QED BY <2>1 DEF HeldOnce
  <1>6. ASSUME NEW u \in Tasks PROVE Held(u)' <=> Held(u) /\ u # t
    <2>1. Held(u)' <=> \E v \in Workers : held'[v] = u
      BY DEF Held
    <2>2. u # None
      BY PoolAssumption
    <2>3. CASE u = t
      BY <2>1, <2>2, <2>3, <1>3, <1>4
    <2>4. CASE u # t
      BY <2>1, <2>2, <2>4, <1>3 DEF Held
    <2> QED BY <2>3, <2>4
  <1>7. TypeOK'
    BY <1>0, <1>3 DEF TypeOK, IsDeques
  <1>8. Apart' /\ LiveArePlaced'
    BY <1>0, <1>2, <1>6 DEF Apart, LiveArePlaced
  <1>9. Counted'
    <2> SUFFICES ASSUME NEW u \in Tasks
                 PROVE  /\ fate'[u] = "new" => attempts'[u] = 0 /\ retries'[u] = 0
                        /\ In(queue', u) => attempts'[u] = retries'[u]
                        /\ Held(u)' => attempts'[u] = retries'[u] + 1
      BY DEF Counted
    <2>1. CASE u = t
      BY <2>1, <1>2, <1>6
    <2>2. CASE u # t
      BY <2>2, <1>0, <1>6 DEF Counted
    <2> QED BY <2>1, <2>2
  <1> QED BY <1>5, <1>7, <1>8, <1>9 DEF Inv

LEMMA ProcessDonePreserves ==
    ASSUME Inv, NEW w \in Workers, ProcessDone(w)
    PROVE  Inv'
  <1>0. TypeOK /\ IsDeques(queue)
    BY DEF Inv
  <1> DEFINE t == held[w]
  <1>1. /\ held[w] = t /\ t \in Tasks /\ held' = [held EXCEPT ![w] = None]
        /\ running' = running /\ attempts' = attempts /\ queue' = queue
        /\ retries' = retries /\ fate' = [fate EXCEPT ![t] = "done"]
        /\ retries \in [Tasks -> 0 .. MaxRetries]
        /\ fate \in [Tasks -> {"new", "live", "done", "refused", "dropped"}]
    BY <1>0 DEF TypeOK, ProcessDone
  <1> HIDE DEF t
  <1>2. /\ fate' \in [Tasks -> {"new", "live", "done", "refused", "dropped"}]
        /\ fate'[t] = "done" /\ \A u \in Tasks \ {t} : fate'[u] = fate[u]
        /\ retries' \in [Tasks -> 0 .. MaxRetries]
    BY <1>1
  <1>3. IsDeques(queue') /\ \A u \in Tasks : In(queue', u) <=> In(queue, u)
    BY <1>0, <1>1
  <1> QED BY <1>1, <1>2, <1>3, PuttingDownPreserves

LEMMA ProcessFailedPreserves ==
    ASSUME Inv, NEW w \in Workers, ProcessFailed(w)
    PROVE  Inv'
  <1>0. TypeOK /\ IsDeques(queue) /\ Apart
    BY DEF Inv
  <1> DEFINE t == held[w]
  <1>1. /\ held[w] = t /\ t \in Tasks /\ held' = [held EXCEPT ![w] = None]
        /\ running' = running /\ attempts' = attempts
        /\ retries \in [Tasks -> 0 .. MaxRetries]
        /\ fate \in [Tasks -> {"new", "live", "done", "refused", "dropped"}]
        /\ \/ /\ retries[t] < MaxRetries /\ retries' = [retries EXCEPT ![t] = @ + 1]
              /\ \/ /\ HasRoom(queue[w]) /\ queue' = [queue EXCEPT ![w] = Pushed(@, t)]
                    /\ fate' = fate
                 \/ queue' = queue /\ fate' = [fate EXCEPT ![t] = "dropped"]
           \/ retries' = retries /\ queue' = queue /\ fate' = [fate EXCEPT ![t] = "dropped"]
    BY <1>0 DEF TypeOK, ProcessFailed
  <1> HIDE DEF t
  <1>2. Held(t) /\ ~In(queue, t) /\ fate[t] = "live"
    BY <1>0, <1>1 DEF Held, Apart, Inv, LiveArePlaced
  <1>3. /\ retries' \in [Tasks -> 0 .. MaxRetries]
        /\ \A u \in Tasks \ {t} : retries'[u] = retries[u]
        /\ retries[t] < MaxRetries /\ retries' = [retries EXCEPT ![t] = @ + 1]
              => retries'[t] = retries[t] + 1
    BY <1>1, PoolAssumption
  <1>4. CASE /\ retries[t] < MaxRetries /\ retries' = [retries EXCEPT ![t] = @ + 1]
             /\ HasRoom(queue[w]) /\ queue' = [queue EXCEPT ![w] = Pushed(@, t)]
             /\ fate' = fate
    <2>1. IsDeques(queue') /\ \A u \in Tasks : In(queue', u) <=> In(queue, u) \/ u = t
      BY <1>0, <1>1, <1>2, <1>4, PushedDeques
    <2> QED BY <1>1, <1>2, <1>3, <1>4, <2>1, PuttingDownPreserves
  <1>5. CASE queue' = queue /\ fate' = [fate EXCEPT ![t] = "dropped"]
    <2>1. IsDeques(queue') /\ \A u \in Tasks : In(queue', u) <=> In(queue, u)
      BY <1>0, <1>5
    <2>2. /\ fate' \in [Tasks -> {"new", "live", "done", "refused", "dropped"}]
          /\ fate'[t] = "dropped" /\ \A u \in Tasks \ {t} : fate'[u] = fate[u]
      BY <1>1, <1>5
    <2> QED BY <1>1, <1>3, <2>1, <2>2, PuttingDownPreserves
  <1> QED BY <1>1, <1>4, <1>5

LEMMA StopPreserves ==
    ASSUME Inv, NEW w \in Workers, Stop(w)
    PROVE  Inv'
  <1>0. TypeOK /\ IsDeques(queue) /\ HeldOnce /\ Apart /\ LiveArePlaced /\ Counted
    BY DEF Inv
  <1>1. /\ running' = [running EXCEPT ![w] = FALSE]
        /\ queue' = queue /\ held' = held /\ retries' = retries
        /\ fate' = fate /\ attempts' = attempts
    BY DEF Stop
  <1>2. HeldOnce' /\ \A u : Held(u)' <=> Held(u)
    BY <1>0, <1>1, SameHands
  <1>3. TypeOK'
    BY <1>0, <1>1 DEF TypeOK
  <1>4. Apart' /\ LiveArePlaced' /\ Counted'
    BY <1>0, <1>1, <1>2 DEF Apart, LiveArePlaced, Counted
  <1> QED BY <1>0, <1>1, <1>2, <1>3, <1>4 DEF Inv

LEMMA RebalancePreserves ==
    ASSUME Inv, Rebalance
    PROVE  Inv'
  <1>0. TypeOK /\ IsDeques(queue) /\ HeldOnce /\ Apart /\ LiveArePlaced /\ Counted
    BY DEF Inv
  <1>1. /\ queue' = [w \in Workers |-> Dealt(Sorted(AllQueued), w)]
        /\ running' = running /\ held' = held /\ retries' = retries
        /\ fate' = fate /\ attempts' = attempts
    BY DEF Rebalance
  <1>2. HeldOnce' /\ \A u : Held(u)' <=> Held(u)
    BY <1>0, <1>1, SameHands
  <1>3. IsDeques(queue') /\ \A u \in Tasks : In(queue', u) <=> In(queue, u)
    BY <1>0, <1>1, RebalancedDeques
  <1>4. TypeOK'
    BY <1>0, <1>1, <1>3 DEF TypeOK, IsDeques
  <1>5. Apart' /\ LiveArePlaced' /\ Counted'
    BY <1>0, <1>1, <1>2, <1>3 DEF Apart, LiveArePlaced, Counted
  <1> QED BY <1>2, <1>3, <1>4, <1>5 DEF Inv

LEMMA Inductive == Inv /\ [Next]_vars => Inv'
  <1> SUFFICES ASSUME Inv, [Next]_vars PROVE Inv'
    OBVIOUS
  <1>1. ASSUME NEW t \in Tasks, SubmitTask(t) PROVE Inv'
    BY <1>1, SubmitTaskPreserves
  <1>2. ASSUME NEW batch \in Batches, SubmitBatch(batch) PROVE Inv'
    BY <1>2, SubmitBatchPreserves
  <1>3. ASSUME NEW w \in Workers, PopLocal(w) PROVE Inv'
    BY <1>3, PopLocalPreserves
  <1>4. ASSUME NEW w \in Workers, NEW v \in Workers, Steal(w, v) PROVE Inv'
    BY <1>4, StealTakes, TakingPreserves
  <1>5. ASSUME NEW w \in Workers, ProcessDone(w) PROVE Inv'
    BY <1>5, ProcessDonePreserves
  <1>6. ASSUME NEW w \in Workers, ProcessFailed(w) PROVE Inv'
    BY <1>6, ProcessFailedPreserves
  <1>7. ASSUME NEW w \in Workers, Stop(w) PROVE Inv'
    BY <1>7, StopPreserves
  <1>8. ASSUME Rebalance PROVE Inv'
    BY <1>8, RebalancePreserves
  <1>9. ASSUME UNCHANGED vars PROVE Inv'
    <2>1. /\ queue' = queue /\ held' = held /\ running' = running /\ retries' = retries
          /\ fate' = fate /\ attempts' = attempts
      BY <1>9 DEF vars
    <2>2. TypeOK' /\ IsDeques(queue') /\ HeldOnce'
      BY <2>1 DEF Inv, TypeOK, HeldOnce
    <2>3. Apart' /\ LiveArePlaced' /\ Counted'
      BY <2>1 DEF Inv, Apart, LiveArePlaced, Counted, Held
    <2> QED BY <2>2, <2>3 DEF Inv
  <1> QED BY <1>1, <1>2, <1>3, <1>4, <1>5, <1>6, <1>7, <1>8, <1>9 DEF Next, Submit, Step

LEMMA AlwaysInv == Spec => []Inv
  BY Initially, Inductive, PTL DEF Spec

\* The pool never leaves the states its type describes, whatever is submitted, stolen,
\* retried or rebalanced.
THEOREM PoolTypeCorrect == Spec => []TypeOK
  <1>1. Inv => TypeOK
    BY DEF Inv
  <1> QED BY <1>1, AlwaysInv, PTL

LEMMA InvPlaces == Inv => Placed
  <1> SUFFICES ASSUME Inv PROVE Placed
    OBVIOUS
  <1>0. TypeOK /\ IsDeques(queue) /\ HeldOnce /\ Apart /\ LiveArePlaced
    BY DEF Inv
  <1>1. WithinLimit
    BY <1>0 DEF IsDeques, WithinLimit
  <1>2. \A w, v \in Workers : \A i \in 1 .. Len(queue[w]), j \in 1 .. Len(queue[v]) :
            queue[w][i] = queue[v][j] => w = v /\ i = j
    BY <1>0 DEF IsDeques, Once
  <1>3. /\ \A p \in QueuePlaces : /\ p[1] \in Workers /\ p[2] \in 1 .. Len(queue[p[1]])
                                 /\ p = <<p[1], p[2]>>
        /\ \A w \in Workers : \A i \in 1 .. Len(queue[w]) : <<w, i>> \in QueuePlaces
    BY DEF QueuePlaces
  <1>4. ASSUME NEW t \in Tasks
        PROVE  Cardinality(Places(t)) = IF fate[t] = "live" THEN 1 ELSE 0
    <2> DEFINE Waiting == {p \in QueuePlaces : queue[p[1]][p[2]] = t}
               InHand == {<<w, 0>> : w \in {v \in Workers : held[v] = t}}
    <2>1. Places(t) = Waiting \cup InHand
      BY DEF Places
    <2>2. ~In(queue, t) => Waiting = {}
      BY <1>3 DEF In
    <2>3. ~Held(t) => InHand = {}
      BY DEF Held
    <2>4. CASE In(queue, t)
      <3>1. PICK w \in Workers : \E i \in 1 .. Len(queue[w]) : queue[w][i] = t
        BY <2>4 DEF In
      <3>2. PICK i \in 1 .. Len(queue[w]) : queue[w][i] = t
        BY <3>1
      <3>3. <<w, i>> \in Waiting
        BY <3>1, <3>2, <1>3
      <3>4. \A p \in Waiting : p = <<w, i>>
        BY <3>1, <3>2, <1>2, <1>3
      <3>5. Waiting = {<<w, i>>}
        BY <3>3, <3>4
      <3>6. ~Held(t) /\ fate[t] = "live"
        BY <2>4, <1>0 DEF Apart, LiveArePlaced
      <3> HIDE DEF Waiting, InHand
      <3>7. Places(t) = {<<w, i>>}
        BY <3>5, <3>6, <2>1, <2>3
      <3>8. Cardinality({<<w, i>>}) = 1
        BY FS_Singleton
      <3> QED BY <3>6, <3>7, <3>8
    <2>5. CASE Held(t)
      <3>1. PICK w \in Workers : held[w] = t
        BY <2>5 DEF Held
      <3>2. \A v \in Workers : held[v] = t => v = w
        BY <3>1, <1>0 DEF HeldOnce
      <3>3. InHand = {<<w, 0>>}
        BY <3>1, <3>2
      <3>4. ~In(queue, t) /\ fate[t] = "live"
        BY <2>5, <1>0 DEF Apart, LiveArePlaced
      <3> HIDE DEF Waiting, InHand
      <3>5. Places(t) = {<<w, 0>>}
        BY <3>3, <3>4, <2>1, <2>2
      <3>6. Cardinality({<<w, 0>>}) = 1
        BY FS_Singleton
      <3> QED BY <3>4, <3>5, <3>6
    <2>6. CASE ~In(queue, t) /\ ~Held(t)
      <3>1. Places(t) = {}
        BY <2>1, <2>2, <2>3, <2>6
      <3>2. fate[t] # "live"
        BY <2>6, <1>0 DEF LiveArePlaced
      <3>3. Cardinality({}) = 0
        BY FS_EmptySet
      <3> QED BY <3>1, <3>2, <3>3
    <2> QED BY <2>4, <2>5, <2>6
  <1>5. InOnePlace
    BY <1>4 DEF InOnePlace
  <1> QED BY <1>1, <1>5 DEF Placed

\* Neither stealing, retries, batches nor a rebalance in between duplicate or lose an
\* accepted task, and no deque outgrows its limit, though a steal and a rebalance extend
\* deques without looking at it.
THEOREM TasksArePlaced == Spec => []Placed
  BY InvPlaces, AlwaysInv, PTL

-------------------------------------------------------------------------------
(* The pool implements TaskPool: what each step is there.                        *)

PoolStep == [Abstract!PoolNext]_(Abstract!poolVars)

\* The life of a task as TaskPool sees it, before and after a step.
LEMMA StatusOfATask ==
    \A t \in Tasks :
        /\ Status[t] = IF fate[t] # "live" THEN fate[t]
                       ELSE IF Held(t) THEN "running" ELSE "queued"
        /\ Status'[t] = IF fate'[t] # "live" THEN fate'[t]
                        ELSE IF Held(t)' THEN "running" ELSE "queued"
  BY DEF Status

LEMMA StatusType == TypeOK' => Status' \in [Tasks -> Abstract!Statuses]
  <1> SUFFICES ASSUME TypeOK' PROVE Status' \in [Tasks -> Abstract!Statuses]
    OBVIOUS
  <1>1. \A t \in Tasks : fate'[t] \in {"new", "live", "done", "refused", "dropped"}
    BY DEF TypeOK
  <1>2. \A t \in Tasks : Status'[t] \in Abstract!Statuses
    BY <1>1, StatusOfATask DEF Abstract!Statuses
  <1>3. Status' = [t \in Tasks |-> Status'[t]]
    BY DEF Status
  <1> QED BY <1>2, <1>3

\* Accepted and refused tasks: a submission, alone or in a batch.
LEMMA SubmissionsAccept ==
    ASSUME Inv, Inv', held' = held, attempts' = attempts,
           \A t \in Tasks : \/ fate'[t] = fate[t]
                            \/ fate[t] = "new" /\ fate'[t] \in {"live", "refused"}
    PROVE  PoolStep
  <1>1. Status' \in [Tasks -> Abstract!Statuses]
    <2>1. TypeOK'
      BY DEF Inv
    <2> QED BY <2>1, StatusType
  <1>2. ASSUME NEW t \in Tasks
        PROVE  \/ Status'[t] = Status[t]
               \/ Status[t] = "new" /\ Status'[t] \in {"queued", "refused"}
    <2>1. Held(t)' <=> Held(t)
      BY SameHands
    <2>2. /\ Status[t] = IF fate[t] # "live" THEN fate[t]
                         ELSE IF Held(t) THEN "running" ELSE "queued"
          /\ Status'[t] = IF fate'[t] # "live" THEN fate'[t]
                          ELSE IF Held(t) THEN "running" ELSE "queued"
      BY <2>1, StatusOfATask
    <2>3. CASE fate'[t] = fate[t]
      BY <2>2, <2>3
    <2>4. CASE fate[t] = "new" /\ fate'[t] \in {"live", "refused"}
      <3>1. ~Held(t)
        BY <2>4 DEF Inv, LiveArePlaced
      <3> QED BY <2>2, <2>4, <3>1
    <2> QED BY <2>3, <2>4
  <1>3. Abstract!Accept
    BY <1>1, <1>2 DEF Abstract!Accept
  <1> QED BY <1>3 DEF PoolStep, Abstract!PoolNext

\* Taking a waiting task is Begin.
LEMMA TakingBegins ==
    ASSUME Inv, Inv', NEW w \in Workers, Idle(w), NEW t \in Tasks, In(queue, t), Take(w, t),
           fate' = fate
    PROVE  PoolStep
  <1>0. TypeOK /\ Apart /\ LiveArePlaced /\ Counted
    BY DEF Inv
  <1>1. /\ held \in [Workers -> Tasks \cup {None}] /\ held[w] = None
        /\ held' = [held EXCEPT ![w] = t] /\ attempts' = [attempts EXCEPT ![t] = @ + 1]
        /\ retries \in [Tasks -> 0 .. MaxRetries]
    BY <1>0 DEF TypeOK, Idle, Take
  <1>2. ~Held(t) /\ fate[t] = "live" /\ attempts[t] = retries[t]
    BY <1>0 DEF Apart, LiveArePlaced, Counted
  <1>3. ASSUME NEW u \in Tasks, u # t PROVE Held(u)' <=> Held(u)
    <2>1. u # None
      BY PoolAssumption
    <2>2. \A v \in Workers : held'[v] = u <=> held[v] = u
      BY <2>1, <1>1, <1>3
    <2> QED BY <2>2 DEF Held
  <1>4. Held(t)'
    BY <1>1 DEF Held
  <1>5. Status[t] = "queued"
    BY <1>2, StatusOfATask
  <1>6. attempts[t] <= MaxRetries
    BY <1>1, <1>2, PoolAssumption
  <1>7. Status' = [Status EXCEPT ![t] = "running"]
    <2>1. Status'[t] = "running"
      BY <1>2, <1>4, StatusOfATask
    <2>2. \A u \in Tasks \ {t} : Status'[u] = Status[u]
      BY <1>3, StatusOfATask
    <2>3. Status' = [u \in Tasks |-> Status'[u]] /\ Status = [u \in Tasks |-> Status[u]]
      BY DEF Status
    <2> QED BY <2>1, <2>2, <2>3
  <1>8. Abstract!Begin(t)
    BY <1>1, <1>5, <1>6, <1>7 DEF Abstract!Begin
  <1> QED BY <1>8 DEF PoolStep, Abstract!PoolNext

\* Putting a task down is Complete, Retry or GiveUp.
LEMMA PuttingDownEnds ==
    ASSUME Inv, Inv', NEW w \in Workers, NEW t \in Tasks, held[w] = t,
           held' = [held EXCEPT ![w] = None], attempts' = attempts,
           \A u \in Tasks \ {t} : fate'[u] = fate[u],
           \/ fate'[t] = "done" \/ fate'[t] = "dropped"
           \/ fate'[t] = "live" /\ retries[t] < MaxRetries
    PROVE  PoolStep
  <1>0. TypeOK /\ HeldOnce /\ LiveArePlaced /\ Counted
    BY DEF Inv
  <1>1. held \in [Workers -> Tasks \cup {None}] /\ retries \in [Tasks -> 0 .. MaxRetries]
    BY <1>0 DEF TypeOK
  <1>2. Held(t) /\ fate[t] = "live" /\ attempts[t] = retries[t] + 1
    BY <1>0 DEF Held, LiveArePlaced, Counted
  <1>3. \A v \in Workers : held'[v] = IF v = w THEN None ELSE held[v]
    BY <1>1
  <1>4. ~Held(t)'
    <2>1. \A v \in Workers : held[v] = t => v = w
      BY <1>0 DEF HeldOnce
    <2>2. \A v \in Workers : held'[v] # t
      BY <2>1, <1>3, PoolAssumption
    <2> QED BY <2>2 DEF Held
  <1>5. ASSUME NEW u \in Tasks, u # t PROVE Held(u)' <=> Held(u)
    <2>1. \A v \in Workers : held'[v] = u <=> held[v] = u
      BY <1>3, <1>5, PoolAssumption
    <2> QED BY <2>1 DEF Held
  <1>6. Status[t] = "running"
    BY <1>2, StatusOfATask
  <1>7. /\ Status'[t] = IF fate'[t] # "live" THEN fate'[t] ELSE "queued"
        /\ \A u \in Tasks \ {t} : Status'[u] = Status[u]
    BY <1>4, <1>5, StatusOfATask
  <1>8. \A s : Status'[t] = s => Status' = [Status EXCEPT ![t] = s]
    <2>1. Status' = [u \in Tasks |-> Status'[u]] /\ Status = [u \in Tasks |-> Status[u]]
      BY DEF Status
    <2> QED BY <2>1, <1>7
  <1>9. CASE fate'[t] = "done"
    <2>1. Abstract!Complete(t)
      BY <1>6, <1>7, <1>8, <1>9 DEF Abstract!Complete
    <2> QED BY <2>1 DEF PoolStep, Abstract!PoolNext
  <1>10. CASE fate'[t] = "dropped"
    <2>1. Abstract!GiveUp(t)
      BY <1>6, <1>7, <1>8, <1>10 DEF Abstract!GiveUp
    <2> QED BY <2>1 DEF PoolStep, Abstract!PoolNext
  <1>11. CASE fate'[t] = "live" /\ retries[t] < MaxRetries
    <2>1. attempts[t] <= MaxRetries
      BY <1>1, <1>2, <1>11, PoolAssumption
    <2>2. Abstract!Retry(t)
      BY <2>1, <1>6, <1>7, <1>8, <1>11 DEF Abstract!Retry
    <2> QED BY <2>2 DEF PoolStep, Abstract!PoolNext
  <1> QED BY <1>9, <1>10, <1>11

LEMMA HidingSteps ==
    held' = held /\ fate' = fate /\ attempts' = attempts => PoolStep
  <1> SUFFICES ASSUME held' = held, fate' = fate, attempts' = attempts
               PROVE  UNCHANGED <<Status, attempts>>
    BY DEF PoolStep, Abstract!poolVars
  <1>1. \A t \in Tasks : Held(t)' <=> Held(t)
    BY SameHands
  <1>2. \A t \in Tasks : Status'[t] = Status[t]
    BY <1>1, StatusOfATask
  <1>3. Status' = [t \in Tasks |-> Status'[t]] /\ Status = [t \in Tasks |-> Status[t]]
    BY DEF Status
  <1> QED BY <1>2, <1>3

LEMMA InitImplements == Init => Abstract!PoolInit
  <1> SUFFICES ASSUME Init PROVE Abstract!PoolInit
    OBVIOUS
  <1>1. \A t \in Tasks : fate[t] = "new"
    BY DEF Init
  <1>2. \A t \in Tasks : Status[t] = "new"
    BY <1>1, StatusOfATask
  <1>3. Status = [t \in Tasks |-> Status[t]]
    BY DEF Status
  <1>4. Status = [t \in Tasks |-> "new"]
    BY <1>2, <1>3
  <1> QED BY <1>4 DEF Init, Abstract!PoolInit

LEMMA StepImplements == Inv /\ Inv' /\ [Next]_vars => PoolStep
  <1> SUFFICES ASSUME Inv, Inv', [Next]_vars PROVE PoolStep
    OBVIOUS
  <1>0. /\ IsDeques(queue) /\ LiveArePlaced
        /\ held \in [Workers -> Tasks \cup {None}]
        /\ retries \in [Tasks -> 0 .. MaxRetries]
        /\ fate \in [Tasks -> {"new", "live", "done", "refused", "dropped"}]
    BY DEF Inv, TypeOK
  <1>1. ASSUME NEW t \in Tasks, SubmitTask(t) PROVE PoolStep
    <2>1. held' = held /\ attempts' = attempts
      BY <1>1 DEF SubmitTask
    <2>2. /\ fate[t] = "new"
          /\ fate' = [fate EXCEPT ![t] = "live"] \/ fate' = [fate EXCEPT ![t] = "refused"]
      BY <1>1 DEF SubmitTask
    <2>3. \A u \in Tasks : \/ fate'[u] = fate[u]
                           \/ fate[u] = "new" /\ fate'[u] \in {"live", "refused"}
      BY <2>2, <1>0
    <2> QED BY <2>1, <2>3, SubmissionsAccept
  <1>2. ASSUME NEW batch \in Batches, SubmitBatch(batch) PROVE PoolStep
    <2> DEFINE pushed == UNION {ToSet(Fitting(batch, w)) : w \in Workers}
    <2>1. /\ held' = held /\ attempts' = attempts
          /\ \A i \in DOMAIN batch : fate[batch[i]] = "new"
          /\ fate' = [u \in Tasks |-> IF u \in pushed THEN "live"
                                      ELSE IF u \in ToSet(batch) THEN "refused" ELSE fate[u]]
      BY <1>2 DEF SubmitBatch
    <2>2. \A i \in DOMAIN batch : batch[i] \in Tasks
      BY DEF Batches
    <2>3. \A i \in DOMAIN batch : ~In(queue, batch[i])
      BY <2>1, <2>2, <1>0 DEF LiveArePlaced
    <2>4. pushed \subseteq ToSet(batch)
      BY <2>3, <1>0, BatchDeques
    <2>5. \A u \in ToSet(batch) : fate[u] = "new"
      BY <2>1 DEF ToSet
    <2> HIDE DEF pushed
    <2>6. \A u \in Tasks : \/ fate'[u] = fate[u]
                           \/ fate[u] = "new" /\ fate'[u] \in {"live", "refused"}
      BY <2>1, <2>4, <2>5
    <2> QED BY <2>1, <2>6, SubmissionsAccept
  <1>3. ASSUME NEW w \in Workers, PopLocal(w) PROVE PoolStep
    <2>1. Idle(w) /\ Take(w, Head(queue[w])) /\ fate' = fate
      BY <1>3 DEF PopLocal
    <2>2. Head(queue[w]) \in Tasks /\ In(queue, Head(queue[w]))
      BY <1>3, PopLocalPreserves
    <2> QED BY <2>1, <2>2, TakingBegins
  <1>4. ASSUME NEW w \in Workers, NEW v \in Workers, Steal(w, v) PROVE PoolStep
    BY <1>4, StealTakes, TakingBegins
  <1>5. ASSUME NEW w \in Workers, ProcessDone(w) PROVE PoolStep
    <2> DEFINE t == held[w]
    <2>1. /\ held[w] = t /\ t \in Tasks /\ held' = [held EXCEPT ![w] = None]
          /\ attempts' = attempts /\ fate' = [fate EXCEPT ![t] = "done"]
      BY <1>0, <1>5 DEF ProcessDone
    <2> HIDE DEF t
    <2>2. fate'[t] = "done" /\ \A u \in Tasks \ {t} : fate'[u] = fate[u]
      BY <2>1, <1>0
    <2> QED BY <2>1, <2>2, PuttingDownEnds
  <1>6. ASSUME NEW w \in Workers, ProcessFailed(w) PROVE PoolStep
    <2> DEFINE t == held[w]
    <2>1. /\ held[w] = t /\ t \in Tasks /\ held' = [held EXCEPT ![w] = None]
          /\ attempts' = attempts
          /\ \/ retries[t] < MaxRetries /\ fate' = fate
             \/ fate' = [fate EXCEPT ![t] = "dropped"]
      BY <1>0, <1>6 DEF ProcessFailed
    <2> HIDE DEF t
    <2>2. fate[t] = "live"
      BY <2>1, <1>0 DEF LiveArePlaced, Held
    <2>3. /\ \A u \in Tasks \ {t} : fate'[u] = fate[u]
          /\ fate'[t] = "dropped" \/ (fate'[t] = "live" /\ retries[t] < MaxRetries)
      BY <2>1, <2>2, <1>0
    <2> QED BY <2>1, <2>3, PuttingDownEnds
  <1>7. ASSUME NEW w \in Workers, Stop(w) PROVE PoolStep
    BY <1>7, HidingSteps DEF Stop
  <1>8. ASSUME Rebalance PROVE PoolStep
    BY <1>8, HidingSteps DEF Rebalance
  <1>9. ASSUME UNCHANGED vars PROVE PoolStep
    BY <1>9, HidingSteps DEF vars
  <1> QED BY <1>1, <1>2, <1>3, <1>4, <1>5, <1>6, <1>7, <1>8, <1>9 DEF Next, Submit, Step

\* The pool is a TaskPool: whatever moves between the deques, a task is accepted once,
\* started at most MaxRetries + 1 times, and retried or given up only by the worker
\* that holds it.
THEOREM PoolImplementsTaskPool == Spec => ImplementsTaskPool
  <1>1. Init => Abstract!PoolInit
    BY InitImplements
  <1>2. Inv /\ Inv' /\ [Next]_vars => [Abstract!PoolNext]_(Abstract!poolVars)
    BY StepImplements DEF PoolStep
  <1> QED BY <1>1, <1>2, AlwaysInv, PTL DEF Spec, ImplementsTaskPool, Abstract!PoolSpec

-------------------------------------------------------------------------------
(* The assignment of symbols to worker processes.                                *)

LEMMA AffinityInitially == AffinityInit => AffinityTypeOK
  <1>1. Cardinality(Symbols) \in Nat
    BY AffinityAssumption, FS_CardinalityType DEF AffinityAssumption
  <1> QED BY <1>1 DEF AffinityInit, AffinityTypeOK, Phases

LEMMA AnswerIs ==
    ASSUME AffinityTypeOK, NEW w \in Processes, NEW v, Answer(w, v)
    PROVE  /\ phase' \in [Processes -> Phases] /\ symbol' = symbol /\ todo' = todo
           /\ named' \in [Processes -> Processes \cup {Nobody}]
  BY DEF Answer, Goto, AffinityTypeOK, Phases

LEMMA AffinityStep == AffinityTypeOK /\ [AffinityNext]_affinityVars => AffinityTypeOK'
  <1> SUFFICES ASSUME AffinityTypeOK, [AffinityNext]_affinityVars PROVE AffinityTypeOK'
    OBVIOUS
  <1>1. Cardinality(Symbols) \in Nat
    BY AffinityAssumption, FS_CardinalityType DEF AffinityAssumption
  <1>2. \A w \in Processes : Cardinality(claimed[w]) \in 0 .. Cardinality(Symbols)
    <2> SUFFICES ASSUME NEW w \in Processes
                 PROVE  Cardinality(claimed[w]) \in 0 .. Cardinality(Symbols)
      OBVIOUS
    <2>1. claimed[w] \in SUBSET Symbols /\ IsFiniteSet(Symbols)
      BY AffinityAssumption DEF AffinityTypeOK, AffinityAssumption
    <2>2. IsFiniteSet(claimed[w]) /\ Cardinality(claimed[w]) <= Cardinality(Symbols)
      BY <2>1, FS_Subset
    <2> QED BY <1>1, <2>2, FS_CardinalityType
  <1>3. ASSUME NEW w \in Processes,
               \/ Start(w) \/ Heartbeat(w) \/ BeatExpires(w) \/ Crash(w)
               \/ CleanupBegin(w) \/ CleanupReads(w) \/ CleanupDelete(w) \/ CleanupEnd(w)
        PROVE  AffinityTypeOK'
    <2>1. CASE Start(w)
      BY <1>1, <2>1 DEF Start, AffinityTypeOK, Goto, Phases
    <2>2. CASE Heartbeat(w)
      <3>1. beat' \in [Processes -> {NoBeat} \cup 0 .. Cardinality(Symbols)]
        BY <1>2, <2>2 DEF Heartbeat, AffinityTypeOK
      <3> QED BY <2>2, <3>1 DEF Heartbeat, AffinityTypeOK, process, request
    <2>3. CASE BeatExpires(w)
      BY <2>3 DEF BeatExpires, AffinityTypeOK, process, request
    <2>4. CASE Crash(w)
      BY <2>4 DEF Crash, AffinityTypeOK, Goto, Phases, redis
    <2>5. CASE CleanupBegin(w)
      BY <2>5 DEF CleanupBegin, AffinityTypeOK, Goto, Phases, process
    <2>6. CASE CleanupDelete(w)
      BY <2>6 DEF CleanupDelete, AffinityTypeOK, Goto, Phases, process
    <2>7. CASE CleanupEnd(w)
      BY <2>7 DEF CleanupEnd, AffinityTypeOK, Goto, Phases
    <2>8. CASE CleanupReads(w)
      BY <2>8 DEF CleanupReads, AffinityTypeOK, Goto, Phases, redis, process
    <2> QED BY <1>3, <2>1, <2>2, <2>3, <2>4, <2>5, <2>6, <2>7, <2>8
  <1>4. ASSUME NEW w \in Processes, NEW s \in Symbols, Ask(w, s) \/ AskFails(w, s)
        PROVE  AffinityTypeOK'
    <2>1. /\ assignment[s] \in Processes \cup {Nobody}
          /\ {"choose", "check"} \subseteq Phases
      BY DEF AffinityTypeOK, Phases
    <2> QED BY <1>4, <2>1 DEF Ask, AskFails, Goto, AffinityTypeOK, redis, process
  <1>5. ASSUME NEW w \in Processes, CheckHealthy(w) \/ Choose(w) \/ HealthFails(w)
        PROVE  AffinityTypeOK'
    <2>1. /\ {"choose", "claim", "set"} \subseteq Phases
          /\ Healthy \subseteq Processes
      BY DEF Phases, Healthy, AffinityTypeOK
    <2>2. UNCHANGED <<redis, process>>
      BY <1>5 DEF CheckHealthy, Choose, HealthFails
    <2>3. /\ phase' \in [Processes -> Phases] /\ symbol' = symbol /\ todo' = todo
          /\ named' \in [Processes -> Processes \cup {Nobody}]
      BY <1>5, <2>1, AnswerIs DEF CheckHealthy, Choose, HealthFails, Goto, AffinityTypeOK
    <2> QED BY <2>2, <2>3 DEF AffinityTypeOK, redis, process
  <1>6. ASSUME NEW w \in Processes, SetAssignment(w) \/ SetFails(w) \/ Claim(w) \/ Finish(w)
        PROVE  AffinityTypeOK'
    <2>1. {"claim", "idle"} \subseteq Phases
      BY DEF Phases
    <2>2. /\ phase' \in [Processes -> Phases] /\ symbol' = symbol /\ todo' = todo
          /\ named' \in [Processes -> Processes \cup {Nobody}]
      BY <1>6, <2>1, AnswerIs DEF SetAssignment, SetFails, Claim, Finish, Assigned, Goto, AffinityTypeOK
    <2>3. /\ assignment' \in [Symbols -> Processes \cup {Nobody}]
          /\ symbols' \in [Processes -> SUBSET Symbols]
          /\ claimed' \in [Processes -> SUBSET Symbols]
          /\ UNCHANGED <<registry, beat, consumed>>
      BY <1>6 DEF SetAssignment, SetFails, Claim, Finish, AffinityTypeOK, redis, process
    <2> QED BY <2>2, <2>3 DEF AffinityTypeOK
  <1>7. ASSUME NEW w \in Processes, NEW s \in Symbols, CleanupCheck(w, s)
        PROVE  AffinityTypeOK'
    <2>1. {"delete", "release"} \subseteq Phases
      BY DEF Phases
    <2> QED BY <1>7, <2>1 DEF CleanupCheck, Goto, AffinityTypeOK, redis, process
  <1>8. ASSUME NEW s \in Symbols, AssignmentExpires(s)
        PROVE  AffinityTypeOK'
    BY <1>8 DEF AssignmentExpires, AffinityTypeOK, process, request
  <1>9. CASE UNCHANGED affinityVars
    BY <1>9 DEF AffinityTypeOK, affinityVars, redis, process, request
  <1> QED BY <1>3, <1>4, <1>5, <1>6, <1>7, <1>8, <1>9
          DEF AffinityNext, Serve, Stopping, Failure

\* The stream consumer reads no shard, whatever its worker claims: it computes its shards
\* when the worker starts, which has no symbol then, and starts no task afterwards.
NothingIsRead == \A w \in Processes : consumed[w] = {}

\* What the others read in Redis of a worker that is up is its own: it reports no more
\* symbols than it holds now, and a cleanup releases none it never held.
ReportsAreOwn ==
    \A w \in Processes : Running(w) =>
        /\ beat[w] <= Cardinality(claimed[w])
        /\ todo[w] \subseteq symbols[w] /\ symbols[w] \subseteq claimed[w]

\* A worker that has not started, or that cleans up, is not registered: no request that
\* reads the registry from now on chooses it.
LeaversAreUnlisted ==
    \A w \in Processes : phase[w] \in {"new", "leave", "release", "delete"} => w \notin registry

NewHoldsNothing ==
    \A w \in Processes : phase[w] = "new" => claimed[w] = {} /\ symbols[w] = {} /\ todo[w] = {}

AffinityInv ==
    /\ AffinityTypeOK /\ NothingIsRead /\ ReportsAreOwn /\ LeaversAreUnlisted
    /\ NewHoldsNothing

\* More symbols are counted as more.
LEMMA MoreIsCounted ==
    ASSUME NEW S \in SUBSET Symbols, NEW T \in SUBSET S
    PROVE  Cardinality(T) \in Nat /\ Cardinality(S) \in Nat /\ Cardinality(T) <= Cardinality(S)
  <1>1. IsFiniteSet(S)
    BY AffinityAssumption, FS_Subset DEF AffinityAssumption
  <1> QED BY <1>1, FS_Subset, FS_CardinalityType

\* A step that leaves the registry, the heartbeats and the claims alone, and starts,
\* stops and cleans up nothing.
LEMMA RequestKeeps ==
    ASSUME AffinityInv, AffinityTypeOK', NEW w \in Processes, Running(w), Running(w)',
           phase'[w] \notin {"leave", "release", "delete"},
           \A v \in Processes \ {w} : phase'[v] = phase[v],
           UNCHANGED <<registry, beat, symbols, claimed, consumed, todo>>
    PROVE  AffinityInv'
  <1>1. \A v \in Processes : Running(v)' <=> Running(v)
    BY DEF Running
  <1>2. \A v \in Processes : phase'[v] = "new" => phase[v] = "new"
    BY DEF Running
  <1> QED BY <1>1, <1>2 DEF AffinityInv, NothingIsRead, ReportsAreOwn, LeaversAreUnlisted,
                            NewHoldsNothing

LEMMA PhaseIs ==
    ASSUME AffinityTypeOK, NEW w \in Processes, NEW p, Goto(w, p)
    PROVE  phase'[w] = p /\ \A v \in Processes \ {w} : phase'[v] = phase[v]
  BY DEF Goto, AffinityTypeOK

LEMMA AffinityInvInit == AffinityInit => AffinityInv
  BY AffinityInitially DEF AffinityInit, AffinityInv, NothingIsRead, ReportsAreOwn,
     LeaversAreUnlisted, NewHoldsNothing, Running

LEMMA AffinityInvStep == AffinityInv /\ [AffinityNext]_affinityVars => AffinityInv'
  <1> SUFFICES ASSUME AffinityInv, [AffinityNext]_affinityVars PROVE AffinityInv'
    OBVIOUS
  <1>1. AffinityTypeOK /\ AffinityTypeOK'
    BY AffinityStep DEF AffinityInv
  <1>2. /\ NothingIsRead /\ ReportsAreOwn /\ LeaversAreUnlisted /\ NewHoldsNothing
    BY DEF AffinityInv
  <1>3. \A w \in Processes : Cardinality(claimed[w]) \in Nat
    BY <1>1, MoreIsCounted DEF AffinityTypeOK
  <1>4. ASSUME NEW w \in Processes, Start(w) PROVE AffinityInv'
    <2>1. /\ phase[w] = "new" /\ phase'[w] = "idle"
          /\ \A v \in Processes \ {w} : phase'[v] = phase[v]
      BY <1>1, <1>4, PhaseIs DEF Start
    <2>2. /\ \A v \in Processes : consumed'[v] = IF v = w THEN claimed[v] ELSE consumed[v]
          /\ \A v \in Processes : beat'[v] = IF v = w THEN 0 ELSE beat[v]
          /\ registry' = registry \cup {w}
          /\ UNCHANGED <<symbols, claimed, todo>>
      BY <1>1, <1>4 DEF Start, AffinityTypeOK
    <2>3. claimed[w] = {} /\ symbols[w] = {} /\ todo[w] = {}
      BY <1>2, <2>1 DEF NewHoldsNothing
    <2>4. NothingIsRead'
      BY <1>2, <2>2, <2>3 DEF NothingIsRead
    <2>5. ReportsAreOwn'
      BY <1>2, <1>3, <2>1, <2>2, <2>3 DEF ReportsAreOwn, Running
    <2>6. LeaversAreUnlisted' /\ NewHoldsNothing'
      BY <1>2, <2>1, <2>2 DEF LeaversAreUnlisted, NewHoldsNothing
    <2> QED BY <1>1, <2>4, <2>5, <2>6 DEF AffinityInv
  <1>5. ASSUME NEW w \in Processes, Heartbeat(w) \/ BeatExpires(w) PROVE AffinityInv'
    <2>1. /\ \A v \in Processes : beat'[v] \in {beat[v], Cardinality(claimed[v]), NoBeat}
          /\ UNCHANGED <<registry, symbols, claimed, consumed, todo, phase>>
      BY <1>1, <1>5 DEF Heartbeat, BeatExpires, AffinityTypeOK, process, request
    <2>2. ReportsAreOwn'
      BY <1>2, <1>3, <2>1 DEF ReportsAreOwn, Running, NoBeat
    <2> QED BY <1>1, <1>2, <2>1, <2>2 DEF AffinityInv, NothingIsRead, LeaversAreUnlisted,
                                          NewHoldsNothing
  <1>6. ASSUME NEW w \in Processes, Crash(w) \/ CleanupEnd(w) PROVE AffinityInv'
    <2>1. phase'[w] = "gone" /\ \A v \in Processes \ {w} : phase'[v] = phase[v]
      BY <1>1, <1>6, PhaseIs DEF Crash, CleanupEnd
    <2>2. /\ \A v \in Processes \ {w} :
                /\ beat'[v] = beat[v] /\ claimed'[v] = claimed[v] /\ consumed'[v] = consumed[v]
                /\ symbols'[v] = symbols[v] /\ todo'[v] = todo[v]
          /\ consumed'[w] = {} /\ registry' = registry
      BY <1>1, <1>6 DEF Crash, CleanupEnd, AffinityTypeOK, redis
    <2>3. ReportsAreOwn'
      BY <1>2, <2>1, <2>2 DEF ReportsAreOwn, Running
    <2> QED BY <1>1, <1>2, <2>1, <2>2, <2>3 DEF AffinityInv, NothingIsRead,
                                                LeaversAreUnlisted, NewHoldsNothing
  <1>7. ASSUME NEW w \in Processes, CleanupBegin(w) \/ CleanupReads(w) PROVE AffinityInv'
    <2>1. /\ \/ phase[w] = "idle" /\ phase'[w] = "leave" /\ registry' = registry \ {w}
             \/ phase[w] = "leave" /\ phase'[w] = "release" /\ registry' = registry
          /\ \A v \in Processes \ {w} : phase'[v] = phase[v]
      BY <1>1, <1>7, PhaseIs DEF CleanupBegin, CleanupReads, redis
    <2>2. /\ \A v \in Processes : todo'[v] \in {todo[v], symbols[v]}
          /\ \A v \in Processes \ {w} : todo'[v] = todo[v]
          /\ UNCHANGED <<beat, symbols, claimed, consumed>>
      BY <1>1, <1>7 DEF CleanupBegin, CleanupReads, AffinityTypeOK, process, redis
    <2>3. ReportsAreOwn'
      BY <1>2, <2>1, <2>2 DEF ReportsAreOwn, Running
    <2> QED BY <1>1, <1>2, <2>1, <2>2, <2>3 DEF AffinityInv, NothingIsRead,
                                                LeaversAreUnlisted, NewHoldsNothing
  <1>8. ASSUME NEW w \in Processes, NEW s \in Symbols, CleanupCheck(w, s) \/ CleanupDelete(w)
        PROVE  AffinityInv'
    <2>1. /\ phase[w] \in {"release", "delete"} /\ phase'[w] \in {"release", "delete"}
          /\ \A v \in Processes \ {w} : phase'[v] = phase[v]
      BY <1>1, <1>8, PhaseIs DEF CleanupCheck, CleanupDelete
    <2>2. /\ \A v \in Processes : todo'[v] \subseteq todo[v]
          /\ UNCHANGED <<registry, beat, symbols, claimed, consumed>>
      BY <1>1, <1>8 DEF CleanupCheck, CleanupDelete, AffinityTypeOK, process, redis
    <2>3. ReportsAreOwn'
      BY <1>2, <2>1, <2>2 DEF ReportsAreOwn, Running
    <2> QED BY <1>1, <1>2, <2>1, <2>2, <2>3 DEF AffinityInv, NothingIsRead,
                                                LeaversAreUnlisted, NewHoldsNothing
  <1>9. ASSUME NEW w \in Processes, Claim(w) PROVE AffinityInv'
    <2>1. /\ phase[w] = "claim" /\ phase'[w] = "computing"
          /\ \A v \in Processes \ {w} : phase'[v] = phase[v]
      BY <1>1, <1>9, PhaseIs DEF Claim, Answer
    <2>2. /\ \A v \in Processes : claimed'[v] =
                    IF v = w THEN claimed[v] \cup {symbol[v]} ELSE claimed[v]
          /\ \A v \in Processes : symbols'[v] \in {symbols[v], symbols[v] \cup {symbol[w]}}
          /\ \A v \in Processes \ {w} : symbols'[v] = symbols[v]
          /\ UNCHANGED <<registry, beat, consumed, todo>>
      BY <1>1, <1>9 DEF Claim, Answer, AffinityTypeOK
    <2>3. ASSUME NEW v \in Processes, Running(v)'
          PROVE  /\ beat'[v] <= Cardinality(claimed'[v])
                 /\ todo'[v] \subseteq symbols'[v] /\ symbols'[v] \subseteq claimed'[v]
      <3>1. Running(v)
        BY <2>1, <2>3 DEF Running
      <3>2. /\ beat[v] <= Cardinality(claimed[v])
            /\ todo[v] \subseteq symbols[v] /\ symbols[v] \subseteq claimed[v]
        BY <1>2, <3>1 DEF ReportsAreOwn
      <3>3. claimed'[v] \in SUBSET Symbols /\ claimed[v] \in SUBSET claimed'[v]
        BY <1>1, <2>2 DEF AffinityTypeOK
      <3>4. Cardinality(claimed[v]) <= Cardinality(claimed'[v])
            /\ Cardinality(claimed[v]) \in Nat /\ Cardinality(claimed'[v]) \in Nat
        BY <3>3, MoreIsCounted
      <3>5. beat[v] \in Int /\ beat'[v] = beat[v]
        <4>1. beat[v] \in {NoBeat} \cup 0 .. Cardinality(Symbols)
          BY <1>1 DEF AffinityTypeOK
        <4> QED BY <2>2, <4>1 DEF NoBeat
      <3>6. todo'[v] \subseteq symbols'[v] /\ symbols'[v] \subseteq claimed'[v]
        BY <2>2, <3>2
      <3> QED BY <3>2, <3>4, <3>5, <3>6
    <2>4. ReportsAreOwn'
      BY <2>3 DEF ReportsAreOwn
    <2> QED BY <1>1, <1>2, <2>1, <2>2, <2>4 DEF AffinityInv, NothingIsRead,
                                                LeaversAreUnlisted, NewHoldsNothing
  <1>10. ASSUME NEW w \in Processes, NEW s \in Symbols,
                \/ Ask(w, s) \/ AskFails(w, s) \/ CheckHealthy(w) \/ Choose(w)
                \/ HealthFails(w) \/ SetAssignment(w) \/ SetFails(w) \/ Finish(w)
         PROVE  AffinityInv'
    <2>1. \E p \in {"choose", "check", "claim", "set", "idle", "computing"} : Goto(w, p)
      BY <1>10 DEF Ask, AskFails, CheckHealthy, Choose, HealthFails, SetAssignment, SetFails,
                   Finish, Assigned, Answer
    <2>2. phase[w] \in {"idle", "check", "choose", "set", "computing"}
      BY <1>10 DEF Ask, AskFails, CheckHealthy, Choose, HealthFails, SetAssignment, SetFails,
                   Finish
    <2>3. UNCHANGED <<registry, beat, symbols, claimed, consumed, todo>>
      BY <1>10 DEF Ask, AskFails, CheckHealthy, Choose, HealthFails, SetAssignment, SetFails,
                   Finish, Assigned, Answer, redis, process
    <2>4. /\ phase'[w] \in {"choose", "check", "claim", "set", "idle", "computing"}
          /\ \A v \in Processes \ {w} : phase'[v] = phase[v]
      BY <1>1, <2>1, PhaseIs
    <2>5. Running(w) /\ Running(w)'
      BY <2>2, <2>4 DEF Running
    <2> QED BY <1>1, <2>2, <2>3, <2>4, <2>5, RequestKeeps
  <1>11. ASSUME NEW s \in Symbols, AssignmentExpires(s) PROVE AffinityInv'
    BY <1>1, <1>2, <1>11 DEF AssignmentExpires, process, request, AffinityInv, NothingIsRead,
       ReportsAreOwn, Running, LeaversAreUnlisted, NewHoldsNothing
  <1>12. CASE UNCHANGED affinityVars
    BY <1>1, <1>2, <1>12 DEF affinityVars, redis, process, request, AffinityInv, NothingIsRead,
       ReportsAreOwn, Running, LeaversAreUnlisted, NewHoldsNothing
  <1>13. ASSUME NEW w \in Processes,
                \/ Start(w) \/ Serve(w) \/ Heartbeat(w) \/ BeatExpires(w)
                \/ Failure(w)
                \/ \E s \in Symbols : Ask(w, s)
                \/ Crash(w) \/ CleanupBegin(w) \/ Stopping(w)
         PROVE  AffinityInv'
    <2>1. symbol[w] \in Symbols
      BY <1>1 DEF AffinityTypeOK
    <2> QED BY <1>4, <1>5, <1>6, <1>7, <1>8, <1>9, <1>10, <1>13, <2>1
            DEF Serve, Stopping, Failure
  <1> QED BY <1>11, <1>12, <1>13 DEF AffinityNext

\* For any processes and symbols, whichever calls fail and keys expire: the keys keep
\* their types, the reports of a worker are its own, who leaves is not chosen any more,
\* and the shard of a claimed symbol is never read.
THEOREM WorkersReportTheirOwn ==
    AffinitySpec => [](AffinityTypeOK /\ NothingIsRead /\ ReportsAreOwn /\ LeaversAreUnlisted)
  <1>1. AffinityInv => AffinityTypeOK /\ NothingIsRead /\ ReportsAreOwn /\ LeaversAreUnlisted
    BY DEF AffinityInv
  <1> QED BY <1>1, AffinityInvInit, AffinityInvStep, PTL DEF AffinitySpec

-------------------------------------------------------------------------------
(* The pool and the processes together.                                          *)

\* Beside the other part of the run each keeps what it was shown to keep alone.
THEOREM BothPartsHold ==
    PartsSpec =>
        /\ [](TypeOK /\ Placed) /\ ImplementsTaskPool
        /\ [](AffinityTypeOK /\ NothingIsRead /\ ReportsAreOwn /\ LeaversAreUnlisted)
  <1>1. PartsInit => Init /\ AffinityInit
    BY DEF PartsInit
  <1>2. [PartsNext]_<<part, vars, affinityVars>> =>
            [Next]_vars /\ [AffinityNext]_affinityVars
    BY DEF PartsNext, BesidePool, BesideAffinity
  <1>3. Spec => []TypeOK /\ []Placed /\ ImplementsTaskPool
    BY PoolTypeCorrect, TasksArePlaced, PoolImplementsTaskPool
  <1>4. AffinitySpec => [](AffinityTypeOK /\ NothingIsRead /\ ReportsAreOwn /\ LeaversAreUnlisted)
    BY WorkersReportTheirOwn
  <1> QED BY <1>1, <1>2, <1>3, <1>4, PTL DEF PartsSpec, Spec, AffinitySpec
===============================================================================
