------------------------- MODULE PowerTelemetryProofs -------------------------
(***************************************************************************)
(* Proofs about PowerTelemetry.                                            *)
(***************************************************************************)
EXTENDS PowerTelemetry, FiniteSetTheorems, WellFoundedInduction, TLAPS

-----------------------------------------------------------------------------
\* Queues

\* What stays in a queue when its first frame is read.
LEMMA RangeTail ==
    ASSUME NEW S, NEW q \in Seq(S), q # <<>>
    PROVE  /\ Head(q) \in S /\ Head(q) \in Range(q)
           /\ Tail(q) \in Seq(S) /\ Range(Tail(q)) \subseteq Range(q)
    <1>1. Head(q) = q[1] /\ 1 \in 1 .. Len(q) /\ DOMAIN q = 1 .. Len(q)
      OBVIOUS
    <1>2. Tail(q) \in Seq(S) /\ DOMAIN Tail(q) = 1 .. (Len(q) - 1)
          /\ \A i \in 1 .. (Len(q) - 1) : Tail(q)[i] = q[i + 1] /\ i + 1 \in 1 .. Len(q)
      OBVIOUS
    <1> QED BY <1>1, <1>2 DEF Range

\* What is in a queue after a frame was added.
LEMMA RangeAppend ==
    ASSUME NEW S, NEW q \in Seq(S), NEW f \in S
    PROVE  Append(q, f) \in Seq(S) /\ Range(Append(q, f)) = Range(q) \cup {f}
    <1>1. Append(q, f) \in Seq(S) /\ DOMAIN Append(q, f) = 1 .. (Len(q) + 1)
          /\ DOMAIN q = 1 .. Len(q) /\ Len(q) \in Nat
      OBVIOUS
    <1>2. \A i \in 1 .. (Len(q) + 1) : Append(q, f)[i] = IF i <= Len(q) THEN q[i] ELSE f
      OBVIOUS
    <1>3. \A i \in DOMAIN q : i \in DOMAIN Append(q, f) /\ Append(q, f)[i] = q[i]
      BY <1>1, <1>2
    <1>4. Len(q) + 1 \in DOMAIN Append(q, f) /\ Append(q, f)[Len(q) + 1] = f
      BY <1>1, <1>2
    <1>5. \A i \in DOMAIN Append(q, f) :
             (i \in DOMAIN q /\ Append(q, f)[i] = q[i]) \/ Append(q, f)[i] = f
      BY <1>1, <1>2
    <1> QED BY <1>1, <1>3, <1>4, <1>5 DEF Range

\* What is in a queue after frames were added.
LEMMA RangeConcat ==
    ASSUME NEW S, NEW q \in Seq(S), NEW r \in Seq(S)
    PROVE  q \o r \in Seq(S) /\ Range(q \o r) = Range(q) \cup Range(r)
    <1>1. q \o r \in Seq(S) /\ DOMAIN (q \o r) = 1 .. (Len(q) + Len(r))
          /\ DOMAIN q = 1 .. Len(q) /\ DOMAIN r = 1 .. Len(r)
          /\ Len(q) \in Nat /\ Len(r) \in Nat
      OBVIOUS
    <1>2. \A i \in 1 .. (Len(q) + Len(r)) :
             (q \o r)[i] = IF i <= Len(q) THEN q[i] ELSE r[i - Len(q)]
      OBVIOUS
    <1>3. \A i \in DOMAIN q : i \in DOMAIN (q \o r) /\ (q \o r)[i] = q[i]
      BY <1>1, <1>2
    <1>4. \A i \in DOMAIN r : Len(q) + i \in DOMAIN (q \o r) /\ (q \o r)[Len(q) + i] = r[i]
      BY <1>1, <1>2
    <1>5. \A i \in DOMAIN (q \o r) :
             (i \in DOMAIN q /\ (q \o r)[i] = q[i])
             \/ (i - Len(q) \in DOMAIN r /\ (q \o r)[i] = r[i - Len(q)])
      BY <1>1, <1>2
    <1>6. Range(q) \subseteq Range(q \o r)
      BY <1>3 DEF Range
    <1>7. Range(r) \subseteq Range(q \o r)
      BY <1>4 DEF Range
    <1>8. Range(q \o r) \subseteq Range(q) \cup Range(r)
      BY <1>5, Zenon DEF Range
    <1> QED BY <1>1, <1>6, <1>7, <1>8

-----------------------------------------------------------------------------
\* Numbers

\* A set of numbers has a smallest one.
LEMMA LeastNumber ==
    ASSUME NEW T, T \subseteq Nat, T # {}
    PROVE  \E x \in T : \A y \in T : x <= y
    <1> DEFINE R == {z \in Nat \X Nat : z[1] < z[2]}
    <1>1. R = OpToRel(<, Nat)
      BY DEF OpToRel
    <1>2. IsWellFoundedOn(R, Nat)
      BY <1>1, NatLessThanWellFounded
    <1>3. \A a, b \in Nat : a < b => <<a, b>> \in R
      OBVIOUS
    <1> HIDE DEF R
    <1>4. PICK x \in T : \A y \in T : ~(<<y, x>> \in R)
      BY <1>2, WFMin
    <1>5. \A y \in T : ~(y < x)
      BY <1>3, <1>4
    <1> QED BY <1>4, <1>5

\* A bounded set of numbers has a greatest one.
LEMMA GreatestNumber ==
    ASSUME NEW T, T \subseteq Nat, T # {}, NEW top \in Nat, \A n \in T : n <= top
    PROVE  \E x \in T : \A y \in T : y <= x
    <1> DEFINE D == {top - n : n \in T}
    <1>1. D \subseteq Nat /\ D # {}
      <2>1. \A n \in T : n \in Nat /\ top - n \in Nat
        OBVIOUS
      <2> QED BY <2>1
    <1>2. PICK d \in D : \A e \in D : d <= e
      BY <1>1, LeastNumber
    <1>3. PICK x \in T : d = top - x
      BY <1>2
    <1>4. ASSUME NEW y \in T
          PROVE  y <= x
      <2>1. top - y \in D
        OBVIOUS
      <2>2. top - x <= top - y
        BY <1>2, <1>3, <2>1
      <2> QED BY <2>2
    <1> QED BY <1>4

LEMMA MaxOf ==
    ASSUME NEW T, T \subseteq Nat, T # {}, NEW top \in Nat, \A n \in T : n <= top
    PROVE  Max(T) \in T /\ \A n \in T : n <= Max(T)
    <1>1. \E x \in T : \A y \in T : x >= y
      BY GreatestNumber
    <1>2. Max(T) \in T /\ \A y \in T : Max(T) >= y
      BY <1>1 DEF Max
    <1> QED BY <1>2

\* Equal or smaller numbers of a set have equal or smaller rank.
LEMMA RankOrder ==
    ASSUME NEW S, S \subseteq Nat, IsFiniteSet(S), NEW m \in S, NEW n \in S
    PROVE  /\ Rank(S, n) \in 1 .. Cardinality(S) /\ Cardinality(S) \in Nat
           /\ m <= n => Rank(S, m) <= Rank(S, n)
           /\ m < n => Rank(S, m) < Rank(S, n)
    <1> DEFINE Below(x) == {k \in S : k <= x}
    <1>1. \A x : Rank(S, x) = Cardinality(Below(x)) /\ Below(x) \subseteq S
      BY DEF Rank
    <1>2. \A x : IsFiniteSet(Below(x)) /\ Cardinality(Below(x)) <= Cardinality(S)
      BY <1>1, FS_Subset
    <1>3. Cardinality(S) \in Nat /\ \A x : Cardinality(Below(x)) \in Nat
      BY <1>2, FS_CardinalityType
    <1>4. n \in Below(n) /\ m \in Below(m)
      OBVIOUS
    <1>5. Cardinality(Below(n)) # 0
      BY <1>2, <1>4, FS_EmptySet
    <1>6. ASSUME m <= n PROVE Below(m) \subseteq Below(n)
      <2>1. \A k \in S : k \in Nat
        OBVIOUS
      <2>2. \A k \in S : k <= m => k <= n
        BY <1>6, <2>1
      <2> QED BY <2>2
    <1>7. ASSUME m < n PROVE Below(m) # Below(n)
      <2>1. n \notin Below(m)
        BY <1>7
      <2> QED BY <1>4, <2>1
    <1> HIDE DEF Below
    <1>8. ASSUME m <= n PROVE Cardinality(Below(m)) <= Cardinality(Below(n))
      BY <1>2, <1>6, <1>8, FS_Subset
    <1>9. ASSUME m < n PROVE Cardinality(Below(m)) < Cardinality(Below(n))
      <2>1. m <= n
        BY <1>9
      <2>2. Below(m) \subseteq Below(n) /\ Below(m) # Below(n)
        BY <1>6, <1>7, <1>9, <2>1
      <2>3. Cardinality(Below(m)) # Cardinality(Below(n))
        BY <1>2, <2>2, FS_Subset
      <2> QED BY <1>3, <1>8, <2>1, <2>3
    <1> QED BY <1>1, <1>2, <1>3, <1>5, <1>8, <1>9

\* Every rank is that of a number.
LEMMA RankExists ==
    ASSUME NEW S, S \subseteq Nat, IsFiniteSet(S), NEW k \in 1 .. Cardinality(S),
           NEW top \in Nat, \A n \in S : n <= top
    PROVE  \E n \in S : Rank(S, n) = k
    <1>1. Cardinality(S) \in Nat /\ S # {}
      BY FS_CardinalityType, FS_EmptySet
    <1> DEFINE T == {n \in S : Rank(S, n) >= k}
    <1>2. T # {}
      <2>1. PICK x \in S : \A y \in S : y <= x
        BY <1>1, GreatestNumber
      <2>2. {y \in S : y <= x} = S
        BY <2>1
      <2>3. Rank(S, x) = Cardinality(S)
        BY <2>2 DEF Rank
      <2> QED BY <1>1, <2>3
    <1>3. PICK n \in T : \A m \in T : n <= m
      BY <1>2, LeastNumber
    <1>4. n \in S /\ Rank(S, n) >= k
      BY <1>3
    <1> DEFINE L == {m \in S : m < n}
    <1>5. IsFiniteSet(L) /\ n \notin L /\ L \cup {n} = {m \in S : m <= n}
      <2>1. \A m \in S : m \in Nat
        OBVIOUS
      <2>2. \A m \in S : m <= n <=> m < n \/ m = n
        BY <1>4, <2>1
      <2>3. L \cup {n} = {m \in S : m <= n}
        BY <1>4, <2>2
      <2>4. L \subseteq S /\ n \notin L
        BY <1>4, <2>1
      <2> QED BY <2>3, <2>4, FS_Subset
    <1>6. Rank(S, n) = Cardinality(L) + 1 /\ Cardinality(L) \in Nat
      BY <1>5, FS_AddElement, FS_CardinalityType DEF Rank
    <1>7. Cardinality(L) < k
      <2>1. CASE L = {}
        BY <2>1, FS_EmptySet
      <2>2. CASE L # {}
        <3>1. L \subseteq Nat /\ \A m \in L : m <= top
          OBVIOUS
        <3>2. PICK p \in L : \A m \in L : m <= p
          BY <2>2, <3>1, GreatestNumber
        <3>3. p \in S /\ p < n
          BY <3>2
        <3>4. {m \in S : m <= p} = L
          <4>1. \A m \in S : m \in Nat
            OBVIOUS
          <4>2. \A m \in S : m <= p => m < n
            BY <1>4, <3>3, <4>1
          <4>3. \A m \in S : m < n => m <= p
            BY <3>2
          <4> QED BY <4>2, <4>3
        <3>5. Rank(S, p) = Cardinality(L)
          BY <3>4 DEF Rank
        <3>6. p \notin T
          BY <1>3, <1>4, <3>3
        <3> QED BY <1>6, <3>3, <3>5, <3>6
      <2> QED BY <2>1, <2>2
    <1>8. Rank(S, n) = k
      BY <1>4, <1>6, <1>7
    <1> QED BY <1>4, <1>8

\* A set in order: every number once.
LEMMA InOrderLists ==
    ASSUME NEW S, S \subseteq Nat, NEW top \in Nat, \A n \in S : n <= top
    PROVE  /\ IsFiniteSet(S) /\ Cardinality(S) \in Nat
           /\ InOrder(S) \in [1 .. Cardinality(S) -> S]
           /\ \A j, k \in 1 .. Cardinality(S) : InOrder(S)[j] = InOrder(S)[k] => j = k
           /\ \A n \in S : \E k \in 1 .. Cardinality(S) : InOrder(S)[k] = n
    <1>1. IsFiniteSet(S)
      BY FS_BoundedSetOfNaturals
    <1>2. Cardinality(S) \in Nat
      BY <1>1, FS_CardinalityType
    <1>3. ASSUME NEW k \in 1 .. Cardinality(S)
          PROVE  InOrder(S)[k] \in S /\ Rank(S, InOrder(S)[k]) = k
      <2>1. \E n \in S : Rank(S, n) = k
        BY <1>1, RankExists
      <2>2. InOrder(S)[k] = CHOOSE n \in S : Rank(S, n) = k
        BY DEF InOrder
      <2> QED BY <2>1, <2>2
    <1>4. InOrder(S) \in [1 .. Cardinality(S) -> S]
      BY <1>3 DEF InOrder
    <1>5. ASSUME NEW n \in S
          PROVE  \E k \in 1 .. Cardinality(S) : InOrder(S)[k] = n
      <2> DEFINE k == Rank(S, n)
      <2>1. k \in 1 .. Cardinality(S)
        BY <1>1, RankOrder
      <2>2. InOrder(S)[k] \in S /\ Rank(S, InOrder(S)[k]) = k
        BY <1>3, <2>1
      <2> DEFINE m == InOrder(S)[k]
      <2>3. m \in Nat /\ n \in Nat /\ m \in S
        BY <2>2
      <2> HIDE DEF m
      <2>4. ~(m < n) /\ ~(n < m)
        <3>1. Rank(S, m) = Rank(S, n) /\ Rank(S, n) \in Nat
          BY <2>1, <2>2 DEF m
        <3>2. m < n => Rank(S, m) < Rank(S, n)
          BY <1>1, <2>3, RankOrder
        <3>3. n < m => Rank(S, n) < Rank(S, m)
          BY <1>1, <2>3, RankOrder
        <3> QED BY <3>1, <3>2, <3>3
      <2>5. m = n
        BY <2>3, <2>4
      <2> QED BY <2>1, <2>5 DEF m
    <1> QED BY <1>1, <1>2, <1>3, <1>4, <1>5

-----------------------------------------------------------------------------
\* Rows of the queue

Rows == {q \in Seq(Record) : IsInjective(q)}

\* Records are natural numbers up to a bound.
LEMMA RecordNumbers ==
    /\ Record \subseteq Nat /\ IsFiniteSet(Record) /\ MaxRecords \in Nat
    /\ \A r \in Record : r <= MaxRecords
    <1>1. MaxRecords \in Nat
      BY PowerConstants
    <1>2. IsFiniteSet(Record)
      BY <1>1, FS_Interval DEF Record
    <1> QED BY <1>1, <1>2 DEF Record

\* Some positions of the queue give their rows, in the same order and once.
LEMMA RowsAtKeeps ==
    ASSUME queue \in Rows, NEW I \in SUBSET (DOMAIN queue)
    PROVE  /\ RowsAt(I) \in Rows
           /\ Range(RowsAt(I)) = {queue[i] : i \in I}
           /\ Len(RowsAt(I)) \in Nat /\ Len(RowsAt(I)) <= Len(queue) /\ Len(queue) \in Nat
    <1>1. queue \in Seq(Record) /\ IsInjective(queue)
      BY DEF Rows
    <1>2. DOMAIN queue = 1 .. Len(queue) /\ Len(queue) \in Nat
          /\ \A i \in DOMAIN queue : queue[i] \in Record
      BY <1>1
    <1>3. I \subseteq Nat /\ \A i \in I : i <= Len(queue)
      BY <1>2
    <1> DEFINE n == Cardinality(I)
    <1>4. /\ n \in Nat /\ IsFiniteSet(I)
          /\ InOrder(I) \in [1 .. n -> I]
          /\ \A j, k \in 1 .. n : InOrder(I)[j] = InOrder(I)[k] => j = k
          /\ \A i \in I : \E k \in 1 .. n : InOrder(I)[k] = i
      BY <1>2, <1>3, InOrderLists
    <1> HIDE DEF n
    <1>5. RowsAt(I) = [k \in 1 .. n |-> queue[InOrder(I)[k]]]
      BY DEF RowsAt, n
    <1>6. \A k \in 1 .. n : InOrder(I)[k] \in DOMAIN queue
      BY <1>4
    <1>7. RowsAt(I) \in [1 .. n -> Record]
      BY <1>2, <1>5, <1>6
    <1>8. RowsAt(I) \in Seq(Record) /\ Len(RowsAt(I)) = n
      BY <1>4, <1>7
    <1>9. IsInjective(RowsAt(I))
      <2> SUFFICES ASSUME NEW j \in 1 .. n, NEW k \in 1 .. n, RowsAt(I)[j] = RowsAt(I)[k]
                   PROVE  j = k
        BY <1>7 DEF IsInjective
      <2>1. queue[InOrder(I)[j]] = queue[InOrder(I)[k]]
        BY <1>5
      <2>2. InOrder(I)[j] = InOrder(I)[k]
        BY <1>1, <1>6, <2>1 DEF IsInjective
      <2> QED BY <1>4, <2>2
    <1>10. Range(RowsAt(I)) = {RowsAt(I)[k] : k \in 1 .. n}
      BY <1>7 DEF Range
    <1>11. {RowsAt(I)[k] : k \in 1 .. n} \subseteq {queue[i] : i \in I}
      BY <1>4, <1>5
    <1>12. {queue[i] : i \in I} \subseteq {RowsAt(I)[k] : k \in 1 .. n}
      <2> SUFFICES ASSUME NEW i \in I
                   PROVE  \E k \in 1 .. n : queue[i] = RowsAt(I)[k]
        OBVIOUS
      <2>1. PICK k \in 1 .. n : InOrder(I)[k] = i
        BY <1>4
      <2> QED BY <1>5, <2>1
    <1>13. n <= Len(queue)
      <2>1. IsFiniteSet(1 .. Len(queue)) /\ Cardinality(1 .. Len(queue)) = Len(queue)
        BY <1>2, FS_Interval
      <2> QED BY <1>2, <1>4, <2>1, FS_Subset DEF n
    <1> QED BY <1>2, <1>4, <1>8, <1>9, <1>10, <1>11, <1>12, <1>13 DEF Rows

\* Expiry leaves exactly the rows that are not old.
LEMMA FreshKeeps ==
    ASSUME queue \in Rows
    PROVE  /\ Fresh \in Rows /\ Range(Fresh) = {r \in Range(queue) : ~Old(r)}
           /\ Len(Fresh) \in Nat /\ Len(queue) \in Nat /\ Len(Fresh) <= Len(queue)
    <1> DEFINE I == {i \in DOMAIN queue : ~Old(queue[i])}
    <1>1. I \in SUBSET (DOMAIN queue) /\ Fresh = RowsAt(I)
      BY DEF Fresh
    <1>2. {queue[i] : i \in I} = {r \in Range(queue) : ~Old(r)}
      BY DEF Range
    <1> HIDE DEF I
    <1> QED BY <1>1, <1>2, RowsAtKeeps

\* Two queues without a common row make a queue.
LEMMA RowsConcat ==
    ASSUME NEW q \in Rows, NEW r \in Rows, Range(q) \cap Range(r) = {}
    PROVE  q \o r \in Rows /\ Range(q \o r) = Range(q) \cup Range(r)
    <1>1. q \in Seq(Record) /\ r \in Seq(Record) /\ IsInjective(q) /\ IsInjective(r)
      BY DEF Rows
    <1>2. q \o r \in Seq(Record) /\ Range(q \o r) = Range(q) \cup Range(r)
      BY <1>1, RangeConcat
    <1>3. DOMAIN (q \o r) = 1 .. (Len(q) + Len(r)) /\ Len(q) \in Nat /\ Len(r) \in Nat
          /\ DOMAIN q = 1 .. Len(q) /\ DOMAIN r = 1 .. Len(r)
      BY <1>1
    <1>4. \A i \in DOMAIN (q \o r) :
             \/ i \in DOMAIN q /\ (q \o r)[i] = q[i] /\ q[i] \in Range(q)
             \/ i > Len(q) /\ i - Len(q) \in DOMAIN r /\ (q \o r)[i] = r[i - Len(q)]
                /\ r[i - Len(q)] \in Range(r)
      BY <1>1, <1>3 DEF Range
    <1>5. ASSUME NEW a \in DOMAIN (q \o r), NEW b \in DOMAIN (q \o r), (q \o r)[a] = (q \o r)[b]
          PROVE  a = b
      <2>1. CASE a \in DOMAIN q /\ b \in DOMAIN q /\ q[a] = q[b]
        BY <1>1, <2>1 DEF IsInjective
      <2>2. CASE a - Len(q) \in DOMAIN r /\ b - Len(q) \in DOMAIN r /\ r[a - Len(q)] = r[b - Len(q)]
        <3>1. a - Len(q) = b - Len(q)
          BY <1>1, <2>2 DEF IsInjective
        <3> QED BY <1>3, <3>1
      <2> QED BY <1>4, <1>5, <2>1, <2>2
    <1>6. IsInjective(q \o r)
      BY <1>5 DEF IsInjective
    <1> QED BY <1>2, <1>6 DEF Rows

\* A page is queued after the rows that stay.
LEMMA QueuedKeeps ==
    ASSUME queue \in Rows, NEW page \in SUBSET Record
    PROVE  /\ Queued(page) \in Rows
           /\ Range(Queued(page)) = {r \in Range(queue) \cup page : ~Old(r)}
    <1> DEFINE new == {r \in page : r \notin Range(Fresh) /\ ~Old(r)}
               N == InOrder(new)
    <1>1. Fresh \in Rows /\ Range(Fresh) = {r \in Range(queue) : ~Old(r)}
      BY FreshKeeps
    <1>2. new \subseteq Nat /\ (\A r \in new : r <= MaxRecords) /\ MaxRecords \in Nat /\ new \subseteq Record
      BY RecordNumbers
    <1>3. new \cap Range(Fresh) = {} /\ Range(Fresh) \cup new = {r \in Range(queue) \cup page : ~Old(r)}
      BY <1>1
    <1> HIDE DEF new
    <1>4. /\ Cardinality(new) \in Nat
          /\ N \in [1 .. Cardinality(new) -> new]
          /\ \A j, k \in 1 .. Cardinality(new) : N[j] = N[k] => j = k
          /\ \A n \in new : \E k \in 1 .. Cardinality(new) : N[k] = n
      BY <1>2, InOrderLists
    <1>5. Queued(page) = Fresh \o N
      BY DEF Queued, new
    <1> HIDE DEF N
    <1>6. N \in [1 .. Cardinality(new) -> Record]
      BY <1>2, <1>4
    <1>7. N \in Rows
      BY <1>4, <1>6 DEF Rows, IsInjective
    <1>8. Range(N) = new
      BY <1>4 DEF Range
    <1> QED BY <1>1, <1>3, <1>5, <1>7, <1>8, RowsConcat

\* The values of a function on a finite set are at most as many.
LEMMA ImageBound ==
    ASSUME NEW f, NEW S, IsFiniteSet(S), NEW T, T = {f[x] : x \in S}
    PROVE  IsFiniteSet(T) /\ Cardinality(T) <= Cardinality(S)
    <1> DEFINE g == [x \in S |-> f[x]]
    <1>1. g \in Surjection(S, T)
      BY DEF Surjection
    <1> QED BY <1>1, FS_Surjection

\* A trimmed queue is within its limit and what it drops is counted.
LEMMA TrimmedKeeps ==
    ASSUME NEW q \in Rows
    PROVE  /\ Trimmed(q) \in Rows /\ Len(Trimmed(q)) <= MaxQueue /\ Len(Trimmed(q)) \in Nat
           /\ Range(Trimmed(q)) \subseteq Range(q)
           /\ Overflow(q) \in Nat
           /\ IsFiniteSet(Range(q) \ Range(Trimmed(q)))
           /\ Cardinality(Range(q) \ Range(Trimmed(q))) <= Overflow(q)
    <1>1. q \in Seq(Record) /\ IsInjective(q) /\ Len(q) \in Nat /\ DOMAIN q = 1 .. Len(q)
          /\ MaxQueue \in Nat
      BY PowerConstants DEF Rows
    <1>2. CASE Len(q) <= MaxQueue
      <2>0. ~(Len(q) > MaxQueue)
        BY <1>1, <1>2
      <2>1. Trimmed(q) = q /\ Overflow(q) = 0
        BY <2>0, Zenon DEF Trimmed, Overflow
      <2>2. Range(q) \ Range(Trimmed(q)) = {}
        BY <2>1
      <2>3. IsFiniteSet(Range(q) \ Range(Trimmed(q))) /\ Cardinality(Range(q) \ Range(Trimmed(q))) = 0
        BY <2>2, FS_EmptySet
      <2>4. Range(Trimmed(q)) = Range(q) /\ Len(Trimmed(q)) = Len(q) /\ Trimmed(q) \in Rows
        BY <2>1
      <2> HIDE DEF Range
      <2> QED BY <1>1, <1>2, <2>1, <2>3, <2>4
    <1>3. CASE Len(q) > MaxQueue
      <2> DEFINE k == Len(q) - MaxQueue
                 t == SubSeq(q, k + 1, Len(q))
      <2>1. Trimmed(q) = t /\ Overflow(q) = k /\ k \in Nat
        BY <1>1, <1>3 DEF Trimmed, Overflow
      <2>2. t \in Seq(Record) /\ Len(t) = MaxQueue /\ DOMAIN t = 1 .. MaxQueue
            /\ \A i \in 1 .. MaxQueue : t[i] = q[k + i] /\ k + i \in 1 .. Len(q)
        BY <1>1, <1>3, <2>1
      <2>3. \A i \in 1 .. Len(q) : i \in 1 .. k \/ (i - k \in 1 .. MaxQueue /\ t[i - k] = q[i])
        BY <1>1, <2>1, <2>2
      <2>4. Len(q) = k + MaxQueue
        BY <1>1
      <2> HIDE DEF k, t
      <2>5. IsInjective(t)
        <3> SUFFICES ASSUME NEW a \in 1 .. MaxQueue, NEW b \in 1 .. MaxQueue, t[a] = t[b]
                     PROVE  a = b
          BY <2>2 DEF IsInjective
        <3>1. k + a = k + b
          BY <1>1, <2>2 DEF IsInjective
        <3> QED BY <1>1, <2>1, <3>1
      <2>6. Range(t) \subseteq Range(q)
        BY <1>1, <2>2 DEF Range
      <2>7. Range(q) \ Range(t) \subseteq {q[i] : i \in 1 .. k}
        BY <1>1, <2>2, <2>3 DEF Range
      <2>8. IsFiniteSet(1 .. k) /\ Cardinality(1 .. k) = k
        BY <2>1, FS_Interval
      <2> DEFINE D == {q[i] : i \in 1 .. k}
                 E == Range(q) \ Range(t)
                 K == 1 .. k
      <2>9a. D = {q[i] : i \in K} /\ E \subseteq D
        BY <2>7
      <2> HIDE DEF D, E, K
      <2>9b. IsFiniteSet(K) /\ Cardinality(K) = k
        BY <2>8 DEF K
      <2>9. IsFiniteSet(D) /\ Cardinality(D) <= k
        <3>1. IsFiniteSet(D) /\ Cardinality(D) <= Cardinality(K)
          BY <2>9a, <2>9b, ImageBound
        <3> QED BY <2>9b, <3>1
      <2>10. IsFiniteSet(E) /\ Cardinality(E) <= Cardinality(D) /\ IsFiniteSet(D)
        BY <2>9a, <2>9, FS_Subset
      <2>11. Cardinality(E) \in Nat /\ Cardinality(D) \in Nat
        BY <2>10, FS_CardinalityType
      <2>12. Cardinality(E) <= k
        BY <2>1, <2>9, <2>10, <2>11
      <2> QED BY <1>1, <2>1, <2>2, <2>5, <2>6, <2>10, <2>12 DEF Rows, E
    <1> QED BY <1>1, <1>2, <1>3

-----------------------------------------------------------------------------
\* What the states look like

Stats == [overflow : Nat, expired : Nat, rejected : Nat, loss : Nat, resets : Nat]
Batch == [id : Nat, status : 0 .. MaxReports, rows : Seq(Record), loss : Nat]
Ack == [id : Nat, rows : Seq(Record), rejected : SUBSET Record]
Place(n) == [id : 0 .. n, anchor : 0 .. n]
Reading == [rows : SUBSET Record, loss : Nat, bad : SUBSET Record, reset : BOOLEAN,
            at : 0 .. MaxReports, to : Place(MaxRecords)]

\* The log starts after its base, and time goes no further than its records.
LogShape ==
    /\ newest \in 0 .. MaxRecords /\ base \in 0 .. newest /\ logs \in 0 .. MaxLogs
    /\ oldest \in 1 .. MaxRecords + 1 /\ base < oldest /\ oldest <= newest + 1
    /\ horizon \in 1 .. MaxRecords + 1 /\ horizon <= newest + 1
    /\ called \subseteq 1 .. newest
    /\ checkpoint \in Place(newest)
    /\ reports \in 0 .. MaxReports

DiskShape ==
    /\ queue \in Rows /\ Len(queue) <= MaxQueue /\ Range(queue) \subseteq 1 .. newest
    /\ stats \in Stats
    /\ status \in {None} \cup 0 .. MaxReports
    /\ taken \subseteq Record /\ called \subseteq Record

\* A page ends within the log and its loss is the number of its unreadable records.
ReadShape ==
    reading = None \/ (reading \in Reading /\ reading.to \in Place(newest)
                       /\ reading.rows \subseteq 1 .. newest
                       /\ reading.loss = Cardinality(reading.bad))

WireShape ==
    /\ toServer \in Seq(Batch) /\ late \in Seq(Batch) /\ toAgent \in Seq(Ack)
    /\ inflight = None \/ inflight \in Batch

ServerShape ==
    /\ stored \subseteq Record
    /\ source = None \/ source \in [at : 0 .. MaxReports, loss : Nat]

\* Up to a place, every record of the log is among some others or old.
Behind(to, others) == \A r \in Log : r <= to.anchor => r \in others \/ Old(r)

\* The page that was read goes on where the taken records end.
Covered ==
    /\ Behind(checkpoint, taken)
    /\ reading # None => Behind(reading.to, taken \cup reading.rows \cup reading.bad)

\* An answer names records the server has, has refused, or has forgotten for their age.
Sent == \A a \in Range(toAgent) : \A r \in Range(a.rows) : r \in stored \cup a.rejected \/ Old(r)

Missing == {r \in (taken \cup called) \ (Range(queue) \cup stored) : ~Old(r)}
Accounts == Cardinality(Missing) <= Lost

Books == LogShape /\ DiskShape /\ ReadShape /\ WireShape /\ ServerShape
         /\ Covered /\ Sent /\ Accounts

\* The losses of any counters add up to a number.
LEMMA CountsAddUp ==
    ASSUME NEW r \in Stats
    PROVE  r.overflow + r.expired + r.rejected + r.loss \in Nat
    <1>1. r.overflow \in Nat /\ r.expired \in Nat /\ r.rejected \in Nat /\ r.loss \in Nat
      BY DEF Stats
    <1> QED BY <1>1

\* The counters as numbers.
LEMMA LostNumber ==
    ASSUME DiskShape
    PROVE  /\ Lost \in Nat /\ stats.overflow \in Nat /\ stats.expired \in Nat
           /\ stats.rejected \in Nat /\ stats.loss \in Nat /\ stats.resets \in Nat
    BY DEF DiskShape, Stats, Lost

\* Records that go missing are counted.
LEMMA LossesCounted ==
    ASSUME DiskShape, DiskShape', Accounts, NEW gone, NEW c \in Nat,
           IsFiniteSet(gone), Cardinality(gone) <= c,
           Missing' \subseteq Missing \cup gone, Lost' >= Lost + c
    PROVE  Accounts'
    <1>1. IsFiniteSet(Missing)
      BY RecordNumbers, FS_Subset DEF DiskShape, Missing
    <1>2. IsFiniteSet(Missing \cup gone)
          /\ Cardinality(Missing \cup gone)
             = Cardinality(Missing) + Cardinality(gone) - Cardinality(Missing \cap gone)
      BY <1>1, FS_Union
    <1>3. IsFiniteSet(Missing \cap gone) /\ IsFiniteSet(Missing')
      BY <1>1, <1>2, FS_Subset
    <1>4. Cardinality(Missing') <= Cardinality(Missing \cup gone)
      BY <1>2, FS_Subset
    <1>5. /\ Cardinality(Missing) \in Nat /\ Cardinality(gone) \in Nat
          /\ Cardinality(Missing \cap gone) \in Nat /\ Cardinality(Missing') \in Nat
          /\ Cardinality(Missing \cup gone) \in Nat
      BY <1>1, <1>2, <1>3, FS_CardinalityType
    <1>6. Lost \in Nat /\ Lost' \in Nat
      <2>1. Lost \in Nat
        BY LostNumber
      <2>2. stats' \in Stats
        BY DEF DiskShape
      <2>3. Lost' \in Nat
        BY <2>2, CountsAddUp DEF Lost
      <2> QED BY <2>1, <2>3
    <1>7. Cardinality(Missing) <= Lost
      BY DEF Accounts
    <1>8. Cardinality(Missing') <= Lost'
      BY <1>2, <1>4, <1>5, <1>6, <1>7
    <1> QED BY <1>8 DEF Accounts

\* Nothing goes missing and nothing is uncounted.
LEMMA NothingLost ==
    ASSUME DiskShape, DiskShape', Accounts, Missing' \subseteq Missing, Lost' >= Lost
    PROVE  Accounts'
    <1>1. IsFiniteSet({}) /\ Cardinality({}) = 0
      BY FS_EmptySet
    <1>2. Lost \in Nat
      BY LostNumber
    <1>3. Lost' >= Lost + 0 /\ 0 \in Nat /\ Cardinality({}) <= 0 /\ Missing' \subseteq Missing \cup {}
      BY <1>1, <1>2
    <1> QED BY <1>1, <1>3, LossesCounted

\* The initial states.
LEMMA BooksInit ==
    ASSUME Init
    PROVE  Books
    <1>1. LogShape
      BY PowerConstants DEF Init, LogShape, Place, Start
    <1>2. queue \in Rows /\ Len(queue) = 0 /\ Range(queue) = {}
      BY DEF Init, Rows, IsInjective, Range
    <1>3. DiskShape
      BY <1>2, PowerConstants DEF Init, DiskShape, Stats
    <1>4. ReadShape /\ WireShape /\ ServerShape
      BY DEF Init, ReadShape, WireShape, ServerShape
    <1>5. Covered
      <2>1. checkpoint.anchor = 0 /\ reading = None /\ oldest = 1 /\ newest = 0
        BY DEF Init, Start
      <2> QED BY <2>1 DEF Covered, Behind, Log
    <1>6. Sent
      BY DEF Init, Sent, Range
    <1>7. Missing = {}
      BY DEF Init, Missing
    <1>8. Accounts
      BY <1>3, <1>7, LostNumber, FS_EmptySet DEF Accounts
    <1> QED BY <1>1, <1>3, <1>4, <1>5, <1>6, <1>8 DEF Books

\* What lies behind a place stays behind it: the log has no new record there.
LEMMA BehindStays ==
    ASSUME LogShape, LogShape', NEW to \in Place(newest), NEW others, Behind(to, others),
           \A r \in Log' : r <= newest => r \in Log, horizon <= horizon'
    PROVE  \A r \in Log' : r <= to.anchor => r \in others \/ Old(r)'
    <1> SUFFICES ASSUME NEW r \in Log', r <= to.anchor
                 PROVE  r \in others \/ Old(r)'
      OBVIOUS
    <1>1. to.anchor \in 0 .. newest /\ newest \in Nat /\ horizon \in Nat /\ horizon' \in Nat /\ r \in Int
      BY PowerConstants DEF Place, LogShape, Log
    <1>2. r <= newest
      BY <1>1
    <1>3. r \in Log
      BY <1>2
    <1>4. r \in others \/ Old(r)
      BY <1>3 DEF Behind
    <1>5. Old(r) => Old(r)'
      BY <1>1 DEF Old
    <1> QED BY <1>4, <1>5

\* A place in the log is one in a longer log.
LEMMA PlaceStays ==
    ASSUME NEW m \in Nat, NEW n \in Nat, m <= n
    PROVE  Place(m) \subseteq Place(n) /\ 1 .. m \subseteq 1 .. n
    <1>1. 0 .. m \subseteq 0 .. n /\ 1 .. m \subseteq 1 .. n
      OBVIOUS
    <1> QED BY <1>1 DEF Place

\* A new record, a rotation of the log, another log and a day.
LEMMA LogBooks ==
    ASSUME Books, Happens \/ Rotates \/ Recreates \/ Age
    PROVE  Books'
    <1>1. LogShape /\ DiskShape /\ ReadShape /\ WireShape /\ ServerShape /\ Covered /\ Sent /\ Accounts
      BY DEF Books
    <1>2. UNCHANGED <<diskVars, reading, wireVars, inflight, serverVars, reports, faults>>
      BY DEF Happens, Rotates, Recreates, Age
    <1>3. /\ newest' \in 0 .. MaxRecords /\ newest \in Nat /\ newest <= newest'
          /\ base' \in 0 .. newest' /\ logs' \in 0 .. MaxLogs
          /\ oldest' \in 1 .. MaxRecords + 1 /\ base' < oldest' /\ oldest <= oldest' /\ oldest' <= newest' + 1
          /\ horizon' \in 1 .. MaxRecords + 1 /\ horizon <= horizon' /\ horizon' <= newest' + 1
          /\ newest' \in Nat
      <2>0. /\ newest \in 0 .. MaxRecords /\ base \in 0 .. newest /\ logs \in 0 .. MaxLogs
            /\ oldest \in 1 .. MaxRecords + 1 /\ base < oldest /\ oldest <= newest + 1
            /\ horizon \in 1 .. MaxRecords + 1 /\ horizon <= newest + 1
            /\ MaxRecords \in Nat /\ MaxLogs \in Nat
        BY <1>1, PowerConstants DEF LogShape
      <2>1. CASE Happens
        BY <2>0, <2>1 DEF Happens
      <2>2. CASE Rotates
        BY <2>0, <2>2 DEF Rotates
      <2>3. CASE Recreates /\ oldest <= newest + 1
        BY <2>0, <2>3 DEF Recreates
      <2>4. CASE Age
        BY <2>0, <2>4 DEF Age
      <2>5. oldest <= newest + 1
        BY <1>1 DEF LogShape
      <2> QED BY <2>1, <2>2, <2>3, <2>4, <2>5
    <1>4. Place(newest) \subseteq Place(newest') /\ 1 .. newest \subseteq 1 .. newest'
      BY <1>3, PlaceStays
    <1>5. LogShape'
      BY <1>1, <1>2, <1>3, <1>4 DEF LogShape, diskVars
    <1>6. DiskShape' /\ WireShape' /\ ServerShape'
      BY <1>1, <1>2, <1>4 DEF DiskShape, WireShape, ServerShape, diskVars, wireVars, serverVars
    <1>7. ReadShape'
      BY <1>1, <1>2, <1>4 DEF ReadShape
    <1>8. \A r \in Nat : Old(r) => Old(r)'
      BY <1>1, <1>3, PowerConstants DEF LogShape, Old
    <1>9. Covered'
      <2>1. \A r \in Log' : r <= newest => r \in Log
        BY <1>1, <1>2, <1>3, PowerConstants DEF Log, LogShape, diskVars
      <2>2. checkpoint \in Place(newest)
        BY <1>1 DEF LogShape
      <2>3. Behind(checkpoint, taken)'
        <3>1. \A r \in Log' : r <= checkpoint.anchor => r \in taken \/ Old(r)'
          BY <1>1, <1>3, <1>5, <2>1, <2>2, BehindStays DEF Covered
        <3> QED BY <1>2, <3>1 DEF Behind, diskVars
      <2>4. CASE reading = None
        BY <1>2, <2>3, <2>4 DEF Covered
      <2>5. CASE reading # None
        <3> DEFINE all == taken \cup reading.rows \cup reading.bad
        <3>1. Behind(reading.to, all) /\ reading.to \in Place(newest)
          BY <1>1, <2>5 DEF Covered, ReadShape
        <3> HIDE DEF all
        <3>2. \A r \in Log' : r <= reading.to.anchor => r \in all \/ Old(r)'
          BY <1>1, <1>3, <1>5, <2>1, <3>1, BehindStays
        <3>3. Behind(reading.to, taken \cup reading.rows \cup reading.bad)'
          BY <1>2, <3>2 DEF Behind, diskVars, all
        <3> QED BY <2>3, <3>3 DEF Covered
      <2> QED BY <2>4, <2>5
    <1>10. Sent'
      <2> SUFFICES ASSUME NEW a \in Range(toAgent), NEW r \in Range(a.rows)
                   PROVE  r \in stored \cup a.rejected \/ Old(r)'
        BY <1>2 DEF Sent, wireVars, serverVars
      <2>1. a \in Ack
        BY <1>1 DEF WireShape, Range
      <2>2. r \in Record
        BY <2>1 DEF Ack, Range
      <2> QED BY <1>1, <1>8, <2>2, RecordNumbers DEF Sent
    <1>11. Missing' \subseteq Missing
      BY <1>1, <1>2, <1>8, RecordNumbers DEF Missing, DiskShape, diskVars, serverVars
    <1>12. Lost' = Lost /\ Lost \in Nat
      BY <1>1, <1>2, LostNumber DEF Lost, diskVars
    <1>13. Accounts'
      BY <1>1, <1>6, <1>11, <1>12, NothingLost
    <1> QED BY <1>5, <1>6, <1>7, <1>9, <1>10, <1>13 DEF Books

-----------------------------------------------------------------------------
\* The collector

\* A page is the oldest of what can be read: nothing readable lies before its end.
LEMMA PageFacts ==
    ASSUME LogShape
    PROVE  /\ Page \subseteq Readable /\ Readable \subseteq Record /\ IsFiniteSet(Page)
           /\ Page # {} => Max(Page) \in Page
           /\ \A r \in Readable : Page # {} /\ r <= Max(Page) => r \in Page
    <1>1. Page \subseteq Readable
      BY DEF Page
    <1>2. Readable \subseteq Record
      BY PowerConstants DEF Readable, Log, LogShape, Record
    <1>3. IsFiniteSet(Readable) /\ IsFiniteSet(Page)
      BY <1>1, <1>2, RecordNumbers, FS_Subset
    <1>4. Page \subseteq Nat /\ \A r \in Page : r <= MaxRecords
      BY <1>1, <1>2, RecordNumbers
    <1>5. Page # {} => Max(Page) \in Page
      BY <1>4, RecordNumbers, MaxOf
    <1>6. ASSUME NEW r \in Readable, Page # {}, r <= Max(Page)
          PROVE  r \in Page
      <2>1. Max(Page) \in Readable /\ Rank(Readable, Max(Page)) <= PageSize
        BY <1>5, <1>6 DEF Page
      <2>2. Readable \subseteq Nat
        BY <1>2, RecordNumbers
      <2>3. /\ Rank(Readable, r) <= Rank(Readable, Max(Page))
            /\ Rank(Readable, r) \in Nat /\ Rank(Readable, Max(Page)) \in Nat
        <3>1. /\ Rank(Readable, r) <= Rank(Readable, Max(Page)) /\ Cardinality(Readable) \in Nat
              /\ Rank(Readable, Max(Page)) \in 1 .. Cardinality(Readable)
          BY <1>3, <1>6, <2>1, <2>2, RankOrder
        <3>2. Rank(Readable, r) \in 1 .. Cardinality(Readable)
          BY <1>3, <2>2, RankOrder
        <3> QED BY <3>1, <3>2
      <2>4. Rank(Readable, r) <= PageSize
        BY <2>1, <2>3, PowerConstants
      <2> QED BY <2>4 DEF Page
    <1> QED BY <1>1, <1>2, <1>3, <1>5, <1>6

\* A page starts where the taken records end, or at the beginning of the log.
LEMMA ReadPageBooks ==
    ASSUME Books, ReadPage
    PROVE  Books'
    <1>1. LogShape /\ DiskShape /\ ReadShape /\ WireShape /\ ServerShape /\ Covered /\ Sent /\ Accounts
      BY DEF Books
    <1>2. UNCHANGED <<logVars, diskVars, wireVars, inflight, serverVars, faults>>
          /\ reports < MaxReports /\ reports' = reports + 1
      BY DEF ReadPage
    <1> DEFINE end == IF Page = {} THEN From ELSE [id |-> Max(Page) - base, anchor |-> Max(Page)]
    <1>3. PICK bad \in SUBSET Page :
            reading' = [rows |-> Page \ bad, loss |-> Cardinality(bad), bad |-> bad, reset |-> Reset,
                        at |-> reports + 1, to |-> end]
      BY DEF ReadPage
    <1>4. /\ Page \subseteq Readable /\ Readable \subseteq Record
          /\ Page # {} => Max(Page) \in Page
          /\ \A r \in Readable : Page # {} /\ r <= Max(Page) => r \in Page
      BY <1>1, PageFacts
    <1>5. /\ newest \in Nat /\ base \in Nat /\ base <= newest /\ oldest \in Nat /\ base < oldest
          /\ newest <= MaxRecords /\ MaxRecords \in Nat
      BY <1>1, PowerConstants DEF LogShape
    <1>6. Log \subseteq oldest .. newest
      BY DEF Log
    <1>7. From \in Place(newest)
      <2>1. Start \in Place(newest)
        BY <1>5 DEF Start, Place
      <2> QED BY <1>1, <2>1 DEF From, LogShape
    <1>8. end \in Place(newest)
      <2>1. CASE Page = {}
        BY <1>7, <2>1
      <2>2. CASE Page # {}
        <3>1. Max(Page) \in oldest .. newest
          BY <1>4, <1>6, <2>2 DEF Readable
        <3>2. Max(Page) \in 0 .. newest /\ Max(Page) - base \in 0 .. newest
          BY <1>5, <3>1
        <3> QED BY <2>2, <3>2 DEF Place
      <2> QED BY <2>1, <2>2
    <1>9. IsFiniteSet(bad) /\ Cardinality(bad) \in Nat
      <2>1. IsFiniteSet(bad)
        BY <1>1, <1>3, PageFacts, FS_Subset
      <2> QED BY <2>1, FS_CardinalityType
    <1>10. ASSUME NEW r \in Log, r <= end.anchor
           PROVE  r \in taken \/ r \in Page \/ Old(r)
      <2>1. r \in Int /\ r >= oldest /\ r > base
        BY <1>5, <1>6
      <2>2. CASE r \in Readable
        <3>1. CASE Page # {}
          <4>1. end.anchor = Max(Page)
            BY <3>1
          <4> QED BY <1>4, <1>10, <2>2, <3>1, <4>1
        <3>2. CASE Page = {}
          <4>1. end = From
            BY <3>2
          <4>2. From = checkpoint \/ From.anchor = 0
            BY DEF From, Start
          <4>3. From.anchor # 0
            BY <1>5, <1>10, <2>1, <4>1
          <4>4. r <= checkpoint.anchor
            BY <1>10, <4>1, <4>2, <4>3
          <4> QED BY <1>1, <4>4 DEF Covered, Behind
        <3> QED BY <3>1, <3>2
      <2>3. CASE r \notin Readable /\ ~Old(r)
        <3>1. ~(r - base > From.id)
          BY <2>3 DEF Readable
        <3>2. From.id \in Nat /\ From.anchor \in Nat
          BY <1>5, <1>7 DEF Place
        <3>3. From.id # 0
          BY <1>5, <2>1, <3>1
        <3>4. ~Reset /\ From = checkpoint
          BY <3>3 DEF From, Start
        <3>5. base + checkpoint.id = checkpoint.anchor
          BY <3>3, <3>4 DEF Reset
        <3>6. r <= checkpoint.anchor
          BY <1>5, <2>1, <3>1, <3>2, <3>4, <3>5
        <3> QED BY <1>1, <3>6 DEF Covered, Behind
      <2> QED BY <2>2, <2>3
    <1> HIDE DEF end
    <1>11. LogShape'
      BY <1>1, <1>2, PowerConstants DEF LogShape, logVars, diskVars
    <1>12. DiskShape' /\ WireShape' /\ ServerShape'
      BY <1>1, <1>2 DEF DiskShape, WireShape, ServerShape, diskVars, wireVars, serverVars, logVars
    <1>13. /\ reading'.rows = Page \ bad /\ reading'.bad = bad /\ reading'.to = end
           /\ reading'.loss = Cardinality(bad)
      BY <1>3
    <1>14. ReadShape'
      <2>1. reports + 1 \in 0 .. MaxReports
        BY <1>1, <1>2, PowerConstants DEF LogShape
      <2>2. end \in Place(MaxRecords) /\ newest' = newest
        BY <1>2, <1>5, <1>8, PlaceStays DEF logVars
      <2>3. Page \ bad \in SUBSET Record /\ bad \in SUBSET Record
        BY <1>3, <1>4
      <2>4. Reset \in BOOLEAN
        BY Zenon DEF Reset
      <2>5. reading' \in Reading
        BY <1>3, <1>9, <2>1, <2>2, <2>3, <2>4 DEF Reading
      <2>6. Page \ bad \subseteq 1 .. newest
        <3>1. oldest .. newest \subseteq 1 .. newest
          BY <1>5
        <3>2. Readable \subseteq Log
          BY DEF Readable
        <3> QED BY <1>4, <1>6, <3>1, <3>2
      <2> QED BY <1>8, <1>13, <2>2, <2>5, <2>6 DEF ReadShape
    <1>15. Covered'
      <2>1. Behind(checkpoint, taken)' /\ taken' = taken /\ Log' = Log /\ \A r : Old(r)' <=> Old(r)
        BY <1>1, <1>2 DEF Covered, Behind, Log, Old, logVars, diskVars
      <2>2. \A r \in Log : r <= end.anchor =>
               r \in taken \cup reading'.rows \cup reading'.bad \/ Old(r)
        BY <1>10, <1>13
      <2>3. Behind(reading.to, taken \cup reading.rows \cup reading.bad)'
        BY <1>13, <2>1, <2>2 DEF Behind
      <2> QED BY <2>1, <2>3 DEF Covered
    <1>16. Sent' /\ Accounts'
      BY <1>1, <1>2 DEF Sent, Accounts, Missing, Lost, Old, logVars, diskVars, wireVars, serverVars
    <1> QED BY <1>11, <1>12, <1>14, <1>15, <1>16 DEF Books

\* A failed collection changes the status only.
LEMMA UnavailableBooks ==
    ASSUME Books, set_unavailable
    PROVE  Books'
    <1>1. LogShape /\ DiskShape /\ ReadShape /\ WireShape /\ ServerShape /\ Covered /\ Sent /\ Accounts
      BY DEF Books
    <1>2. /\ UNCHANGED <<logVars, checkpoint, queue, stats, taken, called, wireVars, inflight, serverVars, reports>>
          /\ status' = reports /\ (reading' = None \/ reading' = reading)
      BY DEF set_unavailable
    <1>3. LogShape'
      BY <1>1, <1>2 DEF LogShape, logVars
    <1>4. DiskShape'
      BY <1>1, <1>2 DEF DiskShape, LogShape, logVars
    <1>5. ReadShape'
      BY <1>1, <1>2 DEF ReadShape, logVars
    <1>6. WireShape' /\ ServerShape'
      BY <1>1, <1>2 DEF WireShape, ServerShape, wireVars, serverVars
    <1>7. Covered'
      BY <1>1, <1>2 DEF Covered, Behind, Log, Old, logVars
    <1>8. Sent' /\ Accounts'
      BY <1>1, <1>2 DEF Sent, Accounts, Missing, Lost, Old, logVars, wireVars, serverVars
    <1> QED BY <1>3, <1>4, <1>5, <1>6, <1>7, <1>8 DEF Books

\* The counters of commit_page and record: nothing is taken back.
LEMMA Counted ==
    ASSUME DiskShape, NEW e \in Nat, NEW o \in Nat, NEW j \in Nat, NEW l \in Nat, NEW z \in Nat,
           stats' = [overflow |-> stats.overflow + o, expired |-> stats.expired + e,
                     rejected |-> stats.rejected + j, loss |-> stats.loss + l,
                     resets |-> stats.resets + z]
    PROVE  stats' \in Stats /\ Lost' = Lost + e + o + j + l
    <1>1. /\ stats.overflow \in Nat /\ stats.expired \in Nat
          /\ stats.rejected \in Nat /\ stats.loss \in Nat /\ stats.resets \in Nat
      BY LostNumber
    <1>2. stats' \in Stats
      BY <1>1 DEF Stats
    <1>3. /\ stats'.overflow = stats.overflow + o /\ stats'.expired = stats.expired + e
          /\ stats'.rejected = stats.rejected + j /\ stats'.loss = stats.loss + l
      OBVIOUS
    <1> QED BY <1>1, <1>2, <1>3 DEF Lost

\* What expires is a number.
LEMMA ExpiredNumber ==
    ASSUME DiskShape
    PROVE  /\ Len(queue) - Len(Fresh) \in Nat /\ Len(queue) \in Nat /\ Len(Fresh) \in Nat
           /\ \A x \in Nat : x + Len(queue) - Len(Fresh) = x + (Len(queue) - Len(Fresh))
    BY FreshKeeps DEF DiskShape

\* Counters that were set one by one.
LEMMA CountersSet ==
    ASSUME DiskShape, NEW e, NEW o, NEW l, NEW z,
           stats' = [stats EXCEPT !.expired = e, !.overflow = o, !.loss = l, !.resets = z]
    PROVE  stats' = [overflow |-> o, expired |-> e, rejected |-> stats.rejected, loss |-> l, resets |-> z]
    <1>1. stats \in Stats
      BY DEF DiskShape
    <1>2. stats = [overflow |-> stats.overflow, expired |-> stats.expired, rejected |-> stats.rejected,
                   loss |-> stats.loss, resets |-> stats.resets]
      BY <1>1 DEF Stats
    <1> QED BY <1>2, Zenon

\* A committed page is queued, or dropped and counted; its unreadable records are counted.
LEMMA CommitBooks ==
    ASSUME Books, commit_page
    PROVE  Books'
    <1>1. LogShape /\ DiskShape /\ ReadShape /\ WireShape /\ ServerShape /\ Covered /\ Sent /\ Accounts
      BY DEF Books
    <1> DEFINE page == reading.rows
               rows == Queued(page)
               old == {r \in page : Old(r)}
               e == (Len(queue) - Len(Fresh)) + Cardinality(old)
               o == Overflow(rows)
               l == Cardinality(reading.bad)
               z == IF reading.reset THEN 1 ELSE 0
               gone == Range(rows) \ Range(Trimmed(rows))
    <1>2. /\ reading # None /\ reading' = None
          /\ UNCHANGED <<logVars, called, wireVars, inflight, serverVars, reports, faults>>
          /\ queue' = Trimmed(rows) /\ status' = reading.at /\ checkpoint' = reading.to
          /\ taken' = taken \cup page \cup reading.bad
      BY DEF commit_page
    <1>3. /\ reading \in Reading /\ reading.to \in Place(newest) /\ reading.loss = l
          /\ page \in SUBSET Record /\ reading.bad \in SUBSET Record /\ page \subseteq 1 .. newest
          /\ reading.at \in 0 .. MaxReports
      BY <1>1, <1>2 DEF ReadShape, Reading
    <1>4. rows \in Rows /\ Range(rows) = {r \in Range(queue) \cup page : ~Old(r)}
      BY <1>1, <1>3, QueuedKeeps DEF DiskShape
    <1>5. /\ Trimmed(rows) \in Rows /\ Len(Trimmed(rows)) <= MaxQueue
          /\ Range(Trimmed(rows)) \subseteq Range(rows)
          /\ o \in Nat /\ IsFiniteSet(gone) /\ Cardinality(gone) <= o
      BY <1>4, TrimmedKeeps
    <1>6. IsFiniteSet(reading.bad) /\ l \in Nat
      BY <1>3, RecordNumbers, FS_Subset, FS_CardinalityType
    <1>7. Cardinality(old) \in Nat
      <2>1. IsFiniteSet(old)
        BY <1>3, RecordNumbers, FS_Subset
      <2> QED BY <2>1, FS_CardinalityType
    <1>8. e \in Nat /\ z \in Nat
      BY <1>1, <1>7, ExpiredNumber
    <1>9. stats' = [overflow |-> stats.overflow + o, expired |-> stats.expired + e,
                    rejected |-> stats.rejected + 0, loss |-> stats.loss + l,
                    resets |-> stats.resets + z]
      <2> DEFINE a == stats.expired + Len(queue) - Len(Fresh) + Cardinality(old)
                 b == stats.overflow + o
                 c == stats.loss + reading.loss
                 d == stats.resets + z
      <2>1. stats' = [stats EXCEPT !.expired = a, !.overflow = b, !.loss = c, !.resets = d]
        BY Zenon DEF commit_page
      <2>2. a = stats.expired + e
        <3>1. stats.expired \in Nat /\ Len(queue) \in Nat /\ Len(Fresh) \in Nat
          BY <1>1, LostNumber, ExpiredNumber
        <3> HIDE DEF old
        <3> QED BY <1>7, <3>1
      <2>3. c = stats.loss + l
        BY <1>3
      <2>4. stats.rejected = stats.rejected + 0
        BY <1>1, LostNumber
      <2> HIDE DEF a, b, c, d
      <2>5. stats' = [overflow |-> b, expired |-> a, rejected |-> stats.rejected, loss |-> c, resets |-> d]
        BY <1>1, <2>1, CountersSet
      <2> QED BY <2>2, <2>3, <2>4, <2>5, Zenon DEF b, d
    <1> HIDE DEF page, rows, old, e, o, l, z, gone
    <1>10. stats' \in Stats /\ Lost' = Lost + e + o + 0 + l
      BY <1>1, <1>5, <1>6, <1>8, <1>9, Counted
    <1>11. LogShape'
      BY <1>1, <1>2, <1>3 DEF LogShape, logVars
    <1>12. DiskShape'
      <2>1. taken' \subseteq Record /\ called' \subseteq Record
        BY <1>1, <1>2, <1>3 DEF DiskShape
      <2>2. Range(queue') \subseteq 1 .. newest /\ newest' = newest
        <3>1. Range(rows) \subseteq 1 .. newest
          BY <1>1, <1>3, <1>4 DEF DiskShape
        <3> QED BY <1>2, <1>5, <3>1 DEF logVars
      <2> QED BY <1>2, <1>3, <1>5, <1>10, <2>1, <2>2 DEF DiskShape
    <1>13. ReadShape' /\ WireShape' /\ ServerShape'
      BY <1>1, <1>2 DEF ReadShape, WireShape, ServerShape, wireVars, serverVars
    <1>14. Covered'
      <2>1. Behind(checkpoint, taken)'
        BY <1>1, <1>2 DEF Covered, Behind, Log, Old, logVars, page
      <2> QED BY <1>2, <2>1 DEF Covered
    <1>15. Sent'
      BY <1>1, <1>2 DEF Sent, Old, logVars, wireVars, serverVars
    <1>16. Accounts'
      <2> DEFINE counted == gone \cup reading.bad
      <2>1. Missing' \subseteq Missing \cup counted
        BY <1>2, <1>4 DEF Missing, Old, logVars, serverVars, gone
      <2>2. IsFiniteSet(counted) /\ Cardinality(counted) <= o + l
        <3>1. IsFiniteSet(counted) /\ Cardinality(counted)
                 = Cardinality(gone) + Cardinality(reading.bad) - Cardinality(gone \cap reading.bad)
          BY <1>5, <1>6, FS_Union
        <3>2. Cardinality(gone) \in Nat /\ Cardinality(gone \cap reading.bad) \in Nat
              /\ Cardinality(counted) \in Nat
          BY <1>5, <3>1, FS_Subset, FS_CardinalityType
        <3> QED BY <1>5, <1>6, <3>1, <3>2 DEF l
      <2>3. Lost' >= Lost + (o + l) /\ o + l \in Nat
        BY <1>1, <1>5, <1>6, <1>8, <1>10, LostNumber
      <2> HIDE DEF counted
      <2> QED BY <1>1, <1>12, <2>1, <2>2, <2>3, LossesCounted
    <1> QED BY <1>11, <1>12, <1>13, <1>14, <1>15, <1>16 DEF Books

\* A callback is queued; what it drops or finds expired is counted.
LEMMA RecordBooks ==
    ASSUME Books, record
    PROVE  Books'
    <1>1. LogShape /\ DiskShape /\ ReadShape /\ WireShape /\ ServerShape /\ Covered /\ Sent /\ Accounts
      BY DEF Books
    <1> DEFINE r == newest + 1
               kept == Append(Fresh, r)
               e == Len(queue) - Len(Fresh)
               o == Overflow(kept)
               gone == Range(kept) \ Range(Trimmed(kept))
    <1>2. /\ UNCHANGED <<oldest, base, logs, horizon, checkpoint, taken, status, reading, wireVars,
                         inflight, serverVars, reports, faults>>
          /\ newest < MaxRecords /\ newest' = r /\ called' = called \cup {r} /\ queue' = Trimmed(kept)
      BY DEF record
    <1>3. /\ newest \in Nat /\ newest' \in 0 .. MaxRecords /\ r \in Record /\ r \in 1 .. newest'
          /\ r \notin 1 .. newest /\ newest <= newest' /\ newest' \in Nat
      BY <1>1, <1>2, PowerConstants DEF LogShape, Record
    <1>4. Place(newest) \subseteq Place(newest') /\ 1 .. newest \subseteq 1 .. newest'
      BY <1>3, PlaceStays
    <1>5. LogShape'
      <2>1. base' \in 0 .. newest' /\ oldest' <= newest' + 1 /\ horizon' <= newest' + 1
        BY <1>1, <1>2, <1>3, PowerConstants DEF LogShape
      <2>2. called' \subseteq 1 .. newest'
        BY <1>1, <1>2, <1>3, <1>4 DEF LogShape
      <2> QED BY <1>1, <1>2, <1>3, <1>4, <2>1, <2>2 DEF LogShape
    <1>6. ReadShape'
      BY <1>1, <1>2, <1>4 DEF ReadShape
    <1>7. WireShape' /\ ServerShape' /\ Sent'
      BY <1>1, <1>2 DEF WireShape, ServerShape, Sent, Old, wireVars, serverVars
    <1>8. Log' = Log
      <2>1. oldest' .. newest' \subseteq (oldest .. newest) \cup {r}
        BY <1>1, <1>2, <1>3, PowerConstants DEF LogShape
      <2>2. oldest .. newest \subseteq oldest' .. newest'
        BY <1>1, <1>2, <1>3, PowerConstants DEF LogShape
      <2>3. r \notin oldest .. newest
        BY <1>1, <1>3, PowerConstants DEF LogShape
      <2> QED BY <1>2, <2>1, <2>2, <2>3 DEF Log
    <1>9. Covered'
      BY <1>1, <1>2, <1>8 DEF Covered, Behind, Old
    <1>10. /\ Fresh \in Rows /\ Range(Fresh) = {n \in Range(queue) : ~Old(n)} /\ e \in Nat
           /\ r \notin Range(queue)
      BY <1>1, <1>3, FreshKeeps DEF DiskShape
    <1>11. kept \in Rows /\ Range(kept) = Range(Fresh) \cup {r}
      <2>1. <<r>> \in Rows /\ Range(<<r>>) = {r}
        BY <1>3 DEF Rows, Range, IsInjective
      <2>2. kept = Fresh \o <<r>>
        BY <1>3, <1>10 DEF Rows
      <2>3. Range(Fresh) \cap Range(<<r>>) = {}
        BY <1>10, <2>1
      <2> HIDE DEF kept
      <2> QED BY <1>10, <2>1, <2>2, <2>3, RowsConcat
    <1>12. /\ Trimmed(kept) \in Rows /\ Len(Trimmed(kept)) <= MaxQueue
           /\ Range(Trimmed(kept)) \subseteq Range(kept)
           /\ o \in Nat /\ IsFiniteSet(gone) /\ Cardinality(gone) <= o
      BY <1>11, TrimmedKeeps
    <1>13. stats' = [overflow |-> stats.overflow + o, expired |-> stats.expired + e,
                     rejected |-> stats.rejected + 0, loss |-> stats.loss + 0,
                     resets |-> stats.resets + 0]
      <2> DEFINE a == stats.expired + Len(queue) - Len(Fresh)
                 b == stats.overflow + o
      <2>1. stats' = [stats EXCEPT !.expired = a, !.overflow = b]
        BY Zenon DEF record
      <2>2. a = stats.expired + e
        BY <1>1, LostNumber, ExpiredNumber
      <2>3. stats.rejected = stats.rejected + 0 /\ stats.loss = stats.loss + 0
            /\ stats.resets = stats.resets + 0
        BY <1>1, LostNumber
      <2> HIDE DEF a, b
      <2>4. stats = [overflow |-> stats.overflow, expired |-> stats.expired,
                     rejected |-> stats.rejected, loss |-> stats.loss, resets |-> stats.resets]
        BY <1>1 DEF DiskShape, Stats
      <2>5. stats' = [overflow |-> b, expired |-> a, rejected |-> stats.rejected,
                      loss |-> stats.loss, resets |-> stats.resets]
        BY <2>1, <2>4, Zenon
      <2> QED BY <2>2, <2>3, <2>5, Zenon DEF b
    <1> HIDE DEF r, kept, e, o, gone
    <1>14. stats' \in Stats /\ Lost' = Lost + e + o + 0 + 0
      BY <1>1, <1>10, <1>12, <1>13, Counted
    <1>15. DiskShape'
      <2>1. Range(queue') \subseteq 1 .. newest'
        <3>1. Range(Fresh) \subseteq 1 .. newest
          BY <1>1, <1>10 DEF DiskShape
        <3> QED BY <1>2, <1>3, <1>4, <1>11, <1>12, <3>1
      <2>2. called' \subseteq Record
        BY <1>1, <1>2, <1>3 DEF DiskShape
      <2> QED BY <1>1, <1>2, <1>12, <1>14, <2>1, <2>2 DEF DiskShape
    <1>16. Missing' \subseteq Missing \cup gone
      BY <1>2, <1>10, <1>11 DEF Missing, Old, serverVars, gone
    <1>17. Lost' >= Lost + o
      BY <1>1, <1>10, <1>12, <1>14, LostNumber
    <1>18. Accounts'
      BY <1>1, <1>12, <1>15, <1>16, <1>17, LossesCounted
    <1> QED BY <1>5, <1>6, <1>7, <1>9, <1>15, <1>18 DEF Books

-----------------------------------------------------------------------------
\* The sender and the server

\* A step that leaves the log, the queue and the page alone.
LEMMA DiskUnmoved ==
    ASSUME Books, UNCHANGED <<logVars, diskVars, reports>>
    PROVE  /\ LogShape' /\ DiskShape'
           /\ reading' \in {None, reading} => ReadShape' /\ Covered'
           /\ stored \subseteq stored' => Accounts'
    <1>1. LogShape /\ DiskShape /\ ReadShape /\ ServerShape /\ Covered /\ Accounts
      BY DEF Books
    <1>2. LogShape' /\ DiskShape'
      BY <1>1 DEF LogShape, DiskShape, logVars, diskVars
    <1>3. Behind(checkpoint, taken)'
      BY <1>1 DEF Covered, Behind, Log, Old, logVars, diskVars
    <1>4. ASSUME reading' \in {None, reading}
          PROVE  ReadShape' /\ Covered'
      <2>1. ReadShape'
        BY <1>1, <1>4 DEF ReadShape, logVars
      <2>2. Covered'
        BY <1>1, <1>3, <1>4 DEF Covered, Behind, Log, Old, logVars, diskVars
      <2> QED BY <2>1, <2>2
    <1>5. ASSUME stored \subseteq stored'
          PROVE  Accounts'
      <2>1. Missing' \subseteq Missing
        BY <1>5 DEF Missing, Old, logVars, diskVars
      <2>2. Lost' = Lost /\ Lost \in Nat
        BY <1>1, LostNumber DEF Lost, diskVars
      <2> QED BY <1>1, <1>2, <2>1, <2>2, NothingLost
    <1> QED BY <1>2, <1>3, <1>4, <1>5

\* The identifiers in use are fewer than those to choose from.
LEMMA NewIdNumber ==
    ASSUME WireShape
    PROVE  NewId \in Nat
    <1> DEFINE n == Len(toServer)
               m == Len(toAgent)
               S == 1 .. n
               A == 1 .. m
               F == {toServer[i].id : i \in S}
               G == {toAgent[i].id : i \in A}
               I == 0 .. n + m
               free == {k \in I : k \notin F /\ k \notin G}
    <1>1. n \in Nat /\ m \in Nat /\ DOMAIN toServer = S /\ DOMAIN toAgent = A
      BY DEF WireShape
    <1>2. IsFiniteSet(S) /\ Cardinality(S) = n /\ IsFiniteSet(A) /\ Cardinality(A) = m
          /\ IsFiniteSet(I) /\ Cardinality(I) = n + m + 1
      <2> HIDE DEF n, m
      <2>1. IsFiniteSet(S) /\ Cardinality(S) = n
        BY <1>1, FS_Interval
      <2>2. IsFiniteSet(A) /\ Cardinality(A) = m
        BY <1>1, FS_Interval
      <2>3. 0 \in Int /\ n + m \in Int /\ ~(0 > n + m) /\ (n + m) - 0 + 1 = n + m + 1
        BY <1>1
      <2>4. IsFiniteSet(0 .. (n + m)) /\ Cardinality(0 .. (n + m)) = n + m + 1
        BY <2>3, FS_Interval
      <2> QED BY <2>1, <2>2, <2>4
    <1>3. IsFiniteSet(I) /\ Cardinality(I) = n + m + 1
      BY <1>2
    <1>4. NewId = Min(free)
      <2>1. free = {k \in 0 .. Len(toServer) + Len(toAgent) :
                      \A f \in Range(toServer) \cup Range(toAgent) : f.id # k}
        BY <1>1 DEF Range
      <2> QED BY <2>1 DEF NewId
    <1>5. free \subseteq Nat
      BY <1>1
    <1>6. IsFiniteSet(F) /\ Cardinality(F) <= n
      <2> DEFINE f == [i \in S |-> toServer[i].id]
      <2>1. F = {f[i] : i \in S}
        OBVIOUS
      <2> HIDE DEF f, F, S
      <2>2. IsFiniteSet(F) /\ Cardinality(F) <= Cardinality(S)
        BY <1>2, <2>1, ImageBound
      <2> QED BY <1>2, <2>2
    <1>7. IsFiniteSet(G) /\ Cardinality(G) <= m
      <2> DEFINE f == [i \in A |-> toAgent[i].id]
      <2>1. G = {f[i] : i \in A}
        OBVIOUS
      <2> HIDE DEF f, G, A
      <2>2. IsFiniteSet(G) /\ Cardinality(G) <= Cardinality(A)
        BY <1>2, <2>1, ImageBound
      <2> QED BY <1>2, <2>2
    <1>8. free = {} => I \subseteq F \cup G
      OBVIOUS
    <1> HIDE DEF n, m, F, G, I, free
    <1>9. free # {}
      <2> SUFFICES ASSUME free = {}
                   PROVE  FALSE
        OBVIOUS
      <2>1. IsFiniteSet(F \cup G)
            /\ Cardinality(F \cup G) = Cardinality(F) + Cardinality(G) - Cardinality(F \cap G)
        BY <1>6, <1>7, FS_Union
      <2>2. IsFiniteSet(F \cap G)
        BY <1>6, FS_Subset
      <2>3. Cardinality(I) <= Cardinality(F \cup G)
        BY <1>8, <2>1, FS_Subset
      <2>4. Cardinality(F) \in Nat /\ Cardinality(G) \in Nat /\ Cardinality(F \cap G) \in Nat
        BY <1>6, <1>7, <2>2, FS_CardinalityType
      <2> QED BY <1>1, <1>3, <1>6, <1>7, <2>1, <2>3, <2>4
    <1>10. \E x \in free : \A y \in free : x <= y
      BY <1>5, <1>9, LeastNumber
    <1>11. Min(free) \in free
      BY <1>10 DEF Min
    <1> QED BY <1>4, <1>5, <1>11

\* The smaller of two numbers.
LEMMA MinOfTwo ==
    ASSUME NEW a \in Nat, NEW b \in Nat
    PROVE  Min({a, b}) \in Nat /\ Min({a, b}) <= b
    <1>1. \E x \in {a, b} : \A y \in {a, b} : x <= y
      OBVIOUS
    <1>2. Min({a, b}) \in {a, b} /\ \A y \in {a, b} : Min({a, b}) <= y
      BY <1>1 DEF Min
    <1> QED BY <1>2

\* A batch holds rows of the queue; what has expired is counted before.
LEMMA SendBooks ==
    ASSUME Books, SendNext
    PROVE  Books'
    <1>1. LogShape /\ DiskShape /\ ReadShape /\ WireShape /\ ServerShape /\ Covered /\ Sent /\ Accounts
      BY DEF Books
    <1>2. /\ UNCHANGED <<logVars, checkpoint, status, taken, called, reading, up, toAgent, late,
                         serverVars, reports, faults>>
          /\ queue' = Fresh
      BY DEF SendNext
    <1> DEFINE e == Len(queue) - Len(Fresh)
    <1>3. /\ Fresh \in Rows /\ Range(Fresh) = {r \in Range(queue) : ~Old(r)}
          /\ Len(Fresh) <= MaxQueue /\ Len(Fresh) \in Nat /\ e \in Nat
          /\ Range(Fresh) \subseteq 1 .. newest
      BY <1>1, FreshKeeps, PowerConstants DEF DiskShape
    <1>4. stats' = [overflow |-> stats.overflow + 0, expired |-> stats.expired + e,
                    rejected |-> stats.rejected + 0, loss |-> stats.loss + 0,
                    resets |-> stats.resets + 0]
      <2> DEFINE a == stats.expired + Len(queue) - Len(Fresh)
      <2>1. stats' = [stats EXCEPT !.expired = a]
        BY Zenon DEF SendNext
      <2>2. a = stats.expired + e /\ stats.overflow + 0 = stats.overflow
            /\ stats.rejected = stats.rejected + 0 /\ stats.loss = stats.loss + 0
            /\ stats.resets = stats.resets + 0
        BY <1>1, LostNumber, ExpiredNumber
      <2> HIDE DEF a
      <2>3. stats = [overflow |-> stats.overflow, expired |-> stats.expired,
                     rejected |-> stats.rejected, loss |-> stats.loss, resets |-> stats.resets]
        BY <1>1 DEF DiskShape, Stats
      <2>4. stats' = [overflow |-> stats.overflow, expired |-> a,
                      rejected |-> stats.rejected, loss |-> stats.loss, resets |-> stats.resets]
        BY <2>1, <2>3, Zenon
      <2> QED BY <2>2, <2>4, Zenon
    <1>5. stats' \in Stats /\ Lost' = Lost + e + 0 + 0 + 0
      BY <1>1, <1>3, <1>4, Counted
    <1>6. DiskShape'
      BY <1>1, <1>2, <1>3, <1>5 DEF DiskShape, logVars
    <1>7. LogShape' /\ ReadShape' /\ ServerShape' /\ Sent'
      BY <1>1, <1>2 DEF LogShape, ReadShape, ServerShape, Sent, Old, logVars, serverVars
    <1>8. Covered'
      BY <1>1, <1>2 DEF Covered, Behind, Log, Old, logVars
    <1>9. Accounts'
      <2>1. Missing' \subseteq Missing
        BY <1>2, <1>3 DEF Missing, Old, logVars, serverVars
      <2>2. Lost' >= Lost
        BY <1>1, <1>3, <1>5, LostNumber
      <2> QED BY <1>1, <1>6, <2>1, <2>2, NothingLost
    <1>10. WireShape'
      <2>1. CASE status = None
        BY <1>1, <1>2, <2>1 DEF WireShape, SendNext
      <2>2. CASE status # None
        <3> DEFINE w == Min({BatchSize, Len(Fresh)})
                   rows == SubSeq(Fresh, 1, w)
                   l == Lost + Len(queue) - Len(Fresh)
        <3>1. inflight' = [id |-> NewId, status |-> status, rows |-> rows, loss |-> l]
              /\ toServer' = Append(toServer, inflight')
          BY <2>2 DEF SendNext
        <3>2. w \in Nat /\ w <= Len(Fresh)
          BY <1>3, PowerConstants, MinOfTwo
        <3> HIDE DEF w
        <3>3. rows \in Seq(Record)
          BY <1>3, <3>2 DEF Rows
        <3>4. l \in Nat
          BY <1>1, <1>3, LostNumber, ExpiredNumber
        <3> HIDE DEF rows, l
        <3>5. status \in 0 .. MaxReports /\ NewId \in Nat
          BY <1>1, <2>2, NewIdNumber DEF DiskShape
        <3>6. inflight' \in Batch
          BY <3>1, <3>3, <3>4, <3>5 DEF Batch
        <3>7. toServer' \in Seq(Batch)
          BY <1>1, <3>1, <3>6, RangeAppend DEF WireShape
        <3> QED BY <1>1, <1>2, <3>6, <3>7 DEF WireShape
      <2> QED BY <2>1, <2>2
    <1> QED BY <1>6, <1>7, <1>8, <1>9, <1>10 DEF Books

\* The same batch again.
LEMMA ResendBooks ==
    ASSUME Books, Resend
    PROVE  Books'
    <1>1. WireShape /\ ServerShape /\ Sent
      BY DEF Books
    <1>2. /\ UNCHANGED <<logVars, diskVars, reading, up, toAgent, late, inflight, serverVars, reports>>
          /\ inflight # None /\ toServer' = Append(toServer, inflight)
      BY DEF Resend
    <1>3. LogShape' /\ DiskShape' /\ ReadShape' /\ Covered' /\ Accounts'
      BY <1>2, DiskUnmoved DEF serverVars
    <1>4. inflight \in Batch
      BY <1>1, <1>2 DEF WireShape
    <1>5. toServer' \in Seq(Batch)
      BY <1>1, <1>2, <1>4, RangeAppend DEF WireShape
    <1>6. WireShape' /\ ServerShape'
      BY <1>1, <1>2, <1>5 DEF WireShape, ServerShape, serverVars
    <1>7. Sent'
      BY <1>1, <1>2 DEF Sent, Old, logVars, serverVars
    <1> QED BY <1>3, <1>6, <1>7 DEF Books

\* An answer removes rows that are stored, refused or old, and counts the refused.
LEMMA ReceiveBooks ==
    ASSUME Books, receive_ack
    PROVE  Books'
    <1>1. LogShape /\ DiskShape /\ ReadShape /\ WireShape /\ ServerShape /\ Covered /\ Sent /\ Accounts
      BY DEF Books
    <1>2. /\ UNCHANGED <<logVars, checkpoint, status, taken, called, reading, up, toServer, late,
                         serverVars, reports, faults>>
          /\ toAgent # <<>> /\ toAgent' = Tail(toAgent)
      BY DEF receive_ack
    <1> DEFINE ack == Head(toAgent)
    <1>3. /\ ack \in Ack /\ ack \in Range(toAgent) /\ toAgent' \in Seq(Ack)
          /\ Range(toAgent') \subseteq Range(toAgent)
      BY <1>1, <1>2, RangeTail DEF WireShape
    <1>4. acknowledge(ack) \/ UNCHANGED <<queue, stats, inflight>>
      BY DEF receive_ack
    <1> HIDE DEF ack
    <1>5. \A r \in Range(ack.rows) : r \in stored \cup ack.rejected \/ Old(r)
      BY <1>1, <1>3 DEF Sent
    <1>6. LogShape' /\ ReadShape' /\ ServerShape'
      BY <1>1, <1>2 DEF LogShape, ReadShape, ServerShape, logVars, serverVars
    <1>7. Covered'
      BY <1>1, <1>2 DEF Covered, Behind, Log, Old, logVars
    <1>8. Sent'
      BY <1>1, <1>2, <1>3 DEF Sent, Old, logVars, serverVars
    <1>9. CASE UNCHANGED <<queue, stats, inflight>>
      <2>1. DiskShape' /\ WireShape'
        BY <1>1, <1>2, <1>3, <1>9 DEF DiskShape, WireShape, logVars
      <2>2. Accounts'
        BY <1>1, <1>2, <1>9 DEF Accounts, Missing, Lost, Old, logVars, serverVars
      <2> QED BY <1>6, <1>7, <1>8, <2>1, <2>2 DEF Books
    <1>10. CASE acknowledge(ack)
      <2> DEFINE I == {i \in DOMAIN queue : queue[i] \notin Range(ack.rows)}
                 gone == ack.rejected \cap Range(queue)
                 j == Cardinality(gone)
      <2>1. /\ queue' = RowsAt(I) /\ inflight' = None
            /\ stats' = [stats EXCEPT !.rejected = stats.rejected + j]
        BY <1>10, Zenon DEF acknowledge
      <2>2. I \in SUBSET (DOMAIN queue) /\ {queue[i] : i \in I} = Range(queue) \ Range(ack.rows)
        BY DEF Range
      <2>3. j \in Nat /\ IsFiniteSet(gone)
        <3>1. gone \subseteq Record
          BY <1>3 DEF Ack
        <3>2. IsFiniteSet(gone)
          BY <3>1, RecordNumbers, FS_Subset
        <3> QED BY <3>2, FS_CardinalityType
      <2> HIDE DEF I, j, gone
      <2>4. /\ queue' \in Rows /\ Len(queue') <= MaxQueue
            /\ Range(queue') = Range(queue) \ Range(ack.rows)
        <3>1. /\ queue' \in Rows /\ Len(queue') \in Nat /\ Len(queue') <= Len(queue)
              /\ Len(queue) \in Nat /\ Range(queue') = {queue[i] : i \in I}
          BY <1>1, <2>1, <2>2, RowsAtKeeps DEF DiskShape
        <3> QED BY <1>1, <2>2, <3>1, PowerConstants DEF DiskShape
      <2>5. stats' = [overflow |-> stats.overflow + 0, expired |-> stats.expired + 0,
                      rejected |-> stats.rejected + j, loss |-> stats.loss + 0,
                      resets |-> stats.resets + 0]
        <3>1. stats.expired = stats.expired + 0 /\ stats.overflow + 0 = stats.overflow
              /\ stats.loss = stats.loss + 0 /\ stats.resets = stats.resets + 0
          BY <1>1, LostNumber
        <3>2. stats = [overflow |-> stats.overflow, expired |-> stats.expired,
                       rejected |-> stats.rejected, loss |-> stats.loss, resets |-> stats.resets]
          BY <1>1 DEF DiskShape, Stats
        <3>3. stats' = [overflow |-> stats.overflow, expired |-> stats.expired,
                        rejected |-> stats.rejected + j, loss |-> stats.loss, resets |-> stats.resets]
          BY <2>1, <3>2, Zenon
        <3> QED BY <3>1, <3>3, Zenon
      <2>6. stats' \in Stats /\ Lost' = Lost + 0 + 0 + j + 0
        BY <1>1, <2>3, <2>5, Counted
      <2>7. DiskShape'
        BY <1>1, <1>2, <2>4, <2>6 DEF DiskShape, logVars
      <2>8. WireShape'
        BY <1>1, <1>2, <1>3, <2>1 DEF WireShape
      <2>9. Missing' \subseteq Missing \cup gone
        BY <1>2, <1>5, <2>4 DEF Missing, Old, logVars, serverVars, gone
      <2>10. Lost' >= Lost + j
        BY <1>1, <2>3, <2>6, LostNumber
      <2>11. Cardinality(gone) <= j
        BY <2>3 DEF j
      <2>12. Accounts'
        BY <1>1, <2>3, <2>7, <2>9, <2>10, <2>11, LossesCounted
      <2> QED BY <1>6, <1>7, <1>8, <2>7, <2>8, <2>12 DEF Books
    <1> QED BY <1>4, <1>9, <1>10

\* Ingestion stores what it does not refuse and keeps what is stored.
LEMMA IngestShape ==
    ASSUME Books, NEW f \in Batch, NEW rejected, Ingest(f, rejected)
    PROVE  /\ ServerShape' /\ stored \subseteq stored'
           /\ \A r \in Range(f.rows) : r \in stored' \cup rejected
    <1>1. ServerShape
      BY DEF Books
    <1>2. /\ f.rows \in Seq(Record) /\ f.status \in 0 .. MaxReports /\ f.loss \in Nat
          /\ Range(f.rows) \subseteq Record
      BY DEF Batch, Range
    <1>3. stored' = stored \cup (Range(f.rows) \ rejected) /\ source' \in {Reported(f), source}
      BY DEF Ingest
    <1>4. Reported(f) = None \/ Reported(f) \in [at : 0 .. MaxReports, loss : Nat]
      <2>1. CASE source = None \/ f.status > source.at
        BY <1>2, <2>1 DEF Reported
      <2>2. CASE ~(source = None \/ f.status > source.at)
        <3>1. source \in [at : 0 .. MaxReports, loss : Nat] /\ source.loss \in Nat
          BY <1>1, <2>2 DEF ServerShape
        <3>2. Max({source.loss, f.loss}) \in Nat
          <4> DEFINE T == {source.loss, f.loss}
          <4>1. \E x \in T : \A y \in T : x >= y
            BY <1>2, <3>1
          <4>2. Max(T) \in T
            BY <4>1 DEF Max
          <4> QED BY <1>2, <3>1, <4>2
        <3> DEFINE g == Max({source.loss, f.loss})
        <3>3. Reported(f) = IF f.status = source.at THEN [source EXCEPT !.loss = g] ELSE source
          BY <2>2, Zenon DEF Reported
        <3> HIDE DEF g
        <3>4. [source EXCEPT !.loss = g] \in [at : 0 .. MaxReports, loss : Nat]
          BY <3>1, <3>2 DEF g
        <3> QED BY <3>1, <3>3, <3>4
      <2> QED BY <2>1, <2>2
    <1> QED BY <1>1, <1>2, <1>3, <1>4 DEF ServerShape

\* The server answers with what it has stored and what it has refused.
LEMMA ServerBooks ==
    ASSUME Books, ServerBatch
    PROVE  Books'
    <1>1. WireShape /\ Sent
      BY DEF Books
    <1> DEFINE f == Head(toServer)
    <1>2. UNCHANGED <<logVars, diskVars, reading, up, late, inflight, reports, faults>>
          /\ toServer # <<>> /\ toServer' = Tail(toServer)
      BY DEF ServerBatch
    <1>3. PICK refused \in SUBSET Refusable(f) :
            /\ Ingest(f, Expired(f) \cup refused)
            /\ toAgent' = Append(toAgent, [id |-> f.id, rows |-> f.rows, rejected |-> Expired(f) \cup refused])
      BY DEF ServerBatch
    <1> DEFINE rejected == Expired(f) \cup refused
               ack == [id |-> f.id, rows |-> f.rows, rejected |-> rejected]
    <1>4. f \in Batch /\ toServer' \in Seq(Batch)
      BY <1>1, <1>2, RangeTail DEF WireShape
    <1> HIDE DEF f
    <1>5. rejected \in SUBSET Record
      <2>1. Range(f.rows) \subseteq Record
        BY <1>4 DEF Batch, Range
      <2> QED BY <1>3, <2>1 DEF Expired, Refusable
    <1> HIDE DEF rejected
    <1>6. ServerShape' /\ stored \subseteq stored' /\ \A r \in Range(f.rows) : r \in stored' \cup rejected
      BY <1>3, <1>4, IngestShape DEF rejected
    <1>7. ack \in Ack /\ ack.rows = f.rows /\ ack.rejected = rejected
      <2>1. f.id \in Nat /\ f.rows \in Seq(Record)
        BY <1>4 DEF Batch
      <2> QED BY <1>5, <2>1 DEF Ack
    <1>8. toAgent' = Append(toAgent, ack)
      BY <1>3 DEF rejected
    <1> HIDE DEF ack
    <1>9. toAgent' \in Seq(Ack) /\ Range(toAgent') = Range(toAgent) \cup {ack}
      BY <1>1, <1>7, <1>8, RangeAppend DEF WireShape
    <1>10. LogShape' /\ DiskShape' /\ ReadShape' /\ Covered' /\ Accounts'
      BY <1>2, <1>6, DiskUnmoved
    <1>11. WireShape'
      BY <1>1, <1>2, <1>4, <1>9 DEF WireShape
    <1>12. Sent'
      BY <1>1, <1>2, <1>6, <1>7, <1>9 DEF Sent, Old, logVars
    <1> QED BY <1>6, <1>10, <1>11, <1>12 DEF Books

\* A batch of a lost connection is stored or not.
LEMMA LateBooks ==
    ASSUME Books, LateBatch
    PROVE  Books'
    <1>1. WireShape /\ Sent /\ ServerShape
      BY DEF Books
    <1>2. /\ UNCHANGED <<logVars, diskVars, reading, up, toServer, toAgent, inflight, reports, faults>>
          /\ late # <<>> /\ late' = <<>>
          /\ (\E rejected : Ingest(Head(late), rejected)) \/ UNCHANGED <<stored, source>>
      BY DEF LateBatch
    <1>3. ServerShape' /\ stored \subseteq stored'
      <2>1. CASE \E rejected : Ingest(Head(late), rejected)
        <3>1. Head(late) \in Batch
          BY <1>1, <1>2, RangeTail DEF WireShape
        <3> QED BY <2>1, <3>1, IngestShape
      <2>2. CASE UNCHANGED <<stored, source>>
        BY <1>1, <2>2 DEF ServerShape
      <2> QED BY <1>2, <2>1, <2>2
    <1>4. LogShape' /\ DiskShape' /\ ReadShape' /\ Covered' /\ Accounts'
      BY <1>2, <1>3, DiskUnmoved
    <1>5. WireShape'
      BY <1>1, <1>2 DEF WireShape
    <1>6. Sent'
      BY <1>1, <1>2, <1>3 DEF Sent, Old, logVars
    <1> QED BY <1>3, <1>4, <1>5, <1>6 DEF Books

\* Retention removes old records only.
LEMMA RetainBooks ==
    ASSUME Books, retain_power_events
    PROVE  Books'
    <1>1. DiskShape /\ WireShape /\ Sent /\ ServerShape /\ Accounts
      BY DEF Books
    <1>2. UNCHANGED <<logVars, diskVars, reading, wireVars, inflight, source, reports, faults>>
      BY DEF retain_power_events
    <1>3. PICK r \in stored : Old(r) /\ stored' = stored \ {r}
      BY DEF retain_power_events
    <1>4. LogShape' /\ DiskShape' /\ ReadShape' /\ Covered'
      BY <1>2, DiskUnmoved
    <1>5. WireShape' /\ ServerShape'
      BY <1>1, <1>2, <1>3 DEF WireShape, ServerShape, wireVars
    <1>6. Sent'
      BY <1>1, <1>2, <1>3 DEF Sent, Old, logVars, wireVars
    <1>7. Missing' \subseteq Missing
      BY <1>2, <1>3 DEF Missing, Old, logVars, diskVars
    <1>8. Lost' = Lost /\ Lost \in Nat
      BY <1>1, <1>2, LostNumber DEF Lost, diskVars
    <1>9. Accounts'
      BY <1>1, <1>4, <1>7, <1>8, NothingLost
    <1> QED BY <1>4, <1>5, <1>6, <1>9 DEF Books

\* A connection is opened or lost.
LEMMA ConnectionBooks ==
    ASSUME Books, Connect \/ Disconnect
    PROVE  Books'
    <1>1. WireShape /\ Sent /\ ServerShape
      BY DEF Books
    <1>2. /\ UNCHANGED <<logVars, diskVars, serverVars, reports>>
          /\ reading' \in {None, reading}
      BY DEF Connect, Disconnect
    <1>3. LogShape' /\ DiskShape' /\ ReadShape' /\ Covered' /\ Accounts'
      BY <1>2, DiskUnmoved DEF serverVars
    <1>4. ServerShape'
      BY <1>1, <1>2 DEF ServerShape, serverVars
    <1>5. CASE Connect
      <2>1. WireShape'
        BY <1>1, <1>5 DEF WireShape, Connect
      <2>2. Sent'
        BY <1>1, <1>2, <1>5 DEF Sent, Connect, Old, logVars, serverVars
      <2> QED BY <1>3, <1>4, <2>1, <2>2 DEF Books
    <1>6. CASE Disconnect
      <2> DEFINE w == Min({1, Len(toServer)})
      <2>1. w \in Nat /\ w <= Len(toServer) /\ Len(toServer) \in Nat
        BY <1>1, MinOfTwo DEF WireShape
      <2>2. toServer' = <<>> /\ toAgent' = <<>> /\ inflight' = None /\ late' = SubSeq(toServer, 1, w)
        BY <1>6 DEF Disconnect
      <2> HIDE DEF w
      <2>3. late' \in Seq(Batch)
        BY <1>1, <2>1, <2>2 DEF WireShape
      <2>4. WireShape'
        BY <2>2, <2>3 DEF WireShape
      <2>5. Sent'
        BY <2>2 DEF Sent, Range
      <2> QED BY <1>3, <1>4, <2>4, <2>5 DEF Books
    <1> QED BY <1>5, <1>6

-----------------------------------------------------------------------------
\* The theorems

\* Every step keeps the books.
LEMMA BooksStep ==
    ASSUME Books, [Next]_vars
    PROVE  Books'
    <1>1. CASE Happens \/ Rotates \/ Recreates \/ Age
      BY <1>1, LogBooks
    <1>2. CASE ReadPage
      BY <1>2, ReadPageBooks
    <1>3. CASE commit_page
      BY <1>3, CommitBooks
    <1>4. CASE set_unavailable
      BY <1>4, UnavailableBooks
    <1>5. CASE record
      BY <1>5, RecordBooks
    <1>6. CASE SendNext
      BY <1>6, SendBooks
    <1>7. CASE Resend
      BY <1>7, ResendBooks
    <1>8. CASE receive_ack
      BY <1>8, ReceiveBooks
    <1>9. CASE ServerBatch
      BY <1>9, ServerBooks
    <1>10. CASE LateBatch
      BY <1>10, LateBooks
    <1>11. CASE retain_power_events
      BY <1>11, RetainBooks
    <1>12. CASE Connect \/ Disconnect
      BY <1>12, ConnectionBooks
    <1>13. CASE UNCHANGED vars
      <2>1. /\ LogShape' /\ DiskShape' /\ ReadShape' /\ Covered' /\ Accounts'
            /\ UNCHANGED <<wireVars, inflight, serverVars, logVars>>
        BY <1>13, DiskUnmoved DEF vars, serverVars
      <2>2. WireShape' /\ ServerShape' /\ Sent'
        BY <2>1 DEF Books, WireShape, ServerShape, Sent, Old, wireVars, serverVars, logVars
      <2> QED BY <2>1, <2>2 DEF Books
    <1> QED BY <1>1, <1>2, <1>3, <1>4, <1>5, <1>6, <1>7, <1>8, <1>9, <1>10, <1>11, <1>12, <1>13 DEF Next

\* The books are kept always.
LEMMA BooksAlways == Spec => []Books
    <1>1. Init => Books
      BY BooksInit
    <1>2. Books /\ [Next]_vars => Books'
      BY BooksStep
    <1> QED BY <1>1, <1>2, PTL DEF Spec

\* What the next read leaves out lies behind the checkpoint.
LEMMA LeftOut ==
    ASSUME LogShape, Behind(checkpoint, taken)
    PROVE  NothingSkipped
    <1> SUFFICES ASSUME NEW r \in Log, r \notin Readable, ~Old(r)
                 PROVE  r \in taken
      BY DEF NothingSkipped
    <1>1. /\ r \in Int /\ r > base /\ base \in Nat /\ newest \in Nat
          /\ checkpoint.id \in Nat /\ checkpoint.anchor \in Nat
      BY PowerConstants DEF LogShape, Log, Place
    <1>2. ~(r - base > From.id)
      BY DEF Readable
    <1>3. ~Reset /\ From = checkpoint /\ checkpoint.id # 0
      BY <1>1, <1>2 DEF From, Start
    <1>4. base + checkpoint.id = checkpoint.anchor
      BY <1>3 DEF Reset
    <1>5. r <= checkpoint.anchor
      BY <1>1, <1>2, <1>3, <1>4
    <1> QED BY <1>5 DEF Behind

\* The checkpoint of the native log (power_events.py, commit_page) passes no record of
\* the last 30 days that no committed page has taken over, for any size of the log, of a
\* page and of the queue, any number of failed collections, restarts and callbacks, and
\* however often the log is created again.
THEOREM NothingSkippedAlways == Spec => []NothingSkipped
    <1>1. Books => NothingSkipped
      BY LeftOut DEF Books, Covered
    <1> QED BY <1>1, BooksAlways, PTL

\* Every event of the last 30 days that a page or a callback brought is queued, stored by
\* the server or counted in the loss the device reports (spool.py source_status), for any
\* log, queue, page and batch size, any number of lost connections, resent and late
\* batches, and whatever the server refuses.
THEOREM PowerAccountedAlways == Spec => []PowerAccounted
    <1>1. Books => PowerAccounted
      <2> SUFFICES ASSUME Books
                   PROVE  PowerAccounted
        OBVIOUS
      <2>1. LogShape /\ DiskShape /\ ServerShape /\ Accounts
        BY DEF Books
      <2>2. queue \in Seq(Record) /\ IsInjective(queue) /\ Range(queue) \subseteq Record
        BY <2>1 DEF DiskShape, Rows, Range
      <2>3. TypeOK
        BY <2>1, <2>2 DEF TypeOK, LogShape, DiskShape, ServerShape, Stats, Place
      <2> QED BY <2>1, <2>3 DEF PowerAccounted, Accounts, Missing
    <1> QED BY <1>1, BooksAlways, PTL

=============================================================================
