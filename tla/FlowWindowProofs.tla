-------------------------- MODULE FlowWindowProofs --------------------------
(***************************************************************************)
(* For every window size: the O(1) aggregates of FlowState are the sums    *)
(* over its window, the ring buffer is the abstract sliding window, and    *)
(* the features of compute_metrics describe the packets in it.             *)
(***************************************************************************)
EXTENDS FlowWindow, FlowStateProofs, WellFoundedInduction

-----------------------------------------------------------------------------
(* The invariant of the specification.                                     *)

\* WindowInv holds initially and every step keeps it.
LEMMA WindowInvStep == WindowInv /\ [Next]_state => WindowInv'
<1> SUFFICES ASSUME WindowInv, [Next]_state PROVE WindowInv'
  OBVIOUS
<1> USE DEF WindowInv, TypeOK, AggregatesOfWindow
<1>1. CASE UpdateFlow
  BY <1>1, UpdateType, PacketsAssumption DEF UpdateFlow
<1>2. CASE RecycleSlot
  <2>1. PICK ip \in IPs, pkt \in Packets : state' = Update(Reset(state, ip), pkt)
    BY <1>2 DEF RecycleSlot
  <2>2. /\ Reset(state, ip) \in StateType(IPs)
        /\ WindowShape(Reset(state, ip))
        /\ AggregatesExact(Reset(state, ip))
    BY ResetType
  <2> QED
    BY <2>1, <2>2, UpdateType, PacketsAssumption
<1>3. CASE UNCHANGED state
  BY <1>3 DEF WindowShape, AggregatesExact, WindowSum, Units, Live
<1> QED
  BY <1>1, <1>2, <1>3 DEF Next

\* Every rolling aggregate of a flow is, after any number of packets and any
\* recyclings of its slot, exactly the sum over the packets in its window
\* (update and reset of aggregator.rs), for every WINDOW_SIZE.
THEOREM WindowInvariant == Spec => [](TypeOK /\ AggregatesOfWindow)
<1>1. Init => WindowInv
  BY NewStateType DEF Init, WindowInv, TypeOK, AggregatesOfWindow
<1>2. WindowInv => TypeOK /\ AggregatesOfWindow
  BY DEF WindowInv
<1> QED
  BY <1>1, <1>2, WindowInvStep, PTL DEF Spec

\* For every window size and any packets, the ring buffer with its head and
\* count (update, reset and the unrolling loop of compute_metrics) implements
\* the last-WINDOW_SIZE-packets window, also across slot recycling.
THEOREM FlowWindowRefines == Spec => ImplementsSlidingWindow
<1>1. Init => Abstract!Init
  <2> SUFFICES ASSUME Init PROVE Abstract!Init
    OBVIOUS
  <2>1. PICK ip \in IPs : state = NewState(ip)
    BY DEF Init
  <2>2. state.count = 0 /\ state.total_packets = 0
    BY <2>1 DEF NewState
  <2> QED
    BY <2>2 DEF Abstract!Init, Unrolled
<1>2. WindowInv /\ [Next]_state => [Abstract!Next]_<<Unrolled(state), state.total_packets>>
  <2> SUFFICES ASSUME WindowInv, [Next]_state
               PROVE  [Abstract!Next]_<<Unrolled(state), state.total_packets>>
    OBVIOUS
  <2> USE DEF WindowInv, TypeOK, AggregatesOfWindow
  <2>1. CASE UpdateFlow
    <3>1. PICK pkt \in Packets : state' = Update(state, pkt)
      BY <2>1 DEF UpdateFlow
    <3>2. Unrolled(state)' = Abstract!Newest(Append(Unrolled(state), pkt))
      <4>1. Unrolled(Update(state, pkt)) = LastOf(Append(Unrolled(state), pkt))
        BY UpdateSlides, PacketsAssumption
      <4> QED
        BY <3>1, <4>1 DEF Unrolled, LastOf, Abstract!Newest
    <3>3. state'.total_packets = state.total_packets + 1
      BY <3>1 DEF Update
    <3> QED
      BY <3>2, <3>3 DEF Abstract!Next, Abstract!Slide
  <2>2. CASE RecycleSlot
    <3>1. PICK ip \in IPs, pkt \in Packets : state' = Update(Reset(state, ip), pkt)
      BY <2>2 DEF RecycleSlot
    <3> DEFINE st == Reset(state, ip)
    <3>2. st \in StateType(IPs) /\ WindowShape(st) /\ AggregatesExact(st)
      BY ResetType
    <3>3. st.count = 0 /\ st.total_packets = 0
      BY DEF Reset
    <3> HIDE DEF st
    <3>4. Unrolled(state)' = Abstract!Newest(Append(Unrolled(st), pkt))
      <4>1. Unrolled(Update(st, pkt)) = LastOf(Append(Unrolled(st), pkt))
        BY <3>2, UpdateSlides, PacketsAssumption
      <4> QED
        BY <3>1, <4>1 DEF Unrolled, LastOf, Abstract!Newest, st
    <3>5. Unrolled(st) = << >>
      BY <3>3 DEF Unrolled
    <3>6. Abstract!Newest(Append(<< >>, pkt)) = <<pkt>>
      BY WindowAssumption DEF Abstract!Newest
    <3>7. state'.total_packets = 1
      BY <3>1, <3>3 DEF Update, st
    <3> QED
      BY <3>4, <3>5, <3>6, <3>7 DEF Abstract!Next, Abstract!TakeOver
  <2>3. CASE UNCHANGED state
    BY <2>3 DEF Unrolled
  <2> QED
    BY <2>1, <2>2, <2>3 DEF Next
<1>3. Init => WindowInv
  BY NewStateType DEF Init, WindowInv, TypeOK, AggregatesOfWindow
<1> QED
  BY <1>1, <1>2, <1>3, WindowInvStep, PTL DEF Spec, ImplementsSlidingWindow, Abstract!Spec

-----------------------------------------------------------------------------
(* Induction, from the well-foundedness of < on the naturals: the library's *)
(* induction theorems cannot be instantiated, but WFMin speaks of sets.     *)

\* A non-empty set of naturals has a least element.
LEMMA Least ==
  ASSUME NEW S, S \subseteq Nat, S # {}
  PROVE  \E m \in S : \A k \in S : m <= k
<1>1. IsWellFoundedOn(OpToRel(<, Nat), Nat)
  BY NatLessThanWellFounded
<1>2. PICK m \in S : \A k \in S : ~ (<<k, m>> \in OpToRel(<, Nat))
  BY <1>1, WFMin
<1>3. \A k \in S : ~ (k < m)
  BY <1>2 DEF OpToRel
<1> QED
  BY <1>3

\* What holds at 0 and passes on from each number below N holds up to N.
LEMMA UpTo ==
  ASSUME NEW N \in Nat, NEW T, 0 \in T, \A n \in 0 .. N - 1 : n \in T => n + 1 \in T
  PROVE  0 .. N \subseteq T
<1> SUFFICES ASSUME (0 .. N) \ T # {} PROVE FALSE
  OBVIOUS
<1>1. PICK m \in (0 .. N) \ T : \A k \in (0 .. N) \ T : m <= k
  <2>1. (0 .. N) \ T \subseteq Nat
    OBVIOUS
  <2> QED
    BY <2>1, Least
<1>2. m # 0 /\ m - 1 \in 0 .. N - 1
  BY <1>1
<1>3. m - 1 \in T
  BY <1>1, <1>2
<1> QED
  BY <1>1, <1>2, <1>3

-----------------------------------------------------------------------------
(* Sums over the first n elements of a function.                            *)

\* The recursive definition of SumOf, as the equation it stands for.
Sums(n, f, g) == g = [i \in 0 .. n |-> IF i = 0 THEN 0 ELSE g[i - 1] + f[i]]

\* There is a function of partial sums, whatever the summands.
LEMMA SumsExist ==
  ASSUME NEW n \in Nat, NEW f
  PROVE  \E g : Sums(n, f, g)
<1> DEFINE T == {m \in Nat : \E g : Sums(m, f, g)}
<1>1. 0 \in T
  <2>1. Sums(0, f, [i \in 0 .. 0 |-> 0])
    BY DEF Sums
  <2> QED
    BY <2>1
<1>2. ASSUME NEW m \in 0 .. n - 1, m \in T PROVE m + 1 \in T
  <2>1. PICK g : Sums(m, f, g)
    BY <1>2
  <2> DEFINE h == [i \in 0 .. m + 1 |-> IF i = m + 1 THEN g[m] + f[m + 1] ELSE g[i]]
  <2>2. \A i \in 0 .. m : g[i] = IF i = 0 THEN 0 ELSE g[i - 1] + f[i]
    BY <2>1 DEF Sums
  <2>3. \A i \in 0 .. m + 1 : h[i] = IF i = 0 THEN 0 ELSE h[i - 1] + f[i]
    <3> SUFFICES ASSUME NEW i \in 0 .. m + 1
                 PROVE  h[i] = IF i = 0 THEN 0 ELSE h[i - 1] + f[i]
      OBVIOUS
    <3>1. CASE i = m + 1
      <4>1. i - 1 = m /\ i - 1 \in 0 .. m + 1 /\ i - 1 # m + 1 /\ i # 0
        BY <3>1
      <4> QED
        BY <3>1, <4>1
    <3>2. CASE i \in 0 .. m
      <4>1. i # m + 1 /\ (i # 0 => i - 1 \in 0 .. m + 1 /\ i - 1 # m + 1)
        BY <3>2
      <4> QED
        BY <2>2, <3>2, <4>1
    <3> QED
      BY <3>1, <3>2
  <2>4. Sums(m + 1, f, h)
    <3> SUFFICES h = [i \in 0 .. m + 1 |-> IF i = 0 THEN 0 ELSE h[i - 1] + f[i]]
      BY DEF Sums
    <3>1. h = [i \in 0 .. m + 1 |-> h[i]]
      OBVIOUS
    <3> HIDE DEF h
    <3> QED
      BY <2>3, <3>1
  <2> QED
    BY <2>4
<1> HIDE DEF T
<1>3. 0 .. n \subseteq T
  BY ONLY n \in Nat, <1>1, <1>2, UpTo
<1> QED
  BY <1>3, n \in 0 .. n DEF T

\* The sum is the last of the partial sums.
LEMMA SumByParts ==
  ASSUME NEW n \in Nat, NEW f
  PROVE  \E g : /\ Sums(n, f, g) /\ SumOf(n, f) = g[n]
<1> DEFINE g == CHOOSE g : Sums(n, f, g)
<1>1. Sums(n, f, g)
  BY SumsExist
<1>2. SumOf(n, f) = g[n]
  BY DEF SumOf, Sums
<1> QED
  BY <1>1, <1>2

\* Two functions of partial sums agree where both are defined, for summands
\* that agree there.
LEMMA SumsAgree ==
  ASSUME NEW n \in Nat, NEW m \in Nat, n <= m, NEW f, NEW e, NEW g, NEW h,
         Sums(n, f, g), Sums(m, e, h), \A i \in 1 .. n : f[i] = e[i]
  PROVE  g[n] = h[n]
<1> DEFINE T == {k \in 0 .. n : g[k] = h[k]}
<1>1. /\ \A i \in 0 .. n : g[i] = IF i = 0 THEN 0 ELSE g[i - 1] + f[i]
      /\ \A i \in 0 .. m : h[i] = IF i = 0 THEN 0 ELSE h[i - 1] + e[i]
  BY DEF Sums
<1>2. 0 \in T
  BY <1>1
<1>3. ASSUME NEW k \in 0 .. n - 1, k \in T PROVE k + 1 \in T
  <2>1. k + 1 \in 1 .. n /\ k + 1 \in 0 .. n /\ k + 1 \in 0 .. m /\ k + 1 # 0 /\ (k + 1) - 1 = k
    OBVIOUS
  <2> QED
    BY <1>1, <1>3, <2>1
<1> HIDE DEF T
<1>4. n \in T
  BY <1>2, <1>3, UpTo
<1> QED
  BY <1>4 DEF T

\* Only the first n summands matter.
LEMMA SumAgree ==
  ASSUME NEW n \in Nat, NEW f, NEW e, \A i \in 1 .. n : f[i] = e[i]
  PROVE  SumOf(n, f) = SumOf(n, e)
BY SumByParts, SumsAgree

\* The recurrence.
LEMMA SumStep ==
  ASSUME NEW n \in Nat, NEW f
  PROVE  /\ SumOf(0, f) = 0
         /\ SumOf(n + 1, f) = SumOf(n, f) + f[n + 1]
<1>1. SumOf(0, f) = 0
  BY SumByParts DEF Sums
<1>2. SumOf(n + 1, f) = SumOf(n, f) + f[n + 1]
  <2>1. PICK g : Sums(n, f, g) /\ SumOf(n, f) = g[n]
    BY SumByParts
  <2>2. PICK h : Sums(n + 1, f, h) /\ SumOf(n + 1, f) = h[n + 1]
    BY SumByParts
  <2>3. g[n] = h[n]
    BY <2>1, <2>2, SumsAgree
  <2>4. h[n + 1] = h[n] + f[n + 1]
    <3>1. n + 1 \in 0 .. n + 1 /\ n + 1 # 0 /\ (n + 1) - 1 = n
      OBVIOUS
    <3> QED
      BY <2>2, <3>1 DEF Sums
  <2> QED
    BY <2>1, <2>2, <2>3, <2>4
<1> QED
  BY <1>1, <1>2

\* A sum of integers is an integer.
LEMMA SumType ==
  ASSUME NEW n \in Nat, NEW f, \A i \in 1 .. n : f[i] \in Int
  PROVE  SumOf(n, f) \in Int
<1> DEFINE T == {k \in 0 .. n : SumOf(k, f) \in Int}
<1>1. 0 \in T
  BY SumStep
<1>2. ASSUME NEW k \in 0 .. n - 1, k \in T PROVE k + 1 \in T
  <2>1. k \in Nat /\ k + 1 \in 1 .. n /\ k + 1 \in 0 .. n
    OBVIOUS
  <2>2. SumOf(k + 1, f) = SumOf(k, f) + f[k + 1]
    BY <2>1, SumStep
  <2> QED
    BY <1>2, <2>1, <2>2
<1> HIDE DEF T
<1>3. 0 .. n \subseteq T
  BY ONLY n \in Nat, <1>1, <1>2, UpTo
<1> QED
  BY <1>3, n \in 0 .. n DEF T

\* Sums add up, summand by summand.
LEMMA SumAdd ==
  ASSUME NEW n \in Nat, NEW f, NEW e, NEW h,
         \A i \in 1 .. n : f[i] \in Int /\ e[i] \in Int /\ h[i] = f[i] + e[i]
  PROVE  SumOf(n, h) = SumOf(n, f) + SumOf(n, e)
<1> DEFINE T == {k \in 0 .. n : SumOf(k, h) = SumOf(k, f) + SumOf(k, e)}
<1>1. 0 \in T
  BY SumStep
<1>2. ASSUME NEW k \in 0 .. n - 1, k \in T PROVE k + 1 \in T
  <2>1. k \in Nat /\ k + 1 \in 1 .. n /\ k + 1 \in 0 .. n
    OBVIOUS
  <2>2. /\ SumOf(k + 1, f) = SumOf(k, f) + f[k + 1]
        /\ SumOf(k + 1, e) = SumOf(k, e) + e[k + 1]
        /\ SumOf(k + 1, h) = SumOf(k, h) + h[k + 1]
    BY <2>1, SumStep
  <2>3. SumOf(k, f) \in Int /\ SumOf(k, e) \in Int
    BY <2>1, SumType
  <2> QED
    BY <1>2, <2>1, <2>2, <2>3
<1> HIDE DEF T
<1>3. 0 .. n \subseteq T
  BY ONLY n \in Nat, <1>1, <1>2, UpTo
<1> QED
  BY <1>3, n \in 0 .. n DEF T

\* The sum of naturals as the number of pairs they count.
LEMMA SumIsPairs ==
  ASSUME NEW n \in Nat, NEW f, \A i \in 1 .. n : f[i] \in Nat
  PROVE  SumOf(n, f) = Cardinality(Pairs(1 .. n, f))
<1> DEFINE T == {k \in 0 .. n : SumOf(k, f) = Cardinality(Pairs(1 .. k, f))}
<1>1. 0 \in T
  <2>1. Pairs(1 .. 0, f) = {}
    BY DEF Pairs
  <2> QED
    BY <2>1, SumStep, FS_EmptySet
<1>2. ASSUME NEW k \in 0 .. n - 1, k \in T PROVE k + 1 \in T
  <2>1. k \in Nat /\ k + 1 \in 1 .. n /\ k + 1 \in 0 .. n /\ k + 1 \notin 1 .. k
        /\ 1 .. k + 1 = (1 .. k) \union {k + 1} /\ IsFiniteSet(1 .. k)
    BY FS_Interval
  <2>2. SumOf(k + 1, f) = SumOf(k, f) + f[k + 1]
    BY <2>1, SumStep
  <2>3. \A i \in (1 .. k) \union {k + 1} : f[i] \in Nat
    BY <2>1
  <2>4. Cardinality(Pairs((1 .. k) \union {k + 1}, f)) = Cardinality(Pairs(1 .. k, f)) + f[k + 1]
    BY ONLY <2>1, <2>3, PairsInsert
  <2> QED
    BY <1>2, <2>1, <2>2, <2>4
<1> HIDE DEF T
<1>3. 0 .. n \subseteq T
  BY ONLY n \in Nat, <1>1, <1>2, UpTo
<1> QED
  BY <1>3, n \in 0 .. n DEF T

\* The sum of the indicator of a set of indices is its size.
LEMMA SumCounts ==
  ASSUME NEW n \in Nat, NEW f, NEW A,
         \A i \in 1 .. n : f[i] = IF i \in A THEN 1 ELSE 0
  PROVE  SumOf(n, f) = Cardinality({i \in 1 .. n : i \in A})
<1> DEFINE B(k) == {i \in 1 .. k : i \in A}
           T == {k \in 0 .. n : SumOf(k, f) = Cardinality(B(k))}
<1>1. 0 \in T
  <2>1. B(0) = {}
    OBVIOUS
  <2> QED
    BY <2>1, SumStep, FS_EmptySet
<1>2. ASSUME NEW k \in 0 .. n - 1, k \in T PROVE k + 1 \in T
  <2>1. k \in Nat /\ k + 1 \in 1 .. n /\ k + 1 \in 0 .. n
    OBVIOUS
  <2>2. SumOf(k + 1, f) = SumOf(k, f) + f[k + 1]
    BY <2>1, SumStep
  <2>3. IsFiniteSet(B(k)) /\ Cardinality(B(k)) \in Nat
    <3>1. IsFiniteSet(1 .. k) /\ B(k) \in SUBSET (1 .. k)
      BY FS_Interval
    <3> QED
      BY <3>1, FS_Subset, FS_CardinalityType
  <2>4. CASE k + 1 \in A
    <3>1. B(k + 1) = B(k) \union {k + 1} /\ k + 1 \notin B(k)
      BY <2>1, <2>4
    <3>2. Cardinality(B(k + 1)) = Cardinality(B(k)) + 1
      BY <2>3, <3>1, FS_AddElement
    <3> QED
      BY <1>2, <2>1, <2>2, <2>4, <3>2
  <2>5. CASE k + 1 \notin A
    <3>1. B(k + 1) = B(k)
      BY <2>1, <2>5
    <3>2. f[k + 1] = 0
      BY <2>1, <2>5
    <3> QED
      BY <1>2, <2>1, <2>2, <2>3, <3>1, <3>2
  <2> QED
    BY <2>4, <2>5
<1> HIDE DEF T
<1>3. 0 .. n \subseteq T
  BY ONLY n \in Nat, <1>1, <1>2, UpTo
<1> QED
  BY <1>3, n \in 0 .. n DEF T

\* Renaming the indices one to one does not change the number of pairs.
LEMMA PairsReindex ==
  ASSUME NEW S, NEW T, NEW b \in Bijection(S, T), IsFiniteSet(S), NEW v, NEW w,
         \A k \in S : v[k] \in Nat /\ v[k] = w[b[k]]
  PROVE  Cardinality(Pairs(S, v)) = Cardinality(Pairs(T, w))
<1> DEFINE F == [p \in Pairs(S, v) |-> <<b[p[1]], p[2]>>]
<1>1. /\ b \in [S -> T] /\ \A k, j \in S : b[k] = b[j] => k = j
      /\ \A t \in T : \E k \in S : b[k] = t
  BY DEF Bijection, Injection, Surjection, IsInjective
<1>2. \A p \in Pairs(S, v) : /\ p = <<p[1], p[2]>> /\ p[1] \in S
                             /\ p[2] \in 1 .. v[p[1]]
  BY DEF Pairs
<1>3. F \in [Pairs(S, v) -> Pairs(T, w)]
  BY <1>1, <1>2 DEF Pairs
<1>4. \A p, q \in Pairs(S, v) : F[p] = F[q] => p = q
  BY <1>1, <1>2
<1>5. ASSUME NEW q \in Pairs(T, w) PROVE \E p \in Pairs(S, v) : F[p] = q
  <2>0. PICK t \in T : \E u \in 1 .. w[t] : q = <<t, u>>
    BY DEF Pairs
  <2>1. PICK u \in 1 .. w[t] : q = <<t, u>>
    BY <2>0
  <2>2. PICK k \in S : b[k] = t
    BY <1>1
  <2>3. <<k, u>> \in Pairs(S, v)
    BY <2>1, <2>2 DEF Pairs
  <2> QED
    BY <2>1, <2>2, <2>3
<1>6. F \in Bijection(Pairs(S, v), Pairs(T, w))
  BY <1>3, <1>4, <1>5 DEF Bijection, Injection, Surjection, IsInjective
<1> QED
  BY <1>6, PairsFinite, FS_Bijection DEF ExistsBijection

-----------------------------------------------------------------------------
(* Spreads: sums of squared differences.                                    *)

\* A square is not negative.
LEMMA SquareType ==
  ASSUME NEW d \in Int
  PROVE  d * d \in Nat
<1>1. CASE d >= 0
  BY <1>1
<1>2. CASE d < 0
  <2>1. d * d = (-d) * (-d)
    OBVIOUS
  <2>2. -d \in Nat
    BY <1>2
  <2> QED
    BY <2>1, <2>2
<1> QED
  BY <1>1, <1>2

\* The squared differences of one number to the first k of x.
LEMMA DeviationSum ==
  ASSUME NEW n \in Nat, NEW x, \A i \in 1 .. n : x[i] \in Int, NEW a \in Int,
         NEW d, NEW q, \A i \in 1 .. n : d[i] = (a - x[i]) * (a - x[i]) /\ q[i] = x[i] * x[i]
  PROVE  SumOf(n, d) = n * (a * a) - 2 * (a * SumOf(n, x)) + SumOf(n, q)
<1> DEFINE T == {k \in 0 .. n :
                   SumOf(k, d) = k * (a * a) - 2 * (a * SumOf(k, x)) + SumOf(k, q)}
<1>1. 0 \in T
  BY SumStep
<1>2. ASSUME NEW k \in 0 .. n - 1, k \in T PROVE k + 1 \in T
  <2>1. k \in Nat /\ k + 1 \in 1 .. n /\ k + 1 \in 0 .. n
    OBVIOUS
  <2> DEFINE y == x[k + 1]
             Sx == SumOf(k, x)
             Sq == SumOf(k, q)
  <2>2. y \in Int
    BY <2>1
  <2>3. /\ SumOf(k + 1, d) = SumOf(k, d) + (a - y) * (a - y)
        /\ SumOf(k + 1, x) = Sx + y
        /\ SumOf(k + 1, q) = Sq + y * y
    BY <2>1, SumStep
  <2>4. Sx \in Int /\ Sq \in Int
    <3>1. \A i \in 1 .. k : x[i] \in Int /\ q[i] \in Int
      BY <2>1
    <3> QED
      BY <2>1, <3>1, SumType
  <2>5. SumOf(k, d) = k * (a * a) - 2 * (a * Sx) + Sq
    BY <1>2
  <2> HIDE DEF T, y, Sx, Sq
  <2>6. (a - y) * (a - y) = a * a - 2 * (a * y) + y * y
    BY ONLY <2>2, a \in Int
  <2>7. a * (Sx + y) = a * Sx + a * y
    BY ONLY <2>2, <2>4, a \in Int
  <2>8. (k + 1) * (a * a) = k * (a * a) + a * a
    BY ONLY <2>1, a \in Int
  <2>9. a * a \in Int /\ a * Sx \in Int /\ a * y \in Int /\ y * y \in Int /\ k * (a * a) \in Int
    BY ONLY <2>1, <2>2, <2>4, a \in Int
  <2>10. (k * (a * a) - 2 * (a * Sx) + Sq) + (a * a - 2 * (a * y) + y * y)
           = (k * (a * a) + a * a) - 2 * (a * Sx + a * y) + (Sq + y * y)
    BY ONLY <2>4, <2>9
  <2>11. SumOf(k + 1, d) = (k + 1) * (a * a) - 2 * (a * SumOf(k + 1, x)) + SumOf(k + 1, q)
    BY ONLY <2>3, <2>5, <2>6, <2>7, <2>8, <2>10, Zenon
  <2> QED
    BY <2>1, <2>11 DEF T
<1> HIDE DEF T
<1>3. 0 .. n \subseteq T
  BY ONLY n \in Nat, <1>1, <1>2, UpTo
<1> QED
  BY <1>3, n \in 0 .. n DEF T

\* A weighted sum of constant, first and second powers, term by term.
LEMMA QuadraticSum ==
  ASSUME NEW n \in Nat, NEW x, NEW q, NEW d, NEW a \in Int, NEW b \in Int, NEW c \in Int,
         \A i \in 1 .. n : x[i] \in Int /\ q[i] \in Int /\ d[i] = a * q[i] - 2 * (b * x[i]) + c
  PROVE  SumOf(n, d) = a * SumOf(n, q) - 2 * (b * SumOf(n, x)) + n * c
<1> DEFINE T == {k \in 0 .. n :
                   SumOf(k, d) = a * SumOf(k, q) - 2 * (b * SumOf(k, x)) + k * c}
<1>1. 0 \in T
  BY SumStep
<1>2. ASSUME NEW k \in 0 .. n - 1, k \in T PROVE k + 1 \in T
  <2>1. k \in Nat /\ k + 1 \in 1 .. n /\ k + 1 \in 0 .. n
    OBVIOUS
  <2> DEFINE y == x[k + 1]
             z == q[k + 1]
             Sx == SumOf(k, x)
             Sq == SumOf(k, q)
  <2>2. y \in Int /\ z \in Int
    BY <2>1
  <2>3. /\ SumOf(k + 1, d) = SumOf(k, d) + (a * z - 2 * (b * y) + c)
        /\ SumOf(k + 1, x) = Sx + y
        /\ SumOf(k + 1, q) = Sq + z
    BY <2>1, SumStep
  <2>4. Sx \in Int /\ Sq \in Int
    <3>1. \A i \in 1 .. k : x[i] \in Int /\ q[i] \in Int
      BY <2>1
    <3> QED
      BY <2>1, <3>1, SumType
  <2>5. SumOf(k, d) = a * Sq - 2 * (b * Sx) + k * c
    BY <1>2
  <2> HIDE DEF T, y, z, Sx, Sq
  <2>6. a * (Sq + z) = a * Sq + a * z /\ b * (Sx + y) = b * Sx + b * y /\ (k + 1) * c = k * c + c
    BY ONLY <2>1, <2>2, <2>4, a \in Int, b \in Int, c \in Int
  <2>7. a * Sq \in Int /\ a * z \in Int /\ b * Sx \in Int /\ b * y \in Int /\ k * c \in Int
    BY ONLY <2>1, <2>2, <2>4, a \in Int, b \in Int, c \in Int
  <2>8. (a * Sq - 2 * (b * Sx) + k * c) + (a * z - 2 * (b * y) + c)
          = (a * Sq + a * z) - 2 * (b * Sx + b * y) + (k * c + c)
    BY ONLY <2>7, c \in Int
  <2>9. SumOf(k + 1, d) = a * SumOf(k + 1, q) - 2 * (b * SumOf(k + 1, x)) + (k + 1) * c
    BY ONLY <2>3, <2>5, <2>6, <2>8, Zenon
  <2> QED
    BY <2>1, <2>9 DEF T
<1> HIDE DEF T
<1>3. 0 .. n \subseteq T
  BY ONLY n \in Nat, <1>1, <1>2, UpTo
<1> QED
  BY <1>3, n \in 0 .. n DEF T

\* The variance computed from the two sums is the spread over all pairs, and
\* therefore not negative.
LEMMA SpreadFromSums ==
  ASSUME NEW n \in Nat, NEW x, NEW q,
         \A i \in 1 .. n : x[i] \in Int /\ q[i] = x[i] * x[i]
  PROVE  /\ PairSpread(n, x) = 2 * (n * SumOf(n, q) - SumOf(n, x) * SumOf(n, x))
         /\ PairSpread(n, x) \in Nat
<1> DEFINE row(i) == [j \in 1 .. n |-> (x[i] - x[j]) * (x[i] - x[j])]
           rows == [i \in 1 .. n |-> SumOf(n, row(i))]
           Sx == SumOf(n, x)
           Sq == SumOf(n, q)
<1>1. PairSpread(n, x) = SumOf(n, rows)
  BY DEF PairSpread
<1>2. Sx \in Int /\ Sq \in Int
  <2>1. \A i \in 1 .. n : x[i] \in Int /\ q[i] \in Int
    OBVIOUS
  <2> QED
    BY <2>1, SumType
<1>3. ASSUME NEW i \in 1 .. n
      PROVE  /\ rows[i] = n * q[i] - 2 * (Sx * x[i]) + Sq
             /\ rows[i] \in Nat
  <2>1. x[i] \in Int /\ q[i] = x[i] * x[i]
    OBVIOUS
  <2>2. \A j \in 1 .. n : row(i)[j] = (x[i] - x[j]) * (x[i] - x[j]) /\ q[j] = x[j] * x[j]
    OBVIOUS
  <2>3. SumOf(n, row(i)) = n * (x[i] * x[i]) - 2 * (x[i] * Sx) + Sq
    <3>1. x[i] \in Int /\ \A j \in 1 .. n : x[j] \in Int
      OBVIOUS
    <3> DEFINE r == row(i)
    <3>2. \A j \in 1 .. n : r[j] = (x[i] - x[j]) * (x[i] - x[j]) /\ q[j] = x[j] * x[j]
      BY <2>2
    <3> HIDE DEF r
    <3>3. SumOf(n, r) = n * (x[i] * x[i]) - 2 * (x[i] * SumOf(n, x)) + SumOf(n, q)
      BY ONLY n \in Nat, <3>1, <3>2, DeviationSum
    <3> QED
      BY <3>3 DEF r
  <2>4. x[i] * Sx = Sx * x[i]
    BY <1>2, <2>1
  <2>5. \A j \in 1 .. n : row(i)[j] \in Nat
    BY SquareType
  <2>6. SumOf(n, row(i)) \in Nat
    <3> HIDE DEF row
    <3>1. IsFiniteSet(1 .. n)
      BY FS_Interval
    <3> QED
      BY <2>5, <3>1, SumIsPairs, PairsFinite, FS_CardinalityType
  <2> QED
    BY <2>1, <2>3, <2>4, <2>6
<1> HIDE DEF rows, Sx, Sq
<1>4. SumOf(n, rows) = n * Sq - 2 * (Sx * Sx) + n * Sq
  <2>1. \A i \in 1 .. n : x[i] \in Int /\ q[i] \in Int /\ rows[i] = n * q[i] - 2 * (Sx * x[i]) + Sq
    BY <1>3
  <2>2. SumOf(n, rows) = n * SumOf(n, q) - 2 * (Sx * SumOf(n, x)) + n * Sq
    BY ONLY <1>2, <2>1, n \in Nat, n \in Int, QuadraticSum
  <2> QED
    BY ONLY <2>2 DEF Sx, Sq
<1>5. n * Sq \in Int /\ Sx * Sx \in Int
  BY <1>2
<1>6. SumOf(n, rows) = 2 * (n * Sq - Sx * Sx)
  BY ONLY <1>4, <1>5
<1>7. SumOf(n, rows) \in Nat
  <2>1. IsFiniteSet(1 .. n)
    BY FS_Interval
  <2> QED
    BY <1>3, <2>1, SumIsPairs, PairsFinite, FS_CardinalityType
<1> QED
  BY <1>1, <1>6, <1>7 DEF Sx, Sq

-----------------------------------------------------------------------------
(* Sorting.                                                                 *)

\* One of finitely many integers is the largest.
LEMMA LargestExists ==
  ASSUME NEW n \in Nat \ {0}, NEW t, \A k \in 1 .. n : t[k] \in Int
  PROVE  \E m \in 1 .. n : \A k \in 1 .. n : t[k] <= t[m]
<1> DEFINE T == {k \in 0 .. n : k = 0 \/ \E m \in 1 .. k : \A j \in 1 .. k : t[j] <= t[m]}
<1>1. 0 \in T
  OBVIOUS
<1>2. ASSUME NEW k \in 0 .. n - 1, k \in T PROVE k + 1 \in T
  <2>1. k \in Nat /\ k + 1 \in 1 .. n /\ k + 1 \in 0 .. n
    OBVIOUS
  <2>2. CASE k = 0
    <3>1. \A j \in 1 .. k + 1 : t[j] <= t[k + 1]
      BY <2>1, <2>2
    <3> QED
      BY <2>1, <3>1
  <2>3. CASE k # 0
    <3>1. PICK m \in 1 .. k : \A j \in 1 .. k : t[j] <= t[m]
      BY <1>2, <2>3
    <3> DEFINE b == IF t[m] <= t[k + 1] THEN k + 1 ELSE m
    <3>2. b \in 1 .. k + 1
      BY <2>1
    <3>3. \A j \in 1 .. k + 1 : t[j] <= t[b]
      <4> SUFFICES ASSUME NEW j \in 1 .. k + 1 PROVE t[j] <= t[b]
        OBVIOUS
      <4>1. t[j] \in Int /\ t[m] \in Int /\ t[k + 1] \in Int
        BY <2>1
      <4>2. CASE j \in 1 .. k
        BY <3>1, <4>1, <4>2
      <4>3. CASE j = k + 1
        BY <4>1, <4>3
      <4> QED
        BY <2>1, <4>2, <4>3
    <3> QED
      BY <2>1, <3>2, <3>3
  <2> QED
    BY <2>2, <2>3
<1> HIDE DEF T
<1>3. 0 .. n \subseteq T
  BY ONLY n \in Nat, <1>1, <1>2, UpTo
<1> QED
  BY <1>3, n \in 0 .. n DEF T

\* The order `o` lists the integers t[1 .. n] by ascending value.
Sorts(o, n, t) ==
  /\ o \in Bijection(1 .. n, 1 .. n)
  /\ \A i, j \in 1 .. n : i <= j => t[o[i]] <= t[o[j]]

\* Sorting one more: the largest goes last, the others are sorted.
LEMMA SortOneMore ==
  ASSUME NEW n \in Nat, NEW t \in [1 .. n + 1 -> Int],
         \A s \in [1 .. n -> Int] : \E o : Sorts(o, n, s)
  PROVE  \E o : Sorts(o, n + 1, t)
<1>1. PICK m \in 1 .. n + 1 : \A k \in 1 .. n + 1 : t[k] <= t[m]
  <2>1. n + 1 \in Nat \ {0} /\ \A k \in 1 .. n + 1 : t[k] \in Int
    OBVIOUS
  <2> QED
    BY <2>1, LargestExists
<1> DEFINE s == [k \in 1 .. n |-> IF k = m THEN t[n + 1] ELSE t[k]]
<1>2. s \in [1 .. n -> Int]
  OBVIOUS
<1>3. PICK q : Sorts(q, n, s)
  BY <1>2
<1> DEFINE from(k) == IF k = m THEN n + 1 ELSE k
           o == [k \in 1 .. n + 1 |-> IF k = n + 1 THEN m ELSE from(q[k])]
<1>4. /\ \A k \in 1 .. n : q[k] \in 1 .. n
      /\ \A k, j \in 1 .. n : q[k] = q[j] => k = j
      /\ \A y \in 1 .. n : \E k \in 1 .. n : q[k] = y
      /\ \A i, j \in 1 .. n : i <= j => s[q[i]] <= s[q[j]]
  <2> HIDE DEF s
  <2>1. /\ q \in Bijection(1 .. n, 1 .. n)
        /\ \A i, j \in 1 .. n : i <= j => s[q[i]] <= s[q[j]]
    BY ONLY <1>3 DEF Sorts
  <2>2. /\ q \in [1 .. n -> 1 .. n] /\ \A k, j \in 1 .. n : q[k] = q[j] => k = j
        /\ \A y \in 1 .. n : \E k \in 1 .. n : q[k] = y
    BY ONLY <2>1 DEF Bijection, Injection, Surjection, IsInjective
  <2> QED
    BY <2>1, <2>2
<1>5. \A k \in 1 .. n : /\ k \in 1 .. n + 1 /\ k # n + 1
                        /\ o[k] = from(q[k]) /\ o[k] \in 1 .. n + 1 /\ o[k] # m
                        /\ t[o[k]] = s[q[k]]
  <2> SUFFICES ASSUME NEW k \in 1 .. n
               PROVE  /\ k \in 1 .. n + 1 /\ k # n + 1
                      /\ o[k] = from(q[k]) /\ o[k] \in 1 .. n + 1 /\ o[k] # m
                      /\ t[o[k]] = s[q[k]]
    OBVIOUS
  <2>1. q[k] \in 1 .. n /\ k \in 1 .. n + 1 /\ k # n + 1
    BY <1>4
  <2>2. o[k] = from(q[k])
    BY <2>1
  <2>3. CASE q[k] = m
    BY <2>1, <2>2, <2>3
  <2>4. CASE q[k] # m
    BY <2>1, <2>2, <2>4
  <2> QED
    BY <2>1, <2>2, <2>3, <2>4
<1>6. o[n + 1] = m /\ n + 1 \in 1 .. n + 1
  OBVIOUS
<1>7. \A k \in 1 .. n + 1 : k \in 1 .. n \/ k = n + 1
  OBVIOUS
<1>8. o \in Bijection(1 .. n + 1, 1 .. n + 1)
  <2>1. o \in [1 .. n + 1 -> 1 .. n + 1]
    <3>1. o = [k \in 1 .. n + 1 |-> o[k]]
      OBVIOUS
    <3> HIDE DEF o
    <3> QED
      BY <1>5, <1>6, <1>7, <3>1
  <2>2. ASSUME NEW k \in 1 .. n + 1, NEW j \in 1 .. n + 1, o[k] = o[j] PROVE k = j
    <3> HIDE DEF o
    <3>1. CASE k \in 1 .. n /\ j \in 1 .. n
      <4>1. from(q[k]) = from(q[j]) /\ q[k] \in 1 .. n /\ q[j] \in 1 .. n
        BY <1>4, <1>5, <2>2, <3>1
      <4>2. q[k] = q[j]
        BY <4>1
      <4> QED
        BY <1>4, <3>1, <4>2
    <3> QED
      BY <1>5, <1>6, <1>7, <2>2, <3>1
  <2>3. ASSUME NEW y \in 1 .. n + 1 PROVE \E k \in 1 .. n + 1 : o[k] = y
    <3>1. CASE y = m
      BY <1>6, <3>1
    <3>2. CASE y # m
      <4> DEFINE x == IF y = n + 1 THEN m ELSE y
      <4>1. x \in 1 .. n /\ from(x) = y
        BY <1>7, <3>2
      <4>2. PICK k \in 1 .. n : q[k] = x
        BY <1>4, <4>1
      <4> QED
        BY <1>5, <4>1, <4>2
    <3> QED
      BY <3>1, <3>2
  <2> HIDE DEF o
  <2> QED
    BY ONLY <2>1, <2>2, <2>3 DEF Bijection, Injection, Surjection, IsInjective
<1>9. ASSUME NEW i \in 1 .. n + 1, NEW j \in 1 .. n + 1, i <= j PROVE t[o[i]] <= t[o[j]]
  <2> HIDE DEF o, s, from
  <2>1. CASE j = n + 1
    BY <1>1, <1>5, <1>6, <1>7, <2>1
  <2>2. CASE j \in 1 .. n
    <3>1. i \in 1 .. n
      BY <1>9, <2>2
    <3> QED
      BY <1>4, <1>5, <1>9, <2>2, <3>1
  <2> QED
    BY <1>7, <2>1, <2>2
<1> QED
  BY <1>8, <1>9 DEF Sorts

\* Any integers can be put in ascending order.
LEMMA SortExists ==
  ASSUME NEW n \in Nat, NEW t \in [1 .. n -> Int]
  PROVE  \E o : Sorts(o, n, t)
<1> DEFINE T == {k \in 0 .. n : \A s \in [1 .. k -> Int] : \E o : Sorts(o, k, s)}
<1>1. 0 \in T
  <2>1. [k \in 1 .. 0 |-> 0] \in Bijection(1 .. 0, 1 .. 0)
    BY DEF Bijection, Injection, Surjection, IsInjective
  <2>2. \A s \in [1 .. 0 -> Int] : Sorts([k \in 1 .. 0 |-> 0], 0, s)
    BY <2>1 DEF Sorts
  <2> QED
    BY <2>2
<1>2. ASSUME NEW k \in 0 .. n - 1, k \in T PROVE k + 1 \in T
  <2>1. k \in Nat /\ k + 1 \in 0 .. n
    OBVIOUS
  <2>2. \A s \in [1 .. k + 1 -> Int] : \E o : Sorts(o, k + 1, s)
    BY <1>2, <2>1, SortOneMore
  <2> QED
    BY <2>1, <2>2
<1> HIDE DEF T
<1>3. 0 .. n \subseteq T
  BY ONLY n \in Nat, <1>1, <1>2, UpTo
<1> QED
  BY <1>3, n \in 0 .. n DEF T

-----------------------------------------------------------------------------
(* The features of a flow state whose type, shape and aggregates are right. *)

Sound(Addr, st) == st \in StateType(Addr) /\ WindowShape(st) /\ AggregatesExact(st)

\* What a sound state consists of.
LEMMA SoundFacts ==
  ASSUME NEW Addr, NEW st, Sound(Addr, st)
  PROVE  /\ st.count \in Nat /\ st.count \in 0 .. WINDOW_SIZE /\ st.head \in Slots
         /\ WINDOW_SIZE \in Nat \ {0} /\ st.buffer \in [Slots -> PacketSummary]
         /\ st.agg \in [Counter -> Nat]
         /\ Len(Unrolled(st)) = st.count
         /\ \A k \in 1 .. st.count : /\ Unrolled(st)[k] = st.buffer[UnrollSlot(st, k)]
                                     /\ Unrolled(st)[k] \in PacketSummary
<1>1. st \in StateType(Addr) /\ WindowShape(st)
  BY DEF Sound
<1>2. /\ st.count \in 0 .. WINDOW_SIZE /\ st.head \in Slots /\ WINDOW_SIZE \in Nat \ {0}
      /\ st.buffer \in [Slots -> PacketSummary] /\ st.agg \in [Counter -> Nat]
  BY <1>1, WindowAssumption DEF StateType
<1>3. Len(Unrolled(st)) = st.count
  BY <1>1, UnrolledType
<1>4. /\ Unrolled(st) = [k \in 1 .. st.count |-> st.buffer[UnrollSlot(st, k)]]
      /\ \A k \in 1 .. st.count : UnrollSlot(st, k) \in Slots
  BY <1>1, UnrolledSlots
<1> QED
  BY <1>2, <1>3, <1>4

\* The positions of the window and the slots that hold its packets correspond.
LEMMA UnrollOrder ==
  ASSUME NEW Addr, NEW st, Sound(Addr, st)
  PROVE  [k \in 1 .. st.count |-> UnrollSlot(st, k)] \in Bijection(1 .. st.count, Live(st))
<1> DEFINE b == [k \in 1 .. st.count |-> UnrollSlot(st, k)]
<1>1. /\ st.count \in 0 .. WINDOW_SIZE /\ st.head \in 0 .. WINDOW_SIZE - 1
      /\ WINDOW_SIZE \in Nat \ {0}
  BY SoundFacts DEF Slots
<1>2. \A k \in 1 .. st.count : UnrollSlot(st, k) \in Live(st)
  BY <1>1 DEF UnrollSlot, Live
<1>3. \A k, j \in 1 .. st.count : UnrollSlot(st, k) = UnrollSlot(st, j) => k = j
  BY <1>1 DEF UnrollSlot
<1>4. ASSUME NEW i \in Live(st) PROVE \E k \in 1 .. st.count : UnrollSlot(st, k) = i
  <2> DEFINE k == IF st.count < WINDOW_SIZE THEN i + 1
                  ELSE IF st.head <= i THEN i - st.head + 1
                  ELSE i - st.head + 1 + WINDOW_SIZE
  <2>1. k \in 1 .. st.count /\ UnrollSlot(st, k) = i
    BY <1>1 DEF UnrollSlot, Live
  <2> QED
    BY <2>1
<1>5. b \in [1 .. st.count -> Live(st)] /\ \A k \in 1 .. st.count : b[k] = UnrollSlot(st, k)
  BY <1>2
<1> HIDE DEF b
<1>6. b \in Bijection(1 .. st.count, Live(st))
  BY <1>3, <1>4, <1>5 DEF Bijection, Injection, Surjection, IsInjective
<1> QED
  BY <1>6 DEF b

\* Every aggregate is the sum of what the packets of the window contribute.
LEMMA AggregateIsSum ==
  ASSUME NEW Addr, NEW st, Sound(Addr, st), NEW c \in Counter,
         NEW f, \A k \in 1 .. st.count : f[k] = Contribution(c, Unrolled(st)[k])
  PROVE  /\ st.agg[c] = SumOf(st.count, f)
         /\ \A k \in 1 .. st.count : f[k] \in Nat
<1> DEFINE b == [k \in 1 .. st.count |-> UnrollSlot(st, k)]
<1>1. st.count \in Nat /\ IsFiniteSet(1 .. st.count)
  <2>1. st.count \in Nat
    BY SoundFacts
  <2> QED
    BY ONLY <2>1, FS_Interval
<1>2. \A k \in 1 .. st.count : f[k] \in Nat
  BY SoundFacts, ContributionType
<1>3. b \in Bijection(1 .. st.count, Live(st))
  BY UnrollOrder
<1>4. Live(st) \subseteq Slots
  BY SoundFacts DEF Live, Slots
<1>5. \A k \in 1 .. st.count : f[k] = Weights(st, c)[b[k]]
  <2> SUFFICES ASSUME NEW k \in 1 .. st.count PROVE f[k] = Weights(st, c)[b[k]]
    OBVIOUS
  <2>1. b[k] = UnrollSlot(st, k) /\ b[k] \in Slots
    BY <1>3, <1>4 DEF Bijection, Injection
  <2> QED
    BY <2>1, SoundFacts DEF Weights
<1> HIDE DEF b
<1>6. Cardinality(Pairs(1 .. st.count, f)) = Cardinality(Pairs(Live(st), Weights(st, c)))
  <2>1. \A k \in 1 .. st.count : f[k] \in Nat /\ f[k] = Weights(st, c)[b[k]]
    BY <1>2, <1>5
  <2> QED
    BY ONLY <1>1, <1>3, <2>1, PairsReindex
<1>7. st.agg[c] = Cardinality(Pairs(Live(st), Weights(st, c)))
  BY <1>4, UnitsArePairs DEF Sound, AggregatesExact, WindowSum
<1>8. SumOf(st.count, f) = Cardinality(Pairs(1 .. st.count, f))
  BY <1>1, <1>2, SumIsPairs
<1> QED
  BY <1>2, <1>6, <1>7, <1>8

\* The lengths: their sum, their spread, and the bytes both ways together.
LEMMA LengthFeatures ==
  ASSUME NEW Addr, NEW st, Sound(Addr, st),
         NEW x, \A k \in 1 .. st.count : x[k] = Unrolled(st)[k].len
  PROVE  LET m == ComputeMetrics(st)
         IN  /\ m.mean_len[1] = SumOf(st.count, x)
             /\ 2 * m.var_len[1] = PairSpread(st.count, x)
             /\ m.byte_rate[1] = 1000 * m.mean_len[1]
<1> DEFINE n == st.count
           m == ComputeMetrics(st)
           q == [k \in 1 .. n |-> x[k] * x[k]]
           sum == st.agg["sum_len"]
           sumsq == st.agg["sum_len_sq"]
<1>1. n \in Nat /\ \A k \in 1 .. n : Unrolled(st)[k] \in PacketSummary
  BY SoundFacts
<1>2. {"sum_len", "sum_len_sq", "bytes_fwd", "bytes_bwd"} \subseteq Counter
  BY DEF Counter
<1>3. sum = SumOf(n, x) /\ \A k \in 1 .. n : x[k] \in Nat
  BY <1>2, AggregateIsSum DEF Contribution
<1>4. sumsq = SumOf(n, q)
  <2>1. \A k \in 1 .. n : q[k] = Contribution("sum_len_sq", Unrolled(st)[k])
    BY DEF Contribution
  <2> HIDE DEF q
  <2> QED
    BY <1>2, <2>1, AggregateIsSum
<1>5. st.agg["bytes_fwd"] + st.agg["bytes_bwd"] = sum
  <2> DEFINE f == [k \in 1 .. n |-> Contribution("bytes_fwd", Unrolled(st)[k])]
             e == [k \in 1 .. n |-> Contribution("bytes_bwd", Unrolled(st)[k])]
  <2>1. st.agg["bytes_fwd"] = SumOf(n, f) /\ \A k \in 1 .. n : f[k] \in Nat
    BY <1>2, AggregateIsSum
  <2>2. st.agg["bytes_bwd"] = SumOf(n, e) /\ \A k \in 1 .. n : e[k] \in Nat
    BY <1>2, AggregateIsSum
  <2>3. \A k \in 1 .. n : f[k] \in Int /\ e[k] \in Int /\ x[k] = f[k] + e[k]
    BY <1>1, <1>3, <2>1, <2>2 DEF Contribution, PacketSummary, Direction
  <2> HIDE DEF f, e
  <2>4. SumOf(n, x) = SumOf(n, f) + SumOf(n, e)
    BY ONLY <1>1, <2>3, SumAdd
  <2> QED
    BY <1>3, <2>1, <2>2, <2>4
<1>6. \A k \in 1 .. n : x[k] \in Int /\ q[k] = x[k] * x[k]
  BY <1>3
<1> HIDE DEF q
<1>7. PairSpread(n, x) = 2 * (n * sumsq - sum * sum)
  <2>1. PairSpread(n, x) = 2 * (n * SumOf(n, q) - SumOf(n, x) * SumOf(n, x))
    BY ONLY <1>1, <1>6, SpreadFromSums
  <2> QED
    BY <1>3, <1>4, <2>1
<1>8. AtLeast1(n) * sumsq - sum * sum = n * sumsq - sum * sum
  <2>1. CASE n = 0
    <3>1. sum = 0 /\ sumsq = 0
      BY <1>3, <1>4, <2>1, SumStep
    <3> QED
      BY <2>1, <3>1 DEF AtLeast1
  <2>2. CASE n # 0
    <3>1. AtLeast1(n) = n
      BY <1>1, <2>2 DEF AtLeast1
    <3> QED
      BY <3>1
  <2> QED
    BY <2>1, <2>2
<1>9. /\ m.mean_len[1] = sum
      /\ m.var_len[1] = AtLeast1(n) * sumsq - sum * sum
      /\ m.byte_rate[1] = 1000 * (st.agg["bytes_fwd"] + st.agg["bytes_bwd"])
  BY DEF ComputeMetrics
<1> HIDE DEF n, m, sum, sumsq
<1>10. /\ m.mean_len[1] = SumOf(n, x) /\ 2 * m.var_len[1] = PairSpread(n, x)
       /\ m.byte_rate[1] = 1000 * m.mean_len[1]
  BY <1>3, <1>5, <1>7, <1>8, <1>9
<1> QED
  BY <1>10 DEF n, m

\* The packets: each is in one direction, and each flag's counter counts those
\* that carry the flag.
LEMMA PacketFeatures ==
  ASSUME NEW Addr, NEW st, Sound(Addr, st)
  PROVE  LET m == ComputeMetrics(st)
         IN  /\ m.fwd_bwd_ratio[1] + st.agg["packets_bwd"] = st.count
             /\ \A f \in TcpFlag : m.flag_ratio[f][1]
                  = Cardinality({i \in 1 .. st.count : f \in Unrolled(st)[i].flags})
<1> DEFINE n == st.count
           m == ComputeMetrics(st)
<1>1. n \in Nat /\ \A k \in 1 .. n : Unrolled(st)[k] \in PacketSummary
  BY SoundFacts
<1>2. {"packets_fwd", "packets_bwd"} \subseteq Counter /\ TcpFlag \subseteq Counter
  BY DEF Counter
<1>3. st.agg["packets_fwd"] + st.agg["packets_bwd"] = n
  <2> DEFINE f == [k \in 1 .. n |-> Contribution("packets_fwd", Unrolled(st)[k])]
             e == [k \in 1 .. n |-> Contribution("packets_bwd", Unrolled(st)[k])]
             one == [k \in 1 .. n |-> 1]
  <2>1. st.agg["packets_fwd"] = SumOf(n, f) /\ \A k \in 1 .. n : f[k] \in Nat
    BY <1>2, AggregateIsSum
  <2>2. st.agg["packets_bwd"] = SumOf(n, e) /\ \A k \in 1 .. n : e[k] \in Nat
    BY <1>2, AggregateIsSum
  <2>3. \A k \in 1 .. n : f[k] \in Int /\ e[k] \in Int /\ one[k] = f[k] + e[k]
    BY <1>1, <2>1, <2>2 DEF Contribution, PacketSummary, Direction
  <2>4. SumOf(n, one) = n
    <3>1. \A k \in 1 .. n : one[k] = IF k \in 1 .. n THEN 1 ELSE 0
      OBVIOUS
    <3> HIDE DEF one
    <3>2. SumOf(n, one) = Cardinality({k \in 1 .. n : k \in 1 .. n})
      BY ONLY <1>1, <3>1, SumCounts
    <3>3. {k \in 1 .. n : k \in 1 .. n} = 1 .. n
      OBVIOUS
    <3>4. Cardinality(1 .. n) = n
      BY <1>1, FS_Interval
    <3> QED
      BY <3>2, <3>3, <3>4
  <2> HIDE DEF f, e, one
  <2>5. SumOf(n, one) = SumOf(n, f) + SumOf(n, e)
    BY ONLY <1>1, <2>3, SumAdd
  <2> QED
    BY <2>1, <2>2, <2>4, <2>5
<1>4. ASSUME NEW f \in TcpFlag
      PROVE  st.agg[f] = Cardinality({i \in 1 .. n : f \in Unrolled(st)[i].flags})
  <2> DEFINE A == {i \in 1 .. n : f \in Unrolled(st)[i].flags}
             e == [k \in 1 .. n |-> Contribution(f, Unrolled(st)[k])]
  <2>1. st.agg[f] = SumOf(n, e)
    BY <1>2, AggregateIsSum
  <2>2. \A k \in 1 .. n : e[k] = IF k \in A THEN 1 ELSE 0
    <3> SUFFICES ASSUME NEW k \in 1 .. n PROVE e[k] = IF k \in A THEN 1 ELSE 0
      OBVIOUS
    <3>1. Contribution(f, Unrolled(st)[k]) = IF f \in Unrolled(st)[k].flags THEN 1 ELSE 0
      BY DEF Contribution, TcpFlag
    <3> QED
      BY <3>1
  <2> HIDE DEF e
  <2>3. SumOf(n, e) = Cardinality({i \in 1 .. n : i \in A})
    <3> HIDE DEF A
    <3> QED
      BY ONLY <1>1, <2>2, SumCounts
  <2>4. {i \in 1 .. n : i \in A} = A
    OBVIOUS
  <2> QED
    BY <2>1, <2>3, <2>4
<1>5. m.fwd_bwd_ratio[1] = st.agg["packets_fwd"] /\ \A f \in TcpFlag : m.flag_ratio[f][1] = st.agg[f]
  BY DEF ComputeMetrics
<1> HIDE DEF m
<1> QED
  BY <1>3, <1>4, <1>5 DEF m

\* The sorted timestamps: ascending, and the same values as in the window.
LEMMA SortedFacts ==
  ASSUME NEW Addr, NEW st, Sound(Addr, st)
  PROVE  /\ SortedTimes(st) \in [1 .. st.count -> Nat]
         /\ \A i, j \in 1 .. st.count : i <= j => SortedTimes(st)[i] <= SortedTimes(st)[j]
         /\ \A i \in 1 .. st.count : \E k \in 1 .. st.count :
                                       SortedTimes(st)[i] = Unrolled(st)[k].time
         /\ \A k \in 1 .. st.count : \E i \in 1 .. st.count :
                                       Unrolled(st)[k].time = SortedTimes(st)[i]
<1> DEFINE n == st.count
           at == ArrivalTimes(st)
           Choices == {[k \in 1 .. n |-> at[o[k]]] : o \in Bijection(1 .. n, 1 .. n)}
           Up(ts) == \A i, j \in 1 .. n : i <= j => ts[i] <= ts[j]
<1>1. n \in Nat /\ \A k \in 1 .. n : Unrolled(st)[k] \in PacketSummary
  BY SoundFacts
<1>2. at \in [1 .. n -> Nat] /\ \A k \in 1 .. n : at[k] = Unrolled(st)[k].time
  BY <1>1 DEF ArrivalTimes, PacketSummary
<1>3. SortedTimes(st) = CHOOSE ts \in Choices : Up(ts)
  BY DEF SortedTimes
<1> HIDE DEF at, n
<1>4. \A o \in Bijection(1 .. n, 1 .. n) :
         /\ \A k \in 1 .. n : o[k] \in 1 .. n
         /\ \A k \in 1 .. n : \E i \in 1 .. n : o[i] = k
  BY DEF Bijection, Injection, Surjection, IsInjective
<1>5. \E ts \in Choices : Up(ts)
  <2>1. at \in [1 .. n -> Int]
    BY <1>2
  <2>2. PICK o : Sorts(o, n, at)
    BY ONLY <1>1, <2>1, SortExists
  <2> DEFINE ts == [k \in 1 .. n |-> at[o[k]]]
  <2>3. ts \in Choices /\ Up(ts)
    BY <2>2 DEF Sorts
  <2> QED
    BY ONLY <2>3
<1> DEFINE ts == SortedTimes(st)
<1>6. ts \in Choices /\ Up(ts)
  <2> HIDE DEF Choices, Up
  <2> QED
    BY <1>3, <1>5
<1> HIDE DEF ts
<1>7. PICK o \in Bijection(1 .. n, 1 .. n) : ts = [k \in 1 .. n |-> at[o[k]]]
  BY ONLY <1>6
<1>8. \A k \in 1 .. n : o[k] \in 1 .. n /\ ts[k] = at[o[k]]
  BY <1>4, <1>7
<1>9. \A k \in 1 .. n : \E i \in 1 .. n : o[i] = k
  BY <1>4
<1>10. ts \in [1 .. n -> Nat]
  BY ONLY <1>2, <1>7, <1>8
<1>11. \A i \in 1 .. n : \E k \in 1 .. n : ts[i] = Unrolled(st)[k].time
  BY ONLY <1>2, <1>8
<1>12. ASSUME NEW k \in 1 .. n PROVE \E i \in 1 .. n : Unrolled(st)[k].time = ts[i]
  <2>1. PICK i \in 1 .. n : o[i] = k
    BY <1>9
  <2>2. Unrolled(st)[k].time = at[k] /\ ts[i] = at[o[i]]
    BY <1>2, <1>8
  <2> QED
    BY ONLY <2>1, <2>2
<1> QED
  BY <1>6, <1>10, <1>11, <1>12 DEF ts, n

\* The gaps between the sorted timestamps add up to the first and the last.
LEMMA Telescope ==
  ASSUME NEW n \in Nat, NEW ts, \A k \in 1 .. n + 1 : ts[k] \in Int,
         NEW g, \A k \in 1 .. n : g[k] = ts[k + 1] - ts[k]
  PROVE  SumOf(n, g) = ts[n + 1] - ts[1]
<1> DEFINE T == {k \in 0 .. n : SumOf(k, g) = ts[k + 1] - ts[1]}
<1>1. 0 \in T
  <2>1. ts[1] \in Int /\ 0 + 1 = 1
    OBVIOUS
  <2> QED
    BY <2>1, SumStep
<1>2. ASSUME NEW k \in 0 .. n - 1, k \in T PROVE k + 1 \in T
  <2>1. /\ k \in Nat /\ k + 1 \in 0 .. n /\ k + 1 \in 1 .. n
        /\ 1 \in 1 .. n + 1 /\ k + 1 \in 1 .. n + 1 /\ (k + 1) + 1 \in 1 .. n + 1
    OBVIOUS
  <2>2. SumOf(k + 1, g) = SumOf(k, g) + g[k + 1]
    BY <2>1, SumStep
  <2>3. g[k + 1] = ts[(k + 1) + 1] - ts[k + 1]
    BY <2>1
  <2>4. ts[1] \in Int /\ ts[k + 1] \in Int /\ ts[(k + 1) + 1] \in Int
    BY <2>1
  <2>5. SumOf(k, g) = ts[k + 1] - ts[1]
    BY <1>2
  <2>6. SumOf(k + 1, g) = ts[(k + 1) + 1] - ts[1]
    BY ONLY <2>2, <2>3, <2>4, <2>5
  <2> QED
    BY <2>1, <2>6
<1> HIDE DEF T
<1>3. 0 .. n \subseteq T
  BY ONLY n \in Nat, <1>1, <1>2, UpTo
<1> QED
  BY <1>3, n \in 0 .. n DEF T

\* The loop over the sorted timestamps computes the sums of the gaps and of
\* their squares.
LEMMA IntervalLoop ==
  ASSUME NEW st, st.count \in Nat \ {0, 1}, NEW g, NEW q,
         \A k \in 1 .. st.count - 1 :
            /\ g[k] = SortedTimes(st)[k + 1] - SortedTimes(st)[k]
            /\ q[k] = g[k] * g[k]
  PROVE  IntervalSums(st) = <<SumOf(st.count - 1, g), SumOf(st.count - 1, q)>>
<1> DEFINE n == st.count
           ts == SortedTimes(st)
           Loop(s) == s = [k \in 1 .. n |->
                             IF k = 1 THEN <<0, 0>>
                             ELSE LET gap == ts[k] - ts[k - 1]
                                  IN  <<s[k - 1][1] + gap, s[k - 1][2] + gap * gap>>]
           sums == CHOOSE s : Loop(s)
           h == [k \in 1 .. n |-> <<SumOf(k - 1, g), SumOf(k - 1, q)>>]
<1>1. IntervalSums(st) = sums[n]
  BY DEF IntervalSums
<1>2. n \in Nat \ {0, 1} /\ \A k \in 1 .. n - 1 : g[k] = ts[k + 1] - ts[k] /\ q[k] = g[k] * g[k]
  OBVIOUS
<1> HIDE DEF n, ts
<1>3. \A k \in 2 .. n : /\ SumOf(k - 1, g) = SumOf(k - 2, g) + (ts[k] - ts[k - 1])
                        /\ SumOf(k - 1, q) = SumOf(k - 2, q)
                                               + (ts[k] - ts[k - 1]) * (ts[k] - ts[k - 1])
  <2> SUFFICES ASSUME NEW k \in 2 .. n
               PROVE  /\ SumOf(k - 1, g) = SumOf(k - 2, g) + (ts[k] - ts[k - 1])
                      /\ SumOf(k - 1, q) = SumOf(k - 2, q)
                                             + (ts[k] - ts[k - 1]) * (ts[k] - ts[k - 1])
    OBVIOUS
  <2>1. k - 2 \in Nat /\ (k - 2) + 1 = k - 1 /\ k - 1 \in 1 .. n - 1 /\ (k - 1) + 1 = k
    BY <1>2
  <2>2. /\ SumOf(k - 1, g) = SumOf(k - 2, g) + g[k - 1]
        /\ SumOf(k - 1, q) = SumOf(k - 2, q) + q[k - 1]
    BY ONLY <2>1, SumStep
  <2>3. g[k - 1] = ts[k] - ts[k - 1] /\ q[k - 1] = g[k - 1] * g[k - 1]
    BY ONLY <1>2, <2>1
  <2> QED
    BY ONLY <2>2, <2>3
<1>4. \A k \in 2 .. n : k # 1 /\ k - 1 \in 1 .. n /\ (k - 1) - 1 = k - 2
  BY <1>2
<1>5. SumOf(0, g) = 0 /\ SumOf(0, q) = 0
  BY SumStep
<1>6. \A k \in 1 .. n : k = 1 \/ k \in 2 .. n
  BY <1>2
<1>7. Loop(h)
  <2> DEFINE next(k) == IF k = 1 THEN <<0, 0>>
                        ELSE LET gap == ts[k] - ts[k - 1]
                             IN  <<h[k - 1][1] + gap, h[k - 1][2] + gap * gap>>
  <2>1. ASSUME NEW k \in 1 .. n PROVE h[k] = next(k)
    <3>1. CASE k = 1
      BY <1>5, <3>1
    <3>2. CASE k \in 2 .. n
      <4>1. h[k - 1] = <<SumOf(k - 2, g), SumOf(k - 2, q)>>
        BY <1>4, <3>2
      <4> QED
        BY <1>3, <1>4, <3>2, <4>1
    <3> QED
      BY <1>6, <3>1, <3>2
  <2>2. h = [k \in 1 .. n |-> h[k]]
    OBVIOUS
  <2>3. h = [k \in 1 .. n |-> next(k)]
    <3> HIDE DEF h, next
    <3> QED
      BY <2>1, <2>2
  <2> HIDE DEF h
  <2> QED
    BY <2>3
<1>8. Loop(sums)
  <2> HIDE DEF Loop, h
  <2> QED
    BY <1>7
<1> HIDE DEF sums
<1>9. /\ sums[1] = <<0, 0>>
      /\ \A k \in 2 .. n : sums[k] = <<sums[k - 1][1] + (ts[k] - ts[k - 1]),
                                       sums[k - 1][2] + (ts[k] - ts[k - 1]) * (ts[k] - ts[k - 1])>>
  <2>1. 1 \in 1 .. n /\ \A k \in 2 .. n : k \in 1 .. n
    BY <1>2
  <2> QED
    BY <1>4, <1>8, <2>1
<1> DEFINE T == {k \in 0 .. n - 1 : sums[k + 1] = h[k + 1]}
<1>10. 0 \in T
  <2>1. 0 \in 0 .. n - 1 /\ 1 \in 1 .. n /\ 0 + 1 = 1 /\ 1 - 1 = 0
    BY ONLY <1>2
  <2>2. h[1] = <<0, 0>>
    BY <1>5, <2>1
  <2> HIDE DEF h
  <2> QED
    BY <1>9, <2>1, <2>2
<1>11. ASSUME NEW k \in 0 .. (n - 1) - 1, k \in T PROVE k + 1 \in T
  <2>1. /\ k + 1 \in 0 .. n - 1 /\ (k + 1) + 1 \in 2 .. n /\ (k + 1) + 1 \in 1 .. n /\ k + 1 \in 1 .. n
        /\ ((k + 1) + 1) - 1 = k + 1 /\ ((k + 1) + 1) - 2 = k /\ (k + 1) - 1 = k
    BY <1>2
  <2>2. sums[k + 1] = <<SumOf(k, g), SumOf(k, q)>>
    BY <1>11, <2>1
  <2>3. sums[(k + 1) + 1] = h[(k + 1) + 1]
    BY <1>3, <1>9, <2>1, <2>2
  <2> QED
    BY <2>1, <2>3
<1> HIDE DEF T
<1>12. 0 .. n - 1 \subseteq T
  <2>1. n - 1 \in Nat
    BY <1>2
  <2> QED
    BY ONLY <2>1, <1>10, <1>11, UpTo
<1>13. sums[n] = h[n]
  <2>1. n - 1 \in 0 .. n - 1 /\ (n - 1) + 1 = n
    BY <1>2
  <2> QED
    BY <1>12, <2>1 DEF T
<1> QED
  BY <1>1, <1>2, <1>13 DEF n

\* The least and the largest timestamp of the slots scanned are the first and the
\* last of the sorted ones.
LEMMA ScanFacts ==
  ASSUME NEW Addr, NEW st, Sound(Addr, st), st.count # 0
  PROVE  MinTime(st) = SortedTimes(st)[1] /\ MaxTime(st) = SortedTimes(st)[st.count]
<1> DEFINE n == st.count
           ts == SortedTimes(st)
           seen == {st.buffer[i].time : i \in Live(st)}
<1>1. n \in Nat \ {0} /\ 1 \in 1 .. n /\ n \in 1 .. n
  BY SoundFacts
<1>2. /\ ts \in [1 .. n -> Nat]
      /\ \A i, j \in 1 .. n : i <= j => ts[i] <= ts[j]
      /\ \A i \in 1 .. n : \E k \in 1 .. n : ts[i] = Unrolled(st)[k].time
      /\ \A k \in 1 .. n : \E i \in 1 .. n : Unrolled(st)[k].time = ts[i]
  <2>1. ts \in [1 .. n -> Nat]
    BY SortedFacts
  <2>2. \A i, j \in 1 .. n : i <= j => ts[i] <= ts[j]
    BY SortedFacts
  <2>3. \A i \in 1 .. n : \E k \in 1 .. n : ts[i] = Unrolled(st)[k].time
    BY SortedFacts
  <2>4. \A k \in 1 .. n : \E i \in 1 .. n : Unrolled(st)[k].time = ts[i]
    BY SortedFacts
  <2> QED
    BY ONLY <2>1, <2>2, <2>3, <2>4
<1>3. /\ \A k \in 1 .. n : UnrollSlot(st, k) \in Live(st)
      /\ \A i \in Live(st) : \E k \in 1 .. n : UnrollSlot(st, k) = i
  <2> DEFINE b == [k \in 1 .. n |-> UnrollSlot(st, k)]
  <2>1. b \in Bijection(1 .. n, Live(st)) /\ \A k \in 1 .. n : b[k] = UnrollSlot(st, k)
    BY UnrollOrder
  <2> HIDE DEF b, n
  <2> QED
    BY <2>1 DEF Bijection, Injection, Surjection, IsInjective
<1>4. \A k \in 1 .. n : Unrolled(st)[k] = st.buffer[UnrollSlot(st, k)]
  BY SoundFacts
<1> HIDE DEF n, ts
<1>0. \A k \in 1 .. n : ts[k] \in Nat /\ ts[1] <= ts[k] /\ ts[k] <= ts[n]
  <2>1. ts \in [1 .. n -> Nat] /\ \A i, j \in 1 .. n : i <= j => ts[i] <= ts[j]
    BY <1>2
  <2> QED
    BY ONLY <1>1, <2>1
<1>5. \A i \in Live(st) : \E k \in 1 .. n : st.buffer[i].time = ts[k]
  <2> SUFFICES ASSUME NEW i \in Live(st) PROVE \E k \in 1 .. n : st.buffer[i].time = ts[k]
    OBVIOUS
  <2>1. PICK k \in 1 .. n : UnrollSlot(st, k) = i
    BY <1>3
  <2>2. Unrolled(st)[k].time = st.buffer[i].time
    BY <1>4, <2>1
  <2> QED
    BY <1>2, <2>2
<1>6. ts[1] \in seen /\ ts[n] \in seen
  <2>1. ASSUME NEW i \in 1 .. n PROVE ts[i] \in seen
    <3>1. PICK k \in 1 .. n : ts[i] = Unrolled(st)[k].time
      BY <1>2
    <3> QED
      BY <1>3, <1>4, <3>1
  <2> QED
    BY <1>1, <2>1
<1>7. \A i \in Live(st) : ts[1] <= st.buffer[i].time /\ ts[n] >= st.buffer[i].time
  <2> SUFFICES ASSUME NEW i \in Live(st)
               PROVE  ts[1] <= st.buffer[i].time /\ ts[n] >= st.buffer[i].time
    OBVIOUS
  <2>1. PICK k \in 1 .. n : st.buffer[i].time = ts[k]
    BY <1>5
  <2> QED
    BY <1>0, <1>1, <2>1
<1>8. \A x \in seen : \E k \in 1 .. n : x = ts[k]
  BY <1>5
<1>9. \A x \in seen : x \in Nat
  BY ONLY <1>0, <1>8
<1>10. MinTime(st) = ts[1]
  <2>1. MinTime(st) = CHOOSE t \in seen : \A i \in Live(st) : t <= st.buffer[i].time
    BY DEF MinTime
  <2>2. \A t \in seen : (\A i \in Live(st) : t <= st.buffer[i].time) => t = ts[1]
    <3> SUFFICES ASSUME NEW t \in seen, \A i \in Live(st) : t <= st.buffer[i].time
                 PROVE  t = ts[1]
      OBVIOUS
    <3>1. t <= ts[1]
      BY <1>6
    <3>2. ts[1] <= t
      BY <1>7
    <3> QED
      BY <1>6, <1>9, <3>1, <3>2
  <2> HIDE DEF seen
  <2> QED
    BY <1>6, <1>7, <2>1, <2>2
<1>11. MaxTime(st) = ts[n]
  <2>1. MaxTime(st) = CHOOSE t \in seen : \A i \in Live(st) : t >= st.buffer[i].time
    BY DEF MaxTime
  <2>2. \A t \in seen : (\A i \in Live(st) : t >= st.buffer[i].time) => t = ts[n]
    <3> SUFFICES ASSUME NEW t \in seen, \A i \in Live(st) : t >= st.buffer[i].time
                 PROVE  t = ts[n]
      OBVIOUS
    <3>1. t >= ts[n]
      BY <1>6
    <3>2. ts[n] >= t
      BY <1>7
    <3> QED
      BY <1>6, <1>9, <3>1, <3>2
  <2> HIDE DEF seen
  <2> QED
    BY <1>6, <1>7, <2>1, <2>2
<1> QED
  BY <1>10, <1>11 DEF ts, n

\* What MetricsDescribeWindow calls the span: from the first to the last of the
\* sorted timestamps.
Span(times) == CHOOSE d \in {t - u : t, u \in times} : \A t, u \in times : t - u <= d

LEMMA SpanFacts ==
  ASSUME NEW Addr, NEW st, Sound(Addr, st), st.count # 0
  PROVE  Span({Unrolled(st)[i].time : i \in 1 .. st.count})
           = SortedTimes(st)[st.count] - SortedTimes(st)[1]
<1> DEFINE n == st.count
           ts == SortedTimes(st)
           times == {Unrolled(st)[i].time : i \in 1 .. n}
           d == ts[n] - ts[1]
<1>1. n \in Nat \ {0} /\ 1 \in 1 .. n /\ n \in 1 .. n
  BY SoundFacts
<1>2. /\ ts \in [1 .. n -> Nat]
      /\ \A i, j \in 1 .. n : i <= j => ts[i] <= ts[j]
      /\ \A i \in 1 .. n : \E k \in 1 .. n : ts[i] = Unrolled(st)[k].time
      /\ \A k \in 1 .. n : \E i \in 1 .. n : Unrolled(st)[k].time = ts[i]
  <2>1. ts \in [1 .. n -> Nat]
    BY SortedFacts
  <2>2. \A i, j \in 1 .. n : i <= j => ts[i] <= ts[j]
    BY SortedFacts
  <2>3. \A i \in 1 .. n : \E k \in 1 .. n : ts[i] = Unrolled(st)[k].time
    BY SortedFacts
  <2>4. \A k \in 1 .. n : \E i \in 1 .. n : Unrolled(st)[k].time = ts[i]
    BY SortedFacts
  <2> QED
    BY ONLY <2>1, <2>2, <2>3, <2>4
<1> HIDE DEF n, ts
<1>0. \A k \in 1 .. n : ts[k] \in Nat /\ ts[1] <= ts[k] /\ ts[k] <= ts[n]
  <2>1. ts \in [1 .. n -> Nat] /\ \A i, j \in 1 .. n : i <= j => ts[i] <= ts[j]
    BY <1>2
  <2> QED
    BY ONLY <1>1, <2>1
<1>3. ts[1] \in times /\ ts[n] \in times
  BY <1>1, <1>2
<1>4. \A t \in times : t \in Nat /\ ts[1] <= t /\ t <= ts[n]
  <2> SUFFICES ASSUME NEW t \in times PROVE t \in Nat /\ ts[1] <= t /\ t <= ts[n]
    OBVIOUS
  <2>1. PICK k \in 1 .. n : t = ts[k]
    BY <1>2
  <2> QED
    BY <1>0, <2>1
<1> HIDE DEF times
<1>5. d \in {t - u : t, u \in times} /\ \A t, u \in times : t - u <= d
  BY <1>3, <1>4
<1>6. ASSUME NEW e \in {t - u : t, u \in times}, \A t, u \in times : t - u <= e
      PROVE  e = d
  <2>1. PICK t \in times, u \in times : e = t - u
    BY <1>6
  <2>2. e <= d /\ d <= e /\ e \in Int /\ d \in Int
    BY <1>3, <1>4, <1>6, <2>1
  <2> QED
    BY <2>2
<1>7. Span(times) = d
  <2> HIDE DEF d
  <2> QED
    BY <1>5, <1>6 DEF Span
<1> QED
  BY <1>7 DEF times, n, ts

\* The times: the intervals add up to the span, their variance is that of the
\* gaps, and the rates divide by the span.
LEMMA TimeFeatures ==
  ASSUME NEW Addr, NEW st, Sound(Addr, st),
         NEW g, \A k \in 1 .. st.count - 1 : g[k] = SortedTimes(st)[k + 1] - SortedTimes(st)[k]
  PROVE  LET m    == ComputeMetrics(st)
             span == IF st.count = 0 THEN 0
                     ELSE Span({Unrolled(st)[i].time : i \in 1 .. st.count})
         IN  /\ m.mean_interval[1] = span
             /\ 2 * m.var_interval[1] = PairSpread(AtLeast1(st.count) - 1, g)
             /\ m.var_interval[1] >= 0
             /\ m.packet_rate[2] = IF span = 0 THEN 1 ELSE span
<1> DEFINE n == st.count
           ts == SortedTimes(st)
           m == ComputeMetrics(st)
           sums == IntervalSums(st)
           k1 == AtLeast1(n - 1)
           span == IF n = 0 THEN 0 ELSE Span({Unrolled(st)[i].time : i \in 1 .. n})
<1>1. n \in Nat
  BY SoundFacts
<1>2. /\ m.mean_interval[1] = sums[1]
      /\ m.var_interval[1] = k1 * sums[2] - sums[1] * sums[1]
      /\ m.packet_rate[2] = Duration(st)
  BY DEF ComputeMetrics
<1>3. \A k \in 1 .. n : ts[k] \in Nat
  BY SortedFacts
<1>4. n # 0 => /\ MinTime(st) = ts[1] /\ MaxTime(st) = ts[n]
               /\ span = ts[n] - ts[1]
  BY ScanFacts, SpanFacts
<1>5. Duration(st) = IF n > 1 /\ MaxTime(st) > MinTime(st) THEN MaxTime(st) - MinTime(st) ELSE 1
  BY DEF Duration
<1>6. CASE n \in {0, 1}
  <2>1. sums = <<0, 0>>
    BY <1>6 DEF IntervalSums
  <2>2. span = 0
    BY <1>3, <1>4, <1>6
  <2>3. k1 = 1 /\ AtLeast1(n) - 1 = 0
    BY <1>6 DEF AtLeast1
  <2>4. PairSpread(0, g) = 0
    BY SumStep DEF PairSpread
  <2>5. Duration(st) = 1
    BY <1>5, <1>6
  <2> HIDE DEF m, sums, k1, span, n
  <2>6. /\ m.mean_interval[1] = span
        /\ 2 * m.var_interval[1] = PairSpread(AtLeast1(n) - 1, g)
        /\ m.var_interval[1] >= 0
        /\ m.packet_rate[2] = IF span = 0 THEN 1 ELSE span
    BY <1>2, <2>1, <2>2, <2>3, <2>4, <2>5
  <2> QED
    BY <2>6 DEF m, span, n
<1>7. CASE n \in Nat \ {0, 1}
  <2> DEFINE q == [k \in 1 .. n - 1 |-> g[k] * g[k]]
  <2>1. sums = <<SumOf(n - 1, g), SumOf(n - 1, q)>>
    <3>1. \A k \in 1 .. n - 1 : g[k] = ts[k + 1] - ts[k] /\ q[k] = g[k] * g[k]
      OBVIOUS
    <3> HIDE DEF q
    <3> QED
      BY <1>7, <3>1, IntervalLoop
  <2>2. \A k \in 1 .. n - 1 : g[k] \in Int /\ q[k] = g[k] * g[k]
    <3>1. \A k \in 1 .. n - 1 : k \in 1 .. n /\ k + 1 \in 1 .. n
      BY <1>7
    <3> HIDE DEF n, ts
    <3>2. \A k \in 1 .. n - 1 : g[k] = ts[k + 1] - ts[k]
      BY DEF n, ts
    <3>3. \A k \in 1 .. n - 1 : g[k] \in Int
      BY ONLY <1>3, <3>1, <3>2
    <3> QED
      BY <3>3
  <2>3. SumOf(n - 1, g) = ts[n] - ts[1]
    <3>1. n - 1 \in Nat /\ (n - 1) + 1 = n
      BY <1>7
    <3>2. \A k \in 1 .. (n - 1) + 1 : ts[k] \in Int
      BY <1>3, <3>1
    <3>3. \A k \in 1 .. n - 1 : g[k] = ts[k + 1] - ts[k]
      OBVIOUS
    <3> HIDE DEF n, ts
    <3>4. SumOf(n - 1, g) = ts[(n - 1) + 1] - ts[1]
      BY ONLY <3>1, <3>2, <3>3, Telescope
    <3> QED
      BY <3>1, <3>4
  <2>4. k1 = n - 1 /\ AtLeast1(n) - 1 = n - 1 /\ n - 1 \in Nat
    BY <1>7 DEF AtLeast1
  <2> HIDE DEF n, ts, m, sums, k1, q, span
  <2>5. /\ PairSpread(n - 1, g) = 2 * ((n - 1) * SumOf(n - 1, q) - SumOf(n - 1, g) * SumOf(n - 1, g))
        /\ PairSpread(n - 1, g) \in Nat
    BY ONLY <2>2, <2>4, SpreadFromSums
  <2> DEFINE v == (n - 1) * SumOf(n - 1, q) - SumOf(n - 1, g) * SumOf(n - 1, g)
  <2>6. m.var_interval[1] = v
    BY <1>2, <2>1, <2>4
  <2>7. v \in Int
    <3>1. \A k \in 1 .. n - 1 : g[k] \in Int /\ q[k] \in Int
      BY ONLY <2>2
    <3>2. SumOf(n - 1, g) \in Int /\ SumOf(n - 1, q) \in Int
      BY ONLY <2>4, <3>1, SumType
    <3> QED
      BY ONLY <2>4, <3>2
  <2>8. 2 * m.var_interval[1] = PairSpread(AtLeast1(n) - 1, g) /\ m.var_interval[1] >= 0
    <3> HIDE DEF v
    <3>1. PairSpread(n - 1, g) = 2 * v
      BY <2>5 DEF v
    <3> QED
      BY ONLY <2>4, <2>5, <2>6, <2>7, <3>1
  <2>9. ts[1] \in Nat /\ ts[n] \in Nat /\ n > 1 /\ n # 0
    BY <1>3, <1>7
  <2>10. ts[1] <= ts[n]
    <3>1. \A i, j \in 1 .. n : i <= j => ts[i] <= ts[j]
      BY SortedFacts DEF n, ts
    <3> QED
      BY ONLY <1>7, <3>1
  <2>11. m.mean_interval[1] = span
    BY <1>2, <1>4, <2>1, <2>3, <2>9
  <2>12. m.packet_rate[2] = IF span = 0 THEN 1 ELSE span
    BY ONLY <1>2, <1>4, <1>5, <2>9, <2>10
  <2> QED
    BY <2>8, <2>11, <2>12 DEF n, m, span
<1> QED
  BY <1>1, <1>6, <1>7

\* The features handed to the detector describe the packets of the window, for
\* every window size and every traffic (compute_metrics of aggregator.rs): the
\* variances are spreads and never negative, the intervals cover the span.
THEOREM MetricsRight == Spec => []MetricsDescribeWindow
<1>1. ASSUME Sound(IPs, state) PROVE MetricsDescribeWindow
  <2> DEFINE w == Unrolled(state)
             n == state.count
             m == ComputeMetrics(state)
             bytes == [i \in 1 .. n |-> w[i].len]
             gaps == [i \in 1 .. n - 1 |-> SortedTimes(state)[i + 1] - SortedTimes(state)[i]]
             span == IF n = 0 THEN 0 ELSE Span({w[i].time : i \in 1 .. n})
  <2>1. Len(w) = n
    BY <1>1, SoundFacts
  <2>2. /\ m.mean_len[1] = SumOf(n, bytes)
        /\ 2 * m.var_len[1] = PairSpread(n, bytes)
        /\ m.byte_rate[1] = 1000 * m.mean_len[1]
    <3>1. \A k \in 1 .. n : bytes[k] = w[k].len
      OBVIOUS
    <3> HIDE DEF bytes
    <3> QED
      BY <1>1, <3>1, LengthFeatures
  <2>3. /\ m.mean_interval[1] = span
        /\ 2 * m.var_interval[1] = PairSpread(AtLeast1(n) - 1, gaps)
        /\ m.var_interval[1] >= 0
        /\ m.packet_rate[2] = IF span = 0 THEN 1 ELSE span
    <3>1. \A k \in 1 .. n - 1 : gaps[k] = SortedTimes(state)[k + 1] - SortedTimes(state)[k]
      OBVIOUS
    <3> HIDE DEF gaps
    <3> QED
      BY <1>1, <3>1, TimeFeatures
  <2>4. /\ m.fwd_bwd_ratio[1] + state.agg["packets_bwd"] = n
        /\ \A f \in TcpFlag : m.flag_ratio[f][1] = Cardinality({i \in 1 .. n : f \in w[i].flags})
    BY <1>1, PacketFeatures
  <2> HIDE DEF m
  <2> QED
    BY <2>1, <2>2, <2>3, <2>4 DEF MetricsDescribeWindow, Span, m
<1>2. Init => WindowInv
  BY NewStateType DEF Init, WindowInv, TypeOK, AggregatesOfWindow
<1>3. WindowInv => Sound(IPs, state)
  BY DEF WindowInv, TypeOK, AggregatesOfWindow, Sound
<1> QED
  BY <1>1, <1>2, <1>3, WindowInvStep, PTL DEF Spec
=============================================================================
