-------------------------- MODULE FlowStateProofs --------------------------
(***************************************************************************)
(* Lemmas about FlowState, for every window size: `update` and `reset`     *)
(* keep the O(1) aggregates equal to the sums over the window, and the     *)
(* ring buffer read from `head` is the sequence of the last packets.       *)
(***************************************************************************)
EXTENDS FlowState, FiniteSetTheorems, FunctionTheorems, SequenceTheorems, TLAPS

-----------------------------------------------------------------------------
(* Sums written as cardinalities.                                          *)

\* The pairs <<i, unit>> counted by w over the indices S.
Pairs(S, w) == UNION {{i} \X (1 .. w[i]) : i \in S}

\* The pairs of one index: w[i] of them.
LEMMA SliceCardinality ==
  ASSUME NEW i, NEW n \in Nat
  PROVE  IsFiniteSet({i} \X (1 .. n)) /\ Cardinality({i} \X (1 .. n)) = n
<1>1. IsFiniteSet({i}) /\ Cardinality({i}) = 1
  BY FS_Singleton
<1>2. IsFiniteSet(1 .. n) /\ Cardinality(1 .. n) = n
  BY FS_Interval
<1>3. /\ IsFiniteSet({i} \X (1 .. n))
      /\ Cardinality({i} \X (1 .. n)) = Cardinality({i}) * Cardinality(1 .. n)
  BY <1>1, <1>2, FS_Product, Zenon
<1> DEFINE slice == {i} \X (1 .. n)
<1> HIDE DEF slice
<1>4. 1 * n = n
  OBVIOUS
<1> QED
  BY <1>1, <1>2, <1>3, <1>4, Zenon DEF slice

\* Finitely many indices with finite weights make finitely many pairs.
LEMMA PairsFinite ==
  ASSUME NEW S, IsFiniteSet(S), NEW w, \A i \in S : w[i] \in Nat
  PROVE  IsFiniteSet(Pairs(S, w))
<1> DEFINE T == {{i} \X (1 .. w[i]) : i \in S}
           f == [i \in S |-> {i} \X (1 .. w[i])]
<1>1. f \in Surjection(S, T)
  BY DEF Surjection
<1>2. IsFiniteSet(T)
  BY <1>1, FS_Surjection
<1>3. \A s \in T : IsFiniteSet(s)
  <2>1. \A i \in S : IsFiniteSet({i} \X (1 .. w[i]))
    BY SliceCardinality, Zenon
  <2> QED
    BY <2>1, Zenon
<1> QED
  BY <1>2, <1>3, FS_UNION DEF Pairs

\* One more index adds its weight.
LEMMA PairsInsert ==
  ASSUME NEW S, IsFiniteSet(S), NEW x, x \notin S,
         NEW w, \A i \in S \union {x} : w[i] \in Nat
  PROVE  Cardinality(Pairs(S \union {x}, w)) = Cardinality(Pairs(S, w)) + w[x]
<1> DEFINE slice == {x} \X (1 .. w[x])
<1>1. IsFiniteSet(Pairs(S, w)) /\ IsFiniteSet(slice) /\ Cardinality(slice) = w[x]
  BY PairsFinite, SliceCardinality
<1>2. Pairs(S \union {x}, w) = Pairs(S, w) \union slice
  BY DEF Pairs
<1>3. Pairs(S, w) \cap slice = {}
  BY DEF Pairs
<1>4. Cardinality(Pairs(S, w)) \in Nat
  BY <1>1, FS_CardinalityType
<1>5. Cardinality(Pairs(S, w) \cap slice) = 0
  BY <1>3, FS_EmptySet
<1>6. Cardinality(Pairs(S, w) \union slice)
        = Cardinality(Pairs(S, w)) + Cardinality(slice) - Cardinality(Pairs(S, w) \cap slice)
  BY <1>1, FS_Union
<1>7. Cardinality(Pairs(S \union {x}, w)) = Cardinality(Pairs(S, w)) + w[x] - 0
  BY <1>1, <1>2, <1>5, <1>6, Zenon
<1>8. w[x] \in Nat
  OBVIOUS
<1> QED
  BY <1>4, <1>7, <1>8

\* Weights off the index set do not matter.
LEMMA PairsAgree ==
  ASSUME NEW S, NEW v, NEW w, \A i \in S : v[i] = w[i]
  PROVE  Pairs(S, v) = Pairs(S, w)
BY DEF Pairs

-----------------------------------------------------------------------------
(* One update of a FlowState.                                              *)

\* A packet never takes away from a counter it contributes to.
LEMMA ContributionType ==
  ASSUME NEW c \in Counter, NEW pkt \in PacketSummary
  PROVE  Contribution(c, pkt) \in Nat
<1>1. pkt.len \in Nat /\ pkt.len * pkt.len \in Nat
  BY DEF PacketSummary
<1> QED
  BY <1>1 DEF Contribution, Counter, TcpFlag

\* The weights of the slots for one counter.
Weights(st, c) == [i \in Slots |-> Contribution(c, st.buffer[i])]

\* The units a window sum counts are the pairs of the weighted live slots.
LEMMA UnitsArePairs ==
  ASSUME NEW st, Live(st) \subseteq Slots, NEW c
  PROVE  Units(st, c) = Pairs(Live(st), Weights(st, c))
BY DEF Units, Pairs, Weights

\* The fields of an updated state.
LEMMA UpdateFields ==
  ASSUME NEW Addr, NEW st \in StateType(Addr), NEW pkt \in PacketSummary
  PROVE  LET new == Update(st, pkt) IN
         /\ new.initiator_ip = st.initiator_ip
         /\ new.total_packets = st.total_packets + 1
         /\ new.agg = Credit(Retained(st), pkt)
         /\ new.buffer = [st.buffer EXCEPT ![st.head] = pkt]
         /\ new.head = (st.head + 1) % WINDOW_SIZE
         /\ new.count = IF st.count < WINDOW_SIZE THEN st.count + 1 ELSE st.count
BY DEF Update

\* Advancing the write position, without the modulus.
LEMMA NextSlot ==
  ASSUME NEW h \in Slots
  PROVE  (h + 1) % WINDOW_SIZE = IF h + 1 = WINDOW_SIZE THEN 0 ELSE h + 1
BY WindowAssumption DEF Slots

\* An update keeps every aggregate equal to the sum over the window: the
\* packet it debits is exactly the one whose slot it overwrites.
LEMMA UpdateExact ==
  ASSUME NEW Addr, NEW st \in StateType(Addr), WindowShape(st), AggregatesExact(st),
         NEW pkt \in PacketSummary, NEW c \in Counter
  PROVE  Update(st, pkt).agg[c] = WindowSum(Update(st, pkt), c)
<1> DEFINE new == Update(st, pkt)
           full == st.count = WINDOW_SIZE
           kept == IF full THEN Slots \ {st.head} ELSE Live(st)
           v == Weights(st, c)
           w == Weights(new, c)
<1>1. /\ new.agg = Credit(Retained(st), pkt)
      /\ new.buffer = [st.buffer EXCEPT ![st.head] = pkt]
      /\ new.count = IF st.count < WINDOW_SIZE THEN st.count + 1 ELSE st.count
  BY UpdateFields
<1>2. st.head \in Slots /\ st.count \in 0 .. WINDOW_SIZE /\ WINDOW_SIZE \in Nat
      /\ st.buffer \in [Slots -> PacketSummary]
  BY WindowAssumption DEF StateType
<1>3. /\ kept \subseteq Slots
      /\ st.head \notin kept
      /\ Live(new) = kept \union {st.head}
      /\ full => Live(st) = kept \union {st.head}
      /\ ~ full => Live(st) = kept
  BY <1>1, <1>2 DEF Live, Slots, WindowShape
<1>4. IsFiniteSet(kept)
  <2>1. IsFiniteSet(Slots)
    BY <1>2, FS_Interval DEF Slots
  <2> QED
    BY <2>1, <1>3, FS_Subset
<1>5. /\ \A i \in kept : v[i] = w[i]
      /\ v[st.head] = Contribution(c, st.buffer[st.head])
      /\ w[st.head] = Contribution(c, pkt)
  BY <1>1, <1>2, <1>3 DEF Weights
<1>6. /\ \A i \in kept \union {st.head} : v[i] \in Nat
      /\ \A i \in kept \union {st.head} : w[i] \in Nat
  <2>1. \A i \in kept \union {st.head} : st.buffer[i] \in PacketSummary /\ new.buffer[i] \in PacketSummary
    BY <1>1, <1>2, <1>3
  <2>2. kept \union {st.head} \subseteq Slots
    BY <1>2, <1>3
  <2> QED
    BY <2>1, <2>2, ContributionType DEF Weights
<1> HIDE DEF new, full, kept, v, w
<1>7. Cardinality(Pairs(kept, v)) \in Nat
  BY <1>4, <1>6, PairsFinite, FS_CardinalityType
<1>8. Retained(st)[c] = Cardinality(Pairs(kept, v))
  <2>1. st.agg[c] = Cardinality(Pairs(Live(st), v))
    <3>1. Live(st) \subseteq Slots
      BY <1>2 DEF Live, Slots
    <3> QED
      BY <3>1, UnitsArePairs DEF AggregatesExact, WindowSum, v
  <2>2. CASE full
    <3>1. st.agg[c] = Cardinality(Pairs(kept, v)) + v[st.head]
      <4>1. Cardinality(Pairs(kept \union {st.head}, v)) = Cardinality(Pairs(kept, v)) + v[st.head]
        BY <1>3, <1>4, <1>6, PairsInsert
      <4> QED
        BY <2>1, <2>2, <1>3, <4>1
    <3>2. Retained(st)[c] = st.agg[c] - v[st.head]
      BY <2>2, <1>5 DEF Retained, Debit, full
    <3> QED
      BY <3>1, <3>2, <1>6, <1>7
  <2>3. CASE ~ full
    BY <2>1, <2>3, <1>3 DEF Retained, full
  <2> QED
    BY <2>2, <2>3
<1>9. new.agg[c] = Retained(st)[c] + w[st.head]
  BY <1>1, <1>5 DEF Credit
<1>10. Pairs(kept, v) = Pairs(kept, w)
  BY <1>5, PairsAgree
<1>11. Cardinality(Pairs(kept \union {st.head}, w)) = Cardinality(Pairs(kept, w)) + w[st.head]
  BY <1>3, <1>4, <1>6, PairsInsert
<1>12. WindowSum(new, c) = Cardinality(Pairs(kept \union {st.head}, w))
  <2>1. Live(new) \subseteq Slots
    BY <1>2, <1>3
  <2> QED
    BY <2>1, <1>3, UnitsArePairs DEF WindowSum, w
<1> QED
  BY <1>8, <1>9, <1>10, <1>11, <1>12 DEF new

\* An update keeps the record well typed, and the write position at the end
\* of the live prefix until the window is full.
LEMMA UpdateType ==
  ASSUME NEW Addr, NEW st \in StateType(Addr), WindowShape(st), AggregatesExact(st),
         NEW pkt \in PacketSummary
  PROVE  /\ Update(st, pkt) \in StateType(Addr)
         /\ WindowShape(Update(st, pkt))
         /\ AggregatesExact(Update(st, pkt))
<1> DEFINE new == Update(st, pkt)
<1>1. /\ new.initiator_ip = st.initiator_ip
      /\ new.total_packets = st.total_packets + 1
      /\ new.agg = Credit(Retained(st), pkt)
      /\ new.buffer = [st.buffer EXCEPT ![st.head] = pkt]
      /\ new.head = (st.head + 1) % WINDOW_SIZE
      /\ new.count = IF st.count < WINDOW_SIZE THEN st.count + 1 ELSE st.count
  BY UpdateFields
<1>2. /\ st.initiator_ip \in Addr /\ st.total_packets \in Nat
      /\ st.head \in Slots /\ st.count \in 0 .. WINDOW_SIZE
      /\ st.buffer \in [Slots -> PacketSummary] /\ WINDOW_SIZE \in Nat \ {0}
  BY WindowAssumption DEF StateType
<1>3. new.head \in Slots /\ new.count \in 0 .. WINDOW_SIZE /\ WindowShape(new)
  BY <1>1, <1>2, NextSlot DEF WindowShape, Slots
<1>4. AggregatesExact(new)
  BY UpdateExact DEF AggregatesExact
<1>5. \A c \in Counter : WindowSum(new, c) \in Nat
  <2> SUFFICES ASSUME NEW c \in Counter PROVE WindowSum(new, c) \in Nat
    OBVIOUS
  <2>1. Live(new) \subseteq Slots /\ IsFiniteSet(Live(new))
    <3> HIDE DEF new
    <3>1. new.count - 1 \in Int /\ Live(new) \subseteq Slots
      BY <1>2, <1>3 DEF Live, Slots
    <3>2. IsFiniteSet(0 .. new.count - 1)
      BY <3>1, FS_Interval
    <3> QED
      BY <3>1, <3>2 DEF Live
  <2>2. \A i \in Live(new) : Weights(new, c)[i] \in Nat
    <3>1. \A i \in Live(new) : new.buffer[i] \in PacketSummary
      BY <1>1, <1>2, <2>1
    <3> QED
      BY <3>1, <2>1, ContributionType DEF Weights
  <2> QED
    BY <2>1, <2>2, UnitsArePairs, PairsFinite, FS_CardinalityType DEF WindowSum
<1>6. new.agg \in [Counter -> Nat]
  <2>1. new.agg = [c \in Counter |-> Retained(st)[c] + Contribution(c, pkt)]
    BY <1>1 DEF Credit
  <2> QED
    BY <2>1, <1>4, <1>5 DEF AggregatesExact
<1>7. new.buffer \in [Slots -> PacketSummary] /\ new.total_packets \in Nat
  BY <1>1, <1>2
<1>8. new \in StateType(Addr)
  BY <1>1, <1>2, <1>3, <1>6, <1>7 DEF Update, StateType
<1> QED
  BY <1>3, <1>4, <1>8

\* An empty window has no units to count.
LEMMA EmptyWindow ==
  ASSUME NEW st, st.count = 0, NEW c
  PROVE  WindowSum(st, c) = 0
<1>1. Live(st) = {}
  BY DEF Live
<1>2. Units(st, c) = {}
  BY <1>1 DEF Units
<1> QED
  BY <1>2, FS_EmptySet DEF WindowSum

\* FlowState::new is well typed, its window empty and its counters exact.
LEMMA NewStateType ==
  ASSUME NEW Addr, NEW ip \in Addr
  PROVE  /\ NewState(ip) \in StateType(Addr)
         /\ WindowShape(NewState(ip))
         /\ AggregatesExact(NewState(ip))
<1> DEFINE new == NewState(ip)
<1>1. new \in StateType(Addr)
  BY WindowAssumption DEF NewState, StateType, Slots, DefaultSummary, PacketSummary, Direction
<1>2. new.count = 0 /\ new.head = 0 /\ \A c \in Counter : new.agg[c] = 0
  BY DEF NewState
<1> HIDE DEF new
<1>3. WindowShape(new) /\ AggregatesExact(new)
  BY <1>2, EmptyWindow DEF WindowShape, AggregatesExact
<1> QED
  BY <1>1, <1>3 DEF new

\* FlowState::reset leaves a well-typed state whose counters are exact for the
\* empty window, whatever packets its buffer still holds.
LEMMA ResetType ==
  ASSUME NEW Addr, NEW st \in StateType(Addr), NEW ip \in Addr
  PROVE  /\ Reset(st, ip) \in StateType(Addr)
         /\ WindowShape(Reset(st, ip))
         /\ AggregatesExact(Reset(st, ip))
<1> DEFINE new == Reset(st, ip)
<1>1. new \in StateType(Addr)
  BY WindowAssumption DEF Reset, StateType, Slots
<1>2. new.count = 0 /\ new.head = 0 /\ \A c \in Counter : new.agg[c] = 0
  BY DEF Reset
<1> HIDE DEF new
<1>3. WindowShape(new) /\ AggregatesExact(new)
  BY <1>2, EmptyWindow DEF WindowShape, AggregatesExact
<1> QED
  BY <1>1, <1>3 DEF new

-----------------------------------------------------------------------------
(* The ring buffer as a sequence.                                          *)

\* Where the k-th oldest packet lies, without the modulus.
UnrollSlot(st, k) ==
  IF st.count < WINDOW_SIZE THEN k - 1
  ELSE IF st.head + k - 1 < WINDOW_SIZE THEN st.head + k - 1
  ELSE st.head + k - 1 - WINDOW_SIZE

\* The slots the unrolling loop of compute_metrics visits, without the modulus.
LEMMA UnrolledSlots ==
  ASSUME NEW Addr, NEW st \in StateType(Addr), WindowShape(st)
  PROVE  /\ Unrolled(st) = [k \in 1 .. st.count |-> st.buffer[UnrollSlot(st, k)]]
         /\ \A k \in 1 .. st.count : UnrollSlot(st, k) \in Slots
<1>1. st.head \in Slots /\ st.count \in 0 .. WINDOW_SIZE /\ WINDOW_SIZE \in Nat \ {0}
  BY WindowAssumption DEF StateType
<1>2. \A k \in 1 .. st.count :
        /\ (st.head + WINDOW_SIZE - st.count + k - 1) % WINDOW_SIZE = UnrollSlot(st, k)
        /\ UnrollSlot(st, k) \in Slots
  <2> SUFFICES ASSUME NEW k \in 1 .. st.count
               PROVE  /\ (st.head + WINDOW_SIZE - st.count + k - 1) % WINDOW_SIZE = UnrollSlot(st, k)
                      /\ UnrollSlot(st, k) \in Slots
    OBVIOUS
  <2>1. \A a \in 0 .. 2 * WINDOW_SIZE - 1 :
          a % WINDOW_SIZE = IF a < WINDOW_SIZE THEN a ELSE a - WINDOW_SIZE
    BY <1>1
  <2>2. CASE st.count < WINDOW_SIZE
    <3>1. st.head + WINDOW_SIZE - st.count + k - 1 = WINDOW_SIZE + (k - 1)
      BY <1>1, <2>2 DEF WindowShape, Slots
    <3>2. WINDOW_SIZE + (k - 1) \in 0 .. 2 * WINDOW_SIZE - 1
      BY <1>1, <2>2
    <3> QED
      BY <1>1, <2>1, <2>2, <3>1, <3>2 DEF UnrollSlot, Slots
  <2>3. CASE st.count = WINDOW_SIZE
    <3>1. st.head + WINDOW_SIZE - st.count + k - 1 = st.head + k - 1
      BY <1>1, <2>3 DEF Slots
    <3>2. st.head + k - 1 \in 0 .. 2 * WINDOW_SIZE - 1
      BY <1>1, <2>3 DEF Slots
    <3> QED
      BY <1>1, <2>1, <2>3, <3>1, <3>2 DEF UnrollSlot, Slots
  <2> QED
    BY <1>1, <2>2, <2>3
<1> QED
  BY <1>2 DEF Unrolled

\* The unrolled buffer is a sequence of `count` packets.
LEMMA UnrolledType ==
  ASSUME NEW Addr, NEW st \in StateType(Addr), WindowShape(st)
  PROVE  Unrolled(st) \in Seq(PacketSummary) /\ Len(Unrolled(st)) = st.count
<1>1. st.buffer \in [Slots -> PacketSummary] /\ st.count \in Nat
  BY DEF StateType
<1>2. Unrolled(st) \in [1 .. st.count -> PacketSummary]
  BY <1>1, UnrolledSlots
<1> QED
  BY <1>1, <1>2

LastOf(s) == IF Len(s) <= WINDOW_SIZE THEN s ELSE Tail(s)

\* Overwriting the slot at `head` and advancing it is: append, and drop the
\* oldest packet when the window was full.
LEMMA UpdateSlides ==
  ASSUME NEW Addr, NEW st \in StateType(Addr), WindowShape(st), AggregatesExact(st),
         NEW pkt \in PacketSummary
  PROVE  Unrolled(Update(st, pkt)) = LastOf(Append(Unrolled(st), pkt))
<1> DEFINE new == Update(st, pkt)
           old == Unrolled(st)
           s == Append(old, pkt)
<1>1. /\ new.buffer = [st.buffer EXCEPT ![st.head] = pkt]
      /\ new.head = IF st.head + 1 = WINDOW_SIZE THEN 0 ELSE st.head + 1
      /\ new.count = IF st.count < WINDOW_SIZE THEN st.count + 1 ELSE st.count
  BY UpdateFields, NextSlot DEF StateType
<1>2. /\ st.head \in Slots /\ st.count \in 0 .. WINDOW_SIZE /\ WINDOW_SIZE \in Nat \ {0}
      /\ st.buffer \in [Slots -> PacketSummary]
  BY WindowAssumption DEF StateType
<1>3. new \in StateType(Addr) /\ WindowShape(new)
  BY UpdateType
<1>4. old \in Seq(PacketSummary) /\ Len(old) = st.count
  BY UnrolledType
<1>5. \A k \in 1 .. st.count : old[k] = st.buffer[UnrollSlot(st, k)] /\ UnrollSlot(st, k) \in Slots
  BY UnrolledSlots
<1>6. Unrolled(new) = [k \in 1 .. new.count |-> new.buffer[UnrollSlot(new, k)]]
  BY <1>3, UnrolledSlots
<1> HIDE DEF new, old
<1>7. /\ s \in Seq(PacketSummary) /\ Len(s) = st.count + 1
      /\ \A k \in 1 .. st.count : s[k] = old[k]
      /\ s[st.count + 1] = pkt
  BY <1>4, AppendProperties
<1> HIDE DEF s
<1>8. CASE st.count < WINDOW_SIZE
  <2>1. LastOf(s) = s
    BY <1>2, <1>7, <1>8 DEF LastOf
  <2>2. \A k \in 1 .. st.count + 1 : new.buffer[UnrollSlot(new, k)] = s[k]
    <3> SUFFICES ASSUME NEW k \in 1 .. st.count + 1
                 PROVE  new.buffer[UnrollSlot(new, k)] = s[k]
      OBVIOUS
    <3>1. UnrollSlot(new, k) = k - 1
      BY <1>1, <1>2, <1>8 DEF UnrollSlot, WindowShape, Slots
    <3>2. CASE k = st.count + 1
      BY <1>1, <1>2, <1>7, <1>8, <3>1, <3>2 DEF WindowShape, Slots
    <3>3. CASE k \in 1 .. st.count
      <4>1. old[k] = st.buffer[k - 1]
        BY <1>5, <1>8, <3>3 DEF UnrollSlot
      <4>2. k - 1 # st.head /\ k - 1 \in Slots
        BY <1>2, <1>8, <3>3 DEF WindowShape, Slots
      <4> QED
        BY <1>1, <1>2, <1>7, <3>1, <3>3, <4>1, <4>2
    <3> QED
      BY <1>2, <3>2, <3>3
  <2>3. new.count = st.count + 1
    BY <1>1, <1>8
  <2>4. s = [k \in 1 .. st.count + 1 |-> s[k]]
    BY <1>7
  <2>5. Unrolled(new) = s
    BY <1>6, <2>2, <2>3, <2>4
  <2> QED
    BY <2>1, <2>5 DEF new, s, old
<1>9. CASE st.count = WINDOW_SIZE
  <2>1. LastOf(s) = Tail(s)
    BY <1>2, <1>7, <1>9 DEF LastOf
  <2>2. Tail(s) = [k \in 1 .. st.count |-> s[k + 1]]
    <3>1. s # << >>
      BY <1>2, <1>7
    <3>2. /\ Tail(s) \in Seq(PacketSummary) /\ Len(Tail(s)) = Len(s) - 1
          /\ \A k \in 1 .. Len(Tail(s)) : Tail(s)[k] = s[k + 1]
      BY <1>7, <3>1, HeadTailProperties
    <3>3. Len(Tail(s)) = st.count
      BY <1>2, <1>7, <3>2
    <3> DEFINE t == Tail(s)
    <3>4. t \in Seq(PacketSummary) /\ Len(t) = st.count
          /\ \A k \in 1 .. st.count : t[k] = s[k + 1]
      BY <3>2, <3>3
    <3> HIDE DEF t
    <3>5. t = [k \in 1 .. st.count |-> s[k + 1]]
      BY <3>4
    <3> QED
      BY <3>5 DEF t
  <2>3. \A k \in 1 .. st.count : new.buffer[UnrollSlot(new, k)] = s[k + 1]
    <3> SUFFICES ASSUME NEW k \in 1 .. st.count
                 PROVE  new.buffer[UnrollSlot(new, k)] = s[k + 1]
      OBVIOUS
    <3>1. CASE k = st.count
      <4>1. UnrollSlot(new, k) = st.head
        BY <1>1, <1>2, <1>9, <3>1 DEF UnrollSlot, Slots
      <4> QED
        BY <1>1, <1>2, <1>7, <3>1, <4>1
    <3>2. CASE k < st.count
      <4>1. /\ UnrollSlot(new, k) = UnrollSlot(st, k + 1)
            /\ UnrollSlot(new, k) # st.head
            /\ UnrollSlot(new, k) \in Slots
        BY <1>1, <1>2, <1>9, <3>2 DEF UnrollSlot, Slots
      <4>2. s[k + 1] = st.buffer[UnrollSlot(st, k + 1)]
        <5>1. k + 1 \in 1 .. st.count
          BY <1>2, <3>2
        <5> QED
          BY <1>5, <1>7, <5>1
      <4> QED
        BY <1>1, <1>2, <4>1, <4>2
    <3> QED
      BY <1>2, <3>1, <3>2
  <2>4. new.count = st.count
    BY <1>1, <1>9, <1>2
  <2>5. Unrolled(new) = Tail(s)
    BY <1>6, <2>2, <2>3, <2>4
  <2> QED
    BY <2>1, <2>5 DEF new, s, old
<1> QED
  BY <1>2, <1>8, <1>9
=============================================================================
