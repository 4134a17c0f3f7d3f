-------------------------- MODULE FlowTableProofs --------------------------
(***************************************************************************)
(* The flow table, for any capacity, window size, events and run length:   *)
(* the map, the slab and the LRU list stay consistent, eviction never      *)
(* lacks a victim, recycled slots start clean, and the table is the        *)
(* abstract LRU cache of sliding windows.  Fed by the mock generator, it   *)
(* holds windows of one packet.                                            *)
(***************************************************************************)
EXTENDS MockTable, FlowStateProofs

-----------------------------------------------------------------------------
(* Flow identity.                                                          *)

\* FlowKey::new returns a key of two endpoints.
LEMMA KeyType ==
  ASSUME NEW a \in Endpoint, NEW b \in Endpoint, NEW proto \in Nat
  PROVE  KeyOf(a, b, proto) \in Key
BY DEF KeyOf, Key, Endpoint

\* FlowKey::new: both directions of a conversation have one key, and
\* different pairs of endpoints (or protocols) never share one.
THEOREM FlowKeyIdentifiesConversation ==
  ASSUME NEW a \in Endpoint, NEW b \in Endpoint, NEW c \in Endpoint, NEW d \in Endpoint,
         NEW p \in Nat, NEW q \in Nat
  PROVE  KeyOf(a, b, p) = KeyOf(c, d, q) <=> p = q /\ {a, b} = {c, d}
<1>1. \A e, f \in Endpoint : e = f <=> e.ip = f.ip /\ e.port = f.port
  BY DEF Endpoint
<1>2. {a, b} = {c, d} <=> (a = c /\ b = d) \/ (a = d /\ b = c)
  OBVIOUS
<1>3. a.ip \in Nat /\ b.ip \in Nat /\ c.ip \in Nat /\ d.ip \in Nat
      /\ a.port \in Nat /\ b.port \in Nat /\ c.port \in Nat /\ d.port \in Nat
  BY DEF Endpoint
<1>4. KeyOf(a, b, p) = KeyOf(c, d, q) <=>
        /\ p = q
        /\ IF Before(a, b)
             THEN IF Before(c, d) THEN a = c /\ b = d ELSE a = d /\ b = c
             ELSE IF Before(c, d) THEN b = c /\ a = d ELSE b = d /\ a = c
  BY <1>1 DEF KeyOf
<1>5. /\ Before(a, b) /\ Before(b, a) => a = b
      /\ Before(a, b) \/ Before(b, a)
  BY <1>1, <1>3 DEF Before
<1> QED
  BY <1>2, <1>4, <1>5

-----------------------------------------------------------------------------
(* The intrusive list.                                                     *)

Listed(l) == l \in ListType

\* unlink_lru takes one slot out and leaves the order of the others.
LEMMA UnlinkOrdered ==
  ASSUME NEW l, Listed(l), NEW S \in SUBSET SlabSlots, NEW age, \A i \in S : age[i] \in Nat,
         capacity \in Nat, Ordered(l, S, age), NEW idx \in S
  PROVE  /\ Listed(Unlink(l, idx))
         /\ Ordered(Unlink(l, idx), S \ {idx}, age)
<1> DEFINE p == l.prev[idx]
           n == l.next[idx]
           u == Unlink(l, idx)
           R == S \ {idx}
<1>1. /\ u.prev = [j \in SlabSlots |-> IF j = idx THEN None ELSE IF j = n THEN p ELSE l.prev[j]]
      /\ u.next = [j \in SlabSlots |-> IF j = idx THEN None ELSE IF j = p THEN n ELSE l.next[j]]
      /\ u.head = IF p = None THEN n ELSE l.head
      /\ u.tail = IF n = None THEN p ELSE l.tail
  BY DEF Unlink
<1>2. /\ \A i \in SlabSlots : i # None
      /\ l.prev \in [SlabSlots -> SlabSlots \union {None}]
      /\ l.next \in [SlabSlots -> SlabSlots \union {None}]
      /\ l.head \in SlabSlots \union {None} /\ l.tail \in SlabSlots \union {None}
      /\ p \in S \union {None} /\ n \in S \union {None}
  BY DEF Listed, ListType, None, SlabSlots, Ordered
<1>3. Listed(u)
  BY <1>2 DEF Unlink, Listed, ListType
<1>4. \A i \in R : /\ u.next[i] = (IF i = p THEN n ELSE l.next[i])
                  /\ u.prev[i] = (IF i = n THEN p ELSE l.prev[i])
  BY <1>1
<1>5. /\ p # None => p \in R /\ l.next[p] = idx /\ age[p] > age[idx] /\ idx # l.head
      /\ n # None => n \in R /\ l.prev[n] = idx /\ age[n] < age[idx] /\ idx # l.tail
      /\ p = None => idx = l.head
      /\ n = None => idx = l.tail
  BY <1>2 DEF Ordered
<1>6. /\ \A j \in R : age[j] < age[idx] => n # None /\ age[j] <= age[n]
      /\ \A j \in R : age[j] > age[idx] => p # None /\ age[j] >= age[p]
  <2>1. \A j \in R : age[j] < age[idx] => n # None
    BY <1>5 DEF Ordered
  <2>2. \A j \in R : age[j] > age[idx] => p # None
    BY <1>5 DEF Ordered
  <2>3. \A j \in R : age[j] < age[idx] => age[j] <= age[n]
    BY <2>1 DEF Ordered
  <2>4. ASSUME NEW j \in R, age[j] > age[idx] PROVE age[j] >= age[p]
    <3>1. p \in S /\ l.next[p] = idx
      BY <1>5, <2>2, <2>4
    <3>2. age[j] < age[p] => age[j] <= age[idx]
      BY <3>1, <1>2 DEF Ordered
    <3> QED
      BY <2>4, <3>1, <3>2
  <2> QED
    BY <2>1, <2>2, <2>3, <2>4
<1>7. \A i, j \in S : age[i] = age[j] => i = j
  BY DEF Ordered
<1> HIDE DEF p, n, u
<1>8. /\ (R = {} <=> u.head = None) /\ (R = {} <=> u.tail = None)
      /\ R # {} => /\ u.head \in R /\ \A i \in R : age[i] <= age[u.head]
                   /\ u.tail \in R /\ \A i \in R : age[i] >= age[u.tail]
  <2>1. l.head \in S /\ l.tail \in S /\ l.head # None /\ l.tail # None
        /\ \A i \in S : age[i] <= age[l.head] /\ age[i] >= age[l.tail]
    BY <1>2 DEF Ordered
  <2>2. \A j \in R : age[j] < age[idx] \/ age[j] > age[idx]
    BY <1>7
  <2>3. p = None => \A j \in R : age[j] < age[idx]
    BY <1>5, <1>6, <2>2
  <2>4. n = None => \A j \in R : age[j] > age[idx]
    BY <1>5, <1>6, <2>2
  <2>5. CASE p = None
    <3>1. u.head = n /\ (R # {} => n # None)
      BY <1>1, <1>6, <2>3, <2>5
    <3> QED
      BY <1>1, <1>2, <1>5, <1>6, <2>1, <2>3, <2>4, <2>5, <3>1
  <2>6. CASE p # None
    <3>1. u.head = l.head /\ l.head \in R
      BY <1>1, <1>5, <2>1, <2>6
    <3> QED
      BY <1>1, <1>2, <1>5, <1>6, <2>1, <2>3, <2>4, <2>6, <3>1
  <2> QED
    BY <2>5, <2>6
<1>9. \A i \in R : (u.next[i] = None <=> i = u.tail) /\ (u.prev[i] = None <=> i = u.head)
  BY <1>1, <1>2, <1>4, <1>5 DEF Ordered
<1>10. \A i, j \in R : u.next[i] = j <=> u.prev[j] = i
  BY <1>2, <1>4, <1>5 DEF Ordered
<1>11. \A i \in R : u.prev[i] # None => u.prev[i] \in R
  BY <1>2, <1>4, <1>5 DEF Ordered
<1>12. ASSUME NEW i \in R, u.next[i] # None
       PROVE  /\ u.next[i] \in R
              /\ age[u.next[i]] < age[i]
              /\ \A j \in R : age[j] < age[i] => age[j] <= age[u.next[i]]
  <2>1. CASE i = p
    <3>1. u.next[i] = n /\ n \in R /\ age[n] < age[idx] /\ age[idx] < age[i]
      BY <1>2, <1>4, <1>5, <1>12, <2>1
    <3>2. \A j \in R : age[j] < age[i] => age[j] < age[idx]
      BY <1>5, <1>6, <1>7, <2>1
    <3> QED
      BY <1>6, <3>1, <3>2
  <2>2. CASE i # p
    <3>1. u.next[i] = l.next[i]
      BY <1>4, <2>2
    <3>2. l.next[i] # idx
      BY <1>2, <2>2 DEF Ordered, p
    <3> QED
      BY <1>12, <3>1, <3>2 DEF Ordered
  <2> QED
    BY <2>1, <2>2
<1>13. Ordered(u, R, age)
  BY <1>7, <1>8, <1>9, <1>10, <1>11, <1>12 DEF Ordered
<1> QED
  BY <1>3, <1>13 DEF u

\* link_lru_head puts a slot that is newer than every listed one in front.
LEMMA LinkOrdered ==
  ASSUME NEW l, Listed(l), NEW S \in SUBSET SlabSlots, NEW age, capacity \in Nat,
         NEW idx \in SlabSlots, idx \notin S,
         \A i \in S \union {idx} : age[i] \in Nat,
         \A i \in S : age[i] < age[idx],
         Ordered(l, S, age)
  PROVE  /\ Listed(LinkHead(l, idx))
         /\ Ordered(LinkHead(l, idx), S \union {idx}, age)
<1> DEFINE u == LinkHead(l, idx)
           R == S \union {idx}
           h == l.head
<1>1. /\ \A i \in SlabSlots : i # None
      /\ l.prev \in [SlabSlots -> SlabSlots \union {None}]
      /\ l.next \in [SlabSlots -> SlabSlots \union {None}]
      /\ l.head \in SlabSlots \union {None} /\ l.tail \in SlabSlots \union {None}
  BY DEF Listed, ListType, None, SlabSlots
<1>2. Listed(u)
  BY <1>1 DEF LinkHead, Listed, ListType
<1>3. /\ u.head = idx
      /\ u.tail = IF h = None THEN idx ELSE l.tail
      /\ u.next[idx] = h /\ u.prev[idx] = None
      /\ \A i \in S : u.next[i] = l.next[i]
      /\ \A i \in S : u.prev[i] = IF i = h THEN idx ELSE l.prev[i]
  BY <1>1 DEF LinkHead
<1>4. /\ S = {} <=> h = None
      /\ S # {} => h \in S /\ l.tail \in S /\ l.prev[h] = None
      /\ \A i \in S : age[i] <= age[h] /\ age[i] >= age[l.tail]
  BY DEF Ordered
<1> HIDE DEF u, h
<1>5. /\ R # {} /\ u.head # None /\ u.tail # None
      /\ u.head \in R /\ \A i \in R : age[i] <= age[u.head]
      /\ u.tail \in R /\ \A i \in R : age[i] >= age[u.tail]
  BY <1>1, <1>3, <1>4
<1>6. \A i, j \in R : age[i] = age[j] => i = j
  BY DEF Ordered
<1>7. \A i \in R : (u.next[i] = None <=> i = u.tail) /\ (u.prev[i] = None <=> i = u.head)
  BY <1>1, <1>3, <1>4 DEF Ordered, h
<1>8. \A i, j \in R : u.next[i] = j <=> u.prev[j] = i
  BY <1>1, <1>3, <1>4 DEF Ordered
<1>9. \A i \in R : u.prev[i] # None => u.prev[i] \in R
  BY <1>3 DEF Ordered
<1>10. ASSUME NEW i \in R, u.next[i] # None
       PROVE  /\ u.next[i] \in R
              /\ age[u.next[i]] < age[i]
              /\ \A j \in R : age[j] < age[i] => age[j] <= age[u.next[i]]
  <2>1. CASE i = idx
    BY <1>3, <1>4, <1>10, <2>1
  <2>2. CASE i \in S
    BY <1>3, <1>10, <2>2 DEF Ordered
  <2> QED
    BY <2>1, <2>2
<1>11. Ordered(u, R, age)
  BY <1>5, <1>6, <1>7, <1>8, <1>9, <1>10 DEF Ordered
<1> QED
  BY <1>2, <1>11 DEF u

\* A listed slot that becomes the newest: unlinked and linked again, or left
\* where it is when it is already the head.
LEMMA RelinkOrdered ==
  ASSUME NEW l, Listed(l), NEW S \in SUBSET SlabSlots, NEW age, NEW new, capacity \in Nat,
         NEW idx \in S, Ordered(l, S, age),
         \A i \in S : age[i] \in Nat /\ new[i] \in Nat,
         \A i \in S \ {idx} : new[i] = age[i],
         \A i \in S \ {idx} : new[i] < new[idx]
  PROVE  /\ Listed(LinkHead(Unlink(l, idx), idx)) /\ Ordered(LinkHead(Unlink(l, idx), idx), S, new)
         /\ Listed(Promote(l, idx)) /\ Ordered(Promote(l, idx), S, new)
<1> DEFINE u == Unlink(l, idx)
           R == S \ {idx}
<1>1. Listed(u) /\ Ordered(u, R, age)
  BY UnlinkOrdered
<1>2. /\ R \subseteq SlabSlots /\ idx \in SlabSlots /\ idx \notin R
      /\ R \union {idx} = S
      /\ \A i \in R : new[i] = age[i] /\ new[i] < new[idx]
      /\ \A i \in R \union {idx} : new[i] \in Nat
  OBVIOUS
<1> HIDE DEF u, R
<1>3. Ordered(u, R, new)
  BY <1>1, <1>2 DEF Ordered
<1>4. Listed(LinkHead(u, idx)) /\ Ordered(LinkHead(u, idx), R \union {idx}, new)
  BY <1>1, <1>2, <1>3, LinkOrdered
<1>5. CASE idx # l.head
  BY <1>2, <1>4, <1>5 DEF Promote, u
<1>6. CASE idx = l.head
  <2>1. Promote(l, idx) = l
    BY <1>6 DEF Promote
  <2>2. \A i \in S : idx \in S /\ idx # None
    BY DEF SlabSlots, None
  <2>3. \A i \in S : l.next[i] # idx
    BY <1>6, <2>2 DEF Ordered
  <2>4. l.tail = idx => S = {idx}
    BY <1>6 DEF Ordered
  <2>5. \A i \in S : new[i] <= new[l.head] /\ new[i] >= new[l.tail]
    <3> SUFFICES ASSUME NEW i \in S PROVE new[i] <= new[l.head] /\ new[i] >= new[l.tail]
      OBVIOUS
    <3>1. l.tail \in S /\ l.head \in S /\ age[i] >= age[l.tail]
      BY DEF Ordered
    <3> QED
      BY <1>6, <2>4, <3>1
  <2>6. \A i, j \in S : new[i] = new[j] => i = j
    BY DEF Ordered
  <2>7. ASSUME NEW i \in S, l.next[i] # None
        PROVE  /\ l.next[i] \in S
               /\ new[l.next[i]] < new[i]
               /\ \A j \in S : new[j] < new[i] => new[j] <= new[l.next[i]]
    <3>1. /\ l.next[i] \in S /\ l.next[i] # idx /\ age[l.next[i]] < age[i]
          /\ \A j \in S : age[j] < age[i] => age[j] <= age[l.next[i]]
      BY <2>3, <2>7 DEF Ordered
    <3>2. new[l.next[i]] = age[l.next[i]]
      BY <3>1
    <3>3. \A j \in S : new[j] < new[i] => j # idx /\ age[j] < age[i]
      <4> SUFFICES ASSUME NEW j \in S, new[j] < new[i] PROVE j # idx /\ age[j] < age[i]
        OBVIOUS
      <4>1. j # idx
        OBVIOUS
      <4>2. i = idx => age[j] < age[i]
        <5>1. age[j] <= age[l.head]
          BY DEF Ordered
        <5>2. age[j] # age[idx]
          BY <4>1 DEF Ordered
        <5> QED
          BY <1>6, <5>1, <5>2
      <4> QED
        BY <4>1, <4>2
    <3> QED
      BY <3>1, <3>2, <3>3
  <2>8. Ordered(l, S, new)
    <3>1. S # {} => l.head \in S /\ l.tail \in S
      BY DEF Ordered
    <3> QED
      BY <2>5, <2>6, <2>7, <3>1 DEF Ordered
  <2> QED
    BY <1>2, <1>4, <2>1, <2>8 DEF u
<1> QED
  BY <1>5, <1>6

-----------------------------------------------------------------------------
(* The inductive invariant.                                                *)

TableInv ==
  TypeOK /\ MapSlabAgree /\ RecencyList /\ WindowsExact /\ PanicsOnlyWithoutRoom

\* The slots in use are 0 .. n-1 for the slab's length n.
LEMMA SlabPrefix ==
  ASSUME TypeOK
  PROVE  LET n == Cardinality(DOMAIN slab) IN
         /\ capacity \in Nat
         /\ n \in 0 .. capacity
         /\ slab \in [0 .. n - 1 -> Node]
         /\ DOMAIN slab = 0 .. n - 1
         /\ DOMAIN slab \subseteq SlabSlots
<1>1. PICK m \in 0 .. capacity : slab \in [0 .. m - 1 -> Node]
  BY DEF TypeOK
<1>2. capacity \in Nat
  BY CapacityAssumption DEF TypeOK
<1>3. DOMAIN slab = 0 .. m - 1
  BY <1>1
<1>4. Cardinality(0 .. m - 1) = m
  BY <1>2, FS_Interval
<1> QED
  BY <1>1, <1>2, <1>3, <1>4 DEF SlabSlots

\* A full table with room for a flow has a tail.
LEMMA FullHasTail ==
  ASSUME TypeOK, RecencyList, capacity > 0, Full
  PROVE  lru.tail # None
<1>1. DOMAIN slab # {}
  BY SlabPrefix DEF Full
<1> QED
  BY <1>1 DEF RecencyList, Ordered

\* The summary `update` stores for an event is a packet summary.
LEMMA SummaryType ==
  ASSUME NEW event \in Events, NEW d \in Direction
  PROVE  Summary(event, d) \in PacketSummary
BY EventsAssumption DEF Summary, PacketSummary, EventType

\* What an arriving event has: numbers for addresses, length and time, a key,
\* and a source that may become a flow's initiator.
LEMMA EventFacts ==
  ASSUME NEW event \in Events
  PROVE  /\ FlowKeyOf(event) \in Key
         /\ event.src \in Endpoint
         /\ event.src.ip \in IPs
<1>1. event \in EventType
  BY EventsAssumption
<1> QED
  BY <1>1, KeyType DEF EventType, FlowKeyOf, IPs

\* The direction process_packet computes is one of the two.
LEMMA DirectionType ==
  ASSUME NEW event, NEW st
  PROVE  DirectionOf(event, st) \in Direction
BY DEF DirectionOf, Direction

\* The node of a new flow is clean, whether its FlowState is new or reset.
LEMMA FreshNodeType ==
  ASSUME NEW event \in Events, NEW st \in StateType(IPs), WindowShape(st), AggregatesExact(st)
  PROVE  /\ FreshNode(event, st) \in Node
         /\ FreshNode(event, st).key = FlowKeyOf(event)
         /\ WindowShape(FreshNode(event, st).state)
         /\ AggregatesExact(FreshNode(event, st).state)
<1>1. Summary(event, "Forward") \in PacketSummary
  BY SummaryType DEF Direction
<1>2. /\ Update(st, Summary(event, "Forward")) \in StateType(IPs)
      /\ WindowShape(Update(st, Summary(event, "Forward")))
      /\ AggregatesExact(Update(st, Summary(event, "Forward")))
  BY <1>1, UpdateType
<1> QED
  BY <1>2, EventFacts DEF FreshNode, Node

\* FlowTable::new establishes the invariant.
LEMMA InitInv == Init => TableInv
<1> SUFFICES ASSUME Init PROVE TableInv
  OBVIOUS
<1> USE DEF Init
<1>1. DOMAIN slab = {} /\ DOMAIN map = {} /\ capacity \in Nat
  BY CapacityAssumption
<1>2. TypeOK
  <2>1. slab \in [0 .. 0 - 1 -> Node] /\ 0 \in 0 .. capacity
    BY <1>1
  <2>2. map \in [DOMAIN map -> DOMAIN slab]
    BY <1>1
  <2>3. lru \in ListType
    BY DEF EmptyList, ListType
  <2>4. \E n \in 0 .. capacity : slab \in [0 .. n - 1 -> Node]
    BY <2>1
  <2>5. /\ DOMAIN used = DOMAIN map /\ \A k \in DOMAIN map : used[k] \in 1 .. clock
        /\ DOMAIN opener = DOMAIN map /\ \A k \in DOMAIN map : opener[k] \in Endpoint
    BY <1>1
  <2>6. clock \in 0 .. MaxPackets
    BY MaxPacketsAssumption
  <2> QED
    BY <2>2, <2>3, <2>4, <2>5, <2>6 DEF TypeOK
<1>3. MapSlabAgree /\ WindowsExact
  BY <1>1 DEF MapSlabAgree, WindowsExact
<1>4. RecencyList
  BY <1>1 DEF RecencyList, Ordered, EmptyList
<1>5. PanicsOnlyWithoutRoom
  BY <1>2, <1>4, FullHasTail DEF PanicsOnlyWithoutRoom
<1> QED
  BY <1>2, <1>3, <1>4, <1>5 DEF TableInv

-----------------------------------------------------------------------------
(* The parts of process_packet keep the invariant.                         *)

\* A packet of a known flow keeps the invariant: its slot becomes the newest of
\* the list, and its window slides.
LEMMA HitKeeps ==
  ASSUME TableInv, NEW event \in Events, clock < MaxPackets, Hit(event),
         last' = event, clock' = clock + 1, UNCHANGED capacity
  PROVE  TableInv'
<1> DEFINE k == FlowKeyOf(event)
           idx == map[k]
           pkt == Summary(event, DirectionOf(event, slab[idx].state))
           n == Cardinality(DOMAIN slab)
<1> USE DEF TableInv
<1>1. /\ k \in DOMAIN map /\ idx \in DOMAIN slab /\ slab[idx].key = k
      /\ slab \in [0 .. n - 1 -> Node] /\ n \in 0 .. capacity
      /\ DOMAIN slab = 0 .. n - 1 /\ DOMAIN slab \subseteq SlabSlots /\ capacity \in Nat
  BY SlabPrefix DEF Hit, TypeOK, MapSlabAgree
<1>2. /\ slab' = [slab EXCEPT ![idx].state = Update(slab[idx].state, pkt)]
      /\ lru' = Promote(lru, idx)
      /\ used' = [used EXCEPT ![k] = clock + 1]
      /\ map' = map /\ panicked' = panicked /\ opener' = opener
  BY DEF Hit
<1>3. pkt \in PacketSummary
  BY SummaryType, DirectionType
<1>4. slab[idx].state \in StateType(IPs) /\ slab[idx].key \in Key
  BY <1>1 DEF Node
<1>5. /\ Update(slab[idx].state, pkt) \in StateType(IPs)
      /\ WindowShape(Update(slab[idx].state, pkt))
      /\ AggregatesExact(Update(slab[idx].state, pkt))
  BY <1>1, <1>3, <1>4, UpdateType DEF WindowsExact
<1> HIDE DEF k, idx, pkt, n
<1>6. /\ DOMAIN slab' = DOMAIN slab
      /\ \A i \in DOMAIN slab : i # idx => slab'[i] = slab[i]
      /\ slab'[idx] = [key |-> slab[idx].key, state |-> Update(slab[idx].state, pkt)]
      /\ slab'[idx].key = slab[idx].key
      /\ slab'[idx].state = Update(slab[idx].state, pkt)
  BY <1>1, <1>2 DEF Node
<1>7. slab' \in [0 .. n - 1 -> Node]
  <2>1. slab'[idx] \in Node
    BY <1>4, <1>5, <1>6 DEF Node
  <2>2. slab' \in [0 .. n - 1 -> Node]
    <3>1. \A i \in 0 .. n - 1 : slab'[i] \in Node
      BY <1>1, <1>6, <2>1
    <3>2. slab' = [i \in 0 .. n - 1 |-> slab'[i]]
      BY <1>1, <1>2
    <3> QED
      BY <3>1, <3>2
  <2> QED
    BY <2>2
<1>8. WindowsExact'
  <2> SUFFICES ASSUME NEW i \in DOMAIN slab
               PROVE  WindowShape(slab'[i].state) /\ AggregatesExact(slab'[i].state)
    BY <1>6 DEF WindowsExact, WindowShape, AggregatesExact, WindowSum, Units, Live
  <2>1. CASE i = idx
    BY <1>5, <1>6, <2>1
  <2>2. CASE i # idx
    BY <1>6, <2>2 DEF WindowsExact
  <2> QED
    BY <2>1, <2>2
<1>9. MapSlabAgree'
  <2>1. \A i \in DOMAIN slab : slab'[i].key = slab[i].key
    BY <1>6
  <2>2. \A j \in DOMAIN map : map[j] \in DOMAIN slab
    BY DEF TypeOK
  <2> QED
    BY <1>2, <1>6, <2>1, <2>2 DEF MapSlabAgree
<1>10. RecencyList'
  <2> DEFINE new == [i \in DOMAIN slab |-> IF i = idx THEN clock + 1 ELSE Ages[i]]
  <2>1. Ages' = new
    <3>1. \A i \in DOMAIN slab : slab'[i].key = slab[i].key
      BY <1>6
    <3>2. \A i \in DOMAIN slab : slab[i].key \in DOMAIN used /\ (i # idx => slab[i].key # k)
      BY <1>1 DEF TypeOK, MapSlabAgree, idx
    <3>3. \A i \in DOMAIN slab : used'[slab[i].key] = new[i]
      BY <1>1, <1>2, <3>2 DEF Ages
    <3> QED
      BY <1>6, <3>1, <3>3 DEF Ages
  <2>2. \A i \in DOMAIN slab : Ages[i] \in 1 .. clock
    BY DEF Ages, TypeOK, MapSlabAgree
  <2>3. clock \in Nat
    BY MaxPacketsAssumption DEF TypeOK
  <2>4. Ordered(lru, DOMAIN slab, Ages)
    BY DEF RecencyList
  <2> HIDE DEF new
  <2>5. /\ \A i \in DOMAIN slab : i # idx => new[i] = Ages[i]
        /\ new[idx] = clock + 1
    BY <1>1 DEF new
  <2>6. Ordered(Promote(lru, idx), DOMAIN slab, new)
    <3>1. /\ \A i \in DOMAIN slab : Ages[i] \in Nat /\ new[i] \in Nat
          /\ \A i \in DOMAIN slab \ {idx} : new[i] = Ages[i]
          /\ \A i \in DOMAIN slab \ {idx} : new[i] < new[idx]
      BY <2>2, <2>3, <2>5
    <3>2. Listed(lru)
      BY DEF TypeOK, Listed
    <3> QED
      BY <1>1, <2>4, <3>1, <3>2, RelinkOrdered
  <2> QED
    BY <1>2, <1>6, <2>1, <2>6 DEF RecencyList, Ordered
<1>11. TypeOK'
  <2>1. lru' \in ListType'
    <3>1. \A i \in DOMAIN slab : Ages[i] \in 1 .. clock
      BY DEF Ages, TypeOK, MapSlabAgree
    <3>2. clock \in Nat
      BY MaxPacketsAssumption DEF TypeOK
    <3> DEFINE new == [i \in DOMAIN slab |-> IF i = idx THEN clock + 1 ELSE Ages[i]]
    <3>3. /\ \A i \in DOMAIN slab : Ages[i] \in Nat /\ new[i] \in Nat
          /\ \A i \in DOMAIN slab \ {idx} : new[i] = Ages[i]
          /\ \A i \in DOMAIN slab \ {idx} : new[i] < new[idx]
      BY <1>1, <3>1, <3>2
    <3> HIDE DEF new
    <3>4. Listed(Promote(lru, idx))
      BY <1>1, <3>3, RelinkOrdered DEF TypeOK, Listed, RecencyList
    <3> QED
      BY <1>2, <3>4 DEF Listed, ListType, SlabSlots
  <2>2. clock' \in 0 .. MaxPackets /\ clock \in Nat
    BY MaxPacketsAssumption DEF TypeOK
  <2>3. /\ DOMAIN used' = DOMAIN map' /\ \A j \in DOMAIN map' : used'[j] \in 1 .. clock'
        /\ DOMAIN opener' = DOMAIN map' /\ \A j \in DOMAIN map' : opener'[j] \in Endpoint
    BY <1>1, <1>2, <2>2 DEF TypeOK
  <2>4. map' \in [DOMAIN map' -> DOMAIN slab']
    BY <1>2, <1>6 DEF TypeOK
  <2>5. \E m \in 0 .. capacity : slab' \in [0 .. m - 1 -> Node]
    BY <1>1, <1>7
  <2>6. last' \in Events \union {NoEvent} /\ panicked' \in BOOLEAN /\ capacity' \in Capacities
    BY <1>2 DEF TypeOK
  <2>7. clock' \in 0 .. MaxPackets
    BY <2>2, MaxPacketsAssumption
  <2> QED
    BY <2>1, <2>3, <2>4, <2>5, <2>6, <2>7 DEF TypeOK
<1>12. PanicsOnlyWithoutRoom'
  <2>1. Full' <=> Full
    BY <1>6 DEF Full
  <2>2. capacity > 0 /\ Full => lru'.tail # None
    <3>1. DOMAIN slab' # {}
      BY <1>1, <1>6
    <3> QED
      BY <1>10, <3>1 DEF RecencyList, Ordered
  <2> QED
    BY <1>2, <2>1, <2>2 DEF PanicsOnlyWithoutRoom
<1> QED
  BY <1>8, <1>9, <1>10, <1>11, <1>12

\* A new flow in a vacant slot keeps the invariant.
LEMMA AllocateKeeps ==
  ASSUME TableInv, NEW event \in Events, clock < MaxPackets, Allocate(event),
         last' = event, clock' = clock + 1, UNCHANGED capacity
  PROVE  TableInv'
<1> DEFINE k == FlowKeyOf(event)
           n == Cardinality(DOMAIN slab)
           node == FreshNode(event, NewState(event.src.ip))
           age == [i \in 0 .. n |-> IF i = n THEN clock + 1 ELSE Ages[i]]
<1> USE DEF TableInv
<1>1. /\ k \notin DOMAIN map /\ k \in Key /\ n < capacity
      /\ slab \in [0 .. n - 1 -> Node] /\ n \in Nat
      /\ DOMAIN slab = 0 .. n - 1 /\ DOMAIN slab \subseteq SlabSlots /\ capacity \in Nat
      /\ n \in SlabSlots /\ n \notin DOMAIN slab /\ DOMAIN slab \union {n} = 0 .. n
  BY SlabPrefix, EventFacts DEF Allocate, Full, SlabSlots
<1>2. /\ slab' = With(slab, n, node)
      /\ lru' = LinkHead(lru, n)
      /\ used' = With(used, k, clock + 1)
      /\ opener' = With(opener, k, event.src)
      /\ map' = With(map, k, n) /\ panicked' = panicked
  BY DEF Allocate
<1>3. /\ node \in Node /\ node.key = k
      /\ WindowShape(node.state) /\ AggregatesExact(node.state)
  BY NewStateType, EventFacts, FreshNodeType
<1> HIDE DEF k, n, node, age
<1>4. /\ DOMAIN slab' = 0 .. n
      /\ \A i \in 0 .. n - 1 : slab'[i] = slab[i]
      /\ slab'[n] = node
  BY <1>1, <1>2 DEF With
<1>5. slab' \in [0 .. n -> Node]
  <2>1. \A i \in 0 .. n : slab'[i] \in Node
    BY <1>1, <1>3, <1>4
  <2>2. slab' = [i \in 0 .. n |-> slab'[i]]
    BY <1>1, <1>2 DEF With
  <2> QED
    BY <2>1, <2>2
<1>6. /\ DOMAIN map' = DOMAIN map \union {k}
      /\ map'[k] = n /\ used'[k] = clock + 1 /\ opener'[k] = event.src
      /\ \A j \in DOMAIN map : map'[j] = map[j] /\ used'[j] = used[j] /\ opener'[j] = opener[j]
      /\ DOMAIN used' = DOMAIN map' /\ DOMAIN opener' = DOMAIN map'
  BY <1>1, <1>2 DEF With, TypeOK
<1>7. WindowsExact'
  <2> SUFFICES ASSUME NEW i \in 0 .. n
               PROVE  WindowShape(slab'[i].state) /\ AggregatesExact(slab'[i].state)
    BY <1>4 DEF WindowsExact, WindowShape, AggregatesExact, WindowSum, Units, Live
  <2>1. CASE i = n
    BY <1>3, <1>4, <2>1
  <2>2. CASE i # n
    BY <1>1, <1>4, <2>2 DEF WindowsExact
  <2> QED
    BY <2>1, <2>2
<1>8. /\ \A i \in 0 .. n - 1 : slab[i].key \in DOMAIN map /\ map[slab[i].key] = i
      /\ \A j \in DOMAIN map : map[j] \in 0 .. n - 1 /\ slab[map[j]].key = j
  BY <1>1 DEF MapSlabAgree, TypeOK
<1>9. MapSlabAgree'
  <2>1. \A j \in DOMAIN map' : slab'[map'[j]].key = j
    BY <1>3, <1>4, <1>6, <1>8
  <2>2. \A i \in DOMAIN slab' : slab'[i].key \in DOMAIN map' /\ map'[slab'[i].key] = i
    BY <1>1, <1>3, <1>4, <1>6, <1>8
  <2> QED
    BY <2>1, <2>2 DEF MapSlabAgree
<1>10. clock \in Nat /\ clock' \in 0 .. MaxPackets
       /\ \A j \in DOMAIN map : used[j] \in 1 .. clock
  BY MaxPacketsAssumption DEF TypeOK
<1>11. /\ \A i \in 0 .. n - 1 : age[i] = Ages[i] /\ age[i] \in 1 .. clock
       /\ age[n] = clock + 1
       /\ Ages' = age
  <2>1. \A i \in 0 .. n - 1 : Ages[i] = used[slab[i].key] /\ Ages[i] \in 1 .. clock
    BY <1>1, <1>8, <1>10 DEF Ages
  <2>2. \A i \in 0 .. n - 1 : used'[slab'[i].key] = age[i]
    BY <1>1, <1>4, <1>6, <1>8, <2>1 DEF age
  <2>3. used'[slab'[n].key] = age[n]
    BY <1>1, <1>3, <1>4, <1>6 DEF age
  <2>4. \A i \in 0 .. n : used'[slab'[i].key] = age[i]
    BY <1>1, <2>2, <2>3
  <2> QED
    BY <1>1, <1>4, <2>1, <2>4 DEF Ages, age
<1>12. Listed(lru') /\ Ordered(lru', 0 .. n, age)
  <2>1. Ordered(lru, DOMAIN slab, age)
    BY <1>1, <1>11 DEF RecencyList, Ordered
  <2>2. /\ \A i \in DOMAIN slab \union {n} : age[i] \in Nat
        /\ \A i \in DOMAIN slab : age[i] < age[n]
    BY <1>1, <1>10, <1>11
  <2>3. Listed(lru)
    BY DEF TypeOK, Listed
  <2>4. /\ Listed(LinkHead(lru, n))
        /\ Ordered(LinkHead(lru, n), DOMAIN slab \union {n}, age)
    BY <1>1, <2>1, <2>2, <2>3, LinkOrdered
  <2> QED
    BY <1>1, <1>2, <2>4
<1>13. RecencyList'
  BY <1>4, <1>11, <1>12 DEF RecencyList, Ordered
<1>14. TypeOK'
  <2>1. \E m \in 0 .. capacity : slab' \in [0 .. m - 1 -> Node]
    <3>1. n + 1 \in 0 .. capacity /\ (n + 1) - 1 = n
      BY <1>1
    <3> QED
      BY <1>5, <3>1
  <2>2. last' \in Events \union {NoEvent} /\ panicked' \in BOOLEAN /\ capacity' \in Capacities
    BY <1>2 DEF TypeOK
  <2>3. \A j \in DOMAIN map' : used'[j] \in 1 .. clock' /\ opener'[j] \in Endpoint
    BY <1>6, <1>10, EventFacts DEF TypeOK
  <2>4. map' \in [DOMAIN map' -> DOMAIN slab']
    <3>1. \A j \in DOMAIN map' : map'[j] \in DOMAIN slab'
      BY <1>1, <1>4, <1>6, <1>8
    <3> QED
      BY <1>2, <3>1 DEF With
  <2>5. lru' \in ListType'
    BY <1>12 DEF Listed, ListType, SlabSlots
  <2> QED
    BY <1>6, <1>10, <2>1, <2>2, <2>3, <2>4, <2>5 DEF TypeOK
<1>15. PanicsOnlyWithoutRoom'
  <2>1. lru'.tail # None
    <3>1. DOMAIN slab' # {}
      BY <1>1, <1>4
    <3> QED
      BY <1>13, <3>1 DEF RecencyList, Ordered
  <2> QED
    BY <1>2, <2>1 DEF PanicsOnlyWithoutRoom
<1> QED
  BY <1>7, <1>9, <1>13, <1>14, <1>15

\* A new flow in the slot of the evicted one keeps the invariant: the evicted
\* flow's map entry, links and counters are all gone.
LEMMA RecycleKeeps ==
  ASSUME TableInv, NEW event \in Events, clock < MaxPackets, Recycle(event),
         last' = event, clock' = clock + 1, UNCHANGED capacity
  PROVE  TableInv'
<1> DEFINE k == FlowKeyOf(event)
           n == Cardinality(DOMAIN slab)
           idx == lru.tail
           victim == slab[idx].key
           node == FreshNode(event, Reset(slab[idx].state, event.src.ip))
           age == [i \in DOMAIN slab |-> IF i = idx THEN clock + 1 ELSE Ages[i]]
<1> USE DEF TableInv
<1>1. /\ k \notin DOMAIN map /\ k \in Key
      /\ slab \in [0 .. n - 1 -> Node] /\ n \in 0 .. capacity
      /\ DOMAIN slab = 0 .. n - 1 /\ DOMAIN slab \subseteq SlabSlots /\ capacity \in Nat
      /\ idx \in DOMAIN slab
  BY SlabPrefix, EventFacts DEF Recycle, EvictedSlot, RecencyList, Ordered
<1>2. /\ slab' = [slab EXCEPT ![idx] = node]
      /\ lru' = LinkHead(Unlink(lru, idx), idx)
      /\ used' = With(Without(used, victim), k, clock + 1)
      /\ opener' = With(Without(opener, victim), k, event.src)
      /\ map' = With(Without(map, victim), k, idx) /\ panicked' = panicked
  BY DEF Recycle, EvictedSlot
<1>3. /\ node \in Node /\ node.key = k
      /\ WindowShape(node.state) /\ AggregatesExact(node.state)
  <2>1. slab[idx].state \in StateType(IPs) /\ event.src.ip \in IPs
    BY <1>1, EventFacts DEF Node
  <2> QED
    BY <2>1, ResetType, FreshNodeType
<1>4. /\ \A i \in DOMAIN slab : slab[i].key \in DOMAIN map /\ map[slab[i].key] = i
      /\ \A j \in DOMAIN map : map[j] \in DOMAIN slab /\ slab[map[j]].key = j
      /\ victim \in DOMAIN map /\ map[victim] = idx
  BY <1>1 DEF MapSlabAgree, TypeOK
<1> HIDE DEF k, n, idx, victim, node, age
<1>5. /\ DOMAIN slab' = DOMAIN slab
      /\ \A i \in DOMAIN slab : i # idx => slab'[i] = slab[i]
      /\ slab'[idx] = node
      /\ slab' \in [0 .. n - 1 -> Node]
  BY <1>1, <1>2, <1>3
<1>6. /\ DOMAIN map' = (DOMAIN map \ {victim}) \union {k}
      /\ map'[k] = idx /\ used'[k] = clock + 1 /\ opener'[k] = event.src
      /\ \A j \in DOMAIN map \ {victim} : map'[j] = map[j] /\ used'[j] = used[j] /\ opener'[j] = opener[j]
      /\ DOMAIN used' = DOMAIN map' /\ DOMAIN opener' = DOMAIN map'
  BY <1>1, <1>2 DEF With, Without, TypeOK
<1>7. WindowsExact'
  <2> SUFFICES ASSUME NEW i \in DOMAIN slab
               PROVE  WindowShape(slab'[i].state) /\ AggregatesExact(slab'[i].state)
    BY <1>5 DEF WindowsExact, WindowShape, AggregatesExact, WindowSum, Units, Live
  <2>1. CASE i = idx
    BY <1>3, <1>5, <2>1
  <2>2. CASE i # idx
    BY <1>5, <2>2 DEF WindowsExact
  <2> QED
    BY <2>1, <2>2
<1>8. \A i \in DOMAIN slab : i # idx => slab[i].key # victim /\ slab[i].key # k
  BY <1>1, <1>4
<1>9. MapSlabAgree'
  <2>1. \A j \in DOMAIN map' : slab'[map'[j]].key = j
    <3> SUFFICES ASSUME NEW j \in DOMAIN map' PROVE slab'[map'[j]].key = j
      OBVIOUS
    <3>1. CASE j = k
      BY <1>3, <1>5, <1>6, <3>1
    <3>2. CASE j \in DOMAIN map \ {victim}
      <4>1. map'[j] = map[j] /\ map[j] \in DOMAIN slab /\ slab[map[j]].key = j
        BY <1>4, <1>6, <3>2
      <4>2. map[j] # idx
        BY <4>1, <3>2 DEF victim
      <4> QED
        BY <1>5, <4>1, <4>2
    <3> QED
      BY <1>6, <3>1, <3>2
  <2>2. \A i \in DOMAIN slab' : slab'[i].key \in DOMAIN map' /\ map'[slab'[i].key] = i
    <3> SUFFICES ASSUME NEW i \in DOMAIN slab
                 PROVE  slab'[i].key \in DOMAIN map' /\ map'[slab'[i].key] = i
      BY <1>5
    <3>1. CASE i = idx
      BY <1>3, <1>5, <1>6, <3>1
    <3>2. CASE i # idx
      BY <1>4, <1>5, <1>6, <1>8, <3>2
    <3> QED
      BY <3>1, <3>2
  <2> QED
    BY <2>1, <2>2 DEF MapSlabAgree
<1>10. clock \in Nat /\ clock' \in 0 .. MaxPackets
       /\ \A j \in DOMAIN map : used[j] \in 1 .. clock
  BY MaxPacketsAssumption DEF TypeOK
<1>11. /\ \A i \in DOMAIN slab : i # idx => age[i] = Ages[i]
       /\ \A i \in DOMAIN slab : Ages[i] \in 1 .. clock
       /\ age[idx] = clock + 1
       /\ Ages' = age
  <2>1. \A i \in DOMAIN slab : Ages[i] = used[slab[i].key] /\ Ages[i] \in 1 .. clock
    BY <1>4, <1>10 DEF Ages
  <2>2. \A i \in DOMAIN slab : i # idx => used'[slab'[i].key] = age[i]
    BY <1>4, <1>5, <1>6, <1>8, <2>1 DEF age
  <2>3. used'[slab'[idx].key] = age[idx]
    BY <1>1, <1>3, <1>5, <1>6 DEF age
  <2>4. \A i \in DOMAIN slab : used'[slab'[i].key] = age[i]
    BY <2>2, <2>3
  <2> QED
    BY <1>1, <1>5, <2>1, <2>4 DEF Ages, age
<1>12. Listed(lru') /\ Ordered(lru', DOMAIN slab, age)
  <2>1. Ordered(lru, DOMAIN slab, Ages) /\ Listed(lru)
    BY DEF RecencyList, TypeOK, Listed
  <2>2. /\ \A i \in DOMAIN slab : Ages[i] \in Nat /\ age[i] \in Nat
        /\ \A i \in DOMAIN slab \ {idx} : age[i] = Ages[i]
        /\ \A i \in DOMAIN slab \ {idx} : age[i] < age[idx]
    BY <1>10, <1>11
  <2> QED
    BY <1>1, <1>2, <2>1, <2>2, RelinkOrdered
<1>13. RecencyList'
  BY <1>5, <1>11, <1>12 DEF RecencyList, Ordered
<1>14. TypeOK'
  <2>1. \E m \in 0 .. capacity : slab' \in [0 .. m - 1 -> Node]
    BY <1>1, <1>5
  <2>2. last' \in Events \union {NoEvent} /\ panicked' \in BOOLEAN /\ capacity' \in Capacities
    BY <1>2 DEF TypeOK
  <2>3. \A j \in DOMAIN map' : used'[j] \in 1 .. clock' /\ opener'[j] \in Endpoint
    BY <1>6, <1>10, EventFacts DEF TypeOK
  <2>4. map' \in [DOMAIN map' -> DOMAIN slab']
    <3>1. \A j \in DOMAIN map' : map'[j] \in DOMAIN slab'
      BY <1>1, <1>4, <1>5, <1>6
    <3> QED
      BY <1>2, <3>1 DEF With
  <2>5. lru' \in ListType'
    BY <1>12 DEF Listed, ListType, SlabSlots
  <2> QED
    BY <1>6, <1>10, <2>1, <2>2, <2>3, <2>4, <2>5 DEF TypeOK
<1>15. PanicsOnlyWithoutRoom'
  <2>1. lru'.tail # None
    BY <1>1, <1>5, <1>13 DEF RecencyList, Ordered
  <2> QED
    BY <1>2, <2>1 DEF PanicsOnlyWithoutRoom
<1> QED
  BY <1>7, <1>9, <1>13, <1>14, <1>15

\* A step that leaves the table alone keeps the invariant.
LEMMA StutterKeeps ==
  ASSUME TableInv, UNCHANGED <<capacity, map, slab, lru, used, opener, last, clock>>,
         panicked' \in BOOLEAN, panicked' => capacity = 0
  PROVE  TableInv'
<1> USE DEF TableInv
<1>1. TypeOK'
  BY DEF TypeOK, ListType, SlabSlots
<1>2. MapSlabAgree' /\ RecencyList' /\ WindowsExact'
  BY DEF MapSlabAgree, RecencyList, Ordered, Ages, WindowsExact,
         WindowShape, AggregatesExact, WindowSum, Units, Live
<1>3. PanicsOnlyWithoutRoom'
  BY DEF PanicsOnlyWithoutRoom, Full
<1> QED
  BY <1>1, <1>2, <1>3

\* Every step of the table keeps the invariant.
LEMMA TableInvStep == TableInv /\ [Next]_vars => TableInv'
<1> SUFFICES ASSUME TableInv, [Next]_vars PROVE TableInv'
  OBVIOUS
<1>1. ASSUME NEW event \in Events, ProcessPacket(event) PROVE TableInv'
  <2>1. CASE Processed(event)
    BY <1>1, <2>1, HitKeeps, AllocateKeeps, RecycleKeeps DEF ProcessPacket, Processed
  <2>2. CASE Panic(event)
    <3>1. capacity = 0
      <4>1. capacity \in Nat
        BY SlabPrefix DEF TableInv
      <4> QED
        BY <2>2, <4>1 DEF Panic, EvictedSlot, TableInv, PanicsOnlyWithoutRoom
    <3> QED
      BY <1>1, <2>2, <3>1, StutterKeeps DEF Panic, ProcessPacket, history
  <2> QED
    BY <1>1, <2>1, <2>2 DEF ProcessPacket
<1>2. CASE UNCHANGED vars
  <2>1. panicked' \in BOOLEAN /\ (panicked' => capacity = 0)
    BY <1>2 DEF TableInv, TypeOK, PanicsOnlyWithoutRoom, vars
  <2> QED
    BY <1>2, <2>1, StutterKeeps DEF vars, history
<1> QED
  BY <1>1, <1>2 DEF Next

\* For every capacity, window size, set of events and run length, the flow
\* table of aggregator.rs keeps its hash map, slab and LRU list consistent,
\* its recycled windows exact, and finds a victim whenever it must evict,
\* except in a table created without room for any flow.
THEOREM FlowTableInvariant ==
  Spec => [](TypeOK /\ MapSlabAgree /\ RecencyList /\ WindowsExact /\ PanicsOnlyWithoutRoom)
<1>1. TableInv => TypeOK /\ MapSlabAgree /\ RecencyList /\ WindowsExact /\ PanicsOnlyWithoutRoom
  BY DEF TableInv
<1> QED
  BY <1>1, InitInv, TableInvStep, PTL DEF Spec

-----------------------------------------------------------------------------
(* Directions.                                                             *)

\* The slot that was written last.
Latest(st) == st.buffer[(st.head + WINDOW_SIZE - 1) % WINDOW_SIZE]

\* An update writes there.
LEMMA LatestIsUpdate ==
  ASSUME NEW Addr, NEW st \in StateType(Addr), NEW pkt \in PacketSummary
  PROVE  /\ Latest(Update(st, pkt)) = pkt
         /\ Update(st, pkt).initiator_ip = st.initiator_ip
<1> DEFINE h == st.head
           new == Update(st, pkt)
<1>1. h \in Slots /\ WINDOW_SIZE \in Nat \ {0} /\ st.buffer \in [Slots -> PacketSummary]
  BY WindowAssumption DEF StateType
<1>2. new.buffer = [st.buffer EXCEPT ![h] = pkt] /\ new.head = (h + 1) % WINDOW_SIZE
  BY DEF Update
<1> HIDE DEF h, new
<1>3. new.head = IF h + 1 = WINDOW_SIZE THEN 0 ELSE h + 1
  BY <1>1, <1>2, NextSlot
<1>4. (new.head + WINDOW_SIZE - 1) % WINDOW_SIZE = h
  <2>1. CASE h + 1 = WINDOW_SIZE
    BY <1>1, <1>3, <2>1 DEF Slots
  <2>2. CASE h + 1 # WINDOW_SIZE
    <3>1. new.head + WINDOW_SIZE - 1 = h + WINDOW_SIZE
      BY <1>1, <1>3, <2>2 DEF Slots
    <3>2. (h + WINDOW_SIZE) % WINDOW_SIZE = h
      BY <1>1 DEF Slots
    <3> QED
      BY <3>1, <3>2
  <2> QED
    BY <2>1, <2>2
<1>5. Latest(new) = pkt
  BY <1>1, <1>2, <1>4 DEF Latest
<1> QED
  BY <1>5 DEF new, Update

\* The initiator of a flow is the source of an event of the flow.
OpenersKnown ==
  \A k \in DOMAIN map :
    /\ slab[map[k]].state.initiator_ip = opener[k].ip
    /\ \E e \in Events : FlowKeyOf(e) = k /\ e.src = opener[k]

DirectionInv == OpenersKnown /\ DirectionsFollowInitiator

\* Two events of one flow have the same two endpoints.
LEMMA SameEndpoints ==
  ASSUME NEW e \in Events, NEW f \in Events, FlowKeyOf(e) = FlowKeyOf(f)
  PROVE  e.src = f.src \/ e.src = f.dst
<1>1. /\ e.src \in Endpoint /\ e.dst \in Endpoint /\ e.protocol \in Nat
      /\ f.src \in Endpoint /\ f.dst \in Endpoint /\ f.protocol \in Nat
  BY EventsAssumption DEF EventType
<1>2. KeyOf(e.src, e.dst, e.protocol) = KeyOf(f.src, f.dst, f.protocol)
  BY DEF FlowKeyOf
<1>3. ASSUME NEW a \in Endpoint, NEW b \in Endpoint, NEW c \in Endpoint, NEW d \in Endpoint,
             NEW p \in Nat, NEW q \in Nat, KeyOf(a, b, p) = KeyOf(c, d, q)
      PROVE  a = c \/ a = d
  <2>1. {a, b} = {c, d}
    BY <1>3, FlowKeyIdentifiesConversation
  <2> QED
    BY <2>1
<1> QED
  BY <1>1, <1>2, <1>3

\* A packet of a known flow: its direction compares it with the initiator.
LEMMA HitDirection ==
  ASSUME TableInv, OpenersKnown, NEW event \in Events, Hit(event), last' = event
  PROVE  DirectionInv'
<1> DEFINE k == FlowKeyOf(event)
           idx == map[k]
           pkt == Summary(event, DirectionOf(event, slab[idx].state))
<1>1. /\ k \in DOMAIN map /\ idx \in DOMAIN slab
      /\ \A i \in DOMAIN slab : slab[i] \in Node
      /\ \A j \in DOMAIN map : map[j] \in DOMAIN slab
  BY SlabPrefix DEF Hit, TypeOK, TableInv
<1>2. /\ slab' = [slab EXCEPT ![idx].state = Update(slab[idx].state, pkt)]
      /\ map' = map /\ opener' = opener
  BY DEF Hit
<1>3. slab[idx].state \in StateType(IPs) /\ pkt \in PacketSummary
  BY <1>1, SummaryType, DirectionType DEF Node
<1>4. /\ Latest(Update(slab[idx].state, pkt)) = pkt
      /\ Update(slab[idx].state, pkt).initiator_ip = slab[idx].state.initiator_ip
  BY <1>3, LatestIsUpdate
<1>5. pkt.dir = "Forward" <=> event.src.ip = slab[idx].state.initiator_ip
  BY DEF Summary, DirectionOf
<1>6. PICK e \in Events : FlowKeyOf(e) = k /\ e.src = opener[k]
  BY <1>1 DEF OpenersKnown
<1>7. opener[k] = event.src \/ opener[k] = event.dst
  BY <1>6, SameEndpoints
<1>8. slab[idx].state.initiator_ip = opener[k].ip
  BY <1>1 DEF OpenersKnown
<1> HIDE DEF k, idx, pkt
<1>9. slab'[idx].state = Update(slab[idx].state, pkt)
  <2>1. slab'[idx] = [slab[idx] EXCEPT !.state = Update(slab[idx].state, pkt)]
    BY <1>1, <1>2
  <2> QED
    BY <1>1, <2>1 DEF Node
<1>10. OpenersKnown'
  <2> SUFFICES ASSUME NEW j \in DOMAIN map
               PROVE  slab'[map[j]].state.initiator_ip = opener[j].ip
    BY <1>2 DEF OpenersKnown
  <2>1. slab[map[j]].state.initiator_ip = opener[j].ip /\ map[j] \in DOMAIN slab
    BY <1>1 DEF OpenersKnown
  <2>2. CASE map[j] = idx
    BY <1>4, <1>9, <2>1, <2>2
  <2>3. CASE map[j] # idx
    BY <1>2, <2>1, <2>3
  <2> QED
    BY <2>2, <2>3
<1>11. DirectionsFollowInitiator'
  <2>1. Latest(slab'[map'[k]].state).dir = "Forward"
          <=> event.src = opener'[k] \/ event.src.ip = event.dst.ip
    BY <1>2, <1>4, <1>5, <1>7, <1>8, <1>9 DEF idx
  <2> QED
    BY <2>1 DEF DirectionsFollowInitiator, Latest, k
<1> QED
  BY <1>10, <1>11 DEF DirectionInv

\* The first packet of a flow is Forward, in a new slot or a recycled one.
LEMMA FreshDirection ==
  ASSUME NEW event \in Events, NEW st \in StateType(IPs), st.initiator_ip = event.src.ip
  PROVE  LET new == FreshNode(event, st).state IN
         new.initiator_ip = event.src.ip /\ Latest(new).dir = "Forward"
<1>1. Summary(event, "Forward") \in PacketSummary
  BY SummaryType DEF Direction
<1>2. /\ Latest(FreshNode(event, st).state) = Summary(event, "Forward")
      /\ FreshNode(event, st).state.initiator_ip = st.initiator_ip
  BY <1>1, LatestIsUpdate DEF FreshNode
<1> QED
  BY <1>2 DEF Summary

\* A flow that is admitted has the event's source as initiator.
LEMMA AdmissionDirection ==
  ASSUME TableInv, OpenersKnown, NEW event \in Events, Allocate(event) \/ Recycle(event),
         last' = event
  PROVE  DirectionInv'
<1> DEFINE k == FlowKeyOf(event)
           n == Cardinality(DOMAIN slab)
<1>1. /\ DOMAIN slab = 0 .. n - 1 /\ n \in Nat
      /\ \A i \in DOMAIN slab : slab[i] \in Node
      /\ \A j \in DOMAIN map : map[j] \in DOMAIN slab /\ slab[map[j]].key = j
      /\ DOMAIN opener = DOMAIN map
  BY SlabPrefix DEF TypeOK, TableInv, MapSlabAgree
<1>2. event.src.ip \in IPs
  BY EventFacts
<1>3. PICK idx :
        /\ map'[k] = idx /\ opener'[k] = event.src
        /\ slab'[idx].state.initiator_ip = event.src.ip
        /\ Latest(slab'[idx].state).dir = "Forward"
        /\ \A j \in DOMAIN map' : j # k =>
             /\ j \in DOMAIN map /\ map'[j] = map[j] /\ opener'[j] = opener[j]
             /\ slab'[map[j]] = slab[map[j]]
  <2>1. CASE Allocate(event)
    <3>1. /\ slab' = With(slab, n, FreshNode(event, NewState(event.src.ip)))
          /\ map' = With(map, k, n) /\ opener' = With(opener, k, event.src)
      BY <2>1 DEF Allocate
    <3>2. LET new == FreshNode(event, NewState(event.src.ip)).state IN
          new.initiator_ip = event.src.ip /\ Latest(new).dir = "Forward"
      <4>1. NewState(event.src.ip) \in StateType(IPs)
        BY <1>2, NewStateType
      <4>2. NewState(event.src.ip).initiator_ip = event.src.ip
        BY DEF NewState
      <4> QED
        BY <4>1, <4>2, FreshDirection
    <3> HIDE DEF k, n
    <3>3. slab'[n] = FreshNode(event, NewState(event.src.ip)) /\ map'[k] = n /\ opener'[k] = event.src
      BY <3>1 DEF With
    <3>4. \A j \in DOMAIN map' : j # k =>
             /\ j \in DOMAIN map /\ map'[j] = map[j] /\ opener'[j] = opener[j]
             /\ slab'[map[j]] = slab[map[j]]
      <4> SUFFICES ASSUME NEW j \in DOMAIN map', j # k
                   PROVE  /\ j \in DOMAIN map /\ map'[j] = map[j] /\ opener'[j] = opener[j]
                          /\ slab'[map[j]] = slab[map[j]]
        OBVIOUS
      <4>1. j \in DOMAIN map /\ map'[j] = map[j] /\ opener'[j] = opener[j]
        BY <1>1, <3>1 DEF With
      <4>2. map[j] \in DOMAIN slab /\ map[j] # n
        BY <1>1, <4>1
      <4> QED
        BY <3>1, <4>1, <4>2 DEF With
    <3> QED
      BY <3>2, <3>3, <3>4
  <2>2. CASE Recycle(event)
    <3> DEFINE i == lru.tail
               st == Reset(slab[i].state, event.src.ip)
               victim == slab[i].key
    <3>1. i \in DOMAIN slab
      BY <2>2 DEF Recycle, EvictedSlot, TableInv, RecencyList, Ordered
    <3>2. /\ slab' = [slab EXCEPT ![i] = FreshNode(event, st)]
          /\ map' = With(Without(map, victim), k, i)
          /\ opener' = With(Without(opener, victim), k, event.src)
      BY <2>2 DEF Recycle, EvictedSlot
    <3>3. LET new == FreshNode(event, st).state IN
          new.initiator_ip = event.src.ip /\ Latest(new).dir = "Forward"
      <4>1. st \in StateType(IPs)
        BY <1>1, <1>2, <3>1, ResetType DEF Node
      <4>2. st.initiator_ip = event.src.ip
        BY DEF Reset
      <4> QED
        BY <4>1, <4>2, FreshDirection
    <3> HIDE DEF k, n, i, st
    <3>4. slab'[i] = FreshNode(event, st) /\ map'[k] = i /\ opener'[k] = event.src
      BY <3>1, <3>2 DEF With
    <3>5. \A j \in DOMAIN map' : j # k =>
             /\ j \in DOMAIN map /\ map'[j] = map[j] /\ opener'[j] = opener[j]
             /\ slab'[map[j]] = slab[map[j]]
      <4> SUFFICES ASSUME NEW j \in DOMAIN map', j # k
                   PROVE  /\ j \in DOMAIN map /\ map'[j] = map[j] /\ opener'[j] = opener[j]
                          /\ slab'[map[j]] = slab[map[j]]
        OBVIOUS
      <4> HIDE DEF victim
      <4>1. /\ j \in DOMAIN map \ {victim}
            /\ map'[j] = map[j] /\ opener'[j] = opener[j]
        BY <1>1, <3>2 DEF With, Without
      <4>2. map[j] \in DOMAIN slab /\ map[j] # i
        BY <1>1, <4>1 DEF victim
      <4> QED
        BY <3>2, <4>1, <4>2
    <3> QED
      BY <3>3, <3>4, <3>5
  <2> QED
    BY <2>1, <2>2
<1> HIDE DEF k, n
<1>4. OpenersKnown'
  <2> SUFFICES ASSUME NEW j \in DOMAIN map'
               PROVE  /\ slab'[map'[j]].state.initiator_ip = opener'[j].ip
                      /\ \E e \in Events : FlowKeyOf(e) = j /\ e.src = opener'[j]
    BY DEF OpenersKnown
  <2>1. CASE j = k
    BY <1>3, <2>1 DEF k
  <2>2. CASE j # k
    BY <1>3, <2>2 DEF OpenersKnown
  <2> QED
    BY <2>1, <2>2
<1>5. DirectionsFollowInitiator'
  <2>1. Latest(slab'[map'[k]].state).dir = "Forward" /\ event.src = opener'[k]
    BY <1>3
  <2> QED
    BY <2>1 DEF DirectionsFollowInitiator, Latest, k
<1> QED
  BY <1>4, <1>5 DEF DirectionInv

\* For every capacity, window size and set of events: the packet processed last
\* is stored as Forward exactly when the endpoint that opened the flow sent it,
\* or both endpoints have one address (aggregator.rs:427-432, 464).
THEOREM DirectionsRight == Spec => []DirectionsFollowInitiator
<1>1. Init => DirectionInv
  BY DEF Init, DirectionInv, OpenersKnown, DirectionsFollowInitiator
<1>2. TableInv /\ DirectionInv /\ [Next]_vars => DirectionInv'
  <2> SUFFICES ASSUME TableInv, DirectionInv, [Next]_vars PROVE DirectionInv'
    OBVIOUS
  <2>1. ASSUME NEW event \in Events, Processed(event) PROVE DirectionInv'
    BY <2>1, HitDirection, AdmissionDirection DEF Processed, DirectionInv
  <2>2. ASSUME UNCHANGED <<map, slab, opener, last>> PROVE DirectionInv'
    BY <2>2 DEF DirectionInv, OpenersKnown, DirectionsFollowInitiator
  <2> QED
    BY <2>1, <2>2 DEF Next, ProcessPacket, Panic, vars, history
<1>3. DirectionInv => DirectionsFollowInitiator
  BY DEF DirectionInv
<1> QED
  BY <1>1, <1>2, <1>3, InitInv, TableInvStep, PTL DEF Spec

-----------------------------------------------------------------------------
(* Refinement of the abstract cache.                                       *)

\* One flow of the abstract cache, as the table holds it.
FlowIn(k) ==
  LET st == slab[map[k]].state
  IN  [initiator |-> st.initiator_ip, window |-> Unrolled(st),
       total |-> st.total_packets, used |-> used[k]]

\* What `update` does to the part of a FlowState the cache speaks of.
LEMMA UpdatedFlow ==
  ASSUME NEW st \in StateType(IPs), WindowShape(st), AggregatesExact(st),
         NEW pkt \in PacketSummary
  PROVE  /\ Update(st, pkt).initiator_ip = st.initiator_ip
         /\ Update(st, pkt).total_packets = st.total_packets + 1
         /\ Unrolled(Update(st, pkt)) = Cache!Newest(Append(Unrolled(st), pkt))
<1>1. Unrolled(Update(st, pkt)) = LastOf(Append(Unrolled(st), pkt))
  BY UpdateSlides
<1> QED
  BY <1>1, UpdateFields DEF LastOf, Cache!Newest

\* A fresh node holds its first packet and nothing else.
LEMMA FreshFlow ==
  ASSUME NEW event \in Events, NEW st \in StateType(IPs), WindowShape(st), AggregatesExact(st),
         st.count = 0, st.total_packets = 0, st.initiator_ip = event.src.ip
  PROVE  LET new == FreshNode(event, st).state IN
         /\ new.initiator_ip = event.src.ip
         /\ new.total_packets = 1
         /\ Unrolled(new) = <<Cache!Summary(event, "Forward")>>
<1> DEFINE pkt == Summary(event, "Forward")
<1>1. pkt \in PacketSummary
  BY SummaryType DEF Direction
<1>2. Unrolled(st) = << >>
  BY DEF Unrolled
<1>3. Cache!Newest(Append(<< >>, pkt)) = <<pkt>>
  BY WindowAssumption DEF Cache!Newest
<1>4. pkt = Cache!Summary(event, "Forward")
  BY DEF Summary, Cache!Summary
<1>5. FreshNode(event, st).state = Update(st, pkt)
  BY DEF FreshNode
<1> HIDE DEF pkt
<1>6. /\ Update(st, pkt).initiator_ip = event.src.ip
      /\ Update(st, pkt).total_packets = 1
  BY <1>1, UpdatedFlow
<1>7. Unrolled(Update(st, pkt)) = <<pkt>>
  <2>1. Unrolled(Update(st, pkt)) = Cache!Newest(Append(Unrolled(st), pkt))
    BY <1>1, UpdatedFlow
  <2> QED
    BY <1>2, <1>3, <2>1
<1> QED
  BY <1>4, <1>5, <1>6, <1>7

\* The cache identifies flows as the table does.
LEMMA SameKey ==
  ASSUME NEW event
  PROVE  Cache!FlowKeyOf(event) = FlowKeyOf(event)
BY DEF Cache!FlowKeyOf, Cache!KeyOf, Cache!Before, FlowKeyOf, KeyOf, Before

\* The cache counts as the table does.
LEMMA SameCardinality ==
  ASSUME NEW S
  PROVE  Cache!Cardinality(S) = Cardinality(S)
BY DEF Cache!Cardinality, Cardinality

\* A bijection keeps the cardinality of a finite set.
LEMMA SameSize ==
  ASSUME NEW S, IsFiniteSet(S), NEW T, NEW f \in [S -> T],
         \A i, j \in S : f[i] = f[j] => i = j,
         \A k \in T : \E i \in S : f[i] = k
  PROVE  Cardinality(T) = Cardinality(S)
<1>1. f \in Injection(S, T)
  BY DEF Injection, IsInjective
<1>2. f \in Surjection(S, T)
  BY DEF Surjection
<1>3. f \in Bijection(S, T)
  BY <1>1, <1>2 DEF Bijection
<1> QED
  BY <1>3, FS_Bijection DEF ExistsBijection

\* As many flows are known as the slab has slots.
LEMMA FlowsAsSlots ==
  ASSUME TypeOK, MapSlabAgree
  PROVE  /\ DOMAIN CachedFlows = DOMAIN map
         /\ \A k \in DOMAIN map : CachedFlows[k] = FlowIn(k)
         /\ Cardinality(DOMAIN map) = Cardinality(DOMAIN slab)
<1> DEFINE f == [i \in DOMAIN slab |-> slab[i].key]
<1>1. /\ f \in [DOMAIN slab -> DOMAIN map]
      /\ \A i, j \in DOMAIN slab : f[i] = f[j] => i = j
      /\ \A k \in DOMAIN map : \E i \in DOMAIN slab : f[i] = k
  BY DEF MapSlabAgree, TypeOK
<1>2. IsFiniteSet(DOMAIN slab)
  <2>1. PICK m \in 0 .. capacity : slab \in [0 .. m - 1 -> Node]
    BY DEF TypeOK
  <2>2. m - 1 \in Int
    BY CapacityAssumption DEF TypeOK
  <2>3. IsFiniteSet(0 .. m - 1)
    BY <2>2, FS_Interval
  <2> QED
    BY <2>1, <2>3
<1> HIDE DEF f
<1>3. Cardinality(DOMAIN map) = Cardinality(DOMAIN slab)
  BY <1>1, <1>2, SameSize
<1> QED
  BY <1>3 DEF CachedFlows, FlowIn

\* A flow whose slot keeps its node and its time of use is unchanged.
LEMMA SameFlow ==
  ASSUME NEW k, map'[k] = map[k], slab'[map[k]] = slab[map[k]], used'[k] = used[k]
  PROVE  FlowIn(k)' = FlowIn(k)
BY DEF FlowIn, Unrolled

\* A hit is the arrival of a packet of a flow the cache knows.
LEMMA HitRefines ==
  ASSUME TableInv, TableInv', NEW event \in Events, clock < MaxPackets, Hit(event),
         clock' = clock + 1, UNCHANGED capacity
  PROVE  Cache!Packet(event)
<1> DEFINE k == FlowKeyOf(event)
           idx == map[k]
           st == slab[idx].state
           pkt == Summary(event, DirectionOf(event, st))
<1> USE DEF TableInv
<1>1. /\ k \in DOMAIN map /\ map' = map
      /\ used' = [used EXCEPT ![k] = clock + 1]
      /\ slab' = [slab EXCEPT ![idx].state = Update(slab[idx].state, pkt)]
  BY DEF Hit
<1>2. /\ idx \in DOMAIN slab /\ slab[idx] \in Node
      /\ \A j \in DOMAIN map : map[j] \in DOMAIN slab /\ (j # k => map[j] # idx)
      /\ DOMAIN used = DOMAIN map
  BY <1>1, SlabPrefix DEF TypeOK, MapSlabAgree
<1>3. st \in StateType(IPs) /\ WindowShape(st) /\ AggregatesExact(st) /\ pkt \in PacketSummary
  BY <1>2, SummaryType, DirectionType DEF Node, WindowsExact
<1>4. pkt = Cache!Summary(event, IF event.src.ip = st.initiator_ip THEN "Forward" ELSE "Backward")
  BY DEF Summary, DirectionOf, Cache!Summary
<1> HIDE DEF k, idx, st, pkt
<1>5. /\ slab'[idx].state = Update(st, pkt)
      /\ \A i \in DOMAIN slab : i # idx => slab'[i] = slab[i]
  BY <1>1, <1>2 DEF Node, st
<1>6. FlowIn(k)' = Cache!Extended(CachedFlows[k], event)
  <2>1. FlowIn(k)' = [initiator |-> Update(st, pkt).initiator_ip,
                      window |-> Unrolled(Update(st, pkt)),
                      total |-> Update(st, pkt).total_packets, used |-> clock + 1]
    <3>1. map'[k] = idx /\ used'[k] = clock + 1
      BY <1>1, <1>2 DEF idx
    <3>2. Unrolled(slab'[idx].state) = Unrolled(Update(st, pkt))
      BY <1>5
    <3> QED
      BY <1>5, <3>1, <3>2 DEF FlowIn, Unrolled
  <2>2. CachedFlows[k] = [initiator |-> st.initiator_ip, window |-> Unrolled(st),
                          total |-> st.total_packets, used |-> used[k]]
    BY <1>1 DEF CachedFlows, st, idx
  <2>3. /\ Update(st, pkt).initiator_ip = st.initiator_ip
        /\ Update(st, pkt).total_packets = st.total_packets + 1
        /\ Unrolled(Update(st, pkt)) = Cache!Newest(Append(Unrolled(st), pkt))
    BY <1>3, UpdatedFlow
  <2> QED
    BY <1>4, <2>1, <2>2, <2>3 DEF Cache!Extended
<1>7. \A j \in DOMAIN map : j # k => FlowIn(j)' = CachedFlows[j]
  <2> SUFFICES ASSUME NEW j \in DOMAIN map, j # k PROVE FlowIn(j)' = CachedFlows[j]
    OBVIOUS
  <2>1. map'[j] = map[j] /\ slab'[map[j]] = slab[map[j]] /\ used'[j] = used[j]
    BY <1>1, <1>2, <1>5
  <2> QED
    BY <2>1, SameFlow, FlowsAsSlots
<1>8. /\ DOMAIN CachedFlows = DOMAIN map
      /\ CachedFlows' = [j \in DOMAIN map |-> FlowIn(j)']
  BY <1>1, FlowsAsSlots DEF CachedFlows, FlowIn
<1>9. Cache!Stays(k, DOMAIN map)
  BY <1>1, <1>8 DEF Cache!Stays
<1>10. CachedFlows' = [j \in DOMAIN map \union {k} |->
                         IF j # k THEN CachedFlows[j]
                         ELSE IF k \in DOMAIN CachedFlows THEN Cache!Extended(CachedFlows[k], event)
                         ELSE Cache!Admitted(event)]
  BY <1>1, <1>6, <1>7, <1>8
<1> QED
  BY <1>8, <1>9, <1>10, SameKey DEF Cache!Packet, k

\* Taking a vacant slot is an admission to a cache that has room.
LEMMA AllocateRefines ==
  ASSUME TableInv, TableInv', NEW event \in Events, clock < MaxPackets, Allocate(event),
         clock' = clock + 1, UNCHANGED capacity
  PROVE  Cache!Packet(event)
<1> DEFINE k == FlowKeyOf(event)
           n == Cardinality(DOMAIN slab)
           node == FreshNode(event, NewState(event.src.ip))
<1> USE DEF TableInv
<1>1. /\ k \notin DOMAIN map /\ n < capacity
      /\ slab' = With(slab, n, node)
      /\ used' = With(used, k, clock + 1)
      /\ map' = With(map, k, n)
  BY SlabPrefix DEF Allocate, Full
<1>2. /\ \A j \in DOMAIN map : map[j] \in DOMAIN slab
      /\ n \notin DOMAIN slab
      /\ DOMAIN used = DOMAIN map
  BY SlabPrefix DEF TypeOK
<1>3. /\ node.state.initiator_ip = event.src.ip
      /\ node.state.total_packets = 1
      /\ Unrolled(node.state) = <<Cache!Summary(event, "Forward")>>
  <2> DEFINE st == NewState(event.src.ip)
  <2>1. st \in StateType(IPs) /\ WindowShape(st) /\ AggregatesExact(st)
    BY NewStateType, EventFacts
  <2>2. st.count = 0 /\ st.total_packets = 0 /\ st.initiator_ip = event.src.ip
    BY DEF NewState
  <2> HIDE DEF st
  <2> QED
    BY <2>1, <2>2, FreshFlow DEF st
<1> HIDE DEF k, n, node
<1>4. FlowIn(k)' = Cache!Admitted(event)
  <2>1. map'[k] = n /\ used'[k] = clock + 1 /\ slab'[n] = node
    BY <1>1, <1>2 DEF With
  <2>2. Unrolled(slab'[n].state) = Unrolled(node.state)
    BY <2>1
  <2> QED
    BY <1>3, <2>1, <2>2 DEF FlowIn, Unrolled, Cache!Admitted
<1>5. \A j \in DOMAIN map : FlowIn(j)' = CachedFlows[j]
  <2> SUFFICES ASSUME NEW j \in DOMAIN map PROVE FlowIn(j)' = CachedFlows[j]
    OBVIOUS
  <2>1. map'[j] = map[j] /\ slab'[map[j]] = slab[map[j]] /\ used'[j] = used[j]
    BY <1>1, <1>2 DEF With
  <2> QED
    BY <2>1, SameFlow, FlowsAsSlots
<1>6. /\ DOMAIN CachedFlows = DOMAIN map
      /\ Cardinality(DOMAIN map) < capacity
  BY <1>1, FlowsAsSlots DEF n
<1>7. CachedFlows' = [j \in DOMAIN map \union {k} |-> FlowIn(j)']
  <2>1. DOMAIN map' = DOMAIN map \union {k}
    BY <1>1 DEF With
  <2> QED
    BY <2>1 DEF CachedFlows, FlowIn
<1>8. Cache!Stays(k, DOMAIN map)
  BY <1>6, SameCardinality DEF Cache!Stays
<1>9. CachedFlows' = [j \in DOMAIN map \union {k} |->
                         IF j # k THEN CachedFlows[j]
                         ELSE IF k \in DOMAIN CachedFlows THEN Cache!Extended(CachedFlows[k], event)
                         ELSE Cache!Admitted(event)]
  BY <1>1, <1>4, <1>5, <1>6, <1>7
<1> QED
  BY <1>6, <1>8, <1>9, SameKey DEF Cache!Packet, k

\* Recycling the tail's slot is an admission that replaces a least recently
\* used flow.
LEMMA RecycleRefines ==
  ASSUME TableInv, TableInv', NEW event \in Events, clock < MaxPackets, Recycle(event),
         clock' = clock + 1, UNCHANGED capacity
  PROVE  Cache!Packet(event)
<1> DEFINE k == FlowKeyOf(event)
           idx == lru.tail
           victim == slab[idx].key
           node == FreshNode(event, Reset(slab[idx].state, event.src.ip))
           stay == DOMAIN map \ {victim}
<1> USE DEF TableInv
<1>1. /\ k \notin DOMAIN map /\ Full /\ idx # None
      /\ slab' = [slab EXCEPT ![idx] = node]
      /\ used' = With(Without(used, victim), k, clock + 1)
      /\ map' = With(Without(map, victim), k, idx)
  BY DEF Recycle, EvictedSlot
<1>2. /\ idx \in DOMAIN slab /\ slab[idx] \in Node
      /\ \A i \in DOMAIN slab : Ages[i] >= Ages[idx]
      /\ victim \in DOMAIN map /\ map[victim] = idx
      /\ \A j \in stay : map[j] \in DOMAIN slab /\ map[j] # idx
      /\ DOMAIN used = DOMAIN map
  <2>1. idx \in DOMAIN slab /\ \A i \in DOMAIN slab : Ages[i] >= Ages[idx]
    BY <1>1 DEF RecencyList, Ordered
  <2> QED
    BY <2>1, SlabPrefix DEF TypeOK, MapSlabAgree
<1>3. /\ node.state.initiator_ip = event.src.ip
      /\ node.state.total_packets = 1
      /\ Unrolled(node.state) = <<Cache!Summary(event, "Forward")>>
  <2> DEFINE st == Reset(slab[idx].state, event.src.ip)
  <2>1. slab[idx].state \in StateType(IPs) /\ event.src.ip \in IPs
    BY <1>2, EventFacts DEF Node
  <2>2. st \in StateType(IPs) /\ WindowShape(st) /\ AggregatesExact(st)
    BY <2>1, ResetType
  <2>3. st.count = 0 /\ st.total_packets = 0 /\ st.initiator_ip = event.src.ip
    BY DEF Reset
  <2> HIDE DEF st
  <2> QED
    BY <2>2, <2>3, FreshFlow DEF st
<1>4. \A j \in DOMAIN map : used[j] = Ages[map[j]]
  BY DEF Ages, MapSlabAgree, TypeOK
<1> HIDE DEF k, idx, victim, node, stay
<1>5. FlowIn(k)' = Cache!Admitted(event)
  <2>1. map'[k] = idx /\ used'[k] = clock + 1 /\ slab'[idx] = node
    BY <1>1, <1>2 DEF With, Without
  <2>2. Unrolled(slab'[idx].state) = Unrolled(node.state)
    BY <2>1
  <2> QED
    BY <1>3, <2>1, <2>2 DEF FlowIn, Unrolled, Cache!Admitted
<1>6. \A j \in stay : FlowIn(j)' = CachedFlows[j]
  <2> SUFFICES ASSUME NEW j \in stay PROVE FlowIn(j)' = CachedFlows[j]
    OBVIOUS
  <2>1. map'[j] = map[j] /\ slab'[map[j]] = slab[map[j]] /\ used'[j] = used[j]
    BY <1>1, <1>2 DEF With, Without, stay
  <2> QED
    BY <2>1, SameFlow, FlowsAsSlots DEF stay
<1>7. /\ DOMAIN CachedFlows = DOMAIN map
      /\ \A j \in DOMAIN map : CachedFlows[j].used = used[j]
  BY DEF CachedFlows
<1>8. CachedFlows' = [j \in stay \union {k} |-> FlowIn(j)']
  <2>1. DOMAIN map' = stay \union {k}
    BY <1>1 DEF With, Without, stay
  <2> QED
    BY <2>1 DEF CachedFlows, FlowIn
<1>9. Cache!Stays(k, stay)
  <2>1. \A j \in DOMAIN map : CachedFlows[victim].used <= CachedFlows[j].used
    <3> SUFFICES ASSUME NEW j \in DOMAIN map
                 PROVE  CachedFlows[victim].used <= CachedFlows[j].used
      OBVIOUS
    <3>1. map[j] \in DOMAIN slab
      BY DEF TypeOK
    <3>2. used[victim] = Ages[idx] /\ used[j] = Ages[map[j]] /\ Ages[map[j]] >= Ages[idx]
      BY <1>2, <1>4, <3>1
    <3>3. used[victim] \in Nat /\ used[j] \in Nat
      BY <1>2, MaxPacketsAssumption DEF TypeOK
    <3> QED
      BY <1>2, <1>7, <3>2, <3>3
  <2>2. ~ (Cardinality(DOMAIN map) < capacity)
    <3>1. Cardinality(DOMAIN map) = Cardinality(DOMAIN slab)
      BY FlowsAsSlots
    <3> QED
      BY <1>1, <3>1, SlabPrefix DEF Full
  <2> QED
    BY <1>1, <1>2, <1>7, <2>1, <2>2, SameCardinality DEF Cache!Stays, stay
<1>10. CachedFlows' = [j \in stay \union {k} |->
                         IF j # k THEN CachedFlows[j]
                         ELSE IF k \in DOMAIN CachedFlows THEN Cache!Extended(CachedFlows[k], event)
                         ELSE Cache!Admitted(event)]
  BY <1>1, <1>5, <1>6, <1>7, <1>8
<1>11. stay \in SUBSET DOMAIN CachedFlows
  BY <1>7 DEF stay
<1> QED
  BY <1>9, <1>10, <1>11, SameKey DEF Cache!Packet, k

\* For every capacity (even none), window size and events, process_packet
\* with its slab, intrusive list and ring buffers implements the abstract
\* cache: at most `room` flows, each with its last WINDOW_SIZE packets since
\* admission, and only a least recently used flow ever evicted.
THEOREM FlowTableRefines == Spec => ImplementsFlowCache
<1>1. Init => Cache!Init
  BY DEF Init, Cache!Init, CachedFlows
<1>2. TableInv /\ TableInv' /\ [Next]_vars => [Cache!Next]_<<capacity, CachedFlows, clock>>
  <2> SUFFICES ASSUME TableInv, TableInv', [Next]_vars
               PROVE  [Cache!Next]_<<capacity, CachedFlows, clock>>
    OBVIOUS
  <2>1. ASSUME NEW event \in Events, ProcessPacket(event)
        PROVE  [Cache!Next]_<<capacity, CachedFlows, clock>>
    <3>1. CASE Processed(event)
      <4>1. Cache!Packet(event) /\ clock < MaxPackets
        BY <2>1, <3>1, HitRefines, AllocateRefines, RecycleRefines DEF ProcessPacket, Processed
      <4> QED
        BY <4>1 DEF Cache!Next
    <3>2. CASE Panic(event)
      BY <2>1, <3>2 DEF Panic, ProcessPacket, history, CachedFlows, Unrolled
    <3> QED
      BY <2>1, <3>1, <3>2 DEF ProcessPacket
  <2>2. CASE UNCHANGED vars
    BY <2>2 DEF vars, history, CachedFlows, Unrolled
  <2> QED
    BY <2>1, <2>2 DEF Next
<1> QED
  BY <1>1, <1>2, InitInv, TableInvStep, PTL DEF Spec, ImplementsFlowCache, Cache!Spec

-----------------------------------------------------------------------------
(* The mock generator's feed.                                              *)

\* Quotient and remainder.
LEMMA Division ==
  ASSUME NEW n \in Nat \ {0}, NEW m \in Nat
  PROVE  \E p \in Nat, r \in Nat : p = m \div n /\ r = m % n /\ m = n * p + r
<1>1. m \div n \in Nat
  OBVIOUS
<1>2. m % n \in Nat
  OBVIOUS
<1>3. m = n * (m \div n) + (m % n)
  OBVIOUS
<1> QED
  BY <1>1, <1>2, <1>3, Zenon

\* Multiples of n are n apart at least.
LEMMA MultiplesApart ==
  ASSUME NEW n \in Nat \ {0}, NEW p \in Nat, NEW q \in Nat, n * p < n * q
  PROVE  p < q /\ n * q - n * p = n * (q - p) /\ n <= n * (q - p)
<1>1. n * q - n * p = n * (q - p)
  OBVIOUS
<1>2. p < q
  <2> SUFFICES ASSUME q <= p PROVE FALSE
    OBVIOUS
  <2>1. n * (p - q) \in Nat /\ n * (p - q) = n * p - n * q
    OBVIOUS
  <2> QED
    BY <2>1
<1>3. n <= n * (q - p)
  <2>1. PICK e \in Nat : q - p = e + 1
    <3>1. q - p - 1 \in Nat /\ q - p = (q - p - 1) + 1
      BY <1>2
    <3> QED
      BY <3>1
  <2>2. n * (e + 1) = n * e + n /\ n * e \in Nat
    OBVIOUS
  <2> QED
    BY <2>1, <2>2
<1> QED
  BY <1>1, <1>2, <1>3

\* Numbers with one remainder are a multiple of the divisor apart.
LEMMA SameRemainder ==
  ASSUME NEW n \in Nat \ {0}, NEW c \in Nat, NEW d \in Nat, c < d, c % n = d % n
  PROVE  /\ c \div n < d \div n
         /\ d - c = n * ((d \div n) - (c \div n))
         /\ n <= d - c
<1>1. PICK p \in Nat, r \in Nat : p = c \div n /\ r = c % n /\ c = n * p + r
  BY Division, Zenon
<1>2. PICK q \in Nat, k \in Nat : q = d \div n /\ k = d % n /\ d = n * q + k
  BY Division, Zenon
<1>0. r = k
  BY <1>1, <1>2, Zenon
<1>3. n * p \in Nat /\ n * q \in Nat
  OBVIOUS
<1>4. n * p < n * q /\ d - c = n * q - n * p
  BY ONLY <1>0, <1>1, <1>2, <1>3, c < d, c \in Nat, d \in Nat
<1>5. p < q /\ d - c = n * (q - p) /\ n <= d - c
  BY <1>4, MultiplesApart
<1> QED
  BY <1>1, <1>2, <1>5, Zenon

\* A pair of addresses comes back after `flows` squared packets at the earliest.
LEMMA PairPeriod ==
  ASSUME NEW n \in Nat \ {0}, NEW c \in Nat, NEW d \in Nat, c < d,
         c % n = d % n, (c \div n) % n = (d \div n) % n
  PROVE  n * n <= d - c
<1>1. PICK p \in Nat, q \in Nat : /\ p = c \div n /\ q = d \div n /\ p < q
                                /\ d - c = n * (q - p)
  <2>1. c \div n \in Nat
    BY Division, Zenon
  <2>2. d \div n \in Nat
    BY Division, Zenon
  <2>3. c \div n < d \div n /\ d - c = n * ((d \div n) - (c \div n))
    BY SameRemainder, Zenon
  <2> QED
    BY <2>1, <2>2, <2>3, Zenon
<1>2. p % n = q % n
  BY <1>1, Zenon
<1>3. n <= q - p
  BY <1>1, <1>2, SameRemainder
<1>4. PICK e \in Nat : q - p = n + e
  <2>1. q - p - n \in Nat /\ q - p = n + (q - p - n)
    BY <1>1, <1>3
  <2> QED
    BY <2>1
<1>5. n * (n + e) = n * n + n * e /\ n * e \in Nat /\ n * n \in Nat
  OBVIOUS
<1> QED
  BY <1>1, <1>4, <1>5

\* The key of the flow of the event with number c.
MockKey(c) == FlowKeyOf(MockEvent(c, flows))

\* What the generator puts into an event: offsets of its addresses, and ports by
\* the protocol.
Generated(e, a, x, y) ==
  /\ e.src \in Endpoint /\ e.dst \in Endpoint /\ e.protocol \in {6, 17}
  /\ e.src.ip = BaseIp + x /\ e.dst.ip = BaseIp + y + 1000
  /\ e.protocol = 6 => e.src.port = 1024 + a /\ e.dst.port \in {80, 443}
  /\ e.protocol = 17 => e.src.port = 53 /\ e.dst.port = 1024 + a

LEMMA MockFacts ==
  ASSUME MockFeed, NEW c \in 0 .. MaxPackets
  PROVE  \E a \in Nat, x \in Nat, y \in Nat :
            /\ a = c % EphemeralPorts /\ x = c % flows /\ y = (c \div flows) % flows
            /\ Generated(MockEvent(c, flows), a, x, y)
<1> DEFINE e == MockEvent(c, flows)
<1>1. c \in Nat /\ flows \in Nat \ {0} /\ EphemeralPorts \in Nat \ {0}
  BY MaxPacketsAssumption DEF MockFeed, EphemeralPorts
<1>2. PICK a \in Nat, x \in Nat, y \in Nat :
         a = c % EphemeralPorts /\ x = c % flows /\ y = (c \div flows) % flows
  <2>1. c % EphemeralPorts \in Nat
    BY <1>1, Division, Zenon
  <2>2. c % flows \in Nat
    BY <1>1, Division, Zenon
  <2>3. c \div flows \in Nat
    BY <1>1, Division, Zenon
  <2>4. (c \div flows) % flows \in Nat
    BY <1>1, <2>3, Division, Zenon
  <2> QED
    BY <2>1, <2>2, <2>4, Zenon
<1>3. e.src \in Endpoint /\ e.dst \in Endpoint
  BY EventsAssumption DEF MockFeed, EventType
<1>4. e.src.ip = BaseIp + x /\ e.dst.ip = BaseIp + y + 1000
  BY <1>2 DEF MockEvent, MockSrcIp, MockDstIp
<1>5. c % 2 = 0 => e.protocol = 6 /\ e.src.port = 1024 + a /\ e.dst.port \in {80, 443}
  BY <1>2 DEF MockEvent, Tcp, EphemeralPort
<1>6. ~ (c % 2 = 0) => e.protocol = 17 /\ e.src.port = 53 /\ e.dst.port = 1024 + a
  BY <1>2 DEF MockEvent, Udp, EphemeralPort
<1> HIDE DEF e
<1>7. Generated(e, a, x, y)
  BY <1>3, <1>4, <1>5, <1>6 DEF Generated
<1> QED
  BY <1>2, <1>7, Zenon DEF e

\* Equal keys mean equal sides: the protocol tells which port is the flow's own.
LEMMA SidesFromPorts ==
  ASSUME NEW e, NEW a \in Nat, NEW x \in Nat, NEW y \in Nat,
         NEW f, NEW b \in Nat, NEW z \in Nat, NEW w \in Nat,
         Generated(e, a, x, y), Generated(f, b, z, w), FlowKeyOf(e) = FlowKeyOf(f)
  PROVE  a = b /\ x = z /\ y = w
<1> USE DEF Generated
<1>1. e.protocol = f.protocol /\ {e.src, e.dst} = {f.src, f.dst}
  <2>1. PICK es \in Endpoint, ed \in Endpoint, p \in Nat :
           es = e.src /\ ed = e.dst /\ p = e.protocol
    OBVIOUS
  <2>2. PICK fs \in Endpoint, fd \in Endpoint, q \in Nat :
           fs = f.src /\ fd = f.dst /\ q = f.protocol
    OBVIOUS
  <2>3. KeyOf(es, ed, p) = KeyOf(fs, fd, q)
    BY <2>1, <2>2 DEF FlowKeyOf
  <2>4. p = q /\ {es, ed} = {fs, fd}
    BY ONLY <2>3, FlowKeyIdentifiesConversation
  <2> QED
    BY <2>1, <2>2, <2>4
<1>2. (e.src = f.src /\ e.dst = f.dst) \/ (e.src = f.dst /\ e.dst = f.src)
  BY <1>1
<1>3. e.src = f.src /\ e.dst = f.dst /\ a = b
  <2>1. CASE e.protocol = 6
    BY <1>1, <1>2, <2>1
  <2>2. CASE e.protocol = 17
    BY <1>1, <1>2, <2>2
  <2> QED
    BY <2>1, <2>2
<1>4. BaseIp \in Nat
  BY DEF BaseIp
<1>5. BaseIp + x = BaseIp + z /\ BaseIp + y + 1000 = BaseIp + w + 1000
  BY <1>3
<1> QED
  BY ONLY <1>3, <1>4, <1>5, x \in Nat, y \in Nat, z \in Nat, w \in Nat

\* A key comes back when ports and addresses do.
LEMMA MockPeriod ==
  ASSUME MockFeed, NEW c \in 0 .. MaxPackets, NEW d \in 0 .. MaxPackets,
         c < d, MockKey(c) = MockKey(d)
  PROVE  EphemeralPorts <= d - c /\ flows * flows <= d - c
<1>1. c \in Nat /\ d \in Nat /\ flows \in Nat \ {0} /\ EphemeralPorts \in Nat \ {0}
  BY MaxPacketsAssumption DEF MockFeed, EphemeralPorts
<1>2. PICK a \in Nat, x \in Nat, y \in Nat :
        /\ a = c % EphemeralPorts /\ x = c % flows /\ y = (c \div flows) % flows
        /\ Generated(MockEvent(c, flows), a, x, y)
  BY MockFacts, Zenon
<1>3. PICK b \in Nat, z \in Nat, w \in Nat :
        /\ b = d % EphemeralPorts /\ z = d % flows /\ w = (d \div flows) % flows
        /\ Generated(MockEvent(d, flows), b, z, w)
  BY MockFacts, Zenon
<1>4. a = b /\ x = z /\ y = w
  <2> DEFINE e == MockEvent(c, flows)
             f == MockEvent(d, flows)
  <2>1. FlowKeyOf(e) = FlowKeyOf(f)
    BY DEF MockKey
  <2>2. Generated(e, a, x, y) /\ Generated(f, b, z, w)
    BY <1>2, <1>3, Zenon
  <2> HIDE DEF e, f
  <2> QED
    BY <2>1, <2>2, SidesFromPorts
<1>5. /\ c % EphemeralPorts = d % EphemeralPorts
      /\ c % flows = d % flows /\ (c \div flows) % flows = (d \div flows) % flows
  BY <1>2, <1>3, <1>4, Zenon
<1>6. EphemeralPorts <= d - c
  BY <1>1, <1>5, SameRemainder, Zenon
<1>7. flows * flows <= d - c
  BY <1>1, <1>5, PairPeriod, Zenon
<1> QED
  BY <1>6, <1>7

\* The table's size under one slot per packet, and the flows it holds: those of
\* the latest packets, one each.
Held == IF clock < capacity THEN clock ELSE capacity

MockInv ==
  /\ Cardinality(DOMAIN slab) = Held
  /\ \A k \in DOMAIN map : clock - Held < used[k] /\ k = MockKey(used[k] - 1)
  /\ \A u \in clock - Held + 1 .. clock : \E k \in DOMAIN map : used[k] = u
  /\ \A i \in DOMAIN slab : slab[i].state.count = 1

\* What MockWindowsHoldOnePacket asks of the capacity.
Outlives == capacity < EphemeralPorts \/ capacity < flows * flows

\* The mock feed is one of those the table's theorems are about.
LEMMA MockNextIsNext == MockFeed /\ TypeOK /\ [MockNext]_vars => [Next]_vars
<1> SUFFICES ASSUME MockFeed, TypeOK, MockNext PROVE Next
  OBVIOUS
<1>1. MockEvent(clock, flows) \in Events
  BY DEF MockFeed, TypeOK
<1> QED
  BY <1>1 DEF MockNext, Next

\* No packet is of a flow the table holds.
LEMMA MockNeverHits ==
  ASSUME MockFeed, TableInv, MockInv, Outlives, clock < MaxPackets
  PROVE  MockKey(clock) \notin DOMAIN map
<1> SUFFICES ASSUME MockKey(clock) \in DOMAIN map PROVE FALSE
  OBVIOUS
<1> DEFINE c == used[MockKey(clock)] - 1
<1>1. /\ clock \in Nat /\ capacity \in Nat
      /\ used[MockKey(clock)] \in 1 .. clock
  BY MaxPacketsAssumption, CapacityAssumption DEF TableInv, TypeOK
<1>2. MockKey(clock) = MockKey(c) /\ clock - Held < c + 1
  BY <1>1 DEF MockInv
<1> HIDE DEF c
<1>3. /\ c \in 0 .. MaxPackets /\ clock \in 0 .. MaxPackets /\ c < clock
      /\ clock - c <= capacity
  BY <1>1, <1>2, MaxPacketsAssumption DEF c, Held
<1>4. EphemeralPorts <= clock - c /\ flows * flows <= clock - c
  BY <1>2, <1>3, MockPeriod
<1>5. flows * flows \in Nat /\ EphemeralPorts \in Nat
  BY DEF MockFeed, EphemeralPorts
<1> DEFINE square == flows * flows
<1> HIDE DEF square
<1>6. square \in Nat /\ square <= clock - c /\ (capacity < EphemeralPorts \/ capacity < square)
  BY <1>4, <1>5 DEF square, Outlives
<1> QED
  BY ONLY <1>1, <1>3, <1>4, <1>5, <1>6

\* The window of a flow's first packet.
LEMMA FirstOfWindow ==
  ASSUME NEW event, NEW st, st.count = 0
  PROVE  FreshNode(event, st).state.count = 1 /\ FreshNode(event, st).key = FlowKeyOf(event)
BY WindowAssumption DEF FreshNode, Update

\* A packet that takes a vacant slot.
LEMMA MockAllocates ==
  ASSUME TableInv, TableInv', MockInv, clock < MaxPackets,
         NEW event, MockKey(clock) = FlowKeyOf(event), Allocate(event),
         clock' = clock + 1, UNCHANGED capacity
  PROVE  MockInv'
<1> DEFINE k == FlowKeyOf(event)
           n == Cardinality(DOMAIN slab)
           node == FreshNode(event, NewState(event.src.ip))
<1>1. /\ n \in Nat /\ capacity \in Nat /\ clock \in Nat
      /\ DOMAIN slab = 0 .. n - 1 /\ n < capacity /\ n = Held
      /\ DOMAIN used = DOMAIN map
  BY SlabPrefix, MaxPacketsAssumption DEF Allocate, Full, TableInv, TypeOK, MockInv
<1>2. n = clock /\ Held = clock /\ Held' = clock + 1
  BY <1>1 DEF Held
<1>3. /\ k \notin DOMAIN map
      /\ slab' = With(slab, n, node) /\ map' = With(map, k, n)
      /\ used' = With(used, k, clock + 1)
  BY DEF Allocate
<1>4. node.state.count = 1
  <2>1. NewState(event.src.ip).count = 0
    BY DEF NewState
  <2> QED
    BY <2>1, FirstOfWindow
<1> HIDE DEF n, node, k
<1>5. /\ DOMAIN slab' = 0 .. n /\ slab'[n] = node
      /\ \A i \in DOMAIN slab : slab'[i] = slab[i]
      /\ DOMAIN map' = DOMAIN map \union {k}
      /\ used'[k] = clock + 1 /\ \A j \in DOMAIN map : used'[j] = used[j]
  BY <1>1, <1>3 DEF With
<1>6. Cardinality(DOMAIN slab') = Held'
  <2>1. Cardinality(0 .. n) = n + 1
    BY <1>1, FS_Interval
  <2> QED
    BY <1>2, <1>5, <2>1
<1>7. \A j \in DOMAIN map' : clock' - Held' < used'[j] /\ j = MockKey(used'[j] - 1)
  <2> SUFFICES ASSUME NEW j \in DOMAIN map'
               PROVE  clock' - Held' < used'[j] /\ j = MockKey(used'[j] - 1)
    OBVIOUS
  <2>1. CASE j = k
    <3>1. clock' - Held' = 0 /\ used'[j] = clock + 1 /\ used'[j] - 1 = clock
      BY <1>1, <1>2, <1>5, <2>1
    <3> QED
      BY <1>1, <2>1, <3>1 DEF k
  <2>2. CASE j # k
    <3>1. j \in DOMAIN map /\ used'[j] = used[j]
      BY <1>5, <2>2
    <3>2. clock' - Held' = clock - Held
      BY <1>1, <1>2
    <3> QED
      BY <3>1, <3>2 DEF MockInv
  <2> QED
    BY <2>1, <2>2
<1>8. \A u \in clock' - Held' + 1 .. clock' : \E j \in DOMAIN map' : used'[j] = u
  <2> SUFFICES ASSUME NEW u \in 1 .. clock + 1 PROVE \E j \in DOMAIN map' : used'[j] = u
    BY <1>1, <1>2
  <2>1. CASE u = clock + 1
    BY <1>5, <2>1
  <2>2. CASE u # clock + 1
    <3>1. u \in clock - Held + 1 .. clock
      BY <1>1, <1>2, <2>2
    <3>2. PICK j \in DOMAIN map : used[j] = u
      BY <3>1 DEF MockInv
    <3> QED
      BY <1>5, <3>2
  <2> QED
    BY <2>1, <2>2
<1>9. \A i \in DOMAIN slab' : slab'[i].state.count = 1
  <2>1. \A i \in DOMAIN slab' : i = n \/ i \in DOMAIN slab
    BY <1>1, <1>5
  <2> QED
    BY <1>4, <1>5, <2>1 DEF MockInv
<1> QED
  BY <1>6, <1>7, <1>8, <1>9 DEF MockInv

\* A packet that takes the slot of the least recently used flow, which is that of
\* the oldest packet held.
LEMMA MockRecycles ==
  ASSUME TableInv, TableInv', MockInv, clock < MaxPackets,
         NEW event, MockKey(clock) = FlowKeyOf(event), Recycle(event),
         clock' = clock + 1, UNCHANGED capacity
  PROVE  MockInv'
<1> DEFINE k == FlowKeyOf(event)
           n == Cardinality(DOMAIN slab)
           idx == lru.tail
           v == slab[idx].key
           node == FreshNode(event, Reset(slab[idx].state, event.src.ip))
<1>1. /\ n \in Nat /\ capacity \in Nat /\ clock \in Nat
      /\ n = capacity /\ n = Held
      /\ DOMAIN used = DOMAIN map /\ \A j \in DOMAIN map : used[j] \in 1 .. clock
  BY SlabPrefix, MaxPacketsAssumption DEF Recycle, Full, TableInv, TypeOK, MockInv
<1>2. Held = capacity /\ Held' = capacity /\ capacity <= clock
  BY <1>1 DEF Held
<1>3. /\ k \notin DOMAIN map
      /\ slab' = [slab EXCEPT ![idx] = node]
      /\ map' = With(Without(map, v), k, idx)
      /\ used' = With(Without(used, v), k, clock + 1)
      /\ idx # None
  BY DEF Recycle, EvictedSlot
<1>4. node.state.count = 1
  <2>1. Reset(slab[idx].state, event.src.ip).count = 0
    BY DEF Reset
  <2> QED
    BY <2>1, FirstOfWindow
<1>5. /\ idx \in DOMAIN slab /\ v \in DOMAIN map
      /\ \A j \in DOMAIN map : used[v] <= used[j]
  <2>1. idx \in DOMAIN slab /\ \A i \in DOMAIN slab : Ages[i] >= Ages[idx]
    BY <1>3 DEF TableInv, RecencyList, Ordered
  <2>2. /\ \A j \in DOMAIN map : map[j] \in DOMAIN slab /\ slab[map[j]].key = j
        /\ v \in DOMAIN map
    BY <2>1 DEF TableInv, TypeOK, MapSlabAgree
  <2>3. \A i \in DOMAIN slab : Ages[i] = used[slab[i].key]
    BY DEF Ages
  <2> HIDE DEF idx
  <2>4. \A j \in DOMAIN map : used[j] >= used[v]
    BY <2>1, <2>2, <2>3
  <2> QED
    BY <1>1, <2>1, <2>2, <2>4
<1> HIDE DEF n, node, k, idx, v
<1>6. used[v] = clock - Held + 1
  <2>1. clock - Held < used[v] /\ used[v] \in 1 .. clock
    BY <1>1, <1>5 DEF MockInv
  <2>2. clock - Held + 1 \in clock - Held + 1 .. clock
    BY <1>1, <1>2, <2>1
  <2>3. PICK j \in DOMAIN map : used[j] = clock - Held + 1
    BY <2>2 DEF MockInv
  <2> QED
    BY <1>1, <1>2, <1>5, <2>1, <2>3
<1>7. /\ DOMAIN slab' = DOMAIN slab /\ slab'[idx] = node
      /\ \A i \in DOMAIN slab : i # idx => slab'[i] = slab[i]
      /\ DOMAIN map' = (DOMAIN map \ {v}) \union {k}
      /\ used'[k] = clock + 1 /\ \A j \in DOMAIN map \ {v} : used'[j] = used[j]
  BY <1>1, <1>3, <1>5 DEF With, Without
<1>8. Cardinality(DOMAIN slab') = Held'
  BY <1>1, <1>2, <1>7 DEF n
<1>9. clock' - Held' = clock - Held + 1
  BY <1>1, <1>2
<1>10. \A j \in DOMAIN map' : clock' - Held' < used'[j] /\ j = MockKey(used'[j] - 1)
  <2> SUFFICES ASSUME NEW j \in DOMAIN map'
               PROVE  clock' - Held' < used'[j] /\ j = MockKey(used'[j] - 1)
    OBVIOUS
  <2>1. CASE j = k
    <3>1. used'[j] = clock + 1 /\ used'[j] - 1 = clock
      BY <1>1, <1>7, <2>1
    <3>2. used[v] \in 1 .. clock
      BY <1>1, <1>5
    <3>3. clock' - Held' < used'[j]
      BY <1>1, <1>2, <1>6, <1>9, <3>1, <3>2
    <3> QED
      BY <2>1, <3>1, <3>3 DEF k
  <2>2. CASE j # k
    <3>1. j \in DOMAIN map /\ j # v /\ used'[j] = used[j]
      BY <1>7, <2>2
    <3>2. j = MockKey(used[j] - 1) /\ v = MockKey(used[v] - 1)
      BY <1>5, <3>1 DEF MockInv
    <3>3. used[j] # used[v]
      BY <3>1, <3>2
    <3>4. used[v] < used[j]
      BY <1>1, <1>5, <3>1, <3>3
    <3> QED
      BY <1>6, <1>9, <3>1, <3>2, <3>4
  <2> QED
    BY <2>1, <2>2
<1>11. \A u \in clock' - Held' + 1 .. clock' : \E j \in DOMAIN map' : used'[j] = u
  <2> SUFFICES ASSUME NEW u \in clock' - Held' + 1 .. clock' PROVE \E j \in DOMAIN map' : used'[j] = u
    OBVIOUS
  <2>1. CASE u = clock + 1
    BY <1>7, <2>1
  <2>2. CASE u # clock + 1
    <3>1. u \in clock - Held + 1 .. clock /\ u # used[v]
      BY <1>1, <1>2, <1>6, <1>9, <2>2
    <3>2. PICK j \in DOMAIN map : used[j] = u
      BY <3>1 DEF MockInv
    <3> QED
      BY <1>7, <3>1, <3>2
  <2> QED
    BY <2>1, <2>2
<1>12. \A i \in DOMAIN slab' : slab'[i].state.count = 1
  BY <1>4, <1>7 DEF MockInv
<1> QED
  BY <1>8, <1>10, <1>11, <1>12 DEF MockInv

\* Every step of the mock feed.
LEMMA MockStep ==
  ASSUME MockFeed, TableInv, Outlives => MockInv, [MockNext]_vars
  PROVE  TableInv' /\ (Outlives => MockInv)'
<1>1. TableInv'
  BY MockNextIsNext, TableInvStep DEF TableInv
<1>2. CASE UNCHANGED vars
  BY <1>1, <1>2 DEF vars, history, Outlives, MockInv, Held
<1>3. CASE MockNext
  <2> DEFINE event == MockEvent(clock, flows)
  <2>1. MockKey(clock) = FlowKeyOf(event)
    BY DEF MockKey
  <2>2. ProcessPacket(event)
    BY <1>3 DEF MockNext
  <2> HIDE DEF event
  <2>3. UNCHANGED capacity /\ (Outlives' <=> Outlives)
    BY <2>2 DEF ProcessPacket, Outlives
  <2>4. CASE Processed(event)
    <3> SUFFICES ASSUME Outlives PROVE MockInv'
      BY <1>1, <2>3
    <3>1. clock < MaxPackets /\ clock' = clock + 1
      BY <2>4 DEF Processed
    <3>2. ~ Hit(event)
      BY <2>1, <3>1, MockNeverHits DEF Hit
    <3>3. CASE Allocate(event)
      BY <1>1, <2>1, <2>3, <3>1, <3>3, MockAllocates
    <3>4. CASE Recycle(event)
      BY <1>1, <2>1, <2>3, <3>1, <3>4, MockRecycles
    <3> QED
      BY <2>4, <3>2, <3>3, <3>4 DEF Processed
  <2>5. CASE Panic(event)
    BY <1>1, <2>3, <2>5 DEF Panic, history, Outlives, MockInv, Held
  <2> QED
    BY <2>2, <2>4, <2>5 DEF ProcessPacket
<1> QED
  BY <1>1, <1>2, <1>3

\* For any pool of addresses, capacity, window size and length of the run: the mock
\* source opens a flow with every packet, so that all windows of a table fed by it
\* hold one packet as long as the table has fewer slots than the generator has
\* ports, or than there are pairs of addresses.
THEOREM MockFlowsAreNew ==
  ASSUME MockFeed PROVE MockSpec => []MockWindowsHoldOnePacket
<1>1. Init => TableInv /\ (Outlives => MockInv)
  <2> SUFFICES ASSUME Init PROVE MockInv
    BY InitInv
  <2>1. TableInv
    BY InitInv
  <2>2. Cardinality(DOMAIN slab) = 0
    <3>1. DOMAIN slab = {}
      BY DEF Init
    <3> QED
      BY <3>1, FS_EmptySet
  <2>3. clock = 0 /\ DOMAIN map = {} /\ DOMAIN slab = {} /\ capacity \in Nat
    BY CapacityAssumption DEF Init
  <2>4. Held = 0
    BY <2>3 DEF Held
  <2> QED
    BY <2>2, <2>3, <2>4 DEF MockInv
<1>2. TableInv /\ (Outlives => MockInv) => MockWindowsHoldOnePacket
  <2> SUFFICES ASSUME TableInv, Outlives, MockInv PROVE MockWindowsHoldOnePacket
    BY DEF MockWindowsHoldOnePacket, Outlives
  <2>1. Cardinality(DOMAIN map) = Cardinality(DOMAIN slab)
    BY FlowsAsSlots DEF TableInv
  <2> QED
    BY <2>1 DEF MockInv, Held, MockWindowsHoldOnePacket
<1>3. TableInv /\ (Outlives => MockInv) /\ [MockNext]_vars => (TableInv /\ (Outlives => MockInv))'
  BY MockStep
<1> QED
  BY <1>1, <1>2, <1>3, PTL DEF MockSpec
=============================================================================
