----------------------------- MODULE FlowTable -----------------------------
(***************************************************************************)
(* A worker's flow table: FlowTable and LruNode of                         *)
(* src/analysis/aggregator.rs.  The slab never frees a slot, so its slots  *)
(* are 0 .. n-1 and the next vacant one is n; a slot holds the flow's key  *)
(* and FlowState, and the intrusive LRU links are kept in `lru`.           *)
(*                                                                         *)
(* `used`, `opener`, `last` and `clock` are history variables: when each   *)
(* flow last had a packet, which endpoint sent the first packet of the     *)
(* flow since it was (re)admitted, the last event, and the packets so far. *)
(* MaxPackets bounds the run.                                              *)
(***************************************************************************)
EXTENDS FlowState, FlowKey

CONSTANTS Capacities,  \* the capacities a worker's table may be created with
          Events,      \* the packet events that may arrive
          MaxPackets

EventType == [src : Endpoint, dst : Endpoint, protocol : Nat,
              time : Nat, len : Nat, flags : SUBSET TcpFlag]

ASSUME CapacityAssumption == Capacities \subseteq Nat

ASSUME EventsAssumption == Events \subseteq EventType

ASSUME MaxPacketsAssumption == MaxPackets \in Nat

VARIABLES capacity, map, slab, lru, panicked, used, opener, last, clock

history == <<used, opener, last, clock>>
vars == <<capacity, map, slab, lru, panicked, history>>

None == -1    \* Option::None for a slot index
NoEvent == << >>

SlabSlots == 0 .. capacity - 1

IPs == {e.src.ip : e \in Events}

-----------------------------------------------------------------------------
(* The intrusive list, on a record [prev, next, head, tail].               *)

EmptyList == [prev |-> [i \in SlabSlots |-> None],
              next |-> [i \in SlabSlots |-> None],
              head |-> None, tail |-> None]

\* Mutant of LinkHead: the first node does not become the tail.
LinkHeadNoTail(l, idx) ==
  [prev |-> [l.prev EXCEPT ![idx] = None], next |-> [l.next EXCEPT ![idx] = l.head],
   head |-> idx, tail |-> l.tail]

LinkHead(l, idx) ==
  [prev |-> [j \in SlabSlots |-> IF j = idx THEN None
                                 ELSE IF j = l.head THEN idx ELSE l.prev[j]],
   next |-> [l.next EXCEPT ![idx] = l.head],
   head |-> idx,
   tail |-> IF l.head = None THEN idx ELSE l.tail]

Unlink(l, idx) ==
  LET p == l.prev[idx]
      n == l.next[idx]
  IN  [prev |-> [j \in SlabSlots |-> IF j = idx THEN None
                                     ELSE IF j = n THEN p ELSE l.prev[j]],
       next |-> [j \in SlabSlots |-> IF j = idx THEN None
                                     ELSE IF j = p THEN n ELSE l.next[j]],
       head |-> IF p = None THEN n ELSE l.head,
       tail |-> IF n = None THEN p ELSE l.tail]

\* Mutant of Promote: a hit does not move the slot.
PromoteNot(l, idx) == l

Promote(l, idx) == IF idx = l.head THEN l ELSE LinkHead(Unlink(l, idx), idx)

-----------------------------------------------------------------------------
(* process_packet                                                          *)

Summary(event, d) ==
  [time |-> event.time, len |-> event.len, dir |-> d, flags |-> event.flags]

\* Mutant of DirectionOf: relative to the key, not to the initiator.
DirectionByKey(event, st) ==
  IF event.src.ip = FlowKeyOf(event).ip_min THEN "Forward" ELSE "Backward"

DirectionOf(event, st) ==
  IF event.src.ip = st.initiator_ip THEN "Forward" ELSE "Backward"

\* The node of a new flow, in a slot whose FlowState is st.
FreshNode(event, st) ==
  [key |-> FlowKeyOf(event), state |-> Update(st, Summary(event, "Forward"))]

\* Mutant of Without: the evicted flow's map entry stays.
WithoutForgotten(f, k) == f

Without(f, k) == [j \in DOMAIN f \ {k} |-> f[j]]

With(f, k, v) == [j \in DOMAIN f \union {k} |-> IF j = k THEN v ELSE f[j]]

Init ==
  /\ capacity \in Capacities
  /\ map = << >> /\ slab = << >> /\ lru = EmptyList /\ panicked = FALSE
  /\ used = << >> /\ opener = << >> /\ last = NoEvent /\ clock = 0

\* The flow is in the table.
Hit(event) ==
  LET k == FlowKeyOf(event) IN
  /\ k \in DOMAIN map
  /\ lru' = Promote(lru, map[k])
  /\ slab' = [slab EXCEPT ![map[k]].state =
                Update(@, Summary(event, DirectionOf(event, @)))]
  /\ used' = [used EXCEPT ![k] = clock + 1]
  /\ UNCHANGED <<map, panicked, opener>>

\* Mutant of Full: one slot too many.
FullTooLate == Cardinality(DOMAIN slab) > capacity

Full == Cardinality(DOMAIN slab) >= capacity

\* A new flow takes the next vacant slot.
Allocate(event) ==
  LET k == FlowKeyOf(event)
      idx == Cardinality(DOMAIN slab)
  IN  /\ k \notin DOMAIN map
      /\ ~ Full
      /\ slab' = With(slab, idx, FreshNode(event, NewState(event.src.ip)))
      /\ map' = With(map, k, idx)
      /\ lru' = LinkHead(lru, idx)
      /\ used' = With(used, k, clock + 1)
      /\ opener' = With(opener, k, event.src)
      /\ UNCHANGED panicked

\* Mutant of EvictedSlot: the most recently used flow goes.
EvictedNewest == lru.head

EvictedSlot == lru.tail

\* A new flow recycles the slot of the least recently used one.
Recycle(event) ==
  LET k == FlowKeyOf(event)
      idx == EvictedSlot
      victim == slab[idx].key
  IN  /\ k \notin DOMAIN map
      /\ Full
      /\ idx # None
      /\ slab' = [slab EXCEPT ![idx] = FreshNode(event, Reset(@.state, event.src.ip))]
      /\ map' = With(Without(map, victim), k, idx)
      /\ lru' = LinkHead(Unlink(lru, idx), idx)
      /\ used' = With(Without(used, victim), k, clock + 1)
      /\ opener' = With(Without(opener, victim), k, event.src)
      /\ UNCHANGED panicked

\* .expect("LRU tail cannot be None when Slab is full"): the worker thread
\* dies in the call, the packet is not processed.
Panic(event) ==
  /\ FlowKeyOf(event) \notin DOMAIN map
  /\ Full
  /\ EvictedSlot = None
  /\ panicked' = TRUE
  /\ UNCHANGED <<map, slab, lru, history>>

Processed(event) ==
  /\ clock < MaxPackets
  /\ Hit(event) \/ Allocate(event) \/ Recycle(event)
  /\ last' = event
  /\ clock' = clock + 1

ProcessPacket(event) ==
  /\ ~ panicked
  /\ Processed(event) \/ Panic(event)
  /\ UNCHANGED capacity

Next == \E event \in Events : ProcessPacket(event)

Spec == Init /\ [][Next]_vars

-----------------------------------------------------------------------------
Node == [key : Key, state : StateType(IPs)]

ListType == [prev : [SlabSlots -> SlabSlots \union {None}],
             next : [SlabSlots -> SlabSlots \union {None}],
             head : SlabSlots \union {None},
             tail : SlabSlots \union {None}]

\* The slab is a prefix of the slots; the history covers the flows known.
TypeOK ==
  /\ capacity \in Capacities
  /\ \E n \in 0 .. capacity : slab \in [0 .. n - 1 -> Node]
  /\ map \in [DOMAIN map -> DOMAIN slab]
  /\ lru \in ListType
  /\ panicked \in BOOLEAN
  /\ clock \in 0 .. MaxPackets
  /\ DOMAIN used = DOMAIN map /\ \A k \in DOMAIN map : used[k] \in 1 .. clock
  /\ DOMAIN opener = DOMAIN map /\ \A k \in DOMAIN map : opener[k] \in Endpoint
  /\ last \in Events \union {NoEvent}

\* The hash map and the slab describe the same flows: a recycled slot leaves
\* no stale entry behind, and no slot is lost or shared by two flows.
MapSlabAgree ==
  /\ \A k \in DOMAIN map : slab[map[k]].key = k
  /\ \A i \in DOMAIN slab : slab[i].key \in DOMAIN map /\ map[slab[i].key] = i

\* When the flow in each slot last had a packet.
Ages == [i \in DOMAIN slab |-> used[slab[i].key]]

\* A list of the slots S in decreasing order of age: head and tail are the
\* newest and the oldest, `next` leads to the slot used just before, and
\* `prev` is its inverse.
Ordered(l, S, age) ==
  /\ (S = {} <=> l.head = None) /\ (S = {} <=> l.tail = None)
  /\ S # {} => /\ l.head \in S /\ \A i \in S : age[i] <= age[l.head]
               /\ l.tail \in S /\ \A i \in S : age[i] >= age[l.tail]
  /\ \A i, j \in S : age[i] = age[j] => i = j
  /\ \A i \in S : /\ l.next[i] = None <=> i = l.tail
                  /\ l.prev[i] = None <=> i = l.head
  /\ \A i, j \in S : l.next[i] = j <=> l.prev[j] = i
  /\ \A i \in S : l.prev[i] # None => l.prev[i] \in S
  /\ \A i \in S : l.next[i] # None =>
        /\ l.next[i] \in S
        /\ age[l.next[i]] < age[i]
        /\ \A j \in S : age[j] < age[i] => age[j] <= age[l.next[i]]

\* The intrusive list holds every slot exactly once, from the most to the
\* least recently used, after any mix of promotions, insertions and evictions.
RecencyList == Ordered(lru, DOMAIN slab, Ages)

\* In every slot, recycled or not, the counters are those of the packets of
\* the flow that has the slot now.
WindowsExact ==
  \A i \in DOMAIN slab : WindowShape(slab[i].state) /\ AggregatesExact(slab[i].state)

\* "LRU tail cannot be None when Slab is full" (aggregator.rs:443), the message
\* of the `expect` in process_packet: eviction always finds a tail once the
\* table may hold a flow at all, however flows are admitted, promoted and
\* recycled; a table without room panics on its first packet.
PanicsOnlyWithoutRoom ==
  /\ panicked => capacity = 0
  /\ capacity > 0 /\ Full => lru.tail # None

\* "Direction of a packet in a flow relative to the flow initiator"
\* (aggregator.rs:10): a packet is Forward exactly when the endpoint that sent
\* the flow's first packet sent it, whichever side FlowKey puts first, except
\* between two ports of one address, where every packet is.
DirectionsFollowInitiator ==
  last # NoEvent /\ FlowKeyOf(last) \in DOMAIN map =>
    LET k  == FlowKeyOf(last)
        st == slab[map[k]].state
        newest == st.buffer[(st.head + WINDOW_SIZE - 1) % WINDOW_SIZE]
    IN  newest.dir = "Forward" <=> last.src = opener[k] \/ last.src.ip = last.dst.ip

\* The flow table is the abstract LRU cache of sliding windows.
CachedFlows ==
  [k \in DOMAIN map |->
     LET st == slab[map[k]].state
     IN  [initiator |-> st.initiator_ip, window |-> Unrolled(st),
          total |-> st.total_packets, used |-> used[k]]]

Cache == INSTANCE FlowCache WITH flows <- CachedFlows, room <- capacity

ImplementsFlowCache == Cache!Spec
=============================================================================
