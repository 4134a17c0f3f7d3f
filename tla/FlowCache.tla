----------------------------- MODULE FlowCache -----------------------------
(***************************************************************************)
(* What a worker's flow table promises, without slab, links or ring        *)
(* buffers: at most `room` flows, each with its initiator and the last   *)
(* WINDOW_SIZE packets since the flow was (re)admitted; a new flow that    *)
(* finds the table full replaces the flow unused for longest.              *)
(***************************************************************************)
EXTENDS Naturals, Sequences, FiniteSets, FlowKey

CONSTANTS WINDOW_SIZE, Capacities, Events, MaxPackets

VARIABLES room,   \* flows that may be known at a time
          flows,  \* the flows known: key -> [initiator, window, total, used]
          clock   \* packets seen so far

Newest(s) == IF Len(s) <= WINDOW_SIZE THEN s ELSE Tail(s)

Summary(event, d) ==
  [time |-> event.time, len |-> event.len, dir |-> d, flags |-> event.flags]

Init == room \in Capacities /\ flows = << >> /\ clock = 0

\* A flow that is (re)admitted starts from its first packet alone.
Admitted(event) ==
  [initiator |-> event.src.ip,
   window    |-> <<Summary(event, "Forward")>>,
   total     |-> 1,
   used      |-> clock + 1]

Extended(flow, event) ==
  [initiator |-> flow.initiator,
   window    |-> Newest(Append(flow.window,
                   Summary(event, IF event.src.ip = flow.initiator
                                    THEN "Forward" ELSE "Backward"))),
   total     |-> flow.total + 1,
   used      |-> clock + 1]

\* The known flows that stay when a packet of flow k arrives: all of them, or,
\* when k is new and there is no room, all but a least recently used one.
Stays(k, stay) ==
  IF k \in DOMAIN flows \/ Cardinality(DOMAIN flows) < room
    THEN stay = DOMAIN flows
    ELSE \E victim \in DOMAIN flows :
           /\ \A j \in DOMAIN flows : flows[victim].used <= flows[j].used
           /\ stay = DOMAIN flows \ {victim}

Packet(event) ==
  LET k == FlowKeyOf(event) IN
  \E stay \in SUBSET DOMAIN flows :
    /\ Stays(k, stay)
    /\ flows' = [j \in stay \union {k} |->
                   IF j # k THEN flows[j]
                   ELSE IF k \in DOMAIN flows THEN Extended(flows[k], event)
                   ELSE Admitted(event)]
    /\ clock' = clock + 1
    /\ UNCHANGED room

Next == clock < MaxPackets /\ \E event \in Events : Packet(event)

Spec == Init /\ [][Next]_<<room, flows, clock>>
=============================================================================
