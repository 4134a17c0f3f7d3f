----------------------------- MODULE MockTable -----------------------------
(***************************************************************************)
(* A worker's flow table fed by the mock generator (capture_source =       *)
(* "mock", the configuration the repository ships), with one worker.       *)
(***************************************************************************)
EXTENDS FlowTable, Capture

CONSTANT flows   \* the `flows` of config.toml, not 0 (ProducerPanics of Pipeline)

\* What the table is fed: the events of a generator that divides by `flows`.  Its
\* addresses are u32: sums that wrap around would still be distinct for distinct
\* offsets.
MockFeed ==
  /\ flows \in Nat \ {0}
  /\ \A count \in 0 .. MaxPackets : MockEvent(count, flows) \in Events

MockNext == ProcessPacket(MockEvent(clock, flows))

MockSpec == Init /\ [][MockNext]_vars

\* "Active flows pool size (mock source only)" (README.md:40, printed as
\* "{} active flows" by main.rs:183): the generator's traffic is that of at most
\* `flows` flows, so a table with room for them never holds more.
ActiveFlowsInPool == Cardinality(DOMAIN map) <= flows

\* What the table gets instead: a packet's ports or its pair of addresses differ
\* from those of any packet whose flow the table may still hold, so every packet
\* opens a flow.  The table fills with windows of one packet, whatever
\* WINDOW_SIZE is, and evicts from then on; no packet is ever a hit.
MockWindowsHoldOnePacket ==
  capacity < EphemeralPorts \/ capacity < flows * flows =>
    /\ Cardinality(DOMAIN map) = IF clock < capacity THEN clock ELSE capacity
    /\ \A i \in DOMAIN slab : slab[i].state.count = 1
=============================================================================
