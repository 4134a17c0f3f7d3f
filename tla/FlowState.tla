----------------------------- MODULE FlowState -----------------------------
(***************************************************************************)
(* The per-flow sliding window of src/analysis/aggregator.rs: FlowState    *)
(* and its methods `new`, `reset`, `update` and `compute_metrics`, as      *)
(* operators on a state record.                                            *)
(*                                                                         *)
(* A packet summary is a record [time, len, dir, flags]; the TCP flag byte *)
(* is the set of the flag names the code tests for.  The eleven rolling    *)
(* aggregates are one function `agg` from counter names to integers: the   *)
(* code debits and credits each of them by what one packet contributes.    *)
(***************************************************************************)
EXTENDS Integers, Sequences, FiniteSets, Functions

CONSTANT WINDOW_SIZE

ASSUME WindowAssumption == WINDOW_SIZE \in Nat \ {0}

Direction == {"Forward", "Backward"}

TcpFlag == {"fin", "syn", "rst", "psh", "ack"}

PacketSummary == [time : Nat, len : Nat, dir : Direction, flags : SUBSET TcpFlag]

DefaultSummary == [time |-> 0, len |-> 0, dir |-> "Forward", flags |-> {}]

Slots == 0 .. WINDOW_SIZE - 1

Counter == {"packets_fwd", "packets_bwd", "bytes_fwd", "bytes_bwd",
            "sum_len", "sum_len_sq"} \union TcpFlag

\* What one packet adds to a rolling aggregate.  A flag's counter has the
\* flag's name (fin_count is "fin", and so on).
Contribution(c, pkt) ==
  CASE c = "packets_fwd" -> IF pkt.dir = "Forward" THEN 1 ELSE 0
    [] c = "packets_bwd" -> IF pkt.dir = "Backward" THEN 1 ELSE 0
    [] c = "bytes_fwd"   -> IF pkt.dir = "Forward" THEN pkt.len ELSE 0
    [] c = "bytes_bwd"   -> IF pkt.dir = "Backward" THEN pkt.len ELSE 0
    [] c = "sum_len"     -> pkt.len
    [] c = "sum_len_sq"  -> pkt.len * pkt.len
    [] OTHER             -> IF c \in pkt.flags THEN 1 ELSE 0

NewState(ip) ==
  [initiator_ip  |-> ip,
   total_packets |-> 0,
   buffer        |-> [i \in Slots |-> DefaultSummary],
   head          |-> 0,
   count         |-> 0,
   agg           |-> [c \in Counter |-> 0]]

\* Mutant of Reset: the counters of the previous flow stay.
ResetKeepsCounters(st, ip) ==
  [NewState(ip) EXCEPT !.buffer = st.buffer, !.agg = st.agg]

\* Mutant of Reset: the ring's position and length stay.
ResetKeepsWindow(st, ip) ==
  [NewState(ip) EXCEPT !.buffer = st.buffer, !.head = st.head, !.count = st.count]

\* The buffer keeps the packets of the slot's previous flow.
Reset(st, ip) ==
  [initiator_ip  |-> ip,
   total_packets |-> 0,
   buffer        |-> st.buffer,
   head          |-> 0,
   count         |-> 0,
   agg           |-> [c \in Counter |-> 0]]

Debit(agg, pkt) == [c \in Counter |-> agg[c] - Contribution(c, pkt)]

Credit(agg, pkt) == [c \in Counter |-> agg[c] + Contribution(c, pkt)]

\* The aggregates after the packet that is overwritten has been taken out.
Retained(st) == IF st.count = WINDOW_SIZE
                  THEN Debit(st.agg, st.buffer[st.head])
                  ELSE st.agg

\* Mutant of Update: the write position does not wrap.
UpdateNoWrap(st, pkt) ==
  [st EXCEPT !.total_packets = @ + 1, !.agg = Credit(Retained(st), pkt),
             !.buffer[st.head] = pkt, !.head = @ + 1,
             !.count = IF @ < WINDOW_SIZE THEN @ + 1 ELSE @]

Update(st, pkt) ==
  [initiator_ip  |-> st.initiator_ip,
   total_packets |-> st.total_packets + 1,
   buffer        |-> [st.buffer EXCEPT ![st.head] = pkt],
   head          |-> (st.head + 1) % WINDOW_SIZE,
   count         |-> IF st.count < WINDOW_SIZE THEN st.count + 1 ELSE st.count,
   agg           |-> Credit(Retained(st), pkt)]

-----------------------------------------------------------------------------
(* compute_metrics.  A feature is a fraction <<numerator, denominator>>;   *)
(* rates are per second, times in milliseconds.                            *)

AtLeast1(n) == IF n < 1 THEN 1 ELSE n

\* The slots compute_metrics scans for the oldest and newest timestamp.
Live(st) == 0 .. st.count - 1

MinTime(st) == CHOOSE t \in {st.buffer[i].time : i \in Live(st)} :
                 \A i \in Live(st) : t <= st.buffer[i].time

MaxTime(st) == CHOOSE t \in {st.buffer[i].time : i \in Live(st)} :
                 \A i \in Live(st) : t >= st.buffer[i].time

Duration(st) ==
  IF st.count > 1 /\ MaxTime(st) > MinTime(st) THEN MaxTime(st) - MinTime(st) ELSE 1

\* The window read from its oldest packet, as the inter-arrival loop does.
Unrolled(st) ==
  [k \in 1 .. st.count |->
     st.buffer[(st.head + WINDOW_SIZE - st.count + k - 1) % WINDOW_SIZE]]

\* Mutant of SortedTimes: the timestamps stay in arrival order.
ArrivalTimes(st) == [k \in 1 .. st.count |-> Unrolled(st)[k].time]

\* active_ts after sort_unstable: the timestamps in ascending order.
SortedTimes(st) ==
  CHOOSE ts \in {[k \in 1 .. st.count |-> ArrivalTimes(st)[order[k]]] :
                   order \in Bijection(1 .. st.count, 1 .. st.count)} :
    \A i, j \in 1 .. st.count : i <= j => ts[i] <= ts[j]

\* sum_interval and sum_interval_sq after the intervals up to packet n.
IntervalSums(st) ==
  LET ts == SortedTimes(st)
      sums[n \in 1 .. st.count] ==
        IF n = 1 THEN <<0, 0>>
        ELSE LET gap == ts[n] - ts[n-1]
             IN  <<sums[n-1][1] + gap, sums[n-1][2] + gap * gap>>
  IN  IF st.count > 1 THEN sums[st.count] ELSE <<0, 0>>

ComputeMetrics(st) ==
  LET n == AtLeast1(st.count)
      m == AtLeast1(st.count - 1)
      sums == IntervalSums(st)
  IN  [packet_count  |-> st.total_packets,
       mean_len      |-> <<st.agg["sum_len"], n>>,
       var_len       |-> <<n * st.agg["sum_len_sq"]
                            - st.agg["sum_len"] * st.agg["sum_len"], n * n>>,
       packet_rate   |-> <<1000 * st.count, Duration(st)>>,
       byte_rate     |-> <<1000 * (st.agg["bytes_fwd"] + st.agg["bytes_bwd"]),
                           Duration(st)>>,
       fwd_bwd_ratio |-> <<st.agg["packets_fwd"], AtLeast1(st.agg["packets_bwd"])>>,
       flag_ratio    |-> [f \in TcpFlag |-> <<st.agg[f], n>>],
       mean_interval |-> <<sums[1], m>>,
       var_interval  |-> <<m * sums[2] - sums[1] * sums[1], m * m>>]

-----------------------------------------------------------------------------
(* What the aggregates must be: the sums over the live packets.  A sum is  *)
(* written as the number of pairs <<slot, unit>> it counts.                *)

Units(st, c) ==
  UNION {{i} \X (1 .. Contribution(c, st.buffer[i])) : i \in Live(st)}

WindowSum(st, c) == Cardinality(Units(st, c))

StateType(IPs) ==
  [initiator_ip  : IPs,
   total_packets : Nat,
   buffer        : [Slots -> PacketSummary],
   head          : Slots,
   count         : 0 .. WINDOW_SIZE,
   agg           : [Counter -> Nat]]

\* The write position is the end of the live prefix until the window is full.
WindowShape(st) == st.count < WINDOW_SIZE => st.head = st.count

\* No counter was ever debited by a packet it was not credited with.
AggregatesExact(st) == \A c \in Counter : st.agg[c] = WindowSum(st, c)
=============================================================================
