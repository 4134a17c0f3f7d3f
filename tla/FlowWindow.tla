----------------------------- MODULE FlowWindow -----------------------------
(***************************************************************************)
(* The life of one slab slot's FlowState: `update` for each packet of the  *)
(* flow that owns it, `reset` when the flow table recycles the slot for    *)
(* another flow.  TotalBound caps the u64 total_packets.                   *)
(***************************************************************************)
EXTENDS FlowState

CONSTANTS IPs,        \* addresses of flow initiators
          Packets,    \* the packet summaries that may arrive
          TotalBound  \* packets a flow sends before its slot is recycled

ASSUME PacketsAssumption == Packets \subseteq PacketSummary

ASSUME TotalAssumption == TotalBound \in Nat

VARIABLE state

Init == \E ip \in IPs : state = NewState(ip)

\* process_packet on a flow that is in the table.
UpdateFlow ==
  /\ state.total_packets < TotalBound
  /\ \E pkt \in Packets : state' = Update(state, pkt)

\* process_packet on a new flow that recycles the slot: reset, then the first
\* packet, which is Forward by definition of the initiator.
RecycleSlot ==
  \E ip \in IPs, pkt \in Packets :
    /\ pkt.dir = "Forward"
    /\ state' = Update(Reset(state, ip), pkt)

Next == UpdateFlow \/ RecycleSlot

Spec == Init /\ [][Next]_state

-----------------------------------------------------------------------------
\* The types of aggregator.rs; `agg` in Nat also says that no unsigned
\* counter is ever debited below zero.
TypeOK == state \in StateType(IPs)

\* Every rolling aggregate that `update` debits and credits in O(1) is exactly
\* the sum over the packets now in the window, after any number of overwrites
\* and after a reset that leaves the previous flow's packets in the buffer.
AggregatesOfWindow == AggregatesExact(state)

\* The inductive invariant of the proofs: type, shape and exact aggregates.
WindowInv == TypeOK /\ WindowShape(state) /\ AggregatesOfWindow

\* The ring buffer, read the way compute_metrics unrolls it, is the abstract
\* sliding window: the last WINDOW_SIZE packets of the current flow in arrival
\* order, and none of the flow that had the slot before.
Abstract == INSTANCE SlidingWindow
              WITH window <- Unrolled(state), total <- state.total_packets

ImplementsSlidingWindow == Abstract!Spec

-----------------------------------------------------------------------------
(* The features of compute_metrics, defined again from the packets alone.  *)

SumOf(n, f) == LET sum[i \in 0 .. n] == IF i = 0 THEN 0 ELSE sum[i-1] + f[i]
               IN  sum[n]

\* Twice n^2 times the population variance of x[1..n], as a sum over pairs:
\* non-negative by its form, unlike the difference the code computes.
PairSpread(n, x) ==
  SumOf(n, [i \in 1 .. n |->
             SumOf(n, [j \in 1 .. n |-> (x[i] - x[j]) * (x[i] - x[j])])])

\* The features handed to the detector describe the window: the variance of
\* the lengths from the two integer sums is the true variance (so the code's
\* `.max(0.0)` hides no real negative), the intervals add up to the time span
\* even when timestamps arrive out of order, the variance of the intervals is that
\* of the gaps between the timestamps in order, and the ratios count packets.
MetricsDescribeWindow ==
  LET w == Unrolled(state)
      n == Len(w)
      m == ComputeMetrics(state)
      times == {w[i].time : i \in 1 .. n}
      span == IF n = 0 THEN 0
              ELSE CHOOSE d \in {t - u : t, u \in times} : \A t, u \in times : t - u <= d
      bytes == [i \in 1 .. n |-> w[i].len]
      gaps == [i \in 1 .. n - 1 |-> SortedTimes(state)[i + 1] - SortedTimes(state)[i]]
  IN  /\ m.mean_len[1] = SumOf(n, bytes)
      /\ 2 * m.var_len[1] = PairSpread(n, bytes)
      /\ m.mean_interval[1] = span
      /\ 2 * m.var_interval[1] = PairSpread(AtLeast1(n) - 1, gaps)
      /\ m.var_interval[1] >= 0
      /\ m.packet_rate[2] = (IF span = 0 THEN 1 ELSE span)
      /\ m.byte_rate[1] = 1000 * m.mean_len[1]
      /\ m.fwd_bwd_ratio[1] + state.agg["packets_bwd"] = n
      /\ \A f \in TcpFlag :
           m.flag_ratio[f][1] = Cardinality({i \in 1 .. n : f \in w[i].flags})
=============================================================================
