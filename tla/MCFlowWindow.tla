---------------------------- MODULE MCFlowWindow ----------------------------
(* FlowWindow for TLC: packets that differ in time (out of order included), *)
(* length (zero included), direction and flags.                             *)
EXTENDS FlowWindow

MCPackets ==
  { [time |-> 5, len |-> 0, dir |-> "Forward",  flags |-> {"syn"}],
    [time |-> 6, len |-> 2, dir |-> "Backward", flags |-> {"syn", "ack"}],
    [time |-> 7, len |-> 1, dir |-> "Forward",  flags |-> {"ack", "psh"}],
    [time |-> 9, len |-> 2, dir |-> "Forward",  flags |-> {"fin", "ack"}],
    [time |-> 6, len |-> 3, dir |-> "Backward", flags |-> {"rst"}],
    [time |-> 7, len |-> 1, dir |-> "Backward", flags |-> {}] }
=============================================================================
