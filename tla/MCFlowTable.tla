---------------------------- MODULE MCFlowTable ----------------------------
(* FlowTable for TLC, on the events that parse_packet makes of frames.      *)
EXTENDS FlowTable, Capture

Frame(src, sport, dst, dport, transport, flags) ==
  [net |-> "ip", src_ip |-> src, src_port |-> sport, dst_ip |-> dst, dst_port |-> dport,
   protocol |-> IF transport = "tcp" THEN Tcp ELSE 1,
   transport |-> transport, flags |-> flags, len |-> 1]

\* A conversation with port 80 of address 3 and the answer, both ways round in
\* the key; a client that gets no answer; an ICMP message; one port of an
\* address talking to another, and its answer; bytes that are no packet.
LruFrames ==
  {Frame(c, 1000, 3, 80, "tcp", {"syn"}) : c \in {1, 2, 4}} \union
  {Frame(3, 80, c, 1000, "tcp", {"ack"}) : c \in {1, 4}} \union
  {Frame(5, 8, 3, 0, "other", {}),
   Frame(3, 1000, 3, 80, "tcp", {"syn"}), Frame(3, 80, 3, 1000, "tcp", {"ack"}),
   [net |-> "none"]}

LruEvents == {ParsePacket(f) : f \in LruFrames} \ {NoPacket}
=============================================================================
