------------------------------ MODULE FlowKey ------------------------------
(***************************************************************************)
(* Flow identity (FlowKey and PacketEvent of src/analysis/aggregator.rs).  *)
(* An IP address and a port are numbers: the code only compares them.      *)
(***************************************************************************)
EXTENDS Naturals

Endpoint == [ip : Nat, port : Nat]

\* The order FlowKey::new puts two endpoints in: by address, by port when the
\* addresses are equal.
Before(a, b) == a.ip < b.ip \/ (a.ip = b.ip /\ a.port <= b.port)

KeyOf(src, dst, proto) ==
  LET lo == IF Before(src, dst) THEN src ELSE dst
      hi == IF Before(src, dst) THEN dst ELSE src
  IN  [ip_min |-> lo.ip, port_min |-> lo.port,
       ip_max |-> hi.ip, port_max |-> hi.port, protocol |-> proto]

Key == [ip_min : Nat, port_min : Nat, ip_max : Nat, port_max : Nat, protocol : Nat]

FlowKeyOf(event) == KeyOf(event.src, event.dst, event.protocol)
=============================================================================
