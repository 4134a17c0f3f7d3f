------------------------------ MODULE Capture ------------------------------
(***************************************************************************)
(* What the capture sources make of the traffic (src/capture/mod.rs): the  *)
(* packet event of a frame read from an interface or a file, and the       *)
(* events of the mock generator.  The threads that send them are in        *)
(* Pipeline.                                                               *)
(*                                                                         *)
(* A frame is what etherparse finds in it: `net` is "none" for bytes that  *)
(* are no Ethernet frame or carry no IP packet, `transport` "other" for    *)
(* anything but TCP and UDP.                                               *)
(* Times are abstracted to 0: the events of a batch have one.              *)
(***************************************************************************)
EXTENDS Naturals

NoPacket == << >>

\* The ports of a frame without a TCP or UDP header are 0.
ParsePacket(frame) ==
  IF frame.net = "none" THEN NoPacket
  ELSE LET Side(ip, port) ==
             [ip |-> ip, port |-> IF frame.transport = "other" THEN 0 ELSE port]
       IN  [src |-> Side(frame.src_ip, frame.src_port),
            dst |-> Side(frame.dst_ip, frame.dst_port),
            protocol |-> frame.protocol, time |-> 0, len |-> frame.len,
            flags |-> IF frame.transport = "tcp" THEN frame.flags ELSE {}]

-----------------------------------------------------------------------------
(* run_mock_capture: the event with number `count`, counted from 0, of a   *)
(* generator for `num_ips` addresses.                                      *)

BaseIp == 10 * 256 * 256 * 256    \* 10.0.0.0

Tcp == 6
Udp == 17

EphemeralPorts == 50000

EphemeralPort(count) == 1024 + (count % EphemeralPorts)

MockSrcIp(count, num_ips) == BaseIp + (count % num_ips)

MockDstIp(count, num_ips) == BaseIp + ((count \div num_ips) % num_ips) + 1000

MockEvent(count, num_ips) ==
  LET tcp == count % 2 = 0
  IN  [src |-> [ip |-> MockSrcIp(count, num_ips),
                port |-> IF tcp THEN EphemeralPort(count) ELSE 53],
       dst |-> [ip |-> MockDstIp(count, num_ips),
                port |-> CASE ~ tcp -> EphemeralPort(count)
                           [] tcp /\ count % 3 = 0 -> 80
                           [] OTHER -> 443],
       protocol |-> IF tcp THEN Tcp ELSE Udp,
       time |-> 0,
       len |-> 64 + (count % 1400),
       flags |-> CASE ~ tcp -> {} [] tcp /\ count % 10 = 0 -> {"syn"} [] OTHER -> {"ack"}]
=============================================================================
