---------------------------- MODULE MCMockTable ----------------------------
(* MockTable for TLC.                                                       *)
EXTENDS MockTable

Generated == {MockEvent(count, flows) : count \in 0 .. MaxPackets}
=============================================================================
