---------------------------- MODULE MCMitigation ----------------------------
(* Mitigation for TLC: three flows reported under two addresses.           *)
EXTENDS Mitigation

Flow(a, b) == KeyOf([ip |-> a, port |-> 80], [ip |-> b, port |-> 1000], 6)

MCKeys == {Flow(1, 3), Flow(4, 1), Flow(2, 3)}

OneKey == {Flow(1, 3)}

ShardEach == [ip \in 1 .. 2 |-> ip]

OneShard == [ip \in 1 .. 2 |-> 1]

Conf(ttl, mode) == [ttl |-> ttl, mode |-> mode]

MCConfigs == {Conf(2, "mitigate"), Conf(1, "monitor")}

OneConfig == {Conf(1, "mitigate")}
=============================================================================
