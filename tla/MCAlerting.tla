----------------------------- MODULE MCAlerting -----------------------------
(* Alerting for TLC: which operations of the file system fail.             *)
EXTENDS Alerting

MCFaults == {"open", "table", "file", "row", "line"}

NoFaults == {}
=============================================================================
