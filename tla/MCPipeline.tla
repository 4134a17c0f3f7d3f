----------------------------- MODULE MCPipeline -----------------------------
(* Pipeline for TLC: two flows that hash to different workers.             *)
EXTENDS Pipeline

MCFlows == {"f1", "f2"}

MCWorkers == {"w1", "w2"}

MCRoute == [f \in MCFlows |-> IF f = "f1" THEN "w1" ELSE "w2"]

\* One flow and its worker, for the liveness properties.
OneFlow == {"f1"}

OneWorker == {"w1"}

OneRoute == [f \in OneFlow |-> "w1"]
=============================================================================
