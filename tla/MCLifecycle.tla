---------------------------- MODULE MCLifecycle -----------------------------
(* Lifecycle for TLC: contents with enough, no and one training sample.    *)
EXTENDS Lifecycle

MCTrainingSamples == <<2, 0, 1, 5>>
=============================================================================
