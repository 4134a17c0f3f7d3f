-------------------------- MODULE OrderedDelivery --------------------------
(***************************************************************************)
(* What a stage of the packet path promises each flow: it gets the flow's  *)
(* packets one by one in the order they were captured, none left out, none *)
(* twice.  It may stop short, at shutdown.  A flow's packets are numbered  *)
(* from 1.                                                                 *)
(***************************************************************************)
EXTENDS Naturals, Sequences

CONSTANTS Flows, MaxPackets

VARIABLES sent,      \* packets of each flow captured so far
          delivered  \* the packets of each flow the stage got, in order

Init == /\ sent = [f \in Flows |-> 0]
        /\ delivered = [f \in Flows |-> <<>>]

Send(f) == /\ sent[f] < MaxPackets
           /\ sent' = [sent EXCEPT ![f] = @ + 1]
           /\ UNCHANGED delivered

Deliver(f) == /\ Len(delivered[f]) < sent[f]
              /\ delivered' = [delivered EXCEPT ![f] = Append(@, Len(@) + 1)]
              /\ UNCHANGED sent

Next == \E f \in Flows : Send(f) \/ Deliver(f)

Spec == Init /\ [][Next]_<<sent, delivered>>
=============================================================================
