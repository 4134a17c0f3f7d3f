--------------------------- MODULE SlidingWindow ---------------------------
(***************************************************************************)
(* What a flow's statistics are promised to be about: the last WINDOW_SIZE *)
(* packets of the flow that owns the slot now, oldest first, and the       *)
(* number of packets it has sent since it got the slot.                    *)
(***************************************************************************)
EXTENDS Naturals, Sequences

CONSTANTS WINDOW_SIZE, Packets

VARIABLES window, total

Newest(s) == IF Len(s) <= WINDOW_SIZE THEN s ELSE Tail(s)

Init == window = <<>> /\ total = 0

\* A packet arrives; the oldest one leaves when there is no room.
Slide(pkt) ==
  /\ window' = Newest(Append(window, pkt))
  /\ total' = total + 1

\* Another flow takes the slot over: nothing of the old one is left.
TakeOver(pkt) == window' = <<pkt>> /\ total' = 1

Next == \E pkt \in Packets : Slide(pkt) \/ TakeOver(pkt)

Spec == Init /\ [][Next]_<<window, total>>
=============================================================================
