---------------------------- MODULE LossyChannel ----------------------------
(***************************************************************************)
(* What the path from the proxy provider to the cloud promises: a message  *)
(* that is handed over is delivered at most once, may be lost, and may     *)
(* overtake another.  ServiceSync implements it.                           *)
(***************************************************************************)
EXTENDS Naturals, Sequences

CONSTANT Messages

VARIABLES transit,    \* messages under way
          delivered   \* messages delivered, in this order

Delivered == {delivered[j] : j \in DOMAIN delivered}

Init == transit = {} /\ delivered = <<>>

\* A message that was never handed over before.
Put == \E m \in Messages \ (transit \cup Delivered) :
           transit' = transit \cup {m} /\ UNCHANGED delivered

Lose == \E m \in transit : transit' = transit \ {m} /\ UNCHANGED delivered

Deliver == \E m \in transit : /\ transit' = transit \ {m}
                              /\ delivered' = Append(delivered, m)

Spec == Init /\ [][Put \/ Lose \/ Deliver]_<<transit, delivered>>
=============================================================================
