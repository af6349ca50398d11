---------------------------- MODULE PriorityBag ----------------------------
(* A mailbox with two priorities and no order among equals. *)
EXTENDS Bags

CONSTANTS
    Messages,
    Shutdowns     \* the messages that come first

VARIABLE pending  \* the bag of messages that were sent and not received

Waiting(m) == BagIn(m, pending)

Init == pending = EmptyBag

Tell(m) == pending' = pending (+) SetToBag({m})

\* A message of the best priority that waits.
Receive(m) ==
    /\ Waiting(m)
    /\ m \in Shutdowns \/ \A k \in Shutdowns : ~Waiting(k)
    /\ pending' = pending (-) SetToBag({m})

Next == \E m \in Messages : Tell(m) \/ Receive(m)

Spec == Init /\ [][Next]_pending

=============================================================================
