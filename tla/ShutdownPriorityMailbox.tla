---------------------- MODULE ShutdownPriorityMailbox ----------------------
(***************************************************************************)
(* The coordinator's mailbox: Akka's UnboundedPriorityMailbox with the      *)
(* priorities of ShutdownPriorityMailbox.  Akka keeps the messages in an    *)
(* array heap (ListPriorityQueue of Akka 1.3.9, the referenced package):    *)
(* a new message goes to the end and rises while it is strictly better than *)
(* its parent; taking the root moves the last message there, and that sinks *)
(* while a child is strictly better.  Equal messages keep no order.         *)
(***************************************************************************)
EXTENDS Naturals, Sequences

CONSTANTS
    Messages,     \* the kinds of message
    Shutdowns     \* ShutDownQueues among them

\* Mutant: ShutDownQueues has the priority of any message.
SamePriority(m) == 1

PriorityGenerator(m) == IF m \in Shutdowns THEN 0 ELSE 1

Better(m, k) == PriorityGenerator(m) < PriorityGenerator(k)

Swap(box, i, k) == [box EXCEPT ![i] = box[k], ![k] = box[i]]

Parent(i) == i \div 2

Positions == Nat \ {0}

\* The message at position i rises.
SiftUp[i \in Positions] ==
    [box \in Seq(Messages) |->
        IF i \notin 2..Len(box) \/ ~Better(box[i], box[Parent(i)])
          THEN box
          ELSE SiftUp[Parent(i)][Swap(box, i, Parent(i))]]

Enqueue(box, m) == SiftUp[Len(box) + 1][Append(box, m)]

\* The better child, the left one among equals.
BetterChild(box, i) ==
    IF 2 * i + 1 <= Len(box) /\ Better(box[2 * i + 1], box[2 * i])
      THEN 2 * i + 1
      ELSE 2 * i

\* The message at position i sinks.
SiftDown[i \in Positions] ==
    [box \in Seq(Messages) |->
        IF 2 * i > Len(box) \/ ~Better(box[BetterChild(box, i)], box[i])
          THEN box
          ELSE SiftDown[BetterChild(box, i)][Swap(box, i, BetterChild(box, i))]]

Front(box) == box[1]

\* Mutant: the last message is copied to the root and not removed.
LastCopiedToRoot(box) == [box EXCEPT ![1] = box[Len(box)]]

LastToRoot(box) == [SubSeq(box, 1, Len(box) - 1) EXCEPT ![1] = box[Len(box)]]

Dequeue(box) == IF Len(box) = 1 THEN << >> ELSE SiftDown[1][LastToRoot(box)]

=============================================================================
