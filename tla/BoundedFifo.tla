----------------------------- MODULE BoundedFifo -----------------------------
(***************************************************************************)
(* What the metadata queues of src/src/rtsp.c promise: the consumer of     *)
(* each is handed its items in the order they were accepted, each of them  *)
(* once.                                                                   *)
(***************************************************************************)
EXTENDS Naturals, Sequences

CONSTANTS Queues, Items, NoItem, Size

VARIABLES queue,   \* the items accepted and not handed over yet, per queue
          handed   \* the item each consumer works on, or NoItem

vars == <<queue, handed>>

Init == queue = [q \in Queues |-> <<>>] /\ handed = [q \in Queues |-> NoItem]

Accept(q, x) == /\ Len(queue[q]) < Size
                /\ queue' = [queue EXCEPT ![q] = Append(@, x)] /\ UNCHANGED handed

Hand(q) == /\ queue[q] # <<>> /\ handed[q] = NoItem
           /\ handed' = [handed EXCEPT ![q] = Head(queue[q])]
           /\ queue' = [queue EXCEPT ![q] = Tail(@)]

Done(q) == /\ handed[q] # NoItem
           /\ handed' = [handed EXCEPT ![q] = NoItem] /\ UNCHANGED queue

Next == \E q \in Queues : Hand(q) \/ Done(q) \/ \E x \in Items : Accept(q, x)

Spec == Init /\ [][Next]_vars
=============================================================================
