---------------------------- MODULE MetadataQueue ----------------------------
(***************************************************************************)
(* The metadata queues of src/src/rtsp.c.  Conversation threads (and, once *)
(* at start-up, the main thread) call send_metadata, which adds an item to *)
(* every queue in turn and drops it where the queue is full; one thread    *)
(* per queue (pipe, multicast, hub) takes the items out and processes them. *)
(* An item may carry the RTSP message its data lies in: the message is     *)
(* reference-counted and freed by whoever lets go of it last.              *)
(*                                                                         *)
(* A critical section of pc_queue_lock or of reference_counter_lock is one *)
(* action.  pc_queue_init takes no lock and is two.                        *)
(***************************************************************************)
EXTENDS Integers, Sequences, FiniteSets

CONSTANTS
  NumQueues,      \* the queues, in the order send_metadata fills them
  Capacity,       \* their size (500)
  Clients,        \* conversation threads
  Main,           \* the main thread
  Messages, NoMessage,
  MaxItems,       \* items each of the threads sends
  EarlySends      \* does Main send before the queues are initialised?

ASSUME MetadataQueueAssumption ==
  /\ NumQueues \in Nat \ {0} /\ Capacity \in Nat \ {0} /\ MaxItems \in Nat
  /\ Main \notin Clients /\ NoMessage \notin Messages /\ EarlySends \in BOOLEAN

Queues    == 1 .. NumQueues
Producers == Clients \cup {Main}
Items  == [carrier : Messages \cup {NoMessage}, from : Producers, nr : 1 .. MaxItems]
NoItem == [carrier |-> NoMessage, from |-> NoMessage, nr |-> 0]   \* all zeros

VARIABLES
  capacity, count, toq, eoq, items,   \* the fields of each pc_queue
  consumer,  \* where each queue's thread is
  pack,      \* the item it works on
  at,        \* where each producer is in send_metadata
  message,   \* the message it handles, or NoMessage
  item,      \* the item it is sending
  target,    \* the queue it is sending it to
  sent,      \* how many items it has sent
  refs,      \* referenceCount of each message
  received   \* the messages allocated so far

queues   == <<capacity, count, toq, eoq, items>>
takers   == <<consumer, pack>>
sending  == <<message, item, target, sent>>
counters == <<refs, received>>
vars     == <<queues, takers, at, sending, counters>>

\* msg_retain and msg_free, on a message or on none.
Retained(m) == IF m = NoMessage THEN refs ELSE [refs EXCEPT ![m] = @ + 1]
Freed(m)    == IF m = NoMessage THEN refs ELSE [refs EXCEPT ![m] = @ - 1]

Ready == \A q \in Queues : consumer[q] \notin {"start", "init"}
-----------------------------------------------------------------------------
(* The thread of queue q. *)

\* pc_queue_init: the size first ...
InitSize(q) ==
  /\ consumer[q] = "start" /\ consumer' = [consumer EXCEPT ![q] = "init"]
  /\ count' = [count EXCEPT ![q] = 0] /\ capacity' = [capacity EXCEPT ![q] = Capacity]
  /\ UNCHANGED <<toq, eoq, items, pack, at, sending, counters>>

\* ... then the positions.
InitPositions(q) ==
  /\ consumer[q] = "init" /\ consumer' = [consumer EXCEPT ![q] = "get"]
  /\ toq' = [toq EXCEPT ![q] = 0] /\ eoq' = [eoq EXCEPT ![q] = 0]
  /\ UNCHANGED <<capacity, count, items, pack, at, sending, counters>>

Fold(i, size) == IF i + 1 = size THEN 0 ELSE i + 1

Sleep(q) ==
  /\ consumer[q] \in {"get", "woken"} /\ count[q] = 0
  /\ consumer' = [consumer EXCEPT ![q] = "asleep"]
  /\ UNCHANGED <<queues, pack, at, sending, counters>>

pc_queue_get_item(q) ==
  /\ consumer[q] \in {"get", "woken"} /\ count[q] > 0
  /\ consumer' = [consumer EXCEPT ![q] = "process"]
  /\ pack' = [pack EXCEPT ![q] = items[q][toq[q]]]
  /\ toq' = [toq EXCEPT ![q] = Fold(@, capacity[q])]
  /\ count' = [count EXCEPT ![q] = @ - 1]
  /\ UNCHANGED <<capacity, eoq, items, at, sending, counters>>

\* The item is processed and metadata_pack_cleanup_function lets it go.
Process(q) ==
  /\ consumer[q] = "process" /\ consumer' = [consumer EXCEPT ![q] = "get"]
  /\ refs' = Freed(pack[q].carrier) /\ pack' = [pack EXCEPT ![q] = NoItem]
  /\ UNCHANGED <<queues, at, sending, received>>
-----------------------------------------------------------------------------
(* The producers. *)

\* A request is read into a new message (msg_init).
Receive(p, m) ==
  /\ p \in Clients /\ at[p] = "idle" /\ Ready /\ m \notin received
  /\ received' = received \cup {m} /\ refs' = [refs EXCEPT ![m] = 1]
  /\ message' = [message EXCEPT ![p] = m] /\ at' = [at EXCEPT ![p] = "handling"]
  /\ UNCHANGED <<queues, takers, item, target, sent>>

\* Mutant: the message is retained for the first queue only.
SendToRetainedOnce(p, x, q) ==
  /\ target' = [target EXCEPT ![p] = q] /\ item' = [item EXCEPT ![p] = x]
  /\ at' = [at EXCEPT ![p] = IF x.carrier = NoMessage \/ q > 1 THEN "add" ELSE "retain"]

\* send_metadata, with the message or with a copy of the data.
SendTo(p, x, q) ==
  /\ target' = [target EXCEPT ![p] = q] /\ item' = [item EXCEPT ![p] = x]
  /\ at' = [at EXCEPT ![p] = IF x.carrier = NoMessage THEN "add" ELSE "retain"]

send_metadata(p, carrier) ==
  /\ at[p] = "handling" /\ sent[p] < MaxItems /\ (Ready \/ EarlySends)
  /\ carrier \in {message[p], NoMessage}
  /\ sent' = [sent EXCEPT ![p] = @ + 1]
  /\ SendTo(p, [carrier |-> carrier, from |-> p, nr |-> sent'[p]], 1)
  /\ UNCHANGED <<queues, takers, message, counters>>

msg_retain(p) ==
  /\ at[p] = "retain" /\ at' = [at EXCEPT ![p] = "add"]
  /\ refs' = Retained(item[p].carrier)
  /\ UNCHANGED <<queues, takers, sending, received>>

\* On to the next queue, or back to the handler.
Advance(p) ==
  IF target[p] = NumQueues
    THEN at' = [at EXCEPT ![p] = "handling"] /\ UNCHANGED <<item, target>>
    ELSE SendTo(p, item[p], target[p] + 1)

\* Mutant: one item too many is accepted.
HasNearlyRoom(q) == count[q] <= capacity[q]

HasRoom(q) == count[q] < capacity[q]

\* Mutant: adding an item signals nobody.
NotSignalled(where) == where

\* pthread_cond_signal, to the thread of the queue if it sleeps.
Signalled(where) == IF where = "asleep" THEN "woken" ELSE where

pc_queue_add_item(p) ==
  LET q == target[p] IN
  /\ at[p] = "add" /\ HasRoom(q)
  /\ items' = [items EXCEPT ![q][eoq[q]] = item[p]]
  /\ eoq' = [eoq EXCEPT ![q] = Fold(@, capacity[q])]
  /\ count' = [count EXCEPT ![q] = @ + 1]
  /\ consumer' = [consumer EXCEPT ![q] = Signalled(@)]
  /\ Advance(p)
  /\ UNCHANGED <<capacity, toq, pack, message, sent, counters>>

\* The queue is full, whatever "block" says: the item is given up.
Refuse(p) ==
  /\ at[p] = "add" /\ ~HasRoom(target[p])
  /\ at' = [at EXCEPT ![p] = "refused"]
  /\ UNCHANGED <<queues, takers, sending, counters>>

\* Mutant: an item that is given up keeps its message.
DropItemOnly(p) == /\ at[p] = "refused" /\ Advance(p)
                   /\ UNCHANGED <<queues, takers, message, sent, counters>>

Drop(p) ==
  /\ at[p] = "refused" /\ refs' = Freed(item[p].carrier)
  /\ Advance(p)
  /\ UNCHANGED <<queues, takers, message, sent, received>>

\* The request has been answered: msg_cleanup_function.
msg_free(p) ==
  /\ p \in Clients /\ at[p] = "handling" /\ at' = [at EXCEPT ![p] = "idle"]
  /\ refs' = Freed(message[p]) /\ message' = [message EXCEPT ![p] = NoMessage]
  /\ UNCHANGED <<queues, takers, item, target, sent, received>>
-----------------------------------------------------------------------------
Init ==
  /\ capacity = [q \in Queues |-> 0] /\ count = [q \in Queues |-> 0]
  /\ toq = [q \in Queues |-> 0] /\ eoq = [q \in Queues |-> 0]
  /\ items = [q \in Queues |-> [i \in 0 .. Capacity - 1 |-> NoItem]]
  /\ consumer = [q \in Queues |-> "start"] /\ pack = [q \in Queues |-> NoItem]
  /\ at = [p \in Producers |-> IF p = Main THEN "handling" ELSE "idle"]
  /\ message = [p \in Producers |-> NoMessage]
  /\ item = [p \in Producers |-> NoItem] /\ target = [p \in Producers |-> 1]
  /\ sent = [p \in Producers |-> 0]
  /\ refs = [m \in Messages |-> 0] /\ received = {}

Consumer(q) == InitSize(q) \/ InitPositions(q) \/ Sleep(q) \/ pc_queue_get_item(q)
                 \/ Process(q)

Sending(p) == msg_retain(p) \/ pc_queue_add_item(p) \/ Refuse(p) \/ Drop(p)

Next ==
  \/ \E q \in Queues : Consumer(q)
  \/ \E p \in Producers :
       \/ \E m \in Messages : Receive(p, m)
       \/ \E m \in Messages \cup {NoMessage} : send_metadata(p, m)
       \/ Sending(p) \/ msg_free(p)

Spec == Init /\ [][Next]_vars

\* Threads run; a handler answers its request in the end.
FairSpec ==
  /\ Spec
  /\ \A q \in Queues : WF_vars(Consumer(q))
  /\ \A p \in Producers : WF_vars(Sending(p)) /\ WF_vars(msg_free(p))
-----------------------------------------------------------------------------
TypeOK ==
  /\ capacity = [q \in Queues |-> IF consumer[q] = "start" THEN 0 ELSE Capacity]
  /\ count \in [Queues -> 0 .. Capacity]
  /\ toq \in [Queues -> 0 .. Capacity - 1] /\ eoq \in [Queues -> 0 .. Capacity - 1]
  /\ items \in [Queues -> [0 .. Capacity - 1 -> Items \cup {NoItem}]]
  /\ consumer \in [Queues -> {"start", "init", "get", "asleep", "woken", "process"}]
  /\ pack \in [Queues -> Items \cup {NoItem}]
  /\ at \in [Producers -> {"idle", "handling", "retain", "add", "refused"}]
  /\ message \in [Producers -> Messages \cup {NoMessage}]
  /\ item \in [Producers -> Items \cup {NoItem}] /\ target \in [Producers -> Queues]
  /\ sent \in [Producers -> 0 .. MaxItems]
  /\ refs \in [Messages -> Int] /\ received \subseteq Messages

\* "free space at end of queue": eoq is count places after toq in the ring, so
\* that no item is overwritten and none is handed over twice.
PositionsAgree ==
  \A q \in Queues : consumer[q] \notin {"start", "init"} =>
    eoq[q] \in {toq[q] + count[q], toq[q] + count[q] - Capacity}

\* The occupied slots of queue q, first the one to be taken next.
Place(q, i) == IF toq[q] + i - 1 < Capacity THEN toq[q] + i - 1
                                            ELSE toq[q] + i - 1 - Capacity
Queued(q) == [i \in 1 .. count[q] |-> items[q][Place(q, i)]]

Occupied(q) == {Place(q, i) : i \in 1 .. count[q]}

\* Everybody who still refers to message m: its request, those who are sending it, the
\* slots of the queues and the threads of the queues.
Requests(m) == {p \in Producers : message[p] = m}
Senders(m)  == {p \in Producers : at[p] \in {"add", "refused"} /\ item[p].carrier = m}
Slots(m)    == {s \in Queues \X (0 .. Capacity - 1) :
                  s[2] \in Occupied(s[1]) /\ items[s[1]][s[2]].carrier = m}
Takers(m)   == {q \in Queues : pack[q].carrier = m}
Holders(m)  == ({"request"} \X Requests(m)) \cup ({"sending"} \X Senders(m))
                 \cup ({"queued"} \X Slots(m)) \cup ({"taken"} \X Takers(m))

\* The reference count of a message is the number of those who refer to it: it
\* is never freed under a handler, a queue or a metadata thread, and never kept.
RefsExact == \A m \in Messages : refs[m] = Cardinality(Holders(m))

\* No lost wakeup: a metadata thread sleeps only while its queue is empty.
SleepsOnlyWhenEmpty == \A q \in Queues : consumer[q] = "asleep" => count[q] = 0

\* What keeps the positions right: nobody adds to a queue that is not ready, a
\* sender has an item, and a thread that is not processing has none.
QueueDiscipline ==
  /\ PositionsAgree /\ SleepsOnlyWhenEmpty
  /\ \A p \in Producers : at[p] \in {"retain", "add", "refused"} =>
       Ready /\ item[p] \in Items
  /\ \A q \in Queues : /\ consumer[q] # "process" => pack[q] = NoItem
                       /\ consumer[q] \in {"start", "init"} => count[q] = 0

\* Every message is freed in the end.
MessagesFreed == \A m \in Messages : (refs[m] > 0) ~> (refs[m] = 0)

Fifo == INSTANCE BoundedFifo WITH
          Size <- Capacity, queue <- [q \in Queues |-> Queued(q)], handed <- pack
ImplementsFifo == Fifo!Spec
=============================================================================
