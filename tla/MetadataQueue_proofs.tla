------------------------ MODULE MetadataQueue_proofs ------------------------
(***************************************************************************)
(* Proofs about MetadataQueue, for any number of queues and of threads and *)
(* queues of any size: types, no lost wakeup, and the ring positions.      *)
(***************************************************************************)
EXTENDS MetadataQueue, SequenceTheorems, FiniteSetTheorems, TLAPS

\* The initial values have the types of the variables.
LEMMA TypeCorrectInit == Init => TypeOK
<1> SUFFICES ASSUME Init PROVE TypeOK
  OBVIOUS
<1> USE MetadataQueueAssumption DEF MetadataQueueAssumption
<1>1. capacity = [q \in Queues |-> IF consumer[q] = "start" THEN 0 ELSE Capacity]
  BY DEF Init
<1>2. count \in [Queues -> 0 .. Capacity] /\ toq \in [Queues -> 0 .. Capacity - 1]
      /\ eoq \in [Queues -> 0 .. Capacity - 1]
  BY DEF Init
<1>3. items \in [Queues -> [0 .. Capacity - 1 -> Items \cup {NoItem}]]
  BY DEF Init
<1>4. target \in [Producers -> Queues] /\ sent \in [Producers -> 0 .. MaxItems]
  BY DEF Init, Queues
<1>5. QED
  BY <1>1, <1>2, <1>3, <1>4 DEF Init, TypeOK

\* What a producer does next keeps its item and its target in their types.
LEMMA AdvanceType ==
  ASSUME TypeOK, NEW p \in Producers, Advance(p)
  PROVE  /\ at' \in [Producers -> {"idle", "handling", "retain", "add", "refused"}]
         /\ item' \in [Producers -> Items \cup {NoItem}]
         /\ target' \in [Producers -> Queues]
<1>1. CASE target[p] = NumQueues
  BY <1>1 DEF TypeOK, Advance
<1>2. CASE target[p] # NumQueues
  <2>1. target[p] + 1 \in Queues
    <3>1. target[p] \in 1 .. NumQueues  BY Zenon DEF TypeOK, Queues
    <3>2. NumQueues \in Nat  BY MetadataQueueAssumption, Zenon DEF MetadataQueueAssumption
    <3>3. QED
      BY <1>2, <3>1, <3>2 DEF Queues
  <2>2. QED
    BY <1>2, <2>1 DEF TypeOK, Advance, SendTo
<1>3. QED
  BY <1>1, <1>2

\* Counting a reference up or down leaves a function from messages to numbers.
LEMMA CountType ==
  ASSUME TypeOK, NEW m
  PROVE  Retained(m) \in [Messages -> Int] /\ Freed(m) \in [Messages -> Int]
<1>1. CASE m = NoMessage
  BY <1>1 DEF TypeOK, Retained, Freed
<1>2. CASE m # NoMessage /\ m \in Messages
  <2>1. refs[m] + 1 \in Int /\ refs[m] - 1 \in Int
    BY <1>2 DEF TypeOK
  <2>2. QED
    BY <1>2, <2>1 DEF TypeOK, Retained, Freed
<1>3. CASE m # NoMessage /\ m \notin Messages
  BY <1>3 DEF TypeOK, Retained, Freed
<1>4. QED
  BY <1>1, <1>2, <1>3

\* A queue has its size from pc_queue_init on, whatever its thread does later.
LEMMA CapacityKept ==
  ASSUME TypeOK, NEW q \in Queues, consumer[q] # "start", NEW l, l # "start",
         consumer' = [consumer EXCEPT ![q] = l], capacity' = capacity
  PROVE  capacity' = [r \in Queues |-> IF consumer'[r] = "start" THEN 0 ELSE Capacity]
<1>1. capacity = [r \in Queues |-> IF consumer[r] = "start" THEN 0 ELSE Capacity]
  BY DEF TypeOK
<1>2. \A r \in Queues : (consumer'[r] = "start") = (consumer[r] = "start")
  BY DEF TypeOK
<1>3. [r \in Queues |-> IF consumer'[r] = "start" THEN 0 ELSE Capacity]
      = [r \in Queues |-> IF consumer[r] = "start" THEN 0 ELSE Capacity]
  BY <1>2, Zenon
<1>4. QED
  BY <1>1, <1>3

\* No step takes a variable out of its type.
LEMMA TypeCorrectStep == TypeOK /\ [Next]_vars => TypeOK'
<1> SUFFICES ASSUME TypeOK, [Next]_vars PROVE TypeOK'
  OBVIOUS
<1> USE MetadataQueueAssumption
    DEF MetadataQueueAssumption, TypeOK, queues, takers, sending, counters
<1>1. CASE UNCHANGED vars
  BY <1>1 DEF vars
<1>2. ASSUME NEW q \in Queues, InitSize(q) \/ InitPositions(q) PROVE TypeOK'
  <2>1. CASE InitSize(q)
    <3>1. capacity' = [r \in Queues |-> IF consumer'[r] = "start" THEN 0 ELSE Capacity]
      BY <2>1 DEF InitSize
    <3>2. count' \in [Queues -> 0 .. Capacity]
      BY <2>1 DEF InitSize
    <3>3. consumer' \in [Queues -> {"start", "init", "get", "asleep", "woken", "process"}]
      BY <2>1 DEF InitSize
    <3>4. QED
      BY <2>1, <3>1, <3>2, <3>3 DEF InitSize
  <2>2. CASE InitPositions(q)
    BY <2>2, CapacityKept DEF InitPositions
  <2>3. QED
    BY <1>2, <2>1, <2>2
<1>3. ASSUME NEW q \in Queues, Sleep(q) PROVE TypeOK'
  BY <1>3, CapacityKept DEF Sleep
<1>4. ASSUME NEW q \in Queues, pc_queue_get_item(q) PROVE TypeOK'
  <2>1. toq' \in [Queues -> 0 .. Capacity - 1] /\ count' \in [Queues -> 0 .. Capacity]
    BY <1>4 DEF pc_queue_get_item, Fold
  <2>2. pack' \in [Queues -> Items \cup {NoItem}]
    BY <1>4 DEF pc_queue_get_item
  <2>3. QED
    BY <1>4, <2>1, <2>2, CapacityKept DEF pc_queue_get_item
<1>5. ASSUME NEW q \in Queues, Process(q) PROVE TypeOK'
  BY <1>5, CapacityKept, CountType DEF Process
<1>6. ASSUME NEW p \in Producers, NEW m \in Messages, Receive(p, m) PROVE TypeOK'
  BY <1>6 DEF Receive
<1>7. ASSUME NEW p \in Producers, NEW m \in Messages \cup {NoMessage}, send_metadata(p, m)
      PROVE TypeOK'
  <2>1. sent' \in [Producers -> 0 .. MaxItems] /\ sent'[p] \in 1 .. MaxItems
    BY <1>7 DEF send_metadata
  <2>2. [carrier |-> m, from |-> p, nr |-> sent'[p]] \in Items /\ 1 \in Queues
    BY <2>1 DEF Items, Queues
  <2>3. QED
    BY <1>7, <2>1, <2>2 DEF send_metadata, SendTo
<1>8. ASSUME NEW p \in Producers, msg_retain(p) \/ Refuse(p) PROVE TypeOK'
  <2>1. CASE msg_retain(p)
    BY <2>1, CountType DEF msg_retain
  <2>2. CASE Refuse(p)
    BY <2>2 DEF Refuse
  <2>3. QED
    BY <1>8, <2>1, <2>2
<1>9. ASSUME NEW p \in Producers, pc_queue_add_item(p) PROVE TypeOK'
  <2>1. eoq' \in [Queues -> 0 .. Capacity - 1] /\ count' \in [Queues -> 0 .. Capacity]
    BY <1>9 DEF pc_queue_add_item, HasRoom, Fold
  <2>2. items' \in [Queues -> [0 .. Capacity - 1 -> Items \cup {NoItem}]]
    BY <1>9 DEF pc_queue_add_item, HasRoom, Signalled
  <2>3. capacity' = [q \in Queues |-> IF consumer'[q] = "start" THEN 0 ELSE Capacity]
    BY <1>9 DEF pc_queue_add_item, HasRoom, Signalled
  <2>4. consumer' \in [Queues -> {"start", "init", "get", "asleep", "woken", "process"}]
    BY <1>9 DEF pc_queue_add_item, HasRoom, Signalled
  <2>5. QED
    BY <1>9, <2>1, <2>2, <2>3, <2>4, AdvanceType DEF pc_queue_add_item, HasRoom, Signalled
<1>10. ASSUME NEW p \in Producers, Drop(p) PROVE TypeOK'
  BY <1>10, AdvanceType, CountType DEF Drop
<1>11. ASSUME NEW p \in Producers, msg_free(p) PROVE TypeOK'
  BY <1>11, CountType DEF msg_free
<1> HIDE DEF TypeOK
<1>12. QED
  BY <1>1, <1>2, <1>3, <1>4, <1>5, <1>6, <1>7, <1>8, <1>9, <1>10, <1>11
     DEF Next, Consumer, Sending

\* Every variable keeps its type.
THEOREM TypeCorrect == Spec => []TypeOK
BY TypeCorrectInit, TypeCorrectStep, PTL DEF Spec
-----------------------------------------------------------------------------
\* Taking the oldest item moves toq up, around the end of the ring, to the next.
LEMMA RingTake ==
  ASSUME NEW cap \in Nat, NEW t \in 0 .. cap - 1, NEW e \in 0 .. cap - 1,
         NEW c \in 1 .. cap, e \in {t + c, t + c - cap}
  PROVE  e \in {Fold(t, cap) + (c - 1), Fold(t, cap) + (c - 1) - cap}
<1>1. CASE t + 1 = cap
  BY <1>1 DEF Fold
<1>2. CASE t + 1 # cap
  BY <1>2 DEF Fold
<1>3. QED
  BY <1>1, <1>2

\* Adding an item moves eoq up, around the end of the ring, to the next free slot.
LEMMA RingAdd ==
  ASSUME NEW cap \in Nat, NEW t \in 0 .. cap - 1, NEW e \in 0 .. cap - 1,
         NEW c \in 0 .. cap - 1, e \in {t + c, t + c - cap}
  PROVE  Fold(e, cap) \in {t + (c + 1), t + (c + 1) - cap}
<1>1. CASE e + 1 = cap
  BY <1>1 DEF Fold
<1>2. CASE e + 1 # cap
  BY <1>2 DEF Fold
<1>3. QED
  BY <1>1, <1>2

QueueInv == TypeOK /\ QueueDiscipline

\* The discipline holds at the start, when no queue is ready.
LEMMA QueueInvInit == Init => QueueInv
<1> SUFFICES ASSUME Init PROVE QueueDiscipline
  BY TypeCorrectInit DEF QueueInv
<1>1. \A q \in Queues : consumer[q] = "start" /\ pack[q] = NoItem /\ count[q] = 0
  BY DEF Init
<1>2. \A p \in Producers : at[p] \in {"idle", "handling"}
  BY DEF Init
<1>3. QED
  BY <1>1, <1>2 DEF QueueDiscipline, PositionsAgree, SleepsOnlyWhenEmpty

\* The queue's thread never moves another queue, and adding or taking an item
\* moves one end of the ring by one place.
LEMMA QueueInvStep ==
  ASSUME ~EarlySends, QueueInv, [Next]_vars
  PROVE  QueueInv'
<1>1. TypeOK /\ TypeOK'
  BY TypeCorrectStep DEF QueueInv
<1>2. QueueDiscipline'
  <2> USE <1>1, MetadataQueueAssumption
      DEF MetadataQueueAssumption, QueueInv, QueueDiscipline, PositionsAgree,
          SleepsOnlyWhenEmpty, TypeOK, Ready, queues, takers, sending, counters
  <2>1. CASE UNCHANGED vars
    BY <2>1 DEF vars
  <2>2. ASSUME NEW q \in Queues, InitSize(q) PROVE QueueDiscipline'
    BY <2>2 DEF InitSize
  <2>3. ASSUME NEW q \in Queues, InitPositions(q) PROVE QueueDiscipline'
    BY <2>3 DEF InitPositions
  <2>4. ASSUME NEW q \in Queues, Sleep(q) PROVE QueueDiscipline'
    BY <2>4 DEF Sleep
  <2>5. ASSUME NEW q \in Queues, pc_queue_get_item(q) PROVE QueueDiscipline'
    <3>1. capacity[q] = Capacity /\ count[q] \in 1 .. Capacity
      BY <2>5 DEF pc_queue_get_item
    <3>2. toq'[q] = Fold(toq[q], Capacity) /\ eoq'[q] = eoq[q]
          /\ count'[q] = count[q] - 1
      BY <2>5, <3>1 DEF pc_queue_get_item
    <3>3. eoq'[q] \in {toq'[q] + count'[q], toq'[q] + count'[q] - Capacity}
      <4>1. /\ eoq[q] \in 0 .. Capacity - 1 /\ toq[q] \in 0 .. Capacity - 1
            /\ eoq[q] \in {toq[q] + count[q], toq[q] + count[q] - Capacity}
        BY <2>5 DEF pc_queue_get_item
      <4> HIDE DEF QueueInv, QueueDiscipline, PositionsAgree, TypeOK
      <4>2. eoq[q] \in {Fold(toq[q], Capacity) + (count[q] - 1),
                        Fold(toq[q], Capacity) + (count[q] - 1) - Capacity}
        BY <3>1, <4>1, RingTake
      <4>3. QED
        BY <3>2, <4>2
    <3>4. \A r \in Queues \ {q} : /\ consumer'[r] = consumer[r] /\ count'[r] = count[r]
                                 /\ toq'[r] = toq[r] /\ eoq'[r] = eoq[r]
                                 /\ pack'[r] = pack[r]
      BY <2>5 DEF pc_queue_get_item
    <3>5. /\ consumer[q] \notin {"start", "init"} /\ consumer'[q] = "process"
          /\ at' = at /\ item' = item
      BY <2>5 DEF pc_queue_get_item
    <3>6. QED
      BY <3>3, <3>4, <3>5
  <2>6. ASSUME NEW q \in Queues, Process(q) PROVE QueueDiscipline'
    BY <2>6 DEF Process
  <2>7. ASSUME NEW p \in Producers, NEW m \in Messages, Receive(p, m)
        PROVE  QueueDiscipline'
    BY <2>7 DEF Receive
  <2>8. ASSUME NEW p \in Producers, NEW m \in Messages \cup {NoMessage},
               send_metadata(p, m)
        PROVE  QueueDiscipline'
    BY <2>8 DEF send_metadata, SendTo, Items
  <2>9. ASSUME NEW p \in Producers, msg_retain(p) \/ Refuse(p) PROVE QueueDiscipline'
    BY <2>9 DEF msg_retain, Refuse
  <2>10. ASSUME NEW p \in Producers, pc_queue_add_item(p) PROVE QueueDiscipline'
    <3>0. PICK q \in Queues : q = target[p]
      OBVIOUS
    <3>1. consumer[q] \notin {"start", "init"} /\ capacity[q] = Capacity
          /\ count[q] \in 0 .. Capacity - 1
      BY <2>10, <3>0 DEF pc_queue_add_item, HasRoom, Signalled
    <3>2. eoq'[q] = Fold(eoq[q], Capacity) /\ toq'[q] = toq[q]
          /\ count'[q] = count[q] + 1
      BY <2>10, <3>0, <3>1 DEF pc_queue_add_item, HasRoom, Signalled
    <3>3. eoq'[q] \in {toq'[q] + count'[q], toq'[q] + count'[q] - Capacity}
      <4>1. /\ eoq[q] \in 0 .. Capacity - 1 /\ toq[q] \in 0 .. Capacity - 1
            /\ eoq[q] \in {toq[q] + count[q], toq[q] + count[q] - Capacity}
        BY <3>1
      <4> HIDE DEF QueueInv, QueueDiscipline, PositionsAgree, TypeOK
      <4>2. Fold(eoq[q], Capacity) \in {toq[q] + (count[q] + 1),
                                        toq[q] + (count[q] + 1) - Capacity}
        BY <3>1, <4>1, RingAdd
      <4>3. QED
        BY <3>2, <4>2
    <3>4. \A r \in Queues \ {q} : /\ consumer'[r] = consumer[r] /\ count'[r] = count[r]
                                 /\ toq'[r] = toq[r] /\ eoq'[r] = eoq[r]
      BY <2>10, <3>0 DEF pc_queue_add_item, HasRoom, Signalled
    <3>5. consumer'[q] = consumer[q] \/ (consumer[q] = "asleep" /\ consumer'[q] = "woken")
      BY <2>10, <3>0, <3>1 DEF pc_queue_add_item, HasRoom, Signalled
    <3>6. consumer'[q] # "asleep" /\ pack' = pack
      BY <2>10, <3>0, <3>1 DEF pc_queue_add_item, HasRoom, Signalled
    <3>7. \A r \in Producers : at'[r] \in {"retain", "add", "refused"} =>
            Ready /\ item'[r] \in Items
      <4>1. Ready /\ item[p] \in Items /\ at[p] = "add"
        BY <2>10 DEF pc_queue_add_item, HasRoom, Signalled
      <4>2. CASE target[p] = NumQueues
        <5>1. at' = [at EXCEPT ![p] = "handling"] /\ item' = item
          BY <2>10, <4>2, Zenon DEF pc_queue_add_item, Advance
        <5>2. \A r \in Producers : /\ at'[r] \in {"retain", "add", "refused"} => at'[r] = at[r]
                                   /\ item'[r] = item[r]
          BY <5>1
        <5>3. QED
          BY <5>2
      <4>3. CASE target[p] # NumQueues
        <5>1. SendTo(p, item[p], target[p] + 1)
          BY <2>10, <4>3 DEF pc_queue_add_item, HasRoom, Signalled, Advance
        <5>2. item' = item /\ \A r \in Producers \ {p} : at'[r] = at[r]
          BY <5>1 DEF SendTo
        <5>3. QED
          BY <4>1, <5>2
      <4>4. QED
        BY <4>2, <4>3
    <3>8. \A r \in Queues : consumer[r] \notin {"start", "init"} =>
            consumer'[r] \notin {"start", "init"}
      BY <3>4, <3>5
    <3>9. QED
      BY <3>1, <3>3, <3>4, <3>5, <3>6, <3>7, <3>8
  <2>11. ASSUME NEW p \in Producers, Drop(p) PROVE QueueDiscipline'
    <3>1. /\ at[p] = "refused" /\ Advance(p)
          /\ UNCHANGED <<capacity, count, toq, eoq, items, consumer, pack>>
      BY <2>11 DEF Drop
    <3>2. item' = item /\ \A r \in Producers \ {p} : at'[r] = at[r]
      <4>1. CASE target[p] = NumQueues
        BY <3>1, <4>1 DEF Advance
      <4>2. CASE target[p] # NumQueues
        BY <3>1, <4>2 DEF Advance, SendTo
      <4>3. QED
        BY <4>1, <4>2
    <3>3. \A r \in Producers : at'[r] \in {"retain", "add", "refused"} =>
            Ready /\ item'[r] \in Items
      BY <3>1, <3>2
    <3>4. QED
      BY <3>1, <3>3
  <2>12. ASSUME NEW p \in Producers, msg_free(p) PROVE QueueDiscipline'
    BY <2>12 DEF msg_free
  <2> HIDE DEF QueueDiscipline, PositionsAgree, SleepsOnlyWhenEmpty, TypeOK, QueueInv
  <2>13. QED
    BY <2>1, <2>2, <2>3, <2>4, <2>5, <2>6, <2>7, <2>8, <2>9, <2>10, <2>11, <2>12
       DEF Next, Consumer, Sending
<1>3. QED
  BY <1>1, <1>2 DEF QueueInv

\* Once every queue is initialised before it is used, the discipline holds.
THEOREM Discipline == ~EarlySends => (Spec => []QueueDiscipline)
<1> SUFFICES ASSUME ~EarlySends PROVE Spec => []QueueDiscipline
  OBVIOUS
<1>1. Init => QueueInv
  BY QueueInvInit
<1>2. QueueInv /\ [Next]_vars => QueueInv'
  BY QueueInvStep
<1>3. QueueInv => QueueDiscipline
  BY DEF QueueInv
<1>4. QED
  BY <1>1, <1>2, <1>3, PTL DEF Spec

\* eoq is always count places after toq: no item is overwritten or taken twice.
THEOREM RingPositions == ~EarlySends => (Spec => []PositionsAgree)
<1>1. QueueDiscipline => PositionsAgree
  BY DEF QueueDiscipline
<1>2. QED
  BY <1>1, Discipline, PTL

\* No lost wakeup: the thread of a queue never sleeps over an item.
THEOREM NoLostWakeup == ~EarlySends => (Spec => []SleepsOnlyWhenEmpty)
<1>1. QueueDiscipline => SleepsOnlyWhenEmpty
  BY DEF QueueDiscipline
<1>2. QED
  BY <1>1, Discipline, PTL
-----------------------------------------------------------------------------
\* The items of a queue are a sequence as long as its count says.
LEMMA QueuedType ==
  ASSUME TypeOK, NEW q \in Queues
  PROVE  /\ Queued(q) \in Seq(Items \cup {NoItem}) /\ Len(Queued(q)) = count[q]
         /\ \A i \in 1 .. count[q] : Queued(q)[i] = items[q][Place(q, i)]
         /\ \A i \in 1 .. count[q] : Place(q, i) \in 0 .. Capacity - 1
<1> USE MetadataQueueAssumption DEF MetadataQueueAssumption
<1>1. count[q] \in Nat /\ count[q] <= Capacity /\ toq[q] \in 0 .. Capacity - 1
  BY DEF TypeOK
<1>2. \A i \in 1 .. count[q] : Place(q, i) \in 0 .. Capacity - 1
  BY <1>1 DEF Place
<1>3. \A i \in 1 .. count[q] : items[q][Place(q, i)] \in Items \cup {NoItem}
  BY <1>2 DEF TypeOK
<1> QED BY <1>1, <1>2, <1>3 DEF Queued

\* Where nothing of the ring changes, the queue does not.
LEMMA QueuedKept ==
  ASSUME NEW q \in Queues, count'[q] = count[q], toq'[q] = toq[q], items'[q] = items[q]
  PROVE  Queued(q)' = Queued(q)
BY DEF Queued, Place

\* Taking an item hands over the first one and leaves the rest in order.
LEMMA TakeIsTail ==
  ASSUME QueueInv, QueueInv', NEW q \in Queues, pc_queue_get_item(q)
  PROVE  /\ Queued(q) # <<>> /\ pack'[q] = Head(Queued(q))
         /\ Queued(q)' = Tail(Queued(q))
<1> USE MetadataQueueAssumption DEF MetadataQueueAssumption
<1>1. TypeOK /\ TypeOK' /\ capacity[q] = Capacity
  BY DEF QueueInv, TypeOK, pc_queue_get_item
<1>2. count[q] \in 1 .. Capacity /\ toq[q] \in 0 .. Capacity - 1
  BY <1>1 DEF TypeOK, pc_queue_get_item
<1>3. /\ pack'[q] = items[q][toq[q]] /\ toq'[q] = Fold(toq[q], Capacity)
      /\ count'[q] = count[q] - 1 /\ items' = items
  BY <1>1 DEF TypeOK, pc_queue_get_item
<1>4. Place(q, 1) = toq[q]
  BY <1>2 DEF Place
<1>5. \A i \in 1 .. count[q] - 1 : Place(q, i)' = Place(q, i + 1)
  BY <1>2, <1>3 DEF Place, Fold
<1>6. Queued(q) # <<>> /\ Head(Queued(q)) = Queued(q)[1] /\ Queued(q)[1] = items[q][toq[q]]
  BY <1>1, <1>2, <1>4, QueuedType
<1>7. Queued(q)' = [i \in 1 .. count'[q] |-> items'[q][Place(q, i)']]
  BY DEF Queued
<1>8. Queued(q)' = [i \in 1 .. count[q] - 1 |-> items[q][Place(q, i + 1)]]
  BY <1>2, <1>3, <1>5, <1>7
<1>9. \A i \in 1 .. count[q] - 1 : /\ Queued(q)[i + 1] = items[q][Place(q, i + 1)]
                                   /\ Queued(q)[i + 1] \in Items \cup {NoItem}
  BY <1>1, <1>2, QueuedType
<1>10. /\ Queued(q)' \in Seq(Items \cup {NoItem}) /\ Len(Queued(q)') = count[q] - 1
       /\ \A i \in 1 .. count[q] - 1 : Queued(q)'[i] = Queued(q)[i + 1]
  BY <1>2, <1>8, <1>9
<1>11. /\ Tail(Queued(q)) \in Seq(Items \cup {NoItem})
       /\ Len(Tail(Queued(q))) = count[q] - 1
       /\ \A i \in 1 .. count[q] - 1 : Tail(Queued(q))[i] = Queued(q)[i + 1]
  BY <1>1, <1>2, <1>6, QueuedType, HeadTailProperties
<1>12. Queued(q)' = Tail(Queued(q))
  BY <1>2, <1>10, <1>11, SeqEqual
<1> QED BY <1>3, <1>6, <1>12

\* Adding an item appends it: it is written to the free slot after the last item, and
\* to no slot that is taken.
LEMMA AddIsAppend ==
  ASSUME QueueInv, QueueInv', NEW p \in Producers, pc_queue_add_item(p),
         NEW q \in Queues, q = target[p]
  PROVE  /\ Len(Queued(q)) < Capacity /\ item[p] \in Items
         /\ Queued(q)' = Append(Queued(q), item[p])
<1> USE MetadataQueueAssumption DEF MetadataQueueAssumption
<1>1. TypeOK /\ TypeOK' /\ item[p] \in Items /\ consumer[q] \notin {"start", "init"}
  BY DEF QueueInv, QueueDiscipline, pc_queue_add_item, Ready
<1>2. capacity[q] = Capacity /\ count[q] \in 0 .. Capacity - 1 /\ toq[q] \in 0 .. Capacity - 1
  BY <1>1 DEF TypeOK, pc_queue_add_item, HasRoom
<1>3. /\ items' = [items EXCEPT ![q][eoq[q]] = item[p]] /\ toq' = toq
      /\ count' = [count EXCEPT ![q] = @ + 1]
  BY DEF pc_queue_add_item
<1>4. eoq[q] = IF toq[q] + count[q] < Capacity THEN toq[q] + count[q]
                                              ELSE toq[q] + count[q] - Capacity
  <2>1. eoq[q] \in 0 .. Capacity - 1
    BY <1>1 DEF TypeOK
  <2>2. eoq[q] \in {toq[q] + count[q], toq[q] + count[q] - Capacity}
    BY <1>1, Zenon DEF QueueInv, QueueDiscipline, PositionsAgree
  <2> QED BY <1>2, <2>1, <2>2
<1>5. count'[q] = count[q] + 1 /\ \A i \in 1 .. count[q] + 1 : Place(q, i)' = Place(q, i)
  BY <1>1, <1>3 DEF Place, TypeOK
<1>6. Place(q, count[q] + 1) = eoq[q] /\ \A i \in 1 .. count[q] : Place(q, i) # eoq[q]
  BY <1>2, <1>4 DEF Place
<1>7. /\ items'[q][eoq[q]] = item[p]
      /\ \A j \in 0 .. Capacity - 1 : j # eoq[q] => items'[q][j] = items[q][j]
  BY <1>1, <1>2, <1>3, <1>4 DEF TypeOK
<1>8. Queued(q)' = [i \in 1 .. count'[q] |-> items'[q][Place(q, i)']]
  BY DEF Queued
<1>9. Queued(q)' = [i \in 1 .. count[q] + 1 |-> items'[q][Place(q, i)]]
  BY <1>2, <1>5, <1>8
<1>10. \A i \in 1 .. count[q] : items'[q][Place(q, i)] = Queued(q)[i]
  BY <1>1, <1>6, <1>7, QueuedType
<1>11. /\ Queued(q) \in Seq(Items \cup {NoItem}) /\ Len(Queued(q)) = count[q]
       /\ \A i \in 1 .. count[q] : Queued(q)[i] \in Items \cup {NoItem}
  BY <1>1, <1>2, QueuedType, ElementOfSeq
<1>12. \A i \in 1 .. count[q] + 1 : /\ items'[q][Place(q, i)] \in Items \cup {NoItem}
                                    /\ i = count[q] + 1 => items'[q][Place(q, i)] = item[p]
  BY <1>1, <1>2, <1>6, <1>7, <1>10, <1>11
<1>13. /\ Queued(q)' \in Seq(Items \cup {NoItem}) /\ Len(Queued(q)') = count[q] + 1
       /\ \A i \in 1 .. count[q] : Queued(q)'[i] = Queued(q)[i]
       /\ Queued(q)'[count[q] + 1] = item[p]
  <2> DEFINE n == count[q] + 1
             x == [i \in 1 .. n |-> items'[q][Place(q, i)]]
  <2>1. n \in Nat /\ \A i \in 1 .. n : items'[q][Place(q, i)] \in Items \cup {NoItem}
    BY <1>2, <1>12
  <2>2. x \in Seq(Items \cup {NoItem}) /\ Len(x) = n
    <3> HIDE DEF n
    <3> QED BY <2>1
  <2>3. \A i \in 1 .. count[q] : i \in 1 .. n /\ x[i] = items'[q][Place(q, i)]
    BY <1>2
  <2>4. n \in 1 .. n /\ x[n] = item[p]
    BY <1>2, <1>12
  <2> HIDE DEF x
  <2> QED BY <1>9, <1>10, <2>2, <2>3, <2>4, Zenon DEF x
<1>14. /\ Append(Queued(q), item[p]) \in Seq(Items \cup {NoItem})
       /\ Len(Append(Queued(q), item[p])) = count[q] + 1
       /\ \A i \in 1 .. count[q] : Append(Queued(q), item[p])[i] = Queued(q)[i]
       /\ Append(Queued(q), item[p])[count[q] + 1] = item[p]
  BY <1>1, <1>2, <1>11, AppendProperties
<1>15. Queued(q)' = Append(Queued(q), item[p])
  <2>1. \A i \in 1 .. count[q] + 1 : i \in 1 .. count[q] \/ i = count[q] + 1
    BY <1>2
  <2>2. \A i \in 1 .. count[q] + 1 : Queued(q)'[i] = Append(Queued(q), item[p])[i]
    BY <2>1, <1>13, <1>14
  <2> QED BY <2>2, <1>13, <1>14, SeqEqual
<1> QED BY <1>1, <1>2, <1>11, <1>15

\* Every step is a step of a bounded FIFO or changes nothing of it.
LEMMA FifoStep ==
  ASSUME QueueInv, QueueInv', [Next]_vars
  PROVE  [Fifo!Next]_(Fifo!vars)
<1> DEFINE AllQueued == [q \in Queues |-> Queued(q)]
<1> USE DEF queues, takers, sending, counters
<1>1. TypeOK /\ TypeOK'
  BY DEF QueueInv
<1>2. ASSUME \A q \in Queues : Queued(q)' = Queued(q), UNCHANGED pack
      PROVE  [Fifo!Next]_(Fifo!vars)
  <2>1. AllQueued' = AllQueued
    BY <1>2
  <2> QED BY <1>2, <2>1 DEF Fifo!vars
<1>3. ASSUME UNCHANGED <<count, toq, items, pack>> PROVE [Fifo!Next]_(Fifo!vars)
  BY <1>2, <1>3, QueuedKept
<1>4. ASSUME NEW q \in Queues, InitSize(q) \/ InitPositions(q)
      PROVE  [Fifo!Next]_(Fifo!vars)
  <2>1. count[q] = 0 /\ count'[q] = 0
    BY <1>1, <1>4 DEF QueueInv, QueueDiscipline, InitSize, InitPositions, TypeOK
  <2>2. Queued(q) = <<>> /\ Queued(q)' = <<>>
    BY <2>1 DEF Queued
  <2>3. \A r \in Queues \ {q} : /\ count'[r] = count[r] /\ toq'[r] = toq[r]
                               /\ items'[r] = items[r]
    BY <1>1, <1>4 DEF InitSize, InitPositions, TypeOK
  <2>4. \A r \in Queues \ {q} : Queued(r)' = Queued(r)
    BY <2>3, QueuedKept
  <2>5. pack' = pack
    BY <1>4 DEF InitSize, InitPositions
  <2> QED BY <1>2, <2>2, <2>4, <2>5
<1>5. ASSUME NEW q \in Queues, pc_queue_get_item(q) PROVE Fifo!Next
  <2>1. /\ Queued(q) # <<>> /\ pack'[q] = Head(Queued(q)) /\ Queued(q)' = Tail(Queued(q))
    BY <1>5, TakeIsTail
  <2>2. \A r \in Queues \ {q} : /\ count'[r] = count[r] /\ toq'[r] = toq[r]
                               /\ items'[r] = items[r]
    BY <1>1, <1>5 DEF pc_queue_get_item, TypeOK
  <2>3. \A r \in Queues \ {q} : Queued(r)' = Queued(r)
    BY <2>2, QueuedKept
  <2>4. AllQueued' = [AllQueued EXCEPT ![q] = Tail(@)]
    BY <2>1, <2>3
  <2>5. pack[q] = NoItem /\ pack' = [pack EXCEPT ![q] = Head(AllQueued[q])]
    <3>1. consumer[q] # "process" /\ \E x : pack' = [pack EXCEPT ![q] = x]
      BY <1>5 DEF pc_queue_get_item
    <3>2. pack[q] = NoItem
      BY <3>1, Zenon DEF QueueInv, QueueDiscipline
    <3>3. pack' = [pack EXCEPT ![q] = pack'[q]]
      BY <1>1, <3>1 DEF TypeOK
    <3> QED BY <2>1, <3>2, <3>3
  <2>6. Fifo!Hand(q)
    BY <2>1, <2>4, <2>5 DEF Fifo!Hand
  <2> QED BY <2>6 DEF Fifo!Next
<1>6. ASSUME NEW q \in Queues, Process(q) PROVE [Fifo!Next]_(Fifo!vars)
  <2>1. UNCHANGED <<count, toq, items>> /\ pack' = [pack EXCEPT ![q] = NoItem]
    BY <1>6 DEF Process
  <2>2. AllQueued' = AllQueued
    BY <2>1, QueuedKept
  <2>3. CASE pack[q] = NoItem
    BY <1>1, <1>2, <2>1, <2>3, QueuedKept DEF TypeOK
  <2>4. CASE pack[q] # NoItem
    BY <2>1, <2>2, <2>4 DEF Fifo!Next, Fifo!Done
  <2> QED BY <2>3, <2>4
<1>7. ASSUME NEW p \in Producers, pc_queue_add_item(p) PROVE Fifo!Next
  <2>1. PICK q \in Queues : q = target[p]
    BY <1>1 DEF TypeOK
  <2>2. /\ Len(Queued(q)) < Capacity /\ item[p] \in Items
        /\ Queued(q)' = Append(Queued(q), item[p])
    BY <1>7, <2>1, AddIsAppend
  <2>3. \A r \in Queues \ {q} : /\ count'[r] = count[r] /\ toq'[r] = toq[r]
                               /\ items'[r] = items[r]
    BY <1>1, <1>7, <2>1 DEF pc_queue_add_item, TypeOK
  <2>4. \A r \in Queues \ {q} : Queued(r)' = Queued(r)
    BY <2>3, QueuedKept
  <2>5. AllQueued' = [AllQueued EXCEPT ![q] = Append(@, item[p])]
    BY <2>2, <2>4
  <2>6. pack' = pack
    BY <1>7 DEF pc_queue_add_item
  <2>7. Fifo!Accept(q, item[p])
    BY <2>2, <2>5, <2>6 DEF Fifo!Accept
  <2> QED BY <2>2, <2>7 DEF Fifo!Next
<1>8. ASSUME NEW p \in Producers,
             \/ \E m \in Messages : Receive(p, m)
             \/ \E m \in Messages \cup {NoMessage} : send_metadata(p, m)
             \/ msg_retain(p) \/ Refuse(p) \/ Drop(p) \/ msg_free(p)
      PROVE  [Fifo!Next]_(Fifo!vars)
  BY <1>3, <1>8 DEF Receive, send_metadata, msg_retain, Refuse, Drop, msg_free
<1>9. CASE UNCHANGED vars
  BY <1>3, <1>9 DEF vars
<1>10. ASSUME NEW q \in Queues, Sleep(q) PROVE [Fifo!Next]_(Fifo!vars)
  BY <1>3, <1>10 DEF Sleep
<1> QED
  BY <1>4, <1>5, <1>6, <1>7, <1>8, <1>9, <1>10 DEF Next, Consumer, Sending

\* Each metadata queue hands over the items it accepted in their order, each once: the
\* ring of pc_queue_add_item and pc_queue_get_item implements the bounded FIFO.
THEOREM Refinement == ~EarlySends => (Spec => ImplementsFifo)
<1> SUFFICES ASSUME ~EarlySends PROVE Spec => ImplementsFifo
  OBVIOUS
<1>1. Init => Fifo!Init
  <2> SUFFICES ASSUME Init PROVE Fifo!Init
    OBVIOUS
  <2>1. \A q \in Queues : Queued(q) = <<>>
    BY DEF Init, Queued
  <2> QED BY <2>1 DEF Init, Fifo!Init
<1>2. QueueInv /\ [Next]_vars => QueueInv'
  BY QueueInvStep
<1>3. QueueInv /\ QueueInv' /\ [Next]_vars => [Fifo!Next]_(Fifo!vars)
  BY FifoStep
<1> QED
  BY QueueInvInit, <1>1, <1>2, <1>3, PTL DEF Spec, ImplementsFifo, Fifo!Spec
-----------------------------------------------------------------------------
\* Holders of the four kinds together.
Tagged(A, B, C, D) == ({"request"} \X A) \cup ({"sending"} \X B)
                        \cup ({"queued"} \X C) \cup ({"taken"} \X D)

Counts(S, n) == IsFiniteSet(S) /\ Cardinality(S) = n

\* One holder more or less of any one kind is one more or less of all.
LEMMA OneMore ==
  ASSUME NEW A, NEW B, NEW C, NEW D, IsFiniteSet(Tagged(A, B, C, D)), NEW x
  PROVE  /\ x \notin A => Counts(Tagged(A \cup {x}, B, C, D),
                            Cardinality(Tagged(A, B, C, D)) + 1)
         /\ x \notin B => Counts(Tagged(A, B \cup {x}, C, D),
                            Cardinality(Tagged(A, B, C, D)) + 1)
         /\ x \notin C => Counts(Tagged(A, B, C \cup {x}, D),
                            Cardinality(Tagged(A, B, C, D)) + 1)
         /\ x \notin D => Counts(Tagged(A, B, C, D \cup {x}),
                            Cardinality(Tagged(A, B, C, D)) + 1)
<1> DEFINE T == Tagged(A, B, C, D)
<1>1. \A y : y \notin T => IsFiniteSet(T \cup {y}) /\ Cardinality(T \cup {y}) = Cardinality(T) + 1
  BY FS_AddElement
<1>2. /\ Tagged(A \cup {x}, B, C, D) = T \cup {<<"request", x>>}
      /\ Tagged(A, B \cup {x}, C, D) = T \cup {<<"sending", x>>}
      /\ Tagged(A, B, C \cup {x}, D) = T \cup {<<"queued", x>>}
      /\ Tagged(A, B, C, D \cup {x}) = T \cup {<<"taken", x>>}
  BY DEF Tagged
<1>3. /\ x \notin A => <<"request", x>> \notin T
      /\ x \notin B => <<"sending", x>> \notin T
      /\ x \notin C => <<"queued", x>> \notin T
      /\ x \notin D => <<"taken", x>> \notin T
  BY DEF Tagged
<1> HIDE DEF T
<1>4. T = Tagged(A, B, C, D)
  BY DEF T
<1>5. /\ x \notin A => Counts(T \cup {<<"request", x>>}, Cardinality(T) + 1)
      /\ x \notin B => Counts(T \cup {<<"sending", x>>}, Cardinality(T) + 1)
      /\ x \notin C => Counts(T \cup {<<"queued", x>>}, Cardinality(T) + 1)
      /\ x \notin D => Counts(T \cup {<<"taken", x>>}, Cardinality(T) + 1)
  BY <1>1, <1>3, Zenon DEF Counts
<1> QED BY <1>2, <1>4, <1>5, Zenon

LEMMA OneLess ==
  ASSUME NEW A, NEW B, NEW C, NEW D, IsFiniteSet(Tagged(A, B, C, D)), NEW x
  PROVE  /\ x \in A => Counts(Tagged(A \ {x}, B, C, D),
                            Cardinality(Tagged(A, B, C, D)) - 1)
         /\ x \in B => Counts(Tagged(A, B \ {x}, C, D),
                            Cardinality(Tagged(A, B, C, D)) - 1)
         /\ x \in C => Counts(Tagged(A, B, C \ {x}, D),
                            Cardinality(Tagged(A, B, C, D)) - 1)
         /\ x \in D => Counts(Tagged(A, B, C, D \ {x}),
                            Cardinality(Tagged(A, B, C, D)) - 1)
<1> DEFINE T == Tagged(A, B, C, D)
<1>1. \A y : y \in T => IsFiniteSet(T \ {y}) /\ Cardinality(T \ {y}) = Cardinality(T) - 1
  BY FS_RemoveElement
<1>2. /\ Tagged(A \ {x}, B, C, D) = T \ {<<"request", x>>}
      /\ Tagged(A, B \ {x}, C, D) = T \ {<<"sending", x>>}
      /\ Tagged(A, B, C \ {x}, D) = T \ {<<"queued", x>>}
      /\ Tagged(A, B, C, D \ {x}) = T \ {<<"taken", x>>}
  BY DEF Tagged
<1>3. /\ x \in A => <<"request", x>> \in T
      /\ x \in B => <<"sending", x>> \in T
      /\ x \in C => <<"queued", x>> \in T
      /\ x \in D => <<"taken", x>> \in T
  BY DEF Tagged
<1> HIDE DEF T
<1>4. T = Tagged(A, B, C, D)
  BY DEF T
<1>5. /\ x \in A => Counts(T \ {<<"request", x>>}, Cardinality(T) - 1)
      /\ x \in B => Counts(T \ {<<"sending", x>>}, Cardinality(T) - 1)
      /\ x \in C => Counts(T \ {<<"queued", x>>}, Cardinality(T) - 1)
      /\ x \in D => Counts(T \ {<<"taken", x>>}, Cardinality(T) - 1)
  BY <1>1, <1>3, Zenon DEF Counts
<1> QED BY <1>2, <1>4, <1>5, Zenon

\* What makes RefsExact inductive: the holders can be counted, an idle thread has no
\* request, and every message that is named anywhere has been received.
Known(x) == x.carrier \in received \cup {NoMessage}
HoldersInv ==
  /\ QueueInv
  /\ \A m \in Messages : IsFiniteSet(Holders(m)) /\ refs[m] = Cardinality(Holders(m))
  /\ \A p \in Producers : /\ at[p] = "idle" => message[p] = NoMessage
                          /\ message[p] \in received \cup {NoMessage} /\ Known(item[p])
  /\ \A q \in Queues : Known(pack[q]) /\ \A j \in 0 .. Capacity - 1 : Known(items[q][j])

LEMMA HoldersInvInit == Init => HoldersInv
<1> SUFFICES ASSUME Init PROVE HoldersInv
  OBVIOUS
<1>1. QueueInv
  BY QueueInvInit
<1>2. ASSUME NEW m \in Messages PROVE Holders(m) = {}
  <2>1. m # NoMessage
    BY MetadataQueueAssumption DEF MetadataQueueAssumption
  <2>2. Requests(m) = {} /\ Senders(m) = {} /\ Takers(m) = {}
    BY <2>1 DEF Init, Requests, Senders, Takers, NoItem
  <2>3. Slots(m) = {}
    BY DEF Init, Slots, Occupied
  <2> QED BY <2>2, <2>3 DEF Holders
<1>3. \A m \in Messages : refs[m] = 0
  BY DEF Init
<1> QED
  BY <1>1, <1>2, <1>3, FS_EmptySet DEF Init, HoldersInv, Known, NoItem, Queues

\* A message that has not been received is held by nobody.
LEMMA NotReceived ==
  ASSUME HoldersInv, NEW m \in Messages, m \notin received
  PROVE  Holders(m) = {} /\ refs[m] = 0
<1>1. m # NoMessage
  BY MetadataQueueAssumption DEF MetadataQueueAssumption
<1>2. Requests(m) = {} /\ Senders(m) = {} /\ Takers(m) = {} /\ Slots(m) = {}
  BY <1>1 DEF HoldersInv, Known, Requests, Senders, Takers, Slots
<1>3. Holders(m) = {}
  BY <1>2 DEF Holders
<1> QED BY <1>3, FS_EmptySet DEF HoldersInv

\* Where a counter goes up or down, and the others stay.
LEMMA CountsMove ==
  ASSUME TypeOK, NEW x \in Messages \cup {NoMessage}, NEW m \in Messages
  PROVE  /\ Retained(x)[m] = IF x = m THEN refs[m] + 1 ELSE refs[m]
         /\ Freed(x)[m] = IF x = m THEN refs[m] - 1 ELSE refs[m]
BY MetadataQueueAssumption DEF MetadataQueueAssumption, TypeOK, Retained, Freed

\* One step counts right when it moves at most one holder of each kind, and the counter
\* with them.
LEMMA HoldersStep ==
  ASSUME HoldersInv, NEW m \in Messages, NEW p, NEW s, NEW q,
         \/ /\ Requests(m)' = Requests(m) /\ Senders(m)' = Senders(m)
            /\ Slots(m)' = Slots(m) /\ Takers(m)' = Takers(m) /\ refs'[m] = refs[m]
         \/ /\ p \notin Requests(m) /\ Requests(m)' = Requests(m) \cup {p}
            /\ Senders(m)' = Senders(m) /\ Slots(m)' = Slots(m) /\ Takers(m)' = Takers(m)
            /\ refs'[m] = refs[m] + 1
         \/ /\ p \in Requests(m) /\ Requests(m)' = Requests(m) \ {p}
            /\ Senders(m)' = Senders(m) /\ Slots(m)' = Slots(m) /\ Takers(m)' = Takers(m)
            /\ refs'[m] = refs[m] - 1
         \/ /\ p \notin Senders(m) /\ Senders(m)' = Senders(m) \cup {p}
            /\ Requests(m)' = Requests(m) /\ Slots(m)' = Slots(m) /\ Takers(m)' = Takers(m)
            /\ refs'[m] = refs[m] + 1
         \/ /\ p \in Senders(m) /\ Senders(m)' = Senders(m) \ {p}
            /\ Requests(m)' = Requests(m) /\ Slots(m)' = Slots(m) /\ Takers(m)' = Takers(m)
            /\ refs'[m] = refs[m] - 1
         \/ /\ p \in Senders(m) /\ Senders(m)' = Senders(m) \ {p}
            /\ s \notin Slots(m) /\ Slots(m)' = Slots(m) \cup {s}
            /\ Requests(m)' = Requests(m) /\ Takers(m)' = Takers(m) /\ refs'[m] = refs[m]
         \/ /\ s \in Slots(m) /\ Slots(m)' = Slots(m) \ {s}
            /\ q \notin Takers(m) /\ Takers(m)' = Takers(m) \cup {q}
            /\ Requests(m)' = Requests(m) /\ Senders(m)' = Senders(m) /\ refs'[m] = refs[m]
         \/ /\ q \in Takers(m) /\ Takers(m)' = Takers(m) \ {q}
            /\ Requests(m)' = Requests(m) /\ Senders(m)' = Senders(m)
            /\ Slots(m)' = Slots(m) /\ refs'[m] = refs[m] - 1
  PROVE  Counts(Holders(m)', refs'[m])
<1> DEFINE A == Requests(m)
           B == Senders(m)
           C == Slots(m)
           D == Takers(m)
<1>1. Holders(m) = Tagged(A, B, C, D) /\ Holders(m)' = Tagged(A', B', C', D')
  BY DEF Holders, Tagged
<1>2. /\ IsFiniteSet(Tagged(A, B, C, D)) /\ refs[m] = Cardinality(Tagged(A, B, C, D))
      /\ refs[m] \in Int
  BY <1>1 DEF HoldersInv, QueueInv, TypeOK
<1> HIDE DEF A, B, C, D
<1>3. /\ p \notin A => Counts(Tagged(A \cup {p}, B, C, D), refs[m] + 1)
      /\ p \in A => Counts(Tagged(A \ {p}, B, C, D), refs[m] - 1)
  BY <1>2, OneMore, OneLess, Zenon
<1>4. /\ p \notin B => Counts(Tagged(A, B \cup {p}, C, D), refs[m] + 1)
      /\ p \in B => Counts(Tagged(A, B \ {p}, C, D), refs[m] - 1)
  BY <1>2, OneMore, OneLess, Zenon
<1>5. /\ s \notin C => Counts(Tagged(A, B, C \cup {s}, D), refs[m] + 1)
      /\ s \in C => Counts(Tagged(A, B, C \ {s}, D), refs[m] - 1)
      /\ q \in D => Counts(Tagged(A, B, C, D \ {q}), refs[m] - 1)
  BY <1>2, OneMore, OneLess, Zenon
<1>6. ASSUME p \in B, s \notin C
      PROVE  Counts(Tagged(A, B \ {p}, C \cup {s}, D), refs[m])
  <2>1. Counts(Tagged(A, B \ {p}, C, D), refs[m] - 1)
    BY <1>4, <1>6
  <2>2. Counts(Tagged(A, B \ {p}, C \cup {s}, D), (refs[m] - 1) + 1)
    <3>1. IsFiniteSet(Tagged(A, B \ {p}, C, D))
      BY <2>1 DEF Counts
    <3>2. Counts(Tagged(A, B \ {p}, C \cup {s}, D), Cardinality(Tagged(A, B \ {p}, C, D)) + 1)
      BY <1>6, <3>1, OneMore, Zenon
    <3> QED BY <2>1, <3>2, Zenon DEF Counts
  <2>3. (refs[m] - 1) + 1 = refs[m]
    BY <1>2
  <2> QED BY <2>2, <2>3, Zenon
<1>7. ASSUME s \in C, q \notin D
      PROVE  Counts(Tagged(A, B, C \ {s}, D \cup {q}), refs[m])
  <2>1. Counts(Tagged(A, B, C \ {s}, D), refs[m] - 1)
    BY <1>5, <1>7
  <2>2. Counts(Tagged(A, B, C \ {s}, D \cup {q}), (refs[m] - 1) + 1)
    <3>1. IsFiniteSet(Tagged(A, B, C \ {s}, D))
      BY <2>1 DEF Counts
    <3>2. Counts(Tagged(A, B, C \ {s}, D \cup {q}), Cardinality(Tagged(A, B, C \ {s}, D)) + 1)
      BY <1>7, <3>1, OneMore, Zenon
    <3> QED BY <2>1, <3>2, Zenon DEF Counts
  <2>3. (refs[m] - 1) + 1 = refs[m]
    BY <1>2
  <2> QED BY <2>2, <2>3, Zenon
<1>8. Counts(Tagged(A, B, C, D), refs[m])
  BY <1>2 DEF Counts
<1>9. Counts(Tagged(A', B', C', D'), refs'[m])
  BY <1>3, <1>4, <1>5, <1>6, <1>7, <1>8, Zenon DEF A, B, C, D
<1> QED BY <1>1, <1>9, Zenon

\* Taking an item frees the slot at toq, and no other.
LEMMA TakeFreesSlot ==
  ASSUME QueueInv, NEW q \in Queues, pc_queue_get_item(q)
  PROVE  /\ toq[q] \in Occupied(q) /\ Occupied(q)' = Occupied(q) \ {toq[q]}
         /\ \A r \in Queues \ {q} : Occupied(r)' = Occupied(r)
<1> USE MetadataQueueAssumption DEF MetadataQueueAssumption
<1>1. /\ count[q] \in 1 .. Capacity /\ toq[q] \in 0 .. Capacity - 1
      /\ toq'[q] = Fold(toq[q], Capacity) /\ count'[q] = count[q] - 1
  BY DEF QueueInv, TypeOK, pc_queue_get_item
<1>2. /\ Place(q, 1) = toq[q] /\ \A i \in 2 .. count[q] : Place(q, i) # toq[q]
      /\ \A i \in 1 .. count[q] - 1 : Place(q, i)' = Place(q, i + 1)
  BY <1>1 DEF Place, Fold
<1>3. Occupied(q)' = {Place(q, i)' : i \in 1 .. count'[q]}
  BY DEF Occupied
<1>4. Occupied(q)' = {Place(q, i + 1) : i \in 1 .. count[q] - 1}
  BY <1>1, <1>2, <1>3
<1>5. {Place(q, i + 1) : i \in 1 .. count[q] - 1} = {Place(q, i) : i \in 2 .. count[q]}
  <2>1. \A i \in 1 .. count[q] - 1 : i + 1 \in 2 .. count[q]
    BY <1>1
  <2>2. \A i \in 2 .. count[q] : i - 1 \in 1 .. count[q] - 1 /\ (i - 1) + 1 = i
    BY <1>1
  <2> QED BY <2>1, <2>2
<1>6. {Place(q, i) : i \in 2 .. count[q]} = Occupied(q) \ {toq[q]}
  BY <1>1, <1>2 DEF Occupied
<1>7. \A r \in Queues \ {q} : /\ count'[r] = count[r] /\ toq'[r] = toq[r]
  BY DEF QueueInv, TypeOK, pc_queue_get_item
<1>8. \A r \in Queues \ {q} : Occupied(r)' = Occupied(r)
  BY <1>7 DEF Occupied, Place
<1>9. toq[q] \in Occupied(q)
  <2>1. 1 \in 1 .. count[q]
    BY <1>1
  <2> QED BY <1>2, <2>1, Zenon DEF Occupied
<1> QED BY <1>4, <1>5, <1>6, <1>8, <1>9, Zenon

\* Adding an item fills the slot at eoq, which was free, and no other.
LEMMA AddFillsSlot ==
  ASSUME QueueInv, NEW p \in Producers, pc_queue_add_item(p),
         NEW q \in Queues, q = target[p]
  PROVE  /\ eoq[q] \in 0 .. Capacity - 1
         /\ eoq[q] \notin Occupied(q) /\ Occupied(q)' = Occupied(q) \cup {eoq[q]}
         /\ \A r \in Queues \ {q} : Occupied(r)' = Occupied(r)
<1> USE MetadataQueueAssumption DEF MetadataQueueAssumption
<1>1. consumer[q] \notin {"start", "init"}
  BY DEF QueueInv, QueueDiscipline, pc_queue_add_item, Ready
<1>2. /\ capacity[q] = Capacity /\ count[q] \in 0 .. Capacity - 1
      /\ toq[q] \in 0 .. Capacity - 1 /\ eoq[q] \in 0 .. Capacity - 1
  BY <1>1 DEF QueueInv, TypeOK, pc_queue_add_item, HasRoom
<1>3. /\ count' = [count EXCEPT ![q] = @ + 1] /\ toq' = toq
  BY DEF pc_queue_add_item
<1>4. eoq[q] \in {toq[q] + count[q], toq[q] + count[q] - Capacity}
  BY <1>1 DEF QueueInv, QueueDiscipline, PositionsAgree
<1>5. Place(q, count[q] + 1) = eoq[q] /\ \A i \in 1 .. count[q] : Place(q, i) # eoq[q]
  BY <1>2, <1>4 DEF Place
<1>6. count'[q] = count[q] + 1 /\ \A r \in Queues, i \in Int : Place(r, i)' = Place(r, i)
  BY <1>3 DEF Place, QueueInv, TypeOK
<1>7. Occupied(q)' = {Place(q, i) : i \in 1 .. count[q] + 1}
  <2>1. Occupied(q)' = {Place(q, i)' : i \in 1 .. count'[q]}
    BY DEF Occupied
  <2> QED BY <1>2, <1>6, <2>1
<1>8. {Place(q, i) : i \in 1 .. count[q] + 1} = Occupied(q) \cup {eoq[q]}
  <2>1. \A i \in 1 .. count[q] + 1 : i \in 1 .. count[q] \/ i = count[q] + 1
    BY <1>2
  <2>2. 1 .. count[q] \subseteq 1 .. count[q] + 1 /\ count[q] + 1 \in 1 .. count[q] + 1
    BY <1>2
  <2> QED BY <1>5, <2>1, <2>2 DEF Occupied
<1>9. \A r \in Queues \ {q} : /\ count'[r] = count[r] /\ toq'[r] = toq[r]
  BY <1>3 DEF QueueInv, TypeOK
<1>10. \A r \in Queues \ {q} : Occupied(r)' = Occupied(r)
  BY <1>9 DEF Occupied, Place
<1> QED BY <1>2, <1>5, <1>7, <1>8, <1>10 DEF Occupied

\* A thread that goes on in send_metadata is sending nothing that it holds yet.
LEMMA AdvanceSenders ==
  ASSUME HoldersInv, NEW p \in Producers, Advance(p), at[p] \in {"add", "refused"}
  PROVE  /\ \A m \in Messages : /\ Senders(m)' = Senders(m) \ {p}
                                /\ p \in Senders(m) <=> item[p].carrier = m
         /\ item' = item /\ \A r \in Producers : at'[r] = "idle" => at[r] = "idle"
<1>0. TypeOK /\ \A m \in Messages : m # NoMessage
  BY MetadataQueueAssumption DEF HoldersInv, QueueInv, MetadataQueueAssumption
<1>1. item' = item /\ \E l \in {"handling", "add", "retain"} :
                        /\ at' = [at EXCEPT ![p] = l]
                        /\ l = "add" => item[p].carrier = NoMessage
  <2>1. CASE target[p] = NumQueues
    BY <2>1 DEF Advance
  <2>2. CASE target[p] # NumQueues
    BY <1>0, <2>2 DEF Advance, SendTo, TypeOK
  <2> QED BY <2>1, <2>2
<1> QED BY <1>0, <1>1 DEF Senders, TypeOK

\* What a queue's thread or a producer has in hand is carried by a message or by none.
LEMMA CarriersType ==
  ASSUME TypeOK
  PROVE  /\ \A q \in Queues : pack[q].carrier \in Messages \cup {NoMessage}
         /\ \A p \in Producers : item[p].carrier \in Messages \cup {NoMessage}
<1>1. \A x \in Items \cup {NoItem} : x.carrier \in Messages \cup {NoMessage}
  BY DEF Items, NoItem
<1>2. /\ \A q \in Queues : pack[q] \in Items \cup {NoItem}
      /\ \A p \in Producers : item[p] \in Items \cup {NoItem}
  BY Zenon DEF TypeOK
<1> QED BY <1>1, <1>2, Zenon

\* Every retain and every free of rtsp.c goes with one holder more or less.
LEMMA HoldersInvStep ==
  ASSUME ~EarlySends, HoldersInv, [Next]_vars
  PROVE  HoldersInv'
<1> DEFINE Others == /\ \A p \in Producers :
                          /\ at[p] = "idle" => message[p] = NoMessage
                          /\ message[p] \in received \cup {NoMessage} /\ Known(item[p])
                     /\ \A q \in Queues : /\ Known(pack[q])
                                          /\ \A j \in 0 .. Capacity - 1 : Known(items[q][j])
           Exact == \A m \in Messages : Counts(Holders(m), refs[m])
<1> USE MetadataQueueAssumption
    DEF MetadataQueueAssumption, queues, takers, sending, counters
<1>1. QueueInv /\ QueueInv' /\ TypeOK /\ TypeOK' /\ \A m \in Messages : m # NoMessage
  BY QueueInvStep DEF HoldersInv, QueueInv
<1>2. Others
  BY DEF HoldersInv
<1>3. ASSUME UNCHANGED <<count, toq, items>>, NEW m PROVE Slots(m)' = Slots(m)
  BY <1>3 DEF Slots, Occupied, Place
<1>4. ASSUME UNCHANGED vars PROVE Others' /\ Exact'
  BY <1>4 DEF vars, HoldersInv, Holders, Requests, Senders, Slots, Takers, Occupied, Place,
              Known, Counts
<1>5. ASSUME NEW q \in Queues, InitSize(q) \/ InitPositions(q) PROVE Others' /\ Exact'
  <2>1. Others'
    BY <1>2, <1>5 DEF InitSize, InitPositions, Known
  <2>2. count[q] = 0 /\ count'[q] = 0
    BY <1>1, <1>5 DEF QueueInv, QueueDiscipline, InitSize, InitPositions, TypeOK
  <2>3. Occupied(q) = {} /\ Occupied(q)' = {}
    BY <2>2 DEF Occupied
  <2>4. \A r \in Queues \ {q} : count'[r] = count[r] /\ toq'[r] = toq[r]
    BY <1>1, <1>5 DEF InitSize, InitPositions, TypeOK
  <2>5. \A r \in Queues : Occupied(r)' = Occupied(r)
    BY <2>3, <2>4 DEF Occupied, Place
  <2>6. ASSUME NEW m \in Messages PROVE Counts(Holders(m)', refs'[m])
    <3>1. Slots(m)' = Slots(m)
      BY <1>5, <2>5 DEF Slots, InitSize, InitPositions
    <3>2. /\ Requests(m)' = Requests(m) /\ Senders(m)' = Senders(m)
          /\ Takers(m)' = Takers(m) /\ refs'[m] = refs[m]
      BY <1>5 DEF Requests, Senders, Takers, InitSize, InitPositions
    <3> QED BY <3>1, <3>2, HoldersStep
  <2> QED BY <2>1, <2>6
<1>6. ASSUME NEW q \in Queues, Sleep(q) PROVE Others' /\ Exact'
  <2>1. Others'
    BY <1>2, <1>6 DEF Sleep, Known
  <2>2. ASSUME NEW m \in Messages PROVE Counts(Holders(m)', refs'[m])
    <3>1. /\ Requests(m)' = Requests(m) /\ Senders(m)' = Senders(m)
          /\ Slots(m)' = Slots(m) /\ Takers(m)' = Takers(m) /\ refs'[m] = refs[m]
      BY <1>3, <1>6 DEF Sleep, Requests, Senders, Takers
    <3> QED BY <3>1, HoldersStep
  <2> QED BY <2>1, <2>2
<1>7. ASSUME NEW q \in Queues, pc_queue_get_item(q) PROVE Others' /\ Exact'
  <2>1. /\ toq[q] \in 0 .. Capacity - 1 /\ pack' = [pack EXCEPT ![q] = items[q][toq[q]]]
        /\ pack[q] = NoItem /\ UNCHANGED <<items, at, sending, counters>>
    BY <1>1, <1>7 DEF QueueInv, QueueDiscipline, TypeOK, pc_queue_get_item
  <2>2. Others'
    BY <1>1, <1>2, <2>1 DEF Known, TypeOK
  <2>3. ASSUME NEW m \in Messages PROVE Counts(Holders(m)', refs'[m])
    <3>1. Requests(m)' = Requests(m) /\ Senders(m)' = Senders(m) /\ refs'[m] = refs[m]
      BY <2>1 DEF Requests, Senders
    <3>2. q \notin Takers(m)
      BY <1>1, <2>1 DEF Takers, NoItem
    <3>3. CASE items[q][toq[q]].carrier = m
      <4>1. /\ <<q, toq[q]>> \in Slots(m) /\ Slots(m)' = Slots(m) \ {<<q, toq[q]>>}
        BY <1>7, <2>1, <3>3, TakeFreesSlot, <1>1 DEF Slots
      <4>2. Takers(m)' = Takers(m) \cup {q}
        BY <1>1, <2>1, <3>3 DEF Takers, TypeOK
      <4> QED BY <3>1, <3>2, <4>1, <4>2, HoldersStep
    <3>4. CASE items[q][toq[q]].carrier # m
      <4>1. Slots(m)' = Slots(m)
        BY <1>7, <2>1, <3>4, TakeFreesSlot, <1>1 DEF Slots
      <4>2. Takers(m)' = Takers(m)
        BY <1>1, <2>1, <3>4, <3>2 DEF Takers, TypeOK
      <4> QED BY <3>1, <4>1, <4>2, HoldersStep
    <3> QED BY <3>3, <3>4
  <2> QED BY <2>2, <2>3
<1>8. ASSUME NEW q \in Queues, Process(q) PROVE Others' /\ Exact'
  <2>1. Others'
    BY <1>1, <1>2, <1>8 DEF Process, Known, NoItem, TypeOK
  <2>2. ASSUME NEW m \in Messages PROVE Counts(Holders(m)', refs'[m])
    <3>1. /\ Requests(m)' = Requests(m) /\ Senders(m)' = Senders(m) /\ Slots(m)' = Slots(m)
      BY <1>3, <1>8 DEF Process, Requests, Senders
    <3>2. Takers(m)' = Takers(m) \ {q} /\ (q \in Takers(m) <=> pack[q].carrier = m)
      BY <1>1, <1>8 DEF Process, Takers, TypeOK, NoItem
    <3>3. pack[q].carrier \in Messages \cup {NoMessage}
      BY <1>1, CarriersType, Zenon
    <3>4. refs'[m] = IF pack[q].carrier = m THEN refs[m] - 1 ELSE refs[m]
      BY <1>1, <1>8, <3>3, CountsMove DEF Process
    <3> QED BY <3>1, <3>2, <3>4, HoldersStep
  <2> QED BY <2>1, <2>2
<1>9. ASSUME NEW p \in Producers, NEW x \in Messages, Receive(p, x) PROVE Others' /\ Exact'
  <2>1. /\ message' = [message EXCEPT ![p] = x] /\ refs' = [refs EXCEPT ![x] = 1]
        /\ at' = [at EXCEPT ![p] = "handling"] /\ at[p] = "idle" /\ x \notin received
        /\ received' = received \cup {x} /\ UNCHANGED <<queues, takers, item>>
    BY <1>9 DEF Receive
  <2>2. Others'
    <3>1. \A r \in Producers : /\ at'[r] = "idle" => r # p /\ at[r] = "idle"
                               /\ message'[r] = IF r = p THEN x ELSE message[r]
      BY <1>1, <2>1 DEF TypeOK
    <3>2. items' = items /\ pack' = pack /\ item' = item
      BY <2>1, Zenon
    <3>3. received \subseteq received' /\ x \in received'
      BY <2>1, Zenon
    <3> QED BY <1>2, <3>1, <3>2, <3>3, Zenon DEF Known
  <2>3. ASSUME NEW m \in Messages PROVE Counts(Holders(m)', refs'[m])
    <3>1. Senders(m)' = Senders(m) /\ Takers(m)' = Takers(m) /\ Slots(m)' = Slots(m)
      BY <1>1, <1>3, <2>1 DEF Senders, Takers, TypeOK
    <3>2. p \notin Requests(m)
      BY <1>1, <1>2, <2>1 DEF Requests
    <3>3. CASE m = x
      <4>1. Requests(m)' = Requests(m) \cup {p}
        BY <1>1, <2>1, <3>3 DEF Requests, TypeOK
      <4>2. refs[m] = 0 /\ refs'[m] = refs[m] + 1
        BY <1>1, <2>1, <3>3, NotReceived DEF TypeOK
      <4> QED BY <3>1, <3>2, <4>1, <4>2, HoldersStep
    <3>4. CASE m # x
      <4>1. Requests(m)' = Requests(m) /\ refs'[m] = refs[m]
        BY <1>1, <2>1, <3>2, <3>4 DEF Requests, TypeOK
      <4> QED BY <3>1, <4>1, HoldersStep
    <3> QED BY <3>3, <3>4
  <2> QED BY <2>2, <2>3
<1>10. ASSUME NEW p \in Producers, NEW x \in Messages \cup {NoMessage}, send_metadata(p, x)
       PROVE  Others' /\ Exact'
  <2>1. /\ item' = [item EXCEPT ![p] = item'[p]] /\ item'[p].carrier = x
        /\ at[p] = "handling" /\ x \in received \cup {NoMessage}
        /\ at' = [at EXCEPT ![p] = at'[p]] /\ at'[p] \in {"add", "retain"}
        /\ at'[p] = "add" => x = NoMessage
    BY <1>1, <1>2, <1>10 DEF send_metadata, SendTo, TypeOK
  <2>2. UNCHANGED <<queues, takers, message, counters>>
    BY <1>10 DEF send_metadata
  <2>3. Others'
    <3>1. \A r \in Producers : /\ at'[r] = "idle" => at[r] = "idle"
                               /\ item'[r] = item[r] \/ item'[r].carrier = x
      BY <1>1, <2>1 DEF TypeOK
    <3>2. items' = items /\ pack' = pack /\ message' = message /\ received' = received
      BY <2>2, Zenon
    <3> QED BY <1>2, <2>1, <3>1, <3>2, Zenon DEF Known
  <2>4. ASSUME NEW m \in Messages PROVE Counts(Holders(m)', refs'[m])
    <3>1. /\ Requests(m)' = Requests(m) /\ Slots(m)' = Slots(m) /\ Takers(m)' = Takers(m)
          /\ refs'[m] = refs[m]
      BY <1>3, <2>2 DEF Requests, Takers
    <3>2. Senders(m)' = Senders(m)
      BY <1>1, <2>1 DEF Senders, TypeOK
    <3> QED BY <3>1, <3>2, HoldersStep
  <2> QED BY <2>3, <2>4
<1>11. ASSUME NEW p \in Producers, msg_retain(p) PROVE Others' /\ Exact'
  <2>1. Others'
    BY <1>1, <1>2, <1>11 DEF msg_retain, Known, TypeOK
  <2>2. ASSUME NEW m \in Messages PROVE Counts(Holders(m)', refs'[m])
    <3>1. /\ Requests(m)' = Requests(m) /\ Slots(m)' = Slots(m) /\ Takers(m)' = Takers(m)
      BY <1>3, <1>11 DEF msg_retain, Requests, Takers
    <3>2. /\ p \notin Senders(m)
          /\ Senders(m)' = IF item[p].carrier = m THEN Senders(m) \cup {p} ELSE Senders(m)
      BY <1>1, <1>11 DEF msg_retain, Senders, TypeOK
    <3>3. item[p].carrier \in Messages \cup {NoMessage}
      BY <1>1, CarriersType, Zenon
    <3>4. refs'[m] = IF item[p].carrier = m THEN refs[m] + 1 ELSE refs[m]
      BY <1>1, <1>11, <3>3, CountsMove DEF msg_retain
    <3> QED BY <3>1, <3>2, <3>4, HoldersStep
  <2> QED BY <2>1, <2>2
<1>12. ASSUME NEW p \in Producers, pc_queue_add_item(p) PROVE Others' /\ Exact'
  <2>1. PICK q \in Queues : q = target[p]
    BY <1>1 DEF TypeOK
  <2>2. /\ eoq[q] \in 0 .. Capacity - 1
        /\ items' = [items EXCEPT ![q] = [@ EXCEPT ![eoq[q]] = item[p]]]
        /\ at[p] = "add" /\ Advance(p) /\ UNCHANGED <<pack, message, counters>>
    BY <1>1, <1>12, <2>1, AddFillsSlot DEF pc_queue_add_item
  <2>3. item' = item /\ \A r \in Producers : at'[r] = "idle" => at[r] = "idle"
    BY <2>2, AdvanceSenders
  <2>4. \A r \in Queues, j \in 0 .. Capacity - 1 :
          items'[r][j] = IF r = q /\ j = eoq[q] THEN item[p] ELSE items[r][j]
    BY <1>1, <2>2 DEF TypeOK
  <2>5. Others'
    <3>1. \A r \in Queues, j \in 0 .. Capacity - 1 : Known(items[r][j])'
      BY <1>2, <2>2, <2>4 DEF Known
    <3> QED BY <1>2, <2>2, <2>3, <3>1 DEF Known
  <2>6. ASSUME NEW m \in Messages PROVE Counts(Holders(m)', refs'[m])
    <3>1. Requests(m)' = Requests(m) /\ Takers(m)' = Takers(m) /\ refs'[m] = refs[m]
      BY <2>2 DEF Requests, Takers
    <3>2. Senders(m)' = Senders(m) \ {p} /\ (p \in Senders(m) <=> item[p].carrier = m)
      BY <2>2, AdvanceSenders
    <3>3. /\ eoq[q] \notin Occupied(q) /\ Occupied(q)' = Occupied(q) \cup {eoq[q]}
          /\ \A r \in Queues \ {q} : Occupied(r)' = Occupied(r)
      BY <1>1, <1>12, <2>1, AddFillsSlot
    <3>4. <<q, eoq[q]>> \notin Slots(m)
      BY <3>3 DEF Slots
    <3>5. CASE item[p].carrier = m
      <4>1. Slots(m)' = Slots(m) \cup {<<q, eoq[q]>>}
        BY <2>2, <2>4, <3>3, <3>5 DEF Slots
      <4> QED BY <3>1, <3>2, <3>4, <3>5, <4>1, HoldersStep
    <3>6. CASE item[p].carrier # m
      <4>1. Slots(m)' = Slots(m)
        BY <2>2, <2>4, <3>3, <3>6 DEF Slots
      <4>2. Senders(m)' = Senders(m)
        BY <3>2, <3>6
      <4> QED BY <3>1, <4>1, <4>2, HoldersStep
    <3> QED BY <3>5, <3>6
  <2> QED BY <2>5, <2>6
<1>13. ASSUME NEW p \in Producers, Refuse(p) PROVE Others' /\ Exact'
  <2>1. Others'
    BY <1>1, <1>2, <1>13 DEF Refuse, Known, TypeOK
  <2>2. ASSUME NEW m \in Messages PROVE Counts(Holders(m)', refs'[m])
    <3>1. /\ Requests(m)' = Requests(m) /\ Senders(m)' = Senders(m)
          /\ Slots(m)' = Slots(m) /\ Takers(m)' = Takers(m) /\ refs'[m] = refs[m]
      BY <1>1, <1>3, <1>13 DEF Refuse, Requests, Senders, Takers, TypeOK
    <3> QED BY <3>1, HoldersStep
  <2> QED BY <2>1, <2>2
<1>14. ASSUME NEW p \in Producers, Drop(p) PROVE Others' /\ Exact'
  <2>1. /\ at[p] = "refused" /\ Advance(p) /\ refs' = Freed(item[p].carrier)
        /\ UNCHANGED <<queues, takers, message, received>>
    BY <1>14 DEF Drop
  <2>2. item' = item /\ \A r \in Producers : at'[r] = "idle" => at[r] = "idle"
    BY <2>1, AdvanceSenders
  <2>3. Others'
    BY <1>2, <2>1, <2>2 DEF Known
  <2>4. ASSUME NEW m \in Messages PROVE Counts(Holders(m)', refs'[m])
    <3>1. /\ Requests(m)' = Requests(m) /\ Slots(m)' = Slots(m) /\ Takers(m)' = Takers(m)
      BY <1>3, <2>1 DEF Requests, Takers
    <3>2. Senders(m)' = Senders(m) \ {p} /\ (p \in Senders(m) <=> item[p].carrier = m)
      BY <2>1, AdvanceSenders
    <3>3. item[p].carrier \in Messages \cup {NoMessage}
      BY <1>1, CarriersType, Zenon
    <3>4. refs'[m] = IF item[p].carrier = m THEN refs[m] - 1 ELSE refs[m]
      BY <1>1, <2>1, <3>3, CountsMove
    <3> QED BY <3>1, <3>2, <3>4, HoldersStep
  <2> QED BY <2>3, <2>4
<1>15. ASSUME NEW p \in Producers, msg_free(p) PROVE Others' /\ Exact'
  <2>1. Others'
    BY <1>1, <1>2, <1>15 DEF msg_free, Known, TypeOK
  <2>2. ASSUME NEW m \in Messages PROVE Counts(Holders(m)', refs'[m])
    <3>1. /\ Senders(m)' = Senders(m) /\ Slots(m)' = Slots(m) /\ Takers(m)' = Takers(m)
      BY <1>1, <1>3, <1>15 DEF msg_free, Senders, Takers, TypeOK
    <3>2. Requests(m)' = Requests(m) \ {p} /\ (p \in Requests(m) <=> message[p] = m)
      BY <1>1, <1>15 DEF msg_free, Requests, TypeOK
    <3>3. refs'[m] = IF message[p] = m THEN refs[m] - 1 ELSE refs[m]
      BY <1>1, <1>15, CountsMove DEF msg_free, TypeOK
    <3> QED BY <3>1, <3>2, <3>3, HoldersStep
  <2> QED BY <2>1, <2>2
<1>16. Others' /\ Exact'
  <2> HIDE DEF Others, Exact
  <2> QED
    BY <1>4, <1>5, <1>6, <1>7, <1>8, <1>9, <1>10, <1>11, <1>12, <1>13, <1>14, <1>15
       DEF Next, Consumer, Sending
<1> QED BY <1>1, <1>16 DEF HoldersInv, Counts

\* A message is kept as long as somebody refers to it, and is given back by the last who
\* lets it go: its reference count is the number of those who hold it, for any number of
\* queues, threads and messages.
THEOREM CountsAreExact == ~EarlySends => (Spec => []RefsExact)
<1> SUFFICES ASSUME ~EarlySends PROVE Spec => []RefsExact
  OBVIOUS
<1>1. HoldersInv /\ [Next]_vars => HoldersInv'
  BY HoldersInvStep
<1>2. HoldersInv => RefsExact
  BY DEF HoldersInv, RefsExact
<1> QED BY HoldersInvInit, <1>1, <1>2, PTL DEF Spec
=============================================================================
