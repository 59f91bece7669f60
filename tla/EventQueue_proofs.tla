-------------------------- MODULE EventQueue_proofs --------------------------
(***************************************************************************)
(* EventQueue implements EventChannel, for any number of elements, any     *)
(* number of threads that add and any set of events.                       *)
(*                                                                         *)
(* The argument: an index is in one place only, the free queue, the hands  *)
(* of a thread that adds, the ready queue or the hands of the reader, so   *)
(* that nobody writes an element that another one has.                     *)
(***************************************************************************)
EXTENDS EventQueue, QueueLemmas, FiniteSetTheorems

\* Each index is in one place.
IndicesApart ==
    /\ Distinct(free_queue) /\ Distinct(ready_queue)
    /\ \A i \in 1 .. Len(free_queue) : ~IsIn(free_queue[i], ready_queue)
    /\ \A x \in Adders : adding[x].busy =>
          /\ ~IsIn(adding[x].idx, free_queue) /\ ~IsIn(adding[x].idx, ready_queue)
          /\ reading.busy => reading.idx # adding[x].idx
          /\ \A y \in Adders : adding[y].busy /\ adding[y].idx = adding[x].idx => y = x
    /\ reading.busy => ~IsIn(reading.idx, free_queue) /\ ~IsIn(reading.idx, ready_queue)

\* No index is lost: those that are not free are in the queue or in somebody's hands.
InUse(idx) ==
    \/ IsIn(idx, ready_queue)
    \/ reading.busy /\ reading.idx = idx
    \/ \E x \in Adders : adding[x].busy /\ adding[x].idx = idx
IndicesPlaced == \A idx \in Elems : IsIn(idx, free_queue) \/ InUse(idx)

\* The elements that are in the queue or in somebody's hands hold events.
EventsThere ==
    /\ \A x \in Adders : adding[x].busy => adding[x].event \in Events
    /\ \A i \in 1 .. Len(ready_queue) : event_list[ready_queue[i]] \in Events
    /\ reading.busy => EventRead \in Events

QueueInv == QueueTypeOK /\ IndicesApart /\ IndicesPlaced /\ EventsThere

-----------------------------------------------------------------------------
\* While a thread has an index, the ready queue is not full.
LEMMA ReadyNotFull ==
  ASSUME QueueAssumption, QueueInv, NEW x \in Adders, adding[x].busy
  PROVE  Len(ready_queue) < NumElems
<1> DEFINE Others == Elems \ {adding[x].idx}
<1>1. ready_queue \in Seq(Elems) /\ Len(ready_queue) \in Nat /\ adding[x].idx \in Elems
      /\ \A i \in 1 .. Len(ready_queue) : ready_queue[i] \in Others
      /\ ready_queue \in [1 .. Len(ready_queue) -> Elems]
  BY LenProperties DEF QueueInv, QueueTypeOK, IndicesApart, IsIn
<1>2. ready_queue \in [1 .. Len(ready_queue) -> Others]
  BY <1>1
<1>3. ready_queue \in Injection(1 .. Len(ready_queue), Others)
  BY <1>2 DEF QueueInv, IndicesApart, Distinct, Injection, IsInjective
<1>4. IsFiniteSet(Elems) /\ Cardinality(Elems) = NumElems
  BY FS_Interval DEF QueueAssumption, Elems
<1>5. IsFiniteSet(Others) /\ Cardinality(Others) = NumElems - 1
  BY <1>1, <1>4, FS_RemoveElement
<1>6. Cardinality(1 .. Len(ready_queue)) = Len(ready_queue)
  <2>1. Len(ready_queue) \in Nat
    BY <1>1
  <2> DEFINE L == Len(ready_queue)
  <2>2. Cardinality(1 .. L) = IF 1 > L THEN 0 ELSE L - 1 + 1
    BY <2>1, FS_Interval
  <2> QED BY <2>1, <2>2
<1>7. Cardinality(1 .. Len(ready_queue)) <= Cardinality(Others)
  BY <1>3, <1>5, FS_Injection
<1>8. Len(ready_queue) <= NumElems - 1
  BY <1>5, <1>6, <1>7
<1> QED BY <1>1, <1>8 DEF QueueAssumption

-----------------------------------------------------------------------------
\* The invariant.

LEMMA QueueInitInv == ASSUME QueueAssumption, QueueInit PROVE QueueInv
<1> USE DEF QueueInit
<1>1. free_queue \in Seq(Elems) /\ Len(free_queue) = NumElems
      /\ \A i \in 1 .. NumElems : free_queue[i] = i - 1
  <2>1. NumElems \in Nat /\ \A i \in 1 .. NumElems : i - 1 \in Elems
    BY DEF QueueAssumption, Elems
  <2>2. free_queue \in [1 .. NumElems -> Elems]
    BY <2>1
  <2> QED BY <2>1, <2>2, SeqDef, LenProperties
<1>2. QueueTypeOK
  <2>1. 0 \in Elems /\ ready_queue \in Seq(Elems)
    BY EmptySeq DEF QueueAssumption, Elems
  <2> QED BY <1>1, <2>1 DEF QueueTypeOK, NotAdding, NotReading
<1>3. IndicesApart
  <2>1. Len(ready_queue) = 0
    BY EmptySeq
  <2> QED BY <1>1, <2>1 DEF IndicesApart, IsIn, Distinct, NotAdding, NotReading, QueueAssumption
<1>4. EventsThere
  <2>1. Len(ready_queue) = 0
    BY EmptySeq
  <2> QED BY <2>1 DEF EventsThere, NotAdding, NotReading
<1>5. IndicesPlaced
  <2>1. \A idx \in Elems : idx + 1 \in 1 .. NumElems /\ (idx + 1) - 1 = idx
    BY DEF QueueAssumption, Elems
  <2> QED BY <1>1, <2>1 DEF IndicesPlaced, IsIn
<1> QED BY <1>2, <1>3, <1>4, <1>5 DEF QueueInv

LEMMA QueueNextInv ==
  ASSUME QueueAssumption, QueueInv, [QueueNext]_queue_vars
  PROVE  QueueInv'
<1> USE DEF QueueInv
<1>0. /\ free_queue \in Seq(Elems) /\ ready_queue \in Seq(Elems)
      /\ Distinct(free_queue) /\ Distinct(ready_queue)
      /\ Len(free_queue) \in Nat /\ Len(ready_queue) \in Nat
  BY LenProperties DEF QueueTypeOK, IndicesApart
<1>1. ASSUME NEW x \in Adders, NEW event \in Events, GetIndex(x, event) PROVE QueueInv'
  <2> DEFINE idx == Head(free_queue)
  <2>1. /\ idx \in Elems /\ free_queue' \in Seq(Elems) /\ Distinct(free_queue')
        /\ \A a : IsIn(a, free_queue') <=> IsIn(a, free_queue) /\ a # idx
        /\ IsIn(idx, free_queue) /\ ~IsIn(idx, ready_queue)
    <3>1. free_queue # <<>> /\ free_queue' = Tail(free_queue)
      BY <1>1 DEF GetIndex, QueueFull
    <3>2. /\ idx \in Elems /\ free_queue' \in Seq(Elems) /\ Distinct(free_queue')
          /\ \A a : IsIn(a, free_queue') <=> IsIn(a, free_queue) /\ a # idx
          /\ 1 \in 1 .. Len(free_queue) /\ idx = free_queue[1]
      BY <1>0, <3>1, TailIsIn
    <3> QED BY <3>2 DEF IsIn, IndicesApart
  <2>2. adding' = [adding EXCEPT ![x] = [busy |-> TRUE, idx |-> idx, event |-> event]]
        /\ ready_queue' = ready_queue /\ event_list' = event_list /\ reading' = reading
    BY <1>1 DEF GetIndex
  <2>3. QueueTypeOK'
    BY <2>1, <2>2 DEF QueueTypeOK
  <2>4. IndicesApart'
    <3>1. ASSUME NEW i \in 1 .. Len(free_queue') PROVE ~IsIn(free_queue'[i], ready_queue)
      <4>1. IsIn(free_queue'[i], free_queue)
        BY <2>1 DEF IsIn
      <4>2. PICK j \in 1 .. Len(free_queue) : free_queue[j] = free_queue'[i]
        BY <4>1 DEF IsIn
      <4>3. ~IsIn(free_queue[j], ready_queue)
        BY DEF IndicesApart
      <4> QED BY <4>2, <4>3
    <3>2. ASSUME NEW y \in Adders, adding'[y].busy, y # x
          PROVE  adding'[y] = adding[y] /\ adding[y].idx # idx
      <4>1. adding'[y] = adding[y]
        BY <2>2, <3>2 DEF QueueTypeOK
      <4> QED BY <2>1, <3>2, <4>1 DEF IndicesApart
    <3>3. adding'[x] = [busy |-> TRUE, idx |-> idx, event |-> event]
      BY <2>2 DEF QueueTypeOK
    <3>4. reading.busy => reading.idx # idx
      BY <2>1 DEF IndicesApart
    <3> QED BY <2>1, <2>2, <3>1, <3>2, <3>3, <3>4 DEF IndicesApart
  <2>5. EventsThere'
    BY <2>2 DEF EventsThere, QueueTypeOK, EventRead
  <2>6. IndicesPlaced'
    <3>1. adding'[x].busy /\ adding'[x].idx = idx /\ \A y \in Adders : y # x => adding'[y] = adding[y]
      BY <2>2 DEF QueueTypeOK
    <3>2. \A i : InUse(i) \/ i = idx => InUse(i)'
      BY <1>1, <2>2, <3>1 DEF InUse, GetIndex
    <3> QED BY <2>1, <3>2 DEF IndicesPlaced
  <2> QED BY <2>3, <2>4, <2>5, <2>6
<1>2. ASSUME NEW x \in Adders, PutEvent(x) PROVE QueueInv'
  <2> DEFINE idx == adding[x].idx
  <2>1. /\ idx \in Elems /\ adding[x].event \in Events
        /\ ~IsIn(idx, free_queue) /\ ~IsIn(idx, ready_queue)
        /\ reading.busy => reading.idx # idx
    BY <1>2 DEF PutEvent, QueueTypeOK, IndicesApart, EventsThere
  <2>2. /\ ready_queue' = Append(ready_queue, idx) /\ ready_queue' \in Seq(Elems)
        /\ Len(ready_queue') = Len(ready_queue) + 1 /\ Distinct(ready_queue')
        /\ \A i \in 1 .. Len(ready_queue) : ready_queue'[i] = ready_queue[i]
        /\ ready_queue'[Len(ready_queue) + 1] = idx
        /\ \A a : IsIn(a, ready_queue') <=> IsIn(a, ready_queue) \/ a = idx
    BY <1>0, <1>2, <2>1, AppendIsIn DEF PutEvent
  <2>3. /\ event_list' = [event_list EXCEPT ![idx] = adding[x].event]
        /\ adding' = [adding EXCEPT ![x] = NotAdding]
        /\ free_queue' = free_queue /\ reading' = reading
    BY <1>2 DEF PutEvent
  <2>4. QueueTypeOK'
    <3>1. 0 \in Elems
      BY DEF QueueAssumption, Elems
    <3> QED BY <2>1, <2>2, <2>3, <3>1 DEF QueueTypeOK, NotAdding
  <2>5. IndicesApart'
    <3>1. ~adding'[x].busy /\ \A y \in Adders : y # x => adding'[y] = adding[y]
      BY <2>3 DEF QueueTypeOK, NotAdding
    <3>2. ASSUME NEW y \in Adders, adding[y].busy, y # x PROVE adding[y].idx # idx
      BY <1>2, <3>2 DEF PutEvent, IndicesApart
    <3>3. \A i \in 1 .. Len(free_queue) : free_queue[i] # idx
      BY <2>1 DEF IsIn
    <3> QED BY <2>1, <2>2, <2>3, <3>1, <3>2, <3>3 DEF IndicesApart
  <2>6. EventsThere'
    <3>1. ASSUME NEW i \in 1 .. Len(ready_queue') PROVE event_list'[ready_queue'[i]] \in Events
      <4>1. CASE i = Len(ready_queue) + 1
        BY <2>1, <2>2, <2>3, <4>1 DEF QueueTypeOK
      <4>2. CASE i \in 1 .. Len(ready_queue)
        <5>1. ready_queue[i] # idx /\ ready_queue[i] \in Elems
          BY <1>0, <2>1, <4>2, ElementOfSeq DEF IsIn
        <5> QED BY <2>2, <2>3, <4>2, <5>1 DEF QueueTypeOK, EventsThere
      <4> QED BY <1>0, <2>2, <4>1, <4>2
    <3>2. \A y \in Adders : adding'[y].busy => adding'[y] = adding[y]
      BY <2>3 DEF QueueTypeOK, NotAdding
    <3>3. reading.busy => event_list'[reading.idx] = event_list[reading.idx]
      BY <2>1, <2>3 DEF QueueTypeOK
    <3> QED BY <2>3, <3>1, <3>2, <3>3 DEF EventsThere, EventRead
  <2>7. IndicesPlaced'
    <3>1. \A y \in Adders : y # x => adding'[y] = adding[y]
      BY <2>3 DEF QueueTypeOK
    <3>2. \A i : InUse(i) => InUse(i)'
      BY <2>2, <2>3, <3>1 DEF InUse
    <3> QED BY <2>3, <3>2 DEF IndicesPlaced
  <2> QED BY <2>4, <2>5, <2>6, <2>7
<1>3. ASSUME TakeIndex PROVE QueueInv'
  <2> DEFINE idx == Head(ready_queue)
  <2>1. /\ idx \in Elems /\ ready_queue' \in Seq(Elems) /\ Distinct(ready_queue')
        /\ \A a : IsIn(a, ready_queue') <=> IsIn(a, ready_queue) /\ a # idx
        /\ \A i \in 1 .. Len(ready_queue') :
              i + 1 \in 1 .. Len(ready_queue) /\ ready_queue'[i] = ready_queue[i + 1]
        /\ 1 \in 1 .. Len(ready_queue) /\ idx = ready_queue[1]
    BY <1>0, <1>3, TailIsIn DEF TakeIndex
  <2>2. IsIn(idx, ready_queue) /\ ~IsIn(idx, free_queue)
    BY <2>1 DEF IndicesApart, IsIn
  <2>3. /\ reading' = [busy |-> TRUE, idx |-> idx] /\ free_queue' = free_queue
        /\ event_list' = event_list /\ adding' = adding
    BY <1>3 DEF TakeIndex, FreeWhileRead
  <2>4. QueueTypeOK'
    BY <2>1, <2>3 DEF QueueTypeOK
  <2>5. IndicesApart'
    BY <2>1, <2>2, <2>3 DEF IndicesApart
  <2>6. EventsThere'
    BY <2>1, <2>3 DEF EventsThere, EventRead
  <2>7. IndicesPlaced'
    <3>1. \A i : InUse(i) => InUse(i)'
      BY <1>3, <2>1, <2>3 DEF InUse, TakeIndex
    <3> QED BY <2>3, <3>1 DEF IndicesPlaced
  <2> QED BY <2>4, <2>5, <2>6, <2>7
<1>4. ASSUME GiveIndexBack PROVE QueueInv'
  <2> DEFINE idx == reading.idx
  <2>1. idx \in Elems /\ ~IsIn(idx, free_queue) /\ ~IsIn(idx, ready_queue)
    BY <1>4 DEF GiveIndexBack, QueueTypeOK, IndicesApart
  <2>2. /\ free_queue' = Append(free_queue, idx) /\ free_queue' \in Seq(Elems)
        /\ Distinct(free_queue')
        /\ \A a : IsIn(a, free_queue') <=> IsIn(a, free_queue) \/ a = idx
    BY <1>0, <1>4, <2>1, AppendIsIn DEF GiveIndexBack
  <2>3. /\ reading' = NotReading /\ ready_queue' = ready_queue
        /\ event_list' = event_list /\ adding' = adding
    BY <1>4 DEF GiveIndexBack
  <2>4. QueueTypeOK'
    BY <2>1, <2>2, <2>3 DEF QueueTypeOK, NotReading, Elems, QueueAssumption
  <2>5. IndicesApart'
    <3>1. \A i \in 1 .. Len(free_queue') : ~IsIn(free_queue'[i], ready_queue)
      BY <2>1, <2>2 DEF IndicesApart, IsIn
    <3>2. \A x \in Adders : adding[x].busy => adding[x].idx # idx
      BY <1>4 DEF GiveIndexBack, IndicesApart
    <3> QED BY <2>2, <2>3, <3>1, <3>2 DEF IndicesApart, NotReading
  <2>6. EventsThere'
    BY <2>3 DEF EventsThere, EventRead, NotReading
  <2>7. IndicesPlaced'
    <3>1. \A i : InUse(i) => InUse(i)' \/ i = idx
      BY <2>3 DEF InUse
    <3> QED BY <2>2, <3>1 DEF IndicesPlaced
  <2> QED BY <2>4, <2>5, <2>6, <2>7
<1>5. CASE UNCHANGED queue_vars
  BY <1>5 DEF queue_vars, QueueTypeOK, IndicesApart, IndicesPlaced, InUse, EventsThere,
              EventRead
<1> QED BY <1>1, <1>2, <1>3, <1>4, <1>5 DEF QueueNext

-----------------------------------------------------------------------------
\* The queue as a channel.

\* The events in the queue, oldest first.
Waiting == [i \in 1 .. Len(ready_queue) |-> event_list[ready_queue[i]]]
InHand == IF reading.busy THEN EventRead ELSE NoEvent

LEMMA WaitingIsSeq ==
  ASSUME QueueInv
  PROVE  /\ Waiting \in Seq(Events) /\ Len(Waiting) = Len(ready_queue)
         /\ \A i \in 1 .. Len(ready_queue) : Waiting[i] = event_list[ready_queue[i]]
<1>1. Len(ready_queue) \in Nat
  BY LenProperties DEF QueueInv, QueueTypeOK
<1>2. Waiting \in [1 .. Len(ready_queue) -> Events]
  BY DEF QueueInv, EventsThere, Waiting
<1> QED BY <1>1, <1>2, SeqDef, LenProperties DEF Waiting

\* The events in the queue before and after a step are sequences.
LEMMA WaitingStaysSeq ==
  ASSUME QueueInv, QueueInv'
  PROVE  /\ Waiting \in Seq(Events) /\ Len(Waiting) = Len(ready_queue)
         /\ \A i \in 1 .. Len(ready_queue) : Waiting[i] = event_list[ready_queue[i]]
         /\ Waiting' \in Seq(Events) /\ Len(Waiting') = Len(ready_queue')
         /\ \A i \in 1 .. Len(ready_queue') : Waiting'[i] = event_list'[ready_queue'[i]]
         /\ Len(ready_queue) \in Nat /\ ready_queue \in Seq(Elems)
<1> USE DEF QueueInv
<1>1. Len(ready_queue) \in Nat /\ ready_queue \in Seq(Elems)
  BY LenProperties DEF QueueTypeOK
<1>2. /\ Waiting \in Seq(Events) /\ Len(Waiting) = Len(ready_queue)
      /\ \A i \in 1 .. Len(ready_queue) : Waiting[i] = event_list[ready_queue[i]]
  BY WaitingIsSeq
<1>3. /\ Len(ready_queue') \in Nat /\ Waiting' \in [1 .. Len(ready_queue') -> Events]
  BY LenProperties DEF QueueTypeOK, EventsThere, Waiting
<1>4. /\ Waiting' \in Seq(Events) /\ Len(Waiting') = Len(ready_queue')
      /\ \A i \in 1 .. Len(ready_queue') : Waiting'[i] = event_list'[ready_queue'[i]]
  BY <1>3, SeqDef, LenProperties DEF Waiting
<1> QED BY <1>1, <1>2, <1>4

\* How the steps of the queue change what is waiting and what is being read.
LEMMA AddBegins ==
  ASSUME NEW x, NEW event, GetIndex(x, event)
  PROVE  Waiting' = Waiting /\ InHand' = InHand
  BY DEF GetIndex, Waiting, InHand, EventRead

LEMMA AddEnds ==
  ASSUME QueueAssumption, QueueInv, QueueInv', NEW x \in Adders, PutEvent(x)
  PROVE  /\ Len(Waiting) < NumElems /\ InHand' = InHand /\ adding[x].event \in Events
         /\ Waiting' = Append(Waiting, adding[x].event)
<1> USE DEF QueueInv
<1>0. /\ Waiting \in Seq(Events) /\ Len(Waiting) = Len(ready_queue)
      /\ \A i \in 1 .. Len(ready_queue) : Waiting[i] = event_list[ready_queue[i]]
      /\ Waiting' \in Seq(Events) /\ Len(Waiting') = Len(ready_queue')
      /\ \A i \in 1 .. Len(ready_queue') : Waiting'[i] = event_list'[ready_queue'[i]]
      /\ Len(ready_queue) \in Nat /\ ready_queue \in Seq(Elems)
  BY WaitingStaysSeq
<1> DEFINE idx == adding[x].idx
           event == adding[x].event
<1>1. adding[x].busy /\ Len(ready_queue) < NumElems
  BY ReadyNotFull DEF PutEvent
<1>2. /\ idx \in Elems /\ event \in Events /\ ~IsIn(idx, ready_queue)
      /\ reading.busy => reading.idx # idx
  BY <1>1 DEF QueueTypeOK, IndicesApart, EventsThere
<1>3. /\ Len(ready_queue') = Len(ready_queue) + 1
      /\ \A i \in 1 .. Len(ready_queue) : ready_queue'[i] = ready_queue[i]
      /\ ready_queue'[Len(ready_queue) + 1] = idx
      /\ event_list' = [event_list EXCEPT ![idx] = event] /\ reading' = reading
  BY <1>0, <1>2, AppendIsIn DEF PutEvent
<1>4. event_list'[idx] = event
      /\ \A i \in 1 .. Len(ready_queue) :
            event_list'[ready_queue[i]] = event_list[ready_queue[i]]
  BY <1>0, <1>2, <1>3, ElementOfSeq DEF QueueTypeOK, IsIn
<1>5. /\ Append(Waiting, event) \in Seq(Events)
      /\ Len(Append(Waiting, event)) = Len(Waiting')
      /\ \A i \in 1 .. Len(Waiting) : Append(Waiting, event)[i] = Waiting[i]
      /\ Append(Waiting, event)[Len(Waiting) + 1] = event
  BY <1>0, <1>2, <1>3, AppendIsIn
<1>6. \A i \in 1 .. Len(Waiting') : Waiting'[i] = Append(Waiting, event)[i]
  <2>1. \A i \in 1 .. Len(ready_queue) + 1 : i \in 1 .. Len(ready_queue) \/ i = Len(ready_queue) + 1
    BY <1>0
  <2> QED BY <1>0, <1>3, <1>4, <1>5, <2>1
<1>7. Waiting' = Append(Waiting, event)
  BY <1>0, <1>5, <1>6, SeqEqual
<1>8. InHand' = InHand
  BY <1>2, <1>3 DEF InHand, EventRead, QueueTypeOK
<1> QED BY <1>0, <1>1, <1>2, <1>7, <1>8

LEMMA ReadBegins ==
  ASSUME QueueAssumption, QueueInv, QueueInv', TakeIndex
  PROVE  /\ InHand = NoEvent /\ Waiting # <<>>
         /\ InHand' = Head(Waiting) /\ Waiting' = Tail(Waiting)
<1> USE DEF QueueInv
<1>0. /\ Waiting \in Seq(Events) /\ Len(Waiting) = Len(ready_queue)
      /\ \A i \in 1 .. Len(ready_queue) : Waiting[i] = event_list[ready_queue[i]]
      /\ Waiting' \in Seq(Events) /\ Len(Waiting') = Len(ready_queue')
      /\ \A i \in 1 .. Len(ready_queue') : Waiting'[i] = event_list'[ready_queue'[i]]
      /\ Len(ready_queue) \in Nat /\ ready_queue \in Seq(Elems)
  BY WaitingStaysSeq
<1>1. /\ Len(ready_queue) \in Nat \ {0} /\ Head(ready_queue) = ready_queue[1]
      /\ Len(ready_queue') = Len(ready_queue) - 1
      /\ \A i \in 1 .. Len(ready_queue') : ready_queue'[i] = ready_queue[i + 1]
  BY <1>0, EmptySeq, HeadTailProperties DEF TakeIndex
<1>2. Waiting # <<>>
  BY <1>0, <1>1, EmptySeq
<1>3. /\ Tail(Waiting) \in Seq(Events) /\ Len(Tail(Waiting)) = Len(Waiting) - 1
      /\ \A i \in 1 .. Len(Tail(Waiting)) : Tail(Waiting)[i] = Waiting[i + 1]
      /\ Head(Waiting) = Waiting[1]
  BY <1>0, <1>2, HeadTailProperties
<1>4. \A i \in 1 .. Len(Waiting') : Waiting'[i] = Tail(Waiting)[i]
  BY <1>0, <1>1, <1>3 DEF TakeIndex
<1>5. Waiting' = Tail(Waiting)
  BY <1>0, <1>1, <1>3, <1>4, SeqEqual
<1>6. InHand = NoEvent /\ InHand' = Head(Waiting)
  BY <1>0, <1>1, <1>3 DEF TakeIndex, InHand, EventRead
<1> QED BY <1>2, <1>5, <1>6

LEMMA ReadEnds ==
  ASSUME QueueAssumption, QueueInv, GiveIndexBack
  PROVE  /\ InHand = EventRead /\ InHand # NoEvent /\ InHand' = NoEvent
         /\ Waiting' = Waiting
  BY DEF QueueInv, GiveIndexBack, InHand, Waiting, EventsThere, NotReading, QueueAssumption

LEMMA QueueAlone ==
  ASSUME UNCHANGED queue_vars PROVE Waiting' = Waiting /\ InHand' = InHand
  BY DEF queue_vars, Waiting, InHand, EventRead

\* The event of an element that is in use: it is in the queue, being read, or being
\* added.
Holds(idx, e) ==
    \/ IsIn(idx, ready_queue) /\ event_list[idx] = e
    \/ reading.busy /\ reading.idx = idx /\ event_list[idx] = e
    \/ \E x \in Adders : adding[x].busy /\ adding[x].idx = idx /\ adding[x].event = e

LEMMA UsedHolds ==
  ASSUME QueueInv, NEW idx \in Elems, InUse(idx)
  PROVE  \E e \in Events : Holds(idx, e)
<1>1. CASE IsIn(idx, ready_queue)
  BY <1>1 DEF IsIn, Holds, QueueInv, EventsThere
<1>2. CASE reading.busy /\ reading.idx = idx
  BY <1>2 DEF Holds, QueueInv, EventsThere, EventRead
<1>3. CASE \E x \in Adders : adding[x].busy /\ adding[x].idx = idx
  BY <1>3 DEF Holds, QueueInv, EventsThere
<1> QED BY <1>1, <1>2, <1>3 DEF InUse

\* Only GetIndex brings an event in ...
LEMMA HoldsGet ==
  ASSUME QueueInv, NEW x \in Adders, NEW event, GetIndex(x, event),
         NEW idx, NEW e, Holds(idx, e)'
  PROVE  Holds(idx, e) \/ (idx = Head(free_queue) /\ e = event)
<1>1. /\ adding' = [adding EXCEPT ![x] = [busy |-> TRUE, idx |-> Head(free_queue), event |-> event]]
      /\ UNCHANGED <<ready_queue, event_list, reading>>
  BY DEF GetIndex
<1>2. /\ adding'[x].idx = Head(free_queue) /\ adding'[x].event = event
      /\ \A y \in Adders : y # x => adding'[y] = adding[y]
  BY <1>1 DEF QueueInv, QueueTypeOK
<1> QED BY <1>1, <1>2 DEF Holds

\* ... and the other steps only move it on, or drop it.
LEMMA HoldsOther ==
  ASSUME QueueInv, (\E x \in Adders : PutEvent(x)) \/ TakeIndex \/ GiveIndexBack \/ UNCHANGED queue_vars,
         NEW idx \in Elems, NEW e, Holds(idx, e)'
  PROVE  Holds(idx, e)
<1>0. /\ free_queue \in Seq(Elems) /\ ready_queue \in Seq(Elems) /\ Distinct(ready_queue)
      /\ event_list \in [Elems -> Events \cup {NoEvent}]
  BY DEF QueueInv, QueueTypeOK, IndicesApart
<1>1. ASSUME NEW x \in Adders, PutEvent(x) PROVE Holds(idx, e)
  <2> DEFINE put == adding[x].idx
  <2>1. /\ adding[x].busy /\ put \in Elems
        /\ event_list' = [event_list EXCEPT ![put] = adding[x].event]
        /\ ready_queue' = Append(ready_queue, put)
        /\ adding' = [adding EXCEPT ![x] = NotAdding] /\ reading' = reading
    BY <1>1 DEF PutEvent, QueueInv, QueueTypeOK
  <2>2. IsIn(idx, ready_queue') => IsIn(idx, ready_queue) \/ idx = put
    BY <1>0, <2>1, AppendIsIn
  <2>3. \A y \in Adders : adding'[y].busy => adding'[y] = adding[y]
    BY <2>1 DEF QueueInv, QueueTypeOK, NotAdding
  <2>4. IsIn(idx, ready_queue) \/ (reading.busy /\ reading.idx = idx) => idx # put
    BY <2>1 DEF QueueInv, IndicesApart
  <2>5. event_list'[idx] = IF idx = put THEN adding[x].event ELSE event_list[idx]
    BY <1>0, <2>1
  <2> QED BY <1>1, <2>1, <2>2, <2>3, <2>4, <2>5 DEF Holds
<1>2. CASE TakeIndex
  <2>1. /\ ready_queue # <<>> /\ ready_queue' = Tail(ready_queue)
        /\ reading' = [busy |-> TRUE, idx |-> Head(ready_queue)]
        /\ UNCHANGED <<event_list, adding>>
    BY <1>2 DEF TakeIndex
  <2>2. /\ IsIn(idx, ready_queue') => IsIn(idx, ready_queue)
        /\ Head(ready_queue) = ready_queue[1] /\ 1 \in 1 .. Len(ready_queue)
    BY <1>0, <2>1, TailIsIn
  <2> QED BY <2>1, <2>2 DEF Holds, IsIn
<1>3. CASE GiveIndexBack
  BY <1>3 DEF GiveIndexBack, Holds, NotReading
<1>4. CASE UNCHANGED queue_vars
  BY <1>4 DEF queue_vars, Holds
<1> QED BY <1>1, <1>2, <1>3, <1>4

\* With two elements or more, a full queue holds two events.
LEMMA FullHoldsTwo ==
  ASSUME QueueInv, QueueFull, NumElems \in Nat, NumElems >= 2
  PROVE  \E i, j \in Elems : i # j /\ (\E e \in Events : Holds(i, e)) /\ (\E e \in Events : Holds(j, e))
<1>1. 0 \in Elems /\ 1 \in Elems /\ 0 # 1
  BY DEF Elems
<1>2. \A i : ~IsIn(i, free_queue)
  BY EmptySeq DEF QueueFull, IsIn
<1> QED BY <1>1, <1>2, UsedHolds DEF QueueInv, IndicesPlaced

LEMMA QueueStep ==
  ASSUME QueueAssumption, QueueInv, QueueInv', [QueueNext]_queue_vars
  PROVE  [Channel!Next]_(Channel!channel)
<1>1. ASSUME NEW x \in Adders, NEW event \in Events, GetIndex(x, event)
      PROVE  Waiting' = Waiting /\ InHand' = InHand
  BY <1>1, AddBegins
<1>2. ASSUME NEW x \in Adders, PutEvent(x)
      PROVE  /\ Len(Waiting) < NumElems /\ InHand' = InHand
             /\ \E event \in Events : Waiting' = Append(Waiting, event)
  BY <1>2, AddEnds
<1>3. ASSUME TakeIndex
      PROVE  /\ InHand = NoEvent /\ Waiting # <<>>
             /\ InHand' = Head(Waiting) /\ Waiting' = Tail(Waiting)
  BY <1>3, ReadBegins
<1>4. ASSUME GiveIndexBack
      PROVE  InHand # NoEvent /\ InHand' = NoEvent /\ Waiting' = Waiting
  BY <1>4, ReadEnds
<1>5. ASSUME UNCHANGED queue_vars PROVE Waiting' = Waiting /\ InHand' = InHand
  BY <1>5, QueueAlone
<1> QED
  BY <1>1, <1>2, <1>3, <1>4, <1>5
  DEF QueueNext, Channel!Next, Channel!Add, Channel!Take, Channel!Given, Channel!channel,
      Waiting, InHand

LEMMA QueueInitial == ASSUME QueueInit PROVE Channel!Init
<1>1. Len(ready_queue) = 0 /\ ~reading.busy
  BY EmptySeq DEF QueueInit, NotReading
<1>2. Waiting = <<>>
  <2>1. Waiting \in [1 .. 0 -> Events]
    BY <1>1 DEF Waiting
  <2>2. Waiting \in Seq(Events) /\ Len(Waiting) = 0
    BY <1>1, <2>1, SeqDef, LenProperties DEF Waiting
  <2> QED BY <2>2, EmptySeq
<1> QED BY <1>1, <1>2 DEF Channel!Init, Waiting

\* In every reachable state an index is in one place and the elements in use hold
\* events (vx_event_queue.c 141-183, 278-350).
THEOREM QueueInvariant == ASSUME QueueAssumption PROVE QueueSpec => []QueueInv
<1>1. QueueInit => QueueInv
  BY QueueInitInv
<1>2. QueueInv /\ [QueueNext]_queue_vars => QueueInv'
  BY QueueNextInv
<1> QED BY <1>1, <1>2, PTL DEF QueueSpec

\* The two queues of indices and the unlocked elements implement a bounded channel:
\* events arrive unchanged, once and in order.
THEOREM QueueImplementsChannel ==
  ASSUME QueueAssumption PROVE QueueSpec => ImplementsChannel
<1>1. QueueInit => Channel!Init
  BY QueueInitial
<1>2. QueueInv /\ QueueInv' /\ [QueueNext]_queue_vars => [Channel!Next]_(Channel!channel)
  BY QueueStep
<1>3. QueueSpec => []QueueInv
  BY QueueInvariant
<1> QED BY <1>1, <1>2, <1>3, PTL DEF QueueSpec, ImplementsChannel, Channel!Spec
=============================================================================
