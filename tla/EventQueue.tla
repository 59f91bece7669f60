----------------------------- MODULE EventQueue -----------------------------
(***************************************************************************)
(* An event queue (tiovx/source/framework/vx_event_queue.c): an array of   *)
(* elements whose indices go round between a free queue and a ready queue. *)
(* Each of the two queues has a lock of its own, the elements have none.   *)
(* Several threads add events; one thread, or one at a time, reads them.   *)
(***************************************************************************)
EXTENDS Integers, Sequences

CONSTANTS
    Adders,    \* threads that add events
    Events,    \* events: event_id, app_value and parameters
    NumElems,  \* TIVX_EVENT_QUEUE_MAX_SIZE
    NoEvent    \* none of Events

\* What the proofs rest on; whoever instantiates the module has to see to it.
QueueAssumption == NumElems \in Nat \ {0} /\ NoEvent \notin Events

VARIABLES
    free_queue,   \* event_q->free_queue: indices of free elements
    ready_queue,  \* event_q->ready_queue: indices of events in order
    event_list,   \* event_q->event_list
    adding,       \* adding[x]: what thread x is adding, and the index it has
    reading       \* the index that the reader has taken

queue_vars == <<free_queue, ready_queue, event_list, adding, reading>>

Elems == 0 .. NumElems - 1
NotAdding == [busy |-> FALSE, idx |-> 0, event |-> NoEvent]
NotReading == [busy |-> FALSE, idx |-> 0]

\* ownEventQueueCreate; what the elements hold at first is never read.
QueueInit ==
    /\ free_queue = [i \in 1 .. NumElems |-> i - 1]
    /\ ready_queue = <<>>
    /\ event_list = [i \in Elems |-> NoEvent]
    /\ adding = [x \in Adders |-> NotAdding]
    /\ reading = NotReading

-----------------------------------------------------------------------------
\* ownEventQueueAddEvent without an element: the event is dropped.
QueueFull == free_queue = <<>>

\* ownEventQueueAddEvent: thread x takes a free index ...
GetIndex(x, event) ==
    /\ ~adding[x].busy /\ ~QueueFull
    /\ free_queue' = Tail(free_queue)
    /\ adding' = [adding EXCEPT ![x] =
                    [busy |-> TRUE, idx |-> Head(free_queue), event |-> event]]
    /\ UNCHANGED <<ready_queue, event_list, reading>>

\* ... fills in the element and puts its index into the ready queue.
PutEvent(x) ==
    /\ adding[x].busy
    /\ event_list' = [event_list EXCEPT ![adding[x].idx] = adding[x].event]
    /\ ready_queue' = Append(ready_queue, adding[x].idx)
    /\ adding' = [adding EXCEPT ![x] = NotAdding]
    /\ UNCHANGED <<free_queue, reading>>

\* Mutant: the index is given back before the element has been copied.
FreeWhileRead_Released(idx) == Append(free_queue, idx)

\* The free queue while the reader copies element idx.
FreeWhileRead(idx) == free_queue

\* ownWaitEventQueue: the reader takes an index ...
TakeIndex ==
    /\ ~reading.busy /\ ready_queue # <<>>
    /\ reading' = [busy |-> TRUE, idx |-> Head(ready_queue)]
    /\ ready_queue' = Tail(ready_queue)
    /\ free_queue' = FreeWhileRead(Head(ready_queue))
    /\ UNCHANGED <<event_list, adding>>

\* The event it copies from the element.
EventRead == event_list[reading.idx]

\* ... and gives it back once it has the event.
GiveIndexBack ==
    /\ reading.busy
    /\ free_queue' = Append(free_queue, reading.idx)
    /\ reading' = NotReading
    /\ UNCHANGED <<ready_queue, event_list, adding>>

QueueNext ==
    \/ \E x \in Adders : PutEvent(x) \/ \E event \in Events : GetIndex(x, event)
    \/ TakeIndex \/ GiveIndexBack

QueueSpec == QueueInit /\ [][QueueNext]_queue_vars

-----------------------------------------------------------------------------
\* Properties.

QueueTypeOK ==
    /\ free_queue \in Seq(Elems) /\ ready_queue \in Seq(Elems)
    /\ event_list \in [Elems -> Events \cup {NoEvent}]
    /\ adding \in [Adders -> [busy : BOOLEAN, idx : Elems, event : Events \cup {NoEvent}]]
    /\ reading \in [busy : BOOLEAN, idx : Elems]

\* No element is overwritten while it is in the queue or being read: the queue
\* implements EventChannel (vx_event_queue.c 141-183, 278-350).
Channel == INSTANCE EventChannel WITH
    queue <- [i \in 1 .. Len(ready_queue) |-> event_list[ready_queue[i]]],
    in_hand <- IF reading.busy THEN EventRead ELSE NoEvent

ImplementsChannel == Channel!Spec
=============================================================================
