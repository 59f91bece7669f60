---------------------------- MODULE EventChannel ----------------------------
(***************************************************************************)
(* What an event queue promises: events arrive unchanged, once each and in *)
(* the order in which they were added, at most NumElems of them inside at  *)
(* a time.  EventQueue implements it with two queues of indices.           *)
(***************************************************************************)
EXTENDS Naturals, Sequences

CONSTANTS Events, NumElems, NoEvent

VARIABLES
    queue,    \* events added and not yet taken
    in_hand   \* the event that the reader is being given, or NoEvent

channel == <<queue, in_hand>>

Init == queue = <<>> /\ in_hand = NoEvent

Add ==
    /\ Len(queue) < NumElems
    /\ \E event \in Events : queue' = Append(queue, event)
    /\ UNCHANGED in_hand

Take ==
    /\ in_hand = NoEvent /\ queue # <<>>
    /\ in_hand' = Head(queue) /\ queue' = Tail(queue)

\* The reader has what it was given.
Given ==
    /\ in_hand # NoEvent
    /\ in_hand' = NoEvent /\ UNCHANGED queue

Next == Add \/ Take \/ Given

Spec == Init /\ [][Next]_channel
=============================================================================
