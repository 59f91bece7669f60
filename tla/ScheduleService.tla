-------------------------- MODULE ScheduleService --------------------------
(***************************************************************************)
(* What the scheduler of a graph promises the application: executions that *)
(* were accepted are queued, run at most `Depth' at a time, and each       *)
(* completes once; none waits in the queue while it could run, except      *)
(* between the completion of one execution and the start of the next; and  *)
(* a thread that waits is let go only when all that was accepted before it *)
(* started to wait has completed.                                          *)
(*                                                                         *)
(* Only counts appear here: descriptors, locks, events and the host task   *)
(* are the business of GraphSchedule, which implements this module.        *)
(***************************************************************************)
EXTENDS Integers

CONSTANTS
    Apps,    \* threads that wait
    Depth    \* executions that may run at a time

VARIABLES
    queued,   \* accepted executions that have not started
    running,  \* executions in flight
    done,     \* executions completed
    waits     \* waits[a]: what thread a waits for, or NotWaiting

svars == <<queued, running, done, waits>>

NotWaiting == -1
Accepted == queued + running + done

Init ==
    /\ queued = 0 /\ running = 0 /\ done = 0
    /\ waits = [a \in Apps |-> NotWaiting]

\* Executions are accepted, or queued ones find room: as many start as there is
\* room for.
Start ==
    /\ running' \in running .. Depth
    /\ queued' \in Nat /\ queued' + running' >= queued + running
    /\ queued' > 0 => running' = Depth
    /\ UNCHANGED <<done, waits>>

\* An execution completes; a queued one may start only later.
Complete ==
    /\ running > 0
    /\ running' = running - 1 /\ done' = done + 1
    /\ UNCHANGED <<queued, waits>>

WaitBegin(a) ==
    /\ waits[a] = NotWaiting
    /\ waits' = [waits EXCEPT ![a] = Accepted]
    /\ UNCHANGED <<queued, running, done>>

WaitEnd(a) ==
    /\ waits[a] # NotWaiting /\ done >= waits[a]
    /\ waits' = [waits EXCEPT ![a] = NotWaiting]
    /\ UNCHANGED <<queued, running, done>>

Next ==
    \/ Start \/ Complete
    \/ \E a \in Apps : WaitBegin(a) \/ WaitEnd(a)

Spec == Init /\ [][Next]_svars
=============================================================================
