------------------------- MODULE GraphStream_proofs -------------------------
(***************************************************************************)
(* Proofs about GraphStream.  Streaming is one way to use the graph        *)
(* scheduler and one way to use an event queue, so that what holds of      *)
(* GraphSchedule and EventQueue holds of it.  Then: once                   *)
(* vxStopGraphStreaming has returned the graph is idle                     *)
(* (StoppedMeansIdle), and while it streams it has exactly one next        *)
(* execution on its way (OneNextExecution).                                *)
(*                                                                         *)
(* The argument for the first: START and STOP never overtake each other,   *)
(* so that the task has seen every START when it takes STOP; it then waits *)
(* for the completion event, which says that the graph is idle, and until  *)
(* the owner has taken stop_done nothing is left that would schedule it.   *)
(*                                                                         *)
(* The argument for the second: each step moves the next execution on from *)
(* one place to another, the trigger's event always finds an element of    *)
(* the event queue, and START finds nothing on its way.                    *)
(***************************************************************************)
EXTENDS GraphStream, GraphSchedule_proofs, QueueLemmas

QueueProofs == INSTANCE EventQueue_proofs WITH
    Adders <- {"owner", "host"}, Events <- StreamEvents, NoEvent <- "none"

LEMMA StreamerIsApp == Streamer \in Apps /\ Streamer \in Streamers /\ Mode = "NORMAL"
  BY StreamAssumption, StreamingAssumption

LEMMA QueueIsSound == QueueProofs!QueueAssumption
  BY StreamAssumption DEF QueueProofs!QueueAssumption, StreamEvents, Commands

\* What the streaming task does to the graph is a call of the scheduler.
LEMMA TaskSchedules ==
  ASSUME TaskNext PROVE [Next]_vars
<1>1. ASSUME NEW checks_state \in BOOLEAN, ScheduleCall(Streamer, checks_state) PROVE Next
  BY <1>1, StreamerIsApp DEF Next, AppNext, VxScheduleGraph
<1>2. ASSUME VxWaitGraph(Streamer) PROVE Next
  BY <1>2, StreamerIsApp DEF Next, AppNext
<1>3. CASE TakeEvent
  BY <1>3 DEF TakeEvent
<1>4. CASE OnStart
  BY <1>1, <1>4 DEF OnStart
<1>5. CASE OnStreamingEvent
  BY <1>1, <1>5 DEF OnStreamingEvent
<1>6. CASE OnStop
  BY <1>2, <1>6 DEF OnStop
<1>7. CASE OnDelete
  BY <1>7 DEF OnDelete
<1>8. CASE TaskCall
  BY <1>8, StreamerIsApp DEF TaskCall, Next, AppNext
<1>9. CASE Stopped
  BY <1>9 DEF Stopped
<1> QED BY <1>3, <1>4, <1>5, <1>6, <1>7, <1>8, <1>9 DEF TaskNext

\* Every step of the composition is a step of the scheduler or leaves it alone.
LEMMA ScheduleStep ==
  ASSUME [StreamNext]_stream_vars PROVE [Next]_vars
<1>1. CASE OwnerNext
  BY <1>1 DEF OwnerNext, OwnerStep, VxStartGraphStreaming, VxStopGraphStreaming,
              VxReleaseGraph, StopSend, StopWait, DeleteWait, OwnerPut
<1>2. CASE TaskNext
  BY <1>2, TaskSchedules
<1>3. CASE StreamHostNext
  BY <1>3 DEF StreamHostNext, HostGetIndex, HostPut, HostStep, Next, HostNext
<1>4. ASSUME NEW a \in Apps \ {Streamer}, WaiterNext(a) PROVE Next
  BY <1>4 DEF WaiterNext, Next, AppNext
<1>5. ASSUME NEW n \in Nodes, NEW p \in Pipes, TargetStep(n, p) PROVE Next
  BY <1>5 DEF TargetStep, Next
<1>6. CASE UNCHANGED stream_vars
  BY <1>6 DEF stream_vars
<1> QED BY <1>1, <1>2, <1>3, <1>4, <1>5, <1>6 DEF StreamNext

\* The queue of the model and that of its proofs are the same.
LEMMA SameQueue ==
  /\ \A x, event : StreamQueue!GetIndex(x, event) = QueueProofs!GetIndex(x, event)
  /\ \A x : StreamQueue!PutEvent(x) = QueueProofs!PutEvent(x)
  /\ StreamQueue!TakeIndex = QueueProofs!TakeIndex
  /\ StreamQueue!GiveIndexBack = QueueProofs!GiveIndexBack
  BY DEF StreamQueue!GetIndex, QueueProofs!GetIndex, StreamQueue!QueueFull,
         QueueProofs!QueueFull, StreamQueue!PutEvent, QueueProofs!PutEvent,
         StreamQueue!NotAdding, QueueProofs!NotAdding,
         StreamQueue!TakeIndex, QueueProofs!TakeIndex, StreamQueue!GiveIndexBack,
         QueueProofs!GiveIndexBack, StreamQueue!FreeWhileRead, QueueProofs!FreeWhileRead,
         StreamQueue!NotReading, QueueProofs!NotReading

\* Every step of the composition is a step of the event queue or leaves it alone.
LEMMA QueueStep ==
  ASSUME [StreamNext]_stream_vars
  PROVE  [QueueProofs!QueueNext]_(QueueProofs!queue_vars)
<1> USE DEF QueueProofs!queue_vars, queue_vars
<1>0. /\ \A x, event : StreamQueue!GetIndex(x, event) = QueueProofs!GetIndex(x, event)
      /\ \A x : StreamQueue!PutEvent(x) = QueueProofs!PutEvent(x)
      /\ StreamQueue!TakeIndex = QueueProofs!TakeIndex
      /\ StreamQueue!GiveIndexBack = QueueProofs!GiveIndexBack
  BY SameQueue
<1>1. \A event \in StreamEvents : \A x \in {"owner", "host"} :
         StreamQueue!GetIndex(x, event) => QueueProofs!QueueNext
  BY <1>0 DEF QueueProofs!QueueNext
<1>2. \A x \in {"owner", "host"} : StreamQueue!PutEvent(x) => QueueProofs!QueueNext
  BY <1>0 DEF QueueProofs!QueueNext
<1>3. StreamQueue!TakeIndex \/ StreamQueue!GiveIndexBack => QueueProofs!QueueNext
  BY <1>0 DEF QueueProofs!QueueNext
<1>4. {"START", "STOP", "DELETE", "STREAMING_EVENT"} = StreamEvents
  BY DEF StreamEvents, Commands
<1>5. CASE OwnerNext
  BY <1>1, <1>2, <1>4, <1>5
  DEF OwnerNext, OwnerStep, VxStartGraphStreaming, VxStopGraphStreaming,
      VxReleaseGraph, StopSend, StopWait, DeleteWait, OwnerPut, SendEvent
<1>6. CASE TaskNext
  BY <1>3, <1>6 DEF TaskNext, TakeEvent, OnStart, OnStreamingEvent, OnStop, OnDelete,
                    TaskCall, Stopped, HasEvent
<1>7. CASE StreamHostNext
  BY <1>1, <1>2, <1>4, <1>7 DEF StreamHostNext, HostGetIndex, HostPut, HostStep
<1>8. CASE \E a \in Apps \ {Streamer} : WaiterNext(a)
  BY <1>8 DEF WaiterNext
<1>9. CASE \E n \in Nodes, p \in Pipes : TargetStep(n, p)
  BY <1>9 DEF TargetStep
<1>10. CASE UNCHANGED stream_vars
  BY <1>10 DEF stream_vars
<1> QED BY <1>5, <1>6, <1>7, <1>8, <1>9, <1>10 DEF StreamNext

-----------------------------------------------------------------------------
\* A graph that streams is a graph that is scheduled: whatever is proved of
\* GraphSchedule!Spec holds while the streaming task schedules.
THEOREM StreamImplementsSchedule == StreamSpec => Spec
<1>1. StreamInit => Init
  BY DEF StreamInit
<1>2. [StreamNext]_stream_vars => [Next]_vars
  BY ScheduleStep
<1> QED BY <1>1, <1>2, PTL DEF StreamSpec, Spec

LEMMA StreamImplementsQueue == StreamSpec => QueueProofs!QueueSpec
<1>1. StreamInit => QueueProofs!QueueInit
  BY DEF StreamInit, StreamQueue!QueueInit, QueueProofs!QueueInit, StreamQueue!Elems,
         QueueProofs!Elems, StreamQueue!NotAdding, QueueProofs!NotAdding,
         StreamQueue!NotReading, QueueProofs!NotReading
<1>2. [StreamNext]_stream_vars => [QueueProofs!QueueNext]_(QueueProofs!queue_vars)
  BY QueueStep
<1> QED BY <1>1, <1>2, PTL DEF StreamSpec, QueueProofs!QueueSpec

\* The events of a streaming graph go through a bounded channel: the task gets START,
\* STOP and the trigger's events unchanged and in order (vx_event_queue.c 141-183).
THEOREM StreamImplementsChannel == StreamSpec => ImplementsChannel
<1>1. QueueProofs!QueueSpec => QueueProofs!ImplementsChannel
  BY QueueIsSound, QueueProofs!QueueImplementsChannel
<1>2. QueueProofs!ImplementsChannel => ImplementsChannel
  <2>1. QueueProofs!Channel!Init => StreamQueue!Channel!Init
    BY DEF QueueProofs!Channel!Init, StreamQueue!Channel!Init, QueueProofs!EventRead,
           StreamQueue!EventRead
  <2>2. [QueueProofs!Channel!Next]_(QueueProofs!Channel!channel)
           => [StreamQueue!Channel!Next]_(StreamQueue!Channel!channel)
    BY DEF QueueProofs!Channel!Next, StreamQueue!Channel!Next, QueueProofs!Channel!Add,
           StreamQueue!Channel!Add, QueueProofs!Channel!Take, StreamQueue!Channel!Take,
           QueueProofs!Channel!Given, StreamQueue!Channel!Given,
           QueueProofs!Channel!channel, StreamQueue!Channel!channel,
           QueueProofs!EventRead, StreamQueue!EventRead
  <2> QED
    BY <2>1, <2>2, PTL DEF ImplementsChannel, StreamQueue!ImplementsChannel,
       QueueProofs!ImplementsChannel, StreamQueue!Channel!Spec, QueueProofs!Channel!Spec
<1> QED BY <1>1, <1>2, StreamImplementsQueue, PTL

\* Type correctness of the composition.
THEOREM StreamTypes == StreamSpec => []StreamTypeOK
<1> DEFINE FlagsOK ==
      /\ stream_state \in {"IDLE", "RUNNING", "EXITED"} /\ stopping \in BOOLEAN
      /\ is_streaming \in BOOLEAN /\ is_streaming_error \in BOOLEAN
      /\ stop_done \in BOOLEAN /\ delete_done \in BOOLEAN
      /\ owner \in {"idle", "start_put", "stop_send", "stop_put", "stop_wait",
                    "error_wait", "delete_put", "delete_wait", "released"}
      /\ event_sent \in BOOLEAN
<1>1. StreamInit => FlagsOK
  BY DEF StreamInit
<1>2. ASSUME FlagsOK, [StreamNext]_stream_vars PROVE FlagsOK'
  <2> USE <1>2
  <2>1. CASE OwnerNext
    <3>1. CASE VxStartGraphStreaming \/ VxStopGraphStreaming \/ VxReleaseGraph
      BY <3>1 DEF VxStartGraphStreaming, VxStopGraphStreaming, VxReleaseGraph, SendEvent,
                  task_vars
    <3>2. CASE OwnerStep
      BY <3>2 DEF OwnerStep, StopSend, StopWait, DeleteWait, OwnerPut, SendEvent, task_vars,
                  flag_vars
    <3> QED BY <2>1, <3>1, <3>2 DEF OwnerNext
  <2>2. CASE TaskNext
    <3>1. CASE TakeEvent \/ OnStreamingEvent \/ TaskCall
      <4>1. UNCHANGED <<task_vars, flag_vars, owner, event_sent>>
        BY <3>1 DEF TakeEvent, OnStreamingEvent, TaskCall
      <4> QED BY <4>1 DEF task_vars, flag_vars
    <3>4. CASE OnStart
      BY <3>4 DEF OnStart, flag_vars
    <3>2. CASE OnStop
      BY <3>2 DEF OnStop
    <3>3. CASE OnDelete \/ Stopped
      BY <3>3 DEF OnDelete, Stopped, StopAnswered
    <3> QED BY <2>2, <3>1, <3>2, <3>3, <3>4 DEF TaskNext
  <2>3. CASE StreamHostNext
    <3>1. UNCHANGED <<task_vars, flag_vars, owner>>
      BY <2>3 DEF StreamHostNext, HostGetIndex, HostPut, HostStep
    <3>2. event_sent' \in BOOLEAN
      BY <2>3 DEF StreamHostNext, HostGetIndex, HostPut, HostStep
    <3> QED BY <3>1, <3>2 DEF task_vars, flag_vars
  <2>4. CASE \E a \in Apps \ {Streamer} : WaiterNext(a)
    BY <2>4 DEF WaiterNext, task_vars, flag_vars
  <2>5. CASE \E n \in Nodes, p \in Pipes : TargetStep(n, p)
    BY <2>5 DEF TargetStep, task_vars, flag_vars
  <2>6. CASE UNCHANGED stream_vars
    BY <2>6 DEF stream_vars, task_vars, flag_vars
  <2> QED BY <2>1, <2>2, <2>3, <2>4, <2>5, <2>6 DEF StreamNext
<1>3. StreamSpec => []QueueProofs!QueueInv
  BY QueueIsSound, StreamImplementsQueue, QueueProofs!QueueInvariant
<1>4. FlagsOK /\ TypeOK /\ QueueProofs!QueueInv => StreamTypeOK
  BY DEF StreamTypeOK, QueueProofs!QueueInv, QueueProofs!QueueTypeOK,
         StreamQueue!QueueTypeOK, QueueProofs!Elems, StreamQueue!Elems
<1> QED BY <1>1, <1>2, <1>3, <1>4, StreamImplementsSchedule, TypeCorrectness, PTL
        DEF StreamSpec

-----------------------------------------------------------------------------
Waiting == QueueProofs!Waiting
InHand == QueueProofs!InHand

\* Nothing is in flight, pending, or about to be restarted.
Quiet == submitted_count = 0 /\ schedule_pending_count = 0 /\ host.schedule_count = 0

\* What is in flight has been started.
InFlightStarted == \A p \in InFlight : desc_state[p] # "VERIFIED"

\* An event is in the queue, in the task's hands, or being added by the owner.
Outstanding(event) ==
    \/ IsIn(event, Waiting) \/ InHand = event
    \/ adding["owner"].busy /\ adding["owner"].event = event

\* What the adding threads add, and where the owner is meanwhile.
AddersApart ==
    /\ adding["owner"].busy <=> owner \in {"start_put", "stop_put", "delete_put"}
    /\ owner = "start_put" => adding["owner"].event = "START"
    /\ owner = "stop_put" => adding["owner"].event = "STOP"
    /\ owner = "delete_put" => adding["owner"].event = "DELETE"
    /\ adding["host"].busy => adding["host"].event = "STREAMING_EVENT"

\* One STOP at a time, and no START behind it.
NoneAfterStop ==
    \A i, j \in 1 .. Len(Waiting) :
        i < j /\ Waiting[i] = "STOP" => Waiting[j] # "START" /\ Waiting[j] # "STOP"
StopIsLast ==
    /\ NoneAfterStop
    /\ InHand = "STOP" => ~IsIn("START", Waiting) /\ ~IsIn("STOP", Waiting)
    /\ InHand = "STOP" \/ IsIn("STOP", Waiting) => owner = "stop_wait"

\* The task's state, the call it is in and the graph's state.
TaskStates ==
    /\ stream_state = "RUNNING" => /\ ~stopping /\ app[Streamer].pc \in {"idle", "schedule"}
                                   /\ app[Streamer].pc = "idle" => graph_state # "VERIFIED"
    /\ stream_state # "RUNNING" /\ ~stopping => app[Streamer].pc = "idle"
    /\ stream_state = "IDLE" /\ ~stopping => Quiet
    /\ stopping => /\ stream_state = "IDLE" /\ app[Streamer].pc \in {"wait", "waited", "idle"}
                   /\ app[Streamer].pc # "wait" => Quiet
    /\ InFlightStarted

\* From the moment the task has taken STOP until the graph is started again.
Stops ==
    /\ stopping => owner = "stop_wait" /\ ~stop_done
    /\ stop_done => owner = "stop_wait" /\ ~stopping
    /\ owner \in {"start_put", "stop_send", "stop_put", "stop_wait", "error_wait"} => is_streaming
    /\ stopping \/ stop_done \/ ~is_streaming =>
          ~Outstanding("START") /\ ~Outstanding("STOP")
    /\ stop_done \/ ~is_streaming => Quiet /\ stream_state # "RUNNING" /\ ~stopping

StopInv == AddersApart /\ StopIsLast /\ TaskStates /\ Stops

\* What is proved already of the scheduler, the event queue and the types.
Sound == SchedInv /\ StreamTypeOK /\ QueueProofs!QueueInv

-----------------------------------------------------------------------------
\* The scheduler.

\* A step of the host task or of a target starts nothing by itself.
LEMMA ExecutionStep ==
  ASSUME SchedInv, InFlightStarted,
         HostNext \/ \E n \in Nodes, p \in Pipes : NodeExecute(n, p) \/ NodeComplete(n, p)
  PROVE  /\ Quiet => Quiet'
         /\ app' = app /\ InFlightStarted'
         /\ graph_state # "VERIFIED" => graph_state' # "VERIFIED"
<1>0. TypeOK /\ DescriptorsConserved
  BY DEF SchedInv
<1>1. CASE HostTake
  BY <1>1 DEF HostTake, Quiet, InFlightStarted, InFlight, Free
<1>2. CASE LeafCompleted
  BY <1>0, <1>2 DEF LeafCompleted, Quiet, InFlightStarted, InFlight, Free, sched_vars,
                    TypeOK, HostStates
<1>3. CASE GraphCompleted
  <2> DEFINE p == host.pipe
  <2>1. p \in InFlight /\ p \in Pipes /\ submitted_count > 0
    BY <1>0, <1>3, LastLeafReported, InFlightSubmitted DEF GraphCompleted, InFlight
  <2>2. /\ desc_state' = [desc_state EXCEPT ![p] = EndState(p)] /\ app' = app
        /\ free_q' = Append(free_q, p)
        /\ graph_state' = IF submitted_count = 1 THEN EndState(p) ELSE graph_state
    BY <1>3 DEF GraphCompleted, FreeQueueWith, StateAfterCompletion
  <2>3. EndState(p) # "VERIFIED"
    BY <2>1 DEF EndState, InFlightStarted
  <2>4. InFlight' \subseteq InFlight
    BY <1>0, <2>1, <2>2, AppendProperties DEF TypeOK, InFlight, Free, Pipes
  <2> QED BY <1>0, <2>1, <2>2, <2>3, <2>4 DEF Quiet, InFlightStarted, TypeOK, InFlight
<1>4. CASE HostReschedule
  <2> DEFINE n == host.schedule_count
  <2>1. /\ n \in Nat /\ OwnGraphScheduleGraph(n) /\ app' = app
        /\ host' = [host EXCEPT !.pc = "action", !.schedule_count = 0]
    BY <1>0, <1>4 DEF HostReschedule, TypeOK, HostStates
  <2>2. {free_q[i] : i \in 1 .. NumStarted(n)} = Free \ Free'
    BY <1>0, <2>1, ScheduleFreeQueue
  <2>3. /\ desc_state' = [p \in Pipes |-> IF p \in Free \ Free' THEN "RUNNING" ELSE desc_state[p]]
        /\ graph_state' = IF NumStarted(n) > 0 THEN "RUNNING" ELSE graph_state
        /\ submitted_count' = submitted_count + NumStarted(n)
        /\ schedule_pending_count' = NumLeftPending(n)
    BY <2>1, <2>2 DEF OwnGraphScheduleGraph
  <2>4. Quiet => n = 0 /\ NumStarted(n) = 0 /\ NumLeftPending(n) = 0
    <3>1. NumStarted(n) \in 0 .. Len(free_q) /\ NumStarted(n) <= n + schedule_pending_count
      BY <1>0, <2>1, NumStartedBounds
    <3>2. Len(free_q) \in Nat
      BY <1>0, LenProperties DEF TypeOK
    <3>3. Quiet => n = 0 /\ schedule_pending_count = 0
      BY DEF Quiet
    <3>4. Quiet => NumStarted(n) = 0
      BY <3>1, <3>2, <3>3
    <3> QED BY <3>3, <3>4 DEF NumLeftPending
  <2>5. Quiet => Quiet'
    BY <1>0, <2>1, <2>3, <2>4 DEF Quiet, TypeOK, HostStates
  <2> QED BY <2>1, <2>3, <2>5 DEF InFlightStarted, InFlight
<1>5. CASE HostAction
  BY <1>0, <1>5 DEF HostAction, Quiet, InFlightStarted, InFlight, Free, IdleHost, TypeOK,
                    AbandonedPipe, HostStates
<1>6. CASE \E n \in Nodes, p \in Pipes : NodeExecute(n, p) \/ NodeComplete(n, p)
  BY <1>6 DEF NodeExecute, NodeComplete, Quiet, InFlightStarted, InFlight, Free
<1> QED BY <1>1, <1>2, <1>3, <1>4, <1>5, <1>6 DEF HostNext

\* An execution that is asked for is started, or others are in flight.
LEMMA StreamerSchedules ==
  ASSUME SchedInv, InFlightStarted, AppSchedule(Streamer)
  PROVE  /\ graph_state' # "VERIFIED" /\ InFlightStarted'
         /\ app'[Streamer].pc = "idle"
<1> DEFINE n == app[Streamer].n
<1>0. TypeOK /\ DescriptorsConserved /\ RunningIffSubmitted /\ CallArguments
  BY DEF SchedInv
<1>1. n \in Nat \ {0} /\ OwnGraphScheduleGraph(n)
  BY <1>0, StreamerIsApp DEF AppSchedule, TypeOK, AppStates, CallArguments
<1>2. {free_q[i] : i \in 1 .. NumStarted(n)} = Free \ Free'
  BY <1>0, <1>1, ScheduleFreeQueue
<1>3. /\ desc_state' = [p \in Pipes |-> IF p \in Free \ Free' THEN "RUNNING" ELSE desc_state[p]]
      /\ graph_state' = IF NumStarted(n) > 0 THEN "RUNNING" ELSE graph_state
  BY <1>1, <1>2 DEF OwnGraphScheduleGraph
<1>4. NumStarted(n) > 0 \/ submitted_count > 0
  <2>1. \/ NumStarted(n) = Len(free_q)
        \/ NumStarted(n) = n + schedule_pending_count
    BY <1>0, <1>1, NumStartedBounds
  <2>2. Len(free_q) \in Nat /\ submitted_count \in Nat /\ schedule_pending_count \in Nat
    BY <1>0, LenProperties DEF TypeOK
  <2>3. submitted_count + Len(free_q) > 0
    BY <1>0, DepthAssumption DEF DescriptorsConserved
  <2> QED BY <1>1, <2>1, <2>2, <2>3
<1>5. graph_state' # "VERIFIED"
  BY <1>0, <1>3, <1>4 DEF RunningIffSubmitted
<1>6. app'[Streamer].pc = "idle"
  BY <1>0, StreamerIsApp DEF TypeOK, IdleApp, AppSchedule
<1> QED BY <1>3, <1>5, <1>6 DEF InFlightStarted, InFlight

-----------------------------------------------------------------------------
\* The event queue.

\* What is added comes last.
LEMMA PutEffect ==
  ASSUME Sound, Sound', NEW x \in {"owner", "host"}, StreamQueue!PutEvent(x)
  PROVE  /\ InHand' = InHand /\ adding[x].busy
         /\ adding' = [adding EXCEPT ![x] = StreamQueue!NotAdding]
         /\ \A a : IsIn(a, Waiting') <=> IsIn(a, Waiting) \/ a = adding[x].event
         /\ NoneAfterStop /\ ~IsIn("STOP", Waiting) => NoneAfterStop'
         /\ NoneAfterStop /\ adding[x].event \notin {"START", "STOP"} => NoneAfterStop'
<1> DEFINE event == adding[x].event
<1>1. /\ InHand' = InHand /\ event \in StreamEvents /\ Waiting' = Append(Waiting, event)
  BY QueueIsSound, SameQueue, QueueProofs!AddEnds DEF Sound, Waiting, InHand
<1>2. Waiting \in Seq(StreamEvents)
  BY QueueProofs!WaitingIsSeq DEF Sound, Waiting
<1>3. /\ Len(Waiting') = Len(Waiting) + 1 /\ Len(Waiting) \in Nat
      /\ \A i \in 1 .. Len(Waiting) : Waiting'[i] = Waiting[i]
      /\ Waiting'[Len(Waiting) + 1] = event
      /\ \A a : IsIn(a, Waiting') <=> IsIn(a, Waiting) \/ a = event
  BY <1>1, <1>2, AppendIsIn, LenProperties
<1>4. \A i, j \in 1 .. Len(Waiting') : i < j =>
         /\ i \in 1 .. Len(Waiting)
         /\ j \in 1 .. Len(Waiting) \/ Waiting'[j] = event
  BY <1>3
<1>5. ASSUME NoneAfterStop, ~IsIn("STOP", Waiting) \/ event \notin {"START", "STOP"}
      PROVE  NoneAfterStop'
  BY <1>3, <1>4, <1>5 DEF NoneAfterStop, IsIn
<1>6. adding[x].busy /\ adding' = [adding EXCEPT ![x] = StreamQueue!NotAdding]
  BY DEF StreamQueue!PutEvent
<1> QED BY <1>1, <1>3, <1>5, <1>6

\* What is taken was the first.
LEMMA TakeEffect ==
  ASSUME Sound, Sound', StreamQueue!TakeIndex
  PROVE  /\ InHand = "none" /\ IsIn(InHand', Waiting) /\ adding' = adding
         /\ \A a : IsIn(a, Waiting') => IsIn(a, Waiting)
         /\ NoneAfterStop => NoneAfterStop'
         /\ NoneAfterStop /\ InHand' = "STOP" =>
               ~IsIn("START", Waiting') /\ ~IsIn("STOP", Waiting')
<1>1. /\ InHand = "none" /\ Waiting # <<>>
      /\ InHand' = Head(Waiting) /\ Waiting' = Tail(Waiting)
  BY QueueIsSound, SameQueue, QueueProofs!ReadBegins DEF Sound, Waiting, InHand
<1>2. Waiting \in Seq(StreamEvents)
  BY QueueProofs!WaitingIsSeq DEF Sound, Waiting
<1>3. /\ Len(Waiting) \in Nat \ {0} /\ InHand' = Waiting[1] /\ Len(Waiting') = Len(Waiting) - 1
      /\ \A i \in 1 .. Len(Waiting') : Waiting'[i] = Waiting[i + 1]
  BY <1>1, <1>2, EmptySeq, HeadTailProperties, LenProperties
<1>4. \A i \in 1 .. Len(Waiting') : i + 1 \in 1 .. Len(Waiting) /\ 1 < i + 1
  BY <1>3
<1>5. \A a : IsIn(a, Waiting') => IsIn(a, Waiting)
  BY <1>3, <1>4 DEF IsIn
<1>6. NoneAfterStop => NoneAfterStop'
  BY <1>3, <1>4 DEF NoneAfterStop
<1>7. 1 \in 1 .. Len(Waiting)
  BY <1>3
<1>8. NoneAfterStop /\ InHand' = "STOP" => ~IsIn("START", Waiting') /\ ~IsIn("STOP", Waiting')
  BY <1>3, <1>4, <1>7 DEF NoneAfterStop, IsIn
<1>9. IsIn(InHand', Waiting)
  BY <1>3, <1>7 DEF IsIn
<1> QED BY <1>1, <1>5, <1>6, <1>8, <1>9 DEF StreamQueue!TakeIndex

\* Nothing else changes the queue.
LEMMA GetEffect ==
  ASSUME NEW x, NEW event, StreamQueue!GetIndex(x, event)
  PROVE  /\ Waiting' = Waiting /\ InHand' = InHand /\ ~adding[x].busy
         /\ \E idx : adding' = [adding EXCEPT ![x] =
                                 [busy |-> TRUE, idx |-> idx, event |-> event]]
<1>1. Waiting' = Waiting /\ InHand' = InHand
  BY SameQueue, QueueProofs!AddBegins DEF Waiting, InHand
<1> QED BY <1>1 DEF StreamQueue!GetIndex

LEMMA HasEventEffect ==
  ASSUME Sound, NEW event, HasEvent(event)
  PROVE  /\ InHand = event /\ InHand' = "none" /\ Waiting' = Waiting /\ adding' = adding
         /\ TaskIdle
<1>1. InHand = QueueProofs!EventRead /\ InHand' = "none" /\ Waiting' = Waiting
  BY QueueIsSound, SameQueue, QueueProofs!ReadEnds DEF Sound, HasEvent, Waiting, InHand
<1> QED
  BY <1>1 DEF HasEvent, StreamQueue!GiveIndexBack, StreamQueue!EventRead, QueueProofs!EventRead

LEMMA QueueUnchanged ==
  ASSUME UNCHANGED queue_vars
  PROVE  Waiting' = Waiting /\ InHand' = InHand /\ adding' = adding
  BY QueueProofs!QueueAlone DEF queue_vars, QueueProofs!queue_vars, Waiting, InHand

-----------------------------------------------------------------------------
\* The steps of the owner.

\* What they need to know of the scheduler, which they leave alone.
LEMMA ScheduleUnchanged ==
  ASSUME UNCHANGED vars, TaskStates, UNCHANGED task_vars
  PROVE  TaskStates' /\ Quiet' = Quiet /\ stream_state' = stream_state /\ stopping' = stopping
<1>1. Quiet' = Quiet
  BY DEF vars, sched_vars, Quiet
<1>2. InFlightStarted' = InFlightStarted
  BY DEF vars, sched_vars, InFlightStarted, InFlight, Free
<1>3. app' = app /\ graph_state' = graph_state
  BY DEF vars, sched_vars
<1> QED BY <1>1, <1>2, <1>3 DEF TaskStates, task_vars

LEMMA AddersTypes ==
  ASSUME Sound
  PROVE  \E R : adding \in [{"owner", "host"} -> R]
  BY DEF Sound, QueueProofs!QueueInv, QueueProofs!QueueTypeOK

\* SendEvent of an event: it is being added, or nothing has happened.
LEMMA SendEffect ==
  ASSUME Sound, AddersApart, NEW event, NEW next, NEW dropped,
         SendEvent(event, next, dropped),
         owner \notin {"start_put", "stop_put", "delete_put"}
  PROVE  /\ Waiting' = Waiting /\ InHand' = InHand /\ adding'["host"] = adding["host"]
         /\ \/ owner' = next /\ adding'["owner"].busy /\ adding'["owner"].event = event
            \/ owner' = dropped /\ ~adding'["owner"].busy
<1>1. CASE StreamQueue!QueueFull
  BY <1>1, QueueUnchanged DEF SendEvent, AddersApart
<1>2. CASE ~StreamQueue!QueueFull
  <2>1. owner' = next /\ StreamQueue!GetIndex("owner", event)
    BY <1>2 DEF SendEvent
  <2> QED BY <2>1, GetEffect, AddersTypes
<1> QED BY <1>1, <1>2

LEMMA StartStep ==
  ASSUME Sound, StopInv, VxStartGraphStreaming PROVE StopInv'
<1>1. /\ owner = "idle" /\ is_streaming' = TRUE /\ stop_done' = stop_done
      /\ SendEvent("START", "start_put", "idle") /\ UNCHANGED <<vars, task_vars>>
  BY DEF VxStartGraphStreaming
<1>2. /\ Waiting' = Waiting /\ InHand' = InHand /\ adding'["host"] = adding["host"]
      /\ \/ owner' = "start_put" /\ adding'["owner"].busy /\ adding'["owner"].event = "START"
         \/ owner' = "idle" /\ ~adding'["owner"].busy
  BY <1>1, SendEffect DEF StopInv
<1>3. TaskStates' /\ Quiet' = Quiet /\ stream_state' = stream_state /\ stopping' = stopping
  BY <1>1, ScheduleUnchanged DEF StopInv
<1>4. AddersApart'
  BY <1>1, <1>2 DEF StopInv, AddersApart
<1>5. StopIsLast'
  BY <1>1, <1>2 DEF StopInv, StopIsLast, NoneAfterStop
<1>6. Stops'
  BY <1>1, <1>2, <1>3 DEF StopInv, Stops
<1> QED BY <1>3, <1>4, <1>5, <1>6 DEF StopInv

LEMMA StopBeginsStep ==
  ASSUME Sound, StopInv, VxStopGraphStreaming PROVE StopInv'
<1>1. /\ owner = "idle" /\ owner' = "stop_send" /\ is_streaming' = TRUE
      /\ stop_done' = FALSE /\ UNCHANGED <<vars, task_vars, queue_vars>>
  BY DEF VxStopGraphStreaming, Sound, StreamTypeOK
<1>2. Waiting' = Waiting /\ InHand' = InHand /\ adding' = adding
  BY <1>1, QueueUnchanged
<1>3. TaskStates' /\ Quiet' = Quiet /\ stream_state' = stream_state /\ stopping' = stopping
  BY <1>1, ScheduleUnchanged DEF StopInv
<1>4. AddersApart' /\ StopIsLast' /\ Stops'
  BY <1>1, <1>2, <1>3 DEF StopInv, AddersApart, StopIsLast, NoneAfterStop, Stops
<1> QED BY <1>3, <1>4 DEF StopInv

LEMMA StopSendStep ==
  ASSUME Sound, StopInv, StopSend PROVE StopInv'
<1>1. /\ owner = "stop_send" /\ UNCHANGED <<vars, task_vars, flag_vars>>
      /\ \/ owner' = "error_wait" /\ UNCHANGED queue_vars
         \/ SendEvent("STOP", "stop_put", "idle")
  BY DEF StopSend
<1>2. /\ Waiting' = Waiting /\ InHand' = InHand /\ adding'["host"] = adding["host"]
      /\ \/ owner' = "stop_put" /\ adding'["owner"].busy /\ adding'["owner"].event = "STOP"
         \/ owner' \in {"idle", "error_wait"} /\ ~adding'["owner"].busy
  <2>1. CASE SendEvent("STOP", "stop_put", "idle")
    BY <1>1, <2>1, SendEffect DEF StopInv
  <2>2. CASE owner' = "error_wait" /\ UNCHANGED queue_vars
    BY <1>1, <2>2, QueueUnchanged DEF StopInv, AddersApart
  <2> QED BY <1>1, <2>1, <2>2
<1>3. TaskStates' /\ Quiet' = Quiet /\ stream_state' = stream_state /\ stopping' = stopping
  BY <1>1, ScheduleUnchanged DEF StopInv
<1>4. AddersApart'
  BY <1>1, <1>2 DEF StopInv, AddersApart
<1>5. StopIsLast'
  BY <1>1, <1>2 DEF StopInv, StopIsLast, NoneAfterStop
<1>6. Stops'
  BY <1>1, <1>2, <1>3 DEF StopInv, Stops, flag_vars
<1> QED BY <1>3, <1>4, <1>5, <1>6 DEF StopInv

LEMMA StopEndsStep ==
  ASSUME Sound, StopInv, StopWait PROVE StopInv'
<1>1. /\ owner = "stop_wait" /\ owner' = "idle" /\ stop_done /\ ~stop_done'
      /\ ~is_streaming' /\ UNCHANGED <<vars, task_vars, queue_vars>>
  BY DEF StopWait, StopInv, Stops
<1>2. Waiting' = Waiting /\ InHand' = InHand /\ adding' = adding
  BY <1>1, QueueUnchanged
<1>3. TaskStates' /\ Quiet' = Quiet /\ stream_state' = stream_state /\ stopping' = stopping
  BY <1>1, ScheduleUnchanged DEF StopInv
<1>4. ~Outstanding("START") /\ ~Outstanding("STOP")
  BY <1>1 DEF StopInv, Stops
<1>5. AddersApart' /\ StopIsLast'
  BY <1>1, <1>2, <1>4 DEF StopInv, AddersApart, StopIsLast, NoneAfterStop, Outstanding
<1>6. Stops'
  BY <1>1, <1>2, <1>3, <1>4 DEF StopInv, Stops, Outstanding
<1> QED BY <1>3, <1>5, <1>6 DEF StopInv

LEMMA ReleaseStep ==
  ASSUME Sound, StopInv, VxReleaseGraph PROVE StopInv'
<1>1. /\ owner = "idle" /\ UNCHANGED <<vars, task_vars, is_streaming, stop_done>>
      /\ \/ owner' = "released" /\ UNCHANGED queue_vars
         \/ SendEvent("DELETE", "delete_put", "delete_wait")
  BY DEF VxReleaseGraph
<1>2. /\ Waiting' = Waiting /\ InHand' = InHand /\ adding'["host"] = adding["host"]
      /\ \/ owner' = "delete_put" /\ adding'["owner"].busy /\ adding'["owner"].event = "DELETE"
         \/ owner' \in {"released", "delete_wait"} /\ ~adding'["owner"].busy
  <2>1. CASE SendEvent("DELETE", "delete_put", "delete_wait")
    BY <1>1, <2>1, SendEffect DEF StopInv
  <2>2. CASE owner' = "released" /\ UNCHANGED queue_vars
    BY <1>1, <2>2, QueueUnchanged DEF StopInv, AddersApart
  <2> QED BY <1>1, <2>1, <2>2
<1>3. TaskStates' /\ Quiet' = Quiet /\ stream_state' = stream_state /\ stopping' = stopping
  BY <1>1, ScheduleUnchanged DEF StopInv
<1>4. AddersApart'
  BY <1>1, <1>2 DEF StopInv, AddersApart
<1>5. StopIsLast'
  BY <1>1, <1>2 DEF StopInv, StopIsLast, NoneAfterStop
<1>6. Stops'
  BY <1>1, <1>2, <1>3 DEF StopInv, Stops, Outstanding
<1> QED BY <1>3, <1>4, <1>5, <1>6 DEF StopInv

LEMMA DeleteWaitStep ==
  ASSUME Sound, StopInv, DeleteWait PROVE StopInv'
<1>1. /\ owner = "delete_wait" /\ owner' = "released"
      /\ UNCHANGED <<vars, task_vars, queue_vars, is_streaming, stop_done>>
  BY DEF DeleteWait
<1>2. Waiting' = Waiting /\ InHand' = InHand /\ adding' = adding
  BY <1>1, QueueUnchanged
<1>3. TaskStates' /\ Quiet' = Quiet /\ stream_state' = stream_state /\ stopping' = stopping
  BY <1>1, ScheduleUnchanged DEF StopInv
<1>4. AddersApart' /\ StopIsLast'
  BY <1>1, <1>2 DEF StopInv, AddersApart, StopIsLast, NoneAfterStop
<1>5. Stops'
  BY <1>1, <1>2, <1>3 DEF StopInv, Stops, Outstanding
<1> QED BY <1>3, <1>4, <1>5 DEF StopInv

LEMMA OwnerPutStep ==
  ASSUME Sound, Sound', StopInv, OwnerPut PROVE StopInv'
<1>1. /\ owner \in {"start_put", "stop_put", "delete_put"}
      /\ StreamQueue!PutEvent("owner") /\ UNCHANGED <<vars, task_vars, flag_vars>>
      /\ owner = "start_put" => owner' = "idle"
      /\ owner = "stop_put" => owner' = "stop_wait"
      /\ owner = "delete_put" => owner' = "delete_wait"
  BY DEF OwnerPut
<1> DEFINE event == adding["owner"].event
<1>2. /\ InHand' = InHand /\ adding["owner"].busy
      /\ \A a : IsIn(a, Waiting') <=> IsIn(a, Waiting) \/ a = event
      /\ NoneAfterStop /\ ~IsIn("STOP", Waiting) => NoneAfterStop'
      /\ ~adding'["owner"].busy /\ adding'["host"] = adding["host"]
  BY <1>1, PutEffect, AddersTypes DEF StreamQueue!NotAdding
<1>3. TaskStates' /\ Quiet' = Quiet /\ stream_state' = stream_state /\ stopping' = stopping
  BY <1>1, ScheduleUnchanged DEF StopInv
<1>4. InHand # "STOP" /\ ~IsIn("STOP", Waiting)
  BY <1>1 DEF StopInv, StopIsLast
<1>5. /\ owner = "start_put" => event = "START"
      /\ owner = "stop_put" => event = "STOP"
      /\ owner = "delete_put" => event = "DELETE"
  BY <1>1 DEF StopInv, AddersApart
<1>6. AddersApart'
  BY <1>1, <1>2 DEF StopInv, AddersApart
<1>7. StopIsLast'
  BY <1>1, <1>2, <1>4, <1>5 DEF StopInv, StopIsLast
<1>8. Stops'
  BY <1>1, <1>2, <1>3, <1>5 DEF StopInv, Stops, Outstanding, flag_vars
<1> QED BY <1>3, <1>6, <1>7, <1>8 DEF StopInv

-----------------------------------------------------------------------------
\* The steps of the streaming task.

LEMMA TakeEventStep ==
  ASSUME Sound, Sound', StopInv, TakeEvent PROVE StopInv'
<1>1. /\ StreamQueue!TakeIndex /\ UNCHANGED <<vars, task_vars, flag_vars, owner>>
  BY DEF TakeEvent
<1>2. /\ InHand = "none" /\ IsIn(InHand', Waiting) /\ adding' = adding
      /\ \A a : IsIn(a, Waiting') => IsIn(a, Waiting)
      /\ NoneAfterStop => NoneAfterStop'
      /\ NoneAfterStop /\ InHand' = "STOP" =>
            ~IsIn("START", Waiting') /\ ~IsIn("STOP", Waiting')
  BY <1>1, TakeEffect
<1>3. TaskStates' /\ Quiet' = Quiet /\ stream_state' = stream_state /\ stopping' = stopping
  BY <1>1, ScheduleUnchanged DEF StopInv
<1>4. AddersApart' /\ StopIsLast'
  BY <1>1, <1>2 DEF StopInv, AddersApart, StopIsLast
<1>5. Stops'
  BY <1>1, <1>2, <1>3 DEF StopInv, Stops, Outstanding, flag_vars
<1> QED BY <1>3, <1>4, <1>5 DEF StopInv

\* A call of ownGraphScheduleGraph by the task gets to its locked part.
LEMMA ScheduleCallEffect ==
  ASSUME Sound, NEW checks_state \in BOOLEAN, ScheduleCall(Streamer, checks_state),
         checks_state => graph_state # "RUNNING"
  PROVE  /\ app'[Streamer].pc = "schedule" /\ Quiet' = Quiet
         /\ InFlightStarted' = InFlightStarted /\ graph_state' = graph_state
<1>1. TypeOK /\ graph_state \in GraphStates
  BY DEF Sound, SchedInv, TypeOK
<1>2. app' = [app EXCEPT ![Streamer] = InCall("schedule", 1, 0)]
  <2>1. checks_state => graph_state \in {"VERIFIED", "COMPLETED", "ABANDONED"}
    BY <1>1 DEF GraphStates
  <2>2. app' = [app EXCEPT ![Streamer] =
                  IF (checks_state => graph_state \in {"VERIFIED", "COMPLETED", "ABANDONED"})
                       /\ (IF Mode = "NORMAL" THEN 1 ELSE ready) > 0
                  THEN InCall("schedule", IF Mode = "NORMAL" THEN 1 ELSE ready, 0)
                  ELSE IdleApp("SUCCESS")]
    BY DEF ScheduleCall
  <2>3. Mode = "NORMAL" /\ 1 > 0
    BY StreamerIsApp
  <2> QED BY <2>1, <2>2, <2>3
<1>3. app'[Streamer].pc = "schedule"
  BY <1>1, <1>2, StreamerIsApp DEF TypeOK, InCall
<1> QED BY <1>3 DEF ScheduleCall, sched_vars, Quiet, InFlightStarted, InFlight, Free

\* The event in the task's hands is served and gone.
LEMMA ServedEvent ==
  ASSUME Sound, StopInv, NEW event, HasEvent(event), owner' = owner
  PROVE  AddersApart' /\ StopIsLast' /\ (\A e \in Commands : Outstanding(e)' => Outstanding(e))
<1>1. InHand' = "none" /\ Waiting' = Waiting /\ adding' = adding
  BY HasEventEffect
<1>2. AddersApart'
  BY <1>1 DEF StopInv, AddersApart
<1>3. StopIsLast'
  BY <1>1 DEF StopInv, StopIsLast, NoneAfterStop
<1>4. \A e \in Commands : Outstanding(e)' => Outstanding(e)
  BY <1>1 DEF Outstanding, Commands
<1> QED BY <1>2, <1>3, <1>4

LEMMA OnStartStep ==
  ASSUME Sound, StopInv, OnStart PROVE StopInv'
<1>1. /\ HasEvent("START") /\ stream_state' = "RUNNING" /\ stopping' = stopping
      /\ UNCHANGED <<flag_vars, owner>>
      /\ stream_state = "IDLE" => ScheduleCall(Streamer, TRUE)
      /\ stream_state # "IDLE" => UNCHANGED vars
  BY DEF OnStart
<1>2. TaskIdle /\ InHand = "START"
  BY <1>1, HasEventEffect
<1>3. AddersApart' /\ StopIsLast'
  BY <1>1, ServedEvent
<1>4. ~stopping /\ ~stop_done /\ is_streaming
  BY <1>2 DEF StopInv, Stops, Outstanding
<1>5. Stops'
  BY <1>1, <1>4 DEF StopInv, Stops, flag_vars
<1>6. CASE stream_state = "IDLE"
  <2>1. Quiet
    BY <1>4, <1>6 DEF StopInv, TaskStates
  <2>2. graph_state # "RUNNING"
    BY <2>1 DEF Quiet, Sound, SchedInv, RunningIffSubmitted
  <2>3. app'[Streamer].pc = "schedule" /\ InFlightStarted' = InFlightStarted
    BY <1>1, <1>6, <2>2, ScheduleCallEffect
  <2>4. TaskStates'
    BY <1>1, <1>4, <2>3 DEF StopInv, TaskStates
  <2> QED BY <1>3, <1>5, <2>4 DEF StopInv
<1>7. CASE stream_state = "RUNNING"
  <2>1. TaskStates'
    BY <1>1, <1>7, ScheduleUnchanged DEF StopInv, task_vars
  <2> QED BY <1>3, <1>5, <2>1 DEF StopInv
<1> QED BY <1>2, <1>6, <1>7 DEF TaskIdle, Sound, StreamTypeOK

LEMMA OnStreamingEventStep ==
  ASSUME Sound, StopInv, OnStreamingEvent PROVE StopInv'
<1>1. /\ HasEvent("STREAMING_EVENT") /\ UNCHANGED <<task_vars, flag_vars, owner>>
      /\ \/ UNCHANGED vars
         \/ stream_state = "RUNNING" /\ ScheduleCall(Streamer, FALSE)
  BY DEF OnStreamingEvent, Retriggers
<1>2. AddersApart' /\ StopIsLast' /\ (\A e \in Commands : Outstanding(e)' => Outstanding(e))
  BY <1>1, ServedEvent
<1>3. TaskStates' /\ (Quiet' = Quiet)
  <2>1. CASE UNCHANGED vars
    BY <1>1, <2>1, ScheduleUnchanged DEF StopInv
  <2>2. CASE stream_state = "RUNNING" /\ ScheduleCall(Streamer, FALSE)
    <3>1. /\ app'[Streamer].pc = "schedule" /\ Quiet' = Quiet
          /\ InFlightStarted' = InFlightStarted
      BY <2>2, ScheduleCallEffect
    <3> QED BY <1>1, <2>2, <3>1 DEF StopInv, TaskStates, task_vars
  <2> QED BY <1>1, <2>1, <2>2
<1>4. Stops'
  BY <1>1, <1>2, <1>3 DEF StopInv, Stops, Commands, task_vars, flag_vars
<1> QED BY <1>2, <1>3, <1>4 DEF StopInv

LEMMA OnStopStep ==
  ASSUME Sound, StopInv, OnStop PROVE StopInv'
<1>1. /\ HasEvent("STOP") /\ stream_state' = "IDLE"
      /\ UNCHANGED <<is_streaming, owner>>
  BY DEF OnStop
<1>2. /\ TaskIdle /\ InHand = "STOP" /\ InHand' = "none"
      /\ Waiting' = Waiting /\ adding' = adding
  BY <1>1, HasEventEffect
<1>3. AddersApart' /\ StopIsLast'
  BY <1>1, ServedEvent
<1>4. /\ owner = "stop_wait" /\ is_streaming /\ ~adding["owner"].busy
      /\ ~IsIn("START", Waiting) /\ ~IsIn("STOP", Waiting)
  BY <1>2 DEF StopInv, StopIsLast, Stops, AddersApart
<1>5. ~Outstanding("START")' /\ ~Outstanding("STOP")'
  BY <1>2, <1>4 DEF Outstanding
<1>6. ~stop_done /\ ~stopping /\ app[Streamer].pc = "idle"
  BY <1>2 DEF StopInv, Stops, Outstanding, TaskIdle
<1>7. CASE stream_state = "RUNNING"
  <2>1. /\ stopping' = TRUE /\ stop_done' = stop_done /\ VxWaitGraph(Streamer)
        /\ graph_state # "VERIFIED"
    BY <1>6, <1>7 DEF OnStop, StopInv, TaskStates
  <2>2. TypeOK
    BY DEF Sound, SchedInv
  <2>3. app' = [app EXCEPT ![Streamer] = InCall("wait", requested, 0)]
    BY <2>1, <2>2 DEF VxWaitGraph, TypeOK, GraphStates
  <2>4. app'[Streamer].pc = "wait"
    BY <2>2, <2>3, StreamerIsApp DEF TypeOK, InCall
  <2>5. InFlightStarted'
    BY <2>1 DEF VxWaitGraph, sched_vars, StopInv, TaskStates, InFlightStarted, InFlight, Free
  <2>6. TaskStates'
    BY <1>1, <2>1, <2>4, <2>5 DEF TaskStates
  <2>7. Stops'
    BY <1>1, <1>4, <1>5, <1>6, <2>1 DEF Stops
  <2> QED BY <1>3, <2>6, <2>7 DEF StopInv
<1>8. CASE stream_state = "IDLE"
  <2>1. stop_done' = TRUE /\ UNCHANGED <<vars, task_vars>>
    BY <1>1, <1>8 DEF OnStop, task_vars
  <2>2. TaskStates' /\ Quiet' = Quiet /\ stream_state' = stream_state /\ stopping' = stopping
    BY <2>1, ScheduleUnchanged DEF StopInv
  <2>3. Quiet
    BY <1>6, <1>8 DEF StopInv, TaskStates
  <2>4. Stops'
    BY <1>1, <1>4, <1>5, <1>6, <2>1, <2>2, <2>3 DEF Stops
  <2> QED BY <1>3, <2>2, <2>4 DEF StopInv
<1> QED BY <1>2, <1>7, <1>8 DEF TaskIdle, Sound, StreamTypeOK

\* The call that the task is in goes on.
LEMMA TaskCallStep ==
  ASSUME Sound, StopInv, TaskCall PROVE StopInv'
<1>0. UNCHANGED <<queue_vars, task_vars, flag_vars, owner>>
  BY DEF TaskCall
<1>1. Waiting' = Waiting /\ InHand' = InHand /\ adding' = adding
  BY <1>0, QueueUnchanged
<1>2. AddersApart' /\ StopIsLast'
  BY <1>0, <1>1 DEF StopInv, AddersApart, StopIsLast, NoneAfterStop
<1>3. TypeOK /\ SchedInv
  BY DEF Sound, SchedInv
<1>4. CASE AppSchedule(Streamer)
  <2>1. stream_state = "RUNNING" /\ ~stopping
    BY <1>4 DEF AppSchedule, StopInv, TaskStates
  <2>2. /\ graph_state' # "VERIFIED" /\ InFlightStarted'
        /\ app'[Streamer].pc = "idle"
    BY <1>3, <1>4, StreamerSchedules DEF StopInv, TaskStates
  <2>3. TaskStates'
    BY <1>0, <2>1, <2>2 DEF TaskStates, task_vars
  <2>4. Stops'
    BY <1>0, <1>1, <2>1 DEF StopInv, Stops, Outstanding, task_vars, flag_vars
  <2> QED BY <1>2, <2>3, <2>4 DEF StopInv
<1>5. CASE WaitEvent(Streamer) \/ WaitReturn(Streamer)
  <2>1. stopping /\ app[Streamer].pc \in {"wait", "waited"}
    BY <1>5 DEF WaitEvent, WaitReturn, StopInv, TaskStates
  <2>2. Quiet
    BY <1>3, <1>5, <2>1
    DEF WaitEvent, WaitReturn, StopInv, TaskStates, SchedInv, CompletedEventMeansIdle, Quiet
  <2>3. Quiet' /\ InFlightStarted' /\ graph_state' = graph_state
    BY <1>5, <2>2 DEF WaitEvent, WaitReturn, sched_vars, StopInv, TaskStates, Quiet,
                      InFlightStarted, InFlight, Free
  <2>4. app'[Streamer].pc \in {"waited", "idle"}
    BY <1>3, <1>5, StreamerIsApp DEF WaitEvent, WaitReturn, IdleApp, TypeOK, AppStates
  <2>5. TaskStates'
    BY <1>0, <2>1, <2>3, <2>4 DEF StopInv, TaskStates, task_vars
  <2>6. Stops'
    BY <1>0, <1>1, <2>3 DEF StopInv, Stops, Outstanding, task_vars, flag_vars
  <2> QED BY <1>2, <2>5, <2>6 DEF StopInv
<1> QED BY <1>4, <1>5 DEF TaskCall

LEMMA StoppedStep ==
  ASSUME Sound, StopInv, Stopped PROVE StopInv'
<1>1. /\ stopping /\ ~stopping' /\ app[Streamer].pc = "idle" /\ stop_done' = TRUE
      /\ stream_state' \in {stream_state, "EXITED"}
      /\ UNCHANGED <<vars, queue_vars, is_streaming, owner>>
  BY DEF Stopped, StopAnswered, Sound, StreamTypeOK
<1>2. Waiting' = Waiting /\ InHand' = InHand /\ adding' = adding
  BY <1>1, QueueUnchanged
<1>3. AddersApart' /\ StopIsLast'
  BY <1>1, <1>2 DEF StopInv, AddersApart, StopIsLast, NoneAfterStop
<1>4. Quiet /\ stream_state = "IDLE"
  BY <1>1 DEF StopInv, TaskStates
<1>5. Quiet' /\ InFlightStarted' /\ app' = app
  BY <1>1, <1>4 DEF StopInv, TaskStates, vars, sched_vars, Quiet, InFlightStarted, InFlight, Free
<1>6. TaskStates'
  BY <1>1, <1>4, <1>5 DEF TaskStates
<1>7. Stops'
  BY <1>1, <1>2, <1>4, <1>5 DEF StopInv, Stops, Outstanding
<1> QED BY <1>3, <1>6, <1>7 DEF StopInv

LEMMA OnDeleteStep ==
  ASSUME Sound, StopInv, OnDelete PROVE StopInv'
<1>1. /\ HasEvent("DELETE") /\ stream_state' = "EXITED"
      /\ UNCHANGED <<vars, stopping, is_streaming, stop_done, owner>>
  BY DEF OnDelete
<1>2. AddersApart' /\ StopIsLast' /\ (\A e \in Commands : Outstanding(e)' => Outstanding(e)) /\ TaskIdle
  BY <1>1, ServedEvent, HasEventEffect
<1>3. /\ Quiet' = Quiet /\ InFlightStarted' = InFlightStarted /\ app' = app
  BY <1>1 DEF vars, sched_vars, Quiet, InFlightStarted, InFlight, Free
<1>4. TaskStates'
  BY <1>1, <1>2, <1>3 DEF StopInv, TaskStates, TaskIdle
<1>5. Stops'
  BY <1>1, <1>2, <1>3 DEF StopInv, Stops, Commands
<1> QED BY <1>2, <1>4, <1>5 DEF StopInv

-----------------------------------------------------------------------------
\* The steps of the host task, the targets and the threads that wait.

\* The trigger's event says nothing about START and STOP.
LEMMA TriggerStep ==
  ASSUME Sound, Sound', StopInv, HostGetIndex \/ HostPut PROVE StopInv'
<1>1. UNCHANGED <<vars, task_vars, flag_vars, owner>>
  BY DEF HostGetIndex, HostPut
<1>2. TaskStates' /\ Quiet' = Quiet /\ stream_state' = stream_state /\ stopping' = stopping
  BY <1>1, ScheduleUnchanged DEF StopInv
<1>3. /\ InHand' = InHand /\ adding'["owner"] = adding["owner"]
      /\ adding'["host"].busy => adding'["host"].event = "STREAMING_EVENT"
      /\ \A a \in {"START", "STOP"} : IsIn(a, Waiting') => IsIn(a, Waiting)
      /\ NoneAfterStop => NoneAfterStop'
  <2>1. CASE UNCHANGED queue_vars
    BY <2>1, QueueUnchanged DEF NoneAfterStop, StopInv, AddersApart
  <2>2. CASE StreamQueue!GetIndex("host", "STREAMING_EVENT")
    <3>1. Waiting' = Waiting /\ InHand' = InHand
      BY <2>2, GetEffect
    <3>2. /\ adding'["owner"] = adding["owner"]
          /\ adding'["host"].event = "STREAMING_EVENT"
      BY <2>2, GetEffect, AddersTypes
    <3> QED BY <3>1, <3>2 DEF NoneAfterStop
  <2>3. CASE HostPut
    <3>1. StreamQueue!PutEvent("host")
      BY <2>3 DEF HostPut
    <3>2. /\ InHand' = InHand /\ adding["host"].busy
          /\ adding' = [adding EXCEPT !["host"] = StreamQueue!NotAdding]
          /\ \A a : IsIn(a, Waiting') <=> IsIn(a, Waiting) \/ a = adding["host"].event
          /\ NoneAfterStop /\ adding["host"].event \notin {"START", "STOP"} => NoneAfterStop'
      BY <3>1, PutEffect
    <3>3. adding["host"].event = "STREAMING_EVENT"
      BY <3>2 DEF StopInv, AddersApart
    <3>4. adding'["owner"] = adding["owner"] /\ ~adding'["host"].busy
      BY <3>2, AddersTypes DEF StreamQueue!NotAdding
    <3> QED BY <3>2, <3>3, <3>4
  <2> QED BY <2>1, <2>2, <2>3 DEF HostGetIndex
<1>4. AddersApart' /\ StopIsLast'
  BY <1>1, <1>3 DEF StopInv, AddersApart, StopIsLast
<1>5. Stops'
  BY <1>1, <1>2, <1>3 DEF StopInv, Stops, Outstanding, flag_vars
<1> QED BY <1>2, <1>4, <1>5 DEF StopInv

\* Executions go on, and other threads wait, without starting any.
LEMMA OtherStep ==
  ASSUME Sound, StopInv,
         \/ HostStep
         \/ \E a \in Apps \ {Streamer} : WaiterNext(a)
         \/ \E n \in Nodes, p \in Pipes : TargetStep(n, p)
         \/ UNCHANGED stream_vars
  PROVE  StopInv'
<1>1. UNCHANGED <<queue_vars, task_vars, flag_vars, owner>>
  BY DEF HostStep, WaiterNext, TargetStep, stream_vars
<1>2. Waiting' = Waiting /\ InHand' = InHand /\ adding' = adding
  BY <1>1, QueueUnchanged
<1>3. SchedInv /\ InFlightStarted
  BY DEF Sound, StopInv, TaskStates
<1>4. /\ Quiet => Quiet'
      /\ app'[Streamer] = app[Streamer] /\ InFlightStarted'
      /\ graph_state # "VERIFIED" => graph_state' # "VERIFIED"
  <2>1. CASE HostStep \/ \E n \in Nodes, p \in Pipes : TargetStep(n, p)
    <3>1. HostNext \/ \E n \in Nodes, p \in Pipes : NodeExecute(n, p) \/ NodeComplete(n, p)
      BY <2>1 DEF HostStep, HostNext, TargetStep
    <3> QED BY <1>3, <3>1, ExecutionStep
  <2>2. ASSUME NEW a \in Apps \ {Streamer}, WaiterNext(a)
        PROVE  /\ Quiet' = Quiet /\ InFlightStarted' = InFlightStarted
               /\ graph_state' = graph_state /\ app'[Streamer] = app[Streamer]
    <3>1. app \in [Apps -> AppStates]
      BY <1>3 DEF SchedInv, TypeOK
    <3>2. app'[Streamer] = app[Streamer]
      BY <2>2, <3>1, StreamerIsApp DEF WaiterNext, VxWaitGraph, WaitEvent, WaitReturn
    <3> QED BY <2>2, <3>2 DEF WaiterNext, VxWaitGraph, WaitEvent, WaitReturn, sched_vars,
                              Quiet, InFlightStarted, InFlight, Free
  <2>3. CASE UNCHANGED stream_vars
    BY <1>3, <2>3 DEF stream_vars, vars, sched_vars, Quiet, InFlightStarted, InFlight, Free
  <2> QED BY <1>3, <2>1, <2>2, <2>3
<1>5. AddersApart' /\ StopIsLast'
  BY <1>1, <1>2 DEF StopInv, AddersApart, StopIsLast, NoneAfterStop
<1>6. TaskStates'
  BY <1>1, <1>4 DEF StopInv, TaskStates, task_vars
<1>7. Stops'
  BY <1>1, <1>2, <1>4 DEF StopInv, Stops, Outstanding, task_vars, flag_vars
<1> QED BY <1>5, <1>6, <1>7 DEF StopInv

-----------------------------------------------------------------------------
LEMMA StopInvInit ==
  ASSUME StreamInit PROVE StopInv
<1>1. ~adding["owner"].busy /\ ~adding["host"].busy /\ InHand = "none"
  BY DEF StreamInit, StreamQueue!QueueInit, StreamQueue!NotAdding, StreamQueue!NotReading,
         InHand, QueueProofs!InHand
<1>2. Len(Waiting) = 0
  <2>1. ready_queue = <<>> /\ Len(ready_queue) = 0
    BY EmptySeq DEF StreamInit, StreamQueue!QueueInit
  <2>2. Waiting \in [1 .. 0 -> StreamEvents]
    BY <2>1 DEF Waiting, QueueProofs!Waiting
  <2>3. DOMAIN Waiting = 1 .. 0 /\ Waiting \in Seq(StreamEvents)
    BY <2>2, SeqDef
  <2> QED BY <2>3, LenProperties
<1>3. Quiet /\ app[Streamer].pc = "idle"
  BY StreamerIsApp DEF StreamInit, Init, Quiet, IdleHost, IdleApp
<1>4. InFlightStarted
  <2>1. submitted_count = 0 /\ TypeOK /\ DescriptorsConserved
    BY InitInv DEF StreamInit, Init, SchedInv
  <2> QED BY <2>1, InFlightSubmitted DEF InFlightStarted
<1>5. AddersApart
  BY <1>1 DEF AddersApart, StreamInit
<1>6. StopIsLast
  BY <1>1, <1>2 DEF StopIsLast, NoneAfterStop, IsIn
<1>7. TaskStates
  BY <1>3, <1>4 DEF TaskStates, StreamInit
<1>8. Stops
  BY <1>1, <1>2, <1>3 DEF Stops, StreamInit, Outstanding, IsIn
<1> QED BY <1>5, <1>6, <1>7, <1>8 DEF StopInv

LEMMA StopInvNext ==
  ASSUME Sound, Sound', StopInv, [StreamNext]_stream_vars PROVE StopInv'
<1>1. CASE OwnerNext
  BY <1>1, StartStep, StopBeginsStep, StopSendStep, StopEndsStep, ReleaseStep, DeleteWaitStep,
     OwnerPutStep
  DEF OwnerNext, OwnerStep
<1>2. CASE TaskNext
  BY <1>2, TakeEventStep, OnStartStep, OnStreamingEventStep, OnStopStep, OnDeleteStep,
     TaskCallStep, StoppedStep
  DEF TaskNext
<1>3. CASE StreamHostNext
  BY <1>3, TriggerStep, OtherStep DEF StreamHostNext
<1> QED BY <1>1, <1>2, <1>3, OtherStep DEF StreamNext

\* Once vxStopGraphStreaming has returned the graph is idle (vx_khr_pipelining.h
\* 957-958: "when all internally scheduled graph executions are completed").
THEOREM StoppedGraphIsIdle == StreamSpec => []StoppedMeansIdle
<1>1. StreamInit => StopInv
  BY StopInvInit
<1>2. Sound /\ Sound' /\ StopInv /\ [StreamNext]_stream_vars => StopInv'
  BY StopInvNext
<1>3. StreamSpec => []SchedInv
  BY StreamImplementsSchedule, Invariance, PTL
<1>4. StreamSpec => []QueueProofs!QueueInv
  BY QueueIsSound, StreamImplementsQueue, QueueProofs!QueueInvariant, PTL
<1>5. StreamSpec => []Sound
  BY <1>3, <1>4, StreamTypes, PTL DEF Sound
<1>6. StopInv => StoppedMeansIdle
  BY DEF StopInv, Stops, TaskStates, StoppedMeansIdle, Quiet
<1> QED BY <1>1, <1>2, <1>5, <1>6, PTL DEF StreamSpec

-----------------------------------------------------------------------------
\* One next execution.

\* The host task's part of a trigger's event.
HostAdds ==
    /\ event_sent => host.pc = "action" /\ host.node = Trigger
    /\ adding["host"].busy => SendsEvent

\* The owner never has two events of a kind on their way.
OneOfEach ==
    \A c \in Commands : \A i, j \in QueueProofs!Elems :
        QueueProofs!Holds(i, c) /\ QueueProofs!Holds(j, c) => i = j

\* The owner waits for DELETE, and a task that runs has had its START.
OwnerWaits ==
    /\ Outstanding("DELETE") => owner \in {"delete_put", "delete_wait"} /\ ~delete_done
    /\ Outstanding("START") => stream_state # "RUNNING"

\* A task that is not running finds no trigger's event behind START.
NoneBehindStart ==
    stream_state = "IDLE" =>
      /\ \A i, j \in 1 .. Len(Waiting) :
            i < j /\ Waiting[i] = "START" => Waiting[j] # "STREAMING_EVENT"
      /\ InHand = "START" => ~IsIn("STREAMING_EVENT", Waiting)

\* The task asks for one execution at a time.
OneAsked == app[Streamer].pc = "schedule" => app[Streamer].n = 1

EventInv == HostAdds /\ OneOfEach /\ OwnerWaits /\ NoneBehindStart /\ OneAsked

\* The steps that change the event queue.
LEMMA QueueSteps ==
  ASSUME [StreamNext]_stream_vars
  PROVE  \/ UNCHANGED queue_vars
         \/ StreamQueue!GetIndex("owner", "START") /\ VxStartGraphStreaming
         \/ StreamQueue!GetIndex("owner", "STOP") /\ StopSend
         \/ StreamQueue!GetIndex("owner", "DELETE") /\ VxReleaseGraph
         \/ StreamQueue!PutEvent("owner") /\ OwnerPut
         \/ StreamQueue!TakeIndex /\ TakeEvent
         \/ \E event : HasEvent(event)
         \/ StreamQueue!GetIndex("host", "STREAMING_EVENT") /\ HostGetIndex
         \/ StreamQueue!PutEvent("host") /\ HostPut
<1>1. CASE OwnerNext
  BY <1>1 DEF OwnerNext, OwnerStep, VxStartGraphStreaming, VxStopGraphStreaming,
              VxReleaseGraph, StopSend, StopWait, DeleteWait, OwnerPut, SendEvent
<1>2. CASE TaskNext
  BY <1>2 DEF TaskNext, TakeEvent, OnStart, OnStreamingEvent, OnStop, OnDelete, TaskCall,
              Stopped
<1>3. CASE StreamHostNext
  BY <1>3 DEF StreamHostNext, HostGetIndex, HostPut, HostStep
<1>4. CASE \/ \E a \in Apps \ {Streamer} : WaiterNext(a)
           \/ \E n \in Nodes, p \in Pipes : TargetStep(n, p)
           \/ UNCHANGED stream_vars
  BY <1>4 DEF WaiterNext, TargetStep, stream_vars
<1> QED BY <1>1, <1>2, <1>3, <1>4 DEF StreamNext

\* Where the owner's events are.
LEMMA HeldIsOutstanding ==
  ASSUME Sound, AddersApart, NEW c \in Commands, NEW i, QueueProofs!Holds(i, c)
  PROVE  Outstanding(c)
<1>1. c # "STREAMING_EVENT" /\ c # "none"
  BY DEF Commands
<1>2. /\ \A k \in 1 .. Len(ready_queue) : Waiting[k] = event_list[ready_queue[k]]
      /\ Len(Waiting) = Len(ready_queue)
  BY QueueProofs!WaitingIsSeq DEF Sound, Waiting
<1>3. CASE QueueProofs!IsIn(i, ready_queue) /\ event_list[i] = c
  BY <1>2, <1>3 DEF QueueProofs!IsIn, IsIn, Outstanding
<1>4. CASE reading.busy /\ reading.idx = i /\ event_list[i] = c
  BY <1>4 DEF Outstanding, InHand, QueueProofs!InHand, QueueProofs!EventRead
<1>5. CASE \E x \in {"owner", "host"} :
              adding[x].busy /\ adding[x].idx = i /\ adding[x].event = c
  BY <1>1, <1>5 DEF Outstanding, AddersApart
<1> QED BY <1>3, <1>4, <1>5 DEF QueueProofs!Holds

LEMMA WaitingIsHeld ==
  ASSUME Sound, NEW c, IsIn(c, Waiting)
  PROVE  \E i \in QueueProofs!Elems : QueueProofs!IsIn(i, ready_queue) /\ QueueProofs!Holds(i, c)
<1>1. /\ \A k \in 1 .. Len(ready_queue) : Waiting[k] = event_list[ready_queue[k]]
      /\ Len(Waiting) = Len(ready_queue)
  BY QueueProofs!WaitingIsSeq DEF Sound, Waiting
<1>2. PICK k \in 1 .. Len(ready_queue) : event_list[ready_queue[k]] = c
  BY <1>1 DEF IsIn
<1>3. ready_queue[k] \in QueueProofs!Elems
  BY <1>2, ElementOfSeq DEF Sound, QueueProofs!QueueInv, QueueProofs!QueueTypeOK
<1> QED BY <1>2, <1>3 DEF QueueProofs!IsIn, QueueProofs!Holds

LEMMA AddedIsHeld ==
  ASSUME Sound, adding["owner"].busy
  PROVE  /\ adding["owner"].idx \in QueueProofs!Elems
         /\ QueueProofs!Holds(adding["owner"].idx, adding["owner"].event)
  BY DEF Sound, QueueProofs!QueueInv, QueueProofs!QueueTypeOK, QueueProofs!Holds

\* An event of the owner that the task has served was the only one of its kind.
LEMMA ServedWasOnly ==
  ASSUME Sound, OneOfEach, NEW c \in Commands, HasEvent(c)
  PROVE  ~Outstanding(c)'
<1>1. InHand = c /\ InHand' = "none" /\ Waiting' = Waiting /\ adding' = adding
  BY HasEventEffect
<1>2. reading.busy /\ QueueProofs!EventRead = c
  BY DEF HasEvent, StreamQueue!GiveIndexBack, StreamQueue!EventRead, QueueProofs!EventRead
<1> DEFINE k == reading.idx
<1>3. k \in QueueProofs!Elems /\ QueueProofs!Holds(k, c)
  BY <1>2 DEF Sound, QueueProofs!QueueInv, QueueProofs!QueueTypeOK, QueueProofs!Holds,
              QueueProofs!EventRead
<1>4. /\ ~QueueProofs!IsIn(k, ready_queue)
      /\ adding["owner"].busy => adding["owner"].idx # k
  BY <1>2 DEF Sound, QueueProofs!QueueInv, QueueProofs!IndicesApart
<1>5. ~IsIn(c, Waiting)
  BY <1>3, <1>4, WaitingIsHeld DEF OneOfEach
<1>6. ~(adding["owner"].busy /\ adding["owner"].event = c)
  BY <1>3, <1>4, AddedIsHeld DEF OneOfEach
<1>7. c # "none"
  BY DEF Commands
<1> QED BY <1>1, <1>5, <1>6, <1>7 DEF Outstanding

\* An event is outstanding only once the owner has begun to add it.
LEMMA StaysOutstanding ==
  ASSUME Sound, Sound', StopInv, [StreamNext]_stream_vars, NEW c \in Commands, Outstanding(c)'
  PROVE  \/ Outstanding(c)
         \/ c = "START" /\ VxStartGraphStreaming
         \/ c = "STOP" /\ StopSend
         \/ c = "DELETE" /\ VxReleaseGraph
<1>0. c # "STREAMING_EVENT" /\ c # "none" /\ AddersApart
  BY DEF Commands, StopInv
<1>1. CASE UNCHANGED queue_vars
  BY <1>1, QueueUnchanged DEF Outstanding
<1>2. ASSUME NEW event, StreamQueue!GetIndex("owner", event)
      PROVE  Outstanding(c) \/ c = event
  BY <1>2, GetEffect, AddersTypes DEF Outstanding
<1>3. ASSUME NEW x \in {"owner", "host"}, StreamQueue!PutEvent(x) PROVE Outstanding(c)
  <2>1. /\ InHand' = InHand /\ adding[x].busy
        /\ adding' = [adding EXCEPT ![x] = StreamQueue!NotAdding]
        /\ IsIn(c, Waiting') => IsIn(c, Waiting) \/ c = adding[x].event
    BY <1>3, PutEffect
  <2>2. adding'["owner"].busy => adding'["owner"] = adding["owner"]
    BY <2>1, AddersTypes DEF StreamQueue!NotAdding
  <2> QED BY <1>0, <2>1, <2>2 DEF Outstanding, AddersApart
<1>4. CASE StreamQueue!TakeIndex
  BY <1>0, <1>4, TakeEffect DEF Outstanding
<1>5. ASSUME NEW event, HasEvent(event) PROVE Outstanding(c)
  BY <1>0, <1>5, HasEventEffect DEF Outstanding
<1>6. CASE StreamQueue!GetIndex("host", "STREAMING_EVENT")
  BY <1>6, GetEffect, AddersTypes DEF Outstanding
<1> QED BY <1>1, <1>2, <1>3, <1>4, <1>5, <1>6, QueueSteps

\* While the host task has the trigger's command an execution is in flight.
LEMMA TriggerInFlight ==
  ASSUME Trigger \notin Leaves, Sound, NodeCommands, host.pc # "idle", host.node = Trigger
  PROVE  host.pc = "action" /\ ~Quiet
<1>1. TypeOK /\ DescriptorsConserved /\ Trigger \in Nodes
  BY StreamAssumption, NodesAssumption DEF Sound, SchedInv
<1>2. host.pc = "action" /\ host.pipe \in Pipes
  BY <1>1 DEF NodeCommands, TypeOK, HostStates
<1>3. host.pipe \in InFlight
  BY <1>1, <1>2 DEF NodeCommands
<1> QED BY <1>1, <1>2, <1>3, InFlightSubmitted DEF Quiet, TypeOK

\* The host task's state is its own.
LEMMA HostAlone ==
  ASSUME [StreamNext]_stream_vars, ~HostStep PROVE host' = host
<1>1. CASE OwnerNext
  BY <1>1 DEF OwnerNext, OwnerStep, VxStartGraphStreaming, VxStopGraphStreaming,
              VxReleaseGraph, StopSend, StopWait, DeleteWait, OwnerPut, vars
<1>2. CASE TaskNext
  <2>1. ASSUME NEW checks_state, ScheduleCall(Streamer, checks_state) PROVE host' = host
    BY <2>1 DEF ScheduleCall
  <2>2. CASE \/ TakeEvent \/ OnDelete \/ Stopped
    BY <2>2 DEF TakeEvent, OnDelete, Stopped, vars
  <2>3. CASE OnStart \/ OnStreamingEvent
    BY <2>1, <2>3 DEF OnStart, OnStreamingEvent, vars
  <2>4. CASE OnStop
    BY <2>4 DEF OnStop, VxWaitGraph, vars
  <2>5. CASE TaskCall
    BY <2>5 DEF TaskCall, AppSchedule, WaitEvent, WaitReturn
  <2> QED BY <1>2, <2>2, <2>3, <2>4, <2>5 DEF TaskNext
<1>3. CASE HostGetIndex \/ HostPut
  BY <1>3 DEF HostGetIndex, HostPut, vars
<1>4. CASE \E a \in Apps \ {Streamer} : WaiterNext(a)
  BY <1>4 DEF WaiterNext, VxWaitGraph, WaitEvent, WaitReturn
<1>5. CASE \E n \in Nodes, p \in Pipes : TargetStep(n, p)
  BY <1>5 DEF TargetStep, NodeExecute, NodeComplete
<1>6. CASE UNCHANGED stream_vars
  BY <1>6 DEF stream_vars, vars
<1> QED BY <1>1, <1>2, <1>3, <1>4, <1>5, <1>6 DEF StreamNext, StreamHostNext

LEMMA HostAddsNext ==
  ASSUME Sound, StopInv, HostAdds, [StreamNext]_stream_vars PROVE HostAdds'
<1>1. CASE HostStep
  <2>1. UNCHANGED queue_vars
    BY <1>1 DEF HostStep
  <2>2. adding' = adding
    BY <2>1 DEF queue_vars
  <2>3. CASE ~SendsEvent /\ HostAction /\ event_sent' = FALSE
    BY <2>2, <2>3 DEF HostAdds
  <2>4. CASE (HostTake \/ LeafCompleted \/ GraphCompleted \/ HostReschedule) /\ UNCHANGED event_sent
    <3>1. host.pc # "action"
      BY <2>4 DEF HostTake, LeafCompleted, GraphCompleted, HostReschedule
    <3> QED BY <2>2, <2>4, <3>1 DEF HostAdds, SendsEvent
  <2> QED BY <1>1, <2>3, <2>4 DEF HostStep
<1>2. CASE HostGetIndex
  <2>1. SendsEvent /\ ~adding["host"].busy /\ host' = host
    BY <1>2 DEF HostGetIndex, vars
  <2>2. CASE event_sent' = TRUE /\ UNCHANGED queue_vars
    BY <2>1, <2>2 DEF HostAdds, SendsEvent, queue_vars
  <2>3. CASE UNCHANGED event_sent
    BY <2>1, <2>3 DEF HostAdds, SendsEvent
  <2> QED BY <1>2, <2>2, <2>3 DEF HostGetIndex
<1>3. CASE HostPut
  <2>1. StreamQueue!PutEvent("host") /\ event_sent' = TRUE /\ host' = host
    BY <1>3 DEF HostPut, vars
  <2>2. SendsEvent
    BY <2>1 DEF HostAdds, StreamQueue!PutEvent
  <2>3. ~adding'["host"].busy
    BY <2>1, AddersTypes DEF StreamQueue!PutEvent, StreamQueue!NotAdding
  <2> QED BY <2>1, <2>2, <2>3 DEF HostAdds, SendsEvent
<1>4. ASSUME ~StreamHostNext PROVE HostAdds'
  <2>1. host' = host
    BY <1>4, HostAlone DEF StreamHostNext
  <2>2. event_sent' = event_sent
    BY <1>4 DEF StreamNext, OwnerNext, OwnerStep, VxStartGraphStreaming, VxStopGraphStreaming,
                VxReleaseGraph, StopSend, StopWait, DeleteWait, OwnerPut, TaskNext, TakeEvent,
                OnStart, OnStreamingEvent, OnStop, OnDelete, TaskCall, Stopped, WaiterNext,
                TargetStep, stream_vars
  <2>3. adding'["host"] = adding["host"]
    <3>1. \A event : StreamQueue!GetIndex("owner", event) => adding'["host"] = adding["host"]
      BY AddersTypes, GetEffect
    <3>2. StreamQueue!PutEvent("owner") => adding'["host"] = adding["host"]
      BY AddersTypes DEF StreamQueue!PutEvent
    <3>3. \A event : HasEvent(event) => adding' = adding
      BY HasEventEffect
    <3>4. UNCHANGED queue_vars \/ StreamQueue!TakeIndex => adding' = adding
      BY DEF queue_vars, StreamQueue!TakeIndex
    <3> QED BY <1>4, <3>1, <3>2, <3>3, <3>4, QueueSteps DEF StreamHostNext
  <2> QED BY <2>1, <2>2, <2>3 DEF HostAdds, SendsEvent
<1> QED BY <1>1, <1>2, <1>3, <1>4 DEF StreamHostNext

LEMMA OneOfEachNext ==
  ASSUME Sound, StopInv, EventInv, [StreamNext]_stream_vars PROVE OneOfEach'
<1>0. QueueProofs!QueueInv /\ AddersApart /\ OneOfEach
  BY DEF Sound, StopInv, EventInv
<1>1. ASSUME NEW c \in Commands, ~Outstanding(c), StreamQueue!GetIndex("owner", c)
      PROVE  OneOfEach'
  <2>1. \A i \in QueueProofs!Elems : ~QueueProofs!Holds(i, c)
    BY <1>0, <1>1, HeldIsOutstanding
  <2>2. \A i, e : QueueProofs!Holds(i, e)'
           => QueueProofs!Holds(i, e) \/ (i = Head(free_queue) /\ e = c)
    BY <1>0, <1>1, SameQueue, QueueProofs!HoldsGet
  <2>3. ASSUME NEW d \in Commands, NEW i \in QueueProofs!Elems, NEW j \in QueueProofs!Elems,
               QueueProofs!Holds(i, d)', QueueProofs!Holds(j, d)'
        PROVE  i = j
    BY <1>0, <2>1, <2>2, <2>3 DEF OneOfEach
  <2> QED BY <2>3 DEF OneOfEach, QueueProofs!Elems
<1>2. ASSUME \/ \E x \in {"owner", "host"} : StreamQueue!PutEvent(x)
             \/ StreamQueue!TakeIndex \/ StreamQueue!GiveIndexBack \/ UNCHANGED queue_vars
      PROVE  OneOfEach'
  <2>1. \/ \E x \in {"owner", "host"} : QueueProofs!PutEvent(x)
        \/ QueueProofs!TakeIndex \/ QueueProofs!GiveIndexBack
        \/ UNCHANGED QueueProofs!queue_vars
    BY <1>2, SameQueue DEF queue_vars, QueueProofs!queue_vars
  <2>2. \A i \in QueueProofs!Elems : \A e : QueueProofs!Holds(i, e)' => QueueProofs!Holds(i, e)
    BY <1>0, <2>1, QueueProofs!HoldsOther
  <2> QED BY <1>0, <2>2 DEF OneOfEach, QueueProofs!Elems
<1>3. CASE StreamQueue!GetIndex("host", "STREAMING_EVENT")
  <2>1. \A i, e : QueueProofs!Holds(i, e)'
           => QueueProofs!Holds(i, e) \/ (i = Head(free_queue) /\ e = "STREAMING_EVENT")
    BY <1>0, <1>3, SameQueue, QueueProofs!HoldsGet
  <2>2. "STREAMING_EVENT" \notin Commands
    BY DEF Commands
  <2> QED BY <1>0, <2>1, <2>2 DEF OneOfEach, QueueProofs!Elems
<1>4. VxStartGraphStreaming => ~Outstanding("START")
  BY DEF VxStartGraphStreaming, StopInv, Stops
<1>5. StopSend => ~Outstanding("STOP")
  BY DEF StopSend, StopInv, StopIsLast, AddersApart, Outstanding
<1>6. VxReleaseGraph => ~Outstanding("DELETE")
  BY DEF VxReleaseGraph, EventInv, OwnerWaits
<1>7. \A event : HasEvent(event) => StreamQueue!GiveIndexBack
  BY DEF HasEvent
<1>8. "START" \in Commands /\ "STOP" \in Commands /\ "DELETE" \in Commands
  BY DEF Commands
<1> QED BY <1>1, <1>2, <1>3, <1>4, <1>5, <1>6, <1>7, <1>8, QueueSteps

LEMMA OwnerWaitsNext ==
  ASSUME Sound, Sound', StopInv, EventInv, [StreamNext]_stream_vars PROVE OwnerWaits'
<1>0. OwnerWaits /\ OneOfEach /\ "START" \in Commands /\ "DELETE" \in Commands
  BY DEF EventInv, Commands
<1>1. ASSUME Outstanding("DELETE")' PROVE owner' \in {"delete_put", "delete_wait"} /\ ~delete_done'
  <2>1. CASE VxReleaseGraph
    <3>1. CASE owner' = "released" /\ UNCHANGED <<queue_vars, delete_done>>
      <4>1. Outstanding("DELETE")
        BY <1>1, <3>1, QueueUnchanged DEF Outstanding
      <4> QED BY <1>0, <2>1, <4>1 DEF VxReleaseGraph, OwnerWaits
    <3>2. CASE delete_done' = FALSE /\ SendEvent("DELETE", "delete_put", "delete_wait")
      BY <3>2 DEF SendEvent
    <3> QED BY <2>1, <3>1, <3>2 DEF VxReleaseGraph
  <2>2. CASE ~VxReleaseGraph
    <3>1. Outstanding("DELETE")
      BY <1>0, <1>1, <2>2, StaysOutstanding
    <3>2. owner \in {"delete_put", "delete_wait"} /\ ~delete_done
      BY <1>0, <3>1 DEF OwnerWaits
    <3>3. ~OnDelete
      BY <1>0, <1>1, ServedWasOnly DEF OnDelete
    <3>4. ~Stopped
      BY <3>2 DEF Stopped, StopInv, Stops
    <3>5. owner' = owner \/ OwnerPut
      BY <2>2, <3>2 DEF StreamNext, OwnerNext, OwnerStep, VxStartGraphStreaming,
                VxStopGraphStreaming,
                StopSend, StopWait, DeleteWait, TaskNext, TakeEvent,
                OnStart, OnStreamingEvent, OnStop, OnDelete, TaskCall, Stopped, WaiterNext,
                TargetStep, StreamHostNext, HostGetIndex, HostPut, HostStep, stream_vars
    <3>6. delete_done' = delete_done
      BY <2>2, <3>2, <3>3, <3>4 DEF StreamNext, OwnerNext, OwnerStep, VxStartGraphStreaming,
                VxStopGraphStreaming, OwnerPut,
                StopSend, StopWait, DeleteWait, TaskNext, TakeEvent,
                OnStart, OnStreamingEvent, OnStop, TaskCall, WaiterNext,
                TargetStep, StreamHostNext, HostGetIndex, HostPut, HostStep, stream_vars,
                flag_vars
    <3> QED BY <3>2, <3>5, <3>6 DEF OwnerPut
  <2> QED BY <2>1, <2>2
<1>2. ASSUME Outstanding("START")' PROVE stream_state' # "RUNNING"
  <2>1. CASE VxStartGraphStreaming
    BY <2>1 DEF VxStartGraphStreaming, task_vars, StopInv, Stops
  <2>2. CASE ~VxStartGraphStreaming
    <3>1. stream_state # "RUNNING"
      BY <1>0, <1>2, <2>2, StaysOutstanding DEF OwnerWaits
    <3>2. ~OnStart
      BY <1>0, <1>2, ServedWasOnly DEF OnStart
    <3>3. stream_state' = stream_state \/ stream_state' \in {"IDLE", "EXITED"}
      BY <3>2 DEF StreamNext, OwnerNext, OwnerStep, VxStartGraphStreaming,
                VxStopGraphStreaming, VxReleaseGraph, OwnerPut,
                StopSend, StopWait, DeleteWait, TaskNext, TakeEvent, OnDelete, Stopped,
                OnStreamingEvent, OnStop, TaskCall, WaiterNext,
                TargetStep, StreamHostNext, HostGetIndex, HostPut, HostStep, stream_vars,
                task_vars
    <3> QED BY <3>1, <3>3
  <2> QED BY <2>1, <2>2
<1> QED BY <1>1, <1>2 DEF OwnerWaits

\* What is added comes behind everything, what is taken leaves the order alone.
LEMMA BehindPut ==
  ASSUME Sound, Sound', NEW x \in {"owner", "host"}, StreamQueue!PutEvent(x),
         NoneBehindStart, stream_state = "IDLE", adding[x].event # "STREAMING_EVENT"
  PROVE  NoneBehindStart'
<1>1. InHand' = InHand /\ Waiting' = Append(Waiting, adding[x].event) /\ adding[x].event \in StreamEvents
  BY QueueIsSound, SameQueue, QueueProofs!AddEnds DEF Sound, Waiting, InHand
<1>2. Waiting \in Seq(StreamEvents)
  BY QueueProofs!WaitingIsSeq DEF Sound, Waiting
<1>3. /\ Len(Waiting') = Len(Waiting) + 1 /\ Len(Waiting) \in Nat
      /\ \A i \in 1 .. Len(Waiting) : Waiting'[i] = Waiting[i]
      /\ Waiting'[Len(Waiting) + 1] = adding[x].event
      /\ IsIn("STREAMING_EVENT", Waiting') => IsIn("STREAMING_EVENT", Waiting)
  BY <1>1, <1>2, AppendIsIn, LenProperties
<1>4. \A i, j \in 1 .. Len(Waiting') : i < j =>
         /\ i \in 1 .. Len(Waiting)
         /\ j \in 1 .. Len(Waiting) \/ Waiting'[j] = adding[x].event
  BY <1>3
<1> QED BY <1>1, <1>3, <1>4 DEF NoneBehindStart

LEMMA BehindTake ==
  ASSUME Sound, Sound', StreamQueue!TakeIndex, NoneBehindStart, stream_state = "IDLE"
  PROVE  NoneBehindStart'
<1>1. InHand' = Head(Waiting) /\ Waiting' = Tail(Waiting) /\ Waiting # <<>>
  BY QueueIsSound, SameQueue, QueueProofs!ReadBegins DEF Sound, Waiting, InHand
<1>2. Waiting \in Seq(StreamEvents)
  BY QueueProofs!WaitingIsSeq DEF Sound, Waiting
<1>3. /\ Len(Waiting) \in Nat \ {0} /\ InHand' = Waiting[1] /\ Len(Waiting') = Len(Waiting) - 1
      /\ \A i \in 1 .. Len(Waiting') : Waiting'[i] = Waiting[i + 1]
  BY <1>1, <1>2, EmptySeq, HeadTailProperties, LenProperties
<1>4. \A i \in 1 .. Len(Waiting') : i + 1 \in 1 .. Len(Waiting) /\ 1 < i + 1 /\ 1 \in 1 .. Len(Waiting)
  BY <1>3
<1>5. \A i, j \in 1 .. Len(Waiting') : i < j => i + 1 < j + 1
  OBVIOUS
<1>6. InHand' = "START" => ~IsIn("STREAMING_EVENT", Waiting')
  BY <1>3, <1>4 DEF NoneBehindStart, IsIn
<1> QED BY <1>3, <1>4, <1>5, <1>6 DEF NoneBehindStart

LEMMA NoneBehindStartNext ==
  ASSUME Trigger \notin Leaves, NodeCommands, Sound, Sound', StopInv, StopInv', EventInv,
         [StreamNext]_stream_vars
  PROVE  NoneBehindStart'
<1>1. CASE ~Outstanding("START")'
  BY <1>1 DEF Outstanding, NoneBehindStart, IsIn
<1>2. CASE stream_state' # "IDLE"
  BY <1>2 DEF NoneBehindStart
<1>3. CASE Outstanding("START")' /\ stream_state' = "IDLE"
  <2>1. ~stopping' /\ ~stop_done'
    BY <1>3 DEF StopInv, Stops
  <2>2. ~OnStop /\ ~Stopped
    BY <2>1 DEF OnStop, Stopped, StopAnswered
  <2>3. /\ stream_state = "IDLE" /\ ~stopping
    <3>1. CASE OwnerNext
      BY <1>3, <2>1, <3>1 DEF OwnerNext, OwnerStep, VxStartGraphStreaming,
         VxStopGraphStreaming, VxReleaseGraph, OwnerPut, StopSend, StopWait, DeleteWait, task_vars
    <3>2. CASE TaskNext
      <4>1. CASE TakeEvent \/ OnStreamingEvent \/ TaskCall
        <5>1. UNCHANGED task_vars
          BY <4>1 DEF TakeEvent, OnStreamingEvent, TaskCall
        <5> QED BY <1>3, <2>1, <5>1 DEF task_vars
      <4>2. ~OnStart /\ ~OnDelete
        BY <1>3 DEF OnStart, OnDelete
      <4> QED BY <2>2, <3>2, <4>1, <4>2 DEF TaskNext
    <3>3. CASE StreamHostNext
      BY <1>3, <2>1, <3>3 DEF StreamHostNext, HostGetIndex, HostPut, HostStep, task_vars
    <3>4. CASE \/ \E a \in Apps \ {Streamer} : WaiterNext(a)
               \/ \E n \in Nodes, p \in Pipes : TargetStep(n, p)
               \/ UNCHANGED stream_vars
      BY <1>3, <2>1, <3>4 DEF WaiterNext, TargetStep, stream_vars, task_vars
    <3> QED BY <3>1, <3>2, <3>3, <3>4 DEF StreamNext
  <2>4. Quiet /\ NoneBehindStart /\ HostAdds /\ AddersApart
    BY <2>3 DEF StopInv, TaskStates, EventInv
  <2>5. ~adding["host"].busy
    BY <2>4, TriggerInFlight DEF HostAdds, SendsEvent
  <2>6. CASE UNCHANGED queue_vars
    BY <1>3, <2>3, <2>4, <2>6, QueueUnchanged DEF NoneBehindStart
  <2>7. ASSUME NEW x, NEW event, StreamQueue!GetIndex(x, event) PROVE NoneBehindStart'
    BY <2>3, <2>4, <2>7, GetEffect DEF NoneBehindStart
  <2>8. CASE StreamQueue!PutEvent("owner") /\ OwnerPut
    <3>1. adding["owner"].event # "STREAMING_EVENT"
      BY <2>4, <2>8 DEF AddersApart, OwnerPut
    <3> QED BY <2>3, <2>4, <2>8, <3>1, BehindPut
  <2>9. CASE StreamQueue!TakeIndex
    BY <2>3, <2>4, <2>9, BehindTake
  <2>10. ASSUME NEW event, HasEvent(event) PROVE NoneBehindStart'
    BY <2>3, <2>4, <2>10, HasEventEffect DEF NoneBehindStart
  <2>11. ~StreamQueue!PutEvent("host")
    BY <2>5 DEF StreamQueue!PutEvent
  <2> QED BY <2>6, <2>7, <2>8, <2>9, <2>10, <2>11, QueueSteps
<1> QED BY <1>1, <1>2, <1>3

\* A call of the scheduler by the task, which is allowed if it is to look at the state.
LEMMA TaskAsks ==
  ASSUME Sound, NEW checks_state \in BOOLEAN, ScheduleCall(Streamer, checks_state)
  PROVE  app'[Streamer].pc = "schedule" => app'[Streamer].n = 1
<1>1. TypeOK /\ Mode = "NORMAL"
  BY StreamerIsApp DEF Sound, SchedInv
<1>2. app' = [app EXCEPT ![Streamer] = InCall("schedule", 1, 0)]
      \/ app' = [app EXCEPT ![Streamer] = IdleApp("SUCCESS")]
  BY <1>1 DEF ScheduleCall
<1> QED BY <1>1, <1>2, StreamerIsApp DEF TypeOK, InCall, IdleApp

LEMMA OneAskedNext ==
  ASSUME Sound, StopInv, EventInv, [StreamNext]_stream_vars PROVE OneAsked'
<1>0. TypeOK /\ OneAsked
  BY DEF Sound, SchedInv, EventInv
<1>1. CASE OwnerNext
  <2>1. app' = app
    BY <1>1 DEF OwnerNext, OwnerStep, VxStartGraphStreaming, VxStopGraphStreaming,
              VxReleaseGraph, StopSend, StopWait, DeleteWait, OwnerPut, vars
  <2> QED BY <1>0, <2>1 DEF OneAsked
<1>2. CASE TaskNext
  <2>1. CASE \/ TakeEvent \/ OnDelete \/ Stopped
    <3>1. app' = app
      BY <2>1 DEF TakeEvent, OnDelete, Stopped, vars
    <3> QED BY <1>0, <3>1 DEF OneAsked
  <2>2. CASE OnStart \/ OnStreamingEvent
    <3>1. app' = app \/ ScheduleCall(Streamer, TRUE) \/ ScheduleCall(Streamer, FALSE)
      BY <2>2 DEF OnStart, OnStreamingEvent, vars
    <3> QED BY <1>0, <3>1, TaskAsks DEF OneAsked
  <2>3. CASE OnStop
    <3>1. app' = app \/ VxWaitGraph(Streamer)
      BY <2>3 DEF OnStop, vars
    <3>2. VxWaitGraph(Streamer) => app'[Streamer].pc # "schedule"
      BY <1>0, StreamerIsApp DEF VxWaitGraph, TypeOK, InCall, IdleApp
    <3> QED BY <1>0, <3>1, <3>2 DEF OneAsked
  <2>4. CASE TaskCall
    <3>1. app'[Streamer].pc # "schedule"
      BY <1>0, <2>4, StreamerIsApp DEF TaskCall, AppSchedule, WaitEvent, WaitReturn, TypeOK,
         IdleApp, AppStates
    <3> QED BY <3>1 DEF OneAsked
  <2> QED BY <1>2, <2>1, <2>2, <2>3, <2>4 DEF TaskNext
<1>3. CASE StreamHostNext
  <2>1. app' = app
    BY <1>3 DEF StreamHostNext, HostGetIndex, HostPut, HostStep, vars, HostTake, LeafCompleted,
       GraphCompleted, HostReschedule, HostAction
  <2> QED BY <1>0, <2>1 DEF OneAsked
<1>4. ASSUME NEW a \in Apps \ {Streamer}, WaiterNext(a) PROVE OneAsked'
  <2>1. app'[Streamer] = app[Streamer]
    BY <1>0, <1>4, StreamerIsApp DEF WaiterNext, VxWaitGraph, WaitEvent, WaitReturn, TypeOK
  <2> QED BY <1>0, <2>1 DEF OneAsked
<1>5. CASE (\E n \in Nodes, p \in Pipes : TargetStep(n, p)) \/ UNCHANGED stream_vars
  <2>1. app' = app
    BY <1>5 DEF TargetStep, NodeExecute, NodeComplete, stream_vars, vars
  <2> QED BY <1>0, <2>1 DEF OneAsked
<1> QED BY <1>1, <1>2, <1>3, <1>4, <1>5 DEF StreamNext

\* Where the next execution may come from: the scheduler, the trigger's completion, its
\* event.
Untriggered == {p \in InFlight : Trigger \notin executed[p]}
Sending == {p \in Pipes : <<Trigger, p>> \in completing}
TriggerCommands == Places(host_q, {Trigger} \X Pipes)
TriggerEvents == Places(Waiting, {"STREAMING_EVENT"})

Accepted == schedule_pending_count + host.schedule_count + Cardinality(Untriggered)
Completing ==
    Cardinality(Sending) + Cardinality(TriggerCommands)
      + One(host.pc # "idle" /\ host.node = Trigger /\ ~event_sent)
Signalled ==
    Cardinality(TriggerEvents) + One(InHand = "STREAMING_EVENT")
      + One(app[Streamer].pc = "schedule")
Pulse == Accepted + Completing + Signalled

Streams == stream_state = "RUNNING" /\ Registered /\ requested < MaxRequests
OnePulse == Streams => Pulse = 1

LEMMA OneIsNat == \A condition : One(condition) \in {0, 1}
  BY DEF One

LEMMA PulseTypes ==
  ASSUME Sound
  PROVE  /\ IsFiniteSet(Untriggered) /\ Cardinality(Untriggered) \in Nat
         /\ IsFiniteSet(Sending) /\ Cardinality(Sending) \in Nat
         /\ IsFiniteSet(TriggerCommands) /\ Cardinality(TriggerCommands) \in Nat
         /\ IsFiniteSet(TriggerEvents) /\ Cardinality(TriggerEvents) \in Nat
         /\ schedule_pending_count \in Nat /\ host.schedule_count \in Nat
         /\ Accepted \in Nat /\ Completing \in Nat /\ Signalled \in Nat
<1>1. IsFiniteSet(Untriggered) /\ Cardinality(Untriggered) \in Nat
  <2>1. Untriggered \subseteq Pipes
    BY DEF Untriggered, InFlight
  <2> QED BY <2>1, PipesFinite, FS_Subset, FS_CardinalityType
<1>2. IsFiniteSet(TriggerCommands) /\ Cardinality(TriggerCommands) \in Nat
  BY PlacesFinite DEF TriggerCommands, Sound, SchedInv, TypeOK
<1>3. IsFiniteSet(TriggerEvents) /\ Cardinality(TriggerEvents) \in Nat
  <2>1. Waiting \in Seq(StreamEvents)
    BY QueueProofs!WaitingIsSeq DEF Sound, Waiting
  <2> QED BY <2>1, PlacesFinite DEF TriggerEvents
<1>4. schedule_pending_count \in Nat /\ host.schedule_count \in Nat
  BY DEF Sound, SchedInv, TypeOK, HostStates
<1>5. IsFiniteSet(Sending) /\ Cardinality(Sending) \in Nat
  <2>1. Sending \subseteq Pipes
    BY DEF Sending
  <2> QED BY <2>1, PipesFinite, FS_Subset, FS_CardinalityType
<1> QED BY <1>1, <1>2, <1>3, <1>4, <1>5, OneIsNat DEF Accepted, Completing, Signalled

\* It is what the model counts.
LEMMA PulseCounts ==
  ASSUME Sound PROVE NextExecutions = Pulse
<1>1. {i \in 1 .. Len(host_q) : host_q[i][1] = Trigger} = TriggerCommands
  <2>1. host_q \in Seq(Nodes \X Pipes)
    BY DEF Sound, SchedInv, TypeOK
  <2>2. \A i \in 1 .. Len(host_q) : host_q[i] \in Nodes \X Pipes
    BY <2>1, ElementOfSeq
  <2>3. \A i \in 1 .. Len(host_q) : host_q[i][1] = Trigger <=> host_q[i] \in {Trigger} \X Pipes
    BY <2>2
  <2> QED BY <2>3 DEF TriggerCommands, Places
<1>2. {i \in 1 .. Len(ready_queue) : event_list[ready_queue[i]] = "STREAMING_EVENT"} = TriggerEvents
  <2>1. /\ \A k \in 1 .. Len(ready_queue) : Waiting[k] = event_list[ready_queue[k]]
        /\ Len(Waiting) = Len(ready_queue)
    BY QueueProofs!WaitingIsSeq DEF Sound, Waiting
  <2> QED BY <2>1 DEF TriggerEvents, Places
<1>3. One(reading.busy /\ StreamQueue!EventRead = "STREAMING_EVENT") = One(InHand = "STREAMING_EVENT")
  BY DEF One, InHand, QueueProofs!InHand, QueueProofs!EventRead, StreamQueue!EventRead
<1>4. NextExecutions = schedule_pending_count + host.schedule_count
    + Cardinality(Untriggered) + Cardinality(Sending) + Cardinality(TriggerCommands)
    + One(host.pc # "idle" /\ host.node = Trigger /\ ~event_sent)
    + Cardinality(TriggerEvents) + One(InHand = "STREAMING_EVENT")
    + One(app[Streamer].pc = "schedule")
  BY <1>1, <1>2, <1>3 DEF NextExecutions, Untriggered, Sending
<1> QED BY <1>4, PulseTypes, OneIsNat DEF Pulse, Accepted, Completing, Signalled

-----------------------------------------------------------------------------
\* The scheduler's part.

\* What ownGraphScheduleGraph is asked for is started or remembered.
LEMMA ScheduleAccepts ==
  ASSUME SchedInv, NEW num \in Nat, OwnGraphScheduleGraph(num)
  PROVE  /\ schedule_pending_count' \in Nat
         /\ IsFiniteSet(Untriggered) /\ Cardinality(Untriggered) \in Nat
         /\ Cardinality(Untriggered') \in Nat
         /\ schedule_pending_count' + Cardinality(Untriggered')
              = schedule_pending_count + num + Cardinality(Untriggered)
<1> DEFINE k == NumStarted(num)
           started == {free_q[i] : i \in 1 .. k}
<1>0. TypeOK /\ DescriptorsConserved /\ RemembersPending
  BY StreamerIsApp DEF SchedInv, RemembersPending
<1>1. k \in 0 .. Len(free_q) /\ k <= num + schedule_pending_count
  BY <1>0, NumStartedBounds
<1>2. Free' \subseteq Free /\ started = Free \ Free'
  BY <1>0, ScheduleFreeQueue
<1>3. executed' = [p \in Pipes |-> IF p \in started THEN {} ELSE executed[p]]
  BY DEF OwnGraphScheduleGraph
<1>4. Untriggered' = Untriggered \cup started /\ Untriggered \cap started = {}
  <2>1. InFlight' = InFlight \cup started /\ InFlight \cap started = {}
    <3>1. Free \subseteq Pipes
      BY <1>0, ElementOfSeq DEF Free, TypeOK
    <3> QED BY <1>2, <3>1 DEF InFlight
  <2> QED BY <1>3, <2>1 DEF Untriggered, InFlight
<1>5. IsFiniteSet(started) /\ Cardinality(started) = k
  <2>1. SubSeq(free_q, 1, k) \in Seq(Pipes) /\ Len(SubSeq(free_q, 1, k)) = k
        /\ \A i \in 1 .. k : SubSeq(free_q, 1, k)[i] = free_q[i]
    BY <1>0, <1>1, SubSeqProperties DEF TypeOK
  <2> DEFINE s == SubSeq(free_q, 1, k)
  <2>2. \A i, j \in 1 .. Len(s) : s[i] = s[j] => i = j
    BY <1>0, <1>1, <2>1 DEF DescriptorsConserved
  <2>3. IsFiniteSet({s[i] : i \in 1 .. Len(s)}) /\ Cardinality({s[i] : i \in 1 .. Len(s)}) = Len(s)
    BY <2>1, <2>2, DistinctCardinality
  <2>4. {s[i] : i \in 1 .. Len(s)} = started
    BY <2>1
  <2> QED BY <2>1, <2>3, <2>4
<1>6. IsFiniteSet(Untriggered) /\ Cardinality(Untriggered) \in Nat
  <2>1. Untriggered \subseteq Pipes
    BY DEF Untriggered, InFlight
  <2> QED BY <2>1, PipesFinite, FS_Subset, FS_CardinalityType
<1>7. Cardinality(Untriggered') = Cardinality(Untriggered) + k
  <2>1. Cardinality(Untriggered \cup started)
          = Cardinality(Untriggered) + Cardinality(started) - Cardinality(Untriggered \cap started)
    BY <1>5, <1>6, FS_Union
  <2>2. Cardinality(Untriggered \cap started) = 0
    BY <1>4, FS_EmptySet
  <2> QED BY <1>1, <1>4, <1>5, <1>6, <2>1, <2>2
<1>8. schedule_pending_count' = num + schedule_pending_count - k
  BY <1>0 DEF OwnGraphScheduleGraph, NumLeftPending
<1>9. schedule_pending_count \in Nat /\ Len(free_q) \in Nat
  BY <1>0, LenProperties DEF TypeOK
<1> QED BY <1>1, <1>6, <1>7, <1>8, <1>9

-----------------------------------------------------------------------------
\* How the steps move the next execution on.

\* What a step leaves alone.
LEMMA AcceptedSame ==
  ASSUME UNCHANGED <<free_q, executed, schedule_pending_count, host>>
  PROVE  Accepted' = Accepted
<1>1. Untriggered' = Untriggered
  BY DEF Untriggered, InFlight, Free
<1> QED BY <1>1 DEF Accepted

LEMMA CompletingSame ==
  ASSUME UNCHANGED <<completing, host_q, host, event_sent>>
  PROVE  Completing' = Completing
<1>1. Sending' = Sending /\ TriggerCommands' = TriggerCommands
  BY DEF Sending, TriggerCommands, Places
<1> QED BY <1>1 DEF Completing, One

LEMMA SignalledSame ==
  ASSUME Waiting' = Waiting, InHand' = InHand,
         app'[Streamer].pc = "schedule" <=> app[Streamer].pc = "schedule"
  PROVE  Signalled' = Signalled
<1>1. TriggerEvents' = TriggerEvents
  BY DEF TriggerEvents, Places
<1> QED BY <1>1 DEF Signalled, One

\* An event that is added is one more if it is the trigger's.
LEMMA SignalledPut ==
  ASSUME Sound, Sound', NEW x \in {"owner", "host"}, StreamQueue!PutEvent(x), app' = app
  PROVE  Signalled' = Signalled + One(adding[x].event = "STREAMING_EVENT")
<1>1. /\ InHand' = InHand /\ adding[x].event \in StreamEvents
      /\ Waiting' = Append(Waiting, adding[x].event)
  BY QueueIsSound, SameQueue, QueueProofs!AddEnds DEF Sound, Waiting, InHand
<1>2. Waiting \in Seq(StreamEvents)
  BY QueueProofs!WaitingIsSeq DEF Sound, Waiting
<1>3. Cardinality(TriggerEvents')
        = Cardinality(TriggerEvents) + One(adding[x].event = "STREAMING_EVENT")
  <2>1. Cardinality(Places(Append(Waiting, adding[x].event), {"STREAMING_EVENT"}))
          = Cardinality(Places(Waiting, {"STREAMING_EVENT"}))
              + IF adding[x].event \in {"STREAMING_EVENT"} THEN 1 ELSE 0
    BY <1>1, <1>2, PlacesAppend
  <2>2. Places(Append(Waiting, adding[x].event), {"STREAMING_EVENT"}) = TriggerEvents'
    BY <1>1 DEF TriggerEvents, Places
  <2> QED BY <2>1, <2>2 DEF TriggerEvents, One
<1>4. Signalled' = Cardinality(TriggerEvents') + One(InHand = "STREAMING_EVENT")
                     + One(app[Streamer].pc = "schedule")
  BY <1>1 DEF Signalled, One
<1> QED BY <1>3, <1>4, PulseTypes, OneIsNat DEF Signalled

\* An event that is taken is in the task's hands instead of the queue.
LEMMA SignalledTake ==
  ASSUME Sound, Sound', StreamQueue!TakeIndex, app' = app
  PROVE  Signalled' = Signalled
<1>1. /\ InHand = "none" /\ Waiting # <<>>
      /\ InHand' = Head(Waiting) /\ Waiting' = Tail(Waiting)
  BY QueueIsSound, SameQueue, QueueProofs!ReadBegins DEF Sound, Waiting, InHand
<1>2. Waiting \in Seq(StreamEvents)
  BY QueueProofs!WaitingIsSeq DEF Sound, Waiting
<1>3. Cardinality(TriggerEvents)
        = Cardinality(TriggerEvents') + One(InHand' = "STREAMING_EVENT")
  <2>1. Cardinality(Places(Waiting, {"STREAMING_EVENT"}))
          = Cardinality(Places(Tail(Waiting), {"STREAMING_EVENT"}))
              + IF Head(Waiting) \in {"STREAMING_EVENT"} THEN 1 ELSE 0
    BY <1>1, <1>2, PlacesTail
  <2>2. Places(Tail(Waiting), {"STREAMING_EVENT"}) = TriggerEvents'
    BY <1>1 DEF TriggerEvents, Places
  <2> QED BY <1>1, <2>1, <2>2 DEF TriggerEvents, One
<1>4. Signalled' = Cardinality(TriggerEvents') + One(InHand' = "STREAMING_EVENT")
                     + One(app[Streamer].pc = "schedule")
  BY DEF Signalled, One
<1>5. Signalled = Cardinality(TriggerEvents) + One(app[Streamer].pc = "schedule")
  <2>1. One(InHand = "STREAMING_EVENT") = 0
    BY <1>1 DEF One
  <2> QED BY <2>1, PulseTypes, OneIsNat DEF Signalled
<1> QED BY <1>3, <1>4, <1>5

\* The owner's steps.
LEMMA OwnerPulse ==
  ASSUME Sound, Sound', StopInv, OwnerNext
  PROVE  Pulse' = Pulse
<1>1. UNCHANGED <<vars, event_sent>>
  BY DEF OwnerNext, OwnerStep, VxStartGraphStreaming, VxStopGraphStreaming, VxReleaseGraph,
         StopSend, StopWait, DeleteWait, OwnerPut
<1>2. UNCHANGED <<free_q, executed, completing, schedule_pending_count, host, host_q, app>>
  BY <1>1 DEF vars, sched_vars
<1>3. Accepted' = Accepted /\ Completing' = Completing
  BY <1>1, <1>2, AcceptedSame, CompletingSame
<1>4. Signalled' = Signalled
  <2>1. CASE UNCHANGED queue_vars
    BY <1>2, <2>1, QueueUnchanged, SignalledSame
  <2>2. ASSUME NEW event, StreamQueue!GetIndex("owner", event) PROVE Signalled' = Signalled
    BY <1>2, <2>2, GetEffect, SignalledSame
  <2>3. CASE StreamQueue!PutEvent("owner") /\ OwnerPut
    <3>1. adding["owner"].event # "STREAMING_EVENT"
      BY <2>3 DEF OwnerPut, StopInv, AddersApart
    <3>2. One(adding["owner"].event = "STREAMING_EVENT") = 0
      BY <3>1 DEF One
    <3> QED BY <1>2, <2>3, <3>2, SignalledPut, PulseTypes
  <2> QED BY <2>1, <2>2, <2>3 DEF OwnerNext, OwnerStep, VxStartGraphStreaming,
      VxStopGraphStreaming, VxReleaseGraph, StopSend, StopWait, DeleteWait, OwnerPut, SendEvent
<1> QED BY <1>3, <1>4 DEF Pulse

\* The task's steps: while it runs it takes an event, calls the scheduler for it, and
\* the scheduler accepts the execution.
LEMMA TaskPulse ==
  ASSUME Sound, Sound', StopInv, EventInv, Streams, stream_state' = "RUNNING", TaskNext
  PROVE  Pulse' = Pulse
<1>0. SchedInv /\ TypeOK /\ stream_state = "RUNNING" /\ ~stopping /\ OwnerWaits /\ OneAsked
  BY DEF Sound, SchedInv, Streams, StopInv, TaskStates, EventInv
<1>1. CASE TakeEvent
  <2>1. StreamQueue!TakeIndex /\ UNCHANGED <<vars, event_sent>>
    BY <1>1 DEF TakeEvent
  <2>2. UNCHANGED <<free_q, executed, completing, schedule_pending_count, host, host_q, app>>
    BY <2>1 DEF vars, sched_vars
  <2>3. Accepted' = Accepted /\ Completing' = Completing /\ Signalled' = Signalled
    BY <2>1, <2>2, AcceptedSame, CompletingSame, SignalledTake
  <2> QED BY <2>3 DEF Pulse
<1>2. ~OnStart
  <2>1. ASSUME OnStart PROVE FALSE
    <3>1. InHand = "START"
      BY <2>1, HasEventEffect DEF OnStart
    <3> QED BY <1>0, <3>1 DEF OwnerWaits, Outstanding
  <2> QED BY <2>1
<1>3. CASE OnStreamingEvent
  <2>1. /\ HasEvent("STREAMING_EVENT") /\ ScheduleCall(Streamer, FALSE)
        /\ UNCHANGED event_sent
    BY <1>3 DEF OnStreamingEvent, Retriggers, Streams
  <2>2. /\ InHand = "STREAMING_EVENT" /\ InHand' = "none" /\ Waiting' = Waiting
        /\ app[Streamer].pc = "idle"
    BY <2>1, HasEventEffect DEF TaskIdle
  <2>3. app'[Streamer].pc = "schedule"
    BY <2>1, ScheduleCallEffect
  <2>4. UNCHANGED <<free_q, executed, completing, schedule_pending_count, host, host_q>>
    BY <2>1 DEF ScheduleCall, sched_vars
  <2>5. Accepted' = Accepted /\ Completing' = Completing
    BY <2>1, <2>4, AcceptedSame, CompletingSame
  <2>6. Signalled' = Signalled
    <3>1. TriggerEvents' = TriggerEvents
      BY <2>2 DEF TriggerEvents, Places
    <3> QED BY <2>2, <2>3, <3>1, PulseTypes DEF Signalled, One
  <2> QED BY <2>5, <2>6 DEF Pulse
<1>4. CASE TaskCall
  <2>1. AppSchedule(Streamer) /\ UNCHANGED <<queue_vars, event_sent>>
    BY <1>0, <1>4 DEF TaskCall, WaitEvent, WaitReturn, StopInv, TaskStates
  <2>2. /\ app[Streamer].pc = "schedule" /\ OwnGraphScheduleGraph(1)
        /\ UNCHANGED <<completing, host, host_q>>
    BY <1>0, <2>1 DEF AppSchedule, OneAsked
  <2>3. app'[Streamer].pc = "idle"
    BY <1>0, <2>1, StreamerSchedules DEF StopInv, TaskStates
  <2>4. Completing' = Completing
    BY <2>1, <2>2, CompletingSame
  <2>5. Signalled' + 1 = Signalled
    <3>1. Waiting' = Waiting /\ InHand' = InHand
      BY <2>1, QueueUnchanged
    <3>2. TriggerEvents' = TriggerEvents /\ One((InHand = "STREAMING_EVENT")') = One(InHand = "STREAMING_EVENT")
      BY <3>1 DEF TriggerEvents, Places, One
    <3> QED BY <2>2, <2>3, <3>1, <3>2, PulseTypes, OneIsNat DEF Signalled, One
  <2>6. Accepted' = Accepted + 1
    <3>1. schedule_pending_count' + Cardinality(Untriggered')
            = schedule_pending_count + 1 + Cardinality(Untriggered)
          /\ schedule_pending_count' \in Nat /\ Cardinality(Untriggered') \in Nat
      BY <1>0, <2>2, ScheduleAccepts
    <3>2. host' = host
      BY <2>2
    <3> QED BY <3>1, <3>2, PulseTypes DEF Accepted
  <2>7. Signalled' \in Nat
    <3>1. Waiting' = Waiting
      BY <2>1, QueueUnchanged
    <3>2. TriggerEvents' = TriggerEvents
      BY <3>1 DEF TriggerEvents, Places
    <3> QED BY <3>2, PulseTypes, OneIsNat DEF Signalled, One
  <2> QED BY <2>4, <2>5, <2>6, <2>7, PulseTypes DEF Pulse
<1>5. ~OnStop /\ ~OnDelete /\ ~Stopped
  BY <1>0 DEF OnStop, OnDelete, Stopped
<1> QED BY <1>1, <1>2, <1>3, <1>4, <1>5 DEF TaskNext

\* An element that holds the trigger's event.
LEMMA HeldTrigger ==
  ASSUME Sound, AddersApart, NEW i, QueueProofs!Holds(i, "STREAMING_EVENT")
  PROVE  IsIn("STREAMING_EVENT", Waiting) \/ InHand = "STREAMING_EVENT" \/ adding["host"].busy
<1>1. /\ \A k \in 1 .. Len(ready_queue) : Waiting[k] = event_list[ready_queue[k]]
      /\ Len(Waiting) = Len(ready_queue)
  BY QueueProofs!WaitingIsSeq DEF Sound, Waiting
<1>2. CASE QueueProofs!IsIn(i, ready_queue) /\ event_list[i] = "STREAMING_EVENT"
  BY <1>1, <1>2 DEF QueueProofs!IsIn, IsIn
<1>3. CASE reading.busy /\ reading.idx = i /\ event_list[i] = "STREAMING_EVENT"
  BY <1>3 DEF InHand, QueueProofs!InHand, QueueProofs!EventRead
<1>4. CASE \E x \in {"owner", "host"} :
              adding[x].busy /\ adding[x].idx = i /\ adding[x].event = "STREAMING_EVENT"
  BY <1>4 DEF AddersApart
<1> QED BY <1>2, <1>3, <1>4 DEF QueueProofs!Holds

\* The trigger's event finds a free element: the other events on their way are the
\* owner's, who has one at a time, and START has been served.
LEMMA RoomForTrigger ==
  ASSUME NumElems >= 2, Sound, StopInv, EventInv, Streams, OnePulse,
         SendsEvent, ~adding["host"].busy
  PROVE  ~StreamQueue!QueueFull
<1>0. /\ AddersApart /\ StopIsLast /\ OneOfEach /\ OwnerWaits /\ stream_state = "RUNNING"
      /\ QueueProofs!QueueInv /\ NumElems \in Nat
  BY StreamAssumption DEF Sound, StopInv, EventInv, Streams
<1>1. Signalled = 0
  <2>1. One(host.pc # "idle" /\ host.node = Trigger /\ ~event_sent) = 1
    BY DEF SendsEvent, One
  <2>2. Completing >= 1
    BY <2>1, PulseTypes DEF Completing
  <2> QED BY <2>2, PulseTypes DEF OnePulse, Pulse
<1>2. ~IsIn("STREAMING_EVENT", Waiting) /\ InHand # "STREAMING_EVENT"
  <2>1. Cardinality(TriggerEvents) = 0 /\ One(InHand = "STREAMING_EVENT") = 0
    BY <1>1, PulseTypes, OneIsNat DEF Signalled
  <2>2. TriggerEvents = {}
    BY <2>1, PulseTypes, FS_EmptySet
  <2> QED BY <2>1, <2>2 DEF TriggerEvents, Places, IsIn, One
<1>3. ASSUME NEW i \in QueueProofs!Elems, NEW e \in StreamEvents, QueueProofs!Holds(i, e)
      PROVE  \/ e = "STOP" /\ owner \in {"stop_put", "stop_wait"}
             \/ e = "DELETE" /\ owner \in {"delete_put", "delete_wait"}
  <2>1. e # "STREAMING_EVENT"
    BY <1>0, <1>2, <1>3, HeldTrigger
  <2>2. e \in Commands
    BY <2>1 DEF StreamEvents
  <2>3. Outstanding(e)
    BY <1>0, <1>3, <2>2, HeldIsOutstanding
  <2>4. CASE e = "START"
    BY <1>0, <2>3, <2>4 DEF OwnerWaits
  <2>5. CASE e = "STOP"
    BY <1>0, <2>3, <2>5 DEF Outstanding, StopIsLast, AddersApart
  <2>6. CASE e = "DELETE"
    BY <1>0, <2>3, <2>6 DEF OwnerWaits
  <2> QED BY <2>2, <2>4, <2>5, <2>6 DEF Commands
<1>4. ASSUME StreamQueue!QueueFull PROVE FALSE
  <2>1. QueueProofs!QueueFull
    BY <1>4 DEF StreamQueue!QueueFull, QueueProofs!QueueFull
  <2>2. PICK i, j \in QueueProofs!Elems :
           /\ i # j
           /\ \E e \in StreamEvents : QueueProofs!Holds(i, e)
           /\ \E e \in StreamEvents : QueueProofs!Holds(j, e)
    BY <1>0, <2>1, QueueProofs!FullHoldsTwo
  <2>3. PICK c \in StreamEvents : QueueProofs!Holds(i, c)
    BY <2>2
  <2>4. PICK d \in StreamEvents : QueueProofs!Holds(j, d)
    BY <2>2
  <2>5. c = d /\ c \in Commands
    BY <1>3, <2>3, <2>4 DEF Commands
  <2> QED BY <1>0, <2>2, <2>3, <2>4, <2>5 DEF OneOfEach
<1> QED BY <1>4

\* The host task adds the trigger's event.
LEMMA HostEventPulse ==
  ASSUME NumElems >= 2, Sound, Sound', StopInv, EventInv, Streams, OnePulse,
         HostGetIndex \/ HostPut
  PROVE  Pulse' = Pulse
<1>1. UNCHANGED <<free_q, executed, completing, schedule_pending_count, host, host_q, app>>
  BY DEF HostGetIndex, HostPut, vars, sched_vars
<1>2. Accepted' = Accepted
  BY <1>1, AcceptedSame
<1>3. CASE HostGetIndex
  <2>1. StreamQueue!GetIndex("host", "STREAMING_EVENT") /\ UNCHANGED event_sent
    BY <1>3, RoomForTrigger DEF HostGetIndex
  <2>2. Completing' = Completing
    BY <1>1, <2>1, CompletingSame
  <2>3. Signalled' = Signalled
    BY <1>1, <2>1, GetEffect, SignalledSame
  <2> QED BY <1>2, <2>2, <2>3 DEF Pulse
<1>4. CASE HostPut
  <2>1. StreamQueue!PutEvent("host") /\ event_sent'
    BY <1>4 DEF HostPut
  <2>2. SendsEvent /\ adding["host"].event = "STREAMING_EVENT"
    BY <2>1 DEF StreamQueue!PutEvent, EventInv, HostAdds, StopInv, AddersApart
  <2>3. Signalled' = Signalled + 1
    BY <1>1, <2>1, <2>2, SignalledPut DEF One
  <2>4. Completing' + 1 = Completing /\ Completing' \in Nat
    <3>1. Sending' = Sending /\ TriggerCommands' = TriggerCommands
      BY <1>1 DEF Sending, TriggerCommands, Places
    <3>2. Completing = Cardinality(Sending) + Cardinality(TriggerCommands) + 1
      BY <2>2 DEF Completing, One, SendsEvent
    <3>3. Completing' = Cardinality(Sending) + Cardinality(TriggerCommands) + 0
      BY <2>1, <3>1 DEF Completing, One
    <3> QED BY <3>2, <3>3, PulseTypes
  <2> QED BY <1>2, <2>3, <2>4, PulseTypes DEF Pulse
<1> QED BY <1>3, <1>4

\* The steps of the handler that GraphSchedule has.  While the trigger is no leaf, an
\* execution completes after the trigger's event has been added.
LEMMA HostPulse ==
  ASSUME Trigger \notin Leaves, Sound, Sound', NodeCommands, StopInv, EventInv, Registered,
         HostStep
  PROVE  Pulse' = Pulse
<1>0. /\ SchedInv /\ TypeOK /\ DescriptorsConserved /\ RestartWindow /\ HostAdds
      /\ Trigger \in Nodes
  BY StreamAssumption, NodesAssumption DEF Sound, SchedInv, EventInv
<1>1. Waiting' = Waiting /\ InHand' = InHand
  BY QueueUnchanged DEF HostStep
<1>2. app' = app
  BY DEF HostStep, HostTake, LeafCompleted, GraphCompleted, HostReschedule, HostAction
<1>3. Signalled' = Signalled /\ Sending' = Sending
  <2>1. completing' = completing
    BY DEF HostStep, HostTake, LeafCompleted, GraphCompleted, HostReschedule, HostAction,
           sched_vars
  <2> QED BY <1>1, <1>2, <2>1, SignalledSame DEF Sending
<1>4. CASE HostTake /\ UNCHANGED event_sent
  <2> DEFINE n == Head(host_q)[1]
  <2>1. /\ host.pc = "idle" /\ host_q # <<>> /\ host_q' = Tail(host_q)
        /\ UNCHANGED <<free_q, executed, schedule_pending_count>>
        /\ host'.pc # "idle" /\ host'.node = n /\ host'.schedule_count = 0
    BY <1>4 DEF HostTake
  <2>2. host_q \in Seq(Nodes \X Pipes) /\ ~event_sent /\ host.schedule_count = 0
    BY <1>0, <2>1 DEF TypeOK, HostAdds, RestartWindow
  <2>3. Head(host_q) \in Nodes \X Pipes
    BY <2>1, <2>2, EmptySeq, HeadTailProperties
  <2>4. Head(host_q) \in {Trigger} \X Pipes <=> n = Trigger
    BY <2>3
  <2>5. Accepted' = Accepted
    <3>1. Untriggered' = Untriggered
      BY <2>1 DEF Untriggered, InFlight, Free
    <3> QED BY <2>1, <2>2, <3>1 DEF Accepted
  <2>6. Completing = Cardinality(Sending) + Cardinality(TriggerCommands)
    <3>1. One(host.pc # "idle" /\ host.node = Trigger /\ ~event_sent) = 0
      BY <2>1 DEF One
    <3> QED BY <3>1, PulseTypes DEF Completing
  <2>7. Completing' = Cardinality(Sending) + Cardinality(TriggerCommands') + One(n = Trigger)
    BY <1>3, <1>4, <2>1, <2>2 DEF Completing, One
  <2>8. Cardinality(TriggerCommands) = Cardinality(TriggerCommands') + One(n = Trigger)
    <3>1. Cardinality(Places(host_q, {Trigger} \X Pipes))
            = Cardinality(Places(Tail(host_q), {Trigger} \X Pipes))
                + IF Head(host_q) \in {Trigger} \X Pipes THEN 1 ELSE 0
      BY <2>1, <2>2, PlacesTail
    <3>2. Places(Tail(host_q), {Trigger} \X Pipes) = TriggerCommands'
      BY <2>1 DEF TriggerCommands, Places, Pipes
    <3> QED BY <2>4, <3>1, <3>2 DEF TriggerCommands, One
  <2>9. Cardinality(TriggerCommands') \in Nat /\ One(n = Trigger) \in Nat
    <3>1. Tail(host_q) \in Seq(Nodes \X Pipes)
      BY <2>1, <2>2, EmptySeq, HeadTailProperties
    <3>2. TriggerCommands' = Places(Tail(host_q), {Trigger} \X Pipes)
      BY <2>1 DEF TriggerCommands, Places, Pipes
    <3>3. Cardinality(Places(Tail(host_q), {Trigger} \X Pipes)) \in Nat
      BY <3>1, PlacesFinite
    <3>4. Cardinality(TriggerCommands') \in Nat
      BY <3>2, <3>3, Zenon
    <3> QED BY <3>4, OneIsNat
  <2>10. Completing' = Completing
    BY <2>6, <2>7, <2>8, <2>9, PulseTypes
  <2> QED BY <1>3, <2>5, <2>10 DEF Pulse
<1>5. ASSUME host.pc \in {"check", "reschedule"}, host_q' = host_q, host'.node = host.node
      PROVE  Completing' = Completing
  <2>1. host.node # Trigger
    BY <1>5 DEF NodeCommands
  <2>2. TriggerCommands' = TriggerCommands
    BY <1>5 DEF TriggerCommands, Places
  <2> QED BY <1>3, <1>5, <2>1, <2>2 DEF Completing, One
<1>6. CASE LeafCompleted
  <2>1. /\ host.pc = "check" /\ host_q' = host_q /\ UNCHANGED sched_vars
        /\ host' = [host EXCEPT !.pc = "action"]
    BY <1>6 DEF LeafCompleted
  <2>2. host'.node = host.node /\ host'.schedule_count = host.schedule_count
    BY <1>0, <2>1 DEF TypeOK, HostStates
  <2>3. Untriggered' = Untriggered
    BY <2>1 DEF sched_vars, Untriggered, InFlight, Free
  <2>4. Accepted' = Accepted
    BY <2>1, <2>2, <2>3 DEF Accepted, sched_vars
  <2> QED BY <1>3, <1>5, <2>1, <2>2, <2>4 DEF Pulse
<1>7. CASE GraphCompleted
  <2> DEFINE p == host.pipe
  <2>1. /\ host.pc = "check" /\ host_q' = host_q /\ executed' = executed
        /\ IsLastLeaf(p) /\ schedule_pending_count' = 0 /\ free_q' = Append(free_q, p)
    BY <1>7 DEF GraphCompleted, FreeQueueWith
  <2>2. host'.node = host.node /\ host'.schedule_count = schedule_pending_count
    BY <1>0, <1>7 DEF GraphCompleted, TypeOK, HostStates
  <2>3. p \in Pipes /\ host.schedule_count = 0 /\ \A n \in Leaves : n \in executed[p]
    BY <1>0, <2>1, LastLeafReported DEF InFlight, RestartWindow
  <2>4. Trigger \in executed[p]
    BY <1>0, <2>3, LeafStillToRun
  <2>5. Free' = Free \cup {p}
    <3>1. /\ Len(free_q') = Len(free_q) + 1 /\ Len(free_q) \in Nat
          /\ \A i \in 1 .. Len(free_q) : free_q'[i] = free_q[i]
          /\ free_q'[Len(free_q) + 1] = p
      BY <1>0, <2>1, <2>3, AppendIsIn, LenProperties DEF TypeOK
    <3>2. \A i : i \in 1 .. Len(free_q) + 1 <=> i \in 1 .. Len(free_q) \/ i = Len(free_q) + 1
      BY <3>1
    <3> QED BY <3>1, <3>2 DEF Free
  <2>6. Untriggered' = Untriggered
    BY <2>1, <2>4, <2>5 DEF Untriggered, InFlight
  <2>7. Accepted' = Accepted
    <3>1. Accepted' = 0 + schedule_pending_count + Cardinality(Untriggered)
      BY <2>1, <2>2, <2>6 DEF Accepted
    <3>2. Accepted = schedule_pending_count + 0 + Cardinality(Untriggered)
      BY <2>3 DEF Accepted
    <3> QED BY <3>1, <3>2, PulseTypes
  <2> QED BY <1>3, <1>5, <2>1, <2>2, <2>7 DEF Pulse
<1>8. CASE HostReschedule
  <2>1. /\ host.pc = "reschedule" /\ host_q' = host_q
        /\ host.schedule_count \in Nat /\ OwnGraphScheduleGraph(host.schedule_count)
        /\ host'.node = host.node /\ host'.schedule_count = 0
    BY <1>0, <1>8 DEF HostReschedule, TypeOK, HostStates
  <2>2. Accepted' = Accepted
    <3>1. schedule_pending_count' + Cardinality(Untriggered')
            = schedule_pending_count + host.schedule_count + Cardinality(Untriggered)
          /\ schedule_pending_count' \in Nat /\ Cardinality(Untriggered') \in Nat
      BY <1>0, <2>1, ScheduleAccepts
    <3>2. Accepted' = schedule_pending_count' + 0 + Cardinality(Untriggered')
      BY <2>1 DEF Accepted
    <3> QED BY <3>1, <3>2 DEF Accepted
  <2> QED BY <1>3, <1>5, <2>1, <2>2 DEF Pulse
<1>9. CASE ~SendsEvent /\ HostAction /\ event_sent' = FALSE
  <2>1. /\ host.pc = "action" /\ host' = IdleHost /\ host_q' = host_q
        /\ UNCHANGED <<free_q, executed, schedule_pending_count>>
    BY <1>9 DEF HostAction
  <2>2. host.schedule_count = 0 /\ host'.schedule_count = 0 /\ host'.pc = "idle"
    BY <1>0, <2>1 DEF RestartWindow, IdleHost
  <2>3. Accepted' = Accepted
    <3>1. Untriggered' = Untriggered
      BY <2>1 DEF Untriggered, InFlight, Free
    <3> QED BY <2>1, <2>2, <3>1 DEF Accepted
  <2>4. Completing' = Completing
    <3>1. TriggerCommands' = TriggerCommands
      BY <2>1 DEF TriggerCommands, Places
    <3>2. ~(host.pc # "idle" /\ host.node = Trigger /\ ~event_sent)
      BY <1>9, <2>1 DEF SendsEvent
    <3> QED BY <1>3, <2>2, <3>1, <3>2 DEF Completing, One
  <2> QED BY <1>3, <2>3, <2>4 DEF Pulse
<1> QED BY <1>4, <1>6, <1>7, <1>8, <1>9 DEF HostStep

\* A target runs a node: the trigger's completion is to be sent.
LEMMA ExecutePulse ==
  ASSUME Sound, Sound', NEW n \in Nodes, NEW p \in Pipes, TargetStep(n, p), NodeExecute(n, p)
  PROVE  Pulse' = Pulse
<1>0. TypeOK /\ Trigger \in Callbacks
  BY StreamAssumption DEF Sound, SchedInv
<1>1. /\ p \in InFlight /\ n \notin executed[p] /\ <<n, p>> \notin completing
      /\ executed' = [executed EXCEPT ![p] = @ \cup {n}]
      /\ completing' = IF n \in Callbacks \cup Leaves
                       THEN completing \cup {<<n, p>>} ELSE completing
      /\ UNCHANGED <<free_q, schedule_pending_count, host_q, host, app, event_sent, queue_vars>>
  BY DEF TargetStep, NodeExecute
<1>2. Signalled' = Signalled
  BY <1>1, QueueUnchanged, SignalledSame
<1>3. InFlight' = InFlight /\ TriggerCommands' = TriggerCommands
  BY <1>1 DEF InFlight, Free, TriggerCommands, Places
<1>4. executed'[p] = executed[p] \cup {n} /\ \A q \in Pipes \ {p} : executed'[q] = executed[q]
  BY <1>0, <1>1 DEF TypeOK
<1>5. CASE n = Trigger
  <2>1. Untriggered' = Untriggered \ {p} /\ p \in Untriggered
    BY <1>1, <1>3, <1>4, <1>5 DEF Untriggered, InFlight
  <2>2. Cardinality(Untriggered') = Cardinality(Untriggered) - 1 /\ Cardinality(Untriggered) \in Nat
    BY <2>1, PulseTypes, FS_RemoveElement
  <2>3. Cardinality(Sending') = Cardinality(Sending) + 1
    <3>1. Sending' = Sending \cup {p} /\ p \notin Sending
      BY <1>0, <1>1, <1>5 DEF Sending, InFlight
    <3> QED BY <3>1, PulseTypes, FS_AddElement
  <2>4. Completing' = Completing + 1
    <3>1. Completing' = Cardinality(Sending') + Cardinality(TriggerCommands)
              + One(host.pc # "idle" /\ host.node = Trigger /\ ~event_sent)
      BY <1>1, <1>3 DEF Completing, One
    <3> QED BY <2>3, <3>1, PulseTypes, OneIsNat DEF Completing
  <2>5. Accepted' = Accepted - 1
    <3>1. Accepted' = schedule_pending_count + host.schedule_count + Cardinality(Untriggered')
      BY <1>1 DEF Accepted
    <3> QED BY <2>2, <3>1, PulseTypes DEF Accepted
  <2> QED BY <1>2, <2>4, <2>5, PulseTypes DEF Pulse
<1>6. CASE n # Trigger
  <2>1. Untriggered' = Untriggered /\ Sending' = Sending
    BY <1>1, <1>3, <1>4, <1>6 DEF Untriggered, InFlight, Sending
  <2>2. Accepted' = Accepted
    BY <1>1, <2>1 DEF Accepted
  <2>3. Completing' = Completing
    BY <1>1, <1>3, <2>1 DEF Completing, One
  <2> QED BY <1>2, <2>2, <2>3 DEF Pulse
<1> QED BY <1>5, <1>6

\* A completion is sent: the trigger's goes into the queue of the host task.
LEMMA CompletePulse ==
  ASSUME Sound, Sound', NEW n \in Nodes, NEW p \in Pipes, TargetStep(n, p), NodeComplete(n, p)
  PROVE  Pulse' = Pulse
<1>0. TypeOK
  BY DEF Sound, SchedInv
<1>1. /\ <<n, p>> \in completing /\ completing' = completing \ {<<n, p>>}
      /\ host_q' = Append(host_q, <<n, p>>)
      /\ UNCHANGED <<free_q, executed, schedule_pending_count, host, app, event_sent, queue_vars>>
  BY DEF TargetStep, NodeComplete
<1>2. Signalled' = Signalled /\ Accepted' = Accepted
  BY <1>1, QueueUnchanged, SignalledSame, AcceptedSame
<1>3. /\ host_q \in Seq(Nodes \X Pipes) /\ <<n, p>> \in Nodes \X Pipes
      /\ TriggerCommands' = Places(Append(host_q, <<n, p>>), {Trigger} \X Pipes)
  BY <1>0, <1>1 DEF TypeOK, TriggerCommands, Places, Pipes
<1>4. Completing' = Cardinality(Sending') + Cardinality(TriggerCommands')
          + One(host.pc # "idle" /\ host.node = Trigger /\ ~event_sent)
  BY <1>1 DEF Completing, One
<1>5. CASE n = Trigger
  <2>1. Sending' = Sending \ {p} /\ p \in Sending
    BY <1>1, <1>5 DEF Sending
  <2>2. Cardinality(Sending') = Cardinality(Sending) - 1
    BY <2>1, PulseTypes, FS_RemoveElement
  <2>3. Cardinality(TriggerCommands') = Cardinality(TriggerCommands) + 1
    <3>1. <<n, p>> \in {Trigger} \X Pipes
      BY <1>5
    <3>2. Cardinality(Places(Append(host_q, <<n, p>>), {Trigger} \X Pipes))
            = Cardinality(Places(host_q, {Trigger} \X Pipes)) + 1
      BY <1>3, <3>1, PlacesAppend
    <3> QED BY <1>3, <3>2 DEF TriggerCommands
  <2>4. Completing' = Completing
    BY <1>4, <2>2, <2>3, PulseTypes, OneIsNat DEF Completing
  <2> QED BY <1>2, <2>4 DEF Pulse
<1>6. CASE n # Trigger
  <2>1. Sending' = Sending
    BY <1>1, <1>6 DEF Sending
  <2>2. Cardinality(TriggerCommands') = Cardinality(TriggerCommands)
    <3>1. <<n, p>> \notin {Trigger} \X Pipes
      BY <1>6
    <3>2. Cardinality(Places(Append(host_q, <<n, p>>), {Trigger} \X Pipes))
            = Cardinality(Places(host_q, {Trigger} \X Pipes)) + 0
      BY <1>3, <3>1, PlacesAppend
    <3> QED BY <1>3, <3>2, PulseTypes DEF TriggerCommands
  <2>3. Completing' = Completing
    BY <1>4, <2>1, <2>2 DEF Completing
  <2> QED BY <1>2, <2>3 DEF Pulse
<1> QED BY <1>5, <1>6

LEMMA TargetPulse ==
  ASSUME Sound, Sound', NEW n \in Nodes, NEW p \in Pipes, TargetStep(n, p)
  PROVE  Pulse' = Pulse
  BY ExecutePulse, CompletePulse DEF TargetStep

\* Another thread waits, or nothing happens.
LEMMA WaiterPulse ==
  ASSUME Sound, (\E a \in Apps \ {Streamer} : WaiterNext(a)) \/ UNCHANGED stream_vars
  PROVE  Pulse' = Pulse
<1>0. TypeOK
  BY DEF Sound, SchedInv
<1>1. /\ UNCHANGED <<free_q, executed, completing, schedule_pending_count, host, host_q,
                     event_sent>>
      /\ UNCHANGED queue_vars
  BY DEF WaiterNext, VxWaitGraph, WaitEvent, WaitReturn, sched_vars, stream_vars, vars
<1>2. app'[Streamer] = app[Streamer]
  BY <1>0, StreamerIsApp DEF WaiterNext, VxWaitGraph, WaitEvent, WaitReturn, TypeOK,
     stream_vars, vars
<1>3. Accepted' = Accepted /\ Completing' = Completing /\ Signalled' = Signalled
  BY <1>1, <1>2, AcceptedSame, CompletingSame, QueueUnchanged, SignalledSame
<1> QED BY <1>3 DEF Pulse

\* START: a graph that does not run has no execution on its way, and gets one.
LEMMA StartPulse ==
  ASSUME Trigger \notin Leaves, Sound, NodeCommands, StopInv, EventInv, OnStart,
         stream_state = "IDLE"
  PROVE  Pulse' = 1
<1>0. SchedInv /\ TypeOK /\ DescriptorsConserved /\ HostAdds /\ NoneBehindStart
      /\ Trigger \in Nodes
  BY StreamAssumption, NodesAssumption DEF Sound, SchedInv, EventInv
<1>1. HasEvent("START") /\ ScheduleCall(Streamer, TRUE) /\ UNCHANGED event_sent
  BY DEF OnStart
<1>2. /\ InHand = "START" /\ InHand' = "none" /\ Waiting' = Waiting /\ TaskIdle
  BY <1>1, HasEventEffect
<1>3. Quiet
  BY <1>2 DEF StopInv, TaskStates, TaskIdle
<1>4. InFlight = {}
  BY <1>0, <1>3, InFlightSubmitted DEF Quiet
<1>5. graph_state # "RUNNING"
  BY <1>3 DEF Quiet, Sound, SchedInv, RunningIffSubmitted
<1>6. /\ app'[Streamer].pc = "schedule"
      /\ UNCHANGED <<free_q, executed, completing, schedule_pending_count, host, host_q>>
  BY <1>1, <1>5, ScheduleCallEffect DEF ScheduleCall, sched_vars
<1>7. Accepted' = 0
  <2>1. Cardinality(Untriggered) = 0
    BY <1>4, FS_EmptySet DEF Untriggered
  <2>2. Accepted = 0
    BY <1>3, <2>1 DEF Quiet, Accepted
  <2> QED BY <1>6, <2>2, AcceptedSame
<1>8. Completing' = 0
  <2>1. TriggerCommands = {}
    <3>1. \A i \in 1 .. Len(host_q) : host_q[i] \in Nodes \X Pipes
      BY <1>0, ElementOfSeq DEF TypeOK
    <3>2. ASSUME NEW i \in 1 .. Len(host_q), host_q[i] \in {Trigger} \X Pipes PROVE FALSE
      <4>1. PICK p \in Pipes : host_q[i] = <<Trigger, p>>
        BY <3>2
      <4> QED BY <1>0, <1>4, <4>1 DEF NodeCommands
    <3> QED BY <3>2 DEF TriggerCommands, Places
  <2>2. Cardinality(TriggerCommands) = 0 /\ Cardinality(Sending) = 0
    <3>1. Sending = {}
      BY <1>0, <1>4 DEF Sending, NodeCommands
    <3> QED BY <2>1, <3>1, FS_EmptySet
  <2>3. ~(host.pc # "idle" /\ host.node = Trigger)
    BY <1>3, TriggerInFlight
  <2>4. Completing = 0
    BY <2>2, <2>3 DEF Completing, One
  <2> QED BY <1>1, <1>6, <2>4, CompletingSame
<1>9. Signalled' = 1
  <2>1. TriggerEvents' = {}
    BY <1>0, <1>2 DEF NoneBehindStart, IsIn, TriggerEvents, Places, StopInv, TaskStates, TaskIdle
  <2>2. Cardinality(TriggerEvents') = 0
    BY <2>1, FS_EmptySet
  <2> QED BY <1>2, <1>6, <2>2 DEF Signalled, One
<1> QED BY <1>7, <1>8, <1>9 DEF Pulse

\* The executions that are asked for are never fewer.
LEMMA RequestedGrows ==
  ASSUME SchedInv, [Next]_vars
  PROVE  requested' \in Nat /\ requested' >= requested
<1>0. TypeOK
  BY DEF SchedInv
<1>1. ASSUME NEW a \in Apps, AppNext(a) PROVE requested' \in Nat /\ requested' >= requested
  <2>1. CASE AppSchedule(a)
    <3> DEFINE n == app[a].n
    <3>1. n \in Nat /\ requested \in Nat
      BY <1>0 DEF TypeOK, AppStates
    <3>2. NumStarted(n) \in Nat
      <4>1. NumStarted(n) \in 0 .. Len(free_q) /\ Len(free_q) \in Nat
        BY <1>0, <3>1, NumStartedBounds, LenProperties DEF TypeOK
      <4> QED BY <4>1
    <3>3. requested' = requested + IF RemembersPending THEN n ELSE NumStarted(n)
      BY <2>1 DEF AppSchedule
    <3> QED BY <3>1, <3>2, <3>3
  <2>2. CASE ~AppSchedule(a)
    <3>1. requested' = requested
      BY <1>1, <2>2 DEF AppNext, VxScheduleGraph, ScheduleCall, VxEnqueueReadyRef, EnqueueRef,
         EnqueueRefused, VxWaitGraph, WaitEvent, WaitReturn
    <3> QED BY <1>0, <3>1 DEF TypeOK
  <2> QED BY <2>1, <2>2
<1>2. ASSUME \/ \E n \in Nodes, p \in Pipes : NodeExecute(n, p) \/ NodeComplete(n, p)
             \/ HostNext \/ UNCHANGED vars
      PROVE  requested' \in Nat /\ requested' >= requested
  <2>1. requested' = requested
    BY <1>2 DEF NodeExecute, NodeComplete, HostNext, HostTake, LeafCompleted, GraphCompleted, HostReschedule,
       HostAction, vars
  <2> QED BY <1>0, <2>1 DEF TypeOK
<1> QED BY <1>1, <1>2 DEF Next

\* A graph that streams did so before, or START has been served.
LEMMA StreamsGoesOn ==
  ASSUME Sound, EventInv, [StreamNext]_stream_vars, Streams'
  PROVE  Streams \/ (OnStart /\ stream_state = "IDLE")
<1>1. [Next]_vars
  BY ScheduleStep
<1>2. requested' >= requested /\ requested' < MaxRequests /\ Registered
      /\ stream_state' = "RUNNING"
  BY <1>1, RequestedGrows DEF Sound, Streams, Registered
<1>3. requested < MaxRequests
  <2>1. requested \in Nat /\ requested' \in Nat
    BY <1>1, RequestedGrows DEF Sound, SchedInv, TypeOK
  <2> QED BY <1>2, <2>1, BoundAssumption
<1>4. stream_state = "RUNNING" \/ OnStart
  <2>1. CASE OwnerNext
    BY <1>2, <2>1 DEF OwnerNext, OwnerStep, VxStartGraphStreaming, VxStopGraphStreaming,
       VxReleaseGraph, OwnerPut, StopSend, StopWait, DeleteWait, task_vars
  <2>2. CASE TaskNext
    BY <1>2, <2>2 DEF TaskNext, TakeEvent, OnStreamingEvent, OnStop, OnDelete, TaskCall, Stopped,
       task_vars
  <2>3. CASE StreamHostNext
    BY <1>2, <2>3 DEF StreamHostNext, HostGetIndex, HostPut, HostStep, task_vars
  <2>4. CASE \/ \E a \in Apps \ {Streamer} : WaiterNext(a)
             \/ \E n \in Nodes, p \in Pipes : TargetStep(n, p)
             \/ UNCHANGED stream_vars
    BY <1>2, <2>4 DEF WaiterNext, TargetStep, stream_vars, task_vars
  <2> QED BY <2>1, <2>2, <2>3, <2>4 DEF StreamNext
<1>5. OnStart => stream_state = "IDLE"
  <2>1. OnStart => InHand = "START" /\ TaskIdle
    BY HasEventEffect DEF OnStart
  <2>2. InHand = "START" => stream_state # "RUNNING"
    BY DEF EventInv, OwnerWaits, Outstanding
  <2> QED BY <2>1, <2>2 DEF TaskIdle, Sound, StreamTypeOK
<1> QED BY <1>2, <1>3, <1>4, <1>5 DEF Streams

LEMMA OnePulseNext ==
  ASSUME Trigger \notin Leaves, NumElems >= 2, Sound, Sound', NodeCommands,
         StopInv, EventInv, OnePulse, [StreamNext]_stream_vars
  PROVE  OnePulse'
<1> SUFFICES ASSUME Streams' PROVE Pulse' = 1
  BY DEF OnePulse
<1>1. CASE OnStart /\ stream_state = "IDLE"
  BY <1>1, StartPulse
<1>2. CASE Streams
  <2>1. Pulse = 1 /\ stream_state' = "RUNNING" /\ Registered
    BY <1>2 DEF OnePulse, Streams
  <2>2. CASE OwnerNext
    BY <2>1, <2>2, OwnerPulse
  <2>3. CASE TaskNext
    BY <1>2, <2>1, <2>3, TaskPulse
  <2>4. CASE StreamHostNext
    <3>1. CASE HostGetIndex \/ HostPut
      BY <1>2, <2>1, <3>1, HostEventPulse
    <3>2. CASE HostStep
      BY <2>1, <3>2, HostPulse
    <3> QED BY <2>4, <3>1, <3>2 DEF StreamHostNext
  <2>5. CASE \E n \in Nodes, p \in Pipes : TargetStep(n, p)
    BY <2>1, <2>5, TargetPulse
  <2>6. CASE (\E a \in Apps \ {Streamer} : WaiterNext(a)) \/ UNCHANGED stream_vars
    BY <2>1, <2>6, WaiterPulse
  <2> QED BY <2>2, <2>3, <2>4, <2>5, <2>6 DEF StreamNext
<1> QED BY <1>1, <1>2, StreamsGoesOn

-----------------------------------------------------------------------------
PulseInv == EventInv /\ OnePulse

LEMMA PulseInvInit ==
  ASSUME StreamInit PROVE PulseInv
<1>1. ~adding["owner"].busy /\ ~adding["host"].busy /\ InHand = "none" /\ ~reading.busy
  BY DEF StreamInit, StreamQueue!QueueInit, StreamQueue!NotAdding, StreamQueue!NotReading,
         InHand, QueueProofs!InHand
<1>2. Len(Waiting) = 0 /\ Len(ready_queue) = 0
  <2>1. ready_queue = <<>> /\ Len(ready_queue) = 0
    BY EmptySeq DEF StreamInit, StreamQueue!QueueInit
  <2>2. Waiting \in [1 .. 0 -> StreamEvents]
    BY <2>1 DEF Waiting, QueueProofs!Waiting
  <2>3. DOMAIN Waiting = 1 .. 0 /\ Waiting \in Seq(StreamEvents)
    BY <2>2, SeqDef
  <2> QED BY <2>1, <2>3, LenProperties
<1>3. HostAdds
  BY <1>1 DEF HostAdds, StreamInit
<1>4. OneOfEach
  BY <1>1, <1>2 DEF OneOfEach, QueueProofs!Holds, QueueProofs!IsIn
<1>5. OwnerWaits
  BY <1>1, <1>2 DEF OwnerWaits, Outstanding, IsIn
<1>6. NoneBehindStart
  BY <1>1, <1>2 DEF NoneBehindStart, IsIn
<1>7. OneAsked
  BY StreamerIsApp DEF OneAsked, StreamInit, Init, IdleApp
<1>8. OnePulse
  BY DEF OnePulse, Streams, StreamInit
<1> QED BY <1>3, <1>4, <1>5, <1>6, <1>7, <1>8 DEF PulseInv, EventInv

LEMMA PulseInvNext ==
  ASSUME Trigger \notin Leaves, NumElems >= 2, Sound, Sound', NodeCommands,
         StopInv, StopInv', PulseInv, [StreamNext]_stream_vars
  PROVE  PulseInv'
<1>0. EventInv /\ OnePulse /\ HostAdds
  BY DEF PulseInv, EventInv
<1>1. HostAdds' /\ OneOfEach' /\ OwnerWaits' /\ NoneBehindStart' /\ OneAsked'
  BY <1>0, HostAddsNext, OneOfEachNext, OwnerWaitsNext, NoneBehindStartNext, OneAskedNext
<1>2. OnePulse'
  BY <1>0, OnePulseNext
<1> QED BY <1>1, <1>2 DEF PulseInv, EventInv

\* A graph that streams has exactly one next execution on its way, it neither stops by
\* itself nor is it triggered twice (vx_khr_pipelining.h 926-928: "a graph re-schedules
\* itself and executes continuously"): whatever the size of the event queue, if it holds
\* two events, and whatever the trigger node, if another node takes data from it, and the
\* input nodes of every node are on one target.
THEOREM StreamingGoesOn ==
  ASSUME InputsOnOneTarget, Trigger \notin Leaves, NumElems >= 2
  PROVE  StreamSpec => []OneNextExecution
<1>1. StreamInit => StopInv /\ PulseInv
  BY StopInvInit, PulseInvInit
<1>2. Sound /\ Sound' /\ StopInv /\ [StreamNext]_stream_vars => StopInv'
  BY StopInvNext
<1>3. Sound /\ Sound' /\ NodeCommands /\ StopInv /\ StopInv' /\ PulseInv
         /\ [StreamNext]_stream_vars => PulseInv'
  BY PulseInvNext
<1>4. StreamSpec => []SchedInv /\ []NodeCommands
  BY StreamImplementsSchedule, Invariance, CommandsInFlight, PTL
<1>5. StreamSpec => []QueueProofs!QueueInv
  BY QueueIsSound, StreamImplementsQueue, QueueProofs!QueueInvariant, PTL
<1>6. StreamSpec => []Sound
  BY <1>4, <1>5, StreamTypes, PTL DEF Sound
<1>7. Sound /\ PulseInv => OneNextExecution
  BY PulseCounts DEF PulseInv, OnePulse, Streams, OneNextExecution
<1> QED BY <1>1, <1>2, <1>3, <1>4, <1>6, <1>7, PTL DEF StreamSpec
=============================================================================
