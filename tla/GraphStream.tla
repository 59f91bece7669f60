----------------------------- MODULE GraphStream -----------------------------
(***************************************************************************)
(* Streaming (tiovx/source/framework/vx_graph_stream.c): a graph that      *)
(* executes again and again until it is stopped.                           *)
(*                                                                         *)
(* The streaming task of the graph waits for events: START and STOP, which *)
(* the application adds, and STREAMING_EVENT, which the host task adds     *)
(* each time the trigger node reports completion and for which the task    *)
(* schedules the graph once more.  The task is one of the threads of       *)
(* GraphSchedule, the only one that schedules; other threads may wait for  *)
(* the graph.                                                              *)
(*                                                                         *)
(* No timeout expires (graph->timeout_val is VX_TIMEOUT_WAIT_FOREVER).     *)
(***************************************************************************)
EXTENDS GraphSchedule

CONSTANTS
    Streamer,  \* the streaming task
    Trigger,   \* graph->nodes[trigger_node_index]
    NumElems   \* TIVX_EVENT_QUEUE_MAX_SIZE

Commands == {"START", "STOP", "DELETE"}
StreamEvents == Commands \cup {"STREAMING_EVENT"}

ASSUME StreamAssumption ==
    /\ Streamers = {Streamer} /\ NumElems \in Nat \ {0}
    /\ Trigger \in Callbacks   \* set when the event is registered

VARIABLES
    free_queue, ready_queue, event_list, adding, reading,
                         \* graph->streaming_event_queue
    stream_state,        \* the task's state: IDLE, RUNNING, or EXITED
    stopping,            \* the task is in the vxWaitGraph that STOP asks for
    is_streaming, is_streaming_error, stop_done, delete_done,
                         \* the fields of the graph
    owner,               \* where the thread is that starts, stops and releases
    event_sent           \* the host task has sent the trigger's event

StreamQueue == INSTANCE EventQueue WITH
    Adders <- {"owner", "host"}, Events <- StreamEvents, NoEvent <- "none"

queue_vars == <<free_queue, ready_queue, event_list, adding, reading>>
task_vars == <<stream_state, stopping>>
flag_vars == <<is_streaming, is_streaming_error, stop_done, delete_done>>
stream_vars == <<vars, queue_vars, task_vars, flag_vars, owner, event_sent>>

\* The graph once it is verified: ownGraphAllocForStreaming.
StreamInit ==
    /\ Init /\ StreamQueue!QueueInit
    /\ stream_state = "IDLE" /\ stopping = FALSE
    /\ is_streaming = FALSE /\ is_streaming_error = FALSE
    /\ stop_done = FALSE /\ delete_done = FALSE
    /\ owner = "idle" /\ event_sent = FALSE

\* The node completion event is registered only with pipelining.
Registered == Depth > 1

-----------------------------------------------------------------------------
\* The application thread that owns the graph.

\* ownSendUserGraphEvent: the event is added in two steps, of which this is the
\* first, or it is dropped.
SendEvent(event, next, dropped) ==
    IF StreamQueue!QueueFull
    THEN owner' = dropped /\ UNCHANGED queue_vars
    ELSE owner' = next /\ StreamQueue!GetIndex("owner", event)

\* vxStartGraphStreaming.
VxStartGraphStreaming ==
    /\ owner = "idle" /\ ~is_streaming /\ requested < MaxRequests
    /\ is_streaming' = TRUE
    /\ SendEvent("START", "start_put", "idle")
    /\ UNCHANGED <<vars, task_vars, is_streaming_error, stop_done, delete_done, event_sent>>

\* vxStopGraphStreaming clears stop_done ...
VxStopGraphStreaming ==
    /\ owner = "idle" /\ is_streaming
    /\ stop_done' = FALSE
    /\ owner' = "stop_send"
    /\ UNCHANGED <<vars, queue_vars, task_vars, is_streaming, is_streaming_error,
                   delete_done, event_sent>>

\* ... sends STOP, but not to a task that has left after an error, and returns if it
\* could not be sent ...
StopSend ==
    /\ owner = "stop_send"
    /\ IF is_streaming_error
       THEN owner' = "error_wait" /\ UNCHANGED queue_vars
       ELSE SendEvent("STOP", "stop_put", "idle")
    /\ UNCHANGED <<vars, task_vars, flag_vars, event_sent>>

\* ... and waits for stop_done.
StopWait ==
    /\ owner \in {"stop_wait", "error_wait"} /\ stop_done
    /\ stop_done' = FALSE /\ is_streaming' = FALSE
    /\ owner' = "idle"
    /\ UNCHANGED <<vars, queue_vars, task_vars, is_streaming_error, delete_done, event_sent>>

\* vxReleaseGraph: ownGraphStreamDeleteTask sends DELETE unless the task has left
\* after an error, and waits for delete_done even when DELETE was dropped.
VxReleaseGraph ==
    /\ owner = "idle"
    /\ IF is_streaming_error
       THEN owner' = "released" /\ UNCHANGED <<queue_vars, delete_done>>
       ELSE /\ delete_done' = FALSE
            /\ SendEvent("DELETE", "delete_put", "delete_wait")
    /\ UNCHANGED <<vars, task_vars, is_streaming, is_streaming_error, stop_done, event_sent>>

DeleteWait ==
    /\ owner = "delete_wait" /\ delete_done
    /\ delete_done' = FALSE
    /\ owner' = "released"
    /\ UNCHANGED <<vars, queue_vars, task_vars, is_streaming, is_streaming_error,
                   stop_done, event_sent>>

\* The second half of SendEvent.
OwnerPut ==
    /\ owner \in {"start_put", "stop_put", "delete_put"}
    /\ StreamQueue!PutEvent("owner")
    /\ owner' = CASE owner = "start_put"  -> "idle"
                  [] owner = "stop_put"   -> "stop_wait"
                  [] owner = "delete_put" -> "delete_wait"
    /\ UNCHANGED <<vars, task_vars, flag_vars, event_sent>>

-----------------------------------------------------------------------------
\* ownStreamingPipeliningTask.

TaskIdle == stream_state # "EXITED" /\ ~stopping /\ app[Streamer].pc = "idle"

\* ownWaitGraphEvent takes the next event out of the queue.
TakeEvent ==
    /\ TaskIdle /\ StreamQueue!TakeIndex
    /\ UNCHANGED <<vars, task_vars, flag_vars, owner, event_sent>>

\* The event has been copied and its element given back.
HasEvent(event) == TaskIdle /\ StreamQueue!GiveIndexBack /\ StreamQueue!EventRead = event

\* START.  IDLE: the graph is scheduled, if its state allows.  RUNNING: the event is
\* reported as unexpected.
OnStart ==
    /\ HasEvent("START")
    /\ stream_state' = "RUNNING"
    /\ IF stream_state = "IDLE" THEN ScheduleCall(Streamer, TRUE) ELSE UNCHANGED vars
    /\ UNCHANGED <<stopping, flag_vars, owner, event_sent>>

\* Mutant: an event that is left over from before STOP is served like any other.
Retriggers_Idle == TRUE

\* Whether a STREAMING_EVENT schedules the graph again.
Retriggers == stream_state = "RUNNING"

\* STREAMING_EVENT.  MaxRequests ends the streaming, as far as the model goes.
OnStreamingEvent ==
    /\ HasEvent("STREAMING_EVENT")
    /\ IF Retriggers /\ requested < MaxRequests
       THEN ScheduleCall(Streamer, FALSE)
       ELSE UNCHANGED vars
    /\ UNCHANGED <<task_vars, flag_vars, owner, event_sent>>

\* STOP.  RUNNING: no event schedules the graph any more, and the task waits for what
\* is in flight.  IDLE, when START was dropped: there is nothing to wait for.
OnStop ==
    /\ HasEvent("STOP")
    /\ stream_state' = "IDLE"
    /\ IF stream_state = "RUNNING"
       THEN stopping' = TRUE /\ VxWaitGraph(Streamer) /\ UNCHANGED stop_done
       ELSE stop_done' = TRUE /\ UNCHANGED <<vars, stopping>>
    /\ UNCHANGED <<is_streaming, is_streaming_error, delete_done, owner, event_sent>>

\* The locked part of ownGraphScheduleGraph, the wait for the event, and the status
\* that the wait returns.
TaskCall ==
    /\ AppSchedule(Streamer) \/ WaitEvent(Streamer) \/ WaitReturn(Streamer)
    /\ UNCHANGED <<queue_vars, task_vars, flag_vars, owner, event_sent>>

\* Mutant: a task that leaves after an error tells nobody.
StopAnswered_NotOnError == app[Streamer].status = "SUCCESS"

\* Whether stop_done is posted once vxWaitGraph is back.
StopAnswered == TRUE

\* STOP is done.  When vxWaitGraph fails the task leaves.
Stopped ==
    /\ stopping /\ app[Streamer].pc = "idle"
    /\ stopping' = FALSE
    /\ stop_done' = (stop_done \/ StopAnswered)
    /\ IF app[Streamer].status = "SUCCESS"
       THEN UNCHANGED <<stream_state, is_streaming_error, delete_done>>
       ELSE stream_state' = "EXITED" /\ is_streaming_error' = TRUE /\ delete_done' = TRUE
    /\ UNCHANGED <<vars, queue_vars, is_streaming, owner, event_sent>>

\* DELETE: the task leaves.
OnDelete ==
    /\ HasEvent("DELETE")
    /\ stream_state' = "EXITED" /\ delete_done' = TRUE
    /\ UNCHANGED <<vars, stopping, is_streaming, is_streaming_error, stop_done, owner,
                   event_sent>>

TaskNext ==
    \/ TakeEvent \/ OnStart \/ OnStreamingEvent \/ OnStop \/ OnDelete
    \/ TaskCall \/ Stopped

-----------------------------------------------------------------------------
\* The host task: the trigger's event is added when the completion has been
\* accounted for, and before the callback's action is looked at.

SendsEvent == Registered /\ host.pc = "action" /\ host.node = Trigger /\ ~event_sent

\* ownNodeCheckAndSendCompletionEvent: no element, no event ...
HostGetIndex ==
    /\ SendsEvent /\ ~adding["host"].busy
    /\ IF StreamQueue!QueueFull
       THEN event_sent' = TRUE /\ UNCHANGED queue_vars
       ELSE StreamQueue!GetIndex("host", "STREAMING_EVENT") /\ UNCHANGED event_sent
    /\ UNCHANGED <<vars, task_vars, flag_vars, owner>>

HostPut ==
    /\ StreamQueue!PutEvent("host")
    /\ event_sent' = TRUE
    /\ UNCHANGED <<vars, task_vars, flag_vars, owner>>

\* The rest of the handler is GraphSchedule's.
HostStep ==
    /\ \/ ~SendsEvent /\ HostAction /\ event_sent' = FALSE
       \/ HostTake /\ UNCHANGED event_sent
       \/ LeafCompleted /\ UNCHANGED event_sent
       \/ GraphCompleted /\ UNCHANGED event_sent
       \/ HostReschedule /\ UNCHANGED event_sent
    /\ UNCHANGED <<queue_vars, task_vars, flag_vars, owner>>

StreamHostNext == HostGetIndex \/ HostPut \/ HostStep

-----------------------------------------------------------------------------
OwnerStep == StopSend \/ StopWait \/ DeleteWait \/ OwnerPut

OwnerNext == VxStartGraphStreaming \/ VxStopGraphStreaming \/ VxReleaseGraph \/ OwnerStep

\* Another thread waits for the graph.
WaiterNext(a) ==
    /\ VxWaitGraph(a) \/ WaitEvent(a) \/ WaitReturn(a)
    /\ UNCHANGED <<queue_vars, task_vars, flag_vars, owner, event_sent>>

TargetStep(n, p) ==
    /\ NodeExecute(n, p) \/ NodeComplete(n, p)
    /\ UNCHANGED <<queue_vars, task_vars, flag_vars, owner, event_sent>>

StreamNext ==
    \/ OwnerNext \/ TaskNext \/ StreamHostNext
    \/ \E a \in Apps \ {Streamer} : WaiterNext(a)
    \/ \E n \in Nodes, p \in Pipes : TargetStep(n, p)

StreamSpec == StreamInit /\ [][StreamNext]_stream_vars

\* The tasks run whenever they have work, and the owner goes on with a call that it
\* has started.  Nothing makes it start one, nor another thread wait.
StreamFairness ==
    /\ WF_stream_vars(OwnerStep) /\ WF_stream_vars(TaskNext)
    /\ WF_stream_vars(StreamHostNext)
    /\ \A n \in Nodes, p \in Pipes : WF_stream_vars(TargetStep(n, p))

FairStreamSpec == StreamSpec /\ StreamFairness

-----------------------------------------------------------------------------
\* Properties.

StreamTypeOK ==
    /\ TypeOK /\ StreamQueue!QueueTypeOK
    /\ stream_state \in {"IDLE", "RUNNING", "EXITED"} /\ stopping \in BOOLEAN
    /\ is_streaming \in BOOLEAN /\ is_streaming_error \in BOOLEAN
    /\ stop_done \in BOOLEAN /\ delete_done \in BOOLEAN
    /\ owner \in {"idle", "start_put", "stop_send", "stop_put", "stop_wait",
                  "error_wait", "delete_put", "delete_wait", "released"}
    /\ event_sent \in BOOLEAN

One(condition) == IF condition THEN 1 ELSE 0

\* Where the next execution may come from: an execution that is accepted and whose
\* trigger node has not run, the trigger's completion that its task is about to send or
\* that is on its way through the host task, its event, or the call the event has led to.
NextExecutions ==
    schedule_pending_count + host.schedule_count
    + Cardinality({p \in InFlight : Trigger \notin executed[p]})
    + Cardinality({p \in Pipes : <<Trigger, p>> \in completing})
    + Cardinality({i \in 1 .. Len(host_q) : host_q[i][1] = Trigger})
    + One(host.pc # "idle" /\ host.node = Trigger /\ ~event_sent)
    + Cardinality({i \in 1 .. Len(ready_queue) :
                     event_list[ready_queue[i]] = "STREAMING_EVENT"})
    + One(reading.busy /\ StreamQueue!EventRead = "STREAMING_EVENT")
    + One(app[Streamer].pc = "schedule")

\* A graph that streams has exactly one next execution on its way: it neither stops
\* by itself, because an event was dropped or an execution was not remembered, nor
\* is it triggered twice (vx_khr_pipelining.h 926-928: "a graph re-schedules itself
\* and executes continuously").
OneNextExecution ==
    stream_state = "RUNNING" /\ Registered /\ requested < MaxRequests
        => NextExecutions = 1

\* Once vxStopGraphStreaming has returned nothing is in flight, pending or about to be
\* scheduled (vx_khr_pipelining.h 957-958: "when all internally scheduled graph
\* executions are completed").
StoppedMeansIdle ==
    ~is_streaming => /\ submitted_count = 0 /\ schedule_pending_count = 0
                     /\ host.schedule_count = 0 /\ app[Streamer].pc # "schedule"

\* Every vxStopGraphStreaming returns, unless the task had left after an error of an
\* earlier one (vx_khr_pipelining.h 957: "blocks until graph execution is gracefully
\* stopped").
StopReturns ==
    owner \in {"stop_send", "stop_put", "stop_wait"} ~> owner \in {"idle", "error_wait"}

ImplementsChannel == StreamQueue!ImplementsChannel
=============================================================================
