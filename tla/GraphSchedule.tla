---------------------------- MODULE GraphSchedule ----------------------------
(***************************************************************************)
(* Scheduling and completion of the executions of one graph                *)
(* (tiovx/source/framework/vx_graph_pipeline.c, vx_graph.c and             *)
(* vx_target_on_host_cpu.c).                                               *)
(*                                                                         *)
(* A verified graph owns `Depth' graph object descriptors, one per         *)
(* pipeline instance.  Application threads take descriptors from the free  *)
(* queue to start executions; the host target task hands them back when    *)
(* the last leaf node of an execution reports completion, and restarts     *)
(* the executions that were left pending for want of a descriptor.         *)
(*                                                                         *)
(* Every section of code run under the graph's lock is one action.  What   *)
(* the code reads without the lock (graph->state in vxScheduleGraph and    *)
(* vxWaitGraph, the ready counts in ownGraphGetNumSchedule) is an action   *)
(* of its own, so that the other threads run between the read and its use. *)
(*                                                                         *)
(* Node execution is abstracted to its order and to the completion         *)
(* commands it sends to the host: a node runs once in an execution, after  *)
(* all its input nodes.  The module GraphPipeline has the detail, and      *)
(* shows (run join_race_inputs) that the code keeps this order only when   *)
(* the input nodes of every node are on one target.                        *)
(***************************************************************************)
EXTENDS Integers, Sequences, FiniteSets

CONSTANTS
    Apps,         \* threads that call the API
    Streamers,    \* the streaming task, one of Apps; {}: streaming is not enabled
    Nodes,        \* nodes of the graph
    InNodes,      \* InNodes[n]: the nodes n takes data from (in_node_id[])
    Targets,      \* targets that run nodes
    TargetOf,     \* TargetOf[n]: the target of node n
    Callbacks,    \* nodes with a user callback (TIVX_NODE_FLAG_IS_USER_CALLBACK)
    Abandoners,   \* nodes whose callback may return VX_ACTION_ABANDON
    ParamNode,    \* the node that consumes graph parameter 0
    Depth,        \* graph->pipeline_depth
    Mode,         \* graph->schedule_mode
    MaxBatch,     \* bound: references enqueued, or graph runs, per call
    MaxRequests   \* bound: executions requested in a behaviour

ASSUME DepthAssumption == Depth \in Nat \ {0}
ASSUME ModeAssumption == Mode \in {"NORMAL", "MANUAL", "AUTO"}
ASSUME BoundAssumption == MaxBatch \in Nat \ {0} /\ MaxRequests \in Nat
\* ownGraphVerifyStreamingMode.
ASSUME StreamingAssumption ==
    Streamers \subseteq Apps /\ (Streamers # {} => Mode = "NORMAL")
ASSUME NodesAssumption ==
    /\ IsFiniteSet(Nodes)
    /\ InNodes \in [Nodes -> SUBSET Nodes] /\ TargetOf \in [Nodes -> Targets]
    /\ ParamNode \in Nodes
    /\ Abandoners \subseteq Callbacks /\ Callbacks \subseteq Nodes
\* A graph with a cycle does not pass vxVerifyGraph.
ASSUME AcyclicAssumption ==
    \A S \in SUBSET Nodes :
        S # {} => \E n \in S : \A m \in S : n \notin InNodes[m]

VARIABLES
    free_q,                 \* graph->free_q: indices of the free descriptors
    desc_state,             \* graph->obj_desc[p]->state
    complete_leaf_nodes,    \* graph->obj_desc[p]->complete_leaf_nodes
    executed,               \* executed[p]: nodes with TIVX_NODE_FLAG_IS_EXECUTED
    completing,             \* <<n, p>>: n is marked, its completion not yet sent
    graph_state,            \* graph->state
    submitted_count,        \* graph->submitted_count
    schedule_pending_count, \* graph->schedule_pending_count
    completed_event,        \* graph->all_graph_completed_event is set
    ready,                  \* references in the ready queue of graph parameter 0
    host_q,                 \* completion commands queued to the host target
    host,                   \* the host target task
    app,                    \* app[a]: the API call application thread a is in
    requested,              \* ghost: executions accepted by ownGraphScheduleGraph
    done,                   \* ghost: executions completed
    abandon_seen,           \* ghost: abandon_seen[p]: a callback abandoned p's run
    last_abandoned          \* ghost: abandon_seen of the run that emptied the graph

sched_vars == <<free_q, desc_state, executed, completing, graph_state,
                submitted_count, schedule_pending_count, completed_event, abandon_seen>>
vars == <<sched_vars, complete_leaf_nodes, ready, host_q, host, app,
          requested, done, last_abandoned>>

Pipes == 0 .. Depth - 1
Leaves == {n \in Nodes : \A m \in Nodes : n \notin InNodes[m]}

\* The graphs in which all input nodes of a node are on one target.  vxVerifyGraph lets
\* the others pass, but the targets do not keep their order.
InputsOnOneTarget ==
    \A n \in Nodes : \A m, k \in InNodes[n] : TargetOf[m] = TargetOf[k]

GraphStates == {"VERIFIED", "RUNNING", "COMPLETED", "ABANDONED"}

\* The pipeline instances whose descriptor is in the free queue.
Free == {free_q[i] : i \in 1 .. Len(free_q)}
InFlight == Pipes \ Free

IdleHost == [pc |-> "idle", node |-> ParamNode, pipe |-> 0, abandon |-> FALSE,
             schedule_count |-> 0]
IdleApp(status) == [pc |-> "idle", n |-> 0, left |-> 0, status |-> status]
InCall(pc, n, left) == [pc |-> pc, n |-> n, left |-> left, status |-> "NONE"]

\* The graph as vxVerifyGraph leaves it: the descriptors are allocated and
\* queued in order of their pipeline index.
Init ==
    /\ free_q = [i \in 1 .. Depth |-> i - 1]
    /\ desc_state = [p \in Pipes |-> "VERIFIED"]
    /\ complete_leaf_nodes = [p \in Pipes |-> 0]
    /\ executed = [p \in Pipes |-> {}] /\ completing = {}
    /\ graph_state = "VERIFIED"
    /\ submitted_count = 0
    /\ schedule_pending_count = 0
    /\ completed_event = FALSE
    /\ ready = 0
    /\ host_q = <<>>
    /\ host = IdleHost
    /\ app = [a \in Apps |-> IdleApp("NONE")]
    /\ requested = 0 /\ done = 0
    /\ abandon_seen = [p \in Pipes |-> FALSE]
    /\ last_abandoned = FALSE

-----------------------------------------------------------------------------
\* ownGraphScheduleGraph(graph, num_schedule), all of it under the graph lock.

\* Mutant: a descriptor too few is taken when there are not enough.
NumStarted_OneShort(num_schedule) ==
    LET total == num_schedule + schedule_pending_count
    IN  IF total < Len(free_q) THEN total
        ELSE IF free_q = <<>> THEN 0 ELSE Len(free_q) - 1

\* How many executions the call starts: what is asked for and what is pending,
\* as far as there are free descriptors.
NumStarted(num_schedule) ==
    LET total == num_schedule + schedule_pending_count
    IN  IF total <= Len(free_q) THEN total ELSE Len(free_q)

\* Mutant: what was pending before the call is not carried over.
NumLeftPending_NotCarried(num_schedule) == num_schedule - NumStarted(num_schedule)

\* Mutant: the executions asked for are left out of the sum.
NumLeftPending_OldOnly(num_schedule) == schedule_pending_count - NumStarted(num_schedule)

\* Mutant: a NORMAL graph remembers what it could not start, too.
NumLeftPending_AnyMode(num_schedule) ==
    num_schedule + schedule_pending_count - NumStarted(num_schedule)

\* Mutant: streaming is forgotten.
RemembersPending_NotStreaming == Mode # "NORMAL"

\* Whether what could not start stays pending: not in the NORMAL mode, unless
\* streaming is enabled.
RemembersPending == Mode # "NORMAL" \/ Streamers # {}

\* The executions the call leaves pending.
NumLeftPending(num_schedule) ==
    IF RemembersPending
    THEN num_schedule + schedule_pending_count - NumStarted(num_schedule)
    ELSE schedule_pending_count

\* Mutant: the event of the earlier executions stays set.
EventAfterSchedule_NotCleared(k) == completed_event

\* tivxEventClear for every execution that is started.
EventAfterSchedule(k) == completed_event /\ k = 0

\* The free descriptors handed out, oldest first, become running executions:
\* the EXECUTED flags of their nodes are cleared and the completion event of
\* the earlier executions is withdrawn.
OwnGraphScheduleGraph(num_schedule) ==
    LET k == NumStarted(num_schedule)
        started == {free_q[i] : i \in 1 .. k}
    IN  /\ free_q' = SubSeq(free_q, k + 1, Len(free_q))
        /\ executed' = [p \in Pipes |-> IF p \in started THEN {} ELSE executed[p]]
        /\ desc_state' = [p \in Pipes |->
                            IF p \in started THEN "RUNNING" ELSE desc_state[p]]
        /\ abandon_seen' = [p \in Pipes |-> p \notin started /\ abandon_seen[p]]
        /\ graph_state' = IF k > 0 THEN "RUNNING" ELSE graph_state
        /\ completed_event' = EventAfterSchedule(k)
        /\ submitted_count' = submitted_count + k
        /\ schedule_pending_count' = NumLeftPending(num_schedule)

-----------------------------------------------------------------------------
\* Application threads.

\* Keeps the executions asked for within the bound of the model.
WithinBound == requested < MaxRequests /\ ready < MaxRequests

\* A call that schedules the graph, up to the locked part: graph->state, where it
\* is looked at, and the ready count are read without the lock.  A graph in another
\* state, and a MANUAL graph without a full set of references, is left alone and
\* the call still succeeds.
ScheduleCall(a, checks_state) ==
    /\ app[a].pc = "idle" /\ Mode # "AUTO" /\ requested < MaxRequests
    /\ LET num_schedule == IF Mode = "NORMAL" THEN 1 ELSE ready
           allowed == checks_state =>
                        graph_state \in {"VERIFIED", "COMPLETED", "ABANDONED"}
       IN  app' = [app EXCEPT ![a] =
                     IF allowed /\ num_schedule > 0
                     THEN InCall("schedule", num_schedule, 0)
                     ELSE IdleApp("SUCCESS")]
    /\ UNCHANGED <<sched_vars, complete_leaf_nodes, ready, host_q, host,
                   requested, done, last_abandoned>>

\* vxScheduleGraph.  With streaming enabled the application is refused; the streaming
\* task calls ownGraphScheduleGraphWrapper, which checks the state like
\* vxScheduleGraph, and ownGraphScheduleGraph, which does not.
VxScheduleGraph(a) ==
    \E checks_state \in BOOLEAN :
        /\ IF Streamers = {} THEN checks_state ELSE a \in Streamers
        /\ ScheduleCall(a, checks_state)

\* The locked part of ownGraphScheduleGraph called from an API function.
AppSchedule(a) ==
    /\ app[a].pc = "schedule"
    /\ OwnGraphScheduleGraph(app[a].n)
    /\ requested' = requested
         + IF RemembersPending THEN app[a].n ELSE NumStarted(app[a].n)
    /\ app' = [app EXCEPT ![a] =
                 IdleApp(IF ~RemembersPending /\ NumStarted(app[a].n) # app[a].n
                         THEN "NO_RESOURCES" ELSE "SUCCESS")]
    /\ UNCHANGED <<completing, complete_leaf_nodes, ready, host_q, host, done,
                   last_abandoned>>

\* vxGraphParameterEnqueueReadyRef(graph, 0, refs, num_refs) starts.
VxEnqueueReadyRef(a) ==
    /\ app[a].pc = "idle" /\ Mode # "NORMAL" /\ WithinBound
    /\ \E num_refs \in 1 .. MaxBatch :
          app' = [app EXCEPT ![a] = InCall("enqueue", 0, num_refs)]
    /\ UNCHANGED <<sched_vars, complete_leaf_nodes, ready, host_q, host,
                   requested, done, last_abandoned>>

\* One reference goes into the ready queue.  After the last one an AUTO graph is
\* scheduled once per reference.
EnqueueRef(a) ==
    /\ app[a].pc = "enqueue"
    /\ ready' = ready + 1
    /\ app' = [app EXCEPT ![a] =
                 IF app[a].left > 1
                 THEN InCall("enqueue", app[a].n + 1, app[a].left - 1)
                 ELSE IF Mode = "AUTO"
                      THEN InCall("schedule", app[a].n + 1, 0)
                      ELSE IdleApp("SUCCESS")]
    /\ UNCHANGED <<sched_vars, complete_leaf_nodes, host_q, host,
                   requested, done, last_abandoned>>

\* Mutant: the status of the loop is not looked at before the graph is scheduled.
EnqueueRefused_Schedules(a) ==
    /\ app[a].pc = "enqueue" /\ Mode = "AUTO"
    /\ app' = [app EXCEPT ![a] = InCall("schedule", app[a].n + 1, 0)]
    /\ UNCHANGED <<sched_vars, complete_leaf_nodes, ready, host_q, host,
                   requested, done, last_abandoned>>

\* A reference is refused (not on the parameter's list, already enqueued, queue
\* full): the call fails at once and schedules nothing, not even for the
\* references it has already put into the ready queue.
EnqueueRefused(a) ==
    /\ app[a].pc = "enqueue"
    /\ app' = [app EXCEPT ![a] = IdleApp("FAILURE")]
    /\ UNCHANGED <<sched_vars, complete_leaf_nodes, ready, host_q, host,
                   requested, done, last_abandoned>>

\* vxWaitGraph: the state is checked without the lock ...
VxWaitGraph(a) ==
    /\ app[a].pc = "idle"
    /\ app' = [app EXCEPT ![a] =
                 IF graph_state \in {"RUNNING", "COMPLETED", "ABANDONED"}
                 THEN InCall("wait", requested, 0)
                 ELSE IdleApp("NOT_SUPPORTED")]
    /\ UNCHANGED <<sched_vars, complete_leaf_nodes, ready, host_q, host,
                   requested, done, last_abandoned>>

\* ... then tivxEventWait takes the event and clears it ...
WaitEvent(a) ==
    /\ app[a].pc = "wait" /\ completed_event
    /\ completed_event' = FALSE
    /\ app' = [app EXCEPT ![a].pc = "waited"]
    /\ UNCHANGED <<free_q, desc_state, executed, completing, graph_state,
                   submitted_count, schedule_pending_count, abandon_seen,
                   complete_leaf_nodes, ready, host_q, host, requested, done,
                   last_abandoned>>

\* ... and graph->state, read again without the lock, gives the result.
WaitReturn(a) ==
    /\ app[a].pc = "waited"
    /\ app' = [app EXCEPT ![a] =
                 IdleApp(IF graph_state = "ABANDONED" THEN "GRAPH_ABANDONED"
                         ELSE "SUCCESS")]
    /\ UNCHANGED <<sched_vars, complete_leaf_nodes, ready, host_q, host,
                   requested, done, last_abandoned>>

-----------------------------------------------------------------------------
\* Targets, as far as the host sees them.

\* Mutant: the input nodes are looked at before the completion command is sent.
Triggered_BeforeComplete(n, p) == InNodes[n] \subseteq executed[p]

\* Node n of execution p has been sent to its target.  A head node is, when the
\* execution starts; another one is sent by one of its input nodes m, when the task
\* of m's target finds them all marked executed.  It looks once it has sent m's own
\* completion command, and those of the nodes that it has run before.
Triggered(n, p) ==
    /\ InNodes[n] \subseteq executed[p]
    /\ InNodes[n] # {} =>
         \E m \in InNodes[n] : \A k \in InNodes[n] :
            TargetOf[k] = TargetOf[m] => <<k, p>> \notin completing

\* Node n runs in pipeline instance p, on a target that is not busy with what comes
\* after another node, and is marked executed.  The node that consumes graph parameter
\* 0 takes a reference out of the ready queue.
NodeExecute(n, p) ==
    /\ p \in InFlight /\ n \notin executed[p] /\ Triggered(n, p)
    /\ \A c \in completing : TargetOf[c[1]] # TargetOf[n]
    /\ IF n = ParamNode /\ Mode # "NORMAL"
       THEN ready > 0 /\ ready' = ready - 1
       ELSE UNCHANGED ready
    /\ executed' = [executed EXCEPT ![p] = @ \cup {n}]
    /\ completing' = IF n \in Callbacks \cup Leaves
                     THEN completing \cup {<<n, p>>} ELSE completing
    /\ UNCHANGED <<free_q, desc_state, graph_state, submitted_count,
                   schedule_pending_count, completed_event, abandon_seen,
                   complete_leaf_nodes, host_q, host, app, requested, done,
                   last_abandoned>>

\* When the task has released the node's parameters it sends the completion command of
\* a leaf node, and of a node with a user callback.
NodeComplete(n, p) ==
    /\ <<n, p>> \in completing
    /\ completing' = completing \ {<<n, p>>}
    /\ host_q' = Append(host_q, <<n, p>>)
    /\ UNCHANGED <<free_q, desc_state, executed, graph_state, submitted_count,
                   schedule_pending_count, completed_event, abandon_seen,
                   complete_leaf_nodes, ready, host, app, requested, done,
                   last_abandoned>>

-----------------------------------------------------------------------------
\* The host target task: ownTargetCmdDescHandlerHost, TIVX_CMD_NODE_USER_CALLBACK.

\* The task takes a command and calls the node's user callback.
HostTake ==
    /\ host.pc = "idle" /\ host_q # <<>>
    /\ LET n == Head(host_q)[1]
           p == Head(host_q)[2]
       IN  \E abandon \in {FALSE} \cup {n \in Abandoners} :
             /\ host' = [pc |-> IF n \in Leaves THEN "check" ELSE "action",
                         node |-> n, pipe |-> p, abandon |-> abandon, schedule_count |-> 0]
             /\ abandon_seen' = [abandon_seen EXCEPT ![p] = @ \/ abandon]
    /\ host_q' = Tail(host_q)
    /\ UNCHANGED <<free_q, desc_state, executed, completing, graph_state,
                   submitted_count, schedule_pending_count, completed_event,
                   complete_leaf_nodes, ready, app, requested, done, last_abandoned>>

\* Mutant: any leaf node completes the execution.
IsLastLeaf_Any(p) == TRUE

\* Whether the leaf node that reports now is the last one of execution p.
IsLastLeaf(p) == complete_leaf_nodes[p] + 1 = Cardinality(Leaves)

\* Mutant: the counter is not reset for the next execution.
LeafNodesAfter_NoReset(p) == complete_leaf_nodes[p] + 1

\* The counter of leaf nodes once the report is accounted for.
LeafNodesAfter(p) == IF IsLastLeaf(p) THEN 0 ELSE complete_leaf_nodes[p] + 1

\* Mutant: an abandoned execution completes like any other.
EndState_Completed(p) == "COMPLETED"

\* The state in which execution p ends.
EndState(p) == IF desc_state[p] = "RUNNING" THEN "COMPLETED" ELSE desc_state[p]

\* Mutant: the graph takes over the state of every execution that ends.
StateAfterCompletion_Each(p) == EndState(p)

\* The graph's state follows the execution that leaves nothing submitted.
StateAfterCompletion(p) == IF submitted_count = 1 THEN EndState(p) ELSE graph_state

\* Mutant: the descriptor stays away while executions are pending.
FreeQueueWith_NonePending(p) ==
    IF schedule_pending_count > 0 THEN free_q ELSE Append(free_q, p)

\* ownGraphEnqueueFreeObjDesc.
FreeQueueWith(p) == Append(free_q, p)

\* Mutant: the count is tested before it is decremented.
AllCompleted_TooEarly == submitted_count = 0 /\ schedule_pending_count = 0

\* Nothing is submitted any more, and nothing is to be restarted.
AllCompleted == submitted_count = 1 /\ schedule_pending_count = 0

\* ownCheckGraphCompleted(graph, pipeline_id), locked: not the last leaf node.
LeafCompleted ==
    LET p == host.pipe IN
    /\ host.pc = "check" /\ ~IsLastLeaf(p)
    /\ complete_leaf_nodes' = [complete_leaf_nodes EXCEPT ![p] = LeafNodesAfter(p)]
    /\ host' = [host EXCEPT !.pc = "action"]
    /\ UNCHANGED <<sched_vars, ready, host_q, app, requested, done, last_abandoned>>

\* ownCheckGraphCompleted(graph, pipeline_id), locked: the execution is complete.
\* Its descriptor is freed, the pending count moves into a local variable, and
\* the completion event is posted when nothing is submitted or pending.
GraphCompleted ==
    LET p == host.pipe IN
    /\ host.pc = "check" /\ IsLastLeaf(p)
    /\ complete_leaf_nodes' = [complete_leaf_nodes EXCEPT ![p] = LeafNodesAfter(p)]
    /\ submitted_count' = submitted_count - 1
    /\ desc_state' = [desc_state EXCEPT ![p] = EndState(p)]
    /\ graph_state' = StateAfterCompletion(p)
    /\ free_q' = FreeQueueWith(p)
    /\ schedule_pending_count' = 0
    /\ completed_event' = (completed_event \/ AllCompleted)
    /\ host' = [host EXCEPT !.pc = IF schedule_pending_count > 0
                                   THEN "reschedule" ELSE "action",
                            !.schedule_count = schedule_pending_count]
    /\ done' = done + 1
    /\ last_abandoned' = IF submitted_count = 1 THEN abandon_seen[p] ELSE last_abandoned
    /\ UNCHANGED <<executed, completing, abandon_seen, ready, host_q, app, requested>>

\* Mutant: what was pending is dropped with the local variable.
HostReschedule_Dropped ==
    /\ host.pc = "reschedule"
    /\ host' = [host EXCEPT !.pc = "action", !.schedule_count = 0]
    /\ UNCHANGED <<sched_vars, complete_leaf_nodes, ready, host_q, app, requested, done,
                   last_abandoned>>

\* After the lock is dropped, ownGraphScheduleGraph for what was pending.
HostReschedule ==
    /\ host.pc = "reschedule"
    /\ OwnGraphScheduleGraph(host.schedule_count)
    /\ host' = [host EXCEPT !.pc = "action", !.schedule_count = 0]
    /\ UNCHANGED <<completing, complete_leaf_nodes, ready, host_q, app, requested, done,
                   last_abandoned>>

\* The execution that is abandoned: the one of the node whose callback says so.
AbandonedPipe == host.pipe

\* Last of all the action the callback returned: ownTargetSetGraphStateAbandon.
HostAction ==
    /\ host.pc = "action"
    /\ desc_state' = IF host.abandon
                     THEN [desc_state EXCEPT ![AbandonedPipe] = "ABANDONED"]
                     ELSE desc_state
    /\ host' = IdleHost
    /\ UNCHANGED <<free_q, executed, completing, graph_state, submitted_count,
                   schedule_pending_count, completed_event, abandon_seen,
                   complete_leaf_nodes, ready, host_q, app, requested, done,
                   last_abandoned>>

-----------------------------------------------------------------------------
AppNext(a) ==
    \/ VxScheduleGraph(a) \/ AppSchedule(a)
    \/ VxEnqueueReadyRef(a) \/ EnqueueRef(a) \/ EnqueueRefused(a)
    \/ VxWaitGraph(a) \/ WaitEvent(a) \/ WaitReturn(a)

HostNext ==
    HostTake \/ LeafCompleted \/ GraphCompleted \/ HostReschedule \/ HostAction

Next ==
    \/ \E a \in Apps : AppNext(a)
    \/ \E n \in Nodes, p \in Pipes : NodeExecute(n, p) \/ NodeComplete(n, p)
    \/ HostNext

Spec == Init /\ [][Next]_vars

\* The host task and the targets are threads that run whenever they have work,
\* and a thread inside an API call goes on with it.  Nothing makes the
\* application start a call.
Fairness ==
    /\ WF_vars(HostNext)
    /\ \A n \in Nodes, p \in Pipes :
         WF_vars(NodeExecute(n, p)) /\ WF_vars(NodeComplete(n, p))
    /\ \A a \in Apps : WF_vars(AppSchedule(a)) /\ WF_vars(EnqueueRef(a))
                       /\ WF_vars(WaitEvent(a)) /\ WF_vars(WaitReturn(a))

FairSpec == Spec /\ Fairness

-----------------------------------------------------------------------------
\* Properties.

HostStates == [pc : {"idle", "check", "reschedule", "action"}, node : Nodes,
               pipe : Pipes, abandon : BOOLEAN, schedule_count : Nat]
AppStates == [pc : {"idle", "schedule", "enqueue", "wait", "waited"}, n : Nat,
              left : Nat,
              status : {"NONE", "SUCCESS", "FAILURE", "NO_RESOURCES",
                        "NOT_SUPPORTED", "GRAPH_ABANDONED"}]

TypeOK ==
    /\ free_q \in Seq(Pipes)
    /\ desc_state \in [Pipes -> GraphStates]
    /\ complete_leaf_nodes \in [Pipes -> Nat]
    /\ executed \in [Pipes -> SUBSET Nodes] /\ completing \subseteq Nodes \X Pipes
    /\ graph_state \in GraphStates
    /\ submitted_count \in Nat /\ schedule_pending_count \in Nat
    /\ completed_event \in BOOLEAN
    /\ ready \in Nat
    /\ host_q \in Seq(Nodes \X Pipes)
    /\ host \in HostStates /\ app \in [Apps -> AppStates]
    /\ requested \in Nat /\ done \in Nat
    /\ abandon_seen \in [Pipes -> BOOLEAN] /\ last_abandoned \in BOOLEAN

\* A descriptor is in the free queue at most once, and submitted_count counts the
\* descriptors that are not there.
DescriptorsConserved ==
    /\ \A i, j \in 1 .. Len(free_q) : free_q[i] = free_q[j] => i = j
    /\ submitted_count + Len(free_q) = Depth

\* Node n of execution p has a completion command in the queue of the host task ...
Queued(n, p) == \E i \in 1 .. Len(host_q) : host_q[i] = <<n, p>>
\* ... or the host task is about to account for it.
Checking(n, p) == host.pc = "check" /\ host.node = n /\ host.pipe = p

\* The leaf nodes of execution p whose completion has been accounted for.
Reported(p) == {n \in Leaves : /\ n \in executed[p] /\ <<n, p>> \notin completing
                               /\ ~Queued(n, p) /\ ~Checking(n, p)}

\* complete_leaf_nodes counts each leaf node of the execution in flight once, and
\* no command of an earlier execution is left over to be counted for the next one
\* that uses the descriptor (vx_graph_pipeline.c 1330-1340).
LeafCounts ==
    \A p \in Pipes : complete_leaf_nodes[p] =
                       IF p \in InFlight THEN Cardinality(Reported(p)) ELSE 0

\* No accepted execution is forgotten and none is run twice, not even while the
\* host task holds the pending count in a local variable between its two locked
\* sections (vx_graph_pipeline.c 1426-1454).
NoLostSchedule ==
    requested = done + submitted_count + schedule_pending_count + host.schedule_count

\* The all-completed event is never left set, or posted, while executions are in
\* flight, pending, or about to be restarted by the host task.
CompletedEventMeansIdle ==
    completed_event => submitted_count = 0 /\ schedule_pending_count = 0
                       /\ host.schedule_count = 0

\* Executions stay pending only while every descriptor is in use (so the
\* completion of one of them will start them).
PendingMeansFull == schedule_pending_count > 0 => submitted_count = Depth

\* graph->state, which vxScheduleGraph and vxWaitGraph trust without the lock,
\* is RUNNING exactly while executions are in flight.
RunningIffSubmitted == graph_state = "RUNNING" <=> submitted_count > 0

\* vxWaitGraph comes back only when every execution accepted before it was called
\* has completed (vx_api.h: "returns only when the last scheduled execution
\* completes").
WaitCoversEarlierCalls ==
    [][\A a \in Apps : app[a].pc = "wait" /\ app'[a].pc = "waited"
                       => done' >= app[a].n]_vars

\* An execution in flight is marked ABANDONED only by a callback of its own.
AbandonIsOwn ==
    \A p \in InFlight : desc_state[p] = "ABANDONED" => abandon_seen[p]

\* While the result of the last execution can be collected, graph->state tells
\* whether one of its callbacks abandoned it.
AbandonReported ==
    completed_event => (graph_state = "ABANDONED" <=> last_abandoned)

\* Every execution that was accepted and not yet given its input reference has
\* one in the ready queue: an execution is never started on nothing.
InputRefsBacked ==
    Mode # "NORMAL" =>
      schedule_pending_count + host.schedule_count
        + Cardinality({p \in InFlight : ParamNode \notin executed[p]}) <= ready

\* The scheduler implements the service it promises: an execution is queued while
\* its count is in schedule_pending_count or in the host task's local variable,
\* and runs from the moment it holds a descriptor.
Service == INSTANCE ScheduleService WITH
    queued <- schedule_pending_count + host.schedule_count,
    running <- submitted_count,
    waits <- [a \in Apps |-> IF app[a].pc = "wait" THEN app[a].n ELSE -1]

ImplementsService == Service!Spec

\* Every accepted execution completes, provided it has its input reference.
AcceptedCompletes == \A k \in 1 .. MaxRequests : (requested >= k) ~> (done >= k)

\* When threads wait while executions are outstanding, one of them is released.
\* (Only one: the event resets itself when it is taken.)
WaitReleased ==
    ((\E a \in Apps : app[a].pc = "wait") /\ requested > done)
        ~> (\E a \in Apps : app[a].pc = "waited")
=============================================================================
