---------------------------- MODULE GraphPipeline ----------------------------
(***************************************************************************)
(* The flow of data references through the nodes of a pipelined graph      *)
(* (tiovx/source/framework/vx_target.c, vx_target_acquire_parameters.c,    *)
(* vx_obj_desc_queue.c, vx_data_ref_queue.c and the graph parameter queues *)
(* of vx_graph_pipeline.c).                                                *)
(*                                                                         *)
(* Each target is a task with a job queue of node descriptors.  To run a   *)
(* node the task acquires one reference per parameter from the parameter's *)
(* queue; a node that finds a queue empty is parked on that queue's list   *)
(* of blocked nodes, and the same node of the next pipeline instance is    *)
(* parked behind it.  Whoever puts a reference back wakes the parked nodes *)
(* by sending them to their targets again.                                 *)
(*                                                                         *)
(* This module replaces NodeExecute and NodeComplete of GraphSchedule by   *)
(* these steps and keeps its scheduler and host task.  Sections under the  *)
(* data-ref-queue lock are one action each; what a thread sends after it   *)
(* has dropped the lock goes through its outbox, one descriptor at a time. *)
(* The graph is in the AUTO mode: an application thread feeds graph        *)
(* parameter 0, and for every graph parameter one thread dequeues the      *)
(* references that are done and one enqueues output references again.      *)
(***************************************************************************)
EXTENDS GraphSchedule, SequencesExt, FiniteSetsExt

CONSTANTS
    HeadNodes,    \* HeadNodes[t]: sequence of t's nodes without input nodes
    OutNodes,     \* OutNodes[n]: sequence of the nodes n feeds (out_node_id[])
    Data,         \* data objects that are parameters of the nodes
    Params,       \* Params[n]: sequence of the data objects that are n's parameters
    Writer,       \* Writer[d]: the node that has d as an output, or "app"
    NumBufs,      \* NumBufs[d]: references that circulate for d
    UserData,     \* the data objects that are graph parameters
    Param0,       \* the data object that is graph parameter 0
    MaxBlocked,   \* TIVX_OBJ_DESC_QUEUE_MAX_BLOCKED_NODES
    MaxJobs       \* TIVX_TARGET_MAX_JOB_QUEUE_DEPTH

ASSUME GraphAssumption ==
    /\ Mode = "AUTO"
    /\ Param0 \in UserData /\ UserData \subseteq Data
    /\ Writer[Param0] = "app" /\ Param0 \in ToSet(Params[ParamNode])
    /\ \A d \in Data : Writer[d] = "app" => d \in UserData
\* A node has at least one parameter; the names of the host target and of its other
\* command stand for nothing else.
ASSUME PipelineAssumption ==
    /\ "host" \notin Targets /\ "ref_consumed" \notin Nodes
    /\ Params \in [Nodes -> Seq(Data)] /\ \A n \in Nodes : Params[n] # <<>>
    /\ NumBufs \in [Data -> Nat]
    /\ MaxBlocked \in Nat /\ MaxJobs \in Nat
\* vxVerifyGraph links every node once to each node that takes data from it, and the
\* nodes without input nodes are the head nodes (vx_graph_verify.c:1025, 1201).
ASSUME LinksAssumption ==
    /\ HeadNodes \in [Targets -> Seq(Nodes)]
    /\ \A t \in Targets :
         /\ IsInjective(HeadNodes[t])
         /\ ToSet(HeadNodes[t]) = {n \in Nodes : InNodes[n] = {} /\ TargetOf[n] = t}
    /\ OutNodes \in [Nodes -> Seq(Nodes)]
    /\ \A n \in Nodes : /\ IsInjective(OutNodes[n])
                        /\ ToSet(OutNodes[n]) = {m \in Nodes : n \in InNodes[m]}

VARIABLES
    acquire_q,      \* acquire_q[d]: references a node can acquire (ready_q)
    done_q,         \* done_q[d]: references of a graph parameter that are done
    blocked_nodes,  \* blocked_nodes[d]: nodes parked on acquire_q[d]
    data_ref,       \* data_ref[d][p]: the data_ref_q descriptor of instance p
    node_state,     \* node_state[n][p]: IDLE or BLOCKED
    next_blocked,   \* nodes that the same node of the next instance waits for
    job_q,          \* job_q[t]: node descriptors queued to target t
    task,           \* task[t]: what the task of target t is doing
    outbox,         \* outbox[th]: what thread th is about to send
    done_event,     \* done_event[d]: wait_done_ref_available_event is set
    dequeuer,       \* dequeuer[d]: the thread in vxGraphParameterDequeueDoneRef
    held,           \* held[d]: references the application holds
    frame,          \* frame[d][r]: the frame whose data reference r carries
    num_fed,        \* frames put into graph parameter 0
    num_delivered   \* num_delivered[d]: references of d dequeued

pipe_vars == <<acquire_q, done_q, blocked_nodes, data_ref, node_state, next_blocked,
               job_q, task, outbox, done_event, dequeuer, held, frame, num_fed,
               num_delivered>>
all_vars == <<vars, pipe_vars>>

Invalid == 0                       \* TIVX_OBJ_DESC_INVALID
Bufs(d) == 1 .. NumBufs[d]
Threads == Targets \cup Apps \cup UserData
Readers(d) == {n \in Nodes : n # Writer[d] /\ d \in ToSet(Params[n])}
Outputs == {d \in UserData : Writer[d] # "app"}
PrevPipe(p) == (p + Depth - 1) % Depth

\* Mutant: the ring of instances is not closed.
NextPipe_NoWrap(p) == p + 1

NextPipe(p) == (p + 1) % Depth

ToNode(n, p) == [to |-> TargetOf[n], item |-> <<n, p>>]
ToHost(item) == [to |-> "host", item |-> item]
IdleTask == [pc |-> "idle", node |-> ParamNode, pipe |-> 0, prm |-> 1, refs |-> <<>>,
             retrigger |-> FALSE]

PipeInit ==
    /\ Init
    /\ acquire_q = [d \in Data |-> IF d \in UserData THEN <<>>
                                   ELSE [i \in Bufs(d) |-> i]]
    /\ done_q = [d \in UserData |-> <<>>]
    /\ blocked_nodes = [d \in Data |-> <<>>]
    /\ data_ref = [d \in Data |-> [p \in Pipes |->
                     [acquired |-> FALSE, ref |-> Invalid, in_node_done_cnt |-> 0]]]
    /\ node_state = [n \in Nodes |-> [p \in Pipes |-> "IDLE"]]
    /\ next_blocked = {}
    /\ job_q = [t \in Targets |-> <<>>]
    /\ task = [t \in Targets |-> IdleTask]
    /\ outbox = [th \in Threads |-> <<>>]
    /\ done_event = [d \in UserData |-> FALSE]
    /\ dequeuer = [d \in UserData |-> "idle"]
    /\ held = [d \in UserData |-> Bufs(d)]
    /\ frame = [d \in Data |-> [r \in Bufs(d) |-> 0]]
    /\ num_fed = 0
    /\ num_delivered = [d \in UserData |-> 0]

-----------------------------------------------------------------------------
\* Sending a descriptor to a target: ownObjDescSend, ownTargetTriggerNode.

\* tivxQueuePut without a timeout: a job for a full queue is dropped.
Put(q, jobs) == SubSeq(q \o jobs, 1, Min({MaxJobs, Len(q) + Len(jobs)}))

\* Thread th sends the next descriptor it has to send.
SendNext(th) ==
    /\ outbox[th] # <<>>
    /\ outbox' = [outbox EXCEPT ![th] = Tail(@)]
    /\ LET msg == Head(outbox[th])
       IN  IF msg.to = "host"
           THEN host_q' = Put(host_q, <<msg.item>>) /\ UNCHANGED job_q
           ELSE job_q' = [job_q EXCEPT ![msg.to] = Put(@, <<msg.item>>)] /\ UNCHANGED host_q
    /\ UNCHANGED <<sched_vars, complete_leaf_nodes, ready, host, app, requested, done,
                   last_abandoned, acquire_q, done_q, blocked_nodes, data_ref,
                   node_state, next_blocked, task, done_event, dequeuer, held, frame,
                   num_fed, num_delivered>>

\* The head nodes of the executions that ownGraphScheduleGraph starts are sent to
\* their targets, execution by execution, under the graph's lock.
HeadNodesSent(num_schedule) ==
    LET heads(t) == Len(HeadNodes[t])
        jobs(t) == [i \in 1 .. NumStarted(num_schedule) * heads(t) |->
                      <<HeadNodes[t][1 + ((i - 1) % heads(t))],
                        free_q[1 + ((i - 1) \div heads(t))]>>]
    IN  job_q' = [t \in Targets |-> Put(job_q[t], jobs(t))]

-----------------------------------------------------------------------------
\* Graph parameters: application threads.

\* Mutant: parked nodes are taken off the list but not sent.
Woken_None(d) == <<>>

\* The nodes parked on the queue of d, to be sent to their targets.
Woken(d) == [i \in DOMAIN blocked_nodes[d] |->
               ToNode(blocked_nodes[d][i][1], blocked_nodes[d][i][2])]

\* A reference of d goes into its ready queue, and the nodes parked there are
\* woken by thread th.
EnqueueReady(d, r, th) ==
    /\ held' = [held EXCEPT ![d] = @ \ {r}]
    /\ acquire_q' = [acquire_q EXCEPT ![d] = Append(@, r)]
    /\ blocked_nodes' = [blocked_nodes EXCEPT ![d] = <<>>]
    /\ outbox' = [outbox EXCEPT ![th] = @ \o Woken(d)]

\* vxGraphParameterEnqueueReadyRef for graph parameter 0, with the next frame.
FeedBegin(a) ==
    /\ VxEnqueueReadyRef(a) /\ Cardinality(held[Param0]) >= app'[a].left
    /\ UNCHANGED pipe_vars

Feed(a) ==
    /\ outbox[a] = <<>> /\ EnqueueRef(a)
    /\ \E r \in held[Param0] :
         /\ EnqueueReady(Param0, r, a)
         /\ frame' = [frame EXCEPT ![Param0][r] = num_fed + 1]
    /\ num_fed' = num_fed + 1
    /\ UNCHANGED <<done_q, data_ref, node_state, next_blocked, job_q, task, done_event,
                   dequeuer, num_delivered>>

FeedSchedule(a) ==
    /\ outbox[a] = <<>> /\ AppSchedule(a)
    /\ HeadNodesSent(app[a].n)
    /\ UNCHANGED <<acquire_q, done_q, blocked_nodes, data_ref, node_state, next_blocked,
                   task, outbox, done_event, dequeuer, held, frame, num_fed, num_delivered>>

\* vxGraphParameterEnqueueReadyRef for an output parameter: its references start
\* no execution.
Replenish(d) ==
    /\ d \in Outputs /\ outbox[d] = <<>>
    /\ \E r \in held[d] : EnqueueReady(d, r, d)
    /\ UNCHANGED <<vars, done_q, data_ref, node_state, next_blocked, job_q, task,
                   done_event, dequeuer, frame, num_fed, num_delivered>>

\* vxGraphParameterDequeueDoneRef takes a reference that is done, or waits for
\* the event that there is one ...
DequeueDoneRef(d) ==
    /\ dequeuer[d] # "wait"
    /\ IF done_q[d] # <<>>
       THEN /\ done_q' = [done_q EXCEPT ![d] = Tail(@)]
            /\ held' = [held EXCEPT ![d] = @ \cup {Head(done_q[d])}]
            /\ num_delivered' = [num_delivered EXCEPT ![d] = @ + 1]
            /\ dequeuer' = [dequeuer EXCEPT ![d] = "idle"]
       ELSE /\ dequeuer' = [dequeuer EXCEPT ![d] = "wait"]
            /\ UNCHANGED <<done_q, held, num_delivered>>
    /\ UNCHANGED <<vars, acquire_q, blocked_nodes, data_ref, node_state, next_blocked,
                   job_q, task, outbox, done_event, frame, num_fed>>

\* ... which resets itself, and looks again.
DequeuerWoken(d) ==
    /\ dequeuer[d] = "wait" /\ done_event[d]
    /\ done_event' = [done_event EXCEPT ![d] = FALSE]
    /\ dequeuer' = [dequeuer EXCEPT ![d] = "poll"]
    /\ UNCHANGED <<vars, acquire_q, done_q, blocked_nodes, data_ref, node_state,
                   next_blocked, job_q, task, outbox, held, frame, num_fed, num_delivered>>

-----------------------------------------------------------------------------
\* The target tasks: ownTargetTaskMain, ownTargetNodeDescNodeExecute.

CurrentData(t) == Params[task[t].node][task[t].prm]
LastParam(t) == task[t].prm = Len(Params[task[t].node])

\* Mutant: an instance does not wait for the one before it.
PrevPipeBlocked_Never(n, p) == FALSE

\* ownTargetNodeDescIsPrevPipeNodeBlocked.
PrevPipeBlocked(n, p) ==
    node_state[n][p] = "IDLE" /\ node_state[n][PrevPipe(p)] # "IDLE"

\* The task takes a node from its job queue.  A node that has been executed
\* already is ignored; one whose previous instance is parked is parked too.  A
\* parked node that is sent again goes on.
FetchNode(t) ==
    /\ task[t].pc = "idle" /\ outbox[t] = <<>> /\ job_q[t] # <<>>
    /\ job_q' = [job_q EXCEPT ![t] = Tail(@)]
    /\ LET n == Head(job_q[t])[1]
           p == Head(job_q[t])[2]
       IN  IF n \in executed[p]
           THEN UNCHANGED <<node_state, next_blocked, task>>
           ELSE IF PrevPipeBlocked(n, p)
           THEN /\ node_state' = [node_state EXCEPT ![n][p] = "BLOCKED"]
                /\ next_blocked' = next_blocked \cup {<<n, PrevPipe(p)>>}
                /\ UNCHANGED task
           ELSE /\ node_state' = [node_state EXCEPT ![n][p] = "IDLE"]
                /\ task' = [task EXCEPT ![t] = [IdleTask EXCEPT
                              !.pc = "acquire", !.node = n, !.pipe = p]]
                /\ UNCHANGED next_blocked
    /\ UNCHANGED <<vars, acquire_q, done_q, blocked_nodes, data_ref, outbox, done_event,
                   dequeuer, held, frame, num_fed, num_delivered>>

\* Mutant: the instance forgets that it has the reference.
Acquired_NotMarked(r) == [acquired |-> FALSE, ref |-> r, in_node_done_cnt |-> 0]

\* The data_ref_q descriptor of an instance that has dequeued reference r.
Acquired(r) == [acquired |-> TRUE, ref |-> r, in_node_done_cnt |-> 0]

\* The reference r (or Invalid) becomes the task's next parameter.
ParamAcquired(t, r) ==
    task' = [task EXCEPT ![t] = [task[t] EXCEPT
               !.refs = Append(task[t].refs, r),
               !.pc = IF LastParam(t) THEN "execute" ELSE "acquire",
               !.prm = IF LastParam(t) THEN 1 ELSE task[t].prm + 1]]

\* ownTargetNodeDescAcquireParameter: the node that first gets to a parameter of
\* an instance dequeues a reference for all of them.  On an empty queue the
\* node is parked and keeps what it has acquired; only a node that does not
\* fit on the list of parked nodes goes on with an invalid reference.
AcquireParameter(t) ==
    LET n == task[t].node
        p == task[t].pipe
        d == CurrentData(t)
    IN
    /\ task[t].pc = "acquire"
    /\ IF data_ref[d][p].acquired
       THEN /\ ParamAcquired(t, data_ref[d][p].ref)
            /\ UNCHANGED <<acquire_q, blocked_nodes, data_ref, node_state, ready>>
       ELSE IF acquire_q[d] # <<>>
       THEN /\ acquire_q' = [acquire_q EXCEPT ![d] = Tail(@)]
            /\ data_ref' = [data_ref EXCEPT ![d][p] = Acquired(Head(acquire_q[d]))]
            /\ ready' = IF d = Param0 THEN ready - 1 ELSE ready
            /\ ParamAcquired(t, Head(acquire_q[d]))
            /\ UNCHANGED <<blocked_nodes, node_state>>
       ELSE /\ IF Len(blocked_nodes[d]) < MaxBlocked
               THEN /\ blocked_nodes' = [blocked_nodes EXCEPT ![d] = Append(@, <<n, p>>)]
                    /\ node_state' = [node_state EXCEPT ![n][p] = "BLOCKED"]
                    /\ task' = [task EXCEPT ![t] = IdleTask]
               ELSE /\ ParamAcquired(t, Invalid)
                    /\ UNCHANGED <<blocked_nodes, node_state>>
            /\ UNCHANGED <<acquire_q, data_ref, ready>>
    /\ UNCHANGED <<sched_vars, complete_leaf_nodes, host_q, host, app, requested, done,
                   last_abandoned, done_q, next_blocked, job_q, outbox, done_event,
                   dequeuer, held, frame, num_fed, num_delivered>>

\* The kernel runs: the outputs carry the frame that the inputs agree on (0 when
\* they do not).  Then ownTargetNodeDescNodeMarkComplete.
ExecuteNode(t) ==
    LET n == task[t].node
        p == task[t].pipe
        refs == task[t].refs
        inputs == {i \in DOMAIN refs : Writer[Params[n][i]] # n}
        frames_in == {IF refs[i] = Invalid THEN 0 ELSE frame[Params[n][i]][refs[i]] :
                        i \in inputs}
        result == IF Cardinality(frames_in) = 1 THEN CHOOSE f \in frames_in : TRUE ELSE 0
        written(d, r) == \E i \in DOMAIN refs \ inputs : Params[n][i] = d /\ refs[i] = r
    IN
    /\ task[t].pc = "execute"
    /\ frame' = [d \in Data |-> [r \in Bufs(d) |->
                   IF written(d, r) THEN result ELSE frame[d][r]]]
    /\ executed' = [executed EXCEPT ![p] = @ \cup {n}]
    /\ node_state' = [node_state EXCEPT ![n][p] = "IDLE"]
    /\ next_blocked' = next_blocked \ {<<n, p>>}
    /\ task' = [task EXCEPT ![t].pc = "release",
                            ![t].retrigger = <<n, p>> \in next_blocked]
    /\ UNCHANGED <<free_q, desc_state, completing, graph_state, submitted_count,
                   schedule_pending_count, completed_event, abandon_seen,
                   complete_leaf_nodes, ready, host_q, host, app, requested, done,
                   last_abandoned, acquire_q, done_q, blocked_nodes, data_ref, job_q,
                   outbox, done_event, dequeuer, held, num_fed, num_delivered>>

\* Mutant: a leaf node without a callback reports nothing.
HasCompletion_CallbackOnly(n) == n \in Callbacks

\* A node with a user callback, and a leaf node, sends a completion command.
HasCompletion(n) == n \in Callbacks \/ OutNodes[n] = <<>>

\* A task record tk, idle when all its sending is done.
Finished(tk) ==
    IF tk.pc = "trigger" /\ tk.prm > Len(OutNodes[tk.node]) /\ ~tk.retrigger
    THEN IdleTask ELSE tk

\* num_in_nodes of the data_ref_q descriptor.
NumInNodes(d) == Cardinality(Readers(d))

\* Mutant: a reference that its writer releases is not announced.
Consumed_ReadersOnly(d) == IF Readers(d) = {} THEN <<>> ELSE <<ToHost(<<"ref_consumed", d>>)>>

\* ownTargetObjDescSendRefConsumed.
Consumed(d) == <<ToHost(<<"ref_consumed", d>>)>>

\* ownTargetNodeDescReleaseParameter: the last reader of a reference, or its
\* writer when no node reads it, puts it back: a graph parameter's into the done
\* queue (and tells the host), another into the queue it came from, waking the
\* nodes parked there.
ReleaseParameter(t) ==
    LET n == task[t].node
        p == task[t].pipe
        d == CurrentData(t)
        r == task[t].refs[task[t].prm]
        is_input == Writer[d] # n
        count == data_ref[d][p].in_node_done_cnt + IF is_input THEN 1 ELSE 0
        do_release == count = NumInNodes(d) /\ (is_input \/ NumInNodes(d) = 0)
        to_queue == do_release /\ r # Invalid
    IN
    /\ task[t].pc = "release" /\ outbox[t] = <<>>
    /\ data_ref' = [data_ref EXCEPT ![d][p] =
          [acquired |-> @.acquired /\ ~do_release,
           ref |-> IF is_input \/ do_release THEN @.ref ELSE r,
           in_node_done_cnt |-> count]]
    /\ IF to_queue /\ d \in UserData
       THEN /\ done_q' = [done_q EXCEPT ![d] = Append(@, r)]
            /\ outbox' = [outbox EXCEPT ![t] = Consumed(d)]
            /\ UNCHANGED <<acquire_q, blocked_nodes>>
       ELSE IF to_queue
       THEN /\ acquire_q' = [acquire_q EXCEPT ![d] = Append(@, r)]
            /\ blocked_nodes' = [blocked_nodes EXCEPT ![d] = <<>>]
            /\ outbox' = [outbox EXCEPT ![t] = Woken(d)]
            /\ UNCHANGED done_q
       ELSE UNCHANGED <<acquire_q, done_q, blocked_nodes, outbox>>
    /\ task' = [task EXCEPT ![t] =
                  IF ~LastParam(t) THEN [@ EXCEPT !.prm = task[t].prm + 1]
                  ELSE [@ EXCEPT !.prm = 1, !.refs = <<>>,
                          !.pc = IF HasCompletion(n) THEN "complete" ELSE "trigger"]]
    /\ UNCHANGED <<vars, node_state, next_blocked, job_q, done_event, dequeuer, held,
                   frame, num_fed, num_delivered>>

\* ownTargetNodeDescSendComplete, for a node that has a completion command.
SendComplete(t) ==
    LET n == task[t].node
        p == task[t].pipe
    IN
    /\ task[t].pc = "complete" /\ outbox[t] = <<>>
    /\ host_q' = Put(host_q, <<<<n, p>>>>)
    /\ task' = [task EXCEPT ![t] = Finished([@ EXCEPT !.pc = "trigger"])]
    /\ UNCHANGED <<sched_vars, complete_leaf_nodes, ready, host, app, requested, done,
                   last_abandoned, acquire_q, done_q, blocked_nodes, data_ref,
                   node_state, next_blocked, job_q, outbox, done_event, dequeuer, held,
                   frame, num_fed, num_delivered>>

\* Mutant: one executed input node is enough.
CanNodeExecute_Any(n, p) == InNodes[n] \cap executed[p] # {}

\* ownTargetNodeDescCanNodeExecute.
CanNodeExecute(n, p) == InNodes[n] \subseteq executed[p]

\* ownTargetNodeDescTriggerNextNodes: an output node all of whose input nodes are
\* marked executed is sent to its target.
TriggerNextNode(t) ==
    LET n == task[t].node
        p == task[t].pipe
        next == OutNodes[n][task[t].prm]
    IN
    /\ task[t].pc = "trigger" /\ outbox[t] = <<>> /\ task[t].prm <= Len(OutNodes[n])
    /\ outbox' = IF CanNodeExecute(next, p)
                 THEN [outbox EXCEPT ![t] = <<ToNode(next, p)>>] ELSE outbox
    /\ task' = [task EXCEPT ![t] = Finished([@ EXCEPT !.prm = task[t].prm + 1])]
    /\ UNCHANGED <<vars, acquire_q, done_q, blocked_nodes, data_ref, node_state,
                   next_blocked, job_q, done_event, dequeuer, held, frame, num_fed,
                   num_delivered>>

\* Last of all the same node of the next instance, if it is parked behind this one.
TriggerNextPipe(t) ==
    /\ task[t].pc = "trigger" /\ outbox[t] = <<>>
    /\ task[t].prm > Len(OutNodes[task[t].node])
    /\ outbox' = [outbox EXCEPT ![t] =
                    <<ToNode(task[t].node, NextPipe(task[t].pipe))>>]
    /\ task' = [task EXCEPT ![t] = IdleTask]
    /\ UNCHANGED <<vars, acquire_q, done_q, blocked_nodes, data_ref, node_state,
                   next_blocked, job_q, done_event, dequeuer, held, frame, num_fed,
                   num_delivered>>

-----------------------------------------------------------------------------
\* The host target task.

\* TIVX_CMD_DATA_REF_CONSUMED: the event of the parameter is posted.
RefConsumed ==
    /\ host.pc = "idle" /\ host_q # <<>> /\ Head(host_q)[1] = "ref_consumed"
    /\ done_event' = [done_event EXCEPT ![Head(host_q)[2]] = TRUE]
    /\ host_q' = Tail(host_q)
    /\ UNCHANGED <<sched_vars, complete_leaf_nodes, ready, host, app, requested, done,
                   last_abandoned, acquire_q, done_q, blocked_nodes, data_ref,
                   node_state, next_blocked, job_q, task, outbox, dequeuer, held, frame,
                   num_fed, num_delivered>>

\* The completion commands, as in GraphSchedule; executions that were pending send
\* their head nodes.
HostCompletion ==
    /\ \/ host_q # <<>> /\ Head(host_q)[1] # "ref_consumed" /\ HostTake
       \/ LeafCompleted \/ GraphCompleted \/ HostAction
    /\ UNCHANGED pipe_vars

HostRestart ==
    /\ HostReschedule
    /\ HeadNodesSent(host.schedule_count)
    /\ UNCHANGED <<acquire_q, done_q, blocked_nodes, data_ref, node_state, next_blocked,
                   task, outbox, done_event, dequeuer, held, frame, num_fed, num_delivered>>

-----------------------------------------------------------------------------
FeederNext(a) == FeedBegin(a) \/ Feed(a) \/ FeedSchedule(a)
UserNext(d) == Replenish(d) \/ DequeueDoneRef(d) \/ DequeuerWoken(d)
TargetNext(t) ==
    \/ FetchNode(t) \/ AcquireParameter(t) \/ ExecuteNode(t) \/ ReleaseParameter(t)
    \/ SendComplete(t) \/ TriggerNextNode(t) \/ TriggerNextPipe(t)
HostTaskNext == RefConsumed \/ HostCompletion \/ HostRestart

PipeNext ==
    \/ \E a \in Apps : FeederNext(a)
    \/ \E d \in UserData : UserNext(d)
    \/ \E t \in Targets : TargetNext(t)
    \/ \E th \in Threads : SendNext(th)
    \/ HostTaskNext

PipeSpec == PipeInit /\ [][PipeNext]_all_vars

\* Every thread goes on with what it has begun; the application dequeues what is
\* done and puts output references back, and nothing makes it feed.
PipeFairness ==
    /\ \A t \in Targets : WF_all_vars(TargetNext(t))
    /\ \A th \in Threads : WF_all_vars(SendNext(th))
    /\ \A a \in Apps : WF_all_vars(Feed(a)) /\ WF_all_vars(FeedSchedule(a))
    /\ \A d \in UserData : /\ WF_all_vars(DequeueDoneRef(d)) /\ WF_all_vars(DequeuerWoken(d))
                           /\ WF_all_vars(Replenish(d))
    /\ WF_all_vars(HostTaskNext)

FairPipeSpec == PipeSpec /\ PipeFairness

-----------------------------------------------------------------------------
\* Properties.

PipeTypeOK ==
    /\ \A d \in Data : /\ acquire_q[d] \in Seq(Bufs(d))
                       /\ blocked_nodes[d] \in Seq(Nodes \X Pipes)
                       /\ Len(blocked_nodes[d]) <= MaxBlocked
    /\ \A d \in UserData : done_q[d] \in Seq(Bufs(d)) /\ held[d] \subseteq Bufs(d)
    /\ data_ref \in [Data -> [Pipes -> [acquired : BOOLEAN, ref : Nat,
                                         in_node_done_cnt : Nat]]]
    /\ node_state \in [Nodes -> [Pipes -> {"IDLE", "BLOCKED"}]]
    /\ next_blocked \subseteq Nodes \X Pipes
    /\ \A t \in Targets : /\ job_q[t] \in Seq(Nodes \X Pipes)
                          /\ Len(job_q[t]) <= MaxJobs
    /\ \A t \in Targets :
         task[t] \in [pc : {"idle", "acquire", "execute", "release", "complete", "trigger"},
                      node : Nodes, pipe : Pipes, prm : Nat \ {0}, refs : Seq(Nat),
                      retrigger : BOOLEAN]
    /\ done_event \in [UserData -> BOOLEAN]
    /\ dequeuer \in [UserData -> {"idle", "wait", "poll"}]
    /\ num_fed \in Nat /\ num_delivered \in [UserData -> Nat]

\* Every reference is in exactly one place: held by the application, in the ready
\* queue, acquired by one instance, or in the done queue; and what a node uses
\* when it runs is still acquired by its instance.
BuffersConserved ==
    /\ \A d \in Data : \A r \in Bufs(d) :
         LET count(q) == Cardinality({i \in DOMAIN q : q[i] = r})
             holders == {p \in Pipes : data_ref[d][p].acquired /\ data_ref[d][p].ref = r}
         IN  count(acquire_q[d]) + Cardinality(holders)
               + (IF d \in UserData
                  THEN count(done_q[d]) + Cardinality(held[d] \cap {r}) ELSE 0) = 1
    /\ \A t \in Targets : task[t].pc = "execute" =>
         \A i \in DOMAIN task[t].refs :
           LET in_use == data_ref[Params[task[t].node][i]][task[t].pipe]
           IN  in_use.acquired /\ in_use.ref = task[t].refs[i]

\* A kernel runs only after all the input nodes of its node have run in the same
\* execution of the graph.
RunsAfterInputs ==
    \A t \in Targets : task[t].pc = "execute"
                       => InNodes[task[t].node] \subseteq executed[task[t].pipe]

\* The places where node n of instance p is queued, parked, about to be sent, waiting
\* behind the previous instance, being run, or to be sent again after that instance.
Indices(q, x) == {i \in DOMAIN q : q[i] = x}
QueuedAt(n, p) ==
    {<<"queued", TargetOf[n], i>> : i \in Indices(job_q[TargetOf[n]], <<n, p>>)}
ParkedAt(n, p) ==
    UNION {{<<"parked", d, i>> : i \in Indices(blocked_nodes[d], <<n, p>>)} : d \in Data}
SentAt(n, p) ==
    UNION {{<<"sent", th, i>> : i \in Indices(outbox[th], ToNode(n, p))} : th \in Threads}
BehindAt(n, p) ==
    {<<"behind", n, q>> : q \in {q \in {PrevPipe(p)} : <<n, q>> \in next_blocked}}
RunAt(n, p) ==
    {<<"run", t, 0>> : t \in {t \in Targets : /\ task[t].pc \in {"acquire", "execute"}
                                              /\ task[t].node = n /\ task[t].pipe = p}}
RetriggeredAt(n, p) ==
    {<<"retriggered", t, 0>> : t \in {t \in Targets : /\ task[t].retrigger
                                                      /\ task[t].node = n
                                                      /\ task[t].pipe = PrevPipe(p)}}
Triggers(n, p) ==
    QueuedAt(n, p) \cup ParkedAt(n, p) \cup SentAt(n, p) \cup BehindAt(n, p)
      \cup RunAt(n, p) \cup RetriggeredAt(n, p)

\* A node is sent, or parked, at most once at a time: neither the lists of parked
\* nodes nor the job queues hold it twice, which is what their limits rely on.
TriggeredOnce == \A n \in Nodes, p \in Pipes : Cardinality(Triggers(n, p)) <= 1

\* A parked node is never forgotten: it is on the list of an empty queue, behind
\* the previous instance, or on its way to its target.
ParkedIsWoken ==
    /\ \A n \in Nodes, p \in Pipes : node_state[n][p] = "BLOCKED" => Triggers(n, p) # {}
    /\ \A d \in Data : acquire_q[d] # <<>> => blocked_nodes[d] = <<>>

\* A thread that waits for a done reference is not stranded: when there is one,
\* the event is set or about to be.
DequeuerIsWoken ==
    \A d \in UserData : dequeuer[d] = "wait" /\ done_q[d] # <<>> =>
      \/ done_event[d]
      \/ \E i \in DOMAIN host_q : host_q[i] = <<"ref_consumed", d>>
      \/ \E th \in Threads : \E i \in DOMAIN outbox[th] :
            outbox[th][i] = ToHost(<<"ref_consumed", d>>)

\* Outputs reach the application in the order in which the inputs were fed, each
\* with the data of its own frame.
FramesInOrder ==
    \A d \in Outputs : \A i \in DOMAIN done_q[d] :
      frame[d][done_q[d][i]] = num_delivered[d] + i

\* The detailed steps implement NodeExecute and NodeComplete of GraphSchedule, where
\* `completing' stands for the tasks that have a completion command to send.
Completing == {<<task[t].node, task[t].pipe>> : t \in {u \in Targets :
                 task[u].pc \in {"release", "complete"} /\ HasCompletion(task[u].node)}}

\* The instances that have taken a reference of graph parameter 0 for a node that has
\* not been executed yet.
ParamHeld ==
    {p \in Pipes : data_ref[Param0][p].acquired /\ ParamNode \notin executed[p]}

\* The completion commands of the host's queue, in their order.
CompletionsAt == {i \in DOMAIN host_q : host_q[i][1] # "ref_consumed"}
Nth(S, n) == CHOOSE i \in S : Cardinality({j \in S : j <= i}) = n
Completions == [n \in 1 .. Cardinality(CompletionsAt) |-> host_q[Nth(CompletionsAt, n)]]

\* The bound on requests counts the references that were taken as well.
Schedule == INSTANCE GraphSchedule WITH
    completing <- Completing,
    ready <- Len(acquire_q[Param0]) + Cardinality(ParamHeld),
    host_q <- Completions,
    MaxRequests <- MaxRequests + Depth

ImplementsSchedule == Schedule!Spec

\* Every frame that is fed reaches the application at every graph parameter: as the
\* application stops feeding after MaxRequests frames, all of them are delivered in
\* the end.
FramesDelivered == []<>(\A d \in UserData : num_delivered[d] = num_fed)
=============================================================================
