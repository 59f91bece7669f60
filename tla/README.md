# A TLA+ model of graph execution in TIOVX

This directory is the verification development for the part of the PSDK
repository that has a concurrent protocol of its own: the framework of TIOVX
(`src/tiovx/source/framework`), TI's implementation of OpenVX. It models how the
executions of a verified graph are scheduled, pipelined, run by the target tasks
and completed, how a graph streams, and how the kernels of its nodes are created and
deleted by commands, checks the model with TLC, and proves the main properties of the
scheduler, of the pipeline, of streaming and of the commands with TLAPS.

1. [The system](#1-the-system)
2. [Plan](#2-plan)
3. [The modules and the code](#3-the-modules-and-the-code)
4. [Properties](#4-properties)
5. [Runs, bounds, fairness](#5-runs-bounds-fairness)
6. [Where the code and its documentation disagree](#6-where-the-code-and-its-documentation-disagree)
7. [Proofs](#7-proofs)
8. [What is not modelled](#8-what-is-not-modelled)

## 1. The system

The repository is an SDK of about 13 500 files. Most of it is drivers, vendor
libraries, signal-processing kernels, applications and build files. TIOVX is the
framework they share. An application builds a *graph* of *nodes* connected by data
objects, verifies it, and executes it many times. Each node runs on a *target*, a
task on some CPU. With pipelining, several executions of one graph are in flight,
each in a *pipeline instance* of its own, numbered from 0 to `pipeline_depth - 1`.

| Component | State | Operations | Talks to |
|---|---|---|---|
| Graph scheduler (`vx_graph.c`, `vx_graph_pipeline.c`) | `graph->state`, free queue of graph descriptors, `submitted_count`, `schedule_pending_count`, completion event, per descriptor `state` and `complete_leaf_nodes` | `vxScheduleGraph`, `vxWaitGraph`, `vxGraphParameterEnqueueReadyRef`, `vxGraphParameterDequeueDoneRef`, `ownGraphScheduleGraph`, `ownCheckGraphCompleted` | sends head nodes to the targets; called by application threads and by the host task |
| Host target handler (`vx_target_on_host_cpu.c`) | its job queue | user callback, completion, reference consumed, abandon | targets (commands), scheduler (`ownCheckGraphCompleted`), events of graph parameters |
| Target tasks (`vx_target.c`) | job queue, per node and instance: state IDLE/BLOCKED, the EXECUTED flag, `blocked_node_id` | take a node, order it after the previous instance, acquire, execute, release, complete, trigger the next nodes and the next instance | reference queues, other targets, host |
| Parameter acquisition (`vx_target_acquire_parameters.c`) | data reference descriptors: ACQUIRED flag, `ref_obj_desc_id`, `in_node_done_cnt` | acquire or park; release and wake | reference queues |
| Reference queues (`vx_obj_desc_queue.c`, `vx_data_ref_queue.c`) | ring of references, list of at most eight parked nodes, done event | enqueue, dequeue, park, extract parked nodes | shared by targets and application under one lock |
| OS queues and events (`platform/common/os`) | ring buffer; an event that resets itself when taken | put, get, wait, post, clear | everything |
| Object descriptor table (`vx_obj_desc.c`) | table of descriptors in shared memory | allocate, free, send to a target | everything |
| Control commands (`vx_context.c`) | command descriptors, ack events | send a command and wait for its acknowledgement, with a timeout | targets |
| Event queues (`vx_event_queue.c`) | free and ready queue of event indices | register, add, wait | host task, application |
| Streaming (`vx_graph_stream.c`) | a task with an IDLE/RUNNING state | start, stop, trigger | graph event queue, scheduler |
| Nodes (`vx_node.c`, `vx_target_kernel_instance.c`) | per node `is_kernel_created`, `is_timed_out`, `target_kernel_index`; per CPU a table of kernel instances | kernel creation, control and deletion, when a graph is verified, used, released | control commands, targets |
| Verification, sorting, delays, references, kernels, data objects, logging | structures built or read under one lock | construction, attributes | – |

How one execution runs. An application thread calls `vxScheduleGraph` or, in the
AUTO mode, `vxGraphParameterEnqueueReadyRef`. `ownGraphScheduleGraph` takes a free
descriptor and sends the head nodes of that pipeline instance to their targets. A
target acquires a reference for each parameter of the node. If a queue is empty it
parks the node there. If the same node of the previous instance is parked it parks
the node behind it. Then it runs the kernel, puts references back (waking parked
nodes), sends completion to the host when the node is a leaf or has a callback, and
sends the successors all of whose predecessors have run. The host task counts leaf
nodes. With the last one it frees the descriptor and either restarts pending
executions or posts the completion event.

What is hard here:

* **State read without the lock.** `vxScheduleGraph` and `vxWaitGraph` look at
  `graph->state` outside the lock that protects it, and the number of executions of
  a MANUAL graph is counted from queues outside it.
* **Two locked sections in one operation.** `ownCheckGraphCompleted` empties
  `schedule_pending_count` into a local variable, drops the lock and calls
  `ownGraphScheduleGraph`, which takes it again. Any thread may run in between.
* **One event for all waiters and all executions.** It resets itself when taken, is
  cleared by the start of an execution and posted by the end of another.
* **Several targets, one graph.** Triggering a join, releasing a shared reference,
  and keeping frames in order are distributed over the tasks; the descriptor of a
  pipeline instance is used again by a later execution.
* **Giving up on a command.** The thread returns after a timeout while the target still
  has the descriptor, or has yet to create what the thread then deletes.
* **One event for two kinds of waiters.** A streaming graph is stopped by its task, which
  waits for the same completion event as `vxWaitGraph` of any other thread.
* **Parking and waking.** A node that is parked must be woken by somebody else, and
  nobody times out.
* **Sending after the lock.** Woken nodes are sent one by one after the
  data-reference-queue lock is dropped; a full job queue drops silently.

`PROJECT.json` lists every such place with its line under `hazards`. The properties
in section 4 are stated for them.

What makes each component correct:

* scheduler: descriptors are neither lost nor queued twice; an accepted execution runs
  once; the completion event means idle; a wait covers what was accepted before it;
  every accepted execution completes;
* host handler: leaf nodes are counted once per execution; an abandoned execution is
  reported, and only that one;
* targets: a node runs once per execution, after its inputs, and the frames leave
  the graph in the order in which they came;
* parameter acquisition and reference queues: a reference is in one place at a time; a
  parked node is always about to be woken; a thread that waits for a done reference is
  not stranded;
* control commands: an acknowledgement reaches the thread whose command it answers, also
  after a timeout; a command is executed once, and in the order of its thread;
* nodes: the instance of a released node does not stay on the target, and a DELETE frees
  no other node's;
* event queues: an index is in one queue at a time, and an event that was added is
  delivered once, unchanged;
* streaming: exactly one next execution is on its way while the graph streams; a stop
  returns, and nothing is executed after it.

## 2. Plan

In the order of importance to the system:

1. **`GraphSchedule`** – scheduler and host task, three modes, any graph. *Done;
   checked and proved.*
2. **`ScheduleService`** – what the scheduler promises, as counts; `GraphSchedule`
   implements it. *Done; checked and proved.*
3. **`GraphPipeline`** – targets, acquisition, reference queues and graph parameters,
   composed with the scheduler and host task of `GraphSchedule`, whose node step it
   implements. *Done for the AUTO mode; checked, and proved but for what section 7 names.*
4. **`CommandChannel`** and **`NodeKernels`** – control commands and acknowledgements, and
   the kernel instances that are created and deleted with them. *Done; checked and proved,
   but for what section 7 names.*
5. **`EventQueue`**, its specification **`EventChannel`**, and **`GraphStream`**, which
   composes the queue with the streaming task and with `GraphSchedule`. *Done; checked and
   proved, but for what section 7 names.*
6. **Delays**: ageing of slots as part of the release of a parameter.

The proof still worth doing is that of `FramesInOrder`, which needs the order in which the
instances go through every target.

## 3. The modules and the code

`PROJECT.json` maps every definition to its lines. The rule followed throughout: one
section of code under a lock is one action; what is read without a lock is an action
of its own; what a thread sends after it has dropped a lock waits in its *outbox* and
leaves it one descriptor at a time, while the others run.

**`GraphSchedule`.** `OwnGraphScheduleGraph` is the locked part of the function of that
name. It has two callers: `AppSchedule` (from an API function) and `HostReschedule` (from
the host task). `VxScheduleGraph` and `VxWaitGraph` are the unlocked reads that precede the
lock or the wait. `vxWaitGraph` is three steps (check the state, take the event, read the
state again for the result). Enqueuing a batch is one step per reference, each of which may
be refused; the call that fails half-way leaves what it has already enqueued in the queue.
The host task is `HostTake` (a command, the user callback), `LeafCompleted` or
`GraphCompleted` (the first locked section of `ownCheckGraphCompleted`), `HostReschedule`
(the second) and `HostAction` (the callback's return value, looked at last). Of a target's
work on a node the host sees two steps. With `NodeExecute` the node has run and is marked
executed (`vx_target.c:882`). With `NodeComplete` a leaf node, or one with a callback, has
its command queued to the host (884); in between the task releases the node's parameters
(883), and other tasks go on. `completing` are the nodes between the two. `Triggered` says
when a node may run: a head node at once, any other when the task of one of its input nodes
has found all of them marked. That task has then sent its own command, and those of the
nodes that it ran before; the other tasks may not have. So when the input nodes of a node
share a target (`InputsOnOneTarget`) their commands precede it, and when they do not one of
them may come after it, and even after the execution has ended. A target does one node at a
time. The bounds are `MaxBatch` (references per enqueue) and `MaxRequests` (executions
requested in a behaviour). Four variables are ghosts, never read by a guard other than the
bound: `requested`, `done`, `abandon_seen`, `last_abandoned`; the number a waiting thread
remembers in `app[a].n` is one, too.

**`ScheduleService`.** Three counts (queued, running, done) and what each waiting thread
waits for. An execution is accepted, starts when there is room, completes; a wait ends
when all that was accepted before it began has completed. `GraphSchedule` maps
`schedule_pending_count` plus the host's local variable to `queued` and
`submitted_count` to `running`.

**`GraphPipeline`.** Extends `GraphSchedule`, keeps its scheduler and host actions and
replaces `NodeExecute` and `NodeComplete` by the steps of `ownTargetNodeDescNodeExecute`:

| Action | Code |
|---|---|
| `FetchNode` | task loop; EXECUTED check; parking behind the previous instance |
| `AcquireParameter` | one locked section per parameter; parks on an empty queue |
| `ExecuteNode` | the kernel, and `ownTargetNodeDescNodeMarkComplete` |
| `ReleaseParameter` | one locked section per parameter; done queue or ready queue, and waking |
| `SendComplete` | completion command to the host |
| `TriggerNextNode`, `TriggerNextPipe` | successors; the same node of the next instance |
| `SendNext` | one descriptor out of an outbox into a job queue |
| `Feed`, `FeedSchedule`, `Replenish`, `DequeueDoneRef`, `DequeuerWoken` | graph parameters, seen from the application |
| `RefConsumed`, `HostCompletion`, `HostRestart` | host task |

References carry the number of the frame whose data they hold; a kernel's outputs
carry the frame its inputs agree on, or 0 when they disagree. That is all the data
the properties need. `MaxBlocked` and `MaxJobs` are the code's own limits (8 and 96,
not bounds of the model); each target is one task, as
`ownTargetTaskMain` is. Every intermediate data object has a reference queue with at
least one buffer (`vx_graph_verify.c:2157-2335`); the queues of graph parameters start
empty, and the application holds all their references.

**`CommandChannel`.** `ownContextSendCmd` and `ownContextSendControlCmd` with the target's
side of a command. A context has `NumObjects` pairs of a command descriptor and an
acknowledgement event. A thread in a call goes through `GetObject` (or `GetTimeout`),
`Send` (or `SendFailed`), `WaitAck` and `Finish`, or `WaitTimeout` and `Expire`: the
expiry of the wait and the move of the pair to `pend_queue` are two steps, as in the code,
and a late acknowledgement may come in between. A target's task is `TaskTake`,
`TaskDone` (result into the descriptor, acknowledgement to the host's queue) and
`HandleAck`, which posts the event. `calls` is a ghost, the history of all calls; the
bound `MaxSendErrors` is the number of sends that fail, in either direction. A failed send
leaves its pair in neither queue, and nothing takes a pair out of `pend_queue`, because
`ownContextFlushCmdPendQueue` has no caller.

**`NodeKernels`** extends `CommandChannel`. `VerifyNode`, `ControlNode`, `UndoVerify` and
`ReleaseNode` are what a thread does to its node; what follows a command
(`AfterCreate`, `AfterControl`, `AfterDelete`) is part of the step with which the command
returns. On the target, `ExecuteCreate`, `ExecuteDelete` and `ExecuteControl` look an
instance up by `target_kernel_index` and `kernel_id`, as `ownTargetKernelInstanceGet` does,
and write the index before the kernel's own callback has had its say. `ownDestructNode` frees the
node's descriptors only when the deletion of its kernel has succeeded (`vx_node.c:105`):
`Destructed` sends the node to the phase `freed` then, and to `released` otherwise. Of a node
that is `released` the commands that timed out are still executed, whenever the target comes to
them; of one that is `freed` there must be none left. `instance[s].node` is a
ghost: the code's table does not know for which node an entry was filled in. `NumSlots` is
`TIVX_TARGET_KERNEL_INSTANCE_MAX`; `MaxCalls` and `Unsound` are bounds.

**`EventQueue`.** An array of elements whose indices go round between a free and a ready
queue, each under a lock of its own, the elements under none. Adding is `GetIndex` and
`PutEvent`; reading is `TakeIndex` and `GiveIndexBack`. **`EventChannel`** is what it
promises: a bounded channel in which events arrive once, unchanged and in order.

**`GraphStream`** extends `GraphSchedule` and instantiates `EventQueue` for
the streaming event queue of a graph. The owner of the graph starts, stops and releases
(`VxStartGraphStreaming`, `VxStopGraphStreaming`, `StopSend`, `StopWait`, `VxReleaseGraph`,
`DeleteWait`); the streaming task takes events (`OnStart`, `OnStreamingEvent`, `OnStop`,
`OnDelete`) and calls the scheduler as one of its threads (`TaskCall`); the host task adds the
completion event of the trigger node (`HostGetIndex`, `HostPut`) after the completion has
been accounted for and before the callback's action is looked at. The streaming task is the
only thread that schedules; others may wait for the graph. When `MaxRequests` is reached the
task takes a completion event without scheduling, so a behaviour ends there.

**`MCGraphSchedule`, `MCGraphPipeline`, `MCNodeKernels`, `MCGraphStream`** hold the graphs and
nodes of the runs. **`GraphSchedule_proofs`, `GraphPipeline_proofs`,
`GraphReferences_proofs`, `EventQueue_proofs`, `GraphStream_proofs`, `CommandChannel_proofs`,
`NodeKernels_proofs`** hold the theorems;
**`QueueLemmas`** what they share about queues: those without duplicates, and counting in them.

Definitions marked "Mutant" are plausible slips in a definition of the model that
stands next to them. No specification uses them. Substituted for that definition they
make a named property fail, which shows that the property depends on that code.

## 4. Properties

In `GraphSchedule`:

* `TypeOK` – also says that the unsigned counters never go below zero.
* `DescriptorsConserved` – a free descriptor is queued once; `submitted_count` is the
  number of the others.
* `LeafCounts` – `complete_leaf_nodes` is the number of leaf nodes of the execution in
  flight that have reported, and no command of an earlier use of the descriptor is left.
* `NoLostSchedule` – accepted = done + in flight + pending + in the host's local variable.
* `CompletedEventMeansIdle`, `PendingMeansFull`, `RunningIffSubmitted` – the event, the
  pending count and `graph->state` agree with the free queue.
* `AbandonIsOwn`, `AbandonReported` – an execution in flight is marked only by a callback
  of its own; the result of the last execution tells whether it was abandoned. A callback's
  command must reach the host before the execution ends and its descriptor starts another.
* `InputRefsBacked` – every accepted execution that has not taken its input has one in
  the ready queue.
* `WaitCoversEarlierCalls` (a step property), `AcceptedCompletes`, `WaitReleased`
  (liveness), `ImplementsService` (refinement).

In `GraphPipeline`:

* `PipeTypeOK`, and `BuffersConserved` – every reference is in exactly one place, and what a
  running node uses is still acquired by its instance.
* `RunsAfterInputs`, `TriggeredOnce` – a kernel runs after its predecessors of the same
  execution; a node is sent, parked or running at most once at a time.
* `ParkedIsWoken`, `DequeuerIsWoken` – no lost wake-ups of nodes or of the application.
* `FramesInOrder`, `FramesDelivered` – output `i` carries frame `i`; every frame fed
  reaches the application.
* `ImplementsSchedule` (refinement) – the steps implement `GraphSchedule`. `ExecuteNode` is its
  `NodeExecute` and `SendComplete` of a node with a command its `NodeComplete`; its `completing`
  are the tasks in between (`Completing`). The references of graph parameter 0 that the scheduler
  still sees as ready are those of the queue and those that an instance has taken for a node that
  has not run (`ParamHeld`), and its queue of commands is the host's without the
  announcements of consumed references (`Completions`). As it counts a reference as ready for
  longer than the pipeline does, its bound on requests is larger by the depth.

In `CommandChannel` and `NodeKernels`:

* `FreeIsQuiet` – a free pair is in the queue once, its descriptor is in no target's hands
  and its event is clear: nothing of an earlier command can meet the next one.
* `AnswerIsOwn`, `ExecutedAtMostOnce`, `ExecutedInOrder` – a caller is told the result of its own
  command; no command runs twice; a DELETE does not overtake the CREATE that timed out.
* `CallReturns` (liveness) – a call returns, except in the two situations that `Stuck`
  describes: the timeout is infinite, and either all pairs are used up by timeouts and
  failed sends, or the acknowledgement itself was lost.
* `FreedIsUnused` – when a node's descriptors are freed no target has a command of the node still
  to execute, whichever of its commands had timed out: it would work on whatever the table
  entries are allocated for next.
* `KernelsTypeOK`; `DeleteIsOwn` – an instance is freed only by a command of the node it was
  created for.
* `InstancesReleased` – a released node whose DELETEs were answered has left no
  instance, also when its CREATE timed out and was executed later.
* `VerifiedIsBacked` – the lookup of a verified node finds its own instance.

In `EventQueue` and `GraphStream`:

* `ImplementsChannel` (refinement) – the event queue is a bounded channel.
* `StreamTypeOK` (proved, in no run); `OneNextExecution` – while a graph streams exactly one
  next execution is on its way, as an execution, a completion, an event or a call: the
  stream neither dies nor doubles.
* `StoppedMeansIdle` – once `vxStopGraphStreaming` has returned nothing is in flight,
  pending or about to be scheduled.
* `StopReturns` (liveness) – every stop returns, unless the task had already left after an error.

## 5. Runs, bounds, fairness

| Run | Instance | Shows | Distinct states |
|---|---|---|---|
| `sched_auto` | 2 threads, AUTO, chain of two nodes, depth 2, batches of up to 2, 3 requests, fairness | all the scheduler's properties and the refinement | 93 698 |
| `sched_normal` | 3 threads (symmetric), NORMAL, two source nodes on one target, a leaf that joins them and a second leaf on another, callback and abandon on the first source, depth 2, 3 requests | leaf counts, and abandon when a callback's command races the end of its execution, under racing `vxScheduleGraph` and `vxWaitGraph` | 5 925 368 |
| `pipe_chain` | 3 frames, chain on two targets, depth 2, one input, one output and two intermediate buffers, fairness | parking, waking, order, delivery of every frame, and `ImplementsSchedule` | 182 030 |
| `pipe_join` | 2 frames, fork and join, the two middle nodes share a target, depth 2 | the join runs once, after both inputs, on one frame | 481 542 |
| `commands` | 2 threads and nodes of two kernels on one target, two pairs, one table entry, one lost send, three commands, one thread with and one without a timeout, fairness | the channel's and the kernels' properties | 323 187 |
| `stream` | chain of two nodes, depth 2, the trigger node's callback may abandon, event queue of two elements, 5 executions, fairness | the streaming properties and `ImplementsChannel` | 219 906 |
| `manual_batch`, `abandon_leaf`, `join_race_inputs`, `join_race_buffer`, `delete_other`, `stream_wait` | see section 6 | a property that fails | – |

*Why these bounds are enough.* Depth 2 is the smallest with a free and a busy
descriptor, with two executions that overtake each other or not, and with a ring that
wraps. Three requests are one more than the depth: an execution becomes pending, is
carried over the two locked sections of `ownCheckGraphCompleted`, and reuses a
descriptor. Batches of two make a call start one execution and leave another
pending. One test, that of the pending count in `AllCompleted`, decides something
only at depth 1, where nothing else is submitted when an execution ends while another
is pending; the theorems cover every depth. In `pipe_chain` one input and one output
buffer for three frames force nodes to park on both ends, and the third frame uses the
first one's descriptor. Two middle nodes, two leaf nodes and two threads are the
smallest numbers with a race between equals; `sched_normal` has a third thread so that
more of them pass the unlocked test of the state than there are descriptors. Its graph is the
smallest with two leaf nodes in which the command of one node may be late for an execution that
another node has let go on, and three requests for two descriptors let a late
command find its descriptor in use again. In `commands` two pairs for two threads and one lost
send are what it takes for a pair to be missing while the other is busy, and a thread with two
commands is the smallest that can follow a CREATE that timed out with a DELETE; with one
table entry a CREATE can find the table full. The same instance with two entries (852 372
states) also satisfies everything. In `stream` two elements are enough for the queue to be
full when an event is to be added, and five executions for a stream to be stopped, started
again and to use each descriptor twice. Symmetry is used only in `sched_normal`, which has no liveness.

*Deadlock* is not checked: the application may stop calling, and a thread may then wait
for an event that nothing posts, which is how the program behaves. That something does
happen when it should is what `AcceptedCompletes`, `WaitReleased`, `FramesDelivered`,
`CallReturns` and `StopReturns` say.

*Fairness.* Weak fairness of the host task, of every target task and of every thread
inside an API call: they are OS threads that block only on their queue or event, and
`pthread` or RTOS scheduling runs a ready thread eventually. Nothing is assumed to make
the application begin a call. `pipe_chain` additionally assumes that the application
feeds its frames, dequeues done references and enqueues output references again, as every
pipelined application does; without it the graph rightly stops. In `commands` a timeout
expires and a kernel's callback comes back; the calls are bounded, so that weak fairness of
the thread is enough for its turn at the free queue. In `stream` the owner goes on with a
call that it has begun. `WaitReleased` promises only that *one* waiter is released, because
the event resets itself when taken. `FramesDelivered` says that again and again all frames
fed so far have been delivered, which is a promise because feeding ends at `MaxRequests`.

*NORMAL with depth 2* is reachable through `tivxSetGraphPipelineDepth`.

To run: `tlc -config sched_auto.cfg MCGraphSchedule.tla`, and likewise `MCGraphPipeline`
for the `pipe_` and `join_` runs, `MCNodeKernels` for `commands` and `delete_other`,
`MCGraphStream` for `stream` and `stream_wait`; `tlapm GraphSchedule_proofs.tla` and likewise
for the other proof modules.

## 6. Where the code and its documentation disagree

Six runs end in a counterexample to what a header, a comment or a test says. Each is
quoted with its line in `PROJECT.json`.

1. `manual_batch` / `InputRefsBacked`. In the MANUAL mode the number of executions is
   read from the ready queues without the lock and without subtracting what has been
   accepted. Between the two locked sections of `ownCheckGraphCompleted` the state is
   COMPLETED while executions wait in a local variable, so a second call accepts the same
   references again.
2. `abandon_leaf` / `AbandonReported`. For a leaf node the execution is completed before
   the callback's action is looked at, so `VX_ERROR_GRAPH_ABANDONED` is not reported.
   With the callback on another node (`sched_normal`) the property holds.
3. `join_race_inputs` / `RunsAfterInputs`. Two predecessors on different targets can
   both find the join ready and send it twice. The second sending is harmless only as
   long as the EXECUTED flag is not cleared; with depth 1 it can outlive the execution and
   run the join at the start of the next one.
4. `join_race_buffer` / `BuffersConserved`. A predecessor is marked executed before it
   releases its parameters; the other one may trigger the join, the execution may complete,
   and the late release then works on the next execution's queue descriptor.
5. `delete_other` / `DeleteIsOwn`. A node whose CREATE timed out is sent a DELETE whether or
   not the target has an instance for it. `target_kernel_index` is 0 from the start, and
   `kernel_id` tells kernels apart, not nodes: the DELETE can free the instance of another
   node of the same kernel. Two nodes of different kernels (`commands`) are safe, and
   `DeletesOwn` proves it.
6. `stream_wait` / `StopReturns`. The streaming task stops by calling `vxWaitGraph`. When
   another thread is in `vxWaitGraph`, which the header allows, and takes the completion
   event, the task waits for an execution that nobody schedules and the stop does not return.

3 and 4 need a fork and join whose middle nodes are on different targets; `pipe_join` has
them on one target, where both properties hold.

Seen while modelling, and part of the modules, but not claimed by a run:

* A node is marked executed (`vx_target.c:882`) before it sends the command for its callback (884).
  When the input nodes of a join are on different targets, the join may run and the host end the
  execution in between. The host then calls that callback for an execution that is over, and
  when it abandons, the descriptor that is marked may be the next execution's: with
  `TargetOf <- SplitTargetOf` in `sched_normal.cfg` TLC finds `AbandonIsOwn` violated. It
  is the third consequence of such joins, next to the runs 3 and 4; with the input nodes on one
  target, as in `sched_normal`, the property holds.
* `vxScheduleGraph` returns `VX_SUCCESS` without scheduling anything when there is no full set
  of references, and when the graph is in a state that cannot be scheduled
  (`vx_graph.c:1053-1060`, `1075-1078`; `vx_khr_pipelining.h:223-224` announces an error).
* With a pipeline depth of 1 the trigger node's event is not registered
  (`vx_graph_stream.c:426`) and a streaming graph executes once, whereas
  `vx_khr_pipelining.h:932` lets the implementation re-schedule itself. `Registered` models it.
* A trigger node that is a leaf lets the graph be stopped and started before its event is
  taken, and the stream is then triggered twice; `OneNextExecution` is checked for a trigger
  that is not a leaf, and `StreamingGoesOn` proves it for every such trigger when
  the input nodes of every node share a target.
* After an abandoned execution the task reports `VX_ERROR_TIMEOUT` although the timeout is
  infinite (`vx_graph_stream.c:280-282`), leaves, and sets a flag that is never cleared. A
  graph that is started again then has no task, and the next stop waits for an event that
  nobody posts (`vx_graph_stream.c:143-147`, `265-276`). This is `error_wait` in the model,
  and the exception in `StopReturns`.
* A DELETE is dropped when the event queue is full, and `vxReleaseGraph` waits for its answer
  all the same (`vx_graph_stream.c:577-589`). Nor does a release of a graph that streams
  wait for the executions in flight.
* Pairs in `pend_queue` never come back: after as many timeouts as there are pairs a context
  can send no command, and a thread with an infinite timeout waits forever.
* A DELETE that the kernel answers with a failure leaves `is_kernel_created` set although
  the target has freed the entry (`vx_node.c:952-956`); a later verification does not create
  the kernel again (`vx_node.c:661`). `VerifiedIsBacked` excepts it.
* A CREATE that finds the table full frees the entry found at the node's *old* index
  (`vx_target.c:1110-1131`).

## 7. Proofs

All theorems are about the specifications without fairness, for every value of the
constants that satisfies the modules' assumptions.

### The scheduler

`GraphSchedule_proofs` is about `Spec`, for every finite graph, every depth, every set of
threads, each mode and any bounds. It assumes only what `GraphSchedule` assumes of its
constants: `DepthAssumption` (the depth is positive), `ModeAssumption`, `BoundAssumption`
(the bounds are numbers) and `NodesAssumption` (finitely many nodes, each with input nodes
and a target; callbacks are on nodes; only nodes with a callback abandon),
`AcyclicAssumption` (a graph with a cycle does not pass `vxVerifyGraph`,
`vx_graph_verify.c:2558-2580`) and `StreamingAssumption` (streaming tasks are threads, and a
graph that streams is in the NORMAL mode).

| Theorem | States |
|---|---|
| `TypeCorrectness` | `Spec => []TypeOK` |
| `DescriptorConservation` | `Spec => []DescriptorsConserved` |
| `LeafAccounting` | `Spec => []LeafCounts` |
| `NoScheduleLost` | `Spec => []NoLostSchedule` |
| `EventMeansIdle` | `Spec => []CompletedEventMeansIdle` |
| `PendingMeansNoRoom` | `Spec => []PendingMeansFull` |
| `RunningMeansSubmitted` | `Spec => []RunningIffSubmitted` |
| `WaitCoverage` | `Spec => WaitCoversEarlierCalls` |
| `Refinement` | `Spec => ImplementsService` |
| `AbandonsOwn` | if `InputsOnOneTarget` and no leaf node's callback abandons, `Spec => []AbandonIsOwn` |
| `AbandonsReported` | if `InputsOnOneTarget` and no leaf node's callback abandons, `Spec => []AbandonReported` |
| `InputsBackedInAuto` | in the AUTO mode, `Spec => []InputRefsBacked` |

None of the invariants is inductive alone. The first seven are proved together, as
`SchedInv`: those listed, and three that tie them to the queues and program counters.

* `LeafCommands`: the completion command of a leaf node exists at most once and belongs to
  an execution in flight that has run the node. Without it a command left over from an
  earlier use of a descriptor could complete an execution that is not in flight, and
  `submitted_count`, an unsigned number the code decrements without a test, could wrap. With
  it, the leaf node the host accounts for is one of an execution in flight, and
  `DistinctCardinality` and `InFlightSubmitted` turn the free queue without duplicates
  into `submitted_count > 0`. `LastLeafReported` shows that when the last leaf has been
  counted no command is left, so the freed descriptor starts clean.
* `RestartWindow`: between the host's two locked sections at most the one descriptor that
  it has just freed is free (an application thread may have taken it). Hence the
  executions that the host then restarts find the free queue empty afterwards or nothing
  left pending, which is `PendingMeansFull`.
* `CallArguments`: a call carries a positive number of executions into its locked part,
  and a wait never remembers more than has been accepted.

`NextInv` has one lemma per action. The `OwnGraphScheduleGraph` lemmas (`ScheduleFreeQueue`,
`ScheduleTypes`, `ScheduleLeaves`, `ScheduleCounts`) are shared by its two callers.
`WaitCoverage` follows from three of the invariants: the event is set, so nothing is in
flight, pending or about to be restarted, so `done` equals `requested`, which is at least
what the thread remembered. `AbandonsOwn` and `AbandonsReported` rest on `AbandonInv`: an
execution in flight is marked once one of its own callbacks has abandoned and the host has
looked at the action (`AbandonMarks`); the command of a node that is not a leaf belongs to
an execution in flight, some leaf of which has not run, is yet to send its own command, or
has it behind the node's (`NodeCommands`). That there is such a leaf follows from the graph
having no cycles. It stays so because, until a node has sent its command, none of the nodes
that it feeds runs: the task that triggers one of them is that of its input nodes, which
share a target, and sends their commands first. This is where `InputsOnOneTarget` is needed;
section 6 describes the counterexample without it, and `abandon_leaf` is the one with a leaf
that abandons. The other theorems about the scheduler hold for every graph, join races
included: a leaf's command keeps its own execution in flight. `InputsBackedInAuto` rests on
`RefsInv`, which also counts the references that calls have enqueued and not yet scheduled
for; `manual_batch` shows that the mode matters. `Refinement` maps each step: accepting
calls and `HostReschedule` to `Start`, `GraphCompleted` to `Complete`, the waits to
`WaitBegin` and `WaitEnd`, everything else to a stutter.

### The pipeline

`GraphPipeline_proofs`, and `GraphReferences_proofs` which continues it, are about
`PipeSpec`, for every graph in the AUTO mode, every depth, every assignment of nodes to
targets, any number of references, and any limits on the lists of parked nodes and on the
job queues. Besides the assumptions of the scheduler they use `GraphAssumption` (graph
parameter 0 is written by the application and is a parameter of the node that consumes it),
`PipelineAssumption` (types of the constants; every node has a parameter) and
`LinksAssumption` (`vxVerifyGraph` links a node once to each node that takes data from it;
head nodes are those without inputs).

| Theorem | States |
|---|---|
| `PipeTypeCorrectness` | `PipeSpec => []PipeTypeOK` |
| `WaitersAreWoken` | `PipeSpec /\ []HostQueueHasRoom => []DequeuerIsWoken` |
| `ParkedAreWoken` | `PipeSpec /\ []JobQueuesHaveRoom => []ParkedIsWoken` |
| `InputsRunFirst` | if `InputsOnOneTarget`, `PipeSpec => []RunsAfterInputs` |
| `NodesTriggeredOnce` | if `InputsOnOneTarget`, `PipeSpec => []TriggeredOnce` |
| `ParkedAreWokenWithRoom` | if `InputsOnOneTarget` and `JobQueuesFit`, `PipeSpec => []ParkedIsWoken` |
| `ReferencesConserved` | if `InputsOnOneTarget`, `ParametersOnce` and `WritersFirst`, `PipeSpec /\ []ParkingRoom => []BuffersConserved` |
| `ReferencesConservedWithRoom` | if also `ParkedListsFit`, `PipeSpec => []BuffersConserved` |
| `PipelineImplementsSchedule` | under the same, `PipeSpec /\ []HostQueueHasRoom /\ []ParkingRoom => ImplementsSchedule` |
| `PipelineImplementsScheduleWithRoom` | if also `ParkedListsFit`, `PipeSpec /\ []HostQueueHasRoom => ImplementsSchedule` |

*Hypotheses.* A full job queue drops what is sent to it (`vx_target.c:1784`), so that what
relies on a descriptor being delivered can only be promised of behaviours in which the queue
has room: `HostQueueHasRoom` and `JobQueuesHaveRoom` say so. The room is not a matter of luck:
`JobQueuesFit` asks that the queue be longer than the number of nodes times the depth (96 in
the code), and `ParkedAreWokenWithRoom` shows that it then never fills. `InputsOnOneTarget`
excludes the join races: the input nodes of a node share a target. `join_race_inputs` and
`join_race_buffer` show what happens without it. `WritersFirst` is what `vxVerifyGraph` does: it
links the writer of a data object to each of its readers (`vx_graph_verify.c:1025`; parameters
that are both read and written by a node are not in the model). `ParametersOnce` says that no node
names a data object twice; the code counts the parameters that read it (`vx_graph_verify.c:215`)
and the model the nodes, which is only then the same. `ParkingRoom` says that no task comes to park
a node on a full list, where the code goes on with an invalid reference
(`vx_obj_desc_queue.c:248`). `ParkedListsFit` guarantees it: the number of nodes that may be the
first to acquire from a queue, times the depth, is at most the limit (8 in the code). That is
enough and not necessary, as the instances of one node usually wait behind each other and not on
the list. The constants of `pipe_chain` and `pipe_join` satisfy all the hypotheses that are
about constants. No hypothesis is needed for `PipeTypeCorrectness`, and
only the room for the two wake-ups, which hold in the races, too.

*Argument.* Type correctness is proved as `PipeTypes`, which adds that a task has a reference
for each of the parameters that it has been through, and that a reference in a queue of `d`
is one of `d`. `WaitersAnnounced` says that a waiting thread's reference is announced in an
outbox, in the host's queue or by the event. `OwnTargets` says that jobs, messages and tasks are
on the target of their node. `NodesAwake` is inductive with it: a blocked node has not been
executed, and is `Pending`, that is, somewhere in a queue, in a list, in an outbox, with a task,
or behind an instance that will send it.

`RunsAfterInputs` and `TriggeredOnce` need each other and the accounting of the host, and are
proved as `Flow /\ LeafFlow`:

* `Once` and `DistinctQueues`: a node of an instance is in one place, and there once;
* `Ready`: a pending node belongs to an execution in flight, has not run in it, and its input
  nodes have. Hence `RunsAfterInputs`;
* `WillSend`: a node to which a task that has run will come when it triggers the next nodes is
  not pending yet. This is where the input nodes must share a target: the last of them to run
  is the only one that finds all of them marked, as the others' tasks are done;
* `Closed`: the executed nodes are closed under inputs;
* `Reports` and `LeafBound`: a leaf's completion is on its way in one place, only while its
  execution is in flight, and `complete_leaf_nodes` is at most the number of leaves that have
  reported. When the host has counted all of them, no leaf is pending or reporting, and then,
  as the graph has no cycles, no node of the execution is pending (`LeafToRun`), so that the
  marks can be cleared for the next execution. It is a bound and not an equation because a
  full queue may drop a completion; the execution then never ends, and the theorem holds.

`BuffersConserved` rests on `Flow` and on `Custody`, both of which hold whichever queues the
references come from and go to:

* `GaveBack`: a node of an instance has run and its task is past its parameter `d`. A reference
  is `Spent` when all the nodes that use it have given it back;
* `InCustody`: the reference that an instance has acquired is not spent, belongs to an execution
  in flight, and `in_node_done_cnt` is the number of readers that have given it back. The release
  that makes the count complete is therefore the one that makes it spent (`CustodyReleases`):
  only the last node puts the reference back, and the writer is done before any reader runs
  (`WriterBack`, where `Flow` says that the writer's task has still to trigger the reader);
* `StillOut`: between the first use and the last the reference stays acquired. A node that finds
  it not acquired is the first of its execution (`FirstToAcquire`), and the writer, or a reader
  of what the application writes;
* `TaskHolds`: what a task has taken and not put back is what its instance has acquired, so
  that a release puts back the reference that was acquired;
* an execution that ends has nothing acquired, since all its nodes have run and given back;
* `ParkedAcquire`: only nodes that may be the first are on a list of parked nodes. As none is
  on it twice (`DistinctQueues`), `ParkedListsFit` makes room for one more (`RoomToPark`).

`Conserved` then counts: the places of a reference in the ready queue, in the done queue, with
the application and with the instances add up to one, and each step takes one away where it
adds one (`PlacesAppend` and `PlacesTail` of `QueueLemmas`).

`PipelineImplementsSchedule` has one lemma per kind of step (`AcquireSeen` to `HostSeen`), which
says what the scheduler sees of it: the application's and the host's steps are its own, a node
runs when its task runs it (`ExecuteSeen`), its command is queued when its task sends it
(`CompleteSeen`), and all else is a stutter. It rests on `Flow` and `Custody` and on `Counted`:

* when a node runs, its input nodes have run, and none of them has its command still
  to send, because its task would come to trigger the node afterwards, which `Flow` excludes for a
  node that is pending (`CompletingFacts`). With this the node is `Triggered`;
* an execution is not started anew while a command of it is to be sent, since its instance is in
  flight until the command has been counted (`StartedSeen`);
* the number of references seen goes down exactly when `ParamNode` runs: before, its
  instance has acquired one, and the reference does not go back before the node has run
  (`ReleaseSeen`). `Counted` says that the scheduler's count of what is ready is the length
  of the queue, and that a task about to send a command has run a node that has one;
* putting an announcement into the host's queue, or taking one out, does not change the sequence
  of completion commands, and a command goes to its end and comes from its head (`PickedAppend`,
  `PickedTail`).

The hypotheses are needed where the code's limits bite: a command that a full queue drops is one
that the scheduler has counted on, and a node that goes on with an invalid reference has taken none.
What the theorems say of `GraphSchedule` therefore holds, under the mapping, of the detailed
pipeline: each execution ends once all its leaf nodes have reported, no request is lost while
the host task holds it, and no execution is started without an input reference.

### Event queues and streaming

| Theorem | States |
|---|---|
| `QueueInvariant` | `QueueSpec => [](QueueTypeOK /\ IndicesApart /\ IndicesPlaced /\ EventsThere)` |
| `QueueImplementsChannel` | `QueueSpec => ImplementsChannel` |
| `StreamImplementsSchedule` | every behaviour of `StreamSpec` is one of `GraphSchedule` |
| `StreamImplementsChannel` | `StreamSpec => ImplementsChannel` |
| `StreamTypes` | `StreamSpec => []StreamTypeOK` |
| `StoppedGraphIsIdle` | `StreamSpec => []StoppedMeansIdle` |
| `StreamingGoesOn` | if `InputsOnOneTarget`, the trigger is no leaf and the event queue has two elements or more, `StreamSpec => []OneNextExecution` |

`EventQueue` assumes `QueueAssumption` (a positive number of elements, and a `NoEvent` that
is none), which `GraphStream` proves of its instance from `StreamAssumption`. The elements of
an event queue have no lock; what protects them is that an index is in one place only:
in one of the two queues, in one adding thread's hands, or in the reader's. `IndicesApart`
says so, `EventsThere` that ready elements hold events, and with both a `PutEvent` changes
no element but its own, so that the ready queue, read through the elements, is the
channel's `queue`. `IndicesPlaced` says that no index is lost, so that a full queue is full of
events (`FullHoldsTwo`).

`StreamImplementsSchedule` carries every theorem of the scheduler over to streaming: each
step of `GraphStream` is one of `GraphSchedule` or leaves its variables alone.
`StoppedGraphIsIdle` rests on `StopInv`, which TLC has checked on the instances of `stream`
and `stream_wait`:

* `AddersApart`: what each adder is adding, and where the owner is meanwhile;
* `StopIsLast`: a STOP has no START behind it, and there is one of it, while the owner
  waits for it. Without it the task could answer a stop and then start again;
* `TaskStates` and `Stops`: while the task waits for the completion event nothing can
  schedule; the event, by the scheduler's `CompletedEventMeansIdle`, means that nothing
  is in flight; and from there until the owner has taken `stop_done` there is nothing
  `Outstanding` that would start the graph.

`StreamingGoesOn` adds `PulseInv` to it. `OnePulse` counts the places where the next execution
may come from in three groups, those the scheduler has accepted and whose trigger has not run,
the trigger's completion, and the event with the call it leads to, and each step moves one
from a place to the next (`OwnerPulse` to `WaiterPulse`). The steps that could lose or add one
need the rest:

* `HostReschedule` and the task's call start or remember what they are asked for
  (`ScheduleAccepts`), which is one execution (`OneAsked`);
* an execution that completes has had its trigger run, because a node that has not run has a
  leaf behind it that has not (`LeafStillToRun` of the scheduler), and all leaves have reported;
* the trigger's event finds an element (`RoomForTrigger`): no other trigger's event is on its
  way, START has been served, and STOP and DELETE, of which there is one at a time
  (`OneOfEach`), are never there together (`OwnerWaits`). One element would not do, and the code
  has more;
* START finds nothing on its way (`StartPulse`): a task that is not running is quiet, and no
  trigger's event is left behind START (`NoneBehindStart`). This is where the trigger must not
  be a leaf: the completion of a leaf ends the execution before its event has been added, and
  the stop may then overtake the event. `NodeCommands` of the scheduler says that the
  command of any other node keeps its execution in flight, and this is where the input nodes
  of a node must share a target: otherwise the trigger's command may be queued after its
  execution has ended, with the same consequence.

### Commands and kernels

| Theorem | States |
|---|---|
| `ChannelTypes` | `Spec => []ChannelTypeOK` (of `CommandChannel`) |
| `FreeObjectsQuiet` | `Spec => []FreeIsQuiet` |
| `CommandsRunOnce` | `Spec => []ExecutedAtMostOnce` |
| `AnswersAreOwn` | `Spec => []AnswerIsOwn` |
| `CommandsInOrder` | `Spec => ExecutedInOrder` |
| `KernelsUseChannel` | every behaviour of `KSpec` is one of `CommandChannel` |
| `KernelTypes` | `KSpec => []KernelsTypeOK` |
| `FreedAreUnused` | `KSpec => []FreedIsUnused` |
| `DeletesOwn` | if no two nodes have one kernel, `KSpec => DeleteIsOwn` |
| `ReleasedAreGone` | `KSpec => []InstancesReleased` |
| `VerifiedAreBacked` | if no two nodes have one kernel, `KSpec => []VerifiedIsBacked` |

They assume `ChannelAssumption` and `KernelsAssumption`, which give the constants their
types. The invariant is `ChannelInv`: the properties themselves and `OnePlace` (a descriptor
is in one place of one job queue, with one task, or its event is set, and only one of
these), `OneHolder` (a pair is free, expired, or one caller's), `CallersApart` (two callers
are in different calls) and `Progress` (how far the command of a pair has come, given where
the pair is). A pair that expired is in `pend_queue` with whatever the target still does to
it; since no step takes it from there, `FreeIsQuiet` survives the late acknowledgement. For
the same reason the theorems would not survive a caller for `ownContextFlushCmdPendQueue`.
`CommandsInOrder` adds `QueueOrder`: a job queue has the commands of a thread in the order
of its calls, and none of a later call has run. `ReleasedAreGone` and `VerifiedAreBacked`
add `NodeInv`, which says of a node's instance and of its commands that have not run yet
what they can still do: there is at most one instance, or one CREATE that will make it,
never both (`NoLeak`), neither once nothing is left for the node to delete; and a kernel
that counts as created is there, with no command left but the one of the current call
(`Backing`); and a command that timed out is left only while the node knows that it may have
something to delete, or until its DELETE has a result (`Quiet`), which is `FreedAreUnused`.
It needs `QueueOrder`: a DELETE runs after the CREATE, or the control command, that timed
out. `DeletesOwn` and `VerifiedAreBacked` need their hypothesis: `delete_other` is the
counterexample without it.

### Only model-checked

The liveness properties `AcceptedCompletes`, `WaitReleased`, `FramesDelivered`, `CallReturns`
and `StopReturns`, which are out of the prover's reach (fairness and ENABLED). Of the safety
properties `FramesInOrder` of `GraphPipeline` alone: it needs an invariant about the order in which
the instances of a node come through the job queues, the lists of parked nodes and the tasks, not
only about where they are.

## 8. What is not modelled

* Of the scheduler: graph construction, verification and attributes (their result is the
  constants of the modules), pipe-up buffers, and timeouts (`graph->timeout_val`
  is by default wait-forever, `vx_graph.c:514`).
* Of graph parameters: in `GraphPipeline`, refused references and partly enqueued batches
  (`GraphSchedule` has them), dequeuing several references in one call, and an input reference
  enqueued while it is already in the graph. Only graph parameter 0 starts executions; other
  input parameters are not in the instances.
* Of targets: creating and deleting a target, replicated nodes, super nodes, delays, and
  sending to another CPU, which puts the same descriptor into the same kind of queue through
  IPC. The model's commands are delivered; only a full job queue drops.
* Of control commands: the context's registries and `ownContextFlushCmdPendQueue`, which has no
  caller. A thread has one graph of one node, whose kernel has one instance on one target;
  `NodeKernels` does not execute graphs.
* Of event queues: registering, enabling and disabling events, the blocking options of
  `vxWaitEvent`, and the context's own event queue, which is the same code with other readers.
* Of streaming: `vxEnableGraphStreaming`, failing allocations, an application that schedules a
  graph which streams, and a wait for an event that times out.
* Limits that no run reaches: nine nodes parked on one queue (`vx_obj_desc_queue.c:248`) and a
  full job queue of 96 descriptors (`vx_target.c:1784`). Their branches are in `AcquireParameter`
  and `Put`, and the theorems about `GraphPipeline` are about every limit. That a release with a
  full event queue never returns is in the model and not claimed.
* The object descriptor table: allocation and release of its entries.
* Delays: ageing of slots, planned as a part of `ReleaseParameter`.
* Object pools, kernels and modules: tables under one lock.
* Data objects, tracing and logging: data, not control.
* `app_utils`, the kernels, `vision_apps`, `imaging`, `video_io`, `arm-tidl`,
  `ti-perception-toolkit`, `tiadalg`, `ivision`, `vxlib`, `sdk_builder`: drivers, vendor
  libraries, algorithms, applications and build files around the framework.

The framework is a small part of the repository's lines: almost all of the rest is generated
tables, register definitions and vendor code, so that the share of the repository that these
modules describe is small even where the framework is covered.
