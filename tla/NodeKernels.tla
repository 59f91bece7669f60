----------------------------- MODULE NodeKernels -----------------------------
(***************************************************************************)
(* The kernel instances of nodes: created on a target when a graph is      *)
(* verified, controlled while it is in use and deleted when verification   *)
(* fails or the node is released (vx_node.c, vx_graph_verify.c), by        *)
(* commands that CommandChannel carries and the target executes on its     *)
(* table of kernel instances (vx_target.c, vx_target_kernel_instance.c).   *)
(*                                                                         *)
(* Each thread has a graph of one node, so that a thread and its node have *)
(* one name; the targets are those of one CPU and share its table.         *)
(***************************************************************************)
EXTENDS CommandChannel

CONSTANTS
    TargetOf,   \* TargetOf[n]: target_id of node n
    KernelOf,   \* KernelOf[n]: kernel_id of node n
    NumSlots,   \* TIVX_TARGET_KERNEL_INSTANCE_MAX
    Unsound,    \* bound: nodes whose verification may fail once the kernel is there
    MaxCalls    \* bound: MaxCalls[n] commands sent before thread n asks for no other

ASSUME KernelsAssumption ==
    /\ Unsound \subseteq Callers /\ MaxCalls \in [Callers -> Nat]
    /\ TargetOf \in [Callers -> Targets] /\ NumSlots \in Nat \ {0}
    /\ Commands = {"create", "control", "delete"}

Slots == 0 .. NumSlots - 1

VARIABLES
    node,                 \* node[n]: phase, is_kernel_created and is_timed_out
    target_kernel_index,  \* node n's obj_desc[0]->target_kernel_index[0]
    instance              \* instance[s]: entry s of g_target_kernel_instance_table,
                          \* its kernel_id and the node it was created for

kernel_vars == <<channel_vars, node, target_kernel_index, instance>>

\* kernel_id is TIVX_TARGET_KERNEL_ID_INVALID.
FreeSlot == [used |-> FALSE, kernel |-> "invalid", node |-> "none"]

KInit ==
    /\ Init
    /\ node = [n \in Callers |-> [phase |-> "new", created |-> FALSE, timed_out |-> FALSE]]
    /\ target_kernel_index = [n \in Callers |-> 0]
    /\ instance = [s \in Slots |-> FreeSlot]

-----------------------------------------------------------------------------
\* The host.

CallsBy(n) == Cardinality({k \in 1 .. Len(calls) : calls[k].by = n})

Sends(n, m, phase) ==
    /\ SendCmd(n, TargetOf[n], m)
    /\ node' = [node EXCEPT ![n].phase = phase]

\* Once the kernel is there the rest of the verification succeeds or fails.
Outcomes(n) == {"verified"} \cup (IF n \in Unsound THEN {"failed"} ELSE {})

\* vxVerifyGraph comes to ownNodeKernelInit: a kernel that counts as created is not
\* created again.
VerifyNode(n) ==
    /\ node[n].phase = "new"
    /\ \/ ~node[n].created /\ CallsBy(n) < MaxCalls[n] /\ Sends(n, "create", "creating")
       \/ /\ node[n].created /\ CallsBy(n) <= MaxCalls[n]
          /\ \E phase \in Outcomes(n) : node' = [node EXCEPT ![n].phase = phase]
          /\ UNCHANGED channel_vars
    /\ UNCHANGED <<target_kernel_index, instance>>

\* tivxNodeSendCommandTimed, once the graph is verified.
ControlNode(n) ==
    /\ node[n].phase = "verified" /\ CallsBy(n) < MaxCalls[n]
    /\ Sends(n, "control", "controlling")
    /\ UNCHANGED <<target_kernel_index, instance>>

\* Mutant: a node whose CREATE timed out is not known to the target.
MayExist_Created(n) == node[n].created

\* Whether ownNodeKernelDeinit has a DELETE to send.
MayExist(n) == node[n].created \/ node[n].timed_out

\* ownNodeKernelDeinit, in a vxVerifyGraph that failed or in vxReleaseNode.
KernelDeinit(n, phase, end) ==
    IF MayExist(n)
    THEN Sends(n, "delete", phase)
    ELSE /\ node' = [node EXCEPT ![n].phase = end, ![n].created = FALSE]
         /\ UNCHANGED channel_vars

UndoVerify(n) ==
    /\ node[n].phase = "failed"
    /\ KernelDeinit(n, "undoing", "new")
    /\ UNCHANGED <<target_kernel_index, instance>>

\* Mutant: the descriptors are freed whatever became of the DELETE.
Destructed_Always(status) == "freed"

\* ownDestructNode frees the node's descriptors when ownNodeKernelDeinit succeeded;
\* otherwise they stay allocated, and what the node has sent can still be executed.
Destructed(status) == IF status = "success" THEN "freed" ELSE "released"

ReleaseNode(n) ==
    /\ node[n].phase \in {"new", "verified"}
    /\ KernelDeinit(n, "releasing", Destructed("success"))
    /\ UNCHANGED <<target_kernel_index, instance>>

\* What the node may be when a command has come back with a status.
AfterCreate(n, status) ==
    IF status = "success"
    THEN [phase : Outcomes(n), created : {TRUE}, timed_out : {FALSE}]
    ELSE {[node[n] EXCEPT !.phase = "failed", !.timed_out = @ \/ status = "timeout"]}
AfterControl(nd, status) ==
    {[nd EXCEPT !.phase = "verified", !.timed_out = (status = "timeout")]}
AfterDelete(nd, status, phase) ==
    LET timed_out == nd.timed_out \/ status = "timeout" IN
    {[phase |-> phase, timed_out |-> timed_out,
      created |-> nd.created /\ status # "success" /\ ~timed_out]}

CommandReturns(n, status) ==
    LET nd == node[n] IN
    \E after \in CASE nd.phase = "creating"    -> AfterCreate(n, status)
                   [] nd.phase = "controlling" -> AfterControl(nd, status)
                   [] nd.phase = "undoing"     -> AfterDelete(nd, status, "new")
                   [] nd.phase = "releasing"   -> AfterDelete(nd, status, Destructed(status)) :
        node' = [node EXCEPT ![n] = after]

\* The steps of ownContextSendCmd, and what the caller does with its status.
NodeCallerStep(n) ==
    /\ \/ (GetObject(n) \/ Send(n) \/ WaitAck(n) \/ WaitTimeout(n)) /\ UNCHANGED node
       \/ (GetTimeout(n) \/ Expire(n)) /\ CommandReturns(n, "timeout")
       \/ SendFailed(n) /\ CommandReturns(n, "error")
       \/ Finish(n) /\ CommandReturns(n, AckStatus(n))
    /\ UNCHANGED <<target_kernel_index, instance>>

-----------------------------------------------------------------------------
\* The target.

\* Mutant: the entry at the node's index is taken for the node's.
Finds_AnyKernel(n) == instance[target_kernel_index[n]].used

\* ownTargetKernelInstanceGet finds an entry for node n: the one at the node's
\* index, when it is of the same kernel.
Finds(n) ==
    LET entry == instance[target_kernel_index[n]] IN
    entry.used /\ entry.kernel = KernelOf[n]

\* The first free entry, for ownTargetKernelInstanceAlloc.
FirstFree(s) == ~instance[s].used /\ \A r \in Slots : r < s => instance[r].used

\* The table without the entry that is found for node n.
WithoutFound(n) ==
    IF Finds(n) THEN [instance EXCEPT ![target_kernel_index[n]] = FreeSlot] ELSE instance

\* ownTargetNodeDescNodeCreate: the index is written before the kernel's create
\* callback runs, and stays when that fails and the entry is freed.  Without a free
\* entry the clean-up frees whatever is found at the index the node had before.
ExecuteCreate(n, result) ==
    \/ \E s \in Slots :
         /\ FirstFree(s)
         /\ target_kernel_index' = [target_kernel_index EXCEPT ![n] = s]
         /\ instance' = IF result = "ok"
                        THEN [instance EXCEPT ![s] =
                                [used |-> TRUE, kernel |-> KernelOf[n], node |-> n]]
                        ELSE instance
    \/ /\ \A s \in Slots : instance[s].used
       /\ result = "fail"
       /\ instance' = WithoutFound(n)
       /\ UNCHANGED target_kernel_index

\* ownTargetNodeDescNodeDelete: the entry is freed whatever the kernel says.
ExecuteDelete(n, result) ==
    /\ instance' = WithoutFound(n)
    /\ ~Finds(n) => result = "fail"
    /\ UNCHANGED target_kernel_index

\* ownTargetNodeDescNodeControl.
ExecuteControl(n, result) ==
    /\ ~Finds(n) => result = "fail"
    /\ UNCHANGED <<target_kernel_index, instance>>

\* The task of target t executes the command it has taken.  The descriptor is still
\* the node's, released or not: one that is freed has no command left (FreedIsUnused),
\* so that the check of its type (vx_target.c 1403) never fails.
ExecuteCommand(t) ==
    LET call == calls[task[t].call]
        n == call.by
    IN  \E result \in {"ok", "fail"} :
          /\ TaskDone(t, result)
          /\ \/ call.cmd = "create" /\ ExecuteCreate(n, result)
             \/ call.cmd = "delete" /\ ExecuteDelete(n, result)
             \/ call.cmd = "control" /\ ExecuteControl(n, result)
          /\ UNCHANGED node

NodeTaskStep(t) ==
    \/ (TaskTake(t) \/ HandleAck(t)) /\ UNCHANGED <<node, target_kernel_index, instance>>
    \/ ExecuteCommand(t)

-----------------------------------------------------------------------------
KNext ==
    \/ \E n \in Callers : \/ VerifyNode(n) \/ ControlNode(n)
                          \/ UndoVerify(n) \/ ReleaseNode(n) \/ NodeCallerStep(n)
    \/ \E t \in Targets : NodeTaskStep(t)

KSpec == KInit /\ [][KNext]_kernel_vars

\* A thread inside a call goes on with it, a timeout expires, and the tasks of the
\* targets serve their queues and come back from a kernel's callbacks.
KFairness ==
    /\ \A n \in Callers : WF_kernel_vars(NodeCallerStep(n)) /\ WF_kernel_vars(UndoVerify(n))
    /\ \A t \in Targets : WF_kernel_vars(NodeTaskStep(t))

FairKSpec == KSpec /\ KFairness

-----------------------------------------------------------------------------
\* Properties.

KernelsTypeOK ==
    /\ ChannelTypeOK
    /\ node \in [Callers -> [phase : {"new", "creating", "failed", "undoing", "verified",
                                      "controlling", "releasing", "released", "freed"},
                             created : BOOLEAN, timed_out : BOOLEAN]]
    /\ target_kernel_index \in [Callers -> Slots]
    /\ \A s \in Slots : instance[s] # FreeSlot =>
          instance[s] \in [used : {TRUE}, kernel : {KernelOf[n] : n \in Callers},
                           node : Callers]

\* An entry of the table is freed only by a DELETE for the node it was created for
\* (tivx_target_kernel_instance.h 130: "kernel_id is used to confirm the handle
\* matches the required kernel").
DeleteIsOwn ==
    [][\A s \in Slots : instance[s].used /\ ~instance'[s].used =>
          \E t \in Targets : /\ task[t].busy /\ ~task'[t].busy
                             /\ calls[task[t].call].by = instance[s].node]_kernel_vars

\* Command k is still to be executed: it is queued to a target, or a task is at it.
ToExecute(k) ==
    \E t \in Targets :
        \/ task[t].busy /\ task[t].call = k
        \/ \E i \in 1 .. Len(job_queue[t]) :
              LET o == job_queue[t][i] IN ~desc[o].is_ack /\ desc[o].call = k

\* No target has still to execute a command of a node whose descriptor was freed: it
\* would take for the node whatever the entry was allocated for next.  Every command that
\* timed out, whichever it was, was followed by a DELETE that succeeded (vx_node.c 105).
FreedIsUnused ==
    \A n \in Callers : node[n].phase = "freed" =>
        \A k \in 1 .. Len(calls) : calls[k].by = n => ~ToExecute(k)

\* Released node n has no command left unanswered that was to delete its kernel.
DeletesAnswered(n) ==
    /\ node[n].phase \in {"released", "freed"}
    /\ \A k \in 1 .. Len(calls) : calls[k].by = n /\ calls[k].cmd = "delete"
                                  => calls[k].answer \in {"success", "failure"}

\* Once a node is released and the target has answered every DELETE for it, no
\* instance of it is left on the target, even when its CREATE had timed out and
\* was executed later (vx_node.c 908-909).
InstancesReleased ==
    \A n \in Callers : DeletesAnswered(n) =>
        \A s \in Slots : instance[s].used => instance[s].node # n

\* A verified node is answered by an instance of its own.  Not covered is a node whose
\* DELETE came back as failed: the target has freed the entry all the same, but the
\* kernel still counts as created (vx_node.c 952-956) and a later vxVerifyGraph does
\* not create it.
VerifiedIsBacked ==
    \A n \in Callers :
        /\ node[n].phase = "verified"
        /\ \A k \in 1 .. Len(calls) : calls[k].by = n /\ calls[k].cmd = "delete"
                                      => calls[k].answer # "failure"
        => LET entry == instance[target_kernel_index[n]] IN entry.used /\ entry.node = n
=============================================================================
