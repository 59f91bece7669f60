-------------------------- MODULE NodeKernels_proofs --------------------------
(***************************************************************************)
(* Proofs about NodeKernels: what holds of CommandChannel holds of it,     *)
(* nodes of different kernels do not delete each other's instances (of     *)
(* nodes of one kernel that is not so: the run delete_other), no instance  *)
(* outlives its node and a verified node has one.                          *)
(*                                                                         *)
(* The argument for the last two: the commands of a thread are executed in *)
(* order, so that when the target has executed the command of the call the *)
(* thread is in, it has executed all that came before, those that timed    *)
(* out included.                                                           *)
(***************************************************************************)
EXTENDS NodeKernels, CommandChannel_proofs

\* The table: each entry is free or was filled in for a node.
Entry(n) == [used |-> TRUE, kernel |-> KernelOf[n], node |-> n]

TableOK ==
    /\ target_kernel_index \in [Callers -> Slots]
    /\ instance \in [Slots -> {FreeSlot} \cup {Entry(n) : n \in Callers}]

Phases == {"new", "creating", "failed", "undoing", "verified", "controlling", "releasing",
           "released", "freed"}
NodeStates == [phase : Phases, created : BOOLEAN, timed_out : BOOLEAN]

\* A node whose thread is in a call waits for its command.
NodesOK ==
    /\ node \in [Callers -> NodeStates]
    /\ \A n \in Callers : caller[n].pc # "idle" =>
          node[n].phase \in {"creating", "controlling", "undoing", "releasing"}

\* The commands that nodes send go through the channel.
LEMMA ChannelStep == ASSUME [KNext]_kernel_vars PROVE [Next]_channel_vars
<1>1. ASSUME NEW n \in Callers, NEW m \in Commands, NEW phase, Sends(n, m, phase) PROVE Next
  <2>1. TargetOf[n] \in Targets
    BY KernelsAssumption
  <2> QED BY <1>1, <2>1 DEF Sends, Next
<1>2. "create" \in Commands /\ "control" \in Commands /\ "delete" \in Commands
  BY KernelsAssumption
<1>3. ASSUME NEW n \in Callers, VerifyNode(n) PROVE [Next]_channel_vars
  BY <1>1, <1>2, <1>3 DEF VerifyNode
<1>4. ASSUME NEW n \in Callers, ControlNode(n) PROVE Next
  BY <1>1, <1>2, <1>4 DEF ControlNode
<1>5. ASSUME NEW n \in Callers, UndoVerify(n) \/ ReleaseNode(n) PROVE [Next]_channel_vars
  BY <1>1, <1>2, <1>5 DEF UndoVerify, ReleaseNode, KernelDeinit
<1>6. ASSUME NEW n \in Callers, NodeCallerStep(n) PROVE Next
  BY <1>6 DEF NodeCallerStep, Next, CallerStep
<1>7. ASSUME NEW t \in Targets, NodeTaskStep(t) PROVE Next
  BY <1>7 DEF NodeTaskStep, ExecuteCommand, Next, TaskStep
<1>8. CASE UNCHANGED kernel_vars
  BY <1>8 DEF kernel_vars
<1> QED BY <1>3, <1>4, <1>5, <1>6, <1>7, <1>8 DEF KNext

\* The channel's guarantees (FreeIsQuiet, AnswerIsOwn, ExecutedAtMostOnce) hold of the
\* commands that create, control and delete kernels.
THEOREM KernelsUseChannel == KSpec => Spec
<1>1. KInit => Init
  BY DEF KInit
<1>2. [KNext]_kernel_vars => [Next]_channel_vars
  BY ChannelStep
<1> QED BY <1>1, <1>2, PTL DEF KSpec, Spec

-----------------------------------------------------------------------------
\* The command that a task executes is one of a node.
LEMMA CommandOfNode ==
  ASSUME ChannelInv, NEW t \in Targets, task[t].busy
  PROVE  calls[task[t].call].by \in Callers
<1>1. task[t].obj \in Objects /\ Executes(t, task[t].obj)
  BY DEF ChannelInv, ChannelTypeOK, Executes
<1>2. task[t].call \in 1 .. Len(calls)
  BY <1>1 DEF ChannelInv, Progress, UnderWay, Executes
<1>3. calls \in Seq(Call)
  BY DEF ChannelInv, ChannelTypeOK, Call
<1>4. calls[task[t].call] \in Call
  BY <1>2, <1>3, ElementOfSeq
<1> QED BY <1>4 DEF Call

\* What the execution of a command of node n changes in the table: the entry found for
\* it is freed, or a free one is filled in.
LEMMA ExecuteChanges ==
  ASSUME TableOK, NEW n \in Callers, NEW result \in {"ok", "fail"},
         ExecuteCreate(n, result) \/ ExecuteDelete(n, result) \/ ExecuteControl(n, result)
  PROVE  /\ TableOK'
         /\ \A s \in Slots : instance[s].used /\ ~instance'[s].used =>
               instance[s].kernel = KernelOf[n]
<1> USE DEF TableOK
<1>0. ~FreeSlot.used /\ Entry(n).used
  BY DEF FreeSlot, Entry
<1>1. ASSUME instance' = WithoutFound(n), UNCHANGED target_kernel_index
      PROVE  /\ TableOK'
             /\ \A s \in Slots : instance[s].used /\ ~instance'[s].used =>
                   instance[s].kernel = KernelOf[n]
  BY <1>1 DEF WithoutFound, Finds
<1>2. ASSUME NEW s \in Slots, FirstFree(s), result = "ok",
             target_kernel_index' = [target_kernel_index EXCEPT ![n] = s],
             instance' = [instance EXCEPT ![s] = Entry(n)]
      PROVE  /\ TableOK'
             /\ \A r \in Slots : ~(instance[r].used /\ ~instance'[r].used)
  BY <1>0, <1>2
<1>3. ASSUME NEW s \in Slots, UNCHANGED instance,
             target_kernel_index' = [target_kernel_index EXCEPT ![n] = s]
      PROVE  TableOK' /\ \A r \in Slots : ~(instance[r].used /\ ~instance'[r].used)
  BY <1>3
<1>4. CASE ExecuteCreate(n, result)
  BY <1>1, <1>2, <1>3, <1>4 DEF ExecuteCreate, Entry
<1>5. CASE ExecuteDelete(n, result)
  BY <1>1, <1>5 DEF ExecuteDelete
<1>6. CASE ExecuteControl(n, result)
  BY <1>6 DEF ExecuteControl
<1> QED BY <1>4, <1>5, <1>6

\* Only the execution of a command changes the table.
LEMMA TableStep ==
  ASSUME ChannelInv, TableOK, [KNext]_kernel_vars
  PROVE  /\ TableOK'
         /\ \/ UNCHANGED instance
            \/ \E t \in Targets :
                 /\ task[t].busy /\ ~task'[t].busy
                 /\ calls[task[t].call].by \in Callers
                 /\ \A s \in Slots : instance[s].used /\ ~instance'[s].used =>
                       instance[s].kernel = KernelOf[calls[task[t].call].by]
<1>1. ASSUME UNCHANGED <<target_kernel_index, instance>> PROVE TableOK' /\ UNCHANGED instance
  BY <1>1 DEF TableOK
<1>2. ASSUME NEW n \in Callers,
             VerifyNode(n) \/ ControlNode(n) \/ UndoVerify(n) \/ ReleaseNode(n) \/ NodeCallerStep(n)
      PROVE  UNCHANGED <<target_kernel_index, instance>>
  BY <1>2 DEF VerifyNode, ControlNode, UndoVerify, ReleaseNode, NodeCallerStep
<1>3. ASSUME NEW t \in Targets, ExecuteCommand(t)
      PROVE  /\ TableOK' /\ task[t].busy /\ ~task'[t].busy
             /\ calls[task[t].call].by \in Callers
             /\ \A s \in Slots : instance[s].used /\ ~instance'[s].used =>
                   instance[s].kernel = KernelOf[calls[task[t].call].by]
  <2>1. PICK result \in {"ok", "fail"} :
          /\ TaskDone(t, result)
          /\ \/ ExecuteCreate(calls[task[t].call].by, result)
             \/ ExecuteDelete(calls[task[t].call].by, result)
             \/ ExecuteControl(calls[task[t].call].by, result)
    BY <1>3 DEF ExecuteCommand
  <2>2. task[t].busy /\ ~task'[t].busy
    BY <2>1 DEF TaskDone, IdleTask, ChannelInv, ChannelTypeOK
  <2>3. PICK n \in Callers : n = calls[task[t].call].by
    BY <2>2, CommandOfNode
  <2> QED BY <2>1, <2>2, <2>3, ExecuteChanges
<1>4. ASSUME NEW t \in Targets, ~ExecuteCommand(t), NodeTaskStep(t)
      PROVE  UNCHANGED <<target_kernel_index, instance>>
  BY <1>4 DEF NodeTaskStep
<1>5. CASE UNCHANGED kernel_vars
  BY <1>1, <1>5 DEF kernel_vars
<1> QED BY <1>1, <1>2, <1>3, <1>4, <1>5 DEF KNext

LEMMA TableInvariance == KSpec => [](ChannelInv /\ TableOK)
<1>1. KInit => TableOK
  BY KernelsAssumption DEF KInit, TableOK, Slots
<1>2. ChannelInv /\ TableOK /\ [KNext]_kernel_vars => TableOK'
  BY TableStep
<1> QED BY <1>1, <1>2, KernelsUseChannel, ChannelInvariance, PTL DEF KSpec

-----------------------------------------------------------------------------
LEMMA NodesStep ==
  ASSUME ChannelInv, NodesOK, [KNext]_kernel_vars PROVE NodesOK'
<1> USE DEF NodesOK
<1>0. ASSUME NEW n \in Callers, NEW s, caller' = [caller EXCEPT ![n] = s],
             NEW nd \in NodeStates, node' = [node EXCEPT ![n] = nd],
             s.pc # "idle" => nd.phase \in {"creating", "controlling", "undoing", "releasing"}
      PROVE  NodesOK'
  <2>1. caller'[n] = s /\ \A d \in Callers : d # n => caller'[d] = caller[d]
    BY <1>0, UpdateCaller DEF ChannelInv
  <2>2. node'[n] = nd /\ \A d \in Callers : d # n => node'[d] = node[d]
    BY <1>0
  <2>3. node' \in [Callers -> NodeStates]
    BY <1>0
  <2> QED BY <1>0, <2>1, <2>2, <2>3
<1>1. ASSUME NEW n \in Callers, NEW m,
             NEW phase \in {"creating", "controlling", "undoing", "releasing"},
             Sends(n, m, phase)
      PROVE  NodesOK'
  <2>1. [node[n] EXCEPT !.phase = phase] \in NodeStates
        /\ [node[n] EXCEPT !.phase = phase].phase = phase
    BY DEF NodeStates, Phases
  <2> QED BY <1>0, <1>1, <2>1, SMTT(30) DEF Sends, SendCmd
<1>2. ASSUME NEW n \in Callers, node[n].phase \in {"new", "failed", "verified"},
             UNCHANGED channel_vars, NEW nd \in NodeStates, node' = [node EXCEPT ![n] = nd]
      PROVE  NodesOK'
  <2>1. caller' = caller /\ caller[n].pc = "idle"
    BY <1>2 DEF channel_vars
  <2> QED BY <1>2, <2>1
<1>3. ASSUME NEW n \in Callers, VerifyNode(n) PROVE NodesOK'
  <2>1. ASSUME NEW phase \in {"verified", "failed"}
        PROVE  [node[n] EXCEPT !.phase = phase] \in NodeStates
    BY DEF NodeStates, Phases
  <2> QED BY <1>1, <1>2, <1>3, <2>1 DEF VerifyNode, Outcomes
<1>4. ASSUME NEW n \in Callers, ControlNode(n) PROVE NodesOK'
  BY <1>1, <1>4 DEF ControlNode
<1>5. ASSUME NEW n \in Callers, UndoVerify(n) \/ ReleaseNode(n) PROVE NodesOK'
  <2>1. ASSUME NEW end \in {"new", "freed"}
        PROVE  [node[n] EXCEPT !.phase = end, !.created = FALSE] \in NodeStates
    BY DEF NodeStates, Phases
  <2>2. ASSUME NEW phase \in {"undoing", "releasing"}, NEW end \in {"new", "freed"},
               node[n].phase \in {"new", "failed", "verified"}, KernelDeinit(n, phase, end)
        PROVE  NodesOK'
    <3>1. CASE MayExist(n)
      BY <1>1, <2>2, <3>1 DEF KernelDeinit
    <3>2. CASE ~MayExist(n)
      <4>1. /\ UNCHANGED channel_vars
            /\ node' = [node EXCEPT ![n] = [node[n] EXCEPT !.phase = end, !.created = FALSE]]
        BY <2>2, <3>2 DEF KernelDeinit
      <4> QED BY <1>2, <2>1, <2>2, <4>1
    <3> QED BY <3>1, <3>2
  <2>3. Destructed("success") = "freed"
    BY DEF Destructed
  <2> QED BY <1>5, <2>2, <2>3 DEF UndoVerify, ReleaseNode
<1>6. ASSUME NEW n \in Callers, NEW status, CommandReturns(n, status), Return(n, status),
             caller[n].pc # "idle"
      PROVE  NodesOK'
  <2>0. node[n] \in NodeStates
    OBVIOUS
  <2>1. AfterCreate(n, status) \subseteq NodeStates
    BY <2>0 DEF AfterCreate, Outcomes, NodeStates, Phases
  <2>2. AfterControl(node[n], status) \subseteq NodeStates
    BY <2>0 DEF AfterControl, NodeStates, Phases
  <2>3. ASSUME NEW phase \in {"new", "released", "freed"}
        PROVE  AfterDelete(node[n], status, phase) \subseteq NodeStates
    BY <2>0 DEF AfterDelete, NodeStates, Phases
  <2>4. \E after \in NodeStates : node' = [node EXCEPT ![n] = after]
    <3>1. CASE node[n].phase = "creating"
      BY <1>6, <2>1, <3>1, Zenon DEF CommandReturns
    <3>2. CASE node[n].phase = "controlling"
      BY <1>6, <2>2, <3>2, Zenon DEF CommandReturns
    <3>3. CASE node[n].phase = "undoing"
      BY <1>6, <2>3, <3>3, Zenon DEF CommandReturns
    <3>4. CASE node[n].phase = "releasing"
      <4>1. Destructed(status) \in {"new", "released", "freed"}
        BY DEF Destructed
      <4>2. \E after \in AfterDelete(node[n], status, Destructed(status)) :
               node' = [node EXCEPT ![n] = after]
        BY <1>6, <3>4, Zenon DEF CommandReturns
      <4> QED BY <2>3, <4>1, <4>2
    <3> QED BY <1>6, <3>1, <3>2, <3>3, <3>4
  <2>5. caller' = [caller EXCEPT ![n] = IdleCaller] /\ IdleCaller.pc = "idle"
    BY <1>6 DEF Return, IdleCaller
  <2> QED BY <1>0, <2>4, <2>5
<1>7. ASSUME NEW n \in Callers, NodeCallerStep(n) PROVE NodesOK'
  <2>1. CASE (GetObject(n) \/ Send(n) \/ WaitAck(n) \/ WaitTimeout(n)) /\ UNCHANGED node
    <3>1. caller[n].pc # "idle" /\ \A d \in Callers : d # n => caller'[d] = caller[d]
      BY <2>1 DEF GetObject, Send, WaitAck, WaitTimeout, ChannelInv, ChannelTypeOK
    <3> QED BY <2>1, <3>1
  <2>2. ASSUME GetTimeout(n) \/ Expire(n) \/ SendFailed(n) \/ Finish(n)
        PROVE  caller[n].pc # "idle"
    BY <2>2 DEF GetTimeout, Expire, SendFailed, Finish
  <2> QED BY <1>6, <1>7, <2>1, <2>2 DEF NodeCallerStep, GetTimeout, Expire, SendFailed, Finish
<1>8. ASSUME NEW t \in Targets, NodeTaskStep(t) PROVE NodesOK'
  BY <1>8 DEF NodeTaskStep, ExecuteCommand, TaskTake, TaskDone, HandleAck
<1>9. CASE UNCHANGED kernel_vars
  BY <1>9 DEF kernel_vars, channel_vars
<1> QED BY <1>3, <1>4, <1>5, <1>7, <1>8, <1>9 DEF KNext

\* Type correctness; in particular target_kernel_index, which the target writes and reads
\* in memory it shares with the host, always indexes the table.
THEOREM KernelTypes == KSpec => []KernelsTypeOK
<1>1. KInit => NodesOK
  BY DEF KInit, Init, IdleCaller, NodesOK, NodeStates, Phases
<1>2. ChannelInv /\ NodesOK /\ [KNext]_kernel_vars => NodesOK'
  BY NodesStep
<1>3. ChannelInv /\ TableOK /\ NodesOK => KernelsTypeOK
  <2> SUFFICES ASSUME ChannelInv, TableOK, NodesOK PROVE KernelsTypeOK
    OBVIOUS
  <2>1. ASSUME NEW s \in Slots, instance[s] # FreeSlot
        PROVE  instance[s] \in [used : {TRUE}, kernel : {KernelOf[n] : n \in Callers},
                               node : Callers]
    <3>1. PICK n \in Callers : instance[s] = Entry(n)
      BY <2>1 DEF TableOK
    <3> QED BY <3>1 DEF Entry
  <2> QED BY <2>1 DEF ChannelInv, TableOK, NodesOK, NodeStates, Phases, KernelsTypeOK
<1> QED BY <1>1, <1>2, <1>3, TableInvariance, PTL DEF KSpec

\* When no two nodes of a target have the same kernel, an entry is freed only by a
\* command of the node it was filled in for (vx_target_kernel_instance.c, the search by
\* index and kernel_id).
THEOREM DeletesOwn ==
  ASSUME \A n, m \in Callers : KernelOf[n] = KernelOf[m] => n = m
  PROVE  KSpec => DeleteIsOwn
<1>1. ASSUME ChannelInv, TableOK, [KNext]_kernel_vars
      PROVE  [\A s \in Slots : instance[s].used /\ ~instance'[s].used =>
                \E t \in Targets : /\ task[t].busy /\ ~task'[t].busy
                                   /\ calls[task[t].call].by = instance[s].node]_kernel_vars
  <2>1. ASSUME NEW s \in Slots, instance[s].used, ~instance'[s].used
        PROVE  \E t \in Targets : /\ task[t].busy /\ ~task'[t].busy
                                  /\ calls[task[t].call].by = instance[s].node
    <3>1. PICK t \in Targets :
            /\ task[t].busy /\ ~task'[t].busy /\ calls[task[t].call].by \in Callers
            /\ instance[s].kernel = KernelOf[calls[task[t].call].by]
      BY <1>1, <2>1, TableStep
    <3>2. PICK m \in Callers : instance[s] = Entry(m)
      BY <1>1, <2>1 DEF TableOK, FreeSlot
    <3>3. calls[task[t].call].by = m
      BY <3>1, <3>2 DEF Entry
    <3> QED BY <3>1, <3>2, <3>3 DEF Entry
  <2> QED BY <2>1
<1> QED BY <1>1, TableInvariance, PTL DEF KSpec, DeleteIsOwn

-----------------------------------------------------------------------------
\* The commands a target has still to execute.

\* Descriptor o is queued as a command, or a task executes it.
OnItsWay(o) ==
    \E t \in Targets : (In(o, job_queue[t]) /\ ~desc[o].is_ack) \/ Executes(t, o)

Pending(k) == \E o \in Objects : OnItsWay(o) /\ desc[o].call = k

\* A command that is pending has no result yet, and its call may only have timed out.
LEMMA PendingCall ==
  ASSUME ChannelInv, NEW k, Pending(k)
  PROVE  /\ k \in 1 .. Len(calls) /\ calls[k].result = "none"
         /\ calls[k].answer \notin {"success", "failure", "error"}
         /\ \A c \in Callers : caller[c].pc # "idle" /\ caller[c].call = k =>
               caller[c].pc \in {"wait", "timed_out"}
<1>1. PICK o \in Objects : OnItsWay(o) /\ desc[o].call = k
  BY DEF Pending
<1>2. UnderWay(o) /\ Active(o)
  BY <1>1 DEF OnItsWay, UnderWay, Executes, Active
<1>3. k \in 1 .. Len(calls) /\ calls[k].result = "none" /\ calls[k].answer # "error"
  BY <1>1, <1>2 DEF ChannelInv, Progress, OnItsWay, NotRun
<1>4. ASSUME NEW c \in Callers, caller[c].pc # "idle", caller[c].call = k,
             caller[c].pc \notin {"wait", "timed_out"}
      PROVE  FALSE
  <2>1. CASE caller[c].pc \in {"get", "send"}
    BY <1>1, <1>2, <1>4, <2>1 DEF ChannelInv, CallersApart
  <2>2. CASE caller[c].pc = "acked"
    <3>1. caller[c].obj \in Objects /\ Sent(c, caller[c].obj)
      BY <2>2 DEF Sent, ChannelInv, ChannelTypeOK
    <3>2. desc[caller[c].obj].call = k /\ HasResult(caller[c].obj)
      BY <1>4, <2>2, <3>1 DEF ChannelInv, CallersApart, Progress
    <3> QED BY <1>3, <3>2 DEF HasResult
  <2>3. caller[c].pc \in {"idle", "get", "send", "wait", "acked", "timed_out"}
    BY DEF ChannelInv, ChannelTypeOK
  <2> QED BY <1>4, <2>1, <2>2, <2>3
<1> QED BY <1>3, <1>4 DEF ChannelInv, AnswerIsOwn

LEMMA PendingCallNext ==
  ASSUME ChannelInv', NEW k, Pending(k)'
  PROVE  /\ k \in 1 .. Len(calls') /\ calls'[k].result = "none"
         /\ calls'[k].answer # "error"
<1>1. PICK o \in Objects : OnItsWay(o)' /\ desc'[o].call = k
  BY DEF Pending
<1>2. UnderWay(o)'
  BY <1>1 DEF OnItsWay, UnderWay, Executes
<1> QED BY <1>1, <1>2 DEF ChannelInv, Progress, OnItsWay, NotRun

\* Only Send makes a command pending.
LEMMA PendingStep ==
  ASSUME ChannelInv, [Next]_channel_vars, NEW k, Pending(k)',
         \A c \in Callers : Send(c) => k # caller[c].call
  PROVE  Pending(k)
<1>1. PICK o \in Objects : OnItsWay(o)' /\ desc'[o].call = k
  BY DEF Pending
<1>2. PICK u \in Targets : (In(o, job_queue'[u]) /\ ~desc'[o].is_ack) \/ Executes(u, o)'
  BY <1>1 DEF OnItsWay
<1>3. CASE UNCHANGED <<desc, job_queue, task>>
  BY <1>1, <1>2, <1>3 DEF OnItsWay, Pending, Executes
<1>4. ASSUME NEW c \in Callers, SendFailed(c) PROVE Pending(k)
  <2>1. o # caller[c].obj
    <3>1. UnderWay(o)
      BY <1>2, <1>4 DEF SendFailed, UnderWay, Executes
    <3> QED BY <1>4, <3>1 DEF SendFailed, ChannelInv, OneHolder
  <2>2. desc'[o] = desc[o]
    BY <1>4, <2>1, FillsIn DEF SendFailed, ChannelInv
  <2> QED BY <1>1, <1>2, <1>4, <2>2 DEF SendFailed, OnItsWay, Pending, Executes
<1>5. ASSUME NEW c \in Callers, Send(c) PROVE Pending(k)
  <2>1. o # caller[c].obj
    BY <1>1, <1>5, FillsIn DEF Send, ChannelInv
  <2>2. desc'[o] = desc[o]
    BY <1>5, <2>1, FillsIn DEF Send, ChannelInv
  <2>3. In(o, job_queue'[u]) => In(o, job_queue[u])
    <3>1. /\ caller[c].obj \in Objects /\ job_queue[u] \in Seq(Objects)
          /\ job_queue'[u] \in {job_queue[u], Append(job_queue[u], caller[c].obj)}
      BY <1>5 DEF Send, Enqueued, ChannelInv, ChannelTypeOK
    <3>2. In(o, Append(job_queue[u], caller[c].obj)) <=> In(o, job_queue[u]) \/ o = caller[c].obj
      BY <3>1, AppendIn
    <3> QED BY <2>1, <3>1, <3>2
  <2> QED BY <1>1, <1>2, <1>5, <2>2, <2>3 DEF Send, OnItsWay, Pending, Executes
<1>6. ASSUME NEW t \in Targets, TaskTake(t) PROVE Pending(k)
  <2> DEFINE h == Head(job_queue[t])
  <2>1. /\ h \in Objects /\ In(h, job_queue[t]) /\ ~desc[h].is_ack
        /\ In(o, job_queue'[u]) => In(o, job_queue[u])
    BY <1>6, TakenFromQueue DEF TaskTake
  <2>2. Executes(u, o)' => Executes(u, o) \/ o = h
    BY <1>6 DEF TaskTake, Executes, ChannelInv, ChannelTypeOK
  <2>3. OnItsWay(o)
    BY <1>2, <1>6, <2>1, <2>2 DEF TaskTake, OnItsWay
  <2> QED BY <1>1, <1>6, <2>3 DEF TaskTake, Pending
<1>7. ASSUME NEW t \in Targets, NEW result \in {"ok", "fail"}, TaskDone(t, result)
      PROVE  Pending(k)
  <2> DEFINE h == task[t].obj
  <2>1. h \in Objects /\ Host \in Targets
    BY ChannelAssumption DEF ChannelInv, ChannelTypeOK
  <2>2. /\ desc'[h].is_ack /\ \A p \in Objects : desc'[p].call = desc[p].call
        /\ \A p \in Objects : p # h => desc'[p] = desc[p]
    BY <1>7, <2>1 DEF TaskDone, ChannelInv, ChannelTypeOK
  <2>3. Executes(u, o)' => Executes(u, o)
    BY <1>7 DEF TaskDone, Executes, IdleTask, ChannelInv, ChannelTypeOK
  <2>4. In(o, job_queue'[u]) => In(o, job_queue[u]) \/ o = h
    <3>1. /\ job_queue[u] \in Seq(Objects)
          /\ job_queue'[u] \in {job_queue[u], Append(job_queue[u], h)}
      BY <1>7, <2>1 DEF TaskDone, Enqueued, ChannelInv, ChannelTypeOK
    <3>2. In(o, Append(job_queue[u], h)) <=> In(o, job_queue[u]) \/ o = h
      BY <2>1, <3>1, AppendIn
    <3> QED BY <3>1, <3>2
  <2> QED BY <1>1, <1>2, <2>2, <2>3, <2>4 DEF OnItsWay, Pending
<1>8. ASSUME NEW t \in Targets, HandleAck(t) PROVE Pending(k)
  <2> DEFINE h == Head(job_queue[t])
  <2>1. h \in Objects /\ (In(o, job_queue'[u]) => In(o, job_queue[u]) /\ o # h)
        /\ ~Executes(u, h)
    BY <1>8, TakenFromQueue DEF HandleAck
  <2>2. \A p \in Objects : p # h => desc'[p] = desc[p]
    BY <1>8, <2>1 DEF HandleAck, ChannelInv, ChannelTypeOK
  <2> QED BY <1>1, <1>2, <1>8, <2>1, <2>2 DEF HandleAck, OnItsWay, Pending, Executes
<1>9. ASSUME NEW c \in Callers, CallerStep(c), ~Send(c), ~SendFailed(c)
      PROVE  UNCHANGED <<desc, job_queue, task>>
  BY <1>9 DEF CallerStep, GetObject, GetTimeout, WaitAck, WaitTimeout, Finish, Expire
<1>10. ASSUME NEW c \in Callers, NEW t \in Targets, NEW m \in Commands, SendCmd(c, t, m)
       PROVE  UNCHANGED <<desc, job_queue, task>>
  BY <1>10 DEF SendCmd
<1>11. CASE UNCHANGED channel_vars
  BY <1>3, <1>11 DEF channel_vars
<1> QED BY <1>3, <1>4, <1>5, <1>6, <1>7, <1>8, <1>9, <1>10, <1>11 DEF Next, TaskStep

-----------------------------------------------------------------------------
\* What the steps change of the calls.

\* A call keeps its thread, target and command.
SameCall(k) ==
    /\ k \in 1 .. Len(calls')
    /\ calls'[k].by = calls[k].by /\ calls'[k].dst = calls[k].dst
    /\ calls'[k].cmd = calls[k].cmd

LEMMA NewCall ==
  ASSUME ChannelInv, NEW c \in Callers, NEW t \in Targets, NEW m \in Commands, SendCmd(c, t, m)
  PROVE  /\ Len(calls) \in Nat /\ Len(calls') = Len(calls) + 1
         /\ calls'[Len(calls) + 1] = [by |-> c, dst |-> t, cmd |-> m, runs |-> 0,
                                      result |-> "none", answer |-> "none"]
         /\ \A k \in 1 .. Len(calls) : SameCall(k) /\ calls'[k] = calls[k]
         /\ caller[c].pc = "idle" /\ caller'[c].pc = "get" /\ caller'[c].call = Len(calls) + 1
         /\ \A d \in Callers : d # c => caller'[d] = caller[d]
         /\ UNCHANGED task
<1>1. calls \in Seq(Call) /\ Len(calls) \in Nat
  BY LenProperties DEF ChannelInv, ChannelTypeOK, Call
<1>2. /\ calls' = Append(calls, [by |-> c, dst |-> t, cmd |-> m, runs |-> 0,
                                 result |-> "none", answer |-> "none"])
      /\ caller' = [caller EXCEPT ![c] = [pc |-> "get", obj |-> 0, call |-> Len(calls) + 1]]
      /\ caller[c].pc = "idle" /\ UNCHANGED task
  BY DEF SendCmd
<1>3. /\ [by |-> c, dst |-> t, cmd |-> m, runs |-> 0, result |-> "none",
          answer |-> "none"] \in Call
  BY DEF Call, Statuses, Answers
<1>4. /\ Len(calls') = Len(calls) + 1
      /\ calls'[Len(calls) + 1] = [by |-> c, dst |-> t, cmd |-> m, runs |-> 0,
                                   result |-> "none", answer |-> "none"]
      /\ \A k \in 1 .. Len(calls) : calls'[k] = calls[k]
  BY <1>1, <1>2, <1>3, AppendProperties
<1>5. \A k \in 1 .. Len(calls) : SameCall(k)
  BY <1>1, <1>4 DEF SameCall
<1>6. /\ caller'[c] = [pc |-> "get", obj |-> 0, call |-> Len(calls) + 1]
      /\ \A d \in Callers : d # c => caller'[d] = caller[d]
  BY <1>2, UpdateCaller DEF ChannelInv
<1> QED BY <1>1, <1>2, <1>4, <1>5, <1>6

LEMMA ReturnedCall ==
  ASSUME ChannelInv, NEW c \in Callers, caller[c].pc # "idle", NEW status \in Answers,
         Return(c, status)
  PROVE  /\ caller[c].call \in 1 .. Len(calls) /\ Len(calls') = Len(calls)
         /\ calls'[caller[c].call].answer = status
         /\ \A k \in 1 .. Len(calls) : /\ SameCall(k) /\ calls'[k].result = calls[k].result
                                       /\ k # caller[c].call => calls'[k] = calls[k]
         /\ caller'[c] = IdleCaller
         /\ \A d \in Callers : d # c => caller'[d] = caller[d]
<1>1. calls \in Seq(Call) /\ caller[c].call \in 1 .. Len(calls)
  BY DEF ChannelInv, ChannelTypeOK, CallersApart, Call
<1>2. calls[caller[c].call] \in Call
  BY <1>1, ElementOfSeq
<1>3. [calls[caller[c].call] EXCEPT !.answer = status] \in Call
  BY <1>2 DEF Call
<1>4. /\ Len(calls') = Len(calls)
      /\ calls'[caller[c].call] = [calls[caller[c].call] EXCEPT !.answer = status]
      /\ \A k \in 1 .. Len(calls) : k # caller[c].call => calls'[k] = calls[k]
  BY <1>1, <1>3, UpdateCall DEF Return
<1>5. /\ calls'[caller[c].call].answer = status /\ SameCall(caller[c].call)
      /\ calls'[caller[c].call].result = calls[caller[c].call].result
  BY <1>1, <1>2, <1>4 DEF SameCall, Call
<1>6. \A k \in 1 .. Len(calls) : SameCall(k) /\ calls'[k].result = calls[k].result
  BY <1>4, <1>5 DEF SameCall
<1> QED BY <1>1, <1>4, <1>5, <1>6, UpdateCaller DEF Return, ChannelInv

LEMMA TakenCall ==
  ASSUME ChannelInv, NEW t \in Targets, TaskTake(t)
  PROVE  /\ Len(calls') = Len(calls) /\ UNCHANGED caller
         /\ \A k \in 1 .. Len(calls) : /\ SameCall(k) /\ calls'[k].result = calls[k].result
                                       /\ calls'[k].answer = calls[k].answer
         /\ task'[t].call = CallAt(t, 1) /\ Brings(t, 1) /\ 1 \in 1 .. Len(job_queue[t])
         /\ \A u \in Targets : u # t => task'[u] = task[u]
<1>1. job_queue[t] \in Seq(Objects) /\ job_queue[t] # <<>>
  BY DEF ChannelInv, ChannelTypeOK, TaskTake
<1>2. Head(job_queue[t]) = job_queue[t][1] /\ 1 \in 1 .. Len(job_queue[t])
  BY <1>1, EmptySeq, LenProperties
<1>3. CallAt(t, 1) \in 1 .. Len(calls)
  BY <1>2, BringsCall
<1>4. /\ calls' = [calls EXCEPT ![CallAt(t, 1)] =
                      [calls[CallAt(t, 1)] EXCEPT !.runs = calls[CallAt(t, 1)].runs + 1]]
      /\ task'[t].call = CallAt(t, 1) /\ Brings(t, 1) /\ UNCHANGED caller
      /\ \A u \in Targets : u # t => task'[u] = task[u]
  BY <1>1, <1>2 DEF TaskTake, Brings, CallAt, ChannelInv, ChannelTypeOK
<1>5. calls \in Seq(Call)
  BY DEF ChannelInv, ChannelTypeOK, Call
<1>6. PICK k \in 1 .. Len(calls) : k = CallAt(t, 1)
  BY <1>3
<1>7. calls[k] \in Call
  BY <1>5, ElementOfSeq
<1>8. [calls[k] EXCEPT !.runs = calls[k].runs + 1] \in Call
  BY <1>7 DEF Call
<1>9. /\ Len(calls') = Len(calls)
      /\ calls'[k] = [calls[k] EXCEPT !.runs = calls[k].runs + 1]
      /\ \A j \in 1 .. Len(calls) : j # k => calls'[j] = calls[j]
  BY <1>4, <1>5, <1>6, <1>8, UpdateCall
<1>10. /\ SameCall(k) /\ calls'[k].result = calls[k].result
       /\ calls'[k].answer = calls[k].answer
  BY <1>7, <1>9 DEF SameCall, Call
<1>11. \A j \in 1 .. Len(calls) : /\ SameCall(j) /\ calls'[j].result = calls[j].result
                                  /\ calls'[j].answer = calls[j].answer
  BY <1>9, <1>10 DEF SameCall
<1> QED BY <1>2, <1>4, <1>9, <1>11

LEMMA DoneCall ==
  ASSUME ChannelInv, NEW t \in Targets, NEW result \in {"ok", "fail"}, TaskDone(t, result)
  PROVE  /\ task[t].call \in 1 .. Len(calls) /\ Len(calls') = Len(calls) /\ UNCHANGED caller
         /\ Pending(task[t].call) /\ calls[task[t].call].runs = 1
         /\ calls'[task[t].call].result = result
         /\ \A k \in 1 .. Len(calls) : /\ SameCall(k) /\ calls'[k].answer = calls[k].answer
                                       /\ k # task[t].call => calls'[k] = calls[k]
         /\ task[t].busy /\ ~task'[t].busy
         /\ \A u \in Targets : u # t => task'[u] = task[u]
<1>1. task[t].obj \in Objects /\ Executes(t, task[t].obj)
  BY DEF ChannelInv, ChannelTypeOK, TaskDone, Executes
<1>2. PICK k \in 1 .. Len(calls) : k = task[t].call /\ Pending(k) /\ calls[k].runs = 1
  BY <1>1 DEF ChannelInv, Progress, UnderWay, Executes, Pending, OnItsWay
<1>3. calls \in Seq(Call)
  BY DEF ChannelInv, ChannelTypeOK, Call
<1>4. calls[k] \in Call
  BY <1>3, ElementOfSeq
<1>5. [calls[k] EXCEPT !.result = result] \in Call
  BY <1>4 DEF Call, Statuses
<1>6. /\ Len(calls') = Len(calls)
      /\ calls'[k] = [calls[k] EXCEPT !.result = result]
      /\ \A j \in 1 .. Len(calls) : j # k => calls'[j] = calls[j]
  BY <1>2, <1>3, <1>5, UpdateCall DEF TaskDone
<1>7. SameCall(k) /\ calls'[k].result = result /\ calls'[k].answer = calls[k].answer
  BY <1>4, <1>6 DEF SameCall, Call
<1>8. \A j \in 1 .. Len(calls) : SameCall(j) /\ calls'[j].answer = calls[j].answer
  BY <1>6, <1>7 DEF SameCall
<1>9. /\ task[t].busy /\ ~task'[t].busy /\ UNCHANGED caller
      /\ \A u \in Targets : u # t => task'[u] = task[u]
  BY DEF TaskDone, IdleTask, ChannelInv, ChannelTypeOK
<1> QED BY <1>2, <1>6, <1>7, <1>8, <1>9

LEMMA InCallStep ==
  ASSUME ChannelInv, NEW c \in Callers,
         GetObject(c) \/ Send(c) \/ WaitAck(c) \/ WaitTimeout(c)
  PROVE  /\ caller[c].pc # "idle" /\ caller'[c].pc # "idle"
         /\ caller'[c].call = caller[c].call
         /\ \A d \in Callers : d # c => caller'[d] = caller[d]
         /\ UNCHANGED <<calls, task>>
<1>1. caller[c] \in [pc : {"idle", "get", "send", "wait", "acked", "timed_out"},
                    obj : Objects, call : 0 .. Len(calls)]
  BY DEF ChannelInv, ChannelTypeOK
<1>2. \E s : /\ caller' = [caller EXCEPT ![c] = s] /\ s.call = caller[c].call
             /\ s.pc # "idle"
  <2>1. CASE GetObject(c)
    <3> WITNESS [caller[c] EXCEPT !.pc = "send", !.obj = Head(free_queue)]
    <3> QED BY <1>1, <2>1 DEF GetObject
  <2>2. CASE Send(c)
    <3> WITNESS [caller[c] EXCEPT !.pc = "wait"]
    <3> QED BY <1>1, <2>2 DEF Send
  <2>3. CASE WaitAck(c)
    <3> WITNESS [caller[c] EXCEPT !.pc = "acked"]
    <3> QED BY <1>1, <2>3 DEF WaitAck
  <2>4. CASE WaitTimeout(c)
    <3> WITNESS [caller[c] EXCEPT !.pc = "timed_out"]
    <3> QED BY <1>1, <2>4 DEF WaitTimeout
  <2> QED BY <2>1, <2>2, <2>3, <2>4
<1>3. caller[c].pc # "idle" /\ UNCHANGED <<calls, task>>
  BY DEF GetObject, Send, WaitAck, WaitTimeout
<1> QED BY <1>2, <1>3, UpdateCaller DEF ChannelInv

-----------------------------------------------------------------------------
\* A node's commands all go to the node's target, which executes them itself, and a
\* call without an answer is the one its thread is in.
CallsOK ==
    /\ \A k \in 1 .. Len(calls) :
         /\ calls[k].by \in Callers /\ calls[k].dst = TargetOf[calls[k].by]
         /\ calls[k].answer = "none" =>
               caller[calls[k].by].pc # "idle" /\ caller[calls[k].by].call = k
    /\ \A t \in Targets : task[t].busy =>
         task[t].call \in 1 .. Len(calls) /\ calls[task[t].call].dst = t

\* The four ways in which a call returns.
LEMMA ReturnKinds ==
  ASSUME ChannelInv, NEW c \in Callers,
         GetTimeout(c) \/ Expire(c) \/ SendFailed(c) \/ Finish(c)
  PROVE  /\ caller[c].pc # "idle" /\ UNCHANGED <<job_queue, task>>
         /\ \E status \in Answers \ {"none"} : Return(c, status)
  BY DEF GetTimeout, Expire, SendFailed, Finish, AckStatus, Answers

LEMMA CallsStep ==
  ASSUME ChannelInv, QueueOrder, CallsOK, [KNext]_kernel_vars
  PROVE  CallsOK'
<1>0. ASSUME UNCHANGED <<calls, caller, task>> PROVE CallsOK'
  BY <1>0 DEF CallsOK
<1>1. ASSUME NEW n \in Callers, NEW m \in Commands, SendCmd(n, TargetOf[n], m) PROVE CallsOK'
  <2>1. TargetOf[n] \in Targets
    BY KernelsAssumption
  <2>2. /\ Len(calls) \in Nat /\ Len(calls') = Len(calls) + 1 /\ UNCHANGED task
        /\ calls'[Len(calls) + 1] = [by |-> n, dst |-> TargetOf[n], cmd |-> m, runs |-> 0,
                                     result |-> "none", answer |-> "none"]
        /\ \A k \in 1 .. Len(calls) : calls'[k] = calls[k]
        /\ caller[n].pc = "idle" /\ caller'[n].pc = "get" /\ caller'[n].call = Len(calls) + 1
        /\ \A d \in Callers : d # n => caller'[d] = caller[d]
    BY <1>1, <2>1, NewCall
  <2>3. ASSUME NEW k \in 1 .. Len(calls')
        PROVE  /\ calls'[k].by \in Callers /\ calls'[k].dst = TargetOf[calls'[k].by]
               /\ calls'[k].answer = "none" =>
                     caller'[calls'[k].by].pc # "idle" /\ caller'[calls'[k].by].call = k
    <3>1. CASE k = Len(calls) + 1
      BY <2>2, <3>1
    <3>2. CASE k \in 1 .. Len(calls)
      BY <2>2, <3>2 DEF CallsOK
    <3> QED BY <2>2, <3>1, <3>2
  <2> QED BY <2>2, <2>3 DEF CallsOK
<1>2. ASSUME NEW n \in Callers, caller[n].pc # "idle", NEW status \in Answers \ {"none"},
             Return(n, status), UNCHANGED task
      PROVE  CallsOK'
  <2>1. /\ Len(calls') = Len(calls) /\ calls'[caller[n].call].answer = status
        /\ calls[caller[n].call].by = n
        /\ \A k \in 1 .. Len(calls) : SameCall(k)
        /\ \A k \in 1 .. Len(calls) : k # caller[n].call => calls'[k] = calls[k]
        /\ \A d \in Callers : d # n => caller'[d] = caller[d]
    BY <1>2, ReturnedCall DEF ChannelInv, CallersApart
  <2> QED BY <1>2, <2>1 DEF CallsOK, SameCall
<1>3. ASSUME NEW t \in Targets, TaskTake(t) PROVE CallsOK'
  <2>1. /\ Len(calls') = Len(calls) /\ UNCHANGED caller
        /\ \A k \in 1 .. Len(calls) : SameCall(k) /\ calls'[k].answer = calls[k].answer
        /\ task'[t].call = CallAt(t, 1) /\ Brings(t, 1) /\ 1 \in 1 .. Len(job_queue[t])
        /\ \A u \in Targets : u # t => task'[u] = task[u]
    BY <1>3, TakenCall
  <2>2. task'[t].call \in 1 .. Len(calls) /\ calls[task'[t].call].dst = t
    BY <2>1, BringsCall DEF QueueOrder
  <2> QED BY <2>1, <2>2 DEF CallsOK, SameCall
<1>4. ASSUME NEW t \in Targets, NEW result \in {"ok", "fail"}, TaskDone(t, result) PROVE CallsOK'
  <2>1. /\ Len(calls') = Len(calls) /\ UNCHANGED caller /\ ~task'[t].busy
        /\ \A k \in 1 .. Len(calls) : SameCall(k) /\ calls'[k].answer = calls[k].answer
        /\ \A u \in Targets : u # t => task'[u] = task[u]
    BY <1>4, DoneCall
  <2> QED BY <2>1 DEF CallsOK, SameCall
<1>5. ASSUME NEW t \in Targets, HandleAck(t) PROVE CallsOK'
  BY <1>0, <1>5 DEF HandleAck
<1>6. ASSUME NEW n \in Callers, NodeCallerStep(n) PROVE CallsOK'
  <2>1. CASE GetObject(n) \/ Send(n) \/ WaitAck(n) \/ WaitTimeout(n)
    BY <2>1, InCallStep DEF CallsOK
  <2>2. CASE GetTimeout(n) \/ Expire(n) \/ SendFailed(n) \/ Finish(n)
    BY <1>2, <2>2, ReturnKinds
  <2> QED BY <1>6, <2>1, <2>2 DEF NodeCallerStep
<1>7. ASSUME UNCHANGED channel_vars PROVE CallsOK'
  BY <1>0, <1>7 DEF channel_vars
<1>8. "create" \in Commands /\ "control" \in Commands /\ "delete" \in Commands
  BY KernelsAssumption
<1>9. ASSUME NEW n \in Callers,
             VerifyNode(n) \/ ControlNode(n) \/ UndoVerify(n) \/ ReleaseNode(n)
      PROVE  CallsOK'
  BY <1>1, <1>7, <1>8, <1>9 DEF VerifyNode, ControlNode, UndoVerify, ReleaseNode, KernelDeinit, Sends
<1>10. ASSUME NEW t \in Targets, NodeTaskStep(t) PROVE CallsOK'
  BY <1>3, <1>4, <1>5, <1>10 DEF NodeTaskStep, ExecuteCommand
<1>11. CASE UNCHANGED kernel_vars
  BY <1>7, <1>11 DEF kernel_vars
<1> QED BY <1>6, <1>9, <1>10, <1>11 DEF KNext

\* When a target has executed the command of the call its thread is in, it has executed
\* all that the thread sent before.
LEMMA LastIsDone ==
  ASSUME ChannelInv, ChannelInv', QueueOrder, CallsOK, NEW t \in Targets,
         NEW result \in {"ok", "fail"}, TaskDone(t, result), [Next]_channel_vars,
         calls[task[t].call].answer = "none",
         NEW j, Pending(j)'
  PROVE  calls[j].by # calls[task[t].call].by
<1> SUFFICES ASSUME calls[j].by = calls[task[t].call].by PROVE FALSE
  OBVIOUS
<1>1. PICK k \in 1 .. Len(calls) : /\ k = task[t].call /\ calls'[k].result = result
                                   /\ calls[k].runs = 1 /\ task[t].busy
  BY DoneCall
<1>2. Pending(j)
  <2>1. \A c \in Callers : ~Send(c)
    <3>1. task[t].busy /\ ~task'[t].busy
      BY DoneCall
    <3> QED BY <3>1 DEF Send
  <2> QED BY <2>1, PendingStep
<1>3. j \in 1 .. Len(calls)
  BY <1>2, PendingCall
<1>4. j # k
  <2>1. calls'[j].result = "none"
    BY PendingCallNext
  <2> QED BY <1>1, <2>1
<1>5. j <= k /\ calls[k].dst = t /\ calls[j].dst = t
  BY <1>1, <1>3 DEF CallsOK, QueueOrder
<1>6. SameWay(j, k)
  BY <1>1, <1>5 DEF SameWay
<1>7. PICK o \in Objects : OnItsWay(o) /\ desc[o].call = j
  BY <1>2 DEF Pending
<1>8. ASSUME NEW u \in Targets, In(o, job_queue[u]), ~desc[o].is_ack PROVE FALSE
  <2>1. PICK i \in 1 .. Len(job_queue[u]) : job_queue[u][i] = o
    BY <1>8 DEF In
  <2>2. Brings(u, i) /\ CallAt(u, i) = j
    BY <1>7, <1>8, <2>1 DEF Brings, CallAt
  <2>3. k <= j
    BY <1>1, <1>6, <2>2 DEF QueueOrder
  <2> QED BY <1>3, <1>4, <1>5, <2>3
<1>9. ASSUME NEW u \in Targets, Executes(u, o) PROVE FALSE
  <2>1. task[u].busy /\ task[u].call = j
    BY <1>7, <1>9 DEF ChannelInv, Progress, Executes
  <2>2. u = t
    BY <1>5, <2>1 DEF CallsOK
  <2> QED BY <1>1, <1>4, <2>1, <2>2
<1> QED BY <1>7, <1>8, <1>9 DEF OnItsWay

-----------------------------------------------------------------------------
\* Every node has one kernel of its own.
Apart == \A n, m \in Callers : KernelOf[n] = KernelOf[m] => n = m

\* The commands m of node n that a target has still to execute.
PendingOf(n, m) ==
    {k \in 1 .. Len(calls) : calls[k].by = n /\ calls[k].cmd = m /\ Pending(k)}

NoInstance(n) == \A s \in Slots : instance[s].used => instance[s].node # n
AtIndex(n) ==
    \A s \in Slots : instance[s].used /\ instance[s].node = n => s = target_kernel_index[n]
Backed(n) == LET entry == instance[target_kernel_index[n]] IN entry.used /\ entry.node = n

\* The target has still to execute some commands of node n, or none at all.
Kinds == {"create", "control", "delete"}
Unused(n) == \A m \in Kinds : PendingOf(n, m) = {}

\* Nothing of node n is on the target, nor will be.
Clean(n) == NoInstance(n) /\ PendingOf(n, "create") = {}

\* Each DELETE of node n was answered, or may still be.
Orderly(n) ==
    \A k \in 1 .. Len(calls) : calls[k].by = n /\ calls[k].cmd = "delete"
                               => calls[k].answer \in {"none", "success", "failure"}

\* No DELETE of node n was answered as failed.
Faithful(n) ==
    \A k \in 1 .. Len(calls) : calls[k].by = n /\ calls[k].cmd = "delete"
                               => calls[k].answer # "failure"

\* The command that the thread of node n is in.
Sending == {"creating", "controlling", "undoing", "releasing"}
CommandOf == [creating |-> "create", controlling |-> "control", undoing |-> "delete",
              releasing |-> "delete"]

PhaseOK(n) ==
    /\ caller[n].pc = "idle" <=> node[n].phase \notin Sending
    /\ node[n].phase \in Sending => calls[caller[n].call].cmd = CommandOf[node[n].phase]
    /\ node[n].phase = "creating" => ~node[n].created
    /\ node[n].phase \in {"verified", "controlling"} => node[n].created

\* A node has at most one instance, which it can find, or one CREATE that will make it;
\* none of them when there is nothing left for the node to delete.
NoLeak(n) ==
    /\ AtIndex(n)
    /\ PendingOf(n, "create") # {} => NoInstance(n)
    /\ \A j, k \in PendingOf(n, "create") : j = k
    /\ node[n].phase \in {"new", "released", "freed"} => Clean(n)
    /\ node[n].phase = "failed" /\ ~node[n].created /\ ~node[n].timed_out => Clean(n)
    /\ node[n].phase = "creating" =>
         /\ PendingOf(n, "create") \subseteq {caller[n].call}
         /\ calls[caller[n].call].result # "ok" => NoInstance(n)
    /\ node[n].phase \in {"undoing", "releasing"} /\ calls[caller[n].call].result # "none"
         => Clean(n)

\* A kernel that counts as created is there, and no command is left that could change
\* that but the one the thread is in.
Backing(n) ==
    /\ node[n].created /\ node[n].phase \in {"new", "failed", "verified", "controlling"} =>
         Backed(n) /\ PendingOf(n, "create") = {} /\ PendingOf(n, "delete") = {}
    /\ /\ node[n].created /\ node[n].phase \in {"undoing", "releasing"}
       /\ calls[caller[n].call].result = "none"
       => /\ Backed(n) /\ PendingOf(n, "create") = {}
          /\ PendingOf(n, "delete") \subseteq {caller[n].call}
    /\ node[n].phase = "creating" /\ calls[caller[n].call].result = "ok" =>
         Backed(n) /\ PendingOf(n, "create") = {} /\ PendingOf(n, "delete") = {}

\* A command that timed out is pending only as long as the node knows that it may have
\* something to delete, or until its DELETE has a result.
Quiet(n) ==
    /\ node[n].phase = "freed" => Unused(n)
    /\ node[n].phase \in {"new", "failed"} /\ ~node[n].created /\ ~node[n].timed_out => Unused(n)
    /\ node[n].phase = "creating" /\ ~node[n].timed_out =>
         \A m \in Kinds : PendingOf(n, m) \subseteq {caller[n].call}
    /\ node[n].phase \in {"undoing", "releasing"} =>
         /\ node[n].created \/ node[n].timed_out
         /\ calls[caller[n].call].result # "none" => Unused(n)

NodeInv(n) ==
    /\ PhaseOK(n) /\ Quiet(n)
    /\ Orderly(n) => NoLeak(n)
    /\ Apart /\ Faithful(n) => Backing(n)

-----------------------------------------------------------------------------
\* The commands and the instances of a node in the steps.

LEMMA PendingShrinks ==
  ASSUME ChannelInv, [Next]_channel_vars, \A k \in 1 .. Len(calls) : SameCall(k),
         NEW n \in Callers, NEW m
  PROVE  \A k \in PendingOf(n, m)' : k \in PendingOf(n, m) \/ (Send(n) /\ k = caller[n].call)
<1> SUFFICES ASSUME NEW k \in 1 .. Len(calls'), calls'[k].by = n, calls'[k].cmd = m, Pending(k)',
                    ~(Send(n) /\ k = caller[n].call)
             PROVE  k \in PendingOf(n, m)
  BY DEF PendingOf
<1>1. \A c \in Callers : Send(c) => k # caller[c].call
  <2> SUFFICES ASSUME NEW c \in Callers, Send(c), k = caller[c].call PROVE FALSE
    OBVIOUS
  <2>1. caller[c].call \in 1 .. Len(calls) /\ calls[caller[c].call].by = c
    BY DEF Send, ChannelInv, CallersApart
  <2> QED BY <2>1 DEF SameCall
<1>2. Pending(k)
  BY <1>1, PendingStep
<1>3. k \in 1 .. Len(calls)
  BY <1>2, PendingCall
<1> QED BY <1>2, <1>3 DEF PendingOf, SameCall

\* The table is left alone.
LEMMA SameTable ==
  ASSUME UNCHANGED <<target_kernel_index, instance>>, NEW n
  PROVE  /\ NoInstance(n)' <=> NoInstance(n)
         /\ AtIndex(n)' <=> AtIndex(n)
         /\ Backed(n)' <=> Backed(n)
  BY DEF NoInstance, AtIndex, Backed

LEMMA PhaseCommand ==
  ASSUME NEW n \in Callers, PhaseOK(n), node[n].phase \in Sending
  PROVE  /\ caller[n].pc # "idle"
         /\ calls[caller[n].call].cmd = "create" <=> node[n].phase = "creating"
         /\ calls[caller[n].call].cmd = "control" <=> node[n].phase = "controlling"
         /\ calls[caller[n].call].cmd = "delete" <=> node[n].phase \in {"undoing", "releasing"}
<1>1. caller[n].pc # "idle" /\ calls[caller[n].call].cmd = CommandOf[node[n].phase]
  BY DEF PhaseOK
<1>2. /\ CommandOf["creating"] = "create" /\ CommandOf["controlling"] = "control"
      /\ CommandOf["undoing"] = "delete" /\ CommandOf["releasing"] = "delete"
  BY DEF CommandOf
<1> QED BY <1>1, <1>2 DEF Sending

\* A step that is none of node n's.
LEMMA NodeKept ==
  ASSUME NEW n \in Callers, NodeInv(n), node'[n] = node[n],
         caller'[n].pc = "idle" <=> caller[n].pc = "idle",
         caller'[n].call = caller[n].call,
         node[n].phase \in Sending => calls'[caller[n].call].cmd = calls[caller[n].call].cmd,
         node[n].phase \in {"creating", "undoing", "releasing"} =>
            calls'[caller[n].call].result = calls[caller[n].call].result,
         Orderly(n)' => Orderly(n), Faithful(n)' => Faithful(n),
         \A m \in Kinds : PendingOf(n, m)' \subseteq PendingOf(n, m),
         NoInstance(n) => NoInstance(n)', AtIndex(n) => AtIndex(n)',
         Apart /\ Backed(n) => Backed(n)'
  PROVE  NodeInv(n)'
<1>1. PhaseOK(n)'
  BY DEF NodeInv, PhaseOK
<1>2. Orderly(n)' => NoLeak(n)'
  BY DEF NodeInv, NoLeak, Clean, Sending, Kinds
<1>3. Apart /\ Faithful(n)' => Backing(n)'
  BY DEF NodeInv, Backing, Sending, Kinds
<1>4. Quiet(n)'
  BY DEF NodeInv, Quiet, Unused
<1> QED BY <1>1, <1>2, <1>3, <1>4 DEF NodeInv

LEMMA OtherKept ==
  ASSUME ChannelInv, [Next]_channel_vars, NEW n \in Callers, NodeInv(n),
         node'[n] = node[n], caller'[n] = caller[n],
         \A k \in 1 .. Len(calls) :
            /\ SameCall(k)
            /\ calls[k].by = n => /\ calls'[k].answer = calls[k].answer
                                  /\ calls'[k].result = calls[k].result,
         NoInstance(n) => NoInstance(n)', AtIndex(n) => AtIndex(n)',
         Apart /\ Backed(n) => Backed(n)'
  PROVE  NodeInv(n)'
<1>1. ~Send(n)
  <2> SUFFICES ASSUME Send(n) PROVE FALSE
    OBVIOUS
  <2>1. caller'[n] = [caller[n] EXCEPT !.pc = "wait"] /\ caller[n].pc = "send"
    BY UpdateCaller DEF Send, ChannelInv
  <2>2. caller[n] \in [pc : {"idle", "get", "send", "wait", "acked", "timed_out"},
                       obj : Objects, call : 0 .. Len(calls)]
    BY DEF ChannelInv, ChannelTypeOK
  <2> QED BY <2>1, <2>2
<1>2. \A m \in Kinds : PendingOf(n, m)' \subseteq PendingOf(n, m)
  BY <1>1, PendingShrinks
<1>3. (Orderly(n)' => Orderly(n)) /\ (Faithful(n)' => Faithful(n))
  BY DEF Orderly, Faithful, SameCall
<1>4. node[n].phase \in Sending =>
        /\ calls'[caller[n].call].cmd = calls[caller[n].call].cmd
        /\ calls'[caller[n].call].result = calls[caller[n].call].result
  <2> HAVE node[n].phase \in Sending
  <2>1. caller[n].pc # "idle"
    BY DEF NodeInv, PhaseOK
  <2> QED BY <2>1 DEF ChannelInv, CallersApart, SameCall
<1>5. {"creating", "undoing", "releasing"} \subseteq Sending
  BY DEF Sending
<1> QED BY <1>2, <1>3, <1>4, <1>5, NodeKept

-----------------------------------------------------------------------------
\* The steps of a node's thread.

LEMMA BeginStep ==
  ASSUME ChannelInv, [Next]_channel_vars, NEW n \in Callers, NodeInv(n),
         node \in [Callers -> NodeStates], NEW m \in Commands, NEW phase,
         Sends(n, m, phase), UNCHANGED <<target_kernel_index, instance>>,
         \/ node[n].phase = "new" /\ ~node[n].created /\ m = "create" /\ phase = "creating"
         \/ node[n].phase = "verified" /\ m = "control" /\ phase = "controlling"
         \/ /\ node[n].phase \in {"new", "failed", "verified"} /\ MayExist(n)
            /\ m = "delete" /\ phase \in {"undoing", "releasing"}
  PROVE  NodeInv(n)'
<1> DEFINE k == Len(calls) + 1
<1>1. /\ k \in Nat /\ Len(calls') = k /\ caller'[n].pc = "get" /\ caller'[n].call = k
      /\ calls'[k] = [by |-> n, dst |-> TargetOf[n], cmd |-> m, runs |-> 0,
                      result |-> "none", answer |-> "none"]
      /\ \A j \in 1 .. Len(calls) : SameCall(j) /\ calls'[j] = calls[j]
      /\ caller[n].pc = "idle"
  <2>1. TargetOf[n] \in Targets
    BY KernelsAssumption
  <2> QED BY <2>1, NewCall DEF Sends
<1>2. \A c \in Kinds : PendingOf(n, c)' \subseteq PendingOf(n, c)
  BY <1>1, PendingShrinks DEF Send
<1>3. (Orderly(n)' => Orderly(n)) /\ (Faithful(n)' => Faithful(n))
  BY <1>1 DEF Orderly, Faithful
<1>4. node' = [node EXCEPT ![n] = [node[n] EXCEPT !.phase = phase]]
  BY DEF Sends
<1>5. /\ node'[n].phase = phase /\ node'[n].created = node[n].created
      /\ node'[n].timed_out = node[n].timed_out
  <2>1. node[n] \in NodeStates /\ node'[n] = [node[n] EXCEPT !.phase = phase]
    BY <1>4
  <2> QED BY <2>1 DEF NodeStates
<1> HIDE DEF k
<1>6. PhaseOK(n)'
  BY <1>1, <1>5 DEF NodeInv, PhaseOK, Sending, CommandOf
<1>7. Orderly(n)' => NoLeak(n)'
  BY <1>1, <1>2, <1>3, <1>5, SameTable DEF NodeInv, NoLeak, Clean, Kinds
<1>8. Apart /\ Faithful(n)' => Backing(n)'
  BY <1>1, <1>2, <1>3, <1>5, SameTable DEF NodeInv, Backing, Kinds
<1>9. Quiet(n)'
  BY <1>1, <1>2, <1>5 DEF NodeInv, Quiet, Unused, MayExist
<1> QED BY <1>6, <1>7, <1>8, <1>9 DEF NodeInv

\* A change of phase without a command.
LEMMA LocalStep ==
  ASSUME ChannelInv, NEW n \in Callers, NodeInv(n), node \in [Callers -> NodeStates],
         UNCHANGED channel_vars, UNCHANGED <<target_kernel_index, instance>>, NEW nd,
         node' = [node EXCEPT ![n] = nd],
         nd.timed_out = node[n].timed_out,
         \/ /\ node[n].phase = "new" /\ node[n].created /\ nd.created
            /\ nd.phase \in {"verified", "failed"}
         \/ /\ node[n].phase \in {"new", "failed", "verified"}
            /\ ~node[n].created /\ ~node[n].timed_out /\ ~nd.created
            /\ nd.phase \in {"new", "freed"}
  PROVE  NodeInv(n)'
<1>1. UNCHANGED <<free_queue, pend_queue, desc, ack_event, job_queue, task, caller, calls>>
  BY DEF channel_vars
<1>2. \A m \in Kinds : PendingOf(n, m)' = PendingOf(n, m)
  BY <1>1 DEF PendingOf, Pending, OnItsWay, Executes
<1>3. (Orderly(n)' <=> Orderly(n)) /\ (Faithful(n)' <=> Faithful(n))
  BY <1>1 DEF Orderly, Faithful
<1>4. node'[n] = nd
  OBVIOUS
<1>5. PhaseOK(n)'
  BY <1>1, <1>4 DEF NodeInv, PhaseOK, Sending
<1>6. Orderly(n)' => NoLeak(n)'
  BY <1>1, <1>2, <1>3, <1>4, SameTable DEF NodeInv, PhaseOK, NoLeak, Clean, Kinds
<1>7. Apart /\ Faithful(n)' => Backing(n)'
  BY <1>1, <1>2, <1>3, <1>4, SameTable DEF NodeInv, Backing, Kinds
<1>8. Quiet(n)'
  BY <1>2, <1>4 DEF NodeInv, PhaseOK, Quiet, Unused
<1> QED BY <1>5, <1>6, <1>7, <1>8 DEF NodeInv

\* The thread goes on within its call; a command that is sent becomes pending.
LEMMA InCallKept ==
  ASSUME ChannelInv, [Next]_channel_vars, NEW n \in Callers, NodeInv(n),
         GetObject(n) \/ Send(n) \/ WaitAck(n) \/ WaitTimeout(n),
         UNCHANGED <<node, target_kernel_index, instance>>
  PROVE  NodeInv(n)'
<1>1. /\ caller[n].pc # "idle" /\ caller'[n].pc # "idle" /\ caller'[n].call = caller[n].call
      /\ UNCHANGED <<calls, task>>
  BY InCallStep
<1>2. \A m, k : k \in PendingOf(n, m)' => k \in PendingOf(n, m) \/ (Send(n) /\ k = caller[n].call)
  BY <1>1, PendingShrinks DEF SameCall
<1>3. Orderly(n)' <=> Orderly(n)
  BY <1>1 DEF Orderly
<1>4. Faithful(n)' <=> Faithful(n)
  BY <1>1 DEF Faithful
<1>5. CASE ~Send(n)
  <2>1. \A m \in Kinds : PendingOf(n, m)' \subseteq PendingOf(n, m)
    BY <1>2, <1>5
  <2> QED BY <1>1, <1>3, <1>4, <2>1, NodeKept, SameTable
<1>6. CASE Send(n)
  <2>1. calls[caller[n].call].result = "none"
    BY <1>6 DEF Send, ChannelInv, CallersApart, NotRun
  <2>2. \A m, k : k \in PendingOf(n, m)' => calls[k].cmd = m
    BY <1>1 DEF PendingOf
  <2>3. node[n].phase = "creating" \/ PendingOf(n, "create")' \subseteq PendingOf(n, "create")
    <3>1. /\ node[n].phase \in Sending
          /\ calls[caller[n].call].cmd = "create" => node[n].phase = "creating"
      BY <1>1 DEF NodeInv, PhaseOK, Sending, CommandOf
    <3> QED BY <1>1, <1>2, <2>2, <3>1
  <2>4. PhaseOK(n)'
    BY <1>1 DEF NodeInv, PhaseOK
  <2>5. Orderly(n)' => NoLeak(n)'
    <3> SUFFICES ASSUME Orderly(n)' PROVE NoLeak(n)'
      OBVIOUS
    <3>1. NoLeak(n)
      BY <1>3 DEF NodeInv
    <3>2. CASE node[n].phase = "creating"
      <4>1. PendingOf(n, "create")' \subseteq {caller[n].call} /\ NoInstance(n)
        BY <1>2, <2>1, <3>1, <3>2 DEF NoLeak
      <4> QED BY <1>1, <3>1, <3>2, <4>1, SameTable DEF NoLeak
    <3>3. CASE node[n].phase # "creating"
      BY <1>1, <2>1, <2>3, <3>1, <3>3, SameTable DEF NoLeak, Clean
    <3> QED BY <3>2, <3>3
  <2>6. Apart /\ Faithful(n)' => Backing(n)'
    <3> SUFFICES ASSUME Apart, Faithful(n)' PROVE Backing(n)'
      OBVIOUS
    <3>1. Backing(n)
      BY <1>4 DEF NodeInv
    <3>2. CASE node[n].phase \in Sending
      <4>1. calls[caller[n].call].cmd = CommandOf[node[n].phase]
        BY <3>2 DEF NodeInv, PhaseOK
      <4>2. CASE node[n].phase = "controlling"
        <5>1. \A m \in {"create", "delete"} : PendingOf(n, m)' \subseteq PendingOf(n, m)
          BY <1>1, <1>2, <2>2, <4>1, <4>2 DEF CommandOf
        <5> QED BY <1>1, <3>1, <4>2, <5>1, SameTable DEF Backing
      <4>3. CASE node[n].phase = "creating"
        BY <1>1, <2>1, <4>3 DEF Backing
      <4>4. CASE node[n].phase \in {"undoing", "releasing"}
        <5>1. PendingOf(n, "create")' \subseteq PendingOf(n, "create")
          BY <1>1, <1>2, <2>2, <4>1, <4>4 DEF CommandOf
        <5>2. PendingOf(n, "delete") \subseteq {caller[n].call} =>
                 PendingOf(n, "delete")' \subseteq {caller[n].call}
          BY <1>2
        <5> QED BY <1>1, <3>1, <4>4, <5>1, <5>2, SameTable DEF Backing
      <4> QED BY <3>2, <4>2, <4>3, <4>4 DEF Sending
    <3> QED BY <1>1, <3>2 DEF NodeInv, PhaseOK
  <2>7. Quiet(n)'
    BY <1>1, <1>2, <2>1 DEF NodeInv, PhaseOK, Quiet, Unused, Sending
  <2> QED BY <2>4, <2>5, <2>6, <2>7 DEF NodeInv
<1> QED BY <1>5, <1>6

\* What becomes of a node when its command comes back.
LEMMA NodeAfter ==
  ASSUME NEW n \in Callers, node \in [Callers -> NodeStates], NEW status,
         node[n].phase \in Sending, CommandReturns(n, status)
  PROVE  /\ node[n].phase = "creating" /\ status = "success" =>
              node'[n].phase \in {"verified", "failed"} /\ node'[n].created
         /\ node[n].phase = "creating" /\ status # "success" =>
              /\ node'[n].phase = "failed" /\ node'[n].created = node[n].created
              /\ node'[n].timed_out = (node[n].timed_out \/ status = "timeout")
         /\ node[n].phase = "controlling" =>
              node'[n].phase = "verified" /\ node'[n].created = node[n].created
         /\ node[n].phase \in {"undoing", "releasing"} =>
              /\ node'[n].phase \in {"new", "released", "freed"}
              /\ node'[n].created => node[n].created /\ status \notin {"success", "timeout"}
              /\ node'[n].phase = "freed" => status = "success"
              /\ ~node'[n].created /\ ~node'[n].timed_out =>
                    status = "success" \/ ~(node[n].created \/ node[n].timed_out)
<1>0. node[n] \in NodeStates
  OBVIOUS
<1>1. CASE node[n].phase = "creating"
  <2>1. PICK after \in AfterCreate(n, status) : node'[n] = after
    BY <1>1 DEF CommandReturns
  <2>2. CASE status = "success"
    BY <1>1, <2>1, <2>2 DEF AfterCreate, Outcomes
  <2>3. CASE status # "success"
    <3>1. after = [node[n] EXCEPT !.phase = "failed",
                                  !.timed_out = node[n].timed_out \/ status = "timeout"]
      BY <2>1, <2>3 DEF AfterCreate
    <3> QED BY <1>0, <1>1, <2>1, <2>3, <3>1 DEF NodeStates
  <2> QED BY <2>2, <2>3
<1>2. CASE node[n].phase = "controlling"
  <2>1. node'[n] = [node[n] EXCEPT !.phase = "verified", !.timed_out = (status = "timeout")]
    BY <1>2 DEF CommandReturns, AfterControl
  <2> QED BY <1>0, <1>2, <2>1 DEF NodeStates
<1>3. ASSUME NEW phase \in {"new", "released", "freed"},
             \E after \in AfterDelete(node[n], status, phase) : node' = [node EXCEPT ![n] = after]
      PROVE  /\ node'[n].phase = phase
             /\ node'[n].created => node[n].created /\ status \notin {"success", "timeout"}
             /\ ~node'[n].created /\ ~node'[n].timed_out =>
                   status = "success" \/ ~(node[n].created \/ node[n].timed_out)
  <2> DEFINE late == node[n].timed_out \/ status = "timeout"
             after == [phase |-> phase, timed_out |-> late,
                       created |-> node[n].created /\ status # "success" /\ ~late]
  <2>1. node' = [node EXCEPT ![n] = after]
    BY <1>3 DEF AfterDelete
  <2>2. node'[n] = after
    BY <2>1
  <2>3. /\ node'[n].phase = phase /\ (node'[n].created <=> after.created)
        /\ node'[n].timed_out <=> after.timed_out
    BY <2>2
  <2>4. /\ after.created = (node[n].created /\ status # "success" /\ ~late)
        /\ after.timed_out = late
    OBVIOUS
  <2> QED BY <2>3, <2>4
<1>4. CASE node[n].phase = "undoing"
  BY <1>3, <1>4 DEF CommandReturns
<1>5. CASE node[n].phase = "releasing"
  <2>1. /\ Destructed(status) \in {"new", "released", "freed"}
        /\ Destructed(status) = "freed" => status = "success"
    BY DEF Destructed
  <2>2. \E after \in AfterDelete(node[n], status, Destructed(status)) :
           node' = [node EXCEPT ![n] = after]
    BY <1>5 DEF CommandReturns
  <2> QED BY <1>3, <1>5, <2>1, <2>2
<1> QED BY <1>1, <1>2, <1>4, <1>5 DEF Sending

LEMMA ReturnKept ==
  ASSUME ChannelInv, [Next]_channel_vars, NEW n \in Callers, NodeInv(n),
         node \in [Callers -> NodeStates], UNCHANGED <<target_kernel_index, instance>>,
         caller[n].pc # "idle", NEW status \in Answers \ {"none"}, Return(n, status),
         CommandReturns(n, status),
         status # "timeout" => caller[n].pc \in {"send", "acked"},
         status = "success" => calls[caller[n].call].result = "ok",
         status = "failure" => calls[caller[n].call].result = "fail",
         status = "error" => calls[caller[n].call].result = "none"
  PROVE  NodeInv(n)'
<1> DEFINE k == caller[n].call
<1>1. /\ k \in 1 .. Len(calls) /\ Len(calls') = Len(calls)
      /\ calls'[k].answer = status /\ calls[k].by = n
      /\ \A j \in 1 .. Len(calls) : SameCall(j) /\ (j # k => calls'[j] = calls[j])
      /\ caller'[n].pc = "idle" /\ calls[k].answer = "none"
  BY ReturnedCall DEF IdleCaller, ChannelInv, CallersApart
<1>2. node[n].phase \in Sending /\ calls[k].cmd = CommandOf[node[n].phase]
  BY DEF NodeInv, PhaseOK
<1>3. \A m \in Kinds : PendingOf(n, m)' \subseteq PendingOf(n, m)
  <2>1. ~Send(n)
    <3> SUFFICES ASSUME Send(n) PROVE FALSE
      OBVIOUS
    <3> QED BY <1>1, InCallStep
  <2> QED BY <1>1, <2>1, PendingShrinks
<1>4. status # "timeout" => \A m \in Kinds : k \notin PendingOf(n, m)
  BY PendingCall DEF PendingOf
<1>5. /\ Orderly(n)' => Orderly(n)
      /\ node[n].phase \in {"undoing", "releasing"} /\ Orderly(n)' =>
            status \in {"success", "failure"}
  <2>1. Orderly(n)' => Orderly(n)
    BY <1>1 DEF Orderly, SameCall
  <2>2. Orderly(n)' /\ calls[k].cmd = "delete" => status \in {"success", "failure"}
    BY <1>1 DEF Orderly, SameCall
  <2> QED BY <1>2, <2>1, <2>2 DEF CommandOf
<1>6. /\ Faithful(n)' => Faithful(n)
      /\ node[n].phase \in {"undoing", "releasing"} /\ Faithful(n)' => status # "failure"
  <2>1. Faithful(n)' => Faithful(n)
    BY <1>1 DEF Faithful, SameCall
  <2>2. Faithful(n)' /\ calls[k].cmd = "delete" => status # "failure"
    BY <1>1 DEF Faithful, SameCall
  <2> QED BY <1>2, <2>1, <2>2 DEF CommandOf
<1> HIDE DEF k
<1>7. PhaseOK(n)'
  <2>1. /\ node[n].phase = "controlling" => node[n].created
        /\ caller'[n].pc = "idle"
    BY <1>1 DEF NodeInv, PhaseOK
  <2> QED BY <1>2, <2>1, NodeAfter DEF PhaseOK, Sending
<1>8. Orderly(n)' => NoLeak(n)'
  <2> SUFFICES ASSUME Orderly(n)' PROVE NoLeak(n)'
    OBVIOUS
  <2>1. NoLeak(n)
    BY <1>5 DEF NodeInv
  <2>2. /\ AtIndex(n)' /\ (NoInstance(n)' <=> NoInstance(n))
        /\ PendingOf(n, "create")' # {} => NoInstance(n)'
        /\ \A i, j \in PendingOf(n, "create")' : i = j
    BY <1>3, <2>1, SameTable DEF NoLeak, Kinds
  <2>3. CASE node[n].phase = "creating" /\ status = "success"
    BY <1>2, <2>2, <2>3, NodeAfter DEF NoLeak
  <2>4. CASE node[n].phase = "creating" /\ status = "timeout"
    BY <1>2, <2>2, <2>4, NodeAfter DEF NoLeak
  <2>5. CASE node[n].phase = "creating" /\ status \in {"error", "failure"}
    <3>1. Clean(n)'
      BY <1>3, <1>4, <2>1, <2>2, <2>5 DEF NoLeak, Clean, k, Kinds
    <3> QED BY <1>2, <2>2, <2>5, <3>1, NodeAfter DEF NoLeak
  <2>6. CASE node[n].phase = "controlling"
    BY <1>2, <2>2, <2>6, NodeAfter DEF NoLeak
  <2>7. CASE node[n].phase \in {"undoing", "releasing"}
    <3>1. Clean(n)'
      BY <1>3, <1>5, <2>1, <2>2, <2>7 DEF NoLeak, Clean, k, Kinds
    <3> QED BY <1>2, <2>2, <2>7, <3>1, NodeAfter DEF NoLeak
  <2> QED BY <1>2, <2>3, <2>4, <2>5, <2>6, <2>7 DEF Sending, Answers
<1>9. Apart /\ Faithful(n)' => Backing(n)'
  <2> SUFFICES ASSUME Apart, Faithful(n)' PROVE Backing(n)'
    OBVIOUS
  <2>1. Backing(n) /\ (Backed(n)' <=> Backed(n))
    BY <1>6, SameTable DEF NodeInv
  <2>2. CASE node[n].phase = "creating" /\ status = "success"
    <3>1. Backed(n)' /\ PendingOf(n, "create")' = {} /\ PendingOf(n, "delete")' = {}
      BY <1>3, <2>1, <2>2 DEF Backing, Kinds
    <3> QED BY <1>2, <2>2, <3>1, NodeAfter DEF Backing
  <2>3. CASE node[n].phase = "creating" /\ status # "success"
    <3>1. ~node[n].created
      BY <2>3 DEF NodeInv, PhaseOK
    <3> QED BY <1>2, <2>3, <3>1, NodeAfter DEF Backing
  <2>4. CASE node[n].phase = "controlling"
    <3>1. Backed(n)' /\ PendingOf(n, "create")' = {} /\ PendingOf(n, "delete")' = {}
      BY <1>3, <2>1, <2>4 DEF Backing, NodeInv, PhaseOK, Kinds
    <3> QED BY <1>2, <2>4, <3>1, NodeAfter DEF Backing
  <2>5. CASE node[n].phase \in {"undoing", "releasing"}
    <3>1. node'[n].created =>
            Backed(n)' /\ PendingOf(n, "create")' = {} /\ PendingOf(n, "delete")' = {}
      <4> SUFFICES ASSUME node'[n].created
                   PROVE  Backed(n)' /\ PendingOf(n, "create")' = {} /\ PendingOf(n, "delete")' = {}
        OBVIOUS
      <4>1. node[n].created /\ status = "error"
        BY <1>2, <1>6, <2>5, NodeAfter DEF Answers
      <4>2. /\ Backed(n) /\ PendingOf(n, "create") = {}
            /\ PendingOf(n, "delete") \subseteq {caller[n].call}
        BY <2>1, <2>5, <4>1 DEF Backing
      <4> QED BY <1>3, <1>4, <2>1, <4>1, <4>2 DEF k, Kinds
    <3> QED BY <1>2, <2>5, <3>1, NodeAfter DEF Backing
  <2> QED BY <1>2, <2>2, <2>3, <2>4, <2>5 DEF Sending
<1>10. Quiet(n)'
  <2>1. Quiet(n)
    BY DEF NodeInv
  <2>2. CASE node[n].phase = "creating"
    <3>1. status \in {"error", "failure"} /\ ~node[n].timed_out => Unused(n)'
      BY <1>3, <1>4, <2>1, <2>2 DEF Quiet, Unused, k
    <3> QED BY <1>2, <2>2, <3>1, NodeAfter DEF Quiet, Answers
  <2>3. CASE node[n].phase = "controlling"
    <3>1. node[n].created
      BY <2>3 DEF NodeInv, PhaseOK
    <3> QED BY <1>2, <2>3, <3>1, NodeAfter DEF Quiet
  <2>4. CASE node[n].phase \in {"undoing", "releasing"}
    <3>1. /\ node[n].created \/ node[n].timed_out
          /\ status = "success" => Unused(n)'
      BY <1>3, <2>1, <2>4 DEF Quiet, Unused, k
    <3> QED BY <1>2, <2>4, <3>1, NodeAfter DEF Quiet
  <2> QED BY <1>2, <2>2, <2>3, <2>4 DEF Sending
<1> QED BY <1>7, <1>8, <1>9, <1>10 DEF NodeInv

-----------------------------------------------------------------------------
\* The execution of a command of node n.

\* What it does to the instances of another node ...
LEMMA TableOfOther ==
  ASSUME TableOK, NEW n \in Callers, NEW x \in Callers, x # n, NEW result,
         ExecuteCreate(n, result) \/ ExecuteDelete(n, result) \/ ExecuteControl(n, result)
  PROVE  /\ NoInstance(x) => NoInstance(x)'
         /\ AtIndex(x) => AtIndex(x)'
         /\ Apart /\ Backed(x) => Backed(x)'
<1> DEFINE Kept == /\ NoInstance(x) => NoInstance(x)'
                   /\ AtIndex(x) => AtIndex(x)'
                   /\ Apart /\ Backed(x) => Backed(x)'
<1>1. ASSUME instance' = WithoutFound(n), UNCHANGED target_kernel_index PROVE Kept
  <2>1. CASE ~Finds(n)
    <3>1. UNCHANGED instance
      BY <1>1, <2>1 DEF WithoutFound
    <3> QED BY <1>1, <3>1, SameTable
  <2>2. CASE Finds(n)
    <3> DEFINE i == target_kernel_index[n]
    <3>1. /\ i \in Slots /\ instance' = [instance EXCEPT ![i] = FreeSlot] /\ ~FreeSlot.used
          /\ instance[i].kernel = KernelOf[n]
      BY <2>2, <1>1 DEF WithoutFound, Finds, TableOK, FreeSlot
    <3>2. ~instance'[i].used /\ \A s \in Slots : s # i => instance'[s] = instance[s]
      BY <3>1 DEF TableOK
    <3>3. NoInstance(x) => NoInstance(x)'
      BY <3>2 DEF NoInstance
    <3>4. AtIndex(x) => AtIndex(x)'
      BY <1>1, <3>2 DEF AtIndex
    <3>5. ASSUME Apart, Backed(x) PROVE Backed(x)'
      <4>1. target_kernel_index[x] \in Slots
        BY DEF TableOK
      <4>2. target_kernel_index[x] # i
        <5> SUFFICES ASSUME target_kernel_index[x] = i PROVE FALSE
          OBVIOUS
        <5>1. PICK m \in Callers : instance[i] = Entry(m)
          BY <3>1, <3>5 DEF TableOK, Backed, FreeSlot
        <5>2. m = x /\ KernelOf[m] = KernelOf[n]
          BY <3>1, <3>5, <5>1 DEF Backed, Entry
        <5> QED BY <3>5, <5>2 DEF Apart
      <4> QED BY <1>1, <3>2, <3>5, <4>1, <4>2 DEF Backed
    <3> QED BY <3>3, <3>4, <3>5
  <2> QED BY <2>1, <2>2
<1>2. ASSUME NEW s \in Slots, FirstFree(s),
             target_kernel_index' = [target_kernel_index EXCEPT ![n] = s],
             instance' = [instance EXCEPT ![s] = Entry(n)] \/ UNCHANGED instance
      PROVE  Kept
  <2>1. target_kernel_index'[x] = target_kernel_index[x] /\ target_kernel_index[x] \in Slots
    BY <1>2 DEF TableOK
  <2>2. /\ ~instance[s].used /\ \A r \in Slots : r # s => instance'[r] = instance[r]
        /\ instance'[s] = instance[s] \/ instance'[s].node = n
    BY <1>2 DEF FirstFree, TableOK, Entry
  <2>3. NoInstance(x) => NoInstance(x)'
    BY <2>2 DEF NoInstance
  <2>4. AtIndex(x) => AtIndex(x)'
    BY <2>1, <2>2 DEF AtIndex
  <2>5. Backed(x) => Backed(x)'
    BY <2>1, <2>2 DEF Backed
  <2> QED BY <2>3, <2>4, <2>5
<1>3. ASSUME UNCHANGED <<target_kernel_index, instance>> PROVE Kept
  BY <1>3, SameTable
<1>4. ASSUME ExecuteCreate(n, result) PROVE Kept
  <2>1. CASE instance' = WithoutFound(n) /\ UNCHANGED target_kernel_index
    BY <1>1, <2>1
  <2>2. ASSUME NEW s \in Slots, FirstFree(s),
               target_kernel_index' = [target_kernel_index EXCEPT ![n] = s],
               instance' = IF result = "ok" THEN [instance EXCEPT ![s] = Entry(n)] ELSE instance
        PROVE  Kept
    <3>1. instance' = [instance EXCEPT ![s] = Entry(n)] \/ UNCHANGED instance
      BY <2>2
    <3> QED BY <1>2, <2>2, <3>1
  <2> QED BY <1>4, <2>1, <2>2 DEF ExecuteCreate, Entry
<1>5. ASSUME ExecuteDelete(n, result) PROVE Kept
  BY <1>1, <1>5 DEF ExecuteDelete
<1>6. ASSUME ExecuteControl(n, result) PROVE Kept
  BY <1>3, <1>6 DEF ExecuteControl
<1> QED BY <1>4, <1>5, <1>6

\* ... and to those of its own.
LEMMA TableAfterCreate ==
  ASSUME TableOK, NEW n \in Callers, NEW result \in {"ok", "fail"}, ExecuteCreate(n, result)
  PROVE  /\ NoInstance(n) => AtIndex(n)'
         /\ NoInstance(n) /\ result = "fail" => NoInstance(n)'
         /\ result = "ok" => Backed(n)'
<1>1. CASE instance' = WithoutFound(n) /\ UNCHANGED target_kernel_index /\ result = "fail"
  <2>1. \A s \in Slots : instance'[s] = instance[s] \/ ~instance'[s].used
    BY <1>1 DEF WithoutFound, TableOK, FreeSlot
  <2> QED BY <1>1, <2>1 DEF NoInstance, AtIndex
<1>2. ASSUME NEW s \in Slots, FirstFree(s),
             target_kernel_index' = [target_kernel_index EXCEPT ![n] = s],
             instance' = IF result = "ok" THEN [instance EXCEPT ![s] = Entry(n)] ELSE instance
      PROVE  /\ NoInstance(n) => AtIndex(n)'
             /\ NoInstance(n) /\ result = "fail" => NoInstance(n)'
             /\ result = "ok" => Backed(n)'
  <2>1. target_kernel_index'[n] = s /\ \A r \in Slots : r # s => instance'[r] = instance[r]
    BY <1>2 DEF TableOK
  <2>2. NoInstance(n) => AtIndex(n)'
    BY <2>1 DEF NoInstance, AtIndex
  <2>3. NoInstance(n) /\ result = "fail" => NoInstance(n)'
    BY <1>2 DEF NoInstance
  <2>4. result = "ok" => Backed(n)'
    <3> HAVE result = "ok"
    <3>1. instance'[s] = Entry(n)
      BY <1>2 DEF TableOK
    <3> QED BY <2>1, <3>1 DEF Backed, Entry
  <2> QED BY <2>2, <2>3, <2>4
<1> QED BY <1>1, <1>2 DEF ExecuteCreate, Entry

LEMMA TableAfterDelete ==
  ASSUME TableOK, NEW n \in Callers, NEW result, ExecuteDelete(n, result), AtIndex(n)
  PROVE  NoInstance(n)'
<1> DEFINE i == target_kernel_index[n]
<1>1. i \in Slots /\ instance' = WithoutFound(n)
  BY DEF TableOK, ExecuteDelete
<1>2. \A s \in Slots : s # i => instance'[s] = instance[s]
  BY <1>1 DEF WithoutFound, TableOK
<1>3. instance'[i].used => instance'[i].node # n
  <2>1. CASE Finds(n)
    <3>1. instance' = [instance EXCEPT ![i] = FreeSlot] /\ ~FreeSlot.used
      BY <1>1, <2>1 DEF WithoutFound, FreeSlot
    <3> QED BY <1>1, <3>1 DEF TableOK
  <2>2. CASE ~Finds(n)
    <3>1. instance'[i] = instance[i]
      BY <1>1, <2>2 DEF WithoutFound
    <3>2. instance[i] = FreeSlot \/ \E m \in Callers : instance[i] = Entry(m)
      BY <1>1 DEF TableOK
    <3>3. \A m \in Callers : Entry(m).used /\ Entry(m).kernel = KernelOf[m] /\ Entry(m).node = m
      BY DEF Entry
    <3>4. ~FreeSlot.used
      BY DEF FreeSlot
    <3> QED BY <2>2, <3>1, <3>2, <3>3, <3>4 DEF Finds
  <2> QED BY <2>1, <2>2
<1> QED BY <1>2, <1>3 DEF AtIndex, NoInstance

LEMMA ExecuteKept ==
  ASSUME ChannelInv, ChannelInv', QueueOrder, CallsOK, TableOK, [Next]_channel_vars,
         NEW t \in Targets, NEW result \in {"ok", "fail"}, TaskDone(t, result), UNCHANGED node,
         NEW n \in Callers, n = calls[task[t].call].by, NodeInv(n),
         \/ calls[task[t].call].cmd = "create" /\ ExecuteCreate(n, result)
         \/ calls[task[t].call].cmd = "delete" /\ ExecuteDelete(n, result)
         \/ calls[task[t].call].cmd = "control" /\ ExecuteControl(n, result)
  PROVE  NodeInv(n)'
<1>0. PICK k \in 1 .. Len(calls) :
        /\ k = task[t].call /\ Pending(k) /\ calls'[k].result = result
        /\ UNCHANGED caller /\ Len(calls') = Len(calls)
        /\ \A j \in 1 .. Len(calls) : /\ SameCall(j) /\ calls'[j].answer = calls[j].answer
                                      /\ j # k => calls'[j] = calls[j]
        /\ task[t].busy /\ ~task'[t].busy
  BY DoneCall
<1>1. calls[k].by = n /\ calls[k].result = "none"
      /\ calls[k].answer \notin {"success", "failure", "error"}
  BY <1>0, PendingCall
<1>2. \A m : PendingOf(n, m)' \subseteq PendingOf(n, m) \ {k}
  <2>1. \A m, j : j \in PendingOf(n, m)' => j # k
    BY <1>0, PendingCallNext DEF PendingOf
  <2>2. \A c \in Callers : ~Send(c)
    BY <1>0 DEF Send
  <2>3. \A m : PendingOf(n, m)' \subseteq PendingOf(n, m)
    BY <1>0, <2>2, PendingShrinks
  <2> QED BY <2>1, <2>3
<1>3. k \in PendingOf(n, calls[k].cmd)
  BY <1>0, <1>1 DEF PendingOf
<1>4. (Orderly(n)' <=> Orderly(n)) /\ (Faithful(n)' <=> Faithful(n))
  <2>1. Orderly(n)' <=> Orderly(n)
    BY <1>0 DEF Orderly, SameCall
  <2>2. Faithful(n)' <=> Faithful(n)
    BY <1>0 DEF Faithful, SameCall
  <2> QED BY <2>1, <2>2
<1>5. caller[n].pc # "idle" =>
        /\ caller[n].call \in 1 .. Len(calls)
        /\ calls'[caller[n].call].cmd = calls[caller[n].call].cmd
        /\ caller[n].call # k => calls'[caller[n].call].result = calls[caller[n].call].result
        /\ caller[n].call = k => \A m : PendingOf(n, m)' = {}
  <2> HAVE caller[n].pc # "idle"
  <2>1. caller[n].call \in 1 .. Len(calls) /\ calls[caller[n].call].answer = "none"
    BY DEF ChannelInv, CallersApart
  <2>2. ASSUME caller[n].call = k, NEW m, NEW j \in PendingOf(n, m)' PROVE FALSE
    <3>1. Pending(j)' /\ calls'[j].by = n
      BY <2>2 DEF PendingOf
    <3>2. calls[j].by # calls[task[t].call].by
      <4>1. calls[task[t].call].answer = "none"
        BY <1>0, <2>1, <2>2
      <4> QED BY <3>1, <4>1, LastIsDone
    <3>3. j \in 1 .. Len(calls)
      BY <1>0, <3>1, PendingCallNext
    <3> QED BY <1>0, <1>1, <3>1, <3>2, <3>3 DEF SameCall
  <2> QED BY <1>0, <2>1, <2>2 DEF SameCall
<1>6. /\ caller[n].pc # "idle" <=> node[n].phase \in Sending
      /\ node[n].phase \in Sending =>
           /\ calls[caller[n].call].cmd = "create" <=> node[n].phase = "creating"
           /\ calls[caller[n].call].cmd = "control" <=> node[n].phase = "controlling"
           /\ calls[caller[n].call].cmd = "delete" <=> node[n].phase \in {"undoing", "releasing"}
      /\ node' = node
  BY PhaseCommand DEF NodeInv, PhaseOK
<1>7. PhaseOK(n)'
  BY <1>0, <1>5, <1>6 DEF NodeInv, PhaseOK
<1>11. Quiet(n)'
  <2>1. Quiet(n)
    BY DEF NodeInv
  <2>2. caller[n].pc # "idle" /\ caller[n].call = k => Unused(n)'
    BY <1>5 DEF Unused
  <2>3. Unused(n) => Unused(n)'
    BY <1>2 DEF Unused
  <2>4. node[n].phase \in {"undoing", "releasing"} /\ calls'[caller[n].call].result # "none"
           => Unused(n)'
    BY <1>5, <1>6, <2>1, <2>2, <2>3 DEF Quiet, Sending
  <2> QED BY <1>0, <1>2, <1>6, <2>1, <2>3, <2>4 DEF Quiet
<1>8. CASE calls[k].cmd = "control" /\ ExecuteControl(n, result)
  <2>1. UNCHANGED <<target_kernel_index, instance>>
    BY <1>0, <1>8 DEF ExecuteControl
  <2>2. node[n].phase \in {"creating", "undoing", "releasing"} =>
           calls'[caller[n].call].result = calls[caller[n].call].result
    <3> HAVE node[n].phase \in {"creating", "undoing", "releasing"}
    <3>1. node[n].phase \in Sending /\ node[n].phase # "controlling"
      BY DEF Sending
    <3>2. calls[k].cmd = "control"
      BY <1>8
    <3> QED BY <1>5, <1>6, <3>1, <3>2
  <2>3. node[n].phase \in Sending => calls'[caller[n].call].cmd = calls[caller[n].call].cmd
    BY <1>5, <1>6
  <2> QED BY <1>0, <1>2, <1>4, <2>1, <2>2, <2>3, NodeKept, SameTable
<1>9. CASE calls[k].cmd = "create" /\ ExecuteCreate(n, result)
  <2>1. Orderly(n)' => NoLeak(n)'
    <3> SUFFICES ASSUME Orderly(n)' PROVE NoLeak(n)'
      OBVIOUS
    <3>1. NoLeak(n)
      BY <1>4 DEF NodeInv
    <3>2. NoInstance(n) /\ PendingOf(n, "create")' = {}
      BY <1>2, <1>3, <1>9, <3>1 DEF NoLeak
    <3>3. AtIndex(n)' /\ (result = "fail" => NoInstance(n)')
      BY <1>9, <3>2, TableAfterCreate
    <3>4. /\ node[n].phase \notin {"new", "released", "freed"}
          /\ ~(node[n].phase = "failed" /\ ~node[n].created /\ ~node[n].timed_out)
      BY <1>3, <1>9, <3>1 DEF NoLeak, Clean
    <3>5. node[n].phase = "creating" => caller[n].call = k
      BY <1>3, <1>9, <3>1 DEF NoLeak
    <3>6. node[n].phase \in {"undoing", "releasing"} => calls'[caller[n].call].result = "none"
      <4> HAVE node[n].phase \in {"undoing", "releasing"}
      <4>1. calls[caller[n].call].result = "none"
        BY <1>3, <1>9, <3>1 DEF NoLeak, Clean
      <4>2. caller[n].call # k
        BY <1>6, <1>9 DEF Sending
      <4> QED BY <1>5, <1>6, <4>1, <4>2 DEF Sending
    <3> QED BY <1>0, <1>6, <3>2, <3>3, <3>4, <3>5, <3>6 DEF NoLeak
  <2>2. Apart /\ Faithful(n)' => Backing(n)'
    <3> SUFFICES ASSUME Apart, Faithful(n)' PROVE Backing(n)'
      OBVIOUS
    <3>1. Backing(n)
      BY <1>4 DEF NodeInv
    <3>2. ~(node[n].created /\ node[n].phase \in {"new", "failed", "verified", "controlling"})
      BY <1>3, <1>9, <3>1 DEF Backing
    <3>3. ASSUME node[n].phase \in {"undoing", "releasing"}, node[n].created
          PROVE  calls'[caller[n].call].result # "none"
      <4>1. caller[n].call # k
        BY <1>6, <1>9, <3>3 DEF Sending
      <4>2. calls[caller[n].call].result # "none"
        BY <1>3, <1>9, <3>1, <3>3 DEF Backing
      <4> QED BY <1>5, <1>6, <3>3, <4>1, <4>2 DEF Sending
    <3>4. ASSUME node[n].phase = "creating", calls'[caller[n].call].result = "ok"
          PROVE  Backed(n)' /\ PendingOf(n, "create")' = {} /\ PendingOf(n, "delete")' = {}
      <4>1. caller[n].call = k
        <5> SUFFICES ASSUME caller[n].call # k PROVE FALSE
          OBVIOUS
        <5>1. calls[caller[n].call].result = "ok"
          BY <1>5, <1>6, <3>4 DEF Sending
        <5> QED BY <1>3, <1>9, <3>1, <3>4, <5>1 DEF Backing
      <4>2. result = "ok" /\ Backed(n)'
        BY <1>0, <1>9, <3>4, <4>1, TableAfterCreate
      <4> QED BY <1>5, <1>6, <3>4, <4>1, <4>2 DEF Sending
    <3> QED BY <1>0, <1>6, <3>2, <3>3, <3>4 DEF Backing
  <2> QED BY <1>7, <1>11, <2>1, <2>2 DEF NodeInv
<1>10. CASE calls[k].cmd = "delete" /\ ExecuteDelete(n, result)
  <2>1. Orderly(n)' => NoLeak(n)'
    <3> SUFFICES ASSUME Orderly(n)' PROVE NoLeak(n)'
      OBVIOUS
    <3>1. NoLeak(n)
      BY <1>4 DEF NodeInv
    <3>2. calls[k].answer = "none"
      BY <1>1, <1>4, <1>10 DEF Orderly
    <3>3. caller[n].pc # "idle" /\ caller[n].call = k
      BY <1>1, <3>2 DEF CallsOK
    <3>4. Clean(n)'
      BY <1>5, <1>10, <3>1, <3>3, TableAfterDelete DEF NoLeak, Clean
    <3>5. node[n].phase \in {"undoing", "releasing"}
      BY <1>6, <1>10, <3>3 DEF Sending
    <3> QED BY <1>6, <3>4, <3>5 DEF NoLeak, Clean, NoInstance, AtIndex
  <2>2. Apart /\ Faithful(n)' => Backing(n)'
    <3> SUFFICES ASSUME Apart, Faithful(n)' PROVE Backing(n)'
      OBVIOUS
    <3>1. Backing(n)
      BY <1>4 DEF NodeInv
    <3>2. ~(node[n].created /\ node[n].phase \in {"new", "failed", "verified", "controlling"})
      BY <1>3, <1>10, <3>1 DEF Backing
    <3>3. ASSUME node[n].phase \in {"undoing", "releasing"}, node[n].created
          PROVE  calls'[caller[n].call].result # "none"
      <4>1. CASE caller[n].call = k
        BY <1>0, <4>1
      <4>2. CASE caller[n].call # k
        <5>1. calls[caller[n].call].result # "none"
          BY <1>3, <1>10, <3>1, <3>3, <4>2 DEF Backing
        <5> QED BY <1>5, <1>6, <3>3, <4>2, <5>1 DEF Sending
      <4> QED BY <4>1, <4>2
    <3>4. ASSUME node[n].phase = "creating" PROVE calls'[caller[n].call].result # "ok"
      <4>1. caller[n].call # k
        BY <1>6, <1>10, <3>4 DEF Sending
      <4>2. calls[caller[n].call].result # "ok"
        BY <1>3, <1>10, <3>1, <3>4 DEF Backing
      <4> QED BY <1>5, <1>6, <3>4, <4>1, <4>2 DEF Sending
    <3> QED BY <1>0, <1>6, <3>2, <3>3, <3>4 DEF Backing
  <2> QED BY <1>7, <1>11, <2>1, <2>2 DEF NodeInv
<1> QED BY <1>0, <1>8, <1>9, <1>10

-----------------------------------------------------------------------------
\* The invariant.

KernelInv ==
    /\ ChannelInv /\ QueueOrder /\ CallsOK /\ TableOK /\ NodesOK
    /\ \A n \in Callers : NodeInv(n)

\* The steps of the thread of node n itself.
LEMMA ThreadStep ==
  ASSUME KernelInv, [Next]_channel_vars, NEW n \in Callers,
         VerifyNode(n) \/ ControlNode(n) \/ UndoVerify(n) \/ ReleaseNode(n) \/ NodeCallerStep(n)
  PROVE  NodeInv(n)'
<1>0. /\ ChannelInv /\ node \in [Callers -> NodeStates] /\ NodeInv(n)
      /\ "create" \in Commands /\ "control" \in Commands /\ "delete" \in Commands
      /\ UNCHANGED <<target_kernel_index, instance>> /\ node[n] \in NodeStates
  BY KernelsAssumption DEF KernelInv, NodesOK, VerifyNode, ControlNode, UndoVerify, ReleaseNode,
     NodeCallerStep
<1>1. CASE VerifyNode(n)
  <2>1. CASE ~node[n].created /\ Sends(n, "create", "creating")
    BY <1>0, <1>1, <2>1, BeginStep DEF VerifyNode
  <2>2. ASSUME node[n].created, UNCHANGED channel_vars, NEW phase \in {"verified", "failed"},
               node' = [node EXCEPT ![n] = [node[n] EXCEPT !.phase = phase]]
        PROVE  NodeInv(n)'
    <3> DEFINE nd == [node[n] EXCEPT !.phase = phase]
    <3>1. nd.phase = phase /\ nd.created = node[n].created /\ nd.timed_out = node[n].timed_out
      BY <1>0 DEF NodeStates
    <3> HIDE DEF nd
    <3>2. node' = [node EXCEPT ![n] = nd]
      BY <2>2 DEF nd
    <3> QED BY <1>0, <1>1, <2>2, <3>1, <3>2, LocalStep DEF VerifyNode
  <2> QED BY <1>1, <2>1, <2>2 DEF VerifyNode, Outcomes
<1>2. CASE ControlNode(n)
  BY <1>0, <1>2, BeginStep DEF ControlNode
<1>3. ASSUME node[n].phase \in {"new", "failed", "verified"}, NEW phase \in {"undoing", "releasing"},
             NEW end \in {"new", "freed"}, KernelDeinit(n, phase, end)
      PROVE  NodeInv(n)'
  <2>1. CASE MayExist(n)
    BY <1>0, <1>3, <2>1, BeginStep DEF KernelDeinit
  <2>2. CASE ~MayExist(n)
    <3> DEFINE nd == [node[n] EXCEPT !.phase = end, !.created = FALSE]
    <3>1. nd.phase = end /\ ~nd.created /\ nd.timed_out = node[n].timed_out
      BY <1>0 DEF NodeStates
    <3>2. ~node[n].created /\ ~node[n].timed_out
      BY <2>2 DEF MayExist
    <3> HIDE DEF nd
    <3>3. node' = [node EXCEPT ![n] = nd] /\ UNCHANGED channel_vars
      BY <1>3, <2>2 DEF KernelDeinit, nd
    <3> QED BY <1>0, <1>3, <3>1, <3>2, <3>3, LocalStep
  <2> QED BY <2>1, <2>2
<1>4. CASE UndoVerify(n)
  BY <1>3, <1>4 DEF UndoVerify
<1>5. CASE ReleaseNode(n)
  <2>1. Destructed("success") = "freed"
    BY DEF Destructed
  <2> QED BY <1>3, <1>5, <2>1 DEF ReleaseNode
<1>6. CASE NodeCallerStep(n)
  <2>1. CASE (GetObject(n) \/ Send(n) \/ WaitAck(n) \/ WaitTimeout(n)) /\ UNCHANGED node
    BY <1>0, <2>1, InCallKept
  <2>2. CASE (GetTimeout(n) \/ Expire(n)) /\ CommandReturns(n, "timeout")
    <3>1. caller[n].pc # "idle" /\ Return(n, "timeout") /\ "timeout" \in Answers \ {"none"}
      BY <2>2 DEF GetTimeout, Expire, Answers
    <3> QED BY <1>0, <2>2, <3>1, ReturnKept
  <2>3. CASE SendFailed(n) /\ CommandReturns(n, "error")
    <3>1. caller[n].pc = "send" /\ Return(n, "error") /\ "error" \in Answers \ {"none"}
      BY <2>3 DEF SendFailed, Answers
    <3>2. calls[caller[n].call].result = "none"
      BY <1>0, <3>1 DEF ChannelInv, CallersApart, NotRun
    <3> QED BY <1>0, <2>3, <3>1, <3>2, ReturnKept
  <2>4. CASE Finish(n) /\ CommandReturns(n, AckStatus(n))
    <3>1. caller[n].pc = "acked" /\ Return(n, AckStatus(n))
      BY <2>4 DEF Finish
    <3>2. HasResult(caller[n].obj) /\ desc[caller[n].obj].call = caller[n].call
      <4>1. caller[n].obj \in Objects /\ Sent(n, caller[n].obj)
        BY <1>0, <3>1 DEF Sent, ChannelInv, ChannelTypeOK
      <4> QED BY <1>0, <3>1, <4>1 DEF ChannelInv, CallersApart, Progress
    <3>3. /\ AckStatus(n) \in {"success", "failure"}
          /\ AckStatus(n) = "success" => calls[caller[n].call].result = "ok"
          /\ AckStatus(n) = "failure" => calls[caller[n].call].result = "fail"
      BY <3>2 DEF AckStatus, HasResult
    <3>4. {"success", "failure"} \subseteq Answers \ {"none"}
      BY DEF Answers
    <3> QED BY <1>0, <2>4, <3>1, <3>3, <3>4, ReturnKept
  <2> QED BY <1>6, <2>1, <2>2, <2>3, <2>4 DEF NodeCallerStep
<1> QED BY <1>1, <1>2, <1>4, <1>5, <1>6

\* What a thread does leaves the calls of the others alone.
LEMMA ThreadsApart ==
  ASSUME KernelInv, [Next]_channel_vars, NEW n \in Callers,
         VerifyNode(n) \/ ControlNode(n) \/ UndoVerify(n) \/ ReleaseNode(n) \/ NodeCallerStep(n),
         NEW x \in Callers, x # n
  PROVE  NodeInv(x)'
<1>0. /\ ChannelInv /\ node \in [Callers -> NodeStates] /\ NodeInv(x)
      /\ UNCHANGED <<target_kernel_index, instance>>
      /\ "create" \in Commands /\ "control" \in Commands /\ "delete" \in Commands
      /\ TargetOf[n] \in Targets
  BY KernelsAssumption DEF KernelInv, NodesOK, VerifyNode, ControlNode, UndoVerify, ReleaseNode,
     NodeCallerStep
<1>2. /\ caller'[x] = caller[x]
      /\ \A k \in 1 .. Len(calls) :
            /\ SameCall(k)
            /\ calls[k].by = x => /\ calls'[k].answer = calls[k].answer
                                  /\ calls'[k].result = calls[k].result
  <2>1. ASSUME NEW m \in Commands, SendCmd(n, TargetOf[n], m) PROVE <1>2!1 /\ <1>2!2
    BY <1>0, <2>1, NewCall
  <2>2. ASSUME UNCHANGED channel_vars PROVE <1>2!1 /\ <1>2!2
    BY <2>2 DEF channel_vars, SameCall
  <2>3. ASSUME GetObject(n) \/ Send(n) \/ WaitAck(n) \/ WaitTimeout(n) PROVE <1>2!1 /\ <1>2!2
    BY <1>0, <2>3, InCallStep DEF SameCall
  <2>4. ASSUME GetTimeout(n) \/ Expire(n) \/ SendFailed(n) \/ Finish(n) PROVE <1>2!1 /\ <1>2!2
    <3>1. PICK status \in Answers \ {"none"} : Return(n, status) /\ caller[n].pc # "idle"
      BY <1>0, <2>4, ReturnKinds
    <3>2. calls[caller[n].call].by = n
      BY <1>0, <3>1 DEF ChannelInv, CallersApart
    <3>3. /\ \A k \in 1 .. Len(calls) :
                SameCall(k) /\ (k # caller[n].call => calls'[k] = calls[k])
          /\ caller'[x] = caller[x]
      BY <1>0, <3>1, ReturnedCall
    <3>4. \A k \in 1 .. Len(calls) : calls[k].by = x => k # caller[n].call
      BY <3>2
    <3> QED BY <3>3, <3>4
  <2> QED BY <1>0, <2>1, <2>2, <2>3, <2>4 DEF VerifyNode, ControlNode, UndoVerify, ReleaseNode,
          KernelDeinit, Sends, NodeCallerStep
<1>3. node'[x] = node[x]
  <2>1. \A nd : node' = [node EXCEPT ![n] = nd] => node'[x] = node[x]
    BY <1>0
  <2>2. node' = node \/ \E nd : node' = [node EXCEPT ![n] = nd]
    BY DEF VerifyNode, ControlNode, UndoVerify, ReleaseNode, KernelDeinit, Sends, NodeCallerStep,
       CommandReturns
  <2> QED BY <2>1, <2>2
<1> QED BY <1>0, <1>2, <1>3, OtherKept, SameTable

LEMMA KernelNext == ASSUME KernelInv, ChannelInv', [KNext]_kernel_vars
                    PROVE  \A n \in Callers : NodeInv(n)'
<1>1. [Next]_channel_vars
  BY ChannelStep
<1>2. ASSUME NEW n \in Callers,
             VerifyNode(n) \/ ControlNode(n) \/ UndoVerify(n) \/ ReleaseNode(n) \/ NodeCallerStep(n)
      PROVE  \A x \in Callers : NodeInv(x)'
  <2>1. NodeInv(n)'
    BY <1>1, <1>2, ThreadStep
  <2>2. \A x \in Callers : x # n => NodeInv(x)'
    BY <1>1, <1>2, ThreadsApart
  <2> QED BY <2>1, <2>2
<1>3. ASSUME UNCHANGED <<node, caller, target_kernel_index, instance>>, NEW x \in Callers,
             \A k \in 1 .. Len(calls) :
                /\ SameCall(k) /\ calls'[k].answer = calls[k].answer
                /\ calls'[k].result = calls[k].result
      PROVE  NodeInv(x)'
  BY <1>1, <1>3, OtherKept, SameTable DEF KernelInv
<1>4. ASSUME NEW t \in Targets, NEW x \in Callers, TaskTake(t) \/ HandleAck(t),
             UNCHANGED <<node, target_kernel_index, instance>>
      PROVE  NodeInv(x)'
  <2>1. CASE TaskTake(t)
    BY <1>3, <1>4, <2>1, TakenCall DEF KernelInv
  <2>2. CASE HandleAck(t)
    BY <1>3, <1>4, <2>2 DEF HandleAck, SameCall
  <2> QED BY <1>4, <2>1, <2>2
<1>5. ASSUME NEW t \in Targets, ExecuteCommand(t), NEW x \in Callers PROVE NodeInv(x)'
  <2>0. PICK result \in {"ok", "fail"} :
          /\ TaskDone(t, result)
          /\ \/ /\ calls[task[t].call].cmd = "create"
                /\ ExecuteCreate(calls[task[t].call].by, result)
             \/ /\ calls[task[t].call].cmd = "delete"
                /\ ExecuteDelete(calls[task[t].call].by, result)
             \/ /\ calls[task[t].call].cmd = "control"
                /\ ExecuteControl(calls[task[t].call].by, result)
    BY <1>5 DEF ExecuteCommand
  <2>1. UNCHANGED node
    BY <1>5 DEF ExecuteCommand
  <2>2. PICK n \in Callers : n = calls[task[t].call].by
    BY <2>0, CommandOfNode DEF TaskDone, KernelInv
  <2>3. CASE x = n
    <3>1. \/ calls[task[t].call].cmd = "create" /\ ExecuteCreate(n, result)
          \/ calls[task[t].call].cmd = "delete" /\ ExecuteDelete(n, result)
          \/ calls[task[t].call].cmd = "control" /\ ExecuteControl(n, result)
      BY <2>0, <2>2
    <3>2. NodeInv(n)'
      BY <1>1, <2>0, <2>1, <2>2, <3>1, ExecuteKept DEF KernelInv
    <3> QED BY <2>3, <3>2
  <2>4. CASE x # n
    <3>1. /\ NoInstance(x) => NoInstance(x)'
          /\ AtIndex(x) => AtIndex(x)'
          /\ Apart /\ Backed(x) => Backed(x)'
      <4>1. \/ ExecuteCreate(n, result) \/ ExecuteDelete(n, result)
            \/ ExecuteControl(n, result)
        BY <2>0, <2>2
      <4> QED BY <2>4, <4>1, TableOfOther DEF KernelInv
    <3>2. \A k \in 1 .. Len(calls) :
             /\ SameCall(k)
             /\ calls[k].by = x => /\ calls'[k].answer = calls[k].answer
                                   /\ calls'[k].result = calls[k].result
      BY <2>0, <2>2, <2>4, DoneCall DEF KernelInv
    <3>3. node'[x] = node[x] /\ caller'[x] = caller[x]
      BY <2>0, <2>1 DEF TaskDone
    <3> QED BY <1>1, <3>1, <3>2, <3>3, OtherKept DEF KernelInv
  <2> QED BY <2>3, <2>4
<1>6. CASE UNCHANGED kernel_vars
  <2>1. UNCHANGED <<node, caller, calls, target_kernel_index, instance>>
    BY <1>6 DEF kernel_vars, channel_vars
  <2> QED BY <1>3, <2>1 DEF SameCall
<1> QED BY <1>2, <1>4, <1>5, <1>6 DEF KNext, NodeTaskStep

LEMMA KernelInvariance == KSpec => []KernelInv
<1>1. KInit => CallsOK /\ NodesOK /\ \A n \in Callers : NodeInv(n)
  <2> SUFFICES ASSUME KInit PROVE CallsOK /\ NodesOK /\ \A n \in Callers : NodeInv(n)
    OBVIOUS
  <2>1. /\ calls = <<>> /\ \A t \in Targets : ~task[t].busy
        /\ \A n \in Callers : caller[n].pc = "idle" /\ node[n].phase = "new"
                              /\ ~node[n].created /\ ~node[n].timed_out
        /\ \A s \in Slots : ~instance[s].used
    BY DEF KInit, Init, IdleTask, IdleCaller, FreeSlot
  <2>2. CallsOK
    BY <2>1 DEF CallsOK
  <2>3. NodesOK
    BY DEF KInit, Init, IdleCaller, NodesOK, NodeStates, Phases
  <2>4. ASSUME NEW n \in Callers PROVE NodeInv(n)
    <3>1. Clean(n) /\ AtIndex(n) /\ Unused(n)
      BY <2>1 DEF Clean, NoInstance, AtIndex, PendingOf, Unused
    <3> QED BY <2>1, <3>1 DEF NodeInv, PhaseOK, NoLeak, Backing, Clean, Sending,
           Quiet, Unused, Kinds
  <2> QED BY <2>2, <2>3, <2>4
<1>2. ChannelInv /\ QueueOrder /\ TableOK /\ KInit => KernelInv
  BY <1>1 DEF KernelInv
<1>3. /\ KernelInv /\ [KNext]_kernel_vars
      /\ ChannelInv' /\ QueueOrder' /\ TableOK'
      => KernelInv'
  BY CallsStep, NodesStep, KernelNext DEF KernelInv
<1> QED BY <1>2, <1>3, KernelsUseChannel, ChannelInvariance, OrderInvariance, TableInvariance,
           PTL DEF KSpec

\* Releasing a node leaves nothing of it on the target, also when its CREATE timed out and
\* is executed long after: a CREATE that is still to be executed has a DELETE behind it
\* (vx_node.c 908-909, ownNodeKernelDeinit).
THEOREM ReleasedAreGone == KSpec => []InstancesReleased
<1>1. KernelInv => InstancesReleased
  <2> SUFFICES ASSUME KernelInv, NEW n \in Callers, DeletesAnswered(n) PROVE NoInstance(n)
    BY DEF InstancesReleased, NoInstance
  <2>1. Orderly(n) /\ node[n].phase \in {"released", "freed"}
    BY DEF DeletesAnswered, Orderly
  <2> QED BY <2>1 DEF KernelInv, NodeInv, NoLeak, Clean
<1> QED BY <1>1, KernelInvariance, PTL

\* A node's descriptor is freed only when no target has a command of the node still to
\* execute: either the node never had a command that could be left over, or its last
\* DELETE succeeded, behind which nothing of it is queued (vx_node.c 105).
THEOREM FreedAreUnused == KSpec => []FreedIsUnused
<1>1. KernelInv => FreedIsUnused
  <2> SUFFICES ASSUME KernelInv, NEW n \in Callers, node[n].phase = "freed",
                      NEW k \in 1 .. Len(calls), calls[k].by = n, ToExecute(k)
               PROVE  FALSE
    BY DEF FreedIsUnused
  <2>1. Unused(n)
    BY DEF KernelInv, NodeInv, Quiet
  <2>2. Pending(k)
    <3>1. PICK t \in Targets :
            \/ task[t].busy /\ task[t].call = k
            \/ \E i \in 1 .. Len(job_queue[t]) :
                  ~desc[job_queue[t][i]].is_ack /\ desc[job_queue[t][i]].call = k
      BY DEF ToExecute
    <3>2. CASE task[t].busy /\ task[t].call = k
      <4>1. task[t].obj \in Objects /\ Executes(t, task[t].obj)
        BY <3>2 DEF KernelInv, ChannelInv, ChannelTypeOK, Executes
      <4>2. desc[task[t].obj].call = k
        BY <3>2, <4>1 DEF KernelInv, ChannelInv, Progress, UnderWay, Executes
      <4> QED BY <4>1, <4>2 DEF Pending, OnItsWay
    <3>3. ASSUME NEW i \in 1 .. Len(job_queue[t]),
                 ~desc[job_queue[t][i]].is_ack, desc[job_queue[t][i]].call = k
          PROVE  Pending(k)
      <4>1. job_queue[t] \in Seq(Objects)
        BY DEF KernelInv, ChannelInv, ChannelTypeOK
      <4>2. job_queue[t][i] \in Objects
        BY <4>1, ElementOfSeq
      <4> QED BY <3>3, <4>2 DEF Pending, OnItsWay, In
    <3> QED BY <3>1, <3>2, <3>3
  <2>3. calls \in Seq(Call) /\ calls[k] \in Call
    BY ElementOfSeq DEF KernelInv, ChannelInv, ChannelTypeOK, Call
  <2>4. calls[k].cmd \in Kinds
    BY <2>3, KernelsAssumption DEF Call, Kinds
  <2> QED BY <2>1, <2>2, <2>4 DEF Unused, PendingOf
<1> QED BY <1>1, KernelInvariance, PTL

\* When no two nodes of a target have the same kernel, a verified node has its kernel
\* instance, whatever timed out or failed before, but for a DELETE that came back as failed.
THEOREM VerifiedAreBacked ==
  ASSUME \A n, m \in Callers : KernelOf[n] = KernelOf[m] => n = m
  PROVE  KSpec => []VerifiedIsBacked
<1>1. KernelInv => VerifiedIsBacked
  <2> SUFFICES ASSUME KernelInv, NEW n \in Callers, node[n].phase = "verified", Faithful(n)
               PROVE  Backed(n)
    BY DEF VerifiedIsBacked, Faithful, Backed
  <2>1. Apart /\ node[n].created
    BY DEF Apart, KernelInv, NodeInv, PhaseOK
  <2> QED BY <2>1 DEF KernelInv, NodeInv, Backing
<1> QED BY <1>1, KernelInvariance, PTL
=============================================================================
