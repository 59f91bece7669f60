---------------------------- MODULE CommandChannel ----------------------------
(***************************************************************************)
(* Control commands from the host to the targets and their                 *)
(* acknowledgements (tiovx/source/framework/vx_context.c and vx_target.c). *)
(*                                                                         *)
(* A context owns NumObjects pairs of a command descriptor in shared       *)
(* memory and an acknowledgement event.  A thread takes a pair from        *)
(* free_queue, fills in the descriptor, queues it to the target's task and *)
(* waits for the event.  The target executes the command, writes the       *)
(* status into the same descriptor and queues it to the host target, whose *)
(* task posts the event.  A thread that gives up waiting leaves the pair   *)
(* in pend_queue: a descriptor that a target may still hold must not be    *)
(* used again.  Nothing in the framework takes a pair out of pend_queue    *)
(* (ownContextFlushCmdPendQueue has no caller), so neither does a step     *)
(* here.                                                                   *)
(***************************************************************************)
EXTENDS Integers, Sequences, FiniteSets

CONSTANTS
    Callers,       \* threads that send commands, one command at a time each
    Patient,       \* the ones whose timeout is VX_TIMEOUT_WAIT_FOREVER
    Targets,       \* targets, each with a task and a job queue
    Host,          \* TIVX_TARGET_HOST, to which acknowledgements are sent
    Commands,      \* the commands: cmd_id with its parameters
    NumObjects,    \* TIVX_MAX_CTRL_CMD_OBJECTS
    MaxSendErrors  \* bound: sends that fail in a behaviour

ASSUME ChannelAssumption ==
    /\ Patient \subseteq Callers /\ Host \in Targets
    /\ NumObjects \in Nat \ {0} /\ MaxSendErrors \in Nat

Objects == 0 .. NumObjects - 1

VARIABLES
    free_queue,   \* context->free_queue
    pend_queue,   \* context->pend_queue
    desc,         \* desc[o]: the command descriptor in shared memory
    ack_event,    \* ack_event[o]: context->cmd_ack_event[o] is set
    job_queue,    \* job_queue[t]: descriptors queued to the task of target t
    task,         \* task[t]: the command the task of target t executes
    caller,       \* caller[c]: where thread c is in ownContextSendCmd
    send_errors,  \* ghost: sends that failed
    calls         \* ghost: every command sent so far, and what became of it

channel_vars == <<free_queue, pend_queue, desc, ack_event, job_queue, task,
                  caller, send_errors, calls>>

IdleCaller == [pc |-> "idle", obj |-> 0, call |-> 0]
IdleTask == [busy |-> FALSE, obj |-> 0, call |-> 0]

\* ownContextCreateCmdObj, and the tasks of the targets as they are started.
Init ==
    /\ free_queue = [i \in 1 .. NumObjects |-> i - 1]
    /\ pend_queue = <<>>
    /\ desc = [o \in Objects |-> [call |-> 0, is_ack |-> FALSE, cmd_status |-> "none"]]
    /\ ack_event = [o \in Objects |-> FALSE]
    /\ job_queue = [t \in Targets |-> <<>>]
    /\ task = [t \in Targets |-> IdleTask]
    /\ caller = [c \in Callers |-> IdleCaller]
    /\ send_errors = 0
    /\ calls = <<>>

-----------------------------------------------------------------------------
\* ownContextSendCmd and ownContextSendControlCmd.

\* Thread c starts to send command m to target t.
SendCmd(c, t, m) ==
    /\ caller[c].pc = "idle"
    /\ calls' = Append(calls, [by |-> c, dst |-> t, cmd |-> m, runs |-> 0,
                               result |-> "none", answer |-> "none"])
    /\ caller' = [caller EXCEPT ![c] = [pc |-> "get", obj |-> 0, call |-> Len(calls) + 1]]
    /\ UNCHANGED <<free_queue, pend_queue, desc, ack_event, job_queue, task, send_errors>>

\* The call of thread c returns with a status.
Return(c, status) ==
    /\ caller' = [caller EXCEPT ![c] = IdleCaller]
    /\ calls' = [calls EXCEPT ![caller[c].call].answer = status]

\* tivxQueueGet(&context->free_queue, &obj_id, timeout) ...
GetObject(c) ==
    /\ caller[c].pc = "get" /\ free_queue # <<>>
    /\ free_queue' = Tail(free_queue)
    /\ caller' = [caller EXCEPT ![c].pc = "send", ![c].obj = Head(free_queue)]
    /\ UNCHANGED <<pend_queue, desc, ack_event, job_queue, task, send_errors, calls>>

\* ... or the timeout ends the call before anything is sent.
GetTimeout(c) ==
    /\ caller[c].pc = "get" /\ c \notin Patient /\ free_queue = <<>>
    /\ Return(c, "timeout")
    /\ UNCHANGED <<free_queue, pend_queue, desc, ack_event, job_queue, task, send_errors>>

\* The descriptor is filled in; cmd_status keeps the status of its last command.
FillDescriptor(c) ==
    desc' = [desc EXCEPT ![caller[c].obj].call = caller[c].call,
                         ![caller[c].obj].is_ack = FALSE]

\* Mutant: the newest descriptor is served first.
Enqueued_First(queue, o) == <<o>> \o queue

\* tivxQueuePut on a job queue.
Enqueued(queue, o) == Append(queue, o)

\* ownObjDescSend(target_id, ...): the descriptor is in the target's job queue.
Send(c) ==
    /\ caller[c].pc = "send"
    /\ FillDescriptor(c)
    /\ job_queue' = [job_queue EXCEPT ![calls[caller[c].call].dst] =
                       Enqueued(@, caller[c].obj)]
    /\ caller' = [caller EXCEPT ![c].pc = "wait"]
    /\ UNCHANGED <<free_queue, pend_queue, ack_event, task, send_errors, calls>>

\* The job queue is full or the IPC message cannot be sent: the call fails and
\* the object is put back into neither queue.
SendFailed(c) ==
    /\ caller[c].pc = "send" /\ send_errors < MaxSendErrors
    /\ FillDescriptor(c)
    /\ send_errors' = send_errors + 1
    /\ Return(c, "error")
    /\ UNCHANGED <<free_queue, pend_queue, ack_event, job_queue, task>>

\* tivxEventWait(cmd_ack_event, timeout) takes the event ...
WaitAck(c) ==
    /\ caller[c].pc = "wait" /\ ack_event[caller[c].obj]
    /\ ack_event' = [ack_event EXCEPT ![caller[c].obj] = FALSE]
    /\ caller' = [caller EXCEPT ![c].pc = "acked"]
    /\ UNCHANGED <<free_queue, pend_queue, desc, job_queue, task, send_errors, calls>>

\* ... or gives up.
WaitTimeout(c) ==
    /\ caller[c].pc = "wait" /\ c \notin Patient /\ ~ack_event[caller[c].obj]
    /\ caller' = [caller EXCEPT ![c].pc = "timed_out"]
    /\ UNCHANGED <<free_queue, pend_queue, desc, ack_event, job_queue, task,
                   send_errors, calls>>

\* Mutant: what the target wrote is returned as it is.
AckStatus_Raw(c) == desc[caller[c].obj].cmd_status

\* Mutant: a command that was executed is taken to have succeeded.
AckStatus_NotRead(c) == "success"

\* The status the call returns once the acknowledgement is there.
AckStatus(c) ==
    IF desc[caller[c].obj].cmd_status = "ok" THEN "success" ELSE "failure"

\* Mutant: the object is put back only when the command succeeded.
Finish_KeptOnFailure(c) ==
    /\ caller[c].pc = "acked"
    /\ free_queue' = IF AckStatus(c) = "success" THEN Append(free_queue, caller[c].obj)
                     ELSE free_queue
    /\ Return(c, AckStatus(c))
    /\ UNCHANGED <<pend_queue, desc, ack_event, job_queue, task, send_errors>>

\* The object goes back to free_queue.
Finish(c) ==
    /\ caller[c].pc = "acked"
    /\ free_queue' = Append(free_queue, caller[c].obj)
    /\ Return(c, AckStatus(c))
    /\ UNCHANGED <<pend_queue, desc, ack_event, job_queue, task, send_errors>>

\* Mutant: after a timeout the object can be used at once.
Expire_Reused(c) ==
    /\ caller[c].pc = "timed_out"
    /\ free_queue' = Append(free_queue, caller[c].obj)
    /\ Return(c, "timeout")
    /\ UNCHANGED <<pend_queue, desc, ack_event, job_queue, task, send_errors>>

\* After a timeout the object goes to pend_queue instead.
Expire(c) ==
    /\ caller[c].pc = "timed_out"
    /\ pend_queue' = Append(pend_queue, caller[c].obj)
    /\ Return(c, "timeout")
    /\ UNCHANGED <<free_queue, desc, ack_event, job_queue, task, send_errors>>

-----------------------------------------------------------------------------
\* The tasks of the targets.

\* The task of target t starts on a command that was sent to it.
TaskTake(t) ==
    /\ ~task[t].busy /\ job_queue[t] # <<>>
    /\ LET o == Head(job_queue[t])
           k == desc[o].call
       IN  /\ ~desc[o].is_ack
           /\ task' = [task EXCEPT ![t] = [busy |-> TRUE, obj |-> o, call |-> k]]
           /\ calls' = [calls EXCEPT ![k].runs = @ + 1]
    /\ job_queue' = [job_queue EXCEPT ![t] = Tail(@)]
    /\ UNCHANGED <<free_queue, pend_queue, desc, ack_event, caller, send_errors>>

\* The command ends with a result, which the descriptor takes back to the host
\* (ownTargetCmdDescSendAck).  Whether the acknowledgement could be sent is not
\* looked at.
TaskDone(t, result) ==
    /\ task[t].busy
    /\ LET o == task[t].obj IN
       /\ desc' = [desc EXCEPT ![o].is_ack = TRUE, ![o].cmd_status = result]
       /\ \/ /\ job_queue' = [job_queue EXCEPT ![Host] = Enqueued(@, o)]
             /\ UNCHANGED send_errors
          \/ /\ send_errors < MaxSendErrors
             /\ send_errors' = send_errors + 1
             /\ UNCHANGED job_queue
    /\ calls' = [calls EXCEPT ![task[t].call].result = result]
    /\ task' = [task EXCEPT ![t] = IdleTask]
    /\ UNCHANGED <<free_queue, pend_queue, ack_event, caller>>

\* A task, in fact that of the host target, finds an acknowledgement and posts
\* the event (ownTargetCmdDescHandleAck).
HandleAck(t) ==
    /\ ~task[t].busy /\ job_queue[t] # <<>>
    /\ LET o == Head(job_queue[t]) IN
       /\ desc[o].is_ack
       /\ desc' = [desc EXCEPT ![o].is_ack = FALSE]
       /\ ack_event' = [ack_event EXCEPT ![o] = TRUE]
    /\ job_queue' = [job_queue EXCEPT ![t] = Tail(@)]
    /\ UNCHANGED <<free_queue, pend_queue, task, caller, send_errors, calls>>

-----------------------------------------------------------------------------
\* What a thread does on its own within a call.
CallerStep(c) ==
    \/ GetObject(c) \/ GetTimeout(c) \/ Send(c) \/ SendFailed(c)
    \/ WaitAck(c) \/ WaitTimeout(c) \/ Finish(c) \/ Expire(c)

\* What the task of target t does.
TaskStep(t) ==
    \/ TaskTake(t) \/ HandleAck(t)
    \/ \E result \in {"ok", "fail"} : TaskDone(t, result)

Next ==
    \/ \E c \in Callers, t \in Targets, m \in Commands : SendCmd(c, t, m)
    \/ \E c \in Callers : CallerStep(c)
    \/ \E t \in Targets : TaskStep(t)

Spec == Init /\ [][Next]_channel_vars

-----------------------------------------------------------------------------
\* Properties.

Statuses == {"none", "ok", "fail"}
Answers == {"none", "success", "failure", "timeout", "error"}

ChannelTypeOK ==
    /\ free_queue \in Seq(Objects) /\ pend_queue \in Seq(Objects)
    /\ desc \in [Objects -> [call : 0 .. Len(calls), is_ack : BOOLEAN,
                             cmd_status : Statuses]]
    /\ ack_event \in [Objects -> BOOLEAN]
    /\ job_queue \in [Targets -> Seq(Objects)]
    /\ task \in [Targets -> [busy : BOOLEAN, obj : Objects, call : 0 .. Len(calls)]]
    /\ caller \in [Callers -> [pc : {"idle", "get", "send", "wait", "acked", "timed_out"},
                               obj : Objects, call : 0 .. Len(calls)]]
    /\ send_errors \in Nat
    /\ calls \in Seq([by : Callers, dst : Targets, cmd : Commands, runs : Nat,
                      result : Statuses, answer : Answers])

In(o, queue) == \E i \in 1 .. Len(queue) : queue[i] = o

\* A target still holds descriptor o, or an acknowledgement of it is under way.
UnderWay(o) ==
    \/ \E t \in Targets : In(o, job_queue[t]) \/ (task[t].busy /\ task[t].obj = o)
    \/ ack_event[o]

Holds(c, o) == caller[c].pc \notin {"idle", "get"} /\ caller[c].obj = o

\* An object in free_queue is there once, no thread has it, no target has its
\* descriptor and its event is clear, so that the next command sent with it
\* neither overwrites one that is still to be executed nor is answered by a late
\* acknowledgement (vx_context.c 860-880, 1023-1041).
FreeIsQuiet ==
    /\ \A i, j \in 1 .. Len(free_queue) : free_queue[i] = free_queue[j] => i = j
    /\ \A o \in Objects : In(o, free_queue) =>
          ~UnderWay(o) /\ \A c \in Callers : ~Holds(c, o)

\* A call that reports what the target answered reports the result of its own
\* command.
AnswerIsOwn ==
    \A k \in 1 .. Len(calls) :
        /\ calls[k].answer = "success" => calls[k].result = "ok"
        /\ calls[k].answer = "failure" => calls[k].result = "fail"

\* No command is executed twice, whatever times out, and none is executed whose
\* call could not send it.
ExecutedAtMostOnce ==
    \A k \in 1 .. Len(calls) :
        calls[k].runs <= IF calls[k].answer = "error" THEN 0 ELSE 1

\* A target never executes a command of a thread after a later one of the same
\* thread: a DELETE does not overtake the CREATE that timed out before it.
ExecutedInOrder ==
    [][\A j, k \in 1 .. Len(calls) :
          j < k /\ calls[j].by = calls[k].by /\ calls[j].dst = calls[k].dst
                /\ calls[k].runs > 0
          => calls'[j].runs = calls[j].runs]_channel_vars

\* No queue has object o, and no thread that will give it back: its command could
\* not be sent, or the thread waits forever for an acknowledgement that could not.
Lost(o) ==
    /\ ~In(o, free_queue) /\ ~In(o, pend_queue)
    /\ \A c \in Callers : Holds(c, o) =>
          c \in Patient /\ caller[c].pc = "wait" /\ ~UnderWay(o)

\* The only two ways in which a call can wait for good, where every object that
\* is lost is one send that failed.
Stuck(c) ==
    /\ c \in Patient
    /\ Cardinality({o \in Objects : Lost(o)}) <= send_errors
    /\ \/ caller[c].pc = "get" /\ \A o \in Objects : In(o, pend_queue) \/ Lost(o)
       \/ caller[c].pc = "wait" /\ Lost(caller[c].obj)

\* Every call returns, unless its timeout is infinite and either all objects are
\* gone or its acknowledgement was lost (vx_context.c 821-884, 975-1047).
CallReturns ==
    \A c \in Callers : (caller[c].pc # "idle") ~> (caller[c].pc = "idle" \/ Stuck(c))
=============================================================================
