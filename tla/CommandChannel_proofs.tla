------------------------ MODULE CommandChannel_proofs ------------------------
(***************************************************************************)
(* Proofs about CommandChannel, for any number of threads, targets and     *)
(* command objects, any number of sends that fail and any timeouts.        *)
(*                                                                         *)
(* The argument: a command descriptor is in one place at a time, a job     *)
(* queue, the hands of a target's task, or its acknowledgement event, and  *)
(* only an object whose descriptor is in none of them is in free_queue.    *)
(* A descriptor that is somewhere therefore still stands for the call it   *)
(* was filled in for, also when that call has timed out.                   *)
(***************************************************************************)
EXTENDS CommandChannel, QueueLemmas

\* The task of target t executes the command in descriptor o.
Executes(t, o) == task[t].busy /\ task[t].obj = o

\* A descriptor is in one place at a time ...
OnePlace ==
    /\ \A t \in Targets : Distinct(job_queue[t])
    /\ \A o \in Objects, t, u \in Targets :
         /\ In(o, job_queue[t]) /\ In(o, job_queue[u]) => t = u
         /\ Executes(t, o) /\ Executes(u, o) => t = u
         /\ ~(In(o, job_queue[t]) /\ Executes(u, o))
         /\ ack_event[o] => ~In(o, job_queue[t]) /\ ~Executes(t, o)

\* ... and an object has one holder, who has the descriptor to himself before it is sent
\* and after it has come back.
OneHolder ==
    /\ FreeIsQuiet
    /\ \A o \in Objects, c, d \in Callers : Holds(c, o) /\ Holds(d, o) => c = d
    /\ \A c \in Callers : caller[c].pc \in {"send", "acked"} => ~UnderWay(caller[c].obj)

\* Descriptor o stands for the call it was last filled in for.
Sent(c, o) == caller[c].pc \in {"wait", "acked", "timed_out"} /\ caller[c].obj = o
Active(o) == UnderWay(o) \/ \E c \in Callers : Sent(c, o)

\* Descriptor o has the result of its call.
HasResult(o) ==
    desc[o].cmd_status \in {"ok", "fail"} /\ calls[desc[o].call].result = desc[o].cmd_status

NotRun(k) == calls[k].runs = 0 /\ calls[k].result = "none"

\* The thread in a call, and the descriptor that stands for it once it is sent.
CallersApart ==
    /\ \A c \in Callers : caller[c].pc # "idle" =>
         /\ caller[c].call \in 1 .. Len(calls)
         /\ calls[caller[c].call].by = c /\ calls[caller[c].call].answer = "none"
    /\ \A c \in Callers : caller[c].pc \in {"get", "send"} =>
         /\ NotRun(caller[c].call)
         /\ \A o \in Objects : Active(o) => desc[o].call # caller[c].call
    /\ \A c \in Callers, o \in Objects : Sent(c, o) => desc[o].call = caller[c].call
    /\ \A o, p \in Objects :
         Active(o) /\ Active(p) /\ desc[o].call = desc[p].call => o = p

\* How far a call is, by where its descriptor is.
Progress ==
    /\ \A o \in Objects : UnderWay(o) =>
         desc[o].call \in 1 .. Len(calls) /\ calls[desc[o].call].answer # "error"
    /\ \A o \in Objects, t \in Targets :
         /\ In(o, job_queue[t]) => IF desc[o].is_ack THEN HasResult(o) ELSE NotRun(desc[o].call)
         /\ Executes(t, o) => /\ task[t].call = desc[o].call
                              /\ calls[desc[o].call].runs = 1
                              /\ calls[desc[o].call].result = "none"
    /\ \A o \in Objects : ack_event[o] => HasResult(o)
    /\ \A c \in Callers : caller[c].pc = "acked" => HasResult(caller[c].obj)

ChannelInv ==
    /\ ChannelTypeOK /\ OnePlace /\ OneHolder /\ CallersApart /\ Progress
    /\ ExecutedAtMostOnce /\ AnswerIsOwn

-----------------------------------------------------------------------------
\* Queues and calls.

Call == [by : Callers, dst : Targets, cmd : Commands, runs : Nat,
         result : Statuses, answer : Answers]

LEMMA AppendIn ==
  ASSUME NEW queue \in Seq(Objects), NEW o \in Objects
  PROVE  /\ Append(queue, o) \in Seq(Objects)
         /\ \A p \in Objects : In(p, Append(queue, o)) <=> In(p, queue) \/ p = o
         /\ Distinct(queue) /\ ~In(o, queue) => Distinct(Append(queue, o))
  BY AppendIsIn DEF In, IsIn

LEMMA TailIn ==
  ASSUME NEW queue \in Seq(Objects), queue # <<>>, Distinct(queue)
  PROVE  /\ Head(queue) \in Objects /\ Tail(queue) \in Seq(Objects)
         /\ In(Head(queue), queue) /\ Distinct(Tail(queue))
         /\ \A p \in Objects : In(p, Tail(queue)) <=> In(p, queue) /\ p # Head(queue)
<1>1. /\ Head(queue) \in Objects /\ Tail(queue) \in Seq(Objects) /\ Distinct(Tail(queue))
      /\ \A p \in Objects : In(p, Tail(queue)) <=> In(p, queue) /\ p # Head(queue)
      /\ Len(queue) \in Nat \ {0} /\ Head(queue) = queue[1]
  BY TailIsIn DEF In, IsIn
<1> QED BY <1>1 DEF In

LEMMA UpdateCall ==
  ASSUME calls \in Seq(Call), NEW k \in 1 .. Len(calls), NEW r \in Call,
         calls' = [calls EXCEPT ![k] = r]
  PROVE  /\ calls' \in Seq(Call) /\ Len(calls') = Len(calls) /\ Len(calls) \in Nat
         /\ calls'[k] = r
         /\ \A j \in 1 .. Len(calls) : j # k => calls'[j] = calls[j]
         /\ \A j \in 1 .. Len(calls) : calls[j] \in Call
  BY ExceptSeq, ElementOfSeq, LenProperties

\* A thread's own step leaves the others where they are.
LEMMA UpdateCaller ==
  ASSUME ChannelTypeOK, NEW c \in Callers, NEW s, caller' = [caller EXCEPT ![c] = s]
  PROVE  caller'[c] = s /\ \A d \in Callers : d # c => caller'[d] = caller[d]
  BY DEF ChannelTypeOK

\* The descriptor of the thread's object gets the number of its call.
LEMMA FillsIn ==
  ASSUME ChannelTypeOK, NEW c \in Callers, FillDescriptor(c)
  PROVE  /\ desc' \in [Objects -> [call : 0 .. Len(calls), is_ack : BOOLEAN,
                                    cmd_status : Statuses]]
         /\ desc'[caller[c].obj].call = caller[c].call
         /\ ~desc'[caller[c].obj].is_ack
         /\ \A o \in Objects : o # caller[c].obj => desc'[o] = desc[o]
<1> DEFINE obj == caller[c].obj
           r == [desc[obj] EXCEPT !.call = caller[c].call, !.is_ack = FALSE]
<1>1. desc' = [desc EXCEPT ![obj] = r]
  BY DEF FillDescriptor
<1>0. /\ obj \in Objects /\ caller[c].call \in 0 .. Len(calls)
      /\ desc[obj] \in [call : 0 .. Len(calls), is_ack : BOOLEAN, cmd_status : Statuses]
  BY DEF ChannelTypeOK
<1>2. obj \in Objects /\ r \in [call : 0 .. Len(calls), is_ack : BOOLEAN, cmd_status : Statuses]
      /\ r.call = caller[c].call /\ r.is_ack = FALSE
  BY <1>0
<1> QED BY <1>1, <1>2 DEF ChannelTypeOK

-----------------------------------------------------------------------------
\* The invariant.

LEMMA ChannelInit == ASSUME Init PROVE ChannelInv
<1> USE DEF Init
<1>1. NumObjects \in Nat /\ 0 \in Objects
  BY ChannelAssumption DEF Objects
<1>2. free_queue \in Seq(Objects) /\ Len(free_queue) = NumObjects
      /\ \A i \in 1 .. NumObjects : free_queue[i] = i - 1
  <2>1. free_queue \in [1 .. NumObjects -> Objects]
    BY <1>1 DEF Objects
  <2> QED BY <1>1, <2>1, SeqDef, LenProperties
<1>3. Len(<<>>) = 0 /\ <<>> \in Seq(Objects) /\ <<>> \in Seq(Call)
  BY EmptySeq
<1>4. ChannelTypeOK
  BY <1>1, <1>2, <1>3, ChannelAssumption
  DEF ChannelTypeOK, IdleTask, IdleCaller, Statuses, Call
<1>5. \A o \in Objects : ~UnderWay(o) /\ \A c \in Callers : ~Holds(c, o) /\ ~Sent(c, o)
  BY <1>3 DEF UnderWay, Holds, Sent, In, IdleTask, IdleCaller
<1>6. OnePlace
  BY <1>3 DEF OnePlace, Distinct, In, Executes, IdleTask
<1>7. OneHolder
  BY <1>1, <1>2, <1>5 DEF OneHolder, FreeIsQuiet, IdleCaller
<1>8. CallersApart /\ Progress /\ ExecutedAtMostOnce /\ AnswerIsOwn
  BY <1>3, <1>5 DEF CallersApart, Progress, ExecutedAtMostOnce, AnswerIsOwn, Active, IdleCaller,
                    UnderWay, Executes
<1> QED BY <1>4, <1>6, <1>7, <1>8 DEF ChannelInv

\* A thread starts a call.
LEMMA SendCmdStep ==
  ASSUME ChannelInv, NEW c \in Callers, NEW t \in Targets, NEW m \in Commands, SendCmd(c, t, m)
  PROVE  ChannelInv'
<1> USE DEF ChannelInv
<1> DEFINE k == Len(calls) + 1
           r == [by |-> c, dst |-> t, cmd |-> m, runs |-> 0,
                 result |-> "none", answer |-> "none"]
<1>1. /\ calls \in Seq(Call) /\ Len(calls) \in Nat /\ r \in Call
      /\ \A j \in 1 .. Len(calls) : calls[j] \in Call
  BY ElementOfSeq, LenProperties DEF ChannelTypeOK, Call, Statuses, Answers
<1>2. /\ calls' \in Seq(Call) /\ Len(calls') = k /\ calls'[k] = r
      /\ \A j \in 1 .. Len(calls) : calls'[j] = calls[j]
      /\ \A j \in 1 .. k : j \in 1 .. Len(calls) \/ j = k
  BY <1>1, AppendIsIn DEF SendCmd
<1>3. /\ UNCHANGED <<free_queue, pend_queue, desc, ack_event, job_queue, task, send_errors>>
      /\ caller[c].pc = "idle"
  BY DEF SendCmd
<1>4. /\ caller'[c] = [pc |-> "get", obj |-> 0, call |-> k]
      /\ \A d \in Callers : d # c => caller'[d] = caller[d]
  BY UpdateCaller DEF SendCmd
<1>5. ChannelTypeOK'
  <2>1. 0 \in Objects /\ 0 .. Len(calls) \subseteq 0 .. Len(calls') /\ k \in 0 .. Len(calls')
    BY <1>1, <1>2, ChannelAssumption DEF Objects
  <2>2. caller' \in [Callers -> [pc : {"idle", "get", "send", "wait", "acked", "timed_out"},
                                 obj : Objects, call : 0 .. Len(calls')]]
    BY <1>2, <2>1 DEF ChannelTypeOK, SendCmd
  <2>3. /\ desc \in [Objects -> [call : 0 .. Len(calls'), is_ack : BOOLEAN,
                                 cmd_status : Statuses]]
        /\ task \in [Targets -> [busy : BOOLEAN, obj : Objects, call : 0 .. Len(calls')]]
    BY <2>1 DEF ChannelTypeOK
  <2> QED BY <1>2, <1>3, <2>2, <2>3 DEF ChannelTypeOK, Call
<1>6. OnePlace'
  BY <1>3 DEF OnePlace, Executes
<1>7. /\ \A o \in Objects : UnderWay(o)' <=> UnderWay(o)
      /\ \A o \in Objects, d \in Callers : (Holds(d, o)' <=> Holds(d, o)) /\ (Sent(d, o)' <=> Sent(d, o))
  BY <1>3, <1>4 DEF UnderWay, Holds, Sent
<1>8. \A o \in Objects : (Active(o)' <=> Active(o)) /\ desc[o].call \in 0 .. Len(calls)
  BY <1>7 DEF Active, ChannelTypeOK
<1>9. OneHolder'
  <2>1. FreeIsQuiet'
    BY <1>3, <1>7 DEF OneHolder, FreeIsQuiet
  <2>2. \A d \in Callers : caller'[d].pc \in {"send", "acked"} =>
           d # c /\ caller'[d] = caller[d] /\ caller[d].obj \in Objects
    BY <1>4 DEF ChannelTypeOK
  <2> QED BY <1>7, <2>1, <2>2 DEF OneHolder
<1>10. CallersApart'
  <2>1. \A o \in Objects : desc[o].call # k
    BY <1>1, <1>8
  <2>2. \A o \in Objects, d \in Callers : Sent(d, o) => d # c
    BY <1>3 DEF Sent
  <2> QED BY <1>1, <1>2, <1>3, <1>4, <1>7, <1>8, <2>1, <2>2 DEF CallersApart, NotRun
<1>11. Progress'
  <2>1. \A o \in Objects : UnderWay(o) =>
          desc[o].call \in 1 .. Len(calls) /\ calls'[desc[o].call] = calls[desc[o].call]
    BY <1>2 DEF Progress
  <2>2. \A d \in Callers : caller[d].pc = "acked" =>
          /\ caller[d].obj \in Objects /\ Sent(d, caller[d].obj)
          /\ calls'[desc[caller[d].obj].call] = calls[desc[caller[d].obj].call]
    <3>1. \A d \in Callers : caller[d].pc = "acked" =>
             caller[d].obj \in Objects /\ Sent(d, caller[d].obj)
      BY DEF ChannelTypeOK, Sent
    <3>2. \A d \in Callers : caller[d].pc = "acked" =>
             desc[caller[d].obj].call = caller[d].call /\ caller[d].call \in 1 .. Len(calls)
      BY <3>1 DEF CallersApart
    <3> QED BY <1>2, <3>1, <3>2
  <2>3. \A o \in Objects, u \in Targets :
           In(o, job_queue[u]) \/ Executes(u, o) \/ ack_event[o] => UnderWay(o)
    BY DEF UnderWay, Executes
  <2> QED BY <1>2, <1>3, <1>4, <1>7, <2>1, <2>2, <2>3
          DEF Progress, HasResult, NotRun, Executes
<1>12. ExecutedAtMostOnce' /\ AnswerIsOwn'
  BY <1>2 DEF ExecutedAtMostOnce, AnswerIsOwn
<1> QED BY <1>5, <1>6, <1>9, <1>10, <1>11, <1>12

\* A thread takes an object: nobody else has it, and its descriptor is nowhere.
LEMMA GetObjectStep ==
  ASSUME ChannelInv, NEW c \in Callers, GetObject(c)
  PROVE  ChannelInv'
<1> USE DEF ChannelInv
<1> DEFINE o == Head(free_queue)
<1>1. /\ caller[c].pc = "get"
      /\ UNCHANGED <<pend_queue, desc, ack_event, job_queue, task, send_errors, calls>>
      /\ caller' = [caller EXCEPT ![c] = [caller[c] EXCEPT !.pc = "send", !.obj = o]]
  BY DEF GetObject
<1>2. /\ caller'[c] = [pc |-> "send", obj |-> o, call |-> caller[c].call]
      /\ \A d \in Callers : d # c => caller'[d] = caller[d]
  <2>1. /\ caller'[c] = [caller[c] EXCEPT !.pc = "send", !.obj = o]
        /\ \A d \in Callers : d # c => caller'[d] = caller[d]
    BY <1>1, UpdateCaller
  <2>2. caller[c] \in [pc : {"idle", "get", "send", "wait", "acked", "timed_out"},
                      obj : Objects, call : 0 .. Len(calls)]
    BY DEF ChannelTypeOK
  <2> QED BY <2>1, <2>2
<1>3. /\ o \in Objects /\ free_queue' \in Seq(Objects) /\ In(o, free_queue)
      /\ Distinct(free_queue')
      /\ \A p \in Objects : In(p, free_queue') <=> In(p, free_queue) /\ p # o
  <2>1. free_queue \in Seq(Objects) /\ free_queue # <<>> /\ Distinct(free_queue)
        /\ free_queue' = Tail(free_queue)
    BY DEF GetObject, ChannelTypeOK, OneHolder, FreeIsQuiet, Distinct
  <2>2. o = Head(free_queue)
    OBVIOUS
  <2>3. /\ o \in Objects /\ Tail(free_queue) \in Seq(Objects) /\ In(o, free_queue)
        /\ Distinct(Tail(free_queue))
        /\ \A p \in Objects : In(p, Tail(free_queue)) <=> In(p, free_queue) /\ p # o
    BY <2>1, <2>2, TailIn
  <2> QED BY <2>1, <2>3
<1>4. ChannelTypeOK'
  BY <1>1, <1>3 DEF ChannelTypeOK
<1>5. OnePlace'
  BY <1>1 DEF OnePlace, Executes
<1>6. /\ \A p \in Objects : UnderWay(p)' <=> UnderWay(p)
      /\ \A p \in Objects, d \in Callers : (Sent(d, p)' <=> Sent(d, p))
                                          /\ (Holds(d, p)' <=> Holds(d, p) \/ (d = c /\ p = o))
  BY <1>1, <1>2 DEF UnderWay, Holds, Sent
<1>7. OneHolder'
  <2>1. ~UnderWay(o) /\ \A d \in Callers : ~Holds(d, o)
    BY <1>3 DEF OneHolder, FreeIsQuiet
  <2>2. FreeIsQuiet'
    BY <1>3, <1>6 DEF OneHolder, FreeIsQuiet, Distinct
  <2>3. \A d \in Callers : caller'[d].obj \in Objects
    BY <1>4 DEF ChannelTypeOK
  <2>4. \A d \in Callers : d # c => caller'[d].pc = caller[d].pc /\ caller'[d].obj = caller[d].obj
    BY <1>2
  <2> QED BY <1>2, <1>3, <1>6, <2>1, <2>2, <2>3, <2>4 DEF OneHolder
<1>8. CallersApart'
  BY <1>1, <1>2, <1>6 DEF CallersApart, Active, NotRun
<1>9. Progress'
  BY <1>1, <1>2, <1>6 DEF Progress, HasResult, NotRun, Executes
<1>10. ExecutedAtMostOnce' /\ AnswerIsOwn'
  BY <1>1 DEF ExecutedAtMostOnce, AnswerIsOwn
<1> QED BY <1>4, <1>5, <1>7, <1>8, <1>9, <1>10

\* What the return of a call changes.  An object that the thread has is put back or not.
LEMMA ReturnStep ==
  ASSUME ChannelInv, NEW c \in Callers, NEW status \in Answers, Return(c, status),
         caller[c].pc # "idle", send_errors' \in Nat, pend_queue' \in Seq(Objects),
         UNCHANGED <<job_queue, task, ack_event>>,
         free_queue' \in Seq(Objects), Distinct(free_queue'),
         \/ UNCHANGED desc
         \/ caller[c].pc = "send" /\ FillDescriptor(c),
         \A o \in Objects : In(o, free_queue') =>
            In(o, free_queue) \/ (caller[c].pc = "acked" /\ o = caller[c].obj),
         status = "error" => caller[c].pc = "send",
         status = "success" => caller[c].pc = "acked" /\ desc[caller[c].obj].cmd_status = "ok",
         status = "failure" => caller[c].pc = "acked" /\ desc[caller[c].obj].cmd_status # "ok"
  PROVE  ChannelInv'
<1> USE DEF ChannelInv
<1> DEFINE k == caller[c].call
           obj == caller[c].obj
<1>1. /\ caller'[c] = IdleCaller /\ \A d \in Callers : d # c => caller'[d] = caller[d]
      /\ k \in 1 .. Len(calls) /\ obj \in Objects /\ Len(calls) \in Nat
      /\ calls[k].by = c /\ calls[k].answer = "none" /\ calls \in Seq(Call)
  BY UpdateCaller, LenProperties DEF Return, CallersApart, ChannelTypeOK, Call
<1>2. /\ calls' \in Seq(Call) /\ Len(calls') = Len(calls)
      /\ calls'[k].answer = status
      /\ \A j \in 1 .. Len(calls) : /\ j # k => calls'[j].answer = calls[j].answer
                                    /\ calls'[j].by = calls[j].by
                                    /\ calls'[j].runs = calls[j].runs
                                    /\ calls'[j].result = calls[j].result
  <2>0. calls[k] \in Call
    BY <1>1, ElementOfSeq
  <2>1. [calls[k] EXCEPT !.answer = status] \in Call
    BY <2>0 DEF Call
  <2>2. calls' = [calls EXCEPT ![k] = [calls[k] EXCEPT !.answer = status]]
    BY <1>1 DEF Return
  <2>3. /\ calls' \in Seq(Call) /\ Len(calls') = Len(calls)
        /\ calls'[k] = [calls[k] EXCEPT !.answer = status]
        /\ \A j \in 1 .. Len(calls) : j # k => calls'[j] = calls[j]
    BY <1>1, <2>1, <2>2, UpdateCall
  <2> QED BY <2>0, <2>3 DEF Call
<1>3. \A o \in Objects : desc'[o] = desc[o] \/ (o = obj /\ caller[c].pc = "send")
  BY FillsIn
<1>4. desc' \in [Objects -> [call : 0 .. Len(calls'), is_ack : BOOLEAN, cmd_status : Statuses]]
  BY <1>2, FillsIn DEF ChannelTypeOK
<1>5. ChannelTypeOK'
  <2>1. 0 \in Objects /\ 0 \in 0 .. Len(calls)
    BY <1>1, ChannelAssumption DEF Objects
  <2>2. caller' \in [Callers -> [pc : {"idle", "get", "send", "wait", "acked", "timed_out"},
                                 obj : Objects, call : 0 .. Len(calls')]]
    BY <1>2, <2>1 DEF ChannelTypeOK, Return, IdleCaller
  <2> QED BY <1>2, <1>4, <2>2 DEF ChannelTypeOK, Call
<1>6. OnePlace'
  BY DEF OnePlace, Executes
<1>7. /\ \A o \in Objects : UnderWay(o)' <=> UnderWay(o)
      /\ \A o \in Objects, d \in Callers : /\ Sent(d, o)' <=> Sent(d, o) /\ d # c
                                           /\ Holds(d, o)' <=> Holds(d, o) /\ d # c
      /\ \A o \in Objects : Active(o)' => Active(o)
  <2>1. /\ \A o \in Objects : UnderWay(o)' <=> UnderWay(o)
        /\ \A o \in Objects, d \in Callers : /\ Sent(d, o)' <=> Sent(d, o) /\ d # c
                                             /\ Holds(d, o)' <=> Holds(d, o) /\ d # c
    BY <1>1 DEF UnderWay, Holds, Sent, IdleCaller
  <2> QED BY <2>1 DEF Active
<1>8. caller[c].pc \in {"send", "acked"} =>
        /\ ~UnderWay(obj) /\ Holds(c, obj)
        /\ \A d \in Callers : d # c => ~Holds(d, obj)
  BY <1>1 DEF OneHolder, Holds
<1>9. OneHolder'
  <2>1. FreeIsQuiet'
    BY <1>1, <1>7, <1>8 DEF OneHolder, FreeIsQuiet, Distinct
  <2>2. \A d \in Callers : d # c => caller[d].obj \in Objects
    BY DEF ChannelTypeOK
  <2> QED BY <1>1, <1>7, <2>1, <2>2 DEF OneHolder, IdleCaller
\* A descriptor that is filled in without being sent stands for no call.
<1>10. \A o \in Objects : Active(o)' => desc'[o] = desc[o]
  BY <1>3, <1>7, <1>8 DEF Active, Holds, Sent
<1>11. CallersApart'
  <2>1. \A d \in Callers : caller'[d].pc # "idle" => d # c /\ caller'[d] = caller[d]
    BY <1>1 DEF IdleCaller
  <2>2. \A d \in Callers : d # c /\ caller[d].pc # "idle" =>
          /\ caller[d].call \in 1 .. Len(calls) /\ caller[d].call # k
          /\ calls'[caller[d].call].by = d /\ calls'[caller[d].call].answer = "none"
    <3>1. \A d \in Callers : d # c /\ caller[d].pc # "idle" =>
             /\ caller[d].call \in 1 .. Len(calls) /\ calls[caller[d].call].by = d
             /\ calls[caller[d].call].answer = "none"
      BY DEF CallersApart
    <3>2. \A d \in Callers : d # c /\ caller[d].pc # "idle" => caller[d].call # k
      BY <1>1, <3>1
    <3> QED BY <1>2, <3>1, <3>2
  <2>3. \A d \in Callers : d # c /\ caller[d].pc \in {"get", "send"} =>
          /\ NotRun(caller[d].call)'
          /\ \A o \in Objects : Active(o)' => desc'[o].call # caller[d].call
    <3>1. ASSUME NEW d \in Callers, d # c, caller[d].pc \in {"get", "send"}
          PROVE  NotRun(caller[d].call) /\ caller[d].call \in 1 .. Len(calls)
                 /\ \A o \in Objects : Active(o) => desc[o].call # caller[d].call
      BY <3>1 DEF CallersApart
    <3>2. ASSUME NEW d \in Callers, d # c, caller[d].pc \in {"get", "send"}
          PROVE  NotRun(caller[d].call)'
      <4>1. caller'[d].call = caller[d].call
        BY <1>1, <3>2
      <4> QED BY <1>2, <3>1, <3>2, <4>1 DEF NotRun
    <3>3. ASSUME NEW d \in Callers, d # c, caller[d].pc \in {"get", "send"},
                 NEW o \in Objects, Active(o)'
          PROVE  desc'[o].call # caller[d].call
      <4>1. desc'[o] = desc[o] /\ Active(o)
        BY <1>7, <1>10, <3>3
      <4> QED BY <3>1, <3>3, <4>1
    <3> QED BY <3>2, <3>3
  <2>4. \A d \in Callers, o \in Objects : Sent(d, o)' => desc'[o].call = caller'[d].call
    BY <1>1, <1>7, <1>10 DEF CallersApart, Active
  <2>5. \A o, p \in Objects :
           Active(o)' /\ Active(p)' /\ desc'[o].call = desc'[p].call => o = p
    BY <1>7, <1>10 DEF CallersApart
  <2> QED BY <1>2, <2>1, <2>2, <2>3, <2>4, <2>5 DEF CallersApart, NotRun
<1>12. Progress'
  <2>1. \A o \in Objects : UnderWay(o) =>
          /\ Active(o)' /\ desc'[o] = desc[o] /\ desc[o].call \in 1 .. Len(calls)
          /\ caller[c].pc = "send" => desc[o].call # k
    BY <1>7, <1>10 DEF Active, Progress, CallersApart
  <2>2. \A d \in Callers : d # c /\ caller[d].pc = "acked" =>
          /\ Active(caller[d].obj)' /\ desc'[caller[d].obj] = desc[caller[d].obj]
          /\ desc[caller[d].obj].call \in 1 .. Len(calls)
    <3>1. ASSUME NEW d \in Callers, d # c, caller[d].pc = "acked"
          PROVE  /\ Active(caller[d].obj)' /\ desc'[caller[d].obj] = desc[caller[d].obj]
                 /\ desc[caller[d].obj].call \in 1 .. Len(calls)
      <4>1. caller[d].obj \in Objects /\ Sent(d, caller[d].obj)
        BY <3>1 DEF ChannelTypeOK, Sent
      <4>2. Sent(d, caller[d].obj)'
        BY <1>1, <3>1 DEF Sent
      <4>3. Active(caller[d].obj)'
        BY <1>1, <3>1, <4>2 DEF Active
      <4>4. desc'[caller[d].obj] = desc[caller[d].obj]
        BY <1>3, <1>8, <3>1, <4>1 DEF Holds
      <4> QED BY <3>1, <4>1, <4>3, <4>4 DEF CallersApart
    <3> QED BY <3>1
  <2>3. \A o \in Objects, u \in Targets :
           In(o, job_queue[u]) \/ Executes(u, o) => UnderWay(o)
    BY DEF UnderWay, Executes
  <2>4. \A o \in Objects : UnderWay(o)' =>
           desc'[o].call \in 1 .. Len(calls') /\ calls'[desc'[o].call].answer # "error"
    <3>1. ASSUME NEW o \in Objects, UnderWay(o)
          PROVE  calls'[desc[o].call].answer # "error"
      <4>1. calls[desc[o].call].answer # "error" /\ desc[o].call \in 1 .. Len(calls)
        BY <3>1 DEF Progress
      <4> QED BY <1>2, <2>1, <3>1, <4>1
    <3> QED BY <1>2, <1>7, <2>1, <3>1
  <2>5. ASSUME NEW o \in Objects, NEW t \in Targets
        PROVE  /\ In(o, job_queue'[t]) =>
                    IF desc'[o].is_ack THEN HasResult(o)' ELSE NotRun(desc[o].call)'
               /\ Executes(t, o)' => /\ task'[t].call = desc'[o].call
                                     /\ calls'[desc'[o].call].runs = 1
                                     /\ calls'[desc'[o].call].result = "none"
    <3>1. UnderWay(o) =>
             /\ desc'[o] = desc[o] /\ desc[o].call \in 1 .. Len(calls)
             /\ calls'[desc[o].call].runs = calls[desc[o].call].runs
             /\ calls'[desc[o].call].result = calls[desc[o].call].result
      BY <1>2, <2>1
    <3>2. In(o, job_queue[t]) =>
            IF desc[o].is_ack THEN HasResult(o) ELSE NotRun(desc[o].call)
      BY DEF Progress
    <3>3. Executes(t, o) => /\ task[t].call = desc[o].call
                            /\ calls[desc[o].call].runs = 1
                            /\ calls[desc[o].call].result = "none"
      BY DEF Progress
    <3>4. ASSUME In(o, job_queue'[t])
          PROVE  IF desc'[o].is_ack THEN HasResult(o)' ELSE NotRun(desc[o].call)'
      <4>1. In(o, job_queue[t]) /\ UnderWay(o)
        BY <2>3, <3>4
      <4> QED BY <3>1, <3>2, <4>1 DEF HasResult, NotRun
    <3>5. ASSUME Executes(t, o)'
          PROVE  /\ task'[t].call = desc'[o].call
                 /\ calls'[desc'[o].call].runs = 1
                 /\ calls'[desc'[o].call].result = "none"
      <4>1. Executes(t, o) /\ UnderWay(o) /\ task' = task
        BY <2>3, <3>5 DEF Executes
      <4> QED BY <3>1, <3>3, <4>1
    <3> QED BY <3>4, <3>5
  <2>6. \A o \in Objects : ack_event'[o] => HasResult(o)'
    BY <1>2, <2>1 DEF Progress, HasResult, UnderWay
  <2>7. \A d \in Callers : caller'[d].pc = "acked" => HasResult(caller[d].obj)' /\ d # c
    <3>1. ASSUME NEW d \in Callers, caller'[d].pc = "acked"
          PROVE  HasResult(caller[d].obj)' /\ d # c
      <4>1. d # c /\ caller'[d] = caller[d] /\ caller[d].pc = "acked"
        BY <1>1, <3>1 DEF IdleCaller
      <4>2. HasResult(caller[d].obj)
        BY <4>1 DEF Progress
      <4> QED BY <1>2, <2>2, <4>1, <4>2 DEF HasResult
    <3> QED BY <3>1
  <2> QED BY <2>4, <2>5, <2>6, <2>7 DEF Progress
<1>13. ExecutedAtMostOnce'
  <2>1. status = "error" => calls[k].runs = 0
    BY DEF CallersApart, NotRun
  <2>2. calls[k].runs <= 1
    BY <1>1 DEF ExecutedAtMostOnce
  <2>3. ASSUME NEW j \in 1 .. Len(calls)
        PROVE  calls'[j].runs <= IF calls'[j].answer = "error" THEN 0 ELSE 1
    <3>1. CASE j = k
      BY <1>2, <2>1, <2>2, <3>1
    <3>2. CASE j # k
      BY <1>2, <3>2 DEF ExecutedAtMostOnce
    <3> QED BY <3>1, <3>2
  <2> QED BY <1>2, <2>3 DEF ExecutedAtMostOnce
<1>14. AnswerIsOwn'
  <2>1. caller[c].pc = "acked" => /\ desc[obj].call = k /\ HasResult(obj)
    BY <1>1 DEF CallersApart, Progress, Sent
  <2> QED BY <1>1, <1>2, <2>1, SMTT(30) DEF AnswerIsOwn, HasResult
<1> QED BY <1>5, <1>6, <1>9, <1>11, <1>12, <1>13, <1>14

LEMMA GetTimeoutStep ==
  ASSUME ChannelInv, NEW c \in Callers, GetTimeout(c) PROVE ChannelInv'
<1>1. /\ free_queue' \in Seq(Objects) /\ Distinct(free_queue') /\ pend_queue' \in Seq(Objects)
      /\ send_errors' \in Nat
  BY DEF ChannelInv, ChannelTypeOK, OneHolder, FreeIsQuiet, Distinct, GetTimeout
<1>2. "timeout" \in Answers
  BY DEF Answers
<1> QED BY <1>1, <1>2, ReturnStep DEF GetTimeout

LEMMA SendFailedStep ==
  ASSUME ChannelInv, NEW c \in Callers, SendFailed(c) PROVE ChannelInv'
<1>1. /\ free_queue' \in Seq(Objects) /\ Distinct(free_queue') /\ pend_queue' \in Seq(Objects)
      /\ send_errors' \in Nat
  BY DEF ChannelInv, ChannelTypeOK, OneHolder, FreeIsQuiet, Distinct, SendFailed
<1>2. "error" \in Answers
  BY DEF Answers
<1> QED BY <1>1, <1>2, ReturnStep DEF SendFailed

\* The thread that has the answer puts back an object that only it has.
LEMMA FinishStep ==
  ASSUME ChannelInv, NEW c \in Callers, Finish(c) PROVE ChannelInv'
<1> DEFINE obj == caller[c].obj
<1>1. /\ free_queue \in Seq(Objects) /\ obj \in Objects /\ Holds(c, obj)
      /\ pend_queue' \in Seq(Objects) /\ send_errors' \in Nat
  BY DEF ChannelInv, ChannelTypeOK, Finish, Holds
<1>2. ~In(obj, free_queue) /\ Distinct(free_queue)
  BY <1>1 DEF ChannelInv, OneHolder, FreeIsQuiet, Distinct
<1>3. /\ free_queue' \in Seq(Objects) /\ Distinct(free_queue')
      /\ \A o \in Objects : In(o, free_queue') <=> In(o, free_queue) \/ o = obj
  BY <1>1, <1>2, AppendIn DEF Finish
<1>4. /\ AckStatus(c) \in {"success", "failure"} /\ {"success", "failure"} \subseteq Answers
      /\ AckStatus(c) = "success" <=> desc[obj].cmd_status = "ok"
  BY DEF AckStatus, Answers
<1> QED BY <1>1, <1>3, <1>4, ReturnStep DEF Finish

LEMMA ExpireStep ==
  ASSUME ChannelInv, NEW c \in Callers, Expire(c) PROVE ChannelInv'
<1>1. /\ free_queue' \in Seq(Objects) /\ Distinct(free_queue') /\ send_errors' \in Nat
      /\ pend_queue \in Seq(Objects) /\ caller[c].obj \in Objects
  BY DEF ChannelInv, ChannelTypeOK, OneHolder, FreeIsQuiet, Distinct, Expire
<1>2. pend_queue' \in Seq(Objects)
  BY <1>1, AppendIn DEF Expire
<1>3. "timeout" \in Answers
  BY DEF Answers
<1> QED BY <1>1, <1>2, <1>3, ReturnStep DEF Expire

\* The descriptor is queued: it was nowhere, and now stands for the call.
LEMMA SendStep ==
  ASSUME ChannelInv, NEW c \in Callers, Send(c)
  PROVE  ChannelInv'
<1> USE DEF ChannelInv
<1> DEFINE k == caller[c].call
           obj == caller[c].obj
           t == calls[k].dst
<1>1. /\ caller[c].pc = "send" /\ FillDescriptor(c)
      /\ job_queue' = [job_queue EXCEPT ![t] = Append(job_queue[t], obj)]
      /\ caller' = [caller EXCEPT ![c] = [caller[c] EXCEPT !.pc = "wait"]]
      /\ UNCHANGED <<free_queue, pend_queue, ack_event, task, send_errors, calls>>
  BY DEF Send, Enqueued
<1>2. /\ k \in 1 .. Len(calls) /\ obj \in Objects /\ t \in Targets
      /\ caller[c] \in [pc : {"idle", "get", "send", "wait", "acked", "timed_out"},
                        obj : Objects, call : 0 .. Len(calls)]
      /\ job_queue[t] \in Seq(Objects)
  <2>1. k \in 1 .. Len(calls)
    BY <1>1 DEF CallersApart
  <2>2. caller[c] \in [pc : {"idle", "get", "send", "wait", "acked", "timed_out"},
                       obj : Objects, call : 0 .. Len(calls)]
    BY DEF ChannelTypeOK
  <2>3. calls \in Seq(Call)
    BY DEF ChannelTypeOK, Call
  <2>4. calls[k] \in Call
    BY <2>1, <2>3, ElementOfSeq
  <2>5. t \in Targets
    BY <2>4 DEF Call
  <2> QED BY <2>1, <2>2, <2>5 DEF ChannelTypeOK
<1>3. /\ caller'[c] = [pc |-> "wait", obj |-> obj, call |-> k]
      /\ \A d \in Callers : d # c => caller'[d] = caller[d]
  <2>1. /\ caller'[c] = [caller[c] EXCEPT !.pc = "wait"]
        /\ \A d \in Callers : d # c => caller'[d] = caller[d]
    BY <1>1, UpdateCaller
  <2> QED BY <1>2, <2>1
<1>4. /\ desc' \in [Objects -> [call : 0 .. Len(calls), is_ack : BOOLEAN, cmd_status : Statuses]]
      /\ desc'[obj].call = k /\ ~desc'[obj].is_ack
      /\ \A o \in Objects : o # obj => desc'[o] = desc[o]
  BY <1>1, FillsIn
<1>5. /\ ~UnderWay(obj) /\ Holds(c, obj) /\ ~In(obj, free_queue)
      /\ \A d \in Callers : d # c => ~Holds(d, obj)
  <2>1. ~UnderWay(obj) /\ Holds(c, obj)
    BY <1>1 DEF OneHolder, Holds
  <2> QED BY <1>2, <2>1 DEF OneHolder, FreeIsQuiet
<1>6. /\ job_queue' \in [Targets -> Seq(Objects)]
      /\ \A u \in Targets : Distinct(job_queue'[u])
      /\ \A o \in Objects, u \in Targets :
            In(o, job_queue'[u]) <=> In(o, job_queue[u]) \/ (u = t /\ o = obj)
  <2>1. ~In(obj, job_queue[t]) /\ Distinct(job_queue[t])
    BY <1>2, <1>5 DEF UnderWay, OnePlace
  <2>2. /\ Append(job_queue[t], obj) \in Seq(Objects) /\ Distinct(Append(job_queue[t], obj))
        /\ \A o \in Objects : In(o, Append(job_queue[t], obj)) <=> In(o, job_queue[t]) \/ o = obj
    BY <1>2, <2>1, AppendIn
  <2>3. /\ job_queue'[t] = Append(job_queue[t], obj)
        /\ \A u \in Targets : u # t => job_queue'[u] = job_queue[u]
        /\ job_queue' \in [Targets -> Seq(Objects)]
    BY <1>1, <1>2, <2>2 DEF ChannelTypeOK
  <2> QED BY <2>2, <2>3 DEF OnePlace
<1>7. ChannelTypeOK'
  <2>1. caller' \in [Callers -> [pc : {"idle", "get", "send", "wait", "acked", "timed_out"},
                                 obj : Objects, call : 0 .. Len(calls')]]
    BY <1>1, <1>2, <1>3 DEF ChannelTypeOK
  <2> QED BY <1>1, <1>4, <1>6, <2>1 DEF ChannelTypeOK
<1>8. OnePlace'
  <2>1. \A u \in Targets : ~In(obj, job_queue[u]) /\ ~Executes(u, obj) /\ ~ack_event[obj]
    BY <1>5 DEF UnderWay, Executes
  <2> QED BY <1>1, <1>6, <2>1 DEF OnePlace, Executes
<1>9. /\ \A o \in Objects : UnderWay(o)' <=> UnderWay(o) \/ o = obj
      /\ \A o \in Objects, d \in Callers : /\ Sent(d, o)' <=> Sent(d, o) \/ (d = c /\ o = obj)
                                           /\ Holds(d, o)' <=> Holds(d, o)
  <2>1. \A o \in Objects : UnderWay(o)' <=> UnderWay(o) \/ o = obj
    BY <1>1, <1>2, <1>6 DEF UnderWay
  <2> QED BY <1>1, <1>3, <2>1 DEF Holds, Sent
<1>10. OneHolder'
  <2>1. FreeIsQuiet'
    BY <1>1, <1>5, <1>9 DEF OneHolder, FreeIsQuiet
  <2>2. \A d \in Callers : caller'[d].pc \in {"send", "acked"} =>
           /\ d # c /\ caller'[d] = caller[d] /\ caller[d].obj \in Objects
           /\ caller[d].obj # obj
    <3>1. ASSUME NEW d \in Callers, caller'[d].pc \in {"send", "acked"}
          PROVE  d # c /\ caller'[d] = caller[d] /\ Holds(d, caller[d].obj)
      BY <1>3, <3>1 DEF Holds
    <3>2. \A d \in Callers : caller[d].obj \in Objects
      BY DEF ChannelTypeOK
    <3> QED BY <1>5, <3>1, <3>2
  <2> QED BY <1>9, <2>1, <2>2 DEF OneHolder
<1>11. /\ \A o \in Objects : Active(o)' <=> Active(o) \/ o = obj
       /\ \A o \in Objects : Active(o) => o # obj /\ desc'[o] = desc[o]
  <2>1. \A o \in Objects : Active(o)' <=> Active(o) \/ o = obj
    BY <1>9 DEF Active
  <2>2. ~Active(obj)
    BY <1>1, <1>5 DEF Active, Sent, Holds
  <2> QED BY <1>4, <2>1, <2>2
<1>12. CallersApart'
  <2>1. /\ calls[k].by = c /\ calls[k].answer = "none"
        /\ \A o \in Objects : Active(o) => desc[o].call # k
    BY <1>1 DEF CallersApart
  <2>2. \A d \in Callers : d # c /\ caller[d].pc # "idle" => caller[d].call # k
    BY <2>1 DEF CallersApart
  <2>3. \A d \in Callers : caller'[d].pc \in {"get", "send"} =>
          /\ NotRun(caller'[d].call)
          /\ \A o \in Objects : Active(o)' => desc'[o].call # caller'[d].call
    BY <1>3, <1>4, <1>11, <2>2 DEF CallersApart
  <2>4. \A d \in Callers, o \in Objects : Sent(d, o)' => desc'[o].call = caller'[d].call
    BY <1>3, <1>4, <1>9, <1>11 DEF CallersApart, Active
  <2>5. \A o, p \in Objects :
           Active(o)' /\ Active(p)' /\ desc'[o].call = desc'[p].call => o = p
    BY <1>4, <1>11, <2>1 DEF CallersApart
  <2> QED BY <1>1, <1>2, <1>3, <2>1, <2>3, <2>4, <2>5 DEF CallersApart, NotRun
<1>13. Progress'
  <2>1. NotRun(k) /\ calls[k].answer = "none"
    BY <1>1 DEF CallersApart
  <2>2. \A o \in Objects : UnderWay(o) => o # obj /\ desc'[o] = desc[o]
    BY <1>4, <1>5
  <2>3. \A o \in Objects, u \in Targets :
           In(o, job_queue[u]) \/ Executes(u, o) \/ ack_event[o] => UnderWay(o)
    BY DEF UnderWay, Executes
  <2>4. \A o \in Objects : UnderWay(o)' =>
           desc'[o].call \in 1 .. Len(calls') /\ calls'[desc'[o].call].answer # "error"
    BY <1>1, <1>2, <1>4, <1>9, <2>1, <2>2, SMTT(30) DEF Progress
  <2>5. ASSUME NEW o \in Objects, NEW u \in Targets
        PROVE  /\ In(o, job_queue'[u]) =>
                    IF desc'[o].is_ack THEN HasResult(o)' ELSE NotRun(desc[o].call)'
               /\ Executes(u, o)' => /\ task'[u].call = desc'[o].call
                                     /\ calls'[desc'[o].call].runs = 1
                                     /\ calls'[desc'[o].call].result = "none"
    <3>1. CASE o = obj
      <4>1. ~In(o, job_queue[u]) /\ ~Executes(u, o)
        BY <1>5, <2>3, <3>1
      <4> QED BY <1>1, <1>4, <2>1, <3>1, <4>1 DEF NotRun, Executes
    <3>2. CASE o # obj
      <4>1. /\ desc'[o] = desc[o] /\ calls' = calls /\ task' = task
            /\ In(o, job_queue'[u]) => In(o, job_queue[u])
        BY <1>1, <1>4, <1>6, <3>2
      <4>2. In(o, job_queue[u]) =>
              IF desc[o].is_ack THEN HasResult(o) ELSE NotRun(desc[o].call)
        BY DEF Progress
      <4>3. Executes(u, o) => /\ task[u].call = desc[o].call
                              /\ calls[desc[o].call].runs = 1
                              /\ calls[desc[o].call].result = "none"
        BY DEF Progress
      <4> QED BY <4>1, <4>2, <4>3 DEF HasResult, NotRun, Executes
    <3> QED BY <3>1, <3>2
  <2>6. \A o \in Objects : ack_event'[o] => HasResult(o)'
    BY <1>1, <2>2 DEF Progress, HasResult, UnderWay
  <2>7. ASSUME NEW d \in Callers, caller'[d].pc = "acked" PROVE HasResult(caller[d].obj)'
    <3>1. d # c /\ caller'[d] = caller[d] /\ caller[d].pc = "acked" /\ Holds(d, caller[d].obj)
      BY <1>3, <2>7 DEF Holds
    <3>2. caller[d].obj # obj /\ caller[d].obj \in Objects
      BY <1>5, <3>1 DEF ChannelTypeOK
    <3> QED BY <1>1, <1>4, <3>1, <3>2 DEF Progress, HasResult
  <2> QED BY <2>4, <2>5, <2>6, <2>7 DEF Progress, HasResult, NotRun
<1>14. ExecutedAtMostOnce' /\ AnswerIsOwn'
  BY <1>1 DEF ExecutedAtMostOnce, AnswerIsOwn
<1> QED BY <1>7, <1>8, <1>10, <1>12, <1>13, <1>14

\* The thread takes the event: its object's descriptor is nowhere any more.
LEMMA WaitAckStep ==
  ASSUME ChannelInv, NEW c \in Callers, WaitAck(c)
  PROVE  ChannelInv'
<1> USE DEF ChannelInv
<1> DEFINE obj == caller[c].obj
<1>1. /\ caller[c].pc = "wait" /\ ack_event[obj]
      /\ ack_event' = [ack_event EXCEPT ![obj] = FALSE]
      /\ caller' = [caller EXCEPT ![c] = [caller[c] EXCEPT !.pc = "acked"]]
      /\ UNCHANGED <<free_queue, pend_queue, desc, job_queue, task, send_errors, calls>>
  BY DEF WaitAck
<1>2. /\ obj \in Objects
      /\ caller[c] \in [pc : {"idle", "get", "send", "wait", "acked", "timed_out"},
                        obj : Objects, call : 0 .. Len(calls)]
  BY DEF ChannelTypeOK
<1>3. /\ caller'[c] = [pc |-> "acked", obj |-> obj, call |-> caller[c].call]
      /\ \A d \in Callers : d # c => caller'[d] = caller[d]
  <2>1. /\ caller'[c] = [caller[c] EXCEPT !.pc = "acked"]
        /\ \A d \in Callers : d # c => caller'[d] = caller[d]
    BY <1>1, UpdateCaller
  <2> QED BY <1>2, <2>1
<1>4. /\ ack_event' \in [Objects -> BOOLEAN] /\ ~ack_event'[obj]
      /\ \A o \in Objects : o # obj => ack_event'[o] = ack_event[o]
  BY <1>1, <1>2 DEF ChannelTypeOK
<1>5. ChannelTypeOK'
  <2>1. caller' \in [Callers -> [pc : {"idle", "get", "send", "wait", "acked", "timed_out"},
                                 obj : Objects, call : 0 .. Len(calls)]]
    BY <1>1, <1>2 DEF ChannelTypeOK
  <2> QED BY <1>1, <1>4, <2>1 DEF ChannelTypeOK
<1>6. OnePlace'
  BY <1>1, <1>4 DEF OnePlace, Executes
<1>7. /\ \A o \in Objects : UnderWay(o)' <=> UnderWay(o) /\ o # obj
      /\ \A o \in Objects, d \in Callers : /\ Sent(d, o)' <=> Sent(d, o)
                                           /\ Holds(d, o)' <=> Holds(d, o)
  <2>1. \A u \in Targets : ~In(obj, job_queue[u]) /\ ~(task[u].busy /\ task[u].obj = obj)
    BY <1>1, <1>2 DEF OnePlace, Executes
  <2>2. \A o \in Objects : UnderWay(o)' <=> UnderWay(o) /\ o # obj
    BY <1>1, <1>4, <2>1 DEF UnderWay
  <2> QED BY <1>1, <1>3, <2>2 DEF Holds, Sent
<1>8. OneHolder'
  <2>1. FreeIsQuiet'
    BY <1>1, <1>7 DEF OneHolder, FreeIsQuiet
  <2>2. \A d \in Callers : caller'[d].pc \in {"send", "acked"} =>
           /\ caller'[d].obj = caller[d].obj /\ caller[d].obj \in Objects
           /\ d = c \/ caller[d].pc \in {"send", "acked"}
    BY <1>3 DEF ChannelTypeOK
  <2> QED BY <1>7, <2>1, <2>2 DEF OneHolder
<1>9. \A o \in Objects : Active(o)' => Active(o)
  BY <1>7 DEF Active
<1>10. CallersApart'
  BY <1>1, <1>3, <1>7, <1>9 DEF CallersApart, NotRun
<1>11. Progress'
  <2>1. \A d \in Callers : caller'[d].pc = "acked" => HasResult(caller'[d].obj)
    BY <1>1, <1>2, <1>3 DEF Progress
  <2> QED BY <1>1, <1>4, <1>7, <2>1 DEF Progress, HasResult, NotRun, Executes
<1>12. ExecutedAtMostOnce' /\ AnswerIsOwn'
  BY <1>1 DEF ExecutedAtMostOnce, AnswerIsOwn
<1> QED BY <1>5, <1>6, <1>8, <1>10, <1>11, <1>12

\* The thread gives up, and the descriptor stays where it is.
LEMMA WaitTimeoutStep ==
  ASSUME ChannelInv, NEW c \in Callers, WaitTimeout(c)
  PROVE  ChannelInv'
<1> USE DEF ChannelInv
<1>1. /\ caller[c].pc = "wait"
      /\ caller' = [caller EXCEPT ![c] = [caller[c] EXCEPT !.pc = "timed_out"]]
      /\ UNCHANGED <<free_queue, pend_queue, desc, ack_event, job_queue, task, send_errors, calls>>
  BY DEF WaitTimeout
<1>2. caller[c] \in [pc : {"idle", "get", "send", "wait", "acked", "timed_out"},
                     obj : Objects, call : 0 .. Len(calls)]
  BY DEF ChannelTypeOK
<1>3. /\ caller'[c] = [pc |-> "timed_out", obj |-> caller[c].obj, call |-> caller[c].call]
      /\ \A d \in Callers : d # c => caller'[d] = caller[d]
  <2>1. /\ caller'[c] = [caller[c] EXCEPT !.pc = "timed_out"]
        /\ \A d \in Callers : d # c => caller'[d] = caller[d]
    BY <1>1, UpdateCaller
  <2> QED BY <1>2, <2>1
<1>4. ChannelTypeOK'
  <2>1. caller' \in [Callers -> [pc : {"idle", "get", "send", "wait", "acked", "timed_out"},
                                 obj : Objects, call : 0 .. Len(calls)]]
    BY <1>1, <1>2 DEF ChannelTypeOK
  <2> QED BY <1>1, <2>1 DEF ChannelTypeOK
<1>5. OnePlace'
  BY <1>1 DEF OnePlace, Executes
<1>6. /\ \A o \in Objects : UnderWay(o)' <=> UnderWay(o)
      /\ \A o \in Objects, d \in Callers : /\ Sent(d, o)' <=> Sent(d, o)
                                           /\ Holds(d, o)' <=> Holds(d, o)
  BY <1>1, <1>3 DEF UnderWay, Holds, Sent
<1>7. OneHolder'
  <2>1. FreeIsQuiet'
    BY <1>1, <1>6 DEF OneHolder, FreeIsQuiet
  <2>2. \A d \in Callers : caller'[d].pc \in {"send", "acked"} =>
           d # c /\ caller'[d] = caller[d] /\ caller[d].obj \in Objects
    BY <1>3 DEF ChannelTypeOK
  <2> QED BY <1>6, <2>1, <2>2 DEF OneHolder
<1>8. CallersApart'
  BY <1>1, <1>3, <1>6 DEF CallersApart, NotRun, Active
<1>9. Progress'
  BY <1>1, <1>3, <1>6 DEF Progress, HasResult, NotRun, Executes
<1>10. ExecutedAtMostOnce' /\ AnswerIsOwn'
  BY <1>1 DEF ExecutedAtMostOnce, AnswerIsOwn
<1> QED BY <1>4, <1>5, <1>7, <1>8, <1>9, <1>10

-----------------------------------------------------------------------------
\* The tasks of the targets.

\* The descriptor at the head of a job queue is taken out of it.
LEMMA TakenFromQueue ==
  ASSUME ChannelInv, NEW t \in Targets, job_queue[t] # <<>>,
         job_queue' = [job_queue EXCEPT ![t] = Tail(@)]
  PROVE  LET o == Head(job_queue[t]) IN
         /\ o \in Objects /\ In(o, job_queue[t]) /\ UnderWay(o)
         /\ job_queue' \in [Targets -> Seq(Objects)]
         /\ \A u \in Targets : Distinct(job_queue'[u])
         /\ \A p \in Objects, u \in Targets : In(p, job_queue'[u]) <=> In(p, job_queue[u]) /\ p # o
         /\ \A u \in Targets : ~Executes(u, o)
         /\ ~ack_event[o]
<1> USE DEF ChannelInv
<1> DEFINE o == Head(job_queue[t])
<1>1. /\ o \in Objects /\ Tail(job_queue[t]) \in Seq(Objects) /\ In(o, job_queue[t])
      /\ Distinct(Tail(job_queue[t]))
      /\ \A p \in Objects : In(p, Tail(job_queue[t])) <=> In(p, job_queue[t]) /\ p # o
  <2>1. job_queue[t] \in Seq(Objects) /\ Distinct(job_queue[t])
    BY DEF ChannelTypeOK, OnePlace
  <2> QED BY <2>1, TailIn
<1>2. /\ job_queue'[t] = Tail(job_queue[t])
      /\ \A u \in Targets : u # t => job_queue'[u] = job_queue[u]
      /\ job_queue' \in [Targets -> Seq(Objects)]
  BY <1>1 DEF ChannelTypeOK
<1>3. \A u \in Targets : /\ u # t => ~In(o, job_queue[u])
                         /\ ~Executes(u, o) /\ ~ack_event[o]
  BY <1>1 DEF OnePlace
<1>4. \A p \in Objects, u \in Targets : In(p, job_queue'[u]) <=> In(p, job_queue[u]) /\ p # o
  BY <1>1, <1>2, <1>3
<1>5. UnderWay(o)
  BY <1>1 DEF UnderWay
<1> QED BY <1>1, <1>2, <1>3, <1>4, <1>5 DEF OnePlace

\* A command is taken: its descriptor moves on, and its call runs for the first time.
LEMMA TakeStep ==
  ASSUME ChannelInv, NEW t \in Targets, TaskTake(t)
  PROVE  ChannelInv'
<1> USE DEF ChannelInv
<1>0. PICK o \in Objects, k \in 1 .. Len(calls) : o = Head(job_queue[t]) /\ k = desc[o].call
  <2>1. Head(job_queue[t]) \in Objects /\ UnderWay(Head(job_queue[t]))
    BY TakenFromQueue DEF TaskTake
  <2> QED BY <2>1 DEF Progress
<1>1. /\ ~task[t].busy /\ job_queue[t] # <<>> /\ ~desc[o].is_ack
      /\ task' = [task EXCEPT ![t] = [busy |-> TRUE, obj |-> o, call |-> k]]
      /\ calls' = [calls EXCEPT ![k] = [calls[k] EXCEPT !.runs = calls[k].runs + 1]]
      /\ job_queue' = [job_queue EXCEPT ![t] = Tail(@)]
      /\ UNCHANGED <<free_queue, pend_queue, desc, ack_event, caller, send_errors>>
  BY <1>0 DEF TaskTake
<1>2. /\ o \in Objects /\ In(o, job_queue[t]) /\ UnderWay(o)
      /\ job_queue' \in [Targets -> Seq(Objects)]
      /\ \A u \in Targets : Distinct(job_queue'[u])
      /\ \A p \in Objects, u \in Targets : In(p, job_queue'[u]) <=> In(p, job_queue[u]) /\ p # o
      /\ \A u \in Targets : ~Executes(u, o)
      /\ ~ack_event[o]
  BY <1>0, <1>1, TakenFromQueue
<1>3. /\ k = desc[o].call /\ NotRun(k) /\ calls[k].answer # "error"
      /\ calls \in Seq(Call) /\ Len(calls) \in Nat
  BY <1>0, <1>1, <1>2, LenProperties DEF Progress, ChannelTypeOK, Call
<1>4. /\ calls' \in Seq(Call) /\ Len(calls') = Len(calls)
      /\ calls'[k].runs = 1 /\ calls'[k].result = "none"
      /\ \A j \in 1 .. Len(calls) : /\ j # k => calls'[j] = calls[j]
                                    /\ calls'[j].by = calls[j].by
                                    /\ calls'[j].result = calls[j].result
                                    /\ calls'[j].answer = calls[j].answer
  <2> DEFINE r == [calls[k] EXCEPT !.runs = calls[k].runs + 1]
  <2>1. calls[k] \in Call
    BY <1>3, ElementOfSeq
  <2>2. r \in Call /\ r.runs = 1 /\ r.by = calls[k].by /\ r.result = calls[k].result
        /\ r.answer = calls[k].answer
    BY <1>3, <2>1, SMTT(30) DEF Call, NotRun
  <2>3. /\ calls' \in Seq(Call) /\ Len(calls') = Len(calls) /\ calls'[k] = r
        /\ \A j \in 1 .. Len(calls) : j # k => calls'[j] = calls[j]
    BY <1>1, <1>3, <2>2, UpdateCall
  <2> QED BY <1>3, <2>2, <2>3 DEF NotRun
<1>5. /\ task'[t] = [busy |-> TRUE, obj |-> o, call |-> k]
      /\ \A u \in Targets : u # t => task'[u] = task[u]
  BY <1>1 DEF ChannelTypeOK
<1>6. ChannelTypeOK'
  <2>1. task' \in [Targets -> [busy : BOOLEAN, obj : Objects, call : 0 .. Len(calls')]]
    BY <1>1, <1>2, <1>3, <1>4 DEF ChannelTypeOK
  <2> QED BY <1>1, <1>2, <1>4, <2>1 DEF ChannelTypeOK, Call
<1>7. \A p \in Objects, u \in Targets :
         Executes(u, p)' <=> Executes(u, p) \/ (u = t /\ p = o)
  BY <1>1, <1>5 DEF Executes
<1>8. OnePlace'
  BY <1>1, <1>2, <1>7 DEF OnePlace
<1>9. /\ \A p \in Objects : UnderWay(p)' <=> UnderWay(p)
      /\ \A p \in Objects, d \in Callers : (Sent(d, p)' <=> Sent(d, p)) /\ (Holds(d, p)' <=> Holds(d, p))
  <2>1. \A p \in Objects : p # o => (UnderWay(p)' <=> UnderWay(p))
    BY <1>1, <1>2, <1>7 DEF UnderWay, Executes
  <2>2. UnderWay(o)'
    BY <1>2, <1>7 DEF UnderWay, Executes
  <2> QED BY <1>1, <1>2, <2>1, <2>2 DEF Sent, Holds
<1>10. OneHolder'
  <2>1. FreeIsQuiet'
    BY <1>1, <1>9 DEF OneHolder, FreeIsQuiet
  <2>2. \A d \in Callers : caller[d].obj \in Objects
    BY DEF ChannelTypeOK
  <2> QED BY <1>1, <1>9, <2>1, <2>2 DEF OneHolder
<1>11. \A p \in Objects : (Active(p)' <=> Active(p)) /\ (Active(p) /\ p # o => desc[p].call # k)
  <2>1. \A p \in Objects : Active(p)' <=> Active(p)
    BY <1>9 DEF Active
  <2>2. Active(o)
    BY <1>2 DEF Active
  <2> QED BY <1>2, <1>3, <2>1, <2>2 DEF CallersApart
<1>12. CallersApart'
  <2>1. \A d \in Callers : caller[d].pc \in {"get", "send"} => caller[d].call # k
    <3>1. Active(o)
      BY <1>2 DEF Active
    <3> QED BY <1>2, <1>3, <3>1 DEF CallersApart
  <2> QED BY <1>1, <1>3, <1>4, <1>9, <1>11, <2>1 DEF CallersApart, NotRun
<1>13. Progress'
  <2>1. \A p \in Objects : UnderWay(p) => Active(p) /\ desc[p].call \in 1 .. Len(calls)
    BY DEF Active, Progress
  <2>2. \A p \in Objects, u \in Targets :
           In(p, job_queue[u]) \/ Executes(u, p) => UnderWay(p)
    BY DEF UnderWay, Executes
  <2>3. \A p \in Objects : UnderWay(p)' =>
           desc'[p].call \in 1 .. Len(calls') /\ calls'[desc'[p].call].answer # "error"
    BY <1>1, <1>4, <1>9 DEF Progress
  <2>4. ASSUME NEW p \in Objects, NEW u \in Targets
        PROVE  /\ In(p, job_queue'[u]) =>
                    IF desc'[p].is_ack THEN HasResult(p)' ELSE NotRun(desc[p].call)'
               /\ Executes(u, p)' => /\ task'[u].call = desc'[p].call
                                     /\ calls'[desc'[p].call].runs = 1
                                     /\ calls'[desc'[p].call].result = "none"
    <3>1. CASE p = o
      BY <1>1, <1>2, <1>3, <1>4, <1>5, <1>7, <3>1
    <3>2. ASSUME p # o, UnderWay(p) PROVE calls'[desc[p].call] = calls[desc[p].call]
      BY <1>4, <1>11, <2>1, <3>2
    <3>3. CASE p # o
      <4>1. ASSUME In(p, job_queue'[u])
            PROVE  IF desc'[p].is_ack THEN HasResult(p)' ELSE NotRun(desc[p].call)'
        <5>1. In(p, job_queue[u]) /\ calls'[desc[p].call] = calls[desc[p].call]
          BY <1>2, <2>2, <3>2, <3>3, <4>1
        <5>2. IF desc[p].is_ack THEN HasResult(p) ELSE NotRun(desc[p].call)
          BY <5>1 DEF Progress
        <5> QED BY <1>1, <5>1, <5>2 DEF HasResult, NotRun
      <4>2. ASSUME Executes(u, p)'
            PROVE  /\ task'[u].call = desc'[p].call
                   /\ calls'[desc'[p].call].runs = 1 /\ calls'[desc'[p].call].result = "none"
        <5>1. Executes(u, p) /\ u # t
          BY <1>1, <1>7, <3>3, <4>2 DEF Executes
        <5>2. calls'[desc[p].call] = calls[desc[p].call] /\ task'[u] = task[u]
          BY <1>5, <2>2, <3>2, <3>3, <5>1
        <5>3. /\ task[u].call = desc[p].call
              /\ calls[desc[p].call].runs = 1 /\ calls[desc[p].call].result = "none"
          BY <5>1 DEF Progress
        <5> QED BY <1>1, <5>2, <5>3
      <4> QED BY <4>1, <4>2
    <3> QED BY <3>1, <3>3
  <2>5. \A p \in Objects : ack_event'[p] => HasResult(p)'
    BY <1>1, <1>4, <2>1 DEF Progress, HasResult, UnderWay
  <2>6. \A d \in Callers : caller'[d].pc = "acked" => HasResult(caller[d].obj)'
    <3>1. \A d \in Callers : caller[d].pc = "acked" =>
             /\ HasResult(caller[d].obj) /\ desc[caller[d].obj].call \in 1 .. Len(calls)
      <4>1. \A d \in Callers : caller[d].pc = "acked" =>
               caller[d].obj \in Objects /\ Sent(d, caller[d].obj)
        BY DEF ChannelTypeOK, Sent
      <4> QED BY <4>1 DEF CallersApart, Progress
    <3> QED BY <1>1, <1>4, <3>1 DEF HasResult
  <2> QED BY <2>3, <2>4, <2>5, <2>6 DEF Progress, HasResult, NotRun
<1>14. ExecutedAtMostOnce' /\ AnswerIsOwn'
  BY <1>3, <1>4, SMTT(30) DEF ExecutedAtMostOnce, AnswerIsOwn
<1> QED BY <1>6, <1>8, <1>10, <1>12, <1>13, <1>14

\* A command is done: the result goes into the descriptor that stands for the call.
LEMMA DoneStep ==
  ASSUME ChannelInv, NEW t \in Targets, NEW result \in {"ok", "fail"}, TaskDone(t, result)
  PROVE  ChannelInv'
<1> USE DEF ChannelInv
<1>0. PICK o \in Objects, k \in 1 .. Len(calls) :
         o = task[t].obj /\ k = desc[o].call /\ k = task[t].call /\ Executes(t, o)
         /\ calls[k].runs = 1 /\ calls[k].result = "none"
  <2>1. task[t].obj \in Objects /\ Executes(t, task[t].obj)
    BY DEF TaskDone, Executes, ChannelTypeOK
  <2>2. desc[task[t].obj].call \in 1 .. Len(calls)
    BY <2>1 DEF Progress, UnderWay, Executes
  <2> QED BY <2>1, <2>2 DEF Progress
<1>1. /\ desc' = [desc EXCEPT ![o] = [desc[o] EXCEPT !.is_ack = TRUE, !.cmd_status = result]]
      /\ calls' = [calls EXCEPT ![k] = [calls[k] EXCEPT !.result = result]]
      /\ task' = [task EXCEPT ![t] = IdleTask]
      /\ \/ job_queue' = [job_queue EXCEPT ![Host] = Append(job_queue[Host], o)]
         \/ job_queue' = job_queue
      /\ send_errors' \in Nat
      /\ UNCHANGED <<free_queue, pend_queue, ack_event, caller>>
  <2>1. /\ desc' = [desc EXCEPT ![o] = [desc[o] EXCEPT !.is_ack = TRUE, !.cmd_status = result]]
        /\ calls' = [calls EXCEPT ![k] = [calls[k] EXCEPT !.result = result]]
    BY <1>0 DEF TaskDone
  <2>2. /\ \/ /\ job_queue' = [job_queue EXCEPT ![Host] = Append(job_queue[Host], o)]
              /\ send_errors' = send_errors
           \/ job_queue' = job_queue /\ send_errors' = send_errors + 1
        /\ task' = [task EXCEPT ![t] = IdleTask]
        /\ UNCHANGED <<free_queue, pend_queue, ack_event, caller>>
    BY <1>0 DEF TaskDone, Enqueued
  <2>3. send_errors \in Nat
    BY DEF ChannelTypeOK
  <2> QED BY <2>1, <2>2, <2>3
<1>2. /\ desc'[o].call = k /\ desc'[o].is_ack = TRUE /\ desc'[o].cmd_status = result
      /\ \A p \in Objects : p # o => desc'[p] = desc[p]
      /\ desc' \in [Objects -> [call : 0 .. Len(calls), is_ack : BOOLEAN, cmd_status : Statuses]]
  <2>1. desc[o] \in [call : 0 .. Len(calls), is_ack : BOOLEAN, cmd_status : Statuses]
    BY DEF ChannelTypeOK
  <2> DEFINE r == [desc[o] EXCEPT !.is_ack = TRUE, !.cmd_status = result]
  <2>2. r.call = desc[o].call /\ r.is_ack = TRUE /\ r.cmd_status = result
    BY <2>1
  <2>3. r \in [call : 0 .. Len(calls), is_ack : BOOLEAN, cmd_status : Statuses]
    BY <2>1 DEF Statuses
  <2>4. desc'[o] = r /\ \A p \in Objects : p # o => desc'[p] = desc[p]
    BY <1>1 DEF ChannelTypeOK
  <2>5. desc' \in [Objects -> [call : 0 .. Len(calls), is_ack : BOOLEAN, cmd_status : Statuses]]
    BY <1>1, <2>3 DEF ChannelTypeOK
  <2> QED BY <1>0, <2>2, <2>4, <2>5
<1>3. /\ calls' \in Seq(Call) /\ Len(calls') = Len(calls)
      /\ calls'[k].result = result
      /\ \A j \in 1 .. Len(calls) : /\ j # k => calls'[j] = calls[j]
                                    /\ calls'[j].by = calls[j].by
                                    /\ calls'[j].runs = calls[j].runs
                                    /\ calls'[j].answer = calls[j].answer
  <2> DEFINE r == [calls[k] EXCEPT !.result = result]
  <2>0. calls \in Seq(Call)
    BY DEF ChannelTypeOK, Call
  <2>1. calls[k] \in Call
    BY <2>0, ElementOfSeq
  <2>2. r \in Call /\ r.runs = calls[k].runs /\ r.by = calls[k].by /\ r.result = result
        /\ r.answer = calls[k].answer
    BY <2>1 DEF Call, Statuses
  <2>3. /\ calls' \in Seq(Call) /\ Len(calls') = Len(calls) /\ calls'[k] = r
        /\ \A j \in 1 .. Len(calls) : j # k => calls'[j] = calls[j]
    BY <1>1, <2>0, <2>2, UpdateCall
  <2> QED BY <2>2, <2>3
<1>4. /\ ~task'[t].busy /\ \A u \in Targets : u # t => task'[u] = task[u]
      /\ task' \in [Targets -> [busy : BOOLEAN, obj : Objects, call : 0 .. Len(calls)]]
  <2>1. 0 \in Objects /\ 0 \in 0 .. Len(calls)
    <3>1. Len(calls) \in Nat
      BY LenProperties DEF ChannelTypeOK
    <3> QED BY <3>1, ChannelAssumption DEF Objects
  <2>2. IdleTask \in [busy : BOOLEAN, obj : Objects, call : 0 .. Len(calls)] /\ ~IdleTask.busy
    BY <2>1 DEF IdleTask
  <2> QED BY <1>1, <2>2 DEF ChannelTypeOK
<1>5. /\ \A u \in Targets : ~In(o, job_queue[u]) /\ (Executes(u, o) => u = t)
      /\ ~ack_event[o] /\ UnderWay(o)
  BY <1>0 DEF OnePlace, UnderWay, Executes
<1>6. /\ job_queue' \in [Targets -> Seq(Objects)]
      /\ \A u \in Targets : Distinct(job_queue'[u])
      /\ \A p \in Objects, u \in Targets : p # o => (In(p, job_queue'[u]) <=> In(p, job_queue[u]))
      /\ \A u, v \in Targets : In(o, job_queue'[u]) /\ In(o, job_queue'[v]) => u = v
  <2>1. CASE job_queue' = [job_queue EXCEPT ![Host] = Append(job_queue[Host], o)]
    <3>1. job_queue[Host] \in Seq(Objects) /\ Distinct(job_queue[Host]) /\ Host \in Targets
      BY ChannelAssumption DEF ChannelTypeOK, OnePlace
    <3>2. /\ Append(job_queue[Host], o) \in Seq(Objects) /\ Distinct(Append(job_queue[Host], o))
          /\ \A p \in Objects : In(p, Append(job_queue[Host], o)) <=> In(p, job_queue[Host]) \/ p = o
      BY <1>5, <3>1, AppendIn
    <3>3. /\ job_queue'[Host] = Append(job_queue[Host], o)
          /\ \A u \in Targets : u # Host => job_queue'[u] = job_queue[u]
          /\ job_queue' \in [Targets -> Seq(Objects)]
      BY <2>1, <3>1, <3>2 DEF ChannelTypeOK
    <3>4. \A p \in Objects, u \in Targets :
             In(p, job_queue'[u]) <=> In(p, job_queue[u]) \/ (u = Host /\ p = o)
      BY <3>2, <3>3
    <3>5. \A u \in Targets : Distinct(job_queue'[u])
      BY <3>2, <3>3 DEF OnePlace
    <3> QED BY <1>5, <3>3, <3>4, <3>5
  <2>2. CASE job_queue' = job_queue
    BY <1>5, <2>2 DEF OnePlace, ChannelTypeOK
  <2> QED BY <1>1, <2>1, <2>2
<1>7. ChannelTypeOK'
  BY <1>1, <1>2, <1>3, <1>4, <1>6 DEF ChannelTypeOK, Call
<1>8. /\ \A u \in Targets : ~Executes(u, o)'
      /\ \A p \in Objects, u \in Targets : p # o => (Executes(u, p)' <=> Executes(u, p))
  <2>1. \A p \in Objects : Executes(t, p) => p = o
    BY <1>0 DEF Executes
  <2> QED BY <1>4, <1>5, <2>1 DEF Executes
<1>9. OnePlace'
  <2>1. ASSUME NEW p \in Objects, NEW u \in Targets, NEW v \in Targets
        PROVE  /\ In(p, job_queue'[u]) /\ In(p, job_queue'[v]) => u = v
               /\ Executes(u, p)' /\ Executes(v, p)' => u = v
               /\ ~(In(p, job_queue'[u]) /\ Executes(v, p)')
               /\ ack_event'[p] => ~In(p, job_queue'[u]) /\ ~Executes(u, p)'
    <3>1. CASE p = o
      BY <1>1, <1>5, <1>6, <1>8, <3>1
    <3>2. CASE p # o
      BY <1>1, <1>6, <1>8, <3>2 DEF OnePlace
    <3> QED BY <3>1, <3>2
  <2> QED BY <1>6, <2>1 DEF OnePlace
<1>10. /\ \A p \in Objects : UnderWay(p)' => UnderWay(p)
       /\ \A p \in Objects, d \in Callers : (Sent(d, p)' <=> Sent(d, p)) /\ (Holds(d, p)' <=> Holds(d, p))
  <2>1. \A p \in Objects : p # o => (UnderWay(p)' <=> UnderWay(p))
    BY <1>1, <1>6, <1>8 DEF UnderWay, Executes
  <2> QED BY <1>1, <1>5, <2>1 DEF Sent, Holds
<1>11. OneHolder'
  <2>1. FreeIsQuiet'
    BY <1>1, <1>10 DEF OneHolder, FreeIsQuiet
  <2>2. \A d \in Callers : caller[d].obj \in Objects
    BY DEF ChannelTypeOK
  <2> QED BY <1>1, <1>10, <2>1, <2>2 DEF OneHolder
<1>12. /\ \A p \in Objects : Active(p)' => Active(p)
       /\ \A p \in Objects : Active(p) /\ p # o => desc[p].call # k
       /\ \A p \in Objects : desc'[p].call = desc[p].call
  <2>1. \A p \in Objects : Active(p)' => Active(p)
    BY <1>10 DEF Active
  <2>2. Active(o)
    BY <1>5 DEF Active
  <2>3. \A p \in Objects : Active(p) /\ desc[p].call = desc[o].call => p = o
    BY <2>2 DEF CallersApart
  <2> QED BY <1>0, <1>2, <2>1, <2>3
<1>13. CallersApart'
  <2>1. Active(o)
    BY <1>5 DEF Active
  <2>2. \A d \in Callers : caller[d].pc \in {"get", "send"} => caller[d].call # k
    <3>1. k = desc[o].call
      BY <1>0
    <3> QED BY <2>1, <3>1 DEF CallersApart
  <2> QED BY <1>1, <1>3, <1>10, <1>12, <2>2 DEF CallersApart, NotRun
<1>14. Progress'
  <2>1. \A p \in Objects : UnderWay(p) => Active(p) /\ desc[p].call \in 1 .. Len(calls)
    BY DEF Active, Progress
  <2>2. \A p \in Objects : UnderWay(p)' =>
           desc'[p].call \in 1 .. Len(calls') /\ calls'[desc'[p].call].answer # "error"
    BY <1>3, <1>10, <1>12, <2>1 DEF Progress
  <2>3. HasResult(o)' /\ desc'[o].is_ack
    BY <1>2, <1>3 DEF HasResult
  <2>4. ASSUME NEW p \in Objects, p # o, Active(p), desc[p].call \in 1 .. Len(calls)
        PROVE  calls'[desc[p].call] = calls[desc[p].call] /\ desc'[p] = desc[p]
    BY <1>2, <1>3, <1>12, <2>4
  <2>5. ASSUME NEW p \in Objects, NEW u \in Targets
        PROVE  /\ In(p, job_queue'[u]) =>
                    IF desc'[p].is_ack THEN HasResult(p)' ELSE NotRun(desc[p].call)'
               /\ Executes(u, p)' => /\ task'[u].call = desc'[p].call
                                     /\ calls'[desc'[p].call].runs = 1
                                     /\ calls'[desc'[p].call].result = "none"
    <3>1. CASE p = o
      BY <1>8, <2>3, <3>1
    <3>2. ASSUME p # o, In(p, job_queue'[u])
          PROVE  IF desc'[p].is_ack THEN HasResult(p)' ELSE NotRun(desc[p].call)'
      <4>1. In(p, job_queue[u]) /\ UnderWay(p)
        BY <1>6, <3>2 DEF UnderWay
      <4>2. IF desc[p].is_ack THEN HasResult(p) ELSE NotRun(desc[p].call)
        BY <4>1 DEF Progress
      <4>3. calls'[desc[p].call] = calls[desc[p].call] /\ desc'[p] = desc[p]
        BY <2>1, <2>4, <3>2, <4>1
      <4> QED BY <4>2, <4>3 DEF HasResult, NotRun
    <3>3. ASSUME p # o, Executes(u, p)'
          PROVE  /\ task'[u].call = desc'[p].call
                 /\ calls'[desc'[p].call].runs = 1 /\ calls'[desc'[p].call].result = "none"
      <4>1. Executes(u, p) /\ UnderWay(p) /\ u # t
        BY <1>0, <1>8, <3>3 DEF UnderWay, Executes
      <4>2. /\ task[u].call = desc[p].call
            /\ calls[desc[p].call].runs = 1 /\ calls[desc[p].call].result = "none"
        BY <4>1 DEF Progress
      <4>3. calls'[desc[p].call] = calls[desc[p].call] /\ desc'[p] = desc[p]
        BY <2>1, <2>4, <3>3, <4>1
      <4> QED BY <1>4, <4>1, <4>2, <4>3
    <3> QED BY <3>1, <3>2, <3>3
  <2>6. ASSUME NEW p \in Objects, ack_event'[p] PROVE HasResult(p)'
    <3>1. p # o /\ UnderWay(p) /\ HasResult(p)
      BY <1>1, <1>5, <2>6 DEF UnderWay, Progress
    <3>2. calls'[desc[p].call] = calls[desc[p].call] /\ desc'[p] = desc[p]
      BY <2>1, <2>4, <3>1
    <3> QED BY <3>1, <3>2 DEF HasResult
  <2>7. ASSUME NEW d \in Callers, caller'[d].pc = "acked" PROVE HasResult(caller[d].obj)'
    <3>1. PICK p \in Objects : p = caller[d].obj
      BY DEF ChannelTypeOK
    <3>2. Sent(d, p) /\ ~UnderWay(p) /\ HasResult(p)
      BY <1>1, <2>7, <3>1 DEF Sent, OneHolder, Progress
    <3>3. p # o /\ Active(p) /\ desc[p].call \in 1 .. Len(calls)
      BY <1>1, <1>5, <2>7, <3>2 DEF Active, CallersApart
    <3>4. calls'[desc[p].call] = calls[desc[p].call] /\ desc'[p] = desc[p]
      BY <2>4, <3>3
    <3> QED BY <1>1, <3>1, <3>2, <3>4 DEF HasResult
  <2> QED BY <2>2, <2>5, <2>6, <2>7 DEF Progress, HasResult, NotRun
<1>15. ExecutedAtMostOnce'
  BY <1>3 DEF ExecutedAtMostOnce
<1>16. AnswerIsOwn'
  BY <1>0, <1>3 DEF AnswerIsOwn
<1> QED BY <1>7, <1>9, <1>11, <1>13, <1>14, <1>15, <1>16

\* An acknowledgement sets the event of the object it comes with.
LEMMA HandleAckStep ==
  ASSUME ChannelInv, NEW t \in Targets, HandleAck(t)
  PROVE  ChannelInv'
<1> USE DEF ChannelInv
<1>0. PICK o \in Objects : o = Head(job_queue[t])
  BY TakenFromQueue DEF HandleAck
<1>1. /\ job_queue[t] # <<>> /\ desc[o].is_ack
      /\ desc' = [desc EXCEPT ![o] = [desc[o] EXCEPT !.is_ack = FALSE]]
      /\ ack_event' = [ack_event EXCEPT ![o] = TRUE]
      /\ job_queue' = [job_queue EXCEPT ![t] = Tail(@)]
      /\ UNCHANGED <<free_queue, pend_queue, task, caller, send_errors, calls>>
  BY <1>0 DEF HandleAck
<1>2. /\ In(o, job_queue[t]) /\ UnderWay(o)
      /\ job_queue' \in [Targets -> Seq(Objects)]
      /\ \A u \in Targets : Distinct(job_queue'[u])
      /\ \A p \in Objects, u \in Targets : In(p, job_queue'[u]) <=> In(p, job_queue[u]) /\ p # o
      /\ \A u \in Targets : ~Executes(u, o)
  BY <1>0, <1>1, TakenFromQueue
<1>3. /\ desc' \in [Objects -> [call : 0 .. Len(calls), is_ack : BOOLEAN, cmd_status : Statuses]]
      /\ \A p \in Objects : /\ p # o => desc'[p] = desc[p]
                            /\ desc'[p].call = desc[p].call
                            /\ desc'[p].cmd_status = desc[p].cmd_status
  <2>1. desc[o] \in [call : 0 .. Len(calls), is_ack : BOOLEAN, cmd_status : Statuses]
    BY DEF ChannelTypeOK
  <2>2. [desc[o] EXCEPT !.is_ack = FALSE]
           \in [call : 0 .. Len(calls), is_ack : BOOLEAN, cmd_status : Statuses]
        /\ [desc[o] EXCEPT !.is_ack = FALSE].call = desc[o].call
        /\ [desc[o] EXCEPT !.is_ack = FALSE].cmd_status = desc[o].cmd_status
    BY <2>1
  <2> QED BY <1>1, <2>2 DEF ChannelTypeOK
<1>4. /\ ack_event' \in [Objects -> BOOLEAN] /\ ack_event'[o]
      /\ \A p \in Objects : p # o => ack_event'[p] = ack_event[p]
  BY <1>1 DEF ChannelTypeOK
<1>5. ChannelTypeOK'
  BY <1>1, <1>2, <1>3, <1>4 DEF ChannelTypeOK
<1>6. OnePlace'
  BY <1>1, <1>2, <1>4 DEF OnePlace, Executes
<1>7. /\ \A p \in Objects : UnderWay(p)' <=> UnderWay(p)
      /\ \A p \in Objects, d \in Callers : (Sent(d, p)' <=> Sent(d, p)) /\ (Holds(d, p)' <=> Holds(d, p))
  <2>1. \A p \in Objects : p # o => (UnderWay(p)' <=> UnderWay(p))
    BY <1>1, <1>2, <1>4 DEF UnderWay
  <2>2. UnderWay(o)'
    BY <1>4 DEF UnderWay
  <2> QED BY <1>1, <1>2, <2>1, <2>2 DEF Sent, Holds
<1>8. OneHolder'
  <2>1. FreeIsQuiet'
    BY <1>1, <1>7 DEF OneHolder, FreeIsQuiet
  <2>2. \A d \in Callers : caller[d].obj \in Objects
    BY DEF ChannelTypeOK
  <2> QED BY <1>1, <1>7, <2>1, <2>2 DEF OneHolder
<1>9. \A p \in Objects : Active(p)' <=> Active(p)
  BY <1>7 DEF Active
<1>10. CallersApart'
  BY <1>1, <1>3, <1>7, <1>9 DEF CallersApart, NotRun
<1>11. Progress'
  <2>1. HasResult(o)
    BY <1>1, <1>2 DEF Progress
  <2>2. \A p \in Objects : HasResult(p)' <=> HasResult(p)
    BY <1>1, <1>3 DEF HasResult
  <2>3. \A p \in Objects : UnderWay(p)' =>
           desc'[p].call \in 1 .. Len(calls') /\ calls'[desc'[p].call].answer # "error"
    BY <1>1, <1>3, <1>7 DEF Progress
  <2>4. ASSUME NEW p \in Objects, NEW u \in Targets
        PROVE  /\ In(p, job_queue'[u]) =>
                    IF desc'[p].is_ack THEN HasResult(p)' ELSE NotRun(desc[p].call)'
               /\ Executes(u, p)' => /\ task'[u].call = desc'[p].call
                                     /\ calls'[desc'[p].call].runs = 1
                                     /\ calls'[desc'[p].call].result = "none"
    BY <1>1, <1>2, <1>3, <2>2 DEF Progress, NotRun, Executes
  <2>5. \A p \in Objects : ack_event'[p] => HasResult(p)'
    BY <1>4, <2>1, <2>2 DEF Progress
  <2>6. ASSUME NEW d \in Callers, caller'[d].pc = "acked" PROVE HasResult(caller[d].obj)'
    <3>1. caller[d].obj \in Objects /\ HasResult(caller[d].obj)
      BY <1>1, <2>6 DEF ChannelTypeOK, Progress
    <3> QED BY <1>1, <1>3, <3>1 DEF HasResult
  <2> QED BY <2>3, <2>4, <2>5, <2>6 DEF Progress, HasResult, NotRun
<1>12. ExecutedAtMostOnce' /\ AnswerIsOwn'
  BY <1>1 DEF ExecutedAtMostOnce, AnswerIsOwn
<1> QED BY <1>5, <1>6, <1>8, <1>10, <1>11, <1>12

-----------------------------------------------------------------------------
LEMMA ChannelNext == ASSUME ChannelInv, [Next]_channel_vars PROVE ChannelInv'
<1>1. ASSUME NEW c \in Callers, CallerStep(c) PROVE ChannelInv'
  BY <1>1, GetObjectStep, GetTimeoutStep, SendStep, SendFailedStep, WaitAckStep,
     WaitTimeoutStep, FinishStep, ExpireStep DEF CallerStep
<1>2. ASSUME NEW t \in Targets, TaskStep(t) PROVE ChannelInv'
  BY <1>2, TakeStep, HandleAckStep, DoneStep DEF TaskStep
<1>3. CASE UNCHANGED channel_vars
  <2>1. UNCHANGED <<free_queue, pend_queue, desc, ack_event, job_queue, task, caller,
                    send_errors, calls>>
    BY <1>3 DEF channel_vars
  <2>2. /\ \A o \in Objects : UnderWay(o)' <=> UnderWay(o)
        /\ \A o \in Objects, d \in Callers : (Sent(d, o)' <=> Sent(d, o)) /\ (Holds(d, o)' <=> Holds(d, o))
    BY <2>1 DEF UnderWay, Sent, Holds
  <2>3. OneHolder'
    <3>1. FreeIsQuiet'
      BY <2>1, <2>2 DEF ChannelInv, OneHolder, FreeIsQuiet
    <3>2. \A d \in Callers : caller[d].obj \in Objects
      BY DEF ChannelInv, ChannelTypeOK
    <3> QED BY <2>1, <2>2, <3>1, <3>2 DEF ChannelInv, OneHolder
  <2>4. CallersApart'
    BY <2>1, <2>2 DEF ChannelInv, CallersApart, Active, NotRun
  <2>5. Progress'
    BY <2>1, <2>2 DEF ChannelInv, Progress, HasResult, NotRun, Executes
  <2>6. ChannelTypeOK' /\ OnePlace' /\ ExecutedAtMostOnce' /\ AnswerIsOwn'
    BY <2>1 DEF ChannelInv, ChannelTypeOK, OnePlace, Executes, ExecutedAtMostOnce, AnswerIsOwn
  <2> QED BY <2>3, <2>4, <2>5, <2>6 DEF ChannelInv
<1> QED BY <1>1, <1>2, <1>3, SendCmdStep DEF Next

LEMMA ChannelInvariance == Spec => []ChannelInv
<1>1. Init => ChannelInv
  BY ChannelInit
<1>2. ChannelInv /\ [Next]_channel_vars => ChannelInv'
  BY ChannelNext
<1> QED BY <1>1, <1>2, PTL DEF Spec

\* Type correctness of the channel; a descriptor never names a call that was not made.
THEOREM ChannelTypes == Spec => []ChannelTypeOK
<1>1. ChannelInv => ChannelTypeOK
  BY DEF ChannelInv
<1> QED BY <1>1, ChannelInvariance, PTL

\* An object that a thread can take from free_queue is nobody's, and no target, queue or
\* event has anything left of its last command, whatever timed out before
\* (vx_context.c 860-880, 1023-1041).
THEOREM FreeObjectsQuiet == Spec => []FreeIsQuiet
<1>1. ChannelInv => FreeIsQuiet
  BY DEF ChannelInv, OneHolder
<1> QED BY <1>1, ChannelInvariance, PTL

\* No command is executed twice, and none whose call failed to send it.
THEOREM CommandsRunOnce == Spec => []ExecutedAtMostOnce
<1>1. ChannelInv => ExecutedAtMostOnce
  BY DEF ChannelInv
<1> QED BY <1>1, ChannelInvariance, PTL

\* No late acknowledgement answers another call.
THEOREM AnswersAreOwn == Spec => []AnswerIsOwn
<1>1. ChannelInv => AnswerIsOwn
  BY DEF ChannelInv
<1> QED BY <1>1, ChannelInvariance, PTL

-----------------------------------------------------------------------------
\* The order of the commands of one thread.

\* The i-th descriptor in the queue of target t brings a command to it, that of a call.
Brings(t, i) == ~desc[job_queue[t][i]].is_ack
CallAt(t, i) == desc[job_queue[t][i]].call

\* Two calls of one thread for one target.
SameWay(j, k) == calls[j].by = calls[k].by /\ calls[j].dst = calls[k].dst

\* A job queue has the commands of a thread in the order of the calls, and none of a
\* later call has run.  The call a thread is in is its last.
QueueOrder ==
    /\ \A c \in Callers, k \in 1 .. Len(calls) :
          caller[c].pc # "idle" /\ calls[k].by = c => k <= caller[c].call
    /\ \A t \in Targets : \A i \in 1 .. Len(job_queue[t]) : Brings(t, i) =>
          /\ calls[CallAt(t, i)].dst = t
          /\ \A m \in 1 .. Len(calls) :
                SameWay(CallAt(t, i), m) /\ calls[m].runs # 0 => m <= CallAt(t, i)
          /\ \A j \in 1 .. Len(job_queue[t]) :
                i < j /\ Brings(t, j) /\ SameWay(CallAt(t, i), CallAt(t, j))
                => CallAt(t, i) < CallAt(t, j)

\* What a job queue brings is among the calls.
LEMMA BringsCall ==
  ASSUME ChannelInv, NEW t \in Targets, NEW i \in 1 .. Len(job_queue[t])
  PROVE  /\ job_queue[t][i] \in Objects /\ In(job_queue[t][i], job_queue[t])
         /\ CallAt(t, i) \in 1 .. Len(calls)
<1>1. job_queue[t] \in Seq(Objects)
  BY DEF ChannelInv, ChannelTypeOK
<1>2. job_queue[t][i] \in Objects /\ In(job_queue[t][i], job_queue[t])
  BY <1>1, ElementOfSeq DEF In
<1> QED BY <1>2 DEF ChannelInv, Progress, UnderWay, CallAt

\* A step that adds no command to a queue: with what is taken from its head a queue
\* moves up.
LEMMA OrderKept ==
  ASSUME ChannelInv, QueueOrder, NEW shift \in [Targets -> {0, 1}],
         \A t \in Targets : \A i \in 1 .. Len(job_queue'[t]) : Brings(t, i)' =>
            /\ i + shift[t] \in 1 .. Len(job_queue[t]) /\ Brings(t, i + shift[t])
            /\ CallAt(t, i)' = CallAt(t, i + shift[t]),
         Len(calls') = Len(calls),
         \A k \in 1 .. Len(calls) : calls'[k].by = calls[k].by /\ calls'[k].dst = calls[k].dst,
         \A m \in 1 .. Len(calls) : calls[m].runs = 0 /\ calls'[m].runs # 0 =>
            \A t \in Targets : \A i \in 1 .. Len(job_queue'[t]) :
               Brings(t, i)' /\ SameWay(CallAt(t, i + shift[t]), m)
               => m <= CallAt(t, i + shift[t]),
         \A c \in Callers : caller'[c].pc # "idle" =>
            caller[c].pc # "idle" /\ caller'[c].call = caller[c].call
  PROVE  QueueOrder'
<1>1. ASSUME NEW t \in Targets, NEW i \in 1 .. Len(job_queue'[t]), Brings(t, i)'
      PROVE  /\ calls'[CallAt(t, i)'].dst = t
             /\ \A m \in 1 .. Len(calls') :
                   SameWay(CallAt(t, i), m)' /\ calls'[m].runs # 0 => m <= CallAt(t, i)'
             /\ \A j \in 1 .. Len(job_queue'[t]) :
                   i < j /\ Brings(t, j)' /\ SameWay(CallAt(t, i), CallAt(t, j))'
                   => CallAt(t, i)' < CallAt(t, j)'
  <2> DEFINE i0 == i + shift[t]
             k == CallAt(t, i0)
  <2>1. /\ i0 \in 1 .. Len(job_queue[t]) /\ Brings(t, i0) /\ CallAt(t, i)' = k
        /\ k \in 1 .. Len(calls)
    BY <1>1, BringsCall
  <2>2. /\ calls[k].dst = t
        /\ \A m \in 1 .. Len(calls) : SameWay(k, m) /\ calls[m].runs # 0 => m <= k
        /\ \A j \in 1 .. Len(job_queue[t]) :
              i0 < j /\ Brings(t, j) /\ SameWay(k, CallAt(t, j)) => k < CallAt(t, j)
    BY <2>1 DEF QueueOrder
  <2>3. \A m \in 1 .. Len(calls) : SameWay(CallAt(t, i), m)' <=> SameWay(k, m)
    BY <2>1 DEF SameWay
  <2>4. ASSUME NEW m \in 1 .. Len(calls'), SameWay(CallAt(t, i), m)', calls'[m].runs # 0
        PROVE  m <= k
    BY <1>1, <2>2, <2>3, <2>4
  <2>5. ASSUME NEW j \in 1 .. Len(job_queue'[t]), i < j, Brings(t, j)',
               SameWay(CallAt(t, i), CallAt(t, j))'
        PROVE  k < CallAt(t, j)'
    <3>1. /\ j + shift[t] \in 1 .. Len(job_queue[t]) /\ Brings(t, j + shift[t])
          /\ CallAt(t, j)' = CallAt(t, j + shift[t])
          /\ CallAt(t, j + shift[t]) \in 1 .. Len(calls)
      BY <2>5, BringsCall
    <3>2. i0 < j + shift[t]
      BY <2>5
    <3>3. SameWay(k, CallAt(t, j + shift[t]))
      BY <2>1, <2>5, <3>1 DEF SameWay
    <3> QED BY <2>2, <3>1, <3>2, <3>3
  <2> QED BY <2>1, <2>2, <2>4, <2>5
<1>2. \A c \in Callers, k \in 1 .. Len(calls') :
        caller'[c].pc # "idle" /\ calls'[k].by = c => k <= caller'[c].call
  BY DEF QueueOrder
<1> QED BY <1>1, <1>2 DEF QueueOrder

\* A step that leaves the queues, and the descriptors in them, alone.
LEMMA OrderSameQueues ==
  ASSUME ChannelInv, QueueOrder, UNCHANGED job_queue,
         \A o \in Objects : UnderWay(o) => desc'[o] = desc[o],
         Len(calls') = Len(calls),
         \A k \in 1 .. Len(calls) : /\ calls'[k].by = calls[k].by /\ calls'[k].dst = calls[k].dst
                                    /\ calls'[k].runs = calls[k].runs,
         \A c \in Callers : caller'[c].pc # "idle" =>
            caller[c].pc # "idle" /\ caller'[c].call = caller[c].call
  PROVE  QueueOrder'
<1> DEFINE shift == [t \in Targets |-> 0]
<1>1. ASSUME NEW t \in Targets, NEW i \in 1 .. Len(job_queue'[t]), Brings(t, i)'
      PROVE  /\ i + shift[t] \in 1 .. Len(job_queue[t]) /\ Brings(t, i + shift[t])
             /\ CallAt(t, i)' = CallAt(t, i + shift[t])
  <2>1. i + shift[t] = i /\ i \in 1 .. Len(job_queue[t])
    OBVIOUS
  <2>2. UnderWay(job_queue[t][i]) /\ job_queue[t][i] \in Objects
    BY <2>1, BringsCall DEF UnderWay
  <2> QED BY <1>1, <2>1, <2>2 DEF Brings, CallAt
<1>2. shift \in [Targets -> {0, 1}]
  OBVIOUS
<1> HIDE DEF shift
<1> QED BY <1>1, <1>2, OrderKept

\* A thread starts on its next call.
LEMMA OrderSendCmd ==
  ASSUME ChannelInv, ChannelInv', QueueOrder, NEW c \in Callers, NEW t \in Targets, NEW m \in Commands,
         SendCmd(c, t, m)
  PROVE  QueueOrder'
<1> DEFINE r == [by |-> c, dst |-> t, cmd |-> m, runs |-> 0, result |-> "none",
                 answer |-> "none"]
<1>1. /\ calls' = Append(calls, r) /\ caller[c].pc = "idle"
      /\ caller' = [caller EXCEPT ![c] = [pc |-> "get", obj |-> 0, call |-> Len(calls) + 1]]
      /\ UNCHANGED <<desc, job_queue>>
  BY DEF SendCmd
<1>2. calls \in Seq(Call) /\ r \in Call /\ Len(calls) \in Nat
  BY LenProperties DEF ChannelInv, ChannelTypeOK, Call, Statuses, Answers
<1>3. /\ Len(calls') = Len(calls) + 1 /\ calls'[Len(calls) + 1] = r
      /\ \A k \in 1 .. Len(calls) : calls'[k] = calls[k]
  BY <1>1, <1>2, AppendProperties
<1>4. /\ caller'[c].call = Len(calls) + 1
      /\ \A d \in Callers : d # c => caller'[d] = caller[d]
  <2>1. /\ caller'[c] = [pc |-> "get", obj |-> 0, call |-> Len(calls) + 1]
        /\ \A d \in Callers : d # c => caller'[d] = caller[d]
    BY <1>1, UpdateCaller DEF ChannelInv
  <2> QED BY <2>1
<1>5. \A d \in Callers, k \in 1 .. Len(calls') :
        caller'[d].pc # "idle" /\ calls'[k].by = d => k <= caller'[d].call
  <2> SUFFICES ASSUME NEW d \in Callers, NEW k \in 1 .. Len(calls'),
                      caller'[d].pc # "idle", calls'[k].by = d
               PROVE  k <= caller'[d].call
    OBVIOUS
  <2>1. CASE d = c
    BY <1>2, <1>3, <1>4, <2>1
  <2>2. CASE d # c
    <3>1. k # Len(calls) + 1
      BY <1>3, <2>2
    <3>2. k \in 1 .. Len(calls)
      BY <1>2, <1>3, <3>1
    <3> QED BY <1>3, <1>4, <2>2, <3>2 DEF QueueOrder
  <2> QED BY <2>1, <2>2
<1>6. ASSUME NEW u \in Targets, NEW i \in 1 .. Len(job_queue'[u]), Brings(u, i)'
      PROVE  /\ calls'[CallAt(u, i)'].dst = u
             /\ \A k \in 1 .. Len(calls') :
                   SameWay(CallAt(u, i), k)' /\ calls'[k].runs # 0 => k <= CallAt(u, i)'
             /\ \A j \in 1 .. Len(job_queue'[u]) :
                   i < j /\ Brings(u, j)' /\ SameWay(CallAt(u, i), CallAt(u, j))'
                   => CallAt(u, i)' < CallAt(u, j)'
  <2>0. i \in 1 .. Len(job_queue[u])
    BY <1>1
  <2>1. /\ CallAt(u, i)' = CallAt(u, i) /\ CallAt(u, i) \in 1 .. Len(calls) /\ Brings(u, i)
    BY <1>1, <1>6, <2>0, BringsCall DEF CallAt, Brings
  <2>2. ASSUME NEW k \in 1 .. Len(calls'), SameWay(CallAt(u, i), k)', calls'[k].runs # 0
        PROVE  k <= CallAt(u, i)
    <3>1. k # Len(calls) + 1
      BY <1>3, <2>2
    <3>2. k \in 1 .. Len(calls)
      BY <1>2, <1>3, <3>1
    <3>3. SameWay(CallAt(u, i), k)
      BY <1>3, <2>1, <2>2, <3>2 DEF SameWay
    <3> QED BY <1>3, <2>0, <2>1, <2>2, <3>2, <3>3 DEF QueueOrder
  <2>3. ASSUME NEW j \in 1 .. Len(job_queue'[u]), i < j, Brings(u, j)',
               SameWay(CallAt(u, i), CallAt(u, j))'
        PROVE  CallAt(u, i) < CallAt(u, j)'
    <3>0. j \in 1 .. Len(job_queue[u])
      BY <1>1
    <3>1. CallAt(u, j)' = CallAt(u, j) /\ CallAt(u, j) \in 1 .. Len(calls) /\ Brings(u, j)
      BY <1>1, <2>3, <3>0, BringsCall DEF CallAt, Brings
    <3>2. SameWay(CallAt(u, i), CallAt(u, j))
      BY <1>3, <2>1, <2>3, <3>1 DEF SameWay
    <3> QED BY <2>0, <2>1, <2>3, <3>0, <3>1, <3>2 DEF QueueOrder
  <2>4. calls'[CallAt(u, i)'].dst = u
    BY <1>3, <2>0, <2>1 DEF QueueOrder
  <2> QED BY <2>1, <2>2, <2>3, <2>4
<1> QED BY <1>5, <1>6 DEF QueueOrder

\* The command that is sent is the thread's last, and goes to the end of the queue.
LEMMA OrderSend ==
  ASSUME ChannelInv, ChannelInv', QueueOrder, NEW c \in Callers, Send(c)
  PROVE  QueueOrder'
<1> DEFINE k == caller[c].call
           obj == caller[c].obj
           t == calls[k].dst
<1>1. /\ caller[c].pc = "send" /\ FillDescriptor(c)
      /\ job_queue' = [job_queue EXCEPT ![t] = Append(job_queue[t], obj)]
      /\ caller' = [caller EXCEPT ![c] = [caller[c] EXCEPT !.pc = "wait"]]
      /\ calls' = calls
  BY DEF Send, Enqueued
<1>2. /\ k \in 1 .. Len(calls) /\ calls[k].by = c /\ NotRun(k)
      /\ obj \in Objects /\ ~UnderWay(obj)
      /\ \A o \in Objects : Active(o) => desc[o].call # k
  BY <1>1 DEF ChannelInv, ChannelTypeOK, CallersApart, OneHolder
<1>3. calls \in Seq(Call) /\ calls[k] \in Call /\ t \in Targets
  <2>1. calls \in Seq(Call)
    BY DEF ChannelInv, ChannelTypeOK, Call
  <2>2. calls[k] \in Call
    BY <1>2, <2>1, ElementOfSeq
  <2> QED BY <2>1, <2>2 DEF Call
<1>4. /\ desc'[obj].call = k
      /\ \A o \in Objects : o # obj => desc'[o] = desc[o]
  BY <1>1, FillsIn DEF ChannelInv
<1>5. /\ caller'[c].call = k
      /\ \A d \in Callers : d # c => caller'[d] = caller[d]
  <2>1. /\ caller'[c] = [caller[c] EXCEPT !.pc = "wait"]
        /\ \A d \in Callers : d # c => caller'[d] = caller[d]
    BY <1>1, UpdateCaller DEF ChannelInv
  <2> QED BY <2>1 DEF ChannelInv, ChannelTypeOK
<1>6. \A u \in Targets : job_queue'[u] = IF u = t THEN Append(job_queue[t], obj) ELSE job_queue[u]
  BY <1>1, <1>3 DEF ChannelInv, ChannelTypeOK
<1>7. /\ job_queue[t] \in Seq(Objects) /\ Len(job_queue[t]) \in Nat
      /\ Len(job_queue'[t]) = Len(job_queue[t]) + 1
      /\ \A i \in 1 .. Len(job_queue[t]) : job_queue'[t][i] = job_queue[t][i]
      /\ job_queue'[t][Len(job_queue[t]) + 1] = obj
  <2>1. job_queue[t] \in Seq(Objects) /\ Len(job_queue[t]) \in Nat
    BY <1>3, LenProperties DEF ChannelInv, ChannelTypeOK
  <2>2. job_queue'[t] = Append(job_queue[t], obj)
    BY <1>3, <1>6
  <2> HIDE DEF k, obj, t
  <2> QED BY <1>2, <2>1, <2>2, AppendIsIn
<1> HIDE DEF k, obj, t
<1>8. ASSUME NEW u \in Targets, NEW i \in 1 .. Len(job_queue[u])
      PROVE  /\ (Brings(u, i)' <=> Brings(u, i)) /\ CallAt(u, i)' = CallAt(u, i)
             /\ CallAt(u, i) \in 1 .. Len(calls) /\ CallAt(u, i) # k
             /\ i \in 1 .. Len(job_queue'[u])
  <2>1. job_queue[u][i] \in Objects /\ UnderWay(job_queue[u][i]) /\ CallAt(u, i) \in 1 .. Len(calls)
    BY BringsCall DEF UnderWay
  <2>2. job_queue'[u][i] = job_queue[u][i] /\ i \in 1 .. Len(job_queue'[u])
    BY <1>6, <1>7
  <2>3. desc'[job_queue[u][i]] = desc[job_queue[u][i]]
    BY <1>2, <1>4, <2>1
  <2>4. CallAt(u, i) # k
    BY <1>2, <2>1 DEF Active, CallAt
  <2> QED BY <2>1, <2>2, <2>3, <2>4 DEF Brings, CallAt
<1>9. ASSUME NEW u \in Targets, NEW i \in 1 .. Len(job_queue'[u]), i \notin 1 .. Len(job_queue[u])
      PROVE  u = t /\ i = Len(job_queue[t]) + 1 /\ CallAt(u, i)' = k
  <2>1. u = t /\ i = Len(job_queue[t]) + 1
    BY <1>6, <1>7, <1>9
  <2> QED BY <1>4, <1>7, <2>1 DEF CallAt
<1>10. \A m \in 1 .. Len(calls) : calls[m].by = c => m <= k
  BY <1>1 DEF QueueOrder, k
<1>11. \A j, m : SameWay(j, m)' <=> SameWay(j, m)
  BY <1>1 DEF SameWay
<1>12. ASSUME NEW u \in Targets, NEW i \in 1 .. Len(job_queue'[u]), Brings(u, i)'
      PROVE  /\ calls'[CallAt(u, i)'].dst = u
             /\ \A m \in 1 .. Len(calls') :
                   SameWay(CallAt(u, i), m)' /\ calls'[m].runs # 0 => m <= CallAt(u, i)'
             /\ \A j \in 1 .. Len(job_queue'[u]) :
                   i < j /\ Brings(u, j)' /\ SameWay(CallAt(u, i), CallAt(u, j))'
                   => CallAt(u, i)' < CallAt(u, j)'
  <2>1. CASE i \in 1 .. Len(job_queue[u])
    <3>1. Brings(u, i) /\ CallAt(u, i)' = CallAt(u, i) /\ CallAt(u, i) \in 1 .. Len(calls)
      BY <1>8, <1>12, <2>1
    <3>2. calls[CallAt(u, i)].dst = u
          /\ \A m \in 1 .. Len(calls) :
                SameWay(CallAt(u, i), m) /\ calls[m].runs # 0 => m <= CallAt(u, i)
      BY <2>1, <3>1 DEF QueueOrder
    <3>3. ASSUME NEW j \in 1 .. Len(job_queue'[u]), i < j, Brings(u, j)',
                 SameWay(CallAt(u, i), CallAt(u, j)')
          PROVE  CallAt(u, i) < CallAt(u, j)'
      <4>1. CASE j \in 1 .. Len(job_queue[u])
        <5>1. Brings(u, j) /\ CallAt(u, j)' = CallAt(u, j)
          BY <1>8, <3>3, <4>1
        <5> QED BY <2>1, <3>1, <3>3, <4>1, <5>1 DEF QueueOrder
      <4>2. CASE j \notin 1 .. Len(job_queue[u])
        <5>1. CallAt(u, j)' = k
          BY <1>9, <4>2
        <5>2. calls[CallAt(u, i)].by = c /\ CallAt(u, i) # k
          BY <1>2, <1>8, <2>1, <3>3, <5>1 DEF SameWay, k
        <5> QED BY <1>2, <1>10, <3>1, <5>1, <5>2
      <4> QED BY <4>1, <4>2
    <3>4. \A j : SameWay(CallAt(u, i), CallAt(u, j))' <=> SameWay(CallAt(u, i), CallAt(u, j)')
      BY <1>1, <3>1 DEF SameWay
    <3>5. \A m : SameWay(CallAt(u, i), m)' <=> SameWay(CallAt(u, i), m)
      BY <1>1, <3>1 DEF SameWay
    <3> QED BY <1>1, <3>1, <3>2, <3>3, <3>4, <3>5
  <2>2. CASE i \notin 1 .. Len(job_queue[u])
    <3>1. u = t /\ i = Len(job_queue[t]) + 1 /\ CallAt(u, i)' = k
      BY <1>9, <2>2
    <3>2. \A j \in 1 .. Len(job_queue'[u]) : ~(i < j)
      BY <1>7, <3>1
    <3>3. calls[k].dst = u
      BY <3>1 DEF t
    <3>4. \A m \in 1 .. Len(calls) : SameWay(CallAt(u, i), m)' => m <= k
      <4>1. \A m : SameWay(CallAt(u, i), m)' <=> SameWay(k, m)
        BY <1>1, <3>1 DEF SameWay
      <4> QED BY <1>2, <1>10, <4>1 DEF SameWay, k
    <3> QED BY <1>1, <3>1, <3>2, <3>3, <3>4
  <2> QED BY <2>1, <2>2
<1>13. \A d \in Callers, m \in 1 .. Len(calls') :
        caller'[d].pc # "idle" /\ calls'[m].by = d => m <= caller'[d].call
  BY <1>1, <1>5, <1>10 DEF QueueOrder
<1> QED BY <1>12, <1>13 DEF QueueOrder

\* The command at the head of a queue comes before all that follow it on the same way.
LEMMA OrderTake ==
  ASSUME ChannelInv, ChannelInv', QueueOrder, NEW t \in Targets, TaskTake(t)
  PROVE  /\ QueueOrder'
         /\ \A j, m \in 1 .. Len(calls) :
               j < m /\ SameWay(j, m) /\ calls[m].runs > 0 => calls'[j].runs = calls[j].runs
<1> DEFINE shift == [u \in Targets |-> IF u = t THEN 1 ELSE 0]
<1>0. PICK k \in 1 .. Len(calls) : k = CallAt(t, 1)
  <2>1. job_queue[t] \in Seq(Objects) /\ job_queue[t] # <<>>
    BY DEF ChannelInv, ChannelTypeOK, TaskTake
  <2>2. 1 \in 1 .. Len(job_queue[t])
    BY <2>1, EmptySeq, LenProperties
  <2> QED BY <2>2, BringsCall
<1>1. /\ job_queue[t] # <<>> /\ Brings(t, 1) /\ 1 \in 1 .. Len(job_queue[t])
      /\ calls' = [calls EXCEPT ![k] = [calls[k] EXCEPT !.runs = calls[k].runs + 1]]
      /\ job_queue' = [job_queue EXCEPT ![t] = Tail(job_queue[t])]
      /\ UNCHANGED <<desc, caller>>
  <2>1. job_queue[t] \in Seq(Objects) /\ job_queue[t] # <<>>
    BY DEF ChannelInv, ChannelTypeOK, TaskTake
  <2>2. Head(job_queue[t]) = job_queue[t][1] /\ 1 \in 1 .. Len(job_queue[t])
    BY <2>1, EmptySeq, LenProperties
  <2> QED BY <1>0, <2>1, <2>2 DEF TaskTake, Brings, CallAt
<1>3. calls \in Seq(Call) /\ [calls[k] EXCEPT !.runs = calls[k].runs + 1] \in Call
      /\ calls[k] \in Call
  <2>1. calls \in Seq(Call)
    BY DEF ChannelInv, ChannelTypeOK, Call
  <2>2. calls[k] \in Call
    BY <2>1, ElementOfSeq
  <2> QED BY <2>1, <2>2 DEF Call
<1>4. /\ Len(calls') = Len(calls)
      /\ \A j \in 1 .. Len(calls) : /\ calls'[j].by = calls[j].by /\ calls'[j].dst = calls[j].dst
                                    /\ j # k => calls'[j].runs = calls[j].runs
  <2>1. /\ Len(calls') = Len(calls) 
        /\ calls'[k] = [calls[k] EXCEPT !.runs = calls[k].runs + 1]
        /\ \A j \in 1 .. Len(calls) : j # k => calls'[j] = calls[j]
    BY <1>1, <1>3, UpdateCall
  <2>2. calls'[k].by = calls[k].by /\ calls'[k].dst = calls[k].dst
    BY <1>3, <2>1 DEF Call
  <2> QED BY <2>1, <2>2
<1>5. ASSUME NEW u \in Targets, NEW i \in 1 .. Len(job_queue'[u])
      PROVE  /\ i + shift[u] \in 1 .. Len(job_queue[u])
             /\ job_queue'[u][i] = job_queue[u][i + shift[u]]
             /\ u = t => 1 < i + shift[u]
  <2>1. CASE u = t
    <3>1. /\ Len(Tail(job_queue[t])) = Len(job_queue[t]) - 1 /\ Len(job_queue[t]) \in Nat \ {0}
          /\ \A j \in 1 .. Len(Tail(job_queue[t])) : Tail(job_queue[t])[j] = job_queue[t][j + 1]
      <4>1. job_queue[t] \in Seq(Objects) /\ Distinct(job_queue[t])
        BY DEF ChannelInv, ChannelTypeOK, OnePlace
      <4> QED BY <1>1, <4>1, TailIsIn
    <3>2. job_queue'[u] = Tail(job_queue[t])
      BY <1>1, <2>1 DEF ChannelInv, ChannelTypeOK
    <3>3. i + shift[u] = i + 1
      BY <2>1
    <3> QED BY <2>1, <3>1, <3>2, <3>3
  <2>2. CASE u # t
    <3>1. job_queue'[u] = job_queue[u]
      BY <1>1, <2>2 DEF ChannelInv, ChannelTypeOK
    <3>2. i + shift[u] = i
      BY <2>2
    <3> QED BY <2>2, <3>1, <3>2
  <2> QED BY <2>1, <2>2
<1>6. ASSUME NEW u \in Targets, NEW i \in 1 .. Len(job_queue'[u]), Brings(u, i)'
      PROVE  /\ Brings(u, i + shift[u]) /\ CallAt(u, i)' = CallAt(u, i + shift[u])
             /\ CallAt(u, i + shift[u]) \in 1 .. Len(calls)
             /\ SameWay(CallAt(u, i + shift[u]), k) => k < CallAt(u, i + shift[u])
  <2>1. Brings(u, i + shift[u]) /\ CallAt(u, i)' = CallAt(u, i + shift[u])
    BY <1>1, <1>5, <1>6 DEF Brings, CallAt
  <2>2. ASSUME SameWay(CallAt(u, i + shift[u]), k) PROVE k < CallAt(u, i + shift[u])
    <3>1. calls[CallAt(u, i + shift[u])].dst = u /\ calls[k].dst = t
      BY <1>0, <1>1, <1>5, <2>1 DEF QueueOrder
    <3>2. u = t
      BY <2>2, <3>1 DEF SameWay
    <3>3. SameWay(k, CallAt(t, i + shift[t]))
      BY <2>2, <3>2 DEF SameWay
    <3> QED BY <1>0, <1>1, <1>5, <2>1, <3>2, <3>3 DEF QueueOrder
  <2> QED BY <1>5, <2>1, <2>2, BringsCall
<1>7. \A j \in 1 .. Len(calls) : SameWay(k, j) /\ calls[j].runs # 0 => j <= k
  BY <1>0, <1>1 DEF QueueOrder
<1>8. shift \in [Targets -> {0, 1}]
  OBVIOUS
<1>9. \A j, m \in 1 .. Len(calls) :
        j < m /\ SameWay(j, m) /\ calls[m].runs > 0 => calls'[j].runs = calls[j].runs
  <2> SUFFICES ASSUME NEW j \in 1 .. Len(calls), NEW m \in 1 .. Len(calls),
                      j < m, SameWay(j, m), calls[m].runs > 0
               PROVE  calls'[j].runs = calls[j].runs
    OBVIOUS
  <2>1. calls[m].runs # 0
    OBVIOUS
  <2>2. j # k
    BY <1>7, <2>1
  <2> QED BY <1>4, <2>2
<1>10. \A m \in 1 .. Len(calls) : calls[m].runs = 0 /\ calls'[m].runs # 0 =>
          \A u \in Targets : \A i \in 1 .. Len(job_queue'[u]) :
             Brings(u, i)' /\ SameWay(CallAt(u, i + shift[u]), m)
             => m <= CallAt(u, i + shift[u])
  <2> SUFFICES ASSUME NEW m \in 1 .. Len(calls), calls[m].runs = 0, calls'[m].runs # 0,
                      NEW u \in Targets, NEW i \in 1 .. Len(job_queue'[u]), Brings(u, i)',
                      SameWay(CallAt(u, i + shift[u]), m)
               PROVE  m <= CallAt(u, i + shift[u])
    OBVIOUS
  <2>1. m = k
    BY <1>4
  <2>2. m < CallAt(u, i + shift[u]) /\ CallAt(u, i + shift[u]) \in 1 .. Len(calls)
    BY <1>6, <2>1
  <2> QED BY <2>2
<1> HIDE DEF shift
<1> QED BY <1>1, <1>4, <1>5, <1>6, <1>8, <1>9, <1>10, OrderKept

\* An acknowledgement leaves its queue.
LEMMA OrderHandleAck ==
  ASSUME ChannelInv, QueueOrder, NEW t \in Targets, HandleAck(t)
  PROVE  QueueOrder'
<1> DEFINE shift == [u \in Targets |-> IF u = t THEN 1 ELSE 0]
           o == Head(job_queue[t])
<1>1. /\ job_queue[t] # <<>> /\ desc' = [desc EXCEPT ![o] = [desc[o] EXCEPT !.is_ack = FALSE]]
      /\ job_queue' = [job_queue EXCEPT ![t] = Tail(job_queue[t])]
      /\ UNCHANGED <<calls, caller>>
  BY DEF HandleAck
<1>2. \A p \in Objects, u \in Targets : In(p, job_queue'[u]) <=> In(p, job_queue[u]) /\ p # o
  BY <1>1, TakenFromQueue
<1>3. ASSUME NEW u \in Targets, NEW i \in 1 .. Len(job_queue'[u])
      PROVE  /\ i + shift[u] \in 1 .. Len(job_queue[u])
             /\ job_queue'[u][i] = job_queue[u][i + shift[u]]
  <2>1. CASE u = t
    <3>1. /\ Len(Tail(job_queue[t])) = Len(job_queue[t]) - 1 /\ Len(job_queue[t]) \in Nat \ {0}
          /\ \A j \in 1 .. Len(Tail(job_queue[t])) : Tail(job_queue[t])[j] = job_queue[t][j + 1]
      <4>1. job_queue[t] \in Seq(Objects) /\ Distinct(job_queue[t])
        BY DEF ChannelInv, ChannelTypeOK, OnePlace
      <4> QED BY <1>1, <4>1, TailIsIn
    <3>2. job_queue'[u] = Tail(job_queue[t])
      BY <1>1, <2>1 DEF ChannelInv, ChannelTypeOK
    <3>3. i + shift[u] = i + 1
      BY <2>1
    <3> QED BY <3>1, <3>2, <3>3
  <2>2. CASE u # t
    <3>1. job_queue'[u] = job_queue[u]
      BY <1>1, <2>2 DEF ChannelInv, ChannelTypeOK
    <3>2. i + shift[u] = i
      BY <2>2
    <3> QED BY <3>1, <3>2
  <2> QED BY <2>1, <2>2
<1>4. ASSUME NEW u \in Targets, NEW i \in 1 .. Len(job_queue'[u]), Brings(u, i)'
      PROVE  /\ Brings(u, i + shift[u]) /\ CallAt(u, i)' = CallAt(u, i + shift[u])
  <2>1. job_queue[u][i + shift[u]] \in Objects /\ job_queue[u][i + shift[u]] # o
    <3>1. In(job_queue'[u][i], job_queue'[u])
      BY DEF In
    <3> QED BY <1>2, <1>3, <3>1, BringsCall
  <2>2. desc'[job_queue[u][i + shift[u]]] = desc[job_queue[u][i + shift[u]]]
    BY <1>1, <2>1 DEF ChannelInv, ChannelTypeOK
  <2> QED BY <1>3, <1>4, <2>2 DEF Brings, CallAt
<1>5. shift \in [Targets -> {0, 1}]
  OBVIOUS
<1> HIDE DEF shift
<1> QED BY <1>1, <1>3, <1>4, <1>5, OrderKept

\* A command that ends may put an acknowledgement into the queue of the host.
LEMMA OrderDone ==
  ASSUME ChannelInv, QueueOrder, NEW t \in Targets, NEW result \in {"ok", "fail"},
         TaskDone(t, result)
  PROVE  QueueOrder' /\ \A j \in 1 .. Len(calls) : calls'[j].runs = calls[j].runs
<1> DEFINE shift == [u \in Targets |-> 0]
           o == task[t].obj
           k == task[t].call
<1>1. /\ task[t].busy
      /\ desc' = [desc EXCEPT ![o] = [desc[o] EXCEPT !.is_ack = TRUE, !.cmd_status = result]]
      /\ \/ job_queue' = [job_queue EXCEPT ![Host] = Append(job_queue[Host], o)]
         \/ job_queue' = job_queue
      /\ calls' = [calls EXCEPT ![k] = [calls[k] EXCEPT !.result = result]]
      /\ caller' = caller
  BY DEF TaskDone, Enqueued
<1>2. /\ o \in Objects /\ \A u \in Targets : ~In(o, job_queue[u])
      /\ k \in 1 .. Len(calls) /\ Host \in Targets
  <2>1. o \in Objects /\ Executes(t, o)
    BY <1>1 DEF ChannelInv, ChannelTypeOK, Executes
  <2>2. k \in 1 .. Len(calls)
    BY <2>1 DEF ChannelInv, Progress, UnderWay, Executes
  <2> QED BY <2>1, <2>2, ChannelAssumption DEF ChannelInv, OnePlace
<1>3. /\ Len(calls') = Len(calls)
      /\ \A j \in 1 .. Len(calls) : /\ calls'[j].by = calls[j].by /\ calls'[j].dst = calls[j].dst
                                    /\ calls'[j].runs = calls[j].runs
  <2>1. calls \in Seq(Call)
    BY DEF ChannelInv, ChannelTypeOK, Call
  <2>2. calls[k] \in Call
    BY <1>2, <2>1, ElementOfSeq
  <2>3. [calls[k] EXCEPT !.result = result] \in Call
    BY <2>2 DEF Call, Statuses
  <2>4. /\ Len(calls') = Len(calls)
        /\ calls'[k] = [calls[k] EXCEPT !.result = result]
        /\ \A j \in 1 .. Len(calls) : j # k => calls'[j] = calls[j]
    BY <1>1, <1>2, <2>1, <2>3, UpdateCall
  <2>5. /\ calls'[k].by = calls[k].by /\ calls'[k].dst = calls[k].dst
        /\ calls'[k].runs = calls[k].runs
    BY <2>2, <2>4 DEF Call
  <2> QED BY <2>4, <2>5
<1>4. desc'[o].is_ack /\ \A p \in Objects : p # o => desc'[p] = desc[p]
  BY <1>1, <1>2 DEF ChannelInv, ChannelTypeOK
<1>5. ASSUME NEW u \in Targets, NEW i \in 1 .. Len(job_queue'[u]), Brings(u, i)'
      PROVE  i \in 1 .. Len(job_queue[u]) /\ job_queue'[u][i] = job_queue[u][i]
  <2>1. CASE job_queue'[u] = job_queue[u]
    BY <2>1
  <2>2. CASE job_queue'[u] = Append(job_queue[u], o)
    <3>1. job_queue[u] \in Seq(Objects) /\ Len(job_queue[u]) \in Nat
      BY LenProperties DEF ChannelInv, ChannelTypeOK
    <3> HIDE DEF o
    <3>2. /\ Len(job_queue'[u]) = Len(job_queue[u]) + 1
          /\ job_queue'[u][Len(job_queue[u]) + 1] = o
          /\ \A j \in 1 .. Len(job_queue[u]) : job_queue'[u][j] = job_queue[u][j]
      BY <1>2, <2>2, <3>1, AppendIsIn
    <3>3. i # Len(job_queue[u]) + 1
      BY <1>4, <1>5, <3>2 DEF Brings
    <3> QED BY <3>1, <3>2, <3>3
  <2>3. job_queue'[u] = job_queue[u] \/ job_queue'[u] = Append(job_queue[u], o)
    BY <1>1, <1>2 DEF ChannelInv, ChannelTypeOK
  <2> QED BY <2>1, <2>2, <2>3
<1>6. ASSUME NEW u \in Targets, NEW i \in 1 .. Len(job_queue'[u]), Brings(u, i)'
      PROVE  /\ i + shift[u] \in 1 .. Len(job_queue[u])
             /\ Brings(u, i + shift[u]) /\ CallAt(u, i)' = CallAt(u, i + shift[u])
  <2>1. i + shift[u] = i /\ i \in 1 .. Len(job_queue[u]) /\ job_queue'[u][i] = job_queue[u][i]
    BY <1>5, <1>6
  <2>2. job_queue[u][i] \in Objects /\ In(job_queue[u][i], job_queue[u])
    BY <2>1, BringsCall
  <2>3. desc'[job_queue[u][i]] = desc[job_queue[u][i]]
    BY <1>2, <1>4, <2>2
  <2> QED BY <1>6, <2>1, <2>3 DEF Brings, CallAt
<1>7. shift \in [Targets -> {0, 1}]
  OBVIOUS
<1> HIDE DEF shift
<1> QED BY <1>1, <1>3, <1>6, <1>7, OrderKept

LEMMA OrderNext ==
  ASSUME ChannelInv, ChannelInv', QueueOrder, [Next]_channel_vars
  PROVE  /\ QueueOrder'
         /\ \A j, k \in 1 .. Len(calls) :
               j < k /\ SameWay(j, k) /\ calls[k].runs > 0 => calls'[j].runs = calls[j].runs
<1>1. ASSUME NEW c \in Callers, NEW status, Return(c, status), UNCHANGED job_queue,
             caller[c].pc # "idle", \A o \in Objects : UnderWay(o) => desc'[o] = desc[o]
      PROVE  /\ QueueOrder' /\ \A j \in 1 .. Len(calls) : calls'[j].runs = calls[j].runs
  <2> DEFINE k == caller[c].call
  <2>1. /\ calls' = [calls EXCEPT ![k] = [calls[k] EXCEPT !.answer = status]]
        /\ caller' = [caller EXCEPT ![c] = IdleCaller]
    BY <1>1 DEF Return
  <2>2. calls \in Seq(Call) /\ k \in 1 .. Len(calls)
    BY <1>1 DEF ChannelInv, ChannelTypeOK, CallersApart, Call
  <2>3. calls[k] \in Call
    BY <2>2, ElementOfSeq
  <2>4. /\ Len(calls') = Len(calls)
        /\ \A j \in 1 .. Len(calls) :
              calls'[j] = IF j = k THEN [calls[k] EXCEPT !.answer = status] ELSE calls[j]
    BY <2>1, <2>2, ExceptSeq, LenProperties
  <2>5. \A j \in 1 .. Len(calls) :
          /\ calls'[j].by = calls[j].by /\ calls'[j].dst = calls[j].dst
          /\ calls'[j].runs = calls[j].runs
    BY <2>3, <2>4 DEF Call
  <2>6. \A d \in Callers : caller'[d].pc # "idle" =>
           caller[d].pc # "idle" /\ caller'[d].call = caller[d].call
    BY <2>1, UpdateCaller DEF ChannelInv, IdleCaller
  <2> QED BY <1>1, <2>4, <2>5, <2>6, OrderSameQueues
<1>2. ASSUME NEW c \in Callers, CallerStep(c), ~Send(c)
      PROVE  /\ QueueOrder' /\ \A j \in 1 .. Len(calls) : calls'[j].runs = calls[j].runs
  <2>1. CASE GetTimeout(c) \/ Finish(c) \/ Expire(c)
    BY <1>1, <2>1 DEF GetTimeout, Finish, Expire
  <2>2. CASE SendFailed(c)
    <3>1. \A o \in Objects : UnderWay(o) => desc'[o] = desc[o]
      BY <2>2, FillsIn DEF SendFailed, ChannelInv, OneHolder
    <3> QED BY <1>1, <2>2, <3>1 DEF SendFailed
  <2>3. CASE GetObject(c) \/ WaitAck(c) \/ WaitTimeout(c)
    <3>1. UNCHANGED <<desc, job_queue, calls>>
      BY <2>3 DEF GetObject, WaitAck, WaitTimeout
    <3>2. caller[c].pc # "idle"
      BY <2>3 DEF GetObject, WaitAck, WaitTimeout
    <3>3. caller'[c].call = caller[c].call /\ \A d \in Callers : d # c => caller'[d] = caller[d]
      <4>1. caller[c] \in [pc : {"idle", "get", "send", "wait", "acked", "timed_out"},
                          obj : Objects, call : 0 .. Len(calls)]
        BY DEF ChannelInv, ChannelTypeOK
      <4>2. \E s : caller' = [caller EXCEPT ![c] = s] /\ s.call = caller[c].call
        <5>1. CASE GetObject(c)
          <6> WITNESS [caller[c] EXCEPT !.pc = "send", !.obj = Head(free_queue)]
          <6> QED BY <4>1, <5>1 DEF GetObject
        <5>2. CASE WaitAck(c)
          <6> WITNESS [caller[c] EXCEPT !.pc = "acked"]
          <6> QED BY <4>1, <5>2 DEF WaitAck
        <5>3. CASE WaitTimeout(c)
          <6> WITNESS [caller[c] EXCEPT !.pc = "timed_out"]
          <6> QED BY <4>1, <5>3 DEF WaitTimeout
        <5> QED BY <2>3, <5>1, <5>2, <5>3
      <4> QED BY <4>2, UpdateCaller DEF ChannelInv
    <3> QED BY <3>1, <3>2, <3>3, OrderSameQueues
  <2> QED BY <1>2, <2>1, <2>2, <2>3 DEF CallerStep
<1>3. ASSUME NEW c \in Callers, Send(c)
      PROVE  QueueOrder' /\ UNCHANGED calls
  BY <1>3, OrderSend DEF Send
<1>4. ASSUME NEW c \in Callers, NEW t \in Targets, NEW m \in Commands, SendCmd(c, t, m)
      PROVE  QueueOrder' /\ \A j \in 1 .. Len(calls) : calls'[j].runs = calls[j].runs
  <2>1. calls \in Seq(Call)
    BY DEF ChannelInv, ChannelTypeOK, Call
  <2>2. \A j \in 1 .. Len(calls) : calls'[j] = calls[j]
    BY <1>4, <2>1, LenProperties, AppendProperties DEF SendCmd
  <2> QED BY <1>4, <2>2, OrderSendCmd
<1>5. ASSUME NEW t \in Targets, HandleAck(t) PROVE QueueOrder' /\ UNCHANGED calls
  BY <1>5, OrderHandleAck DEF HandleAck
<1>6. ASSUME NEW t \in Targets, NEW result \in {"ok", "fail"}, TaskDone(t, result)
      PROVE  QueueOrder' /\ \A j \in 1 .. Len(calls) : calls'[j].runs = calls[j].runs
  BY <1>6, OrderDone
<1>7. CASE UNCHANGED channel_vars
  <2>1. UNCHANGED <<desc, job_queue, calls, caller>>
    BY <1>7 DEF channel_vars
  <2> QED BY <2>1, OrderSameQueues
<1> QED BY <1>2, <1>3, <1>4, <1>5, <1>6, <1>7, OrderTake DEF Next, TaskStep

LEMMA OrderInvariance == Spec => []QueueOrder
<1>1. Init => QueueOrder
  BY DEF Init, QueueOrder, IdleCaller
<1>2. ChannelInv /\ ChannelInv' /\ QueueOrder /\ [Next]_channel_vars => QueueOrder'
  BY OrderNext
<1> QED BY <1>1, <1>2, ChannelInvariance, PTL DEF Spec

\* A target executes the commands of a thread in the order of its calls, whatever timed
\* out in between: a DELETE does not overtake the CREATE before it.
THEOREM CommandsInOrder == Spec => ExecutedInOrder
<1>1. ChannelInv /\ ChannelInv' /\ QueueOrder /\ [Next]_channel_vars
        => [\A j, k \in 1 .. Len(calls) :
              j < k /\ calls[j].by = calls[k].by /\ calls[j].dst = calls[k].dst
                    /\ calls[k].runs > 0
              => calls'[j].runs = calls[j].runs]_channel_vars
  BY OrderNext DEF SameWay
<1> QED BY <1>1, ChannelInvariance, OrderInvariance, PTL DEF Spec, ExecutedInOrder
=============================================================================
