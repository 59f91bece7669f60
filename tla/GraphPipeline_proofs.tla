------------------------ MODULE GraphPipeline_proofs ------------------------
(***************************************************************************)
(* Proofs about GraphPipeline, for every graph, every pipeline depth and   *)
(* every assignment of its nodes to targets.                               *)
(***************************************************************************)
EXTENDS GraphPipeline, GraphSchedule_proofs, QueueLemmas

\* What the host target's queue and the outboxes of the threads hold.
Consumptions == {"ref_consumed"} \X UserData
Commands == (Nodes \X Pipes) \cup Consumptions
Messages == [to : Targets, item : Nodes \X Pipes] \cup [to : {"host"}, item : Consumptions]
Tasks == [pc : {"idle", "acquire", "execute", "release", "complete", "trigger"},
          node : Nodes, pipe : Pipes, prm : Nat \ {0}, refs : Seq(Nat),
          retrigger : BOOLEAN]
References(d) == {Invalid} \cup Bufs(d)

\* The types of the scheduler's variables that the pipeline's steps rely on.
SchedulerTypes ==
    /\ free_q \in Seq(Pipes) /\ executed \in [Pipes -> SUBSET Nodes]
    /\ schedule_pending_count \in Nat
    /\ host \in HostStates /\ app \in [Apps -> AppStates]

MessageTypes ==
    /\ host_q \in Seq(Commands) /\ Len(host_q) <= MaxJobs
    /\ outbox \in [Threads -> Seq(Messages)]
    /\ job_q \in [Targets -> Seq(Nodes \X Pipes)]
    /\ \A t \in Targets : Len(job_q[t]) <= MaxJobs

QueueTypes ==
    /\ acquire_q \in [Data -> Seq(Nat)] /\ \A d \in Data : acquire_q[d] \in Seq(Bufs(d))
    /\ done_q \in [UserData -> Seq(Nat)] /\ \A d \in UserData : done_q[d] \in Seq(Bufs(d))
    /\ held \in [UserData -> SUBSET Nat] /\ \A d \in UserData : held[d] \subseteq Bufs(d)
    /\ blocked_nodes \in [Data -> Seq(Nodes \X Pipes)]
    /\ \A d \in Data : Len(blocked_nodes[d]) <= MaxBlocked

NodeTypes ==
    /\ data_ref \in [Data -> [Pipes -> [acquired : BOOLEAN, ref : Nat,
                                         in_node_done_cnt : Nat]]]
    /\ \A d \in Data, p \in Pipes : data_ref[d][p].ref \in References(d)
    /\ node_state \in [Nodes -> [Pipes -> {"IDLE", "BLOCKED"}]]
    /\ next_blocked \subseteq Nodes \X Pipes
    /\ task \in [Targets -> Tasks]

\* A task that acquires has a reference for every parameter before the current one;
\* one that runs or releases its node has one for each.
TaskReferences(tk) ==
    /\ \A i \in 1 .. Len(tk.refs) : /\ i \in 1 .. Len(Params[tk.node])
                                    /\ tk.refs[i] \in References(Params[tk.node][i])
    /\ tk.pc = "acquire" => Len(tk.refs) = tk.prm - 1
    /\ tk.pc \in {"acquire", "release"} => tk.prm <= Len(Params[tk.node])
    /\ tk.pc \in {"execute", "release"} => Len(tk.refs) = Len(Params[tk.node])
    /\ tk.pc = "execute" => tk.prm = 1

CounterTypes ==
    /\ done_event \in [UserData -> BOOLEAN]
    /\ dequeuer \in [UserData -> {"idle", "wait", "poll"}]
    /\ num_fed \in Nat /\ num_delivered \in [UserData -> Nat]

PipeTypes ==
    /\ SchedulerTypes /\ MessageTypes /\ QueueTypes /\ NodeTypes /\ CounterTypes
    /\ \A t \in Targets : TaskReferences(task[t])

-----------------------------------------------------------------------------
\* Sending and receiving.

\* What is queued already stays, what is new follows it as far as there is room.
LEMMA PutProperties ==
  ASSUME NEW S, NEW q \in Seq(S), NEW jobs \in Seq(S), Len(q) <= MaxJobs
  PROVE  /\ Put(q, jobs) \in Seq(S) /\ Len(Put(q, jobs)) \in Nat
         /\ Len(Put(q, jobs)) = IF Len(q) + Len(jobs) <= MaxJobs
                                THEN Len(q) + Len(jobs) ELSE MaxJobs
         /\ \A i \in 1 .. Len(Put(q, jobs)) :
              /\ i <= Len(q) => Put(q, jobs)[i] = q[i]
              /\ i > Len(q) => /\ i - Len(q) \in 1 .. Len(jobs)
                               /\ Put(q, jobs)[i] = jobs[i - Len(q)]
<1> DEFINE n == Min({MaxJobs, Len(q) + Len(jobs)})
           all == q \o jobs
<1>1. MaxJobs \in Nat /\ Len(q) \in Nat /\ Len(jobs) \in Nat
  BY PipelineAssumption, LenProperties
<1>2. n = IF Len(q) + Len(jobs) <= MaxJobs THEN Len(q) + Len(jobs) ELSE MaxJobs
  BY <1>1 DEF Min
<1>3. /\ all \in Seq(S) /\ Len(all) = Len(q) + Len(jobs)
      /\ \A i \in 1 .. Len(q) + Len(jobs) :
           all[i] = IF i <= Len(q) THEN q[i] ELSE jobs[i - Len(q)]
  BY ConcatProperties
<1>4. n \in Nat /\ n <= Len(all) /\ Len(q) <= n
  BY <1>1, <1>2, <1>3
<1> HIDE DEF n, all
<1>5. \A i \in 1 .. n : all[i] \in S
  BY <1>3, <1>4, <1>1, ElementOfSeq
<1>6. /\ SubSeq(all, 1, n) \in Seq(S) /\ Len(SubSeq(all, 1, n)) = n
      /\ \A i \in 1 .. n : SubSeq(all, 1, n)[i] = all[i]
  BY <1>4, <1>5, SubSeqProperties
<1>7. Put(q, jobs) = SubSeq(all, 1, n)
  BY DEF Put, n, all
<1> QED BY <1>1, <1>2, <1>3, <1>4, <1>6, <1>7

\* One job for a queue with room is appended.
LEMMA PutOne ==
  ASSUME NEW S, NEW q \in Seq(S), NEW job \in S, Len(q) <= MaxJobs
  PROVE  /\ Put(q, <<job>>) \in Seq(S) /\ Len(Put(q, <<job>>)) <= MaxJobs
         /\ Len(q) < MaxJobs => Put(q, <<job>>) = Append(q, job)
         /\ Len(q) = MaxJobs => Put(q, <<job>>) = q
<1> DEFINE jobs == <<job>>
<1>1. /\ MaxJobs \in Nat /\ Len(q) \in Nat /\ jobs \in Seq(S) /\ Len(jobs) = 1
      /\ jobs[1] = job
  BY PipelineAssumption, LenProperties
<1>2. /\ Append(q, job) \in Seq(S) /\ Len(Append(q, job)) = Len(q) + 1
      /\ \A i \in 1 .. Len(q) : Append(q, job)[i] = q[i]
      /\ Append(q, job)[Len(q) + 1] = job
  BY AppendProperties
<1> HIDE DEF jobs
<1>3. /\ Put(q, jobs) \in Seq(S)
      /\ Len(Put(q, jobs)) = IF Len(q) + 1 <= MaxJobs THEN Len(q) + 1 ELSE MaxJobs
      /\ \A i \in 1 .. Len(Put(q, jobs)) :
              /\ i <= Len(q) => Put(q, jobs)[i] = q[i]
              /\ i > Len(q) => Put(q, jobs)[i] = jobs[i - Len(q)]
  <2>1. /\ Put(q, jobs) \in Seq(S)
        /\ Len(Put(q, jobs)) = IF Len(q) + Len(jobs) <= MaxJobs
                               THEN Len(q) + Len(jobs) ELSE MaxJobs
        /\ \A i \in 1 .. Len(Put(q, jobs)) :
             /\ i <= Len(q) => Put(q, jobs)[i] = q[i]
             /\ i > Len(q) => Put(q, jobs)[i] = jobs[i - Len(q)]
    BY <1>1, PutProperties, ZenonT(30)
  <2> QED BY <1>1, <2>1
<1>4. ASSUME Len(q) < MaxJobs PROVE Put(q, jobs) = Append(q, job)
  <2>1. Len(Put(q, jobs)) = Len(q) + 1
    BY <1>1, <1>3, <1>4
  <2>2. \A i \in 1 .. Len(q) + 1 : Put(q, jobs)[i] = Append(q, job)[i]
    <3> TAKE i \in 1 .. Len(q) + 1
    <3>1. CASE i <= Len(q)
      BY <1>1, <1>2, <1>3, <2>1, <3>1
    <3>2. CASE i = Len(q) + 1
      <4>1. i - Len(q) = 1 /\ i > Len(q)
        BY <1>1, <3>2
      <4> QED BY <1>1, <1>2, <1>3, <2>1, <3>2, <4>1
    <3> QED BY <1>1, <3>1, <3>2
  <2> QED BY <1>2, <1>3, <2>1, <2>2, SeqEqual
<1>5. ASSUME Len(q) = MaxJobs PROVE Put(q, jobs) = q
  <2>1. Len(Put(q, jobs)) = Len(q)
    BY <1>1, <1>3, <1>5
  <2> QED BY <1>1, <1>3, <2>1, SeqEqual
<1> QED BY <1>1, <1>3, <1>4, <1>5 DEF jobs

\* A descriptor for a node goes to the target of the node.
LEMMA MessageFacts ==
  /\ \A n \in Nodes, p \in Pipes :
       /\ ToNode(n, p) \in Messages
       /\ ToNode(n, p).to = TargetOf[n] /\ ToNode(n, p).item = <<n, p>>
  /\ \A d \in UserData : /\ ToHost(<<"ref_consumed", d>>) \in Messages
                         /\ ToHost(<<"ref_consumed", d>>).to = "host"
                         /\ ToHost(<<"ref_consumed", d>>).item = <<"ref_consumed", d>>
  /\ \A msg \in Messages : /\ msg.to = "host" => msg.item \in Consumptions
                           /\ msg.to # "host" => /\ msg.to \in Targets
                                                 /\ msg.item \in Nodes \X Pipes
  /\ \A msg \in Messages : <<msg>> \in Seq(Messages)
  /\ Consumptions \subseteq Commands /\ Nodes \X Pipes \subseteq Commands
  /\ \A c \in Commands : /\ c[1] = "ref_consumed" => c \in Consumptions
                         /\ c[1] # "ref_consumed" => c \in Nodes \X Pipes
<1>1. /\ \A n \in Nodes, p \in Pipes :
           /\ ToNode(n, p) \in Messages
           /\ ToNode(n, p).to = TargetOf[n] /\ ToNode(n, p).item = <<n, p>>
      /\ \A d \in UserData : /\ ToHost(<<"ref_consumed", d>>) \in Messages
                             /\ ToHost(<<"ref_consumed", d>>).to = "host"
                             /\ ToHost(<<"ref_consumed", d>>).item = <<"ref_consumed", d>>
  BY PipelineAssumption, NodesAssumption DEF ToNode, ToHost, Messages, Consumptions
<1>2. \A msg \in Messages : /\ msg.to = "host" => msg.item \in Consumptions
                            /\ msg.to # "host" => /\ msg.to \in Targets
                                                  /\ msg.item \in Nodes \X Pipes
  BY PipelineAssumption DEF Messages
<1>3. \A c \in Commands : /\ c[1] = "ref_consumed" => c \in Consumptions
                          /\ c[1] # "ref_consumed" => c \in Nodes \X Pipes
  BY PipelineAssumption DEF Commands, Consumptions
<1> QED BY <1>1, <1>2, <1>3 DEF Commands

\* The quotient and the remainder of a place in a list of k groups of h.
LEMMA DivMod ==
  ASSUME NEW h \in Nat, NEW k \in Nat, NEW i \in 0 .. k * h - 1
  PROVE  /\ h > 0 /\ i % h \in 0 .. h - 1 /\ i \div h \in 0 .. k - 1
         /\ i = h * (i \div h) + (i % h)
<1>1. h > 0
  BY SMT
<1>2. i \in Nat /\ i < k * h
  BY SMT
<1>3. i % h \in 0 .. h - 1 /\ i \div h \in Int
  BY <1>1, <1>2
<1>4. i = h * (i \div h) + (i % h)
  BY <1>1, <1>2
<1>5. i \div h >= 0
  BY <1>1, <1>2
<1>6. i \div h < k
  <2> DEFINE q == i \div h
             r == i % h
  <2>1. q \in Int /\ r \in 0 .. h - 1 /\ i = h * q + r
    BY <1>3, <1>4
  <2> HIDE DEF q, r
  <2>2. ASSUME q >= k PROVE FALSE
    <3>1. PICK x \in Nat : q = k + x
      <4>1. q - k \in Nat /\ q = k + (q - k)
        BY <2>1, <2>2
      <4> QED BY <4>1
    <3>2. h * q = k * h + h * x
      BY <3>1
    <3>3. h * x \in Nat
      BY <3>1
    <3> QED BY <1>2, <2>1, <3>2, <3>3
  <2>3. q < k
    BY <2>1, <2>2
  <2> QED BY <2>3 DEF q
<1> QED BY <1>1, <1>3, <1>4, <1>5, <1>6

\* The head nodes of the executions that are started, as target t gets them.
HeadJobs(t, num) ==
    [i \in 1 .. NumStarted(num) * Len(HeadNodes[t]) |->
       <<HeadNodes[t][1 + ((i - 1) % Len(HeadNodes[t]))],
         free_q[1 + ((i - 1) \div Len(HeadNodes[t]))]>>]

-----------------------------------------------------------------------------
\* What the scheduler does, as far as the pipeline sees it.

LEMMA StartedTypes ==
  ASSUME SchedulerTypes, NEW num \in Nat, OwnGraphScheduleGraph(num)
  PROVE  /\ NumStarted(num) \in 0 .. Len(free_q) /\ Len(free_q) \in Nat
         /\ free_q' \in Seq(Pipes) /\ executed' \in [Pipes -> SUBSET Nodes]
         /\ schedule_pending_count' \in Nat
<1>1. Len(free_q) \in Nat /\ schedule_pending_count \in Nat /\ free_q \in Seq(Pipes)
  BY LenProperties DEF SchedulerTypes
<1>2. /\ NumStarted(num) \in 0 .. Len(free_q)
      /\ NumStarted(num) <= num + schedule_pending_count
  BY <1>1 DEF NumStarted
<1>3. free_q' \in Seq(Pipes)
  <2>1. \A i \in NumStarted(num) + 1 .. Len(free_q) : free_q[i] \in Pipes
    BY <1>1, <1>2, ElementOfSeq
  <2> QED BY <1>1, <1>2, <2>1, SubSeqProperties DEF OwnGraphScheduleGraph
<1>4. executed' \in [Pipes -> SUBSET Nodes]
  BY DEF OwnGraphScheduleGraph, SchedulerTypes
<1>5. schedule_pending_count' \in Nat
  BY <1>1, <1>2 DEF OwnGraphScheduleGraph, NumLeftPending
<1> QED BY <1>1, <1>2, <1>3, <1>4, <1>5

\* The i-th of these descriptors is that of a head node of t, for an instance that had
\* been free.
HeadJobAt(t, num, i) ==
    \E j \in 1 .. Len(HeadNodes[t]), m \in 1 .. NumStarted(num) :
      /\ i = 1 + (Len(HeadNodes[t]) * (m - 1)) + (j - 1)
      /\ HeadJobs(t, num)[i] = <<HeadNodes[t][j], free_q[m]>>
      /\ HeadNodes[t][j] \in Nodes /\ free_q[m] \in Pipes

\* Every target gets descriptors of its own head nodes, for instances that had been
\* free.
LEMMA HeadJobsFacts ==
  ASSUME SchedulerTypes, NEW num \in Nat, NumStarted(num) \in 0 .. Len(free_q),
         NEW t \in Targets
  PROVE  /\ HeadJobs(t, num) \in Seq(Nodes \X Pipes)
         /\ Len(HeadJobs(t, num)) = NumStarted(num) * Len(HeadNodes[t])
         /\ \A i \in 1 .. Len(HeadJobs(t, num)) : HeadJobAt(t, num, i)
<1> DEFINE h == Len(HeadNodes[t])
           k == NumStarted(num)
           heads == HeadNodes[t]
<1>1. /\ heads \in Seq(Nodes) /\ h \in Nat /\ free_q \in Seq(Pipes)
      /\ Len(free_q) \in Nat /\ k \in Nat /\ k <= Len(free_q)
  BY LinksAssumption, LenProperties DEF SchedulerTypes
<1>2. HeadJobs(t, num) = [i \in 1 .. k * h |->
                            <<heads[1 + ((i - 1) % h)], free_q[1 + ((i - 1) \div h)]>>]
  BY DEF HeadJobs
<1> HIDE DEF h, k, heads
<1>3. ASSUME NEW i \in 1 .. k * h
      PROVE  \E j \in 1 .. h, m \in 1 .. k :
               /\ i = 1 + (h * (m - 1)) + (j - 1)
               /\ HeadJobs(t, num)[i] = <<heads[j], free_q[m]>>
               /\ heads[j] \in Nodes /\ free_q[m] \in Pipes
  <2>1. i - 1 \in 0 .. k * h - 1 /\ k * h \in Nat
    BY <1>1
  <2>2. /\ (i - 1) % h \in 0 .. h - 1 /\ (i - 1) \div h \in 0 .. k - 1
        /\ i - 1 = h * ((i - 1) \div h) + ((i - 1) % h)
    BY <1>1, <2>1, DivMod
  <2>3. PICK j \in 1 .. h, m \in 1 .. k : /\ j = 1 + ((i - 1) % h)
                                          /\ m = 1 + ((i - 1) \div h)
    <3>1. 1 + ((i - 1) % h) \in 1 .. h
      BY <1>1, <2>2
    <3>2. 1 + ((i - 1) \div h) \in 1 .. k
      BY <1>1, <2>2
    <3> QED BY <3>1, <3>2
  <2>4. m - 1 = (i - 1) \div h /\ j - 1 = (i - 1) % h
    BY <1>1, <2>2, <2>3
  <2>5. i = 1 + (h * (m - 1)) + (j - 1)
    <3>1. h * (m - 1) \in Int
      BY <1>1
    <3>2. i - 1 = h * (m - 1) + (j - 1)
      BY <2>2, <2>4
    <3> QED BY <1>1, <2>1, <3>1, <3>2
  <2>6. heads[j] \in Nodes
    BY <1>1, ElementOfSeq DEF h, heads
  <2>7. free_q[m] \in Pipes
    <3>1. m \in 1 .. Len(free_q)
      BY <1>1
    <3> QED BY <1>1, <3>1, ElementOfSeq
  <2>8. HeadJobs(t, num)[i] = <<heads[j], free_q[m]>>
    BY <1>2, <2>3
  <2> QED BY <2>5, <2>6, <2>7, <2>8
<1>4. ASSUME NEW i \in 1 .. k * h PROVE HeadJobs(t, num)[i] \in Nodes \X Pipes
  <2>1. PICK j \in 1 .. h, m \in 1 .. k :
          /\ HeadJobs(t, num)[i] = <<heads[j], free_q[m]>>
          /\ heads[j] \in Nodes /\ free_q[m] \in Pipes
    BY <1>3
  <2> QED BY <2>1
<1>5. k * h \in Nat
  BY <1>1
<1>6. HeadJobs(t, num) \in [1 .. k * h -> Nodes \X Pipes]
  BY <1>2, <1>4
<1>7. HeadJobs(t, num) \in Seq(Nodes \X Pipes) /\ Len(HeadJobs(t, num)) = k * h
  BY <1>5, <1>6, SeqDef, LenProperties
<1>8. \A i \in 1 .. k * h : HeadJobAt(t, num, i)
  BY <1>3, Zenon DEF HeadJobAt, h, k, heads
<1> QED BY <1>7, <1>8 DEF h, k

-----------------------------------------------------------------------------
\* Type correctness.

\* What a step leaves alone keeps its types.
LEMMA UnchangedTypes ==
  /\ SchedulerTypes /\ UNCHANGED <<free_q, executed, schedule_pending_count, host, app>>
       => SchedulerTypes'
  /\ MessageTypes /\ UNCHANGED <<host_q, outbox, job_q>> => MessageTypes'
  /\ QueueTypes /\ UNCHANGED <<acquire_q, done_q, held, blocked_nodes>> => QueueTypes'
  /\ NodeTypes /\ UNCHANGED <<data_ref, node_state, next_blocked, task>> => NodeTypes'
  /\ CounterTypes /\ UNCHANGED <<done_event, dequeuer, num_fed, num_delivered>>
       => CounterTypes'
  /\ (\A t \in Targets : TaskReferences(task[t])) /\ UNCHANGED task
       => (\A t \in Targets : TaskReferences(task[t]))'
<1>1. SchedulerTypes /\ UNCHANGED <<free_q, executed, schedule_pending_count, host, app>>
        => SchedulerTypes'
  BY DEF SchedulerTypes
<1>2. MessageTypes /\ UNCHANGED <<host_q, outbox, job_q>> => MessageTypes'
  BY DEF MessageTypes
<1>3. QueueTypes /\ UNCHANGED <<acquire_q, done_q, held, blocked_nodes>> => QueueTypes'
  BY DEF QueueTypes
<1>4. NodeTypes /\ UNCHANGED <<data_ref, node_state, next_blocked, task>> => NodeTypes'
  BY DEF NodeTypes
<1>5. CounterTypes /\ UNCHANGED <<done_event, dequeuer, num_fed, num_delivered>>
        => CounterTypes'
  BY DEF CounterTypes
<1>6. (\A t \in Targets : TaskReferences(task[t])) /\ UNCHANGED task
        => (\A t \in Targets : TaskReferences(task[t]))'
  BY DEF TaskReferences
<1> QED BY <1>1, <1>2, <1>3, <1>4, <1>5, <1>6

LEMMA PipeInitTypes == PipeInit => PipeTypes
<1> SUFFICES ASSUME PipeInit PROVE PipeTypes
  OBVIOUS
<1>1. TypeOK
  BY InitInv DEF PipeInit, SchedInv
<1>2. SchedulerTypes
  BY <1>1 DEF SchedulerTypes, TypeOK
<1>3. /\ MaxJobs \in Nat /\ MaxBlocked \in Nat /\ 0 \in Pipes /\ ParamNode \in Nodes
      /\ \A S : <<>> \in Seq(S) /\ Len(<<>>) = 0
  BY PipelineAssumption, NodesAssumption, DepthAssumption, EmptySeq DEF Pipes
<1>4. MessageTypes
  BY <1>3 DEF MessageTypes, PipeInit, Init
<1>5. QueueTypes
  <2>1. ASSUME NEW d \in Data
        PROVE  [i \in Bufs(d) |-> i] \in Seq(Bufs(d)) /\ [i \in Bufs(d) |-> i] \in Seq(Nat)
    BY PipelineAssumption DEF Bufs
  <2>2. \A d \in Data : Bufs(d) \subseteq Nat
    BY PipelineAssumption DEF Bufs
  <2>3. UserData \subseteq Data
    BY GraphAssumption
  <2> QED BY <1>3, <2>1, <2>2, <2>3 DEF QueueTypes, PipeInit
<1>6. IdleTask \in Tasks /\ TaskReferences(IdleTask)
  BY <1>3 DEF IdleTask, Tasks, TaskReferences
<1>7. NodeTypes
  BY <1>6 DEF NodeTypes, PipeInit, Invalid, References
<1>8. CounterTypes
  BY DEF CounterTypes, PipeInit
<1> QED BY <1>2, <1>4, <1>5, <1>6, <1>7, <1>8 DEF PipeTypes, PipeInit

LEMMA SendNextTypes ==
  ASSUME PipeTypes, NEW th \in Threads, SendNext(th)
  PROVE  PipeTypes'
<1>1. /\ outbox[th] \in Seq(Messages) /\ outbox[th] # <<>>
      /\ outbox \in [Threads -> Seq(Messages)]
  BY DEF PipeTypes, MessageTypes, SendNext
<1>2. Head(outbox[th]) \in Messages /\ Tail(outbox[th]) \in Seq(Messages)
  BY <1>1, HeadTailProperties
<1>3. outbox' \in [Threads -> Seq(Messages)]
  BY <1>1, <1>2 DEF SendNext
<1>4. /\ host_q \in Seq(Commands) /\ Len(host_q) <= MaxJobs
      /\ job_q \in [Targets -> Seq(Nodes \X Pipes)]
      /\ \A t \in Targets : Len(job_q[t]) <= MaxJobs
  BY DEF PipeTypes, MessageTypes
<1>5. MessageTypes'
  <2>1. CASE Head(outbox[th]).to = "host"
    <3>1. Head(outbox[th]).item \in Commands
      BY <1>2, <2>1, MessageFacts
    <3>2. host_q' = Put(host_q, <<Head(outbox[th]).item>>) /\ UNCHANGED job_q
      BY <2>1 DEF SendNext
    <3>3. host_q' \in Seq(Commands) /\ Len(host_q') <= MaxJobs
      BY <1>4, <3>1, <3>2, PutOne
    <3> QED BY <1>3, <1>4, <3>2, <3>3 DEF MessageTypes
  <2>2. CASE Head(outbox[th]).to # "host"
    <3> DEFINE t == Head(outbox[th]).to
               job == Head(outbox[th]).item
    <3>1. t \in Targets /\ job \in Nodes \X Pipes
      BY <1>2, <2>2, MessageFacts
    <3>2. job_q' = [job_q EXCEPT ![t] = Put(job_q[t], <<job>>)] /\ UNCHANGED host_q
      BY <2>2 DEF SendNext
    <3> HIDE DEF t, job
    <3>3. /\ Put(job_q[t], <<job>>) \in Seq(Nodes \X Pipes)
          /\ Len(Put(job_q[t], <<job>>)) <= MaxJobs
      BY <1>4, <3>1, PutOne
    <3> QED BY <1>3, <1>4, <3>1, <3>2, <3>3 DEF MessageTypes
  <2> QED BY <2>1, <2>2
<1> QED BY <1>5, UnchangedTypes DEF PipeTypes, SendNext, sched_vars

\* The nodes parked on a queue, as descriptors for their targets.
LEMMA WokenType ==
  ASSUME QueueTypes, NEW d \in Data
  PROVE  /\ Woken(d) \in Seq(Messages) /\ Len(Woken(d)) = Len(blocked_nodes[d])
         /\ \A i \in 1 .. Len(Woken(d)) :
              /\ blocked_nodes[d][i] \in Nodes \X Pipes
              /\ Woken(d)[i] = ToNode(blocked_nodes[d][i][1], blocked_nodes[d][i][2])
<1> DEFINE n == Len(blocked_nodes[d])
<1>1. blocked_nodes[d] \in Seq(Nodes \X Pipes) /\ n \in Nat /\ DOMAIN blocked_nodes[d] = 1 .. n
  BY LenProperties DEF QueueTypes
<1>2. \A i \in 1 .. n : blocked_nodes[d][i] \in Nodes \X Pipes
  BY <1>1, ElementOfSeq
<1> HIDE DEF n
<1>3. Woken(d) = [i \in 1 .. n |-> ToNode(blocked_nodes[d][i][1], blocked_nodes[d][i][2])]
  BY <1>1 DEF Woken
<1>4. \A i \in 1 .. n : Woken(d)[i] = ToNode(blocked_nodes[d][i][1], blocked_nodes[d][i][2])
  BY <1>3
<1>5. Woken(d) \in [1 .. n -> Messages]
  BY <1>2, <1>3, MessageFacts
<1>6. Woken(d) \in Seq(Messages) /\ Len(Woken(d)) = n
  BY <1>1, <1>5, SeqDef, LenProperties
<1> QED BY <1>2, <1>4, <1>6 DEF n

\* A reference that becomes ready moves into the queue, and the nodes parked there
\* into the outbox of the thread.
LEMMA EnqueueReadyTypes ==
  ASSUME PipeTypes, NEW d \in UserData, NEW r \in held[d], NEW th \in Threads,
         EnqueueReady(d, r, th), UNCHANGED <<done_q, host_q, job_q>>
  PROVE  QueueTypes' /\ MessageTypes'
<1>1. QueueTypes /\ MessageTypes /\ d \in Data
  BY GraphAssumption DEF PipeTypes
<1>2. r \in Bufs(d) /\ r \in Nat
  BY <1>1, PipelineAssumption DEF QueueTypes, Bufs
<1>3. QueueTypes'
  <2>1. /\ Append(acquire_q[d], r) \in Seq(Bufs(d)) /\ Append(acquire_q[d], r) \in Seq(Nat)
    BY <1>1, <1>2 DEF QueueTypes
  <2>2. acquire_q' \in [Data -> Seq(Nat)] /\ \A e \in Data : acquire_q'[e] \in Seq(Bufs(e))
    BY <1>1, <2>1 DEF QueueTypes, EnqueueReady
  <2>3. held' \in [UserData -> SUBSET Nat] /\ \A e \in UserData : held'[e] \subseteq Bufs(e)
    BY <1>1 DEF QueueTypes, EnqueueReady
  <2>4. /\ blocked_nodes' \in [Data -> Seq(Nodes \X Pipes)]
        /\ \A e \in Data : Len(blocked_nodes'[e]) <= MaxBlocked
    <3>1. /\ blocked_nodes \in [Data -> Seq(Nodes \X Pipes)]
          /\ \A e \in Data : Len(blocked_nodes[e]) <= MaxBlocked
          /\ blocked_nodes' = [blocked_nodes EXCEPT ![d] = <<>>]
      BY <1>1 DEF QueueTypes, EnqueueReady
    <3>2. <<>> \in Seq(Nodes \X Pipes) /\ Len(<<>>) <= MaxBlocked
      BY EmptySeq, PipelineAssumption
    <3> QED BY <1>1, <3>1, <3>2
  <2> QED BY <1>1, <2>2, <2>3, <2>4 DEF QueueTypes
<1>4. Woken(d) \in Seq(Messages)
  BY <1>1, WokenType
<1>5. outbox' \in [Threads -> Seq(Messages)]
  <2>1. outbox \in [Threads -> Seq(Messages)] /\ outbox' = [outbox EXCEPT ![th] = @ \o Woken(d)]
    BY <1>1 DEF MessageTypes, EnqueueReady
  <2>2. outbox[th] \o Woken(d) \in Seq(Messages)
    BY <1>4, <2>1, ConcatProperties
  <2> QED BY <2>1, <2>2
<1> QED BY <1>1, <1>3, <1>5 DEF MessageTypes

LEMMA FeedBeginTypes ==
  ASSUME PipeTypes, NEW a \in Apps, FeedBegin(a)
  PROVE  PipeTypes'
<1>1. PICK num_refs \in 1 .. MaxBatch : app' = [app EXCEPT ![a] = InCall("enqueue", 0, num_refs)]
  BY DEF FeedBegin, VxEnqueueReadyRef
<1>2. SchedulerTypes'
  <2>1. num_refs \in Nat /\ app \in [Apps -> AppStates]
    BY BoundAssumption DEF PipeTypes, SchedulerTypes
  <2>2. InCall("enqueue", 0, num_refs) \in AppStates
    BY <2>1 DEF InCall, AppStates
  <2> QED BY <1>1, <2>1, <2>2
          DEF PipeTypes, SchedulerTypes, FeedBegin, VxEnqueueReadyRef, sched_vars
<1> QED BY <1>2, UnchangedTypes
        DEF PipeTypes, FeedBegin, VxEnqueueReadyRef, sched_vars, pipe_vars

LEMMA FeedTypes ==
  ASSUME PipeTypes, NEW a \in Apps, Feed(a)
  PROVE  PipeTypes'
<1>1. PICK r \in held[Param0] : EnqueueReady(Param0, r, a)
  BY DEF Feed
<1>2. QueueTypes' /\ MessageTypes'
  BY <1>1, EnqueueReadyTypes, GraphAssumption DEF Feed, EnqueueRef, Threads
<1>3. SchedulerTypes'
  <2>1. app \in [Apps -> AppStates] /\ app[a].left \in Nat /\ app[a].n \in Nat
    BY DEF PipeTypes, SchedulerTypes, AppStates
  <2>2. app'[a] \in AppStates /\ app' \in [Apps -> AppStates]
    <3>1. app' = [app EXCEPT ![a] = IF app[a].left > 1
                    THEN InCall("enqueue", app[a].n + 1, app[a].left - 1)
                    ELSE IF Mode = "AUTO" THEN InCall("schedule", app[a].n + 1, 0)
                    ELSE IdleApp("SUCCESS")]
      BY DEF Feed, EnqueueRef
    <3>2. /\ app[a].left > 1 => InCall("enqueue", app[a].n + 1, app[a].left - 1) \in AppStates
          /\ InCall("schedule", app[a].n + 1, 0) \in AppStates
          /\ IdleApp("SUCCESS") \in AppStates
      BY <2>1 DEF InCall, IdleApp, AppStates
    <3> QED BY <2>1, <3>1, <3>2
  <2> QED BY <2>2 DEF PipeTypes, SchedulerTypes, Feed, EnqueueRef, sched_vars
<1>4. CounterTypes'
  BY DEF PipeTypes, CounterTypes, Feed
<1> QED BY <1>2, <1>3, <1>4, UnchangedTypes DEF PipeTypes, Feed

\* The targets' queues when executions are started.
LEMMA HeadNodesSentTypes ==
  ASSUME SchedulerTypes, MessageTypes, NEW num \in Nat,
         NumStarted(num) \in 0 .. Len(free_q), HeadNodesSent(num),
         UNCHANGED <<host_q, outbox>>
  PROVE  /\ MessageTypes'
         /\ \A t \in Targets : job_q'[t] = Put(job_q[t], HeadJobs(t, num))
<1>1. job_q' = [t \in Targets |-> Put(job_q[t], HeadJobs(t, num))]
  BY DEF HeadNodesSent, HeadJobs
<1>2. ASSUME NEW t \in Targets
      PROVE  /\ Put(job_q[t], HeadJobs(t, num)) \in Seq(Nodes \X Pipes)
             /\ Len(Put(job_q[t], HeadJobs(t, num))) <= MaxJobs
  <2>1. job_q[t] \in Seq(Nodes \X Pipes) /\ Len(job_q[t]) <= MaxJobs
    BY DEF MessageTypes
  <2>2. HeadJobs(t, num) \in Seq(Nodes \X Pipes) /\ Len(HeadJobs(t, num)) \in Nat
    BY HeadJobsFacts, LenProperties
  <2>3. /\ Put(job_q[t], HeadJobs(t, num)) \in Seq(Nodes \X Pipes)
        /\ Len(Put(job_q[t], HeadJobs(t, num)))
             = IF Len(job_q[t]) + Len(HeadJobs(t, num)) <= MaxJobs
               THEN Len(job_q[t]) + Len(HeadJobs(t, num)) ELSE MaxJobs
    BY <2>1, <2>2, PutProperties, Zenon
  <2> QED BY <2>3, PipelineAssumption
<1> QED BY <1>1, <1>2 DEF MessageTypes

LEMMA FeedScheduleTypes ==
  ASSUME PipeTypes, NEW a \in Apps, FeedSchedule(a)
  PROVE  PipeTypes'
<1>1. /\ SchedulerTypes /\ MessageTypes /\ app[a].n \in Nat
      /\ OwnGraphScheduleGraph(app[a].n) /\ HeadNodesSent(app[a].n)
  BY DEF PipeTypes, SchedulerTypes, AppStates, FeedSchedule, AppSchedule
<1>2. /\ NumStarted(app[a].n) \in 0 .. Len(free_q)
      /\ free_q' \in Seq(Pipes) /\ executed' \in [Pipes -> SUBSET Nodes]
      /\ schedule_pending_count' \in Nat
  BY <1>1, StartedTypes
<1>3. MessageTypes'
  BY <1>1, <1>2, HeadNodesSentTypes DEF FeedSchedule, AppSchedule
<1>4. app' \in [Apps -> AppStates]
  <2>1. IdleApp("NO_RESOURCES") \in AppStates /\ IdleApp("SUCCESS") \in AppStates
    BY AppStateTypes
  <2> QED BY <1>1, <2>1 DEF SchedulerTypes, FeedSchedule, AppSchedule
<1>5. SchedulerTypes'
  BY <1>1, <1>2, <1>4 DEF SchedulerTypes, FeedSchedule, AppSchedule
<1> QED BY <1>3, <1>5, UnchangedTypes DEF PipeTypes, FeedSchedule

LEMMA UserTypes ==
  ASSUME PipeTypes, NEW d \in UserData, UserNext(d)
  PROVE  PipeTypes'
<1>1. ASSUME Replenish(d) PROVE PipeTypes'
  <2>1. PICK r \in held[d] : EnqueueReady(d, r, d)
    BY <1>1 DEF Replenish
  <2>2. QueueTypes' /\ MessageTypes'
    BY <1>1, <2>1, EnqueueReadyTypes DEF Replenish, Threads, vars
  <2> QED BY <1>1, <2>2, UnchangedTypes DEF PipeTypes, Replenish, vars, sched_vars
<1>2. ASSUME DequeueDoneRef(d) PROVE PipeTypes'
  <2>1. QueueTypes /\ CounterTypes /\ MessageTypes
    BY DEF PipeTypes
  <2>2. MessageTypes'
    BY <1>2, <2>1 DEF MessageTypes, DequeueDoneRef, vars
  <2>3. QueueTypes' /\ CounterTypes'
    <3>1. CASE done_q[d] # <<>>
      <4>1. /\ done_q[d] \in Seq(Bufs(d)) /\ done_q[d] \in Seq(Nat)
            /\ Head(done_q[d]) \in Bufs(d) /\ Head(done_q[d]) \in Nat
            /\ Tail(done_q[d]) \in Seq(Bufs(d)) /\ Tail(done_q[d]) \in Seq(Nat)
        BY <2>1, <3>1, HeadTailProperties DEF QueueTypes
      <4>2. /\ done_q' = [done_q EXCEPT ![d] = Tail(done_q[d])]
            /\ held' = [held EXCEPT ![d] = held[d] \cup {Head(done_q[d])}]
            /\ num_delivered' = [num_delivered EXCEPT ![d] = num_delivered[d] + 1]
            /\ dequeuer' = [dequeuer EXCEPT ![d] = "idle"]
            /\ UNCHANGED <<acquire_q, blocked_nodes, done_event, num_fed>>
        BY <1>2, <3>1 DEF DequeueDoneRef
      <4>3. CounterTypes'
        BY <2>1, <4>2 DEF CounterTypes
      <4>4. /\ done_q' \in [UserData -> Seq(Nat)]
            /\ \A e \in UserData : done_q'[e] \in Seq(Bufs(e))
        BY <2>1, <4>1, <4>2 DEF QueueTypes
      <4>5. held' \in [UserData -> SUBSET Nat] /\ \A e \in UserData : held'[e] \subseteq Bufs(e)
        BY <2>1, <4>1, <4>2 DEF QueueTypes
      <4> QED BY <2>1, <4>2, <4>3, <4>4, <4>5 DEF QueueTypes
    <3>2. CASE done_q[d] = <<>>
      BY <1>2, <2>1, <3>2 DEF QueueTypes, CounterTypes, DequeueDoneRef
    <3> QED BY <3>1, <3>2
  <2> QED BY <1>2, <2>2, <2>3, UnchangedTypes DEF PipeTypes, DequeueDoneRef, vars, sched_vars
<1>3. ASSUME DequeuerWoken(d) PROVE PipeTypes'
  <2>1. CounterTypes'
    BY <1>3 DEF PipeTypes, CounterTypes, DequeuerWoken
  <2> QED BY <1>3, <2>1, UnchangedTypes DEF PipeTypes, DequeuerWoken, vars, sched_vars
<1> QED BY <1>1, <1>2, <1>3 DEF UserNext

\* Remainders in the ring of the instances.
LEMMA RingRemainder ==
  ASSUME NEW n \in Nat, n > 0, NEW q \in 0 .. n - 1
  PROVE  /\ (q + 1) % n = IF q = n - 1 THEN 0 ELSE q + 1
         /\ (q + n - 1) % n = IF q = 0 THEN n - 1 ELSE q - 1
<1>1. ASSUME NEW i \in Nat, NEW k \in {0, 1}, NEW r \in 0 .. n - 1, i = k * n + r
      PROVE  i % n = r
  <2> DEFINE x == i \div n
             y == i % n
  <2>1. x \in Int /\ y \in 0 .. n - 1 /\ i = n * x + y
    BY SMT
  <2> HIDE DEF x, y
  <2>2. x = k
    <3>1. CASE k = 0
      <4>1. i = r
        BY <1>1, <3>1
      <4>2. x < 1
        <5>1. ASSUME x >= 1 PROVE n * x >= n
          BY <2>1, <5>1
        <5> QED BY <2>1, <4>1, <5>1
      <4>3. x > -1
        <5>1. ASSUME x <= -1 PROVE n * x <= -n
          BY <2>1, <5>1
        <5> QED BY <2>1, <4>1, <5>1
      <4> QED BY <2>1, <4>2, <4>3, <3>1
    <3>2. CASE k = 1
      <4>1. i = n + r
        BY <1>1, <3>2
      <4>2. x < 2
        <5>1. ASSUME x >= 2 PROVE n * x >= n + n
          BY <2>1, <5>1
        <5> QED BY <2>1, <4>1, <5>1
      <4>3. x > 0
        <5>1. ASSUME x <= 0 PROVE n * x <= 0
          BY <2>1, <5>1
        <5> QED BY <2>1, <4>1, <5>1
      <4> QED BY <2>1, <4>2, <4>3, <3>2
    <3> QED BY <3>1, <3>2
  <2> QED BY <1>1, <2>1, <2>2 DEF y
<1>2. (q + 1) % n = IF q = n - 1 THEN 0 ELSE q + 1
  <2>1. CASE q = n - 1
    BY <1>1, <2>1
  <2>2. CASE q # n - 1
    BY <1>1, <2>2
  <2> QED BY <2>1, <2>2
<1>3. (q + n - 1) % n = IF q = 0 THEN n - 1 ELSE q - 1
  <2>1. CASE q = 0
    BY <1>1, <2>1
  <2>2. CASE q # 0
    BY <1>1, <2>2
  <2> QED BY <2>1, <2>2
<1> QED BY <1>2, <1>3

\* The instances form a ring.
LEMMA PrevPipeFacts ==
  ASSUME NEW p \in Pipes
  PROVE  /\ PrevPipe(p) \in Pipes /\ NextPipe(p) \in Pipes
         /\ NextPipe(PrevPipe(p)) = p /\ PrevPipe(NextPipe(p)) = p
<1>1. Depth \in Nat /\ Depth > 0 /\ p \in 0 .. Depth - 1
  BY DepthAssumption DEF Pipes
<1>2. (p + Depth - 1) % Depth = IF p = 0 THEN Depth - 1 ELSE p - 1
  BY <1>1, RingRemainder
<1>3. (p + 1) % Depth = IF p = Depth - 1 THEN 0 ELSE p + 1
  BY <1>1, RingRemainder
<1>4. PrevPipe(p) = IF p = 0 THEN Depth - 1 ELSE p - 1
  BY <1>2 DEF PrevPipe
<1>5. NextPipe(p) = IF p = Depth - 1 THEN 0 ELSE p + 1
  BY <1>3 DEF NextPipe
<1>6. \A q \in 0 .. Depth - 1 : (q + Depth - 1) % Depth = IF q = 0 THEN Depth - 1 ELSE q - 1
  BY <1>1, RingRemainder
<1>7. \A q \in 0 .. Depth - 1 : (q + 1) % Depth = IF q = Depth - 1 THEN 0 ELSE q + 1
  BY <1>1, RingRemainder
<1> QED BY <1>1, <1>4, <1>5, <1>6, <1>7 DEF Pipes, PrevPipe, NextPipe

\* The record of a task that takes node n of instance p.
TakenNode(n, p) == [IdleTask EXCEPT !.pc = "acquire", !.node = n, !.pipe = p]

LEMMA TaskFacts ==
  /\ IdleTask \in Tasks /\ TaskReferences(IdleTask) /\ IdleTask.pc = "idle"
  /\ ~IdleTask.retrigger /\ IdleTask.refs = <<>> /\ IdleTask.node = ParamNode
  /\ IdleTask.pipe = 0 /\ IdleTask.prm = 1
  /\ \A n \in Nodes, p \in Pipes :
       /\ TakenNode(n, p) \in Tasks /\ TaskReferences(TakenNode(n, p))
       /\ TakenNode(n, p).pc = "acquire" /\ TakenNode(n, p).node = n
       /\ TakenNode(n, p).pipe = p /\ ~TakenNode(n, p).retrigger
       /\ TakenNode(n, p).refs = <<>> /\ TakenNode(n, p).prm = 1
<1>1. 0 \in Pipes /\ ParamNode \in Nodes
  BY NodesAssumption, DepthAssumption DEF Pipes
<1>2. /\ IdleTask \in Tasks /\ TaskReferences(IdleTask) /\ IdleTask.pc = "idle"
      /\ ~IdleTask.retrigger /\ IdleTask.refs = <<>> /\ IdleTask.node = ParamNode
      /\ IdleTask.pipe = 0 /\ IdleTask.prm = 1
  BY <1>1 DEF IdleTask, Tasks, TaskReferences
<1>3. ASSUME NEW n \in Nodes, NEW p \in Pipes
      PROVE  /\ TakenNode(n, p) \in Tasks /\ TaskReferences(TakenNode(n, p))
             /\ TakenNode(n, p).pc = "acquire" /\ TakenNode(n, p).node = n
             /\ TakenNode(n, p).pipe = p /\ ~TakenNode(n, p).retrigger
             /\ TakenNode(n, p).refs = <<>> /\ TakenNode(n, p).prm = 1
  <2>1. Len(Params[n]) \in Nat \ {0} /\ <<>> \in Seq(Nat) /\ Len(<<>>) = 0
    BY PipelineAssumption, EmptySeq
  <2>3. TakenNode(n, p) \in Tasks
    BY <1>2 DEF TakenNode, Tasks
  <2>4. /\ TakenNode(n, p).pc = "acquire" /\ TakenNode(n, p).node = n
        /\ TakenNode(n, p).pipe = p /\ ~TakenNode(n, p).retrigger
        /\ TakenNode(n, p).refs = <<>> /\ TakenNode(n, p).prm = 1
    BY DEF TakenNode, IdleTask
  <2>5. TaskReferences(TakenNode(n, p))
    BY <2>1, <2>4 DEF TaskReferences
  <2> QED BY <2>3, <2>4, <2>5
<1> QED BY <1>2, <1>3

\* What a target's task is doing, with the types of its record.
LEMMA TaskTypes ==
  ASSUME PipeTypes, NEW t \in Targets
  PROVE  /\ task \in [Targets -> Tasks] /\ task[t] \in Tasks /\ TaskReferences(task[t])
         /\ task[t].node \in Nodes /\ task[t].pipe \in Pipes /\ task[t].prm \in Nat \ {0}
         /\ task[t].refs \in Seq(Nat) /\ task[t].retrigger \in BOOLEAN
         /\ Params[task[t].node] \in Seq(Data) /\ Len(Params[task[t].node]) \in Nat
         /\ task[t].pc \in {"acquire", "release"} =>
              CurrentData(t) \in Data /\ CurrentData(t) = Params[task[t].node][task[t].prm]
<1>1. /\ task \in [Targets -> Tasks] /\ task[t] \in Tasks /\ TaskReferences(task[t])
      /\ task[t].node \in Nodes /\ task[t].pipe \in Pipes /\ task[t].prm \in Nat \ {0}
      /\ task[t].refs \in Seq(Nat) /\ task[t].retrigger \in BOOLEAN
  BY DEF PipeTypes, NodeTypes, Tasks
<1>2. Params[task[t].node] \in Seq(Data) /\ Len(Params[task[t].node]) \in Nat
  BY <1>1, PipelineAssumption, LenProperties
<1>3. ASSUME task[t].pc \in {"acquire", "release"} PROVE CurrentData(t) \in Data
  <2>1. task[t].prm \in 1 .. Len(Params[task[t].node])
    BY <1>1, <1>2, <1>3 DEF TaskReferences
  <2> QED BY <1>2, <2>1, ElementOfSeq DEF CurrentData
<1> QED BY <1>1, <1>2, <1>3 DEF CurrentData

LEMMA FetchNodeTypes ==
  ASSUME PipeTypes, NEW t \in Targets, FetchNode(t)
  PROVE  PipeTypes'
<1>1. /\ job_q \in [Targets -> Seq(Nodes \X Pipes)] /\ job_q[t] \in Seq(Nodes \X Pipes)
      /\ \A u \in Targets : Len(job_q[u]) <= MaxJobs
      /\ job_q[t] # <<>>
  BY DEF PipeTypes, MessageTypes, FetchNode
<1>2. /\ Head(job_q[t]) \in Nodes \X Pipes /\ Tail(job_q[t]) \in Seq(Nodes \X Pipes)
      /\ Len(Tail(job_q[t])) <= MaxJobs
  <2>1. Len(job_q[t]) \in Nat /\ Len(Tail(job_q[t])) = Len(job_q[t]) - 1
    BY <1>1, HeadTailProperties, LenProperties
  <2>2. Head(job_q[t]) \in Nodes \X Pipes /\ Tail(job_q[t]) \in Seq(Nodes \X Pipes)
    BY <1>1, HeadTailProperties
  <2> QED BY <1>1, <2>1, <2>2, PipelineAssumption
<1>3. job_q' = [job_q EXCEPT ![t] = Tail(job_q[t])]
  BY DEF FetchNode
<1>4. MessageTypes'
  BY <1>1, <1>2, <1>3 DEF PipeTypes, MessageTypes, FetchNode, vars
<1>5. PICK n \in Nodes, p \in Pipes : Head(job_q[t]) = <<n, p>>
  BY <1>2
<1>6. NodeTypes' /\ \A u \in Targets : TaskReferences(task'[u])
  <2>1. NodeTypes /\ task \in [Targets -> Tasks] /\ \A u \in Targets : TaskReferences(task[u])
    BY DEF PipeTypes, NodeTypes
  <2>2. \/ UNCHANGED <<node_state, next_blocked, task>>
        \/ /\ node_state' = [node_state EXCEPT ![n][p] = "BLOCKED"]
           /\ next_blocked' = next_blocked \cup {<<n, PrevPipe(p)>>}
           /\ UNCHANGED task
        \/ /\ node_state' = [node_state EXCEPT ![n][p] = "IDLE"]
           /\ task' = [task EXCEPT ![t] = TakenNode(n, p)]
           /\ UNCHANGED next_blocked
    <3>1. Head(job_q[t])[1] = n /\ Head(job_q[t])[2] = p
      BY <1>5
    <3>2. IF n \in executed[p]
          THEN UNCHANGED <<node_state, next_blocked, task>>
          ELSE IF PrevPipeBlocked(n, p)
          THEN /\ node_state' = [node_state EXCEPT ![n][p] = "BLOCKED"]
               /\ next_blocked' = next_blocked \cup {<<n, PrevPipe(p)>>}
               /\ UNCHANGED task
          ELSE /\ node_state' = [node_state EXCEPT ![n][p] = "IDLE"]
               /\ task' = [task EXCEPT ![t] = TakenNode(n, p)]
               /\ UNCHANGED next_blocked
      BY <3>1, Zenon DEF FetchNode, TakenNode
    <3> QED BY <3>2
  <2>3. PrevPipe(p) \in Pipes
    BY PrevPipeFacts
  <2>4. TakenNode(n, p) \in Tasks /\ TaskReferences(TakenNode(n, p))
    BY TaskFacts
  <2>5. UNCHANGED data_ref
    BY DEF FetchNode
  <2>6. node_state' \in [Nodes -> [Pipes -> {"IDLE", "BLOCKED"}]]
    <3>1. node_state \in [Nodes -> [Pipes -> {"IDLE", "BLOCKED"}]]
      BY <2>1 DEF NodeTypes
    <3>2. \A state \in {"IDLE", "BLOCKED"} :
            [node_state EXCEPT ![n][p] = state] \in [Nodes -> [Pipes -> {"IDLE", "BLOCKED"}]]
      BY <3>1
    <3> QED BY <2>2, <3>1, <3>2
  <2>7. next_blocked' \subseteq Nodes \X Pipes
    BY <2>1, <2>2, <2>3 DEF NodeTypes
  <2>8. task' \in [Targets -> Tasks] /\ \A u \in Targets : TaskReferences(task'[u])
    BY <2>1, <2>2, <2>4
  <2> QED BY <2>1, <2>5, <2>6, <2>7, <2>8 DEF NodeTypes
<1> QED BY <1>4, <1>6, UnchangedTypes DEF PipeTypes, FetchNode, vars, sched_vars

\* The next parameter of a node has been acquired.
LEMMA ParamAcquiredTypes ==
  ASSUME PipeTypes, NEW t \in Targets, task[t].pc = "acquire",
         NEW r \in References(CurrentData(t)), ParamAcquired(t, r)
  PROVE  /\ task' \in [Targets -> Tasks] /\ \A u \in Targets : TaskReferences(task'[u])
         /\ task' = [task EXCEPT ![t] = task'[t]]
         /\ task'[t].pc = IF LastParam(t) THEN "execute" ELSE "acquire"
         /\ task'[t].prm = IF LastParam(t) THEN 1 ELSE task[t].prm + 1
         /\ task'[t].node = task[t].node /\ task'[t].pipe = task[t].pipe
         /\ task'[t].retrigger = task[t].retrigger
         /\ task'[t].refs = Append(task[t].refs, r)
         /\ Len(task[t].refs) \in Nat /\ Len(task'[t].refs) = Len(task[t].refs) + 1
         /\ \A i \in 1 .. Len(task[t].refs) : task'[t].refs[i] = task[t].refs[i]
         /\ task'[t].refs[Len(task[t].refs) + 1] = r
<1> DEFINE n == task[t].node
           len == Len(Params[n])
<1>1. /\ task \in [Targets -> Tasks] /\ task[t] \in Tasks /\ TaskReferences(task[t])
      /\ \A u \in Targets : TaskReferences(task[u])
      /\ n \in Nodes /\ task[t].prm \in Nat \ {0} /\ task[t].refs \in Seq(Nat)
      /\ Params[n] \in Seq(Data) /\ len \in Nat
      /\ CurrentData(t) \in Data /\ CurrentData(t) = Params[n][task[t].prm]
      /\ task[t].pipe \in Pipes /\ task[t].retrigger \in BOOLEAN
  BY TaskTypes DEF PipeTypes
<1>2. r \in Nat
  BY <1>1, PipelineAssumption DEF References, Bufs, Invalid
<1>3. /\ Append(task[t].refs, r) \in Seq(Nat)
      /\ Len(Append(task[t].refs, r)) = Len(task[t].refs) + 1 /\ Len(task[t].refs) \in Nat
      /\ \A i \in 1 .. Len(task[t].refs) : Append(task[t].refs, r)[i] = task[t].refs[i]
      /\ Append(task[t].refs, r)[Len(task[t].refs) + 1] = r
  BY <1>1, <1>2, AppendProperties, LenProperties
<1> DEFINE tk == [task[t] EXCEPT !.refs = Append(task[t].refs, r),
                    !.pc = IF LastParam(t) THEN "execute" ELSE "acquire",
                    !.prm = IF LastParam(t) THEN 1 ELSE task[t].prm + 1]
<1>4. task' = [task EXCEPT ![t] = tk]
  BY DEF ParamAcquired
<1>5. /\ tk.refs = Append(task[t].refs, r) /\ tk.node = n /\ tk.pipe = task[t].pipe
      /\ tk.retrigger = task[t].retrigger
      /\ tk.pc = IF LastParam(t) THEN "execute" ELSE "acquire"
      /\ tk.prm = IF LastParam(t) THEN 1 ELSE task[t].prm + 1
  BY <1>1 DEF Tasks
<1>6. tk \in Tasks
  <2>1. task[t].prm + 1 \in Nat \ {0}
    BY <1>1
  <2>2. \A pc \in {"execute", "acquire"}, prm \in Nat \ {0}, refs \in Seq(Nat) :
          [task[t] EXCEPT !.refs = refs, !.pc = pc, !.prm = prm] \in Tasks
    BY <1>1 DEF Tasks
  <2>3. /\ (IF LastParam(t) THEN "execute" ELSE "acquire") \in {"execute", "acquire"}
        /\ (IF LastParam(t) THEN 1 ELSE task[t].prm + 1) \in Nat \ {0}
    BY <2>1
  <2> QED BY <1>3, <2>2, <2>3, Zenon
<1> HIDE DEF tk, n, len
<1>7. TaskReferences(tk)
  <2>1. /\ Len(task[t].refs) = task[t].prm - 1 /\ task[t].prm <= len
        /\ \A i \in 1 .. Len(task[t].refs) : task[t].refs[i] \in References(Params[n][i])
    BY <1>1 DEF TaskReferences, n, len
  <2>2. LastParam(t) <=> task[t].prm = len
    BY DEF LastParam, n, len
  <2>3. Len(tk.refs) = task[t].prm
    BY <1>1, <1>3, <1>5, <2>1
  <2>4. \A i \in 1 .. Len(tk.refs) : i \in 1 .. len /\ tk.refs[i] \in References(Params[n][i])
    <3> TAKE i \in 1 .. Len(tk.refs)
    <3>1. CASE i = task[t].prm
      BY <1>1, <1>3, <1>5, <2>1, <2>3, <3>1
    <3>2. CASE i < task[t].prm
      BY <1>1, <1>3, <1>5, <2>1, <2>3, <3>2
    <3> QED BY <1>1, <2>3, <3>1, <3>2
  <2>5. /\ tk.pc = "acquire" => Len(tk.refs) = tk.prm - 1
        /\ tk.pc \in {"acquire", "release"} => tk.prm <= len
        /\ tk.pc \in {"execute", "release"} => Len(tk.refs) = len
        /\ tk.pc = "execute" => tk.prm = 1
    BY <1>1, <1>5, <2>1, <2>2, <2>3 DEF len
  <2>6. Len(Params[tk.node]) = len /\ Params[tk.node] = Params[n]
    BY <1>5 DEF n, len
  <2> QED BY <2>4, <2>5, <2>6 DEF TaskReferences
<1>8. task'[t] = tk
  BY <1>1, <1>4
<1>9. task' \in [Targets -> Tasks] /\ \A u \in Targets : TaskReferences(task'[u])
  BY <1>1, <1>4, <1>6, <1>7
<1> QED BY <1>3, <1>4, <1>5, <1>8, <1>9 DEF n

LEMMA AcquireParameterTypes ==
  ASSUME PipeTypes, NEW t \in Targets, AcquireParameter(t)
  PROVE  PipeTypes'
<1> DEFINE d == CurrentData(t)
           n == task[t].node
           p == task[t].pipe
<1>1. /\ d \in Data /\ n \in Nodes /\ p \in Pipes /\ task[t].pc = "acquire"
      /\ QueueTypes /\ NodeTypes /\ task \in [Targets -> Tasks]
      /\ \A u \in Targets : TaskReferences(task[u])
  BY TaskTypes DEF PipeTypes, AcquireParameter
<1>2. /\ UNCHANGED <<sched_vars, host_q, host, app, done_q, next_blocked, job_q, outbox,
                     done_event, dequeuer, held, num_fed, num_delivered>>
      /\ IF data_ref[d][p].acquired
         THEN /\ ParamAcquired(t, data_ref[d][p].ref)
              /\ UNCHANGED <<acquire_q, blocked_nodes, data_ref, node_state, ready>>
         ELSE IF acquire_q[d] # <<>>
         THEN /\ acquire_q' = [acquire_q EXCEPT ![d] = Tail(acquire_q[d])]
              /\ data_ref' = [data_ref EXCEPT ![d][p] = Acquired(Head(acquire_q[d]))]
              /\ ParamAcquired(t, Head(acquire_q[d]))
              /\ UNCHANGED <<blocked_nodes, node_state>>
         ELSE /\ IF Len(blocked_nodes[d]) < MaxBlocked
                 THEN /\ blocked_nodes' = [blocked_nodes EXCEPT
                                             ![d] = Append(blocked_nodes[d], <<n, p>>)]
                      /\ node_state' = [node_state EXCEPT ![n][p] = "BLOCKED"]
                      /\ task' = [task EXCEPT ![t] = IdleTask]
                 ELSE /\ ParamAcquired(t, Invalid)
                      /\ UNCHANGED <<blocked_nodes, node_state>>
              /\ UNCHANGED <<acquire_q, data_ref>>
  BY DEF AcquireParameter
<1> HIDE DEF d, n, p
<1>3. SchedulerTypes' /\ MessageTypes' /\ CounterTypes'
  BY <1>2, UnchangedTypes DEF PipeTypes, sched_vars
<1>4. QueueTypes' /\ NodeTypes' /\ \A u \in Targets : TaskReferences(task'[u])
  <2>1. CASE data_ref[d][p].acquired
    <3>1. data_ref[d][p].ref \in References(d)
      BY <1>1 DEF NodeTypes
    <3>2. task' \in [Targets -> Tasks] /\ \A u \in Targets : TaskReferences(task'[u])
      BY <1>1, <1>2, <2>1, <3>1, ParamAcquiredTypes DEF d
    <3>3. QueueTypes'
      BY <1>1, <1>2, <2>1, UnchangedTypes
    <3> QED BY <1>1, <1>2, <2>1, <3>2, <3>3 DEF NodeTypes
  <2>2. CASE ~data_ref[d][p].acquired /\ acquire_q[d] # <<>>
    <3> DEFINE r == Head(acquire_q[d])
    <3>1. /\ r \in Bufs(d) /\ r \in Nat /\ Tail(acquire_q[d]) \in Seq(Bufs(d))
          /\ Tail(acquire_q[d]) \in Seq(Nat)
      BY <1>1, <2>2, HeadTailProperties DEF QueueTypes
    <3>2. /\ acquire_q' = [acquire_q EXCEPT ![d] = Tail(acquire_q[d])]
          /\ data_ref' = [data_ref EXCEPT ![d][p] = Acquired(r)]
          /\ ParamAcquired(t, r) /\ UNCHANGED <<blocked_nodes, node_state>>
      BY <1>2, <2>2
    <3> HIDE DEF r
    <3>3. task' \in [Targets -> Tasks] /\ \A u \in Targets : TaskReferences(task'[u])
      BY <1>1, <3>1, <3>2, ParamAcquiredTypes DEF d, References
    <3>4. QueueTypes'
      BY <1>1, <1>2, <3>1, <3>2 DEF QueueTypes
    <3>5. Acquired(r) \in [acquired : BOOLEAN, ref : Nat, in_node_done_cnt : Nat]
          /\ Acquired(r).ref \in References(d)
      BY <3>1 DEF Acquired, References
    <3>6. NodeTypes'
      <4>1. data_ref \in [Data -> [Pipes -> [acquired : BOOLEAN, ref : Nat,
                                             in_node_done_cnt : Nat]]]
            /\ \A e \in Data, q \in Pipes : data_ref[e][q].ref \in References(e)
        BY <1>1 DEF NodeTypes
      <4>2. data_ref' \in [Data -> [Pipes -> [acquired : BOOLEAN, ref : Nat,
                                              in_node_done_cnt : Nat]]]
        BY <1>1, <3>2, <3>5, <4>1
      <4>3. \A e \in Data, q \in Pipes :
              data_ref'[e][q] = IF e = d /\ q = p THEN Acquired(r) ELSE data_ref[e][q]
        BY <1>1, <3>2, <4>1
      <4>4. \A e \in Data, q \in Pipes : data_ref'[e][q].ref \in References(e)
        BY <3>5, <4>1, <4>3
      <4> QED BY <1>1, <1>2, <3>2, <3>3, <4>2, <4>4 DEF NodeTypes
    <3> QED BY <3>3, <3>4, <3>6
  <2>3. CASE ~data_ref[d][p].acquired /\ acquire_q[d] = <<>> /\ Len(blocked_nodes[d]) < MaxBlocked
    <3>1. /\ blocked_nodes' = [blocked_nodes EXCEPT ![d] = Append(blocked_nodes[d], <<n, p>>)]
          /\ node_state' = [node_state EXCEPT ![n][p] = "BLOCKED"]
          /\ task' = [task EXCEPT ![t] = IdleTask]
          /\ UNCHANGED <<acquire_q, data_ref>>
      BY <1>2, <2>3
    <3>2. /\ blocked_nodes[d] \in Seq(Nodes \X Pipes) /\ Len(blocked_nodes[d]) \in Nat
          /\ Append(blocked_nodes[d], <<n, p>>) \in Seq(Nodes \X Pipes)
          /\ Len(Append(blocked_nodes[d], <<n, p>>)) = Len(blocked_nodes[d]) + 1
      BY <1>1, LenProperties, AppendProperties DEF QueueTypes
    <3>3. QueueTypes'
      <4>1. Len(Append(blocked_nodes[d], <<n, p>>)) <= MaxBlocked
        BY <2>3, <3>2, PipelineAssumption
      <4> QED BY <1>1, <1>2, <3>1, <3>2, <4>1 DEF QueueTypes
    <3>4. task' \in [Targets -> Tasks] /\ \A u \in Targets : TaskReferences(task'[u])
      BY <1>1, <3>1, TaskFacts
    <3>5. node_state' \in [Nodes -> [Pipes -> {"IDLE", "BLOCKED"}]]
      BY <1>1, <3>1 DEF NodeTypes
    <3> QED BY <1>1, <1>2, <3>1, <3>3, <3>4, <3>5 DEF NodeTypes
  <2>4. CASE ~data_ref[d][p].acquired /\ acquire_q[d] = <<>> /\ ~(Len(blocked_nodes[d]) < MaxBlocked)
    <3>1. ParamAcquired(t, Invalid) /\ UNCHANGED <<acquire_q, data_ref, blocked_nodes, node_state>>
      BY <1>2, <2>4
    <3>2. task' \in [Targets -> Tasks] /\ \A u \in Targets : TaskReferences(task'[u])
      BY <1>1, <3>1, ParamAcquiredTypes DEF d, References
    <3> QED BY <1>1, <1>2, <3>1, <3>2, UnchangedTypes DEF NodeTypes
  <2> QED BY <2>1, <2>2, <2>3, <2>4
<1> QED BY <1>3, <1>4 DEF PipeTypes

\* The task record after a kernel has run.
LEMMA ExecuteNodeTask ==
  ASSUME PipeTypes, NEW t \in Targets, ExecuteNode(t)
  PROVE  /\ task' \in [Targets -> Tasks] /\ task' = [task EXCEPT ![t] = task'[t]]
         /\ task'[t].pc = "release" /\ task'[t].node = task[t].node
         /\ task'[t].pipe = task[t].pipe /\ task'[t].prm = task[t].prm
         /\ task'[t].refs = task[t].refs
         /\ task'[t].retrigger <=> <<task[t].node, task[t].pipe>> \in next_blocked
<1> DEFINE b == <<task[t].node, task[t].pipe>> \in next_blocked
           tk == [task[t] EXCEPT !.pc = "release", !.retrigger = b]
<1>1. task \in [Targets -> Tasks] /\ task[t] \in Tasks
  BY TaskTypes
<1>2. task' = [task EXCEPT ![t].pc = "release", ![t].retrigger = b]
  BY DEF ExecuteNode
<1>3. b \in BOOLEAN
  OBVIOUS
<1> HIDE DEF b
<1>4. task' = [task EXCEPT ![t] = tk]
  BY <1>1, <1>2
<1>5. /\ tk \in Tasks /\ tk.pc = "release" /\ tk.node = task[t].node
      /\ tk.pipe = task[t].pipe /\ tk.prm = task[t].prm /\ tk.refs = task[t].refs
      /\ tk.retrigger = b
  BY <1>1, <1>3 DEF Tasks
<1> HIDE DEF tk
<1>6. task'[t] = tk /\ task' \in [Targets -> Tasks]
  BY <1>1, <1>4, <1>5
<1> QED BY <1>4, <1>5, <1>6 DEF b

LEMMA ExecuteNodeTypes ==
  ASSUME PipeTypes, NEW t \in Targets, ExecuteNode(t)
  PROVE  PipeTypes'
<1> DEFINE n == task[t].node
           p == task[t].pipe
<1>1. /\ n \in Nodes /\ p \in Pipes /\ TaskReferences(task[t]) /\ task[t].pc = "execute"
      /\ task \in [Targets -> Tasks] /\ \A u \in Targets : TaskReferences(task[u])
      /\ Len(Params[n]) \in Nat /\ NodeTypes /\ SchedulerTypes
  BY TaskTypes DEF PipeTypes, ExecuteNode
<1>2. /\ UNCHANGED <<free_q, schedule_pending_count, host_q, host, app, acquire_q, done_q,
                     blocked_nodes, data_ref, job_q, outbox, done_event, dequeuer, held,
                     num_fed, num_delivered>>
      /\ executed' = [executed EXCEPT ![p] = executed[p] \cup {n}]
      /\ node_state' = [node_state EXCEPT ![n][p] = "IDLE"]
      /\ next_blocked' = next_blocked \ {<<n, p>>}
  BY DEF ExecuteNode
<1>3. SchedulerTypes'
  BY <1>1, <1>2 DEF SchedulerTypes
<1>4. Len(Params[n]) >= 1
  BY <1>1, PipelineAssumption, EmptySeq
<1>5. TaskReferences(task'[t])
  <2>1. /\ task'[t].pc = "release" /\ task'[t].node = n /\ task'[t].prm = task[t].prm
        /\ task'[t].refs = task[t].refs
    BY ExecuteNodeTask
  <2> HIDE DEF n
  <2>2. task[t].prm = 1 /\ Len(task[t].refs) = Len(Params[n])
    BY <1>1 DEF TaskReferences, n
  <2>3. \A i \in 1 .. Len(task[t].refs) : /\ i \in 1 .. Len(Params[n])
                                          /\ task[t].refs[i] \in References(Params[n][i])
    BY <1>1 DEF TaskReferences, n
  <2> QED BY <1>4, <2>1, <2>2, <2>3 DEF TaskReferences
<1>6. task' \in [Targets -> Tasks] /\ \A u \in Targets : TaskReferences(task'[u])
  BY <1>1, <1>5, ExecuteNodeTask
<1>7. NodeTypes'
  <2>1. node_state' \in [Nodes -> [Pipes -> {"IDLE", "BLOCKED"}]]
    BY <1>1, <1>2 DEF NodeTypes
  <2>2. next_blocked' \subseteq Nodes \X Pipes
    BY <1>1, <1>2 DEF NodeTypes
  <2> QED BY <1>1, <1>2, <1>6, <2>1, <2>2 DEF NodeTypes
<1> QED BY <1>2, <1>3, <1>6, <1>7, UnchangedTypes DEF PipeTypes

\* What the release of a parameter does, by name.
Count(t) ==
    data_ref[CurrentData(t)][task[t].pipe].in_node_done_cnt
      + IF Writer[CurrentData(t)] # task[t].node THEN 1 ELSE 0
Releases(t) ==
    Count(t) = NumInNodes(CurrentData(t))
      /\ (Writer[CurrentData(t)] # task[t].node \/ NumInNodes(CurrentData(t)) = 0)
Ref(t) == task[t].refs[task[t].prm]
Given(t) == Releases(t) /\ Ref(t) # Invalid
ReleasedTask(t) ==
    IF ~LastParam(t) THEN [task[t] EXCEPT !.prm = task[t].prm + 1]
    ELSE [task[t] EXCEPT !.prm = 1, !.refs = <<>>,
            !.pc = IF HasCompletion(task[t].node) THEN "complete" ELSE "trigger"]

LEMMA ReleaseParameterEffect ==
  ASSUME NEW t \in Targets, ReleaseParameter(t)
  PROVE  LET d == CurrentData(t)
             p == task[t].pipe
         IN
         /\ task[t].pc = "release" /\ outbox[t] = <<>>
         /\ data_ref' = [data_ref EXCEPT ![d][p] =
               [acquired |-> data_ref[d][p].acquired /\ ~Releases(t),
                ref |-> IF Writer[d] # task[t].node \/ Releases(t)
                        THEN data_ref[d][p].ref ELSE Ref(t),
                in_node_done_cnt |-> Count(t)]]
         /\ \/ /\ Given(t) /\ d \in UserData
               /\ done_q' = [done_q EXCEPT ![d] = Append(done_q[d], Ref(t))]
               /\ outbox' = [outbox EXCEPT ![t] = Consumed(d)]
               /\ UNCHANGED <<acquire_q, blocked_nodes>>
            \/ /\ Given(t) /\ d \notin UserData
               /\ acquire_q' = [acquire_q EXCEPT ![d] = Append(acquire_q[d], Ref(t))]
               /\ blocked_nodes' = [blocked_nodes EXCEPT ![d] = <<>>]
               /\ outbox' = [outbox EXCEPT ![t] = Woken(d)]
               /\ UNCHANGED done_q
            \/ ~Given(t) /\ UNCHANGED <<acquire_q, done_q, blocked_nodes, outbox>>
         /\ task' = [task EXCEPT ![t] = ReleasedTask(t)]
         /\ UNCHANGED <<vars, node_state, next_blocked, job_q, done_event, dequeuer, held,
                        frame, num_fed, num_delivered>>
<1> DEFINE d == CurrentData(t)
           p == task[t].pipe
<1>1. /\ task[t].pc = "release" /\ outbox[t] = <<>>
      /\ UNCHANGED <<vars, node_state, next_blocked, job_q, done_event, dequeuer, held,
                     frame, num_fed, num_delivered>>
  BY DEF ReleaseParameter
<1>2. task' = [task EXCEPT ![t] = ReleasedTask(t)]
  BY DEF ReleaseParameter, ReleasedTask
<1>3. data_ref' = [data_ref EXCEPT ![d][p] =
               [acquired |-> data_ref[d][p].acquired /\ ~Releases(t),
                ref |-> IF Writer[d] # task[t].node \/ Releases(t)
                        THEN data_ref[d][p].ref ELSE Ref(t),
                in_node_done_cnt |-> Count(t)]]
  BY DEF ReleaseParameter, Releases, Ref, Count
<1>4. IF Given(t) /\ d \in UserData
      THEN /\ done_q' = [done_q EXCEPT ![d] = Append(done_q[d], Ref(t))]
           /\ outbox' = [outbox EXCEPT ![t] = Consumed(d)]
           /\ UNCHANGED <<acquire_q, blocked_nodes>>
      ELSE IF Given(t)
      THEN /\ acquire_q' = [acquire_q EXCEPT ![d] = Append(acquire_q[d], Ref(t))]
           /\ blocked_nodes' = [blocked_nodes EXCEPT ![d] = <<>>]
           /\ outbox' = [outbox EXCEPT ![t] = Woken(d)]
           /\ UNCHANGED done_q
      ELSE UNCHANGED <<acquire_q, done_q, blocked_nodes, outbox>>
  BY Zenon DEF ReleaseParameter, Given, Releases, Ref, Count
<1> QED BY <1>1, <1>2, <1>3, <1>4, Zenon

\* The next parameter is to be released, or the last one has been.
LEMMA ReleasedTaskTypes ==
  ASSUME PipeTypes, NEW t \in Targets, task[t].pc = "release"
  PROVE  /\ ReleasedTask(t) \in Tasks /\ TaskReferences(ReleasedTask(t))
         /\ ReleasedTask(t).node = task[t].node /\ ReleasedTask(t).pipe = task[t].pipe
         /\ ReleasedTask(t).retrigger = task[t].retrigger
         /\ ~LastParam(t) => /\ ReleasedTask(t).pc = "release"
                             /\ ReleasedTask(t).prm = task[t].prm + 1
                             /\ ReleasedTask(t).refs = task[t].refs
         /\ LastParam(t) => /\ ReleasedTask(t).prm = 1 /\ ReleasedTask(t).refs = <<>>
                            /\ ReleasedTask(t).pc = IF HasCompletion(task[t].node)
                                                    THEN "complete" ELSE "trigger"
<1>1. /\ task[t] \in Tasks /\ TaskReferences(task[t]) /\ task[t].prm \in Nat \ {0}
      /\ Len(Params[task[t].node]) \in Nat
  BY TaskTypes
<1>2. CASE ~LastParam(t)
  <2>1. ReleasedTask(t) = [task[t] EXCEPT !.prm = task[t].prm + 1]
    BY <1>2 DEF ReleasedTask
  <2>2. ReleasedTask(t) \in Tasks
    BY <1>1, <2>1 DEF Tasks
  <2>3. /\ ReleasedTask(t).node = task[t].node /\ ReleasedTask(t).pipe = task[t].pipe
        /\ ReleasedTask(t).retrigger = task[t].retrigger
        /\ ReleasedTask(t).pc = "release" /\ ReleasedTask(t).prm = task[t].prm + 1
        /\ ReleasedTask(t).refs = task[t].refs
    BY <1>1, <2>1 DEF Tasks
  <2>4. task[t].prm < Len(Params[task[t].node])
    BY <1>1, <1>2 DEF LastParam, TaskReferences
  <2>5. TaskReferences(ReleasedTask(t))
    BY <1>1, <2>3, <2>4 DEF TaskReferences
  <2> QED BY <1>2, <2>2, <2>3, <2>5
<1>3. CASE LastParam(t)
  <2> DEFINE next == IF HasCompletion(task[t].node) THEN "complete" ELSE "trigger"
  <2>1. ReleasedTask(t) = [task[t] EXCEPT !.prm = 1, !.refs = <<>>, !.pc = next]
    BY <1>3 DEF ReleasedTask
  <2>2. next \in {"complete", "trigger"} /\ <<>> \in Seq(Nat) /\ Len(<<>>) = 0
    BY EmptySeq
  <2> HIDE DEF next
  <2>3. ReleasedTask(t) \in Tasks
    <3>1. \A pc \in {"complete", "trigger"}, prm \in Nat \ {0}, refs \in Seq(Nat) :
            [task[t] EXCEPT !.prm = prm, !.refs = refs, !.pc = pc] \in Tasks
      BY <1>1 DEF Tasks
    <3>2. 1 \in Nat \ {0}
      OBVIOUS
    <3>3. [task[t] EXCEPT !.prm = 1, !.refs = <<>>, !.pc = next] \in Tasks
      BY <2>2, <3>1, <3>2
    <3> QED BY <2>1, <3>3
  <2>4. /\ ReleasedTask(t).node = task[t].node /\ ReleasedTask(t).pipe = task[t].pipe
        /\ ReleasedTask(t).retrigger = task[t].retrigger
        /\ ReleasedTask(t).pc = next /\ ReleasedTask(t).prm = 1
        /\ ReleasedTask(t).refs = <<>>
    BY <1>1, <2>1 DEF Tasks
  <2>5. TaskReferences(ReleasedTask(t))
    BY <2>2, <2>4 DEF TaskReferences
  <2> QED BY <1>3, <2>3, <2>4, <2>5 DEF next
<1> QED BY <1>2, <1>3

LEMMA ReleaseParameterTypes ==
  ASSUME PipeTypes, NEW t \in Targets, ReleaseParameter(t)
  PROVE  PipeTypes'
<1> DEFINE d == CurrentData(t)
           p == task[t].pipe
<1>1. /\ task[t].pc = "release" /\ d \in Data /\ p \in Pipes
      /\ task \in [Targets -> Tasks] /\ task[t] \in Tasks
      /\ \A u \in Targets : TaskReferences(task[u])
      /\ QueueTypes /\ MessageTypes /\ NodeTypes
      /\ task[t].prm \in Nat \ {0} /\ task[t].refs \in Seq(Nat)
      /\ d = Params[task[t].node][task[t].prm]
  BY TaskTypes, ReleaseParameterEffect DEF PipeTypes
<1>2. Ref(t) \in References(d) /\ Ref(t) \in Nat
  <2>1. task[t].prm \in 1 .. Len(task[t].refs)
    BY <1>1 DEF TaskReferences
  <2>2. Ref(t) \in References(d)
    BY <1>1, <2>1 DEF TaskReferences, Ref
  <2> QED BY <2>2, PipelineAssumption DEF References, Bufs, Invalid
<1>3. /\ data_ref' = [data_ref EXCEPT ![d][p] =
            [acquired |-> data_ref[d][p].acquired /\ ~Releases(t),
             ref |-> IF Writer[d] # task[t].node \/ Releases(t)
                     THEN data_ref[d][p].ref ELSE Ref(t),
             in_node_done_cnt |-> Count(t)]]
      /\ \/ /\ Given(t) /\ d \in UserData
            /\ done_q' = [done_q EXCEPT ![d] = Append(done_q[d], Ref(t))]
            /\ outbox' = [outbox EXCEPT ![t] = Consumed(d)]
            /\ UNCHANGED <<acquire_q, blocked_nodes>>
         \/ /\ Given(t) /\ d \notin UserData
            /\ acquire_q' = [acquire_q EXCEPT ![d] = Append(acquire_q[d], Ref(t))]
            /\ blocked_nodes' = [blocked_nodes EXCEPT ![d] = <<>>]
            /\ outbox' = [outbox EXCEPT ![t] = Woken(d)]
            /\ UNCHANGED done_q
         \/ ~Given(t) /\ UNCHANGED <<acquire_q, done_q, blocked_nodes, outbox>>
      /\ task' = [task EXCEPT ![t] = ReleasedTask(t)]
      /\ UNCHANGED <<vars, node_state, next_blocked, job_q, done_event, dequeuer, held,
                     num_fed, num_delivered>>
  BY ReleaseParameterEffect
<1>4. Count(t) \in Nat
  BY <1>1 DEF Count, NodeTypes, d, p
<1> HIDE DEF d, p
<1>5. task' \in [Targets -> Tasks] /\ \A u \in Targets : TaskReferences(task'[u])
  BY <1>1, <1>3, ReleasedTaskTypes
<1>6. NodeTypes'
  <2> DEFINE x == [acquired |-> data_ref[d][p].acquired /\ ~Releases(t),
                   ref |-> IF Writer[d] # task[t].node \/ Releases(t)
                           THEN data_ref[d][p].ref ELSE Ref(t),
                   in_node_done_cnt |-> Count(t)]
             R == [acquired : BOOLEAN, ref : Nat, in_node_done_cnt : Nat]
  <2>1. /\ data_ref \in [Data -> [Pipes -> R]]
        /\ \A e \in Data, q \in Pipes : data_ref[e][q].ref \in References(e)
    BY <1>1 DEF NodeTypes
  <2>2. x \in R /\ x.ref \in References(d)
    BY <1>1, <1>2, <1>4, <2>1
  <2>3. data_ref' = [data_ref EXCEPT ![d][p] = x]
    BY <1>3
  <2> HIDE DEF x, R
  <2>4. data_ref' \in [Data -> [Pipes -> R]]
    BY <1>1, <2>1, <2>2, <2>3
  <2>5. \A e \in Data, q \in Pipes : data_ref'[e][q] = IF e = d /\ q = p THEN x ELSE data_ref[e][q]
    BY <1>1, <2>1, <2>3
  <2>6. \A e \in Data, q \in Pipes : data_ref'[e][q].ref \in References(e)
    BY <2>1, <2>2, <2>5
  <2> QED BY <1>1, <1>3, <1>5, <2>4, <2>6 DEF NodeTypes, R
<1>7. QueueTypes' /\ MessageTypes'
  <2>1. CASE Given(t) /\ d \in UserData
    <3>1. Ref(t) \in Bufs(d)
      BY <1>2, <2>1 DEF Given, References
    <3>2. /\ done_q' = [done_q EXCEPT ![d] = Append(done_q[d], Ref(t))]
          /\ outbox' = [outbox EXCEPT ![t] = Consumed(d)]
          /\ UNCHANGED <<acquire_q, blocked_nodes, held, host_q, job_q>>
      BY <1>3, <2>1 DEF vars
    <3>3. QueueTypes'
      <4>1. /\ done_q[d] \in Seq(Nat) /\ done_q[d] \in Seq(Bufs(d)) /\ Ref(t) \in Nat
        BY <1>1, <2>1, <3>1 DEF QueueTypes, Bufs
      <4>2. Append(done_q[d], Ref(t)) \in Seq(Nat) /\ Append(done_q[d], Ref(t)) \in Seq(Bufs(d))
        BY <3>1, <4>1, AppendProperties
      <4>3. /\ done_q' \in [UserData -> Seq(Nat)]
            /\ \A e \in UserData : done_q'[e] \in Seq(Bufs(e))
        BY <1>1, <2>1, <3>2, <4>2 DEF QueueTypes
      <4> QED BY <1>1, <3>2, <4>3 DEF QueueTypes
    <3>4. Consumed(d) \in Seq(Messages)
      BY <2>1, MessageFacts DEF Consumed
    <3> QED BY <1>1, <3>2, <3>3, <3>4 DEF MessageTypes
  <2>2. CASE Given(t) /\ d \notin UserData
    <3>1. Ref(t) \in Bufs(d)
      BY <1>2, <2>2 DEF Given, References
    <3>2. /\ acquire_q' = [acquire_q EXCEPT ![d] = Append(acquire_q[d], Ref(t))]
          /\ blocked_nodes' = [blocked_nodes EXCEPT ![d] = <<>>]
          /\ outbox' = [outbox EXCEPT ![t] = Woken(d)]
          /\ UNCHANGED <<done_q, held, host_q, job_q>>
      BY <1>3, <2>2 DEF vars
    <3>3. <<>> \in Seq(Nodes \X Pipes) /\ Len(<<>>) <= MaxBlocked
      BY EmptySeq, PipelineAssumption
    <3>4. /\ blocked_nodes' \in [Data -> Seq(Nodes \X Pipes)]
          /\ \A e \in Data : Len(blocked_nodes'[e]) <= MaxBlocked
      BY <1>1, <3>2, <3>3 DEF QueueTypes
    <3>5. acquire_q' \in [Data -> Seq(Nat)] /\ \A e \in Data : acquire_q'[e] \in Seq(Bufs(e))
      <4>1. acquire_q[d] \in Seq(Nat) /\ acquire_q[d] \in Seq(Bufs(d)) /\ Ref(t) \in Nat
        BY <1>1, <1>2, <3>1 DEF QueueTypes, Bufs
      <4>2. /\ Append(acquire_q[d], Ref(t)) \in Seq(Nat)
            /\ Append(acquire_q[d], Ref(t)) \in Seq(Bufs(d))
        BY <3>1, <4>1, AppendProperties
      <4> QED BY <1>1, <1>2, <3>2, <4>2 DEF QueueTypes
    <3>6. QueueTypes'
      BY <1>1, <3>2, <3>4, <3>5 DEF QueueTypes
    <3>7. Woken(d) \in Seq(Messages)
      BY <1>1, WokenType
    <3> QED BY <1>1, <3>2, <3>6, <3>7 DEF MessageTypes
  <2>3. CASE ~Given(t)
    BY <1>1, <1>3, <2>3, UnchangedTypes DEF vars
  <2> QED BY <2>1, <2>2, <2>3
<1> QED BY <1>3, <1>5, <1>6, <1>7, UnchangedTypes DEF PipeTypes, vars, sched_vars

\* A task that triggers, and one that has ended.
LEMMA TriggerTask ==
  ASSUME PipeTypes, NEW t \in Targets, task[t].pc \in {"complete", "trigger"},
         NEW tk, tk \in {[task[t] EXCEPT !.pc = "trigger"],
                         [task[t] EXCEPT !.prm = task[t].prm + 1]},
         tk.pc = "trigger"
  PROVE  /\ tk \in Tasks /\ TaskReferences(tk)
         /\ tk.node = task[t].node /\ tk.pipe = task[t].pipe
         /\ tk.retrigger = task[t].retrigger
         /\ Finished(tk) \in Tasks /\ TaskReferences(Finished(tk))
         /\ Finished(tk) = tk \/ (Finished(tk) = IdleTask /\ ~tk.retrigger)
<1>1. /\ task[t] \in Tasks /\ TaskReferences(task[t]) /\ task[t].prm \in Nat \ {0}
  BY TaskTypes
<1>2. /\ tk \in Tasks /\ tk.node = task[t].node /\ tk.pipe = task[t].pipe
      /\ tk.retrigger = task[t].retrigger /\ tk.refs = task[t].refs
  <2>1. CASE tk = [task[t] EXCEPT !.pc = "trigger"]
    BY <1>1, <2>1 DEF Tasks
  <2>2. CASE tk = [task[t] EXCEPT !.prm = task[t].prm + 1]
    BY <1>1, <2>2 DEF Tasks
  <2> QED BY <2>1, <2>2
<1>3. TaskReferences(tk)
  BY <1>1, <1>2 DEF TaskReferences
<1>4. Finished(tk) = tk \/ (Finished(tk) = IdleTask /\ ~tk.retrigger)
  BY DEF Finished
<1> QED BY <1>2, <1>3, <1>4, TaskFacts

LEMMA SendCompleteTypes ==
  ASSUME PipeTypes, NEW t \in Targets, SendComplete(t)
  PROVE  PipeTypes'
<1> DEFINE tk == [task[t] EXCEPT !.pc = "trigger"]
<1>1. /\ task[t].pc = "complete" /\ task' = [task EXCEPT ![t] = Finished(tk)]
      /\ host_q' = Put(host_q, <<<<task[t].node, task[t].pipe>>>>)
  BY DEF SendComplete
<1>2. /\ task \in [Targets -> Tasks] /\ \A u \in Targets : TaskReferences(task[u])
      /\ task[t] \in Tasks /\ task[t].node \in Nodes /\ task[t].pipe \in Pipes
      /\ MessageTypes /\ NodeTypes
  BY TaskTypes DEF PipeTypes
<1>3. tk.pc = "trigger"
  BY <1>2 DEF Tasks
<1>4. Finished(tk) \in Tasks /\ TaskReferences(Finished(tk))
  BY <1>1, <1>3, TriggerTask
<1> HIDE DEF tk
<1>5. task' \in [Targets -> Tasks] /\ \A u \in Targets : TaskReferences(task'[u])
  BY <1>1, <1>2, <1>4
<1>6. MessageTypes'
  <2>1. <<task[t].node, task[t].pipe>> \in Commands
    BY <1>2, MessageFacts
  <2>2. host_q' \in Seq(Commands) /\ Len(host_q') <= MaxJobs
    BY <1>1, <1>2, <2>1, PutOne DEF MessageTypes
  <2> QED BY <1>2, <2>2 DEF MessageTypes, SendComplete
<1>7. NodeTypes'
  BY <1>2, <1>5 DEF NodeTypes, SendComplete
<1> QED BY <1>5, <1>6, <1>7, UnchangedTypes DEF PipeTypes, SendComplete, sched_vars

LEMMA TriggerNextNodeTypes ==
  ASSUME PipeTypes, NEW t \in Targets, TriggerNextNode(t)
  PROVE  PipeTypes'
<1> DEFINE tk == [task[t] EXCEPT !.prm = task[t].prm + 1]
           next == OutNodes[task[t].node][task[t].prm]
           p == task[t].pipe
<1>1. /\ task[t].pc = "trigger" /\ task' = [task EXCEPT ![t] = Finished(tk)]
      /\ task[t].prm <= Len(OutNodes[task[t].node])
      /\ outbox' = IF CanNodeExecute(next, p)
                   THEN [outbox EXCEPT ![t] = <<ToNode(next, p)>>] ELSE outbox
  BY DEF TriggerNextNode
<1>2. /\ task \in [Targets -> Tasks] /\ \A u \in Targets : TaskReferences(task[u])
      /\ task[t] \in Tasks /\ task[t].node \in Nodes /\ p \in Pipes
      /\ task[t].prm \in Nat \ {0} /\ MessageTypes /\ NodeTypes
  BY TaskTypes DEF PipeTypes
<1>3. tk.pc = "trigger"
  BY <1>1, <1>2 DEF Tasks
<1>4. Finished(tk) \in Tasks /\ TaskReferences(Finished(tk))
  BY <1>1, <1>3, TriggerTask
<1>5. next \in Nodes
  <2>1. OutNodes[task[t].node] \in Seq(Nodes) /\ Len(OutNodes[task[t].node]) \in Nat
    BY <1>2, LinksAssumption, LenProperties
  <2>2. task[t].prm \in 1 .. Len(OutNodes[task[t].node])
    BY <1>1, <1>2, <2>1
  <2> QED BY <2>1, <2>2, ElementOfSeq
<1> HIDE DEF tk, next, p
<1>6. task' \in [Targets -> Tasks] /\ \A u \in Targets : TaskReferences(task'[u])
  BY <1>1, <1>2, <1>4
<1>7. MessageTypes'
  <2>1. <<ToNode(next, p)>> \in Seq(Messages)
    <3>1. ToNode(next, p) \in Messages
      BY <1>2, <1>5, MessageFacts
    <3> QED BY <3>1, MessageFacts
  <2>2. outbox' \in [Threads -> Seq(Messages)]
    BY <1>1, <1>2, <2>1 DEF MessageTypes
  <2> QED BY <1>2, <2>2 DEF MessageTypes, TriggerNextNode, vars
<1>8. NodeTypes'
  BY <1>2, <1>6 DEF NodeTypes, TriggerNextNode
<1> QED BY <1>6, <1>7, <1>8, UnchangedTypes DEF PipeTypes, TriggerNextNode, vars, sched_vars

LEMMA TriggerNextPipeTypes ==
  ASSUME PipeTypes, NEW t \in Targets, TriggerNextPipe(t)
  PROVE  PipeTypes'
<1>1. /\ task' = [task EXCEPT ![t] = IdleTask]
      /\ outbox' = [outbox EXCEPT ![t] = <<ToNode(task[t].node, NextPipe(task[t].pipe))>>]
  BY DEF TriggerNextPipe
<1>2. /\ task \in [Targets -> Tasks] /\ \A u \in Targets : TaskReferences(task[u])
      /\ task[t].node \in Nodes /\ task[t].pipe \in Pipes /\ MessageTypes /\ NodeTypes
  BY TaskTypes DEF PipeTypes
<1>3. task' \in [Targets -> Tasks] /\ \A u \in Targets : TaskReferences(task'[u])
  BY <1>1, <1>2, TaskFacts
<1>4. MessageTypes'
  <2>1. <<ToNode(task[t].node, NextPipe(task[t].pipe))>> \in Seq(Messages)
    <3>1. ToNode(task[t].node, NextPipe(task[t].pipe)) \in Messages
      BY <1>2, MessageFacts, PrevPipeFacts
    <3> QED BY <3>1, MessageFacts
  <2>2. outbox' \in [Threads -> Seq(Messages)]
    BY <1>1, <1>2, <2>1 DEF MessageTypes
  <2> QED BY <1>2, <2>2 DEF MessageTypes, TriggerNextPipe, vars
<1>5. NodeTypes'
  BY <1>2, <1>3 DEF NodeTypes, TriggerNextPipe
<1> QED BY <1>3, <1>4, <1>5, UnchangedTypes DEF PipeTypes, TriggerNextPipe, vars, sched_vars

LEMMA RefConsumedTypes ==
  ASSUME PipeTypes, RefConsumed
  PROVE  PipeTypes'
<1>1. /\ host_q \in Seq(Commands) /\ host_q # <<>> /\ Head(host_q)[1] = "ref_consumed"
      /\ Len(host_q) <= MaxJobs
  BY DEF PipeTypes, MessageTypes, RefConsumed
<1>2. /\ Head(host_q) \in Commands /\ Tail(host_q) \in Seq(Commands)
      /\ Len(Tail(host_q)) <= MaxJobs
  <2>1. Len(host_q) \in Nat /\ Len(Tail(host_q)) = Len(host_q) - 1
    BY <1>1, HeadTailProperties, LenProperties
  <2> QED BY <1>1, <2>1, HeadTailProperties, PipelineAssumption
<1>3. Head(host_q) \in Consumptions
  BY <1>1, <1>2, MessageFacts
<1>4. MessageTypes'
  BY <1>2 DEF PipeTypes, MessageTypes, RefConsumed
<1>5. CounterTypes'
  BY <1>3 DEF PipeTypes, CounterTypes, RefConsumed, Consumptions
<1> QED BY <1>4, <1>5, UnchangedTypes DEF PipeTypes, RefConsumed, sched_vars

LEMMA HostCompletionTypes ==
  ASSUME PipeTypes, HostCompletion
  PROVE  PipeTypes'
<1>1. SchedulerTypes /\ MessageTypes /\ host \in HostStates
  BY DEF PipeTypes, SchedulerTypes
<1>2. UNCHANGED pipe_vars
  BY DEF HostCompletion
<1>3. SchedulerTypes' /\ MessageTypes'
  <2>1. CASE host_q # <<>> /\ Head(host_q)[1] # "ref_consumed" /\ HostTake
    <3>1. host_q \in Seq(Commands) /\ Len(host_q) <= MaxJobs
      BY <1>1 DEF MessageTypes
    <3>2. /\ Head(host_q) \in Commands /\ Tail(host_q) \in Seq(Commands)
          /\ Len(Tail(host_q)) <= MaxJobs
      <4>1. Len(host_q) \in Nat /\ Len(Tail(host_q)) = Len(host_q) - 1
        BY <2>1, <3>1, HeadTailProperties, LenProperties
      <4> QED BY <2>1, <3>1, <4>1, HeadTailProperties, PipelineAssumption
    <3>3. Head(host_q) \in Nodes \X Pipes
      BY <2>1, <3>2, MessageFacts
    <3>4. host' \in HostStates
      <4>1. PICK abandon \in {FALSE} \cup {Head(host_q)[1] \in Abandoners} :
              host' = [pc |-> IF Head(host_q)[1] \in Leaves THEN "check" ELSE "action",
                       node |-> Head(host_q)[1], pipe |-> Head(host_q)[2],
                       abandon |-> abandon, schedule_count |-> 0]
        BY <2>1 DEF HostTake
      <4>2. abandon \in BOOLEAN
        BY \A x \in {Head(host_q)[1] \in Abandoners} : x \in BOOLEAN
      <4> QED BY <3>3, <4>1, <4>2 DEF HostStates
    <3>5. UNCHANGED <<free_q, executed, schedule_pending_count, app>> /\ host_q' = Tail(host_q)
      BY <2>1 DEF HostTake
    <3> QED BY <1>1, <1>2, <3>2, <3>4, <3>5 DEF SchedulerTypes, MessageTypes, pipe_vars
  <2>2. CASE LeafCompleted
    BY <1>1, <1>2, <2>2
       DEF LeafCompleted, SchedulerTypes, MessageTypes, HostStates, pipe_vars, sched_vars
  <2>3. CASE GraphCompleted
    <3>1. /\ free_q' = Append(free_q, host.pipe) /\ schedule_pending_count' = 0
          /\ host' = [host EXCEPT !.pc = IF schedule_pending_count > 0
                                         THEN "reschedule" ELSE "action",
                                  !.schedule_count = schedule_pending_count]
          /\ UNCHANGED <<executed, app, host_q>>
      BY <2>3 DEF GraphCompleted, FreeQueueWith
    <3>2. free_q' \in Seq(Pipes)
      BY <1>1, <3>1 DEF SchedulerTypes, HostStates
    <3>3. host' \in HostStates
      BY <1>1, <3>1 DEF SchedulerTypes, HostStates
    <3> QED BY <1>1, <1>2, <3>1, <3>2, <3>3 DEF SchedulerTypes, MessageTypes, pipe_vars
  <2>4. CASE HostAction
    <3>1. IdleHost \in HostStates
      BY NodesAssumption, DepthAssumption DEF IdleHost, HostStates, Pipes
    <3> QED BY <1>1, <1>2, <2>4, <3>1
            DEF HostAction, SchedulerTypes, MessageTypes, pipe_vars
  <2> QED BY <2>1, <2>2, <2>3, <2>4 DEF HostCompletion
<1> QED BY <1>2, <1>3, UnchangedTypes DEF PipeTypes, pipe_vars

LEMMA HostRestartTypes ==
  ASSUME PipeTypes, HostRestart
  PROVE  PipeTypes'
<1> DEFINE num == host.schedule_count
<1>1. /\ SchedulerTypes /\ MessageTypes /\ num \in Nat
      /\ OwnGraphScheduleGraph(num) /\ HeadNodesSent(num)
  BY DEF PipeTypes, SchedulerTypes, HostStates, HostRestart, HostReschedule
<1>2. /\ host' = [host EXCEPT !.pc = "action", !.schedule_count = 0]
      /\ UNCHANGED <<host_q, app, outbox>>
  BY DEF HostRestart, HostReschedule
<1> HIDE DEF num
<1>3. /\ NumStarted(num) \in 0 .. Len(free_q)
      /\ free_q' \in Seq(Pipes) /\ executed' \in [Pipes -> SUBSET Nodes]
      /\ schedule_pending_count' \in Nat
  BY <1>1, StartedTypes
<1>4. MessageTypes'
  BY <1>1, <1>2, <1>3, HeadNodesSentTypes
<1>5. SchedulerTypes'
  <2>1. host' \in HostStates
    BY <1>1, <1>2 DEF SchedulerTypes, HostStates
  <2> QED BY <1>1, <1>2, <1>3, <2>1 DEF SchedulerTypes
<1> QED BY <1>4, <1>5, UnchangedTypes DEF PipeTypes, HostRestart

\* Every step of every thread keeps the types.
LEMMA PipeNextTypes == PipeTypes /\ [PipeNext]_all_vars => PipeTypes'
<1> SUFFICES ASSUME PipeTypes, [PipeNext]_all_vars PROVE PipeTypes'
  OBVIOUS
<1>1. ASSUME NEW a \in Apps, FeederNext(a) PROVE PipeTypes'
  BY <1>1, FeedBeginTypes, FeedTypes, FeedScheduleTypes DEF FeederNext
<1>2. ASSUME NEW d \in UserData, UserNext(d) PROVE PipeTypes'
  BY <1>2, UserTypes
<1>3. ASSUME NEW t \in Targets, TargetNext(t) PROVE PipeTypes'
  BY <1>3, FetchNodeTypes, AcquireParameterTypes, ExecuteNodeTypes, ReleaseParameterTypes,
     SendCompleteTypes, TriggerNextNodeTypes, TriggerNextPipeTypes DEF TargetNext
<1>4. ASSUME NEW th \in Threads, SendNext(th) PROVE PipeTypes'
  BY <1>4, SendNextTypes
<1>5. ASSUME HostTaskNext PROVE PipeTypes'
  BY <1>5, RefConsumedTypes, HostCompletionTypes, HostRestartTypes DEF HostTaskNext
<1>6. ASSUME UNCHANGED all_vars PROVE PipeTypes'
  BY <1>6, UnchangedTypes DEF PipeTypes, all_vars, vars, sched_vars, pipe_vars
<1> QED BY <1>1, <1>2, <1>3, <1>4, <1>5, <1>6 DEF PipeNext

LEMMA PipeTypesInvariance == PipeSpec => []PipeTypes
<1> QED BY PipeInitTypes, PipeNextTypes, PTL DEF PipeSpec

\* In every reachable state of every pipelined graph the queues, the tasks and the
\* descriptors have their types, and neither the lists of parked nodes nor the job
\* queues grow beyond their limits (vx_obj_desc_queue.c:248, vx_target.c:1784).
THEOREM PipeTypeCorrectness == PipeSpec => []PipeTypeOK
<1>1. PipeTypes => PipeTypeOK
  <2> SUFFICES ASSUME PipeTypes PROVE PipeTypeOK
    OBVIOUS
  <2>1. QueueTypes /\ MessageTypes /\ NodeTypes /\ CounterTypes
    BY DEF PipeTypes
  <2>2. \A t \in Targets : task[t] \in Tasks
    BY <2>1 DEF NodeTypes
  <2>3. \A d \in Data : /\ acquire_q[d] \in Seq(Bufs(d))
                        /\ blocked_nodes[d] \in Seq(Nodes \X Pipes)
                        /\ Len(blocked_nodes[d]) <= MaxBlocked
    BY <2>1 DEF QueueTypes
  <2>4. \A d \in UserData : done_q[d] \in Seq(Bufs(d)) /\ held[d] \subseteq Bufs(d)
    BY <2>1 DEF QueueTypes
  <2>5. \A t \in Targets : job_q[t] \in Seq(Nodes \X Pipes) /\ Len(job_q[t]) <= MaxJobs
    BY <2>1 DEF MessageTypes
  <2> QED BY <2>1, <2>2, <2>3, <2>4, <2>5 DEF PipeTypeOK, NodeTypes, CounterTypes, Tasks
<1> QED BY <1>1, PipeTypesInvariance, PTL

-----------------------------------------------------------------------------
\* Threads that wait for a done reference.

\* The waiting thread will find the event of d set: it is, or the command that posts
\* it is on its way.
Announced(d) ==
    \/ done_event[d] \/ IsIn(<<"ref_consumed", d>>, host_q)
    \/ \E th \in Threads : IsIn(ToHost(<<"ref_consumed", d>>), outbox[th])

WaitersAnnounced ==
    \A d \in UserData : dequeuer[d] = "wait" /\ done_q[d] # <<>> => Announced(d)

\* The host target's queue has room for one more command.
HostQueueHasRoom == Len(host_q) < MaxJobs

LEMMA AppendKeeps ==
  ASSUME NEW S, NEW q \in Seq(S), NEW job \in S
  PROVE  \A a : IsIn(a, Append(q, job)) <=> IsIn(a, q) \/ a = job
<1>1. /\ Append(q, job) \in Seq(S) /\ Len(Append(q, job)) = Len(q) + 1
      /\ \A i \in 1 .. Len(q) : Append(q, job)[i] = q[i]
      /\ Append(q, job)[Len(q) + 1] = job
      /\ \A a : IsIn(a, Append(q, job)) <=> IsIn(a, q) \/ a = job
      /\ Distinct(q) /\ ~IsIn(job, q) => Distinct(Append(q, job))
  BY AppendIsIn, Zenon
<1> QED BY <1>1

\* What is queued stays queued when a command is put behind it.
LEMMA PutKeeps ==
  ASSUME NEW S, NEW q \in Seq(S), NEW job \in S, Len(q) < MaxJobs
  PROVE  \A a : IsIn(a, Put(q, <<job>>)) <=> IsIn(a, q) \/ a = job
<1>1. Len(q) <= MaxJobs
  BY PipelineAssumption, LenProperties
<1>2. Put(q, <<job>>) = Append(q, job)
  BY <1>1, PutOne
<1>3. \A a : IsIn(a, Append(q, job)) <=> IsIn(a, q) \/ a = job
  BY AppendKeeps
<1> QED BY <1>2, <1>3

\* What is left of a queue when its first element is taken.
LEMMA TailKeeps ==
  ASSUME NEW S, NEW q \in Seq(S), q # <<>>
  PROVE  \A a : IsIn(a, q) => a = Head(q) \/ IsIn(a, Tail(q))
<1>1. /\ Len(q) \in Nat \ {0} /\ Len(Tail(q)) = Len(q) - 1 /\ Head(q) = q[1]
      /\ \A i \in 1 .. Len(Tail(q)) : Tail(q)[i] = q[i + 1]
  BY EmptySeq, HeadTailProperties
<1> SUFFICES ASSUME NEW a, IsIn(a, q), a # Head(q) PROVE IsIn(a, Tail(q))
  OBVIOUS
<1>2. PICK i \in 1 .. Len(q) : q[i] = a
  BY DEF IsIn
<1>3. i - 1 \in 1 .. Len(Tail(q)) /\ (i - 1) + 1 = i
  BY <1>1, <1>2
<1> QED BY <1>1, <1>2, <1>3 DEF IsIn

\* A thread that sends only when it has nothing left to send takes nothing back.
LEMMA OutboxKeeps ==
  ASSUME NEW th, outbox[th] = <<>>, \A u \in Threads \ {th} : outbox'[u] = outbox[u],
         NEW m, NEW u \in Threads, IsIn(m, outbox[u])
  PROVE  IsIn(m, outbox'[u])
<1>1. ~IsIn(m, outbox[th])
  BY DEF IsIn
<1> QED BY <1>1

\* The announcement survives a step that takes nothing out of the queues.
LEMMA StaysAnnounced ==
  ASSUME NEW d \in UserData, Announced(d),
         done_event[d] => done_event'[d],
         IsIn(<<"ref_consumed", d>>, host_q) => IsIn(<<"ref_consumed", d>>, host_q'),
         \A th \in Threads : IsIn(ToHost(<<"ref_consumed", d>>), outbox[th])
                              => IsIn(ToHost(<<"ref_consumed", d>>), outbox'[th])
  PROVE  Announced(d)'
BY DEF Announced

\* Sending a message moves it to the queue of its target.
LEMMA SendKeepsAnnounced ==
  ASSUME PipeTypes, HostQueueHasRoom, NEW th \in Threads, SendNext(th),
         NEW d \in UserData, Announced(d)
  PROVE  Announced(d)'
<1> DEFINE cmd == <<"ref_consumed", d>>
           msg == Head(outbox[th])
<1>1. /\ outbox[th] \in Seq(Messages) /\ outbox[th] # <<>> /\ host_q \in Seq(Commands)
      /\ msg \in Messages
      /\ outbox' = [outbox EXCEPT ![th] = Tail(@)] /\ UNCHANGED done_event
      /\ outbox \in [Threads -> Seq(Messages)]
      /\ msg.to = "host" => host_q' = Put(host_q, <<msg.item>>)
      /\ msg.to # "host" => UNCHANGED host_q
  BY HeadTailProperties DEF PipeTypes, MessageTypes, SendNext
<1>2. \A a : IsIn(a, outbox[th]) => a = msg \/ IsIn(a, Tail(outbox[th]))
  BY <1>1, TailKeeps
<1>3. msg.to = "host" => msg.item \in Commands
  BY <1>1, MessageFacts DEF Messages, Commands
<1>4. IsIn(cmd, host_q) => IsIn(cmd, host_q')
  BY <1>1, <1>3, PutKeeps DEF HostQueueHasRoom
<1>5. ToHost(cmd).to = "host" /\ ToHost(cmd).item = cmd
  BY DEF ToHost
<1>6. ToHost(cmd) = msg => IsIn(cmd, host_q')
  <2> SUFFICES ASSUME ToHost(cmd) = msg PROVE IsIn(cmd, host_q')
    OBVIOUS
  <2>1. cmd \in Commands /\ host_q' = Put(host_q, <<cmd>>)
    BY <1>1, <1>3, <1>5
  <2>2. \A a : IsIn(a, Put(host_q, <<cmd>>)) <=> IsIn(a, host_q) \/ a = cmd
    BY <1>1, <2>1, PutKeeps, Zenon DEF HostQueueHasRoom
  <2> QED BY <2>1, <2>2
<1>7. CASE msg = ToHost(cmd)
  BY <1>6, <1>7 DEF Announced
<1>8. CASE msg # ToHost(cmd)
  BY <1>1, <1>2, <1>4, <1>8, StaysAnnounced
<1> QED BY <1>7, <1>8

\* So no step loses the announcement of a reference while a thread waits for it.
LEMMA NextKeepsAnnounced ==
  ASSUME PipeTypes, HostQueueHasRoom, PipeNext, NEW d \in UserData, Announced(d),
         dequeuer'[d] = "wait"
  PROVE  Announced(d)'
<1>0. /\ host_q \in Seq(Commands) /\ outbox \in [Threads -> Seq(Messages)]
      /\ dequeuer \in [UserData -> {"idle", "wait", "poll"}]
      /\ done_event \in [UserData -> BOOLEAN]
  BY DEF PipeTypes, MessageTypes, CounterTypes
<1> DEFINE cmd == <<"ref_consumed", d>>
<1>1. ASSUME NEW a \in Apps, FeederNext(a) PROVE Announced(d)'
  <2>1. CASE FeedBegin(a)
    BY <2>1, StaysAnnounced DEF FeedBegin, VxEnqueueReadyRef, pipe_vars
  <2>2. CASE Feed(a)
    <3>1. /\ outbox[a] = <<>> /\ \A u \in Threads \ {a} : outbox'[u] = outbox[u]
          /\ UNCHANGED <<host_q, done_event>>
      BY <1>0, <2>2 DEF Feed, EnqueueReady, EnqueueRef
    <3> QED BY <3>1, OutboxKeeps, StaysAnnounced
  <2>3. CASE FeedSchedule(a)
    BY <2>3, StaysAnnounced DEF FeedSchedule, AppSchedule
  <2> QED BY <1>1, <2>1, <2>2, <2>3 DEF FeederNext
<1>2. ASSUME NEW e \in UserData, UserNext(e) PROVE Announced(d)'
  <2>1. CASE Replenish(e)
    <3>1. /\ outbox[e] = <<>> /\ \A u \in Threads \ {e} : outbox'[u] = outbox[u]
          /\ UNCHANGED <<host_q, done_event>>
      BY <1>0, <2>1 DEF Replenish, EnqueueReady, vars
    <3> QED BY <3>1, OutboxKeeps, StaysAnnounced
  <2>2. CASE DequeueDoneRef(e)
    BY <2>2, StaysAnnounced DEF DequeueDoneRef, vars
  <2>3. CASE DequeuerWoken(e)
    <3>1. d # e
      BY <1>0, <2>3 DEF DequeuerWoken
    <3>2. done_event'[d] = done_event[d] /\ UNCHANGED <<host_q, outbox>>
      BY <1>0, <2>3, <3>1 DEF DequeuerWoken, vars
    <3> QED BY <3>2, StaysAnnounced
  <2> QED BY <1>2, <2>1, <2>2, <2>3 DEF UserNext
<1>3. ASSUME NEW t \in Targets, TargetNext(t) PROVE Announced(d)'
  <2>1. CASE FetchNode(t) \/ AcquireParameter(t) \/ ExecuteNode(t)
    <3>1. UNCHANGED <<host_q, outbox, done_event>>
      BY <2>1 DEF FetchNode, AcquireParameter, ExecuteNode, vars
    <3> QED BY <3>1, StaysAnnounced
  <2>2. CASE ReleaseParameter(t) \/ TriggerNextNode(t) \/ TriggerNextPipe(t)
    <3>1. /\ outbox[t] = <<>> /\ \A u \in Threads \ {t} : outbox'[u] = outbox[u]
          /\ UNCHANGED <<host_q, done_event>>
      BY <1>0, <2>2 DEF ReleaseParameter, TriggerNextNode, TriggerNextPipe, vars
    <3> QED BY <3>1, OutboxKeeps, StaysAnnounced
  <2>3. CASE SendComplete(t)
    <3>1. <<task[t].node, task[t].pipe>> \in Commands
      BY TaskTypes, MessageFacts DEF PipeTypes, Commands
    <3>2. UNCHANGED <<outbox, done_event>>
          /\ host_q' = Put(host_q, <<<<task[t].node, task[t].pipe>>>>)
      BY <2>3 DEF SendComplete
    <3>3. \A a : IsIn(a, host_q) => IsIn(a, host_q')
      BY <1>0, <3>1, <3>2, PutKeeps DEF HostQueueHasRoom
    <3> QED BY <3>2, <3>3, StaysAnnounced
  <2> QED BY <1>3, <2>1, <2>2, <2>3 DEF TargetNext
<1>4. ASSUME NEW th \in Threads, SendNext(th) PROVE Announced(d)'
  BY <1>4, SendKeepsAnnounced
<1>5. ASSUME HostTaskNext PROVE Announced(d)'
  <2>1. CASE RefConsumed
    <3>1. /\ host_q # <<>> /\ host_q' = Tail(host_q) /\ UNCHANGED outbox
          /\ Head(host_q)[1] = "ref_consumed"
          /\ done_event' = [done_event EXCEPT ![Head(host_q)[2]] = TRUE]
      BY <2>1 DEF RefConsumed
    <3>2. CASE Head(host_q) = cmd
      <4>1. done_event'[d]
        BY <1>0, <3>1, <3>2
      <4> QED BY <4>1 DEF Announced
    <3>3. CASE Head(host_q) # cmd
      <4>1. IsIn(cmd, host_q) => IsIn(cmd, host_q')
        BY <1>0, <3>1, <3>3, TailKeeps
      <4>2. done_event[d] => done_event'[d]
        BY <1>0, <3>1
      <4> QED BY <3>1, <4>1, <4>2, StaysAnnounced
    <3> QED BY <3>2, <3>3
  <2>2. CASE HostCompletion
    <3>1. UNCHANGED <<outbox, done_event>>
      BY <2>2 DEF HostCompletion, pipe_vars
    <3>2. IsIn(cmd, host_q) => IsIn(cmd, host_q')
      <4>1. CASE host_q # <<>> /\ Head(host_q)[1] # "ref_consumed" /\ HostTake
        <5>1. Head(host_q) # cmd /\ host_q' = Tail(host_q)
          BY <4>1 DEF HostTake
        <5> QED BY <1>0, <4>1, <5>1, TailKeeps
      <4>2. CASE LeafCompleted \/ GraphCompleted \/ HostAction
        BY <4>2 DEF LeafCompleted, GraphCompleted, HostAction
      <4> QED BY <2>2, <4>1, <4>2 DEF HostCompletion
    <3> QED BY <3>1, <3>2, StaysAnnounced
  <2>3. CASE HostRestart
    BY <2>3, StaysAnnounced DEF HostRestart, HostReschedule
  <2> QED BY <1>5, <2>1, <2>2, <2>3 DEF HostTaskNext
<1> QED BY <1>1, <1>2, <1>3, <1>4, <1>5 DEF PipeNext

\* Nobody begins to wait while there is a done reference, and every new one is
\* announced.
LEMMA WaitersInvariance ==
  ASSUME PipeTypes, HostQueueHasRoom, WaitersAnnounced, [PipeNext]_all_vars
  PROVE  WaitersAnnounced'
<1>0. /\ done_q \in [UserData -> Seq(Nat)] /\ outbox \in [Threads -> Seq(Messages)]
      /\ dequeuer \in [UserData -> {"idle", "wait", "poll"}]
  BY DEF PipeTypes, MessageTypes, QueueTypes, CounterTypes
<1>1. CASE UNCHANGED all_vars
  BY <1>1 DEF WaitersAnnounced, Announced, all_vars, vars, pipe_vars
<1>2. CASE PipeNext
  <2> SUFFICES ASSUME NEW d \in UserData, dequeuer'[d] = "wait", done_q'[d] # <<>>
               PROVE  Announced(d)'
    BY DEF WaitersAnnounced
  <2>1. CASE Announced(d)
    BY <1>2, <2>1, NextKeepsAnnounced
  <2>2. CASE ~Announced(d)
    <3>1. dequeuer[d] # "wait" \/ done_q[d] = <<>>
      BY <2>2 DEF WaitersAnnounced
    <3>2. CASE UNCHANGED <<dequeuer, done_q>>
      BY <3>1, <3>2
    <3>3. ASSUME NEW e \in UserData, UserNext(e) PROVE Announced(d)'
      <4>1. CASE DequeueDoneRef(e)
        <5>1. e # d => dequeuer'[d] = dequeuer[d] /\ done_q'[d] = done_q[d]
          BY <1>0, <4>1 DEF DequeueDoneRef
        <5>2. e = d => done_q[d] = <<>> /\ done_q' = done_q
          BY <1>0, <4>1 DEF DequeueDoneRef
        <5> QED BY <3>1, <5>1, <5>2
      <4>2. CASE Replenish(e)
        BY <3>2, <4>2 DEF Replenish
      <4>3. CASE DequeuerWoken(e)
        BY <1>0, <3>1, <4>3 DEF DequeuerWoken
      <4> QED BY <3>3, <4>1, <4>2, <4>3 DEF UserNext
    <3>4. ASSUME NEW t \in Targets, ReleaseParameter(t) PROVE Announced(d)'
      <4>1. CASE UNCHANGED done_q
        BY <3>2, <3>4, <4>1 DEF ReleaseParameter
      <4>2. CASE done_q' # done_q
        <5> DEFINE e == CurrentData(t)
        <5>1. /\ done_q' = [done_q EXCEPT ![e] = Append(@, task[t].refs[task[t].prm])]
              /\ outbox' = [outbox EXCEPT ![t] = Consumed(e)] /\ UNCHANGED dequeuer
              /\ e \in UserData
          BY <3>4, <4>2 DEF ReleaseParameter
        <5>2. e = d
          <6> HIDE DEF e
          <6> QED BY <1>0, <3>1, <5>1
        <5>3. outbox'[t] = <<ToHost(<<"ref_consumed", d>>)>> /\ t \in Threads
          BY <1>0, <5>1, <5>2 DEF Consumed, Threads
        <5>4. IsIn(ToHost(<<"ref_consumed", d>>), outbox'[t])
          BY <5>3 DEF IsIn
        <5> QED BY <5>3, <5>4 DEF Announced
      <4> QED BY <4>1, <4>2
    <3>5. ASSUME NEW a \in Apps, FeederNext(a) PROVE UNCHANGED <<dequeuer, done_q>>
      BY <3>5 DEF FeederNext, FeedBegin, Feed, FeedSchedule, pipe_vars
    <3>6. ASSUME NEW t \in Targets, TargetNext(t)
          PROVE  UNCHANGED <<dequeuer, done_q>> \/ ReleaseParameter(t)
      BY <3>6 DEF TargetNext, FetchNode, AcquireParameter, ExecuteNode, SendComplete,
                  TriggerNextNode, TriggerNextPipe
    <3>7. ASSUME NEW th \in Threads, SendNext(th) PROVE UNCHANGED <<dequeuer, done_q>>
      BY <3>7 DEF SendNext
    <3>8. ASSUME HostTaskNext PROVE UNCHANGED <<dequeuer, done_q>>
      BY <3>8 DEF HostTaskNext, RefConsumed, HostCompletion, HostRestart, pipe_vars
    <3> QED BY <1>2, <3>2, <3>3, <3>4, <3>5, <3>6, <3>7, <3>8 DEF PipeNext
  <2> QED BY <2>1, <2>2
<1> QED BY <1>1, <1>2

\* As long as the host target's queue never fills up, a thread that waits in
\* vxGraphParameterDequeueDoneRef while there is a done reference finds its event
\* set, or the command that sets it is on its way (vx_target.c:1784 drops a command
\* for a full queue).
THEOREM WaitersAreWoken == PipeSpec /\ []HostQueueHasRoom => []DequeuerIsWoken
<1>1. PipeInit => WaitersAnnounced
  BY DEF PipeInit, WaitersAnnounced
<1>2. PipeTypes /\ HostQueueHasRoom /\ WaitersAnnounced /\ [PipeNext]_all_vars
      => WaitersAnnounced'
  BY WaitersInvariance
<1>3. PipeTypes /\ WaitersAnnounced => DequeuerIsWoken
  <2> SUFFICES ASSUME PipeTypes, WaitersAnnounced, NEW d \in UserData,
                      dequeuer[d] = "wait", done_q[d] # <<>>
               PROVE  \/ done_event[d]
                      \/ \E i \in DOMAIN host_q : host_q[i] = <<"ref_consumed", d>>
                      \/ \E th \in Threads : \E i \in DOMAIN outbox[th] :
                            outbox[th][i] = ToHost(<<"ref_consumed", d>>)
    BY DEF DequeuerIsWoken
  <2>1. Announced(d)
    BY DEF WaitersAnnounced
  <2>2. /\ DOMAIN host_q = 1 .. Len(host_q)
        /\ \A th \in Threads : DOMAIN outbox[th] = 1 .. Len(outbox[th])
    BY LenProperties DEF PipeTypes, MessageTypes
  <2> QED BY <2>1, <2>2 DEF Announced, IsIn
<1> QED BY <1>1, <1>2, <1>3, PipeTypesInvariance, PTL DEF PipeSpec

-----------------------------------------------------------------------------
\* Every node is run by the task of its own target.

OwnTask(t) ==
    /\ task[t].pc # "idle" => TargetOf[task[t].node] = t
    /\ task[t].retrigger => task[t].pc \in {"release", "complete", "trigger"}
    /\ task[t].pc \in {"acquire", "execute"} => task[t].node \notin executed[task[t].pipe]
OwnJobs(t) ==
    \A n \in Nodes, p \in Pipes : IsIn(<<n, p>>, job_q[t]) => TargetOf[n] = t
OwnMessages(th) ==
    \A msg \in Messages : IsIn(msg, outbox[th]) /\ msg.to # "host"
                          => msg = ToNode(msg.item[1], msg.item[2])
OwnTargets ==
    /\ \A t \in Targets : OwnTask(t) /\ OwnJobs(t)
    /\ \A th \in Threads : OwnMessages(th)

\* What comes out of a queue was in it.
LEMMA FromTail ==
  ASSUME NEW S, NEW q \in Seq(S), q # <<>>
  PROVE  /\ IsIn(Head(q), q) /\ Head(q) \in S /\ Tail(q) \in Seq(S)
         /\ \A a : IsIn(a, Tail(q)) => IsIn(a, q)
<1>1. /\ Len(q) \in Nat \ {0} /\ Len(Tail(q)) = Len(q) - 1 /\ Head(q) = q[1]
      /\ \A i \in 1 .. Len(Tail(q)) : Tail(q)[i] = q[i + 1]
      /\ Head(q) \in S /\ Tail(q) \in Seq(S)
  BY EmptySeq, HeadTailProperties
<1>2. \A i \in 1 .. Len(Tail(q)) : i + 1 \in 1 .. Len(q)
  BY <1>1
<1>3. 1 \in 1 .. Len(q)
  BY <1>1
<1> QED BY <1>1, <1>2, <1>3 DEF IsIn

\* What is in a queue that is put to was there, or is one of the new jobs; and what
\* was there stays.
LEMMA FromPut ==
  ASSUME NEW S, NEW q \in Seq(S), NEW jobs \in Seq(S), Len(q) <= MaxJobs
  PROVE  /\ \A a : IsIn(a, Put(q, jobs)) => IsIn(a, q) \/ IsIn(a, jobs)
         /\ \A a : IsIn(a, q) => IsIn(a, Put(q, jobs))
<1> DEFINE new == Put(q, jobs)
<1>1. /\ new \in Seq(S) /\ Len(new) \in Nat
      /\ Len(new) = IF Len(q) + Len(jobs) <= MaxJobs
                    THEN Len(q) + Len(jobs) ELSE MaxJobs
      /\ \A i \in 1 .. Len(new) :
              /\ i <= Len(q) => new[i] = q[i]
              /\ i > Len(q) => /\ i - Len(q) \in 1 .. Len(jobs)
                               /\ new[i] = jobs[i - Len(q)]
  BY PutProperties, Zenon
<1>2. Len(q) \in Nat /\ Len(jobs) \in Nat /\ MaxJobs \in Nat
  BY LenProperties, PipelineAssumption
<1> HIDE DEF new
<1>3. ASSUME NEW a, IsIn(a, new) PROVE IsIn(a, q) \/ IsIn(a, jobs)
  <2>1. PICK i \in 1 .. Len(new) : new[i] = a
    BY <1>3 DEF IsIn
  <2>2. CASE i <= Len(q)
    <3>1. i \in 1 .. Len(q)
      BY <1>2, <2>2
    <3> QED BY <1>1, <2>1, <2>2, <3>1 DEF IsIn
  <2>3. CASE i > Len(q)
    BY <1>1, <2>1, <2>3 DEF IsIn
  <2> QED BY <1>2, <2>2, <2>3
<1>4. ASSUME NEW a, IsIn(a, q) PROVE IsIn(a, new)
  <2>1. PICK i \in 1 .. Len(q) : q[i] = a
    BY <1>4 DEF IsIn
  <2>2. i \in 1 .. Len(new) /\ i <= Len(q)
    BY <1>1, <1>2
  <2> QED BY <1>1, <2>1, <2>2 DEF IsIn
<1> QED BY <1>3, <1>4 DEF new

\* The jobs of the executions that start are head nodes of the target.
LEMMA HeadJobsOwn ==
  ASSUME SchedulerTypes, NEW num \in Nat, NumStarted(num) \in 0 .. Len(free_q),
         NEW t \in Targets, NEW n \in Nodes, NEW p \in Pipes,
         IsIn(<<n, p>>, HeadJobs(t, num))
  PROVE  /\ TargetOf[n] = t /\ InNodes[n] = {}
         /\ \E m \in 1 .. NumStarted(num) : p = free_q[m]
<1>1. PICK i \in 1 .. Len(HeadJobs(t, num)) : HeadJobs(t, num)[i] = <<n, p>>
  BY DEF IsIn
<1>2. PICK j \in 1 .. Len(HeadNodes[t]), m \in 1 .. NumStarted(num) :
        HeadJobs(t, num)[i] = <<HeadNodes[t][j], free_q[m]>>
  <2>1. HeadJobAt(t, num, i)
    BY HeadJobsFacts
  <2> QED BY <2>1, Zenon DEF HeadJobAt
<1>3. HeadNodes[t][j] \in ToSet(HeadNodes[t])
  <2>1. DOMAIN HeadNodes[t] = 1 .. Len(HeadNodes[t])
    BY LinksAssumption, LenProperties
  <2> QED BY <2>1 DEF ToSet
<1> QED BY <1>1, <1>2, <1>3, LinksAssumption

\* A step that leaves a task, a queue or an outbox alone leaves it its own.
LEMMA OwnUnchanged ==
  /\ \A t \in Targets : OwnTask(t) /\ task'[t] = task[t] /\ UNCHANGED executed => OwnTask(t)'
  /\ \A t \in Targets : OwnJobs(t) /\ job_q'[t] = job_q[t] => OwnJobs(t)'
  /\ \A th \in Threads : OwnMessages(th) /\ outbox'[th] = outbox[th] => OwnMessages(th)'
BY DEF OwnTask, OwnJobs, OwnMessages

\* What the tasks of the targets do to their queues and records.
LEMMA FetchNodeEffect ==
  ASSUME PipeTypes, NEW t \in Targets, FetchNode(t)
  PROVE  \E n \in Nodes, p \in Pipes :
           /\ task[t].pc = "idle" /\ job_q[t] \in Seq(Nodes \X Pipes) /\ job_q[t] # <<>>
           /\ Head(job_q[t]) = <<n, p>>
           /\ job_q' = [job_q EXCEPT ![t] = Tail(job_q[t])]
           /\ \/ n \in executed[p] /\ UNCHANGED <<node_state, next_blocked, task>>
              \/ /\ n \notin executed[p] /\ PrevPipeBlocked(n, p)
                 /\ node_state' = [node_state EXCEPT ![n][p] = "BLOCKED"]
                 /\ next_blocked' = next_blocked \cup {<<n, PrevPipe(p)>>}
                 /\ UNCHANGED task
              \/ /\ n \notin executed[p]
                 /\ node_state' = [node_state EXCEPT ![n][p] = "IDLE"]
                 /\ task' = [task EXCEPT ![t] = TakenNode(n, p)]
                 /\ UNCHANGED next_blocked
           /\ UNCHANGED <<vars, acquire_q, blocked_nodes, outbox>>
<1>1. /\ task[t].pc = "idle" /\ job_q[t] \in Seq(Nodes \X Pipes) /\ job_q[t] # <<>>
      /\ job_q' = [job_q EXCEPT ![t] = Tail(job_q[t])]
      /\ UNCHANGED <<vars, acquire_q, blocked_nodes, outbox>>
  BY DEF PipeTypes, MessageTypes, FetchNode
<1>2. Head(job_q[t]) \in Nodes \X Pipes
  BY <1>1, HeadTailProperties
<1>3. PICK n \in Nodes, p \in Pipes : Head(job_q[t]) = <<n, p>>
  BY <1>2
<1>4. Head(job_q[t])[1] = n /\ Head(job_q[t])[2] = p
  BY <1>3
<1>5. IF n \in executed[p]
      THEN UNCHANGED <<node_state, next_blocked, task>>
      ELSE IF PrevPipeBlocked(n, p)
      THEN /\ node_state' = [node_state EXCEPT ![n][p] = "BLOCKED"]
           /\ next_blocked' = next_blocked \cup {<<n, PrevPipe(p)>>}
           /\ UNCHANGED task
      ELSE /\ node_state' = [node_state EXCEPT ![n][p] = "IDLE"]
           /\ task' = [task EXCEPT ![t] = TakenNode(n, p)]
           /\ UNCHANGED next_blocked
  BY <1>4, Zenon DEF FetchNode, TakenNode
<1> QED BY <1>1, <1>3, <1>5

\* A parameter is acquired and the task goes on, or the node is parked on the empty
\* queue of its data.
Proceeds(t) ==
    /\ task'[t].pc \in {"acquire", "execute"}
    /\ task'[t].node = task[t].node /\ task'[t].pipe = task[t].pipe
    /\ task'[t].retrigger = task[t].retrigger
    /\ UNCHANGED <<blocked_nodes, node_state>>
    /\ acquire_q' = acquire_q
       \/ /\ acquire_q[CurrentData(t)] # <<>>
          /\ acquire_q' = [acquire_q EXCEPT ![CurrentData(t)] = Tail(acquire_q[CurrentData(t)])]
Parks(t) ==
    /\ acquire_q[CurrentData(t)] = <<>> /\ UNCHANGED acquire_q /\ task'[t] = IdleTask
    /\ blocked_nodes' = [blocked_nodes EXCEPT ![CurrentData(t)] =
                           Append(blocked_nodes[CurrentData(t)], <<task[t].node, task[t].pipe>>)]
    /\ node_state' = [node_state EXCEPT ![task[t].node][task[t].pipe] = "BLOCKED"]

LEMMA AcquireParameterEffect ==
  ASSUME PipeTypes, NEW t \in Targets, AcquireParameter(t)
  PROVE  /\ task[t].pc = "acquire" /\ CurrentData(t) \in Data
         /\ task[t].node \in Nodes /\ task[t].pipe \in Pipes
         /\ task \in [Targets -> Tasks] /\ task' = [task EXCEPT ![t] = task'[t]]
         /\ Proceeds(t) \/ Parks(t)
         /\ UNCHANGED <<sched_vars, complete_leaf_nodes, host_q, host, app, next_blocked,
                        job_q, outbox>>
<1> DEFINE d == CurrentData(t)
           n == task[t].node
           p == task[t].pipe
<1>1. /\ d \in Data /\ n \in Nodes /\ p \in Pipes /\ task[t].pc = "acquire"
      /\ QueueTypes /\ NodeTypes /\ task \in [Targets -> Tasks]
  BY TaskTypes DEF PipeTypes, AcquireParameter
<1>2. /\ UNCHANGED <<sched_vars, complete_leaf_nodes, host_q, host, app, next_blocked,
                     job_q, outbox>>
      /\ IF data_ref[d][p].acquired
         THEN /\ ParamAcquired(t, data_ref[d][p].ref)
              /\ UNCHANGED <<acquire_q, blocked_nodes, data_ref, node_state, ready>>
         ELSE IF acquire_q[d] # <<>>
         THEN /\ acquire_q' = [acquire_q EXCEPT ![d] = Tail(acquire_q[d])]
              /\ ParamAcquired(t, Head(acquire_q[d]))
              /\ UNCHANGED <<blocked_nodes, node_state>>
         ELSE /\ IF Len(blocked_nodes[d]) < MaxBlocked
                 THEN /\ blocked_nodes' = [blocked_nodes EXCEPT
                                             ![d] = Append(blocked_nodes[d], <<n, p>>)]
                      /\ node_state' = [node_state EXCEPT ![n][p] = "BLOCKED"]
                      /\ task' = [task EXCEPT ![t] = IdleTask]
                 ELSE /\ ParamAcquired(t, Invalid)
                      /\ UNCHANGED <<blocked_nodes, node_state>>
              /\ UNCHANGED <<acquire_q, data_ref>>
  BY DEF AcquireParameter
<1> HIDE DEF d, n, p
<1>3. ASSUME NEW r \in References(d), ParamAcquired(t, r)
      PROVE  /\ task' = [task EXCEPT ![t] = task'[t]]
             /\ task'[t].pc \in {"acquire", "execute"}
             /\ task'[t].node = n /\ task'[t].pipe = p
             /\ task'[t].retrigger = task[t].retrigger
  BY <1>1, <1>3, ParamAcquiredTypes DEF d, n, p
<1>4. Proceeds(t) \/ Parks(t)
  <2>1. CASE data_ref[d][p].acquired
    <3>1. data_ref[d][p].ref \in References(d)
      BY <1>1 DEF NodeTypes
    <3>2. ParamAcquired(t, data_ref[d][p].ref) /\ UNCHANGED <<acquire_q, blocked_nodes, node_state>>
      BY <1>2, <2>1, Zenon
    <3>3. /\ task'[t].pc \in {"acquire", "execute"}
          /\ task'[t].node = n /\ task'[t].pipe = p
          /\ task'[t].retrigger = task[t].retrigger
      BY <1>3, <3>1, <3>2
    <3> QED BY <3>2, <3>3 DEF Proceeds, n, p
  <2>2. CASE ~data_ref[d][p].acquired /\ acquire_q[d] # <<>>
    <3>1. Head(acquire_q[d]) \in References(d)
      BY <1>1, <2>2, HeadTailProperties DEF QueueTypes, References
    <3>2. /\ acquire_q' = [acquire_q EXCEPT ![d] = Tail(acquire_q[d])]
          /\ ParamAcquired(t, Head(acquire_q[d])) /\ UNCHANGED <<blocked_nodes, node_state>>
      BY <1>2, <2>2
    <3>3. /\ task'[t].pc \in {"acquire", "execute"}
          /\ task'[t].node = n /\ task'[t].pipe = p
          /\ task'[t].retrigger = task[t].retrigger
      BY <1>3, <3>1, <3>2
    <3> QED BY <2>2, <3>2, <3>3 DEF Proceeds, d, n, p
  <2>3. CASE /\ ~data_ref[d][p].acquired /\ acquire_q[d] = <<>>
             /\ Len(blocked_nodes[d]) < MaxBlocked
    <3>1. task' = [task EXCEPT ![t] = IdleTask] /\ task'[t] = IdleTask
      BY <1>1, <1>2, <2>3
    <3> QED BY <1>2, <2>3, <3>1 DEF Parks, d, n, p
  <2>4. CASE /\ ~data_ref[d][p].acquired /\ acquire_q[d] = <<>>
             /\ ~(Len(blocked_nodes[d]) < MaxBlocked)
    <3>1. /\ Invalid \in References(d) /\ ParamAcquired(t, Invalid)
          /\ UNCHANGED <<blocked_nodes, node_state, acquire_q>>
      BY <1>2, <2>4 DEF References
    <3>2. /\ task'[t].pc \in {"acquire", "execute"}
          /\ task'[t].node = n /\ task'[t].pipe = p
          /\ task'[t].retrigger = task[t].retrigger
      BY <1>3, <3>1
    <3> QED BY <3>1, <3>2 DEF Proceeds, n, p
  <2> QED BY <2>1, <2>2, <2>3, <2>4
<1>5. task' = [task EXCEPT ![t] = task'[t]]
  <2>1. ASSUME NEW r \in References(d), ParamAcquired(t, r)
        PROVE  task' = [task EXCEPT ![t] = task'[t]]
    BY <1>3, <2>1
  <2>2. \/ \E r \in References(d) : ParamAcquired(t, r)
        \/ task' = [task EXCEPT ![t] = IdleTask]
    <3>1. data_ref[d][p].ref \in References(d) /\ Invalid \in References(d)
      BY <1>1 DEF NodeTypes, References
    <3>2. acquire_q[d] # <<>> => Head(acquire_q[d]) \in References(d)
      BY <1>1, HeadTailProperties DEF QueueTypes, References
    <3> QED BY <1>2, <3>1, <3>2
  <2> QED BY <1>1, <2>1, <2>2
<1>6. UNCHANGED <<sched_vars, complete_leaf_nodes, host_q, host, app, next_blocked, job_q, outbox>>
  BY <1>2, Zenon
<1> QED BY <1>1, <1>4, <1>5, <1>6 DEF d, n, p

\* A record of a task that has run its node and goes on with it, or has ended.
LEMMA AfterRunning ==
  ASSUME PipeTypes, NEW t \in Targets,
         ReleaseParameter(t) \/ SendComplete(t) \/ TriggerNextNode(t)
  PROVE  /\ task \in [Targets -> Tasks] /\ task' = [task EXCEPT ![t] = task'[t]]
         /\ task[t].pc \in {"release", "complete", "trigger"}
         /\ \/ /\ task'[t].pc \in {"release", "complete", "trigger"}
               /\ task'[t].node = task[t].node /\ task'[t].pipe = task[t].pipe
               /\ task'[t].retrigger = task[t].retrigger
            \/ task'[t] = IdleTask /\ ~task[t].retrigger
         /\ UNCHANGED <<sched_vars, complete_leaf_nodes, host, app, node_state,
                        next_blocked, job_q>>
<1>1. task \in [Targets -> Tasks] /\ task[t] \in Tasks
  BY TaskTypes
<1>2. CASE ReleaseParameter(t)
  <2>1. task' = [task EXCEPT ![t] = ReleasedTask(t)] /\ task[t].pc = "release"
    BY <1>2, ReleaseParameterEffect
  <2>2. /\ ReleasedTask(t).node = task[t].node /\ ReleasedTask(t).pipe = task[t].pipe
        /\ ReleasedTask(t).retrigger = task[t].retrigger
        /\ ReleasedTask(t).pc \in {"release", "complete", "trigger"}
    BY <2>1, ReleasedTaskTypes
  <2>3. UNCHANGED <<sched_vars, complete_leaf_nodes, host, app, node_state, next_blocked,
                    job_q>>
    BY <1>2 DEF ReleaseParameter, vars
  <2>4. task'[t] = ReleasedTask(t)
    BY <1>1, <2>1
  <2> QED BY <1>1, <2>1, <2>2, <2>3, <2>4
<1>3. CASE SendComplete(t)
  <2> DEFINE tk == [task[t] EXCEPT !.pc = "trigger"]
  <2>1. task' = [task EXCEPT ![t] = Finished(tk)] /\ task[t].pc = "complete"
    BY <1>3 DEF SendComplete
  <2>2. tk.pc = "trigger"
    BY <1>1 DEF Tasks
  <2>3. /\ tk.node = task[t].node /\ tk.pipe = task[t].pipe /\ tk.retrigger = task[t].retrigger
        /\ Finished(tk) = tk \/ (Finished(tk) = IdleTask /\ ~tk.retrigger)
    BY <2>1, <2>2, TriggerTask
  <2>4. UNCHANGED <<sched_vars, complete_leaf_nodes, host, app, node_state, next_blocked,
                    job_q>>
    BY <1>3 DEF SendComplete
  <2> HIDE DEF tk
  <2>5. task'[t] = Finished(tk)
    BY <1>1, <2>1
  <2> QED BY <1>1, <2>1, <2>2, <2>3, <2>4, <2>5
<1>4. CASE TriggerNextNode(t)
  <2> DEFINE tk == [task[t] EXCEPT !.prm = task[t].prm + 1]
  <2>1. task' = [task EXCEPT ![t] = Finished(tk)] /\ task[t].pc = "trigger"
    BY <1>4 DEF TriggerNextNode
  <2>2. tk.pc = "trigger"
    BY <1>1, <2>1 DEF Tasks
  <2>3. /\ tk.node = task[t].node /\ tk.pipe = task[t].pipe /\ tk.retrigger = task[t].retrigger
        /\ Finished(tk) = tk \/ (Finished(tk) = IdleTask /\ ~tk.retrigger)
    BY <2>1, <2>2, TriggerTask
  <2>4. UNCHANGED <<sched_vars, complete_leaf_nodes, host, app, node_state, next_blocked,
                    job_q>>
    BY <1>4 DEF TriggerNextNode, vars
  <2> HIDE DEF tk
  <2>5. task'[t] = Finished(tk)
    BY <1>1, <2>1
  <2> QED BY <1>1, <2>1, <2>2, <2>3, <2>4, <2>5
<1> QED BY <1>2, <1>3, <1>4

\* The nodes parked on a queue go to the outbox of the thread that has put a reference
\* there.
LEMMA WokenNodes ==
  ASSUME PipeTypes, NEW d \in Data
  PROVE  /\ \A n \in Nodes, p \in Pipes :
              IsIn(<<n, p>>, blocked_nodes[d]) => IsIn(ToNode(n, p), Woken(d))
         /\ \A msg : IsIn(msg, Woken(d)) =>
              \E n \in Nodes, p \in Pipes :
                msg = ToNode(n, p) /\ IsIn(<<n, p>>, blocked_nodes[d])
<1>1. /\ Woken(d) \in Seq(Messages) /\ Len(Woken(d)) = Len(blocked_nodes[d])
      /\ \A i \in 1 .. Len(Woken(d)) :
           /\ blocked_nodes[d][i] \in Nodes \X Pipes
           /\ Woken(d)[i] = ToNode(blocked_nodes[d][i][1], blocked_nodes[d][i][2])
  BY WokenType DEF PipeTypes
<1>2. ASSUME NEW n \in Nodes, NEW p \in Pipes, IsIn(<<n, p>>, blocked_nodes[d])
      PROVE  IsIn(ToNode(n, p), Woken(d))
  <2>1. PICK i \in 1 .. Len(blocked_nodes[d]) : blocked_nodes[d][i] = <<n, p>>
    BY <1>2 DEF IsIn
  <2>2. Woken(d)[i] = ToNode(n, p)
    BY <1>1, <2>1
  <2> QED BY <1>1, <2>2 DEF IsIn
<1>3. ASSUME NEW msg, IsIn(msg, Woken(d))
      PROVE  \E n \in Nodes, p \in Pipes :
               msg = ToNode(n, p) /\ IsIn(<<n, p>>, blocked_nodes[d])
  <2>1. PICK i \in 1 .. Len(Woken(d)) : Woken(d)[i] = msg
    BY <1>3 DEF IsIn
  <2>2. PICK n \in Nodes, p \in Pipes : blocked_nodes[d][i] = <<n, p>>
    BY <1>1, <2>1
  <2>3. msg = ToNode(n, p) /\ IsIn(<<n, p>>, blocked_nodes[d])
    BY <1>1, <2>1, <2>2 DEF IsIn
  <2> QED BY <2>3
<1> QED BY <1>2, <1>3

LEMMA EnqueueReadyEffect ==
  ASSUME PipeTypes, NEW d \in UserData, NEW r \in held[d], NEW th \in Threads,
         outbox[th] = <<>>, EnqueueReady(d, r, th)
  PROVE  /\ d \in Data
         /\ outbox' = [outbox EXCEPT ![th] = Woken(d)]
         /\ acquire_q' = [acquire_q EXCEPT ![d] = Append(acquire_q[d], r)]
         /\ blocked_nodes' = [blocked_nodes EXCEPT ![d] = <<>>]
<1>1. d \in Data
  BY GraphAssumption
<1>2. Woken(d) \in Seq(Messages)
  BY <1>1, WokenType DEF PipeTypes
<1>3. <<>> \o Woken(d) = Woken(d)
  BY <1>2, ConcatEmptySeq
<1>4. outbox' = [outbox EXCEPT ![th] = outbox[th] \o Woken(d)]
  BY DEF EnqueueReady
<1> QED BY <1>1, <1>3, <1>4 DEF EnqueueReady

\* An outbox that is filled with what is sent to the nodes' own targets.
LEMMA OwnFilled ==
  ASSUME PipeTypes, NEW th \in Threads, NEW new,
         outbox' = [outbox EXCEPT ![th] = new],
         \A msg \in Messages : IsIn(msg, new) /\ msg.to # "host"
                              => \E n \in Nodes, p \in Pipes : msg = ToNode(n, p),
         \A u \in Threads : OwnMessages(u)
  PROVE  \A u \in Threads : OwnMessages(u)'
<1>1. outbox \in [Threads -> Seq(Messages)]
  BY DEF PipeTypes, MessageTypes
<1>2. outbox'[th] = new /\ \A u \in Threads \ {th} : outbox'[u] = outbox[u]
  BY <1>1
<1>3. \A u \in Threads \ {th} : OwnMessages(u)'
  BY <1>2 DEF OwnMessages
<1>4. OwnMessages(th)'
  <2> SUFFICES ASSUME NEW msg \in Messages, IsIn(msg, new), msg.to # "host"
               PROVE  msg = ToNode(msg.item[1], msg.item[2])
    BY <1>2 DEF OwnMessages
  <2>1. PICK n \in Nodes, p \in Pipes : msg = ToNode(n, p)
    OBVIOUS
  <2>2. msg.item = <<n, p>>
    BY <2>1, MessageFacts
  <2> QED BY <2>1, <2>2
<1> QED BY <1>3, <1>4

LEMMA OneMessage == \A msg, m : IsIn(m, <<msg>>) <=> m = msg
BY DEF IsIn

LEMMA OwnInit == PipeInit => OwnTargets
<1> SUFFICES ASSUME PipeInit PROVE OwnTargets
  OBVIOUS
<1>1. \A t \in Targets : OwnTask(t) /\ OwnJobs(t)
  BY TaskFacts DEF PipeInit, OwnTask, OwnJobs, IsIn
<1>2. \A th \in Threads : OwnMessages(th)
  BY DEF PipeInit, OwnMessages, IsIn
<1> QED BY <1>1, <1>2 DEF OwnTargets

\* Executions that start: their instances have executed no node.
LEMMA StartedExecuted ==
  ASSUME SchedulerTypes, NEW num \in Nat, OwnGraphScheduleGraph(num), NEW p \in Pipes
  PROVE  executed'[p] = {} \/ executed'[p] = executed[p]
BY DEF OwnGraphScheduleGraph

\* ... and their head nodes go to their own targets.
LEMMA OwnStarted ==
  ASSUME PipeTypes, OwnTargets, NEW num \in Nat,
         OwnGraphScheduleGraph(num), HeadNodesSent(num), UNCHANGED <<host_q, task, outbox>>
  PROVE  OwnTargets'
<1>1. SchedulerTypes /\ MessageTypes /\ NumStarted(num) \in 0 .. Len(free_q)
  BY StartedTypes DEF PipeTypes
<1>2. \A t \in Targets : job_q'[t] = Put(job_q[t], HeadJobs(t, num))
  BY <1>1, HeadNodesSentTypes
<1>3. ASSUME NEW t \in Targets PROVE OwnJobs(t)'
  <2> SUFFICES ASSUME NEW n \in Nodes, NEW p \in Pipes, IsIn(<<n, p>>, job_q'[t])
               PROVE  TargetOf[n] = t
    BY DEF OwnJobs
  <2>1. /\ job_q[t] \in Seq(Nodes \X Pipes) /\ Len(job_q[t]) <= MaxJobs
        /\ HeadJobs(t, num) \in Seq(Nodes \X Pipes)
    BY <1>1, HeadJobsFacts DEF MessageTypes
  <2>2. IsIn(<<n, p>>, job_q[t]) \/ IsIn(<<n, p>>, HeadJobs(t, num))
    BY <1>2, <2>1, FromPut
  <2> QED BY <1>1, <2>2, HeadJobsOwn DEF OwnTargets, OwnJobs
<1>4. ASSUME NEW t \in Targets PROVE OwnTask(t)'
  <2>1. task[t].pipe \in Pipes
    BY TaskTypes
  <2> QED BY <1>1, <2>1, StartedExecuted DEF OwnTargets, OwnTask
<1>5. \A th \in Threads : OwnMessages(th)'
  BY DEF OwnTargets, OwnMessages
<1> QED BY <1>3, <1>4, <1>5 DEF OwnTargets

LEMMA OwnNext ==
  ASSUME PipeTypes, OwnTargets, [PipeNext]_all_vars
  PROVE  OwnTargets'
<1>0. /\ \A t \in Targets : OwnTask(t) /\ OwnJobs(t)
      /\ \A th \in Threads : OwnMessages(th)
      /\ task \in [Targets -> Tasks] /\ outbox \in [Threads -> Seq(Messages)]
      /\ job_q \in [Targets -> Seq(Nodes \X Pipes)]
      /\ \A t \in Targets : Len(job_q[t]) <= MaxJobs
      /\ SchedulerTypes /\ MessageTypes /\ executed \in [Pipes -> SUBSET Nodes]
  BY DEF PipeTypes, NodeTypes, MessageTypes, SchedulerTypes, OwnTargets
<1>1. ASSUME UNCHANGED <<executed, task, job_q, outbox>> PROVE OwnTargets'
  BY <1>1 DEF OwnTargets, OwnTask, OwnJobs, OwnMessages
<1>2. ASSUME NEW d \in UserData, NEW r \in held[d], NEW th \in Threads, outbox[th] = <<>>,
             EnqueueReady(d, r, th), UNCHANGED <<executed, task, job_q>>
      PROVE  OwnTargets'
  <2>1. d \in Data /\ outbox' = [outbox EXCEPT ![th] = Woken(d)]
    BY <1>2, EnqueueReadyEffect
  <2>2. \A msg : IsIn(msg, Woken(d)) => \E n \in Nodes, p \in Pipes : msg = ToNode(n, p)
    <3>1. \A msg : IsIn(msg, Woken(d)) =>
            \E n \in Nodes, p \in Pipes : msg = ToNode(n, p) /\ IsIn(<<n, p>>, blocked_nodes[d])
      BY <2>1, WokenNodes
    <3> QED BY <3>1
  <2>3. \A u \in Threads : OwnMessages(u)'
    BY <1>0, <2>1, <2>2, OwnFilled
  <2> QED BY <1>0, <1>2, <2>3 DEF OwnTargets, OwnTask, OwnJobs
<1>3. ASSUME NEW a \in Apps, FeederNext(a) PROVE OwnTargets'
  <2>1. CASE FeedBegin(a)
    BY <1>1, <2>1 DEF FeedBegin, VxEnqueueReadyRef, sched_vars, pipe_vars
  <2>2. CASE Feed(a)
    <3>1. /\ outbox[a] = <<>> /\ UNCHANGED <<executed, task, job_q>> /\ a \in Threads
          /\ Param0 \in UserData /\ \E r \in held[Param0] : EnqueueReady(Param0, r, a)
      BY <2>2, GraphAssumption DEF Feed, EnqueueRef, sched_vars, Threads
    <3> QED BY <1>2, <3>1
  <2>3. CASE FeedSchedule(a)
    <3>1. /\ app[a].n \in Nat /\ OwnGraphScheduleGraph(app[a].n) /\ HeadNodesSent(app[a].n)
          /\ UNCHANGED <<host_q, task, outbox>>
      BY <1>0, <2>3 DEF SchedulerTypes, AppStates, FeedSchedule, AppSchedule
    <3> QED BY <3>1, OwnStarted
  <2> QED BY <1>3, <2>1, <2>2, <2>3 DEF FeederNext
<1>4. ASSUME NEW d \in UserData, UserNext(d) PROVE OwnTargets'
  <2>1. CASE Replenish(d)
    <3>1. /\ outbox[d] = <<>> /\ UNCHANGED <<executed, task, job_q>> /\ d \in Threads
          /\ \E r \in held[d] : EnqueueReady(d, r, d)
      BY <2>1 DEF Replenish, vars, sched_vars, Threads
    <3> QED BY <1>2, <3>1
  <2>2. CASE DequeueDoneRef(d) \/ DequeuerWoken(d)
    BY <1>1, <2>2 DEF DequeueDoneRef, DequeuerWoken, vars, sched_vars
  <2> QED BY <1>4, <2>1, <2>2 DEF UserNext
<1>5. ASSUME NEW t \in Targets, TargetNext(t) PROVE OwnTargets'
  <2>1. ASSUME OwnTask(t)', \A u \in Targets \ {t} : task'[u] = task[u],
               UNCHANGED <<executed, job_q>>, \A th \in Threads : OwnMessages(th)'
        PROVE  OwnTargets'
    <3>1. \A u \in Targets : OwnTask(u)'
      BY <1>0, <2>1 DEF OwnTask
    <3>2. \A u \in Targets : OwnJobs(u)'
      BY <1>0, <2>1 DEF OwnJobs
    <3> QED BY <2>1, <3>1, <3>2 DEF OwnTargets
  <2>2. CASE FetchNode(t)
    <3>1. PICK n \in Nodes, p \in Pipes :
           /\ task[t].pc = "idle" /\ job_q[t] \in Seq(Nodes \X Pipes) /\ job_q[t] # <<>>
           /\ Head(job_q[t]) = <<n, p>>
           /\ job_q' = [job_q EXCEPT ![t] = Tail(job_q[t])]
           /\ UNCHANGED task
              \/ (n \notin executed[p] /\ task' = [task EXCEPT ![t] = TakenNode(n, p)])
           /\ UNCHANGED <<executed, outbox>>
      BY <2>2, FetchNodeEffect DEF vars, sched_vars
    <3>2. IsIn(<<n, p>>, job_q[t]) /\ \A a : IsIn(a, Tail(job_q[t])) => IsIn(a, job_q[t])
      BY <3>1, FromTail
    <3>3. \A u \in Targets : OwnJobs(u)'
      BY <1>0, <3>1, <3>2 DEF OwnJobs
    <3>4. TargetOf[n] = t
      BY <1>0, <3>2 DEF OwnJobs
    <3>5. /\ TakenNode(n, p).pc = "acquire" /\ TakenNode(n, p).node = n
          /\ TakenNode(n, p).pipe = p /\ ~TakenNode(n, p).retrigger
      BY TaskFacts
    <3>6. \A u \in Targets : OwnTask(u)'
      <4>1. \A u \in Targets \ {t} : task'[u] = task[u]
        BY <1>0, <3>1
      <4>2. OwnTask(t)'
        BY <1>0, <3>1, <3>4, <3>5 DEF OwnTask
      <4> QED BY <1>0, <3>1, <4>1, <4>2, OwnUnchanged
    <3> QED BY <1>0, <3>1, <3>3, <3>6 DEF OwnTargets, OwnMessages
  <2>3. CASE AcquireParameter(t)
    <3>1. /\ task[t].pc = "acquire" /\ task' = [task EXCEPT ![t] = task'[t]]
          /\ UNCHANGED <<executed, job_q, outbox>>
          /\ \/ /\ task'[t].pc \in {"acquire", "execute"}
                /\ task'[t].node = task[t].node /\ task'[t].pipe = task[t].pipe
                /\ task'[t].retrigger = task[t].retrigger
             \/ task'[t] = IdleTask
      BY <2>3, AcquireParameterEffect DEF Proceeds, Parks, sched_vars
    <3>2. OwnTask(t)'
      <4>1. /\ TargetOf[task[t].node] = t /\ ~task[t].retrigger
            /\ task[t].node \notin executed[task[t].pipe]
        BY <1>0, <3>1 DEF OwnTask
      <4>2. IdleTask.pc = "idle" /\ ~IdleTask.retrigger
        BY TaskFacts
      <4> QED BY <3>1, <4>1, <4>2 DEF OwnTask
    <3> QED BY <1>0, <2>1, <3>1, <3>2, OwnUnchanged
  <2>4. CASE ExecuteNode(t)
    <3>1. /\ task[t].pc = "execute" /\ task[t].node \in Nodes /\ task[t].pipe \in Pipes
          /\ executed' = [executed EXCEPT ![task[t].pipe] = @ \cup {task[t].node}]
          /\ task' = [task EXCEPT ![t] = task'[t]]
          /\ task'[t].pc = "release" /\ task'[t].node = task[t].node
          /\ UNCHANGED <<job_q, outbox>>
      BY <2>4, ExecuteNodeTask, TaskTypes DEF ExecuteNode
    <3>2. OwnTask(t)'
      BY <1>0, <3>1 DEF OwnTask
    <3>3. ASSUME NEW u \in Targets \ {t} PROVE OwnTask(u)'
      <4>1. task'[u] = task[u] /\ OwnTask(u) /\ OwnTask(t) /\ task[u].pipe \in Pipes
        BY <1>0, <3>1, TaskTypes
      <4>2. task[u].pc \in {"acquire", "execute"} => task[u].node # task[t].node
        BY <3>1, <4>1 DEF OwnTask
      <4>3. executed'[task[u].pipe] \subseteq executed[task[u].pipe] \cup {task[t].node}
        BY <1>0, <3>1, <4>1
      <4> QED BY <4>1, <4>2, <4>3 DEF OwnTask
    <3> QED BY <1>0, <3>1, <3>2, <3>3 DEF OwnTargets, OwnJobs, OwnMessages
  <2>5. CASE ReleaseParameter(t) \/ SendComplete(t) \/ TriggerNextNode(t)
    <3>1. /\ task' = [task EXCEPT ![t] = task'[t]]
          /\ task[t].pc \in {"release", "complete", "trigger"}
          /\ \/ /\ task'[t].pc \in {"release", "complete", "trigger"}
                /\ task'[t].node = task[t].node /\ task'[t].pipe = task[t].pipe
                /\ task'[t].retrigger = task[t].retrigger
             \/ task'[t] = IdleTask /\ ~task[t].retrigger
          /\ UNCHANGED <<executed, job_q>>
      BY <2>5, AfterRunning DEF sched_vars
    <3>2. OwnTask(t)'
      BY <1>0, <3>1, TaskFacts DEF OwnTask
    <3>3. \A th \in Threads : OwnMessages(th)'
      <4>1. CASE UNCHANGED outbox
        BY <1>0, <4>1 DEF OwnMessages
      <4>2. CASE ReleaseParameter(t) /\ outbox' # outbox
        <5>1. CurrentData(t) \in Data /\ t \in Threads
          BY <4>2, TaskTypes DEF ReleaseParameter, Threads
        <5>2. \/ outbox' = [outbox EXCEPT ![t] = Consumed(CurrentData(t))]
              \/ outbox' = [outbox EXCEPT ![t] = Woken(CurrentData(t))]
          BY <4>2, ReleaseParameterEffect
        <5>3. CASE outbox' = [outbox EXCEPT ![t] = Consumed(CurrentData(t))]
          <6>1. \A msg : IsIn(msg, Consumed(CurrentData(t))) => msg.to = "host"
            BY OneMessage DEF Consumed, ToHost
          <6>2. \A msg \in Messages : IsIn(msg, Consumed(CurrentData(t))) /\ msg.to # "host"
                  => \E n \in Nodes, p \in Pipes : msg = ToNode(n, p)
            BY <6>1
          <6> QED BY <1>0, <5>1, <5>3, <6>2, OwnFilled
        <5>4. CASE outbox' = [outbox EXCEPT ![t] = Woken(CurrentData(t))]
          <6>1. \A msg : IsIn(msg, Woken(CurrentData(t))) =>
                  \E n \in Nodes, p \in Pipes :
                    msg = ToNode(n, p) /\ IsIn(<<n, p>>, blocked_nodes[CurrentData(t)])
            BY <5>1, WokenNodes
          <6>2. \A msg : IsIn(msg, Woken(CurrentData(t))) =>
                  \E n \in Nodes, p \in Pipes : msg = ToNode(n, p)
            BY <6>1
          <6> QED BY <1>0, <5>1, <5>4, <6>2, OwnFilled
        <5> QED BY <5>2, <5>3, <5>4
      <4>3. CASE TriggerNextNode(t) /\ outbox' # outbox
        <5> DEFINE next == OutNodes[task[t].node][task[t].prm]
        <5>1. /\ outbox' = [outbox EXCEPT ![t] = <<ToNode(next, task[t].pipe)>>]
              /\ task[t].prm <= Len(OutNodes[task[t].node]) /\ t \in Threads
          BY <4>3 DEF TriggerNextNode, Threads
        <5>2. next \in Nodes /\ task[t].pipe \in Pipes
          <6>1. /\ task[t].node \in Nodes /\ task[t].prm \in Nat \ {0} /\ task[t].pipe \in Pipes
            BY TaskTypes
          <6>2. OutNodes[task[t].node] \in Seq(Nodes) /\ Len(OutNodes[task[t].node]) \in Nat
            BY <6>1, LinksAssumption, LenProperties
          <6> QED BY <5>1, <6>1, <6>2, ElementOfSeq
        <5> HIDE DEF next
        <5>3. \A msg : IsIn(msg, <<ToNode(next, task[t].pipe)>>) => msg = ToNode(next, task[t].pipe)
          BY OneMessage
        <5> QED BY <1>0, <5>1, <5>2, <5>3, OwnFilled
      <4> QED BY <2>5, <4>1, <4>2, <4>3 DEF SendComplete
    <3> QED BY <1>0, <2>1, <3>1, <3>2, <3>3
  <2>6. CASE TriggerNextPipe(t)
    <3>1. /\ task' = [task EXCEPT ![t] = IdleTask] /\ t \in Threads
          /\ outbox' = [outbox EXCEPT ![t] = <<ToNode(task[t].node, NextPipe(task[t].pipe))>>]
          /\ UNCHANGED <<executed, job_q>>
      BY <2>6 DEF TriggerNextPipe, vars, sched_vars, Threads
    <3>2. task[t].node \in Nodes /\ NextPipe(task[t].pipe) \in Pipes
      BY TaskTypes, PrevPipeFacts
    <3>3. \A msg : IsIn(msg, <<ToNode(task[t].node, NextPipe(task[t].pipe))>>)
                  => msg = ToNode(task[t].node, NextPipe(task[t].pipe))
      BY OneMessage
    <3>4. \A th \in Threads : OwnMessages(th)'
      BY <1>0, <3>1, <3>2, <3>3, OwnFilled
    <3>5. OwnTask(t)'
      BY <1>0, <3>1, TaskFacts DEF OwnTask
    <3> QED BY <1>0, <2>1, <3>1, <3>4, <3>5
  <2> QED BY <1>5, <2>2, <2>3, <2>4, <2>5, <2>6 DEF TargetNext
<1>6. ASSUME NEW th \in Threads, SendNext(th) PROVE OwnTargets'
  <2> DEFINE msg == Head(outbox[th])
  <2>1. /\ outbox[th] # <<>> /\ outbox' = [outbox EXCEPT ![th] = Tail(@)]
        /\ UNCHANGED <<executed, task>>
        /\ msg.to = "host" => UNCHANGED job_q
        /\ msg.to # "host" => job_q' = [job_q EXCEPT ![msg.to] = Put(job_q[msg.to], <<msg.item>>)]
    BY <1>6 DEF SendNext, sched_vars
  <2>2. /\ outbox[th] \in Seq(Messages) /\ msg \in Messages /\ IsIn(msg, outbox[th])
        /\ \A a : IsIn(a, Tail(outbox[th])) => IsIn(a, outbox[th])
    BY <1>0, <2>1, FromTail
  <2>3. \A u \in Threads : OwnMessages(u)'
    BY <1>0, <2>1, <2>2 DEF OwnMessages
  <2>4. \A u \in Targets : OwnJobs(u)'
    <3>1. CASE msg.to = "host"
      BY <1>0, <2>1, <3>1 DEF OwnJobs
    <3>2. CASE msg.to # "host"
      <4>1. /\ msg.to \in Targets /\ msg.item \in Nodes \X Pipes
            /\ msg = ToNode(msg.item[1], msg.item[2])
        BY <1>0, <2>2, <3>2, MessageFacts DEF OwnMessages
      <4>2. msg.to = TargetOf[msg.item[1]]
        BY <4>1, MessageFacts
      <4> HIDE DEF msg
      <4>3. <<msg.item>> \in Seq(Nodes \X Pipes) /\ \A a : IsIn(a, <<msg.item>>) => a = msg.item
        BY <4>1, OneMessage
      <4>4. \A a : IsIn(a, Put(job_q[msg.to], <<msg.item>>))
                  => IsIn(a, job_q[msg.to]) \/ IsIn(a, <<msg.item>>)
        BY <1>0, <4>1, <4>3, FromPut
      <4>5. ASSUME NEW u \in Targets, NEW n \in Nodes, NEW p \in Pipes, IsIn(<<n, p>>, job_q'[u])
            PROVE  TargetOf[n] = u
        <5>1. CASE u = msg.to /\ <<n, p>> = msg.item
          BY <4>2, <5>1
        <5>2. CASE ~(u = msg.to /\ <<n, p>> = msg.item)
          <6>1. IsIn(<<n, p>>, job_q[u])
            BY <1>0, <2>1, <3>2, <4>1, <4>3, <4>4, <4>5, <5>2
          <6> QED BY <1>0, <6>1 DEF OwnJobs
        <5> QED BY <5>1, <5>2
      <4> QED BY <4>5 DEF OwnJobs
    <3> QED BY <3>1, <3>2
  <2> QED BY <1>0, <2>1, <2>3, <2>4 DEF OwnTargets, OwnTask
<1>7. ASSUME HostTaskNext PROVE OwnTargets'
  <2>1. CASE RefConsumed \/ HostCompletion
    <3>1. UNCHANGED <<executed, task, job_q, outbox>>
      BY <2>1 DEF RefConsumed, HostCompletion, HostTake, LeafCompleted, GraphCompleted,
                  HostAction, sched_vars, pipe_vars
    <3> QED BY <1>1, <3>1
  <2>2. CASE HostRestart
    <3>1. /\ host.schedule_count \in Nat /\ OwnGraphScheduleGraph(host.schedule_count)
          /\ HeadNodesSent(host.schedule_count) /\ UNCHANGED <<host_q, task, outbox>>
      BY <1>0, <2>2 DEF SchedulerTypes, HostStates, HostRestart, HostReschedule
    <3> QED BY <3>1, OwnStarted
  <2> QED BY <1>7, <2>1, <2>2 DEF HostTaskNext
<1>8. ASSUME UNCHANGED all_vars PROVE OwnTargets'
  BY <1>1, <1>8 DEF all_vars, vars, sched_vars, pipe_vars
<1> QED BY <1>3, <1>4, <1>5, <1>6, <1>7, <1>8 DEF PipeNext

LEMMA OwnInvariance == PipeSpec => []OwnTargets
<1>1. PipeTypes /\ OwnTargets /\ [PipeNext]_all_vars => OwnTargets'
  BY OwnNext
<1> QED BY <1>1, OwnInit, PipeTypesInvariance, PTL DEF PipeSpec

-----------------------------------------------------------------------------
\* Parked nodes.

\* The task of t is at node n of instance p, or will send it when it is done with the
\* previous instance; n waits behind that instance.
Runs(t, n, p) ==
    /\ task[t].pc \in {"acquire", "execute"} /\ task[t].node = n /\ task[t].pipe = p
Retriggers(t, n, p) ==
    task[t].retrigger /\ task[t].node = n /\ task[t].pipe = PrevPipe(p)
Behind(n, p) == <<n, PrevPipe(p)>> \in next_blocked

\* Node n of instance p is on some queue, or somebody is going to send it.
Pending(n, p) ==
    \/ \E t \in Targets : IsIn(<<n, p>>, job_q[t]) \/ Runs(t, n, p) \/ Retriggers(t, n, p)
    \/ \E d \in Data : IsIn(<<n, p>>, blocked_nodes[d])
    \/ \E th \in Threads : IsIn(ToNode(n, p), outbox[th])
    \/ Behind(n, p)

\* A queue on which nodes are parked is empty.
ParkedOnEmpty == \A d \in Data : acquire_q[d] # <<>> => blocked_nodes[d] = <<>>

NodesAwake ==
    /\ \A n \in Nodes, p \in Pipes :
         node_state[n][p] = "BLOCKED" => n \notin executed[p] /\ Pending(n, p)
    /\ ParkedOnEmpty

\* No target's queue is full.
JobQueuesHaveRoom == \A t \in Targets : Len(job_q[t]) < MaxJobs

\* A node stays pending when nothing is taken out of the queues.
LEMMA StaysPending ==
  ASSUME NEW n \in Nodes, NEW p \in Pipes, Pending(n, p),
         \A t \in Targets : IsIn(<<n, p>>, job_q[t]) => IsIn(<<n, p>>, job_q'[t]),
         \A t \in Targets : Runs(t, n, p) => Pending(n, p)',
         \A t \in Targets : Retriggers(t, n, p) => Pending(n, p)',
         \A d \in Data : IsIn(<<n, p>>, blocked_nodes[d]) => Pending(n, p)',
         \A th \in Threads : IsIn(ToNode(n, p), outbox[th]) => Pending(n, p)',
         Behind(n, p) => Pending(n, p)'
  PROVE  Pending(n, p)'
<1>1. ASSUME NEW t \in Targets, IsIn(<<n, p>>, job_q[t]) PROVE Pending(n, p)'
  <2>1. IsIn(<<n, p>>, job_q'[t])
    BY <1>1
  <2> QED BY <2>1 DEF Pending
<1> QED BY <1>1 DEF Pending

\* A woken node goes from the list of parked nodes to an outbox.
LEMMA WokenPending ==
  ASSUME PipeTypes, NEW n \in Nodes, NEW p \in Pipes, Pending(n, p),
         NEW d \in Data, NEW th \in Threads, outbox[th] = <<>>,
         outbox' = [outbox EXCEPT ![th] = Woken(d)],
         blocked_nodes' = [blocked_nodes EXCEPT ![d] = <<>>],
         UNCHANGED <<job_q, next_blocked>>,
         \A t \in Targets : Runs(t, n, p) => Runs(t, n, p)',
         \A t \in Targets : Retriggers(t, n, p) => Retriggers(t, n, p)'
  PROVE  Pending(n, p)'
<1>1. outbox \in [Threads -> Seq(Messages)] /\ blocked_nodes \in [Data -> Seq(Nodes \X Pipes)]
  BY DEF PipeTypes, MessageTypes, QueueTypes
<1>2. \A u \in Threads : IsIn(ToNode(n, p), outbox[u]) => IsIn(ToNode(n, p), outbox'[u])
  <2>1. \A u \in Threads \ {th} : outbox'[u] = outbox[u]
    BY <1>1
  <2> QED BY <2>1, OutboxKeeps
<1>3. ASSUME NEW e \in Data, IsIn(<<n, p>>, blocked_nodes[e]) PROVE Pending(n, p)'
  <2>1. CASE e = d
    <3>1. IsIn(ToNode(n, p), Woken(d))
      BY <1>3, <2>1, WokenNodes
    <3>2. IsIn(ToNode(n, p), outbox'[th])
      BY <1>1, <3>1
    <3> QED BY <3>2 DEF Pending
  <2>2. CASE e # d
    BY <1>1, <1>3, <2>2 DEF Pending
  <2> QED BY <2>1, <2>2
<1>4. \A u \in Threads : IsIn(ToNode(n, p), outbox[u]) => Pending(n, p)'
  BY <1>2 DEF Pending
<1>5. \A t \in Targets : Runs(t, n, p) \/ Retriggers(t, n, p) => Pending(n, p)'
  BY DEF Pending
<1>6. Behind(n, p) => Pending(n, p)'
  BY DEF Pending, Behind
<1> QED BY <1>3, <1>4, <1>5, <1>6, StaysPending

\* Filling an empty outbox leaves what is pending alone.
LEMMA FilledPending ==
  ASSUME PipeTypes, NEW n \in Nodes, NEW p \in Pipes, Pending(n, p),
         NEW th \in Threads, outbox[th] = <<>>,
         \A u \in Threads \ {th} : outbox'[u] = outbox[u],
         UNCHANGED <<job_q, next_blocked, blocked_nodes>>,
         \A t \in Targets : Runs(t, n, p) => Runs(t, n, p)',
         \A t \in Targets : Retriggers(t, n, p) => Pending(n, p)'
  PROVE  Pending(n, p)'
<1>1. \A u \in Threads : IsIn(ToNode(n, p), outbox[u]) => IsIn(ToNode(n, p), outbox'[u])
  BY OutboxKeeps
<1>2. \A u \in Threads : IsIn(ToNode(n, p), outbox[u]) => Pending(n, p)'
  BY <1>1 DEF Pending
<1>3. \A t \in Targets : Runs(t, n, p) => Pending(n, p)'
  BY DEF Pending
<1>4. \A d \in Data : IsIn(<<n, p>>, blocked_nodes[d]) => Pending(n, p)'
  BY DEF Pending
<1>5. Behind(n, p) => Pending(n, p)'
  BY DEF Pending, Behind
<1> QED BY <1>2, <1>3, <1>4, <1>5, StaysPending

\* What a target's task does with the nodes that are pending.
LEMMA TargetPending ==
  ASSUME PipeTypes, OwnTargets, NEW t \in Targets, TargetNext(t),
         NEW n \in Nodes, NEW p \in Pipes, Pending(n, p), n \notin executed[p],
         n \notin executed'[p]
  PROVE  Pending(n, p)'
<1>0. /\ task \in [Targets -> Tasks] /\ outbox \in [Threads -> Seq(Messages)]
      /\ job_q \in [Targets -> Seq(Nodes \X Pipes)] /\ t \in Threads
      /\ blocked_nodes \in [Data -> Seq(Nodes \X Pipes)]
      /\ OwnTask(t)
  BY DEF PipeTypes, NodeTypes, MessageTypes, QueueTypes, OwnTargets, Threads
<1>1. CASE FetchNode(t)
  <2>1. PICK m \in Nodes, q \in Pipes :
           /\ task[t].pc = "idle" /\ job_q[t] \in Seq(Nodes \X Pipes) /\ job_q[t] # <<>>
           /\ Head(job_q[t]) = <<m, q>>
           /\ job_q' = [job_q EXCEPT ![t] = Tail(job_q[t])]
           /\ \/ m \in executed[q] /\ UNCHANGED <<next_blocked, task>>
              \/ /\ next_blocked' = next_blocked \cup {<<m, PrevPipe(q)>>}
                 /\ UNCHANGED task
              \/ /\ task' = [task EXCEPT ![t] = TakenNode(m, q)]
                 /\ UNCHANGED next_blocked
           /\ UNCHANGED <<blocked_nodes, outbox>>
    BY <1>1, FetchNodeEffect
  <2>2. \A a : IsIn(a, job_q[t]) => a = Head(job_q[t]) \/ IsIn(a, Tail(job_q[t]))
    BY <2>1, TailKeeps
  <2>3. TakenNode(m, q).pc = "acquire" /\ TakenNode(m, q).node = m /\ TakenNode(m, q).pipe = q
    BY TaskFacts
  <2>4. \A u \in Targets : /\ Runs(u, n, p) => Runs(u, n, p)'
                           /\ Retriggers(u, n, p) => Retriggers(u, n, p)'
    BY <1>0, <2>1 DEF Runs, Retriggers, OwnTask
  <2>5. Behind(n, p) => Behind(n, p)'
    BY <2>1 DEF Behind
  <2>6. <<n, p>> = <<m, q>> => Behind(n, p)' \/ Runs(t, n, p)'
    BY <1>0, <2>1, <2>3 DEF Behind, Runs
  <2>7. ASSUME NEW u \in Targets, IsIn(<<n, p>>, job_q[u])
        PROVE  Pending(n, p)'
    <3>1. IsIn(<<n, p>>, job_q'[u]) \/ <<n, p>> = <<m, q>>
      BY <1>0, <2>1, <2>2, <2>7
    <3> QED BY <2>6, <3>1 DEF Pending
  <2>8. ASSUME NEW u \in Targets, Runs(u, n, p) \/ Retriggers(u, n, p)
        PROVE  Pending(n, p)'
    <3>1. Runs(u, n, p)' \/ Retriggers(u, n, p)'
      BY <2>4, <2>8
    <3> QED BY <3>1 DEF Pending
  <2>9. ASSUME NEW e \in Data, IsIn(<<n, p>>, blocked_nodes[e]) PROVE Pending(n, p)'
    BY <2>1, <2>9 DEF Pending
  <2>10. ASSUME NEW u \in Threads, IsIn(ToNode(n, p), outbox[u]) PROVE Pending(n, p)'
    BY <2>1, <2>10 DEF Pending
  <2>11. Behind(n, p) => Pending(n, p)'
    BY <2>5 DEF Pending
  <2> QED BY <2>7, <2>8, <2>9, <2>10, <2>11 DEF Pending
<1>2. CASE AcquireParameter(t)
  <2> DEFINE d == CurrentData(t)
  <2>1. /\ task[t].pc = "acquire" /\ d \in Data /\ task' = [task EXCEPT ![t] = task'[t]]
        /\ Proceeds(t) \/ Parks(t)
        /\ UNCHANGED <<next_blocked, job_q, outbox>>
    BY <1>2, AcquireParameterEffect
  <2>2. \A u \in Targets : Retriggers(u, n, p) => Retriggers(u, n, p)'
    BY <1>0, <2>1 DEF Retriggers, OwnTask
  <2>3. \A u \in Targets \ {t} : Runs(u, n, p) => Runs(u, n, p)'
    BY <1>0, <2>1 DEF Runs
  <2>4. CASE Proceeds(t)
    <3>1. Runs(t, n, p) => Runs(t, n, p)'
      BY <2>4 DEF Proceeds, Runs
    <3> QED BY <2>1, <2>2, <2>3, <2>4, <3>1 DEF Pending, Behind, Proceeds
  <2>5. CASE Parks(t)
    <3>1. blocked_nodes' = [blocked_nodes EXCEPT ![d] = Append(blocked_nodes[d], <<task[t].node, task[t].pipe>>)]
      BY <2>5 DEF Parks
    <3>2. blocked_nodes[d] \in Seq(Nodes \X Pipes) /\ <<task[t].node, task[t].pipe>> \in Nodes \X Pipes
      BY <1>0, <2>1, TaskTypes
    <3> HIDE DEF d
    <3>3. \A a : IsIn(a, Append(blocked_nodes[d], <<task[t].node, task[t].pipe>>))
                <=> IsIn(a, blocked_nodes[d]) \/ a = <<task[t].node, task[t].pipe>>
      BY <3>2, AppendIsIn
    <3>4. \A e \in Data : IsIn(<<n, p>>, blocked_nodes[e]) => IsIn(<<n, p>>, blocked_nodes'[e])
      BY <1>0, <2>1, <3>1, <3>3
    <3>5. Runs(t, n, p) => IsIn(<<n, p>>, blocked_nodes'[d])
      BY <1>0, <2>1, <3>1, <3>3 DEF Runs
    <3>6. \A e \in Data : IsIn(<<n, p>>, blocked_nodes[e]) => Pending(n, p)'
      BY <3>4 DEF Pending
    <3>7. Runs(t, n, p) => Pending(n, p)'
      BY <2>1, <3>5 DEF Pending
    <3> QED BY <2>1, <2>2, <2>3, <3>6, <3>7 DEF Pending, Behind
  <2> QED BY <2>1, <2>4, <2>5
<1>3. CASE ExecuteNode(t)
  <2>1. /\ task[t].pc = "execute" /\ task[t].node \in Nodes /\ task[t].pipe \in Pipes
        /\ executed' = [executed EXCEPT ![task[t].pipe] = @ \cup {task[t].node}]
        /\ next_blocked' = next_blocked \ {<<task[t].node, task[t].pipe>>}
        /\ task' = [task EXCEPT ![t] = task'[t]]
        /\ task'[t].pc = "release" /\ task'[t].node = task[t].node
        /\ task'[t].pipe = task[t].pipe
        /\ task'[t].retrigger <=> <<task[t].node, task[t].pipe>> \in next_blocked
        /\ UNCHANGED <<job_q, blocked_nodes, outbox>>
    BY <1>3, ExecuteNodeTask, TaskTypes DEF ExecuteNode
  <2>2. ~Runs(t, n, p)
    <3>1. executed \in [Pipes -> SUBSET Nodes]
      BY DEF PipeTypes, SchedulerTypes
    <3> QED BY <2>1, <3>1 DEF Runs
  <2>3. \A u \in Targets : Runs(u, n, p) => Runs(u, n, p)'
    BY <1>0, <2>1, <2>2 DEF Runs
  <2>4. \A u \in Targets : Retriggers(u, n, p) => Retriggers(u, n, p)'
    BY <1>0, <2>1 DEF Retriggers, OwnTask
  <2>5. Behind(n, p) => Behind(n, p)' \/ Retriggers(t, n, p)'
    BY <2>1 DEF Behind, Retriggers
  <2> QED BY <2>1, <2>3, <2>4, <2>5 DEF Pending
<1>4. CASE ReleaseParameter(t) \/ SendComplete(t) \/ TriggerNextNode(t)
  <2>1. /\ task' = [task EXCEPT ![t] = task'[t]]
        /\ task[t].pc \in {"release", "complete", "trigger"}
        /\ \/ /\ task'[t].node = task[t].node /\ task'[t].pipe = task[t].pipe
              /\ task'[t].retrigger = task[t].retrigger
           \/ ~task[t].retrigger
        /\ UNCHANGED <<job_q, next_blocked>>
    BY <1>4, AfterRunning
  <2>2. \A u \in Targets : Retriggers(u, n, p) => Retriggers(u, n, p)'
    BY <1>0, <2>1 DEF Retriggers
  <2>3. \A u \in Targets : Runs(u, n, p) => Runs(u, n, p)'
    BY <1>0, <2>1 DEF Runs
  <2>4. outbox[t] = <<>>
    BY <1>4 DEF ReleaseParameter, SendComplete, TriggerNextNode
  <2>5. CASE UNCHANGED blocked_nodes
    <3>1. \A u \in Threads \ {t} : outbox'[u] = outbox[u]
      BY <1>0, <1>4 DEF ReleaseParameter, SendComplete, TriggerNextNode
    <3>2. \A u \in Targets : Retriggers(u, n, p) => Pending(n, p)'
      BY <2>2 DEF Pending
    <3> QED BY <1>0, <2>1, <2>3, <2>4, <2>5, <3>1, <3>2, FilledPending
  <2>6. CASE blocked_nodes' # blocked_nodes
    <3>1. /\ outbox' = [outbox EXCEPT ![t] = Woken(CurrentData(t))]
          /\ blocked_nodes' = [blocked_nodes EXCEPT ![CurrentData(t)] = <<>>]
          /\ task[t].pc = "release"
      BY <1>4, <2>6, ReleaseParameterEffect DEF SendComplete, TriggerNextNode
    <3>2. CurrentData(t) \in Data
      BY <3>1, TaskTypes
    <3> QED BY <1>0, <2>1, <2>2, <2>3, <2>4, <3>1, <3>2, WokenPending
  <2> QED BY <2>5, <2>6
<1>5. CASE TriggerNextPipe(t)
  <2>1. /\ task[t].pc = "trigger" /\ outbox[t] = <<>>
        /\ task' = [task EXCEPT ![t] = IdleTask]
        /\ outbox' = [outbox EXCEPT ![t] = <<ToNode(task[t].node, NextPipe(task[t].pipe))>>]
        /\ UNCHANGED <<job_q, next_blocked, blocked_nodes>>
    BY <1>5 DEF TriggerNextPipe
  <2>2. \A u \in Targets : Runs(u, n, p) => Runs(u, n, p)'
    BY <1>0, <2>1 DEF Runs
  <2>3. Retriggers(t, n, p) => IsIn(ToNode(n, p), outbox'[t])
    BY <1>0, <2>1, PrevPipeFacts, OneMessage DEF Retriggers
  <2>4. \A u \in Targets \ {t} : Retriggers(u, n, p) => Retriggers(u, n, p)'
    BY <1>0, <2>1 DEF Retriggers
  <2>5. \A u \in Targets : Retriggers(u, n, p) => Pending(n, p)'
    BY <1>0, <2>3, <2>4 DEF Pending
  <2>6. \A u \in Threads \ {t} : outbox'[u] = outbox[u]
    BY <1>0, <2>1
  <2> QED BY <1>0, <2>1, <2>2, <2>5, <2>6, FilledPending
<1> QED BY <1>1, <1>2, <1>3, <1>4, <1>5 DEF TargetNext

\* Sending a message to a queue that has room moves it there.
LEMMA SendPending ==
  ASSUME PipeTypes, JobQueuesHaveRoom, NEW th \in Threads, SendNext(th),
         NEW n \in Nodes, NEW p \in Pipes, Pending(n, p)
  PROVE  Pending(n, p)'
<1> DEFINE msg == Head(outbox[th])
<1>1. /\ outbox \in [Threads -> Seq(Messages)] /\ outbox[th] # <<>> /\ msg \in Messages
      /\ job_q \in [Targets -> Seq(Nodes \X Pipes)]
      /\ outbox' = [outbox EXCEPT ![th] = Tail(outbox[th])]
      /\ UNCHANGED <<task, next_blocked, blocked_nodes>>
      /\ msg.to = "host" => UNCHANGED job_q
      /\ msg.to # "host" =>
           job_q' = [job_q EXCEPT ![msg.to] = Put(job_q[msg.to], <<msg.item>>)]
  BY HeadTailProperties DEF PipeTypes, MessageTypes, SendNext
<1>2. \A a : IsIn(a, outbox[th]) => a = msg \/ IsIn(a, Tail(outbox[th]))
  BY <1>1, TailKeeps
<1>3. /\ msg.to # "host" => msg.to \in Targets /\ msg.item \in Nodes \X Pipes
      /\ ToNode(n, p).to = TargetOf[n] /\ ToNode(n, p).item = <<n, p>>
      /\ TargetOf[n] \in Targets /\ TargetOf[n] # "host"
  <2>1. msg.to # "host" => msg.to \in Targets /\ msg.item \in Nodes \X Pipes
    BY <1>1, MessageFacts
  <2>2. ToNode(n, p).to = TargetOf[n] /\ ToNode(n, p).item = <<n, p>>
    BY MessageFacts
  <2>3. TargetOf[n] \in Targets /\ TargetOf[n] # "host"
    BY PipelineAssumption, NodesAssumption
  <2> QED BY <2>1, <2>2, <2>3
<1> HIDE DEF msg
<1>4. ASSUME msg.to # "host"
      PROVE  /\ \A a : IsIn(a, job_q'[msg.to]) <=> IsIn(a, job_q[msg.to]) \/ a = msg.item
             /\ \A t \in Targets \ {msg.to} : job_q'[t] = job_q[t]
  <2>1. \A a : IsIn(a, Put(job_q[msg.to], <<msg.item>>))
               <=> IsIn(a, job_q[msg.to]) \/ a = msg.item
    <3>1. /\ job_q[msg.to] \in Seq(Nodes \X Pipes) /\ msg.item \in Nodes \X Pipes
          /\ Len(job_q[msg.to]) < MaxJobs
      BY <1>1, <1>3, <1>4 DEF JobQueuesHaveRoom
    <3> QED BY <3>1, PutKeeps
  <2> QED BY <1>1, <1>3, <1>4, <2>1
<1>5. \A t \in Targets : IsIn(<<n, p>>, job_q[t]) => IsIn(<<n, p>>, job_q'[t])
  BY <1>1, <1>4
<1>6. msg = ToNode(n, p) => Pending(n, p)'
  <2>1. msg = ToNode(n, p) => IsIn(<<n, p>>, job_q'[TargetOf[n]])
    BY <1>3, <1>4
  <2> QED BY <1>3, <2>1 DEF Pending
<1>7. \A u \in Threads : IsIn(ToNode(n, p), outbox[u])
        => msg = ToNode(n, p) \/ IsIn(ToNode(n, p), outbox'[u])
  BY <1>1, <1>2
<1>8. \A u \in Threads : IsIn(ToNode(n, p), outbox[u]) => Pending(n, p)'
  BY <1>6, <1>7 DEF Pending
<1>9. \A t \in Targets : Runs(t, n, p) => Pending(n, p)'
  BY <1>1 DEF Pending, Runs
<1>10. \A t \in Targets : Retriggers(t, n, p) => Pending(n, p)'
  BY <1>1 DEF Pending, Retriggers
<1>11. \A d \in Data : IsIn(<<n, p>>, blocked_nodes[d]) => Pending(n, p)'
  BY <1>1 DEF Pending
<1>12. Behind(n, p) => Pending(n, p)'
  BY <1>1 DEF Pending, Behind
<1> QED BY <1>5, <1>8, <1>9, <1>10, <1>11, <1>12, StaysPending

\* An application thread that puts a reference into a queue wakes the nodes parked there.
LEMMA EnqueuePending ==
  ASSUME PipeTypes, NEW d \in UserData, NEW r \in held[d], NEW th \in Threads,
         outbox[th] = <<>>, EnqueueReady(d, r, th),
         UNCHANGED <<job_q, next_blocked, task>>,
         NEW n \in Nodes, NEW p \in Pipes, Pending(n, p)
  PROVE  Pending(n, p)'
<1>1. /\ d \in Data /\ outbox' = [outbox EXCEPT ![th] = Woken(d)]
      /\ blocked_nodes' = [blocked_nodes EXCEPT ![d] = <<>>]
  BY EnqueueReadyEffect
<1>2. \A t \in Targets : Runs(t, n, p) => Runs(t, n, p)'
  BY DEF Runs
<1>3. \A t \in Targets : Retriggers(t, n, p) => Retriggers(t, n, p)'
  BY DEF Retriggers
<1> QED BY <1>1, <1>2, <1>3, WokenPending

\* Executions that start only add to the job queues.
LEMMA StartedPending ==
  ASSUME PipeTypes, NEW num \in Nat, OwnGraphScheduleGraph(num), HeadNodesSent(num),
         UNCHANGED <<host_q, task, outbox, next_blocked, blocked_nodes>>,
         NEW n \in Nodes, NEW p \in Pipes, Pending(n, p)
  PROVE  Pending(n, p)'
<1>1. SchedulerTypes /\ MessageTypes /\ NumStarted(num) \in 0 .. Len(free_q)
  BY StartedTypes DEF PipeTypes
<1>2. \A t \in Targets : job_q'[t] = Put(job_q[t], HeadJobs(t, num))
  BY <1>1, HeadNodesSentTypes
<1>3. \A t \in Targets : IsIn(<<n, p>>, job_q[t]) => IsIn(<<n, p>>, job_q'[t])
  <2> SUFFICES ASSUME NEW t \in Targets
               PROVE  IsIn(<<n, p>>, job_q[t]) => IsIn(<<n, p>>, job_q'[t])
    OBVIOUS
  <2>1. /\ job_q[t] \in Seq(Nodes \X Pipes) /\ Len(job_q[t]) <= MaxJobs
        /\ HeadJobs(t, num) \in Seq(Nodes \X Pipes)
    BY <1>1, HeadJobsFacts DEF MessageTypes
  <2> QED BY <1>2, <2>1, FromPut
<1>4. \A t \in Targets : Runs(t, n, p) => Pending(n, p)'
  BY DEF Pending, Runs
<1>5. \A t \in Targets : Retriggers(t, n, p) => Pending(n, p)'
  BY DEF Pending, Retriggers
<1>6. /\ \A d \in Data : IsIn(<<n, p>>, blocked_nodes[d]) => Pending(n, p)'
      /\ \A th \in Threads : IsIn(ToNode(n, p), outbox[th]) => Pending(n, p)'
  BY DEF Pending
<1>7. Behind(n, p) => Pending(n, p)'
  BY DEF Pending, Behind
<1> QED BY <1>3, <1>4, <1>5, <1>6, <1>7, StaysPending

\* So a node that has not been executed stays pending until it is.
LEMMA NextPending ==
  ASSUME PipeTypes, OwnTargets, JobQueuesHaveRoom, PipeNext,
         NEW n \in Nodes, NEW p \in Pipes, Pending(n, p), n \notin executed[p],
         n \notin executed'[p]
  PROVE  Pending(n, p)'
<1>1. ASSUME UNCHANGED <<job_q, next_blocked, task, outbox, blocked_nodes>>
      PROVE  Pending(n, p)'
  BY <1>1 DEF Pending, Runs, Retriggers, Behind
<1>2. ASSUME NEW a \in Apps, FeederNext(a) PROVE Pending(n, p)'
  <2>1. CASE FeedBegin(a)
    BY <1>1, <2>1 DEF FeedBegin, pipe_vars
  <2>2. CASE Feed(a)
    <3>1. PICK r \in held[Param0] : EnqueueReady(Param0, r, a)
      BY <2>2 DEF Feed
    <3>2. /\ outbox[a] = <<>> /\ UNCHANGED <<job_q, next_blocked, task>>
          /\ a \in Threads /\ Param0 \in UserData
      BY <2>2, GraphAssumption DEF Feed, Threads
    <3> QED BY <3>1, <3>2, EnqueuePending
  <2>3. CASE FeedSchedule(a)
    <3>1. /\ app[a].n \in Nat /\ OwnGraphScheduleGraph(app[a].n) /\ HeadNodesSent(app[a].n)
          /\ UNCHANGED <<host_q, task, outbox, next_blocked, blocked_nodes>>
      BY <2>3 DEF PipeTypes, SchedulerTypes, AppStates, FeedSchedule, AppSchedule
    <3> QED BY <3>1, StartedPending
  <2> QED BY <1>2, <2>1, <2>2, <2>3 DEF FeederNext
<1>3. ASSUME NEW d \in UserData, UserNext(d) PROVE Pending(n, p)'
  <2>1. CASE Replenish(d)
    <3>1. PICK r \in held[d] : EnqueueReady(d, r, d)
      BY <2>1 DEF Replenish
    <3>2. outbox[d] = <<>> /\ UNCHANGED <<job_q, next_blocked, task>> /\ d \in Threads
      BY <2>1 DEF Replenish, Threads
    <3> QED BY <3>1, <3>2, EnqueuePending
  <2>2. CASE DequeueDoneRef(d) \/ DequeuerWoken(d)
    BY <1>1, <2>2 DEF DequeueDoneRef, DequeuerWoken
  <2> QED BY <1>3, <2>1, <2>2 DEF UserNext
<1>4. ASSUME NEW t \in Targets, TargetNext(t) PROVE Pending(n, p)'
  BY <1>4, TargetPending
<1>5. ASSUME NEW th \in Threads, SendNext(th) PROVE Pending(n, p)'
  BY <1>5, SendPending
<1>6. ASSUME HostTaskNext PROVE Pending(n, p)'
  <2>1. CASE RefConsumed \/ HostCompletion
    BY <1>1, <2>1 DEF RefConsumed, HostCompletion, pipe_vars
  <2>2. CASE HostRestart
    <3>1. /\ host.schedule_count \in Nat /\ OwnGraphScheduleGraph(host.schedule_count)
          /\ HeadNodesSent(host.schedule_count)
          /\ UNCHANGED <<host_q, task, outbox, next_blocked, blocked_nodes>>
      BY <2>2 DEF PipeTypes, SchedulerTypes, HostStates, HostRestart, HostReschedule
    <3> QED BY <3>1, StartedPending
  <2> QED BY <1>6, <2>1, <2>2 DEF HostTaskNext
<1> QED BY <1>2, <1>3, <1>4, <1>5, <1>6 DEF PipeNext

\* A node that is parked after a step was parked before it, or has been parked by its
\* target's task, behind the previous instance or on an empty queue.
LEMMA BlockedNext ==
  ASSUME PipeTypes, OwnTargets, PipeNext, NEW n \in Nodes, NEW p \in Pipes,
         node_state'[n][p] = "BLOCKED",
         node_state[n][p] = "BLOCKED" => n \notin executed[p]
  PROVE  /\ n \notin executed'[p]
         /\ node_state[n][p] = "BLOCKED" \/ Pending(n, p)'
<1>0. /\ executed \in [Pipes -> SUBSET Nodes]
      /\ node_state \in [Nodes -> [Pipes -> {"IDLE", "BLOCKED"}]]
      /\ \A t \in Targets : OwnTask(t)
      /\ SchedulerTypes
  BY DEF PipeTypes, SchedulerTypes, NodeTypes, OwnTargets
<1> DEFINE Goal == /\ n \notin executed'[p]
                   /\ node_state[n][p] = "BLOCKED" \/ Pending(n, p)'
<1>1. ASSUME UNCHANGED node_state, UNCHANGED executed PROVE Goal
  BY <1>1
<1>2. ASSUME NEW num \in Nat, OwnGraphScheduleGraph(num), UNCHANGED node_state PROVE Goal
  <2>1. executed'[p] = {} \/ executed'[p] = executed[p]
    BY <1>0, <1>2, StartedExecuted
  <2> QED BY <1>2, <2>1
<1>3. ASSUME NEW a \in Apps, FeederNext(a) PROVE Goal
  <2>1. CASE FeedBegin(a)
    BY <1>1, <2>1 DEF FeedBegin, VxEnqueueReadyRef, sched_vars, pipe_vars
  <2>2. CASE Feed(a)
    BY <1>1, <2>2 DEF Feed, EnqueueRef, sched_vars
  <2>3. CASE FeedSchedule(a)
    <3>1. app[a].n \in Nat /\ OwnGraphScheduleGraph(app[a].n) /\ UNCHANGED node_state
      BY <1>0, <2>3 DEF SchedulerTypes, AppStates, FeedSchedule, AppSchedule
    <3> QED BY <1>2, <3>1
  <2> QED BY <1>3, <2>1, <2>2, <2>3 DEF FeederNext
<1>4. ASSUME NEW d \in UserData, UserNext(d) PROVE Goal
  BY <1>1, <1>4 DEF UserNext, Replenish, DequeueDoneRef, DequeuerWoken, vars, sched_vars
<1>5. ASSUME NEW t \in Targets, TargetNext(t) PROVE Goal
  <2>1. CASE FetchNode(t)
    <3>1. PICK m \in Nodes, q \in Pipes :
             /\ \/ UNCHANGED node_state
                \/ /\ m \notin executed[q]
                   /\ node_state' = [node_state EXCEPT ![m][q] = "BLOCKED"]
                   /\ next_blocked' = next_blocked \cup {<<m, PrevPipe(q)>>}
                \/ node_state' = [node_state EXCEPT ![m][q] = "IDLE"]
             /\ UNCHANGED executed
      BY <2>1, FetchNodeEffect DEF vars, sched_vars
    <3>2. CASE UNCHANGED node_state
      BY <1>1, <3>1, <3>2
    <3>3. CASE /\ m \notin executed[q]
               /\ node_state' = [node_state EXCEPT ![m][q] = "BLOCKED"]
               /\ next_blocked' = next_blocked \cup {<<m, PrevPipe(q)>>}
      <4>1. CASE m = n /\ q = p
        <5>1. Behind(n, p)'
          BY <3>3, <4>1 DEF Behind
        <5> QED BY <3>1, <3>3, <4>1, <5>1 DEF Pending
      <4>2. CASE ~(m = n /\ q = p)
        BY <1>0, <3>1, <3>3, <4>2
      <4> QED BY <4>1, <4>2
    <3>4. CASE node_state' = [node_state EXCEPT ![m][q] = "IDLE"]
      BY <1>0, <3>1, <3>4
    <3> QED BY <3>1, <3>2, <3>3, <3>4
  <2>2. CASE AcquireParameter(t)
    <3>1. /\ task[t].pc = "acquire" /\ CurrentData(t) \in Data
          /\ task[t].node \in Nodes /\ task[t].pipe \in Pipes
          /\ Proceeds(t) \/ Parks(t)
      BY <2>2, AcquireParameterEffect DEF sched_vars
    <3>2. UNCHANGED executed
      BY <2>2, AcquireParameterEffect DEF sched_vars
    <3>3. CASE Proceeds(t)
      BY <1>1, <3>2, <3>3 DEF Proceeds
    <3>4. CASE Parks(t)
      <4> DEFINE d == CurrentData(t)
      <4>1. /\ d \in Data
            /\ node_state' = [node_state EXCEPT ![task[t].node][task[t].pipe] = "BLOCKED"]
            /\ blocked_nodes' = [blocked_nodes EXCEPT ![d] =
                                   Append(blocked_nodes[d], <<task[t].node, task[t].pipe>>)]
            /\ blocked_nodes \in [Data -> Seq(Nodes \X Pipes)]
        BY <3>1, <3>4 DEF Parks, PipeTypes, QueueTypes
      <4>2. task[t].node \notin executed[task[t].pipe]
        BY <1>0, <3>1 DEF OwnTask
      <4>3. CASE task[t].node = n /\ task[t].pipe = p
        <5>1. /\ blocked_nodes[d] \in Seq(Nodes \X Pipes) /\ <<n, p>> \in Nodes \X Pipes
              /\ blocked_nodes'[d] = Append(blocked_nodes[d], <<n, p>>)
          <6> HIDE DEF d
          <6> QED BY <4>1, <4>3
        <5>2. \A a : IsIn(a, Append(blocked_nodes[d], <<n, p>>))
                     <=> IsIn(a, blocked_nodes[d]) \/ a = <<n, p>>
          <6> HIDE DEF d
          <6> QED BY <5>1, AppendKeeps
        <5>3. IsIn(<<n, p>>, blocked_nodes'[d])
          BY <5>1, <5>2
        <5> QED BY <3>2, <4>1, <4>2, <4>3, <5>3 DEF Pending
      <4>4. CASE ~(task[t].node = n /\ task[t].pipe = p)
        BY <1>0, <3>1, <3>2, <4>1, <4>4
      <4> QED BY <4>3, <4>4
    <3> QED BY <3>1, <3>3, <3>4
  <2>3. CASE ExecuteNode(t)
    <3>1. /\ executed' = [executed EXCEPT ![task[t].pipe] = @ \cup {task[t].node}]
          /\ node_state' = [node_state EXCEPT ![task[t].node][task[t].pipe] = "IDLE"]
          /\ task[t].node \in Nodes /\ task[t].pipe \in Pipes
      BY <2>3, TaskTypes DEF ExecuteNode
    <3> QED BY <1>0, <3>1
  <2>4. CASE ReleaseParameter(t) \/ SendComplete(t) \/ TriggerNextNode(t)
    <3>1. UNCHANGED node_state /\ UNCHANGED executed
      BY <2>4, AfterRunning DEF sched_vars
    <3> QED BY <1>1, <3>1
  <2>5. CASE TriggerNextPipe(t)
    BY <1>1, <2>5 DEF TriggerNextPipe, vars, sched_vars
  <2> QED BY <1>5, <2>1, <2>2, <2>3, <2>4, <2>5 DEF TargetNext
<1>6. ASSUME NEW th \in Threads, SendNext(th) PROVE Goal
  BY <1>1, <1>6 DEF SendNext, sched_vars
<1>7. ASSUME HostTaskNext PROVE Goal
  <2>1. CASE RefConsumed \/ HostCompletion
    <3>1. UNCHANGED node_state /\ UNCHANGED executed
      BY <2>1 DEF RefConsumed, HostCompletion, HostTake, LeafCompleted, GraphCompleted,
                  HostAction, sched_vars, pipe_vars
    <3> QED BY <1>1, <3>1
  <2>2. CASE HostRestart
    <3>1. /\ host.schedule_count \in Nat /\ OwnGraphScheduleGraph(host.schedule_count)
          /\ UNCHANGED node_state
      BY <1>0, <2>2 DEF SchedulerTypes, HostStates, HostRestart, HostReschedule
    <3> QED BY <1>2, <3>1
  <2> QED BY <1>7, <2>1, <2>2 DEF HostTaskNext
<1> QED BY <1>3, <1>4, <1>5, <1>6, <1>7 DEF PipeNext

\* No step puts a node on the list of a queue that is not empty.
LEMMA QueuesNext ==
  ASSUME PipeTypes, ParkedOnEmpty, PipeNext
  PROVE  ParkedOnEmpty'
<1>0. /\ acquire_q \in [Data -> Seq(Nat)]
      /\ blocked_nodes \in [Data -> Seq(Nodes \X Pipes)]
  BY DEF PipeTypes, QueueTypes
<1>1. ASSUME UNCHANGED <<acquire_q, blocked_nodes>> PROVE ParkedOnEmpty'
  BY <1>1 DEF ParkedOnEmpty
<1>2. ASSUME NEW d \in Data, NEW q, acquire_q' = [acquire_q EXCEPT ![d] = q],
             blocked_nodes' = [blocked_nodes EXCEPT ![d] = <<>>]
      PROVE  ParkedOnEmpty'
  BY <1>0, <1>2 DEF ParkedOnEmpty
<1>3. ASSUME NEW d \in UserData, NEW r \in held[d], NEW th \in Threads, outbox[th] = <<>>,
             EnqueueReady(d, r, th)
      PROVE  ParkedOnEmpty'
  <2>1. /\ d \in Data /\ blocked_nodes' = [blocked_nodes EXCEPT ![d] = <<>>]
        /\ acquire_q' = [acquire_q EXCEPT ![d] = Append(acquire_q[d], r)]
    BY <1>3, EnqueueReadyEffect
  <2> QED BY <1>2, <2>1
<1>4. ASSUME NEW a \in Apps, FeederNext(a) PROVE ParkedOnEmpty'
  <2>1. CASE FeedBegin(a) \/ FeedSchedule(a)
    BY <1>1, <2>1 DEF FeedBegin, FeedSchedule, pipe_vars
  <2>2. CASE Feed(a)
    <3>1. PICK r \in held[Param0] : EnqueueReady(Param0, r, a)
      BY <2>2 DEF Feed
    <3>2. outbox[a] = <<>> /\ a \in Threads /\ Param0 \in UserData
      BY <2>2, GraphAssumption DEF Feed, Threads
    <3> QED BY <1>3, <3>1, <3>2
  <2> QED BY <1>4, <2>1, <2>2 DEF FeederNext
<1>5. ASSUME NEW d \in UserData, UserNext(d) PROVE ParkedOnEmpty'
  <2>1. CASE Replenish(d)
    <3>1. PICK r \in held[d] : EnqueueReady(d, r, d)
      BY <2>1 DEF Replenish
    <3>2. outbox[d] = <<>> /\ d \in Threads
      BY <2>1 DEF Replenish, Threads
    <3> QED BY <1>3, <3>1, <3>2
  <2>2. CASE DequeueDoneRef(d) \/ DequeuerWoken(d)
    BY <1>1, <2>2 DEF DequeueDoneRef, DequeuerWoken
  <2> QED BY <1>5, <2>1, <2>2 DEF UserNext
<1>6. ASSUME NEW t \in Targets, TargetNext(t) PROVE ParkedOnEmpty'
  <2>1. CASE AcquireParameter(t)
    <3> DEFINE d == CurrentData(t)
    <3>1. d \in Data /\ (Proceeds(t) \/ Parks(t))
      BY <2>1, AcquireParameterEffect
    <3>2. CASE Proceeds(t)
      <4>1. /\ UNCHANGED blocked_nodes
            /\ \/ acquire_q' = acquire_q
               \/ /\ acquire_q[d] # <<>>
                  /\ acquire_q' = [acquire_q EXCEPT ![d] = Tail(acquire_q[d])]
        BY <3>2 DEF Proceeds
      <4> HIDE DEF d
      <4> QED BY <1>0, <3>1, <4>1 DEF ParkedOnEmpty
    <3>3. CASE Parks(t)
      <4>1. /\ acquire_q[d] = <<>> /\ UNCHANGED acquire_q
            /\ \E q : blocked_nodes' = [blocked_nodes EXCEPT ![d] = q]
        BY <3>3 DEF Parks
      <4> HIDE DEF d
      <4> QED BY <1>0, <3>1, <4>1 DEF ParkedOnEmpty
    <3> QED BY <3>1, <3>2, <3>3
  <2>2. CASE ReleaseParameter(t)
    <3> DEFINE d == CurrentData(t)
    <3>1. \/ UNCHANGED <<acquire_q, blocked_nodes>>
          \/ /\ blocked_nodes' = [blocked_nodes EXCEPT ![d] = <<>>]
             /\ \E q : acquire_q' = [acquire_q EXCEPT ![d] = q]
      BY <2>2, ReleaseParameterEffect
    <3>2. d \in Data
      BY <2>2, TaskTypes DEF ReleaseParameter
    <3> HIDE DEF d
    <3> QED BY <1>1, <1>2, <3>1, <3>2
  <2>3. CASE FetchNode(t) \/ ExecuteNode(t) \/ SendComplete(t)
             \/ TriggerNextNode(t) \/ TriggerNextPipe(t)
    BY <1>1, <2>3 DEF FetchNode, ExecuteNode, SendComplete, TriggerNextNode, TriggerNextPipe
  <2> QED BY <1>6, <2>1, <2>2, <2>3 DEF TargetNext
<1>7. ASSUME NEW th \in Threads, SendNext(th) PROVE ParkedOnEmpty'
  BY <1>1, <1>7 DEF SendNext
<1>8. ASSUME HostTaskNext PROVE ParkedOnEmpty'
  BY <1>1, <1>8 DEF HostTaskNext, RefConsumed, HostCompletion, HostRestart, pipe_vars
<1> QED BY <1>4, <1>5, <1>6, <1>7, <1>8 DEF PipeNext

LEMMA AwakeNext ==
  ASSUME PipeTypes, OwnTargets, JobQueuesHaveRoom, NodesAwake, [PipeNext]_all_vars
  PROVE  NodesAwake'
<1>1. CASE UNCHANGED all_vars
  BY <1>1 DEF NodesAwake, ParkedOnEmpty, Pending, Runs, Retriggers, Behind, all_vars, vars,
              sched_vars, pipe_vars
<1>2. CASE PipeNext
  <2>1. ASSUME NEW n \in Nodes, NEW p \in Pipes, node_state'[n][p] = "BLOCKED"
        PROVE  n \notin executed'[p] /\ Pending(n, p)'
    <3>1. node_state[n][p] = "BLOCKED" => n \notin executed[p] /\ Pending(n, p)
      BY DEF NodesAwake
    <3>2. n \notin executed'[p] /\ (node_state[n][p] = "BLOCKED" \/ Pending(n, p)')
      BY <1>2, <2>1, <3>1, BlockedNext
    <3> QED BY <1>2, <3>1, <3>2, NextPending
  <2>2. ParkedOnEmpty'
    BY <1>2, QueuesNext DEF NodesAwake
  <2> QED BY <2>1, <2>2 DEF NodesAwake
<1> QED BY <1>1, <1>2

\* What is pending is in one of the places that Triggers lists.
LEMMA PendingTriggers ==
  ASSUME PipeTypes, OwnTargets, NEW n \in Nodes, NEW p \in Pipes, Pending(n, p)
  PROVE  Triggers(n, p) # {}
<1>1. /\ \A t \in Targets : DOMAIN job_q[t] = 1 .. Len(job_q[t])
      /\ \A d \in Data : DOMAIN blocked_nodes[d] = 1 .. Len(blocked_nodes[d])
      /\ \A th \in Threads : DOMAIN outbox[th] = 1 .. Len(outbox[th])
      /\ TargetOf[n] \in Targets /\ PrevPipe(p) \in Pipes
  BY LenProperties, PrevPipeFacts, PipelineAssumption, NodesAssumption DEF PipeTypes, MessageTypes, QueueTypes
<1>2. ASSUME NEW t \in Targets, IsIn(<<n, p>>, job_q[t]) PROVE QueuedAt(n, p) # {}
  <2>1. t = TargetOf[n]
    BY <1>2 DEF OwnTargets, OwnJobs
  <2>2. PICK i \in 1 .. Len(job_q[t]) : job_q[t][i] = <<n, p>>
    BY <1>2 DEF IsIn
  <2>3. <<"queued", TargetOf[n], i>> \in QueuedAt(n, p)
    BY <1>1, <2>1, <2>2 DEF QueuedAt, Indices
  <2> QED BY <2>3
<1>3. ASSUME NEW t \in Targets, Runs(t, n, p) PROVE RunAt(n, p) # {}
  BY <1>3 DEF Runs, RunAt
<1>4. ASSUME NEW t \in Targets, Retriggers(t, n, p) PROVE RetriggeredAt(n, p) # {}
  BY <1>4 DEF Retriggers, RetriggeredAt
<1>5. ASSUME NEW d \in Data, IsIn(<<n, p>>, blocked_nodes[d]) PROVE ParkedAt(n, p) # {}
  <2>1. PICK i \in 1 .. Len(blocked_nodes[d]) : blocked_nodes[d][i] = <<n, p>>
    BY <1>5 DEF IsIn
  <2>2. <<"parked", d, i>> \in ParkedAt(n, p)
    BY <1>1, <2>1 DEF ParkedAt, Indices
  <2> QED BY <2>2
<1>6. ASSUME NEW th \in Threads, IsIn(ToNode(n, p), outbox[th]) PROVE SentAt(n, p) # {}
  <2>1. PICK i \in 1 .. Len(outbox[th]) : outbox[th][i] = ToNode(n, p)
    BY <1>6 DEF IsIn
  <2>2. <<"sent", th, i>> \in SentAt(n, p)
    BY <1>1, <2>1 DEF SentAt, Indices
  <2> QED BY <2>2
<1>7. ASSUME Behind(n, p) PROVE BehindAt(n, p) # {}
  BY <1>7 DEF Behind, BehindAt
<1> QED BY <1>2, <1>3, <1>4, <1>5, <1>6, <1>7 DEF Pending, Triggers

\* As long as no target's job queue fills up, a parked node is never forgotten,
\* whatever the graph, the depth and the lengths of the lists of parked nodes: it is on
\* the list of a queue that is empty, waits behind the previous instance, or is on its
\* way to its target (tivxTargetNodeDescAcquireParameter,
\* ownTargetNodeDescIsPrevPipeNodeBlocked and their wake-ups).
THEOREM ParkedAreWoken == PipeSpec /\ []JobQueuesHaveRoom => []ParkedIsWoken
<1>1. PipeInit => NodesAwake
  BY DEF PipeInit, NodesAwake, ParkedOnEmpty
<1>2. PipeTypes /\ OwnTargets /\ JobQueuesHaveRoom /\ NodesAwake /\ [PipeNext]_all_vars
      => NodesAwake'
  BY AwakeNext
<1>3. PipeTypes /\ OwnTargets /\ NodesAwake => ParkedIsWoken
  BY PendingTriggers DEF NodesAwake, ParkedOnEmpty, ParkedIsWoken
<1> QED BY <1>1, <1>2, <1>3, PipeTypesInvariance, OwnInvariance, PTL DEF PipeSpec

-----------------------------------------------------------------------------
\* No node is sent twice.

\* Node n of instance p is nowhere but at place y.
Only(y, n, p) ==
    /\ \A t \in Targets : /\ IsIn(<<n, p>>, job_q[t]) => y = <<"job", t>>
                          /\ Runs(t, n, p) => y = <<"run", t>>
                          /\ Retriggers(t, n, p) => y = <<"again", t>>
    /\ \A d \in Data : IsIn(<<n, p>>, blocked_nodes[d]) => y = <<"parked", d>>
    /\ \A th \in Threads : IsIn(ToNode(n, p), outbox[th]) => y = <<"sent", th>>
    /\ Behind(n, p) => y = <<"behind">>
Single(n, p) == \E y : Only(y, n, p)
Once == \A n \in Nodes, p \in Pipes : Single(n, p)

DistinctQueues ==
    /\ \A t \in Targets : Distinct(job_q[t])
    /\ \A d \in Data : Distinct(blocked_nodes[d])
    /\ \A th \in Threads : Distinct(outbox[th])

\* What a step that starts no node does to each: a node that is pending after the step
\* was pending before it, and is still in one place.
StillOnce(n, p) == Pending(n, p)' => Pending(n, p) /\ Single(n, p)'

\* The step puts the node nowhere where it was not.
LEMMA KeptOnce ==
  ASSUME NEW n \in Nodes, NEW p \in Pipes, Single(n, p),
         \A t \in Targets : IsIn(<<n, p>>, job_q'[t]) => IsIn(<<n, p>>, job_q[t]),
         \A t \in Targets : Runs(t, n, p)' => Runs(t, n, p),
         \A t \in Targets : Retriggers(t, n, p)' => Retriggers(t, n, p),
         \A d \in Data : IsIn(<<n, p>>, blocked_nodes'[d]) => IsIn(<<n, p>>, blocked_nodes[d]),
         \A th \in Threads : IsIn(ToNode(n, p), outbox'[th]) => IsIn(ToNode(n, p), outbox[th]),
         Behind(n, p)' => Behind(n, p)
  PROVE  StillOnce(n, p)
<1>1. Pending(n, p)' => Pending(n, p)
  BY DEF Pending
<1>2. PICK y : Only(y, n, p)
  BY DEF Single
<1>3. Only(y, n, p)'
  BY <1>2 DEF Only
<1>4. Single(n, p)'
  BY <1>3 DEF Single
<1> QED BY <1>1, <1>4 DEF StillOnce

\* What is left of a queue, in which nothing is twice, when its first element is taken.
LEMMA TailOnce ==
  ASSUME NEW S, NEW q \in Seq(S), q # <<>>, Distinct(q)
  PROVE  /\ Distinct(Tail(q)) /\ IsIn(Head(q), q)
         /\ \A a : IsIn(a, Tail(q)) <=> IsIn(a, q) /\ a # Head(q)
<1>1. /\ Head(q) \in S /\ Tail(q) \in Seq(S) /\ Len(Tail(q)) = Len(q) - 1
      /\ Len(q) \in Nat \ {0} /\ Head(q) = q[1]
      /\ \A i \in 1 .. Len(Tail(q)) : i + 1 \in 1 .. Len(q) /\ Tail(q)[i] = q[i + 1]
      /\ \A a : IsIn(a, Tail(q)) <=> IsIn(a, q) /\ a # Head(q)
      /\ Distinct(Tail(q))
  BY TailIsIn, Zenon
<1>2. IsIn(Head(q), q)
  BY FromTail
<1> QED BY <1>1, <1>2

\* A queue gets a job that it does not hold.
LEMMA PutOnce ==
  ASSUME NEW S, NEW q \in Seq(S), NEW job \in S, Len(q) <= MaxJobs, Distinct(q),
         ~IsIn(job, q)
  PROVE  /\ Distinct(Put(q, <<job>>))
         /\ \A a : IsIn(a, Put(q, <<job>>)) => IsIn(a, q) \/ a = job
<1>1. CASE Len(q) < MaxJobs
  <2>1. Put(q, <<job>>) = Append(q, job)
    BY <1>1, PutOne
  <2>2. \A a : IsIn(a, Append(q, job)) <=> IsIn(a, q) \/ a = job
    BY AppendKeeps
  <2>3. /\ Append(q, job) \in Seq(S) /\ Len(Append(q, job)) = Len(q) + 1
        /\ \A i \in 1 .. Len(q) : Append(q, job)[i] = q[i]
        /\ Append(q, job)[Len(q) + 1] = job
        /\ \A a : IsIn(a, Append(q, job)) <=> IsIn(a, q) \/ a = job
        /\ Distinct(q) /\ ~IsIn(job, q) => Distinct(Append(q, job))
    BY AppendIsIn, Zenon
  <2> QED BY <2>1, <2>2, <2>3
<1>2. CASE Len(q) = MaxJobs
  <2>1. Put(q, <<job>>) = q
    BY <1>2, PutOne
  <2> QED BY <2>1
<1> QED BY <1>1, <1>2, PipelineAssumption, LenProperties

\* A queue gets several jobs that it does not hold.
LEMMA PutAllOnce ==
  ASSUME NEW S, NEW q \in Seq(S), NEW jobs \in Seq(S), Len(q) <= MaxJobs, Distinct(q),
         Distinct(jobs), \A a : ~(IsIn(a, q) /\ IsIn(a, jobs))
  PROVE  Distinct(Put(q, jobs))
<1> DEFINE new == Put(q, jobs)
<1>1. /\ new \in Seq(S) /\ Len(new) \in Nat
      /\ Len(new) = IF Len(q) + Len(jobs) <= MaxJobs
                    THEN Len(q) + Len(jobs) ELSE MaxJobs
      /\ \A i \in 1 .. Len(new) :
              /\ i <= Len(q) => new[i] = q[i]
              /\ i > Len(q) => /\ i - Len(q) \in 1 .. Len(jobs)
                               /\ new[i] = jobs[i - Len(q)]
  BY PutProperties, Zenon
<1>2. Len(q) \in Nat /\ Len(jobs) \in Nat
  BY LenProperties
<1> HIDE DEF new
<1>3. ASSUME NEW i \in 1 .. Len(new), NEW j \in 1 .. Len(new), new[i] = new[j] PROVE i = j
  <2>1. CASE i <= Len(q) /\ j <= Len(q)
    <3>1. i \in 1 .. Len(q) /\ j \in 1 .. Len(q) /\ q[i] = q[j]
      BY <1>1, <1>2, <1>3, <2>1
    <3> QED BY <3>1 DEF Distinct
  <2>2. CASE i > Len(q) /\ j > Len(q)
    <3>1. /\ i - Len(q) \in 1 .. Len(jobs) /\ j - Len(q) \in 1 .. Len(jobs)
          /\ jobs[i - Len(q)] = jobs[j - Len(q)]
      BY <1>1, <1>3, <2>2
    <3>2. i - Len(q) = j - Len(q)
      BY <3>1 DEF Distinct
    <3> QED BY <1>2, <3>2
  <2>3. ASSUME NEW k \in 1 .. Len(new), NEW l \in 1 .. Len(new), k <= Len(q), l > Len(q)
        PROVE  new[k] # new[l]
    <3>1. k \in 1 .. Len(q) /\ new[k] = q[k] /\ IsIn(new[k], q)
      BY <1>1, <1>2, <2>3 DEF IsIn
    <3>2. IsIn(new[l], jobs)
      BY <1>1, <2>3 DEF IsIn
    <3> QED BY <3>1, <3>2
  <2> QED BY <1>2, <1>3, <2>1, <2>2, <2>3
<1> QED BY <1>3 DEF Distinct, new

LEMMA WokenOnce ==
  ASSUME PipeTypes, NEW d \in Data, Distinct(blocked_nodes[d])
  PROVE  Distinct(Woken(d))
<1>1. /\ Len(Woken(d)) = Len(blocked_nodes[d])
      /\ \A i \in 1 .. Len(Woken(d)) :
           /\ blocked_nodes[d][i] \in Nodes \X Pipes
           /\ Woken(d)[i] = ToNode(blocked_nodes[d][i][1], blocked_nodes[d][i][2])
  BY WokenType DEF PipeTypes
<1>2. ASSUME NEW i \in 1 .. Len(Woken(d)) PROVE Woken(d)[i].item = blocked_nodes[d][i]
  <2>1. PICK n \in Nodes, p \in Pipes : blocked_nodes[d][i] = <<n, p>>
    BY <1>1
  <2>2. Woken(d)[i] = ToNode(n, p)
    BY <1>1, <2>1
  <2> QED BY <2>1, <2>2 DEF ToNode
<1>3. \A i, j \in 1 .. Len(Woken(d)) : Woken(d)[i] = Woken(d)[j] => i = j
  <2> SUFFICES ASSUME NEW i \in 1 .. Len(Woken(d)), NEW j \in 1 .. Len(Woken(d)),
                      Woken(d)[i] = Woken(d)[j]
               PROVE  i = j
    OBVIOUS
  <2>1. blocked_nodes[d][i] = blocked_nodes[d][j]
    BY <1>2
  <2> QED BY <1>1, <2>1 DEF Distinct
<1> QED BY <1>3 DEF Distinct

\* Waking the nodes parked on a queue moves them to an outbox.
LEMMA WokenStillOnce ==
  ASSUME PipeTypes, NEW n \in Nodes, NEW p \in Pipes, Single(n, p),
         NEW d \in Data, NEW th \in Threads, outbox[th] = <<>>,
         outbox' = [outbox EXCEPT ![th] = Woken(d)],
         blocked_nodes' = [blocked_nodes EXCEPT ![d] = <<>>],
         UNCHANGED <<job_q, next_blocked>>,
         \A t \in Targets : Runs(t, n, p)' => Runs(t, n, p),
         \A t \in Targets : Retriggers(t, n, p)' => Retriggers(t, n, p)
  PROVE  StillOnce(n, p)
<1>1. /\ outbox \in [Threads -> Seq(Messages)] /\ blocked_nodes \in [Data -> Seq(Nodes \X Pipes)]
      /\ \A a : ~IsIn(a, <<>>)
  BY DEF PipeTypes, MessageTypes, QueueTypes, IsIn
<1>2. IsIn(ToNode(n, p), Woken(d)) => IsIn(<<n, p>>, blocked_nodes[d])
  <2> SUFFICES ASSUME IsIn(ToNode(n, p), Woken(d)) PROVE IsIn(<<n, p>>, blocked_nodes[d])
    OBVIOUS
  <2>1. PICK m \in Nodes, q \in Pipes : /\ ToNode(n, p) = ToNode(m, q)
                                        /\ IsIn(<<m, q>>, blocked_nodes[d])
    BY WokenNodes
  <2>2. ToNode(n, p).item = <<n, p>> /\ ToNode(m, q).item = <<m, q>>
    BY MessageFacts
  <2> QED BY <2>1, <2>2
<1>3. \A u \in Threads \ {th} : outbox'[u] = outbox[u]
  BY <1>1
<1>4. outbox'[th] = Woken(d) /\ blocked_nodes'[d] = <<>>
  BY <1>1
<1>5. \A e \in Data \ {d} : blocked_nodes'[e] = blocked_nodes[e]
  BY <1>1
<1>6. CASE IsIn(<<n, p>>, blocked_nodes[d])
  <2>1. PICK y : Only(y, n, p)
    BY DEF Single
  <2>2. y = <<"parked", d>>
    BY <1>6, <2>1 DEF Only
  <2>3. Only(<<"sent", th>>, n, p)'
    <3>1. \A t \in Targets : /\ ~IsIn(<<n, p>>, job_q[t]) /\ ~Runs(t, n, p)
                             /\ ~Retriggers(t, n, p)
      BY <2>1, <2>2 DEF Only
    <3>2. \A e \in Data \ {d} : ~IsIn(<<n, p>>, blocked_nodes[e])
      BY <2>1, <2>2 DEF Only
    <3>3. (\A u \in Threads : ~IsIn(ToNode(n, p), outbox[u])) /\ ~Behind(n, p)
      BY <2>1, <2>2 DEF Only
    <3> QED BY <1>1, <1>3, <1>4, <1>5, <3>1, <3>2, <3>3 DEF Only, Behind
  <2>4. Single(n, p)' /\ Pending(n, p)
    BY <1>6, <2>3 DEF Single, Pending
  <2> QED BY <2>4 DEF StillOnce
<1>7. CASE ~IsIn(<<n, p>>, blocked_nodes[d])
  <2>1. \A e \in Data : IsIn(<<n, p>>, blocked_nodes'[e]) => IsIn(<<n, p>>, blocked_nodes[e])
    BY <1>1, <1>4, <1>5
  <2>2. \A u \in Threads : IsIn(ToNode(n, p), outbox'[u]) => IsIn(ToNode(n, p), outbox[u])
    BY <1>2, <1>3, <1>4, <1>7
  <2>3. Behind(n, p)' => Behind(n, p)
    BY DEF Behind
  <2>4. \A t \in Targets : IsIn(<<n, p>>, job_q'[t]) => IsIn(<<n, p>>, job_q[t])
    OBVIOUS
  <2> QED BY <2>1, <2>2, <2>3, <2>4, KeptOnce
<1> QED BY <1>6, <1>7

\* The woken nodes' queues hold nothing twice.
LEMMA WokenDistinct ==
  ASSUME PipeTypes, DistinctQueues, NEW d \in Data, NEW th \in Threads,
         outbox' = [outbox EXCEPT ![th] = Woken(d)],
         blocked_nodes' = [blocked_nodes EXCEPT ![d] = <<>>], UNCHANGED job_q
  PROVE  DistinctQueues'
<1>1. /\ outbox \in [Threads -> Seq(Messages)] /\ blocked_nodes \in [Data -> Seq(Nodes \X Pipes)]
      /\ Distinct(<<>>) /\ Distinct(Woken(d))
  <2>1. Distinct(blocked_nodes[d])
    BY DEF DistinctQueues
  <2>2. Distinct(Woken(d))
    BY <2>1, WokenOnce
  <2>3. Distinct(<<>>)
    BY DEF Distinct
  <2> QED BY <2>2, <2>3 DEF PipeTypes, MessageTypes, QueueTypes
<1>2. \A u \in Threads : Distinct(outbox'[u])
  BY <1>1 DEF DistinctQueues
<1>3. \A e \in Data : Distinct(blocked_nodes'[e])
  BY <1>1 DEF DistinctQueues
<1> QED BY <1>2, <1>3 DEF DistinctQueues

\* A message that is sent moves to the job queue of its target.
LEMMA SendStillOnce ==
  ASSUME PipeTypes, OwnTargets, DistinctQueues, Once, NEW th \in Threads, SendNext(th)
  PROVE  /\ DistinctQueues'
         /\ \A n \in Nodes, p \in Pipes : StillOnce(n, p)
<1> DEFINE msg == Head(outbox[th])
<1>1. /\ outbox \in [Threads -> Seq(Messages)] /\ outbox[th] # <<>> /\ msg \in Messages
      /\ job_q \in [Targets -> Seq(Nodes \X Pipes)] /\ \A t \in Targets : Len(job_q[t]) <= MaxJobs
      /\ outbox' = [outbox EXCEPT ![th] = Tail(outbox[th])]
      /\ UNCHANGED <<task, next_blocked, blocked_nodes>>
      /\ msg.to = "host" => UNCHANGED job_q
      /\ msg.to # "host" =>
           job_q' = [job_q EXCEPT ![msg.to] = Put(job_q[msg.to], <<msg.item>>)]
  BY HeadTailProperties DEF PipeTypes, MessageTypes, SendNext
<1>2. /\ Distinct(Tail(outbox[th])) /\ IsIn(msg, outbox[th])
      /\ \A a : IsIn(a, Tail(outbox[th])) <=> IsIn(a, outbox[th]) /\ a # msg
  BY <1>1, TailOnce DEF DistinctQueues
<1>3. \A u \in Threads : Distinct(outbox'[u])
  <2>1. outbox'[th] = Tail(outbox[th]) /\ \A u \in Threads \ {th} : outbox'[u] = outbox[u]
    BY <1>1
  <2> HIDE DEF msg
  <2> QED BY <1>2, <2>1 DEF DistinctQueues
<1>4. ASSUME NEW n \in Nodes, NEW p \in Pipes
      PROVE  /\ \A t \in Targets : Runs(t, n, p)' => Runs(t, n, p)
             /\ \A t \in Targets : Retriggers(t, n, p)' => Retriggers(t, n, p)
             /\ \A d \in Data : IsIn(<<n, p>>, blocked_nodes'[d]) => IsIn(<<n, p>>, blocked_nodes[d])
             /\ \A u \in Threads : IsIn(ToNode(n, p), outbox'[u]) => IsIn(ToNode(n, p), outbox[u])
             /\ Behind(n, p)' => Behind(n, p)
             /\ Single(n, p)
  <2>1. \A u \in Threads : IsIn(ToNode(n, p), outbox'[u]) => IsIn(ToNode(n, p), outbox[u])
    <3> HIDE DEF msg
    <3> QED BY <1>1, <1>2
  <2>2. UNCHANGED <<task, next_blocked, blocked_nodes>>
    BY <1>1
  <2> QED BY <2>1, <2>2 DEF Runs, Retriggers, Behind, Once
<1>5. CASE msg.to = "host"
  <2>1. ASSUME NEW n \in Nodes, NEW p \in Pipes PROVE StillOnce(n, p)
    <3>1. \A t \in Targets : IsIn(<<n, p>>, job_q'[t]) => IsIn(<<n, p>>, job_q[t])
      BY <1>1, <1>5
    <3> QED BY <1>4, <3>1, KeptOnce
  <2>2. (\A t \in Targets : Distinct(job_q'[t])) /\ \A d \in Data : Distinct(blocked_nodes'[d])
    BY <1>1, <1>5 DEF DistinctQueues
  <2> QED BY <1>3, <2>1, <2>2 DEF DistinctQueues
<1>6. CASE msg.to # "host"
  <2>1. PICK m \in Nodes, q \in Pipes : msg.item = <<m, q>>
    BY <1>1, <1>6, MessageFacts
  <2> DEFINE s == TargetOf[m]
  <2>2. msg = ToNode(m, q) /\ msg.to = s /\ s \in Targets
    <3>1. msg = ToNode(msg.item[1], msg.item[2])
      BY <1>1, <1>2, <1>6 DEF OwnTargets, OwnMessages
    <3> QED BY <2>1, <3>1, MessageFacts, PipelineAssumption, NodesAssumption
  <2>3. PICK y : Only(y, m, q)
    BY DEF Once, Single
  <2>4. y = <<"sent", th>>
    BY <1>2, <2>2, <2>3 DEF Only
  <2>5. /\ \A t \in Targets : ~IsIn(<<m, q>>, job_q[t]) /\ ~Runs(t, m, q) /\ ~Retriggers(t, m, q)
        /\ \A d \in Data : ~IsIn(<<m, q>>, blocked_nodes[d])
        /\ \A u \in Threads \ {th} : ~IsIn(ToNode(m, q), outbox[u])
        /\ ~Behind(m, q)
    BY <2>3, <2>4 DEF Only
  <2> HIDE DEF msg, s
  <2>6. /\ Distinct(Put(job_q[s], <<<<m, q>>>>))
        /\ \A a : IsIn(a, Put(job_q[s], <<<<m, q>>>>)) => IsIn(a, job_q[s]) \/ a = <<m, q>>
    <3>1. /\ job_q[s] \in Seq(Nodes \X Pipes) /\ <<m, q>> \in Nodes \X Pipes
          /\ Len(job_q[s]) <= MaxJobs /\ Distinct(job_q[s]) /\ ~IsIn(<<m, q>>, job_q[s])
      BY <1>1, <2>2, <2>5 DEF DistinctQueues
    <3> QED BY <3>1, PutOnce
  <2>7. job_q'[s] = Put(job_q[s], <<<<m, q>>>>) /\ \A t \in Targets \ {s} : job_q'[t] = job_q[t]
    BY <1>1, <1>6, <2>1, <2>2
  <2>8. (\A t \in Targets : Distinct(job_q'[t])) /\ \A d \in Data : Distinct(blocked_nodes'[d])
    BY <1>1, <2>6, <2>7 DEF DistinctQueues
  <2>9. ASSUME NEW n \in Nodes, NEW p \in Pipes PROVE StillOnce(n, p)
    <3>1. CASE n = m /\ p = q
      <4>1. \A u \in Threads : ~IsIn(ToNode(m, q), outbox'[u])
        BY <1>1, <1>2, <2>2, <2>5
      <4>2. Only(<<"job", s>>, m, q)'
        <5>1. \A t \in Targets \ {s} : ~IsIn(<<m, q>>, job_q'[t])
          BY <2>5, <2>7
        <5>2. \A t \in Targets : ~Runs(t, m, q)' /\ ~Retriggers(t, m, q)'
          BY <1>1, <2>5 DEF Runs, Retriggers
        <5>3. (\A d \in Data : ~IsIn(<<m, q>>, blocked_nodes'[d])) /\ ~Behind(m, q)'
          BY <1>1, <2>5 DEF Behind
        <5> QED BY <4>1, <5>1, <5>2, <5>3 DEF Only
      <4>3. Pending(m, q)
        BY <1>2, <2>2 DEF Pending
      <4> QED BY <3>1, <4>2, <4>3 DEF StillOnce, Single
    <3>2. CASE ~(n = m /\ p = q)
      <4>1. \A t \in Targets : IsIn(<<n, p>>, job_q'[t]) => IsIn(<<n, p>>, job_q[t])
        BY <2>6, <2>7, <3>2
      <4> QED BY <1>4, <4>1, KeptOnce
    <3> QED BY <3>1, <3>2
  <2> QED BY <1>3, <2>8, <2>9 DEF DistinctQueues
<1> QED BY <1>5, <1>6

\* What the tasks of the targets do.
LEMMA FetchStillOnce ==
  ASSUME PipeTypes, OwnTargets, DistinctQueues, Once, NEW t \in Targets, FetchNode(t)
  PROVE  /\ DistinctQueues'
         /\ \A n \in Nodes, p \in Pipes : StillOnce(n, p)
<1>0. /\ task \in [Targets -> Tasks] /\ job_q \in [Targets -> Seq(Nodes \X Pipes)] /\ OwnTask(t)
  BY DEF PipeTypes, NodeTypes, MessageTypes, OwnTargets
<1>1. PICK m \in Nodes, q \in Pipes :
         /\ task[t].pc = "idle" /\ job_q[t] \in Seq(Nodes \X Pipes) /\ job_q[t] # <<>>
         /\ Head(job_q[t]) = <<m, q>>
         /\ job_q' = [job_q EXCEPT ![t] = Tail(job_q[t])]
         /\ \/ UNCHANGED <<next_blocked, task>>
            \/ /\ next_blocked' = next_blocked \cup {<<m, PrevPipe(q)>>}
               /\ UNCHANGED task
            \/ /\ task' = [task EXCEPT ![t] = TakenNode(m, q)]
               /\ UNCHANGED next_blocked
         /\ UNCHANGED <<blocked_nodes, outbox>>
  BY FetchNodeEffect
<1>2. /\ Distinct(Tail(job_q[t])) /\ IsIn(<<m, q>>, job_q[t])
      /\ \A a : IsIn(a, Tail(job_q[t])) <=> IsIn(a, job_q[t]) /\ a # <<m, q>>
  BY <1>1, TailOnce DEF DistinctQueues
<1>3. /\ job_q'[t] = Tail(job_q[t]) /\ \A u \in Targets \ {t} : job_q'[u] = job_q[u]
      /\ UNCHANGED <<blocked_nodes, outbox>>
  BY <1>0, <1>1
<1>4. DistinctQueues'
  <2>1. \A u \in Targets : Distinct(job_q'[u])
    BY <1>2, <1>3 DEF DistinctQueues
  <2> QED BY <1>3, <2>1 DEF DistinctQueues
<1>5. /\ TakenNode(m, q).pc = "acquire" /\ TakenNode(m, q).node = m
      /\ TakenNode(m, q).pipe = q /\ ~TakenNode(m, q).retrigger
  BY TaskFacts
<1>6. \A n \in Nodes, p \in Pipes, u \in Targets : Retriggers(u, n, p)' => Retriggers(u, n, p)
  BY <1>0, <1>1, <1>5 DEF Retriggers
<1>7. ASSUME NEW n \in Nodes, NEW p \in Pipes, ~(n = m /\ p = q) PROVE StillOnce(n, p)
  <2>1. \A u \in Targets : IsIn(<<n, p>>, job_q'[u]) => IsIn(<<n, p>>, job_q[u])
    BY <1>2, <1>3
  <2>2. \A u \in Targets : Runs(u, n, p)' => Runs(u, n, p)
    BY <1>0, <1>1, <1>5, <1>7 DEF Runs
  <2>3. Behind(n, p)' => Behind(n, p)
    <3>1. n = m /\ PrevPipe(p) = PrevPipe(q) => p = q
      BY PrevPipeFacts
    <3> QED BY <1>1, <1>7, <3>1 DEF Behind
  <2>4. /\ \A d \in Data : IsIn(<<n, p>>, blocked_nodes'[d]) => IsIn(<<n, p>>, blocked_nodes[d])
        /\ \A th \in Threads : IsIn(ToNode(n, p), outbox'[th]) => IsIn(ToNode(n, p), outbox[th])
    BY <1>3
  <2>5. Single(n, p)
    BY DEF Once
  <2> QED BY <1>6, <2>1, <2>2, <2>3, <2>4, <2>5, KeptOnce
<1>8. StillOnce(m, q)
  <2>1. PICK y : Only(y, m, q)
    BY DEF Once, Single
  <2>2. y = <<"job", t>>
    BY <1>2, <2>1 DEF Only
  <2>3. /\ \A u \in Targets \ {t} : ~IsIn(<<m, q>>, job_q[u])
        /\ \A u \in Targets : ~Runs(u, m, q) /\ ~Retriggers(u, m, q)
        /\ \A d \in Data : ~IsIn(<<m, q>>, blocked_nodes[d])
        /\ \A th \in Threads : ~IsIn(ToNode(m, q), outbox[th])
        /\ ~Behind(m, q)
    BY <2>1, <2>2 DEF Only
  <2>4. /\ \A u \in Targets : ~IsIn(<<m, q>>, job_q'[u]) /\ ~Retriggers(u, m, q)'
        /\ \A d \in Data : ~IsIn(<<m, q>>, blocked_nodes'[d])
        /\ \A th \in Threads : ~IsIn(ToNode(m, q), outbox'[th])
        /\ \A u \in Targets \ {t} : ~Runs(u, m, q)'
    <3>1. \A u \in Targets : ~IsIn(<<m, q>>, job_q'[u])
      BY <1>2, <1>3, <2>3
    <3>2. \A u \in Targets \ {t} : ~Runs(u, m, q)'
      BY <1>0, <1>1, <2>3 DEF Runs
    <3> QED BY <1>3, <1>6, <2>3, <3>1, <3>2
  <2>5. CASE UNCHANGED task
    <3>1. ~Runs(t, m, q)'
      BY <2>3, <2>5 DEF Runs
    <3>2. Only(<<"behind">>, m, q)'
      BY <2>4, <3>1 DEF Only
    <3> QED BY <1>2, <3>2 DEF StillOnce, Single, Pending
  <2>6. CASE UNCHANGED next_blocked
    <3>1. ~Behind(m, q)'
      BY <2>3, <2>6 DEF Behind
    <3>2. Only(<<"run", t>>, m, q)'
      BY <2>4, <3>1 DEF Only
    <3> QED BY <1>2, <3>2 DEF StillOnce, Single, Pending
  <2> QED BY <1>1, <2>5, <2>6
<1> QED BY <1>4, <1>7, <1>8

LEMMA AcquireStillOnce ==
  ASSUME PipeTypes, OwnTargets, DistinctQueues, Once, NEW t \in Targets, AcquireParameter(t)
  PROVE  /\ DistinctQueues'
         /\ \A n \in Nodes, p \in Pipes : StillOnce(n, p)
<1>0. /\ task \in [Targets -> Tasks] /\ blocked_nodes \in [Data -> Seq(Nodes \X Pipes)]
      /\ OwnTask(t)
  BY DEF PipeTypes, NodeTypes, QueueTypes, OwnTargets
<1>1. PICK m \in Nodes, q \in Pipes, d \in Data :
         m = task[t].node /\ q = task[t].pipe /\ d = CurrentData(t)
  BY AcquireParameterEffect
<1>2. /\ task[t].pc = "acquire" /\ UNCHANGED <<next_blocked, job_q, outbox>>
      /\ task' = [task EXCEPT ![t] = task'[t]]
      /\ Proceeds(t) \/ Parks(t)
  BY AcquireParameterEffect
<1>3. Runs(t, m, q) /\ ~task[t].retrigger
  BY <1>0, <1>1, <1>2 DEF Runs, OwnTask
<1>4. \A n \in Nodes, p \in Pipes :
        /\ \A u \in Targets \ {t} : Runs(u, n, p)' <=> Runs(u, n, p)
        /\ \A u \in Targets \ {t} : Retriggers(u, n, p)' <=> Retriggers(u, n, p)
        /\ \A u \in Targets : IsIn(<<n, p>>, job_q'[u]) => IsIn(<<n, p>>, job_q[u])
        /\ \A th \in Threads : IsIn(ToNode(n, p), outbox'[th]) => IsIn(ToNode(n, p), outbox[th])
        /\ Behind(n, p)' => Behind(n, p)
        /\ Single(n, p)
  <2>1. \A u \in Targets \ {t} : task'[u] = task[u]
    BY <1>0, <1>2
  <2> QED BY <1>2, <2>1 DEF Runs, Retriggers, Behind, Once
<1>5. CASE Proceeds(t)
  <2>1. /\ task'[t].node = m /\ task'[t].pipe = q /\ ~task'[t].retrigger
        /\ UNCHANGED blocked_nodes
    BY <1>1, <1>3, <1>5 DEF Proceeds
  <2>2. ASSUME NEW n \in Nodes, NEW p \in Pipes PROVE StillOnce(n, p)
    <3>1. /\ Runs(t, n, p)' => Runs(t, n, p)
          /\ ~Retriggers(t, n, p)'
      BY <1>1, <1>2, <2>1 DEF Runs, Retriggers
    <3>2. \A u \in Targets : Runs(u, n, p)' => Runs(u, n, p)
      BY <1>4, <3>1
    <3>3. \A u \in Targets : Retriggers(u, n, p)' => Retriggers(u, n, p)
      BY <1>4, <3>1
    <3>4. \A e \in Data : IsIn(<<n, p>>, blocked_nodes'[e]) => IsIn(<<n, p>>, blocked_nodes[e])
      BY <2>1
    <3> QED BY <1>4, <3>2, <3>3, <3>4, KeptOnce
  <2> QED BY <1>2, <2>1, <2>2 DEF DistinctQueues
<1>6. CASE Parks(t)
  <2>1. /\ task'[t] = IdleTask
        /\ blocked_nodes' = [blocked_nodes EXCEPT ![d] = Append(blocked_nodes[d], <<m, q>>)]
    BY <1>1, <1>6 DEF Parks
  <2>2. IdleTask.pc = "idle" /\ ~IdleTask.retrigger
    BY TaskFacts
  <2>3. \A n \in Nodes, p \in Pipes : ~Runs(t, n, p)' /\ ~Retriggers(t, n, p)'
    BY <2>1, <2>2 DEF Runs, Retriggers
  <2>4. PICK y : Only(y, m, q)
    BY <1>1 DEF Once, Single
  <2>5. y = <<"run", t>>
    BY <1>3, <2>4 DEF Only
  <2>6. /\ \A u \in Targets : ~IsIn(<<m, q>>, job_q[u]) /\ ~Retriggers(u, m, q)
        /\ \A u \in Targets \ {t} : ~Runs(u, m, q)
        /\ \A e \in Data : ~IsIn(<<m, q>>, blocked_nodes[e])
        /\ \A th \in Threads : ~IsIn(ToNode(m, q), outbox[th])
        /\ ~Behind(m, q)
    BY <2>4, <2>5 DEF Only
  <2>7. /\ Distinct(Append(blocked_nodes[d], <<m, q>>))
        /\ \A a : IsIn(a, Append(blocked_nodes[d], <<m, q>>))
                  <=> IsIn(a, blocked_nodes[d]) \/ a = <<m, q>>
    <3>1. /\ blocked_nodes[d] \in Seq(Nodes \X Pipes) /\ <<m, q>> \in Nodes \X Pipes
          /\ Distinct(blocked_nodes[d]) /\ ~IsIn(<<m, q>>, blocked_nodes[d])
      BY <1>0, <1>1, <2>6 DEF DistinctQueues
    <3>2. \A a : IsIn(a, Append(blocked_nodes[d], <<m, q>>))
                  <=> IsIn(a, blocked_nodes[d]) \/ a = <<m, q>>
      BY <3>1, AppendKeeps
    <3>3. Distinct(Append(blocked_nodes[d], <<m, q>>))
      BY <3>1, AppendIsIn
    <3> QED BY <3>2, <3>3
  <2>8. /\ blocked_nodes'[d] = Append(blocked_nodes[d], <<m, q>>)
        /\ \A e \in Data \ {d} : blocked_nodes'[e] = blocked_nodes[e]
    BY <1>0, <1>1, <2>1
  <2>9. DistinctQueues'
    <3>1. \A e \in Data : Distinct(blocked_nodes'[e])
      BY <2>7, <2>8 DEF DistinctQueues
    <3> QED BY <1>2, <3>1 DEF DistinctQueues
  <2>10. StillOnce(m, q)
    <3>1. Only(<<"parked", d>>, m, q)'
      <4>1. \A e \in Data \ {d} : ~IsIn(<<m, q>>, blocked_nodes'[e])
        BY <2>6, <2>8
      <4>2. \A u \in Targets : ~Runs(u, m, q)' /\ ~Retriggers(u, m, q)'
        BY <1>1, <1>4, <2>3, <2>6
      <4>3. /\ \A u \in Targets : ~IsIn(<<m, q>>, job_q'[u])
            /\ \A th \in Threads : ~IsIn(ToNode(m, q), outbox'[th])
            /\ ~Behind(m, q)'
        BY <1>1, <1>4, <2>6
      <4> QED BY <4>1, <4>2, <4>3 DEF Only
    <3> QED BY <1>3, <3>1 DEF StillOnce, Single, Pending
  <2>11. ASSUME NEW n \in Nodes, NEW p \in Pipes, ~(n = m /\ p = q) PROVE StillOnce(n, p)
    <3>1. \A u \in Targets : Runs(u, n, p)' => Runs(u, n, p)
      BY <1>4, <2>3
    <3>2. \A u \in Targets : Retriggers(u, n, p)' => Retriggers(u, n, p)
      BY <1>4, <2>3
    <3>3. \A e \in Data : IsIn(<<n, p>>, blocked_nodes'[e]) => IsIn(<<n, p>>, blocked_nodes[e])
      BY <2>7, <2>8, <2>11
    <3> QED BY <1>4, <3>1, <3>2, <3>3, KeptOnce
  <2> QED BY <2>9, <2>10, <2>11
<1> QED BY <1>2, <1>5, <1>6

LEMMA ExecuteStillOnce ==
  ASSUME PipeTypes, OwnTargets, DistinctQueues, Once, NEW t \in Targets, ExecuteNode(t)
  PROVE  /\ DistinctQueues'
         /\ \A n \in Nodes, p \in Pipes : StillOnce(n, p)
         /\ \A n \in Nodes, p \in Pipes :
              n = task[t].node /\ p = task[t].pipe => Pending(n, p) /\ ~Pending(n, p)'
<1>0. /\ task \in [Targets -> Tasks] /\ OwnTask(t)
  BY DEF PipeTypes, NodeTypes, OwnTargets
<1>1. PICK m \in Nodes, q \in Pipes : m = task[t].node /\ q = task[t].pipe
  BY TaskTypes
<1>2. /\ task[t].pc = "execute" /\ ~task[t].retrigger
      /\ next_blocked' = next_blocked \ {<<m, q>>}
      /\ task' = [task EXCEPT ![t] = task'[t]]
      /\ task'[t].pc = "release" /\ task'[t].node = m /\ task'[t].pipe = q
      /\ task'[t].retrigger <=> <<m, q>> \in next_blocked
      /\ UNCHANGED <<job_q, blocked_nodes, outbox>>
  <2>1. task[t].pc = "execute" /\ ~task[t].retrigger
    BY <1>0 DEF ExecuteNode, OwnTask
  <2> QED BY <1>1, <2>1, ExecuteNodeTask DEF ExecuteNode
<1>3. DistinctQueues'
  BY <1>2 DEF DistinctQueues
<1>4. \A u \in Targets \ {t} : task'[u] = task[u]
  BY <1>0, <1>2
<1>5. ASSUME NEW n \in Nodes, NEW p \in Pipes
      PROVE  /\ \A u \in Targets : Runs(u, n, p)' => Runs(u, n, p)
             /\ \A u \in Targets \ {t} : Retriggers(u, n, p)' => Retriggers(u, n, p)
             /\ Retriggers(t, n, p)' <=> n = m /\ PrevPipe(p) = q /\ Behind(n, p)
             /\ \A u \in Targets : IsIn(<<n, p>>, job_q'[u]) => IsIn(<<n, p>>, job_q[u])
             /\ \A d \in Data : IsIn(<<n, p>>, blocked_nodes'[d]) => IsIn(<<n, p>>, blocked_nodes[d])
             /\ \A th \in Threads : IsIn(ToNode(n, p), outbox'[th]) => IsIn(ToNode(n, p), outbox[th])
             /\ Behind(n, p)' <=> Behind(n, p) /\ ~(n = m /\ PrevPipe(p) = q)
  <2>1. \A u \in Targets : Runs(u, n, p)' => Runs(u, n, p)
    BY <1>2, <1>4 DEF Runs
  <2>2. \A u \in Targets \ {t} : Retriggers(u, n, p)' => Retriggers(u, n, p)
    BY <1>4 DEF Retriggers
  <2>3. Retriggers(t, n, p)' <=> n = m /\ PrevPipe(p) = q /\ Behind(n, p)
    BY <1>2 DEF Retriggers, Behind
  <2>4. Behind(n, p)' <=> Behind(n, p) /\ ~(n = m /\ PrevPipe(p) = q)
    BY <1>2 DEF Behind
  <2> QED BY <1>2, <2>1, <2>2, <2>3, <2>4
<1>6. ASSUME NEW n \in Nodes, NEW p \in Pipes PROVE StillOnce(n, p)
  <2>1. CASE n = m /\ PrevPipe(p) = q /\ Behind(n, p)
    <3>1. PICK y : Only(y, n, p)
      BY DEF Once, Single
    <3>2. y = <<"behind">>
      BY <2>1, <3>1 DEF Only
    <3>3. /\ \A u \in Targets : ~IsIn(<<n, p>>, job_q[u]) /\ ~Runs(u, n, p) /\ ~Retriggers(u, n, p)
          /\ \A d \in Data : ~IsIn(<<n, p>>, blocked_nodes[d])
          /\ \A th \in Threads : ~IsIn(ToNode(n, p), outbox[th])
      BY <3>1, <3>2 DEF Only
    <3>4. /\ \A u \in Targets : ~IsIn(<<n, p>>, job_q'[u]) /\ ~Runs(u, n, p)'
          /\ \A u \in Targets \ {t} : ~Retriggers(u, n, p)'
          /\ \A d \in Data : ~IsIn(<<n, p>>, blocked_nodes'[d])
          /\ \A th \in Threads : ~IsIn(ToNode(n, p), outbox'[th])
          /\ ~Behind(n, p)'
      BY <1>5, <2>1, <3>3
    <3>5. Only(<<"again", t>>, n, p)'
      BY <3>4 DEF Only
    <3> QED BY <2>1, <3>5 DEF StillOnce, Single, Pending
  <2>2. CASE ~(n = m /\ PrevPipe(p) = q /\ Behind(n, p))
    <3>1. \A u \in Targets : Retriggers(u, n, p)' => Retriggers(u, n, p)
      BY <1>5, <2>2
    <3>2. Single(n, p) /\ (Behind(n, p)' => Behind(n, p))
      BY <1>5 DEF Once
    <3> QED BY <1>5, <3>1, <3>2, KeptOnce
  <2> QED BY <2>1, <2>2
<1>7. Pending(m, q) /\ ~Pending(m, q)'
  <2>1. Runs(t, m, q)
    BY <1>1, <1>2 DEF Runs
  <2>2. PICK y : Only(y, m, q)
    BY DEF Once, Single
  <2>3. y = <<"run", t>>
    BY <2>1, <2>2 DEF Only
  <2>4. /\ \A u \in Targets : ~IsIn(<<m, q>>, job_q[u]) /\ ~Retriggers(u, m, q)
        /\ \A u \in Targets \ {t} : ~Runs(u, m, q)
        /\ \A d \in Data : ~IsIn(<<m, q>>, blocked_nodes[d])
        /\ \A th \in Threads : ~IsIn(ToNode(m, q), outbox[th])
        /\ ~Behind(m, q)
    BY <2>2, <2>3 DEF Only
  <2>5. ~Runs(t, m, q)'
    BY <1>2 DEF Runs
  <2>6. /\ \A u \in Targets : /\ ~IsIn(<<m, q>>, job_q'[u]) /\ ~Runs(u, m, q)'
                              /\ ~Retriggers(u, m, q)'
        /\ \A d \in Data : ~IsIn(<<m, q>>, blocked_nodes'[d])
        /\ \A th \in Threads : ~IsIn(ToNode(m, q), outbox'[th])
        /\ ~Behind(m, q)'
    BY <1>5, <2>4, <2>5
  <2> QED BY <2>1, <2>6 DEF Pending
<1> QED BY <1>1, <1>3, <1>6, <1>7

\* A task that has run its node adds no node to a queue; where it puts a reference back
\* it wakes the nodes parked there.
LEMMA ReleaseStillOnce ==
  ASSUME PipeTypes, DistinctQueues, Once, NEW t \in Targets,
         \/ ReleaseParameter(t) \/ SendComplete(t)
         \/ (TriggerNextNode(t) /\ UNCHANGED outbox)
  PROVE  /\ DistinctQueues'
         /\ \A n \in Nodes, p \in Pipes : StillOnce(n, p)
<1>1. /\ task \in [Targets -> Tasks] /\ task' = [task EXCEPT ![t] = task'[t]]
      /\ \/ /\ task'[t].pc \in {"release", "complete", "trigger"}
            /\ task'[t].node = task[t].node /\ task'[t].pipe = task[t].pipe
            /\ task'[t].retrigger = task[t].retrigger
         \/ task'[t] = IdleTask /\ ~task[t].retrigger
      /\ UNCHANGED <<next_blocked, job_q>>
  BY AfterRunning
<1>2. IdleTask.pc = "idle" /\ ~IdleTask.retrigger
  BY TaskFacts
<1>3. \A u \in Targets \ {t} : task'[u] = task[u]
  BY <1>1
<1>4. ASSUME NEW n \in Nodes, NEW p \in Pipes
      PROVE  /\ \A u \in Targets : Runs(u, n, p)' => Runs(u, n, p)
             /\ \A u \in Targets : Retriggers(u, n, p)' => Retriggers(u, n, p)
             /\ \A u \in Targets : IsIn(<<n, p>>, job_q'[u]) => IsIn(<<n, p>>, job_q[u])
             /\ Behind(n, p)' => Behind(n, p)
             /\ Single(n, p)
  <2>1. \A u \in Targets : Runs(u, n, p)' => Runs(u, n, p)
    BY <1>1, <1>2, <1>3 DEF Runs
  <2>2. \A u \in Targets : Retriggers(u, n, p)' => Retriggers(u, n, p)
    BY <1>1, <1>2, <1>3 DEF Retriggers
  <2>3. Behind(n, p)' => Behind(n, p)
    BY <1>1 DEF Behind
  <2>4. \A u \in Targets : IsIn(<<n, p>>, job_q'[u]) => IsIn(<<n, p>>, job_q[u])
    BY <1>1
  <2> QED BY <2>1, <2>2, <2>3, <2>4 DEF Once
<1>5. CASE UNCHANGED <<blocked_nodes, outbox>>
  <2>1. ASSUME NEW n \in Nodes, NEW p \in Pipes PROVE StillOnce(n, p)
    <3>1. /\ \A d \in Data : IsIn(<<n, p>>, blocked_nodes'[d]) => IsIn(<<n, p>>, blocked_nodes[d])
          /\ \A th \in Threads : IsIn(ToNode(n, p), outbox'[th]) => IsIn(ToNode(n, p), outbox[th])
      BY <1>5
    <3> QED BY <1>4, <3>1, KeptOnce
  <2> QED BY <1>1, <1>5, <2>1 DEF DistinctQueues
<1>6. CASE /\ ReleaseParameter(t) /\ CurrentData(t) \in UserData
           /\ outbox' = [outbox EXCEPT ![t] = Consumed(CurrentData(t))]
           /\ UNCHANGED blocked_nodes
  <2>0. outbox \in [Threads -> Seq(Messages)] /\ t \in Threads
    BY DEF PipeTypes, MessageTypes, Threads
  <2>1. PICK d \in UserData : outbox' = [outbox EXCEPT ![t] = Consumed(d)]
    BY <1>6
  <2>2. /\ outbox'[t] = <<ToHost(<<"ref_consumed", d>>)>>
        /\ \A u \in Threads \ {t} : outbox'[u] = outbox[u]
    BY <2>0, <2>1 DEF Consumed
  <2>3. ASSUME NEW n \in Nodes, NEW p \in Pipes PROVE StillOnce(n, p)
    <3>1. ToNode(n, p) # ToHost(<<"ref_consumed", d>>)
      <4>1. ToNode(n, p).to = TargetOf[n] /\ ToHost(<<"ref_consumed", d>>).to = "host"
        BY MessageFacts
      <4> QED BY <4>1, PipelineAssumption, NodesAssumption
    <3>2. \A th \in Threads : IsIn(ToNode(n, p), outbox'[th]) => IsIn(ToNode(n, p), outbox[th])
      BY <2>2, <3>1, OneMessage
    <3>3. \A e \in Data : IsIn(<<n, p>>, blocked_nodes'[e]) => IsIn(<<n, p>>, blocked_nodes[e])
      BY <1>6
    <3> QED BY <1>4, <3>2, <3>3, KeptOnce
  <2>4. \A th \in Threads : Distinct(outbox'[th])
    <3>1. Distinct(outbox'[t])
      BY <2>2 DEF Distinct
    <3> QED BY <2>2, <3>1 DEF DistinctQueues
  <2> QED BY <1>1, <1>6, <2>3, <2>4 DEF DistinctQueues
<1>7. CASE /\ ReleaseParameter(t)
           /\ outbox' = [outbox EXCEPT ![t] = Woken(CurrentData(t))]
           /\ blocked_nodes' = [blocked_nodes EXCEPT ![CurrentData(t)] = <<>>]
  <2>1. CurrentData(t) \in Data /\ t \in Threads /\ outbox[t] = <<>>
    BY <1>7, TaskTypes DEF ReleaseParameter, Threads
  <2>2. DistinctQueues'
    BY <1>1, <1>7, <2>1, WokenDistinct
  <2>3. ASSUME NEW n \in Nodes, NEW p \in Pipes PROVE StillOnce(n, p)
    BY <1>1, <1>4, <1>7, <2>1, WokenStillOnce
  <2> QED BY <2>2, <2>3
<1>8. CASE ReleaseParameter(t)
  <2>1. \/ UNCHANGED <<blocked_nodes, outbox>>
        \/ /\ CurrentData(t) \in UserData
           /\ outbox' = [outbox EXCEPT ![t] = Consumed(CurrentData(t))]
           /\ UNCHANGED blocked_nodes
        \/ /\ outbox' = [outbox EXCEPT ![t] = Woken(CurrentData(t))]
           /\ blocked_nodes' = [blocked_nodes EXCEPT ![CurrentData(t)] = <<>>]
    BY <1>8, ReleaseParameterEffect
  <2> QED BY <1>5, <1>6, <1>7, <1>8, <2>1
<1>9. CASE SendComplete(t)
  BY <1>5, <1>9 DEF SendComplete
<1>10. CASE TriggerNextNode(t) /\ UNCHANGED outbox
  BY <1>5, <1>10 DEF TriggerNextNode
<1> QED BY <1>8, <1>9, <1>10

\* The same node of the next instance is sent when this one is done.
LEMMA NextPipeStillOnce ==
  ASSUME PipeTypes, OwnTargets, DistinctQueues, Once, NEW t \in Targets, TriggerNextPipe(t),
         task[t].retrigger
  PROVE  /\ DistinctQueues'
         /\ \A n \in Nodes, p \in Pipes : StillOnce(n, p)
<1>1. PICK m \in Nodes, q \in Pipes : m = task[t].node /\ q = NextPipe(task[t].pipe)
  BY TaskTypes, PrevPipeFacts
<1>2. /\ task \in [Targets -> Tasks] /\ outbox \in [Threads -> Seq(Messages)] /\ t \in Threads
      /\ task[t].pipe \in Pipes
  BY TaskTypes DEF PipeTypes, NodeTypes, MessageTypes, Threads
<1>3. /\ task[t].pc = "trigger" /\ outbox[t] = <<>>
      /\ task' = [task EXCEPT ![t] = IdleTask]
      /\ outbox' = [outbox EXCEPT ![t] = <<ToNode(m, q)>>]
      /\ UNCHANGED <<job_q, next_blocked, blocked_nodes>>
  BY <1>1 DEF TriggerNextPipe
<1>4. IdleTask.pc = "idle" /\ ~IdleTask.retrigger
  BY TaskFacts
<1>5. /\ task'[t] = IdleTask /\ \A u \in Targets \ {t} : task'[u] = task[u]
      /\ outbox'[t] = <<ToNode(m, q)>> /\ \A u \in Threads \ {t} : outbox'[u] = outbox[u]
  BY <1>2, <1>3
<1>6. Retriggers(t, m, q)
  BY <1>1, <1>2, PrevPipeFacts DEF Retriggers
<1>7. DistinctQueues'
  <2>1. \A th \in Threads : Distinct(outbox'[th])
    <3>1. Distinct(outbox'[t])
      BY <1>5 DEF Distinct
    <3> QED BY <1>5, <3>1 DEF DistinctQueues
  <2> QED BY <1>3, <2>1 DEF DistinctQueues
<1>8. ASSUME NEW n \in Nodes, NEW p \in Pipes
      PROVE  /\ \A u \in Targets : Runs(u, n, p)' => Runs(u, n, p)
             /\ \A u \in Targets : Retriggers(u, n, p)' => Retriggers(u, n, p) /\ u # t
             /\ \A u \in Targets : IsIn(<<n, p>>, job_q'[u]) => IsIn(<<n, p>>, job_q[u])
             /\ \A d \in Data : IsIn(<<n, p>>, blocked_nodes'[d]) => IsIn(<<n, p>>, blocked_nodes[d])
             /\ Behind(n, p)' => Behind(n, p)
  BY <1>3, <1>4, <1>5 DEF Runs, Retriggers, Behind
<1>9. StillOnce(m, q)
  <2>1. PICK y : Only(y, m, q)
    BY DEF Once, Single
  <2>2. y = <<"again", t>>
    BY <1>6, <2>1 DEF Only
  <2>3. /\ \A u \in Targets : ~IsIn(<<m, q>>, job_q[u]) /\ ~Runs(u, m, q)
        /\ \A u \in Targets \ {t} : ~Retriggers(u, m, q)
        /\ \A d \in Data : ~IsIn(<<m, q>>, blocked_nodes[d])
        /\ \A th \in Threads : ~IsIn(ToNode(m, q), outbox[th])
        /\ ~Behind(m, q)
    BY <2>1, <2>2 DEF Only
  <2>4. Only(<<"sent", t>>, m, q)'
    <3>1. \A th \in Threads \ {t} : ~IsIn(ToNode(m, q), outbox'[th])
      BY <1>5, <2>3
    <3> QED BY <1>8, <2>3, <3>1 DEF Only
  <2> QED BY <1>6, <2>4 DEF StillOnce, Single, Pending
<1>10. ASSUME NEW n \in Nodes, NEW p \in Pipes, ~(n = m /\ p = q) PROVE StillOnce(n, p)
  <2>1. ToNode(n, p) # ToNode(m, q)
    <3>1. ToNode(n, p).item = <<n, p>> /\ ToNode(m, q).item = <<m, q>>
      BY MessageFacts
    <3> QED BY <1>10, <3>1
  <2>2. \A th \in Threads : IsIn(ToNode(n, p), outbox'[th]) => IsIn(ToNode(n, p), outbox[th])
    BY <1>5, <2>1, OneMessage
  <2>3. Single(n, p) /\ \A u \in Targets : Retriggers(u, n, p)' => Retriggers(u, n, p)
    BY <1>8 DEF Once
  <2> QED BY <1>8, <2>2, <2>3, KeptOnce
<1> QED BY <1>7, <1>9, <1>10

\* Threads that touch no queue of nodes, and those that wake nodes.
LEMMA QuietStillOnce ==
  ASSUME DistinctQueues, Once,
         UNCHANGED <<job_q, next_blocked, task, outbox, blocked_nodes>>
  PROVE  /\ DistinctQueues'
         /\ \A n \in Nodes, p \in Pipes : StillOnce(n, p)
<1>1. DistinctQueues'
  BY DEF DistinctQueues
<1>2. ASSUME NEW n \in Nodes, NEW p \in Pipes PROVE StillOnce(n, p)
  <2>1. Single(n, p)
    BY DEF Once
  <2> QED BY <2>1, KeptOnce DEF Runs, Retriggers, Behind
<1> QED BY <1>1, <1>2

LEMMA EnqueueStillOnce ==
  ASSUME PipeTypes, DistinctQueues, Once,
         NEW d \in UserData, NEW r \in held[d], NEW th \in Threads, outbox[th] = <<>>,
         EnqueueReady(d, r, th), UNCHANGED <<job_q, next_blocked, task>>
  PROVE  /\ DistinctQueues'
         /\ \A n \in Nodes, p \in Pipes : StillOnce(n, p)
<1>1. /\ d \in Data /\ outbox' = [outbox EXCEPT ![th] = Woken(d)]
      /\ blocked_nodes' = [blocked_nodes EXCEPT ![d] = <<>>]
  BY EnqueueReadyEffect
<1>2. DistinctQueues'
  BY <1>1, WokenDistinct
<1>3. ASSUME NEW n \in Nodes, NEW p \in Pipes PROVE StillOnce(n, p)
  <2>1. /\ Single(n, p)
        /\ \A t \in Targets : Runs(t, n, p)' => Runs(t, n, p)
        /\ \A t \in Targets : Retriggers(t, n, p)' => Retriggers(t, n, p)
    BY DEF Once, Runs, Retriggers
  <2> QED BY <1>1, <2>1, WokenStillOnce
<1> QED BY <1>2, <1>3

\* Sending a node that is nowhere yet.
LEMMA NextNodeOnce ==
  ASSUME PipeTypes, DistinctQueues, Once, NEW t \in Targets, TriggerNextNode(t),
         NEW m \in Nodes, NEW q \in Pipes, ~Pending(m, q),
         outbox' = [outbox EXCEPT ![t] = <<ToNode(m, q)>>]
  PROVE  /\ DistinctQueues' /\ Single(m, q)'
         /\ \A n \in Nodes, p \in Pipes : ~(n = m /\ p = q) => StillOnce(n, p)
<1>1. /\ task \in [Targets -> Tasks] /\ task' = [task EXCEPT ![t] = task'[t]]
      /\ \/ /\ task'[t].pc \in {"release", "complete", "trigger"}
            /\ task'[t].node = task[t].node /\ task'[t].pipe = task[t].pipe
            /\ task'[t].retrigger = task[t].retrigger
         \/ task'[t] = IdleTask /\ ~task[t].retrigger
      /\ UNCHANGED <<next_blocked, job_q>>
  BY AfterRunning
<1>2. IdleTask.pc = "idle" /\ ~IdleTask.retrigger
  BY TaskFacts
<1>3. /\ outbox \in [Threads -> Seq(Messages)] /\ t \in Threads
      /\ outbox'[t] = <<ToNode(m, q)>> /\ \A u \in Threads \ {t} : outbox'[u] = outbox[u]
  BY DEF PipeTypes, MessageTypes, Threads
<1>4. \A u \in Targets \ {t} : task'[u] = task[u]
  BY <1>1
<1>5. UNCHANGED <<blocked_nodes, job_q, next_blocked>>
  BY <1>1 DEF TriggerNextNode
<1>6. ASSUME NEW n \in Nodes, NEW p \in Pipes
      PROVE  /\ \A u \in Targets : Runs(u, n, p)' => Runs(u, n, p)
             /\ \A u \in Targets : Retriggers(u, n, p)' => Retriggers(u, n, p)
             /\ \A u \in Targets : IsIn(<<n, p>>, job_q'[u]) => IsIn(<<n, p>>, job_q[u])
             /\ \A d \in Data : IsIn(<<n, p>>, blocked_nodes'[d]) => IsIn(<<n, p>>, blocked_nodes[d])
             /\ Behind(n, p)' => Behind(n, p)
  <2>1. \A u \in Targets : Runs(u, n, p)' => Runs(u, n, p)
    BY <1>1, <1>2, <1>4 DEF Runs
  <2>2. \A u \in Targets : Retriggers(u, n, p)' => Retriggers(u, n, p)
    BY <1>1, <1>2, <1>4 DEF Retriggers
  <2> QED BY <1>5, <2>1, <2>2 DEF Behind
<1>7. Single(m, q)'
  <2>1. Only(<<"sent", t>>, m, q)'
    <3>1. /\ \A u \in Targets : ~IsIn(<<m, q>>, job_q[u]) /\ ~Runs(u, m, q) /\ ~Retriggers(u, m, q)
          /\ \A d \in Data : ~IsIn(<<m, q>>, blocked_nodes[d])
          /\ \A th \in Threads : ~IsIn(ToNode(m, q), outbox[th])
          /\ ~Behind(m, q)
      BY DEF Pending
    <3>2. \A th \in Threads \ {t} : ~IsIn(ToNode(m, q), outbox'[th])
      BY <1>3, <3>1
    <3> QED BY <1>6, <3>1, <3>2 DEF Only
  <2> QED BY <2>1 DEF Single
<1>8. DistinctQueues'
  <2>1. Distinct(outbox'[t])
    BY <1>3 DEF Distinct
  <2>2. \A th \in Threads : Distinct(outbox'[th])
    BY <1>3, <2>1 DEF DistinctQueues
  <2> QED BY <1>5, <2>2 DEF DistinctQueues
<1>9. ASSUME NEW n \in Nodes, NEW p \in Pipes, ~(n = m /\ p = q) PROVE StillOnce(n, p)
  <2>1. ToNode(n, p) # ToNode(m, q)
    <3>1. ToNode(n, p).item = <<n, p>> /\ ToNode(m, q).item = <<m, q>>
      BY MessageFacts
    <3> QED BY <1>9, <3>1
  <2>2. \A th \in Threads : IsIn(ToNode(n, p), outbox'[th]) => IsIn(ToNode(n, p), outbox[th])
    BY <1>3, <2>1, OneMessage
  <2>3. Single(n, p)
    BY DEF Once
  <2> QED BY <1>6, <2>2, <2>3, KeptOnce
<1> QED BY <1>7, <1>8, <1>9

\* The executions that start are those of the first free descriptors.
StartedPipe(p, num) == \E m \in 1 .. NumStarted(num) : p = free_q[m]

LEMMA HeadJobsDistinct ==
  ASSUME SchedulerTypes, NEW num \in Nat, NumStarted(num) \in 0 .. Len(free_q),
         Distinct(free_q), NEW t \in Targets
  PROVE  Distinct(HeadJobs(t, num))
<1>1. \A i \in 1 .. Len(HeadJobs(t, num)) : HeadJobAt(t, num, i)
  BY HeadJobsFacts
<1>2. ASSUME NEW i \in 1 .. Len(HeadJobs(t, num)), NEW k \in 1 .. Len(HeadJobs(t, num)),
             HeadJobs(t, num)[i] = HeadJobs(t, num)[k]
      PROVE  i = k
  <2>1. PICK j1 \in 1 .. Len(HeadNodes[t]), m1 \in 1 .. NumStarted(num) :
          /\ i = 1 + (Len(HeadNodes[t]) * (m1 - 1)) + (j1 - 1)
          /\ HeadJobs(t, num)[i] = <<HeadNodes[t][j1], free_q[m1]>>
    <3>1. HeadJobAt(t, num, i)
      BY <1>1
    <3> QED BY <3>1, Zenon DEF HeadJobAt
  <2>2. PICK j2 \in 1 .. Len(HeadNodes[t]), m2 \in 1 .. NumStarted(num) :
          /\ k = 1 + (Len(HeadNodes[t]) * (m2 - 1)) + (j2 - 1)
          /\ HeadJobs(t, num)[k] = <<HeadNodes[t][j2], free_q[m2]>>
    <3>1. HeadJobAt(t, num, k)
      BY <1>1
    <3> QED BY <3>1, Zenon DEF HeadJobAt
  <2>3. HeadNodes[t][j1] = HeadNodes[t][j2] /\ free_q[m1] = free_q[m2]
    <3>1. <<HeadNodes[t][j1], free_q[m1]>> = <<HeadNodes[t][j2], free_q[m2]>>
      BY <1>2, <2>1, <2>2, Zenon
    <3> QED BY <3>1
  <2>4. j1 = j2
    <3>1. /\ DOMAIN HeadNodes[t] = 1 .. Len(HeadNodes[t])
          /\ \A a, b \in DOMAIN HeadNodes[t] : HeadNodes[t][a] = HeadNodes[t][b] => a = b
      BY LinksAssumption, LenProperties DEF IsInjective
    <3> QED BY <2>3, <3>1
  <2>5. m1 = m2
    <3>1. m1 \in 1 .. Len(free_q) /\ m2 \in 1 .. Len(free_q)
      BY LenProperties DEF SchedulerTypes
    <3> QED BY <2>3, <3>1 DEF Distinct
  <2> QED BY <2>1, <2>2, <2>4, <2>5
<1> QED BY <1>2 DEF Distinct

\* Their nodes are nowhere before, and their head nodes in one job queue after the step.
LEMMA StartedOnce ==
  ASSUME PipeTypes, DistinctQueues, Once, Distinct(free_q), NEW num \in Nat,
         OwnGraphScheduleGraph(num), HeadNodesSent(num),
         UNCHANGED <<host_q, task, outbox, next_blocked, blocked_nodes>>,
         \A n \in Nodes, p \in Pipes : StartedPipe(p, num) => ~Pending(n, p)
  PROVE  /\ DistinctQueues'
         /\ \A n \in Nodes, p \in Pipes : ~StartedPipe(p, num) => StillOnce(n, p)
         /\ \A n \in Nodes, p \in Pipes : StartedPipe(p, num) =>
              Single(n, p)' /\ (Pending(n, p)' => InNodes[n] = {})
<1>1. SchedulerTypes /\ MessageTypes /\ NumStarted(num) \in 0 .. Len(free_q)
  BY StartedTypes DEF PipeTypes
<1>2. \A t \in Targets : job_q'[t] = Put(job_q[t], HeadJobs(t, num))
  BY <1>1, HeadNodesSentTypes
<1>3. \A t \in Targets : /\ job_q[t] \in Seq(Nodes \X Pipes) /\ Len(job_q[t]) <= MaxJobs
                         /\ HeadJobs(t, num) \in Seq(Nodes \X Pipes)
                         /\ Distinct(job_q[t]) /\ Distinct(HeadJobs(t, num))
  BY <1>1, HeadJobsFacts, HeadJobsDistinct DEF MessageTypes, DistinctQueues
<1>4. ASSUME NEW t \in Targets, NEW n \in Nodes, NEW p \in Pipes, IsIn(<<n, p>>, job_q'[t])
      PROVE  IsIn(<<n, p>>, job_q[t]) \/ IsIn(<<n, p>>, HeadJobs(t, num))
  BY <1>2, <1>3, <1>4, FromPut
<1>5. ASSUME NEW t \in Targets, NEW n \in Nodes, NEW p \in Pipes,
             IsIn(<<n, p>>, HeadJobs(t, num))
      PROVE  TargetOf[n] = t /\ InNodes[n] = {} /\ StartedPipe(p, num)
  BY <1>1, <1>5, HeadJobsOwn DEF StartedPipe
<1>6. ASSUME NEW t \in Targets PROVE Distinct(job_q'[t])
  <2>1. ASSUME NEW a, IsIn(a, job_q[t]), IsIn(a, HeadJobs(t, num)) PROVE FALSE
    <3>1. PICK i \in 1 .. Len(job_q[t]) : job_q[t][i] = a
      BY <2>1 DEF IsIn
    <3>2. a \in Nodes \X Pipes
      BY <1>3, <3>1, ElementOfSeq
    <3>3. PICK n \in Nodes, p \in Pipes : a = <<n, p>>
      BY <3>2
    <3>4. StartedPipe(p, num)
      BY <1>5, <2>1, <3>3
    <3>5. Pending(n, p)
      BY <2>1, <3>3 DEF Pending
    <3> QED BY <3>4, <3>5
  <2> QED BY <1>2, <1>3, <2>1, PutAllOnce
<1>7. DistinctQueues'
  BY <1>6 DEF DistinctQueues
<1>8. ASSUME NEW n \in Nodes, NEW p \in Pipes, ~StartedPipe(p, num) PROVE StillOnce(n, p)
  <2>1. \A t \in Targets : IsIn(<<n, p>>, job_q'[t]) => IsIn(<<n, p>>, job_q[t])
    BY <1>4, <1>5, <1>8
  <2>2. Single(n, p)
    BY DEF Once
  <2> QED BY <2>1, <2>2, KeptOnce DEF Runs, Retriggers, Behind
<1>9. ASSUME NEW n \in Nodes, NEW p \in Pipes, StartedPipe(p, num)
      PROVE  Single(n, p)' /\ (Pending(n, p)' => InNodes[n] = {})
  <2>1. ~Pending(n, p)
    BY <1>9
  <2>2. /\ \A t \in Targets : ~IsIn(<<n, p>>, job_q[t]) /\ ~Runs(t, n, p)' /\ ~Retriggers(t, n, p)'
        /\ \A d \in Data : ~IsIn(<<n, p>>, blocked_nodes'[d])
        /\ \A th \in Threads : ~IsIn(ToNode(n, p), outbox'[th])
        /\ ~Behind(n, p)'
    BY <2>1 DEF Pending, Runs, Retriggers, Behind
  <2>3. \A t \in Targets : IsIn(<<n, p>>, job_q'[t]) => TargetOf[n] = t /\ InNodes[n] = {}
    BY <1>4, <1>5, <2>2
  <2>4. Only(<<"job", TargetOf[n]>>, n, p)'
    BY <2>2, <2>3 DEF Only
  <2> QED BY <2>2, <2>3, <2>4 DEF Single, Pending
<1> QED BY <1>7, <1>8, <1>9

-----------------------------------------------------------------------------
\* A node is sent only when its inputs have run, and only once: RunsAfterInputs,
\* TriggeredOnce.

\* Task t will still look at node n of instance p among the nodes it feeds.
Will(t, n, p) ==
    /\ task[t].pc \in {"release", "complete", "trigger"} /\ task[t].pipe = p
    /\ \E j \in 1 .. Len(OutNodes[task[t].node]) :
         /\ OutNodes[task[t].node][j] = n
         /\ task[t].pc = "trigger" => j >= task[t].prm

\* A task that has looked at all of them still has the next instance to send.
TriggerEnds ==
    \A t \in Targets : task[t].pc = "trigger" /\ task[t].prm > Len(OutNodes[task[t].node])
                       => task[t].retrigger

\* What is to run has its inputs, what is to be looked at is nowhere yet, and what has
\* run ran after its inputs.
Ready == \A n \in Nodes, p \in Pipes :
    Pending(n, p) => p \in InFlight /\ n \notin executed[p] /\ InNodes[n] \subseteq executed[p]
WillSend == \A t \in Targets, n \in Nodes, p \in Pipes :
    Will(t, n, p) => p \in InFlight /\ n \notin executed[p] /\ ~Pending(n, p)
Closed == \A p \in Pipes : \A n \in executed[p] : InNodes[n] \subseteq executed[p]

Flow == /\ Distinct(free_q) /\ DistinctQueues /\ Once
        /\ Ready /\ WillSend /\ Closed /\ TriggerEnds

LEMMA EndsKept ==
  ASSUME TriggerEnds, NEW t \in Targets, \A u \in Targets \ {t} : task'[u] = task[u],
         task'[t] = task[t] \/ task'[t].pc # "trigger"
           \/ task'[t].prm <= Len(OutNodes[task'[t].node]) \/ task'[t].retrigger,
         task'[t].prm \in Nat, Len(OutNodes[task'[t].node]) \in Nat
  PROVE  TriggerEnds'
<1>1. ASSUME NEW u \in Targets, task'[u].pc = "trigger",
             task'[u].prm > Len(OutNodes[task'[u].node])
      PROVE  task'[u].retrigger
  BY <1>1 DEF TriggerEnds
<1> QED BY <1>1 DEF TriggerEnds

LEMMA FinishedEnds ==
  ASSUME NEW tk \in Tasks, Finished(tk).pc = "trigger",
         Finished(tk).prm > Len(OutNodes[Finished(tk).node])
  PROVE  Finished(tk).retrigger
<1>1. IdleTask.pc = "idle"
  BY TaskFacts
<1> QED BY <1>1 DEF Finished

LEMMA TargetEnds ==
  ASSUME PipeTypes, PipeTypes', TriggerEnds, NEW t \in Targets, TargetNext(t)
  PROVE  TriggerEnds'
<1>1. /\ task \in [Targets -> Tasks] /\ task'[t].prm \in Nat
      /\ Len(OutNodes[task'[t].node]) \in Nat
  <2>1. task \in [Targets -> Tasks] /\ task' \in [Targets -> Tasks]
    BY DEF PipeTypes, NodeTypes
  <2>2. task'[t].prm \in Nat /\ task'[t].node \in Nodes
    BY <2>1 DEF Tasks
  <2>3. OutNodes[task'[t].node] \in Seq(Nodes)
    BY <2>2, LinksAssumption
  <2> QED BY <2>1, <2>2, <2>3
<1>2. IdleTask.pc = "idle"
  BY TaskFacts
<1>3. CASE FetchNode(t)
  <2>1. UNCHANGED task \/ \E n \in Nodes, p \in Pipes : task' = [task EXCEPT ![t] = TakenNode(n, p)]
    BY <1>3, FetchNodeEffect
  <2>2. \A n \in Nodes, p \in Pipes : TakenNode(n, p).pc = "acquire"
    BY TaskFacts
  <2>3. /\ \A u \in Targets \ {t} : task'[u] = task[u]
        /\ task'[t] = task[t] \/ task'[t].pc = "acquire"
    BY <1>1, <2>1, <2>2
  <2> QED BY <1>1, <2>3, EndsKept
<1>4. CASE AcquireParameter(t)
  <2>1. task' = [task EXCEPT ![t] = task'[t]] /\ (Proceeds(t) \/ Parks(t))
    BY <1>4, AcquireParameterEffect
  <2>2. task'[t].pc # "trigger"
    BY <1>2, <2>1 DEF Proceeds, Parks
  <2>3. \A u \in Targets \ {t} : task'[u] = task[u]
    BY <1>1, <2>1
  <2> QED BY <1>1, <2>2, <2>3, EndsKept
<1>5. CASE ExecuteNode(t)
  <2>1. task' = [task EXCEPT ![t] = task'[t]] /\ task'[t].pc = "release"
    BY <1>5, ExecuteNodeTask
  <2>2. \A u \in Targets \ {t} : task'[u] = task[u]
    BY <1>1, <2>1
  <2> QED BY <1>1, <2>1, <2>2, EndsKept
<1>6. CASE ReleaseParameter(t)
  <2>1. task' = [task EXCEPT ![t] = ReleasedTask(t)] /\ task[t].pc = "release"
    BY <1>6, ReleaseParameterEffect
  <2>2. /\ ReleasedTask(t).node = task[t].node
        /\ ~LastParam(t) => ReleasedTask(t).pc = "release"
        /\ LastParam(t) => /\ ReleasedTask(t).prm = 1
                           /\ ReleasedTask(t).pc = IF HasCompletion(task[t].node)
                                                   THEN "complete" ELSE "trigger"
    BY <2>1, ReleasedTaskTypes
  <2>3. task'[t] = ReleasedTask(t) /\ \A u \in Targets \ {t} : task'[u] = task[u]
    BY <1>1, <2>1
  <2>4. CASE ~LastParam(t) \/ HasCompletion(task[t].node)
    <3>1. task'[t].pc # "trigger"
      BY <2>2, <2>3, <2>4
    <3> QED BY <1>1, <2>3, <3>1, EndsKept
  <2>5. CASE LastParam(t) /\ ~HasCompletion(task[t].node)
    <3>1. task'[t].prm = 1 /\ OutNodes[task'[t].node] # <<>>
      BY <2>2, <2>3, <2>5 DEF HasCompletion
    <3>2. OutNodes[task'[t].node] \in Seq(Nodes)
      BY <2>2, <2>3, TaskTypes, LinksAssumption
    <3>3. task'[t].prm <= Len(OutNodes[task'[t].node])
      BY <3>1, <3>2, EmptySeq
    <3> QED BY <1>1, <2>3, <3>3, EndsKept
  <2> QED BY <2>4, <2>5
<1>7. CASE SendComplete(t)
  <2> DEFINE tk == [task[t] EXCEPT !.pc = "trigger"]
  <2>1. task' = [task EXCEPT ![t] = Finished(tk)] /\ task[t].pc = "complete"
    BY <1>7 DEF SendComplete
  <2>2. tk \in Tasks
    BY <1>1 DEF Tasks
  <2> HIDE DEF tk
  <2>3. task'[t] = Finished(tk) /\ \A u \in Targets \ {t} : task'[u] = task[u]
    BY <1>1, <2>1
  <2>4. task'[t].pc = "trigger" /\ task'[t].prm > Len(OutNodes[task'[t].node])
        => task'[t].retrigger
    BY <2>2, <2>3, FinishedEnds
  <2> QED BY <1>1, <2>3, <2>4, EndsKept
<1>8. CASE TriggerNextNode(t)
  <2> DEFINE tk == [task[t] EXCEPT !.prm = task[t].prm + 1]
  <2>1. task' = [task EXCEPT ![t] = Finished(tk)] /\ task[t].pc = "trigger"
    BY <1>8 DEF TriggerNextNode
  <2>2. tk \in Tasks
    <3>1. tk.pc = "trigger"
      BY <1>1, <2>1 DEF Tasks
    <3> QED BY <2>1, <3>1, TriggerTask
  <2> HIDE DEF tk
  <2>3. task'[t] = Finished(tk) /\ \A u \in Targets \ {t} : task'[u] = task[u]
    BY <1>1, <2>1
  <2>4. task'[t].pc = "trigger" /\ task'[t].prm > Len(OutNodes[task'[t].node])
        => task'[t].retrigger
    BY <2>2, <2>3, FinishedEnds
  <2> QED BY <1>1, <2>3, <2>4, EndsKept
<1>9. CASE TriggerNextPipe(t)
  <2>1. task'[t] = IdleTask /\ \A u \in Targets \ {t} : task'[u] = task[u]
    BY <1>1, <1>9 DEF TriggerNextPipe
  <2> QED BY <1>1, <1>2, <2>1, EndsKept
<1> QED BY <1>3, <1>4, <1>5, <1>6, <1>7, <1>8, <1>9 DEF TargetNext

\* A step in which nodes are only passed on: everything stays as it was.
LEMMA FlowKept ==
  ASSUME Flow, UNCHANGED <<free_q, executed>>, DistinctQueues', TriggerEnds',
         \A n \in Nodes, p \in Pipes : StillOnce(n, p),
         \A t \in Targets, n \in Nodes, p \in Pipes : Will(t, n, p)' => Will(t, n, p)
  PROVE  Flow'
<1>1. InFlight' = InFlight /\ Distinct(free_q)'
  BY DEF InFlight, Free, Pipes, Flow
<1>2. Once'
  <2>1. ASSUME NEW n \in Nodes, NEW p \in Pipes PROVE Single(n, p)'
    <3>1. CASE Pending(n, p)'
      BY <3>1 DEF StillOnce
    <3>2. CASE ~Pending(n, p)'
      <4>1. Only(0, n, p)'
        BY <3>2 DEF Pending, Only
      <4> QED BY <4>1 DEF Single
    <3> QED BY <3>1, <3>2
  <2> QED BY <2>1 DEF Once
<1>3. Ready'
  <2>1. \A n \in Nodes, p \in Pipes : Pending(n, p)' => Pending(n, p)
    BY DEF StillOnce
  <2> QED BY <1>1, <2>1 DEF Ready, Flow
<1>4. WillSend'
  <2>1. \A n \in Nodes, p \in Pipes : ~Pending(n, p) => ~Pending(n, p)'
    BY DEF StillOnce
  <2> QED BY <1>1, <2>1 DEF WillSend, Flow
<1>5. Closed'
  BY DEF Closed, Flow
<1> QED BY <1>1, <1>2, <1>3, <1>4, <1>5 DEF Flow

LEMMA WillKept ==
  ASSUME PipeTypes, PipeTypes', NEW t \in Targets, \A u \in Targets \ {t} : task'[u] = task[u],
         \/ task'[t].pc \notin {"release", "complete", "trigger"}
         \/ /\ task'[t].node = task[t].node /\ task'[t].pipe = task[t].pipe
            /\ task[t].pc \in {"release", "complete", "trigger"}
            /\ task[t].pc = "trigger" => task'[t].pc = "trigger" /\ task'[t].prm >= task[t].prm
  PROVE  \A u \in Targets, n \in Nodes, p \in Pipes : Will(u, n, p)' => Will(u, n, p)
<1>1. ASSUME NEW u \in Targets, NEW n \in Nodes, NEW p \in Pipes, Will(u, n, p)'
      PROVE  Will(u, n, p)
  <2>1. CASE u # t
    BY <1>1, <2>1 DEF Will
  <2>2. CASE u = t
    <3>1. /\ task'[t].pc \in {"release", "complete", "trigger"} /\ task'[t].pipe = p
          /\ task'[t].node = task[t].node /\ task[t].pipe = p
          /\ task[t].pc \in {"release", "complete", "trigger"}
      BY <1>1, <2>2 DEF Will
    <3>2. PICK j \in 1 .. Len(OutNodes[task[t].node]) :
            /\ OutNodes[task[t].node][j] = n
            /\ task'[t].pc = "trigger" => j >= task'[t].prm
      BY <1>1, <2>2, <3>1 DEF Will
    <3>3. task[t].pc = "trigger" => j >= task[t].prm
      <4>1. task[t].prm \in Nat /\ task'[t].prm \in Nat
        <5>1. task[t] \in Tasks /\ task'[t] \in Tasks
          BY DEF PipeTypes, NodeTypes
        <5> QED BY <5>1 DEF Tasks
      <4>2. Len(OutNodes[task[t].node]) \in Nat
        BY TaskTypes, LinksAssumption
      <4>3. j \in Nat
        BY <4>2
      <4> QED BY <3>1, <3>2, <4>1, <4>3
    <3> QED BY <2>2, <3>1, <3>2, <3>3 DEF Will
  <2> QED BY <2>1, <2>2
<1> QED BY <1>1

\* What a task has left to send, step by step.
LEMMA TaskWill ==
  ASSUME PipeTypes, PipeTypes', NEW t \in Targets,
         \/ FetchNode(t) \/ AcquireParameter(t) \/ ReleaseParameter(t)
         \/ SendComplete(t) \/ TriggerNextNode(t) \/ TriggerNextPipe(t)
  PROVE  \A u \in Targets, n \in Nodes, p \in Pipes : Will(u, n, p)' => Will(u, n, p)
<1>1. task \in [Targets -> Tasks] /\ task[t] \in Tasks /\ task[t].prm \in Nat
  <2>1. task \in [Targets -> Tasks] /\ task[t] \in Tasks
    BY TaskTypes
  <2> QED BY <2>1 DEF Tasks
<1>2. IdleTask.pc = "idle"
  BY TaskFacts
<1>3. CASE FetchNode(t)
  <2>1. UNCHANGED task \/ \E n \in Nodes, p \in Pipes : task' = [task EXCEPT ![t] = TakenNode(n, p)]
    BY <1>3, FetchNodeEffect
  <2>2. \A n \in Nodes, p \in Pipes : TakenNode(n, p).pc = "acquire"
    BY TaskFacts
  <2>3. task[t].pc = "idle"
    BY <1>3, FetchNodeEffect
  <2>4. task'[t].pc \in {"idle", "acquire"} /\ \A u \in Targets \ {t} : task'[u] = task[u]
    BY <1>1, <2>1, <2>2, <2>3
  <2> QED BY <2>4, WillKept
<1>4. CASE AcquireParameter(t)
  <2>1. task' = [task EXCEPT ![t] = task'[t]] /\ (Proceeds(t) \/ Parks(t))
    BY <1>4, AcquireParameterEffect
  <2>2. task'[t].pc \in {"idle", "acquire", "execute"}
    BY <1>2, <2>1 DEF Proceeds, Parks
  <2>3. \A u \in Targets \ {t} : task'[u] = task[u]
    BY <1>1, <2>1
  <2> QED BY <2>2, <2>3, WillKept
<1>5. CASE ReleaseParameter(t)
  <2>1. task' = [task EXCEPT ![t] = task'[t]] /\ task[t].pc = "release"
    BY <1>5, AfterRunning DEF ReleaseParameter
  <2>2. \/ task'[t].node = task[t].node /\ task'[t].pipe = task[t].pipe
        \/ task'[t] = IdleTask
    BY <1>5, AfterRunning
  <2>3. \A u \in Targets \ {t} : task'[u] = task[u]
    BY <1>1, <2>1
  <2> QED BY <1>2, <2>1, <2>2, <2>3, WillKept
<1>6. CASE SendComplete(t)
  <2>1. task' = [task EXCEPT ![t] = task'[t]] /\ task[t].pc = "complete"
    BY <1>6, AfterRunning DEF SendComplete
  <2>2. \/ task'[t].node = task[t].node /\ task'[t].pipe = task[t].pipe
        \/ task'[t] = IdleTask
    BY <1>6, AfterRunning
  <2>3. \A u \in Targets \ {t} : task'[u] = task[u]
    BY <1>1, <2>1
  <2> QED BY <1>2, <2>1, <2>2, <2>3, WillKept
<1>7. CASE TriggerNextNode(t)
  <2> DEFINE tk == [task[t] EXCEPT !.prm = task[t].prm + 1]
  <2>1. task' = [task EXCEPT ![t] = Finished(tk)] /\ task[t].pc = "trigger"
    BY <1>7 DEF TriggerNextNode
  <2>2. /\ tk.pc = "trigger" /\ tk.node = task[t].node /\ tk.pipe = task[t].pipe
        /\ tk.prm = task[t].prm + 1
    BY <1>1, <2>1 DEF Tasks
  <2> HIDE DEF tk
  <2>3. Finished(tk) = tk \/ Finished(tk) = IdleTask
    BY DEF Finished
  <2>4. task'[t] = Finished(tk) /\ \A u \in Targets \ {t} : task'[u] = task[u]
    BY <1>1, <2>1
  <2>5. \/ task'[t].pc = "idle"
        \/ /\ task'[t].pc = "trigger" /\ task'[t].prm >= task[t].prm
           /\ task'[t].node = task[t].node /\ task'[t].pipe = task[t].pipe
    BY <1>1, <1>2, <2>2, <2>3, <2>4
  <2> QED BY <2>1, <2>4, <2>5, WillKept
<1>8. CASE TriggerNextPipe(t)
  <2>1. task'[t] = IdleTask /\ \A u \in Targets \ {t} : task'[u] = task[u]
    BY <1>1, <1>8 DEF TriggerNextPipe
  <2> QED BY <1>2, <2>1, WillKept
<1> QED BY <1>3, <1>4, <1>5, <1>6, <1>7, <1>8

\* No task looks again at a node that is sent now: a node is fed by nodes of one target.
LEMMA WillNoMore ==
  ASSUME PipeTypes, PipeTypes', OwnTargets, NEW t \in Targets, TriggerNextNode(t),
         \A n \in Nodes : \A m1, m2 \in InNodes[n] : TargetOf[m1] = TargetOf[m2],
         NEW m \in Nodes, NEW q \in Pipes, q = task[t].pipe,
         m = OutNodes[task[t].node][task[t].prm],
         NEW u \in Targets, Will(u, m, q)'
  PROVE  FALSE
<1> DEFINE n == task[t].node
           k == task[t].prm
           tk == [task[t] EXCEPT !.prm = task[t].prm + 1]
<1>1. /\ task[t].pc = "trigger" /\ k <= Len(OutNodes[n])
      /\ task' = [task EXCEPT ![t] = Finished(tk)]
  BY DEF TriggerNextNode
<1>2. /\ n \in Nodes /\ k \in Nat \ {0} /\ OutNodes[n] \in Seq(Nodes)
      /\ task \in [Targets -> Tasks] /\ task[t] \in Tasks
  BY TaskTypes, LinksAssumption
<1>3. k \in 1 .. Len(OutNodes[n]) /\ Len(OutNodes[n]) \in Nat
  BY <1>1, <1>2
<1>4. /\ tk.pc = "trigger" /\ tk.node = n /\ tk.prm = k + 1
  BY <1>1, <1>2 DEF Tasks
<1>5. Finished(tk) = tk \/ Finished(tk).pc = "idle"
  BY TaskFacts DEF Finished
<1> HIDE DEF tk
<1>6. CASE u = t
  <2>1. task'[t] = Finished(tk)
    BY <1>1, <1>2
  <2>2. task'[t] = tk
    BY <1>5, <1>6, <2>1 DEF Will
  <2>3. PICK j \in 1 .. Len(OutNodes[n]) : OutNodes[n][j] = m /\ j >= k + 1
    BY <1>4, <1>6, <2>2 DEF Will
  <2>4. \A a, b \in 1 .. Len(OutNodes[n]) : OutNodes[n][a] = OutNodes[n][b] => a = b
    BY <1>2, LinksAssumption, LenProperties DEF IsInjective
  <2>5. j = k
    BY <1>3, <2>3, <2>4
  <2> QED BY <1>3, <2>3, <2>5
<1>7. CASE u # t
  <2>1. task'[u] = task[u]
    BY <1>1, <1>2, <1>7
  <2>2. /\ task[u].pc \in {"release", "complete", "trigger"}
        /\ \E j \in 1 .. Len(OutNodes[task[u].node]) : OutNodes[task[u].node][j] = m
    BY <2>1 DEF Will
  <2>3. task[u].node \in Nodes
    BY TaskTypes
  <2>4. ASSUME NEW x \in Nodes, NEW j \in 1 .. Len(OutNodes[x]), OutNodes[x][j] = m
        PROVE  x \in InNodes[m]
    <3>1. m \in ToSet(OutNodes[x])
      BY <2>4, LinksAssumption, LenProperties DEF ToSet
    <3> QED BY <3>1, LinksAssumption
  <2>5. task[u].node \in InNodes[m] /\ n \in InNodes[m]
    BY <1>2, <1>3, <2>2, <2>3, <2>4
  <2>6. TargetOf[task[u].node] = TargetOf[n]
    BY <2>5
  <2>7. TargetOf[task[u].node] = u /\ TargetOf[n] = t
    BY <1>1, <2>2 DEF OwnTargets, OwnTask
  <2> QED BY <1>7, <2>6, <2>7
<1> QED BY <1>6, <1>7

\* A task that feeds a node: the node was nowhere, and no task will look at it again.
LEMMA FlowSends ==
  ASSUME PipeTypes, PipeTypes', OwnTargets, Flow, NEW t \in Targets, TriggerNextNode(t),
         \A n \in Nodes : \A m1, m2 \in InNodes[n] : TargetOf[m1] = TargetOf[m2],
         NEW m \in Nodes, NEW q \in Pipes, q = task[t].pipe,
         m = OutNodes[task[t].node][task[t].prm], CanNodeExecute(m, q),
         outbox' = [outbox EXCEPT ![t] = <<ToNode(m, q)>>]
  PROVE  Flow'
<1>1. task[t].pc = "trigger" /\ task[t].prm <= Len(OutNodes[task[t].node])
  BY DEF TriggerNextNode
<1>2. /\ task[t].node \in Nodes /\ task[t].prm \in Nat \ {0}
      /\ OutNodes[task[t].node] \in Seq(Nodes)
  BY TaskTypes, LinksAssumption
<1>3. task[t].prm \in 1 .. Len(OutNodes[task[t].node]) /\ task[t].prm >= task[t].prm
  BY <1>1, <1>2
<1>4. Will(t, m, q)
  BY <1>1, <1>3 DEF Will
<1>5. q \in InFlight /\ m \notin executed[q] /\ ~Pending(m, q)
  BY <1>4 DEF Flow, WillSend
<1>6. /\ DistinctQueues' /\ Single(m, q)'
      /\ \A x \in Nodes, p \in Pipes : ~(x = m /\ p = q) => StillOnce(x, p)
  <2>1. DistinctQueues /\ Once
    BY DEF Flow
  <2> QED BY <1>5, <2>1, NextNodeOnce, Zenon
<1>7. UNCHANGED <<free_q, executed>> /\ Distinct(free_q)'
  BY DEF TriggerNextNode, vars, sched_vars, Flow
<1>8. InFlight' = InFlight
  BY <1>7 DEF InFlight, Free, Pipes
<1>9. TriggerEnds'
  BY TargetEnds DEF TargetNext, Flow
<1>10. Once'
  <2>1. ASSUME NEW x \in Nodes, NEW p \in Pipes PROVE Single(x, p)'
    <3>1. CASE Pending(x, p)'
      BY <1>6, <3>1 DEF StillOnce
    <3>2. CASE ~Pending(x, p)'
      <4>1. Only(0, x, p)'
        BY <3>2 DEF Pending, Only
      <4> QED BY <4>1 DEF Single
    <3> QED BY <3>1, <3>2
  <2> QED BY <2>1 DEF Once
<1>11. Ready'
  <2>1. ASSUME NEW x \in Nodes, NEW p \in Pipes, Pending(x, p)'
        PROVE  p \in InFlight' /\ x \notin executed'[p] /\ InNodes[x] \subseteq executed'[p]
    <3>1. CASE x = m /\ p = q
      BY <1>5, <1>7, <1>8, <3>1 DEF CanNodeExecute
    <3>2. CASE ~(x = m /\ p = q)
      <4>1. Pending(x, p)
        BY <1>6, <2>1, <3>2 DEF StillOnce
      <4> QED BY <1>7, <1>8, <4>1 DEF Flow, Ready
    <3> QED BY <3>1, <3>2
  <2> QED BY <2>1 DEF Ready
<1>12. WillSend'
  <2>1. ASSUME NEW u \in Targets, NEW x \in Nodes, NEW p \in Pipes, Will(u, x, p)'
        PROVE  p \in InFlight' /\ x \notin executed'[p] /\ ~Pending(x, p)'
    <3>1. ~(x = m /\ p = q)
      BY <2>1, WillNoMore
    <3>2. Will(u, x, p)
      BY <2>1, TaskWill
    <3>3. p \in InFlight /\ x \notin executed[p] /\ ~Pending(x, p)
      BY <3>2 DEF Flow, WillSend
    <3>4. ~Pending(x, p)'
      BY <1>6, <3>1, <3>3 DEF StillOnce
    <3> QED BY <1>7, <1>8, <3>3, <3>4
  <2> QED BY <2>1 DEF WillSend
<1>13. Closed'
  BY <1>7 DEF Closed, Flow
<1> QED BY <1>6, <1>7, <1>9, <1>10, <1>11, <1>12, <1>13 DEF Flow

LEMMA FlowFeeds ==
  ASSUME PipeTypes, PipeTypes', OwnTargets, Flow, NEW t \in Targets, TriggerNextNode(t),
         \A n \in Nodes : \A m1, m2 \in InNodes[n] : TargetOf[m1] = TargetOf[m2]
  PROVE  Flow'
<1>1. /\ task[t].prm <= Len(OutNodes[task[t].node])
      /\ outbox' = IF CanNodeExecute(OutNodes[task[t].node][task[t].prm], task[t].pipe)
                   THEN [outbox EXCEPT ![t] =
                           <<ToNode(OutNodes[task[t].node][task[t].prm], task[t].pipe)>>]
                   ELSE outbox
  BY DEF TriggerNextNode
<1>2. PICK m \in Nodes, q \in Pipes : /\ m = OutNodes[task[t].node][task[t].prm]
                                      /\ q = task[t].pipe
  <2>1. /\ task[t].node \in Nodes /\ task[t].pipe \in Pipes /\ task[t].prm \in Nat \ {0}
        /\ OutNodes[task[t].node] \in Seq(Nodes)
    BY TaskTypes, LinksAssumption
  <2>2. task[t].prm \in 1 .. Len(OutNodes[task[t].node])
    BY <1>1, <2>1
  <2> QED BY <2>1, <2>2, ElementOfSeq
<1>3. CASE CanNodeExecute(m, q)
  BY <1>1, <1>2, <1>3, FlowSends
<1>4. CASE ~CanNodeExecute(m, q)
  <2>1. UNCHANGED outbox
    BY <1>1, <1>2, <1>4
  <2>2. DistinctQueues' /\ \A x \in Nodes, p \in Pipes : StillOnce(x, p)
    BY <2>1, ReleaseStillOnce DEF Flow
  <2>3. UNCHANGED <<free_q, executed>> /\ TriggerEnds'
    BY TargetEnds DEF TriggerNextNode, vars, sched_vars, TargetNext, Flow
  <2>4. \A u \in Targets, x \in Nodes, p \in Pipes : Will(u, x, p)' => Will(u, x, p)
    BY TaskWill
  <2> QED BY <2>2, <2>3, <2>4, FlowKept
<1> QED BY <1>3, <1>4

\* A node that runs: its output nodes have not run and are nowhere.
LEMMA FlowExecutes ==
  ASSUME PipeTypes, PipeTypes', OwnTargets, Flow, NEW t \in Targets, ExecuteNode(t)
  PROVE  Flow'
<1>1. PICK n \in Nodes, p \in Pipes : n = task[t].node /\ p = task[t].pipe
  BY TaskTypes
<1>2. /\ task[t].pc = "execute" /\ executed' = [executed EXCEPT ![p] = executed[p] \cup {n}]
      /\ UNCHANGED free_q
  BY <1>1 DEF ExecuteNode
<1>3. executed \in [Pipes -> SUBSET Nodes]
  BY DEF PipeTypes, SchedulerTypes
<1>4. /\ \A r \in Pipes : executed[r] \subseteq executed'[r]
      /\ executed'[p] = executed[p] \cup {n}
      /\ \A r \in Pipes \ {p} : executed'[r] = executed[r]
  BY <1>2, <1>3
<1>5. Runs(t, n, p) /\ Pending(n, p)
  BY <1>1, <1>2 DEF Runs, Pending
<1>6. p \in InFlight /\ n \notin executed[p] /\ InNodes[n] \subseteq executed[p]
  BY <1>5 DEF Flow, Ready
<1>7. /\ DistinctQueues' /\ ~Pending(n, p)'
      /\ \A x \in Nodes, r \in Pipes : StillOnce(x, r)
  BY <1>1, ExecuteStillOnce DEF Flow
<1>8. InFlight' = InFlight /\ Distinct(free_q)'
  BY <1>2 DEF InFlight, Free, Pipes, Flow
<1>9. TriggerEnds'
  BY TargetEnds DEF TargetNext, Flow
<1>10. Once'
  <2>1. ASSUME NEW x \in Nodes, NEW r \in Pipes PROVE Single(x, r)'
    <3>1. CASE Pending(x, r)'
      BY <1>7, <3>1 DEF StillOnce
    <3>2. CASE ~Pending(x, r)'
      <4>1. Only(0, x, r)'
        BY <3>2 DEF Pending, Only
      <4> QED BY <4>1 DEF Single
    <3> QED BY <3>1, <3>2
  <2> QED BY <2>1 DEF Once
<1>11. Ready'
  <2>1. ASSUME NEW x \in Nodes, NEW r \in Pipes, Pending(x, r)'
        PROVE  r \in InFlight' /\ x \notin executed'[r] /\ InNodes[x] \subseteq executed'[r]
    <3>1. Pending(x, r) /\ ~(x = n /\ r = p)
      BY <1>7, <2>1 DEF StillOnce
    <3>2. r \in InFlight /\ x \notin executed[r] /\ InNodes[x] \subseteq executed[r]
      BY <3>1 DEF Flow, Ready
    <3> QED BY <1>4, <1>8, <3>1, <3>2
  <2> QED BY <2>1 DEF Ready
<1>12. WillSend'
  <2>1. ASSUME NEW u \in Targets, NEW x \in Nodes, NEW r \in Pipes, Will(u, x, r)'
        PROVE  r \in InFlight' /\ x \notin executed'[r] /\ ~Pending(x, r)'
    <3>1. CASE u = t
      <4>1. task'[t].node = n /\ task'[t].pipe = p
        BY <1>1, ExecuteNodeTask
      <4>2. r = p /\ \E j \in 1 .. Len(OutNodes[n]) : OutNodes[n][j] = x
        BY <2>1, <3>1, <4>1 DEF Will
      <4>3. n \in InNodes[x]
        <5>1. x \in ToSet(OutNodes[n])
          BY <4>2, LinksAssumption, LenProperties DEF ToSet
        <5> QED BY <5>1, LinksAssumption
      <4>4. x # n
        <5>1. {n} \in SUBSET Nodes /\ {n} # {}
          OBVIOUS
        <5>2. \E y \in {n} : \A z \in {n} : y \notin InNodes[z]
          BY <5>1, AcyclicAssumption
        <5> QED BY <4>3, <5>2
      <4>5. x \notin executed[p]
        BY <1>6, <4>3 DEF Flow, Closed
      <4>6. ~Pending(x, p)
        BY <1>6, <4>3 DEF Flow, Ready
      <4>7. ~Pending(x, p)'
        BY <1>7, <4>6 DEF StillOnce
      <4> QED BY <1>4, <1>6, <1>8, <4>2, <4>4, <4>5, <4>7
    <3>2. CASE u # t
      <4>1. task'[u] = task[u]
        <5>1. task \in [Targets -> Tasks] /\ task' = [task EXCEPT ![t] = task'[t]]
          BY ExecuteNodeTask, TaskTypes
        <5> QED BY <3>2, <5>1
      <4>2. Will(u, x, r)
        BY <2>1, <4>1 DEF Will
      <4>3. r \in InFlight /\ x \notin executed[r] /\ ~Pending(x, r)
        BY <4>2 DEF Flow, WillSend
      <4>4. ~(x = n /\ r = p)
        BY <1>5, <4>3
      <4>5. ~Pending(x, r)'
        BY <1>7, <4>3 DEF StillOnce
      <4> QED BY <1>4, <1>8, <4>3, <4>4, <4>5
    <3> QED BY <3>1, <3>2
  <2> QED BY <2>1 DEF WillSend
<1>13. Closed'
  <2>1. ASSUME NEW r \in Pipes, NEW x \in executed'[r] PROVE InNodes[x] \subseteq executed'[r]
    <3>1. CASE x \in executed[r]
      <4>1. InNodes[x] \subseteq executed[r]
        BY <3>1 DEF Flow, Closed
      <4> QED BY <1>4, <4>1
    <3>2. CASE x \notin executed[r]
      BY <1>4, <1>6, <3>2
    <3> QED BY <3>1, <3>2
  <2> QED BY <2>1 DEF Closed
<1> QED BY <1>7, <1>8, <1>9, <1>10, <1>11, <1>12, <1>13 DEF Flow

\* The descriptors that are handed out were free.
LEMMA StartedFlight ==
  ASSUME SchedulerTypes, Distinct(free_q), NEW num \in Nat, OwnGraphScheduleGraph(num)
  PROVE  /\ Distinct(free_q)'
         /\ \A p \in Pipes : p \in InFlight' <=> p \in InFlight \/ StartedPipe(p, num)
         /\ \A p \in Pipes : StartedPipe(p, num) => p \notin InFlight /\ executed'[p] = {}
         /\ \A p \in Pipes : ~StartedPipe(p, num) => executed'[p] = executed[p]
<1> DEFINE k == NumStarted(num)
<1>1. /\ k \in 0 .. Len(free_q) /\ Len(free_q) \in Nat /\ free_q \in Seq(Pipes)
      /\ free_q' = SubSeq(free_q, k + 1, Len(free_q))
      /\ executed' = [p \in Pipes |-> IF p \in {free_q[i] : i \in 1 .. k} THEN {} ELSE executed[p]]
  BY StartedTypes DEF SchedulerTypes, OwnGraphScheduleGraph
<1> HIDE DEF k
<1>2. /\ Len(free_q') = Len(free_q) - k
      /\ \A i \in 1 .. Len(free_q) - k : free_q'[i] = free_q[i + k]
  <2>1. \A i \in k + 1 .. Len(free_q) : free_q[i] \in Pipes
    BY <1>1, ElementOfSeq
  <2> QED BY <1>1, <2>1, SubSeqProperties
<1>3. Distinct(free_q)'
  <2>1. \A i, j \in 1 .. Len(free_q) : free_q[i] = free_q[j] => i = j
    BY DEF Distinct
  <2>2. ASSUME NEW i \in 1 .. Len(free_q'), NEW j \in 1 .. Len(free_q'), free_q'[i] = free_q'[j]
        PROVE  i = j
    <3>1. i + k \in 1 .. Len(free_q) /\ j + k \in 1 .. Len(free_q)
      BY <1>1, <1>2
    <3>2. free_q[i + k] = free_q[j + k]
      BY <1>2, <2>2
    <3>3. i + k = j + k
      BY <2>1, <3>1, <3>2
    <3> QED BY <1>1, <1>2, <3>3
  <2> QED BY <2>2 DEF Distinct
<1>4. ASSUME NEW p \in Pipes
      PROVE  /\ p \in Free <=> p \in Free' \/ StartedPipe(p, num)
             /\ ~(p \in Free' /\ StartedPipe(p, num))
  <2>1. StartedPipe(p, num) <=> \E i \in 1 .. k : p = free_q[i]
    BY DEF StartedPipe, k
  <2>2. p \in Free' <=> \E i \in 1 .. Len(free_q) - k : p = free_q[i + k]
    BY <1>2 DEF Free
  <2>3. p \in Free' <=> \E i \in k + 1 .. Len(free_q) : p = free_q[i]
    <3>1. ASSUME NEW i \in 1 .. Len(free_q) - k PROVE i + k \in k + 1 .. Len(free_q)
      BY <1>1
    <3>2. ASSUME NEW i \in k + 1 .. Len(free_q)
          PROVE  i - k \in 1 .. Len(free_q) - k /\ (i - k) + k = i
      BY <1>1
    <3> QED BY <2>2, <3>1, <3>2
  <2>4. p \in Free <=> \E i \in 1 .. Len(free_q) : p = free_q[i]
    BY DEF Free
  <2>5. \A i \in 1 .. Len(free_q) : i \in 1 .. k \/ i \in k + 1 .. Len(free_q)
    BY <1>1
  <2>6. /\ \A i \in 1 .. k : i \in 1 .. Len(free_q)
        /\ \A i \in k + 1 .. Len(free_q) : i \in 1 .. Len(free_q)
    BY <1>1
  <2>7. \A i \in 1 .. k, j \in k + 1 .. Len(free_q) : free_q[i] # free_q[j]
    <3>1. ASSUME NEW i \in 1 .. k, NEW j \in k + 1 .. Len(free_q), free_q[i] = free_q[j]
          PROVE  FALSE
      <4>1. i = j
        BY <2>6, <3>1 DEF Distinct
      <4> QED BY <1>1, <4>1
    <3> QED BY <3>1
  <2> QED BY <2>1, <2>3, <2>4, <2>5, <2>6, <2>7
<1>5. Pipes' = Pipes
  BY DEF Pipes
<1>6. \A p \in Pipes : /\ p \in InFlight <=> p \notin Free
                       /\ p \in InFlight' <=> p \notin Free'
  BY <1>5 DEF InFlight
<1>7. \A p \in Pipes : executed'[p] = IF StartedPipe(p, num) THEN {} ELSE executed[p]
  BY <1>1 DEF StartedPipe, k
<1> QED BY <1>3, <1>4, <1>6, <1>7

\* Executions that start: their head nodes are queued, and nothing of theirs was left.
LEMMA FlowStarts ==
  ASSUME PipeTypes, Flow, NEW num \in Nat, OwnGraphScheduleGraph(num), HeadNodesSent(num),
         UNCHANGED <<host_q, task, outbox, next_blocked, blocked_nodes>>
  PROVE  Flow'
<1>1. SchedulerTypes /\ Distinct(free_q)
  BY DEF PipeTypes, Flow
<1>2. /\ Distinct(free_q)'
      /\ \A p \in Pipes : p \in InFlight' <=> p \in InFlight \/ StartedPipe(p, num)
      /\ \A p \in Pipes : StartedPipe(p, num) => p \notin InFlight /\ executed'[p] = {}
      /\ \A p \in Pipes : ~StartedPipe(p, num) => executed'[p] = executed[p]
  BY <1>1, StartedFlight
<1>3. \A n \in Nodes, p \in Pipes : StartedPipe(p, num) => ~Pending(n, p)
  BY <1>2 DEF Flow, Ready
<1>4. /\ DistinctQueues'
      /\ \A n \in Nodes, p \in Pipes : ~StartedPipe(p, num) => StillOnce(n, p)
      /\ \A n \in Nodes, p \in Pipes : StartedPipe(p, num) =>
           Single(n, p)' /\ (Pending(n, p)' => InNodes[n] = {})
  BY <1>1, <1>3, StartedOnce DEF Flow
<1>5. Once'
  <2>1. ASSUME NEW x \in Nodes, NEW p \in Pipes PROVE Single(x, p)'
    <3>1. CASE Pending(x, p)'
      BY <1>4, <3>1 DEF StillOnce
    <3>2. CASE ~Pending(x, p)'
      <4>1. Only(0, x, p)'
        BY <3>2 DEF Pending, Only
      <4> QED BY <4>1 DEF Single
    <3> QED BY <3>1, <3>2
  <2> QED BY <2>1 DEF Once
<1>6. Ready'
  <2>1. ASSUME NEW x \in Nodes, NEW p \in Pipes, Pending(x, p)'
        PROVE  p \in InFlight' /\ x \notin executed'[p] /\ InNodes[x] \subseteq executed'[p]
    <3>1. CASE StartedPipe(p, num)
      BY <1>2, <1>4, <2>1, <3>1
    <3>2. CASE ~StartedPipe(p, num)
      <4>1. Pending(x, p)
        BY <1>4, <2>1, <3>2 DEF StillOnce
      <4> QED BY <1>2, <3>2, <4>1 DEF Flow, Ready
    <3> QED BY <3>1, <3>2
  <2> QED BY <2>1 DEF Ready
<1>7. WillSend'
  <2>1. ASSUME NEW u \in Targets, NEW x \in Nodes, NEW p \in Pipes, Will(u, x, p)'
        PROVE  p \in InFlight' /\ x \notin executed'[p] /\ ~Pending(x, p)'
    <3>1. Will(u, x, p)
      BY <2>1 DEF Will
    <3>2. p \in InFlight /\ x \notin executed[p] /\ ~Pending(x, p)
      BY <3>1 DEF Flow, WillSend
    <3>3. ~StartedPipe(p, num)
      BY <1>2, <3>2
    <3>4. ~Pending(x, p)'
      BY <1>4, <3>2, <3>3 DEF StillOnce
    <3> QED BY <1>2, <3>2, <3>3, <3>4
  <2> QED BY <2>1 DEF WillSend
<1>8. Closed'
  <2>1. ASSUME NEW r \in Pipes, NEW x \in executed'[r] PROVE InNodes[x] \subseteq executed'[r]
    <3>1. executed'[r] = executed[r]
      BY <1>2, <2>1
    <3> QED BY <2>1, <3>1 DEF Flow, Closed
  <2> QED BY <2>1 DEF Closed
<1>9. TriggerEnds'
  BY DEF TriggerEnds, Flow
<1> QED BY <1>2, <1>4, <1>5, <1>6, <1>7, <1>8, <1>9 DEF Flow

\* An execution with a node that has not run has a leaf that has not run.
LEMMA LeafToRun ==
  ASSUME Closed, NEW p \in Pipes, NEW n \in Nodes, n \notin executed[p]
  PROVE  \E l \in Leaves : l \notin executed[p]
<1> DEFINE S == Nodes \ executed[p]
<1>1. PICK l \in S : \A m \in S : l \notin InNodes[m]
  <2>1. S \in SUBSET Nodes /\ S # {}
    OBVIOUS
  <2> QED BY <2>1, AcyclicAssumption
<1>2. \A m \in executed[p] : l \notin InNodes[m]
  BY <1>1 DEF Closed
<1> QED BY <1>1, <1>2 DEF Leaves

\* An execution that ends leaves nothing to be sent.
LEMMA FlowCompletes ==
  ASSUME PipeTypes, Flow, GraphCompleted, UNCHANGED pipe_vars,
         NEW q \in Pipes, q = host.pipe, q \in InFlight, \A l \in Leaves : l \in executed[q]
  PROVE  Flow'
<1>1. free_q' = Append(free_q, q) /\ UNCHANGED executed
  BY DEF GraphCompleted, FreeQueueWith
<1>2. free_q \in Seq(Pipes) /\ Distinct(free_q)
  BY DEF PipeTypes, SchedulerTypes, Flow
<1>3. ~IsIn(q, free_q)
  BY DEF InFlight, Free, IsIn
<1>4. Distinct(free_q')
  BY <1>1, <1>2, <1>3, AppendIsIn
<1>5. \A p \in Pipes : p \in InFlight /\ p # q => p \in InFlight'
  <2>1. \A p : IsIn(p, free_q') <=> IsIn(p, free_q) \/ p = q
    BY <1>1, <1>2, AppendIsIn
  <2>2. Pipes' = Pipes
    BY DEF Pipes
  <2>3. \A p \in Pipes : /\ p \in InFlight <=> ~IsIn(p, free_q)
                         /\ p \in InFlight' <=> ~IsIn(p, free_q')
    BY <2>2 DEF InFlight, Free, IsIn
  <2> QED BY <2>1, <2>3
<1>6. \A n \in Nodes : n \in executed[q]
  BY LeafToRun DEF Flow
<1>7. UNCHANGED <<job_q, next_blocked, task, outbox, blocked_nodes>>
  BY DEF pipe_vars
<1>8. DistinctQueues' /\ Once' /\ TriggerEnds' /\ Closed'
  BY <1>1, <1>7 DEF Flow, DistinctQueues, Once, Single, Only, Runs, Retriggers, Behind,
                    TriggerEnds, Closed
<1>9. Ready'
  <2>1. ASSUME NEW x \in Nodes, NEW p \in Pipes, Pending(x, p)'
        PROVE  p \in InFlight' /\ x \notin executed'[p] /\ InNodes[x] \subseteq executed'[p]
    <3>1. Pending(x, p)
      BY <1>7, <2>1 DEF Pending, Runs, Retriggers, Behind
    <3>2. p \in InFlight /\ x \notin executed[p] /\ InNodes[x] \subseteq executed[p]
      BY <3>1 DEF Flow, Ready
    <3> QED BY <1>1, <1>5, <1>6, <3>2
  <2> QED BY <2>1 DEF Ready
<1>10. WillSend'
  <2>1. ASSUME NEW u \in Targets, NEW x \in Nodes, NEW p \in Pipes, Will(u, x, p)'
        PROVE  p \in InFlight' /\ x \notin executed'[p] /\ ~Pending(x, p)'
    <3>1. Will(u, x, p)
      BY <1>7, <2>1 DEF Will
    <3>2. p \in InFlight /\ x \notin executed[p] /\ ~Pending(x, p)
      BY <3>1 DEF Flow, WillSend
    <3>3. ~Pending(x, p)'
      BY <1>7, <3>2 DEF Pending, Runs, Retriggers, Behind
    <3> QED BY <1>1, <1>5, <1>6, <3>2, <3>3
  <2> QED BY <2>1 DEF WillSend
<1> QED BY <1>4, <1>8, <1>9, <1>10 DEF Flow

-----------------------------------------------------------------------------
\* The last leaf of an execution: when the host has counted all the leaves, all of them
\* have run.

\* Leaf n of execution p has run and has not been counted: its task is about to say so,
\* the command is queued, or the host looks at it.
ToReport(n, p) == \E t \in Targets : /\ task[t].pc \in {"release", "complete"}
                                     /\ task[t].node = n /\ task[t].pipe = p
Reporting(n, p) == ToReport(n, p) \/ Queued(n, p) \/ Checking(n, p)

\* The leaves that were counted, or whose command was dropped.
Accounted(p) == {n \in Leaves : n \in executed[p] /\ ~Reporting(n, p)}

QueuedOnce == \A i, j \in 1 .. Len(host_q) :
    host_q[i] = host_q[j] /\ host_q[i][1] \in Leaves => i = j
Reports == \A n \in Leaves, p \in Pipes :
    /\ Reporting(n, p) => p \in InFlight /\ n \in executed[p]
    /\ ToReport(n, p) => ~Queued(n, p) /\ ~Checking(n, p)
    /\ Queued(n, p) => ~Checking(n, p)
LeafBound == \A p \in Pipes :
    /\ p \in InFlight => complete_leaf_nodes[p] <= Cardinality(Accounted(p))
    /\ p \notin InFlight => complete_leaf_nodes[p] = 0

LeafFlow == /\ complete_leaf_nodes \in [Pipes -> Nat]
            /\ QueuedOnce /\ Reports /\ LeafBound
            /\ host.pc = "check" => host.node \in Leaves

LEMMA LeafNames ==
  /\ Leaves \subseteq Nodes
  /\ \A n \in Nodes : n \in Leaves <=> OutNodes[n] = <<>>
  /\ "ref_consumed" \notin Leaves
<1>1. Leaves \subseteq Nodes
  BY DEF Leaves
<1>2. ASSUME NEW n \in Nodes PROVE n \in Leaves <=> OutNodes[n] = <<>>
  <2>1. OutNodes[n] \in Seq(Nodes) /\ ToSet(OutNodes[n]) = {m \in Nodes : n \in InNodes[m]}
    BY LinksAssumption
  <2>2. CASE OutNodes[n] = <<>>
    <3>1. ToSet(OutNodes[n]) = {}
      BY <2>2 DEF ToSet
    <3> QED BY <2>1, <2>2, <3>1 DEF Leaves
  <2>3. CASE OutNodes[n] # <<>>
    <3>1. 1 \in DOMAIN OutNodes[n] /\ OutNodes[n][1] \in Nodes
      BY <2>1, <2>3, EmptySeq, LenProperties, ElementOfSeq
    <3>2. OutNodes[n][1] \in ToSet(OutNodes[n])
      BY <3>1 DEF ToSet
    <3> QED BY <2>1, <2>3, <3>2 DEF Leaves
  <2> QED BY <2>2, <2>3
<1> QED BY <1>1, <1>2, PipelineAssumption

LEMMA QueuedOncePut ==
  ASSUME QueuedOnce, host_q \in Seq(Commands), Len(host_q) <= MaxJobs, NEW c \in Commands,
         c[1] \in Leaves => ~IsIn(c, host_q), host_q' = Put(host_q, <<c>>)
  PROVE  /\ QueuedOnce'
         /\ \A a : IsIn(a, host_q') => IsIn(a, host_q) \/ a = c
<1>1. CASE host_q' = host_q
  BY <1>1 DEF QueuedOnce
<1>2. CASE host_q' = Append(host_q, c)
  <2>1. /\ Len(host_q') = Len(host_q) + 1 /\ Len(host_q) \in Nat
        /\ \A i \in 1 .. Len(host_q) : host_q'[i] = host_q[i]
        /\ host_q'[Len(host_q) + 1] = c
        /\ \A a : IsIn(a, host_q') => IsIn(a, host_q) \/ a = c
    <3>1. /\ Len(Append(host_q, c)) = Len(host_q) + 1
          /\ \A i \in 1 .. Len(host_q) : Append(host_q, c)[i] = host_q[i]
          /\ Append(host_q, c)[Len(host_q) + 1] = c
          /\ \A a : IsIn(a, Append(host_q, c)) <=> IsIn(a, host_q) \/ a = c
      BY AppendIsIn
    <3> QED BY <1>2, <3>1, LenProperties
  <2>2. ASSUME NEW i \in 1 .. Len(host_q'), NEW j \in 1 .. Len(host_q'),
               host_q'[i] = host_q'[j], host_q'[i][1] \in Leaves
        PROVE  i = j
    <3>1. CASE i \in 1 .. Len(host_q) /\ j \in 1 .. Len(host_q)
      BY <2>1, <2>2, <3>1 DEF QueuedOnce
    <3>2. CASE i = Len(host_q) + 1 /\ j \in 1 .. Len(host_q)
      BY <2>1, <2>2, <3>2 DEF IsIn
    <3>3. CASE j = Len(host_q) + 1 /\ i \in 1 .. Len(host_q)
      BY <2>1, <2>2, <3>3 DEF IsIn
    <3> QED BY <2>1, <3>1, <3>2, <3>3
  <2>3. QueuedOnce'
    BY <2>2 DEF QueuedOnce
  <2> QED BY <2>1, <2>3
<1>3. host_q' = host_q \/ host_q' = Append(host_q, c)
  <2>1. Len(host_q) \in Nat /\ (Len(host_q) < MaxJobs \/ Len(host_q) = MaxJobs)
    BY PipelineAssumption, LenProperties
  <2> QED BY <2>1, PutOne
<1> QED BY <1>1, <1>2, <1>3

LEMMA QueuedOnceTail ==
  ASSUME QueuedOnce, host_q \in Seq(Commands), host_q # <<>>, host_q' = Tail(host_q)
  PROVE  /\ QueuedOnce'
         /\ IsIn(Head(host_q), host_q)
         /\ \A a : IsIn(a, host_q') => IsIn(a, host_q)
         /\ Head(host_q)[1] \in Leaves => ~IsIn(Head(host_q), host_q')
<1>1. /\ Len(host_q) \in Nat \ {0} /\ Head(host_q) = host_q[1]
      /\ Len(host_q') = Len(host_q) - 1
      /\ \A i \in 1 .. Len(host_q') : host_q'[i] = host_q[i + 1]
  BY EmptySeq, LenProperties, HeadTailProperties
<1>2. \A i \in 1 .. Len(host_q') : i + 1 \in 1 .. Len(host_q)
  BY <1>1
<1>3. QueuedOnce'
  <2>1. ASSUME NEW i \in 1 .. Len(host_q'), NEW j \in 1 .. Len(host_q'),
               host_q'[i] = host_q'[j], host_q'[i][1] \in Leaves
        PROVE  i = j
    <3>1. i + 1 = j + 1
      BY <1>1, <1>2, <2>1 DEF QueuedOnce
    <3> QED BY <1>1, <3>1
  <2> QED BY <2>1 DEF QueuedOnce
<1>4. \A a : IsIn(a, host_q') => IsIn(a, host_q)
  BY <1>1, <1>2 DEF IsIn
<1>5. IsIn(Head(host_q), host_q)
  BY <1>1 DEF IsIn
<1>6. ASSUME Head(host_q)[1] \in Leaves, IsIn(Head(host_q), host_q') PROVE FALSE
  <2>1. PICK i \in 1 .. Len(host_q') : host_q'[i] = Head(host_q)
    BY <1>6 DEF IsIn
  <2>2. i + 1 \in 1 .. Len(host_q) /\ 1 \in 1 .. Len(host_q) /\ host_q[i + 1] = host_q[1]
    BY <1>1, <1>2, <2>1
  <2>3. i + 1 = 1
    BY <1>1, <1>6, <2>2 DEF QueuedOnce
  <2> QED BY <1>1, <2>1, <2>3
<1> QED BY <1>3, <1>4, <1>5, <1>6

\* A step that counts nothing and begins no report.
LEMMA BoundKept ==
  ASSUME LeafFlow, UNCHANGED <<free_q, executed, complete_leaf_nodes>>,
         \A n \in Leaves, p \in Pipes : Reporting(n, p)' => Reporting(n, p)
  PROVE  LeafBound'
<1>1. InFlight' = InFlight /\ Leaves' = Leaves /\ Pipes' = Pipes
  BY DEF InFlight, Free, Pipes, Leaves
<1>2. ASSUME NEW p \in Pipes PROVE Cardinality(Accounted(p)) <= Cardinality(Accounted(p)')
  <2>1. Accounted(p) \subseteq Accounted(p)' /\ Accounted(p)' \subseteq Leaves
    BY <1>1 DEF Accounted
  <2> QED BY <2>1, LeavesFinite, FS_Subset
<1>3. ASSUME NEW p \in Pipes, p \in InFlight
      PROVE  complete_leaf_nodes[p] <= Cardinality(Accounted(p)')
  <2>1. Accounted(p) \subseteq Leaves /\ Accounted(p)' \subseteq Leaves
    BY <1>1 DEF Accounted
  <2>2. Cardinality(Accounted(p)) \in Nat /\ Cardinality(Accounted(p)') \in Nat
    BY <2>1, LeavesFinite
  <2>3. complete_leaf_nodes[p] \in Nat /\ complete_leaf_nodes[p] <= Cardinality(Accounted(p))
    BY <1>3 DEF LeafFlow, LeafBound
  <2> QED BY <1>2, <2>2, <2>3
<1> QED BY <1>1, <1>3 DEF LeafBound, LeafFlow

LEMMA LeafKept ==
  ASSUME LeafFlow, UNCHANGED <<free_q, executed, complete_leaf_nodes>>, QueuedOnce',
         \A n \in Leaves, p \in Pipes : /\ ToReport(n, p)' => ToReport(n, p)
                                        /\ Queued(n, p)' => Queued(n, p)
                                        /\ Checking(n, p)' => Checking(n, p),
         host'.pc = "check" => host' = host
  PROVE  LeafFlow'
<1>1. InFlight' = InFlight /\ Leaves' = Leaves /\ Pipes' = Pipes
  BY DEF InFlight, Free, Pipes, Leaves
<1>2. \A n \in Leaves, p \in Pipes : Reporting(n, p)' => Reporting(n, p)
  BY DEF Reporting
<1>3. LeafBound'
  BY <1>2, BoundKept
<1>4. Reports'
  BY <1>1, <1>2 DEF LeafFlow, Reports
<1> QED BY <1>1, <1>3, <1>4 DEF LeafFlow

\* The completion command of a leaf is queued, or dropped.
LEMMA LeafSends ==
  ASSUME PipeTypes, OwnTargets, LeafFlow, NEW t \in Targets, SendComplete(t)
  PROVE  LeafFlow'
<1>1. PICK n0 \in Nodes, p0 \in Pipes : n0 = task[t].node /\ p0 = task[t].pipe
  BY TaskTypes
<1>2. /\ task[t].pc = "complete" /\ host_q' = Put(host_q, <<<<n0, p0>>>>)
      /\ UNCHANGED <<free_q, executed, complete_leaf_nodes, host>>
  BY <1>1 DEF SendComplete, sched_vars
<1>3. host_q \in Seq(Commands) /\ Len(host_q) <= MaxJobs /\ <<n0, p0>> \in Commands
  BY MessageFacts DEF PipeTypes, MessageTypes
<1>4. ToReport(n0, p0)
  BY <1>1, <1>2 DEF ToReport
<1>5. <<n0, p0>>[1] \in Leaves => ~IsIn(<<n0, p0>>, host_q)
  <2>1. n0 \in Leaves => ~Queued(n0, p0)
    BY <1>4 DEF LeafFlow, Reports
  <2> QED BY <2>1 DEF Queued, IsIn
<1>6. /\ QueuedOnce'
      /\ \A a : IsIn(a, host_q') => IsIn(a, host_q) \/ a = <<n0, p0>>
  <2>1. QueuedOnce
    BY DEF LeafFlow
  <2> QED BY <1>2, <1>3, <1>5, <2>1, QueuedOncePut
<1>7. ASSUME NEW n \in Leaves, NEW p \in Pipes, Queued(n, p)'
      PROVE  Queued(n, p) \/ (n = n0 /\ p = p0)
  <2>1. IsIn(<<n, p>>, host_q')
    BY <1>7 DEF Queued, IsIn
  <2>2. IsIn(<<n, p>>, host_q) \/ <<n, p>> = <<n0, p0>>
    BY <1>6, <2>1
  <2> QED BY <2>2 DEF Queued, IsIn
<1>8. ASSUME NEW n \in Leaves, NEW p \in Pipes, ToReport(n, p)'
      PROVE  ToReport(n, p) /\ n # n0
  <2>1. /\ task \in [Targets -> Tasks] /\ task' = [task EXCEPT ![t] = task'[t]]
        /\ task'[t] = IdleTask \/ task'[t].pc = "trigger"
    <3> DEFINE tk == [task[t] EXCEPT !.pc = "trigger"]
    <3>1. task \in [Targets -> Tasks] /\ task[t] \in Tasks
      BY TaskTypes
    <3>2. task' = [task EXCEPT ![t] = Finished(tk)]
      BY DEF SendComplete
    <3>3. tk.pc = "trigger"
      BY <3>1 DEF Tasks
    <3> HIDE DEF tk
    <3>4. Finished(tk) = IdleTask \/ Finished(tk).pc = "trigger"
      BY <3>3 DEF Finished
    <3> QED BY <3>1, <3>2, <3>4
  <2>2. IdleTask.pc = "idle"
    BY TaskFacts
  <2>3. PICK u \in Targets : /\ task'[u].pc \in {"release", "complete"}
                             /\ task'[u].node = n /\ task'[u].pipe = p
    BY <1>8 DEF ToReport
  <2>4. u # t /\ task'[u] = task[u]
    BY <2>1, <2>2, <2>3
  <2>5. TargetOf[n] = u /\ TargetOf[n0] = t
    BY <1>1, <1>2, <2>3, <2>4 DEF OwnTargets, OwnTask
  <2> QED BY <2>3, <2>4, <2>5 DEF ToReport
<1>9. \A n \in Leaves, p \in Pipes : Checking(n, p)' <=> Checking(n, p)
  BY <1>2 DEF Checking
<1>10. \A n \in Leaves, p \in Pipes : Reporting(n, p)' => Reporting(n, p)
  BY <1>4, <1>7, <1>8, <1>9 DEF Reporting
<1>11. LeafBound'
  BY <1>2, <1>10, BoundKept
<1>12. InFlight' = InFlight /\ Leaves' = Leaves /\ Pipes' = Pipes
  BY <1>2 DEF InFlight, Free, Pipes, Leaves
<1>13. Reports'
  <2>1. ASSUME NEW n \in Leaves, NEW p \in Pipes
        PROVE  /\ Reporting(n, p)' => p \in InFlight' /\ n \in executed'[p]
               /\ ToReport(n, p)' => ~Queued(n, p)' /\ ~Checking(n, p)'
               /\ Queued(n, p)' => ~Checking(n, p)'
    <3>1. /\ Reporting(n, p) => p \in InFlight /\ n \in executed[p]
          /\ ToReport(n, p) => ~Queued(n, p) /\ ~Checking(n, p)
          /\ Queued(n, p) => ~Checking(n, p)
      BY DEF LeafFlow, Reports
    <3>2. Reporting(n, p)' => p \in InFlight' /\ n \in executed'[p]
      BY <1>2, <1>10, <1>12, <3>1
    <3>3. ToReport(n, p)' => ~Queued(n, p)' /\ ~Checking(n, p)'
      BY <1>7, <1>8, <1>9, <3>1
    <3>4. Queued(n, p)' => ~Checking(n, p)'
      BY <1>4, <1>7, <1>9, <3>1
    <3> QED BY <3>2, <3>3, <3>4
  <2> QED BY <1>12, <2>1 DEF Reports
<1> QED BY <1>2, <1>6, <1>11, <1>12, <1>13 DEF LeafFlow

\* The host takes a command.
LEMMA LeafTaken ==
  ASSUME PipeTypes, LeafFlow, HostTake, Head(host_q)[1] # "ref_consumed", UNCHANGED pipe_vars
  PROVE  LeafFlow'
<1>1. host_q \in Seq(Commands) /\ host_q # <<>> /\ host_q' = Tail(host_q)
  BY DEF PipeTypes, MessageTypes, HostTake
<1>2. PICK n0 \in Nodes, p0 \in Pipes : Head(host_q) = <<n0, p0>>
  <2>1. Head(host_q) \in Commands
    BY <1>1, FromTail
  <2>2. Head(host_q) \in Nodes \X Pipes
    BY <2>1, MessageFacts
  <2> QED BY <2>2
<1>3. /\ host.pc = "idle" /\ host'.node = n0 /\ host'.pipe = p0
      /\ host'.pc = IF n0 \in Leaves THEN "check" ELSE "action"
      /\ UNCHANGED <<free_q, executed, complete_leaf_nodes, task>>
  <2>1. \E ab : host' = [pc |-> IF n0 \in Leaves THEN "check" ELSE "action",
                         node |-> n0, pipe |-> p0, abandon |-> ab, schedule_count |-> 0]
    <3>1. Head(host_q)[1] = n0 /\ Head(host_q)[2] = p0
      BY <1>2
    <3>2. \E ab \in {FALSE} \cup {n0 \in Abandoners} :
            host' = [pc |-> IF n0 \in Leaves THEN "check" ELSE "action",
                     node |-> n0, pipe |-> p0, abandon |-> ab, schedule_count |-> 0]
      BY <3>1, Zenon DEF HostTake
    <3> QED BY <3>2
  <2>2. host.pc = "idle" /\ UNCHANGED <<free_q, executed, complete_leaf_nodes, task>>
    BY DEF HostTake, pipe_vars
  <2> QED BY <2>1, <2>2
<1>4. /\ QueuedOnce' /\ IsIn(<<n0, p0>>, host_q)
      /\ \A a : IsIn(a, host_q') => IsIn(a, host_q)
      /\ n0 \in Leaves => ~IsIn(<<n0, p0>>, host_q')
  <2>1. QueuedOnce
    BY DEF LeafFlow
  <2>2. /\ QueuedOnce' /\ IsIn(Head(host_q), host_q)
        /\ \A a : IsIn(a, host_q') => IsIn(a, host_q)
        /\ Head(host_q)[1] \in Leaves => ~IsIn(Head(host_q), host_q')
    BY <1>1, <2>1, QueuedOnceTail
  <2> QED BY <1>2, <2>2
<1>5. /\ \A n \in Leaves, p \in Pipes : Queued(n, p)' => Queued(n, p)
      /\ \A n \in Leaves, p \in Pipes : ToReport(n, p)' <=> ToReport(n, p)
      /\ \A n \in Leaves, p \in Pipes : Checking(n, p)' => n = n0 /\ p = p0
      /\ Queued(n0, p0) /\ (n0 \in Leaves => ~Queued(n0, p0)')
  <2>1. \A n, p : (Queued(n, p) <=> IsIn(<<n, p>>, host_q))
                  /\ (Queued(n, p)' <=> IsIn(<<n, p>>, host_q'))
    BY DEF Queued, IsIn
  <2>2. \A n \in Leaves, p \in Pipes : ToReport(n, p)' <=> ToReport(n, p)
    BY <1>3 DEF ToReport
  <2>3. \A n \in Leaves, p \in Pipes : Checking(n, p)' => n = n0 /\ p = p0
    BY <1>3 DEF Checking
  <2> QED BY <1>4, <2>1, <2>2, <2>3
<1>6. \A n \in Leaves, p \in Pipes : Reporting(n, p)' => Reporting(n, p)
  BY <1>5 DEF Reporting
<1>7. LeafBound'
  BY <1>3, <1>6, BoundKept
<1>8. InFlight' = InFlight /\ Leaves' = Leaves /\ Pipes' = Pipes
  BY <1>3 DEF InFlight, Free, Pipes, Leaves
<1>9. Reports'
  <2>1. ASSUME NEW n \in Leaves, NEW p \in Pipes
        PROVE  /\ Reporting(n, p)' => p \in InFlight' /\ n \in executed'[p]
               /\ ToReport(n, p)' => ~Queued(n, p)' /\ ~Checking(n, p)'
               /\ Queued(n, p)' => ~Checking(n, p)'
    <3>1. /\ Reporting(n, p) => p \in InFlight /\ n \in executed[p]
          /\ ToReport(n, p) => ~Queued(n, p) /\ ~Checking(n, p)
      BY DEF LeafFlow, Reports
    <3>2. Reporting(n, p)' => p \in InFlight' /\ n \in executed'[p]
      BY <1>3, <1>6, <1>8, <3>1
    <3>3. ToReport(n, p)' => ~Queued(n, p)' /\ ~Checking(n, p)'
      BY <1>5, <3>1
    <3>4. Queued(n, p)' => ~Checking(n, p)'
      BY <1>5
    <3> QED BY <3>2, <3>3, <3>4
  <2> QED BY <1>8, <2>1 DEF Reports
<1>10. host'.pc = "check" => host'.node \in Leaves
  BY <1>3
<1> QED BY <1>3, <1>4, <1>7, <1>8, <1>9, <1>10 DEF LeafFlow

\* The leaf that the host looks at has run, and is not counted.
LEMMA LeafLooked ==
  ASSUME PipeTypes, LeafFlow, host.pc = "check",
         NEW m \in Nodes, NEW q \in Pipes, m = host.node, q = host.pipe
  PROVE  /\ m \in Leaves /\ Checking(m, q) /\ q \in InFlight /\ m \in executed[q]
         /\ ~Queued(m, q) /\ ~ToReport(m, q)
         /\ Accounted(q) \subseteq Leaves \ {m}
         /\ complete_leaf_nodes[q] \in Nat /\ Cardinality(Accounted(q)) \in Nat
         /\ complete_leaf_nodes[q] <= Cardinality(Accounted(q))
<1>1. m \in Leaves /\ Checking(m, q)
  BY DEF LeafFlow, Checking
<1>2. Reporting(m, q)
  BY <1>1 DEF Reporting
<1>3. q \in InFlight /\ m \in executed[q] /\ ~Queued(m, q) /\ ~ToReport(m, q)
  BY <1>1, <1>2 DEF LeafFlow, Reports
<1>4. Accounted(q) \subseteq Leaves \ {m}
  BY <1>2 DEF Accounted
<1>5. Cardinality(Accounted(q)) \in Nat
  BY <1>4, LeavesFinite
<1>6. complete_leaf_nodes[q] \in Nat /\ complete_leaf_nodes[q] <= Cardinality(Accounted(q))
  BY <1>3 DEF LeafFlow, LeafBound
<1> QED BY <1>1, <1>3, <1>4, <1>5, <1>6

\* It is the last one only when all the leaves have run and no other is reporting.
LEMMA LeafLast ==
  ASSUME PipeTypes, LeafFlow, host.pc = "check", IsLastLeaf(host.pipe),
         NEW m \in Nodes, NEW q \in Pipes, m = host.node, q = host.pipe
  PROVE  /\ q \in InFlight /\ \A l \in Leaves : l \in executed[q]
         /\ \A l \in Leaves : ~ToReport(l, q) /\ ~Queued(l, q)
<1>1. /\ m \in Leaves /\ q \in InFlight /\ m \in executed[q]
      /\ ~Queued(m, q) /\ ~ToReport(m, q)
      /\ Accounted(q) \subseteq Leaves \ {m}
      /\ complete_leaf_nodes[q] \in Nat /\ Cardinality(Accounted(q)) \in Nat
      /\ complete_leaf_nodes[q] <= Cardinality(Accounted(q))
  BY LeafLooked
<1>2. complete_leaf_nodes[q] + 1 = Cardinality(Leaves)
  BY DEF IsLastLeaf
<1>3. /\ Accounted(q) \cup {m} \subseteq Leaves /\ IsFiniteSet(Accounted(q))
      /\ IsFiniteSet(Leaves)
  BY <1>1, LeavesFinite
<1>4. Cardinality(Accounted(q) \cup {m}) = Cardinality(Accounted(q)) + 1
  BY <1>1, <1>3, FS_AddElement
<1>5. Cardinality(Accounted(q) \cup {m}) <= Cardinality(Leaves)
  BY <1>3, FS_Subset
<1>6. Cardinality(Accounted(q) \cup {m}) = Cardinality(Leaves)
  BY <1>1, <1>2, <1>4, <1>5
<1>7. Accounted(q) \cup {m} = Leaves
  BY <1>3, <1>6, FS_Subset
<1>8. \A l \in Leaves : l = m \/ (l \in executed[q] /\ ~Reporting(l, q))
  BY <1>7 DEF Accounted
<1> QED BY <1>1, <1>8 DEF Reporting

\* Another leaf is counted.
LEMMA LeafCounted ==
  ASSUME PipeTypes, LeafFlow, LeafCompleted, UNCHANGED pipe_vars
  PROVE  LeafFlow'
<1>1. PICK m \in Nodes, q \in Pipes : m = host.node /\ q = host.pipe
  BY DEF PipeTypes, SchedulerTypes, HostStates
<1>2. /\ host.pc = "check" /\ ~IsLastLeaf(q) /\ host'.pc = "action"
      /\ complete_leaf_nodes' = [complete_leaf_nodes EXCEPT ![q] = complete_leaf_nodes[q] + 1]
      /\ UNCHANGED <<free_q, executed, host_q, task>>
  <2>1. /\ host.pc = "check" /\ ~IsLastLeaf(q) /\ host' = [host EXCEPT !.pc = "action"]
        /\ complete_leaf_nodes' = [complete_leaf_nodes EXCEPT ![q] = LeafNodesAfter(q)]
        /\ UNCHANGED <<free_q, executed, host_q, task>>
    BY <1>1 DEF LeafCompleted, sched_vars, pipe_vars
  <2>2. LeafNodesAfter(q) = complete_leaf_nodes[q] + 1
    BY <2>1 DEF LeafNodesAfter
  <2>3. host \in HostStates
    BY DEF PipeTypes, SchedulerTypes
  <2>4. host'.pc = "action"
    BY <2>1, <2>3 DEF HostStates
  <2> QED BY <2>1, <2>2, <2>4
<1>3. /\ m \in Leaves /\ Checking(m, q) /\ q \in InFlight /\ m \in executed[q]
      /\ ~Queued(m, q) /\ ~ToReport(m, q)
      /\ Accounted(q) \subseteq Leaves \ {m}
      /\ complete_leaf_nodes[q] \in Nat /\ Cardinality(Accounted(q)) \in Nat
      /\ complete_leaf_nodes[q] <= Cardinality(Accounted(q))
  BY <1>1, <1>2, LeafLooked
<1>4. InFlight' = InFlight /\ Leaves' = Leaves /\ Pipes' = Pipes
  BY <1>2 DEF InFlight, Free, Pipes, Leaves
<1>5. \A n \in Leaves, p \in Pipes : /\ ToReport(n, p)' <=> ToReport(n, p)
                                     /\ Queued(n, p)' <=> Queued(n, p)
                                     /\ ~Checking(n, p)'
  BY <1>2 DEF ToReport, Queued, Checking
<1>6. Reports'
  BY <1>2, <1>4, <1>5 DEF LeafFlow, Reports, Reporting
<1>7. /\ complete_leaf_nodes' \in [Pipes -> Nat]
      /\ complete_leaf_nodes'[q] = complete_leaf_nodes[q] + 1
      /\ \A p \in Pipes \ {q} : complete_leaf_nodes'[p] = complete_leaf_nodes[p]
  BY <1>2, <1>3 DEF LeafFlow
<1>8. \A p \in Pipes : Accounted(p) \subseteq Accounted(p)' /\ Accounted(p)' \subseteq Leaves
  BY <1>2, <1>4, <1>5 DEF Accounted, Reporting
<1>9. m \in Accounted(q)' /\ m \notin Accounted(q)
  BY <1>2, <1>3, <1>4, <1>5 DEF Accounted, Reporting
<1>10. ASSUME NEW p \in Pipes
       PROVE  /\ p \in InFlight' => complete_leaf_nodes'[p] <= Cardinality(Accounted(p)')
              /\ p \notin InFlight' => complete_leaf_nodes'[p] = 0
  <2>1. /\ p \in InFlight => complete_leaf_nodes[p] <= Cardinality(Accounted(p))
        /\ p \notin InFlight => complete_leaf_nodes[p] = 0
        /\ complete_leaf_nodes[p] \in Nat
    BY DEF LeafFlow, LeafBound
  <2>2. Accounted(p) \subseteq Leaves /\ Accounted(p)' \subseteq Leaves
    BY <1>8
  <2>3. /\ Cardinality(Accounted(p)) \in Nat /\ Cardinality(Accounted(p)') \in Nat
        /\ IsFiniteSet(Accounted(p)) /\ IsFiniteSet(Accounted(p)')
    BY <2>2, LeavesFinite
  <2>4. CASE p = q
    <3>1. Cardinality(Accounted(q) \cup {m}) = Cardinality(Accounted(q)) + 1
      BY <1>9, <2>3, <2>4, FS_AddElement
    <3>2. Accounted(q) \cup {m} \subseteq Accounted(q)'
      BY <1>8, <1>9
    <3>3. Cardinality(Accounted(q) \cup {m}) <= Cardinality(Accounted(q)')
      BY <2>3, <2>4, <3>2, FS_Subset
    <3> QED BY <1>3, <1>4, <1>7, <2>3, <2>4, <3>1, <3>3
  <2>5. CASE p # q
    <3>1. Cardinality(Accounted(p)) <= Cardinality(Accounted(p)')
      BY <1>8, <2>3, FS_Subset
    <3>2. complete_leaf_nodes'[p] = complete_leaf_nodes[p]
      BY <1>7, <2>5
    <3> QED BY <1>4, <2>1, <2>3, <3>1, <3>2
  <2> QED BY <2>4, <2>5
<1>11. LeafBound'
  BY <1>4, <1>10 DEF LeafBound
<1>12. QueuedOnce'
  BY <1>2, <1>4 DEF LeafFlow, QueuedOnce
<1> QED BY <1>2, <1>4, <1>6, <1>7, <1>11, <1>12 DEF LeafFlow

\* The execution ends and its counter is reset.
LEMMA LeafEnds ==
  ASSUME PipeTypes, Flow, LeafFlow, GraphCompleted, UNCHANGED pipe_vars
  PROVE  LeafFlow'
<1>1. PICK m \in Nodes, q \in Pipes : m = host.node /\ q = host.pipe
  BY DEF PipeTypes, SchedulerTypes, HostStates
<1>2. /\ host.pc = "check" /\ IsLastLeaf(q) /\ host'.pc \in {"reschedule", "action"}
      /\ complete_leaf_nodes' = [complete_leaf_nodes EXCEPT ![q] = 0]
      /\ free_q' = Append(free_q, q)
      /\ UNCHANGED <<executed, host_q, task>>
  <2>1. /\ host.pc = "check" /\ IsLastLeaf(q)
        /\ host' = [host EXCEPT !.pc = IF schedule_pending_count > 0
                                       THEN "reschedule" ELSE "action",
                                !.schedule_count = schedule_pending_count]
        /\ complete_leaf_nodes' = [complete_leaf_nodes EXCEPT ![q] = LeafNodesAfter(q)]
        /\ free_q' = Append(free_q, q)
        /\ UNCHANGED <<executed, host_q, task>>
    BY <1>1 DEF GraphCompleted, FreeQueueWith, pipe_vars
  <2>2. LeafNodesAfter(q) = 0
    BY <2>1 DEF LeafNodesAfter
  <2>3. host \in HostStates
    BY DEF PipeTypes, SchedulerTypes
  <2>4. host'.pc \in {"reschedule", "action"}
    BY <2>1, <2>3 DEF HostStates
  <2> QED BY <2>1, <2>2, <2>4
<1>3. /\ q \in InFlight /\ \A l \in Leaves : l \in executed[q]
      /\ \A l \in Leaves : ~ToReport(l, q) /\ ~Queued(l, q)
  BY <1>1, <1>2, LeafLast
<1>4. Leaves' = Leaves /\ Pipes' = Pipes
  BY DEF Pipes, Leaves
<1>5. \A p \in Pipes : p \in InFlight' <=> p \in InFlight /\ p # q
  <2>1. free_q \in Seq(Pipes)
    BY DEF PipeTypes, SchedulerTypes
  <2>2. \A p : IsIn(p, free_q') <=> IsIn(p, free_q) \/ p = q
    BY <1>2, <2>1, AppendIsIn
  <2>3. \A p \in Pipes : /\ p \in InFlight <=> ~IsIn(p, free_q)
                         /\ p \in InFlight' <=> ~IsIn(p, free_q')
    BY <1>4 DEF InFlight, Free, IsIn
  <2> QED BY <2>2, <2>3
<1>6. \A n \in Leaves, p \in Pipes : /\ ToReport(n, p)' <=> ToReport(n, p)
                                     /\ Queued(n, p)' <=> Queued(n, p)
                                     /\ ~Checking(n, p)'
  BY <1>2 DEF ToReport, Queued, Checking
<1>7. Reports'
  <2>1. ASSUME NEW n \in Leaves, NEW p \in Pipes
        PROVE  /\ Reporting(n, p)' => p \in InFlight' /\ n \in executed'[p]
               /\ ToReport(n, p)' => ~Queued(n, p)' /\ ~Checking(n, p)'
               /\ Queued(n, p)' => ~Checking(n, p)'
    <3>1. /\ Reporting(n, p) => p \in InFlight /\ n \in executed[p]
          /\ ToReport(n, p) => ~Queued(n, p)
      BY DEF LeafFlow, Reports
    <3>2. Reporting(n, p)' => Reporting(n, p) /\ p # q
      BY <1>3, <1>6 DEF Reporting
    <3> QED BY <1>2, <1>5, <1>6, <3>1, <3>2
  <2> QED BY <1>4, <2>1 DEF Reports
<1>8. /\ complete_leaf_nodes' \in [Pipes -> Nat] /\ complete_leaf_nodes'[q] = 0
      /\ \A p \in Pipes \ {q} : complete_leaf_nodes'[p] = complete_leaf_nodes[p]
  BY <1>2 DEF LeafFlow
<1>9. ASSUME NEW p \in Pipes
      PROVE  /\ p \in InFlight' => complete_leaf_nodes'[p] <= Cardinality(Accounted(p)')
             /\ p \notin InFlight' => complete_leaf_nodes'[p] = 0
  <2>1. CASE p = q
    BY <1>5, <1>8, <2>1
  <2>2. CASE p # q
    <3>1. Accounted(p) \subseteq Accounted(p)' /\ Accounted(p)' \subseteq Leaves
      BY <1>2, <1>4, <1>6 DEF Accounted, Reporting
    <3>2. /\ Cardinality(Accounted(p)) \in Nat /\ Cardinality(Accounted(p)') \in Nat
          /\ Cardinality(Accounted(p)) <= Cardinality(Accounted(p)')
      BY <3>1, LeavesFinite, FS_Subset
    <3>3. /\ p \in InFlight => complete_leaf_nodes[p] <= Cardinality(Accounted(p))
          /\ p \notin InFlight => complete_leaf_nodes[p] = 0
          /\ complete_leaf_nodes[p] \in Nat
      BY DEF LeafFlow, LeafBound
    <3> QED BY <1>5, <1>8, <2>2, <3>2, <3>3
  <2> QED BY <2>1, <2>2
<1>10. LeafBound'
  BY <1>4, <1>9 DEF LeafBound
<1>11. QueuedOnce'
  BY <1>2, <1>4 DEF LeafFlow, QueuedOnce
<1> QED BY <1>2, <1>7, <1>8, <1>10, <1>11 DEF LeafFlow

\* A leaf that runs begins to report.
LEMMA LeafExecutes ==
  ASSUME PipeTypes, Flow, LeafFlow, NEW t \in Targets, ExecuteNode(t)
  PROVE  LeafFlow'
<1>1. PICK n0 \in Nodes, p0 \in Pipes : n0 = task[t].node /\ p0 = task[t].pipe
  BY TaskTypes
<1>2. /\ task[t].pc = "execute"
      /\ executed' = [executed EXCEPT ![p0] = executed[p0] \cup {n0}]
      /\ UNCHANGED <<free_q, complete_leaf_nodes, host_q, host>>
  BY <1>1 DEF ExecuteNode
<1>3. executed \in [Pipes -> SUBSET Nodes]
  BY DEF PipeTypes, SchedulerTypes
<1>4. /\ \A r \in Pipes : executed[r] \subseteq executed'[r]
      /\ executed'[p0] = executed[p0] \cup {n0}
      /\ \A r \in Pipes \ {p0} : executed'[r] = executed[r]
  BY <1>2, <1>3
<1>5. p0 \in InFlight /\ n0 \notin executed[p0]
  <2>1. Pending(n0, p0)
    BY <1>1, <1>2 DEF Runs, Pending
  <2> QED BY <2>1 DEF Flow, Ready
<1>6. InFlight' = InFlight /\ Leaves' = Leaves /\ Pipes' = Pipes
  BY <1>2 DEF InFlight, Free, Pipes, Leaves
<1>7. ASSUME NEW n \in Leaves, NEW p \in Pipes
      PROVE  /\ Queued(n, p)' <=> Queued(n, p)
             /\ Checking(n, p)' <=> Checking(n, p)
             /\ ToReport(n, p)' <=> ToReport(n, p) \/ (n = n0 /\ p = p0)
  <2>1. /\ task \in [Targets -> Tasks] /\ task' = [task EXCEPT ![t] = task'[t]]
        /\ task'[t].pc = "release" /\ task'[t].node = n0 /\ task'[t].pipe = p0
    BY <1>1, TaskTypes, ExecuteNodeTask
  <2>2. \A u \in Targets \ {t} : task'[u] = task[u]
    BY <2>1
  <2>3. ToReport(n, p)' <=> ToReport(n, p) \/ (n = n0 /\ p = p0)
    BY <1>2, <2>1, <2>2 DEF ToReport
  <2> QED BY <1>2, <2>3 DEF Queued, Checking
<1>8. n0 \in Leaves => ~Reporting(n0, p0)
  BY <1>5 DEF LeafFlow, Reports
<1>9. Reports'
  <2>1. ASSUME NEW n \in Leaves, NEW p \in Pipes
        PROVE  /\ Reporting(n, p)' => p \in InFlight' /\ n \in executed'[p]
               /\ ToReport(n, p)' => ~Queued(n, p)' /\ ~Checking(n, p)'
               /\ Queued(n, p)' => ~Checking(n, p)'
    <3>1. /\ Reporting(n, p) => p \in InFlight /\ n \in executed[p]
          /\ ToReport(n, p) => ~Queued(n, p) /\ ~Checking(n, p)
          /\ Queued(n, p) => ~Checking(n, p)
      BY DEF LeafFlow, Reports
    <3>2. CASE n = n0 /\ p = p0
      BY <1>4, <1>5, <1>6, <1>7, <1>8, <3>2 DEF Reporting
    <3>3. CASE ~(n = n0 /\ p = p0)
      BY <1>4, <1>6, <1>7, <3>1, <3>3 DEF Reporting
    <3> QED BY <3>2, <3>3
  <2> QED BY <1>6, <2>1 DEF Reports
<1>10. ASSUME NEW p \in Pipes PROVE Accounted(p) \subseteq Accounted(p)'
  <2>1. ASSUME NEW l \in Accounted(p) PROVE l \in Accounted(p)'
    <3>1. l \in Leaves /\ l \in executed[p] /\ ~Reporting(l, p)
      BY DEF Accounted
    <3>2. ~(l = n0 /\ p = p0)
      BY <1>5, <3>1
    <3>3. l \in Leaves' /\ l \in executed'[p] /\ ~Reporting(l, p)'
      BY <1>4, <1>6, <1>7, <3>1, <3>2 DEF Reporting
    <3> QED BY <3>3 DEF Accounted
  <2> QED BY <2>1
<1>11. ASSUME NEW p \in Pipes, p \in InFlight
       PROVE  complete_leaf_nodes[p] <= Cardinality(Accounted(p)')
  <2>1. Accounted(p) \subseteq Accounted(p)' /\ Accounted(p)' \subseteq Leaves
    BY <1>6, <1>10 DEF Accounted
  <2>2. /\ Cardinality(Accounted(p)) \in Nat /\ Cardinality(Accounted(p)') \in Nat
        /\ Cardinality(Accounted(p)) <= Cardinality(Accounted(p)')
    BY <2>1, LeavesFinite, FS_Subset
  <2>3. complete_leaf_nodes[p] \in Nat /\ complete_leaf_nodes[p] <= Cardinality(Accounted(p))
    BY <1>11 DEF LeafFlow, LeafBound
  <2> QED BY <2>2, <2>3
<1>12. LeafBound'
  BY <1>2, <1>6, <1>11 DEF LeafFlow, LeafBound
<1>13. QueuedOnce'
  BY <1>2, <1>6 DEF LeafFlow, QueuedOnce
<1> QED BY <1>2, <1>6, <1>9, <1>12, <1>13 DEF LeafFlow

\* An execution that starts has counted no leaf, and none reports.
LEMMA LeafStarts ==
  ASSUME PipeTypes, Flow, LeafFlow, NEW num \in Nat, OwnGraphScheduleGraph(num),
         UNCHANGED <<complete_leaf_nodes, host_q, task>>,
         host' = host \/ (host.pc # "check" /\ host'.pc # "check")
  PROVE  LeafFlow'
<1>1. /\ \A p \in Pipes : p \in InFlight' <=> p \in InFlight \/ StartedPipe(p, num)
      /\ \A p \in Pipes : StartedPipe(p, num) => p \notin InFlight /\ executed'[p] = {}
      /\ \A p \in Pipes : ~StartedPipe(p, num) => executed'[p] = executed[p]
  <2>1. SchedulerTypes /\ Distinct(free_q)
    BY DEF PipeTypes, Flow
  <2> QED BY <2>1, StartedFlight
<1>2. Leaves' = Leaves /\ Pipes' = Pipes
  BY DEF Leaves, Pipes
<1>3. \A n \in Leaves, p \in Pipes : /\ ToReport(n, p)' <=> ToReport(n, p)
                                     /\ Queued(n, p)' <=> Queued(n, p)
                                     /\ Checking(n, p)' <=> Checking(n, p)
  BY DEF ToReport, Queued, Checking
<1>4. Reports'
  <2>1. ASSUME NEW n \in Leaves, NEW p \in Pipes
        PROVE  /\ Reporting(n, p)' => p \in InFlight' /\ n \in executed'[p]
               /\ ToReport(n, p)' => ~Queued(n, p)' /\ ~Checking(n, p)'
               /\ Queued(n, p)' => ~Checking(n, p)'
    <3>1. /\ Reporting(n, p) => p \in InFlight /\ n \in executed[p]
          /\ ToReport(n, p) => ~Queued(n, p) /\ ~Checking(n, p)
          /\ Queued(n, p) => ~Checking(n, p)
      BY DEF LeafFlow, Reports
    <3>2. Reporting(n, p)' <=> Reporting(n, p)
      BY <1>3 DEF Reporting
    <3> QED BY <1>1, <1>3, <3>1, <3>2
  <2> QED BY <1>2, <2>1 DEF Reports
<1>5. ASSUME NEW p \in Pipes
      PROVE  /\ p \in InFlight' => complete_leaf_nodes[p] <= Cardinality(Accounted(p)')
             /\ p \notin InFlight' => complete_leaf_nodes[p] = 0
  <2>1. /\ p \in InFlight => complete_leaf_nodes[p] <= Cardinality(Accounted(p))
        /\ p \notin InFlight => complete_leaf_nodes[p] = 0
        /\ complete_leaf_nodes[p] \in Nat
    BY DEF LeafFlow, LeafBound
  <2>2. Accounted(p)' \subseteq Leaves
    BY <1>2 DEF Accounted
  <2>3. Cardinality(Accounted(p)') \in Nat
    BY <2>2, LeavesFinite
  <2>4. CASE StartedPipe(p, num)
    BY <1>1, <2>1, <2>3, <2>4
  <2>5. CASE ~StartedPipe(p, num)
    <3>1. Accounted(p)' = Accounted(p)
      BY <1>1, <1>2, <1>3, <2>5 DEF Accounted, Reporting
    <3> QED BY <1>1, <2>1, <2>5, <3>1
  <2> QED BY <2>4, <2>5
<1>6. LeafBound'
  BY <1>2, <1>5 DEF LeafBound
<1>7. QueuedOnce'
  BY <1>2 DEF LeafFlow, QueuedOnce
<1> QED BY <1>2, <1>4, <1>6, <1>7 DEF LeafFlow

-----------------------------------------------------------------------------
\* All the steps.

\* A step that moves no node and looks at no leaf.
LEMMA QuietFlow ==
  ASSUME Flow, LeafFlow, UNCHANGED <<free_q, executed, complete_leaf_nodes>>,
         UNCHANGED <<job_q, next_blocked, task, outbox, blocked_nodes>>, QueuedOnce',
         \A n \in Leaves, p \in Pipes : /\ Queued(n, p)' => Queued(n, p)
                                        /\ Checking(n, p)' => Checking(n, p),
         host'.pc = "check" => host' = host
  PROVE  Flow' /\ LeafFlow'
<1>1. DistinctQueues' /\ \A n \in Nodes, p \in Pipes : StillOnce(n, p)
  BY QuietStillOnce DEF Flow
<1>2. TriggerEnds'
  BY DEF Flow, TriggerEnds
<1>3. \A t \in Targets, n \in Nodes, p \in Pipes : Will(t, n, p)' => Will(t, n, p)
  BY DEF Will
<1>4. Flow'
  BY <1>1, <1>2, <1>3, FlowKept
<1>5. \A n \in Leaves, p \in Pipes : ToReport(n, p)' => ToReport(n, p)
  BY DEF ToReport
<1>6. LeafFlow'
  BY <1>5, LeafKept
<1> QED BY <1>4, <1>6

\* A step that leaves the host, its queue and the tasks' reports alone.
LEMMA QuietLeaf ==
  ASSUME LeafFlow, UNCHANGED <<free_q, executed, complete_leaf_nodes, host_q, host>>,
         \A n \in Leaves, p \in Pipes : ToReport(n, p)' => ToReport(n, p)
  PROVE  LeafFlow'
<1>1. QueuedOnce'
  <2>1. Leaves' = Leaves
    BY DEF Leaves
  <2> QED BY <2>1 DEF LeafFlow, QueuedOnce
<1>2. \A n \in Leaves, p \in Pipes : /\ Queued(n, p)' => Queued(n, p)
                                     /\ Checking(n, p)' => Checking(n, p)
  BY DEF Queued, Checking
<1> QED BY <1>1, <1>2, LeafKept

LEMMA TaskReports ==
  ASSUME PipeTypes, NEW t \in Targets,
         \/ FetchNode(t) \/ AcquireParameter(t) \/ ReleaseParameter(t)
         \/ TriggerNextNode(t) \/ TriggerNextPipe(t)
  PROVE  \A n \in Leaves, p \in Pipes : ToReport(n, p)' => ToReport(n, p)
<1>1. task \in [Targets -> Tasks] /\ task[t] \in Tasks
  BY TaskTypes
<1>2. IdleTask.pc = "idle"
  BY TaskFacts
<1>3. ASSUME \A u \in Targets \ {t} : task'[u] = task[u],
             \/ task'[t] = task[t] \/ task'[t].pc \notin {"release", "complete"}
             \/ /\ task[t].pc = "release"
                /\ task'[t].node = task[t].node /\ task'[t].pipe = task[t].pipe
      PROVE  \A n \in Leaves, p \in Pipes : ToReport(n, p)' => ToReport(n, p)
  <2>1. ASSUME NEW n \in Leaves, NEW p \in Pipes, NEW u \in Targets,
               task'[u].pc \in {"release", "complete"},
               task'[u].node = n, task'[u].pipe = p
        PROVE  /\ task[u].pc \in {"release", "complete"}
               /\ task[u].node = n /\ task[u].pipe = p
    <3>1. CASE u = t
      BY <1>3, <2>1, <3>1
    <3>2. CASE u # t
      BY <1>3, <2>1, <3>2
    <3> QED BY <3>1, <3>2
  <2> QED BY <2>1 DEF ToReport
<1>4. CASE FetchNode(t)
  <2>1. UNCHANGED task \/ \E n \in Nodes, p \in Pipes : task' = [task EXCEPT ![t] = TakenNode(n, p)]
    BY <1>4, FetchNodeEffect
  <2>2. \A n \in Nodes, p \in Pipes : TakenNode(n, p).pc = "acquire"
    BY TaskFacts
  <2>3. /\ \A u \in Targets \ {t} : task'[u] = task[u]
        /\ task'[t] = task[t] \/ task'[t].pc = "acquire"
    BY <1>1, <2>1, <2>2
  <2> QED BY <1>3, <2>3
<1>5. CASE AcquireParameter(t)
  <2>1. task' = [task EXCEPT ![t] = task'[t]] /\ (Proceeds(t) \/ Parks(t))
    BY <1>5, AcquireParameterEffect
  <2>2. task'[t].pc \in {"idle", "acquire", "execute"}
    BY <1>2, <2>1 DEF Proceeds, Parks
  <2>3. \A u \in Targets \ {t} : task'[u] = task[u]
    BY <1>1, <2>1
  <2> QED BY <1>3, <2>2, <2>3
<1>6. CASE ReleaseParameter(t)
  <2>1. task' = [task EXCEPT ![t] = task'[t]] /\ task[t].pc = "release"
    BY <1>6, AfterRunning DEF ReleaseParameter
  <2>2. \/ task'[t].node = task[t].node /\ task'[t].pipe = task[t].pipe
        \/ task'[t] = IdleTask
    BY <1>6, AfterRunning
  <2>3. \A u \in Targets \ {t} : task'[u] = task[u]
    BY <1>1, <2>1
  <2> QED BY <1>2, <1>3, <2>1, <2>2, <2>3
<1>7. CASE TriggerNextNode(t)
  <2> DEFINE tk == [task[t] EXCEPT !.prm = task[t].prm + 1]
  <2>1. task' = [task EXCEPT ![t] = Finished(tk)] /\ task[t].pc = "trigger"
    BY <1>7 DEF TriggerNextNode
  <2>2. tk.pc = "trigger"
    BY <1>1, <2>1 DEF Tasks
  <2> HIDE DEF tk
  <2>3. Finished(tk) = tk \/ Finished(tk) = IdleTask
    BY DEF Finished
  <2>4. task'[t] = Finished(tk) /\ \A u \in Targets \ {t} : task'[u] = task[u]
    BY <1>1, <2>1
  <2>5. task'[t].pc \in {"idle", "trigger"}
    BY <1>2, <2>2, <2>3, <2>4
  <2> QED BY <1>3, <2>4, <2>5
<1>8. CASE TriggerNextPipe(t)
  <2>1. task'[t] = IdleTask /\ \A u \in Targets \ {t} : task'[u] = task[u]
    BY <1>1, <1>8 DEF TriggerNextPipe
  <2> QED BY <1>2, <1>3, <2>1
<1> QED BY <1>4, <1>5, <1>6, <1>7, <1>8

\* The steps of a target's task.
LEMMA TargetFlow ==
  ASSUME PipeTypes, PipeTypes', OwnTargets, Flow, LeafFlow, NEW t \in Targets, TargetNext(t),
         \A n \in Nodes : \A m1, m2 \in InNodes[n] : TargetOf[m1] = TargetOf[m2]
  PROVE  Flow' /\ LeafFlow'
<1>1. TriggerEnds'
  BY TargetEnds DEF Flow
<1>2. DistinctQueues /\ Once /\ TriggerEnds
  BY DEF Flow
<1>3. ASSUME UNCHANGED <<free_q, executed>>,
             DistinctQueues' /\ \A n \in Nodes, p \in Pipes : StillOnce(n, p),
             \/ FetchNode(t) \/ AcquireParameter(t) \/ ReleaseParameter(t)
             \/ SendComplete(t) \/ TriggerNextNode(t) \/ TriggerNextPipe(t)
      PROVE  Flow'
  <2>1. \A u \in Targets, n \in Nodes, p \in Pipes : Will(u, n, p)' => Will(u, n, p)
    BY <1>3, TaskWill
  <2> QED BY <1>1, <1>3, <2>1, FlowKept
<1>4. ASSUME UNCHANGED <<free_q, executed, complete_leaf_nodes, host_q, host>>,
             \/ FetchNode(t) \/ AcquireParameter(t) \/ ReleaseParameter(t)
             \/ TriggerNextNode(t) \/ TriggerNextPipe(t)
      PROVE  LeafFlow'
  <2>1. \A n \in Leaves, p \in Pipes : ToReport(n, p)' => ToReport(n, p)
    BY <1>4, TaskReports
  <2> QED BY <1>4, <2>1, QuietLeaf
<1>5. CASE FetchNode(t)
  <2>1. UNCHANGED <<free_q, executed, complete_leaf_nodes, host_q, host>>
    BY <1>5 DEF FetchNode, vars, sched_vars
  <2>2. DistinctQueues' /\ \A n \in Nodes, p \in Pipes : StillOnce(n, p)
    BY <1>2, <1>5, FetchStillOnce
  <2> QED BY <1>3, <1>4, <1>5, <2>1, <2>2
<1>6. CASE AcquireParameter(t)
  <2>1. UNCHANGED <<free_q, executed, complete_leaf_nodes, host_q, host>>
    BY <1>6, AcquireParameterEffect DEF sched_vars
  <2>2. DistinctQueues' /\ \A n \in Nodes, p \in Pipes : StillOnce(n, p)
    BY <1>2, <1>6, AcquireStillOnce
  <2> QED BY <1>3, <1>4, <1>6, <2>1, <2>2
<1>7. CASE ExecuteNode(t)
  BY <1>7, FlowExecutes, LeafExecutes
<1>8. CASE ReleaseParameter(t)
  <2>1. UNCHANGED <<free_q, executed, complete_leaf_nodes, host_q, host>>
    BY <1>8 DEF ReleaseParameter, vars, sched_vars
  <2>2. DistinctQueues' /\ \A n \in Nodes, p \in Pipes : StillOnce(n, p)
    <3>1. \/ ReleaseParameter(t) \/ SendComplete(t)
          \/ (TriggerNextNode(t) /\ UNCHANGED outbox)
      BY <1>8
    <3> QED BY <1>2, <3>1, ReleaseStillOnce
  <2> QED BY <1>3, <1>4, <1>8, <2>1, <2>2
<1>9. CASE SendComplete(t)
  <2>1. UNCHANGED <<free_q, executed>>
    BY <1>9 DEF SendComplete, sched_vars
  <2>2. DistinctQueues' /\ \A n \in Nodes, p \in Pipes : StillOnce(n, p)
    <3>1. \/ ReleaseParameter(t) \/ SendComplete(t)
          \/ (TriggerNextNode(t) /\ UNCHANGED outbox)
      BY <1>9
    <3> QED BY <1>2, <3>1, ReleaseStillOnce
  <2> QED BY <1>3, <1>9, <2>1, <2>2, LeafSends
<1>10. CASE TriggerNextNode(t)
  <2>1. UNCHANGED <<free_q, executed, complete_leaf_nodes, host_q, host>>
    BY <1>10 DEF TriggerNextNode, vars, sched_vars
  <2> QED BY <1>4, <1>10, <2>1, FlowFeeds
<1>11. CASE TriggerNextPipe(t)
  <2>1. UNCHANGED <<free_q, executed, complete_leaf_nodes, host_q, host>>
    BY <1>11 DEF TriggerNextPipe, vars, sched_vars
  <2>2. task[t].retrigger
    BY <1>2, <1>11 DEF TriggerEnds, TriggerNextPipe
  <2>3. DistinctQueues' /\ \A n \in Nodes, p \in Pipes : StillOnce(n, p)
    BY <1>2, <1>11, <2>2, NextPipeStillOnce
  <2> QED BY <1>3, <1>4, <1>11, <2>1, <2>3
<1> QED BY <1>5, <1>6, <1>7, <1>8, <1>9, <1>10, <1>11 DEF TargetNext

\* A descriptor is handed to its target.
LEMMA SendFlow ==
  ASSUME PipeTypes, OwnTargets, Flow, LeafFlow, NEW th \in Threads, SendNext(th)
  PROVE  Flow' /\ LeafFlow'
<1>1. UNCHANGED <<free_q, executed, complete_leaf_nodes, host, task>>
  BY DEF SendNext, sched_vars
<1>2. DistinctQueues' /\ \A n \in Nodes, p \in Pipes : StillOnce(n, p)
  BY SendStillOnce DEF Flow
<1>3. TriggerEnds' /\ \A t \in Targets, n \in Nodes, p \in Pipes : Will(t, n, p)' => Will(t, n, p)
  BY <1>1 DEF Will, TriggerEnds, Flow
<1>4. Flow'
  BY <1>1, <1>2, <1>3, FlowKept
<1>5. QueuedOnce' /\ \A n \in Leaves, p \in Pipes : Queued(n, p)' => Queued(n, p)
  <2>1. PICK msg \in Messages : /\ msg = Head(outbox[th])
                                /\ \/ msg.to # "host" /\ UNCHANGED host_q
                                   \/ msg.to = "host" /\ host_q' = Put(host_q, <<msg.item>>)
    <3>1. outbox[th] \in Seq(Messages) /\ outbox[th] # <<>>
      BY DEF PipeTypes, MessageTypes, SendNext
    <3>2. Head(outbox[th]) \in Messages
      BY <3>1, FromTail
    <3>3. \/ Head(outbox[th]).to # "host" /\ UNCHANGED host_q
          \/ /\ Head(outbox[th]).to = "host"
             /\ host_q' = Put(host_q, <<Head(outbox[th]).item>>)
      BY DEF SendNext
    <3> QED BY <3>2, <3>3
  <2>2. CASE UNCHANGED host_q
    <3>1. Leaves' = Leaves
      BY DEF Leaves
    <3> QED BY <2>2, <3>1 DEF LeafFlow, QueuedOnce, Queued
  <2>3. CASE msg.to = "host" /\ host_q' = Put(host_q, <<msg.item>>)
    <3>1. msg.item \in Consumptions /\ msg.item \in Commands
      BY <2>3, MessageFacts
    <3>2. msg.item[1] = "ref_consumed"
      BY <3>1 DEF Consumptions
    <3>3. host_q \in Seq(Commands) /\ Len(host_q) <= MaxJobs /\ QueuedOnce
      BY DEF PipeTypes, MessageTypes, LeafFlow
    <3>4. msg.item[1] \notin Leaves
      BY <3>2, LeafNames
    <3>5. /\ QueuedOnce'
          /\ \A a : IsIn(a, host_q') => IsIn(a, host_q) \/ a = msg.item
      BY <2>3, <3>1, <3>3, <3>4, QueuedOncePut
    <3>6. ASSUME NEW n \in Leaves, NEW p \in Pipes, Queued(n, p)' PROVE Queued(n, p)
      <4>1. IsIn(<<n, p>>, host_q')
        BY <3>6 DEF Queued, IsIn
      <4>2. <<n, p>> # msg.item
        BY <3>4
      <4>3. IsIn(<<n, p>>, host_q)
        BY <3>5, <4>1, <4>2
      <4> QED BY <4>3 DEF Queued, IsIn
    <3> QED BY <3>5, <3>6
  <2> QED BY <2>1, <2>2, <2>3
<1>6. \A n \in Leaves, p \in Pipes : /\ ToReport(n, p)' => ToReport(n, p)
                                     /\ Checking(n, p)' => Checking(n, p)
  BY <1>1 DEF ToReport, Checking
<1>7. LeafFlow'
  BY <1>1, <1>5, <1>6, LeafKept
<1> QED BY <1>4, <1>7

\* The application's steps.
LEMMA FeederFlow ==
  ASSUME PipeTypes, PipeTypes', OwnTargets, Flow, LeafFlow, NEW a \in Apps, FeederNext(a)
  PROVE  Flow' /\ LeafFlow'
<1>1. CASE FeedBegin(a)
  <2>1. /\ UNCHANGED <<free_q, executed, complete_leaf_nodes, host_q, host>>
        /\ UNCHANGED <<job_q, next_blocked, task, outbox, blocked_nodes>>
    BY <1>1 DEF FeedBegin, VxEnqueueReadyRef, pipe_vars, sched_vars
  <2>2. QueuedOnce' /\ \A n \in Leaves, p \in Pipes : /\ Queued(n, p)' => Queued(n, p)
                                                      /\ Checking(n, p)' => Checking(n, p)
    <3>1. Leaves' = Leaves
      BY DEF Leaves
    <3> QED BY <2>1, <3>1 DEF LeafFlow, QueuedOnce, Queued, Checking
  <2> QED BY <2>1, <2>2, QuietFlow
<1>2. CASE Feed(a)
  <2>1. PICK r \in held[Param0] : EnqueueReady(Param0, r, a)
    BY <1>2 DEF Feed
  <2>2. /\ outbox[a] = <<>> /\ UNCHANGED <<job_q, next_blocked, task>>
        /\ UNCHANGED <<free_q, executed, complete_leaf_nodes, host_q, host>>
        /\ a \in Threads /\ Param0 \in UserData
    BY <1>2, GraphAssumption DEF Feed, EnqueueRef, sched_vars, Threads
  <2>3. DistinctQueues' /\ \A n \in Nodes, p \in Pipes : StillOnce(n, p)
    BY <2>1, <2>2, EnqueueStillOnce DEF Flow
  <2>4. TriggerEnds' /\ \A t \in Targets, n \in Nodes, p \in Pipes : Will(t, n, p)' => Will(t, n, p)
    BY <2>2 DEF Will, TriggerEnds, Flow
  <2>5. \A n \in Leaves, p \in Pipes : ToReport(n, p)' => ToReport(n, p)
    BY <2>2 DEF ToReport
  <2>6. Flow'
    BY <2>2, <2>3, <2>4, FlowKept
  <2>7. LeafFlow'
    BY <2>2, <2>5, QuietLeaf
  <2> QED BY <2>6, <2>7
<1>3. CASE FeedSchedule(a)
  <2>1. /\ app[a].n \in Nat /\ OwnGraphScheduleGraph(app[a].n) /\ HeadNodesSent(app[a].n)
        /\ UNCHANGED <<host_q, task, outbox, next_blocked, blocked_nodes>>
        /\ UNCHANGED <<complete_leaf_nodes, host_q, task>> /\ UNCHANGED host
    BY <1>3 DEF PipeTypes, SchedulerTypes, AppStates, FeedSchedule, AppSchedule
  <2> QED BY <2>1, FlowStarts, LeafStarts
<1> QED BY <1>1, <1>2, <1>3 DEF FeederNext

LEMMA UserFlow ==
  ASSUME PipeTypes, OwnTargets, Flow, LeafFlow, NEW d \in UserData, UserNext(d)
  PROVE  Flow' /\ LeafFlow'
<1>1. CASE Replenish(d)
  <2>1. PICK r \in held[d] : EnqueueReady(d, r, d)
    BY <1>1 DEF Replenish
  <2>2. /\ outbox[d] = <<>> /\ UNCHANGED <<job_q, next_blocked, task>>
        /\ UNCHANGED <<free_q, executed, complete_leaf_nodes, host_q, host>>
        /\ d \in Threads
    BY <1>1 DEF Replenish, vars, sched_vars, Threads
  <2>3. DistinctQueues' /\ \A n \in Nodes, p \in Pipes : StillOnce(n, p)
    BY <2>1, <2>2, EnqueueStillOnce DEF Flow
  <2>4. TriggerEnds' /\ \A t \in Targets, n \in Nodes, p \in Pipes : Will(t, n, p)' => Will(t, n, p)
    BY <2>2 DEF Will, TriggerEnds, Flow
  <2>5. \A n \in Leaves, p \in Pipes : ToReport(n, p)' => ToReport(n, p)
    BY <2>2 DEF ToReport
  <2>6. Flow'
    BY <2>2, <2>3, <2>4, FlowKept
  <2>7. LeafFlow'
    BY <2>2, <2>5, QuietLeaf
  <2> QED BY <2>6, <2>7
<1>2. CASE DequeueDoneRef(d) \/ DequeuerWoken(d)
  <2>1. /\ UNCHANGED <<free_q, executed, complete_leaf_nodes, host_q, host>>
        /\ UNCHANGED <<job_q, next_blocked, task, outbox, blocked_nodes>>
    BY <1>2 DEF DequeueDoneRef, DequeuerWoken, vars, sched_vars
  <2>2. QueuedOnce' /\ \A n \in Leaves, p \in Pipes : /\ Queued(n, p)' => Queued(n, p)
                                                      /\ Checking(n, p)' => Checking(n, p)
    <3>1. Leaves' = Leaves
      BY DEF Leaves
    <3> QED BY <2>1, <3>1 DEF LeafFlow, QueuedOnce, Queued, Checking
  <2> QED BY <2>1, <2>2, QuietFlow
<1> QED BY <1>1, <1>2 DEF UserNext

\* The host target task's steps.
LEMMA HostFlow ==
  ASSUME PipeTypes, OwnTargets, Flow, LeafFlow, HostTaskNext
  PROVE  Flow' /\ LeafFlow'
<1>1. host_q \in Seq(Commands) /\ QueuedOnce /\ Leaves' = Leaves
  BY DEF PipeTypes, MessageTypes, LeafFlow, Leaves
<1>2. ASSUME host_q # <<>>, host_q' = Tail(host_q)
      PROVE  QueuedOnce' /\ \A n \in Leaves, p \in Pipes : Queued(n, p)' => Queued(n, p)
  <2>1. QueuedOnce' /\ \A a : IsIn(a, host_q') => IsIn(a, host_q)
    BY <1>1, <1>2, QueuedOnceTail
  <2> QED BY <2>1 DEF Queued, IsIn
<1>3. CASE RefConsumed
  <2>1. /\ host_q # <<>> /\ host_q' = Tail(host_q)
        /\ UNCHANGED <<free_q, executed, complete_leaf_nodes, host>>
        /\ UNCHANGED <<job_q, next_blocked, task, outbox, blocked_nodes>>
    BY <1>3 DEF RefConsumed, sched_vars
  <2>2. QueuedOnce' /\ \A n \in Leaves, p \in Pipes : /\ Queued(n, p)' => Queued(n, p)
                                                      /\ Checking(n, p)' => Checking(n, p)
    BY <1>2, <2>1 DEF Checking
  <2> QED BY <2>1, <2>2, QuietFlow
<1>4. ASSUME HostTake, Head(host_q)[1] # "ref_consumed", UNCHANGED pipe_vars
      PROVE  Flow' /\ LeafFlow'
  <2>1. /\ UNCHANGED <<free_q, executed>>
        /\ UNCHANGED <<job_q, next_blocked, task, outbox, blocked_nodes>>
    BY <1>4 DEF HostTake, pipe_vars
  <2>2. DistinctQueues' /\ \A n \in Nodes, p \in Pipes : StillOnce(n, p)
    BY <2>1, QuietStillOnce DEF Flow
  <2>3. TriggerEnds' /\ \A t \in Targets, n \in Nodes, p \in Pipes : Will(t, n, p)' => Will(t, n, p)
    BY <2>1 DEF Will, TriggerEnds, Flow
  <2> QED BY <1>4, <2>1, <2>2, <2>3, FlowKept, LeafTaken
<1>5. ASSUME LeafCompleted, UNCHANGED pipe_vars PROVE Flow' /\ LeafFlow'
  <2>1. /\ UNCHANGED <<free_q, executed>>
        /\ UNCHANGED <<job_q, next_blocked, task, outbox, blocked_nodes>>
    BY <1>5 DEF LeafCompleted, pipe_vars, sched_vars
  <2>2. DistinctQueues' /\ \A n \in Nodes, p \in Pipes : StillOnce(n, p)
    BY <2>1, QuietStillOnce DEF Flow
  <2>3. TriggerEnds' /\ \A t \in Targets, n \in Nodes, p \in Pipes : Will(t, n, p)' => Will(t, n, p)
    BY <2>1 DEF Will, TriggerEnds, Flow
  <2> QED BY <1>5, <2>1, <2>2, <2>3, FlowKept, LeafCounted
<1>6. ASSUME GraphCompleted, UNCHANGED pipe_vars PROVE Flow' /\ LeafFlow'
  <2>1. PICK m \in Nodes, q \in Pipes : m = host.node /\ q = host.pipe
    BY DEF PipeTypes, SchedulerTypes, HostStates
  <2>2. host.pc = "check" /\ IsLastLeaf(host.pipe)
    BY <1>6 DEF GraphCompleted
  <2>3. q \in InFlight /\ \A l \in Leaves : l \in executed[q]
    BY <2>1, <2>2, LeafLast
  <2>4. Flow'
    BY <1>6, <2>1, <2>3, FlowCompletes
  <2> QED BY <1>6, <2>4, LeafEnds
<1>7. ASSUME HostAction, UNCHANGED pipe_vars PROVE Flow' /\ LeafFlow'
  <2>1. /\ UNCHANGED <<free_q, executed, complete_leaf_nodes, host_q>> /\ host' = IdleHost
        /\ UNCHANGED <<job_q, next_blocked, task, outbox, blocked_nodes>>
    BY <1>7 DEF HostAction, pipe_vars
  <2>2. host'.pc = "idle"
    BY <2>1 DEF IdleHost
  <2>3. QueuedOnce' /\ \A n \in Leaves, p \in Pipes : /\ Queued(n, p)' => Queued(n, p)
                                                      /\ Checking(n, p)' => Checking(n, p)
    BY <1>1, <2>1, <2>2 DEF LeafFlow, QueuedOnce, Queued, Checking
  <2> QED BY <2>1, <2>2, <2>3, QuietFlow
<1>8. CASE HostCompletion
  <2>1. CASE host_q # <<>> /\ Head(host_q)[1] # "ref_consumed" /\ HostTake
    BY <1>4, <1>8, <2>1 DEF HostCompletion
  <2>2. CASE LeafCompleted
    BY <1>5, <1>8, <2>2 DEF HostCompletion
  <2>3. CASE GraphCompleted
    BY <1>6, <1>8, <2>3 DEF HostCompletion
  <2>4. CASE HostAction
    BY <1>7, <1>8, <2>4 DEF HostCompletion
  <2> QED BY <1>8, <2>1, <2>2, <2>3, <2>4 DEF HostCompletion
<1>9. CASE HostRestart
  <2>1. /\ host.schedule_count \in Nat /\ OwnGraphScheduleGraph(host.schedule_count)
        /\ HeadNodesSent(host.schedule_count)
        /\ UNCHANGED <<host_q, task, outbox, next_blocked, blocked_nodes>>
        /\ UNCHANGED <<complete_leaf_nodes, host_q, task>>
    BY <1>9 DEF PipeTypes, SchedulerTypes, HostStates, HostRestart, HostReschedule
  <2>2. host.pc # "check" /\ host'.pc # "check"
    <3>1. host.pc = "reschedule" /\ host' = [host EXCEPT !.pc = "action", !.schedule_count = 0]
      BY <1>9 DEF HostRestart, HostReschedule
    <3>2. host \in HostStates
      BY DEF PipeTypes, SchedulerTypes
    <3> QED BY <3>1, <3>2 DEF HostStates
  <2> QED BY <2>1, <2>2, FlowStarts, LeafStarts
<1> QED BY <1>3, <1>8, <1>9 DEF HostTaskNext

LEMMA FlowNext ==
  ASSUME PipeTypes, PipeTypes', OwnTargets, Flow, LeafFlow, [PipeNext]_all_vars,
         \A n \in Nodes : \A m1, m2 \in InNodes[n] : TargetOf[m1] = TargetOf[m2]
  PROVE  Flow' /\ LeafFlow'
<1>1. CASE UNCHANGED all_vars
  <2>1. /\ UNCHANGED <<free_q, executed, complete_leaf_nodes, host_q, host>>
        /\ UNCHANGED <<job_q, next_blocked, task, outbox, blocked_nodes>>
    BY <1>1 DEF all_vars, vars, sched_vars, pipe_vars
  <2>2. QueuedOnce' /\ \A n \in Leaves, p \in Pipes : /\ Queued(n, p)' => Queued(n, p)
                                                      /\ Checking(n, p)' => Checking(n, p)
    <3>1. Leaves' = Leaves
      BY DEF Leaves
    <3> QED BY <2>1, <3>1 DEF LeafFlow, QueuedOnce, Queued, Checking
  <2> QED BY <2>1, <2>2, QuietFlow
<1>2. CASE PipeNext
  <2>1. ASSUME NEW a \in Apps, FeederNext(a) PROVE Flow' /\ LeafFlow'
    BY <2>1, FeederFlow
  <2>2. ASSUME NEW d \in UserData, UserNext(d) PROVE Flow' /\ LeafFlow'
    BY <2>2, UserFlow
  <2>3. ASSUME NEW t \in Targets, TargetNext(t) PROVE Flow' /\ LeafFlow'
    BY <2>3, TargetFlow
  <2>4. ASSUME NEW th \in Threads, SendNext(th) PROVE Flow' /\ LeafFlow'
    BY <2>4, SendFlow
  <2>5. ASSUME HostTaskNext PROVE Flow' /\ LeafFlow'
    BY <2>5, HostFlow
  <2> QED BY <1>2, <2>1, <2>2, <2>3, <2>4, <2>5 DEF PipeNext
<1> QED BY <1>1, <1>2

LEMMA FlowInit == PipeInit => Flow /\ LeafFlow
<1> SUFFICES ASSUME PipeInit PROVE Flow /\ LeafFlow
  OBVIOUS
<1>1. /\ free_q = [i \in 1 .. Depth |-> i - 1] /\ executed = [p \in Pipes |-> {}]
      /\ complete_leaf_nodes = [p \in Pipes |-> 0] /\ host_q = <<>> /\ host = IdleHost
      /\ blocked_nodes = [d \in Data |-> <<>>] /\ next_blocked = {}
      /\ job_q = [t \in Targets |-> <<>>] /\ task = [t \in Targets |-> IdleTask]
      /\ outbox = [th \in Threads |-> <<>>] /\ Depth \in Nat \ {0}
  BY DepthAssumption DEF PipeInit, Init
<1>2. \A t \in Targets : task[t].pc = "idle" /\ ~task[t].retrigger
  BY <1>1, TaskFacts
<1>3. /\ \A t \in Targets : \A a : ~IsIn(a, job_q[t])
      /\ \A d \in Data : \A a : ~IsIn(a, blocked_nodes[d])
      /\ \A th \in Threads : \A a : ~IsIn(a, outbox[th])
  BY <1>1 DEF IsIn
<1>4. InFlight = {}
  <2>1. Len(free_q) = Depth /\ \A i \in 1 .. Depth : free_q[i] = i - 1
    BY <1>1
  <2>2. ASSUME NEW p \in Pipes PROVE \E i \in 1 .. Len(free_q) : free_q[i] = p
    <3>1. p + 1 \in 1 .. Depth
      BY <1>1 DEF Pipes
    <3> QED BY <2>1, <3>1 DEF Pipes
  <2> QED BY <2>2 DEF InFlight, Free
<1>5. Distinct(free_q)
  <2>1. Len(free_q) = Depth /\ \A i \in 1 .. Depth : free_q[i] = i - 1
    BY <1>1
  <2> QED BY <1>1, <2>1 DEF Distinct
<1>6. DistinctQueues
  BY <1>1 DEF DistinctQueues, Distinct
<1>7. ASSUME NEW n \in Nodes, NEW p \in Pipes PROVE ~Pending(n, p) /\ Single(n, p)
  <2>1. ~Behind(n, p) /\ \A t \in Targets : ~Runs(t, n, p) /\ ~Retriggers(t, n, p)
    BY <1>1, <1>2 DEF Behind, Runs, Retriggers
  <2>2. Only(<<"behind">>, n, p)
    BY <1>3, <2>1 DEF Only
  <2>3. Single(n, p)
    BY <2>2 DEF Single
  <2> QED BY <1>3, <2>1, <2>3 DEF Pending
<1>8. \A t \in Targets, n \in Nodes, p \in Pipes : ~Will(t, n, p)
  BY <1>2 DEF Will
<1>9. Flow
  BY <1>1, <1>2, <1>5, <1>6, <1>7, <1>8 DEF Flow, Once, Ready, WillSend, Closed, TriggerEnds
<1>10. \A n \in Leaves, p \in Pipes : ~ToReport(n, p) /\ ~Queued(n, p) /\ ~Checking(n, p)
  BY <1>1, <1>2 DEF ToReport, Queued, Checking, IdleHost
<1>11. LeafFlow
  <2>1. host.pc = "idle"
    BY <1>1 DEF IdleHost
  <2>2. complete_leaf_nodes \in [Pipes -> Nat] /\ QueuedOnce
    BY <1>1 DEF QueuedOnce
  <2>3. Reports
    BY <1>10 DEF Reports, Reporting
  <2>4. LeafBound
    BY <1>1, <1>4 DEF LeafBound
  <2> QED BY <2>1, <2>2, <2>3, <2>4 DEF LeafFlow
<1> QED BY <1>9, <1>11

LEMMA FlowInvariance ==
  ASSUME InputsOnOneTarget PROVE PipeSpec => [](Flow /\ LeafFlow)
<1>1. PipeTypes /\ PipeTypes' /\ OwnTargets /\ Flow /\ LeafFlow /\ [PipeNext]_all_vars
      => Flow' /\ LeafFlow'
  BY FlowNext DEF InputsOnOneTarget
<1> QED BY <1>1, FlowInit, PipeTypesInvariance, OwnInvariance, PTL DEF PipeSpec

\* A kernel runs only when all the input nodes of its node have run in the same execution
\* of the graph, whatever the graph, its depth, and the queues that fill up or drop a
\* descriptor on the way, if the input nodes of each node share a target
\* (ownTargetNodeDescTriggerNextNodes, vx_target.c).
THEOREM InputsRunFirst ==
  ASSUME InputsOnOneTarget PROVE PipeSpec => []RunsAfterInputs
<1>1. PipeTypes /\ Flow => RunsAfterInputs
  <2> SUFFICES ASSUME PipeTypes, Flow, NEW t \in Targets, task[t].pc = "execute"
               PROVE  InNodes[task[t].node] \subseteq executed[task[t].pipe]
    BY DEF RunsAfterInputs
  <2>1. task[t].node \in Nodes /\ task[t].pipe \in Pipes
    BY TaskTypes DEF PipeTypes
  <2>2. Pending(task[t].node, task[t].pipe)
    BY DEF Pending, Runs
  <2> QED BY <2>1, <2>2 DEF Flow, Ready
<1> QED BY <1>1, FlowInvariance, PipeTypesInvariance, PTL

-----------------------------------------------------------------------------
\* What Once says in terms of the places that TriggeredOnce counts.

LEMMA AtMostOne ==
  ASSUME NEW S, \A x, y \in S : x = y
  PROVE  Cardinality(S) <= 1
<1>1. CASE S = {}
  BY <1>1, FS_EmptySet
<1>2. CASE S # {}
  <2>1. PICK x : x \in S
    BY <1>2
  <2>2. S = {x}
    BY <2>1
  <2> QED BY <2>2, FS_Singleton
<1> QED BY <1>1, <1>2

LEMMA OnePlace ==
  ASSUME PipeTypes, OwnTargets, DistinctQueues, NEW n \in Nodes, NEW p \in Pipes,
         Single(n, p)
  PROVE  Cardinality(Triggers(n, p)) <= 1
<1>1. PICK y : Only(y, n, p)
  BY DEF Single
<1>2. /\ \A t \in Targets : DOMAIN job_q[t] = 1 .. Len(job_q[t])
      /\ \A d \in Data : DOMAIN blocked_nodes[d] = 1 .. Len(blocked_nodes[d])
      /\ \A th \in Threads : DOMAIN outbox[th] = 1 .. Len(outbox[th])
      /\ TargetOf[n] \in Targets
  BY LenProperties, PipelineAssumption, NodesAssumption DEF PipeTypes, MessageTypes, QueueTypes
<1>3. ASSUME NEW x \in QueuedAt(n, p)
      PROVE  y[1] = "job" /\ \A z \in QueuedAt(n, p) : z = x
  <2>1. PICK i \in 1 .. Len(job_q[TargetOf[n]]) :
           job_q[TargetOf[n]][i] = <<n, p>> /\ x = <<"queued", TargetOf[n], i>>
    BY <1>2 DEF QueuedAt, Indices
  <2>2. y = <<"job", TargetOf[n]>>
    BY <1>1, <1>2, <2>1 DEF Only, IsIn
  <2>3. ASSUME NEW z \in QueuedAt(n, p) PROVE z = x
    <3>1. PICK j \in 1 .. Len(job_q[TargetOf[n]]) :
             job_q[TargetOf[n]][j] = <<n, p>> /\ z = <<"queued", TargetOf[n], j>>
      BY <1>2 DEF QueuedAt, Indices
    <3>2. i = j
      BY <1>2, <2>1, <3>1 DEF DistinctQueues, Distinct
    <3> QED BY <2>1, <3>1, <3>2
  <2> QED BY <2>2, <2>3
<1>4. ASSUME NEW x \in ParkedAt(n, p)
      PROVE  y[1] = "parked" /\ \A z \in ParkedAt(n, p) : z = x
  <2>0. PICK d \in Data : \E i \in 1 .. Len(blocked_nodes[d]) :
           blocked_nodes[d][i] = <<n, p>> /\ x = <<"parked", d, i>>
    BY <1>2 DEF ParkedAt, Indices
  <2>1. PICK i \in 1 .. Len(blocked_nodes[d]) : blocked_nodes[d][i] = <<n, p>> /\ x = <<"parked", d, i>>
    BY <2>0
  <2>2. y = <<"parked", d>>
    BY <1>1, <2>1 DEF Only, IsIn
  <2>3. ASSUME NEW z \in ParkedAt(n, p) PROVE z = x
    <3>0. PICK e \in Data : \E j \in 1 .. Len(blocked_nodes[e]) :
             blocked_nodes[e][j] = <<n, p>> /\ z = <<"parked", e, j>>
      BY <1>2 DEF ParkedAt, Indices
    <3>1. PICK j \in 1 .. Len(blocked_nodes[e]) : blocked_nodes[e][j] = <<n, p>> /\ z = <<"parked", e, j>>
      BY <3>0
    <3>2. y = <<"parked", e>>
      BY <1>1, <3>1 DEF Only, IsIn
    <3>3. e = d
      BY <2>2, <3>2
    <3>4. i = j
      BY <2>1, <3>1, <3>3 DEF DistinctQueues, Distinct
    <3> QED BY <2>1, <3>1, <3>3, <3>4
  <2> QED BY <2>2, <2>3
<1>5. ASSUME NEW x \in SentAt(n, p)
      PROVE  y[1] = "sent" /\ \A z \in SentAt(n, p) : z = x
  <2>0. PICK d \in Threads : \E i \in 1 .. Len(outbox[d]) :
           outbox[d][i] = ToNode(n, p) /\ x = <<"sent", d, i>>
    BY <1>2 DEF SentAt, Indices
  <2>1. PICK i \in 1 .. Len(outbox[d]) : outbox[d][i] = ToNode(n, p) /\ x = <<"sent", d, i>>
    BY <2>0
  <2>2. y = <<"sent", d>>
    BY <1>1, <2>1 DEF Only, IsIn
  <2>3. ASSUME NEW z \in SentAt(n, p) PROVE z = x
    <3>0. PICK e \in Threads : \E j \in 1 .. Len(outbox[e]) :
             outbox[e][j] = ToNode(n, p) /\ z = <<"sent", e, j>>
      BY <1>2 DEF SentAt, Indices
    <3>1. PICK j \in 1 .. Len(outbox[e]) : outbox[e][j] = ToNode(n, p) /\ z = <<"sent", e, j>>
      BY <3>0
    <3>2. y = <<"sent", e>>
      BY <1>1, <3>1 DEF Only, IsIn
    <3>3. e = d
      BY <2>2, <3>2
    <3>4. i = j
      BY <2>1, <3>1, <3>3 DEF DistinctQueues, Distinct
    <3> QED BY <2>1, <3>1, <3>3, <3>4
  <2> QED BY <2>2, <2>3
<1>6. ASSUME NEW x \in BehindAt(n, p)
      PROVE  y[1] = "behind" /\ \A z \in BehindAt(n, p) : z = x
  <2>1. Behind(n, p) /\ x = <<"behind", n, PrevPipe(p)>>
    BY DEF BehindAt, Behind
  <2>2. \A z \in BehindAt(n, p) : z = <<"behind", n, PrevPipe(p)>>
    BY DEF BehindAt
  <2>3. y = <<"behind">>
    BY <1>1, <2>1 DEF Only
  <2> QED BY <2>1, <2>2, <2>3
<1>7. ASSUME NEW x \in RunAt(n, p)
      PROVE  y[1] = "run" /\ \A z \in RunAt(n, p) : z = x
  <2>1. PICK t \in Targets : Runs(t, n, p) /\ x = <<"run", t, 0>>
    BY DEF RunAt, Runs
  <2>2. y = <<"run", t>>
    BY <1>1, <2>1 DEF Only
  <2>3. ASSUME NEW z \in RunAt(n, p) PROVE z = x
    <3>1. PICK u \in Targets : Runs(u, n, p) /\ z = <<"run", u, 0>>
      BY DEF RunAt, Runs
    <3>2. y = <<"run", u>>
      BY <1>1, <3>1 DEF Only
    <3> QED BY <2>1, <2>2, <3>1, <3>2
  <2> QED BY <2>2, <2>3
<1>8. ASSUME NEW x \in RetriggeredAt(n, p)
      PROVE  y[1] = "again" /\ \A z \in RetriggeredAt(n, p) : z = x
  <2>1. PICK t \in Targets : Retriggers(t, n, p) /\ x = <<"retriggered", t, 0>>
    BY DEF RetriggeredAt, Retriggers
  <2>2. y = <<"again", t>>
    BY <1>1, <2>1 DEF Only
  <2>3. ASSUME NEW z \in RetriggeredAt(n, p) PROVE z = x
    <3>1. PICK u \in Targets : Retriggers(u, n, p) /\ z = <<"retriggered", u, 0>>
      BY DEF RetriggeredAt, Retriggers
    <3>2. y = <<"again", u>>
      BY <1>1, <3>1 DEF Only
    <3> QED BY <2>1, <2>2, <3>1, <3>2
  <2> QED BY <2>2, <2>3
<1>9. \A x, z \in Triggers(n, p) : x = z
  BY <1>3, <1>4, <1>5, <1>6, <1>7, <1>8, Zenon DEF Triggers
<1> QED BY <1>9, AtMostOne

\* A node is sent, queued or parked at most once at a time, under the same condition: a
\* list of parked nodes or a job queue never holds it twice, and no two tasks run it
\* (ownTargetNodeDescTriggerNextNodes, ownTargetNodeDescAcquireParameter).
THEOREM NodesTriggeredOnce ==
  ASSUME InputsOnOneTarget PROVE PipeSpec => []TriggeredOnce
<1>1. PipeTypes /\ OwnTargets /\ Flow => TriggeredOnce
  BY OnePlace DEF Flow, Once, TriggeredOnce
<1> QED BY <1>1, FlowInvariance, PipeTypesInvariance, OwnInvariance, PTL

-----------------------------------------------------------------------------
\* When the job queues are long enough.

\* A queue in which nothing is twice is no longer than what it can hold.
LEMMA DistinctLength ==
  ASSUME NEW S, IsFiniteSet(S), NEW q \in Seq(S), Distinct(q)
  PROVE  Len(q) <= Cardinality(S)
<1>1. Len(q) \in Nat /\ q \in [1 .. Len(q) -> S]
  BY LenProperties
<1>2. q \in Injection(1 .. Len(q), S)
  BY <1>1 DEF Distinct, Injection, IsInjective
<1>3. Cardinality(1 .. Len(q)) <= Cardinality(S)
  BY <1>2, FS_Injection
<1>4. Cardinality(1 .. Len(q)) = Len(q)
  BY <1>1, FS_Interval
<1> QED BY <1>3, <1>4

\* A target's job queue has room for every node of every instance, and one more.
JobQueuesFit == Cardinality(Nodes) * Depth < MaxJobs

\* With such queues nothing has to be supposed of a behaviour: the nodes of one graph
\* never fill a job queue, because none is in one twice, and no parked node is forgotten.
THEOREM ParkedAreWokenWithRoom ==
  ASSUME InputsOnOneTarget, JobQueuesFit
  PROVE  PipeSpec => []ParkedIsWoken
<1>1. PipeTypes /\ Flow => JobQueuesHaveRoom
  <2> SUFFICES ASSUME PipeTypes, Flow, NEW t \in Targets PROVE Len(job_q[t]) < MaxJobs
    BY DEF JobQueuesHaveRoom
  <2>1. job_q[t] \in Seq(Nodes \X Pipes) /\ Distinct(job_q[t]) /\ Len(job_q[t]) \in Nat
    BY LenProperties DEF PipeTypes, MessageTypes, Flow, DistinctQueues
  <2>2. /\ IsFiniteSet(Nodes) /\ IsFiniteSet(Pipes) /\ Cardinality(Pipes) = Depth
        /\ Depth \in Nat \ {0}
    BY NodesAssumption, DepthAssumption, FS_Interval DEF Pipes
  <2>3. /\ IsFiniteSet(Nodes \X Pipes)
        /\ Cardinality(Nodes \X Pipes) = Cardinality(Nodes) * Depth
    BY <2>2, FS_Product
  <2>4. Len(job_q[t]) <= Cardinality(Nodes \X Pipes)
    BY <2>1, <2>3, DistinctLength
  <2>5. Cardinality(Nodes) * Depth \in Nat
    BY <2>3, FS_CardinalityType
  <2> QED BY <2>1, <2>3, <2>4, <2>5, PipelineAssumption DEF JobQueuesFit
<1>2. PipeSpec => []JobQueuesHaveRoom
  BY <1>1, FlowInvariance, PipeTypesInvariance, PTL
<1> QED BY <1>2, ParkedAreWoken, PTL
=============================================================================
