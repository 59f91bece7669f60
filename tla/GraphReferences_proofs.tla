----------------------- MODULE GraphReferences_proofs -----------------------
(***************************************************************************)
(* Proofs about the references of GraphPipeline: every reference is in one *)
(* place (BuffersConserved), and what the targets do with them is what     *)
(* GraphSchedule says of a node (ImplementsSchedule).                      *)
(*                                                                         *)
(* The argument: a reference that an instance has acquired is counted for  *)
(* the nodes that have given it back, so that the last of them, and only   *)
(* that one, puts it back.  It stays acquired from the first node that     *)
(* uses it to the last.                                                    *)
(***************************************************************************)
EXTENDS GraphPipeline_proofs

\* The nodes that have d as a parameter.
Users(d) == {n \in Nodes : d \in ToSet(Params[n])}

\* Node n of instance p is putting its references back, and the one to d is still to
\* come; or it has run and is done with d.
ToRelease(n, d, p) ==
    /\ task[TargetOf[n]].pc = "release"
    /\ task[TargetOf[n]].node = n /\ task[TargetOf[n]].pipe = p
    /\ \E i \in 1 .. Len(Params[n]) : Params[n][i] = d /\ i >= task[TargetOf[n]].prm
GaveBack(n, d, p) == n \in executed[p] /\ ~ToRelease(n, d, p)
GivenBack(d, p) == {m \in Readers(d) : GaveBack(m, d, p)}
Spent(d, p) == \A m \in Users(d) : GaveBack(m, d, p)

\* The reference that instance p has acquired is counted for the nodes that have read
\* it, and goes back before the instance ends.
InCustody(d, p) ==
    data_ref[d][p].acquired =>
      /\ p \in InFlight /\ ~Spent(d, p) /\ data_ref[d][p].ref \in Bufs(d)
      /\ data_ref[d][p].in_node_done_cnt = Cardinality(GivenBack(d, p))
\* It stays acquired from the first node that has used it to the last.
StillOut(d, p) ==
    ~Spent(d, p) /\ (\E m \in Users(d) : m \in executed[p]) => data_ref[d][p].acquired
\* What a task has taken and not yet put back is what its instance has acquired.
TaskHolds(t) ==
    \A i \in 1 .. Len(task[t].refs) :
      \/ task[t].pc \in {"acquire", "execute"}
      \/ task[t].pc = "release" /\ i >= task[t].prm
      => /\ data_ref[Params[task[t].node][i]][task[t].pipe].acquired
         /\ data_ref[Params[task[t].node][i]][task[t].pipe].ref = task[t].refs[i]
HasRun(t) == task[t].pc = "release" => task[t].node \in executed[task[t].pipe]

Custody == /\ \A d \in Data, p \in Pipes : InCustody(d, p) /\ StillOut(d, p)
           /\ \A t \in Targets : TaskHolds(t) /\ HasRun(t)

LEMMA UserFacts ==
  ASSUME NEW d \in Data
  PROVE  /\ Users(d) \subseteq Nodes /\ Readers(d) = Users(d) \ {Writer[d]}
         /\ IsFiniteSet(Readers(d)) /\ NumInNodes(d) \in Nat
         /\ \A n \in Users(d) : \E i \in 1 .. Len(Params[n]) : Params[n][i] = d
         /\ \A n \in Nodes : \A i \in 1 .. Len(Params[n]) : Params[n][i] = d => n \in Users(d)
<1>1. Users(d) \subseteq Nodes /\ Readers(d) = Users(d) \ {Writer[d]}
  BY DEF Users, Readers
<1>2. IsFiniteSet(Readers(d))
  BY <1>1, NodesAssumption, FS_Subset
<1>3. NumInNodes(d) \in Nat
  BY <1>2, FS_CardinalityType DEF NumInNodes
<1>4. ASSUME NEW n \in Nodes
      PROVE  n \in Users(d) <=> \E i \in 1 .. Len(Params[n]) : Params[n][i] = d
  <2>1. Params[n] \in Seq(Data)
    BY PipelineAssumption
  <2>2. DOMAIN Params[n] = 1 .. Len(Params[n])
    BY <2>1, LenProperties
  <2> QED BY <2>2 DEF Users, ToSet
<1> QED BY <1>1, <1>2, <1>3, <1>4

\* The parameter that a task is at.
LEMMA CurrentUser ==
  ASSUME PipeTypes, NEW t \in Targets, task[t].pc \in {"acquire", "release"}
  PROVE  /\ CurrentData(t) \in Data /\ task[t].node \in Users(CurrentData(t))
         /\ task[t].prm \in 1 .. Len(Params[task[t].node])
         /\ Params[task[t].node][task[t].prm] = CurrentData(t)
<1>1. /\ CurrentData(t) \in Data /\ CurrentData(t) = Params[task[t].node][task[t].prm]
      /\ task[t].node \in Nodes /\ task[t].prm \in Nat \ {0} /\ TaskReferences(task[t])
      /\ Len(Params[task[t].node]) \in Nat
  BY TaskTypes
<1>2. task[t].prm \in 1 .. Len(Params[task[t].node])
  BY <1>1 DEF TaskReferences
<1> QED BY <1>1, <1>2, UserFacts

\* An instance that keeps its reference, or keeps none, while no node puts it back.
LEMMA AccountsKept ==
  ASSUME NEW d \in Data, NEW p \in Pipes, InCustody(d, p), StillOut(d, p),
         data_ref'[d][p] = data_ref[d][p],
         data_ref[d][p].acquired /\ p \in InFlight => p \in InFlight',
         \A m \in Users(d) : GaveBack(m, d, p)' <=> GaveBack(m, d, p),
         (\E m \in Users(d) : m \in executed'[p])
           => (\E m \in Users(d) : m \in executed[p]) \/ data_ref[d][p].acquired
  PROVE  InCustody(d, p)' /\ StillOut(d, p)'
<1>1. Users(d)' = Users(d) /\ Readers(d)' = Readers(d) /\ Readers(d) \subseteq Users(d)
      /\ Bufs(d)' = Bufs(d)
  BY DEF Users, Readers, Bufs
<1>2. Spent(d, p)' <=> Spent(d, p)
  BY <1>1 DEF Spent
<1>3. GivenBack(d, p)' = GivenBack(d, p)
  BY <1>1 DEF GivenBack
<1>4. InCustody(d, p)'
  BY <1>1, <1>2, <1>3 DEF InCustody
<1>5. StillOut(d, p)'
  BY <1>1, <1>2 DEF StillOut
<1> QED BY <1>4, <1>5

\* A step in which no task takes, runs or puts back anything.
Passive(u) ==
    \/ task'[u] = task[u]
    \/ /\ task[u].pc # "release" /\ task'[u].pc \notin {"execute", "release"}
       /\ task'[u].pc = "acquire" => task'[u].refs = <<>>

LEMMA QuietCustody ==
  ASSUME Custody, UNCHANGED <<data_ref, executed, free_q>>, \A u \in Targets : Passive(u)
  PROVE  Custody'
<1>1. InFlight' = InFlight
  BY DEF InFlight, Free, Pipes
<1>2. ASSUME NEW d \in Data, NEW p \in Pipes PROVE InCustody(d, p)' /\ StillOut(d, p)'
  <2>1. ASSUME NEW m \in Users(d) PROVE GaveBack(m, d, p)' <=> GaveBack(m, d, p)
    <3>1. TargetOf[m] \in Targets
      BY PipelineAssumption, NodesAssumption DEF Users
    <3>2. ToRelease(m, d, p)' <=> ToRelease(m, d, p)
      BY <3>1 DEF ToRelease, Passive
    <3> QED BY <3>2 DEF GaveBack
  <2> QED BY <1>1, <2>1, AccountsKept DEF Custody
<1>3. ASSUME NEW t \in Targets PROVE TaskHolds(t)' /\ HasRun(t)'
  <2>1. CASE task'[t] = task[t]
    BY <2>1 DEF Custody, TaskHolds, HasRun
  <2>2. CASE task'[t] # task[t]
    <3>1. /\ task'[t].pc \notin {"execute", "release"}
          /\ task'[t].pc = "acquire" => task'[t].refs = <<>>
      BY <2>2 DEF Passive
    <3>2. task'[t].refs = <<>> => 1 .. Len(task'[t].refs) = {}
      BY EmptySeq
    <3> QED BY <3>1, <3>2 DEF TaskHolds, HasRun
  <2> QED BY <2>1, <2>2
<1>4. Pipes' = Pipes
  BY DEF Pipes
<1> QED BY <1>2, <1>3, <1>4 DEF Custody

LEMMA ReleasesInFlight ==
  ASSUME PipeTypes, Flow, LeafFlow, NEW t \in Targets,
         task[t].pc \in {"release", "complete"}
  PROVE  task[t].pipe \in InFlight
<1>1. PICK n \in Nodes, p \in Pipes : n = task[t].node /\ p = task[t].pipe
  BY TaskTypes
<1>2. CASE n \in Leaves
  <2>1. Reporting(n, p)
    BY <1>1 DEF Reporting, ToReport
  <2> QED BY <1>1, <1>2, <2>1 DEF LeafFlow, Reports
<1>3. CASE n \notin Leaves
  <2>1. OutNodes[n] \in Seq(Nodes) /\ OutNodes[n] # <<>>
    BY <1>3, LeafNames, LinksAssumption
  <2>2. 1 \in 1 .. Len(OutNodes[n]) /\ OutNodes[n][1] \in Nodes
    BY <2>1, EmptySeq, LenProperties, ElementOfSeq
  <2>3. Will(t, OutNodes[n][1], p)
    BY <1>1, <2>2 DEF Will
  <2> QED BY <1>1, <2>2, <2>3 DEF Flow, WillSend
<1> QED BY <1>2, <1>3

\* The instances that start hold nothing.
LEMMA CustodyStarts ==
  ASSUME PipeTypes, Flow, LeafFlow, Custody, NEW num \in Nat, OwnGraphScheduleGraph(num),
         UNCHANGED <<data_ref, task>>
  PROVE  Custody'
<1>1. /\ \A p \in Pipes : p \in InFlight' <=> p \in InFlight \/ StartedPipe(p, num)
      /\ \A p \in Pipes : StartedPipe(p, num) => p \notin InFlight /\ executed'[p] = {}
      /\ \A p \in Pipes : ~StartedPipe(p, num) => executed'[p] = executed[p]
  BY StartedFlight DEF PipeTypes, Flow
<1>2. ASSUME NEW d \in Data, NEW p \in Pipes PROVE InCustody(d, p)' /\ StillOut(d, p)'
  <2>1. InCustody(d, p) /\ StillOut(d, p)
    BY DEF Custody
  <2>2. CASE StartedPipe(p, num)
    <3>1. ~data_ref'[d][p].acquired /\ executed'[p] = {}
      BY <1>1, <2>1, <2>2 DEF InCustody
    <3> QED BY <3>1 DEF InCustody, StillOut
  <2>3. CASE ~StartedPipe(p, num)
    <3>1. executed'[p] = executed[p]
      BY <1>1, <2>3
    <3>2. \A m \in Users(d) : GaveBack(m, d, p)' <=> GaveBack(m, d, p)
      BY <3>1 DEF GaveBack, ToRelease
    <3> QED BY <1>1, <2>1, <3>1, <3>2, AccountsKept
  <2> QED BY <2>2, <2>3
<1>3. ASSUME NEW t \in Targets PROVE TaskHolds(t)' /\ HasRun(t)'
  <2>1. TaskHolds(t)' /\ HasRun(t)
    BY DEF Custody, TaskHolds
  <2>2. ASSUME task[t].pc = "release" PROVE executed'[task[t].pipe] = executed[task[t].pipe]
    <3>1. task[t].pipe \in InFlight /\ task[t].pipe \in Pipes
      BY <2>2, ReleasesInFlight, TaskTypes
    <3> QED BY <1>1, <3>1
  <2> QED BY <2>1, <2>2 DEF HasRun
<1>4. Pipes' = Pipes
  BY DEF Pipes
<1> QED BY <1>2, <1>3, <1>4 DEF Custody

\* An execution that ends has put everything back.
LEMMA CustodyEnds ==
  ASSUME PipeTypes, Flow, LeafFlow, Custody, GraphCompleted, UNCHANGED pipe_vars
  PROVE  Custody'
<1>1. PICK m \in Nodes, q \in Pipes : m = host.node /\ q = host.pipe
  BY DEF PipeTypes, SchedulerTypes, HostStates
<1>2. /\ host.pc = "check" /\ IsLastLeaf(q) /\ free_q' = Append(free_q, q)
      /\ UNCHANGED <<executed, task, data_ref>>
  BY <1>1 DEF GraphCompleted, FreeQueueWith, pipe_vars
<1>3. /\ \A l \in Leaves : l \in executed[q]
      /\ \A l \in Leaves : ~ToReport(l, q)
  BY <1>1, <1>2, LeafLast
<1>4. \A n \in Nodes : n \in executed[q]
  BY <1>3, LeafToRun DEF Flow
<1>5. \A p \in Pipes : p \in InFlight /\ p # q => p \in InFlight'
  <2>1. free_q \in Seq(Pipes)
    BY DEF PipeTypes, SchedulerTypes
  <2>2. \A p : IsIn(p, free_q') <=> IsIn(p, free_q) \/ p = q
    BY <1>2, <2>1, AppendIsIn
  <2>3. Pipes' = Pipes
    BY DEF Pipes
  <2>4. \A p \in Pipes : /\ p \in InFlight <=> ~IsIn(p, free_q)
                         /\ p \in InFlight' <=> ~IsIn(p, free_q')
    BY <2>3 DEF InFlight, Free, IsIn
  <2> QED BY <2>2, <2>4
<1>6. ASSUME NEW n \in Nodes, NEW d \in Data PROVE ~ToRelease(n, d, q)
  <2> SUFFICES ASSUME ToRelease(n, d, q) PROVE FALSE
    OBVIOUS
  <2> DEFINE t == TargetOf[n]
  <2>1. t \in Targets /\ task[t].pc = "release" /\ task[t].node = n /\ task[t].pipe = q
    BY PipelineAssumption, NodesAssumption DEF ToRelease
  <2>2. n \notin Leaves
    BY <1>3, <2>1 DEF ToReport
  <2>3. OutNodes[n] \in Seq(Nodes) /\ OutNodes[n] # <<>>
    BY <2>2, LeafNames, LinksAssumption
  <2>4. 1 \in 1 .. Len(OutNodes[n]) /\ OutNodes[n][1] \in Nodes
    BY <2>3, EmptySeq, LenProperties, ElementOfSeq
  <2>5. Will(t, OutNodes[n][1], q)
    BY <2>1, <2>4 DEF Will
  <2>6. OutNodes[n][1] \notin executed[q]
    BY <2>1, <2>4, <2>5 DEF Flow, WillSend
  <2> QED BY <1>4, <2>4, <2>6
<1>7. ASSUME NEW d \in Data, NEW p \in Pipes PROVE InCustody(d, p)' /\ StillOut(d, p)'
  <2>1. InCustody(d, p) /\ StillOut(d, p)
    BY DEF Custody
  <2>2. \A n \in Users(d) : GaveBack(n, d, p)' <=> GaveBack(n, d, p)
    BY <1>2 DEF GaveBack, ToRelease
  <2>3. data_ref[d][q].acquired => FALSE
    <3>1. InCustody(d, q) /\ Spent(d, q)
      BY <1>4, <1>6 DEF Custody, Spent, GaveBack, Users
    <3> QED BY <3>1 DEF InCustody
  <2> QED BY <1>2, <1>5, <2>1, <2>2, <2>3, AccountsKept
<1>8. \A t \in Targets : TaskHolds(t)' /\ HasRun(t)'
  BY <1>2 DEF Custody, TaskHolds, HasRun
<1>9. Pipes' = Pipes
  BY DEF Pipes
<1> QED BY <1>7, <1>8, <1>9 DEF Custody

\* A node that runs puts back what it has taken only afterwards.
LEMMA CustodyExecutes ==
  ASSUME PipeTypes, OwnTargets, Flow, Custody, NEW t \in Targets, ExecuteNode(t)
  PROVE  Custody'
<1>1. PICK n \in Nodes, p \in Pipes : n = task[t].node /\ p = task[t].pipe
  BY TaskTypes
<1>2. /\ task[t].pc = "execute" /\ executed' = [executed EXCEPT ![p] = executed[p] \cup {n}]
      /\ UNCHANGED <<free_q, data_ref>>
  BY <1>1 DEF ExecuteNode
<1>3. /\ task'[t].pc = "release" /\ task'[t].node = n /\ task'[t].pipe = p
      /\ task'[t].prm = 1 /\ task'[t].refs = task[t].refs
      /\ \A u \in Targets \ {t} : task'[u] = task[u]
      /\ Len(task[t].refs) = Len(Params[n])
  <2>1. task[t].prm = 1 /\ Len(task[t].refs) = Len(Params[n])
    BY <1>1, <1>2, TaskTypes DEF TaskReferences
  <2>2. task \in [Targets -> Tasks]
    BY TaskTypes
  <2>3. /\ task' = [task EXCEPT ![t] = task'[t]]
        /\ task'[t].pc = "release" /\ task'[t].node = task[t].node
        /\ task'[t].pipe = task[t].pipe /\ task'[t].prm = task[t].prm
        /\ task'[t].refs = task[t].refs
    BY ExecuteNodeTask
  <2> QED BY <1>1, <2>1, <2>2, <2>3
<1>4. /\ executed \in [Pipes -> SUBSET Nodes] /\ n \notin executed[p] /\ TargetOf[n] = t
      /\ executed'[p] = executed[p] \cup {n}
      /\ \A r \in Pipes \ {p} : executed'[r] = executed[r]
  <2>1. executed \in [Pipes -> SUBSET Nodes]
    BY DEF PipeTypes, SchedulerTypes
  <2>2. OwnTask(t)
    BY DEF OwnTargets
  <2> QED BY <1>1, <1>2, <2>1, <2>2 DEF OwnTask
<1>5. InFlight' = InFlight
  BY <1>2 DEF InFlight, Free, Pipes
<1>6. ASSUME NEW m \in Nodes, NEW d \in Data, NEW r \in Pipes, m # n \/ r # p
      PROVE  GaveBack(m, d, r)' <=> GaveBack(m, d, r)
  <2>1. m \in executed'[r] <=> m \in executed[r]
    BY <1>4, <1>6
  <2>2. TargetOf[m] \in Targets
    BY PipelineAssumption, NodesAssumption
  <2>3. ToRelease(m, d, r)' <=> ToRelease(m, d, r)
    <3>1. CASE TargetOf[m] # t
      BY <1>3, <2>2, <3>1 DEF ToRelease
    <3>2. CASE TargetOf[m] = t
      BY <1>1, <1>2, <1>3, <1>6, <3>2 DEF ToRelease
    <3> QED BY <3>1, <3>2
  <2> QED BY <2>1, <2>3 DEF GaveBack
<1>7. ASSUME NEW d \in Data, NEW i \in 1 .. Len(Params[n]), Params[n][i] = d
      PROVE  data_ref[d][p].acquired /\ data_ref[d][p].ref = task[t].refs[i]
  <2>1. TaskHolds(t)
    BY DEF Custody
  <2> QED BY <1>1, <1>2, <1>3, <1>7, <2>1 DEF TaskHolds
<1>8. ASSUME NEW d \in Data, NEW r \in Pipes PROVE InCustody(d, r)' /\ StillOut(d, r)'
  <2>1. InCustody(d, r) /\ StillOut(d, r)
    BY DEF Custody
  <2>2. ASSUME NEW m \in Users(d) PROVE GaveBack(m, d, r)' <=> GaveBack(m, d, r)
    <3>1. m \in Nodes
      BY UserFacts
    <3>2. CASE m # n \/ r # p
      BY <1>6, <3>1, <3>2
    <3>3. CASE m = n /\ r = p
      <4>1. ~GaveBack(n, d, p)
        BY <1>4 DEF GaveBack
      <4>2. PICK i \in 1 .. Len(Params[n]) : Params[n][i] = d
        BY <3>3, UserFacts
      <4>3. i >= 1
        BY <1>1, <4>2, TaskTypes
      <4>4. ToRelease(n, d, p)'
        BY <1>3, <1>4, <4>2, <4>3 DEF ToRelease
      <4> QED BY <3>3, <4>1, <4>4 DEF GaveBack
    <3> QED BY <3>2, <3>3
  <2>3. (\E m \in Users(d) : m \in executed'[r])
          => (\E m \in Users(d) : m \in executed[r]) \/ data_ref[d][r].acquired
    <3> SUFFICES ASSUME NEW m \in Users(d), m \in executed'[r], m \notin executed[r]
                 PROVE  data_ref[d][r].acquired
      OBVIOUS
    <3>1. m = n /\ r = p
      BY <1>4
    <3>2. PICK i \in 1 .. Len(Params[n]) : Params[n][i] = d
      BY <3>1, UserFacts
    <3> QED BY <1>7, <3>1, <3>2
  <2> QED BY <1>2, <1>5, <2>1, <2>2, <2>3, AccountsKept
<1>9. ASSUME NEW u \in Targets PROVE TaskHolds(u)' /\ HasRun(u)'
  <2>1. CASE u # t
    <3>1. task'[u] = task[u] /\ TaskHolds(u) /\ HasRun(u)
      BY <1>3, <2>1 DEF Custody
    <3>2. \A r \in Pipes : executed[r] \subseteq executed'[r]
      BY <1>4
    <3>3. task[u].pipe \in Pipes
      BY TaskTypes
    <3> QED BY <1>2, <3>1, <3>2, <3>3 DEF TaskHolds, HasRun
  <2>2. CASE u = t
    <3>1. TaskHolds(t)
      BY DEF Custody
    <3>2. TaskHolds(t)'
      BY <1>1, <1>2, <1>3, <3>1 DEF TaskHolds
    <3>3. HasRun(t)'
      BY <1>3, <1>4 DEF HasRun
    <3> QED BY <2>2, <3>2, <3>3
  <2> QED BY <2>1, <2>2
<1>10. Pipes' = Pipes
  BY DEF Pipes
<1> QED BY <1>8, <1>9, <1>10 DEF Custody

\* No node has a data object as a parameter twice.
ParametersOnce == \A n \in Nodes : IsInjective(Params[n])

\* A node that takes data from another one has that one among its input nodes
\* (vxVerifyGraph links every such pair).
WritersFirst ==
    \A d \in Data : \A n \in Readers(d) : Writer[d] \in Users(d) => Writer[d] \in InNodes[n]

\* A writer that still has something to put back comes before its readers.
LEMMA WriterBack ==
  ASSUME WritersFirst, Flow, NEW d \in Data, NEW p \in Pipes, NEW n \in Readers(d),
         Writer[d] \in Users(d), ToRelease(Writer[d], d, p)
  PROVE  n \notin executed[p]
<1> DEFINE w == Writer[d]
           t == TargetOf[w]
<1>1. w \in Nodes /\ n \in Nodes /\ w \in InNodes[n]
  BY UserFacts DEF WritersFirst
<1>2. t \in Targets /\ task[t].pc = "release" /\ task[t].node = w /\ task[t].pipe = p
  BY <1>1, PipelineAssumption, NodesAssumption DEF ToRelease
<1>3. /\ OutNodes[w] \in Seq(Nodes)
      /\ n \in ToSet(OutNodes[w])
  BY <1>1, LinksAssumption
<1>4. PICK j \in 1 .. Len(OutNodes[w]) : OutNodes[w][j] = n
  BY <1>3, LenProperties DEF ToSet
<1>5. Will(t, n, p)
  BY <1>2, <1>4 DEF Will
<1> QED BY <1>1, <1>2, <1>5 DEF Flow, WillSend

\* The parameter that is put back is what the instance has acquired.
LEMMA ReleasedReference ==
  ASSUME PipeTypes, Custody, NEW t \in Targets, task[t].pc = "release"
  PROVE  LET a == data_ref[CurrentData(t)][task[t].pipe]
         IN  a.acquired /\ a.ref = Ref(t) /\ a.ref \in Bufs(CurrentData(t)) /\ Ref(t) # Invalid
<1>1. /\ CurrentData(t) \in Data /\ task[t].pipe \in Pipes
      /\ task[t].prm \in 1 .. Len(Params[task[t].node])
      /\ Params[task[t].node][task[t].prm] = CurrentData(t)
  BY CurrentUser, TaskTypes
<1>2. Len(task[t].refs) = Len(Params[task[t].node]) /\ task[t].prm \in Nat
  BY TaskTypes DEF TaskReferences
<1>3. TaskHolds(t) /\ InCustody(CurrentData(t), task[t].pipe)
  BY <1>1 DEF Custody
<1>4. /\ data_ref[CurrentData(t)][task[t].pipe].acquired
      /\ data_ref[CurrentData(t)][task[t].pipe].ref = task[t].refs[task[t].prm]
  <2>1. task[t].prm \in 1 .. Len(task[t].refs) /\ task[t].prm >= task[t].prm
    BY <1>1, <1>2
  <2> QED BY <1>1, <1>3, <2>1 DEF TaskHolds
<1>5. data_ref[CurrentData(t)][task[t].pipe].ref \in Bufs(CurrentData(t))
  BY <1>3, <1>4 DEF InCustody
<1>6. 0 \notin Bufs(CurrentData(t))
  BY <1>1, PipelineAssumption DEF Bufs
<1> QED BY <1>4, <1>5, <1>6 DEF Ref, Invalid

\* The last of the nodes that use a reference, and only that one, gives it back.
LEMMA CustodyReleases ==
  ASSUME ParametersOnce, WritersFirst, PipeTypes, OwnTargets, Flow, LeafFlow, Custody,
         NEW t \in Targets, ReleaseParameter(t)
  PROVE  Custody'
<1>1. PICK n \in Nodes, p \in Pipes, d \in Data :
         n = task[t].node /\ p = task[t].pipe /\ d = CurrentData(t) /\ task[t].pc = "release"
  BY TaskTypes, ReleaseParameterEffect
<1>2. /\ data_ref' = [data_ref EXCEPT ![d][p] =
             [acquired |-> data_ref[d][p].acquired /\ ~Releases(t),
              ref |-> IF Writer[d] # n \/ Releases(t) THEN data_ref[d][p].ref ELSE Ref(t),
              in_node_done_cnt |-> Count(t)]]
      /\ task' = [task EXCEPT ![t] = ReleasedTask(t)]
      /\ UNCHANGED <<executed, free_q>>
  BY <1>1, ReleaseParameterEffect DEF vars, sched_vars
<1>3. /\ data_ref[d][p].acquired /\ data_ref[d][p].ref = Ref(t) /\ data_ref[d][p].ref \in Bufs(d)
  BY <1>1, ReleasedReference
<1>4. /\ task[t].prm \in 1 .. Len(Params[n]) /\ Params[n][task[t].prm] = d /\ n \in Users(d)
      /\ Len(task[t].refs) = Len(Params[n]) /\ Len(Params[n]) \in Nat /\ n \in executed[p]
      /\ TargetOf[n] = t
  <2>1. OwnTask(t) /\ HasRun(t)
    BY DEF OwnTargets, Custody
  <2>2. TaskReferences(task[t]) /\ Len(Params[n]) \in Nat
    BY <1>1, TaskTypes
  <2> QED BY <1>1, <2>1, <2>2, CurrentUser DEF OwnTask, HasRun, TaskReferences
<1>5. /\ \A u \in Targets \ {t} : task'[u] = task[u]
      /\ task'[t].node = n /\ task'[t].pipe = p
      /\ \/ /\ task'[t].pc = "release" /\ task'[t].prm = task[t].prm + 1
            /\ task'[t].refs = task[t].refs
         \/ /\ task'[t].pc \in {"complete", "trigger"} /\ task'[t].refs = <<>>
            /\ task[t].prm = Len(Params[n])
  <2>1. task \in [Targets -> Tasks]
    BY TaskTypes
  <2>2. task'[t] = ReleasedTask(t) /\ \A u \in Targets \ {t} : task'[u] = task[u]
    BY <1>2, <2>1
  <2> QED BY <1>1, <2>2, ReleasedTaskTypes DEF LastParam
<1>6. \A i, j \in 1 .. Len(Params[n]) : Params[n][i] = Params[n][j] => i = j
  <2>1. DOMAIN Params[n] = 1 .. Len(Params[n])
    BY PipelineAssumption, LenProperties
  <2> QED BY <2>1 DEF ParametersOnce, IsInjective
<1>7. ASSUME NEW m \in Nodes, NEW e \in Data, NEW q \in Pipes, m # n \/ e # d \/ q # p
      PROVE  ToRelease(m, e, q)' <=> ToRelease(m, e, q)
  <2>1. TargetOf[m] \in Targets
    BY PipelineAssumption, NodesAssumption
  <2>2. CASE TargetOf[m] # t
    BY <1>5, <2>1, <2>2 DEF ToRelease
  <2>3. CASE TargetOf[m] = t /\ (m # n \/ q # p)
    BY <1>1, <1>5, <2>3 DEF ToRelease
  <2>4. CASE m = n /\ q = p /\ e # d
    <3>1. \A i \in 1 .. Len(Params[n]) : Params[n][i] = e =>
             /\ i >= task[t].prm <=> i >= task[t].prm + 1
             /\ task[t].prm = Len(Params[n]) => ~(i >= task[t].prm)
      BY <1>4, <2>4
    <3> QED BY <1>1, <1>4, <1>5, <2>4, <3>1 DEF ToRelease
  <2> QED BY <1>7, <2>2, <2>3, <2>4
<1>8. ToRelease(n, d, p) /\ ~ToRelease(n, d, p)'
  <2>1. task[t].prm >= task[t].prm
    BY <1>4
  <2>2. ToRelease(n, d, p)
    BY <1>1, <1>4, <2>1 DEF ToRelease
  <2>3. \A i \in 1 .. Len(Params[n]) : Params[n][i] = d => ~(i >= task[t].prm + 1)
    BY <1>4, <1>6
  <2> QED BY <1>4, <1>5, <2>2, <2>3 DEF ToRelease
<1>9. /\ ~GaveBack(n, d, p) /\ GaveBack(n, d, p)'
      /\ \A m \in Nodes, e \in Data, q \in Pipes :
           m # n \/ e # d \/ q # p => (GaveBack(m, e, q)' <=> GaveBack(m, e, q))
  BY <1>2, <1>4, <1>7, <1>8 DEF GaveBack
<1>10. /\ data_ref'[d][p].acquired <=> ~Releases(t)
       /\ data_ref'[d][p].ref = data_ref[d][p].ref
       /\ data_ref'[d][p].in_node_done_cnt = Count(t)
       /\ \A e \in Data, q \in Pipes : e # d \/ q # p => data_ref'[e][q] = data_ref[e][q]
  <2>1. data_ref \in [Data -> [Pipes -> [acquired : BOOLEAN, ref : Nat, in_node_done_cnt : Nat]]]
    BY DEF PipeTypes, NodeTypes
  <2>2. (IF Writer[d] # n \/ Releases(t) THEN data_ref[d][p].ref ELSE Ref(t)) = data_ref[d][p].ref
    BY <1>3
  <2>3. (data_ref[d][p].acquired /\ ~Releases(t)) <=> ~Releases(t)
    BY <1>3
  <2> DEFINE new == [acquired |-> data_ref[d][p].acquired /\ ~Releases(t),
                     ref |-> IF Writer[d] # n \/ Releases(t) THEN data_ref[d][p].ref ELSE Ref(t),
                     in_node_done_cnt |-> Count(t)]
  <2>4. /\ new.acquired <=> ~Releases(t)
        /\ new.ref = data_ref[d][p].ref /\ new.in_node_done_cnt = Count(t)
    BY <2>2, <2>3
  <2>5. data_ref' = [data_ref EXCEPT ![d][p] = new]
    BY <1>2
  <2> HIDE DEF new
  <2>6. data_ref'[d][p] = new
    BY <2>1, <2>5
  <2>7. \A e \in Data, q \in Pipes : e # d \/ q # p => data_ref'[e][q] = data_ref[e][q]
    BY <2>1, <2>5
  <2> QED BY <2>4, <2>6, <2>7
<1>11. Users(d) \subseteq Nodes /\ Users(d)' = Users(d) /\ Readers(d)' = Readers(d)
       /\ Readers(d) = Users(d) \ {Writer[d]} /\ IsFiniteSet(Readers(d)) /\ NumInNodes(d) \in Nat
  BY UserFacts DEF Users, Readers
<1>12. /\ data_ref[d][p].in_node_done_cnt = Cardinality(GivenBack(d, p))
       /\ IsFiniteSet(GivenBack(d, p)) /\ Cardinality(GivenBack(d, p)) \in Nat
       /\ GivenBack(d, p) \subseteq Readers(d) /\ GivenBack(d, p)' \subseteq Readers(d)
       /\ NumInNodes(d) = Cardinality(Readers(d))
  <2>1. InCustody(d, p)
    BY DEF Custody
  <2>2. GivenBack(d, p) \subseteq Readers(d) /\ GivenBack(d, p)' \subseteq Readers(d)
    BY <1>11 DEF GivenBack
  <2>3. IsFiniteSet(GivenBack(d, p)) /\ Cardinality(GivenBack(d, p)) \in Nat
    BY <1>11, <2>2, FS_Subset, FS_CardinalityType
  <2> QED BY <1>3, <2>1, <2>2, <2>3 DEF InCustody, NumInNodes
<1>13. (Releases(t) <=> Spent(d, p)') /\ Count(t) = Cardinality(GivenBack(d, p)')
  <2>1. CASE Writer[d] # n
    <3>1. n \in Readers(d)
      BY <1>4, <1>11, <2>1
    <3>2. GivenBack(d, p)' = GivenBack(d, p) \cup {n} /\ n \notin GivenBack(d, p)
      BY <1>9, <1>11, <3>1 DEF GivenBack
    <3>3. Cardinality(GivenBack(d, p)') = Cardinality(GivenBack(d, p)) + 1
      BY <1>12, <3>2, FS_AddElement
    <3>4. Count(t) = Cardinality(GivenBack(d, p)')
      BY <1>1, <1>12, <2>1, <3>3 DEF Count
    <3>5. Releases(t) <=> Cardinality(GivenBack(d, p)') = Cardinality(Readers(d))
      BY <1>1, <1>12, <2>1, <3>4 DEF Releases
    <3>6. Cardinality(GivenBack(d, p)') = Cardinality(Readers(d)) <=> GivenBack(d, p)' = Readers(d)
      BY <1>11, <1>12, FS_Subset
    <3>7. ASSUME GivenBack(d, p)' = Readers(d) PROVE Spent(d, p)'
      <4> SUFFICES ASSUME NEW m \in Users(d) PROVE GaveBack(m, d, p)'
        BY <1>11 DEF Spent
      <4>1. CASE m \in Readers(d)
        BY <3>7, <4>1 DEF GivenBack
      <4>2. CASE m \notin Readers(d)
        <5>1. m = Writer[d] /\ m \in Nodes /\ m # n
          BY <1>11, <2>1, <4>2
        <5>2. m \in executed[p]
          BY <1>4, <3>1, <5>1 DEF Flow, Closed, WritersFirst
        <5>3. ~ToRelease(m, d, p)
          BY <1>4, <3>1, <5>1, WriterBack
        <5> QED BY <1>2, <1>7, <5>1, <5>2, <5>3 DEF GaveBack
      <4> QED BY <4>1, <4>2
    <3>8. Spent(d, p)' => GivenBack(d, p)' = Readers(d)
      BY <1>11, <1>12 DEF Spent, GivenBack
    <3> QED BY <3>4, <3>5, <3>6, <3>7, <3>8
  <2>2. CASE Writer[d] = n
    <3>1. GivenBack(d, p)' = GivenBack(d, p)
      BY <1>9, <1>11, <2>2 DEF GivenBack
    <3>2. Count(t) = Cardinality(GivenBack(d, p)')
      BY <1>1, <1>12, <2>2, <3>1 DEF Count
    <3>3. CASE Readers(d) = {}
      <4>1. NumInNodes(d) = 0 /\ GivenBack(d, p) = {} /\ Cardinality({}) = 0
        BY <1>12, <3>3, FS_EmptySet
      <4>2. Releases(t)
        BY <1>1, <3>1, <3>2, <4>1 DEF Releases
      <4>3. Spent(d, p)'
        BY <1>9, <1>11, <2>2, <3>3 DEF Spent
      <4> QED BY <3>2, <4>2, <4>3
    <3>4. CASE Readers(d) # {}
      <4>1. PICK m \in Readers(d) : TRUE
        BY <3>4
      <4>2. m \notin executed[p]
        BY <1>4, <1>8, <2>2, <4>1, WriterBack
      <4>3. ~Spent(d, p)'
        BY <1>2, <1>11, <4>1, <4>2 DEF Spent, GaveBack
      <4>4. NumInNodes(d) # 0
        BY <1>11, <1>12, <3>4, FS_EmptySet
      <4>5. ~Releases(t)
        BY <1>1, <2>2, <4>4 DEF Releases
      <4> QED BY <3>2, <4>3, <4>5
    <3> QED BY <3>3, <3>4
  <2> QED BY <2>1, <2>2
<1>14. InFlight' = InFlight /\ Pipes' = Pipes
  BY <1>2 DEF InFlight, Free, Pipes
<1>15. InCustody(d, p)' /\ StillOut(d, p)'
  <2>1. p \in InFlight
    BY <1>3 DEF Custody, InCustody
  <2> QED BY <1>3, <1>10, <1>13, <1>14, <2>1 DEF InCustody, StillOut, Bufs
<1>16. ASSUME NEW e \in Data, NEW q \in Pipes PROVE InCustody(e, q)' /\ StillOut(e, q)'
  <2>1. CASE e = d /\ q = p
    BY <1>15, <2>1
  <2>2. CASE e # d \/ q # p
    <3>1. InCustody(e, q) /\ StillOut(e, q) /\ Users(e) \subseteq Nodes
      BY UserFacts DEF Custody
    <3>2. \A m \in Users(e) : GaveBack(m, e, q)' <=> GaveBack(m, e, q)
      BY <1>9, <2>2, <3>1
    <3> QED BY <1>2, <1>10, <1>14, <2>2, <3>1, <3>2, AccountsKept
  <2> QED BY <2>1, <2>2
<1>17. ASSUME NEW u \in Targets PROVE TaskHolds(u)' /\ HasRun(u)'
  <2>1. CASE u = t
    <3>1. HasRun(t)'
      BY <1>2, <1>4, <1>5 DEF HasRun
    <3>2. ASSUME NEW i \in 1 .. Len(task'[t].refs), task'[t].pc = "release", i >= task'[t].prm
          PROVE  /\ data_ref'[Params[n][i]][p].acquired
                 /\ data_ref'[Params[n][i]][p].ref = task[t].refs[i]
      <4>1. /\ task'[t].prm = task[t].prm + 1 /\ task'[t].refs = task[t].refs
            /\ i \in 1 .. Len(Params[n]) /\ i # task[t].prm /\ i >= task[t].prm
        BY <1>4, <1>5, <3>2
      <4>2. Params[n][i] # d /\ Params[n][i] \in Data
        BY <1>4, <1>6, <4>1, PipelineAssumption, ElementOfSeq
      <4>3. TaskHolds(t)
        BY DEF Custody
      <4>4. /\ data_ref[Params[n][i]][p].acquired
            /\ data_ref[Params[n][i]][p].ref = task[t].refs[i]
        BY <1>1, <1>4, <4>1, <4>3 DEF TaskHolds
      <4> QED BY <1>10, <4>2, <4>4
    <3>3. TaskHolds(t)'
      <4>1. CASE task'[t].pc = "release"
        BY <1>5, <3>2, <4>1 DEF TaskHolds
      <4>2. CASE task'[t].pc # "release"
        BY <1>5, <4>2 DEF TaskHolds
      <4> QED BY <4>1, <4>2
    <3> QED BY <2>1, <3>1, <3>3
  <2>2. CASE u # t
    <3>1. task'[u] = task[u] /\ TaskHolds(u) /\ HasRun(u)
      BY <1>5, <2>2 DEF Custody
    <3>2. HasRun(u)'
      BY <1>2, <3>1 DEF HasRun
    <3>3. ASSUME NEW i \in 1 .. Len(task[u].refs),
                 \/ task[u].pc \in {"acquire", "execute"}
                 \/ task[u].pc = "release" /\ i >= task[u].prm
          PROVE  /\ data_ref'[Params[task[u].node][i]][task[u].pipe].acquired
                 /\ data_ref'[Params[task[u].node][i]][task[u].pipe].ref = task[u].refs[i]
      <4>0. PICK m \in Nodes, q \in Pipes : m = task[u].node /\ q = task[u].pipe
        BY TaskTypes
      <4>1. i \in 1 .. Len(Params[m]) /\ Params[m] \in Seq(Data)
        BY <4>0, TaskTypes DEF TaskReferences
      <4>2. PICK e \in Data : e = Params[m][i] /\ m \in Users(e)
        BY <4>1, ElementOfSeq, UserFacts
      <4>3. data_ref[e][q].acquired /\ data_ref[e][q].ref = task[u].refs[i]
        BY <3>1, <3>3, <4>0, <4>2 DEF TaskHolds
      <4>4. CASE e # d \/ q # p
        BY <1>10, <4>0, <4>2, <4>3, <4>4
      <4>5. CASE e = d /\ q = p /\ ~Releases(t)
        BY <1>10, <4>0, <4>2, <4>3, <4>5
      <4>6. CASE e = d /\ q = p /\ Releases(t)
        <5>1. GaveBack(m, d, p)'
          BY <1>13, <1>11, <4>2, <4>6 DEF Spent
        <5>2. CASE task[u].pc \in {"acquire", "execute"}
          <6>1. Pending(m, p)
            BY <4>0, <4>6, <5>2 DEF Pending, Runs
          <6>2. m \notin executed[p]
            BY <6>1 DEF Flow, Ready
          <6> QED BY <1>2, <5>1, <6>2 DEF GaveBack
        <5>3. CASE task[u].pc = "release" /\ i >= task[u].prm
          <6>1. TargetOf[m] = u
            BY <4>0, <5>3 DEF OwnTargets, OwnTask
          <6>2. ToRelease(m, d, p)'
            BY <3>1, <4>0, <4>1, <4>2, <4>6, <5>3, <6>1 DEF ToRelease
          <6> QED BY <5>1, <6>2 DEF GaveBack
        <5> QED BY <3>3, <5>2, <5>3
      <4> QED BY <4>4, <4>5, <4>6
    <3>4. TaskHolds(u)'
      BY <3>1, <3>3 DEF TaskHolds
    <3> QED BY <3>2, <3>4
  <2> QED BY <2>1, <2>2
<1> QED BY <1>14, <1>16, <1>17 DEF Custody

\* The nodes that may be the first to acquire a reference of d in an instance: its
\* writer, or its readers when it comes from the application.
Acquirers(d) == {n \in Users(d) : Writer[d] = n \/ Writer[d] \notin Users(d)}

\* No task comes to park a node on a list that is full.
ParkingRoom ==
    \A t \in Targets :
      /\ task[t].pc = "acquire" /\ ~data_ref[CurrentData(t)][task[t].pipe].acquired
      /\ acquire_q[CurrentData(t)] = <<>>
      => Len(blocked_nodes[CurrentData(t)]) < MaxBlocked

\* The list of parked nodes of each queue has room for them in every instance.
ParkedListsFit == \A d \in Data : Cardinality(Acquirers(d)) * Depth <= MaxBlocked

ParkedAcquire ==
    \A d \in Data : \A n \in Nodes, p \in Pipes :
      IsIn(<<n, p>>, blocked_nodes[d]) => n \in Acquirers(d)

\* A node that finds a reference not acquired is the first to use it.
LEMMA FirstToAcquire ==
  ASSUME WritersFirst, PipeTypes, Flow, Custody, NEW t \in Targets, task[t].pc = "acquire",
         ~data_ref[CurrentData(t)][task[t].pipe].acquired
  PROVE  /\ task[t].node \in Acquirers(CurrentData(t)) /\ task[t].pipe \in InFlight
         /\ task[t].node \notin executed[task[t].pipe]
         /\ \A m \in Users(CurrentData(t)) : m \notin executed[task[t].pipe]
<1>1. PICK n \in Nodes, p \in Pipes, d \in Data :
         n = task[t].node /\ p = task[t].pipe /\ d = CurrentData(t) /\ n \in Users(d)
  BY TaskTypes, CurrentUser
<1>2. Pending(n, p)
  BY <1>1 DEF Pending, Runs
<1>3. p \in InFlight /\ n \notin executed[p] /\ InNodes[n] \subseteq executed[p]
  BY <1>2 DEF Flow, Ready
<1>4. ~Spent(d, p)
  BY <1>1, <1>3 DEF Spent, GaveBack
<1>5. \A m \in Users(d) : m \notin executed[p]
  BY <1>1, <1>4 DEF Custody, StillOut
<1>6. n \in Acquirers(d)
  <2> SUFFICES ASSUME Writer[d] # n, Writer[d] \in Users(d) PROVE FALSE
    BY <1>1 DEF Acquirers
  <2>1. n \in Readers(d)
    BY <1>1, UserFacts
  <2>2. Writer[d] \in executed[p]
    BY <1>3, <2>1 DEF WritersFirst
  <2> QED BY <1>5, <2>2
<1> QED BY <1>1, <1>3, <1>5, <1>6

\* It is not on the list yet, and there is room for it.
LEMMA RoomToPark ==
  ASSUME WritersFirst, ParkedListsFit, PipeTypes, Flow, Custody, ParkedAcquire,
         NEW t \in Targets, task[t].pc = "acquire",
         ~data_ref[CurrentData(t)][task[t].pipe].acquired
  PROVE  Len(blocked_nodes[CurrentData(t)]) < MaxBlocked
<1>1. PICK n \in Nodes, p \in Pipes, d \in Data :
         n = task[t].node /\ p = task[t].pipe /\ d = CurrentData(t) /\ n \in Acquirers(d)
  BY TaskTypes, FirstToAcquire
<1> DEFINE q == blocked_nodes[d]
           S == Acquirers(d) \X Pipes
<1>2. /\ q \in Seq(Nodes \X Pipes) /\ Distinct(q) /\ Len(q) \in Nat
      /\ q \in [1 .. Len(q) -> Nodes \X Pipes]
  BY LenProperties DEF PipeTypes, QueueTypes, Flow, DistinctQueues
<1>3. ~IsIn(<<n, p>>, q)
  <2>1. PICK y : Only(y, n, p)
    BY DEF Flow, Once, Single
  <2>2. y = <<"run", t>>
    BY <1>1, <2>1 DEF Only, Runs
  <2>3. IsIn(<<n, p>>, q) => y = <<"parked", d>>
    BY <2>1 DEF Only
  <2> QED BY <2>2, <2>3
<1>4. q \in Seq(S)
  <2>1. ASSUME NEW i \in 1 .. Len(q) PROVE q[i] \in S
    <3>1. PICK m \in Nodes, r \in Pipes : q[i] = <<m, r>>
      BY <1>2
    <3>2. IsIn(<<m, r>>, q)
      BY <3>1 DEF IsIn
    <3> QED BY <3>1, <3>2 DEF ParkedAcquire
  <2>2. q \in [1 .. Len(q) -> S]
    BY <1>2, <2>1
  <2> HIDE DEF q, S
  <2>3. Seq(S) = UNION {[1 .. k -> S] : k \in Nat}
    BY SeqDef
  <2> QED BY <1>2, <2>2, <2>3
<1>5. <<n, p>> \in S
  BY <1>1
<1>6. Append(q, <<n, p>>) \in Seq(S) /\ Len(Append(q, <<n, p>>)) = Len(q) + 1
      /\ Distinct(Append(q, <<n, p>>))
  <2> HIDE DEF q, S
  <2> QED BY <1>2, <1>3, <1>4, <1>5, AppendIsIn
<1>7. /\ IsFiniteSet(Acquirers(d)) /\ IsFiniteSet(Pipes) /\ Cardinality(Pipes) = Depth
      /\ Depth \in Nat
  <2>1. Acquirers(d) \subseteq Nodes
    BY DEF Acquirers, Users
  <2> QED BY <2>1, NodesAssumption, DepthAssumption, FS_Interval, FS_Subset DEF Pipes
<1>8. IsFiniteSet(S) /\ Cardinality(S) = Cardinality(Acquirers(d)) * Depth
  BY <1>7, FS_Product
<1>9. Len(q) + 1 <= Cardinality(S)
  <2> HIDE DEF q, S
  <2> QED BY <1>6, <1>8, DistinctLength
<1>10. Cardinality(S) \in Nat
  BY <1>8, FS_CardinalityType
<1>11. Cardinality(S) <= MaxBlocked
  BY <1>8 DEF ParkedListsFit
<1> HIDE DEF q, S
<1>12. Len(q) < MaxBlocked
  BY <1>2, <1>9, <1>10, <1>11, PipelineAssumption
<1> QED BY <1>1, <1>12 DEF q

\* What a node does for its next parameter: its instance has the reference already, or
\* acquires the first one of the queue, or the node is parked.
Joins(t, d, p) ==
    /\ data_ref[d][p].acquired /\ ParamAcquired(t, data_ref[d][p].ref)
    /\ UNCHANGED <<acquire_q, data_ref, blocked_nodes>>
Acquires(t, d, p) ==
    /\ ~data_ref[d][p].acquired /\ acquire_q[d] # <<>>
    /\ acquire_q' = [acquire_q EXCEPT ![d] = Tail(acquire_q[d])]
    /\ data_ref' = [data_ref EXCEPT ![d][p] = Acquired(Head(acquire_q[d]))]
    /\ ParamAcquired(t, Head(acquire_q[d])) /\ UNCHANGED blocked_nodes
GetsParked(t, d, p) ==
    /\ ~data_ref[d][p].acquired /\ UNCHANGED <<acquire_q, data_ref>>
    /\ task' = [task EXCEPT ![t] = IdleTask]
    /\ blocked_nodes' = [blocked_nodes EXCEPT ![d] = Append(blocked_nodes[d], <<task[t].node, p>>)]

LEMMA AcquireCases ==
  ASSUME ParkingRoom, NEW t \in Targets, AcquireParameter(t)
  PROVE  /\ task[t].pc = "acquire"
         /\ \/ Joins(t, CurrentData(t), task[t].pipe)
            \/ Acquires(t, CurrentData(t), task[t].pipe)
            \/ GetsParked(t, CurrentData(t), task[t].pipe)
         /\ UNCHANGED <<executed, free_q, done_q, held>>
<1>1. task[t].pc = "acquire" /\ UNCHANGED <<executed, free_q, done_q, held>>
  BY DEF AcquireParameter, sched_vars
<1>2. CASE data_ref[CurrentData(t)][task[t].pipe].acquired
  BY <1>1, <1>2, Zenon DEF AcquireParameter, Joins
<1>3. CASE /\ ~data_ref[CurrentData(t)][task[t].pipe].acquired
           /\ acquire_q[CurrentData(t)] # <<>>
  BY <1>1, <1>3, Zenon DEF AcquireParameter, Acquires
<1>4. CASE /\ ~data_ref[CurrentData(t)][task[t].pipe].acquired
           /\ ~(acquire_q[CurrentData(t)] # <<>>)
  <2>1. Len(blocked_nodes[CurrentData(t)]) < MaxBlocked
    BY <1>1, <1>4 DEF ParkingRoom
  <2>2. /\ task' = [task EXCEPT ![t] = IdleTask]
        /\ blocked_nodes' = [blocked_nodes EXCEPT ![CurrentData(t)] =
             Append(blocked_nodes[CurrentData(t)], <<task[t].node, task[t].pipe>>)]
        /\ UNCHANGED <<acquire_q, data_ref>>
    BY <1>4, <2>1 DEF AcquireParameter
  <2> QED BY <1>1, <1>4, <2>2 DEF GetsParked
<1> QED BY <1>1, <1>2, <1>3, <1>4

\* What a node takes its instance holds.
LEMMA CustodyAcquires ==
  ASSUME WritersFirst, ParkingRoom, PipeTypes, OwnTargets, Flow, Custody, ParkedAcquire,
         NEW t \in Targets, AcquireParameter(t)
  PROVE  Custody'
<1>1. PICK n \in Nodes, p \in Pipes, d \in Data :
         n = task[t].node /\ p = task[t].pipe /\ d = CurrentData(t) /\ n \in Users(d)
         /\ task[t].pc = "acquire" /\ Params[n][task[t].prm] = d
  BY TaskTypes, CurrentUser, AcquireCases
<1>2. /\ Joins(t, d, p) \/ Acquires(t, d, p) \/ GetsParked(t, d, p)
      /\ UNCHANGED <<executed, free_q>>
  BY <1>1, AcquireCases
<1>3. /\ task \in [Targets -> Tasks] /\ Len(task[t].refs) = task[t].prm - 1
      /\ task[t].prm \in Nat \ {0} /\ TaskHolds(t) /\ InCustody(d, p)
      /\ acquire_q[d] \in Seq(Bufs(d)) /\ data_ref[d][p].ref \in References(d)
  BY <1>1, TaskTypes DEF TaskReferences, Custody, PipeTypes, QueueTypes, NodeTypes
<1>4. InFlight' = InFlight /\ Pipes' = Pipes
  BY <1>2 DEF InFlight, Free, Pipes
<1>5. ASSUME Acquires(t, d, p)
      PROVE  /\ Head(acquire_q[d]) \in Bufs(d)
             /\ data_ref'[d][p] = Acquired(Head(acquire_q[d]))
             /\ \A e \in Data, q \in Pipes :
                  e # d \/ q # p => data_ref'[e][q] = data_ref[e][q]
  <2>1. data_ref \in [Data -> [Pipes -> [acquired : BOOLEAN, ref : Nat, in_node_done_cnt : Nat]]]
    BY DEF PipeTypes, NodeTypes
  <2>2. data_ref' = [data_ref EXCEPT ![d][p] = Acquired(Head(acquire_q[d]))]
    BY <1>5 DEF Acquires
  <2>3. Head(acquire_q[d]) \in Bufs(d)
    BY <1>3, <1>5, HeadTailProperties DEF Acquires
  <2> QED BY <2>1, <2>2, <2>3
<1>6. \/ /\ task'[t] = IdleTask /\ GetsParked(t, d, p)
      \/ /\ \A i \in 1 .. Len(task[t].refs) : task'[t].refs[i] = task[t].refs[i]
         /\ Len(task'[t].refs) = Len(task[t].refs) + 1
         /\ task'[t].pc \in {"acquire", "execute"}
         /\ task'[t].node = n /\ task'[t].pipe = p
         /\ data_ref'[d][p].acquired
         /\ task'[t].refs[task[t].prm] = data_ref'[d][p].ref
  <2>1. ASSUME NEW r \in References(d), ParamAcquired(t, r)
        PROVE  /\ \A i \in 1 .. Len(task[t].refs) : task'[t].refs[i] = task[t].refs[i]
               /\ Len(task'[t].refs) = Len(task[t].refs) + 1
               /\ task'[t].pc \in {"acquire", "execute"}
               /\ task'[t].node = n /\ task'[t].pipe = p
               /\ task'[t].refs[task[t].prm] = r
    <3>1. Len(task[t].refs) + 1 = task[t].prm
      BY <1>3
    <3> QED BY <1>1, <2>1, <3>1, ParamAcquiredTypes
  <2>2. CASE Joins(t, d, p)
    <3>1. ParamAcquired(t, data_ref[d][p].ref) /\ data_ref' = data_ref /\ data_ref[d][p].acquired
      BY <2>2 DEF Joins
    <3> QED BY <1>3, <2>1, <3>1
  <2>3. CASE Acquires(t, d, p)
    <3>1. /\ ParamAcquired(t, Head(acquire_q[d])) /\ Head(acquire_q[d]) \in References(d)
          /\ data_ref'[d][p] = Acquired(Head(acquire_q[d]))
      BY <1>5, <2>3 DEF Acquires, References
    <3>2. data_ref'[d][p].acquired /\ data_ref'[d][p].ref = Head(acquire_q[d])
      BY <3>1 DEF Acquired
    <3> QED BY <2>1, <3>1, <3>2
  <2>4. CASE GetsParked(t, d, p)
    BY <1>3, <2>4 DEF GetsParked
  <2> QED BY <1>2, <2>2, <2>3, <2>4
<1>7. \A u \in Targets \ {t} : task'[u] = task[u]
  BY <1>1, <1>3, AcquireParameterEffect
<1>8. task'[t].pc # "release"
  BY <1>6, TaskFacts
<1>9. ASSUME NEW m \in Nodes, NEW e \in Data, NEW q \in Pipes
      PROVE  GaveBack(m, e, q)' <=> GaveBack(m, e, q)
  <2>1. TargetOf[m] \in Targets
    BY PipelineAssumption, NodesAssumption
  <2>2. ToRelease(m, e, q)' <=> ToRelease(m, e, q)
    BY <1>1, <1>7, <1>8, <2>1 DEF ToRelease
  <2> QED BY <1>2, <2>2 DEF GaveBack
<1>10. ASSUME NEW e \in Data, NEW q \in Pipes, data_ref'[e][q] = data_ref[e][q]
       PROVE  InCustody(e, q)' /\ StillOut(e, q)'
  <2>1. InCustody(e, q) /\ StillOut(e, q) /\ Users(e) \subseteq Nodes
    BY UserFacts DEF Custody
  <2>2. \A m \in Users(e) : GaveBack(m, e, q)' <=> GaveBack(m, e, q)
    BY <1>9, <2>1
  <2> QED BY <1>2, <1>4, <1>10, <2>1, <2>2, AccountsKept
<1>11. ASSUME Acquires(t, d, p) PROVE InCustody(d, p)' /\ StillOut(d, p)'
  <2>1. /\ ~data_ref[d][p].acquired /\ p \in InFlight /\ n \notin executed[p]
        /\ \A m \in Users(d) : m \notin executed[p]
    BY <1>1, <1>11, FirstToAcquire DEF Acquires
  <2>2. /\ data_ref'[d][p].acquired /\ data_ref'[d][p].ref \in Bufs(d)
        /\ data_ref'[d][p].in_node_done_cnt = 0
    BY <1>5, <1>11 DEF Acquired
  <2>3. ~Spent(d, p)'
    BY <1>1, <1>2, <2>1 DEF Spent, GaveBack, Users
  <2>4. GivenBack(d, p)' = {}
    BY <1>2, <2>1, UserFacts DEF GivenBack, GaveBack, Readers
  <2>5. Cardinality({}) = 0
    BY FS_EmptySet
  <2> QED BY <1>4, <2>1, <2>2, <2>3, <2>4, <2>5 DEF InCustody, StillOut, Bufs
<1>12. ASSUME NEW e \in Data, NEW q \in Pipes PROVE InCustody(e, q)' /\ StillOut(e, q)'
  <2>1. CASE Acquires(t, d, p) /\ e = d /\ q = p
    BY <1>11, <2>1
  <2>2. CASE Acquires(t, d, p) /\ (e # d \/ q # p)
    BY <1>5, <1>10, <2>2
  <2>3. CASE Joins(t, d, p) \/ GetsParked(t, d, p)
    BY <1>10, <2>3 DEF Joins, GetsParked
  <2> QED BY <1>2, <2>1, <2>2, <2>3
\* What is acquired before the step still is.
<1>13. ASSUME NEW e \in Data, NEW q \in Pipes, data_ref[e][q].acquired
       PROVE  data_ref'[e][q] = data_ref[e][q]
  <2>1. CASE Acquires(t, d, p)
    BY <1>5, <1>13, <2>1 DEF Acquires
  <2>2. CASE Joins(t, d, p) \/ GetsParked(t, d, p)
    BY <2>2 DEF Joins, GetsParked
  <2> QED BY <1>2, <2>1, <2>2
<1>14. ASSUME NEW u \in Targets PROVE TaskHolds(u)' /\ HasRun(u)'
  <2>0. PICK m \in Nodes, q \in Pipes : m = task[u].node /\ q = task[u].pipe
    BY TaskTypes
  <2>1. /\ TaskHolds(u) /\ HasRun(u)
        /\ \A i \in 1 .. Len(task[u].refs) : Params[m][i] \in Data
    <3>1. \A i \in 1 .. Len(task[u].refs) : i \in 1 .. Len(Params[m])
      BY <2>0, TaskTypes DEF TaskReferences
    <3> QED BY <3>1, PipelineAssumption, ElementOfSeq DEF Custody
  <2>2. CASE u # t
    <3>1. task'[u] = task[u]
      BY <1>7, <2>2
    <3>2. ASSUME NEW i \in 1 .. Len(task[u].refs),
                 \/ task[u].pc \in {"acquire", "execute"}
                 \/ task[u].pc = "release" /\ i >= task[u].prm
          PROVE  data_ref'[Params[m][i]][q].acquired
                 /\ data_ref'[Params[m][i]][q].ref = task[u].refs[i]
      <4>1. /\ data_ref[Params[m][i]][q].acquired
            /\ data_ref[Params[m][i]][q].ref = task[u].refs[i]
        BY <2>0, <2>1, <3>2 DEF TaskHolds
      <4> QED BY <1>13, <2>1, <4>1
    <3> QED BY <1>2, <2>0, <2>1, <3>1, <3>2 DEF TaskHolds, HasRun
  <2>3. CASE u = t /\ task'[t] = IdleTask
    <3>1. task'[t].refs = <<>> /\ Len(<<>>) = 0
      BY <2>3, TaskFacts, EmptySeq
    <3> QED BY <1>8, <2>3, <3>1 DEF TaskHolds, HasRun
  <2>4. CASE u = t /\ task'[t] # IdleTask
    <3>1. ASSUME NEW i \in 1 .. Len(task'[t].refs)
          PROVE  data_ref'[Params[n][i]][p].acquired
                 /\ data_ref'[Params[n][i]][p].ref = task'[t].refs[i]
      <4>1. i \in 1 .. Len(task[t].refs) \/ i = task[t].prm
        BY <1>3, <1>6, <2>4
      <4>2. CASE i = task[t].prm
        BY <1>1, <1>6, <2>4, <4>2
      <4>3. CASE i \in 1 .. Len(task[t].refs)
        <5>1. /\ data_ref[Params[n][i]][p].acquired
              /\ data_ref[Params[n][i]][p].ref = task[t].refs[i]
              /\ Params[n][i] \in Data
          BY <1>1, <1>3, <2>0, <2>1, <2>4, <4>3 DEF TaskHolds
        <5> QED BY <1>6, <1>13, <2>4, <4>3, <5>1
      <4> QED BY <4>1, <4>2, <4>3
    <3>2. TaskHolds(t)'
      BY <1>6, <2>4, <3>1 DEF TaskHolds
    <3> QED BY <1>8, <2>4, <3>2 DEF HasRun
  <2> QED BY <2>2, <2>3, <2>4
<1> QED BY <1>4, <1>12, <1>14 DEF Custody

\* Only a node that acquires is parked.
LEMMA ParkedKept ==
  ASSUME PipeTypes, ParkedAcquire,
         \A d \in Data : blocked_nodes'[d] = blocked_nodes[d] \/ blocked_nodes'[d] = <<>>
  PROVE  ParkedAcquire'
<1>1. ASSUME NEW d \in Data, NEW n \in Nodes, NEW p \in Pipes, IsIn(<<n, p>>, blocked_nodes'[d])
      PROVE  n \in Acquirers(d)
  <2>1. ~IsIn(<<n, p>>, <<>>)
    BY DEF IsIn
  <2>2. IsIn(<<n, p>>, blocked_nodes[d])
    BY <1>1, <2>1
  <2> QED BY <2>2 DEF ParkedAcquire
<1>2. Pipes' = Pipes /\ \A d \in Data : Acquirers(d)' = Acquirers(d)
  BY DEF Pipes, Acquirers, Users
<1> QED BY <1>1, <1>2 DEF ParkedAcquire

LEMMA ParkedAcquires ==
  ASSUME WritersFirst, ParkingRoom, PipeTypes, Flow, Custody, ParkedAcquire,
         NEW t \in Targets, AcquireParameter(t)
  PROVE  ParkedAcquire'
<1>1. PICK n \in Nodes, p \in Pipes, d \in Data :
         n = task[t].node /\ p = task[t].pipe /\ d = CurrentData(t)
         /\ task[t].pc = "acquire"
  BY TaskTypes, CurrentUser, AcquireCases
<1>2. Joins(t, d, p) \/ Acquires(t, d, p) \/ GetsParked(t, d, p)
  BY <1>1, AcquireCases
<1>3. CASE Joins(t, d, p) \/ Acquires(t, d, p)
  <2>1. blocked_nodes' = blocked_nodes
    BY <1>3 DEF Joins, Acquires
  <2> QED BY <2>1, ParkedKept
<1>4. CASE GetsParked(t, d, p)
  <2>1. n \in Acquirers(d)
    BY <1>1, <1>4, FirstToAcquire DEF GetsParked
  <2>2. /\ blocked_nodes \in [Data -> Seq(Nodes \X Pipes)]
        /\ blocked_nodes' = [blocked_nodes EXCEPT ![d] = Append(blocked_nodes[d], <<n, p>>)]
    BY <1>1, <1>4 DEF GetsParked, PipeTypes, QueueTypes
  <2>3. ASSUME NEW e \in Data, NEW m \in Nodes, NEW q \in Pipes, IsIn(<<m, q>>, blocked_nodes'[e])
        PROVE  m \in Acquirers(e)
    <3>1. CASE e # d
      BY <2>2, <2>3, <3>1 DEF ParkedAcquire
    <3>2. CASE e = d
      <4>1. IsIn(<<m, q>>, Append(blocked_nodes[d], <<n, p>>))
        BY <2>2, <2>3, <3>2
      <4>2. IsIn(<<m, q>>, blocked_nodes[d]) \/ <<m, q>> = <<n, p>>
        <5>1. blocked_nodes[d] \in Seq(Nodes \X Pipes) /\ <<n, p>> \in Nodes \X Pipes
          BY <2>2
        <5> QED BY <4>1, <5>1, AppendIsIn
      <4> QED BY <2>1, <3>2, <4>2 DEF ParkedAcquire
    <3> QED BY <3>1, <3>2
  <2>4. Pipes' = Pipes /\ \A e \in Data : Acquirers(e)' = Acquirers(e)
    BY DEF Pipes, Acquirers, Users
  <2> QED BY <2>3, <2>4 DEF ParkedAcquire
<1> QED BY <1>2, <1>3, <1>4

\* A target's step.
LEMMA TargetCustody ==
  ASSUME ParametersOnce, WritersFirst, ParkingRoom, PipeTypes, OwnTargets, Flow, LeafFlow,
         Custody, ParkedAcquire, NEW t \in Targets, TargetNext(t)
  PROVE  Custody' /\ ParkedAcquire'
<1>1. task \in [Targets -> Tasks] /\ task[t] \in Tasks /\ IdleTask.pc = "idle"
  BY TaskTypes, TaskFacts
<1>2. ASSUME UNCHANGED <<data_ref, executed, free_q, blocked_nodes>>,
             task[t].pc # "release", \A u \in Targets \ {t} : task'[u] = task[u],
             \/ task'[t] = task[t] \/ task'[t] = IdleTask \/ task'[t].pc = "trigger"
             \/ task'[t].pc = "acquire" /\ task'[t].refs = <<>>
      PROVE  Custody' /\ ParkedAcquire'
  <2>1. \A u \in Targets : Passive(u)
    BY <1>1, <1>2 DEF Passive
  <2> QED BY <1>2, <2>1, QuietCustody, ParkedKept
<1>3. CASE FetchNode(t)
  <2>1. /\ UNCHANGED <<data_ref, executed, free_q, blocked_nodes>> /\ task[t].pc = "idle"
    BY <1>3 DEF FetchNode, vars, sched_vars
  <2>2. UNCHANGED task \/ \E n \in Nodes, p \in Pipes : task' = [task EXCEPT ![t] = TakenNode(n, p)]
    BY <1>3, FetchNodeEffect
  <2>3. /\ \A u \in Targets \ {t} : task'[u] = task[u]
        /\ task'[t] = task[t] \/ (task'[t].pc = "acquire" /\ task'[t].refs = <<>>)
    BY <1>1, <2>2, TaskFacts
  <2> QED BY <1>2, <2>1, <2>3
<1>4. CASE AcquireParameter(t)
  BY <1>4, CustodyAcquires, ParkedAcquires
<1>5. CASE ExecuteNode(t)
  <2>1. UNCHANGED blocked_nodes
    BY <1>5 DEF ExecuteNode
  <2> QED BY <1>5, <2>1, CustodyExecutes, ParkedKept
<1>6. CASE ReleaseParameter(t)
  <2>1. task[t].pc = "release"
    BY <1>6 DEF ReleaseParameter
  <2>2. CurrentData(t) \in Data /\ blocked_nodes \in [Data -> Seq(Nodes \X Pipes)]
    BY <2>1, TaskTypes DEF PipeTypes, QueueTypes
  <2>3. \/ UNCHANGED blocked_nodes
        \/ blocked_nodes' = [blocked_nodes EXCEPT ![CurrentData(t)] = <<>>]
    BY <1>6, ReleaseParameterEffect
  <2>4. \A d \in Data : blocked_nodes'[d] = blocked_nodes[d] \/ blocked_nodes'[d] = <<>>
    BY <2>2, <2>3
  <2> QED BY <1>6, <2>4, CustodyReleases, ParkedKept
<1>7. CASE SendComplete(t)
  <2> DEFINE tk == [task[t] EXCEPT !.pc = "trigger"]
  <2>1. /\ UNCHANGED <<data_ref, executed, free_q, blocked_nodes>>
        /\ task' = [task EXCEPT ![t] = Finished(tk)] /\ task[t].pc = "complete"
    BY <1>7 DEF SendComplete, sched_vars
  <2>2. tk.pc = "trigger"
    BY <1>1 DEF Tasks
  <2> HIDE DEF tk
  <2>3. Finished(tk) = tk \/ Finished(tk) = IdleTask
    BY DEF Finished
  <2>4. /\ \A u \in Targets \ {t} : task'[u] = task[u]
        /\ task'[t] = IdleTask \/ task'[t].pc = "trigger"
    BY <1>1, <2>1, <2>2, <2>3
  <2> QED BY <1>2, <2>1, <2>4
<1>8. CASE TriggerNextNode(t)
  <2> DEFINE tk == [task[t] EXCEPT !.prm = task[t].prm + 1]
  <2>1. /\ UNCHANGED <<data_ref, executed, free_q, blocked_nodes>>
        /\ task' = [task EXCEPT ![t] = Finished(tk)] /\ task[t].pc = "trigger"
    BY <1>8 DEF TriggerNextNode, vars, sched_vars
  <2>2. tk.pc = "trigger"
    BY <1>1, <2>1 DEF Tasks
  <2> HIDE DEF tk
  <2>3. Finished(tk) = tk \/ Finished(tk) = IdleTask
    BY DEF Finished
  <2>4. /\ \A u \in Targets \ {t} : task'[u] = task[u]
        /\ task'[t] = IdleTask \/ task'[t].pc = "trigger"
    BY <1>1, <2>1, <2>2, <2>3
  <2> QED BY <1>2, <2>1, <2>4
<1>9. CASE TriggerNextPipe(t)
  <2>1. /\ UNCHANGED <<data_ref, executed, free_q, blocked_nodes>>
        /\ task' = [task EXCEPT ![t] = IdleTask] /\ task[t].pc = "trigger"
    BY <1>9 DEF TriggerNextPipe, vars, sched_vars
  <2> QED BY <1>1, <1>2, <2>1
<1> QED BY <1>3, <1>4, <1>5, <1>6, <1>7, <1>8, <1>9 DEF TargetNext

\* The steps of the application and of the host.
LEMMA CustodyNext ==
  ASSUME ParametersOnce, WritersFirst, ParkingRoom, PipeTypes, OwnTargets, Flow, LeafFlow,
         Custody, ParkedAcquire, [PipeNext]_all_vars
  PROVE  Custody' /\ ParkedAcquire'
<1>1. ASSUME UNCHANGED <<data_ref, executed, free_q, task>>,
             \A d \in Data : blocked_nodes'[d] = blocked_nodes[d] \/ blocked_nodes'[d] = <<>>
      PROVE  Custody' /\ ParkedAcquire'
  <2>1. \A u \in Targets : Passive(u)
    BY <1>1 DEF Passive
  <2> QED BY <1>1, <2>1, QuietCustody, ParkedKept
<1>2. ASSUME NEW num \in Nat, OwnGraphScheduleGraph(num),
             UNCHANGED <<data_ref, task, blocked_nodes>>
      PROVE  Custody' /\ ParkedAcquire'
  BY <1>2, CustodyStarts, ParkedKept
<1>3. ASSUME NEW d \in UserData, NEW th \in Threads, outbox[th] = <<>>,
             \E r \in held[d] : EnqueueReady(d, r, th)
      PROVE  \A e \in Data : blocked_nodes'[e] = blocked_nodes[e] \/ blocked_nodes'[e] = <<>>
  <2>1. /\ d \in Data /\ blocked_nodes \in [Data -> Seq(Nodes \X Pipes)]
        /\ blocked_nodes' = [blocked_nodes EXCEPT ![d] = <<>>]
    BY <1>3, EnqueueReadyEffect DEF PipeTypes, QueueTypes
  <2> QED BY <2>1
<1>4. ASSUME NEW a \in Apps, FeederNext(a) PROVE Custody' /\ ParkedAcquire'
  <2>1. CASE FeedBegin(a)
    <3>1. UNCHANGED <<data_ref, executed, free_q, task, blocked_nodes>>
      BY <2>1 DEF FeedBegin, VxEnqueueReadyRef, pipe_vars, sched_vars
    <3> QED BY <1>1, <3>1
  <2>2. CASE Feed(a)
    <3>1. /\ UNCHANGED <<data_ref, executed, free_q, task>> /\ outbox[a] = <<>>
          /\ \E r \in held[Param0] : EnqueueReady(Param0, r, a)
          /\ a \in Threads /\ Param0 \in UserData
      BY <2>2, GraphAssumption DEF Feed, EnqueueRef, sched_vars, Threads
    <3> QED BY <1>1, <1>3, <3>1
  <2>3. CASE FeedSchedule(a)
    <3>1. /\ app[a].n \in Nat /\ OwnGraphScheduleGraph(app[a].n)
          /\ UNCHANGED <<data_ref, task, blocked_nodes>>
      BY <2>3 DEF PipeTypes, SchedulerTypes, AppStates, FeedSchedule, AppSchedule
    <3> QED BY <1>2, <3>1
  <2> QED BY <1>4, <2>1, <2>2, <2>3 DEF FeederNext
<1>5. ASSUME NEW d \in UserData, UserNext(d) PROVE Custody' /\ ParkedAcquire'
  <2>1. CASE Replenish(d)
    <3>1. /\ UNCHANGED <<data_ref, executed, free_q, task>> /\ outbox[d] = <<>>
          /\ \E r \in held[d] : EnqueueReady(d, r, d)
          /\ d \in Threads
      BY <2>1 DEF Replenish, vars, sched_vars, Threads
    <3> QED BY <1>1, <1>3, <3>1
  <2>2. CASE DequeueDoneRef(d) \/ DequeuerWoken(d)
    <3>1. UNCHANGED <<data_ref, executed, free_q, task, blocked_nodes>>
      BY <2>2 DEF DequeueDoneRef, DequeuerWoken, vars, sched_vars
    <3> QED BY <1>1, <3>1
  <2> QED BY <1>5, <2>1, <2>2 DEF UserNext
<1>6. ASSUME NEW th \in Threads, SendNext(th) PROVE Custody' /\ ParkedAcquire'
  <2>1. UNCHANGED <<data_ref, executed, free_q, task, blocked_nodes>>
    BY <1>6 DEF SendNext, sched_vars
  <2> QED BY <1>1, <2>1
<1>7. ASSUME HostTaskNext PROVE Custody' /\ ParkedAcquire'
  <2>1. CASE RefConsumed
    <3>1. UNCHANGED <<data_ref, executed, free_q, task, blocked_nodes>>
      BY <2>1 DEF RefConsumed, sched_vars
    <3> QED BY <1>1, <3>1
  <2>2. CASE HostCompletion /\ (HostTake \/ LeafCompleted \/ HostAction)
    <3>1. UNCHANGED <<data_ref, executed, free_q, task, blocked_nodes>>
      BY <2>2 DEF HostCompletion, HostTake, LeafCompleted, HostAction, pipe_vars, sched_vars
    <3> QED BY <1>1, <3>1
  <2>3. CASE HostCompletion /\ GraphCompleted
    <3>1. UNCHANGED pipe_vars /\ UNCHANGED blocked_nodes
      BY <2>3 DEF HostCompletion, pipe_vars
    <3> QED BY <2>3, <3>1, CustodyEnds, ParkedKept
  <2>4. CASE HostRestart
    <3>1. /\ host.schedule_count \in Nat /\ OwnGraphScheduleGraph(host.schedule_count)
          /\ UNCHANGED <<data_ref, task, blocked_nodes>>
      BY <2>4 DEF PipeTypes, SchedulerTypes, HostStates, HostRestart, HostReschedule
    <3> QED BY <1>2, <3>1
  <2> QED BY <1>7, <2>1, <2>2, <2>3, <2>4 DEF HostTaskNext, HostCompletion
<1>8. CASE UNCHANGED all_vars
  <2>1. UNCHANGED <<data_ref, executed, free_q, task, blocked_nodes>>
    BY <1>8 DEF all_vars, vars, sched_vars, pipe_vars
  <2> QED BY <1>1, <2>1
<1>9. CASE PipeNext
  BY <1>4, <1>5, <1>6, <1>7, <1>9, TargetCustody DEF PipeNext
<1> QED BY <1>8, <1>9

LEMMA CustodyInit == PipeInit => Custody /\ ParkedAcquire
<1> SUFFICES ASSUME PipeInit PROVE Custody /\ ParkedAcquire
  OBVIOUS
<1>1. /\ executed = [p \in Pipes |-> {}] /\ task = [t \in Targets |-> IdleTask]
      /\ blocked_nodes = [d \in Data |-> <<>>]
      /\ \A d \in Data, p \in Pipes : ~data_ref[d][p].acquired
  BY DEF PipeInit, Init
<1>2. \A d \in Data, p \in Pipes : InCustody(d, p) /\ StillOut(d, p)
  BY <1>1 DEF InCustody, StillOut
<1>3. \A t \in Targets : TaskHolds(t) /\ HasRun(t)
  BY <1>1, TaskFacts DEF TaskHolds, HasRun
<1>4. ParkedAcquire
  BY <1>1 DEF ParkedAcquire, IsIn
<1> QED BY <1>2, <1>3, <1>4 DEF Custody

\* The instances that have acquired reference r of d, and the places it is in.
Holders(d, r) == {p \in Pipes : data_ref[d][p].acquired /\ data_ref[d][p].ref = r}
InOnePlace(d, r) ==
    Cardinality(Places(acquire_q[d], {r})) + Cardinality(Holders(d, r))
      + (IF d \in UserData
         THEN Cardinality(Places(done_q[d], {r})) + Cardinality(held[d] \cap {r}) ELSE 0) = 1
Conserved == \A d \in Data : \A r \in Bufs(d) : InOnePlace(d, r)

LEMMA HeldCount ==
  ASSUME NEW S, NEW r
  PROVE  Cardinality(S \cap {r}) = IF r \in S THEN 1 ELSE 0
<1>1. CASE r \in S
  <2>1. S \cap {r} = {r} /\ Cardinality({r}) = 1
    BY <1>1, FS_Singleton
  <2> QED BY <1>1, <2>1
<1>2. CASE r \notin S
  <2>1. S \cap {r} = {} /\ Cardinality({}) = 0
    BY <1>2, FS_EmptySet
  <2> QED BY <1>2, <2>1
<1> QED BY <1>1, <1>2

LEMMA PlaceCounts ==
  ASSUME QueueTypes, NEW d \in Data, NEW r \in Bufs(d)
  PROVE  /\ Cardinality(Places(acquire_q[d], {r})) \in Nat
         /\ IsFiniteSet(Holders(d, r)) /\ Cardinality(Holders(d, r)) \in Nat
         /\ d \in UserData => /\ Cardinality(Places(done_q[d], {r})) \in Nat
                              /\ Cardinality(held[d] \cap {r}) = IF r \in held[d] THEN 1 ELSE 0
<1>1. Cardinality(Places(acquire_q[d], {r})) \in Nat
  BY PlacesFinite DEF QueueTypes
<1>2. IsFiniteSet(Holders(d, r)) /\ Cardinality(Holders(d, r)) \in Nat
  <2>1. IsFiniteSet(Pipes)
    BY DepthAssumption, FS_Interval DEF Pipes
  <2>2. Holders(d, r) \subseteq Pipes
    BY DEF Holders
  <2> QED BY <2>1, <2>2, FS_Subset, FS_CardinalityType
<1>3. d \in UserData => Cardinality(Places(done_q[d], {r})) \in Nat
  BY PlacesFinite DEF QueueTypes
<1>4. Cardinality(held[d] \cap {r}) = IF r \in held[d] THEN 1 ELSE 0
  BY HeldCount
<1> QED BY <1>1, <1>2, <1>3, <1>4

\* A step that leaves the references of d where they are.
LEMMA StaysPlaced ==
  ASSUME NEW d \in Data, NEW r \in Bufs(d), InOnePlace(d, r), acquire_q'[d] = acquire_q[d],
         \A p \in Pipes : /\ data_ref'[d][p].acquired <=> data_ref[d][p].acquired
                          /\ data_ref'[d][p].ref = data_ref[d][p].ref,
         d \in UserData => done_q'[d] = done_q[d] /\ held'[d] = held[d]
  PROVE  InOnePlace(d, r)'
<1>1. Holders(d, r)' = Holders(d, r)
  BY DEF Holders, Pipes
<1> QED BY <1>1 DEF InOnePlace, Places

\* The application puts a reference it holds into the ready queue.
LEMMA EnqueueConserves ==
  ASSUME QueueTypes, Conserved, NEW e \in UserData, NEW s \in held[e],
         NEW th, EnqueueReady(e, s, th), UNCHANGED <<done_q, data_ref>>
  PROVE  Conserved'
<1>1. /\ e \in Data /\ s \in Bufs(e)
      /\ held' = [held EXCEPT ![e] = held[e] \ {s}]
      /\ acquire_q' = [acquire_q EXCEPT ![e] = Append(acquire_q[e], s)]
  BY GraphAssumption DEF EnqueueReady, QueueTypes
<1>2. /\ held'[e] = held[e] \ {s} /\ acquire_q'[e] = Append(acquire_q[e], s)
      /\ \A d \in Data \ {e} : acquire_q'[d] = acquire_q[d]
      /\ \A d \in UserData \ {e} : held'[d] = held[d]
  BY <1>1 DEF QueueTypes
<1>3. ASSUME NEW d \in Data, NEW r \in Bufs(d) PROVE InOnePlace(d, r)'
  <2>1. InOnePlace(d, r)
    BY DEF Conserved
  <2>2. CASE d # e
    BY <1>2, <2>1, <2>2, StaysPlaced
  <2>3. CASE d = e
    <3>1. Cardinality(Places(acquire_q'[e], {r}))
            = Cardinality(Places(acquire_q[e], {r})) + IF s = r THEN 1 ELSE 0
      <4>1. acquire_q[e] \in Seq(Bufs(e))
        BY <1>1 DEF QueueTypes
      <4>2. Cardinality(Places(Append(acquire_q[e], s), {r}))
            = Cardinality(Places(acquire_q[e], {r})) + IF s \in {r} THEN 1 ELSE 0
        BY <1>1, <4>1, PlacesAppend
      <4> QED BY <1>2, <4>2
    <3>2. Holders(e, r)' = Holders(e, r) /\ Places(done_q[e], {r})' = Places(done_q[e], {r})
      BY DEF Holders, Places, Pipes
    <3>3. /\ Cardinality(Places(acquire_q[e], {r})) \in Nat
          /\ Cardinality(Holders(e, r)) \in Nat /\ Cardinality(Places(done_q[e], {r})) \in Nat
          /\ Cardinality(held[e] \cap {r}) = IF r \in held[e] THEN 1 ELSE 0
          /\ Cardinality(held'[e] \cap {r}) = IF r \in held'[e] THEN 1 ELSE 0
      <4>1. Cardinality(held'[e] \cap {r}) = IF r \in held'[e] THEN 1 ELSE 0
        BY HeldCount
      <4> QED BY <2>3, <4>1, PlaceCounts
    <3>4. Cardinality(Places(acquire_q[e], {r})) + Cardinality(Holders(e, r))
            + (Cardinality(Places(done_q[e], {r})) + Cardinality(held[e] \cap {r})) = 1
      BY <2>1, <2>3 DEF InOnePlace
    <3>5. r \in held'[e] <=> r \in held[e] /\ r # s
      BY <1>2
    <3>6. Cardinality(Places(acquire_q'[e], {r})) + Cardinality(Holders(e, r))
            + (Cardinality(Places(done_q[e], {r})) + Cardinality(held'[e] \cap {r})) = 1
      BY <3>1, <3>3, <3>4, <3>5
    <3>7. Places(acquire_q[e], {r})' = Places(acquire_q'[e], {r})
      BY DEF Places
    <3> QED BY <2>3, <3>2, <3>6, <3>7 DEF InOnePlace
  <2> QED BY <2>2, <2>3
<1> QED BY <1>3 DEF Conserved, Bufs

\* The application takes a reference that is done.
LEMMA DequeueConserves ==
  ASSUME QueueTypes, Conserved, NEW e \in UserData, done_q[e] # <<>>,
         done_q' = [done_q EXCEPT ![e] = Tail(done_q[e])],
         held' = [held EXCEPT ![e] = held[e] \cup {Head(done_q[e])}],
         UNCHANGED <<acquire_q, data_ref>>
  PROVE  Conserved'
<1>1. e \in Data /\ done_q[e] \in Seq(Bufs(e)) /\ Head(done_q[e]) \in Bufs(e)
  BY GraphAssumption, HeadTailProperties DEF QueueTypes
<1>2. /\ held'[e] = held[e] \cup {Head(done_q[e])} /\ done_q'[e] = Tail(done_q[e])
      /\ \A d \in UserData \ {e} : held'[d] = held[d] /\ done_q'[d] = done_q[d]
  BY <1>1 DEF QueueTypes
<1>3. ASSUME NEW d \in Data, NEW r \in Bufs(d) PROVE InOnePlace(d, r)'
  <2>1. InOnePlace(d, r)
    BY DEF Conserved
  <2>2. CASE d # e
    BY <1>2, <2>1, <2>2, StaysPlaced
  <2>3. CASE d = e
    <3>1. Cardinality(Places(done_q[e], {r}))
            = Cardinality(Places(done_q'[e], {r})) + IF Head(done_q[e]) = r THEN 1 ELSE 0
      <4>1. Cardinality(Places(done_q[e], {r})) = Cardinality(Places(Tail(done_q[e]), {r}))
              + IF Head(done_q[e]) \in {r} THEN 1 ELSE 0
        BY <1>1, PlacesTail
      <4> QED BY <1>2, <4>1
    <3>2. Holders(e, r)' = Holders(e, r) /\ Places(acquire_q[e], {r})' = Places(acquire_q[e], {r})
      BY DEF Holders, Places, Pipes
    <3>3. /\ Cardinality(Places(acquire_q[e], {r})) \in Nat
          /\ Cardinality(Holders(e, r)) \in Nat /\ Cardinality(Places(done_q[e], {r})) \in Nat
          /\ Cardinality(Places(done_q'[e], {r})) \in Nat
          /\ Cardinality(held[e] \cap {r}) = IF r \in held[e] THEN 1 ELSE 0
          /\ Cardinality(held'[e] \cap {r}) = IF r \in held'[e] THEN 1 ELSE 0
      <4>1. Cardinality(held'[e] \cap {r}) = IF r \in held'[e] THEN 1 ELSE 0
        BY HeldCount
      <4>2. done_q'[e] \in Seq(Bufs(e))
        BY <1>1, <1>2, HeadTailProperties
      <4>3. Cardinality(Places(done_q'[e], {r})) \in Nat
        BY <4>2, PlacesFinite
      <4> QED BY <2>3, <4>1, <4>3, PlaceCounts
    <3>4. Cardinality(Places(acquire_q[e], {r})) + Cardinality(Holders(e, r))
            + (Cardinality(Places(done_q[e], {r})) + Cardinality(held[e] \cap {r})) = 1
      BY <2>1, <2>3 DEF InOnePlace
    <3>5. r \in held'[e] <=> r \in held[e] \/ r = Head(done_q[e])
      BY <1>2
    <3>6. Cardinality(Places(acquire_q[e], {r})) + Cardinality(Holders(e, r))
            + (Cardinality(Places(done_q'[e], {r})) + Cardinality(held'[e] \cap {r})) = 1
      BY <3>1, <3>3, <3>4, <3>5
    <3>7. Places(done_q[e], {r})' = Places(done_q'[e], {r})
      BY DEF Places
    <3> QED BY <2>3, <3>2, <3>6, <3>7 DEF InOnePlace
  <2> QED BY <2>2, <2>3
<1> QED BY <1>3 DEF Conserved, Bufs

\* A node takes the first reference of a queue for its instance.
LEMMA AcquireConserves ==
  ASSUME PipeTypes, Conserved, UNCHANGED <<done_q, held>>,
         NEW t \in Targets, NEW e \in Data, NEW x \in Pipes,
         \/ Joins(t, e, x) \/ Acquires(t, e, x) \/ GetsParked(t, e, x)
  PROVE  Conserved'
<1>1. CASE UNCHANGED <<acquire_q, data_ref>>
  BY <1>1, StaysPlaced DEF Conserved, Bufs
<1>2. CASE Acquires(t, e, x)
  <2> DEFINE s == Head(acquire_q[e])
  <2>1. /\ acquire_q[e] \in Seq(Bufs(e)) /\ acquire_q[e] # <<>> /\ ~data_ref[e][x].acquired
        /\ QueueTypes
    BY <1>2 DEF PipeTypes, QueueTypes, Acquires
  <2>2. /\ acquire_q'[e] = Tail(acquire_q[e])
        /\ data_ref'[e][x].acquired /\ data_ref'[e][x].ref = s
        /\ \A d \in Data \ {e} : acquire_q'[d] = acquire_q[d] /\ data_ref'[d] = data_ref[d]
        /\ \A p \in Pipes \ {x} : data_ref'[e][p] = data_ref[e][p]
    BY <1>2 DEF PipeTypes, QueueTypes, NodeTypes, Acquires, Acquired
  <2>3. ASSUME NEW d \in Data, NEW r \in Bufs(d) PROVE InOnePlace(d, r)'
    <3>1. InOnePlace(d, r)
      BY DEF Conserved
    <3>2. CASE d # e
      BY <2>2, <3>1, <3>2, StaysPlaced
    <3>3. CASE d = e
      <4>1. Cardinality(Places(acquire_q[e], {r}))
              = Cardinality(Places(acquire_q'[e], {r})) + IF s = r THEN 1 ELSE 0
        <5>1. Cardinality(Places(acquire_q[e], {r}))
                = Cardinality(Places(Tail(acquire_q[e]), {r})) + IF s \in {r} THEN 1 ELSE 0
          BY <2>1, PlacesTail
        <5> QED BY <2>2, <5>1
      <4>2. /\ Cardinality(Places(acquire_q[e], {r})) \in Nat
            /\ IsFiniteSet(Holders(e, r)) /\ Cardinality(Holders(e, r)) \in Nat
            /\ e \in UserData => /\ Cardinality(Places(done_q[e], {r})) \in Nat
                                 /\ Cardinality(held[e] \cap {r}) \in Nat
        <5>1. QueueTypes /\ r \in Bufs(e)
          BY <2>1, <3>3
        <5>2. Cardinality(held[e] \cap {r}) = IF r \in held[e] THEN 1 ELSE 0
          BY HeldCount
        <5>3. /\ Cardinality(Places(acquire_q[e], {r})) \in Nat
              /\ IsFiniteSet(Holders(e, r)) /\ Cardinality(Holders(e, r)) \in Nat
          BY <5>1, PlaceCounts
        <5>4. e \in UserData => Cardinality(Places(done_q[e], {r})) \in Nat
          BY <5>1, PlaceCounts
        <5>5. Cardinality(held[e] \cap {r}) \in Nat
          BY <5>2
        <5> QED BY <5>3, <5>4, <5>5
      <4>3. acquire_q'[e] \in Seq(Bufs(e))
        BY <2>1, <2>2, HeadTailProperties
      <4>4. Cardinality(Places(acquire_q'[e], {r})) \in Nat
        BY <4>3, PlacesFinite
      <4>5. x \notin Holders(e, r)
        BY <2>1 DEF Holders
      <4>6. Cardinality(Holders(e, r)') = Cardinality(Holders(e, r)) + IF s = r THEN 1 ELSE 0
        <5>1. CASE s = r
          <6>1. Holders(e, r)' = Holders(e, r) \cup {x}
            BY <2>2, <5>1 DEF Holders, Pipes
          <6> QED BY <4>2, <4>5, <5>1, <6>1, FS_AddElement
        <5>2. CASE s # r
          <6>1. Holders(e, r)' = Holders(e, r)
            BY <2>2, <4>5, <5>2 DEF Holders, Pipes
          <6> QED BY <4>2, <5>2, <6>1
        <5> QED BY <5>1, <5>2
      <4> QED BY <3>1, <3>3, <4>1, <4>2, <4>4, <4>6 DEF InOnePlace, Places
    <3> QED BY <3>2, <3>3
  <2> QED BY <2>3 DEF Conserved, Bufs
<1> QED BY <1>1, <1>2 DEF Joins, GetsParked

\* The last node that uses a reference puts it into the queue that it goes to.
LEMMA ReleaseConserves ==
  ASSUME PipeTypes, Custody, Conserved, NEW t \in Targets, ReleaseParameter(t)
  PROVE  Conserved'
<1>1. PICK n \in Nodes, x \in Pipes, e \in Data :
         n = task[t].node /\ x = task[t].pipe /\ e = CurrentData(t) /\ task[t].pc = "release"
  BY TaskTypes, ReleaseParameterEffect
<1> DEFINE s == Ref(t)
<1>2. /\ data_ref[e][x].acquired /\ data_ref[e][x].ref = s /\ s \in Bufs(e) /\ s # Invalid
  BY <1>1, ReleasedReference
<1>3. /\ data_ref' = [data_ref EXCEPT ![e][x] =
             [acquired |-> data_ref[e][x].acquired /\ ~Releases(t),
              ref |-> IF Writer[e] # n \/ Releases(t) THEN data_ref[e][x].ref ELSE Ref(t),
              in_node_done_cnt |-> Count(t)]]
      /\ \/ /\ Given(t) /\ e \in UserData /\ UNCHANGED acquire_q
            /\ done_q' = [done_q EXCEPT ![e] = Append(done_q[e], s)]
         \/ /\ Given(t) /\ e \notin UserData /\ UNCHANGED done_q
            /\ acquire_q' = [acquire_q EXCEPT ![e] = Append(acquire_q[e], s)]
         \/ ~Given(t) /\ UNCHANGED <<acquire_q, done_q>>
      /\ UNCHANGED held
  BY <1>1, ReleaseParameterEffect
<1>4. Given(t) <=> Releases(t)
  BY <1>2 DEF Given
<1>5. /\ data_ref'[e][x].acquired <=> ~Releases(t)
      /\ data_ref'[e][x].ref = data_ref[e][x].ref
      /\ \A d \in Data, p \in Pipes : d # e \/ p # x => data_ref'[d][p] = data_ref[d][p]
  <2>1. data_ref \in [Data -> [Pipes -> [acquired : BOOLEAN, ref : Nat, in_node_done_cnt : Nat]]]
    BY DEF PipeTypes, NodeTypes
  <2>2. (IF Writer[e] # n \/ Releases(t) THEN data_ref[e][x].ref ELSE Ref(t)) = data_ref[e][x].ref
    BY <1>2
  <2>3. (data_ref[e][x].acquired /\ ~Releases(t)) <=> ~Releases(t)
    BY <1>2
  <2> DEFINE new == [acquired |-> data_ref[e][x].acquired /\ ~Releases(t),
                     ref |-> IF Writer[e] # n \/ Releases(t) THEN data_ref[e][x].ref ELSE Ref(t),
                     in_node_done_cnt |-> Count(t)]
  <2>4. (new.acquired <=> ~Releases(t)) /\ new.ref = data_ref[e][x].ref
    BY <2>2, <2>3
  <2>5. data_ref' = [data_ref EXCEPT ![e][x] = new]
    BY <1>3
  <2> HIDE DEF new
  <2>6. data_ref'[e][x] = new
    BY <2>1, <2>5
  <2>7. \A d \in Data, p \in Pipes : d # e \/ p # x => data_ref'[d][p] = data_ref[d][p]
    BY <2>1, <2>5
  <2> QED BY <2>4, <2>6, <2>7
<1>6. ASSUME NEW d \in Data, NEW r \in Bufs(d) PROVE InOnePlace(d, r)'
  <2> HIDE DEF s
  <2>1. InOnePlace(d, r) /\ QueueTypes
    BY DEF Conserved, PipeTypes
  <2>2. CASE d # e \/ ~Releases(t)
    <3>1. /\ acquire_q'[d] = acquire_q[d]
          /\ d \in UserData => done_q'[d] = done_q[d] /\ held'[d] = held[d]
      BY <1>3, <1>4, <2>1, <2>2 DEF QueueTypes
    <3>2. \A p \in Pipes : /\ data_ref'[d][p].acquired <=> data_ref[d][p].acquired
                           /\ data_ref'[d][p].ref = data_ref[d][p].ref
      BY <1>2, <1>5, <2>2
    <3> QED BY <2>1, <3>1, <3>2, StaysPlaced
  <2>3. CASE d = e /\ Releases(t)
    <3>1. /\ Cardinality(Places(acquire_q[e], {r})) \in Nat
          /\ IsFiniteSet(Holders(e, r)) /\ Cardinality(Holders(e, r)) \in Nat
          /\ e \in UserData => /\ Cardinality(Places(done_q[e], {r})) \in Nat
                               /\ Cardinality(held[e] \cap {r}) \in Nat
      BY <2>1, <2>3, PlaceCounts
    <3>2. Cardinality(Holders(e, r)) = Cardinality(Holders(e, r)') + (IF s = r THEN 1 ELSE 0)
          /\ Cardinality(Holders(e, r)') \in Nat
      <4>1. CASE s = r
        <5>1. Holders(e, r)' = Holders(e, r) \ {x} /\ x \in Holders(e, r)
          BY <1>2, <1>5, <2>3, <4>1 DEF Holders, Pipes
        <5>2. Cardinality(Holders(e, r)') = Cardinality(Holders(e, r)) - 1
          BY <3>1, <5>1, FS_RemoveElement
        <5>3. IsFiniteSet(Holders(e, r)')
          BY <3>1, <5>1, FS_RemoveElement
        <5>4. Cardinality(Holders(e, r)') \in Nat
          BY <5>3, FS_CardinalityType
        <5> QED BY <3>1, <4>1, <5>2, <5>4
      <4>2. CASE s # r
        <5>1. Holders(e, r)' = Holders(e, r)
          BY <1>2, <1>5, <2>3, <4>2 DEF Holders, Pipes
        <5> QED BY <3>1, <4>2, <5>1
      <4> QED BY <4>1, <4>2
    <3>3. CASE e \in UserData
      <4>1. done_q[e] \in Seq(Bufs(e)) /\ acquire_q'[e] = acquire_q[e] /\ held'[e] = held[e]
            /\ done_q'[e] = Append(done_q[e], s)
        BY <1>3, <1>4, <2>1, <2>3, <3>3 DEF QueueTypes
      <4>2. Cardinality(Places(Append(done_q[e], s), {r}))
              = Cardinality(Places(done_q[e], {r})) + IF s \in {r} THEN 1 ELSE 0
        BY <1>2, <4>1, PlacesAppend
      <4>3. Cardinality(Places(done_q'[e], {r}))
              = Cardinality(Places(done_q[e], {r})) + IF s = r THEN 1 ELSE 0
        BY <4>1, <4>2
      <4>4. Cardinality(Places(acquire_q[e], {r})) + Cardinality(Holders(e, r))
              + (Cardinality(Places(done_q[e], {r})) + Cardinality(held[e] \cap {r})) = 1
        BY <2>1, <2>3, <3>3 DEF InOnePlace
      <4>5. Cardinality(Places(acquire_q[e], {r})) + Cardinality(Holders(e, r)')
              + (Cardinality(Places(done_q'[e], {r})) + Cardinality(held[e] \cap {r})) = 1
        BY <3>1, <3>2, <3>3, <4>3, <4>4
      <4>6. /\ Places(acquire_q[e], {r})' = Places(acquire_q[e], {r})
            /\ Places(done_q[e], {r})' = Places(done_q'[e], {r})
        BY <4>1 DEF Places
      <4> QED BY <2>3, <3>3, <4>1, <4>5, <4>6 DEF InOnePlace
    <3>4. CASE e \notin UserData
      <4>1. acquire_q[e] \in Seq(Bufs(e)) /\ acquire_q'[e] = Append(acquire_q[e], s)
        BY <1>3, <1>4, <2>1, <2>3, <3>4 DEF QueueTypes
      <4>2. Cardinality(Places(Append(acquire_q[e], s), {r}))
              = Cardinality(Places(acquire_q[e], {r})) + IF s \in {r} THEN 1 ELSE 0
        BY <1>2, <4>1, PlacesAppend
      <4>3. Cardinality(Places(acquire_q'[e], {r}))
              = Cardinality(Places(acquire_q[e], {r})) + IF s = r THEN 1 ELSE 0
        BY <4>1, <4>2
      <4> QED BY <2>1, <2>3, <3>1, <3>2, <3>4, <4>3 DEF InOnePlace, Places
    <3> QED BY <3>3, <3>4
  <2> QED BY <2>2, <2>3
<1> QED BY <1>6 DEF Conserved, Bufs

\* Every step of the graph.
LEMMA ConservedNext ==
  ASSUME WritersFirst, ParkingRoom, PipeTypes, Flow, Custody, ParkedAcquire, Conserved,
         [PipeNext]_all_vars
  PROVE  Conserved'
<1>1. ASSUME UNCHANGED <<acquire_q, data_ref, done_q, held>> PROVE Conserved'
  BY <1>1, StaysPlaced DEF Conserved, Bufs
<1>2. QueueTypes
  BY DEF PipeTypes
<1>3. ASSUME NEW a \in Apps, FeederNext(a) PROVE Conserved'
  <2>1. CASE FeedBegin(a) \/ FeedSchedule(a)
    <3>1. UNCHANGED <<acquire_q, data_ref, done_q, held>>
      BY <2>1 DEF FeedBegin, FeedSchedule, pipe_vars
    <3> QED BY <1>1, <3>1
  <2>2. CASE Feed(a)
    <3>1. /\ UNCHANGED <<done_q, data_ref>> /\ Param0 \in UserData
          /\ \E r \in held[Param0] : EnqueueReady(Param0, r, a)
      BY <2>2, GraphAssumption DEF Feed
    <3> QED BY <1>2, <3>1, EnqueueConserves
  <2> QED BY <1>3, <2>1, <2>2 DEF FeederNext
<1>4. ASSUME NEW d \in UserData, UserNext(d) PROVE Conserved'
  <2>1. CASE Replenish(d)
    <3>1. UNCHANGED <<done_q, data_ref>> /\ \E r \in held[d] : EnqueueReady(d, r, d)
      BY <2>1 DEF Replenish
    <3> QED BY <1>2, <3>1, EnqueueConserves
  <2>2. CASE DequeueDoneRef(d)
    <3>1. CASE done_q[d] # <<>>
      <4>1. /\ done_q' = [done_q EXCEPT ![d] = Tail(done_q[d])]
            /\ held' = [held EXCEPT ![d] = held[d] \cup {Head(done_q[d])}]
            /\ UNCHANGED <<acquire_q, data_ref>>
        BY <2>2, <3>1 DEF DequeueDoneRef
      <4> QED BY <1>2, <3>1, <4>1, DequeueConserves
    <3>2. CASE ~(done_q[d] # <<>>)
      <4>1. UNCHANGED <<acquire_q, data_ref, done_q, held>>
        BY <2>2, <3>2 DEF DequeueDoneRef
      <4> QED BY <1>1, <4>1
    <3> QED BY <3>1, <3>2
  <2>3. CASE DequeuerWoken(d)
    <3>1. UNCHANGED <<acquire_q, data_ref, done_q, held>>
      BY <2>3 DEF DequeuerWoken
    <3> QED BY <1>1, <3>1
  <2> QED BY <1>4, <2>1, <2>2, <2>3 DEF UserNext
<1>5. ASSUME NEW t \in Targets, TargetNext(t) PROVE Conserved'
  <2>1. CASE AcquireParameter(t)
    <3>1. CurrentData(t) \in Data /\ task[t].pipe \in Pipes
      BY <2>1, CurrentUser, TaskTypes DEF AcquireParameter
    <3>2. /\ \/ Joins(t, CurrentData(t), task[t].pipe)
             \/ Acquires(t, CurrentData(t), task[t].pipe)
             \/ GetsParked(t, CurrentData(t), task[t].pipe)
          /\ UNCHANGED <<done_q, held>>
      BY <2>1, AcquireCases
    <3> QED BY <3>1, <3>2, AcquireConserves
  <2>2. CASE ReleaseParameter(t)
    BY <2>2, ReleaseConserves
  <2>3. CASE \/ FetchNode(t) \/ ExecuteNode(t) \/ SendComplete(t) \/ TriggerNextNode(t)
             \/ TriggerNextPipe(t)
    <3>1. UNCHANGED <<acquire_q, data_ref, done_q, held>>
      BY <2>3 DEF FetchNode, ExecuteNode, SendComplete, TriggerNextNode, TriggerNextPipe
    <3> QED BY <1>1, <3>1
  <2> QED BY <1>5, <2>1, <2>2, <2>3 DEF TargetNext
<1>6. ASSUME NEW th \in Threads, SendNext(th) PROVE Conserved'
  <2>1. UNCHANGED <<acquire_q, data_ref, done_q, held>>
    BY <1>6 DEF SendNext
  <2> QED BY <1>1, <2>1
<1>7. ASSUME HostTaskNext PROVE Conserved'
  <2>1. UNCHANGED <<acquire_q, data_ref, done_q, held>>
    BY <1>7 DEF HostTaskNext, RefConsumed, HostCompletion, HostRestart, pipe_vars
  <2> QED BY <1>1, <2>1
<1>8. CASE UNCHANGED all_vars
  <2>1. UNCHANGED <<acquire_q, data_ref, done_q, held>>
    BY <1>8 DEF all_vars, pipe_vars
  <2> QED BY <1>1, <2>1
<1>9. CASE PipeNext
  BY <1>3, <1>4, <1>5, <1>6, <1>7, <1>9 DEF PipeNext
<1> QED BY <1>8, <1>9

\* At first the application holds the references of the graph parameters, and the
\* others are in their queues.
LEMMA ConservedInit == PipeInit => Conserved
<1> SUFFICES ASSUME PipeInit, NEW d \in Data, NEW r \in Bufs(d) PROVE InOnePlace(d, r)
  BY DEF Conserved
<1>1. /\ acquire_q[d] = IF d \in UserData THEN <<>> ELSE [i \in Bufs(d) |-> i]
      /\ d \in UserData => done_q[d] = <<>> /\ held[d] = Bufs(d)
      /\ \A p \in Pipes : ~data_ref[d][p].acquired
  BY DEF PipeInit
<1>2. Holders(d, r) = {} /\ Cardinality({}) = 0
  BY <1>1, FS_EmptySet DEF Holders
<1>3. Places(<<>>, {r}) = {}
  BY EmptySeq DEF Places
<1>4. CASE d \in UserData
  <2>1. Cardinality(held[d] \cap {r}) = 1
    BY <1>1, <1>4, HeldCount
  <2>2. /\ Cardinality(Places(acquire_q[d], {r})) = 0
        /\ Cardinality(Places(done_q[d], {r})) = 0 /\ Cardinality(Holders(d, r)) = 0
    BY <1>1, <1>2, <1>3, <1>4
  <2> QED BY <1>4, <2>1, <2>2 DEF InOnePlace
<1>5. CASE d \notin UserData
  <2>1. NumBufs[d] \in Nat
    BY PipelineAssumption
  <2>2. Len([i \in Bufs(d) |-> i]) = NumBufs[d]
    BY <2>1, LenProperties DEF Bufs
  <2>3. Places(acquire_q[d], {r}) = {r}
    BY <1>1, <1>5, <2>1, <2>2 DEF Places, Bufs
  <2>4. Cardinality({r}) = 1
    BY FS_Singleton
  <2> QED BY <1>2, <1>5, <2>3, <2>4 DEF InOnePlace
<1> QED BY <1>4, <1>5

\* The invariant says what the run checks.
LEMMA ConservedBuffers == PipeTypes /\ Custody /\ Conserved => BuffersConserved
<1> SUFFICES ASSUME PipeTypes, Custody, Conserved PROVE BuffersConserved
  OBVIOUS
<1>1. ASSUME NEW T, NEW q \in Seq(T), NEW r
      PROVE  {i \in DOMAIN q : q[i] = r} = Places(q, {r})
  BY <1>1, LenProperties DEF Places
<1>2. ASSUME NEW d \in Data, NEW r \in Bufs(d)
      PROVE  LET count(q) == Cardinality({i \in DOMAIN q : q[i] = r})
                 holders == {p \in Pipes : data_ref[d][p].acquired /\ data_ref[d][p].ref = r}
             IN  count(acquire_q[d]) + Cardinality(holders)
                   + (IF d \in UserData
                      THEN count(done_q[d]) + Cardinality(held[d] \cap {r}) ELSE 0) = 1
  <2>1. /\ acquire_q[d] \in Seq(Bufs(d))
        /\ d \in UserData => done_q[d] \in Seq(Bufs(d))
    BY DEF PipeTypes, QueueTypes
  <2>2. {i \in DOMAIN acquire_q[d] : acquire_q[d][i] = r} = Places(acquire_q[d], {r})
    BY <1>1, <2>1
  <2>3. d \in UserData =>
          {i \in DOMAIN done_q[d] : done_q[d][i] = r} = Places(done_q[d], {r})
    BY <1>1, <2>1
  <2> QED BY <2>2, <2>3 DEF Conserved, InOnePlace, Holders
<1>3. ASSUME NEW t \in Targets, task[t].pc = "execute", NEW i \in DOMAIN task[t].refs
      PROVE  LET in_use == data_ref[Params[task[t].node][i]][task[t].pipe]
             IN  in_use.acquired /\ in_use.ref = task[t].refs[i]
  <2>1. task[t].refs \in Seq(Nat)
    BY TaskTypes DEF Tasks
  <2>2. i \in 1 .. Len(task[t].refs)
    BY <1>3, <2>1, LenProperties
  <2> QED BY <1>3, <2>2 DEF Custody, TaskHolds
<1> QED BY <1>2, <1>3 DEF BuffersConserved

\* If every node has its input nodes on one target, follows the node that writes what
\* it reads, and names no data object twice, then no reference of the pipeline is lost or
\* acquired twice, however the targets, the application and the host interleave, and
\* what a kernel is called with is still acquired by its instance, as long as no node has
\* to be parked on a full list (ownTargetNodeDescAcquireParameter and
\* ownTargetNodeDescReleaseParameter, vx_target_acquire_parameters.c).
THEOREM ReferencesConserved ==
  ASSUME InputsOnOneTarget, ParametersOnce, WritersFirst
  PROVE  PipeSpec /\ []ParkingRoom => []BuffersConserved
<1>1. PipeInit => Custody /\ ParkedAcquire /\ Conserved
  BY CustodyInit, ConservedInit
<1>2. /\ PipeTypes /\ OwnTargets /\ Flow /\ LeafFlow /\ ParkingRoom
      /\ Custody /\ ParkedAcquire /\ Conserved /\ [PipeNext]_all_vars
      => Custody' /\ ParkedAcquire' /\ Conserved'
  BY CustodyNext, ConservedNext
<1> QED BY <1>1, <1>2, ConservedBuffers, FlowInvariance, PipeTypesInvariance, OwnInvariance,
           PTL DEF PipeSpec

\* A list that has room for every instance of the nodes that may be the first to acquire a
\* reference is never full when a node comes to be parked.
LEMMA RoomInvariance ==
  ASSUME InputsOnOneTarget, ParametersOnce, WritersFirst, ParkedListsFit
  PROVE  PipeSpec => []ParkingRoom
<1>1. PipeTypes /\ Flow /\ Custody /\ ParkedAcquire => ParkingRoom
  BY RoomToPark DEF ParkingRoom
<1>2. PipeInit => Custody /\ ParkedAcquire
  BY CustodyInit
<1>3. /\ PipeTypes /\ OwnTargets /\ Flow /\ LeafFlow
      /\ Custody /\ ParkedAcquire /\ [PipeNext]_all_vars
      => Custody' /\ ParkedAcquire'
  BY <1>1, CustodyNext
<1> QED BY <1>1, <1>2, <1>3, FlowInvariance, PipeTypesInvariance, OwnInvariance, PTL DEF PipeSpec

\* With such lists nothing has to be supposed of a behaviour
\* (ownObjDescQueueAddBlockedNode, vx_obj_desc_queue.c).
THEOREM ReferencesConservedWithRoom ==
  ASSUME InputsOnOneTarget, ParametersOnce, WritersFirst, ParkedListsFit
  PROVE  PipeSpec => []BuffersConserved
BY RoomInvariance, ReferencesConserved, PTL

-----------------------------------------------------------------------------
\* The completion commands of the host's queue: what putting and taking does to them.

\* The n-th element of a set of places.
Rank(S, i) == Cardinality({j \in S : j <= i})

LEMMA NthFacts ==
  ASSUME NEW k \in Nat, NEW S \in SUBSET (1 .. k)
  PROVE  /\ IsFiniteSet(S) /\ Cardinality(S) \in Nat
         /\ \A n \in 1 .. Cardinality(S) : Nth(S, n) \in S /\ Rank(S, Nth(S, n)) = n
         /\ \A i \in S : Rank(S, i) \in 1 .. Cardinality(S) /\ Nth(S, Rank(S, i)) = i
<1> DEFINE T == 1 .. Cardinality(S)
           f == [i \in S |-> Rank(S, i)]
<1>1. IsFiniteSet(S) /\ Cardinality(S) \in Nat /\ \A i \in S : i \in Nat
  <2>1. IsFiniteSet(1 .. k)
    BY FS_Interval
  <2>2. IsFiniteSet(S)
    BY <2>1, FS_Subset
  <2> QED BY <2>2, FS_CardinalityType
<1>2. ASSUME NEW i \in S
      PROVE  IsFiniteSet({j \in S : j <= i}) /\ Rank(S, i) \in T /\ Rank(S, i) \in Nat
  <2> DEFINE L == {j \in S : j <= i}
  <2>1. /\ IsFiniteSet(L) /\ Cardinality(L) \in Nat /\ Cardinality(L) <= Cardinality(S)
        /\ IsFiniteSet({i}) /\ Cardinality({i}) = 1
    BY <1>1, FS_Subset, FS_CardinalityType, FS_Singleton
  <2>2. {i} \subseteq L
    OBVIOUS
  <2>3. 1 <= Cardinality(L)
    <3> HIDE DEF L
    <3> QED BY <2>1, <2>2, FS_Subset
  <2> QED BY <1>1, <2>1, <2>3 DEF Rank
<1>3. ASSUME NEW i \in S, NEW j \in S, i < j PROVE Rank(S, i) < Rank(S, j)
  <2> DEFINE L == {l \in S : l <= i}
             M == {l \in S : l <= j}
  <2>1. IsFiniteSet(L) /\ IsFiniteSet(M) /\ Rank(S, i) \in Nat /\ Rank(S, j) \in Nat
    BY <1>2
  <2>2. L \cup {j} \subseteq M /\ j \notin L
    <3>1. i \in Nat /\ j \in Nat
      BY <1>1
    <3>2. \A l \in S : l <= i => l <= j
      BY <1>1, <1>3, <3>1
    <3>3. j <= j /\ ~(j <= i)
      BY <1>3, <3>1
    <3> QED BY <3>2, <3>3
  <2>3. Cardinality(L) = Rank(S, i) /\ Cardinality(M) = Rank(S, j)
    BY DEF Rank
  <2> HIDE DEF L, M
  <2>4. Cardinality(L \cup {j}) = Cardinality(L) + 1 /\ Cardinality(L \cup {j}) <= Cardinality(M)
    BY <2>1, <2>2, FS_AddElement, FS_Subset
  <2> QED BY <2>1, <2>3, <2>4
<1>4. ASSUME NEW i \in S, NEW j \in S, Rank(S, i) = Rank(S, j) PROVE i = j
  <2>1. Rank(S, i) \in Nat /\ Rank(S, j) \in Nat
    BY <1>2
  <2>2. ~(i < j) /\ ~(j < i)
    BY <1>3, <1>4, <2>1
  <2> QED BY <1>1, <2>2
<1>5. IsFiniteSet(T) /\ Cardinality(T) = Cardinality(S)
  BY <1>1, FS_Interval
<1> HIDE DEF T
<1>6. f \in Injection(S, T)
  <2>1. f \in [S -> T] /\ \A i, j \in S : f[i] = f[j] => i = j
    BY <1>2, <1>4
  <2> QED BY <2>1 DEF Injection, IsInjective
<1> HIDE DEF f
<1>7. f \in Surjection(S, T)
  BY <1>1, <1>5, <1>6, FS_Injection
<1>8. ASSUME NEW n \in T PROVE Nth(S, n) \in S /\ Rank(S, Nth(S, n)) = n
  <2>1. PICK i \in S : f[i] = n
    BY <1>7 DEF Surjection
  <2>2. Rank(S, i) = n
    BY <2>1 DEF f
  <2> QED BY <2>2 DEF Nth, Rank
<1>9. ASSUME NEW i \in S PROVE Nth(S, Rank(S, i)) = i
  <2>1. Rank(S, i) \in T
    BY <1>2
  <2> QED BY <1>4, <1>8, <2>1
<1> QED BY <1>1, <1>2, <1>8, <1>9 DEF T

-----------------------------------------------------------------------------
\* The completion commands of a queue.
CompletionsIn(q) == {i \in DOMAIN q : q[i][1] # "ref_consumed"}
Picked(q) == [n \in 1 .. Cardinality(CompletionsIn(q)) |-> q[Nth(CompletionsIn(q), n)]]

LEMMA CompletionsPicked == Completions = Picked(host_q)
  BY DEF Completions, CompletionsAt, Picked, CompletionsIn

LEMMA PickedFacts ==
  ASSUME NEW T, NEW q \in Seq(T)
  PROVE  /\ CompletionsIn(q) \in SUBSET (1 .. Len(q)) /\ Len(q) \in Nat
         /\ Cardinality(CompletionsIn(q)) \in Nat
         /\ Picked(q) \in Seq(T) /\ Len(Picked(q)) = Cardinality(CompletionsIn(q))
<1> DEFINE S == CompletionsIn(q)
<1>1. S \in SUBSET (1 .. Len(q)) /\ Len(q) \in Nat
  BY LenProperties DEF CompletionsIn
<1> HIDE DEF S
<1>2. Cardinality(S) \in Nat /\ \A n \in 1 .. Cardinality(S) : Nth(S, n) \in S
  BY <1>1, NthFacts
<1>3. \A n \in 1 .. Cardinality(S) : q[Nth(S, n)] \in T
  BY <1>1, <1>2, ElementOfSeq
<1>4. Picked(q) = [n \in 1 .. Cardinality(S) |-> q[Nth(S, n)]]
  BY DEF Picked, S
<1>5. Picked(q) \in Seq(T) /\ Len(Picked(q)) = Cardinality(S)
  BY <1>2, <1>3, <1>4, LenProperties
<1> QED BY <1>1, <1>2, <1>5 DEF S

LEMMA PickedAppend ==
  ASSUME NEW T, NEW q \in Seq(T), NEW e \in T
  PROVE  Picked(Append(q, e)) = IF e[1] = "ref_consumed" THEN Picked(q)
                                ELSE Append(Picked(q), e)
<1> DEFINE r == Append(q, e)
           S == CompletionsIn(q)
           R == CompletionsIn(r)
           k == Len(q)
<1>1. /\ r \in Seq(T) /\ Len(r) = k + 1 /\ k \in Nat
      /\ \A i \in 1 .. k : r[i] = q[i]
      /\ r[k + 1] = e /\ DOMAIN r = 1 .. k + 1 /\ DOMAIN q = 1 .. k
  BY AppendIsIn, LenProperties
<1> HIDE DEF r
<1>2. /\ S \in SUBSET (1 .. k) /\ R \in SUBSET (1 .. k + 1)
      /\ Cardinality(S) \in Nat /\ Cardinality(R) \in Nat /\ IsFiniteSet(S)
      /\ Picked(q) \in Seq(T) /\ Len(Picked(q)) = Cardinality(S)
      /\ Picked(r) \in Seq(T) /\ Len(Picked(r)) = Cardinality(R)
  BY <1>1, PickedFacts, NthFacts
<1>3. /\ \A n \in 1 .. Cardinality(S) : Picked(q)[n] = q[Nth(S, n)]
      /\ \A n \in 1 .. Cardinality(R) : Picked(r)[n] = r[Nth(R, n)]
  BY DEF Picked
<1>4. /\ \A n \in 1 .. Cardinality(S) : Nth(S, n) \in S /\ Rank(S, Nth(S, n)) = n
      /\ \A i \in S : Rank(S, i) \in 1 .. Cardinality(S) /\ Nth(S, Rank(S, i)) = i
  BY <1>2, <1>1, NthFacts
<1>5. \A i \in R : Nth(R, Rank(R, i)) = i
  <2>1. k + 1 \in Nat
    BY <1>1
  <2> QED BY <1>2, <2>1, NthFacts
<1>6. CASE e[1] = "ref_consumed"
  <2>1. R = S
    BY <1>1, <1>6 DEF CompletionsIn
  <2>2. \A n \in 1 .. Cardinality(S) : Picked(r)[n] = Picked(q)[n]
    BY <1>1, <1>2, <1>3, <1>4, <2>1
  <2>3. Picked(r) = Picked(q)
    BY <1>2, <2>1, <2>2, SeqEqual
  <2> QED BY <1>6, <2>3 DEF r
<1>7. CASE e[1] # "ref_consumed"
  <2>1. R = S \cup {k + 1} /\ k + 1 \notin S
    BY <1>1, <1>7 DEF CompletionsIn
  <2>2. Cardinality(R) = Cardinality(S) + 1
    BY <1>2, <2>1, FS_AddElement
  <2>3. ASSUME NEW n \in 1 .. Cardinality(S) PROVE Picked(r)[n] = Picked(q)[n]
    <3>1. PICK i \in S : i = Nth(S, n)
      BY <1>4
    <3>2. Rank(S, i) = n
      BY <1>4, <3>1
    <3>3. {j \in R : j <= i} = {j \in S : j <= i}
      BY <1>1, <1>2, <2>1
    <3>4. Rank(R, i) = n /\ i \in R
      BY <2>1, <3>2, <3>3 DEF Rank
    <3>5. Nth(R, n) = i
      BY <1>5, <3>4
    <3> QED BY <1>1, <1>2, <1>3, <2>2, <3>1, <3>5
  <2>4. Picked(r)[Cardinality(S) + 1] = e
    <3>1. {j \in R : j <= k + 1} = R /\ k + 1 \in R
      BY <1>1, <1>2, <2>1
    <3>2. Rank(R, k + 1) = Cardinality(S) + 1
      BY <2>2, <3>1 DEF Rank
    <3>3. Nth(R, Cardinality(S) + 1) = k + 1
      BY <1>5, <3>1, <3>2
    <3> QED BY <1>1, <1>2, <1>3, <2>2, <3>3
  <2>5. /\ Append(Picked(q), e) \in Seq(T) /\ Len(Append(Picked(q), e)) = Cardinality(S) + 1
        /\ \A n \in 1 .. Cardinality(S) : Append(Picked(q), e)[n] = Picked(q)[n]
        /\ Append(Picked(q), e)[Cardinality(S) + 1] = e
    BY <1>2, AppendIsIn
  <2> DEFINE a == Append(Picked(q), e)
  <2> HIDE DEF a
  <2>6. \A n \in 1 .. Cardinality(S) + 1 : Picked(r)[n] = a[n]
    BY <1>2, <2>3, <2>4, <2>5 DEF a
  <2>7. Picked(r) = a
    BY <1>2, <2>2, <2>5, <2>6, SeqEqual DEF a
  <2> QED BY <1>7, <2>7 DEF r, a
<1> QED BY <1>6, <1>7

\* A set of places moved on by one.
Shifted(R) == {i + 1 : i \in R}

LEMMA ShiftedCardinality ==
  ASSUME NEW k \in Nat, NEW R \in SUBSET (1 .. k)
  PROVE  IsFiniteSet(Shifted(R)) /\ Cardinality(Shifted(R)) = Cardinality(R)
         /\ IsFiniteSet(R) /\ Cardinality(R) \in Nat
<1> DEFINE f == [i \in R |-> i + 1]
<1>1. IsFiniteSet(R) /\ Cardinality(R) \in Nat
  BY NthFacts
<1>2. f \in Bijection(R, Shifted(R))
  <2>1. f \in [R -> Shifted(R)] /\ \A i, j \in R : f[i] = f[j] => i = j
    BY DEF Shifted
  <2>2. \A l \in Shifted(R) : \E i \in R : f[i] = l
    BY DEF Shifted
  <2> QED BY <2>1, <2>2 DEF Bijection, Injection, Surjection, IsInjective
<1> QED BY <1>1, <1>2, FS_Bijection DEF ExistsBijection

LEMMA PickedTail ==
  ASSUME NEW T, NEW q \in Seq(T), q # <<>>
  PROVE  IF Head(q)[1] = "ref_consumed" THEN Picked(Tail(q)) = Picked(q)
         ELSE /\ Picked(q) # <<>> /\ Head(Picked(q)) = Head(q)
              /\ Tail(Picked(q)) = Picked(Tail(q))
<1> DEFINE r == Tail(q)
           S == CompletionsIn(q)
           R == CompletionsIn(r)
           k == Len(q)
<1>1. /\ r \in Seq(T) /\ Len(r) = k - 1 /\ k \in Nat \ {0} /\ Head(q) = q[1]
      /\ \A i \in 1 .. k - 1 : r[i] = q[i + 1]
      /\ DOMAIN r = 1 .. k - 1 /\ DOMAIN q = 1 .. k
  BY EmptySeq, HeadTailProperties, LenProperties
<1> HIDE DEF r
<1>2. /\ S \in SUBSET (1 .. k) /\ R \in SUBSET (1 .. k - 1) /\ k - 1 \in Nat
      /\ Cardinality(S) \in Nat /\ Cardinality(R) \in Nat
      /\ Picked(q) \in Seq(T) /\ Len(Picked(q)) = Cardinality(S)
      /\ Picked(r) \in Seq(T) /\ Len(Picked(r)) = Cardinality(R)
  BY <1>1, PickedFacts
<1>3. /\ \A n \in 1 .. Cardinality(S) : Picked(q)[n] = q[Nth(S, n)]
      /\ \A n \in 1 .. Cardinality(R) : Picked(r)[n] = r[Nth(R, n)]
  BY DEF Picked
<1>4. \A i \in 1 .. k - 1 : i \in R <=> i + 1 \in S
  BY <1>1 DEF CompletionsIn
<1>5. 1 \in S <=> Head(q)[1] # "ref_consumed"
  BY <1>1 DEF CompletionsIn
<1>6. \A j \in S : j # 1 => j - 1 \in 1 .. k - 1 /\ (j - 1) + 1 = j
  BY <1>1, <1>2
<1>7. S \ {1} = Shifted(R)
  BY <1>1, <1>2, <1>4, <1>6 DEF Shifted
<1>8. ASSUME NEW i \in R
      PROVE  {j \in S : j <= i + 1} \ {1} = Shifted({j \in R : j <= i})
  <2>1. \A j \in S : j # 1 /\ j <= i + 1 => j - 1 \in R /\ j - 1 <= i /\ (j - 1) + 1 = j
    BY <1>1, <1>2, <1>4, <1>6
  <2>2. \A j \in R : j <= i => j + 1 \in S /\ j + 1 # 1 /\ j + 1 <= i + 1
    BY <1>1, <1>2, <1>4
  <2> QED BY <2>1, <2>2 DEF Shifted
<1>9. /\ IsFiniteSet(S) /\ IsFiniteSet(R) /\ IsFiniteSet(Shifted(R))
      /\ Cardinality(Shifted(R)) = Cardinality(R)
  <2>1. IsFiniteSet(S)
    BY <1>1, <1>2, NthFacts
  <2> QED BY <1>2, <2>1, ShiftedCardinality
<1> HIDE DEF S, R
<1>10. \A n \in 1 .. Cardinality(R) : Nth(R, n) \in R /\ Rank(R, Nth(R, n)) = n
  BY <1>2, NthFacts
<1>11. \A i \in S : Nth(S, Rank(S, i)) = i
  BY <1>1, <1>2, NthFacts
<1>12. ASSUME NEW i \in R
       PROVE  /\ i + 1 \in S
              /\ Rank(S, i + 1) = Rank(R, i) + IF 1 \in S THEN 1 ELSE 0
  <2> DEFINE L == {j \in S : j <= i + 1}
             M == {j \in R : j <= i}
  <2>1. M \in SUBSET (1 .. k - 1) /\ L \in SUBSET S /\ L \ {1} = Shifted(M)
    BY <1>2, <1>8
  <2>2. Rank(S, i + 1) = Cardinality(L) /\ Rank(R, i) = Cardinality(M)
    BY DEF Rank
  <2>3. 1 \in L <=> 1 \in S
    BY <1>2
  <2>4. i + 1 \in S
    BY <1>2, <1>4
  <2> HIDE DEF L, M
  <2>5. /\ IsFiniteSet(L) /\ Cardinality(L) \in Nat /\ Cardinality(M) \in Nat
        /\ Cardinality(Shifted(M)) = Cardinality(M)
    <3>1. IsFiniteSet(L)
      BY <1>9, <2>1, FS_Subset
    <3> QED BY <1>2, <2>1, <3>1, ShiftedCardinality, FS_CardinalityType
  <2>6. Cardinality(L \ {1}) = IF 1 \in L THEN Cardinality(L) - 1 ELSE Cardinality(L)
    BY <2>5, FS_RemoveElement
  <2>7. Cardinality(L \ {1}) = Cardinality(M)
    BY <2>1, <2>5, Zenon
  <2> QED BY <2>2, <2>3, <2>4, <2>5, <2>6, <2>7
<1>13. Cardinality(S) = Cardinality(R) + IF 1 \in S THEN 1 ELSE 0
  <2>1. Cardinality(S \ {1}) = IF 1 \in S THEN Cardinality(S) - 1 ELSE Cardinality(S)
    BY <1>9, FS_RemoveElement
  <2>2. Cardinality(S \ {1}) = Cardinality(R)
    BY <1>7, <1>9, Zenon
  <2> QED BY <1>2, <2>1, <2>2
<1>14. ASSUME NEW n \in 1 .. Cardinality(R)
       PROVE  Picked(q)[n + IF 1 \in S THEN 1 ELSE 0] = Picked(r)[n]
  <2>1. PICK i \in R : i = Nth(R, n) /\ Rank(R, i) = n
    BY <1>10
  <2> DEFINE m == n + IF 1 \in S THEN 1 ELSE 0
  <2>2. i + 1 \in S /\ Rank(S, i + 1) = m
    BY <1>12, <2>1
  <2>3. m \in 1 .. Cardinality(S)
    BY <1>2, <1>13
  <2> HIDE DEF m
  <2>4. Nth(S, m) = i + 1
    BY <1>11, <2>2
  <2>5. Picked(q)[m] = q[i + 1] /\ Picked(r)[n] = r[i]
    BY <1>3, <2>1, <2>3, <2>4
  <2>6. q[i + 1] = r[i]
    BY <1>1, <1>2
  <2> QED BY <2>5, <2>6 DEF m
<1>15. CASE Head(q)[1] = "ref_consumed"
  <2>1. Cardinality(S) = Cardinality(R) /\ \A n \in 1 .. Cardinality(R) : Picked(q)[n] = Picked(r)[n]
    BY <1>2, <1>5, <1>13, <1>14, <1>15
  <2>2. Picked(r) = Picked(q)
    BY <1>2, <2>1, SeqEqual
  <2> QED BY <1>15, <2>2 DEF r
<1>16. CASE Head(q)[1] # "ref_consumed"
  <2>1. /\ 1 \in S /\ Cardinality(S) = Cardinality(R) + 1
        /\ \A n \in 1 .. Cardinality(R) : Picked(q)[n + 1] = Picked(r)[n]
    BY <1>2, <1>5, <1>13, <1>14, <1>16
  <2>2. Picked(q)[1] = q[1]
    <3>0. \A j \in S : j \in Nat /\ 1 <= j
      BY <1>1, <1>2
    <3>1. {j \in S : j <= 1} = {1}
      BY <2>1, <3>0
    <3>2. Rank(S, 1) = 1
      BY <3>1, FS_Singleton DEF Rank
    <3>3. Nth(S, 1) = 1
      BY <1>11, <2>1, <3>2
    <3> QED BY <1>2, <1>3, <2>1, <3>3
  <2>3. Picked(q) # <<>>
    BY <1>2, <2>1, EmptySeq
  <2>4. /\ Head(Picked(q)) = Picked(q)[1] /\ Tail(Picked(q)) \in Seq(T)
        /\ Len(Tail(Picked(q))) = Cardinality(R)
        /\ \A n \in 1 .. Cardinality(R) : Tail(Picked(q))[n] = Picked(q)[n + 1]
    BY <1>2, <2>1, <2>3, HeadTailProperties
  <2>5. Tail(Picked(q)) = Picked(r)
    BY <1>2, <2>1, <2>4, SeqEqual
  <2> QED BY <1>1, <1>16, <2>2, <2>3, <2>4, <2>5 DEF r
<1> QED BY <1>15, <1>16

-----------------------------------------------------------------------------
\* What the scheduler sees of the targets.

ReadySeen == Len(acquire_q[Param0]) + Cardinality(ParamHeld)

\* The task of target t has run its node and is to report it with a command.
ToComplete(t) == task[t].pc \in {"release", "complete"} /\ HasCompletion(task[t].node)
PairOf(t) == <<task[t].node, task[t].pipe>>

\* The references that can be acquired are what the scheduler counts, and a task that is
\* about to send a command has one to send.
ReadyCounted == ready = Len(acquire_q[Param0]) /\ requested \in Nat
CommandsDue ==
    \A t \in Targets : task[t].pc = "complete" =>
      HasCompletion(task[t].node) /\ task[t].node \in executed[task[t].pipe]
Counted == ReadyCounted /\ CommandsDue

\* The scheduler's own variables, which the pipeline has as they are.
own_vars == <<free_q, desc_state, complete_leaf_nodes, graph_state, submitted_count,
              schedule_pending_count, completed_event, host, app, requested, done,
              abandon_seen, last_abandoned>>

LEMMA Unseen ==
  ASSUME UNCHANGED own_vars, UNCHANGED executed, Completing' = Completing,
         ReadySeen' = ReadySeen, Completions' = Completions
  PROVE  UNCHANGED Schedule!vars
BY DEF own_vars, ReadySeen, Schedule!vars, Schedule!sched_vars

LEMMA CompletingPairs == \A x : x \in Completing <=> \E t \in Targets : ToComplete(t) /\ x = PairOf(t)
BY DEF Completing, ToComplete, PairOf

LEMMA CompletingKept ==
  ASSUME NEW t \in Targets, \A u \in Targets \ {t} : task'[u] = task[u],
         \/ task'[t] = task[t]
         \/ ~ToComplete(t) /\ ~ToComplete(t)'
         \/ ToComplete(t) /\ ToComplete(t)' /\ PairOf(t)' = PairOf(t)
  PROVE  Completing' = Completing
<1>1. ASSUME NEW u \in Targets
      PROVE  /\ ToComplete(u)' <=> ToComplete(u)
             /\ ToComplete(u) => PairOf(u)' = PairOf(u)
  <2>1. CASE task'[u] = task[u]
    BY <2>1 DEF ToComplete, PairOf, HasCompletion
  <2>2. CASE u = t /\ task'[t] # task[t]
    BY <2>2
  <2> QED BY <2>1, <2>2
<1>2. \A x : x \in Completing' <=> \E u \in Targets : ToComplete(u)' /\ x = PairOf(u)'
  BY DEF Completing, ToComplete, PairOf
<1>3. \A x : x \in Completing' <=> x \in Completing
  BY <1>1, <1>2, CompletingPairs
<1> QED BY <1>3

LEMMA CompletingBegins ==
  ASSUME NEW t \in Targets, \A u \in Targets \ {t} : task'[u] = task[u],
         ~ToComplete(t), ToComplete(t)', PairOf(t)' = PairOf(t)
  PROVE  Completing' = Completing \cup {PairOf(t)}
<1>1. \A u \in Targets \ {t} : /\ ToComplete(u)' <=> ToComplete(u)
                               /\ PairOf(u)' = PairOf(u)
  BY DEF ToComplete, PairOf, HasCompletion
<1>2. \A x : x \in Completing' <=> \E u \in Targets : ToComplete(u)' /\ x = PairOf(u)'
  BY DEF Completing, ToComplete, PairOf
<1>3. \A x : x \in Completing' <=> x \in Completing \/ x = PairOf(t)
  BY <1>1, <1>2, CompletingPairs
<1> QED BY <1>3

LEMMA CompletingEnds ==
  ASSUME PipeTypes, OwnTargets, NEW t \in Targets, \A u \in Targets \ {t} : task'[u] = task[u],
         ToComplete(t), ~ToComplete(t)'
  PROVE  Completing' = Completing \ {PairOf(t)}
<1>1. ASSUME NEW u \in Targets \ {t}
      PROVE  /\ ToComplete(u)' <=> ToComplete(u)
             /\ PairOf(u)' = PairOf(u)
             /\ ToComplete(u) => PairOf(u) # PairOf(t)
  <2>1. (ToComplete(u)' <=> ToComplete(u)) /\ PairOf(u)' = PairOf(u)
    BY DEF ToComplete, PairOf, HasCompletion
  <2>2. ASSUME ToComplete(u) PROVE task[u].node # task[t].node
    BY <2>2 DEF OwnTargets, OwnTask, ToComplete
  <2> QED BY <2>1, <2>2 DEF PairOf
<1>2. \A x : x \in Completing' <=> \E u \in Targets : ToComplete(u)' /\ x = PairOf(u)'
  BY DEF Completing, ToComplete, PairOf
<1>3. \A x : x \in Completing' <=> x \in Completing /\ x # PairOf(t)
  BY <1>1, <1>2, CompletingPairs
<1> QED BY <1>3

\* What is done with the reference of graph parameter 0 before ParamNode runs.
LEMMA ParamHeldFacts ==
  /\ IsFiniteSet(ParamHeld) /\ Cardinality(ParamHeld) \in Nat /\ Cardinality(ParamHeld) <= Depth
  /\ ParamHeld \subseteq Pipes /\ ParamNode \in Users(Param0) /\ Param0 \in Data /\ ParamNode \in Nodes
<1>1. IsFiniteSet(Pipes) /\ Cardinality(Pipes) = Depth
  BY DepthAssumption, FS_Interval DEF Pipes
<1>2. ParamHeld \subseteq Pipes
  BY DEF ParamHeld
<1>3. IsFiniteSet(ParamHeld) /\ Cardinality(ParamHeld) <= Depth
  <2> HIDE DEF ParamHeld
  <2> QED BY <1>1, <1>2, FS_Subset
<1>4. Cardinality(ParamHeld) \in Nat
  BY <1>3, FS_CardinalityType
<1>5. ParamNode \in Users(Param0) /\ Param0 \in Data /\ ParamNode \in Nodes
  BY GraphAssumption, NodesAssumption DEF Users
<1> QED BY <1>2, <1>3, <1>4, <1>5

\* Steps that take no reference of graph parameter 0 and run nothing.
LEMMA HeldKept ==
  ASSUME executed' = executed,
         \A p \in Pipes : data_ref'[Param0][p].acquired <=> data_ref[Param0][p].acquired
  PROVE  ParamHeld' = ParamHeld
<1>1. Pipes' = Pipes
  BY DEF Pipes
<1> QED BY <1>1 DEF ParamHeld

\* A node whose command is still to be sent has run, and no node that it feeds is about to.
LEMMA CompletingFacts ==
  ASSUME PipeTypes, Flow, LeafFlow, Custody, Counted, NEW n \in Nodes, NEW p \in Pipes,
         <<n, p>> \in Completing
  PROVE  /\ n \in executed[p] /\ p \in InFlight /\ HasCompletion(n)
         /\ \A m \in Nodes : n \in InNodes[m] => m \notin executed[p] /\ ~Pending(m, p)
<1>1. PICK t \in Targets : ToComplete(t) /\ <<n, p>> = PairOf(t)
  BY CompletingPairs
<1>2. task[t].pc \in {"release", "complete"} /\ task[t].node = n /\ task[t].pipe = p /\ HasCompletion(n)
  BY <1>1 DEF ToComplete, PairOf
<1>3. p \in InFlight
  BY <1>2, ReleasesInFlight
<1>4. n \in executed[p]
  BY <1>2 DEF Custody, HasRun, Counted, CommandsDue
<1>5. ASSUME NEW m \in Nodes, n \in InNodes[m] PROVE m \notin executed[p] /\ ~Pending(m, p)
  <2>1. OutNodes[n] \in Seq(Nodes) /\ m \in ToSet(OutNodes[n])
    BY <1>5, LinksAssumption
  <2>2. PICK j \in 1 .. Len(OutNodes[n]) : OutNodes[n][j] = m
    BY <2>1, LenProperties DEF ToSet
  <2>3. Will(t, m, p)
    BY <1>2, <2>2 DEF Will
  <2> QED BY <2>3 DEF Flow, WillSend
<1> QED BY <1>2, <1>3, <1>4, <1>5

\* A node runs, in the scheduler's terms.
LEMMA NodeSeen ==
  ASSUME NEW n \in Nodes, NEW p \in Pipes, UNCHANGED own_vars,
         p \in InFlight, n \notin executed[p], InNodes[n] \subseteq executed[p],
         \A m \in InNodes[n] : <<m, p>> \notin Completing,
         \A c \in Completing : TargetOf[c[1]] # TargetOf[n],
         executed' = [executed EXCEPT ![p] = executed[p] \cup {n}],
         Completing' = IF HasCompletion(n) THEN Completing \cup {<<n, p>>} ELSE Completing,
         n = ParamNode => ReadySeen > 0 /\ ReadySeen' = ReadySeen - 1,
         n # ParamNode => ReadySeen' = ReadySeen,
         Completions' = Completions
  PROVE  Schedule!NodeExecute(n, p)
<1>1. n \in Callbacks \cup Leaves <=> HasCompletion(n)
  BY LeafNames DEF HasCompletion
<1>2. Schedule!InFlight = InFlight /\ Schedule!Leaves = Leaves
  BY DEF Schedule!InFlight, Schedule!Free, Schedule!Pipes, Schedule!Leaves, InFlight, Free, Pipes, Leaves
<1>3. UNCHANGED <<free_q, desc_state, graph_state, submitted_count,
                  schedule_pending_count, completed_event, abandon_seen,
                  complete_leaf_nodes, host, app, requested, done, last_abandoned>>
  BY DEF own_vars
<1>4. Schedule!Triggered(n, p)
  BY DEF Schedule!Triggered
<1>5. Completing' = IF n \in Callbacks \cup Schedule!Leaves
                    THEN Completing \cup {<<n, p>>} ELSE Completing
  BY <1>1, <1>2
<1>6. IF n = ParamNode /\ Mode # "NORMAL"
      THEN ReadySeen > 0 /\ ReadySeen' = ReadySeen - 1
      ELSE ReadySeen' = ReadySeen
  BY GraphAssumption
<1> HIDE DEF Completing, Completions
<1> QED BY <1>2, <1>3, <1>4, <1>5, <1>6 DEF Schedule!NodeExecute, ReadySeen

\* A step of a task that moves no reference and runs nothing.
LEMMA QuietSeen ==
  ASSUME NEW t \in Targets, \A u \in Targets \ {t} : task'[u] = task[u],
         \/ task'[t] = task[t]
         \/ ~ToComplete(t) /\ ~ToComplete(t)'
         \/ ToComplete(t) /\ ToComplete(t)' /\ PairOf(t)' = PairOf(t),
         UNCHANGED own_vars, UNCHANGED <<executed, acquire_q, data_ref, host_q>>
  PROVE  UNCHANGED Schedule!vars
<1>1. Completing' = Completing
  BY CompletingKept
<1>2. ParamHeld' = ParamHeld
  BY HeldKept
<1>3. ReadySeen' = ReadySeen
  BY <1>2 DEF ReadySeen
<1>4. Completions' = Completions
  BY DEF Completions, CompletionsAt
<1> QED BY <1>1, <1>3, <1>4, Unseen

LEMMA AcquireSeen ==
  ASSUME WritersFirst, ParkingRoom, PipeTypes, Flow, LeafFlow, Custody, Counted,
         NEW t \in Targets, AcquireParameter(t)
  PROVE  UNCHANGED Schedule!vars
<1>1. PICK n \in Nodes, p \in Pipes, d \in Data :
         /\ n = task[t].node /\ p = task[t].pipe /\ d = CurrentData(t)
         /\ task[t].pc = "acquire"
  BY TaskTypes, AcquireCases
<1>2. /\ task \in [Targets -> Tasks] /\ task' = [task EXCEPT ![t] = task'[t]]
      /\ task'[t].pc \in {"idle", "acquire", "execute"}
  BY AcquireParameterEffect, TaskFacts DEF Proceeds, Parks
<1>3. /\ \A u \in Targets \ {t} : task'[u] = task[u]
      /\ ~ToComplete(t) /\ ~ToComplete(t)'
  BY <1>1, <1>2 DEF ToComplete
<1>4. UNCHANGED own_vars /\ UNCHANGED <<executed, host_q>>
  BY DEF AcquireParameter, own_vars, sched_vars
<1>5. CASE Joins(t, d, p) \/ GetsParked(t, d, p)
  <2>1. UNCHANGED <<acquire_q, data_ref>>
    BY <1>5 DEF Joins, GetsParked
  <2> QED BY <1>3, <1>4, <2>1, QuietSeen
<1>6. CASE Acquires(t, d, p)
  <2>1. Completing' = Completing
    BY <1>3, CompletingKept
  <2>2. Completions' = Completions
    BY <1>4 DEF Completions, CompletionsAt
  <2>3. /\ ~data_ref[d][p].acquired /\ acquire_q[d] # <<>>
        /\ acquire_q' = [acquire_q EXCEPT ![d] = Tail(acquire_q[d])]
        /\ data_ref' = [data_ref EXCEPT ![d][p] = Acquired(Head(acquire_q[d]))]
        /\ acquire_q \in [Data -> Seq(Nat)]
        /\ data_ref \in [Data -> [Pipes -> [acquired : BOOLEAN, ref : Nat,
                                             in_node_done_cnt : Nat]]]
    BY <1>6 DEF Acquires, PipeTypes, QueueTypes, NodeTypes
  <2>4. CASE d # Param0
    <3>1. /\ acquire_q'[Param0] = acquire_q[Param0]
          /\ \A q \in Pipes : data_ref'[Param0][q] = data_ref[Param0][q]
      BY <2>3, <2>4, ParamHeldFacts
    <3>2. ParamHeld' = ParamHeld
      BY <1>4, <3>1, HeldKept
    <3>3. ReadySeen' = ReadySeen
      BY <3>1, <3>2 DEF ReadySeen
    <3> QED BY <1>4, <2>1, <2>2, <3>3, Unseen
  <2>5. CASE d = Param0
    <3>1. p \in InFlight /\ ParamNode \notin executed[p]
      BY <1>1, <2>3, <2>5, FirstToAcquire, ParamHeldFacts
    <3>2. /\ data_ref'[Param0][p].acquired
          /\ \A q \in Pipes \ {p} : data_ref'[Param0][q] = data_ref[Param0][q]
      BY <2>3, <2>5, ParamHeldFacts DEF Acquired
    <3>3. Pipes' = Pipes
      BY DEF Pipes
    <3>4. p \notin ParamHeld
      BY <2>3, <2>5 DEF ParamHeld
    <3>5. ParamHeld' = ParamHeld \cup {p}
      BY <1>4, <3>1, <3>2, <3>3 DEF ParamHeld
    <3>6. Cardinality(ParamHeld') = Cardinality(ParamHeld) + 1
      <4> HIDE DEF ParamHeld
      <4> QED BY <3>4, <3>5, ParamHeldFacts, FS_AddElement
    <3>7. /\ acquire_q'[Param0] = Tail(acquire_q[Param0])
          /\ Len(acquire_q[Param0]) \in Nat
          /\ Len(Tail(acquire_q[Param0])) = Len(acquire_q[Param0]) - 1
      BY <2>3, <2>5, LenProperties, HeadTailProperties
    <3>8. ReadySeen' = ReadySeen
      <4>1. ReadySeen' = Len(acquire_q'[Param0]) + Cardinality(ParamHeld')
        BY DEF ReadySeen
      <4> QED BY <3>6, <3>7, <4>1, ParamHeldFacts DEF ReadySeen
    <3> QED BY <1>4, <2>1, <2>2, <3>8, Unseen
  <2> QED BY <2>4, <2>5
<1> QED BY <1>1, <1>5, <1>6, AcquireCases

\* The node that a task runs has not run yet, none of its input nodes has a command that
\* is still to be sent, and neither has another node of the target.
LEMMA ExecuteSeen ==
  ASSUME PipeTypes, OwnTargets, Flow, LeafFlow, Custody, Counted, NEW t \in Targets,
         ExecuteNode(t)
  PROVE  \E n \in Nodes, p \in Pipes : Schedule!NodeExecute(n, p)
<1>1. PICK n \in Nodes, p \in Pipes : n = task[t].node /\ p = task[t].pipe
  BY TaskTypes
<1>2. /\ task[t].pc = "execute" /\ executed' = [executed EXCEPT ![p] = executed[p] \cup {n}]
      /\ UNCHANGED own_vars /\ UNCHANGED <<data_ref, acquire_q, host_q>>
  BY <1>1 DEF ExecuteNode, own_vars
<1>3. /\ task'[t].pc = "release" /\ task'[t].node = n /\ task'[t].pipe = p
      /\ \A u \in Targets \ {t} : task'[u] = task[u]
      /\ executed \in [Pipes -> SUBSET Nodes]
  <2>1. task \in [Targets -> Tasks] /\ task' = [task EXCEPT ![t] = task'[t]]
    BY TaskTypes, ExecuteNodeTask
  <2> QED BY <1>1, <2>1, ExecuteNodeTask DEF PipeTypes, SchedulerTypes
<1>4. ~ToComplete(t) /\ (ToComplete(t)' <=> HasCompletion(n)) /\ PairOf(t) = <<n, p>>
      /\ PairOf(t)' = PairOf(t)
  BY <1>1, <1>2, <1>3 DEF ToComplete, PairOf, HasCompletion
<1>5. /\ Pending(n, p) /\ p \in InFlight /\ n \notin executed[p]
      /\ InNodes[n] \subseteq executed[p]
  <2>1. Pending(n, p)
    BY <1>1, <1>2 DEF Pending, Runs
  <2> QED BY <2>1 DEF Flow, Ready
<1>6. \A m \in InNodes[n] : <<m, p>> \notin Completing
  BY <1>5, CompletingFacts, NodesAssumption
<1>7. ASSUME NEW c \in Completing PROVE TargetOf[c[1]] # TargetOf[n]
  <2>1. PICK u \in Targets : ToComplete(u) /\ c = PairOf(u)
    BY CompletingPairs
  <2>2. u # t /\ c[1] = task[u].node
    BY <1>4, <2>1 DEF PairOf
  <2>3. TargetOf[task[u].node] = u
    BY <2>1 DEF OwnTargets, OwnTask, ToComplete
  <2>4. TargetOf[n] = t
    BY <1>1, <1>2 DEF OwnTargets, OwnTask
  <2> QED BY <2>2, <2>3, <2>4
<1>8. data_ref[Param0][p].acquired \/ n # ParamNode
  <2> SUFFICES ASSUME n = ParamNode PROVE data_ref[Param0][p].acquired
    OBVIOUS
  <2>1. PICK i \in 1 .. Len(Params[n]) : Params[n][i] = Param0
    BY ParamHeldFacts, UserFacts
  <2>2. i \in 1 .. Len(task[t].refs)
    BY <1>1, <1>2, TaskTypes DEF TaskReferences
  <2> QED BY <1>1, <1>2, <2>1, <2>2 DEF Custody, TaskHolds
<1>9. Pipes' = Pipes /\ Completions' = Completions
  BY <1>2 DEF Pipes, Completions, CompletionsAt
<1>10. /\ executed'[p] = executed[p] \cup {n}
       /\ \A q \in Pipes \ {p} : executed'[q] = executed[q]
  BY <1>2, <1>3
<1>11. Completing' = IF HasCompletion(n) THEN Completing \cup {<<n, p>>} ELSE Completing
  <2>1. CASE HasCompletion(n)
    BY <1>3, <1>4, <2>1, CompletingBegins
  <2>2. CASE ~HasCompletion(n)
    BY <1>3, <1>4, <2>2, CompletingKept
  <2> QED BY <2>1, <2>2
<1>12. ASSUME n # ParamNode PROVE ReadySeen' = ReadySeen
  <2>1. ParamHeld' = ParamHeld
    BY <1>2, <1>9, <1>10, <1>12 DEF ParamHeld
  <2> QED BY <1>2, <2>1 DEF ReadySeen
<1>13. ASSUME n = ParamNode PROVE ReadySeen > 0 /\ ReadySeen' = ReadySeen - 1
  <2>1. ParamHeld' = ParamHeld \ {p} /\ p \in ParamHeld
    BY <1>2, <1>5, <1>8, <1>9, <1>10, <1>13 DEF ParamHeld
  <2>2. Cardinality(ParamHeld') = Cardinality(ParamHeld) - 1 /\ Cardinality(ParamHeld') \in Nat
    <3> HIDE DEF ParamHeld
    <3> QED BY <2>1, ParamHeldFacts, FS_RemoveElement, FS_CardinalityType
  <2>3. Len(acquire_q[Param0]) \in Nat
    BY ParamHeldFacts, LenProperties DEF PipeTypes, QueueTypes
  <2>4. ReadySeen' = Len(acquire_q[Param0]) + Cardinality(ParamHeld')
    BY <1>2 DEF ReadySeen
  <2> QED BY <2>2, <2>3, <2>4, ParamHeldFacts DEF ReadySeen
<1>14. Schedule!NodeExecute(n, p)
  BY <1>2, <1>5, <1>6, <1>7, <1>9, <1>11, <1>12, <1>13, NodeSeen
<1> QED BY <1>14

\* A reference of graph parameter 0 goes back only when ParamNode has run.
LEMMA ReleaseSeen ==
  ASSUME ParametersOnce, WritersFirst, PipeTypes, OwnTargets, Flow, LeafFlow, Custody,
         NEW t \in Targets, ReleaseParameter(t)
  PROVE  UNCHANGED Schedule!vars
<1>1. PICK n \in Nodes, p \in Pipes, d \in Data :
         /\ n = task[t].node /\ p = task[t].pipe /\ d = CurrentData(t)
         /\ task[t].pc = "release" /\ n \in Users(d)
  BY TaskTypes, ReleaseParameterEffect, CurrentUser
<1>2. /\ data_ref' = [data_ref EXCEPT ![d][p] =
             [acquired |-> data_ref[d][p].acquired /\ ~Releases(t),
              ref |-> IF Writer[d] # n \/ Releases(t) THEN data_ref[d][p].ref ELSE Ref(t),
              in_node_done_cnt |-> Count(t)]]
      /\ task' = [task EXCEPT ![t] = ReleasedTask(t)]
      /\ UNCHANGED vars
      /\ \/ UNCHANGED acquire_q
         \/ d \notin UserData /\ acquire_q' = [acquire_q EXCEPT ![d] = Append(acquire_q[d], Ref(t))]
  BY <1>1, ReleaseParameterEffect
<1>3. UNCHANGED own_vars /\ UNCHANGED <<executed, host_q>>
  BY <1>2 DEF vars, sched_vars, own_vars
<1>4. acquire_q'[Param0] = acquire_q[Param0]
  BY <1>2, ParamHeldFacts, GraphAssumption DEF PipeTypes, QueueTypes
<1>5. /\ \A u \in Targets \ {t} : task'[u] = task[u] /\ task'[t] = ReleasedTask(t)
      /\ task'[t].node = n /\ task'[t].pipe = p
      /\ task'[t].pc \in {"release", IF HasCompletion(n) THEN "complete" ELSE "trigger"}
  <2>1. task \in [Targets -> Tasks] /\ task[t] \in Tasks
    BY TaskTypes
  <2>2. /\ task'[t] = ReleasedTask(t) /\ \A u \in Targets \ {t} : task'[u] = task[u]
    BY <1>2, <2>1
  <2>3. ReleasedTask(t).pc \in {"release", IF HasCompletion(n) THEN "complete" ELSE "trigger"}
    BY <1>1, <2>1 DEF ReleasedTask, Tasks
  <2> QED BY <1>1, <2>2, <2>3, ReleasedTaskTypes
<1>6. Completing' = Completing
  <2>1. CASE HasCompletion(n)
    <3>1. ToComplete(t) /\ ToComplete(t)' /\ PairOf(t)' = PairOf(t)
      BY <1>1, <1>5, <2>1 DEF ToComplete, PairOf, HasCompletion
    <3> QED BY <1>5, <3>1, CompletingKept
  <2>2. CASE ~HasCompletion(n)
    <3>1. ~ToComplete(t) /\ ~ToComplete(t)'
      BY <1>1, <1>5, <2>2 DEF ToComplete, HasCompletion
    <3> QED BY <1>5, <3>1, CompletingKept
  <2> QED BY <2>1, <2>2
<1>7. data_ref \in [Data -> [Pipes -> [acquired : BOOLEAN, ref : Nat, in_node_done_cnt : Nat]]]
  BY DEF PipeTypes, NodeTypes
<1>8. Pipes' = Pipes /\ Completions' = Completions
  BY <1>3 DEF Pipes, Completions, CompletionsAt
<1>9. ParamHeld' = ParamHeld
  <2>1. CASE d # Param0 \/ ~Releases(t)
    <3>1. \A q \in Pipes : data_ref'[Param0][q].acquired <=> data_ref[Param0][q].acquired
      BY <1>2, <1>7, <2>1, ParamHeldFacts
    <3> QED BY <1>3, <3>1, HeldKept
  <2>2. CASE d = Param0 /\ Releases(t)
    <3>1. /\ ~data_ref'[Param0][p].acquired
          /\ \A q \in Pipes \ {p} : data_ref'[Param0][q] = data_ref[Param0][q]
      BY <1>2, <1>7, <2>2, ParamHeldFacts
    <3>2. n \in executed[p]
      BY <1>1 DEF Custody, HasRun
    <3>3. Custody'
      BY CustodyReleases
    <3>4. Users(d)' = Users(d)
      BY DEF Users
    <3>5. StillOut(d, p)'
      BY <1>8, <3>3 DEF Custody
    <3>6. Spent(d, p)'
      BY <1>1, <1>3, <2>2, <3>1, <3>2, <3>4, <3>5 DEF StillOut
    <3>7. ParamNode \in executed[p]
      BY <1>3, <2>2, <3>4, <3>6, ParamHeldFacts DEF Spent, GaveBack
    <3> QED BY <1>3, <1>8, <3>1, <3>7 DEF ParamHeld
  <2> QED BY <2>1, <2>2
<1>10. ReadySeen' = ReadySeen
  BY <1>4, <1>9 DEF ReadySeen
<1> QED BY <1>3, <1>6, <1>8, <1>10, Unseen

\* What is put into a queue with room, or with none.
LEMMA PickedPut ==
  ASSUME NEW T, NEW q \in Seq(T), NEW c \in T, Len(q) <= MaxJobs
  PROVE  /\ c[1] = "ref_consumed" => Picked(Put(q, <<c>>)) = Picked(q)
         /\ c[1] # "ref_consumed" /\ Len(q) < MaxJobs
            => Picked(Put(q, <<c>>)) = Append(Picked(q), c)
<1>1. /\ Len(q) < MaxJobs => Put(q, <<c>>) = Append(q, c)
      /\ Len(q) = MaxJobs => Put(q, <<c>>) = q
  BY PutOne
<1>2. Len(q) < MaxJobs \/ Len(q) = MaxJobs
  BY PipelineAssumption, LenProperties
<1> QED BY <1>1, <1>2, PickedAppend

\* The command of a node is queued.
LEMMA CompleteSeen ==
  ASSUME HostQueueHasRoom, PipeTypes, OwnTargets, Flow, LeafFlow, Custody, Counted,
         NEW t \in Targets, SendComplete(t)
  PROVE  \E n \in Nodes, p \in Pipes : Schedule!NodeComplete(n, p)
<1>1. PICK n \in Nodes, p \in Pipes : n = task[t].node /\ p = task[t].pipe
  BY TaskTypes
<1> DEFINE tk == [task[t] EXCEPT !.pc = "trigger"]
<1>2. /\ task[t].pc = "complete" /\ host_q' = Put(host_q, <<<<n, p>>>>)
      /\ task' = [task EXCEPT ![t] = Finished(tk)]
      /\ UNCHANGED own_vars /\ UNCHANGED <<executed, data_ref, acquire_q>>
  BY <1>1 DEF SendComplete, own_vars, sched_vars
<1>3. /\ \A u \in Targets \ {t} : task'[u] = task[u]
      /\ task'[t].pc \in {"idle", "trigger"}
  <2>1. task \in [Targets -> Tasks] /\ task[t] \in Tasks
    BY TaskTypes
  <2>2. tk.pc = "trigger"
    BY <2>1 DEF Tasks
  <2> HIDE DEF tk
  <2>3. Finished(tk) = tk \/ Finished(tk) = IdleTask
    BY DEF Finished
  <2> QED BY <1>2, <2>1, <2>2, <2>3, TaskFacts
<1>4. HasCompletion(n) /\ n \in executed[p]
  BY <1>1, <1>2 DEF Counted, CommandsDue
<1>5. ToComplete(t) /\ ~ToComplete(t)' /\ PairOf(t) = <<n, p>>
  BY <1>1, <1>2, <1>3, <1>4 DEF ToComplete, PairOf
<1>6. Completing' = Completing \ {<<n, p>>} /\ <<n, p>> \in Completing
  BY <1>3, <1>5, CompletingEnds, CompletingPairs
<1>7. ReadySeen' = ReadySeen
  <2>1. ParamHeld' = ParamHeld
    BY <1>2, HeldKept
  <2> QED BY <1>2, <2>1 DEF ReadySeen
<1>8. Completions' = Append(Completions, <<n, p>>)
  <2>1. host_q \in Seq(Commands) /\ <<n, p>> \in Commands /\ Len(host_q) < MaxJobs
        /\ Len(host_q) <= MaxJobs
    BY DEF PipeTypes, MessageTypes, Commands, HostQueueHasRoom
  <2>2. <<n, p>>[1] # "ref_consumed"
    BY PipelineAssumption
  <2>3. Picked(host_q') = Append(Picked(host_q), <<n, p>>)
    BY <1>2, <2>1, <2>2, PickedPut
  <2>4. Completions' = Picked(host_q')
    BY DEF Completions, CompletionsAt, Picked, CompletionsIn
  <2> QED BY <2>3, <2>4, CompletionsPicked
<1>9. UNCHANGED <<free_q, desc_state, graph_state, submitted_count,
                  schedule_pending_count, completed_event, abandon_seen,
                  complete_leaf_nodes, host, app, requested, done, last_abandoned>>
  BY <1>2 DEF own_vars
<1>10. Schedule!NodeComplete(n, p)
  <2> HIDE DEF Completing, Completions
  <2> QED BY <1>2, <1>6, <1>7, <1>8, <1>9 DEF Schedule!NodeComplete, ReadySeen
<1> QED BY <1>10

\* The steps of a task.
LEMMA TargetSeen ==
  ASSUME ParametersOnce, WritersFirst, ParkingRoom, HostQueueHasRoom, PipeTypes, OwnTargets,
         Flow, LeafFlow, Custody, Counted, NEW t \in Targets, TargetNext(t)
  PROVE  \/ UNCHANGED Schedule!vars
         \/ \E n \in Nodes, p \in Pipes :
              Schedule!NodeExecute(n, p) \/ Schedule!NodeComplete(n, p)
<1>1. task \in [Targets -> Tasks] /\ task[t] \in Tasks
  BY TaskTypes
<1>2. CASE FetchNode(t)
  <2>1. UNCHANGED own_vars /\ UNCHANGED <<executed, acquire_q, data_ref, host_q>>
        /\ task[t].pc = "idle"
    BY <1>2 DEF FetchNode, own_vars, vars, sched_vars
  <2>2. UNCHANGED task \/ \E n \in Nodes, p \in Pipes : task' = [task EXCEPT ![t] = TakenNode(n, p)]
    BY <1>2, FetchNodeEffect
  <2>3. /\ \A u \in Targets \ {t} : task'[u] = task[u]
        /\ task'[t] = task[t] \/ task'[t].pc = "acquire"
    BY <1>1, <2>2, TaskFacts
  <2>4. task'[t] = task[t] \/ (~ToComplete(t) /\ ~ToComplete(t)')
    BY <2>1, <2>3 DEF ToComplete
  <2> QED BY <2>1, <2>3, <2>4, QuietSeen
<1>3. CASE TriggerNextNode(t) \/ TriggerNextPipe(t)
  <2>1. UNCHANGED own_vars /\ UNCHANGED <<executed, acquire_q, data_ref, host_q>>
        /\ task[t].pc = "trigger"
    BY <1>3 DEF TriggerNextNode, TriggerNextPipe, own_vars, vars, sched_vars
  <2>2. /\ \A u \in Targets \ {t} : task'[u] = task[u]
        /\ task'[t].pc \in {"idle", "trigger"}
    <3>1. CASE TriggerNextNode(t)
      <4> DEFINE tk == [task[t] EXCEPT !.prm = task[t].prm + 1]
      <4>1. task' = [task EXCEPT ![t] = Finished(tk)]
        BY <3>1 DEF TriggerNextNode
      <4>2. tk.pc = "trigger"
        BY <1>1, <2>1 DEF Tasks
      <4> HIDE DEF tk
      <4>3. Finished(tk) = tk \/ Finished(tk) = IdleTask
        BY DEF Finished
      <4> QED BY <1>1, <4>1, <4>2, <4>3, TaskFacts
    <3>2. CASE TriggerNextPipe(t)
      <4>1. task' = [task EXCEPT ![t] = IdleTask]
        BY <3>2 DEF TriggerNextPipe
      <4> QED BY <1>1, <4>1, TaskFacts
    <3> QED BY <1>3, <3>1, <3>2
  <2>3. ~ToComplete(t) /\ ~ToComplete(t)'
    BY <2>1, <2>2 DEF ToComplete
  <2> QED BY <2>1, <2>2, <2>3, QuietSeen
<1> QED BY <1>2, <1>3, AcquireSeen, ExecuteSeen, ReleaseSeen, CompleteSeen DEF TargetNext

\* A step that leaves the tasks and the references alone.
LEMMA SeenKept ==
  ASSUME UNCHANGED <<executed, data_ref, task>>, acquire_q'[Param0] = acquire_q[Param0]
  PROVE  Completing' = Completing /\ ReadySeen' = ReadySeen
<1>1. Completing' = Completing
  BY DEF Completing, HasCompletion
<1>2. ParamHeld' = ParamHeld
  BY HeldKept
<1> QED BY <1>1, <1>2 DEF ReadySeen

LEMMA ElsewhereSeen ==
  ASSUME UNCHANGED own_vars, UNCHANGED <<executed, data_ref, task>>,
         acquire_q'[Param0] = acquire_q[Param0], Completions' = Completions
  PROVE  UNCHANGED Schedule!vars
BY SeenKept, Unseen

\* A descriptor is handed to its target.
LEMMA SendSeen ==
  ASSUME PipeTypes, NEW th \in Threads, SendNext(th)
  PROVE  UNCHANGED Schedule!vars
<1>1. UNCHANGED own_vars /\ UNCHANGED <<executed, data_ref, task, acquire_q>>
  BY DEF SendNext, own_vars, sched_vars
<1>2. PICK msg \in Messages : msg = Head(outbox[th])
  BY HeadTailProperties DEF SendNext, PipeTypes, MessageTypes
<1>3. IF msg.to = "host" THEN host_q' = Put(host_q, <<msg.item>>) ELSE UNCHANGED host_q
  BY <1>2 DEF SendNext
<1>4. Completions' = Completions
  <2>1. CASE msg.to = "host"
    <3>1. msg.item \in Consumptions
      BY <2>1, PipelineAssumption DEF Messages
    <3>2. msg.item[1] = "ref_consumed" /\ msg.item \in Commands
      BY <3>1 DEF Consumptions, Commands
    <3>3. host_q \in Seq(Commands) /\ Len(host_q) <= MaxJobs
      BY DEF PipeTypes, MessageTypes
    <3>4. Picked(host_q') = Picked(host_q)
      BY <1>3, <2>1, <3>2, <3>3, PickedPut
    <3>5. Completions' = Picked(host_q')
      BY DEF Completions, CompletionsAt, Picked, CompletionsIn
    <3> QED BY <3>4, <3>5, CompletionsPicked
  <2>2. CASE msg.to # "host"
    BY <1>3, <2>2 DEF Completions, CompletionsAt
  <2> QED BY <2>1, <2>2
<1> QED BY <1>1, <1>4, ElsewhereSeen

\* Executions are started: their instances hold nothing, and nothing of them is to be sent.
LEMMA StartedSeen ==
  ASSUME PipeTypes, Flow, LeafFlow, Custody, Counted, NEW num \in Nat,
         OwnGraphScheduleGraph(num), UNCHANGED <<data_ref, task, acquire_q>>
  PROVE  /\ Schedule!OwnGraphScheduleGraph(num)
         /\ ReadySeen' = ReadySeen /\ Completing' = Completing
<1> DEFINE started == {free_q[i] : i \in 1 .. NumStarted(num)}
<1>1. /\ \A p \in Pipes : StartedPipe(p, num) <=> p \in started
      /\ \A p \in Pipes : StartedPipe(p, num) => p \notin InFlight
      /\ executed' = [p \in Pipes |-> IF p \in started THEN {} ELSE executed[p]]
  <2>1. \A p \in Pipes : StartedPipe(p, num) => p \notin InFlight
    BY StartedFlight DEF PipeTypes, Flow
  <2> QED BY <2>1 DEF StartedPipe, OwnGraphScheduleGraph
<1>2. Completing' = Completing /\ Pipes' = Pipes
  BY DEF Completing, HasCompletion, Pipes
<1>3. ASSUME NEW p \in Pipes, p \in started
      PROVE  p \notin ParamHeld /\ ~data_ref[Param0][p].acquired
  <2>1. p \notin InFlight
    BY <1>1, <1>3
  <2>2. ~data_ref[Param0][p].acquired
    BY <2>1, ParamHeldFacts DEF Custody, InCustody
  <2> QED BY <2>2 DEF ParamHeld
<1> HIDE DEF started
<1>4. ParamHeld' = ParamHeld
  BY <1>1, <1>2, <1>3 DEF ParamHeld
<1>5. ReadySeen' = ReadySeen
  BY <1>4 DEF ReadySeen
<1>6. Schedule!NumStarted(num) = NumStarted(num) /\ Schedule!Pipes = Pipes
      /\ Schedule!NumLeftPending(num) = NumLeftPending(num)
      /\ Schedule!EventAfterSchedule(NumStarted(num)) = EventAfterSchedule(NumStarted(num))
  BY DEF Schedule!NumStarted, Schedule!Pipes, Schedule!NumLeftPending, Schedule!RemembersPending,
         Schedule!EventAfterSchedule, NumStarted, Pipes, NumLeftPending, RemembersPending,
         EventAfterSchedule
<1>7. Schedule!OwnGraphScheduleGraph(num)
  BY <1>6 DEF Schedule!OwnGraphScheduleGraph, OwnGraphScheduleGraph
<1> QED BY <1>2, <1>5, <1>7

\* The application's steps.
LEMMA FeederSeen ==
  ASSUME PipeTypes, Flow, LeafFlow, Custody, Counted, NEW a \in Apps, FeederNext(a)
  PROVE  Schedule!AppNext(a)
<1>1. /\ Len(acquire_q[Param0]) \in Nat /\ ready = Len(acquire_q[Param0])
      /\ acquire_q \in [Data -> Seq(Nat)] /\ Param0 \in Data /\ Param0 \in UserData
      /\ held[Param0] \subseteq Nat
  <2>1. acquire_q[Param0] \in Seq(Nat) /\ Param0 \in Data /\ Param0 \in UserData
    BY ParamHeldFacts, GraphAssumption DEF PipeTypes, QueueTypes
  <2> QED BY <2>1, LenProperties DEF PipeTypes, QueueTypes, Counted, ReadyCounted
<1>2. ASSUME UNCHANGED host_q PROVE Completions' = Completions
  BY <1>2 DEF Completions, CompletionsAt
<1>3. CASE FeedBegin(a)
  <2>1. /\ VxEnqueueReadyRef(a) /\ UNCHANGED <<executed, data_ref, task, host_q, acquire_q>>
    BY <1>3 DEF FeedBegin, VxEnqueueReadyRef, pipe_vars, sched_vars
  <2>2. Completing' = Completing /\ ReadySeen' = ReadySeen
    BY <2>1, SeenKept
  <2>3. requested < MaxRequests + Depth /\ ReadySeen < MaxRequests + Depth
    <3>1. requested < MaxRequests /\ ready < MaxRequests /\ requested \in Nat
      BY <2>1 DEF VxEnqueueReadyRef, WithinBound, Counted, ReadyCounted
    <3>2. ReadySeen = ready + Cardinality(ParamHeld)
      BY <1>1 DEF ReadySeen
    <3>3. Depth \in Nat /\ MaxRequests \in Nat /\ Cardinality(ParamHeld) \in Nat
          /\ Cardinality(ParamHeld) <= Depth
      BY DepthAssumption, BoundAssumption, ParamHeldFacts
    <3> QED BY <1>1, <3>1, <3>2, <3>3
  <2>4. Schedule!VxEnqueueReadyRef(a)
    BY <1>2, <2>1, <2>2, <2>3
       DEF Schedule!VxEnqueueReadyRef, Schedule!WithinBound, Schedule!InCall,
           Schedule!sched_vars, VxEnqueueReadyRef, InCall, sched_vars, ReadySeen
  <2> QED BY <2>4 DEF Schedule!AppNext
<1>4. CASE Feed(a)
  <2>1. /\ EnqueueRef(a) /\ UNCHANGED <<executed, data_ref, task, host_q>>
        /\ \E r \in held[Param0] : acquire_q' = [acquire_q EXCEPT ![Param0] = Append(acquire_q[Param0], r)]
    BY <1>4 DEF Feed, EnqueueRef, EnqueueReady, sched_vars
  <2>2. Completing' = Completing
    BY <2>1 DEF Completing, HasCompletion
  <2>3. ParamHeld' = ParamHeld
    BY <2>1, HeldKept
  <2>4. Len(acquire_q'[Param0]) = Len(acquire_q[Param0]) + 1
    <3>1. PICK r \in Nat : acquire_q' = [acquire_q EXCEPT ![Param0] = Append(acquire_q[Param0], r)]
      BY <1>1, <2>1
    <3> QED BY <1>1, <3>1, AppendIsIn
  <2>5. ReadySeen' = ReadySeen + 1
    BY <1>1, <2>3, <2>4, ParamHeldFacts DEF ReadySeen
  <2>6. Schedule!EnqueueRef(a)
    BY <1>2, <2>1, <2>2, <2>5
       DEF Schedule!EnqueueRef, Schedule!InCall, Schedule!IdleApp, Schedule!sched_vars,
           EnqueueRef, InCall, IdleApp, sched_vars, ReadySeen
  <2> QED BY <2>6 DEF Schedule!AppNext
<1>5. CASE FeedSchedule(a)
  <2>1. /\ app[a].n \in Nat /\ AppSchedule(a) /\ OwnGraphScheduleGraph(app[a].n)
        /\ UNCHANGED <<data_ref, task, acquire_q, host_q>>
    BY <1>5 DEF PipeTypes, SchedulerTypes, AppStates, FeedSchedule, AppSchedule
  <2>2. PICK num \in Nat : num = app[a].n
    BY <2>1
  <2>3. /\ Schedule!OwnGraphScheduleGraph(num)
        /\ ReadySeen' = ReadySeen /\ Completing' = Completing
    <3>1. OwnGraphScheduleGraph(num) /\ UNCHANGED <<data_ref, task, acquire_q>>
      BY <2>1, <2>2
    <3> QED BY <3>1, StartedSeen
  <2>4. Schedule!RemembersPending /\ RemembersPending
    BY GraphAssumption DEF Schedule!RemembersPending, RemembersPending
  <2>5. /\ requested' = requested + app[a].n /\ app[a].pc = "schedule"
        /\ app' = [app EXCEPT ![a] = IdleApp("SUCCESS")]
        /\ UNCHANGED <<complete_leaf_nodes, host, done, last_abandoned>>
    BY <2>1, <2>4 DEF AppSchedule
  <2>6. Schedule!OwnGraphScheduleGraph(app[a].n)
    BY <2>2, <2>3
       DEF Schedule!OwnGraphScheduleGraph, Schedule!NumStarted, Schedule!NumLeftPending,
           Schedule!EventAfterSchedule
  <2>7. Schedule!AppSchedule(a)
    BY <1>2, <2>1, <2>3, <2>4, <2>5, <2>6
       DEF Schedule!AppSchedule, Schedule!IdleApp, IdleApp, ReadySeen
  <2> QED BY <2>7 DEF Schedule!AppNext
<1> QED BY <1>3, <1>4, <1>5 DEF FeederNext

\* The other threads of the application.
LEMMA UserSeen ==
  ASSUME PipeTypes, NEW d \in UserData, UserNext(d)
  PROVE  UNCHANGED Schedule!vars
<1>1. UNCHANGED own_vars /\ UNCHANGED <<executed, data_ref, task, host_q>>
  BY DEF UserNext, Replenish, DequeueDoneRef, DequeuerWoken, own_vars, vars, sched_vars
<1>2. acquire_q'[Param0] = acquire_q[Param0]
  <2>1. CASE Replenish(d)
    <3>1. d # Param0 /\ \E r \in held[d] : acquire_q' = [acquire_q EXCEPT ![d] = Append(acquire_q[d], r)]
      BY <2>1, GraphAssumption DEF Replenish, Outputs, EnqueueReady
    <3> QED BY <3>1, ParamHeldFacts DEF PipeTypes, QueueTypes
  <2>2. CASE DequeueDoneRef(d) \/ DequeuerWoken(d)
    BY <2>2 DEF DequeueDoneRef, DequeuerWoken
  <2> QED BY <2>1, <2>2 DEF UserNext
<1>3. Completions' = Completions
  BY <1>1 DEF Completions, CompletionsAt
<1> QED BY <1>1, <1>2, <1>3, ElsewhereSeen

\* The abstract module's instance has its own name for the operator.
LEMMA SameCardinality == \A S : Schedule!Cardinality(S) = Cardinality(S)
  BY DEF Schedule!Cardinality, Cardinality

\* The host target's steps.
LEMMA HostSeen ==
  ASSUME PipeTypes, Flow, LeafFlow, Custody, Counted, HostTaskNext
  PROVE  Schedule!HostNext \/ UNCHANGED Schedule!vars
<1>1. host_q \in Seq(Commands)
  BY DEF PipeTypes, MessageTypes
<1>2. ASSUME host_q # <<>>, host_q' = Tail(host_q)
      PROVE  IF Head(host_q)[1] = "ref_consumed" THEN Completions' = Completions
             ELSE /\ Completions # <<>> /\ Head(Completions) = Head(host_q)
                  /\ Completions' = Tail(Completions)
  <2>1. Completions' = Picked(Tail(host_q))
    BY <1>2 DEF Completions, CompletionsAt, Picked, CompletionsIn
  <2> QED BY <1>1, <1>2, <2>1, PickedTail, CompletionsPicked
<1>3. ASSUME UNCHANGED host_q PROVE Completions' = Completions
  BY <1>3 DEF Completions, CompletionsAt
<1>4. CASE RefConsumed
  <2>1. /\ UNCHANGED own_vars /\ UNCHANGED <<executed, data_ref, task, acquire_q>>
        /\ host_q # <<>> /\ host_q' = Tail(host_q) /\ Head(host_q)[1] = "ref_consumed"
    BY <1>4 DEF RefConsumed, own_vars, sched_vars
  <2>2. Completions' = Completions
    BY <1>2, <2>1
  <2> QED BY <2>1, <2>2, ElsewhereSeen
<1>5. CASE HostCompletion
  <2>1. UNCHANGED <<data_ref, task, acquire_q>>
    BY <1>5 DEF HostCompletion, pipe_vars
  <2>2. UNCHANGED executed
    BY <1>5 DEF HostCompletion, HostTake, LeafCompleted, GraphCompleted, HostAction, sched_vars
  <2>3. Completing' = Completing /\ ReadySeen' = ReadySeen
    BY <2>1, <2>2, SeenKept
  <2>4. Schedule!Leaves = Leaves /\ Schedule!IdleHost = IdleHost
    BY DEF Schedule!Leaves, Leaves, Schedule!IdleHost, IdleHost
  <2>5. CASE host_q # <<>> /\ Head(host_q)[1] # "ref_consumed" /\ HostTake
    <3>1. /\ Completions # <<>> /\ Head(Completions) = Head(host_q)
          /\ Completions' = Tail(Completions)
      BY <1>2, <2>5 DEF HostTake
    <3> QED BY <2>3, <2>4, <2>5, <3>1
            DEF HostTake, Schedule!HostTake, Schedule!HostNext, ReadySeen
  <2>6. CASE LeafCompleted
    <3>1. Completions' = Completions
      BY <1>3, <2>6 DEF LeafCompleted
    <3>2. /\ host.pc = "check" /\ ~IsLastLeaf(host.pipe)
          /\ complete_leaf_nodes' =
               [complete_leaf_nodes EXCEPT ![host.pipe] = LeafNodesAfter(host.pipe)]
          /\ host' = [host EXCEPT !.pc = "action"]
          /\ UNCHANGED <<free_q, desc_state, graph_state, submitted_count,
                         schedule_pending_count, completed_event, abandon_seen, app,
                         requested, done, last_abandoned>>
      BY <2>6 DEF LeafCompleted, sched_vars
    <3>3. ~Schedule!IsLastLeaf(host.pipe)
      BY <2>4, <3>2, SameCardinality DEF Schedule!IsLastLeaf, IsLastLeaf
    <3>4. complete_leaf_nodes' =
            [complete_leaf_nodes EXCEPT ![host.pipe] = Schedule!LeafNodesAfter(host.pipe)]
      BY <2>4, <3>2, SameCardinality
         DEF Schedule!IsLastLeaf, IsLastLeaf, LeafNodesAfter, Schedule!LeafNodesAfter
    <3>5. Schedule!LeafCompleted
      BY <2>2, <2>3, <3>1, <3>2, <3>3, <3>4
         DEF Schedule!LeafCompleted, ReadySeen, Schedule!sched_vars
    <3> QED BY <3>5 DEF Schedule!HostNext
  <2>7. CASE GraphCompleted
    <3>1. Completions' = Completions
      BY <1>3, <2>7 DEF GraphCompleted
    <3>2. /\ host.pc = "check" /\ IsLastLeaf(host.pipe)
          /\ complete_leaf_nodes' =
               [complete_leaf_nodes EXCEPT ![host.pipe] = LeafNodesAfter(host.pipe)]
          /\ desc_state' = [desc_state EXCEPT ![host.pipe] = EndState(host.pipe)]
          /\ graph_state' = StateAfterCompletion(host.pipe)
          /\ free_q' = FreeQueueWith(host.pipe)
          /\ completed_event' = (completed_event \/ AllCompleted)
          /\ UNCHANGED <<abandon_seen, app, requested>>
      BY <2>7 DEF GraphCompleted
    <3>3. Schedule!IsLastLeaf(host.pipe)
      BY <2>4, <3>2, SameCardinality DEF Schedule!IsLastLeaf, IsLastLeaf
    <3>4. complete_leaf_nodes' =
            [complete_leaf_nodes EXCEPT ![host.pipe] = Schedule!LeafNodesAfter(host.pipe)]
      BY <2>4, <3>2, SameCardinality
         DEF Schedule!IsLastLeaf, IsLastLeaf, LeafNodesAfter, Schedule!LeafNodesAfter
    <3>5. /\ desc_state' = [desc_state EXCEPT ![host.pipe] = Schedule!EndState(host.pipe)]
          /\ graph_state' = Schedule!StateAfterCompletion(host.pipe)
          /\ free_q' = Schedule!FreeQueueWith(host.pipe)
          /\ completed_event' = (completed_event \/ Schedule!AllCompleted)
      BY <3>2
         DEF EndState, Schedule!EndState, StateAfterCompletion, Schedule!StateAfterCompletion,
             FreeQueueWith, Schedule!FreeQueueWith, AllCompleted, Schedule!AllCompleted
    <3>6. Schedule!GraphCompleted
      BY <2>3, <2>7, <3>1, <3>2, <3>3, <3>4, <3>5
         DEF GraphCompleted, Schedule!GraphCompleted, ReadySeen
    <3> QED BY <3>6 DEF Schedule!HostNext
  <2>8. CASE HostAction
    <3>1. Completions' = Completions
      BY <1>3, <2>8 DEF HostAction
    <3>2. Schedule!HostAction
      BY <2>3, <2>4, <2>8, <3>1
         DEF HostAction, Schedule!HostAction, AbandonedPipe, Schedule!AbandonedPipe,
             ReadySeen
    <3> QED BY <3>2 DEF Schedule!HostNext
  <2> QED BY <1>5, <2>5, <2>6, <2>7, <2>8 DEF HostCompletion
<1>6. CASE HostRestart
  <2>1. /\ host.pc = "reschedule" /\ OwnGraphScheduleGraph(host.schedule_count)
        /\ host' = [host EXCEPT !.pc = "action", !.schedule_count = 0]
        /\ UNCHANGED <<complete_leaf_nodes, host_q, app, requested, done, last_abandoned>>
        /\ UNCHANGED <<data_ref, task, acquire_q>>
    BY <1>6 DEF HostRestart, HostReschedule
  <2>2. PICK num \in Nat : num = host.schedule_count
    BY DEF PipeTypes, SchedulerTypes, HostStates
  <2>3. /\ Schedule!OwnGraphScheduleGraph(num)
        /\ ReadySeen' = ReadySeen /\ Completing' = Completing
    <3>1. OwnGraphScheduleGraph(num)
      BY <2>1, <2>2
    <3> QED BY <2>1, <3>1, StartedSeen
  <2>4. Schedule!OwnGraphScheduleGraph(host.schedule_count)
    BY <2>2, <2>3
       DEF Schedule!OwnGraphScheduleGraph, Schedule!NumStarted, Schedule!NumLeftPending,
           Schedule!EventAfterSchedule
  <2>5. Completions' = Completions
    BY <1>3, <2>1
  <2>6. Schedule!HostReschedule
    BY <2>1, <2>3, <2>4, <2>5 DEF Schedule!HostReschedule, ReadySeen
  <2> QED BY <2>6 DEF Schedule!HostNext
<1> QED BY <1>4, <1>5, <1>6 DEF HostTaskNext

\* A task comes to send its command only when its node has run, and what has run stays so
\* while the instance is in flight.
LEMMA DueKept ==
  ASSUME CommandsDue,
         \A u \in Targets : task'[u].pc = "complete" =>
           \/ /\ task'[u] = task[u]
              /\ executed[task[u].pipe] \subseteq executed'[task[u].pipe]
           \/ HasCompletion(task'[u].node) /\ task'[u].node \in executed'[task'[u].pipe]
  PROVE  CommandsDue'
BY DEF CommandsDue, HasCompletion

LEMMA CountedKept ==
  ASSUME Counted, UNCHANGED <<ready, requested, task, executed>>,
         acquire_q'[Param0] = acquire_q[Param0]
  PROVE  Counted'
<1>1. CommandsDue'
  BY DueKept DEF Counted
<1> QED BY <1>1 DEF Counted, ReadyCounted

LEMMA CountedStarts ==
  ASSUME PipeTypes, Flow, LeafFlow, Counted, NEW num \in Nat, OwnGraphScheduleGraph(num),
         UNCHANGED task
  PROVE  CommandsDue'
<1>1. ASSUME NEW u \in Targets, task[u].pc = "complete"
      PROVE  executed'[task[u].pipe] = executed[task[u].pipe]
  <2>1. task[u].pipe \in InFlight /\ task[u].pipe \in Pipes
    BY <1>1, ReleasesInFlight, TaskTypes
  <2> QED BY <2>1, StartedFlight DEF PipeTypes, Flow
<1> QED BY <1>1, DueKept DEF Counted

LEMMA TargetCounted ==
  ASSUME WritersFirst, ParkingRoom, PipeTypes, Flow, LeafFlow, Custody, Counted,
         NEW t \in Targets, TargetNext(t)
  PROVE  Counted'
<1>1. /\ task \in [Targets -> Tasks] /\ task[t] \in Tasks
      /\ acquire_q \in [Data -> Seq(Nat)] /\ Param0 \in Data /\ Param0 \in UserData
      /\ executed \in [Pipes -> SUBSET Nodes]
      /\ \A u \in Targets : task[u].pipe \in Pipes
  BY TaskTypes, GraphAssumption DEF PipeTypes, QueueTypes, SchedulerTypes
<1>2. ASSUME \A u \in Targets \ {t} : task'[u] = task[u], task'[t].pc # "complete",
             UNCHANGED <<ready, requested, executed>>, acquire_q'[Param0] = acquire_q[Param0]
      PROVE  Counted'
  <2>1. CommandsDue'
    BY <1>2, DueKept DEF Counted
  <2> QED BY <1>2, <2>1 DEF Counted, ReadyCounted
<1>3. CASE FetchNode(t)
  <2>1. UNCHANGED <<ready, requested, executed, acquire_q>> /\ task[t].pc = "idle"
    BY <1>3 DEF FetchNode, vars, sched_vars
  <2>2. UNCHANGED task \/ \E n \in Nodes, p \in Pipes : task' = [task EXCEPT ![t] = TakenNode(n, p)]
    BY <1>3, FetchNodeEffect
  <2>3. /\ \A u \in Targets \ {t} : task'[u] = task[u]
        /\ task'[t] = task[t] \/ task'[t].pc = "acquire"
    BY <1>1, <2>2, TaskFacts
  <2> QED BY <1>2, <2>1, <2>3
<1>4. CASE AcquireParameter(t)
  <2>1. PICK d \in Data, p \in Pipes : d = CurrentData(t) /\ p = task[t].pipe /\ task[t].pc = "acquire"
    BY <1>4, TaskTypes, AcquireCases
  <2>2. /\ task' = [task EXCEPT ![t] = task'[t]]
        /\ task'[t].pc \in {"idle", "acquire", "execute"}
    BY <1>4, AcquireParameterEffect, TaskFacts DEF Proceeds, Parks
  <2>3. \A u \in Targets \ {t} : task'[u] = task[u]
    BY <1>1, <2>2
  <2>4. UNCHANGED <<requested, executed>>
    BY <1>4 DEF AcquireParameter, sched_vars
  <2>5. CommandsDue'
    BY <2>2, <2>3, <2>4, DueKept DEF Counted
  <2>6. \/ UNCHANGED <<acquire_q, ready>>
        \/ /\ acquire_q[d] # <<>> /\ acquire_q' = [acquire_q EXCEPT ![d] = Tail(acquire_q[d])]
           /\ ready' = IF d = Param0 THEN ready - 1 ELSE ready
    BY <1>4, <2>1 DEF AcquireParameter
  <2>7. ReadyCounted'
    <3>1. CASE UNCHANGED <<acquire_q, ready>>
      BY <2>4, <3>1 DEF Counted, ReadyCounted
    <3>2. CASE /\ acquire_q[d] # <<>> /\ acquire_q' = [acquire_q EXCEPT ![d] = Tail(acquire_q[d])]
               /\ ready' = IF d = Param0 THEN ready - 1 ELSE ready
      <4>1. CASE d = Param0
        <5>1. /\ acquire_q'[Param0] = Tail(acquire_q[Param0])
              /\ acquire_q[Param0] \in Seq(Nat) /\ acquire_q[Param0] # <<>>
          BY <1>1, <3>2, <4>1
        <5>2. Len(acquire_q'[Param0]) = Len(acquire_q[Param0]) - 1
          BY <5>1, HeadTailProperties
        <5> QED BY <2>4, <3>2, <4>1, <5>2 DEF Counted, ReadyCounted
      <4>2. CASE d # Param0
        <5>1. acquire_q'[Param0] = acquire_q[Param0]
          BY <1>1, <3>2, <4>2
        <5> QED BY <2>4, <3>2, <4>2, <5>1 DEF Counted, ReadyCounted
      <4> QED BY <4>1, <4>2
    <3> QED BY <2>6, <3>1, <3>2
  <2> QED BY <2>5, <2>7 DEF Counted
<1>5. CASE ExecuteNode(t)
  <2>1. /\ task' = [task EXCEPT ![t] = task'[t]] /\ task'[t].pc = "release"
    BY <1>5, ExecuteNodeTask
  <2>2. /\ UNCHANGED <<ready, requested, acquire_q>>
        /\ executed' = [executed EXCEPT ![task[t].pipe] = executed[task[t].pipe] \cup {task[t].node}]
    BY <1>5 DEF ExecuteNode
  <2>3. \A u \in Targets \ {t} : task'[u] = task[u]
    BY <1>1, <2>1
  <2>4. \A p \in Pipes : executed[p] \subseteq executed'[p]
    BY <1>1, <2>2
  <2>5. CommandsDue'
    BY <1>1, <2>1, <2>3, <2>4, DueKept DEF Counted
  <2> QED BY <2>2, <2>5 DEF Counted, ReadyCounted
<1>6. CASE ReleaseParameter(t)
  <2>1. /\ task[t].pc = "release" /\ task' = [task EXCEPT ![t] = ReleasedTask(t)]
        /\ UNCHANGED vars /\ CurrentData(t) \in Data
        /\ \/ UNCHANGED acquire_q
           \/ /\ CurrentData(t) \notin UserData
              /\ acquire_q' = [acquire_q EXCEPT ![CurrentData(t)] =
                                 Append(acquire_q[CurrentData(t)], Ref(t))]
    BY <1>6, ReleaseParameterEffect, CurrentUser
  <2>2. UNCHANGED <<ready, requested, executed>>
    BY <2>1 DEF vars, sched_vars
  <2>3. acquire_q'[Param0] = acquire_q[Param0]
    BY <1>1, <2>1
  <2>4. /\ task'[t] = ReleasedTask(t) /\ \A u \in Targets \ {t} : task'[u] = task[u]
    BY <1>1, <2>1
  <2>5. task[t].node \in executed[task[t].pipe]
    BY <2>1 DEF Custody, HasRun
  <2>6. /\ ReleasedTask(t).node = task[t].node /\ ReleasedTask(t).pipe = task[t].pipe
        /\ ReleasedTask(t).pc = "complete" => HasCompletion(task[t].node)
    BY <1>1, <2>1 DEF ReleasedTask, Tasks
  <2>7. CommandsDue'
    BY <2>2, <2>4, <2>5, <2>6, DueKept DEF Counted
  <2> QED BY <2>2, <2>3, <2>7 DEF Counted, ReadyCounted
<1>7. CASE SendComplete(t) \/ TriggerNextNode(t) \/ TriggerNextPipe(t)
  <2>1. UNCHANGED <<ready, requested, executed, acquire_q>>
    BY <1>7 DEF SendComplete, TriggerNextNode, TriggerNextPipe, vars, sched_vars
  <2>2. \E tk : /\ tk.pc = "trigger" /\ task' = [task EXCEPT ![t] = tk]
                \/ task' = [task EXCEPT ![t] = IdleTask]
    <3>1. CASE SendComplete(t)
      <4> DEFINE tk == [task[t] EXCEPT !.pc = "trigger"]
      <4>1. task' = [task EXCEPT ![t] = Finished(tk)] /\ tk.pc = "trigger"
        BY <1>1, <3>1 DEF SendComplete, Tasks
      <4> HIDE DEF tk
      <4>2. Finished(tk) = tk \/ Finished(tk) = IdleTask
        BY DEF Finished
      <4> QED BY <4>1, <4>2
    <3>2. CASE TriggerNextNode(t)
      <4> DEFINE tk == [task[t] EXCEPT !.prm = task[t].prm + 1]
      <4>1. task' = [task EXCEPT ![t] = Finished(tk)] /\ tk.pc = "trigger"
        BY <1>1, <3>2 DEF TriggerNextNode, Tasks
      <4> HIDE DEF tk
      <4>2. Finished(tk) = tk \/ Finished(tk) = IdleTask
        BY DEF Finished
      <4> QED BY <4>1, <4>2
    <3>3. CASE TriggerNextPipe(t)
      BY <3>3 DEF TriggerNextPipe
    <3> QED BY <1>7, <3>1, <3>2, <3>3
  <2>3. task'[t].pc \in {"trigger", "idle"} /\ \A u \in Targets \ {t} : task'[u] = task[u]
    BY <1>1, <2>2, TaskFacts
  <2> QED BY <1>2, <2>1, <2>3
<1> QED BY <1>3, <1>4, <1>5, <1>6, <1>7 DEF TargetNext

LEMMA CountedNext ==
  ASSUME WritersFirst, ParkingRoom, PipeTypes, Flow, LeafFlow, Custody, Counted,
         [PipeNext]_all_vars
  PROVE  Counted'
<1>1. /\ acquire_q \in [Data -> Seq(Nat)] /\ Param0 \in Data /\ Param0 \in UserData
  BY GraphAssumption DEF PipeTypes, QueueTypes
<1>2. ASSUME NEW a \in Apps, FeederNext(a) PROVE Counted'
  <2>1. CASE FeedBegin(a)
    <3>1. UNCHANGED <<ready, requested, task, executed, acquire_q>>
      BY <2>1 DEF FeedBegin, VxEnqueueReadyRef, pipe_vars, sched_vars
    <3> QED BY <3>1, CountedKept
  <2>2. CASE Feed(a)
    <3>1. /\ UNCHANGED <<requested, task, executed>> /\ ready' = ready + 1
          /\ \E r \in held[Param0] :
               acquire_q' = [acquire_q EXCEPT ![Param0] = Append(acquire_q[Param0], r)]
      BY <2>2 DEF Feed, EnqueueRef, EnqueueReady, sched_vars
    <3>2. Len(acquire_q'[Param0]) = Len(acquire_q[Param0]) + 1
      <4>1. PICK r \in Nat : acquire_q' = [acquire_q EXCEPT ![Param0] = Append(acquire_q[Param0], r)]
        BY <1>1, <3>1 DEF PipeTypes, QueueTypes
      <4>2. acquire_q[Param0] \in Seq(Nat)
        BY <1>1
      <4> QED BY <1>1, <4>1, <4>2, AppendProperties
    <3>3. CommandsDue'
      BY <3>1, DueKept DEF Counted
    <3> QED BY <3>1, <3>2, <3>3 DEF Counted, ReadyCounted
  <2>3. CASE FeedSchedule(a)
    <3>1. /\ app[a].n \in Nat /\ OwnGraphScheduleGraph(app[a].n)
          /\ UNCHANGED <<ready, task, acquire_q>>
          /\ requested' = requested + IF RemembersPending THEN app[a].n ELSE NumStarted(app[a].n)
      BY <2>3 DEF PipeTypes, SchedulerTypes, AppStates, FeedSchedule, AppSchedule
    <3>2. PICK num \in Nat : num = app[a].n
      BY <3>1
    <3>3. OwnGraphScheduleGraph(num) /\ UNCHANGED task
      BY <3>1, <3>2
    <3>4. CommandsDue'
      BY <3>3, CountedStarts
    <3>5. requested' = requested + num
      BY <3>1, <3>2, GraphAssumption DEF RemembersPending
    <3> QED BY <3>1, <3>4, <3>5 DEF Counted, ReadyCounted
  <2> QED BY <1>2, <2>1, <2>2, <2>3 DEF FeederNext
<1>3. ASSUME NEW d \in UserData, UserNext(d) PROVE Counted'
  <2>1. UNCHANGED <<ready, requested, task, executed>>
    BY <1>3 DEF UserNext, Replenish, DequeueDoneRef, DequeuerWoken, vars, sched_vars
  <2>2. acquire_q'[Param0] = acquire_q[Param0]
    <3>1. CASE Replenish(d)
      <4>1. d # Param0 /\ \E r \in held[d] : acquire_q' = [acquire_q EXCEPT ![d] = Append(acquire_q[d], r)]
        BY <3>1, GraphAssumption DEF Replenish, Outputs, EnqueueReady
      <4> QED BY <1>1, <4>1
    <3>2. CASE DequeueDoneRef(d) \/ DequeuerWoken(d)
      BY <3>2 DEF DequeueDoneRef, DequeuerWoken
    <3> QED BY <1>3, <3>1, <3>2 DEF UserNext
  <2> QED BY <2>1, <2>2, CountedKept
<1>4. ASSUME NEW th \in Threads, SendNext(th) PROVE Counted'
  <2>1. UNCHANGED <<ready, requested, task, executed, acquire_q>>
    BY <1>4 DEF SendNext, sched_vars
  <2> QED BY <2>1, CountedKept
<1>5. CASE RefConsumed \/ HostCompletion
  <2>1. UNCHANGED <<ready, requested, task, executed, acquire_q>>
    BY <1>5 DEF RefConsumed, HostCompletion, HostTake, LeafCompleted, GraphCompleted, HostAction,
                pipe_vars, sched_vars
  <2> QED BY <2>1, CountedKept
<1>6. CASE HostRestart
  <2>1. /\ OwnGraphScheduleGraph(host.schedule_count)
        /\ UNCHANGED <<ready, requested, task, acquire_q>>
    BY <1>6 DEF HostRestart, HostReschedule
  <2>2. PICK num \in Nat : num = host.schedule_count
    BY DEF PipeTypes, SchedulerTypes, HostStates
  <2>3. OwnGraphScheduleGraph(num) /\ UNCHANGED task
    BY <2>1, <2>2
  <2>4. CommandsDue'
    BY <2>3, CountedStarts
  <2> QED BY <2>1, <2>4 DEF Counted, ReadyCounted
<1>7. CASE UNCHANGED all_vars
  <2>1. UNCHANGED <<ready, requested, task, executed, acquire_q>>
    BY <1>7 DEF all_vars, vars, pipe_vars, sched_vars
  <2> QED BY <2>1, CountedKept
<1> QED BY <1>2, <1>3, <1>4, <1>5, <1>6, <1>7, TargetCounted DEF PipeNext, HostTaskNext

LEMMA CountedInit == PipeInit => Counted
<1> SUFFICES ASSUME PipeInit PROVE Counted
  OBVIOUS
<1>1. /\ ready = 0 /\ requested = 0 /\ acquire_q[Param0] = <<>>
      /\ \A t \in Targets : task[t].pc = "idle"
  BY GraphAssumption DEF PipeInit, Init, IdleTask
<1> QED BY <1>1, EmptySeq DEF Counted, ReadyCounted, CommandsDue

LEMMA ScheduleInit == PipeInit => Schedule!Init
<1> SUFFICES ASSUME PipeInit PROVE Schedule!Init
  OBVIOUS
<1>1. /\ Init /\ acquire_q[Param0] = <<>> /\ host_q = <<>>
      /\ \A t \in Targets : task[t].pc = "idle"
      /\ \A p \in Pipes : ~data_ref[Param0][p].acquired /\ executed[p] = {}
  BY ParamHeldFacts, GraphAssumption DEF PipeInit, Init, IdleTask
<1>2. Completing = {}
  BY <1>1 DEF Completing
<1>3. ReadySeen = 0
  <2>1. ParamHeld = {}
    BY <1>1 DEF ParamHeld
  <2>2. Cardinality(ParamHeld) = 0
    BY <2>1, FS_EmptySet
  <2> QED BY <1>1, <2>2, EmptySeq DEF ReadySeen
<1>4. Completions = <<>>
  <2>1. <<>> \in Seq(Nat) /\ Len(<<>>) = 0
    BY EmptySeq
  <2>2. CompletionsIn(<<>>) = {}
    BY <2>1, LenProperties DEF CompletionsIn
  <2>3. Picked(<<>>) \in Seq(Nat) /\ Len(Picked(<<>>)) = 0
    BY <2>1, <2>2, PickedFacts, FS_EmptySet
  <2> QED BY <1>1, <2>3, EmptySeq, CompletionsPicked
<1> QED BY <1>1, <1>2, <1>3, <1>4
        DEF Init, Schedule!Init, Schedule!Pipes, Pipes, Schedule!IdleHost, IdleHost,
            Schedule!IdleApp, IdleApp, ReadySeen

LEMMA ScheduleNext ==
  ASSUME ParametersOnce, WritersFirst, ParkingRoom, HostQueueHasRoom, PipeTypes, OwnTargets,
         Flow, LeafFlow, Custody, Counted, [PipeNext]_all_vars
  PROVE  [Schedule!Next]_Schedule!vars
<1>1. Schedule!Pipes = Pipes
  BY DEF Schedule!Pipes, Pipes
<1>2. ASSUME NEW a \in Apps, FeederNext(a) PROVE Schedule!Next
  BY <1>2, FeederSeen DEF Schedule!Next
<1>3. ASSUME NEW t \in Targets, TargetNext(t) PROVE [Schedule!Next]_Schedule!vars
  BY <1>1, <1>3, TargetSeen DEF Schedule!Next
<1>4. CASE UNCHANGED all_vars
  <2>1. UNCHANGED own_vars /\ UNCHANGED <<executed, data_ref, task, acquire_q, host_q>>
    BY <1>4 DEF all_vars, vars, pipe_vars, sched_vars, own_vars
  <2>2. Completions' = Completions
    BY <2>1 DEF Completions, CompletionsAt
  <2> QED BY <2>1, <2>2, ElsewhereSeen
<1>5. CASE HostTaskNext
  BY <1>5, HostSeen DEF Schedule!Next
<1> QED BY <1>2, <1>3, <1>4, <1>5, UserSeen, SendSeen DEF PipeNext

\* If every node has its input nodes on one target, follows the node that writes what
\* it reads, and names no data object twice, then the detailed steps of the targets do to the
\* graph's executions no more than GraphSchedule says: a node runs once in an execution,
\* after its input nodes, on a reference taken from the ready queue of graph parameter 0,
\* and its completion command is queued to the host after it counts as executed and before
\* the node is taken up again (ownTargetNodeDescNodeExecute, vx_target.c), as long as no
\* command to the host is dropped and no node has to be parked on a full list.
THEOREM PipelineImplementsSchedule ==
  ASSUME InputsOnOneTarget, ParametersOnce, WritersFirst
  PROVE  PipeSpec /\ []HostQueueHasRoom /\ []ParkingRoom => ImplementsSchedule
<1>1. PipeInit => Custody /\ ParkedAcquire /\ Counted
  BY CustodyInit, CountedInit
<1>2. /\ PipeTypes /\ OwnTargets /\ Flow /\ LeafFlow /\ ParkingRoom
      /\ Custody /\ ParkedAcquire /\ Counted /\ [PipeNext]_all_vars
      => Custody' /\ ParkedAcquire' /\ Counted'
  BY CustodyNext, CountedNext
<1>3. /\ PipeTypes /\ OwnTargets /\ Flow /\ LeafFlow /\ ParkingRoom /\ HostQueueHasRoom
      /\ Custody /\ Counted /\ [PipeNext]_all_vars
      => [Schedule!Next]_Schedule!vars
  BY ScheduleNext
<1> QED BY <1>1, <1>2, <1>3, ScheduleInit, FlowInvariance, PipeTypesInvariance, OwnInvariance,
           PTL DEF PipeSpec, ImplementsSchedule, Schedule!Spec

\* With lists that have room for every node that may be parked on them, only the host's
\* queue is left to suppose something of.
THEOREM PipelineImplementsScheduleWithRoom ==
  ASSUME InputsOnOneTarget, ParametersOnce, WritersFirst, ParkedListsFit
  PROVE  PipeSpec /\ []HostQueueHasRoom => ImplementsSchedule
BY RoomInvariance, PipelineImplementsSchedule, PTL
=============================================================================
