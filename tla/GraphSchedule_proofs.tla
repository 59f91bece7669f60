------------------------ MODULE GraphSchedule_proofs ------------------------
(***************************************************************************)
(* Proofs about GraphSchedule, for every graph, every pipeline depth, every *)
(* number of application threads and each of the three scheduling modes.   *)
(*                                                                         *)
(* The invariants are proved together: SchedInv is their conjunction with  *)
(* what ties them to the queues and to the program counters.               *)
(***************************************************************************)
EXTENDS GraphSchedule, FiniteSetTheorems, SequenceTheorems, TLAPS

\* Where the executions that the host task has to restart may be: only between
\* its two locked sections, while at most the one descriptor it freed is free.
\* A NORMAL graph without streaming never has any.
RestartWindow ==
    /\ host.pc # "reschedule" => host.schedule_count = 0
    /\ host.pc = "reschedule" => Len(free_q) <= 1
    /\ ~RemembersPending => schedule_pending_count = 0 /\ host.pc # "reschedule"

\* What the API calls carry from their unlocked part to their locked part.
CallArguments ==
    \A a \in Apps :
      /\ app[a].pc = "schedule" => app[a].n > 0
      /\ app[a].pc = "wait" => app[a].n <= requested

\* The completion command of a leaf node exists at most once, also while it is still to
\* be sent, and belongs to an execution in flight that has run the node.
LeafCommands ==
    /\ \A n \in Leaves, p \in Pipes :
         /\ <<n, p>> \in completing \/ Queued(n, p) \/ Checking(n, p)
              => p \in InFlight /\ n \in executed[p]
         /\ ~(Queued(n, p) /\ Checking(n, p))
         /\ <<n, p>> \in completing => ~Queued(n, p) /\ ~Checking(n, p)
    /\ \A i, j \in 1 .. Len(host_q) :
         host_q[i] = host_q[j] /\ host_q[i][1] \in Leaves => i = j
    /\ host.pc = "check" => host.node \in Leaves

SchedInv ==
    /\ TypeOK /\ DescriptorsConserved /\ LeafCommands /\ LeafCounts
    /\ RestartWindow /\ CallArguments
    /\ NoLostSchedule /\ CompletedEventMeansIdle /\ PendingMeansFull
    /\ RunningIffSubmitted

-----------------------------------------------------------------------------
\* Sequences without repetitions, sets of leaves.

\* A sequence without repetitions has as many elements as places.
LEMMA DistinctCardinality ==
  ASSUME NEW S, NEW s \in Seq(S),
         \A i, j \in 1 .. Len(s) : s[i] = s[j] => i = j
  PROVE  LET E == {s[i] : i \in 1 .. Len(s)}
         IN  IsFiniteSet(E) /\ Cardinality(E) = Len(s)
<1> DEFINE E == {s[i] : i \in 1 .. Len(s)}
<1>1. Len(s) \in Nat /\ s \in [1 .. Len(s) -> S]
  BY LenProperties
<1>2. s \in [1 .. Len(s) -> E]
  BY <1>1
<1>3. s \in Bijection(1 .. Len(s), E)
  BY <1>2 DEF Bijection, Injection, Surjection, IsInjective
<1>4. ExistsBijection(1 .. Len(s), E)
  BY <1>3 DEF ExistsBijection
<1>5. IsFiniteSet(1 .. Len(s))
  BY <1>1, FS_Interval
<1>6. IsFiniteSet(E) /\ Cardinality(E) = Cardinality(1 .. Len(s))
  BY <1>4, <1>5, FS_Bijection
<1>7. Cardinality(1 .. Len(s)) = Len(s)
  BY <1>1, FS_Interval
<1> QED BY <1>6, <1>7

\* Pipeline instances are as many as the depth.
LEMMA PipesFinite == IsFiniteSet(Pipes) /\ Cardinality(Pipes) = Depth
<1>1. Depth \in Nat /\ Depth > 0
  BY DepthAssumption
<1> QED BY <1>1, FS_Interval DEF Pipes

\* The leaf nodes, and so any set of them, can be counted.
LEMMA LeavesFinite ==
  ASSUME NEW S, S \subseteq Leaves
  PROVE  IsFiniteSet(S) /\ Cardinality(S) \in Nat /\ IsFiniteSet(Leaves)
<1>1. IsFiniteSet(Leaves)
  BY NodesAssumption, FS_Subset DEF Leaves
<1>2. IsFiniteSet(S)
  BY <1>1, FS_Subset
<1> QED BY <1>1, <1>2, FS_CardinalityType

\* An execution in flight holds a descriptor: it is among the submitted ones.
LEMMA InFlightSubmitted ==
  ASSUME TypeOK, DescriptorsConserved, NEW p \in InFlight
  PROVE  submitted_count > 0
<1>1. free_q \in Seq(Pipes) /\ Len(free_q) \in Nat
  BY LenProperties DEF TypeOK
<1>2. IsFiniteSet(Free) /\ Cardinality(Free) = Len(free_q)
  BY <1>1, DistinctCardinality DEF DescriptorsConserved, Free
<1>3. Free \subseteq Pipes
  BY <1>1, ElementOfSeq DEF Free
<1>4. Cardinality(Free) # Depth
  BY <1>3, PipesFinite, FS_Subset DEF InFlight
<1>5. submitted_count \in Nat /\ submitted_count + Len(free_q) = Depth
  BY DEF TypeOK, DescriptorsConserved
<1> QED BY <1>1, <1>2, <1>4, <1>5, DepthAssumption

-----------------------------------------------------------------------------
\* The initial state.

LEMMA InitInv == Init => SchedInv
<1> SUFFICES ASSUME Init PROVE SchedInv
  OBVIOUS
<1> USE DEF Init
<1>0. Depth \in Nat /\ Depth > 0
  BY DepthAssumption
<1>1. free_q \in Seq(Pipes) /\ Len(free_q) = Depth
      /\ \A i \in 1 .. Depth : free_q[i] = i - 1
  <2>1. \A i \in 1 .. Depth : i - 1 \in Pipes
    BY <1>0 DEF Pipes
  <2>2. free_q \in [1 .. Depth -> Pipes]
    BY <2>1
  <2> QED BY <1>0, <2>2, SeqDef, LenProperties
<1>2. TypeOK
  <2>1. 0 \in Pipes /\ ParamNode \in Nodes
    BY <1>0, NodesAssumption DEF Pipes
  <2>2. host_q \in Seq(Nodes \X Pipes)
    BY EmptySeq
  <2>3. /\ desc_state \in [Pipes -> GraphStates]
        /\ complete_leaf_nodes \in [Pipes -> Nat]
        /\ executed \in [Pipes -> SUBSET Nodes]
        /\ abandon_seen \in [Pipes -> BOOLEAN]
        /\ graph_state \in GraphStates
    BY DEF GraphStates
  <2>4. IdleHost \in HostStates
    BY <2>1 DEF IdleHost, HostStates
  <2>5. IdleApp("NONE") \in AppStates
    BY DEF IdleApp, AppStates
  <2> QED BY <1>1, <2>2, <2>3, <2>4, <2>5 DEF TypeOK
<1>3. DescriptorsConserved
  BY <1>0, <1>1 DEF DescriptorsConserved
<1>4. Free = Pipes
  <2>1. \A p \in Pipes : p + 1 \in 1 .. Depth /\ (p + 1) - 1 = p
    BY <1>0 DEF Pipes
  <2>2. \A i \in 1 .. Depth : i - 1 \in Pipes
    BY <1>0 DEF Pipes
  <2> QED BY <1>1, <2>1, <2>2 DEF Free
<1>5. LeafCommands
  BY DEF LeafCommands, Queued, Checking, IdleHost
<1>6. LeafCounts
  BY <1>4 DEF LeafCounts, InFlight
<1>7. RestartWindow /\ CallArguments
  BY DEF RestartWindow, CallArguments, IdleHost, IdleApp
<1>8. NoLostSchedule /\ CompletedEventMeansIdle /\ PendingMeansFull
      /\ RunningIffSubmitted
  BY DEF NoLostSchedule, CompletedEventMeansIdle, PendingMeansFull,
         RunningIffSubmitted, IdleHost
<1> QED BY <1>2, <1>3, <1>5, <1>6, <1>7, <1>8 DEF SchedInv

-----------------------------------------------------------------------------
\* ownGraphScheduleGraph.

\* What can be started is what was asked for or all there are descriptors for.
LEMMA NumStartedBounds ==
  ASSUME TypeOK, NEW num \in Nat
  PROVE  /\ NumStarted(num) \in 0 .. Len(free_q)
         /\ NumStarted(num) <= num + schedule_pending_count
         /\ \/ NumStarted(num) = Len(free_q)
            \/ NumStarted(num) = num + schedule_pending_count
<1>1. Len(free_q) \in Nat /\ schedule_pending_count \in Nat
  BY LenProperties DEF TypeOK
<1> QED BY <1>1 DEF NumStarted

\* The descriptors that are left are distinct, and the ones that were handed out
\* are the ones that are missing.
LEMMA ScheduleFreeQueue ==
  ASSUME TypeOK, DescriptorsConserved, NEW num \in Nat, OwnGraphScheduleGraph(num)
  PROVE  /\ free_q' \in Seq(Pipes)
         /\ Len(free_q') = Len(free_q) - NumStarted(num)
         /\ DescriptorsConserved'
         /\ Free' \subseteq Free
         /\ {free_q[i] : i \in 1 .. NumStarted(num)} = Free \ Free'
<1> DEFINE k == NumStarted(num)
           L == Len(free_q)
<1>1. k \in 0 .. L /\ L \in Nat /\ free_q \in Seq(Pipes)
      /\ \A i \in 1 .. L : free_q[i] \in Pipes
  BY NumStartedBounds, LenProperties, ElementOfSeq DEF TypeOK
<1>2. free_q' = SubSeq(free_q, k + 1, L) /\ submitted_count' = submitted_count + k
  BY DEF OwnGraphScheduleGraph
<1> HIDE DEF k, L
<1>3. /\ free_q' \in Seq(Pipes) /\ Len(free_q') = L - k
      /\ \A i \in 1 .. L - k : free_q'[i] = free_q[k + i]
  <2>1. \A i \in k + 1 .. L : free_q[i] \in Pipes
    BY <1>1
  <2> QED BY <1>1, <1>2, <2>1, SubSeqProperties
<1>4. \A i, j \in 1 .. L : free_q[i] = free_q[j] => i = j
  BY DEF DescriptorsConserved, L
<1>5. submitted_count \in Nat /\ submitted_count + L = Depth
  BY DEF DescriptorsConserved, TypeOK, L
<1>6. DescriptorsConserved'
  <2>1. \A i, j \in 1 .. L - k : free_q'[i] = free_q'[j] => i = j
    <3> SUFFICES ASSUME NEW i \in 1 .. L - k, NEW j \in 1 .. L - k,
                        free_q[k + i] = free_q[k + j]
                 PROVE  i = j
      BY <1>3
    <3>1. k + i \in 1 .. L /\ k + j \in 1 .. L
      BY <1>1
    <3> QED BY <1>1, <1>4, <3>1
  <2>2. submitted_count' + (L - k) = Depth
    BY <1>1, <1>2, <1>5, DepthAssumption
  <2> QED BY <1>3, <2>1, <2>2 DEF DescriptorsConserved
<1>7. Free' = {free_q[i] : i \in k + 1 .. L}
  <2>1. Free' = {free_q[k + i] : i \in 1 .. L - k}
    BY <1>3 DEF Free
  <2>2. \A i \in 1 .. L - k : k + i \in k + 1 .. L
    BY <1>1
  <2>3. \A i \in k + 1 .. L : i - k \in 1 .. L - k /\ i = k + (i - k)
    BY <1>1
  <2> QED BY <2>1, <2>2, <2>3
<1>8. Free = {free_q[i] : i \in 1 .. L}
  BY DEF Free, L
<1>9. 1 .. k \subseteq 1 .. L /\ k + 1 .. L = (1 .. L) \ (1 .. k)
  BY <1>1
<1>10. {free_q[i] : i \in 1 .. k} = Free \ Free'
  BY <1>4, <1>7, <1>8, <1>9
<1>11. Free' \subseteq Free
  BY <1>7, <1>8, <1>9
<1> QED BY <1>3, <1>6, <1>10, <1>11 DEF k, L

\* The counts and states that ownGraphScheduleGraph assigns have their types.
LEMMA ScheduleTypes ==
  ASSUME SchedInv, NEW num \in Nat, OwnGraphScheduleGraph(num)
  PROVE  /\ desc_state' \in [Pipes -> GraphStates]
         /\ executed' \in [Pipes -> SUBSET Nodes]
         /\ abandon_seen' \in [Pipes -> BOOLEAN]
         /\ graph_state' \in GraphStates
         /\ completed_event' \in BOOLEAN
         /\ submitted_count' \in Nat
         /\ schedule_pending_count' \in Nat
<1>1. TypeOK
  BY DEF SchedInv
<1>2. /\ NumStarted(num) \in Nat
      /\ NumStarted(num) <= num + schedule_pending_count
  BY <1>1, NumStartedBounds, LenProperties DEF TypeOK
<1>3. submitted_count' \in Nat /\ schedule_pending_count' \in Nat
  BY <1>1, <1>2 DEF OwnGraphScheduleGraph, NumLeftPending, TypeOK
<1>4. completed_event' \in BOOLEAN /\ graph_state' \in GraphStates
  BY <1>1 DEF OwnGraphScheduleGraph, EventAfterSchedule, TypeOK, GraphStates
<1>5. /\ desc_state' \in [Pipes -> GraphStates]
      /\ executed' \in [Pipes -> SUBSET Nodes]
      /\ abandon_seen' \in [Pipes -> BOOLEAN]
  BY <1>1 DEF OwnGraphScheduleGraph, TypeOK, GraphStates
<1> QED BY <1>3, <1>4, <1>5

\* An execution that starts has no leaf node reported and no command anywhere; the
\* others keep what they have.
LEMMA ScheduleLeaves ==
  ASSUME SchedInv, NEW num \in Nat, OwnGraphScheduleGraph(num),
         UNCHANGED <<completing, complete_leaf_nodes, host_q>>,
         (host.pc # "check" /\ host'.pc # "check") \/ UNCHANGED host
  PROVE  LeafCommands' /\ LeafCounts'
<1>0. TypeOK /\ DescriptorsConserved /\ LeafCommands /\ LeafCounts
  BY DEF SchedInv
<1>1. /\ Free' \subseteq Free
      /\ {free_q[i] : i \in 1 .. NumStarted(num)} = Free \ Free'
  BY <1>0, ScheduleFreeQueue
<1>2. \A p \in Pipes : executed'[p] = IF p \in Free \ Free' THEN {} ELSE executed[p]
  BY <1>1 DEF OwnGraphScheduleGraph
<1>3. \A n, p : Queued(n, p)' <=> Queued(n, p)
  BY DEF Queued
<1>4. \A n, p : Checking(n, p)' <=> Checking(n, p)
  BY DEF Checking
<1>5. LeafCommands'
  <2>1. ASSUME NEW n \in Leaves, NEW p \in Pipes,
               <<n, p>> \in completing' \/ Queued(n, p)' \/ Checking(n, p)'
        PROVE  p \in InFlight' /\ n \in executed'[p]
    <3>1. p \in InFlight /\ n \in executed[p]
      BY <1>0, <1>3, <1>4, <2>1 DEF LeafCommands
    <3> QED BY <1>1, <1>2, <3>1 DEF InFlight
  <2>2. ASSUME NEW n \in Leaves, NEW p \in Pipes
        PROVE  /\ ~(Queued(n, p) /\ Checking(n, p))'
               /\ <<n, p>> \in completing' => ~Queued(n, p)' /\ ~Checking(n, p)'
    BY <1>0, <1>3, <1>4 DEF LeafCommands
  <2>3. \A i, j \in 1 .. Len(host_q') :
          host_q'[i] = host_q'[j] /\ host_q'[i][1] \in Leaves => i = j
    BY <1>0 DEF LeafCommands
  <2>4. host'.pc = "check" => host'.node \in Leaves
    BY <1>0 DEF LeafCommands
  <2> QED BY <2>1, <2>2, <2>3, <2>4 DEF LeafCommands
<1>6. LeafCounts'
  <2> SUFFICES ASSUME NEW p \in Pipes
               PROVE  complete_leaf_nodes'[p] = IF p \in InFlight'
                                                THEN Cardinality(Reported(p)') ELSE 0
    BY DEF LeafCounts
  <2>1. CASE p \in Free'
    BY <1>0, <1>1, <2>1 DEF LeafCounts, InFlight
  <2>2. CASE p \in Free \ Free'
    <3>1. Reported(p)' = {}
      BY <1>2, <2>2 DEF Reported
    <3> QED BY <1>0, <2>2, <3>1, FS_EmptySet DEF LeafCounts, InFlight
  <2>3. CASE p \notin Free
    <3>1. Reported(p)' = Reported(p)
      BY <1>2, <1>3, <1>4, <2>3 DEF Reported
    <3> QED BY <1>0, <1>1, <2>3, <3>1 DEF LeafCounts, InFlight
  <2> QED BY <1>1, <2>1, <2>2, <2>3
<1> QED BY <1>5, <1>6

\* Executions stay pending only when the last descriptor went; the graph runs when
\* one was started; the event outlives the call only when there was nothing to do.
LEMMA ScheduleCounts ==
  ASSUME SchedInv, NEW num \in Nat, OwnGraphScheduleGraph(num)
  PROVE  /\ PendingMeansFull' /\ RunningIffSubmitted'
         /\ RemembersPending => submitted_count' + schedule_pending_count'
                                = submitted_count + schedule_pending_count + num
         /\ ~RemembersPending => /\ submitted_count' = submitted_count + NumStarted(num)
                                 /\ schedule_pending_count' = 0
         /\ completed_event' => submitted_count' = 0 /\ schedule_pending_count' = 0
<1> DEFINE k == NumStarted(num)
<1>0. /\ TypeOK /\ DescriptorsConserved /\ RestartWindow
      /\ CompletedEventMeansIdle /\ PendingMeansFull /\ RunningIffSubmitted
  BY DEF SchedInv
<1>1. /\ Len(free_q) \in Nat /\ submitted_count \in Nat
      /\ schedule_pending_count \in Nat /\ Depth \in Nat /\ Depth > 0
      /\ submitted_count + Len(free_q) = Depth
  BY <1>0, LenProperties, DepthAssumption DEF TypeOK, DescriptorsConserved
<1>2. /\ k \in 0 .. Len(free_q)
      /\ k = Len(free_q) \/ k = num + schedule_pending_count
  BY <1>0, NumStartedBounds
<1>3. /\ submitted_count' = submitted_count + k
      /\ graph_state' = IF k > 0 THEN "RUNNING" ELSE graph_state
      /\ completed_event' = (completed_event /\ k = 0)
      /\ schedule_pending_count' =
           IF RemembersPending THEN num + schedule_pending_count - k
           ELSE schedule_pending_count
  BY DEF OwnGraphScheduleGraph, EventAfterSchedule, NumLeftPending
<1> HIDE DEF k
<1>4. PendingMeansFull'
  BY <1>0, <1>1, <1>2, <1>3 DEF PendingMeansFull, RestartWindow
<1>5. RunningIffSubmitted'
  BY <1>0, <1>1, <1>2, <1>3 DEF RunningIffSubmitted
<1>6. completed_event' => submitted_count' = 0 /\ schedule_pending_count' = 0
  <2> SUFFICES ASSUME completed_event'
               PROVE  submitted_count' = 0 /\ schedule_pending_count' = 0
    OBVIOUS
  <2>1. completed_event /\ k = 0
    BY <1>3
  <2>2. submitted_count = 0 /\ schedule_pending_count = 0
    BY <1>0, <2>1 DEF CompletedEventMeansIdle
  <2> QED BY <1>1, <1>2, <1>3, <2>1, <2>2
<1>7. ~RemembersPending => schedule_pending_count' = 0
  BY <1>0, <1>3 DEF RestartWindow
<1>8. RemembersPending => submitted_count' + schedule_pending_count'
                         = submitted_count + schedule_pending_count + num
  BY <1>1, <1>2, <1>3
<1> QED BY <1>3, <1>4, <1>5, <1>6, <1>7, <1>8 DEF k

-----------------------------------------------------------------------------
\* The steps of the application threads.

\* A call that touches neither the graph nor the queues of the targets keeps the
\* invariant if its own arguments are right; it may take the event.
LEMMA CallOnlyStep ==
  ASSUME SchedInv,
         UNCHANGED <<free_q, desc_state, executed, completing, graph_state,
                     submitted_count, schedule_pending_count, abandon_seen,
                     complete_leaf_nodes, host_q, host, requested, done,
                     last_abandoned>>,
         completed_event' \in BOOLEAN, completed_event' => completed_event,
         ready' \in Nat, app' \in [Apps -> AppStates], CallArguments'
  PROVE  SchedInv'
<1>1. TypeOK' /\ DescriptorsConserved' /\ RestartWindow'
  BY DEF SchedInv, TypeOK, DescriptorsConserved, RestartWindow
<1>2. Free' = Free /\ InFlight' = InFlight
  BY DEF Free, InFlight
<1>3. \A n, p : (Queued(n, p)' <=> Queued(n, p)) /\ (Checking(n, p)' <=> Checking(n, p))
  BY DEF Queued, Checking
<1>4. LeafCommands'
  BY <1>2, <1>3 DEF SchedInv, LeafCommands
<1>5. \A p : Reported(p)' = Reported(p)
  BY <1>3 DEF Reported
<1>6. LeafCounts'
  BY <1>2, <1>5 DEF SchedInv, LeafCounts
<1>7. NoLostSchedule' /\ CompletedEventMeansIdle' /\ PendingMeansFull'
      /\ RunningIffSubmitted'
  BY DEF SchedInv, NoLostSchedule, CompletedEventMeansIdle, PendingMeansFull,
         RunningIffSubmitted
<1> QED BY <1>1, <1>4, <1>6, <1>7 DEF SchedInv

\* A thread is in a call, or idle with the status of its last one.
LEMMA AppStateTypes ==
  /\ \A status \in {"NONE", "SUCCESS", "FAILURE", "NO_RESOURCES", "NOT_SUPPORTED",
                    "GRAPH_ABANDONED"} :
       IdleApp(status) \in AppStates /\ IdleApp(status).pc = "idle"
  /\ \A pc \in {"schedule", "enqueue", "wait"}, n, left \in Nat :
       /\ InCall(pc, n, left) \in AppStates
       /\ InCall(pc, n, left).pc = pc /\ InCall(pc, n, left).n = n
  BY DEF IdleApp, InCall, AppStates

LEMMA VxScheduleGraphStep ==
  ASSUME SchedInv, NEW a \in Apps, VxScheduleGraph(a)
  PROVE  SchedInv'
<1>1. TypeOK /\ CallArguments
  BY DEF SchedInv
<1>2. UNCHANGED <<sched_vars, complete_leaf_nodes, ready, host_q, host,
                  requested, done, last_abandoned>>
  BY DEF VxScheduleGraph, ScheduleCall
<1>3. PICK s \in AppStates :
         app' = [app EXCEPT ![a] = s] /\ (s.pc = "schedule" => s.n > 0) /\ s.pc # "wait"
  <2> DEFINE num_schedule == IF Mode = "NORMAL" THEN 1 ELSE ready
  <2>1. num_schedule \in Nat
    BY <1>1 DEF TypeOK
  <2>2. \/ app' = [app EXCEPT ![a] = InCall("schedule", num_schedule, 0)]
           /\ num_schedule > 0
        \/ app' = [app EXCEPT ![a] = IdleApp("SUCCESS")]
    BY DEF VxScheduleGraph, ScheduleCall
  <2> QED BY <2>1, <2>2, AppStateTypes
<1>4. app' \in [Apps -> AppStates] /\ CallArguments'
  BY <1>1, <1>2, <1>3 DEF TypeOK, CallArguments
<1> QED BY <1>1, <1>2, <1>4, CallOnlyStep DEF sched_vars, TypeOK

LEMMA VxEnqueueReadyRefStep ==
  ASSUME SchedInv, NEW a \in Apps, VxEnqueueReadyRef(a)
  PROVE  SchedInv'
<1>1. TypeOK /\ CallArguments
  BY DEF SchedInv
<1>2. UNCHANGED <<sched_vars, complete_leaf_nodes, ready, host_q, host,
                  requested, done, last_abandoned>>
  BY DEF VxEnqueueReadyRef
<1>3. PICK num_refs \in 1 .. MaxBatch :
         app' = [app EXCEPT ![a] = InCall("enqueue", 0, num_refs)]
  BY DEF VxEnqueueReadyRef
<1>4. /\ InCall("enqueue", 0, num_refs) \in AppStates
      /\ InCall("enqueue", 0, num_refs).pc = "enqueue"
  BY BoundAssumption, AppStateTypes
<1>5. app' \in [Apps -> AppStates] /\ CallArguments'
  BY <1>1, <1>2, <1>3, <1>4 DEF TypeOK, CallArguments
<1> QED BY <1>1, <1>2, <1>5, CallOnlyStep DEF sched_vars, TypeOK

LEMMA EnqueueRefStep ==
  ASSUME SchedInv, NEW a \in Apps, EnqueueRef(a)
  PROVE  SchedInv'
<1>1. TypeOK /\ CallArguments
  BY DEF SchedInv
<1>2. UNCHANGED <<sched_vars, complete_leaf_nodes, host_q, host,
                  requested, done, last_abandoned>>
  BY DEF EnqueueRef
<1>3. ready' \in Nat
  BY <1>1 DEF EnqueueRef, TypeOK
<1>4. PICK s \in AppStates :
         app' = [app EXCEPT ![a] = s] /\ (s.pc = "schedule" => s.n > 0) /\ s.pc # "wait"
  <2>1. app[a].n \in Nat /\ app[a].left \in Nat
    BY <1>1 DEF TypeOK, AppStates
  <2>2. \/ /\ app[a].left > 1
           /\ app' = [app EXCEPT ![a] = InCall("enqueue", app[a].n + 1, app[a].left - 1)]
        \/ app' = [app EXCEPT ![a] = InCall("schedule", app[a].n + 1, 0)]
        \/ app' = [app EXCEPT ![a] = IdleApp("SUCCESS")]
    BY DEF EnqueueRef
  <2>3. app[a].n + 1 \in Nat /\ app[a].n + 1 > 0
        /\ (app[a].left > 1 => app[a].left - 1 \in Nat)
    BY <2>1
  <2> QED BY <2>2, <2>3, AppStateTypes
<1>5. app' \in [Apps -> AppStates] /\ CallArguments'
  BY <1>1, <1>2, <1>4 DEF TypeOK, CallArguments
<1> QED BY <1>1, <1>2, <1>3, <1>5, CallOnlyStep DEF sched_vars, TypeOK

\* The calls that end, and vxWaitGraph.
LEMMA CallEndStep ==
  ASSUME SchedInv, NEW a \in Apps, EnqueueRefused(a) \/ WaitReturn(a)
  PROVE  SchedInv'
<1>1. TypeOK /\ CallArguments
  BY DEF SchedInv
<1>2. UNCHANGED <<sched_vars, complete_leaf_nodes, ready, host_q, host,
                  requested, done, last_abandoned>>
  BY DEF EnqueueRefused, WaitReturn
<1>3. PICK s \in AppStates : app' = [app EXCEPT ![a] = s] /\ s.pc = "idle"
  BY AppStateTypes DEF EnqueueRefused, WaitReturn
<1>4. app' \in [Apps -> AppStates] /\ CallArguments'
  BY <1>1, <1>2, <1>3 DEF TypeOK, CallArguments
<1> QED BY <1>1, <1>2, <1>4, CallOnlyStep DEF sched_vars, TypeOK

LEMMA VxWaitGraphStep ==
  ASSUME SchedInv, NEW a \in Apps, VxWaitGraph(a)
  PROVE  SchedInv'
<1>1. TypeOK /\ CallArguments
  BY DEF SchedInv
<1>2. UNCHANGED <<sched_vars, complete_leaf_nodes, ready, host_q, host,
                  requested, done, last_abandoned>>
  BY DEF VxWaitGraph
<1>3. \/ app' = [app EXCEPT ![a] = InCall("wait", requested, 0)]
      \/ app' = [app EXCEPT ![a] = IdleApp("NOT_SUPPORTED")]
  BY DEF VxWaitGraph
<1>4. PICK s \in AppStates :
         /\ app' = [app EXCEPT ![a] = s]
         /\ s.pc # "schedule" /\ (s.pc = "wait" => s.n = requested)
  BY <1>1, <1>3, AppStateTypes DEF TypeOK
<1>5. app' \in [Apps -> AppStates] /\ CallArguments'
  BY <1>1, <1>2, <1>4 DEF TypeOK, CallArguments
<1> QED BY <1>1, <1>2, <1>5, CallOnlyStep DEF sched_vars, TypeOK

LEMMA WaitEventStep ==
  ASSUME SchedInv, NEW a \in Apps, WaitEvent(a)
  PROVE  SchedInv'
<1>1. TypeOK /\ CallArguments
  BY DEF SchedInv
<1>2. UNCHANGED <<free_q, desc_state, executed, completing, graph_state,
                  submitted_count, schedule_pending_count, abandon_seen,
                  complete_leaf_nodes, ready, host_q, host, requested, done,
                  last_abandoned>>
      /\ completed_event' = FALSE
  BY DEF WaitEvent
<1>3. app' = [app EXCEPT ![a] = [app[a] EXCEPT !.pc = "waited"]]
  BY DEF WaitEvent
<1>4. [app[a] EXCEPT !.pc = "waited"] \in AppStates
  BY <1>1 DEF TypeOK, AppStates
<1>5. app' \in [Apps -> AppStates] /\ CallArguments'
  BY <1>1, <1>2, <1>3, <1>4 DEF TypeOK, CallArguments
<1> QED BY <1>1, <1>2, <1>5, CallOnlyStep DEF TypeOK

LEMMA AppScheduleStep ==
  ASSUME SchedInv, NEW a \in Apps, AppSchedule(a)
  PROVE  SchedInv'
<1>0. /\ TypeOK /\ DescriptorsConserved /\ RestartWindow /\ CallArguments
      /\ NoLostSchedule /\ CompletedEventMeansIdle
  BY DEF SchedInv
<1>1. PICK num \in Nat : num = app[a].n /\ num > 0 /\ OwnGraphScheduleGraph(num)
  BY <1>0 DEF AppSchedule, TypeOK, AppStates, CallArguments
<1>a. PICK k \in Nat : k = NumStarted(num) /\ k \in 0 .. Len(free_q)
  BY <1>0, NumStartedBounds, LenProperties DEF TypeOK
<1>2. UNCHANGED <<completing, complete_leaf_nodes, ready, host_q, host, done,
                  last_abandoned>>
      /\ requested' = requested + IF RemembersPending THEN num ELSE k
  BY <1>1, <1>a DEF AppSchedule
<1>3. Len(free_q) \in Nat
      /\ requested \in Nat /\ done \in Nat
      /\ submitted_count \in Nat /\ schedule_pending_count \in Nat
      /\ host.schedule_count \in Nat
  BY <1>0, LenProperties DEF TypeOK, HostStates
<1>4. PICK s \in AppStates : app' = [app EXCEPT ![a] = s] /\ s.pc = "idle"
  <2>1. app' = [app EXCEPT ![a] =
                  IdleApp(IF ~RemembersPending /\ k # num THEN "NO_RESOURCES"
                          ELSE "SUCCESS")]
    BY <1>1, <1>a DEF AppSchedule
  <2> QED BY <2>1, AppStateTypes
<1>5. /\ free_q' \in Seq(Pipes) /\ Len(free_q') = Len(free_q) - k
      /\ DescriptorsConserved'
  BY <1>0, <1>1, <1>a, ScheduleFreeQueue
<1>6. requested' \in Nat /\ requested' >= requested
  BY <1>2, <1>3
<1>7. TypeOK'
  BY <1>0, <1>1, <1>2, <1>4, <1>5, <1>6, ScheduleTypes DEF TypeOK
<1>8. LeafCommands' /\ LeafCounts'
  BY <1>1, <1>2, ScheduleLeaves
<1>9. RestartWindow'
  BY <1>0, <1>1, <1>2, <1>3, <1>5, ScheduleCounts DEF RestartWindow
<1>10. CallArguments'
  BY <1>0, <1>3, <1>4, <1>6 DEF CallArguments, TypeOK, AppStates
<1>11. NoLostSchedule'
  <2>1. CASE ~RemembersPending
    <3>1. /\ submitted_count' = submitted_count + k /\ schedule_pending_count' = 0
          /\ schedule_pending_count = 0
      BY <1>0, <1>1, <1>a, <2>1, ScheduleCounts DEF RestartWindow
    <3>2. requested' = requested + k /\ done' = done /\ host' = host
      BY <1>2, <2>1
    <3> QED BY <1>0, <1>3, <3>1, <3>2 DEF NoLostSchedule
  <2>2. CASE RemembersPending
    <3>1. submitted_count' + schedule_pending_count'
             = submitted_count + schedule_pending_count + num
      BY <1>1, <2>2, ScheduleCounts
    <3>2. submitted_count' \in Nat /\ schedule_pending_count' \in Nat
      BY <1>7 DEF TypeOK
    <3>3. requested' = requested + num /\ done' = done /\ host' = host
      BY <1>2, <2>2
    <3>4. requested = done + (submitted_count + schedule_pending_count)
                      + host.schedule_count
      BY <1>0, <1>3 DEF NoLostSchedule
    <3>5. requested' = done + (submitted_count + schedule_pending_count + num)
                       + host.schedule_count
      BY <1>3, <3>3, <3>4
    <3>6. requested' = done + (submitted_count' + schedule_pending_count')
                       + host.schedule_count
      BY <3>1, <3>5
    <3>7. requested' = done + submitted_count' + schedule_pending_count'
                       + host.schedule_count
      BY <1>3, <3>2, <3>6
    <3> QED BY <3>3, <3>7 DEF NoLostSchedule
  <2> QED BY <2>1, <2>2
<1>12. CompletedEventMeansIdle'
  <2> SUFFICES ASSUME completed_event'
               PROVE  /\ submitted_count' = 0 /\ schedule_pending_count' = 0
                      /\ host'.schedule_count = 0
    BY DEF CompletedEventMeansIdle
  <2>1. submitted_count' = 0 /\ schedule_pending_count' = 0
    BY <1>1, ScheduleCounts
  <2>2. completed_event
    BY <1>1 DEF OwnGraphScheduleGraph, EventAfterSchedule
  <2> QED BY <1>0, <1>2, <2>1, <2>2 DEF CompletedEventMeansIdle
<1> QED BY <1>1, <1>5, <1>7, <1>8, <1>9, <1>10, <1>11, <1>12, ScheduleCounts DEF SchedInv

-----------------------------------------------------------------------------
\* The steps of the host task.

LEMMA HostRescheduleStep ==
  ASSUME SchedInv, HostReschedule
  PROVE  SchedInv'
<1> DEFINE num == host.schedule_count
<1>0. /\ TypeOK /\ DescriptorsConserved /\ RestartWindow /\ CallArguments
      /\ NoLostSchedule
  BY DEF SchedInv
<1>1. num \in Nat /\ OwnGraphScheduleGraph(num) /\ host.pc = "reschedule"
  BY <1>0 DEF HostReschedule, TypeOK, HostStates
<1>2. /\ UNCHANGED <<completing, complete_leaf_nodes, ready, host_q, app, requested,
                     done, last_abandoned>>
      /\ host' = [host EXCEPT !.pc = "action", !.schedule_count = 0]
  BY DEF HostReschedule
<1>3. host' \in HostStates /\ host'.pc = "action" /\ host'.schedule_count = 0
  BY <1>0, <1>2 DEF TypeOK, HostStates
<1> HIDE DEF num
<1>4. free_q' \in Seq(Pipes) /\ DescriptorsConserved'
  BY <1>0, <1>1, ScheduleFreeQueue
<1>5. TypeOK'
  BY <1>0, <1>1, <1>2, <1>3, <1>4, ScheduleTypes DEF TypeOK
<1>6. LeafCommands' /\ LeafCounts'
  BY <1>1, <1>2, <1>3, ScheduleLeaves
<1>7. RemembersPending /\ RestartWindow' /\ CallArguments'
  BY <1>0, <1>1, <1>2, <1>3 DEF RestartWindow, CallArguments
<1>8. NoLostSchedule'
  <2>1. submitted_count' + schedule_pending_count'
           = submitted_count + schedule_pending_count + num
    BY <1>1, <1>7, ScheduleCounts
  <2>2. /\ submitted_count' \in Nat /\ schedule_pending_count' \in Nat
        /\ submitted_count \in Nat /\ schedule_pending_count \in Nat
        /\ requested \in Nat /\ done \in Nat
    BY <1>0, <1>5 DEF TypeOK
  <2> QED BY <1>0, <1>1, <1>2, <1>3, <2>1, <2>2 DEF NoLostSchedule, num
<1>9. CompletedEventMeansIdle'
  BY <1>1, <1>3, ScheduleCounts DEF CompletedEventMeansIdle
<1> QED BY <1>1, <1>4, <1>5, <1>6, <1>7, <1>8, <1>9, ScheduleCounts DEF SchedInv

LEMMA HostActionStep ==
  ASSUME SchedInv, HostAction
  PROVE  SchedInv'
<1>0. SchedInv /\ TypeOK /\ LeafCommands /\ LeafCounts /\ RestartWindow
  BY DEF SchedInv
<1>1. /\ UNCHANGED <<free_q, executed, completing, graph_state, submitted_count,
                     schedule_pending_count, completed_event, abandon_seen,
                     complete_leaf_nodes, ready, host_q, app, requested, done,
                     last_abandoned>>
      /\ host.pc = "action" /\ host' = IdleHost
  BY DEF HostAction
<1>2. desc_state' \in [Pipes -> GraphStates]
  BY <1>0 DEF HostAction, TypeOK, GraphStates
<1>3. /\ host' \in HostStates /\ host'.pc = "idle" /\ host'.schedule_count = 0
      /\ host.schedule_count = 0
  <2>1. 0 \in Pipes
    BY DepthAssumption DEF Pipes
  <2> QED BY <1>0, <1>1, <2>1, NodesAssumption DEF IdleHost, HostStates, RestartWindow
<1>4. TypeOK'
  BY <1>0, <1>1, <1>2, <1>3 DEF TypeOK
<1>5. Free' = Free /\ InFlight' = InFlight
  BY <1>1 DEF Free, InFlight
<1>6. \A n, p : (Queued(n, p)' <=> Queued(n, p)) /\ ~Checking(n, p) /\ ~Checking(n, p)'
  BY <1>1, <1>3 DEF Queued, Checking
<1>7. LeafCommands'
  BY <1>0, <1>1, <1>3, <1>5, <1>6 DEF LeafCommands
<1>8. \A p : Reported(p)' = Reported(p)
  BY <1>1, <1>6 DEF Reported
<1>9. LeafCounts'
  BY <1>0, <1>1, <1>5, <1>8 DEF LeafCounts
<1>10. /\ DescriptorsConserved' /\ RestartWindow' /\ CallArguments'
       /\ NoLostSchedule' /\ CompletedEventMeansIdle' /\ PendingMeansFull'
       /\ RunningIffSubmitted'
  BY <1>1, <1>3 DEF SchedInv, DescriptorsConserved, RestartWindow, CallArguments,
     NoLostSchedule, CompletedEventMeansIdle, PendingMeansFull, RunningIffSubmitted
<1> QED BY <1>4, <1>7, <1>9, <1>10 DEF SchedInv

LEMMA LeafCompletedStep ==
  ASSUME SchedInv, LeafCompleted
  PROVE  SchedInv'
<1>0. TypeOK /\ LeafCommands /\ LeafCounts /\ RestartWindow
  BY DEF SchedInv
<1>a. PICK p \in Pipes, n \in Nodes : p = host.pipe /\ n = host.node
  BY <1>0 DEF TypeOK, HostStates
<1>1. /\ host.pc = "check" /\ ~IsLastLeaf(p)
      /\ complete_leaf_nodes' = [complete_leaf_nodes EXCEPT ![p] = LeafNodesAfter(p)]
      /\ host' = [host EXCEPT !.pc = "action"]
      /\ UNCHANGED <<sched_vars, ready, host_q, app, requested, done, last_abandoned>>
  BY <1>a DEF LeafCompleted
<1>2. /\ n \in Leaves /\ Checking(n, p) /\ p \in InFlight
      /\ n \in executed[p] /\ ~Queued(n, p) /\ <<n, p>> \notin completing
  BY <1>0, <1>1, <1>a DEF LeafCommands, Checking
<1>3. /\ host' \in HostStates /\ host'.pc = "action"
      /\ host'.schedule_count = host.schedule_count
  BY <1>0, <1>1 DEF TypeOK, HostStates
<1>4. complete_leaf_nodes[p] \in Nat /\ LeafNodesAfter(p) = complete_leaf_nodes[p] + 1
  BY <1>0, <1>1, <1>2 DEF TypeOK, LeafNodesAfter
<1>5. TypeOK'
  BY <1>0, <1>1, <1>2, <1>3, <1>4 DEF TypeOK, sched_vars
<1>6. Free' = Free /\ InFlight' = InFlight
  BY <1>1 DEF Free, InFlight, sched_vars
<1>7. /\ \A m, q : (Queued(m, q)' <=> Queued(m, q)) /\ ~Checking(m, q)'
      /\ \A m, q : Checking(m, q) <=> (m = n /\ q = p)
  BY <1>1, <1>3, <1>a DEF Queued, Checking, sched_vars
<1>8. LeafCommands'
  BY <1>0, <1>1, <1>3, <1>6, <1>7 DEF LeafCommands, sched_vars
<1>9. LeafCounts'
  <2> SUFFICES ASSUME NEW q \in Pipes
               PROVE  complete_leaf_nodes'[q] = IF q \in InFlight
                                                THEN Cardinality(Reported(q)') ELSE 0
    BY <1>6 DEF LeafCounts
  <2>1. CASE q = p
    <3>1. Reported(p)' = Reported(p) \cup {n} /\ n \notin Reported(p)
      <4>1. executed' = executed /\ completing' = completing
        BY <1>1 DEF sched_vars
      <4>2. \A m \in Leaves : m \in Reported(p)'
                <=> m \in executed[p] /\ <<m, p>> \notin completing /\ ~Queued(m, p)
        BY <1>7, <4>1 DEF Reported
      <4>3. \A m \in Leaves : m \in Reported(p)
                <=> /\ m \in executed[p] /\ <<m, p>> \notin completing
                    /\ ~Queued(m, p) /\ m # n
        BY <1>7 DEF Reported
      <4>4. Reported(p)' \subseteq Leaves /\ Reported(p) \subseteq Leaves
        BY DEF Reported
      <4> QED BY <1>2, <4>2, <4>3, <4>4
    <3>2. Reported(p) \subseteq Leaves
      BY DEF Reported
    <3>3. Cardinality(Reported(p)') = Cardinality(Reported(p)) + 1
      BY <3>1, <3>2, LeavesFinite, FS_AddElement
    <3>4. complete_leaf_nodes'[p] = complete_leaf_nodes[p] + 1
      BY <1>0, <1>1, <1>2, <1>4 DEF TypeOK
    <3>5. complete_leaf_nodes[p] = Cardinality(Reported(p))
      BY <1>0, <1>2 DEF LeafCounts
    <3>6. complete_leaf_nodes'[p] = Cardinality(Reported(p)')
      BY <3>3, <3>4, <3>5
    <3> QED BY <1>2, <2>1, <3>6
  <2>2. CASE q # p
    <3>1. Reported(q)' = Reported(q)
      BY <1>1, <1>7, <2>2 DEF Reported, sched_vars
    <3>2. complete_leaf_nodes'[q] = complete_leaf_nodes[q]
      BY <1>0, <1>1, <2>2 DEF TypeOK
    <3> QED BY <1>0, <3>1, <3>2 DEF LeafCounts
  <2> QED BY <2>1, <2>2
<1>10. /\ DescriptorsConserved' /\ RestartWindow' /\ CallArguments'
       /\ NoLostSchedule' /\ CompletedEventMeansIdle' /\ PendingMeansFull'
       /\ RunningIffSubmitted'
  BY <1>1, <1>3 DEF SchedInv, DescriptorsConserved, RestartWindow, CallArguments,
     NoLostSchedule, CompletedEventMeansIdle, PendingMeansFull, RunningIffSubmitted,
     sched_vars
<1> QED BY <1>5, <1>8, <1>9, <1>10 DEF SchedInv

\* The last leaf node: every leaf node has reported, so no command of the
\* execution is left when its descriptor goes back to the free queue.
LEMMA LastLeafReported ==
  ASSUME SchedInv, host.pc = "check", IsLastLeaf(host.pipe)
  PROVE  /\ host.pipe \in InFlight /\ host.node \in Leaves
         /\ \A n \in Leaves : /\ n \in executed[host.pipe] /\ ~Queued(n, host.pipe)
                               /\ <<n, host.pipe>> \notin completing
<1> DEFINE p == host.pipe
           m == host.node
<1>0. TypeOK /\ LeafCommands /\ LeafCounts
  BY DEF SchedInv
<1>1. /\ p \in Pipes /\ m \in Leaves /\ Checking(m, p) /\ p \in InFlight
      /\ m \in executed[p] /\ ~Queued(m, p) /\ <<m, p>> \notin completing
  BY <1>0 DEF TypeOK, HostStates, LeafCommands, Checking
<1> HIDE DEF p, m
<1>2. Reported(p) \subseteq Leaves /\ m \notin Reported(p)
  BY <1>1 DEF Reported
<1>3. Cardinality(Reported(p)) + 1 = Cardinality(Leaves)
  BY <1>0, <1>1 DEF LeafCounts, IsLastLeaf, p
<1>4. Cardinality(Reported(p) \cup {m}) = Cardinality(Leaves)
  BY <1>2, <1>3, LeavesFinite, FS_AddElement
<1>5. Reported(p) \cup {m} = Leaves
  BY <1>1, <1>2, <1>4, LeavesFinite, FS_Subset
<1>6. \A n \in Leaves : n \in executed[p] /\ ~Queued(n, p) /\ <<n, p>> \notin completing
  BY <1>1, <1>5 DEF Reported
<1> QED BY <1>1, <1>6 DEF p, m

LEMMA GraphCompletedStep ==
  ASSUME SchedInv, GraphCompleted
  PROVE  SchedInv'
<1>0. /\ TypeOK /\ DescriptorsConserved /\ LeafCommands /\ LeafCounts /\ RestartWindow
      /\ NoLostSchedule /\ CompletedEventMeansIdle /\ PendingMeansFull
      /\ RunningIffSubmitted /\ CallArguments
  BY DEF SchedInv
<1>a. PICK p \in Pipes : p = host.pipe
  BY <1>0 DEF TypeOK, HostStates
<1>1. /\ host.pc = "check" /\ IsLastLeaf(p)
      /\ complete_leaf_nodes' = [complete_leaf_nodes EXCEPT ![p] = 0]
      /\ submitted_count' = submitted_count - 1
      /\ desc_state' = [desc_state EXCEPT ![p] = EndState(p)]
      /\ graph_state' = IF submitted_count = 1 THEN EndState(p) ELSE graph_state
      /\ free_q' = Append(free_q, p)
      /\ schedule_pending_count' = 0
      /\ completed_event' = (completed_event \/ AllCompleted)
      /\ done' = done + 1
      /\ last_abandoned' = IF submitted_count = 1 THEN abandon_seen[p] ELSE last_abandoned
      /\ UNCHANGED <<executed, completing, abandon_seen, ready, host_q, app, requested>>
  BY <1>a DEF GraphCompleted, LeafNodesAfter, FreeQueueWith, StateAfterCompletion
<1>2. /\ p \in InFlight /\ p \notin Free
      /\ \A n \in Leaves : ~Queued(n, p) /\ <<n, p>> \notin completing
  BY <1>a, <1>1, LastLeafReported DEF InFlight
<1>3. /\ submitted_count \in Nat /\ submitted_count > 0
      /\ schedule_pending_count \in Nat /\ done \in Nat /\ requested \in Nat
      /\ free_q \in Seq(Pipes) /\ Len(free_q) \in Nat
  BY <1>0, <1>2, InFlightSubmitted, LenProperties DEF TypeOK
<1>4. /\ host' \in HostStates /\ host'.schedule_count = schedule_pending_count
      /\ host'.pc = IF schedule_pending_count > 0 THEN "reschedule" ELSE "action"
  BY <1>0 DEF GraphCompleted, TypeOK, HostStates
<1>5. host.schedule_count = 0
  BY <1>0, <1>1 DEF RestartWindow
<1>6. EndState(p) \in GraphStates \ {"RUNNING"}
  BY <1>0 DEF EndState, TypeOK, GraphStates
<1>7. /\ free_q' \in Seq(Pipes) /\ Len(free_q') = Len(free_q) + 1
      /\ \A i \in 1 .. Len(free_q) : free_q'[i] = free_q[i]
      /\ free_q'[Len(free_q) + 1] = p
  BY <1>1, <1>3, AppendProperties
<1>8. TypeOK'
  <2>1. /\ desc_state' \in [Pipes -> GraphStates] /\ graph_state' \in GraphStates
        /\ complete_leaf_nodes' \in [Pipes -> Nat]
    BY <1>0, <1>1, <1>6 DEF TypeOK
  <2>2. submitted_count' \in Nat /\ schedule_pending_count' \in Nat /\ done' \in Nat
    BY <1>1, <1>3
  <2>3. completed_event' \in BOOLEAN /\ last_abandoned' \in BOOLEAN
    BY <1>0, <1>1 DEF TypeOK, AllCompleted
  <2> QED BY <1>0, <1>1, <1>4, <1>7, <2>1, <2>2, <2>3 DEF TypeOK
<1>9. DescriptorsConserved'
  <2>1. \A i \in 1 .. Len(free_q) : free_q[i] # p
    BY <1>2 DEF Free
  <2>2. \A i, j \in 1 .. Len(free_q) : free_q[i] = free_q[j] => i = j
    BY <1>0 DEF DescriptorsConserved
  <2>3. \A i \in 1 .. Len(free_q) + 1 : i \in 1 .. Len(free_q) \/ i = Len(free_q) + 1
    BY <1>3
  <2>4. \A i, j \in 1 .. Len(free_q) + 1 : free_q'[i] = free_q'[j] => i = j
    BY <1>7, <2>1, <2>2, <2>3
  <2>5. submitted_count' + (Len(free_q) + 1) = Depth
    <3>1. submitted_count + Len(free_q) = Depth
      BY <1>0 DEF DescriptorsConserved
    <3>2. submitted_count' = submitted_count - 1
      BY <1>1
    <3> QED BY <1>3, <3>1, <3>2
  <2> QED BY <1>7, <2>4, <2>5 DEF DescriptorsConserved
<1>10. Free' = Free \cup {p}
  <2>1. 1 .. Len(free_q) + 1 = (1 .. Len(free_q)) \cup {Len(free_q) + 1}
    BY <1>3
  <2> QED BY <1>7, <2>1 DEF Free
<1>11. /\ \A n, q : Queued(n, q)' <=> Queued(n, q)
       /\ \A n, q : ~Checking(n, q)'
       /\ \A n, q : Checking(n, q) => q = p
  BY <1>1, <1>4, <1>a DEF Queued, Checking
<1>12. LeafCommands'
  <2>1. ASSUME NEW n \in Leaves, NEW q \in Pipes, <<n, q>> \in completing \/ Queued(n, q)
        PROVE  q \in InFlight' /\ n \in executed'[q]
    <3>1. q # p
      BY <1>2, <2>1
    <3> QED BY <1>0, <1>1, <1>10, <2>1, <3>1 DEF LeafCommands, InFlight
  <2>2. \A n \in Leaves, q \in Pipes : <<n, q>> \in completing => ~Queued(n, q)
    BY <1>0 DEF LeafCommands
  <2>3. \A i, j \in 1 .. Len(host_q') :
          host_q'[i] = host_q'[j] /\ host_q'[i][1] \in Leaves => i = j
    BY <1>0, <1>1 DEF LeafCommands
  <2> QED BY <1>1, <1>4, <1>11, <2>1, <2>2, <2>3 DEF LeafCommands
<1>13. LeafCounts'
  <2> SUFFICES ASSUME NEW q \in Pipes
               PROVE  complete_leaf_nodes'[q] = IF q \in InFlight'
                                                THEN Cardinality(Reported(q)') ELSE 0
    BY DEF LeafCounts
  <2>1. CASE q = p
    BY <1>0, <1>1, <1>10, <2>1 DEF TypeOK, InFlight
  <2>2. CASE q # p
    <3>1. Reported(q)' = Reported(q)
      BY <1>1, <1>11, <2>2 DEF Reported
    <3>2. complete_leaf_nodes'[q] = complete_leaf_nodes[q]
      BY <1>0, <1>1, <2>2 DEF TypeOK
    <3> QED BY <1>0, <1>10, <2>2, <3>1, <3>2 DEF LeafCounts, InFlight
  <2> QED BY <2>1, <2>2
<1>14. RestartWindow'
  <2>1. host'.pc = "reschedule" => Len(free_q') <= 1
    <3> SUFFICES ASSUME schedule_pending_count > 0 PROVE Len(free_q) = 0
      BY <1>3, <1>4, <1>7
    <3> QED BY <1>0, <1>3, DepthAssumption DEF PendingMeansFull, DescriptorsConserved
  <2>2. host'.pc # "reschedule" => host'.schedule_count = 0
    BY <1>3, <1>4
  <2>3. ~RemembersPending => schedule_pending_count' = 0 /\ host'.pc # "reschedule"
    BY <1>0, <1>1, <1>4 DEF RestartWindow
  <2> QED BY <2>1, <2>2, <2>3 DEF RestartWindow
<1>15. CallArguments'
  BY <1>0, <1>1 DEF CallArguments
<1>16. NoLostSchedule'
  <2>1. requested = done + submitted_count + schedule_pending_count
    BY <1>0, <1>3, <1>5 DEF NoLostSchedule
  <2>2. requested' = done' + submitted_count' + schedule_pending_count'
                     + schedule_pending_count
    BY <1>1, <1>3, <2>1
  <2> QED BY <1>4, <2>2 DEF NoLostSchedule
<1>17. CompletedEventMeansIdle'
  <2> SUFFICES ASSUME completed_event'
               PROVE  submitted_count' = 0 /\ schedule_pending_count' = 0
                      /\ host'.schedule_count = 0
    BY DEF CompletedEventMeansIdle
  <2>1. ~completed_event
    BY <1>0, <1>3 DEF CompletedEventMeansIdle
  <2>2. AllCompleted
    BY <1>1, <2>1
  <2> QED BY <1>1, <1>3, <1>4, <2>2 DEF AllCompleted
<1>18. PendingMeansFull'
  BY <1>1 DEF PendingMeansFull
<1>19. RunningIffSubmitted'
  BY <1>0, <1>1, <1>3, <1>6 DEF RunningIffSubmitted
<1> QED BY <1>8, <1>9, <1>12, <1>13, <1>14, <1>15, <1>16, <1>17, <1>18, <1>19 DEF SchedInv

LEMMA HostTakeStep ==
  ASSUME SchedInv, HostTake
  PROVE  SchedInv'
<1>0. TypeOK /\ LeafCommands /\ LeafCounts /\ RestartWindow
  BY DEF SchedInv
<1>1. host_q \in Seq(Nodes \X Pipes) /\ host_q # <<>> /\ host.pc = "idle"
  BY <1>0 DEF TypeOK, HostTake
<1>2. /\ Head(host_q) \in Nodes \X Pipes /\ host_q' = Tail(host_q)
      /\ host_q' \in Seq(Nodes \X Pipes)
      /\ Len(host_q) \in Nat /\ Len(host_q') = Len(host_q) - 1 /\ Len(host_q) > 0
      /\ \A i \in 1 .. Len(host_q') : host_q'[i] = host_q[i + 1]
      /\ Head(host_q) = host_q[1]
  <2>1. host_q' = Tail(host_q)
    BY DEF HostTake
  <2>2. Len(host_q) \in Nat \ {0}
    BY <1>1, EmptySeq
  <2> QED BY <1>1, <2>1, <2>2, HeadTailProperties
<1>3. PICK n \in Nodes, p \in Pipes : host_q[1] = <<n, p>>
  BY <1>2
<1>4. PICK abandon \in BOOLEAN :
        /\ host' = [pc |-> IF n \in Leaves THEN "check" ELSE "action",
                    node |-> n, pipe |-> p, abandon |-> abandon, schedule_count |-> 0]
        /\ abandon_seen' = [abandon_seen EXCEPT ![p] = abandon_seen[p] \/ abandon]
  <2>1. Head(host_q)[1] = n /\ Head(host_q)[2] = p
    BY <1>2, <1>3
  <2>2. \E abandon \in {FALSE} \cup {n \in Abandoners} :
          /\ host' = [pc |-> IF n \in Leaves THEN "check" ELSE "action",
                      node |-> n, pipe |-> p, abandon |-> abandon, schedule_count |-> 0]
          /\ abandon_seen' = [abandon_seen EXCEPT ![p] = abandon_seen[p] \/ abandon]
    BY <2>1 DEF HostTake
  <2> QED BY <2>2
<1>5. UNCHANGED <<free_q, desc_state, executed, completing, graph_state,
                  submitted_count, schedule_pending_count, completed_event,
                  complete_leaf_nodes, ready, app, requested, done, last_abandoned>>
  BY DEF HostTake
<1>6. /\ host' \in HostStates /\ host'.node = n /\ host'.pipe = p
      /\ host'.pc = (IF n \in Leaves THEN "check" ELSE "action")
      /\ host'.schedule_count = 0 /\ host.schedule_count = 0
  BY <1>0, <1>1, <1>4 DEF HostStates, RestartWindow
<1>7. TypeOK'
  <2>1. abandon_seen' \in [Pipes -> BOOLEAN]
    BY <1>0, <1>4 DEF TypeOK
  <2> QED BY <1>0, <1>2, <1>5, <1>6, <2>1 DEF TypeOK
<1>8. Free' = Free /\ InFlight' = InFlight
  BY <1>5 DEF Free, InFlight
<1>9. /\ \A i \in 1 .. Len(host_q) : i = 1 \/ i - 1 \in 1 .. Len(host_q')
      /\ \A i \in 1 .. Len(host_q') : i + 1 \in 1 .. Len(host_q) /\ i + 1 # 1
  BY <1>2
<1>10. \A m, q : Queued(m, q) <=> Queued(m, q)' \/ (m = n /\ q = p)
  <2>1. ASSUME NEW m, NEW q, Queued(m, q)
        PROVE  Queued(m, q)' \/ (m = n /\ q = p)
    <3>1. PICK i \in 1 .. Len(host_q) : host_q[i] = <<m, q>>
      BY <2>1 DEF Queued
    <3>2. CASE i = 1
      BY <1>3, <3>1, <3>2
    <3>3. CASE i # 1
      <4>1. i - 1 \in 1 .. Len(host_q') /\ host_q'[i - 1] = host_q[i]
        BY <1>2, <1>9, <3>3
      <4> QED BY <3>1, <4>1 DEF Queued
    <3> QED BY <3>2, <3>3
  <2>2. ASSUME NEW m, NEW q, Queued(m, q)'
        PROVE  Queued(m, q)
    BY <1>2, <1>9, <2>2 DEF Queued
  <2>3. Queued(n, p)
    BY <1>2, <1>3 DEF Queued
  <2> QED BY <2>1, <2>2, <2>3
<1>11. n \in Leaves => ~Queued(n, p)'
  <2> SUFFICES ASSUME n \in Leaves, NEW i \in 1 .. Len(host_q'), host_q'[i] = <<n, p>>
               PROVE  FALSE
    BY DEF Queued
  <2>1. host_q[i + 1] = host_q[1] /\ host_q[1][1] \in Leaves
        /\ i + 1 \in 1 .. Len(host_q) /\ 1 \in 1 .. Len(host_q) /\ i + 1 # 1
    BY <1>2, <1>3, <1>9
  <2> QED BY <1>0, <2>1 DEF LeafCommands
<1>12. /\ \A m, q : ~Checking(m, q)
       /\ \A m, q : Checking(m, q)' <=> n \in Leaves /\ m = n /\ q = p
  BY <1>1, <1>6 DEF Checking
<1>13. LeafCommands'
  <2>1. \A m \in Leaves, q \in Pipes :
          <<m, q>> \in completing' \/ Queued(m, q)' \/ Checking(m, q)'
            => q \in InFlight' /\ m \in executed'[q]
    BY <1>0, <1>5, <1>8, <1>10, <1>12 DEF LeafCommands
  <2>2. \A m \in Leaves, q \in Pipes :
          /\ ~(Queued(m, q)' /\ Checking(m, q)')
          /\ <<m, q>> \in completing' => ~Queued(m, q)' /\ ~Checking(m, q)'
    BY <1>0, <1>5, <1>10, <1>11, <1>12 DEF LeafCommands
  <2>3. ASSUME NEW i \in 1 .. Len(host_q'), NEW j \in 1 .. Len(host_q'),
               host_q'[i] = host_q'[j], host_q'[i][1] \in Leaves
        PROVE  i = j
    <3>1. i + 1 = j + 1
      BY <1>0, <1>2, <1>9, <2>3 DEF LeafCommands
    <3> QED BY <1>2, <3>1
  <2>4. host'.pc = "check" => host'.node \in Leaves
    BY <1>6
  <2> QED BY <2>1, <2>2, <2>3, <2>4 DEF LeafCommands
<1>14. LeafCounts'
  <2>1. ASSUME NEW q \in Pipes
        PROVE  Reported(q)' = Reported(q)
    BY <1>5, <1>10, <1>11, <1>12 DEF Reported
  <2> QED BY <1>0, <1>5, <1>8, <2>1 DEF LeafCounts
<1>15. RestartWindow'
  BY <1>0, <1>5, <1>6 DEF RestartWindow
<1>16. /\ DescriptorsConserved' /\ CallArguments' /\ NoLostSchedule'
       /\ CompletedEventMeansIdle' /\ PendingMeansFull' /\ RunningIffSubmitted'
  BY <1>5, <1>6 DEF SchedInv, DescriptorsConserved, CallArguments, NoLostSchedule,
     CompletedEventMeansIdle, PendingMeansFull, RunningIffSubmitted
<1> QED BY <1>7, <1>13, <1>14, <1>15, <1>16 DEF SchedInv

-----------------------------------------------------------------------------
\* The steps of the targets.

LEMMA NodeExecuteStep ==
  ASSUME SchedInv, NEW n \in Nodes, NEW p \in Pipes, NodeExecute(n, p)
  PROVE  SchedInv'
<1>0. TypeOK /\ LeafCommands /\ LeafCounts
  BY DEF SchedInv
<1>1. /\ p \in InFlight /\ n \notin executed[p]
      /\ executed' = [executed EXCEPT ![p] = executed[p] \cup {n}]
      /\ completing' = IF n \in Callbacks \cup Leaves
                       THEN completing \cup {<<n, p>>} ELSE completing
      /\ UNCHANGED <<free_q, desc_state, graph_state, submitted_count,
                     schedule_pending_count, completed_event, abandon_seen,
                     complete_leaf_nodes, host_q, host, app, requested, done,
                     last_abandoned>>
  BY DEF NodeExecute
<1>2. ready' \in Nat
  BY <1>0 DEF NodeExecute, TypeOK
<1>3. executed' \in [Pipes -> SUBSET Nodes] /\ completing' \subseteq Nodes \X Pipes
  BY <1>0, <1>1 DEF TypeOK
<1>4. TypeOK'
  BY <1>0, <1>1, <1>2, <1>3 DEF TypeOK
<1>5. Free' = Free /\ InFlight' = InFlight
  BY <1>1 DEF Free, InFlight
<1>6. \A m, q : (Queued(m, q)' <=> Queued(m, q)) /\ (Checking(m, q)' <=> Checking(m, q))
  BY <1>1 DEF Queued, Checking
<1>7. n \in Leaves => ~Queued(n, p) /\ ~Checking(n, p)
  BY <1>0, <1>1 DEF LeafCommands
<1>8. \A m \in Leaves, q \in Pipes :
        /\ m \in executed'[q] <=> m \in executed[q] \/ (m = n /\ q = p)
        /\ <<m, q>> \in completing' <=> <<m, q>> \in completing \/ (m = n /\ q = p)
  BY <1>0, <1>1 DEF TypeOK
<1>9. LeafCommands'
  <2>1. ASSUME NEW m \in Leaves, NEW q \in Pipes,
               <<m, q>> \in completing' \/ Queued(m, q)' \/ Checking(m, q)'
        PROVE  q \in InFlight' /\ m \in executed'[q]
    BY <1>0, <1>1, <1>5, <1>6, <1>8, <2>1 DEF LeafCommands
  <2>2. \A m \in Leaves, q \in Pipes :
          /\ ~(Queued(m, q)' /\ Checking(m, q)')
          /\ <<m, q>> \in completing' => ~Queued(m, q)' /\ ~Checking(m, q)'
    BY <1>0, <1>6, <1>7, <1>8 DEF LeafCommands
  <2>3. \A i, j \in 1 .. Len(host_q') :
          host_q'[i] = host_q'[j] /\ host_q'[i][1] \in Leaves => i = j
    BY <1>0, <1>1 DEF LeafCommands
  <2>4. host'.pc = "check" => host'.node \in Leaves
    BY <1>0, <1>1 DEF LeafCommands
  <2> QED BY <2>1, <2>2, <2>3, <2>4 DEF LeafCommands
<1>10. LeafCounts'
  <2>1. ASSUME NEW q \in Pipes
        PROVE  Reported(q)' = Reported(q)
    <3>1. \A m \in Leaves : m \in Reported(q)' <=> m \in Reported(q)
      BY <1>1, <1>6, <1>8 DEF Reported
    <3>2. Reported(q)' \subseteq Leaves /\ Reported(q) \subseteq Leaves
      BY DEF Reported
    <3> QED BY <3>1, <3>2
  <2> QED BY <1>0, <1>1, <1>5, <2>1 DEF LeafCounts
<1>11. /\ DescriptorsConserved' /\ RestartWindow' /\ CallArguments'
       /\ NoLostSchedule' /\ CompletedEventMeansIdle' /\ PendingMeansFull'
       /\ RunningIffSubmitted'
  BY <1>1 DEF SchedInv, DescriptorsConserved, RestartWindow, CallArguments,
     NoLostSchedule, CompletedEventMeansIdle, PendingMeansFull, RunningIffSubmitted
<1> QED BY <1>4, <1>9, <1>10, <1>11 DEF SchedInv

LEMMA NodeCompleteStep ==
  ASSUME SchedInv, NEW n \in Nodes, NEW p \in Pipes, NodeComplete(n, p)
  PROVE  SchedInv'
<1>0. TypeOK /\ LeafCommands /\ LeafCounts
  BY DEF SchedInv
<1>1. /\ <<n, p>> \in completing /\ completing' = completing \ {<<n, p>>}
      /\ host_q' = Append(host_q, <<n, p>>)
      /\ UNCHANGED <<free_q, desc_state, executed, graph_state, submitted_count,
                     schedule_pending_count, completed_event, abandon_seen,
                     complete_leaf_nodes, ready, host, app, requested, done,
                     last_abandoned>>
  BY DEF NodeComplete
<1>2. host_q \in Seq(Nodes \X Pipes) /\ Len(host_q) \in Nat
  BY <1>0, LenProperties DEF TypeOK
<1>3. /\ host_q' \in Seq(Nodes \X Pipes) /\ Len(host_q') = Len(host_q) + 1
      /\ \A i \in 1 .. Len(host_q) : host_q'[i] = host_q[i]
      /\ host_q'[Len(host_q) + 1] = <<n, p>>
  BY <1>1, <1>2, AppendProperties
<1>4. TypeOK'
  BY <1>0, <1>1, <1>3 DEF TypeOK
<1>5. Free' = Free /\ InFlight' = InFlight
  BY <1>1 DEF Free, InFlight
<1>6. /\ \A i \in 1 .. Len(host_q) : i \in 1 .. Len(host_q) + 1
      /\ Len(host_q) + 1 \in 1 .. Len(host_q) + 1
      /\ \A i \in 1 .. Len(host_q) + 1 : i \in 1 .. Len(host_q) \/ i = Len(host_q) + 1
  BY <1>2
<1>7. \A m, q : Queued(m, q)' <=> Queued(m, q) \/ (m = n /\ q = p)
  <2>1. ASSUME NEW m, NEW q, Queued(m, q)'
        PROVE  Queued(m, q) \/ (m = n /\ q = p)
    <3>1. PICK i \in 1 .. Len(host_q) + 1 : host_q'[i] = <<m, q>>
      BY <1>3, <2>1 DEF Queued
    <3>2. CASE i \in 1 .. Len(host_q)
      BY <1>3, <3>1, <3>2 DEF Queued
    <3>3. CASE i = Len(host_q) + 1
      BY <1>3, <3>1, <3>3
    <3> QED BY <1>6, <3>2, <3>3
  <2>2. ASSUME NEW m, NEW q, Queued(m, q)
        PROVE  Queued(m, q)'
    BY <1>3, <1>6, <2>2 DEF Queued
  <2>3. Queued(n, p)'
    BY <1>3, <1>6 DEF Queued
  <2> QED BY <2>1, <2>2, <2>3
<1>8. \A m, q : Checking(m, q)' <=> Checking(m, q)
  BY <1>1 DEF Checking
<1>9. n \in Leaves => ~Queued(n, p) /\ ~Checking(n, p)
  BY <1>0, <1>1 DEF LeafCommands
<1>10. \A m, q : <<m, q>> \in completing' <=> <<m, q>> \in completing /\ ~(m = n /\ q = p)
  BY <1>1
<1>11. LeafCommands'
  <2>1. ASSUME NEW m \in Leaves, NEW q \in Pipes,
               <<m, q>> \in completing' \/ Queued(m, q)' \/ Checking(m, q)'
        PROVE  q \in InFlight' /\ m \in executed'[q]
    <3>1. <<m, q>> \in completing \/ Queued(m, q) \/ Checking(m, q)
      BY <1>1, <1>7, <1>8, <1>10, <2>1
    <3> QED BY <1>0, <1>1, <1>5, <3>1 DEF LeafCommands
  <2>2. \A m \in Leaves, q \in Pipes :
          /\ ~(Queued(m, q)' /\ Checking(m, q)')
          /\ <<m, q>> \in completing' => ~Queued(m, q)' /\ ~Checking(m, q)'
    BY <1>0, <1>7, <1>8, <1>9, <1>10 DEF LeafCommands
  <2>3. \A i, j \in 1 .. Len(host_q') :
          host_q'[i] = host_q'[j] /\ host_q'[i][1] \in Leaves => i = j
    <3>1. n \in Leaves => \A i \in 1 .. Len(host_q) : host_q[i] # <<n, p>>
      BY <1>9 DEF Queued
    <3>2. \A i, j \in 1 .. Len(host_q) :
            host_q[i] = host_q[j] /\ host_q[i][1] \in Leaves => i = j
      BY <1>0 DEF LeafCommands
    <3>3. <<n, p>>[1] = n
      OBVIOUS
    <3> QED BY <1>3, <1>6, <3>1, <3>2, <3>3
  <2>4. host'.pc = "check" => host'.node \in Leaves
    BY <1>0, <1>1 DEF LeafCommands
  <2> QED BY <2>1, <2>2, <2>3, <2>4 DEF LeafCommands
<1>12. LeafCounts'
  <2>1. ASSUME NEW q \in Pipes
        PROVE  Reported(q)' = Reported(q)
    <3>1. \A m \in Leaves : m \in Reported(q)' <=> m \in Reported(q)
      BY <1>1, <1>7, <1>8, <1>10 DEF Reported
    <3>2. Reported(q)' \subseteq Leaves /\ Reported(q) \subseteq Leaves
      BY DEF Reported
    <3> QED BY <3>1, <3>2
  <2> QED BY <1>0, <1>1, <1>5, <2>1 DEF LeafCounts
<1>13. /\ DescriptorsConserved' /\ RestartWindow' /\ CallArguments'
       /\ NoLostSchedule' /\ CompletedEventMeansIdle' /\ PendingMeansFull'
       /\ RunningIffSubmitted'
  BY <1>1 DEF SchedInv, DescriptorsConserved, RestartWindow, CallArguments,
     NoLostSchedule, CompletedEventMeansIdle, PendingMeansFull, RunningIffSubmitted
<1> QED BY <1>4, <1>11, <1>12, <1>13 DEF SchedInv

-----------------------------------------------------------------------------
\* The theorems.

LEMMA UnchangedStep ==
  ASSUME SchedInv, UNCHANGED vars
  PROVE  SchedInv'
<1>1. UNCHANGED <<free_q, desc_state, executed, completing, graph_state,
                  submitted_count, schedule_pending_count, completed_event,
                  abandon_seen, complete_leaf_nodes, ready, host_q, host, app,
                  requested, done, last_abandoned>>
  BY DEF vars, sched_vars
<1> QED BY <1>1, CallOnlyStep DEF SchedInv, TypeOK, CallArguments

\* Every step keeps the invariant.
LEMMA NextInv == SchedInv /\ [Next]_vars => SchedInv'
<1> SUFFICES ASSUME SchedInv, [Next]_vars PROVE SchedInv'
  OBVIOUS
<1>1. ASSUME NEW a \in Apps, AppNext(a) PROVE SchedInv'
  <2>1. CASE VxScheduleGraph(a)
    BY <2>1, VxScheduleGraphStep
  <2>2. CASE AppSchedule(a)
    BY <2>2, AppScheduleStep
  <2>3. CASE VxEnqueueReadyRef(a)
    BY <2>3, VxEnqueueReadyRefStep
  <2>4. CASE EnqueueRef(a)
    BY <2>4, EnqueueRefStep
  <2>5. CASE EnqueueRefused(a) \/ WaitReturn(a)
    BY <2>5, CallEndStep
  <2>6. CASE VxWaitGraph(a)
    BY <2>6, VxWaitGraphStep
  <2>7. CASE WaitEvent(a)
    BY <2>7, WaitEventStep
  <2> QED BY <1>1, <2>1, <2>2, <2>3, <2>4, <2>5, <2>6, <2>7 DEF AppNext
<1>2. ASSUME NEW n \in Nodes, NEW p \in Pipes, NodeExecute(n, p) \/ NodeComplete(n, p)
      PROVE  SchedInv'
  BY <1>2, NodeExecuteStep, NodeCompleteStep
<1>3. CASE HostNext
  BY <1>3, HostTakeStep, LeafCompletedStep, GraphCompletedStep, HostRescheduleStep,
     HostActionStep DEF HostNext
<1>4. CASE UNCHANGED vars
  BY <1>4, UnchangedStep
<1> QED BY <1>1, <1>2, <1>3, <1>4 DEF Next

\* Everything below is a conjunct of the invariant.
LEMMA Invariance == Spec => []SchedInv
<1> QED BY InitInv, NextInv, PTL DEF Spec

\* Type correctness; submitted_count, an unsigned field that is decremented without
\* a test (vx_graph_pipeline.c 1352), never wraps around.
THEOREM TypeCorrectness == Spec => []TypeOK
<1>1. SchedInv => TypeOK
  BY DEF SchedInv
<1> QED BY <1>1, Invariance, PTL

\* Descriptors are never lost or queued twice: a graph can always have `Depth'
\* executions in flight, and never more.
THEOREM DescriptorConservation == Spec => []DescriptorsConserved
<1>1. SchedInv => DescriptorsConserved
  BY DEF SchedInv
<1> QED BY <1>1, Invariance, PTL

\* An execution completes when each of its own leaf nodes has reported, once.
THEOREM LeafAccounting == Spec => []LeafCounts
<1>1. SchedInv => LeafCounts
  BY DEF SchedInv
<1> QED BY <1>1, Invariance, PTL

\* What was accepted is completed, in flight, pending, or in the hands of the host
\* task, and in one of these places only.
THEOREM NoScheduleLost == Spec => []NoLostSchedule
<1>1. SchedInv => NoLostSchedule
  BY DEF SchedInv
<1> QED BY <1>1, Invariance, PTL

\* The completion event is set only while the graph is idle.
THEOREM EventMeansIdle == Spec => []CompletedEventMeansIdle
<1>1. SchedInv => CompletedEventMeansIdle
  BY DEF SchedInv
<1> QED BY <1>1, Invariance, PTL

\* No execution stays pending while a descriptor is free.
THEOREM PendingMeansNoRoom == Spec => []PendingMeansFull
<1>1. SchedInv => PendingMeansFull
  BY DEF SchedInv
<1> QED BY <1>1, Invariance, PTL

\* graph->state, read without the lock by vxScheduleGraph and vxWaitGraph, is RUNNING
\* exactly while an execution is in flight.
THEOREM RunningMeansSubmitted == Spec => []RunningIffSubmitted
<1>1. SchedInv => RunningIffSubmitted
  BY DEF SchedInv
<1> QED BY <1>1, Invariance, PTL

\* A step of one thread leaves the calls of the others alone; the targets and the
\* host task leave all of them alone.
LEMMA OwnCallOnly ==
  ASSUME TypeOK, Next, NEW a \in Apps, app'[a] # app[a]
  PROVE  AppNext(a)
<1>1. ASSUME NEW b \in Apps, AppNext(b), b # a PROVE app'[a] = app[a]
  <2>1. PICK s : app' = [app EXCEPT ![b] = s]
    BY <1>1 DEF AppNext, VxScheduleGraph, ScheduleCall, AppSchedule, VxEnqueueReadyRef, EnqueueRef,
       EnqueueRefused, VxWaitGraph, WaitEvent, WaitReturn
  <2> QED BY <1>1, <2>1 DEF TypeOK
<1>2. ASSUME NEW n \in Nodes, NEW p \in Pipes, NodeExecute(n, p) \/ NodeComplete(n, p)
      PROVE  app' = app
  BY <1>2 DEF NodeExecute, NodeComplete
<1>3. HostNext => app' = app
  BY DEF HostNext, HostTake, LeafCompleted, GraphCompleted, HostReschedule, HostAction
<1> QED BY <1>1, <1>2, <1>3 DEF Next

\* What a thread that waits does next: it goes on waiting or takes the event.
LEMMA WaitingStep ==
  ASSUME TypeOK, Next, NEW a \in Apps, app[a].pc = "wait", app'[a] # app[a]
  PROVE  WaitEvent(a)
<1>1. AppNext(a)
  BY OwnCallOnly
<1> QED BY <1>1 DEF AppNext, VxScheduleGraph, ScheduleCall, AppSchedule, VxEnqueueReadyRef,
           EnqueueRef, EnqueueRefused, VxWaitGraph, WaitReturn

\* vxWaitGraph covers all that was accepted before it was called.
THEOREM WaitCoverage == Spec => WaitCoversEarlierCalls
<1>1. ASSUME SchedInv, [Next]_vars
      PROVE  [\A a \in Apps : app[a].pc = "wait" /\ app'[a].pc = "waited"
                             => done' >= app[a].n]_vars
  <2> SUFFICES ASSUME Next, NEW a \in Apps,
                      app[a].pc = "wait", app'[a].pc = "waited"
               PROVE  done' >= app[a].n
    BY <1>1
  <2>1. WaitEvent(a)
    BY <1>1, WaitingStep DEF SchedInv
  <2>2. completed_event /\ done' = done
    BY <2>1 DEF WaitEvent
  <2>3. requested = done
    BY <1>1, <2>2 DEF SchedInv, NoLostSchedule, CompletedEventMeansIdle, TypeOK
  <2> QED BY <1>1, <2>2, <2>3 DEF SchedInv, CallArguments, TypeOK, AppStates
<1> QED BY <1>1, Invariance, PTL DEF Spec, WaitCoversEarlierCalls

-----------------------------------------------------------------------------
\* The scheduler implements ScheduleService.

\* What the mapping gives the variables of the service.
Queue == schedule_pending_count + host.schedule_count
Waits == [a \in Apps |-> IF app[a].pc = "wait" THEN app[a].n ELSE -1]

\* A call of ownGraphScheduleGraph is a Start of the service: what it leaves behind
\* it leaves with no descriptor free.  That also holds when a thread gets between
\* the two locked sections of the host task: it then takes the one free descriptor.
LEMMA ScheduleIsStart ==
  ASSUME SchedInv, SchedInv', UNCHANGED <<done, Waits>>,
         NEW num \in Nat, OwnGraphScheduleGraph(num),
         \/ num > 0 /\ host'.schedule_count = host.schedule_count
         \/ num = host.schedule_count /\ host'.schedule_count = 0
  PROVE  Service!Start
<1>0. /\ TypeOK /\ TypeOK' /\ DescriptorsConserved /\ DescriptorsConserved'
      /\ RestartWindow /\ PendingMeansFull'
  BY DEF SchedInv
<1>1. /\ Len(free_q) \in Nat /\ Len(free_q') \in Nat
      /\ submitted_count \in Nat /\ submitted_count' \in Nat
      /\ schedule_pending_count \in Nat /\ schedule_pending_count' \in Nat
      /\ host.schedule_count \in Nat /\ host'.schedule_count \in Nat /\ Depth \in Nat
  BY <1>0, LenProperties, DepthAssumption DEF TypeOK, HostStates
\* The values before (s, p, h, l) and after, as constants for the arithmetic.
<1>2. PICK s1, s2, p1, p2, h1, h2, l1, l2 \in Nat :
         /\ s1 = submitted_count /\ s2 = submitted_count'
         /\ p1 = schedule_pending_count /\ p2 = schedule_pending_count'
         /\ h1 = host.schedule_count /\ h2 = host'.schedule_count
         /\ l1 = Len(free_q) /\ l2 = Len(free_q')
  BY <1>1
<1>3. PICK k \in Nat :
         k = NumStarted(num) /\ k <= l1 /\ (k = l1 \/ k = num + p1)
  <2>1. NumStarted(num) \in 0 .. Len(free_q)
        /\ (NumStarted(num) = Len(free_q) \/ NumStarted(num) = num + schedule_pending_count)
    BY <1>0, NumStartedBounds
  <2> QED BY <1>2, <2>1
<1>4. s2 = s1 + k /\ s1 + l1 = Depth /\ s2 + l2 = Depth
  BY <1>0, <1>2, <1>3 DEF OwnGraphScheduleGraph, DescriptorsConserved
<1>5. ~RemembersPending => p1 = 0 /\ p2 = 0 /\ h1 = 0
  BY <1>0, <1>2, ScheduleCounts DEF RestartWindow
<1>6. RemembersPending => s2 + p2 = s1 + p1 + num
  BY <1>2, ScheduleCounts
<1>7. (num > 0 /\ h2 = h1) \/ (num = h1 /\ h2 = 0)
  BY <1>2
<1>8. s2 \in s1 .. Depth /\ p2 + h2 \in Nat
  <2>1. Depth \in Int /\ s1 \in Int
    BY <1>1
  <2>2. s1 <= s2 /\ s2 <= Depth
    BY <1>4, <2>1
  <2> QED BY <2>1, <2>2
<1>9. p2 + h2 + s2 >= p1 + h1 + s1
  BY <1>4, <1>5, <1>6, <1>7
<1>10. p2 + h2 > 0 => s2 = Depth
  <2>1. p2 > 0 => s2 = Depth
    BY <1>0, <1>2 DEF PendingMeansFull
  <2>2. ASSUME h2 > 0 PROVE s2 = Depth
    <3>1. num > 0 /\ h1 > 0
      BY <1>7, <2>2
    <3>2. l1 <= 1
      BY <1>0, <1>2, <3>1 DEF RestartWindow
    <3>3. k = l1
      BY <1>3, <3>1, <3>2
    <3> QED BY <1>4, <3>3
  <2> QED BY <2>1, <2>2
<1> QED BY <1>2, <1>8, <1>9, <1>10 DEF Service!Start, Waits

\* The completion of an execution: what is pending changes hands but stays queued.
LEMMA CompletionIsComplete ==
  ASSUME SchedInv, SchedInv', GraphCompleted
  PROVE  Service!Complete
<1>1. /\ TypeOK /\ TypeOK' /\ RestartWindow
  BY DEF SchedInv
<1>2. /\ schedule_pending_count \in Nat /\ submitted_count \in Nat
      /\ host.schedule_count = 0 /\ submitted_count' \in Nat
      /\ submitted_count' = submitted_count - 1
      /\ done' = done + 1 /\ schedule_pending_count' = 0 /\ app' = app
  BY <1>1 DEF GraphCompleted, TypeOK, RestartWindow
<1>3. host'.schedule_count = schedule_pending_count
  BY <1>1 DEF GraphCompleted, TypeOK, HostStates
<1>4. submitted_count > 0
  BY <1>2
<1>5. schedule_pending_count' + host'.schedule_count
        = schedule_pending_count + host.schedule_count
  BY <1>2, <1>3
<1> QED BY <1>2, <1>4, <1>5 DEF Service!Complete

\* A thread starts or ends a wait, or the service does not see the step.
LEMMA CallIsWait ==
  ASSUME SchedInv, NEW a \in Apps, AppNext(a), ~AppSchedule(a)
  PROVE  [Service!Next]_Service!svars
<1>0. /\ TypeOK /\ NoLostSchedule /\ CompletedEventMeansIdle /\ CallArguments
  BY DEF SchedInv
<1>1. UNCHANGED <<schedule_pending_count, submitted_count, host, done>>
  BY DEF AppNext, VxScheduleGraph, ScheduleCall, VxEnqueueReadyRef, EnqueueRef, EnqueueRefused,
     VxWaitGraph, WaitEvent, WaitReturn, sched_vars
<1>2. PICK s : app' = [app EXCEPT ![a] = s]
  BY DEF AppNext, VxScheduleGraph, ScheduleCall, VxEnqueueReadyRef, EnqueueRef, EnqueueRefused,
     VxWaitGraph, WaitEvent, WaitReturn
<1>3. app'[a] = s /\ \A b \in Apps : b # a => app'[b] = app[b]
  BY <1>0, <1>2 DEF TypeOK
<1>4. CASE app[a].pc = "wait" /\ app'[a].pc # "wait"
  <2>1. completed_event
    BY <1>4 DEF AppNext, VxScheduleGraph, ScheduleCall, VxEnqueueReadyRef, EnqueueRef,
       EnqueueRefused, VxWaitGraph, WaitEvent, WaitReturn
  <2>2. requested = done /\ done \in Nat /\ app[a].n \in Nat /\ app[a].n <= requested
    BY <1>0, <1>4, <2>1 DEF NoLostSchedule, CompletedEventMeansIdle, CallArguments,
       TypeOK, AppStates
  <2>3. Waits' = [Waits EXCEPT ![a] = -1] /\ Waits[a] = app[a].n
    BY <1>3, <1>4 DEF Waits
  <2>4. Service!WaitEnd(a)
    BY <1>1, <2>2, <2>3 DEF Service!WaitEnd, Service!NotWaiting, Waits
  <2> QED BY <2>4 DEF Service!Next
<1>5. CASE app[a].pc # "wait" /\ app'[a].pc = "wait"
  <2>1. ~VxScheduleGraph(a)
    <3>1. VxScheduleGraph(a) =>
            \/ \E num : app' = [app EXCEPT ![a] = InCall("schedule", num, 0)]
            \/ app' = [app EXCEPT ![a] = IdleApp("SUCCESS")]
      BY DEF VxScheduleGraph, ScheduleCall
    <3> QED BY <1>0, <1>5, <3>1 DEF InCall, IdleApp, TypeOK
  <2>2. ~VxEnqueueReadyRef(a) /\ ~EnqueueRef(a)
    BY <1>0, <1>3, <1>5 DEF VxEnqueueReadyRef, EnqueueRef, InCall, IdleApp, TypeOK
  <2>3. ~EnqueueRefused(a) /\ ~WaitReturn(a)
    BY <1>0, <1>3, <1>5 DEF EnqueueRefused, WaitReturn, IdleApp, TypeOK
  <2>4. VxWaitGraph(a)
    BY <1>5, <2>1, <2>2, <2>3 DEF AppNext, WaitEvent
  <2>5. app'[a] = InCall("wait", requested, 0)
    BY <1>0, <1>3, <1>5, <2>4 DEF VxWaitGraph, TypeOK, IdleApp
  <2>6. app'[a].n = requested
    BY <2>5 DEF InCall
  <2>7. Waits' = [Waits EXCEPT ![a] = requested] /\ Waits[a] = -1
    BY <1>3, <1>5, <2>6 DEF Waits
  <2>8. requested = schedule_pending_count + host.schedule_count + submitted_count + done
    <3>1. /\ schedule_pending_count \in Nat /\ host.schedule_count \in Nat
          /\ submitted_count \in Nat /\ done \in Nat
      BY <1>0 DEF TypeOK, HostStates
    <3> QED BY <1>0, <3>1 DEF NoLostSchedule
  <2>9. Service!WaitBegin(a)
    BY <1>1, <2>7, <2>8
       DEF Service!WaitBegin, Service!NotWaiting, Service!Accepted, Waits
  <2> QED BY <2>9 DEF Service!Next
<1>6. CASE app[a].pc = "wait" /\ app'[a].pc = "wait"
  <2>1. WaitEvent(a)
    BY <1>6 DEF AppNext, VxScheduleGraph, ScheduleCall, VxEnqueueReadyRef, EnqueueRef,
       EnqueueRefused, VxWaitGraph, WaitReturn
  <2>2. app'[a].pc = "waited"
    BY <1>0, <2>1 DEF WaitEvent, TypeOK, AppStates
  <2> QED BY <1>6, <2>2
<1>7. CASE app[a].pc # "wait" /\ app'[a].pc # "wait"
  <2>1. Waits' = Waits
    BY <1>3, <1>7 DEF Waits
  <2> QED BY <1>1, <2>1 DEF Service!svars, Waits
<1> QED BY <1>4, <1>5, <1>6, <1>7

LEMMA InitIsServiceInit == Init => Service!Init
  BY DEF Init, Service!Init, Service!NotWaiting, IdleHost, IdleApp

LEMMA NextIsServiceNext ==
  SchedInv /\ SchedInv' /\ [Next]_vars => [Service!Next]_Service!svars
<1> SUFFICES ASSUME SchedInv, SchedInv', [Next]_vars
             PROVE  [Service!Next]_Service!svars
  OBVIOUS
<1>0. TypeOK /\ RestartWindow /\ CallArguments
  BY DEF SchedInv
<1>1. ASSUME NEW a \in Apps, AppSchedule(a) PROVE Service!Start
  <2>1. PICK num \in Nat : num = app[a].n /\ num > 0 /\ OwnGraphScheduleGraph(num)
    BY <1>0, <1>1 DEF AppSchedule, TypeOK, AppStates, CallArguments
  <2>2. host' = host /\ done' = done
    BY <1>1 DEF AppSchedule
  <2>3. PICK status : app' = [app EXCEPT ![a] = IdleApp(status)]
    BY <1>1 DEF AppSchedule
  <2>4. app[a].pc = "schedule"
    BY <1>1 DEF AppSchedule
  <2>5. Waits' = Waits
    <3>1. app'[a].pc = "idle" /\ \A b \in Apps : b # a => app'[b] = app[b]
      BY <1>0, <2>3 DEF TypeOK, IdleApp
    <3> QED BY <2>4, <3>1 DEF Waits
  <2> QED BY <2>1, <2>2, <2>5, ScheduleIsStart
<1>2. CASE HostReschedule
  <2>1. PICK num \in Nat : num = host.schedule_count /\ OwnGraphScheduleGraph(num)
    BY <1>0, <1>2 DEF HostReschedule, TypeOK, HostStates
  <2>2. done' = done /\ app' = app /\ host'.schedule_count = 0
    BY <1>0, <1>2 DEF HostReschedule, TypeOK, HostStates
  <2>3. Waits' = Waits
    BY <2>2 DEF Waits
  <2>4. Service!Start
    BY <2>1, <2>2, <2>3, ScheduleIsStart
  <2> QED BY <2>4 DEF Service!Next
<1>3. CASE GraphCompleted
  BY <1>3, CompletionIsComplete DEF Service!Next
<1>4. ASSUME HostTake \/ LeafCompleted \/ HostAction PROVE UNCHANGED Service!svars
  <2>1. /\ UNCHANGED <<schedule_pending_count, submitted_count, done, app>>
        /\ host'.schedule_count = 0 /\ host.schedule_count = 0
    BY <1>0, <1>4 DEF HostTake, LeafCompleted, HostAction, IdleHost, RestartWindow,
       TypeOK, HostStates, sched_vars
  <2> QED BY <2>1 DEF Service!svars
<1>5. ASSUME NEW n \in Nodes, NEW p \in Pipes, NodeExecute(n, p) \/ NodeComplete(n, p)
      PROVE  UNCHANGED Service!svars
  BY <1>5 DEF NodeExecute, NodeComplete, Service!svars
<1>6. CASE UNCHANGED vars
  BY <1>6 DEF vars, sched_vars, Service!svars
<1>7. ASSUME NEW a \in Apps, AppNext(a) PROVE [Service!Next]_Service!svars
  <2>1. CASE AppSchedule(a)
    BY <1>1, <2>1 DEF Service!Next
  <2>2. CASE ~AppSchedule(a)
    BY <1>7, <2>2, CallIsWait
  <2> QED BY <2>1, <2>2
<1> QED BY <1>2, <1>3, <1>4, <1>5, <1>6, <1>7 DEF Next, HostNext

\* The scheduler implements the service: executions start as far as there is room,
\* complete once, and a thread is let go when all it waits for has completed.
THEOREM Refinement == Spec => ImplementsService
<1> QED BY InitIsServiceInit, NextIsServiceNext, Invariance, PTL
        DEF Spec, ImplementsService, Service!Spec

-----------------------------------------------------------------------------
\* The commands of nodes that are not leaves.

\* A leaf node of execution p has not run or is yet to send its command, or its command
\* comes after place i of the host task's queue.
LeafBehind(i, p) ==
    \E l \in Leaves : \/ l \notin executed[p] \/ <<l, p>> \in completing
                      \/ \E j \in i + 1 .. Len(host_q) : host_q[j] = <<l, p>>

\* The command of a node that is not a leaf belongs to an execution in flight, which
\* a leaf node keeps in flight until the host task is through with the command.  Until
\* the command is sent none of the nodes that take data from the node runs.
NodeCommands ==
    /\ \A p \in Pipes : \A n \in executed[p] : InNodes[n] \subseteq executed[p]
    /\ \A n \in Nodes \ Leaves, p \in Pipes :
          <<n, p>> \in completing =>
             p \in InFlight /\ \A m \in executed[p] : n \notin InNodes[m]
    /\ \A n \in Nodes \ Leaves, p \in Pipes :
          /\ \A i \in 1 .. Len(host_q) :
                host_q[i] = <<n, p>> => p \in InFlight /\ LeafBehind(i, p)
          /\ host.pc = "action" /\ host.node = n /\ host.pipe = p =>
                p \in InFlight /\ LeafBehind(0, p)
    /\ host.pc \in {"check", "reschedule"} => host.node \in Leaves

LEMMA CommandsInit == Init => NodeCommands
  BY DEF Init, NodeCommands, IdleHost

\* A step that leaves the executions and the host task alone.
LEMMA CommandsCall ==
  ASSUME NodeCommands, UNCHANGED <<free_q, executed, completing, host_q, host>>
  PROVE  NodeCommands'
<1>1. InFlight' = InFlight
  BY DEF InFlight, Free
<1>2. \A i, p : LeafBehind(i, p)' <=> LeafBehind(i, p)
  BY DEF LeafBehind
<1> QED BY <1>1, <1>2 DEF NodeCommands

\* ownGraphScheduleGraph: executions that start have no command.
LEMMA CommandsSchedule ==
  ASSUME SchedInv, NodeCommands, NEW num \in Nat, OwnGraphScheduleGraph(num),
         UNCHANGED <<completing, host_q>>,
         \/ UNCHANGED host
         \/ /\ host.pc = "reschedule"
            /\ host' = [host EXCEPT !.pc = "action", !.schedule_count = 0]
  PROVE  NodeCommands'
<1>0. TypeOK /\ DescriptorsConserved
  BY DEF SchedInv
<1>1. /\ Free' \subseteq Free
      /\ {free_q[i] : i \in 1 .. NumStarted(num)} = Free \ Free'
  BY <1>0, ScheduleFreeQueue
<1>2. \A p \in Pipes : executed'[p] = IF p \in Free \ Free' THEN {} ELSE executed[p]
  BY <1>1 DEF OwnGraphScheduleGraph
<1>3. \A p \in InFlight : p \in InFlight' /\ p \notin Free \ Free'
  BY <1>1 DEF InFlight
<1>5. /\ host'.node = host.node /\ host'.pipe = host.pipe
      /\ host'.pc # host.pc => host.pc = "reschedule" /\ host'.pc = "action"
  BY <1>0 DEF TypeOK, HostStates
<1>6. \A i : \A p \in InFlight : LeafBehind(i, p) => LeafBehind(i, p)'
  BY <1>2, <1>3 DEF LeafBehind, InFlight
<1>7. NodeCommands'
  <2>1. \A p \in Pipes : \A n \in executed'[p] : InNodes[n] \subseteq executed'[p]
    BY <1>0, <1>2 DEF NodeCommands
  <2>2. ASSUME NEW n \in Nodes \ Leaves, NEW p \in Pipes,
               NEW i \in 1 .. Len(host_q'), host_q'[i] = <<n, p>>
        PROVE  p \in InFlight' /\ LeafBehind(i, p)'
    BY <1>0, <1>3, <1>6, <2>2 DEF NodeCommands
  <2>3. ASSUME NEW n \in Nodes \ Leaves, NEW p \in Pipes,
               host'.pc = "action", host'.node = n, host'.pipe = p
        PROVE  p \in InFlight' /\ LeafBehind(0, p)'
    BY <1>0, <1>3, <1>5, <1>6, <2>3 DEF NodeCommands
  <2>4. host'.pc \in {"check", "reschedule"} => host'.node \in Leaves
    BY <1>0, <1>5 DEF NodeCommands
  <2>5. ASSUME NEW n \in Nodes \ Leaves, NEW p \in Pipes, <<n, p>> \in completing'
        PROVE  p \in InFlight' /\ \A m \in executed'[p] : n \notin InNodes[m]
    BY <1>0, <1>2, <1>3, <2>5 DEF NodeCommands
  <2> QED BY <2>1, <2>2, <2>3, <2>4, <2>5 DEF NodeCommands
<1> QED BY <1>7

LEMMA CommandsTake ==
  ASSUME SchedInv, NodeCommands, HostTake
  PROVE  NodeCommands'
<1>0. TypeOK /\ NodeCommands
  BY DEF SchedInv
<1>1. host_q \in Seq(Nodes \X Pipes) /\ host_q # <<>> /\ host.pc = "idle"
  BY <1>0 DEF TypeOK, HostTake
<1>2. /\ Head(host_q) \in Nodes \X Pipes /\ host_q' = Tail(host_q)
      /\ Len(host_q) \in Nat /\ Len(host_q') = Len(host_q) - 1 /\ Len(host_q) > 0
      /\ \A i \in 1 .. Len(host_q') : host_q'[i] = host_q[i + 1]
      /\ Head(host_q) = host_q[1]
  <2>1. host_q' = Tail(host_q)
    BY DEF HostTake
  <2>2. Len(host_q) \in Nat \ {0}
    BY <1>1, EmptySeq
  <2> QED BY <1>1, <2>1, <2>2, HeadTailProperties
<1>3. PICK n \in Nodes, p \in Pipes : host_q[1] = <<n, p>>
  BY <1>2
<1>4. PICK abandon \in BOOLEAN :
        /\ abandon => n \in Abandoners
        /\ host' = [pc |-> IF n \in Leaves THEN "check" ELSE "action",
                    node |-> n, pipe |-> p, abandon |-> abandon, schedule_count |-> 0]
        /\ abandon_seen' = [abandon_seen EXCEPT ![p] = abandon_seen[p] \/ abandon]
  <2>1. Head(host_q)[1] = n /\ Head(host_q)[2] = p
    BY <1>2, <1>3
  <2>2. \E abandon \in {FALSE} \cup {n \in Abandoners} :
          /\ host' = [pc |-> IF n \in Leaves THEN "check" ELSE "action",
                      node |-> n, pipe |-> p, abandon |-> abandon, schedule_count |-> 0]
          /\ abandon_seen' = [abandon_seen EXCEPT ![p] = abandon_seen[p] \/ abandon]
    BY <2>1 DEF HostTake
  <2> QED BY <2>2
<1>5. UNCHANGED <<free_q, desc_state, executed, completing, graph_state,
                  completed_event, last_abandoned>>
  BY DEF HostTake
<1>6. InFlight' = InFlight
  BY <1>5 DEF InFlight, Free
<1>7. ASSUME NEW i \in Nat, NEW q, LeafBehind(i + 1, q)
      PROVE  LeafBehind(i, q)'
  <2>1. PICK l \in Leaves : \/ l \notin executed[q] \/ <<l, q>> \in completing
                            \/ \E j \in i + 2 .. Len(host_q) : host_q[j] = <<l, q>>
    <3>1. (i + 1) + 1 = i + 2
      OBVIOUS
    <3> QED BY <1>7, <3>1 DEF LeafBehind
  <2>2. CASE l \notin executed[q] \/ <<l, q>> \in completing
    BY <1>5, <2>2 DEF LeafBehind
  <2>3. ASSUME NEW j \in i + 2 .. Len(host_q), host_q[j] = <<l, q>>
        PROVE  LeafBehind(i, q)'
    <3>1. j - 1 \in i + 1 .. Len(host_q') /\ j - 1 \in 1 .. Len(host_q') /\ (j - 1) + 1 = j
      BY <1>2
    <3>2. host_q'[j - 1] = <<l, q>>
      BY <1>2, <2>3, <3>1
    <3> QED BY <3>1, <3>2 DEF LeafBehind
  <2> QED BY <2>1, <2>2, <2>3
<1>8. NodeCommands'
  <2>1. \A q \in Pipes : \A m \in executed'[q] : InNodes[m] \subseteq executed'[q]
    BY <1>0, <1>5 DEF NodeCommands
  <2>2. ASSUME NEW m \in Nodes \ Leaves, NEW q \in Pipes,
               NEW i \in 1 .. Len(host_q'), host_q'[i] = <<m, q>>
        PROVE  q \in InFlight' /\ LeafBehind(i, q)'
    <3>1. i + 1 \in 1 .. Len(host_q) /\ host_q[i + 1] = <<m, q>> /\ i \in Nat
      BY <1>2, <2>2
    <3> QED BY <1>0, <1>6, <1>7, <3>1 DEF NodeCommands
  <2>3. ASSUME NEW m \in Nodes \ Leaves, NEW q \in Pipes,
               host'.pc = "action", host'.node = m, host'.pipe = q
        PROVE  q \in InFlight' /\ LeafBehind(0, q)'
    <3>1. m = n /\ q = p
      BY <1>4, <2>3
    <3>2. 1 \in 1 .. Len(host_q) /\ q \in InFlight /\ LeafBehind(1, q)
      BY <1>0, <1>2, <1>3, <3>1 DEF NodeCommands
    <3> QED BY <1>6, <1>7, <3>2
  <2>4. host'.pc \in {"check", "reschedule"} => host'.node \in Leaves
    BY <1>4
  <2>5. ASSUME NEW m \in Nodes \ Leaves, NEW q \in Pipes, <<m, q>> \in completing'
        PROVE  q \in InFlight' /\ \A k \in executed'[q] : m \notin InNodes[k]
    BY <1>0, <1>5, <1>6, <2>5 DEF NodeCommands
  <2> QED BY <2>1, <2>2, <2>3, <2>4, <2>5 DEF NodeCommands
<1> QED BY <1>8

LEMMA CommandsLeaf ==
  ASSUME SchedInv, NodeCommands, LeafCompleted
  PROVE  NodeCommands'
<1>0. TypeOK
  BY DEF SchedInv
<1>1. /\ host.pc = "check" /\ host' = [host EXCEPT !.pc = "action"]
      /\ UNCHANGED <<free_q, executed, completing, host_q>>
  BY DEF LeafCompleted, sched_vars
<1>2. InFlight' = InFlight /\ \A i, p : LeafBehind(i, p)' <=> LeafBehind(i, p)
  BY <1>1 DEF InFlight, Free, LeafBehind
<1>3. host'.pc = "action" /\ host'.node \in Leaves
  BY <1>0, <1>1 DEF TypeOK, HostStates, NodeCommands
<1> QED BY <1>1, <1>2, <1>3 DEF NodeCommands

\* A node runs before some leaf node does: a graph has no cycles.
LEMMA LeafStillToRun ==
  ASSUME NodeCommands, NEW p \in Pipes, NEW n \in Nodes, n \notin executed[p]
  PROVE  \E l \in Leaves : l \notin executed[p]
<1> DEFINE S == Nodes \ executed[p]
<1>1. PICK l \in S : \A m \in S : l \notin InNodes[m]
  <2>1. S \in SUBSET Nodes /\ S # {}
    OBVIOUS
  <2> QED BY <2>1, AcyclicAssumption
<1>2. \A m \in executed[p] : l \notin InNodes[m]
  BY <1>1 DEF NodeCommands
<1> QED BY <1>1, <1>2 DEF Leaves

LEMMA CommandsCompleted ==
  ASSUME SchedInv, NodeCommands, GraphCompleted
  PROVE  NodeCommands'
<1>0. TypeOK /\ NodeCommands
  BY DEF SchedInv
<1>a. PICK p \in Pipes : p = host.pipe
  BY <1>0 DEF TypeOK, HostStates
<1>1. /\ host.pc = "check" /\ IsLastLeaf(p) /\ free_q' = Append(free_q, p)
      /\ UNCHANGED <<executed, completing, host_q>>
  BY <1>a DEF GraphCompleted, FreeQueueWith
<1>2. /\ p \in InFlight
      /\ \A n \in Leaves : n \in executed[p] /\ <<n, p>> \notin completing /\ ~Queued(n, p)
  BY <1>a, <1>1, LastLeafReported
<1>3. InFlight' = InFlight \ {p}
  <2>1. /\ Len(free_q) \in Nat /\ Len(free_q') = Len(free_q) + 1
        /\ \A i \in 1 .. Len(free_q) : free_q'[i] = free_q[i]
        /\ free_q'[Len(free_q) + 1] = p
    BY <1>0, <1>1, AppendProperties, LenProperties DEF TypeOK
  <2>2. 1 .. Len(free_q) + 1 = (1 .. Len(free_q)) \cup {Len(free_q) + 1}
    BY <2>1
  <2> QED BY <2>1, <2>2 DEF InFlight, Free
<1>4. host'.pc \in {"reschedule", "action"} /\ host'.node \in Leaves
  BY <1>0, <1>1 DEF GraphCompleted, TypeOK, HostStates, NodeCommands
<1>5. \A i \in Nat : ~LeafBehind(i, p)
  <2> SUFFICES ASSUME NEW i \in Nat, NEW l \in Leaves,
                      NEW j \in i + 1 .. Len(host_q), host_q[j] = <<l, p>>
               PROVE  FALSE
    BY <1>2 DEF LeafBehind
  <2>1. j \in 1 .. Len(host_q)
    OBVIOUS
  <2> QED BY <1>2, <2>1 DEF Queued
<1>6. \A i, q : LeafBehind(i, q)' <=> LeafBehind(i, q)
  BY <1>1 DEF LeafBehind
<1>7. NodeCommands'
  <2>1. \A q \in Pipes : \A m \in executed'[q] : InNodes[m] \subseteq executed'[q]
    BY <1>0, <1>1 DEF NodeCommands
  <2>2. ASSUME NEW m \in Nodes \ Leaves, NEW q \in Pipes,
               NEW i \in 1 .. Len(host_q'), host_q'[i] = <<m, q>>
        PROVE  q \in InFlight' /\ LeafBehind(i, q)'
    <3>1. q \in InFlight /\ LeafBehind(i, q)
      BY <1>0, <1>1, <2>2 DEF NodeCommands
    <3>2. q # p
      BY <1>5, <3>1
    <3> QED BY <1>3, <1>6, <3>1, <3>2
  <2>3. ASSUME NEW m \in Nodes \ Leaves, NEW q \in Pipes, <<m, q>> \in completing'
        PROVE  q \in InFlight' /\ \A k \in executed'[q] : m \notin InNodes[k]
    <3>1. q \in InFlight /\ \A k \in executed[q] : m \notin InNodes[k]
      BY <1>0, <1>1, <2>3 DEF NodeCommands
    <3>2. PICK k \in Nodes : m \in InNodes[k]
      BY DEF Leaves
    <3>3. q # p
      BY <1>0, <1>2, <3>1, <3>2, LeafStillToRun
    <3> QED BY <1>1, <1>3, <3>1, <3>3
  <2> QED BY <1>4, <2>1, <2>2, <2>3 DEF NodeCommands
<1> QED BY <1>7

LEMMA CommandsAction ==
  ASSUME NodeCommands, HostAction
  PROVE  NodeCommands'
<1>1. UNCHANGED <<free_q, executed, completing, host_q>> /\ host'.pc = "idle"
  BY DEF HostAction, IdleHost
<1>2. InFlight' = InFlight /\ \A i, p : LeafBehind(i, p)' <=> LeafBehind(i, p)
  BY <1>1 DEF InFlight, Free, LeafBehind
<1> QED BY <1>1, <1>2 DEF NodeCommands

LEMMA CommandsExecute ==
  ASSUME InputsOnOneTarget, SchedInv, NodeCommands, NEW n \in Nodes, NEW p \in Pipes,
         NodeExecute(n, p)
  PROVE  NodeCommands'
<1>0. TypeOK /\ NodeCommands
  BY DEF SchedInv
<1>1. /\ p \in InFlight /\ n \notin executed[p] /\ InNodes[n] \subseteq executed[p]
      /\ executed' = [executed EXCEPT ![p] = executed[p] \cup {n}]
      /\ completing' = IF n \in Callbacks \cup Leaves
                       THEN completing \cup {<<n, p>>} ELSE completing
      /\ UNCHANGED <<free_q, host_q, host>>
  BY DEF NodeExecute, Triggered
\* The task that found the inputs of the node marked has sent all their commands.
<1>2. \A k \in InNodes[n] : <<k, p>> \notin completing
  <2> SUFFICES ASSUME NEW k \in InNodes[n] PROVE <<k, p>> \notin completing
    OBVIOUS
  <2>1. PICK m \in InNodes[n] :
          \A j \in InNodes[n] : TargetOf[j] = TargetOf[m] => <<j, p>> \notin completing
    BY DEF NodeExecute, Triggered
  <2> QED BY <2>1 DEF InputsOnOneTarget
<1>3. InFlight' = InFlight
  BY <1>1 DEF InFlight, Free
<1>4. \A q \in Pipes : executed'[q] = IF q = p THEN executed[p] \cup {n} ELSE executed[q]
  BY <1>0, <1>1 DEF TypeOK
<1>5. ASSUME NEW i, NEW q \in Pipes, LeafBehind(i, q)
      PROVE  LeafBehind(i, q)'
  <2>1. PICK l \in Leaves : \/ l \notin executed[q] \/ <<l, q>> \in completing
                            \/ \E j \in i + 1 .. Len(host_q) : host_q[j] = <<l, q>>
    BY <1>5 DEF LeafBehind
  <2>2. l \notin executed[q] => l \notin executed'[q] \/ <<l, q>> \in completing'
    BY <1>1, <1>4
  <2> QED BY <1>1, <2>1, <2>2 DEF LeafBehind
<1>6. \A q \in Pipes : \A m \in executed'[q] : InNodes[m] \subseteq executed'[q]
  BY <1>0, <1>1, <1>4 DEF NodeCommands
<1>7. ASSUME NEW k \in Nodes \ Leaves, NEW q \in Pipes, <<k, q>> \in completing'
      PROVE  q \in InFlight' /\ \A m \in executed'[q] : k \notin InNodes[m]
  <2>1. CASE <<k, q>> \in completing
    BY <1>0, <1>2, <1>3, <1>4, <2>1 DEF NodeCommands
  <2>2. CASE k = n /\ q = p
    <3>1. n \notin InNodes[n]
      <4>1. {n} \in SUBSET Nodes /\ {n} # {}
        OBVIOUS
      <4> QED BY <4>1, AcyclicAssumption
    <3>2. \A m \in executed[p] : n \notin InNodes[m]
      BY <1>0, <1>1 DEF NodeCommands
    <3> QED BY <1>1, <1>3, <1>4, <2>2, <3>1, <3>2
  <2> QED BY <1>1, <1>7, <2>1, <2>2
<1>8. ASSUME NEW m \in Nodes \ Leaves, NEW q \in Pipes
      PROVE  /\ \A i \in 1 .. Len(host_q') :
                   host_q'[i] = <<m, q>> => q \in InFlight' /\ LeafBehind(i, q)'
             /\ host'.pc = "action" /\ host'.node = m /\ host'.pipe = q =>
                   q \in InFlight' /\ LeafBehind(0, q)'
  BY <1>0, <1>1, <1>3, <1>5 DEF NodeCommands
<1> QED BY <1>0, <1>1, <1>6, <1>7, <1>8 DEF NodeCommands

\* A command is sent: when its node is not a leaf, a node that has not run, and so a
\* leaf node that has not, keeps the execution in flight.
LEMMA CommandsComplete ==
  ASSUME SchedInv, NodeCommands, NEW n \in Nodes, NEW p \in Pipes, NodeComplete(n, p)
  PROVE  NodeCommands'
<1>0. TypeOK /\ NodeCommands
  BY DEF SchedInv
<1>1. /\ <<n, p>> \in completing /\ completing' = completing \ {<<n, p>>}
      /\ host_q' = Append(host_q, <<n, p>>)
      /\ UNCHANGED <<free_q, executed, host>>
  BY DEF NodeComplete
<1>2. InFlight' = InFlight
  BY <1>1 DEF InFlight, Free
<1>3. host_q \in Seq(Nodes \X Pipes) /\ Len(host_q) \in Nat
  BY <1>0, LenProperties DEF TypeOK
<1>4. /\ Len(host_q') = Len(host_q) + 1
      /\ \A i \in 1 .. Len(host_q) : i \in 1 .. Len(host_q') /\ host_q'[i] = host_q[i]
      /\ host_q'[Len(host_q) + 1] = <<n, p>>
      /\ \A i \in 1 .. Len(host_q') : i \in 1 .. Len(host_q) \/ i = Len(host_q) + 1
  BY <1>1, <1>3, AppendProperties
<1>5. ASSUME NEW i \in 0 .. Len(host_q), NEW q \in Pipes, LeafBehind(i, q)
      PROVE  LeafBehind(i, q)'
  <2>1. PICK l \in Leaves : \/ l \notin executed[q] \/ <<l, q>> \in completing
                            \/ \E j \in i + 1 .. Len(host_q) : host_q[j] = <<l, q>>
    BY <1>5 DEF LeafBehind
  <2>2. CASE l \notin executed[q] \/ <<l, q>> \in completing'
    BY <1>1, <2>2 DEF LeafBehind
  <2>3. CASE l = n /\ q = p
    <3>1. Len(host_q) + 1 \in i + 1 .. Len(host_q')
      BY <1>3, <1>4
    <3> QED BY <1>4, <2>3, <3>1 DEF LeafBehind
  <2>4. CASE \E j \in i + 1 .. Len(host_q) : host_q[j] = <<l, q>>
    <3>1. PICK j \in i + 1 .. Len(host_q) : host_q[j] = <<l, q>>
      BY <2>4
    <3>2. j \in i + 1 .. Len(host_q') /\ j \in 1 .. Len(host_q)
      BY <1>3, <1>4
    <3> QED BY <1>4, <3>1, <3>2 DEF LeafBehind
  <2> QED BY <1>1, <2>1, <2>2, <2>3, <2>4
<1>6. \A q \in Pipes : \A m \in executed'[q] : InNodes[m] \subseteq executed'[q]
  BY <1>0, <1>1 DEF NodeCommands
<1>7. ASSUME NEW m \in Nodes \ Leaves, NEW q \in Pipes, <<m, q>> \in completing'
      PROVE  q \in InFlight' /\ \A k \in executed'[q] : m \notin InNodes[k]
  BY <1>0, <1>1, <1>2, <1>7 DEF NodeCommands
<1>8. ASSUME NEW m \in Nodes \ Leaves, NEW q \in Pipes,
             NEW i \in 1 .. Len(host_q'), host_q'[i] = <<m, q>>
      PROVE  q \in InFlight' /\ LeafBehind(i, q)'
  <2>1. CASE i \in 1 .. Len(host_q)
    <3>1. q \in InFlight /\ LeafBehind(i, q) /\ i \in 0 .. Len(host_q)
      BY <1>0, <1>3, <1>4, <1>8, <2>1 DEF NodeCommands
    <3> QED BY <1>2, <1>5, <3>1
  <2>2. CASE i = Len(host_q) + 1
    <3>1. m = n /\ q = p
      BY <1>4, <1>8, <2>2
    <3>2. q \in InFlight /\ \A k \in executed[q] : m \notin InNodes[k]
      BY <1>0, <1>1, <3>1 DEF NodeCommands
    <3>3. PICK k \in Nodes : m \in InNodes[k]
      BY DEF Leaves
    <3>4. PICK l \in Leaves : l \notin executed[q]
      BY <1>0, <3>2, <3>3, LeafStillToRun
    <3> QED BY <1>1, <1>2, <3>2, <3>4 DEF LeafBehind
  <2> QED BY <1>4, <2>1, <2>2
<1>9. ASSUME NEW m \in Nodes \ Leaves, NEW q \in Pipes,
             host'.pc = "action", host'.node = m, host'.pipe = q
      PROVE  q \in InFlight' /\ LeafBehind(0, q)'
  <2>1. q \in InFlight /\ LeafBehind(0, q) /\ 0 \in 0 .. Len(host_q)
    BY <1>0, <1>1, <1>3, <1>9 DEF NodeCommands
  <2> QED BY <1>2, <1>5, <2>1
<1> QED BY <1>0, <1>1, <1>6, <1>7, <1>8, <1>9 DEF NodeCommands

LEMMA CommandsNext ==
  ASSUME InputsOnOneTarget, SchedInv, NodeCommands, [Next]_vars
  PROVE  NodeCommands'
<1>1. ASSUME NEW a \in Apps, AppNext(a) PROVE NodeCommands'
  <2>1. CASE AppSchedule(a)
    <3>1. app[a].n \in Nat /\ OwnGraphScheduleGraph(app[a].n)
          /\ UNCHANGED <<completing, host_q, host>>
      BY <2>1 DEF AppSchedule, SchedInv, TypeOK, AppStates
    <3> QED BY <3>1, CommandsSchedule
  <2>2. CASE WaitEvent(a)
    BY <2>2, CommandsCall DEF WaitEvent
  <2>3. CASE \/ VxScheduleGraph(a) \/ VxEnqueueReadyRef(a) \/ EnqueueRef(a)
             \/ EnqueueRefused(a) \/ VxWaitGraph(a) \/ WaitReturn(a)
    BY <2>3, CommandsCall DEF VxScheduleGraph, ScheduleCall, VxEnqueueReadyRef, EnqueueRef,
       EnqueueRefused, VxWaitGraph, WaitReturn, sched_vars
  <2> QED BY <1>1, <2>1, <2>2, <2>3 DEF AppNext
<1>2. CASE HostReschedule
  <2>1. host.schedule_count \in Nat
    BY DEF SchedInv, TypeOK, HostStates
  <2> QED BY <1>2, <2>1, CommandsSchedule DEF HostReschedule
<1>3. CASE UNCHANGED vars
  BY <1>3, CommandsCall DEF vars, sched_vars
<1> QED BY <1>1, <1>2, <1>3, CommandsTake, CommandsLeaf, CommandsCompleted, CommandsAction,
     CommandsExecute, CommandsComplete DEF Next, HostNext

LEMMA CommandsInFlight ==
  ASSUME InputsOnOneTarget
  PROVE  Spec => []NodeCommands
  BY CommandsInit, CommandsNext, Invariance, PTL DEF Spec

-----------------------------------------------------------------------------
\* Callbacks that abandon an execution.

\* An execution in flight is marked ABANDONED once a callback of its own has said so,
\* and the host task has come to look at the action.
AbandonMarks ==
    /\ host.abandon => host.pc = "action" /\ host.node \in Abandoners
    /\ \A p \in InFlight :
          /\ desc_state[p] \in {"RUNNING", "ABANDONED"}
          /\ abandon_seen[p] <=> \/ desc_state[p] = "ABANDONED"
                                 \/ host.abandon /\ host.pipe = p

AbandonInv == NodeCommands /\ AbandonMarks /\ AbandonReported

LEMMA AbandonInit == Init => AbandonInv
<1> SUFFICES ASSUME Init PROVE AbandonInv
  OBVIOUS
<1> USE DEF Init
<1>1. NodeCommands
  BY CommandsInit
<1>2. InFlight = {}
  <2>1. \A p \in Pipes : p + 1 \in 1 .. Depth /\ (p + 1) - 1 = p
    BY DepthAssumption DEF Pipes
  <2>2. Len(free_q) = Depth
    BY DepthAssumption, LenProperties DEF Pipes
  <2> QED BY <2>1, <2>2 DEF InFlight, Free
<1>3. AbandonMarks
  BY <1>2 DEF AbandonMarks, IdleHost
<1>4. AbandonReported
  BY DEF AbandonReported
<1> QED BY <1>1, <1>3, <1>4 DEF AbandonInv

\* A call that only changes what the thread itself knows, or takes the event.
LEMMA AbandonCall ==
  ASSUME AbandonInv,
         UNCHANGED <<free_q, desc_state, executed, completing, graph_state, abandon_seen,
                     host_q, host, last_abandoned>>,
         completed_event' => completed_event
  PROVE  AbandonInv'
<1>1. NodeCommands'
  BY CommandsCall DEF AbandonInv
<1>2. AbandonMarks' /\ AbandonReported'
  BY DEF AbandonInv, AbandonMarks, AbandonReported, InFlight, Free
<1> QED BY <1>1, <1>2 DEF AbandonInv

\* ownGraphScheduleGraph: executions that start have no mark.
LEMMA AbandonSchedule ==
  ASSUME Abandoners \cap Leaves = {}, SchedInv, AbandonInv, NEW num \in Nat, OwnGraphScheduleGraph(num),
         UNCHANGED <<completing, host_q, last_abandoned>>,
         \/ UNCHANGED host
         \/ /\ host.pc = "reschedule"
            /\ host' = [host EXCEPT !.pc = "action", !.schedule_count = 0]
  PROVE  AbandonInv'
<1>0. /\ TypeOK /\ DescriptorsConserved /\ NodeCommands /\ AbandonMarks /\ AbandonReported
  BY DEF SchedInv, AbandonInv
<1>1. /\ Free' \subseteq Free
      /\ {free_q[i] : i \in 1 .. NumStarted(num)} = Free \ Free'
  BY <1>0, ScheduleFreeQueue
<1>2. \A p \in Pipes :
        /\ executed'[p] = IF p \in Free \ Free' THEN {} ELSE executed[p]
        /\ desc_state'[p] = IF p \in Free \ Free' THEN "RUNNING" ELSE desc_state[p]
        /\ abandon_seen'[p] = (p \notin Free \ Free' /\ abandon_seen[p])
  BY <1>1 DEF OwnGraphScheduleGraph
<1>3. \A p \in InFlight : p \in InFlight' /\ p \notin Free \ Free'
  BY <1>1 DEF InFlight
<1>4. \A p \in InFlight' : p \in InFlight \/ p \in Free \ Free'
  BY <1>1 DEF InFlight
<1>5. /\ host'.node = host.node /\ host'.pipe = host.pipe /\ host'.abandon = host.abandon
      /\ host'.pc # host.pc => host.pc = "reschedule" /\ host'.pc = "action"
  BY <1>0 DEF TypeOK, HostStates
<1>7. NodeCommands'
  BY <1>0, CommandsSchedule
<1>8. AbandonMarks'
  <2>1. host'.abandon => host'.pc = "action" /\ host'.node \in Abandoners
    BY <1>0, <1>5 DEF AbandonMarks
  <2>2. ASSUME NEW p \in InFlight'
        PROVE  /\ desc_state'[p] \in {"RUNNING", "ABANDONED"}
               /\ abandon_seen'[p] <=> \/ desc_state'[p] = "ABANDONED"
                                       \/ host'.abandon /\ host'.pipe = p
    <3>1. CASE p \in InFlight
      BY <1>0, <1>2, <1>3, <1>5, <3>1 DEF AbandonMarks, InFlight
    <3>2. CASE p \in Free \ Free'
      <4>1. ~(host.abandon /\ host.pipe = p)
        BY <1>0, <3>2, NodesAssumption DEF AbandonMarks, NodeCommands, InFlight
      <4> QED BY <1>2, <1>5, <2>2, <3>2, <4>1 DEF InFlight
    <3> QED BY <1>4, <3>1, <3>2
  <2> QED BY <2>1, <2>2 DEF AbandonMarks
<1>9. AbandonReported'
  <2> SUFFICES ASSUME completed_event'
               PROVE  graph_state' = "ABANDONED" <=> last_abandoned'
    BY DEF AbandonReported
  <2>1. completed_event /\ NumStarted(num) = 0
    BY DEF OwnGraphScheduleGraph, EventAfterSchedule
  <2>2. graph_state' = graph_state
    BY <2>1 DEF OwnGraphScheduleGraph
  <2> QED BY <1>0, <2>1, <2>2 DEF AbandonReported
<1> QED BY <1>7, <1>8, <1>9 DEF AbandonInv

LEMMA AbandonTake ==
  ASSUME Abandoners \cap Leaves = {}, SchedInv, AbandonInv, HostTake
  PROVE  AbandonInv'
<1>0. /\ TypeOK /\ LeafCommands /\ NodeCommands /\ AbandonMarks /\ AbandonReported
  BY DEF SchedInv, AbandonInv
<1>1. host_q \in Seq(Nodes \X Pipes) /\ host_q # <<>> /\ host.pc = "idle"
  BY <1>0 DEF TypeOK, HostTake
<1>2. /\ Head(host_q) \in Nodes \X Pipes /\ host_q' = Tail(host_q)
      /\ Len(host_q) \in Nat /\ Len(host_q') = Len(host_q) - 1 /\ Len(host_q) > 0
      /\ \A i \in 1 .. Len(host_q') : host_q'[i] = host_q[i + 1]
      /\ Head(host_q) = host_q[1]
  <2>1. host_q' = Tail(host_q)
    BY DEF HostTake
  <2>2. Len(host_q) \in Nat \ {0}
    BY <1>1, EmptySeq
  <2> QED BY <1>1, <2>1, <2>2, HeadTailProperties
<1>3. PICK n \in Nodes, p \in Pipes : host_q[1] = <<n, p>>
  BY <1>2
<1>4. PICK abandon \in BOOLEAN :
        /\ abandon => n \in Abandoners
        /\ host' = [pc |-> IF n \in Leaves THEN "check" ELSE "action",
                    node |-> n, pipe |-> p, abandon |-> abandon, schedule_count |-> 0]
        /\ abandon_seen' = [abandon_seen EXCEPT ![p] = abandon_seen[p] \/ abandon]
  <2>1. Head(host_q)[1] = n /\ Head(host_q)[2] = p
    BY <1>2, <1>3
  <2>2. \E abandon \in {FALSE} \cup {n \in Abandoners} :
          /\ host' = [pc |-> IF n \in Leaves THEN "check" ELSE "action",
                      node |-> n, pipe |-> p, abandon |-> abandon, schedule_count |-> 0]
          /\ abandon_seen' = [abandon_seen EXCEPT ![p] = abandon_seen[p] \/ abandon]
    BY <2>1 DEF HostTake
  <2> QED BY <2>2
<1>5. UNCHANGED <<free_q, desc_state, executed, completing, graph_state,
                  completed_event, last_abandoned>>
  BY DEF HostTake
<1>6. InFlight' = InFlight /\ ~host.abandon
  BY <1>0, <1>1, <1>5 DEF InFlight, Free, AbandonMarks
<1>8. NodeCommands'
  BY <1>0, CommandsTake
<1>9. AbandonMarks'
  <2>1. host'.abandon => host'.pc = "action" /\ host'.node \in Abandoners
    BY <1>4
  <2>2. ASSUME NEW q \in InFlight
        PROVE  /\ desc_state'[q] \in {"RUNNING", "ABANDONED"}
               /\ abandon_seen'[q] <=> \/ desc_state'[q] = "ABANDONED"
                                       \/ host'.abandon /\ host'.pipe = q
    <3>1. host'.abandon = abandon /\ host'.pipe = p /\ q \in Pipes
      BY <1>4 DEF InFlight
    <3>2. abandon_seen'[q] = (abandon_seen[q] \/ (abandon /\ q = p))
      BY <1>0, <1>4, <3>1 DEF TypeOK
    <3> QED BY <1>0, <1>5, <1>6, <3>1, <3>2 DEF AbandonMarks
  <2> QED BY <1>6, <2>1, <2>2 DEF AbandonMarks
<1> QED BY <1>0, <1>5, <1>8, <1>9 DEF AbandonInv, AbandonReported

LEMMA AbandonLeaf ==
  ASSUME SchedInv, AbandonInv, LeafCompleted
  PROVE  AbandonInv'
<1>0. TypeOK /\ NodeCommands /\ AbandonMarks /\ AbandonReported
  BY DEF SchedInv, AbandonInv
<1>1. /\ host.pc = "check" /\ host' = [host EXCEPT !.pc = "action"]
      /\ UNCHANGED <<free_q, desc_state, executed, completing, graph_state,
                     completed_event, abandon_seen, host_q, last_abandoned>>
  BY DEF LeafCompleted, sched_vars
<1>2. /\ InFlight' = InFlight /\ ~host.abandon
      /\ \A i, p : LeafBehind(i, p)' <=> LeafBehind(i, p)
  BY <1>0, <1>1 DEF InFlight, Free, AbandonMarks, LeafBehind
<1>3. /\ host'.pc = "action" /\ host'.node = host.node /\ host'.abandon = host.abandon
      /\ host'.node \in Leaves
  BY <1>0, <1>1 DEF TypeOK, HostStates, NodeCommands
<1>4. NodeCommands'
  BY <1>0, CommandsLeaf
<1> QED BY <1>0, <1>1, <1>2, <1>3, <1>4 DEF AbandonInv, AbandonMarks, AbandonReported

LEMMA AbandonCompleted ==
  ASSUME SchedInv, AbandonInv, GraphCompleted
  PROVE  AbandonInv'
<1>0. /\ TypeOK /\ DescriptorsConserved /\ CompletedEventMeansIdle
      /\ NodeCommands /\ AbandonMarks /\ AbandonReported
  BY DEF SchedInv, AbandonInv
<1>a. PICK p \in Pipes : p = host.pipe
  BY <1>0 DEF TypeOK, HostStates
<1>1. /\ host.pc = "check" /\ IsLastLeaf(p)
      /\ desc_state' = [desc_state EXCEPT ![p] = EndState(p)]
      /\ graph_state' = IF submitted_count = 1 THEN EndState(p) ELSE graph_state
      /\ free_q' = Append(free_q, p)
      /\ completed_event' = (completed_event \/ AllCompleted)
      /\ last_abandoned' = IF submitted_count = 1 THEN abandon_seen[p] ELSE last_abandoned
      /\ UNCHANGED <<executed, completing, abandon_seen, host_q>>
  BY <1>a DEF GraphCompleted, FreeQueueWith, StateAfterCompletion
<1>2. /\ p \in InFlight
      /\ \A n \in Leaves : n \in executed[p] /\ <<n, p>> \notin completing /\ ~Queued(n, p)
  BY <1>a, <1>1, LastLeafReported
<1>3. InFlight' = InFlight \ {p}
  <2>1. /\ Len(free_q) \in Nat /\ Len(free_q') = Len(free_q) + 1
        /\ \A i \in 1 .. Len(free_q) : free_q'[i] = free_q[i]
        /\ free_q'[Len(free_q) + 1] = p
    BY <1>0, <1>1, AppendProperties, LenProperties DEF TypeOK
  <2>2. 1 .. Len(free_q) + 1 = (1 .. Len(free_q)) \cup {Len(free_q) + 1}
    BY <2>1
  <2> QED BY <2>1, <2>2 DEF InFlight, Free
<1>4. /\ host'.pc \in {"reschedule", "action"} /\ host'.node = host.node
      /\ host'.abandon = host.abandon /\ ~host.abandon /\ host.node \in Leaves
  BY <1>0, <1>1 DEF GraphCompleted, TypeOK, HostStates, NodeCommands, AbandonMarks
<1>7. NodeCommands'
  BY <1>0, CommandsCompleted
<1>8. AbandonMarks'
  <2>1. \A q \in InFlight' : q \in InFlight /\ q # p /\ desc_state'[q] = desc_state[q]
    BY <1>0, <1>1, <1>3 DEF TypeOK, InFlight
  <2> QED BY <1>0, <1>1, <1>4, <2>1 DEF AbandonMarks
<1>9. AbandonReported'
  <2> SUFFICES ASSUME completed_event'
               PROVE  graph_state' = "ABANDONED" <=> last_abandoned'
    BY DEF AbandonReported
  <2>1. submitted_count > 0 /\ submitted_count \in Nat
    BY <1>0, <1>2, InFlightSubmitted DEF TypeOK
  <2>2. ~completed_event
    BY <1>0, <2>1 DEF CompletedEventMeansIdle
  <2>3. submitted_count = 1
    BY <1>1, <2>2 DEF AllCompleted
  <2>4. graph_state' = EndState(p) /\ last_abandoned' = abandon_seen[p]
    BY <1>1, <2>3
  <2>5. abandon_seen[p] <=> desc_state[p] = "ABANDONED"
    BY <1>0, <1>2, <1>4 DEF AbandonMarks
  <2>6. EndState(p) = "ABANDONED" <=> desc_state[p] = "ABANDONED"
    BY DEF EndState
  <2> QED BY <2>4, <2>5, <2>6
<1> QED BY <1>7, <1>8, <1>9 DEF AbandonInv

LEMMA AbandonAction ==
  ASSUME SchedInv, AbandonInv, HostAction
  PROVE  AbandonInv'
<1>0. TypeOK /\ NodeCommands /\ AbandonMarks /\ AbandonReported
  BY DEF SchedInv, AbandonInv
<1>1. /\ UNCHANGED <<free_q, executed, completing, graph_state, completed_event,
                     abandon_seen, host_q, last_abandoned>>
      /\ host.pc = "action" /\ host' = IdleHost
      /\ desc_state' = IF host.abandon THEN [desc_state EXCEPT ![host.pipe] = "ABANDONED"]
                       ELSE desc_state
  BY DEF HostAction, AbandonedPipe
<1>2. /\ InFlight' = InFlight /\ host'.pc = "idle" /\ ~host'.abandon
      /\ \A i, p : LeafBehind(i, p)' <=> LeafBehind(i, p)
  BY <1>1 DEF InFlight, Free, LeafBehind, IdleHost
<1>3. NodeCommands'
  BY <1>0, CommandsAction
<1>4. AbandonMarks'
  <2>1. ASSUME NEW p \in InFlight
        PROVE  desc_state'[p] = IF host.abandon /\ host.pipe = p THEN "ABANDONED"
                                ELSE desc_state[p]
    BY <1>0, <1>1, <2>1 DEF TypeOK, InFlight
  <2> QED BY <1>0, <1>1, <1>2, <2>1 DEF AbandonMarks
<1> QED BY <1>0, <1>1, <1>3, <1>4 DEF AbandonInv, AbandonReported

\* A node runs, or sends its command.
LEMMA AbandonTarget ==
  ASSUME InputsOnOneTarget, SchedInv, AbandonInv, NEW n \in Nodes, NEW p \in Pipes,
         NodeExecute(n, p) \/ NodeComplete(n, p)
  PROVE  AbandonInv'
<1>0. NodeCommands /\ AbandonMarks /\ AbandonReported
  BY DEF AbandonInv
<1>1. UNCHANGED <<free_q, desc_state, graph_state, completed_event, abandon_seen, host,
                  last_abandoned>>
  BY DEF NodeExecute, NodeComplete
<1>2. NodeCommands'
  BY <1>0, CommandsExecute, CommandsComplete
<1> QED BY <1>0, <1>1, <1>2 DEF AbandonInv, AbandonMarks, AbandonReported, InFlight, Free

LEMMA AbandonNext ==
  ASSUME InputsOnOneTarget, Abandoners \cap Leaves = {}, SchedInv, AbandonInv, [Next]_vars
  PROVE  AbandonInv'
<1>1. ASSUME NEW a \in Apps, AppNext(a) PROVE AbandonInv'
  <2>1. CASE AppSchedule(a)
    <3>1. app[a].n \in Nat /\ OwnGraphScheduleGraph(app[a].n)
          /\ UNCHANGED <<completing, host_q, host, last_abandoned>>
      BY <2>1 DEF AppSchedule, SchedInv, TypeOK, AppStates
    <3> QED BY <3>1, AbandonSchedule
  <2>2. CASE WaitEvent(a)
    BY <2>2, AbandonCall DEF WaitEvent
  <2>3. CASE \/ VxScheduleGraph(a) \/ VxEnqueueReadyRef(a) \/ EnqueueRef(a)
             \/ EnqueueRefused(a) \/ VxWaitGraph(a) \/ WaitReturn(a)
    BY <2>3, AbandonCall DEF VxScheduleGraph, ScheduleCall, VxEnqueueReadyRef, EnqueueRef,
       EnqueueRefused, VxWaitGraph, WaitReturn, sched_vars
  <2> QED BY <1>1, <2>1, <2>2, <2>3 DEF AppNext
<1>2. CASE HostReschedule
  <2>1. host.schedule_count \in Nat
    BY DEF SchedInv, TypeOK, HostStates
  <2> QED BY <1>2, <2>1, AbandonSchedule DEF HostReschedule
<1>3. CASE UNCHANGED vars
  BY <1>3, AbandonCall DEF vars, sched_vars
<1> QED BY <1>1, <1>2, <1>3, AbandonTake, AbandonLeaf, AbandonCompleted, AbandonAction,
     AbandonTarget DEF Next, HostNext

\* When no leaf node's callback abandons, and the input nodes of every node are on one
\* target, a callback's verdict is on its own execution ...
THEOREM AbandonsOwn ==
  ASSUME InputsOnOneTarget, Abandoners \cap Leaves = {}
  PROVE  Spec => []AbandonIsOwn
<1>1. AbandonInv => AbandonIsOwn
  BY DEF AbandonInv, AbandonMarks, AbandonIsOwn
<1> QED BY <1>1, AbandonInit, AbandonNext, Invariance, PTL DEF Spec

\* ... and graph->state reports it.
THEOREM AbandonsReported ==
  ASSUME InputsOnOneTarget, Abandoners \cap Leaves = {}
  PROVE  Spec => []AbandonReported
<1>1. AbandonInv => AbandonReported
  BY DEF AbandonInv
<1> QED BY <1>1, AbandonInit, AbandonNext, Invariance, PTL DEF Spec

-----------------------------------------------------------------------------
\* The input references of a graph in the AUTO mode.

\* The executions in flight that have not taken their input reference.
Unfed == {p \in InFlight : ParamNode \notin executed[p]}

\* The references that enqueue calls have put into the ready queue and not yet
\* scheduled the graph for: the i-th one of thread a's call.
Unscheduled == {r \in Apps \X Nat : /\ app[r[1]].pc \in {"enqueue", "schedule"}
                                    /\ r[2] \in 1 .. app[r[1]].n}

\* Every reference in the ready queue is spoken for once at most.
RefsInv ==
    /\ IsFiniteSet(Unscheduled)
    /\ schedule_pending_count + host.schedule_count + Cardinality(Unfed)
         + Cardinality(Unscheduled) <= ready

LEMMA UnfedFinite == IsFiniteSet(Unfed) /\ Cardinality(Unfed) \in Nat
<1>1. Unfed \in SUBSET Pipes
  BY DEF Unfed, InFlight
<1> QED BY <1>1, PipesFinite, FS_Subset, FS_CardinalityType

LEMMA RefsInit == Init => RefsInv
<1> SUFFICES ASSUME Init PROVE RefsInv
  OBVIOUS
<1>1. Unscheduled = {}
  BY DEF Init, Unscheduled, IdleApp
<1>2. Unfed = {}
  <2>1. \A p \in Pipes : p + 1 \in 1 .. Depth /\ (p + 1) - 1 = p
    BY DepthAssumption DEF Pipes
  <2>2. Len(free_q) = Depth /\ free_q = [i \in 1 .. Depth |-> i - 1]
    BY DepthAssumption, LenProperties DEF Init, Pipes
  <2> QED BY <2>1, <2>2 DEF Unfed, InFlight, Free
<1> QED BY <1>1, <1>2, FS_EmptySet DEF RefsInv, Init, IdleHost

\* A step that gives no execution a descriptor and takes nothing from the ready queue.
LEMMA RefsCall ==
  ASSUME SchedInv, RefsInv, ready' \in Nat, ready <= ready', Unfed' \subseteq Unfed,
         schedule_pending_count' + host'.schedule_count
           = schedule_pending_count + host.schedule_count,
         \/ Unscheduled' \subseteq Unscheduled
         \/ \E t : Unscheduled' = Unscheduled \cup {t} /\ ready < ready'
  PROVE  RefsInv'
<1>1. /\ schedule_pending_count \in Nat /\ host.schedule_count \in Nat /\ ready \in Nat
  BY DEF SchedInv, TypeOK, HostStates
<1>2. IsFiniteSet(Unscheduled) /\ Cardinality(Unscheduled) \in Nat
  BY FS_CardinalityType DEF RefsInv
<1>3. /\ Cardinality(Unfed) \in Nat /\ Cardinality(Unfed') \in Nat
      /\ Cardinality(Unfed') <= Cardinality(Unfed)
  BY UnfedFinite, FS_Subset, FS_CardinalityType
<1>4. CASE Unscheduled' \subseteq Unscheduled
  <2>1. /\ IsFiniteSet(Unscheduled') /\ Cardinality(Unscheduled') \in Nat
        /\ Cardinality(Unscheduled') <= Cardinality(Unscheduled)
    BY <1>2, <1>4, FS_Subset, FS_CardinalityType
  <2> QED BY <1>1, <1>2, <1>3, <2>1 DEF RefsInv
<1>5. ASSUME NEW t, Unscheduled' = Unscheduled \cup {t}, ready < ready' PROVE RefsInv'
  <2>0. /\ IsFiniteSet(Unscheduled \cup {t})
        /\ Cardinality(Unscheduled \cup {t}) \in Nat
        /\ Cardinality(Unscheduled \cup {t}) <= Cardinality(Unscheduled) + 1
    <3>1. IsFiniteSet(Unscheduled \cup {t})
      BY <1>2, FS_AddElement
    <3>2. Cardinality(Unscheduled \cup {t}) = IF t \in Unscheduled THEN Cardinality(Unscheduled)
                                             ELSE Cardinality(Unscheduled) + 1
      BY <1>2, FS_AddElement
    <3> QED BY <1>2, <3>1, <3>2
  <2>1. /\ IsFiniteSet(Unscheduled') /\ Cardinality(Unscheduled') \in Nat
        /\ Cardinality(Unscheduled') <= Cardinality(Unscheduled) + 1
    BY <1>5, <2>0
  <2> QED BY <1>1, <1>2, <1>3, <1>5, <2>1 DEF RefsInv
<1> QED BY <1>4, <1>5

\* ownGraphScheduleGraph: an execution that starts is one that was pending or asked for.
LEMMA RefsSchedule ==
  ASSUME Mode = "AUTO", SchedInv, RefsInv, NEW num \in Nat, OwnGraphScheduleGraph(num)
  PROVE  /\ schedule_pending_count' \in Nat
         /\ schedule_pending_count' + Cardinality(Unfed')
              <= schedule_pending_count + num + Cardinality(Unfed)
<1> DEFINE k == NumStarted(num)
           started == {free_q[i] : i \in 1 .. k}
<1>0. TypeOK /\ DescriptorsConserved
  BY DEF SchedInv
<1>1. /\ k \in 0 .. Len(free_q) /\ Len(free_q) \in Nat /\ free_q \in Seq(Pipes)
      /\ k <= num + schedule_pending_count /\ schedule_pending_count \in Nat
  BY <1>0, NumStartedBounds, LenProperties DEF TypeOK
<1>2. schedule_pending_count' = num + schedule_pending_count - k
  BY DEF OwnGraphScheduleGraph, NumLeftPending, RemembersPending
<1>3. IsFiniteSet(started) /\ Cardinality(started) <= k /\ Cardinality(started) \in Nat
  <2>1. k \in Nat /\ [i \in 1 .. k |-> free_q[i]] \in Surjection(1 .. k, started)
    <3> DEFINE f == [i \in 1 .. k |-> free_q[i]]
    <3>1. f \in [1 .. k -> started]
      OBVIOUS
    <3>2. \A p \in started : \E i \in 1 .. k : f[i] = p
      OBVIOUS
    <3> HIDE DEF f
    <3>3. f \in Surjection(1 .. k, started)
      BY <3>1, <3>2, Zenon DEF Surjection
    <3> QED BY <1>1, <3>3 DEF f
  <2>2. IsFiniteSet(1 .. k) /\ Cardinality(1 .. k) = k
    BY <2>1, FS_Interval
  <2> QED BY <2>1, <2>2, FS_Surjection, FS_CardinalityType
<1>4. Unfed' \subseteq Unfed \cup started
  <2>1. Free \ Free' = started
    BY <1>0, ScheduleFreeQueue
  <2>2. \A p \in Pipes : p \notin started => executed'[p] = executed[p]
    BY DEF OwnGraphScheduleGraph
  <2> QED BY <2>1, <2>2 DEF Unfed, InFlight
<1>5. Cardinality(Unfed') <= Cardinality(Unfed) + Cardinality(started)
  <2>1. /\ IsFiniteSet(Unfed \cup started)
        /\ Cardinality(Unfed \cup started)
             = Cardinality(Unfed) + Cardinality(started) - Cardinality(Unfed \cap started)
    BY <1>3, UnfedFinite, FS_Union
  <2>2. Cardinality(Unfed') <= Cardinality(Unfed \cup started)
    BY <1>4, <2>1, FS_Subset
  <2>3. Cardinality(Unfed \cap started) \in Nat /\ Cardinality(Unfed') \in Nat
        /\ Cardinality(Unfed) \in Nat
    BY UnfedFinite, FS_Intersection, FS_CardinalityType, PipesFinite, FS_Subset
       DEF Unfed, InFlight
  <2> QED BY <1>3, <2>1, <2>2, <2>3
<1>6. Cardinality(Unfed) \in Nat /\ Cardinality(Unfed') \in Nat
  <2>1. Unfed' \subseteq Pipes
    BY DEF Unfed, InFlight, Pipes
  <2> QED BY <2>1, UnfedFinite, PipesFinite, FS_Subset, FS_CardinalityType
<1> HIDE DEF k, started
<1> QED BY <1>1, <1>2, <1>3, <1>5, <1>6

\* The tokens of a thread that has scheduled the graph for its references.
LEMMA UnscheduledLess ==
  ASSUME SchedInv, IsFiniteSet(Unscheduled), NEW a \in Apps, app[a].pc = "schedule",
         NEW s, s.pc = "idle", app' = [app EXCEPT ![a] = s]
  PROVE  /\ IsFiniteSet(Unscheduled') /\ Cardinality(Unscheduled') \in Nat
         /\ Cardinality(Unscheduled) = Cardinality(Unscheduled') + app[a].n
<1> DEFINE own == {a} \X (1 .. app[a].n)
<1>1. app \in [Apps -> AppStates] /\ app[a].n \in Nat
  BY DEF SchedInv, TypeOK, AppStates
<1>2. own \subseteq Unscheduled
  BY <1>1 DEF Unscheduled
<1>3. Unscheduled' = Unscheduled \ own
  <2>1. \A b \in Apps : app'[b] = IF b = a THEN s ELSE app[b]
    BY <1>1
  <2> DEFINE Of(r) == app[r[1]].pc \in {"enqueue", "schedule"} /\ r[2] \in 1 .. app[r[1]].n
  <2>2. ASSUME NEW r \in Apps \X Nat
        PROVE  Of(r)' <=> Of(r) /\ r \notin own
    <3>1. PICK b \in Apps, i \in Nat : r = <<b, i>>
      OBVIOUS
    <3>2. CASE b = a
      BY <2>1, <3>1, <3>2
    <3>3. CASE b # a
      BY <2>1, <3>1, <3>3
    <3> QED BY <3>2, <3>3
  <2> QED BY <2>2 DEF Unscheduled
<1>4. IsFiniteSet(own) /\ Cardinality(own) = app[a].n
  <2>1. IsFiniteSet({a}) /\ Cardinality({a}) = 1
    BY FS_Singleton
  <2>2. IsFiniteSet(1 .. app[a].n) /\ Cardinality(1 .. app[a].n) = app[a].n
    <3>1. PICK num \in Nat : num = app[a].n
      BY <1>1
    <3>2. IsFiniteSet(1 .. num) /\ Cardinality(1 .. num) = num
      BY FS_Interval
    <3> QED BY <3>1, <3>2
  <2> QED BY <1>1, <2>1, <2>2, FS_Product
<1>5. Unscheduled \cap own = own
  BY <1>2
<1> HIDE DEF own
<1>6. /\ IsFiniteSet(Unscheduled \ own)
      /\ Cardinality(Unscheduled \ own) = Cardinality(Unscheduled) - Cardinality(own)
  <2>1. Cardinality(Unscheduled \ own)
          = Cardinality(Unscheduled) - Cardinality(Unscheduled \cap own)
    BY FS_Difference
  <2> QED BY <1>5, <2>1, FS_Difference
<1>7. Cardinality(Unscheduled \ own) \in Nat /\ Cardinality(Unscheduled) \in Nat
  BY <1>6, FS_CardinalityType
<1> QED BY <1>1, <1>3, <1>4, <1>6, <1>7

LEMMA RefsAppNext ==
  ASSUME Mode = "AUTO", SchedInv, SchedInv', RefsInv, NEW a \in Apps, AppNext(a)
  PROVE  RefsInv'
<1>0. /\ TypeOK /\ TypeOK' /\ app \in [Apps -> AppStates] /\ app[a].n \in Nat
      /\ schedule_pending_count \in Nat /\ host.schedule_count \in Nat
      /\ ready \in Nat /\ ready' \in Nat
  BY DEF SchedInv, TypeOK, AppStates, HostStates
<1>1. CASE AppSchedule(a)
  <2> DEFINE num == app[a].n
  <2>1. /\ OwnGraphScheduleGraph(num) /\ app[a].pc = "schedule"
        /\ UNCHANGED <<ready, host>>
    BY <1>1 DEF AppSchedule
  <2>2. PICK s : app' = [app EXCEPT ![a] = s] /\ s.pc = "idle"
    <3>1. PICK status : app' = [app EXCEPT ![a] = IdleApp(status)]
      BY <1>1 DEF AppSchedule
    <3>2. IdleApp(status).pc = "idle"
      BY DEF IdleApp
    <3> QED BY <3>1, <3>2
  <2>3. /\ IsFiniteSet(Unscheduled') /\ Cardinality(Unscheduled') \in Nat
        /\ Cardinality(Unscheduled) = Cardinality(Unscheduled') + num
    BY <2>1, <2>2, UnscheduledLess DEF RefsInv
  <2>4. /\ schedule_pending_count' \in Nat
        /\ schedule_pending_count' + Cardinality(Unfed')
             <= schedule_pending_count + num + Cardinality(Unfed)
    BY <1>0, <2>1, RefsSchedule
  <2>5. Cardinality(Unfed) \in Nat /\ Cardinality(Unfed') \in Nat
    <3>1. Unfed' \subseteq Pipes
      BY DEF Unfed, InFlight, Pipes
    <3> QED BY <3>1, UnfedFinite, PipesFinite, FS_Subset, FS_CardinalityType
  <2>6. host'.schedule_count = host.schedule_count /\ ready' = ready
    BY <2>1
  <2> QED BY <1>0, <2>3, <2>4, <2>5, <2>6 DEF RefsInv
<1>2. CASE EnqueueRef(a)
  <2>1. /\ app[a].pc = "enqueue" /\ ready' = ready + 1
        /\ UNCHANGED <<sched_vars, host>>
    BY <1>2 DEF EnqueueRef
  <2>2. PICK s : /\ app' = [app EXCEPT ![a] = s]
                 /\ s.pc \in {"enqueue", "schedule"} /\ s.n = app[a].n + 1
    <3>1. \/ app' = [app EXCEPT ![a] = InCall("enqueue", app[a].n + 1, app[a].left - 1)]
          \/ app' = [app EXCEPT ![a] = InCall("schedule", app[a].n + 1, 0)]
      BY <1>2 DEF EnqueueRef
    <3>2. \A pc, left : /\ InCall(pc, app[a].n + 1, left).pc = pc
                        /\ InCall(pc, app[a].n + 1, left).n = app[a].n + 1
      BY DEF InCall
    <3>3. InCall("enqueue", app[a].n + 1, app[a].left - 1).pc = "enqueue"
      BY <3>2
    <3>4. InCall("schedule", app[a].n + 1, 0).pc = "schedule"
      BY <3>2
    <3>5. CASE app' = [app EXCEPT ![a] = InCall("enqueue", app[a].n + 1, app[a].left - 1)]
      <4> WITNESS InCall("enqueue", app[a].n + 1, app[a].left - 1)
      <4> QED BY <3>2, <3>3, <3>5
    <3>6. CASE app' = [app EXCEPT ![a] = InCall("schedule", app[a].n + 1, 0)]
      <4> WITNESS InCall("schedule", app[a].n + 1, 0)
      <4> QED BY <3>2, <3>4, <3>6
    <3> QED BY <3>1, <3>5, <3>6
  <2>3. Unscheduled' = Unscheduled \cup {<<a, app[a].n + 1>>}
    <3>1. \A b \in Apps : app'[b] = IF b = a THEN s ELSE app[b]
      BY <1>0, <2>2
    <3>2. 1 .. s.n = (1 .. app[a].n) \cup {app[a].n + 1} /\ app[a].n + 1 \in Nat
      BY <1>0, <2>2
    <3> QED BY <2>1, <2>2, <3>1, <3>2 DEF Unscheduled
  <2>4. Unfed' = Unfed
    BY <2>1 DEF Unfed, InFlight, Free, sched_vars
  <2> QED BY <1>0, <2>1, <2>3, <2>4, RefsCall DEF sched_vars
<1>3. CASE \/ VxEnqueueReadyRef(a) \/ EnqueueRefused(a)
           \/ VxWaitGraph(a) \/ WaitEvent(a) \/ WaitReturn(a)
  <2>1. UNCHANGED <<free_q, executed, schedule_pending_count, host, ready>>
    BY <1>3 DEF VxEnqueueReadyRef, EnqueueRefused, VxWaitGraph, WaitEvent, WaitReturn,
       sched_vars
  <2> DEFINE Silent(s) == s.pc \notin {"enqueue", "schedule"} \/ s.n = 0
  <2>2. PICK s : app' = [app EXCEPT ![a] = s] /\ Silent(s)
    <3>1. CASE WaitEvent(a)
      <4> WITNESS [app[a] EXCEPT !.pc = "waited"]
      <4> QED BY <1>0, <3>1 DEF WaitEvent, AppStates
    <3>2. ASSUME NEW left, app' = [app EXCEPT ![a] = InCall("enqueue", 0, left)]
          PROVE  \E s : app' = [app EXCEPT ![a] = s] /\ Silent(s)
      <4> WITNESS InCall("enqueue", 0, left)
      <4> QED BY <3>2 DEF InCall
    <3>3. ASSUME NEW n, app' = [app EXCEPT ![a] = InCall("wait", n, 0)]
          PROVE  \E s : app' = [app EXCEPT ![a] = s] /\ Silent(s)
      <4> WITNESS InCall("wait", n, 0)
      <4> QED BY <3>3 DEF InCall
    <3>4. ASSUME NEW status, app' = [app EXCEPT ![a] = IdleApp(status)]
          PROVE  \E s : app' = [app EXCEPT ![a] = s] /\ Silent(s)
      <4> WITNESS IdleApp(status)
      <4> QED BY <3>4 DEF IdleApp
    <3>5. CASE \/ VxEnqueueReadyRef(a) \/ EnqueueRefused(a)
               \/ VxWaitGraph(a) \/ WaitReturn(a)
      <4>1. \/ \E left : app' = [app EXCEPT ![a] = InCall("enqueue", 0, left)]
            \/ \E n : app' = [app EXCEPT ![a] = InCall("wait", n, 0)]
            \/ \E status : app' = [app EXCEPT ![a] = IdleApp(status)]
        BY <3>5 DEF VxEnqueueReadyRef, EnqueueRefused, VxWaitGraph, WaitReturn
      <4> QED BY <3>2, <3>3, <3>4, <4>1
    <3> QED BY <1>3, <3>1, <3>5
  <2>3. Unscheduled' \subseteq Unscheduled
    <3>1. \A b \in Apps : app'[b] = IF b = a THEN s ELSE app[b]
      BY <1>0, <2>2
    <3> QED BY <2>2, <3>1 DEF Unscheduled
  <2>4. Unfed' = Unfed
    BY <2>1 DEF Unfed, InFlight, Free
  <2> QED BY <1>0, <2>1, <2>3, <2>4, RefsCall
<1> QED BY <1>1, <1>2, <1>3 DEF AppNext, VxScheduleGraph, ScheduleCall

LEMMA RefsExecute ==
  ASSUME Mode = "AUTO", SchedInv, SchedInv', RefsInv, NEW n \in Nodes, NEW p \in Pipes,
         NodeExecute(n, p)
  PROVE  RefsInv'
<1>0. /\ executed \in [Pipes -> SUBSET Nodes] /\ ready \in Nat /\ ready' \in Nat
      /\ schedule_pending_count \in Nat /\ host.schedule_count \in Nat
  BY DEF SchedInv, TypeOK, HostStates
<1>1. /\ p \in InFlight /\ n \notin executed[p]
      /\ executed' = [executed EXCEPT ![p] = executed[p] \cup {n}]
      /\ UNCHANGED <<free_q, schedule_pending_count, host, app>>
  BY DEF NodeExecute
<1>2. Unscheduled' = Unscheduled
  BY <1>1 DEF Unscheduled
<1>3. CASE n = ParamNode
  <2>1. ready' = ready - 1
    BY <1>3 DEF NodeExecute
  <2>2. p \in Unfed /\ Unfed' = Unfed \ {p}
    BY <1>0, <1>1, <1>3 DEF Unfed, InFlight, Free
  <2>3. Cardinality(Unfed') = Cardinality(Unfed) - 1
    BY <2>2, UnfedFinite, FS_RemoveElement
  <2>4. Cardinality(Unscheduled) \in Nat /\ Cardinality(Unfed) \in Nat
    BY UnfedFinite, FS_CardinalityType DEF RefsInv
  <2> QED BY <1>0, <1>1, <1>2, <2>1, <2>3, <2>4 DEF RefsInv
<1>4. CASE n # ParamNode
  <2>1. ready' = ready
    BY <1>4 DEF NodeExecute
  <2>2. Unfed' = Unfed
    BY <1>0, <1>1, <1>4 DEF Unfed, InFlight, Free
  <2> QED BY <1>0, <1>1, <1>2, <2>1, <2>2, RefsCall
<1> QED BY <1>3, <1>4

LEMMA RefsHostNext ==
  ASSUME Mode = "AUTO", SchedInv, SchedInv', RefsInv, HostNext
  PROVE  RefsInv'
<1>0. /\ TypeOK /\ RestartWindow /\ ready \in Nat /\ host \in HostStates
      /\ schedule_pending_count \in Nat /\ host.schedule_count \in Nat
      /\ free_q \in Seq(Pipes)
  BY DEF SchedInv, TypeOK, HostStates
<1>1. UNCHANGED <<ready, app>> /\ Unscheduled' = Unscheduled
  BY DEF HostNext, HostTake, LeafCompleted, GraphCompleted, HostReschedule, HostAction,
     Unscheduled
<1>2. CASE HostReschedule
  <2>1. /\ OwnGraphScheduleGraph(host.schedule_count) /\ host'.schedule_count = 0
    BY <1>0, <1>2 DEF HostReschedule, HostStates
  <2>2. /\ schedule_pending_count' \in Nat
        /\ schedule_pending_count' + Cardinality(Unfed')
             <= schedule_pending_count + host.schedule_count + Cardinality(Unfed)
    BY <1>0, <2>1, RefsSchedule
  <2>3. Cardinality(Unfed) \in Nat /\ Cardinality(Unfed') \in Nat
    <3>1. Unfed' \subseteq Pipes
      BY DEF Unfed, InFlight, Pipes
    <3> QED BY <3>1, UnfedFinite, PipesFinite, FS_Subset, FS_CardinalityType
  <2>4. Cardinality(Unscheduled) \in Nat
    BY FS_CardinalityType DEF RefsInv
  <2> QED BY <1>0, <1>1, <2>1, <2>2, <2>3, <2>4 DEF RefsInv
<1>3. CASE GraphCompleted
  <2>1. /\ schedule_pending_count' = 0 /\ host'.schedule_count = schedule_pending_count
        /\ host.schedule_count = 0 /\ executed' = executed
        /\ free_q' = Append(free_q, host.pipe) /\ host.pipe \in Pipes
    BY <1>0, <1>3 DEF GraphCompleted, HostStates, FreeQueueWith, RestartWindow
  <2>2. Free \subseteq Free'
    <3>1. /\ Len(free_q) \in Nat /\ Len(free_q') = Len(free_q) + 1
          /\ \A i \in 1 .. Len(free_q) : free_q'[i] = free_q[i]
      BY <1>0, <2>1, AppendProperties, LenProperties
    <3>2. 1 .. Len(free_q) \subseteq 1 .. Len(free_q')
      BY <3>1
    <3> QED BY <3>1, <3>2 DEF Free
  <2>3. Unfed' \subseteq Unfed
    BY <2>1, <2>2 DEF Unfed, InFlight
  <2> QED BY <1>0, <1>1, <2>1, <2>3, RefsCall
<1>4. CASE HostTake \/ LeafCompleted \/ HostAction
  <2>1. /\ UNCHANGED <<free_q, executed, schedule_pending_count>>
        /\ host'.schedule_count = 0 /\ host.schedule_count = 0
    BY <1>0, <1>4 DEF HostTake, LeafCompleted, HostAction, IdleHost, RestartWindow,
       HostStates, sched_vars
  <2>2. Unfed' = Unfed
    BY <2>1 DEF Unfed, InFlight, Free
  <2> QED BY <1>0, <1>1, <2>1, <2>2, RefsCall
<1> QED BY <1>2, <1>3, <1>4 DEF HostNext

\* In the AUTO mode an execution is never started on nothing: each one that is
\* accepted and unfed has its reference in the ready queue, also while several
\* threads are between the two halves of vxGraphParameterEnqueueReadyRef.
THEOREM InputsBackedInAuto ==
  ASSUME Mode = "AUTO"
  PROVE  Spec => []InputRefsBacked
<1>1. SchedInv /\ SchedInv' /\ RefsInv /\ [Next]_vars => RefsInv'
  <2> SUFFICES ASSUME SchedInv, SchedInv', RefsInv, [Next]_vars PROVE RefsInv'
    OBVIOUS
  <2>1. CASE UNCHANGED vars
    BY <2>1 DEF RefsInv, Unfed, Unscheduled, InFlight, Free, vars, sched_vars
  <2>2. ASSUME NEW n \in Nodes, NEW p \in Pipes, NodeComplete(n, p) PROVE RefsInv'
    BY <2>2 DEF NodeComplete, RefsInv, Unfed, Unscheduled, InFlight, Free
  <2> QED BY <2>1, <2>2, RefsAppNext, RefsExecute, RefsHostNext DEF Next
<1>2. SchedInv /\ RefsInv => InputRefsBacked
  <2> SUFFICES ASSUME SchedInv, RefsInv PROVE InputRefsBacked
    OBVIOUS
  <2>1. Cardinality(Unscheduled) \in Nat /\ Cardinality(Unfed) \in Nat
    BY UnfedFinite, FS_CardinalityType DEF RefsInv
  <2>2. /\ schedule_pending_count \in Nat /\ host.schedule_count \in Nat /\ ready \in Nat
    BY DEF SchedInv, TypeOK, HostStates
  <2> QED BY <2>1, <2>2 DEF RefsInv, InputRefsBacked, Unfed
<1> QED BY <1>1, <1>2, RefsInit, Invariance, PTL DEF Spec
=============================================================================
