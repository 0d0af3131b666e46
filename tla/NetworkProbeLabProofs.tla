----------------------- MODULE NetworkProbeLabProofs -----------------------
(* Proofs about NetworkProbeLab for every number of nodes, every set of       *)
(* check lists and every bound.  Types first, then one lemma for each         *)
(* conjunct of the inductive invariant IInv, then the theorems.               *)
EXTENDS NetworkProbeLab, TLAPS

\* The status that Reconcile builds from a run (`next') is a status.
LEMMA NextStatusType ==
    ASSUME TypeOK, copy # NoLab,
           NEW phase \in {"unset", "Running", "Failed", "Succeeded"}, NEW cond \in Reasons,
           NEW total \in SUBSET Nodes, NEW results \in SUBSET Result,
           NEW nodes \in SUBSET Nodes
    PROVE  NextStatus(phase, cond, total, results, nodes) \in Status
  <1>1. copy \in Lab /\ copy.gen \in 1..MaxGeneration /\ copy.status \in Status
    BY DEF TypeOK, Lab
  <1>2. copy.status.exported \in SUBSET Kinds
    BY <1>1 DEF Status
  <1>3. Output[copy.gen] \in SUBSET Kinds
    BY <1>1, OutputAssumption
  <1>4. copy.gen \in Nat
    BY <1>1, BoundAssumption
  <1>5. copy.status.exported \cup (IF cond = "Completed" THEN Output[copy.gen] ELSE {})
          \in SUBSET Kinds
    BY <1>2, <1>3
  <1> QED
    BY <1>4, <1>5 DEF NextStatus, Status

\* The worker's variables are typed.
LocalsTyped ==
    /\ pc \in Steps /\ copy \in Lab \cup {NoLab} /\ want \in CheckLists
    /\ left \in SUBSET Maps /\ pending \in BOOLEAN
    /\ reports \in SUBSET Result /\ observed \in SUBSET Nodes /\ next \in Status

\* Finishing a run keeps the types of the worker's variables.
LEMMA FinishLocals ==
    ASSUME TypeOK, copy # NoLab,
           NEW phase \in {"unset", "Running", "Failed", "Succeeded"}, NEW cond \in Reasons,
           NEW total \in SUBSET Nodes, NEW results \in SUBSET Result,
           NEW nodes \in SUBSET Nodes,
           Finish(phase, cond, total, results, nodes)
    PROVE  LocalsTyped'
  <1>1. next' \in Status
    BY NextStatusType DEF Finish
  <1> QED
    BY <1>1 DEF Finish, TypeOK, Steps, LocalsTyped

\* Finishing a run keeps the types.
LEMMA FinishType ==
    ASSUME TypeOK, copy # NoLab,
           NEW phase \in {"unset", "Running", "Failed", "Succeeded"}, NEW cond \in Reasons,
           NEW total \in SUBSET Nodes, NEW results \in SUBSET Result,
           NEW nodes \in SUBSET Nodes,
           Finish(phase, cond, total, results, nodes),
           UNCHANGED <<apiVars, cacheVars, targets, queueVars, nextUid, incarnation>>,
           budget' \in Nat
    PROVE  TypeOK'
  <1>1. LocalsTyped'
    BY FinishLocals
  <1> QED
    BY <1>1 DEF LocalsTyped, TypeOK, apiVars, cacheVars, queueVars

\* The checks of a run are grouped under nodes of the cluster.
LEMMA SourcesType == Sources \in SUBSET Nodes
  BY DEF Sources

\* A run that ends in an error keeps the types of the worker's variables.
LEMMA FailRunLocals ==
    ASSUME TypeOK, copy # NoLab, NEW cond \in Reasons, FailRun(cond)
    PROVE  LocalsTyped'
  <1>1. Sources \in SUBSET Nodes /\ {} \in SUBSET Nodes /\ {} \in SUBSET Result
    BY SourcesType
  <1> QED
    BY <1>1, FinishLocals DEF FailRun

\* A run that ends in an error keeps the types.
LEMMA FailRunType ==
    ASSUME TypeOK, copy # NoLab, NEW cond \in Reasons, FailRun(cond),
           UNCHANGED <<apiVars, cacheVars, targets, queueVars, nextUid, incarnation>>,
           budget' \in Nat
    PROVE  TypeOK'
  <1>1. Sources \in SUBSET Nodes /\ {} \in SUBSET Nodes /\ {} \in SUBSET Result
    BY SourcesType
  <1> QED
    BY <1>1, FinishType DEF FailRun

\* Every node has a raw-snapshot ConfigMap.
LEMMA NodesAreMaps == Nodes \subseteq Maps
  BY NodeAssumption DEF Nodes, Maps

\* The status of a new lab is a status.
LEMMA NoStatusType == NoStatus \in Status
  BY DEF Status, NoStatus, Reasons

\* No checks at all is a check list.
LEMMA NoChecksType == NoChecks \in CheckLists
  BY DEF NoChecks, CheckLists

\* Reconcile leaves well-typed (empty) local variables when it returns.
LEMMA ReturnType ==
    ASSUME TypeOK, Return
    PROVE  /\ pc' \in Steps /\ copy' \in Lab \cup {NoLab} /\ want' \in CheckLists
           /\ left' \in SUBSET Maps /\ pending' \in BOOLEAN
           /\ reports' \in SUBSET Result /\ observed' \in SUBSET Nodes /\ next' \in Status
  BY NoStatusType, NoChecksType DEF Return, Steps

\* A call outside the run that is answered, or whose answer is lost: Reconcile returns.
LEMMA CallReturns ==
    ASSUME TypeOK,
           Answered(Return /\ UNCHANGED queueVars) \/ AnswerLost(ReturnError)
    PROVE  Return /\ queued' \in BOOLEAN /\ timer' \in BOOLEAN /\ budget' \in Nat
  <1>1. CASE Answered(Return /\ UNCHANGED queueVars)
    <2>1. Return /\ UNCHANGED queueVars /\ UNCHANGED budget
      BY <1>1 DEF Answered
    <2> QED
      BY <2>1 DEF queueVars, TypeOK
  <1>2. CASE AnswerLost(ReturnError)
    <2>1. Return /\ queued' = TRUE /\ timer' = timer
      BY <1>2 DEF AnswerLost, ReturnError
    <2>2. budget' \in Nat
      BY <1>2 DEF AnswerLost, Disturb, TypeOK
    <2> QED
      BY <2>1, <2>2 DEF TypeOK
  <1> QED
    BY <1>1, <1>2

\* The loop over the nodes keeps the types.
LEMMA ContinueType ==
    ASSUME TypeOK, NEW n \in Nodes, NEW unfinished \in BOOLEAN,
           NEW read \in SUBSET Result, Continue(n, unfinished, read)
    PROVE  /\ pc' \in Steps /\ copy' \in Lab \cup {NoLab} /\ want' \in CheckLists
           /\ left' \in SUBSET Maps /\ pending' \in BOOLEAN
           /\ reports' \in SUBSET Result /\ observed' \in SUBSET Nodes /\ next' \in Status
  BY DEF Continue, TypeOK

\* A Delete call keeps the type of the Jobs.
LEMMA DeletedJobType ==
    ASSUME TypeOK, NEW n \in Nodes
    PROVE  DeletedJob(n) \in [Nodes -> Job \cup {NoJob}]
  BY DEF DeletedJob, TypeOK, Job

\* The empty cluster is well typed.
LEMMA TypeInit == Init => TypeOK
  <1> SUFFICES ASSUME Init PROVE TypeOK
    OBVIOUS
  <1>1. maps \in [Maps -> Content] /\ mapCache \in [Maps -> {"absent", "stale", "fresh"}]
    BY DEF Init, Content, NoMap
  <1>2. targets \in CheckLists /\ want \in CheckLists
    BY TargetAssumption, NoChecksType DEF Init
  <1>3. budget \in Nat
    BY BoundAssumption DEF Init
  <1> QED
    BY <1>1, <1>2, <1>3, NoStatusType DEF Init, TypeOK, Steps

USE DEF worldVars, apiVars, cacheVars, queueVars, counters, localVars, vars, workerVars

\* Every step keeps the types.  That Reconcile has a lab in hand, and checks for
\* the node it visits, is what makes the Job and the status it writes well formed.
LEMMA TypeStep == TypeOK /\ WorkerHasLab /\ WorkerReports /\ [Next]_vars => TypeOK'
  <1> SUFFICES ASSUME TypeOK, WorkerHasLab, WorkerReports, [Next]_vars
               PROVE  TypeOK'
    OBVIOUS
  <1>1. CASE UNCHANGED vars
    BY <1>1 DEF TypeOK
  <1>2. CASE ReconcileMissing \/ ReconcileNew \/ ReconcileLab \/ ReconcileDeleted
    BY <1>2, NodesAreMaps
    DEF ReconcileMissing, ReconcileNew, ReconcileLab, ReconcileDeleted, Begin, TypeOK, Steps
  <1>3. CASE AddFinalizer
    <2>1. lab' \in Lab \cup {NoLab}
      BY <1>3 DEF AddFinalizer, At, TypeOK, WorkerHasLab, Lab
    <2>2. Return /\ queued' \in BOOLEAN /\ timer' \in BOOLEAN /\ budget' \in Nat
      BY <1>3, CallReturns DEF AddFinalizer
    <2> QED
      BY <1>3, <2>1, <2>2, ReturnType DEF AddFinalizer, TypeOK
  <1>4. CASE FinalizerConflict
    BY <1>4, ReturnType DEF FinalizerConflict, ReturnError, TypeOK
  <1>5. ASSUME NEW n \in Nodes, DeleteListedJob(n)
        PROVE  TypeOK'
    <2>1. jobs' \in [Nodes -> Job \cup {NoJob}]
      BY <1>5, DeletedJobType DEF DeleteListedJob
    <2>2. CASE Answered(Skip(n) /\ UNCHANGED queueVars)
      BY <1>5, <2>1, <2>2 DEF DeleteListedJob, Answered, Skip, TypeOK
    <2>3. CASE AnswerLost(ReturnError)
      BY <1>5, <2>1, <2>3, ReturnType
      DEF DeleteListedJob, AnswerLost, Disturb, ReturnError, TypeOK
    <2> QED
      BY <1>5, <2>2, <2>3 DEF DeleteListedJob
  <1>6. CASE ListMaps \/ CleanupDone
    BY <1>6 DEF ListMaps, CleanupDone, At, TypeOK, Steps
  <1>7. ASSUME NEW m \in Maps, DeleteListedMap(m)
        PROVE  TypeOK'
    <2>1. /\ maps' \in [Maps -> Content]
          /\ mapCache' \in [Maps -> {"absent", "stale", "fresh"}]
      BY <1>7 DEF DeleteListedMap, TypeOK, Content, NoMap
    <2>2. CASE Answered(Skip(m) /\ UNCHANGED queueVars)
      BY <1>7, <2>1, <2>2 DEF DeleteListedMap, Answered, Skip, TypeOK
    <2>3. CASE AnswerLost(ReturnError)
      BY <1>7, <2>1, <2>3, ReturnType
      DEF DeleteListedMap, AnswerLost, Disturb, ReturnError, TypeOK
    <2> QED
      BY <1>7, <2>2, <2>3 DEF DeleteListedMap
  <1>8. CASE RemoveFinalizer
    <2>1. Return /\ queued' \in BOOLEAN /\ timer' \in BOOLEAN /\ budget' \in Nat
      BY <1>8, CallReturns DEF RemoveFinalizer
    <2> QED
      BY <1>8, <2>1, ReturnType DEF RemoveFinalizer, TypeOK
  <1>9. CASE ListTargets
    BY <1>9, NodesAreMaps DEF ListTargets, TypeOK, Steps
  <1>10. CASE NoTargets
    <2>1. Finish("Failed", "NoTargets", {}, {}, {}) /\ copy # NoLab /\ budget' \in Nat
      BY <1>10 DEF NoTargets, At, WorkerHasLab, TypeOK
    <2> QED
      <3>1. "NoTargets" \in Reasons /\ {} \in SUBSET Nodes /\ {} \in SUBSET Result
        BY DEF Reasons
      <3> QED
        BY <1>10, <2>1, <3>1, FinishType DEF NoTargets
  <1>11. ASSUME NEW n \in Nodes, CreateJob(n)
         PROVE  TypeOK'
    <2>1. copy \in Lab /\ n \in left /\ pc = "jobs"
      BY <1>11 DEF CreateJob, Visit, At, Turn, WorkerHasLab, TypeOK
    <2>2. want[n] \in Hashes
      BY <2>1 DEF WorkerReports, Sources, TypeOK, CheckLists
    <2>3. copy.inc \in Nat /\ copy.gen \in Nat
      BY <2>1, BoundAssumption DEF Lab
    <2>4. NewJob(n) \in Job
      BY <2>2, <2>3 DEF NewJob, Job, Run, TypeOK
    <2>5. jobs' \in [Nodes -> Job \cup {NoJob}] /\ nextUid' \in Nat
      BY <1>11, <2>4 DEF CreateJob, TypeOK
    <2>6. CASE Answered(Continue(n, TRUE, {}))
      <3>1. Continue(n, TRUE, {}) /\ TRUE \in BOOLEAN /\ {} \in SUBSET Result /\ UNCHANGED budget
        BY <2>6 DEF Answered
      <3> QED
        BY <1>11, <2>5, <3>1, ContinueType DEF CreateJob, TypeOK
    <2>7. CASE AnswerLost(FailRun("CreateFailed"))
      <3>1. budget' \in Nat /\ copy # NoLab /\ "CreateFailed" \in Reasons
        BY <2>1, <2>7, AbsenceAssumption DEF AnswerLost, Disturb, Reasons, TypeOK
      <3>2. LocalsTyped'
        BY <2>7, <3>1, FailRunLocals DEF AnswerLost
      <3> QED
        BY <1>11, <2>5, <3>1, <3>2 DEF CreateJob, LocalsTyped, TypeOK
    <2> QED
      BY <1>11, <2>6, <2>7 DEF CreateJob
  <1>12. ASSUME NEW n \in Nodes,
                CreateExists(n) \/ ReportUnreadable(n) \/ SeeFailedJob(n)
         PROVE  TypeOK'
    <2>1. copy # NoLab /\ budget' \in Nat
      BY <1>12 DEF CreateExists, ReportUnreadable, SeeFailedJob, UsableJob, Visit, At,
                   WorkerHasLab, TypeOK
    <2>2. \E cond \in {"CreateFailed", "Unreadable", "JobFailed"} : FailRun(cond)
      BY <1>12 DEF CreateExists, ReportUnreadable, SeeFailedJob
    <2>3. UNCHANGED <<apiVars, cacheVars, targets, queueVars, nextUid, incarnation>>
      BY <1>12 DEF CreateExists, ReportUnreadable, SeeFailedJob
    <2> QED
      BY <2>1, <2>2, <2>3, FailRunType DEF Reasons
  <1>13. ASSUME NEW n \in Nodes, AwaitDeletion(n) \/ SeeActiveJob(n)
         PROVE  TypeOK'
    BY <1>13, ContinueType DEF AwaitDeletion, SeeActiveJob, TypeOK
  <1>14. ASSUME NEW n \in Nodes, DeleteStaleJob(n)
         PROVE  TypeOK'
    <2>1. jobs' \in [Nodes -> Job \cup {NoJob}] /\ copy # NoLab
      BY <1>14, DeletedJobType DEF DeleteStaleJob, Visit, At, WorkerHasLab
    <2>2. CASE Answered(Continue(n, TRUE, {}))
      BY <1>14, <2>1, <2>2, ContinueType DEF DeleteStaleJob, Answered, TypeOK
    <2>3. CASE AnswerLost(FailRun("DeleteFailed"))
      <3>1. budget' \in Nat /\ "DeleteFailed" \in Reasons
        BY <2>3 DEF AnswerLost, Disturb, Reasons, TypeOK
      <3>2. LocalsTyped'
        BY <2>1, <2>3, <3>1, FailRunLocals DEF AnswerLost
      <3> QED
        BY <1>14, <2>1, <3>1, <3>2 DEF DeleteStaleJob, LocalsTyped, TypeOK
    <2> QED
      BY <1>14, <2>2, <2>3 DEF DeleteStaleJob
  <1>15. ASSUME NEW n \in Nodes, ReadReport(n)
         PROVE  TypeOK'
    <2>1. PICK p \in ReportPods(n) :
            Continue(n, FALSE, {[run |-> p.run, ok |-> p.out = "ok"]})
      BY <1>15 DEF ReadReport
    <2>2. [run |-> p.run, ok |-> p.out = "ok"] \in Result
      BY DEF ReportPods, TypeOK, Pod, Result
    <2> QED
      BY <1>15, <2>1, <2>2, ContinueType DEF ReadReport, TypeOK
  <1>16. CASE JobsPending
    <2>1. Finish("Running", "ProbeJobsRunning", Sources, {}, {}) /\ copy # NoLab
          /\ budget' \in Nat
      BY <1>16 DEF JobsPending, At, WorkerHasLab, TypeOK
    <2>2. "ProbeJobsRunning" \in Reasons /\ {} \in SUBSET Nodes /\ {} \in SUBSET Result
      BY DEF Reasons
    <2> QED
      BY <1>16, <2>1, <2>2, FinishType, SourcesType DEF JobsPending
  <1>17. CASE CollectSnapshots
    <2>1. PICK nodes \in Observations :
            /\ observed' = nodes
            /\ left' = (IF "raw" \in Output[copy.gen] THEN nodes ELSE {})
                       \cup (IF "excel" \in Output[copy.gen] THEN {ExcelMap} ELSE {})
                       \cup (IF "html" \in Output[copy.gen] THEN {HtmlMap} ELSE {})
      BY <1>17 DEF CollectSnapshots
    <2>2. observed' \in SUBSET Nodes
      BY <2>1, ObservationAssumption
    <2>3. ExcelMap \in Maps /\ HtmlMap \in Maps
      BY NodeAssumption DEF ExcelMap, HtmlMap, Maps
    <2>4. left' \in SUBSET Maps
      BY <2>1, <2>2, <2>3, NodesAreMaps
    <2> QED
      BY <1>17, <2>2, <2>4 DEF CollectSnapshots, TypeOK, Steps
  <1>19. ASSUME NEW m \in Maps, FailWrite(m), pc = "write", budget' \in Nat,
                UNCHANGED <<apiVars, cacheVars, targets, queueVars, nextUid, incarnation>>
         PROVE  TypeOK'
    <2>1. copy # NoLab /\ "MapFailed" \in Reasons
      BY <1>19 DEF WorkerHasLab, Reasons
    <2>2. CASE FailRun("MapFailed")
      BY <1>19, <2>1, <2>2, FailRunType
    <2>3. CASE Finish("Failed", "MapFailed", Sources, reports, observed)
      BY <1>19, <2>1, <2>3, FinishType, SourcesType DEF TypeOK
    <2> QED
      BY <1>19, <2>2, <2>3 DEF FailWrite
  <1>18. ASSUME NEW m \in Maps, WriteMap(m)
         PROVE  TypeOK'
    <2>1. copy \in Lab /\ copy # NoLab /\ "MapFailed" \in Reasons
      BY <1>18, AbsenceAssumption DEF WriteMap, At, WorkerHasLab, TypeOK, Reasons
    <2>2. [inc |-> copy.inc, gen |-> copy.gen] \in Content
      BY <2>1, BoundAssumption DEF Lab, Content
    <2>3. /\ maps' \in [Maps -> Content]
          /\ mapCache' \in [Maps -> {"absent", "stale", "fresh"}]
      BY <1>18, <2>2 DEF WriteMap, TypeOK
    <2>4. CASE Answered(Skip(m))
      BY <1>18, <2>3, <2>4 DEF WriteMap, Answered, Skip, TypeOK
    <2>5. CASE AnswerLost(FailWrite(m))
      <3>1. budget' \in Nat
        BY <2>5 DEF AnswerLost, Disturb, TypeOK
      <3>2. ASSUME FailRun("MapFailed") PROVE LocalsTyped'
        BY <2>1, <3>2, FailRunLocals
      <3>3. ASSUME Finish("Failed", "MapFailed", Sources, reports, observed) PROVE LocalsTyped'
        BY <2>1, <3>3, FinishLocals, SourcesType DEF TypeOK
      <3>4. LocalsTyped'
        BY <2>5, <3>2, <3>3 DEF AnswerLost, FailWrite
      <3> QED
        BY <1>18, <2>3, <3>1, <3>4 DEF WriteMap, LocalsTyped, TypeOK
    <2> QED
      BY <1>18, <2>4, <2>5 DEF WriteMap
  <1>20. ASSUME NEW m \in Maps, MapConflict(m) \/ MapCallFails(m)
         PROVE  TypeOK'
    BY <1>19, <1>20 DEF MapConflict, MapCallFails, Disturb, At, TypeOK
  <1>21. CASE RunCompleted
    <2>1. copy # NoLab /\ "Completed" \in Reasons /\ budget' \in Nat
      BY <1>21 DEF RunCompleted, At, WorkerHasLab, Reasons, TypeOK
    <2>2. \E phase \in {"Succeeded", "Failed"} :
            Finish(phase, "Completed", Sources, reports, observed)
      BY <1>21 DEF RunCompleted
    <2> QED
      BY <1>21, <2>1, <2>2, FinishType, SourcesType DEF RunCompleted, TypeOK
  <1>22. CASE PublishSame \/ PublishConflict
    BY <1>22, ReturnType DEF PublishSame, PublishConflict, ReturnError, Requeue, TypeOK
  <1>23. CASE Publish
    <2>1. lab' \in Lab \cup {NoLab}
      BY <1>23 DEF Publish, At, WorkerHasLab, TypeOK, Lab
    <2>2. Return /\ queued' \in BOOLEAN /\ timer' \in BOOLEAN /\ budget' \in Nat
      <3>1. CASE Answered(Requeue /\ Return /\ UNCHANGED queued)
        <4>1. Return /\ queued' = queued /\ budget' = budget /\ Requeue
          BY <3>1 DEF Answered
        <4>2. timer' \in BOOLEAN
          BY <4>1 DEF Requeue, TypeOK
        <4> QED
          BY <4>1, <4>2 DEF TypeOK
      <3>2. CASE AnswerLost(ReturnError)
        <4>1. Return /\ queued' = TRUE /\ timer' = timer
          BY <3>2 DEF AnswerLost, ReturnError
        <4>2. budget' \in Nat
          BY <3>2 DEF AnswerLost, Disturb, TypeOK
        <4> QED
          BY <4>1, <4>2 DEF TypeOK
      <3> QED
        BY <1>23, <3>1, <3>2 DEF Publish
    <2> QED
      BY <1>23, <2>1, <2>2, ReturnType DEF Publish, TypeOK
  <1>24. CASE CallFails
    BY <1>24, ReturnType DEF CallFails, Disturb, ReturnError, TypeOK
  <1>25. CASE Restart
    <2>1. mapCache' \in [Maps -> {"absent", "stale", "fresh"}]
      BY <1>25 DEF Restart
    <2>2. queued' \in BOOLEAN /\ timer' \in BOOLEAN
      BY <1>25 DEF Restart
    <2> QED
      BY <1>25, <2>1, <2>2, ReturnType DEF Restart, Disturb, TypeOK
  <1>26. ASSUME NEW n \in Nodes, JobCallFails(n)
         PROVE  TypeOK'
    <2>1. copy # NoLab /\ budget' \in Nat
      BY <1>26 DEF JobCallFails, Disturb, Visit, At, WorkerHasLab, TypeOK
    <2>2. \E cond \in {"CreateFailed", "DeleteFailed"} : FailRun(cond)
      BY <1>26 DEF JobCallFails
    <2> QED
      BY <1>26, <2>1, <2>2, FailRunType DEF JobCallFails, Reasons
  <1>27. CASE CreateLab
    <2>1. lab' \in Lab
      BY <1>27, NoStatusType, BoundAssumption DEF CreateLab, TypeOK, Lab
    <2> QED
      BY <1>27, <2>1 DEF CreateLab, TypeOK
  <1>28. CASE EditSpec
    <2>1. lab' \in Lab
      BY <1>28, BoundAssumption DEF EditSpec, TypeOK, Lab
    <2> QED
      BY <1>28, <2>1 DEF EditSpec, Disturb, TypeOK
  <1>29. CASE DeleteLab
    <2>1. lab' \in Lab \cup {NoLab}
      BY <1>29 DEF DeleteLab, TypeOK, Lab
    <2> QED
      BY <1>29, <2>1 DEF DeleteLab, Disturb, TypeOK
  <1>30. CASE ChangeTargets
    BY <1>30, TargetAssumption DEF ChangeTargets, Disturb, TypeOK
  <1>31. ASSUME NEW n \in Nodes, JobExpires(n)
         PROVE  TypeOK'
    <2>1. jobs' \in [Nodes -> Job \cup {NoJob}]
      BY <1>31 DEF JobExpires, TypeOK, Job
    <2> QED
      BY <1>31, <2>1 DEF JobExpires, Disturb, TypeOK
  <1>32. CASE DeliverLab \/ DeliverPods \/ TimerFires \/ Resync
    BY <1>32 DEF DeliverLab, DeliverPods, TimerFires, Resync, TypeOK
  <1>33. ASSUME NEW n \in Nodes, DeliverJob(n)
         PROVE  TypeOK'
    BY <1>33 DEF DeliverJob, TypeOK
  <1>34. ASSUME NEW m \in Maps, DeliverMap(m)
         PROVE  TypeOK'
    BY <1>34 DEF DeliverMap, TypeOK
  <1>35. ASSUME NEW n \in Nodes, PodTerminates(n)
         PROVE  TypeOK'
    <2>1. PICK out \in Outcomes :
            pods' = pods \cup {[owner |-> jobs[n].run.uid, run |-> jobs[n].run, out |-> out]}
      BY <1>35 DEF PodTerminates
    <2>2. [owner |-> jobs[n].run.uid, run |-> jobs[n].run, out |-> out] \in Pod
      BY <1>35, <2>1 DEF PodTerminates, Running, TypeOK, Job, Run, Pod
    <2> QED
      BY <1>35, <2>1, <2>2 DEF PodTerminates, TypeOK
  <1>36. ASSUME NEW n \in Nodes, JobSucceeds(n) \/ JobFails(n)
         PROVE  TypeOK'
    <2>1. jobs' \in [Nodes -> Job \cup {NoJob}]
      BY <1>36 DEF JobSucceeds, JobFails, Running, TypeOK, Job
    <2> QED
      BY <1>36, <2>1 DEF JobSucceeds, JobFails, TypeOK
  <1>37. ASSUME NEW n \in Nodes, JobCollected(n)
         PROVE  TypeOK'
    <2>1. pods' \in SUBSET Pod
      BY <1>37 DEF JobCollected, PodsOf, TypeOK, Pod
    <2> QED
      BY <1>37, <2>1 DEF JobCollected, TypeOK
  <1> QED
    BY <1>1, <1>2, <1>3, <1>4, <1>5, <1>6, <1>7, <1>8, <1>9, <1>10, <1>11, <1>12, <1>13,
       <1>14, <1>15, <1>16, <1>17, <1>18, <1>20, <1>21, <1>22, <1>23, <1>24, <1>25,
       <1>26, <1>27, <1>28, <1>29, <1>30, <1>31, <1>32, <1>33, <1>34, <1>35, <1>36, <1>37
    DEF Next, Reconcile, Cleanup, ProbeJobs, Export, Fault, Outside, Deliver, JobControl

-----------------------------------------------------------------------------
(* The runs: what the API server and the caches say of one UID               *)

\* A step that creates no Job: every run it leaves in the API server or a cache
\* was there before, Jobs under the same name and pods with the same owner or
\* with none.
RunsKept ==
    /\ nextUid' = nextUid
    /\ \A n \in Nodes : jobs'[n] # NoJob => jobs[n] # NoJob /\ jobs'[n].run = jobs[n].run
    /\ \A n \in Nodes : jobCache'[n] # NoJob =>
         \/ jobCache[n] # NoJob /\ jobCache'[n].run = jobCache[n].run
         \/ jobs[n] # NoJob /\ jobCache'[n].run = jobs[n].run
    /\ \A p \in pods' :
         \/ \E q \in pods : p.run = q.run /\ p.owner \in {0, q.owner}
         \/ \E n \in Nodes : jobs[n] # NoJob /\ p.run = jobs[n].run /\ p.owner = p.run.uid
    /\ podCache' \subseteq podCache \cup pods

\* Delete marks the Job that has the name and leaves its run alone.
LEMMA DeletedJobKeepsRun ==
    ASSUME TypeOK, NEW n \in Nodes, jobs' = DeletedJob(n)
    PROVE  \A x \in Nodes : jobs'[x] # NoJob => jobs[x] # NoJob /\ jobs'[x].run = jobs[x].run
  BY AbsenceAssumption DEF DeletedJob, TypeOK, Job

\* Only CreateJob brings a new run into the world: the deletions, the Job
\* controller, the garbage collector and the informers pass on the ones there are.
LEMMA OnlyCreateJobMakesRuns ==
    TypeOK /\ [Next]_vars => RunsKept \/ \E n \in Nodes : CreateJob(n)
  <1> SUFFICES ASSUME TypeOK, [Next]_vars, ~ \E n \in Nodes : CreateJob(n)
               PROVE  RunsKept
    OBVIOUS
  <1>1. CASE UNCHANGED <<jobs, pods, jobCache, podCache, nextUid>>
    BY <1>1 DEF RunsKept
  <1>2. ASSUME NEW n \in Nodes, DeleteListedJob(n) \/ DeleteStaleJob(n)
        PROVE  RunsKept
    BY <1>2, DeletedJobKeepsRun DEF DeleteListedJob, DeleteStaleJob, RunsKept
  <1>3. CASE Restart
    BY <1>3 DEF Restart, RunsKept
  <1>4. ASSUME NEW n \in Nodes, JobExpires(n)
        PROVE  RunsKept
    BY <1>4 DEF JobExpires, RunsKept, TypeOK, Job
  <1>5. ASSUME NEW n \in Nodes, PodTerminates(n)
        PROVE  RunsKept
    <2>1. PICK out \in Outcomes :
            pods' = pods \cup {[owner |-> jobs[n].run.uid, run |-> jobs[n].run, out |-> out]}
      BY <1>5 DEF PodTerminates
    <2> QED
      BY <1>5, <2>1 DEF PodTerminates, Running, RunsKept
  <1>6. ASSUME NEW n \in Nodes, JobSucceeds(n) \/ JobFails(n)
        PROVE  RunsKept
    BY <1>6 DEF JobSucceeds, JobFails, Running, RunsKept, TypeOK, Job
  <1>7. ASSUME NEW n \in Nodes, JobCollected(n)
        PROVE  RunsKept
    <2>1. \A p \in pods' : \E q \in pods : p.run = q.run /\ p.owner \in {0, q.owner}
      BY <1>7 DEF JobCollected, TypeOK, Pod
    <2> QED
      BY <1>7, <2>1 DEF JobCollected, RunsKept, TypeOK
  <1>8. ASSUME NEW n \in Nodes, DeliverJob(n)
        PROVE  RunsKept
    BY <1>8 DEF DeliverJob, RunsKept, TypeOK
  <1>9. CASE DeliverPods
    BY <1>9 DEF DeliverPods, RunsKept
  <1>10. CASE Reconcile
    <2>1. ASSUME NEW n \in Nodes,
                 CreateExists(n) \/ AwaitDeletion(n) \/ ReadReport(n) \/ ReportUnreadable(n)
                   \/ SeeFailedJob(n) \/ SeeActiveJob(n)
          PROVE  RunsKept
      BY <1>1, <2>1 DEF CreateExists, AwaitDeletion, ReadReport, ReportUnreadable,
                        SeeFailedJob, SeeActiveJob
    <2>2. ASSUME NEW m \in Maps, DeleteListedMap(m) \/ WriteMap(m) \/ MapConflict(m)
          PROVE  RunsKept
      BY <1>1, <2>2 DEF DeleteListedMap, WriteMap, MapConflict
    <2>3. CASE ReconcileMissing \/ ReconcileNew \/ ReconcileLab \/ ReconcileDeleted
                 \/ AddFinalizer \/ FinalizerConflict \/ RemoveFinalizer \/ ListMaps \/ CleanupDone
      BY <1>1, <2>3 DEF ReconcileMissing, ReconcileNew, ReconcileLab, ReconcileDeleted,
                        AddFinalizer, FinalizerConflict, RemoveFinalizer, ListMaps, CleanupDone
    <2>4. CASE ListTargets \/ NoTargets \/ JobsPending \/ CollectSnapshots \/ RunCompleted
                 \/ PublishSame \/ Publish \/ PublishConflict
      BY <1>1, <2>4 DEF ListTargets, NoTargets, JobsPending, CollectSnapshots, RunCompleted,
                        PublishSame, Publish, PublishConflict
    <2> QED
      BY <1>2, <1>10, <2>1, <2>2, <2>3, <2>4 DEF Reconcile, Cleanup, ProbeJobs, Export
  <1>11. CASE CallFails \/ (\E n \in Nodes : JobCallFails(n)) \/ (\E m \in Maps : MapCallFails(m))
    BY <1>1, <1>11 DEF CallFails, JobCallFails, MapCallFails
  <1>12. CASE CreateLab \/ EditSpec \/ DeleteLab \/ ChangeTargets \/ DeliverLab
                \/ TimerFires \/ Resync \/ (\E m \in Maps : DeliverMap(m))
    BY <1>1, <1>12 DEF CreateLab, EditSpec, DeleteLab, ChangeTargets, DeliverLab,
                       TimerFires, Resync, DeliverMap
  <1>13. CASE UNCHANGED vars
    BY <1>1, <1>13
  <1> QED
    BY <1>3, <1>4, <1>5, <1>6, <1>7, <1>8, <1>9, <1>10, <1>11, <1>12, <1>13
    DEF Next, Fault, Outside, Deliver, JobControl

\* A created Job adds one run, under a UID never used before.
LEMMA CreateJobRuns ==
    ASSUME TypeOK, NEW n \in Nodes, CreateJob(n)
    PROVE  /\ Runs' \subseteq Runs \cup {NewJob(n).run}
           /\ NewJob(n).run.uid = nextUid /\ NewJob(n).run.node = n
           /\ jobs[n] = NoJob /\ jobCache[n] = NoJob
           /\ jobs' = [jobs EXCEPT ![n] = NewJob(n)] /\ nextUid' = nextUid + 1
           /\ UNCHANGED <<jobCache, pods, podCache>>
  <1>1. /\ jobs[n] = NoJob /\ jobCache[n] = NoJob
        /\ jobs' = [jobs EXCEPT ![n] = NewJob(n)] /\ nextUid' = nextUid + 1
        /\ UNCHANGED <<jobCache, pods, podCache>>
    BY DEF CreateJob, Seen
  <1>2. NewJob(n).run.uid = nextUid /\ NewJob(n).run.node = n
    BY DEF NewJob
  <1>3. RunsOf(jobs') \subseteq RunsOf(jobs) \cup {NewJob(n).run}
    BY <1>1 DEF RunsOf, TypeOK
  <1> QED
    BY <1>1, <1>2, <1>3 DEF Runs

\* Keeping the runs keeps the set of them.
LEMMA RunsKeptRuns == TypeOK /\ RunsKept => Runs' \subseteq Runs
  <1> SUFFICES ASSUME TypeOK, RunsKept PROVE Runs' \subseteq Runs
    OBVIOUS
  <1>1. RunsOf(jobs)' \subseteq RunsOf(jobs)
    BY DEF RunsKept, RunsOf
  <1>2. RunsOf(jobCache)' \subseteq RunsOf(jobCache) \cup RunsOf(jobs)
    BY DEF RunsKept, RunsOf
  <1>3. ASSUME NEW p \in pods' PROVE p.run \in Runs
    BY <1>3 DEF RunsKept, Runs, RunsOf
  <1>4. ASSUME NEW p \in podCache' PROVE p.run \in Runs
    BY <1>4 DEF RunsKept, Runs
  <1> QED
    BY <1>1, <1>2, <1>3, <1>4 DEF Runs

\* UIDs stay distinct: a deleted Job, an orphaned pod or an old entry of a cache
\* is never mistaken for a later Job of the same name.
LEMMA UidsStep == TypeOK /\ UidsDistinct /\ [Next]_vars => UidsDistinct'
  <1> SUFFICES ASSUME TypeOK, UidsDistinct, [Next]_vars PROVE UidsDistinct'
    OBVIOUS
  <1>1. CASE RunsKept
    BY <1>1, RunsKeptRuns DEF UidsDistinct, RunsKept
  <1>2. ASSUME NEW n \in Nodes, CreateJob(n)
        PROVE  UidsDistinct'
    <2>1. ASSUME NEW r \in Runs PROVE r.uid \in Nat
      BY <2>1 DEF Runs, RunsOf, TypeOK, Job, Pod, Run
    <2>2. nextUid \in Nat /\ nextUid' = nextUid + 1
      BY <1>2, CreateJobRuns DEF TypeOK
    <2>3. 0 < nextUid
      BY DEF UidsDistinct
    <2>4. \A r \in Runs' : r \in Runs \/ r = NewJob(n).run
      BY <1>2, CreateJobRuns
    <2>5. NewJob(n).run.uid = nextUid
      BY <1>2, CreateJobRuns
    <2>6. 0 < nextUid' /\ \A r \in Runs' : 0 < r.uid /\ r.uid < nextUid'
      BY <2>1, <2>2, <2>3, <2>4, <2>5 DEF UidsDistinct
    <2>7. \A q, r \in Runs' : q.uid = r.uid => q = r
      BY <2>1, <2>2, <2>4, <2>5 DEF UidsDistinct
    <2> QED
      BY <2>6, <2>7 DEF UidsDistinct
  <1> QED
    BY <1>1, <1>2, OnlyCreateJobMakesRuns

\* Jobs stay under the node they run on, pods with their own Job.
LEMMA InPlaceStep == TypeOK /\ InPlace /\ [Next]_vars => InPlace'
  <1> SUFFICES ASSUME TypeOK, InPlace, [Next]_vars PROVE InPlace'
    OBVIOUS
  <1>1. CASE RunsKept
    <2>1. ASSUME NEW n \in Nodes
          PROVE  /\ jobs'[n] # NoJob => jobs'[n].run.node = n
                 /\ jobCache'[n] # NoJob => jobCache'[n].run.node = n
      BY <1>1 DEF RunsKept, InPlace
    <2>2. ASSUME NEW p \in pods' PROVE p.owner \in {0, p.run.uid}
      BY <1>1 DEF RunsKept, InPlace
    <2>3. ASSUME NEW p \in podCache' PROVE p.owner \in {0, p.run.uid}
      BY <1>1 DEF RunsKept, InPlace
    <2> QED
      BY <2>1, <2>2, <2>3 DEF InPlace
  <1>2. ASSUME NEW n \in Nodes, CreateJob(n)
        PROVE  InPlace'
    BY <1>2, CreateJobRuns DEF InPlace, TypeOK
  <1> QED
    BY <1>1, <1>2, OnlyCreateJobMakesRuns

\* A name is not used again before the cache has lost the Job that had it: only a
\* cached NotFound leads to Create.
LEMMA SameUnderNameStep == TypeOK /\ SameUnderName /\ [Next]_vars => SameUnderName'
  <1> SUFFICES ASSUME TypeOK, SameUnderName, [Next]_vars PROVE SameUnderName'
    OBVIOUS
  <1>1. CASE RunsKept
    BY <1>1 DEF RunsKept, SameUnderName
  <1>2. ASSUME NEW n \in Nodes, CreateJob(n)
        PROVE  SameUnderName'
    BY <1>2, CreateJobRuns DEF SameUnderName, TypeOK
  <1> QED
    BY <1>1, <1>2, OnlyCreateJobMakesRuns

-----------------------------------------------------------------------------
(* The worker                                                                *)

\* Reconcile starts on the lab it read from the cache.
Starts ==
    /\ pc = "idle" /\ copy' = labCache /\ labCache # NoLab
    /\ pc' \in {"deleteJobs", "addFinalizer", "list"}
    /\ pc' = "list" => labCache.finalizer /\ ~labCache.deleting
    /\ pc' = "deleteJobs" => labCache.deleting
    /\ UNCHANGED <<want, pending, reports, next>>

\* Cleanup goes on.
Cleans ==
    /\ pc \in {"deleteJobs", "deleteMaps"}
    /\ pc' \in {"deleteJobs", "deleteMaps", "removeFinalizer"}
    /\ UNCHANGED <<copy, want, pending, reports, next>>

\* The loop passes a node with its Job outstanding.
Passes(n) == Visit(n) /\ Continue(n, TRUE, {})

\* The run ends without results, failed or with Jobs running.
EndsEmpty ==
    /\ pc \in {"list", "jobs", "write"}
    /\ \E phase \in {"Failed", "Running"}, cond \in Reasons, total \in SUBSET Nodes :
         Finish(phase, cond, total, {}, {})

\* The run ends with the results of every source node.
EndsWithResults ==
    /\ pc = "write"
    /\ \E phase \in {"Failed", "Succeeded"}, cond \in Reasons :
         /\ phase = "Succeeded" => \A r \in reports : r.ok
         /\ Finish(phase, cond, Sources, reports, observed)

\* The write of a ConfigMap is answered.
Wrote(m) == WriteMap(m) /\ Skip(m)

\* What a step of the system is to the worker.
LEMMA WorkerMoves ==
    [Next]_vars =>
      \/ UNCHANGED workerVars
      \/ Return
      \/ Starts \/ Cleans \/ ListTargets
      \/ \E n \in Nodes : Passes(n) \/ ReadReport(n)
      \/ EndsEmpty \/ CollectSnapshots \/ EndsWithResults
      \/ \E m \in Maps : Wrote(m)
  <1> SUFFICES ASSUME [Next]_vars,
                      ~ UNCHANGED workerVars, ~ Return, ~ ListTargets, ~ CollectSnapshots,
                      \A n \in Nodes : ~ ReadReport(n),
                      \A m \in Maps : ~ Wrote(m)
               PROVE  Starts \/ Cleans \/ (\E n \in Nodes : Passes(n))
                        \/ EndsEmpty \/ EndsWithResults
    OBVIOUS
  <1>1. CASE ReconcileNew \/ ReconcileLab \/ ReconcileDeleted
    BY <1>1 DEF ReconcileNew, ReconcileLab, ReconcileDeleted, Begin, At, Starts
  <1>2. CASE ListMaps \/ CleanupDone \/ (\E n \in Nodes : DeleteListedJob(n))
               \/ (\E m \in Maps : DeleteListedMap(m))
    BY <1>2 DEF ListMaps, CleanupDone, DeleteListedJob, DeleteListedMap, Answered, AnswerLost,
                ReturnError, Skip, At, Cleans
  <1>3. CASE ReconcileMissing \/ AddFinalizer \/ RemoveFinalizer \/ FinalizerConflict
               \/ PublishSame \/ Publish \/ PublishConflict \/ CallFails \/ Restart
    BY <1>3 DEF ReconcileMissing, AddFinalizer, RemoveFinalizer, FinalizerConflict,
                PublishSame, Publish, PublishConflict, CallFails, Restart, Answered,
                AnswerLost, ReturnError
  <1>5. ASSUME NEW cond \in Reasons, FailRun(cond), pc \in {"jobs", "write"}
        PROVE  EndsEmpty
    BY <1>5, SourcesType DEF FailRun, EndsEmpty
  <1>4. ASSUME NEW n \in Nodes,
               CreateJob(n) \/ AwaitDeletion(n) \/ DeleteStaleJob(n) \/ SeeActiveJob(n)
        PROVE  Passes(n) \/ EndsEmpty
    <2>1. CASE AwaitDeletion(n) \/ SeeActiveJob(n)
      BY <2>1 DEF AwaitDeletion, SeeActiveJob, UsableJob, Passes
    <2>2. CASE CreateJob(n) \/ DeleteStaleJob(n)
      <3>1. /\ Visit(n)
            /\ Continue(n, TRUE, {}) \/ \E cond \in {"CreateFailed", "DeleteFailed"} : FailRun(cond)
        BY <2>2 DEF CreateJob, DeleteStaleJob, Answered, AnswerLost
      <3> QED
        BY <1>5, <3>1 DEF Visit, At, Reasons, Passes
    <2> QED
      BY <1>4, <2>1, <2>2
  <1>6. ASSUME NEW n \in Nodes,
               CreateExists(n) \/ ReportUnreadable(n) \/ SeeFailedJob(n) \/ JobCallFails(n)
        PROVE  EndsEmpty
    BY <1>5, <1>6 DEF CreateExists, ReportUnreadable, SeeFailedJob, JobCallFails, UsableJob,
                      Visit, At, Reasons
  <1>7. CASE NoTargets \/ JobsPending
    BY <1>7, SourcesType DEF NoTargets, JobsPending, At, EndsEmpty, Reasons
  <1>8. ASSUME NEW m \in Maps, WriteMap(m) \/ MapConflict(m) \/ MapCallFails(m)
        PROVE  EndsEmpty \/ EndsWithResults
    <2>1. pc = "write" /\ FailWrite(m)
      BY <1>8 DEF WriteMap, Answered, AnswerLost, Wrote, MapConflict, MapCallFails, At
    <2> QED
      BY <1>5, <2>1 DEF FailWrite, EndsWithResults, Reasons
  <1>9. CASE RunCompleted
    BY <1>9 DEF RunCompleted, At, EndsWithResults, Reasons
  <1>10. CASE Outside \/ Deliver \/ (\E n \in Nodes : JobControl(n)) \/ TimerFires \/ Resync
    BY <1>10 DEF Outside, Deliver, JobControl, CreateLab, EditSpec, DeleteLab, ChangeTargets,
                 JobExpires, DeliverLab, DeliverPods, DeliverJob, DeliverMap, PodTerminates,
                 JobSucceeds, JobFails, JobCollected, TimerFires, Resync
  <1> QED
    BY <1>1, <1>2, <1>3, <1>4, <1>6, <1>7, <1>8, <1>9, <1>10
    DEF Next, Reconcile, Cleanup, ProbeJobs, Export, Fault

\* The worker reconciles a lab that it read, runs only one not being deleted and
\* cleans up only one being deleted.
LEMMA WorkerHasLabStep == WorkerHasLab /\ [Next]_vars => WorkerHasLab'
  <1> SUFFICES ASSUME WorkerHasLab, [Next]_vars PROVE WorkerHasLab'
    OBVIOUS
  <1>1. CASE UNCHANGED workerVars
    BY <1>1 DEF WorkerHasLab
  <1>2. CASE Return
    BY <1>2 DEF Return, WorkerHasLab
  <1>3. CASE Starts \/ Cleans
    BY <1>3 DEF Starts, Cleans, WorkerHasLab
  <1>4. CASE ListTargets
    BY <1>4 DEF ListTargets, At, WorkerHasLab
  <1>5. ASSUME NEW n \in Nodes, Passes(n) \/ ReadReport(n)
        PROVE  WorkerHasLab'
    BY <1>5 DEF Passes, ReadReport, UsableJob, Visit, At, Continue, WorkerHasLab
  <1>6. CASE EndsEmpty \/ EndsWithResults
    BY <1>6 DEF EndsEmpty, EndsWithResults, Finish, WorkerHasLab
  <1>7. CASE CollectSnapshots \/ \E m \in Maps : Wrote(m)
    BY <1>7 DEF CollectSnapshots, Wrote, WriteMap, Skip, At, WorkerHasLab
  <1> QED
    BY <1>1, <1>2, <1>3, <1>4, <1>5, <1>6, <1>7, WorkerMoves

\* The report read is that of the Job in the cache, and a good one of this
\* generation: the pod's owner is the Job's UID, and no other run ever had it.
LEMMA ReportIsCurrent ==
    ASSUME TypeOK, UidsDistinct, InPlace, NEW n \in Nodes, UsableJob(n),
           NEW p \in ReportPods(n)
    PROVE  p.run.gen = copy.gen /\ p.run.node = n
  <1>1. p \in podCache /\ p.owner = Seen(n).run.uid /\ p.run.node = n
    BY DEF ReportPods, OwnedBy
  <1>2. Seen(n) = jobCache[n] /\ Seen(n) # NoJob /\ Seen(n).run.gen = copy.gen
    BY DEF UsableJob, IsStale, Seen
  <1>3. Seen(n).run \in Runs /\ p.run \in Runs
    BY <1>1, <1>2 DEF Runs, RunsOf
  <1>4. p.owner # 0
    <2>1. 0 < Seen(n).run.uid
      BY <1>3 DEF UidsDistinct
    <2> QED
      BY <1>1, <2>1
  <1>5. p.run.uid = Seen(n).run.uid
    BY <1>1, <1>4 DEF InPlace
  <1>6. p.run = Seen(n).run
    BY <1>3, <1>5 DEF UidsDistinct
  <1> QED
    BY <1>1, <1>2, <1>6

\* The nodes a set of results reports on.
NodesOf(results) == {r.run.node : r \in results}

\* The reports read so far are of this generation, one for each node passed.
LEMMA WorkerReportsStep ==
    TypeOK /\ UidsDistinct /\ InPlace /\ WorkerReports /\ [Next]_vars => WorkerReports'
  <1> SUFFICES ASSUME TypeOK, UidsDistinct, InPlace, WorkerReports, [Next]_vars
               PROVE  WorkerReports'
    OBVIOUS
  <1>1. CASE UNCHANGED workerVars
    BY <1>1 DEF WorkerReports, Sources
  <1>2. CASE Return
    BY <1>2 DEF Return, WorkerReports
  <1>3. CASE Starts \/ Cleans
    BY <1>3 DEF Starts, Cleans, WorkerReports
  <1>4. CASE ListTargets
    <2>1. reports' = {} /\ pending' = FALSE /\ want' = targets /\ pc' = "jobs"
      BY <1>4 DEF ListTargets, At, WorkerReports, TypeOK
    <2>2. Sources' = {n \in Nodes : targets[n] # NoHash} /\ left' = Sources'
      BY <1>4, <2>1 DEF ListTargets, Sources
    <2>3. \E n \in Nodes : targets[n] # NoHash
      <3>1. SUFFICES ASSUME \A n \in Nodes : targets[n] = NoHash
                     PROVE  targets = NoChecks
        BY <1>4 DEF ListTargets
      <3> QED
        BY <3>1 DEF NoChecks, TypeOK, CheckLists
    <2> QED
      BY <2>1, <2>2, <2>3 DEF WorkerReports
  <1>5. ASSUME NEW n \in Nodes, Passes(n)
        PROVE  WorkerReports'
    <2>1. pc = "jobs" /\ pc' = "jobs" /\ left' = left \ {n} /\ pending' = TRUE
          /\ reports' = reports /\ UNCHANGED <<copy, want>>
      BY <1>5 DEF Passes, Visit, At, Continue
    <2>2. Sources' = Sources
      BY <2>1 DEF Sources
    <2> QED
      BY <2>1, <2>2 DEF WorkerReports
  <1>6. ASSUME NEW n \in Nodes, ReadReport(n)
        PROVE  WorkerReports'
    <2>1. UsableJob(n) /\ pc = "jobs" /\ n \in left
      BY <1>6 DEF ReadReport, UsableJob, Visit, At, Turn
    <2>2. PICK p \in ReportPods(n) :
            Continue(n, FALSE, {[run |-> p.run, ok |-> p.out = "ok"]})
      BY <1>6 DEF ReadReport
    <2> DEFINE r == [run |-> p.run, ok |-> p.out = "ok"]
    <2>3. r.run.gen = copy.gen /\ r.run.node = n
      BY <2>1, ReportIsCurrent
    <2>4. /\ pc' = "jobs" /\ left' = left \ {n} /\ pending' = pending
          /\ reports' = reports \cup {r} /\ UNCHANGED <<copy, want>>
      BY <2>1, <2>2 DEF Continue, TypeOK
    <2>5. Sources' = Sources
      BY <2>4 DEF Sources
    <2> HIDE DEF r
    <2>6. \A q \in reports : q.run.node # n
      BY <2>1 DEF WorkerReports
    <2>7. NodesOf(reports') = NodesOf(reports) \cup {n}
      BY <2>3, <2>4 DEF NodesOf
    <2>8. /\ left \subseteq Sources /\ NodesOf(reports) \subseteq Sources \ left
          /\ ~pending => NodesOf(reports) = Sources \ left
      BY <2>1 DEF WorkerReports, NodesOf
    <2>9. /\ \A q \in reports' : q.run.gen = copy'.gen
          /\ \A q, s \in reports' : q.run.node = s.run.node => q = s
      BY <2>3, <2>4, <2>6 DEF WorkerReports
    <2>10. /\ left' \subseteq Sources' /\ NodesOf(reports') \subseteq Sources' \ left'
           /\ ~pending' => NodesOf(reports') = Sources' \ left'
      BY <2>1, <2>4, <2>5, <2>7, <2>8
    <2> QED
      BY <2>1, <2>4, <2>5, <2>9, <2>10 DEF WorkerReports, NodesOf
  <1>7. CASE EndsEmpty \/ EndsWithResults
    BY <1>7 DEF EndsEmpty, EndsWithResults, Finish, WorkerReports
  <1>8. CASE CollectSnapshots
    BY <1>8 DEF CollectSnapshots, At, WorkerReports, Sources
  <1>9. ASSUME NEW m \in Maps, Wrote(m)
        PROVE  WorkerReports'
    BY <1>9 DEF Wrote, WriteMap, At, Skip, WorkerReports, Sources
  <1> QED
    BY <1>1, <1>2, <1>3, <1>4, <1>5, <1>6, <1>7, <1>8, <1>9, WorkerMoves

\* The status that a run ends in is of the generation it was read at, and sound.
LEMMA WorkerStatusStep == WorkerReports /\ WorkerStatus /\ [Next]_vars => WorkerStatus'
  <1> SUFFICES ASSUME WorkerReports, WorkerStatus, [Next]_vars PROVE WorkerStatus'
    OBVIOUS
  <1>1. CASE UNCHANGED workerVars
    BY <1>1 DEF WorkerStatus
  <1>2. CASE Return \/ Starts \/ Cleans \/ ListTargets \/ CollectSnapshots
    BY <1>2 DEF Return, Starts, Cleans, ListTargets, CollectSnapshots, WorkerStatus
  <1>3. ASSUME NEW n \in Nodes, Passes(n) \/ ReadReport(n)
        PROVE  WorkerStatus'
    BY <1>3 DEF Passes, ReadReport, UsableJob, Visit, At, Continue, WorkerStatus
  <1>4. ASSUME NEW m \in Maps, Wrote(m)
        PROVE  WorkerStatus'
    BY <1>4 DEF Wrote, WriteMap, At, Skip, WorkerStatus
  <1>5. CASE EndsEmpty
    <2>1. PICK phase \in {"Failed", "Running"}, cond \in Reasons, total \in SUBSET Nodes :
            next' = NextStatus(phase, cond, total, {}, {}) /\ copy' = copy
      BY <1>5 DEF EndsEmpty, Finish
    <2>2. next'.results = {} /\ next'.phase = phase /\ next'.gen = copy.gen
      BY <2>1 DEF NextStatus
    <2> QED
      BY <2>1, <2>2 DEF WorkerStatus, Sound
  <1>6. CASE EndsWithResults
    <2>1. PICK phase \in {"Failed", "Succeeded"}, cond \in Reasons :
            /\ phase = "Succeeded" => \A r \in reports : r.ok
            /\ next' = NextStatus(phase, cond, Sources, reports, observed)
            /\ copy' = copy
      BY <1>6 DEF EndsWithResults, Finish
    <2>2. /\ next'.results = reports /\ next'.phase = phase /\ next'.gen = copy.gen
          /\ next'.total = Sources
      BY <2>1 DEF NextStatus
    <2>3. Sources # {} /\ NodesOf(reports) = Sources
      BY <1>6 DEF EndsWithResults, WorkerReports, NodesOf
    <2>4. reports # {}
      BY <2>3 DEF NodesOf
    <2> QED
      BY <2>1, <2>2, <2>3, <2>4 DEF WorkerStatus, WorkerReports, Sound, NodesOf
  <1> QED
    BY <1>1, <1>2, <1>3, <1>4, <1>5, <1>6, WorkerMoves

-----------------------------------------------------------------------------
(* The lab                                                                   *)

\* What a step does to the lab: nothing to its status, or it publishes the one
\* the worker computed, on the lab as the worker read it.
LabKept ==
    \/ lab' = NoLab
    \/ lab = NoLab /\ lab'.status = NoStatus
    \/ lab # NoLab /\ lab'.status = lab.status

\* The steps that write the lab: the two finalizer updates, the status update and
\* the user's own.
LEMMA LabMoves ==
    [Next]_vars => \/ UNCHANGED lab
                   \/ AddFinalizer \/ RemoveFinalizer \/ Publish
                   \/ CreateLab \/ EditSpec \/ DeleteLab
  <1> SUFFICES ASSUME [Next]_vars, ~ AddFinalizer, ~ RemoveFinalizer, ~ Publish,
                      ~ CreateLab, ~ EditSpec, ~ DeleteLab
               PROVE  UNCHANGED lab
    OBVIOUS
  <1>1. CASE ChangeTargets \/ TimerFires \/ Resync \/ Deliver \/ UNCHANGED vars
               \/ \E n \in Nodes : JobExpires(n) \/ JobControl(n)
    BY <1>1 DEF ChangeTargets, TimerFires, Resync, Deliver, DeliverLab, DeliverPods,
                      DeliverJob, DeliverMap, JobExpires, JobControl, PodTerminates,
                      JobSucceeds, JobFails, JobCollected
  <1>2. CASE Fault
    BY <1>2 DEF Fault, CallFails, Restart, JobCallFails, MapCallFails
  <1>3. CASE ProbeJobs
    BY <1>3 DEF ProbeJobs, CreateJob, CreateExists, AwaitDeletion, DeleteStaleJob,
                      ReadReport, ReportUnreadable, SeeFailedJob, SeeActiveJob, JobsPending
  <1>4. CASE Export
    BY <1>4 DEF Export, CollectSnapshots, WriteMap, MapConflict, RunCompleted
  <1>5. CASE Cleanup
    BY <1>5 DEF Cleanup, ReconcileDeleted, DeleteListedJob, ListMaps,
                             DeleteListedMap, CleanupDone
  <1>6. CASE ReconcileMissing \/ ReconcileNew \/ ReconcileLab \/ FinalizerConflict
                \/ ListTargets \/ NoTargets \/ PublishSame \/ PublishConflict
    BY <1>6 DEF ReconcileMissing, ReconcileNew, ReconcileLab, FinalizerConflict,
                       ListTargets, NoTargets, PublishSame, PublishConflict
  <1> QED
    BY <1>1, <1>2, <1>3, <1>4, <1>5, <1>6
    DEF Next, Reconcile, Outside

\* Publish is the only step that changes the status of a lab.
LEMMA OnlyPublishChangesStatus ==
    TypeOK /\ WorkerHasLab /\ [Next]_vars => LabKept \/ Publish
  <1> SUFFICES ASSUME TypeOK, WorkerHasLab, [Next]_vars, ~ Publish PROVE LabKept
    OBVIOUS
  <1>1. CASE UNCHANGED lab
    BY <1>1 DEF LabKept
  <1>2. CASE AddFinalizer
    BY <1>2 DEF AddFinalizer, At, WorkerHasLab, TypeOK, Lab, LabKept
  <1>3. CASE RemoveFinalizer
    BY <1>3 DEF RemoveFinalizer, LabKept
  <1>4. CASE CreateLab
    BY <1>4 DEF CreateLab, LabKept
  <1>5. CASE EditSpec \/ DeleteLab
    BY <1>5 DEF EditSpec, DeleteLab, TypeOK, Lab, LabKept
  <1> QED
    BY <1>1, <1>2, <1>3, <1>4, <1>5, LabMoves

\* A status is published only on a lab that has its finalizer, and nothing but the
\* last update of its cleanup takes that away.
LEMMA FinalizerFirstStep ==
    TypeOK /\ WorkerHasLab /\ FinalizerFirst /\ [Next]_vars => FinalizerFirst'
  <1> SUFFICES ASSUME TypeOK, WorkerHasLab, FinalizerFirst, [Next]_vars
               PROVE  FinalizerFirst'
    OBVIOUS
  <1>1. CASE UNCHANGED lab \/ RemoveFinalizer
    BY <1>1 DEF RemoveFinalizer, FinalizerFirst
  <1>2. CASE AddFinalizer \/ Publish
    BY <1>2 DEF AddFinalizer, Publish, At, WorkerHasLab, TypeOK, Lab, FinalizerFirst
  <1>3. CASE CreateLab
    BY <1>3 DEF CreateLab, NoStatus, FinalizerFirst
  <1>4. CASE EditSpec \/ DeleteLab
    BY <1>4 DEF EditSpec, DeleteLab, TypeOK, Lab, FinalizerFirst
  <1> QED
    BY <1>1, <1>2, <1>3, <1>4, LabMoves

\* The status of a lab stays sound: what replaces it is the worker's.
LEMMA PublishedSoundStep ==
    TypeOK /\ WorkerHasLab /\ WorkerStatus /\ PublishedSound /\ [Next]_vars => PublishedSound'
  <1> SUFFICES ASSUME TypeOK, WorkerHasLab, WorkerStatus, PublishedSound, [Next]_vars
               PROVE  PublishedSound'
    OBVIOUS
  <1>1. CASE LabKept
    BY <1>1 DEF LabKept, PublishedSound, Sound, NoStatus
  <1>2. CASE Publish
    <2>1. lab'.status = next /\ pc = "publish"
      BY <1>2 DEF Publish, At, WorkerHasLab, TypeOK, Lab
    <2> QED
      BY <2>1 DEF WorkerStatus, PublishedSound, Sound
  <1> QED
    BY <1>1, <1>2, OnlyPublishChangesStatus

-----------------------------------------------------------------------------
(* The theorems                                                              *)

\* The invariant holds of an empty cluster.
LEMMA InvInit == Init => IInv
  <1> SUFFICES ASSUME Init PROVE IInv
    OBVIOUS
  <1>1. Runs = {}
    BY DEF Init, Runs, RunsOf
  <1>2. UidsDistinct /\ InPlace /\ SameUnderName
    BY <1>1 DEF Init, UidsDistinct, InPlace, SameUnderName
  <1>3. WorkerHasLab /\ WorkerReports /\ WorkerStatus /\ PublishedSound /\ FinalizerFirst
    BY DEF Init, WorkerHasLab, WorkerReports, WorkerStatus, PublishedSound, FinalizerFirst
  <1> QED
    BY <1>2, <1>3, TypeInit DEF IInv

\* Every step of the reconcile, the faults and the cluster keeps the invariant.
LEMMA InvStep == IInv /\ [Next]_vars => IInv'
  BY TypeStep, UidsStep, InPlaceStep, SameUnderNameStep, WorkerHasLabStep,
     WorkerReportsStep, WorkerStatusStep, PublishedSoundStep, FinalizerFirstStep DEF IInv

\* The inductive invariant of the reconciler.
THEOREM Invariance == Spec => []IInv
  BY InvInit, InvStep, PTL DEF Spec

\* Every variable has its type, with any number of nodes, edits and faults.
THEOREM TypeCorrect == Spec => []TypeOK
  <1>1. IInv => TypeOK
    BY DEF IInv
  <1> QED
    BY <1>1, Invariance, PTL

\* The results in a lab's status are of the status's generation, one report for
\* every source node, and Succeeded means all of them are good: however old the
\* caches, whatever the pods left by deleted Jobs, wherever a run breaks off.
THEOREM ResultsSound == Spec => []PublishedSound
  <1>1. IInv => PublishedSound
    BY DEF IInv
  <1> QED
    BY <1>1, Invariance, PTL

\* Reconcile never writes the results of an earlier spec over a later one, and
\* never writes the status of a lab that is being deleted.
THEOREM NoLateStatus == Spec => PublishedForCurrentSpec
  <1>1. IInv /\ [Next]_vars =>
          [(lab # NoLab /\ lab' # NoLab /\ lab'.inc = lab.inc /\ lab'.status # lab.status)
             => lab'.status.gen = lab.gen /\ ~lab.deleting]_vars
    <2> SUFFICES ASSUME IInv, [Next]_vars, lab # NoLab, lab' # NoLab,
                        lab'.status # lab.status
                 PROVE  lab'.status.gen = lab.gen /\ ~lab.deleting
      OBVIOUS
    <2>1. Publish
      BY OnlyPublishChangesStatus DEF IInv, LabKept
    <2>2. lab = copy /\ lab'.status = next /\ pc = "publish"
      BY <2>1 DEF Publish, At, IInv, TypeOK, Lab
    <2> QED
      BY <2>2 DEF IInv, WorkerStatus, WorkerHasLab
  <1> QED
    BY <1>1, Invariance, PTL DEF Spec, PublishedForCurrentSpec

\* Delete by name from an old cache never hits a Job of the current run: a name
\* that the cache shows taken was not given to another Job since.
THEOREM StaleJobsOnly == Spec => OnlyStaleJobsDeleted
  <1>1. IInv /\ [Next]_vars =>
          [\A n \in Nodes :
             (pc = "jobs" /\ left' # left /\ jobs[n] # NoJob /\ ~jobs[n].deleting
                /\ jobs'[n] # jobs[n])
             => IsStale(jobs[n])]_vars
    <2> SUFFICES ASSUME IInv, [Next]_vars, NEW n \in Nodes, pc = "jobs", left' # left,
                        jobs[n] # NoJob, jobs'[n] # jobs[n]
                 PROVE  IsStale(jobs[n])
      OBVIOUS
    <2>1. ~ UNCHANGED workerVars
      OBVIOUS
    <2>2. \E m \in Nodes : CreateJob(m) \/ DeleteStaleJob(m)
      <3>1. ~ Outside /\ ~ Deliver /\ ~ TimerFires /\ ~ Resync
            /\ \A m \in Nodes : ~ JobControl(m)
        BY <2>1 DEF Outside, Deliver, JobControl, CreateLab, EditSpec, DeleteLab,
                    ChangeTargets, JobExpires, DeliverLab, DeliverPods, DeliverJob, DeliverMap,
                    PodTerminates, JobSucceeds, JobFails, JobCollected, TimerFires, Resync
      <3>2. ~ Fault
        BY DEF Fault, CallFails, Restart, JobCallFails, MapCallFails
      <3>3. ~ Export /\ ~ Cleanup
        BY DEF Export, CollectSnapshots, WriteMap, MapConflict, RunCompleted, Cleanup,
               ReconcileDeleted, Begin, At, DeleteListedJob, ListMaps, DeleteListedMap,
               CleanupDone, RemoveFinalizer
      <3>4. ProbeJobs
        BY <3>1, <3>2, <3>3
        DEF Next, Reconcile, ReconcileMissing, ReconcileNew, ReconcileLab, AddFinalizer,
            FinalizerConflict, ListTargets, NoTargets, PublishSame, Publish, PublishConflict
      <3> QED
        BY <3>4 DEF ProbeJobs, CreateExists, AwaitDeletion, ReadReport, ReportUnreadable,
                    SeeFailedJob, SeeActiveJob, JobsPending
    <2>3. jobs \in [Nodes -> Job \cup {NoJob}]
      BY DEF IInv, TypeOK
    <2>4. PICK m \in Nodes : CreateJob(m) \/ DeleteStaleJob(m)
      BY <2>2
    <2>5. CASE CreateJob(m)
      BY <2>3, <2>5 DEF CreateJob
    <2>6. CASE DeleteStaleJob(m)
      <3>1. m = n /\ jobCache[n] # NoJob /\ IsStale(jobCache[n])
        BY <2>3, <2>6 DEF DeleteStaleJob, DeletedJob, Seen
      <3> QED
        BY <3>1 DEF IInv, SameUnderName, IsStale
    <2> QED
      BY <2>4, <2>5, <2>6
  <1> QED
    BY <1>1, Invariance, PTL DEF Spec, OnlyStaleJobsDeleted
-----------------------------------------------------------------------------
(* The refinement of LabPromise                                              *)

\* What the user sees of a lab is an object of LabPromise.
LEMMA ViewInObjects == TypeOK /\ lab # NoLab => View \in Promise!Objects
  <1> SUFFICES ASSUME TypeOK, lab # NoLab PROVE View \in Promise!Objects
    OBVIOUS
  <1>1. lab.gen \in Nat /\ lab.deleting \in BOOLEAN /\ lab.status \in Status
    BY BoundAssumption DEF TypeOK, Lab
  <1>2. Complete(lab.status) \in BOOLEAN
    BY DEF Complete
  <1> QED
    BY <1>1, <1>2 DEF View, Promise!Objects, Promise!Phases, Status

\* The reconciler implements LabPromise: at every step the user of a lab sees either
\* nothing or one step of the promise.
THEOREM PromiseKept == Spec => KeepsPromise
  <1>1. Init => Promise!Init
    BY DEF Init, Promise!Init, View
  <1>2. IInv /\ [Next]_vars => [Promise!Next]_View
    <2> SUFFICES ASSUME IInv, [Next]_vars PROVE Promise!Next \/ View' = View
      OBVIOUS
    <2>1. TypeOK /\ WorkerHasLab /\ WorkerStatus /\ FinalizerFirst
      BY DEF IInv
    <2>2. lab # NoLab => View # NoLab
      BY <2>1, ViewInObjects, ViewAssumption
    <2>3. CASE UNCHANGED lab
      BY <2>3 DEF View
    <2>4. CASE AddFinalizer
      <3>1. lab \in Lab /\ lab' = [lab EXCEPT !.finalizer = TRUE] /\ lab' \in Lab
        BY <2>1, <2>4 DEF AddFinalizer, At, WorkerHasLab, TypeOK, Lab
      <3>2. lab # NoLab /\ lab' # NoLab
        BY <3>1, AbsenceAssumption
      <3>3. UNCHANGED <<lab.gen, lab.deleting, lab.status>>
        BY <3>1 DEF Lab
      <3> QED
        BY <3>2, <3>3 DEF View
    <2>5. CASE RemoveFinalizer
      <3>1. lab # NoLab /\ lab.deleting /\ lab' = NoLab
        BY <2>1, <2>5 DEF RemoveFinalizer, At, WorkerHasLab
      <3>2. View.deleting /\ View' = NoLab
        BY <3>1 DEF View
      <3> QED
        BY <2>2, <3>1, <3>2 DEF Promise!Next, Promise!Remove
    <2>6. CASE CreateLab
      <3>1. lab' = [inc |-> incarnation + 1, gen |-> 1, deleting |-> FALSE,
                    finalizer |-> FALSE, status |-> NoStatus]
        BY <2>6 DEF CreateLab
      <3>2. lab' # NoLab
        <4>1. incarnation + 1 \in Nat /\ 1 \in 1..MaxGeneration
          BY <2>1, BoundAssumption DEF TypeOK
        <4>2. lab' \in Lab
          BY <3>1, <4>1, NoStatusType DEF Lab
        <4> QED
          BY <4>2, AbsenceAssumption
      <3>3. View = NoLab
        BY <2>6 DEF CreateLab, View
      <3>4. View' = [gen |-> 1, deleting |-> FALSE, seen |-> 0, phase |-> "unset",
                     complete |-> FALSE]
        <4>1. View' = [gen |-> 1, deleting |-> FALSE, seen |-> NoStatus.gen,
                       phase |-> NoStatus.phase, complete |-> Complete(NoStatus)]
          BY <3>1, <3>2 DEF View
        <4>2. Complete(NoStatus) = FALSE
          BY DEF Complete, NoStatus
        <4> QED
          BY <4>1, <4>2 DEF NoStatus
      <3> QED
        BY <3>3, <3>4 DEF Promise!Next, Promise!Create
    <2>7. CASE EditSpec
      <3>1. lab \in Lab /\ lab' = [lab EXCEPT !.gen = @ + 1]
        BY <2>1, <2>7 DEF EditSpec, TypeOK
      <3>2. lab' \in Lab
        BY <2>7, <3>1, BoundAssumption DEF EditSpec, Lab
      <3>3. View' = [View EXCEPT !.gen = @ + 1]
        BY <3>1, <3>2, AbsenceAssumption DEF View, Lab
      <3> QED
        BY <2>2, <3>1, <3>3, AbsenceAssumption DEF Promise!Next, Promise!Edit
    <2>8. CASE DeleteLab
      <3>1. lab \in Lab /\ ~lab.deleting /\ lab # NoLab
        BY <2>1, <2>8 DEF DeleteLab, TypeOK
      <3>2. CASE lab.finalizer
        <4>1. lab' = [lab EXCEPT !.deleting = TRUE] /\ lab' \in Lab
          BY <2>8, <3>1, <3>2 DEF DeleteLab, Lab
        <4>2. lab' # NoLab /\ UNCHANGED <<lab.gen, lab.status>> /\ lab'.deleting = TRUE
          BY <3>1, <4>1, AbsenceAssumption DEF Lab
        <4>3. PICK complete, yes : complete = Complete(lab.status) /\ yes = TRUE
          OBVIOUS
        <4>4. /\ View = [gen |-> lab.gen, deleting |-> lab.deleting, seen |-> lab.status.gen,
                         phase |-> lab.status.phase, complete |-> complete]
              /\ View' = [gen |-> lab.gen, deleting |-> yes, seen |-> lab.status.gen,
                          phase |-> lab.status.phase, complete |-> complete]
          BY <3>1, <4>2, <4>3 DEF View
        <4>5. View' = [View EXCEPT !.deleting = TRUE]
          <5>1. View' = [View EXCEPT !.deleting = yes]
            BY <4>4
          <5> QED
            BY <4>3, <5>1
        <4>6. ~View.deleting
          BY <3>1 DEF View
        <4> QED
          BY <2>2, <3>1, <4>5, <4>6 DEF Promise!Next, Promise!Delete
      <3>3. CASE ~lab.finalizer
        <4>1. View.seen = 0 /\ View' = NoLab
          BY <2>1, <2>8, <3>1, <3>3 DEF DeleteLab, FinalizerFirst, View
        <4> QED
          BY <2>2, <3>1, <4>1 DEF Promise!Next, Promise!Remove
      <3> QED
        BY <3>2, <3>3
    <2>9. CASE Publish
      <3>1. /\ lab \in Lab /\ lab # NoLab /\ lab = copy /\ ~lab.deleting
            /\ lab' = [lab EXCEPT !.status = next]
            /\ next.gen = lab.gen /\ next.phase # "unset" /\ Sound(next) /\ next \in Status
        BY <2>1, <2>9 DEF Publish, At, WorkerHasLab, WorkerStatus, TypeOK
      <3>2. lab' \in Lab /\ lab'.status = next
        BY <3>1 DEF Lab
      <3>3. lab' # NoLab /\ UNCHANGED <<lab.gen, lab.deleting>>
        BY <3>1, <3>2, AbsenceAssumption DEF Lab
      <3>4. View' = [gen |-> lab.gen, deleting |-> FALSE, seen |-> lab.gen,
                     phase |-> next.phase, complete |-> Complete(next)]
        <4>1. View' = [gen |-> lab'.gen, deleting |-> lab'.deleting,
                       seen |-> lab'.status.gen, phase |-> lab'.status.phase,
                       complete |-> Complete(lab'.status)]
          BY <3>3 DEF View
        <4>2. /\ lab'.gen = lab.gen /\ lab'.deleting = FALSE
              /\ lab'.status = next /\ next.gen = lab.gen
          BY <3>1, <3>2, <3>3 DEF Lab
        <4> QED
          BY <4>1, <4>2
      <3>5. Complete(next) \in BOOLEAN /\ (next.phase = "Succeeded" => Complete(next))
        BY <3>1 DEF Complete, Sound
      <3>6. next.phase \in Promise!Phases \ {"unset"} /\ ~View.deleting /\ View.gen = lab.gen
        BY <3>1 DEF Status, Promise!Phases, View
      <3> QED
        BY <2>2, <3>1, <3>4, <3>5, <3>6 DEF Promise!Next, Promise!Publish
    <2> QED
      BY <2>3, <2>4, <2>5, <2>6, <2>7, <2>8, <2>9, LabMoves
  <1> QED
    BY <1>1, <1>2, Invariance, PTL DEF Spec, KeepsPromise, Promise!Spec
=============================================================================
