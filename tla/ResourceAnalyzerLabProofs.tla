--------------------- MODULE ResourceAnalyzerLabProofs ----------------------
(* Proofs about ResourceAnalyzerLab for every size of the monitoring stack,   *)
(* every spec and every bound.  Types, then what each kind of step does, then *)
(* one lemma for each conjunct of the inductive invariant IInv.               *)
EXTENDS ResourceAnalyzerLab, TLAPS

\* The reports a spec asks for are ConfigMaps.
LEMMA ReportMapsType == \A g : ReportMaps(g) \in SUBSET Maps
  BY DEF ReportMaps

\* The status of a new lab is a status.
LEMMA NoStatusType == NoStatus \in Status
  BY DEF NoStatus, NoAnalysis, Status, Analysis, StackReasons, QueryReasons

\* The status that Reconcile builds (`next') is a status.
LEMMA NextStatusType ==
    ASSUME TypeOK, copy # NoLab,
           NEW phase \in {"Running", "Failed", "Succeeded"},
           NEW monitoring \in StackReasons, NEW reachable \in QueryReasons
    PROVE  /\ NextStatus(phase, monitoring, reachable) \in Status
           /\ NextStatus(phase, monitoring, reachable).gen = copy.gen
           /\ NextStatus(phase, monitoring, reachable).phase = phase
           /\ NextStatus(phase, monitoring, reachable).summary = copy.status.summary
           /\ NextStatus(phase, monitoring, reachable).exported = copy.status.exported
  <1>1. copy.gen \in Nat /\ copy.status \in Status
    BY BoundAssumption DEF TypeOK, Lab
  <1> QED
    BY <1>1 DEF NextStatus, Status

\* The condition MonitoringStackReady is of one of the known reasons.
LEMMA MonitoredType == TypeOK /\ copy # NoLab => Monitored \in StackReasons
  <1> SUFFICES ASSUME TypeOK, copy # NoLab PROVE Monitored \in StackReasons
    OBVIOUS
  <1>1. copy.status \in Status
    BY DEF TypeOK, Lab
  <1>2. copy.status.monitoring \in StackReasons
    BY <1>1 DEF Status
  <1> QED
    BY <1>2 DEF Monitored, StackReasons

\* A failed run keeps the summary and sets the generation.
LEMMA Failing ==
    ASSUME TypeOK, copy # NoLab, FailApply \/ FailQuery
    PROVE  /\ next' \in Status /\ next'.gen = copy.gen /\ next'.phase = "Failed"
           /\ next'.summary = copy.status.summary
  <1>1. CASE FailApply
    <2>1. "ApplyFailed" \in StackReasons /\ "MonitoringStackFailed" \in QueryReasons
      BY DEF StackReasons, QueryReasons
    <2> QED
      BY <1>1, <2>1, NextStatusType DEF FailApply, Finish
  <1>2. CASE FailQuery
    <2>1. "QueryFailed" \in QueryReasons
      BY DEF QueryReasons
    <2> QED
      BY <1>2, <2>1, NextStatusType, MonitoredType DEF FailQuery, Finish
  <1> QED
    BY <1>1, <1>2

\* A completed run has the summary of the generation the worker read.
LEMMA Completing ==
    ASSUME TypeOK, copy # NoLab, AnalysisCompleted
    PROVE  /\ next' \in Status /\ next'.gen = copy.gen /\ next'.phase = "Succeeded"
           /\ next'.summary = [gen |-> copy.gen, data |-> answer]
  <1> DEFINE base == NextStatus("Succeeded", Monitored, "QuerySucceeded")
  <1>1. /\ base \in Status /\ base.gen = copy.gen /\ base.phase = "Succeeded"
        /\ base.exported = copy.status.exported
    <2>1. "QuerySucceeded" \in QueryReasons
      BY DEF QueryReasons
    <2> QED
      BY <2>1, NextStatusType, MonitoredType
  <1>2. copy.gen \in 1..MaxGeneration /\ answer \in Nat
    BY DEF TypeOK, Lab
  <1>3. [gen |-> copy.gen, data |-> answer] \in Analysis
    BY <1>2, BoundAssumption DEF Analysis
  <1>4. Wanted[copy.gen].output \in SUBSET Reports
    BY <1>2, WantedAssumption DEF Intent
  <1>5. base.exported \in SUBSET Reports
    BY <1>1 DEF Status
  <1>6. next' = [base EXCEPT !.exported = @ \cup Wanted[copy.gen].output,
                             !.summary = [gen |-> copy.gen, data |-> answer]]
    BY <1>1 DEF AnalysisCompleted, Finish, Status
  <1> HIDE DEF base
  <1> QED
    BY <1>1, <1>3, <1>4, <1>5, <1>6 DEF Status

\* A run that waits or has no URL keeps the summary, too.
LEMMA Stopping ==
    ASSUME TypeOK, copy # NoLab, StackPending \/ MissingURL
    PROVE  /\ next' \in Status /\ next'.gen = copy.gen
           /\ next'.phase \in {"Running", "Failed"}
           /\ next'.summary = copy.status.summary
  <1>1. CASE StackPending
    <2>1. "WaitingForPrometheus" \in StackReasons /\ "WaitingForPrometheus" \in QueryReasons
      BY DEF StackReasons, QueryReasons
    <2> QED
      BY <1>1, <2>1, NextStatusType DEF StackPending, Finish
  <1>2. CASE MissingURL
    <2>1. "MissingPrometheusURL" \in QueryReasons
      BY DEF QueryReasons
    <2> QED
      BY <1>2, <2>1, NextStatusType, MonitoredType DEF MissingURL, Finish
  <1> QED
    BY <1>1, <1>2
-----------------------------------------------------------------------------
(* Types                                                                     *)

\* Initial types.
LEMMA TypeInit == Init => TypeOK
  <1> SUFFICES ASSUME Init PROVE TypeOK
    OBVIOUS
  <1>1. NoMap \in Content
    BY DEF NoMap, Content
  <1>2. MaxDisturbances \in Nat
    BY BoundAssumption
  <1> QED
    BY <1>1, <1>2, NoStatusType DEF Init, TypeOK, Steps, Cached

\* Going back to the idle worker keeps its types.
LEMMA ReturnType ==
    Return => /\ pc' \in Steps /\ copy' \in Lab \cup {NoLab} /\ left' \in SUBSET (Stack \cup Maps)
              /\ ready' \in BOOLEAN /\ answer' \in Nat /\ next' \in Status
  <1> SUFFICES ASSUME Return
               PROVE  /\ pc' \in Steps /\ copy' \in Lab \cup {NoLab}
                      /\ left' \in SUBSET (Stack \cup Maps)
                      /\ ready' \in BOOLEAN /\ answer' \in Nat /\ next' \in Status
    OBVIOUS
  <1>1. next' = NoStatus
    BY DEF Return
  <1>2. pc' \in Steps /\ copy' \in Lab \cup {NoLab} /\ left' \in SUBSET (Stack \cup Maps)
    BY DEF Return, Steps
  <1>3. ready' = FALSE /\ answer' = 0
    BY DEF Return
  <1> QED
    BY <1>1, <1>2, <1>3, NoStatusType

\* The worker's variables are typed.
LocalsTyped ==
    /\ pc \in Steps /\ copy \in Lab \cup {NoLab} /\ left \in SUBSET (Stack \cup Maps)
    /\ ready \in BOOLEAN /\ answer \in Nat /\ next \in Status

\* A run that fails keeps the types of the worker's variables.
LEMMA FailLocals ==
    ASSUME TypeOK, copy # NoLab, FailApply \/ FailQuery
    PROVE  LocalsTyped'
  <1>1. next' \in Status
    BY Failing
  <1> QED
    BY <1>1 DEF FailApply, FailQuery, Finish, TypeOK, Steps, LocalsTyped

\* A call outside the run that is answered, or whose answer is lost: Reconcile returns.
LEMMA CallReturns ==
    ASSUME TypeOK,
           Answered(Return /\ UNCHANGED queueVars) \/ AnswerLost(ReturnError)
    PROVE  Return /\ queued' \in BOOLEAN /\ timer' \in BOOLEAN /\ budget' \in Nat
  <1>1. CASE Answered(Return /\ UNCHANGED queueVars)
    <2>1. Return /\ UNCHANGED queueVars /\ UNCHANGED budget
      BY <1>1 DEF Answered
    <2> QED
      BY <2>1 DEF queueVars, TypeOK
  <1>2. CASE AnswerLost(ReturnError)
    <2>1. Return /\ queued' = TRUE /\ timer' = timer
      BY <1>2 DEF AnswerLost, ReturnError
    <2>2. budget' \in Nat
      BY <1>2 DEF AnswerLost, Disturb, TypeOK
    <2> QED
      BY <2>1, <2>2 DEF TypeOK
  <1> QED
    BY <1>1, <1>2

\* Types are kept by every step.
LEMMA TypeStep == TypeOK /\ WorkerHasLab /\ [Next]_vars => TypeOK'
  <1> SUFFICES ASSUME TypeOK, WorkerHasLab, [Next]_vars PROVE TypeOK'
    OBVIOUS
  <1> USE DEF apiVars, cacheVars, metrics, queueVars, counters, localVars, worldVars
  <1>1. CASE UNCHANGED vars
    BY <1>1 DEF vars, TypeOK
  <1>2. CASE ReconcileMissing \/ ReconcileNew \/ ReconcileDeleted
    BY <1>2 DEF ReconcileMissing, ReconcileNew, ReconcileDeleted, Begin, TypeOK, Steps
  <1>3. CASE ReconcileLab
    <2>1. GrafanaSet(labCache.gen) \in SUBSET Stack /\ PrometheusSet \in SUBSET Stack
      BY PartsAssumption DEF GrafanaSet, PrometheusSet, Stack
    <2> QED
      BY <1>3, <2>1 DEF ReconcileLab, Begin, TypeOK, Steps
  <1>4. CASE \E m \in Maps : DeleteListedMap(m)
    <2>1. PICK m \in Maps : DeleteListedMap(m)
      BY <1>4
    <2>2. maps' \in [Maps -> Content] /\ mapCache' \in [Maps -> Cached]
      BY <2>1 DEF DeleteListedMap, TypeOK, Cached, NoMap, Content
    <2>3. CASE Answered(Skip(m) /\ UNCHANGED queueVars)
      BY <2>1, <2>2, <2>3 DEF DeleteListedMap, Answered, Skip, TypeOK
    <2>4. CASE AnswerLost(ReturnError)
      BY <2>1, <2>2, <2>4, ReturnType
      DEF DeleteListedMap, AnswerLost, Disturb, ReturnError, TypeOK
    <2> QED
      BY <2>1, <2>3, <2>4 DEF DeleteListedMap
  <1>5. CASE CleanupDone
    BY <1>5 DEF CleanupDone, TypeOK, Steps
  <1>6. CASE RemoveFinalizer \/ FinalizerConflict \/ PublishSame \/ PublishConflict \/ CallFails
    <2>1. CASE RemoveFinalizer
      <3>1. Return /\ queued' \in BOOLEAN /\ timer' \in BOOLEAN /\ budget' \in Nat
        BY <2>1, CallReturns DEF RemoveFinalizer
      <3> QED
        BY <2>1, <3>1, ReturnType DEF RemoveFinalizer, TypeOK
    <2>2. CASE FinalizerConflict \/ PublishConflict
      BY <2>2, ReturnType DEF FinalizerConflict, PublishConflict, ReturnError, TypeOK
    <2>3. CASE PublishSame
      BY <2>3, ReturnType DEF PublishSame, Requeue, TypeOK
    <2>4. CASE CallFails
      BY <2>4, ReturnType DEF CallFails, ReturnError, Disturb, TypeOK
    <2> QED
      BY <1>6, <2>1, <2>2, <2>3, <2>4
  <1>7. CASE AddFinalizer
    <2>1. lab' \in Lab
      BY <1>7 DEF AddFinalizer, At, WorkerHasLab, TypeOK, Lab
    <2>2. Return /\ queued' \in BOOLEAN /\ timer' \in BOOLEAN /\ budget' \in Nat
      BY <1>7, CallReturns DEF AddFinalizer
    <2> QED
      BY <1>7, <2>1, <2>2, ReturnType DEF AddFinalizer, TypeOK
  <1>8. CASE \E o \in Stack : ApplyPart(o)
    <2>1. PICK o \in Stack : ApplyPart(o)
      BY <1>8
    <2>2. stack' \in SUBSET Stack /\ copy # NoLab
      BY <2>1 DEF ApplyPart, Applying, At, WorkerHasLab, TypeOK
    <2>3. CASE Answered(Skip(o))
      BY <2>1, <2>2, <2>3 DEF ApplyPart, Answered, Skip, TypeOK
    <2>4. CASE AnswerLost(FailApply)
      <3>1. budget' \in Nat /\ LocalsTyped'
        BY <2>2, <2>4, FailLocals DEF AnswerLost, Disturb, TypeOK
      <3> QED
        BY <2>1, <2>2, <3>1 DEF ApplyPart, LocalsTyped, TypeOK
    <2> QED
      BY <2>1, <2>3, <2>4 DEF ApplyPart
  <1>9. CASE \E o \in Stack : PartConflict(o) \/ PartCallFails(o)
    <2>1. copy # NoLab
      BY <1>9 DEF PartConflict, PartCallFails, Applying, At, WorkerHasLab
    <2>2. FailApply /\ budget' \in Nat
      BY <1>9 DEF PartConflict, PartCallFails, Disturb, TypeOK
    <2>3. next' \in Status
      BY <2>1, <2>2, Failing
    <2> QED
      BY <1>9, <2>2, <2>3 DEF FailApply, Finish, PartConflict, PartCallFails, TypeOK, Steps
  <1>10. CASE ReadAvailability
    <2>1. GrafanaSet(copy.gen) \in SUBSET Stack
      BY DEF GrafanaSet
    <2> QED
      BY <1>10, <2>1 DEF ReadAvailability, TypeOK, Steps
  <1>11. CASE DeploymentNotCached \/ QueryFails \/ \E m \in Maps : MapConflict(m) \/ MapCallFails(m)
    <2>1. copy # NoLab
      BY <1>11 DEF DeploymentNotCached, QueryFails, StackReady, Applied, MapConflict, MapCallFails,
                   At, WorkerHasLab
    <2>2. (FailApply \/ FailQuery) /\ budget' \in Nat
      BY <1>11 DEF DeploymentNotCached, QueryFails, MapConflict, MapCallFails, Disturb, TypeOK
    <2>3. next' \in Status
      BY <2>1, <2>2, Failing
    <2> QED
      BY <1>11, <2>2, <2>3
      DEF FailApply, FailQuery, Finish, DeploymentNotCached, QueryFails, MapConflict, MapCallFails,
          TypeOK, Steps
  <1>12. CASE StackPending \/ MissingURL
    <2>1. copy # NoLab
      BY <1>12 DEF StackPending, MissingURL, StackReady, Applied, At, WorkerHasLab
    <2>2. next' \in Status
      BY <1>12, <2>1, Stopping
    <2> QED
      BY <1>12, <2>2 DEF Finish, StackPending, MissingURL, TypeOK, Steps
  <1>13. CASE Query
    BY <1>13, ReportMapsType DEF Query, TypeOK, Steps
  <1>14. CASE \E m \in Maps : WriteMap(m)
    <2>1. PICK m \in Maps : WriteMap(m)
      BY <1>14
    <2>2. [inc |-> copy.inc, gen |-> copy.gen, data |-> answer] \in Content
      BY <2>1, BoundAssumption DEF WriteMap, At, WorkerHasLab, TypeOK, Lab, Content
    <2>3. maps' \in [Maps -> Content] /\ mapCache' \in [Maps -> Cached] /\ copy # NoLab
      BY <2>1, <2>2 DEF WriteMap, At, WorkerHasLab, TypeOK, Cached
    <2>4. CASE Answered(Skip(m))
      BY <2>1, <2>3, <2>4 DEF WriteMap, Answered, Skip, TypeOK
    <2>5. CASE AnswerLost(FailQuery)
      <3>1. budget' \in Nat /\ LocalsTyped'
        BY <2>3, <2>5, FailLocals DEF AnswerLost, Disturb, TypeOK
      <3> QED
        BY <2>1, <2>3, <3>1 DEF WriteMap, LocalsTyped, TypeOK
    <2> QED
      BY <2>1, <2>4, <2>5 DEF WriteMap
  <1>15. CASE AnalysisCompleted
    <2>1. copy # NoLab
      BY <1>15 DEF AnalysisCompleted, At, WorkerHasLab
    <2>2. next' \in Status
      BY <1>15, <2>1, Completing
    <2> QED
      BY <1>15, <2>2 DEF Finish, AnalysisCompleted, TypeOK, Steps
  <1>16. CASE Publish
    <2>1. lab' \in Lab
      BY <1>16 DEF Publish, At, WorkerHasLab, TypeOK, Lab
    <2>2. Return /\ queued' \in BOOLEAN /\ timer' \in BOOLEAN /\ budget' \in Nat
      <3>1. CASE Answered(Requeue /\ Return /\ UNCHANGED queued)
        <4>1. Return /\ queued' = queued /\ budget' = budget /\ Requeue
          BY <3>1 DEF Answered
        <4>2. timer' \in BOOLEAN
          BY <4>1 DEF Requeue, TypeOK
        <4> QED
          BY <4>1, <4>2 DEF TypeOK
      <3>2. CASE AnswerLost(ReturnError)
        <4>1. Return /\ queued' = TRUE /\ timer' = timer
          BY <3>2 DEF AnswerLost, ReturnError
        <4>2. budget' \in Nat
          BY <3>2 DEF AnswerLost, Disturb, TypeOK
        <4> QED
          BY <4>1, <4>2 DEF TypeOK
      <3> QED
        BY <1>16, <3>1, <3>2 DEF Publish
    <2> QED
      BY <1>16, <2>1, <2>2, ReturnType DEF Publish, TypeOK
  <1>17. CASE Restart
    <2>1. mapCache' \in [Maps -> Cached] /\ stackCache' \in [Stack -> Cached]
      BY <1>17 DEF Restart, Cached
    <2>2. queued' \in BOOLEAN /\ timer' \in BOOLEAN
      BY <1>17 DEF Restart
    <2> QED
      BY <1>17, <2>1, <2>2, ReturnType DEF Restart, Disturb, TypeOK
  <1>18. CASE CreateLab
    <2>1. lab' \in Lab
      BY <1>18, BoundAssumption, NoStatusType DEF CreateLab, TypeOK, Lab
    <2> QED
      BY <1>18, <2>1 DEF CreateLab, workerVars, TypeOK
  <1>19. CASE EditSpec \/ DeleteLab
    <2>1. lab' \in Lab \cup {NoLab}
      <3>1. CASE EditSpec
        BY <3>1, BoundAssumption DEF EditSpec, TypeOK, Lab
      <3>2. CASE DeleteLab
        <4>1. lab \in Lab
          BY <3>2 DEF DeleteLab, TypeOK
        <4>2. [lab EXCEPT !.deleting = TRUE] \in Lab
          BY <4>1 DEF Lab
        <4> QED
          BY <3>2, <4>2 DEF DeleteLab
      <3> QED
        BY <1>19, <3>1, <3>2
    <2>2. CASE EditSpec
      BY <2>1, <2>2 DEF EditSpec, Disturb, workerVars, TypeOK
    <2>3. CASE DeleteLab
      BY <2>1, <2>3 DEF DeleteLab, Disturb, workerVars, TypeOK
    <2> QED
      BY <1>19, <2>2, <2>3
  <1>20. CASE PrometheusStarts \/ PrometheusStops
    <2>1. PICK value \in BOOLEAN : SetAvailable(value)
      BY <1>20 DEF PrometheusStarts, PrometheusStops
    <2>2. stackCache' \in [Stack -> Cached]
      <3>1. Deployment \in Stack
        BY PartsAssumption DEF Stack
      <3> QED
        BY <2>1, <3>1 DEF SetAvailable, TypeOK, Cached
    <2>3. UNCHANGED budget \/ Disturb("stop")
      BY <1>20, Zenon DEF PrometheusStarts, PrometheusStops
    <2>4. budget' \in Nat
      BY <2>3 DEF Disturb, TypeOK
    <2>5. available' \in BOOLEAN
      BY <2>1 DEF SetAvailable
    <2>6. UNCHANGED <<lab, maps, stack, labCache, mapCache, availableCache, metrics, queueVars,
                      incarnation, workerVars>>
      BY <2>1, Zenon DEF SetAvailable
    <2> QED
      BY <2>2, <2>4, <2>5, <2>6 DEF workerVars, TypeOK
  <1>21. CASE PrometheusFails \/ PrometheusRecovers \/ Scrape
    <2>1. CASE PrometheusFails
      <3>1. Disturb("outage")
        BY <2>1 DEF PrometheusFails
      <3>2. budget' \in Nat
        BY <3>1 DEF Disturb, TypeOK
      <3>3. answers' \in BOOLEAN
        BY <2>1 DEF PrometheusFails
      <3> QED
        BY <2>1, <3>2, <3>3, Zenon DEF PrometheusFails, workerVars, TypeOK
    <2>2. CASE PrometheusRecovers
      BY <2>2 DEF PrometheusRecovers, workerVars, TypeOK
    <2>3. CASE Scrape
      BY <2>3 DEF Scrape, Disturb, workerVars, TypeOK
    <2> QED
      BY <1>21, <2>1, <2>2, <2>3
  <1>23. CASE \E o \in Stack : WriteStatus(o)
    BY <1>23 DEF WriteStatus, Disturb, workerVars, TypeOK, Cached
  <1>22. CASE Deliver \/ TimerFires \/ Resync
    BY <1>22 DEF Deliver, DeliverLab, DeliverPart, DeliverMap, TimerFires, Resync, workerVars,
                 TypeOK, Cached
  <1> QED
    BY <1>1, <1>2, <1>3, <1>4, <1>5, <1>6, <1>7, <1>8, <1>9, <1>10, <1>11, <1>12, <1>13, <1>14,
       <1>15, <1>16, <1>17, <1>18, <1>19, <1>20, <1>21, <1>22, <1>23
    DEF Next, Reconcile, Cleanup, Monitoring, Analyze, Fault, Outside
-----------------------------------------------------------------------------
(* What the steps do                                                         *)

\* The steps that write the lab: the two finalizer updates, the status update and
\* the user's own.
LEMMA LabMoves ==
    [Next]_vars => \/ UNCHANGED lab
                   \/ AddFinalizer \/ RemoveFinalizer \/ Publish
                   \/ CreateLab \/ EditSpec \/ DeleteLab
  <1> SUFFICES ASSUME [Next]_vars, ~ AddFinalizer, ~ RemoveFinalizer, ~ Publish,
                      ~ CreateLab, ~ EditSpec, ~ DeleteLab
               PROVE  UNCHANGED lab
    OBVIOUS
  <1> USE DEF worldVars, apiVars
  <1>1. CASE UNCHANGED vars \/ Outside \/ Deliver \/ TimerFires \/ Resync
    BY <1>1 DEF vars, Outside, PrometheusStarts, PrometheusStops, SetAvailable, WriteStatus, PrometheusFails,
                PrometheusRecovers, Scrape, Deliver, DeliverLab, DeliverPart, DeliverMap,
                TimerFires, Resync
  <1>2. CASE Fault
    BY <1>2 DEF Fault, CallFails, Restart, PartCallFails, MapCallFails
  <1>3. CASE Monitoring
    BY <1>3 DEF Monitoring, ApplyPart, PartConflict, ReadAvailability, DeploymentNotCached,
                StackPending
  <1>4. CASE Analyze
    BY <1>4 DEF Analyze, MissingURL, Query, QueryFails, WriteMap, MapConflict, AnalysisCompleted
  <1>5. CASE Cleanup
    BY <1>5 DEF Cleanup, ReconcileDeleted, DeleteListedMap, CleanupDone
  <1>6. CASE ReconcileMissing \/ ReconcileNew \/ ReconcileLab \/ FinalizerConflict
             \/ PublishSame \/ PublishConflict
    BY <1>6 DEF ReconcileMissing, ReconcileNew, ReconcileLab, FinalizerConflict, PublishSame,
                PublishConflict
  <1> QED
    BY <1>1, <1>2, <1>3, <1>4, <1>5, <1>6 DEF Next, Reconcile

\* The cache of the lab stays as it is or catches up.
LEMMA CacheMoves == [Next]_vars => UNCHANGED labCache \/ (labCache' = lab /\ UNCHANGED lab)
  <1> SUFFICES ASSUME [Next]_vars, ~ UNCHANGED labCache PROVE labCache' = lab /\ UNCHANGED lab
    OBVIOUS
  <1> USE DEF worldVars, cacheVars
  <1>1. CASE DeliverLab \/ Restart
    BY <1>1 DEF DeliverLab, Restart, apiVars
  <1>2. CASE UNCHANGED vars \/ Outside \/ TimerFires \/ Resync
             \/ \E o \in Stack : DeliverPart(o) \/ PartCallFails(o)
    BY <1>2 DEF vars, Outside, CreateLab, EditSpec, DeleteLab, PrometheusStarts, PrometheusStops,
                SetAvailable, WriteStatus, PrometheusFails, PrometheusRecovers, Scrape, TimerFires, Resync,
                DeliverPart, PartCallFails
  <1>3. CASE CallFails \/ \E m \in Maps : DeliverMap(m) \/ MapCallFails(m)
    BY <1>3 DEF CallFails, DeliverMap, MapCallFails
  <1>4. CASE Monitoring
    BY <1>4 DEF Monitoring, ApplyPart, PartConflict, ReadAvailability, DeploymentNotCached,
                StackPending
  <1>5. CASE Analyze
    BY <1>5 DEF Analyze, MissingURL, Query, QueryFails, WriteMap, MapConflict, AnalysisCompleted
  <1>6. CASE Cleanup
    BY <1>6 DEF Cleanup, ReconcileDeleted, DeleteListedMap, CleanupDone, RemoveFinalizer
  <1>7. CASE ReconcileMissing \/ ReconcileNew \/ ReconcileLab \/ FinalizerConflict
             \/ PublishSame \/ PublishConflict \/ AddFinalizer \/ Publish
    BY <1>7 DEF ReconcileMissing, ReconcileNew, ReconcileLab, FinalizerConflict, PublishSame,
                PublishConflict, AddFinalizer, Publish
  <1> QED
    BY <1>1, <1>2, <1>3, <1>4, <1>5, <1>6, <1>7 DEF Next, Reconcile, Fault, Deliver

\* The worker and Prometheus, in the terms of the invariant: the worker stands still,
\* returns, reads the lab, goes on within a stage, asks Prometheus, writes a report,
\* or goes to publish an outcome.
Rests    == UNCHANGED workerVars
Reads    == /\ pc = "idle" /\ labCache # NoLab /\ copy' = labCache
            /\ UNCHANGED <<lab, labCache, data, answer, next>>
            /\ \/ pc' \in {"prometheus", "grafana"} /\ labCache.finalizer /\ ~labCache.deleting
               \/ pc' = "deleteMaps" /\ labCache.deleting
               \/ pc' = "addFinalizer"
GoesOn   == /\ UNCHANGED <<copy, answer, next, data>>
            /\ \/ {pc, pc'} \subseteq {"prometheus", "grafana"}
               \/ {pc, pc'} \subseteq {"deleteMaps", "removeFinalizer"}
GivesUp  == /\ pc \in {"prometheus", "grafana", "write"} /\ pc' = "publish"
            /\ UNCHANGED <<lab, copy, answer, data>>
            /\ FailApply \/ FailQuery \/ StackPending \/ MissingURL
Wrote(m) == WriteMap(m) /\ Skip(m)
Kinds ==
    \/ Rests \/ Return \/ Reads \/ GoesOn \/ GivesUp \/ Query
    \/ (\E m \in Maps : Wrote(m)) \/ AnalysisCompleted

\* The steps of the worker are of these kinds.
LEMMA WorkerMoves == [Next]_vars => Kinds
  <1> SUFFICES ASSUME [Next]_vars PROVE Kinds
    OBVIOUS
  <1> USE DEF Kinds
  <1>1. CASE UNCHANGED vars \/ Outside \/ Deliver \/ TimerFires \/ Resync \/ ReconcileMissing
    BY <1>1 DEF vars, Rests, workerVars, localVars, Outside, CreateLab, EditSpec, DeleteLab,
                PrometheusStarts, PrometheusStops, SetAvailable, WriteStatus, PrometheusFails,
                PrometheusRecovers, Scrape, Deliver, DeliverLab, DeliverPart, DeliverMap,
                TimerFires, Resync, ReconcileMissing
  <1>2. CASE \/ RemoveFinalizer \/ AddFinalizer \/ FinalizerConflict \/ PublishSame \/ Publish
             \/ PublishConflict \/ CallFails \/ Restart
    BY <1>2 DEF RemoveFinalizer, AddFinalizer, FinalizerConflict, PublishSame, Publish,
                PublishConflict, CallFails, Restart, Answered, AnswerLost, ReturnError
  <1>3. CASE ReconcileNew \/ ReconcileLab \/ ReconcileDeleted
    BY <1>3 DEF ReconcileNew, ReconcileLab, ReconcileDeleted, Begin, At, Reads, apiVars,
                cacheVars, metrics
  <1>4. CASE \/ CleanupDone \/ ReadAvailability
             \/ (\E m \in Maps : DeleteListedMap(m)) \/ (\E o \in Stack : ApplyPart(o))
    <2>1. CASE CleanupDone \/ ReadAvailability
      BY <2>1 DEF CleanupDone, ReadAvailability, At, GoesOn, worldVars, localVars, metrics
    <2>2. ASSUME NEW m \in Maps, DeleteListedMap(m) PROVE Kinds
      <3>1. Skip(m) \/ Return
        BY <2>2 DEF DeleteListedMap, Answered, AnswerLost, ReturnError
      <3> QED
        BY <2>2, <3>1 DEF DeleteListedMap, Skip, At, GoesOn, metrics
    <2>3. ASSUME NEW o \in Stack, ApplyPart(o) PROVE Kinds
      <3>1. Skip(o) \/ FailApply
        BY <2>3 DEF ApplyPart, Answered, AnswerLost
      <3>2. CASE Skip(o)
        BY <2>3, <3>2 DEF ApplyPart, Applying, Skip, At, GoesOn, metrics
      <3>3. CASE FailApply
        BY <2>3, <3>3 DEF ApplyPart, Applying, FailApply, Finish, At, GivesUp, metrics
      <3> QED
        BY <3>1, <3>2, <3>3
    <2> QED
      BY <1>4, <2>1, <2>2, <2>3
  <1>6. ASSUME NEW m \in Maps, WriteMap(m) PROVE Kinds
    <2>1. CASE Answered(Skip(m))
      BY <1>6, <2>1 DEF Answered, Wrote
    <2>2. CASE AnswerLost(FailQuery)
      BY <1>6, <2>2 DEF AnswerLost, WriteMap, FailQuery, Finish, At, GivesUp, metrics
    <2> QED
      BY <1>6, <2>1, <2>2 DEF WriteMap
  <1>5. CASE \/ DeploymentNotCached \/ QueryFails \/ StackPending \/ MissingURL
             \/ (\E o \in Stack : PartConflict(o) \/ PartCallFails(o))
             \/ (\E m \in Maps : MapConflict(m) \/ MapCallFails(m))
    BY <1>5 DEF DeploymentNotCached, QueryFails, StackPending, MissingURL, StackReady, Applied,
                PartConflict, PartCallFails, MapConflict, MapCallFails, Applying, At, FailApply,
                FailQuery, Finish, GivesUp, worldVars, apiVars, metrics
  <1> QED
    BY <1>1, <1>2, <1>3, <1>4, <1>5, <1>6
    DEF Next, Reconcile, Cleanup, Monitoring, Analyze, Fault
-----------------------------------------------------------------------------
(* The inductive invariant                                                   *)

\* What the worker reads it keeps until it returns.
LEMMA WorkerHasLabStep == WorkerHasLab /\ [Next]_vars => WorkerHasLab'
  <1> SUFFICES ASSUME WorkerHasLab, Kinds PROVE WorkerHasLab'
    BY WorkerMoves
  <1>1. CASE Rests \/ GoesOn \/ Reads \/ Return
    BY <1>1 DEF Rests, GoesOn, Reads, Return, WorkerHasLab, workerVars, localVars
  <1>2. CASE GivesUp
    BY <1>2 DEF GivesUp, WorkerHasLab
  <1>3. CASE Query \/ AnalysisCompleted \/ \E m \in Maps : Wrote(m)
    BY <1>3 DEF Query, StackReady, Applied, At, AnalysisCompleted, Finish, Wrote, WriteMap, Skip,
                WorkerHasLab
  <1> QED
    BY <1>1, <1>2, <1>3 DEF Kinds

\* Every outcome is of the generation that was read, and only a completed analysis
\* is a success.
LEMMA WorkerStatusStep == TypeOK /\ WorkerHasLab /\ WorkerStatus /\ [Next]_vars => WorkerStatus'
  <1> SUFFICES ASSUME TypeOK, WorkerHasLab, WorkerStatus, Kinds PROVE WorkerStatus'
    BY WorkerMoves
  <1>1. CASE Rests
    BY <1>1 DEF Rests, WorkerStatus, workerVars, localVars
  <1>2. CASE GoesOn \/ Reads \/ Return \/ Query \/ \E m \in Maps : Wrote(m)
    BY <1>2 DEF GoesOn, Reads, Return, Query, Wrote, WriteMap, Skip, At, WorkerStatus
  <1>3. CASE GivesUp
    <2>1. copy # NoLab /\ UNCHANGED copy
      BY <1>3 DEF GivesUp, WorkerHasLab
    <2>2. /\ next'.gen = copy.gen /\ next'.phase \in {"Running", "Failed"}
          /\ next'.summary = copy.status.summary
      BY <1>3, <2>1, Failing, Stopping DEF GivesUp
    <2> QED
      BY <2>1, <2>2 DEF WorkerStatus
  <1>4. CASE AnalysisCompleted
    <2>1. copy # NoLab /\ UNCHANGED copy
      BY <1>4 DEF AnalysisCompleted, At, Finish, WorkerHasLab
    <2>2. next'.gen = copy.gen /\ next'.phase = "Succeeded" /\ next'.summary.gen = copy.gen
      BY <1>4, <2>1, Completing
    <2> QED
      BY <2>1, <2>2 DEF WorkerStatus
  <1> QED
    BY <1>1, <1>2, <1>3, <1>4 DEF Kinds

\* What the steps that write the lab make of it.
LEMMA LabOutcomes ==
    TypeOK /\ WorkerHasLab /\ [Next]_vars =>
      \/ UNCHANGED lab
      \/ lab # NoLab /\ lab' = NoLab /\ UNCHANGED <<maps, data>>
           /\ (lab.deleting \/ ~lab.finalizer)
      \/ CreateLab
      \/ /\ lab # NoLab /\ lab' # NoLab /\ lab'.inc = lab.inc /\ lab'.gen >= lab.gen
         /\ (lab.deleting => lab'.deleting) /\ (lab.finalizer => lab'.finalizer)
         /\ lab'.status = lab.status /\ UNCHANGED <<maps, data>>
         /\ Return \/ UNCHANGED workerVars
      \/ Publish /\ lab # NoLab /\ lab' # NoLab /\ lab' = [lab EXCEPT !.status = next]
           /\ lab'.status = next /\ lab'.inc = lab.inc /\ lab'.gen = lab.gen
           /\ lab'.deleting = lab.deleting /\ lab'.finalizer = lab.finalizer
  <1> SUFFICES ASSUME TypeOK, WorkerHasLab, [Next]_vars,
                      ~ UNCHANGED lab, ~ CreateLab
               PROVE  \/ lab # NoLab /\ lab' = NoLab /\ UNCHANGED <<maps, data>>
                           /\ (lab.deleting \/ ~lab.finalizer)
                      \/ /\ lab # NoLab /\ lab' # NoLab /\ lab'.inc = lab.inc
                         /\ lab'.gen >= lab.gen
                         /\ (lab.deleting => lab'.deleting)
                         /\ (lab.finalizer => lab'.finalizer)
                         /\ lab'.status = lab.status /\ UNCHANGED <<maps, data>>
                         /\ Return \/ UNCHANGED workerVars
                      \/ Publish /\ lab # NoLab /\ lab' # NoLab
                           /\ lab' = [lab EXCEPT !.status = next]
                           /\ lab'.status = next /\ lab'.inc = lab.inc /\ lab'.gen = lab.gen
                           /\ lab'.deleting = lab.deleting /\ lab'.finalizer = lab.finalizer
    OBVIOUS
  <1>1. lab' \in Lab \cup {NoLab}
    BY TypeStep DEF TypeOK
  <1>2. CASE AddFinalizer
    <2>1. lab \in Lab /\ lab # NoLab /\ lab' = [lab EXCEPT !.finalizer = TRUE] /\ lab' \in Lab
      BY <1>2 DEF AddFinalizer, At, WorkerHasLab, TypeOK, Lab
    <2>2. UNCHANGED <<maps, data>> /\ Return
      BY <1>2 DEF AddFinalizer, Answered, AnswerLost, ReturnError, metrics
    <2>3. UNCHANGED <<lab.inc, lab.gen, lab.deleting, lab.status>> /\ lab'.finalizer
      BY <2>1 DEF Lab
    <2>4. lab'.gen >= lab.gen
      <3>1. lab.gen \in Nat
        BY <2>1, BoundAssumption DEF Lab
      <3> QED
        BY <2>3, <3>1
    <2>5. lab' # NoLab
      BY <2>1, AbsenceAssumption
    <2> QED
      BY <2>1, <2>2, <2>3, <2>4, <2>5, Zenon
  <1>3. CASE RemoveFinalizer
    BY <1>3 DEF RemoveFinalizer, At, WorkerHasLab, metrics
  <1>4. CASE EditSpec
    <2>1. lab \in Lab /\ lab # NoLab /\ lab' = [lab EXCEPT !.gen = @ + 1]
      BY <1>4 DEF EditSpec, TypeOK
    <2>2. lab' \in Lab
      BY <1>4, <2>1, BoundAssumption DEF EditSpec, Lab
    <2>3. UNCHANGED <<lab.inc, lab.deleting, lab.finalizer, lab.status>> /\ lab'.gen >= lab.gen
      BY <2>1, BoundAssumption DEF Lab
    <2>4. UNCHANGED <<maps, data>> /\ UNCHANGED workerVars
      BY <1>4 DEF EditSpec, metrics
    <2> QED
      BY <2>1, <2>2, <2>3, <2>4, AbsenceAssumption
  <1>5. CASE DeleteLab
    <2>1. lab \in Lab /\ lab # NoLab /\ UNCHANGED <<maps, data>> /\ UNCHANGED workerVars
      BY <1>5 DEF DeleteLab, TypeOK, metrics
    <2>2. CASE lab.finalizer
      <3>1. lab' = [lab EXCEPT !.deleting = TRUE]
        BY <1>5, <2>2 DEF DeleteLab
      <3>2. lab' \in Lab
        BY <2>1, <3>1 DEF Lab
      <3>3. UNCHANGED <<lab.inc, lab.gen, lab.finalizer, lab.status>> /\ lab'.deleting
        BY <2>1, <3>1 DEF Lab
      <3>4. lab'.gen >= lab.gen
        <4>1. lab.gen \in Nat
          BY <2>1, BoundAssumption DEF Lab
        <4> QED
          BY <3>3, <4>1
      <3>5. lab' # NoLab
        BY <3>2, AbsenceAssumption
      <3> QED
        BY <2>1, <3>3, <3>4, <3>5, Zenon
    <2>3. CASE ~lab.finalizer
      BY <1>5, <2>1, <2>3 DEF DeleteLab
    <2> QED
      BY <2>2, <2>3
  <1>6. CASE Publish
    <2>1. lab \in Lab /\ lab # NoLab /\ lab' = [lab EXCEPT !.status = next] /\ next \in Status
      BY <1>6 DEF Publish, At, WorkerHasLab, TypeOK
    <2>2. lab' \in Lab
      BY <2>1 DEF Lab
    <2>3. lab'.status = next /\ UNCHANGED <<lab.inc, lab.gen, lab.deleting, lab.finalizer>>
      BY <2>1 DEF Lab
    <2> QED
      BY <1>6, <2>1, <2>2, <2>3, AbsenceAssumption
  <1> QED
    BY <1>2, <1>3, <1>4, <1>5, <1>6, LabMoves
\* A status is published only on a lab that has its finalizer, and nothing but the
\* last update of its cleanup takes that away.
LEMMA FinalizerFirstStep ==
    TypeOK /\ WorkerHasLab /\ FinalizerFirst /\ [Next]_vars => FinalizerFirst'
  <1> SUFFICES ASSUME TypeOK, WorkerHasLab, FinalizerFirst, [Next]_vars,
                      lab' # NoLab, ~lab'.finalizer
               PROVE  lab'.status.gen = 0
    BY DEF FinalizerFirst
  <1>1. CASE Publish
    <2>1. lab.finalizer /\ lab' = [lab EXCEPT !.status = next] /\ lab \in Lab
      BY <1>1 DEF Publish, At, WorkerHasLab, TypeOK
    <2> QED
      BY <2>1 DEF Lab
  <1>2. CASE CreateLab
    BY <1>2 DEF CreateLab, NoStatus
  <1>3. CASE UNCHANGED lab
    BY <1>3 DEF FinalizerFirst
  <1> QED
    BY <1>1, <1>2, <1>3, LabOutcomes DEF FinalizerFirst

\* Creating a lab is what counts incarnations.
LEMMA IncarnationMoves == [Next]_vars => UNCHANGED incarnation \/ CreateLab
  <1> SUFFICES ASSUME [Next]_vars, ~ CreateLab PROVE UNCHANGED incarnation
    OBVIOUS
  <1> USE DEF worldVars, counters
  <1>1. CASE UNCHANGED vars \/ Outside \/ Deliver \/ TimerFires \/ Resync
    BY <1>1 DEF vars, Outside, EditSpec, DeleteLab, PrometheusStarts, PrometheusStops, SetAvailable, WriteStatus,
                PrometheusFails, PrometheusRecovers, Scrape, Deliver, DeliverLab, DeliverPart,
                DeliverMap, TimerFires, Resync
  <1>2. CASE Fault
    BY <1>2 DEF Fault, CallFails, Restart, PartCallFails, MapCallFails
  <1>3. CASE Monitoring
    BY <1>3 DEF Monitoring, ApplyPart, PartConflict, ReadAvailability, DeploymentNotCached,
                StackPending
  <1>4. CASE Analyze
    BY <1>4 DEF Analyze, MissingURL, Query, QueryFails, WriteMap, MapConflict, AnalysisCompleted
  <1>5. CASE Cleanup
    BY <1>5 DEF Cleanup, ReconcileDeleted, DeleteListedMap, CleanupDone, RemoveFinalizer
  <1>6. CASE ReconcileMissing \/ ReconcileNew \/ ReconcileLab \/ FinalizerConflict
             \/ AddFinalizer \/ PublishSame \/ Publish \/ PublishConflict
    BY <1>6 DEF ReconcileMissing, ReconcileNew, ReconcileLab, FinalizerConflict, AddFinalizer,
                PublishSame, Publish, PublishConflict
  <1> QED
    BY <1>1, <1>2, <1>3, <1>4, <1>5, <1>6 DEF Next, Reconcile

\* No lab is seen in a version that is still to come.
LEMMA VersionsInOrderStep ==
    TypeOK /\ WorkerHasLab /\ VersionsInOrder /\ [Next]_vars => VersionsInOrder'
  <1> SUFFICES ASSUME TypeOK, WorkerHasLab, VersionsInOrder, [Next]_vars
               PROVE  VersionsInOrder'
    OBVIOUS
  <1>1. /\ \A x \in {lab, lab', labCache, copy} : x # NoLab => x.inc \in Nat /\ x.gen \in Nat
        /\ incarnation \in Nat
    BY TypeStep, BoundAssumption DEF TypeOK, Lab
  <1>2. UNCHANGED labCache \/ (labCache' = lab /\ UNCHANGED lab)
    BY CacheMoves
  <1>3. copy' \in {copy, NoLab} \/ (copy' = labCache /\ UNCHANGED <<lab, labCache>>)
    BY WorkerMoves DEF Kinds, Rests, Return, Reads, GoesOn, GivesUp, Query, Wrote, Skip,
                       AnalysisCompleted, Finish, workerVars, localVars
  <1>4. CASE CreateLab
    <2>1. /\ lab = NoLab /\ lab'.inc = incarnation + 1 /\ incarnation' = incarnation + 1
          /\ UNCHANGED <<labCache, copy>>
      BY <1>4 DEF CreateLab, cacheVars, workerVars, localVars
    <2>2. \A x \in {labCache, copy} : x # NoLab => x.inc < lab'.inc
      BY <1>1, <2>1 DEF VersionsInOrder
    <2> QED
      BY <1>1, <2>1, <2>2 DEF VersionsInOrder, Sighting
  <1>5. CASE UNCHANGED incarnation /\ ~ CreateLab
    <2>1. \/ UNCHANGED lab
          \/ lab' = NoLab
          \/ /\ lab # NoLab /\ lab' # NoLab /\ lab'.inc = lab.inc /\ lab'.gen >= lab.gen
             /\ (lab.deleting => lab'.deleting)
      <3>1. CASE /\ lab # NoLab /\ lab' # NoLab /\ lab'.inc = lab.inc /\ lab'.gen = lab.gen
                 /\ lab'.deleting = lab.deleting
        <4>1. lab'.gen >= lab.gen
          BY <1>1, <3>1
        <4> QED
          BY <3>1, <4>1, Zenon
      <3> QED
        BY <1>5, <3>1, LabOutcomes, Zenon
    <2>2. CASE lab' = NoLab
      BY <1>2, <1>3, <1>5, <2>2 DEF VersionsInOrder, Sighting
    <2>3. CASE UNCHANGED lab
      BY <1>1, <1>2, <1>3, <1>5, <2>3 DEF VersionsInOrder, Sighting
    <2>4. CASE /\ lab # NoLab /\ lab' # NoLab /\ lab'.inc = lab.inc /\ lab'.gen >= lab.gen
               /\ (lab.deleting => lab'.deleting)
      <3>1. UNCHANGED labCache \/ UNCHANGED lab
        BY <1>2
      <3> QED
        BY <1>1, <1>2, <1>3, <1>5, <2>3, <2>4, <3>1 DEF VersionsInOrder, Sighting
    <2> QED
      BY <2>1, <2>2, <2>3, <2>4
  <1> QED
    BY <1>4, <1>5, IncarnationMoves
\* A status comes from a version that was in the cache, and the cache and whoever
\* reads it go on from there.
LEMMA StatusWasReadStep ==
    TypeOK /\ WorkerHasLab /\ WorkerStatus /\ VersionsInOrder /\ StatusWasRead /\ [Next]_vars
      => StatusWasRead'
  <1> SUFFICES ASSUME TypeOK, WorkerHasLab, WorkerStatus, VersionsInOrder, StatusWasRead,
                      [Next]_vars, lab' # NoLab, lab'.status.phase # "unset"
               PROVE  /\ Sighting(labCache)' /\ lab'.status.gen <= labCache'.gen
                      /\ copy' # NoLab => Sighting(copy)' /\ lab'.status.gen <= copy'.gen
    BY DEF StatusWasRead
  <1>1. /\ \A x \in {lab, lab', labCache, copy} : x # NoLab => x.inc \in Nat /\ x.gen \in Nat
        /\ VersionsInOrder'
    BY TypeStep, VersionsInOrderStep, BoundAssumption DEF TypeOK, Lab
  <1>2. UNCHANGED labCache \/ (labCache' = lab /\ UNCHANGED lab)
    BY CacheMoves
  <1>3. copy' \in {copy, NoLab} \/ (copy' = labCache /\ UNCHANGED <<lab, labCache>>)
    BY WorkerMoves DEF Kinds, Rests, Return, Reads, GoesOn, GivesUp, Query, Wrote, Skip,
                       AnalysisCompleted, Finish, workerVars, localVars
  <1>4. CASE lab # NoLab /\ lab'.status = lab.status /\ lab'.inc = lab.inc
    <2>1. Sighting(labCache) /\ lab.status.gen <= labCache.gen /\ labCache.gen <= lab.gen
      BY <1>4 DEF StatusWasRead, VersionsInOrder
    <2>2. copy # NoLab => Sighting(copy) /\ lab.status.gen <= copy.gen
      BY <1>4 DEF StatusWasRead
    <2>3. lab.status.gen \in Nat
      BY <1>4 DEF TypeOK, Lab, Status
    <2>4. Sighting(labCache)' /\ lab'.status.gen <= labCache'.gen
      BY <1>1, <1>2, <1>4, <2>1, <2>3 DEF Sighting
    <2>5. copy' # NoLab => Sighting(copy)' /\ lab'.status.gen <= copy'.gen
      BY <1>1, <1>3, <1>4, <2>1, <2>2, <2>3 DEF Sighting
    <2> QED
      BY <2>4, <2>5
  <1>5. CASE Publish /\ lab # NoLab /\ lab'.status = next /\ lab'.inc = lab.inc
    <2>1. copy' = NoLab /\ lab = copy /\ next.gen = copy.gen /\ UNCHANGED labCache
      BY <1>5 DEF Publish, Answered, AnswerLost, ReturnError, Return, At, WorkerStatus, cacheVars
    <2>2. Sighting(labCache) /\ copy.gen <= labCache.gen
      BY <1>5, <2>1 DEF VersionsInOrder, Sighting
    <2> QED
      BY <1>5, <2>1, <2>2 DEF Sighting
  <1>6. CASE CreateLab
    BY <1>6 DEF CreateLab, NoStatus
  <1> QED
    BY <1>4, <1>5, <1>6, LabOutcomes

\* Prometheus only gains data.
LEMMA DataMoves == [Next]_vars => UNCHANGED data \/ data' = data + 1
  <1> SUFFICES ASSUME [Next]_vars, ~ Scrape PROVE UNCHANGED data
    BY DEF Scrape
  <1> USE DEF worldVars, metrics
  <1>1. CASE UNCHANGED vars \/ Outside \/ Deliver \/ TimerFires \/ Resync
    BY <1>1 DEF vars, Outside, CreateLab, EditSpec, DeleteLab, PrometheusStarts, PrometheusStops,
                SetAvailable, WriteStatus, PrometheusFails, PrometheusRecovers, Deliver, DeliverLab, DeliverPart,
                DeliverMap, TimerFires, Resync
  <1>2. CASE Fault
    BY <1>2 DEF Fault, CallFails, Restart, PartCallFails, MapCallFails
  <1>3. CASE Monitoring
    BY <1>3 DEF Monitoring, ApplyPart, PartConflict, ReadAvailability, DeploymentNotCached,
                StackPending
  <1>4. CASE Analyze
    BY <1>4 DEF Analyze, MissingURL, Query, QueryFails, WriteMap, MapConflict, AnalysisCompleted
  <1>5. CASE Cleanup
    BY <1>5 DEF Cleanup, ReconcileDeleted, DeleteListedMap, CleanupDone, RemoveFinalizer
  <1>6. CASE ReconcileMissing \/ ReconcileNew \/ ReconcileLab \/ FinalizerConflict
             \/ AddFinalizer \/ PublishSame \/ Publish \/ PublishConflict
    BY <1>6 DEF ReconcileMissing, ReconcileNew, ReconcileLab, FinalizerConflict, AddFinalizer,
                PublishSame, Publish, PublishConflict
  <1> QED
    BY <1>1, <1>2, <1>3, <1>4, <1>5, <1>6 DEF Next, Reconcile

\* A summary is as new as the query behind it, which asked after the summary in the
\* status was published.
LEMMA SummaryInPastStep ==
    TypeOK /\ WorkerHasLab /\ WorkerStatus /\ SummaryInPast /\ [Next]_vars => SummaryInPast'
  <1> SUFFICES ASSUME TypeOK, WorkerHasLab, WorkerStatus, SummaryInPast, [Next]_vars
               PROVE  SummaryInPast'
    OBVIOUS
  <1>1. /\ \A x \in {lab, labCache, copy} : x # NoLab => x.status.summary.data \in Nat
        /\ data \in Nat /\ answer \in Nat /\ next.summary.data \in Nat
    BY DEF TypeOK, Lab, Status, Analysis
  <1>2. data' \in Nat /\ data' >= data
    BY <1>1, DataMoves
  <1>3. UNCHANGED labCache \/ (labCache' = lab /\ UNCHANGED lab)
    BY CacheMoves
  <1>4. \/ lab' = NoLab
        \/ lab' # NoLab /\ lab'.status.summary.data = 0
        \/ lab # NoLab /\ lab'.status = lab.status
        \/ pc = "publish" /\ pc' = "idle" /\ lab' # NoLab /\ lab'.status = next
    BY LabOutcomes DEF CreateLab, NoStatus, NoAnalysis, Publish, Answered, AnswerLost,
                       ReturnError, At, Return
  <1>5. \A x \in {lab, labCache}' : x # NoLab => x.status.summary.data <= data'
    <2>1. lab' # NoLab => lab'.status.summary.data <= data'
      BY <1>1, <1>2, <1>4 DEF SummaryInPast
    <2>2. labCache' # NoLab => labCache'.status.summary.data <= data'
      BY <1>1, <1>2, <1>3, <2>1 DEF SummaryInPast
    <2> QED
      BY <2>1, <2>2
  <1> DEFINE Rest ==
        /\ answer' <= data'
        /\ copy' # NoLab => copy'.status.summary.data <= data'
        /\ (pc' = "write" /\ lab' # NoLab) => lab'.status.summary.data <= answer'
        /\ pc' = "publish" => next'.summary.data <= data'
  <1>6. Rest
    <2>1. CASE UNCHANGED <<pc, copy, answer, next>>
      BY <1>1, <1>2, <1>4, <2>1 DEF SummaryInPast
    <2>2. CASE Return
      BY <1>1, <1>2, <2>2 DEF Return
    <2>3. CASE Reads \/ GoesOn
      BY <1>1, <1>2, <2>3 DEF Reads, GoesOn, SummaryInPast
    <2>4. CASE GivesUp
      <3>1. copy # NoLab /\ UNCHANGED <<copy, answer>> /\ pc' = "publish"
        BY <2>4 DEF GivesUp, WorkerHasLab
      <3>2. next'.summary = copy.status.summary
        BY <2>4, <3>1, Failing, Stopping DEF GivesUp
      <3> QED
        BY <1>1, <1>2, <3>1, <3>2 DEF SummaryInPast
    <2>5. CASE Query
      <3>1. answer' = data /\ pc' = "write" /\ UNCHANGED <<copy, lab, data>>
        BY <2>5 DEF Query, worldVars, apiVars, metrics
      <3> QED
        BY <1>1, <3>1 DEF SummaryInPast
    <2>6. CASE \E m \in Maps : Wrote(m)
      BY <2>1, <2>6 DEF Wrote, Skip
    <2>7. CASE AnalysisCompleted
      <3>1. copy # NoLab /\ UNCHANGED <<copy, answer>> /\ pc' = "publish"
        BY <2>7 DEF AnalysisCompleted, At, Finish, WorkerHasLab
      <3>2. next'.summary.data = answer
        BY <2>7, <3>1, Completing
      <3> QED
        BY <1>1, <1>2, <3>1, <3>2 DEF SummaryInPast
    <2> QED
      BY <2>1, <2>2, <2>3, <2>4, <2>5, <2>6, <2>7, WorkerMoves
      DEF Kinds, Rests, workerVars, localVars
  <1> QED
    BY <1>5, <1>6 DEF SummaryInPast
\* Report ConfigMaps are written by an analysis and deleted by a cleanup.
LEMMA MapMoves ==
    [Next]_vars => UNCHANGED maps \/ \E m \in Maps : WriteMap(m) \/ DeleteListedMap(m)
  <1> SUFFICES ASSUME [Next]_vars, ~ \E m \in Maps : WriteMap(m) \/ DeleteListedMap(m)
               PROVE  UNCHANGED maps
    OBVIOUS
  <1> USE DEF worldVars, apiVars
  <1>1. CASE UNCHANGED vars \/ Outside \/ Deliver \/ TimerFires \/ Resync
    BY <1>1 DEF vars, Outside, CreateLab, EditSpec, DeleteLab, PrometheusStarts, PrometheusStops,
                SetAvailable, WriteStatus, PrometheusFails, PrometheusRecovers, Scrape, Deliver, DeliverLab,
                DeliverPart, DeliverMap, TimerFires, Resync
  <1>2. CASE Fault
    BY <1>2 DEF Fault, CallFails, Restart, PartCallFails, MapCallFails
  <1>3. CASE Monitoring
    BY <1>3 DEF Monitoring, ApplyPart, PartConflict, ReadAvailability, DeploymentNotCached,
                StackPending
  <1>4. CASE Analyze
    BY <1>4 DEF Analyze, MissingURL, Query, QueryFails, MapConflict, AnalysisCompleted
  <1>5. CASE Cleanup
    BY <1>5 DEF Cleanup, ReconcileDeleted, CleanupDone, RemoveFinalizer
  <1>6. CASE ReconcileMissing \/ ReconcileNew \/ ReconcileLab \/ FinalizerConflict
             \/ AddFinalizer \/ PublishSame \/ Publish \/ PublishConflict
    BY <1>6 DEF ReconcileMissing, ReconcileNew, ReconcileLab, FinalizerConflict, AddFinalizer,
                PublishSame, Publish, PublishConflict
  <1> QED
    BY <1>1, <1>2, <1>3, <1>4, <1>5, <1>6 DEF Next, Reconcile

\* Nobody touches the reports of the analysis under way.
LEMMA ReportsWrittenStep ==
    TypeOK /\ WorkerHasLab /\ ReportsWritten /\ [Next]_vars => ReportsWritten'
  <1> SUFFICES ASSUME TypeOK, WorkerHasLab, ReportsWritten, [Next]_vars PROVE ReportsWritten'
    OBVIOUS
  <1>1. CASE \E m \in Maps : DeleteListedMap(m)
    BY <1>1 DEF DeleteListedMap, Answered, AnswerLost, ReturnError, Return, Skip, At,
                ReportsWritten
  <1>4. ASSUME NEW m \in Maps, WriteMap(m), ~ Wrote(m) PROVE ReportsWritten'
    <2>1. FailQuery /\ copy # NoLab
      BY <1>4 DEF WriteMap, Answered, AnswerLost, Wrote, At, WorkerHasLab
    <2>2. pc' = "publish" /\ next'.phase = "Failed"
      BY <2>1, Failing DEF FailQuery, Finish
    <2> QED
      BY <2>2 DEF ReportsWritten
  <1>2. ASSUME NEW m \in Maps, Wrote(m) PROVE ReportsWritten'
    <2>1. /\ maps' = [maps EXCEPT ![m] = [inc |-> copy.inc, gen |-> copy.gen, data |-> answer]]
          /\ left' = left \ {m} /\ UNCHANGED <<pc, copy, answer, next>> /\ pc = "write"
      BY <1>2 DEF Wrote, Skip, WriteMap, At
    <2>2. maps \in [Maps -> Content] /\ ReportMaps(copy.gen) \subseteq Maps
      BY ReportMapsType DEF TypeOK
    <2> QED
      BY <2>1, <2>2 DEF ReportsWritten
  <1>3. CASE UNCHANGED maps
    <2>1. CASE Rests
      BY <1>3, <2>1 DEF Rests, workerVars, localVars, ReportsWritten
    <2>2. CASE Return \/ Reads \/ GoesOn
      BY <2>2 DEF Return, Reads, GoesOn, ReportsWritten
    <2>3. CASE GivesUp
      <3>1. copy # NoLab /\ pc' = "publish"
        BY <2>3 DEF GivesUp, WorkerHasLab
      <3>2. next'.phase \in {"Running", "Failed"}
        BY <2>3, <3>1, Failing, Stopping DEF GivesUp
      <3> QED
        BY <3>1, <3>2 DEF ReportsWritten
    <2>4. CASE Query
      BY <2>4 DEF Query, ReportsWritten
    <2>5. CASE AnalysisCompleted
      <3>1. copy # NoLab /\ UNCHANGED copy /\ pc = "write" /\ pc' = "publish" /\ left = {}
        BY <2>5 DEF AnalysisCompleted, At, Finish, WorkerHasLab
      <3>2. next'.summary.data = answer
        BY <2>5, <3>1, Completing
      <3> QED
        BY <1>3, <3>1, <3>2 DEF ReportsWritten
    <2> QED
      BY <1>2, <2>1, <2>2, <2>3, <2>4, <2>5, WorkerMoves DEF Kinds
  <1> QED
    BY <1>1, <1>2, <1>3, <1>4, MapMoves

\* The reports behind a success are those of its analysis, until a later analysis of
\* the same lab overwrites them or the cleanup of that lab deletes them.
LEMMA ReportsBehindStatusStep ==
    IInv /\ [Next]_vars => ReportsBehindStatus'
  <1> SUFFICES ASSUME IInv, [Next]_vars, lab' # NoLab, ~lab'.deleting,
                      lab'.status.phase = "Succeeded",
                      NEW m \in ReportMaps(lab'.status.gen)
               PROVE  /\ maps'[m].inc = lab'.inc /\ maps'[m].gen >= lab'.status.gen
                      /\ maps'[m].data >= lab'.status.summary.data
    BY DEF ReportsBehindStatus
  <1> USE DEF IInv
  <1>1. m \in Maps /\ maps \in [Maps -> Content]
    BY ReportMapsType DEF TypeOK
  <1>2. CASE /\ lab # NoLab /\ lab'.status = lab.status /\ lab'.inc = lab.inc
             /\ ~lab.deleting /\ UNCHANGED maps
    BY <1>2 DEF ReportsBehindStatus
  <1>3. CASE UNCHANGED lab
    <2>1. /\ maps[m].inc = lab.inc /\ maps[m].gen >= lab.status.gen
          /\ maps[m].data >= lab.status.summary.data
      BY <1>3 DEF ReportsBehindStatus
    <2>2. copy # NoLab => Sighting(copy) /\ lab.status.gen <= copy.gen
      BY <1>3 DEF StatusWasRead
    <2>3. ASSUME NEW w \in Maps, WriteMap(w)
          PROVE  /\ maps'[m].inc = lab.inc /\ maps'[m].gen >= lab.status.gen
                 /\ maps'[m].data >= lab.status.summary.data
      <3>1. /\ maps' = [maps EXCEPT ![w] = [inc |-> copy.inc, gen |-> copy.gen, data |-> answer]]
            /\ pc = "write" /\ copy # NoLab
        BY <2>3 DEF WriteMap, At, WorkerHasLab
      <3>2. copy.inc = lab.inc /\ lab.status.gen <= copy.gen
        BY <2>2, <3>1 DEF Sighting
      <3>3. lab.status.summary.data <= answer
        BY <1>3, <3>1 DEF SummaryInPast
      <3>4. /\ copy.gen \in Nat /\ answer \in Nat /\ lab.status.gen \in Nat
            /\ lab.status.summary.data \in Nat
        BY <1>3, <3>1, BoundAssumption DEF TypeOK, Lab, Status, Analysis
      <3> QED
        BY <1>1, <2>1, <3>1, <3>2, <3>3, <3>4
    <2>4. ASSUME NEW w \in Maps, DeleteListedMap(w) PROVE FALSE
      <3>1. copy # NoLab /\ copy.deleting
        BY <2>4 DEF DeleteListedMap, At, WorkerHasLab
      <3>2. lab.deleting
        BY <2>2, <3>1 DEF VersionsInOrder
      <3> QED
        BY <1>3, <3>2
    <2> QED
      BY <1>3, <2>1, <2>3, <2>4, MapMoves
  <1>4. CASE Publish /\ lab'.status = next /\ lab'.inc = lab.inc
    <2>1. lab = copy /\ pc = "publish" /\ UNCHANGED maps /\ next.gen = copy.gen
      BY <1>4 DEF Publish, At, WorkerStatus
    <2>2. maps[m] = [inc |-> copy.inc, gen |-> copy.gen, data |-> next.summary.data]
      BY <1>4, <2>1 DEF ReportsWritten
    <2>3. copy.gen \in Nat /\ next.summary.data \in Nat
      BY <2>1, BoundAssumption DEF TypeOK, WorkerHasLab, Lab, Status, Analysis
    <2> QED
      BY <1>4, <2>1, <2>2, <2>3
  <1>5. CASE CreateLab
    BY <1>5 DEF CreateLab, NoStatus
  <1> QED
    BY <1>2, <1>3, <1>4, <1>5, LabOutcomes

-----------------------------------------------------------------------------
(* The theorems                                                              *)

\* The invariant holds of an empty cluster.
LEMMA InvInit == Init => IInv
  <1> SUFFICES ASSUME Init PROVE IInv
    OBVIOUS
  <1> QED
    BY TypeInit
    DEF Init, IInv, WorkerHasLab, WorkerStatus, FinalizerFirst, VersionsInOrder, Sighting,
        StatusWasRead, SummaryInPast, ReportsWritten, ReportsBehindStatus

\* Every step keeps the invariant.
LEMMA InvStep == IInv /\ [Next]_vars => IInv'
  <1> SUFFICES ASSUME IInv, [Next]_vars PROVE IInv'
    OBVIOUS
  <1>1. ReportsBehindStatus'
    BY ReportsBehindStatusStep
  <1> QED
    BY <1>1, TypeStep, WorkerHasLabStep, WorkerStatusStep, FinalizerFirstStep,
       VersionsInOrderStep, StatusWasReadStep, SummaryInPastStep, ReportsWrittenStep
    DEF IInv

\* What the worker holds and what the caches show comes from the past of the lab, and
\* the reports in the ConfigMaps are those the statuses speak of.
THEOREM Invariance == Spec => []IInv
  <1> QED
    BY InvInit, InvStep, PTL DEF Spec

\* Every variable keeps its type, whatever the spec, the faults and the cluster.
THEOREM TypeCorrect == Spec => []TypeOK
  <1>1. IInv => TypeOK
    BY DEF IInv
  <1> QED
    BY <1>1, Invariance, PTL

\* However stale the caches and whatever fails: the reports a success names are there,
\* of this lab, and from its analysis or a newer one.
THEOREM ReportsSound == Spec => []ReportsBehindStatus
  <1>1. IInv => ReportsBehindStatus
    BY DEF IInv
  <1> QED
    BY <1>1, Invariance, PTL
-----------------------------------------------------------------------------
(* The refinement of LabPromise                                              *)

\* What the user sees of a lab is an object of LabPromise.
LEMMA ViewInObjects == TypeOK /\ lab # NoLab => View \in Promise!Objects
  <1> SUFFICES ASSUME TypeOK, lab # NoLab PROVE View \in Promise!Objects
    OBVIOUS
  <1>1. lab.gen \in Nat /\ lab.deleting \in BOOLEAN /\ lab.status \in Status
    BY BoundAssumption DEF TypeOK, Lab
  <1>2. Complete(lab.status) \in BOOLEAN
    BY DEF Complete
  <1> QED
    BY <1>1, <1>2 DEF View, Promise!Objects, Promise!Phases, Status

\* The reconciler implements LabPromise: at every step the user of a lab sees either
\* nothing or one step of the promise.
THEOREM PromiseKept == Spec => KeepsPromise
  <1>1. Init => Promise!Init
    BY DEF Init, Promise!Init, View
  <1>2. IInv /\ [Next]_vars => [Promise!Next]_View
    <2> SUFFICES ASSUME IInv, [Next]_vars PROVE Promise!Next \/ View' = View
      OBVIOUS
    <2>1. TypeOK /\ WorkerHasLab /\ WorkerStatus /\ FinalizerFirst
      BY DEF IInv
    <2>2. lab # NoLab => View # NoLab
      BY <2>1, ViewInObjects, ViewAssumption
    <2>3. CASE UNCHANGED lab
      BY <2>3 DEF View
    <2>4. CASE AddFinalizer
      <3>1. lab \in Lab /\ lab' = [lab EXCEPT !.finalizer = TRUE] /\ lab' \in Lab
        BY <2>1, <2>4 DEF AddFinalizer, At, WorkerHasLab, TypeOK, Lab
      <3>2. lab # NoLab /\ lab' # NoLab
        BY <3>1, AbsenceAssumption
      <3>3. UNCHANGED <<lab.gen, lab.deleting, lab.status>>
        BY <3>1 DEF Lab
      <3> QED
        BY <3>2, <3>3 DEF View
    <2>5. CASE RemoveFinalizer
      <3>1. lab # NoLab /\ lab.deleting /\ lab' = NoLab
        BY <2>1, <2>5 DEF RemoveFinalizer, At, WorkerHasLab
      <3>2. View.deleting /\ View' = NoLab
        BY <3>1 DEF View
      <3> QED
        BY <2>2, <3>1, <3>2 DEF Promise!Next, Promise!Remove
    <2>6. CASE CreateLab
      <3>1. lab' = [inc |-> incarnation + 1, gen |-> 1, deleting |-> FALSE,
                    finalizer |-> FALSE, status |-> NoStatus]
        BY <2>6 DEF CreateLab
      <3>2. lab' # NoLab
        <4>1. incarnation + 1 \in Nat /\ 1 \in 1..MaxGeneration
          BY <2>1, BoundAssumption DEF TypeOK
        <4>2. lab' \in Lab
          BY <3>1, <4>1, NoStatusType DEF Lab
        <4> QED
          BY <4>2, AbsenceAssumption
      <3>3. View = NoLab
        BY <2>6 DEF CreateLab, View
      <3>4. View' = [gen |-> 1, deleting |-> FALSE, seen |-> 0, phase |-> "unset",
                     complete |-> FALSE]
        <4>1. View' = [gen |-> 1, deleting |-> FALSE, seen |-> NoStatus.gen,
                       phase |-> NoStatus.phase, complete |-> Complete(NoStatus)]
          BY <3>1, <3>2 DEF View
        <4>2. Complete(NoStatus) = FALSE
          BY DEF Complete, NoStatus
        <4> QED
          BY <4>1, <4>2 DEF NoStatus
      <3> QED
        BY <3>3, <3>4 DEF Promise!Next, Promise!Create
    <2>7. CASE EditSpec
      <3>1. lab \in Lab /\ lab' = [lab EXCEPT !.gen = @ + 1]
        BY <2>1, <2>7 DEF EditSpec, TypeOK
      <3>2. lab' \in Lab
        BY <2>7, <3>1, BoundAssumption DEF EditSpec, Lab
      <3>3. View' = [View EXCEPT !.gen = @ + 1]
        BY <3>1, <3>2, AbsenceAssumption DEF View, Lab
      <3> QED
        BY <2>2, <3>1, <3>3, AbsenceAssumption DEF Promise!Next, Promise!Edit
    <2>8. CASE DeleteLab
      <3>1. lab \in Lab /\ ~lab.deleting /\ lab # NoLab
        BY <2>1, <2>8 DEF DeleteLab, TypeOK
      <3>2. CASE lab.finalizer
        <4>1. lab' = [lab EXCEPT !.deleting = TRUE] /\ lab' \in Lab
          BY <2>8, <3>1, <3>2 DEF DeleteLab, Lab
        <4>2. lab' # NoLab /\ UNCHANGED <<lab.gen, lab.status>> /\ lab'.deleting = TRUE
          BY <3>1, <4>1, AbsenceAssumption DEF Lab
        <4>3. PICK complete, yes : complete = Complete(lab.status) /\ yes = TRUE
          OBVIOUS
        <4>4. /\ View = [gen |-> lab.gen, deleting |-> lab.deleting, seen |-> lab.status.gen,
                         phase |-> lab.status.phase, complete |-> complete]
              /\ View' = [gen |-> lab.gen, deleting |-> yes, seen |-> lab.status.gen,
                          phase |-> lab.status.phase, complete |-> complete]
          BY <3>1, <4>2, <4>3 DEF View
        <4>5. View' = [View EXCEPT !.deleting = TRUE]
          <5>1. View' = [View EXCEPT !.deleting = yes]
            BY <4>4
          <5> QED
            BY <4>3, <5>1
        <4>6. ~View.deleting
          BY <3>1 DEF View
        <4> QED
          BY <2>2, <3>1, <4>5, <4>6 DEF Promise!Next, Promise!Delete
      <3>3. CASE ~lab.finalizer
        <4>1. View.seen = 0 /\ View' = NoLab
          BY <2>1, <2>8, <3>1, <3>3 DEF DeleteLab, FinalizerFirst, View
        <4> QED
          BY <2>2, <3>1, <4>1 DEF Promise!Next, Promise!Remove
      <3> QED
        BY <3>2, <3>3
    <2>9. CASE Publish
      <3>1. /\ lab \in Lab /\ lab # NoLab /\ lab = copy /\ ~lab.deleting
            /\ lab' = [lab EXCEPT !.status = next]
            /\ next.gen = lab.gen /\ next.phase # "unset" /\ next \in Status
            /\ next.phase = "Succeeded" => next.summary.gen = next.gen
        BY <2>1, <2>9 DEF Publish, At, WorkerHasLab, WorkerStatus, TypeOK
      <3>2. lab' \in Lab /\ lab'.status = next
        BY <3>1 DEF Lab
      <3>3. lab' # NoLab /\ UNCHANGED <<lab.gen, lab.deleting>>
        BY <3>1, <3>2, AbsenceAssumption DEF Lab
      <3>4. View' = [gen |-> lab.gen, deleting |-> FALSE, seen |-> lab.gen,
                     phase |-> next.phase, complete |-> Complete(next)]
        <4>1. View' = [gen |-> lab'.gen, deleting |-> lab'.deleting,
                       seen |-> lab'.status.gen, phase |-> lab'.status.phase,
                       complete |-> Complete(lab'.status)]
          BY <3>3 DEF View
        <4>2. /\ lab'.gen = lab.gen /\ lab'.deleting = FALSE
              /\ lab'.status = next /\ next.gen = lab.gen
          BY <3>1, <3>2, <3>3 DEF Lab
        <4> QED
          BY <4>1, <4>2
      <3>5. Complete(next) \in BOOLEAN /\ (next.phase = "Succeeded" => Complete(next))
        <4>1. next.gen # 0
          BY <3>1, BoundAssumption DEF Lab
        <4> QED
          BY <3>1, <4>1 DEF Complete
      <3>6. next.phase \in Promise!Phases \ {"unset"} /\ ~View.deleting /\ View.gen = lab.gen
        BY <3>1 DEF Status, Promise!Phases, View
      <3> QED
        BY <2>2, <3>1, <3>4, <3>5, <3>6 DEF Promise!Next, Promise!Publish
    <2> QED
      BY <2>3, <2>4, <2>5, <2>6, <2>7, <2>8, <2>9, LabMoves
  <1> QED
    BY <1>1, <1>2, Invariance, PTL DEF Spec, KeepsPromise, Promise!Spec
=============================================================================
