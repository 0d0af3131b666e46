-------------------- MODULE ResourceAnalyzerLabFreshness --------------------
(* More proofs about ResourceAnalyzerLab, on top of IInv.  WakeInv follows the *)
(* key through the queue, the timer and the watch: why a lab that still needs  *)
(* a reconcile gets one, for every stack, spec and bound and however far the   *)
(* caches lag.  SyncInv is for reads that are never behind the API server      *)
(* (CacheLag is FALSE): what the design documents promise of cleanup and of    *)
(* waiting for Prometheus holds then.                                          *)
EXTENDS ResourceAnalyzerLabProofs

USE DEF worldVars, apiVars, cacheVars, metrics, queueVars, counters, localVars, vars, workerVars

\* Unless the key is queued again, the worker has in hand what the cache shows.
CopyCurrent ==
    /\ (pc # "idle" /\ ~queued) => copy = labCache
    /\ pc = "addFinalizer" => ~copy.finalizer

\* A lab whose latest version was seen and that nothing will queue is one that
\* was analysed or failed, or Prometheus is waited for and the timer is set.
Attended ==
    (pc = "idle" /\ ~queued /\ labCache = lab /\ lab # NoLab) =>
        /\ ~lab.deleting /\ lab.status.gen = lab.gen
        /\ \/ lab.status.phase \in {"Succeeded", "Failed"}
           \/ lab.status.phase = "Running" /\ timer

WakeInv == CopyCurrent /\ Attended

-----------------------------------------------------------------------------
(* The queue, the timer and the worker                                       *)

\* Steps that are not the worker's neither empty the queue nor move the worker.
LEMMA OthersQueue ==
    ASSUME Outside \/ Deliver \/ TimerFires \/ Resync \/ UNCHANGED vars
    PROVE  UNCHANGED workerVars /\ (queued' \/ UNCHANGED queued)
  BY DEF Outside, CreateLab, EditSpec, DeleteLab, PrometheusStarts, PrometheusStops, SetAvailable, WriteStatus,
         PrometheusFails, PrometheusRecovers, Scrape, Deliver, DeliverLab, DeliverPart, DeliverMap,
         TimerFires, Resync

\* The stack and the analysis leave the queue and the timer alone and end in a status
\* to publish: their errors are not returned.
LEMMA StagesQueue ==
    ASSUME \/ Monitoring \/ Analyze
           \/ \E o \in Stack : PartCallFails(o)
           \/ \E m \in Maps : MapCallFails(m)
    PROVE  /\ UNCHANGED <<queued, timer, lab, labCache>>
           /\ pc \notin {"idle", "publish"} /\ pc' \notin {"idle", "addFinalizer"}
  <1>1. CASE Monitoring
    BY <1>1 DEF Monitoring, ApplyPart, PartConflict, ReadAvailability, DeploymentNotCached,
                StackPending, Applying, Applied, At, FailApply, Finish, Answered,
                AnswerLost, Skip
  <1>2. CASE Analyze
    BY <1>2 DEF Analyze, MissingURL, Query, QueryFails, WriteMap, MapConflict,
                AnalysisCompleted, StackReady, Applied, At, FailQuery, Finish, Answered,
                AnswerLost, Skip
  <1>3. CASE \/ \E o \in Stack : PartCallFails(o)
             \/ \E m \in Maps : MapCallFails(m)
    BY <1>3 DEF PartCallFails, MapCallFails, Applying, At, FailApply, FailQuery, Finish
  <1> QED
    BY <1>1, <1>2, <1>3

\* The key leaves the queue only when a reconcile begins, and a reconcile that
\* begins has in hand what the cache shows.
LEMMA QueueMoves ==
    [Next]_vars => \/ queued'
                   \/ UNCHANGED queued
                   \/ Restart /\ lab = NoLab
                   \/ ReconcileMissing
                   \/ Reads
  <1> SUFFICES ASSUME [Next]_vars, ~ queued', ~ UNCHANGED queued, ~ ReconcileMissing
               PROVE  (Restart /\ lab = NoLab) \/ Reads
    OBVIOUS
  <1>1. ~ (Outside \/ Deliver \/ TimerFires \/ Resync \/ UNCHANGED vars)
    BY OthersQueue
  <1>2. ~ (\/ Monitoring \/ Analyze
           \/ \E o \in Stack : PartCallFails(o)
           \/ \E m \in Maps : MapCallFails(m))
    BY StagesQueue
  <1>3. CASE CallFails \/ Restart
    BY <1>3 DEF CallFails, ReturnError, Restart
  <1>4. CASE Cleanup \/ ReconcileNew \/ ReconcileLab
    BY <1>4 DEF Cleanup, ReconcileDeleted, DeleteListedMap, CleanupDone, RemoveFinalizer,
                ReconcileNew, ReconcileLab, Begin, At, Reads, Answered, AnswerLost,
                ReturnError, Return, Skip
  <1>5. ~ (AddFinalizer \/ FinalizerConflict \/ PublishSame \/ Publish \/ PublishConflict)
    BY DEF AddFinalizer, FinalizerConflict, PublishSame, Publish, PublishConflict,
           ReturnError, Answered, AnswerLost, Return
  <1> QED
    BY <1>1, <1>2, <1>3, <1>4, <1>5 DEF Next, Reconcile, Fault

\* The cache's version of the lab changes by a watch event, or when a new manager
\* lists.
LEMMA CacheOnlyByWatch == [Next]_vars => UNCHANGED labCache \/ DeliverLab \/ Restart
  <1> SUFFICES ASSUME [Next]_vars, ~ UNCHANGED labCache, ~ DeliverLab, ~ Restart
               PROVE  FALSE
    OBVIOUS
  <1>1. ~ (Outside \/ TimerFires \/ Resync \/ UNCHANGED vars)
    BY DEF Outside, CreateLab, EditSpec, DeleteLab, PrometheusStarts, PrometheusStops,
           SetAvailable, WriteStatus, PrometheusFails, PrometheusRecovers, Scrape, TimerFires, Resync
  <1>2. ~ Deliver
    BY DEF Deliver, DeliverPart, DeliverMap
  <1>3. ~ (\/ Monitoring \/ Analyze
           \/ \E o \in Stack : PartCallFails(o)
           \/ \E m \in Maps : MapCallFails(m))
    BY StagesQueue
  <1>4. ~ (CallFails \/ Cleanup)
    BY DEF CallFails, Cleanup, ReconcileDeleted, DeleteListedMap, CleanupDone, RemoveFinalizer
  <1>5. ~ (ReconcileMissing \/ ReconcileNew \/ ReconcileLab \/ AddFinalizer
             \/ FinalizerConflict \/ PublishSame \/ Publish \/ PublishConflict)
    BY DEF ReconcileMissing, ReconcileNew, ReconcileLab, AddFinalizer, FinalizerConflict,
           PublishSame, Publish, PublishConflict
  <1> QED
    BY <1>1, <1>2, <1>3, <1>4, <1>5 DEF Next, Reconcile, Fault

\* The timer is set when a status is published and cleared when it fires.
LEMMA TimerMoves ==
    [Next]_vars => UNCHANGED timer \/ PublishSame \/ Publish \/ TimerFires \/ Restart
  <1> SUFFICES ASSUME [Next]_vars, ~ UNCHANGED timer, ~ PublishSame, ~ Publish,
                      ~ TimerFires, ~ Restart
               PROVE  FALSE
    OBVIOUS
  <1>1. ~ (Outside \/ Deliver \/ Resync \/ UNCHANGED vars)
    BY DEF Outside, CreateLab, EditSpec, DeleteLab, PrometheusStarts, PrometheusStops,
           SetAvailable, WriteStatus, PrometheusFails, PrometheusRecovers, Scrape, Deliver, DeliverLab,
           DeliverPart, DeliverMap, Resync
  <1>2. ~ (\/ Monitoring \/ Analyze
           \/ \E o \in Stack : PartCallFails(o)
           \/ \E m \in Maps : MapCallFails(m))
    BY StagesQueue
  <1>3. ~ (CallFails \/ Cleanup)
    BY DEF CallFails, ReturnError, Cleanup, ReconcileDeleted, DeleteListedMap, CleanupDone,
           RemoveFinalizer, Begin, Answered, AnswerLost, Return, Skip
  <1>4. ~ (ReconcileMissing \/ ReconcileNew \/ ReconcileLab \/ AddFinalizer
             \/ FinalizerConflict \/ PublishConflict)
    BY DEF ReconcileMissing, ReconcileNew, ReconcileLab, AddFinalizer, FinalizerConflict,
           PublishConflict, ReturnError, Begin, Answered, AnswerLost, Return
  <1> QED
    BY <1>1, <1>2, <1>3, <1>4 DEF Next, Reconcile, Fault

\* Reconcile returns without an error only when it has nothing to publish, or has
\* written the lab; the manager's death ends it, too.
LEMMA Returns ==
    [Next]_vars /\ pc # "idle" /\ pc' = "idle" /\ ~queued' =>
        PublishSame \/ Publish \/ AddFinalizer \/ RemoveFinalizer \/ Restart
  <1> SUFFICES ASSUME [Next]_vars, pc # "idle", pc' = "idle", ~queued', ~ PublishSame,
                      ~ Publish, ~ AddFinalizer, ~ RemoveFinalizer, ~ Restart
               PROVE  FALSE
    OBVIOUS
  <1>1. ~ (Outside \/ Deliver \/ TimerFires \/ Resync \/ UNCHANGED vars)
    BY OthersQueue
  <1>2. ~ (\/ Monitoring \/ Analyze
           \/ \E o \in Stack : PartCallFails(o)
           \/ \E m \in Maps : MapCallFails(m))
    BY StagesQueue
  <1>3. ~ (CallFails \/ Cleanup)
    BY DEF CallFails, ReturnError, Cleanup, ReconcileDeleted, DeleteListedMap, CleanupDone,
           Answered, AnswerLost, Return, Skip
  <1>4. ~ (ReconcileMissing \/ ReconcileNew \/ ReconcileLab \/ FinalizerConflict
             \/ PublishConflict)
    BY DEF ReconcileMissing, ReconcileNew, ReconcileLab, FinalizerConflict, PublishConflict,
           ReturnError
  <1> QED
    BY <1>1, <1>2, <1>3, <1>4 DEF Next, Reconcile, Fault

\* A reconcile that is under way was begun by this step or was under way before,
\* on the same copy.
LEMMA PcMoves ==
    [Next]_vars /\ pc' # "idle" => Reads \/ (pc # "idle" /\ UNCHANGED copy)
  <1> SUFFICES ASSUME Kinds, pc' # "idle", ~ Reads
               PROVE  pc # "idle" /\ UNCHANGED copy
    BY WorkerMoves
  <1> QED
    BY DEF Kinds, Rests, Return, GoesOn, GivesUp, Query, StackReady, Applied, At, Wrote, WriteMap,
           Skip, AnalysisCompleted, Finish

\* The finalizer is added only to a lab that was read without it.
LEMMA FinalizerMissing ==
    [Next]_vars /\ pc' = "addFinalizer" =>
        ~copy'.finalizer \/ (pc = "addFinalizer" /\ UNCHANGED copy)
  <1> SUFFICES ASSUME [Next]_vars, pc' = "addFinalizer", ~ UNCHANGED workerVars
               PROVE  ~copy'.finalizer
    OBVIOUS
  <1>1. ~ (Outside \/ Deliver \/ TimerFires \/ Resync \/ UNCHANGED vars)
    BY OthersQueue
  <1>2. ~ (\/ Monitoring \/ Analyze
           \/ \E o \in Stack : PartCallFails(o)
           \/ \E m \in Maps : MapCallFails(m))
    BY StagesQueue
  <1>3. ~ (CallFails \/ Restart \/ Cleanup)
    BY DEF CallFails, ReturnError, Restart, Return, Cleanup, ReconcileDeleted,
           DeleteListedMap, CleanupDone, RemoveFinalizer, At, Answered, AnswerLost, Skip
  <1>4. ~ (ReconcileMissing \/ ReconcileLab \/ AddFinalizer \/ FinalizerConflict \/ PublishSame
             \/ Publish \/ PublishConflict)
    BY DEF ReconcileMissing, ReconcileLab, AddFinalizer, FinalizerConflict, PublishSame,
           Publish, PublishConflict, ReturnError, Return, Answered, AnswerLost
  <1>5. ReconcileNew
    BY <1>1, <1>2, <1>3, <1>4 DEF Next, Reconcile, Fault
  <1> QED
    BY <1>5 DEF ReconcileNew

-----------------------------------------------------------------------------
(* The invariant                                                             *)

\* The worker has the version of the lab that the cache shows, unless the key was
\* queued again meanwhile.
LEMMA CopyCurrentStep == CopyCurrent /\ [Next]_vars => CopyCurrent'
  <1> SUFFICES ASSUME CopyCurrent, [Next]_vars PROVE CopyCurrent'
    OBVIOUS
  <1>1. ASSUME pc' # "idle", ~queued'
        PROVE  copy' = labCache'
    <2>1. UNCHANGED labCache
      BY <1>1, CacheOnlyByWatch DEF Restart, Return, DeliverLab
    <2>2. CASE Reads
      BY <2>1, <2>2 DEF Reads
    <2>3. CASE ~ Reads
      <3>1. UNCHANGED queued
        BY <1>1, <2>3, QueueMoves DEF Restart, Return, ReconcileMissing, Begin, At
      <3>2. pc # "idle" /\ UNCHANGED copy
        BY <1>1, <2>3, PcMoves
      <3> QED
        BY <1>1, <2>1, <3>1, <3>2 DEF CopyCurrent
    <2> QED
      BY <2>2, <2>3
  <1>2. ASSUME pc' = "addFinalizer"
        PROVE  ~copy'.finalizer
    BY <1>2, FinalizerMissing DEF CopyCurrent
  <1> QED
    BY <1>1, <1>2 DEF CopyCurrent

\* A lab that needs a reconcile gets one: by the queue, a watch event or the timer.
LEMMA AttendedStep ==
    IInv /\ CopyCurrent /\ Attended /\ [Next]_vars => Attended'
  <1> SUFFICES ASSUME TypeOK, WorkerHasLab, WorkerStatus, VersionsInOrder, CopyCurrent,
                      Attended, [Next]_vars,
                      pc' = "idle", ~queued', labCache' = lab', lab' # NoLab
               PROVE  /\ ~lab'.deleting /\ lab'.status.gen = lab'.gen
                      /\ \/ lab'.status.phase \in {"Succeeded", "Failed"}
                         \/ lab'.status.phase = "Running" /\ timer'
    BY DEF Attended, IInv
  <1>1. ~ DeliverLab /\ ~ Restart /\ ~ ReconcileMissing /\ ~ RemoveFinalizer /\ ~ Reads
    BY DEF DeliverLab, Restart, ReconcileMissing, Begin, At, RemoveFinalizer, Reads
  <1>2. UNCHANGED queued /\ UNCHANGED labCache
    BY <1>1, QueueMoves, CacheOnlyByWatch
  <1>3. /\ \A x \in {lab, lab', labCache, copy} : x # NoLab => x \in Lab
        /\ \A x \in {lab, labCache, copy} : x # NoLab => x.inc \in Nat /\ x.gen \in Nat
        /\ incarnation \in Nat /\ next \in Status
    BY TypeStep, BoundAssumption DEF TypeOK, Lab
  <1>4. ~ CreateLab
    <2> SUFFICES ASSUME CreateLab PROVE FALSE
      OBVIOUS
    <2>1. lab'.inc = incarnation + 1
      BY DEF CreateLab
    <2>2. labCache # NoLab /\ labCache.inc = incarnation + 1 /\ labCache.inc <= incarnation
      BY <1>2, <2>1 DEF VersionsInOrder
    <2> QED
      BY <1>3, <2>2
  <1>5. ~ EditSpec
    <2> SUFFICES ASSUME EditSpec PROVE FALSE
      OBVIOUS
    <2>1. lab # NoLab /\ lab \in Lab /\ lab' = [lab EXCEPT !.gen = @ + 1]
      BY <1>3 DEF EditSpec
    <2>2. lab'.gen = lab.gen + 1 /\ lab'.inc = lab.inc
      BY <2>1 DEF Lab
    <2>3. labCache.gen = lab.gen + 1 /\ labCache.gen <= lab.gen
      BY <1>2, <2>1, <2>2 DEF VersionsInOrder, Sighting
    <2> QED
      BY <1>3, <2>1, <2>3
  <1>6. ~ DeleteLab
    <2> SUFFICES ASSUME DeleteLab PROVE FALSE
      OBVIOUS
    <2>1. lab # NoLab /\ lab \in Lab /\ ~lab.deleting /\ lab' = [lab EXCEPT !.deleting = TRUE]
      BY <1>3 DEF DeleteLab
    <2>2. lab'.deleting /\ lab'.inc = lab.inc
      BY <2>1 DEF Lab
    <2> QED
      BY <1>2, <2>1, <2>2 DEF VersionsInOrder, Sighting
  <1>7. ~ AddFinalizer
    <2> SUFFICES ASSUME AddFinalizer PROVE FALSE
      OBVIOUS
    <2>1. copy \in Lab /\ lab' = [copy EXCEPT !.finalizer = TRUE] /\ ~copy.finalizer
          /\ copy = labCache
      BY <1>2, <1>3 DEF AddFinalizer, At, WorkerHasLab, CopyCurrent
    <2>2. lab'.finalizer
      BY <2>1 DEF Lab
    <2> QED
      BY <1>2, <2>1, <2>2
  <1>8. ~ Publish
    <2> SUFFICES ASSUME Publish PROVE FALSE
      OBVIOUS
    <2>1. copy \in Lab /\ lab' = [copy EXCEPT !.status = next] /\ copy = labCache
          /\ ~DeepEqual(copy.status, next)
      BY <1>2, <1>3 DEF Publish, At, WorkerHasLab, CopyCurrent
    <2>2. copy.status = next
      BY <1>2, <2>1 DEF Lab
    <2>3. DeepEqual(next, next)
      BY <1>3 DEF DeepEqual, Status
    <2> QED
      BY <2>1, <2>2, <2>3
  <1>9. UNCHANGED lab
    BY <1>1, <1>4, <1>5, <1>6, <1>7, <1>8, LabMoves
  <1>10. CASE pc = "idle"
    <2>1. UNCHANGED timer
      BY <1>1, <1>2, <1>8, <1>10, TimerMoves DEF PublishSame, At, TimerFires
    <2> QED
      BY <1>2, <1>9, <1>10, <2>1 DEF Attended
  <1>11. CASE pc # "idle"
    <2>1. PublishSame
      BY <1>1, <1>7, <1>8, <1>11, Returns
    <2>2. pc = "publish" /\ DeepEqual(copy.status, next) /\ Requeue
      BY <2>1 DEF PublishSame, At
    <2>3. copy = lab
      BY <1>2, <1>9, <1>11 DEF CopyCurrent
    <2>4. copy \in Lab
      BY <1>3, <1>9, <2>3
    <2>5. lab.status.gen = next.gen /\ lab.status.phase = next.phase
      BY <1>3, <2>2, <2>3, <2>4 DEF DeepEqual, Lab, Status
    <2>6. next.gen = lab.gen /\ next.phase # "unset" /\ ~lab.deleting
      BY <2>2, <2>3 DEF WorkerStatus, WorkerHasLab
    <2> QED
      BY <1>3, <1>9, <2>2, <2>5, <2>6 DEF Requeue, Status
  <1> QED
    BY <1>10, <1>11

\* The invariant behind NothingForgotten.
LEMMA WakeInvariance == Spec => []WakeInv
  <1>1. Init => WakeInv
    BY DEF Init, WakeInv, CopyCurrent, Attended
  <1>2. IInv /\ WakeInv /\ [Next]_vars => WakeInv'
    BY CopyCurrentStep, AttendedStep DEF WakeInv
  <1> QED
    BY <1>1, <1>2, Invariance, PTL DEF Spec

\* A lab is never forgotten: with nothing left that would wake the worker, the
\* current generation has ended in success or failure and the lab is not being
\* deleted. The status that DeepEqual takes for unchanged, every conflict, error and
\* restart leave the key queued, a watch event to come or the timer set.
THEOREM LabsAttended == Spec => []NothingForgotten
  <1>1. WakeInv => NothingForgotten
    BY DEF WakeInv, Attended, NothingForgotten
  <1> QED
    BY <1>1, WakeInvariance, PTL

-----------------------------------------------------------------------------
(* When the worker's reads are never behind the API server                     *)

\* The stages in which the worker needs the lab to be there.
InHand == {"prometheus", "grafana", "write", "publish", "deleteMaps", "removeFinalizer"}

\* A run and a cleanup work on a lab that holds its finalizer while they do.
LabInHand == pc \in InHand => lab # NoLab /\ lab.finalizer

\* Without a lab, or before its finalizer, there is nothing to clean up, and a
\* cleanup leaves nothing.
Clean ==
    /\ (lab = NoLab \/ ~lab.finalizer) => \A m \in Maps : maps[m] = NoMap
    /\ pc = "deleteMaps" => \A m \in Maps : maps[m] # NoMap => m \in left
    /\ pc = "removeFinalizer" => \A m \in Maps : maps[m] = NoMap

\* While nothing has gone wrong, a run that goes past Prometheus has seen it
\* available, and one that has not publishes Running.
Patient ==
    budget = MaxDisturbances =>
        /\ pc = "prometheus" => PrometheusSet \ left \subseteq stack
        /\ (pc = "grafana" /\ PrometheusOn(copy.gen) /\ ready) => available
        /\ (pc = "write" /\ PrometheusOn(copy.gen)) => available
        /\ (pc = "publish" /\ PrometheusOn(copy.gen) /\ ~available)
              => next.phase = "Running"

SyncInv == LabInHand /\ Clean /\ budget <= MaxDisturbances /\ Patient

-----------------------------------------------------------------------------
(* What the steps do                                                         *)

\* A reconcile begins by one of three actions, on the lab there is.
LEMMA StartsSynced ==
    ASSUME ~CacheLag, [Next]_vars, Reads
    PROVE  /\ ReconcileNew \/ ReconcileLab \/ ReconcileDeleted
           /\ labCache = lab /\ Synced /\ UNCHANGED apiVars
  <1>1. pc = "idle" /\ pc' # "idle" /\ ~ Return
    BY DEF Reads, Return
  <1>2. ~ (Outside \/ Deliver \/ TimerFires \/ Resync \/ UNCHANGED vars)
    BY <1>1, OthersQueue
  <1>3. ~ (\/ Monitoring \/ Analyze
           \/ \E o \in Stack : PartCallFails(o)
           \/ \E m \in Maps : MapCallFails(m))
    BY <1>1, StagesQueue
  <1>4. ~ (CallFails \/ Restart \/ FinalizerConflict \/ PublishConflict \/ PublishSame \/ Publish
             \/ AddFinalizer \/ ReconcileMissing)
    BY <1>1 DEF CallFails, Restart, FinalizerConflict, PublishConflict, PublishSame,
                Publish, AddFinalizer, ReconcileMissing, ReturnError, Answered, AnswerLost,
                Return
  <1>5. ReconcileNew \/ ReconcileLab \/ ReconcileDeleted
    BY <1>1, <1>2, <1>3, <1>4
    DEF Next, Reconcile, Fault, Cleanup, DeleteListedMap, CleanupDone, RemoveFinalizer, At
  <1> QED
    BY <1>5 DEF ReconcileNew, ReconcileLab, ReconcileDeleted, Begin, At, Synced

\* Such a stage follows another one or the start of the reconcile.
LEMMA HandMoves ==
    [Next]_vars /\ pc' \in InHand => Reads \/ (pc \in InHand /\ UNCHANGED copy)
  <1> SUFFICES ASSUME Kinds, pc' \in InHand, ~ Reads
               PROVE  pc \in InHand /\ UNCHANGED copy
    BY WorkerMoves
  <1> QED
    BY DEF Kinds, Rests, Return, GoesOn, GivesUp, Query, StackReady, Applied, At, Wrote, WriteMap,
           Skip, AnalysisCompleted, Finish, InHand

\* The user's edits, and the deletion of a lab that has one, leave the finalizer.
LEMMA FinalizerStays ==
    ASSUME TypeOK, lab # NoLab, EditSpec \/ DeleteLab
    PROVE  /\ lab.finalizer => lab' # NoLab /\ lab'.finalizer
           /\ ~lab.finalizer => lab' = NoLab \/ ~lab'.finalizer
  <1>1. lab \in Lab
    BY DEF TypeOK
  <1>2. CASE EditSpec
    <2>1. lab' = [lab EXCEPT !.gen = @ + 1]
      BY <1>2 DEF EditSpec
    <2>2. lab'.finalizer = lab.finalizer
      BY <1>1, <2>1 DEF Lab
    <2>3. lab' \in Lab
      BY <1>1, <1>2, <2>1, BoundAssumption DEF EditSpec, Lab
    <2> QED
      BY <2>2, <2>3, AbsenceAssumption
  <1>3. CASE DeleteLab /\ lab.finalizer
    <2>1. lab' = [lab EXCEPT !.deleting = TRUE]
      BY <1>3 DEF DeleteLab
    <2>2. lab'.finalizer = lab.finalizer /\ lab' \in Lab
      BY <1>1, <2>1 DEF Lab
    <2> QED
      BY <1>3, <2>2, AbsenceAssumption
  <1>4. CASE DeleteLab /\ ~lab.finalizer
    BY <1>4 DEF DeleteLab
  <1> QED
    BY <1>2, <1>3, <1>4

\* Publishing leaves the finalizer, adding it sets it.
LEMMA FinalizerWritten ==
    ASSUME TypeOK, WorkerHasLab, AddFinalizer \/ Publish
    PROVE  lab' # NoLab /\ lab'.finalizer
  <1>1. copy \in Lab /\ lab = copy
    BY DEF AddFinalizer, Publish, At, WorkerHasLab, TypeOK
  <1>2. CASE AddFinalizer
    <2>1. lab' = [copy EXCEPT !.finalizer = TRUE]
      BY <1>2 DEF AddFinalizer
    <2>2. lab'.finalizer /\ lab' \in Lab
      BY <1>1, <2>1 DEF Lab
    <2> QED
      BY <2>2, AbsenceAssumption
  <1>3. CASE Publish
    <2>1. lab' = [copy EXCEPT !.status = next] /\ copy.finalizer /\ next \in Status
      BY <1>3 DEF Publish, At, WorkerHasLab, TypeOK
    <2>2. lab'.finalizer = copy.finalizer /\ lab' \in Lab
      BY <1>1, <2>1 DEF Lab
    <2> QED
      BY <2>1, <2>2, AbsenceAssumption
  <1> QED
    BY <1>2, <1>3

-----------------------------------------------------------------------------
(* Cleanup                                                                   *)

\* The lab a run or a cleanup works on stays until that is over.
LEMMA LabInHandStep ==
    ~CacheLag /\ TypeOK /\ WorkerHasLab /\ LabInHand /\ [Next]_vars => LabInHand'
  <1> SUFFICES ASSUME ~CacheLag, TypeOK, WorkerHasLab, LabInHand, [Next]_vars, pc' \in InHand
               PROVE  lab' # NoLab /\ lab'.finalizer
    BY DEF LabInHand
  <1>1. CASE Reads
    BY <1>1, StartsSynced DEF ReconcileNew, ReconcileLab, ReconcileDeleted, InHand
  <1>2. CASE ~ Reads
    <2>1. lab # NoLab /\ lab.finalizer
      BY <1>2, HandMoves DEF LabInHand
    <2>2. ~ RemoveFinalizer /\ ~ CreateLab
      BY <2>1 DEF RemoveFinalizer, Return, InHand, CreateLab, Answered, AnswerLost,
                  ReturnError
    <2> QED
      BY <2>1, <2>2, LabMoves, FinalizerStays, FinalizerWritten
  <1> QED
    BY <1>1, <1>2

\* What goes on in a cleanup.
LEMMA CleanupMoves ==
    [Next]_vars /\ pc' \in {"deleteMaps", "removeFinalizer"} =>
        \/ UNCHANGED <<pc, left, maps>>
        \/ ReconcileDeleted \/ CleanupDone
        \/ \E m \in Maps : DeleteListedMap(m)
  <1> SUFFICES ASSUME [Next]_vars, ~ UNCHANGED <<pc, left, maps>>,
                      pc' \in {"deleteMaps", "removeFinalizer"}
               PROVE  \/ ReconcileDeleted \/ CleanupDone
                      \/ \E m \in Maps : DeleteListedMap(m)
    OBVIOUS
  <1>1. ~ Return
    BY DEF Return
  <1>2. ~ (Outside \/ Deliver \/ TimerFires \/ Resync \/ UNCHANGED vars)
    BY DEF Outside, CreateLab, EditSpec, DeleteLab, PrometheusStarts, PrometheusStops,
           SetAvailable, WriteStatus, PrometheusFails, PrometheusRecovers, Scrape, Deliver, DeliverLab,
           DeliverPart, DeliverMap, TimerFires, Resync
  <1>3. ~ Monitoring
    BY DEF Monitoring, ApplyPart, PartConflict, ReadAvailability, DeploymentNotCached,
           StackPending, Applying, Applied, At, FailApply, Finish, Answered, AnswerLost,
           Skip
  <1>4. ~ Analyze
    BY DEF Analyze, MissingURL, Query, QueryFails, WriteMap, MapConflict, AnalysisCompleted,
           StackReady, Applied, At, FailQuery, Finish, Answered, AnswerLost, Skip
  <1>5. ~ Fault
    BY <1>1 DEF Fault, CallFails, Restart, ReturnError, PartCallFails, MapCallFails, FailApply,
                FailQuery, Finish
  <1>6. ~ (ReconcileMissing \/ ReconcileNew \/ ReconcileLab \/ AddFinalizer
             \/ FinalizerConflict \/ PublishSame \/ Publish \/ PublishConflict
             \/ RemoveFinalizer)
    BY <1>1 DEF ReconcileMissing, ReconcileNew, ReconcileLab, AddFinalizer,
                FinalizerConflict, PublishSame, Publish, PublishConflict, RemoveFinalizer,
                ReturnError, Begin, At, Answered, AnswerLost, Return
  <1> QED
    BY <1>2, <1>3, <1>4, <1>5, <1>6 DEF Next, Reconcile, Cleanup

\* A lab that may go at once has no reports: all were written under its finalizer,
\* which only a cleanup that left nothing takes away.
LEMMA NothingLeftStep ==
    ASSUME TypeOK, WorkerHasLab, LabInHand, Clean, [Next]_vars, lab' = NoLab \/ ~lab'.finalizer
    PROVE  \A m \in Maps : maps'[m] = NoMap
  <1>1. CASE RemoveFinalizer
    BY <1>1 DEF RemoveFinalizer, At, Clean
  <1>2. ~ AddFinalizer /\ ~ Publish
    BY FinalizerWritten
  <1>3. CASE ~ RemoveFinalizer
    <2>1. lab = NoLab \/ ~lab.finalizer
      BY <1>2, <1>3, LabMoves, FinalizerStays DEF CreateLab
    <2>2. \A m \in Maps : maps[m] = NoMap
      BY <2>1 DEF Clean
    <2>3. UNCHANGED maps
      <3>1. ~ \E m \in Maps : WriteMap(m) \/ DeleteListedMap(m)
        BY <2>1 DEF WriteMap, DeleteListedMap, At, LabInHand, InHand
      <3> QED
        BY <3>1, MapMoves
    <2> QED
      BY <2>2, <2>3
  <1> QED
    BY <1>1, <1>3

\* A cleanup finds every report there is, and none is written while it runs.
LEMMA CleanStep ==
    ~CacheLag /\ TypeOK /\ WorkerHasLab /\ LabInHand /\ Clean /\ [Next]_vars => Clean'
  <1> SUFFICES ASSUME ~CacheLag, TypeOK, WorkerHasLab, LabInHand, Clean, [Next]_vars
               PROVE  Clean'
    OBVIOUS
  <1>1. ASSUME NEW m \in Maps, pc' = "deleteMaps", maps'[m] # NoMap
        PROVE  m \in left'
    <2>1. CASE UNCHANGED <<pc, left, maps>>
      BY <1>1, <2>1 DEF Clean
    <2>2. CASE ReconcileDeleted
      BY <1>1, <2>2 DEF ReconcileDeleted, Begin, At, Synced
    <2>3. ASSUME NEW x \in Maps, DeleteListedMap(x)
          PROVE  m \in left'
      <3>1. /\ maps' = [maps EXCEPT ![x] = NoMap] /\ left' = left \ {x}
            /\ pc = "deleteMaps"
        BY <1>1, <2>3 DEF DeleteListedMap, At, Answered, AnswerLost, ReturnError, Return, Skip
      <3>2. m # x /\ maps'[m] = maps[m]
        BY <1>1, <3>1 DEF TypeOK
      <3> QED
        BY <1>1, <3>1, <3>2 DEF Clean
    <2>4. ~ CleanupDone
      BY <1>1 DEF CleanupDone
    <2> QED
      BY <1>1, <2>1, <2>2, <2>3, <2>4, CleanupMoves
  <1>2. ASSUME NEW m \in Maps, pc' = "removeFinalizer"
        PROVE  maps'[m] = NoMap
    <2>1. CASE UNCHANGED <<pc, left, maps>>
      BY <1>2, <2>1 DEF Clean
    <2>2. CASE CleanupDone
      BY <2>2 DEF CleanupDone, At, Clean
    <2>3. ~ ReconcileDeleted /\ \A x \in Maps : ~ DeleteListedMap(x)
      BY <1>2 DEF ReconcileDeleted, DeleteListedMap, At, Answered, AnswerLost, ReturnError,
                  Return, Skip
    <2> QED
      BY <1>2, <2>1, <2>2, <2>3, CleanupMoves
  <1>3. (lab' = NoLab \/ ~lab'.finalizer) => \A m \in Maps : maps'[m] = NoMap
    BY NothingLeftStep
  <1> QED
    BY <1>1, <1>2, <1>3 DEF Clean

-----------------------------------------------------------------------------
(* Waiting for Prometheus                                                    *)

\* Disturbances are only spent.
LEMMA BudgetMoves ==
    [Next]_vars => \/ UNCHANGED budget
                   \/ budget > 0 /\ budget' = budget - 1
  <1> SUFFICES ASSUME [Next]_vars, ~ UNCHANGED budget
               PROVE  budget > 0 /\ budget' = budget - 1
    OBVIOUS
  <1>1. CASE Outside \/ Fault
    BY <1>1 DEF Outside, CreateLab, EditSpec, DeleteLab, PrometheusStarts, PrometheusStops,
                PrometheusFails, PrometheusRecovers, Scrape, Fault, CallFails, Restart,
                PartCallFails, MapCallFails, Disturb, WriteStatus
  <1>2. ~ (Deliver \/ TimerFires \/ Resync \/ UNCHANGED vars)
    BY DEF Deliver, DeliverLab, DeliverPart, DeliverMap, TimerFires, Resync
  <1>3. CASE Monitoring
    BY <1>3 DEF Monitoring, ApplyPart, PartConflict, ReadAvailability, DeploymentNotCached,
                StackPending, Answered, AnswerLost, Disturb
  <1>4. CASE Analyze
    BY <1>4 DEF Analyze, MissingURL, Query, QueryFails, WriteMap, MapConflict,
                AnalysisCompleted, Answered, AnswerLost, Disturb
  <1>5. CASE Cleanup
    BY <1>5 DEF Cleanup, ReconcileDeleted, DeleteListedMap, CleanupDone, RemoveFinalizer,
                Answered, AnswerLost, Disturb
  <1>6. CASE \/ ReconcileMissing \/ ReconcileNew \/ ReconcileLab \/ AddFinalizer
             \/ FinalizerConflict \/ PublishSame \/ Publish \/ PublishConflict
    BY <1>6 DEF ReconcileMissing, ReconcileNew, ReconcileLab, AddFinalizer, FinalizerConflict,
                PublishSame, Publish, PublishConflict, Answered, AnswerLost, Disturb
  <1> QED
    BY <1>1, <1>2, <1>3, <1>4, <1>5, <1>6 DEF Next, Reconcile

\* While nothing goes wrong the stack stays applied and Prometheus available.
LEMMA StackMoves ==
    TypeOK /\ [Next]_vars /\ UNCHANGED budget
      => stack \subseteq stack' /\ (available => available')
  <1> SUFFICES ASSUME budget \in Nat, [Next]_vars, UNCHANGED budget,
                      ~ UNCHANGED <<stack, available>>
               PROVE  stack \subseteq stack' /\ (available => available')
    BY DEF TypeOK
  <1>1. CASE Outside
    BY <1>1 DEF Outside, CreateLab, EditSpec, DeleteLab, PrometheusStarts, PrometheusStops,
                SetAvailable, WriteStatus, PrometheusFails, PrometheusRecovers, Scrape, Disturb
  <1>2. CASE Monitoring
    BY <1>2 DEF Monitoring, ApplyPart, PartConflict, ReadAvailability, DeploymentNotCached,
                StackPending
  <1>3. ~ (Fault \/ Deliver \/ TimerFires \/ Resync \/ UNCHANGED vars)
    BY DEF Fault, CallFails, Restart, PartCallFails, MapCallFails, Deliver, DeliverLab,
           DeliverPart, DeliverMap, TimerFires, Resync
  <1>4. ~ Analyze
    BY DEF Analyze, MissingURL, Query, QueryFails, WriteMap, MapConflict, AnalysisCompleted
  <1>5. ~ Cleanup
    BY DEF Cleanup, ReconcileDeleted, DeleteListedMap, CleanupDone, RemoveFinalizer
  <1>6. ~ (ReconcileMissing \/ ReconcileNew \/ ReconcileLab \/ AddFinalizer
             \/ FinalizerConflict \/ PublishSame \/ Publish \/ PublishConflict)
    BY DEF ReconcileMissing, ReconcileNew, ReconcileLab, AddFinalizer, FinalizerConflict,
           PublishSame, Publish, PublishConflict
  <1> QED
    BY <1>1, <1>2, <1>3, <1>4, <1>5, <1>6 DEF Next, Reconcile

\* What leads to a stage of the analysis, or keeps the worker there, when nothing
\* goes wrong.
LEMMA StageMoves ==
    ASSUME TypeOK, [Next]_vars, UNCHANGED budget,
           pc' \in {"prometheus", "grafana", "write", "publish"}
    PROVE  UNCHANGED workerVars \/ ReconcileLab \/ Monitoring \/ Analyze
  <1>1. ~ Return /\ budget \in Nat
    BY DEF Return, TypeOK
  <1>2. CASE Outside \/ Deliver \/ TimerFires \/ Resync \/ UNCHANGED vars
    BY <1>2, OthersQueue
  <1>3. ~ Fault
    BY <1>1 DEF Fault, CallFails, Restart, ReturnError, PartCallFails, MapCallFails, Disturb
  <1>4. ~ Cleanup
    BY <1>1 DEF Cleanup, ReconcileDeleted, DeleteListedMap, CleanupDone, RemoveFinalizer,
                At, Answered, AnswerLost, ReturnError, Return, Skip
  <1>5. ~ (ReconcileNew \/ AddFinalizer \/ FinalizerConflict \/ PublishSame \/ Publish
             \/ PublishConflict)
    BY <1>1 DEF ReconcileNew, AddFinalizer, FinalizerConflict, PublishSame, Publish,
                PublishConflict, ReturnError, Answered, AnswerLost, Return
  <1>6. CASE ReconcileMissing
    BY <1>6 DEF ReconcileMissing
  <1> QED
    BY <1>2, <1>3, <1>4, <1>5, <1>6 DEF Next, Reconcile

\* A cache that is not behind accepts every object of the stack.
LEMMA NoConflict == ASSUME ~CacheLag, NEW o \in Stack PROVE ~ PartConflict(o)
  <1> SUFFICES ASSUME PartConflict(o) PROVE FALSE
    OBVIOUS
  <1>1. Synced /\ ~ PartAccepted(o)
    BY DEF PartConflict, Applying, At
  <1>2. stackCache[o] = IF o \in stack THEN "fresh" ELSE "absent"
    BY <1>1 DEF Synced
  <1> QED
    BY <1>1, <1>2 DEF PartAccepted

\* The objects of Prometheus passed so far exist.
LEMMA AppliedStep ==
    ASSUME ~CacheLag, TypeOK, Patient, [Next]_vars, UNCHANGED budget,
           budget = MaxDisturbances, pc' = "prometheus"
    PROVE  PrometheusSet \ left' \subseteq stack'
  <1>1. CASE UNCHANGED workerVars
    BY <1>1, StackMoves DEF Patient
  <1>2. CASE ReconcileLab
    BY <1>2 DEF ReconcileLab
  <1>3. ASSUME NEW o \in Stack, ApplyPart(o)
        PROVE  PrometheusSet \ left' \subseteq stack'
    BY <1>3 DEF ApplyPart, Patient, Answered, AnswerLost, Skip, FailApply, Finish
  <1>4. ~ Analyze
    BY DEF Analyze, MissingURL, Query, QueryFails, WriteMap, MapConflict, AnalysisCompleted,
           StackReady, Applied, At, FailQuery, Finish, Answered, AnswerLost, Skip
  <1>5. ~ (ReadAvailability \/ DeploymentNotCached \/ StackPending)
    BY DEF ReadAvailability, DeploymentNotCached, StackPending, FailApply, Finish
  <1> QED
    BY <1>1, <1>2, <1>3, <1>4, <1>5, StageMoves, NoConflict DEF Monitoring

\* PrometheusReady was read from the Deployment as it is.
LEMMA ReadyStep ==
    ASSUME ~CacheLag, TypeOK, Patient, [Next]_vars, UNCHANGED budget,
           budget = MaxDisturbances, pc' = "grafana", PrometheusOn(copy.gen)', ready'
    PROVE  available'
  <1>1. CASE UNCHANGED workerVars
    <2>1. PrometheusOn(copy.gen) /\ pc = "grafana" /\ ready
      BY <1>1 DEF PrometheusOn
    <2> QED
      BY <2>1, StackMoves DEF Patient
  <1>2. CASE ReconcileLab
    <2>1. copy' = labCache /\ ~PrometheusOn(labCache.gen)
      BY <1>2 DEF ReconcileLab
    <2> QED
      BY <2>1 DEF PrometheusOn
  <1>3. ASSUME NEW o \in Stack, ApplyPart(o)
        PROVE  available'
    <2>1. PrometheusOn(copy.gen) /\ pc = "grafana" /\ ready
      BY <1>3 DEF ApplyPart, PrometheusOn, Answered, AnswerLost, Skip, FailApply, Finish
    <2> QED
      BY <2>1, StackMoves DEF Patient
  <1>4. CASE ReadAvailability
    BY <1>4 DEF ReadAvailability, At, Synced
  <1>5. ~ Analyze
    BY DEF Analyze, MissingURL, Query, QueryFails, WriteMap, MapConflict, AnalysisCompleted,
           StackReady, Applied, At, FailQuery, Finish, Answered, AnswerLost, Skip
  <1>6. ~ (DeploymentNotCached \/ StackPending)
    BY DEF DeploymentNotCached, StackPending, FailApply, Finish
  <1> QED
    BY <1>1, <1>2, <1>3, <1>4, <1>5, <1>6, StageMoves, NoConflict DEF Monitoring

\* Whoever asks a deployed Prometheus has seen it available.
LEMMA ReadyMeansAvailable ==
    ASSUME Patient, budget = MaxDisturbances, PrometheusOn(copy.gen), StackReady
    PROVE  available
  BY DEF Patient, StackReady, Applied, At

\* A report is written with Prometheus available.
LEMMA WritingStep ==
    ASSUME ~CacheLag, TypeOK, Patient, [Next]_vars, UNCHANGED budget,
           budget = MaxDisturbances, pc' = "write", PrometheusOn(copy.gen)'
    PROVE  available'
  <1>1. CASE UNCHANGED workerVars \/ \E m \in Maps : WriteMap(m)
    <2>1. PrometheusOn(copy.gen) /\ pc = "write"
      BY <1>1 DEF WriteMap, At, PrometheusOn, Answered, AnswerLost, Skip, FailQuery, Finish
    <2> QED
      BY <2>1, StackMoves DEF Patient
  <1>2. CASE Query
    <2>1. PrometheusOn(copy.gen) /\ StackReady
      BY <1>2 DEF Query, PrometheusOn
    <2> QED
      BY <2>1, ReadyMeansAvailable, StackMoves
  <1>3. ~ ReconcileLab
    BY DEF ReconcileLab
  <1>4. ~ Monitoring
    BY DEF Monitoring, ApplyPart, PartConflict, ReadAvailability, DeploymentNotCached,
           StackPending, Applying, Applied, At, FailApply, Finish, Answered, AnswerLost,
           Skip
  <1>5. ~ (MissingURL \/ QueryFails \/ AnalysisCompleted \/ \E m \in Maps : MapConflict(m))
    BY DEF MissingURL, QueryFails, AnalysisCompleted, MapConflict, FailQuery, Finish
  <1> QED
    BY <1>1, <1>2, <1>3, <1>4, <1>5, StageMoves DEF Analyze

\* Nothing but Running is published while a deployed Prometheus comes up.
LEMMA PublishingStep ==
    ASSUME ~CacheLag, TypeOK, WorkerHasLab, Patient, [Next]_vars, UNCHANGED budget,
           budget = MaxDisturbances, pc' = "publish", PrometheusOn(copy.gen)', ~available'
    PROVE  next'.phase = "Running"
  <1>1. ~available
    BY StackMoves
  <1>2. CASE UNCHANGED workerVars
    <2>1. PrometheusOn(copy.gen) /\ pc = "publish"
      BY <1>2 DEF PrometheusOn
    <2> QED
      BY <1>1, <1>2, <2>1 DEF Patient
  <1>3. CASE StackPending
    <2>1. next' = NextStatus("Running", "WaitingForPrometheus", "WaitingForPrometheus")
      BY <1>3 DEF StackPending, Finish
    <2>2. copy # NoLab
      BY <1>3 DEF StackPending, Applied, At, WorkerHasLab
    <2>3. "WaitingForPrometheus" \in StackReasons /\ "WaitingForPrometheus" \in QueryReasons
      BY DEF StackReasons, QueryReasons
    <2> QED
      BY <2>1, <2>2, <2>3, NextStatusType
  <1>4. ~ DeploymentNotCached
    <2> SUFFICES ASSUME DeploymentNotCached PROVE FALSE
      OBVIOUS
    <2>1. /\ pc = "prometheus" /\ left = {} /\ Synced /\ stackCache[Deployment] = "absent"
      BY DEF DeploymentNotCached, At
    <2>2. Deployment \in PrometheusSet /\ Deployment \in Stack
      BY PartsAssumption DEF PrometheusSet, Stack
    <2>3. Deployment \in stack
      BY <2>1, <2>2 DEF Patient
    <2>4. stackCache[Deployment] = "fresh"
      BY <2>1, <2>2, <2>3 DEF Synced
    <2> QED
      BY <2>1, <2>4
  <1>5. ~ (MissingURL \/ QueryFails)
    <2> SUFFICES ASSUME MissingURL \/ QueryFails PROVE FALSE
      OBVIOUS
    <2>1. StackReady /\ UNCHANGED copy
      BY DEF MissingURL, QueryFails, FailQuery, Finish
    <2>2. PrometheusOn(copy.gen)
      BY <2>1 DEF PrometheusOn
    <2> QED
      BY <1>1, <2>1, <2>2, ReadyMeansAvailable
  <1>6. ~ (AnalysisCompleted \/ \E m \in Maps : MapConflict(m))
    <2> SUFFICES ASSUME AnalysisCompleted \/ \E m \in Maps : MapConflict(m) PROVE FALSE
      OBVIOUS
    <2>1. pc = "write" /\ UNCHANGED copy
      BY DEF AnalysisCompleted, MapConflict, At, FailQuery, Finish
    <2>2. PrometheusOn(copy.gen)
      BY <2>1 DEF PrometheusOn
    <2> QED
      BY <1>1, <2>1, <2>2 DEF Patient
  <1>7. ~ (ReconcileLab \/ ReadAvailability \/ Query
             \/ (\E o \in Stack : ApplyPart(o)) \/ (\E m \in Maps : WriteMap(m)))
    <2>1. budget \in Nat
      BY DEF TypeOK
    <2> QED
      BY <2>1 DEF ReconcileLab, ReadAvailability, Query, ApplyPart, Applying, WriteMap, At,
                  Answered, AnswerLost, Disturb, Skip
  <1> QED
    BY <1>2, <1>3, <1>4, <1>5, <1>6, <1>7, StageMoves, NoConflict DEF Monitoring, Analyze

\* A worker that waits for Prometheus keeps doing so.
LEMMA PatientStep ==
    ~CacheLag /\ TypeOK /\ WorkerHasLab /\ budget <= MaxDisturbances /\ Patient /\ [Next]_vars
      => Patient' /\ budget' <= MaxDisturbances
  <1> SUFFICES ASSUME ~CacheLag, TypeOK, WorkerHasLab, budget <= MaxDisturbances, Patient,
                      [Next]_vars
               PROVE  Patient' /\ budget' <= MaxDisturbances
    OBVIOUS
  <1>1. budget \in Nat /\ MaxDisturbances \in Nat
    BY BoundAssumption DEF TypeOK
  <1>2. budget' <= MaxDisturbances
    BY <1>1, BudgetMoves
  <1>3. ASSUME budget' = MaxDisturbances PROVE Patient'
    <2>1. UNCHANGED budget /\ budget = MaxDisturbances
      BY <1>1, <1>3, BudgetMoves
    <2>2. pc' = "prometheus" => PrometheusSet \ left' \subseteq stack'
      BY <2>1, AppliedStep
    <2>3. (pc' = "grafana" /\ PrometheusOn(copy.gen)' /\ ready') => available'
      BY <2>1, ReadyStep
    <2>4. (pc' = "write" /\ PrometheusOn(copy.gen)') => available'
      BY <2>1, WritingStep
    <2>5. (pc' = "publish" /\ PrometheusOn(copy.gen)' /\ ~available') => next'.phase = "Running"
      BY <2>1, PublishingStep
    <2> QED
      BY <2>2, <2>3, <2>4, <2>5 DEF Patient, PrometheusSet
  <1>4. budget' # MaxDisturbances => Patient'
    BY DEF Patient
  <1> QED
    BY <1>2, <1>3, <1>4

-----------------------------------------------------------------------------
(* The theorems                                                              *)

\* The invariant behind the theorems below.
LEMMA SyncInvariance == ASSUME ~CacheLag PROVE Spec => []SyncInv
  <1>1. Init => SyncInv
    BY BoundAssumption DEF Init, SyncInv, LabInHand, InHand, Clean, Patient
  <1>2. IInv /\ SyncInv /\ [Next]_vars => SyncInv'
    BY LabInHandStep, CleanStep, PatientStep DEF IInv, SyncInv
  <1> QED
    BY <1>1, <1>2, Invariance, PTL DEF Spec

\* With caches that are not behind, a lab that is gone has left no report, though
\* calls failed, the manager restarted and a lab of the same name came and went.
THEOREM CleanedUp == ASSUME ~CacheLag PROVE Spec => []CleanedBeforeGone
  <1>1. SyncInv => CleanedBeforeGone
    BY DEF SyncInv, Clean, CleanedBeforeGone
  <1> QED
    BY <1>1, SyncInvariance, PTL

\* With caches that are not behind, and while nothing went wrong, a lab whose own
\* Prometheus is applied and not yet available is Running.
THEOREM PrometheusAwaited == ASSUME ~CacheLag PROVE Spec => WaitsForPrometheus
  <1>1. IInv /\ SyncInv /\ [Next]_vars =>
          [(/\ lab # NoLab /\ lab' # NoLab /\ lab'.status # lab.status
            /\ PrometheusOn(lab.gen) /\ PrometheusSet \subseteq stack /\ ~available
            /\ budget = MaxDisturbances)
             => lab'.status.phase = "Running"]_vars
    <2> SUFFICES ASSUME TypeOK, WorkerHasLab, Patient, [Next]_vars,
                        lab # NoLab, lab' # NoLab, lab'.status # lab.status,
                        PrometheusOn(lab.gen), ~available, budget = MaxDisturbances
                 PROVE  lab'.status.phase = "Running"
      BY DEF IInv, SyncInv
    <2>1. Publish /\ lab'.status = next
      BY LabOutcomes DEF CreateLab
    <2>2. pc = "publish" /\ lab = copy
      BY <2>1 DEF Publish, At
    <2> QED
      BY <2>1, <2>2 DEF Patient
  <1> QED
    BY <1>1, Invariance, SyncInvariance, PTL DEF WaitsForPrometheus, Spec
=============================================================================
