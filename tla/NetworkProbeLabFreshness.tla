---------------------- MODULE NetworkProbeLabFreshness ----------------------
(* More proofs about NetworkProbeLab: what the reconcile has in hand against   *)
(* what the API server has meanwhile.  FreshInv orders the versions of the lab *)
(* that are about, and follows the report ConfigMaps from their write to the   *)
(* status that names them; WakeInv says why a lab that still needs a reconcile *)
(* gets one; SyncInv is for reads that are never behind the API server         *)
(* (CacheLag is FALSE): what the design documents promise of cleanup, of whose *)
(* results a lab reports and of the phase Running holds then.  All are on top  *)
(* of IInv.                                                                    *)
EXTENDS NetworkProbeLabProofs

USE DEF worldVars, apiVars, cacheVars, queueVars, counters, localVars, vars, workerVars

-----------------------------------------------------------------------------
(* The versions of the lab                                                   *)

\* x is y, or an earlier state of it, or of an earlier lab of the same name.
Before(x, y) ==
    \/ x.inc < y.inc
    \/ x.inc = y.inc /\ x.gen <= y.gen /\ (x.deleting => y.deleting)

\* The worker's copy is no newer than the cache, the cache no newer than the API
\* server; a copy of a lab that the cache has seen go is of an earlier lab.
VersionsOrdered ==
    /\ lab # NoLab => lab.inc <= incarnation
    /\ labCache # NoLab => labCache.inc <= incarnation
    /\ copy # NoLab => copy.inc <= incarnation
    /\ (labCache # NoLab /\ lab # NoLab) => Before(labCache, lab)
    /\ (copy # NoLab /\ labCache # NoLab) => Before(copy, labCache)
    /\ (copy # NoLab /\ labCache = NoLab /\ lab # NoLab) => copy.inc < lab.inc

\* A lab that has a status was read for it: the cache and a worker that has it in
\* hand again show this lab, at the generation of the status or a later one.
StatusWasRead ==
    (lab # NoLab /\ lab.status.cond # "absent") =>
        /\ labCache # NoLab /\ labCache.inc = lab.inc /\ lab.status.gen <= labCache.gen
        /\ copy # NoLab => copy.inc = lab.inc /\ lab.status.gen <= copy.gen

\* The ConfigMaps that generation g asks for when these nodes were observed.
Wanted(g, nodes) ==
    {m \in Maps : \/ m \in nodes /\ "raw" \in Output[g]
                  \/ m = ExcelMap /\ "excel" \in Output[g]
                  \/ m = HtmlMap /\ "html" \in Output[g]}

\* The worker has written the ConfigMaps it has passed, and all that its spec asks
\* for when the run is completed.
MapsWritten ==
    /\ pc = "write" => \A m \in Wanted(copy.gen, observed) \ left :
                            maps[m] = [inc |-> copy.inc, gen |-> copy.gen]
    /\ (pc = "publish" /\ next.cond = "Completed") =>
           \A m \in Wanted(next.gen, next.nodes) :
                maps[m] = [inc |-> copy.inc, gen |-> copy.gen]

FreshInv == VersionsOrdered /\ StatusWasRead /\ MapsWritten /\ ReportsBehindStatus

-----------------------------------------------------------------------------
(* Who wakes the worker                                                      *)

\* Unless the key is queued again, the worker has in hand what the cache shows.
CopyCurrent ==
    /\ (pc # "idle" /\ ~queued) => copy = labCache
    /\ pc = "addFinalizer" => ~copy.finalizer

\* A lab whose latest version was seen and that nothing will queue is one that
\* was taken care of, or its Jobs run and the timer is set.
Attended ==
    (pc = "idle" /\ ~queued /\ labCache = lab /\ lab # NoLab) =>
        /\ ~lab.deleting /\ lab.status.gen = lab.gen
        /\ \/ lab.status.phase \in {"Succeeded", "Failed"}
           \/ lab.status.phase = "Running" /\ timer

WakeInv == CopyCurrent /\ Attended

-----------------------------------------------------------------------------
(* What a step is to the lab, its copies and its ConfigMaps                  *)

\* The steps that change the lab, the cache's version of it or the count of labs;
\* every other one leaves these alone.
LEMMA LabOrCacheMoves ==
    [Next]_vars => \/ UNCHANGED <<lab, labCache, incarnation>>
                   \/ AddFinalizer \/ RemoveFinalizer \/ Publish
                   \/ CreateLab \/ EditSpec \/ DeleteLab
                   \/ DeliverLab \/ Restart
  <1> SUFFICES ASSUME [Next]_vars, ~ AddFinalizer, ~ RemoveFinalizer, ~ Publish,
                      ~ CreateLab, ~ EditSpec, ~ DeleteLab, ~ DeliverLab, ~ Restart
               PROVE  UNCHANGED <<lab, labCache, incarnation>>
    OBVIOUS
  <1>1. CASE ChangeTargets \/ TimerFires \/ Resync \/ Deliver \/ UNCHANGED vars
               \/ \E n \in Nodes : JobExpires(n) \/ JobControl(n)
    BY <1>1 DEF ChangeTargets, TimerFires, Resync, Deliver, DeliverPods, DeliverJob,
                DeliverMap, JobExpires, JobControl, PodTerminates, JobSucceeds, JobFails,
                JobCollected
  <1>2. CASE Fault
    BY <1>2 DEF Fault, CallFails, JobCallFails, MapCallFails
  <1>3. CASE ProbeJobs
    BY <1>3 DEF ProbeJobs, CreateJob, CreateExists, AwaitDeletion, DeleteStaleJob,
                ReadReport, ReportUnreadable, SeeFailedJob, SeeActiveJob, JobsPending
  <1>4. CASE Export
    BY <1>4 DEF Export, CollectSnapshots, WriteMap, MapConflict, RunCompleted
  <1>5. CASE Cleanup
    BY <1>5 DEF Cleanup, ReconcileDeleted, DeleteListedJob, ListMaps, DeleteListedMap,
                CleanupDone
  <1>6. CASE ReconcileMissing \/ ReconcileNew \/ ReconcileLab \/ FinalizerConflict
                \/ ListTargets \/ NoTargets \/ PublishSame \/ PublishConflict
    BY <1>6 DEF ReconcileMissing, ReconcileNew, ReconcileLab, FinalizerConflict,
                ListTargets, NoTargets, PublishSame, PublishConflict
  <1> QED
    BY <1>1, <1>2, <1>3, <1>4, <1>5, <1>6 DEF Next, Reconcile, Outside

\* The worker's copy stays, is dropped when Reconcile returns, or is read from the
\* cache when it starts.
LEMMA CopyMoves ==
    [Next]_vars => UNCHANGED copy \/ copy' = NoLab \/ Starts
  <1> SUFFICES ASSUME [Next]_vars PROVE UNCHANGED copy \/ copy' = NoLab \/ Starts
    OBVIOUS
  <1>1. CASE UNCHANGED workerVars \/ Return \/ Cleans \/ ListTargets \/ CollectSnapshots
    BY <1>1 DEF Return, Cleans, ListTargets, CollectSnapshots
  <1>2. CASE (\E n \in Nodes : Passes(n) \/ ReadReport(n)) \/ \E m \in Maps : Wrote(m)
    BY <1>2 DEF Passes, ReadReport, Continue, Wrote, Skip
  <1>3. CASE EndsEmpty \/ EndsWithResults
    BY <1>3 DEF EndsEmpty, EndsWithResults, Finish
  <1> QED
    BY <1>1, <1>2, <1>3, WorkerMoves

\* The ConfigMaps are written by runs and deleted by cleanups, one at a time.
LEMMA MapMoves ==
    [Next]_vars => \/ UNCHANGED maps
                   \/ \E m \in Maps : WriteMap(m) \/ DeleteListedMap(m)
  <1> SUFFICES ASSUME [Next]_vars,
                      \A m \in Maps : ~ WriteMap(m) /\ ~ DeleteListedMap(m)
               PROVE  UNCHANGED maps
    OBVIOUS
  <1>1. CASE TimerFires \/ Resync \/ Deliver \/ UNCHANGED vars \/ Outside
               \/ \E n \in Nodes : JobControl(n)
    BY <1>1 DEF Outside, CreateLab, EditSpec, DeleteLab, ChangeTargets, TimerFires, Resync,
                Deliver, DeliverLab, DeliverPods, DeliverJob, DeliverMap, JobExpires,
                JobControl, PodTerminates, JobSucceeds, JobFails, JobCollected
  <1>2. CASE Fault
    BY <1>2 DEF Fault, CallFails, Restart, JobCallFails, MapCallFails
  <1>3. CASE ProbeJobs
    BY <1>3 DEF ProbeJobs, CreateJob, CreateExists, AwaitDeletion, DeleteStaleJob,
                ReadReport, ReportUnreadable, SeeFailedJob, SeeActiveJob, JobsPending
  <1>4. CASE Export
    BY <1>4 DEF Export, CollectSnapshots, MapConflict, RunCompleted
  <1>5. CASE Cleanup
    BY <1>5 DEF Cleanup, ReconcileDeleted, DeleteListedJob, ListMaps, CleanupDone,
                RemoveFinalizer
  <1>6. CASE ReconcileMissing \/ ReconcileNew \/ ReconcileLab \/ AddFinalizer
                \/ FinalizerConflict \/ ListTargets \/ NoTargets \/ PublishSame \/ Publish
                \/ PublishConflict
    BY <1>6 DEF ReconcileMissing, ReconcileNew, ReconcileLab, AddFinalizer,
                FinalizerConflict, ListTargets, NoTargets, PublishSame, Publish,
                PublishConflict
  <1> QED
    BY <1>1, <1>2, <1>3, <1>4, <1>5, <1>6 DEF Next, Reconcile

\* The two updates of the worker that keep the lab: what they write is the lab as
\* it was read, its identity, generation and deletion mark included.
LEMMA LabWritten ==
    ASSUME TypeOK, WorkerHasLab, AddFinalizer \/ Publish
    PROVE  /\ lab \in Lab /\ lab' \in Lab /\ lab = copy /\ lab # NoLab /\ lab' # NoLab
           /\ lab'.inc = lab.inc /\ lab'.gen = lab.gen /\ lab'.deleting = lab.deleting
           /\ copy' = NoLab /\ UNCHANGED <<labCache, incarnation>>
  <1>1. lab = copy /\ copy \in Lab /\ copy # NoLab /\ next \in Status
    BY DEF AddFinalizer, Publish, At, WorkerHasLab, TypeOK
  <1>2. lab' \in Lab /\ lab'.inc = lab.inc /\ lab'.gen = lab.gen
          /\ lab'.deleting = lab.deleting
    BY <1>1 DEF AddFinalizer, Publish, Lab
  <1>3. lab' # NoLab
    BY <1>2, AbsenceAssumption
  <1> QED
    BY <1>1, <1>2, <1>3 DEF AddFinalizer, Publish, Return, Answered, AnswerLost, ReturnError

\* A new lab is the next one, at its first generation and without a status.
LEMMA LabCreated ==
    ASSUME TypeOK, CreateLab
    PROVE  /\ lab = NoLab /\ lab' \in Lab /\ lab' # NoLab
           /\ lab'.inc = incarnation + 1 /\ incarnation' = incarnation + 1
           /\ lab'.status = NoStatus /\ UNCHANGED <<labCache, copy, pc, queued>>
  <1>1. lab' \in Lab
    BY NoStatusType, BoundAssumption DEF CreateLab, TypeOK, Lab
  <1> QED
    BY <1>1, AbsenceAssumption DEF CreateLab

\* An edit makes the next generation of the same lab.
LEMMA LabEdited ==
    ASSUME TypeOK, EditSpec
    PROVE  /\ lab \in Lab /\ lab' \in Lab /\ lab # NoLab /\ lab' # NoLab
           /\ lab'.inc = lab.inc /\ lab'.gen = lab.gen + 1
           /\ lab'.deleting = lab.deleting /\ lab'.status = lab.status
           /\ lab'.finalizer = lab.finalizer
           /\ UNCHANGED <<labCache, copy, incarnation, pc, queued>>
  <1>1. lab \in Lab /\ lab # NoLab /\ lab.gen \in 1..MaxGeneration
    BY DEF EditSpec, TypeOK, Lab
  <1>2. lab' = [lab EXCEPT !.gen = @ + 1] /\ lab.gen + 1 \in 1..MaxGeneration
    BY <1>1, BoundAssumption DEF EditSpec
  <1>3. lab' \in Lab
    BY <1>1, <1>2 DEF Lab
  <1> QED
    BY <1>1, <1>2, <1>3, AbsenceAssumption DEF EditSpec, Lab

\* Deleting marks the lab, or removes it when nothing holds it.
LEMMA LabDeleted ==
    ASSUME TypeOK, DeleteLab
    PROVE  /\ lab \in Lab /\ lab # NoLab /\ ~lab.deleting
           /\ UNCHANGED <<labCache, copy, incarnation, pc, queued>>
           /\ \/ lab' = NoLab /\ ~lab.finalizer
              \/ /\ lab' \in Lab /\ lab' # NoLab /\ lab'.inc = lab.inc
                 /\ lab'.gen = lab.gen /\ lab'.deleting /\ lab'.status = lab.status
                 /\ lab'.finalizer = lab.finalizer
  <1>1. lab \in Lab /\ lab # NoLab /\ ~lab.deleting
    BY DEF DeleteLab, TypeOK
  <1>2. CASE lab' = [lab EXCEPT !.deleting = TRUE]
    <2>1. lab' \in Lab
      BY <1>1, <1>2 DEF Lab
    <2>2. /\ lab'.inc = lab.inc /\ lab'.gen = lab.gen /\ lab'.deleting
          /\ lab'.status = lab.status /\ lab'.finalizer = lab.finalizer
      BY <1>1, <1>2 DEF Lab
    <2> QED
      BY <1>1, <2>1, <2>2, AbsenceAssumption DEF DeleteLab
  <1> QED
    BY <1>1, <1>2 DEF DeleteLab

-----------------------------------------------------------------------------
(* Versions                                                                  *)

\* The order of versions is reflexive and transitive.
LEMMA BeforeOrders ==
    /\ \A x \in Lab : Before(x, x)
    /\ \A x, y, z \in Lab : Before(x, y) /\ Before(y, z) => Before(x, z)
  <1>1. \A x \in Lab : x.inc \in Nat /\ x.gen \in Nat
    BY BoundAssumption DEF Lab
  <1> QED
    BY <1>1 DEF Before

\* Versions as numbers.
LEMMA VersionTypes ==
    TypeOK => /\ incarnation \in Nat
              /\ lab # NoLab => lab \in Lab /\ lab.inc \in Nat /\ lab.gen \in Nat
              /\ labCache # NoLab => labCache \in Lab /\ labCache.inc \in Nat /\ labCache.gen \in Nat
              /\ copy # NoLab => copy \in Lab /\ copy.inc \in Nat /\ copy.gen \in Nat
  BY BoundAssumption DEF TypeOK, Lab

\* The copy the worker holds is no newer than the API server's lab.
LEMMA CopyBeforeLab ==
    ASSUME TypeOK, VersionsOrdered, copy # NoLab, lab # NoLab
    PROVE  Before(copy, lab)
  <1>1. CASE labCache = NoLab
    BY <1>1 DEF VersionsOrdered, Before
  <1>2. CASE labCache # NoLab
    BY <1>2, BeforeOrders, VersionTypes DEF VersionsOrdered
  <1> QED
    BY <1>1, <1>2

\* The order of the versions is kept by writes, edits, deletions, new labs of the
\* same name, watch events however late, and restarts.
LEMMA VersionsOrderedStep ==
    TypeOK /\ WorkerHasLab /\ VersionsOrdered /\ [Next]_vars => VersionsOrdered'
  <1> SUFFICES ASSUME TypeOK, WorkerHasLab, VersionsOrdered, [Next]_vars
               PROVE  VersionsOrdered'
    OBVIOUS
  <1> USE VersionTypes
  <1>1. CASE UNCHANGED <<lab, labCache, incarnation>>
    <2>1. CASE UNCHANGED copy
      BY <1>1, <2>1 DEF VersionsOrdered, Before
    <2>2. CASE copy' = NoLab
      BY <1>1, <2>2 DEF VersionsOrdered, Before
    <2>3. CASE Starts
      BY <1>1, <2>3, BeforeOrders DEF Starts, VersionsOrdered, Before
    <2> QED
      BY <2>1, <2>2, <2>3, CopyMoves
  <1>2. CASE AddFinalizer \/ Publish
    BY <1>2, LabWritten DEF VersionsOrdered, Before
  <1>3. CASE RemoveFinalizer
    BY <1>3 DEF RemoveFinalizer, Return, VersionsOrdered, Answered, AnswerLost, ReturnError
  <1>4. CASE CreateLab
    BY <1>4, LabCreated DEF VersionsOrdered, Before
  <1>5. CASE EditSpec
    BY <1>5, LabEdited DEF VersionsOrdered, Before
  <1>6. CASE DeleteLab
    BY <1>6, LabDeleted DEF VersionsOrdered, Before
  <1>7. CASE DeliverLab
    <2>1. labCache' = lab /\ UNCHANGED <<lab, copy, incarnation>>
      BY <1>7 DEF DeliverLab
    <2> QED
      BY <2>1, CopyBeforeLab, BeforeOrders DEF VersionsOrdered, Before
  <1>8. CASE Restart
    BY <1>8, BeforeOrders DEF Restart, Return, VersionsOrdered, Before
  <1> QED
    BY <1>1, <1>2, <1>3, <1>4, <1>5, <1>6, <1>7, <1>8, LabOrCacheMoves

\* The status update leaves a lab whose status is the worker's.
LEMMA LabPublished ==
    ASSUME TypeOK, WorkerHasLab, WorkerStatus, Publish
    PROVE  lab'.status = next /\ next.gen = lab.gen /\ pc = "publish" /\ next # copy.status
  <1>1. lab = copy /\ copy \in Lab /\ pc = "publish" /\ copy # NoLab
    BY DEF Publish, At, WorkerHasLab, TypeOK
  <1>2. lab'.status = next
    BY <1>1 DEF Publish, Lab
  <1>3. next # copy.status
    BY <1>1 DEF Publish, DeepEqual, Lab, Status
  <1> QED
    BY <1>1, <1>2, <1>3 DEF WorkerStatus

\* The update of the finalizer leaves the status alone.
LEMMA FinalizerAdded ==
    ASSUME TypeOK, WorkerHasLab, AddFinalizer
    PROVE  lab'.status = lab.status /\ lab'.finalizer = TRUE /\ pc = "addFinalizer"
  BY DEF AddFinalizer, At, WorkerHasLab, TypeOK, Lab

\* A status is written only where it was read, and the cache then shows the lab it
\* was read from: no later worker can have an older one in hand.
LEMMA StatusWasReadStep ==
    TypeOK /\ WorkerHasLab /\ WorkerStatus /\ VersionsOrdered /\ StatusWasRead
      /\ [Next]_vars => StatusWasRead'
  <1> SUFFICES ASSUME TypeOK, WorkerHasLab, WorkerStatus, VersionsOrdered, StatusWasRead,
                      [Next]_vars
               PROVE  StatusWasRead'
    OBVIOUS
  <1> USE VersionTypes
  <1>1. CASE UNCHANGED <<lab, labCache, incarnation>>
    BY <1>1, CopyMoves DEF Starts, StatusWasRead
  <1>2. CASE AddFinalizer
    BY <1>2, LabWritten, FinalizerAdded DEF StatusWasRead
  <1>3. CASE Publish
    <2>1. labCache # NoLab
      BY <1>3, LabWritten DEF VersionsOrdered
    <2>2. Before(copy, labCache) /\ Before(labCache, copy)
      BY <1>3, <2>1, LabWritten DEF VersionsOrdered
    <2>3. labCache.inc = lab.inc /\ lab.gen <= labCache.gen
      BY <1>3, <2>1, <2>2, LabWritten DEF Before
    <2> QED
      BY <1>3, <2>1, <2>3, LabWritten, LabPublished DEF StatusWasRead
  <1>4. CASE RemoveFinalizer
    BY <1>4 DEF RemoveFinalizer, StatusWasRead
  <1>5. CASE CreateLab
    BY <1>5, LabCreated DEF StatusWasRead, NoStatus
  <1>6. CASE EditSpec
    BY <1>6, LabEdited DEF StatusWasRead
  <1>7. CASE DeleteLab
    BY <1>7, LabDeleted DEF StatusWasRead
  <1>8. CASE DeliverLab \/ Restart
    <2>1. labCache' = lab /\ UNCHANGED lab /\ (UNCHANGED copy \/ copy' = NoLab)
      BY <1>8 DEF DeliverLab, Restart, Return
    <2>2. ASSUME lab # NoLab, lab.status.cond # "absent"
          PROVE  lab.status.gen <= lab.gen
      <3>1. labCache # NoLab /\ labCache.inc = lab.inc /\ lab.status.gen <= labCache.gen
        BY <2>2 DEF StatusWasRead
      <3>2. labCache.gen <= lab.gen
        BY <2>2, <3>1 DEF VersionsOrdered, Before
      <3>3. lab.status.gen \in Nat
        BY <2>2 DEF TypeOK, Lab, Status
      <3> QED
        BY <2>2, <3>1, <3>2, <3>3
    <2> QED
      BY <2>1, <2>2 DEF StatusWasRead
  <1> QED
    BY <1>1, <1>2, <1>3, <1>4, <1>5, <1>6, <1>7, <1>8, LabOrCacheMoves

-----------------------------------------------------------------------------
(* The report ConfigMaps                                                     *)

\* The status a run ends in carries the reason it ended for.
LEMMA FinishCond ==
    ASSUME NEW phase, NEW cond, NEW total, NEW results, NEW nodes,
           Finish(phase, cond, total, results, nodes)
    PROVE  next'.cond = cond
  BY DEF Finish, NextStatus

\* A run is called completed in one place only, with every ConfigMap written.
LEMMA OnlyRunCompletedCompletes ==
    ASSUME [Next]_vars, pc' = "publish", pc # "publish", ~ RunCompleted
    PROVE  next'.cond # "Completed"
  <1>1. ~ UNCHANGED workerVars /\ ~ Return
    BY DEF Return
  <1>2. ~ (Outside \/ Deliver \/ (\E n \in Nodes : JobControl(n)) \/ TimerFires \/ Resync)
    BY <1>1 DEF Outside, Deliver, JobControl, CreateLab, EditSpec, DeleteLab, ChangeTargets,
                JobExpires, DeliverLab, DeliverPods, DeliverJob, DeliverMap, PodTerminates,
                JobSucceeds, JobFails, JobCollected, TimerFires, Resync
  <1>3. ~ (CallFails \/ Restart \/ AddFinalizer \/ FinalizerConflict \/ RemoveFinalizer
             \/ PublishSame \/ Publish \/ PublishConflict \/ ReconcileMissing)
    BY <1>1 DEF CallFails, Restart, AddFinalizer, FinalizerConflict, RemoveFinalizer,
                PublishSame, Publish, PublishConflict, ReturnError, ReconcileMissing,
                Answered, AnswerLost, Return
  <1>4. ~ (ReconcileNew \/ ReconcileLab \/ ReconcileDeleted \/ ListTargets
             \/ CollectSnapshots \/ ListMaps \/ CleanupDone)
    BY DEF ReconcileNew, ReconcileLab, ReconcileDeleted, ListTargets, CollectSnapshots,
           ListMaps, CleanupDone
  <1>5. ~ ((\E n \in Nodes : DeleteListedJob(n) \/ AwaitDeletion(n) \/ ReadReport(n)
                             \/ SeeActiveJob(n))
             \/ (\E m \in Maps : DeleteListedMap(m)))
    BY <1>1 DEF DeleteListedJob, AwaitDeletion, ReadReport, SeeActiveJob, Continue,
                DeleteListedMap, Answered, AnswerLost, ReturnError, Skip
  <1>6. ASSUME NEW n \in Nodes,
               CreateExists(n) \/ ReportUnreadable(n) \/ SeeFailedJob(n) \/ JobCallFails(n)
        PROVE  next'.cond # "Completed"
    BY <1>6, FinishCond DEF CreateExists, ReportUnreadable, SeeFailedJob, JobCallFails, FailRun
  <1>9. ASSUME NEW n \in Nodes, CreateJob(n) \/ DeleteStaleJob(n)
        PROVE  next'.cond # "Completed"
    <2>1. ~ Continue(n, TRUE, {})
      BY DEF Continue
    <2>2. FailRun("CreateFailed") \/ FailRun("DeleteFailed")
      BY <1>9, <2>1 DEF CreateJob, DeleteStaleJob, Answered, AnswerLost
    <2> QED
      BY <2>2, FinishCond DEF FailRun
  <1>7. ASSUME NEW m \in Maps, WriteMap(m) \/ MapConflict(m) \/ MapCallFails(m)
        PROVE  next'.cond # "Completed"
    <2>1. ~ Skip(m)
      BY DEF Skip
    <2>2. FailWrite(m)
      BY <1>7, <2>1 DEF WriteMap, MapConflict, MapCallFails, Answered, AnswerLost
    <2> QED
      BY <2>2, FinishCond DEF FailWrite, FailRun
  <1>8. CASE NoTargets \/ JobsPending
    BY <1>8, FinishCond DEF NoTargets, JobsPending
  <1> QED
    BY <1>1, <1>2, <1>3, <1>4, <1>5, <1>6, <1>7, <1>8, <1>9
    DEF Next, Reconcile, Cleanup, ProbeJobs, Export, Fault

\* The worker writes the ConfigMaps before the status that names them.
LEMMA MapsWrittenStep ==
    TypeOK /\ WorkerHasLab /\ WorkerStatus /\ MapsWritten /\ [Next]_vars => MapsWritten'
  <1> SUFFICES ASSUME TypeOK, WorkerHasLab, WorkerStatus, MapsWritten, [Next]_vars
               PROVE  MapsWritten'
    OBVIOUS
  <1>1. CASE \E m \in Maps : Wrote(m)
    <2>1. PICK m \in Maps : Wrote(m)
      BY <1>1
    <2>2. /\ pc = "write" /\ pc' = "write" /\ left' = left \ {m}
          /\ maps' = [maps EXCEPT ![m] = [inc |-> copy.inc, gen |-> copy.gen]]
          /\ UNCHANGED <<copy, observed>>
      BY <2>1 DEF Wrote, Skip, WriteMap, At
    <2>3. \A x \in Maps : maps'[x] = IF x = m THEN [inc |-> copy.inc, gen |-> copy.gen]
                                              ELSE maps[x]
      BY <2>2 DEF TypeOK
    <2>4. Wanted(copy.gen, observed)' = Wanted(copy.gen, observed)
      BY <2>2 DEF Wanted
    <2>5. Wanted(copy.gen, observed) \subseteq Maps
      BY DEF Wanted
    <2> QED
      BY <2>2, <2>3, <2>4, <2>5 DEF MapsWritten
  <1>2. CASE \E m \in Maps : DeleteListedMap(m)
    BY <1>2 DEF DeleteListedMap, Answered, AnswerLost, ReturnError, Return, Skip, At, MapsWritten
  <1>4. ASSUME NEW m \in Maps, WriteMap(m), ~ Wrote(m)
        PROVE  MapsWritten'
    <2>1. FailWrite(m)
      BY <1>4 DEF WriteMap, Answered, AnswerLost, Wrote
    <2>2. pc' = "publish"
      BY <2>1 DEF FailWrite, FailRun, Finish
    <2>3. next'.cond = "MapFailed"
      BY <2>1, FinishCond DEF FailWrite, FailRun
    <2> QED
      BY <2>2, <2>3 DEF MapsWritten
  <1>3. CASE UNCHANGED maps /\ ~ \E m \in Maps : WriteMap(m)
    <2>1. CASE UNCHANGED workerVars
      BY <1>3, <2>1 DEF MapsWritten, Wanted
    <2>2. CASE Return \/ Starts \/ Cleans \/ ListTargets
      BY <2>2 DEF Return, Starts, Cleans, ListTargets, MapsWritten
    <2>3. CASE \E n \in Nodes : Passes(n) \/ ReadReport(n)
      BY <2>3 DEF Passes, ReadReport, UsableJob, Visit, At, Continue, MapsWritten
    <2>4. CASE CollectSnapshots
      <3>1. pc' = "write" /\ copy' = copy
        BY <2>4 DEF CollectSnapshots
      <3>2. Wanted(copy.gen, observed)' \subseteq left'
        BY <2>4, <3>1 DEF CollectSnapshots, Wanted
      <3> QED
        BY <3>1, <3>2 DEF MapsWritten
    <2>5. CASE EndsEmpty \/ EndsWithResults
      <3>1. pc' = "publish" /\ pc # "publish"
        BY <2>5 DEF EndsEmpty, EndsWithResults, Finish
      <3>2. CASE next'.cond # "Completed"
        BY <3>1, <3>2 DEF MapsWritten
      <3>3. CASE RunCompleted
        <4>1. /\ next'.gen = copy.gen /\ next'.nodes = observed /\ copy' = copy
              /\ pc = "write" /\ left = {}
          BY <3>3 DEF RunCompleted, Finish, NextStatus, At
        <4>2. Wanted(next.gen, next.nodes)' = Wanted(copy.gen, observed) \ left
          BY <4>1 DEF Wanted
        <4> QED
          BY <1>3, <3>1, <4>1, <4>2 DEF MapsWritten
      <3> QED
        BY <3>1, <3>2, <3>3, OnlyRunCompletedCompletes
    <2> QED
      BY <1>3, <2>1, <2>2, <2>3, <2>4, <2>5, WorkerMoves DEF Wrote
  <1> QED
    BY <1>1, <1>2, <1>3, <1>4, MapMoves

\* A cleanup works on a lab that is being deleted: the lab it names has no other
\* version in which it is not.
LEMMA CleanupOfDeleted ==
    ASSUME TypeOK, WorkerHasLab, VersionsOrdered, StatusWasRead, lab # NoLab,
           lab.status.cond # "absent",
           pc \in {"deleteJobs", "deleteMaps", "removeFinalizer"}
    PROVE  lab.deleting
  <1>1. copy # NoLab /\ copy.deleting
    BY DEF WorkerHasLab
  <1>2. copy.inc = lab.inc
    BY <1>1 DEF StatusWasRead
  <1>3. Before(copy, lab)
    BY <1>1, CopyBeforeLab
  <1> QED
    BY <1>1, <1>2, <1>3, VersionTypes DEF Before

\* The reports a completed status names stay there until the lab is deleted, whoever
\* writes them again.
LEMMA ReportsBehindStatusStep ==
    TypeOK /\ WorkerHasLab /\ WorkerStatus /\ FreshInv /\ [Next]_vars => ReportsBehindStatus'
  <1> SUFFICES ASSUME TypeOK, WorkerHasLab, WorkerStatus, FreshInv, [Next]_vars,
                      lab' # NoLab, ~lab'.deleting, lab'.status.cond = "Completed",
                      NEW m \in Wanted(lab'.status.gen, lab'.status.nodes)
               PROVE  maps'[m].inc = lab'.inc /\ maps'[m].gen >= lab'.status.gen
    BY DEF ReportsBehindStatus, Wanted
  <1>0. m \in Maps
    BY DEF Wanted
  <1>1. CASE Publish
    <2>1. /\ lab'.status = next /\ next.gen = lab.gen /\ pc = "publish"
          /\ lab = copy /\ lab'.inc = lab.inc
      BY <1>1, LabPublished, LabWritten
    <2>2. maps' = maps
      BY <1>1 DEF Publish
    <2>3. maps[m] = [inc |-> copy.inc, gen |-> copy.gen]
      BY <2>1 DEF FreshInv, MapsWritten
    <2>4. copy.gen \in Nat
      BY <1>1, <2>1, LabWritten, VersionTypes
    <2> QED
      BY <2>1, <2>2, <2>3, <2>4
  <1>2. CASE CreateLab
    BY <1>2, LabCreated DEF NoStatus
  <1>3. CASE ~ Publish /\ ~ CreateLab
    <2>1. lab # NoLab /\ lab.inc = lab'.inc /\ lab.status = lab'.status /\ ~lab.deleting
      <3>1. CASE UNCHANGED lab
        BY <3>1
      <3>2. CASE AddFinalizer
        BY <3>2, LabWritten, FinalizerAdded
      <3>3. CASE RemoveFinalizer
        BY <3>3 DEF RemoveFinalizer
      <3>4. CASE EditSpec \/ DeleteLab
        BY <3>4, LabEdited, LabDeleted
      <3> QED
        BY <1>3, <3>1, <3>2, <3>3, <3>4, LabMoves
    <2>2. maps[m].inc = lab.inc /\ maps[m].gen >= lab.status.gen
      BY <1>0, <2>1 DEF FreshInv, ReportsBehindStatus, Wanted
    <2>3. CASE UNCHANGED maps
      BY <2>1, <2>2, <2>3
    <2>4. ASSUME NEW x \in Maps, DeleteListedMap(x)
          PROVE  FALSE
      BY <2>1, <2>4, CleanupOfDeleted DEF DeleteListedMap, At, FreshInv
    <2>5. ASSUME NEW x \in Maps, WriteMap(x)
          PROVE  maps'[m].inc = lab.inc /\ maps'[m].gen >= lab.status.gen
      <3>1. copy # NoLab
        BY <2>5 DEF WriteMap, At, WorkerHasLab
      <3>2. copy.inc = lab.inc /\ lab.status.gen <= copy.gen
        BY <2>1, <3>1 DEF FreshInv, StatusWasRead
      <3>3. maps'[m] = IF m = x THEN [inc |-> copy.inc, gen |-> copy.gen] ELSE maps[m]
        BY <1>0, <2>5 DEF WriteMap, TypeOK
      <3>4. copy.gen \in Nat /\ lab.status.gen \in Nat
        BY <2>1, <3>1, VersionTypes DEF Lab, Status
      <3> QED
        BY <2>2, <3>2, <3>3, <3>4
    <2> QED
      BY <2>1, <2>3, <2>4, <2>5, MapMoves
  <1> QED
    BY <1>1, <1>2, <1>3

\* The invariant behind ReportsBehindStatus.
LEMMA FreshInvariance == Spec => []FreshInv
  <1>1. Init => FreshInv
    BY DEF Init, FreshInv, VersionsOrdered, StatusWasRead, MapsWritten, ReportsBehindStatus
  <1>2. IInv /\ FreshInv /\ [Next]_vars => FreshInv'
    BY VersionsOrderedStep, StatusWasReadStep, MapsWrittenStep, ReportsBehindStatusStep
    DEF IInv, FreshInv
  <1> QED
    BY <1>1, <1>2, Invariance, PTL DEF Spec

\* The ConfigMaps that a completed status names exist, written for this lab and this
\* generation or a later one: however old the caches, whatever breaks off a run, and
\* whichever earlier lab of the name left its own behind.
THEOREM ReportsBeforeStatus == Spec => []ReportsBehindStatus
  <1>1. FreshInv => ReportsBehindStatus
    BY DEF FreshInv
  <1> QED
    BY <1>1, FreshInvariance, PTL

-----------------------------------------------------------------------------
(* Who wakes the worker                                                      *)

\* The key leaves the queue only when a reconcile begins, and a reconcile that
\* begins has in hand what the cache shows.
LEMMA QueueMoves ==
    [Next]_vars => \/ queued'
                   \/ UNCHANGED queued
                   \/ Restart /\ lab = NoLab
                   \/ ReconcileMissing
                   \/ Starts /\ UNCHANGED <<lab, labCache>>
  <1> SUFFICES ASSUME [Next]_vars, ~ queued', ~ UNCHANGED queued, ~ ReconcileMissing
               PROVE  \/ Restart /\ lab = NoLab
                      \/ Starts /\ UNCHANGED <<lab, labCache>>
    OBVIOUS
  <1>1. ~ (Outside \/ Deliver \/ (\E n \in Nodes : JobControl(n)) \/ TimerFires \/ Resync)
    BY DEF Outside, Deliver, JobControl, CreateLab, EditSpec, DeleteLab, ChangeTargets,
           JobExpires, DeliverLab, DeliverPods, DeliverJob, DeliverMap, PodTerminates,
           JobSucceeds, JobFails, JobCollected, TimerFires, Resync
  <1>2. CASE Fault
    <2>1. ~ CallFails /\ (\A n \in Nodes : ~ JobCallFails(n)) /\ (\A m \in Maps : ~ MapCallFails(m))
      BY DEF CallFails, ReturnError, JobCallFails, MapCallFails
    <2>2. Restart
      BY <1>2, <2>1 DEF Fault
    <2>3. queued' = (lab # NoLab)
      BY <2>2 DEF Restart
    <2>4. CASE lab # NoLab
      BY <2>3, <2>4
    <2> QED
      BY <2>2, <2>4
  <1>3. ~ ProbeJobs
    BY DEF ProbeJobs, CreateJob, CreateExists, AwaitDeletion, DeleteStaleJob,
           ReadReport, ReportUnreadable, SeeFailedJob, SeeActiveJob, JobsPending
  <1>4. ~ Export
    BY DEF Export, CollectSnapshots, WriteMap, MapConflict, RunCompleted
  <1>5. CASE Cleanup
    BY <1>5 DEF Cleanup, ReconcileDeleted, DeleteListedJob, ListMaps, DeleteListedMap,
                CleanupDone, RemoveFinalizer, Begin, At, Starts, Answered, AnswerLost,
                ReturnError, Skip
  <1>6. CASE ReconcileNew \/ ReconcileLab
    BY <1>6 DEF ReconcileNew, ReconcileLab, Begin, At, Starts
  <1>7. ~ (AddFinalizer \/ FinalizerConflict \/ ListTargets \/ NoTargets \/ PublishSame
             \/ Publish \/ PublishConflict)
    BY DEF AddFinalizer, FinalizerConflict, ListTargets, NoTargets, PublishSame, Publish,
           PublishConflict, ReturnError, Answered, AnswerLost
  <1> QED
    BY <1>1, <1>2, <1>3, <1>4, <1>5, <1>6, <1>7 DEF Next, Reconcile

\* A reconcile begins on a lab without its finalizer, on a lab to run, or on one
\* being deleted.
LEMMA OnlyReconcileStarts ==
    [Next]_vars /\ pc = "idle" /\ pc' # "idle" =>
        ReconcileNew \/ ReconcileLab \/ ReconcileDeleted
  <1> SUFFICES ASSUME [Next]_vars, pc = "idle", pc' # "idle"
               PROVE  ReconcileNew \/ ReconcileLab \/ ReconcileDeleted
    OBVIOUS
  <1>1. ~ UNCHANGED workerVars /\ ~ Return
    BY DEF Return
  <1>2. ~ (Outside \/ Deliver \/ (\E n \in Nodes : JobControl(n)) \/ TimerFires \/ Resync)
    BY <1>1 DEF Outside, Deliver, JobControl, CreateLab, EditSpec, DeleteLab, ChangeTargets,
                JobExpires, DeliverLab, DeliverPods, DeliverJob, DeliverMap, PodTerminates,
                JobSucceeds, JobFails, JobCollected, TimerFires, Resync
  <1>3. ~ Fault
    BY <1>1 DEF Fault, CallFails, Restart, JobCallFails, MapCallFails, ReturnError, Visit, At
  <1>4. ~ ProbeJobs
    BY DEF ProbeJobs, CreateJob, CreateExists, AwaitDeletion, DeleteStaleJob, ReadReport,
           ReportUnreadable, SeeFailedJob, SeeActiveJob, JobsPending, UsableJob, Visit, At
  <1>5. ~ Export
    BY DEF Export, CollectSnapshots, WriteMap, MapConflict, RunCompleted, At
  <1>6. ~ (ReconcileMissing \/ AddFinalizer \/ FinalizerConflict \/ ListTargets \/ NoTargets
             \/ PublishSame \/ Publish \/ PublishConflict)
    BY DEF ReconcileMissing, AddFinalizer, FinalizerConflict, ListTargets, NoTargets,
           PublishSame, Publish, PublishConflict, At
  <1> QED
    BY <1>1, <1>2, <1>3, <1>4, <1>5, <1>6
    DEF Next, Reconcile, Cleanup, DeleteListedJob, ListMaps, DeleteListedMap, CleanupDone,
        RemoveFinalizer, At

\* The timer is set when a status is published and cleared when it fires.
LEMMA TimerMoves ==
    [Next]_vars => UNCHANGED timer \/ PublishSame \/ Publish \/ TimerFires \/ Restart
  <1> SUFFICES ASSUME [Next]_vars, ~ UNCHANGED timer, ~ PublishSame, ~ Publish,
                      ~ TimerFires, ~ Restart
               PROVE  FALSE
    OBVIOUS
  <1>1. ~ (Outside \/ Deliver \/ (\E n \in Nodes : JobControl(n)) \/ Resync)
    BY DEF Outside, Deliver, JobControl, CreateLab, EditSpec, DeleteLab, ChangeTargets,
           JobExpires, DeliverLab, DeliverPods, DeliverJob, DeliverMap, PodTerminates,
           JobSucceeds, JobFails, JobCollected, Resync
  <1>2. ~ Fault
    BY DEF Fault, CallFails, JobCallFails, MapCallFails, ReturnError
  <1>3. ~ ProbeJobs
    BY DEF ProbeJobs, CreateJob, CreateExists, AwaitDeletion, DeleteStaleJob, ReadReport,
           ReportUnreadable, SeeFailedJob, SeeActiveJob, JobsPending
  <1>4. ~ Export
    BY DEF Export, CollectSnapshots, WriteMap, MapConflict, RunCompleted
  <1>5. ~ Cleanup
    BY DEF Cleanup, ReconcileDeleted, DeleteListedJob, ListMaps, DeleteListedMap,
           CleanupDone, RemoveFinalizer, Begin, Answered, AnswerLost, ReturnError, Skip
  <1>6. ~ (ReconcileMissing \/ ReconcileNew \/ ReconcileLab \/ AddFinalizer
             \/ FinalizerConflict \/ ListTargets \/ NoTargets \/ PublishConflict)
    BY DEF ReconcileMissing, ReconcileNew, ReconcileLab, AddFinalizer, FinalizerConflict,
           ListTargets, NoTargets, PublishConflict, ReturnError, Begin, Answered, AnswerLost
  <1> QED
    BY <1>1, <1>2, <1>3, <1>4, <1>5, <1>6 DEF Next, Reconcile

\* Reconcile returns without an error only when it has nothing to publish, or has
\* written the lab; the manager's death ends it, too.
LEMMA Returns ==
    [Next]_vars /\ pc # "idle" /\ pc' = "idle" /\ ~queued' =>
        PublishSame \/ Publish \/ AddFinalizer \/ RemoveFinalizer \/ Restart
  <1> SUFFICES ASSUME [Next]_vars, pc # "idle", pc' = "idle", ~queued', ~ PublishSame,
                      ~ Publish, ~ AddFinalizer, ~ RemoveFinalizer, ~ Restart
               PROVE  FALSE
    OBVIOUS
  <1>1. ~ (Outside \/ Deliver \/ (\E n \in Nodes : JobControl(n)) \/ TimerFires \/ Resync)
    BY DEF Outside, Deliver, JobControl, CreateLab, EditSpec, DeleteLab, ChangeTargets,
           JobExpires, DeliverLab, DeliverPods, DeliverJob, DeliverMap, PodTerminates,
           JobSucceeds, JobFails, JobCollected, TimerFires, Resync
  <1>2. ASSUME NEW cond, FailRun(cond)
        PROVE  FALSE
    BY <1>2 DEF FailRun, Finish
  <1>3. ~ Fault
    <2>1. ~ CallFails
      BY DEF CallFails, ReturnError
    <2>2. \A n \in Nodes : ~ JobCallFails(n)
      BY <1>2 DEF JobCallFails
    <2>3. \A m \in Maps : ~ MapCallFails(m)
      BY <1>2 DEF MapCallFails, FailWrite, Finish
    <2> QED
      BY <2>1, <2>2, <2>3 DEF Fault
  <1>4. ~ ProbeJobs
    BY <1>2 DEF ProbeJobs, CreateJob, CreateExists, AwaitDeletion, DeleteStaleJob,
                ReadReport, ReportUnreadable, SeeFailedJob, SeeActiveJob, JobsPending,
                Continue, Finish, Answered, AnswerLost, FailRun
  <1>5. ~ Export
    BY <1>2 DEF Export, CollectSnapshots, WriteMap, MapConflict, FailWrite, RunCompleted,
                Finish, Answered, AnswerLost, Skip, FailRun
  <1>6. ~ Cleanup
    BY DEF Cleanup, ReconcileDeleted, DeleteListedJob, ListMaps, DeleteListedMap,
           CleanupDone, Answered, AnswerLost, ReturnError, Skip
  <1>7. ~ (ReconcileMissing \/ ReconcileNew \/ ReconcileLab \/ FinalizerConflict
             \/ ListTargets \/ NoTargets \/ PublishConflict)
    BY DEF ReconcileMissing, ReconcileNew, ReconcileLab, FinalizerConflict, ListTargets,
           NoTargets, PublishConflict, ReturnError, Finish
  <1> QED
    BY <1>1, <1>3, <1>4, <1>5, <1>6, <1>7 DEF Next, Reconcile

\* A reconcile that is under way was begun by this step or was under way before,
\* on the same copy.
LEMMA PcMoves ==
    [Next]_vars /\ pc' # "idle" => Starts \/ (pc # "idle" /\ UNCHANGED copy)
  <1> SUFFICES ASSUME [Next]_vars, pc' # "idle", ~ Starts
               PROVE  pc # "idle" /\ UNCHANGED copy
    OBVIOUS
  <1>1. CASE UNCHANGED workerVars \/ Return \/ Cleans \/ ListTargets \/ CollectSnapshots
    BY <1>1 DEF Return, Cleans, ListTargets, CollectSnapshots, At
  <1>2. CASE (\E n \in Nodes : Passes(n) \/ ReadReport(n)) \/ \E m \in Maps : Wrote(m)
    BY <1>2 DEF Passes, ReadReport, UsableJob, Visit, At, Continue, Wrote, WriteMap, Skip
  <1>3. CASE EndsEmpty \/ EndsWithResults
    BY <1>3 DEF EndsEmpty, EndsWithResults, Finish
  <1> QED
    BY <1>1, <1>2, <1>3, WorkerMoves

\* The finalizer is added only to a lab that was read without it.
LEMMA FinalizerMissing ==
    [Next]_vars /\ pc' = "addFinalizer" =>
        ~copy'.finalizer \/ (pc = "addFinalizer" /\ UNCHANGED copy)
  <1> SUFFICES ASSUME [Next]_vars, pc' = "addFinalizer"
               PROVE  ~copy'.finalizer \/ (pc = "addFinalizer" /\ UNCHANGED copy)
    OBVIOUS
  <1>1. CASE UNCHANGED workerVars \/ Return \/ Cleans \/ ListTargets \/ CollectSnapshots
    BY <1>1 DEF Return, Cleans, ListTargets, CollectSnapshots
  <1>2. CASE (\E n \in Nodes : Passes(n) \/ ReadReport(n)) \/ \E m \in Maps : Wrote(m)
    BY <1>2 DEF Passes, ReadReport, UsableJob, Visit, At, Continue, Wrote, WriteMap, Skip
  <1>3. CASE EndsEmpty \/ EndsWithResults
    BY <1>3 DEF EndsEmpty, EndsWithResults, Finish
  <1>4. CASE Starts
    <2>1. ReconcileNew \/ ReconcileLab \/ ReconcileDeleted
      BY <1>4, OnlyReconcileStarts DEF Starts
    <2> QED
      BY <2>1 DEF ReconcileNew, ReconcileLab, ReconcileDeleted
  <1> QED
    BY <1>1, <1>2, <1>3, <1>4, WorkerMoves

\* The worker has the version of the lab that the cache shows, unless the key was
\* queued again meanwhile.
LEMMA CopyCurrentStep == CopyCurrent /\ [Next]_vars => CopyCurrent'
  <1> SUFFICES ASSUME CopyCurrent, [Next]_vars PROVE CopyCurrent'
    OBVIOUS
  <1>1. ASSUME pc' # "idle", ~queued'
        PROVE  copy' = labCache'
    <2>1. UNCHANGED labCache
      <3>1. ~ DeliverLab /\ ~ Restart
        BY <1>1 DEF DeliverLab, Restart, Return
      <3> QED
        BY <3>1, LabOrCacheMoves
        DEF AddFinalizer, RemoveFinalizer, Publish, CreateLab, EditSpec, DeleteLab
    <2>2. CASE Starts
      BY <2>1, <2>2 DEF Starts
    <2>3. CASE ~ Starts
      <3>1. UNCHANGED queued
        BY <1>1, <2>3, QueueMoves DEF Restart, Return, ReconcileMissing, Begin, At
      <3>2. pc # "idle" /\ UNCHANGED copy
        BY <1>1, <2>3, PcMoves
      <3> QED
        BY <1>1, <2>1, <3>1, <3>2 DEF CopyCurrent
    <2> QED
      BY <2>2, <2>3
  <1>2. ASSUME pc' = "addFinalizer"
        PROVE  ~copy'.finalizer
    BY <1>2, FinalizerMissing DEF CopyCurrent
  <1> QED
    BY <1>1, <1>2 DEF CopyCurrent

\* A lab that needs a reconcile gets one: by the queue, a watch event or the timer.
LEMMA AttendedStep ==
    TypeOK /\ WorkerHasLab /\ WorkerStatus /\ VersionsOrdered /\ CopyCurrent /\ Attended
      /\ [Next]_vars => Attended'
  <1> SUFFICES ASSUME TypeOK, WorkerHasLab, WorkerStatus, VersionsOrdered, CopyCurrent,
                      Attended, [Next]_vars,
                      pc' = "idle", ~queued', labCache' = lab', lab' # NoLab
               PROVE  /\ ~lab'.deleting /\ lab'.status.gen = lab'.gen
                      /\ \/ lab'.status.phase \in {"Succeeded", "Failed"}
                         \/ lab'.status.phase = "Running" /\ timer'
    BY DEF Attended
  <1> USE VersionTypes
  <1>1. ~ DeliverLab /\ ~ Restart /\ ~ ReconcileMissing /\ ~ RemoveFinalizer /\ ~ Starts
    BY DEF DeliverLab, Restart, ReconcileMissing, RemoveFinalizer, Starts
  <1>2. UNCHANGED queued
    BY <1>1, QueueMoves
  <1>3. ~ CreateLab
    BY LabCreated DEF VersionsOrdered
  <1>4. ~ EditSpec
    BY LabEdited DEF VersionsOrdered, Before
  <1>5. ~ DeleteLab
    BY LabDeleted DEF VersionsOrdered, Before
  <1>6. ~ AddFinalizer
    BY <1>2, FinalizerAdded, LabWritten DEF CopyCurrent
  <1>7. ~ Publish
    BY <1>2, LabPublished, LabWritten DEF CopyCurrent
  <1>8. UNCHANGED <<lab, labCache>>
    BY <1>1, <1>3, <1>4, <1>5, <1>6, <1>7, LabOrCacheMoves
  <1>9. CASE pc = "idle"
    <2>1. UNCHANGED timer
      BY <1>1, <1>2, <1>9, TimerMoves DEF PublishSame, At, TimerFires, Publish
    <2> QED
      BY <1>2, <1>8, <1>9, <2>1 DEF Attended
  <1>10. CASE pc # "idle"
    <2>1. PublishSame
      BY <1>1, <1>2, <1>6, <1>7, <1>10, Returns
    <2>2. /\ copy = lab /\ copy \in Lab /\ next \in Status /\ pc = "publish"
          /\ DeepEqual(copy.status, next) /\ Requeue
      BY <1>2, <1>8, <1>10, <2>1, VersionTypes DEF CopyCurrent, PublishSame, At, TypeOK
    <2>3. lab.status.gen = next.gen /\ lab.status.phase = next.phase
      BY <2>2 DEF DeepEqual, Lab, Status
    <2>4. next.gen = lab.gen /\ next.phase # "unset" /\ ~lab.deleting
      BY <2>2 DEF WorkerStatus, WorkerHasLab
    <2> QED
      BY <1>8, <2>2, <2>3, <2>4 DEF Requeue, Status
  <1> QED
    BY <1>9, <1>10

\* The invariant behind NothingForgotten.
LEMMA WakeInvariance == Spec => []WakeInv
  <1>1. Init => WakeInv
    BY DEF Init, WakeInv, CopyCurrent, Attended
  <1>2. IInv /\ FreshInv /\ WakeInv /\ [Next]_vars => WakeInv'
    BY CopyCurrentStep, AttendedStep DEF IInv, FreshInv, WakeInv
  <1> QED
    BY <1>1, <1>2, Invariance, FreshInvariance, PTL DEF Spec

\* A lab is never forgotten: with nothing left that would wake the worker, the
\* current generation has a terminal phase and the lab is not being deleted. Every
\* early return of Reconcile, every conflict, error and restart on the way there
\* leaves the key queued, a watch event to come or the timer set.
THEOREM LabsAttended == Spec => []NothingForgotten
  <1>1. WakeInv => NothingForgotten
    BY DEF WakeInv, Attended, NothingForgotten
  <1> QED
    BY <1>1, WakeInvariance, PTL

-----------------------------------------------------------------------------
(* When the worker's reads are never behind the API server: whatever else goes *)
(* wrong, and for every number of nodes                                        *)

Live(n) == jobs[n] # NoJob /\ ~jobs[n].deleting

\* A run and a cleanup work on the lab there is, which stays while they do.
LabInHand ==
    /\ pc \in {"list", "jobs", "write", "publish", "deleteJobs", "deleteMaps",
               "removeFinalizer"}
         => lab # NoLab /\ lab.finalizer /\ copy.inc = lab.inc
    /\ pc \notin {"jobs", "write", "publish"} => want = NoChecks

\* Without a lab, or before its finalizer, there is nothing to clean up, and a
\* cleanup leaves nothing.
Clean ==
    /\ (lab = NoLab \/ ~lab.finalizer) =>
          /\ \A n \in Nodes : ~Live(n)
          /\ \A m \in Maps : maps[m] = NoMap
    /\ pc = "deleteJobs" => \A n \in Nodes : Live(n) => n \in left
    /\ pc \in {"deleteMaps", "removeFinalizer"} => \A n \in Nodes : ~Live(n)
    /\ pc = "deleteMaps" => \A m \in Maps : maps[m] # NoMap => m \in left
    /\ pc = "removeFinalizer" => \A m \in Maps : maps[m] = NoMap

\* Jobs that are not being deleted, and the reports read from them, are the lab's.
OwnRuns ==
    /\ lab # NoLab => \A n \in Nodes : Live(n) => jobs[n].run.inc = lab.inc
    /\ pc \in {"jobs", "write"} => \A r \in reports : r.run.inc = copy.inc
    /\ pc = "publish" => \A r \in next.results : r.run.inc = copy.inc

\* Node n has no Job at work on this run's checks.
Idle(n) == ~(Live(n) /\ jobs[n].phase = "active" /\ ~IsStale(jobs[n]))

\* A run that goes on, or ends, with something else than waiting has seen a node
\* without a Job at work, and the node still has none; unless it ends on a call to
\* create a Job there.
IdleSeen ==
    /\ (pc = "jobs" /\ ~pending) => \A n \in Sources \ left : Idle(n)
    /\ pc = "write" => \A n \in Sources : Idle(n)
    /\ (pc = "publish" /\ next.phase # "Running" /\ next.cond # "CreateFailed"
        /\ Sources # {}) => \E n \in Sources : Idle(n)

SyncInv == LabInHand /\ Clean /\ OwnRuns /\ IdleSeen /\ ResultsOfThisLab

-----------------------------------------------------------------------------
(* What a step is to the Jobs and to the cleanup                             *)

\* A step that creates no Job: those that are live were live before, and none
\* becomes active again.
JobsAge ==
    \A n \in Nodes : Live(n)' =>
        /\ Live(n) /\ jobs'[n].run = jobs[n].run
        /\ jobs'[n].phase = "active" => jobs[n].phase = "active"

\* Deleting a Job by name marks it and leaves the others alone.
LEMMA DeletedJobAges ==
    ASSUME TypeOK, NEW n \in Nodes, jobs' = DeletedJob(n)
    PROVE  JobsAge /\ ~Live(n)'
  <1>1. CASE jobs[n] = NoJob
    BY <1>1 DEF DeletedJob, JobsAge, Live
  <1>2. CASE jobs[n] # NoJob
    <2>1. jobs[n] \in Job /\ jobs' = [jobs EXCEPT ![n].deleting = TRUE]
      BY <1>2 DEF DeletedJob, TypeOK
    <2>2. jobs'[n].deleting = TRUE
      BY <2>1 DEF TypeOK, Job
    <2>3. \A x \in Nodes \ {n} : jobs'[x] = jobs[x]
      BY <2>1 DEF TypeOK
    <2> QED
      BY <2>2, <2>3 DEF JobsAge, Live
  <1> QED
    BY <1>1, <1>2

\* Only CreateJob makes a live Job.
LEMMA JobMoves ==
    TypeOK /\ [Next]_vars => JobsAge \/ \E n \in Nodes : CreateJob(n)
  <1> SUFFICES ASSUME TypeOK, [Next]_vars, ~ \E n \in Nodes : CreateJob(n)
               PROVE  JobsAge
    OBVIOUS
  <1>1. CASE UNCHANGED jobs
    BY <1>1 DEF JobsAge, Live
  <1>2. ASSUME NEW n \in Nodes, DeleteListedJob(n) \/ DeleteStaleJob(n)
        PROVE  JobsAge
    BY <1>2, DeletedJobAges DEF DeleteListedJob, DeleteStaleJob
  <1>3. ASSUME NEW n \in Nodes, JobExpires(n) \/ JobSucceeds(n) \/ JobFails(n) \/ JobCollected(n)
        PROVE  JobsAge
    <2>1. \A x \in Nodes \ {n} : jobs'[x] = jobs[x]
      BY <1>3 DEF JobExpires, JobSucceeds, JobFails, JobCollected, TypeOK
    <2>2. CASE JobExpires(n) \/ JobCollected(n)
      <3>1. ~ Live(n)'
        BY <2>2 DEF JobExpires, JobCollected, Live, TypeOK, Job
      <3> QED
        BY <2>1, <3>1 DEF JobsAge, Live
    <2>3. CASE JobSucceeds(n) \/ JobFails(n)
      <3>1. Live(n) /\ jobs[n].phase = "active"
        BY <2>3 DEF JobSucceeds, JobFails, Running, Live
      <3>2. jobs'[n].run = jobs[n].run
        BY <2>3, <3>1 DEF JobSucceeds, JobFails, Live, TypeOK, Job
      <3> QED
        BY <2>1, <3>1, <3>2 DEF JobsAge, Live
    <2> QED
      BY <1>3, <2>2, <2>3
  <1>4. CASE Reconcile
    <2>1. ASSUME NEW n \in Nodes,
                 CreateExists(n) \/ AwaitDeletion(n) \/ ReadReport(n) \/ ReportUnreadable(n)
                   \/ SeeFailedJob(n) \/ SeeActiveJob(n)
          PROVE  JobsAge
      BY <1>1, <2>1 DEF CreateExists, AwaitDeletion, ReadReport, ReportUnreadable,
                        SeeFailedJob, SeeActiveJob
    <2>2. ASSUME NEW m \in Maps, DeleteListedMap(m) \/ WriteMap(m) \/ MapConflict(m)
          PROVE  JobsAge
      BY <1>1, <2>2 DEF DeleteListedMap, WriteMap, MapConflict
    <2>3. CASE ReconcileMissing \/ ReconcileNew \/ ReconcileLab \/ ReconcileDeleted
                 \/ AddFinalizer \/ FinalizerConflict \/ RemoveFinalizer \/ ListMaps \/ CleanupDone
      BY <1>1, <2>3 DEF ReconcileMissing, ReconcileNew, ReconcileLab, ReconcileDeleted,
                        AddFinalizer, FinalizerConflict, RemoveFinalizer, ListMaps, CleanupDone
    <2>4. CASE ListTargets \/ NoTargets \/ JobsPending \/ CollectSnapshots \/ RunCompleted
                 \/ PublishSame \/ Publish \/ PublishConflict
      BY <1>1, <2>4 DEF ListTargets, NoTargets, JobsPending, CollectSnapshots, RunCompleted,
                        PublishSame, Publish, PublishConflict
    <2> QED
      BY <1>2, <1>4, <2>1, <2>2, <2>3, <2>4 DEF Reconcile, Cleanup, ProbeJobs, Export
  <1>5. CASE Fault
    BY <1>1, <1>5 DEF Fault, CallFails, Restart, JobCallFails, MapCallFails
  <1>6. CASE CreateLab \/ EditSpec \/ DeleteLab \/ ChangeTargets \/ Deliver
                \/ TimerFires \/ Resync \/ UNCHANGED vars \/ \E n \in Nodes : PodTerminates(n)
    BY <1>1, <1>6 DEF CreateLab, EditSpec, DeleteLab, ChangeTargets, Deliver, DeliverLab,
                      DeliverPods, DeliverJob, DeliverMap, TimerFires, Resync, PodTerminates
  <1> QED
    BY <1>3, <1>4, <1>5, <1>6 DEF Next, Outside, JobControl

\* What goes on in a cleanup.
LEMMA CleanupMoves ==
    [Next]_vars /\ pc' \in {"deleteJobs", "deleteMaps", "removeFinalizer"} =>
        \/ UNCHANGED workerVars
        \/ ReconcileDeleted \/ ListMaps \/ CleanupDone
        \/ \E n \in Nodes : DeleteListedJob(n)
        \/ \E m \in Maps : DeleteListedMap(m)
  <1> SUFFICES ASSUME [Next]_vars, ~ UNCHANGED workerVars,
                      pc' \in {"deleteJobs", "deleteMaps", "removeFinalizer"}
               PROVE  \/ ReconcileDeleted \/ ListMaps \/ CleanupDone
                      \/ \E n \in Nodes : DeleteListedJob(n)
                      \/ \E m \in Maps : DeleteListedMap(m)
    OBVIOUS
  <1>1. ~ Return /\ \A phase, cond, total, results, nodes :
                        ~ Finish(phase, cond, total, results, nodes)
    BY DEF Return, Finish
  <1>2. ~ (Outside \/ Deliver \/ (\E n \in Nodes : JobControl(n)) \/ TimerFires \/ Resync)
    BY DEF Outside, Deliver, JobControl, CreateLab, EditSpec, DeleteLab, ChangeTargets,
           JobExpires, DeliverLab, DeliverPods, DeliverJob, DeliverMap, PodTerminates,
           JobSucceeds, JobFails, JobCollected, TimerFires, Resync
  <1>3. ~ Fault
    BY <1>1 DEF Fault, CallFails, Restart, JobCallFails, MapCallFails, ReturnError, FailRun,
                FailWrite
  <1>4. ~ ProbeJobs
    BY <1>1 DEF ProbeJobs, CreateJob, CreateExists, AwaitDeletion, DeleteStaleJob,
                ReadReport, ReportUnreadable, SeeFailedJob, SeeActiveJob, JobsPending,
                UsableJob, Visit, At, Continue, FailRun, Answered, AnswerLost, Finish
  <1>5. ~ Export
    BY <1>1 DEF Export, CollectSnapshots, WriteMap, MapConflict, RunCompleted, FailWrite,
                FailRun, At, Answered, AnswerLost, Skip, Finish
  <1>6. ~ (ReconcileMissing \/ ReconcileNew \/ ReconcileLab \/ AddFinalizer
             \/ FinalizerConflict \/ ListTargets \/ NoTargets \/ PublishSame \/ Publish
             \/ PublishConflict \/ RemoveFinalizer)
    BY <1>1 DEF ReconcileMissing, ReconcileNew, ReconcileLab, AddFinalizer,
                FinalizerConflict, ListTargets, NoTargets, PublishSame, Publish,
                PublishConflict, ReturnError, RemoveFinalizer, Answered, AnswerLost
  <1> QED
    BY <1>2, <1>3, <1>4, <1>5, <1>6 DEF Next, Reconcile, Cleanup

\* What a reconcile begins with is the lab and the artifacts there are.
LEMMA StartsSynced ==
    ASSUME ~CacheLag, [Next]_vars, Starts
    PROVE  /\ labCache = lab /\ UNCHANGED <<lab, jobs, maps>>
           /\ pc' = "list" => lab.finalizer
           /\ pc' = "deleteJobs" =>
                lab.finalizer /\ left' = {n \in Nodes : jobs[n] # NoJob}
           /\ pc' \in {"deleteJobs", "addFinalizer", "list"}
  <1>1. ReconcileNew \/ ReconcileLab \/ ReconcileDeleted
    BY OnlyReconcileStarts DEF Starts
  <1> QED
    BY <1>1 DEF ReconcileNew, ReconcileLab, ReconcileDeleted, Begin, At, Synced

\* The stages in which the worker needs the lab to be there.
InHand == {"list", "jobs", "write", "publish", "deleteJobs", "deleteMaps", "removeFinalizer"}

\* Such a stage follows another one or the start of the reconcile.
LEMMA HandMoves ==
    [Next]_vars /\ pc' \in InHand => Starts \/ (pc \in InHand /\ UNCHANGED copy)
  <1> SUFFICES ASSUME [Next]_vars, pc' \in InHand, ~ Starts
               PROVE  pc \in InHand /\ UNCHANGED copy
    OBVIOUS
  <1> USE DEF InHand
  <1>1. CASE UNCHANGED workerVars \/ Return \/ Cleans \/ ListTargets \/ CollectSnapshots
    BY <1>1 DEF Return, Cleans, ListTargets, CollectSnapshots, At
  <1>2. CASE (\E n \in Nodes : Passes(n) \/ ReadReport(n)) \/ \E m \in Maps : Wrote(m)
    BY <1>2 DEF Passes, ReadReport, UsableJob, Visit, At, Continue, Wrote, WriteMap, Skip
  <1>3. CASE EndsEmpty \/ EndsWithResults
    BY <1>3 DEF EndsEmpty, EndsWithResults, Finish
  <1> QED
    BY <1>1, <1>2, <1>3, WorkerMoves

\* The lab a run or a cleanup works on stays until that is over.
LEMMA LabInHandStep ==
    ~CacheLag /\ TypeOK /\ WorkerHasLab /\ LabInHand /\ [Next]_vars => LabInHand'
  <1> SUFFICES ASSUME ~CacheLag, TypeOK, WorkerHasLab, LabInHand, [Next]_vars
               PROVE  LabInHand'
    OBVIOUS
  <1>1. ASSUME pc' \in InHand
        PROVE  lab' # NoLab /\ lab'.finalizer /\ copy'.inc = lab'.inc
    <2>1. CASE Starts
      BY <1>1, <2>1, StartsSynced DEF Starts, InHand
    <2>2. CASE ~ Starts
      <3>1. pc \in InHand /\ UNCHANGED copy
        BY <1>1, <2>2, HandMoves
      <3>2. lab # NoLab /\ lab.finalizer /\ copy.inc = lab.inc
        BY <3>1 DEF LabInHand, InHand
      <3>3. ~ AddFinalizer /\ ~ RemoveFinalizer /\ ~ Publish
        BY <1>1 DEF AddFinalizer, RemoveFinalizer, Publish, Return, InHand, Answered,
                    AnswerLost, ReturnError
      <3>4. ~ CreateLab
        BY <3>2 DEF CreateLab
      <3> QED
        BY <3>1, <3>2, <3>3, <3>4, LabMoves, LabEdited, LabDeleted
    <2> QED
      BY <2>1, <2>2
  <1>2. ASSUME pc' \notin {"jobs", "write", "publish"}
        PROVE  want' = NoChecks
    <2>1. CASE UNCHANGED workerVars \/ Return \/ Starts \/ Cleans \/ ListTargets
               \/ CollectSnapshots
      BY <1>2, <2>1 DEF Return, Starts, Cleans, ListTargets, CollectSnapshots, LabInHand
    <2>2. CASE (\E n \in Nodes : Passes(n) \/ ReadReport(n)) \/ \E m \in Maps : Wrote(m)
      BY <1>2, <2>2 DEF Passes, ReadReport, UsableJob, Visit, At, Continue, Wrote, WriteMap, Skip
    <2>3. CASE EndsEmpty \/ EndsWithResults
      BY <1>2, <2>3 DEF EndsEmpty, EndsWithResults, Finish
    <2> QED
      BY <2>1, <2>2, <2>3, WorkerMoves
  <1> QED
    BY <1>1, <1>2 DEF LabInHand, InHand

\* A Job is created, and a ConfigMap written, for a lab that holds its finalizer.
LEMMA MakersHaveLab ==
    ASSUME LabInHand,
           \/ \E n \in Nodes : CreateJob(n) \/ DeleteListedJob(n)
           \/ \E m \in Maps : WriteMap(m) \/ DeleteListedMap(m)
    PROVE  lab # NoLab /\ lab.finalizer /\ UNCHANGED lab
  BY DEF CreateJob, DeleteListedJob, Visit, WriteMap, DeleteListedMap, At, LabInHand

-----------------------------------------------------------------------------
(* Cleanup                                                                   *)

\* Ageing keeps nodes without a live Job that way.
LEMMA NoneLive ==
    ASSUME JobsAge, NEW n \in Nodes, ~Live(n)
    PROVE  ~Live(n)'
  BY DEF JobsAge

\* A lab that may go at once has no artifacts: all were made under its finalizer,
\* which only a cleanup that left nothing takes away.
LEMMA NothingLeftStep ==
    ASSUME ~CacheLag, TypeOK, WorkerHasLab, LabInHand, Clean, [Next]_vars,
           lab' = NoLab \/ ~lab'.finalizer
    PROVE  /\ \A n \in Nodes : ~Live(n)'
           /\ \A m \in Maps : maps'[m] = NoMap
  <1>1. CASE RemoveFinalizer
    BY <1>1 DEF RemoveFinalizer, At, Clean, Live
  <1>2. CASE AddFinalizer
    BY <1>2, FinalizerAdded, LabWritten
  <1>3. CASE Publish
    <2>1. lab'.finalizer = copy.finalizer /\ copy.finalizer /\ lab' # NoLab
      <3>1. copy \in Lab /\ copy.finalizer
        BY <1>3 DEF Publish, At, WorkerHasLab, TypeOK
      <3>2. lab'.finalizer = copy.finalizer
        BY <1>3, <3>1 DEF Publish, Lab
      <3> QED
        BY <1>3, <3>1, <3>2, LabWritten
    <2> QED
      BY <2>1
  <1>4. CASE ~ RemoveFinalizer /\ ~ AddFinalizer /\ ~ Publish
    <2>1. lab = NoLab \/ ~lab.finalizer
      BY <1>4, LabMoves, LabCreated, LabEdited, LabDeleted
    <2>2. /\ \A n \in Nodes : ~Live(n)
          /\ \A m \in Maps : maps[m] = NoMap
      BY <2>1 DEF Clean
    <2>3. JobsAge
      BY <2>1, JobMoves, MakersHaveLab
    <2>4. UNCHANGED maps
      BY <2>1, MapMoves, MakersHaveLab
    <2> QED
      BY <2>2, <2>3, <2>4, NoneLive
  <1> QED
    BY <1>1, <1>2, <1>3, <1>4

\* A cleanup finds every artifact there is, and none is made while it runs.
LEMMA CleanStep ==
    ~CacheLag /\ TypeOK /\ WorkerHasLab /\ LabInHand /\ Clean /\ [Next]_vars => Clean'
  <1> SUFFICES ASSUME ~CacheLag, TypeOK, WorkerHasLab, LabInHand, Clean, [Next]_vars
               PROVE  Clean'
    OBVIOUS
  <1>1. ASSUME pc' \in {"deleteJobs", "deleteMaps", "removeFinalizer"}
        PROVE  /\ JobsAge
               /\ \A m \in Maps : maps'[m] # NoMap => maps[m] # NoMap
    <2>1. ~ \E n \in Nodes : CreateJob(n)
      BY <1>1 DEF CreateJob, Continue, Visit, At, Answered, AnswerLost, FailRun, Finish
    <2>2. ~ \E m \in Maps : WriteMap(m)
      BY <1>1 DEF WriteMap, At, Answered, AnswerLost, Skip, FailWrite, FailRun, Finish
    <2>3. ASSUME NEW m \in Maps, DeleteListedMap(m), NEW x \in Maps, maps'[x] # NoMap
          PROVE  maps[x] # NoMap
      BY <2>3 DEF DeleteListedMap, TypeOK
    <2> QED
      BY <2>1, <2>2, <2>3, JobMoves, MapMoves
  <1>2. ASSUME pc' = "deleteJobs", NEW n \in Nodes, Live(n)'
        PROVE  n \in left'
    <2>1. Live(n)
      BY <1>1, <1>2, NoneLive
    <2>2. CASE UNCHANGED workerVars
      BY <1>2, <2>1, <2>2 DEF Clean
    <2>3. CASE ReconcileDeleted
      <3>1. Starts
        BY <2>3 DEF ReconcileDeleted, Begin, At, Starts
      <3> QED
        BY <1>2, <2>1, <3>1, StartsSynced DEF Live
    <2>4. ASSUME NEW x \in Nodes, DeleteListedJob(x)
          PROVE  n \in left'
      <3>1. left' = left \ {x} /\ pc = "deleteJobs" /\ ~Live(x)'
        BY <1>2, <2>4, DeletedJobAges DEF DeleteListedJob, At, Answered, AnswerLost, ReturnError,
                                         Skip, Return
      <3>2. n # x
        BY <1>2, <3>1
      <3> QED
        BY <2>1, <3>1, <3>2 DEF Clean
    <2> QED
      BY <1>2, <2>2, <2>3, <2>4, CleanupMoves
      DEF ListMaps, CleanupDone, DeleteListedMap, At, Answered, AnswerLost, ReturnError,
          Skip, Return
  <1>3. ASSUME pc' \in {"deleteMaps", "removeFinalizer"}, NEW n \in Nodes
        PROVE  ~Live(n)'
    <2>1. ~Live(n)
      BY <1>3, CleanupMoves DEF ReconcileDeleted, ListMaps, CleanupDone, DeleteListedJob,
                                DeleteListedMap, At, Clean, Answered, AnswerLost,
                                ReturnError, Skip, Return
    <2> QED
      BY <1>1, <1>3, <2>1, NoneLive
  <1>4. ASSUME pc' = "deleteMaps", NEW m \in Maps, maps'[m] # NoMap
        PROVE  m \in left'
    <2>1. maps[m] # NoMap
      BY <1>1, <1>4
    <2>2. CASE UNCHANGED workerVars
      BY <1>4, <2>1, <2>2 DEF Clean
    <2>3. CASE ListMaps
      BY <2>1, <2>3 DEF ListMaps, At, Synced
    <2>4. ASSUME NEW x \in Maps, DeleteListedMap(x)
          PROVE  m \in left'
      BY <1>4, <2>1, <2>4 DEF DeleteListedMap, At, TypeOK, Clean, Answered, AnswerLost,
                              ReturnError, Skip, Return
    <2> QED
      BY <1>4, <2>2, <2>3, <2>4, CleanupMoves
      DEF ReconcileDeleted, CleanupDone, DeleteListedJob, At, Answered, AnswerLost,
          ReturnError, Skip, Return
  <1>5. ASSUME pc' = "removeFinalizer", NEW m \in Maps
        PROVE  maps'[m] = NoMap
    <2>1. maps[m] = NoMap
      BY <1>5, CleanupMoves DEF ReconcileDeleted, ListMaps, CleanupDone, DeleteListedJob,
                                DeleteListedMap, At, Clean, Answered, AnswerLost,
                                ReturnError, Skip, Return
    <2> QED
      BY <1>1, <1>5, <2>1
  <1> QED
    BY <1>2, <1>3, <1>4, <1>5, NothingLeftStep DEF Clean

-----------------------------------------------------------------------------
(* Whose results                                                             *)

\* A report read from a Job is of the run of that Job.
LEMMA ReportIsOfJob ==
    ASSUME TypeOK, UidsDistinct, InPlace, NEW n \in Nodes, UsableJob(n),
           NEW p \in ReportPods(n)
    PROVE  p.run = Seen(n).run
  <1>1. p \in podCache /\ p.owner = Seen(n).run.uid
    BY DEF ReportPods, OwnedBy
  <1>2. Seen(n) = jobCache[n] /\ Seen(n) # NoJob
    BY DEF UsableJob, Seen
  <1>3. Seen(n).run \in Runs /\ p.run \in Runs
    BY <1>1, <1>2 DEF Runs, RunsOf
  <1>4. p.owner # 0
    <2>1. 0 < Seen(n).run.uid
      BY <1>3 DEF UidsDistinct
    <2> QED
      BY <1>1, <2>1
  <1>5. p.run.uid = Seen(n).run.uid
    BY <1>1, <1>4 DEF InPlace
  <1> QED
    BY <1>3, <1>5 DEF UidsDistinct

\* What a step leaves of the lab keeps its identity, unless the lab is new.
LEMMA SameLab ==
    ASSUME TypeOK, WorkerHasLab, [Next]_vars, lab' # NoLab
    PROVE  CreateLab \/ (lab # NoLab /\ lab'.inc = lab.inc)
  <1>1. CASE UNCHANGED lab
    BY <1>1
  <1>2. CASE AddFinalizer \/ Publish
    BY <1>2, LabWritten
  <1>3. CASE EditSpec \/ DeleteLab
    BY <1>3, LabEdited, LabDeleted
  <1> QED
    BY <1>1, <1>2, <1>3, LabMoves DEF RemoveFinalizer

\* The live Jobs of the lab stay its own.
LEMMA OwnJobsStep ==
    ASSUME TypeOK, WorkerHasLab, LabInHand, Clean, OwnRuns, [Next]_vars, lab' # NoLab,
           NEW n \in Nodes, Live(n)'
    PROVE  jobs'[n].run.inc = lab'.inc
  <1>1. CASE CreateLab
    BY <1>1 DEF CreateLab, Clean, Live
  <1>2. CASE lab # NoLab /\ lab'.inc = lab.inc
    <2>1. CASE JobsAge
      BY <1>2, <2>1 DEF JobsAge, OwnRuns
    <2>2. ASSUME NEW x \in Nodes, CreateJob(x)
          PROVE  jobs'[n].run.inc = lab'.inc
      <3>1. jobs' = [jobs EXCEPT ![x] = NewJob(x)] /\ pc = "jobs"
        BY <2>2 DEF CreateJob, Visit, At
      <3>2. CASE n = x
        BY <1>2, <3>1, <3>2 DEF NewJob, LabInHand, TypeOK
      <3>3. CASE n # x
        BY <1>2, <3>1, <3>3 DEF OwnRuns, Live, TypeOK
      <3> QED
        BY <3>2, <3>3
    <2> QED
      BY <2>1, <2>2, JobMoves
  <1> QED
    BY <1>1, <1>2, SameLab

\* The reports a run reads are of Jobs of its lab, and so is what it publishes.
LEMMA OwnRunsStep ==
    ~CacheLag /\ TypeOK /\ UidsDistinct /\ InPlace /\ WorkerHasLab /\ WorkerReports
      /\ LabInHand /\ Clean /\ OwnRuns /\ [Next]_vars => OwnRuns'
  <1> SUFFICES ASSUME ~CacheLag, TypeOK, UidsDistinct, InPlace, WorkerHasLab, WorkerReports,
                      LabInHand, Clean, OwnRuns, [Next]_vars
               PROVE  OwnRuns'
    OBVIOUS
  <1>1. lab' # NoLab => \A n \in Nodes : Live(n)' => jobs'[n].run.inc = lab'.inc
    BY OwnJobsStep
  <1>2. /\ pc' \in {"jobs", "write"} => \A r \in reports' : r.run.inc = copy'.inc
        /\ pc' = "publish" => \A r \in next'.results : r.run.inc = copy'.inc
    <2>1. CASE UNCHANGED workerVars \/ Return \/ Starts \/ Cleans
      BY <2>1 DEF Return, Starts, Cleans, OwnRuns
    <2>2. CASE ListTargets
      BY <2>2 DEF ListTargets, At, WorkerReports
    <2>3. CASE \/ CollectSnapshots
               \/ \E n \in Nodes : Passes(n)
               \/ \E m \in Maps : Wrote(m)
      BY <2>3 DEF CollectSnapshots, Passes, Visit, Continue, Wrote, WriteMap, Skip, At, OwnRuns
    <2>4. ASSUME NEW n \in Nodes, ReadReport(n)
          PROVE  pc' = "jobs" /\ \A r \in reports' : r.run.inc = copy'.inc
      <3>1. UsableJob(n) /\ pc = "jobs" /\ Seen(n) = jobs[n] /\ Live(n)
        BY <2>4 DEF ReadReport, UsableJob, Visit, At, Synced, Seen, Live
      <3>2. PICK p \in ReportPods(n) :
              Continue(n, FALSE, {[run |-> p.run, ok |-> p.out = "ok"]})
        BY <2>4 DEF ReadReport
      <3>3. p.run.inc = copy.inc
        BY <3>1, ReportIsOfJob DEF OwnRuns, LabInHand
      <3> QED
        BY <3>1, <3>2, <3>3 DEF Continue, OwnRuns
    <2>5. CASE EndsEmpty
      BY <2>5 DEF EndsEmpty, Finish, NextStatus
    <2>6. CASE EndsWithResults
      <3>1. pc = "write" /\ pc' = "publish" /\ next'.results = reports /\ UNCHANGED copy
        BY <2>6 DEF EndsWithResults, Finish, NextStatus
      <3> QED
        BY <3>1 DEF OwnRuns
    <2> QED
      BY <2>1, <2>2, <2>3, <2>4, <2>5, <2>6, WorkerMoves
  <1> QED
    BY <1>1, <1>2 DEF OwnRuns

\* So are the results in the status.
LEMMA ResultsOfThisLabStep ==
    ASSUME TypeOK, WorkerHasLab, WorkerStatus, LabInHand, OwnRuns, ResultsOfThisLab, [Next]_vars
    PROVE  ResultsOfThisLab'
  <1> SUFFICES ASSUME lab' # NoLab, NEW r \in lab'.status.results
               PROVE  r.run.inc = lab'.inc
    BY DEF ResultsOfThisLab
  <1>1. CASE Publish
    BY <1>1, LabPublished, LabWritten DEF OwnRuns
  <1>2. CASE CreateLab
    BY <1>2, LabCreated DEF NoStatus
  <1>3. CASE ~ Publish /\ ~ CreateLab
    <2>1. lab # NoLab /\ lab'.inc = lab.inc /\ lab'.status = lab.status
      BY <1>3, SameLab, OnlyPublishChangesStatus DEF LabKept
    <2> QED
      BY <2>1 DEF ResultsOfThisLab
  <1> QED
    BY <1>1, <1>2, <1>3

-----------------------------------------------------------------------------
(* Running while Jobs run                                                    *)

\* A node without a Job at work stays one, as long as the run creates none there.
LEMMA IdleKept ==
    ASSUME JobsAge, UNCHANGED <<copy, want>>, NEW n \in Nodes, Idle(n)
    PROVE  Idle(n)'
  <1> SUFFICES ASSUME Live(n)', jobs'[n].phase = "active", ~IsStale(jobs[n])'
               PROVE  FALSE
    BY DEF Idle
  <1>1. Live(n) /\ jobs'[n].run = jobs[n].run /\ jobs[n].phase = "active"
    BY DEF JobsAge
  <1>2. ~IsStale(jobs[n])
    BY <1>1 DEF IsStale
  <1> QED
    BY <1>1, <1>2 DEF Idle

\* A run that stops at a node does so for a Job that is not at work, or waits; or
\* it takes the Job that it has just created there for one that it could not create.
LEMMA StopsAtIdle ==
    ASSUME ~CacheLag, TypeOK, InPlace, WorkerReports, [Next]_vars, pc = "jobs", pc' = "publish",
           ~ \E n \in Nodes : CreateJob(n)
    PROVE  next'.phase = "Running" \/ \E n \in Sources : Idle(n)
  <1> DEFINE Stops(n) == CreateExists(n) \/ ReportUnreadable(n) \/ SeeFailedJob(n)
                           \/ JobCallFails(n) \/ DeleteStaleJob(n)
  <1>1. JobsPending \/ \E n \in Nodes : Stops(n)
    <2>1. ~ UNCHANGED workerVars /\ ~ Return
      BY DEF Return
    <2>2. ~ (Outside \/ Deliver \/ (\E n \in Nodes : JobControl(n)) \/ TimerFires \/ Resync)
      BY <2>1 DEF Outside, Deliver, JobControl, CreateLab, EditSpec, DeleteLab, ChangeTargets,
                  JobExpires, DeliverLab, DeliverPods, DeliverJob, DeliverMap, PodTerminates,
                  JobSucceeds, JobFails, JobCollected, TimerFires, Resync
    <2>3. ~ (CallFails \/ Restart \/ \E m \in Maps : MapCallFails(m))
      BY <2>1 DEF CallFails, Restart, MapCallFails, ReturnError, At
    <2>4. ~ (Export \/ Cleanup)
      BY <2>1 DEF Export, CollectSnapshots, WriteMap, MapConflict, RunCompleted, Cleanup,
                  ReconcileDeleted, DeleteListedJob, ListMaps, DeleteListedMap, CleanupDone,
                  RemoveFinalizer, At
    <2>5. ~ (ReconcileMissing \/ ReconcileNew \/ ReconcileLab \/ AddFinalizer
               \/ FinalizerConflict \/ ListTargets \/ NoTargets \/ PublishSame \/ Publish
               \/ PublishConflict)
      BY <2>1 DEF ReconcileMissing, ReconcileNew, ReconcileLab, AddFinalizer,
                  FinalizerConflict, ListTargets, NoTargets, PublishSame, Publish,
                  PublishConflict, At
    <2>6. ~ \E n \in Nodes : AwaitDeletion(n) \/ ReadReport(n) \/ SeeActiveJob(n)
      BY DEF AwaitDeletion, ReadReport, SeeActiveJob, Continue
    <2> QED
      BY <2>1, <2>2, <2>3, <2>4, <2>5, <2>6 DEF Next, Reconcile, Fault, ProbeJobs
  <1>2. CASE JobsPending
    BY <1>2 DEF JobsPending, Finish, NextStatus
  <1>3. ASSUME NEW n \in Nodes, Stops(n)
        PROVE  n \in Sources /\ Idle(n)
    <2>1. Seen(n) = jobs[n] /\ n \in left
      BY <1>3 DEF CreateExists, ReportUnreadable, SeeFailedJob, JobCallFails, DeleteStaleJob,
                  UsableJob, Visit, At, Synced, Seen, Turn
    <2>2. n \in Sources
      BY <2>1 DEF WorkerReports
    <2>3. ~ CreateExists(n)
      BY <2>1 DEF CreateExists
    <2>4. Idle(n)
      BY <1>3, <2>1, <2>3
      DEF ReportUnreadable, SeeFailedJob, JobCallFails, DeleteStaleJob, Idle, Live
    <2> QED
      BY <2>2, <2>4
  <1> QED
    BY <1>1, <1>2, <1>3

\* A run that ends as anything but Running has seen a node without a Job at work:
\* one that failed, was unreadable, missing or stale, or all of them done; unless it
\* ends on a Job that it created without knowing.
LEMMA IdleSeenStep ==
    ~CacheLag /\ TypeOK /\ InPlace /\ WorkerReports /\ LabInHand /\ IdleSeen /\ [Next]_vars
      => IdleSeen'
  <1> SUFFICES ASSUME ~CacheLag, TypeOK, InPlace, WorkerReports, LabInHand, IdleSeen,
                      [Next]_vars
               PROVE  IdleSeen'
    OBVIOUS
  <1>1. CASE UNCHANGED workerVars
    <2>1. JobsAge
      <3>1. ~ \E n \in Nodes : CreateJob(n)
        BY <1>1 DEF CreateJob, Continue, Visit, Turn, Answered, AnswerLost, FailRun, Finish,
                    At
      <3> QED
        BY <3>1, JobMoves
    <2>2. Sources' = Sources /\ Sources \subseteq Nodes
      BY <1>1 DEF Sources
    <2>3. \A n \in Sources : Idle(n) => Idle(n)'
      BY <1>1, <2>1, <2>2, IdleKept
    <2> QED
      BY <1>1, <2>2, <2>3 DEF IdleSeen
  <1>2. CASE Return \/ Starts \/ Cleans
    BY <1>2 DEF Return, Starts, Cleans, IdleSeen
  <1>3. CASE ListTargets
    <2>1. pc' = "jobs" /\ Sources' \subseteq left'
      BY <1>3 DEF ListTargets, Sources
    <2> QED
      BY <2>1 DEF IdleSeen
  <1>4. ASSUME NEW n \in Nodes, Passes(n)
        PROVE  IdleSeen'
    BY <1>4 DEF Passes, Visit, At, Continue, IdleSeen
  <1>5. ASSUME NEW n \in Nodes, ReadReport(n)
        PROVE  IdleSeen'
    <2>1. /\ UsableJob(n) /\ pc = "jobs" /\ Seen(n) = jobs[n] /\ jobs[n].phase = "succeeded"
          /\ UNCHANGED jobs
      BY <1>5 DEF ReadReport, UsableJob, Visit, At, Synced, Seen
    <2>2. Idle(n)
      BY <2>1 DEF Idle
    <2>3. pc' = "jobs" /\ left' = left \ {n} /\ pending' = pending /\ UNCHANGED <<copy, want>>
      BY <1>5, <2>1 DEF ReadReport, Continue, TypeOK
    <2>4. JobsAge
      BY <2>1 DEF JobsAge, Live
    <2>5. Sources' = Sources /\ Sources \subseteq Nodes
      BY <2>3 DEF Sources
    <2>6. ~pending => \A x \in Sources \ left' : Idle(x)
      BY <2>1, <2>2, <2>3 DEF IdleSeen
    <2>7. ~pending => \A x \in Sources \ left' : Idle(x)'
      BY <2>3, <2>4, <2>5, <2>6, IdleKept
    <2> QED
      BY <2>3, <2>5, <2>7 DEF IdleSeen
  <1>6. CASE CollectSnapshots \/ \E m \in Maps : Wrote(m)
    <2>1. pc' = "write" /\ UNCHANGED <<jobs, copy, want>>
      BY <1>6 DEF CollectSnapshots, Wrote, WriteMap, Skip, At
    <2>2. \A n \in Sources : Idle(n)
      BY <1>6 DEF CollectSnapshots, Wrote, WriteMap, At, IdleSeen
    <2>3. JobsAge /\ Sources' = Sources /\ Sources \subseteq Nodes
      BY <2>1 DEF JobsAge, Live, Sources
    <2>4. \A n \in Sources : Idle(n)'
      BY <2>1, <2>2, <2>3, IdleKept
    <2> QED
      BY <2>1, <2>3, <2>4 DEF IdleSeen
  <1>7. CASE EndsEmpty \/ EndsWithResults
    <2>1. pc' = "publish" /\ UNCHANGED <<copy, want>> /\ pc \in {"list", "jobs", "write"}
      BY <1>7 DEF EndsEmpty, EndsWithResults, Finish
    <2>2. Sources' = Sources /\ Sources \subseteq Nodes
      BY <2>1 DEF Sources
    <2>7. CASE \E n \in Nodes : CreateJob(n)
      <3>1. FailRun("CreateFailed")
        BY <2>1, <2>7 DEF CreateJob, Visit, At, Answered, AnswerLost, Continue
      <3>2. next'.cond = "CreateFailed"
        BY <3>1, FinishCond DEF FailRun
      <3> QED
        BY <2>1, <3>2 DEF IdleSeen
    <2> SUFFICES ASSUME ~ \E n \in Nodes : CreateJob(n) PROVE IdleSeen'
      BY <2>7
    <2>3. JobsAge
      BY JobMoves
    <2>4. CASE pc = "list"
      <3>1. Sources = {}
        BY <2>4 DEF LabInHand, Sources, NoChecks
      <3> QED
        BY <2>1, <2>2, <3>1 DEF IdleSeen
    <2>5. CASE pc = "write"
      <3>1. Sources # {} /\ \A n \in Sources : Idle(n)
        BY <2>5 DEF WorkerReports, IdleSeen
      <3>2. \E n \in Sources : Idle(n)'
        BY <2>1, <2>2, <2>3, <3>1, IdleKept
      <3> QED
        BY <2>1, <2>2, <3>2 DEF IdleSeen
    <2>6. CASE pc = "jobs"
      <3>1. next'.phase = "Running" \/ \E n \in Sources : Idle(n)
        BY <2>1, <2>6, StopsAtIdle
      <3>2. (\E n \in Sources : Idle(n)) => \E n \in Sources : Idle(n)'
        BY <2>1, <2>2, <2>3, IdleKept
      <3> QED
        BY <2>1, <2>2, <3>1, <3>2 DEF IdleSeen
    <2> QED
      BY <2>1, <2>4, <2>5, <2>6
  <1> QED
    BY <1>1, <1>2, <1>3, <1>4, <1>5, <1>6, <1>7, WorkerMoves

-----------------------------------------------------------------------------
(* The theorems                                                              *)

\* The invariant behind the three promises.
LEMMA SyncInvariance == ASSUME ~CacheLag PROVE Spec => []SyncInv
  <1>1. Init => SyncInv
    <2> SUFFICES ASSUME Init PROVE SyncInv
      OBVIOUS
    <2>1. Clean /\ OwnRuns
      BY DEF Init, Clean, OwnRuns, Live
    <2>2. LabInHand /\ IdleSeen /\ ResultsOfThisLab
      BY DEF Init, LabInHand, IdleSeen, ResultsOfThisLab
    <2> QED
      BY <2>1, <2>2 DEF SyncInv
  <1>2. IInv /\ SyncInv /\ [Next]_vars => SyncInv'
    BY LabInHandStep, CleanStep, OwnRunsStep, IdleSeenStep, ResultsOfThisLabStep
    DEF IInv, SyncInv
  <1> QED
    BY <1>1, <1>2, Invariance, PTL DEF Spec

\* With caches that are not behind, a lab that is gone has left nothing: every Job
\* is at least marked deleted and every ConfigMap is gone, though calls failed, the
\* manager restarted and a lab of the same name came and went.
THEOREM CleanedUp == ASSUME ~CacheLag PROVE Spec => []CleanedBeforeGone
  <1>1. SyncInv => CleanedBeforeGone
    BY DEF SyncInv, Clean, Live, CleanedBeforeGone
  <1> QED
    BY <1>1, SyncInvariance, PTL

\* With caches that are not behind, a lab never reports the results of an earlier
\* lab of its name.
THEOREM ResultsOwn == ASSUME ~CacheLag PROVE Spec => []ResultsOfThisLab
  <1>1. SyncInv => ResultsOfThisLab
    BY DEF SyncInv
  <1> QED
    BY <1>1, SyncInvariance, PTL

\* With caches that are not behind, a status published while every source node's Job
\* is at work says Running, unless a call to create one of them seemed to fail.
THEOREM WaitsForJobs == ASSUME ~CacheLag PROVE Spec => RunningWhileJobsRun
  <1>1. IInv /\ SyncInv /\ [Next]_vars =>
          [(/\ lab # NoLab /\ lab' # NoLab /\ lab'.status # lab.status
            /\ Sources # {} /\ next.cond # "CreateFailed"
            /\ \A n \in Sources : jobs[n] # NoJob /\ jobs[n].phase = "active"
                                  /\ ~jobs[n].deleting /\ ~IsStale(jobs[n]))
             => lab'.status.phase = "Running"]_vars
    <2> SUFFICES ASSUME IInv, SyncInv, [Next]_vars, lab # NoLab, lab' # NoLab,
                        lab'.status # lab.status, Sources # {},
                        next.cond # "CreateFailed",
                        \A n \in Sources : jobs[n] # NoJob /\ jobs[n].phase = "active"
                                             /\ ~jobs[n].deleting /\ ~IsStale(jobs[n])
                 PROVE  lab'.status.phase = "Running"
      OBVIOUS
    <2>1. Publish
      BY OnlyPublishChangesStatus DEF IInv, LabKept
    <2>2. lab'.status = next /\ pc = "publish"
      BY <2>1, LabPublished DEF IInv
    <2>3. \A n \in Sources : ~Idle(n)
      BY DEF Idle, Live
    <2> QED
      BY <2>2, <2>3 DEF SyncInv, IdleSeen
  <1> QED
    BY <1>1, Invariance, SyncInvariance, PTL DEF Spec, RunningWhileJobsRun
=============================================================================
