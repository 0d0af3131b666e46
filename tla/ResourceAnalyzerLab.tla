------------------------ MODULE ResourceAnalyzerLab ------------------------
(***************************************************************************)
(* The ResourceAnalyzerLab reconciler                                      *)
(* (internal/controller/resourceanalyzerlab_controller.go, finalizers.go)  *)
(* with the monitoring stack it may deploy (monitoring_stack.go).          *)
(*                                                                         *)
(* As in NetworkProbeLab: one lab name, reads from the informer caches,    *)
(* writes to the API server, one step for each call that writes, a cached  *)
(* read taken in the step that uses it.  Of the monitoring stack the       *)
(* objects are kept, in the order they are applied, and the availability   *)
(* of the Prometheus Deployment; of Prometheus, whether it answers and     *)
(* how much it has scraped.                                                *)
(***************************************************************************)
EXTENDS Naturals, FiniteSets

CONSTANTS
    PrometheusParts, \* number of objects of Prometheus and kube-state-metrics (5 in the code)
    GrafanaParts,    \* number of objects of Grafana (2 in the code)
    Deployments,     \* which objects are Deployments (the 2nd, 4th and 6th)
    Deployment,      \* which of these is the one of Prometheus (the 4th)
    Wanted,          \* Wanted[g]: what generation g of the spec says
    MaxGeneration,   \* bound on spec edits
    MaxIncarnation,  \* bound on re-creations of the lab
    Disturbances,    \* the kinds of faults and outside changes that happen
    MaxDisturbances, \* bound on their number
    CacheLag,        \* may the informer caches be behind the API server?
    NoLab

Reports == {"excel", "html"}
Stack   == 1..(PrometheusParts + GrafanaParts)
ExcelMap == 1
HtmlMap  == 2
Maps     == {ExcelMap, HtmlMap}

\* auto: monitoringStack.autoDeploy; url: metrics.prometheusURL is set; step:
\* metrics.step parses.
Intent == [auto : BOOLEAN, prometheus : BOOLEAN, grafana : BOOLEAN, url : BOOLEAN,
           step : BOOLEAN, output : SUBSET Reports]

ASSUME PartsAssumption  == /\ PrometheusParts \in Nat /\ GrafanaParts \in Nat
                           /\ Deployments \subseteq Stack
                           /\ Deployment \in Deployments \cap (1..PrometheusParts)
ASSUME WantedAssumption == Wanted \in [1..MaxGeneration -> Intent]
ASSUME BoundAssumption  ==
    /\ MaxGeneration \in Nat \ {0}
    /\ MaxIncarnation \in Nat
    /\ MaxDisturbances \in Nat
    /\ CacheLag \in BOOLEAN

\* A result of the analysis, by what it was computed from: the generation of the
\* spec and the data Prometheus had (gen = 0: there is none).  A report
\* ConfigMap also has the incarnation it was written for (inc = 0: none there).
Analysis == [gen : Nat, data : Nat]
NoAnalysis == [gen |-> 0, data |-> 0]
Content  == [inc : Nat, gen : Nat, data : Nat]
NoMap    == [inc |-> 0, gen |-> 0, data |-> 0]

\* The reasons of the conditions MonitoringStackReady and PrometheusReachable;
\* that of AnalysisCompleted goes with the latter.
StackReasons == {"absent", "ApplyFailed", "WaitingForPrometheus", "ResourcesReady"}
QueryReasons == {"absent", "MonitoringStackFailed", "WaitingForPrometheus",
                 "MissingPrometheusURL", "QueryFailed", "QuerySucceeded"}
Status == [phase : {"unset", "Running", "Failed", "Succeeded"}, gen : Nat,
           summary : Analysis, monitoring : StackReasons, reachable : QueryReasons,
           exported : SUBSET Reports]
NoStatus == [phase |-> "unset", gen |-> 0, summary |-> NoAnalysis, monitoring |-> "absent",
             reachable |-> "absent", exported |-> {}]

Lab == [inc : Nat, gen : 1..MaxGeneration, deleting : BOOLEAN, finalizer : BOOLEAN, status : Status]
ASSUME AbsenceAssumption == NoLab \notin Lab

VARIABLES
    lab, maps, stack,   \* the API server: the lab, the report ConfigMaps, the stack's objects
    available,          \* the Prometheus Deployment is available
    labCache, mapCache, stackCache, availableCache, \* the informer caches
    answers, data,      \* Prometheus answers queries; what it has scraped
    queued, timer,      \* the lab's key in the workqueue; a pending RequeueAfter
    budget, incarnation,
    pc,                 \* where the worker is
    copy,               \* the lab as the reconcile read it
    left,               \* objects or ConfigMaps still to be written
    ready,              \* PrometheusReady
    answer,             \* the data of the query
    next                \* the status to publish

apiVars   == <<lab, maps, stack, available>>
cacheVars == <<labCache, mapCache, stackCache, availableCache>>
metrics   == <<answers, data>>
queueVars == <<queued, timer>>
counters  == <<budget, incarnation>>
localVars == <<copy, left, ready, answer, next>>
worldVars == <<apiVars, cacheVars, metrics, queueVars, counters>>
vars == <<worldVars, pc, localVars>>

Steps == {"idle", "deleteMaps", "removeFinalizer", "addFinalizer", "prometheus", "grafana",
          "write", "publish"}
Cached == {"absent", "stale", "fresh"}

TypeOK ==
    /\ lab \in Lab \cup {NoLab} /\ labCache \in Lab \cup {NoLab}
    /\ copy \in Lab \cup {NoLab}
    /\ maps \in [Maps -> Content] /\ mapCache \in [Maps -> Cached]
    /\ stack \in SUBSET Stack /\ stackCache \in [Stack -> Cached]
    /\ available \in BOOLEAN /\ availableCache \in BOOLEAN
    /\ answers \in BOOLEAN /\ data \in Nat
    /\ queued \in BOOLEAN /\ timer \in BOOLEAN
    /\ budget \in Nat /\ incarnation \in Nat
    /\ pc \in Steps
    /\ left \in SUBSET (Stack \cup Maps)
    /\ ready \in BOOLEAN /\ answer \in Nat /\ next \in Status

Init ==
    /\ lab = NoLab /\ labCache = NoLab
    /\ maps = [m \in Maps |-> NoMap] /\ mapCache = [m \in Maps |-> "absent"]
    /\ stack = {} /\ stackCache = [o \in Stack |-> "absent"]
    /\ available = FALSE /\ availableCache = FALSE
    /\ answers = TRUE /\ data = 1
    /\ queued = FALSE /\ timer = FALSE
    /\ budget = MaxDisturbances /\ incarnation = 0
    /\ pc = "idle" /\ copy = NoLab /\ left = {} /\ ready = FALSE /\ answer = 0
    /\ next = NoStatus

-----------------------------------------------------------------------------
(* Helpers of the reconcile                                                 *)

Synced ==
    /\ labCache = lab
    /\ \A m \in Maps : mapCache[m] = IF maps[m] = NoMap THEN "absent" ELSE "fresh"
    /\ \A o \in Stack : stackCache[o] = IF o \in stack THEN "fresh" ELSE "absent"
    /\ availableCache = available
At(step) == pc = step /\ (CacheLag \/ Synced)

Return ==
    /\ pc' = "idle" /\ copy' = NoLab /\ left' = {} /\ ready' = FALSE /\ answer' = 0
    /\ next' = NoStatus

\* The error goes to the workqueue, which retries the key after a back-off.
ReturnError == Return /\ queued' = TRUE /\ UNCHANGED timer

\* Each fault or outside change spends from the budget.
Disturb(kind) == kind \in Disturbances /\ budget > 0 /\ budget' = budget - 1

\* An API call that took effect is answered, as a rule; or the answer is lost (a
\* timeout) and the worker takes the call for one that failed.
Answered(goesOn) == goesOn /\ UNCHANGED budget
AnswerLost(fails) == Disturb("error") /\ fails

Turn(x) == x \in left /\ \A y \in left : x <= y
Skip(x) == left' = left \ {x} /\ UNCHANGED <<pc, copy, ready, answer, next>>

\* prometheusEnabled, grafanaEnabled and the URL that is used in the end.
PrometheusOn(g) == Wanted[g].auto /\ (Wanted[g].prometheus \/ ~Wanted[g].grafana)
GrafanaOn(g)    == Wanted[g].auto /\ Wanted[g].grafana
HasURL(g)       == Wanted[g].url \/ PrometheusOn(g)
PrometheusSet   == 1..PrometheusParts
GrafanaSet(g)   == IF GrafanaOn(g) THEN Stack \ PrometheusSet ELSE {}

\* MonitoringStackReady is touched only when the stack is asked for.
Monitored == IF Wanted[copy.gen].auto THEN "ResourcesReady" ELSE copy.status.monitoring

\* `next' starts as the old status: what a reconcile does not set stays.
NextStatus(phase, monitoring, reachable) ==
    [copy.status EXCEPT !.phase = phase, !.gen = copy.gen, !.monitoring = monitoring,
                        !.reachable = reachable]
Finish(status) ==
    /\ pc' = "publish" /\ next' = status /\ left' = {}
    /\ UNCHANGED <<copy, ready, answer>>
FailApply == Finish(NextStatus("Failed", "ApplyFailed", "MonitoringStackFailed"))
FailQuery == Finish(NextStatus("Failed", Monitored, "QueryFailed"))
-----------------------------------------------------------------------------
(* The start of Reconcile, deletion and the finalizer                       *)

Begin == At("idle") /\ queued /\ queued' = FALSE /\ UNCHANGED timer

ReconcileMissing ==
    /\ Begin /\ labCache = NoLab
    /\ UNCHANGED <<apiVars, cacheVars, metrics, counters, pc, localVars>>

\* Mutant: the HTML report has no label to be found by.
ReconcileDeletedExcelOnly ==
    /\ Begin /\ labCache # NoLab /\ labCache.deleting
    /\ labCache.finalizer
    /\ copy' = labCache
    /\ pc' = "deleteMaps" /\ left' = {m \in {ExcelMap} : mapCache[m] # "absent"}
    /\ UNCHANGED <<apiVars, cacheVars, metrics, counters, ready, answer, next>>

\* A lab being deleted: list the ConfigMaps with the lab's label, in the cache.
\* The monitoring stack stays.
ReconcileDeleted ==
    /\ Begin /\ labCache # NoLab /\ labCache.deleting
    /\ labCache.finalizer
    /\ copy' = labCache
    /\ pc' = "deleteMaps" /\ left' = {m \in Maps : mapCache[m] # "absent"}
    /\ UNCHANGED <<apiVars, cacheVars, metrics, counters, ready, answer, next>>

ReconcileNew ==
    /\ Begin /\ labCache # NoLab /\ ~labCache.deleting /\ ~labCache.finalizer
    /\ pc' = "addFinalizer" /\ copy' = labCache
    /\ UNCHANGED <<apiVars, cacheVars, metrics, counters, left, ready, answer, next>>

\* Mutant: a lab that has ended is not looked at again.
ReconcileLabUnlessDone ==
    /\ Begin /\ labCache # NoLab /\ ~labCache.deleting /\ labCache.finalizer
    /\ labCache.status.phase \notin {"Succeeded", "Failed"}
    /\ copy' = labCache
    /\ pc' = IF PrometheusOn(labCache.gen) THEN "prometheus" ELSE "grafana"
    /\ left' = IF PrometheusOn(labCache.gen) THEN PrometheusSet ELSE GrafanaSet(labCache.gen)
    /\ UNCHANGED <<apiVars, cacheVars, metrics, counters, ready, answer, next>>

ReconcileLab ==
    /\ Begin /\ labCache # NoLab /\ ~labCache.deleting /\ labCache.finalizer
    /\ copy' = labCache
    /\ pc' = IF PrometheusOn(labCache.gen) THEN "prometheus" ELSE "grafana"
    /\ left' = IF PrometheusOn(labCache.gen) THEN PrometheusSet ELSE GrafanaSet(labCache.gen)
    /\ UNCHANGED <<apiVars, cacheVars, metrics, counters, ready, answer, next>>

\* deleteConfigMapsByLabels, one Delete at a time.
DeleteListedMap(m) ==
    /\ At("deleteMaps") /\ Turn(m)
    /\ maps' = [maps EXCEPT ![m] = NoMap]
    /\ mapCache' = [mapCache EXCEPT ![m] = IF @ = "absent" THEN @ ELSE "stale"]
    /\ \/ Answered(Skip(m) /\ UNCHANGED queueVars)
       \/ AnswerLost(ReturnError)
    /\ UNCHANGED <<lab, stack, available, labCache, stackCache, availableCache, metrics,
                   incarnation>>

CleanupDone ==
    /\ At("deleteMaps") /\ left = {}
    /\ pc' = "removeFinalizer"
    /\ UNCHANGED <<worldVars, localVars>>

\* Mutant: the finalizer is removed from a copy that is not written.
RemoveFinalizerLocally ==
    /\ At("removeFinalizer") /\ lab = copy
    /\ lab' = copy
    /\ Return
    /\ UNCHANGED <<maps, stack, available, cacheVars, metrics, queueVars, counters>>

\* Update succeeds only on the object as it was read; without its last finalizer
\* the object disappears.
RemoveFinalizer ==
    /\ At("removeFinalizer") /\ lab = copy
    /\ lab' = NoLab
    /\ Answered(Return /\ UNCHANGED queueVars) \/ AnswerLost(ReturnError)
    /\ UNCHANGED <<maps, stack, available, cacheVars, metrics, incarnation>>

AddFinalizer ==
    /\ At("addFinalizer") /\ lab = copy
    /\ lab' = [copy EXCEPT !.finalizer = TRUE]
    /\ Answered(Return /\ UNCHANGED queueVars) \/ AnswerLost(ReturnError)
    /\ UNCHANGED <<maps, stack, available, cacheVars, metrics, incarnation>>

FinalizerConflict ==
    /\ pc \in {"removeFinalizer", "addFinalizer"} /\ lab # copy
    /\ ReturnError
    /\ UNCHANGED <<apiVars, cacheVars, metrics, counters>>

-----------------------------------------------------------------------------
(* ensureMonitoringStack                                                    *)

Applying == At("prometheus") \/ At("grafana")

\* Mutant: Create without a look whether the object exists.
PartAcceptedCreateOnly(o) == o \notin stack

\* upsert...: Get from the cache, then Create or Update.  What is written is
\* always the same, so an accepted Update changes no version.
PartAccepted(o) ==
    \/ stackCache[o] = "absent" /\ o \notin stack
    \/ stackCache[o] = "fresh"

ApplyPart(o) ==
    /\ Applying /\ Turn(o) /\ PartAccepted(o)
    /\ stack' = stack \cup {o}
    /\ Answered(Skip(o)) \/ AnswerLost(FailApply)
    /\ UNCHANGED <<lab, maps, available, cacheVars, metrics, queueVars, incarnation>>

\* AlreadyExists, or a conflict.
PartConflict(o) ==
    /\ Applying /\ Turn(o) /\ ~PartAccepted(o)
    /\ FailApply
    /\ UNCHANGED worldVars

\* deploymentAvailable: Get from the cache again, of an object that may have been
\* created a moment before.
ReadAvailability ==
    /\ At("prometheus") /\ left = {} /\ stackCache[Deployment] # "absent"
    /\ ready' = availableCache
    /\ pc' = "grafana" /\ left' = GrafanaSet(copy.gen)
    /\ UNCHANGED <<worldVars, copy, answer, next>>

DeploymentNotCached ==
    /\ At("prometheus") /\ left = {} /\ stackCache[Deployment] = "absent"
    /\ FailApply
    /\ UNCHANGED worldVars

-----------------------------------------------------------------------------
(* Prometheus, the analysis and its reports                                 *)

Applied == At("grafana") /\ left = {}

\* Mutant: the phase Pending of the API docs.
StackPendingUnknownPhase ==
    /\ Applied /\ PrometheusOn(copy.gen) /\ ~ready
    /\ Finish(NextStatus("Pending", "WaitingForPrometheus", "WaitingForPrometheus"))
    /\ UNCHANGED worldVars

StackPending ==
    /\ Applied /\ PrometheusOn(copy.gen) /\ ~ready
    /\ Finish(NextStatus("Running", "WaitingForPrometheus", "WaitingForPrometheus"))
    /\ UNCHANGED worldVars

StackReady == Applied /\ (PrometheusOn(copy.gen) => ready)

MissingURL ==
    /\ StackReady /\ ~HasURL(copy.gen)
    /\ Finish(NextStatus("Failed", Monitored, "MissingPrometheusURL"))
    /\ UNCHANGED worldVars

\* The ConfigMaps that spec.output.excel and spec.output.html ask for.
ReportMaps(g) ==
    {m \in Maps : \/ m = ExcelMap /\ "excel" \in Wanted[g].output
                  \/ m = HtmlMap /\ "html" \in Wanted[g].output}

\* The six range queries of one interval, and the analysis.
Query ==
    /\ StackReady /\ HasURL(copy.gen) /\ answers /\ Wanted[copy.gen].step
    /\ answer' = data
    /\ pc' = "write"
    /\ left' = ReportMaps(copy.gen)
    /\ UNCHANGED <<worldVars, copy, ready, next>>

\* The step does not parse, or Prometheus does not answer in time.
QueryFails ==
    /\ StackReady /\ HasURL(copy.gen) /\ ~(answers /\ Wanted[copy.gen].step)
    /\ FailQuery
    /\ UNCHANGED worldVars

MapAccepted(m) ==
    \/ mapCache[m] = "absent" /\ maps[m] = NoMap
    \/ mapCache[m] = "fresh"

\* writeExcelConfigMap, then writeHTMLConfigMap.  A write may leave the bytes as
\* they are; then the version stays too.
WriteMap(m) ==
    /\ At("write") /\ Turn(m) /\ MapAccepted(m)
    /\ maps' = [maps EXCEPT ![m] = [inc |-> copy.inc, gen |-> copy.gen, data |-> answer]]
    /\ mapCache' \in {mapCache, [mapCache EXCEPT ![m] = IF @ = "absent" THEN @ ELSE "stale"]}
    /\ Answered(Skip(m)) \/ AnswerLost(FailQuery)
    /\ UNCHANGED <<lab, stack, available, labCache, stackCache, availableCache, metrics,
                   queueVars, incarnation>>

\* Mutant: a conflict is skipped over.
MapConflictIgnored(m) ==
    /\ At("write") /\ Turn(m) /\ ~MapAccepted(m)
    /\ left' = left \ {m}
    /\ UNCHANGED <<worldVars, pc, copy, ready, answer, next>>

MapConflict(m) ==
    /\ At("write") /\ Turn(m) /\ ~MapAccepted(m)
    /\ FailQuery
    /\ UNCHANGED worldVars

AnalysisCompleted ==
    /\ At("write") /\ left = {}
    /\ Finish([NextStatus("Succeeded", Monitored, "QuerySucceeded")
                 EXCEPT !.summary = [gen |-> copy.gen, data |-> answer],
                        !.exported = @ \cup Wanted[copy.gen].output])
    /\ UNCHANGED worldVars
-----------------------------------------------------------------------------
(* Publishing the status (updateResourceAnalyzerStatus)                     *)

\* `next := lab.Status' shares the array of conditions, and setCondition changes
\* an entry that exists in place: DeepEqual sees a condition that is added, never
\* one that changes.
DeepEqual(old, new) ==
    /\ [old EXCEPT !.monitoring = new.monitoring, !.reachable = new.reachable] = new
    /\ (old.monitoring = "absent") = (new.monitoring = "absent")
    /\ (old.reachable = "absent") = (new.reachable = "absent")

\* Mutant: the status event of the write is trusted to wake the worker.
RequeueDropped == UNCHANGED timer

Requeue == timer' = (timer \/ next.phase = "Running")

PublishSame ==
    /\ At("publish") /\ DeepEqual(copy.status, next)
    /\ Requeue /\ Return
    /\ UNCHANGED <<apiVars, cacheVars, metrics, queued, counters>>

\* Mutant: a patch without a version.
PublishUnchecked ==
    /\ At("publish") /\ ~DeepEqual(copy.status, next) /\ lab # NoLab
    /\ lab' = [lab EXCEPT !.status = next]
    /\ Requeue /\ Return
    /\ UNCHANGED <<maps, stack, available, cacheVars, metrics, queued, counters>>

\* Status().Update, with the resourceVersion that was read.
Publish ==
    /\ At("publish") /\ ~DeepEqual(copy.status, next) /\ lab = copy
    /\ lab' = [copy EXCEPT !.status = next]
    /\ Answered(Requeue /\ Return /\ UNCHANGED queued) \/ AnswerLost(ReturnError)
    /\ UNCHANGED <<maps, stack, available, cacheVars, metrics, incarnation>>

PublishConflict ==
    /\ At("publish") /\ ~DeepEqual(copy.status, next) /\ lab # copy
    /\ ReturnError
    /\ UNCHANGED <<apiVars, cacheVars, metrics, counters>>

-----------------------------------------------------------------------------
(* Faults                                                                   *)

\* An API call fails for a reason of its own and changes nothing; AnswerLost is the
\* call that did take effect.  Outside the stack and the analysis the error is
\* returned ...
CallFails ==
    /\ Disturb("error")
    /\ \/ pc = "deleteMaps" /\ left # {}
       \/ pc \in {"removeFinalizer", "addFinalizer"}
       \/ pc = "publish" /\ ~DeepEqual(copy.status, next)
    /\ ReturnError
    /\ UNCHANGED <<apiVars, cacheVars, metrics, incarnation>>

\* ... inside them it becomes the status and is not returned.
PartCallFails(o) ==
    /\ Disturb("error") /\ Applying /\ Turn(o) /\ FailApply
    /\ UNCHANGED <<apiVars, cacheVars, metrics, queueVars, incarnation>>

MapCallFails(m) ==
    /\ Disturb("error") /\ At("write") /\ Turn(m) /\ FailQuery
    /\ UNCHANGED <<apiVars, cacheVars, metrics, queueVars, incarnation>>

\* The manager dies and starts again, with an empty queue and fresh caches.
Restart ==
    /\ Disturb("restart")
    /\ Return
    /\ labCache' = lab /\ availableCache' = available
    /\ mapCache' = [m \in Maps |-> IF maps[m] = NoMap THEN "absent" ELSE "fresh"]
    /\ stackCache' = [o \in Stack |-> IF o \in stack THEN "fresh" ELSE "absent"]
    /\ queued' = (lab # NoLab) /\ timer' = FALSE
    /\ UNCHANGED <<apiVars, metrics, incarnation>>

-----------------------------------------------------------------------------
(* The cluster: users, informers, the Deployment controller, Prometheus     *)

workerVars == <<pc, localVars>>

CreateLab ==
    /\ lab = NoLab /\ incarnation < MaxIncarnation
    /\ incarnation' = incarnation + 1
    /\ lab' = [inc |-> incarnation + 1, gen |-> 1, deleting |-> FALSE,
               finalizer |-> FALSE, status |-> NoStatus]
    /\ UNCHANGED <<maps, stack, available, cacheVars, metrics, queueVars, budget, workerVars>>

EditSpec ==
    /\ lab # NoLab /\ lab.gen < MaxGeneration /\ Disturb("edit")
    /\ lab' = [lab EXCEPT !.gen = @ + 1]
    /\ UNCHANGED <<maps, stack, available, cacheVars, metrics, queueVars, incarnation,
                   workerVars>>

DeleteLab ==
    /\ lab # NoLab /\ ~lab.deleting /\ Disturb("delete")
    /\ lab' = IF lab.finalizer THEN [lab EXCEPT !.deleting = TRUE] ELSE NoLab
    /\ UNCHANGED <<maps, stack, available, cacheVars, metrics, queueVars, incarnation,
                   workerVars>>

\* The Deployment controller writes to the Deployment's status: a new version.
SetAvailable(value) ==
    /\ available' = value
    /\ stackCache' = [stackCache EXCEPT ![Deployment] = IF @ = "absent" THEN @ ELSE "stale"]
    /\ UNCHANGED <<lab, maps, stack, labCache, mapCache, availableCache, metrics, queueVars,
                   incarnation, workerVars>>

PrometheusStarts ==
    /\ Deployment \in stack /\ ~available
    /\ SetAvailable(TRUE) /\ UNCHANGED budget
PrometheusStops == available /\ Disturb("stop") /\ SetAvailable(FALSE)

\* The controller writes to the status of a Deployment for another reason, or to
\* that of kube-state-metrics or Grafana.
WriteStatus(o) ==
    /\ o \in Deployments \cap stack /\ Disturb("status")
    /\ stackCache' = [stackCache EXCEPT ![o] = IF @ = "absent" THEN @ ELSE "stale"]
    /\ UNCHANGED <<apiVars, labCache, mapCache, availableCache, metrics, queueVars,
                   incarnation, workerVars>>

\* Prometheus stops answering, answers again, scrapes.
PrometheusFails ==
    /\ answers /\ Disturb("outage") /\ answers' = FALSE
    /\ UNCHANGED <<apiVars, cacheVars, data, queueVars, incarnation, workerVars>>
PrometheusRecovers ==
    /\ ~answers /\ answers' = TRUE
    /\ UNCHANGED <<apiVars, cacheVars, data, queueVars, counters, workerVars>>
Scrape ==
    /\ Disturb("scrape") /\ data' = data + 1
    /\ UNCHANGED <<apiVars, cacheVars, answers, queueVars, incarnation, workerVars>>

\* A watch event of the lab reaches the cache and queues the key.
DeliverLab ==
    /\ labCache # lab
    /\ labCache' = lab /\ queued' = TRUE
    /\ UNCHANGED <<apiVars, mapCache, stackCache, availableCache, metrics, timer, counters,
                   workerVars>>

\* The stack and the ConfigMaps are cached but trigger no reconcile.
DeliverPart(o) ==
    /\ stackCache' = [stackCache EXCEPT ![o] = IF o \in stack THEN "fresh" ELSE "absent"]
    /\ availableCache' = IF o = Deployment THEN available ELSE availableCache
    /\ stackCache' # stackCache
    /\ UNCHANGED <<apiVars, labCache, mapCache, metrics, queueVars, counters, workerVars>>

DeliverMap(m) ==
    /\ mapCache' = [mapCache EXCEPT ![m] = IF maps[m] = NoMap THEN "absent" ELSE "fresh"]
    /\ mapCache' # mapCache
    /\ UNCHANGED <<apiVars, labCache, stackCache, availableCache, metrics, queueVars, counters,
                   workerVars>>

TimerFires ==
    /\ timer /\ timer' = FALSE /\ queued' = TRUE
    /\ UNCHANGED <<apiVars, cacheVars, metrics, counters, workerVars>>

\* The informer's periodic resync.
Resync ==
    /\ labCache # NoLab /\ ~queued /\ queued' = TRUE
    /\ UNCHANGED <<apiVars, cacheVars, metrics, timer, counters, workerVars>>
-----------------------------------------------------------------------------
Cleanup ==
    \/ ReconcileDeleted
    \/ \E m \in Maps : DeleteListedMap(m)
    \/ CleanupDone \/ RemoveFinalizer

Monitoring ==
    \/ \E o \in Stack : ApplyPart(o) \/ PartConflict(o)
    \/ ReadAvailability \/ DeploymentNotCached \/ StackPending

Analyze ==
    \/ MissingURL \/ Query \/ QueryFails
    \/ \E m \in Maps : WriteMap(m) \/ MapConflict(m)
    \/ AnalysisCompleted

Reconcile ==
    \/ ReconcileMissing \/ ReconcileNew \/ ReconcileLab
    \/ AddFinalizer \/ FinalizerConflict \/ Cleanup
    \/ Monitoring \/ Analyze
    \/ PublishSame \/ Publish \/ PublishConflict

Fault ==
    \/ CallFails \/ Restart
    \/ \E o \in Stack : PartCallFails(o)
    \/ \E m \in Maps : MapCallFails(m)

Deliver ==
    DeliverLab \/ (\E o \in Stack : DeliverPart(o)) \/ (\E m \in Maps : DeliverMap(m))

Outside ==
    \/ CreateLab \/ EditSpec \/ DeleteLab
    \/ PrometheusStarts \/ PrometheusStops \/ \E o \in Stack : WriteStatus(o)
    \/ PrometheusFails \/ PrometheusRecovers \/ Scrape

Next == Reconcile \/ Fault \/ Outside \/ Deliver \/ TimerFires \/ Resync

\* The worker runs while there is work, watches deliver, timers fire, the resync
\* period passes.  Nothing is assumed of Prometheus.
Fairness ==
    /\ WF_vars(Reconcile) /\ WF_vars(DeliverLab)
    /\ \A o \in Stack : WF_vars(DeliverPart(o))
    /\ \A m \in Maps : WF_vars(DeliverMap(m))
    /\ WF_vars(TimerFires) /\ WF_vars(Resync)

Spec     == Init /\ [][Next]_vars
FairSpec == Spec /\ Fairness

-----------------------------------------------------------------------------
(* Properties                                                               *)

\* A status with the summary of its own generation.
Complete(s) == s.summary.gen = s.gen /\ s.gen # 0

\* The lab as its user sees it, and what LabPromise promises of it.
View ==
    IF lab = NoLab THEN NoLab
    ELSE [gen |-> lab.gen, deleting |-> lab.deleting, seen |-> lab.status.gen,
          phase |-> lab.status.phase, complete |-> Complete(lab.status)]
Promise == INSTANCE LabPromise WITH object <- View, Absent <- NoLab

ASSUME ViewAssumption == NoLab \notin Promise!Objects

\* The reconciler keeps the promise of LabPromise: the summary of a success is
\* that of its generation, though a failure leaves the old one in the status.
KeepsPromise == Promise!Spec

\* A lab that is being deleted disappears, and every generation is reported on,
\* whatever call failed or conflicted on the way.
DeletionCompletes == Promise!Removed
EveryGenerationNoticed == Promise!Noticed

\* The reports behind a success are there, written for this lab, and as new as the
\* summary in the status: both come from one analysis, or a later one failed after
\* it wrote the report.
ReportsBehindStatus ==
    (lab # NoLab /\ ~lab.deleting /\ lab.status.phase = "Succeeded")
      => \A m \in ReportMaps(lab.status.gen) :
           /\ maps[m].inc = lab.inc /\ maps[m].gen >= lab.status.gen
           /\ maps[m].data >= lab.status.summary.data

\* When neither the queue, a timer nor a watch event will wake the idle worker, the
\* lab is gone or its generation has ended in success or failure: a lab is never
\* left Running.  (The resync, hours away, is not counted on.)
NothingForgotten ==
    (pc = "idle" /\ ~queued /\ ~timer /\ labCache = lab /\ lab # NoLab)
      => /\ ~lab.deleting
         /\ lab.status.gen = lab.gen
         /\ lab.status.phase \in {"Succeeded", "Failed"}

\* design.md: "Both lab controllers use finalizers to clean generated artifacts
\* before CR deletion completes."
CleanedBeforeGone == lab = NoLab => \A m \in Maps : maps[m] = NoMap

\* design.md: with autoDeploy "the controller creates lightweight Prometheus, ...
\* waits for Prometheus availability": while the objects it creates come up, no call
\* having failed, the lab is not Failed.
WaitsForPrometheus ==
    [][(/\ lab # NoLab /\ lab' # NoLab /\ lab'.status # lab.status
        /\ PrometheusOn(lab.gen) /\ PrometheusSet \subseteq stack /\ ~available
        /\ budget = MaxDisturbances)
         => lab'.status.phase = "Running"]_vars

\* cr-implementation-flow-and-validation.md: the branch of a missing Prometheus URL
\* ends in "update CR status": a reconcile that ends there and writes no status has
\* nothing new to say.
SilentOnlyWhenSame ==
    [][(/\ pc = "publish" /\ pc' = "idle" /\ UNCHANGED lab /\ ~queued'
        /\ next.reachable = "MissingPrometheusURL")
         => next = copy.status]_vars

\* Prometheus answers, is deployed where that is asked for, and scrapes no more.
Analyzable ==
    /\ lab # NoLab /\ ~lab.deleting /\ answers
    /\ Wanted[lab.gen].step /\ HasURL(lab.gen)
    /\ PrometheusOn(lab.gen) => available
Analyzed ==
    /\ lab # NoLab
    /\ lab.status.phase = "Succeeded"
    /\ lab.status.summary = [gen |-> lab.gen, data |-> data]

\* An analysis that stays possible is published in the end, on the newest data: no
\* failed apply, conflict or outage keeps it out for good.
AnalysisGetsPublished == <>[]Analyzable => []<>Analyzed
-----------------------------------------------------------------------------
(* The inductive invariant of the proofs in ResourceAnalyzerLabProofs       *)

\* The worker reconciles a lab it read: an analysis on one not being deleted, a
\* cleanup on one being deleted.
WorkerHasLab ==
    /\ pc # "idle" => copy # NoLab
    /\ pc \in {"prometheus", "grafana", "write", "publish"} => copy.finalizer /\ ~copy.deleting
    /\ pc \in {"deleteMaps", "removeFinalizer"} => copy.deleting

\* What the worker is about to publish is of the generation it read, a success has
\* the summary of it, and whatever else was there comes from the status it read.
WorkerStatus ==
    pc = "publish" =>
      /\ next.gen = copy.gen /\ next.phase # "unset"
      /\ next.phase = "Succeeded" => next.summary.gen = next.gen
      /\ next.phase # "Succeeded" => next.summary = copy.status.summary

\* No status before the finalizer.
FinalizerFirst == (lab # NoLab /\ ~lab.finalizer) => lab.status.gen = 0

\* x is the lab of now, though perhaps an old version of it.
Sighting(x) == x # NoLab /\ lab # NoLab /\ x.inc = lab.inc

\* Versions only grow: the worker's copy is not newer than the cache, nor the cache
\* than the API server.
VersionsInOrder ==
    /\ \A x \in {lab, labCache, copy} : x # NoLab => x.inc <= incarnation
    /\ \A x \in {labCache, copy} :
         Sighting(x) => x.gen <= lab.gen /\ (x.deleting => lab.deleting)
    /\ Sighting(copy) => Sighting(labCache) /\ copy.gen <= labCache.gen

\* Whoever reads a lab that has a status reads a version from which that status, or
\* a later one, could have been computed.
StatusWasRead ==
    (lab # NoLab /\ lab.status.phase # "unset") =>
      /\ Sighting(labCache) /\ lab.status.gen <= labCache.gen
      /\ copy # NoLab => Sighting(copy) /\ lab.status.gen <= copy.gen

\* No summary is newer than Prometheus, nor than the analysis under way.
SummaryInPast ==
    /\ answer <= data
    /\ \A x \in {lab, labCache, copy} : x # NoLab => x.status.summary.data <= data
    /\ (pc = "write" /\ lab # NoLab) => lab.status.summary.data <= answer
    /\ pc = "publish" => next.summary.data <= data

\* The reports written so far are those of the analysis under way.
ReportsWritten ==
    /\ pc = "write" =>
         \A m \in ReportMaps(copy.gen) \ left :
            maps[m] = [inc |-> copy.inc, gen |-> copy.gen, data |-> answer]
    /\ (pc = "publish" /\ next.phase = "Succeeded") =>
         \A m \in ReportMaps(copy.gen) :
            maps[m] = [inc |-> copy.inc, gen |-> copy.gen, data |-> next.summary.data]

IInv ==
    /\ TypeOK /\ WorkerHasLab /\ WorkerStatus /\ FinalizerFirst
    /\ VersionsInOrder /\ StatusWasRead /\ SummaryInPast /\ ReportsWritten
    /\ ReportsBehindStatus
=============================================================================
