-------------------------- MODULE NetworkProbeLab --------------------------
(***************************************************************************)
(* The NetworkProbeLab reconciler of smtx-lab-operator                     *)
(* (internal/controller/networkprobelab_controller.go, finalizers.go) and  *)
(* the parts of Kubernetes it works against: the API server's objects, the *)
(* informer caches the controller reads instead of them, the workqueue,    *)
(* and the Job controller that runs the probe Jobs.                        *)
(*                                                                         *)
(* One lab name is modelled.  The lab object may be deleted and created    *)
(* again under the same name: `inc' tells the incarnations apart (the      *)
(* object's UID), `gen' is metadata.generation.                            *)
(*                                                                         *)
(* Reads go to caches, writes to the API server.  A reconcile is a         *)
(* sequence of steps, one for each call that writes; a cached read is      *)
(* taken in the step of the write that follows it, which loses nothing     *)
(* because only the reconcile reads the caches and a delivery may always   *)
(* happen after the step instead of before it.                             *)
(***************************************************************************)
EXTENDS Naturals, FiniteSets

CONSTANTS
    NodeCount,      \* the nodes are 1..NodeCount, numbered in sorted order
    Hashes,         \* values of the checks-hash annotation
    NoHash,         \* the "hash" of a node that has no checks
    TargetSets,     \* the check lists the matched pods and services can give
    Output,         \* Output[g]: the artifacts generation g of the spec asks for
    Observations,   \* sets of nodes from which a snapshot round can succeed
    Outcomes,       \* what termination messages say: "ok", "bad" or "garbled"
    MaxGeneration,  \* bound on spec edits
    MaxIncarnation, \* bound on re-creations of the lab
    Disturbances,   \* the kinds of faults and outside changes that happen
    MaxDisturbances,\* bound on their number (see `budget')
    CacheLag,       \* may the informer caches be behind the API server?
    NoLab, NoJob

Nodes == 1..NodeCount
Kinds == {"raw", "excel", "html"}

\* The ConfigMaps of the lab, numbered in the order a run writes them: one raw
\* snapshot per node, then the Excel and the HTML report.
ExcelMap == NodeCount + 1
HtmlMap  == NodeCount + 2
Maps     == 1..(NodeCount + 2)

CheckLists == [Nodes -> Hashes \cup {NoHash}]
NoChecks   == [n \in Nodes |-> NoHash]

ASSUME NodeAssumption   == NodeCount \in Nat \ {0}
ASSUME HashAssumption   == NoHash \notin Hashes
ASSUME TargetAssumption == TargetSets \subseteq CheckLists /\ TargetSets # {}
ASSUME BoundAssumption  ==
    /\ MaxGeneration \in Nat \ {0}
    /\ MaxIncarnation \in Nat
    /\ MaxDisturbances \in Nat
    /\ CacheLag \in BOOLEAN
ASSUME OutputAssumption == Output \in [1..MaxGeneration -> SUBSET Kinds]
ASSUME OutcomeAssumption == Outcomes \subseteq {"ok", "bad", "garbled"}
ASSUME ObservationAssumption == Observations \subseteq SUBSET Nodes /\ Observations # {}

\* A run of the probe binary: the Job that executes it.  uid is the Job's UID;
\* gen and hash are its annotations; inc is history, no annotation records it.
Run == [uid : Nat, node : Nodes, inc : Nat, gen : Nat, hash : Hashes]

Job == [run : Run, phase : {"active", "succeeded", "failed"}, deleting : BOOLEAN]

\* A terminated probe pod: owner is the UID of its controlling Job (0 after the
\* Job was deleted and the pod orphaned), out what its termination message says.
Pod      == [owner : Nat, run : Run, out : Outcomes]

Result == [run : Run, ok : BOOLEAN]

\* cond is the ProbeCompleted condition, its reason or its error message;
\* exported the set of ...Exported conditions that are present.
Reasons == {"absent", "ProbeJobsRunning", "Completed", "NoTargets",
            "CreateFailed", "DeleteFailed", "JobFailed", "Unreadable", "MapFailed"}
Status == [phase : {"unset", "Running", "Failed", "Succeeded"}, gen : Nat,
           total : SUBSET Nodes, results : SUBSET Result, nodes : SUBSET Nodes,
           cond : Reasons, exported : SUBSET Kinds]
NoStatus == [phase |-> "unset", gen |-> 0, total |-> {}, results |-> {}, nodes |-> {},
             cond |-> "absent", exported |-> {}]

Lab == [inc : Nat, gen : 1..MaxGeneration, deleting : BOOLEAN, finalizer : BOOLEAN, status : Status]

\* What a report ConfigMap was written for; inc = 0: there is no such ConfigMap.
Content == [inc : Nat, gen : Nat]
NoMap   == [inc |-> 0, gen |-> 0]

ASSUME AbsenceAssumption == NoLab \notin Lab /\ NoJob \notin Job

VARIABLES
    lab, jobs, pods, maps,                  \* the API server
    labCache, jobCache, podCache, mapCache, \* the manager's informer caches
    targets,    \* the checks the pods and services of the cluster give now
    queued,     \* the lab's key is in the workqueue
    timer,      \* a RequeueAfter of the lab's key is pending
    budget,     \* outside changes and faults still to come
    nextUid,    \* the UID of the next Job
    incarnation,\* the labs created so far
    pc,         \* where the one reconcile worker is
    copy,       \* the lab as the reconcile read it
    want,       \* the checks of this reconcile, by source node
    left,       \* nodes or ConfigMaps a loop has still to visit
    pending,    \* some Job is not finished
    reports,    \* the reports read so far
    observed,   \* the nodes whose snapshot was collected
    next        \* the status to publish

apiVars    == <<lab, jobs, pods, maps>>
cacheVars  == <<labCache, jobCache, podCache, mapCache>>
queueVars  == <<queued, timer>>
counters   == <<budget, nextUid, incarnation>>
localVars  == <<copy, want, left, pending, reports, observed, next>>
worldVars  == <<apiVars, cacheVars, targets, queueVars, counters>>
vars == <<worldVars, pc, localVars>>

Steps == {"idle", "deleteJobs", "deleteMaps", "removeFinalizer", "addFinalizer",
          "list", "jobs", "write", "publish"}

TypeOK ==
    /\ lab \in Lab \cup {NoLab} /\ labCache \in Lab \cup {NoLab}
    /\ copy \in Lab \cup {NoLab}
    /\ jobs \in [Nodes -> Job \cup {NoJob}] /\ jobCache \in [Nodes -> Job \cup {NoJob}]
    /\ pods \in SUBSET Pod /\ podCache \in SUBSET Pod
    /\ maps \in [Maps -> Content] /\ mapCache \in [Maps -> {"absent", "stale", "fresh"}]
    /\ targets \in CheckLists /\ want \in CheckLists
    /\ queued \in BOOLEAN /\ timer \in BOOLEAN /\ pending \in BOOLEAN
    /\ budget \in Nat /\ nextUid \in Nat /\ incarnation \in Nat
    /\ pc \in Steps
    /\ left \in SUBSET Maps
    /\ reports \in SUBSET Result
    /\ observed \in SUBSET Nodes
    /\ next \in Status

Init ==
    /\ lab = NoLab /\ labCache = NoLab
    /\ jobs = [n \in Nodes |-> NoJob] /\ jobCache = jobs
    /\ pods = {} /\ podCache = {}
    /\ maps = [m \in Maps |-> NoMap] /\ mapCache = [m \in Maps |-> "absent"]
    /\ targets \in TargetSets
    /\ queued = FALSE /\ timer = FALSE
    /\ budget = MaxDisturbances /\ nextUid = 1 /\ incarnation = 0
    /\ pc = "idle" /\ copy = NoLab /\ want = NoChecks /\ left = {} /\ pending = FALSE
    /\ reports = {} /\ observed = {} /\ next = NoStatus

-----------------------------------------------------------------------------
(* Helpers of the reconcile                                                 *)

\* The worker's steps read the caches; without lag they are never behind.
Synced ==
    /\ labCache = lab /\ jobCache = jobs /\ podCache = pods
    /\ \A m \in Maps : mapCache[m] = IF maps[m] = NoMap THEN "absent" ELSE "fresh"
At(step) == pc = step /\ (CacheLag \/ Synced)

\* Reconcile returns: its local variables are gone.
Return ==
    /\ pc' = "idle" /\ copy' = NoLab /\ want' = NoChecks /\ left' = {}
    /\ pending' = FALSE /\ reports' = {} /\ observed' = {} /\ next' = NoStatus

\* Mutant: the error is logged and swallowed.
ReturnErrorSwallowed == Return /\ UNCHANGED queueVars

\* Reconcile returns an error: the workqueue retries the key after a back-off.
ReturnError == Return /\ queued' = TRUE /\ UNCHANGED timer

\* Faults and outside changes are bounded: each one spends from the budget.
Disturb(kind) == kind \in Disturbances /\ budget > 0 /\ budget' = budget - 1

\* An API call that took effect is answered, as a rule; or the answer is lost (a
\* timeout) and the worker takes the call for one that failed.
Answered(goesOn) == goesOn /\ UNCHANGED budget
AnswerLost(fails) == Disturb("error") /\ fails

\* The loops visit nodes and ConfigMaps in order: this one is next.
Turn(x) == x \in left /\ \A y \in left : x <= y
Skip(x) ==
    left' = left \ {x} /\ UNCHANGED <<pc, copy, want, pending, reports, observed, next>>

Sources == {n \in Nodes : want[n] # NoHash}

\* The status computed from a run that ended in `cond'.  The ...Exported
\* conditions are only ever added, for the outputs of a completed run.
NextStatus(phase, cond, total, results, nodes) ==
    [phase |-> phase, gen |-> copy.gen, total |-> total, results |-> results,
     nodes |-> nodes, cond |-> cond,
     exported |-> copy.status.exported \cup
                  (IF cond = "Completed" THEN Output[copy.gen] ELSE {})]

\* runNetworkProbe returned: Reconcile goes on to publish what it gave.
Finish(phase, cond, total, results, nodes) ==
    /\ pc' = "publish"
    /\ next' = NextStatus(phase, cond, total, results, nodes)
    /\ left' = {}
    /\ UNCHANGED <<copy, want, pending, reports, observed>>
FailRun(cond) == Finish("Failed", cond, Sources, {}, {})

\* The object has a deletion timestamp from now on (there is no precondition on
\* UID or version: whatever has this name now is deleted).
DeletedJob(n) ==
    IF jobs[n] = NoJob THEN jobs ELSE [jobs EXCEPT ![n].deleting = TRUE]

-----------------------------------------------------------------------------
(* The start of Reconcile, deletion and the finalizer                       *)

\* The key is taken from the queue and the lab read from the cache.
Begin == At("idle") /\ queued /\ queued' = FALSE /\ UNCHANGED timer

ReconcileMissing ==
    /\ Begin /\ labCache = NoLab
    /\ UNCHANGED <<apiVars, cacheVars, targets, counters, pc, localVars>>

\* Mutant: only the ConfigMaps are cleaned up.
ReconcileDeletedKeepJobs ==
    /\ Begin /\ labCache # NoLab /\ labCache.deleting
    /\ labCache.finalizer
    /\ copy' = labCache
    /\ pc' = "deleteJobs" /\ left' = {}
    /\ UNCHANGED <<apiVars, cacheVars, targets, counters, want, pending,
                   reports, observed, next>>

\* A lab being deleted: list the Jobs with the lab's label, in the cache.
ReconcileDeleted ==
    /\ Begin /\ labCache # NoLab /\ labCache.deleting
    /\ labCache.finalizer
    /\ copy' = labCache
    /\ pc' = "deleteJobs" /\ left' = {n \in Nodes : jobCache[n] # NoJob}
    /\ UNCHANGED <<apiVars, cacheVars, targets, counters, want, pending,
                   reports, observed, next>>

ReconcileNew ==
    /\ Begin /\ labCache # NoLab /\ ~labCache.deleting /\ ~labCache.finalizer
    /\ pc' = "addFinalizer" /\ copy' = labCache
    /\ UNCHANGED <<apiVars, cacheVars, targets, counters, want, left, pending,
                   reports, observed, next>>

\* Mutant: a lab that failed for this generation is not looked at again.
ReconcileLabOnce ==
    /\ Begin /\ labCache # NoLab /\ ~labCache.deleting /\ labCache.finalizer
    /\ ~(labCache.status.phase = "Failed" /\ labCache.status.gen = labCache.gen)
    /\ pc' = "list" /\ copy' = labCache
    /\ UNCHANGED <<apiVars, cacheVars, targets, counters, want, left, pending,
                   reports, observed, next>>

ReconcileLab ==
    /\ Begin /\ labCache # NoLab /\ ~labCache.deleting /\ labCache.finalizer
    /\ pc' = "list" /\ copy' = labCache
    /\ UNCHANGED <<apiVars, cacheVars, targets, counters, want, left, pending,
                   reports, observed, next>>

\* deleteJobsByLabels, one Delete at a time.
DeleteListedJob(n) ==
    /\ At("deleteJobs") /\ Turn(n)
    /\ jobs' = DeletedJob(n)
    /\ \/ Answered(Skip(n) /\ UNCHANGED queueVars)
       \/ AnswerLost(ReturnError)
    /\ UNCHANGED <<lab, pods, maps, cacheVars, targets, nextUid, incarnation>>

\* The Jobs are deleted; list the ConfigMaps with the lab's label.
ListMaps ==
    /\ At("deleteJobs") /\ left = {}
    /\ pc' = "deleteMaps" /\ left' = {m \in Maps : mapCache[m] # "absent"}
    /\ UNCHANGED <<worldVars, copy, want, pending, reports, observed, next>>

DeleteListedMap(m) ==
    /\ At("deleteMaps") /\ Turn(m)
    /\ maps' = [maps EXCEPT ![m] = NoMap]
    /\ mapCache' = [mapCache EXCEPT ![m] = IF @ = "absent" THEN @ ELSE "stale"]
    /\ \/ Answered(Skip(m) /\ UNCHANGED queueVars)
       \/ AnswerLost(ReturnError)
    /\ UNCHANGED <<lab, jobs, pods, labCache, jobCache, podCache, targets, nextUid,
                   incarnation>>

CleanupDone ==
    /\ At("deleteMaps") /\ left = {}
    /\ pc' = "removeFinalizer"
    /\ UNCHANGED <<worldVars, localVars>>

\* Mutant: the finalizer is removed from a copy that is not written.
RemoveFinalizerLocally ==
    /\ At("removeFinalizer") /\ lab = copy
    /\ lab' = copy
    /\ Return
    /\ UNCHANGED <<jobs, pods, maps, cacheVars, targets, queueVars, counters>>

\* Update carries the resourceVersion that was read: it succeeds only on the
\* object as it was read.  With its last finalizer gone the object disappears.
RemoveFinalizer ==
    /\ At("removeFinalizer") /\ lab = copy
    /\ lab' = NoLab
    /\ Answered(Return /\ UNCHANGED queueVars) \/ AnswerLost(ReturnError)
    /\ UNCHANGED <<jobs, pods, maps, cacheVars, targets, nextUid, incarnation>>

AddFinalizer ==
    /\ At("addFinalizer") /\ lab = copy
    /\ lab' = [copy EXCEPT !.finalizer = TRUE]
    /\ Answered(Return /\ UNCHANGED queueVars) \/ AnswerLost(ReturnError)
    /\ UNCHANGED <<jobs, pods, maps, cacheVars, targets, nextUid, incarnation>>

FinalizerConflict ==
    /\ pc \in {"removeFinalizer", "addFinalizer"} /\ lab # copy
    /\ ReturnError
    /\ UNCHANGED <<apiVars, cacheVars, targets, counters>>

-----------------------------------------------------------------------------
(* runNetworkProbe: check lists, Jobs, snapshots, reports                   *)

\* listProbePods, listProbeServices and buildProbeChecks: the check list the
\* cluster gives now.  None at all is an error.
ListTargets ==
    /\ At("list") /\ targets # NoChecks
    /\ pc' = "jobs" /\ want' = targets
    /\ left' = {n \in Nodes : targets[n] # NoHash}
    /\ UNCHANGED <<worldVars, copy, pending, reports, observed, next>>

NoTargets ==
    /\ At("list") /\ targets = NoChecks
    /\ Finish("Failed", "NoTargets", {}, {}, {})
    /\ UNCHANGED worldVars

\* ensureAndReadProbeJobs is at node n; Seen(n) is the Job in the cache.
Visit(n) == At("jobs") /\ Turn(n)
Seen(n)  == jobCache[n]

\* Mutant: the hash annotation is left out.
NewJobWithoutHash(n) ==
    [run |-> [uid |-> nextUid, node |-> n, inc |-> copy.inc, gen |-> copy.gen,
              hash |-> NoHash],
     phase |-> "active", deleting |-> FALSE]

NewJob(n) ==
    [run |-> [uid |-> nextUid, node |-> n, inc |-> copy.inc, gen |-> copy.gen,
              hash |-> want[n]],
     phase |-> "active", deleting |-> FALSE]

\* Mutant: the last node visited decides whether the run is pending.
ContinueLastWins(n, unfinished, read) ==
    /\ left' = left \ {n}
    /\ pending' = unfinished
    /\ reports' = reports \cup read
    /\ UNCHANGED <<pc, copy, want, observed, next>>

\* The loop's `continue': go to the next node, with a Job outstanding or with a
\* report more.
Continue(n, unfinished, read) ==
    /\ left' = left \ {n}
    /\ pending' = (pending \/ unfinished)
    /\ reports' = reports \cup read
    /\ UNCHANGED <<pc, copy, want, observed, next>>

\* The Job is not in the cache and Create is accepted.
CreateJob(n) ==
    /\ Visit(n) /\ Seen(n) = NoJob /\ jobs[n] = NoJob
    /\ jobs' = [jobs EXCEPT ![n] = NewJob(n)]
    /\ nextUid' = nextUid + 1
    /\ Answered(Continue(n, TRUE, {})) \/ AnswerLost(FailRun("CreateFailed"))
    /\ UNCHANGED <<lab, pods, maps, cacheVars, targets, queueVars, incarnation>>

\* The Job is not in the cache and yet exists: Create returns AlreadyExists and
\* the run fails at this node, whatever the Jobs of the later nodes.
CreateExists(n) ==
    /\ Visit(n) /\ Seen(n) = NoJob /\ jobs[n] # NoJob
    /\ FailRun("CreateFailed")
    /\ UNCHANGED worldVars

\* Mutant: a Job being deleted is taken for what it was.
AwaitDeletionSkipped(n) ==
    /\ Visit(n) /\ Seen(n) # NoJob /\ Seen(n).deleting
    /\ \E p \in podCache : p.owner = Seen(n).run.uid
          /\ Continue(n, FALSE, {[run |-> p.run, ok |-> p.out = "ok"]})
    /\ UNCHANGED worldVars

\* A Job with a deletion timestamp is waited for.
AwaitDeletion(n) ==
    /\ Visit(n) /\ Seen(n) # NoJob /\ Seen(n).deleting
    /\ Continue(n, TRUE, {})
    /\ UNCHANGED worldVars

\* Annotations that match neither this check list nor this generation.
IsStale(job) == job.run.hash # want[job.run.node] \/ job.run.gen # copy.gen

\* Mutant: delete and create again at once, without waiting for the cache.
DeleteStaleJobAndRecreate(n) ==
    /\ Visit(n) /\ Seen(n) # NoJob /\ ~Seen(n).deleting /\ IsStale(Seen(n))
    /\ jobs' = [jobs EXCEPT ![n] = NewJob(n)]
    /\ nextUid' = nextUid + 1
    /\ Continue(n, TRUE, {})
    /\ UNCHANGED <<lab, pods, maps, cacheVars, targets, queueVars, budget, incarnation>>

DeleteStaleJob(n) ==
    /\ Visit(n) /\ Seen(n) # NoJob /\ ~Seen(n).deleting /\ IsStale(Seen(n))
    /\ jobs' = DeletedJob(n)
    /\ Answered(Continue(n, TRUE, {})) \/ AnswerLost(FailRun("DeleteFailed"))
    /\ UNCHANGED <<lab, pods, maps, cacheVars, targets, queueVars, nextUid, incarnation>>

UsableJob(n) == Visit(n) /\ Seen(n) # NoJob /\ ~Seen(n).deleting /\ ~IsStale(Seen(n))

\* Mutant: any pod with the label job-name will do.
OwnedByAny(pod, job) == pod.owner >= 0

\* ownedByJob
OwnedBy(pod, job) == pod.owner = job.run.uid

\* readProbeJobReport: the pods with the label job-name, of these the ones the
\* Job owns; the message of one of them is the report.
ReportPods(n) == {p \in podCache : p.run.node = n /\ OwnedBy(p, Seen(n))}

ReadReport(n) ==
    /\ UsableJob(n) /\ Seen(n).phase = "succeeded"
    /\ \E p \in ReportPods(n) :
         /\ p.out # "garbled"
         /\ Continue(n, FALSE, {[run |-> p.run, ok |-> p.out = "ok"]})
    /\ UNCHANGED worldVars

\* No owned pod is in the cache, or its message does not parse.
ReportUnreadable(n) ==
    /\ UsableJob(n) /\ Seen(n).phase = "succeeded"
    /\ \A p \in ReportPods(n) : p.out = "garbled"
    /\ FailRun("Unreadable")
    /\ UNCHANGED worldVars

\* Mutant: a Job that has not succeeded by now is taken for failed.
SeeFailedJobUnlessDone(n) ==
    /\ UsableJob(n) /\ Seen(n).phase # "succeeded"
    /\ FailRun("JobFailed")
    /\ UNCHANGED worldVars

SeeFailedJob(n) ==
    /\ UsableJob(n) /\ Seen(n).phase = "failed"
    /\ FailRun("JobFailed")
    /\ UNCHANGED worldVars

SeeActiveJob(n) ==
    /\ UsableJob(n) /\ Seen(n).phase = "active"
    /\ Continue(n, TRUE, {})
    /\ UNCHANGED worldVars

JobsPending ==
    /\ At("jobs") /\ left = {} /\ pending
    /\ Finish("Running", "ProbeJobsRunning", Sources, {}, {})
    /\ UNCHANGED worldVars

\* Every Job has reported: ask the node agents.  A node that does not answer is
\* left out.  `left' becomes the ConfigMaps to write.
CollectSnapshots ==
    /\ At("jobs") /\ left = {} /\ ~pending
    /\ \E nodes \in Observations :
         /\ observed' = nodes
         /\ left' = (IF "raw" \in Output[copy.gen] THEN nodes ELSE {})
                    \cup (IF "excel" \in Output[copy.gen] THEN {ExcelMap} ELSE {})
                    \cup (IF "html" \in Output[copy.gen] THEN {HtmlMap} ELSE {})
    /\ pc' = "write"
    /\ UNCHANGED <<worldVars, copy, want, pending, reports, next>>

\* Get from the cache, then Create or Update.  The write is accepted when the
\* cache is right about the object: absent, or at its current version.
MapAccepted(m) ==
    \/ mapCache[m] = "absent" /\ maps[m] = NoMap
    \/ mapCache[m] = "fresh"

\* An error in the raw snapshots leaves the results out of the status; an error
\* in a report does not.
FailWrite(m) ==
    IF m \in Nodes THEN FailRun("MapFailed")
    ELSE Finish("Failed", "MapFailed", Sources, reports, observed)

\* A write may leave the bytes as they are; then the version stays too.
WriteMap(m) ==
    /\ At("write") /\ Turn(m) /\ MapAccepted(m)
    /\ maps' = [maps EXCEPT ![m] = [inc |-> copy.inc, gen |-> copy.gen]]
    /\ mapCache' \in {mapCache, [mapCache EXCEPT ![m] = IF @ = "absent" THEN @ ELSE "stale"]}
    /\ Answered(Skip(m)) \/ AnswerLost(FailWrite(m))
    /\ UNCHANGED <<lab, jobs, pods, labCache, jobCache, podCache, targets, queueVars,
                   nextUid, incarnation>>

\* Mutant: a conflict is skipped over.
MapConflictIgnored(m) ==
    /\ At("write") /\ Turn(m) /\ ~MapAccepted(m)
    /\ left' = left \ {m}
    /\ UNCHANGED <<worldVars, pc, copy, want, pending, reports, observed, next>>

MapConflict(m) ==
    /\ At("write") /\ Turn(m) /\ ~MapAccepted(m)
    /\ FailWrite(m)
    /\ UNCHANGED worldVars

\* Summary.Failed = 0 decides the phase.
RunCompleted ==
    /\ At("write") /\ left = {}
    /\ Finish(IF \A r \in reports : r.ok THEN "Succeeded" ELSE "Failed",
              "Completed", Sources, reports, observed)
    /\ UNCHANGED worldVars

-----------------------------------------------------------------------------
(* Publishing the status                                                    *)

\* `next := lab.Status' shares the array of conditions, and setCondition changes
\* an entry that exists in place: DeepEqual sees no difference in a condition
\* both have.
DeepEqual(old, new) == [old EXCEPT !.cond = new.cond] = new

\* RequeueAfter is returned for a pending run only.
Requeue == timer' = (timer \/ next.phase = "Running")

PublishSame ==
    /\ At("publish") /\ DeepEqual(copy.status, next)
    /\ Requeue /\ Return
    /\ UNCHANGED <<apiVars, cacheVars, targets, queued, counters>>

\* Mutant: a patch without a version.
PublishUnchecked ==
    /\ At("publish") /\ ~DeepEqual(copy.status, next) /\ lab # NoLab
    /\ lab' = [lab EXCEPT !.status = next]
    /\ Requeue /\ Return
    /\ UNCHANGED <<jobs, pods, maps, cacheVars, targets, queued, counters>>

\* Status().Update, with the resourceVersion that was read.
Publish ==
    /\ At("publish") /\ ~DeepEqual(copy.status, next) /\ lab = copy
    /\ lab' = [copy EXCEPT !.status = next]
    /\ Answered(Requeue /\ Return /\ UNCHANGED queued) \/ AnswerLost(ReturnError)
    /\ UNCHANGED <<jobs, pods, maps, cacheVars, targets, nextUid, incarnation>>

PublishConflict ==
    /\ At("publish") /\ ~DeepEqual(copy.status, next) /\ lab # copy
    /\ ReturnError
    /\ UNCHANGED <<apiVars, cacheVars, targets, counters>>

-----------------------------------------------------------------------------
(* Faults                                                                   *)

\* An API call fails for a reason of its own (throttling, admission, a timeout) and
\* changes nothing; AnswerLost is the call that did take effect.  Outside
\* runNetworkProbe the error is returned ...
CallFails ==
    /\ Disturb("error")
    /\ \/ pc \in {"deleteJobs", "deleteMaps"} /\ left # {}
       \/ pc \in {"removeFinalizer", "addFinalizer"}
       \/ pc = "publish" /\ ~DeepEqual(copy.status, next)
    /\ ReturnError
    /\ UNCHANGED <<apiVars, cacheVars, targets, nextUid, incarnation>>

\* ... inside it the error becomes the status and is not returned.
JobCallFails(n) ==
    /\ Disturb("error") /\ Visit(n)
    /\ \/ Seen(n) = NoJob /\ FailRun("CreateFailed")
       \/ Seen(n) # NoJob /\ ~Seen(n).deleting /\ IsStale(Seen(n)) /\ FailRun("DeleteFailed")
    /\ UNCHANGED <<apiVars, cacheVars, targets, queueVars, nextUid, incarnation>>

MapCallFails(m) ==
    /\ Disturb("error") /\ At("write") /\ Turn(m) /\ FailWrite(m)
    /\ UNCHANGED <<apiVars, cacheVars, targets, queueVars, nextUid, incarnation>>

\* The manager dies and starts again: the queue, the timers and the reconcile are
\* lost, the caches are filled from a fresh list and every lab listed is queued.
Restart ==
    /\ Disturb("restart")
    /\ Return
    /\ labCache' = lab /\ jobCache' = jobs /\ podCache' = pods
    /\ mapCache' = [m \in Maps |-> IF maps[m] = NoMap THEN "absent" ELSE "fresh"]
    /\ queued' = (lab # NoLab) /\ timer' = FALSE
    /\ UNCHANGED <<apiVars, targets, nextUid, incarnation>>

-----------------------------------------------------------------------------
(* The cluster: users, informers, the Job controller, the garbage collector *)

workerVars == <<pc, localVars>>

CreateLab ==
    /\ lab = NoLab /\ incarnation < MaxIncarnation
    /\ incarnation' = incarnation + 1
    /\ lab' = [inc |-> incarnation + 1, gen |-> 1, deleting |-> FALSE,
               finalizer |-> FALSE, status |-> NoStatus]
    /\ UNCHANGED <<jobs, pods, maps, cacheVars, targets, queueVars, budget, nextUid,
                   workerVars>>

EditSpec ==
    /\ lab # NoLab /\ lab.gen < MaxGeneration /\ Disturb("edit")
    /\ lab' = [lab EXCEPT !.gen = @ + 1]
    /\ UNCHANGED <<jobs, pods, maps, cacheVars, targets, queueVars, nextUid, incarnation,
                   workerVars>>

DeleteLab ==
    /\ lab # NoLab /\ ~lab.deleting /\ Disturb("delete")
    /\ lab' = IF lab.finalizer THEN [lab EXCEPT !.deleting = TRUE] ELSE NoLab
    /\ UNCHANGED <<jobs, pods, maps, cacheVars, targets, queueVars, nextUid, incarnation,
                   workerVars>>

\* Target pods and services come, go and move.  The controller does not watch them.
ChangeTargets ==
    /\ Disturb("move")
    /\ targets' \in TargetSets \ {targets}
    /\ UNCHANGED <<apiVars, cacheVars, queueVars, nextUid, incarnation, workerVars>>

Running(n) == jobs[n] # NoJob /\ jobs[n].phase = "active" /\ ~jobs[n].deleting
PodsOf(n)  == {p \in pods : p.owner = jobs[n].run.uid}

\* /probe ends with a message in its termination log; a message longer than the
\* kubelet's limit is cut and does not parse.
PodTerminates(n) ==
    /\ Running(n) /\ PodsOf(n) = {}
    /\ \E out \in Outcomes :
         pods' = pods \cup {[owner |-> jobs[n].run.uid, run |-> jobs[n].run, out |-> out]}
    /\ UNCHANGED <<lab, jobs, maps, cacheVars, targets, queueVars, counters, workerVars>>

JobSucceeds(n) ==
    /\ Running(n) /\ PodsOf(n) # {}
    /\ jobs' = [jobs EXCEPT ![n].phase = "succeeded"]
    /\ UNCHANGED <<lab, pods, maps, cacheVars, targets, queueVars, counters, workerVars>>

\* The pod exits with an error, or the Job's deadline passes (backoffLimit is 0).
JobFails(n) ==
    /\ Running(n) /\ PodsOf(n) = {}
    /\ jobs' = [jobs EXCEPT ![n].phase = "failed"]
    /\ UNCHANGED <<lab, pods, maps, cacheVars, targets, queueVars, counters, workerVars>>

\* ttlSecondsAfterFinished: the Job goes together with its pods.
JobExpires(n) ==
    /\ Disturb("expire")
    /\ jobs[n] # NoJob /\ jobs[n].phase # "active" /\ ~jobs[n].deleting
    /\ jobs' = [jobs EXCEPT ![n].deleting = TRUE]
    /\ pods' = pods \ PodsOf(n)
    /\ UNCHANGED <<lab, maps, cacheVars, targets, queueVars, nextUid, incarnation,
                   workerVars>>

\* A deleted batch/v1 Job goes once its pods are orphaned (the API's default).
JobCollected(n) ==
    /\ jobs[n] # NoJob /\ jobs[n].deleting
    /\ pods' = {IF p \in PodsOf(n) THEN [p EXCEPT !.owner = 0] ELSE p : p \in pods}
    /\ jobs' = [jobs EXCEPT ![n] = NoJob]
    /\ UNCHANGED <<lab, maps, cacheVars, targets, queueVars, counters,
                   workerVars>>

\* A watch event of the lab reaches the cache and queues the key.
DeliverLab ==
    /\ labCache # lab
    /\ labCache' = lab /\ queued' = TRUE
    /\ UNCHANGED <<apiVars, jobCache, podCache, mapCache, targets, timer, counters, workerVars>>

\* Jobs, pods and ConfigMaps are cached but trigger no reconcile.
DeliverJob(n) ==
    /\ jobCache[n] # jobs[n]
    /\ jobCache' = [jobCache EXCEPT ![n] = jobs[n]]
    /\ UNCHANGED <<apiVars, labCache, podCache, mapCache, targets, queueVars, counters, workerVars>>

DeliverPods ==
    /\ podCache # pods
    /\ podCache' = pods
    /\ UNCHANGED <<apiVars, labCache, jobCache, mapCache, targets, queueVars, counters, workerVars>>

DeliverMap(m) ==
    /\ mapCache' = [mapCache EXCEPT ![m] = IF maps[m] = NoMap THEN "absent" ELSE "fresh"]
    /\ mapCache' # mapCache
    /\ UNCHANGED <<apiVars, labCache, jobCache, podCache, targets, queueVars, counters, workerVars>>

\* The RequeueAfter of a pending run is due.
TimerFires ==
    /\ timer /\ timer' = FALSE /\ queued' = TRUE
    /\ UNCHANGED <<apiVars, cacheVars, targets, counters, workerVars>>

\* The informer's periodic resync hands every cached lab to the queue again.
Resync ==
    /\ labCache # NoLab /\ ~queued /\ queued' = TRUE
    /\ UNCHANGED <<apiVars, cacheVars, targets, timer, counters,
                   workerVars>>

-----------------------------------------------------------------------------
Cleanup ==
    \/ ReconcileDeleted
    \/ \E n \in Nodes : DeleteListedJob(n)
    \/ ListMaps
    \/ \E m \in Maps : DeleteListedMap(m)
    \/ CleanupDone \/ RemoveFinalizer

ProbeJobs ==
    \/ \E n \in Nodes :
         \/ CreateJob(n) \/ CreateExists(n) \/ AwaitDeletion(n) \/ DeleteStaleJob(n)
         \/ ReadReport(n) \/ ReportUnreadable(n) \/ SeeFailedJob(n) \/ SeeActiveJob(n)
    \/ JobsPending

Export ==
    \/ CollectSnapshots
    \/ \E m \in Maps : WriteMap(m) \/ MapConflict(m)
    \/ RunCompleted

Reconcile ==
    \/ ReconcileMissing \/ ReconcileNew \/ ReconcileLab
    \/ AddFinalizer \/ FinalizerConflict \/ Cleanup
    \/ ListTargets \/ NoTargets \/ ProbeJobs \/ Export
    \/ PublishSame \/ Publish \/ PublishConflict

Fault ==
    \/ CallFails \/ Restart
    \/ \E n \in Nodes : JobCallFails(n)
    \/ \E m \in Maps : MapCallFails(m)

JobControl(n) == PodTerminates(n) \/ JobSucceeds(n) \/ JobFails(n) \/ JobCollected(n)

Deliver ==
    DeliverLab \/ DeliverPods \/ (\E n \in Nodes : DeliverJob(n))
    \/ (\E m \in Maps : DeliverMap(m))

Outside ==
    CreateLab \/ EditSpec \/ DeleteLab \/ ChangeTargets \/ (\E n \in Nodes : JobExpires(n))

Next ==
    \/ Reconcile \/ Fault \/ Outside \/ Deliver
    \/ (\E n \in Nodes : JobControl(n))
    \/ TimerFires \/ Resync

\* The worker runs while there is work, watches deliver, timers fire, the resync
\* period passes, and the Job controller and the garbage collector work.
Fairness ==
    /\ WF_vars(Reconcile)
    /\ WF_vars(DeliverLab) /\ WF_vars(DeliverPods)
    /\ \A n \in Nodes : WF_vars(DeliverJob(n)) /\ WF_vars(JobControl(n))
    /\ \A m \in Maps : WF_vars(DeliverMap(m))
    /\ WF_vars(TimerFires) /\ WF_vars(Resync)

Spec     == Init /\ [][Next]_vars
FairSpec == Spec /\ Fairness

-----------------------------------------------------------------------------
(* Properties                                                               *)

\* A status with the results of its generation from every source node.
Complete(s) ==
    /\ s.results # {}
    /\ {r.run.node : r \in s.results} = s.total
    /\ \A r \in s.results : r.run.gen = s.gen

\* The lab as its user sees it, and what LabPromise promises of it.
View ==
    IF lab = NoLab THEN NoLab
    ELSE [gen |-> lab.gen, deleting |-> lab.deleting, seen |-> lab.status.gen,
          phase |-> lab.status.phase,
          complete |-> Complete(lab.status)]
Promise == INSTANCE LabPromise WITH object <- View, Absent <- NoLab

ASSUME ViewAssumption == NoLab \notin Promise!Objects

\* The reconciler keeps the promise of LabPromise: whatever happens inside, its user
\* sees statuses of the current generation, successes with complete results, and a
\* lab that goes only when it is deleted.
KeepsPromise == Promise!Spec

\* A lab that is being deleted disappears: no error or conflict strands it on its
\* finalizer.
DeletionCompletes == Promise!Removed

\* A status that reports results reports those of its own generation, one per
\* source node; a completed run reports on every source node; the phase is
\* Succeeded only for a completed run in which every report is good.  (Stale
\* Jobs, orphaned pods, lagging caches and a half-done run must not leak in.)
Sound(s) ==
    /\ \A r \in s.results : r.run.gen = s.gen
    /\ \A q, r \in s.results : q.run.node = r.run.node => q = r
    /\ s.results # {} => {r.run.node : r \in s.results} = s.total
    /\ s.phase = "Succeeded" => /\ s.results # {}
                                /\ \A r \in s.results : r.ok
PublishedSound == lab # NoLab => Sound(lab.status)

\* A status is computed over many steps from a spec read at the first; when it
\* reaches the API server that spec is still the current one, and the lab is not
\* being deleted (Status().Update with the version that was read).
PublishedForCurrentSpec ==
    [][(lab # NoLab /\ lab' # NoLab /\ lab'.inc = lab.inc /\ lab'.status # lab.status)
         => lab'.status.gen = lab.gen /\ ~lab.deleting]_vars

\* The ConfigMaps a completed status names are there, written for this lab and
\* for its generation or a later one: reports are written before the status.
ReportsBehindStatus ==
    (lab # NoLab /\ ~lab.deleting /\ lab.status.cond = "Completed")
      => \A m \in Maps :
           (\/ m \in lab.status.nodes /\ "raw" \in Output[lab.status.gen]
            \/ m = ExcelMap /\ "excel" \in Output[lab.status.gen]
            \/ m = HtmlMap /\ "html" \in Output[lab.status.gen])
           => maps[m].inc = lab.inc /\ maps[m].gen >= lab.status.gen

\* When the worker is idle and neither the queue, a timer nor a watch event will
\* wake it, nothing is left to do: the lab is gone, or its current generation has
\* reached a terminal phase.  (The resync, hours away, is not counted on.)
NothingForgotten ==
    (pc = "idle" /\ ~queued /\ ~timer /\ labCache = lab /\ lab # NoLab)
      => /\ ~lab.deleting
         /\ lab.status.gen = lab.gen
         /\ lab.status.phase \in {"Succeeded", "Failed"}

\* Delete goes by name, and what the cache shows under the name may be long gone:
\* the Job that ensureAndReadProbeJobs really deletes is a stale one all the same.
OnlyStaleJobsDeleted ==
    [][\A n \in Nodes :
         (pc = "jobs" /\ left' # left /\ jobs[n] # NoJob /\ ~jobs[n].deleting
            /\ jobs'[n] # jobs[n])
         => IsStale(jobs[n])]_vars

\* design.md: "Both lab controllers use finalizers to clean generated artifacts
\* before CR deletion completes."
CleanedBeforeGone ==
    lab = NoLab => /\ \A n \in Nodes : jobs[n] # NoJob => jobs[n].deleting
                   /\ \A m \in Maps : maps[m] = NoMap

\* design.md: changed settings "trigger a fresh run instead of reusing an old
\* successful Job": a lab reports on Jobs that ran with its own spec.
ResultsOfThisLab ==
    lab # NoLab => \A r \in lab.status.results : r.run.inc = lab.inc

\* cr-implementation-flow-and-validation.md: "If Jobs are not complete, phase is
\* `Running' and the controller requeues."  (A call to create one of them that was
\* carried out and yet seemed to fail makes the run fail.)
RunningWhileJobsRun ==
    [][(/\ lab # NoLab /\ lab' # NoLab /\ lab'.status # lab.status
        /\ Sources # {} /\ next.cond # "CreateFailed"
        /\ \A n \in Sources : jobs[n] # NoJob /\ jobs[n].phase = "active"
                              /\ ~jobs[n].deleting /\ ~IsStale(jobs[n]))
         => lab'.status.phase = "Running"]_vars

\* Every source node's Job for the current spec and targets has succeeded with a
\* readable report.
Reportable ==
    /\ lab # NoLab /\ ~lab.deleting /\ targets # NoChecks
    /\ \A n \in Nodes : targets[n] # NoHash =>
         /\ jobs[n] # NoJob /\ ~jobs[n].deleting /\ jobs[n].phase = "succeeded"
         /\ jobs[n].run.gen = lab.gen /\ jobs[n].run.hash = targets[n]
         /\ \E p \in PodsOf(n) : p.out # "garbled"
Reported ==
    /\ lab # NoLab
    /\ lab.status.results =
         {[run |-> p.run, ok |-> p.out = "ok"] :
             p \in UNION {PodsOf(n) : n \in {x \in Nodes : targets[x] # NoHash /\ jobs[x] # NoJob}}}

\* Probe results that stay available are published again and again: no stale
\* cache, conflict, lost timer or swallowed error keeps them out for good.
ResultsGetPublished == <>[]Reportable => []<>Reported

-----------------------------------------------------------------------------
(* The inductive invariant of the proofs in NetworkProbeLabProofs           *)

RunsOf(table) == {table[n].run : n \in {x \in Nodes : table[x] # NoJob}}
Runs == RunsOf(jobs) \cup RunsOf(jobCache) \cup {p.run : p \in pods \cup podCache}

\* No UID is used twice: what the API server and the caches, however old, say of
\* one UID is said of the same run.
UidsDistinct ==
    /\ 0 < nextUid
    /\ \A r \in Runs : 0 < r.uid /\ r.uid < nextUid
    /\ \A q, r \in Runs : q.uid = r.uid => q = r

\* A Job is stored under its node, and a pod is owned by its own Job or by none.
InPlace ==
    /\ \A n \in Nodes : /\ jobs[n] # NoJob => jobs[n].run.node = n
                        /\ jobCache[n] # NoJob => jobCache[n].run.node = n
    /\ \A p \in pods \cup podCache : p.owner \in {0, p.run.uid}

\* While a Job's name is taken and the cache shows a Job under it, it is that one.
SameUnderName ==
    \A n \in Nodes :
        (jobs[n] # NoJob /\ jobCache[n] # NoJob) => jobs[n].run = jobCache[n].run

\* The worker reconciles a lab it read: a run on one not being deleted, a cleanup
\* on one being deleted.
WorkerHasLab ==
    /\ pc # "idle" => copy # NoLab
    /\ pc \in {"list", "jobs", "write", "publish"} => copy.finalizer /\ ~copy.deleting
    /\ pc \in {"deleteJobs", "deleteMaps", "removeFinalizer"} => copy.deleting

\* What the worker has read so far: one report of the lab's generation for every
\* node it has passed, unless a Job was outstanding.
WorkerReports ==
    /\ \A r \in reports : r.run.gen = copy.gen
    /\ \A q, r \in reports : q.run.node = r.run.node => q = r
    /\ pc \in {"jobs", "write"} => Sources # {}
    /\ pc = "jobs" => /\ left \subseteq Sources
                      /\ {r.run.node : r \in reports} \subseteq Sources \ left
                      /\ ~pending => {r.run.node : r \in reports} = Sources \ left
    /\ pc = "write" => {r.run.node : r \in reports} = Sources
    /\ pc \notin {"jobs", "write", "publish"} => reports = {} /\ ~pending

WorkerStatus ==
    pc = "publish" => next.gen = copy.gen /\ next.phase # "unset" /\ Sound(next)

\* No status before the finalizer.
FinalizerFirst == (lab # NoLab /\ ~lab.finalizer) => lab.status.gen = 0

IInv ==
    /\ TypeOK /\ UidsDistinct /\ InPlace /\ SameUnderName
    /\ WorkerHasLab /\ WorkerReports /\ WorkerStatus
    /\ PublishedSound /\ FinalizerFirst

=============================================================================
