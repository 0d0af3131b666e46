# smtx-lab-operator in TLA+

`smtx-lab-operator` is a Kubernetes operator with two custom resources:
`NetworkProbeLab` runs connectivity probes between the nodes of a cluster, one
probe Job per source node, and explains the datapath with snapshots from node
agents; `ResourceAnalyzerLab` asks Prometheus for usage series and recommends
requests and limits. This directory models its behaviour, model-checks it with
TLC and proves the central safety properties with TLAPS.

    tlc -workers 2 -config NPLRuns.cfg MCNetworkProbeLab.tla
    tlapm NetworkProbeLabProofs.tla

| Module | Content |
|---|---|
| `LabPromise` | what both reconcilers promise to the user of a lab (abstract) |
| `NetworkProbeLab`, `MCNetworkProbeLab` | the probe reconciler, its instances |
| `NetworkProbeLabProofs`, `NetworkProbeLabFreshness` | its proofs: soundness of results and the refinement; reports, wake-ups and what holds when caches do not lag |
| `ResourceAnalyzerLab`, `MCResourceAnalyzerLab` | the resource reconciler with the monitoring stack, its instances |
| `ResourceAnalyzerLabProofs`, `ResourceAnalyzerLabFreshness` | its proofs, in the same two parts |
| `ReportArtifacts`, `MCReportArtifacts`, `ReportArtifactsProofs` | the report ConfigMaps of many labs of both kinds, and who removes them; its instance, its proofs |
| `Datapath`, `DatapathProofs` | iptables of a node, the agent's snapshot, the analyzer's path; lemmas about them |
| `ProbeRun`, `MCProbeRun`, `ProbeRunProofs` | one probe Job from the spec to the results, with the datapath of each probe, extending `Datapath`; its instance, its proofs |
| `Recommendation`, `MCRecommendation`, `RecommendationProofs` | the resource analyzer, its instance, its proofs |

The reconcilers take what a probe Job or an analysis yields as a value; `ProbeRun` and
`Recommendation` are what is behind those values, and `ReportArtifacts` is what several
labs do to one another. Each of the five state machines is checked by itself.

## Inventory

| Component | State it keeps | Operations | Talks to | Hard about it | Correct when |
|---|---|---|---|---|---|
| NetworkProbeLab reconciler (`networkprobelab_controller.go`, `status.go`) | none between reconciles: all in the lab's status, the Jobs, pods and ConfigMaps | `Reconcile`, `runNetworkProbe`, `ensureAndReadProbeJobs`, `readProbeJobReport`, `write...ConfigMap` | API server (writes), informer caches (reads), node agents | reads lag behind writes; the spec, the targets and the Jobs change under a run; errors become a status and are not retried; Jobs go after an hour | only results of the spec's generation are published, complete, and they are published in the end |
| Finalizers (`finalizers.go`) | the finalizer | add, remove, `cleanup...Artifacts` | API server, caches | cleanup from a cache, conflicts, failed calls | nothing generated outlives its lab; the lab does go |
| ResourceAnalyzerLab reconciler (`resourceanalyzerlab_controller.go`) | status | `Reconcile`, `runResourceAnalysis`, report ConfigMaps | API server, Prometheus, monitoring stack | conditions shared with the old status, stale summary after a failure | the status says what happened last |
| Monitoring stack (`monitoring_stack.go`) | ServiceAccount, RBAC, ConfigMaps, Deployments, Services | create or update each, `deploymentAvailable` | API server, caches | a dozen objects one after another, conflicts | the objects converge; Running until Prometheus is up |
| Check building (`networkprobelab_controller.go` 291-583, 691-720) | none | `buildProbeChecks`, hash, deadline | caches of pods and services | defaults, duplicates, the cluster moving meanwhile | one check for everything asked for; a deadline that leaves time for it |
| Report ConfigMaps (`write...ConfigMap`, `cleanup...Artifacts`) | the ConfigMaps and their labels | create or update, list by label, delete by name | API server, caches | two controllers, names chosen by users, lag | what a status claims is there; nothing outlives its labs |
| Network analyzer (`analyzer/network.go`) | none | iptables trace, service DNAT, conntrack match, CNI and kube-proxy mode | - | text search, first match, tables of another moment | the path leads to the pod reported, or nowhere |
| Resource analyzer (`analyzer/resource.go`, `resource_series.go`) | none | percentiles, headroom, rounding, usage windows | - | boundaries, empty series, floating point | limits cover the peak, requests the mean, neither is inflated |
| Node agent (`internal/agent`, `cmd/agent`) | none | `Collect`, filters, CNI detection, `/snapshot` | kernel tools, API server | output cut off, defaults under the request | - |
| Probe binary (`cmd/probe`) | none | `runCheck`, percentile, report to the termination log | pods and services under test | report cut at 4096 bytes, attempts against the deadline | one report per run |
| Exporters, Prometheus client, API types, manifests | none | formatting, HTTP, data | - | - | - |
| Kubernetes itself (external) | objects, caches, workqueue | optimistic concurrency, watch, resync, Job controller, TTL, garbage collector | - | everything above | - |

How they interact: `Reconcile` is called by one worker with the key of a lab. A
watch event of the lab, a `RequeueAfter` or the informer's resync put the key in the
queue; Jobs, pods, services and ConfigMaps are read but trigger nothing. All reads
go to informer caches, all writes to the API server. Jobs are created by the
reconciler, run by the Job controller, and read back through the termination
message of their pod.

`PROJECT.json` lists every component with what is modelled of it, and every hazard
with its line and the properties about it.

## LabPromise

The abstract specification. Its one variable is the lab as its user sees it: generation,
being deleted or not, the generation the status is of (`seen`), the phase, and whether the
results in the status are those of that generation (`complete`). A lab is created, edited,
deleted; a status is published only of the current generation and never on a lab that is
being deleted, and `Succeeded` only when complete; a lab that has a status disappears
only after it was asked to. `Removed` and `Noticed` are its liveness properties.

Both reconcilers implement it (`KeepsPromise`) under the mapping `View`: `complete` is, for the
probe lab, one report of the status's generation for every source node, and for the
resource lab a summary of the status's generation. Caches, Jobs, ConfigMaps and the
worker are invisible there; their steps map to stuttering. The promise can fail: without the
conflict check of `Publish` a status of an old generation would appear, and a failed reconcile of the resource
lab does keep the old summary under the new `observedGeneration`, so that it
takes a property to say that no success ever shows it.

## NetworkProbeLab

One lab name. State and code:

| Variables | Stand for |
|---|---|
| `lab`, `jobs`, `pods`, `maps` | the API server's objects: the lab (or `NoLab`), the Job of every node, terminated probe pods, the report ConfigMaps |
| `labCache`, `jobCache`, `podCache`, `mapCache` | the manager's informer caches. A ConfigMap's cache entry is only `absent`, `fresh` or `stale` (an older version): more the code does not look at |
| `queued`, `timer` | the key in the workqueue, a pending `RequeueAfter` |
| `targets` | what `buildProbeChecks` would give now: for each source node the hash of its checks |
| `pc`, `copy`, `want`, `left`, `pending`, `reports`, `observed`, `next` | the worker: its position and the local variables of `Reconcile`, `runNetworkProbe` and `ensureAndReadProbeJobs` |
| `budget`, `nextUid`, `incarnation` | bound on disturbances, UIDs handed out, labs created |

`Reconcile` is cut at every call that writes. A cached read belongs to the step of
the write that follows it: only the worker reads the caches, so a delivery between
the read and the write could as well come after the write. The snapshots of all nodes are one step
(`CollectSnapshots`), because the ConfigMaps are written only after the last of them.

| Code | Actions |
|---|---|
| `Reconcile` 53-76, `finalizers.go` | `ReconcileMissing`, `ReconcileDeleted`, `DeleteListedJob`, `ListMaps`, `DeleteListedMap`, `CleanupDone`, `RemoveFinalizer`, `ReconcileNew`, `AddFinalizer`, `FinalizerConflict`, `ReconcileLab` |
| `listProbePods`, `listProbeServices`, `buildProbeChecks` | `ListTargets`, `NoTargets` |
| `ensureAndReadProbeJobs` 585-641, one step per node | `CreateJob`, `CreateExists`, `AwaitDeletion`, `DeleteStaleJob`, `ReadReport`, `ReportUnreadable`, `SeeFailedJob`, `SeeActiveJob`, then `JobsPending` or `CollectSnapshots` |
| raw snapshots, Excel, HTML | `WriteMap`, `MapConflict`, then `RunCompleted` |
| `Reconcile` 77-150 | `NextStatus` (the status), `PublishSame`, `Publish`, `PublishConflict` |
| failing calls, restart | `CallFails`, `JobCallFails`, `MapCallFails`, `Restart` |
| users and cluster (external) | `CreateLab`, `EditSpec`, `DeleteLab`, `ChangeTargets`, `PodTerminates`, `JobSucceeds`, `JobFails`, `JobExpires`, `JobCollected` |
| informers and queue (external) | `DeliverLab`, `DeliverJob`, `DeliverPods`, `DeliverMap`, `TimerFires`, `Resync` |

Abstractions:

- A resourceVersion is not a number: an update succeeds when the object still
  equals the copy that was read (`lab = copy`). Two versions of the lab with equal contents are
  identified, which only lets more updates succeed.
- A watch delivers the newest version of one object; the versions in between are
  skipped. Different objects are delivered independently, as their watches are.
- `checksHash` is injective (model values; `AnswersCurrent` of `ProbeRun` is why it may be), Job names of
  different nodes differ.
- A report is `ok`, `bad` (some check failed) or `garbled` (cut at the kubelet's limit). What it
  says of a single check, and the datapath, is in `ProbeRun`; so are the summary's
  counters, which are the sizes of `total` and `results`.
- Of the conditions only `ProbeCompleted` (reason or message) and the set of `...Exported`
  conditions are kept. `DeepEqual` says what the code's sharing of the array of
  conditions does: a change of the condition alone is not seen.
- `inc` marks which incarnation a Job or ConfigMap was made for. No decision of the
  model reads it from a Job: the code has no such annotation.
- `listObservationNodes` and `listNodesForChecks` do not fail: both read a cache, and
  the second is reached only when the selector loses its nodes after the pods were listed.
- Deleting a Job through the API orphans its pods (batch/v1's default without
  a propagation policy); the TTL controller deletes them.
- A call to the API server may fail without effect (`CallFails`, `JobCallFails`, `MapCallFails`), or take
  effect and lose its answer (`AnswerLost`: the worker takes it for one that failed). For a report that
  is read, or a snapshot that is taken, an error is `ReportUnreadable` or a silent agent; reads from the cache do not fail.

### Runs

| Run | Asks | Instance |
|---|---|---|
| `NPLRuns` | `KeepsPromise`, `PublishedSound`, `PublishedForCurrentSpec`, `OnlyStaleJobsDeleted`, `TypeOK` | one node whose target moves, two generations, two disturbances out of edit, move, expiry; deadlock checked |
| `NPLReports` | `ReportsBehindStatus`, `NothingForgotten` | one node, Excel report, from generation 2 on raw snapshots too, the agent may be silent, any one disturbance: edit, deletion, expiry, failed call, restart |
| `NPLNoLag` | `PublishedSound`, `CleanedBeforeGone`, `ResultsOfThisLab`, `RunningWhileJobsRun` | two source nodes, of which one's target moves, or without targets; caches never behind when the worker steps; two incarnations, any two disturbances: move, deletion, failed call, restart |
| `NPLLive` | `ResultsGetPublished`, `DeletionCompletes` | `FairSpec`, HTML report, one deletion, failed call or expiry |

A failed call stands for both kinds: without effect, or with its answer lost.

Bounds. One source node suffices for everything that concerns one Job and its
caches, because the loop treats nodes alike; what relates nodes (a report of each, `pending`)
is checked with two, in `NPLNoLag`. Two generations let a result be old; two hashes let a
target move away and back; two incarnations let a lab find what its predecessor
left. `MaxDisturbances` bounds edits, moves, deletions, expiries, failed calls and
restarts together. Job and pod steps, deliveries, conflicts, requeues and resyncs
are not bounded. CHECK_DEADLOCK is off where a lab can be deleted: with the lab gone the
system rests.

Symmetry (`NPLRuns`) is over the two hashes, which the target sets contain alike; no
liveness property is checked there.

Fairness (`FairSpec`): the worker is scheduled while it can step, watches deliver,
timers fire, the Job controller and the garbage collector act, and the informer resyncs
(every ten hours in controller-runtime). The last one carries weight: errors inside
a run are swallowed into a Failed status, and after `CreateExists` nothing but a resync or
another event brings the worker back. `NothingForgotten`, a safety property, is the
part that does not count on it. Nothing is assumed of users, faults or targets.

### What the runs show

- Reads from old caches do not corrupt a status: results are of the generation the
  status names, one per node, and complete (`PublishedSound`), and conflicts keep an old run from
  overwriting a new spec (`PublishedForCurrentSpec`).
- `CleanedBeforeGone`, `ResultsOfThisLab` and `RunningWhileJobsRun` hold only without lag: with
  `CacheLag = TRUE` in `NPLNoLag.cfg` TLC refutes each of them (`ResultsOfThisLab` soonest with one node that
  stays, `OneNodeStable`, and one deletion). A Job
  created just before the deletion is not in the cache when cleanup lists it and
  stays; a lab created again under the name takes a
  Job of its predecessor for its own, as its generation starts at 1 again.
  docs/design.md promises cleaning before deletion completes, and a fresh run for changed traffic
  settings (count and timeout are in the generation only, not in the hash).
- While a Job runs, the lab may show Failed for a moment, or for long: the reconcile
  after the creation does not see the Job and Create says AlreadyExists, against
  docs/cr-implementation-flow-and-validation.md:165. Without lag it is so only when the answer to
  Create was lost, which `RunningWhileJobsRun` leaves out: the next reconcile finds the Job.

### Proofs

`NetworkProbeLabProofs` proves, for every number of nodes, check lists, outputs and bounds,
under the ASSUMEs of `NetworkProbeLab` (constants are of their types, the absent
values are none of the objects), with or without lag:

- `TypeCorrect`: `Spec => []TypeOK`
- `ResultsSound`: `Spec => []PublishedSound`
- `NoLateStatus`: `Spec => PublishedForCurrentSpec`
- `StaleJobsOnly`: `Spec => OnlyStaleJobsDeleted`

- `PromiseKept`: `Spec => KeepsPromise`, the refinement of `LabPromise`. `ViewAssumption` (the
  absent lab is none of the abstract objects) is the one assumption it adds.

All five follow from `Invariance`: `Spec => []IInv`. `PublishedSound` alone is not
inductive: `Publish` writes what the worker computed. So `IInv` adds what the worker holds
(`WorkerStatus` when it is about to publish; `WorkerReports` while it collects: one report of
the generation for every node passed, unless something is pending; `WorkerHasLab`). That a report read from the
cache is of the right generation needs `UidsDistinct` and `InPlace`: a pod owned by
the cached Job's UID is a pod of that very run, so the Job's annotations are
the report's. `SameUnderName` is for the deletions: while the cache shows a Job
under a name, nobody but the cached Job can have it, because Create needs a
cached NotFound and an API server without the name.

The proofs treat the steps by what they do: `OnlyCreateJobMakesRuns` (all
others pass on the runs there are), `WorkerMoves` (nine kinds of move of the
worker), `LabMoves` and `OnlyPublishChangesStatus`. For the refinement `IInv` also has
`FinalizerFirst` (no status before the finalizer: a lab deleted without one goes at once and must not
have been reported on), and `WorkerHasLab` says that the lab a status is computed for was not being deleted
when it was read; the conflict check makes it: is not now. `IInv` was checked as an invariant of the instance
of `NPLRuns` before it was proved.

`NetworkProbeLabFreshness` goes on from `IInv`, still with or without lag:

- `ReportsBeforeStatus`: `Spec => []ReportsBehindStatus`. What could go wrong is a cleanup or a run of an
  older version that reaches the ConfigMaps of a success. `FreshInv` rules it out: `VersionsOrdered` (copy, cache and
  lab are in order, and a copy of a lab that the cache has seen go is of an earlier lab), `StatusWasRead`
  (whoever has a lab with a status in hand has this lab, no older than the status), and `MapsWritten`, which carries a run
  from its first ConfigMap to its status.
- `LabsAttended`: `Spec => []NothingForgotten`. `WakeInv` has to know about the middle of a reconcile, too: unless the key
  is queued again, the worker's copy is what the cache shows (`CopyCurrent`). So whatever the reconcile writes
  brings a watch event, and if it writes nothing the status it read is the one it would write. `QueueMoves`,
  `TimerMoves` and `Returns` say which steps empty the queue, touch the timer and end a reconcile.

The last part of `NetworkProbeLabFreshness` assumes `~CacheLag`, that is, that the worker steps only when the caches show the API server's
objects. This is how the design documents read, and with lag all three properties fail
(see "What the runs show"):

- `CleanedUp`: `Spec => []CleanedBeforeGone`; `ResultsOwn`: `Spec => []ResultsOfThisLab`;
  `WaitsForJobs`: `Spec => RunningWhileJobsRun`.

`SyncInv` is their invariant. `LabInHand`: a lab that is being run or cleaned up stays, with its finalizer, until that is over, as only
this worker takes the finalizer away. `Clean`: hence everything was made under a finalizer, and a cleanup that lists
all there is and makes nothing leaves nothing. `OwnRuns`: hence a live Job is the lab's own.
`IdleSeen`: a run that ends with something else than Running has seen a node without a Job at work on its checks, and
none is created there before it publishes.

`FreshInv`, `WakeInv` and `SyncInv` were checked as invariants of the instances of `NPLReports` and `NPLNoLag` first.

Only model-checked: liveness, which is out of the prover's reach together with ENABLED.

## ResourceAnalyzerLab

One lab name again, with the monitoring stack it may deploy.

| Variables | Stand for |
|---|---|
| `lab`, `maps`, `stack`, `available` | the API server: the lab, the Excel and HTML ConfigMaps, which objects of the stack exist, whether the Prometheus Deployment is available |
| `labCache`, `mapCache`, `stackCache`, `availableCache` | the informer caches; an object is `absent`, `stale` (an older version) or `fresh` in them |
| `answers`, `data` | Prometheus answers; how much it has scraped |
| `queued`, `timer`, `budget`, `incarnation` | as above |
| `pc`, `copy`, `left`, `ready`, `answer`, `next` | the worker and the local variables of `Reconcile`, `ensureMonitoringStack` and `runResourceAnalysis` |

| Code | Actions |
|---|---|
| `Reconcile` 39-61, `finalizers.go` | `ReconcileMissing`, `ReconcileDeleted`, `DeleteListedMap`, `CleanupDone`, `RemoveFinalizer`, `ReconcileNew`, `AddFinalizer`, `FinalizerConflict`, `ReconcileLab` |
| `ensureMonitoringStack` (`monitoring_stack.go` 35-140), one step per object | `ApplyPart`, `PartConflict`, `ReadAvailability`, `DeploymentNotCached` |
| `Reconcile` 80-97 | `StackPending`, `MissingURL` |
| `runResourceAnalysis` | `Query`, `QueryFails`, `WriteMap`, `MapConflict`, `AnalysisCompleted` |
| `updateResourceAnalyzerStatus` | `DeepEqual`, `Requeue`, `PublishSame`, `Publish`, `PublishConflict` |
| failing calls, restart | `CallFails`, `PartCallFails`, `MapCallFails`, `Restart` |
| users, Deployment controller, Prometheus (external) | `CreateLab`, `EditSpec`, `DeleteLab`, `PrometheusStarts`, `PrometheusStops`, `PrometheusFails`, `PrometheusRecovers`, `Scrape` |
| informers and queue (external) | `DeliverLab`, `DeliverPart`, `DeliverMap`, `TimerFires`, `Resync` |

Abstractions, beyond those of `NetworkProbeLab`:

- What a spec says is a constant, `Wanted[g]` for generation `g`: autoDeploy, Prometheus, Grafana, a
  URL of one's own, whether the step parses, which reports. An edit goes to the next one.
- An analysis is the generation and the data it was computed from. The recommendations are
  the Resource analyzer's; the six range queries of one reconcile are one step, because any
  failing one ends in the same status and nothing is written between them.
- The objects of the stack are numbers in the order of the calls. Their content does not
  depend on the lab, so an Update that is accepted changes no version. What makes a cached one stale
  is a write to the status of a Deployment (`Deployments`): that of Prometheus by `PrometheusStarts` and
  `PrometheusStops`, any of them by `WriteStatus`, which spends from the budget.
- A failed call is, as above, one without effect or one whose answer was lost.
- The report ConfigMaps keep their names: an edit that renames one is left out.
- `DeepEqual` says what sharing the array of conditions does: a condition that is added is
  seen, one that changes is not.

### Runs

| Run | Asks | Instance |
|---|---|---|
| `RALReports` | `ReportsBehindStatus`, `NothingForgotten`, `KeepsPromise`, `TypeOK` | a deployed Prometheus (two objects) and an Excel report, then an external one and both reports; any two disturbances: edit, deletion, failed call, restart, Deployment down, status written, outage, scrape |
| `RALLive` | `AnalysisGetsPublished`, `DeletionCompletes`, `EveryGenerationNoticed` | `FairSpec`; Grafana alone (so no URL), then Grafana and Prometheus; two of edit, deletion, failed call, Deployment down, status written, outage, scrape |
| `RALNoLag` | `CleanedBeforeGone`, `WaitsForPrometheus` | caches never behind when the worker steps; two incarnations |
| `RALWaits` | violates `WaitsForPrometheus` | lagging caches |
| `RALSilent` | violates `SilentOnlyWhenSame` | Grafana alone, one generation |

Bounds. Two objects of Prometheus, a Deployment and after it the one of Prometheus itself, give a conflict
or a failure before the availability is read, before and after that Deployment was applied; the others behave like
these. Two generations are enough for a status to be old, two data values for a summary to be older
than the reports. Fairness is as in `NetworkProbeLab`; of Prometheus and of the Deployment nothing
is assumed: `AnalysisGetsPublished` speaks of an analysis that stays possible. The
resync carries weight here, too: a failed apply or query is a Failed status without a requeue.

### What the runs show

- A success has its summary and its reports: of this lab, and of its analysis or of a later one
  that failed after it had written them (`ReportsBehindStatus`). It is the order of the code, reports first
  and status last, that gives this across crashes and conflicts.
- A lab with autoDeploy fails on its first reconcile, as the Deployment it has just created
  is not in the cache it is read back from (`RALWaits`), where docs/design.md:49-53 says that the
  controller waits. With the lag taken away (`RALNoLag`) it waits.
- After a failed apply, a reconcile that ends in MissingPrometheusURL writes no status: the
  condition was changed in the array the old status shares (`RALSilent`).
- An edit that turns autoDeploy off leaves `MonitoringStackReady` as the generation before had it, on
  a success too, where README.md:736-740 promises `True`. The model has the state
  (`Monitored`); no run is about it.

### Proofs

`ResourceAnalyzerLabProofs` proves for every size of the stack, every `Wanted` and every bound, with or
without lag, from the named ASSUMEs of `ResourceAnalyzerLab`:

- `TypeCorrect`: `Spec => []TypeOK`
- `ReportsSound`: `Spec => []ReportsBehindStatus`
- `PromiseKept`: `Spec => KeepsPromise`

`ReportsBehindStatus` is not inductive, so `IInv` adds why it holds. `ReportsWritten`: the
reports written so far are exactly those of the analysis under way, as there is one worker. `SummaryInPast`: the
answer of the worker's query is at least as new as the published summary, so a rewrite
never goes back. `VersionsInOrder` and `StatusWasRead`: caches lag but do not go back, so once a
status was published, whoever reads the lab reads this incarnation, in a generation no older than the
status's; hence neither an old analysis nor the cleanup of a predecessor of the same name
reaches the ConfigMaps of a success. That last point is where re-creation could have hurt: a cleanup may
run again from a cache that still shows the predecessor, but only before the new lab has a status.

Each conjunct has a lemma; `WorkerMoves`, `CacheMoves`, `LabMoves`, `MapMoves`, `DataMoves` and
`IncarnationMoves` say which steps touch what, and `LabOutcomes` what becomes of the lab. `IInv` was
checked as an invariant of the instance of `RALReports`, and of that of `RALNoLag` with lag, before
it was proved.

`ResourceAnalyzerLabFreshness` proves `LabsAttended`: `Spec => []NothingForgotten`, with or without lag. The invariant is
`WakeInv` as for the probe lab. Here the status counts as unchanged although a condition changed
(`DeepEqual`), and the errors of the stack and of the queries are not returned (`StagesQueue`); neither leaves a lab
behind, because phase and generation are compared, and each of those stages ends in a status to publish.

Its second part assumes `~CacheLag` and proves `CleanedUp`: `Spec => []CleanedBeforeGone`, and `PrometheusAwaited`:
`Spec => WaitsForPrometheus`, from `SyncInv`: `LabInHand` and `Clean` as above, and `Patient`, for as long as no
disturbance happened: the objects of Prometheus passed so far are applied, so the Deployment is there when it is read back; whoever goes
past the stack with a Prometheus of its own has seen it available; and one that has not publishes Running. With lag the
read back fails: that is `RALWaits`. The budget stands in for "no call failed": `Patient` speaks of runs in which no
disturbance was spent.

`WakeInv` was checked as an invariant of the instance of `RALReports`, `SyncInv` of that of
`RALNoLag` and of one with Grafana.

Only model-checked: liveness.

## ReportArtifacts

Both controllers write report ConfigMaps into one namespace, under names that users
choose (`spec.output.*.configMapName`) or that `sanitizeName` and the cut to 63 characters make; so labs
of either kind may meet in one ConfigMap. Here a lab is only its incarnation, whether it has its
finalizer or is being deleted, the reports it asks for, and those its status claims. A run is
what it does to ConfigMaps.

| Variables | Stand for |
|---|---|
| `lab`, `map` | the API server: a ConfigMap is its labels (one for each kind) and, for each kind and report, who wrote last under that key of its data |
| `labCache`, `mapCache`, `lag` | the informer caches, and whether the workers read them or (for the properties without lag) the truth |
| `pc`, `who`, `copy`, `todo`, `seen`, `doomed` | the worker of each kind: its position, its lab as read, the reports still to write, the ConfigMap it read, those listed for deletion |
| `budget` | bound on changes and faults |

| Code | Actions |
|---|---|
| the finalizer (both `Reconcile`s) | `AddFinalizer`, `RemoveFinalizer` |
| a run that ends early, that exports, that publishes | `RunEndsEarly`, `StartExport`, `PublishSuccess`, `PublishFailure` |
| `write...ConfigMap` (`networkprobelab_controller.go`, `resourceanalyzerlab_controller.go`), Get and then Create or Update | `Read`, `Create`, `Update`, `PutRefused` |
| `cleanup...Artifacts` | `StartCleanup`, `DeleteListed` |
| failing calls, restart | `CallFails`, `Restart` |
| users and informers (external) | `RecreateLab`, `EditOutput`, `DeleteLab`, `DeliverLab`, `DeliverMap` |

`Artifacts` runs two probe labs and a resource lab: one report that may go to the
ConfigMap another probe lab uses or to the one the resource lab uses, and one ConfigMap
of a lab's own. A second resource lab has both its reports in one ConfigMap. Four scenes: the first three labs
without lag and one fault, one lab of each kind without lag and two faults, the same with lag and one fault, the
lab with the two reports in one ConfigMap with lag and three faults; two incarnations. A third lab
of a kind would only be another owner. Deadlock is not checked: without labs nothing happens.
Two versions of a ConfigMap with the same content are not told apart, which lets more updates through.

What it shows:

- With whatever lag, no report disappears from a ConfigMap that lives (`NoLostReport`): the Update carries the
  resourceVersion of what was read. This is so for two reports of one lab in one ConfigMap, too, where the second
  is read from a cache that need not have the first write and is then refused. And what a status claims of a ConfigMap no other lab names is true
  (`ClaimedReportsHold`).
- Without lag nothing outlives the labs that could remove it (`NoOrphans`), and a ConfigMap of labs of one kind is deleted only while labelled
  with a lab under deletion (`DeletesOnlyLabelled`): the worker that lists is the worker that writes.
- What is not claimed, because the code does not give it. A lab that shares a ConfigMap with one of the other kind loses
  its report when that one is deleted, as the whole object goes. Labs of different kinds
  that are both cleaned may race: List and Delete are two calls of two workers and Delete has no precondition.
  With lag, a list may be old and the Delete hit a ConfigMap that is now labelled for another lab. And
  a spec that puts both reports into one ConfigMap, which `resourceanalyzerlab_controller_test.go:39-40,66-77` uses, may
  fail on the second one: it is read from a cache that need not have the first write. It takes another reconcile,
  which an event, a requeue or the resync brings.

### Proofs

`ReportArtifactsProofs` proves all five properties of the run, for any labs of both kinds, any names
and outputs, any number of changes and faults:

- with whatever lag: `TypeCorrect`, `NoReportLost` (`Spec => NoLostReport`), `ClaimsAreTrue`
  (`Spec => []ClaimedReportsHold`);
- for caches that do not lag: `ReportsHaveOwners` (`NoOrphans`), `DeletesAreOfLabelled` (`DeletesOnlyLabelled`).

They assume what `ReportArtifacts` assumes by name: no name is a lab of both kinds, `Nobody` is no lab, `NoMap` no
ConfigMap, a spec maps reports to names, and resource labs have no raw report.

- *Types.* `TypeOK` is not inductive: the report a worker turns to must have a name in the spec it has read (`TodoNamed`);
  `TInv` is both. `NoReportLost` needs no more: an Update is accepted only on what was read.
- *The invariant `Inv`.* A claim could be broken by a cleanup that is still at work from an old cache for an earlier
  incarnation of the lab. That it cannot be follows from the order of versions: copies are no newer than the cache and the
  cache no newer than the lab (`Versions`), and whoever could claim a report has read this very incarnation (`StatusWasRead`),
  so that no older "deleting" is left to be read. `MarksOK` and `OutputsUsed` say
  that labels and copies name only what a spec may name, so nobody else comes near a ConfigMap of one's own;
  `WrittenHolds` carries a run from its first report to the status.
- *Without lag*, `FreshInv`: every report has the label of its kind (`Labelled`), a labelled lab is alive (`LabelsLive`) and so is
  the lab a worker is busy with (`BusyLives`); a cleanup has on its list all that carries its label
  (`ListIsComplete`), and of the ConfigMaps of one kind what is on the list still does (`ListIsTrue`). Each is about one worker for
  each kind: `OneWorker`.

`Inv` and `FreshInv` were checked as invariants of the run first. The steps are treated by what they do to a lab
(`LabMoves`), to a worker (`WorkerMoves`), to the caches (`CacheMoves`) and to a ConfigMap (`MapMoves`, `WriteEffect`).

## ProbeRun and Datapath

One probe Job of one node, from `spec.traffic` and the pods and services of the cluster
to the results in the status.

| Variables | Stand for |
|---|---|
| `traffic`, `cluster`, `changes`, `seen` | the spec; what the lists return now; how often that changed, and every value it had |
| `stage`, `job`, `delay`, `clock` | the Job: its state, checks and deadline, how long its container took to start, the seconds since it was created |
| `todo`, `current`, `tries`, `results` | `/probe`: its loops over checks and attempts |
| `capture`, `answers` | what the snapshots were taken of; what the reconcile made of the results |

| Code | Definitions |
|---|---|
| `listProbePods`, `listProbeServices`, `buildProbeChecks`, `checksHash`, `probeJobDeadlineSeconds` | operators of the same names, `CreateJob` |
| Job controller, kubelet (external) | `StartPod`, the deadline in `Attempt`, the cut in `ReadJob` |
| `cmd/probe` | `Attempt`, `WriteReport` |
| `readProbeJobReport`, `probeResultFromReport` | `ReadJob`, `correlatedServiceBackend` |
| kube-proxy and Calico (external) | `iptablesSave` and what it is made of, `ClusterChanges` |
| `internal/agent` | `Collect`, `boundedLines`, `filterIptablesLines`, `collectsRoutes` |
| `analyzer/network.go` | `TraceSourceIptables`, `TraceTargetIptables`, `traceServiceDNAT`, `endpointChain`, `dispatch`, ... |

A line of iptables-save is a record of what the analyzer looks for in it; that it searches by text is
`addressWithin` (pairs of addresses of which one contains the other, `Within`) and `portWithin`. Calico's dispatch is a
tree (`Dispatch`): pods of a node whose interfaces begin with the same letter (`Letter`, `crowded`) share a chain of their own.
Kube-proxy may put a rule that marks packets for masquerading before the one that leads to a service's chain (`masquerades`).
Pods in the network of their node are left out of these tables (`Local`). The
snapshots of a run are all from one moment (`Captures`), which may be before or after the lists of the reconcile; the
output of all nodes may be cut at one of some places, or one agent not answer. Cut or silent only
with tables that are up to date: a bound. An attempt takes no time or its whole timeout.

`ProbeRun` checks it with four specs (defaults; slow pod checks across nodes; every path;
services by name and address with HTTP) in seven clusters (two nodes and two services, one headless with one port
for two protocols; the same with rules for masquerading, or with a service outside the spec whose address begins
with that of the one probed; a pod with an address that contains another's, without and with comments; three pods on one node and a port that
contains another; a namespace listed twice), of which one may become another during the run, so that pods move and services change. Start delays of 60, 90 and
240 seconds lie on both sides of the minute the deadline leaves and of the least deadline. Timeouts
are such that deadlines are clamped at both ends. Deadlock is not checked: a run ends.

Fairness: the pod of a Job starts or its deadline passes (Job controller), an attempt ends by its timeout
(`probeOnce`), the report is written after the last one. Nothing is assumed of
the reconcile or of what the probes meet.

What it shows:

- A Job that started within a minute and whose probes keep to their timeouts is never cut off, unless an
  hour is too short for them (`CutOffOnlyWhenLate`).
- The number of checks is the one of the docs' formula, with headless services and defaults accounted for
  (`CheckCount`), and a report that is read answers the checks of now (`AnswersCurrent`): the hash covers
  every field of a check and how often it occurs.
- The pod reported behind a service is one of its pods, and the path through its chains ends there or
  nowhere (`BackendTraced`), even with tables out of date or cut off, unless an address contains the
  one that is looked for: 10.0.0.1 is found in the rule of 10.0.0.10, whose chain is then
  shown. A cut line may also yield a chain that does not exist, or half an address; the property says so.
- With whole tables of now the path of a TCP or HTTP check of a service is complete, as far as its chains were asked for:
  through the chain of the very port and through one that leads to the very address of the pod reported, to this pod's own chain
  (`PathComplete`). The exceptions are what the text search and the flat dispatch of `analyzer/network.go` miss: the address and port are found
  in the rule of another service, or of a longer port of the same one (170, 173); rules have comments and the address is found in that of an endpoint
  with a longer one (203); kube-proxy has a rule for masquerading before the entry, which is then taken for it (170); Calico has put the pod's interface
  into a chain of several (264). Each of these is in the instance, and without it TLC refutes the property. One more, that another
  running pod has the pod's address, is not: no two pods of the clusters share one.
- The agent's default allowlist has `CALI-*`, which matches none of Calico's `cali-*` chains: without an
  allowlist in the spec the policy part stays empty, and the property asks for it only with `cali-*`.
- The source's policy chain is that of the probe's own pod, which is gone when snapshots
  are taken: it is missing, or is that of a pod that got the address since. No property promises it.

Left out: what is shown beside the path and decides nothing (chain summaries, kube-proxy mode, conntrack and
IPVS flags, CNI detection).

### Proofs

`ProbeRunProofs` proves all six invariants of the run, for any specs, clusters, start delays, cuts and number of changes:
`Typed` (`TypeOK`), `CutOff` (`CutOffOnlyWhenLate`), `Count` (`CheckCount`), `Current` (`AnswersCurrent`), `Traced`
(`BackendTraced`) and `Complete` (`PathComplete`), each `Spec => []...`, from `RunInvariant`: `Spec => []RunInv`.

Assumed, by name: specs and clusters are such records (`InputAssumption`), the bounds numbers (`BoundAssumption`); a name is that
of one pod and one service of a cluster, and `"cut"`, which stands for half an address, is no pod's address (`NameAssumption`);
`None` is no capture and no chain and not in the text of an address (`NoneAssumption`, `NoChainAssumption`,
`WithinAssumption`). The first two are what the API server sees to, the others say that model values are not
one another.

- *The run.* `TypeOK` and `CutOffOnlyWhenLate` are not inductive. `RunInv` adds that `/probe` has exactly one result
  of every check it is through with (`Progress`), that it took no longer than its attempts may (`Pace`), and that what is
  read are the results of a Job with the hash of the checks of now (`Read`). The deadline is then
  arithmetic: a product of three unknowns, which the solver gets as one term (`Product`, `OneMoreAttempt`, `MoreAttempts`).
- *Counting.* `Count` maps every list of checks onto a product of pods or service ports with protocols
  (`Counted`: a bijection keeps the cardinality), splits the checks into those of each path (`DisjointUnion`) and
  multiplies by the source nodes. `SameHash` is what makes the hash good enough: two sets of
  entries with equally many entries of each check have equally many entries, by gluing the bijections of the parts.
- *Tables.* `DatapathProofs` says of every line of the table nat which service, port, protocol and pod it is about
  (`Programmed`); that holds of what kube-proxy programs, of the line a cut leaves (`CutLine`), and of what the agent
  filters (`SnapshotProgrammed`). From it `ServiceTraced` follows by the chains' names: whatever the analyzer takes first
  among several rules is about a service and a pod with the text it searched for. Hence `Traced`.
- *Whole tables.* `Wired` says the converse of what is not cut off: the entry of a service leads to each of its endpoints
  (`Connected`), a comment repeats the address its chain translates to; `Dispatches` the same of Calico's chains. `ServiceFound`
  and `TargetFound` walk along it as the analyzer does. Hence `Complete`.
- *Sequences.* Concatenation, `At` and `FlattenSeq` compute by recursion, and the library's induction takes an
  operator. As in `RecommendationProofs`, `AllNaturals` states induction over a set; `AtRange` and `Flattened` are what is
  needed of the two.

`RunInv` was checked as an invariant of the run first. Only model-checked: `JobEnds`, for its fairness.

## Recommendation

The resource analyzer: containers are scraped, resized (a new pod of the name, whose series stand next to
the old ones), and analysed again and again.

| Variables | Stand for |
|---|---|
| `day`, `scrapes`, `usage` | Prometheus: samples of day and value for every container and resource |
| `settings` | requests and limits, one entry for every pod that had the name |
| `result` | of the last analysis |

| Code | Definitions |
|---|---|
| `AnalyzeResourceSeries` (`resource_series.go`) | action `AnalyzeResourceSeries`, `queried`, `analyzed`, `keyFromMetric`, `targetMatches`, `workloadFromLabels`, `workloadKindMatches`, `languageFor`, `Recommendations`, `potentialReduction` |
| `BuildUsageWindows` (the window of 14 days), `minAvgMax`, `valuesInWindow` | the operators of these names, `samplesInWindow` |
| `RecommendResources`, `requestBase`, `limitBase`, `applyHeadroom`, `languageHeadroom`, `roundMillicores`, `roundMiB`, `Percentile` (`resource.go`) | the operators of these names; the two roundings are `roundResource` |
| Prometheus, owners of pods (external) | `Scrape`, `Resize`; `NextReconcile` is the next event |

What is only shown in the status is left out: the current usage and the window of 7 days, the observed percentiles, the
counts of the summary. `workloadFromLabels` takes one label pair for all that it looks for: `owner` is what it finds.

Usage is in hundredths, so that everything is a quotient of integers. The code computes in floating point
and rounds up, and a whole number that comes out a trifle above itself goes to the next
(320 * 1.1 does); the model leaves open (`Noises`) at which stage that happens.

`Recommendation` runs histories of three scrapes, one or eight days apart, so that the window of
14 days and the lookback of 20 include and drop samples; values are idle, on and
just above steps of the rounding, or missing for one resource; one container is excluded, another one while its workload is
of a kind not asked for. The policies are the docs' sample,
the defaults, and low percentiles with little headroom.

What it shows: a limit leaves its headroom above every sample of 14 days
(`LimitCoversPeak`), is not below its request and is zero only when nothing was used
(`RequestWithinLimit`); a request leaves its headroom above the mean and is not below the minimum
(`RequestCoversAverage`), and rounding at every stage adds up to less than one step (`NoInflation`). What the summary
says could be freed was not in use: it is no more than the requests of all containers leave above their means
(`SavingsWereUnused`). Met on the way and not against a claim of the docs:
a CPU `requestHeadroomRatio` below 1 is taken as it is, so that the request is below the mean; the mean of equal samples
may be shown one above their maximum; when two pods had a name the current values are those of whichever series comes
last; the workload of a container is the pod as soon as it has CPU samples, since the CPU query
of `prometheus.go` sums the labels away, so that overrides by workload and `workloadKinds` apply only to those that have none.

### Proofs

`RecommendationProofs` proves five of the six properties for any containers, history, policies, noise and bounds:

- `TypeCorrect`, `LimitsCoverPeaks`, `RequestsWithinLimits`, `RequestsCoverAverages`, `RequestsAreNotInflated`,
  each `Spec => []...`, from `Invariance`: `Spec => []IInv`.

`SavingsWereUnused` adds up over the containers, which takes an induction for every sum in it; it is only model-checked.

They assume what `Recommendation` assumes by name: samples are naturals, headrooms and minima integers, first
settings are settings, noises are noises. `IInv` is simple: samples are finite sets, and a result is what was recommended
from the samples that are there, for some noise (`ResultOK`; it is inductive because nothing is scraped between an analysis
and the next reconcile). It was checked as an invariant of the run first.

The rest is arithmetic. The order statistics and sums behind a percentile and a mean are defined by CHOOSE and by
the fold of the community modules, and what a recursive function computes needs induction, whose theorems in the library
take an operator. `AllNaturals` states it over a set instead (a set with 0 and the successors of its members has
all naturals, from the well-foundedness of `<`). With it `FiniteBounded` and `GreatestNatural` give finite sets a maximum,
`SumIsDefined` that the function of the fold exists, and `SumBounded` its bounds. `Ordered` and `Places` show that a percentile
lies between two samples; `CeilBounds`, `Headroom` and `RoundedResource` bound each stage with any noise; `BaseBounds`,
`RequestSound` and `LimitSound` put them together, and `WindowIsSince` relates the window the code computes to the
days the properties speak of.

## Plan

1. `NetworkProbeLab`, its runs and proofs: done.
2. `LabPromise` and the refinement of both reconcilers, checked and proved: done.
3. `ResourceAnalyzerLab` with the monitoring stack, its runs, `ReportsSound`: done.
4. `ReportArtifacts`, checked and proved: done.
5. Check building, the probe binary, the agent and the datapath (`ProbeRun`, `Datapath`): done.
6. `Recommendation`, checked and proved: done.
7. All safety properties of both reconcilers proved, those of the design documents for caches that
   do not lag: done.
8. All safety properties of `ProbeRun` proved, those of the path through the tables included: done.
9. Open: snapshots of several moments within one run; cuts and silent agents with tables that are out of date.

## Not modelled

- Exporters: the layout of a spreadsheet and of a page, without state. That the Excel summary's reduction is a signed sum while
  the status counts only what shrinks is seen in the code and not in a model.
- HTTP and decoding of the Prometheus client and of the snapshot requests: what they return is an input.
- Fields of the API types on which nothing is decided (`traffic.concurrency`, `target.labelSelector` of the resource lab,
  `output.includeRawMetrics`).
- Deployment manifests, scripts, CI.
- Leader election: off by default; with two managers the single worker of the models would be wrong.
- Sizes of objects: a snapshot over the ConfigMap limit is truncated once and not measured again
  (`networkprobelab_controller.go:1033`); what the API server refuses is an error like any other.
- Which names `sanitizeName` and the cut make equal: the constants of `ReportArtifacts` say who meets.
- A Job of a node that has no checks any more is left to its TTL; the models have it (`ReadJob`,
  `ChangeTargets`), and no property is about it.
