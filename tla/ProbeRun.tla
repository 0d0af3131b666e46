------------------------------ MODULE ProbeRun ------------------------------
(***************************************************************************)
(* One probe Job, from the pods and services of the cluster to the results *)
(* in the status: buildProbeChecks expands the spec into checks, the Job   *)
(* of a source node gets those of its node and a deadline, /probe runs     *)
(* them one after the other, `count' times each, and a later reconcile     *)
(* reads the report, looks for the pods behind the services and, in        *)
(* snapshots of the nodes, for the datapath of every probe (Datapath).     *)
(*                                                                         *)
(* NetworkProbeLab takes the checks of a node as a value and the end of a  *)
(* Job as an event; this module is what is behind both.                    *)
(***************************************************************************)
EXTENDS Datapath

CONSTANTS
    Traffics,      \* the values of spec.traffic
    Clusters,      \* the pods, services and nodes the spec's target may select
    StartDelays,   \* seconds from the creation of the Job until its container runs
    MessageLimit,  \* the results that fit into a termination message
    Changes,       \* bound: how often the cluster changes during the run
    ProbeIP,       \* the address of the probe's pod, by node
    Cuts           \* bound: where the output of iptables-save may be cut off

Ports == {ports \in SUBSET Nat : IsFiniteSet(ports)}

\* group stands for the labels a service selects by, ports for the container ports; the API
\* server lets no service have the port 0.
Pod     == [name : STRING, phase : {"Running", "Pending"}, ip : STRING \cup {None},
            node : STRING \cup {None}, group : STRING \cup {None}, ports : Ports]
Service == [name : STRING, ip : STRING \cup {None}, group : STRING \cup {None},
            ports : Seq(Nat \ {0})]

\* pods are listed namespace by namespace, so that a namespace named twice in the spec
\* lists its pods twice; nodes are those the node selector allows.  The services not selected and
\* whether kube-proxy comments and masquerades only matter to the datapath.
Cluster == [pods : Seq(Pod), services : Seq(Service), nodes : SUBSET STRING,
            others : Seq(Service), comments : BOOLEAN, masquerades : BOOLEAN]
Observability == [collect : SUBSET {"iptables", "routes"}, allowlist : SUBSET {"KUBE-*", "cali-*"}]
Traffic == [protocols : Seq(STRING), ports : Ports, count : Nat, timeout : Nat,
            crossNodeOnly : BOOLEAN, podIP : BOOLEAN, serviceVIP : BOOLEAN, dns : BOOLEAN,
            observability : Observability]
Cut     == [keep : Nat, jumpLost : BOOLEAN]

ASSUME InputAssumption == Traffics \subseteq Traffic /\ Clusters \subseteq Cluster
\* A name stands for a namespace and a name, which the API server gives to one object; "cut" is
\* what is left of an address that is cut off.
ASSUME NameAssumption ==
    \A c \in Clusters :
        /\ \A s, t \in Range(c.services \o c.others) : s.name = t.name => s = t
        /\ \A p, q \in Range(c.pods) : p.name = q.name => p = q
        /\ \A p \in Range(c.pods) : p.ip # "cut" /\ p.name # None
ASSUME BoundAssumption ==
    StartDelays \subseteq Nat /\ MessageLimit \in Nat /\ Changes \in Nat /\ Cuts \subseteq Cut

\* What was programmed, where it was cut off, the node whose agent is silent.
Shot == [at : Clusters, cut : Cuts \cup {None}, silent : (UNION {c.nodes : c \in Clusters}) \cup {None}]

ASSUME NoneAssumption == None \notin Shot

VARIABLES
    traffic,   \* spec.traffic and spec.observability of the lab
    cluster,   \* what the target selects now
    changes,   \* the changes of the cluster so far
    seen,      \* the cluster at every time of the run
    stage,     \* planning, nothing to probe, pending, running, done, exceeded, replaced, error, read
    job,       \* the Job: source node, checks, deadline
    delay,     \* seconds from the creation of the Job until its container ran
    clock,     \* seconds since the Job was created
    todo,      \* the checks /probe has not finished
    current,   \* the check it is at, None between two checks
    tries,     \* attempts of the current check that passed
    results,   \* of /probe: the check and whether it succeeded
    capture,   \* of the snapshots: what was programmed, the cut, the node whose agent is silent
    answers    \* what the reconcile made of the results: with the pod behind the check, the path

vars == <<traffic, cluster, changes, seen, capture, stage, job, delay, clock, todo, current, tries,
          results, answers>>

-----------------------------------------------------------------------------
(* Building the checks                                                      *)

Positive(ports) == {n \in ports : n > 0}

defaultInt32(value, fallback) == IF value <= 0 THEN fallback ELSE value

filterRunnablePods(c) ==
    LET runnable(pod) == /\ pod.phase = "Running" /\ pod.ip # None
                         /\ pod.node # None /\ pod.node \in c.nodes
    IN  At(c.pods, {k \in DOMAIN c.pods : runnable(c.pods[k])})

uniquePodNodes(c) == {pod.node : pod \in Range(filterRunnablePods(c))}

defaultProtocols(t) == IF t.protocols = <<>> THEN <<"TCP">> ELSE t.protocols

\* The first of these that has any: the spec, the services, the containers, port 80.
defaultProbePorts(t, c) ==
    LET ofServices == UNION {Range(svc.ports) : svc \in Range(c.services)}
        ofPods     == UNION {pod.ports : pod \in Range(filterRunnablePods(c))}
        candidates == <<t.ports, ofServices, ofPods, {80}>>
    IN  Positive(candidates[Min({k \in 1 .. 4 : Positive(candidates[k]) # {}})])

\* Mutant: the ports of the spec for services too.
ServicePortsIgnored(t, c, svc) == SetToSeq(defaultProbePorts(t, c))

\* A service that has one port number for two protocols lists it twice.
serviceOrDefaultPorts(t, c, svc) ==
    IF svc.ports = <<>> THEN SetToSeq(defaultProbePorts(t, c))
    ELSE At(svc.ports, {j \in DOMAIN svc.ports : svc.ports[j] > 0})

includePodIP(t) == t.podIP \/ ~(t.serviceVIP \/ t.dns)

\* Every field of probe.Check that is not a function of these.
Check(path, source, target, node, address, serviceIP, protocol, port) ==
    [path |-> path, source |-> source, target |-> target, node |-> node, address |-> address,
     serviceIP |-> serviceIP, protocol |-> protocol, port |-> port]

\* A check with the place it has in the lists it comes from, which keeps equal checks apart: of
\* the k-th pod, or of the j-th port of the k-th service, with the i-th protocol.
PodEntry(t, c, n, k, i, port) ==
    LET pod == filterRunnablePods(c)[k] IN
    [at |-> <<k, i>>, check |-> Check("podIP", n, pod.name, pod.node, pod.ip, None,
                                      defaultProtocols(t)[i], port)]

ServiceEntry(t, c, path, n, k, i, j) ==
    LET svc == c.services[k] IN
    [at |-> <<k, i, j>>,
     check |-> Check(path, n, svc.name, None, IF path = "dns" THEN svc.name ELSE svc.ip, svc.ip,
                     defaultProtocols(t)[i], serviceOrDefaultPorts(t, c, svc)[j])]

EntriesOfPods(t, c, n) ==
    LET pods == filterRunnablePods(c) IN
    {PodEntry(t, c, n, k, i, port) :
        k \in {k \in DOMAIN pods : ~(t.crossNodeOnly /\ pods[k].node = n)},
        i \in DOMAIN defaultProtocols(t), port \in defaultProbePorts(t, c)}

EntriesOfService(t, c, path, n, k) ==
    {ServiceEntry(t, c, path, n, k, i, j) :
        i \in DOMAIN defaultProtocols(t), j \in DOMAIN serviceOrDefaultPorts(t, c, c.services[k])}

\* The services that are probed by this path: headless ones have no address.
ServicesOf(t, c, path) ==
    {k \in DOMAIN c.services :
        IF path = "dns" THEN t.dns ELSE t.serviceVIP /\ c.services[k].ip # None}

\* The list of checks of a source node up to its order.
checksFrom(n, t, c) ==
    (IF includePodIP(t) THEN EntriesOfPods(t, c, n) ELSE {})
    \cup (UNION {EntriesOfService(t, c, "serviceVIP", n, k) : k \in ServicesOf(t, c, "serviceVIP")})
    \cup (UNION {EntriesOfService(t, c, "dns", n, k) : k \in ServicesOf(t, c, "dns")})

\* Of all source nodes: those of the pods.
buildProbeChecks(t, c) == UNION {checksFrom(n, t, c) : n \in uniquePodNodes(c)}

\* The checks that the Job of a node is to have.
ChecksOf(n, t, c) == IF n \in uniquePodNodes(c) THEN checksFrom(n, t, c) ELSE {}

\* The results are matched with checks, and the checks sorted, by a hash of these.
checkID(check) == <<check.source, check.target, check.protocol, check.port, check.path>>

\* Mutant: over the IDs of the checks.
HashOfIDs(entries) == {checkID(e.check) : e \in entries}

\* The annotation that tells whether a Job is the one these checks call for.
checksHash(entries) ==
    [check \in {e.check : e \in entries} |-> Cardinality({e \in entries : e.check = check})]

\* Mutant: one attempt per check.
DeadlineForOneAttempt(t, checkCount) ==
    LET deadline == checkCount * defaultInt32(t.timeout, 5) + 60
    IN  CASE deadline < 120 -> 120 [] deadline > 3600 -> 3600 [] OTHER -> deadline

\* Mutant: not clamped.
DeadlineUnclamped(t, checkCount) ==
    checkCount * defaultInt32(t.count, 1) * defaultInt32(t.timeout, 5) + 60

\* Time for every attempt and a minute to start, between two minutes and an hour.
probeJobDeadlineSeconds(t, checkCount) ==
    LET deadline == checkCount * defaultInt32(t.count, 1) * defaultInt32(t.timeout, 5) + 60
    IN  CASE deadline < 120 -> 120 [] deadline > 3600 -> 3600 [] OTHER -> deadline

\* The pod shown as the target of a service's check: one on another node if there is any.
correlatedServiceBackend(target, source, c) ==
    LET pods     == filterRunnablePods(c)
        svc      == c.services[Min({k \in DOMAIN c.services : c.services[k].name = target})]
        selected == {k \in DOMAIN pods : svc.group # None /\ pods[k].group = svc.group}
        remote   == {k \in selected : pods[k].node # source}
    IN  IF selected = {} THEN None ELSE pods[Min(IF remote # {} THEN remote ELSE selected)]
-----------------------------------------------------------------------------
Stages == {"planning", "nothing", "pending", "running", "done", "exceeded",
           "replaced", "error", "read"}

NoJob == [node |-> None, entries |-> {}, deadline |-> 0]

Init ==
    /\ traffic \in Traffics /\ cluster \in Clusters /\ changes = 0 /\ seen = {cluster}
    /\ capture = None /\ stage = "planning" /\ job = NoJob /\ delay = 0 /\ clock = 0
    /\ todo = {} /\ current = None /\ tries = 0
    /\ results = {} /\ answers = {}

\* The first reconcile: no checks is an error, else every source node gets a Job, of which
\* this is one.
CreateJob ==
    /\ stage = "planning"
    /\ LET entries == buildProbeChecks(traffic, cluster) IN
       IF entries = {}
       THEN stage' = "nothing" /\ UNCHANGED <<job, todo>>
       ELSE \E n \in {e.check.source : e \in entries} :
              LET mine == ChecksOf(n, traffic, cluster) IN
              /\ job' = [node |-> n, entries |-> mine,
                         deadline |-> probeJobDeadlineSeconds(traffic, Cardinality(mine))]
              /\ todo' = mine
              /\ stage' = "pending"
    /\ UNCHANGED <<traffic, cluster, changes, seen, capture, delay, clock, current, tries, results, answers>>

\* The pod is scheduled, its image pulled and its container started, or the deadline passes.
StartPod ==
    /\ stage = "pending"
    /\ \E d \in StartDelays :
         /\ delay' = d
         /\ IF d > job.deadline
            THEN stage' = "exceeded" /\ UNCHANGED clock
            ELSE stage' = "running" /\ clock' = d
    /\ UNCHANGED <<traffic, cluster, changes, seen, capture, job, todo, current, tries, results, answers>>

\* Mutant: a check that fails is tried again later.
FinishPassed(e, passed) ==
    /\ current' = None /\ tries' = 0
    /\ todo' = IF passed THEN todo \ {e} ELSE todo
    /\ results' = IF passed THEN results \cup {[entry |-> e, success |-> passed]} ELSE results

\* A check ends with its last attempt or with the first one that fails.
Finish(e, passed) ==
    /\ current' = None /\ tries' = 0
    /\ todo' = todo \ {e}
    /\ results' = results \cup {[entry |-> e, success |-> passed]}

\* /probe calls probeOnce. An attempt takes up to the timeout, of which the model keeps the
\* two ends; the Job controller kills the pod at the deadline. The checks come in the order
\* of their hashes, of which the model takes one.
Attempt ==
    /\ stage = "running"
    /\ todo # {}
    /\ \E passed \in BOOLEAN, d \in {0, defaultInt32(traffic.timeout, 5)} :
         LET e == IF current = None THEN CHOOSE e \in todo : TRUE ELSE current IN
         IF clock + d > job.deadline
         THEN stage' = "exceeded" /\ UNCHANGED <<clock, todo, current, tries, results>>
         ELSE /\ clock' = clock + d
              /\ IF passed /\ tries + 1 < defaultInt32(traffic.count, 1)
                 THEN current' = e /\ tries' = tries + 1 /\ UNCHANGED <<todo, results>>
                 ELSE Finish(e, passed)
              /\ UNCHANGED stage
    /\ UNCHANGED <<traffic, cluster, changes, seen, capture, job, delay, answers>>

\* The report goes to the termination log, of which the kubelet keeps the first bytes. How long
\* it took is forgotten.
WriteReport ==
    /\ stage = "running" /\ todo = {}
    /\ stage' = "done" /\ clock' = 0 /\ delay' = 0
    /\ UNCHANGED <<traffic, cluster, changes, seen, capture, job, todo, current, tries, results, answers>>

\* What iptables-save prints, by cluster and node.
Tables == [c \in Clusters |-> [n \in UNION {d.nodes : d \in Clusters} |-> iptablesSave(c, n)]]

\* The nodes whose agent answers, with what it found.
collectSnapshots(c, shot) ==
    [n \in c.nodes \ {shot.silent} |->
        Collect(Tables[shot.at][n], Local(c, n), traffic.observability, shot.cut)]

\* The pod a result is about, the one in the check or the one behind its service, and the path
\* to it as far as there are snapshots.
probeResultFromReport(result, c, snapshots) ==
    LET check   == result.entry.check
        backend == IF check.path = "podIP" THEN None
                   ELSE correlatedServiceBackend(check.target, check.source, c)
        target  == IF check.path = "podIP" THEN [ip |-> check.address, node |-> check.node]
                   ELSE IF backend = None THEN [ip |-> None, node |-> None]
                   ELSE [ip |-> backend.ip, node |-> backend.node]
        observation == [protocol |-> check.protocol, sourceIP |-> ProbeIP[check.source],
                        targetIP |-> target.ip, serviceIP |-> check.serviceIP, port |-> check.port]
        chainPath ==
            IF check.source \notin DOMAIN snapshots THEN <<>>
            ELSE toAPITraceSteps(check.source, TraceSourceIptables(snapshots[check.source], observation))
                 \o (IF target.node \notin DOMAIN snapshots THEN <<>>
                     ELSE toAPITraceSteps(target.node,
                              TraceTargetIptables(snapshots[target.node], observation)))
    IN  [entry |-> result.entry, success |-> result.success, backend |-> backend, path |-> chainPath]

\* kube-proxy and Calico may be behind the cluster, and ahead of the lists of the reconcile; or
\* the agent of a node does not answer; or its output is cut off.
Captures ==
    LET programmed == seen \cup (IF changes < Changes THEN Clusters ELSE {})
        Take(at, cut, silent) == [at |-> at, cut |-> cut, silent |-> silent]
    IN  {Take(at, None, None) : at \in programmed} \cup {Take(cluster, None, n) : n \in cluster.nodes}
        \cup {Take(cluster, cut, None) : cut \in Cuts}

\* A later reconcile lists pods and services again. A Job that is not the one they call for
\* is deleted whatever became of it; one of a node without checks is not looked at.
ReadJob ==
    /\ stage \in {"pending", "running", "done", "exceeded"}
    /\ LET mine == ChecksOf(job.node, traffic, cluster)
           same == checksHash(mine) = checksHash(job.entries)
       IN
       /\ mine # {}
       /\ \/ /\ ~same
             /\ stage' = "replaced" /\ UNCHANGED <<capture, answers>>
          \/ /\ same
             /\ \/ stage = "exceeded"
                \/ stage = "done" /\ Cardinality(results) > MessageLimit
             /\ stage' = "error" /\ UNCHANGED <<capture, answers>>
          \/ /\ same
             /\ stage = "done" /\ Cardinality(results) <= MessageLimit
             /\ stage' = "read"
             /\ \E shot \in Captures :
                  LET snapshots == collectSnapshots(cluster, shot) IN
                  /\ capture' = shot
                  /\ answers' = {probeResultFromReport(result, cluster, snapshots) : result \in results}
    /\ UNCHANGED <<traffic, cluster, changes, seen, job, delay, clock, todo, current, tries, results>>

\* Pods come, go and move, services change (Kubernetes).
ClusterChanges ==
    /\ changes < Changes
    /\ stage \in {"pending", "running", "done", "exceeded"}
    /\ \E c \in Clusters \ {cluster} : cluster' = c
    /\ changes' = changes + 1 /\ seen' = seen \cup {cluster'}
    /\ UNCHANGED <<traffic, capture, stage, job, delay, clock, todo, current, tries, results, answers>>

Next == CreateJob \/ StartPod \/ Attempt \/ WriteReport \/ ReadJob \/ ClusterChanges

Spec == Init /\ [][Next]_vars

\* A Job's pod starts, attempts end by their timeout and the report is written.
Fairness == WF_vars(StartPod) /\ WF_vars(Attempt) /\ WF_vars(WriteReport)

FairSpec == Spec /\ Fairness

-----------------------------------------------------------------------------
(* Properties                                                               *)

\* The variables hold what their comments say; a Job has between two minutes and an hour.
TypeOK ==
    /\ traffic \in Traffics /\ cluster \in Clusters /\ changes \in 0 .. Changes
    /\ stage \in Stages
    /\ job = NoJob \/ job.deadline \in 120 .. 3600
    /\ clock \in 0 .. job.deadline
    /\ todo \subseteq job.entries /\ current \in todo \cup {None}
    /\ tries \in 0 .. defaultInt32(traffic.count, 1) - 1
    /\ cluster \in seen /\ (capture = None <=> stage # "read")
    /\ {r.entry : r \in results} \cap todo = {}

\* The deadline ends a Job only when its container took more than a minute to start, or when
\* an hour is too short for attempts that all time out: never one that started in time and
\* whose probes keep to their timeouts, whichever of them fail (probeJobDeadlineSeconds
\* against the loops of /probe).
CutOffOnlyWhenLate ==
    stage = "exceeded" =>
        \/ delay > 60
        \/ Cardinality(job.entries) * defaultInt32(traffic.count, 1)
             * defaultInt32(traffic.timeout, 5) > 3540

\* The number of checks is that of the formula in docs/cr-implementation-flow-and-validation.md
\* (210-228), with the VIP checks of headless services left out and pod checks the default
\* when the spec asks for no path.
CheckCount ==
    LET pods     == filterRunnablePods(cluster)
        services == cluster.services
        sources  == uniquePodNodes(cluster)
        default  == Cardinality(defaultProbePorts(traffic, cluster))
        portsOf(k) == IF services[k].ports = <<>> THEN default ELSE Len(services[k].ports)
        servicePorts(ks) == UNION {{k} \X (1 .. portsOf(k)) : k \in ks}
        pairs   == {x \in sources \X DOMAIN pods : traffic.crossNodeOnly => pods[x[2]].node # x[1]}
        withVIP == {k \in DOMAIN services : services[k].ip # None}
        podIPs  == IF traffic.podIP \/ (~traffic.serviceVIP /\ ~traffic.dns)
                   THEN Cardinality(pairs) * default ELSE 0
        vips    == IF traffic.serviceVIP
                   THEN Cardinality(sources) * Cardinality(servicePorts(withVIP)) ELSE 0
        names   == IF traffic.dns
                   THEN Cardinality(sources) * Cardinality(servicePorts(DOMAIN services)) ELSE 0
    IN  stage = "planning" =>
            Cardinality(buildProbeChecks(traffic, cluster))
                = (podIPs + vips + names) * Len(defaultProtocols(traffic))

\* A report that is read answers every check the lab calls for now, as often as it calls for
\* it, and each was sent to the address its target has now: a pod that got a new address or
\* node while the Job ran is not reported with the result of its old one.
AnswersCurrent ==
    stage = "read" =>
        LET now == ChecksOf(job.node, traffic, cluster) IN
        /\ Cardinality(answers) = Cardinality(now)
        /\ {a.entry.check : a \in answers} = {e.check : e \in now}

Services == Range(cluster.services)

\* The pod reported behind a service is one its selector selects now, on another node than the
\* source whenever there is one.  A path through the service's chains, even one read from tables
\* that are out of date or cut off, ends at that pod or nowhere: never at another endpoint, nor in
\* another service's chains, unless their addresses contain those that are looked for.
BackendTraced ==
    \A a \in answers : a.entry.check.path # "podIP" =>
        LET check    == a.entry.check
            groups   == {svc.group : svc \in {s \in Services : s.name = check.target}}
            selected == {pod \in Range(filterRunnablePods(cluster)) : pod.group \in groups \ {None}}
            passed   == {s \in Range(a.path) : s.step.stage = "service-dnat"}
        IN  /\ IF selected = {} THEN a.backend = None
               ELSE /\ a.backend \in selected
                    /\ a.backend.node = check.source => \A pod \in selected : pod.node = check.source
            /\ \A s \in passed :
                 /\ s.node = check.source
                 /\ s.step.to \notin {None, "cut", "endpoint"} =>
                        a.backend # None /\ addressWithin(a.backend.ip, s.step.to)
                 /\ s.step.chain.class \in {"KUBE-SVC", "KUBE-SEP"} /\ s.step.chain.of # <<"cut">> =>
                        \E svc \in UNION {Range(c.services \o c.others) : c \in Clusters} :
                            /\ svc.name = s.step.chain.of[1]
                            /\ addressWithin(check.serviceIP, svc.ip)
                            /\ portWithin(check.port, s.step.chain.of[2])

\* With tables that are whole and up to date the path of a TCP or HTTP check of a service goes
\* through the chain of the port that is checked and through that of the endpoint reported on the
\* source node, to the pod's own chain on the target node, as far as these chains are asked for.  It does not
\* when the text of an address or a port is found elsewhere first (network.go:170, 173): in another
\* service's rule, in one for a longer port of the same service or, where rules have comments, in
\* that of an endpoint with a longer address (203); when kube-proxy has a rule for masquerading
\* before the entry; and not to the pod's chain when another pod has its address too or
\* Calico dispatches interfaces that begin alike together (264).
PathComplete ==
    \A a \in answers :
        LET check    == a.entry.check
            found    == capture.at = cluster /\ capture.cut = None /\ capture.silent = None
            asked    == traffic.observability.allowlist
            pods     == Range(cluster.pods)
            listed   == \E svc \in Services : svc.name = check.target /\ check.port \in Range(svc.ports)
            simple   == /\ ~cluster.masquerades
                        /\ \A svc \in Range(cluster.services \o cluster.others) :
                           \A port \in Range(svc.ports) :
                              addressWithin(check.serviceIP, svc.ip) /\ portWithin(check.port, port)
                                  => svc.name = check.target /\ port = check.port
            distinct == cluster.comments =>
                            \A pod \in pods :
                                addressWithin(a.backend.ip, pod.ip) => pod.ip = a.backend.ip
            alone    == /\ \A pod \in pods :
                              pod.phase = "Running" /\ pod.ip = a.backend.ip => pod = a.backend
                        /\ ~crowded(a.backend, Local(cluster, a.backend.node))
            Passes(node, part, chain, to) ==
                \E s \in Range(a.path) : /\ s.node = node /\ s.step.stage = part
                                         /\ s.step.chain = chain /\ s.step.to = to
        IN  (/\ found /\ listed /\ check.protocol # "UDP"
             /\ check.serviceIP # None /\ a.backend # None) =>
            /\ simple /\ distinct /\ (asked = {} \/ "KUBE-*" \in asked) =>
                 /\ Passes(check.source, "service-dnat",
                           Chain("KUBE-SVC", <<check.target, check.port, "tcp">>), None)
                 /\ \E pod \in pods :
                      Passes(check.source, "service-dnat",
                             Chain("KUBE-SEP", <<check.target, check.port, "tcp", pod.name>>),
                             a.backend.ip)
            /\ alone /\ "cali-*" \in asked /\ collectsRoutes(traffic.observability.collect) =>
                 Passes(a.backend.node, "target-ingress", Chain("cali-tw", <<a.backend.name>>), None)

\* The Job ends whatever its probes meet: with a report, at its deadline, or deleted.
JobEnds == stage = "pending" ~> stage \notin {"pending", "running"}
=============================================================================
