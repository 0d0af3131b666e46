--------------------------- MODULE Recommendation ---------------------------
(***************************************************************************)
(* The resource analyzer: from the usage of containers in Prometheus to    *)
(* the requests and limits it recommends.                                  *)
(*                                                                         *)
(* Usage is in hundredths of a millicore and of a MiB, ratios and          *)
(* percentiles are in hundredths, time is in days.  The code computes in   *)
(* floating point and rounds up: a result that is a whole number may come  *)
(* out a trifle above it, as 320 * 1.1 does, and then goes to the next.    *)
(* The model computes exactly and leaves open when that happens.           *)
(***************************************************************************)
EXTENDS Integers, FiniteSets, FiniteSetsExt, Sequences, SequencesExt

CONSTANTS
    Containers,   \* set of [namespace, pod, container, owner]; owner is the [kind, name] of the
                  \* workload in the labels of its memory series, or None
    Usages,       \* what a scrape of a container may find: of cpu and memory, or None
    Gaps,         \* days between two scrapes
    Lookback,     \* spec.metrics.lookbackDays
    Settings,     \* requests and limits: for cpu and memory, [request, limit]
    FirstSettings,\* those a container has at first
    Policies,     \* the values of spec.recommendation
    Target,       \* spec.target: [namespaces, excludeNamespaces, workloadKinds]
    Noises,       \* which computations come out a trifle above a whole number
    MaxScrapes,   \* bound: scrapes
    MaxPods,      \* bound: pods that one after the other have the name of a container's pod
    None          \* no sample, no result, an empty string

Resources == {"cpu", "memory"}

\* Converting a sample, averaging, a percentile, applying a ratio.
Noise == [sample : BOOLEAN, average : BOOLEAN, percentiles : SUBSET {50, 90, 95, 99}, ratio : BOOLEAN]

ASSUME NoiseAssumption == Noises \subseteq Noise
ASSUME UsageAssumption ==
    \A c \in Containers : Usages[c] \subseteq [Resources -> Nat \cup {None}]
ASSUME SettingsAssumption == FirstSettings \in [Containers -> Settings]
ASSUME PolicyAssumption ==
    \A policy \in Policies, r \in Resources :
        /\ policy[r].request.headroom \in Int /\ policy[r].limit.headroom \in Int
        /\ policy[r].minimum \in Int
ASSUME BoundAssumption ==
    Gaps \subseteq Nat \ {0} /\ Lookback \in Nat /\ MaxScrapes \in Nat /\ MaxPods \in Nat \ {0}

VARIABLES
    day,       \* of the last scrape
    scrapes,   \* the scrapes so far
    usage,     \* the samples of every container and resource: sets of [day, value]
    settings,  \* the requests and limits of every container, one entry for every pod of its name
    result     \* of the last analysis

vars == <<day, scrapes, usage, settings, result>>

-----------------------------------------------------------------------------
(* Arithmetic                                                               *)

larger(a, b) == IF a > b THEN a ELSE b

CeilDiv(n, d) == (n + d - 1) \div d

\* math.Ceil of n / d as floating point computes it: noise says whether a whole number
\* comes out a trifle above itself.
Ceil(n, d, noise) == IF noise /\ n > 0 /\ n % d = 0 THEN n \div d + 1 ELSE CeilDiv(n, d)

\* The k-th value in ascending order.
sortedValue(samples, k) ==
    Min({v \in {s.value : s \in samples} : Cardinality({s \in samples : s.value <= v}) >= k})

\* The mean of two neighbours in ascending order, weighted; num / den, as the average is.
Percentile(samples, p) ==
    IF samples = {} THEN [num |-> 0, den |-> 1]
    ELSE LET rank   == p * (Cardinality(samples) - 1)
             lower  == rank \div 100 + 1
             weight == rank % 100
             upper  == IF weight = 0 THEN lower ELSE lower + 1
         IN  [num |-> sortedValue(samples, lower) * (100 - weight) + sortedValue(samples, upper) * weight,
              den |-> 100]

\* coresToMillicores and bytesToMiB.
whole(value, noise) == Ceil(value.num, value.den * 100, noise)

percentileName(name, fallback) ==
    CASE name = "p50" -> 50 [] name = "p90" -> 90 [] name = "p99" -> 99
      [] name \in {"p95", "blank"} -> 95   \* blank: white space only, which is not empty
      [] OTHER -> fallback

\* Mutant: the ratio is what comes on top.
AddHeadroom(value, ratio, minimum, noise) ==
    larger(Ceil(value * (100 + ratio), 100, noise), minimum)

applyHeadroom(value, ratio, minimum, noise) ==
    larger(Ceil(value * (IF ratio <= 0 THEN 100 ELSE ratio), 100, noise), minimum)

\* Mutant: no default.
ConfiguredMinimum(configured, r) == configured

defaultMinimum(configured, r) ==
    IF configured > 0 THEN configured ELSE IF r = "cpu" THEN 50 ELSE 64

\* The least headroom of a language; a CPU request has none of its own.
languageHeadroom(language, what) ==
    CASE what = <<"cpu", "request">>    -> 0
      [] what = <<"cpu", "limit">>      -> CASE language = "java" -> 150 [] language = "python" -> 140 [] OTHER -> 120
      [] what = <<"memory", "request">> -> CASE language = "java" -> 125 [] language = "python" -> 120 [] OTHER -> 110
      [] what = <<"memory", "limit">>   -> CASE language = "java" -> 150 [] language = "python" -> 135 [] OTHER -> 125

roundUp(value, step) == IF value <= 0 THEN 0 ELSE CeilDiv(value, step) * step

\* roundMillicores and roundMiB.
roundResource(r, value) ==
    CASE r = "cpu"    -> roundUp(value, IF value <= 100 THEN 10 ELSE 50)
      [] r = "memory" -> roundUp(value, IF value <= 512 THEN 32 ELSE 128)

-----------------------------------------------------------------------------
(* Usage windows                                                            *)

\* valuesInWindow, with the days of the values.
samplesInWindow(samples, start, end) == {s \in samples : s.day >= start /\ s.day <= end}

percentileOf(samples, p, noise) == whole(Percentile(samples, p), p \in noise.percentiles)

Sum(samples) == MapThenSumSet(LAMBDA s : s.value, samples)

\* Zero without samples.
minAvgMax(samples, noise) ==
    LET values == {s.value : s \in samples} IN
    IF samples = {} THEN [avg |-> 0, max |-> 0]
    ELSE [avg |-> whole([num |-> Sum(samples), den |-> Cardinality(samples)], noise.average),
          max |-> whole([num |-> Max(values), den |-> 1], noise.sample)]

latestTimestamp(samples) == Max({0} \cup {s.day : s \in samples["cpu"] \cup samples["memory"]})

\* The window ends with the latest sample of either resource, not with the present.  (That of
\* seven days and the current usage are shown in the status and enter into nothing.)
BuildUsageWindows(samples, noise) ==
    LET end == latestTimestamp(samples) IN
    [r \in Resources |->
        [last14d |-> minAvgMax(samplesInWindow(samples[r], end - 14, end), noise)]]

-----------------------------------------------------------------------------
(* Recommending                                                             *)

\* The profile of a container is made from the series that comes first.  The CPU query sums by
\* namespace, pod and container: its series name no workload, and the pod stands for it.
workloadFromLabels(c, samples) ==
    IF samples["cpu"] = {} /\ c.owner # None THEN c.owner ELSE [kind |-> "Pod", name |-> c.pod]

\* The first override whose fields match, the default, Go.
languageFor(policy, c, samples) ==
    LET workload == workloadFromLabels(c, samples).name
        matching == SelectSeq(policy.overrides,
                              LAMBDA o : /\ o.namespace \in {None, c.namespace}
                                         /\ o.workload \in {None, workload}
                                         /\ o.container \in {None, c.container}
                                         /\ o.language # None)
    IN  CASE matching # <<>> -> matching[1].language
          [] policy.default # None -> policy.default
          [] OTHER -> "go"

headroom(policy, c, samples, r, what) ==
    larger(policy[r][what].headroom, languageHeadroom(languageFor(policy, c, samples), <<r, what>>))

\* Mutant: the percentile alone.
RequestPercentile(samples, windows, rule, r, noise) ==
    percentileOf(samples[r], percentileName(rule.request.percentile, 95), noise)

requestBase(samples, windows, rule, r, noise) ==
    larger(percentileOf(samples[r], percentileName(rule.request.percentile, 95), noise),
           windows[r].last14d.avg)

\* Mutant: the percentile alone.
LimitPercentile(samples, windows, rule, r, noise) ==
    percentileOf(samples[r], percentileName(rule.limit.percentile, 99), noise)

limitBase(samples, windows, rule, r, noise) ==
    larger(percentileOf(samples[r], percentileName(rule.limit.percentile, 99), noise),
           windows[r].last14d.max)

\* Mutant: rounding and headroom are trusted to keep the order.
AsComputed(limit, request) == limit

\* No limit below its request; no limit at all without usage.
atLeast(limit, request) == IF limit > 0 /\ limit < request THEN request ELSE limit

RecommendResources(c, samples, windows, policy, noise) ==
    [r \in Resources |->
        LET request == roundResource(r,
                applyHeadroom(requestBase(samples, windows, policy[r], r, noise),
                              headroom(policy, c, samples, r, "request"),
                              defaultMinimum(policy[r].minimum, r), noise.ratio))
            limit == roundResource(r,
                applyHeadroom(limitBase(samples, windows, policy[r], r, noise),
                              headroom(policy, c, samples, r, "limit"), 0, noise.ratio))
        IN  [request |-> request, limit |-> atLeast(limit, request)]]

keyFromMetric(c) == c.container # "POD"

targetMatches(c) ==
    /\ c.namespace \notin Target.excludeNamespaces
    /\ Target.namespaces # {} => c.namespace \in Target.namespaces

\* What the queries return: the samples of the lookback.
queried(c) ==
    [r \in Resources |-> {s \in usage[c][r] : s.day >= day - Lookback}]

workloadKindMatches(kind) ==
    Target.workloadKinds = {} \/ kind = "Pod" \/ kind \in Target.workloadKinds

analyzed ==
    {c \in Containers : /\ keyFromMetric(c) /\ targetMatches(c)
                        /\ \E r \in Resources : queried(c)[r] # {}
                        /\ workloadKindMatches(workloadFromLabels(c, queried(c)).kind)}

\* Of several pods of one name the series that comes last in the answer counts; its place
\* says nothing about its age.
Recommendations(policy, latest, noise) ==
    [c \in analyzed |->
        [current |-> settings[c][latest[c]],
         recommended |-> RecommendResources(c, queried(c), BuildUsageWindows(queried(c), noise), policy, noise)]]

\* Mutant: the difference the other way round.
ReductionReversed(recs, r) ==
    MapThenSumSet(LAMBDA c : larger(recs[c].recommended[r].request - recs[c].current[r].request, 0),
                  DOMAIN recs)

\* What the requests of a resource could shrink by: no container makes up for another.
potentialReduction(recs, r) ==
    MapThenSumSet(LAMBDA c : larger(recs[c].current[r].request - recs[c].recommended[r].request, 0),
                  DOMAIN recs)

-----------------------------------------------------------------------------
Init ==
    /\ day = 0 /\ scrapes = 0
    /\ usage = [c \in Containers |-> [r \in Resources |-> {}]]
    /\ settings = [c \in Containers |-> <<FirstSettings[c]>>]
    /\ result = None

\* Prometheus scrapes a container; a series may have no sample of it.
Scrape(c) ==
    /\ scrapes < MaxScrapes /\ scrapes' = scrapes + 1
    /\ \E u \in Usages[c], gap \in Gaps :
         /\ day' = day + gap
         /\ usage' = [usage EXCEPT ![c] = [r \in Resources |->
                IF u[r] = None THEN usage[c][r]
                ELSE usage[c][r] \cup {[day |-> day + gap, value |-> u[r]]}]]
    /\ result = None
    /\ UNCHANGED <<settings, result>>

\* The owner of the pod sets other requests and limits: a new pod of that name, whose series
\* stand next to those of the old one.
Resize(c) ==
    /\ \A d \in Containers : Len(settings[d]) < MaxPods
    /\ \E s \in Settings \ {Last(settings[c])} : settings' = [settings EXCEPT ![c] = Append(@, s)]
    /\ result = None
    /\ UNCHANGED <<day, scrapes, usage, result>>

\* An event or a resync starts the next reconcile.
NextReconcile ==
    /\ result # None /\ result' = None
    /\ UNCHANGED <<day, scrapes, usage, settings>>

\* One reconcile: the queries, the analysis, the status.
AnalyzeResourceSeries ==
    /\ result = None
    /\ \E policy \in Policies, noise \in Noises,
          latest \in {f \in [analyzed -> 1 .. MaxPods] : \A c \in analyzed : f[c] <= Len(settings[c])} :
         LET recs == Recommendations(policy, latest, noise) IN
         result' = [policy |-> policy, recs |-> recs,
                    reduction |-> [r \in Resources |-> potentialReduction(recs, r)]]
    /\ UNCHANGED <<day, scrapes, usage, settings>>

Next == (\E c \in Containers : Scrape(c) \/ Resize(c)) \/ AnalyzeResourceSeries \/ NextReconcile

Spec == Init /\ [][Next]_vars

-----------------------------------------------------------------------------
(* Properties                                                               *)

Step(r, value) == IF r = "cpu" THEN (IF value <= 100 THEN 10 ELSE 50)
                  ELSE IF value <= 512 THEN 32 ELSE 128

Answers == IF result = None THEN {} ELSE DOMAIN result.recs

\* Requests and limits are multiples of what the docs round to
\* (docs/cr-implementation-flow-and-validation.md:655-665), and a request is never zero.
TypeOK ==
    /\ day \in Nat /\ scrapes \in 0 .. MaxScrapes
    /\ \A c \in Containers : settings[c] # <<>> /\ Range(settings[c]) \subseteq Settings
    /\ \A c \in Answers, r \in Resources :
         LET rec == result.recs[c].recommended[r] IN
         /\ rec.request > 0 /\ rec.request % Step(r, rec.request) = 0
         /\ rec.limit >= 0 /\ rec.limit % Step(r, rec.limit) = 0

\* The samples of the last days before the last sample of either resource.
Since(c, r, days) ==
    LET both == queried(c)["cpu"] \cup queried(c)["memory"] IN
    {s \in queried(c)[r] : \A t \in both : t.day - days <= s.day}

\* The ratio that is to be applied: the one asked for, or the language's if that is more; a CPU
\* request has none of the language, and may be asked to stay below what was used.
Asked(c, r, what) ==
    LET rule == result.policy[r][what].headroom IN
    larger(IF <<r, what>> = <<"cpu", "request">> /\ rule <= 0 THEN 100 ELSE rule,
           languageHeadroom(languageFor(result.policy, c, queried(c)), <<r, what>>))

\* A limit leaves the headroom asked for, and that of the language, above every sample of the
\* last 14 days, whatever percentile the spec asks for: nothing seen in that time would have
\* been throttled or killed (docs/cr-implementation-flow-and-validation.md:604-606).
LimitCoversPeak ==
    \A c \in Answers, r \in Resources : \A s \in Since(c, r, 14) :
        result.recs[c].recommended[r].limit * 10000 >= s.value * Asked(c, r, "limit")

\* A limit is not below its request, and there is none only when nothing was used for 14 days:
\* a pod with these values is admitted.
RequestWithinLimit ==
    \A c \in Answers, r \in Resources :
        LET rec == result.recs[c].recommended[r] IN
        IF rec.limit = 0 THEN \A s \in Since(c, r, 14) : s.value = 0
        ELSE rec.request <= rec.limit

\* A request leaves its headroom above the mean of the last 14 days and is not below the
\* minimum: a low percentile does not recommend an unsafe request
\* (docs/cr-implementation-flow-and-validation.md:603-606).
RequestCoversAverage ==
    \A c \in Answers, r \in Resources :
        LET samples == Since(c, r, 14)
            request == result.recs[c].recommended[r].request
        IN  /\ request * 10000 * Cardinality(samples) >= Sum(samples) * Asked(c, r, "request")
            /\ request >= defaultMinimum(result.policy[r].minimum, r)

\* Rounding up at every stage adds up to less than one step: a request stays within what the
\* largest sample, its headroom and one rounding come to.
NoInflation ==
    \A c \in Answers, r \in Resources :
        LET peak == Max({0} \cup {s.value : s \in queried(c)[r]}) \div 100 + 1
            most == larger((peak * Asked(c, r, "request")) \div 100 + 1,
                           defaultMinimum(result.policy[r].minimum, r))
        IN  result.recs[c].recommended[r].request < most + Step(r, most)

\* What the summary says could be freed (README.md:502-503) was not in use: over all containers
\* it is no more than their requests leave above the mean of the last 14 days and its headroom.
\* The request of a container is that of some pod of its name, not always of the last one.
SavingsWereUnused ==
    result # None => \A r \in Resources :
        LET unused(c) ==
                LET request == Max({s[r].request : s \in Range(settings[c])}) * 10000
                    samples == Since(c, r, 14)
                IN  IF samples = {} THEN request
                    ELSE larger(request - (Sum(samples) * Asked(c, r, "request")) \div Cardinality(samples), 0)
        IN  result.reduction[r] * 10000 <= MapThenSumSet(unused, Answers)
=============================================================================
