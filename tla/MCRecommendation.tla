-------------------------- MODULE MCRecommendation --------------------------
(* Two containers, a namespace that is left out, usage around the           *)
(* boundaries of rounding, windows that empty.                              *)
EXTENDS Recommendation

Owner(kind, name) == [kind |-> kind, name |-> name]

App     == [namespace |-> "prod", pod |-> "orders", container |-> "app", owner |-> Owner("StatefulSet", "shop")]
Sidecar == [namespace |-> "prod", pod |-> "orders", container |-> "proxy", owner |-> Owner("Deployment", "shop")]
System  == [namespace |-> "kube-system", pod |-> "dns", container |-> "dns", owner |-> None]

MCContainers == {App, Sidecar, System}

MCTarget == [namespaces |-> {"prod", "kube-system"}, excludeNamespaces |-> {"kube-system"},
             workloadKinds |-> {"StatefulSet"}]

Use(cpu, memory) == [r \in Resources |-> IF r = "cpu" THEN cpu ELSE memory]

\* In hundredths: idle; 70m and 320Mi; half of that and no memory; no CPU; 500.01m and 512Mi.
MCUsages == [c \in MCContainers |->
    CASE c = App     -> {Use(0, 40), Use(7000, 32000), Use(3550, None), Use(None, 32000), Use(50001, 51200)}
      [] c = Sidecar -> {Use(50001, 40), Use(None, 40)}
      [] OTHER       -> {Use(50001, 40)}]

Set(request, limit) == [request |-> request, limit |-> limit]

Big   == [r \in Resources |-> IF r = "cpu" THEN Set(100, 500) ELSE Set(128, 512)]
Small == [r \in Resources |-> IF r = "cpu" THEN Set(50, 0) ELSE Set(64, 64)]

MCSettings == {Big, Small}

MCFirstSettings == [c \in MCContainers |-> IF c = App THEN Big ELSE Small]

Rule(p, q, h, k, m) == [request |-> [percentile |-> p, headroom |-> h],
                        limit   |-> [percentile |-> q, headroom |-> k], minimum |-> m]

Policy(cpu, memory, default, overrides) ==
    [cpu |-> cpu, memory |-> memory, default |-> default, overrides |-> overrides]

JavaApp  == [namespace |-> "prod", workload |-> None, container |-> "app", language |-> "java"]
JavaShop == [namespace |-> None, workload |-> "shop", container |-> None, language |-> "java"]

MCNoises == {
    [sample |-> FALSE, average |-> FALSE, percentiles |-> {}, ratio |-> FALSE],
    [sample |-> TRUE, average |-> FALSE, percentiles |-> {50, 95}, ratio |-> TRUE],
    [sample |-> FALSE, average |-> TRUE, percentiles |-> {90, 99}, ratio |-> FALSE],
    [sample |-> TRUE, average |-> TRUE, percentiles |-> {50, 90, 95, 99}, ratio |-> TRUE]}

\* The sample of the docs, the defaults, and low percentiles with less
\* headroom than one for the CPU request.
MCPolicies == {
    Policy(Rule("p95", "p99", 120, 150, 50), Rule("p95", "p99", 115, 130, 64), None, <<JavaApp>>),
    Policy(Rule(None, None, 0, 0, 0), Rule(None, None, 0, 0, 0), "python", <<>>),
    Policy(Rule("p50", "p50", 80, 100, 10), Rule("p50", "blank", 100, 100, 32), None, <<JavaShop>>)}
=============================================================================
