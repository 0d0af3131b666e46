----------------------- MODULE MCResourceAnalyzerLab ------------------------
(* Instances of ResourceAnalyzerLab for TLC: what the generations of the spec *)
(* ask for.                                                                   *)
EXTENDS ResourceAnalyzerLab

Deployed == [auto |-> TRUE, prometheus |-> TRUE, grafana |-> FALSE, url |-> FALSE,
             step |-> TRUE, output |-> {"excel"}]
External == [Deployed EXCEPT !.auto = FALSE, !.url = TRUE, !.output = Reports]

\* A deployed Prometheus, then an external one and both reports.
DeployedThenExternal == [g \in 1..MaxGeneration |-> IF g = 1 THEN Deployed ELSE External]
\* Grafana only, then Prometheus, too.
GrafanaFirst ==
    [g \in 1..MaxGeneration |->
        [Deployed EXCEPT !.grafana = TRUE, !.prometheus = (g > 1)]]
=============================================================================
