------------------------- MODULE MCReportArtifacts --------------------------
(* Instances of ReportArtifacts for TLC: two probe labs and a resource lab     *)
(* that meet in ConfigMaps their users named, and a resource lab with a        *)
(* ConfigMap for both its reports.                                             *)
EXTENDS ReportArtifacts, TLC

CONSTANTS n1, n2, r1, r2, probes, shared, own, both

\* n1 writes its Excel report to the ConfigMap it shares with n2 or to the one it
\* shares with r1; r1 has a ConfigMap of its own for its other report.
Meeting ==
    (n1 :> {"excel" :> probes, "excel" :> shared})
    @@ (n2 :> {"html" :> probes})
    @@ (r1 :> {"excel" :> shared @@ "html" :> own})
    @@ (r2 :> {"excel" :> both @@ "html" :> both})
\* Up to date caches with all three labs and with one of each kind and two faults;
\* lagging caches with one of each kind, and with two reports in one ConfigMap.
Scenes == {[labs |-> {n1, n2, r1}, lag |-> FALSE, faults |-> 1],
           [labs |-> {n1, r1},     lag |-> FALSE, faults |-> 2],
           [labs |-> {n1, r1},     lag |-> TRUE,  faults |-> 1],
           [labs |-> {r2},         lag |-> TRUE,  faults |-> 3]}
=============================================================================
