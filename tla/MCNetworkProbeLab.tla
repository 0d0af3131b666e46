------------------------- MODULE MCNetworkProbeLab -------------------------
(* Instances of NetworkProbeLab for TLC: the check lists, outputs and         *)
(* snapshot rounds the runs choose from.                                      *)
EXTENDS NetworkProbeLab, TLC

CONSTANTS h1, h2

\* The hashes are interchangeable where the check lists are.
HashSymmetry == Permutations({h1, h2})

\* One node whose target moves.
OneNodeMoves  == {[n \in Nodes |-> h1], [n \in Nodes |-> h2]}
OneNodeStable  == {[n \in Nodes |-> h1]}

\* Two source nodes; the target of the second moves, or there are no targets.
TwoNodeTargets == {[n \in Nodes |-> IF n = 1 THEN h1 ELSE h] : h \in {h1, h2}} \cup {NoChecks}

\* The spec asks for an Excel report, and from the second generation on for raw
\* snapshots, too.
ExcelThenBoth == [g \in 1..MaxGeneration |-> IF g = 1 THEN {"excel"} ELSE {"excel", "raw"}]
HtmlOnly     == [g \in 1..MaxGeneration |-> {"html"}]
NoOutput     == [g \in 1..MaxGeneration |-> {}]

AllOrNone == {Nodes, {}}
All       == {Nodes}
=============================================================================
