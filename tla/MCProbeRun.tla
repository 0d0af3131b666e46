---------------------------- MODULE MCProbeRun ----------------------------
(* Two nodes and two services, one headless and with one port for two      *)
(* protocols; a pod that gets a new address, moves or is listed twice;      *)
(* addresses and ports that contain one another.                           *)
EXTENDS ProbeRun

PodOf(name, ip, node) == [name |-> name, phase |-> "Running", ip |-> ip, node |-> node,
                          group |-> "web", ports |-> {8080}]
Starting == [name |-> "c", phase |-> "Pending", ip |-> None, node |-> None, group |-> "web",
             ports |-> {8080}]

Web == [name |-> "web", ip |-> "vip", group |-> "web", ports |-> <<80>>]
DNS == [name |-> "dns", ip |-> None, group |-> None, ports |-> <<53, 53>>]
\* Its address begins with the address of web.
Api == [name |-> "api", ip |-> "vip0", group |-> "web", ports |-> <<80>>]

Both == {"n1", "n2"}

MCWithin == {<<"vip", "vip0">>, <<"ip1", "ip10">>}

\* The probe's pod is gone when snapshots are taken, and its address may have a new owner.
MCProbeIP == [n \in Both |-> IF n = "n1" THEN "ip3" ELSE "ip4"]

\* The interfaces of a and b begin alike, d's does not.
MCLetter == [name \in {"a", "b", "d"} |-> IF name = "d" THEN "3" ELSE "1"]

Plain == [pods |-> <<PodOf("a", "ip1", "n1"), PodOf("b", "ip2", "n2"), Starting>>,
          services |-> <<Web, DNS>>, nodes |-> Both, others |-> <<>>, comments |-> FALSE,
          masquerades |-> FALSE]

\* b has an address that a's is part of.
Longer == [Plain EXCEPT !.pods = <<PodOf("b", "ip10", "n2"), PodOf("a", "ip1", "n1")>>]

\* Three pods on one node; a port that is part of another.
Crowded == [Plain EXCEPT
    !.pods = <<PodOf("a", "ip1", "n1"), PodOf("b", "ip3", "n1"),
               [PodOf("d", "ip2", "n1") EXCEPT !.group = "db"]>>,
    !.services = <<[Web EXCEPT !.ports = <<8080, 80>>]>>, !.comments = TRUE]

MCClusters == {
    Plain, [Plain EXCEPT !.masquerades = TRUE], [Plain EXCEPT !.others = <<Api>>],
    Longer, [Longer EXCEPT !.comments = TRUE], Crowded,
    [Plain EXCEPT !.pods = <<PodOf("a", "ip1", "n1"), PodOf("a", "ip1", "n1"), PodOf("b", "ip2", "n2")>>,
                  !.services = <<>>, !.nodes = {"n1"}]}

\* Within the rules of a service and of an endpoint, on either node.
MCCuts == [keep : {9, 12, 14}, jumpLost : BOOLEAN]

Default == [protocols |-> <<>>, ports |-> {}, count |-> 0, timeout |-> 0,
            crossNodeOnly |-> FALSE, podIP |-> FALSE, serviceVIP |-> FALSE, dns |-> FALSE,
            observability |-> [collect |-> {}, allowlist |-> {}]]

Everything == [collect |-> {"iptables", "routes"}, allowlist |-> {"KUBE-*", "cali-*"}]

\* The defaults; pods of other nodes, slowly; every path; services by name and address.
MCTraffics == {
    Default,
    [Default EXCEPT !.protocols = <<"HTTP", "TCP">>, !.ports = {80}, !.count = 3, !.timeout = 590,
                    !.crossNodeOnly = TRUE, !.observability = Everything],
    [Default EXCEPT !.ports = {80}, !.count = 3, !.timeout = 1200, !.podIP = TRUE, !.dns = TRUE,
                    !.crossNodeOnly = TRUE, !.observability = Everything],
    [Default EXCEPT !.protocols = <<"HTTP">>, !.count = 2, !.timeout = 30, !.serviceVIP = TRUE,
                    !.dns = TRUE]}
=============================================================================
