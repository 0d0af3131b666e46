------------------------------ MODULE Datapath ------------------------------
(***************************************************************************)
(* From the tables of a node to the datapath of a probe: the rules that    *)
(* kube-proxy and Calico program, the snapshot that the node agent takes   *)
(* of them, the path that the network analyzer reads from it.              *)
(*                                                                         *)
(* A line of iptables-save is a record of what the analyzer looks for in   *)
(* it.  The analyzer searches lines for the text of an address or a port,  *)
(* so that 10.0.0.1 is also found in a line about 10.0.0.10.               *)
(***************************************************************************)
EXTENDS Naturals, FiniteSets, Sequences, SequencesExt

CONSTANTS
    None,    \* no address, no node, no check, no pod, no chain
    Within,  \* pairs of addresses of which the text of the first is part of the second's
    Letter   \* the first letter of a pod's interface after "cali", by name: two interfaces of one
             \* letter differ in the second

ASSUME WithinAssumption == \A pair \in Within : pair[1] # None /\ pair[2] # None

\* The elements of s at these places, in their order.
At(s, places) ==
    LET taken[k \in 0 .. Len(s)] ==
            IF k = 0 THEN <<>>
            ELSE IF k \in places THEN Append(taken[k - 1], s[k]) ELSE taken[k - 1]
    IN  taken[Len(s)]

addressWithin(a, b) == a # None /\ (a = b \/ <<a, b>> \in Within)

\* "--dport 80" is part of "--dport 8080".
portWithin(p, q) == p \in {q, q \div 10, q \div 100, q \div 1000, q \div 10000}

-----------------------------------------------------------------------------
(* What is programmed (kube-proxy, Calico)                                  *)

Chain(class, of) == [class |-> class, of |-> of]
Fixed(class) == Chain(class, <<>>)

\* What the chains of a service, of an endpoint and of a pod's policy are named by.
Parts == STRING \cup Nat \cup {"tcp", "udp", "cut"}

ASSUME NoChainAssumption ==
    None \notin [class : {"KUBE-SVC", "KUBE-SEP", "cali-tw"}, of : Seq(Parts)]

\* ":chain" declares a chain, "-A chain" adds a rule to it.
Declaration(table, chain) ==
    [table |-> table, chain |-> chain, rule |-> FALSE, dst |-> None, protocol |-> None, port |-> 0,
     comment |-> None, interface |-> None, to |-> None, jump |-> None]

\* A number a service lists again is for UDP.
protocolOf(ports, j) == IF \E i \in 1 .. j - 1 : ports[i] = ports[j] THEN "udp" ELSE "tcp"

\* kube-proxy knows every service, of which the lab selects some.
endpointsOf(svc, c) ==
    At(c.pods, {k \in DOMAIN c.pods : /\ c.pods[k].phase = "Running"
                                      /\ svc.group # None /\ c.pods[k].group = svc.group})

\* A service with an address and endpoints: the entry, a chain of its own that jumps to one chain
\* for every endpoint, whose address newer versions repeat in a comment.  Versions that masquerade
\* the traffic from outside of the cluster here mark it first, with a rule that reads like the entry.
ServicePort(svc, j, c) ==
    LET port == svc.ports[j]
        key  == <<svc.name, port, protocolOf(svc.ports, j)>>
        own  == Chain("KUBE-SVC", key)
        eps  == endpointsOf(svc, c)
        EndpointChain(i) == Chain("KUBE-SEP", <<key[1], key[2], key[3], eps[i].name>>)
        Entry(chain) == [Declaration("nat", Fixed("KUBE-SERVICES")) EXCEPT !.rule = TRUE,
                             !.dst = svc.ip, !.protocol = key[3], !.port = port, !.jump = chain]
        rules ==
            (IF c.masquerades THEN <<Entry(Fixed("KUBE-MARK-MASQ"))>> ELSE <<>>)
            \o <<Entry(own)>>
            \o [i \in DOMAIN eps |->
                   [Declaration("nat", own) EXCEPT !.rule = TRUE, !.jump = EndpointChain(i),
                        !.comment = IF c.comments THEN eps[i].ip ELSE None]]
            \o [i \in DOMAIN eps |->
                   [Declaration("nat", EndpointChain(i)) EXCEPT !.rule = TRUE, !.to = eps[i].ip]]
    IN  IF svc.ip = None \/ eps = <<>> THEN <<>> ELSE rules

nat(c) ==
    <<Declaration("nat", Fixed("KUBE-SERVICES")), Declaration("nat", Fixed("cali-POSTROUTING"))>>
    \o FlattenSeq([k \in DOMAIN (c.others \o c.services) |->
           LET svc == (c.others \o c.services)[k]
           IN  FlattenSeq([j \in DOMAIN svc.ports |-> ServicePort(svc, j, c)])])

\* Pods that have an interface of their own: those in the network of their node are left out.
Local(c, n) ==
    At(c.pods, {k \in DOMAIN c.pods : c.pods[k].phase = "Running" /\ c.pods[k].node = n})

\* Of these interfaces, some begin like this pod's and not all do.
crowded(pod, pods) ==
    /\ \E other \in Range(pods) : other.name # pod.name /\ Letter[other.name] = Letter[pod.name]
    /\ \E other \in Range(pods) : Letter[other.name] # Letter[pod.name]

\* Calico dispatches by the interface of a pod, which the route to its address names.  Interfaces
\* that begin alike have a chain of their own, reached by a rule for the letter.
Dispatch(pods, dispatcher, policy) ==
    LET Rule(chain, interface, jump) ==
            [Declaration("filter", chain) EXCEPT !.rule = TRUE, !.interface = interface, !.jump = jump]
        OfLetter(pod) == Chain(dispatcher, <<Letter[pod.name]>>)
        alike == At(pods, {i \in DOMAIN pods : crowded(pods[i], pods)})
    IN  [i \in DOMAIN pods |->
            IF crowded(pods[i], pods) THEN Rule(Fixed(dispatcher), None, OfLetter(pods[i]))
            ELSE Rule(Fixed(dispatcher), pods[i].name, Chain(policy, <<pods[i].name>>))]
        \o [i \in DOMAIN alike |->
               Rule(OfLetter(alike[i]), alike[i].name, Chain(policy, <<alike[i].name>>))]

filter(c, n) ==
    <<Declaration("filter", Fixed("KUBE-FORWARD")), Declaration("filter", Fixed("cali-FORWARD")),
      Declaration("filter", Fixed("cali-from-wl-dispatch")),
      Declaration("filter", Fixed("cali-to-wl-dispatch"))>>
    \o Dispatch(Local(c, n), "cali-from-wl-dispatch", "cali-fw")
    \o Dispatch(Local(c, n), "cali-to-wl-dispatch", "cali-tw")

\* The lines of iptables-save; c is the cluster as it is programmed on node n.
iptablesSave(c, n) ==
    <<Declaration("raw", Fixed("cali-PREROUTING"))>> \o filter(c, n) \o nat(c)

-----------------------------------------------------------------------------
(* The node agent                                                           *)

\* Output beyond the limit is cut off, within a line as a rule: what is left of it may have
\* lost its jump or name a chain that does not exist.
boundedLines(lines, cut) ==
    IF cut = None \/ Len(lines) <= cut.keep THEN lines
    ELSE LET line == lines[cut.keep + 1]
             rest == [line EXCEPT !.jump = IF @ = None \/ cut.jumpLost THEN None
                                           ELSE Chain(@.class, <<"cut">>),
                                  !.to = IF @ = None THEN None ELSE "cut"]
         IN  SubSeq(lines, 1, cut.keep) \o (IF line.rule THEN <<rest>> ELSE <<>>)

Kube == {"KUBE-SERVICES", "KUBE-SVC", "KUBE-SEP", "KUBE-FORWARD"}

\* The families of chains a snapshot shows: those of the request, or else the agent's own, in
\* which CALI-* is spelt otherwise than Calico's chains.
chainAllowed(chain, allowlist) ==
    IF chain.class \in Kube THEN allowlist = {} \/ "KUBE-*" \in allowlist ELSE "cali-*" \in allowlist

filterIptablesLines(lines, allowlist) ==
    At(lines, {k \in DOMAIN lines : chainAllowed(lines[k].chain, allowlist)})

\* The agent decodes the request onto its defaults, of which only the routes are off, and the
\* request leaves out what is off: the spec turns off nothing else.
collectsRoutes(collect) == collect = {} \/ "routes" \in collect

\* A snapshot, of what iptables-save prints and of the routes to the pods of the node.
Collect(output, pods, observability, cut) ==
    [lines  |-> filterIptablesLines(boundedLines(output, cut), observability.allowlist),
     routes |-> IF collectsRoutes(observability.collect)
                THEN {[ip |-> pod.ip, interface |-> pod.name] : pod \in Range(pods)} ELSE {}]

-----------------------------------------------------------------------------
(* The analyzer                                                             *)

has(lines, table, chain) == \E l \in Range(lines) : l.table = table /\ l.chain = chain

\* The line numbers of the rules of a chain. Of several that fit, the analyzer takes the first.
rulesOf(lines, table, chain) ==
    {k \in DOMAIN lines : lines[k].rule /\ lines[k].table = table /\ lines[k].chain = chain}

Step(stage, table, chain, to) == [stage |-> stage, table |-> table, chain |-> chain, to |-> to]

\* The chain, in the first of the tables that has it.
existingChain(lines, stage, tables, chain) ==
    LET having == {k \in DOMAIN tables : has(lines, tables[k], chain)}
    IN  IF having = {} THEN <<>> ELSE <<Step(stage, tables[Min(having)], chain, None)>>

\* Mutant: HTTP is looked for as it is.
ProtocolAsIs(protocol) == IF protocol = "UDP" THEN "udp" ELSE IF protocol = "TCP" THEN "tcp" ELSE "http"

iptablesProtocol(protocol) == IF protocol = "UDP" THEN "udp" ELSE "tcp"

endpointDNATMatches(lines, chain, ip) ==
    ip # None /\ \E k \in rulesOf(lines, "nat", chain) : lines[k].to = ip

\* The rules of a service that jump to an endpoint.
endpointRules(lines, service) ==
    {k \in rulesOf(lines, "nat", service) :
        lines[k].jump # None /\ lines[k].jump.class = "KUBE-SEP"}

\* Mutant: the first endpoint of the service.
FirstEndpoint(lines, service, target) ==
    LET candidates == endpointRules(lines, service)
    IN  IF candidates = {} THEN None ELSE lines[Min(candidates)].jump

\* The endpoint whose comment has the target's text, or else the first that translates to it.
endpointChain(lines, service, target) ==
    LET candidates == endpointRules(lines, service)
        named      == {k \in candidates : addressWithin(target, lines[k].comment)}
        translated == {k \in candidates : endpointDNATMatches(lines, lines[k].jump, target)}
        preferred  == IF named # {} THEN named ELSE translated
    IN  IF preferred = {} THEN None ELSE lines[Min(preferred)].jump

dnatAction(lines, chain) ==
    LET dnat == {k \in rulesOf(lines, "nat", chain) : lines[k].to # None}
    IN  IF dnat = {} THEN "endpoint" ELSE lines[Min(dnat)].to

traceServiceDNAT(lines, traffic) ==
    LET entries  == {k \in rulesOf(lines, "nat", Fixed("KUBE-SERVICES")) :
                        /\ addressWithin(traffic.serviceIP, lines[k].dst)
                        /\ portWithin(traffic.port, lines[k].port)
                        /\ lines[k].protocol = iptablesProtocol(traffic.protocol)}
        service  == lines[Min(entries)].jump
        endpoint == endpointChain(lines, service, traffic.targetIP)
        Select(chain, to) == <<Step("service-dnat", "nat", chain, to)>>
    IN  IF entries = {} \/ service = None THEN <<>>
        ELSE Select(Fixed("KUBE-SERVICES"), None) \o Select(service, None)
             \o (IF endpoint = None THEN <<>>
                 ELSE Select(endpoint, dnatAction(lines, endpoint)))

\* The policy chain of the pod an address is routed to: workloadInterface and dispatchTarget.
dispatch(snapshot, stage, ip, chain) ==
    LET interfaces == {r.interface : r \in {r \in snapshot.routes : r.ip = ip}}
        lines == snapshot.lines
        rules == {k \in rulesOf(lines, "filter", chain) :
                     lines[k].interface \in interfaces /\ lines[k].jump # None}
    IN  IF rules = {} THEN <<>> ELSE <<Step(stage, "filter", lines[Min(rules)].jump, None)>>

TraceSourceIptables(snapshot, traffic) ==
    LET Existing(tables, class) ==
            existingChain(snapshot.lines, "source-egress", tables, Fixed(class))
    IN  Existing(<<"raw", "mangle", "nat">>, "cali-PREROUTING")
        \o (IF traffic.serviceIP = None THEN <<>> ELSE traceServiceDNAT(snapshot.lines, traffic))
        \o Existing(<<"filter">>, "cali-FORWARD")
        \o Existing(<<"filter">>, "cali-from-wl-dispatch")
        \o dispatch(snapshot, "source-egress", traffic.sourceIP, Fixed("cali-from-wl-dispatch"))
        \o Existing(<<"filter">>, "KUBE-FORWARD")
        \o Existing(<<"mangle", "nat">>, "cali-POSTROUTING")

TraceTargetIptables(snapshot, traffic) ==
    LET Existing(tables, class) ==
            existingChain(snapshot.lines, "target-ingress", tables, Fixed(class))
    IN  Existing(<<"raw", "mangle", "nat">>, "cali-PREROUTING")
        \o Existing(<<"filter">>, "cali-FORWARD")
        \o Existing(<<"filter">>, "cali-to-wl-dispatch")
        \o dispatch(snapshot, "target-ingress", traffic.targetIP, Fixed("cali-to-wl-dispatch"))
        \o Existing(<<"filter">>, "KUBE-FORWARD")

toAPITraceSteps(node, steps) == [i \in DOMAIN steps |-> [node |-> node, step |-> steps[i]]]
=============================================================================
