--------------------------- MODULE ProbeRunProofs ---------------------------
(***************************************************************************)
(* What holds of every probe run, for any spec, any clusters and whatever  *)
(* changes, fails or times out while it runs: the number of checks is the  *)
(* documented one, a Job is cut off only when it has to be, what is read   *)
(* answers the checks of now.                                              *)
(***************************************************************************)
EXTENDS ProbeRun, DatapathProofs

-----------------------------------------------------------------------------
(* Finite sets                                                               *)

\* Counting by a bijection.
LEMMA Counted ==
    ASSUME NEW S, IsFiniteSet(S), NEW T, NEW f \in [S -> T],
           \A y \in T : \E x \in S : f[x] = y,
           \A x, z \in S : f[x] = f[z] => x = z
    PROVE  IsFiniteSet(T) /\ Cardinality(T) = Cardinality(S)
<1>1. f \in Bijection(S, T)
  BY Fun_IsBij
<1> QED BY <1>1, FS_Bijection DEF ExistsBijection

\* The image of a finite set is finite.
LEMMA FiniteImage ==
    ASSUME NEW S, IsFiniteSet(S), NEW f, DOMAIN f = S
    PROVE  IsFiniteSet({f[x] : x \in S})
<1> DEFINE T == {f[x] : x \in S}
           g == [x \in S |-> f[x]]
<1>1. g \in Surjection(S, T)
  BY Fun_IsSurj
<1> QED BY <1>1, FS_Surjection

\* A sequence has finitely many places and elements.
LEMMA FiniteSequence ==
    ASSUME NEW T, NEW s \in Seq(T)
    PROVE  /\ IsFiniteSet(DOMAIN s) /\ Cardinality(DOMAIN s) = Len(s) /\ Len(s) \in Nat
           /\ IsFiniteSet(Range(s))
<1>1. DOMAIN s = 1 .. Len(s) /\ Len(s) \in Nat
  OBVIOUS
<1>2. IsFiniteSet(1 .. Len(s)) /\ Cardinality(1 .. Len(s)) = Len(s)
  BY <1>1, FS_Interval
<1>3. IsFiniteSet(Range(s))
  BY <1>1, <1>2, FiniteImage DEF Range
<1> QED BY <1>1, <1>2, <1>3

-----------------------------------------------------------------------------
(* The pods and ports of a cluster                                           *)

\* The runnable pods are pods of the cluster with an address and an allowed node.
LEMMA RunnablePods ==
    ASSUME NEW c \in Cluster
    PROVE  /\ filterRunnablePods(c) \in Seq(Pod)
           /\ \A pod \in Range(filterRunnablePods(c)) :
                 /\ pod \in Range(c.pods) /\ pod \in Pod
                 /\ pod.phase = "Running" /\ pod.ip # None
                 /\ pod.node # None /\ pod.node \in c.nodes
<1> DEFINE runnable(pod) == /\ pod.phase = "Running" /\ pod.ip # None
                            /\ pod.node # None /\ pod.node \in c.nodes
           places == {k \in DOMAIN c.pods : runnable(c.pods[k])}
<1>1. c.pods \in Seq(Pod)
  BY DEF Cluster
<1>2. filterRunnablePods(c) = At(c.pods, places)
  BY DEF filterRunnablePods
<1>3. /\ At(c.pods, places) \in Seq(Pod)
      /\ Range(At(c.pods, places)) = {c.pods[k] : k \in places \cap DOMAIN c.pods}
  <2> HIDE DEF places
  <2> QED BY <1>1, AtRange
<1>4. ASSUME NEW pod \in Range(filterRunnablePods(c))
      PROVE  pod \in Range(c.pods) /\ pod \in Pod /\ runnable(pod)
  <2>1. PICK k \in DOMAIN c.pods : pod = c.pods[k] /\ runnable(c.pods[k])
    BY <1>2, <1>3
  <2>2. c.pods[k] \in Pod /\ c.pods[k] \in Range(c.pods)
    BY <1>1 DEF Range
  <2> QED BY <2>1, <2>2
<1> QED BY <1>2, <1>3, <1>4

\* There are finitely many source nodes, none of which is None.
LEMMA SourceNodes ==
    ASSUME NEW c \in Cluster
    PROVE  /\ IsFiniteSet(uniquePodNodes(c))
           /\ \A n \in uniquePodNodes(c) : n # None /\ n \in c.nodes
<1> DEFINE pods == Range(filterRunnablePods(c))
           nodeOf == [pod \in pods |-> pod.node]
<1>1. IsFiniteSet(pods)
  BY RunnablePods, FiniteSequence
<1>2. IsFiniteSet({nodeOf[pod] : pod \in pods})
  <2> HIDE DEF pods
  <2> QED BY <1>1, FiniteImage
<1>3. uniquePodNodes(c) = {nodeOf[pod] : pod \in pods}
  BY DEF uniquePodNodes
<1> QED BY <1>2, <1>3, RunnablePods DEF uniquePodNodes

\* The ports to probe are some, finitely many and no zero among them.
LEMMA ProbePorts ==
    ASSUME NEW t \in Traffic, NEW c \in Cluster
    PROVE  /\ IsFiniteSet(defaultProbePorts(t, c))
           /\ defaultProbePorts(t, c) # {} /\ defaultProbePorts(t, c) \subseteq Nat \ {0}
<1> DEFINE svcs == Range(c.services)
           pods == Range(filterRunnablePods(c))
           portsOf == [svc \in svcs |-> Range(svc.ports)]
           containers == [pod \in pods |-> pod.ports]
           ofServices == UNION {Range(svc.ports) : svc \in svcs}
           ofPods == UNION {pod.ports : pod \in pods}
           candidates == <<t.ports, ofServices, ofPods, {80}>>
           used == {k \in 1 .. 4 : Positive(candidates[k]) # {}}
<1>1. t.ports \in Ports
  BY DEF Traffic
<1>2. c.services \in Seq(Service) /\ \A svc \in svcs : svc \in Service /\ svc.ports \in Seq(Nat)
  <2>1. c.services \in Seq(Service)
    BY DEF Cluster
  <2>2. \A svc \in svcs : svc \in Service
    BY <2>1 DEF Range
  <2>3. \A svc \in Service : svc.ports \in Seq(Nat \ {0})
    BY DEF Service
  <2> QED BY <2>1, <2>2, <2>3, SeqMonotonic
<1>3. ofServices \in Ports
  <2>1. IsFiniteSet(svcs)
    BY <1>2, FiniteSequence
  <2>2. ASSUME NEW svc \in svcs PROVE IsFiniteSet(Range(svc.ports)) /\ Range(svc.ports) \subseteq Nat
    <3>1. svc.ports \in Seq(Nat)
      BY <1>2
    <3> QED BY <3>1, FiniteSequence DEF Range
  <2>3. IsFiniteSet({portsOf[svc] : svc \in svcs})
    <3> HIDE DEF svcs
    <3> QED BY <2>1, FiniteImage
  <2>4. {portsOf[svc] : svc \in svcs} = {Range(svc.ports) : svc \in svcs}
    OBVIOUS
  <2>5. IsFiniteSet(ofServices)
    <3> DEFINE all == {Range(svc.ports) : svc \in svcs}
    <3>1. IsFiniteSet(all) /\ \A x \in all : IsFiniteSet(x)
      BY <2>2, <2>3, <2>4
    <3> HIDE DEF all
    <3>2. IsFiniteSet(UNION all)
      BY <3>1, FS_UNION
    <3> QED BY <3>2 DEF all
  <2> QED BY <2>2, <2>5 DEF Ports
<1>4. ofPods \in Ports
  <2>1. IsFiniteSet(pods)
    BY RunnablePods, FiniteSequence
  <2>2. ASSUME NEW pod \in pods PROVE IsFiniteSet(pod.ports) /\ pod.ports \subseteq Nat
    <3>1. pod \in Pod
      BY RunnablePods
    <3>2. pod.ports \in Ports
      BY <3>1 DEF Pod
    <3> QED BY <3>2 DEF Ports
  <2>3. IsFiniteSet({containers[pod] : pod \in pods})
    <3> HIDE DEF pods
    <3> QED BY <2>1, FiniteImage
  <2>4. {containers[pod] : pod \in pods} = {pod.ports : pod \in pods}
    OBVIOUS
  <2>5. IsFiniteSet(ofPods)
    <3> DEFINE all == {pod.ports : pod \in pods}
    <3>1. IsFiniteSet(all) /\ \A x \in all : IsFiniteSet(x)
      BY <2>2, <2>3, <2>4
    <3> HIDE DEF all
    <3>2. IsFiniteSet(UNION all)
      BY <3>1, FS_UNION
    <3> QED BY <3>2 DEF all
  <2> QED BY <2>2, <2>5 DEF Ports
<1>5. {80} \in Ports
  <2>1. IsFiniteSet({80})
    BY FS_Singleton
  <2> QED BY <2>1 DEF Ports
<1> HIDE DEF ofServices, ofPods
<1>6. \A k \in 1 .. 4 : candidates[k] \in Ports
  BY <1>1, <1>3, <1>4, <1>5
<1>7. 4 \in used
  BY DEF Positive
<1>8. Min(used) \in used
  <2>1. used \in SUBSET Nat /\ used # {}
    BY <1>7
  <2> HIDE DEF used
  <2> QED BY <2>1, LeastNatural
<1>9. defaultProbePorts(t, c) = Positive(candidates[Min(used)])
  BY DEF defaultProbePorts, ofServices, ofPods
<1>10. candidates[Min(used)] \in Ports /\ Positive(candidates[Min(used)]) # {}
  BY <1>6, <1>8
<1> HIDE DEF candidates, used
<1>11. /\ Positive(candidates[Min(used)]) \subseteq candidates[Min(used)]
       /\ Positive(candidates[Min(used)]) \subseteq Nat \ {0}
  BY <1>10 DEF Positive, Ports
<1> QED BY <1>9, <1>10, <1>11, FS_Subset DEF Ports

\* A set as a sequence has its members, each at one place.
LEMMA SetAsSequence ==
    ASSUME NEW T, NEW S \in SUBSET T, IsFiniteSet(S)
    PROVE  SetToSeq(S) \in Seq(T) /\ Len(SetToSeq(S)) = Cardinality(S)
<1>1. Cardinality(S) \in Nat
  BY FS_CardinalityType
<1>2. ExistsBijection(1 .. Cardinality(S), S)
  BY FS_CardinalityType
<1>3. PICK f \in [1 .. Cardinality(S) -> S] : IsInjective(f)
  BY <1>2 DEF ExistsBijection, Bijection, Injection
<1>4. SetToSeq(S) \in [1 .. Cardinality(S) -> S]
  BY <1>3 DEF SetToSeq
<1>5. SetToSeq(S) \in [1 .. Cardinality(S) -> T]
  BY <1>4
<1> QED BY <1>1, <1>5

\* How many ports of a service are probed: its own, or else the default ones.
PortCount(t, c, k) ==
    IF c.services[k].ports = <<>> THEN Cardinality(defaultProbePorts(t, c))
    ELSE Len(c.services[k].ports)

\* These are the places of the list of ports.
LEMMA PortsOfService ==
    ASSUME NEW t \in Traffic, NEW c \in Cluster, NEW k \in DOMAIN c.services
    PROVE  /\ DOMAIN serviceOrDefaultPorts(t, c, c.services[k]) = 1 .. PortCount(t, c, k)
           /\ PortCount(t, c, k) \in Nat
<1> DEFINE svc == c.services[k]
<1>1. svc.ports \in Seq(Nat \ {0})
  <2>1. c.services \in Seq(Service)
    BY DEF Cluster
  <2>2. svc \in Service
    BY <2>1
  <2> HIDE DEF svc
  <2> QED BY <2>2 DEF Service
<1>2. CASE svc.ports = <<>>
  <2>1. /\ IsFiniteSet(defaultProbePorts(t, c))
        /\ defaultProbePorts(t, c) \in SUBSET Nat
    BY ProbePorts
  <2>2. /\ SetToSeq(defaultProbePorts(t, c)) \in Seq(Nat)
        /\ Len(SetToSeq(defaultProbePorts(t, c))) = Cardinality(defaultProbePorts(t, c))
    BY <2>1, SetAsSequence
  <2>3. serviceOrDefaultPorts(t, c, svc) = SetToSeq(defaultProbePorts(t, c))
    BY <1>2 DEF serviceOrDefaultPorts
  <2>4. PortCount(t, c, k) = Cardinality(defaultProbePorts(t, c))
    BY <1>2 DEF PortCount
  <2> QED BY <2>2, <2>3, <2>4
<1>3. CASE svc.ports # <<>>
  <2> DEFINE places == {j \in DOMAIN svc.ports : svc.ports[j] > 0}
  <2>1. DOMAIN svc.ports \subseteq places
    <3> SUFFICES ASSUME NEW j \in DOMAIN svc.ports PROVE svc.ports[j] > 0
      OBVIOUS
    <3>1. svc.ports[j] \in Nat \ {0}
      BY <1>1
    <3> QED BY <3>1
  <2>2. At(svc.ports, places) = svc.ports
    <3> HIDE DEF places, svc
    <3> QED BY <1>1, <2>1, AtAll
  <2>3. serviceOrDefaultPorts(t, c, svc) = svc.ports
    BY <1>3, <2>2 DEF serviceOrDefaultPorts
  <2>4. PortCount(t, c, k) = Len(svc.ports)
    BY <1>3 DEF PortCount
  <2> HIDE DEF svc
  <2>5. DOMAIN svc.ports = 1 .. Len(svc.ports) /\ Len(svc.ports) \in Nat
    BY <1>1
  <2> QED BY <2>3, <2>4, <2>5 DEF svc
<1> QED BY <1>2, <1>3

-----------------------------------------------------------------------------
(* The number of checks                                                      *)

\* The pairs of a source node and a place in the list of pods that are probed.
PodPairs(t, c) ==
    {x \in uniquePodNodes(c) \X DOMAIN filterRunnablePods(c) :
        ~(t.crossNodeOnly /\ filterRunnablePods(c)[x[2]].node = x[1])}

\* The checks of pods from all sources.
PodEntries(t, c) ==
    {PodEntry(t, c, x[1], x[2], z[1], z[2]) :
        x \in PodPairs(t, c), z \in (DOMAIN defaultProtocols(t)) \X defaultProbePorts(t, c)}

\* The places of these services and of their ports.
ServicePorts(t, c, ks) == UNION {{k} \X (1 .. PortCount(t, c, k)) : k \in ks}

\* The checks of these services from all sources.
ServiceEntries(t, c, path, ks) ==
    {ServiceEntry(t, c, path, z[1], x[1], z[2], x[2]) :
        x \in ServicePorts(t, c, ks), z \in uniquePodNodes(c) \X DOMAIN defaultProtocols(t)}

\* The protocols of a spec, or TCP.
LEMMA Protocols ==
    ASSUME NEW t \in Traffic
    PROVE  /\ IsFiniteSet(DOMAIN defaultProtocols(t))
           /\ Cardinality(DOMAIN defaultProtocols(t)) = Len(defaultProtocols(t))
           /\ Len(defaultProtocols(t)) \in Nat
<1>1. CASE t.protocols = <<>>
  <2>1. defaultProtocols(t) \in Seq({"TCP"})
    BY <1>1 DEF defaultProtocols
  <2> QED BY <2>1, FiniteSequence
<1>2. CASE t.protocols # <<>>
  <2>1. defaultProtocols(t) \in Seq(STRING)
    BY <1>2 DEF defaultProtocols, Traffic
  <2> QED BY <2>1, FiniteSequence
<1> QED BY <1>1, <1>2

\* A pair is its two components.
LEMMA Pair ==
    ASSUME NEW S, NEW T, NEW y \in S \X T
    PROVE  y[1] \in S /\ y[2] \in T /\ y = <<y[1], y[2]>>
  OBVIOUS

\* A product of finite sets is finite, and their cardinalities are naturals.
LEMMA FiniteProduct ==
    ASSUME NEW S, IsFiniteSet(S), NEW T, IsFiniteSet(T)
    PROVE  /\ IsFiniteSet(S \X T) /\ Cardinality(S \X T) = Cardinality(S) * Cardinality(T)
           /\ Cardinality(S) \in Nat /\ Cardinality(T) \in Nat
<1>1. Cardinality(S) \in Nat /\ Cardinality(T) \in Nat
  BY FS_CardinalityType
<1>2. IsFiniteSet(S \X T) /\ Cardinality(S \X T) = Cardinality(S) * Cardinality(T)
  BY FS_Product
<1> QED BY <1>1, <1>2

\* The checks of pods: as many as pairs, protocols and ports.
LEMMA PodEntriesCount ==
    ASSUME NEW t \in Traffic, NEW c \in Cluster
    PROVE  /\ IsFiniteSet(PodEntries(t, c)) /\ IsFiniteSet(PodPairs(t, c))
           /\ Cardinality(PodEntries(t, c))
                = Cardinality(PodPairs(t, c))
                    * (Len(defaultProtocols(t)) * Cardinality(defaultProbePorts(t, c)))
<1> DEFINE pods == filterRunnablePods(c)
           X == PodPairs(t, c)
           I == DOMAIN defaultProtocols(t)
           P == defaultProbePorts(t, c)
           Z == I \X P
           f == [y \in X \X Z |-> PodEntry(t, c, y[1][1], y[1][2], y[2][1], y[2][2])]
<1>1. IsFiniteSet(X)
  <2>1. IsFiniteSet(uniquePodNodes(c)) /\ IsFiniteSet(DOMAIN pods)
    BY SourceNodes, RunnablePods, FiniteSequence
  <2>3. IsFiniteSet(uniquePodNodes(c) \X DOMAIN pods)
    BY <2>1, FiniteProduct
  <2>2. X \subseteq uniquePodNodes(c) \X DOMAIN pods
    BY DEF PodPairs
  <2> QED BY <2>2, <2>3, FS_Subset
<1>2. /\ IsFiniteSet(Z)
      /\ Cardinality(Z) = Len(defaultProtocols(t)) * Cardinality(defaultProbePorts(t, c))
  <2>1. IsFiniteSet(I) /\ Cardinality(I) = Len(defaultProtocols(t)) /\ IsFiniteSet(P)
    BY Protocols, ProbePorts
  <2> HIDE DEF I, P
  <2>2. IsFiniteSet(Z) /\ Cardinality(Z) = Cardinality(I) * Cardinality(P)
    BY <2>1, FiniteProduct
  <2> QED BY <2>1, <2>2 DEF P
<1>3. IsFiniteSet(X \X Z) /\ Cardinality(X \X Z) = Cardinality(X) * Cardinality(Z)
  <2> HIDE DEF X, Z
  <2> QED BY <1>1, <1>2, FiniteProduct
<1>0. PodEntries(t, c) = {PodEntry(t, c, x[1], x[2], z[1], z[2]) : x \in X, z \in Z}
  BY DEF PodEntries
<1>4. f \in [X \X Z -> PodEntries(t, c)]
  <2> HIDE DEF X, Z
  <2> SUFFICES ASSUME NEW y \in X \X Z
               PROVE  PodEntry(t, c, y[1][1], y[1][2], y[2][1], y[2][2]) \in PodEntries(t, c)
    OBVIOUS
  <2>1. y[1] \in X /\ y[2] \in Z
    BY Pair
  <2> QED BY <1>0, <2>1
<1>5. \A e \in PodEntries(t, c) : \E y \in X \X Z : f[y] = e
  <2> HIDE DEF X, Z
  <2> SUFFICES ASSUME NEW x \in X, NEW z \in Z
               PROVE  \E y \in X \X Z : f[y] = PodEntry(t, c, x[1], x[2], z[1], z[2])
    BY <1>0
  <2>1. <<x, z>> \in X \X Z
    OBVIOUS
  <2>2. f[<<x, z>>] = PodEntry(t, c, x[1], x[2], z[1], z[2])
    BY <2>1
  <2> QED BY <2>1, <2>2
<1>6. ASSUME NEW y \in X \X Z, NEW w \in X \X Z, f[y] = f[w] PROVE y = w
  <2>1. PodEntry(t, c, y[1][1], y[1][2], y[2][1], y[2][2])
          = PodEntry(t, c, w[1][1], w[1][2], w[2][1], w[2][2])
    BY <1>6
  <2>2. y[1][1] = w[1][1] /\ y[1][2] = w[1][2] /\ y[2][1] = w[2][1] /\ y[2][2] = w[2][2]
    BY <2>1 DEF PodEntry, Check
  <2>3. /\ y[1] \in uniquePodNodes(c) \X DOMAIN pods /\ w[1] \in uniquePodNodes(c) \X DOMAIN pods
        /\ y[2] \in Z /\ w[2] \in Z
        /\ y = <<y[1], y[2]>> /\ w = <<w[1], w[2]>>
    BY Pair DEF PodPairs
  <2>4. y[1] = <<y[1][1], y[1][2]>> /\ w[1] = <<w[1][1], w[1][2]>>
    BY <2>3, Pair
  <2>5. y[2] = <<y[2][1], y[2][2]>> /\ w[2] = <<w[2][1], w[2][2]>>
    <3> HIDE DEF I, P
    <3> QED BY <2>3, Pair
  <2> QED BY <2>2, <2>3, <2>4, <2>5
<1> HIDE DEF X, Z, f
<1>7. /\ IsFiniteSet(PodEntries(t, c))
      /\ Cardinality(PodEntries(t, c)) = Cardinality(X \X Z)
  BY <1>3, <1>4, <1>5, <1>6, Counted
<1> QED BY <1>1, <1>2, <1>3, <1>7 DEF X

\* There are finitely many ports of services.
LEMMA FiniteServicePorts ==
    ASSUME NEW t \in Traffic, NEW c \in Cluster, NEW ks \in SUBSET DOMAIN c.services
    PROVE  /\ IsFiniteSet(ServicePorts(t, c, ks))
           /\ \A x \in ServicePorts(t, c, ks) :
                 x[1] \in ks /\ x[2] \in 1 .. PortCount(t, c, x[1]) /\ x = <<x[1], x[2]>>
<1> DEFINE f == [k \in ks |-> {k} \X (1 .. PortCount(t, c, k))]
           all == {f[k] : k \in ks}
<1>1. c.services \in Seq(Service)
  BY DEF Cluster
<1>2. IsFiniteSet(ks)
  <2>1. IsFiniteSet(DOMAIN c.services)
    BY <1>1, FiniteSequence
  <2> QED BY <2>1, FS_Subset
<1>3. IsFiniteSet(all)
  <2> DOMAIN f = ks
    OBVIOUS
  <2> HIDE DEF f
  <2> QED BY <1>2, FiniteImage
<1>4. ASSUME NEW S \in all PROVE IsFiniteSet(S)
  <2>1. PICK k \in ks : S = {k} \X (1 .. PortCount(t, c, k))
    OBVIOUS
  <2>2. PortCount(t, c, k) \in Nat
    BY PortsOfService
  <2>3. IsFiniteSet(1 .. PortCount(t, c, k))
    BY <2>2, FS_Interval
  <2>4. IsFiniteSet({k} \X (1 .. PortCount(t, c, k)))
    BY <2>3, FS_Singleton, FiniteProduct
  <2> QED BY <2>1, <2>4
<1>5. ServicePorts(t, c, ks) = UNION all
  BY DEF ServicePorts
<1>6. IsFiniteSet(UNION all)
  <2> HIDE DEF all
  <2> QED BY <1>3, <1>4, FS_UNION
<1> QED BY <1>5, <1>6

\* The checks of services by one path: as many as ports of services, sources and protocols.
LEMMA ServiceEntriesCount ==
    ASSUME NEW t \in Traffic, NEW c \in Cluster, NEW ks \in SUBSET DOMAIN c.services, NEW path
    PROVE  /\ IsFiniteSet(ServiceEntries(t, c, path, ks))
           /\ Cardinality(ServiceEntries(t, c, path, ks))
                = Cardinality(ServicePorts(t, c, ks))
                    * (Cardinality(uniquePodNodes(c)) * Len(defaultProtocols(t)))
<1> DEFINE X == ServicePorts(t, c, ks)
           N == uniquePodNodes(c)
           I == DOMAIN defaultProtocols(t)
           Z == N \X I
           f == [y \in X \X Z |-> ServiceEntry(t, c, path, y[2][1], y[1][1], y[2][2], y[1][2])]
<1>1. IsFiniteSet(X) /\ \A x \in X : x = <<x[1], x[2]>>
  BY FiniteServicePorts
<1>2. /\ IsFiniteSet(Z)
      /\ Cardinality(Z) = Cardinality(uniquePodNodes(c)) * Len(defaultProtocols(t))
  <2>1. IsFiniteSet(I) /\ Cardinality(I) = Len(defaultProtocols(t)) /\ IsFiniteSet(N)
    BY Protocols, SourceNodes
  <2> HIDE DEF I, N
  <2>2. IsFiniteSet(Z) /\ Cardinality(Z) = Cardinality(N) * Cardinality(I)
    BY <2>1, FiniteProduct
  <2> QED BY <2>1, <2>2 DEF N
<1>3. IsFiniteSet(X \X Z) /\ Cardinality(X \X Z) = Cardinality(X) * Cardinality(Z)
  <2> HIDE DEF X, Z
  <2> QED BY <1>1, <1>2, FiniteProduct
<1>0. ServiceEntries(t, c, path, ks)
        = {ServiceEntry(t, c, path, z[1], x[1], z[2], x[2]) : x \in X, z \in Z}
  BY DEF ServiceEntries
<1>4. f \in [X \X Z -> ServiceEntries(t, c, path, ks)]
  <2> HIDE DEF X, Z
  <2> SUFFICES ASSUME NEW y \in X \X Z
               PROVE  ServiceEntry(t, c, path, y[2][1], y[1][1], y[2][2], y[1][2])
                        \in ServiceEntries(t, c, path, ks)
    OBVIOUS
  <2>1. y[1] \in X /\ y[2] \in Z
    BY Pair
  <2> QED BY <1>0, <2>1
<1>5. \A e \in ServiceEntries(t, c, path, ks) : \E y \in X \X Z : f[y] = e
  <2> HIDE DEF X, Z
  <2> SUFFICES ASSUME NEW x \in X, NEW z \in Z
               PROVE  \E y \in X \X Z :
                         f[y] = ServiceEntry(t, c, path, z[1], x[1], z[2], x[2])
    BY <1>0
  <2>1. <<x, z>> \in X \X Z
    OBVIOUS
  <2>2. f[<<x, z>>] = ServiceEntry(t, c, path, z[1], x[1], z[2], x[2])
    BY <2>1
  <2> QED BY <2>1, <2>2
<1>6. ASSUME NEW y \in X \X Z, NEW w \in X \X Z, f[y] = f[w] PROVE y = w
  <2>1. ServiceEntry(t, c, path, y[2][1], y[1][1], y[2][2], y[1][2])
          = ServiceEntry(t, c, path, w[2][1], w[1][1], w[2][2], w[1][2])
    BY <1>6
  <2>2. y[2][1] = w[2][1] /\ y[1][1] = w[1][1] /\ y[2][2] = w[2][2] /\ y[1][2] = w[1][2]
    BY <2>1 DEF ServiceEntry, Check
  <2> HIDE DEF X, I, N
  <2>3. /\ y[1] \in X /\ w[1] \in X /\ y[2] \in Z /\ w[2] \in Z
        /\ y = <<y[1], y[2]>> /\ w = <<w[1], w[2]>>
    BY Pair
  <2>4. y[1] = <<y[1][1], y[1][2]>> /\ w[1] = <<w[1][1], w[1][2]>>
    BY <1>1, <2>3
  <2>5. y[2] = <<y[2][1], y[2][2]>> /\ w[2] = <<w[2][1], w[2][2]>>
    BY <2>3, Pair
  <2> QED BY <2>2, <2>3, <2>4, <2>5
<1> HIDE DEF X, Z, f
<1>7. /\ IsFiniteSet(ServiceEntries(t, c, path, ks))
      /\ Cardinality(ServiceEntries(t, c, path, ks)) = Cardinality(X \X Z)
  BY <1>3, <1>4, <1>5, <1>6, Counted
<1> QED BY <1>2, <1>3, <1>7 DEF X

\* The checks of all sources have three parts.
LEMMA ChecksInParts ==
    ASSUME NEW t \in Traffic, NEW c \in Cluster
    PROVE  /\ buildProbeChecks(t, c)
                = (IF includePodIP(t) THEN PodEntries(t, c) ELSE {})
                  \cup ServiceEntries(t, c, "serviceVIP", ServicesOf(t, c, "serviceVIP"))
                  \cup ServiceEntries(t, c, "dns", ServicesOf(t, c, "dns"))
           /\ \A n, e : e \in ChecksOf(n, t, c) => e \in buildProbeChecks(t, c)
<1> DEFINE N == uniquePodNodes(c)
           pods == filterRunnablePods(c)
           I == DOMAIN defaultProtocols(t)
           P == defaultProbePorts(t, c)
           J(k) == DOMAIN serviceOrDefaultPorts(t, c, c.services[k])
           All(path) == ServiceEntries(t, c, path, ServicesOf(t, c, path))
           Entry(path, e) == \E n \in N, k \in ServicesOf(t, c, path), i \in I :
                                \E j \in J(k) : e = ServiceEntry(t, c, path, n, k, i, j)
<1>1. ASSUME NEW e
      PROVE  e \in PodEntries(t, c)
               <=> \E n \in N, k \in DOMAIN pods, i \in I, port \in P :
                      ~(t.crossNodeOnly /\ pods[k].node = n) /\ e = PodEntry(t, c, n, k, i, port)
  <2>1. ASSUME NEW n \in N, NEW k \in DOMAIN pods, NEW i \in I, NEW port \in P,
               ~(t.crossNodeOnly /\ pods[k].node = n), e = PodEntry(t, c, n, k, i, port)
        PROVE  e \in PodEntries(t, c)
    <3>1. <<n, k>> \in PodPairs(t, c) /\ <<i, port>> \in I \X P
      BY <2>1 DEF PodPairs
    <3> QED BY <2>1, <3>1 DEF PodEntries
  <2>2. ASSUME e \in PodEntries(t, c)
        PROVE  \E n \in N, k \in DOMAIN pods, i \in I, port \in P :
                  ~(t.crossNodeOnly /\ pods[k].node = n) /\ e = PodEntry(t, c, n, k, i, port)
    <3>1. PICK x \in PodPairs(t, c), z \in I \X P : e = PodEntry(t, c, x[1], x[2], z[1], z[2])
      BY <2>2 DEF PodEntries
    <3>2. /\ x[1] \in N /\ x[2] \in DOMAIN pods /\ z[1] \in I /\ z[2] \in P
          /\ ~(t.crossNodeOnly /\ pods[x[2]].node = x[1])
      BY <3>1 DEF PodPairs
    <3> QED BY <3>1, <3>2
  <2> QED BY <2>1, <2>2
<1>2. ASSUME NEW e, NEW path PROVE e \in All(path) <=> Entry(path, e)
  <2>0. \A k \in ServicesOf(t, c, path) : J(k) = 1 .. PortCount(t, c, k)
    BY PortsOfService DEF ServicesOf
  <2>1. ASSUME NEW n \in N, NEW k \in ServicesOf(t, c, path), NEW i \in I, NEW j \in J(k),
               e = ServiceEntry(t, c, path, n, k, i, j)
        PROVE  e \in All(path)
    <3>1. <<k, j>> \in {k} \X (1 .. PortCount(t, c, k))
      <4>1. j \in 1 .. PortCount(t, c, k)
        BY <2>0
      <4> QED BY <4>1
    <3>2. <<k, j>> \in ServicePorts(t, c, ServicesOf(t, c, path)) /\ <<n, i>> \in N \X I
      BY <3>1 DEF ServicePorts
    <3> QED BY <2>1, <3>2 DEF ServiceEntries
  <2>2. ASSUME e \in All(path) PROVE Entry(path, e)
    <3>1. PICK x \in ServicePorts(t, c, ServicesOf(t, c, path)), z \in N \X I :
             e = ServiceEntry(t, c, path, z[1], x[1], z[2], x[2])
      BY <2>2 DEF ServiceEntries
    <3>2. /\ x[1] \in ServicesOf(t, c, path) /\ x[2] \in 1 .. PortCount(t, c, x[1])
          /\ z[1] \in N /\ z[2] \in I
      BY DEF ServicePorts
    <3> QED BY <2>0, <3>1, <3>2
  <2> QED BY <2>1, <2>2
<1>3. ASSUME NEW e
      PROVE  e \in buildProbeChecks(t, c)
               <=> \/ includePodIP(t) /\ e \in PodEntries(t, c)
                   \/ Entry("serviceVIP", e)
                   \/ Entry("dns", e)
  <2>1. ASSUME NEW n
        PROVE  e \in checksFrom(n, t, c)
                 <=> \/ /\ includePodIP(t)
                        /\ \E k \in DOMAIN pods, i \in I, port \in P :
                              /\ ~(t.crossNodeOnly /\ pods[k].node = n)
                              /\ e = PodEntry(t, c, n, k, i, port)
                     \/ \E k \in ServicesOf(t, c, "serviceVIP"), i \in I :
                           \E j \in J(k) : e = ServiceEntry(t, c, "serviceVIP", n, k, i, j)
                     \/ \E k \in ServicesOf(t, c, "dns"), i \in I :
                           \E j \in J(k) : e = ServiceEntry(t, c, "dns", n, k, i, j)
    BY DEF checksFrom, EntriesOfPods, EntriesOfService
  <2>2. e \in buildProbeChecks(t, c) <=> \E n \in N : e \in checksFrom(n, t, c)
    BY DEF buildProbeChecks
  <2> QED BY <1>1, <2>1, <2>2
<1>4. \A n, e : e \in ChecksOf(n, t, c) => e \in buildProbeChecks(t, c)
  BY DEF ChecksOf, buildProbeChecks
<1> HIDE DEF All, Entry
<1>5. \A e : e \in buildProbeChecks(t, c)
              <=> e \in (IF includePodIP(t) THEN PodEntries(t, c) ELSE {})
                        \cup All("serviceVIP") \cup All("dns")
  BY <1>2, <1>3
<1>6. buildProbeChecks(t, c) = (IF includePodIP(t) THEN PodEntries(t, c) ELSE {})
                               \cup All("serviceVIP") \cup All("dns")
  BY <1>5
<1> QED BY <1>4, <1>6 DEF All

\* Counting two sets that share nothing.
LEMMA DisjointUnion ==
    ASSUME NEW S, IsFiniteSet(S), NEW T, IsFiniteSet(T), S \cap T = {}
    PROVE  IsFiniteSet(S \cup T) /\ Cardinality(S \cup T) = Cardinality(S) + Cardinality(T)
<1>1. /\ IsFiniteSet(S \cup T)
      /\ Cardinality(S \cup T) = Cardinality(S) + Cardinality(T) - Cardinality(S \cap T)
  BY FS_Union
<1>2. Cardinality(S \cap T) = 0
  BY FS_EmptySet
<1>3. Cardinality(S) \in Nat /\ Cardinality(T) \in Nat
  BY FS_CardinalityType
<1> QED BY <1>1, <1>2, <1>3

\* The factor common to three products.
LEMMA Factor ==
    ASSUME NEW p \in Nat, NEW d \in Nat, NEW v \in Nat, NEW w \in Nat, NEW n \in Nat, NEW l \in Nat
    PROVE  p * (l * d) + v * (n * l) + w * (n * l) = (p * d + n * v + n * w) * l
  OBVIOUS

\* The checks of all sources are finitely many, as many as the formula says.
LEMMA CountOfChecks ==
    ASSUME NEW t \in Traffic, NEW c \in Cluster
    PROVE  /\ IsFiniteSet(buildProbeChecks(t, c))
           /\ Cardinality(buildProbeChecks(t, c))
                = ((IF includePodIP(t)
                    THEN Cardinality(PodPairs(t, c)) * Cardinality(defaultProbePorts(t, c)) ELSE 0)
                   + Cardinality(uniquePodNodes(c))
                       * Cardinality(ServicePorts(t, c, ServicesOf(t, c, "serviceVIP")))
                   + Cardinality(uniquePodNodes(c))
                       * Cardinality(ServicePorts(t, c, ServicesOf(t, c, "dns"))))
                  * Len(defaultProtocols(t))
<1> DEFINE pairs == PodPairs(t, c)
           ports == defaultProbePorts(t, c)
           N == uniquePodNodes(c)
           len == Len(defaultProtocols(t))
           A == IF includePodIP(t) THEN PodEntries(t, c) ELSE {}
           E(path) == ServiceEntries(t, c, path, ServicesOf(t, c, path))
           SP(path) == ServicePorts(t, c, ServicesOf(t, c, path))
           p == IF includePodIP(t) THEN Cardinality(pairs) ELSE 0
<1>1. /\ IsFiniteSet(A) /\ Cardinality(A) = p * (len * Cardinality(ports))
      /\ p \in Nat /\ len \in Nat /\ Cardinality(ports) \in Nat /\ Cardinality(N) \in Nat
  <2>1. len \in Nat /\ Cardinality(ports) \in Nat /\ Cardinality(N) \in Nat
    BY Protocols, ProbePorts, SourceNodes, FS_CardinalityType
  <2>2. /\ IsFiniteSet(PodEntries(t, c)) /\ Cardinality(pairs) \in Nat
        /\ Cardinality(PodEntries(t, c)) = Cardinality(pairs) * (len * Cardinality(ports))
    BY PodEntriesCount, FS_CardinalityType
  <2>3. IsFiniteSet({}) /\ Cardinality({}) = 0
    BY FS_EmptySet
  <2>4. CASE includePodIP(t)
    BY <2>1, <2>2, <2>4
  <2>5. CASE ~includePodIP(t)
    <3>1. A = {} /\ p = 0
      BY <2>5
    <3> HIDE DEF A, p, len, ports
    <3> QED BY <2>1, <2>3, <3>1
  <2> QED BY <2>4, <2>5
<1>2. ASSUME NEW path
      PROVE  /\ IsFiniteSet(E(path)) /\ Cardinality(SP(path)) \in Nat
             /\ Cardinality(E(path)) = Cardinality(SP(path)) * (Cardinality(N) * len)
  <2>1. ServicesOf(t, c, path) \in SUBSET DOMAIN c.services
    BY DEF ServicesOf
  <2>2. /\ IsFiniteSet(E(path))
        /\ Cardinality(E(path)) = Cardinality(SP(path)) * (Cardinality(N) * len)
    BY <2>1, ServiceEntriesCount
  <2>3. IsFiniteSet(SP(path))
    BY <2>1, FiniteServicePorts
  <2> QED BY <2>2, <2>3, FS_CardinalityType
<1>3. /\ \A e \in A : e.check.path = "podIP"
      /\ \A e \in E("serviceVIP") : e.check.path = "serviceVIP"
      /\ \A e \in E("dns") : e.check.path = "dns"
  <2>1. \A e \in A : e.check.path = "podIP"
    BY DEF PodEntries, PodEntry, Check
  <2>2. ASSUME NEW path, NEW e \in E(path) PROVE e.check.path = path
    BY DEF ServiceEntries, ServiceEntry, Check
  <2> QED BY <2>1, <2>2
<1>4. A \cap E("serviceVIP") = {} /\ (A \cup E("serviceVIP")) \cap E("dns") = {}
  <2> HIDE DEF A, E
  <2> QED BY <1>3
<1>5. buildProbeChecks(t, c) = A \cup E("serviceVIP") \cup E("dns")
  BY ChecksInParts
<1> HIDE DEF A, E, SP
<1>6. /\ IsFiniteSet(A \cup E("serviceVIP"))
      /\ Cardinality(A \cup E("serviceVIP")) = Cardinality(A) + Cardinality(E("serviceVIP"))
  BY <1>1, <1>2, <1>4, DisjointUnion
<1>7. /\ IsFiniteSet(buildProbeChecks(t, c))
      /\ Cardinality(buildProbeChecks(t, c))
           = Cardinality(A) + Cardinality(E("serviceVIP")) + Cardinality(E("dns"))
  BY <1>2, <1>4, <1>5, <1>6, DisjointUnion
<1>8. Cardinality(buildProbeChecks(t, c))
        = (p * Cardinality(ports) + Cardinality(N) * Cardinality(SP("serviceVIP"))
           + Cardinality(N) * Cardinality(SP("dns"))) * len
  <2> HIDE DEF p, len, ports, N
  <2> QED BY <1>1, <1>2, <1>7, Factor
<1>9. p * Cardinality(ports)
        = IF includePodIP(t) THEN Cardinality(pairs) * Cardinality(ports) ELSE 0
  BY <1>1
<1> QED BY <1>7, <1>8, <1>9 DEF SP

\* The checks of a node are finitely many.
LEMMA FiniteChecks ==
    ASSUME NEW t \in Traffic, NEW c \in Cluster, NEW n
    PROVE  /\ ChecksOf(n, t, c) \subseteq buildProbeChecks(t, c)
           /\ IsFiniteSet(ChecksOf(n, t, c)) /\ Cardinality(ChecksOf(n, t, c)) \in Nat
           /\ \A e \in ChecksOf(n, t, c) : e.check.source = n
<1>1. ChecksOf(n, t, c) \subseteq buildProbeChecks(t, c)
  BY ChecksInParts
<1>2. IsFiniteSet(ChecksOf(n, t, c))
  BY <1>1, CountOfChecks, FS_Subset
<1>3. Cardinality(ChecksOf(n, t, c)) \in Nat
  BY <1>2, FS_CardinalityType
<1>4. \A e \in ChecksOf(n, t, c) : e.check.source = n
  BY DEF ChecksOf, checksFrom, EntriesOfPods, EntriesOfService, PodEntry, ServiceEntry, Check
<1> QED BY <1>1, <1>2, <1>3, <1>4

-----------------------------------------------------------------------------
(* Time                                                                      *)

\* The most attempts of a check and the most seconds of an attempt.
Attempts(t) == defaultInt32(t.count, 1)
Seconds(t) == defaultInt32(t.timeout, 5)

\* The seconds that all attempts of so many checks take at most.
Work(t, n) == n * Attempts(t) * Seconds(t)

\* There is at least one of each.
LEMMA AttemptsAndSeconds ==
    ASSUME NEW t \in Traffic
    PROVE  Attempts(t) \in Nat \ {0} /\ Seconds(t) \in Nat \ {0}
  BY DEF Traffic, Attempts, Seconds, defaultInt32

\* A product of natural numbers is one.
LEMMA Product ==
    ASSUME NEW m \in Nat, NEW n \in Nat
    PROVE  m * n \in Nat
  OBVIOUS

\* The deadline leaves a minute after the last of the attempts that all time out, unless that
\* takes more than an hour.
LEMMA DeadlineSuffices ==
    ASSUME NEW t \in Traffic, NEW n \in Nat
    PROVE  /\ probeJobDeadlineSeconds(t, n) \in Nat
           /\ 120 <= probeJobDeadlineSeconds(t, n) /\ probeJobDeadlineSeconds(t, n) <= 3600
           /\ Work(t, n) \in Nat
           /\ Work(t, n) > 3540 \/ Work(t, n) + 60 <= probeJobDeadlineSeconds(t, n)
<1> DEFINE work == Work(t, n)
<1> SUFFICES /\ probeJobDeadlineSeconds(t, n) \in Nat
             /\ 120 <= probeJobDeadlineSeconds(t, n) /\ probeJobDeadlineSeconds(t, n) <= 3600
             /\ work \in Nat
             /\ work > 3540 \/ work + 60 <= probeJobDeadlineSeconds(t, n)
  OBVIOUS
<1>1. work \in Nat
  <2>1. n * Attempts(t) \in Nat
    BY AttemptsAndSeconds, Product
  <2> QED BY <2>1, AttemptsAndSeconds, Product DEF Work
<1>2. probeJobDeadlineSeconds(t, n)
        = CASE work + 60 < 120 -> 120 [] work + 60 > 3600 -> 3600 [] OTHER -> work + 60
  BY DEF probeJobDeadlineSeconds, Work, Attempts, Seconds
<1> HIDE DEF work
<1>3. CASE work + 60 < 120
  <2>1. probeJobDeadlineSeconds(t, n) = 120 /\ work + 60 <= 120
    BY <1>1, <1>2, <1>3
  <2> QED BY <1>1, <2>1
<1>4. CASE work + 60 > 3600
  <2>1. probeJobDeadlineSeconds(t, n) = 3600 /\ work > 3540
    BY <1>1, <1>2, <1>4
  <2> QED BY <1>1, <2>1
<1>5. CASE ~(work + 60 < 120) /\ ~(work + 60 > 3600)
  <2>1. probeJobDeadlineSeconds(t, n) = work + 60
    BY <1>1, <1>2, <1>5
  <2>2. work + 60 \in Nat /\ 120 <= work + 60 /\ work + 60 <= 3600
    BY <1>1, <1>5
  <2> QED BY <1>1, <2>1, <2>2
<1> QED BY <1>1, <1>3, <1>4, <1>5

\* Seconds that were enough for the attempts before are enough with those of this one.
LEMMA OneMoreAttempt ==
    ASSUME NEW clock0 \in Nat, NEW late \in Nat, NEW made \in Nat, NEW s \in Nat, NEW d \in 0 .. s,
           clock0 <= late + made * s
    PROVE  clock0 + d <= late + (made + 1) * s
<1>1. (made + 1) * s = made * s + s /\ made * s \in Nat
  OBVIOUS
<1> QED BY <1>1

\* The attempts of n checks of which m are left, tries of the next made: one more is within all
\* of them, and the last attempt of a check leaves a check less.
LEMMA AttemptsMade ==
    ASSUME NEW n \in Nat, NEW m \in 1 .. n, NEW a \in Nat \ {0}, NEW tried \in 0 .. a - 1
    PROVE  /\ (n - m) * a + tried \in Nat
           /\ (n - m) * a + tried + 1 <= n * a
           /\ (n - m) * a + tried + 1 <= (n - (m - 1)) * a
           /\ (n - (m - 1)) * a \in Nat
<1>1. (n - m) * a \in Nat
  BY n - m \in Nat, Product
<1>2. (n - (m - 1)) * a = (n - m) * a + a
  OBVIOUS
<1>3. n * a = (n - m) * a + m * a
  OBVIOUS
<1>4. m * a >= a
  <2>1. m * a = (m - 1) * a + a
    OBVIOUS
  <2>2. (m - 1) * a \in Nat
    BY m - 1 \in Nat, Product
  <2> QED BY <2>1, <2>2
<1> QED BY <1>1, <1>2, <1>3, <1>4

\* More attempts take no less time.
LEMMA MoreAttempts ==
    ASSUME NEW m \in Nat, NEW n \in Nat, m <= n, NEW s \in Nat
    PROVE  m * s <= n * s /\ m * s \in Nat /\ n * s \in Nat
<1>1. n * s = m * s + (n - m) * s
  OBVIOUS
<1>2. (n - m) * s \in Nat /\ m * s \in Nat
  BY n - m \in Nat, Product
<1> QED BY <1>1, <1>2

-----------------------------------------------------------------------------
(* The inductive invariant                                                   *)

\* What the run is given.
Inputs ==
    /\ traffic \in Traffics /\ cluster \in Clusters /\ changes \in 0 .. Changes
    /\ stage \in Stages /\ seen \subseteq Clusters /\ cluster \in seen

\* The Job has finitely many checks and the deadline for as many.
JobShape ==
    IF stage \in {"planning", "nothing"} THEN job = NoJob
    ELSE /\ IsFiniteSet(job.entries)
         /\ job.deadline = probeJobDeadlineSeconds(traffic, Cardinality(job.entries))

\* /probe is through with the checks it has results of, one of each.
Progress ==
    /\ todo \subseteq job.entries /\ current \in todo \cup {None}
    /\ tries \in 0 .. Attempts(traffic) - 1
    /\ {r.entry : r \in results} = job.entries \ todo
    /\ \A r, s \in results : r.entry = s.entry => r = s

\* The deadline has not passed.
Time == clock \in Nat /\ delay \in Nat /\ clock <= job.deadline

\* /probe has taken no longer than its attempts may.
Pace ==
    stage = "running" =>
        clock <= delay + ((Cardinality(job.entries) - Cardinality(todo)) * Attempts(traffic) + tries)
                           * Seconds(traffic)

\* What is read are the results of all checks of a Job that has the checks of now.
Read ==
    /\ stage \in {"done", "read"} => todo = {}
    /\ capture = None <=> stage # "read"
    /\ capture \in Shot \cup {None}
    /\ IF stage # "read" THEN answers = {}
       ELSE /\ answers = {probeResultFromReport(result, cluster, collectSnapshots(cluster, capture))
                          : result \in results}
            /\ checksHash(ChecksOf(job.node, traffic, cluster)) = checksHash(job.entries)

RunInv ==
    /\ Inputs /\ JobShape /\ Progress /\ Time /\ Pace /\ Read
    /\ CutOffOnlyWhenLate

\* The spec and the clusters are such; a service, a pod, a check count on it.
LEMMA GivenInputs ==
    ASSUME Inputs
    PROVE  traffic \in Traffic /\ cluster \in Cluster /\ traffic \in Traffics /\ cluster \in Clusters
  BY InputAssumption DEF Inputs

\* A run begins so.
LEMMA RunInit ==
    ASSUME Init
    PROVE  RunInv
<1>1. Inputs
  BY BoundAssumption DEF Init, Inputs, Stages
<1>2. JobShape
  BY DEF Init, JobShape
<1>3. Progress
  <2>1. Attempts(traffic) \in Nat \ {0}
    BY <1>1, GivenInputs, AttemptsAndSeconds
  <2> QED BY <2>1 DEF Init, Progress, NoJob
<1>4. Time
  BY DEF Init, Time, NoJob
<1>5. Pace /\ Read /\ CutOffOnlyWhenLate
  BY DEF Init, Pace, Read, CutOffOnlyWhenLate
<1> QED BY <1>1, <1>2, <1>3, <1>4, <1>5 DEF RunInv

\* The Job is created with the checks of its node and time for them.
LEMMA CreateJobStep ==
    ASSUME RunInv, CreateJob
    PROVE  RunInv'
<1> USE DEF RunInv
<1>1. traffic \in Traffic /\ cluster \in Cluster
  BY GivenInputs
<1>2. Inputs'
  BY DEF CreateJob, Inputs, Stages
<1>3. job = NoJob /\ todo = {} /\ results = {} /\ current = None
  BY DEF CreateJob, JobShape, Progress, NoJob
<1>4. clock = 0
  BY <1>3 DEF Time, NoJob
<1>5. CASE stage' = "nothing" /\ UNCHANGED <<job, todo>>
  <2>1. JobShape' /\ Progress' /\ Time' /\ Pace' /\ Read' /\ CutOffOnlyWhenLate'
    BY <1>3, <1>5 DEF CreateJob, JobShape, Progress, Time, Pace, Read, CutOffOnlyWhenLate
  <2> QED BY <1>2, <2>1
<1>6. CASE stage' = "pending" /\ \E n : LET mine == ChecksOf(n, traffic, cluster) IN
              /\ job' = [node |-> n, entries |-> mine,
                         deadline |-> probeJobDeadlineSeconds(traffic, Cardinality(mine))]
              /\ todo' = mine
  <2>1. PICK n : /\ job' = [node |-> n, entries |-> ChecksOf(n, traffic, cluster),
                            deadline |-> probeJobDeadlineSeconds(traffic,
                                             Cardinality(ChecksOf(n, traffic, cluster)))]
                 /\ todo' = ChecksOf(n, traffic, cluster)
    BY <1>6
  <2>2. IsFiniteSet(ChecksOf(n, traffic, cluster)) /\ Cardinality(ChecksOf(n, traffic, cluster)) \in Nat
    BY <1>1, FiniteChecks
  <2>3. job'.deadline \in Nat /\ 120 <= job'.deadline
    BY <1>1, <2>1, <2>2, DeadlineSuffices
  <2>4. JobShape'
    BY <1>6, <2>1, <2>2 DEF CreateJob, JobShape
  <2>5. Progress'
    BY <1>3, <2>1 DEF CreateJob, Progress
  <2>6. Time'
    BY <1>4, <1>6, <2>3 DEF CreateJob, Time
  <2>7. Pace' /\ Read' /\ CutOffOnlyWhenLate'
    BY <1>6 DEF CreateJob, Pace, Read, CutOffOnlyWhenLate
  <2> QED BY <1>2, <2>4, <2>5, <2>6, <2>7
<1> QED BY <1>5, <1>6 DEF CreateJob

\* The container starts in time or not.
LEMMA StartPodStep ==
    ASSUME RunInv, StartPod
    PROVE  RunInv'
<1> USE DEF RunInv
<1>1. traffic \in Traffic /\ cluster \in Cluster
  BY GivenInputs
<1>2. Inputs' /\ JobShape' /\ Progress' /\ Read'
  BY DEF StartPod, Inputs, Stages, JobShape, Progress, Read
<1>3. IsFiniteSet(job.entries) /\ Cardinality(job.entries) \in Nat
  BY FS_CardinalityType DEF StartPod, JobShape
<1>4. job.deadline \in Nat /\ 120 <= job.deadline
  BY <1>1, <1>3, DeadlineSuffices DEF StartPod, JobShape
<1>5. PICK d \in StartDelays :
         /\ delay' = d
         /\ IF d > job.deadline
            THEN stage' = "exceeded" /\ UNCHANGED clock
            ELSE stage' = "running" /\ clock' = d
  BY DEF StartPod
<1>6. d \in Nat
  BY BoundAssumption
<1>7. Pace'
  <2>1. IsFiniteSet(todo) /\ Cardinality(todo) <= Cardinality(job.entries) /\ Cardinality(todo) \in Nat
    BY <1>3, FS_Subset, FS_CardinalityType DEF Progress
  <2> DEFINE made == Cardinality(job.entries) - Cardinality(todo)
             spent == (made * Attempts(traffic) + tries) * Seconds(traffic)
  <2>2. spent \in Nat
    <3>1. made \in Nat
      BY <1>3, <2>1
    <3>2. made * Attempts(traffic) \in Nat
      <4> HIDE DEF made
      <4> QED BY <1>1, <3>1, AttemptsAndSeconds, Product
    <3>3. tries \in Nat
      BY DEF Progress
    <3> HIDE DEF made
    <3>4. made * Attempts(traffic) + tries \in Nat
      BY <3>2, <3>3
    <3> QED BY <1>1, <3>4, AttemptsAndSeconds, Product
  <2>3. stage' = "running" => clock' <= delay' + spent
    <3> HIDE DEF spent
    <3> QED BY <1>5, <1>6, <2>2
  <2>4. spent = ((Cardinality(job'.entries) - Cardinality(todo')) * Attempts(traffic') + tries')
                   * Seconds(traffic')
    BY DEF StartPod
  <2> HIDE DEF spent
  <2> QED BY <2>3, <2>4 DEF Pace
<1>8. Time'
  BY <1>4, <1>5, <1>6 DEF StartPod, Time
<1>9. CutOffOnlyWhenLate'
  <2>1. stage' = "exceeded" => delay' > 60
    BY <1>4, <1>5, <1>6
  <2> QED BY <2>1 DEF CutOffOnlyWhenLate
<1> QED BY <1>2, <1>7, <1>8, <1>9

\* One more result is about one more check.
LEMMA EntriesOfResults ==
    ASSUME NEW R, NEW e, NEW b
    PROVE  {r.entry : r \in R \cup {[entry |-> e, success |-> b]}} = {r.entry : r \in R} \cup {e}
<1> DEFINE new == [entry |-> e, success |-> b]
<1>1. new.entry = e
  OBVIOUS
<1> HIDE DEF new
<1>2. {r.entry : r \in R \cup {new}} = {r.entry : r \in R} \cup {e}
  BY <1>1
<1> QED BY <1>2 DEF new

\* An attempt passes, fails, ends its check or is cut off by the deadline.
LEMMA AttemptStep ==
    ASSUME RunInv, Attempt
    PROVE  RunInv'
<1> USE DEF RunInv
<1> DEFINE n == Cardinality(job.entries)
           m == Cardinality(todo)
           a == Attempts(traffic)
           s == Seconds(traffic)
           e == IF current = None THEN CHOOSE x \in todo : TRUE ELSE current
           made == (n - m) * a + tries
<1>1. traffic \in Traffic /\ cluster \in Cluster
  BY GivenInputs
<1>2. Inputs' /\ JobShape' /\ Read' /\ stage = "running"
  BY DEF Attempt, Inputs, Stages, JobShape, Read
<1>3. IsFiniteSet(job.entries) /\ n \in Nat /\ job.deadline = probeJobDeadlineSeconds(traffic, n)
  BY FS_CardinalityType DEF Attempt, JobShape
<1>4. IsFiniteSet(todo) /\ m \in 1 .. n
  <2>1. IsFiniteSet(todo) /\ m <= n /\ m \in Nat
    BY <1>3, FS_Subset, FS_CardinalityType DEF Progress
  <2>2. m # 0
    BY <2>1, FS_EmptySet DEF Attempt
  <2> QED BY <1>3, <2>1, <2>2
<1>5. e \in todo
  BY DEF Attempt, Progress
<1>6. a \in Nat \ {0} /\ s \in Nat \ {0} /\ tries \in 0 .. a - 1
  BY <1>1, AttemptsAndSeconds DEF Progress
<1>7. PICK passed \in BOOLEAN, d \in {0, s} :
         IF clock + d > job.deadline
         THEN stage' = "exceeded" /\ UNCHANGED <<clock, todo, current, tries, results>>
         ELSE /\ clock' = clock + d
              /\ IF passed /\ tries + 1 < a
                 THEN current' = e /\ tries' = tries + 1 /\ UNCHANGED <<todo, results>>
                 ELSE Finish(e, passed)
              /\ UNCHANGED stage
  BY DEF Attempt, Attempts, Seconds
<1>8. UNCHANGED <<traffic, cluster, job, delay>>
  BY DEF Attempt
<1>9. /\ made \in Nat /\ made + 1 <= n * a /\ n * a \in Nat
      /\ made + 1 <= (n - (m - 1)) * a /\ (n - (m - 1)) * a \in Nat
  <2> HIDE DEF n, m, a
  <2> QED BY <1>3, <1>4, <1>6, AttemptsMade, Product
<1>10. clock + d <= delay + (made + 1) * s
  <2>1. clock \in Nat /\ delay \in Nat
    BY DEF Time
  <2>2. clock <= delay + made * s
    BY <1>2 DEF Pace
  <2>3. d \in 0 .. s
    <3> HIDE DEF s
    <3> QED BY <1>6
  <2> HIDE DEF made, s
  <2> QED BY <1>6, <1>9, <2>1, <2>2, <2>3, OneMoreAttempt
<1>11. CASE clock + d > job.deadline
  <2>1. stage' = "exceeded" /\ UNCHANGED <<clock, todo, current, tries, results>>
    BY <1>7, <1>11
  <2>2. Progress' /\ Time' /\ Pace'
    BY <1>8, <2>1 DEF Progress, Time, Pace
  <2>3. delay > 60 \/ Work(traffic, n) > 3540
    <3>1. (made + 1) * s <= Work(traffic, n) /\ (made + 1) * s \in Nat
      <4>1. (made + 1) * s <= (n * a) * s /\ (made + 1) * s \in Nat
        <5> HIDE DEF made, n, a, s
        <5> QED BY <1>6, <1>9, made + 1 \in Nat, MoreAttempts
      <4>2. (n * a) * s = Work(traffic, n)
        BY DEF Work
      <4> QED BY <4>1, <4>2
    <3>2. clock + d <= delay + Work(traffic, n)
      <4>1. clock + d \in Nat
        <5>1. clock \in Nat /\ d \in Nat
          BY <1>6 DEF Time
        <5> QED BY <5>1
      <4> DEFINE spent == (made + 1) * s
      <4>2. clock + d <= delay + spent /\ spent <= Work(traffic, n) /\ spent \in Nat
        BY <1>10, <3>1
      <4>3. delay \in Nat /\ Work(traffic, n) \in Nat
        BY <1>1, <1>3, DeadlineSuffices DEF Time
      <4> HIDE DEF spent
      <4> QED BY <4>1, <4>2, <4>3
    <3>3. job.deadline \in Nat /\ (Work(traffic, n) > 3540 \/ Work(traffic, n) + 60 <= job.deadline)
      BY <1>1, <1>3, DeadlineSuffices
    <3>4. clock + d \in Nat /\ delay \in Nat /\ Work(traffic, n) \in Nat
      BY <1>1, <1>3, <1>6, DeadlineSuffices DEF Time
    <3> HIDE DEF n
    <3> QED BY <1>11, <3>2, <3>3, <3>4
  <2>4. CutOffOnlyWhenLate'
    <3>1. job' = job /\ traffic' = traffic /\ delay' = delay
      BY <1>8
    <3>2. delay > 60 \/ Cardinality(job.entries) * defaultInt32(traffic.count, 1)
                           * defaultInt32(traffic.timeout, 5) > 3540
      BY <2>3, Zenon DEF Work, Attempts, Seconds
    <3> QED BY <3>1, <3>2 DEF CutOffOnlyWhenLate
  <2> QED BY <1>2, <2>2, <2>4
<1>12. CASE ~(clock + d > job.deadline)
  <2>1. stage' = "running" /\ clock' = clock + d /\ clock + d \in Nat /\ clock' <= job.deadline
    BY <1>2, <1>6, <1>7, <1>12, <1>3, <1>1, DeadlineSuffices DEF Time
  <2>2. Time' /\ CutOffOnlyWhenLate'
    BY <1>8, <2>1 DEF Time, CutOffOnlyWhenLate
  <2>3. CASE passed /\ tries + 1 < a
    <3>1. current' = e /\ tries' = tries + 1 /\ UNCHANGED <<todo, results>>
      BY <1>7, <1>12, <2>3
    <3>2. Progress'
      BY <1>5, <1>6, <1>8, <2>3, <3>1 DEF Progress
    <3>3. Pace'
      <4>1. (n - m) * a + tries' = made + 1
        <5> DEFINE p == (n - m) * a
        <5>1. p \in Nat
          <6> HIDE DEF n, m, a
          <6> QED BY <1>3, <1>4, <1>6, n - m \in Nat, Product
        <5>2. p + tries' = (p + tries) + 1
          <6> HIDE DEF p
          <6> QED BY <1>6, <3>1, <5>1
        <5> QED BY <5>2
      <4>2. clock' <= delay + ((n - m) * a + tries') * s
        BY <1>10, <2>1, <4>1
      <4> QED BY <1>8, <3>1, <4>2 DEF Pace
    <3> QED BY <1>2, <2>2, <3>2, <3>3
  <2>4. CASE ~(passed /\ tries + 1 < a)
    <3>1. Finish(e, passed)
      BY <1>7, <1>12, <2>4
    <3>2. Progress'
      <4>1. current' = None /\ tries' = 0 /\ todo' = todo \ {e}
        BY <3>1 DEF Finish
      <4>2. results' = results \cup {[entry |-> e, success |-> passed]}
        BY <3>1 DEF Finish
      <4>3. /\ todo' \subseteq job'.entries /\ current' \in todo' \cup {None}
            /\ tries' \in 0 .. Attempts(traffic') - 1
        BY <1>6, <1>8, <4>1 DEF Progress
      <4>4. {r.entry : r \in results'} = {r.entry : r \in results} \cup {e}
        <5> HIDE DEF e
        <5> QED BY <4>2, EntriesOfResults
      <4>5. {r.entry : r \in results'} = job'.entries \ todo'
        BY <1>5, <1>8, <4>1, <4>4 DEF Progress
      <4>6. \A r \in results : r.entry # e
        BY <1>5 DEF Progress
      <4>7. \A r, q \in results' : r.entry = q.entry => r = q
        BY <4>2, <4>6 DEF Progress
      <4> QED BY <4>3, <4>5, <4>7 DEF Progress
    <3>3. Pace'
      <4>1. tries' = 0 /\ todo' = todo \ {e}
        BY <3>1 DEF Finish
      <4>2. Cardinality(todo') = m - 1
        BY <1>4, <1>5, <4>1, FS_RemoveElement
      <4>3. (made + 1) * s <= ((n - (m - 1)) * a) * s
        <5> DEFINE k == (n - (m - 1)) * a
        <5>1. made + 1 <= k /\ k \in Nat /\ made + 1 \in Nat /\ s \in Nat
          BY <1>6, <1>9
        <5>2. (made + 1) * s <= k * s
          <6> HIDE DEF made, k, s
          <6> QED BY <5>1, MoreAttempts
        <5> QED BY <5>2
      <4>4. (n - (m - 1)) * a + tries' = (n - (m - 1)) * a
        BY <1>9, <4>1
      <4>5. clock' <= delay + ((n - (m - 1)) * a + tries') * s
        <5> DEFINE x == (made + 1) * s
                   y == ((n - (m - 1)) * a) * s
        <5>1. x \in Nat /\ y \in Nat /\ x <= y
          <6>1. made + 1 \in Nat /\ s \in Nat
            BY <1>6, <1>9
          <6> HIDE DEF made, s
          <6> QED BY <1>9, <4>3, <6>1, Product
        <5>2. clock' <= delay + x /\ clock' \in Nat /\ delay \in Nat
          BY <1>10, <2>1 DEF Time
        <5>3. clock' <= delay + y
          <6> HIDE DEF x, y
          <6> QED BY <5>1, <5>2
        <5> QED BY <4>4, <5>3
      <4> QED BY <1>8, <4>2, <4>5 DEF Pace
    <3> QED BY <1>2, <2>2, <3>2, <3>3
  <2> QED BY <2>3, <2>4
<1> QED BY <1>11, <1>12

\* The report is written when nothing is left to do.
LEMMA WriteReportStep ==
    ASSUME RunInv, WriteReport
    PROVE  RunInv'
<1> USE DEF RunInv
<1>1. Inputs' /\ JobShape' /\ Progress'
  BY DEF WriteReport, Inputs, Stages, JobShape, Progress
<1>2. IsFiniteSet(job.entries) /\ Cardinality(job.entries) \in Nat
  BY FS_CardinalityType DEF WriteReport, JobShape
<1>3. Time'
  <2>1. job.deadline \in Nat
    BY <1>2, GivenInputs, DeadlineSuffices DEF WriteReport, JobShape
  <2> QED BY <2>1 DEF WriteReport, Time
<1>4. Pace' /\ Read' /\ CutOffOnlyWhenLate'
  BY DEF WriteReport, Pace, Read, CutOffOnlyWhenLate
<1> QED BY <1>1, <1>3, <1>4

\* What the snapshots show is a shot, and no shot is None.
LEMMA Captured ==
    ASSUME RunInv, NEW shot \in Captures
    PROVE  shot \in Shot /\ shot # None
<1> DEFINE programmed == seen \cup (IF changes < Changes THEN Clusters ELSE {})
           Shown(at, cut, silent) == [at |-> at, cut |-> cut, silent |-> silent]
<1> SUFFICES shot \in Shot
  BY NoneAssumption
<1>1. cluster \in Clusters /\ programmed \subseteq Clusters
  BY DEF RunInv, Inputs
<1>2. CASE shot \in {Shown(at, None, None) : at \in programmed}
  BY <1>1, <1>2 DEF Shot
<1>3. CASE shot \in {Shown(cluster, None, n) : n \in cluster.nodes}
  BY <1>1, <1>3 DEF Shot
<1>4. CASE shot \in {Shown(cluster, cut, None) : cut \in Cuts}
  BY <1>1, <1>4 DEF Shot
<1> QED BY <1>2, <1>3, <1>4 DEF Captures

\* A reconcile reads the Job, finds it unfit or finds that it failed.
LEMMA ReadJobStep ==
    ASSUME RunInv, ReadJob
    PROVE  RunInv'
<1> USE DEF RunInv
<1> DEFINE same == checksHash(ChecksOf(job.node, traffic, cluster)) = checksHash(job.entries)
<1>1. /\ stage \in {"pending", "running", "done", "exceeded"}
      /\ UNCHANGED <<traffic, cluster, changes, seen, job, delay, clock, todo, current, tries, results>>
  BY DEF ReadJob
<1>2. stage' \in {"replaced", "error", "read"}
  BY DEF ReadJob
<1>3. Inputs' /\ JobShape' /\ Progress' /\ Time'
  BY <1>1, <1>2 DEF Inputs, Stages, JobShape, Progress, Time
<1>4. Pace' /\ CutOffOnlyWhenLate'
  BY <1>2 DEF Pace, CutOffOnlyWhenLate
<1>5. CASE stage' # "read"
  <2>1. UNCHANGED <<capture, answers>>
    BY <1>5 DEF ReadJob
  <2> QED BY <1>1, <1>2, <1>3, <1>4, <1>5, <2>1 DEF Read
<1>6. CASE stage' = "read"
  <2>1. /\ same /\ stage = "done"
        /\ \E shot \in Captures :
             /\ capture' = shot
             /\ answers' = {probeResultFromReport(result, cluster, collectSnapshots(cluster, shot))
                            : result \in results}
    BY <1>6 DEF ReadJob
  <2>2. capture' # None /\ capture' \in Shot
    BY <2>1, Captured
  <2>3. collectSnapshots(cluster, capture)' = collectSnapshots(cluster', capture')
    BY <1>1 DEF collectSnapshots
  <2>4. answers' = {probeResultFromReport(result, cluster, collectSnapshots(cluster, capture'))
                    : result \in results}
    BY <2>1
  <2>5. todo = {}
    BY <2>1 DEF Read
  <2> QED BY <1>1, <1>3, <1>4, <1>6, <2>1, <2>2, <2>3, <2>4, <2>5 DEF Read
<1> QED BY <1>5, <1>6

\* The cluster changes while the Job is not read.
LEMMA ClusterChangesStep ==
    ASSUME RunInv, ClusterChanges
    PROVE  RunInv'
<1> USE DEF RunInv
<1>1. Inputs'
  BY BoundAssumption DEF ClusterChanges, Inputs
<1>2. JobShape' /\ Progress' /\ Time'
  BY DEF ClusterChanges, JobShape, Progress, Time
<1>3. Pace' /\ Read' /\ CutOffOnlyWhenLate'
  BY DEF ClusterChanges, Pace, Read, CutOffOnlyWhenLate
<1> QED BY <1>1, <1>2, <1>3

\* Nothing happens.
LEMMA StutteringStep ==
    ASSUME RunInv, UNCHANGED vars
    PROVE  RunInv'
<1> USE DEF RunInv, vars
<1>1. Inputs' /\ JobShape' /\ Progress' /\ Time'
  BY DEF Inputs, JobShape, Progress, Time
<1>2. Pace' /\ CutOffOnlyWhenLate'
  BY DEF Pace, CutOffOnlyWhenLate
<1>3. Read'
  BY DEF Read, collectSnapshots
<1> QED BY <1>1, <1>2, <1>3

\* The invariant holds in every state of every run.
THEOREM RunInvariant == Spec => []RunInv
<1>1. RunInv /\ [Next]_vars => RunInv'
  BY CreateJobStep, StartPodStep, AttemptStep, WriteReportStep, ReadJobStep, ClusterChangesStep,
     StutteringStep DEF Next
<1> QED BY <1>1, RunInit, PTL DEF Spec

-----------------------------------------------------------------------------
(* Theorems                                                                  *)

\* The variables hold what their comments say; a Job has between two minutes and an hour.
THEOREM Typed == Spec => []TypeOK
<1>1. ASSUME RunInv PROVE TypeOK
  <2> USE <1>1 DEF RunInv
  <2>1. /\ traffic \in Traffics /\ cluster \in Clusters /\ changes \in 0 .. Changes
        /\ stage \in Stages /\ cluster \in seen
    BY DEF Inputs
  <2>2. job = NoJob \/ (job.deadline \in Nat /\ 120 <= job.deadline /\ job.deadline <= 3600)
    <3>1. CASE stage \in {"planning", "nothing"}
      BY <3>1 DEF JobShape
    <3>2. CASE stage \notin {"planning", "nothing"}
      <4>1. /\ job.deadline = probeJobDeadlineSeconds(traffic, Cardinality(job.entries))
            /\ Cardinality(job.entries) \in Nat
        BY <3>2, FS_CardinalityType DEF JobShape
      <4> QED BY <4>1, GivenInputs, DeadlineSuffices
    <3> QED BY <3>1, <3>2
  <2>6. job = NoJob \/ job.deadline \in 120 .. 3600
    <3> DEFINE least == 120
               most == 3600
    <3>1. /\ least \in Nat /\ most \in Nat
          /\ job = NoJob \/ (job.deadline \in Nat /\ least <= job.deadline /\ job.deadline <= most)
      BY <2>2
    <3> HIDE DEF least, most
    <3>2. job = NoJob \/ job.deadline \in least .. most
      BY <3>1
    <3> QED BY <3>2, Zenon DEF least, most
  <2>3. clock \in 0 .. job.deadline
    <3>1. job.deadline \in Nat
      BY <2>2 DEF NoJob
    <3> QED BY <3>1 DEF Time
  <2>4. /\ todo \subseteq job.entries /\ current \in todo \cup {None}
        /\ tries \in 0 .. defaultInt32(traffic.count, 1) - 1
        /\ {r.entry : r \in results} \cap todo = {}
    BY DEF Progress, Attempts
  <2>5. capture = None <=> stage # "read"
    BY DEF Read
  <2> QED BY <2>1, <2>3, <2>4, <2>5, <2>6 DEF TypeOK
<1> QED BY <1>1, RunInvariant, PTL

\* The deadline ends a Job only when its container took more than a minute to start, or when an
\* hour is too short for attempts that all time out (probeJobDeadlineSeconds against /probe).
THEOREM CutOff == Spec => []CutOffOnlyWhenLate
<1>1. RunInv => CutOffOnlyWhenLate
  BY DEF RunInv
<1> QED BY <1>1, RunInvariant, PTL

\* The number of checks that buildProbeChecks makes is that of the documented formula.
THEOREM Count == Spec => []CheckCount
<1>1. ASSUME RunInv PROVE CheckCount
  <2> DEFINE t == traffic
             c == cluster
             pods == filterRunnablePods(c)
             N == uniquePodNodes(c)
             default == Cardinality(defaultProbePorts(t, c))
             portsOf(k) == IF c.services[k].ports = <<>> THEN default ELSE Len(c.services[k].ports)
             servicePorts(ks) == UNION {{k} \X (1 .. portsOf(k)) : k \in ks}
             pairs == {x \in N \X DOMAIN pods : t.crossNodeOnly => pods[x[2]].node # x[1]}
             withVIP == {k \in DOMAIN c.services : c.services[k].ip # None}
             podIPs == IF t.podIP \/ (~t.serviceVIP /\ ~t.dns) THEN Cardinality(pairs) * default ELSE 0
             vips == IF t.serviceVIP THEN Cardinality(N) * Cardinality(servicePorts(withVIP)) ELSE 0
             names == IF t.dns THEN Cardinality(N) * Cardinality(servicePorts(DOMAIN c.services)) ELSE 0
             counted(path) == Cardinality(N) * Cardinality(ServicePorts(t, c, ServicesOf(t, c, path)))
  <2>1. t \in Traffic /\ c \in Cluster
    BY <1>1, GivenInputs DEF RunInv
  <2>2. Cardinality(N) \in Nat
    BY <2>1, SourceNodes, FS_CardinalityType
  <2>3. pairs = PodPairs(t, c)
    BY DEF PodPairs
  <2>4. ASSUME NEW ks PROVE servicePorts(ks) = ServicePorts(t, c, ks)
    BY DEF ServicePorts, PortCount
  <2>5. Cardinality(N) * Cardinality(ServicePorts(t, c, {})) = 0
    <3>1. ServicePorts(t, c, {}) = {}
      BY DEF ServicePorts
    <3> QED BY <2>2, <3>1, FS_EmptySet
  <2>6. vips = counted("serviceVIP")
    <3>1. CASE t.serviceVIP
      <4>1. ServicesOf(t, c, "serviceVIP") = withVIP
        BY <3>1 DEF ServicesOf
      <4> QED BY <2>4, <3>1, <4>1
    <3>2. CASE ~t.serviceVIP
      <4>1. ServicesOf(t, c, "serviceVIP") = {}
        BY <3>2 DEF ServicesOf
      <4> QED BY <2>5, <3>2, <4>1
    <3> QED BY <3>1, <3>2
  <2>7. names = counted("dns")
    <3>1. CASE t.dns
      <4>1. ServicesOf(t, c, "dns") = DOMAIN c.services
        BY <3>1 DEF ServicesOf
      <4> QED BY <2>4, <3>1, <4>1
    <3>2. CASE ~t.dns
      <4>1. ServicesOf(t, c, "dns") = {}
        BY <3>2 DEF ServicesOf
      <4> QED BY <2>5, <3>2, <4>1
    <3> QED BY <3>1, <3>2
  <2>8. podIPs = IF includePodIP(t) THEN Cardinality(PodPairs(t, c)) * default ELSE 0
    BY <2>3 DEF includePodIP
  <2> HIDE DEF podIPs, vips, names, counted, default
  <2>9. Cardinality(buildProbeChecks(t, c)) = (podIPs + vips + names) * Len(defaultProtocols(t))
    <3>1. Cardinality(buildProbeChecks(t, c))
            = (podIPs + counted("serviceVIP") + counted("dns")) * Len(defaultProtocols(t))
      BY <2>1, <2>8, CountOfChecks DEF counted, default
    <3> QED BY <2>6, <2>7, <3>1
  <2> QED BY <2>9 DEF CheckCount, podIPs, vips, names, default
<1> QED BY <1>1, RunInvariant, PTL

\* Lists of checks of the same hash have the same checks, each as often.
LEMMA SameHash ==
    ASSUME NEW A, IsFiniteSet(A), NEW B, IsFiniteSet(B), checksHash(A) = checksHash(B)
    PROVE  /\ {e.check : e \in A} = {e.check : e \in B}
           /\ Cardinality(A) = Cardinality(B)
<1> DEFINE D == {e.check : e \in A}
           Of(S, check) == {e \in S : e.check = check}
           F == [check \in D |-> CHOOSE f : f \in Bijection(Of(A, check), Of(B, check))]
           g == [e \in A |-> F[e.check][e]]
<1>1. D = {e.check : e \in B}
  <2>1. DOMAIN checksHash(A) = D /\ DOMAIN checksHash(B) = {e.check : e \in B}
    BY DEF checksHash
  <2> QED BY <2>1
<1>2. ASSUME NEW check \in D
      PROVE  F[check] \in Bijection(Of(A, check), Of(B, check))
  <2>1. IsFiniteSet(Of(A, check)) /\ IsFiniteSet(Of(B, check))
    BY FS_Subset
  <2>2. Cardinality(Of(A, check)) = Cardinality(Of(B, check))
    <3>1. checksHash(A)[check] = Cardinality(Of(A, check))
      BY DEF checksHash
    <3>2. checksHash(B)[check] = Cardinality(Of(B, check))
      BY <1>1 DEF checksHash
    <3> QED BY <3>1, <3>2
  <2>3. ExistsBijection(Of(A, check), Of(B, check))
    <3> HIDE DEF Of
    <3> QED BY <2>1, <2>2, FS_SameCardinalityBij
  <2>4. \E f : f \in Bijection(Of(A, check), Of(B, check))
    BY <2>3 DEF ExistsBijection
  <2>5. F[check] = CHOOSE f : f \in Bijection(Of(A, check), Of(B, check))
    OBVIOUS
  <2> HIDE DEF F, Of
  <2> QED BY <2>4, <2>5
<1>3. ASSUME NEW check \in D
      PROVE  /\ \A e \in Of(A, check) : F[check][e] \in Of(B, check)
             /\ \A b \in Of(B, check) : \E e \in Of(A, check) : F[check][e] = b
             /\ \A e, x \in Of(A, check) : F[check][e] = F[check][x] => e = x
  <2>1. F[check] \in Bijection(Of(A, check), Of(B, check))
    BY <1>2
  <2> HIDE DEF F, Of
  <2> QED BY <2>1 DEF Bijection, Injection, Surjection, IsInjective
<1>4. ASSUME NEW e \in A PROVE e.check \in D /\ e \in Of(A, e.check) /\ g[e] = F[e.check][e]
  OBVIOUS
<1>5. ASSUME NEW e \in A PROVE g[e] \in B /\ g[e].check = e.check
  <2>1. g[e] \in Of(B, e.check)
    <3> HIDE DEF g, F, D, Of
    <3> QED BY <1>3, <1>4
  <2> QED BY <2>1
<1>6. g \in [A -> B]
  <2>1. DOMAIN g = A /\ g = [e \in A |-> g[e]]
    OBVIOUS
  <2> HIDE DEF g
  <2> QED BY <1>5, <2>1
<1>7. ASSUME NEW b \in B PROVE \E e \in A : g[e] = b
  <2>1. b.check \in D /\ b \in Of(B, b.check)
    BY <1>1
  <2>2. PICK e \in Of(A, b.check) : F[b.check][e] = b
    <3> HIDE DEF F, D, Of
    <3> QED BY <1>3, <2>1
  <2>3. e \in A /\ e.check = b.check
    OBVIOUS
  <2> HIDE DEF g, F
  <2> QED BY <1>4, <2>2, <2>3
<1>8. ASSUME NEW e \in A, NEW x \in A, g[e] = g[x] PROVE e = x
  <2>1. e.check = x.check
    BY <1>5, <1>8
  <2> HIDE DEF g, F, D, Of
  <2>2. F[e.check][e] = F[e.check][x] /\ x \in Of(A, e.check) /\ e \in Of(A, e.check)
    BY <1>4, <1>8, <2>1
  <2> QED BY <1>3, <1>4, <2>2
<1>9. Cardinality(B) = Cardinality(A)
  <2> HIDE DEF g
  <2> QED BY <1>6, <1>7, <1>8, Counted
<1> QED BY <1>1, <1>9

\* What is read answers every check the lab calls for now, as often as it calls for it, and
\* each was sent to the address its target has now (checksHash, readProbeReport).
THEOREM Current == Spec => []AnswersCurrent
<1>1. ASSUME RunInv PROVE AnswersCurrent
  <2> USE <1>1 DEF RunInv
  <2> DEFINE now == ChecksOf(job.node, traffic, cluster)
             Answer(r) == probeResultFromReport(r, cluster, collectSnapshots(cluster, capture))
             resultOf == [e \in job.entries |-> CHOOSE r \in results : r.entry = e]
             f == [e \in job.entries |-> Answer(resultOf[e])]
  <2> SUFFICES ASSUME stage = "read"
               PROVE  /\ Cardinality(answers) = Cardinality(now)
                      /\ {a.entry.check : a \in answers} = {e.check : e \in now}
    BY DEF AnswersCurrent
  <2>1. answers = {Answer(r) : r \in results} /\ checksHash(now) = checksHash(job.entries)
    BY DEF Read
  <2>2. /\ {r.entry : r \in results} = job.entries
        /\ \A r, s \in results : r.entry = s.entry => r = s
    BY DEF Read, Progress
  <2>3. \A r : Answer(r).entry = r.entry
    BY DEF probeResultFromReport
  <2> HIDE DEF Answer
  <2>4. ASSUME NEW e \in job.entries
        PROVE  resultOf[e] \in results /\ resultOf[e].entry = e /\ f[e] = Answer(resultOf[e])
    <3>1. \E r \in results : r.entry = e
      BY <2>2
    <3> QED BY <3>1
  <2>5. f \in [job.entries -> answers]
    <3>1. \A e \in job.entries : f[e] \in answers
      <4> HIDE DEF f, resultOf
      <4> QED BY <2>1, <2>4
    <3>2. DOMAIN f = job.entries /\ f = [e \in job.entries |-> f[e]]
      OBVIOUS
    <3> HIDE DEF f
    <3> QED BY <3>1, <3>2
  <2>6. ASSUME NEW a \in answers PROVE \E e \in job.entries : f[e] = a
    <3>1. PICK r \in results : a = Answer(r)
      BY <2>1
    <3>2. r.entry \in job.entries /\ resultOf[r.entry] = r
      <4>1. r.entry \in job.entries
        BY <2>2
      <4> HIDE DEF resultOf, f
      <4> QED BY <2>2, <2>4, <4>1
    <3> HIDE DEF resultOf, f
    <3> QED BY <2>4, <3>1, <3>2
  <2>7. ASSUME NEW e \in job.entries, NEW x \in job.entries, f[e] = f[x] PROVE e = x
    <3> HIDE DEF resultOf, f
    <3> QED BY <2>3, <2>4, <2>7
  <2>8. IsFiniteSet(job.entries)
    BY DEF JobShape
  <2>9. Cardinality(answers) = Cardinality(job.entries)
    <3> HIDE DEF f
    <3> QED BY <2>5, <2>6, <2>7, <2>8, Counted
  <2>10. IsFiniteSet(now)
    BY GivenInputs, FiniteChecks
  <2>11. {e.check : e \in now} = {e.check : e \in job.entries} /\ Cardinality(now) = Cardinality(job.entries)
    <3> HIDE DEF now
    <3> QED BY <2>1, <2>8, <2>10, SameHash
  <2>12. {a.entry.check : a \in answers} = {e.check : e \in job.entries}
    <3>1. \A a \in answers : a.entry \in job.entries
      BY <2>1, <2>2, <2>3
    <3>2. \A e \in job.entries : \E a \in answers : a.entry = e
      <4> HIDE DEF f, resultOf
      <4> QED BY <2>3, <2>4, <2>1
    <3> QED BY <3>1, <3>2
  <2> QED BY <2>9, <2>11, <2>12
<1> QED BY <1>1, RunInvariant, PTL

-----------------------------------------------------------------------------
(* The pod behind a service and the path to it                               *)

\* What is given of a cluster is what the lemmas about its tables ask for.
LEMMA StoredClusters ==
    ASSUME NEW c \in Clusters
    PROVE  /\ c \in Cluster /\ Stored(c) /\ Named(c)
           /\ Range(c.others \o c.services) = Range(c.services \o c.others)
           /\ IsSequence(c.services) /\ Range(c.services) \subseteq Range(c.services \o c.others)
<1>1. c \in Cluster
  BY InputAssumption
<1>2. c.pods \in Seq(Pod) /\ c.services \in Seq(Service) /\ c.others \in Seq(Service)
  BY <1>1 DEF Cluster
<1>3. IsSequence(c.pods) /\ IsSequence(c.services) /\ IsSequence(c.others)
  BY <1>2, Sequence
<1>4. ASSUME NEW svc \in Range(c.others) \cup Range(c.services)
      PROVE  svc.name \in STRING /\ IsSequence(svc.ports) /\ Range(svc.ports) \subseteq Nat
  <2>1. svc \in Service
    BY <1>2 DEF Range
  <2>2. svc.ports \in Seq(Nat \ {0}) /\ svc.name \in STRING
    BY <2>1 DEF Service
  <2> QED BY <2>2, Sequence DEF Range
<1>5. Named(c)
  BY NameAssumption DEF Named
<1>6. /\ Range(c.others \o c.services) = Range(c.others) \cup Range(c.services)
      /\ Range(c.services \o c.others) = Range(c.services) \cup Range(c.others)
  BY <1>3, Concatenated
<1>7. \A pod \in Range(c.pods) : pod.name \in STRING
  <2>1. \A pod \in Range(c.pods) : pod \in Pod
    BY <1>2 DEF Range
  <2> QED BY <2>1 DEF Pod
<1>8. Stored(c)
  BY <1>3, <1>4, <1>7 DEF Stored
<1> QED BY <1>1, <1>3, <1>5, <1>6, <1>8

\* A check by another path than podIP is of a service, and from a source node.
LEMMA CheckOfService ==
    ASSUME NEW t, NEW c, NEW n, NEW e \in ChecksOf(n, t, c), e.check.path # "podIP"
    PROVE  /\ e.check.source = n /\ n \in uniquePodNodes(c)
           /\ \E k \in DOMAIN c.services : /\ e.check.target = c.services[k].name
                                           /\ e.check.serviceIP = c.services[k].ip
<1>1. e \in checksFrom(n, t, c) /\ n \in uniquePodNodes(c)
  BY DEF ChecksOf
<1>2. e \notin EntriesOfPods(t, c, n)
  BY DEF EntriesOfPods, PodEntry, Check
<1>3. PICK path : \E k \in ServicesOf(t, c, path) : e \in EntriesOfService(t, c, path, n, k)
  <2>1. \/ e \in UNION {EntriesOfService(t, c, "serviceVIP", n, k) : k \in ServicesOf(t, c, "serviceVIP")}
        \/ e \in UNION {EntriesOfService(t, c, "dns", n, k) : k \in ServicesOf(t, c, "dns")}
    BY <1>1, <1>2 DEF checksFrom
  <2> QED BY <2>1
<1> PICK k \in ServicesOf(t, c, path) : e \in EntriesOfService(t, c, path, n, k)
  BY <1>3
<1>4. k \in DOMAIN c.services
  BY DEF ServicesOf
<1>5. PICK i, j : e = ServiceEntry(t, c, path, n, k, i, j)
  BY DEF EntriesOfService
<1>6. /\ e.check.source = n
      /\ e.check.target = c.services[k].name /\ e.check.serviceIP = c.services[k].ip
  BY <1>5 DEF ServiceEntry, Check
<1> QED BY <1>1, <1>4, <1>6

\* The runnable pods that a service of this name selects.
SelectedBy(name, c) ==
    LET groups == {svc.group : svc \in {s \in Range(c.services) : s.name = name}}
    IN  {pod \in Range(filterRunnablePods(c)) : pod.group \in groups \ {None}}

\* correlatedServiceBackend returns one of them, on another node if there is any.
LEMMA BackendSelected ==
    ASSUME NEW c \in Clusters, NEW source, NEW name, \E k \in DOMAIN c.services : c.services[k].name = name
    PROVE  LET backend  == correlatedServiceBackend(name, source, c)
               selected == SelectedBy(name, c)
           IN  IF selected = {} THEN backend = None
               ELSE /\ backend \in selected
                    /\ backend.node = source => \A pod \in selected : pod.node = source
<1> DEFINE pods    == filterRunnablePods(c)
           ofName  == {k \in DOMAIN c.services : c.services[k].name = name}
           svc     == c.services[Min(ofName)]
           places  == {k \in DOMAIN pods : svc.group # None /\ pods[k].group = svc.group}
           remote  == {k \in places : pods[k].node # source}
           nearest == IF remote # {} THEN remote ELSE places
           backend == correlatedServiceBackend(name, source, c)
           groups  == {s.group : s \in {s \in Range(c.services) : s.name = name}}
           selected == SelectedBy(name, c)
<1>1. backend = IF places = {} THEN None ELSE pods[Min(nearest)]
  BY DEF correlatedServiceBackend
<1>2. svc \in Range(c.services) /\ svc.name = name
  <2>1. ofName # {} /\ ofName \in SUBSET Nat
    BY StoredClusters DEF IsSequence
  <2>2. Min(ofName) \in ofName
    <3> HIDE DEF ofName
    <3> QED BY <2>1, LeastNatural
  <2> QED BY <2>2 DEF Range
<1>3. groups = {svc.group}
  <2>1. \A s \in Range(c.services) : s.name = name => s = svc
    BY <1>2, StoredClusters, NameAssumption
  <2> HIDE DEF svc
  <2> QED BY <1>2, <2>1
<1>4. DOMAIN pods \subseteq Nat /\ pods = filterRunnablePods(c)
  BY RunnablePods, StoredClusters
<1> HIDE DEF svc, pods
<1>5. ASSUME NEW pod PROVE pod \in selected <=> \E k \in places : pod = pods[k]
  <2>1. selected = {p \in Range(pods) : p.group \in {svc.group} \ {None}}
    BY <1>3 DEF SelectedBy, pods
  <2> QED BY <2>1 DEF Range
<1>6. CASE places = {}
  <2>1. selected = {}
    <3> HIDE DEF selected, places
    <3> QED BY <1>5, <1>6
  <2> HIDE DEF selected, places, backend
  <2>2. backend = None
    BY <1>1, <1>6
  <2> QED BY <2>1, <2>2 DEF backend, selected
<1>7. CASE places # {}
  <2>1. nearest # {} /\ nearest \in SUBSET Nat /\ nearest \subseteq places
    BY <1>4, <1>7
  <2>2. Min(nearest) \in nearest
    <3> HIDE DEF nearest
    <3> QED BY <2>1, LeastNatural
  <2>3. Min(nearest) \in places /\ backend = pods[Min(nearest)]
    <3> HIDE DEF places, nearest, backend
    <3> QED BY <1>1, <1>7, <2>1, <2>2
  <2>4. backend \in selected
    <3> HIDE DEF places, nearest, backend, selected
    <3> QED BY <1>5, <2>3
  <2>5. ASSUME backend.node = source, NEW pod \in selected PROVE pod.node = source
    <3>1. remote = {}
      <4>1. Min(nearest) \notin remote
        <5> HIDE DEF places, nearest, backend
        <5> QED BY <2>3, <2>5
      <4> HIDE DEF remote
      <4> QED BY <2>2, <4>1
    <3>2. PICK k \in places : pod = pods[k]
      <4> HIDE DEF places, selected
      <4> QED BY <1>5, <2>5
    <3>3. k \notin remote
      <4> HIDE DEF remote
      <4> QED BY <3>1
    <3> HIDE DEF places
    <3> QED BY <3>2, <3>3
  <2> HIDE DEF backend, selected
  <2>6. selected # {}
    BY <2>4
  <2> QED BY <2>4, <2>5, <2>6 DEF backend, selected
<1> QED BY <1>6, <1>7

\* The snapshots of a capture show tables that were programmed.
LEMMA SnapshotsProgrammed ==
    ASSUME RunInv, stage = "read",
           NEW n \in DOMAIN collectSnapshots(cluster, capture)
    PROVE  AllProgrammed(collectSnapshots(cluster, capture)[n].lines, capture.at)
<1>1. capture \in Shot /\ cluster \in Clusters
  BY DEF RunInv, Read, Inputs
<1>2. capture.at \in Clusters /\ capture.cut \in Cuts \cup {None}
  BY <1>1 DEF Shot
<1>3. n \in cluster.nodes
  BY DEF collectSnapshots
<1>4. collectSnapshots(cluster, capture)[n]
        = Collect(Tables[capture.at][n], Local(cluster, n), traffic.observability, capture.cut)
  BY DEF collectSnapshots
<1>5. Tables[capture.at][n] = iptablesSave(capture.at, n)
  <2>1. n \in UNION {d.nodes : d \in Clusters}
    BY <1>1, <1>3
  <2>2. Tables[capture.at] = [m \in UNION {d.nodes : d \in Clusters} |-> iptablesSave(capture.at, m)]
    BY <1>2 DEF Tables
  <2> QED BY <2>1, <2>2
<1>6. capture.cut # None => capture.cut.keep \in Nat
  BY <1>2, BoundAssumption DEF Cut
<1>7. Stored(capture.at)
  BY <1>2, StoredClusters
<1>8. AllProgrammed(Collect(iptablesSave(capture.at, n), Local(cluster, n), traffic.observability,
                            capture.cut).lines, capture.at)
  BY <1>6, <1>7, SnapshotProgrammed
<1> QED BY <1>4, <1>5, <1>8

\* What the analyzer is asked about a check of a service with this pod behind it.
TargetOf(backend) ==
    IF backend = None THEN [ip |-> None, node |-> None] ELSE [ip |-> backend.ip, node |-> backend.node]

ObservationOf(check, backend) ==
    [protocol |-> check.protocol, sourceIP |-> ProbeIP[check.source],
     targetIP |-> TargetOf(backend).ip, serviceIP |-> check.serviceIP, port |-> check.port]

\* The parts of the path on the source node and on the target node.
PathFromSource(check, backend) ==
    toAPITraceSteps(check.source,
        TraceSourceIptables(collectSnapshots(cluster, capture)[check.source], ObservationOf(check, backend)))

PathToTarget(check, backend) ==
    toAPITraceSteps(TargetOf(backend).node,
        TraceTargetIptables(collectSnapshots(cluster, capture)[TargetOf(backend).node],
                            ObservationOf(check, backend)))

\* An answer about a service is of a check that the lab calls for now.
LEMMA AnswerOfService ==
    ASSUME RunInv, NEW a \in answers, a.entry.check.path # "podIP"
    PROVE  LET check == a.entry.check
               snapshots == collectSnapshots(cluster, capture)
           IN  /\ stage = "read"
               /\ a.backend = correlatedServiceBackend(check.target, check.source, cluster)
               /\ a.path = IF check.source \notin DOMAIN snapshots THEN <<>>
                           ELSE PathFromSource(check, a.backend)
                                \o (IF TargetOf(a.backend).node \notin DOMAIN snapshots THEN <<>>
                                    ELSE PathToTarget(check, a.backend))
               /\ check.source \in uniquePodNodes(cluster)
               /\ \E k \in DOMAIN cluster.services : /\ check.target = cluster.services[k].name
                                                     /\ check.serviceIP = cluster.services[k].ip
<1> DEFINE check     == a.entry.check
           snapshots == collectSnapshots(cluster, capture)
           backend   == correlatedServiceBackend(check.target, check.source, cluster)
<1>1. stage = "read"
  BY DEF RunInv, Read
<1>2. PICK r \in results : a = probeResultFromReport(r, cluster, snapshots)
  BY <1>1 DEF RunInv, Read
<1>3. r.entry = a.entry /\ r.entry.check = check
  BY <1>2 DEF probeResultFromReport
<1>4. /\ a.backend = backend
      /\ a.path = IF check.source \notin DOMAIN snapshots THEN <<>>
                  ELSE PathFromSource(check, backend)
                       \o (IF TargetOf(backend).node \notin DOMAIN snapshots THEN <<>>
                           ELSE PathToTarget(check, backend))
  BY <1>2, <1>3 DEF probeResultFromReport, PathFromSource, PathToTarget, TargetOf, ObservationOf
<1>5. PICK e \in ChecksOf(job.node, traffic, cluster) : e.check = check
  <2>1. a.entry \in job.entries
    BY <1>2, <1>3 DEF RunInv, Progress
  <2>2. IsFiniteSet(job.entries) /\ IsFiniteSet(ChecksOf(job.node, traffic, cluster))
    BY <1>1, GivenInputs, FiniteChecks DEF RunInv, JobShape
  <2>3. {x.check : x \in ChecksOf(job.node, traffic, cluster)} = {x.check : x \in job.entries}
    BY <1>1, <2>2, SameHash DEF RunInv, Read
  <2> QED BY <2>1, <2>3
<1>6. /\ check.source \in uniquePodNodes(cluster)
      /\ \E k \in DOMAIN cluster.services : /\ check.target = cluster.services[k].name
                                            /\ check.serviceIP = cluster.services[k].ip
  BY <1>5, CheckOfService
<1> HIDE DEF backend, snapshots
<1> QED BY <1>1, <1>4, <1>6 DEF backend, snapshots

\* The pod reported behind a service is one its selector selects now, on another node whenever
\* there is one, and a path through the service's chains ends at that pod or nowhere.
THEOREM Traced == Spec => []BackendTraced
<1>1. ASSUME RunInv PROVE BackendTraced
  <2> USE <1>1
  <2> SUFFICES ASSUME NEW a \in answers, a.entry.check.path # "podIP"
               PROVE  LET check    == a.entry.check
                          passed   == {s \in Range(a.path) : s.step.stage = "service-dnat"}
                          selected == SelectedBy(check.target, cluster)
                      IN  /\ IF selected = {} THEN a.backend = None
                             ELSE /\ a.backend \in selected
                                  /\ a.backend.node = check.source =>
                                         \A pod \in selected : pod.node = check.source
                          /\ \A s \in passed :
                               /\ s.node = check.source
                               /\ s.step.to \notin {None, "cut", "endpoint"} =>
                                      a.backend # None /\ addressWithin(a.backend.ip, s.step.to)
                               /\ s.step.chain.class \in {"KUBE-SVC", "KUBE-SEP"}
                                    /\ s.step.chain.of # <<"cut">> =>
                                      \E svc \in UNION {Range(c.services \o c.others) : c \in Clusters} :
                                          /\ svc.name = s.step.chain.of[1]
                                          /\ addressWithin(check.serviceIP, svc.ip)
                                          /\ portWithin(check.port, s.step.chain.of[2])
    BY DEF BackendTraced, SelectedBy, Services
  <2> DEFINE check     == a.entry.check
             snapshots == collectSnapshots(cluster, capture)
             selected  == SelectedBy(check.target, cluster)
             backend   == a.backend
             target    == TargetOf(backend)
             observation == ObservationOf(check, backend)
             own   == PathFromSource(check, backend)
             other == PathToTarget(check, backend)
  <2>1. stage = "read" /\ cluster \in Clusters
    BY DEF RunInv, Read, Inputs
  <2>2. backend = correlatedServiceBackend(check.target, check.source, cluster)
    BY AnswerOfService
  <2>3. \E k \in DOMAIN cluster.services : cluster.services[k].name = check.target
    BY AnswerOfService
  <2>4. a.path = IF check.source \notin DOMAIN snapshots THEN <<>>
                 ELSE own \o (IF target.node \notin DOMAIN snapshots THEN <<>> ELSE other)
    BY AnswerOfService
  <2>6. IF selected = {} THEN backend = None
        ELSE /\ backend \in selected
             /\ backend.node = check.source => \A pod \in selected : pod.node = check.source
    <3> HIDE DEF check, selected, backend
    <3> QED BY <2>1, <2>2, <2>3, BackendSelected DEF selected
  <2>7. target.ip # None => backend # None /\ target.ip = backend.ip /\ target.ip # "cut"
    <3>1. backend # None => backend \in Range(cluster.pods)
      <4>1. selected \subseteq Range(filterRunnablePods(cluster))
        BY DEF SelectedBy
      <4> HIDE DEF selected, backend
      <4> QED BY <2>1, <2>6, <4>1, RunnablePods, StoredClusters
    <3> HIDE DEF backend
    <3>2. backend # None => backend.ip # "cut"
      BY <2>1, <3>1, NameAssumption
    <3> QED BY <3>2 DEF TargetOf
  <2>8. observation.targetIP = target.ip /\ observation.serviceIP = check.serviceIP
        /\ observation.port = check.port
    BY DEF ObservationOf
  <2> DEFINE Ok(s) == s.step.stage = "service-dnat" =>
                          s.node = check.source /\ Through(s.step, observation, capture.at)
             AllOk(steps) == IsSequence(steps) /\ \A s \in Range(steps) : Ok(s)
  <2> HIDE DEF check, backend, target, observation, own, other, selected
  <2>9. capture.at \in Clusters
    BY <2>1 DEF RunInv, Read, Shot
  <2>10. AllOk(<<>>)
    BY Short
  <2>11. ASSUME check.source \in DOMAIN snapshots PROVE AllOk(own)
    <3> DEFINE steps == TraceSourceIptables(snapshots[check.source], observation)
    <3>1. AllProgrammed(snapshots[check.source].lines, capture.at)
      BY <2>1, <2>11, SnapshotsProgrammed
    <3>2. Named(capture.at)
      BY <2>9, StoredClusters
    <3>3. /\ IsSequence(steps)
          /\ \A s \in Range(steps) :
                s.stage = "source-egress" \/ Through(s, observation, capture.at)
      <4> HIDE DEF snapshots
      <4> QED BY <2>7, <2>8, <3>1, <3>2, SourceTraced
    <3> HIDE DEF steps
    <3>4. IsSequence(own) /\ \A s \in Range(own) : s.node = check.source /\ s.step \in Range(steps)
      BY <3>3, StepsOfNode DEF own, steps, PathFromSource, snapshots, observation
    <3> QED BY <3>3, <3>4
  <2>12. AllOk(other)
    <3> DEFINE steps == TraceTargetIptables(snapshots[target.node], observation)
    <3>1. Only("target-ingress", steps)
      <4> HIDE DEF snapshots
      <4> QED BY TargetTraced
    <3> HIDE DEF steps
    <3>2. IsSequence(other) /\ \A s \in Range(other) : s.step \in Range(steps)
      BY <3>1, StepsOfNode DEF other, steps, Only, PathToTarget, snapshots, observation, target
    <3> QED BY <3>1, <3>2 DEF Only
  <2>13. ASSUME NEW s, AllOk(s), NEW t, AllOk(t) PROVE AllOk(s \o t)
    <3> HIDE DEF Ok
    <3> QED BY <2>13, Concatenated
  <2>14. AllOk(a.path)
    <3> HIDE DEF AllOk, snapshots
    <3> QED BY <2>4, <2>10, <2>11, <2>12, <2>13
  <2>15. ASSUME NEW s \in Range(a.path), s.step.stage = "service-dnat"
         PROVE  /\ s.node = check.source
                /\ s.step.to \notin {None, "cut", "endpoint"} =>
                       a.backend # None /\ addressWithin(a.backend.ip, s.step.to)
                /\ s.step.chain.class \in {"KUBE-SVC", "KUBE-SEP"}
                     /\ s.step.chain.of # <<"cut">> =>
                       \E svc \in UNION {Range(c.services \o c.others) : c \in Clusters} :
                           /\ svc.name = s.step.chain.of[1]
                           /\ addressWithin(check.serviceIP, svc.ip)
                           /\ portWithin(check.port, s.step.chain.of[2])
    <3>1. s.node = check.source /\ Through(s.step, observation, capture.at)
      BY <2>14, <2>15
    <3>2. ASSUME s.step.to \notin {None, "cut", "endpoint"}
          PROVE  a.backend # None /\ addressWithin(a.backend.ip, s.step.to)
      BY <2>7, <2>8, <3>1, <3>2 DEF Through, backend
    <3>3. ASSUME s.step.chain.class \in {"KUBE-SVC", "KUBE-SEP"}, s.step.chain.of # <<"cut">>
          PROVE  \E svc \in UNION {Range(c.services \o c.others) : c \in Clusters} :
                     /\ svc.name = s.step.chain.of[1]
                     /\ addressWithin(check.serviceIP, svc.ip)
                     /\ portWithin(check.port, s.step.chain.of[2])
      <4>1. PICK svc \in Range(capture.at.others \o capture.at.services) :
                /\ svc.name = s.step.chain.of[1]
                /\ addressWithin(check.serviceIP, svc.ip)
                /\ portWithin(check.port, s.step.chain.of[2])
        BY <2>8, <3>1, <3>3 DEF Through
      <4>2. svc \in UNION {Range(c.services \o c.others) : c \in Clusters}
        BY <2>9, StoredClusters
      <4> QED BY <4>1, <4>2
    <3> QED BY <3>1, <3>2, <3>3
  <2>16. IF selected = {} THEN a.backend = None
         ELSE /\ a.backend \in selected
              /\ a.backend.node = check.source => \A pod \in selected : pod.node = check.source
    BY <2>6 DEF backend
  <2> HIDE DEF AllOk, Ok, snapshots
  <2> QED BY <2>15, <2>16 DEF check, selected
<1> QED BY <1>1, RunInvariant, PTL

\* What the agent of a node shows when it is asked and its tables are whole and up to date.
LEMMA SnapshotOfNow ==
    ASSUME RunInv, stage = "read", capture.at = cluster, capture.cut = None, capture.silent = None,
           NEW n \in cluster.nodes, n # None
    PROVE  LET snapshot == collectSnapshots(cluster, capture)[n]
               lines    == snapshot.lines
               asked    == traffic.observability.allowlist
           IN  /\ n \in DOMAIN collectSnapshots(cluster, capture)
               /\ asked = {} \/ "KUBE-*" \in asked =>
                     Wired(lines, cluster) /\ \A l : NatRule(nat(cluster), l) => NatRule(lines, l)
               /\ "cali-*" \in asked => Dispatches(lines, Local(cluster, n))
               /\ collectsRoutes(traffic.observability.collect) =>
                     snapshot.routes = {[ip |-> pod.ip, interface |-> pod.name]
                                           : pod \in Range(Local(cluster, n))}
<1> DEFINE snapshot == collectSnapshots(cluster, capture)[n]
           output   == iptablesSave(cluster, n)
           pods     == Local(cluster, n)
           observability == traffic.observability
<1>1. cluster \in Clusters
  BY DEF RunInv, Inputs
<1>2. n \in DOMAIN collectSnapshots(cluster, capture)
  BY DEF collectSnapshots
<1>3. Tables[cluster][n] = output
  <2>1. n \in UNION {d.nodes : d \in Clusters}
    BY <1>1
  <2>2. Tables[cluster] = [m \in UNION {d.nodes : d \in Clusters} |-> iptablesSave(cluster, m)]
    BY <1>1 DEF Tables
  <2> QED BY <2>1, <2>2
<1>4. snapshot = Collect(Tables[capture.at][n], pods, observability, capture.cut)
  BY DEF collectSnapshots
<1>5. snapshot = Collect(output, pods, observability, None)
  <2> HIDE DEF snapshot, output, pods, observability
  <2> QED BY <1>3, <1>4
<1>6. Stored(cluster) /\ Named(cluster)
  BY <1>1, StoredClusters
<1>7. LET lines == Collect(output, pods, observability, None).lines
      IN  /\ observability.allowlist = {} \/ "KUBE-*" \in observability.allowlist =>
                Wired(lines, cluster) /\ \A l : NatRule(nat(cluster), l) => NatRule(lines, l)
          /\ "cali-*" \in observability.allowlist => Dispatches(lines, pods)
  BY <1>6, SnapshotWired
<1>8. collectsRoutes(observability.collect) =>
          Collect(output, pods, observability, None).routes
              = {[ip |-> pod.ip, interface |-> pod.name] : pod \in Range(pods)}
  BY DEF Collect
<1> HIDE DEF snapshot, output, pods
<1> QED BY <1>2, <1>5, <1>7, <1>8 DEF snapshot, pods

\* The pod behind a service runs on an allowed node and is one of its endpoints.
LEMMA BackendReached ==
    ASSUME NEW c \in Clusters, NEW source, NEW k \in DOMAIN c.services,
           NEW backend, backend = correlatedServiceBackend(c.services[k].name, source, c),
           backend # None
    PROVE  LET svc == c.services[k]
           IN  /\ backend \in Range(c.pods) /\ backend.phase = "Running"
               /\ backend.name \in STRING /\ backend.ip # None /\ backend.ip # "cut"
               /\ backend.node # None /\ backend.node \in c.nodes
               /\ backend \in Range(endpointsOf(svc, c))
               /\ backend \in Range(Local(c, backend.node)) /\ backend.name # None
<1> DEFINE svc == c.services[k]
           selected == SelectedBy(svc.name, c)
<1>1. Stored(c) /\ c \in Cluster /\ svc \in Range(c.services)
  BY StoredClusters DEF Range
<1>2. backend \in selected
  <2>1. \E i \in DOMAIN c.services : c.services[i].name = svc.name
    OBVIOUS
  <2> HIDE DEF selected, svc
  <2> QED BY <2>1, BackendSelected DEF selected, svc
<1>3. backend \in Range(filterRunnablePods(c)) /\ backend.group = svc.group /\ svc.group # None
  <2>1. PICK s \in Range(c.services) : s.name = svc.name /\ backend.group = s.group /\ s.group # None
    BY <1>2 DEF SelectedBy
  <2>2. s = svc
    BY <1>1, <2>1, NameAssumption, StoredClusters
  <2> HIDE DEF svc
  <2> QED BY <1>2, <2>1, <2>2 DEF SelectedBy
<1>4. /\ backend \in Range(c.pods) /\ backend \in Pod /\ backend.phase = "Running"
      /\ backend.ip # None /\ backend.node # None /\ backend.node \in c.nodes
  BY <1>1, <1>3, RunnablePods
<1>5. backend.name \in STRING /\ backend.ip # "cut" /\ backend.name # None
  BY <1>4, NameAssumption DEF Pod
<1>6. backend \in Range(endpointsOf(svc, c))
  BY <1>1, <1>3, <1>4, EndpointPods
<1>7. backend \in Range(Local(c, backend.node))
  BY <1>1, <1>4, LocalPods
<1> QED BY <1>4, <1>5, <1>6, <1>7

\* The path passes a chain at a stage on a node.
Passes(path, node, part, chain, to) ==
    \E s \in Range(path) : /\ s.node = node /\ s.step.stage = part
                           /\ s.step.chain = chain /\ s.step.to = to

\* With tables that are whole and up to date the path of a TCP check of a service goes through the
\* chains of the port and of the endpoint reported to the chain of the pod.
THEOREM Complete == Spec => []PathComplete
<1>1. ASSUME RunInv PROVE PathComplete
  <2> USE <1>1
  <2> DEFINE Simple(check) ==
                 /\ ~cluster.masquerades
                 /\ \A svc \in Range(cluster.services \o cluster.others) : \A port \in Range(svc.ports) :
                        addressWithin(check.serviceIP, svc.ip) /\ portWithin(check.port, port)
                            => svc.name = check.target /\ port = check.port
             Alone(pod) ==
                 /\ \A p \in Range(cluster.pods) : p.phase = "Running" /\ p.ip = pod.ip => p = pod
                 /\ ~crowded(pod, Local(cluster, pod.node))
  <2> SUFFICES ASSUME NEW a \in answers,
                      capture.at = cluster, capture.cut = None, capture.silent = None,
                      a.entry.check.protocol # "UDP", a.entry.check.serviceIP # None, a.backend # None,
                      \E svc \in Services : /\ svc.name = a.entry.check.target
                                            /\ a.entry.check.port \in Range(svc.ports)
               PROVE  LET check == a.entry.check
                          asked == traffic.observability.allowlist
                      IN  /\ Simple(check) /\ Distinct(a.backend, cluster)
                               /\ (asked = {} \/ "KUBE-*" \in asked) =>
                               /\ Passes(a.path, check.source, "service-dnat",
                                         Chain("KUBE-SVC", <<check.target, check.port, "tcp">>), None)
                               /\ \E pod \in Range(cluster.pods) :
                                    Passes(a.path, check.source, "service-dnat",
                                           Chain("KUBE-SEP", <<check.target, check.port, "tcp", pod.name>>),
                                           a.backend.ip)
                          /\ Alone(a.backend) /\ "cali-*" \in asked
                               /\ collectsRoutes(traffic.observability.collect) =>
                               Passes(a.path, a.backend.node, "target-ingress",
                                      Chain("cali-tw", <<a.backend.name>>), None)
    BY DEF PathComplete, Passes, Distinct
  <2> DEFINE check     == a.entry.check
             asked     == traffic.observability.allowlist
             snapshots == collectSnapshots(cluster, capture)
             backend   == a.backend
             node      == backend.node
             observation == ObservationOf(check, backend)
             own   == PathFromSource(check, backend)
             other == PathToTarget(check, backend)
             simple == Simple(check)
             alone  == Alone(backend)
  <2>1. stage = "read" /\ cluster \in Clusters /\ cluster \in Cluster /\ Stored(cluster) /\ Named(cluster)
    BY StoredClusters DEF RunInv, Read, Inputs
  <2>2. check.path # "podIP"
    <3>1. PICK r \in results : a = probeResultFromReport(r, cluster, snapshots)
      BY <2>1 DEF RunInv, Read
    <3> QED BY <3>1 DEF probeResultFromReport
  <2>3. PICK k \in DOMAIN cluster.services :
             check.target = cluster.services[k].name /\ check.serviceIP = cluster.services[k].ip
    BY <2>2, AnswerOfService
  <2> DEFINE svc == cluster.services[k]
  <2>4. /\ backend = correlatedServiceBackend(svc.name, check.source, cluster)
        /\ check.source \in uniquePodNodes(cluster)
        /\ a.path = IF check.source \notin DOMAIN snapshots THEN <<>>
                    ELSE own \o (IF TargetOf(backend).node \notin DOMAIN snapshots THEN <<>> ELSE other)
    BY <2>2, <2>3, AnswerOfService
  <2>5. /\ backend \in Range(cluster.pods) /\ backend.phase = "Running"
        /\ backend.name \in STRING /\ backend.ip # None /\ backend.ip # "cut"
        /\ node # None /\ node \in cluster.nodes
        /\ backend \in Range(endpointsOf(svc, cluster))
        /\ backend \in Range(Local(cluster, node)) /\ backend.name # None
    <3> HIDE DEF check, backend
    <3> QED BY <2>1, <2>4, BackendReached DEF backend
  <2>6. check.source # None /\ check.source \in cluster.nodes
    BY <2>1, <2>4, SourceNodes
  <2>7. /\ TargetOf(backend).node = node /\ TargetOf(backend).ip = backend.ip
        /\ observation.targetIP = backend.ip /\ observation.serviceIP = svc.ip
        /\ observation.port = check.port /\ observation.protocol # "UDP" /\ svc.ip # None
    BY <2>3 DEF TargetOf, ObservationOf
  <2>8. check.source \in DOMAIN snapshots /\ node \in DOMAIN snapshots
    BY <2>1, <2>5, <2>6, SnapshotOfNow
  <2>9. a.path = own \o other
    <3> HIDE DEF own, other, snapshots, backend, check
    <3> QED BY <2>4, <2>7, <2>8
  <2>10. svc \in Range(cluster.services) /\ svc \in Range(cluster.others \o cluster.services)
         /\ Range(cluster.others \o cluster.services) = Range(cluster.services \o cluster.others)
    <3>1. svc \in Range(cluster.services)
      BY DEF Range
    <3> QED BY <2>1, <3>1, StoredClusters
  <2>11. ASSUME simple, NEW service \in Range(cluster.others \o cluster.services),
                NEW port \in Range(service.ports),
                addressWithin(svc.ip, service.ip), portWithin(check.port, port)
         PROVE  service = svc /\ port = check.port
    <3>1. service.name = svc.name /\ port = check.port
      BY <2>3, <2>10, <2>11
    <3> QED BY <2>1, <2>10, <3>1, NameAssumption
  <2>12. check.port \in Range(svc.ports)
    <3>1. PICK service \in Range(cluster.services) :
              service.name = svc.name /\ check.port \in Range(service.ports)
      BY <2>3 DEF Services
    <3>2. service = svc
      BY <2>1, <2>10, <3>1, NameAssumption, StoredClusters
    <3> QED BY <3>1, <3>2
  <2> DEFINE sourceSnapshot == snapshots[check.source]
             targetSnapshot == snapshots[node]
             sourceSteps == TraceSourceIptables(sourceSnapshot, observation)
             targetSteps == TraceTargetIptables(targetSnapshot, observation)
  <2>13. AllProgrammed(sourceSnapshot.lines, cluster) /\ AllProgrammed(targetSnapshot.lines, cluster)
    BY <2>1, <2>8, SnapshotsProgrammed
  <2>14. IsSequence(sourceSteps) /\ IsSequence(targetSteps)
    <3> HIDE DEF sourceSnapshot, targetSnapshot, observation
    <3> QED BY <2>1, <2>5, <2>7, <2>13, SourceTraced, TargetTraced DEF Only
  <2>15. own = toAPITraceSteps(check.source, sourceSteps) /\ other = toAPITraceSteps(node, targetSteps)
    BY <2>7 DEF PathFromSource, PathToTarget
  <2> HIDE DEF sourceSteps, targetSteps, own, other
  <2>16. /\ IsSequence(own) /\ IsSequence(other)
         /\ \A x \in Range(sourceSteps) : \E s \in Range(own) : s.node = check.source /\ s.step = x
         /\ \A x \in Range(targetSteps) : \E s \in Range(other) : s.node = node /\ s.step = x
    <3> HIDE DEF check, node
    <3> QED BY <2>14, <2>15, StepsOfNode
  <2>17. Range(a.path) = Range(own) \cup Range(other)
    BY <2>9, <2>16, Concatenated
  <2>20. simple => ~cluster.masquerades
    OBVIOUS
  <2>21. alone => /\ \A p \in Range(cluster.pods) : p.phase = "Running" /\ p.ip = backend.ip => p = backend
                  /\ ~crowded(backend, Local(cluster, node))
    OBVIOUS
  <2>22. check.target = svc.name
    BY <2>3
  <2> HIDE DEF check, backend, node, observation, snapshots, svc, asked, alone, simple
  <2>23. ASSUME NEW chain, NEW to, Passed(sourceSteps, "service-dnat", chain, to)
         PROVE  Passes(a.path, check.source, "service-dnat", chain, to)
    BY <2>16, <2>17, <2>23 DEF Passes, Passed
  <2>18. ASSUME simple, Distinct(backend, cluster), asked = {} \/ "KUBE-*" \in asked
         PROVE  /\ Passes(a.path, check.source, "service-dnat",
                          Chain("KUBE-SVC", <<check.target, check.port, "tcp">>), None)
                /\ \E pod \in Range(cluster.pods) :
                     Passes(a.path, check.source, "service-dnat",
                            Chain("KUBE-SEP", <<check.target, check.port, "tcp", pod.name>>), backend.ip)
    <3> DEFINE lines == sourceSnapshot.lines
    <3>1. Wired(lines, cluster) /\ \A l : NatRule(nat(cluster), l) => NatRule(lines, l)
      BY <2>1, <2>6, <2>18, SnapshotOfNow DEF asked, snapshots
    <3>2. endpointsOf(svc, cluster) # <<>>
      BY <2>5, Short
    <3>3. PICK l : /\ NatRule(nat(cluster), l) /\ l.chain = Fixed("KUBE-SERVICES")
                   /\ l.dst = svc.ip /\ l.port = check.port /\ l.protocol = "tcp"
      <4>1. \A service \in Range(cluster.others \o cluster.services) : \A port \in Range(service.ports) :
                service.ip # None /\ endpointsOf(service, cluster) # <<>> =>
                    \E l : /\ NatRule(nat(cluster), l) /\ l.chain = Fixed("KUBE-SERVICES")
                           /\ l.dst = service.ip /\ l.port = port /\ l.protocol = "tcp"
        BY <2>1, NatWired
      <4> QED BY <2>7, <2>10, <2>12, <3>2, <4>1
    <3> DEFINE steps == traceServiceDNAT(lines, observation)
               own1  == Chain("KUBE-SVC", <<svc.name, check.port, "tcp">>)
               End(pod) == Chain("KUBE-SEP", <<svc.name, check.port, "tcp", pod.name>>)
    <3>4. /\ Passed(steps, "service-dnat", own1, None)
          /\ \E pod \in Range(cluster.pods) : Passed(steps, "service-dnat", End(pod), backend.ip)
      <4>1. NatRule(lines, l) /\ l.port = observation.port
        BY <2>7, <3>1, <3>3
      <4>2. AllProgrammed(lines, cluster)
        BY <2>13
      <4>3. ASSUME NEW service \in Range(cluster.others \o cluster.services),
                   NEW port \in Range(service.ports),
                   addressWithin(svc.ip, service.ip), portWithin(observation.port, port)
            PROVE  service = svc /\ port = observation.port
        BY <2>7, <2>11, <2>18, <4>3
      <4> HIDE DEF lines
      <4>4. LET port == observation.port
            IN  /\ Passed(steps, "service-dnat", Chain("KUBE-SVC", <<svc.name, port, "tcp">>), None)
                /\ \E p \in Range(cluster.pods) :
                       Passed(steps, "service-dnat",
                              Chain("KUBE-SEP", <<svc.name, port, "tcp", p.name>>), backend.ip)
        <5> HIDE DEF steps
        <5> QED BY <2>1, <2>5, <2>7, <2>18, <2>20, <3>1, <3>3, <4>1, <4>2, <4>3, ServiceFound DEF steps
      <4> HIDE DEF steps
      <4> QED BY <2>7, <4>4
    <3>5. Range(steps) \subseteq Range(sourceSteps)
      <4> HIDE DEF sourceSnapshot
      <4> QED BY <2>1, <2>5, <2>7, <2>13, SourceFound DEF sourceSteps
    <3> HIDE DEF steps
    <3>6. ASSUME NEW chain, NEW to, Passed(steps, "service-dnat", chain, to)
          PROVE  Passes(a.path, check.source, "service-dnat", chain, to)
      <4>1. Passed(sourceSteps, "service-dnat", chain, to)
        BY <3>5, <3>6 DEF Passed
      <4> QED BY <2>23, <4>1
    <3>7. Passes(a.path, check.source, "service-dnat", own1, None)
      BY <3>4, <3>6
    <3>8. PICK pod \in Range(cluster.pods) : Passed(steps, "service-dnat", End(pod), backend.ip)
      BY <3>4
    <3>9. Passes(a.path, check.source, "service-dnat", End(pod), backend.ip)
      BY <3>6, <3>8
    <3> QED BY <2>22, <3>7, <3>9
  <2>19. ASSUME alone, "cali-*" \in asked, collectsRoutes(traffic.observability.collect)
         PROVE  Passes(a.path, node, "target-ingress", Chain("cali-tw", <<backend.name>>), None)
    <3> DEFINE pods == Local(cluster, node)
    <3>1. /\ Dispatches(targetSnapshot.lines, pods)
          /\ targetSnapshot.routes = {[ip |-> pod.ip, interface |-> pod.name] : pod \in Range(pods)}
      BY <2>1, <2>5, <2>19, SnapshotOfNow DEF asked, snapshots
    <3>2. \A pod \in Range(pods) : pod.ip = backend.ip => pod = backend
      BY <2>1, <2>19, <2>21, LocalPods
    <3>7. ~crowded(backend, pods)
      BY <2>19, <2>21
    <3> HIDE DEF pods, targetSnapshot
    <3>3. PICK x \in Range(dispatch(targetSnapshot, "target-ingress", backend.ip,
                                    Fixed("cali-to-wl-dispatch"))) :
              /\ x.stage = "target-ingress" /\ x.chain = Chain("cali-tw", <<backend.name>>)
              /\ x.to = None
      <4>1. [ip |-> backend.ip, interface |-> backend.name] \in targetSnapshot.routes
        BY <2>5, <3>1 DEF pods
      <4>2. \A r \in targetSnapshot.routes : r.ip = backend.ip => r.interface = backend.name
        BY <3>1, <3>2
      <4>3. IsSequence(targetSnapshot.lines) /\ backend \in Range(pods)
        BY <2>5, <2>13 DEF AllProgrammed, pods
      <4>4. Passed(dispatch(targetSnapshot, "target-ingress", backend.ip, Fixed("cali-to-wl-dispatch")),
                   "target-ingress", Chain("cali-tw", <<backend.name>>), None)
        BY <2>5, <3>1, <3>7, <4>1, <4>2, <4>3, TargetFound
      <4> QED BY <4>4 DEF Passed
    <3>4. x \in Range(targetSteps)
      <4>1. Range(dispatch(targetSnapshot, "target-ingress", observation.targetIP,
                           Fixed("cali-to-wl-dispatch"))) \subseteq Range(targetSteps)
        BY DispatchFound DEF targetSteps
      <4> QED BY <2>7, <3>3, <4>1
    <3>5. PICK s \in Range(other) : s.node = node /\ s.step = x
      BY <2>16, <3>4
    <3>6. s \in Range(a.path)
      BY <2>17, <3>5
    <3> QED BY <3>3, <3>5, <3>6 DEF Passes
  <2> QED BY <2>18, <2>19 DEF check, asked, backend, node, alone, simple
<1> QED BY <1>1, RunInvariant, PTL
=============================================================================
