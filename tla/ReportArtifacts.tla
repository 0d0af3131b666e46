-------------------------- MODULE ReportArtifacts --------------------------
(***************************************************************************)
(* The report ConfigMaps of many labs: NetworkProbeLabs and                *)
(* ResourceAnalyzerLabs are reconciled by two controllers of one manager,  *)
(* each with one worker, and write into one namespace under names that     *)
(* users choose (spec.output.*.configMapName) or that are cut to length    *)
(* (snapshotConfigMapName), so that labs of either kind may meet in one    *)
(* ConfigMap.                                                              *)
(*                                                                         *)
(* NetworkProbeLab and ResourceAnalyzerLab model one lab in full.  Here a  *)
(* run is reduced to what it does to ConfigMaps: it ends early or writes   *)
(* its reports in order, reading each ConfigMap from the informer cache    *)
(* (Read) and creating or updating it in a later step (Create, Update),    *)
(* between which the other worker may write the same ConfigMap.            *)
(***************************************************************************)
EXTENDS Naturals

CONSTANTS
    NetLabs, ResLabs, \* the names of the labs of each kind
    Names,            \* names of ConfigMaps
    Outputs,          \* Outputs[l]: what the spec of l may ask for, report |-> name
    Scenarios,        \* which labs there are, whether the informer caches may be
                      \* behind, and a bound on changes and faults
    Disturbances,     \* the kinds of changes by users and of faults that happen
    MaxIncarnation,   \* bound on the creations of each lab
    Nobody, NoMap

Labs    == NetLabs \cup ResLabs
Kinds   == {"network", "resource"}
Reports == {"raw", "excel", "html"}

KindOf(l)   == IF l \in NetLabs THEN "network" ELSE "resource"
LabsOf(k)   == IF k = "network" THEN NetLabs ELSE ResLabs
Rank(r)     == CASE r = "raw" -> 1 [] r = "excel" -> 2 [] r = "html" -> 3

\* The reports a spec asks for and the ConfigMap each goes to.
Output == UNION {[S -> Names] : S \in SUBSET Reports}
NoOutput == [r \in {} |-> Nobody]

ASSUME LabAssumption    == NetLabs \cap ResLabs = {} /\ Nobody \notin Labs
ASSUME OutputAssumption ==
    /\ \A l \in Labs : Outputs[l] # {} /\ Outputs[l] \subseteq Output
    /\ \A l \in ResLabs : \A out \in Outputs[l] : "raw" \notin DOMAIN out
ASSUME BoundAssumption  ==
    /\ Scenarios # {} /\ Scenarios \subseteq [labs : SUBSET Labs, lag : BOOLEAN, faults : Nat]
    /\ MaxIncarnation \in Nat

\* inc counts creations of the name (the UID); refs are the reports a
\* Succeeded status names; a lab is "kept" once it has the finalizer.
Lab == [inc : Nat, life : {"absent", "new", "kept", "deleting"}, output : Output, refs : Output]

\* label: the labs the labels name, one label for each kind; data: who last wrote
\* under a key of the ConfigMap's data; there is one key for each kind and report.
\* Two versions with the same content are not told apart.
Keys == Kinds \X Reports
Map  == [label : [Kinds -> Labs \cup {Nobody}], data : [Keys -> Labs \cup {Nobody}]]

ASSUME AbsenceAssumption == NoMap \notin Map

VARIABLES
    lab, map,           \* the API server
    labCache, mapCache, \* the informer caches
    lag,                \* whether the workers read the caches as they are
    pc,                 \* where the worker of each kind is
    who, copy,          \* the lab it reconciles, as it read it
    todo,               \* the reports it has still to write
    seen,               \* the ConfigMap it read
    doomed,             \* the ConfigMaps cleanup has listed and not yet deleted
    budget              \* changes and faults still to come

apiVars    == <<lab, map>>
cacheVars  == <<labCache, mapCache>>
workerVars == <<pc, who, copy, todo, seen, doomed>>
vars       == <<apiVars, cacheVars, lag, workerVars, budget>>

Steps == {"idle", "read", "put", "failed", "delete"}

TypeOK ==
    /\ lab \in [Labs -> Lab] /\ labCache \in [Labs -> Lab]
    /\ map \in [Names -> Map \cup {NoMap}] /\ mapCache \in [Names -> Map \cup {NoMap}]
    /\ lag \in BOOLEAN /\ budget \in Nat
    /\ pc \in [Kinds -> Steps]
    /\ who \in [Kinds -> Labs \cup {Nobody}] /\ copy \in [Kinds -> Lab]
    /\ todo \in [Kinds -> SUBSET Reports]
    /\ seen \in [Kinds -> Map \cup {NoMap}]
    /\ doomed \in [Kinds -> SUBSET Names]
    /\ \A k \in Kinds : pc[k] # "idle" => who[k] \in LabsOf(k)

Unborn == [inc |-> 0, life |-> "absent", output |-> NoOutput, refs |-> NoOutput]

Created(inc, out) == [inc |-> inc, life |-> "new", output |-> out, refs |-> NoOutput]

\* The labs have just been created and are known to the manager.
Init ==
    /\ \E scenario \in Scenarios, out \in [Labs -> UNION {Outputs[l] : l \in Labs}] :
         /\ \A l \in Labs : out[l] \in Outputs[l]
         /\ lab = [l \in Labs |-> IF l \in scenario.labs THEN Created(1, out[l]) ELSE Unborn]
         /\ lag = scenario.lag /\ budget = scenario.faults
    /\ labCache = lab
    /\ map = [n \in Names |-> NoMap] /\ mapCache = map
    /\ pc = [k \in Kinds |-> "idle"]
    /\ who = [k \in Kinds |-> Nobody] /\ copy = [k \in Kinds |-> Unborn]
    /\ todo = [k \in Kinds |-> {}]
    /\ seen = [k \in Kinds |-> NoMap]
    /\ doomed = [k \in Kinds |-> {}]

-----------------------------------------------------------------------------
(* Reconcile                                                                *)

\* Each change by a user and each fault spends from the budget.
Disturb(kind) == kind \in Disturbances /\ budget > 0 /\ budget' = budget - 1

\* What a Get or List returns.
LabRead == IF lag THEN labCache ELSE lab

MapRead == IF lag THEN mapCache ELSE map

\* A reconcile ends; what it held is forgotten.
Return(k) ==
    /\ pc' = [pc EXCEPT ![k] = "idle"]
    /\ who' = [who EXCEPT ![k] = Nobody]
    /\ copy' = [copy EXCEPT ![k] = Unborn]
    /\ todo' = [todo EXCEPT ![k] = {}]
    /\ seen' = [seen EXCEPT ![k] = NoMap]
    /\ doomed' = [doomed EXCEPT ![k] = {}]

\* Mutant: the two controllers take each other's labs.
BeginAny(k, l, life) == pc[k] = "idle" /\ LabRead[l].life = life

\* The worker takes up lab l; any event or resync may have queued it.
Begin(k, l, life) == pc[k] = "idle" /\ l \in LabsOf(k) /\ LabRead[l].life = life

\* Every update of the lab is refused when the lab is not what was read.
UpdateLab(l, read, new) == lab' = IF lab[l] = read THEN [lab EXCEPT ![l] = new] ELSE lab

AddFinalizer(k, l) ==
    /\ Begin(k, l, "new")
    /\ UpdateLab(l, LabRead[l], [LabRead[l] EXCEPT !.life = "kept"])
    /\ UNCHANGED <<map, cacheVars, lag, workerVars, budget>>

\* A run whose Jobs are pending or failed, or whose queries failed.
RunEndsEarly(k, l) ==
    /\ Begin(k, l, "kept")
    /\ UpdateLab(l, LabRead[l], [LabRead[l] EXCEPT !.refs = NoOutput])
    /\ UNCHANGED <<map, cacheVars, lag, workerVars, budget>>

\* The worker sets out on a longer way with lab l.
Enter(k, l, step, reports, names) ==
    /\ pc' = [pc EXCEPT ![k] = step]
    /\ who' = [who EXCEPT ![k] = l]
    /\ copy' = [copy EXCEPT ![k] = LabRead[l]]
    /\ todo' = [todo EXCEPT ![k] = reports]
    /\ doomed' = [doomed EXCEPT ![k] = names]
    /\ UNCHANGED <<apiVars, cacheVars, lag, seen, budget>>

\* A run that comes to its reports.
StartExport(k, l) ==
    Begin(k, l, "kept") /\ Enter(k, l, "read", DOMAIN LabRead[l].output, {})

\* The report the run writes now, and the ConfigMap it goes to.
Turn(k, r)   == r \in todo[k] /\ \A s \in todo[k] : Rank(r) <= Rank(s)
Target(k, r) == copy[k].output[r]

Read(k, r) ==
    /\ pc[k] = "read" /\ Turn(k, r)
    /\ seen' = [seen EXCEPT ![k] = MapRead[Target(k, r)]]
    /\ pc' = [pc EXCEPT ![k] = "put"]
    /\ UNCHANGED <<apiVars, cacheVars, lag, who, copy, todo, doomed, budget>>

\* Mutant: the labels of an existing ConfigMap are left as they are.
MergeKeepsLabels(base, k, r, l) ==
    [base EXCEPT !.data[<<k, r>>] = l]

\* The ConfigMap `base' with the label and the report of lab l merged in.
Merge(base, k, r, l) ==
    [base EXCEPT !.label[k] = l, !.data[<<k, r>>] = l]
Empty ==
    [label |-> [k \in Kinds |-> Nobody], data |-> [key \in Keys |-> Nobody]]

\* After a write the run goes on to the next report.
Written(k, r) ==
    /\ todo' = [todo EXCEPT ![k] = @ \ {r}]
    /\ pc' = [pc EXCEPT ![k] = "read"]
    /\ seen' = [seen EXCEPT ![k] = NoMap]
    /\ UNCHANGED <<who, copy, doomed>>

\* An error of a write ends the run; the status will say Failed.
FailExport(k) ==
    /\ pc' = [pc EXCEPT ![k] = "failed"]
    /\ todo' = [todo EXCEPT ![k] = {}]
    /\ seen' = [seen EXCEPT ![k] = NoMap]
    /\ UNCHANGED <<who, copy, doomed>>

\* The ConfigMap is written.  Its answer may be lost (a timeout): the run takes the
\* write for one that failed.
Accepted(k, r) ==
    \/ Written(k, r) /\ UNCHANGED budget
    \/ Disturb("error") /\ FailExport(k)

Create(k, r) ==
    /\ pc[k] = "put" /\ Turn(k, r) /\ seen[k] = NoMap
    /\ map[Target(k, r)] = NoMap
    /\ map' = [map EXCEPT ![Target(k, r)] = Merge(Empty, k, r, who[k])]
    /\ Accepted(k, r)
    /\ UNCHANGED <<lab, cacheVars, lag>>

\* Mutant: the update carries no resourceVersion and is accepted whatever changed.
UpdateUnchecked(k, r) ==
    /\ pc[k] = "put" /\ Turn(k, r) /\ seen[k] # NoMap
    /\ map[Target(k, r)] # NoMap
    /\ map' = [map EXCEPT ![Target(k, r)] = Merge(seen[k], k, r, who[k])]
    /\ Written(k, r)
    /\ UNCHANGED <<lab, cacheVars, lag, budget>>

Update(k, r) ==
    /\ pc[k] = "put" /\ Turn(k, r) /\ seen[k] # NoMap
    /\ map[Target(k, r)] = seen[k]
    /\ map' = [map EXCEPT ![Target(k, r)] = Merge(seen[k], k, r, who[k])]
    /\ Accepted(k, r)
    /\ UNCHANGED <<lab, cacheVars, lag>>

\* Mutant: a refused write is taken for a written report.
PutRefusedIgnored(k, r) ==
    /\ pc[k] = "put" /\ Turn(k, r) /\ map[Target(k, r)] # seen[k]
    /\ Written(k, r)
    /\ UNCHANGED <<apiVars, cacheVars, lag, budget>>

\* AlreadyExists, NotFound or a conflict: somebody changed the ConfigMap after it
\* was read, or the cache did not show it as it was.
PutRefused(k, r) ==
    /\ pc[k] = "put" /\ Turn(k, r) /\ map[Target(k, r)] # seen[k]
    /\ FailExport(k)
    /\ UNCHANGED <<apiVars, cacheVars, lag, budget>>

\* The end of a run: the status claims the reports, or says Failed.
PublishSuccess(k) ==
    /\ pc[k] = "read" /\ todo[k] = {}
    /\ UpdateLab(who[k], copy[k], [copy[k] EXCEPT !.refs = copy[k].output])
    /\ Return(k)
    /\ UNCHANGED <<map, cacheVars, lag, budget>>

PublishFailure(k) ==
    /\ pc[k] = "failed"
    /\ UpdateLab(who[k], copy[k], [copy[k] EXCEPT !.refs = NoOutput])
    /\ Return(k)
    /\ UNCHANGED <<map, cacheVars, lag, budget>>

-----------------------------------------------------------------------------
(* Cleanup                                                                  *)

\* Mutant: cleanup selects by the component label, which all labs of a kind share.
ListedByKind(k, l) == {n \in Names : MapRead[n] # NoMap /\ MapRead[n].label[k] # Nobody}

\* The ConfigMaps that carry the label of lab l.
Listed(k, l) == {n \in Names : MapRead[n] # NoMap /\ MapRead[n].label[k] = l}

StartCleanup(k, l) ==
    Begin(k, l, "deleting") /\ Enter(k, l, "delete", {}, Listed(k, l))

\* Delete goes by name, without a precondition; NotFound is ignored.
DeleteListed(k, n) ==
    /\ pc[k] = "delete" /\ n \in doomed[k]
    /\ map' = [map EXCEPT ![n] = NoMap]
    /\ doomed' = [doomed EXCEPT ![k] = @ \ {n}]
    /\ UNCHANGED <<lab, cacheVars, lag, pc, who, copy, todo, seen, budget>>

Gone(l) == [Unborn EXCEPT !.inc = l.inc]

\* Without its finalizer a deleted lab is gone.
RemoveFinalizer(k) ==
    /\ pc[k] = "delete" /\ doomed[k] = {}
    /\ UpdateLab(who[k], copy[k], Gone(copy[k]))
    /\ Return(k)
    /\ UNCHANGED <<map, cacheVars, lag, budget>>

-----------------------------------------------------------------------------
(* Users, informers, faults                                                 *)

\* A lab that is gone is created again under its name.
RecreateLab(l) ==
    /\ lab[l].life = "absent" /\ lab[l].inc \in 1..(MaxIncarnation - 1)
    /\ \E out \in Outputs[l] : lab' = [lab EXCEPT ![l] = Created(lab[l].inc + 1, out)]
    /\ UNCHANGED <<map, cacheVars, lag, workerVars, budget>>

\* Another name for a report, or another choice of reports.
EditOutput(l) ==
    /\ lab[l].life = "kept" /\ Disturb("edit")
    /\ \E out \in Outputs[l] \ {lab[l].output} : lab' = [lab EXCEPT ![l].output = out]
    /\ UNCHANGED <<map, cacheVars, lag, workerVars>>

DeleteLab(l) ==
    /\ lab[l].life \in {"new", "kept"} /\ Disturb("delete")
    /\ lab' = [lab EXCEPT ![l] = IF lab[l].life = "new" THEN Gone(lab[l])
                                ELSE [lab[l] EXCEPT !.life = "deleting"]]
    /\ UNCHANGED <<map, cacheVars, lag, workerVars>>

\* A watch event brings the newest version of one object.
DeliverLab(l) ==
    /\ lag /\ labCache[l] # lab[l]
    /\ labCache' = [labCache EXCEPT ![l] = lab[l]]
    /\ UNCHANGED <<apiVars, mapCache, lag, workerVars, budget>>

DeliverMap(n) ==
    /\ lag /\ mapCache[n] # map[n]
    /\ mapCache' = [mapCache EXCEPT ![n] = map[n]]
    /\ UNCHANGED <<apiVars, labCache, lag, workerVars, budget>>

\* A call fails for a reason of its own and changes nothing.  The write of a report
\* ends the run, any other call the reconcile.  (An answer lost after Delete or the
\* update of a lab is this, one step after the call took effect.)
CallFails(k) ==
    /\ Disturb("error")
    /\ \/ pc[k] = "put" /\ FailExport(k)
       \/ pc[k] \in {"failed", "delete"} /\ Return(k)
       \/ pc[k] = "read" /\ todo[k] = {} /\ Return(k)
    /\ UNCHANGED <<apiVars, cacheVars, lag>>

\* The manager, with both controllers, dies and starts again on fresh caches.
Restart ==
    /\ Disturb("restart")
    /\ pc' = [k \in Kinds |-> "idle"]
    /\ who' = [k \in Kinds |-> Nobody] /\ copy' = [k \in Kinds |-> Unborn]
    /\ todo' = [k \in Kinds |-> {}] /\ doomed' = [k \in Kinds |-> {}]
    /\ seen' = [k \in Kinds |-> NoMap]
    /\ labCache' = lab /\ mapCache' = map
    /\ UNCHANGED <<apiVars, lag>>

-----------------------------------------------------------------------------
Take(k, l) ==
    AddFinalizer(k, l) \/ StartExport(k, l) \/ RunEndsEarly(k, l) \/ StartCleanup(k, l)

Work(k) ==
    \/ \E r \in Reports : Read(k, r) \/ Create(k, r) \/ Update(k, r) \/ PutRefused(k, r)
    \/ PublishSuccess(k) \/ PublishFailure(k)
    \/ \E n \in Names : DeleteListed(k, n)
    \/ RemoveFinalizer(k)

Deliver == (\E l \in Labs : DeliverLab(l)) \/ (\E n \in Names : DeliverMap(n))

Users == \E l \in Labs : RecreateLab(l) \/ EditOutput(l) \/ DeleteLab(l)

Next ==
    \/ \E k \in Kinds : Work(k) \/ CallFails(k) \/ (\E l \in Labs : Take(k, l))
    \/ Deliver \/ Users \/ Restart

Spec == Init /\ [][Next]_vars

-----------------------------------------------------------------------------
(* Properties                                                               *)

\* The labs whose spec may name ConfigMap n.
UsersOf(n) == {l \in Labs : \E out \in Outputs[l] : \E r \in DOMAIN out : out[r] = n}

\* What the status claims of a ConfigMap no other lab names stays true while other labs
\* are written, renamed, deleted and created around it: the ConfigMap is there, it
\* holds the lab's report, and its label lets the lab's cleanup find it.
ClaimedReportsHold ==
    \A l \in Labs : lab[l].life = "kept" =>
        \A r \in DOMAIN lab[l].refs :
            LET n == lab[l].refs[r] IN
            UsersOf(n) = {l} => /\ map[n] # NoMap
                                /\ map[n].data[<<KindOf(l), r>>] = l
                                /\ map[n].label[KindOf(l)] = l

\* While a ConfigMap lives, no report disappears from it: neither controller writes
\* back what it read before the other one's update.
NoLostReport ==
    [][\A n \in Names : (map[n] # NoMap /\ map'[n] # NoMap) =>
        \A key \in Keys : map[n].data[key] # Nobody => map'[n].data[key] # Nobody]_vars

\* With caches that do not lag, a report never outlives every lab that could remove it: its
\* ConfigMap is labelled with a lab of the report's kind, and that lab exists.
NoOrphans ==
    ~lag => \A n \in Names : map[n] # NoMap =>
        \A key \in Keys : map[n].data[key] # Nobody =>
            LET owner == map[n].label[key[1]] IN
            owner # Nobody /\ lab[owner].life # "absent"

\* With caches that do not lag, a ConfigMap that labs of one kind share is deleted only
\* while it is labelled with a lab under deletion, though Delete has no precondition and
\* the list may be old: one worker makes all these writes.
DeletesOnlyLabelled ==
    [][~lag => \A n \in Names :
        ((\E k \in Kinds : UsersOf(n) \subseteq LabsOf(k)) /\ map[n] # NoMap /\ map'[n] = NoMap)
        => \E k \in Kinds : /\ map[n].label[k] # Nobody
                            /\ lab[map[n].label[k]].life = "deleting"]_vars
=============================================================================
