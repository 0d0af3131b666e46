----------------------- MODULE ReportArtifactsProofs -----------------------
(***************************************************************************)
(* What holds of report ConfigMaps for any labs of both kinds, any names   *)
(* they choose and any number of changes and faults.                       *)
(***************************************************************************)
EXTENDS ReportArtifacts, TLAPS

(***************************************************************************)
(* Types                                                                   *)
(***************************************************************************)

\* A lab is of one kind, and Nobody is no lab.
LEMMA KindFacts ==
    /\ Kinds = {"network", "resource"}
    /\ \A k \in Kinds : LabsOf(k) \subseteq Labs /\ \A l \in LabsOf(k) : KindOf(l) = k
    /\ \A l \in Labs : KindOf(l) \in Kinds /\ l \in LabsOf(KindOf(l))
    /\ \A l \in Labs : l # Nobody
BY LabAssumption DEF Kinds, LabsOf, KindOf, Labs

\* NoOutput asks for no report.
LEMMA NoOutputFacts == NoOutput \in Output /\ DOMAIN NoOutput = {}
<1>1. NoOutput \in [{} -> Names]
  BY DEF NoOutput
<1>2. {} \in SUBSET Reports
  OBVIOUS
<1> QED BY <1>1, <1>2 DEF Output, NoOutput

\* An output maps reports to names.
LEMMA OutputFacts ==
    ASSUME NEW x \in Output
    PROVE  /\ DOMAIN x \subseteq Reports
           /\ \A r \in DOMAIN x : x[r] \in Names
BY DEF Output

\* The labs that are built from nothing have the type of labs.
LEMMA LabFacts ==
    /\ Unborn \in Lab
    /\ \A i \in Nat, out \in Output : Created(i, out) \in Lab
    /\ \A x \in Lab : Gone(x) \in Lab
BY NoOutputFacts DEF Unborn, Created, Gone, Lab

\* A merge changes one label and one entry of the data.
LEMMA MergeIsMap ==
    ASSUME NEW base \in Map, NEW k \in Kinds, NEW r \in Reports, NEW l \in Labs
    PROVE  /\ Merge(base, k, r, l) \in Map
           /\ Merge(base, k, r, l).label = [base.label EXCEPT ![k] = l]
           /\ Merge(base, k, r, l).data = [base.data EXCEPT ![<<k, r>>] = l]
BY DEF Merge, Map, Keys

\* The ConfigMap a first write starts from is a ConfigMap.
LEMMA EmptyIsMap == Empty \in Map
BY DEF Empty, Map

\* The part of TypeOK about the workers, and the part about everything else.
WorkersTyped ==
    /\ pc \in [Kinds -> Steps]
    /\ who \in [Kinds -> Labs \cup {Nobody}] /\ copy \in [Kinds -> Lab]
    /\ todo \in [Kinds -> SUBSET Reports]
    /\ seen \in [Kinds -> Map \cup {NoMap}]
    /\ doomed \in [Kinds -> SUBSET Names]
    /\ \A k \in Kinds : pc[k] # "idle" => who[k] \in LabsOf(k)

StoresTyped ==
    /\ lab \in [Labs -> Lab] /\ labCache \in [Labs -> Lab]
    /\ map \in [Names -> Map \cup {NoMap}] /\ mapCache \in [Names -> Map \cup {NoMap}]
    /\ lag \in BOOLEAN /\ budget \in Nat

\* The two parts make up TypeOK.
LEMMA TypeParts == TypeOK <=> WorkersTyped /\ StoresTyped
BY DEF TypeOK, WorkersTyped, StoresTyped

\* What a worker reads has its type.
LEMMA ReadTyped ==
    ASSUME TypeOK
    PROVE  LabRead \in [Labs -> Lab] /\ MapRead \in [Names -> Map \cup {NoMap}]
BY DEF TypeOK, LabRead, MapRead

\* An update of a lab keeps the type of the store.
LEMMA UpdateLabTyped ==
    ASSUME TypeOK, NEW l \in Labs, NEW read, NEW new \in Lab, UpdateLab(l, read, new)
    PROVE  lab' \in [Labs -> Lab]
BY DEF TypeOK, UpdateLab

\* A reconcile that ends, one that sets out, a write and a failed export keep the types.
LEMMA ReturnTyped ==
    ASSUME TypeOK, NEW k \in Kinds, Return(k)
    PROVE  WorkersTyped'
BY LabFacts DEF TypeOK, WorkersTyped, Return, Steps

\* StartExport and StartCleanup keep the types.
LEMMA EnterTyped ==
    ASSUME TypeOK, NEW k \in Kinds, NEW l \in LabsOf(k), NEW step \in Steps,
           NEW reports \in SUBSET Reports, NEW names \in SUBSET Names,
           Enter(k, l, step, reports, names)
    PROVE  TypeOK'
<1>1. LabRead[l] \in Lab /\ l \in Labs
  BY ReadTyped, KindFacts
<1>2. WorkersTyped'
  BY <1>1 DEF TypeOK, WorkersTyped, Enter
<1>3. StoresTyped'
  BY DEF TypeOK, StoresTyped, Enter, apiVars, cacheVars
<1> QED BY <1>2, <1>3 DEF TypeOK, WorkersTyped, StoresTyped

\* So does the step of a worker behind its write.
LEMMA WrittenTyped ==
    ASSUME TypeOK, NEW k \in Kinds, NEW r \in Reports, pc[k] = "put", Written(k, r)
    PROVE  WorkersTyped'
BY DEF TypeOK, WorkersTyped, Written, Steps

\* So does the step to a failed export.
LEMMA FailExportTyped ==
    ASSUME TypeOK, NEW k \in Kinds, pc[k] = "put", FailExport(k)
    PROVE  WorkersTyped'
BY DEF TypeOK, WorkersTyped, FailExport, Steps

\* The budget of changes and faults stays a natural number.
LEMMA DisturbTyped ==
    ASSUME TypeOK, NEW kind, Disturb(kind)
    PROVE  budget' \in Nat
BY DEF TypeOK, Disturb

\* Fields of labs that are changed one at a time.
LEMMA FieldsTyped ==
    ASSUME NEW x \in Lab
    PROVE  /\ \A life \in {"absent", "new", "kept", "deleting"} : [x EXCEPT !.life = life] \in Lab
           /\ \A out \in Output : [x EXCEPT !.output = out] \in Lab
           /\ \A out \in Output : [x EXCEPT !.refs = out] \in Lab
           /\ x.inc \in Nat /\ x.output \in Output /\ x.refs \in Output
           /\ x.life \in {"absent", "new", "kept", "deleting"}
BY DEF Lab

\* The initial states have their types.
LEMMA InitTyped == Init => TypeOK
<1> SUFFICES ASSUME Init PROVE TypeOK
  OBVIOUS
<1>1. PICK scenario \in Scenarios, out \in [Labs -> UNION {Outputs[l] : l \in Labs}] :
         /\ \A l \in Labs : out[l] \in Outputs[l]
         /\ lab = [l \in Labs |-> IF l \in scenario.labs THEN Created(1, out[l]) ELSE Unborn]
         /\ lag = scenario.lag /\ budget = scenario.faults
  BY DEF Init
<1>2. lab \in [Labs -> Lab]
  <2>1. \A l \in Labs : out[l] \in Output
    BY <1>1, OutputAssumption
  <2>2. \A l \in Labs : Created(1, out[l]) \in Lab
    BY <2>1, LabFacts
  <2> QED BY <1>1, <2>2, LabFacts
<1>3. lag \in BOOLEAN /\ budget \in Nat
  BY <1>1, BoundAssumption
<1> QED BY <1>2, <1>3, LabFacts DEF Init, TypeOK, Steps

\* So does an accepted write, answered or not.
LEMMA AcceptedTyped ==
    ASSUME TypeOK, NEW k \in Kinds, NEW r \in Reports, pc[k] = "put", Accepted(k, r)
    PROVE  WorkersTyped' /\ budget' \in Nat
<1>1. CASE Written(k, r) /\ UNCHANGED budget
  BY <1>1, WrittenTyped DEF TypeOK
<1>2. CASE Disturb("error") /\ FailExport(k)
  BY <1>2, FailExportTyped, DisturbTyped
<1> QED BY <1>1, <1>2 DEF Accepted

\* One merge, whatever it is merged into, writes one ConfigMap.
LEMMA PutTyped ==
    ASSUME TypeOK, NEW k \in Kinds, NEW r \in Reports, NEW base \in Map,
           pc[k] = "put", Turn(k, r), Target(k, r) \in Names,
           map' = [map EXCEPT ![Target(k, r)] = Merge(base, k, r, who[k])],
           Accepted(k, r), UNCHANGED <<lab, cacheVars, lag>>
    PROVE  TypeOK'
<1>1. who[k] \in Labs
  BY KindFacts DEF TypeOK
<1>2. Merge(base, k, r, who[k]) \in Map
  BY <1>1, MergeIsMap
<1>3. map' \in [Names -> Map \cup {NoMap}]
  BY <1>2 DEF TypeOK
<1>4. StoresTyped'
  BY <1>3, AcceptedTyped DEF TypeOK, StoresTyped, cacheVars
<1>5. WorkersTyped'
  BY AcceptedTyped
<1> QED BY <1>4, <1>5 DEF TypeOK, WorkersTyped, StoresTyped

\* The end of a reconcile with an update of the lab it was about.
LEMMA PublishTyped ==
    ASSUME TypeOK, NEW k \in Kinds, NEW new \in Lab, who[k] \in Labs,
           UpdateLab(who[k], copy[k], new), Return(k),
           UNCHANGED <<map, cacheVars, lag, budget>>
    PROVE  TypeOK'
<1>1. lab' \in [Labs -> Lab]
  BY UpdateLabTyped
<1>2. StoresTyped'
  BY <1>1 DEF TypeOK, StoresTyped, cacheVars
<1>3. WorkersTyped'
  BY ReturnTyped
<1> QED BY <1>2, <1>3 DEF TypeOK, WorkersTyped, StoresTyped

\* A step that touches only labs and the budget keeps the types.
LEMMA UpdateOnlyTyped ==
    ASSUME TypeOK, lab' \in [Labs -> Lab], budget' \in Nat,
           UNCHANGED <<map, cacheVars, lag, workerVars>>
    PROVE  TypeOK'
BY DEF TypeOK, cacheVars, workerVars

\* TypeOK is inductive together with this: what is still to be written has a name.
TodoNamed == \A k \in Kinds : todo[k] \subseteq DOMAIN copy[k].output

TInv == TypeOK /\ TodoNamed

\* The report whose turn it is has a ConfigMap to go to.
LEMMA TargetIsName ==
    ASSUME TInv, NEW k \in Kinds, NEW r \in Reports, Turn(k, r)
    PROVE  Target(k, r) \in Names
<1>1. copy[k].output \in Output /\ r \in DOMAIN copy[k].output
  BY FieldsTyped DEF TInv, TypeOK, TodoNamed, Turn
<1> QED BY <1>1, OutputFacts DEF Target

\* The strengthened type invariant holds at first.
LEMMA InitTInv == Init => TInv
BY InitTyped DEF TInv, Init, TodoNamed

\* A reconcile that ends and a worker that stays where it is keep TodoNamed.
LEMMA ReturnTodo ==
    ASSUME TInv, NEW k \in Kinds, Return(k)
    PROVE  TodoNamed'
BY DEF TInv, TypeOK, TodoNamed, Return, Unborn

\* After a write less is to be written.
LEMMA WrittenTodo ==
    ASSUME TInv, NEW k \in Kinds, NEW r \in Reports, Written(k, r)
    PROVE  TodoNamed'
BY DEF TInv, TypeOK, TodoNamed, Written

\* After a failure nothing is to be written.
LEMMA FailExportTodo ==
    ASSUME TInv, NEW k \in Kinds, FailExport(k)
    PROVE  TodoNamed'
BY DEF TInv, TypeOK, TodoNamed, FailExport

\* An accepted write is one or the other.
LEMMA AcceptedTodo ==
    ASSUME TInv, NEW k \in Kinds, NEW r \in Reports, Accepted(k, r)
    PROVE  TodoNamed'
BY WrittenTodo, FailExportTodo DEF Accepted

\* Steps that leave the copies and what is to be written alone.
LEMMA SameTodo ==
    ASSUME TInv, UNCHANGED <<copy, todo>>
    PROVE  TodoNamed'
BY DEF TInv, TodoNamed

\* A worker that sets out plans no report its lab does not ask for.
LEMMA EnterTodo ==
    ASSUME TInv, NEW k \in Kinds, NEW l \in LabsOf(k), NEW step \in Steps,
           NEW reports \in SUBSET Reports, NEW names \in SUBSET Names,
           reports \subseteq DOMAIN LabRead[l].output,
           Enter(k, l, step, reports, names)
    PROVE  TodoNamed'
BY DEF TInv, TypeOK, TodoNamed, Enter

\* Taking up a lab keeps the strengthened type invariant.
LEMMA TakeKeepsTInv ==
    ASSUME TInv, NEW k \in Kinds, NEW l \in Labs, Take(k, l)
    PROVE  TInv'
<1>0. TypeOK /\ LabRead[l] \in Lab
  BY ReadTyped DEF TInv
<1>1. CASE AddFinalizer(k, l)
  <2>1. [LabRead[l] EXCEPT !.life = "kept"] \in Lab
    BY <1>0, FieldsTyped
  <2>2. lab' \in [Labs -> Lab]
    BY <1>0, <1>1, <2>1, UpdateLabTyped DEF AddFinalizer
  <2>3. TypeOK'
    BY <1>0, <1>1, <2>2, UpdateOnlyTyped DEF AddFinalizer, TypeOK
  <2> QED BY <1>1, <2>3, SameTodo DEF AddFinalizer, TInv, workerVars
<1>2. CASE StartExport(k, l)
  <2>1. l \in LabsOf(k) /\ Enter(k, l, "read", DOMAIN LabRead[l].output, {})
    BY <1>2 DEF StartExport, Begin
  <2>2. DOMAIN LabRead[l].output \in SUBSET Reports
    BY <1>0, FieldsTyped, OutputFacts
  <2> QED BY <1>0, <2>1, <2>2, EnterTyped, EnterTodo DEF Steps, TInv
<1>3. CASE RunEndsEarly(k, l)
  <2>1. [LabRead[l] EXCEPT !.refs = NoOutput] \in Lab
    BY <1>0, FieldsTyped, NoOutputFacts
  <2>2. lab' \in [Labs -> Lab]
    BY <1>0, <1>3, <2>1, UpdateLabTyped DEF RunEndsEarly
  <2>3. TypeOK'
    BY <1>0, <1>3, <2>2, UpdateOnlyTyped DEF RunEndsEarly, TypeOK
  <2> QED BY <1>3, <2>3, SameTodo DEF RunEndsEarly, TInv, workerVars
<1>4. CASE StartCleanup(k, l)
  <2>1. l \in LabsOf(k) /\ Enter(k, l, "delete", {}, Listed(k, l))
    BY <1>4 DEF StartCleanup, Begin
  <2>2. Listed(k, l) \in SUBSET Names
    BY DEF Listed
  <2> QED BY <1>0, <2>1, <2>2, EnterTyped, EnterTodo DEF Steps, TInv
<1> QED BY <1>1, <1>2, <1>3, <1>4 DEF Take

\* So does every step of a worker,
LEMMA WorkKeepsTInv ==
    ASSUME TInv, NEW k \in Kinds, Work(k)
    PROVE  TInv'
<1>0. TypeOK /\ (pc[k] # "idle" => who[k] \in Labs) /\ copy[k] \in Lab
  BY KindFacts DEF TInv, TypeOK
<1>1. ASSUME NEW r \in Reports, Read(k, r) PROVE TInv'
  <2>1. MapRead[Target(k, r)] \in Map \cup {NoMap}
    BY <1>0, <1>1, ReadTyped, TargetIsName DEF Read
  <2>2. WorkersTyped'
    BY <1>0, <1>1, <2>1 DEF Read, TypeOK, WorkersTyped, Steps
  <2>3. StoresTyped'
    BY <1>0, <1>1 DEF Read, TypeOK, StoresTyped, apiVars, cacheVars
  <2> QED BY <1>1, <2>2, <2>3, TypeParts, SameTodo DEF Read, TInv, TypeOK, WorkersTyped, StoresTyped
<1>2. ASSUME NEW r \in Reports, Create(k, r) PROVE TInv'
  <2>1. TypeOK'
    BY <1>0, <1>2, EmptyIsMap, TargetIsName, PutTyped DEF Create
  <2> QED BY <1>2, <2>1, AcceptedTodo DEF Create, TInv
<1>3. ASSUME NEW r \in Reports, Update(k, r) PROVE TInv'
  <2>1. seen[k] \in Map
    BY <1>0, <1>3 DEF TypeOK, Update
  <2>2. TypeOK'
    BY <1>0, <1>3, <2>1, TargetIsName, PutTyped DEF Update
  <2> QED BY <1>3, <2>2, AcceptedTodo DEF Update, TInv
<1>4. ASSUME NEW r \in Reports, PutRefused(k, r) PROVE TInv'
  <2>1. WorkersTyped'
    BY <1>0, <1>4, FailExportTyped DEF PutRefused
  <2>2. StoresTyped'
    BY <1>0, <1>4 DEF PutRefused, TypeOK, StoresTyped, apiVars, cacheVars
  <2> QED BY <1>4, <2>1, <2>2, FailExportTodo
     DEF PutRefused, TInv, TypeOK, WorkersTyped, StoresTyped
<1>5. CASE PublishSuccess(k)
  <2>1. [copy[k] EXCEPT !.refs = copy[k].output] \in Lab
    BY <1>0, FieldsTyped
  <2>2. TypeOK'
    BY <1>0, <1>5, <2>1, PublishTyped DEF PublishSuccess
  <2> QED BY <1>5, <2>2, ReturnTodo DEF PublishSuccess, TInv
<1>6. CASE PublishFailure(k)
  <2>1. [copy[k] EXCEPT !.refs = NoOutput] \in Lab
    BY <1>0, FieldsTyped, NoOutputFacts
  <2>2. TypeOK'
    BY <1>0, <1>6, <2>1, PublishTyped DEF PublishFailure
  <2> QED BY <1>6, <2>2, ReturnTodo DEF PublishFailure, TInv
<1>7. ASSUME NEW n \in Names, DeleteListed(k, n) PROVE TInv'
  <2>1. WorkersTyped'
    BY <1>0, <1>7 DEF DeleteListed, TypeOK, WorkersTyped
  <2>2. StoresTyped'
    BY <1>0, <1>7 DEF DeleteListed, TypeOK, StoresTyped, cacheVars
  <2> QED BY <1>7, <2>1, <2>2, SameTodo DEF DeleteListed, TInv, TypeOK, WorkersTyped, StoresTyped
<1>8. CASE RemoveFinalizer(k)
  <2>1. Gone(copy[k]) \in Lab
    BY <1>0, LabFacts
  <2>2. TypeOK'
    BY <1>0, <1>8, <2>1, PublishTyped DEF RemoveFinalizer
  <2> QED BY <1>8, <2>2, ReturnTodo DEF RemoveFinalizer, TInv
<1> QED BY <1>1, <1>2, <1>3, <1>4, <1>5, <1>6, <1>7, <1>8 DEF Work

\* every change by a user,
LEMMA UsersKeepTInv ==
    ASSUME TInv, Users
    PROVE  TInv'
<1>0. TypeOK
  BY DEF TInv
<1>1. PICK l \in Labs : RecreateLab(l) \/ EditOutput(l) \/ DeleteLab(l)
  BY DEF Users
<1>2. lab[l] \in Lab /\ \A out \in Outputs[l] : out \in Output
  BY <1>0, OutputAssumption DEF TypeOK
<1>3. lab' \in [Labs -> Lab] /\ budget' \in Nat
  <2>1. CASE RecreateLab(l)
    <3>1. PICK out \in Outputs[l] : lab' = [lab EXCEPT ![l] = Created(lab[l].inc + 1, out)]
      BY <2>1 DEF RecreateLab
    <3>2. lab[l].inc + 1 \in Nat /\ out \in Output
      <4>1. lab[l] \in Lab /\ out \in Output
        BY <1>2
      <4>2. lab[l].inc \in Nat
        BY <4>1, FieldsTyped
      <4> QED BY <4>1, <4>2
    <3>3. Created(lab[l].inc + 1, out) \in Lab
      BY <3>2, LabFacts
    <3> QED BY <1>0, <2>1, <3>1, <3>3 DEF RecreateLab, TypeOK
  <2>2. CASE EditOutput(l)
    <3>1. PICK out \in Outputs[l] : lab' = [lab EXCEPT ![l].output = out]
      BY <2>2 DEF EditOutput
    <3>2. [lab[l] EXCEPT !.output = out] \in Lab
      BY <1>2, FieldsTyped
    <3>3. lab' = [lab EXCEPT ![l] = [lab[l] EXCEPT !.output = out]]
      BY <3>1
    <3> QED BY <1>0, <2>2, <3>2, <3>3, DisturbTyped DEF EditOutput, TypeOK
  <2>3. CASE DeleteLab(l)
    <3>1. Gone(lab[l]) \in Lab /\ [lab[l] EXCEPT !.life = "deleting"] \in Lab
      BY <1>2, FieldsTyped, LabFacts
    <3> QED BY <1>0, <2>3, <3>1, DisturbTyped DEF DeleteLab, TypeOK
  <2> QED BY <1>1, <2>1, <2>2, <2>3
<1>4. UNCHANGED <<map, cacheVars, lag, workerVars>>
  BY <1>1 DEF RecreateLab, EditOutput, DeleteLab
<1> QED BY <1>0, <1>3, <1>4, UpdateOnlyTyped, SameTodo DEF TInv, workerVars

\* every watch event,
LEMMA DeliveryKeepsTInv ==
    ASSUME TInv, Deliver
    PROVE  TInv'
<1>1. ASSUME NEW l \in Labs, DeliverLab(l) PROVE TInv'
  BY <1>1, SameTodo DEF DeliverLab, TInv, TypeOK, apiVars, workerVars
<1>2. ASSUME NEW n \in Names, DeliverMap(n) PROVE TInv'
  BY <1>2, SameTodo DEF DeliverMap, TInv, TypeOK, apiVars, workerVars
<1> QED BY <1>1, <1>2 DEF Deliver

\* a restart and a failed call,
LEMMA FaultsKeepTInv ==
    ASSUME TInv, Restart \/ \E k \in Kinds : CallFails(k)
    PROVE  TInv'
<1>0. TypeOK
  BY DEF TInv
<1>1. ASSUME NEW k \in Kinds, CallFails(k) PROVE TInv'
  <2>1. budget' \in Nat
    BY <1>0, <1>1, DisturbTyped DEF CallFails
  <2>2. StoresTyped'
    BY <1>0, <1>1, <2>1 DEF CallFails, TypeOK, StoresTyped, apiVars, cacheVars
  <2>3. (pc[k] = "put" /\ FailExport(k)) \/ Return(k)
    BY <1>1 DEF CallFails
  <2>4. WorkersTyped' /\ TodoNamed'
    BY <1>0, <2>3, FailExportTyped, FailExportTodo, ReturnTyped, ReturnTodo
  <2> QED BY <2>2, <2>4 DEF TInv, TypeOK, WorkersTyped, StoresTyped
<1>2. CASE Restart
  <2>1. StoresTyped'
    BY <1>0, <1>2, DisturbTyped DEF Restart, TypeOK, StoresTyped, apiVars
  <2>2. WorkersTyped'
    BY <1>0, <1>2, LabFacts DEF Restart, TypeOK, WorkersTyped, Steps
  <2>3. TodoNamed'
    BY <1>2 DEF Restart, TodoNamed
  <2> QED BY <2>1, <2>2, <2>3 DEF TInv, TypeOK, WorkersTyped, StoresTyped
<1> QED BY <1>1, <1>2

\* and a step in which nothing changes.
LEMMA StutterKeepsTInv ==
    ASSUME TInv, UNCHANGED vars
    PROVE  TInv'
BY DEF TInv, TypeOK, TodoNamed, vars, apiVars, cacheVars, workerVars

\* The strengthened type invariant is inductive.
LEMMA NextKeepsTInv ==
    ASSUME TInv, [Next]_vars
    PROVE  TInv'
BY TakeKeepsTInv, WorkKeepsTInv, UsersKeepTInv, DeliveryKeepsTInv, FaultsKeepTInv,
   StutterKeepsTInv
DEF Next

\* Every reachable state satisfies the strengthened type invariant, for any labs and names.
THEOREM TypeInvariance == Spec => []TInv
<1>1. TInv /\ [Next]_vars => TInv'
  BY NextKeepsTInv
<1> QED BY InitTInv, <1>1, PTL DEF Spec

\* Every variable keeps its type.
THEOREM TypeCorrect == Spec => []TypeOK
<1>1. TInv => TypeOK
  BY DEF TInv
<1> QED BY TypeInvariance, <1>1, PTL

(***************************************************************************)
(* What a step may do to a ConfigMap                                       *)
(***************************************************************************)

\* The write of a report: the ConfigMap is as it was read, or there was none.
Writes(k, r) == Create(k, r) \/ Update(k, r)

\* No other action changes a ConfigMap, except that cleanup deletes one it has listed.
LEMMA MapMoves ==
    ASSUME TInv, [Next]_vars
    PROVE  \/ map' = map
           \/ \E k \in Kinds, r \in Reports : Writes(k, r)
           \/ \E k \in Kinds, n \in Names : DeleteListed(k, n)
<1>1. ASSUME NEW k \in Kinds, Work(k)
      PROVE  \/ map' = map
             \/ \E r \in Reports : Writes(k, r)
             \/ \E n \in Names : DeleteListed(k, n)
  BY <1>1 DEF Work, Writes, Read, PutRefused, PublishSuccess, PublishFailure, RemoveFinalizer,
     apiVars
<1>2. ASSUME NEW k \in Kinds, NEW l \in Labs, Take(k, l) PROVE map' = map
  BY <1>2 DEF Take, AddFinalizer, RunEndsEarly, StartExport, StartCleanup, Enter, apiVars
<1>3. ASSUME NEW k \in Kinds, CallFails(k) PROVE map' = map
  BY <1>3 DEF CallFails, apiVars
<1>4. Deliver \/ Users \/ Restart \/ UNCHANGED vars => map' = map
  BY DEF Deliver, DeliverLab, DeliverMap, Users, RecreateLab, EditOutput, DeleteLab, Restart,
     vars, apiVars
<1> QED BY <1>1, <1>2, <1>3, <1>4 DEF Next

\* A write of a report changes one ConfigMap and leaves there every other key's
\* data and the other kind's label.
LEMMA WriteEffect ==
    ASSUME TInv, NEW k \in Kinds, NEW r \in Reports, Writes(k, r)
    PROVE  /\ Target(k, r) \in Names
           /\ \A n \in Names : n # Target(k, r) => map'[n] = map[n]
           /\ map'[Target(k, r)] \in Map
           /\ map'[Target(k, r)].label[k] = who[k]
           /\ map'[Target(k, r)].data[<<k, r>>] = who[k]
           /\ map[Target(k, r)] # NoMap =>
                /\ \A j \in Kinds : j # k =>
                     map'[Target(k, r)].label[j] = map[Target(k, r)].label[j]
                /\ \A key \in Keys : key # <<k, r>> =>
                     map'[Target(k, r)].data[key] = map[Target(k, r)].data[key]
           /\ map[Target(k, r)] = NoMap =>
                /\ \A j \in Kinds : j # k => map'[Target(k, r)].label[j] = Nobody
                /\ \A key \in Keys : key # <<k, r>> => map'[Target(k, r)].data[key] = Nobody
<1> DEFINE n == Target(k, r)
           base == IF map[n] = NoMap THEN Empty ELSE map[n]
<1>1. n \in Names /\ who[k] \in Labs
  BY TargetIsName, KindFacts DEF Writes, Create, Update, TInv, TypeOK
<1>2. map \in [Names -> Map \cup {NoMap}] /\ base \in Map
  BY <1>1, EmptyIsMap DEF TInv, TypeOK
<1>3. map' = [map EXCEPT ![n] = Merge(base, k, r, who[k])]
  BY DEF Writes, Create, Update
<1>4. /\ map'[n] = Merge(base, k, r, who[k])
      /\ \A m \in Names \ {n} : map'[m] = map[m]
  BY <1>1, <1>2, <1>3
<1> HIDE DEF n, base
<1>5. /\ Merge(base, k, r, who[k]) \in Map
      /\ Merge(base, k, r, who[k]).label = [base.label EXCEPT ![k] = who[k]]
      /\ Merge(base, k, r, who[k]).data = [base.data EXCEPT ![<<k, r>>] = who[k]]
  BY <1>1, <1>2, MergeIsMap
<1>6. base.label \in [Kinds -> Labs \cup {Nobody}] /\ base.data \in [Keys -> Labs \cup {Nobody}]
  BY <1>2 DEF Map
<1>7. <<k, r>> \in Keys
  BY DEF Keys
<1>8. /\ map'[n].label[k] = who[k] /\ map'[n].data[<<k, r>>] = who[k]
      /\ \A j \in Kinds : j # k => map'[n].label[j] = base.label[j]
      /\ \A key \in Keys : key # <<k, r>> => map'[n].data[key] = base.data[key]
  BY <1>4, <1>5, <1>6, <1>7
<1>9. CASE map[n] = NoMap
  <2>1. base = Empty
    BY <1>9 DEF base
  <2>2. /\ \A j \in Kinds : Empty.label[j] = Nobody
        /\ \A key \in Keys : Empty.data[key] = Nobody
    BY DEF Empty
  <2> QED BY <1>1, <1>4, <1>5, <1>8, <1>9, <2>1, <2>2 DEF n
<1>10. CASE map[n] # NoMap
  <2>1. base = map[n]
    BY <1>10 DEF base
  <2> QED BY <1>1, <1>4, <1>5, <1>8, <1>10, <2>1 DEF n
<1> QED BY <1>9, <1>10

\* The parts of WriteEffect one by one: a write leaves other ConfigMaps alone, ...
LEMMA WriteElsewhere ==
    ASSUME TInv, NEW k \in Kinds, NEW r \in Reports, Writes(k, r),
           NEW n \in Names, n # Target(k, r)
    PROVE  map'[n] = map[n]
BY WriteEffect, Zenon

\* ... the other kind's label, ...
LEMMA WriteKeepsLabel ==
    ASSUME TInv, NEW k \in Kinds, NEW r \in Reports, Writes(k, r), map[Target(k, r)] # NoMap,
           NEW j \in Kinds, j # k
    PROVE  map'[Target(k, r)].label[j] = map[Target(k, r)].label[j]
BY WriteEffect, Zenon

\* ... starts a new ConfigMap with nothing else in it, ...
LEMMA WriteAnew ==
    ASSUME TInv, NEW k \in Kinds, NEW r \in Reports, Writes(k, r), map[Target(k, r)] = NoMap
    PROVE  /\ \A j \in Kinds : j # k => map'[Target(k, r)].label[j] = Nobody
           /\ \A key \in Keys : key # <<k, r>> => map'[Target(k, r)].data[key] = Nobody
BY WriteEffect, Zenon

\* ... sets its own label and data, ...
LEMMA WriteMarks ==
    ASSUME TInv, NEW k \in Kinds, NEW r \in Reports, Writes(k, r)
    PROVE  /\ map'[Target(k, r)] \in Map
           /\ map'[Target(k, r)].label[k] = who[k]
           /\ map'[Target(k, r)].data[<<k, r>>] = who[k]
BY WriteEffect, Zenon

\* ... and keeps all other data.
LEMMA WriteKeepsData ==
    ASSUME TInv, NEW k \in Kinds, NEW r \in Reports, Writes(k, r), map[Target(k, r)] # NoMap,
           NEW key \in Keys, key # <<k, r>>
    PROVE  map'[Target(k, r)].data[key] = map[Target(k, r)].data[key]
BY WriteEffect, Zenon

\* The property NoLostReport: a write is made into what the ConfigMap holds now.
THEOREM NoReportLost == Spec => NoLostReport
<1> DEFINE Kept == \A n \in Names : (map[n] # NoMap /\ map'[n] # NoMap) =>
              \A key \in Keys : map[n].data[key] # Nobody => map'[n].data[key] # Nobody
<1>1. ASSUME TInv, [Next]_vars PROVE Kept
  <2>1. CASE map' = map
    BY <2>1
  <2>2. ASSUME NEW k \in Kinds, NEW r \in Reports, Writes(k, r) PROVE Kept
    <3>1. who[k] # Nobody
      BY <1>1, <2>2, KindFacts DEF Writes, Create, Update, TInv, TypeOK
    <3>2. ASSUME NEW n \in Names, map[n] # NoMap, map'[n] # NoMap, NEW key \in Keys,
                 map[n].data[key] # Nobody
          PROVE  map'[n].data[key] # Nobody
      <4>1. CASE n # Target(k, r)
        <5>1. map'[n] = map[n]
          BY <1>1, <2>2, <3>2, <4>1, WriteElsewhere
        <5> QED BY <3>2, <5>1
      <4>2. CASE n = Target(k, r) /\ key = <<k, r>>
        <5>1. map'[n].data[key] = who[k]
          BY <1>1, <2>2, <4>2, WriteMarks
        <5> QED BY <3>1, <5>1
      <4>3. CASE n = Target(k, r) /\ key # <<k, r>>
        <5>1. map'[n].data[key] = map[n].data[key]
          BY <1>1, <2>2, <3>2, <4>3, WriteKeepsData
        <5> QED BY <3>2, <5>1
      <4> QED BY <4>1, <4>2, <4>3
    <3> QED BY <3>2
  <2>3. ASSUME NEW k \in Kinds, NEW n \in Names, DeleteListed(k, n) PROVE Kept
    BY <1>1, <2>3 DEF DeleteListed, TInv, TypeOK
  <2> QED BY <1>1, <2>1, <2>2, <2>3, MapMoves
<1>2. TInv /\ [Next]_vars => [Kept]_vars
  BY <1>1
<1> QED BY TypeInvariance, <1>2, PTL DEF Spec, NoLostReport

(***************************************************************************)
(* The invariant                                                           *)
(***************************************************************************)

\* Lab l may be found in every ConfigMap its reports go to.
Uses(l, out) == \A r \in DOMAIN out : l \in UsersOf(out[r])

OutputsUsed ==
    /\ \A l \in Labs : Uses(l, lab[l].output) /\ Uses(l, LabRead[l].output)
    /\ \A k \in Kinds : pc[k] # "idle" => Uses(who[k], copy[k].output)

\* A label names a lab of its kind that may write to the ConfigMap.
Marks(m, n) ==
    m # NoMap => \A k \in Kinds : m.label[k] # Nobody =>
        m.label[k] \in LabsOf(k) /\ m.label[k] \in UsersOf(n)

MarksOK == \A n \in Names : Marks(map[n], n) /\ Marks(mapCache[n], n)

\* Versions of a lab, in the order in which the API server has them.
Age == [life \in {"absent", "new", "kept", "deleting"} |->
           CASE life = "new" -> 1 [] life = "kept" -> 2
             [] life = "deleting" -> 3 [] life = "absent" -> 4]
NotAfter(x, y) == x.inc < y.inc \/ (x.inc = y.inc /\ Age[x.life] <= Age[y.life])

\* A worker's copy is no newer than the cache, and the cache no newer than the lab.
Versions ==
    /\ \A l \in Labs : NotAfter(LabRead[l], lab[l])
    /\ \A k \in Kinds : pc[k] # "idle" => NotAfter(copy[k], LabRead[who[k]])

\* Reports are claimed by a reconcile that has read this incarnation of the lab.
StatusWasRead ==
    \A l \in Labs : lab[l].refs # NoOutput =>
        /\ LabRead[l].inc = lab[l].inc
        /\ \A k \in Kinds : pc[k] # "idle" /\ who[k] = l => copy[k].inc = lab[l].inc

NewIsBare == \A l \in Labs : lab[l].life = "new" => lab[l].refs = NoOutput

\* What a worker is at fits the lab it has read.
WorkFits ==
    \A k \in Kinds :
        /\ pc[k] \in {"read", "put"} => copy[k].life = "kept"
        /\ pc[k] = "delete" => copy[k].life = "deleting"
        /\ pc[k] # "delete" => doomed[k] = {}
        /\ \A n \in doomed[k] : who[k] \in UsersOf(n)

\* ConfigMap n holds report r of lab l.
Holds(n, l, r) ==
    /\ map[n] # NoMap
    /\ map[n].data[<<KindOf(l), r>>] = l
    /\ map[n].label[KindOf(l)] = l

\* What a run has written is there until it claims it.
WrittenHolds ==
    \A k \in Kinds : pc[k] \in {"read", "put"} =>
        \A r \in DOMAIN copy[k].output \ todo[k] :
            UsersOf(copy[k].output[r]) = {who[k]} => Holds(copy[k].output[r], who[k], r)

Inv ==
    /\ TInv /\ OutputsUsed /\ MarksOK /\ Versions /\ StatusWasRead /\ NewIsBare
    /\ WorkFits /\ WrittenHolds /\ ClaimedReportsHold

(***************************************************************************)
(* What a step may do to a lab, to a worker and to the caches              *)
(***************************************************************************)

\* The changes of a lab: by its worker, ...
Finalized(l) ==
    /\ \E k \in Kinds : pc[k] = "idle" /\ l \in LabsOf(k)
    /\ LabRead[l].life = "new" /\ LabRead[l] = lab[l]
    /\ lab'[l] = [lab[l] EXCEPT !.life = "kept"]
Cleared(l) == lab'[l] = [lab[l] EXCEPT !.refs = NoOutput]
Claimed(l) ==
    /\ \E k \in Kinds : pc[k] = "read" /\ who[k] = l /\ todo[k] = {} /\ copy[k] = lab[l]
    /\ lab'[l] = [lab[l] EXCEPT !.refs = lab[l].output]
Removed(l) ==
    /\ \E k \in Kinds : pc[k] = "delete" /\ who[k] = l /\ doomed[k] = {} /\ pc'[k] = "idle"
    /\ lab'[l] = Gone(lab[l])

\* ... and by users.
Recreated(l) ==
    lab[l].life = "absent" /\ \E out \in Outputs[l] : lab'[l] = Created(lab[l].inc + 1, out)
Edited(l) ==
    lab[l].life = "kept" /\ \E out \in Outputs[l] : lab'[l] = [lab[l] EXCEPT !.output = out]
Deleted(l) ==
    \/ lab[l].life = "new" /\ lab'[l] = Gone(lab[l])
    \/ lab[l].life = "kept" /\ lab'[l] = [lab[l] EXCEPT !.life = "deleting"]

LabMove(l) ==
    \/ Finalized(l) \/ Cleared(l) \/ Claimed(l) \/ Removed(l)
    \/ Recreated(l) \/ Edited(l) \/ Deleted(l)

\* What taking up a lab does to a lab.
LEMMA TakeMovesLab ==
    ASSUME TInv, NEW k \in Kinds, NEW j \in Labs, Take(k, j), NEW l \in Labs
    PROVE  lab'[l] = lab[l] \/ LabMove(l)
<1>0. lab \in [Labs -> Lab] /\ LabRead \in [Labs -> Lab]
  BY ReadTyped DEF TInv, TypeOK
<1>1. CASE AddFinalizer(k, j)
  <2>1. \/ lab'[l] = lab[l]
        \/ l = j /\ LabRead[l] = lab[l] /\ lab'[l] = [lab[l] EXCEPT !.life = "kept"]
    BY <1>0, <1>1 DEF AddFinalizer, UpdateLab
  <2>2. pc[k] = "idle" /\ j \in LabsOf(k) /\ LabRead[j].life = "new"
    BY <1>1 DEF AddFinalizer, Begin
  <2> QED BY <2>1, <2>2 DEF LabMove, Finalized
<1>2. CASE RunEndsEarly(k, j)
  <2>1. lab'[l] = lab[l] \/ (l = j /\ lab'[l] = [lab[l] EXCEPT !.refs = NoOutput])
    BY <1>0, <1>2 DEF RunEndsEarly, UpdateLab
  <2> QED BY <2>1 DEF LabMove, Cleared
<1>3. CASE StartExport(k, j) \/ StartCleanup(k, j)
  BY <1>3 DEF StartExport, StartCleanup, Enter, apiVars
<1> QED BY <1>1, <1>2, <1>3 DEF Take

\* What a step of a worker does to a lab.
LEMMA WorkMovesLab ==
    ASSUME TInv, NEW k \in Kinds, Work(k), NEW l \in Labs
    PROVE  lab'[l] = lab[l] \/ LabMove(l)
<1>0. lab \in [Labs -> Lab]
  BY DEF TInv, TypeOK
<1>1. CASE PublishSuccess(k)
  <2>1. \/ lab'[l] = lab[l]
        \/ l = who[k] /\ copy[k] = lab[l] /\ lab'[l] = [lab[l] EXCEPT !.refs = lab[l].output]
    BY <1>0, <1>1 DEF PublishSuccess, UpdateLab
  <2> QED BY <1>1, <2>1 DEF PublishSuccess, LabMove, Claimed
<1>2. CASE PublishFailure(k)
  <2>1. lab'[l] = lab[l] \/ (l = who[k] /\ lab'[l] = [lab[l] EXCEPT !.refs = NoOutput])
    BY <1>0, <1>2 DEF PublishFailure, UpdateLab
  <2> QED BY <2>1 DEF LabMove, Cleared
<1>3. CASE RemoveFinalizer(k)
  <2>1. lab'[l] = lab[l] \/ (l = who[k] /\ copy[k] = lab[l] /\ lab'[l] = Gone(lab[l]))
    BY <1>0, <1>3 DEF RemoveFinalizer, UpdateLab
  <2>2. pc'[k] = "idle"
    BY <1>3 DEF RemoveFinalizer, Return, TInv, TypeOK
  <2> QED BY <1>3, <2>1, <2>2 DEF RemoveFinalizer, LabMove, Removed
<1>4. ASSUME NEW r \in Reports, Read(k, r) \/ Create(k, r) \/ Update(k, r) \/ PutRefused(k, r)
      PROVE  lab' = lab
  BY <1>4 DEF Read, Create, Update, PutRefused, apiVars
<1>5. ASSUME NEW n \in Names, DeleteListed(k, n) PROVE lab' = lab
  BY <1>5 DEF DeleteListed
<1> QED BY <1>1, <1>2, <1>3, <1>4, <1>5 DEF Work

\* What a change by a user does to a lab.
LEMMA UsersMoveLab ==
    ASSUME TInv, NEW j \in Labs, RecreateLab(j) \/ EditOutput(j) \/ DeleteLab(j), NEW l \in Labs
    PROVE  lab'[l] = lab[l] \/ LabMove(l)
<1>0. lab \in [Labs -> Lab]
  BY DEF TInv, TypeOK
<1>1. CASE RecreateLab(j)
  BY <1>0, <1>1 DEF RecreateLab, LabMove, Recreated
<1>2. CASE EditOutput(j)
  BY <1>0, <1>2 DEF EditOutput, LabMove, Edited
<1>3. CASE DeleteLab(j)
  BY <1>0, <1>3 DEF DeleteLab, LabMove, Deleted
<1> QED BY <1>1, <1>2, <1>3

\* A step changes a lab in one of the seven ways or not at all.
LEMMA LabMoves ==
    ASSUME TInv, [Next]_vars, NEW l \in Labs
    PROVE  lab'[l] = lab[l] \/ LabMove(l)
<1>1. ASSUME NEW k \in Kinds, CallFails(k) PROVE lab' = lab
  BY <1>1 DEF CallFails, apiVars
<1>2. Deliver \/ Restart \/ UNCHANGED vars => lab' = lab
  BY DEF Deliver, DeliverLab, DeliverMap, Restart, vars, apiVars
<1> QED BY <1>1, <1>2, TakeMovesLab, WorkMovesLab, UsersMoveLab DEF Next, Users

\* The way of a worker.
Stays(k) ==
    /\ pc'[k] = pc[k] /\ who'[k] = who[k] /\ copy'[k] = copy[k]
    /\ todo'[k] = todo[k] /\ seen'[k] = seen[k] /\ doomed'[k] = doomed[k]
Idles(k) == pc'[k] = "idle" /\ doomed'[k] = {}
Enters(k, l) ==
    /\ pc[k] = "idle" /\ l \in LabsOf(k)
    /\ who'[k] = l /\ copy'[k] = LabRead[l]
    /\ UNCHANGED <<apiVars, cacheVars, lag>>
    /\ \/ /\ LabRead[l].life = "kept" /\ pc'[k] = "read"
          /\ todo'[k] = DOMAIN LabRead[l].output /\ doomed'[k] = {}
       \/ /\ LabRead[l].life = "deleting" /\ pc'[k] = "delete"
          /\ todo'[k] = {} /\ doomed'[k] = Listed(k, l)
GoesOn(k) == who'[k] = who[k] /\ copy'[k] = copy[k] /\ doomed'[k] = doomed[k]
Reads(k, r) ==
    /\ GoesOn(k) /\ pc[k] = "read" /\ Turn(k, r) /\ pc'[k] = "put"
    /\ todo'[k] = todo[k] /\ seen'[k] = MapRead[Target(k, r)]
    /\ UNCHANGED <<apiVars, cacheVars, lag>>
HasWritten(k, r) ==
    /\ GoesOn(k) /\ Writes(k, r) /\ pc[k] = "put" /\ Turn(k, r)
    /\ pc'[k] = "read" /\ todo'[k] = todo[k] \ {r}
Fails(k) ==
    GoesOn(k) /\ pc[k] = "put" /\ pc'[k] = "failed" /\ todo'[k] = {}
Strikes(k, n) ==
    /\ pc[k] = "delete" /\ pc'[k] = "delete" /\ n \in doomed[k]
    /\ who'[k] = who[k] /\ copy'[k] = copy[k] /\ todo'[k] = todo[k]
    /\ doomed'[k] = doomed[k] \ {n}
    /\ map' = [map EXCEPT ![n] = NoMap]

WorkerMove(k) ==
    \/ Idles(k) \/ (\E l \in Labs : Enters(k, l))
    \/ (\E r \in Reports : Reads(k, r) \/ HasWritten(k, r))
    \/ Fails(k) \/ (\E n \in Names : Strikes(k, n))

\* What taking up a lab does to each worker.
LEMMA TakeMovesWorker ==
    ASSUME TInv, NEW j \in Kinds, NEW l \in Labs, Take(j, l), NEW k \in Kinds
    PROVE  Stays(k) \/ WorkerMove(k)
<1>0. WorkersTyped
  BY TypeParts DEF TInv
<1>1. AddFinalizer(j, l) \/ RunEndsEarly(j, l) => Stays(k)
  BY DEF AddFinalizer, RunEndsEarly, workerVars, Stays
<1>2. ASSUME NEW step, NEW reports, NEW names, Enter(j, l, step, reports, names)
      PROVE  /\ k # j => Stays(k)
             /\ pc'[j] = step /\ who'[j] = l /\ copy'[j] = LabRead[l]
             /\ todo'[j] = reports /\ doomed'[j] = names
             /\ UNCHANGED <<apiVars, cacheVars, lag>>
  BY <1>0, <1>2 DEF Enter, WorkersTyped, Stays
<1>3. CASE StartExport(j, l)
  <2>1. /\ pc[j] = "idle" /\ l \in LabsOf(j) /\ LabRead[l].life = "kept"
        /\ Enter(j, l, "read", DOMAIN LabRead[l].output, {})
    BY <1>3 DEF StartExport, Begin
  <2>2. (k # j => Stays(k)) /\ Enters(j, l)
    BY <1>2, <2>1 DEF Enters
  <2> QED BY <2>2 DEF WorkerMove
<1>4. CASE StartCleanup(j, l)
  <2>1. /\ pc[j] = "idle" /\ l \in LabsOf(j) /\ LabRead[l].life = "deleting"
        /\ Enter(j, l, "delete", {}, Listed(j, l))
    BY <1>4 DEF StartCleanup, Begin
  <2>2. (k # j => Stays(k)) /\ Enters(j, l)
    BY <1>2, <2>1 DEF Enters
  <2> QED BY <2>2 DEF WorkerMove
<1> QED BY <1>1, <1>3, <1>4 DEF Take

\* What a step of a worker or a failed call does to each worker.
LEMMA WorkMovesWorker ==
    ASSUME TInv, NEW j \in Kinds, Work(j) \/ CallFails(j), NEW k \in Kinds
    PROVE  Stays(k) \/ WorkerMove(k)
<1>0. WorkersTyped
  BY TypeParts DEF TInv
<1>1. ASSUME Return(j) PROVE (k # j => Stays(k)) /\ Idles(j)
  BY <1>0, <1>1 DEF Return, WorkersTyped, Stays, Idles
<1>2. ASSUME pc[j] = "put", FailExport(j) PROVE (k # j => Stays(k)) /\ Fails(j)
  BY <1>0, <1>2 DEF FailExport, WorkersTyped, Stays, Fails, GoesOn
<1>3. ASSUME NEW r \in Reports, Read(j, r) PROVE (k # j => Stays(k)) /\ Reads(j, r)
  BY <1>0, <1>3 DEF Read, WorkersTyped, Stays, Reads, GoesOn
<1>4. ASSUME NEW r \in Reports, Create(j, r) \/ Update(j, r)
      PROVE  (k # j => Stays(k)) /\ (HasWritten(j, r) \/ Fails(j))
  <2>1. pc[j] = "put" /\ Turn(j, r) /\ Accepted(j, r) /\ Writes(j, r)
    BY <1>4 DEF Create, Update, Writes
  <2>2. CASE Written(j, r)
    <3>1. (k # j => Stays(k)) /\ GoesOn(j) /\ pc'[j] = "read" /\ todo'[j] = todo[j] \ {r}
      BY <1>0, <2>1, <2>2 DEF Written, WorkersTyped, Stays, GoesOn
    <3> QED BY <2>1, <3>1 DEF HasWritten
  <2>3. CASE FailExport(j)
    BY <1>2, <2>1, <2>3
  <2> QED BY <2>1, <2>2, <2>3 DEF Accepted
<1>5. ASSUME NEW n \in Names, DeleteListed(j, n) PROVE (k # j => Stays(k)) /\ Strikes(j, n)
  BY <1>0, <1>5 DEF DeleteListed, WorkersTyped, Stays, Strikes
<1>6. CASE CallFails(j)
  BY <1>1, <1>2, <1>6 DEF CallFails, WorkerMove
<1>7. CASE Work(j)
  <2>1. PublishSuccess(j) \/ PublishFailure(j) \/ RemoveFinalizer(j) => Return(j)
    BY DEF PublishSuccess, PublishFailure, RemoveFinalizer
  <2>2. ASSUME NEW r \in Reports, PutRefused(j, r) PROVE pc[j] = "put" /\ FailExport(j)
    BY <2>2 DEF PutRefused
  <2> QED BY <1>1, <1>2, <1>3, <1>4, <1>5, <1>7, <2>1, <2>2 DEF Work, WorkerMove
<1> QED BY <1>6, <1>7

\* A step moves a worker in one of these ways or not at all.
LEMMA WorkerMoves ==
    ASSUME TInv, [Next]_vars, NEW k \in Kinds
    PROVE  Stays(k) \/ WorkerMove(k)
<1>1. Users \/ Deliver \/ UNCHANGED vars => Stays(k)
  BY DEF Users, RecreateLab, EditOutput, DeleteLab, Deliver, DeliverLab, DeliverMap, vars,
     workerVars, Stays
<1>2. Restart => Idles(k)
  BY DEF Restart, Idles
<1> QED BY <1>1, <1>2, TakeMovesWorker, WorkMovesWorker DEF Next, WorkerMove

\* A busy worker keeps the lab it has taken up and the copy it has read.
LEMMA WorkerKeeps ==
    ASSUME TInv, [Next]_vars, NEW k \in Kinds, pc'[k] # "idle"
    PROVE  \/ pc[k] # "idle" /\ who'[k] = who[k] /\ copy'[k] = copy[k]
           \/ \E l \in Labs : Enters(k, l)
BY WorkerMoves DEF Stays, WorkerMove, Idles, Reads, HasWritten, Fails, Strikes, GoesOn

\* The caches only take over what the API server has.
LEMMA CacheMoves ==
    ASSUME TInv, [Next]_vars
    PROVE  /\ lag' = lag
           /\ \A l \in Labs : LabRead'[l] = LabRead[l] \/ LabRead'[l] = lab'[l]
           /\ \A n \in Names : mapCache'[n] = mapCache[n] \/ mapCache'[n] = map[n]
<1>0. /\ labCache \in [Labs -> Lab] /\ mapCache \in [Names -> Map \cup {NoMap}]
      /\ lag \in BOOLEAN
  BY DEF TInv, TypeOK
<1>1. /\ lag' = lag
      /\ \A l \in Labs : labCache'[l] = labCache[l] \/ labCache'[l] = lab'[l]
      /\ \A n \in Names : mapCache'[n] = mapCache[n] \/ mapCache'[n] = map[n]
  <2>1. CASE UNCHANGED <<cacheVars, lag>>
    BY <2>1 DEF cacheVars
  <2>2. ASSUME NEW k \in Kinds, Work(k) \/ CallFails(k) PROVE UNCHANGED <<cacheVars, lag>>
    BY <2>2 DEF Work, CallFails, Read, Create, Update, PutRefused, PublishSuccess,
       PublishFailure, DeleteListed, RemoveFinalizer
  <2>3. ASSUME NEW k \in Kinds, NEW l \in Labs, Take(k, l) PROVE UNCHANGED <<cacheVars, lag>>
    BY <2>3 DEF Take, AddFinalizer, StartExport, RunEndsEarly, StartCleanup, Enter
  <2>4. Users \/ UNCHANGED vars => UNCHANGED <<cacheVars, lag>>
    BY DEF Users, RecreateLab, EditOutput, DeleteLab, vars
  <2>5. ASSUME NEW l \in Labs, DeliverLab(l)
        PROVE  /\ lag' = lag /\ mapCache' = mapCache /\ lab' = lab
               /\ labCache' = [labCache EXCEPT ![l] = lab[l]]
    BY <2>5 DEF DeliverLab, apiVars
  <2>6. ASSUME NEW n \in Names, DeliverMap(n)
        PROVE  /\ lag' = lag /\ labCache' = labCache
               /\ mapCache' = [mapCache EXCEPT ![n] = map[n]]
    BY <2>6 DEF DeliverMap
  <2>7. CASE Deliver
    BY <1>0, <2>5, <2>6, <2>7 DEF Deliver
  <2>8. CASE Restart
    BY <2>8 DEF Restart, apiVars
  <2> QED BY <2>1, <2>2, <2>3, <2>4, <2>7, <2>8 DEF Next
<1>2. lag' = TRUE => LabRead = labCache /\ LabRead' = labCache'
  BY <1>0, <1>1 DEF LabRead
<1>3. lag' = FALSE => LabRead' = lab'
  BY <1>0, <1>1 DEF LabRead
<1> QED BY <1>0, <1>1, <1>2, <1>3

(***************************************************************************)
(* Every step keeps the invariant                                          *)
(***************************************************************************)

\* UsersOf says who may name a ConfigMap.
LEMMA UsesOutputs ==
    ASSUME NEW l \in Labs
    PROVE  Uses(l, NoOutput) /\ \A out \in Outputs[l] : Uses(l, out)
<1>1. Uses(l, NoOutput)
  BY NoOutputFacts DEF Uses
<1>2. ASSUME NEW out \in Outputs[l], NEW r \in DOMAIN out PROVE l \in UsersOf(out[r])
  BY <1>2 DEF UsersOf
<1> QED BY <1>1, <1>2 DEF Uses

\* Labs, caches and copies name only what specs may name.
LEMMA OutputsUsedKept ==
    ASSUME TInv, OutputsUsed, [Next]_vars
    PROVE  OutputsUsed'
<1>1. ASSUME NEW l \in Labs PROVE Uses(l, lab'[l].output)
  <2>1. lab[l] \in Lab
    BY DEF TInv, TypeOK
  <2>2. \/ lab'[l].output = lab[l].output \/ lab'[l].output = NoOutput
        \/ lab'[l].output \in Outputs[l]
    <3>1. CASE Recreated(l) \/ Edited(l)
      <4>1. PICK out \in Outputs[l] :
              \/ lab'[l] = Created(lab[l].inc + 1, out)
              \/ lab'[l] = [lab[l] EXCEPT !.output = out]
        BY <3>1 DEF Recreated, Edited
      <4>2. lab'[l].output = out
        BY <2>1, <4>1 DEF Created, Lab
      <4> QED BY <4>2
    <3>2. CASE Finalized(l) \/ Cleared(l) \/ Claimed(l) \/ Removed(l) \/ Deleted(l)
      BY <2>1, <3>2 DEF Finalized, Cleared, Claimed, Removed, Deleted, Gone, Unborn, Lab
    <3> QED BY <3>1, <3>2, LabMoves DEF LabMove
  <2> QED BY <2>2, UsesOutputs DEF OutputsUsed
<1>2. ASSUME NEW l \in Labs PROVE Uses(l, LabRead'[l].output)
  BY <1>1, CacheMoves DEF OutputsUsed
<1>3. ASSUME NEW k \in Kinds, pc'[k] # "idle" PROVE Uses(who'[k], copy'[k].output)
  <2>1. CASE pc[k] # "idle" /\ who'[k] = who[k] /\ copy'[k] = copy[k]
    BY <2>1 DEF OutputsUsed
  <2>2. ASSUME NEW l \in Labs, Enters(k, l) PROVE Uses(who'[k], copy'[k].output)
    BY <2>2 DEF OutputsUsed, Enters
  <2> QED BY <1>3, <2>1, <2>2, WorkerKeeps
<1> QED BY <1>1, <1>2, <1>3 DEF OutputsUsed

\* The lab whose report is written may be found in the ConfigMap.
LEMMA WriterIsUser ==
    ASSUME TInv, OutputsUsed, NEW k \in Kinds, NEW r \in Reports, Writes(k, r)
    PROVE  /\ who[k] \in LabsOf(k) /\ who[k] \in Labs
           /\ who[k] \in UsersOf(Target(k, r))
           /\ pc[k] = "put"
<1>1. pc[k] = "put" /\ Turn(k, r)
  BY DEF Writes, Create, Update
<1>2. Uses(who[k], copy[k].output) /\ r \in DOMAIN copy[k].output
  BY <1>1 DEF OutputsUsed, TInv, TodoNamed, Turn
<1>3. who[k] \in LabsOf(k) /\ who[k] \in Labs
  BY <1>1, KindFacts DEF TInv, TypeOK
<1> QED BY <1>1, <1>2, <1>3 DEF Uses, Target

\* Labels name labs that may write there.
LEMMA MarksKept ==
    ASSUME TInv, OutputsUsed, MarksOK, [Next]_vars
    PROVE  MarksOK'
<1>1. ASSUME NEW n \in Names PROVE Marks(map'[n], n)
  <2>1. CASE map' = map
    BY <2>1 DEF MarksOK
  <2>2. ASSUME NEW k \in Kinds, NEW r \in Reports, Writes(k, r) PROVE Marks(map'[n], n)
    <3>1. CASE n # Target(k, r)
      <4>1. map'[n] = map[n]
        BY <2>2, <3>1, WriteElsewhere
      <4> QED BY <4>1 DEF MarksOK
    <3>2. CASE n = Target(k, r)
      <4>1. map'[n].label[k] = who[k]
        BY <2>2, <3>2, WriteMarks
      <4>2. ASSUME NEW j \in Kinds, j # k
            PROVE  \/ map[n] # NoMap /\ map'[n].label[j] = map[n].label[j]
                   \/ map'[n].label[j] = Nobody
        BY <2>2, <3>2, <4>2, WriteKeepsLabel, WriteAnew
      <4>3. who[k] \in LabsOf(k) /\ who[k] \in UsersOf(n)
        BY <2>2, <3>2, WriterIsUser
      <4>4. Marks(map[n], n)
        BY DEF MarksOK
      <4> QED BY <4>1, <4>2, <4>3, <4>4 DEF Marks
    <3> QED BY <3>1, <3>2
  <2>3. ASSUME NEW k \in Kinds, NEW m \in Names, DeleteListed(k, m) PROVE Marks(map'[n], n)
    <3>1. map'[n] = map[n] \/ map'[n] = NoMap
      BY <2>3 DEF DeleteListed, TInv, TypeOK
    <3> QED BY <3>1 DEF MarksOK, Marks
  <2> QED BY <2>1, <2>2, <2>3, MapMoves
<1>2. ASSUME NEW n \in Names PROVE Marks(mapCache'[n], n)
  BY CacheMoves DEF MarksOK
<1> QED BY <1>1, <1>2 DEF MarksOK

\* The order of versions is reflexive and transitive.
LEMMA NotAfterOrder ==
    ASSUME NEW x \in Lab, NEW y \in Lab, NEW z \in Lab
    PROVE  /\ NotAfter(x, x)
           /\ NotAfter(x, y) /\ NotAfter(y, z) => NotAfter(x, z)
<1>1. /\ x.inc \in Nat /\ y.inc \in Nat /\ z.inc \in Nat
      /\ x.life \in {"absent", "new", "kept", "deleting"}
      /\ y.life \in {"absent", "new", "kept", "deleting"}
      /\ z.life \in {"absent", "new", "kept", "deleting"}
  BY DEF Lab
<1>2. \A life \in {"absent", "new", "kept", "deleting"} : Age[life] \in Nat
  BY DEF Age
<1>3. Age[x.life] \in Nat /\ Age[y.life] \in Nat /\ Age[z.life] \in Nat
  BY <1>1, <1>2
<1> QED BY <1>1, <1>3 DEF NotAfter

\* Every step takes every lab to a version that is not older.
LEMMA LabAges ==
    ASSUME TInv, [Next]_vars, NEW l \in Labs
    PROVE  NotAfter(lab[l], lab'[l])
<1>1. lab[l] \in Lab
  BY DEF TInv, TypeOK
<1>2. /\ Age["new"] = 1 /\ Age["kept"] = 2 /\ Age["deleting"] = 3 /\ Age["absent"] = 4
  BY DEF Age
<1>3. lab[l].inc \in Nat /\ lab[l].life \in {"absent", "new", "kept", "deleting"}
  BY <1>1 DEF Lab
<1>4. CASE lab'[l].inc = lab[l].inc /\ lab'[l].life = lab[l].life
  BY <1>2, <1>3, <1>4 DEF NotAfter
<1>5. CASE Recreated(l)
  <2>1. lab'[l].inc = lab[l].inc + 1
    BY <1>5 DEF Recreated, Created
  <2> QED BY <1>3, <2>1 DEF NotAfter
<1>6. CASE Finalized(l) \/ Removed(l) \/ Deleted(l)
  <2>1. /\ lab'[l].inc = lab[l].inc
        /\ \/ lab[l].life = "new" /\ lab'[l].life = "kept"
           \/ lab[l].life = "kept" /\ lab'[l].life = "deleting"
           \/ lab'[l].life = "absent"
    BY <1>1, <1>6 DEF Finalized, Removed, Deleted, Gone, Unborn, Lab
  <2> QED BY <1>2, <1>3, <2>1 DEF NotAfter
<1>7. Cleared(l) \/ Claimed(l) \/ Edited(l) =>
        lab'[l].inc = lab[l].inc /\ lab'[l].life = lab[l].life
  BY <1>1 DEF Cleared, Claimed, Edited, Lab
<1> QED BY <1>4, <1>5, <1>6, <1>7, LabMoves DEF LabMove

\* Copies stay behind caches, and caches behind labs.
LEMMA VersionsKept ==
    ASSUME TInv, TInv', Versions, [Next]_vars
    PROVE  Versions'
<1>0. /\ lab \in [Labs -> Lab] /\ lab' \in [Labs -> Lab]
      /\ LabRead \in [Labs -> Lab] /\ LabRead' \in [Labs -> Lab]
  BY ReadTyped, CacheMoves DEF TInv, TypeOK, LabRead
<1>1. ASSUME NEW l \in Labs
      PROVE  /\ NotAfter(LabRead'[l], lab'[l]) /\ NotAfter(LabRead[l], LabRead'[l])
  <2>1. NotAfter(LabRead[l], lab[l]) /\ NotAfter(lab[l], lab'[l])
    BY LabAges DEF Versions
  <2>2. NotAfter(LabRead[l], lab'[l])
    BY <1>0, <2>1, NotAfterOrder
  <2> QED BY <1>0, <2>2, CacheMoves, NotAfterOrder
<1>2. ASSUME NEW k \in Kinds, pc'[k] # "idle" PROVE NotAfter(copy'[k], LabRead'[who'[k]])
  <2>1. CASE pc[k] # "idle" /\ who'[k] = who[k] /\ copy'[k] = copy[k]
    <3>1. who[k] \in Labs /\ copy[k] \in Lab
      BY <2>1, KindFacts DEF TInv, TypeOK
    <3>2. NotAfter(copy[k], LabRead[who[k]]) /\ NotAfter(LabRead[who[k]], LabRead'[who[k]])
      BY <1>1, <2>1, <3>1 DEF Versions
    <3> QED BY <1>0, <2>1, <3>1, <3>2, NotAfterOrder
  <2>2. ASSUME NEW l \in Labs, Enters(k, l) PROVE NotAfter(copy'[k], LabRead'[who'[k]])
    BY <1>1, <2>2 DEF Enters
  <2> QED BY <1>2, <2>1, <2>2, WorkerKeeps
<1> QED BY <1>1, <1>2 DEF Versions

\* A lab without finalizer claims no report.
LEMMA NewIsBareKept ==
    ASSUME TInv, NewIsBare, WorkFits, [Next]_vars
    PROVE  NewIsBare'
<1>1. ASSUME NEW l \in Labs, lab'[l].life = "new" PROVE lab'[l].refs = NoOutput
  <2>1. lab[l] \in Lab
    BY DEF TInv, TypeOK
  <2>2. CASE Recreated(l)
    BY <2>2 DEF Recreated, Created
  <2>3. CASE Finalized(l) \/ Removed(l) \/ Deleted(l) \/ Edited(l)
    BY <1>1, <2>1, <2>3 DEF Finalized, Removed, Deleted, Edited, Gone, Unborn, Lab
  <2>4. CASE Cleared(l)
    BY <2>1, <2>4 DEF Cleared, Lab
  <2>5. CASE Claimed(l)
    <3>1. lab[l].life = "kept"
      BY <2>5 DEF Claimed, WorkFits
    <3> QED BY <1>1, <2>1, <2>5, <3>1 DEF Claimed, Lab
  <2> QED BY <1>1, <2>2, <2>3, <2>4, <2>5, LabMoves DEF LabMove, NewIsBare
<1> QED BY <1>1 DEF NewIsBare

\* How a status can come to name reports.
LEMMA RefsMove ==
    ASSUME TInv, [Next]_vars, NEW l \in Labs, lab'[l].refs # NoOutput
    PROVE  /\ lab'[l].inc = lab[l].inc
           /\ Claimed(l) \/ lab'[l].refs = lab[l].refs
           /\ lab'[l].life = "kept" => lab[l].life = "kept" \/ (Finalized(l) /\ lab[l].life = "new")
<1>1. lab[l] \in Lab
  BY DEF TInv, TypeOK
<1>2. ASSUME Recreated(l) PROVE FALSE
  <2>1. PICK out \in Outputs[l] : lab'[l] = Created(lab[l].inc + 1, out)
    BY <1>2 DEF Recreated
  <2> QED BY <2>1 DEF Created
<1>3. ~Cleared(l)
  BY <1>1 DEF Cleared, Lab
<1>4. ~Removed(l)
  BY DEF Removed, Gone, Unborn
<1>5. CASE Claimed(l)
  BY <1>1, <1>5 DEF Claimed, Lab
<1>6. CASE Finalized(l)
  BY <1>1, <1>6 DEF Finalized, Lab
<1>7. CASE Edited(l)
  BY <1>1, <1>7 DEF Edited, Lab
<1>8. CASE Deleted(l)
  BY <1>1, <1>8 DEF Deleted, Gone, Unborn, Lab
<1> QED BY <1>2, <1>3, <1>4, <1>5, <1>6, <1>7, <1>8, LabMoves DEF LabMove

\* A lab has one worker.
LEMMA OneWorker ==
    ASSUME TInv, NEW k \in Kinds, pc[k] # "idle"
    PROVE  /\ who[k] \in Labs /\ who[k] \in LabsOf(k) /\ KindOf(who[k]) = k
           /\ \A j \in Kinds : who[k] \in LabsOf(j) => j = k
BY KindFacts DEF TInv, TypeOK, LabsOf, KindOf, Kinds

\* Whoever claims a report has read this incarnation.
LEMMA StatusWasReadKept ==
    ASSUME TInv, TInv', Versions, StatusWasRead, [Next]_vars
    PROVE  StatusWasRead'
<1> SUFFICES ASSUME NEW l \in Labs, lab'[l].refs # NoOutput
             PROVE  /\ LabRead'[l].inc = lab'[l].inc
                    /\ \A k \in Kinds : pc'[k] # "idle" /\ who'[k] = l =>
                          copy'[k].inc = lab'[l].inc
  BY DEF StatusWasRead
<1>1. lab'[l].inc = lab[l].inc
  BY RefsMove
<1>2. /\ LabRead[l].inc = lab[l].inc
      /\ \A k \in Kinds : pc[k] # "idle" /\ who[k] = l => copy[k].inc = lab[l].inc
  <2>1. CASE lab[l].refs # NoOutput
    BY <2>1 DEF StatusWasRead
  <2>2. CASE Claimed(l)
    <3>1. PICK k \in Kinds : pc[k] = "read" /\ who[k] = l /\ copy[k] = lab[l]
      BY <2>2 DEF Claimed
    <3>2. NotAfter(lab[l], LabRead[l]) /\ NotAfter(LabRead[l], lab[l])
      BY <3>1 DEF Versions
    <3>3. lab[l].inc \in Nat /\ LabRead[l].inc \in Nat
      BY ReadTyped, FieldsTyped DEF TInv, TypeOK
    <3>4. LabRead[l].inc = lab[l].inc
      BY <3>2, <3>3 DEF NotAfter
    <3>5. ASSUME NEW j \in Kinds, pc[j] # "idle", who[j] = l PROVE j = k
      BY <3>1, <3>5, OneWorker
    <3> QED BY <3>1, <3>4, <3>5
  <2> QED BY <2>1, <2>2, RefsMove
<1>3. LabRead'[l].inc = lab'[l].inc
  BY <1>1, <1>2, CacheMoves
<1>4. ASSUME NEW k \in Kinds, pc'[k] # "idle", who'[k] = l PROVE copy'[k].inc = lab'[l].inc
  <2>1. ASSUME NEW j \in Labs, Enters(k, j) PROVE copy'[k].inc = lab'[l].inc
    BY <1>1, <1>2, <1>4, <2>1 DEF Enters
  <2> QED BY <1>1, <1>2, <1>4, <2>1, WorkerKeeps
<1> QED BY <1>3, <1>4

\* Cleanup lists only ConfigMaps of the lab, however old the list.
LEMMA ListedAreUsed ==
    ASSUME TInv, MarksOK, NEW k \in Kinds, NEW l \in LabsOf(k), NEW n \in Listed(k, l)
    PROVE  l \in UsersOf(n)
<1>1. n \in Names /\ MapRead[n] # NoMap /\ MapRead[n].label[k] = l
  BY DEF Listed
<1>2. Marks(MapRead[n], n)
  BY <1>1 DEF MarksOK, MapRead
<1> QED BY <1>1, <1>2, KindFacts DEF Marks

\* Only labs that are kept are exported, only deleted ones cleaned up.
LEMMA WorkFitsKept ==
    ASSUME TInv, MarksOK, WorkFits, [Next]_vars
    PROVE  WorkFits'
<1> SUFFICES ASSUME NEW k \in Kinds
             PROVE  /\ pc'[k] \in {"read", "put"} => copy'[k].life = "kept"
                    /\ pc'[k] = "delete" => copy'[k].life = "deleting"
                    /\ pc'[k] # "delete" => doomed'[k] = {}
                    /\ \A n \in doomed'[k] : who'[k] \in UsersOf(n)
  BY DEF WorkFits
<1>1. /\ pc[k] \in {"read", "put"} => copy[k].life = "kept"
      /\ pc[k] = "delete" => copy[k].life = "deleting"
      /\ pc[k] # "delete" => doomed[k] = {}
      /\ \A n \in doomed[k] : who[k] \in UsersOf(n)
  BY DEF WorkFits
<1>2. CASE Stays(k)
  BY <1>1, <1>2 DEF Stays
<1>3. CASE Idles(k)
  BY <1>3 DEF Idles
<1>4. ASSUME NEW l \in Labs, Enters(k, l)
      PROVE  /\ pc'[k] \in {"read", "put"} => copy'[k].life = "kept"
             /\ pc'[k] = "delete" => copy'[k].life = "deleting"
             /\ pc'[k] # "delete" => doomed'[k] = {}
             /\ \A n \in doomed'[k] : who'[k] \in UsersOf(n)
  BY <1>4, ListedAreUsed DEF Enters
<1>5. ASSUME NEW r \in Reports, Reads(k, r) \/ HasWritten(k, r)
      PROVE  /\ pc'[k] \in {"read", "put"} /\ pc[k] \in {"read", "put"} /\ GoesOn(k)
  BY <1>5 DEF Reads, HasWritten
<1>6. CASE Fails(k)
  BY <1>1, <1>6 DEF Fails, GoesOn
<1>7. ASSUME NEW n \in Names, Strikes(k, n)
      PROVE  /\ pc'[k] = "delete" /\ pc[k] = "delete" /\ doomed'[k] \subseteq doomed[k]
             /\ who'[k] = who[k] /\ copy'[k] = copy[k]
  BY <1>7 DEF Strikes
<1>8. CASE \E r \in Reports : Reads(k, r) \/ HasWritten(k, r)
  BY <1>1, <1>5, <1>8 DEF GoesOn
<1>9. CASE \E n \in Names : Strikes(k, n)
  BY <1>1, <1>7, <1>9
<1> QED BY <1>2, <1>3, <1>4, <1>6, <1>8, <1>9, WorkerMoves DEF WorkerMove

HoldsNext(n, l, r) ==
    /\ map'[n] # NoMap
    /\ map'[n].data[<<KindOf(l), r>>] = l
    /\ map'[n].label[KindOf(l)] = l

\* A report of the only lab that names a ConfigMap stays there while no cleanup of that
\* lab is under way.
LEMMA HoldsKept ==
    ASSUME TInv, OutputsUsed, WorkFits, [Next]_vars,
           NEW l \in Labs, NEW n \in Names, NEW r \in Reports,
           UsersOf(n) = {l}, Holds(n, l, r),
           pc[KindOf(l)] = "delete" => who[KindOf(l)] # l
    PROVE  HoldsNext(n, l, r)
<1>1. map'[n] = map[n] => HoldsNext(n, l, r)
  BY DEF Holds, HoldsNext
<1>2. ASSUME NEW k \in Kinds, NEW s \in Reports, Writes(k, s), n = Target(k, s)
      PROVE  HoldsNext(n, l, r)
  <2>1. who[k] = l /\ k = KindOf(l)
    BY <1>2, WriterIsUser, OneWorker
  <2>2. map'[n] \in Map /\ map'[n].label[k] = who[k]
    BY <1>2, WriteMarks
  <2>3. map'[n].data[<<k, r>>] = l
    <3>1. CASE r = s
      <4>1. map'[n].data[<<k, s>>] = who[k]
        BY <1>2, WriteMarks
      <4> QED BY <2>1, <3>1, <4>1
    <3>2. CASE r # s
      <4>1. map[n] # NoMap /\ map[n].data[<<k, r>>] = l
        BY <2>1 DEF Holds
      <4>2. <<k, r>> \in Keys /\ <<k, r>> # <<k, s>>
        BY <3>2 DEF Keys
      <4>3. map[Target(k, s)] # NoMap
        BY <1>2, <4>1
      <4>4. map'[Target(k, s)].data[<<k, r>>] = map[Target(k, s)].data[<<k, r>>]
        BY <1>2, <4>2, <4>3, WriteKeepsData
      <4> QED BY <1>2, <4>1, <4>4
    <3> QED BY <3>1, <3>2
  <2> QED BY <2>1, <2>2, <2>3, AbsenceAssumption DEF HoldsNext
<1>3. ASSUME NEW k \in Kinds, NEW s \in Reports, Writes(k, s), n # Target(k, s)
      PROVE  map'[n] = map[n]
  BY <1>3, WriteElsewhere
<1>4. ASSUME NEW k \in Kinds, NEW m \in Names, DeleteListed(k, m) PROVE map'[n] = map[n]
  <2>1. m # n
    <3>1. SUFFICES ASSUME m = n PROVE FALSE
      OBVIOUS
    <3>2. pc[k] = "delete" /\ who[k] \in UsersOf(n)
      BY <1>4, <3>1 DEF DeleteListed, WorkFits
    <3>3. who[k] = l /\ k = KindOf(l)
      BY <3>2, OneWorker
    <3> QED BY <3>2, <3>3
  <2> QED BY <1>4, <2>1 DEF DeleteListed, TInv, TypeOK
<1> QED BY <1>1, <1>2, <1>3, <1>4, MapMoves

\* What a run has written stays until its end.
LEMMA WrittenHoldsKept ==
    ASSUME TInv, OutputsUsed, WorkFits, WrittenHolds, [Next]_vars
    PROVE  WrittenHolds'
<1> SUFFICES ASSUME NEW k \in Kinds, pc'[k] \in {"read", "put"},
                    NEW r \in DOMAIN copy'[k].output \ todo'[k],
                    UsersOf(copy'[k].output[r]) = {who'[k]}
             PROVE  HoldsNext(copy'[k].output[r], who'[k], r)
  BY DEF WrittenHolds, Holds, HoldsNext
<1>0. pc[k] # "idle" => copy[k].output \in Output
  BY FieldsTyped DEF TInv, TypeOK
<1>1. ASSUME pc[k] \in {"read", "put"}, who'[k] = who[k], copy'[k] = copy[k], r \notin todo[k]
      PROVE  HoldsNext(copy'[k].output[r], who'[k], r)
  <2>1. who[k] \in Labs /\ KindOf(who[k]) = k
    BY <1>1, OneWorker
  <2>2. r \in Reports /\ copy[k].output[r] \in Names
    BY <1>0, <1>1, OutputFacts
  <2>3. Holds(copy[k].output[r], who[k], r)
    BY <1>1 DEF WrittenHolds
  <2>4. pc[KindOf(who[k])] # "delete"
    BY <1>1, <2>1
  <2>5. HoldsNext(copy[k].output[r], who[k], r)
    BY <1>1, <2>1, <2>2, <2>3, <2>4, HoldsKept
  <2> QED BY <1>1, <2>5
<1>2. CASE Stays(k) \/ \E s \in Reports : Reads(k, s)
  BY <1>1, <1>2 DEF Stays, Reads, GoesOn
<1>3. ASSUME NEW s \in Reports, HasWritten(k, s) PROVE HoldsNext(copy'[k].output[r], who'[k], r)
  <2>1. /\ pc[k] = "put" /\ who'[k] = who[k] /\ copy'[k] = copy[k]
        /\ Writes(k, s) /\ todo'[k] = todo[k] \ {s}
    BY <1>3 DEF HasWritten, GoesOn
  <2>2. CASE r # s
    BY <1>1, <2>1, <2>2
  <2>3. CASE r = s
    <3>1. copy'[k].output[r] = Target(k, s) /\ KindOf(who[k]) = k
      BY <2>1, <2>3, OneWorker DEF Target
    <3>2. /\ map'[Target(k, s)] \in Map /\ map'[Target(k, s)].label[k] = who[k]
          /\ map'[Target(k, s)].data[<<k, s>>] = who[k]
      BY <2>1, WriteMarks
    <3> QED BY <2>1, <2>3, <3>1, <3>2, AbsenceAssumption DEF HoldsNext
  <2> QED BY <2>2, <2>3
<1>4. ASSUME NEW l \in Labs, Enters(k, l) PROVE FALSE
  BY <1>4 DEF Enters
<1>5. Idles(k) \/ Fails(k) \/ (\E n \in Names : Strikes(k, n)) => FALSE
  BY DEF Idles, Fails, Strikes
<1> QED BY <1>2, <1>3, <1>4, <1>5, WorkerMoves DEF WorkerMove

\* What a status claims stays true.
LEMMA ClaimsKept ==
    ASSUME TInv, OutputsUsed, Versions, StatusWasRead, NewIsBare, WorkFits, WrittenHolds,
           ClaimedReportsHold, [Next]_vars, TInv'
    PROVE  ClaimedReportsHold'
<1> SUFFICES ASSUME NEW l \in Labs, lab'[l].life = "kept", NEW r \in DOMAIN lab'[l].refs,
                    UsersOf(lab'[l].refs[r]) = {l}
             PROVE  HoldsNext(lab'[l].refs[r], l, r)
  BY DEF ClaimedReportsHold, HoldsNext
<1> DEFINE n == lab'[l].refs[r]
<1>0. lab[l] \in Lab /\ lab'[l] \in Lab /\ LabRead[l] \in Lab
  BY ReadTyped DEF TInv, TypeOK
<1>1. r \in Reports /\ n \in Names /\ lab'[l].refs # NoOutput
  BY <1>0, FieldsTyped, OutputFacts, NoOutputFacts
<1>2. ~Claimed(l) => lab[l].life = "kept" /\ lab'[l].refs = lab[l].refs
  <2>1. Claimed(l) \/ lab'[l].refs = lab[l].refs
    BY <1>1, RefsMove
  <2>2. lab[l].life = "kept" \/ lab[l].life = "new"
    BY <1>1, RefsMove
  <2>3. lab[l].life = "new" => lab[l].refs = NoOutput
    BY DEF NewIsBare
  <2> QED BY <1>1, <2>1, <2>2, <2>3
<1>3. CASE Claimed(l)
  <2>1. PICK k \in Kinds : pc[k] = "read" /\ who[k] = l /\ todo[k] = {} /\ copy[k] = lab[l]
    BY <1>3 DEF Claimed
  <2>2. lab'[l].refs = copy[k].output
    BY <1>0, <1>3, <2>1 DEF Claimed, Lab
  <2>3. Holds(n, l, r)
    BY <2>1, <2>2 DEF WrittenHolds
  <2>4. k = KindOf(l)
    BY <2>1, OneWorker
  <2> QED BY <1>1, <2>1, <2>3, <2>4, HoldsKept
<1>4. CASE ~Claimed(l)
  <2>1. Holds(n, l, r)
    BY <1>2, <1>4 DEF ClaimedReportsHold, Holds
  <2>2. ASSUME pc[KindOf(l)] = "delete", who[KindOf(l)] = l PROVE FALSE
    <3> DEFINE k == KindOf(l)
    <3>1. k \in Kinds
      BY KindFacts
    <3>2. copy[k].life = "deleting" /\ copy[k].inc = lab[l].inc /\ LabRead[l].inc = lab[l].inc
      BY <1>1, <1>2, <1>4, <2>2, <3>1 DEF WorkFits, StatusWasRead
    <3>3. NotAfter(copy[k], LabRead[l]) /\ NotAfter(LabRead[l], lab[l])
      BY <2>2, <3>1 DEF Versions
    <3>4. copy[k] \in Lab
      BY <3>1 DEF TInv, TypeOK
    <3>5. NotAfter(copy[k], lab[l])
      BY <1>0, <3>3, <3>4, NotAfterOrder
    <3>6. lab[l].inc \in Nat /\ Age["deleting"] = 3 /\ Age["kept"] = 2
      BY <1>0, FieldsTyped DEF Age
    <3> QED BY <1>2, <1>4, <3>2, <3>5, <3>6 DEF NotAfter
  <2> QED BY <1>1, <2>1, <2>2, HoldsKept
<1> QED BY <1>3, <1>4

\* The invariant holds at first.
LEMMA InitInv == Init => Inv
<1> SUFFICES ASSUME Init PROVE Inv
  OBVIOUS
<1>1. TInv
  BY InitTInv
<1>2. ASSUME NEW l \in Labs
      PROVE  /\ lab[l].output = NoOutput \/ lab[l].output \in Outputs[l]
             /\ lab[l].refs = NoOutput /\ lab[l].life \in {"absent", "new"}
  <2>1. PICK scenario \in Scenarios, out \in [Labs -> UNION {Outputs[j] : j \in Labs}] :
          /\ \A j \in Labs : out[j] \in Outputs[j]
          /\ lab = [j \in Labs |-> IF j \in scenario.labs THEN Created(1, out[j]) ELSE Unborn]
    BY DEF Init
  <2>2. lab[l] = Created(1, out[l]) \/ lab[l] = Unborn
    BY <2>1
  <2>3. out[l] \in Outputs[l]
    BY <2>1
  <2> QED BY <2>2, <2>3 DEF Created, Unborn
<1>3. LabRead = lab
  BY DEF Init, LabRead
<1>4. \A k \in Kinds : pc[k] = "idle" /\ doomed[k] = {}
  BY DEF Init
<1>5. OutputsUsed
  BY <1>2, <1>3, <1>4, UsesOutputs DEF OutputsUsed
<1>6. MarksOK
  BY DEF Init, MarksOK, Marks
<1>7. Versions
  BY <1>1, <1>3, <1>4, NotAfterOrder DEF Versions, TInv, TypeOK
<1>8. StatusWasRead /\ NewIsBare
  BY <1>2 DEF StatusWasRead, NewIsBare
<1>9. WorkFits /\ WrittenHolds
  BY <1>4 DEF WorkFits, WrittenHolds
<1>10. ClaimedReportsHold
  BY <1>2 DEF ClaimedReportsHold
<1> QED BY <1>1, <1>5, <1>6, <1>7, <1>8, <1>9, <1>10 DEF Inv

\* The invariant is inductive.
LEMMA NextKeepsInv ==
    ASSUME Inv, [Next]_vars
    PROVE  Inv'
<1>1. TInv /\ OutputsUsed /\ MarksOK /\ Versions /\ StatusWasRead /\ NewIsBare
  BY DEF Inv
<1>2. WorkFits /\ WrittenHolds /\ ClaimedReportsHold
  BY DEF Inv
<1>3. TInv'
  BY <1>1, NextKeepsTInv
<1>4. OutputsUsed' /\ MarksOK'
  BY <1>1, OutputsUsedKept, MarksKept
<1>5. Versions' /\ StatusWasRead'
  BY <1>1, <1>3, VersionsKept, StatusWasReadKept
<1>6. NewIsBare' /\ WorkFits'
  BY <1>1, <1>2, NewIsBareKept, WorkFitsKept
<1>7. WrittenHolds'
  BY <1>1, <1>2, WrittenHoldsKept
<1>8. ClaimedReportsHold'
  BY <1>1, <1>2, <1>3, ClaimsKept
<1> QED BY <1>3, <1>4, <1>5, <1>6, <1>7, <1>8 DEF Inv

\* Every reachable state satisfies the invariant, whether caches lag or not.
THEOREM Invariance == Spec => []Inv
<1>1. Inv /\ [Next]_vars => Inv'
  BY NextKeepsInv
<1> QED BY InitInv, <1>1, PTL DEF Spec

\* What the status of a lab claims of a ConfigMap it has to itself is true, for any
\* lag of the caches.
THEOREM ClaimsAreTrue == Spec => []ClaimedReportsHold
<1>1. Inv => ClaimedReportsHold
  BY DEF Inv
<1> QED BY Invariance, <1>1, PTL

(***************************************************************************)
(* Where caches do not lag                                                 *)
(***************************************************************************)

\* Where no report lacks the label of its kind, and no label a lab that will clean up.
Labelled ==
    \A n \in Names : map[n] # NoMap => \A k \in Kinds, r \in Reports :
        map[n].data[<<k, r>>] # Nobody => map[n].label[k] # Nobody

LabelsLive ==
    \A n \in Names : map[n] # NoMap => \A k \in Kinds :
        map[n].label[k] # Nobody => lab[map[n].label[k]].life \in {"kept", "deleting"}

\* The lab a worker is busy with stays what it was taken up for.
BusyLives ==
    \A k \in Kinds : /\ pc[k] \in {"read", "put"} => lab[who[k]].life \in {"kept", "deleting"}
                     /\ pc[k] = "delete" => lab[who[k]].life = "deleting"

\* What cleanup has listed is what is left to delete.
ListIsComplete ==
    \A k \in Kinds : pc[k] = "delete" => \A n \in Names :
        map[n] # NoMap /\ map[n].label[k] = who[k] => n \in doomed[k]

ListIsTrue ==
    \A k \in Kinds : \A n \in doomed[k] :
        UsersOf(n) \subseteq LabsOf(k) /\ map[n] # NoMap => map[n].label[k] = who[k]

FreshInv ==
    ~lag => /\ Labelled /\ LabelsLive /\ BusyLives /\ ListIsComplete /\ ListIsTrue

\* Without lag a read is of what is there.
LEMMA ReadsAreFresh == ~lag => LabRead = lab /\ MapRead = map
BY DEF LabRead, MapRead

\* A lab that is kept or under deletion goes only when its worker lets it go.
LEMMA LifeMove ==
    ASSUME TInv, [Next]_vars, NEW l \in Labs, ~Removed(l),
           lab[l].life \in {"kept", "deleting"}
    PROVE  /\ lab'[l].life \in {"kept", "deleting"}
           /\ lab[l].life = "deleting" => lab'[l].life = "deleting"
<1>1. lab[l] \in Lab
  BY DEF TInv, TypeOK
<1>2. ~Finalized(l) /\ ~Recreated(l)
  BY DEF Finalized, Recreated
<1>3. CASE Cleared(l) \/ Claimed(l) \/ Edited(l)
  BY <1>1, <1>3 DEF Cleared, Claimed, Edited, Lab
<1>4. CASE Deleted(l)
  BY <1>1, <1>4 DEF Deleted, Lab
<1> QED BY <1>2, <1>3, <1>4, LabMoves DEF LabMove

\* A label was there before or is the mark of the write that is made.
LEMMA LabelMove ==
    ASSUME TInv, [Next]_vars, NEW n \in Names, NEW k \in Kinds,
           map'[n] # NoMap, map'[n].label[k] # Nobody
    PROVE  \/ map[n] # NoMap /\ map'[n].label[k] = map[n].label[k]
           \/ /\ map'[n].label[k] = who[k]
              /\ \E r \in Reports : Writes(k, r) /\ n = Target(k, r)
<1>1. ASSUME NEW j \in Kinds, NEW r \in Reports, Writes(j, r), n # Target(j, r)
      PROVE  map'[n] = map[n]
  BY <1>1, WriteElsewhere
<1>2. ASSUME NEW j \in Kinds, NEW r \in Reports, Writes(j, r), n = Target(j, r)
      PROVE  \/ j = k /\ map'[n].label[k] = who[k]
             \/ map[n] # NoMap /\ map'[n].label[k] = map[n].label[k]
  <2>1. CASE j = k
    BY <1>2, <2>1, WriteMarks
  <2>2. CASE j # k /\ map[n] = NoMap
    BY <1>2, <2>2, WriteAnew
  <2>3. CASE j # k /\ map[n] # NoMap
    BY <1>2, <2>3, WriteKeepsLabel
  <2> QED BY <2>1, <2>2, <2>3
<1>3. ASSUME NEW j \in Kinds, NEW m \in Names, DeleteListed(j, m) PROVE map'[n] = map[n]
  BY <1>3 DEF DeleteListed, TInv, TypeOK
<1> QED BY <1>1, <1>2, <1>3, MapMoves

\* A report comes with the label of its kind.
LEMMA LabelledKept ==
    ASSUME TInv, Labelled, [Next]_vars
    PROVE  Labelled'
<1> SUFFICES ASSUME NEW n \in Names, map'[n] # NoMap, NEW k \in Kinds, NEW r \in Reports,
                    map'[n].data[<<k, r>>] # Nobody
             PROVE  map'[n].label[k] # Nobody
  BY DEF Labelled
<1>1. CASE map'[n] = map[n]
  BY <1>1 DEF Labelled
<1>2. ASSUME NEW j \in Kinds, NEW s \in Reports, Writes(j, s), n = Target(j, s)
      PROVE  map'[n].label[k] # Nobody
  <2>1. who[j] # Nobody /\ map'[n].label[j] = who[j]
    <3>1. map'[n].label[j] = who[j]
      BY <1>2, WriteMarks
    <3>2. pc[j] # "idle"
      BY <1>2 DEF Writes, Create, Update
    <3> QED BY <3>1, <3>2, OneWorker, KindFacts
  <2>2. CASE j # k
    <3>1. <<k, r>> \in Keys /\ <<k, r>> # <<j, s>>
      BY <2>2 DEF Keys
    <3>2. CASE map[n] = NoMap
      <4>1. map'[n].data[<<k, r>>] = Nobody
        BY <1>2, <3>1, <3>2, WriteAnew
      <4> QED BY <4>1
    <3>3. CASE map[n] # NoMap
      <4>1. map'[n].data[<<k, r>>] = map[n].data[<<k, r>>]
        BY <1>2, <3>1, <3>3, WriteKeepsData
      <4>2. map[n].label[k] # Nobody
        BY <3>3, <4>1 DEF Labelled
      <4>3. map'[n].label[k] = map[n].label[k]
        BY <1>2, <2>2, <3>3, WriteKeepsLabel
      <4> QED BY <4>2, <4>3
    <3> QED BY <3>2, <3>3
  <2> QED BY <2>1, <2>2
<1>3. ASSUME NEW j \in Kinds, NEW s \in Reports, Writes(j, s), n # Target(j, s)
      PROVE  map'[n] = map[n]
  BY <1>3, WriteElsewhere
<1>4. ASSUME NEW j \in Kinds, NEW m \in Names, DeleteListed(j, m) PROVE map'[n] = map[n]
  BY <1>4 DEF DeleteListed, TInv, TypeOK
<1> QED BY <1>1, <1>2, <1>3, <1>4, MapMoves

\* A labelled lab does not go before its label.
LEMMA LabelsLiveKept ==
    ASSUME TInv, MarksOK, LabelsLive, BusyLives, ListIsComplete, [Next]_vars
    PROVE  LabelsLive'
<1> SUFFICES ASSUME NEW n \in Names, map'[n] # NoMap, NEW k \in Kinds,
                    map'[n].label[k] # Nobody
             PROVE  lab'[map'[n].label[k]].life \in {"kept", "deleting"}
  BY DEF LabelsLive
<1> DEFINE l == map'[n].label[k]
<1>1. CASE map[n] # NoMap /\ l = map[n].label[k]
  <2>1. l \in LabsOf(k) /\ l \in Labs /\ lab[l].life \in {"kept", "deleting"}
    BY <1>1, KindFacts DEF MarksOK, Marks, LabelsLive
  <2>2. ASSUME NEW j \in Kinds, pc[j] = "delete", who[j] = l, doomed[j] = {} PROVE FALSE
    <3>1. j = k
      BY <2>1, <2>2, OneWorker
    <3> QED BY <1>1, <2>2, <3>1 DEF ListIsComplete
  <2>3. ~Removed(l)
    BY <2>2 DEF Removed
  <2> QED BY <2>1, <2>3, LifeMove
<1>2. ASSUME NEW r \in Reports, Writes(k, r), l = who[k]
      PROVE  lab'[l].life \in {"kept", "deleting"}
  <2>1. lab' = lab /\ pc[k] = "put"
    BY <1>2 DEF Writes, Create, Update
  <2> QED BY <1>2, <2>1 DEF BusyLives
<1> QED BY <1>1, <1>2, LabelMove

\* The lab a worker is busy with does not go.
LEMMA BusyLivesKept ==
    ASSUME TInv, BusyLives, [Next]_vars, ~lag
    PROVE  BusyLives'
<1> SUFFICES ASSUME NEW k \in Kinds
             PROVE  /\ pc'[k] \in {"read", "put"} => lab'[who'[k]].life \in {"kept", "deleting"}
                    /\ pc'[k] = "delete" => lab'[who'[k]].life = "deleting"
  BY DEF BusyLives
<1>1. ASSUME pc'[k] # "idle", pc[k] \in {"read", "put", "delete"}, who'[k] = who[k]
      PROVE  /\ lab'[who'[k]].life \in {"kept", "deleting"}
             /\ pc[k] = "delete" => lab'[who'[k]].life = "deleting"
  <2>1. who[k] \in Labs
    BY <1>1, OneWorker
  <2>2. ASSUME NEW j \in Kinds, pc[j] = "delete", who[j] = who[k], pc'[j] = "idle" PROVE FALSE
    <3>1. j = k
      BY <1>1, <2>2, OneWorker
    <3> QED BY <1>1, <2>2, <3>1
  <2>3. ~Removed(who[k])
    BY <2>2 DEF Removed
  <2>4. /\ lab[who[k]].life \in {"kept", "deleting"}
        /\ pc[k] = "delete" => lab[who[k]].life = "deleting"
    BY <1>1 DEF BusyLives
  <2> QED BY <1>1, <2>1, <2>3, <2>4, LifeMove
<1>2. ASSUME NEW l \in Labs, Enters(k, l)
      PROVE  /\ pc'[k] \in {"read", "put"} => lab'[who'[k]].life \in {"kept", "deleting"}
             /\ pc'[k] = "delete" => lab'[who'[k]].life = "deleting"
  BY <1>2, ReadsAreFresh DEF Enters, apiVars
<1>3. pc'[k] \in {"read", "put", "delete"} =>
        \/ /\ pc[k] \in {"read", "put", "delete"} /\ who'[k] = who[k]
           /\ pc'[k] = "delete" => pc[k] = "delete"
        \/ \E l \in Labs : Enters(k, l)
  BY WorkerMoves DEF Stays, WorkerMove, Idles, Reads, HasWritten, Fails, Strikes, GoesOn
<1> QED BY <1>1, <1>2, <1>3

\* No label of a lab escapes its cleanup.
LEMMA ListIsCompleteKept ==
    ASSUME TInv, ListIsComplete, [Next]_vars, ~lag
    PROVE  ListIsComplete'
<1> SUFFICES ASSUME NEW k \in Kinds, pc'[k] = "delete", NEW n \in Names,
                    map'[n] # NoMap, map'[n].label[k] = who'[k]
             PROVE  n \in doomed'[k]
  BY DEF ListIsComplete
<1>1. ASSUME NEW l \in Labs, Enters(k, l) PROVE n \in doomed'[k]
  BY <1>1, ReadsAreFresh DEF Enters, Listed, apiVars
<1>2. ASSUME pc[k] = "delete", who'[k] = who[k] PROVE n \in doomed[k]
  <2>1. who[k] # Nobody
    BY <1>2, OneWorker, KindFacts
  <2>2. \A r \in Reports : ~Writes(k, r)
    BY <1>2 DEF Writes, Create, Update
  <2>3. map[n] # NoMap /\ map'[n].label[k] = map[n].label[k]
    BY <1>2, <2>1, <2>2, LabelMove
  <2> QED BY <1>2, <2>3 DEF ListIsComplete
<1>3. CASE Stays(k)
  BY <1>2, <1>3 DEF Stays
<1>4. ASSUME NEW m \in Names, Strikes(k, m) PROVE n \in doomed'[k]
  <2>1. n # m
    BY <1>4 DEF Strikes, TInv, TypeOK
  <2> QED BY <1>2, <1>4, <2>1 DEF Strikes
<1>5. Idles(k) \/ Fails(k) \/ (\E r \in Reports : Reads(k, r) \/ HasWritten(k, r)) => FALSE
  BY DEF Idles, Fails, Reads, HasWritten
<1> QED BY <1>1, <1>3, <1>4, <1>5, WorkerMoves DEF WorkerMove

\* What cleanup has listed stays labelled with its lab.
LEMMA ListIsTrueKept ==
    ASSUME TInv, OutputsUsed, WorkFits, ListIsTrue, [Next]_vars, ~lag
    PROVE  ListIsTrue'
<1> SUFFICES ASSUME NEW k \in Kinds, NEW n \in doomed'[k], UsersOf(n) \subseteq LabsOf(k),
                    map'[n] # NoMap
             PROVE  map'[n].label[k] = who'[k]
  BY DEF ListIsTrue
<1>1. ASSUME NEW l \in Labs, Enters(k, l) PROVE map'[n].label[k] = who'[k]
  BY <1>1, ReadsAreFresh DEF Enters, Listed, apiVars
<1>2. ASSUME n \in doomed[k], who'[k] = who[k] PROVE map'[n].label[k] = who'[k]
  <2>1. pc[k] = "delete" /\ n \in Names
    BY <1>2 DEF WorkFits, TInv, TypeOK
  <2>2. ASSUME NEW j \in Kinds, NEW s \in Reports, Writes(j, s) PROVE map'[n] = map[n]
    <3>1. n # Target(j, s)
      <4>1. ASSUME n = Target(j, s) PROVE FALSE
        <5>1. who[j] \in LabsOf(k) /\ pc[j] = "put"
          BY <2>2, <4>1, WriterIsUser
        <5>2. j = k
          BY <5>1, OneWorker
        <5> QED BY <2>1, <5>1, <5>2
      <4> QED BY <4>1
    <3> QED BY <2>1, <2>2, <3>1, WriteElsewhere
  <2>3. ASSUME NEW j \in Kinds, NEW m \in Names, DeleteListed(j, m) PROVE map'[n] = map[n]
    BY <2>1, <2>3 DEF DeleteListed, TInv, TypeOK
  <2>4. map'[n] = map[n]
    BY <2>2, <2>3, MapMoves
  <2> QED BY <1>2, <2>4 DEF ListIsTrue
<1>3. Stays(k) \/ Fails(k) \/ (\E r \in Reports : Reads(k, r) \/ HasWritten(k, r))
        \/ (\E m \in Names : Strikes(k, m)) => n \in doomed[k] /\ who'[k] = who[k]
  BY DEF Stays, Fails, Reads, HasWritten, Strikes, GoesOn
<1>4. ~Idles(k)
  BY DEF Idles
<1> QED BY <1>1, <1>2, <1>3, <1>4, WorkerMoves DEF WorkerMove

\* The invariant for caches without lag holds at first.
LEMMA InitFresh == Init => FreshInv
<1> SUFFICES ASSUME Init PROVE FreshInv
  OBVIOUS
<1>1. /\ \A n \in Names : map[n] = NoMap
      /\ \A k \in Kinds : pc[k] = "idle" /\ doomed[k] = {}
  BY DEF Init
<1>2. Labelled /\ LabelsLive
  BY <1>1 DEF Labelled, LabelsLive
<1>3. BusyLives /\ ListIsComplete /\ ListIsTrue
  BY <1>1 DEF BusyLives, ListIsComplete, ListIsTrue
<1> QED BY <1>2, <1>3 DEF FreshInv

\* It is inductive together with Inv.
LEMMA NextKeepsFresh ==
    ASSUME Inv, FreshInv, [Next]_vars
    PROVE  FreshInv'
<1>1. TInv /\ OutputsUsed /\ MarksOK /\ WorkFits
  BY DEF Inv
<1> SUFFICES ASSUME ~lag
             PROVE  Labelled' /\ LabelsLive' /\ BusyLives' /\ ListIsComplete' /\ ListIsTrue'
  BY <1>1, CacheMoves DEF FreshInv
<1>2. Labelled /\ LabelsLive /\ BusyLives /\ ListIsComplete /\ ListIsTrue
  BY DEF FreshInv
<1>3. lag' = lag
  BY <1>1, CacheMoves
<1>4. Labelled' /\ LabelsLive'
  BY <1>1, <1>2, LabelledKept, LabelsLiveKept
<1>5. BusyLives' /\ ListIsComplete'
  BY <1>1, <1>2, BusyLivesKept, ListIsCompleteKept
<1>6. ListIsTrue'
  BY <1>1, <1>2, ListIsTrueKept
<1> QED BY <1>4, <1>5, <1>6

\* Every reachable state satisfies it.
THEOREM FreshInvariance == Spec => []FreshInv
<1>1. Inv /\ FreshInv /\ [Next]_vars => FreshInv'
  BY NextKeepsFresh
<1> QED BY Invariance, InitFresh, <1>1, PTL DEF Spec

\* A report that is left has a lab that will clean it up.
THEOREM ReportsHaveOwners == Spec => []NoOrphans
<1>1. ASSUME Inv, FreshInv PROVE NoOrphans
  <2> SUFFICES ASSUME ~lag, NEW n \in Names, map[n] # NoMap, NEW key \in Keys,
                      map[n].data[key] # Nobody
               PROVE  /\ map[n].label[key[1]] # Nobody
                      /\ lab[map[n].label[key[1]]].life # "absent"
    BY DEF NoOrphans
  <2>1. PICK k \in Kinds, r \in Reports : key = <<k, r>>
    BY DEF Keys
  <2>2. Labelled /\ LabelsLive
    BY <1>1 DEF FreshInv
  <2>3. map[n].label[k] # Nobody
    BY <2>1, <2>2 DEF Labelled
  <2> QED BY <2>1, <2>2, <2>3 DEF LabelsLive
<1> QED BY Invariance, FreshInvariance, <1>1, PTL

\* A ConfigMap that labs of one kind share goes only with a lab it is labelled with.
THEOREM DeletesAreOfLabelled == Spec => DeletesOnlyLabelled
<1> DEFINE OfLabelled ==
      ~lag => \A n \in Names :
        ((\E k \in Kinds : UsersOf(n) \subseteq LabsOf(k)) /\ map[n] # NoMap /\ map'[n] = NoMap)
        => \E k \in Kinds : /\ map[n].label[k] # Nobody
                            /\ lab[map[n].label[k]].life = "deleting"
<1>1. ASSUME Inv, FreshInv, [Next]_vars PROVE OfLabelled
  <2> SUFFICES ASSUME ~lag, NEW n \in Names, NEW k \in Kinds, UsersOf(n) \subseteq LabsOf(k),
                      map[n] # NoMap, map'[n] = NoMap
               PROVE  map[n].label[k] # Nobody /\ lab[map[n].label[k]].life = "deleting"
    OBVIOUS
  <2>1. TInv /\ OutputsUsed /\ WorkFits /\ BusyLives /\ ListIsTrue
    BY <1>1 DEF Inv, FreshInv
  <2>2. ASSUME NEW j \in Kinds, NEW r \in Reports, Writes(j, r) PROVE FALSE
    <3>1. CASE n = Target(j, r)
      BY <2>1, <2>2, <3>1, WriteMarks, AbsenceAssumption
    <3>2. CASE n # Target(j, r)
      BY <2>1, <2>2, <3>2, WriteElsewhere
    <3> QED BY <3>1, <3>2
  <2>3. ASSUME NEW j \in Kinds, NEW m \in Names, DeleteListed(j, m)
        PROVE  map[n].label[k] # Nobody /\ lab[map[n].label[k]].life = "deleting"
    <3>1. m = n
      BY <2>1, <2>3 DEF DeleteListed, TInv, TypeOK
    <3>2. pc[j] = "delete" /\ n \in doomed[j] /\ who[j] \in UsersOf(n)
      BY <2>1, <2>3, <3>1 DEF DeleteListed, WorkFits
    <3>3. j = k
      BY <2>1, <3>2, OneWorker
    <3>4. map[n].label[k] = who[k] /\ lab[who[k]].life = "deleting"
      BY <2>1, <3>2, <3>3 DEF ListIsTrue, BusyLives
    <3> QED BY <2>1, <3>2, <3>3, <3>4, OneWorker, KindFacts
  <2> QED BY <1>1, <2>1, <2>2, <2>3, MapMoves
<1>2. Inv /\ FreshInv /\ [Next]_vars => [OfLabelled]_vars
  BY <1>1
<1> QED BY Invariance, FreshInvariance, <1>2, PTL DEF Spec, DeletesOnlyLabelled
=============================================================================
