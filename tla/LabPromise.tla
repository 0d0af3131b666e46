---------------------------- MODULE LabPromise -----------------------------
(***************************************************************************)
(* What both reconcilers promise to the user of a lab, who sees only the   *)
(* object: its generation, whether it is being deleted, and the status.    *)
(***************************************************************************)
EXTENDS Naturals

CONSTANT Absent

\* Absent, or a record: gen and deleting of the metadata; seen, the generation
\* the status was computed from (0: no status yet); phase; complete, whether the
\* results in the status are the results of that generation.
VARIABLE object

Phases == {"unset", "Running", "Failed", "Succeeded"}
Objects == [gen : Nat, deleting : BOOLEAN, seen : Nat, phase : Phases, complete : BOOLEAN]

Init == object = Absent

Create ==
    /\ object = Absent
    /\ object' = [gen |-> 1, deleting |-> FALSE, seen |-> 0, phase |-> "unset",
                  complete |-> FALSE]

Edit == object # Absent /\ object' = [object EXCEPT !.gen = @ + 1]

Delete ==
    /\ object # Absent /\ ~object.deleting
    /\ object' = [object EXCEPT !.deleting = TRUE]

\* A status is published of the generation that is current, never on a lab that
\* is being deleted; a success has the results of the generation.
Publish ==
    /\ object # Absent /\ ~object.deleting
    /\ \E phase \in Phases \ {"unset"}, complete \in BOOLEAN :
         /\ phase = "Succeeded" => complete
         /\ object' = [gen |-> object.gen, deleting |-> FALSE, seen |-> object.gen,
                       phase |-> phase, complete |-> complete]

\* A lab that was ever reported on goes only after it was asked to.
Remove ==
    /\ object # Absent
    /\ object.deleting \/ object.seen = 0
    /\ object' = Absent

Next == Create \/ Edit \/ Delete \/ Publish \/ Remove

Spec == Init /\ [][Next]_object

\* A lab that is being deleted disappears: no error or conflict strands it on its
\* finalizer.
Removed == (object # Absent /\ object.deleting) ~> (object = Absent)

\* Every lab that is not deleted gets a status of its current generation.
Noticed ==
    (object # Absent) ~> (object = Absent \/ object.deleting \/ object.seen = object.gen)
=============================================================================
