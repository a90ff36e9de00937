---------------------------------- MODULE MCDag ----------------------------------
(***************************************************************************)
(* Dag against reference definitions, over every definition that a few     *)
(* steps with a few dependencies can make: a definition grows step by step *)
(* and dependency by dependency, and each of its states is one input.      *)
(***************************************************************************)
EXTENDS Dag, TLC

CONSTANTS StepIds, MaxSteps, MaxDeps

ASSUME StepIdsAssumption == IsFiniteSet(StepIds)

VARIABLE tasks

DagInit == tasks = <<>>

AddStep ==
  /\ Len(tasks) < MaxSteps
  /\ \E n \in StepIds : tasks' = Append(tasks, [id |-> n, depends_on |-> <<>>])

AddDependency ==
  \E i \in DOMAIN tasks, d \in StepIds :
    /\ Len(tasks[i].depends_on) < MaxDeps
    /\ tasks' = [tasks EXCEPT ![i].depends_on = Append(@, d)]

DagNext == AddStep \/ AddDependency

DagSpec == DagInit /\ [][DagNext]_tasks

Symmetry == Permutations(StepIds)

(* Can the steps be numbered so that each comes after its dependencies?    *)
Acyclic ==
  \E rank \in [StepIds -> 1 .. Cardinality(StepIds)] :
    \A i \in DOMAIN tasks : \A j \in DOMAIN tasks[i].depends_on :
      rank[tasks[i].depends_on[j]] < rank[tasks[i].id]

(* create_workflow accepts exactly the definitions that have a step, name  *)
(* their steps apart, depend on defined steps only, and have no cycle.     *)
AcceptsExactlyDags ==
  Accepted(tasks) <=>
    /\ tasks # <<>>
    /\ \A i, j \in DOMAIN tasks : tasks[i].id = tasks[j].id => i = j
    /\ \A i \in DOMAIN tasks : \A j \in DOMAIN tasks[i].depends_on :
         \E k \in DOMAIN tasks : tasks[k].id = tasks[i].depends_on[j]
    /\ Acyclic

(* The engine runs every step of an accepted definition once, after all    *)
(* its dependencies, even when it names one of them twice.                 *)
OrderIsTopological ==
  Accepted(tasks) =>
    LET order == TopologicalOrder(tasks)
        At(n) == {k \in DOMAIN order : order[k] = n}
    IN  /\ \A i \in DOMAIN tasks : Cardinality(At(tasks[i].id)) = 1
        /\ Len(order) = Len(tasks)
        /\ \A i \in DOMAIN tasks : \A j \in DOMAIN tasks[i].depends_on :
             \A k \in At(tasks[i].depends_on[j]), m \in At(tasks[i].id) : k < m
==================================================================================
