----------------------------------- MODULE Dag -----------------------------------
(***************************************************************************)
(* Workflow definitions (services/orchestration/service.py): which ones    *)
(* create_workflow accepts, and the order the engine runs their steps in.  *)
(* A definition is a sequence of steps [id, depends_on]; depends_on is a   *)
(* sequence, and may name a step twice.                                    *)
(***************************************************************************)
EXTENDS Naturals, Sequences, FiniteSets, Functions

Ids(tasks) == {tasks[i].id : i \in DOMAIN tasks}

Position(tasks, n) == CHOOSE i \in DOMAIN tasks : tasks[i].id = n

(* How often step i names n among its dependencies.                        *)
Mentions(tasks, i, n) ==
  Cardinality({j \in DOMAIN tasks[i].depends_on : tasks[i].depends_on[j] = n})

(* The steps at a set of positions, in the order of the definition.        *)
InOrder(positions) ==
  CHOOSE f \in [1 .. Cardinality(positions) -> positions] :
    \A j, k \in DOMAIN f : j < k => f[j] < f[k]

StepsAt(tasks, positions) ==
  [j \in 1 .. Cardinality(positions) |-> tasks[InOrder(positions)[j]].id]

(* The state of Kahn's algorithm before its loop: the dependencies each    *)
(* step waits for, and the steps that wait for none, first come first.     *)
InDegree(tasks) ==
  [n \in Ids(tasks) |-> Len(tasks[Position(tasks, n)].depends_on)]

Roots(tasks, degree) == {i \in DOMAIN tasks : degree[tasks[i].id] = 0}

Start(tasks) ==
  [queue  |-> StepsAt(tasks, Roots(tasks, InDegree(tasks))),
   degree |-> InDegree(tasks),
   order  |-> <<>>]

(* Mutant: a child is released by its first dependency.                    *)
ReleasedByFirst(tasks, degree, node) ==
  {i \in DOMAIN tasks : Mentions(tasks, i, node) > 0}

(* Mutant: a dependency that is named twice is subtracted once.            *)
ReleasedByOneMention(tasks, degree, node) ==
  {i \in DOMAIN tasks : Mentions(tasks, i, node) > 0 /\ degree[tasks[i].id] = 1}

(* The children whose last awaited dependency is node.                     *)
Released(tasks, degree, node) ==
  {i \in DOMAIN tasks : /\ Mentions(tasks, i, node) > 0
                        /\ degree[tasks[i].id] = Mentions(tasks, i, node)}

(* One turn of the loop: the first of the queue is visited.                *)
Visit(tasks, s) ==
  LET node == Head(s.queue)
  IN [queue  |-> Tail(s.queue) \o StepsAt(tasks, Released(tasks, s.degree, node)),
      degree |-> [n \in Ids(tasks) |-> s.degree[n] - Mentions(tasks, Position(tasks, n), node)],
      order  |-> Append(s.order, node)]

(* The loop ends with the queue, after as many turns as there are steps at *)
(* most.                                                                   *)
Loop(tasks, s) == IF s.queue = <<>> THEN s ELSE Visit(tasks, s)

Turns(tasks) ==
  LET Turn[k \in 0 .. Len(tasks)] == IF k = 0 THEN Start(tasks) ELSE Loop(tasks, Turn[k - 1])
  IN Turn

TopologicalOrder(tasks) == Turns(tasks)[Len(tasks)].order

(* validate_dag runs the same loop and counts.                             *)
DuplicateId(tasks) == Cardinality(Ids(tasks)) # Len(tasks)

UndefinedStep(tasks) ==
  \E i \in DOMAIN tasks : ~ (Range(tasks[i].depends_on) \subseteq Ids(tasks))

ValidateDag(tasks) ==
  IF DuplicateId(tasks) THEN "Duplicate step id"
  ELSE IF UndefinedStep(tasks) THEN "depends on undefined step"
  ELSE IF Len(TopologicalOrder(tasks)) # Cardinality(Ids(tasks)) THEN "Workflow contains a cycle"
  ELSE "valid"

(* create_workflow refuses an empty definition before it validates.        *)
Accepted(tasks) == tasks # <<>> /\ ValidateDag(tasks) = "valid"

(* The steps of an accepted definition, and what each waits for.           *)
Deps(tasks) ==
  [n \in Ids(tasks) |-> Range(tasks[Position(tasks, n)].depends_on)]
==================================================================================
