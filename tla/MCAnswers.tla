------------------------------- MODULE MCAnswers -------------------------------
(***************************************************************************)
(* What the platform answers to one client: the verdict on a workflow and  *)
(* the order of its steps (MCDag), the pages of a search and a route       *)
(* (Discovery), over any rows and any index, whatever has made them        *)
(* differ.  They share nothing, so either moves while the other has not    *)
(* begun.  Of three agents two have one age and two one name.              *)
(***************************************************************************)
EXTENDS MCDag, Discovery

CONSTANTS a1, a2, a3

MCAgents    == {a1, a2, a3}
MCCreatedAt == [a \in MCAgents |-> IF a = a3 THEN 1 ELSE 2]
MCName      == [a \in MCAgents |-> IF a = a1 THEN 1 ELSE 2]

NotBegun == DiscoveryInit /\ qualified = {} /\ indexed = {} /\ score = [a \in Agents |-> NoRecord]

AnswersInit == DagInit /\ DiscoveryInit

AnswersNext ==
  \/ NotBegun /\ DagNext /\ UNCHANGED discoveryVars
  \/ DagInit /\ DiscoveryNext /\ UNCHANGED tasks

AnswersSpec == AnswersInit /\ [][AnswersNext]_<<tasks, discoveryVars>>
================================================================================
