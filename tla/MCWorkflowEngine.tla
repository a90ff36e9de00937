---------------------------- MODULE MCWorkflowEngine ----------------------------
(***************************************************************************)
(* Small instances of WorkflowEngine: two steps that wait for a third one, *)
(* and a chain of two.                                                     *)
(***************************************************************************)
EXTENDS WorkflowEngine

Fork ==
  << [id |-> "fetch",     depends_on |-> <<>>],
     [id |-> "summarize", depends_on |-> <<"fetch">>],
     [id |-> "translate", depends_on |-> <<"fetch">>] >>

Chain ==
  << [id |-> "summarize", depends_on |-> <<"fetch">>],
     [id |-> "fetch",     depends_on |-> <<>>] >>
================================================================================
