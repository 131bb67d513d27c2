---------------------------- MODULE MCScheduler ----------------------------
(***************************************************************************)
(* Scheduler for TLC: in each lane one task is of high priority and the    *)
(* others are of low; the mutations are of two documents.                  *)
(***************************************************************************)
EXTENDS Scheduler

CONSTANTS Urgent, FirstDocument, SecondDocument

MCDocumentKeys == {FirstDocument, SecondDocument}
MCPriority == [t \in Reads \cup Mutations |-> IF t \in Urgent THEN 4 ELSE 1]
MCKey == [t \in Mutations |-> IF t \in Urgent THEN SecondDocument ELSE FirstDocument]
=============================================================================
