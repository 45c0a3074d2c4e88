---------------------------- MODULE MCJiraDelivery ----------------------------
(* Small instances of JiraDelivery for TLC.                                 *)
EXTENDS JiraDelivery

\* An epic, a story under it and a task that the story relates to.
OrderValue == <<"epic", "story", "task">>
ParentValue == [epic |-> "epic", story |-> "epic", task |-> "task"]
RelationsValue == <<<<"task", "story">>>>

=============================================================================
