---------------------------- MODULE MCJiraObserver ----------------------------
(* Small instances of JiraObserver for TLC.                                 *)
EXTENDS JiraObserver

OrderValue == <<"first">>
RevisionLimitValue == [first |-> 3]

=============================================================================
