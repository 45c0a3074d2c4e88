------------------------ MODULE MCLifecycleCoordinator ------------------------
(* Small instances of LifecycleCoordinator for TLC.                         *)
EXTENDS LifecycleCoordinator

=============================================================================
