--------------------------- MODULE MCLocalRequests ---------------------------
(* Small instances of LocalRequests for TLC.                                *)
EXTENDS LocalRequests, TLC

CONSTANTS r1, r2

\* One request whose owner tries every way, or two that patch the same file.
HabitsValue ==
  {r1 :> Ways @@ r2 :> {}, r1 :> {"patch"} @@ r2 :> {"patch"}}
TouchesValue ==
  r1 :> [patch |-> {1}, changeSet |-> {1, 2}, proposal |-> {2}]
  @@ r2 :> [patch |-> {1}, changeSet |-> {1}, proposal |-> {1}]

=============================================================================
