------------------------ MODULE MCExecutionCoordinator ------------------------
(* Small instances of ExecutionCoordinator for TLC: a coordinator with one  *)
(* slot, whose process may end once, and one with two, whose process goes   *)
(* on. (Both at once is past what liveness can be checked for here.)        *)
EXTENDS ExecutionCoordinator, TLC

EndsOnceWithOneSlot == [n \in Slots |-> IF n = 1 THEN 1 ELSE 0]
NeverEnds == [n \in Slots |-> 0]

=============================================================================
