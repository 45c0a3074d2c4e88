-------------------------- MODULE MCTaskIntegration --------------------------
(* Small instances of TaskIntegration for TLC.                              *)
EXTENDS TaskIntegration, TLC

CONSTANTS gemini, groq, mistral

SingleDependsOn == 1 :> {}
SingleFiles == 1 :> {"a"}
PairDependsOn == 1 :> {} @@ 2 :> {1}
PairFiles == 1 :> {"a"} @@ 2 :> {"b"}

Panel(verdict) ==
  {[reviewer |-> "r1", provider |-> groq, role |-> "functional",
    verdict |-> verdict, severe |-> FALSE],
   [reviewer |-> "r2", provider |-> mistral, role |-> "security",
    verdict |-> "pass", severe |-> FALSE]}
PassOrFail == {Panel("pass"), Panel("fail")}
PassOnly == {Panel("pass")}
=============================================================================
