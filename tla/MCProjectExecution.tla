------------------------- MODULE MCProjectExecution -------------------------
(* Small instances of ProjectExecution for TLC.                             *)
EXTENDS ProjectExecution, TLC

CONSTANTS gemini, groq, mistral

\* 1 <- 2 <- 3: reopening 1 must reach 3 through 2.
ChainDependsOn == 1 :> {} @@ 2 :> {1} @@ 3 :> {2}
ChainFiles == 1 :> {"a"} @@ 2 :> {"b"} @@ 3 :> {"c"}

\* 1 and 2 independent on a shared file.
PairDependsOn == 1 :> {} @@ 2 :> {}
PairFiles == 1 :> {"a", "shared"} @@ 2 :> {"b", "shared"}

SingleDependsOn == 1 :> {}
SingleFiles == 1 :> {"a"}

Functional(p, verdict, severe) ==
  [reviewer |-> "r1", provider |-> p, role |-> "functional",
   verdict |-> verdict, severe |-> severe]
Second(p, role, verdict) ==
  [reviewer |-> "r2", provider |-> p, role |-> role,
   verdict |-> verdict, severe |-> FALSE]

Approving == {Functional(groq, "pass", FALSE), Second(mistral, "security", "pass")}
Rejecting == {Functional(groq, "pass", TRUE), Second(mistral, "security", "pass")}
Undecided == {Functional(groq, "needs_user", FALSE), Second(mistral, "security", "pass")}
Designing == {Functional(groq, "pass", FALSE), Second(mistral, "design", "pass")}
\* Both reviewers from the one provider.
Inbred == {Functional(gemini, "pass", FALSE), Second(gemini, "design", "pass")}

MCProviders == {gemini, groq, mistral}
OnePanel == {Approving}
\* The two workers do the same things.
WorkerSymmetry == Permutations(Workers)

AllPanels == {Approving, Rejecting, Undecided, Designing, Inbred}
=============================================================================
