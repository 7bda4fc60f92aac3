-------------------------- MODULE PipelineCatalog --------------------------
(***************************************************************************)
(* What an execution is parameterised by: the built-in pipeline templates, *)
(* the template of a task type, and the gates of each HITL mode.           *)
(***************************************************************************)
EXTENDS Sequences

Template ==
  [feature        |-> <<"plan", "plan_impl", "implement", "verify", "review", "commit">>,
   bug_fix        |-> <<"reproduce", "diagnose", "implement", "verify", "review", "commit">>,
   refactor       |-> <<"analyze", "plan", "implement", "verify", "review", "commit">>,
   research       |-> <<"gather", "analyze", "summarize", "report">>,
   docs           |-> <<"analyze", "implement", "review", "commit">>,
   test           |-> <<"analyze", "implement", "verify", "review", "commit">>,
   repo_review    |-> <<"scan", "analyze", "generate_tasks">>,
   security_audit |-> <<"scan_deps", "scan_code", "report", "generate_tasks">>,
   review         |-> <<"analyze", "review", "report">>,
   performance    |-> <<"profile", "plan", "implement", "benchmark", "review", "commit">>,
   hotfix         |-> <<"implement", "verify", "review", "commit">>,
   spike          |-> <<"gather", "prototype", "summarize", "report">>,
   chore          |-> <<"implement", "verify", "commit">>,
   plan_only      |-> <<"analyze", "plan", "report">>,
   decompose      |-> <<"analyze", "plan", "generate_tasks">>,
   verify_only    |-> <<"verify", "report">>]

\* Task types that are not the name of their template.
Alias == [bug |-> "bug_fix", security |-> "security_audit",
          plan |-> "plan_only", verify |-> "verify_only"]

\* A bug_fix is no task type, and what is not known runs the feature pipeline.
StepsOf(type) ==
  Template[IF type \in DOMAIN Alias THEN Alias[type]
           ELSE IF type \in DOMAIN Template \ {"bug_fix"} THEN type ELSE "feature"]

\* The gate in front of a step that has one.
GateMapping == [plan      |-> "before_plan",
                implement |-> "before_implement",
                review    |-> "after_implement",
                commit    |-> "before_commit"]

\* The gates a mode asks for.
ModeGates == [autopilot     |-> {},
              supervised    |-> {"before_plan", "before_implement", "before_commit"},
              collaborative |-> {"after_implement", "before_commit"},
              review_only   |-> {"after_implement", "before_commit"}]

ShouldGate(mode, gate) == mode \in DOMAIN ModeGates /\ gate \in ModeGates[mode]

GatedStep(mode, step) == step \in DOMAIN GateMapping /\ ShouldGate(mode, GateMapping[step])

\* Steps whose worker edits files, and those that never run in phase 1.
Editing == {"implement", "implement_fix", "prototype"}
Late == {"review", "commit"}
FixSteps == <<"implement_fix", "verify">>
=============================================================================
