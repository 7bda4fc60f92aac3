----------------------------- MODULE MCPipeline -----------------------------
(***************************************************************************)
(* Small instances of Pipeline.                                            *)
(***************************************************************************)
EXTENDS Pipeline

\* The rest have the gates, edits, review and commit of one of these in the
\* same places, or one step further: performance and refactor those of feature,
\* security_audit of research, plan_only of decompose.
MCTypes == (DOMAIN Template \cup DOMAIN Alias)
             \ {"performance", "refactor", "security_audit", "security", "plan_only", "plan"}
\* review_only gates the steps that collaborative gates.
MCModes == DOMAIN ModeGates \ {"review_only"}
AllApprovals == {"human_review", "auto_approve"}
AllUserOps == {"approve_gate", "cancel", "retry", "review", "drop_branch"}
=============================================================================
