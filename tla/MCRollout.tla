----------------------------- MODULE MCRollout -----------------------------
(* Rollout over two steps, by either driver, on either kind of evidence.   *)
EXTENDS Rollout

TwoSteps == <<25, 100>>
TwoModes == {[driver |-> "services", source |-> "prometheus"], [driver |-> "argo", source |-> "windows"]}
FewOutcomes ==
  {[lane |-> "stable", ok |-> TRUE, ms |-> 1], [lane |-> "canary", ok |-> TRUE, ms |-> 1],
   [lane |-> "canary", ok |-> TRUE, ms |-> 2], [lane |-> "canary", ok |-> FALSE, ms |-> 0]}
=============================================================================
