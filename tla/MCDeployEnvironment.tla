--------------------------- MODULE MCDeployEnvironment -------------------------
(***************************************************************************)
(* Small instances of DeployEnvironment.  Two deployments are enough for a *)
(* cutover and for every race between a deployment and its replacement;    *)
(* MaxFaults lets the configurations combine kinds of faults without       *)
(* multiplying them.                                                       *)
(*   MCDeploy         users' deploys, retries, drains, runs, one rejected  *)
(*                    database call and one container fault                *)
(*   MCDeployRestart  a restart at any point of two deploys, with one      *)
(*                    rejected database call                               *)
(*   MCDeployWake     a request against a deploy, a drain, a revision and  *)
(*                    two container faults or one rejected call            *)
(*   MCEnvConverges   liveness, without faults                             *)
(*   MCTwoLive, MCWedgedSlot, MCAuditTakesDown   claims the code breaks    *)
(***************************************************************************)
EXTENDS DeployEnvironment

\* MCDeployRestart follows a rejected call to the end of the boot chain only: its
\* properties say nothing of what comes after one.
FollowRejected == dbErrors > 0 => phase # "booted"

\* MCDeployWake has container faults or a rejected call, not both.
OneKind == dbErrors = 0 \/ infraErrors = 0

=============================================================================
