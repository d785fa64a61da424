---------------------------- MODULE MCLaunchRuns ----------------------------
(***************************************************************************)
(* The model check of LaunchRuns: a builder, a planner and a runner are    *)
(* the same processes, for one symmetry, and the pages begin with one      *)
(* decision for each past of a campaign.                                   *)
(***************************************************************************)
EXTENDS LaunchRuns, TLC

\* Processes are interchangeable; all parts are checked with the same ones.
Processes == Permutations(Runner)

\* A campaign that is only reported is accepted, one that is finalized was decided against,
\* and a report without a campaign claims acceptance by its status alone.
PastDecisions == part = "status" =>
  /\ disk["campaign"].accepted = (disk["status"].kind = "real" /\ disk["receipt"] = Absent)
  /\ disk["campaign"].claims = (disk["receipt"] = Absent)

\* The matrix of one cell has a warm-up, that of two has none.
WarmedIfAlone == part = "matrix" => (warms <=> lastCell = 1)

MCLaunchInit == LaunchInit /\ PastDecisions /\ WarmedIfAlone

MCLaunchSpec == MCLaunchInit /\ [][LaunchNext]_launchVars
=============================================================================
