----------------------------- MODULE LaunchRuns -----------------------------
(***************************************************************************)
(* What is on disk before and after the GPU is used, for one model check:  *)
(* the publication of the runtime, the launch plan of the full stack, the  *)
(* benchmark runs of the scene matrix, and the page and the cards that     *)
(* show the evidence of it all.  They hand over files, not state: part     *)
(* says which one a behaviour runs.                                        *)
(***************************************************************************)
EXTENDS RuntimePublication, FullStackPlan, MatrixRuns, ValidationStatus, EvidenceCards

VARIABLE part

launchVars == <<part, runtimeVars, planVars, matrixVars, statusVars, cardVars>>

LaunchInit ==
  /\ part \in {"runtime", "plan", "matrix", "status", "cards"}
  /\ RuntimeInit /\ FullStackInit /\ MatrixInit /\ StatusInit /\ CardsInit
  /\ part # "matrix" => lastCell = 1 /\ warms
  /\ part # "status" =>
       disk["status"].kind = "real" /\ disk["receipt"] = Absent /\ disk["campaign"].accepted
  /\ part # "plan" => slot["runtime"] = "ready" /\ ~contract.narrow

LaunchNext ==
  \/ /\ part = "runtime" /\ RuntimeNext
     /\ UNCHANGED <<part, planVars, matrixVars, statusVars, cardVars>>
  \/ /\ part = "plan" /\ FullStackNext
     /\ UNCHANGED <<part, runtimeVars, matrixVars, statusVars, cardVars>>
  \/ /\ part = "matrix" /\ MatrixNext
     /\ UNCHANGED <<part, runtimeVars, planVars, statusVars, cardVars>>
  \/ /\ part = "status" /\ StatusNext
     /\ UNCHANGED <<part, runtimeVars, planVars, matrixVars, cardVars>>
  \/ /\ part = "cards" /\ CardsNext
     /\ UNCHANGED <<part, runtimeVars, planVars, matrixVars, statusVars>>

LaunchSpec == LaunchInit /\ [][LaunchNext]_launchVars

-----------------------------------------------------------------------------
\* A published runtime: what is published and what an inspection accepts was probed, and
\* failed builds leave nothing behind.
PublicationIsSafe == PublishedIsProbed /\ AcceptedIsPublished /\ StagesAreRemoved

\* A launch plan: granted only when it is current, never for a blocked runtime, and
\* revoked before its files go.
LaunchIsSafe == GrantIsCurrent /\ BlockedNeverLaunches /\ RevokedBeforeRemoved

\* The matrix: a complete run is steady and whole, containers run one at a time, and the
\* summary is current.
MatrixIsSafe == CompleteIsSteady /\ CompleteIsWhole /\ OneAtATime /\ SummaryIsCurrent

\* The page and its cards: what they show as current or as available was so when it was
\* read.
PageIsHonest == StatusIsHonest /\ CardsAreTrue

\* A published directory is never replaced, and evidence of a run only after it is archived.
NothingIsReplaced == PublishedOnce /\ EvidenceIsKept

=============================================================================
