---------------------------- MODULE GpuAdmission ----------------------------
(***************************************************************************)
(* What lets a container onto the GPU and watches it there, for one model  *)
(* check: the guard that runs it, the re-entry evidence of the machine     *)
(* that the guard asks for, the qualification of the image that it starts, *)
(* the smoke that this qualification rests on, and an evaluation run       *)
(* around the guard.  They hand over files, not state: part says which one *)
(* a behaviour runs.                                                       *)
(***************************************************************************)
EXTENDS GpuGuard, ReentryEvidence, SmokeRuns, DsQualification, CaviarRuns

VARIABLE part

admissionVars == <<part, guardVars, reentryVars, smokeVars, qualificationVars,
                   caviarVars>>

AdmissionInit ==
  /\ part \in {"guard", "reentry", "smoke", "qualification", "caviar"}
  /\ GpuGuardInit /\ ReentryInit /\ SmokeInit /\ QualificationInit /\ CaviarInit
  /\ part # "guard" => artifactReceipt = NoArtifactReceipt
  /\ part # "reentry" =>
       (\A f \in Fact : machine[f]) /\ access = [bios |-> TRUE, log |-> "readable"]

OnlyGuard ==
  part = "guard" /\ UNCHANGED <<part, reentryVars, smokeVars, qualificationVars, caviarVars>>
OnlyReentry ==
  part = "reentry" /\ UNCHANGED <<part, guardVars, smokeVars, qualificationVars, caviarVars>>
OnlySmoke ==
  part = "smoke" /\ UNCHANGED <<part, guardVars, reentryVars, qualificationVars, caviarVars>>
OnlyQualification ==
  part = "qualification" /\ UNCHANGED <<part, guardVars, reentryVars, smokeVars, caviarVars>>
OnlyCaviar ==
  part = "caviar" /\ UNCHANGED <<part, guardVars, reentryVars, smokeVars, qualificationVars>>

AdmissionNext ==
  \/ OnlyGuard /\ GpuGuardNext
  \/ OnlyReentry /\ ReentryNext
  \/ OnlySmoke /\ SmokeNext
  \/ OnlyQualification /\ QualificationNext
  \/ OnlyCaviar /\ CaviarNext

\* The fairness of the guard, the only part that has to end something.
AdmissionFairness == WF_guard(part = "guard" /\ (Block \/ GuardStep))

AdmissionSpec == AdmissionInit /\ [][AdmissionNext]_admissionVars /\ AdmissionFairness

-----------------------------------------------------------------------------
\* A guarded GPU stage: its report, its receipt and its container agree, and an evaluation
\* run around one holds the frames of that run alone.
GuardIsSafe == GuardSafe /\ CaviarIsSound

\* A smoke shows what it claims, and an image is launched only on such a smoke, a build and a
\* measurement of one day.
ImageIsQualified == SmokeIsSound /\ QualificationIsSound
=============================================================================
