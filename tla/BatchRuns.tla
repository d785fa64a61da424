----------------------------- MODULE BatchRuns -----------------------------
(***************************************************************************)
(* The batch commands behind the video selector for one model check:       *)
(* process_selection.py, and process_ppe_selection.py with the DeepStream  *)
(* runner that it starts.  They are processes of their own with roots of   *)
(* their own, so a behaviour runs one of them and leaves the other as it   *)
(* was: part says which.                                                   *)
(***************************************************************************)
EXTENDS SelectionRun, PpeSelectionRun

VARIABLE part

batchVars == <<part, selectionVars, ppeVars>>

BatchInit ==
  /\ SelectionInit /\ PpeSelectionInit
  /\ part \in {"selection", "ppe"}

BatchNext ==
  \/ part = "selection" /\ SelectionNext /\ UNCHANGED <<part, ppeVars>>
  \/ part = "ppe" /\ PpeSelectionNext /\ UNCHANGED <<part, selectionVars>>

\* The fairness of each module, for the part that runs.
BatchFairness ==
  /\ \A w \in Worker : WF_selectionVars(part = "selection" /\ WorkerStep(w))
  /\ \A j \in SelectionJobs : WF_selectionVars(part = "selection" /\ ExternalStep(j))
  /\ WF_ppeVars(part = "ppe" /\ RunnerStep)
  /\ WF_ppeVars(part = "ppe" /\ ProcessEnds)

BatchSpec == BatchInit /\ [][BatchNext]_batchVars /\ BatchFairness

-----------------------------------------------------------------------------
\* The type invariants of both.
BatchTypeOK == SelectionTypeOK /\ PpeTypeOK

\* The selection worker: its status, its receipts, its one plan and what it delivered
\* agree, whatever was killed, failed or left running before.
SelectionIsSafe ==
  StatusFollowsOwner /\ DeliveredIsReceipted /\ OnePlanPerSelection /\ CompleteIsDelivered

\* The PPE commands: complete is converted by one run, engines are whole, deliveries pin
\* whole files of one run.
PpeRunIsSafe == CompleteIsConverted /\ EnginesAreWhole /\ DeliveredIsWhole /\ DeliveredByOneRun

\* What was receipted or derived once is never replaced.
BatchStepsHold == ReceiptIsFinal /\ WriteOnce

\* Every worker and every runner that starts ends.
BatchEnds == WorkersEnd /\ RunnersEnd

-----------------------------------------------------------------------------
\* A single model and two of them.
MCSlug == {<<640>>, <<640, 960>>}
=============================================================================
