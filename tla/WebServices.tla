---------------------------- MODULE WebServices ----------------------------
(***************************************************************************)
(* The stateful services behind the two web applications, for one model    *)
(* check: in the admin service the ROI render jobs, the settings with the  *)
(* pipeline, the manual review, the PPE human QA and the ROI editor; in    *)
(* the video selector the selection store.  They share a process, not      *)
(* state: each has files or a database of its own.  A behaviour runs one   *)
(* of them, which part names, and leaves the others as they were.          *)
(***************************************************************************)
EXTENDS RoiRenderJobs, AdminState, ManualReview, PpeHumanQa, RoiEditor, SelectionStore

VARIABLE part

webVars == <<part, vars, adminVars, reviewVars, qaVars, editorVars, storeVars>>

\* Who is not running is in one fixed initial state.
Resting ==
  /\ part # "settings" => settings = Empty /\ dryRun
  /\ part # "editor" => drawn = NoRequest
  /\ part # "selector" => loaded = CHOOSE catalog \in Catalog : TRUE

WebInit ==
  /\ part \in {"renders", "settings", "reviews", "qa", "editor", "selector"}
  /\ Init /\ ManualReviewInit /\ PpeHumanQaInit
  /\ IF part = "editor" THEN RoiEditorInit
     ELSE editing = "request" /\ planFile = Absent
  /\ AdminStateInit /\ SelectionStoreInit
  /\ Resting

OnlyRenders == part = "renders" /\ UNCHANGED <<part, adminVars, reviewVars, qaVars, editorVars, storeVars>>
OnlySettings == part = "settings" /\ UNCHANGED <<part, vars, reviewVars, qaVars, editorVars, storeVars>>
OnlyReviews == part = "reviews" /\ UNCHANGED <<part, vars, adminVars, qaVars, editorVars, storeVars>>
OnlyQa == part = "qa" /\ UNCHANGED <<part, vars, adminVars, reviewVars, editorVars, storeVars>>
OnlyEditor == part = "editor" /\ UNCHANGED <<part, vars, adminVars, reviewVars, qaVars, storeVars>>
OnlySelector == part = "selector" /\ UNCHANGED <<part, vars, adminVars, reviewVars, qaVars, editorVars>>

WebNext ==
  \/ OnlyRenders /\ Next
  \/ OnlySettings /\ AdminStateNext
  \/ OnlyReviews /\ ManualReviewNext
  \/ OnlyQa /\ PpeHumanQaNext
  \/ OnlyEditor /\ RoiEditorNext
  \/ OnlySelector /\ SelectionStoreNext

\* The fairness of each module, for the part that runs.  A lock has one
\* owner, so that it is enough if some owner goes on.
WebFairness ==
  /\ WF_adminVars(part = "settings" /\ \E t \in AdminThread : StopWaited(t))
  /\ \A r \in Reviewer : WF_reviewVars(part = "reviews" /\ PutStep(r))
  /\ \A c \in Client : WF_storeVars(part = "selector" /\ SaveStep(c))
  /\ \A j \in Job : WF_vars(part = "renders" /\ \E ok \in BOOLEAN : RequestStep(j, ok))
  /\ WF_vars(part = "renders" /\ \E ok \in BOOLEAN : WorkerStep(ok))
  /\ WF_vars(part = "renders" /\ \E ok \in BOOLEAN : StartStep(ok))
  /\ WF_vars(part = "renders" /\ \E ok \in BOOLEAN : StopStep(ok))

WebSpec == WebInit /\ [][WebNext]_webVars /\ WebFairness

-----------------------------------------------------------------------------
\* The type invariants of the modules.
WebTypeOK ==
  /\ TypeOK /\ AdminStateTypeOK /\ ManualReviewTypeOK /\ PpeHumanQaTypeOK
  /\ RoiEditorTypeOK /\ SelectionStoreTypeOK

\* What is final or derived never goes back: exports of the review, a complete
\* QA, the catalog that a plan is bound to.
WebStepsHold == ExportNotOlder /\ CompletionIsFinal /\ PlansMatchCatalog

LockHeld == managerLock # Nothing \/ exportLock # Unlocked \/ storeLock # Nobody

\* Nobody keeps a lock: a stop whose pipeline ignores the signal, a put whose
\* export fails, a save whose write fails.  Each of the three is StopReturns,
\* ExportsEnd or SavesEnd of its part, since the other locks are free there.
WebLocksAreReleased == LockHeld ~> ~LockHeld

-----------------------------------------------------------------------------
(* Requests and catalogs for the selection store                           *)

Plain == [category |-> "fence", start |-> 0, end |-> 4, rois |-> 1,
          pose |-> "absent", crossing |-> "absent", forklift |-> "absent"]

PpeClip(start, end) ==
  [Plain EXCEPT !.category = "ppe", !.start = start, !.end = end, !.rois = start % 2]

\* The combinations of options that a save must refuse or the planner accept,
\* clips between two frames and clips beyond the frames.
MCRequest ==
  {[Plain EXCEPT !.pose = option[1], !.crossing = option[2]] :
     option \in {<<"on", "off">>, <<"absent", "on">>, <<"off", "on">>}}
  \cup {[Plain EXCEPT !.rois = 0]}
  \cup {PpeClip(3, 5), [PpeClip(1, 4) EXCEPT !.forklift = "on"]}

\* A clip that begins behind the end of the video.
MCClipRequest == {[Plain EXCEPT !.start = 6, !.end = 7]}

\* Containers longer than their frames, one catalog with another revision.
MCCatalog ==
  {[revision |-> 1, frames |-> 2, duration |-> 5], [revision |-> 1, frames |-> 3, duration |-> 5],
   [revision |-> 2, frames |-> 2, duration |-> 5]}
=============================================================================
