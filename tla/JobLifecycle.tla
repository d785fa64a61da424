---------------------------- MODULE JobLifecycle ----------------------------
(***************************************************************************)
(* What the job service of admin/roi_render_jobs.py promises a client that *)
(* polls its job: the status only moves forward, a job that ends stays as  *)
(* it ended, and only a job whose request was accepted runs or completes.  *)
(***************************************************************************)
CONSTANT Job
VARIABLES
  status,           \* what the job file says, "none" before it exists
  accepted          \* the jobs whose request was answered with 202

jobVars == <<status, accepted>>

Ended == {"complete", "error"}

Init == status = [j \in Job |-> "none"] /\ accepted = {}

Move(j, from, to) == status[j] = from /\ status' = [status EXCEPT ![j] = to]

Create(j) == Move(j, "none", "queued") /\ UNCHANGED accepted

Accept(j) ==
  /\ status[j] = "queued" /\ j \notin accepted
  /\ accepted' = accepted \union {j}
  /\ UNCHANGED status

Run(j) == j \in accepted /\ Move(j, "queued", "running") /\ UNCHANGED accepted

Complete(j) ==
  j \in accepted /\ Move(j, "running", "complete") /\ UNCHANGED accepted

Fail(j) ==
  (Move(j, "queued", "error") \/ Move(j, "running", "error")) /\ UNCHANGED accepted

Next == \E j \in Job : Create(j) \/ Accept(j) \/ Run(j) \/ Complete(j) \/ Fail(j)

Spec == Init /\ [][Next]_jobVars
=============================================================================
