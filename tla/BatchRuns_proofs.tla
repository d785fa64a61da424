---------------------------- MODULE BatchRuns_proofs ----------------------------
(***************************************************************************)
(* Proofs about the batch commands: SelectionRun for any workers, plans,   *)
(* jobs and frames, PpeSelectionRun for any profiles and videos, and for   *)
(* any number of kills, power losses and failures.                         *)
(***************************************************************************)
EXTENDS BatchRuns, SequenceTheorems, TLAPS

-----------------------------------------------------------------------------
(* The selection worker.                                                   *)

AfterInference == {"pose", "transcode", "fuse", "fuse receipt", "render", "rendering",
                   "publish", "row"}
AfterFusion == {"fuse receipt", "render", "rendering", "publish", "row"}
Inferring == {"wait", "convert", "receipt"}

RowsFollow(w) ==
  /\ status.state = "running"
  /\ \A j \in SelectionJobs :
       status.rows[j] = IF j < worker[w].job THEN "complete"
                        ELSE IF j = worker[w].job /\ worker[w].pc # "next" THEN "running"
                        ELSE "pending"

\* What a worker that is not off knows of the job it is in: it holds the lock, the
\* recorded plan is its own, and the step it is at says how far the files are.
WorkerOK(w) ==
  worker[w].pc # "off" =>
    /\ lock = w
    /\ worker[w].plan \in Plan
    /\ worker[w].pc \in {"plan", "status"} => worker[w].job = 1
    /\ worker[w].pc # "plan" => manifest = worker[w].plan
    /\ worker[w].pc \in InJob \cup {"next", "row"} => RowsFollow(w)
    /\ worker[w].pc \in {"launch"} \cup Inferring => receipt[worker[w].job].take = 0
    /\ worker[w].pc = "receipt" => predictions[worker[w].job].take # 0
    /\ worker[w].pc \in AfterInference => receipt[worker[w].job].take # 0
    /\ worker[w].pc \in AfterFusion => fused[worker[w].job].file # 0
    /\ worker[w].pc = "publish" => render[worker[w].job].stage = "rendered"
    /\ worker[w].pc = "row" => deliverable[worker[w].job] # 0

\* The files of a job: everything after the inference shows the take of its receipt.
JobOK(j) ==
  /\ receipt[j].take # 0 => /\ receipt[j].take = predictions[j].take
                            /\ receipt[j].plan = manifest
                            /\ manifest # NoPlan
  /\ fused[j].file # 0 => receipt[j].take # 0 /\ fused[j].file = receipt[j].take
  /\ orphan[j] => fused[j].file # 0
  /\ render[j].stage # "none" => receipt[j].take # 0 /\ render[j].of = receipt[j].take
  /\ deliverable[j] # 0 => deliverable[j] = receipt[j].take
  /\ status.rows[j] = "complete" => deliverable[j] # 0
  /\ container[j] # 0 \/ dump[j].named # 0 \/ dump[j].rest # 0 => dump[j].take # 0

\* A container was started for the job since the last kill or failure.
Started(j) ==
  \/ receipt[j].take # 0
  \/ \E w \in Worker : worker[w].job = j /\ worker[w].pc \in Inferring

\* Every further container of a job costs a kill or a failure.
TakeOK(j) == dump[j].take <= kills + failures + (IF Started(j) THEN 1 ELSE 0)

SelectionInv ==
  /\ SelectionTypeOK
  /\ \A w \in Worker : WorkerOK(w)
  /\ \A j \in SelectionJobs : JobOK(j) /\ TakeOK(j)

Workers == [pc : InJob \cup {"off", "plan", "status", "next", "row", "done"},
            job : SelectionJobs, plan : Plan \cup {NoPlan}]

\* SelectionTypeOK without its first conjunct.
FilesTyped ==
  /\ lock \in Worker \cup {NoWorker}
  /\ manifest \in Plan \cup {NoPlan}
  /\ status \in [state : {"none", "running", "complete", "failed"},
                 rows : [SelectionJobs -> {"pending", "running", "complete", "failed"}]]
  /\ dump \in [SelectionJobs -> [take : Takes, named : 0 .. Frames,
                                 whole : 0 .. Frames, first : 0 .. Frames,
                                 rest : 0 .. Frames]]
  /\ container \in [SelectionJobs -> Takes]
  /\ predictions \in [SelectionJobs -> [take : Takes, whole : BOOLEAN]]
  /\ receipt \in [SelectionJobs -> [take : Takes, plan : Plan \cup {NoPlan}]]
  /\ pose \in [SelectionJobs -> {"none", "partial", "complete"}]
  /\ fused \in [SelectionJobs -> [file : Takes, receipt : Takes]]
  /\ render \in [SelectionJobs -> [stage : {"none", "video", "rendered"}, of : Takes]]
  /\ orphan \in [SelectionJobs -> BOOLEAN]
  /\ deliverable \in [SelectionJobs -> Takes]
  /\ kills \in 0 .. MaxKills /\ failures \in 0 .. MaxFailures
  /\ \A j \in SelectionJobs : dump[j].whole <= dump[j].named /\ dump[j].first <= dump[j].named

LEMMA TypeSplits ==
  /\ SelectionTypeOK <=> worker \in [Worker -> Workers] /\ FilesTyped
  /\ SelectionTypeOK' <=> worker' \in [Worker -> Workers] /\ FilesTyped'
  BY DEF SelectionTypeOK, Workers, FilesTyped

LEMMA SelectionNumbers ==
  /\ JobCount \in Nat /\ JobCount >= 1 /\ Frames \in Nat /\ Frames >= 1
  /\ MaxKills \in Nat /\ MaxFailures \in Nat
  /\ 1 \in SelectionJobs
  /\ NoWorker \notin Worker /\ NoPlan \notin Plan
  BY SelectionAssumption DEF SelectionJobs

\* The flock: while one worker acts, every other one is off.
LEMMA OthersAreOff ==
  ASSUME SelectionInv, NEW w \in Worker, worker[w].pc # "off", NEW v \in Worker \ {w}
  PROVE  worker[v].pc = "off"
  BY DEF SelectionInv, WorkerOK

\* What is to be shown of a step of worker w.
LEMMA StepOf ==
  ASSUME SelectionInv, NEW w \in Worker, SelectionTypeOK', WorkerOK(w)',
         \A v \in Worker \ {w} : worker'[v].pc = "off",
         \A j \in SelectionJobs : JobOK(j)' /\ TakeOK(j)'
  PROVE  SelectionInv'
<1>1. \A v \in Worker : WorkerOK(v)'
  BY DEF WorkerOK
<1>2. QED
  BY <1>1 DEF SelectionInv

LEMMA OthersStayOff ==
  ASSUME SelectionInv, NEW w \in Worker, NEW x, worker[w].pc # "off",
         worker' = [worker EXCEPT ![w] = x]
  PROVE  \A v \in Worker \ {w} : worker'[v].pc = "off"
  BY OthersAreOff DEF SelectionInv, SelectionTypeOK

\* A job whose files did not change, while the plan is the recorded one, stays sound.
LEMMA JobStays ==
  ASSUME SelectionInv, NEW j \in SelectionJobs,
         receipt'[j] = receipt[j], predictions'[j] = predictions[j],
         fused'[j] = fused[j], render'[j] = render[j], deliverable'[j] = deliverable[j],
         dump'[j] = dump[j], container'[j] \in {0, container[j]},
         orphan'[j] \in {FALSE, orphan[j]},
         status'.rows[j] = "complete" => status.rows[j] = "complete",
         manifest' = manifest
  PROVE  JobOK(j)'
<1>1. JobOK(j)
  BY DEF SelectionInv
<1>2. QED
  BY <1>1 DEF JobOK

LEMMA TakeStays ==
  ASSUME SelectionInv, NEW j \in SelectionJobs,
         dump'[j].take = dump[j].take,
         kills' = kills, failures' = failures,
         Started(j) => Started(j)'
  PROVE  TakeOK(j)'
<1>1. TakeOK(j)
  BY DEF SelectionInv
<1>2. dump[j].take \in Nat /\ kills \in Nat /\ failures \in Nat
  BY SelectionNumbers DEF SelectionInv, SelectionTypeOK, Takes
<1>3. QED
  BY <1>1, <1>2 DEF TakeOK

\* A kill or a failure pays for the next container.
LEMMA TakePaid ==
  ASSUME SelectionInv, NEW j \in SelectionJobs,
         dump'[j].take = dump[j].take,
         kills' + failures' = kills + failures + 1
  PROVE  TakeOK(j)'
<1>1. TakeOK(j)
  BY DEF SelectionInv
<1>2. dump[j].take \in Nat /\ kills \in Nat /\ failures \in Nat
  BY SelectionNumbers DEF SelectionInv, SelectionTypeOK, Takes
<1>3. QED
  BY <1>1, <1>2 DEF TakeOK

\* Steps that stay where containers are awaited and converted, or never were there.
LEMMA StartedStays ==
  ASSUME SelectionInv, NEW w \in Worker, NEW x,
         worker' = [worker EXCEPT ![w] = x], receipt' = receipt,
         worker[w].pc \in Inferring => x.pc \in Inferring /\ x.job = worker[w].job,
         NEW j \in SelectionJobs, Started(j)
  PROVE  Started(j)'
<1>1. CASE receipt[j].take # 0
  BY <1>1 DEF Started
<1>2. ASSUME NEW v \in Worker, worker[v].job = j, worker[v].pc \in Inferring
      PROVE  worker'[v].job = j /\ worker'[v].pc \in Inferring
  <2>1. worker'[v] = IF v = w THEN x ELSE worker[v]
    BY DEF SelectionInv, SelectionTypeOK
  <2>2. QED
    BY <1>2, <2>1
<1>3. QED
  BY <1>1, <1>2 DEF Started

\* A move of a worker that writes nothing.
LEMMA MoveHolds ==
  ASSUME SelectionInv, NEW w \in Worker, NEW x, worker[w].pc # "off",
         worker' = [worker EXCEPT ![w] = x],
         x \in Workers,
         lock' \in Worker \cup {NoWorker},
         UNCHANGED <<files, processes, kills, failures>>,
         worker[w].pc \in Inferring => x.pc \in Inferring /\ x.job = worker[w].job,
         WorkerOK(w)'
  PROVE  SelectionInv'
<1> USE DEF files, processes
<1>1. SelectionTypeOK'
  BY DEF SelectionInv, SelectionTypeOK, Workers
<1>2. ASSUME NEW j \in SelectionJobs
      PROVE  JobOK(j)' /\ TakeOK(j)'
  <2>1. JobOK(j)'
    BY JobStays
  <2>2. TakeOK(j)'
    BY StartedStays, TakeStays
  <2>3. QED
    BY <2>1, <2>2
<1>3. QED
  BY <1>1, <1>2, OthersStayOff, StepOf

Moved(w, to) == [worker[w] EXCEPT !.pc = to]

\* Who acts has a place and a plan.
LEMMA AtWork ==
  ASSUME SelectionInv, NEW w \in Worker, NEW from, NEW to, Step(w, from, to),
         to \in InJob \cup {"off", "plan", "status", "next", "row", "done"}
  PROVE  /\ worker[w].pc = from
         /\ worker[w].job \in SelectionJobs
         /\ worker' = [worker EXCEPT ![w] = Moved(w, to)]
         /\ worker'[w].pc = to /\ worker'[w].job = worker[w].job
         /\ worker'[w].plan = worker[w].plan
         /\ Moved(w, to).pc = to /\ Moved(w, to).job = worker[w].job
         /\ WorkerOK(w)
         /\ Moved(w, to) \in Workers
         /\ worker' \in [Worker -> Workers]
<1>1. worker \in [Worker -> Workers]
  BY DEF SelectionInv, SelectionTypeOK, Workers
<1>2. worker[w] \in Workers
  BY <1>1
<1>3. worker' = [worker EXCEPT ![w] = Moved(w, to)]
  BY <1>1 DEF Step, Moved
<1>4. worker'[w] = Moved(w, to)
  BY <1>1, <1>3
<1>5. /\ Moved(w, to).pc = to /\ Moved(w, to).job = worker[w].job
      /\ Moved(w, to).plan = worker[w].plan /\ Moved(w, to) \in Workers
  BY <1>2 DEF Moved, Workers
<1>6. worker[w].pc = from /\ WorkerOK(w)
  BY DEF Step, SelectionInv
<1>7. worker[w].job \in SelectionJobs
  BY <1>2 DEF Workers
<1>8. QED
  BY <1>1, <1>3, <1>4, <1>5, <1>6, <1>7

\* A worker starts when nobody has the lock, so all others are off.
LEMMA AcquireHolds ==
  ASSUME SelectionInv, NEW w \in Worker, NEW p \in Plan, Acquire(w, p)
  PROVE  SelectionInv'
<1> USE DEF files, processes
<1> DEFINE x == [pc |-> "plan", job |-> 1, plan |-> p]
<1>1. \A v \in Worker : worker[v].pc = "off"
  BY SelectionNumbers DEF Acquire, SelectionInv, WorkerOK
<1>2. worker' = [worker EXCEPT ![w] = x] /\ lock' = w
  BY DEF Acquire
<1>3. SelectionTypeOK'
  BY <1>2, SelectionNumbers DEF Acquire, SelectionInv, SelectionTypeOK
<1>4. worker'[w] = x /\ \A v \in Worker \ {w} : worker'[v].pc = "off"
  BY <1>1, <1>2 DEF SelectionInv, SelectionTypeOK
<1>5. WorkerOK(w)'
  <2>1. worker'[w].pc = "plan" /\ worker'[w].plan = p /\ worker'[w].job = 1
    BY <1>4
  <2>2. QED
    BY <1>2, <2>1 DEF WorkerOK, InJob, Inferring, AfterInference, AfterFusion
<1>6. ASSUME NEW j \in SelectionJobs
      PROVE  JobOK(j)' /\ TakeOK(j)'
  <2>1. JobOK(j)'
    BY JobStays DEF Acquire
  <2>2. Started(j) => Started(j)'
    BY <1>1 DEF Started, Inferring, Acquire
  <2>3. QED
    BY <2>1, <2>2, TakeStays DEF Acquire
<1>7. QED
  BY <1>3, <1>4, <1>5, <1>6, StepOf

\* The moves between two writes.
LEMMA RefusePlanHolds ==
  ASSUME SelectionInv, NEW w \in Worker, RefusePlan(w)
  PROVE  SelectionInv'
<1>1. worker'[w] = Off
  BY DEF RefusePlan, SelectionInv, SelectionTypeOK
<1>2. WorkerOK(w)'
  BY <1>1 DEF WorkerOK, Off
<1>3. QED
  BY <1>2, MoveHolds, SelectionNumbers DEF RefusePlan, Off, Inferring, Workers

LEMMA ResumesHold ==
  ASSUME SelectionInv, NEW w \in Worker,
         \/ ResumeInference(w) \/ ReuseKitti(w) \/ Waited(w) \/ ResumePose(w)
         \/ ResumeFusion(w) \/ ResumeRender(w) \/ Rendered(w)
  PROVE  SelectionInv'
<1> DEFINE j == worker[w].job
<1> USE DEF InJob, Inferring, AfterInference, AfterFusion
<1>1. JobOK(j)
  BY DEF SelectionInv, SelectionTypeOK
<1>2. PICK from \in InJob, to \in InJob :
        /\ Step(w, from, to)
        /\ from \in Inferring => to \in Inferring
        /\ UNCHANGED <<lock, files, processes, kills, failures>>
        /\ to # "receipt" /\ to # "launch"
        /\ to \in Inferring => from \in Inferring \/ receipt[j].take = 0
        /\ to \in AfterInference => from \in AfterInference \/ receipt[j].take # 0
        /\ to \in AfterFusion => from \in AfterFusion \/ fused[j].file # 0
        /\ to = "publish" => render[j].stage = "rendered"
  <2>1. CASE ResumeInference(w)
    BY <2>1 DEF ResumeInference, InferenceComplete
  <2>2. CASE ReuseKitti(w)
    <3>1. receipt[j].take = 0
      BY <1>1, <2>2 DEF ReuseKitti, InferenceComplete, JobOK
    <3>2. QED
      BY <2>2, <3>1 DEF ReuseKitti
  <2>3. CASE Waited(w)
    BY <2>3 DEF Waited
  <2>4. CASE ResumePose(w)
    BY <2>4 DEF ResumePose
  <2>5. CASE ResumeFusion(w)
    BY <2>5 DEF ResumeFusion, FusionComplete
  <2>6. CASE ResumeRender(w)
    BY <2>6 DEF ResumeRender, RenderComplete
  <2>7. CASE Rendered(w)
    BY <2>7 DEF Rendered, RenderComplete
  <2>8. QED
    BY <2>1, <2>2, <2>3, <2>4, <2>5, <2>6, <2>7
<1>3. /\ worker[w].pc = from /\ WorkerOK(w)
      /\ worker' = [worker EXCEPT ![w] = Moved(w, to)]
      /\ worker'[w].pc = to /\ worker'[w].job = j /\ worker'[w].plan = worker[w].plan
      /\ Moved(w, to).pc = to /\ Moved(w, to).job = j /\ Moved(w, to) \in Workers
  <2>1. Step(w, from, to)
    BY <1>2
  <2>2. to \in InJob \cup {"off", "plan", "status", "next", "row", "done"}
    BY <1>2
  <2> HIDE DEF InJob
  <2>3. QED
    BY <2>1, <2>2, AtWork
<1>4. RowsFollow(w)'
  <2>1. RowsFollow(w)
    BY <1>3 DEF WorkerOK
  <2>2. status' = status
    BY <1>2 DEF files
  <2>3. QED
    BY <1>3, <2>1, <2>2 DEF RowsFollow
<1>5. WorkerOK(w)'
  BY <1>2, <1>3, <1>4 DEF WorkerOK, files
<1>6. lock' \in Worker \cup {NoWorker}
  BY <1>2 DEF SelectionInv, SelectionTypeOK
<1>7. QED
  BY <1>2, <1>3, <1>5, <1>6, MoveHolds DEF files, processes

LEMMA TypedFiles ==
  ASSUME SelectionInv, NEW j \in SelectionJobs
  PROVE  /\ dump[j] \in [take : Takes, named : 0 .. Frames, whole : 0 .. Frames,
                         first : 0 .. Frames, rest : 0 .. Frames]
         /\ container[j] \in Takes
         /\ predictions[j] \in [take : Takes, whole : BOOLEAN]
         /\ receipt[j] \in [take : Takes, plan : Plan \cup {NoPlan}]
         /\ fused[j] \in [file : Takes, receipt : Takes]
         /\ render[j] \in [stage : {"none", "video", "rendered"}, of : Takes]
         /\ dump[j].whole <= dump[j].named /\ dump[j].first <= dump[j].named
         /\ 0 \in Takes /\ kills \in 0 .. MaxKills /\ failures \in 0 .. MaxFailures
         /\ JobOK(j) /\ TakeOK(j)
  BY SelectionNumbers DEF SelectionInv, SelectionTypeOK, Takes

\* What a worker knows of its job when it goes on to the step to.
Knows(w, to, j) ==
  /\ to \in {"launch"} \cup Inferring => receipt[j].take = 0
  /\ to = "receipt" => predictions[j].take # 0
  /\ to \in AfterInference => receipt[j].take # 0
  /\ to \in AfterFusion => fused[j].file # 0
  /\ to = "publish" => render[j].stage = "rendered"
  /\ to = "row" => deliverable[j] # 0

LEMMA InJobFacts ==
  ASSUME SelectionInv, NEW w \in Worker, NEW from \in InJob,
         NEW to \in InJob \cup {"row"}, Step(w, from, to)
  PROVE  /\ worker[w].pc = from /\ worker[w].job \in SelectionJobs
         /\ Knows(w, from, worker[w].job)
         /\ worker[w].plan \in Plan /\ manifest = worker[w].plan
         /\ worker'[w].pc = to /\ worker'[w].job = worker[w].job
         /\ worker' = [worker EXCEPT ![w] = Moved(w, to)]
         /\ Moved(w, to).pc = to /\ Moved(w, to).job = worker[w].job
         /\ \A j \in SelectionJobs \ {worker[w].job} :
              (\E v \in Worker : worker[v].job = j /\ worker[v].pc \in Inferring)
              <=> (\E v \in Worker : worker'[v].job = j /\ worker'[v].pc \in Inferring)
<1>1. /\ worker[w].pc = from /\ worker[w].job \in SelectionJobs /\ WorkerOK(w)
      /\ worker' = [worker EXCEPT ![w] = Moved(w, to)]
      /\ worker'[w].pc = to /\ worker'[w].job = worker[w].job
      /\ Moved(w, to).pc = to /\ Moved(w, to).job = worker[w].job
  BY AtWork
<1>2. from # "off" /\ from # "plan"
  BY DEF InJob
<1>3. \A v \in Worker \ {w} : worker'[v] = worker[v]
  BY <1>1 DEF SelectionInv, SelectionTypeOK
<1>4. QED
  BY <1>1, <1>2, <1>3 DEF WorkerOK, Knows

\* A step inside a job that leaves plan and status alone.
LEMMA InJobHolds ==
  ASSUME SelectionInv, NEW w \in Worker, NEW from \in InJob,
         NEW to \in InJob \cup {"row"}, Step(w, from, to),
         UNCHANGED <<lock, manifest, status>>,
         FilesTyped', Knows(w, to, worker[w].job)',
         \A j \in SelectionJobs : JobOK(j)' /\ TakeOK(j)'
  PROVE  SelectionInv'
<1>1. /\ worker[w].pc = from /\ WorkerOK(w)
      /\ worker' = [worker EXCEPT ![w] = Moved(w, to)]
      /\ worker'[w].pc = to /\ worker'[w].job = worker[w].job
      /\ worker'[w].plan = worker[w].plan
      /\ worker' \in [Worker -> Workers]
  BY AtWork
<1>2. from # "off" /\ from # "plan" /\ to # "off" /\ to # "plan" /\ to # "status"
  BY DEF InJob
<1>4. SelectionTypeOK'
  BY <1>1, TypeSplits
<1>5. RowsFollow(w)'
  <2>1. from # "next" /\ to # "next" /\ RowsFollow(w)
    BY <1>1, <1>2 DEF WorkerOK, InJob
  <2>2. QED
    BY <1>1, <2>1 DEF RowsFollow
<1>6. WorkerOK(w)'
  <2>1. Knows(w, to, worker[w].job)'
        <=> /\ to \in {"launch"} \cup Inferring => receipt'[worker[w].job].take = 0
            /\ to = "receipt" => predictions'[worker[w].job].take # 0
            /\ to \in AfterInference => receipt'[worker[w].job].take # 0
            /\ to \in AfterFusion => fused'[worker[w].job].file # 0
            /\ to = "publish" => render'[worker[w].job].stage = "rendered"
            /\ to = "row" => deliverable'[worker[w].job] # 0
    BY <1>1 DEF Knows
  <2>2. QED
    BY <1>1, <1>2, <1>5, <2>1 DEF WorkerOK
<1>7. \A v \in Worker \ {w} : worker'[v].pc = "off"
  BY <1>1, <1>2, OthersStayOff
<1>8. QED
  BY <1>4, <1>6, <1>7, StepOf

\* A directory that was made anew.
LEMMA Emptied ==
  ASSUME NEW t \in Takes
  PROVE  /\ NoDump(t) \in [take : Takes, named : 0 .. Frames, whole : 0 .. Frames,
                            first : 0 .. Frames, rest : 0 .. Frames]
         /\ NoDump(t).take = t /\ NoDump(t).whole = 0 /\ NoDump(t).named = 0
         /\ NoDump(t).first = 0 /\ NoDump(t).rest = 0
  BY SelectionNumbers DEF NoDump

-----------------------------------------------------------------------------
(* The steps of a worker inside a job.                                     *)

\* Directories and predictions are removed only while nothing is receipted.
LEMMA WipeHolds ==
  ASSUME SelectionInv, NEW w \in Worker, Wipe(w)
  PROVE  SelectionInv'
<1> DEFINE j == worker[w].job
<1>1. Step(w, "inference", "launch") /\ UNCHANGED <<lock, manifest, status, kills, failures>>
  BY DEF Wipe
<1>2. "inference" \in InJob /\ "launch" \in InJob \cup {"row"}
  BY DEF InJob
<1>3. /\ j \in SelectionJobs /\ Knows(w, "inference", j) /\ worker'[w].job = j
      /\ worker'[w].pc = "launch"
      /\ worker[w].pc = "inference" /\ worker' = [worker EXCEPT ![w] = Moved(w, "launch")]
      /\ Moved(w, "launch").pc = "launch" /\ Moved(w, "launch").job = j
      /\ worker[w].plan \in Plan /\ manifest = worker[w].plan
  BY <1>1, <1>2, InJobFacts
<1>4. FilesTyped /\ JobOK(j) /\ TakeOK(j)
  BY <1>3, TypeSplits DEF SelectionInv
<1>5. receipt[j].take = 0
  BY <1>4 DEF Wipe, InferenceComplete, JobOK
<1> DEFINE left == IF container[j] # 0 THEN [dump[j] EXCEPT !.first = dump[j].named, !.rest = 0]
                   ELSE NoDump(dump[j].take)
           frames == [take : Takes, named : 0 .. Frames, whole : 0 .. Frames,
                      first : 0 .. Frames, rest : 0 .. Frames]
<1>5a. /\ left \in frames
      /\ left.take = dump[j].take /\ left.whole <= left.named /\ left.first <= left.named
      /\ left.named \in {0, dump[j].named} /\ left.rest = 0
  <2>1. /\ dump[j] \in frames
        /\ dump[j].whole <= dump[j].named /\ 0 \in 0 .. Frames
    BY <1>3, <1>4, SelectionNumbers DEF FilesTyped
  <2>2. dump[j].take \in Takes /\ container[j] \in Takes
    BY <1>3, TypedFiles
  <2>3. CASE container[j] # 0
    <3> DEFINE under == [dump[j] EXCEPT !.first = dump[j].named]
    <3>1. /\ under \in frames /\ under.take = dump[j].take /\ under.named = dump[j].named
          /\ under.whole = dump[j].whole /\ under.first = dump[j].named
      BY <2>1
    <3>2. left = [under EXCEPT !.rest = 0]
      BY <2>3
    <3> HIDE DEF left, under
    <3>3. QED
      BY <2>1, <3>1, <3>2, SelectionNumbers
  <2>4. CASE container[j] = 0
    BY <2>2, <2>4, Emptied, SelectionNumbers
  <2>5. QED
    BY <2>3, <2>4
<1>5b. dump' = [dump EXCEPT ![j] = left]
  BY <1>3, <1>4 DEF Wipe, FilesTyped
<1> HIDE DEF left
<1>6. FilesTyped'
  BY <1>1, <1>3, <1>4, SelectionNumbers, <1>5a, <1>5b DEF Wipe, FilesTyped, Takes, processes, NoDump, NoPredictions
<1>7. Knows(w, "launch", worker[w].job)'
  BY <1>3, <1>4, <1>5 DEF Wipe, Knows, JobOK, FilesTyped, Inferring, AfterInference, AfterFusion
<1>8. ASSUME NEW i \in SelectionJobs
      PROVE  JobOK(i)'
  <2>1. CASE i = j
    BY <1>1, <1>3, <1>4, <2>1, <1>5, <1>5a, <1>5b, SelectionNumbers DEF Wipe, JobOK, FilesTyped, processes, NoPredictions, Takes
  <2>2. CASE i # j
    BY <1>1, <1>3, <1>4, <2>2, JobStays DEF Wipe, FilesTyped, processes
  <2>3. QED
    BY <2>1, <2>2
<1>9. ASSUME NEW i \in SelectionJobs
      PROVE  TakeOK(i)'
  <2>1. dump'[i].take = dump[i].take
    BY <1>3, <1>4, <1>5a, <1>5b DEF Wipe, FilesTyped
  <2>2. Started(i) => Started(i)'
    <3>1. worker' = [worker EXCEPT ![w] = Moved(w, "launch")] /\ worker[w].pc = "inference"
      BY <1>3
    <3>2. Moved(w, "launch").pc = "launch" /\ Moved(w, "launch").job = j
      BY <1>3
    <3>3. receipt' = receipt
      BY DEF Wipe
    <3>4. "inference" \in Inferring => "launch" \in Inferring
      BY DEF Inferring
    <3>5. QED
      BY <3>1, <3>2, <3>3, <3>4, StartedStays
  <2>3. QED
    BY <1>1, <2>1, <2>2, TakeStays
<1>10. QED
  BY <1>1, <1>2, <1>6, <1>7, <1>8, <1>9, InJobHolds

\* The next take of the job: paid for by a kill or a failure since the last one.
LEMMA LaunchHolds ==
  ASSUME SelectionInv, NEW w \in Worker, Launch(w)
  PROVE  SelectionInv'
<1> DEFINE j == worker[w].job
<1>1. Step(w, "launch", "wait") /\ UNCHANGED <<lock, manifest, status, kills, failures>>
  BY DEF Launch
<1>2. "launch" \in InJob /\ "wait" \in InJob \cup {"row"}
  BY DEF InJob
<1>3. /\ j \in SelectionJobs /\ Knows(w, "launch", j) /\ worker'[w].job = j
      /\ worker'[w].pc = "wait"
      /\ worker[w].pc = "launch" /\ worker' = [worker EXCEPT ![w] = Moved(w, "wait")]
      /\ Moved(w, "wait").pc = "wait" /\ Moved(w, "wait").job = j
      /\ worker[w].plan \in Plan /\ manifest = worker[w].plan
  BY <1>1, <1>2, InJobFacts
<1>4. FilesTyped /\ JobOK(j) /\ TakeOK(j)
  BY <1>3, TypeSplits DEF SelectionInv
<1>5. /\ receipt[j].take = 0 /\ dump[j].take + 1 \in Takes
      /\ dump[j].take \in Nat /\ dump[j].take <= kills + failures
      /\ kills \in Nat /\ failures \in Nat
  <2>1. receipt[j].take = 0
    BY <1>3 DEF Knows
  <2>2. \A v \in Worker : v # w => worker[v].pc = "off"
    BY <1>1, <1>2, OthersAreOff DEF Step, InJob
  <2>3. ~Started(j)
    BY <1>1, <2>1, <2>2 DEF Started, Inferring, Step
  <2>4. /\ dump[j].take \in Nat /\ kills \in Nat /\ failures \in Nat
        /\ kills <= MaxKills /\ failures <= MaxFailures
    BY <1>3, <1>4, SelectionNumbers DEF FilesTyped, Takes
  <2>5. dump[j].take <= kills + failures
    BY <1>4, <2>3, <2>4 DEF TakeOK
  <2>6. QED
    BY <2>1, <2>4, <2>5, SelectionNumbers DEF Takes
<1> DEFINE new == [NoDump(dump[j].take + 1) EXCEPT !.rest = dump[j].named - dump[j].first]
           frames == [take : Takes, named : 0 .. Frames, whole : 0 .. Frames,
                      first : 0 .. Frames, rest : 0 .. Frames]
<1>5a. /\ new \in frames
      /\ new.take = dump[j].take + 1 /\ new.whole <= new.named /\ new.named = 0
      /\ new.first <= new.named
  <2>1. dump[j].named - dump[j].first \in 0 .. Frames
    BY <1>3, TypedFiles, SelectionNumbers
  <2> DEFINE empty == NoDump(dump[j].take + 1)
  <2>2. /\ empty \in frames /\ empty.take = dump[j].take + 1
        /\ empty.whole = 0 /\ empty.named = 0 /\ empty.first = 0
    BY <1>5, Emptied
  <2>3. new = [empty EXCEPT !.rest = dump[j].named - dump[j].first]
    OBVIOUS
  <2> HIDE DEF empty, new
  <2>4. QED
    BY <2>1, <2>2, <2>3
<1>5b. dump' = [dump EXCEPT ![j] = new]
  BY DEF Launch
<1>5c. /\ container' = [container EXCEPT ![j] = dump[j].take + 1]
      /\ UNCHANGED <<predictions, receipt, pose, fused, render, deliverable, orphan>>
  BY DEF Launch
<1> HIDE DEF new
<1>6. FilesTyped'
  BY <1>1, <1>3, <1>4, SelectionNumbers, <1>5, <1>5a, <1>5b, <1>5c DEF FilesTyped, Takes
<1>7. Knows(w, "wait", worker[w].job)'
  BY <1>3, <1>4, <1>5 DEF Launch, Knows, JobOK, FilesTyped, Inferring, AfterInference, AfterFusion
<1>8. ASSUME NEW i \in SelectionJobs
      PROVE  JobOK(i)'
  <2>1. CASE i = j
    BY <1>1, <1>3, <1>4, <2>1, <1>5, <1>5a, <1>5b, <1>5c DEF JobOK, FilesTyped
  <2>2. CASE i # j
    BY <1>1, <1>3, <1>4, <2>2, JobStays DEF Launch, FilesTyped, processes
  <2>3. QED
    BY <2>1, <2>2
<1>9. ASSUME NEW i \in SelectionJobs
      PROVE  TakeOK(i)'
  <2>1. CASE i = j
    <3>1. Started(i)'
      BY <1>3, <2>1 DEF Started, Inferring
    <3>2. dump'[i].take = dump[i].take + 1
      BY <1>3, <1>4, <1>5a, <1>5b, <2>1 DEF FilesTyped
    <3>3. QED
      BY <1>1, <1>5, <2>1, <3>1, <3>2 DEF TakeOK
  <2>2. CASE i # j
    <3>1. dump'[i].take = dump[i].take
      BY <1>3, <1>4, <1>5b, <2>2 DEF FilesTyped
    <3>2. Started(i) => Started(i)'
      BY <1>1, <1>2, <2>2, InJobFacts DEF Started, Launch
    <3>3. QED
      BY <1>1, <3>1, <3>2, TakeStays
  <2>3. QED
    BY <2>1, <2>2
<1>10. QED
  BY <1>1, <1>2, <1>6, <1>7, <1>8, <1>9, InJobHolds

\* The conversion is of a job without a receipt, and of a dump that exists.
LEMMA ConvertHolds ==
  ASSUME SelectionInv, NEW w \in Worker, Convert(w)
  PROVE  SelectionInv'
<1> DEFINE j == worker[w].job
<1>1. Step(w, "convert", "receipt") /\ UNCHANGED <<lock, manifest, status, kills, failures>>
  BY DEF Convert
<1>2. "convert" \in InJob /\ "receipt" \in InJob \cup {"row"}
  BY DEF InJob
<1>3. /\ j \in SelectionJobs /\ Knows(w, "convert", j) /\ worker'[w].job = j
      /\ worker'[w].pc = "receipt"
      /\ worker[w].pc = "convert" /\ worker' = [worker EXCEPT ![w] = Moved(w, "receipt")]
      /\ Moved(w, "receipt").pc = "receipt" /\ Moved(w, "receipt").job = j
      /\ worker[w].plan \in Plan /\ manifest = worker[w].plan
  BY <1>1, <1>2, InJobFacts
<1>4. FilesTyped /\ JobOK(j) /\ TakeOK(j)
  BY <1>3, TypeSplits DEF SelectionInv
<1>5. receipt[j].take = 0 /\ dump[j].take # 0
  BY <1>3, <1>4, SelectionNumbers DEF Knows, Inferring, Convert, KittiComplete, JobOK
<1>6. FilesTyped'
  BY <1>1, <1>3, <1>4, SelectionNumbers DEF Convert, FilesTyped, Takes, processes
<1>7. Knows(w, "receipt", worker[w].job)'
  BY <1>3, <1>4, <1>5 DEF Convert, Knows, JobOK, FilesTyped, Inferring, AfterInference, AfterFusion
<1>8. ASSUME NEW i \in SelectionJobs
      PROVE  JobOK(i)'
  <2>1. CASE i = j
    BY <1>1, <1>3, <1>4, <2>1, <1>5 DEF Convert, JobOK, FilesTyped, processes
  <2>2. CASE i # j
    BY <1>1, <1>3, <1>4, <2>2, JobStays DEF Convert, FilesTyped, processes
  <2>3. QED
    BY <2>1, <2>2
<1>9. ASSUME NEW i \in SelectionJobs
      PROVE  TakeOK(i)'
  <2>1. dump'[i].take = dump[i].take
    BY <1>3, <1>4 DEF Convert, FilesTyped
  <2>2. Started(i) => Started(i)'
    <3>1. worker' = [worker EXCEPT ![w] = Moved(w, "receipt")] /\ worker[w].pc = "convert"
      BY <1>3
    <3>2. Moved(w, "receipt").pc = "receipt" /\ Moved(w, "receipt").job = j
      BY <1>3
    <3>3. receipt' = receipt
      BY DEF Convert
    <3>4. "convert" \in Inferring => "receipt" \in Inferring
      BY DEF Inferring
    <3>5. QED
      BY <3>1, <3>2, <3>3, <3>4, StartedStays
  <2>3. QED
    BY <1>1, <2>1, <2>2, TakeStays
<1>10. QED
  BY <1>1, <1>2, <1>6, <1>7, <1>8, <1>9, InJobHolds

LEMMA WriteReceiptHolds ==
  ASSUME SelectionInv, NEW w \in Worker, WriteReceipt(w)
  PROVE  SelectionInv'
<1> DEFINE j == worker[w].job
<1>1. Step(w, "receipt", "pose") /\ UNCHANGED <<lock, manifest, status, kills, failures>>
  BY DEF WriteReceipt
<1>2. "receipt" \in InJob /\ "pose" \in InJob \cup {"row"}
  BY DEF InJob
<1>3. /\ j \in SelectionJobs /\ Knows(w, "receipt", j) /\ worker'[w].job = j
      /\ worker'[w].pc = "pose"
      /\ worker[w].pc = "receipt" /\ worker' = [worker EXCEPT ![w] = Moved(w, "pose")]
      /\ Moved(w, "pose").pc = "pose" /\ Moved(w, "pose").job = j
      /\ worker[w].plan \in Plan /\ manifest = worker[w].plan
  BY <1>1, <1>2, InJobFacts
<1>4. FilesTyped /\ JobOK(j) /\ TakeOK(j)
  BY <1>3, TypeSplits DEF SelectionInv
<1>5. receipt[j].take = 0 /\ predictions[j].take # 0 /\ manifest # NoPlan
  BY <1>3, SelectionNumbers DEF Knows, Inferring
<1>6. FilesTyped'
  BY <1>1, <1>3, <1>4, SelectionNumbers DEF WriteReceipt, FilesTyped, Takes, processes
<1>7. Knows(w, "pose", worker[w].job)'
  BY <1>3, <1>4, <1>5 DEF WriteReceipt, Knows, JobOK, FilesTyped, Inferring, AfterInference, AfterFusion
<1>8. ASSUME NEW i \in SelectionJobs
      PROVE  JobOK(i)'
  <2>1. CASE i = j
    BY <1>1, <1>3, <1>4, <2>1, <1>5 DEF WriteReceipt, JobOK, FilesTyped, processes
  <2>2. CASE i # j
    BY <1>1, <1>3, <1>4, <2>2, JobStays DEF WriteReceipt, FilesTyped, processes
  <2>3. QED
    BY <2>1, <2>2
<1>9. ASSUME NEW i \in SelectionJobs
      PROVE  TakeOK(i)'
  <2>1. dump'[i].take = dump[i].take
    BY <1>3, <1>4 DEF WriteReceipt, FilesTyped
  <2>2. Started(i) => Started(i)'
    <3>1. CASE i = j
      BY <1>3, <1>4, <1>5, <3>1 DEF Started, WriteReceipt, FilesTyped
    <3>2. CASE i # j
      <4>1. receipt'[i] = receipt[i]
        BY <1>3, <1>4, <3>2 DEF WriteReceipt, FilesTyped
      <4>2. QED
        BY <1>1, <1>2, <3>2, <4>1, InJobFacts DEF Started
    <3>3. QED
      BY <3>1, <3>2
  <2>3. QED
    BY <1>1, <2>1, <2>2, TakeStays
<1>10. QED
  BY <1>1, <1>2, <1>6, <1>7, <1>8, <1>9, InJobHolds

LEMMA RunPoseHolds ==
  ASSUME SelectionInv, NEW w \in Worker, RunPose(w)
  PROVE  SelectionInv'
<1> DEFINE j == worker[w].job
<1>1. Step(w, "pose", "transcode") /\ UNCHANGED <<lock, manifest, status, kills, failures>>
  BY DEF RunPose
<1>2. "pose" \in InJob /\ "transcode" \in InJob \cup {"row"}
  BY DEF InJob
<1>3. /\ j \in SelectionJobs /\ Knows(w, "pose", j) /\ worker'[w].job = j
      /\ worker'[w].pc = "transcode"
      /\ worker[w].pc = "pose" /\ worker' = [worker EXCEPT ![w] = Moved(w, "transcode")]
      /\ Moved(w, "transcode").pc = "transcode" /\ Moved(w, "transcode").job = j
      /\ worker[w].plan \in Plan /\ manifest = worker[w].plan
  BY <1>1, <1>2, InJobFacts
<1>4. FilesTyped /\ JobOK(j) /\ TakeOK(j)
  BY <1>3, TypeSplits DEF SelectionInv
<1>6. FilesTyped'
  BY <1>1, <1>3, <1>4, SelectionNumbers DEF RunPose, FilesTyped, Takes, processes
<1>7. Knows(w, "transcode", worker[w].job)'
  BY <1>3, <1>4 DEF RunPose, Knows, JobOK, FilesTyped, Inferring, AfterInference, AfterFusion
<1>8. ASSUME NEW i \in SelectionJobs
      PROVE  JobOK(i)'
  <2>1. CASE i = j
    BY <1>1, <1>3, <1>4, <2>1 DEF RunPose, JobOK, FilesTyped, processes
  <2>2. CASE i # j
    BY <1>1, <1>3, <1>4, <2>2, JobStays DEF RunPose, FilesTyped, processes
  <2>3. QED
    BY <2>1, <2>2
<1>9. ASSUME NEW i \in SelectionJobs
      PROVE  TakeOK(i)'
  <2>1. dump'[i].take = dump[i].take
    BY <1>3, <1>4 DEF RunPose, FilesTyped
  <2>2. Started(i) => Started(i)'
    <3>1. worker' = [worker EXCEPT ![w] = Moved(w, "transcode")] /\ worker[w].pc = "pose"
      BY <1>3
    <3>2. Moved(w, "transcode").pc = "transcode" /\ Moved(w, "transcode").job = j
      BY <1>3
    <3>3. receipt' = receipt
      BY DEF RunPose
    <3>4. "pose" \in Inferring => "transcode" \in Inferring
      BY DEF Inferring
    <3>5. QED
      BY <3>1, <3>2, <3>3, <3>4, StartedStays
  <2>3. QED
    BY <1>1, <2>1, <2>2, TakeStays
<1>10. QED
  BY <1>1, <1>2, <1>6, <1>7, <1>8, <1>9, InJobHolds

LEMMA FinishPoseHolds ==
  ASSUME SelectionInv, NEW w \in Worker, FinishPose(w)
  PROVE  SelectionInv'
<1> DEFINE j == worker[w].job
<1>1. Step(w, "transcode", "fuse") /\ UNCHANGED <<lock, manifest, status, kills, failures>>
  BY DEF FinishPose
<1>2. "transcode" \in InJob /\ "fuse" \in InJob \cup {"row"}
  BY DEF InJob
<1>3. /\ j \in SelectionJobs /\ Knows(w, "transcode", j) /\ worker'[w].job = j
      /\ worker'[w].pc = "fuse"
      /\ worker[w].pc = "transcode" /\ worker' = [worker EXCEPT ![w] = Moved(w, "fuse")]
      /\ Moved(w, "fuse").pc = "fuse" /\ Moved(w, "fuse").job = j
      /\ worker[w].plan \in Plan /\ manifest = worker[w].plan
  BY <1>1, <1>2, InJobFacts
<1>4. FilesTyped /\ JobOK(j) /\ TakeOK(j)
  BY <1>3, TypeSplits DEF SelectionInv
<1>6. FilesTyped'
  BY <1>1, <1>3, <1>4, SelectionNumbers DEF FinishPose, FilesTyped, Takes, processes
<1>7. Knows(w, "fuse", worker[w].job)'
  BY <1>3, <1>4 DEF FinishPose, Knows, JobOK, FilesTyped, Inferring, AfterInference, AfterFusion
<1>8. ASSUME NEW i \in SelectionJobs
      PROVE  JobOK(i)'
  <2>1. CASE i = j
    BY <1>1, <1>3, <1>4, <2>1 DEF FinishPose, JobOK, FilesTyped, processes
  <2>2. CASE i # j
    BY <1>1, <1>3, <1>4, <2>2, JobStays DEF FinishPose, FilesTyped, processes
  <2>3. QED
    BY <2>1, <2>2
<1>9. ASSUME NEW i \in SelectionJobs
      PROVE  TakeOK(i)'
  <2>1. dump'[i].take = dump[i].take
    BY <1>3, <1>4 DEF FinishPose, FilesTyped
  <2>2. Started(i) => Started(i)'
    <3>1. worker' = [worker EXCEPT ![w] = Moved(w, "fuse")] /\ worker[w].pc = "transcode"
      BY <1>3
    <3>2. Moved(w, "fuse").pc = "fuse" /\ Moved(w, "fuse").job = j
      BY <1>3
    <3>3. receipt' = receipt
      BY DEF FinishPose
    <3>4. "transcode" \in Inferring => "fuse" \in Inferring
      BY DEF Inferring
    <3>5. QED
      BY <3>1, <3>2, <3>3, <3>4, StartedStays
  <2>3. QED
    BY <1>1, <2>1, <2>2, TakeStays
<1>10. QED
  BY <1>1, <1>2, <1>6, <1>7, <1>8, <1>9, InJobHolds

\* What is fused are the predictions that the receipt pins.
LEMMA FuseHolds ==
  ASSUME SelectionInv, NEW w \in Worker, Fuse(w)
  PROVE  SelectionInv'
<1> DEFINE j == worker[w].job
<1>1. Step(w, "fuse", "fuse receipt") /\ UNCHANGED <<lock, manifest, status, kills, failures>>
  BY DEF Fuse
<1>2. "fuse" \in InJob /\ "fuse receipt" \in InJob \cup {"row"}
  BY DEF InJob
<1>3. /\ j \in SelectionJobs /\ Knows(w, "fuse", j) /\ worker'[w].job = j
      /\ worker'[w].pc = "fuse receipt"
      /\ worker[w].pc = "fuse" /\ worker' = [worker EXCEPT ![w] = Moved(w, "fuse receipt")]
      /\ Moved(w, "fuse receipt").pc = "fuse receipt" /\ Moved(w, "fuse receipt").job = j
      /\ worker[w].plan \in Plan /\ manifest = worker[w].plan
  BY <1>1, <1>2, InJobFacts
<1>4. FilesTyped /\ JobOK(j) /\ TakeOK(j)
  BY <1>3, TypeSplits DEF SelectionInv
<1>5. receipt[j].take # 0 /\ predictions[j].take = receipt[j].take
  BY <1>3, <1>4 DEF Knows, AfterInference, JobOK
<1>5a. [file |-> predictions[j].take, receipt |-> 0] \in [file : Takes, receipt : Takes]
  <2>1. predictions[j].take \in Takes /\ 0 \in Takes
    BY <1>3, TypedFiles
  <2>2. QED
    BY <2>1
<1>6. FilesTyped'
  BY <1>1, <1>3, <1>4, SelectionNumbers, <1>5a DEF Fuse, FilesTyped, Takes, processes
<1>7. Knows(w, "fuse receipt", worker[w].job)'
  BY <1>3, <1>4, <1>5 DEF Fuse, Knows, JobOK, FilesTyped, Inferring, AfterInference, AfterFusion
<1>8. ASSUME NEW i \in SelectionJobs
      PROVE  JobOK(i)'
  <2>1. CASE i = j
    BY <1>1, <1>3, <1>4, <2>1, <1>5 DEF Fuse, JobOK, FilesTyped, processes
  <2>2. CASE i # j
    BY <1>1, <1>3, <1>4, <2>2, JobStays DEF Fuse, FilesTyped, processes
  <2>3. QED
    BY <2>1, <2>2
<1>9. ASSUME NEW i \in SelectionJobs
      PROVE  TakeOK(i)'
  <2>1. dump'[i].take = dump[i].take
    BY <1>3, <1>4 DEF Fuse, FilesTyped
  <2>2. Started(i) => Started(i)'
    <3>1. worker' = [worker EXCEPT ![w] = Moved(w, "fuse receipt")] /\ worker[w].pc = "fuse"
      BY <1>3
    <3>2. Moved(w, "fuse receipt").pc = "fuse receipt" /\ Moved(w, "fuse receipt").job = j
      BY <1>3
    <3>3. receipt' = receipt
      BY DEF Fuse
    <3>4. "fuse" \in Inferring => "fuse receipt" \in Inferring
      BY DEF Inferring
    <3>5. QED
      BY <3>1, <3>2, <3>3, <3>4, StartedStays
  <2>3. QED
    BY <1>1, <2>1, <2>2, TakeStays
<1>10. QED
  BY <1>1, <1>2, <1>6, <1>7, <1>8, <1>9, InJobHolds

LEMMA WriteFusionReceiptHolds ==
  ASSUME SelectionInv, NEW w \in Worker, WriteFusionReceipt(w)
  PROVE  SelectionInv'
<1> DEFINE j == worker[w].job
<1>1. Step(w, "fuse receipt", "render") /\ UNCHANGED <<lock, manifest, status, kills, failures>>
  BY DEF WriteFusionReceipt
<1>2. "fuse receipt" \in InJob /\ "render" \in InJob \cup {"row"}
  BY DEF InJob
<1>3. /\ j \in SelectionJobs /\ Knows(w, "fuse receipt", j) /\ worker'[w].job = j
      /\ worker'[w].pc = "render"
      /\ worker[w].pc = "fuse receipt" /\ worker' = [worker EXCEPT ![w] = Moved(w, "render")]
      /\ Moved(w, "render").pc = "render" /\ Moved(w, "render").job = j
      /\ worker[w].plan \in Plan /\ manifest = worker[w].plan
  BY <1>1, <1>2, InJobFacts
<1>4. FilesTyped /\ JobOK(j) /\ TakeOK(j)
  BY <1>3, TypeSplits DEF SelectionInv
<1>5. fused[j].file # 0
  BY <1>3 DEF Knows, AfterFusion
<1>5a. [file |-> fused[j].file, receipt |-> fused[j].file] \in [file : Takes, receipt : Takes]
  <2>1. fused[j] \in [file : Takes, receipt : Takes]
    BY <1>3, TypedFiles
  <2>2. QED
    BY <2>1
<1>6. FilesTyped'
  BY <1>1, <1>3, <1>4, SelectionNumbers, <1>5a DEF WriteFusionReceipt, FilesTyped, Takes, processes
<1>7. Knows(w, "render", worker[w].job)'
  BY <1>3, <1>4, <1>5 DEF WriteFusionReceipt, Knows, JobOK, FilesTyped, Inferring, AfterInference, AfterFusion
<1>8. ASSUME NEW i \in SelectionJobs
      PROVE  JobOK(i)'
  <2>1. CASE i = j
    BY <1>1, <1>3, <1>4, <2>1, <1>5 DEF WriteFusionReceipt, JobOK, FilesTyped, processes
  <2>2. CASE i # j
    BY <1>1, <1>3, <1>4, <2>2, JobStays DEF WriteFusionReceipt, FilesTyped, processes
  <2>3. QED
    BY <2>1, <2>2
<1>9. ASSUME NEW i \in SelectionJobs
      PROVE  TakeOK(i)'
  <2>1. dump'[i].take = dump[i].take
    BY <1>3, <1>4 DEF WriteFusionReceipt, FilesTyped
  <2>2. Started(i) => Started(i)'
    <3>1. worker' = [worker EXCEPT ![w] = Moved(w, "render")] /\ worker[w].pc = "fuse receipt"
      BY <1>3
    <3>2. Moved(w, "render").pc = "render" /\ Moved(w, "render").job = j
      BY <1>3
    <3>3. receipt' = receipt
      BY DEF WriteFusionReceipt
    <3>4. "fuse receipt" \in Inferring => "render" \in Inferring
      BY DEF Inferring
    <3>5. QED
      BY <3>1, <3>2, <3>3, <3>4, StartedStays
  <2>3. QED
    BY <1>1, <2>1, <2>2, TakeStays
<1>10. QED
  BY <1>1, <1>2, <1>6, <1>7, <1>8, <1>9, InJobHolds

LEMMA StartRenderHolds ==
  ASSUME SelectionInv, NEW w \in Worker, StartRender(w)
  PROVE  SelectionInv'
<1> DEFINE j == worker[w].job
<1>1. Step(w, "render", "rendering") /\ UNCHANGED <<lock, manifest, status, kills, failures>>
  BY DEF StartRender
<1>2. "render" \in InJob /\ "rendering" \in InJob \cup {"row"}
  BY DEF InJob
<1>3. /\ j \in SelectionJobs /\ Knows(w, "render", j) /\ worker'[w].job = j
      /\ worker'[w].pc = "rendering"
      /\ worker[w].pc = "render" /\ worker' = [worker EXCEPT ![w] = Moved(w, "rendering")]
      /\ Moved(w, "rendering").pc = "rendering" /\ Moved(w, "rendering").job = j
      /\ worker[w].plan \in Plan /\ manifest = worker[w].plan
  BY <1>1, <1>2, InJobFacts
<1>4. FilesTyped /\ JobOK(j) /\ TakeOK(j)
  BY <1>3, TypeSplits DEF SelectionInv
<1>6. FilesTyped'
  BY <1>1, <1>3, <1>4, SelectionNumbers DEF StartRender, FilesTyped, Takes, processes, NoRender
<1>7. Knows(w, "rendering", worker[w].job)'
  BY <1>3, <1>4 DEF StartRender, Knows, JobOK, FilesTyped, Inferring, AfterInference, AfterFusion
<1>8. ASSUME NEW i \in SelectionJobs
      PROVE  JobOK(i)'
  <2>1. CASE i = j
    BY <1>1, <1>3, <1>4, <2>1 DEF StartRender, JobOK, FilesTyped, processes, NoRender
  <2>2. CASE i # j
    BY <1>1, <1>3, <1>4, <2>2, JobStays DEF StartRender, FilesTyped, processes
  <2>3. QED
    BY <2>1, <2>2
<1>9. ASSUME NEW i \in SelectionJobs
      PROVE  TakeOK(i)'
  <2>1. dump'[i].take = dump[i].take
    BY <1>3, <1>4 DEF StartRender, FilesTyped
  <2>2. Started(i) => Started(i)'
    <3>1. worker' = [worker EXCEPT ![w] = Moved(w, "rendering")] /\ worker[w].pc = "render"
      BY <1>3
    <3>2. Moved(w, "rendering").pc = "rendering" /\ Moved(w, "rendering").job = j
      BY <1>3
    <3>3. receipt' = receipt
      BY DEF StartRender
    <3>4. "render" \in Inferring => "rendering" \in Inferring
      BY DEF Inferring
    <3>5. QED
      BY <3>1, <3>2, <3>3, <3>4, StartedStays
  <2>3. QED
    BY <1>1, <2>1, <2>2, TakeStays
<1>10. QED
  BY <1>1, <1>2, <1>6, <1>7, <1>8, <1>9, InJobHolds

LEMMA PublishHolds ==
  ASSUME SelectionInv, NEW w \in Worker, Publish(w)
  PROVE  SelectionInv'
<1> DEFINE j == worker[w].job
<1>1. Step(w, "publish", "row") /\ UNCHANGED <<lock, manifest, status, kills, failures>>
  BY DEF Publish
<1>2. "publish" \in InJob /\ "row" \in InJob \cup {"row"}
  BY DEF InJob
<1>3. /\ j \in SelectionJobs /\ Knows(w, "publish", j) /\ worker'[w].job = j
      /\ worker'[w].pc = "row"
      /\ worker[w].pc = "publish" /\ worker' = [worker EXCEPT ![w] = Moved(w, "row")]
      /\ Moved(w, "row").pc = "row" /\ Moved(w, "row").job = j
      /\ worker[w].plan \in Plan /\ manifest = worker[w].plan
  BY <1>1, <1>2, InJobFacts
<1>4. FilesTyped /\ JobOK(j) /\ TakeOK(j)
  BY <1>3, TypeSplits DEF SelectionInv
<1>5. render[j].stage = "rendered" /\ render[j].of = receipt[j].take /\ receipt[j].take # 0
  BY <1>3, <1>4 DEF Knows, JobOK
<1>6. FilesTyped'
  BY <1>1, <1>3, <1>4, SelectionNumbers DEF Publish, FilesTyped, Takes, processes
<1>7. Knows(w, "row", worker[w].job)'
  BY <1>3, <1>4, <1>5 DEF Publish, Knows, JobOK, FilesTyped, Inferring, AfterInference, AfterFusion
<1>8. ASSUME NEW i \in SelectionJobs
      PROVE  JobOK(i)'
  <2>1. CASE i = j
    BY <1>1, <1>3, <1>4, <2>1, <1>5 DEF Publish, JobOK, FilesTyped, processes
  <2>2. CASE i # j
    BY <1>1, <1>3, <1>4, <2>2, JobStays DEF Publish, FilesTyped, processes
  <2>3. QED
    BY <2>1, <2>2
<1>9. ASSUME NEW i \in SelectionJobs
      PROVE  TakeOK(i)'
  <2>1. dump'[i].take = dump[i].take
    BY <1>3, <1>4 DEF Publish, FilesTyped
  <2>2. Started(i) => Started(i)'
    <3>1. worker' = [worker EXCEPT ![w] = Moved(w, "row")] /\ worker[w].pc = "publish"
      BY <1>3
    <3>2. Moved(w, "row").pc = "row" /\ Moved(w, "row").job = j
      BY <1>3
    <3>3. receipt' = receipt
      BY DEF Publish
    <3>4. "publish" \in Inferring => "row" \in Inferring
      BY DEF Inferring
    <3>5. QED
      BY <3>1, <3>2, <3>3, <3>4, StartedStays
  <2>3. QED
    BY <1>1, <2>1, <2>2, TakeStays
<1>10. QED
  BY <1>1, <1>2, <1>6, <1>7, <1>8, <1>9, InJobHolds

-----------------------------------------------------------------------------
(* The plan, the status and the end of an execution.                       *)

\* The recorded plan is kept, or there was none and nothing is receipted yet.
LEMMA WritePlanHolds ==
  ASSUME SelectionInv, NEW w \in Worker, WritePlan(w)
  PROVE  SelectionInv'
<1>1. Step(w, "plan", "status") /\ manifest' = worker[w].plan
  BY DEF WritePlan
<1>2. /\ worker[w].pc = "plan" /\ WorkerOK(w)
      /\ worker' = [worker EXCEPT ![w] = Moved(w, "status")]
      /\ worker'[w].pc = "status" /\ worker'[w].job = worker[w].job
      /\ worker'[w].plan = worker[w].plan
      /\ Moved(w, "status").pc = "status"
      /\ worker' \in [Worker -> Workers]
  BY <1>1, AtWork
<1>3. lock = w /\ worker[w].plan \in Plan /\ worker[w].job = 1
  BY <1>2 DEF WorkerOK
<1>4. FilesTyped'
  BY <1>1, <1>3, TypeSplits DEF SelectionInv, WritePlan, FilesTyped, processes
<1>5. WorkerOK(w)'
  BY <1>1, <1>2, <1>3 DEF WritePlan, WorkerOK, InJob, Inferring, AfterInference, AfterFusion
<1>6. \A v \in Worker \ {w} : worker'[v].pc = "off"
  BY <1>2, OthersStayOff
<1>7. ASSUME NEW j \in SelectionJobs
      PROVE  JobOK(j)' /\ TakeOK(j)'
  <2>1. JobOK(j)
    BY DEF SelectionInv
  <2>2. JobOK(j)'
    BY <1>1, <1>3, <2>1, SelectionNumbers DEF JobOK, WritePlan, processes
  <2>3. Started(j) => Started(j)'
    BY <1>2, StartedStays DEF WritePlan, Inferring
  <2>4. QED
    BY <2>2, <2>3, TakeStays DEF WritePlan
<1>8. SelectionTypeOK'
  BY <1>2, <1>4, TypeSplits
<1>9. QED
  BY <1>5, <1>6, <1>7, <1>8, StepOf

\* No row is left of an earlier execution.
LEMMA NewStatusHolds ==
  ASSUME SelectionInv, NEW w \in Worker, NewStatus(w)
  PROVE  SelectionInv'
<1> DEFINE rows == NoStatus.rows
<1>1. Step(w, "status", "next") /\ status' = [state |-> "running", rows |-> rows]
  BY DEF NewStatus
<1>2. /\ worker[w].pc = "status" /\ WorkerOK(w)
      /\ worker' = [worker EXCEPT ![w] = Moved(w, "next")]
      /\ worker'[w].pc = "next" /\ worker'[w].job = worker[w].job
      /\ worker'[w].plan = worker[w].plan
      /\ Moved(w, "next").pc = "next"
      /\ worker' \in [Worker -> Workers]
  BY <1>1, AtWork
<1>3. lock = w /\ worker[w].plan \in Plan /\ worker[w].job = 1 /\ manifest = worker[w].plan
  BY <1>2 DEF WorkerOK
<1>4. /\ rows \in [SelectionJobs -> {"pending", "running", "complete", "failed"}]
      /\ \A i \in SelectionJobs : rows[i] = "pending"
  BY SelectionNumbers DEF NoStatus
<1> HIDE DEF rows
<1>5. status'.state = "running" /\ status'.rows = rows
  BY <1>1
<1>6. FilesTyped'
  <2>1. FilesTyped
    BY TypeSplits DEF SelectionInv
  <2>2. status' \in [state : {"none", "running", "complete", "failed"},
                     rows : [SelectionJobs -> {"pending", "running", "complete", "failed"}]]
    BY <1>1, <1>4
  <2>3. QED
    BY <2>1, <2>2 DEF NewStatus, FilesTyped, processes
<1>7. RowsFollow(w)'
  BY <1>2, <1>3, <1>4, <1>5 DEF RowsFollow, SelectionJobs
<1>8. WorkerOK(w)'
  BY <1>2, <1>3, <1>7 DEF NewStatus, WorkerOK, InJob, Inferring, AfterInference, AfterFusion
<1>9. \A v \in Worker \ {w} : worker'[v].pc = "off"
  BY <1>2, OthersStayOff
<1>10. ASSUME NEW j \in SelectionJobs
       PROVE  JobOK(j)' /\ TakeOK(j)'
  <2>1. JobOK(j)'
    <3>1. status'.rows[j] # "complete"
      BY <1>4, <1>5
    <3>2. QED
      BY <3>1, JobStays DEF NewStatus, processes
  <2>2. Started(j) => Started(j)'
    BY <1>2, StartedStays DEF NewStatus, Inferring
  <2>3. QED
    BY <2>1, <2>2, TakeStays DEF NewStatus
<1>11. SelectionTypeOK'
  BY <1>2, <1>6, TypeSplits
<1>12. QED
  BY <1>8, <1>9, <1>10, <1>11, StepOf

\* The worker comes to the next job, whose row was pending.
LEMMA NextRowHolds ==
  ASSUME SelectionInv, NEW w \in Worker, NextRow(w)
  PROVE  SelectionInv'
<1> DEFINE rows == [status.rows EXCEPT ![worker[w].job] = "running"]
<1>1. Step(w, "next", "inference") /\ status' = [status EXCEPT !.rows[worker[w].job] = "running"]
  BY DEF NextRow
<1>2. /\ worker[w].pc = "next" /\ WorkerOK(w) /\ worker[w].job \in SelectionJobs
      /\ worker' = [worker EXCEPT ![w] = Moved(w, "inference")]
      /\ worker'[w].pc = "inference" /\ worker'[w].job = worker[w].job
      /\ worker'[w].plan = worker[w].plan
      /\ Moved(w, "inference").pc = "inference"
      /\ worker' \in [Worker -> Workers]
  <2>1. "inference" \in InJob \cup {"off", "plan", "status", "next", "row", "done"}
    BY DEF InJob
  <2>2. QED
    BY <1>1, <2>1, AtWork
<1>3. lock = w /\ worker[w].plan \in Plan /\ manifest = worker[w].plan /\ RowsFollow(w)
  BY <1>2 DEF WorkerOK
<1>4. FilesTyped
  BY TypeSplits DEF SelectionInv
<1>5. /\ rows \in [SelectionJobs -> {"pending", "running", "complete", "failed"}]
      /\ \A i \in SelectionJobs : rows[i] = IF i = worker[w].job THEN "running" ELSE status.rows[i]
      /\ status'.rows = rows /\ status'.state = status.state
      /\ status' \in [state : {"none", "running", "complete", "failed"},
                      rows : [SelectionJobs -> {"pending", "running", "complete", "failed"}]]
  BY <1>1, <1>2, <1>4 DEF FilesTyped
<1> HIDE DEF rows
<1>6. FilesTyped'
  BY <1>4, <1>5 DEF NextRow, FilesTyped, processes
<1>7. RowsFollow(w)'
  <2>1. ASSUME NEW i \in SelectionJobs
        PROVE  rows[i] = IF i < worker[w].job THEN "complete"
                         ELSE IF i = worker[w].job THEN "running" ELSE "pending"
    <3>1. i \in Nat /\ worker[w].job \in Nat
      BY <1>2, SelectionNumbers DEF SelectionJobs
    <3>2. QED
      BY <1>2, <1>3, <1>5, <3>1 DEF RowsFollow
  <2>2. QED
    BY <1>2, <1>3, <1>5, <2>1 DEF RowsFollow
<1>8. WorkerOK(w)'
  BY <1>2, <1>3, <1>7 DEF NextRow, WorkerOK, InJob, Inferring, AfterInference, AfterFusion
<1>9. \A v \in Worker \ {w} : worker'[v].pc = "off"
  BY <1>2, OthersStayOff
<1>10. ASSUME NEW j \in SelectionJobs
       PROVE  JobOK(j)' /\ TakeOK(j)'
  <2>1. JobOK(j)'
    <3>1. status'.rows[j] = "complete" => status.rows[j] = "complete"
      BY <1>5
    <3>2. QED
      BY <3>1, JobStays DEF NextRow, processes
  <2>2. Started(j) => Started(j)'
    BY <1>2, StartedStays DEF NextRow, Inferring
  <2>3. QED
    BY <2>1, <2>2, TakeStays DEF NextRow
<1>11. SelectionTypeOK'
  BY <1>2, <1>6, TypeSplits
<1>12. QED
  BY <1>8, <1>9, <1>10, <1>11, StepOf

\* The row of the job is complete only now, and its video is published.
LEMMA CompleteRowHolds ==
  ASSUME SelectionInv, NEW w \in Worker, CompleteRow(w)
  PROVE  SelectionInv'
<1> DEFINE j == worker[w].job
           x == IF j < JobCount THEN [worker[w] EXCEPT !.pc = "next", !.job = j + 1]
                ELSE [worker[w] EXCEPT !.pc = "done"]
           rows == [status.rows EXCEPT ![j] = "complete"]
<1>1. /\ worker[w].pc = "row" /\ worker' = [worker EXCEPT ![w] = x]
      /\ status' = [status EXCEPT !.rows[j] = "complete"]
  BY DEF CompleteRow
<1>2. /\ worker[w] \in Workers /\ worker \in [Worker -> Workers]
      /\ FilesTyped /\ WorkerOK(w)
  BY TypeSplits DEF SelectionInv
<1>3. /\ lock = w /\ worker[w].plan \in Plan /\ manifest = worker[w].plan
      /\ RowsFollow(w) /\ deliverable[j] # 0
  BY <1>1, <1>2 DEF WorkerOK
<1>4. j \in 1 .. JobCount /\ SelectionJobs = 1 .. JobCount
  BY <1>2 DEF Workers, SelectionJobs
<1>5. /\ x \in Workers /\ x.plan = worker[w].plan
      /\ \/ j < JobCount /\ x.pc = "next" /\ x.job = j + 1
         \/ j = JobCount /\ x.pc = "done"
  <2>1. CASE j < JobCount
    <3>1. j + 1 \in SelectionJobs
      BY <1>4, <2>1, SelectionNumbers
    <3>2. x = [worker[w] EXCEPT !.pc = "next", !.job = j + 1]
      BY <2>1
    <3> HIDE DEF x
    <3>3. QED
      BY <1>2, <2>1, <3>1, <3>2 DEF Workers
  <2>2. CASE ~(j < JobCount)
    BY <1>2, <1>4, <2>2, SelectionNumbers DEF Workers
  <2>3. QED
    BY <2>1, <2>2
<1>6. /\ rows \in [SelectionJobs -> {"pending", "running", "complete", "failed"}]
      /\ \A i \in SelectionJobs : rows[i] = IF i = j THEN "complete" ELSE status.rows[i]
  BY <1>2, <1>4 DEF FilesTyped
<1>7. status'.rows = rows /\ status'.state = "running"
  BY <1>1, <1>2, <1>3 DEF FilesTyped, RowsFollow
<1> HIDE DEF x
<1>8. worker'[w] = x /\ worker' \in [Worker -> Workers]
  BY <1>1, <1>2, <1>5
<1>9. FilesTyped'
  <2>1. status' \in [state : {"none", "running", "complete", "failed"},
                     rows : [SelectionJobs -> {"pending", "running", "complete", "failed"}]]
    BY <1>1, <1>2, <1>6 DEF FilesTyped
  <2>2. QED
    BY <1>2, <2>1 DEF CompleteRow, FilesTyped, processes
<1>10. j < JobCount => RowsFollow(w)'
  <2>1. ASSUME j < JobCount, NEW i \in SelectionJobs
        PROVE  rows[i] = IF i < j + 1 THEN "complete"
                         ELSE "pending"
    <3>1. i \in Nat /\ j \in Nat
      BY <1>4, SelectionNumbers
    <3>2. status.rows[i] = IF i < j THEN "complete"
                           ELSE IF i = j THEN "running" ELSE "pending"
      BY <1>1, <1>3 DEF RowsFollow
    <3>3. rows[i] = IF i = j THEN "complete" ELSE status.rows[i]
      BY <1>6
    <3> HIDE DEF rows
    <3>4. QED
      BY <3>1, <3>2, <3>3
  <2> HIDE DEF rows
  <2>2. j < JobCount => worker'[w].job = j + 1 /\ worker'[w].pc = "next"
    BY <1>4, <1>5, <1>8, SelectionNumbers
  <2>3. QED
    BY <1>7, <2>1, <2>2 DEF RowsFollow
<1>11. WorkerOK(w)'
  <2>1. lock' = w /\ manifest' = worker[w].plan /\ worker'[w].plan = worker[w].plan
    BY <1>3, <1>5, <1>8 DEF CompleteRow
  <2>2. CASE j < JobCount
    <3>1. worker'[w].pc = "next"
      BY <1>4, <1>5, <1>8, <2>2, SelectionNumbers
    <3>2. QED
      BY <1>3, <1>10, <2>1, <2>2, <3>1
         DEF WorkerOK, InJob, Inferring, AfterInference, AfterFusion
  <2>3. CASE j = JobCount
    <3>1. worker'[w].pc = "done"
      BY <1>4, <1>5, <1>8, <2>3, SelectionNumbers
    <3>2. QED
      BY <1>3, <2>1, <3>1 DEF WorkerOK, InJob, Inferring, AfterInference, AfterFusion
  <2>4. QED
    BY <1>5, <2>2, <2>3
<1>12. \A v \in Worker \ {w} : worker'[v].pc = "off"
  BY <1>1, OthersStayOff
<1>13. ASSUME NEW i \in SelectionJobs
       PROVE  JobOK(i)' /\ TakeOK(i)'
  <2>1. JobOK(i)'
    <3>1. rows[i] = "complete" => status.rows[i] = "complete" \/ i = j
      BY <1>6
    <3>2. JobOK(i)
      BY DEF SelectionInv
    <3> HIDE DEF rows
    <3>3. status'.rows[i] = "complete" => deliverable[i] # 0
      BY <1>3, <1>7, <3>1, <3>2 DEF JobOK
    <3>4. QED
      BY <3>2, <3>3 DEF JobOK, CompleteRow, processes
  <2>2. Started(i) => Started(i)'
    BY <1>1, StartedStays DEF CompleteRow, Inferring
  <2>3. QED
    BY <2>1, <2>2, TakeStays DEF CompleteRow
<1>14. SelectionTypeOK'
  BY <1>8, <1>9, TypeSplits
<1>15. QED
  BY <1>11, <1>12, <1>13, <1>14, StepOf

\* The execution ends: the lock is free.
LEMMA OffNow ==
  ASSUME SelectionInv, NEW w \in Worker, worker' = [worker EXCEPT ![w] = Off]
  PROVE  /\ worker'[w] = Off /\ worker' \in [Worker -> Workers]
         /\ worker[w] \in Workers /\ worker[w].job \in SelectionJobs
         /\ WorkerOK(w) /\ WorkerOK(w)' /\ FilesTyped
<1>1. worker \in [Worker -> Workers] /\ FilesTyped
  BY TypeSplits DEF SelectionInv
<1>2. worker[w] \in Workers /\ WorkerOK(w)
  BY <1>1 DEF SelectionInv
<1>3. Off \in Workers /\ Off.pc = "off"
  BY SelectionNumbers DEF Off, Workers
<1>4. worker'[w] = Off /\ worker' \in [Worker -> Workers]
  BY <1>1, <1>3
<1>5. worker[w].job \in SelectionJobs
  BY <1>2 DEF Workers
<1>6. WorkerOK(w)'
  BY <1>3, <1>4 DEF WorkerOK
<1>7. QED
  BY <1>1, <1>2, <1>4, <1>5, <1>6

LEMMA CompleteHolds ==
  ASSUME SelectionInv, NEW w \in Worker, Complete(w)
  PROVE  SelectionInv'
<1>1. /\ worker[w].pc = "done" /\ worker' = [worker EXCEPT ![w] = Off]
      /\ lock' = NoWorker /\ status' = [status EXCEPT !.state = "complete"]
  BY DEF Complete
<1>2. /\ worker' \in [Worker -> Workers] /\ WorkerOK(w)' /\ FilesTyped
  BY <1>1, OffNow
<1>3. /\ status' \in [state : {"none", "running", "complete", "failed"},
                      rows : [SelectionJobs -> {"pending", "running", "complete", "failed"}]]
      /\ status'.rows = status.rows
  BY <1>1, <1>2 DEF FilesTyped
<1>4. FilesTyped'
  BY <1>1, <1>2, <1>3 DEF Complete, FilesTyped, processes
<1>5. \A v \in Worker \ {w} : worker'[v].pc = "off"
  BY <1>1, OthersStayOff
<1>6. ASSUME NEW j \in SelectionJobs
      PROVE  JobOK(j)' /\ TakeOK(j)'
  <2>1. JobOK(j)'
    BY <1>3, JobStays DEF Complete, processes
  <2>2. Started(j) => Started(j)'
    BY <1>1, StartedStays DEF Complete, Inferring
  <2>3. QED
    BY <2>1, <2>2, TakeStays DEF Complete
<1>7. SelectionTypeOK'
  BY <1>2, <1>4, TypeSplits
<1>8. QED
  BY <1>2, <1>5, <1>6, <1>7, StepOf

\* A stage that raises leaves the files of the job as they are.
LEMMA RaiseHolds ==
  ASSUME SelectionInv, NEW w \in Worker, worker[w].pc \in InJob \cup {"next"}, Raise(w), kills' = kills,
         \/ container' = container
         \/ container' = [container EXCEPT ![worker[w].job] = 0],
         \/ failures' = failures /\ worker[w].pc \notin Inferring
         \/ failures < MaxFailures /\ failures' = failures + 1
  PROVE  SelectionInv'
<1> DEFINE failed == [j \in SelectionJobs |->
                        IF status.rows[j] = "running" THEN "failed" ELSE status.rows[j]]
<1>1. /\ worker[w].pc # "off" /\ worker' = [worker EXCEPT ![w] = Off]
      /\ lock' = NoWorker /\ status' = [state |-> "failed", rows |-> failed]
  BY DEF Raise, InJob
<1>2. /\ worker' \in [Worker -> Workers] /\ WorkerOK(w)' /\ FilesTyped
      /\ worker[w].job \in SelectionJobs
  BY <1>1, OffNow
<1>3. /\ failed \in [SelectionJobs -> {"pending", "running", "complete", "failed"}]
      /\ \A j \in SelectionJobs : failed[j] = "complete" => status.rows[j] = "complete"
  <2>1. status.rows \in [SelectionJobs -> {"pending", "running", "complete", "failed"}]
    BY <1>2 DEF FilesTyped
  <2>2. QED
    BY <1>2, <2>1
<1> HIDE DEF failed
<1>4. /\ status' \in [state : {"none", "running", "complete", "failed"},
                      rows : [SelectionJobs -> {"pending", "running", "complete", "failed"}]]
      /\ status'.rows = failed
  BY <1>1, <1>3
<1>5. /\ container' \in [SelectionJobs -> Takes]
      /\ \A j \in SelectionJobs : container'[j] \in {0, container[j]}
  <2>1. container \in [SelectionJobs -> Takes] /\ 0 \in Takes
    BY <1>2, SelectionNumbers DEF FilesTyped, Takes
  <2>2. QED
    BY <1>2, <2>1
<1>6. failures' \in 0 .. MaxFailures
  BY <1>2, SelectionNumbers DEF FilesTyped
<1>7. FilesTyped'
  BY <1>1, <1>2, <1>4, <1>5, <1>6 DEF Raise, FilesTyped
<1>8. \A v \in Worker \ {w} : worker'[v].pc = "off"
  BY <1>1, OthersStayOff
<1>9. ASSUME NEW j \in SelectionJobs
      PROVE  JobOK(j)' /\ TakeOK(j)'
  <2>1. JobOK(j)'
    BY <1>3, <1>4, <1>5, JobStays DEF Raise
  <2>2. CASE failures' = failures /\ worker[w].pc \notin Inferring
    <3>1. Started(j) => Started(j)'
      BY <1>1, <2>2, StartedStays DEF Raise
    <3>2. QED
      BY <2>1, <2>2, <3>1, TakeStays DEF Raise
  <2>3. CASE failures' = failures + 1
    <3>1. kills' + failures' = kills + failures + 1
      BY <1>2, <2>3, SelectionNumbers DEF FilesTyped
    <3>2. QED
      BY <2>1, <3>1, TakePaid DEF Raise
  <2>4. QED
    BY <2>2, <2>3
<1>10. SelectionTypeOK'
  BY <1>2, <1>7, TypeSplits
<1>11. QED
  BY <1>2, <1>8, <1>9, <1>10, StepOf

LEMMA RefusedHolds ==
  ASSUME SelectionInv, NEW w \in Worker, Refused(w)
  PROVE  SelectionInv'
<1>1. worker[w].pc \in {"launch", "pose"} /\ Raise(w)
  BY DEF Refused
<1>2. worker[w].pc \in InJob /\ worker[w].pc \notin Inferring
  BY <1>1 DEF InJob, Inferring
<1>3. QED
  BY <1>1, <1>2, RaiseHolds DEF Refused

LEMMA FailHolds ==
  ASSUME SelectionInv, NEW w \in Worker, Fail(w)
  PROVE  SelectionInv'
<1>1. container' = container \/ container' = [container EXCEPT ![worker[w].job] = 0]
  <2>1. CASE worker[w].pc = "wait"
    BY <2>1 DEF Fail
  <2>2. CASE worker[w].pc # "wait"
    BY <2>2 DEF Fail
  <2>3. QED
    BY <2>1, <2>2
<1>2. QED
  BY <1>1, RaiseHolds DEF Fail

\* A killed worker's renderer goes on: it was started on a fused file.
LEMMA KillHolds ==
  ASSUME SelectionInv, NEW w \in Worker, Kill(w)
  PROVE  SelectionInv'
<1> DEFINE j == worker[w].job
<1>1. /\ worker[w].pc # "off" /\ worker' = [worker EXCEPT ![w] = Off] /\ lock' = NoWorker
      /\ kills < MaxKills /\ kills' = kills + 1
  BY DEF Kill
<1>2. /\ worker' \in [Worker -> Workers] /\ WorkerOK(w) /\ WorkerOK(w)' /\ FilesTyped
      /\ j \in SelectionJobs
  BY <1>1, OffNow
<1>3. \/ orphan' = orphan
      \/ fused[j].file # 0 /\ orphan' = [orphan EXCEPT ![j] = TRUE]
  <2>1. worker[w].pc = "rendering" => fused[j].file # 0
    BY <1>1, <1>2 DEF WorkerOK, AfterFusion
  <2>2. CASE worker[w].pc = "rendering"
    <3>1. orphan' = [orphan EXCEPT ![j] = TRUE]
      BY <2>2, Zenon DEF Kill
    <3>2. QED
      BY <2>1, <2>2, <3>1
  <2>3. CASE worker[w].pc # "rendering"
    <3>1. orphan' = orphan
      BY <2>3, Zenon DEF Kill
    <3>2. QED
      BY <3>1
  <2>4. QED
    BY <2>2, <2>3
<1>4. /\ orphan' \in [SelectionJobs -> BOOLEAN]
      /\ \A i \in SelectionJobs : orphan'[i] => orphan[i] \/ fused[i].file # 0
  BY <1>2, <1>3 DEF FilesTyped
<1>5. kills' \in 0 .. MaxKills /\ kills' + failures' = kills + failures + 1
  BY <1>1, <1>2, SelectionNumbers DEF Kill, FilesTyped
<1>6. FilesTyped'
  BY <1>1, <1>2, <1>4, <1>5 DEF Kill, FilesTyped, files
<1>7. \A v \in Worker \ {w} : worker'[v].pc = "off"
  BY <1>1, OthersStayOff
<1>8. ASSUME NEW i \in SelectionJobs
      PROVE  JobOK(i)' /\ TakeOK(i)'
  <2>1. JobOK(i)
    BY DEF SelectionInv
  <2>2. JobOK(i)'
    BY <1>4, <2>1 DEF JobOK, Kill, files
  <2>3. QED
    BY <1>5, <2>2, TakePaid DEF Kill, files
<1>9. SelectionTypeOK'
  BY <1>2, <1>6, TypeSplits
<1>10. QED
  BY <1>2, <1>7, <1>8, <1>9, StepOf

LEMMA PowerLossHolds ==
  ASSUME SelectionInv, PowerLoss
  PROVE  SelectionInv'
<1>1. FilesTyped
  BY TypeSplits DEF SelectionInv
<1>2. Off \in Workers /\ Off.pc = "off"
  BY SelectionNumbers DEF Off, Workers
<1>3. worker' \in [Worker -> Workers] /\ \A w \in Worker : worker'[w].pc = "off"
  BY <1>2 DEF PowerLoss
<1>4. \A w \in Worker : WorkerOK(w)'
  BY <1>3 DEF WorkerOK
<1>5. kills' \in 0 .. MaxKills /\ kills' + failures' = kills + failures + 1
  BY <1>1, SelectionNumbers DEF PowerLoss, FilesTyped
<1>6. /\ container' \in [SelectionJobs -> Takes]
      /\ orphan' \in [SelectionJobs -> BOOLEAN]
      /\ \A j \in SelectionJobs : container'[j] = 0 /\ orphan'[j] = FALSE
  BY SelectionNumbers DEF PowerLoss, Takes
<1>7. FilesTyped'
  BY <1>1, <1>5, <1>6 DEF PowerLoss, FilesTyped, files
<1>8. ASSUME NEW j \in SelectionJobs
      PROVE  JobOK(j)' /\ TakeOK(j)'
  <2>1. JobOK(j)'
    BY <1>6, JobStays DEF PowerLoss, files
  <2>2. QED
    BY <1>5, <2>1, TakePaid DEF PowerLoss, files
<1>9. SelectionTypeOK'
  BY <1>3, <1>7, TypeSplits
<1>10. QED
  BY <1>4, <1>8, <1>9 DEF SelectionInv

-----------------------------------------------------------------------------
(* What goes on outside the workers.                                       *)

LEMMA OutsideHolds ==
  ASSUME SelectionInv,
         UNCHANGED <<worker, lock, manifest, status, predictions, receipt, fused, deliverable,
                     kills, failures>>,
         \A j \in SelectionJobs : render[j].stage = "rendered" => render'[j].stage = "rendered",
         \A j \in SelectionJobs : dump'[j].take = dump[j].take,
         FilesTyped',
         \A j \in SelectionJobs : JobOK(j)'
  PROVE  SelectionInv'
<1>1. SelectionTypeOK'
  BY TypeSplits DEF SelectionInv
<1>2. \A w \in Worker : worker[w].job \in SelectionJobs /\ WorkerOK(w)
  BY DEF SelectionInv, SelectionTypeOK
<1>3. ASSUME NEW w \in Worker
      PROVE  WorkerOK(w)'
  BY <1>2 DEF WorkerOK, RowsFollow
<1>4. ASSUME NEW j \in SelectionJobs
      PROVE  TakeOK(j)'
  BY TakeStays DEF Started
<1>5. QED
  BY <1>1, <1>3, <1>4 DEF SelectionInv

\* A container writes frames of the take it was started for.
LEMMA DumpFrameHolds ==
  ASSUME SelectionInv, NEW j \in SelectionJobs, DumpFrame(j)
  PROVE  SelectionInv'
<1> DEFINE frames == [take : Takes, named : 0 .. Frames, whole : 0 .. Frames,
                      first : 0 .. Frames, rest : 0 .. Frames]
<1>1. FilesTyped
  BY TypeSplits DEF SelectionInv
<1>2. /\ dump[j] \in frames /\ dump[j].take # 0
      /\ dump[j].whole <= dump[j].named /\ dump[j].first <= dump[j].named
  BY <1>1, TypedFiles DEF DumpFrame, JobOK
<1>3. \/ UNCHANGED container /\ \E d \in frames :
           /\ dump' = [dump EXCEPT ![j] = d]
           /\ d.take = dump[j].take /\ {d.whole, d.first} \subseteq 0 .. d.named
      \/ UNCHANGED dump /\ container' = [container EXCEPT ![j] = 0]
  <2>1. CASE /\ dump[j].named = dump[j].whole
             /\ dump[j].named < Frames
             /\ dump' = [dump EXCEPT ![j].named = @ + 1]
             /\ UNCHANGED container
    <3> DEFINE d == [dump[j] EXCEPT !.named = @ + 1]
    <3>1. d \in frames /\ d.take = dump[j].take /\ {d.whole, d.first} \subseteq 0 .. d.named
      BY <1>2, <2>1, SelectionNumbers
    <3>2. dump' = [dump EXCEPT ![j] = d]
      BY <2>1
    <3>3. QED
      BY <2>1, <3>1, <3>2
  <2>2. CASE /\ dump[j].whole < dump[j].named
             /\ dump' = [dump EXCEPT ![j].whole = @ + 1]
             /\ UNCHANGED container
    <3> DEFINE d == [dump[j] EXCEPT !.whole = @ + 1]
    <3>1. d \in frames /\ d.take = dump[j].take /\ {d.whole, d.first} \subseteq 0 .. d.named
      BY <1>2, <2>2, SelectionNumbers
    <3>2. dump' = [dump EXCEPT ![j] = d]
      BY <2>2
    <3>3. QED
      BY <2>2, <3>1, <3>2
  <2>3. CASE /\ dump[j].whole = Frames
             /\ container' = [container EXCEPT ![j] = 0]
             /\ UNCHANGED dump
    BY <2>3
  <2>4. QED
    BY <2>1, <2>2, <2>3 DEF DumpFrame
<1>4. /\ dump' \in [SelectionJobs -> frames] /\ container' \in [SelectionJobs -> Takes]
      /\ \A i \in SelectionJobs : /\ dump'[i].take = dump[i].take
                                  /\ dump'[i].whole <= dump'[i].named
                                  /\ dump'[i].first <= dump'[i].named
                                  /\ container'[i] \in {0, container[i]}
                                  /\ dump'[i] = dump[i] \/ dump[i].take # 0
  <2>1. /\ dump \in [SelectionJobs -> frames] /\ container \in [SelectionJobs -> Takes]
        /\ \A i \in SelectionJobs :
             dump[i].whole <= dump[i].named /\ dump[i].first <= dump[i].named
        /\ 0 \in Takes
    BY <1>1, SelectionNumbers DEF FilesTyped, Takes
  <2> HIDE DEF frames
  <2>2. CASE \E d \in frames : /\ dump' = [dump EXCEPT ![j] = d]
                               /\ d.take = dump[j].take /\ {d.whole, d.first} \subseteq 0 .. d.named
             /\ UNCHANGED container
    BY <1>2, <2>1, <2>2
  <2>3. CASE UNCHANGED dump /\ container' = [container EXCEPT ![j] = 0]
    BY <2>1, <2>3
  <2>4. QED
    BY <1>3, <2>2, <2>3
<1>5. FilesTyped'
  BY <1>1, <1>4 DEF DumpFrame, FilesTyped
<1>6. ASSUME NEW i \in SelectionJobs
      PROVE  JobOK(i)'
  <2>1. JobOK(i)
    BY DEF SelectionInv
  <2>2. QED
    BY <1>4, <2>1 DEF JobOK, DumpFrame
<1>7. QED
  BY <1>4, <1>5, <1>6, OutsideHolds DEF DumpFrame

\* A renderer, orphaned or not, shows a fused file that the receipt pins.
LEMMA RenderFrameHolds ==
  ASSUME SelectionInv, NEW j \in SelectionJobs, RenderFrame(j)
  PROVE  SelectionInv'
<1>1. FilesTyped
  BY TypeSplits DEF SelectionInv
<1>2. fused[j].file # 0
  <2>1. CASE orphan[j]
    BY <2>1, TypedFiles DEF JobOK
  <2>2. CASE RenderedBy(j)
    BY <2>2 DEF RenderedBy, SelectionInv, WorkerOK, AfterFusion
  <2>3. QED
    BY <2>1, <2>2 DEF RenderFrame
<1>3. receipt[j].take # 0 /\ fused[j].file = receipt[j].take /\ fused[j].file \in Takes
  BY <1>2, TypedFiles DEF JobOK
<1>4. PICK r \in [stage : {"none", "video", "rendered"}, of : Takes] :
        /\ render' = [render EXCEPT ![j] = r]
        /\ r.of = receipt[j].take
        /\ render[j].stage # "rendered"
  <2>1. CASE /\ render[j].stage = "none"
             /\ render' = [render EXCEPT ![j] = [stage |-> "video", of |-> fused[j].file]]
    BY <1>3, <2>1
  <2>2. CASE /\ render[j].stage = "video"
             /\ render' = [render EXCEPT ![j].stage = "rendered"]
    <3> DEFINE r == [render[j] EXCEPT !.stage = "rendered"]
    <3>1. /\ render[j] \in [stage : {"none", "video", "rendered"}, of : Takes]
          /\ render[j].of = receipt[j].take
      BY <2>2, TypedFiles DEF JobOK
    <3>2. r \in [stage : {"none", "video", "rendered"}, of : Takes] /\ r.of = receipt[j].take
      BY <3>1
    <3>3. render' = [render EXCEPT ![j] = r]
      BY <2>2
    <3>4. QED
      BY <2>2, <3>2, <3>3
  <2>3. QED
    BY <2>1, <2>2 DEF RenderFrame
<1>5. /\ render' \in [SelectionJobs -> [stage : {"none", "video", "rendered"}, of : Takes]]
      /\ \A i \in SelectionJobs : render'[i] = IF i = j THEN r ELSE render[i]
  BY <1>1, <1>4 DEF FilesTyped
<1>6. FilesTyped'
  BY <1>1, <1>5 DEF RenderFrame, FilesTyped, processes
<1>7. ASSUME NEW i \in SelectionJobs
      PROVE  JobOK(i)'
  <2>1. JobOK(i)
    BY DEF SelectionInv
  <2>2. QED
    BY <1>3, <1>4, <1>5, <2>1 DEF JobOK, RenderFrame, processes
<1>8. QED
  BY <1>4, <1>5, <1>6, <1>7, OutsideHolds DEF RenderFrame

LEMMA OrphanEndsHolds ==
  ASSUME SelectionInv, NEW j \in SelectionJobs, OrphanEnds(j)
  PROVE  SelectionInv'
<1>1. FilesTyped
  BY TypeSplits DEF SelectionInv
<1>2. /\ orphan' \in [SelectionJobs -> BOOLEAN]
      /\ \A i \in SelectionJobs : orphan'[i] => orphan[i]
  BY <1>1 DEF OrphanEnds, FilesTyped
<1>3. FilesTyped'
  BY <1>1, <1>2 DEF OrphanEnds, FilesTyped, files
<1>4. ASSUME NEW i \in SelectionJobs
      PROVE  JobOK(i)'
  <2>1. JobOK(i)
    BY DEF SelectionInv
  <2>2. QED
    BY <1>2, <2>1 DEF JobOK, OrphanEnds, files
<1>5. QED
  BY <1>3, <1>4, OutsideHolds DEF OrphanEnds, files

-----------------------------------------------------------------------------
(* The invariant.                                                          *)

LEMMA SelectionStarts == SelectionInit => SelectionInv
<1> SUFFICES ASSUME SelectionInit PROVE SelectionInv
  OBVIOUS
<1>1. Off \in Workers /\ Off.pc = "off" /\ 0 \in Takes /\ 0 \in 0 .. Frames
  BY SelectionNumbers DEF Off, Workers, Takes
<1>2. worker \in [Worker -> Workers] /\ \A w \in Worker : worker[w].pc = "off"
  BY <1>1 DEF SelectionInit
<1>3. /\ NoDump(0) \in [take : Takes, named : 0 .. Frames, whole : 0 .. Frames,
                         first : 0 .. Frames, rest : 0 .. Frames]
      /\ NoDump(0).take = 0 /\ NoDump(0).whole = 0 /\ NoDump(0).named = 0
      /\ NoDump(0).first = 0 /\ NoDump(0).rest = 0
  BY <1>1, Emptied
<1>4. /\ status \in [state : {"none", "running", "complete", "failed"},
                     rows : [SelectionJobs -> {"pending", "running", "complete", "failed"}]]
      /\ \A j \in SelectionJobs : status.rows[j] = "pending"
  BY DEF SelectionInit, NoStatus
<1>5. FilesTyped
  <2>1. dump \in [SelectionJobs -> [take : Takes, named : 0 .. Frames, whole : 0 .. Frames,
                                    first : 0 .. Frames, rest : 0 .. Frames]]
        /\ \A j \in SelectionJobs :
             dump[j].whole <= dump[j].named /\ dump[j].first <= dump[j].named
    <3> HIDE DEF NoDump
    <3>1. QED
      BY <1>3 DEF SelectionInit
  <2>2. kills \in 0 .. MaxKills /\ failures \in 0 .. MaxFailures
    BY SelectionNumbers DEF SelectionInit
  <2>3. QED
    BY <1>1, <1>4, <2>1, <2>2
       DEF SelectionInit, FilesTyped, NoPredictions, NoReceipt, NoRender
<1>6. \A w \in Worker : WorkerOK(w)
  BY <1>2 DEF WorkerOK
<1>7. ASSUME NEW j \in SelectionJobs
      PROVE  JobOK(j) /\ TakeOK(j)
  <2>1. JobOK(j)
    BY <1>3, <1>4 DEF SelectionInit, JobOK, NoReceipt, NoRender
  <2>2. TakeOK(j)
    BY <1>3 DEF SelectionInit, TakeOK
  <2>3. QED
    BY <2>1, <2>2
<1>8. QED
  BY <1>2, <1>5, <1>6, <1>7, TypeSplits DEF SelectionInv

LEMMA SelectionStays == SelectionInv /\ UNCHANGED selectionVars => SelectionInv'
  BY DEF SelectionInv, selectionVars, files, processes, SelectionTypeOK, WorkerOK, RowsFollow,
         JobOK, TakeOK, Started

LEMMA SelectionStep == SelectionInv /\ [SelectionNext]_selectionVars => SelectionInv'
<1> SUFFICES ASSUME SelectionInv, [SelectionNext]_selectionVars PROVE SelectionInv'
  OBVIOUS
<1>1. ASSUME NEW w \in Worker, WorkerStep(w) PROVE SelectionInv'
  BY <1>1, WritePlanHolds, RefusePlanHolds, NewStatusHolds, NextRowHolds, ResumesHold, WipeHolds,
     LaunchHolds, ConvertHolds, WriteReceiptHolds, RunPoseHolds, FinishPoseHolds, FuseHolds,
     WriteFusionReceiptHolds, StartRenderHolds, PublishHolds, CompleteRowHolds,
     CompleteHolds, RefusedHolds
     DEF WorkerStep
<1>2. ASSUME NEW j \in SelectionJobs, ExternalStep(j) PROVE SelectionInv'
  BY <1>2, DumpFrameHolds, RenderFrameHolds, OrphanEndsHolds DEF ExternalStep
<1>3. QED
  BY <1>1, <1>2, FailHolds, KillHolds, AcquireHolds, PowerLossHolds, SelectionStays
     DEF SelectionNext

-----------------------------------------------------------------------------
(* What the invariant says of the selection worker.                        *)

LEMMA SelectionSafe == SelectionInv => SelectionTypeOK /\ SelectionIsSafe
<1> SUFFICES ASSUME SelectionInv PROVE SelectionIsSafe
  BY DEF SelectionInv
<1>1. StatusFollowsOwner
  BY DEF SelectionInv, StatusFollowsOwner, WorkerOK, RowsFollow, InJob
<1>2. DeliveredIsReceipted
  BY DEF SelectionInv, DeliveredIsReceipted, JobOK
<1>3. OnePlanPerSelection
  BY DEF SelectionInv, OnePlanPerSelection, JobOK
<1>4. CompleteIsDelivered
  BY DEF SelectionInv, CompleteIsDelivered, JobOK
<1>5. QED
  BY <1>1, <1>2, <1>3, <1>4 DEF SelectionIsSafe

ReceiptsKept ==
  \A j \in SelectionJobs : receipt[j].take # 0 =>
    receipt'[j] = receipt[j] /\ predictions'[j] = predictions[j]

LEMMA ReceiptsStay == SelectionInv /\ [SelectionNext]_selectionVars => ReceiptsKept
<1> SUFFICES ASSUME SelectionInv, [SelectionNext]_selectionVars PROVE ReceiptsKept
  OBVIOUS
<1>0. ASSUME receipt' = receipt, predictions' = predictions PROVE ReceiptsKept
  BY <1>0 DEF ReceiptsKept
<1>1. /\ predictions \in [SelectionJobs -> [take : Takes, whole : BOOLEAN]]
      /\ receipt \in [SelectionJobs -> [take : Takes, plan : Plan \cup {NoPlan}]]
  BY DEF SelectionInv, SelectionTypeOK
<1>2. ASSUME NEW w \in Worker, Wipe(w) PROVE ReceiptsKept
  <2>1. ~(receipt[worker[w].job].take # 0 /\ predictions[worker[w].job].take # 0)
    BY <1>2 DEF Wipe, InferenceComplete
  <2>2. worker[w].job \in SelectionJobs
    BY DEF SelectionInv, SelectionTypeOK
  <2>3. receipt[worker[w].job].take = 0
    BY <2>1, <2>2 DEF SelectionInv, JobOK
  <2>4. /\ receipt' = receipt
        /\ \A j \in SelectionJobs \ {worker[w].job} : predictions'[j] = predictions[j]
    BY <1>1, <1>2 DEF Wipe
  <2>5. QED
    BY <2>3, <2>4 DEF ReceiptsKept
<1>3. ASSUME NEW w \in Worker, Convert(w) PROVE ReceiptsKept
  <2>1. receipt[worker[w].job].take = 0
    BY <1>3 DEF Convert, Step, SelectionInv, WorkerOK, Inferring
  <2>2. /\ receipt' = receipt
        /\ \A j \in SelectionJobs \ {worker[w].job} : predictions'[j] = predictions[j]
    BY <1>1, <1>3 DEF Convert
  <2>3. QED
    BY <2>1, <2>2 DEF ReceiptsKept
<1>4. ASSUME NEW w \in Worker, WriteReceipt(w) PROVE ReceiptsKept
  <2>1. receipt[worker[w].job].take = 0
    BY <1>4 DEF WriteReceipt, Step, SelectionInv, WorkerOK, Inferring
  <2>2. /\ predictions' = predictions
        /\ \A j \in SelectionJobs \ {worker[w].job} : receipt'[j] = receipt[j]
    BY <1>1, <1>4 DEF WriteReceipt
  <2>3. QED
    BY <2>1, <2>2 DEF ReceiptsKept
<1>5. ASSUME NEW w \in Worker, WorkerStep(w), ~Wipe(w), ~Convert(w), ~WriteReceipt(w)
      PROVE  ReceiptsKept
  BY <1>0, <1>5
     DEF WorkerStep, WritePlan, RefusePlan, NewStatus, NextRow, ResumeInference, ReuseKitti, Launch,
         Waited, RunPose, FinishPose, ResumePose, ResumeFusion, Fuse, WriteFusionReceipt,
         ResumeRender, StartRender, Rendered, Publish, CompleteRow, Complete, Refused, Raise,
         files
<1>6. ASSUME NEW w \in Worker, Fail(w) \/ Kill(w) PROVE ReceiptsKept
  BY <1>0, <1>6 DEF Fail, Kill, Raise, files
<1>7. ASSUME NEW w \in Worker, NEW p \in Plan, Acquire(w, p) PROVE ReceiptsKept
  BY <1>0, <1>7 DEF Acquire, files
<1>8. ASSUME NEW j \in SelectionJobs, ExternalStep(j) PROVE ReceiptsKept
  BY <1>0, <1>8 DEF ExternalStep, DumpFrame, RenderFrame, OrphanEnds, files
<1>9. CASE PowerLoss
  BY <1>0, <1>9 DEF PowerLoss, files
<1>10. CASE UNCHANGED selectionVars
  BY <1>0, <1>10 DEF selectionVars, files
<1>11. QED
  BY <1>2, <1>3, <1>4, <1>5, <1>6, <1>7, <1>8, <1>9, <1>10 DEF SelectionNext

-----------------------------------------------------------------------------
(* The PPE runner.                                                         *)

PersonSteps == {"person", "person launch", "person wait", "person manifest"}
VehicleSteps == {"vehicle", "vehicle launch", "vehicle wait", "vehicle manifest"}
DerivedSteps == {"evidence", "fused", "effective", "video", "encode"}

Deriving == {"profile", "deliver"} \cup PersonSteps \cup VehicleSteps \cup DerivedSteps

RunnerSteps == {"off", "plan", "job", "deepstream"} \cup InDeepStream \cup Deriving

Runners == [pc : RunnerSteps, run : Nat, slug : Slug \cup {Shared},
            variant : Variant \cup {NoVariant}, video : PpeVideos, at : Nat,
            force : BOOLEAN, loaded : BOOLEAN]

FileKinds == {"engine", "ppe", "person", "person manifest", "vehicle", "vehicle manifest",
              "evidence", "fused", "effective", "video"}

FilePaths ==
  [kind : FileKinds, slug : Slug \cup {Shared}, video : Nat, profile : Nat]
  \cup {Path("delivery", s, video, 0) : s \in Slug, video \in PpeVideos}

\* The same file kind of another path's profile.
Beside(kind, x) == Path(kind, x.slug, x.video, x.profile)

Pinned(d) == Delivered(d.slug, d.video)

\* A delivery pins complete, whole files of its own run, made from one another.
DeliveryOK(d) ==
  /\ deepstream[<<d.slug, d.video>>] = "complete"
  /\ Pinned(d) \subseteq DOMAIN file /\ Pinned(d) \cap partial = {}
  /\ file[d].of = {Version(x) : x \in Pinned(d)}
  /\ \A x \in Pinned(d) :
       /\ x.kind # "ppe" => file[x].of \subseteq file[d].of
       /\ x.kind \in DerivedKinds => file[x].by = file[d].by

\* What a file says of others: rows were detected with a whole engine, a manifest pins
\* its rows, evidence is derived from vehicle rows that have a manifest.
FileOK(x) ==
  /\ x \in FilePaths /\ file[x].by \in 1 .. runs
  /\ x.kind = "ppe" => /\ Exists(Path("engine", Shared, 0, x.profile))
                       /\ Path("engine", Shared, 0, x.profile) \notin partial
  /\ x.kind \in {"person", "vehicle"} => file[x].of = {}
  /\ x.kind = "person manifest" =>
       Exists(Beside("person", x)) /\ file[x].of = {Version(Beside("person", x))}
  /\ x.kind = "vehicle manifest" =>
       Exists(Beside("vehicle", x)) /\ file[x].of = {Version(Beside("vehicle", x))}
  /\ x.kind = "evidence" =>
       /\ Exists(Beside("vehicle manifest", x)) /\ Exists(Beside("vehicle", x))
       /\ file[x].of = {Version(Beside("vehicle", x))}
  /\ x.kind = "delivery" => DeliveryOK(x)

\* A root that is complete has the rows of one run for every profile.
RootOK(s, video) ==
  deepstream[<<s, video>>] = "complete" =>
    \E run \in 1 .. runs : \A p \in Range(s) :
      Exists(Path("ppe", s, video, p)) /\ file[Path("ppe", s, video, p)].by = run

Own(kind, p) == Path(kind, runner.slug, runner.video, p)
Joint(kind, p) == Path(kind, Shared, runner.video, p)

\* The run that goes on wrote the file, from what these files hold now.
Made(x, sources) ==
  Exists(x) /\ file[x].by = runner.run /\ file[x].of = {Version(y) : y \in sources}

EvidenceMade(p) == Exists(Own("evidence", p)) /\ file[Own("evidence", p)].by = runner.run
FusedMade(p) == Exists(Own("person manifest", p))
                /\ Made(Joint("fused", p), {Own("ppe", p), Own("person", p)})
EffectiveMade(p) == Made(Joint("effective", p), {Joint("fused", p), Own("evidence", p)})
VideoMade(p) ==
  Made(Joint("video", p), {IF Forklift THEN Joint("effective", p) ELSE Joint("fused", p)})

ProfileMade(p) ==
  /\ FusedMade(p) /\ VideoMade(p) /\ Joint("video", p) \notin partial
  /\ Forklift => EvidenceMade(p) /\ EffectiveMade(p)

Profile == runner.slug[runner.at]

\* In the DeepStream stage: the manifest says running, the profiles that are done have
\* rows of this run, and an engine is built only if there was none.
DetectingOK ==
  /\ deepstream[Root] = "running"
  /\ \A i \in 1 .. runner.at - 1 : runner.slug[i] # Profile =>
       LET rows == Own("ppe", runner.slug[i]) IN Exists(rows) /\ file[rows].by = runner.run
  /\ runner.pc = "build" => ~Exists(Engine)
  /\ runner.pc \in {"building", "launch", "detecting"} => Exists(Engine)
  /\ runner.pc = "detecting" /\ runner.loaded => Engine \notin partial

\* What the step that a profile is at says of its files.
StageOK(pc) ==
  /\ pc \in PersonSteps \ {"person"} => ~Exists(Own("person manifest", Profile))
  /\ pc = "person manifest" => Exists(Own("person", Profile))
  /\ pc \in VehicleSteps \ {"vehicle"} => ~Exists(Own("vehicle manifest", Profile))
  /\ pc = "vehicle manifest" => Exists(Own("vehicle", Profile))
  /\ pc \in VehicleSteps \cup {"evidence", "effective"} => Forklift
  /\ pc \in VehicleSteps \cup DerivedSteps => Exists(Own("person manifest", Profile))
  /\ pc = "evidence" => Exists(Own("vehicle manifest", Profile))
  /\ pc \in DerivedSteps \ {"evidence"} /\ Forklift => EvidenceMade(Profile)
  /\ pc \in {"effective", "video", "encode"} => FusedMade(Profile)
  /\ pc \in {"video", "encode"} /\ Forklift => EffectiveMade(Profile)
  /\ pc = "encode" => VideoMade(Profile)

DerivingOK ==
  /\ deepstream[Root] = "complete"
  /\ \A i \in 1 .. Len(runner.slug) :
       i < runner.at \/ runner.pc = "deliver" => ProfileMade(runner.slug[i])
  /\ StageOK(runner.pc)

RunnerOK ==
  /\ runner.pc = "off" => runner = Asleep
  /\ runner.pc # "off" =>
    /\ runner.slug \in Slug /\ runner.at \in 1 .. Len(runner.slug)
    /\ runner.run \in 1 .. runs
    /\ \A d \in Deliveries : file[d].by = runner.run => d.video < runner.video
    /\ runner.pc \in {"plan", "job", "deepstream"} => runner.at = 1
    /\ runner.force => runner.pc \in {"deepstream"} \cup InDeepStream
    /\ runner.pc \notin {"plan", "job"} => ~Exists(Delivery)
    /\ runner.pc = "deepstream" /\ runner.force => deepstream[Root] \in {"running", "failed"}
    /\ runner.pc \in InDeepStream => DetectingOK
    /\ runner.pc \in Deriving => DerivingOK

ProcessesOK ==
  /\ \A x \in busy : x.kind # "video"
  /\ \A x \in encoding : x.kind = "video"
  /\ \A x \in partial : x.kind \in {"engine", "video"}

PpeInv ==
  /\ PpeTypeOK
  /\ runner \in Runners
  /\ \A x \in DOMAIN file : FileOK(x)
  /\ \A s \in Slug, video \in PpeVideos : RootOK(s, video)
  /\ RunnerOK
  /\ ProcessesOK

-----------------------------------------------------------------------------
(* Paths and what they hold.                                               *)

LEMMA PathFields ==
  ASSUME NEW kind, NEW s, NEW video, NEW p
  PROVE  /\ Path(kind, s, video, p).kind = kind /\ Path(kind, s, video, p).slug = s
         /\ Path(kind, s, video, p).video = video /\ Path(kind, s, video, p).profile = p
  BY DEF Path

LEMMA PpeNumbers ==
  /\ Videos \in Nat /\ Videos >= 1 /\ ForkliftVideos \subseteq 1 .. Videos
  /\ MaxRuns \in Nat /\ MaxRunnerKills \in Nat /\ MaxRunnerErrors \in Nat
  /\ PpeVideos \subseteq Nat /\ 1 \in PpeVideos /\ NoVariant \notin Variant
  BY PpeSelectionAssumption DEF PpeVideos

LEMMA SlugFacts ==
  ASSUME NEW s \in Slug
  PROVE  /\ Len(s) \in Nat /\ Len(s) >= 1 /\ DOMAIN s = 1 .. Len(s) /\ s # Shared
         /\ \A i \in 1 .. Len(s) : s[i] \in Nat /\ s[i] \in Range(s)
         /\ \A p \in Range(s) : p \in Nat /\ \E i \in 1 .. Len(s) : p = s[i]
<1>1. s \in Seq(Nat \ {0}) /\ s # <<>>
  BY PpeSelectionAssumption
<1>2. Len(s) \in Nat /\ s \in [1 .. Len(s) -> Nat \ {0}] /\ DOMAIN s = 1 .. Len(s)
  BY <1>1, LenProperties
<1>3. Len(s) \in Nat \ {0}
  BY <1>1, EmptySeq
<1>4. QED
  BY <1>1, <1>2, <1>3 DEF Shared, Range

\* The files that a delivery pins.
LEMMA PinnedPath ==
  ASSUME NEW s, NEW video, NEW x
  PROVE  x \in Delivered(s, video) <=> \E p \in Range(s) : x \in Products(s, video, p)
  BY DEF Delivered

LEMMA ProductIs ==
  ASSUME NEW s, NEW video, NEW p, NEW x \in Products(s, video, p)
  PROVE  /\ \/ x.kind \in OwnKinds(video) /\ x = Path(x.kind, s, video, p)
            \/ x.kind \in JointKinds(video) /\ x = Path(x.kind, Shared, video, p)
         /\ x.video = video
<1>1. CASE \E kind \in OwnKinds(video) : x = Path(kind, s, video, p)
  BY <1>1, PathFields
<1>2. CASE \E kind \in JointKinds(video) : x = Path(kind, Shared, video, p)
  BY <1>2, PathFields
<1>3. QED
  BY <1>1, <1>2 DEF Products

LEMMA ProductKinds ==
  ASSUME NEW video
  PROVE  /\ \A kind \in OwnKinds(video) :
              \/ kind \in {"ppe", "person", "person manifest"}
              \/ kind \in {"vehicle", "vehicle manifest", "evidence"} /\ video \in ForkliftVideos
         /\ \A kind \in JointKinds(video) :
              \/ kind \in {"fused", "video"}
              \/ kind = "effective" /\ video \in ForkliftVideos
         /\ {"ppe", "person", "person manifest"} \subseteq OwnKinds(video)
         /\ {"fused", "video"} \subseteq JointKinds(video)
         /\ video \in ForkliftVideos =>
              /\ {"vehicle", "vehicle manifest", "evidence"} \subseteq OwnKinds(video)
              /\ "effective" \in JointKinds(video)
<1>1. CASE video \in ForkliftVideos
  BY <1>1 DEF OwnKinds, JointKinds
<1>2. CASE video \notin ForkliftVideos
  BY <1>2 DEF OwnKinds, JointKinds
<1>3. QED
  BY <1>1, <1>2

LEMMA ProductIn ==
  ASSUME NEW s, NEW video, NEW p
  PROVE  /\ \A kind \in OwnKinds(video) : Path(kind, s, video, p) \in Products(s, video, p)
         /\ \A kind \in JointKinds(video) : Path(kind, Shared, video, p) \in Products(s, video, p)
  BY DEF Products

LEMMA FilePathFacts ==
  ASSUME NEW x \in FilePaths
  PROVE  /\ x.kind \in FileKinds \cup {"delivery"}
         /\ x.kind # "delivery" => x = Path(x.kind, x.slug, x.video, x.profile)
         /\ x.kind = "delivery" =>
              /\ x.slug \in Slug /\ x.video \in PpeVideos
              /\ x = Path("delivery", x.slug, x.video, 0)
<1>1. CASE x \in [kind : FileKinds, slug : Slug \cup {Shared}, video : Nat, profile : Nat]
  <2>1. x.kind \in FileKinds /\ x = Path(x.kind, x.slug, x.video, x.profile)
    BY <1>1 DEF Path
  <2>2. QED
    BY <2>1 DEF FileKinds
<1>2. CASE \E s \in Slug, video \in PpeVideos : x = Path("delivery", s, video, 0)
  BY <1>2, PathFields
<1>3. QED
  BY <1>1, <1>2 DEF FilePaths

Kept(x) == x \in DOMAIN file' /\ file'[x] = file[x]

\* What a run may still replace or remove: rows of a root that is not complete, rows
\* without a manifest, a video that no delivery pins.
Loose(x) ==
  \/ x.kind = "ppe" /\ deepstream[<<x.slug, x.video>>] # "complete"
  \/ x.kind = "person" /\ ~Exists(Beside("person manifest", x))
  \/ x.kind = "vehicle" /\ ~Exists(Beside("vehicle manifest", x))
  \/ x.kind = "video" /\ \A d \in Deliveries : x \notin Pinned(d)

\* Paths side by side.
LEMMA BesideFacts ==
  ASSUME NEW kind, NEW x
  PROVE  /\ Beside(kind, x).kind = kind /\ Beside(kind, x).slug = x.slug
         /\ Beside(kind, x).video = x.video /\ Beside(kind, x).profile = x.profile
  BY PathFields DEF Beside

LEMMA BesideBeside ==
  ASSUME NEW kind, NEW other, NEW x
  PROVE  Beside(kind, Beside(other, x)) = Beside(kind, x)
  BY PathFields DEF Beside

LEMMA BesidePath ==
  ASSUME NEW kind, NEW other, NEW s, NEW video, NEW p
  PROVE  Beside(kind, Path(other, s, video, p)) = Path(kind, s, video, p)
  BY PathFields DEF Beside

LEMMA PinnedIsFirm ==
  ASSUME PpeInv, NEW d \in Deliveries, NEW x \in Pinned(d)
  PROVE  x \in DOMAIN file /\ ~Loose(x)
<1>1. d \in DOMAIN file /\ DeliveryOK(d)
  BY DEF Deliveries, PpeInv, FileOK
<1>2. x \in DOMAIN file
  BY <1>1 DEF DeliveryOK
<1>3. PICK p \in Range(d.slug) : x \in Products(d.slug, d.video, p)
  BY PinnedPath DEF Pinned
<1>4. \A y \in Products(d.slug, d.video, p) : Exists(y)
  BY <1>1, PinnedPath DEF DeliveryOK, Pinned, Exists
<1>5. CASE x.kind \in OwnKinds(d.video) /\ x = Path(x.kind, d.slug, d.video, p)
  <2>1. x.slug = d.slug /\ x.video = d.video
    BY <1>5, PathFields
  <2>2. \A kind : Beside(kind, x) = Path(kind, d.slug, d.video, p)
    BY <1>5, BesidePath
  <2>3. x.kind \in {"ppe", "person", "person manifest", "vehicle", "vehicle manifest", "evidence"}
    BY <1>5, ProductKinds
  <2>4. x.kind # "ppe" \/ deepstream[<<x.slug, x.video>>] = "complete"
    BY <1>1, <2>1 DEF DeliveryOK
  <2>5. x.kind # "person" \/ Exists(Beside("person manifest", x))
    BY <1>4, <2>2, ProductKinds, ProductIn
  <2>6. x.kind # "vehicle" \/ Exists(Beside("vehicle manifest", x))
    <3>1. x.kind = "vehicle" => d.video \in ForkliftVideos
      BY <1>5, ProductKinds
    <3>2. d.video \in ForkliftVideos => "vehicle manifest" \in OwnKinds(d.video)
      BY ProductKinds
    <3>3. QED
      BY <1>4, <2>2, <3>1, <3>2, ProductIn
  <2>7. QED
    BY <1>2, <2>3, <2>4, <2>5, <2>6 DEF Loose
<1>6. CASE x.kind \in JointKinds(d.video)
  BY <1>2, <1>6, ProductKinds DEF Loose
<1>7. QED
  BY <1>3, <1>5, <1>6, ProductIs

\* A step that keeps every file that is not loose keeps what the files say.
KeepsFirm == \A y \in DOMAIN file : Kept(y) \/ Loose(y)
OnlyNewPartial == \A y \in partial' : y \in partial \/ y \notin DOMAIN file
CompleteStays ==
  \A s \in Slug, video \in PpeVideos :
    deepstream[<<s, video>>] = "complete" => deepstream'[<<s, video>>] = "complete"

LEMMA FirmStays ==
  ASSUME KeepsFirm, OnlyNewPartial, NEW x \in DOMAIN file, ~Loose(x)
  PROVE  /\ Kept(x) /\ Exists(x)' /\ file'[x] = file[x] /\ Version(x)' = Version(x)
         /\ x \notin partial => x \notin partial'
  BY DEF KeepsFirm, OnlyNewPartial, Kept, Exists, Version

LEMMA FilesKept ==
  ASSUME PpeInv, KeepsFirm, OnlyNewPartial, CompleteStays, runs' \in Nat, runs' >= runs,
         NEW x \in DOMAIN file, Kept(x)
  PROVE  FileOK(x)'
<1>1. FileOK(x) /\ runs \in Nat
  BY PpeNumbers DEF PpeInv, PpeTypeOK
<1>2. file'[x] = file[x] /\ x \in DOMAIN file'
  BY DEF Kept
<1>3. x \in FilePaths /\ file[x].by \in 1 .. runs
  BY <1>1 DEF FileOK
<1>4. file'[x].by \in 1 .. runs'
  BY <1>1, <1>2, <1>3
<1>5. x.kind = "ppe" => /\ Exists(Path("engine", Shared, 0, x.profile))'
                        /\ Path("engine", Shared, 0, x.profile) \notin partial'
  <2> DEFINE e == Path("engine", Shared, 0, x.profile)
  <2>1. e.kind = "engine"
    BY PathFields
  <2>2. ~Loose(e)
    BY <2>1 DEF Loose
  <2> HIDE DEF e
  <2>3. x.kind = "ppe" => e \in DOMAIN file /\ e \notin partial
    BY <1>1 DEF FileOK, Exists, e
  <2>4. x.kind = "ppe" => Exists(e)' /\ e \notin partial'
    BY <2>2, <2>3, FirmStays
  <2>5. QED
    BY <2>4 DEF e
<1>6. x.kind \in {"person", "vehicle"} => file'[x].of = {}
  BY <1>1, <1>2 DEF FileOK
<1>7. x.kind = "person manifest" =>
        Exists(Beside("person", x))' /\ file'[x].of = {Version(Beside("person", x))'}
  <2> SUFFICES ASSUME x.kind = "person manifest"
               PROVE  Exists(Beside("person", x))'
                      /\ file'[x].of = {Version(Beside("person", x))'}
    OBVIOUS
  <2>1. x = Beside("person manifest", x)
    BY <1>3, FilePathFacts DEF Beside
  <2>2. /\ Beside("person", x) \in DOMAIN file
        /\ file[x].of = {Version(Beside("person", x))}
    BY <1>1 DEF FileOK, Exists
  <2>3. ~Loose(Beside("person", x))
    <3>1. Beside("person", x).kind = "person"
      BY BesideFacts
    <3>2. Beside("person manifest", Beside("person", x)) = x
      BY <2>1 DEF Beside, Path
    <3>3. QED
      BY <3>1, <3>2 DEF Loose, Exists
  <2>4. QED
    BY <1>2, <2>2, <2>3, FirmStays
<1>8. x.kind = "vehicle manifest" =>
        Exists(Beside("vehicle", x))' /\ file'[x].of = {Version(Beside("vehicle", x))'}
  <2> SUFFICES ASSUME x.kind = "vehicle manifest"
               PROVE  Exists(Beside("vehicle", x))'
                      /\ file'[x].of = {Version(Beside("vehicle", x))'}
    OBVIOUS
  <2>1. x = Beside("vehicle manifest", x)
    BY <1>3, FilePathFacts DEF Beside
  <2>2. /\ Beside("vehicle", x) \in DOMAIN file
        /\ file[x].of = {Version(Beside("vehicle", x))}
    BY <1>1 DEF FileOK, Exists
  <2>3. ~Loose(Beside("vehicle", x))
    <3>1. Beside("vehicle", x).kind = "vehicle"
      BY BesideFacts
    <3>2. Beside("vehicle manifest", Beside("vehicle", x)) = x
      BY <2>1 DEF Beside, Path
    <3>3. QED
      BY <3>1, <3>2 DEF Loose, Exists
  <2>4. QED
    BY <1>2, <2>2, <2>3, FirmStays
<1>9. x.kind = "evidence" =>
        /\ Exists(Beside("vehicle manifest", x))' /\ Exists(Beside("vehicle", x))'
        /\ file'[x].of = {Version(Beside("vehicle", x))'}
  <2> SUFFICES ASSUME x.kind = "evidence"
               PROVE  /\ Exists(Beside("vehicle manifest", x))'
                      /\ Exists(Beside("vehicle", x))'
                      /\ file'[x].of = {Version(Beside("vehicle", x))'}
    OBVIOUS
  <2>1. /\ Beside("vehicle", x) \in DOMAIN file
        /\ Exists(Beside("vehicle manifest", x)) /\ Beside("vehicle manifest", x) \in DOMAIN file
        /\ file[x].of = {Version(Beside("vehicle", x))}
    BY <1>1 DEF FileOK, Exists
  <2>2. ~Loose(Beside("vehicle", x)) /\ ~Loose(Beside("vehicle manifest", x))
    <3>1. /\ Beside("vehicle", x).kind = "vehicle"
          /\ Beside("vehicle manifest", x).kind = "vehicle manifest"
          /\ Beside("vehicle manifest", Beside("vehicle", x)) = Beside("vehicle manifest", x)
      BY DEF Beside, Path
    <3>2. QED
      BY <2>1, <3>1 DEF Loose
  <2>3. QED
    BY <1>2, <2>1, <2>2, FirmStays
<1>10. x.kind = "delivery" => DeliveryOK(x)'
  <2> SUFFICES ASSUME x.kind = "delivery" PROVE DeliveryOK(x)'
    OBVIOUS
  <2>1. x \in Deliveries /\ DeliveryOK(x) /\ x.slug \in Slug /\ x.video \in PpeVideos
    BY <1>1, <1>3, FilePathFacts DEF Deliveries, FileOK
  <2>2. \A y \in Pinned(x) : y \in DOMAIN file /\ ~Loose(y)
    BY <2>1, PinnedIsFirm
  <2>3. \A y \in Pinned(x) : Version(y)' = Version(y) /\ y \in DOMAIN file' /\ y \notin partial'
                             /\ file'[y] = file[y]
    BY <2>1, <2>2, FirmStays DEF DeliveryOK, Exists
  <2>4. {Version(y)' : y \in Pinned(x)} = {Version(y) : y \in Pinned(x)}
    BY <2>3
  <2>5. Pinned(x)' = Pinned(x)
    BY DEF Pinned
  <2>6. deepstream'[<<x.slug, x.video>>] = "complete"
    BY <2>1 DEF DeliveryOK, CompleteStays
  <2>7. QED
    BY <1>2, <2>1, <2>3, <2>4, <2>5, <2>6 DEF DeliveryOK
<1>11. QED
  BY <1>2, <1>3, <1>4, <1>5, <1>6, <1>7, <1>8, <1>9, <1>10 DEF FileOK

-----------------------------------------------------------------------------
(* Steps of the runner in general.                                         *)

\* PpeTypeOK without the runner and the writers of files.
CountersOK ==
  /\ runs \in 0 .. MaxRuns
  /\ planFile \in [Slug -> Variant \cup {NoVariant}]
  /\ deepstream \in [Slug \X PpeVideos -> {"none", "running", "failed", "complete"}]
  /\ encoding \subseteq partial /\ partial \subseteq DOMAIN file
  /\ runnerKills \in 0 .. MaxRunnerKills /\ runnerErrors \in 0 .. MaxRunnerErrors

LEMMA PpeFacts ==
  ASSUME PpeInv
  PROVE  /\ CountersOK /\ runner \in Runners /\ RunnerOK /\ ProcessesOK
         /\ runs \in Nat
         /\ \A x \in DOMAIN file : FileOK(x)
         /\ \A s \in Slug, video \in PpeVideos : RootOK(s, video)
  BY PpeNumbers DEF PpeInv, PpeTypeOK, CountersOK

LEMMA RunnerFacts ==
  ASSUME PpeInv, runner.pc # "off"
  PROVE  /\ runner.slug \in Slug /\ runner.video \in PpeVideos
         /\ Len(runner.slug) \in Nat /\ runner.at \in 1 .. Len(runner.slug)
         /\ runner.run \in 1 .. runs /\ runner.run \in Nat
         /\ Profile \in Nat /\ Profile \in Range(runner.slug)
         /\ Root \in Slug \X PpeVideos
<1>1. /\ runner.slug \in Slug /\ runner.at \in 1 .. Len(runner.slug)
      /\ runner.run \in 1 .. runs /\ runner \in Runners /\ runs \in Nat
  BY PpeFacts DEF RunnerOK
<1>2. runner.video \in PpeVideos /\ runner.run \in Nat
  BY <1>1 DEF Runners
<1>3. QED
  BY <1>1, <1>2, SlugFacts DEF Profile, Root

LEMMA MovesFacts ==
  ASSUME PpeInv, NEW from, NEW to \in RunnerSteps, Moves(from, to)
  PROVE  /\ runner.pc = from /\ runner'.pc = to /\ runner' \in Runners
         /\ runner'.run = runner.run /\ runner'.slug = runner.slug
         /\ runner'.video = runner.video /\ runner'.at = runner.at
         /\ runner'.force = runner.force /\ runner'.loaded = runner.loaded
<1>1. runner \in Runners
  BY DEF PpeInv
<1>2. QED
  BY <1>1 DEF Moves, Runners

\* The paths of the runner depend on the position only.
LEMMA PlaceStays ==
  ASSUME runner'.slug = runner.slug, runner'.video = runner.video
  PROVE  /\ \A kind, p : Own(kind, p)' = Own(kind, p)
         /\ \A kind, p : Joint(kind, p)' = Joint(kind, p)
         /\ Delivery' = Delivery /\ Root' = Root /\ Forklift' = Forklift
         /\ runner'.at = runner.at => Profile' = Profile /\ Engine' = Engine
  BY DEF Own, Joint, Delivery, Root, Forklift, Profile, Engine

LEMMA RunnerPaths ==
  /\ \A kind : Here(kind) = Own(kind, Profile)
  /\ \A kind : Common(kind) = Joint(kind, Profile)
  /\ Engine = Path("engine", Shared, 0, Profile)
  BY DEF Here, Own, Common, Joint, Engine, Profile

OnlyNowComplete ==
  \A s \in Slug, video \in PpeVideos :
    deepstream'[<<s, video>>] = "complete" =>
      deepstream[<<s, video>>] = "complete" \/ RootOK(s, video)'

LEMMA RootsKept ==
  ASSUME PpeInv, KeepsFirm, OnlyNewPartial, OnlyNowComplete, runs' \in Nat, runs' >= runs,
         NEW s \in Slug, NEW video \in PpeVideos
  PROVE  RootOK(s, video)'
<1>1. CASE deepstream[<<s, video>>] # "complete"
  BY <1>1 DEF OnlyNowComplete, RootOK
<1>2. CASE deepstream[<<s, video>>] = "complete"
  <2>1. RootOK(s, video) /\ runs \in Nat
    BY PpeFacts
  <2>2. PICK run \in 1 .. runs : \A p \in Range(s) :
          Exists(Path("ppe", s, video, p)) /\ file[Path("ppe", s, video, p)].by = run
    BY <1>2, <2>1 DEF RootOK
  <2>3. run \in 1 .. runs'
    BY <2>1
  <2>4. ASSUME NEW p \in Range(s)
        PROVE  Exists(Path("ppe", s, video, p))' /\ file'[Path("ppe", s, video, p)].by = run
    <3> DEFINE x == Path("ppe", s, video, p)
    <3>1. x.kind = "ppe" /\ x.slug = s /\ x.video = video
      BY PathFields
    <3>2. x \in DOMAIN file /\ file[x].by = run
      BY <2>2 DEF Exists
    <3>3. ~Loose(x)
      BY <1>2, <3>1 DEF Loose
    <3> HIDE DEF x
    <3>4. Exists(x)' /\ file'[x].by = run
      BY <3>2, <3>3, FirmStays
    <3>5. QED
      BY <3>4 DEF x
  <2>5. QED
    BY <2>3, <2>4 DEF RootOK
<1>3. QED
  BY <1>1, <1>2

\* What is to be shown of a step.
LEMMA PpeStepOf ==
  ASSUME PpeInv, KeepsFirm, OnlyNewPartial, CompleteStays, OnlyNowComplete, runs' >= runs,
         CountersOK', runner' \in Runners, RunnerOK', ProcessesOK',
         \A x \in DOMAIN file' : (x \in DOMAIN file /\ Kept(x)) \/ FileOK(x)'
  PROVE  PpeInv'
<1>1. runs' \in Nat
  BY PpeNumbers DEF CountersOK
<1>2. \A x \in DOMAIN file' : FileOK(x)'
  BY <1>1, FilesKept
<1>3. \A s \in Slug, video \in PpeVideos : RootOK(s, video)'
  BY <1>1, RootsKept
<1>4. PpeTypeOK'
  <2>1. runner'.slug \in Slug \cup {Shared} /\ runner'.video \in PpeVideos
        /\ \A path \in DOMAIN file' : file'[path].by \in 1 .. runs'
    BY <1>2 DEF Runners, FileOK
  <2>2. CASE runner'.pc = "off"
    <3>1. runner'.run = 0
      BY <2>2 DEF RunnerOK, Asleep
    <3>2. runner'.run \in 0 .. runs'
      BY <1>1, <3>1
    <3>3. QED
      BY <2>1, <2>2, <3>2 DEF PpeTypeOK, CountersOK
  <2>3. CASE runner'.pc # "off"
    <3>1. /\ runner'.slug \in Slug /\ runner'.at \in 1 .. Len(runner'.slug)
          /\ runner'.run \in 1 .. runs'
      BY <2>3 DEF RunnerOK
    <3>2. runner'.at \in DOMAIN runner'.slug /\ runner'.run \in 0 .. runs'
      BY <1>1, <3>1, SlugFacts
    <3>3. QED
      BY <2>1, <3>2 DEF PpeTypeOK, CountersOK
  <2>4. QED
    BY <2>2, <2>3
<1>5. QED
  BY <1>2, <1>3, <1>4 DEF PpeInv

-----------------------------------------------------------------------------
(* The runner stops, processes end.                                        *)

LEMMA AllKept ==
  ASSUME file' = file
  PROVE  KeepsFirm /\ \A x \in DOMAIN file' : x \in DOMAIN file /\ Kept(x)
  BY DEF KeepsFirm, Kept

LEMMA AsleepFacts == Asleep \in Runners /\ Asleep.pc = "off"
  BY PpeNumbers DEF Asleep, Runners, RunnerSteps, Shared

\* Whatever the runner was doing, its files stay as they are.
LEMMA StopHolds ==
  ASSUME PpeInv, Stops, file' = file, UNCHANGED <<runs, planFile>>,
         busy' \subseteq busy, encoding' \subseteq encoding, partial' = partial,
         runnerKills' \in 0 .. MaxRunnerKills, runnerErrors' \in 0 .. MaxRunnerErrors,
         \/ deepstream' = deepstream
         \/ /\ runner.pc # "off" /\ deepstream[Root] # "complete"
            /\ deepstream' = [deepstream EXCEPT ![Root] = "failed"]
  PROVE  PpeInv'
<1>1. CountersOK /\ ProcessesOK /\ runs \in Nat
  BY PpeFacts
<1>2. KeepsFirm /\ \A x \in DOMAIN file' : x \in DOMAIN file /\ Kept(x)
  BY AllKept
<1>3. OnlyNewPartial
  BY DEF OnlyNewPartial
<1>4. /\ deepstream' \in [Slug \X PpeVideos -> {"none", "running", "failed", "complete"}]
      /\ \A r \in Slug \X PpeVideos : deepstream'[r] = "complete" <=> deepstream[r] = "complete"
  <2>1. deepstream \in [Slug \X PpeVideos -> {"none", "running", "failed", "complete"}]
    BY <1>1 DEF CountersOK
  <2>2. QED
    BY <2>1
<1>5. CompleteStays /\ OnlyNowComplete
  BY <1>4 DEF CompleteStays, OnlyNowComplete
<1>6. CountersOK' /\ ProcessesOK'
  BY <1>1, <1>4 DEF CountersOK, ProcessesOK
<1>7. runner' \in Runners /\ RunnerOK'
  BY AsleepFacts DEF Stops, RunnerOK
<1>8. QED
  BY <1>1, <1>2, <1>3, <1>5, <1>6, <1>7, PpeStepOf

\* Partial files get whole, containers and encoders end.
LEMMA ProcessHolds ==
  ASSUME PpeInv,
         UNCHANGED <<runner, runs, planFile, deepstream, file, runnerKills, runnerErrors>>,
         busy' \subseteq busy, encoding' \subseteq encoding, partial' \subseteq partial,
         encoding' \subseteq partial'
  PROVE  PpeInv'
<1>1. CountersOK /\ ProcessesOK /\ runs \in Nat /\ RunnerOK /\ runner \in Runners
  BY PpeFacts
<1>2. KeepsFirm /\ \A x \in DOMAIN file' : x \in DOMAIN file /\ Kept(x)
  BY AllKept
<1>3. OnlyNewPartial
  BY DEF OnlyNewPartial
<1>4. CompleteStays /\ OnlyNowComplete
  BY DEF CompleteStays, OnlyNowComplete
<1>5. CountersOK' /\ ProcessesOK'
  BY <1>1 DEF CountersOK, ProcessesOK
<1>6. RunnerOK'
  <2>1. \A p : /\ FusedMade(p) => FusedMade(p)'
               /\ EvidenceMade(p) => EvidenceMade(p)'
               /\ EffectiveMade(p) => EffectiveMade(p)'
               /\ VideoMade(p) => VideoMade(p)'
    BY DEF FusedMade, EvidenceMade, EffectiveMade, VideoMade, Made, Exists, Version, Own,
           Joint, Forklift
  <2>2. \A p : ProfileMade(p) => ProfileMade(p)'
    BY <2>1 DEF ProfileMade, Joint, Forklift
  <2>3. StageOK(runner.pc) => StageOK(runner.pc)'
    BY <2>1 DEF StageOK, Exists, Own, Profile, Forklift
  <2>4. DetectingOK => DetectingOK'
    BY DEF DetectingOK, Exists, Own, Profile, Root, Engine
  <2>5. DerivingOK => DerivingOK'
    BY <2>2, <2>3 DEF DerivingOK, Root
  <2>6. QED
    BY <1>1, <2>4, <2>5 DEF RunnerOK, Deliveries, Delivery, Exists, Root
<1>7. QED
  BY <1>1, <1>2, <1>3, <1>4, <1>5, <1>6, PpeStepOf

LEMMA EndsHold ==
  ASSUME PpeInv,
         \/ \E name \in busy : ContainerEnds(name) \/ ContainerDies(name)
         \/ \E path \in encoding : EncodingEnds(path)
  PROVE  PpeInv'
<1>1. CountersOK /\ ProcessesOK
  BY PpeFacts
<1>2. ASSUME NEW name \in busy, ContainerEnds(name) PROVE PpeInv'
  <2>1. encoding' \subseteq partial'
    BY <1>1, <1>2 DEF ContainerEnds, CountersOK, ProcessesOK
  <2>2. QED
    BY <1>2, <2>1, ProcessHolds DEF ContainerEnds
<1>3. ASSUME NEW name \in busy, ContainerDies(name) PROVE PpeInv'
  BY <1>1, <1>3, ProcessHolds DEF ContainerDies, CountersOK
<1>4. ASSUME NEW path \in encoding, EncodingEnds(path) PROVE PpeInv'
  BY <1>1, <1>4, ProcessHolds DEF EncodingEnds, CountersOK
<1>5. QED
  BY <1>2, <1>3, <1>4

\* A root that is being detected is not complete.
LEMMA FailedRoot ==
  ASSUME PpeInv, FailDeepStream
  PROVE  \/ deepstream' = deepstream
         \/ /\ runner.pc # "off" /\ deepstream[Root] # "complete"
            /\ deepstream' = [deepstream EXCEPT ![Root] = "failed"]
<1>1. runner.pc \in InDeepStream => runner.pc # "off" /\ deepstream[Root] = "running"
  BY PpeFacts DEF RunnerOK, DetectingOK, InDeepStream
<1>2. QED
  BY <1>1 DEF FailDeepStream

LEMMA StopsHold ==
  ASSUME PpeInv, RefuseDifferentPlan \/ RefuseDeepStream \/ RefuseBlocked \/ KillRunner
  PROVE  PpeInv'
<1>1. CountersOK
  BY PpeFacts
<1>2. CASE RefuseDifferentPlan
  BY <1>1, <1>2, StopHolds DEF RefuseDifferentPlan, quiet, CountersOK
<1>3. CASE RefuseDeepStream
  BY <1>1, <1>3, StopHolds DEF RefuseDeepStream, quiet, CountersOK
<1>4. CASE RefuseBlocked
  BY <1>1, <1>4, FailedRoot, StopHolds DEF RefuseBlocked, quiet, CountersOK
<1>5. CASE KillRunner
  <2>1. runnerKills' \in 0 .. MaxRunnerKills
    BY <1>1, <1>5, PpeNumbers DEF KillRunner, CountersOK
  <2>2. QED
    BY <1>1, <1>5, <2>1, StopHolds DEF KillRunner, CountersOK
<1>6. QED
  BY <1>2, <1>3, <1>4, <1>5

\* The video that the run is encoding is its own: no delivery pins it.
LEMMA EncodedIsLoose ==
  ASSUME PpeInv, runner.pc = "encode"
  PROVE  /\ Common("video") \in DOMAIN file /\ file[Common("video")].by = runner.run
         /\ Common("video").kind = "video" /\ Loose(Common("video"))
<1> DEFINE x == Common("video")
<1>1. VideoMade(Profile) /\ \A d \in Deliveries : file[d].by = runner.run => d.video < runner.video
  BY PpeFacts DEF RunnerOK, DerivingOK, StageOK, Deriving, DerivedSteps
<1>2. x = Joint("video", Profile)
  BY RunnerPaths
<1>3. x.kind = "video" /\ x.video = runner.video
  BY <1>2, PathFields DEF Joint
<1>4. x \in DOMAIN file /\ file[x].by = runner.run
  BY <1>1, <1>2 DEF VideoMade, Made, Exists
<1> HIDE DEF x
<1>5. ASSUME NEW d \in Deliveries, x \in Pinned(d)
      PROVE  FALSE
  <2>1. d \in DOMAIN file /\ DeliveryOK(d)
    BY PpeFacts DEF Deliveries, FileOK
  <2>2. file[x].by = file[d].by
    BY <1>3, <1>5, <2>1 DEF DeliveryOK, DerivedKinds
  <2>3. d.video < runner.video
    BY <1>1, <1>4, <2>2
  <2>4. x.video = d.video
    <3>1. PICK p \in Range(d.slug) : x \in Products(d.slug, d.video, p)
      BY <1>5, PinnedPath DEF Pinned
    <3>2. QED
      BY <3>1, ProductIs
  <2>5. runner.video \in Nat
    BY PpeFacts, PpeNumbers DEF Runners
  <2>6. QED
    BY <1>3, <2>3, <2>4, <2>5
<1>6. Loose(x)
  BY <1>3, <1>5 DEF Loose
<1>7. QED
  BY <1>3, <1>4, <1>6 DEF x

LEMMA RunnerFailsHolds ==
  ASSUME PpeInv, RunnerFails
  PROVE  PpeInv'
<1> DEFINE x == Common("video")
<1>1. CountersOK /\ ProcessesOK /\ runs \in Nat /\ runner.pc # "off"
  BY PpeFacts DEF RunnerFails
<1>2. runnerErrors' \in 0 .. MaxRunnerErrors /\ busy' \subseteq busy
  BY <1>1, PpeNumbers DEF RunnerFails, CountersOK
<1>3. \/ deepstream' = deepstream
      \/ /\ runner.pc # "off" /\ deepstream[Root] # "complete"
         /\ deepstream' = [deepstream EXCEPT ![Root] = "failed"]
  BY FailedRoot DEF RunnerFails
<1>4. CASE UNCHANGED <<file, partial>> /\ encoding' \subseteq encoding
  BY <1>1, <1>2, <1>3, <1>4, StopHolds DEF RunnerFails, CountersOK
<1>5. CASE /\ runner.pc = "encode"
           /\ Removes({x})
           /\ partial' = partial \ {x}
           /\ encoding' = encoding \ {x}
  <2>1. x \in DOMAIN file /\ Loose(x)
    BY <1>5, EncodedIsLoose
  <2> HIDE DEF x
  <2>2. \A y \in DOMAIN file' : y \in DOMAIN file /\ Kept(y)
    BY <1>5 DEF Removes, Restrict, Kept
  <2>3. \A y \in DOMAIN file : y # x => Kept(y)
    BY <1>5 DEF Removes, Restrict, Kept
  <2>4. KeepsFirm /\ OnlyNewPartial
    BY <1>5, <2>1, <2>3 DEF KeepsFirm, OnlyNewPartial
  <2>5. partial' \subseteq DOMAIN file' /\ encoding' \subseteq partial'
    BY <1>1, <1>5, <2>3 DEF CountersOK, Kept
  <2>6. deepstream' = deepstream
    BY <1>5 DEF RunnerFails, FailDeepStream, InDeepStream
  <2>7. CompleteStays /\ OnlyNowComplete
    BY <2>6 DEF CompleteStays, OnlyNowComplete
  <2>8. CountersOK' /\ ProcessesOK'
    BY <1>1, <1>2, <1>5, <2>5, <2>6 DEF CountersOK, ProcessesOK, RunnerFails
  <2>9. runner' \in Runners /\ RunnerOK'
    BY AsleepFacts DEF RunnerFails, Stops, RunnerOK
  <2>10. QED
    BY <1>1, <2>2, <2>4, <2>7, <2>8, <2>9, PpeStepOf DEF RunnerFails
<1>6. encoding \ {Common("video")} \subseteq encoding
  OBVIOUS
<1>7. QED
  BY <1>4, <1>5, <1>6 DEF RunnerFails

-----------------------------------------------------------------------------
(* A runner starts and goes through the jobs.                              *)

LEMMA StartsHolds ==
  ASSUME PpeInv, NEW s \in Slug, NEW variant \in Variant \cup {NoVariant},
         NEW video \in PpeVideos, NEW step \in {"plan", "deepstream"}, NEW force \in BOOLEAN,
         Starts(step, s, variant, video, force),
         step = "plan" => ~force,
         step = "deepstream" => force /\ deepstream[<<s, video>>] \in {"running", "failed"}
  PROVE  PpeInv'
<1>1. CountersOK /\ ProcessesOK /\ runs \in Nat /\ \A x \in DOMAIN file : FileOK(x)
  BY PpeFacts
<1>2. KeepsFirm /\ \A x \in DOMAIN file' : x \in DOMAIN file /\ Kept(x)
  BY AllKept DEF Starts
<1>3. OnlyNewPartial /\ CompleteStays /\ OnlyNowComplete
  BY DEF Starts, OnlyNewPartial, CompleteStays, OnlyNowComplete
<1>4. runs' \in 0 .. MaxRuns /\ runs' = runs + 1
  BY <1>1, PpeNumbers DEF Starts
<1>5. CountersOK' /\ ProcessesOK'
  BY <1>1, <1>4 DEF Starts, CountersOK, ProcessesOK
<1>6. /\ runner'.pc = step /\ runner'.run = runs + 1 /\ runner'.slug = s
      /\ runner'.video = video /\ runner'.at = 1 /\ runner'.force = force
      /\ runner' \in Runners
  BY <1>1 DEF Starts, Runners, RunnerSteps
<1>7. runner'.run \in 1 .. runs'
  BY <1>1, <1>4, <1>6
<1>8. runner'.at \in 1 .. Len(runner'.slug)
  BY <1>6, SlugFacts
<1>9. \A d \in Deliveries' : file'[d].by # runner'.run
  <2>1. \A d \in DOMAIN file : file[d].by \in 1 .. runs
    BY <1>1 DEF FileOK
  <2>2. file' = file
    BY DEF Starts
  <2>3. QED
    BY <1>1, <1>6, <2>1, <2>2 DEF Deliveries
<1>10. step = "deepstream" => ~Exists(Delivery)'
  <2> SUFFICES ASSUME step = "deepstream", Delivery' \in DOMAIN file PROVE FALSE
    BY DEF Starts, Exists
  <2>1. /\ Delivery'.kind = "delivery" /\ Delivery'.slug = s /\ Delivery'.video = video
    BY <1>6, PathFields DEF Delivery
  <2>2. deepstream[<<s, video>>] = "complete"
    BY <1>1, <2>1 DEF FileOK, DeliveryOK
  <2>3. QED
    BY <2>2
<1>11. RunnerOK'
  <2>1. runner'.pc # "off" /\ runner'.pc \notin InDeepStream /\ runner'.pc \notin Deriving
    BY <1>6 DEF InDeepStream, Deriving, PersonSteps, VehicleSteps, DerivedSteps
  <2>2. Root' = <<s, video>>
    BY <1>6 DEF Root
  <2>3. deepstream' = deepstream
    BY DEF Starts
  <2>4. QED
    BY <1>6, <1>7, <1>8, <1>9, <1>10, <2>1, <2>2, <2>3 DEF RunnerOK
<1>12. QED
  BY <1>1, <1>2, <1>3, <1>4, <1>5, <1>6, <1>11, PpeStepOf

LEMMA StartHolds ==
  ASSUME PpeInv,
         \/ \E s \in Slug, v \in Variant : StartRunner(s, v)
         \/ \E s \in Slug, video \in PpeVideos : ForceDeepStream(s, video)
  PROVE  PpeInv'
<1>1. ASSUME NEW s \in Slug, NEW v \in Variant, StartRunner(s, v) PROVE PpeInv'
  BY <1>1, StartsHolds, PpeNumbers DEF StartRunner
<1>2. ASSUME NEW s \in Slug, NEW video \in PpeVideos, ForceDeepStream(s, video) PROVE PpeInv'
  <2>1. planFile[s] \in Variant \cup {NoVariant}
    BY PpeFacts DEF CountersOK
  <2>2. QED
    BY <1>2, <2>1, StartsHolds DEF ForceDeepStream
<1>3. QED
  BY <1>1, <1>2

\* Where the runner is, without what its step says of the files.
Placed ==
  /\ runner.slug \in Slug /\ runner.at \in 1 .. Len(runner.slug)
  /\ runner.run \in 1 .. runs
  /\ \A d \in Deliveries : file[d].by = runner.run => d.video < runner.video

LEMMA PlacedFacts ==
  ASSUME PpeInv, runner.pc # "off"
  PROVE  Placed
  BY PpeFacts DEF RunnerOK, Placed

LEMMA PlacedStays ==
  ASSUME PpeInv, runner.pc # "off", runs' = runs,
         runner'.slug = runner.slug, runner'.run = runner.run,
         runner'.video = runner.video, runner'.at = runner.at,
         \A d \in DOMAIN file' : d.kind = "delivery" => d \in DOMAIN file /\ Kept(d)
  PROVE  Placed'
  BY PlacedFacts DEF Placed, Deliveries, Kept

LEMMA QuietHolds ==
  ASSUME PpeInv,
         UNCHANGED <<file, runs, partial, encoding, runnerKills, runnerErrors>>,
         planFile' \in [Slug -> Variant \cup {NoVariant}],
         \/ deepstream' = deepstream
         \/ /\ deepstream[Root] # "complete"
            /\ deepstream' = [deepstream EXCEPT ![Root] = "running"],
         \A x \in busy' : x \in busy \/ x.kind # "video",
         runner' \in Runners, RunnerOK'
  PROVE  PpeInv'
<1>1. CountersOK /\ ProcessesOK /\ runs \in Nat
  BY PpeFacts
<1>2. KeepsFirm /\ \A x \in DOMAIN file' : x \in DOMAIN file /\ Kept(x)
  BY AllKept
<1>3. OnlyNewPartial
  BY DEF OnlyNewPartial
<1>4. /\ deepstream' \in [Slug \X PpeVideos -> {"none", "running", "failed", "complete"}]
      /\ \A r \in Slug \X PpeVideos : deepstream'[r] = "complete" <=> deepstream[r] = "complete"
  <2>1. deepstream \in [Slug \X PpeVideos -> {"none", "running", "failed", "complete"}]
    BY <1>1 DEF CountersOK
  <2>2. QED
    BY <2>1
<1>5. CompleteStays /\ OnlyNowComplete
  BY <1>4 DEF CompleteStays, OnlyNowComplete
<1>6. CountersOK' /\ ProcessesOK'
  BY <1>1, <1>4 DEF CountersOK, ProcessesOK
<1>7. QED
  BY <1>1, <1>2, <1>3, <1>5, <1>6, PpeStepOf

LEMMA StepKinds ==
  /\ InDeepStream \subseteq RunnerSteps /\ Deriving \subseteq RunnerSteps
  /\ {"off", "plan", "job", "deepstream"} \subseteq RunnerSteps
  /\ \A pc \in {"off", "plan", "job", "deepstream"} : pc \notin InDeepStream /\ pc \notin Deriving
  /\ \A pc \in InDeepStream : pc \notin Deriving
  BY DEF RunnerSteps, InDeepStream, Deriving, PersonSteps, VehicleSteps, DerivedSteps

LEMMA PersistPlanHolds ==
  ASSUME PpeInv, PersistPlan
  PROVE  PpeInv'
<1>1. /\ runner.pc = "plan" /\ runner'.pc = "job" /\ runner' \in Runners
      /\ runner'.run = runner.run /\ runner'.slug = runner.slug
      /\ runner'.video = runner.video /\ runner'.at = runner.at
      /\ runner'.force = runner.force
  BY MovesFacts, StepKinds DEF PersistPlan
<1>2. runner.at = 1 /\ ~runner.force
  BY <1>1, PpeFacts DEF RunnerOK, InDeepStream
<1>3. Placed'
  BY <1>1, PlacedStays DEF PersistPlan, Kept
<1>4. RunnerOK'
  BY <1>1, <1>2, <1>3, StepKinds DEF RunnerOK, Placed
<1>5. planFile' \in [Slug -> Variant \cup {NoVariant}]
  BY PpeFacts DEF PersistPlan, CountersOK, Runners
<1>6. QED
  BY <1>1, <1>4, <1>5, QuietHolds DEF PersistPlan

\* After a video comes the next one, or the end.
LEMMA NextVideoFacts ==
  ASSUME PpeInv, NEW from, NextVideo(from), from # "off", runs' = runs, ~runner.force,
         \A d \in DOMAIN file' : d.kind = "delivery" =>
           \/ d \in DOMAIN file /\ Kept(d)
           \/ d.video = runner.video
  PROVE  runner' \in Runners /\ RunnerOK'
<1>1. runner.pc = from /\ runner \in Runners /\ Placed /\ runner.video \in PpeVideos
  BY PpeFacts, PlacedFacts DEF NextVideo, Runners
<1>2. runner.video \in 1 .. Videos /\ Videos \in Nat
  BY <1>1, PpeNumbers DEF PpeVideos
<1>3. CASE runner.video < Videos
  <2>1. runner' = [runner EXCEPT !.pc = "job", !.video = @ + 1, !.at = 1]
    BY <1>3 DEF NextVideo
  <2>2. runner.video + 1 \in PpeVideos
    BY <1>2, <1>3 DEF PpeVideos
  <2>3. /\ runner' \in Runners /\ runner'.pc = "job" /\ runner'.video = runner.video + 1
        /\ runner'.at = 1 /\ runner'.slug = runner.slug /\ runner'.run = runner.run
        /\ runner'.force = runner.force
    BY <1>1, <2>1, <2>2, StepKinds DEF Runners
  <2>4. runner'.slug \in Slug /\ runner'.at \in 1 .. Len(runner'.slug)
    BY <1>1, <2>3, SlugFacts DEF Placed
  <2>5. runner'.run \in 1 .. runs'
    BY <1>1, <2>3 DEF Placed
  <2>6. ASSUME NEW d \in Deliveries', file'[d].by = runner'.run
        PROVE  d.video < runner'.video
    <3>1. CASE d \in DOMAIN file /\ Kept(d)
      <4>1. d.video < runner.video
        BY <1>1, <2>3, <2>6, <3>1 DEF Placed, Deliveries, Kept
      <4>2. d.video \in PpeVideos
        <5>1. d \in FilePaths /\ d.kind = "delivery"
          BY <2>6, <3>1, PpeFacts DEF FileOK, Deliveries
        <5>2. QED
          BY <5>1, FilePathFacts
      <4>3. d.video \in Nat /\ runner.video \in Nat
        BY <1>1, <4>2, PpeNumbers
      <4>4. d.video < runner.video + 1
        BY <4>1, <4>3
      <4>5. QED
        BY <2>3, <4>4
    <3>2. CASE d.video = runner.video
      BY <1>2, <2>3, <3>2
    <3>3. QED
      BY <2>6, <3>1, <3>2 DEF Deliveries
  <2>7. QED
    BY <2>3, <2>4, <2>5, <2>6, StepKinds DEF RunnerOK
<1>4. CASE ~(runner.video < Videos)
  BY <1>4, AsleepFacts DEF NextVideo, Stops, RunnerOK
<1>5. QED
  BY <1>3, <1>4

LEMMA SkipDeliveredHolds ==
  ASSUME PpeInv, SkipDelivered
  PROVE  PpeInv'
<1>1. runner.pc = "job" /\ ~runner.force
  BY PpeFacts DEF SkipDelivered, NextVideo, RunnerOK, InDeepStream
<1>2. runner' \in Runners /\ RunnerOK'
  BY <1>1, NextVideoFacts DEF SkipDelivered, quiet, Kept
<1>3. QED
  BY <1>2, PpeFacts, QuietHolds DEF SkipDelivered, quiet, CountersOK

LEMMA StartVideoHolds ==
  ASSUME PpeInv, StartVideo
  PROVE  PpeInv'
<1>1. /\ runner.pc = "job" /\ runner'.pc = "deepstream" /\ runner' \in Runners
      /\ runner'.run = runner.run /\ runner'.slug = runner.slug
      /\ runner'.video = runner.video /\ runner'.at = runner.at
      /\ runner'.force = runner.force
  BY MovesFacts, StepKinds DEF StartVideo
<1>2. runner.at = 1 /\ ~runner.force
  BY <1>1, PpeFacts DEF RunnerOK, InDeepStream
<1>3. Placed' /\ ~Exists(Delivery)'
  BY <1>1, PlacedStays, PlaceStays DEF StartVideo, Kept, Exists, quiet
<1>4. RunnerOK'
  BY <1>1, <1>2, <1>3, StepKinds DEF RunnerOK, Placed
<1>5. QED
  BY <1>1, <1>4, PpeFacts, QuietHolds DEF StartVideo, quiet, CountersOK

\* What is complete is not forced, so its run goes on with the profiles.
LEMMA ResumeDeepStreamHolds ==
  ASSUME PpeInv, ResumeDeepStream
  PROVE  PpeInv'
<1>1. /\ runner.pc = "deepstream" /\ runner'.pc = "profile" /\ runner' \in Runners
      /\ runner'.run = runner.run /\ runner'.slug = runner.slug
      /\ runner'.video = runner.video /\ runner'.at = runner.at
      /\ runner'.force = runner.force
  BY MovesFacts, StepKinds DEF ResumeDeepStream, Deriving
<1>2. runner.at = 1 /\ ~runner.force /\ ~Exists(Delivery)
  BY <1>1, PpeFacts DEF RunnerOK, InDeepStream, ResumeDeepStream
<1>3. Placed' /\ ~Exists(Delivery)'
  BY <1>1, <1>2, PlacedStays, PlaceStays DEF ResumeDeepStream, Kept, Exists, quiet
<1>4. DerivingOK'
  <2>1. deepstream'[Root'] = "complete"
    BY <1>1, PlaceStays DEF ResumeDeepStream
  <2>2. StageOK(runner.pc)'
    BY <1>1 DEF StageOK, PersonSteps, VehicleSteps, DerivedSteps
  <2>3. runner'.at = 1
    BY <1>1, <1>2
  <2>4. \A i \in 1 .. Len(runner'.slug) : ~(i < runner'.at)
    BY <1>3, <2>3, SlugFacts DEF Placed
  <2>5. QED
    BY <1>1, <2>1, <2>2, <2>4 DEF DerivingOK
<1>5. RunnerOK'
  BY <1>1, <1>2, <1>3, <1>4, StepKinds DEF RunnerOK, Placed, Deriving
<1>6. QED
  BY <1>1, <1>5, PpeFacts, QuietHolds DEF ResumeDeepStream, quiet, CountersOK

LEMMA StartDeepStreamHolds ==
  ASSUME PpeInv, StartDeepStream
  PROVE  PpeInv'
<1>1. /\ runner.pc = "deepstream" /\ runner'.pc = "clear" /\ runner' \in Runners
      /\ runner'.run = runner.run /\ runner'.slug = runner.slug
      /\ runner'.video = runner.video /\ runner'.at = runner.at
      /\ runner'.force = runner.force
  BY MovesFacts, StepKinds DEF StartDeepStream, InDeepStream
<1>2. runner.at = 1 /\ ~Exists(Delivery) /\ deepstream[Root] # "complete"
  BY <1>1, PpeFacts DEF RunnerOK, StartDeepStream
<1>3. Placed' /\ ~Exists(Delivery)'
  BY <1>1, <1>2, PlacedStays, PlaceStays DEF StartDeepStream, Kept, Exists, quiet
<1>4. DetectingOK'
  <2>1. deepstream'[Root'] = "running"
    BY <1>1, PpeFacts, RunnerFacts, PlaceStays DEF StartDeepStream, CountersOK
  <2>2. 1 .. runner'.at - 1 = {}
    BY <1>1, <1>2
  <2>3. QED
    BY <1>1, <2>1, <2>2 DEF DetectingOK
<1>5. RunnerOK'
  BY <1>1, <1>3, <1>4, StepKinds DEF RunnerOK, Placed, InDeepStream
<1>6. QED
  BY <1>1, <1>2, <1>5, PpeFacts, QuietHolds DEF StartDeepStream, quiet, CountersOK

-----------------------------------------------------------------------------
(* Within the DeepStream stage and within the profiles.                    *)

LEMMA WritesFacts ==
  ASSUME NEW path, NEW sources, Writes(path, sources)
  PROVE  /\ DOMAIN file' = DOMAIN file \cup {path} /\ Exists(path)'
         /\ file'[path].by = runner.run /\ file'[path].of = {Version(y) : y \in sources}
         /\ \A x \in DOMAIN file : x # path => Kept(x)
         /\ \A x \in DOMAIN file' : x # path => x \in DOMAIN file /\ Kept(x)
  BY DEF Writes, Kept, Exists

LEMMA RemovesFacts ==
  ASSUME NEW path, Removes({path})
  PROVE  /\ DOMAIN file' = DOMAIN file \ {path}
         /\ \A x \in DOMAIN file' : x \in DOMAIN file /\ Kept(x)
         /\ \A x \in DOMAIN file : x # path => Kept(x)
  BY DEF Removes, Restrict, Kept

StageAt ==
  \/ runner.pc \in InDeepStream /\ runner'.pc \in InDeepStream /\ DetectingOK'
  \/ runner.pc \in Deriving /\ runner'.pc \in Deriving /\ DerivingOK'

SamePlace ==
  /\ runner' \in Runners /\ runner'.run = runner.run /\ runner'.slug = runner.slug
  /\ runner'.video = runner.video /\ runner'.force = runner.force

LEMMA StageHolds ==
  ASSUME PpeInv, SamePlace, StageAt, runner'.at \in 1 .. Len(runner.slug),
         UNCHANGED <<runs, planFile, deepstream, runnerKills, runnerErrors>>,
         KeepsFirm, OnlyNewPartial, partial' \subseteq DOMAIN file', encoding' \subseteq partial',
         ProcessesOK',
         \A x \in DOMAIN file' :
           (x \in DOMAIN file /\ Kept(x)) \/ (x.kind # "delivery" /\ FileOK(x)')
  PROVE  PpeInv'
<1>1. CountersOK /\ runs \in Nat /\ runner.pc # "off" /\ runner'.pc # "off"
  BY PpeFacts, StepKinds DEF StageAt
<1>2. CountersOK' /\ CompleteStays /\ OnlyNowComplete
  BY <1>1 DEF CountersOK, CompleteStays, OnlyNowComplete
<1>3. Placed
  BY <1>1, PlacedFacts
<1>4. \A d \in DOMAIN file' : d.kind = "delivery" => d \in DOMAIN file /\ Kept(d)
  OBVIOUS
<1>5. \A d \in Deliveries' : file'[d].by = runner'.run => d.video < runner'.video
  BY <1>3, <1>4 DEF Placed, Deliveries, Kept, SamePlace
<1>6. ~Exists(Delivery)'
  <2>1. ~Exists(Delivery)
    BY <1>1, PpeFacts, StepKinds DEF RunnerOK, StageAt
  <2>2. Delivery' = Delivery /\ Delivery.kind = "delivery"
    BY PlaceStays, PathFields DEF Delivery, SamePlace
  <2>3. QED
    BY <1>4, <2>1, <2>2 DEF Exists
<1>7. runner.force => runner.pc \in {"deepstream"} \cup InDeepStream
  BY <1>1, PpeFacts DEF RunnerOK
<1>8. RunnerOK'
  <2>1. /\ runner'.slug \in Slug /\ runner'.at \in 1 .. Len(runner'.slug)
        /\ runner'.run \in 1 .. runs'
    BY <1>3 DEF Placed, SamePlace
  <2>2. CASE runner.pc \in InDeepStream /\ runner'.pc \in InDeepStream /\ DetectingOK'
    <3>1. runner'.pc \notin {"plan", "job", "deepstream"} /\ runner'.pc \notin Deriving
      BY <2>2, StepKinds
    <3>2. QED
      BY <1>1, <1>5, <1>6, <2>1, <2>2, <3>1 DEF RunnerOK
  <2>3. CASE runner.pc \in Deriving /\ runner'.pc \in Deriving /\ DerivingOK'
    <3>1. runner'.pc \notin {"plan", "job", "deepstream"} /\ runner'.pc \notin InDeepStream
      BY <2>3, StepKinds
    <3>2. ~runner'.force
      BY <1>7, <2>3, StepKinds DEF SamePlace
    <3>3. QED
      BY <1>1, <1>5, <1>6, <2>1, <2>3, <3>1, <3>2 DEF RunnerOK
  <2>4. QED
    BY <2>2, <2>3 DEF StageAt
<1>9. QED
  BY <1>1, <1>2, <1>8, PpeStepOf DEF SamePlace

\* The rows of a root that is being detected may be replaced.
LEMMA DetectedIsLoose ==
  ASSUME PpeInv, runner.pc \in InDeepStream
  PROVE  /\ DetectingOK /\ Loose(Here("ppe")) /\ Here("ppe").kind = "ppe"
         /\ Here("ppe") = Own("ppe", Profile)
<1>1. DetectingOK
  BY PpeFacts, StepKinds DEF RunnerOK
<1>2. Here("ppe").kind = "ppe" /\ <<Here("ppe").slug, Here("ppe").video>> = Root
  BY PathFields DEF Here, Root
<1>3. QED
  BY <1>1, <1>2, RunnerPaths DEF Loose, DetectingOK

LEMMA EngineFacts ==
  ASSUME PpeInv, runner.pc # "off"
  PROVE  Engine.kind = "engine" /\ Engine \in FilePaths
<1>1. Engine = Path("engine", Shared, 0, Profile) /\ Profile \in Nat
  BY RunnerPaths, RunnerFacts
<1>2. Engine \in [kind : FileKinds, slug : Slug \cup {Shared}, video : Nat, profile : Nat]
  BY <1>1 DEF Path, FileKinds
<1>3. QED
  BY <1>1, <1>2, PathFields DEF FilePaths

\* Rows that an earlier profile of the run detected are kept.
RowsOfRunKept ==
  \A i \in 1 .. runner.at - 1 : runner.slug[i] # Profile =>
    LET rows == Own("ppe", runner.slug[i]) IN Exists(rows) /\ file[rows].by = runner.run

LEMMA RowsOfRun ==
  ASSUME PpeInv, runner.pc \in InDeepStream, runner'.slug = runner.slug,
         runner'.video = runner.video, runner'.run = runner.run, runner'.at = runner.at,
         \A x \in DOMAIN file : x # Own("ppe", Profile) => Kept(x)
  PROVE  RowsOfRunKept'
<1>1. Profile' = Profile /\ DetectingOK
  BY PlaceStays, DetectedIsLoose
<1>2. ASSUME NEW i \in 1 .. runner.at - 1, runner.slug[i] # Profile
      PROVE  /\ Own("ppe", runner.slug[i]) \in DOMAIN file'
             /\ file'[Own("ppe", runner.slug[i])].by = runner.run
  <2> DEFINE x == Own("ppe", runner.slug[i])
  <2>1. x \in DOMAIN file /\ file[x].by = runner.run
    BY <1>1, <1>2 DEF DetectingOK, Exists
  <2>2. x # Own("ppe", Profile)
    BY <1>2, PathFields DEF Own
  <2> HIDE DEF x
  <2>3. x \in DOMAIN file' /\ file'[x].by = runner.run
    BY <2>1, <2>2 DEF Kept
  <2>4. QED
    BY <2>3 DEF x
<1>3. \A p : Own("ppe", p)' = Own("ppe", p)
  BY PlaceStays
<1>4. QED
  BY <1>1, <1>2, <1>3 DEF Exists, RowsOfRunKept

LEMMA DetectingIs ==
  DetectingOK <=>
    /\ deepstream[Root] = "running" /\ RowsOfRunKept
    /\ runner.pc = "build" => ~Exists(Engine)
    /\ runner.pc \in {"building", "launch", "detecting"} => Exists(Engine)
    /\ runner.pc = "detecting" /\ runner.loaded => Engine \notin partial
  BY DEF DetectingOK, RowsOfRunKept

LEMMA DetectingIsNext ==
  DetectingOK' <=>
    /\ deepstream'[Root'] = "running" /\ RowsOfRunKept'
    /\ runner'.pc = "build" => ~Exists(Engine)'
    /\ runner'.pc \in {"building", "launch", "detecting"} => Exists(Engine)'
    /\ runner'.pc = "detecting" /\ runner'.loaded => Engine' \notin partial'
  BY DEF DetectingOK, RowsOfRunKept

LEMMA ClearProfileHolds ==
  ASSUME PpeInv, ClearProfile
  PROVE  PpeInv'
<1> DEFINE to == IF Exists(Engine) THEN "launch" ELSE "build"
           x == Here("ppe")
<1>1. Moves("clear", to) /\ to \in InDeepStream /\ to \in RunnerSteps
  BY DEF ClearProfile, InDeepStream, RunnerSteps
<1>2. runner.pc = "clear" /\ SamePlace /\ runner'.at = runner.at /\ runner'.pc = to
  <2> HIDE DEF to
  <2>1. QED
    BY <1>1, MovesFacts DEF SamePlace
<1>3. /\ runner.pc \in InDeepStream /\ DetectingOK /\ Loose(x) /\ x.kind = "ppe"
      /\ x = Own("ppe", Profile)
  BY <1>2, DetectedIsLoose DEF InDeepStream
<1>4. CountersOK /\ ProcessesOK
  BY PpeFacts
<1>5. /\ DOMAIN file' = DOMAIN file \ {x}
      /\ \A y \in DOMAIN file' : y \in DOMAIN file /\ Kept(y)
      /\ \A y \in DOMAIN file : y # x => Kept(y)
  BY RemovesFacts DEF ClearProfile
<1>6. KeepsFirm /\ OnlyNewPartial
  BY <1>3, <1>5 DEF KeepsFirm, OnlyNewPartial, ClearProfile
<1>7. Engine # x /\ Engine' = Engine /\ Root' = Root
  BY <1>2, <1>3, EngineFacts, PlaceStays DEF SamePlace, InDeepStream
<1>8. \A y \in partial : y \in DOMAIN file /\ y # x
  BY <1>3, <1>4 DEF CountersOK, ProcessesOK
<1> HIDE DEF x
<1>9. Exists(Engine)' <=> Exists(Engine)
  BY <1>5, <1>7 DEF Exists
<1>10. RowsOfRunKept'
  BY <1>2, <1>3, <1>5, RowsOfRun DEF SamePlace
<1>11. DetectingOK'
  <2>1. deepstream'[Root'] = "running"
    BY <1>3, <1>7, DetectingIs DEF ClearProfile
  <2>2. runner'.pc \notin {"building", "detecting"} /\ (runner'.pc = "build" => ~Exists(Engine))
        /\ (runner'.pc = "launch" => Exists(Engine))
    BY <1>2
  <2>3. QED
    BY <1>9, <1>10, <2>1, <2>2, DetectingIsNext
<1>12. runner'.at \in 1 .. Len(runner.slug)
  BY <1>2, RunnerFacts
<1>13. StageAt
  BY <1>1, <1>2, <1>3, <1>11 DEF StageAt
<1>14. ProcessesOK' /\ partial' \subseteq DOMAIN file' /\ encoding' \subseteq partial'
  BY <1>4, <1>5, <1>8 DEF ClearProfile, ProcessesOK, CountersOK
<1>15. QED
  BY <1>2, <1>5, <1>6, <1>12, <1>13, <1>14, StageHolds DEF ClearProfile, quiet

\* trtexec writes an engine only where there was none.
LEMMA BuildEngineHolds ==
  ASSUME PpeInv, BuildEngine
  PROVE  PpeInv'
<1>1. Moves("build", "building") /\ "building" \in RunnerSteps
  BY DEF BuildEngine, Runs, RunnerSteps, InDeepStream
<1>2. runner.pc = "build" /\ SamePlace /\ runner'.at = runner.at /\ runner'.pc = "building"
  BY <1>1, MovesFacts DEF SamePlace
<1>3. runner.pc \in InDeepStream /\ DetectingOK /\ ~Exists(Engine)
  BY <1>2, DetectedIsLoose, DetectingIs DEF InDeepStream
<1>4. CountersOK /\ ProcessesOK
  BY PpeFacts
<1>5. Engine.kind = "engine" /\ Engine \in FilePaths /\ Engine' = Engine /\ Root' = Root
      /\ Engine \notin DOMAIN file
  BY <1>2, <1>3, EngineFacts, PlaceStays DEF SamePlace, Exists
<1>6. /\ DOMAIN file' = DOMAIN file \cup {Engine}
      /\ file'[Engine].by = runner.run
      /\ \A y \in DOMAIN file : Kept(y)
      /\ \A y \in DOMAIN file' : y # Engine => y \in DOMAIN file /\ Kept(y)
  BY <1>5, WritesFacts DEF BuildEngine
<1>7. partial' = partial \cup {Engine} /\ busy' = busy \cup {Engine}
  BY DEF BuildEngine, Runs
<1>8. KeepsFirm /\ OnlyNewPartial
  BY <1>5, <1>6, <1>7 DEF KeepsFirm, OnlyNewPartial
<1>9. FileOK(Engine)'
  <2>1. runner.run \in 1 .. runs /\ runs' = runs
    BY <1>2, RunnerFacts DEF BuildEngine, quiet
  <2>2. FileOK(Engine)' <=> /\ Engine' \in FilePaths /\ file'[Engine'].by \in 1 .. runs'
    BY <1>5 DEF FileOK
  <2>3. QED
    BY <1>5, <1>6, <2>1, <2>2
<1>10. RowsOfRunKept'
  BY <1>2, <1>3, <1>6, RowsOfRun DEF SamePlace
<1>11. DetectingOK'
  BY <1>2, <1>3, <1>5, <1>6, <1>10, DetectingIs, DetectingIsNext DEF BuildEngine, Exists
<1>12. runner'.at \in 1 .. Len(runner.slug)
  BY <1>2, RunnerFacts
<1>13. StageAt
  BY <1>2, <1>3, <1>11 DEF StageAt, InDeepStream
<1>14. ProcessesOK' /\ partial' \subseteq DOMAIN file' /\ encoding' \subseteq partial'
  <2>1. partial' \subseteq DOMAIN file'
    BY <1>4, <1>6, <1>7 DEF CountersOK
  <2>2. encoding' \subseteq partial'
    BY <1>4, <1>7 DEF CountersOK, BuildEngine
  <2>3. ProcessesOK'
    BY <1>4, <1>5, <1>7 DEF ProcessesOK, BuildEngine
  <2>4. QED
    BY <2>1, <2>2, <2>3
<1>15. \A y \in DOMAIN file' :
         (y \in DOMAIN file /\ Kept(y)) \/ (y.kind # "delivery" /\ FileOK(y)')
  <2>1. ASSUME NEW y \in DOMAIN file', y = Engine PROVE y.kind # "delivery" /\ FileOK(y)'
    BY <1>5, <1>9, <2>1
  <2>2. QED
    BY <1>6, <2>1
<1>16. QED
  BY <1>2, <1>8, <1>12, <1>13, <1>14, <1>15, StageHolds DEF BuildEngine, quiet

\* A step within its stage that writes no file.
LEMMA QuietStage ==
  ASSUME PpeInv, SamePlace, StageAt, runner'.at \in 1 .. Len(runner.slug),
         UNCHANGED <<runs, planFile, deepstream, file, partial, encoding, runnerKills,
                     runnerErrors>>,
         \A x \in busy' : x \in busy \/ x.kind # "video"
  PROVE  PpeInv'
<1>1. KeepsFirm /\ \A x \in DOMAIN file' : x \in DOMAIN file /\ Kept(x)
  BY AllKept
<1>2. OnlyNewPartial
  BY DEF OnlyNewPartial
<1>3. ProcessesOK' /\ partial' \subseteq DOMAIN file' /\ encoding' \subseteq partial'
  BY PpeFacts DEF CountersOK, ProcessesOK
<1>4. QED
  BY <1>1, <1>2, <1>3, StageHolds

LEMMA EngineBuiltHolds ==
  ASSUME PpeInv, EngineBuilt
  PROVE  PpeInv'
<1>1. Moves("building", "launch") /\ "launch" \in RunnerSteps
  BY DEF EngineBuilt, RunnerSteps, InDeepStream
<1>2. runner.pc = "building" /\ SamePlace /\ runner'.at = runner.at /\ runner'.pc = "launch"
  BY <1>1, MovesFacts DEF SamePlace
<1>3. runner.pc \in InDeepStream /\ DetectingOK
  BY <1>2, DetectedIsLoose DEF InDeepStream
<1>4. Engine' = Engine /\ Root' = Root
  BY <1>2, PlaceStays DEF SamePlace
<1>5. RowsOfRunKept'
  BY <1>2, <1>3, RowsOfRun DEF SamePlace, EngineBuilt, Kept
<1>6. DetectingOK'
  BY <1>2, <1>3, <1>4, <1>5, DetectingIs, DetectingIsNext DEF EngineBuilt, Exists
<1>7. QED
  BY <1>2, <1>3, <1>6, RunnerFacts, QuietStage DEF StageAt, InDeepStream, EngineBuilt, quiet

\* What is loaded from the engine file is a whole engine.
LEMMA LaunchPpeHolds ==
  ASSUME PpeInv, LaunchPpe
  PROVE  PpeInv'
<1>1. runner.pc = "launch" /\ SamePlace /\ runner'.at = runner.at /\ runner'.pc = "detecting"
      /\ runner'.loaded = (Engine \notin partial)
  <2>1. runner \in Runners /\ (Engine \notin partial) \in BOOLEAN /\ "detecting" \in RunnerSteps
    BY PpeFacts DEF RunnerSteps, InDeepStream
  <2>2. QED
    BY <2>1 DEF LaunchPpe, SamePlace, Runners
<1>2. runner.pc \in InDeepStream /\ DetectingOK
  BY <1>1, DetectedIsLoose DEF InDeepStream
<1>3. Engine' = Engine /\ Root' = Root
  BY <1>1, PlaceStays DEF SamePlace
<1>4. RowsOfRunKept'
  BY <1>1, <1>2, RowsOfRun DEF SamePlace, LaunchPpe, Kept
<1>5. runner'.loaded => Engine \notin partial
  BY <1>1
<1>6. DetectingOK'
  BY <1>1, <1>2, <1>3, <1>4, <1>5, DetectingIs, DetectingIsNext DEF LaunchPpe, Exists
<1>7. \A x \in busy' : x \in busy \/ x.kind # "video"
  BY PathFields DEF LaunchPpe, PpeContainer
<1>8. QED
  BY <1>1, <1>2, <1>6, <1>7, RunnerFacts, QuietStage DEF StageAt, InDeepStream, LaunchPpe, quiet

-----------------------------------------------------------------------------
(* The rows of a profile, and with the last ones the root.                 *)

LEMMA PathsIn ==
  ASSUME PpeInv, runner.pc # "off", NEW p \in Nat, NEW kind \in FileKinds
  PROVE  Own(kind, p) \in FilePaths /\ Joint(kind, p) \in FilePaths
<1>1. runner.slug \in Slug /\ runner.video \in Nat
  BY RunnerFacts, PpeNumbers
<1>2. /\ Own(kind, p) \in [kind : FileKinds, slug : Slug \cup {Shared}, video : Nat, profile : Nat]
      /\ Joint(kind, p) \in [kind : FileKinds, slug : Slug \cup {Shared}, video : Nat, profile : Nat]
  BY <1>1 DEF Own, Joint, Path
<1>3. QED
  BY <1>2 DEF FilePaths

\* The rows of this run, of the profile that is at hand and of those before.
LEMMA ConvertedRows ==
  ASSUME PpeInv, ConvertPpe
  PROVE  /\ runner.pc = "detecting" /\ runner.loaded /\ DetectingOK /\ Loose(Here("ppe"))
         /\ Here("ppe") = Own("ppe", Profile) /\ Here("ppe").kind = "ppe"
         /\ DOMAIN file' = DOMAIN file \cup {Here("ppe")}
         /\ \A y \in DOMAIN file : y # Here("ppe") => Kept(y)
         /\ \A y \in DOMAIN file' : y # Here("ppe") => y \in DOMAIN file /\ Kept(y)
         /\ \A y : y = Here("ppe") => FileOK(y)'
         /\ \A i \in 1 .. runner.at :
              /\ Own("ppe", runner.slug[i]) \in DOMAIN file'
              /\ file'[Own("ppe", runner.slug[i])].by = runner.run
<1> DEFINE x == Here("ppe")
<1>1. runner.pc = "detecting" /\ runner.loaded
  BY DEF ConvertPpe, Attested
<1>2. /\ DetectingOK /\ Loose(x) /\ x = Own("ppe", Profile) /\ x.kind = "ppe"
      /\ runner.pc \in InDeepStream
  BY <1>1, DetectedIsLoose DEF InDeepStream
<1>3. /\ DOMAIN file' = DOMAIN file \cup {x}
      /\ \A y \in DOMAIN file : y # x => Kept(y)
      /\ \A y \in DOMAIN file' : y # x => y \in DOMAIN file /\ Kept(y)
      /\ file'[x].by = runner.run
  BY WritesFacts DEF ConvertPpe
<1>4. Engine \in DOMAIN file /\ Engine \notin partial /\ Engine # x
      /\ Engine = Path("engine", Shared, 0, Profile)
  BY <1>1, <1>2, DetectingIs, EngineFacts, RunnerPaths DEF InDeepStream, Exists
<1>5. runner.slug \in Slug /\ runner.video \in PpeVideos /\ Profile \in Nat
      /\ runner.run \in 1 .. runs /\ runner.at \in 1 .. Len(runner.slug)
      /\ Len(runner.slug) \in Nat
  BY <1>1, RunnerFacts
<1>6. x \in FilePaths /\ x.profile = Profile
  <2>1. "ppe" \in FileKinds /\ runner.pc # "off"
    BY <1>1 DEF FileKinds
  <2>2. Own("ppe", Profile) \in FilePaths
    BY <1>5, <2>1, PathsIn
  <2>3. Own("ppe", Profile).profile = Profile
    BY PathFields DEF Own
  <2>4. QED
    BY <1>2, <2>2, <2>3
<1>7. ASSUME NEW y, y = x PROVE FileOK(y)'
  <2>1. runs' = runs /\ partial' = partial
    BY DEF ConvertPpe, quiet
  <2> HIDE DEF x
  <2>2. Path("engine", Shared, 0, y.profile) \in DOMAIN file'
        /\ Path("engine", Shared, 0, y.profile) \notin partial'
    BY <1>3, <1>4, <1>6, <1>7, <2>1
  <2>3. y \in FilePaths /\ file'[y].by \in 1 .. runs' /\ y.kind = "ppe"
    BY <1>2, <1>3, <1>5, <1>6, <1>7, <2>1
  <2>4. QED
    BY <2>2, <2>3 DEF FileOK, Exists
<1>8. ASSUME NEW i \in 1 .. runner.at
      PROVE  /\ Own("ppe", runner.slug[i]) \in DOMAIN file'
             /\ file'[Own("ppe", runner.slug[i])].by = runner.run
  <2> DEFINE y == Own("ppe", runner.slug[i])
  <2>1. CASE runner.slug[i] = Profile
    BY <1>2, <1>3, <2>1
  <2>2. CASE runner.slug[i] # Profile
    <3>1. i \in 1 .. runner.at - 1
      BY <1>5, <2>2 DEF Profile
    <3>2. y \in DOMAIN file /\ file[y].by = runner.run
      BY <1>2, <2>2, <3>1 DEF DetectingOK, Exists
    <3>3. y # x
      BY <1>2, <2>2, PathFields DEF Own
    <3> HIDE DEF y
    <3>4. y \in DOMAIN file' /\ file'[y].by = runner.run
      BY <1>3, <3>2, <3>3 DEF Kept
    <3>5. QED
      BY <3>4 DEF y
  <2>3. QED
    BY <2>1, <2>2
<1>9. QED
  BY <1>1, <1>2, <1>3, <1>7, <1>8

LEMMA ConvertMoreHolds ==
  ASSUME PpeInv, ConvertPpe, MoreProfiles
  PROVE  PpeInv'
<1> DEFINE x == Here("ppe")
<1>1. runner.pc = "detecting" /\ DetectingOK /\ Loose(x) /\ x.kind = "ppe"
  BY ConvertedRows
<1>2. /\ DOMAIN file' = DOMAIN file \cup {x}
      /\ \A y \in DOMAIN file : y # x => Kept(y)
      /\ \A y \in DOMAIN file' : y # x => y \in DOMAIN file /\ Kept(y)
      /\ \A y : y = x => FileOK(y)'
      /\ \A i \in 1 .. runner.at :
              /\ Own("ppe", runner.slug[i]) \in DOMAIN file'
              /\ file'[Own("ppe", runner.slug[i])].by = runner.run
  BY ConvertedRows
<1>3. /\ Len(runner.slug) \in Nat /\ runner.at \in 1 .. Len(runner.slug)
      /\ runner.at + 1 \in 1 .. Len(runner.slug) /\ runner.at + 1 \in Nat
  BY <1>1, RunnerFacts DEF MoreProfiles
<1>4. /\ runner' = [runner EXCEPT !.pc = "clear", !.at = @ + 1]
      /\ deepstream' = deepstream /\ partial' = partial /\ encoding' = encoding
      /\ busy' = busy
  BY DEF ConvertPpe
<1>5. SamePlace /\ runner'.pc = "clear" /\ runner'.at = runner.at + 1
  <2>1. runner \in Runners /\ "clear" \in RunnerSteps
    BY PpeFacts DEF RunnerSteps, InDeepStream
  <2>2. QED
    BY <1>3, <1>4, <2>1 DEF SamePlace, Runners
<1>6. CountersOK /\ ProcessesOK
  BY PpeFacts
<1> HIDE DEF x
<1>7. KeepsFirm /\ OnlyNewPartial
  BY <1>1, <1>2, <1>4 DEF KeepsFirm, OnlyNewPartial
<1>8. ProcessesOK' /\ partial' \subseteq DOMAIN file' /\ encoding' \subseteq partial'
  BY <1>2, <1>4, <1>6 DEF CountersOK, ProcessesOK
<1>9. RowsOfRunKept'
  <2>1. runner'.at - 1 = runner.at /\ runner'.slug = runner.slug /\ runner'.run = runner.run
    BY <1>3, <1>5 DEF SamePlace
  <2>2. \A p : Own("ppe", p)' = Own("ppe", p)
    BY <1>5, PlaceStays DEF SamePlace
  <2>3. QED
    BY <1>2, <2>1, <2>2 DEF RowsOfRunKept, Exists
<1>10. DetectingOK'
  <2>1. Root' = Root
    BY <1>5, PlaceStays DEF SamePlace
  <2>2. deepstream'[Root'] = "running"
    BY <1>1, <1>4, <2>1, DetectingIs
  <2>3. QED
    BY <1>5, <1>9, <2>2, DetectingIsNext
<1>11. StageAt
  BY <1>1, <1>5, <1>10 DEF StageAt, InDeepStream
<1>12. \A y \in DOMAIN file' :
         (y \in DOMAIN file /\ Kept(y)) \/ (y.kind # "delivery" /\ FileOK(y)')
  <2>1. ASSUME NEW y \in DOMAIN file', y = x PROVE y.kind # "delivery" /\ FileOK(y)'
    BY <1>1, <1>2, <2>1
  <2>2. QED
    BY <1>2, <2>1
<1>13. QED
  BY <1>3, <1>4, <1>5, <1>7, <1>8, <1>11, <1>12, StageHolds DEF ConvertPpe, quiet

\* The last profile: the root is complete, with rows of this run for every profile.
LEMMA ConvertLastHolds ==
  ASSUME PpeInv, ConvertPpe, ~MoreProfiles
  PROVE  PpeInv'
<1> DEFINE x == Here("ppe")
<1>1. runner.pc = "detecting" /\ DetectingOK /\ Loose(x) /\ x.kind = "ppe"
  BY ConvertedRows
<1>2. /\ DOMAIN file' = DOMAIN file \cup {x}
      /\ \A y \in DOMAIN file : y # x => Kept(y)
      /\ \A y \in DOMAIN file' : y # x => y \in DOMAIN file /\ Kept(y)
      /\ \A y : y = x => FileOK(y)'
      /\ \A i \in 1 .. runner.at :
              /\ Own("ppe", runner.slug[i]) \in DOMAIN file'
              /\ file'[Own("ppe", runner.slug[i])].by = runner.run
  BY ConvertedRows
<1>3. /\ Len(runner.slug) \in Nat /\ runner.at = Len(runner.slug) /\ runner.slug \in Slug
      /\ runner.video \in PpeVideos /\ runner.run \in 1 .. runs
      /\ Root \in Slug \X PpeVideos
  BY <1>1, RunnerFacts DEF MoreProfiles
<1>4. /\ deepstream' = [deepstream EXCEPT ![Root] = "complete"]
      /\ partial' = partial /\ encoding' = encoding /\ busy' = busy /\ runs' = runs
  BY DEF ConvertPpe, quiet
<1>5. CountersOK /\ ProcessesOK /\ runs \in Nat
  BY PpeFacts
<1> HIDE DEF x
<1>6. KeepsFirm /\ OnlyNewPartial
  BY <1>1, <1>2, <1>4 DEF KeepsFirm, OnlyNewPartial
<1>7. /\ deepstream' \in [Slug \X PpeVideos -> {"none", "running", "failed", "complete"}]
      /\ deepstream'[Root] = "complete"
      /\ \A r \in Slug \X PpeVideos : r # Root => deepstream'[r] = deepstream[r]
  BY <1>3, <1>4, <1>5 DEF CountersOK
<1>8. ASSUME NEW s \in Slug, NEW video \in PpeVideos, <<s, video>> = Root
      PROVE  RootOK(s, video)'
  <2>1. s = runner.slug /\ video = runner.video
    BY <1>8 DEF Root
  <2>2. ASSUME NEW p \in Range(s)
        PROVE  /\ Path("ppe", s, video, p) \in DOMAIN file'
               /\ file'[Path("ppe", s, video, p)].by = runner.run
    <3>1. PICK i \in 1 .. Len(runner.slug) : p = runner.slug[i]
      BY <1>3, <2>1, SlugFacts
    <3>2. Path("ppe", s, video, p) = Own("ppe", runner.slug[i])
      BY <2>1, <3>1 DEF Own
    <3>3. QED
      BY <1>2, <1>3, <3>2
  <2>3. runner.run \in 1 .. runs'
    BY <1>3, <1>4
  <2>4. QED
    BY <2>2, <2>3 DEF RootOK, Exists
<1>9. CompleteStays /\ OnlyNowComplete
  BY <1>7, <1>8 DEF CompleteStays, OnlyNowComplete
<1>10. \A y \in DOMAIN file' : (y \in DOMAIN file /\ Kept(y)) \/ FileOK(y)'
  BY <1>2
<1>11. CountersOK' /\ ProcessesOK'
  <2>1. partial' \subseteq DOMAIN file'
    BY <1>2, <1>4, <1>5 DEF CountersOK
  <2>2. QED
    BY <1>4, <1>5, <1>7, <2>1 DEF CountersOK, ProcessesOK, ConvertPpe, quiet
<1>12. runner' \in Runners /\ RunnerOK'
  <2>1. CASE runner.force
    BY <2>1, AsleepFacts DEF ConvertPpe, Stops, RunnerOK
  <2>2. CASE ~runner.force
    <3>1. runner' = [runner EXCEPT !.pc = "profile", !.at = 1]
      BY <2>2 DEF ConvertPpe
    <3>2. runner \in Runners /\ "profile" \in RunnerSteps
      BY PpeFacts DEF RunnerSteps, Deriving
    <3>3. /\ runner' \in Runners /\ runner'.pc = "profile" /\ runner'.at = 1
          /\ runner'.slug = runner.slug /\ runner'.video = runner.video
          /\ runner'.run = runner.run /\ runner'.force = runner.force
      BY <3>1, <3>2 DEF Runners
    <3>4. Root' = Root /\ Delivery' = Delivery /\ Delivery.kind = "delivery"
      BY <3>3, PlaceStays, PathFields DEF Delivery
    <3>5. ~Exists(Delivery)'
      <4>1. ~Exists(Delivery)
        BY <1>1, PpeFacts DEF RunnerOK
      <4>2. QED
        BY <1>1, <1>2, <3>4, <4>1 DEF Exists
    <3>6. \A d \in Deliveries' : file'[d].by = runner'.run => d.video < runner'.video
      <4>1. Placed
        BY <1>1, PlacedFacts
      <4>2. QED
        BY <1>1, <1>2, <3>3, <4>1 DEF Placed, Deliveries, Kept
    <3>7. 1 \in 1 .. Len(runner.slug) /\ runner'.run \in 1 .. runs'
      BY <1>3, <1>4, <3>3, SlugFacts
    <3>8. DerivingOK'
      <4>1. deepstream'[Root'] = "complete"
        BY <1>7, <3>4
      <4>2. StageOK(runner.pc)'
        BY <3>3 DEF StageOK, PersonSteps, VehicleSteps, DerivedSteps
      <4>3. \A i \in 1 .. Len(runner'.slug) : ~(i < runner'.at)
        BY <1>3, <3>3
      <4>4. QED
        BY <3>3, <4>1, <4>2, <4>3 DEF DerivingOK
    <3>9. "profile" \notin InDeepStream
      BY DEF InDeepStream
    <3>10. QED
      BY <1>3, <2>2, <3>3, <3>5, <3>6, <3>7, <3>8, <3>9 DEF RunnerOK
  <2>3. QED
    BY <2>1, <2>2
<1>13. QED
  BY <1>4, <1>5, <1>6, <1>9, <1>10, <1>11, <1>12, PpeStepOf

LEMMA ConvertPpeHolds ==
  ASSUME PpeInv, ConvertPpe
  PROVE  PpeInv'
  BY ConvertMoreHolds, ConvertLastHolds

-----------------------------------------------------------------------------
(* The files of the profiles.                                              *)

\* A step of a profile that keeps every file but rows without a manifest.
KeepsDerived ==
  \A y \in DOMAIN file : Kept(y) \/ (Loose(y) /\ y.kind \in {"person", "vehicle"})

Steady(y) == y \in DOMAIN file /\ (y.kind \in {"person", "vehicle"} => ~Loose(y))

LEMMA SteadyStays ==
  ASSUME KeepsDerived, NEW y, Steady(y)
  PROVE  Kept(y) /\ Exists(y)' /\ Version(y)' = Version(y) /\ y \in DOMAIN file'
         /\ file'[y] = file[y]
  BY DEF KeepsDerived, Steady, Kept, Exists, Version

LEMMA MadeStays ==
  ASSUME KeepsDerived, runner'.run = runner.run, NEW x, Steady(x), NEW S,
         \A y \in S : Steady(y), Made(x, S)
  PROVE  Made(x, S)'
<1>1. {Version(y)' : y \in S} = {Version(y) : y \in S}
  BY SteadyStays
<1>2. QED
  BY <1>1, SteadyStays DEF Made

LEMMA DerivingFacts ==
  ASSUME PpeInv, runner.pc \in Deriving
  PROVE  /\ DerivingOK /\ runner.pc # "off" /\ ~runner.force /\ Placed
         /\ runner.slug \in Slug /\ runner.video \in PpeVideos
         /\ Len(runner.slug) \in Nat /\ runner.at \in 1 .. Len(runner.slug)
         /\ runner.run \in 1 .. runs
         /\ Profile \in Nat /\ Profile \in Range(runner.slug)
         /\ deepstream[Root] = "complete" /\ StageOK(runner.pc)
<1>1. runner.pc # "off" /\ runner.pc \notin {"deepstream"} \cup InDeepStream
  BY StepKinds
<1>2. DerivingOK /\ ~runner.force
  BY <1>1, PpeFacts DEF RunnerOK
<1>3. QED
  BY <1>1, <1>2, PlacedFacts, RunnerFacts DEF DerivingOK

\* In a complete root the rows of every profile are there, and final.
LEMMA RowsAreSteady ==
  ASSUME PpeInv, runner.pc \in Deriving, NEW p \in Range(runner.slug)
  PROVE  Own("ppe", p) \in DOMAIN file /\ Steady(Own("ppe", p))
<1>1. RootOK(runner.slug, runner.video) /\ deepstream[Root] = "complete"
  BY PpeFacts, DerivingFacts
<1>2. Own("ppe", p) \in DOMAIN file
  BY <1>1 DEF RootOK, Root, Own, Exists
<1>3. Own("ppe", p).kind = "ppe"
  BY PathFields DEF Own
<1>4. QED
  BY <1>2, <1>3 DEF Steady

\* So are rows with a manifest.
LEMMA ManifestsAreSteady ==
  ASSUME PpeInv, NEW p
  PROVE  /\ Exists(Own("person manifest", p)) =>
              Steady(Own("person", p)) /\ Steady(Own("person manifest", p))
         /\ Exists(Own("vehicle manifest", p)) =>
              Steady(Own("vehicle", p)) /\ Steady(Own("vehicle manifest", p))
<1>1. /\ Beside("person", Own("person manifest", p)) = Own("person", p)
      /\ Beside("person manifest", Own("person", p)) = Own("person manifest", p)
      /\ Beside("vehicle", Own("vehicle manifest", p)) = Own("vehicle", p)
      /\ Beside("vehicle manifest", Own("vehicle", p)) = Own("vehicle manifest", p)
      /\ Own("person manifest", p).kind = "person manifest" /\ Own("person", p).kind = "person"
      /\ Own("vehicle manifest", p).kind = "vehicle manifest"
      /\ Own("vehicle", p).kind = "vehicle"
  BY DEF Beside, Own, Path
<1>2. \A x \in DOMAIN file : FileOK(x)
  BY PpeFacts
<1>3. Exists(Own("person manifest", p)) =>
        Steady(Own("person", p)) /\ Steady(Own("person manifest", p))
  <2> SUFFICES ASSUME Exists(Own("person manifest", p))
               PROVE  Steady(Own("person", p)) /\ Steady(Own("person manifest", p))
    OBVIOUS
  <2>1. Own("person manifest", p) \in DOMAIN file
    BY DEF Exists
  <2>2. Exists(Own("person", p))
    BY <1>1, <1>2, <2>1 DEF FileOK
  <2>3. ~Loose(Own("person", p))
    BY <1>1, <2>1 DEF Loose, Exists
  <2>4. QED
    BY <1>1, <2>1, <2>2, <2>3 DEF Steady, Exists
<1>4. Exists(Own("vehicle manifest", p)) =>
        Steady(Own("vehicle", p)) /\ Steady(Own("vehicle manifest", p))
  <2> SUFFICES ASSUME Exists(Own("vehicle manifest", p))
               PROVE  Steady(Own("vehicle", p)) /\ Steady(Own("vehicle manifest", p))
    OBVIOUS
  <2>1. Own("vehicle manifest", p) \in DOMAIN file
    BY DEF Exists
  <2>2. Exists(Own("vehicle", p))
    BY <1>1, <1>2, <2>1 DEF FileOK
  <2>3. ~Loose(Own("vehicle", p))
    BY <1>1, <2>1 DEF Loose, Exists
  <2>4. QED
    BY <1>1, <2>1, <2>2, <2>3 DEF Steady, Exists
<1>5. QED
  BY <1>3, <1>4

LEMMA ProfileStays ==
  ASSUME PpeInv, runner.pc \in Deriving, SamePlace, KeepsDerived, OnlyNewPartial,
         NEW p \in Range(runner.slug)
  PROVE  /\ EvidenceMade(p) => EvidenceMade(p)'
         /\ FusedMade(p) => FusedMade(p)'
         /\ FusedMade(p) /\ EvidenceMade(p) /\ EffectiveMade(p) => EffectiveMade(p)'
         /\ FusedMade(p) /\ (Forklift => EffectiveMade(p)) /\ VideoMade(p) => VideoMade(p)'
         /\ ProfileMade(p) => ProfileMade(p)'
<1>1. /\ runner'.run = runner.run /\ Forklift' = Forklift
      /\ \A kind : Own(kind, p)' = Own(kind, p) /\ Joint(kind, p)' = Joint(kind, p)
  BY PlaceStays DEF SamePlace
<1>2. \A kind : Own(kind, p).kind = kind /\ Joint(kind, p).kind = kind
  BY PathFields DEF Own, Joint
<1>3. \A x, S : Made(x, S) => x \in DOMAIN file
  BY DEF Made, Exists
<1>4. EvidenceMade(p) => Steady(Own("evidence", p)) /\ EvidenceMade(p)'
  <2> SUFFICES ASSUME EvidenceMade(p) PROVE Steady(Own("evidence", p)) /\ EvidenceMade(p)'
    OBVIOUS
  <2>1. Own("evidence", p) \in DOMAIN file /\ Own("evidence", p).kind = "evidence"
        /\ file[Own("evidence", p)].by = runner.run
    BY <1>2 DEF EvidenceMade, Exists
  <2>2. Steady(Own("evidence", p))
    BY <2>1 DEF Steady
  <2>3. /\ Own("evidence", p) \in DOMAIN file'
        /\ file'[Own("evidence", p)] = file[Own("evidence", p)]
    BY <2>2, SteadyStays
  <2>4. QED
    BY <1>1, <2>1, <2>2, <2>3 DEF EvidenceMade, Exists
<1>5. FusedMade(p) => Steady(Joint("fused", p)) /\ FusedMade(p)'
  <2> SUFFICES ASSUME FusedMade(p) PROVE Steady(Joint("fused", p)) /\ FusedMade(p)'
    OBVIOUS
  <2> DEFINE x == Joint("fused", p)
             S == {Own("ppe", p), Own("person", p)}
  <2>1. Made(x, S) /\ Exists(Own("person manifest", p))
    BY DEF FusedMade
  <2>2. x \in DOMAIN file /\ x.kind = "fused"
    BY <1>2, <1>3, <2>1
  <2>3. Steady(x)
    BY <2>2 DEF Steady
  <2>4. \A y \in S : Steady(y)
    BY <2>1, RowsAreSteady, ManifestsAreSteady
  <2>5. Own("person manifest", p) \in DOMAIN file'
    BY <2>1, ManifestsAreSteady, SteadyStays
  <2>6. \A z, T : z = x /\ T = S => Made(z, T)'
    <3> HIDE DEF x, S
    <3>1. QED
      BY <1>1, <2>1, <2>3, <2>4, MadeStays
  <2>7. {Own("ppe", p)', Own("person", p)'} = S
    BY <1>1
  <2>8. Made(Joint("fused", p), {Own("ppe", p), Own("person", p)})'
    BY <1>1, <2>6, <2>7
  <2>9. Exists(Own("person manifest", p))'
    BY <1>1, <2>5 DEF Exists
  <2>10. QED
    BY <2>3, <2>8, <2>9 DEF FusedMade
<1>6. FusedMade(p) /\ EvidenceMade(p) /\ EffectiveMade(p) =>
        Steady(Joint("effective", p)) /\ EffectiveMade(p)'
  <2> SUFFICES ASSUME FusedMade(p), EvidenceMade(p), EffectiveMade(p)
               PROVE  Steady(Joint("effective", p)) /\ EffectiveMade(p)'
    OBVIOUS
  <2> DEFINE x == Joint("effective", p)
             S == {Joint("fused", p), Own("evidence", p)}
  <2>1. Made(x, S)
    BY DEF EffectiveMade
  <2>2. x \in DOMAIN file /\ x.kind = "effective"
    BY <1>2, <1>3, <2>1
  <2>3. Steady(x)
    BY <2>2 DEF Steady
  <2>4. \A y \in S : Steady(y)
    BY <1>4, <1>5
  <2>5. \A z, T : z = x /\ T = S => Made(z, T)'
    <3> HIDE DEF x, S
    <3>1. QED
      BY <1>1, <2>1, <2>3, <2>4, MadeStays
  <2>6. QED
    BY <1>1, <2>3, <2>5 DEF EffectiveMade
<1>7. FusedMade(p) /\ (Forklift => EffectiveMade(p)) /\ VideoMade(p) => VideoMade(p)'
  <2> SUFFICES ASSUME FusedMade(p), Forklift => EffectiveMade(p), VideoMade(p)
               PROVE  VideoMade(p)'
    OBVIOUS
  <2> DEFINE x == Joint("video", p)
             y == IF Forklift THEN Joint("effective", p) ELSE Joint("fused", p)
             S == {y}
  <2>1. Made(x, S)
    BY DEF VideoMade
  <2>2. x \in DOMAIN file /\ x.kind = "video"
    BY <1>2, <1>3, <2>1
  <2>3. Steady(x)
    BY <2>2 DEF Steady
  <2>4. Steady(y)
    <3>1. CASE Forklift
      <4>1. y = Joint("effective", p) /\ y \in DOMAIN file /\ y.kind = "effective"
        BY <1>2, <1>3, <3>1 DEF EffectiveMade
      <4>2. QED
        BY <4>1 DEF Steady
    <3>2. CASE ~Forklift
      BY <1>5, <3>2
    <3>3. QED
      BY <3>1, <3>2
  <2>5. \A z, T : z = x /\ T = S => Made(z, T)'
    <3>1. \A w \in S : Steady(w)
      BY <2>4
    <3> HIDE DEF x, S
    <3>2. QED
      BY <1>1, <2>1, <2>3, <3>1, MadeStays
  <2>6. QED
    BY <1>1, <2>5 DEF VideoMade
<1>8. ProfileMade(p) => ProfileMade(p)'
  <2> SUFFICES ASSUME ProfileMade(p) PROVE ProfileMade(p)'
    OBVIOUS
  <2>1. /\ FusedMade(p) /\ VideoMade(p) /\ Joint("video", p) \notin partial
        /\ Forklift => EvidenceMade(p) /\ EffectiveMade(p)
    BY DEF ProfileMade
  <2>2. Joint("video", p) \in DOMAIN file
    BY <1>3, <2>1 DEF VideoMade
  <2>3. Joint("video", p) \notin partial'
    BY <2>1, <2>2 DEF OnlyNewPartial
  <2>4. /\ FusedMade(p)' /\ VideoMade(p)' /\ (Forklift => EvidenceMade(p)' /\ EffectiveMade(p)')
    BY <1>4, <1>5, <1>6, <1>7, <2>1
  <2>5. QED
    BY <1>1, <2>3, <2>4 DEF ProfileMade
<1>9. QED
  BY <1>4, <1>5, <1>6, <1>7, <1>8

-----------------------------------------------------------------------------
(* A step of a profile.                                                    *)

OneProfile ==
  /\ SamePlace /\ runner'.at = runner.at
  /\ UNCHANGED <<runs, planFile, deepstream, runnerKills, runnerErrors>>

LEMMA OneProfileFacts ==
  ASSUME OneProfile
  PROVE  /\ Profile' = Profile /\ Forklift' = Forklift /\ Root' = Root
         /\ \A kind, p : Own(kind, p)' = Own(kind, p) /\ Joint(kind, p)' = Joint(kind, p)
  BY PlaceStays DEF OneProfile, SamePlace

LEMMA DerivingStep ==
  ASSUME PpeInv, runner.pc \in Deriving \ {"deliver"}, runner'.pc \in Deriving \ {"deliver"},
         OneProfile, KeepsDerived, OnlyNewPartial,
         partial' \subseteq DOMAIN file', encoding' \subseteq partial', ProcessesOK',
         \A x \in DOMAIN file' :
           (x \in DOMAIN file /\ Kept(x)) \/ (x.kind # "delivery" /\ FileOK(x)'),
         StageOK(runner.pc)'
  PROVE  PpeInv'
<1>1. DerivingOK /\ runner.at \in 1 .. Len(runner.slug) /\ deepstream[Root] = "complete"
      /\ runner.slug \in Slug
  BY DerivingFacts
<1>2. SamePlace /\ runner'.slug = runner.slug /\ runner'.at = runner.at
  BY DEF OneProfile, SamePlace
<1>3. \A i \in 1 .. Len(runner.slug) : i < runner.at => ProfileMade(runner.slug[i])'
  <2>1. \A i \in 1 .. Len(runner.slug) : runner.slug[i] \in Range(runner.slug)
    BY <1>1, SlugFacts
  <2>2. \A p \in Range(runner.slug) : ProfileMade(p) => ProfileMade(p)'
    BY <1>2, ProfileStays
  <2>3. ASSUME NEW i \in 1 .. Len(runner.slug), i < runner.at
        PROVE  ProfileMade(runner.slug[i])'
    <3>1. \A p : p = runner.slug[i] => ProfileMade(p)'
      BY <1>1, <2>1, <2>2, <2>3 DEF DerivingOK
    <3>2. QED
      BY <1>2, <3>1
  <2>4. QED
    BY <2>3
<1>4. DerivingOK'
  <2>1. deepstream'[Root'] = "complete"
    BY <1>1, OneProfileFacts DEF OneProfile
  <2>2. QED
    BY <1>2, <1>3, <2>1 DEF DerivingOK
<1>5. KeepsFirm
  BY DEF KeepsDerived, KeepsFirm
<1>6. StageAt
  BY <1>4 DEF StageAt
<1>7. QED
  BY <1>1, <1>2, <1>5, <1>6, StageHolds DEF OneProfile

\* Without writing a file.
LEMMA DerivingQuiet ==
  ASSUME PpeInv, runner.pc \in Deriving \ {"deliver"}, runner'.pc \in Deriving \ {"deliver"},
         OneProfile, UNCHANGED <<file, partial, encoding>>,
         \A x \in busy' : x \in busy \/ x.kind # "video",
         StageOK(runner.pc)'
  PROVE  PpeInv'
<1>1. KeepsDerived /\ OnlyNewPartial /\ \A x \in DOMAIN file' : x \in DOMAIN file /\ Kept(x)
  BY DEF KeepsDerived, OnlyNewPartial, Kept
<1>2. ProcessesOK' /\ partial' \subseteq DOMAIN file' /\ encoding' \subseteq partial'
  BY PpeFacts DEF CountersOK, ProcessesOK
<1>3. QED
  BY <1>1, <1>2, DerivingStep

\* Writing a file that was not there, or rows without a manifest.
LEMMA DerivingWrites ==
  ASSUME PpeInv, runner.pc \in Deriving \ {"deliver"}, runner'.pc \in Deriving \ {"deliver"},
         OneProfile, NEW path, NEW sources, Writes(path, sources), path.kind # "delivery",
         path \notin DOMAIN file \/ (path.kind \in {"person", "vehicle"} /\ Loose(path)),
         busy' = busy,
         \/ UNCHANGED <<partial, encoding>>
         \/ /\ path.kind = "video" /\ path \notin DOMAIN file
            /\ partial' = partial \cup {path} /\ encoding' = encoding \cup {path},
         FileOK(path)', StageOK(runner.pc)'
  PROVE  PpeInv'
<1>1. /\ DOMAIN file' = DOMAIN file \cup {path}
      /\ \A x \in DOMAIN file : x # path => Kept(x)
      /\ \A x \in DOMAIN file' : x # path => x \in DOMAIN file /\ Kept(x)
  BY WritesFacts
<1>2. CountersOK /\ ProcessesOK
  BY PpeFacts
<1>3. KeepsDerived
  BY <1>1 DEF KeepsDerived
<1>4. OnlyNewPartial
  BY DEF OnlyNewPartial
<1>5. ProcessesOK' /\ partial' \subseteq DOMAIN file' /\ encoding' \subseteq partial'
  <2>1. CASE UNCHANGED <<partial, encoding>>
    BY <1>1, <1>2, <2>1 DEF CountersOK, ProcessesOK
  <2>2. CASE /\ path.kind = "video" /\ path \notin DOMAIN file
             /\ partial' = partial \cup {path} /\ encoding' = encoding \cup {path}
    <3>1. partial' \subseteq DOMAIN file' /\ encoding' \subseteq partial'
      BY <1>1, <1>2, <2>2 DEF CountersOK
    <3>2. ProcessesOK'
      BY <1>2, <2>2 DEF ProcessesOK
    <3>3. QED
      BY <3>1, <3>2
  <2>3. QED
    BY <2>1, <2>2
<1>6. \A x \in DOMAIN file' :
        (x \in DOMAIN file /\ Kept(x)) \/ (x.kind # "delivery" /\ FileOK(x)')
  <2>1. ASSUME NEW x \in DOMAIN file', x = path PROVE x.kind # "delivery" /\ FileOK(x)'
    BY <2>1
  <2>2. QED
    BY <1>1, <2>1
<1>7. QED
  BY <1>3, <1>4, <1>5, <1>6, DerivingStep

-----------------------------------------------------------------------------
(* The detector runs of a profile, for people and for vehicles.            *)

DetectorKinds == {"person", "vehicle"}

KindOK(kind) ==
  kind = "vehicle" => Forklift /\ Exists(Own("person manifest", Profile))

LEMMA KindSteps ==
  ASSUME NEW kind \in DetectorKinds
  PROVE  /\ {kind, LaunchOf(kind), WaitOf(kind), ManifestOf(kind), After(kind)}
              \subseteq Deriving \ {"deliver"}
         /\ kind \in FileKinds /\ ManifestOf(kind) \in FileKinds
         /\ ManifestOf(kind) \notin {"person", "vehicle", "video", "delivery", "engine"}
<1>1. CASE kind = "person"
  BY <1>1 DEF LaunchOf, WaitOf, ManifestOf, After, Deriving, PersonSteps, VehicleSteps,
              DerivedSteps, FileKinds
<1>2. CASE kind = "vehicle"
  BY <1>2 DEF LaunchOf, WaitOf, ManifestOf, After, Deriving, PersonSteps, VehicleSteps,
              DerivedSteps, FileKinds
<1>3. QED
  BY <1>1, <1>2 DEF DetectorKinds

LEMMA KindStages ==
  ASSUME NEW kind \in DetectorKinds
  PROVE  /\ StageOK(kind) <=> KindOK(kind)
         /\ StageOK(LaunchOf(kind)) <=>
              KindOK(kind) /\ ~Exists(Own(ManifestOf(kind), Profile))
         /\ StageOK(WaitOf(kind)) <=>
              KindOK(kind) /\ ~Exists(Own(ManifestOf(kind), Profile))
         /\ StageOK(ManifestOf(kind)) <=>
              /\ KindOK(kind) /\ ~Exists(Own(ManifestOf(kind), Profile))
              /\ Exists(Own(kind, Profile))
         /\ KindOK(kind) /\ Exists(Own(ManifestOf(kind), Profile)) => StageOK(After(kind))
<1>1. CASE kind = "person"
  BY <1>1 DEF LaunchOf, WaitOf, ManifestOf, After, PersonSteps, VehicleSteps, DerivedSteps,
              StageOK, KindOK
<1>2. CASE kind = "vehicle"
  BY <1>2 DEF LaunchOf, WaitOf, ManifestOf, After, PersonSteps, VehicleSteps, DerivedSteps,
              StageOK, KindOK
<1>3. QED
  BY <1>1, <1>2 DEF DetectorKinds

\* The same of the next state.
LEMMA KindStagesNext ==
  ASSUME NEW kind \in DetectorKinds
  PROVE  /\ KindOK(kind)' => StageOK(kind)'
         /\ KindOK(kind)' /\ ~Exists(Own(ManifestOf(kind), Profile))' =>
              StageOK(LaunchOf(kind))' /\ StageOK(WaitOf(kind))'
         /\ KindOK(kind)' /\ ~Exists(Own(ManifestOf(kind), Profile))'
            /\ Exists(Own(kind, Profile))' => StageOK(ManifestOf(kind))'
         /\ KindOK(kind)' /\ Exists(Own(ManifestOf(kind), Profile))' => StageOK(After(kind))'
<1>1. CASE kind = "person"
  BY <1>1 DEF LaunchOf, WaitOf, ManifestOf, After, PersonSteps, VehicleSteps, DerivedSteps,
              StageOK, KindOK
<1>2. CASE kind = "vehicle"
  BY <1>2 DEF LaunchOf, WaitOf, ManifestOf, After, PersonSteps, VehicleSteps, DerivedSteps,
              StageOK, KindOK
<1>3. QED
  BY <1>1, <1>2 DEF DetectorKinds

LEMMA PlaceKinds ==
  /\ \A kind, p : Own(kind, p).kind = kind
  /\ \A kind, p : Joint(kind, p).kind = kind
  BY PathFields DEF Own, Joint

LEMMA KindMoves ==
  ASSUME PpeInv, NEW kind \in DetectorKinds, NEW from, NEW to, Moves(from, to),
         {from, to} \subseteq Deriving \ {"deliver"},
         UNCHANGED <<runs, planFile, deepstream, runnerKills, runnerErrors>>
  PROVE  /\ runner.pc = from /\ runner'.pc = to
         /\ runner.pc \in Deriving \ {"deliver"} /\ runner'.pc \in Deriving \ {"deliver"}
         /\ OneProfile /\ StageOK(from) /\ Profile \in Nat /\ Profile \in Range(runner.slug)
         /\ Profile' = Profile /\ Forklift' = Forklift
         /\ \A k, p : Own(k, p)' = Own(k, p) /\ Joint(k, p)' = Joint(k, p)
         /\ Here(kind) = Own(kind, Profile) /\ Manifest(kind) = Own(ManifestOf(kind), Profile)
<1>1. to \in RunnerSteps
  BY StepKinds
<1>2. /\ runner.pc = from /\ runner'.pc = to /\ SamePlace /\ runner'.at = runner.at
  BY <1>1, MovesFacts DEF SamePlace
<1>3. OneProfile
  BY <1>2 DEF OneProfile
<1>4. QED
  BY <1>2, <1>3, OneProfileFacts, DerivingFacts, RunnerPaths DEF Manifest

\* What a step leaves of the other files that the detector run depends on.
LEMMA KindStays ==
  ASSUME Profile' = Profile, Forklift' = Forklift,
         \A k, p : Own(k, p)' = Own(k, p) /\ Joint(k, p)' = Joint(k, p),
         NEW kind \in DetectorKinds, KindOK(kind),
         kind = "vehicle" => \A x \in DOMAIN file : x.kind = "person manifest" => Kept(x)
  PROVE  KindOK(kind)'
<1>1. Own("person manifest", Profile).kind = "person manifest"
  BY PlaceKinds
<1>2. QED
  BY <1>1 DEF KindOK, Exists, Kept

LEMMA ResumePersonHolds ==
  ASSUME PpeInv, NEW kind \in DetectorKinds, ResumePerson(kind)
  PROVE  PpeInv'
<1>1. Moves(kind, After(kind)) /\ {kind, After(kind)} \subseteq Deriving \ {"deliver"}
      /\ UNCHANGED <<runs, planFile, deepstream, runnerKills, runnerErrors>>
  BY KindSteps DEF ResumePerson, quiet
<1>2. /\ runner'.pc = After(kind)
      /\ runner.pc \in Deriving \ {"deliver"} /\ runner'.pc \in Deriving \ {"deliver"}
      /\ OneProfile /\ StageOK(kind)
      /\ Profile' = Profile /\ Forklift' = Forklift
      /\ \A k, p : Own(k, p)' = Own(k, p) /\ Joint(k, p)' = Joint(k, p)
      /\ Manifest(kind) = Own(ManifestOf(kind), Profile)
  BY <1>1, KindMoves
<1>3. KindOK(kind) /\ Exists(Own(ManifestOf(kind), Profile))
  BY <1>2, KindStages DEF ResumePerson, Verified
<1>4. KindOK(kind)'
  BY <1>2, <1>3, KindStays DEF ResumePerson, Kept
<1>5. Exists(Own(ManifestOf(kind), Profile))'
  BY <1>2, <1>3 DEF ResumePerson, Exists, ManifestOf
<1>6. After(kind)' = After(kind)
  BY <1>2 DEF After
<1>7. StageOK(runner.pc)'
  BY <1>2, <1>4, <1>5, <1>6, KindStagesNext
<1>8. QED
  BY <1>2, <1>7, DerivingQuiet DEF ResumePerson

\* The rows that are cleared have no manifest.
LEMMA ClearPersonHolds ==
  ASSUME PpeInv, NEW kind \in DetectorKinds, ClearPerson(kind)
  PROVE  PpeInv'
<1>1. Moves(kind, LaunchOf(kind)) /\ {kind, LaunchOf(kind)} \subseteq Deriving \ {"deliver"}
      /\ UNCHANGED <<runs, planFile, deepstream, runnerKills, runnerErrors>>
  BY KindSteps DEF ClearPerson, quiet
<1>2. /\ runner'.pc = LaunchOf(kind)
      /\ runner.pc \in Deriving \ {"deliver"} /\ runner'.pc \in Deriving \ {"deliver"}
      /\ OneProfile /\ StageOK(kind)
      /\ Profile' = Profile /\ Forklift' = Forklift
      /\ \A k, p : Own(k, p)' = Own(k, p) /\ Joint(k, p)' = Joint(k, p)
      /\ Here(kind) = Own(kind, Profile) /\ Manifest(kind) = Own(ManifestOf(kind), Profile)
  BY <1>1, KindMoves
<1>3. KindOK(kind) /\ Own(ManifestOf(kind), Profile) \notin DOMAIN file
  BY <1>2, KindStages DEF ClearPerson, Verified, Exists
<1> DEFINE x == Own(kind, Profile)
<1>4. x.kind = kind /\ x.kind \in {"person", "vehicle"} /\ Loose(x)
  <2>1. x.kind = kind
    BY PathFields DEF Own
  <2>2. Beside(ManifestOf(kind), x) = Own(ManifestOf(kind), Profile)
    BY DEF Beside, Own, Path
  <2>3. CASE kind = "person"
    BY <1>3, <2>1, <2>2, <2>3 DEF Loose, Exists, ManifestOf
  <2>4. CASE kind = "vehicle"
    BY <1>3, <2>1, <2>2, <2>4 DEF Loose, Exists, ManifestOf
  <2>5. QED
    BY <2>1, <2>3, <2>4 DEF DetectorKinds
<1> HIDE DEF x
<1>5. /\ DOMAIN file' = DOMAIN file \ {x}
      /\ \A y \in DOMAIN file' : y \in DOMAIN file /\ Kept(y)
      /\ \A y \in DOMAIN file : y # x => Kept(y)
  BY <1>2, RemovesFacts DEF ClearPerson, x
<1>6. KeepsDerived /\ OnlyNewPartial
  BY <1>4, <1>5 DEF KeepsDerived, OnlyNewPartial, ClearPerson
<1>7. ProcessesOK' /\ partial' \subseteq DOMAIN file' /\ encoding' \subseteq partial'
  <2>1. CountersOK /\ ProcessesOK
    BY PpeFacts
  <2>2. partial' \subseteq DOMAIN file'
    BY <1>4, <1>5, <2>1 DEF CountersOK, ProcessesOK, ClearPerson
  <2>3. QED
    BY <2>1, <2>2 DEF CountersOK, ProcessesOK, ClearPerson
<1>8. KindOK(kind)'
  BY <1>2, <1>3, <1>4, <1>5, KindStays
<1>9. ~Exists(Own(ManifestOf(kind), Profile))'
  BY <1>2, <1>3, <1>5 DEF Exists, ManifestOf
<1>10. StageOK(runner.pc)'
  BY <1>2, <1>8, <1>9, KindStagesNext DEF LaunchOf
<1>11. QED
  BY <1>2, <1>5, <1>6, <1>7, <1>10, DerivingStep

LEMMA LaunchPersonHolds ==
  ASSUME PpeInv, NEW kind \in DetectorKinds, LaunchPerson(kind)
  PROVE  PpeInv'
<1>1. Moves(LaunchOf(kind), WaitOf(kind))
      /\ {LaunchOf(kind), WaitOf(kind)} \subseteq Deriving \ {"deliver"}
      /\ UNCHANGED <<runs, planFile, deepstream, runnerKills, runnerErrors>>
  BY KindSteps DEF LaunchPerson, Runs, quiet
<1>2. /\ runner'.pc = WaitOf(kind)
      /\ runner.pc \in Deriving \ {"deliver"} /\ runner'.pc \in Deriving \ {"deliver"}
      /\ OneProfile /\ StageOK(LaunchOf(kind))
      /\ Profile' = Profile /\ Forklift' = Forklift
      /\ \A k, p : Own(k, p)' = Own(k, p) /\ Joint(k, p)' = Joint(k, p)
  BY <1>1, KindMoves
<1>3. KindOK(kind) /\ ~Exists(Own(ManifestOf(kind), Profile))
  BY <1>2, KindStages
<1>4. KindOK(kind)'
  BY <1>2, <1>3, KindStays DEF LaunchPerson, Kept
<1>5. ~Exists(Own(ManifestOf(kind), Profile))'
  BY <1>2, <1>3 DEF LaunchPerson, Exists, ManifestOf
<1>6. StageOK(runner.pc)'
  BY <1>2, <1>4, <1>5, KindStagesNext DEF WaitOf
<1>7. \A x \in busy' : x \in busy \/ x.kind # "video"
  BY PathFields DEF LaunchPerson, Runs, Common, DetectorKinds
<1>8. QED
  BY <1>2, <1>6, <1>7, DerivingQuiet DEF LaunchPerson

LEMMA ConvertPersonHolds ==
  ASSUME PpeInv, NEW kind \in DetectorKinds, ConvertPerson(kind)
  PROVE  PpeInv'
<1>1. Moves(WaitOf(kind), ManifestOf(kind))
      /\ {WaitOf(kind), ManifestOf(kind)} \subseteq Deriving \ {"deliver"}
      /\ UNCHANGED <<runs, planFile, deepstream, runnerKills, runnerErrors>>
  BY KindSteps DEF ConvertPerson, quiet
<1>2. /\ runner'.pc = ManifestOf(kind)
      /\ runner.pc \in Deriving \ {"deliver"} /\ runner'.pc \in Deriving \ {"deliver"}
      /\ OneProfile /\ StageOK(WaitOf(kind)) /\ Profile \in Nat
      /\ Profile' = Profile /\ Forklift' = Forklift
      /\ \A k, p : Own(k, p)' = Own(k, p) /\ Joint(k, p)' = Joint(k, p)
      /\ Here(kind) = Own(kind, Profile)
  BY <1>1, KindMoves
<1>3. KindOK(kind) /\ Own(ManifestOf(kind), Profile) \notin DOMAIN file
  BY <1>2, KindStages DEF Exists
<1>4. PICK x : x = Own(kind, Profile)
  OBVIOUS
<1>5. x.kind = kind /\ x.kind \in {"person", "vehicle"} /\ Loose(x)
  <2>1. x.kind = kind
    BY <1>4, PlaceKinds
  <2>2. Beside(ManifestOf(kind), x) = Own(ManifestOf(kind), Profile)
    BY <1>4 DEF Beside, Own, Path
  <2>3. CASE kind = "person"
    BY <1>3, <2>1, <2>2, <2>3 DEF Loose, Exists, ManifestOf
  <2>4. CASE kind = "vehicle"
    BY <1>3, <2>1, <2>2, <2>4 DEF Loose, Exists, ManifestOf
  <2>5. QED
    BY <2>1, <2>3, <2>4 DEF DetectorKinds
<1>6. Writes(x, {})
  BY <1>2, <1>4 DEF ConvertPerson
<1>7. /\ DOMAIN file' = DOMAIN file \cup {x} /\ x \in DOMAIN file'
      /\ file'[x].by = runner.run /\ file'[x].of = {}
      /\ \A y \in DOMAIN file : y # x => Kept(y)
  <2>1. file'[x].of = {Version(y) : y \in {}}
    BY <1>6, WritesFacts
  <2>2. QED
    BY <1>6, <2>1, WritesFacts
<1>8. FileOK(x)'
  <2>1. runner.run \in 1 .. runs /\ runs' = runs
    BY <1>2, DerivingFacts DEF OneProfile
  <2>2. x \in FilePaths
    BY <1>2, <1>4, StepKinds, PathsIn, KindSteps
  <2>3. QED
    BY <1>5, <1>7, <2>1, <2>2 DEF FileOK
<1>9. KindOK(kind)'
  BY <1>2, <1>3, <1>5, <1>7, KindStays
<1>10. ~Exists(Own(ManifestOf(kind), Profile))'
  <2>1. x # Own(ManifestOf(kind), Profile)
    BY <1>5, PlaceKinds, KindSteps
  <2>2. QED
    BY <1>2, <1>3, <1>7, <2>1 DEF Exists, ManifestOf
<1>11. Exists(Own(kind, Profile))'
  BY <1>2, <1>4, <1>7 DEF Exists
<1>12. StageOK(runner.pc)'
  BY <1>2, <1>9, <1>10, <1>11, KindStagesNext DEF ManifestOf
<1>13. QED
  BY <1>2, <1>5, <1>6, <1>8, <1>12, DerivingWrites DEF ConvertPerson

\* The manifest pins the rows as they are now.
LEMMA WriteManifestHolds ==
  ASSUME PpeInv, NEW kind \in DetectorKinds, WriteManifest(kind)
  PROVE  PpeInv'
<1>1. Moves(ManifestOf(kind), After(kind))
      /\ {ManifestOf(kind), After(kind)} \subseteq Deriving \ {"deliver"}
      /\ UNCHANGED <<runs, planFile, deepstream, runnerKills, runnerErrors>>
  BY KindSteps DEF WriteManifest, quiet
<1>2. /\ runner'.pc = After(kind)
      /\ runner.pc \in Deriving \ {"deliver"} /\ runner'.pc \in Deriving \ {"deliver"}
      /\ OneProfile /\ StageOK(ManifestOf(kind)) /\ Profile \in Nat
      /\ Profile' = Profile /\ Forklift' = Forklift
      /\ \A k, p : Own(k, p)' = Own(k, p) /\ Joint(k, p)' = Joint(k, p)
      /\ Here(kind) = Own(kind, Profile) /\ Manifest(kind) = Own(ManifestOf(kind), Profile)
  BY <1>1, KindMoves
<1>3. KindOK(kind) /\ Own(ManifestOf(kind), Profile) \notin DOMAIN file
      /\ Own(kind, Profile) \in DOMAIN file
  BY <1>2, KindStages DEF Exists
<1>4. PICK x, z : x = Own(ManifestOf(kind), Profile) /\ z = Own(kind, Profile)
  OBVIOUS
<1>5. x.kind = ManifestOf(kind) /\ z.kind = kind /\ Beside(kind, x) = z /\ x # z
  <2>1. x.kind = ManifestOf(kind) /\ z.kind = kind
    BY <1>4, PlaceKinds
  <2>2. Beside(kind, x) = z
    BY <1>4 DEF Beside, Own, Path
  <2>3. QED
    BY <2>1, <2>2, KindSteps DEF DetectorKinds
<1>6. Writes(x, {z})
  BY <1>2, <1>4 DEF WriteManifest
<1>7. /\ DOMAIN file' = DOMAIN file \cup {x} /\ x \in DOMAIN file'
      /\ file'[x].by = runner.run /\ file'[x].of = {Version(z)}
      /\ \A y \in DOMAIN file : y # x => Kept(y)
  <2>1. file'[x].of = {Version(y) : y \in {z}}
    BY <1>6, WritesFacts
  <2>2. QED
    BY <1>6, <2>1, WritesFacts
<1>8. FileOK(x)'
  <2>1. runner.run \in 1 .. runs /\ runs' = runs
    BY <1>2, DerivingFacts DEF OneProfile
  <2>2. x \in FilePaths
    BY <1>2, <1>4, StepKinds, PathsIn, KindSteps
  <2>3. z \in DOMAIN file' /\ file'[x].of = {Version(z)'}
    BY <1>3, <1>4, <1>5, <1>7 DEF Kept, Version
  <2>4. CASE kind = "person"
    BY <1>5, <1>7, <2>1, <2>2, <2>3, <2>4 DEF FileOK, Exists, ManifestOf
  <2>5. CASE kind = "vehicle"
    BY <1>5, <1>7, <2>1, <2>2, <2>3, <2>5 DEF FileOK, Exists, ManifestOf
  <2>6. QED
    BY <2>4, <2>5 DEF DetectorKinds
<1>9. KindOK(kind)'
  <2>1. kind = "vehicle" => x.kind # "person manifest"
    BY <1>5 DEF ManifestOf
  <2>2. QED
    BY <1>2, <1>3, <1>7, <2>1, KindStays
<1>10. Exists(Own(ManifestOf(kind), Profile))'
  BY <1>2, <1>4, <1>7 DEF Exists, ManifestOf
<1>11. After(kind)' = After(kind)
  BY <1>2 DEF After
<1>12. StageOK(runner.pc)'
  BY <1>2, <1>9, <1>10, <1>11, KindStagesNext
<1>13. x.kind # "delivery" /\ x \notin DOMAIN file
  BY <1>3, <1>4, <1>5, KindSteps
<1>14. QED
  BY <1>2, <1>6, <1>8, <1>12, <1>13, DerivingWrites DEF WriteManifest

LEMMA StartProfileHolds ==
  ASSUME PpeInv, StartProfile
  PROVE  PpeInv'
<1>1. {"profile", "person"} \subseteq Deriving \ {"deliver"} /\ "person" \in RunnerSteps
  BY DEF Deriving, PersonSteps, RunnerSteps
<1>2. /\ runner.pc = "profile" /\ runner'.pc = "person" /\ SamePlace /\ runner'.at = runner.at
  BY <1>1, MovesFacts DEF StartProfile, SamePlace
<1>3. OneProfile
  BY <1>2 DEF StartProfile, OneProfile, quiet
<1>4. StageOK(runner.pc)'
  BY <1>2 DEF StageOK, PersonSteps, VehicleSteps, DerivedSteps
<1>5. QED
  BY <1>1, <1>2, <1>3, <1>4, DerivingQuiet DEF StartProfile

-----------------------------------------------------------------------------
(* The derived files of a profile.                                         *)

DeriveSteps == {"evidence", "fused", "effective", "video"}

LEMMA MadeNow ==
  ASSUME NEW x, NEW S, Writes(x, S), x \notin DOMAIN file, \A y \in S : Steady(y),
         runner'.run = runner.run
  PROVE  Made(x, S)' /\ KeepsDerived
<1>1. /\ x \in DOMAIN file' /\ file'[x].by = runner.run
      /\ file'[x].of = {Version(y) : y \in S}
      /\ \A y \in DOMAIN file : y # x => Kept(y)
  BY WritesFacts DEF Exists
<1>2. KeepsDerived
  BY <1>1 DEF KeepsDerived
<1>3. {Version(y)' : y \in S} = {Version(y) : y \in S}
  BY <1>2, SteadyStays
<1>4. QED
  BY <1>1, <1>2, <1>3 DEF Made, Exists

LEMMA DeriveFacts ==
  ASSUME PpeInv, NEW step \in DeriveSteps, NEW to \in Deriving \ {"deliver"}, Derive(step, to),
         NEW x, x = Target(step), NEW S, S = Sources(step), \A y \in S : Steady(y),
         UNCHANGED <<partial, encoding>> \/ partial' = partial \cup {x},
         UNCHANGED <<runnerKills, runnerErrors>>
  PROVE  /\ runner.pc = step /\ runner'.pc = to
         /\ runner.pc \in Deriving \ {"deliver"} /\ runner'.pc \in Deriving \ {"deliver"}
         /\ OneProfile /\ busy' = busy /\ Writes(x, S) /\ x \notin DOMAIN file
         /\ Made(x, S)' /\ KeepsDerived /\ OnlyNewPartial
         /\ \A p \in Range(runner.slug) :
              /\ EvidenceMade(p) => EvidenceMade(p)'
              /\ FusedMade(p) => FusedMade(p)'
              /\ FusedMade(p) /\ EvidenceMade(p) /\ EffectiveMade(p) => EffectiveMade(p)'
<1>1. Moves(step, to) /\ step \in Deriving \ {"deliver"} /\ to \in RunnerSteps
  BY StepKinds DEF Derive, Deriving, DerivedSteps, DeriveSteps
<1>2. /\ runner.pc = step /\ runner'.pc = to /\ SamePlace /\ runner'.at = runner.at
  BY <1>1, MovesFacts DEF SamePlace
<1>3. OneProfile /\ busy' = busy
  BY <1>2 DEF OneProfile, Derive, quiet
<1>4. Writes(x, S) /\ x \notin DOMAIN file
  BY DEF Derive, Exists
<1>5. Made(x, S)' /\ KeepsDerived
  BY <1>2, <1>4, MadeNow DEF SamePlace
<1>6. OnlyNewPartial
  BY <1>4 DEF OnlyNewPartial
<1>7. QED
  BY <1>1, <1>2, <1>3, <1>4, <1>5, <1>6, ProfileStays

LEMMA PersonManifestStays ==
  ASSUME PpeInv, NEW p, Exists(Own("person manifest", p)), KeepsDerived,
         Own("person manifest", p)' = Own("person manifest", p)
  PROVE  Exists(Own("person manifest", p))'
  BY ManifestsAreSteady, SteadyStays DEF Exists

LEMMA DeriveEvidenceHolds ==
  ASSUME PpeInv, DeriveEvidence
  PROVE  PpeInv'
<1>1. Derive("evidence", "fused") /\ UNCHANGED <<partial, encoding, runnerKills, runnerErrors>>
      /\ runner.pc = "evidence"
  BY DEF DeriveEvidence, Derive, Moves, quiet
<1>2. "fused" \in Deriving \ {"deliver"} /\ "evidence" \in DeriveSteps /\ runner.pc \in Deriving
  BY <1>1 DEF Deriving, DerivedSteps, DeriveSteps
<1>3. /\ Forklift /\ Exists(Own("person manifest", Profile))
      /\ Exists(Own("vehicle manifest", Profile)) /\ Profile \in Nat
      /\ Profile \in Range(runner.slug) /\ runner.run \in 1 .. runs
  BY <1>1, <1>2, DerivingFacts DEF StageOK, VehicleSteps, DerivedSteps
<1>4. PICK x, S, r, m : /\ x = Own("evidence", Profile) /\ S = {Own("vehicle", Profile)}
                        /\ r = Own("vehicle", Profile) /\ m = Own("vehicle manifest", Profile)
  OBVIOUS
<1>5. x = Target("evidence") /\ S = Sources("evidence")
  BY <1>4, RunnerPaths DEF Target, Sources, Evidence
<1>6. Steady(r) /\ Steady(m) /\ S = {r}
  BY <1>3, <1>4, ManifestsAreSteady
<1>7. /\ runner'.pc = "fused"
      /\ runner.pc \in Deriving \ {"deliver"} /\ runner'.pc \in Deriving \ {"deliver"}
      /\ OneProfile /\ busy' = busy /\ Writes(x, S) /\ x \notin DOMAIN file
      /\ Made(x, S)' /\ KeepsDerived
  BY <1>1, <1>2, <1>5, <1>6, DeriveFacts
<1>8. /\ Profile' = Profile /\ Forklift' = Forklift
      /\ \A k, p : Own(k, p)' = Own(k, p) /\ Joint(k, p)' = Joint(k, p)
  BY <1>7, OneProfileFacts
<1>9. x \in DOMAIN file' /\ file'[x].by = runner'.run /\ file'[x].of = {Version(r)'}
  BY <1>6, <1>7 DEF Made, Exists
<1>10. x.kind = "evidence" /\ Beside("vehicle", x) = r /\ Beside("vehicle manifest", x) = m
  <2>1. x.kind = "evidence"
    BY <1>4, PlaceKinds
  <2>2. Beside("vehicle", x) = r /\ Beside("vehicle manifest", x) = m
    BY <1>4 DEF Beside, Own, Path
  <2>3. QED
    BY <2>1, <2>2
<1>11. FileOK(x)'
  <2>1. r \in DOMAIN file' /\ m \in DOMAIN file'
    BY <1>6, <1>7, SteadyStays
  <2>2. x \in FilePaths
    <3>1. "evidence" \in FileKinds /\ runner.pc # "off"
      BY <1>1 DEF FileKinds
    <3>2. QED
      BY <1>3, <1>4, <3>1, PathsIn
  <2>3. file'[x].by \in 1 .. runs'
    BY <1>3, <1>7, <1>9 DEF OneProfile, SamePlace
  <2>4. QED
    BY <1>9, <1>10, <2>1, <2>2, <2>3 DEF FileOK, Exists
<1>12. StageOK(runner.pc)'
  <2>1. EvidenceMade(Profile)'
    BY <1>4, <1>8, <1>9 DEF EvidenceMade, Exists
  <2>2. Exists(Own("person manifest", Profile))'
    BY <1>3, <1>7, <1>8, PersonManifestStays
  <2>3. QED
    BY <1>7, <2>1, <2>2 DEF StageOK, PersonSteps, VehicleSteps, DerivedSteps
<1>13. QED
  BY <1>1, <1>7, <1>10, <1>11, <1>12, DerivingWrites

LEMMA JointFileOK ==
  ASSUME PpeInv, runner.pc # "off", NEW kind \in {"fused", "effective", "video"},
         NEW x, x = Joint(kind, Profile), NEW S, Made(x, S)', runner'.run = runner.run,
         runs' = runs
  PROVE  FileOK(x)' /\ x.kind = kind
<1>1. x.kind = kind
  BY PlaceKinds
<1>2. Profile \in Nat /\ runner.run \in 1 .. runs /\ kind \in FileKinds
  BY RunnerFacts DEF FileKinds
<1>3. x \in FilePaths
  BY <1>2, PathsIn
<1>4. file'[x].by \in 1 .. runs'
  BY <1>2 DEF Made
<1>5. QED
  BY <1>1, <1>3, <1>4 DEF FileOK

\* What is fused are rows that stay as they are.
LEMMA DeriveFusedHolds ==
  ASSUME PpeInv, DeriveFused
  PROVE  PpeInv'
<1> DEFINE to == IF Forklift THEN "effective" ELSE "video"
<1>1. Derive("fused", to) /\ UNCHANGED <<partial, encoding, runnerKills, runnerErrors>>
      /\ runner.pc = "fused"
  BY DEF DeriveFused, Derive, Moves, quiet
<1>2. to \in Deriving \ {"deliver"} /\ "fused" \in DeriveSteps /\ runner.pc \in Deriving
      /\ runner.pc # "off"
  BY <1>1 DEF Deriving, DerivedSteps, DeriveSteps
<1>3. /\ Exists(Own("person manifest", Profile)) /\ Profile \in Range(runner.slug)
      /\ Forklift => EvidenceMade(Profile)
  BY <1>1, <1>2, DerivingFacts DEF StageOK, VehicleSteps, DerivedSteps
<1>4. PICK x, S : /\ x = Joint("fused", Profile)
                  /\ S = {Own("ppe", Profile), Own("person", Profile)}
  OBVIOUS
<1>5. x = Target("fused") /\ S = Sources("fused")
  BY <1>4, RunnerPaths DEF Target, Sources
<1>6. \A y \in S : Steady(y)
  BY <1>2, <1>3, <1>4, ManifestsAreSteady, RowsAreSteady
<1>7. /\ runner'.pc = to
      /\ runner.pc \in Deriving \ {"deliver"} /\ runner'.pc \in Deriving \ {"deliver"}
      /\ OneProfile /\ busy' = busy /\ Writes(x, S) /\ x \notin DOMAIN file
      /\ Made(x, S)' /\ KeepsDerived
      /\ EvidenceMade(Profile) => \A p : p = Profile => EvidenceMade(p)'
  <2> HIDE DEF to
  <2>1. QED
    BY <1>1, <1>2, <1>3, <1>5, <1>6, DeriveFacts
<1>8. /\ Profile' = Profile /\ Forklift' = Forklift
      /\ \A k, p : Own(k, p)' = Own(k, p) /\ Joint(k, p)' = Joint(k, p)
  BY <1>7, OneProfileFacts
<1>9. FileOK(x)' /\ x.kind = "fused"
  BY <1>2, <1>4, <1>7, JointFileOK DEF OneProfile, SamePlace
<1>10. StageOK(runner.pc)'
  <2>1. Exists(Own("person manifest", Profile))'
    BY <1>3, <1>7, <1>8, PersonManifestStays
  <2>2. {Own("ppe", Profile)', Own("person", Profile)'} = S /\ Joint("fused", Profile)' = x
    BY <1>4, <1>8
  <2>3. FusedMade(Profile)'
    BY <1>7, <1>8, <2>1, <2>2 DEF FusedMade
  <2>4. Forklift' => EvidenceMade(Profile)'
    BY <1>3, <1>7, <1>8
  <2>5. (runner'.pc = "effective" /\ Forklift') \/ (runner'.pc = "video" /\ ~Forklift')
    BY <1>7, <1>8
  <2>6. QED
    BY <2>1, <2>3, <2>4, <2>5 DEF StageOK, PersonSteps, VehicleSteps, DerivedSteps
<1>11. QED
  BY <1>1, <1>7, <1>9, <1>10, DerivingWrites

LEMMA DeriveEffectiveHolds ==
  ASSUME PpeInv, DeriveEffective
  PROVE  PpeInv'
<1>1. Derive("effective", "video")
      /\ UNCHANGED <<partial, encoding, runnerKills, runnerErrors>>
      /\ runner.pc = "effective"
  BY DEF DeriveEffective, Derive, Moves, quiet
<1>2. "video" \in Deriving \ {"deliver"} /\ "effective" \in DeriveSteps
      /\ runner.pc \in Deriving /\ runner.pc # "off"
  BY <1>1 DEF Deriving, DerivedSteps, DeriveSteps
<1>3. /\ Exists(Own("person manifest", Profile)) /\ Profile \in Range(runner.slug)
      /\ Forklift /\ EvidenceMade(Profile) /\ FusedMade(Profile)
  BY <1>1, <1>2, DerivingFacts DEF StageOK, VehicleSteps, DerivedSteps
<1>4. PICK x, S : /\ x = Joint("effective", Profile)
                  /\ S = {Joint("fused", Profile), Own("evidence", Profile)}
  OBVIOUS
<1>5. x = Target("effective") /\ S = Sources("effective")
  BY <1>4, RunnerPaths DEF Target, Sources, Evidence
<1>6. \A y \in S : Steady(y)
  <2>1. Joint("fused", Profile) \in DOMAIN file /\ Own("evidence", Profile) \in DOMAIN file
    BY <1>3 DEF FusedMade, EvidenceMade, Made, Exists
  <2>2. QED
    BY <1>4, <2>1, PlaceKinds DEF Steady
<1>7. /\ runner'.pc = "video"
      /\ runner.pc \in Deriving \ {"deliver"} /\ runner'.pc \in Deriving \ {"deliver"}
      /\ OneProfile /\ busy' = busy /\ Writes(x, S) /\ x \notin DOMAIN file
      /\ Made(x, S)' /\ KeepsDerived
      /\ \A p : p = Profile => EvidenceMade(p)' /\ FusedMade(p)'
  BY <1>1, <1>2, <1>3, <1>5, <1>6, DeriveFacts
<1>8. /\ Profile' = Profile /\ Forklift' = Forklift
      /\ \A k, p : Own(k, p)' = Own(k, p) /\ Joint(k, p)' = Joint(k, p)
  BY <1>7, OneProfileFacts
<1>9. FileOK(x)' /\ x.kind = "effective"
  BY <1>2, <1>4, <1>7, JointFileOK DEF OneProfile, SamePlace
<1>10. StageOK(runner.pc)'
  <2>1. Exists(Own("person manifest", Profile))'
    BY <1>3, <1>7, <1>8, PersonManifestStays
  <2>2. {Joint("fused", Profile)', Own("evidence", Profile)'} = S
        /\ Joint("effective", Profile)' = x
    BY <1>4, <1>8
  <2>3. EffectiveMade(Profile)'
    BY <1>7, <1>8, <2>2 DEF EffectiveMade
  <2>4. EvidenceMade(Profile)' /\ FusedMade(Profile)'
    BY <1>7, <1>8
  <2>5. QED
    BY <1>7, <2>1, <2>3, <2>4 DEF StageOK, PersonSteps, VehicleSteps, DerivedSteps
<1>11. QED
  BY <1>1, <1>7, <1>9, <1>10, DerivingWrites

LEMMA StartVideoFileHolds ==
  ASSUME PpeInv, StartVideoFile
  PROVE  PpeInv'
<1> DEFINE y == IF Forklift THEN Joint("effective", Profile) ELSE Joint("fused", Profile)
<1>1. Derive("video", "encode") /\ UNCHANGED <<runnerKills, runnerErrors>>
      /\ runner.pc = "video"
  BY DEF StartVideoFile, Derive, Moves, quiet
<1>2. "encode" \in Deriving \ {"deliver"} /\ "video" \in DeriveSteps
      /\ runner.pc \in Deriving /\ runner.pc # "off"
  BY <1>1 DEF Deriving, DerivedSteps, DeriveSteps
<1>3. /\ Exists(Own("person manifest", Profile)) /\ Profile \in Range(runner.slug)
      /\ FusedMade(Profile)
      /\ Forklift => EvidenceMade(Profile) /\ EffectiveMade(Profile)
  BY <1>1, <1>2, DerivingFacts DEF StageOK, VehicleSteps, DerivedSteps
<1>4. PICK x, S : x = Joint("video", Profile) /\ S = {y}
  OBVIOUS
<1>5. x = Target("video") /\ S = Sources("video")
  BY <1>4, RunnerPaths DEF Target, Sources, RenderSource
<1>6. \A z \in S : Steady(z)
  <2>1. Joint("fused", Profile) \in DOMAIN file
    BY <1>3 DEF FusedMade, Made, Exists
  <2>2. Forklift => Joint("effective", Profile) \in DOMAIN file
    BY <1>3 DEF EffectiveMade, Made, Exists
  <2>3. QED
    BY <1>4, <2>1, <2>2, PlaceKinds DEF Steady
<1>7. partial' = partial \cup {x} /\ encoding' = encoding \cup {x}
  BY <1>4, RunnerPaths DEF StartVideoFile
<1>8. /\ runner'.pc = "encode"
      /\ runner.pc \in Deriving \ {"deliver"} /\ runner'.pc \in Deriving \ {"deliver"}
      /\ OneProfile /\ busy' = busy /\ Writes(x, S) /\ x \notin DOMAIN file
      /\ Made(x, S)' /\ KeepsDerived
      /\ \A p : p = Profile =>
           /\ FusedMade(p)'
           /\ Forklift => EvidenceMade(p)' /\ EffectiveMade(p)'
  BY <1>1, <1>2, <1>3, <1>5, <1>6, <1>7, DeriveFacts
<1>9. /\ Profile' = Profile /\ Forklift' = Forklift
      /\ \A k, p : Own(k, p)' = Own(k, p) /\ Joint(k, p)' = Joint(k, p)
  BY <1>8, OneProfileFacts
<1>10. FileOK(x)' /\ x.kind = "video"
  BY <1>2, <1>4, <1>8, JointFileOK DEF OneProfile, SamePlace
<1>11. StageOK(runner.pc)'
  <2>1. Exists(Own("person manifest", Profile))'
    BY <1>3, <1>8, <1>9, PersonManifestStays
  <2>2. {y'} = S /\ Joint("video", Profile)' = x
    BY <1>4, <1>9
  <2>3. VideoMade(Profile)'
    BY <1>8, <1>9, <2>2 DEF VideoMade
  <2>4. FusedMade(Profile)' /\ (Forklift' => EvidenceMade(Profile)' /\ EffectiveMade(Profile)')
    BY <1>8, <1>9
  <2>5. QED
    BY <1>8, <2>1, <2>3, <2>4 DEF StageOK, PersonSteps, VehicleSteps, DerivedSteps
<1>12. QED
  BY <1>7, <1>8, <1>10, <1>11, DerivingWrites

\* The profile is made; the next one, or the delivery.
LEMMA VideoProbedHolds ==
  ASSUME PpeInv, VideoProbed
  PROVE  PpeInv'
<1>1. runner.pc = "encode" /\ runner.pc \in Deriving /\ runner.pc # "off"
  BY DEF VideoProbed, Deriving, DerivedSteps
<1>2. /\ DerivingOK /\ StageOK("encode") /\ runner.slug \in Slug /\ Len(runner.slug) \in Nat
      /\ runner.at \in 1 .. Len(runner.slug) /\ deepstream[Root] = "complete"
      /\ runner \in Runners
  BY <1>1, DerivingFacts, PpeFacts
<1>3. UNCHANGED <<runs, planFile, deepstream, runnerKills, runnerErrors, file, partial, busy,
                  encoding>>
  BY DEF VideoProbed, quiet
<1>4. ProfileMade(Profile)
  <2>1. Joint("video", Profile) \notin partial
    BY RunnerPaths DEF VideoProbed, Probed
  <2>2. QED
    BY <1>2, <2>1 DEF StageOK, ProfileMade, VehicleSteps, DerivedSteps
<1>5. /\ SamePlace
      /\ \/ /\ MoreProfiles /\ runner'.pc = "profile" /\ runner'.at = runner.at + 1
         \/ /\ ~MoreProfiles /\ runner'.pc = "deliver" /\ runner'.at = runner.at
  <2>1. {"profile", "deliver"} \subseteq RunnerSteps /\ runner.at \in Nat /\ runner.at + 1 \in Nat
    BY <1>2 DEF RunnerSteps, Deriving
  <2>2. CASE MoreProfiles
    <3>1. runner' = [runner EXCEPT !.pc = "profile", !.at = @ + 1]
      BY <2>2 DEF VideoProbed
    <3>2. QED
      BY <1>2, <2>1, <2>2, <3>1 DEF SamePlace, Runners
  <2>3. CASE ~MoreProfiles
    <3>1. runner' = [runner EXCEPT !.pc = "deliver"]
      BY <2>3 DEF VideoProbed
    <3>2. QED
      BY <1>2, <2>1, <2>3, <3>1 DEF SamePlace, Runners
  <2>4. QED
    BY <2>2, <2>3
<1>6. KeepsDerived /\ OnlyNewPartial
  BY <1>3 DEF KeepsDerived, OnlyNewPartial, Kept
<1>7. ASSUME NEW i \in 1 .. Len(runner.slug), i <= runner.at
      PROVE  \A p : p = runner.slug[i] => ProfileMade(p)'
  <2>1. ProfileMade(runner.slug[i])
    <3>1. CASE i = runner.at
      BY <1>4, <3>1 DEF Profile
    <3>2. CASE i # runner.at
      BY <1>2, <1>7, <3>2 DEF DerivingOK
    <3>3. QED
      BY <3>1, <3>2
  <2>2. runner.slug[i] \in Range(runner.slug)
    BY <1>2, SlugFacts
  <2>3. QED
    BY <1>1, <1>5, <1>6, <2>1, <2>2, ProfileStays
<1>8. /\ runner'.slug = runner.slug /\ runner'.at \in 1 .. Len(runner.slug)
      /\ runner'.pc \in Deriving /\ Root' = Root
      /\ \A i \in 1 .. Len(runner.slug) :
           (i < runner'.at \/ runner'.pc = "deliver") => i <= runner.at
  <2>1. runner'.slug = runner.slug /\ Root' = Root /\ runner'.pc \in Deriving
    BY <1>5, PlaceStays DEF SamePlace, Deriving
  <2>2. CASE MoreProfiles /\ runner'.pc = "profile" /\ runner'.at = runner.at + 1
    BY <1>2, <2>1, <2>2 DEF MoreProfiles
  <2>3. CASE ~MoreProfiles /\ runner'.pc = "deliver" /\ runner'.at = runner.at
    BY <1>2, <2>1, <2>3 DEF MoreProfiles
  <2>4. QED
    BY <1>5, <2>2, <2>3
<1>9. DerivingOK'
  <2>1. deepstream'[Root'] = "complete"
    BY <1>2, <1>3, <1>8
  <2>2. StageOK(runner.pc)'
    BY <1>5 DEF StageOK, PersonSteps, VehicleSteps, DerivedSteps
  <2>3. ASSUME NEW i \in 1 .. Len(runner.slug), i < runner'.at \/ runner'.pc = "deliver"
        PROVE  ProfileMade(runner.slug[i])'
    <3>1. i <= runner.at
      BY <1>8, <2>3
    <3>2. \A p : p = runner.slug[i] => ProfileMade(p)'
      BY <1>7, <3>1
    <3>3. QED
      BY <1>8, <3>2
  <2>4. QED
    BY <1>8, <2>1, <2>2, <2>3 DEF DerivingOK
<1>10. StageAt
  BY <1>1, <1>8, <1>9 DEF StageAt
<1>11. QED
  BY <1>3, <1>5, <1>8, <1>10, QuietStage

-----------------------------------------------------------------------------
(* The delivery.                                                           *)

\* All that a finished job is about to pin was made by this run, from what it pins.
LEMMA ProductMade ==
  ASSUME PpeInv, runner.pc = "deliver", NEW p \in Range(runner.slug),
         NEW x \in Products(runner.slug, runner.video, p),
         Delivered(runner.slug, runner.video) \subseteq DOMAIN file
  PROVE  /\ x \in DOMAIN file /\ x.kind # "delivery" /\ x \notin partial
         /\ x.kind # "ppe" =>
              file[x].of \subseteq {Version(y) : y \in Delivered(runner.slug, runner.video)}
         /\ x.kind \in DerivedKinds => file[x].by = runner.run
<1> DEFINE D == Delivered(runner.slug, runner.video)
           V == {Version(y) : y \in D}
<1>1. DerivingOK /\ runner.slug \in Slug /\ Len(runner.slug) \in Nat
  BY DerivingFacts DEF Deriving
<1>2. ProfileMade(p)
  <2>1. PICK i \in 1 .. Len(runner.slug) : p = runner.slug[i]
    BY <1>1, SlugFacts
  <2>2. QED
    BY <1>1, <2>1 DEF DerivingOK
<1>3. \A y \in Products(runner.slug, runner.video, p) : y \in D
  BY PinnedPath
<1>4. /\ x \in DOMAIN file /\ FileOK(x)
      /\ \A kind \in OwnKinds(runner.video) : Own(kind, p) \in D /\ Own(kind, p) \in DOMAIN file
      /\ \A kind \in JointKinds(runner.video) :
           Joint(kind, p) \in D /\ Joint(kind, p) \in DOMAIN file
  BY <1>3, ProductIn, PpeFacts DEF Own, Joint
<1>5. /\ FusedMade(p) /\ VideoMade(p) /\ Joint("video", p) \notin partial
      /\ Forklift => EvidenceMade(p) /\ EffectiveMade(p)
  BY <1>2 DEF ProfileMade
<1>6. \A y \in D : Version(y) \in V
  OBVIOUS
<1> HIDE DEF D, V
<1>7. Forklift <=> runner.video \in ForkliftVideos
  BY DEF Forklift
<1>8. CASE x.kind \in OwnKinds(runner.video) /\ x = Own(x.kind, p)
  <2>1. \/ x.kind \in {"ppe", "person", "person manifest"}
        \/ x.kind \in {"vehicle", "vehicle manifest", "evidence"} /\ Forklift
    BY <1>7, <1>8, ProductKinds
  <2>2. x.kind # "delivery" /\ x \notin partial
    BY <2>1, PpeFacts DEF ProcessesOK
  <2>3. \A kind : Beside(kind, x) = Own(kind, p)
    BY <1>8, PathFields DEF Beside, Own
  <2>4. Own("person", p) \in D
    BY <1>4, ProductKinds
  <2>5. Forklift => Own("vehicle", p) \in D
    BY <1>4, <1>7, ProductKinds
  <2>6. x.kind # "ppe" => file[x].of \subseteq V
    <3>1. CASE x.kind \in {"person", "vehicle"}
      BY <1>4, <3>1 DEF FileOK
    <3>2. CASE x.kind = "person manifest"
      BY <1>4, <1>6, <2>3, <2>4, <3>2 DEF FileOK
    <3>3. CASE x.kind \in {"vehicle manifest", "evidence"}
      BY <1>4, <1>6, <2>1, <2>3, <2>5, <3>3 DEF FileOK
    <3>4. QED
      BY <2>1, <3>1, <3>2, <3>3
  <2>7. x.kind \in DerivedKinds => file[x].by = runner.run
    <3>1. x.kind \in DerivedKinds => x.kind = "evidence" /\ Forklift
      BY <2>1 DEF DerivedKinds
    <3>2. QED
      BY <1>5, <1>8, <3>1 DEF EvidenceMade
  <2>8. QED
    BY <1>4, <2>2, <2>6, <2>7 DEF D, V
<1>9. CASE x.kind \in JointKinds(runner.video) /\ x = Joint(x.kind, p)
  <2>1. x.kind \in {"fused", "video"} \/ (x.kind = "effective" /\ Forklift)
    BY <1>7, <1>9, ProductKinds
  <2>2. x.kind # "delivery" /\ x \notin partial
    <3>1. CASE x.kind = "video"
      BY <1>5, <1>9, <3>1
    <3>2. CASE x.kind # "video"
      BY <2>1, <3>2, PpeFacts DEF ProcessesOK
    <3>3. QED
      BY <2>1, <3>1, <3>2
  <2>3. /\ Own("ppe", p) \in D /\ Own("person", p) \in D /\ Joint("fused", p) \in D
        /\ Forklift => Own("evidence", p) \in D /\ Joint("effective", p) \in D
    BY <1>4, <1>7, ProductKinds
  <2>4. CASE x.kind = "fused"
    BY <1>4, <1>5, <1>6, <1>9, <2>2, <2>3, <2>4 DEF FusedMade, Made, D, V
  <2>5. CASE x.kind = "video"
    <3>1. CASE Forklift
      BY <1>4, <1>5, <1>6, <1>9, <2>2, <2>3, <2>5, <3>1 DEF VideoMade, Made, D, V
    <3>2. CASE ~Forklift
      BY <1>4, <1>5, <1>6, <1>9, <2>2, <2>3, <2>5, <3>2 DEF VideoMade, Made, D, V
    <3>3. QED
      BY <3>1, <3>2
  <2>6. CASE x.kind = "effective" /\ Forklift
    BY <1>4, <1>5, <1>6, <1>9, <2>2, <2>3, <2>6 DEF EffectiveMade, Made, D, V
  <2>7. QED
    BY <2>1, <2>4, <2>5, <2>6
<1>10. QED
  BY <1>8, <1>9, ProductIs DEF Own, Joint

LEMMA DeliverHolds ==
  ASSUME PpeInv, Deliver
  PROVE  PpeInv'
<1>1. runner.pc = "deliver" /\ runner.pc \in Deriving /\ runner.pc # "off"
  BY DEF Deliver, NextVideo, Deriving
<1>2. /\ runner.slug \in Slug /\ runner.video \in PpeVideos /\ runner.run \in 1 .. runs
      /\ deepstream[Root] = "complete" /\ ~runner.force
      /\ CountersOK /\ ProcessesOK /\ runs \in Nat /\ RunnerOK
  BY <1>1, DerivingFacts, PpeFacts
<1>3. /\ UNCHANGED <<runs, planFile, deepstream, runnerKills, runnerErrors, partial, busy,
                     encoding>>
      /\ NextVideo("deliver")
  BY DEF Deliver, quiet
<1>4. PICK d, D : d = Delivery /\ D = Delivered(runner.slug, runner.video)
  OBVIOUS
<1>5. Writes(d, D) /\ D \subseteq DOMAIN file /\ d \notin DOMAIN file
  BY <1>1, <1>2, <1>4, StepKinds DEF Deliver, RunnerOK, Exists
<1>6. /\ DOMAIN file' = DOMAIN file \cup {d} /\ d \in DOMAIN file'
      /\ file'[d].by = runner.run /\ file'[d].of = {Version(y) : y \in D}
      /\ \A x \in DOMAIN file : x # d => Kept(x)
      /\ \A x \in DOMAIN file' : x # d => x \in DOMAIN file /\ Kept(x)
  <2>1. file'[d].of = {Version(y) : y \in D}
    BY <1>5, WritesFacts
  <2>2. QED
    BY <1>5, <2>1, WritesFacts
<1>7. /\ d.kind = "delivery" /\ d.slug = runner.slug /\ d.video = runner.video
      /\ d \in FilePaths /\ <<d.slug, d.video>> = Root
  BY <1>2, <1>4, PathFields DEF Delivery, FilePaths, Root
<1>8. \A x \in D : /\ x \in DOMAIN file /\ x # d /\ x \notin partial
                   /\ x.kind # "ppe" => file[x].of \subseteq {Version(y) : y \in D}
                   /\ x.kind \in DerivedKinds => file[x].by = runner.run
  <2> SUFFICES ASSUME NEW x \in D
               PROVE  /\ x \in DOMAIN file /\ x # d /\ x \notin partial
                      /\ x.kind # "ppe" => file[x].of \subseteq {Version(y) : y \in D}
                      /\ x.kind \in DerivedKinds => file[x].by = runner.run
    OBVIOUS
  <2>1. PICK p \in Range(runner.slug) : x \in Products(runner.slug, runner.video, p)
    BY <1>4, PinnedPath
  <2>2. /\ x \in DOMAIN file /\ x.kind # "delivery" /\ x \notin partial
        /\ x.kind # "ppe" =>
             file[x].of \subseteq {Version(y) : y \in Delivered(runner.slug, runner.video)}
        /\ x.kind \in DerivedKinds => file[x].by = runner.run
    BY <1>1, <1>4, <1>5, <2>1, ProductMade
  <2>3. QED
    BY <1>4, <1>7, <2>2
<1>9. \A x \in D : file'[x] = file[x] /\ x \in DOMAIN file' /\ Version(x)' = Version(x)
  BY <1>6, <1>8 DEF Kept, Version
<1>10. DeliveryOK(d)'
  <2>1. Pinned(d) = D /\ Pinned(d)' = D
    BY <1>4, <1>7 DEF Pinned
  <2>2. deepstream'[<<d.slug, d.video>>] = "complete"
    BY <1>2, <1>3, <1>7
  <2>3. file'[d].of = {Version(x)' : x \in D}
    BY <1>6, <1>9
  <2>4. D \subseteq DOMAIN file' /\ D \cap partial' = {}
    BY <1>3, <1>8, <1>9
  <2>5. \A x \in D : /\ x.kind # "ppe" => file'[x].of \subseteq file'[d].of
                     /\ x.kind \in DerivedKinds => file'[x].by = file'[d].by
    BY <1>6, <1>8, <1>9
  <2>6. QED
    BY <2>1, <2>2, <2>3, <2>4, <2>5 DEF DeliveryOK
<1>11. FileOK(d)'
  BY <1>2, <1>3, <1>6, <1>7, <1>10 DEF FileOK
<1>12. KeepsFirm /\ OnlyNewPartial /\ CompleteStays /\ OnlyNowComplete
  BY <1>3, <1>5, <1>6 DEF KeepsFirm, OnlyNewPartial, CompleteStays, OnlyNowComplete
<1>13. CountersOK' /\ ProcessesOK'
  BY <1>2, <1>3, <1>6 DEF CountersOK, ProcessesOK
<1>14. runner' \in Runners /\ RunnerOK'
  <2>1. \A x \in DOMAIN file' : x.kind = "delivery" =>
          (x \in DOMAIN file /\ Kept(x)) \/ x.video = runner.video
    BY <1>6, <1>7
  <2>2. QED
    BY <1>2, <1>3, <2>1, NextVideoFacts
<1>15. \A x \in DOMAIN file' : (x \in DOMAIN file /\ Kept(x)) \/ FileOK(x)'
  <2>1. ASSUME NEW x \in DOMAIN file', x = d PROVE FileOK(x)'
    BY <1>11, <2>1
  <2>2. QED
    BY <1>6, <2>1
<1>16. runs' >= runs
  BY <1>2, <1>3
<1>17. QED
  BY <1>12, <1>13, <1>14, <1>15, <1>16, PpeStepOf

-----------------------------------------------------------------------------
(* The invariant.                                                          *)

LEMMA PpeStarts == PpeSelectionInit => PpeInv
<1> SUFFICES ASSUME PpeSelectionInit PROVE PpeInv
  OBVIOUS
<1>1. runner = Asleep /\ runner \in Runners /\ runner.pc = "off" /\ runner.run = 0
      /\ runner.slug = Shared /\ runner.video \in PpeVideos
  BY AsleepFacts DEF PpeSelectionInit, Asleep, Runners
<1>2. DOMAIN file = {}
  BY DEF PpeSelectionInit
<1>3. /\ runs = 0 /\ runs \in 0 .. MaxRuns /\ runnerKills \in 0 .. MaxRunnerKills
      /\ runnerErrors \in 0 .. MaxRunnerErrors
  BY PpeNumbers DEF PpeSelectionInit
<1>4. \A r \in Slug \X PpeVideos : deepstream[r] = "none"
  BY DEF PpeSelectionInit
<1>5. PpeTypeOK
  BY <1>1, <1>2, <1>3 DEF PpeSelectionInit, PpeTypeOK
<1>6. RunnerOK /\ ProcessesOK
  BY <1>1 DEF PpeSelectionInit, RunnerOK, ProcessesOK
<1>7. \A s \in Slug, video \in PpeVideos : RootOK(s, video)
  BY <1>4 DEF RootOK
<1>8. QED
  BY <1>1, <1>2, <1>5, <1>6, <1>7 DEF PpeInv

LEMMA PpeStays == PpeInv /\ UNCHANGED ppeVars => PpeInv'
<1> SUFFICES ASSUME PpeInv, UNCHANGED ppeVars PROVE PpeInv'
  OBVIOUS
<1>1. QED
  BY PpeFacts, ProcessHolds DEF ppeVars, CountersOK

LEMMA PpeStep == PpeInv /\ [PpeSelectionNext]_ppeVars => PpeInv'
<1> SUFFICES ASSUME PpeInv, [PpeSelectionNext]_ppeVars PROVE PpeInv'
  OBVIOUS
<1>1. ASSUME NEW kind \in DetectorKinds, PersonStep(kind) PROVE PpeInv'
  BY <1>1, ResumePersonHolds, ClearPersonHolds, LaunchPersonHolds, ConvertPersonHolds,
     WriteManifestHolds DEF PersonStep
<1>2. ASSUME RunnerStep PROVE PpeInv'
  BY <1>1, <1>2, PersistPlanHolds, StopsHold, SkipDeliveredHolds, StartVideoHolds,
     ResumeDeepStreamHolds, StartDeepStreamHolds, ClearProfileHolds, BuildEngineHolds,
     EngineBuiltHolds, LaunchPpeHolds, ConvertPpeHolds, StartProfileHolds,
     DeriveEvidenceHolds, DeriveFusedHolds, DeriveEffectiveHolds, StartVideoFileHolds,
     VideoProbedHolds, DeliverHolds
     DEF RunnerStep, DetectorKinds
<1>3. ASSUME ProcessEnds \/ \E name \in busy : ContainerDies(name) PROVE PpeInv'
  BY <1>3, EndsHold DEF ProcessEnds
<1>4. QED
  BY <1>2, <1>3, StartHolds, RunnerFailsHolds, StopsHold, PpeStays DEF PpeSelectionNext

-----------------------------------------------------------------------------
(* What the invariant says of the PPE commands.                            *)

LEMMA PinnedVersions ==
  ASSUME PpeInv, NEW d \in Deliveries
  PROVE  /\ DeliveryOK(d) /\ PinnedPaths(d) = Pinned(d)
         /\ \A version \in file[d].of : version[1] \in Pinned(d) /\ version = Version(version[1])
<1>1. DeliveryOK(d)
  BY PpeFacts DEF Deliveries, FileOK
<1>2. file[d].of = {Version(x) : x \in Pinned(d)} /\ \A x : Version(x)[1] = x
  BY <1>1 DEF DeliveryOK, Version
<1>3. QED
  BY <1>1, <1>2 DEF PinnedPaths

LEMMA PpeSafe == PpeInv => PpeTypeOK /\ PpeRunIsSafe
<1> SUFFICES ASSUME PpeInv PROVE PpeTypeOK /\ PpeRunIsSafe
  OBVIOUS
<1>1. CompleteIsConverted
  BY PpeFacts DEF RootOK, CompleteIsConverted
<1>2. EnginesAreWhole
  BY PpeFacts DEF FileOK, EnginesAreWhole
<1>3. DeliveredIsWhole
  <2> SUFFICES ASSUME NEW d \in Deliveries
               PROVE  /\ \A version \in file[d].of :
                           Exists(version[1]) /\ file[version[1]].by = version[2]
                      /\ \A path \in PinnedPaths(d) :
                           path.kind # "ppe" => file[path].of \subseteq file[d].of
                      /\ PinnedPaths(d) \cap partial = {}
    BY DEF DeliveredIsWhole
  <2>1. /\ DeliveryOK(d) /\ PinnedPaths(d) = Pinned(d)
        /\ \A version \in file[d].of : version[1] \in Pinned(d) /\ version = Version(version[1])
    BY PinnedVersions
  <2>2. \A x : Version(x)[2] = file[x].by
    BY DEF Version
  <2>3. QED
    BY <2>1, <2>2 DEF DeliveryOK, Exists
<1>4. DeliveredByOneRun
  <2> SUFFICES ASSUME NEW d \in Deliveries, NEW path \in PinnedPaths(d),
                      path.kind \in DerivedKinds
               PROVE  file[path].by = file[d].by
    BY DEF DeliveredByOneRun
  <2>1. DeliveryOK(d) /\ path \in Pinned(d)
    BY PinnedVersions
  <2>2. QED
    BY <2>1 DEF DeliveryOK
<1>5. QED
  BY <1>1, <1>2, <1>3, <1>4 DEF PpeInv, PpeRunIsSafe

DerivedKept ==
  \A path \in DOMAIN file :
    path.kind \in DerivedKinds /\ file[path].by # runner.run =>
      path \in DOMAIN file' /\ file'[path] = file[path]

LEMMA DerivedStays == PpeInv /\ [PpeSelectionNext]_ppeVars => DerivedKept
<1> SUFFICES ASSUME PpeInv, [PpeSelectionNext]_ppeVars PROVE DerivedKept
  OBVIOUS
<1>0. ASSUME file' = file PROVE DerivedKept
  BY <1>0 DEF DerivedKept
<1>1. ASSUME NEW x, NEW S, Writes(x, S), x.kind \notin DerivedKinds \/ x \notin DOMAIN file
      PROVE  DerivedKept
  <2>1. \A y \in DOMAIN file : y # x => Kept(y)
    BY <1>1, WritesFacts
  <2>2. QED
    BY <1>1, <2>1 DEF DerivedKept, Kept
<1>2. ASSUME NEW x, Removes({x}), x.kind \notin DerivedKinds \/ file[x].by = runner.run
      PROVE  DerivedKept
  <2>1. \A y \in DOMAIN file : y # x => Kept(y)
    BY <1>2, RemovesFacts
  <2>2. QED
    BY <1>2, <2>1 DEF DerivedKept, Kept
<1>3. /\ \A kind : Here(kind).kind = kind
      /\ \A kind \in DetectorKinds : Manifest(kind).kind = ManifestOf(kind)
      /\ {"engine", "ppe", "person", "vehicle", "delivery"} \cap DerivedKinds = {}
      /\ \A kind \in DetectorKinds : ManifestOf(kind) \notin DerivedKinds
      /\ Engine.kind = "engine" /\ Delivery.kind = "delivery"
  <2>1. \A kind : Here(kind).kind = kind
    BY PathFields DEF Here
  <2>2. \A kind \in DetectorKinds : Manifest(kind).kind = ManifestOf(kind)
    BY <2>1 DEF Manifest
  <2>3. Engine.kind = "engine" /\ Delivery.kind = "delivery"
    BY PathFields DEF Engine, Delivery
  <2>4. {"engine", "ppe", "person", "vehicle", "delivery"} \cap DerivedKinds = {}
    BY DEF DerivedKinds
  <2>5. \A kind \in DetectorKinds : ManifestOf(kind) \notin DerivedKinds
    BY DEF DerivedKinds, DetectorKinds, ManifestOf
  <2>6. QED
    BY <2>1, <2>2, <2>3, <2>4, <2>5
<1>4. CASE ClearProfile
  BY <1>2, <1>3, <1>4 DEF ClearProfile
<1>5. CASE BuildEngine
  BY <1>1, <1>3, <1>5 DEF BuildEngine
<1>6. CASE ConvertPpe
  BY <1>1, <1>3, <1>6 DEF ConvertPpe
<1>7. ASSUME NEW kind \in DetectorKinds, PersonStep(kind) PROVE DerivedKept
  <2>1. CASE ClearPerson(kind)
    BY <1>2, <1>3, <2>1 DEF ClearPerson, DetectorKinds
  <2>2. CASE ConvertPerson(kind)
    BY <1>1, <1>3, <2>2 DEF ConvertPerson, DetectorKinds
  <2>3. CASE WriteManifest(kind)
    BY <1>1, <1>3, <2>3 DEF WriteManifest
  <2>4. QED
    BY <1>0, <1>7, <2>1, <2>2, <2>3 DEF PersonStep, ResumePerson, LaunchPerson
<1>8. ASSUME NEW step, NEW to, Derive(step, to) PROVE DerivedKept
  BY <1>1, <1>8 DEF Derive, Exists
<1>9. CASE Deliver
  BY <1>1, <1>3, <1>9 DEF Deliver
<1>10. CASE RunnerFails
  <2>1. CASE file' = file
    BY <1>0, <2>1
  <2>2. CASE runner.pc = "encode" /\ Removes({Common("video")})
    BY <1>2, <2>2, EncodedIsLoose
  <2>3. QED
    BY <1>10, <2>1, <2>2 DEF RunnerFails
<1>11. CASE RunnerStep
  BY <1>0, <1>4, <1>5, <1>6, <1>7, <1>8, <1>9, <1>11
     DEF RunnerStep, PersistPlan, RefuseDifferentPlan, SkipDelivered, StartVideo,
         ResumeDeepStream, RefuseDeepStream, StartDeepStream, EngineBuilt, LaunchPpe,
         StartProfile, DeriveEvidence, DeriveFused, DeriveEffective, StartVideoFile,
         VideoProbed, RefuseBlocked, DetectorKinds
<1>12. CASE UNCHANGED ppeVars
  BY <1>0, <1>12 DEF ppeVars
<1>13. QED
  BY <1>0, <1>10, <1>11, <1>12
     DEF PpeSelectionNext, StartRunner, ForceDeepStream, Starts, KillRunner, ProcessEnds,
         ContainerEnds, ContainerDies, EncodingEnds

-----------------------------------------------------------------------------
(* The batch commands together.                                            *)

BatchInv == SelectionInv /\ PpeInv

LEMMA BatchStep == BatchInv /\ [BatchNext]_batchVars => BatchInv'
<1>1. BatchInv /\ [BatchNext]_batchVars => SelectionInv'
  BY SelectionStep DEF BatchInv, BatchNext, batchVars
<1>2. BatchInv /\ [BatchNext]_batchVars => PpeInv'
  BY PpeStep DEF BatchInv, BatchNext, batchVars
<1>3. QED
  BY <1>1, <1>2 DEF BatchInv

\* The strengthened invariants of the selection worker and of the PPE commands hold
\* throughout every run of the batch commands.
THEOREM BatchInvariance == BatchSpec => []BatchInv
<1>1. BatchInit => BatchInv
  BY SelectionStarts, PpeStarts DEF BatchInit, BatchInv
<1>2. QED
  BY <1>1, BatchStep, PTL DEF BatchSpec

\* Type correctness of both commands: what they keep in memory and what the files may
\* hold together.
THEOREM BatchTypesAreCorrect == BatchSpec => []BatchTypeOK
<1>1. BatchInv => BatchTypeOK
  BY SelectionSafe, PpeSafe DEF BatchInv, BatchTypeOK
<1>2. QED
  BY <1>1, BatchInvariance, PTL

\* Execution status, receipts, the plan and the published videos of a selection agree
\* (execute of process_selection.py): the status file is the lock owner's, a published
\* video shows what the inference manifest pins, one plan made all the receipts and a
\* complete row has its video, for any number of workers, jobs, kills and failures.
THEOREM SelectionsAreSafe == BatchSpec => []SelectionIsSafe
<1>1. BatchInv => SelectionIsSafe
  BY SelectionSafe DEF BatchInv
<1>2. QED
  BY <1>1, BatchInvariance, PTL

\* A complete run root has the predictions of one run for every profile, none of them
\* comes from an engine that was cut short, and a delivery manifest pins whole files that
\* one run derived from one another (execute_plan of process_ppe_selection.py and of
\* run_ppe_deepstream.py), for any number of profiles, videos, runs and kills.
THEOREM PpeRunsAreSafe == BatchSpec => []PpeRunIsSafe
<1>1. BatchInv => PpeRunIsSafe
  BY PpeSafe DEF BatchInv
<1>2. QED
  BY <1>1, BatchInvariance, PTL

\* No execution replaces an inference receipt (_write_inference_manifest) or the
\* predictions that it pins, and no run of the PPE commands a file that another run
\* derived (the refusals of the writers of content/).
THEOREM BatchStepsAreFinal == BatchSpec => BatchStepsHold
<1>1. BatchInv /\ [BatchNext]_batchVars => [ReceiptsKept]_selectionVars
  BY ReceiptsStay DEF BatchInv, BatchNext, batchVars
<1>2. BatchInv /\ [BatchNext]_batchVars => [DerivedKept]_ppeVars
  BY DerivedStays DEF BatchInv, BatchNext, batchVars
<1>3. BatchSpec => ReceiptIsFinal
  BY <1>1, BatchInvariance, PTL DEF BatchSpec, ReceiptIsFinal, ReceiptsKept
<1>4. BatchSpec => WriteOnce
  BY <1>2, BatchInvariance, PTL DEF BatchSpec, WriteOnce, DerivedKept
<1>5. QED
  BY <1>3, <1>4 DEF BatchStepsHold

=============================================================================
