----------------------------- MODULE SmokeRuns -----------------------------
(***************************************************************************)
(* validation/ds9_gpu_smoke.py inside the smoke container and on the host  *)
(* after it: the worker runs DeepStream with the CUDA parser and with the  *)
(* CPU parser, samples the file descriptors of each process while it runs, *)
(* and leaves raw evidence; the host replays that evidence and decides the *)
(* checks without trusting what the worker concluded.                      *)
(*                                                                         *)
(* One model profile stands for the two; a detection is a place, and two   *)
(* detections agree within Tolerance.                                      *)
(***************************************************************************)
EXTENDS Naturals, Sequences, FiniteSets

CONSTANTS
  Device,        \* REQUIRED_NVIDIA_FD_PATTERNS, one device each
  MaxFdSamples,  \* bound: samples of one process
  Tolerance,     \* the parity tolerances
  Spot           \* bound: where the detections of a run may be, at most two

ASSUME SmokeAssumption ==
  /\ IsFiniteSet(Device) /\ Device # {}
  /\ MaxFdSamples \in Nat \ {0} /\ Tolerance \in Nat /\ Spot \subseteq Nat

VARIABLES
  worker,   \* where the worker is
  app,      \* the DeepStream process that runs
  runData,  \* the evidence of the run that is sampled, as the worker keeps it
  raw,      \* the raw evidence of the finished runs
  verdict   \* what the host's replay says of it

smokeVars == <<worker, app, runData, raw, verdict>>

\* RUN_IDS of one profile, in the order they run.
RunIds == <<"cuda", "cpu">>

Detections == UNION {[1 .. n -> Spot] : n \in 0 .. 2}

-----------------------------------------------------------------------------
(* The application                                                         *)

\* What deepstream-app may do with the parser: the marker is written by the process that
\* launched the kernel, which may be a child of the one that was started.
NoApp == [state |-> "none", fds |-> {}, code |-> 0, marker |-> "none", log |-> "clean"]

\* It opens the devices, then tears down and exits.
AppOpens ==
  /\ app.state = "running"
  /\ \E d \in Device \ app.fds : app' = [app EXCEPT !.fds = @ \cup {d}]
  /\ UNCHANGED <<worker, runData, raw, verdict>>

AppTearsDown ==
  /\ app.state = "running" /\ app' = [app EXCEPT !.state = "exiting", !.fds = {}]
  /\ UNCHANGED <<worker, runData, raw, verdict>>

AppExits ==
  /\ app.state = "exiting"
  /\ \E code \in {0, 1} : app' = [app EXCEPT !.state = "exited", !.code = code]
  /\ UNCHANGED <<worker, runData, raw, verdict>>

-----------------------------------------------------------------------------
(* The worker: _inside_container                                           *)

NoRunData == [samples |-> <<>>, errors |-> 0, terminal |-> 0]

SmokeInit ==
  /\ worker = [run |-> 1, pc |-> "start"]
  /\ app = NoApp /\ runData = NoRunData /\ raw = <<>> /\ verdict = "none"

\* Popen of the next run, with an empty KITTI directory and no marker.
StartRun ==
  /\ worker.pc = "start" /\ worker.run \in DOMAIN RunIds
  /\ worker' = [worker EXCEPT !.pc = "poll"]
  /\ \E m \in IF RunIds[worker.run] = "cuda" THEN {"none", "own", "child"} ELSE {"none", "own"},
        l \in {"clean", "fallback"} :
       app' = [NoApp EXCEPT !.state = "running", !.marker = m, !.log = l]
  /\ runData' = NoRunData
  /\ UNCHANGED <<raw, verdict>>

\* _nvidia_fd_sample: the devices that are open, and an error of one descriptor
\* ("entry") or of /proc/<pid>/fd itself ("root"); a process that tears down shows
\* nothing, or refuses.
Sampled ==
  IF app.state = "running"
    THEN {[fds |-> S, error |-> e] : S \in {app.fds}, e \in {"none", "entry"}}
           \cup {[fds |-> {}, error |-> "root"]}
    ELSE {[fds |-> {}, error |-> e] : e \in {"none", "root"}}

Observed(samples) == UNION {samples[i].fds : i \in DOMAIN samples}

\* Mutant: one descriptor that cannot be read counts as the teardown.
AnyErrorTearsDown(sample) ==
  /\ sample.error # "none" /\ runData.errors = 0
  /\ Device \subseteq Observed(runData.samples)

\* _terminal_fd_error_candidate: the first error, at the root, after every required device
\* was seen.
TerminalCandidate(sample) ==
  /\ sample.error = "root" /\ runData.errors = 0
  /\ Device \subseteq Observed(runData.samples)

\* The process runs: it is sampled once more.
SampleFds ==
  /\ worker.pc = "poll" /\ app.state # "exited" /\ Len(runData.samples) < MaxFdSamples
  /\ \E sample \in Sampled :
       /\ runData' = [runData EXCEPT
            !.samples = Append(@, sample),
            !.errors = IF sample.error = "none" \/ TerminalCandidate(sample)
                         THEN @ ELSE @ + 1]
       /\ worker' = [worker EXCEPT !.pc =
            IF sample.error = "none" THEN "poll"
            ELSE IF TerminalCandidate(sample) THEN "grace" ELSE "wait"]
  /\ UNCHANGED <<app, raw, verdict>>

\* _observe_process_exit_within_terminal_grace: the exit is seen in time, and with code 0
\* it is the terminal evidence; with another one the error counts after all.
ExitInGrace ==
  /\ worker.pc = "grace" /\ app.state = "exited"
  /\ runData' = IF app.code = 0
                  THEN [runData EXCEPT !.terminal = Len(runData.samples)]
                  ELSE [runData EXCEPT !.errors = @ + 1]
  /\ worker' = [worker EXCEPT !.pc = "wait"]
  /\ UNCHANGED <<app, raw, verdict>>

\* The grace ends without an exit that the worker saw.
GraceEnds ==
  /\ worker.pc = "grace"
  /\ runData' = [runData EXCEPT !.errors = @ + 1]
  /\ worker' = [worker EXCEPT !.pc = "wait"]
  /\ UNCHANGED <<app, raw, verdict>>

\* _validate_gpu_fd_run_evidence, on the host, recomputes what the samples allow: every
\* required device seen, and either no error or one that ends the samples and is the
\* terminal one.
Errors(samples) == {i \in DOMAIN samples : samples[i].error # "none"}

TerminalAccepted(data) ==
  /\ data.terminal # 0
  /\ Errors(data.samples) = {data.terminal} /\ data.terminal = Len(data.samples)
  /\ data.samples[data.terminal].error = "root"
  /\ Device \subseteq Observed(SubSeq(data.samples, 1, data.terminal - 1))

FdEvidencePasses(data) ==
  /\ data.samples # <<>> /\ Device \subseteq Observed(data.samples)
  /\ (Errors(data.samples) = {} /\ data.terminal = 0) \/ TerminalAccepted(data)
  /\ data.errors = IF data.terminal # 0 THEN 0 ELSE Cardinality(Errors(data.samples))

\* The process has ended: the run fails on its exit code and on a marker that is missing
\* after CUDA or present after CPU, else its evidence is kept and the next run starts.
\* Nothing changes that evidence any more: what the host will find in its samples is kept
\* in their place.
MarkerAsExpected ==
  IF RunIds[worker.run] = "cuda" THEN app.marker # "none" ELSE app.marker = "none"

Reap ==
  /\ worker.pc \in {"poll", "wait"} /\ app.state = "exited"
  /\ IF app.code # 0 \/ ~MarkerAsExpected
       THEN /\ worker' = [worker EXCEPT !.pc = "failed"]
            /\ UNCHANGED raw
       ELSE /\ \E out \in Detections :
                 raw' = Append(raw, [fd |-> FdEvidencePasses(runData), marker |-> app.marker,
                                     log |-> app.log, kitti |-> out])
            /\ worker' = [run |-> worker.run + 1,
                          pc |-> IF worker.run = Len(RunIds) THEN "written" ELSE "start"]
  /\ app' = NoApp /\ runData' = NoRunData
  /\ UNCHANGED verdict

-----------------------------------------------------------------------------
(* The host: replay_raw_session                                            *)

Far(a, b) == IF a < b THEN b - a ELSE a - b

\* _parity on one frame: each CPU detection takes the closest CUDA detection that is left.
TakeClosest(left, item, other) ==
  LET near == {i \in left : Far(item, other[i]) <= Tolerance}
  IN  IF near = {} THEN {0}
      ELSE left \ {CHOOSE i \in near :
             \A j \in near : \/ Far(item, other[i]) < Far(item, other[j])
                             \/ Far(item, other[i]) = Far(item, other[j]) /\ i <= j}

\* Mutant: a CUDA detection may answer for several CPU detections.
EachHasOne(cpu, cuda) ==
  /\ cpu # <<>> /\ Len(cpu) = Len(cuda)
  /\ \A i \in DOMAIN cpu : \E j \in DOMAIN cuda : Far(cpu[i], cuda[j]) <= Tolerance

\* available after the first CPU detections; 0 where one of them found none.
Available(cpu, cuda) ==
  LET available[n \in 0 .. Len(cpu)] ==
        IF n = 0 THEN DOMAIN cuda
        ELSE IF 0 \in available[n - 1] THEN available[n - 1]
        ELSE TakeClosest(available[n - 1], cpu[n], cuda)
  IN available

Parity(cpu, cuda) ==
  cpu # <<>> /\ Len(cpu) = Len(cuda) /\ Available(cpu, cuda)[Len(cpu)] = {}

\* The checks of a replay: _validate_kernel_marker raises on a marker of another process,
\* the log shows the engine deserialized, the descriptors and the parity pass.
ReplayRaw ==
  /\ worker.pc = "written" /\ verdict = "none"
  /\ LET cuda == raw[1]  cpu == raw[2]
     IN  verdict' = IF cuda.marker # "own" THEN "refused"
                    ELSE IF /\ \A run \in {cuda, cpu} :
                                 run.log = "clean" /\ run.fd
                            /\ Parity(cpu.kitti, cuda.kitti)
                      THEN "pass" ELSE "fail"
  /\ UNCHANGED <<worker, app, runData, raw>>

SmokeNext ==
  \/ AppOpens \/ AppTearsDown \/ AppExits
  \/ StartRun \/ SampleFds \/ ExitInGrace \/ GraceEnds \/ Reap
  \/ ReplayRaw

SmokeSpec == SmokeInit /\ [][SmokeNext]_smokeVars

-----------------------------------------------------------------------------
(* Properties                                                              *)

\* Worker and host read the same samples alike: where the worker kept no error and saw
\* every device, the host's own reading passes, and nowhere else.
WorkerAndHostAgree ==
  worker.pc \in {"poll", "wait"} /\ app.state = "exited" =>
    (FdEvidencePasses(runData) <=>
       runData.errors = 0 /\ Device \subseteq Observed(runData.samples))

\* A passing replay shows a CUDA run that launched its kernel itself, a CPU run that did
\* not, and outputs that a one-to-one matching within the tolerance explains.
PassIsEarned ==
  verdict = "pass" =>
    /\ raw[1].marker = "own" /\ raw[2].marker = "none"
    /\ \E match \in [DOMAIN raw[2].kitti -> DOMAIN raw[1].kitti] :
         /\ \A i \in DOMAIN match : Far(raw[2].kitti[i], raw[1].kitti[match[i]]) <= Tolerance
         /\ \A i, j \in DOMAIN match : match[i] = match[j] => i = j
         /\ \A k \in DOMAIN raw[1].kitti : \E i \in DOMAIN match : match[i] = k

\* Two parsers that wrote the same detections, in whatever order, are not told apart.
SameOutputPasses ==
  \A i, j \in DOMAIN raw :
    /\ raw[i].kitti # <<>> /\ Len(raw[i].kitti) = Len(raw[j].kitti)
    /\ \A x \in Spot :
         Cardinality({k \in DOMAIN raw[i].kitti : raw[i].kitti[k] = x})
           = Cardinality({k \in DOMAIN raw[j].kitti : raw[j].kitti[k] = x})
    => Parity(raw[i].kitti, raw[j].kitti)

SmokeIsSound == WorkerAndHostAgree /\ PassIsEarned /\ SameOutputPasses
=============================================================================
