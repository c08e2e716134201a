------------------------- MODULE SubmissionPipeline -------------------------
(***************************************************************************)
(* From finalize to verdict.  The web app's finalize route creates a Run   *)
(* row and enqueues a submission_run job; BullMQ workers execute the job,  *)
(* write the Run, grade the submission and publish the grade on the        *)
(* StageAttempt; the runner may call back about the same Run; the learner  *)
(* may delete the submission at any moment.  Each database call is a step  *)
(* of its own, because no transaction spans two of them.                   *)
(***************************************************************************)
EXTENDS Naturals

CONSTANTS
    Submission,   \* uploaded submissions, each with its StageAttempt
    Finalize,     \* finalize requests; the Run row and job of a request carry its name
    Worker,       \* BullMQ worker processes (concurrency 1 each)
    Callback,     \* runner callback requests
    Executable,   \* submissions of known stages whose runnerMode is not "none"
    Graded,       \* submissions the workers grade: their stage has a rubric and the
                  \* workers were started with a grader (without one, this is {})
    Outcome,      \* what the runner executor may report
    GraderResult, \* what the grader may answer: verdicts, or "refused"
    RunnerBody,   \* bodies the runner may post to the callback route
    MaxStalls,    \* BullMQ maxStalledCount
    MaxFaults,    \* bound on the faults of each kind
    None          \* SQL NULL

Terminal == {"ok", "timeout", "oom", "crash", "exit_nonzero"}
RunStatus == {"queued", "running"} \cup Terminal
Verdict == {"passed", "failed"}
FaultKind == {"crash", "lock", "db", "broker"}
Body == [status: RunStatus, exec: RunStatus \cup {None}, metrics: BOOLEAN, grade: BOOLEAN]

ASSUME PipelineAssumption ==
    /\ Executable \subseteq Submission
    /\ Graded \subseteq Submission
    /\ Outcome \subseteq Terminal
    /\ GraderResult \subseteq Verdict \cup {"refused"}
    /\ RunnerBody \subseteq Body
    /\ MaxStalls \in Nat
    /\ MaxFaults \in [FaultKind -> Nat]
    /\ None \notin Submission \cup Finalize \cup Worker \cup RunStatus \cup Verdict
    /\ None \notin {"worker", "runner"}

VARIABLES
    live,     \* submissions whose row exists
    attempt,  \* StageAttempt row: executionStatus, gradeId set, passed
    grade,    \* Grade row of (submission, rubric, evaluator); linked: submissionId not nulled
    run,      \* Run row of a finalize request
    job,      \* BullMQ job of a finalize request; owner holds its lock
    fin,      \* finalize request in flight; blind: its read of the stage failed
    worker,   \* worker process: program counter and locals
    cb,       \* callback request in flight
    broker,   \* Redis reachable
    faults    \* faults so far, by kind

vars == <<live, attempt, grade, run, job, fin, worker, cb, broker, faults>>

Absent == [status |-> "absent", mode |-> "none", started |-> None,
           finished |-> FALSE, metrics |-> {}]
Idle == [pc |-> "idle", job |-> None, exec |-> None, verdict |-> None]

\* The rows and records of each variable.
AttemptRow == [exec: RunStatus \cup {None}, grade: BOOLEAN, passed: Verdict \cup {None}]
GradeRow == [verdict: Verdict \cup {None}, linked: BOOLEAN]
RunRow == [status: RunStatus \cup {"absent"}, mode: {"none", "exec"},
           started: {"worker", "runner", None}, finished: BOOLEAN,
           metrics: SUBSET {"worker", "runner"}]
Job == [state: {"none", "waiting", "active", "completed", "failed"},
        owner: Worker \cup {None}, stalls: Nat]
Request == [pc: {"new", "create", "enqueue", "done", "deferred"},
            sub: Submission \cup {None}, mode: {"none", "exec"}, blind: BOOLEAN, row: BOOLEAN]
WorkerPc == {"idle", "mark", "load", "failrun", "dispatch", "record", "mirror", "grade",
             "insert", "publish", "return", "throw"}
Process == [pc: WorkerPc, job: Finalize \cup {None}, exec: Terminal \cup {None},
            verdict: Verdict \cup {None}]
CallbackRequest == [pc: {"new", "write", "mirror", "done"}, run: Finalize \cup {None},
                    body: Body \cup {None}, base: SUBSET {"worker", "runner"}, fresh: BOOLEAN]

TypeOK ==
    /\ live \subseteq Submission
    /\ attempt \in [Submission -> AttemptRow]
    /\ grade \in [Submission -> GradeRow]
    /\ run \in [Finalize -> RunRow]
    /\ job \in [Finalize -> Job]
    /\ fin \in [Finalize -> Request]
    /\ worker \in [Worker -> Process]
    /\ cb \in [Callback -> CallbackRequest]
    /\ broker \in BOOLEAN
    /\ faults \in [FaultKind -> Nat]

Init ==
    /\ live = Submission
    /\ attempt = [s \in Submission |-> [exec |-> None, grade |-> FALSE, passed |-> None]]
    /\ grade = [s \in Submission |-> [verdict |-> None, linked |-> FALSE]]
    /\ run = [f \in Finalize |-> Absent]
    /\ job = [f \in Finalize |-> [state |-> "none", owner |-> None, stalls |-> 0]]
    /\ fin = [f \in Finalize |-> [pc |-> "new", sub |-> None, mode |-> "none",
                                  blind |-> FALSE, row |-> FALSE]]
    /\ worker = [w \in Worker |-> Idle]
    /\ cb = [c \in Callback |-> [pc |-> "new", run |-> None, body |-> None,
                                 base |-> {}, fresh |-> FALSE]]
    /\ broker = TRUE
    /\ faults = [k \in FaultKind |-> 0]

\* A fault of kind k happens now, within its budget.
Fault(k) ==
    /\ faults[k] < MaxFaults[k]
    /\ faults' = [faults EXCEPT ![k] = @ + 1]

----------------------------------------------------------------------------
(* POST /api/submissions/[id]/finalize.  A request refused for access or   *)
(* integrity, or whose submission cannot be read, changes nothing here.    *)

\* Mutant: the stage is never consulted.
StageModeIgnored(s) == "none"
StageMode(s) == IF s \in Executable THEN "exec" ELSE "none"

\* Load the submission, then the stage's runnerMode: "none" if that read fails.
FinalizeLoad(f) ==
    /\ fin[f].pc = "new"
    /\ \E s \in live, blind \in BOOLEAN :
        /\ fin' = [fin EXCEPT ![f].pc = "create", ![f].sub = s, ![f].blind = blind,
                              ![f].mode = IF blind THEN "none" ELSE StageMode(s)]
        /\ IF blind THEN Fault("db") ELSE UNCHANGED faults
    /\ UNCHANGED <<live, attempt, grade, run, job, worker, cb, broker>>

NewRun(f) == [Absent EXCEPT !.status = "queued", !.mode = fin[f].mode]

\* run.create.  When it fails the request goes on under a made-up run id (row
\* FALSE); a create that timed out may have committed all the same.
FinalizeCreate(f) ==
    /\ fin[f].pc = "create"
    /\ \/ /\ fin[f].sub \in live
          /\ run' = [run EXCEPT ![f] = NewRun(f)]
          /\ fin' = [fin EXCEPT ![f].pc = "enqueue", ![f].row = TRUE]
          /\ UNCHANGED faults
       \/ /\ fin[f].sub \notin live
          /\ fin' = [fin EXCEPT ![f].pc = "enqueue"]
          /\ UNCHANGED <<run, faults>>
       \/ /\ Fault("db")
          /\ fin[f].sub \in live
          /\ run' \in {run, [run EXCEPT ![f] = NewRun(f)]}
          /\ fin' = [fin EXCEPT ![f].pc = "enqueue"]
    /\ UNCHANGED <<live, attempt, grade, job, worker, cb, broker>>

\* queue.add under jobId = runId, or, with the broker away, only a flag in the
\* answer: queueDeferred.
FinalizeEnqueue(f) ==
    /\ fin[f].pc = "enqueue"
    /\ \/ /\ broker
          /\ job' = [job EXCEPT ![f].state = "waiting"]
          /\ fin' = [fin EXCEPT ![f].pc = "done"]
       \/ /\ ~broker
          /\ fin' = [fin EXCEPT ![f].pc = "deferred"]
          /\ UNCHANGED job
    /\ UNCHANGED <<live, attempt, grade, run, worker, cb, broker, faults>>

----------------------------------------------------------------------------
(* runSubmissionRunInner, one step per awaited call.                       *)

\* The job of worker w, the submission it is about, and a step of w to pc.
JobOf(w) == worker[w].job
SubOf(w) == fin[JobOf(w)].sub
At(w, pc) == worker[w].pc = pc
Goto(w, pc) == worker' = [worker EXCEPT ![w].pc = pc]

\* The row an update of the job's run id would hit.
HasRow(f) == fin[f].row /\ run[f].status # "absent"

Take(w) ==
    /\ broker
    /\ At(w, "idle")
    /\ \E f \in Finalize :
        /\ job[f].state = "waiting"
        /\ job' = [job EXCEPT ![f].state = "active", ![f].owner = w]
        /\ worker' = [worker EXCEPT ![w] = [Idle EXCEPT !.pc = "mark", !.job = f]]
    /\ UNCHANGED <<live, attempt, grade, run, fin, cb, broker, faults>>

\* The update of the job's Run row; Prisma throws when there is no such row.
UpdateRun(w, row, next) ==
    \/ HasRow(JobOf(w)) /\ run' = [run EXCEPT ![JobOf(w)] = row] /\ Goto(w, next)
    \/ ~HasRow(JobOf(w)) /\ Goto(w, "throw") /\ UNCHANGED run

MarkRunning(w) ==
    /\ At(w, "mark")
    /\ UpdateRun(w, [run[JobOf(w)] EXCEPT !.status = "running", !.mode = fin[JobOf(w)].mode,
                                          !.started = "worker"], "load")
    /\ UNCHANGED <<live, attempt, grade, job, fin, cb, broker, faults>>

LoadSubmission(w) ==
    /\ At(w, "load")
    /\ Goto(w, IF SubOf(w) \in live THEN "dispatch" ELSE "failrun")
    /\ UNCHANGED <<live, attempt, grade, run, job, fin, cb, broker, faults>>

FailRun(w) ==
    /\ At(w, "failrun")
    /\ UpdateRun(w, [run[JobOf(w)] EXCEPT !.status = "crash", !.finished = TRUE], "return")
    /\ UNCHANGED <<live, attempt, grade, job, fin, cb, broker, faults>>

\* The executor: mode "none" is ok at once; an exception in it is a "crash".
Dispatch(w) ==
    /\ At(w, "dispatch")
    /\ \E out \in IF fin[JobOf(w)].mode = "none" THEN {"ok"} ELSE Outcome \cup {"crash"} :
        worker' = [worker EXCEPT ![w].pc = "record", ![w].exec = out]
    /\ UNCHANGED <<live, attempt, grade, run, job, fin, cb, broker, faults>>

\* The final Run update replaces metricsJson and stamps finishedAt.
RecordedRun(w) ==
    [run[JobOf(w)] EXCEPT !.status = worker[w].exec, !.metrics = {"worker"}, !.finished = TRUE]

RecordRun(w) ==
    /\ At(w, "record")
    /\ UpdateRun(w, RecordedRun(w), "mirror")
    /\ UNCHANGED <<live, attempt, grade, job, fin, cb, broker, faults>>

\* Mutant: an attempt that was executed before is not graded again.
WillGradeOnce(w) ==
    worker[w].exec = "ok" /\ SubOf(w) \in Graded /\ attempt[SubOf(w)].exec = None
WillGrade(w) == worker[w].exec = "ok" /\ SubOf(w) \in Graded

MirrorExecution(w) ==
    /\ At(w, "mirror")
    /\ attempt' = [attempt EXCEPT ![SubOf(w)].exec = worker[w].exec]
    /\ Goto(w, IF WillGrade(w) THEN "grade" ELSE "return")
    /\ UNCHANGED <<live, grade, run, job, fin, cb, broker, faults>>

\* A refusal is an exception, not a verdict.
Accepted == GraderResult \ {"refused"}

\* gradeAttempt up to the insert: reuse the grade under this key, or evaluate.
Evaluate(w) ==
    /\ At(w, "grade")
    /\ \/ /\ grade[SubOf(w)].linked
          /\ worker' = [worker EXCEPT ![w].pc = "publish",
                                       ![w].verdict = grade[SubOf(w)].verdict]
       \/ /\ ~grade[SubOf(w)].linked
          /\ \E v \in Accepted :
               worker' = [worker EXCEPT ![w].pc = "insert", ![w].verdict = v]
       \/ /\ ~grade[SubOf(w)].linked
          /\ "refused" \in GraderResult
          /\ Goto(w, "throw")
    /\ UNCHANGED <<live, attempt, grade, run, job, fin, cb, broker, faults>>

\* Mutants: no foreign key; no unique index.
MayInsertDangling(s) == ~grade[s].linked
MayInsertTwice(s) == s \in live
\* The unique index on the key and the foreign key to the submission.
MayInsertGrade(s) == s \in live /\ ~grade[s].linked

\* store.insert: the loser of a race gets P2002, which nobody catches.
InsertGrade(w) ==
    /\ At(w, "insert")
    /\ \/ /\ MayInsertGrade(SubOf(w))
          /\ grade' = [grade EXCEPT ![SubOf(w)] = [verdict |-> worker[w].verdict,
                                                   linked |-> TRUE]]
          /\ Goto(w, "publish")
       \/ ~MayInsertGrade(SubOf(w)) /\ Goto(w, "throw") /\ UNCHANGED grade
    /\ UNCHANGED <<live, attempt, run, job, fin, cb, broker, faults>>

PublishGrade(w) ==
    /\ At(w, "publish")
    /\ attempt' = [attempt EXCEPT ![SubOf(w)].grade = TRUE,
                                  ![SubOf(w)].passed = worker[w].verdict]
    /\ Goto(w, "return")
    /\ UNCHANGED <<live, grade, run, job, fin, cb, broker, faults>>

\* Mutant: the processor swallows what is thrown.
SettledAlways(w) == "completed"
\* What the queue is told about the job: a throw fails it.
SettledState(w) == IF At(w, "return") THEN "completed" ELSE "failed"

\* BullMQ settles the job for the holder of its lock and ignores anyone else.
\* attempts = 1: a throw is final.
Settle(w) ==
    /\ broker
    /\ worker[w].pc \in {"return", "throw"}
    /\ \/ /\ job[JobOf(w)].owner = w
          /\ job' = [job EXCEPT ![JobOf(w)].owner = None, ![JobOf(w)].state = SettledState(w)]
       \/ job[JobOf(w)].owner # w /\ UNCHANGED job
    /\ worker' = [worker EXCEPT ![w] = Idle]
    /\ UNCHANGED <<live, attempt, grade, run, fin, cb, broker, faults>>

WorkerStep(w) ==
    \/ MarkRunning(w) \/ LoadSubmission(w) \/ FailRun(w) \/ Dispatch(w) \/ RecordRun(w)
    \/ MirrorExecution(w) \/ Evaluate(w) \/ InsertGrade(w) \/ PublishGrade(w) \/ Settle(w)

----------------------------------------------------------------------------
(* BullMQ's lock and stalled-job check, and the faults of the environment. *)

\* Mutant: a lock without expiry.
UnlockNever(w) == job
Unlock(w) == [f \in Finalize |-> IF job[f].owner = w THEN [job[f] EXCEPT !.owner = None]
                                                     ELSE job[f]]

\* The process dies (and is restarted); its lock expires.
WorkerCrash(w) ==
    /\ Fault("crash")
    /\ ~At(w, "idle")
    /\ worker' = [worker EXCEPT ![w] = Idle]
    /\ job' = Unlock(w)
    /\ UNCHANGED <<live, attempt, grade, run, fin, cb, broker>>

\* The lock expires under a worker that is slow but alive and goes on.
LockLost(w) ==
    /\ Fault("lock")
    /\ ~At(w, "idle")
    /\ job[JobOf(w)].owner = w
    /\ job' = Unlock(w)
    /\ UNCHANGED <<live, attempt, grade, run, fin, worker, cb, broker>>

StallLimitReached(f) == job[f].stalls >= MaxStalls

\* An active job without a lock is queued again, or failed at the stall limit.
StalledCheck(f) ==
    /\ broker
    /\ job[f].state = "active"
    /\ job[f].owner = None
    /\ \/ /\ StallLimitReached(f)
          /\ job' = [job EXCEPT ![f].state = "failed"]
       \/ /\ ~StallLimitReached(f)
          /\ job' = [job EXCEPT ![f].state = "waiting", ![f].stalls = @ + 1]
    /\ UNCHANGED <<live, attempt, grade, run, fin, worker, cb, broker, faults>>

\* A database call of a worker throws; nothing above it catches.
WorkerDbFault(w) ==
    /\ Fault("db")
    /\ worker[w].pc \in {"mark", "load", "failrun", "dispatch", "record", "mirror", "grade",
                         "insert", "publish"}
    /\ Goto(w, "throw")
    /\ UNCHANGED <<live, attempt, grade, run, job, fin, cb, broker>>

BrokerDown ==
    /\ Fault("broker")
    /\ broker
    /\ broker' = FALSE
    /\ UNCHANGED <<live, attempt, grade, run, job, fin, worker, cb>>

BrokerUp ==
    /\ ~broker
    /\ broker' = TRUE
    /\ UNCHANGED <<live, attempt, grade, run, job, fin, worker, cb, faults>>

----------------------------------------------------------------------------
(* POST /api/runs/[id]/callback and DELETE /api/submissions/[id].          *)

\* The route reads the run: its metrics, and whether startedAt is null.  The
\* runner knows of a run from its job, and of a grade once there is one.
CallbackRead(c) ==
    /\ cb[c].pc = "new"
    /\ \E f \in Finalize, body \in RunnerBody :
        /\ HasRow(f)
        /\ job[f].state # "none"
        /\ body.grade => grade[fin[f].sub].linked
        /\ cb' = [cb EXCEPT ![c] = [pc |-> "write", run |-> f, body |-> body,
                                    base |-> run[f].metrics,
                                    fresh |-> run[f].started = None]]
    /\ UNCHANGED <<live, attempt, grade, run, job, fin, worker, broker, faults>>

\* Mutant: startedAt is left to the worker.
CalledBackUnstarted(c) ==
    LET b == cb[c].body
        old == run[cb[c].run]
    IN  [old EXCEPT !.status = b.status, !.finished = @ \/ b.status \in Terminal,
                    !.metrics = IF b.metrics THEN cb[c].base \cup {"runner"} ELSE @]
\* The row after the update, computed from what the read returned.
CalledBackRun(c) ==
    LET b == cb[c].body
        old == run[cb[c].run]
    IN  [old EXCEPT !.status = b.status,
                    !.started = IF cb[c].fresh THEN "runner" ELSE @,
                    !.finished = @ \/ b.status \in Terminal,
                    !.metrics = IF b.metrics THEN cb[c].base \cup {"runner"} ELSE @]

\* The update (500 when the row is gone or the database fails).
CallbackWrite(c) ==
    /\ cb[c].pc = "write"
    /\ \/ /\ run[cb[c].run].status # "absent"
          /\ run' = [run EXCEPT ![cb[c].run] = CalledBackRun(c)]
          /\ cb' = [cb EXCEPT ![c].pc = "mirror"]
          /\ UNCHANGED faults
       \/ /\ run[cb[c].run].status = "absent"
          /\ cb' = [cb EXCEPT ![c].pc = "done"]
          /\ UNCHANGED <<run, faults>>
       \/ /\ Fault("db")
          /\ cb' = [cb EXCEPT ![c].pc = "done"]
          /\ UNCHANGED run
    /\ UNCHANGED <<live, attempt, grade, job, fin, worker, broker>>

\* The best-effort mirror on the StageAttempt, which survives the submission.
CallbackMirror(c) ==
    /\ cb[c].pc = "mirror"
    /\ cb' = [cb EXCEPT ![c].pc = "done"]
    /\ LET b == cb[c].body
           s == fin[cb[c].run].sub
       IN  \/ /\ attempt' = [attempt EXCEPT ![s].exec = IF b.exec = None THEN @ ELSE b.exec,
                                         ![s].grade = @ \/ b.grade]
              /\ UNCHANGED faults
           \/ Fault("db") /\ UNCHANGED attempt
    /\ UNCHANGED <<live, grade, run, job, fin, worker, broker>>

CallbackStep(c) == CallbackWrite(c) \/ CallbackMirror(c)

\* The rows the transaction removes: the submission's runs.
RunsAfterDelete(s) ==
    [f \in Finalize |-> IF fin[f].sub = s THEN Absent ELSE run[f]]

\* The transaction at the end of the route; onDelete: SetNull unlinks the grade.
Delete(s) ==
    /\ s \in live
    /\ live' = live \ {s}
    /\ run' = RunsAfterDelete(s)
    /\ grade' = [grade EXCEPT ![s].linked = FALSE]
    /\ UNCHANGED <<attempt, job, fin, worker, cb, broker, faults>>

----------------------------------------------------------------------------
Next ==
    \/ \E f \in Finalize :
         FinalizeLoad(f) \/ FinalizeCreate(f) \/ FinalizeEnqueue(f) \/ StalledCheck(f)
    \/ \E w \in Worker :
         Take(w) \/ WorkerStep(w) \/ WorkerCrash(w) \/ LockLost(w) \/ WorkerDbFault(w)
    \/ \E c \in Callback : CallbackRead(c) \/ CallbackStep(c)
    \/ \E s \in Submission : Delete(s)
    \/ BrokerDown
    \/ BrokerUp

Spec == Init /\ [][Next]_vars

\* Requests under way, live workers, BullMQ's timers and the broker's operator
\* make progress.  Nobody has to finalize, call back or delete.
Fairness ==
    /\ WF_vars(BrokerUp)
    /\ \A f \in Finalize : /\ WF_vars(FinalizeCreate(f))
                           /\ WF_vars(FinalizeEnqueue(f))
                           /\ WF_vars(StalledCheck(f))
    /\ \A w \in Worker : WF_vars(Take(w)) /\ WF_vars(WorkerStep(w))
    /\ \A c \in Callback : WF_vars(CallbackStep(c))

FairSpec == Spec /\ Fairness

----------------------------------------------------------------------------
(* Properties. *)

\* The branch of the worker that turns a missing submission into a crashed run
\* finds no run to update: deleting the submission took its runs along.
FailRunNeverLands == \A w \in Worker : At(w, "failrun") => ~HasRow(JobOf(w))

\* A grade that still belongs to a submission was earned by a run of that
\* submission which finished, whatever the races of worker, callback and delete.
GradeHasFinishedRun ==
    \A s \in Submission : grade[s].linked =>
        \E f \in Finalize : fin[f].sub = s /\ run[f].status # "absent" /\ run[f].finished

\* A request took the stage of submission s for one that runs nothing, because
\* it could not read it.
TakenBlind(s) == \E f \in Finalize : fin[f].sub = s /\ fin[f].blind

\* A grade of an executable stage was earned by a run that executed the code.
\* A failed read of the stage is the one exception: no other database error,
\* redelivery, second request or callback lets a submission be graded unrun.
GradeHasExecutedRun ==
    \A s \in Executable : grade[s].linked /\ ~TakenBlind(s) =>
        \E f \in Finalize : /\ fin[f].sub = s
                            /\ run[f].status # "absent"
                            /\ run[f].finished
                            /\ run[f].mode = "exec"

\* A run whose status is terminal has both its timestamps, even when the worker
\* and the runner's callback write it in turn.
TerminalRunIsStamped ==
    \A f \in Finalize : run[f].status \in Terminal => run[f].started # None /\ run[f].finished

\* A job the queue counts as completed left a finished run and an attempt that
\* shows how it went, or its submission is gone.
CompletedJobIsSettled ==
    \A f \in Finalize : job[f].state = "completed" /\ fin[f].sub \in live =>
        run[f].status # "absent" /\ run[f].finished /\ attempt[fin[f].sub].exec # None

\* Verdicts are written once and published as written: a redelivered job or a
\* second run of the submission neither changes nor contradicts the first grade.
Verdicts == INSTANCE WriteOnceVerdict WITH
    Attempt <- Submission,
    decided <- [s \in Submission |-> grade[s].verdict],
    published <- [s \in Submission |-> attempt[s].passed]

ImplementsWriteOnceVerdict == Verdicts!Spec

\* Every job that reaches the queue is settled.
JobSettles ==
    \A f \in Finalize : job[f].state = "waiting" ~> job[f].state \in {"completed", "failed"}

\* The runner reported run f as running.  The route takes such a report
\* whenever it comes, after the run has ended too.
ReportedRunning(f) ==
    \E c \in Callback : /\ cb[c].pc \in {"mirror", "done"}
                        /\ cb[c].run = f
                        /\ cb[c].body.status = "running"


\* Every grade of a stage that runs nothing is published on its attempt, or
\* loses its submission first.
GradePublished ==
    \A s \in Submission \ Executable :
        grade[s].linked ~> (~grade[s].linked \/ attempt[s].passed # None)

----------------------------------------------------------------------------
(* The inductive invariant behind the safety properties.                   *)

\* A request's run and job appear in order, and a run never outlives its
\* submission.
FinalizeInv ==
    \A f \in Finalize :
        /\ fin[f].pc # "new" => fin[f].sub \in Submission
        /\ fin[f].pc \in {"new", "create"} => run[f].status = "absent"
        /\ fin[f].pc # "done" => job[f].state = "none"
        /\ run[f].status # "absent" => fin[f].sub \in live

\* What a worker at each program counter may still rely on.
WorkerKnows(w) ==
    /\ ~At(w, "idle") => JobOf(w) \in Finalize /\ job[JobOf(w)].state # "none"
    /\ worker[w].pc \in {"load", "failrun", "dispatch", "record"} =>
         (run[JobOf(w)].status # "absent" => run[JobOf(w)].started # None)
    /\ At(w, "failrun") => SubOf(w) \notin live
    /\ worker[w].pc \in {"record", "mirror"} => worker[w].exec # None
    /\ worker[w].pc \in {"mirror", "grade", "insert", "publish", "return"} =>
         (SubOf(w) \in live => run[JobOf(w)].status # "absent" /\ run[JobOf(w)].finished)
    /\ worker[w].pc \in {"grade", "insert", "publish", "return"} =>
         (SubOf(w) \in live => attempt[SubOf(w)].exec # None)
    /\ At(w, "insert") => worker[w].verdict # None
    /\ At(w, "publish") =>
         worker[w].verdict # None /\ worker[w].verdict = grade[SubOf(w)].verdict

WorkerInv == \A w \in Worker : WorkerKnows(w)

\* Grades: linked exactly while decided and the submission exists; earned by a
\* finished run; published as recorded.
GradeInv ==
    /\ \A s \in Submission :
         /\ grade[s].linked => s \in live /\ grade[s].verdict # None
         /\ s \in live /\ grade[s].verdict # None => grade[s].linked
         /\ attempt[s].passed # None => attempt[s].passed = grade[s].verdict
    /\ GradeHasFinishedRun

\* A callback between its read and its mirror is about a run that has a job,
\* and leaves startedAt alone only where it is set.
CallbackKnows(c) ==
    /\ cb[c].pc \in {"write", "mirror"} =>
         cb[c].run \in Finalize /\ job[cb[c].run].state # "none" /\ cb[c].body \in Body
    /\ cb[c].pc = "write" /\ ~cb[c].fresh =>
         (run[cb[c].run].status # "absent" => run[cb[c].run].started # None)

CallbackInv == \A c \in Callback : CallbackKnows(c)

PipelineInv ==
    /\ FinalizeInv
    /\ WorkerInv
    /\ GradeInv
    /\ CallbackInv
    /\ TerminalRunIsStamped
    /\ CompletedJobIsSettled

=============================================================================
