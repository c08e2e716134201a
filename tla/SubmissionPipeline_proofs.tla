---------------------- MODULE SubmissionPipeline_proofs ----------------------
(***************************************************************************)
(* Proofs about SubmissionPipeline, for any number of submissions,         *)
(* requests, workers and callbacks and for any fault budget.               *)
(***************************************************************************)
EXTENDS SubmissionPipeline, TLAPS

(***************************************************************************)
(* Type correctness.                                                       *)
(***************************************************************************)

\* Counting a fault keeps the fault counters natural numbers.
LEMMA FaultType ==
    ASSUME TypeOK, NEW k \in FaultKind, Fault(k)
    PROVE  faults' \in [FaultKind -> Nat]
BY DEF TypeOK, Fault

\* A worker that moves on stays a process.
LEMMA GotoType ==
    ASSUME TypeOK, NEW w \in Worker, NEW pc \in WorkerPc, Goto(w, pc)
    PROVE  worker' \in [Worker -> Process]
BY DEF TypeOK, Process, Goto

\* A worker's update of a Run row keeps rows and processes typed.
LEMMA UpdateRunType ==
    ASSUME TypeOK, NEW w \in Worker, JobOf(w) \in Finalize,
           NEW row \in RunRow, NEW next \in WorkerPc, UpdateRun(w, row, next)
    PROVE  run' \in [Finalize -> RunRow] /\ worker' \in [Worker -> Process]
<1>1. worker' \in [Worker -> Process]
  BY GotoType DEF UpdateRun, WorkerPc
<1>2. run' \in [Finalize -> RunRow]
  BY DEF UpdateRun, TypeOK
<1> QED
  BY <1>1, <1>2

\* The rows of Run that the steps write.
LEMMA RunRowType ==
    ASSUME NEW r \in RunRow
    PROVE  /\ Absent \in RunRow
           /\ \A m \in {"none", "exec"} :
                /\ [Absent EXCEPT !.status = "queued", !.mode = m] \in RunRow
                /\ [r EXCEPT !.status = "running", !.mode = m, !.started = "worker"] \in RunRow
           /\ [r EXCEPT !.status = "crash", !.finished = TRUE] \in RunRow
           /\ \A e \in Terminal :
                [r EXCEPT !.status = e, !.metrics = {"worker"}, !.finished = TRUE] \in RunRow
BY DEF RunRow, Absent, RunStatus, Terminal

\* The initial state is well typed.
LEMMA InitType == Init => TypeOK
BY DEF Init, TypeOK, Absent, Idle, AttemptRow, GradeRow, RunRow, Job, Request, Process,
       CallbackRequest, WorkerPc

\* Steps of the finalize route and the stalled check are well typed.
LEMMA FinalizeType ==
    ASSUME TypeOK, NEW f \in Finalize,
           FinalizeLoad(f) \/ FinalizeCreate(f) \/ FinalizeEnqueue(f) \/ StalledCheck(f)
    PROVE  TypeOK'
<1>1. CASE FinalizeLoad(f)
  <2> PICK s \in live, blind \in BOOLEAN, mode \in {"none", "exec"} :
        /\ fin' = [fin EXCEPT ![f].pc = "create", ![f].sub = s, ![f].blind = blind,
                              ![f].mode = mode]
        /\ UNCHANGED faults \/ Fault("db")
    BY <1>1 DEF FinalizeLoad, StageMode
  <2>1. s \in Submission
    BY DEF TypeOK
  <2>2. fin' \in [Finalize -> Request]
    <3>1. fin[f] \in Request /\ fin \in [Finalize -> Request]
      BY DEF TypeOK
    <3>2. [fin[f] EXCEPT !.pc = "create", !.sub = s, !.blind = blind, !.mode = mode] \in Request
      BY <2>1, <3>1 DEF Request
    <3> QED
      BY <3>1, <3>2
  <2>3. faults' \in [FaultKind -> Nat]
    BY FaultType DEF TypeOK, FaultKind
  <2> QED
    BY <1>1, <2>2, <2>3 DEF FinalizeLoad, TypeOK
<1>2. CASE FinalizeCreate(f)
  <2>1. NewRun(f) \in RunRow
    BY RunRowType DEF NewRun, TypeOK, Request
  <2>2. run' = run \/ run' = [run EXCEPT ![f] = NewRun(f)]
    BY <1>2 DEF FinalizeCreate
  <2>3. run' \in [Finalize -> RunRow]
    BY <2>1, <2>2 DEF TypeOK
  <2>4. fin' \in [Finalize -> Request]
    BY <1>2, SMTT(90) DEF FinalizeCreate, TypeOK, Request
  <2>5. faults' \in [FaultKind -> Nat]
    BY <1>2, FaultType DEF FinalizeCreate, TypeOK, FaultKind
  <2> QED
    BY <1>2, <2>3, <2>4, <2>5 DEF FinalizeCreate, TypeOK
<1>3. CASE FinalizeEnqueue(f)
  <2>1. fin' \in [Finalize -> Request]
    <3>1. fin \in [Finalize -> Request]
      BY DEF TypeOK
    <3>2. \/ fin' = [fin EXCEPT ![f].pc = "done"]
          \/ fin' = [fin EXCEPT ![f].pc = "deferred"]
      BY <1>3 DEF FinalizeEnqueue
    <3> QED
      BY <3>1, <3>2 DEF Request
  <2>2. job' \in [Finalize -> Job]
    BY <1>3 DEF FinalizeEnqueue, TypeOK, Job
  <2> QED
    BY <1>3, <2>1, <2>2 DEF FinalizeEnqueue, TypeOK
<1>4. CASE StalledCheck(f)
  <2>1. job' \in [Finalize -> Job]
    BY <1>4 DEF StalledCheck, TypeOK, Job
  <2> QED
    BY <1>4, <2>1 DEF StalledCheck, TypeOK
<1> QED
  BY <1>1, <1>2, <1>3, <1>4

\* Steps of a worker process, and the faults it meets, are well typed.
LEMMA WorkerType ==
    ASSUME TypeOK, FinalizeInv, WorkerInv, NEW w \in Worker,
           Take(w) \/ WorkerStep(w) \/ WorkerCrash(w) \/ LockLost(w) \/ WorkerDbFault(w)
    PROVE  TypeOK'
<1> DEFINE f == JobOf(w)
           s == SubOf(w)
<1>0. ~At(w, "idle") =>
        /\ f \in Finalize /\ run[f] \in RunRow /\ fin[f].mode \in {"none", "exec"}
        /\ s \in Submission
  <2> SUFFICES ASSUME ~At(w, "idle")
               PROVE  /\ f \in Finalize /\ run[f] \in RunRow /\ fin[f].mode \in {"none", "exec"}
                      /\ s \in Submission
    OBVIOUS
  <2>1. f \in Finalize /\ job[f].state # "none"
    BY DEF WorkerInv, WorkerKnows
  <2>2. fin[f].pc = "done" /\ fin[f].sub \in Submission
    BY <2>1 DEF FinalizeInv
  <2> QED
    BY <2>1, <2>2 DEF SubOf, TypeOK, Request
<1>1. CASE Take(w)
  <2> PICK g \in Finalize :
        /\ job' = [job EXCEPT ![g].state = "active", ![g].owner = w]
        /\ worker' = [worker EXCEPT ![w] = [Idle EXCEPT !.pc = "mark", !.job = g]]
    BY <1>1 DEF Take
  <2>1. job' \in [Finalize -> Job]
    BY DEF TypeOK, Job
  <2>2. worker' \in [Worker -> Process]
    BY DEF TypeOK, Process, Idle, WorkerPc
  <2> QED
    BY <1>1, <2>1, <2>2 DEF Take, TypeOK
<1>2. CASE MarkRunning(w)
  <2>1. [run[f] EXCEPT !.status = "running", !.mode = fin[f].mode, !.started = "worker"]
          \in RunRow
    BY <1>0, <1>2, RunRowType DEF MarkRunning, At
  <2>2. run' \in [Finalize -> RunRow] /\ worker' \in [Worker -> Process]
    BY <1>0, <1>2, <2>1, UpdateRunType DEF MarkRunning, At, WorkerPc
  <2> QED
    BY <1>2, <2>2 DEF MarkRunning, TypeOK
<1>3. CASE LoadSubmission(w)
  <2>1. worker' \in [Worker -> Process]
    BY <1>3, GotoType DEF LoadSubmission, WorkerPc
  <2> QED
    BY <1>3, <2>1 DEF LoadSubmission, TypeOK
<1>4. CASE FailRun(w)
  <2>1. [run[f] EXCEPT !.status = "crash", !.finished = TRUE] \in RunRow
    BY <1>0, <1>4, RunRowType DEF FailRun, At
  <2>2. run' \in [Finalize -> RunRow] /\ worker' \in [Worker -> Process]
    BY <1>0, <1>4, <2>1, UpdateRunType DEF FailRun, At, WorkerPc
  <2> QED
    BY <1>4, <2>2 DEF FailRun, TypeOK
<1>5. CASE Dispatch(w)
  <2> PICK out \in Terminal : worker' = [worker EXCEPT ![w].pc = "record", ![w].exec = out]
    BY <1>5, PipelineAssumption DEF Dispatch, Terminal
  <2>1. [worker[w] EXCEPT !.pc = "record", !.exec = out] \in Process
    <3>1. worker[w] \in Process
      BY DEF TypeOK
    <3> QED
      BY <3>1 DEF Process, WorkerPc
  <2>2. worker' = [worker EXCEPT ![w] = [worker[w] EXCEPT !.pc = "record", !.exec = out]]
    OBVIOUS
  <2>3. worker' \in [Worker -> Process]
    <3>1. worker \in [Worker -> Process]
      BY DEF TypeOK
    <3> QED
      BY <2>1, <2>2, <3>1
  <2> QED
    BY <1>5, <2>3 DEF Dispatch, TypeOK
<1>6. CASE RecordRun(w)
  <2>1. worker[w].exec \in Terminal
    BY <1>6 DEF RecordRun, At, WorkerInv, WorkerKnows, TypeOK, Process
  <2>2. RecordedRun(w) \in RunRow
    BY <1>0, <1>6, <2>1, RunRowType DEF RecordRun, RecordedRun, At
  <2>3. run' \in [Finalize -> RunRow] /\ worker' \in [Worker -> Process]
    BY <1>0, <1>6, <2>2, UpdateRunType DEF RecordRun, At, WorkerPc
  <2> QED
    BY <1>6, <2>3 DEF RecordRun, TypeOK
<1>7. CASE MirrorExecution(w)
  <2>1. worker[w].exec \in RunStatus \cup {None} /\ s \in Submission
    BY <1>0, <1>7 DEF MirrorExecution, At, TypeOK, Process, RunStatus
  <2>2. attempt' \in [Submission -> AttemptRow]
    BY <1>7, <2>1 DEF MirrorExecution, TypeOK, AttemptRow
  <2>3. worker' \in [Worker -> Process]
    BY <1>7, GotoType DEF MirrorExecution, WorkerPc
  <2> QED
    BY <1>7, <2>2, <2>3 DEF MirrorExecution, TypeOK
<1>8. CASE Evaluate(w)
  <2>1. s \in Submission
    BY <1>0, <1>8 DEF Evaluate, At
  <2>2. worker' \in [Worker -> Process]
    BY <1>8, <2>1, PipelineAssumption, SMTT(60)
       DEF Evaluate, Goto, Accepted, TypeOK, GradeRow, Process, WorkerPc
  <2> QED
    BY <1>8, <2>2 DEF Evaluate, TypeOK
<1>9. CASE InsertGrade(w)
  <2>1. s \in Submission /\ worker[w].verdict \in Verdict \cup {None}
    BY <1>0, <1>9 DEF InsertGrade, At, TypeOK, Process
  <2>2. grade' \in [Submission -> GradeRow]
    <3>1. [verdict |-> worker[w].verdict, linked |-> TRUE] \in GradeRow
      BY <2>1 DEF GradeRow
    <3> QED
      BY <1>9, <2>1, <3>1 DEF InsertGrade, TypeOK
  <2>3. worker' \in [Worker -> Process]
    BY <1>9, GotoType DEF InsertGrade, WorkerPc
  <2> QED
    BY <1>9, <2>2, <2>3 DEF InsertGrade, TypeOK
<1>10. CASE PublishGrade(w)
  <2>1. s \in Submission /\ worker[w].verdict \in Verdict \cup {None}
    BY <1>0, <1>10 DEF PublishGrade, At, TypeOK, Process
  <2>2. attempt' \in [Submission -> AttemptRow]
    BY <1>10, <2>1 DEF PublishGrade, TypeOK, AttemptRow
  <2>3. worker' \in [Worker -> Process]
    BY <1>10, GotoType DEF PublishGrade, WorkerPc
  <2> QED
    BY <1>10, <2>2, <2>3 DEF PublishGrade, TypeOK
<1>11. CASE Settle(w)
  <2>1. job' \in [Finalize -> Job]
    BY <1>11 DEF Settle, SettledState, TypeOK, Job
  <2>2. worker' \in [Worker -> Process]
    BY <1>11 DEF Settle, TypeOK, Idle, Process, WorkerPc
  <2> QED
    BY <1>11, <2>1, <2>2 DEF Settle, TypeOK
<1>12. Unlock(w) \in [Finalize -> Job]
  BY DEF Unlock, TypeOK, Job
<1>13. CASE WorkerCrash(w)
  <2>1. worker' \in [Worker -> Process]
    BY <1>13 DEF WorkerCrash, TypeOK, Idle, Process, WorkerPc
  <2> QED
    BY <1>12, <1>13, <2>1, FaultType DEF WorkerCrash, TypeOK, FaultKind
<1>14. CASE LockLost(w)
  BY <1>12, <1>14, FaultType DEF LockLost, TypeOK, FaultKind
<1>15. CASE WorkerDbFault(w)
  <2>1. worker' \in [Worker -> Process]
    BY <1>15, GotoType DEF WorkerDbFault, WorkerPc
  <2> QED
    BY <1>15, <2>1, FaultType DEF WorkerDbFault, TypeOK, FaultKind
<1> QED
  BY <1>1, <1>2, <1>3, <1>4, <1>5, <1>6, <1>7, <1>8, <1>9, <1>10, <1>11, <1>13, <1>14, <1>15
     DEF WorkerStep

\* Steps of the callback route are well typed.
LEMMA CallbackType ==
    ASSUME TypeOK, FinalizeInv, CallbackInv, NEW c \in Callback,
           CallbackRead(c) \/ CallbackStep(c)
    PROVE  TypeOK'
<1>1. CASE CallbackRead(c)
  <2> PICK f \in Finalize, body \in RunnerBody :
        cb' = [cb EXCEPT ![c] = [pc |-> "write", run |-> f, body |-> body,
                                 base |-> run[f].metrics, fresh |-> run[f].started = None]]
    BY <1>1 DEF CallbackRead
  <2>1. body \in Body /\ run[f].metrics \in SUBSET {"worker", "runner"}
    BY PipelineAssumption DEF TypeOK, RunRow
  <2>2. [pc |-> "write", run |-> f, body |-> body, base |-> run[f].metrics,
         fresh |-> run[f].started = None] \in CallbackRequest
    BY <2>1 DEF CallbackRequest
  <2>3. cb' \in [Callback -> CallbackRequest]
    BY <2>2 DEF TypeOK
  <2> QED
    BY <1>1, <2>3 DEF CallbackRead, TypeOK
<1>2. CASE CallbackWrite(c)
  <2>1. cb[c] \in CallbackRequest /\ cb[c].run \in Finalize /\ cb[c].body \in Body
    BY <1>2 DEF CallbackWrite, TypeOK, CallbackInv, CallbackKnows
  <2> DEFINE b == cb[c].body
             old == run[cb[c].run]
  <2>2. b.status \in RunStatus /\ old \in RunRow
    BY <2>1 DEF TypeOK, Body
  <2>3. cb[c].base \in SUBSET {"worker", "runner"}
    BY <2>1 DEF CallbackRequest
  <2>4. \A st \in {"worker", "runner", None}, fi \in BOOLEAN,
           me \in SUBSET {"worker", "runner"} :
          [old EXCEPT !.status = b.status, !.started = st, !.finished = fi, !.metrics = me]
            \in RunRow
    BY <2>2 DEF RunRow
  <2>5. /\ old.started \in {"worker", "runner", None}
        /\ old.finished \in BOOLEAN
        /\ old.metrics \in SUBSET {"worker", "runner"}
    BY <2>2 DEF RunRow
  <2>6. CalledBackRun(c) \in RunRow
    BY <2>2, <2>3, <2>4, <2>5, ZenonT(60) DEF CalledBackRun
  <2>7. run' = run \/ run' = [run EXCEPT ![cb[c].run] = CalledBackRun(c)]
    BY <1>2 DEF CallbackWrite
  <2>8. run' \in [Finalize -> RunRow]
    BY <2>1, <2>6, <2>7 DEF TypeOK
  <2>9. cb' \in [Callback -> CallbackRequest]
    BY <1>2 DEF CallbackWrite, TypeOK, CallbackRequest
  <2> QED
    BY <1>2, <2>8, <2>9, FaultType DEF CallbackWrite, TypeOK, FaultKind
<1>3. CASE CallbackMirror(c)
  <2> DEFINE s == fin[cb[c].run].sub
             b == cb[c].body
  <2>1. cb[c].run \in Finalize /\ job[cb[c].run].state # "none" /\ b \in Body
    BY <1>3 DEF CallbackMirror, CallbackInv, CallbackKnows
  <2>2. s \in Submission
    BY <2>1 DEF FinalizeInv
  <2>3. attempt[s] \in AttemptRow
    BY <2>2 DEF TypeOK
  <2>4. \A e \in RunStatus \cup {None}, g \in BOOLEAN :
          [attempt[s] EXCEPT !.exec = e, !.grade = g] \in AttemptRow
    BY <2>3 DEF AttemptRow
  <2>5. [attempt[s] EXCEPT !.exec = IF b.exec = None THEN @ ELSE b.exec,
                           !.grade = @ \/ b.grade] \in AttemptRow
    <3>1. (IF b.exec = None THEN attempt[s].exec ELSE b.exec) \in RunStatus \cup {None}
      BY <2>1, <2>3 DEF AttemptRow, Body
    <3>2. (attempt[s].grade \/ b.grade) \in BOOLEAN
      OBVIOUS
    <3> QED
      BY <2>4, <3>1, <3>2
  <2>6. attempt' = attempt \/ attempt' = [attempt EXCEPT
          ![s].exec = IF b.exec = None THEN @ ELSE b.exec, ![s].grade = @ \/ b.grade]
    BY <1>3 DEF CallbackMirror
  <2>7. attempt' \in [Submission -> AttemptRow]
    <3> DEFINE row == [attempt[s] EXCEPT !.exec = IF b.exec = None THEN @ ELSE b.exec,
                                         !.grade = @ \/ b.grade]
    <3>1. attempt \in [Submission -> AttemptRow]
      BY DEF TypeOK
    <3>2. attempt' = attempt \/ attempt' = [attempt EXCEPT ![s] = row]
      BY <2>6
    <3>3. row \in AttemptRow
      BY <2>5
    <3> HIDE DEF row
    <3> QED
      BY <2>2, <3>1, <3>2, <3>3
  <2>8. cb' \in [Callback -> CallbackRequest]
    <3>1. cb \in [Callback -> CallbackRequest] /\ cb' = [cb EXCEPT ![c].pc = "done"]
      BY <1>3 DEF CallbackMirror, TypeOK
    <3> QED
      BY <3>1 DEF CallbackRequest
  <2> QED
    BY <1>3, <2>7, <2>8, FaultType DEF CallbackMirror, TypeOK, FaultKind
<1> QED
  BY <1>1, <1>2, <1>3 DEF CallbackStep

\* Deletions and broker outages are well typed.
LEMMA OtherType ==
    ASSUME TypeOK, (\E s \in Submission : Delete(s)) \/ BrokerDown \/ BrokerUp
    PROVE  TypeOK'
<1>1. ASSUME NEW s \in Submission, Delete(s) PROVE TypeOK'
  <2>1. run' \in [Finalize -> RunRow]
    BY <1>1, RunRowType DEF Delete, RunsAfterDelete, TypeOK
  <2>2. grade' \in [Submission -> GradeRow]
    BY <1>1 DEF Delete, TypeOK, GradeRow
  <2> QED
    BY <1>1, <2>1, <2>2 DEF Delete, TypeOK
<1>2. CASE BrokerDown
  BY <1>2, FaultType DEF BrokerDown, TypeOK, FaultKind
<1>3. CASE BrokerUp
  BY <1>3 DEF BrokerUp, TypeOK
<1> QED
  BY <1>1, <1>2, <1>3

\* Every step is well typed.
LEMMA NextType ==
    ASSUME TypeOK, FinalizeInv, WorkerInv, CallbackInv, [Next]_vars
    PROVE  TypeOK'
<1>1. CASE UNCHANGED vars
  BY <1>1 DEF vars, TypeOK
<1>2. CASE Next
  BY <1>2, FinalizeType, WorkerType, CallbackType, OtherType DEF Next
<1> QED
  BY <1>1, <1>2

(***************************************************************************)
(* What no step takes back.  Rows and jobs are shared by actors that do    *)
(* not wait for each other; these facts carry what one of them relies on   *)
(* through the steps of the others.                                        *)
(***************************************************************************)

\* A job stays a job, and the request it came from is over.
JobKept ==
    \A f \in Finalize : job[f].state # "none" => job'[f].state # "none" /\ fin'[f] = fin[f]

\* A run keeps its timestamps while it exists, exists while its submission
\* does, belongs to one submission, and does not come back.
RunKept ==
    \A f \in Finalize :
        /\ run[f].status # "absent" /\ run'[f].status # "absent" =>
             /\ run[f].started # None => run'[f].started # None
             /\ run[f].finished => run'[f].finished
        /\ run[f].status # "absent" /\ fin[f].sub \in live' => run'[f].status # "absent"
        /\ run[f].status # "absent" => fin'[f].sub = fin[f].sub
        /\ job[f].state # "none" /\ run[f].status = "absent" => run'[f].status = "absent"

\* Submissions are only deleted; what is known of an attempt stays known, and a
\* verdict stays as it is.
RowsKept ==
    /\ live' \subseteq live
    /\ \A s \in Submission :
         /\ attempt[s].exec # None => attempt'[s].exec # None
         /\ grade[s].verdict # None => grade'[s].verdict = grade[s].verdict

\* Steps of the finalize route and the stalled check take nothing back.
LEMMA FinalizeKeeps ==
    ASSUME TypeOK, PipelineInv, NEW f \in Finalize,
           FinalizeLoad(f) \/ FinalizeCreate(f) \/ FinalizeEnqueue(f) \/ StalledCheck(f)
    PROVE  JobKept /\ RunKept /\ RowsKept
<1>0. /\ job[f].state # "none" => fin[f].pc = "done"
      /\ fin[f].pc \in {"new", "create"} => run[f].status = "absent"
  BY DEF PipelineInv, FinalizeInv
<1>1. CASE FinalizeLoad(f)
  <2>1. JobKept
    BY <1>0, <1>1 DEF FinalizeLoad, JobKept, TypeOK
  <2>2. RunKept
    BY <1>0, <1>1 DEF FinalizeLoad, RunKept, TypeOK
  <2> QED
    BY <1>1, <2>1, <2>2 DEF FinalizeLoad, RowsKept
<1>2. CASE FinalizeCreate(f)
  <2>1. JobKept
    BY <1>0, <1>2 DEF FinalizeCreate, JobKept, TypeOK
  <2>2. run' = run \/ run' = [run EXCEPT ![f] = NewRun(f)]
    BY <1>2 DEF FinalizeCreate
  <2>3. NewRun(f).status = "queued"
    BY DEF NewRun, Absent
  <2>4. fin[f].pc = "create" /\ live' = live
    BY <1>2 DEF FinalizeCreate
  <2>5. \A g \in Finalize : fin'[g].sub = fin[g].sub
    BY <1>2, SMTT(30) DEF FinalizeCreate, TypeOK, Request
  <2>6. RunKept
    BY <1>0, <2>2, <2>3, <2>4, <2>5 DEF RunKept, TypeOK
  <2> QED
    BY <1>2, <2>1, <2>6 DEF FinalizeCreate, RowsKept
<1>3. CASE FinalizeEnqueue(f)
  <2>1. JobKept
    BY <1>0, <1>3 DEF FinalizeEnqueue, JobKept, TypeOK, Job
  <2>2. \A g \in Finalize : fin'[g].sub = fin[g].sub
    BY <1>3 DEF FinalizeEnqueue, TypeOK, Request
  <2> QED
    BY <1>3, <2>1, <2>2 DEF FinalizeEnqueue, RunKept, RowsKept
<1>4. CASE StalledCheck(f)
  <2>1. JobKept
    BY <1>4 DEF StalledCheck, JobKept, TypeOK, Job
  <2> QED
    BY <1>4, <2>1 DEF StalledCheck, RunKept, RowsKept
<1> QED
  BY <1>1, <1>2, <1>3, <1>4

\* A worker's update of a Run row takes nothing back if the row does not.
LEMMA UpdateRunKeeps ==
    ASSUME TypeOK, NEW w \in Worker, JobOf(w) \in Finalize, NEW row \in RunRow, NEW next,
           UpdateRun(w, row, next), live' = live, fin' = fin, row.status # "absent",
           run[JobOf(w)].status # "absent" /\ run[JobOf(w)].started # None => row.started # None,
           run[JobOf(w)].finished => row.finished
    PROVE  RunKept
<1>1. \/ run' = run
      \/ run[JobOf(w)].status # "absent" /\ run' = [run EXCEPT ![JobOf(w)] = row]
  BY DEF UpdateRun, HasRow
<1> QED
  BY <1>1 DEF RunKept, TypeOK

\* The job of a busy worker has a request that is over.
LEMMA BusyWorker ==
    ASSUME TypeOK, FinalizeInv, WorkerInv, NEW w \in Worker, ~At(w, "idle")
    PROVE  /\ JobOf(w) \in Finalize /\ job[JobOf(w)].state # "none"
           /\ fin[JobOf(w)].pc = "done" /\ SubOf(w) \in Submission
           /\ run[JobOf(w)] \in RunRow /\ fin[JobOf(w)].mode \in {"none", "exec"}
<1>1. JobOf(w) \in Finalize /\ job[JobOf(w)].state # "none"
  BY DEF WorkerInv, WorkerKnows
<1>2. fin[JobOf(w)].pc = "done" /\ fin[JobOf(w)].sub \in Submission
  BY <1>1 DEF FinalizeInv
<1> QED
  BY <1>1, <1>2 DEF SubOf, TypeOK, Request

\* Steps of a worker, and the faults it meets, take nothing back.
LEMMA WorkerKeeps ==
    ASSUME TypeOK, PipelineInv, NEW w \in Worker,
           Take(w) \/ WorkerStep(w) \/ WorkerCrash(w) \/ LockLost(w) \/ WorkerDbFault(w)
    PROVE  JobKept /\ RunKept /\ RowsKept
<1> DEFINE f == JobOf(w)
<1>0. ~At(w, "idle") => f \in Finalize /\ run[f] \in RunRow /\ fin[f].mode \in {"none", "exec"}
                        /\ SubOf(w) \in Submission
  BY BusyWorker DEF PipelineInv
<1>1. CASE Take(w)
  <2>1. JobKept
    <3> PICK g \in Finalize : job' = [job EXCEPT ![g].state = "active", ![g].owner = w]
      BY <1>1 DEF Take
    <3>1. job \in [Finalize -> Job]
      BY DEF TypeOK
    <3>2. \A h \in Finalize : job'[h].state \in {"active", job[h].state}
      BY <3>1 DEF Job
    <3>3. fin' = fin
      BY <1>1 DEF Take
    <3> QED
      BY <3>2, <3>3 DEF JobKept
  <2> QED
    BY <1>1, <2>1 DEF Take, RunKept, RowsKept
<1>2. CASE MarkRunning(w)
  <2> DEFINE row == [run[f] EXCEPT !.status = "running", !.mode = fin[f].mode,
                                   !.started = "worker"]
  <2>1. f \in Finalize /\ row \in RunRow
    BY <1>0, <1>2, RunRowType DEF MarkRunning, At
  <2>2. row.status = "running" /\ row.started = "worker" /\ row.finished = run[f].finished
    BY <1>0, <1>2 DEF RunRow, MarkRunning, At
  <2>3. RunKept
    BY <1>2, <2>1, <2>2, UpdateRunKeeps, PipelineAssumption DEF MarkRunning
  <2> QED
    BY <1>2, <2>3 DEF MarkRunning, JobKept, RowsKept
<1>3. CASE LoadSubmission(w)
  BY <1>3 DEF LoadSubmission, JobKept, RunKept, RowsKept
<1>4. CASE FailRun(w)
  <2> DEFINE row == [run[f] EXCEPT !.status = "crash", !.finished = TRUE]
  <2>1. f \in Finalize /\ row \in RunRow
    BY <1>0, <1>4, RunRowType DEF FailRun, At
  <2>2. row.status = "crash" /\ row.started = run[f].started /\ row.finished = TRUE
    BY <1>0, <1>4 DEF RunRow, FailRun, At
  <2>3. RunKept
    BY <1>4, <2>1, <2>2, UpdateRunKeeps DEF FailRun
  <2> QED
    BY <1>4, <2>3 DEF FailRun, JobKept, RowsKept
<1>5. CASE Dispatch(w)
  BY <1>5 DEF Dispatch, JobKept, RunKept, RowsKept
<1>6. CASE RecordRun(w)
  <2>1. worker[w].exec \in Terminal
    BY <1>6 DEF RecordRun, At, PipelineInv, WorkerInv, WorkerKnows, TypeOK, Process
  <2>2. f \in Finalize /\ RecordedRun(w) \in RunRow
    BY <1>0, <1>6, <2>1, RunRowType DEF RecordRun, RecordedRun, At
  <2>3. /\ RecordedRun(w).status = worker[w].exec
        /\ RecordedRun(w).started = run[f].started
        /\ RecordedRun(w).finished = TRUE
    BY <1>0, <1>6 DEF RunRow, RecordRun, RecordedRun, At
  <2>4. RunKept
    BY <1>6, <2>1, <2>2, <2>3, UpdateRunKeeps DEF RecordRun, Terminal
  <2> QED
    BY <1>6, <2>4 DEF RecordRun, JobKept, RowsKept
<1>7. CASE MirrorExecution(w)
  <2>1. worker[w].exec # None
    BY <1>7 DEF MirrorExecution, At, PipelineInv, WorkerInv, WorkerKnows
  <2>2. RowsKept
    BY <1>7, <2>1 DEF MirrorExecution, RowsKept, TypeOK, AttemptRow
  <2> QED
    BY <1>7, <2>2 DEF MirrorExecution, JobKept, RunKept
<1>8. CASE Evaluate(w)
  BY <1>8 DEF Evaluate, JobKept, RunKept, RowsKept
<1>9. CASE InsertGrade(w)
  <2>1. MayInsertGrade(SubOf(w)) => grade[SubOf(w)].verdict = None
    BY <1>0, <1>9 DEF InsertGrade, At, MayInsertGrade, PipelineInv, GradeInv
  <2> DEFINE row == [verdict |-> worker[w].verdict, linked |-> TRUE]
  <2>2. \/ grade' = grade
        \/ MayInsertGrade(SubOf(w)) /\ grade' = [grade EXCEPT ![SubOf(w)] = row]
    BY <1>9 DEF InsertGrade
  <2>3. \A s \in Submission : grade[s].verdict # None => grade'[s].verdict = grade[s].verdict
    BY <2>1, <2>2 DEF TypeOK
  <2> QED
    BY <1>9, <2>3 DEF InsertGrade, JobKept, RunKept, RowsKept
<1>10. CASE PublishGrade(w)
  <2>1. RowsKept
    BY <1>10 DEF PublishGrade, RowsKept, TypeOK, AttemptRow
  <2> QED
    BY <1>10, <2>1 DEF PublishGrade, JobKept, RunKept
<1>11. CASE Settle(w)
  <2>1. JobKept
    BY <1>11 DEF Settle, SettledState, JobKept, TypeOK, Job
  <2> QED
    BY <1>11, <2>1 DEF Settle, RunKept, RowsKept
<1>12. \A g \in Finalize : Unlock(w)[g].state = job[g].state
  BY DEF Unlock, TypeOK, Job
<1>13. CASE WorkerCrash(w)
  BY <1>12, <1>13 DEF WorkerCrash, JobKept, RunKept, RowsKept
<1>14. CASE LockLost(w)
  BY <1>12, <1>14 DEF LockLost, JobKept, RunKept, RowsKept
<1>15. CASE WorkerDbFault(w)
  BY <1>15 DEF WorkerDbFault, JobKept, RunKept, RowsKept
<1> QED
  BY <1>1, <1>2, <1>3, <1>4, <1>5, <1>6, <1>7, <1>8, <1>9, <1>10, <1>11, <1>13, <1>14, <1>15
     DEF WorkerStep

\* A callback never touches the published verdict of a submission, and never
\* clears the execution status its attempt shows.
LEMMA CallbackAttempt ==
    ASSUME TypeOK, NEW c \in Callback, CallbackRead(c) \/ CallbackStep(c)
    PROVE  \A s \in Submission :
             /\ attempt'[s].passed = attempt[s].passed
             /\ attempt[s].exec # None => attempt'[s].exec # None
<1>1. attempt \in [Submission -> AttemptRow]
  BY DEF TypeOK
<1> DEFINE Row(s, e, g) == [attempt EXCEPT ![s].exec = e, ![s].grade = g]
<1>2. ASSUME NEW s, NEW e, NEW g, attempt' = Row(s, e, g), e = attempt[s].exec \/ e # None,
             NEW x \in Submission
      PROVE  /\ attempt'[x].passed = attempt[x].passed
             /\ attempt[x].exec # None => attempt'[x].exec # None
  <2>1. CASE x = s
    <3>1. attempt'[x].passed = attempt[x].passed /\ attempt'[x].exec = e
      BY <1>1, <1>2, <2>1 DEF AttemptRow
    <3> QED
      BY <1>2, <2>1, <3>1
  <2>2. CASE x # s
    BY <1>1, <1>2, <2>2
  <2> QED
    BY <2>1, <2>2
<1>3. CASE CallbackRead(c) \/ CallbackWrite(c)
  BY <1>3 DEF CallbackRead, CallbackWrite
<1>4. CASE CallbackMirror(c)
  <2> DEFINE s == fin[cb[c].run].sub
             b == cb[c].body
             e == IF b.exec = None THEN attempt[s].exec ELSE b.exec
             g == attempt[s].grade \/ b.grade
  <2>1. attempt' = attempt \/ attempt' = Row(s, e, g)
    BY <1>4 DEF CallbackMirror
  <2>2. e = attempt[s].exec \/ e # None
    OBVIOUS
  <2> HIDE DEF s, e, g
  <2>3. CASE attempt' = attempt
    BY <2>3
  <2>4. CASE attempt' = Row(s, e, g)
    BY <1>2, <2>2, <2>4
  <2> QED
    BY <2>1, <2>3, <2>4
<1> QED
  BY <1>3, <1>4 DEF CallbackStep

\* Steps of the callback route take nothing back.
LEMMA CallbackKeeps ==
    ASSUME TypeOK, PipelineInv, NEW c \in Callback, CallbackRead(c) \/ CallbackStep(c)
    PROVE  JobKept /\ RunKept /\ RowsKept
<1>1. CASE CallbackRead(c)
  BY <1>1 DEF CallbackRead, JobKept, RunKept, RowsKept
<1>2. CASE CallbackWrite(c)
  <2> DEFINE f == cb[c].run
  <2>1. f \in Finalize /\ cb[c].body \in Body /\ run[f] \in RunRow
    BY <1>2 DEF CallbackWrite, PipelineInv, CallbackInv, CallbackKnows, TypeOK
  <2>2. /\ CalledBackRun(c).status \in RunStatus
        /\ run[f].started # None => CalledBackRun(c).started # None
        /\ run[f].finished => CalledBackRun(c).finished
    BY <2>1, PipelineAssumption DEF CalledBackRun, RunRow, Body
  <2>3. \/ run' = run
        \/ run[f].status # "absent" /\ run' = [run EXCEPT ![f] = CalledBackRun(c)]
    BY <1>2 DEF CallbackWrite
  <2>4. live' = live /\ fin' = fin
    BY <1>2 DEF CallbackWrite
  <2>5. CalledBackRun(c).status # "absent"
    BY <2>2 DEF RunStatus, Terminal
  <2>6. RunKept
    BY <2>1, <2>2, <2>3, <2>4, <2>5 DEF RunKept, TypeOK
  <2> QED
    BY <1>2, <2>6 DEF CallbackWrite, JobKept, RowsKept
<1>3. CASE CallbackMirror(c)
  BY <1>3, CallbackAttempt DEF CallbackStep, CallbackMirror, JobKept, RunKept, RowsKept
<1> QED
  BY <1>1, <1>2, <1>3 DEF CallbackStep

\* Deletions and broker outages take nothing back.
LEMMA OtherKeeps ==
    ASSUME TypeOK, PipelineInv, (\E s \in Submission : Delete(s)) \/ BrokerDown \/ BrokerUp
    PROVE  JobKept /\ RunKept /\ RowsKept
<1>1. ASSUME NEW s \in Submission, Delete(s) PROVE JobKept /\ RunKept /\ RowsKept
  <2>1. RunKept
    BY <1>1 DEF Delete, RunsAfterDelete, Absent, RunKept, TypeOK, RunRow
  <2>2. RowsKept
    BY <1>1 DEF Delete, RowsKept, TypeOK, GradeRow
  <2> QED
    BY <1>1, <2>1, <2>2 DEF Delete, JobKept
<1>2. CASE BrokerDown
  BY <1>2 DEF BrokerDown, JobKept, RunKept, RowsKept
<1>3. CASE BrokerUp
  BY <1>3 DEF BrokerUp, JobKept, RunKept, RowsKept
<1> QED
  BY <1>1, <1>2, <1>3

(***************************************************************************)
(* The invariant is inductive.                                             *)
(***************************************************************************)

\* The invariant holds initially.
LEMMA InitInv == Init => PipelineInv
<1> SUFFICES ASSUME Init PROVE PipelineInv
  OBVIOUS
<1>1. FinalizeInv
  BY DEF Init, FinalizeInv, Absent
<1>2. WorkerInv
  BY DEF Init, WorkerInv, WorkerKnows, Idle, At
<1>3. GradeInv
  BY DEF Init, GradeInv, GradeHasFinishedRun
<1>4. CallbackInv
  BY DEF Init, CallbackInv, CallbackKnows
<1>5. TerminalRunIsStamped
  BY DEF Init, TerminalRunIsStamped, Absent, Terminal
<1>6. CompletedJobIsSettled
  BY DEF Init, CompletedJobIsSettled
<1> QED
  BY <1>1, <1>2, <1>3, <1>4, <1>5, <1>6 DEF PipelineInv

\* What a worker relies on survives the steps of everyone else.
LEMMA WorkerKnowsKept ==
    ASSUME TypeOK, PipelineInv, JobKept, RunKept, RowsKept,
           NEW w \in Worker, worker'[w] = worker[w]
    PROVE  WorkerKnows(w)'
<1> USE DEF At, JobOf, SubOf
<1>0. WorkerKnows(w)
  BY DEF PipelineInv, WorkerInv
<1>1. CASE At(w, "idle")
  BY <1>1 DEF WorkerKnows
<1>2. CASE ~At(w, "idle")
  <2>1. /\ JobOf(w) \in Finalize /\ job[JobOf(w)].state # "none" /\ SubOf(w) \in Submission
        /\ JobOf(w)' = JobOf(w) /\ SubOf(w)' = SubOf(w)
        /\ job'[JobOf(w)].state # "none"
    BY <1>2, BusyWorker DEF PipelineInv, JobKept
  <2>2. /\ SubOf(w) \in live' => SubOf(w) \in live
        /\ attempt[SubOf(w)].exec # None => attempt'[SubOf(w)].exec # None
        /\ grade[SubOf(w)].verdict # None => grade'[SubOf(w)].verdict = grade[SubOf(w)].verdict
    BY <2>1 DEF RowsKept
  <2>3. /\ run'[JobOf(w)].status # "absent" => run[JobOf(w)].status # "absent"
        /\ run'[JobOf(w)].status # "absent" /\ run[JobOf(w)].started # None
             => run'[JobOf(w)].started # None
        /\ run[JobOf(w)].status # "absent" /\ SubOf(w) \in live'
             => run'[JobOf(w)].status # "absent"
        /\ run'[JobOf(w)].status # "absent" /\ run[JobOf(w)].finished
             => run'[JobOf(w)].finished
    BY <2>1 DEF RunKept
  <2> QED
    BY <1>0, <1>2, <2>1, <2>2, <2>3 DEF WorkerKnows
<1> QED
  BY <1>1, <1>2

\* So does what a callback in flight relies on.
LEMMA CallbackKnowsKept ==
    ASSUME TypeOK, PipelineInv, JobKept, RunKept, NEW c \in Callback, cb'[c] = cb[c]
    PROVE  CallbackKnows(c)'
<1>0. CallbackKnows(c)
  BY DEF PipelineInv, CallbackInv
<1>1. CASE cb[c].pc \in {"write", "mirror"}
  <2>1. cb[c].run \in Finalize /\ job[cb[c].run].state # "none"
    BY <1>0, <1>1 DEF CallbackKnows
  <2>2. /\ job'[cb[c].run].state # "none"
        /\ run'[cb[c].run].status # "absent" => run[cb[c].run].status # "absent"
        /\ run'[cb[c].run].status # "absent" /\ run[cb[c].run].started # None
             => run'[cb[c].run].started # None
    BY <2>1 DEF JobKept, RunKept
  <2> QED
    BY <1>0, <2>1, <2>2 DEF CallbackKnows
<1>2. CASE cb[c].pc \notin {"write", "mirror"}
  BY <1>2 DEF CallbackKnows
<1> QED
  BY <1>1, <1>2

\* Grades stay in order through every step that writes neither grades nor what
\* is published, and deletes nothing.
LEMMA GradeInvKept ==
    ASSUME TypeOK, PipelineInv, RunKept, grade' = grade, live' = live,
           \A s \in Submission : attempt'[s].passed = attempt[s].passed
    PROVE  GradeInv'
<1>1. \A s \in Submission :
        /\ grade'[s].linked => s \in live' /\ grade'[s].verdict # None
        /\ s \in live' /\ grade'[s].verdict # None => grade'[s].linked
        /\ attempt'[s].passed # None => attempt'[s].passed = grade'[s].verdict
  BY DEF PipelineInv, GradeInv
<1>2. ASSUME NEW s \in Submission, grade'[s].linked
      PROVE  \E f \in Finalize : fin'[f].sub = s /\ run'[f].status # "absent" /\ run'[f].finished
  <2> PICK f \in Finalize : fin[f].sub = s /\ run[f].status # "absent" /\ run[f].finished
    BY <1>2 DEF PipelineInv, GradeInv, GradeHasFinishedRun
  <2>1. s \in live'
    BY <1>2 DEF PipelineInv, GradeInv
  <2> QED
    BY <2>1 DEF RunKept
<1> QED
  BY <1>1, <1>2 DEF GradeInv, GradeHasFinishedRun

\* A completed job stays settled; only Settle makes another one.
LEMMA CompletedKept ==
    ASSUME TypeOK, PipelineInv, JobKept, RunKept, RowsKept, NEW f \in Finalize,
           job[f].state = "completed", fin'[f].sub \in live'
    PROVE  run'[f].status # "absent" /\ run'[f].finished /\ attempt'[fin'[f].sub].exec # None
<1>1. fin'[f] = fin[f] /\ fin[f].sub \in Submission /\ fin[f].sub \in live
  BY DEF JobKept, RowsKept, PipelineInv, FinalizeInv, TypeOK
<1>2. run[f].status # "absent" /\ run[f].finished /\ attempt[fin[f].sub].exec # None
  BY <1>1 DEF PipelineInv, CompletedJobIsSettled
<1> QED
  BY <1>1, <1>2 DEF RunKept, RowsKept

\* Steps of the finalize route and the stalled check preserve the invariant.
LEMMA FinalizePreserves ==
    ASSUME TypeOK, PipelineInv, NEW f \in Finalize,
           FinalizeLoad(f) \/ FinalizeCreate(f) \/ FinalizeEnqueue(f) \/ StalledCheck(f)
    PROVE  PipelineInv'
<1>1. JobKept /\ RunKept /\ RowsKept
  BY FinalizeKeeps
<1>2. worker' = worker /\ cb' = cb /\ grade' = grade /\ attempt' = attempt /\ live' = live
  BY DEF FinalizeLoad, FinalizeCreate, FinalizeEnqueue, StalledCheck
<1>3. WorkerInv' /\ CallbackInv' /\ GradeInv'
  BY <1>1, <1>2, WorkerKnowsKept, CallbackKnowsKept, GradeInvKept DEF WorkerInv, CallbackInv
<1>4. \A g \in Finalize : job'[g].state = "completed" => job[g].state = "completed"
  <2>1. CASE FinalizeEnqueue(f)
    BY <2>1 DEF FinalizeEnqueue, TypeOK, Job
  <2>2. CASE StalledCheck(f)
    BY <2>2 DEF StalledCheck, TypeOK, Job
  <2>3. CASE FinalizeLoad(f) \/ FinalizeCreate(f)
    BY <2>3 DEF FinalizeLoad, FinalizeCreate
  <2> QED
    BY <2>1, <2>2, <2>3
<1>5. CompletedJobIsSettled'
  BY <1>1, <1>4, CompletedKept DEF CompletedJobIsSettled
<1>6. FinalizeInv' /\ TerminalRunIsStamped'
  <2>0. FinalizeInv /\ TerminalRunIsStamped
    BY DEF PipelineInv
  <2>1. CASE FinalizeLoad(f)
    <3> PICK s \in live, blind \in BOOLEAN, mode \in {"none", "exec"} :
          fin' = [fin EXCEPT ![f].pc = "create", ![f].sub = s, ![f].blind = blind,
                             ![f].mode = mode]
      BY <2>1 DEF FinalizeLoad, StageMode
    <3>1. run' = run /\ job' = job /\ live' = live /\ fin[f].pc = "new" /\ s \in Submission
      BY <2>1 DEF FinalizeLoad, TypeOK
    <3> QED
      BY <2>0, <3>1 DEF FinalizeInv, TerminalRunIsStamped, TypeOK, Request
  <2>2. CASE FinalizeCreate(f)
    <3>1. /\ fin[f].pc = "create" /\ job' = job /\ live' = live
          /\ \A g \in Finalize : fin'[g].sub = fin[g].sub /\ (g # f => fin'[g] = fin[g])
          /\ fin'[f].pc = "enqueue"
      BY <2>2 DEF FinalizeCreate, TypeOK, Request
    <3>2. run' = run \/ (run' = [run EXCEPT ![f] = NewRun(f)] /\ fin[f].sub \in live)
      BY <2>2 DEF FinalizeCreate
    <3>3. NewRun(f).status = "queued"
      BY DEF NewRun, Absent
    <3>4. FinalizeInv'
      BY <2>0, <3>1, <3>2, <3>3 DEF FinalizeInv, TypeOK
    <3>5. TerminalRunIsStamped'
      BY <2>0, <3>2, <3>3 DEF TerminalRunIsStamped, TypeOK, Terminal
    <3> QED
      BY <3>4, <3>5
  <2>3. CASE FinalizeEnqueue(f)
    <3>1. /\ fin[f].pc = "enqueue" /\ run' = run /\ live' = live
          /\ \A g \in Finalize : fin'[g].sub = fin[g].sub /\ (g # f => fin'[g] = fin[g])
          /\ fin'[f].pc \in {"done", "deferred"}
          /\ \A g \in Finalize : g # f => job'[g] = job[g]
          /\ fin'[f].pc = "deferred" => job'[f] = job[f]
      BY <2>3 DEF FinalizeEnqueue, TypeOK, Request
    <3> QED
      BY <2>0, <3>1 DEF FinalizeInv, TerminalRunIsStamped
  <2>4. CASE StalledCheck(f)
    <3>1. /\ fin' = fin /\ run' = run /\ live' = live /\ job[f].state = "active"
          /\ \A g \in Finalize : g # f => job'[g] = job[g]
      BY <2>4 DEF StalledCheck, TypeOK
    <3> QED
      BY <2>0, <3>1 DEF FinalizeInv, TerminalRunIsStamped
  <2> QED
    BY <2>1, <2>2, <2>3, <2>4
<1> QED
  BY <1>3, <1>5, <1>6 DEF PipelineInv

\* Steps of the callback route preserve the invariant.
LEMMA CallbackPreserves ==
    ASSUME TypeOK, PipelineInv, NEW c \in Callback, CallbackRead(c) \/ CallbackStep(c)
    PROVE  PipelineInv'
<1>1. JobKept /\ RunKept /\ RowsKept
  BY CallbackKeeps
<1>2. worker' = worker /\ job' = job /\ fin' = fin /\ grade' = grade /\ live' = live
  BY DEF CallbackRead, CallbackStep, CallbackWrite, CallbackMirror
<1>3. \A d \in Callback : d # c => cb'[d] = cb[d]
  BY DEF CallbackRead, CallbackStep, CallbackWrite, CallbackMirror, TypeOK
<1>4. \A s \in Submission : attempt'[s].passed = attempt[s].passed
  BY CallbackAttempt
<1>5. WorkerInv' /\ GradeInv' /\ CompletedJobIsSettled'
  BY <1>1, <1>2, <1>4, WorkerKnowsKept, GradeInvKept, CompletedKept
     DEF WorkerInv, CompletedJobIsSettled
<1>6. CallbackKnows(c)'
  <2>1. CASE CallbackRead(c)
    <3> PICK f \in Finalize, body \in RunnerBody :
          /\ HasRow(f) /\ job[f].state # "none"
          /\ cb' = [cb EXCEPT ![c] = [pc |-> "write", run |-> f, body |-> body,
                                 base |-> run[f].metrics, fresh |-> run[f].started = None]]
      BY <2>1 DEF CallbackRead
    <3>1. run' = run /\ job' = job /\ body \in Body
      BY <2>1, PipelineAssumption DEF CallbackRead
    <3>2. /\ cb'[c].pc = "write" /\ cb'[c].run = f /\ cb'[c].body = body
          /\ cb'[c].fresh = (run[f].started = None)
      BY DEF TypeOK
    <3> QED
      BY <3>1, <3>2 DEF CallbackKnows
  <2>2. CASE CallbackWrite(c)
    <3>1. CallbackKnows(c) /\ cb[c].pc = "write"
      BY <2>2 DEF CallbackWrite, PipelineInv, CallbackInv
    <3>2. cb'[c].pc \in {"mirror", "done"} /\ cb'[c].run = cb[c].run /\ cb'[c].body = cb[c].body
      BY <2>2 DEF CallbackWrite, TypeOK, CallbackRequest
    <3> QED
      BY <1>2, <3>1, <3>2 DEF CallbackKnows
  <2>3. CASE CallbackMirror(c)
    <3>1. cb'[c].pc = "done"
      <4>1. cb' = [cb EXCEPT ![c].pc = "done"]
        BY <2>3 DEF CallbackMirror
      <4>2. cb \in [Callback -> CallbackRequest]
        BY DEF TypeOK
      <4> QED
        BY <4>1, <4>2 DEF CallbackRequest
    <3> QED
      BY <3>1 DEF CallbackKnows
  <2> QED
    BY <2>1, <2>2, <2>3 DEF CallbackStep
<1>7. CallbackInv'
  BY <1>1, <1>3, <1>6, CallbackKnowsKept DEF CallbackInv
<1>8. FinalizeInv' /\ TerminalRunIsStamped'
  <2>0. FinalizeInv /\ TerminalRunIsStamped
    BY DEF PipelineInv
  <2>1. CASE run' = run
    BY <1>2, <2>0, <2>1 DEF FinalizeInv, TerminalRunIsStamped
  <2>2. CASE run' # run
    <3> DEFINE f == cb[c].run
    <3>1. CallbackWrite(c)
      BY <2>2 DEF CallbackRead, CallbackStep, CallbackMirror
    <3>2. /\ f \in Finalize /\ cb[c].body \in Body /\ run[f] \in RunRow
          /\ ~cb[c].fresh => (run[f].status # "absent" => run[f].started # None)
      BY <3>1 DEF CallbackWrite, PipelineInv, CallbackInv, CallbackKnows, TypeOK
    <3>3. run[f].status # "absent" /\ run' = [run EXCEPT ![f] = CalledBackRun(c)]
      BY <2>2, <3>1 DEF CallbackWrite
    <3>4. CalledBackRun(c).started # None
          /\ (CalledBackRun(c).status \in Terminal => CalledBackRun(c).finished)
      BY <3>2, <3>3, PipelineAssumption DEF CalledBackRun, RunRow, Body
    <3>5. job[f].state # "none"
      BY <3>1 DEF CallbackWrite, PipelineInv, CallbackInv, CallbackKnows
    <3>6. FinalizeInv'
      BY <1>2, <2>0, <3>2, <3>3, <3>5 DEF FinalizeInv, TypeOK
    <3>7. TerminalRunIsStamped'
      BY <2>0, <3>2, <3>3, <3>4 DEF TerminalRunIsStamped, TypeOK
    <3> QED
      BY <3>6, <3>7
  <2> QED
    BY <2>1, <2>2
<1> QED
  BY <1>5, <1>7, <1>8 DEF PipelineInv

\* A worker's update of its Run row writes a stamped row, or none.
LEMMA WorkerRunShape ==
    ASSUME TypeOK, PipelineInv, NEW w \in Worker,
           Take(w) \/ WorkerStep(w) \/ WorkerCrash(w) \/ LockLost(w) \/ WorkerDbFault(w)
    PROVE  \/ run' = run
           \/ /\ JobOf(w) \in Finalize /\ job[JobOf(w)].state # "none"
              /\ run[JobOf(w)].status # "absent"
              /\ \E row \in RunRow :
                   /\ run' = [run EXCEPT ![JobOf(w)] = row]
                   /\ row.status \in Terminal => row.started # None /\ row.finished
<1> DEFINE f == JobOf(w)
<1>0. ~At(w, "idle") => /\ f \in Finalize /\ job[f].state # "none" /\ run[f] \in RunRow
                        /\ fin[f].mode \in {"none", "exec"}
  BY BusyWorker DEF PipelineInv
<1>1. CASE MarkRunning(w)
  <2> DEFINE row == [run[f] EXCEPT !.status = "running", !.mode = fin[f].mode,
                                   !.started = "worker"]
  <2>a. f \in Finalize /\ run[f] \in RunRow /\ fin[f].mode \in {"none", "exec"}
    BY <1>0, <1>1 DEF MarkRunning, At
  <2>1. row \in RunRow
    BY <2>a, RunRowType
  <2>b. row.status = "running"
    BY <2>a DEF RunRow
  <2>2. run' = run \/ (HasRow(f) /\ run' = [run EXCEPT ![f] = row])
    BY <1>1 DEF MarkRunning, UpdateRun
  <2>3. "running" \notin Terminal
    BY DEF Terminal
  <2> QED
    BY <1>0, <1>1, <2>1, <2>b, <2>2, <2>3 DEF MarkRunning, At, HasRow
<1>2. CASE FailRun(w)
  <2> DEFINE row == [run[f] EXCEPT !.status = "crash", !.finished = TRUE]
  <2>a. run[f] \in RunRow
    BY <1>0, <1>2 DEF FailRun, At
  <2>1. row \in RunRow /\ row.started = run[f].started /\ row.finished
    <3>1. row \in RunRow
      BY <2>a, RunRowType
    <3>2. row.started = run[f].started /\ row.finished
      BY <2>a DEF RunRow
    <3> QED
      BY <3>1, <3>2
  <2>2. run' = run \/ (HasRow(f) /\ run' = [run EXCEPT ![f] = row])
    BY <1>2 DEF FailRun, UpdateRun
  <2>3. run[f].status # "absent" => run[f].started # None
    BY <1>2 DEF FailRun, At, PipelineInv, WorkerInv, WorkerKnows
  <2> QED
    BY <1>0, <1>2, <2>1, <2>2, <2>3 DEF FailRun, At, HasRow
<1>3. CASE RecordRun(w)
  <2>1. worker[w].exec \in Terminal
    BY <1>3 DEF RecordRun, At, PipelineInv, WorkerInv, WorkerKnows, TypeOK, Process
  <2>2. RecordedRun(w) \in RunRow
    BY <1>0, <1>3, <2>1, RunRowType DEF RecordRun, RecordedRun, At
  <2>3. RecordedRun(w).started = run[f].started /\ RecordedRun(w).finished
    BY <1>0, <1>3 DEF RunRow, RecordRun, RecordedRun, At
  <2>4. run' = run \/ (HasRow(f) /\ run' = [run EXCEPT ![f] = RecordedRun(w)])
    BY <1>3 DEF RecordRun, UpdateRun
  <2>5. run[f].status # "absent" => run[f].started # None
    BY <1>3 DEF RecordRun, At, PipelineInv, WorkerInv, WorkerKnows
  <2> QED
    BY <1>0, <1>3, <2>2, <2>3, <2>4, <2>5 DEF RecordRun, At, HasRow
<1>4. CASE ~(MarkRunning(w) \/ FailRun(w) \/ RecordRun(w))
  BY <1>4 DEF Take, WorkerStep, LoadSubmission, Dispatch, MirrorExecution, Evaluate,
              InsertGrade, PublishGrade, Settle, WorkerCrash, LockLost, WorkerDbFault
<1> QED
  BY <1>1, <1>2, <1>3, <1>4

\* Jobs after a step of a worker: a job that is completed was so before, or has
\* just been settled by a worker that returned.
LEMMA WorkerJobShape ==
    ASSUME TypeOK, PipelineInv, NEW w \in Worker,
           Take(w) \/ WorkerStep(w) \/ WorkerCrash(w) \/ LockLost(w) \/ WorkerDbFault(w)
    PROVE  \A f \in Finalize :
             /\ job[f].state = "none" => job'[f].state = "none"
             /\ job'[f].state = "completed" =>
                  job[f].state = "completed" \/ (Settle(w) /\ f = JobOf(w) /\ At(w, "return"))
<1>1. CASE Take(w)
  <2> PICK g \in Finalize : /\ job[g].state = "waiting"
                            /\ job' = [job EXCEPT ![g].state = "active", ![g].owner = w]
    BY <1>1 DEF Take
  <2> QED
    BY DEF TypeOK, Job
<1>2. CASE Settle(w)
  <2>1. JobOf(w) \in Finalize /\ job[JobOf(w)].state # "none"
    BY <1>2, BusyWorker DEF Settle, At, PipelineInv
  <2>2. CASE job' = job
    BY <2>2
  <2>3. CASE job' # job
    <3>1. job' = [job EXCEPT ![JobOf(w)].owner = None, ![JobOf(w)].state = SettledState(w)]
      BY <1>2, <2>3 DEF Settle
    <3>2. \A f \in Finalize : f # JobOf(w) => job'[f] = job[f]
      BY <3>1 DEF TypeOK
    <3>3. job'[JobOf(w)].state = SettledState(w)
      BY <2>1, <3>1 DEF TypeOK, Job
    <3> QED
      BY <1>2, <2>1, <3>2, <3>3 DEF SettledState
  <2> QED
    BY <2>2, <2>3
<1>3. CASE WorkerCrash(w) \/ LockLost(w)
  <2>1. job' = Unlock(w)
    BY <1>3 DEF WorkerCrash, LockLost
  <2>2. \A f \in Finalize : job'[f].state = job[f].state
    BY <2>1 DEF Unlock, TypeOK, Job
  <2> QED
    BY <2>2
<1>4. CASE ~(Take(w) \/ Settle(w) \/ WorkerCrash(w) \/ LockLost(w))
  <2>1. job' = job
    BY <1>4 DEF WorkerStep, MarkRunning, LoadSubmission, FailRun, Dispatch, RecordRun,
                MirrorExecution, Evaluate, InsertGrade, PublishGrade, WorkerDbFault
  <2> QED
    BY <2>1
<1> QED
  BY <1>1, <1>2, <1>3, <1>4

\* What a worker relies on holds where its own step takes it.
LEMMA WorkerKnowsNext ==
    ASSUME TypeOK, PipelineInv, NEW w \in Worker,
           Take(w) \/ WorkerStep(w) \/ WorkerCrash(w) \/ LockLost(w) \/ WorkerDbFault(w)
    PROVE  WorkerKnows(w)'
<1> DEFINE f == JobOf(w)
           s == SubOf(w)
<1> USE DEF At, JobOf, SubOf
<1>0. ~At(w, "idle") => /\ f \in Finalize /\ job[f].state # "none" /\ s \in Submission
                        /\ job'[f].state # "none" /\ fin' = fin /\ live' = live
  <2>1. ~At(w, "idle") => f \in Finalize /\ job[f].state # "none" /\ s \in Submission
    BY BusyWorker DEF PipelineInv
  <2>2. fin' = fin /\ live' = live
    BY DEF Take, WorkerStep, MarkRunning, LoadSubmission, FailRun, Dispatch, RecordRun,
           MirrorExecution, Evaluate, InsertGrade, PublishGrade, Settle, WorkerCrash,
           LockLost, WorkerDbFault
  <2>3. JobKept
    BY WorkerKeeps
  <2> QED
    BY <2>1, <2>2, <2>3 DEF JobKept
<1>k. WorkerKnows(w)
  BY DEF PipelineInv, WorkerInv
<1>t. worker \in [Worker -> Process] /\ worker[w] \in Process
  BY DEF TypeOK
<1>g. ASSUME NEW pc, Goto(w, pc)
      PROVE  /\ worker'[w].pc = pc /\ worker'[w].job = worker[w].job
             /\ worker'[w].exec = worker[w].exec /\ worker'[w].verdict = worker[w].verdict
  BY <1>t, <1>g DEF Goto, Process
<1>1. CASE Take(w)
  <2> PICK g \in Finalize :
        /\ job[g].state = "waiting"
        /\ worker' = [worker EXCEPT ![w] = [Idle EXCEPT !.pc = "mark", !.job = g]]
    BY <1>1 DEF Take
  <2>1. worker'[w].pc = "mark" /\ worker'[w].job = g
    BY <1>t DEF Idle
  <2>2. job'[g].state # "none"
    BY <1>1, WorkerKeeps DEF JobKept
  <2> QED
    BY <2>1, <2>2 DEF WorkerKnows
<1>2. CASE MarkRunning(w)
  <2>1. CASE Goto(w, "load") /\ run' = [run EXCEPT ![f] =
              [run[f] EXCEPT !.status = "running", !.mode = fin[f].mode, !.started = "worker"]]
    <3>1. run'[f].started = "worker"
      BY <1>0, <1>2, <2>1 DEF MarkRunning, TypeOK, RunRow
    <3> QED
      BY <1>0, <1>2, <1>g, <2>1, <3>1, PipelineAssumption, SMTT(30) DEF MarkRunning, WorkerKnows
  <2>2. CASE Goto(w, "throw")
    BY <1>0, <1>2, <1>g, <2>2 DEF MarkRunning, WorkerKnows
  <2> QED
    BY <1>2, <2>1, <2>2 DEF MarkRunning, UpdateRun
<1>3. CASE LoadSubmission(w)
  <2>1. run' = run
    BY <1>3 DEF LoadSubmission
  <2>2. CASE s \in live
    <3>1. Goto(w, "dispatch")
      BY <1>3, <2>2 DEF LoadSubmission
    <3> QED
      BY <1>0, <1>3, <1>k, <1>g, <2>1, <3>1 DEF LoadSubmission, WorkerKnows
  <2>3. CASE s \notin live
    <3>1. Goto(w, "failrun")
      BY <1>3, <2>3 DEF LoadSubmission
    <3> QED
      BY <1>0, <1>3, <1>k, <1>g, <2>1, <2>3, <3>1 DEF LoadSubmission, WorkerKnows
  <2> QED
    BY <2>2, <2>3
<1>4. CASE FailRun(w)
  <2>1. s \notin live
    BY <1>4, <1>k DEF FailRun, WorkerKnows
  <2>2. Goto(w, "return") \/ Goto(w, "throw")
    BY <1>4 DEF FailRun, UpdateRun
  <2> QED
    BY <1>0, <1>4, <1>g, <2>1, <2>2 DEF FailRun, WorkerKnows
<1>5. CASE Dispatch(w)
  <2> PICK out \in Terminal : worker' = [worker EXCEPT ![w].pc = "record", ![w].exec = out]
    BY <1>5, PipelineAssumption DEF Dispatch, Terminal
  <2>1. worker'[w].pc = "record" /\ worker'[w].job = worker[w].job /\ worker'[w].exec = out
    BY <1>t DEF Process
  <2>2. out # None
    BY PipelineAssumption DEF RunStatus
  <2>3. run' = run
    BY <1>5 DEF Dispatch
  <2> QED
    BY <1>0, <1>5, <1>k, <2>1, <2>2, <2>3 DEF Dispatch, WorkerKnows
<1>6. CASE RecordRun(w)
  <2>1. worker[w].exec # None
    BY <1>6, <1>k DEF RecordRun, WorkerKnows
  <2>2. CASE Goto(w, "mirror") /\ run' = [run EXCEPT ![f] = RecordedRun(w)]
    <3>1. worker[w].exec \in Terminal
      BY <1>t, <2>1 DEF Process
    <3>2. run'[f].status = worker[w].exec /\ run'[f].finished
      BY <1>0, <1>6, <2>2 DEF RecordRun, RecordedRun, TypeOK, RunRow
    <3> QED
      BY <1>0, <1>6, <1>g, <2>1, <2>2, <3>1, <3>2 DEF RecordRun, WorkerKnows, Terminal
  <2>3. CASE Goto(w, "throw")
    BY <1>0, <1>6, <1>g, <2>3 DEF RecordRun, WorkerKnows
  <2> QED
    BY <1>6, <2>2, <2>3 DEF RecordRun, UpdateRun
<1>7. CASE MirrorExecution(w)
  <2>1. worker[w].exec # None
    BY <1>7, <1>k DEF MirrorExecution, WorkerKnows
  <2>2. attempt'[s].exec # None /\ run' = run
    BY <1>0, <1>7, <2>1 DEF MirrorExecution, TypeOK, AttemptRow
  <2>3. worker'[w].pc \in {"grade", "return"} /\ worker'[w].job = worker[w].job
    <3>1. Goto(w, "grade") \/ Goto(w, "return")
      BY <1>7 DEF MirrorExecution
    <3> QED
      BY <1>g, <3>1
  <2>4. worker[w].pc = "mirror" /\ live' = live /\ job' = job /\ fin' = fin
    BY <1>7 DEF MirrorExecution
  <2> QED
    BY <1>0, <1>k, <2>2, <2>3, <2>4 DEF WorkerKnows
<1>8. CASE Evaluate(w)
  <2>0. run' = run /\ attempt' = attempt /\ grade' = grade
    BY <1>8 DEF Evaluate
  <2>1. CASE worker' = [worker EXCEPT ![w].pc = "publish", ![w].verdict = grade[s].verdict]
             /\ grade[s].linked
    <3>1. /\ worker'[w].pc = "publish" /\ worker'[w].job = worker[w].job
          /\ worker'[w].verdict = grade[s].verdict
      BY <1>t, <2>1 DEF Process
    <3>2. grade[s].verdict # None
      BY <1>0, <1>8, <2>1 DEF Evaluate, PipelineInv, GradeInv
    <3> QED
      BY <1>0, <1>8, <1>k, <2>0, <3>1, <3>2 DEF Evaluate, WorkerKnows
  <2>2. ASSUME NEW v \in Accepted,
               worker' = [worker EXCEPT ![w].pc = "insert", ![w].verdict = v]
        PROVE  WorkerKnows(w)'
    <3>1. /\ worker'[w].pc = "insert" /\ worker'[w].job = worker[w].job
          /\ worker'[w].verdict = v
      BY <1>t, <2>2 DEF Process
    <3>2. v # None
      BY PipelineAssumption DEF Accepted
    <3> QED
      BY <1>0, <1>8, <1>k, <2>0, <3>1, <3>2 DEF Evaluate, WorkerKnows
  <2>3. CASE Goto(w, "throw")
    <3>1. worker'[w].pc = "throw" /\ worker'[w].job = worker[w].job
      BY <1>g, <2>3
    <3>2. worker[w].pc = "grade" /\ job' = job
      BY <1>8 DEF Evaluate
    <3> QED
      BY <1>k, <3>1, <3>2 DEF WorkerKnows
  <2> QED
    BY <1>8, <2>1, <2>2, <2>3 DEF Evaluate
<1>9. CASE InsertGrade(w)
  <2>0. run' = run /\ attempt' = attempt
    BY <1>9 DEF InsertGrade
  <2>1. CASE Goto(w, "publish")
             /\ grade' = [grade EXCEPT ![s] = [verdict |-> worker[w].verdict, linked |-> TRUE]]
    <3>1. grade'[s].verdict = worker[w].verdict /\ worker[w].verdict # None
      BY <1>0, <1>9, <1>k, <2>1 DEF InsertGrade, WorkerKnows, TypeOK
    <3> QED
      <4>1. /\ worker'[w].pc = "publish" /\ worker'[w].job = worker[w].job
            /\ worker'[w].verdict = worker[w].verdict
        BY <1>g, <2>1
      <4>2. worker[w].pc = "insert" /\ live' = live /\ job' = job /\ fin' = fin
        BY <1>9 DEF InsertGrade
      <4> QED
        BY <1>0, <1>k, <2>0, <3>1, <4>1, <4>2 DEF WorkerKnows
  <2>2. CASE Goto(w, "throw")
    BY <1>0, <1>9, <1>g, <2>2 DEF InsertGrade, WorkerKnows
  <2> QED
    BY <1>9, <2>1, <2>2 DEF InsertGrade
<1>10. CASE PublishGrade(w)
  <2>1. Goto(w, "return") /\ run' = run
    BY <1>10 DEF PublishGrade
  <2>2. attempt'[s].exec = attempt[s].exec
    BY <1>0, <1>10 DEF PublishGrade, TypeOK, AttemptRow
  <2> QED
    <3>1. /\ ~At(w, "idle") /\ worker'[w].pc = "return" /\ worker'[w].job = worker[w].job
          /\ s \in live => /\ run[f].status # "absent" /\ run[f].finished
                           /\ attempt[s].exec # None
      BY <1>10, <1>k, <1>g, <2>1 DEF PublishGrade, WorkerKnows
    <3> QED
      BY <1>0, <2>1, <2>2, <3>1 DEF WorkerKnows
<1>11. CASE Settle(w) \/ WorkerCrash(w)
  <2>1. worker'[w].pc = "idle"
    BY <1>11, <1>t DEF Settle, WorkerCrash, Idle
  <2> QED
    BY <2>1 DEF WorkerKnows
<1>12. CASE LockLost(w)
  <2>1. worker' = worker /\ run' = run /\ attempt' = attempt /\ grade' = grade
    BY <1>12 DEF LockLost
  <2> QED
    BY <1>0, <1>12, <1>k, <2>1 DEF LockLost, WorkerKnows
<1>13. CASE WorkerDbFault(w)
  <2>1. Goto(w, "throw") /\ ~At(w, "idle")
    BY <1>13 DEF WorkerDbFault
  <2> QED
    BY <1>0, <1>g, <2>1 DEF WorkerKnows
<1> QED
  BY <1>1, <1>2, <1>3, <1>4, <1>5, <1>6, <1>7, <1>8, <1>9, <1>10, <1>11, <1>12, <1>13
     DEF WorkerStep

\* Grades stay in order through the steps of a worker, two of which write them.
LEMMA WorkerKeepsGrades ==
    ASSUME TypeOK, PipelineInv, NEW w \in Worker,
           Take(w) \/ WorkerStep(w) \/ WorkerCrash(w) \/ LockLost(w) \/ WorkerDbFault(w)
    PROVE  GradeInv'
<1> DEFINE f == JobOf(w)
           s == SubOf(w)
<1>1. RunKept /\ GradeInv /\ WorkerKnows(w)
  BY WorkerKeeps DEF PipelineInv, WorkerInv
<1>2. live' = live
  BY DEF Take, WorkerStep, MarkRunning, LoadSubmission, FailRun, Dispatch, RecordRun,
         MirrorExecution, Evaluate, InsertGrade, PublishGrade, Settle, WorkerCrash,
         LockLost, WorkerDbFault
<1>3. CASE InsertGrade(w) /\ MayInsertGrade(s)
  <2>1. f \in Finalize /\ s \in Submission /\ s = fin[f].sub
    BY <1>3, BusyWorker DEF InsertGrade, At, SubOf, PipelineInv
  <2>2. /\ grade' = [grade EXCEPT ![s] = [verdict |-> worker[w].verdict, linked |-> TRUE]]
        /\ attempt' = attempt /\ run' = run /\ fin' = fin
        /\ s \in live /\ worker[w].verdict # None
        /\ run[f].status # "absent" /\ run[f].finished
    BY <1>1, <1>3 DEF InsertGrade, MayInsertGrade, WorkerKnows, At
  <2>3. grade[s].verdict = None
    BY <1>1, <1>3, <2>1 DEF MayInsertGrade, GradeInv
  <2>4. GradeHasFinishedRun'
    BY <1>1, <2>1, <2>2 DEF GradeInv, GradeHasFinishedRun, TypeOK
  <2> QED
    BY <1>1, <1>2, <2>1, <2>2, <2>3, <2>4 DEF GradeInv, TypeOK
<1>4. CASE PublishGrade(w)
  <2>1. s \in Submission /\ worker[w].verdict = grade[s].verdict
    BY <1>1, <1>4, BusyWorker DEF PublishGrade, At, WorkerKnows, PipelineInv
  <2>2. grade' = grade /\ run' = run /\ fin' = fin
    BY <1>4 DEF PublishGrade
  <2>3. \A x \in Submission :
          attempt'[x].passed = IF x = s THEN grade[s].verdict ELSE attempt[x].passed
    BY <1>4, <2>1 DEF PublishGrade, TypeOK, AttemptRow
  <2>4. GradeHasFinishedRun'
    BY <1>1, <2>2 DEF GradeInv, GradeHasFinishedRun
  <2> QED
    BY <1>1, <1>2, <2>2, <2>3, <2>4 DEF GradeInv
<1>5. CASE ~(InsertGrade(w) /\ MayInsertGrade(s)) /\ ~PublishGrade(w)
  <2>1. grade' = grade
    BY <1>5 DEF Take, WorkerStep, MarkRunning, LoadSubmission, FailRun, Dispatch, RecordRun,
                MirrorExecution, Evaluate, InsertGrade, Settle, WorkerCrash, LockLost,
                WorkerDbFault
  <2>2. \A x \in Submission : attempt'[x].passed = attempt[x].passed
    <3>1. CASE MirrorExecution(w)
      BY <3>1 DEF MirrorExecution, TypeOK, AttemptRow
    <3>2. CASE ~MirrorExecution(w)
      BY <1>5, <3>2 DEF Take, WorkerStep, MarkRunning, LoadSubmission, FailRun, Dispatch,
                RecordRun, Evaluate, InsertGrade, Settle, WorkerCrash, LockLost, WorkerDbFault
    <3> QED
      BY <3>1, <3>2
  <2> QED
    BY <1>1, <1>2, <2>1, <2>2, GradeInvKept
<1> QED
  BY <1>3, <1>4, <1>5

\* Steps of a worker, and the faults it meets, preserve the invariant.
LEMMA WorkerPreserves ==
    ASSUME TypeOK, PipelineInv, NEW w \in Worker,
           Take(w) \/ WorkerStep(w) \/ WorkerCrash(w) \/ LockLost(w) \/ WorkerDbFault(w)
    PROVE  PipelineInv'
<1>1. JobKept /\ RunKept /\ RowsKept
  BY WorkerKeeps
<1>2. fin' = fin /\ live' = live /\ cb' = cb
  BY DEF Take, WorkerStep, MarkRunning, LoadSubmission, FailRun, Dispatch, RecordRun,
         MirrorExecution, Evaluate, InsertGrade, PublishGrade, Settle, WorkerCrash,
         LockLost, WorkerDbFault
<1>3. \A v \in Worker : v # w => worker'[v] = worker[v]
  BY DEF Take, WorkerStep, MarkRunning, LoadSubmission, FailRun, Dispatch, RecordRun,
         MirrorExecution, Evaluate, InsertGrade, PublishGrade, Settle, WorkerCrash,
         LockLost, WorkerDbFault, UpdateRun, Goto, TypeOK
<1>4. WorkerInv' /\ CallbackInv'
  BY <1>1, <1>2, <1>3, WorkerKnowsKept, WorkerKnowsNext, CallbackKnowsKept
     DEF WorkerInv, CallbackInv
<1>5. GradeInv'
  BY WorkerKeepsGrades
<1>6. FinalizeInv' /\ TerminalRunIsStamped'
  <2>1. FinalizeInv /\ TerminalRunIsStamped
    BY DEF PipelineInv
  <2>2. \A g \in Finalize : /\ job[g].state = "none" => job'[g].state = "none"
                            /\ run'[g].status # "absent" => run[g].status # "absent"
                            /\ run'[g].status \in Terminal =>
                                 run'[g].started # None /\ run'[g].finished
    BY <2>1, WorkerRunShape, WorkerJobShape DEF TerminalRunIsStamped, TypeOK
  <2> QED
    BY <1>2, <2>1, <2>2 DEF FinalizeInv, TerminalRunIsStamped
<1>7. CompletedJobIsSettled'
  <2> SUFFICES ASSUME NEW g \in Finalize, job'[g].state = "completed", fin'[g].sub \in live'
               PROVE  /\ run'[g].status # "absent" /\ run'[g].finished
                      /\ attempt'[fin'[g].sub].exec # None
    BY DEF CompletedJobIsSettled
  <2>1. CASE job[g].state = "completed"
    BY <1>1, <2>1, CompletedKept
  <2>2. CASE Settle(w) /\ g = JobOf(w) /\ At(w, "return")
    BY <1>2, <2>2 DEF Settle, PipelineInv, WorkerInv, WorkerKnows, At, SubOf
  <2> QED
    BY <2>1, <2>2, WorkerJobShape
<1> QED
  BY <1>4, <1>5, <1>6, <1>7 DEF PipelineInv

\* Deletions and broker outages preserve the invariant.
LEMMA OtherPreserves ==
    ASSUME TypeOK, PipelineInv, (\E s \in Submission : Delete(s)) \/ BrokerDown \/ BrokerUp
    PROVE  PipelineInv'
<1>1. JobKept /\ RunKept /\ RowsKept
  BY OtherKeeps
<1>2. worker' = worker /\ cb' = cb /\ job' = job /\ fin' = fin /\ attempt' = attempt
  BY DEF Delete, BrokerDown, BrokerUp
<1>3. WorkerInv' /\ CallbackInv' /\ CompletedJobIsSettled'
  BY <1>1, <1>2, WorkerKnowsKept, CallbackKnowsKept, CompletedKept
     DEF WorkerInv, CallbackInv, CompletedJobIsSettled
<1>4. CASE BrokerDown \/ BrokerUp
  <2>1. run' = run /\ grade' = grade /\ live' = live
    BY <1>4 DEF BrokerDown, BrokerUp
  <2>2. GradeInv'
    BY <1>1, <1>2, <2>1, GradeInvKept
  <2> QED
    BY <1>2, <1>3, <2>1, <2>2 DEF PipelineInv, FinalizeInv, TerminalRunIsStamped
<1>5. ASSUME NEW s \in Submission, Delete(s) PROVE PipelineInv'
  <2>0. FinalizeInv /\ GradeInv /\ TerminalRunIsStamped
    BY DEF PipelineInv
  <2>1. /\ live' = live \ {s}
        /\ \A f \in Finalize : run'[f] = IF fin[f].sub = s THEN Absent ELSE run[f]
    BY <1>5 DEF Delete, RunsAfterDelete
  <2>2. \A x \in Submission : /\ grade'[x].verdict = grade[x].verdict
                              /\ grade'[x].linked = (x # s /\ grade[x].linked)
    BY <1>5 DEF Delete, TypeOK, GradeRow
  <2>3. FinalizeInv'
    BY <1>2, <2>0, <2>1 DEF FinalizeInv, Absent
  <2>4. TerminalRunIsStamped'
    BY <2>0, <2>1 DEF TerminalRunIsStamped, Absent, Terminal
  <2>5. GradeHasFinishedRun'
    <3> SUFFICES ASSUME NEW x \in Submission, grade'[x].linked
                 PROVE  \E f \in Finalize : /\ fin'[f].sub = x
                                            /\ run'[f].status # "absent"
                                            /\ run'[f].finished
      BY DEF GradeHasFinishedRun
    <3>1. x # s /\ grade[x].linked
      BY <2>2
    <3> PICK f \in Finalize : fin[f].sub = x /\ run[f].status # "absent" /\ run[f].finished
      BY <2>0, <3>1 DEF GradeInv, GradeHasFinishedRun
    <3>2. run'[f] = run[f]
      BY <2>1, <3>1
    <3> QED
      BY <1>2, <3>2
  <2>6. GradeInv'
    BY <1>2, <2>0, <2>1, <2>2, <2>5 DEF GradeInv
  <2> QED
    BY <1>3, <2>3, <2>4, <2>6 DEF PipelineInv
<1> QED
  BY <1>4, <1>5

\* The invariant together with the types is inductive.
LEMMA NextInv == ASSUME TypeOK, PipelineInv, [Next]_vars PROVE TypeOK' /\ PipelineInv'
<1>1. TypeOK'
  BY NextType DEF PipelineInv
<1>2. CASE UNCHANGED vars
  <2>1. /\ live' = live /\ attempt' = attempt /\ grade' = grade /\ run' = run /\ job' = job
        /\ fin' = fin /\ worker' = worker /\ cb' = cb
    BY <1>2 DEF vars
  <2>2. FinalizeInv' /\ TerminalRunIsStamped' /\ CompletedJobIsSettled'
    BY <2>1 DEF PipelineInv, FinalizeInv, TerminalRunIsStamped, CompletedJobIsSettled
  <2>3. WorkerInv'
    BY <2>1 DEF PipelineInv, WorkerInv, WorkerKnows, At, JobOf, SubOf
  <2>4. CallbackInv'
    BY <2>1 DEF PipelineInv, CallbackInv, CallbackKnows
  <2>5. GradeInv'
    BY <2>1 DEF PipelineInv, GradeInv, GradeHasFinishedRun
  <2> QED
    BY <1>1, <2>2, <2>3, <2>4, <2>5 DEF PipelineInv
<1>3. CASE Next
  <2>1. ASSUME NEW f \in Finalize,
               FinalizeLoad(f) \/ FinalizeCreate(f) \/ FinalizeEnqueue(f) \/ StalledCheck(f)
        PROVE  PipelineInv'
    BY <2>1, FinalizePreserves
  <2>2. ASSUME NEW w \in Worker,
               Take(w) \/ WorkerStep(w) \/ WorkerCrash(w) \/ LockLost(w) \/ WorkerDbFault(w)
        PROVE  PipelineInv'
    BY <2>2, WorkerPreserves
  <2>3. ASSUME NEW c \in Callback, CallbackRead(c) \/ CallbackStep(c)
        PROVE  PipelineInv'
    BY <2>3, CallbackPreserves
  <2>4. CASE (\E s \in Submission : Delete(s)) \/ BrokerDown \/ BrokerUp
    BY <1>1, <2>4, OtherPreserves
  <2> QED
    BY <1>1, <1>3, <2>1, <2>2, <2>3, <2>4 DEF Next
<1> QED
  BY <1>1, <1>2, <1>3

\* What a step does to the verdicts, as the abstract specification sees it.
VerdictsStay ==
    \A s \in Submission : /\ grade'[s].verdict = grade[s].verdict
                          /\ attempt'[s].passed = attempt[s].passed

VerdictDecided(s, v) ==
    /\ grade[s].verdict = None
    /\ \A x \in Submission :
         /\ grade'[x].verdict = IF x = s THEN v ELSE grade[x].verdict
         /\ attempt'[x].passed = attempt[x].passed

VerdictPublished(s) ==
    /\ grade[s].verdict # None
    /\ \A x \in Submission :
         /\ grade'[x].verdict = grade[x].verdict
         /\ attempt'[x].passed = IF x = s THEN grade[s].verdict ELSE attempt[x].passed

\* A step of a worker decides a verdict, publishes one or leaves all as they are.
LEMMA WorkerVerdicts ==
    ASSUME TypeOK, PipelineInv, NEW w \in Worker,
           Take(w) \/ WorkerStep(w) \/ WorkerCrash(w) \/ LockLost(w) \/ WorkerDbFault(w)
    PROVE  \/ VerdictsStay
           \/ \E s \in Submission, v \in Verdict : VerdictDecided(s, v)
           \/ \E s \in Submission : VerdictPublished(s)
<1> DEFINE s == SubOf(w)
           v == worker[w].verdict
<1>1. WorkerKnows(w) /\ GradeInv
  BY DEF PipelineInv, WorkerInv
<1>2. CASE InsertGrade(w) /\ MayInsertGrade(s)
  <2>1. At(w, "insert") /\ ~At(w, "idle")
    BY <1>2 DEF InsertGrade, At
  <2>2. s \in Submission
    BY <2>1, BusyWorker DEF PipelineInv
  <2>3. v \in Verdict
    BY <1>1, <2>1 DEF WorkerKnows, TypeOK, Process
  <2>4. grade[s].verdict = None
    BY <1>1, <1>2, <2>2 DEF GradeInv, MayInsertGrade
  <2>5. /\ grade' = [grade EXCEPT ![s] = [verdict |-> v, linked |-> TRUE]]
        /\ attempt' = attempt
    BY <1>2 DEF InsertGrade
  <2>6. VerdictDecided(s, v)
    BY <2>2, <2>4, <2>5 DEF VerdictDecided, TypeOK
  <2> QED
    BY <2>2, <2>3, <2>6
<1>3. CASE PublishGrade(w)
  <2>1. At(w, "publish") /\ ~At(w, "idle")
    BY <1>3 DEF PublishGrade, At
  <2>2. s \in Submission
    BY <2>1, BusyWorker DEF PipelineInv
  <2>3. v # None /\ v = grade[s].verdict
    BY <1>1, <2>1 DEF WorkerKnows
  <2>4. grade' = grade
    BY <1>3 DEF PublishGrade
  <2>5. \A x \in Submission : attempt'[x].passed = IF x = s THEN v ELSE attempt[x].passed
    BY <1>3, <2>2 DEF PublishGrade, TypeOK, AttemptRow
  <2>6. VerdictPublished(s)
    BY <2>3, <2>4, <2>5 DEF VerdictPublished
  <2> QED
    BY <2>2, <2>6
<1>4. CASE ~(InsertGrade(w) /\ MayInsertGrade(s)) /\ ~PublishGrade(w)
  <2>1. grade' = grade
    BY <1>4 DEF Take, WorkerStep, MarkRunning, LoadSubmission, FailRun, Dispatch, RecordRun,
                MirrorExecution, Evaluate, InsertGrade, Settle, WorkerCrash, LockLost,
                WorkerDbFault
  <2>2. \A x \in Submission : attempt'[x].passed = attempt[x].passed
    <3>1. CASE MirrorExecution(w)
      BY <3>1 DEF MirrorExecution, TypeOK, AttemptRow
    <3>2. CASE ~MirrorExecution(w)
      BY <1>4, <3>2 DEF Take, WorkerStep, MarkRunning, LoadSubmission, FailRun, Dispatch,
                RecordRun, Evaluate, InsertGrade, Settle, WorkerCrash, LockLost, WorkerDbFault
    <3> QED
      BY <3>1, <3>2
  <2> QED
    BY <2>1, <2>2 DEF VerdictsStay
<1> QED
  BY <1>2, <1>3, <1>4

\* So does every step.
LEMMA NextVerdicts ==
    ASSUME TypeOK, PipelineInv, [Next]_vars
    PROVE  \/ VerdictsStay
           \/ \E s \in Submission, v \in Verdict : VerdictDecided(s, v)
           \/ \E s \in Submission : VerdictPublished(s)
<1>1. CASE UNCHANGED vars
  BY <1>1 DEF vars, VerdictsStay
<1>2. ASSUME NEW f \in Finalize,
             FinalizeLoad(f) \/ FinalizeCreate(f) \/ FinalizeEnqueue(f) \/ StalledCheck(f)
      PROVE  VerdictsStay
  BY <1>2 DEF FinalizeLoad, FinalizeCreate, FinalizeEnqueue, StalledCheck, VerdictsStay
<1>3. ASSUME NEW c \in Callback, CallbackRead(c) \/ CallbackStep(c)
      PROVE  VerdictsStay
  <2>1. grade' = grade
    BY <1>3 DEF CallbackRead, CallbackStep, CallbackWrite, CallbackMirror
  <2>2. \A s \in Submission : attempt'[s].passed = attempt[s].passed
    BY <1>3, CallbackAttempt
  <2> QED
    BY <2>1, <2>2 DEF VerdictsStay
<1>4. ASSUME NEW s \in Submission, Delete(s)
      PROVE  VerdictsStay
  BY <1>4 DEF Delete, VerdictsStay, TypeOK, GradeRow
<1>5. CASE BrokerDown \/ BrokerUp
  BY <1>5 DEF BrokerDown, BrokerUp, VerdictsStay
<1> QED
  BY <1>1, <1>2, <1>3, <1>4, <1>5, WorkerVerdicts DEF Next

(***************************************************************************)
(* The theorems.                                                           *)
(***************************************************************************)

\* Every reachable state is well typed and satisfies the inductive invariant.
THEOREM Invariance == Spec => [](TypeOK /\ PipelineInv)
<1>1. Init => TypeOK /\ PipelineInv
  BY InitType, InitInv
<1>2. TypeOK /\ PipelineInv /\ [Next]_vars => (TypeOK /\ PipelineInv)'
  BY NextInv
<1> QED
  BY <1>1, <1>2, PTL DEF Spec

\* Type correctness.
THEOREM TypeCorrect == Spec => []TypeOK
BY Invariance, PTL

\* A grade that still belongs to a submission was earned by a finished run of it.
THEOREM GradesAreEarned == Spec => []GradeHasFinishedRun
<1>1. TypeOK /\ PipelineInv => GradeHasFinishedRun
  BY DEF PipelineInv, GradeInv
<1> QED
  BY <1>1, Invariance, PTL

\* A run in a terminal status carries both timestamps.
THEOREM TerminalRunsAreStamped == Spec => []TerminalRunIsStamped
<1>1. TypeOK /\ PipelineInv => TerminalRunIsStamped
  BY DEF PipelineInv
<1> QED
  BY <1>1, Invariance, PTL

\* A completed job left a finished run behind, or its submission is gone.
THEOREM CompletedJobsAreSettled == Spec => []CompletedJobIsSettled
<1>1. TypeOK /\ PipelineInv => CompletedJobIsSettled
  BY DEF PipelineInv
<1> QED
  BY <1>1, Invariance, PTL

\* The worker's branch for a missing submission never finds its run.
THEOREM FailRunIsDead == Spec => []FailRunNeverLands
<1>1. ASSUME TypeOK, PipelineInv, NEW w \in Worker, At(w, "failrun")
      PROVE  ~HasRow(JobOf(w))
  <2>1. JobOf(w) \in Finalize /\ fin[JobOf(w)].sub \notin live
    BY <1>1 DEF PipelineInv, WorkerInv, WorkerKnows, At, SubOf
  <2>2. run[JobOf(w)].status = "absent"
    BY <1>1, <2>1 DEF PipelineInv, FinalizeInv
  <2> QED
    BY <2>2 DEF HasRow
<1>2. TypeOK /\ PipelineInv => FailRunNeverLands
  BY <1>1 DEF FailRunNeverLands
<1> QED
  BY <1>2, Invariance, PTL

\* The pipeline implements the write-once verdict: what is decided about an
\* attempt stays, and what is published is what was decided, through every
\* redelivery, lost lock, crash, callback and deletion.
THEOREM Refinement == Spec => ImplementsWriteOnceVerdict
<1> DEFINE decided == [s \in Submission |-> grade[s].verdict]
           published == [s \in Submission |-> attempt[s].passed]
<1>1. Init => Verdicts!Init
  BY DEF Init, Verdicts!Init
<1>2. ASSUME TypeOK, PipelineInv, [Next]_vars
      PROVE  [Verdicts!Next]_(Verdicts!vars)
  <2>1. CASE VerdictsStay
    <3>1. decided' = decided /\ published' = published
      BY <2>1 DEF VerdictsStay
    <3> QED
      BY <3>1 DEF Verdicts!vars
  <2>2. ASSUME NEW s \in Submission, NEW v \in Verdict, VerdictDecided(s, v)
        PROVE  Verdicts!Next
    <3>1. /\ decided[s] = None
          /\ decided' = [decided EXCEPT ![s] = v]
          /\ published' = published
      BY <2>2 DEF VerdictDecided
    <3>2. Verdicts!Decide(s, v)
      BY <3>1 DEF Verdicts!Decide
    <3> QED
      BY <3>2 DEF Verdicts!Next
  <2>3. ASSUME NEW s \in Submission, VerdictPublished(s)
        PROVE  Verdicts!Next
    <3>1. /\ decided[s] # None
          /\ published' = [published EXCEPT ![s] = decided[s]]
          /\ decided' = decided
      BY <2>3 DEF VerdictPublished
    <3>2. Verdicts!Publish(s)
      BY <3>1 DEF Verdicts!Publish
    <3> QED
      BY <3>2 DEF Verdicts!Next
  <2> QED
    BY <1>2, <2>1, <2>2, <2>3, NextVerdicts
<1> QED
  BY <1>1, <1>2, Invariance, PTL DEF Spec, ImplementsWriteOnceVerdict, Verdicts!Spec

(***************************************************************************)
(* What a grade of an executable stage stands on.                          *)
(***************************************************************************)

\* A run carries its request's mode, which is the stage's unless the request
\* could not read the stage.
ModeInv ==
    \A f \in Finalize :
        /\ run[f].status # "absent" => fin[f].pc # "new" /\ run[f].mode = fin[f].mode
        /\ fin[f].pc # "new" /\ ~fin[f].blind => fin[f].mode = StageMode(fin[f].sub)

\* A run that a step leaves has the mode it had, or its request's.
RunsKeepMode ==
    \A f \in Finalize : run'[f].status # "absent" =>
        \/ run[f].status # "absent" /\ run'[f].mode = run[f].mode
        \/ fin[f].pc # "new" /\ run'[f].mode = fin[f].mode

\* The request of f is about the same submission as before, under the same mode.
SameRequest(f) ==
    /\ fin'[f].mode = fin[f].mode /\ fin'[f].blind = fin[f].blind
    /\ fin'[f].sub = fin[f].sub
    /\ fin'[f].pc = "new" <=> fin[f].pc = "new"

LEMMA OneRunKeepsMode ==
    ASSUME TypeOK, NEW f, NEW row, run' = [run EXCEPT ![f] = row],
           \/ f \in Finalize => run[f].status # "absent" /\ row.mode = run[f].mode
           \/ f \in Finalize => fin[f].pc # "new" /\ row.mode = fin[f].mode
    PROVE  RunsKeepMode
<1>1. ASSUME NEW g \in Finalize, run'[g].status # "absent"
      PROVE  \/ run[g].status # "absent" /\ run'[g].mode = run[g].mode
             \/ fin[g].pc # "new" /\ run'[g].mode = fin[g].mode
  <2>1. CASE g = f
    BY <1>1, <2>1 DEF TypeOK
  <2>2. CASE g # f
    BY <1>1, <2>2 DEF TypeOK
  <2> QED
    BY <2>1, <2>2
<1> QED
  BY <1>1 DEF RunsKeepMode

LEMMA WorkerMode ==
    ASSUME TypeOK, ModeInv, NEW w \in Worker,
           Take(w) \/ WorkerStep(w) \/ WorkerCrash(w) \/ LockLost(w) \/ WorkerDbFault(w)
    PROVE  RunsKeepMode
<1> DEFINE f == JobOf(w)
<1>0. PICK g : g = f
  OBVIOUS
<1>1. CASE UNCHANGED run
  BY <1>1 DEF RunsKeepMode
<1>2. CASE HasRow(f) /\ MarkRunning(w) /\ run' # run
  <2>1. PICK row : row = [run[f] EXCEPT !.status = "running", !.mode = fin[f].mode,
                                        !.started = "worker"]
    OBVIOUS
  <2>2. run' = [run EXCEPT ![g] = row]
    BY <1>0, <1>2, <2>1 DEF MarkRunning, UpdateRun
  <2>3. g \in Finalize => fin[g].pc # "new" /\ row.mode = fin[g].mode
    BY <1>0, <1>2, <2>1 DEF HasRow, ModeInv, TypeOK, RunRow
  <2> QED
    BY <2>2, <2>3, OneRunKeepsMode
<1>3. CASE HasRow(f) /\ (FailRun(w) \/ RecordRun(w)) /\ run' # run
  <2>1. PICK row : /\ run' = [run EXCEPT ![g] = row]
                   /\ g \in Finalize => row.mode = run[g].mode
    <3>1. CASE FailRun(w)
      <4>1. run' = [run EXCEPT ![f] = [run[f] EXCEPT !.status = "crash", !.finished = TRUE]]
        BY <1>3, <3>1 DEF FailRun, UpdateRun
      <4>2. f \in Finalize
              => [run[f] EXCEPT !.status = "crash", !.finished = TRUE].mode = run[f].mode
        BY DEF TypeOK, RunRow
      <4> QED
        BY <1>0, <4>1, <4>2
    <3>2. CASE RecordRun(w)
      <4>1. run' = [run EXCEPT ![f] = RecordedRun(w)]
        BY <1>3, <3>2 DEF RecordRun, UpdateRun
      <4>2. f \in Finalize => RecordedRun(w).mode = run[f].mode
        BY DEF RecordedRun, TypeOK, RunRow
      <4> QED
        BY <1>0, <4>1, <4>2
    <3> QED
      BY <1>3, <3>1, <3>2
  <2>2. g \in Finalize => run[g].status # "absent"
    BY <1>0, <1>3 DEF HasRow
  <2> QED
    BY <2>1, <2>2, OneRunKeepsMode
<1>4. UNCHANGED run \/ (HasRow(f) /\ (MarkRunning(w) \/ FailRun(w) \/ RecordRun(w)))
  BY DEF Take, WorkerStep, MarkRunning, FailRun, RecordRun, UpdateRun, LoadSubmission, Dispatch,
         MirrorExecution, Evaluate, InsertGrade, PublishGrade, Settle, WorkerCrash, LockLost,
         WorkerDbFault
<1> QED
  BY <1>1, <1>2, <1>3, <1>4

\* The modes after a step that leaves the requests' modes alone.
LEMMA ModeKept ==
    ASSUME TypeOK, ModeInv, RunsKeepMode,
           \A f \in Finalize : SameRequest(f)
    PROVE  ModeInv'
<1> SUFFICES ASSUME NEW f \in Finalize
             PROVE  /\ run'[f].status # "absent" => fin'[f].pc # "new" /\ run'[f].mode = fin'[f].mode
                    /\ fin'[f].pc # "new" /\ ~fin'[f].blind => fin'[f].mode = StageMode(fin'[f].sub)
  BY DEF ModeInv, StageMode
<1>1. /\ run[f].status # "absent" => fin[f].pc # "new" /\ run[f].mode = fin[f].mode
      /\ fin[f].pc # "new" /\ ~fin[f].blind => fin[f].mode = StageMode(fin[f].sub)
  BY DEF ModeInv
<1> QED
  BY <1>1 DEF RunsKeepMode, SameRequest

LEMMA ModeNext == ASSUME TypeOK, ModeInv, [Next]_vars PROVE ModeInv'
<1>1. CASE UNCHANGED vars
  BY <1>1 DEF vars, ModeInv, StageMode
<1>2. ASSUME NEW f \in Finalize, FinalizeLoad(f) PROVE ModeInv'
  <2>1. PICK s \in Submission, blind \in BOOLEAN, mode \in {"none", "exec"} :
            /\ fin' = [fin EXCEPT ![f].pc = "create", ![f].sub = s, ![f].blind = blind,
                                  ![f].mode = mode]
            /\ blind \/ mode = StageMode(s)
    BY <1>2 DEF FinalizeLoad, TypeOK, StageMode
  <2>2. /\ run[f].status = "absent" /\ UNCHANGED run
        /\ fin'[f].mode = mode /\ fin'[f].sub = s /\ fin'[f].pc = "create"
        /\ fin'[f].blind = blind
        /\ \A g \in Finalize : g # f => fin'[g] = fin[g]
    BY <1>2, <2>1 DEF FinalizeLoad, ModeInv, TypeOK, Request
  <2> SUFFICES ASSUME NEW g \in Finalize
               PROVE  /\ run'[g].status # "absent" => fin'[g].pc # "new" /\ run'[g].mode = fin'[g].mode
                      /\ fin'[g].pc # "new" /\ ~fin'[g].blind =>
                             fin'[g].mode = StageMode(fin'[g].sub)
    BY DEF ModeInv, StageMode
  <2>4. CASE g = f
    BY <2>1, <2>2, <2>4
  <2>5. CASE g # f
    BY <2>2, <2>5 DEF ModeInv
  <2> QED
    BY <2>4, <2>5
<1>3. ASSUME NEW f \in Finalize, FinalizeCreate(f) PROVE ModeInv'
  <2>1. /\ fin[f].pc = "create"
        /\ run' = run \/ run' = [run EXCEPT ![f] = NewRun(f)]
        /\ \/ fin' = [fin EXCEPT ![f].pc = "enqueue", ![f].row = TRUE]
           \/ fin' = [fin EXCEPT ![f].pc = "enqueue"]
    BY <1>3 DEF FinalizeCreate
  <2>2. \A g \in Finalize : SameRequest(g)
    <3> SUFFICES ASSUME NEW g \in Finalize PROVE SameRequest(g)
      OBVIOUS
    <3>1. CASE fin' = [fin EXCEPT ![f].pc = "enqueue", ![f].row = TRUE]
      BY <2>1, <3>1 DEF SameRequest, TypeOK, Request
    <3>2. CASE fin' = [fin EXCEPT ![f].pc = "enqueue"]
      BY <2>1, <3>2 DEF SameRequest, TypeOK, Request
    <3> QED
      BY <2>1, <3>1, <3>2
  <2>3. RunsKeepMode
    <3>1. CASE run' = run
      BY <3>1 DEF RunsKeepMode
    <3>2. CASE run' = [run EXCEPT ![f] = NewRun(f)]
      <4>1. PICK row : row = NewRun(f)
        OBVIOUS
      <4>2. row.mode = fin[f].mode
        BY <4>1 DEF NewRun, Absent
      <4> QED
        BY <2>1, <3>2, <4>1, <4>2, OneRunKeepsMode
    <3> QED
      BY <2>1, <3>1, <3>2
  <2> QED
    BY <2>2, <2>3, ModeKept
<1>4. ASSUME NEW f \in Finalize, FinalizeEnqueue(f) \/ StalledCheck(f) PROVE ModeInv'
  <2>1. UNCHANGED run
    BY <1>4 DEF FinalizeEnqueue, StalledCheck
  <2>2. \A g \in Finalize : SameRequest(g)
    BY <1>4 DEF FinalizeEnqueue, StalledCheck, SameRequest, TypeOK, Request
  <2> QED
    BY <2>1, <2>2, ModeKept DEF RunsKeepMode
<1>5. ASSUME NEW w \in Worker,
             Take(w) \/ WorkerStep(w) \/ WorkerCrash(w) \/ LockLost(w) \/ WorkerDbFault(w)
      PROVE  ModeInv'
  <2>1. UNCHANGED fin
    BY <1>5 DEF Take, WorkerStep, MarkRunning, FailRun, RecordRun, LoadSubmission, Dispatch,
                MirrorExecution, Evaluate, InsertGrade, PublishGrade, Settle, WorkerCrash,
                LockLost, WorkerDbFault
  <2> QED
    BY <1>5, <2>1, WorkerMode, ModeKept DEF SameRequest
<1>6. ASSUME NEW c \in Callback, CallbackRead(c) \/ CallbackStep(c) PROVE ModeInv'
  <2>1. UNCHANGED fin
    BY <1>6 DEF CallbackRead, CallbackStep, CallbackWrite, CallbackMirror
  <2>2. RunsKeepMode
    <3>1. CASE UNCHANGED run
      BY <3>1 DEF RunsKeepMode
    <3>2. CASE run[cb[c].run].status # "absent" /\ run' = [run EXCEPT ![cb[c].run] = CalledBackRun(c)]
      <4>1. PICK g, row : g = cb[c].run /\ row = CalledBackRun(c)
        OBVIOUS
      <4>2. g \in Finalize => row.mode = run[g].mode
        BY <4>1 DEF CalledBackRun, TypeOK, RunRow
      <4> QED
        BY <3>2, <4>1, <4>2, OneRunKeepsMode
    <3> QED
      BY <1>6, <3>1, <3>2 DEF CallbackRead, CallbackStep, CallbackWrite, CallbackMirror
  <2> QED
    BY <2>1, <2>2, ModeKept DEF SameRequest
<1>7. ASSUME NEW s \in Submission, Delete(s) PROVE ModeInv'
  <2>1. UNCHANGED fin /\ run' = RunsAfterDelete(s)
    BY <1>7 DEF Delete
  <2>2. RunsKeepMode
    BY <2>1 DEF RunsKeepMode, RunsAfterDelete, Absent
  <2> QED
    BY <2>1, <2>2, ModeKept DEF SameRequest
<1>8. CASE BrokerDown \/ BrokerUp
  <2>1. UNCHANGED <<fin, run>>
    BY <1>8 DEF BrokerDown, BrokerUp
  <2> QED
    BY <2>1, ModeKept DEF RunsKeepMode, SameRequest, ModeInv
<1> QED
  BY <1>1, <1>2, <1>3, <1>4, <1>5, <1>6, <1>7, <1>8 DEF Next

\* A grade of an executable stage that still belongs to its submission was
\* earned by a run that executed the code, whatever fails but the read of the
\* stage by a request of that submission.
THEOREM GradesAreExecuted == Spec => []GradeHasExecutedRun
<1>1. Init => ModeInv
  BY DEF Init, ModeInv, Absent
<1>2. TypeOK /\ ModeInv /\ [Next]_vars => ModeInv'
  BY ModeNext
<1>3. TypeOK /\ PipelineInv /\ ModeInv => GradeHasExecutedRun
  <2> SUFFICES ASSUME PipelineInv, ModeInv, NEW s \in Executable, grade[s].linked,
                      ~TakenBlind(s)
               PROVE  \E f \in Finalize : /\ fin[f].sub = s /\ run[f].status # "absent"
                                          /\ run[f].finished /\ run[f].mode = "exec"
    BY DEF GradeHasExecutedRun
  <2>1. PICK f \in Finalize : fin[f].sub = s /\ run[f].status # "absent" /\ run[f].finished
    BY PipelineAssumption DEF PipelineInv, GradeInv, GradeHasFinishedRun
  <2>2. run[f].mode = StageMode(s)
    BY <2>1 DEF ModeInv, TakenBlind
  <2> QED
    BY <2>1, <2>2 DEF StageMode
<1> QED
  BY <1>1, <1>2, <1>3, Invariance, PTL DEF Spec
=============================================================================
