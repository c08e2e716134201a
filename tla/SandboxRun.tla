----------------------------- MODULE SandboxRun -----------------------------
(***************************************************************************)
(* One job of the runner (apps/runner): handleJob takes it from the queue, *)
(* the mode handler checks it, LocalFsSandbox copies the bundle into a     *)
(* fresh directory, spawns the command and collects its output until the   *)
(* child closes its streams or the kill timer fires, and the scrubbed      *)
(* output goes to the log sink.  The runner may die at any point; the      *)
(* queue then delivers the stalled job again.                              *)
(*                                                                         *)
(* Abstractions.  A bundle is the sequence of its entries in the order of  *)
(* the walk, a fixture is what its hash check finds.  Output is made of    *)
(* units, the two halves of a secret: scrubLogs recognises the secret only *)
(* when the halves stand next to each other, a half alone is plain text.   *)
(* CPU and memory are one resource.  A descendant of the child that keeps  *)
(* the pipes open (held) is part of the environment.                       *)
(***************************************************************************)
EXTENDS Integers, Sequences

CONSTANTS Request,      \* jobs as the queue may hold them
          MaxLocal,     \* MAX_LOCAL_FS_CPU, MAX_LOCAL_FS_MEMORY_MB
          Cap,          \* maxBufferBytes, in units
          MaxWritten,   \* bound: units a child writes, per stream
          MaxStalls     \* maxStalledCount of the queue

Stream == {"stdout", "stderr"}
Unit == {"head", "tail"}
FixtureCheck == {"right", "wrong", "missing"}
Entry == {"file", "directory", "link", "special", "escaping"}
Mode == {"test", "replay", "mini_experiment"}

ASSUME SandboxAssumption ==
    /\ Request \subseteq [mode : Mode, words : Nat, ask : Nat,
                          fixtures : Seq(FixtureCheck), bundle : Seq(Entry)]
    /\ MaxLocal \in Nat /\ Cap \in Nat \ {0}
    /\ MaxWritten \in [Stream -> Nat] /\ MaxStalls \in Nat

VARIABLES request,   \* the job's data
          pc,        \* where handleJob is
          index,     \* fixtures or entries already handled
          attempt,   \* which delivery of the job this is
          dirs,      \* attempts whose temporary directory exists
          children,  \* attempts whose child is alive
          deaf,      \* attempts whose child ignores SIGTERM
          told,      \* attempts whose child was sent SIGTERM
          code,      \* how the current child exited
          held,      \* does a descendant keep the current child's pipes open?
          timedOut,
          written,   \* what the current child wrote, per stream
          pipe,      \* the part of it the runner has not read
          captured, truncated,
          status,    \* executionStatus of the artifacts
          log        \* per stream, the texts appended to the job's log file

job == <<request, attempt>>
child == <<children, deaf, told, code, held>>
output == <<written, pipe, captured, truncated>>
vars == <<job, pc, index, dirs, child, timedOut, output, status, log>>

Empty == [s \in Stream |-> <<>>]

Init ==
    /\ request \in Request
    /\ pc = "queued" /\ index = 0 /\ attempt = 1
    /\ dirs = {} /\ children = {} /\ deaf = {} /\ told = {}
    /\ code = "none" /\ held = FALSE /\ timedOut = FALSE
    /\ written = Empty /\ pipe = Empty /\ captured = Empty
    /\ truncated = [s \in Stream |-> FALSE]
    /\ status = "none" /\ log = Empty

--------------------------------------------------------------------------
(* Before anything is spawned                                             *)

\* A handler that throws fails the job; the queue does not try it again.
Fail == pc' = "failed" /\ UNCHANGED index

\* Dispatch on the mode.  mini_experiment refuses what the local sandbox
\* could not grant, replay goes through its fixtures first.
Start ==
    /\ pc = "queued"
    /\ IF request.mode = "mini_experiment" /\ request.ask > MaxLocal
         THEN Fail
         ELSE /\ pc' = IF request.mode = "replay" THEN "fixtures" ELSE "sandbox"
              /\ index' = 0
    /\ UNCHANGED <<job, dirs, child, timedOut, output, status, log>>

\* A fixture passes the check when its hash is the declared one.
FixtureHolds(check) == check = "right"

\* verifyFixtures: the next declared fixture is hashed and compared.
VerifyFixture ==
    /\ pc = "fixtures"
    /\ IF index = Len(request.fixtures)
         THEN pc' = "sandbox" /\ index' = 0
         ELSE IF FixtureHolds(request.fixtures[index + 1])
                THEN pc' = pc /\ index' = index + 1
                ELSE Fail
    /\ UNCHANGED <<job, dirs, child, timedOut, output, status, log>>

\* LocalFsSandbox.run: refuse what it cannot limit and an empty command, then
\* make the run's own directory.  network is always "none" here.
EnterSandbox ==
    /\ pc = "sandbox"
    /\ IF request.ask > MaxLocal \/ request.words = 0
         THEN Fail /\ UNCHANGED dirs
         ELSE /\ pc' = "copy" /\ index' = 0
              /\ dirs' = dirs \cup {attempt}
    /\ UNCHANGED <<job, child, timedOut, output, status, log>>

\* Only plain files and directories with a name inside the bundle are copied.
Copyable(entry) == entry \in {"file", "directory"}

\* The finally block removes the directory of the run, however it ended; that
\* the removal itself fails, which the code swallows, is left out.
WithoutDir(a) == dirs \ {a}

\* copyBundleSafely: the next entry of the walk.  A refused entry throws, as
\* does a file system that fails; the finally block removes the directory with
\* what was copied so far.
CopyEntry ==
    /\ pc = "copy" /\ index < Len(request.bundle)
    /\ \/ /\ Copyable(request.bundle[index + 1])
          /\ pc' = pc /\ index' = index + 1 /\ UNCHANGED dirs
       \/ Fail /\ dirs' = WithoutDir(attempt)
    /\ UNCHANGED <<job, child, timedOut, output, status, log>>

--------------------------------------------------------------------------
(* The child                                                              *)

\* spawn: the child starts, or the command cannot be started and the error
\* event ends the run as a crash.  The kill timer is armed either way.
Spawn ==
    /\ pc = "copy" /\ index = Len(request.bundle)
    /\ \/ /\ pc' = "running"
          /\ children' = children \cup {attempt}
          /\ deaf' \in {deaf, deaf \cup {attempt}}
          /\ UNCHANGED <<dirs, status>>
       \/ /\ status' = "crash" /\ pc' = "stdout"
          /\ dirs' = WithoutDir(attempt)
          /\ UNCHANGED <<children, deaf>>
    /\ UNCHANGED <<job, index, told, code, held, timedOut, output, log>>

\* The child, or the descendant that holds its pipes, writes.
Write(s, u) ==
    /\ pc = "running" /\ (attempt \in children \/ held)
    /\ Len(written[s]) < MaxWritten[s]
    /\ written' = [written EXCEPT ![s] = Append(@, u)]
    /\ pipe' = [pipe EXCEPT ![s] = Append(@, u)]
    /\ UNCHANGED <<job, pc, index, dirs, child, timedOut, captured, truncated,
                   status, log>>

\* The current child leaves on its own or by a signal of its own making, and
\* may leave a descendant behind that holds its pipes.
Exit ==
    /\ pc = "running" /\ attempt \in children
    /\ children' = children \ {attempt}
    /\ code' \in {"zero", "nonzero", "signal"}
    /\ held' \in BOOLEAN
    /\ UNCHANGED <<job, pc, index, dirs, deaf, told, timedOut, output, status, log>>

\* A child whose run is over dies of SIGTERM, or leaves on its own.
LateExit(a) ==
    /\ a \in children /\ (pc # "running" \/ a # attempt)
    /\ children' = children \ {a}
    /\ UNCHANGED <<job, pc, index, dirs, deaf, told, code, held, timedOut, output,
                   status, log>>

LetGo ==
    /\ held /\ held' = FALSE
    /\ UNCHANGED <<job, pc, index, dirs, children, deaf, told, code, timedOut,
                   output, status, log>>

\* What is kept of a chunk: the bytes up to the cap.
UpTo(text, n) == SubSeq(text, 1, IF Len(text) < n THEN Len(text) ELSE n)
Kept(text, chunk) == UpTo(text \o chunk, Cap)

\* A data event: a chunk of the pipe, cut at the cap, joins the capture.
Data(s, n) ==
    /\ pc = "running" /\ n \in 1 .. Len(pipe[s])
    /\ captured' = [captured EXCEPT ![s] = Kept(@, SubSeq(pipe[s], 1, n))]
    /\ truncated' = [truncated EXCEPT ![s] = @ \/ Len(captured[s]) + n > Cap]
    /\ pipe' = [pipe EXCEPT ![s] = SubSeq(@, n + 1, Len(@))]
    /\ UNCHANGED <<job, pc, index, dirs, child, timedOut, written, status, log>>

\* "close" comes when the child has exited and both streams have ended;
\* "exit" would come without the second half.
ExitSeen == attempt \notin children
CloseSeen == ExitSeen /\ ~held /\ \A s \in Stream : pipe[s] = <<>>

Finished == CloseSeen

\* classifyExit and mapExitReason: a child killed by a signal counts as crashed.
Verdict == IF timedOut THEN "timeout"
           ELSE IF code = "signal" THEN "crash"
           ELSE IF code = "zero" THEN "ok" ELSE "exit_nonzero"

\* The child is done: classify, and remove the directory.
Close ==
    /\ pc = "running" /\ Finished
    /\ status' = Verdict /\ pc' = "stdout"
    /\ dirs' = WithoutDir(attempt)
    /\ UNCHANGED <<job, index, child, timedOut, output, log>>

\* One timer per run, armed at the spawn; the mutant clears it at the first
\* output.
ClearedByOutput == ~timedOut /\ \A s \in Stream : captured[s] = <<>>
TimerArmed == ~timedOut

\* The kill timer: abort() sends SIGTERM, and the AbortError ends the run at
\* once, whether or not the child dies of it.  A child that has exited cannot
\* be signalled: there is no error event, the run goes on waiting for "close".
KillTimer ==
    /\ pc = "running" /\ TimerArmed
    /\ timedOut' = TRUE
    /\ IF attempt \in children
         THEN /\ told' = told \cup {attempt}
              /\ status' = "timeout" /\ pc' = "stdout"
              /\ dirs' = WithoutDir(attempt)
         ELSE UNCHANGED <<told, status, pc, dirs>>
    /\ UNCHANGED <<job, index, children, deaf, code, held, output, log>>

--------------------------------------------------------------------------
(* After the child                                                        *)

\* Mutant: scrubbed unit by unit as it arrives; no unit alone is the secret.
ScrubbedAsItCame(text) == text

\* scrubLogs over a whole text: a head followed by its tail becomes a mark, of
\* two units as well.
SecretAt(text, i) == /\ i \in 1 .. Len(text) - 1
                     /\ text[i] = "head" /\ text[i + 1] = "tail"
Scrubbed(text) ==
    [i \in DOMAIN text |->
        IF SecretAt(text, i) \/ SecretAt(text, i - 1) THEN "scrubbed" ELSE text[i]]

\* What the artifacts hold of a stream: the capture with the note that it was
\* cut, scrubbed.
Artifact(s) == Scrubbed(IF truncated[s] THEN captured[s] \o <<"cut">> ELSE captured[s])

\* persistSubmissionOutput: a stream that is not empty is appended to its file;
\* a sink that throws fails the job.
Persist(s, here, next) ==
    /\ pc = here
    /\ \/ pc' = next /\ log' = IF Artifact(s) = <<>> THEN log
                               ELSE [log EXCEPT ![s] = Append(@, Artifact(s))]
       \/ pc' = "failed" /\ Artifact(s) # <<>> /\ UNCHANGED log
    /\ UNCHANGED <<job, index, dirs, child, timedOut, output, status>>

\* The runner dies.  The child and the directory stay; the queue finds the job
\* stalled and delivers it again, from the beginning.
Crash ==
    /\ pc \notin {"queued", "done", "failed"} /\ attempt <= MaxStalls
    /\ pc' = "queued" /\ attempt' = attempt + 1
    /\ code' = "none" /\ held' = FALSE /\ timedOut' = FALSE
    /\ written' = Empty /\ pipe' = Empty /\ captured' = Empty
    /\ truncated' = [s \in Stream |-> FALSE] /\ status' = "none"
    /\ UNCHANGED <<request, index, dirs, children, deaf, told, log>>

Runner == \/ Start \/ VerifyFixture \/ EnterSandbox \/ CopyEntry \/ Spawn
          \/ Close \/ KillTimer
          \/ \E s \in Stream : \E n \in 1 .. MaxWritten[s] : Data(s, n)
          \/ Persist("stdout", "stdout", "stderr") \/ Persist("stderr", "stderr", "done")

Environment == \/ \E s \in Stream, u \in Unit : Write(s, u)
               \/ Exit \/ LetGo \/ Crash
               \/ \E a \in 1 .. MaxStalls + 1 : LateExit(a)

Next == Runner \/ Environment

Spec == Init /\ [][Next]_vars

\* The runner's own steps go on, its kill timer among them, and a
\* child that was sent SIGTERM and does not ignore it dies.  Nothing else is
\* assumed of a child, of who holds its pipes, or of the crashes.
FairSpec ==
    /\ Spec /\ WF_vars(Runner) /\ WF_vars(KillTimer)
    /\ \A a \in 1 .. MaxStalls + 1 : WF_vars(a \in told \ deaf /\ LateExit(a))

--------------------------------------------------------------------------
(* Properties                                                             *)

TypeOK ==
    /\ request \in Request
    /\ pc \in {"queued", "fixtures", "sandbox", "copy", "running", "stdout", "stderr",
               "done", "failed"}
    /\ index \in Nat /\ attempt \in 1 .. MaxStalls + 1
    /\ dirs \subseteq 1 .. attempt /\ children \subseteq 1 .. attempt
    /\ deaf \subseteq 1 .. attempt /\ told \subseteq 1 .. attempt
    /\ code \in {"none", "zero", "nonzero", "signal"}
    /\ held \in BOOLEAN /\ timedOut \in BOOLEAN
    /\ written \in [Stream -> Seq(Unit)] /\ pipe \in [Stream -> Seq(Unit)]
    /\ captured \in [Stream -> Seq(Unit)] /\ truncated \in [Stream -> BOOLEAN]
    /\ log \in [Stream -> Seq(Seq(Unit \cup {"cut", "scrubbed"}))]
    /\ status \in {"none", "ok", "exit_nonzero", "timeout", "crash"}

\* No command runs, in any delivery of the job, for a request the handlers
\* refuse: a wrong or missing fixture of a replay, an entry of the bundle that
\* is not a plain file or directory, more than the sandbox grants, no command.
Acceptable ==
    /\ request.words > 0 /\ request.ask <= MaxLocal
    /\ \A i \in DOMAIN request.bundle : request.bundle[i] \in {"file", "directory"}
    /\ request.mode = "replay" =>
         \A i \in DOMAIN request.fixtures : request.fixtures[i] = "right"
OnlyAcceptableRuns == children # {} => Acceptable

\* A verdict of the child's own doing is backed by all of its output: ok means
\* it exited with zero, and unless the run timed out, each stream holds exactly
\* what was written, cut at the cap and marked if there was more.
VerdictIsBacked ==
    /\ status = "ok" => code = "zero" /\ attempt \notin children
    /\ status \in {"ok", "exit_nonzero"} => \A s \in Stream :
         /\ captured[s] = UpTo(written[s], Cap)
         /\ truncated[s] = (Len(written[s]) > Cap)

\* What ran was allowed to, and what is said of it is so.
RunsAreSound == OnlyAcceptableRuns /\ VerdictIsBacked

\* Whatever way the output arrives in, nothing appended to the job's log holds
\* a whole secret, and none is longer than the cap and its mark.
LogIsScrubbed == \A s \in Stream : \A k \in DOMAIN log[s] :
    /\ Len(log[s][k]) <= Cap + 1
    /\ \A i \in DOMAIN log[s][k] : ~SecretAt(log[s][k], i)

\* Unless a descendant of the child keeps its pipes open, every delivery ends,
\* the kill timer sees to it; and however it ends -- refused, killed, crashed or
\* well -- its directory is removed.  Only those the runner died in keep theirs.
RunEnds ==
    (pc # "queued" /\ ~held)
        ~> ((pc \in {"done", "failed"} /\ attempt \notin dirs) \/ held)
=============================================================================
