---------------------------- MODULE GradeAttempt ----------------------------
(***************************************************************************)
(* gradeAttempt of packages/evaluator-sdk with its two stores: calls for   *)
(* one idempotency key, retried and overlapping, each with the artifacts   *)
(* of its own run, a snapshot of the deterministic work that a retry       *)
(* reuses, citation enforcement, the default and a custom scorer, and      *)
(* stores and scorers that fail between any two steps.  A rubric score is  *)
(* a number up to MaxScore.                                                *)
(***************************************************************************)
EXTENDS Naturals

CONSTANTS
    Call,             \* calls of gradeAttempt for the key
    MaxScore,         \* full marks
    RubricThreshold,  \* rubric.pass_threshold
    StageThreshold,   \* what stage_policy.pass_threshold may be: None or a score
    Executable,       \* the stage's runner mode is not "none"
    NeedsEvidence,    \* the rubric defines hidden_correct
    MaxFaults,        \* bound on stores and scorers that throw
    None

Score == 0..MaxScore
Submission == [evidence : BOOLEAN, claimsFail : BOOLEAN]
ASSUME GradeAssumption ==
    /\ MaxScore \in Nat
    /\ MaxFaults \in Nat
    /\ RubricThreshold \in Score
    /\ StageThreshold \subseteq Score \cup {None}
    /\ Executable \in BOOLEAN
    /\ NeedsEvidence \in BOOLEAN
    /\ None \notin Submission

VARIABLES
    submission,  \* what the learner submitted, None before
    store,       \* the grade under the key
    snap,        \* the intermediate result under the key
    call,        \* per call: where it is and the locals it keeps
    faults,      \* how often a store or a scorer has thrown
    ready,       \* calls whose own run and evidence passed preflight
    measured     \* scores the default scorer gave to such runs

vars == <<submission, store, snap, call, faults, ready, measured>>

\* RunArtifacts as the calls read them, and how the caller wants it scored.
Input == [ran : BOOLEAN, tests : Score, custom : BOOLEAN,
          strict : BOOLEAN, threshold : StageThreshold]
Snapshot == [threshold : Score, dims : Score \cup {None}]
Status == {"passed", "partial", "failed", "execution_failed"}
Grade == [status : Status, score : Score, threshold : Score, by : Call]

Idle == [pc |-> "idle"]
Init ==
    /\ submission = None
    /\ store = None /\ snap = None
    /\ call = [c \in Call |-> Idle]
    /\ faults = 0
    /\ ready = {} /\ measured = {}

Submit(s) ==
    /\ submission = None
    /\ submission' = s
    /\ UNCHANGED <<store, snap, call, faults, ready, measured>>

Begin(c, input) ==
    /\ submission # None
    /\ call[c] = Idle
    /\ call' = [call EXCEPT ![c] = [pc |-> "look", in |-> input]]
    /\ UNCHANGED <<submission, store, snap, faults, ready, measured>>

Return(c) == call' = [call EXCEPT ![c] = [pc |-> "ended", strict |-> @.in.strict]]

\* findByKey: a grade of the key is returned as it is.
Look(c) ==
    /\ call[c].pc = "look"
    /\ IF store # None THEN Return(c)
       ELSE call' = [call EXCEPT ![c] = [pc |-> "recall", in |-> @.in]]
    /\ UNCHANGED <<submission, store, snap, faults, ready, measured>>

\* intermediateStore.find.
Recall(c) ==
    /\ call[c].pc = "recall"
    /\ call' = [call EXCEPT ![c] = [pc |-> "check", in |-> @.in, cached |-> snap]]
    /\ UNCHANGED <<submission, store, snap, faults, ready, measured>>

\* isExecutableStage and the status of the run this call was given.
RunFailed(input) == Executable /\ ~input.ran
LacksEvidence == NeedsEvidence /\ ~submission.evidence
Own(input) == IF input.threshold # None THEN input.threshold ELSE RubricThreshold

\* Citation enforcement, which every call runs for itself.
Refused(input, cached) == input.strict /\ submission.claimsFail

\* Mutant: the checkpoint keeps whatever dimensions the call came to.
CarriedAll(custom, dims, cached) == dims
\* The dimensions a checkpoint carries: never a custom scorer's.
Carried(custom, dims, cached) ==
    IF ~custom THEN dims ELSE IF cached = None THEN None ELSE cached.dims

\* The call's own preflight.
Passes(input) == ~RunFailed(input) /\ ~LacksEvidence

Derived(score, threshold) ==
    IF score >= threshold THEN "passed" ELSE IF score > 0 THEN "partial" ELSE "failed"

\* Everything from preflight to the checkpoint; the grade is not yet inserted.
ExecutionFailed(c) ==
    /\ call[c].pc = "check" /\ call[c].cached = None
    /\ ~Passes(call[c].in) /\ RunFailed(call[c].in)
    /\ call' = [call EXCEPT ![c] =
         [pc |-> "insert", in |-> @.in,
          grade |-> [status |-> "execution_failed", score |-> 0,
                     threshold |-> Own(@.in), by |-> c]]]
    /\ UNCHANGED <<submission, store, snap, faults, ready, measured>>

EvidenceMissing(c) ==
    /\ call[c].pc = "check" /\ call[c].cached = None
    /\ ~Passes(call[c].in) /\ ~RunFailed(call[c].in)
    /\ Return(c)
    /\ UNCHANGED <<submission, store, snap, faults, ready, measured>>

CitationRefused(c) ==
    /\ call[c].pc = "check"
    /\ call[c].cached # None \/ Passes(call[c].in)
    /\ Refused(call[c].in, call[c].cached)
    /\ Return(c)
    /\ UNCHANGED <<submission, store, snap, faults, ready, measured>>

\* The scorer is a custom one, the snapshot's dimensions, or the default.
ScoreBy(input, cached, opinion) ==
    IF input.custom THEN opinion
    ELSE IF cached # None /\ cached.dims # None THEN cached.dims ELSE input.tests

Evaluate(c, opinion) ==
    LET input     == call[c].in
        cached    == call[c].cached
        dims      == ScoreBy(input, cached, opinion)
        threshold == IF cached # None THEN cached.threshold ELSE Own(input)
        saves     == cached = None \/ (~input.custom /\ cached.dims = None)
    IN /\ call[c].pc = "check"
       /\ cached # None \/ Passes(input)
       /\ ~Refused(input, cached)
       /\ snap' = IF saves
                  THEN [threshold |-> threshold, dims |-> Carried(input.custom, dims, cached)]
                  ELSE snap
       /\ call' = [call EXCEPT ![c] =
            [pc |-> "insert", in |-> input,
             grade |-> [status |-> Derived(dims, threshold), score |-> dims,
                        threshold |-> threshold, by |-> c]]]
       /\ ready' = IF ~RunFailed(input) /\ ~LacksEvidence THEN ready \cup {c} ELSE ready
       /\ measured' = IF ~input.custom THEN measured \cup {dims} ELSE measured
       /\ UNCHANGED <<submission, store, faults>>

\* GradeStore.insert: a free key takes the grade, and the map of the in-memory
\* store takes it whatever is under the key.
Insert(c) ==
    /\ call[c].pc = "insert"
    /\ store' = call[c].grade
    /\ Return(c)
    /\ UNCHANGED <<submission, snap, faults, ready, measured>>

\* The unique index of the Prisma store refuses a second grade of the key (P2002).
InsertRefused(c) ==
    /\ call[c].pc = "insert"
    /\ store # None
    /\ Return(c)
    /\ UNCHANGED <<submission, store, snap, faults, ready, measured>>

\* A store rejects or a scorer throws, before what it was to do is done.
Throws(c) ==
    /\ call[c].pc \in {"look", "recall", "check", "insert"}
    /\ faults < MaxFaults
    /\ faults' = faults + 1
    /\ Return(c)
    /\ UNCHANGED <<submission, store, snap, ready, measured>>

Attempt(c) ==
    \/ \E input \in Input : Begin(c, input)
    \/ Look(c)
    \/ Recall(c)
    \/ ExecutionFailed(c)
    \/ EvidenceMissing(c)
    \/ CitationRefused(c)
    \/ \E opinion \in Score : Evaluate(c, opinion)
    \/ Insert(c)
    \/ InsertRefused(c)
    \/ Throws(c)

Next ==
    \/ \E s \in Submission : Submit(s)
    \/ \E c \in Call : Attempt(c)
Spec == Init /\ [][Next]_vars

----------------------------------------------------------------------------
Scored == store # None /\ store.status # "execution_failed"

\* A grade with a score stands on a run that passed preflight: its own, or
\* that of an earlier call whose snapshot the retry took over.
ScoredNeedsReadyRun == Scored => ready # {}

\* What a snapshot offers to retries is what the default scorer measured;
\* a custom scorer's opinion is never reused.
SnapshotIsMeasured == snap # None /\ snap.dims # None => snap.dims \in measured

\* A grade with a score that a strict call inserted is of claims that satisfy
\* the allow-list, also when the call took the rest of preflight as done.
StrictIsBacked == Scored /\ call[store.by].strict => ~submission.claimsFail

\* What calls hand on to each other -- a snapshot, a grade under the same key --
\* never lets a score past its run, its scorer or its citations.
ReuseIsSafe == ScoredNeedsReadyRun /\ SnapshotIsMeasured /\ StrictIsBacked
=============================================================================
