---------------------------- MODULE GradedAnswer ----------------------------
(***************************************************************************)
(* A learner works on a task, replacing the answer as often as they like   *)
(* while its check says what it is worth, and submits it to gradeAttempt,  *)
(* which enforces the citation policy of a writing task.                   *)
(***************************************************************************)
EXTENDS GradeAttempt, AnswerChecks

CONSTANTS
    Task,        \* records [kind, spec]: what authors ask
    Answers(_)   \* the answers a learner may give to a task

Kind == {"web", "proof", "counterexample", "explanation", "derivation", "numeric",
         "complexity", "shapes", "writing"}

\* What authors and learners may send: lists and tables are finite, counts are
\* natural numbers, values whole, absent or not finite, a label is one a lens is
\* for, and a scalar has a value.  The schema of a rubric keeps its weights and
\* its threshold from being negative; a derivation's weights are taken not to be.
List(s) == s \in Seq({s[i] : i \in DOMAIN s})
Leaves(value) ==
    /\ value.leaves \in Seq(Int \cup {NotFinite})
    /\ value.shape = <<>> => value.leaves # <<>>
Asked(t) ==
    /\ t.kind \in Kind
    /\ t.kind = "web" => /\ t.spec.rubric \in Seq([got : DOMAIN Lens, weight : Nat])
                         /\ t.spec.threshold \in Nat \X Nat
    /\ t.kind = "proof" => t.spec.minSteps \in Int
    /\ t.kind = "counterexample" => IsFiniteSet(t.spec.mustViolate)
    /\ t.kind = "explanation" => /\ IsFiniteSet(t.spec.concepts) /\ t.spec.minWords \in Int
                                 /\ t.spec.maxWords \in Int \cup {Absent}
    /\ t.kind = "derivation" => /\ List(t.spec.steps)
                                /\ \A i \in DOMAIN t.spec.steps : t.spec.steps[i].weight \in Nat
    /\ t.kind = "numeric" => /\ t.spec.expected.leaves \in Seq(Int)
                             /\ {t.spec.absolute, t.spec.relative} \subseteq Int \cup {Absent}
    /\ t.kind = "complexity" => {t.spec.max, t.spec.min} \subseteq Int \cup {Absent}
    /\ t.kind = "shapes" => IsFiniteSet(DOMAIN t.spec.expected)
AnswerTo(t, a) ==
    /\ t.kind = "web" => {a.words, a.hits, a.paragraphs, a.bullets} \subseteq Nat
    /\ t.kind = "proof" => a.steps \in Seq(BOOLEAN)
    /\ t.kind = "explanation" => a.words \in Nat
    /\ t.kind \in {"numeric", "complexity"} /\ a.value # Absent => Leaves(a.value)
    /\ t.kind = "writing" => List(a.claims)
ASSUME AnswerAssumption == \A t \in Task : Asked(t) /\ \A a \in Answers(t) : AnswerTo(t, a)

VARIABLES task, answer

answering == <<task, answer>>

AnswerInit == Init /\ task \in Task /\ answer \in Answers(task)

\* checkMathFallback and the primitives beside it, by the kind of the task.
Checked(a) ==
    CASE task.kind = "web"            -> WebAnswer(a, task.spec)
      [] task.kind = "proof"          -> ProofOutline(a, task.spec)
      [] task.kind = "counterexample" -> Counterexample(a, task.spec)
      [] task.kind = "explanation"    -> Explanation(a, task.spec)
      [] task.kind = "derivation"     -> Derivation(a, task.spec)
      [] task.kind = "numeric"        -> Batch(<<Numeric(a, task.spec)>>)
      [] task.kind = "complexity"     -> Batch(<<Complexity(a, task.spec)>>)
      [] task.kind = "shapes"         -> ShapeTable(a, task.spec)
      [] task.kind = "writing"        -> Writing(a, task.spec)
Accepted(a) == Checked(a).status \in {"ok", "passed"}

Revise ==
    /\ submission = None
    /\ answer' \in Answers(task)
    /\ UNCHANGED <<task, vars>>

\* From here on only what gradeAttempt reads of task and answer matters.
SubmitAnswer(evidence) ==
    /\ Submit([evidence |-> evidence,
               claimsFail |-> /\ task.kind = "writing"
                              /\ ClaimsFail(answer.claims, task.spec.policy)])
    /\ answer' = None /\ task' = None

Grading ==
    /\ \E c \in Call : Attempt(c)
    /\ UNCHANGED answering

AnswerNext == Revise \/ (\E e \in BOOLEAN : SubmitAnswer(e)) \/ Grading
AnswerSpec == AnswerInit /\ [][AnswerNext]_<<answering, vars>>

----------------------------------------------------------------------------
Extends(a, b) ==
    /\ Len(a) <= Len(b)
    /\ \A i \in DOMAIN b : b[i] \/ (i \in DOMAIN a /\ ~a[i])
Matching(a, expected) == {n \in DOMAIN expected \cap DOMAIN a : a[n] = expected[n]}
Outside(claim, policy) == claim.refs \ (policy.allowed \cup policy.placeholders)
AsClose(a, b, e) == a # NotFinite => b # NotFinite /\ Magnitude(b - e) <= Magnitude(a - e)

\* b is at least as good an answer as a: nothing right has been lost.
AtLeastAsGood(b, a) ==
    LET spec == task.spec
    IN CASE task.kind = "web" ->
              \A part \in {"words", "hits", "paragraphs", "bullets"} : a[part] <= b[part]
         [] task.kind = "proof" -> Extends(a.steps, b.steps)
         [] task.kind = "counterexample" ->
              /\ a.witness => b.witness
              /\ a.violates \subseteq b.violates
              /\ spec.verifier # "rejects"
         [] task.kind = "explanation" ->
              /\ a.words <= b.words /\ a.concepts \subseteq b.concepts
              /\ spec.maxWords # Absent => b.words <= spec.maxWords
         [] task.kind = "derivation" ->
              \A i \in DOMAIN spec.steps :
                 LastForm(b.entries, spec.steps[i].id)
                   \in {"accepted", LastForm(a.entries, spec.steps[i].id)}
         [] task.kind = "numeric" ->
              /\ a.value # Absent /\ b.value # Absent
              /\ a.unit = b.unit /\ a.value.shape = b.value.shape
              /\ a.value.uniform => b.value.uniform
              /\ Len(a.value.leaves) = Len(spec.expected.leaves)
              /\ Len(b.value.leaves) = Len(a.value.leaves)
              /\ \A i \in DOMAIN a.value.leaves :
                   AsClose(a.value.leaves[i], b.value.leaves[i], spec.expected.leaves[i])
         [] task.kind = "complexity" ->
              /\ a.value # Absent /\ b.value # Absent /\ a.unit = b.unit
              /\ a.value.shape = <<>> /\ b.value.shape = <<>>
              /\ b.value.leaves[1] # NotFinite /\ a.value.leaves[1] # NotFinite
              /\ b.value.leaves[1] <= a.value.leaves[1]
              /\ spec.min # Absent => b.value.leaves[1] >= spec.min
         [] task.kind = "shapes" ->
              /\ Matching(a.shapes, spec.expected) \subseteq Matching(b.shapes, spec.expected)
              /\ DOMAIN b.shapes \ DOMAIN spec.expected \subseteq DOMAIN a.shapes
         [] task.kind = "writing" ->
              Len(a.claims) = Len(b.claims) /\ \A i \in DOMAIN a.claims :
                 /\ a.claims[i].required = b.claims[i].required
                 /\ a.claims[i].wellFormed => b.claims[i].wellFormed
                 /\ Outside(b.claims[i], spec.policy) \subseteq Outside(a.claims[i], spec.policy)
                 /\ a.claims[i].refs \cap spec.policy.allowed \subseteq b.claims[i].refs
                 /\ b.claims[i].refs \cap spec.policy.placeholders \subseteq a.claims[i].refs
                 /\ (a.claims[i].refs # {} => b.claims[i].refs # {})

\* An answer that keeps everything that was right and adds to it never scores
\* less, and is accepted when the earlier one was.  A counterexample whose
\* witness the author's verifier rejects is the exception: meeting the last
\* claim brings the verifier in.
BetterIsNoWorse ==
    [][submission' = None /\ AtLeastAsGood(answer', answer) =>
         /\ AtLeast(Aggregate(Checked(answer').marks), Aggregate(Checked(answer).marks))
         /\ Accepted(answer) => Accepted(answer')]_<<answering, vars>>

\* What is accepted is right in every respect that is marked; only the web
\* grader has a threshold, and only an outline that may be empty has a mark
\* nobody can get.
AcceptedHasFullMarks ==
    submission = None /\ task.kind # "web" /\ Accepted(answer) =>
      /\ \/ \A i \in DOMAIN Checked(answer).marks : Checked(answer).marks[i].got = Scale
         \/ task.kind = "proof" /\ answer.steps = <<>>
      /\ task.kind = "numeric" =>
           \A i \in DOMAIN answer.value.leaves :
              LeafReason(answer.value.leaves[i], task.spec.expected.leaves[i], task.spec) = "ok"
=============================================================================
