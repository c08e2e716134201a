---------------------------- MODULE AnswerChecks ----------------------------
(***************************************************************************)
(* The deterministic checks a learner's answer meets: the web grader's     *)
(* heuristic (apps/web/lib/grading/web-answer.ts) and the primitives of    *)
(* packages/evaluator-sdk - numeric values, derivation steps, proof        *)
(* outlines, counterexamples, explanations, claims with citations, shape   *)
(* tables and complexity bounds.  A text is what its check counts in it; a *)
(* tensor is its shape, its leaves and whether it is uniform; a share is   *)
(* out of Scale.  A check yields a status and the marks it gives, each     *)
(* with a weight in tenths.                                                *)
(***************************************************************************)
EXTENDS Integers, Sequences, FiniteSets, FiniteSetsExt

CONSTANTS Absent,     \* a field the author or the learner left out
          NotFinite  \* NaN or an infinity in an observed tensor

Scale == 120

\* The first rule whose condition holds decides; the last one always does.
Decide(rules) == rules[Min({i \in DOMAIN rules : rules[i][1]})][2]

Share(part, whole) == IF whole = 0 THEN 0 ELSE (Scale * part) \div whole
Mark(got, weight) == [got |-> got, weight |-> weight]
Full(weight) == Mark(Scale, weight)
Result(status, marks) == [status |-> status, marks |-> marks]
Invalid == Result("spec_invalid", <<>>)
Held(flags) == Cardinality({i \in DOMAIN flags : flags[i]})

\* A score is a pair, what was got and out of what; no weight at all is zero.
Added(sum, m) == <<sum[1] + m.got * m.weight, sum[2] + m.weight>>
Aggregate(marks) ==
    LET sum[i \in 0 .. Len(marks)] == IF i = 0 THEN <<0, 0>> ELSE Added(sum[i - 1], marks[i])
        total == sum[Len(marks)]
    IN IF total[2] = 0 THEN <<0, 1>> ELSE <<total[1], Scale * total[2]>>
AtLeast(score, other) == score[1] * other[2] >= other[1] * score[2]
Graded(score, threshold) ==
    Decide(<< <<AtLeast(score, threshold), "passed">>,
              <<score[1] > 0, "partial">>,
              <<TRUE, "failed">> >>)

----------------------------------------------------------------------------
(* The web grader: words, evidence markers, paragraphs and bullets. *)

\* Mutant: the branch below the floor forgets that it covers half the scale.
LengthUnhalved(words) ==
    Decide(<< <<words >= 80, Scale>>, <<words <= 20, 6 * words>>, <<TRUE, words + 40>> >>)
\* Half of the scale up to FLOOR_WORDS, the other half up to TARGET_WORDS.
LengthShare(words) ==
    Decide(<< <<words >= 80, Scale>>, <<words <= 20, 3 * words>>, <<TRUE, words + 40>> >>)
EvidenceShare(hits) == Min({40 * hits, Scale})
StructureShare(a) == Min({30 * (a.paragraphs + Min({a.bullets, 3})), Scale})

\* How much of a dimension is length, evidence and structure.
Lens == [evidence  |-> <<4, 6, 0>>, clarity   |-> <<6, 0, 4>>,
         structure |-> <<3, 0, 7>>, reasoning |-> <<5, 5, 0>>,
         other     |-> <<4, 3, 3>>]
FallbackRubric == <<Mark("evidence", 4), Mark("reasoning", 4), Mark("clarity", 2)>>

WebShare(label, a) ==
    LET w == Lens[label]
    IN (w[1] * LengthShare(a.words) + w[2] * EvidenceShare(a.hits)
        + w[3] * StructureShare(a)) \div 10
\* gradeWebAnswer; a rubric says for each dimension what its label asks for.
WebAnswer(a, spec) ==
    LET rubric == IF spec.rubric = <<>> THEN FallbackRubric ELSE spec.rubric
        marks  == [d \in DOMAIN rubric |-> Mark(WebShare(rubric[d].got, a), rubric[d].weight)]
    IN Result(IF a.words = 0 THEN "failed" ELSE Graded(Aggregate(marks), spec.threshold), marks)

----------------------------------------------------------------------------
(* Structural checks of mathematical prose. *)

\* steps says of each step whether it is justified.
ProofOutline(a, spec) ==
    LET steps     == a.steps
        justified == Held(steps)
        given     == <<Full(5), Mark(Share(justified, Len(steps)), 5)>>
    IN Decide(<<
         <<spec.minSteps < 0, Invalid>>,
         <<Len(steps) < spec.minSteps, Result("failed", <<Mark(0, 5)>>)>>,
         <<~spec.justify, Result("ok", <<Full(5)>>)>>,
         <<justified < Len(steps), Result("failed", given)>>,
         <<TRUE, Result("ok", given)>> >>)

\* Mutant: the claims the witness does not break are only scored.
UnmetIgnored(required, given) == {}
Unmet(required, given) == required \ given

\* The verifier is the author's: it accepts, rejects or throws, or is absent.
Counterexample(a, spec) ==
    LET unmet  == Unmet(spec.mustViolate, a.violates)
        claims == <<Full(3), Mark(Share(Cardinality(spec.mustViolate \cap a.violates),
                                        Cardinality(spec.mustViolate)), 3)>>
    IN Decide(<<
         <<spec.mustViolate = {}, Invalid>>,
         <<~a.witness, Result("failed", <<Mark(0, 5)>>)>>,
         <<unmet # {}, Result("failed", claims)>>,
         <<spec.verifier = "none", Result("ok", claims)>>,
         <<spec.verifier = "throws", Result("spec_invalid", claims)>>,
         <<spec.verifier = "rejects", Result("failed", Append(claims, Mark(0, 4)))>>,
         <<TRUE, Result("ok", Append(claims, Full(4)))>> >>)

Explanation(a, spec) ==
    LET unmet    == Unmet(spec.concepts, a.concepts)
        coverage == Mark(Share(Cardinality(spec.concepts \cap a.concepts),
                               Cardinality(spec.concepts)), 5)
        tooLong  == spec.maxWords # Absent /\ a.words > spec.maxWords
    IN Decide(<<
         <<spec.minWords < 0 \/ (spec.maxWords # Absent /\ spec.maxWords < spec.minWords), Invalid>>,
         <<spec.concepts = {}, Invalid>>,
         <<a.words < spec.minWords \/ tooLong, Result("failed", <<coverage, Mark(0, 5)>>)>>,
         <<unmet # {}, Result("failed", <<coverage, Full(5)>>)>>,
         <<TRUE, Result("ok", <<coverage, Full(5)>>)>> >>)

----------------------------------------------------------------------------
(* Derivations: a form is accepted, other or blank; the last entry of an id *)
(* is the one read; an optional step left out has full marks.               *)

LastForm(entries, id) ==
    LET at == {i \in DOMAIN entries : entries[i].id = id}
    IN IF at = {} THEN "blank" ELSE entries[Max(at)].form
StepStatus(entries, step) ==
    Decide(<< <<~step.hasForms, "spec_invalid">>,
              <<LastForm(entries, step.id) = "blank", "missing">>,
              <<LastForm(entries, step.id) = "accepted", "passed">>,
              <<TRUE, "mismatch">> >>)
Derivation(a, spec) ==
    LET steps    == spec.steps
        status   == [i \in DOMAIN steps |-> StepStatus(a.entries, steps[i])]
        earned(i) == status[i] = "passed" \/ (status[i] = "missing" /\ ~steps[i].required)
    IN Result(IF steps # <<>> /\ \A i \in DOMAIN steps : status[i] = "passed"
              THEN "ok" ELSE "failed",
              [i \in DOMAIN steps |-> Mark(IF earned(i) THEN Scale ELSE 0, steps[i].weight)])

----------------------------------------------------------------------------
(* Numbers: tolerances are whole units and tenths of the expected value. *)

Magnitude(n) == IF n < 0 THEN -n ELSE n
Given(bound) == IF bound = Absent THEN 0 ELSE bound

LeafReason(o, e, spec) ==
    IF o = NotFinite THEN "not_finite"
    ELSE IF 10 * Magnitude(o - e) <= 10 * Given(spec.absolute) + Given(spec.relative) * Magnitude(e)
         THEN "ok" ELSE "value_mismatch"
\* walkPairs: the first leaf that fails says why.
ReasonOfLeaves(observed, spec) ==
    LET reason == [i \in DOMAIN observed.leaves |->
                     LeafReason(observed.leaves[i], spec.expected.leaves[i], spec)]
        wrong  == {i \in DOMAIN reason : reason[i] # "ok"}
    IN IF wrong = {} THEN "ok" ELSE reason[Min(wrong)]
Numeric(seen, spec) ==
    IF (spec.absolute = Absent /\ spec.relative = Absent)
       \/ Given(spec.absolute) < 0 \/ Given(spec.relative) < 0 THEN "spec_invalid"
    ELSE IF seen.value = Absent THEN "missing"
    ELSE IF spec.unit # Absent /\ seen.unit # spec.unit THEN "unit_mismatch"
    ELSE IF ~seen.value.uniform THEN "shape_mismatch"
    ELSE IF ~spec.expected.uniform \/ (spec.shape # Absent /\ spec.shape # spec.expected.shape)
         THEN "spec_invalid"
    ELSE IF seen.value.shape # spec.expected.shape THEN "shape_mismatch"
    ELSE ReasonOfLeaves(seen.value, spec)

\* checkComplexityBound: a scalar within inclusive bounds.
Complexity(seen, spec) ==
    IF (spec.max = Absent /\ spec.min = Absent)
       \/ (spec.max # Absent /\ spec.min # Absent /\ Given(spec.max) < Given(spec.min)) THEN "spec_invalid"
    ELSE IF seen.value = Absent THEN "missing"
    ELSE IF seen.value.shape # <<>> THEN "not_scalar"
    ELSE LET n == seen.value.leaves[1]
         IN IF n = NotFinite THEN "not_finite"
            ELSE IF spec.unit # Absent /\ seen.unit # spec.unit THEN "unit_mismatch"
            ELSE IF spec.max # Absent /\ n > spec.max THEN "above_max"
            ELSE IF spec.min # Absent /\ n < spec.min THEN "below_min"
            ELSE "ok"

\* checkNumericBatch, checkComplexityBatch: every one of at least one.
Batch(reasons) ==
    Result(IF reasons # <<>> /\ \A i \in DOMAIN reasons : reasons[i] = "ok" THEN "ok" ELSE "failed",
           [i \in DOMAIN reasons |-> Mark(IF reasons[i] = "ok" THEN Scale ELSE 0, 10)])

\* checkShapeTable: a name maps to its shape; a wrong one has an entry that
\* is no size.
ShapeTable(a, spec) ==
    LET names == DOMAIN spec.expected
        right == {n \in names : n \in DOMAIN a.shapes /\ a.shapes[n] = spec.expected[n]}
        extra == IF spec.allowExtra THEN {} ELSE DOMAIN a.shapes \ names
    IN Result(IF names # {} /\ right = names /\ extra = {} THEN "ok" ELSE "failed",
              <<Mark(Share(Cardinality(right), Cardinality(names)), 10)>>)

----------------------------------------------------------------------------
(* Claims and the references they cite. *)

\* checkWritingClaim: unauthorised references fail whatever else is cited,
\* placeholders are allowed for the whole stage or fail when they stand alone.
ClaimReason(claim, policy) ==
    LET accepted == claim.refs \cap policy.allowed
        holders  == (claim.refs \ policy.allowed) \cap policy.placeholders
    IN Decide(<<
         <<~claim.wellFormed, "spec_invalid">>,
         <<claim.refs \ (accepted \cup holders) # {}, "disallowed_citation">>,
         <<accepted # {}, "ok">>,
         <<holders # {} /\ ~policy.allowHolders, "placeholder_disallowed">>,
         <<holders # {} \/ ~claim.required, "ok">>,
         <<TRUE, "no_citation">> >>)
\* enforceCitationPolicy in strict mode; the other mode only reports.
ClaimsFail(claims, policy) ==
    \E i \in DOMAIN claims : ClaimReason(claims[i], policy) # "ok"
\* The claims as marks, which is how a rubric that scores them reads the batch.
Writing(a, spec) ==
    Batch([i \in DOMAIN a.claims |-> ClaimReason(a.claims[i], spec.policy)])
=============================================================================
