---------------------------- MODULE ContentRules ----------------------------
(***************************************************************************)
(* What the content SDK says of an authored package: the structural layer  *)
(* (files and schemas), the cross links between stages, graph, branches    *)
(* and exploration tree, the sandbox layer with its plan of prerequisite   *)
(* stages, and the pedagogy layer with its leak tests.  A package is a     *)
(* record of what the loader finds and parses; files, ids and nodes are    *)
(* numbers in the order the loader sorts them, and a branch file has the   *)
(* number its name stands for.  An issue is a code and what it is about.   *)
(***************************************************************************)
EXTENDS Naturals, Sequences, FiniteSets

CONSTANTS
    NoRef,         \* an absent optional reference, an id that is no string
    DefaultAttack  \* attack ids of DEFAULT_ATTACKS

Issues(code, where) == [code : {code}, at : where]
Stages(p) == DOMAIN p.stages
Nodes(p) == DOMAIN p.nodes
Branches(p) == DOMAIN p.branches
Rubrics(p) == DOMAIN p.rubrics
Hints(p) == DOMAIN p.hints
StageIds(p) == {p.stages[f].id : f \in Stages(p)}
BranchIds(p) == {p.branches[f].id : f \in Branches(p)}

----------------------------------------------------------------------------
(* Structure: the files are there and parse.  A block's "wrong" holds what  *)
(* has a value of another type than the schema gives it.                   *)

RequiredFile == {"package.yaml", "graph.yaml"}
RequiredDir == {"artifact", "curriculum", "stages", "workspace"}

\* liftStageTopLevelIntoPolicy: what is written at the top level wins over the
\* same key under stage_policy, and a stage without either has the default.
Lifted(written, default) ==
    CASE written.top # NoRef -> written.top
      [] written.top = NoRef /\ written.nested # NoRef -> written.nested
      [] OTHER -> default
Runner(s) == Lifted(s.runner, "none")

\* mentorVisibilitySchema: seven scopes, three of which show answers.
Answers(s) == {s.sees.canonical, s.sees.branches, s.sees.evidence}
Visibility(s) == Answers(s) \cup s.sees.others

\* A palette has tiles and a skeleton dimensions.
WidgetsParse(s) == \A list \in {"palette", "skeleton"} \cap DOMAIN s.lists : s.lists[list] > 0
\* An answer schema has steps, and a tolerance is absolute or relative.
AnswerParses(s) == ("answer" \in DOMAIN s.lists => s.lists["answer"] > 0) /\ {} \notin s.tolerances
\* A field is known by its id or by its name.
FieldsParse(s) == {} \notin s.fields
InputsParse(s) == WidgetsParse(s) /\ AnswerParses(s) /\ FieldsParse(s) /\ 0 \notin s.forms
\* A reviewer says what is criticised.
WritingParses(s) == "reviewer" \in s.has => "criticism" \in s.has
\* A pass threshold, in hundredths, is at most one.
PolicyParses(s) == InputsParse(s) /\ (s.threshold # NoRef => s.threshold <= 100)

\* The subtypes of mathematics and of writing are kept apart, and no other
\* type of stage has one.
SubtypeFits(s) == s.subtype # NoRef => s.type = s.subtype

\* stageSchema and its refinement, on what preprocessing lifted.
StageParses(s) ==
    /\ s.wrong = {} /\ PolicyParses(s) /\ WritingParses(s) /\ SubtypeFits(s)
    /\ "after_pass" \in Visibility(s) => s.threshold # NoRef
    /\ s.mode \in {"code", "experiment"} => Runner(s) # "none"

\* branchSchema.
BranchParses(b) == b.level = "explicit" => b.sources # {}

\* normalizeAuthoredRubric: the criteria of each dimension.  An authored
\* criterion always gets one, be it a placeholder.
Criteria(r) ==
    IF r.shape = "dimensions" THEN r.counts
    ELSE [d \in DOMAIN r.counts |-> IF r.counts[d] = 0 THEN 1 ELSE r.counts[d]]
\* The threshold, in hundredths as written: a share of one, of the total points
\* or of a hundred.
PassShare(r) ==
    IF r.shape = "dimensions" \/ r.threshold <= 100 THEN [num |-> r.threshold, den |-> 100]
    ELSE IF r.total \notin {NoRef, 0} THEN [num |-> r.threshold, den |-> 100 * r.total]
    ELSE IF r.threshold <= 10000 THEN [num |-> r.threshold, den |-> 10000]
    ELSE [num |-> r.threshold, den |-> 100]
RubricParses(r) ==
    /\ Criteria(r) # <<>> /\ \A d \in DOMAIN Criteria(r) : Criteria(r)[d] > 0
    /\ PassShare(r).num <= PassShare(r).den

\* normalizeAuthoredHint: the levels stand in for hints that are missing.
HintCount(h) == IF h.hints > 0 THEN h.hints ELSE h.levels

\* runnerStageSchema: a mode that runs has a command, and the wall clock is not
\* written as a timeout, which the runner would not read.
RunnerParses(r) == "timeout" \notin r.has /\ (r.mode # "none" => "command" \in r.has)
ResourcesParse(p) == "timeout" \notin p.resources

\* safetySchema: a safety block has something to keep back.
SafetyParses(p) == p.safety # {}
PackageParses(p) == "package" \notin p.wrong /\ SafetyParses(p)
GraphParses(p) == "graph" \notin p.wrong /\ Nodes(p) # {}

\* The files that do not parse.
Broken(p) ==
    (IF PackageParses(p) THEN {} ELSE {<<"package", 1>>})
    \cup (IF GraphParses(p) THEN {} ELSE {<<"graph", 1>>})
    \cup {<<"stage", f>> : f \in {f \in Stages(p) : ~StageParses(p.stages[f])}}
    \cup {<<"branch", f>> : f \in {f \in Branches(p) : ~BranchParses(p.branches[f])}}
    \cup {<<"rubric", f>> : f \in {f \in Rubrics(p) : ~RubricParses(p.rubrics[f])}}
    \cup {<<"hints", f>> : f \in {f \in Hints(p) : HintCount(p.hints[f]) = 0}}
    \cup IF p.runner # NoRef
             /\ (~ResourcesParse(p) \/ \E s \in DOMAIN p.runner : ~RunnerParses(p.runner[s]))
          THEN {<<"runner", 1>>} ELSE {}

\* validateStructural.
StructuralErrors(p) ==
    Issues("file.missing", IF RequiredFile \subseteq p.found THEN {} ELSE {NoRef})
    \cup Issues("schema.invalid", Broken(p))
StructuralWarnings(p) ==
    Issues("dir.missing", IF RequiredDir \subseteq p.found THEN {} ELSE {NoRef})
    \cup IF p.runner = NoRef THEN Issues("runner.missing", {NoRef}) ELSE {}

\* loadPackage throws when a file it reads is missing or does not parse.
Loads(p) == StructuralErrors(p) = {}

----------------------------------------------------------------------------
(* Cross links. *)

\* Mutant: the form of the reference is checked, not that the file is there.
LinkedByForm(p, written) == written.form \in {"full", "short"}
\* A stage as the graph writes it: a whole path, one below curriculum/, a file
\* name, or a stage id.  The validator takes the first two.
Linked(p, written) == written.form \in {"full", "short"} /\ written.file \in Stages(p)

StageLinkErrors(p) ==
    Issues("stage.artifact_ref.missing",
           {f \in Stages(p) : ~(p.stages[f].artifacts \subseteq p.artifact \cup p.outside)})
    \cup Issues("stage.rubric.missing",
                {f \in Stages(p) : p.stages[f].rubric \notin Rubrics(p) \cup {NoRef}})

\* Every unlock, by choice or not, names a node; every choice a branch file.
GraphLinkErrors(p) ==
    Issues("graph.stage.missing", {n \in Nodes(p) : ~Linked(p, p.nodes[n].stage)})
    \cup Issues("graph.branch.missing",
                {n \in Nodes(p) : ~(p.nodes[n].choices \subseteq Branches(p))})
    \cup Issues("graph.unlock.missing",
                {n \in Nodes(p) : ~(p.nodes[n].unlocks \subseteq Nodes(p))})
    \cup Issues("graph.unlock_by_choice.missing",
                {n \in Nodes(p) : ~(p.nodes[n].byChoice \subseteq Nodes(p))})

BranchLinkErrors(p) ==
    LET cited == {f \in Branches(p) : p.branches[f].level # "expert_reconstructed"}
    IN  Issues("branch.evidence.missing", {f \in cited : p.branches[f].evidence = {}})
        \cup Issues("branch.evidence.unresolved",
                    {f \in cited : ~(p.branches[f].evidence \subseteq p.artifact \cup p.outside)})

LinkWarnings(p) ==
    Issues("stage.artifact_ref.non_artifact",
           {f \in Stages(p) : p.stages[f].artifacts \cap p.outside # {}})
    \cup Issues("branch.next_node.missing",
                {f \in Branches(p) : ~(p.branches[f].next \subseteq Nodes(p))})
    \cup Issues("stage.hints.missing",
                {f \in Stages(p) : p.stages[f].hints \notin Hints(p) \cup {NoRef}})

TraceIds(p) == {p.trace[i].id : i \in DOMAIN p.trace} \ {NoRef}

\* validateTraceNode and the pass that collects the ids.
TraceNodeErrors(p) ==
    LET ids == TraceIds(p)
        named == {i \in DOMAIN p.trace : p.trace[i].id # NoRef}
        at(wrong) == {p.trace[i].id : i \in wrong}
    IN  Issues("trace.node.id_invalid", IF named = DOMAIN p.trace THEN {} ELSE {NoRef})
        \cup Issues("trace.node.duplicate_id",
                    at({i \in named : \E j \in named : j < i /\ p.trace[i].id = p.trace[j].id}))
        \cup Issues("trace.parent.missing", at({i \in named : ~(p.trace[i].parents \subseteq ids)}))
        \cup Issues("trace.parent.self_reference",
                    at({i \in named : p.trace[i].id \in p.trace[i].parents}))
        \cup Issues("trace.child.missing", at({i \in named : ~(p.trace[i].children \subseteq ids)}))
        \cup Issues("trace.child.self_reference",
                    at({i \in named : p.trace[i].id \in p.trace[i].children}))
        \cup Issues("trace.branch_id.missing",
                    at({i \in named : p.trace[i].kind = "branch" /\ p.trace[i].branch = NoRef}))
        \cup Issues("trace.branch_id.unresolved",
                    at({i \in named : /\ p.trace[i].kind = "branch"
                                      /\ p.trace[i].branch \notin BranchIds(p) \cup {NoRef}}))

\* validateTraceEdges: a self loop is a warning only.
TraceEdgeErrors(p) ==
    Issues("trace.edge.endpoint_missing", (UNION {{e[1], e[2]} : e \in p.edges}) \ TraceIds(p))

Claims(p, branch) ==
    {i \in DOMAIN p.trace : /\ p.trace[i].id # NoRef
                            /\ p.trace[i].kind = "branch"
                            /\ p.trace[i].branch = branch}
\* Branches and branch nodes of the tree map one to one.
TraceMappingErrors(p) ==
    Issues("trace.branch_id.duplicate", {b \in BranchIds(p) : Cardinality(Claims(p, b)) > 1})
TraceMappingWarnings(p) ==
    Issues("trace.branch.unmapped", {b \in BranchIds(p) : Claims(p, b) = {}})

\* validateAraCrossLink.
CrossLinkErrors(p) ==
    StageLinkErrors(p) \cup GraphLinkErrors(p) \cup BranchLinkErrors(p)
    \cup IF p.trace = NoRef THEN {}
         ELSE TraceNodeErrors(p) \cup TraceEdgeErrors(p) \cup TraceMappingErrors(p)

----------------------------------------------------------------------------
(* The sandbox layer. *)

\* stageRefForGraphStage takes a bare file name as well.
StageOf(p, n) ==
    IF p.nodes[n].stage.form # "id" /\ p.nodes[n].stage.file \in Stages(p)
    THEN p.stages[p.nodes[n].stage.file].id ELSE NoRef

Gated(p, stage) ==
    p.runner # NoRef /\ stage \in DOMAIN p.runner /\ p.runner[stage].mode # "none"

Parents(p, n) == {m \in Nodes(p) : n \in p.nodes[m].unlocks \cup p.nodes[m].byChoice}

\* ancestors: the walk backwards over both kinds of unlock.
Ancestors(p, n) ==
    LET seen[k \in Nat] ==
            IF k = 0 THEN Parents(p, n)
            ELSE seen[k - 1] \cup UNION {Parents(p, m) : m \in seen[k - 1]}
    IN  seen[Cardinality(Nodes(p))]

\* derivePrereqsPlans.
Plans(p) ==
    {[stage |-> StageOf(p, n), node |-> n,
      needs |-> {StageOf(p, m) : m \in {m \in Ancestors(p, n) : Gated(p, StageOf(p, m))}}] :
     n \in {n \in Nodes(p) : Gated(p, StageOf(p, n))}}

\* validateSandbox: fixtures exist with the hash declared, outputs stay inside.
SandboxErrors(p) ==
    IF p.runner = NoRef THEN {}
    ELSE Issues("fixture.missing", {s \in DOMAIN p.runner : "no_fixture" \in p.runner[s].has})
         \cup Issues("fixture.hash_mismatch",
                     {s \in DOMAIN p.runner : "stale_fixture" \in p.runner[s].has})
         \cup Issues("sandbox.output_paths.invalid",
                     {plan.stage : plan \in {plan \in Plans(p) :
                                      "escaping_output" \in p.runner[plan.stage].has}})

SandboxWarnings(p) ==
    IF p.runner = NoRef THEN Issues("sandbox.runner.missing", {NoRef})
    ELSE Issues("sandbox.output_paths.missing",
                {plan.stage : plan \in {plan \in Plans(p) : "output" \notin p.runner[plan.stage].has}})
         \cup IF Plans(p) # {} /\ p.canonical = {}
              THEN Issues("sandbox.canonical.missing", {NoRef}) ELSE {}

----------------------------------------------------------------------------
(* Pedagogy. *)

GradedByModel(s) == s.kind \in {"rubric", "hybrid"}
MentorSeesAnswers(s) == \E scope \in Answers(s) : scope # "never"

HasSteps(s) == "answer" \in DOMAIN s.lists
\* A stage of mathematics that can be graded without a model.
HasContract(s) == HasSteps(s) \/ s.forms # {} \/ s.tolerances # {} \/ "shapes" \in s.has

MathErrors(s) ==
    IF s.type # "math" THEN {}
    ELSE {code \in {"math.artifact_refs.missing", "math.evidence_constraints.missing",
                    "math.structured_input.missing", "math.grading_contract.missing"} :
              \/ code = "math.artifact_refs.missing" /\ s.artifacts = {}
              \/ code = "math.evidence_constraints.missing" /\ "evidence" \notin s.has
              \/ code = "math.structured_input.missing" /\ s.mode # "math" /\ ~HasSteps(s)
              \/ code = "math.grading_contract.missing" /\ s.rubric = NoRef /\ ~HasContract(s)}
MathWarnings(s) ==
    IF s.type # "math" THEN {}
    ELSE {code \in {"math.stage_subtype.missing", "math.per_step_guidance.missing"} :
              \/ code = "math.stage_subtype.missing" /\ s.subtype = NoRef
              \/ /\ code = "math.per_step_guidance.missing"
                 /\ HasSteps(s) /\ "guidance" \notin s.has}

WritingErrors(p, s) ==
    IF s.type # "writing" THEN {}
    ELSE {code \in {"writing.evidence_constraints.missing", "writing.rubric.missing",
                    "writing.rubric.unresolved"} :
              \/ code = "writing.evidence_constraints.missing" /\ "evidence" \notin s.has
              \/ code = "writing.rubric.missing" /\ (~GradedByModel(s) \/ s.rubric = NoRef)
              \/ /\ code = "writing.rubric.unresolved"
                 /\ GradedByModel(s) /\ s.rubric \notin Rubrics(p) \cup {NoRef}}
\* A failed attempt gives something to revise against.
WritingWarnings(s) ==
    IF s.type = "writing" /\ s.hints = NoRef /\ s.has \cap {"feedback", "revision"} = {}
    THEN {"writing.revision_behavior.missing"} ELSE {}

\* collectStageRedactionTargets: the package's, the stage's, the gated
\* canonical text and what the rubric hides.
TargetsOf(p, s) ==
    (IF p.safety = NoRef THEN {} ELSE p.safety) \cup s.redactions
    \cup (IF s.rubric \in Rubrics(p) THEN p.rubrics[s.rubric].hidden ELSE {})
    \cup IF s.sees.canonical \in {"never", "after_pass"} THEN s.canonical ELSE {}

\* composeAttackBattery: an authored attack replaces the default of its id.
Battery(s) == DefaultAttack \cup DOMAIN s.leakTests
MustNotSay(s, attack) == IF attack \in DOMAIN s.leakTests THEN s.leakTests[attack] ELSE {}

\* runStageLeakTests, given what the model says to each attack.
Leaks(p, s, says) ==
    {attack \in Battery(s) : says[attack] \cap (TargetsOf(p, s) \cup MustNotSay(s, attack)) # {}}
LeakErrors(p, says) ==
    Issues("pedagogy.leak_test_failed", {f \in Stages(p) : Leaks(p, p.stages[f], says) # {}})

LeakTestsRequired(s) == GradedByModel(s) \/ MentorSeesAnswers(s)

\* validatePedagogy.
PedagogyErrors(p, says) ==
    Issues("stage.task.too_short", {f \in Stages(p) : "prompt" \notin p.stages[f].has})
    \cup Issues("stage.mentor_leak_tests.missing",
                {f \in Stages(p) : LeakTestsRequired(p.stages[f]) /\ DOMAIN p.stages[f].leakTests = {}})
    \cup (UNION {[code : MathErrors(p.stages[f]) \cup WritingErrors(p, p.stages[f]), at : {f}] :
                 f \in Stages(p)})
    \cup LeakErrors(p, says)

\* The first two stages, by file, are to take twenty minutes at most.
FirstTwoTooLong(p) ==
    {1, 2} \subseteq Stages(p) /\ p.stages[1].minutes + p.stages[2].minutes > 20

PedagogyWarnings(p) ==
    Issues("stage.hints.absent", {f \in Stages(p) : p.stages[f].hints = NoRef})
    \cup Issues("stage.redaction_targets.missing",
                {f \in Stages(p) : /\ p.stages[f].sees.canonical \notin {"always", "never"}
                                   /\ p.stages[f].redactions = {}})
    \cup (UNION {[code : MathWarnings(p.stages[f]) \cup WritingWarnings(p.stages[f]), at : {f}] :
                 f \in Stages(p)})
    \cup IF FirstTwoTooLong(p) THEN Issues("stages.first_two.too_long", {NoRef}) ELSE {}

\* validatePackage: the later layers run only on a sound structure.
Errors(p, says) ==
    IF ~Loads(p) THEN StructuralErrors(p)
    ELSE CrossLinkErrors(p) \cup SandboxErrors(p) \cup PedagogyErrors(p, says)
Warnings(p) ==
    StructuralWarnings(p)
    \cup IF ~Loads(p) THEN {}
         ELSE LinkWarnings(p) \cup SandboxWarnings(p) \cup PedagogyWarnings(p)
              \cup IF p.trace = NoRef THEN {} ELSE TraceMappingWarnings(p)
=============================================================================
