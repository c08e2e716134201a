---------------------------- MODULE ContentSeed ----------------------------
(***************************************************************************)
(* An author edits a package and the seed script mirrors it into the       *)
(* database: load, version row, one stage row per stage file, one node row *)
(* per graph node, one branch row per branch, the fixture's enrolment.     *)
(* Every upsert is a step of its own, for the script holds no transaction; *)
(* it may die between two and be run again, over a package edited          *)
(* meanwhile.                                                              *)
(***************************************************************************)
EXTENDS ContentRules, FiniteSetsExt, Functions

CONSTANTS
    Package,      \* what each revision of the package holds, a sequence
    FreeStage,    \* RELEASE_FREE_STAGE_IDS
    Says,         \* what the model may answer to the attacks
    MaxEdits, MaxRuns,   \* bounds on edits and on runs of the seed
    None

\* What the loader finds is finite, files and nodes are numbered, and a package
\* has a stage.  An absent value is none of these, and no mode.
SeedAssumption ==
    /\ None \notin DOMAIN Package
    /\ None \notin {"code", "experiment", "math", "writing", "decision"}
    /\ \A revision \in DOMAIN Package :
         LET p == Package[revision]
         IN  /\ Stages(p) # {}
             /\ Stages(p) \cup Nodes(p) \cup Branches(p) \subseteq Nat
             /\ IsFiniteSet(Stages(p) \cup Nodes(p) \cup Branches(p))
             /\ p.trace # NoRef => IsFiniteSet(DOMAIN p.trace)
             /\ None \notin StageIds(p) \cup Nodes(p)

VARIABLES
    files,        \* the revision in the author's tree
    seed,         \* the seed script: what it loaded and what it still has to write
    version,      \* PackageVersion row: the revision its sourceHash was taken from
    stageRow, nodeRow, branchRow,   \* rows by their unique key
    fixture,      \* rows of the fixture learner: user, account, session, membership
    enrolled,     \* the fixture's enrolment: its active stage
    edits, runs

vars == <<files, seed, version, stageRow, nodeRow, branchRow, fixture, enrolled, edits, runs>>
rows == <<version, stageRow, nodeRow, branchRow, fixture, enrolled>>

Loaded == Package[seed.loaded]
FixtureRow == 1 .. 4
Idle == [pc |-> "idle", loaded |-> None, left |-> {}]

Init ==
    /\ files \in DOMAIN Package
    /\ seed = Idle
    /\ version = None
    /\ stageRow = <<>>
    /\ nodeRow = <<>>
    /\ branchRow = <<>>
    /\ fixture = {}
    /\ enrolled = None
    /\ edits = 0
    /\ runs = 0

\* Row f with key k set to v; a row is never removed.
Upsert(f, k, v) == [x \in DOMAIN f \cup {k} |-> IF x = k THEN v ELSE f[x]]

Edit ==
    /\ edits < MaxEdits
    /\ edits' = edits + 1
    /\ files' \in DOMAIN Package \ {files}
    /\ UNCHANGED <<seed, rows, runs>>

----------------------------------------------------------------------------
(* buildPackageManifest and what the seed makes of it. *)

\* uiStageType and validationKindFor, the columns' vocabularies.
UiStageType(type) ==
    CASE type = "framing" -> "writing"
      [] type \in {"implementation", "math"} -> "code"
      [] OTHER -> type
ValidationKind(s) ==
    IF s.kind = "test" THEN "tests"
    ELSE IF s.kind = "hybrid" THEN IF Runner(s) = "replay" THEN "replay" ELSE "tests"
    ELSE "rubric"

\* The policy column is kept by stage id: of two files with one id, the last.
PolicyOf(p, id) == p.stages[Max({f \in Stages(p) : p.stages[f].id = id})]
StageData(p, f) ==
    LET s == p.stages[f]
        policy == PolicyOf(p, s.id)
    IN  [title |-> s.title, type |-> UiStageType(s.type), kind |-> ValidationKind(s),
         runner |-> Runner(s), rubric |-> s.rubric, free |-> s.id \in FreeStage,
         mode |-> policy.mode, palette |-> "palette" \in DOMAIN policy.lists]

\* The build keeps one file for each stage id, the last.
Kept(p) == {f \in Stages(p) : \A g \in Stages(p) : p.stages[g].id = p.stages[f].id => g <= f}
\* The stage a node names: by stage id, or by a path that a kept file's path ends
\* with; failing that, the stage whose id the named file is called after.
BuiltStageOf(p, n) ==
    LET written == p.nodes[n].stage
    IN  IF written.file \in (IF written.form = "id" THEN Stages(p) ELSE Kept(p))
        THEN p.stages[written.file].id
        ELSE IF written.form # "id" /\ written.file \in StageIds(p) THEN written.file ELSE None

\* The last node whose choices name a branch file called after the branch's id.
Owner(p, id) ==
    LET owners == {n \in Nodes(p) : id \in p.nodes[n].choices}
    IN  IF owners = {} THEN None ELSE Max(owners)
BranchData(p, f) ==
    [node |-> Owner(p, p.branches[f].id), level |-> p.branches[f].level,
     type |-> p.branches[f].type, title |-> p.branches[f].title]

\* buildSampleDecision: the first decision stage, or else the second stage by
\* its id, or else the first; the first node that names it.
SampleFile(p) ==
    LET decisions == {f \in Stages(p) : p.stages[f].type = "decision"}
        second == {f \in Stages(p) : p.stages[f].id = 2}
    IN  Min(IF decisions # {} THEN decisions ELSE IF second # {} THEN second ELSE Stages(p))
SampleNodes(p) ==
    LET f == SampleFile(p)
    IN  {n \in Nodes(p) : /\ p.nodes[n].stage.file = f
                         /\ (p.nodes[n].stage.form \in {"full", "id"} \/ p.stages[f].id = f)}
SampleChoices(p) ==
    IF SampleNodes(p) = {} THEN {} ELSE p.nodes[Min(SampleNodes(p))].choices
\* Without choices to go by, every branch is in the sample.  The summary of a
\* failed one is left out, its choice is not.
StoredSample(p) ==
    {[branch |-> f, type |-> IF p.branches[f].type \in {"canonical", "suboptimal", "failed"}
                             THEN p.branches[f].type ELSE "suboptimal",
      told |-> IF p.branches[f].type = "failed" THEN {"choice"} ELSE {"choice", "summary"}] :
     f \in {f \in Branches(p) : SampleChoices(p) = {} \/ p.branches[f].id \in SampleChoices(p)}}
\* readDecisionPreview and redactSampleDecision, on the way to the catalogue.
ShownSample(sample) ==
    {IF b.type = "failed" THEN [b EXCEPT !.told = {}] ELSE b : b \in sample}

----------------------------------------------------------------------------
(* The script. *)

\* Goes on to the next table when one has been written.
Proceed(left, next, items) ==
    IF left = {} THEN [seed EXCEPT !.pc = next, !.left = items] ELSE [seed EXCEPT !.left = left]

\* loadPackage throws on what does not parse, and nothing is written.
Load ==
    /\ seed.pc = "idle"
    /\ runs < MaxRuns
    /\ runs' = runs + 1
    /\ seed' = IF Loads(Package[files]) THEN [pc |-> "fixture", loaded |-> files, left |-> FixtureRow] ELSE Idle
    /\ UNCHANGED <<files, rows, edits>>

\* The fixture's user, account, session and membership, one after the other,
\* each made unless it is there.
WriteFixture ==
    /\ seed.pc = "fixture"
    /\ fixture' = fixture \cup {Min(seed.left)}
    /\ seed' = Proceed(seed.left \ {Min(seed.left)}, "version", {})
    /\ UNCHANGED <<files, version, stageRow, nodeRow, branchRow, enrolled, edits, runs>>

WriteVersion ==
    /\ seed.pc = "version"
    /\ version' = seed.loaded
    /\ seed' = [seed EXCEPT !.pc = "stages", !.left = Stages(Loaded)]
    /\ UNCHANGED <<files, stageRow, nodeRow, branchRow, fixture, enrolled, edits, runs>>

\* Mutant: an existing row is left as it is.
StageInsert(f) ==
    LET s == Loaded.stages[f]
    IN  IF s.id \in DOMAIN stageRow THEN stageRow ELSE Upsert(stageRow, s.id, StageData(Loaded, f))
StageUpsert(f) ==
    Upsert(stageRow, Loaded.stages[f].id, StageData(Loaded, f))

WriteStage ==
    /\ seed.pc = "stages"
    /\ LET f == Min(seed.left)
       IN  /\ stageRow' = StageUpsert(f)
           /\ seed' = Proceed(seed.left \ {f}, "nodes", Nodes(Loaded))
    /\ UNCHANGED <<files, version, nodeRow, branchRow, fixture, enrolled, edits, runs>>

WriteNode ==
    /\ seed.pc = "nodes"
    /\ LET n == Min(seed.left)
       IN  /\ nodeRow' = Upsert(nodeRow, n, BuiltStageOf(Loaded, n))
           /\ seed' = Proceed(seed.left \ {n},
                              IF Branches(Loaded) = {} THEN "enrol" ELSE "branches",
                              Branches(Loaded))
    /\ UNCHANGED <<files, version, stageRow, branchRow, fixture, enrolled, edits, runs>>

WriteBranch ==
    /\ seed.pc = "branches"
    /\ LET f == Min(seed.left)
       IN  /\ branchRow' = Upsert(branchRow, Loaded.branches[f].id, BranchData(Loaded, f))
           /\ seed' = Proceed(seed.left \ {f}, "enrol", {})
    /\ UNCHANGED <<files, version, stageRow, nodeRow, fixture, enrolled, edits, runs>>

FirstStage(p) == p.stages[Min(Stages(p))].id
\* The enrolment is created once, at the first stage, and then kept.
WriteEnrolment ==
    /\ seed.pc = "enrol"
    /\ enrolled' = IF enrolled = None THEN FirstStage(Loaded) ELSE enrolled
    /\ seed' = [seed EXCEPT !.pc = "done"]
    /\ UNCHANGED <<files, version, stageRow, nodeRow, branchRow, fixture, edits, runs>>

Finish ==
    /\ seed.pc = "done"
    /\ seed' = Idle
    /\ UNCHANGED <<files, rows, edits, runs>>

Crash ==
    /\ seed.pc \notin {"idle", "done"}
    /\ seed' = Idle
    /\ UNCHANGED <<files, rows, edits, runs>>

Next ==
    \/ Edit
    \/ Load \/ WriteFixture \/ WriteVersion
    \/ WriteStage \/ WriteNode \/ WriteBranch \/ WriteEnrolment
    \/ Finish \/ Crash

Spec == Init /\ [][Next]_vars

----------------------------------------------------------------------------
(* What the stage page makes of the rows. *)

\* modeFromPolicy; mixed input leaves the mode to the row's type.
ModeFromPolicy(mode) ==
    CASE mode \in {"code", "experiment", "math"} -> mode
      [] mode = "free_text" -> "writing"
      [] mode = "multiple_choice" -> "decision"
      [] OTHER -> None
\* inferMode: a type the page knows is a mode; or else what grades the stage.
InferMode(row) ==
    CASE row.type \in {"decision", "writing", "analysis", "code", "experiment",
                       "reflection", "review", "math"} -> row.type
      [] row.type = "framing" -> "writing"
      [] row.type = "implementation" -> "code"
      [] OTHER -> CASE row.kind = "tests" -> "code"
                    [] row.kind \in {"replay", "mini_experiment"} -> "experiment"
                    [] OTHER -> "writing"
PlayMode(row) ==
    IF ModeFromPolicy(row.mode) = None THEN InferMode(row) ELSE ModeFromPolicy(row.mode)

\* Branch rows whose node is on the stage.
Offered(stage) ==
    {id \in DOMAIN branchRow : /\ branchRow[id].node # None
                              /\ nodeRow[branchRow[id].node] = stage}

\* What the workspace of the page holds: a decision without branches, nothing.
Surface(stage) ==
    LET row == stageRow[stage]
        mode == PlayMode(row)
    IN  CASE mode = "decision" -> IF Offered(stage) = {} THEN "nothing" ELSE "choices"
          [] mode \in {"code", "experiment"} -> "cli"
          [] mode = "math" /\ row.palette -> "palette"
          [] OTHER -> "prose"

----------------------------------------------------------------------------
(* Properties. *)

Clean(p) == \E says \in Says : Errors(p, says) = {}
\* The validator does not ask for it: no two stage files have one id.
IdsAreUnique(p) == Cardinality(StageIds(p)) = Cardinality(Stages(p))
\* Branches and the branch nodes of the exploration tree, one to one.
TreeHoldsBranches(p) ==
    LET nodes == {i \in DOMAIN p.trace : p.trace[i].kind = "branch"}
    IN  /\ {p.trace[i].branch : i \in nodes} = BranchIds(p)
        /\ Cardinality(nodes) = Cardinality(BranchIds(p))

\* The branches of a stage, as the graph has it: those its nodes offer, where
\* the file is called after the branch.
ChoicesOf(p, stage) ==
    (UNION {p.nodes[n].choices : n \in {n \in Nodes(p) : BuiltStageOf(p, n) = stage}})
        \cap BranchIds(p)

\* The page shows a stage the way it was authored: what is run is done at the
\* command line, a formula is written as one, a choice has all its branches.
PlayedAsAuthored(p, s) ==
    /\ s.mode \in {"code", "experiment"} => Surface(s.id) = "cli"
    /\ s.mode = "math" => Surface(s.id) = IF "palette" \in DOMAIN s.lists THEN "palette" ELSE "prose"
    /\ s.mode = "free_text" => Surface(s.id) = "prose"
    /\ s.mode = "multiple_choice" \/ (s.mode = "mixed" /\ s.type = "decision") =>
           \A id \in ChoicesOf(p, s.id) :
               (\A n \in Nodes(p) : id \in p.nodes[n].choices => BuiltStageOf(p, n) = s.id)
                   => id \in Offered(s.id) /\ Surface(s.id) = "choices"

\* A seeded package that validates can be played: every node leads to the stage
\* of the file it names, every stage is shown as it was authored, a stage of
\* mathematics or writing has something to be graded against, and the preview
\* in the catalogue tells nothing of a failed branch.  One that validates
\* without a warning tells each branch once in the exploration tree.
ValidatedIsPlayable ==
    seed.pc = "done" /\ Clean(Loaded) /\ IdsAreUnique(Loaded) =>
        LET p == Loaded
        IN  /\ \A n \in Nodes(p) :
                   /\ nodeRow[n] \in DOMAIN stageRow
                   /\ stageRow[nodeRow[n]].title = p.stages[p.nodes[n].stage.file].title
            /\ \A f \in Stages(p) : PlayedAsAuthored(p, p.stages[f])
            /\ \A f \in Stages(p) : p.stages[f].type \in {"math", "writing"} =>
                   \/ stageRow[p.stages[f].id].rubric \in Rubrics(p)
                   \/ p.stages[f].type = "math" /\ HasContract(p.stages[f])
            /\ \A b \in ShownSample(StoredSample(p)) :
                   p.branches[b.branch].type = "failed" => b.told = {}
            /\ (Warnings(p) = {} /\ p.trace # NoRef => TreeHoldsBranches(p))

\* However many runs died before and whatever was edited between them, a run
\* that ends leaves the rows of its package as that package has them, and the
\* fixture enrolled at a stage that has a row, though it may have left since.
SeedConverges ==
    seed.pc = "done" =>
        LET p == Loaded
        IN  /\ version = seed.loaded
            /\ \A f \in Stages(p) :
                   (\A g \in Stages(p) : p.stages[g].id = p.stages[f].id => g <= f)
                       => stageRow[p.stages[f].id] = StageData(p, f)
            /\ \A n \in Nodes(p) : nodeRow[n] = BuiltStageOf(p, n)
            /\ \A f \in Branches(p) :
                   (\A g \in Branches(p) : p.branches[g].id = p.branches[f].id => g <= f)
                       => branchRow[p.branches[f].id] = BranchData(p, f)
            /\ fixture = FixtureRow /\ enrolled \in DOMAIN stageRow

Path(p, m, n) ==
    \E k \in 1..Cardinality(Nodes(p)) : \E path \in [0..k -> Nodes(p)] :
        /\ path[0] = m /\ path[k] = n
        /\ \A i \in 1..k : path[i] \in p.nodes[path[i - 1]].unlocks \cup p.nodes[path[i - 1]].byChoice
\* The plan of a stage that runs names the stages that run on some path to it
\* through the graph, cycles included, and no others.
PlansAreComplete ==
    seed.pc = "version" => \A plan \in Plans(Loaded) :
        plan.needs = {StageOf(Loaded, m) : m \in {m \in Nodes(Loaded) :
                          Path(Loaded, m, plan.node) /\ Gated(Loaded, StageOf(Loaded, m))}}

\* What the validator lets through is what play and the sandbox plans need.
ValidationSuffices == ValidatedIsPlayable /\ PlansAreComplete
=============================================================================
