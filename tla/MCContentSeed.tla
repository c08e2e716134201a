--------------------------- MODULE MCContentSeed ---------------------------
(* A package of three stages that validates, and what may go wrong with it. *)
EXTENDS ContentSeed

S(id, title, type) ==
    [id |-> id, title |-> title, type |-> type, kind |-> "hybrid",
     subtype |-> IF type \in {"math", "writing"} THEN type ELSE NoRef,
     mode |-> IF type = "decision" THEN "multiple_choice" ELSE "code",
     runner |-> [top |-> "replay", nested |-> NoRef], rubric |-> 1, hints |-> 1,
     artifacts |-> {1}, has |-> {"prompt", "evidence"}, threshold |-> 70, minutes |-> 10,
     lists |-> <<>>, fields |-> {{"id"}}, tolerances |-> {}, forms |-> {}, wrong |-> {},
     redactions |-> {"hidden"}, canonical |-> {"answer"},
     sees |-> [canonical |-> "after_pass", branches |-> "never", evidence |-> "always",
               others |-> {"always"}],
     leakTests |-> [a \in {"authored"} |-> {"phrase"}]]
N(file, unlocks) ==
    [stage |-> [form |-> "full", file |-> file], choices |-> {}, unlocks |-> unlocks, byChoice |-> {}]
B(id) == [id |-> id, title |-> id, type |-> "failed", level |-> "explicit", sources |-> {1},
          evidence |-> {1}, next |-> {}]
R == [mode |-> "replay", has |-> {"command", "output"}]
Rubric == [shape |-> "criteria", counts |-> <<2, 0>>, threshold |-> 1400, total |-> 20,
           hidden |-> {"secret"}]
T(id, kind, branch) ==
    [id |-> id, kind |-> kind, branch |-> branch, parents |-> {}, children |-> {}]

Base ==
    [found |-> RequiredFile \cup RequiredDir, wrong |-> {}, resources |-> {},
     stages |-> [f \in 1..3 |-> S(f, f, CASE f = 1 -> "decision" [] f = 2 -> "math" [] OTHER -> "writing")],
     nodes |-> <<[N(1, {2}) EXCEPT !.choices = {1}], [N(2, {}) EXCEPT !.byChoice = {3}], N(3, {})>>,
     branches |-> <<B(1)>>, rubrics |-> <<Rubric>>, hints |-> <<[hints |-> 0, levels |-> 2]>>,
     runner |-> [s \in 1..3 |-> R], trace |-> <<T(1, "root", NoRef), T(2, "branch", 1)>>,
     edges |-> {<<1, 2>>}, artifact |-> {1}, outside |-> {2}, safety |-> {"phrase"}, canonical |-> {1}]

Math == [Base.stages[2] EXCEPT !.mode = "math"]

TheSays == {[a \in {"direct-ask", "authored"} |-> said] : said \in {{}, {"answer"}}}
Of(s) == [Base EXCEPT !.stages[2] = s]
And(s) == [Of(Math) EXCEPT !.stages[3] = s]
Wr == S(3, 3, "writing")
At(form, file) == [Of(Math) EXCEPT !.nodes[2].stage = [form |-> form, file |-> file]]
Branch(b) == [Of(Math) EXCEPT !.branches[1] = b]
Steps == [list \in {"answer"} |-> 3]
Holding(list) == [l \in {list} |-> 0]
First(s) == [Of(Math) EXCEPT !.stages[1] = s]
Dec == S(1, 1, "decision")
Graded(r) == [Of(Math) EXCEPT !.rubrics[1] = r]
Tree(t) == [Of(Math) EXCEPT !.trace = t]

ThePackages == <<
    Base, [Base EXCEPT !.found = {"package.yaml"}], [Base EXCEPT !.runner = NoRef],
    [Base EXCEPT !.trace = NoRef], [Base EXCEPT !.canonical = {}],
    \* stages
    Of(Math), Of([Math EXCEPT !.rubric = NoRef]), Of([Math EXCEPT !.rubric = 2]),
    Of([Math EXCEPT !.rubric = NoRef, !.lists = Steps]),
    Of([Math EXCEPT !.rubric = NoRef, !.tolerances = {{"absolute"}}, !.has = @ \cup {"guidance"}]),
    Of([Math EXCEPT !.kind = "test"]), Of([Math EXCEPT !.kind = "metric"]), Of([Math EXCEPT !.id = 1]),
    Of([Math EXCEPT !.threshold = NoRef]), Of([Math EXCEPT !.artifacts = {}]),
    Of([Math EXCEPT !.artifacts = {2, 3}]), Of([Math EXCEPT !.leakTests = <<>>]),
    Of([Math EXCEPT !.title = 4]), First([Dec EXCEPT !.id = 2]),
    And(Wr), And([Wr EXCEPT !.kind = "test"]), And([Wr EXCEPT !.rubric = NoRef]),
    And([Wr EXCEPT !.has = @ \ {"evidence"}]),
    [Base EXCEPT !.stages = <<S(1, 1, "decision"), Math>>],
    [Base EXCEPT !.stages = <<S(4, 5, "decision"), Math, Wr>>],
    \* what the page shows
    First([Dec EXCEPT !.mode = "mixed"]), First([Dec EXCEPT !.mode = "free_text"]),
    First([Dec EXCEPT !.type = "framing", !.mode = "mixed"]),
    First([Dec EXCEPT !.type = "analysis", !.mode = "experiment"]),
    Of([Math EXCEPT !.lists = [list \in {"palette"} |-> 2]]),
    Of([Math EXCEPT !.mode = "mixed", !.lists = Steps]),
    \* what does not parse, and what is lifted
    Of([Math EXCEPT !.lists = Holding("answer")]), Of([Math EXCEPT !.lists = Holding("palette")]),
    Of([Math EXCEPT !.fields = {{}}]), Of([Math EXCEPT !.tolerances = {{}}]),
    Of([Math EXCEPT !.forms = {0, 1}]), Of([Math EXCEPT !.threshold = 101]),
    Of([Math EXCEPT !.subtype = "writing"]), Of([Math EXCEPT !.wrong = {"policy"}]),
    Of([Math EXCEPT !.mode = "code", !.runner = [top |-> NoRef, nested |-> NoRef]]),
    Of([Math EXCEPT !.runner = [top |-> "none", nested |-> "replay"]]),
    And([Wr EXCEPT !.has = @ \cup {"reviewer"}]),
    Graded([Rubric EXCEPT !.shape = "dimensions"]), Graded([Rubric EXCEPT !.threshold = 2100]),
    Graded([Rubric EXCEPT !.threshold = 10100, !.total = NoRef]), Graded([Rubric EXCEPT !.total = 0]),
    [Of(Math) EXCEPT !.safety = {}], [Of(Math) EXCEPT !.safety = NoRef],
    [Of(Math) EXCEPT !.hints[1].levels = 0], [Of(Math) EXCEPT !.resources = {"timeout"}],
    \* nodes
    At("short", 2), At("base", 2), At("id", 2), At("full", 4), At("short", 4), At("base", 4),
    [Of(Math) EXCEPT !.nodes[3].unlocks = {1}], [Of(Math) EXCEPT !.nodes[3].unlocks = {4}],
    [Of(Math) EXCEPT !.runner[2].mode = "none"],
    [Of(Math) EXCEPT !.runner[2].has = {"command", "no_fixture"}],
    [Of(Math) EXCEPT !.runner[2].has = {"output"}],
    \* branches and the tree
    Branch(B(2)), Branch([B(1) EXCEPT !.type = "canonical"]), Branch([B(1) EXCEPT !.sources = {}]),
    Branch([B(1) EXCEPT !.level = "inferred", !.evidence = {}]),
    Tree(<<T(1, "root", NoRef), T(1, "branch", 1)>>), Tree(<<T(1, "branch", 1), T(2, "branch", 1)>>),
    Tree(<<T(1, "root", NoRef), T(2, "branch", 2)>>), Tree(<<T(NoRef, "root", NoRef)>>) >>
=============================================================================
