-------------------------- MODULE MCGrading --------------------------------
EXTENDS Grading, TLC

Lengths == {0, 1, 19, 20, 21, 79, 80, 100}
Tensor(shape, leaves, uniform) == [shape |-> shape, leaves |-> leaves, uniform |-> uniform]
Pair(a, b) == Tensor(<<2>>, <<a, b>>, TRUE)
Seen(values, units) == [value : values, unit : units]
SomeOf(S, n) == UNION {[1..k -> S] : k \in 0..n}
Policy(holders) == [allowed |-> {"e1", "e2"}, placeholders |-> {"tbd"}, allowHolders |-> holders]
Step(id, required) == [id |-> id, hasForms |-> TRUE, weight |-> 1, required |-> required]

MCTask ==
    [kind : {"web"}, spec : {[rubric |-> r, threshold |-> t] :
        r \in {<<>>, <<Mark("other", 1), Mark("structure", 2)>>}, t \in {<<0, 1>>, <<6, 10>>}}]
    \cup [kind : {"proof"}, spec : [minSteps : {-1, 0, 1, 2}, justify : BOOLEAN]]
    \cup [kind : {"counterexample"}, spec : [mustViolate : {{}, {"p"}, {"p", "q"}},
                                             verifier : {"none", "accepts", "rejects", "throws"}]]
    \cup [kind : {"explanation"}, spec : [minWords : {0, 20}, maxWords : {Absent, 10, 79},
                                          concepts : {{}, {"p"}, {"p", "q"}}]]
    \cup [kind : {"derivation"}, spec : {[steps |-> s] : s \in
            {<<>>, <<Step(1, TRUE), Step(2, FALSE)>>,
             <<[Step(1, TRUE) EXCEPT !.hasForms = FALSE], Step(2, TRUE)>>}}]
    \cup [kind : {"numeric"}, spec : [expected : {Pair(2, -10)}, absolute : {Absent, 1}, relative : {Absent, 1},
                                      unit : {Absent, "ms"}, shape : {Absent, <<2>>, <<>>}]]
    \cup [kind : {"complexity"}, spec : [max : {Absent, 1, 5}, min : {Absent, 2}, unit : {"ms"}]]
    \cup [kind : {"shapes"}, spec : [expected : {[n \in {"w", "b"} |-> <<2>>], [n \in {"w"} |-> <<>>]},
                                     allowExtra : BOOLEAN]]
    \cup [kind : {"writing"}, spec : {[policy |-> Policy(h)] : h \in BOOLEAN}]

MCAnswers(t) ==
    CASE t.kind = "web" ->
           {a \in [words : Lengths, hits : {0, 1, 2, 4}, paragraphs : 0..3, bullets : {0, 2, 4}] :
              /\ (a.words = 0) <=> (a.paragraphs = 0)
              /\ a.words = 0 => a.hits = 0
              /\ a.bullets <= a.words}
      [] t.kind = "proof" -> [steps : SomeOf(BOOLEAN, 3)]
      [] t.kind = "counterexample" -> [witness : BOOLEAN, violates : SUBSET {"p", "q", "r"}]
      [] t.kind = "explanation" -> {a \in [words : Lengths, concepts : SUBSET {"p", "q"}] :
                                      a.words = 0 => a.concepts = {}}
      [] t.kind = "derivation" ->
           [entries : SomeOf([id : 1..2, form : {"blank", "accepted", "other"}], 3)]
      [] t.kind = "numeric" ->
           Seen({Absent, Tensor(<<>>, <<2>>, TRUE), Tensor(<<2>>, <<2, 2>>, FALSE)}
                \cup {Pair(a, b) : a \in {1, 2, 4}, b \in {-10, -9, -13, NotFinite}}, {Absent, "ms", "s"})
      [] t.kind = "complexity" ->
           Seen({Absent, Pair(1, 1)} \cup {Tensor(<<>>, <<n>>, TRUE) : n \in (0..6) \cup {NotFinite}},
                {Absent, "ms"})
      [] t.kind = "shapes" ->
           [shapes : UNION {[N -> {<<>>, <<2>>, <<-1>>}] : N \in SUBSET {"w", "b", "x"}}]
      [] t.kind = "writing" ->
           [claims : SomeOf([wellFormed : BOOLEAN, required : {TRUE},
                             refs : SUBSET {"e1", "tbd", "zz"}], 1)
                     \cup {<<[wellFormed |-> TRUE, required |-> FALSE, refs |-> r],
                            [wellFormed |-> TRUE, required |-> TRUE, refs |-> s]>> :
                             r \in SUBSET {"e1", "tbd"}, s \in SUBSET {"e1", "tbd"}}]
MCThreshold == {None, 1}
Symmetry == Permutations(Call) \cup Permutations(Override)
=============================================================================
