----------------------------- MODULE MCAuthoring -----------------------------
(* The authored packages of MCContentSeed, and two runs of the drafting agent *)
(* on one package.                                                           *)
EXTENDS MCContentSeed, Authoring

CONSTANTS p1

\* Two spellings of one slug and one that validate_slug refuses; an input that
\* resolves and one that does not; a validator that answers, and one that cannot
\* be started.
Slugs == [plain |-> p1, shouted |-> p1, blank |-> None]
Spellings == DOMAIN Slugs
Inputs == {[form |-> "path", arxiv |-> FALSE, pdf |-> TRUE, file |-> there] : there \in BOOLEAN}
Outcomes == {[exit |-> 0, report |-> "ok"], [exit |-> 1, report |-> "bad"],
             [exit |-> 127, report |-> None]}

\* One revision in six to start from; an edit leads to any.
SomeRevisions == {revision \in DOMAIN ThePackages : revision % 6 = 1}
=============================================================================
