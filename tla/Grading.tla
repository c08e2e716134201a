------------------------------ MODULE Grading ------------------------------
(* Grades and what becomes of them: the learner's answer and gradeAttempt of *)
(* GradedAnswer, and the reviewers of GradeOverride, who work on a Grade row *)
(* a grader has left.  Each behaviour is of one of the two, which share no   *)
(* state; the other rests.                                                   *)
EXTENDS GradedAnswer

CONSTANTS Override, Points, MaxFailures   \* of GradeOverride

VARIABLES part, grade, graded, request, commits, failures

answered == <<answering, vars>>
reviewed == <<grade, graded, request, commits, failures>>

Review == INSTANCE GradeOverride WITH
    Score <- Points, faults <- failures, MaxFaults <- MaxFailures

ASSUME GradingAssumption == Review!OverrideAssumption

\* A part that does not move begins in one of its initial states.
AnswerRests == task = (CHOOSE t \in Task : TRUE) /\ answer = CHOOSE a \in Answers(task) : TRUE
ReviewRests == /\ graded = [passed |-> FALSE, score |-> CHOOSE n \in Points : TRUE]
               /\ request = [o \in Override |-> [pc |-> "new", seen |-> <<>>, reply |-> "none",
                                        patch |-> [status |-> None, score |-> None],
                                        base |-> 0, at |-> 0]]

GradingInit ==
    /\ \/ part = "answer" /\ ReviewRests
       \/ part = "review" /\ AnswerRests
    /\ AnswerInit /\ Review!Init

GradingNext ==
    /\ UNCHANGED part
    /\ \/ part = "answer" /\ AnswerNext /\ UNCHANGED reviewed
       \/ part = "review" /\ Review!Next /\ UNCHANGED answered

GradingSpec == GradingInit /\ [][GradingNext]_<<part, answered, reviewed>>

\* GradeOverride: a committed override is in the history once, unless overtaken
\* by one that had read before it (override.ts).
AcknowledgedIsRecorded == Review!AcknowledgedIsRecorded

\* GradeOverride: the grade shown follows from the history and the overrides
\* lost from it (override.ts).
GradeIsExplained == Review!GradeIsExplained
=============================================================================
